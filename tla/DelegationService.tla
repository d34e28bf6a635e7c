------------------------- MODULE DelegationService -------------------------
(***************************************************************************)
(* What a delegation library promises its clients, whatever the mechanism. *)
(* A client hands over a function and an argument and waits; the function  *)
(* is applied to the shared variable the argument names, once, in one      *)
(* indivisible step somewhere between the call and the return; the client  *)
(* gets exactly the value that application computed.                       *)
(***************************************************************************)
CONSTANTS
  Clients,    \* the client threads
  Fns,        \* the functions that may be delegated
  Vars,       \* the shared variables, named by the functions' argument
  InitVal,    \* the value every shared variable starts with
  None,       \* the absence of an operation or of a result
  Apply(_,_)  \* Apply(f, v): what f does to a variable that holds v

VARIABLES
  mem,        \* the value of each shared variable
  st,         \* the state of each client's call
  op,         \* the operation each client has handed over
  res,        \* the result computed for it
  ret         \* the value each client's last call returned

vars == <<mem, st, op, res, ret>>

Ops == [fn : Fns, var : Vars]

Init ==
  /\ mem = [v \in Vars |-> InitVal]
  /\ st  = [c \in Clients |-> "idle"]
  /\ op  = [c \in Clients |-> None]
  /\ res = [c \in Clients |-> None]
  /\ ret = [c \in Clients |-> InitVal]

\* The client hands operation o over.
Invoke(c, o) ==
  /\ st[c] = "idle"
  /\ st' = [st EXCEPT ![c] = "pending"]
  /\ op' = [op EXCEPT ![c] = o]
  /\ UNCHANGED <<mem, res, ret>>

\* The operation takes effect.
Execute(c) ==
  /\ st[c] = "pending"
  /\ st'  = [st  EXCEPT ![c] = "done"]
  /\ mem' = [mem EXCEPT ![op[c].var] = Apply(op[c].fn, mem[op[c].var]).val]
  /\ res' = [res EXCEPT ![c] = Apply(op[c].fn, mem[op[c].var]).ret]
  /\ UNCHANGED <<op, ret>>

\* The client gets the result.
Return(c) ==
  /\ st[c] = "done"
  /\ st'  = [st  EXCEPT ![c] = "idle"]
  /\ op'  = [op  EXCEPT ![c] = None]
  /\ res' = [res EXCEPT ![c] = None]
  /\ ret' = [ret EXCEPT ![c] = res[c]]
  /\ UNCHANGED mem

Next ==
  \E c \in Clients :
    \/ \E o \in Ops : Invoke(c, o)
    \/ Execute(c)
    \/ Return(c)

Spec == Init /\ [][Next]_vars
=============================================================================
