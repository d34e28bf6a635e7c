-------------------------- MODULE CombiningService --------------------------
(***************************************************************************)
(* DelegationService, where the argument of an operation may be that of    *)
(* another call: what CC-Synch and liblock's DSM-Synch promise, whose      *)
(* combiner runs the functions of the others with its own argument.  For   *)
(* clients that all pass one argument it is DelegationService.             *)
(***************************************************************************)
EXTENDS DelegationService

\* The operation of client c takes effect on the argument of client d, which is
\* c itself or one whose own operation has taken effect and that has not returned.
ExecuteBy(c, d) ==
  /\ st[c] = "pending" /\ (d = c \/ st[d] = "done")
  /\ st'  = [st  EXCEPT ![c] = "done"]
  /\ mem' = [mem EXCEPT ![op[d].var] = Apply(op[c].fn, mem[op[d].var]).val]
  /\ res' = [res EXCEPT ![c] = Apply(op[c].fn, mem[op[d].var]).ret]
  /\ UNCHANGED <<op, ret>>

CombiningNext ==
  \E c \in Clients :
    \/ \E o \in Ops : Invoke(c, o)
    \/ \E d \in Clients : ExecuteBy(c, d)
    \/ Return(c)

CombiningSpec == Init /\ [][CombiningNext]_vars
=============================================================================
