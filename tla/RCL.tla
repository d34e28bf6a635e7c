-------------------------------- MODULE RCL ---------------------------------
(***************************************************************************)
(* Remote core locking, liblock/rcl.c: the request array of one server and *)
(* its servicing threads, which share one core and are preempted by the    *)
(* manager anywhere.  A lock's data is the variable it protects, so the    *)
(* impl of a request is that variable.  Clients are their thread ids.      *)
(* GDB_PROOF tells the two builds of the loop apart; the macro is          *)
(* commented out in the source.  Condition variables are in RCLCond;       *)
(* critical sections that call liblock_exec themselves are left out.       *)
(***************************************************************************)
EXTENDS Naturals

CONSTANTS
  N,             \* id_manager.first_free: clients are 1 .. N
  Servicing,     \* the servicing threads
  GDB_PROOF, Fns, Vars, InitVal, Apply(_,_), None,
  MaxCalls       \* MaxCalls[c] bounds the calls of client c

Clients == 1 .. N

VARIABLES
  requests,      \* requests[c]: impl, val, pending and servicing_owner
  locked,        \* of each lock
  th,            \* of each servicing thread: where it is, its request and locals
  pc, op, ret, calls, mem

vars == <<requests, locked, th, pc, op, ret, calls, mem>>

Caller == <<pc, op, ret, calls>>

Scan(i) == [at |-> "scan", i |-> i, pending |-> None, impl |-> None, seen |-> InitVal]

Init ==
  /\ requests = [c \in Clients |-> [impl |-> None, val |-> None, pending |-> None, servicing_owner |-> None]]
  /\ locked = [v \in Vars |-> FALSE]
  /\ th = [s \in Servicing |-> Scan(1)]
  /\ pc = [c \in Clients |-> "idle"]
  /\ op = [c \in Clients |-> None]
  /\ ret = [c \in Clients |-> InitVal]
  /\ calls = [c \in Clients |-> 0]
  /\ mem = [v \in Vars |-> InitVal]
-----------------------------------------------------------------------------
\* Mutant: the lock of a client's first request is kept.
CallKeepsImpl(c, o) ==
  /\ pc[c] = "idle"
  /\ calls[c] < MaxCalls[c]
  /\ calls' = [calls EXCEPT ![c] = @ + 1]
  /\ op' = [op EXCEPT ![c] = o]
  /\ requests' = [requests EXCEPT ![c] = [@ EXCEPT !.impl = IF @ = None THEN o.var ELSE @, !.val = None]]
  /\ pc' = [pc EXCEPT ![c] = "post"]
  /\ UNCHANGED <<locked, th, ret, mem>>

\* do_liblock_execute_operation: the request is filled in, then made pending.
Call(c, o) ==
  /\ pc[c] = "idle"
  /\ calls[c] < MaxCalls[c]
  /\ calls' = [calls EXCEPT ![c] = @ + 1]
  /\ op' = [op EXCEPT ![c] = o]
  /\ requests' = [requests EXCEPT ![c] = [@ EXCEPT !.impl = o.var, !.val = None]]
  /\ pc' = [pc EXCEPT ![c] = "post"]
  /\ UNCHANGED <<locked, th, ret, mem>>

Post(c) ==
  /\ pc[c] = "post"
  /\ requests' = [requests EXCEPT ![c].pending = op[c].fn]
  /\ pc' = [pc EXCEPT ![c] = "wait"]
  /\ UNCHANGED <<locked, th, op, ret, calls, mem>>

Return(c) ==
  /\ pc[c] = "wait"
  /\ requests[c].pending = None
  /\ ret' = [ret EXCEPT ![c] = requests[c].val]
  /\ op' = [op EXCEPT ![c] = None]
  /\ pc' = [pc EXCEPT ![c] = "idle"]
  /\ UNCHANGED <<requests, locked, th, calls, mem>>
-----------------------------------------------------------------------------
\* servicing_loop, at the request of thread s.
request(s) == requests[th[s].i]

Goto(s, from, to) == th[s].at = from /\ th' = [th EXCEPT ![s].at = to]

\* The next request; after the last, the loop starts over.
Leave(s) == th' = [th EXCEPT ![s] = Scan(IF th[s].i = N THEN 1 ELSE th[s].i + 1)]

ReadPending(s) ==
  /\ th[s].at = "scan"
  /\ IF request(s).pending = None
       THEN Leave(s)
       ELSE th' = [th EXCEPT ![s] = [@ EXCEPT
              !.at = IF GDB_PROOF THEN "own" ELSE "impl",
              !.pending = IF GDB_PROOF THEN None ELSE request(s).pending]]
  /\ UNCHANGED <<requests, locked, Caller, mem>>

Own(s) ==
  /\ th[s].at = "own"
  /\ IF request(s).servicing_owner = None
       THEN /\ Goto(s, "own", "reread")
            /\ requests' = [requests EXCEPT ![th[s].i].servicing_owner = s]
       ELSE Leave(s) /\ UNCHANGED requests
  /\ UNCHANGED <<locked, Caller, mem>>

\* Mutant: pending is taken from the test before the request was owned.
RereadStale(s) ==
  /\ th[s].at = "reread"
  /\ th' = [th EXCEPT ![s] = [@ EXCEPT !.at = "impl", !.pending = CHOOSE f \in Fns : TRUE]]
  /\ UNCHANGED <<requests, locked, Caller, mem>>

Reread(s) ==
  /\ th[s].at = "reread"
  /\ th' = [th EXCEPT ![s] = [@ EXCEPT
               !.at = IF request(s).pending = None THEN "disown" ELSE "impl",
               !.pending = request(s).pending]]
  /\ UNCHANGED <<requests, locked, Caller, mem>>

ReadImpl(s) ==
  /\ th[s].at = "impl"
  /\ th' = [th EXCEPT ![s] = [@ EXCEPT !.at = "lock", !.impl = request(s).impl]]
  /\ UNCHANGED <<requests, locked, Caller, mem>>

Lock(s) ==
  /\ th[s].at = "lock"
  /\ IF ~locked[th[s].impl]
       THEN Goto(s, "lock", "load")
       ELSE IF GDB_PROOF THEN Goto(s, "lock", "disown") ELSE Leave(s)
  /\ locked' = [locked EXCEPT ![th[s].impl] = TRUE]
  /\ UNCHANGED <<requests, Caller, mem>>

\* request->val = pending(request->val), a load and a store.
Load(s) ==
  /\ th[s].at = "load"
  /\ th' = [th EXCEPT ![s] = [@ EXCEPT !.at = "store", !.seen = mem[th[s].impl]]]
  /\ UNCHANGED <<requests, locked, Caller, mem>>

Store(s) ==
  LET r == Apply(th[s].pending, th[s].seen) IN
  /\ Goto(s, "store", IF GDB_PROOF THEN "unlock" ELSE "clear")
  /\ mem' = [mem EXCEPT ![th[s].impl] = r.val]
  /\ requests' = [requests EXCEPT ![th[s].i].val = r.ret]
  /\ UNCHANGED <<locked, Caller>>

Clear(s) ==
  /\ Goto(s, "clear", IF GDB_PROOF THEN "disown" ELSE "unlock")
  /\ requests' = [requests EXCEPT ![th[s].i].pending = None]
  /\ UNCHANGED <<locked, Caller, mem>>

\* Mutant: the lock is not released.
UnlockNot(s) ==
  /\ th[s].at = "unlock"
  /\ IF GDB_PROOF THEN Goto(s, "unlock", "clear") ELSE Leave(s)
  /\ UNCHANGED <<requests, locked, Caller, mem>>

Unlock(s) ==
  /\ th[s].at = "unlock"
  /\ IF GDB_PROOF THEN Goto(s, "unlock", "clear") ELSE Leave(s)
  /\ locked' = [locked EXCEPT ![th[s].impl] = FALSE]
  /\ UNCHANGED <<requests, Caller, mem>>

Disown(s) ==
  /\ th[s].at = "disown"
  /\ Leave(s)
  /\ requests' = [requests EXCEPT ![th[s].i].servicing_owner = None]
  /\ UNCHANGED <<locked, Caller, mem>>

Service(s) ==
  \/ ReadPending(s) \/ Own(s) \/ Reread(s) \/ ReadImpl(s) \/ Lock(s)
  \/ Load(s) \/ Store(s) \/ Clear(s) \/ Unlock(s) \/ Disown(s)

Ops == [fn : Fns, var : Vars]

Step(c) == Post(c) \/ Return(c)

Next ==
  \/ \E c \in Clients : Step(c) \/ \E o \in Ops : Call(c, o)
  \/ \E s \in Servicing : Service(s)

Spec == Init /\ [][Next]_vars
-----------------------------------------------------------------------------
\* Where a servicing thread has executed a request that is still pending.
DoneAt == IF GDB_PROOF THEN {"unlock", "clear"} ELSE {"clear"}

\* The operation of client c has taken effect.
Executed(c) ==
  /\ pc[c] = "wait"
  /\ \/ requests[c].pending = None
     \/ \E s \in Servicing : th[s].i = c /\ th[s].at \in DoneAt

Abstract == INSTANCE DelegationService WITH
  st <- [c \in Clients |->
    IF pc[c] = "idle" THEN "idle" ELSE IF Executed(c) THEN "done" ELSE "pending"],
  res <- [c \in Clients |-> IF Executed(c) THEN requests[c].val ELSE None]

\* Each critical section is executed once, under its lock, during its call,
\* and the client gets its result, however the servicing threads interleave: of
\* any number of them with GDB_PROOF, of one without.
Serves == UNCHANGED Abstract!vars \/ Abstract!Next

Linearizable == Abstract!Spec
-----------------------------------------------------------------------------
\* There is a client, None is something else than a function or a thread, and
\* the loop without owners runs on one thread.
Sizes ==
  /\ N \in Nat \ {0}
  /\ None \notin Fns /\ None \notin Servicing
  /\ GDB_PROOF \in BOOLEAN
  /\ GDB_PROOF \/ \A s, r \in Servicing : s = r

\* Where a servicing thread is at a request that no other may take, at one that
\* is pending, at one whose lock it has looked up, and where it has the lock.
BusyAt == {"reread", "impl", "lock", "load", "store", "unlock", "clear", "disown"}
ServingAt == {"impl", "lock", "load", "store"} \cup DoneAt
NamedAt == {"lock", "load", "store"} \cup DoneAt
HoldsAt == {"load", "store", "unlock"} \cup IF GDB_PROOF THEN {} ELSE {"clear"}

\* The fields of the records, and the domains of the functions; the values of the
\* variables and the results may be anything.
IsRequest(q) ==
  q = [impl |-> q.impl, val |-> q.val, pending |-> q.pending, servicing_owner |-> q.servicing_owner]

IsThread(t) ==
  t = [at |-> t.at, i |-> t.i, pending |-> t.pending, impl |-> t.impl, seen |-> t.seen]

Shapes ==
  /\ requests = [c \in Clients |-> requests[c]]
  /\ locked \in [Vars -> BOOLEAN]
  /\ th = [s \in Servicing |-> th[s]]
  /\ pc = [c \in Clients |-> pc[c]]
  /\ op = [c \in Clients |-> op[c]]
  /\ ret = [c \in Clients |-> ret[c]]
  /\ mem = [v \in Vars |-> mem[v]]

\* A client's request is pending from its post until it is executed.
ClientInv(c) ==
  /\ IsRequest(requests[c])
  /\ pc[c] \in {"idle", "post", "wait"}
  /\ pc[c] # "idle" => op[c] \in Ops /\ requests[c].impl = op[c].var
  /\ requests[c].pending # None => pc[c] = "wait" /\ requests[c].pending = op[c].fn

\* What a servicing thread has read is still so.
ThreadInv(s) ==
  LET r == request(s) IN
  /\ IsThread(th[s])
  /\ th[s].i \in Clients
  /\ GDB_PROOF /\ th[s].at \in BusyAt => r.servicing_owner = s
  /\ th[s].at \in ServingAt => r.pending # None /\ th[s].pending = r.pending
  /\ th[s].at \in NamedAt => th[s].impl = r.impl
  /\ th[s].at \in HoldsAt => th[s].impl \in Vars /\ locked[th[s].impl]
  /\ th[s].at = "store" => th[s].seen = mem[th[s].impl]

\* The locks exclude the servicing threads.
LockInv ==
  \A s, r \in Servicing :
    s # r /\ th[s].at \in HoldsAt /\ th[r].at \in HoldsAt => th[s].impl # th[r].impl

\* What the refinement rests on.
ServiceInv ==
  /\ Shapes
  /\ \A c \in Clients : ClientInv(c)
  /\ \A s \in Servicing : ThreadInv(s)
  /\ LockInv
=============================================================================
