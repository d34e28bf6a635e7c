------------------------------- MODULE HSynch -------------------------------
(***************************************************************************)
(* The hierarchical combining lock H-Synch, sim-synch/hsynch.h: a CC-Synch *)
(* queue for each cluster of threads, whose combiners take a central CLH   *)
(* lock before they execute requests.  The nodes hold their arguments.     *)
(***************************************************************************)
EXTENDS CCSynch

CONSTANT Dummy

VARIABLES central_lock, locked, MyNode, MyPred, at, arrived

CentralLock == INSTANCE CLH WITH L <- central_lock, my_qnode <- MyNode, my_pred <- MyPred

clhvars == <<central_lock, locked, MyNode, MyPred, at, arrived>>
hvars == <<vars, clhvars>>

HInit == Init /\ CentralLock!Init

\* Mutant: the combiner does not take the central lock.
clhLockSkipped(t) ==
  /\ pc[t] = "clhLock"
  /\ Goto(t, "combine")
  /\ UNCHANGED <<tail, node, mapped, Local, Caller, mem, clhvars>>

clhLock(t) ==
  /\ pc[t] = "clhLock"
  /\ CentralLock!Acquire(t)
  /\ IF at'[t] = "cs" THEN Goto(t, "combine") ELSE UNCHANGED pc
  /\ UNCHANGED <<tail, node, mapped, Local, Caller, mem>>

\* Mutant: the central lock is not released.
clhUnlockSkipped(t) ==
  /\ pc[t] = "clhUnlock"
  /\ Goto(t, "return")
  /\ UNCHANGED <<tail, node, mapped, Local, Caller, mem, clhvars>>

clhUnlock(t) ==
  /\ pc[t] = "clhUnlock"
  /\ CentralLock!Release(t)
  /\ Goto(t, "return")
  /\ UNCHANGED <<tail, node, mapped, Local, Caller, mem>>

\* Mutant: the argument is that of the combiner's own call.
ArgOfCombiner(t) == op[t].var

\* The argument of the request that thread t executes.
ArgOf(t) == node[tmp_node[t]].arg

\* A step of applyOp.
HStep(t) ==
  \/ clhLock(t)
  \/ clhUnlock(t)
  \/ /\ \/ Swap(t) \/ Publish(t) \/ Link(t) \/ Wait(t, "clhLock") \/ Combine(t)
        \/ Load(t, ArgOf(t)) \/ Store(t, ArgOf(t)) \/ Release(t) \/ Handoff(t, "clhUnlock") \/ Return(t)
     /\ UNCHANGED clhvars

HCall(t) == (\E o \in Ops : Call(t, o)) /\ UNCHANGED clhvars

HTerminated == (\A t \in Threads : pc[t] = "idle" /\ calls[t] = MaxCalls[t]) /\ UNCHANGED hvars

HNext == (\E t \in Threads : HStep(t) \/ HCall(t)) \/ HTerminated
=============================================================================
