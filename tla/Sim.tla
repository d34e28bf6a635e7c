-------------------------------- MODULE Sim --------------------------------
(***************************************************************************)
(* The wait-free universal object P-Sim, sim-synch/sim.c.  A thread        *)
(* announces its operation by flipping its bit in a_toggles, and at most   *)
(* twice copies the current record of the object into one of its own,      *)
(* applies all announced operations to the copy and tries to swing sp to   *)
(* it.  Each thread has LOCAL_POOL_SIZE records that it reuses in turn,    *)
(* while others may still be reading them.                                 *)
(***************************************************************************)
EXTENDS Integers, SequencesExt

CONSTANTS
  Threads, Fns, Vars, InitVal, Apply(_,_), None,
  LOCAL_POOL_SIZE,
  Before(_,_),      \* the order of the threads' bits
  MaxCalls          \* bound on the calls of each thread

VARIABLES
  sp,               \* the index of the current record and a sequence number
  pool,             \* the records
  a_toggles,        \* the threads whose bit is set
  announce,
  th,               \* SimThreadState and the locals of apply_op
  op, ret, calls

vars == <<sp, pool, a_toggles, announce, th, op, ret, calls>>

Indices == (Threads \X (0 .. LOCAL_POOL_SIZE - 1)) \cup {None}

\* The locals between two calls.  A local that is not read again before it is
\* assigned is reset below.
Fresh(t, index) ==
  [pc |-> "idle", local_index |-> index, lsp |-> None, old_sp |-> None, l_toggles |-> {}, j |-> 0]

Init ==
  /\ sp = [index |-> None, seq |-> 0]
  /\ pool = [i \in Indices |->
       [applied |-> {}, state |-> InitVal, ret |-> [t \in Threads |-> None]]]
  /\ a_toggles = {}
  /\ announce = [t \in Threads |-> None]
  /\ th = [t \in Threads |-> Fresh(t, 0)]
  /\ op = [t \in Threads |-> None]
  /\ ret = [t \in Threads |-> InitVal]
  /\ calls = [t \in Threads |-> 0]

Shared == <<sp, pool, a_toggles, announce>>
Caller == <<op, ret, calls>>

Flip(S, t) == IF t \in S THEN S \ {t} ELSE S \cup {t}

\* The operation of thread t is in record i: its bit there is the one the thread
\* gave it in a_toggles, and remembers in my_bit.
Applied(t, i) == t \in pool[i].applied <=> t \in a_toggles
-----------------------------------------------------------------------------
\* The operation is announced, and the bit flipped by the fetch-and-add.
Call(t, o) ==
  /\ th[t].pc = "idle"
  /\ calls[t] < MaxCalls[t]
  /\ calls' = [calls EXCEPT ![t] = @ + 1]
  /\ op' = [op EXCEPT ![t] = o]
  /\ announce' = [announce EXCEPT ![t] = o.fn]
  /\ a_toggles' = Flip(a_toggles, t)
  /\ th' = [th EXCEPT ![t].pc = "read_sp", ![t].lsp = <<t, th[t].local_index>>]
  /\ UNCHANGED <<sp, pool, ret>>

\* Mutant: one attempt.
RoundsOne == 1

Rounds == 2

ReadSp(t) ==
  /\ th[t].pc = "read_sp"
  /\ th' = [th EXCEPT ![t].pc = IF th[t].j < Rounds THEN "applied?" ELSE "result",
                      ![t].old_sp = sp]
  /\ UNCHANGED <<Shared, Caller>>

\* If the operation has been applied, sp is read again for the result.
CheckApplied(t) ==
  /\ th[t].pc = "applied?"
  /\ th' = IF Applied(t, th[t].old_sp.index)
             THEN [th EXCEPT ![t].pc = "read_sp", ![t].j = Rounds, ![t].old_sp = None]
             ELSE [th EXCEPT ![t].pc = "copy"]
  /\ UNCHANGED <<Shared, Caller>>

\* The copy is not atomic: the bits come first.
CopyApplied(t) ==
  /\ th[t].pc = "copy"
  /\ pool' = [pool EXCEPT ![th[t].lsp].applied = pool[th[t].old_sp.index].applied]
  /\ th' = [th EXCEPT ![t].pc = "copy_rest"]
  /\ UNCHANGED <<sp, a_toggles, announce, Caller>>

CopyRest(t) ==
  /\ th[t].pc = "copy_rest"
  /\ pool' = [pool EXCEPT ![th[t].lsp].state = pool[th[t].old_sp.index].state,
                          ![th[t].lsp].ret = pool[th[t].old_sp.index].ret]
  /\ th' = [th EXCEPT ![t].pc = "toggles"]
  /\ UNCHANGED <<sp, a_toggles, announce, Caller>>

ReadToggles(t) ==
  /\ th[t].pc = "toggles"
  /\ th' = [th EXCEPT ![t].l_toggles = a_toggles, ![t].pc = "apply"]
  /\ UNCHANGED <<Shared, Caller>>

\* The operations to apply: the thread's own and then the others by their bits.
ToApply(t) ==
  <<t>> \o SetToSortSeq({u \in Threads \ {t} :
                ~(u \in pool[th[t].lsp].applied <=> u \in th[t].l_toggles)}, Before)

NextRound(t) ==
  th' = [th EXCEPT ![t].j = @ + 1, ![t].pc = "read_sp", ![t].old_sp = None, ![t].l_toggles = {}]

\* If sp has moved, the next round begins; otherwise the copy is consistent.
ApplyAll(t) ==
  LET cs == ToApply(t)
      state[i \in 0 .. Len(cs)] ==
        IF i = 0 THEN pool[th[t].lsp].state ELSE Apply(announce[cs[i]], state[i - 1]).val
      result(u) ==
        LET i == CHOOSE i \in DOMAIN cs : cs[i] = u
        IN  Apply(announce[u], state[i - 1]).ret
  IN
  /\ th[t].pc = "apply"
  /\ \/ sp # th[t].old_sp /\ NextRound(t) /\ UNCHANGED pool
     \/ /\ sp = th[t].old_sp
        /\ th' = [th EXCEPT ![t].pc = "cas"]
        /\ pool' = [pool EXCEPT ![th[t].lsp] =
             [applied |-> th[t].l_toggles,
              state |-> state[Len(cs)],
              ret |-> [u \in Threads |-> IF u \in ToSet(cs) THEN result(u) ELSE @.ret[u]]]]
  /\ UNCHANGED <<sp, a_toggles, announce, Caller>>

\* Mutant: the record that was published is used again at once.
AdvanceNot(t) == th[t].local_index

\* The record of the thread's next call after a success.
Advance(t) == (th[t].local_index + 1) % LOCAL_POOL_SIZE

Cas(t) ==
  /\ th[t].pc = "cas"
  /\ \/ sp # th[t].old_sp /\ NextRound(t) /\ UNCHANGED sp
     \/ /\ sp = th[t].old_sp
        /\ sp' = [index |-> th[t].lsp, seq |-> sp.seq + 1]
        /\ th' = [th EXCEPT ![t].local_index = Advance(t), ![t].old_sp = sp', ![t].pc = "result",
                            ![t].l_toggles = {}, ![t].j = Rounds]
  /\ UNCHANGED <<pool, a_toggles, announce, Caller>>

\* The result comes from the record that was published, or read from sp last.
Result(t) ==
  /\ th[t].pc = "result"
  /\ ret' = [ret EXCEPT ![t] = pool[th[t].old_sp.index].ret[t]]
  /\ op' = [op EXCEPT ![t] = None]
  /\ th' = [th EXCEPT ![t] = Fresh(t, th[t].local_index)]
  /\ UNCHANGED <<Shared, calls>>

Step(t) ==
  \/ ReadSp(t) \/ CheckApplied(t) \/ CopyApplied(t) \/ CopyRest(t) \/ ReadToggles(t)
  \/ ApplyAll(t) \/ Cas(t) \/ Result(t)

Ops == [fn : Fns, var : Vars]

Terminated ==
  (\A t \in Threads : th[t].pc = "idle" /\ calls[t] = MaxCalls[t]) /\ UNCHANGED vars

Next == (\E t \in Threads : Step(t) \/ \E o \in Ops : Call(t, o)) \/ Terminated
-----------------------------------------------------------------------------
Executed(t) == th[t].pc # "idle" /\ Applied(t, sp.index)

Abstract == INSTANCE BatchedService WITH
  Clients <- Threads,
  mem <- [v \in Vars |-> pool[sp.index].state],
  st <- [t \in Threads |->
    IF th[t].pc = "idle" THEN "idle" ELSE IF Executed(t) THEN "done" ELSE "pending"],
  res <- [t \in Threads |-> IF Executed(t) THEN pool[sp.index].ret[t] ELSE None]

\* Each operation is applied once, between its call and its return, and returns
\* its own result: after two failed rounds another thread has applied it, no
\* thread is misled by a record that is being reused, and no mixed copy is published.
Serves == UNCHANGED Abstract!vars \/ Abstract!BatchedNext
=============================================================================
