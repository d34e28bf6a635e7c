------------------------------- MODULE Oyama -------------------------------
(***************************************************************************)
(* The combining lock of Oyama et al., sim-synch/oyama.h.  A thread pushes *)
(* its node on a stack of announcements; whoever gets the lock takes the   *)
(* whole stack again and again and executes what it finds, at most until   *)
(* OYAMA_HELP_BOUND operations.                                            *)
(***************************************************************************)
EXTENDS Integers

CONSTANTS Threads, Fns, Vars, InitVal, Apply(_,_), None, OYAMA_HELP_BOUND, MaxCalls

VARIABLES
  lock, tail, pool,    \* OyamaLockStruct: one node per thread
  th,                  \* the locals of applyOp
  op, ret, calls, mem

vars == <<lock, tail, pool, th, op, ret, calls, mem>>

Fresh == [pc |-> "idle", p |-> None, tmp_next |-> None, seen |-> InitVal, counter |-> 0]

Init ==
  /\ lock = FALSE
  /\ tail = None
  /\ pool = [t \in Threads |-> [next |-> None, arg_ret |-> None, completed |-> FALSE]]
  /\ th = [t \in Threads |-> Fresh]
  /\ op = [t \in Threads |-> None]
  /\ ret = [t \in Threads |-> InitVal]
  /\ calls = [t \in Threads |-> 0]
  /\ mem = [v \in Vars |-> InitVal]

Caller == <<op, ret, calls>>
-----------------------------------------------------------------------------
Call(t, o) ==
  /\ th[t].pc = "idle"
  /\ calls[t] < MaxCalls[t]
  /\ calls' = [calls EXCEPT ![t] = @ + 1]
  /\ op' = [op EXCEPT ![t] = o]
  /\ pool' = [pool EXCEPT ![t] = [next |-> tail, arg_ret |-> o.fn, completed |-> FALSE]]
  /\ th' = [th EXCEPT ![t].pc = "push"]
  /\ UNCHANGED <<lock, tail, ret, mem>>

\* The compare-and-swap, or the new read of the tail after it failed.
Push(t) ==
  /\ th[t].pc = "push"
  /\ IF tail = pool[t].next
       THEN tail' = t /\ th' = [th EXCEPT ![t].pc = "lock"] /\ UNCHANGED pool
       ELSE pool' = [pool EXCEPT ![t].next = tail] /\ UNCHANGED <<tail, th>>
  /\ UNCHANGED <<lock, Caller, mem>>

Lock(t) ==
  /\ th[t].pc = "lock"
  /\ lock' = TRUE
  /\ th' = [th EXCEPT ![t].pc = IF lock THEN "spin" ELSE "take"]
  /\ UNCHANGED <<tail, pool, Caller, mem>>

\* Mutant: a waiting thread relies on the holder to see its node.
SpinUntilCompleted(t) ==
  /\ th[t].pc = "spin"
  /\ pool[t].completed
  /\ th' = [th EXCEPT ![t].pc = "return"]
  /\ UNCHANGED <<lock, tail, pool, Caller, mem>>

\* The inner loop ends, and completed is looked at again.
Spin(t) ==
  /\ th[t].pc = "spin"
  /\ pool[t].completed \/ ~lock
  /\ th' = [th EXCEPT ![t].pc = IF pool[t].completed THEN "return" ELSE "lock"]
  /\ UNCHANGED <<lock, tail, pool, Caller, mem>>

\* The outer loop of the holder: SWAP empties the stack.
Take(t) ==
  /\ th[t].pc = "take"
  /\ IF th[t].counter < OYAMA_HELP_BOUND
       THEN /\ tail' = None
            /\ th' = [th EXCEPT ![t].p = tail, ![t].pc = IF tail = None THEN "unlock" ELSE "load"]
       ELSE tail' = tail /\ th' = [th EXCEPT ![t].pc = "unlock"]
  /\ UNCHANGED <<lock, pool, Caller, mem>>

\* The critical section of the node's owner, a load and a store.
Load(t) ==
  /\ th[t].pc = "load"
  /\ th' = [th EXCEPT ![t].counter = @ + 1, ![t].tmp_next = pool[th[t].p].next,
                      ![t].seen = mem[op[th[t].p].var], ![t].pc = "store"]
  /\ UNCHANGED <<lock, tail, pool, Caller, mem>>

Store(t) ==
  LET r == Apply(pool[th[t].p].arg_ret, th[t].seen) IN
  /\ th[t].pc = "store"
  /\ mem' = [mem EXCEPT ![op[th[t].p].var] = r.val]
  /\ pool' = [pool EXCEPT ![th[t].p].arg_ret = r.ret]
  /\ th' = [th EXCEPT ![t].pc = "complete", ![t].seen = InitVal]
  /\ UNCHANGED <<lock, tail, Caller>>

\* Mutant: the successor is read after the owner of the node may have gone on.
CompleteFirst(t) ==
  /\ th[t].pc = "complete"
  /\ IF pool[th[t].p].completed
       THEN /\ th' = [th EXCEPT ![t].p = pool[th[t].p].next,
                                ![t].pc = IF pool[th[t].p].next = None THEN "take" ELSE "load"]
            /\ UNCHANGED pool
       ELSE pool' = [pool EXCEPT ![th[t].p].completed = TRUE] /\ UNCHANGED th
  /\ UNCHANGED <<lock, tail, Caller, mem>>

Complete(t) ==
  /\ th[t].pc = "complete"
  /\ pool' = [pool EXCEPT ![th[t].p].completed = TRUE]
  /\ th' = [th EXCEPT ![t].p = th[t].tmp_next, ![t].tmp_next = None,
                      ![t].pc = IF th[t].tmp_next = None THEN "take" ELSE "load"]
  /\ UNCHANGED <<lock, tail, Caller, mem>>

Unlock(t) ==
  /\ th[t].pc = "unlock"
  /\ lock' = FALSE
  /\ th' = [th EXCEPT ![t] = [Fresh EXCEPT !.pc = "return"]]      \* the locals are dead
  /\ UNCHANGED <<tail, pool, Caller, mem>>

Return(t) ==
  /\ th[t].pc = "return"
  /\ ret' = [ret EXCEPT ![t] = pool[t].arg_ret]
  /\ op' = [op EXCEPT ![t] = None]
  /\ th' = [th EXCEPT ![t] = Fresh]
  /\ UNCHANGED <<lock, tail, pool, calls, mem>>

Step(t) ==
  \/ Push(t) \/ Lock(t) \/ Spin(t) \/ Take(t) \/ Load(t) \/ Store(t) \/ Complete(t)
  \/ Unlock(t) \/ Return(t)

Ops == [fn : Fns, var : Vars]

Terminated ==
  (\A t \in Threads : th[t].pc = "idle" /\ calls[t] = MaxCalls[t]) /\ UNCHANGED vars

Next == (\E t \in Threads : Step(t) \/ \E o \in Ops : Call(t, o)) \/ Terminated
-----------------------------------------------------------------------------
\* The operation of thread t has taken effect: its node holds the result.
Executed(t) ==
  /\ th[t].pc # "idle"
  /\ pool[t].completed \/ \E c \in Threads : th[c].pc = "complete" /\ th[c].p = t

Abstract == INSTANCE DelegationService WITH
  Clients <- Threads,
  st <- [t \in Threads |->
    IF th[t].pc = "idle" THEN "idle" ELSE IF Executed(t) THEN "done" ELSE "pending"],
  res <- [t \in Threads |-> IF Executed(t) THEN pool[t].arg_ret ELSE None]

\* Each operation is executed once, atomically, during its call, and its result
\* is returned; the holder returns its own result as its node was on the stack.
Serves == UNCHANGED Abstract!vars \/ Abstract!Next
-----------------------------------------------------------------------------
\* For the proofs: the lock on its own, and what every step of it keeps.
Spec == Init /\ [][Next]_vars
Linearizable == Abstract!Spec

\* The null pointer is no node, and a holder may help at least once.
Sizes == None \notin Threads /\ OYAMA_HELP_BOUND \in Nat \ {0}

Labels ==
  {"idle", "push", "lock", "spin", "take", "load", "store", "complete", "unlock", "return"}

Pointer == Threads \cup {None}

\* A node is a struct of three fields, and a call has five locals.
IsNode(n) ==
  DOMAIN n = {"next", "arg_ret", "completed"} /\ n.next \in Pointer /\ n.completed \in BOOLEAN
IsLocals(l) ==
  /\ DOMAIN l = {"pc", "p", "tmp_next", "seen", "counter"}
  /\ l.pc \in Labels /\ l.p \in Pointer /\ l.tmp_next \in Pointer /\ l.counter \in Nat

TypeOK ==
  /\ lock \in BOOLEAN
  /\ tail \in Pointer
  /\ pool = [t \in Threads |-> pool[t]] /\ \A t \in Threads : IsNode(pool[t])
  /\ th = [t \in Threads |-> th[t]] /\ \A t \in Threads : IsLocals(th[t])
  /\ op = [t \in Threads |-> op[t]]
  /\ ret = [t \in Threads |-> ret[t]]
  /\ mem = [v \in Vars |-> mem[v]]

\* The pointers lead from a to b: b is in every set with a in which no pointer leads
\* out of the set.
Closed(S) == \A r \in Threads : r \in S => pool[r].next \in S
Reach(a, b) == \A S \in SUBSET Pointer : a \in S /\ Closed(S) => b \in S

\* The first node that thread c has taken from the stack and not executed.
First(c) ==
  IF th[c].pc \in {"load", "store"} THEN th[c].p
  ELSE IF th[c].pc = "complete" THEN th[c].tmp_next ELSE None

\* A node is announced on the stack, or c has taken it; c has executed it.
Stacked(t) == Reach(tail, t)
Taken(c, t) == Reach(First(c), t)
Finishes(c, t) == th[c].pc = "complete" /\ th[c].p = t
Listed(t) == Stacked(t) \/ \E c \in Threads : Taken(c, t)
Loop(t) == Reach(pool[t].next, t)

Holds(t) == th[t].pc \in {"take", "load", "store", "complete", "unlock"}

OneHolder ==
  /\ \A t \in Threads : Holds(t) => lock
  /\ \A t, u \in Threads : Holds(t) /\ Holds(u) => t = u

\* The owner of a node in a list waits for it, and the list does not come back to it.
\* No node is both on the stack and taken.
ListRight(t) ==
  /\ Listed(t) =>
       th[t].pc \notin {"idle", "push"} /\ ~pool[t].completed /\ ~Loop(t)
  /\ \A c \in Threads : ~(Stacked(t) /\ Taken(c, t))

\* A call that is not completed is in a list, or about to be marked.
ThreadRight(t) ==
  /\ th[t].pc \notin {"idle", "push"} /\ ~pool[t].completed =>
       Listed(t) \/ \E c \in Threads : Finishes(c, t)
  /\ th[t].pc \in {"unlock", "return"} => pool[t].completed
  /\ th[t].pc = "push" => ~pool[t].completed
  /\ ~Holds(t) => th[t].counter = 0
  /\ th[t].pc # "idle" => op[t] \in Ops
  /\ th[t].pc # "idle" /\ ~Executed(t) => pool[t].arg_ret = op[t].fn

\* The holder's own node leaves the stack the first time it takes the stack.
HolderRight(c) ==
  /\ Stacked(c) /\ Holds(c) => th[c].pc = "take" /\ th[c].counter = 0
  /\ th[c].pc \in {"load", "store", "complete"} => th[c].p \in Threads
  /\ th[c].pc \in {"store", "complete"} => th[c].counter # 0
  /\ th[c].pc = "store" => th[c].tmp_next = pool[th[c].p].next /\ th[c].seen = mem[op[th[c].p].var]
  /\ th[c].pc = "complete" =>
       /\ th[th[c].p].pc \notin {"idle", "push"} /\ ~pool[th[c].p].completed
       /\ ~Listed(th[c].p)

StackInv ==
  /\ TypeOK /\ OneHolder
  /\ \A t \in Threads : ListRight(t) /\ ThreadRight(t) /\ HolderRight(t)
=============================================================================
