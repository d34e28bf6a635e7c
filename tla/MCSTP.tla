-------------------------------- MODULE MCSTP -------------------------------
(***************************************************************************)
(* The time-published MCS lock of liblock, mcstp.c: a waiter that loses    *)
(* patience leaves its node in the queue, marked timed out, and comes back *)
(* to it; the thread that unlocks skips the nodes of those who left or     *)
(* look preempted, and tells their owners that they failed.  Time is not   *)
(* modelled: patience may end at any moment, and a waiter's timestamp may  *)
(* look recent or not.  A thread's node is the thread.  With one lock,     *)
(* last_lock is always that lock.                                          *)
(***************************************************************************)
EXTENDS Naturals, FiniteSets

CONSTANTS
  Threads,
  None,         \* the null pointer
  MAX_THREADS   \* nodes an unlock marks as it goes: 1000 in the code

VARIABLES
  tail,
  next, status,   \* of each node
  th,             \* of each thread: where it is, and the locals of trylock and unlock
  queue           \* history: the nodes enqueued, and not marked or passed by an unlock since

vars == <<tail, next, status, th, queue>>

At(place) == [at |-> place, pred |-> None, curr |-> None, succ |-> None, last |-> None, scanned |-> 0]

Init ==
  /\ tail = None
  /\ next = [n \in Threads |-> None]
  /\ status = [n \in Threads |-> "INIT"]
  /\ th = [t \in Threads |-> At("out")]
  /\ queue = {}
-----------------------------------------------------------------------------
Become(t, from, local) == th[t].at = from /\ th' = [th EXCEPT ![t] = local]

Goto(t, from, to) == Become(t, from, [th[t] EXCEPT !.at = to])

\* trylock_mcstp, called until it gets the lock.
Reclaim(t) ==
  /\ IF status[t] = "TIMED_OUT"
       THEN Goto(t, "out", "wait") /\ status' = [status EXCEPT ![t] = "WAITING"]
       ELSE Goto(t, "out", "enqueue") /\ UNCHANGED status
  /\ UNCHANGED <<tail, next, queue>>

SetWaiting(t) ==
  /\ Goto(t, "enqueue", "clear")
  /\ status' = [status EXCEPT ![t] = "WAITING"]
  /\ UNCHANGED <<tail, next, queue>>

ClearNext(t) ==
  /\ Goto(t, "clear", "swap")
  /\ next' = [next EXCEPT ![t] = None]
  /\ UNCHANGED <<tail, status, queue>>

Swap(t) ==
  /\ Become(t, "swap", IF tail = None THEN At("cs") ELSE [At("link") EXCEPT !.pred = tail])
  /\ tail' = t
  /\ queue' = queue \cup {t}
  /\ UNCHANGED <<next, status>>

Link(t) ==
  /\ Become(t, "link", At("wait"))
  /\ next' = [next EXCEPT ![th[t].pred] = t]
  /\ UNCHANGED <<tail, status, queue>>

\* Mutant: whatever ends the wait is taken for the lock.
WaitAny(t) ==
  /\ status[t] # "WAITING"
  /\ Goto(t, "wait", "cs")
  /\ UNCHANGED <<tail, next, status, queue>>

Wait(t) ==
  /\ \/ status[t] = "AVAILABLE" /\ Goto(t, "wait", "cs")
     \/ status[t] = "FAILED" /\ Goto(t, "wait", "out")
  /\ UNCHANGED <<tail, next, status, queue>>

\* Mutant: the time-out is a store, not a compare-and-swap.
TimeOutStore(t) ==
  /\ Goto(t, "wait", "out")
  /\ status' = [status EXCEPT ![t] = "TIMED_OUT"]
  /\ UNCHANGED <<tail, next, queue>>

TimeOut(t) ==
  /\ Goto(t, "wait", "out")
  /\ status[t] = "WAITING"
  /\ status' = [status EXCEPT ![t] = "TIMED_OUT"]
  /\ UNCHANGED <<tail, next, queue>>
-----------------------------------------------------------------------------
\* unlock_mcstp.
Unlock(t) ==
  /\ Become(t, "cs", [At("scan") EXCEPT !.curr = t])
  /\ UNCHANGED <<tail, next, status, queue>>

ReadNext(t) ==
  LET succ == next[th[t].curr] IN
  /\ th[t].at = "scan"
  /\ Become(t, "scan", [th[t] EXCEPT !.at = IF succ = None THEN "empty" ELSE "visit", !.succ = succ])
  /\ UNCHANGED <<tail, next, status, queue>>

Empty(t) ==
  /\ IF tail = th[t].curr THEN Goto(t, "empty", "fail") /\ tail' = None /\ queue' = queue \ {th[t].curr}
                          ELSE Goto(t, "empty", "await") /\ UNCHANGED <<tail, queue>>
  /\ UNCHANGED <<next, status>>

FailLast(t) ==
  /\ Become(t, "fail", At("out"))
  /\ status' = [status EXCEPT ![th[t].curr] = "FAILED"]
  /\ UNCHANGED <<tail, next, queue>>

AwaitNext(t) ==
  /\ th[t].at = "await"
  /\ next[th[t].curr] # None
  /\ Become(t, "await", [th[t] EXCEPT !.at = "visit", !.succ = next[th[t].curr]])
  /\ UNCHANGED <<tail, next, status, queue>>

\* The node is marked, or from the MAX_THREADS-th on kept for later.
Visit(t) ==
  LET early == th[t].scanned + 1 < MAX_THREADS
      curr  == th[t].curr IN
  /\ Become(t, "visit",
            [th[t] EXCEPT !.at = "offer",
                          !.scanned = IF early THEN @ + 1 ELSE @,
                          !.last = IF early \/ @ # None THEN @ ELSE curr])
  /\ status' = IF early THEN [status EXCEPT ![curr] = "FAILED"] ELSE status
  /\ queue' = IF early THEN queue \ {curr} ELSE queue
  /\ UNCHANGED <<tail, next>>

\* A marked node was taken off the queue with the mark, and may be back on it.
Passed(t) == queue' = IF th[t].last = None THEN queue ELSE queue \ {th[t].curr}

\* The successor's timestamp is recent, and it still waits.
Grant(t) ==
  /\ th[t].at = "offer"
  /\ status[th[t].succ] = "WAITING"
  /\ status' = [status EXCEPT ![th[t].succ] = "AVAILABLE"]
  /\ Become(t, "offer",
            IF th[t].last \in {None, th[t].curr} THEN At("out") ELSE [th[t] EXCEPT !.at = "mark"])
  /\ Passed(t)
  /\ UNCHANGED <<tail, next>>

Skip(t) ==
  /\ Become(t, "offer", [th[t] EXCEPT !.at = "scan", !.curr = th[t].succ, !.succ = None])
  /\ Passed(t)
  /\ UNCHANGED <<tail, next, status>>

\* The nodes kept for later, up to but without the last one skipped.
MarkKept(t) ==
  /\ Goto(t, "mark", "advance")
  /\ status' = [status EXCEPT ![th[t].last] = "FAILED"]
  /\ UNCHANGED <<tail, next, queue>>

AdvanceKept(t) ==
  LET last == next[th[t].last] IN
  /\ th[t].at = "advance"
  /\ Become(t, "advance",
            IF last \in {None, th[t].curr} THEN At("out")
                                           ELSE [th[t] EXCEPT !.at = "mark", !.last = last])
  /\ UNCHANGED <<tail, next, status, queue>>

Next ==
  \E t \in Threads :
    \/ Reclaim(t) \/ SetWaiting(t) \/ ClearNext(t) \/ Swap(t) \/ Link(t) \/ Wait(t) \/ TimeOut(t)
    \/ Unlock(t) \/ ReadNext(t) \/ Empty(t) \/ FailLast(t) \/ AwaitNext(t)
    \/ Visit(t) \/ Grant(t) \/ Skip(t) \/ MarkKept(t) \/ AdvanceKept(t)
-----------------------------------------------------------------------------
\* Who holds the lock: in the critical section, looking for a successor, or
\* chosen as one.
Owners ==
  {t \in Threads :
     \/ th[t].at \in {"cs", "scan", "empty", "await", "visit", "offer"}
     \/ th[t].at = "wait" /\ status[t] = "AVAILABLE"}

\* One thread at a time holds the lock, although waiters time out and come back
\* while unlock_mcstp walks over their nodes.
Exclusion == Cardinality(Owners) <= 1

\* A lock that is taken has an owner: it is never granted to a thread that has
\* just timed out, nor taken from the thread it is granted to.  It is so for three
\* threads; with four, the loop that ends the treadmill case of unlock_mcstp can
\* mark a node that was queued again and granted the lock.
NotAbandoned == tail # None => Owners # {}

\* "Try to reclaim position in queue": a thread waits at a node that an unlock
\* is yet to reach, or that an unlock under way is yet to mark.
Reclaimed ==
  \A t \in Threads :
    th[t].at = "wait" /\ status[t] = "WAITING" =>
      t \in queue \/ \E u \in Threads : th[u].at = "fail" \/ th[u].last # None
-----------------------------------------------------------------------------
\* For the proofs: the invariant from which Exclusion follows.
Spec == Init /\ [][Next]_vars

Distinct == None \notin Threads

Places ==
  {"out", "enqueue", "clear", "swap", "link", "wait", "cs", "scan", "empty", "fail", "await",
   "visit", "offer", "mark", "advance"}

Pointer == Threads \cup {None}

\* A thread and its locals; the pointers it is about to dereference are not null.
Records ==
  [at : Places, pred : Pointer, curr : Pointer, succ : Pointer, last : Pointer, scanned : Nat]
NotNull(r) ==
  /\ r.at = "link" => r.pred # None
  /\ r.at \in {"scan", "empty", "fail", "await", "visit", "offer"} => r.curr # None
  /\ r.at \in {"visit", "offer"} => r.succ # None
  /\ r.at \in {"mark", "advance"} => r.last # None

TypeOK ==
  /\ tail \in Pointer
  /\ next \in [Threads -> Pointer]
  /\ status \in [Threads -> {"INIT", "WAITING", "AVAILABLE", "TIMED_OUT", "FAILED"}]
  /\ th \in [Threads -> Records]
  /\ \A t \in Threads : NotNull(th[t])

\* The lock is t's, or will be when t has come back to the node it is granted to.
Holds(t) ==
  \/ th[t].at \in {"cs", "scan", "empty", "await", "visit", "offer"}
  \/ th[t].at \in {"clear", "swap", "link", "wait"} /\ status[t] = "AVAILABLE"

\* The lock has one owner at most, and none when the queue is empty.
OwnerInv ==
  /\ TypeOK
  /\ \A t, u \in Threads : Holds(t) /\ Holds(u) => t = u
  /\ tail = None => \A t \in Threads : ~Holds(t)
=============================================================================
