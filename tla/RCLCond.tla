------------------------------ MODULE RCLCond -------------------------------
(***************************************************************************)
(* Condition variables of remote core locking, liblock/rcl.c: mini threads *)
(* that wait in a critical section of one lock, a thread that broadcasts   *)
(* in another, the manager, which makes ready the waits whose deadline has *)
(* passed, and the servicing threads, which elect the ready ones.  The     *)
(* list of a condition and the ready list share the nodes ll_ready, so     *)
(* they are kept as fields next_and_mark, and a turn of a loop of fqueue.h *)
(* is one step.  The timed list has nodes of its own and is kept as a      *)
(* sequence, with atomic walks: all waits use the same delay, as the       *)
(* waiter of main.c does, so it is in order of entry.  A mini thread waits *)
(* once: what reuse does to a list is in FQueue.                           *)
(***************************************************************************)
EXTENDS Naturals, Sequences, FiniteSets, SequencesExt

CONSTANTS
  Minis,          \* the mini threads that wait
  Timed,          \* those of them that wait with a deadline
  Broadcasts,     \* TRUE if there is a broadcast
  CondRoot,       \* the field cond->impl.data
  ReadyRoot,      \* the field server->mini_thread_ready
  None

VARIABLES
  next,           \* the pointer in each ll_ready and in the two roots
  mark,           \* the mini threads whose ll_ready is marked
  timed,          \* server->mini_thread_timed, the nodes ll_timed
  stale,          \* the mini threads whose ll_timed is marked
  due,            \* the mini threads whose deadline has passed
  locked,         \* impl->locked
  at,             \* where each mini thread is
  sig,            \* where the broadcast is, its pred, and the node it dequeued
  mgr             \* where the manager is, its cur, its pred, and the node it unlinked

lists == <<next, mark, timed, stale>>
vars == <<lists, due, locked, at, sig, mgr>>

Init ==
  /\ next = [l \in Minis \cup {CondRoot, ReadyRoot} |-> None]
  /\ timed = <<>>
  /\ mark = {} /\ stale = {} /\ due = {}
  /\ locked = FALSE
  /\ at = [m \in Minis |-> "idle"]
  /\ sig = [at |-> IF Broadcasts THEN "idle" ELSE "end", pred |-> None, node |-> None]
  /\ mgr = [at |-> "sleep", cur |-> None, pred |-> None, node |-> None]
-----------------------------------------------------------------------------
Move(m, from, to) == at[m] = from /\ at' = [at EXCEPT ![m] = to]

Lock == ~locked /\ locked' = TRUE

Unlock == locked /\ locked' = FALSE

Unmarked(list, marks) == SelectSeq(list, LAMBDA m : m \notin marks)

Enqueue(root, m) ==
  /\ next' = [next EXCEPT ![root] = m, ![m] = next[root]]
  /\ mark' = mark \ {m}

\* fqueue_dequeue marks the first node, and unlinks the first node if marked.
MarkFirst(root) ==
  /\ next[root] \notin mark \cup {None}
  /\ mark' = mark \cup {next[root]}
  /\ UNCHANGED next

UnlinkFirst(root) ==
  /\ next[root] \in mark
  /\ next' = [next EXCEPT ![root] = next[next[root]]]
  /\ UNCHANGED mark

\* A turn of the loop of fqueue_remove at the field pred: the next field, None
\* at the end of the list, and the node unlinked, if any.  The exchange fails
\* when pred is marked, and the walk restarts.
Turn(pred) ==
  LET cur == next[pred] IN
  [pred |-> IF {cur, pred} \subseteq mark THEN CondRoot ELSE cur,
   node |-> IF cur \in mark /\ pred \notin mark THEN cur ELSE None]

Unlink(pred, node) ==
  next' = IF node = None THEN next ELSE [next EXCEPT ![pred] = next[node]]

\* The critical section starts on a mini thread, and waits.
Begin(m) == Move(m, "idle", "run") /\ Lock /\ UNCHANGED <<lists, due, sig, mgr>>

Wait(m) ==
  /\ Move(m, "run", "unlock") /\ Enqueue(CondRoot, m)
  /\ UNCHANGED <<timed, stale, due, locked, sig, mgr>>

Release(m) ==
  /\ Move(m, "unlock", IF m \in Timed THEN "insert" ELSE "swap")
  /\ Unlock
  /\ UNCHANGED <<lists, due, sig, mgr>>

\* fqueue_ordered_insert unlinks the marked nodes it passes.
Insert(m) ==
  /\ Move(m, "insert", "swap")
  /\ timed' = Append(Unmarked(timed, stale), m)
  /\ stale' = stale \ {m}
  /\ UNCHANGED <<next, mark, due, locked, sig, mgr>>

\* swapcontext saves the context of the mini thread.
Swap(m) == Move(m, "swap", "out") /\ UNCHANGED <<lists, due, locked, sig, mgr>>

\* A servicing thread takes the first ready mini thread and switches to its
\* context, which is an old one unless the mini thread was switched out.
ElectMark == MarkFirst(ReadyRoot) /\ UNCHANGED <<timed, stale, due, locked, at, sig, mgr>>

Elect(m) ==
  /\ m = next[ReadyRoot] /\ UnlinkFirst(ReadyRoot)
  /\ at' = [at EXCEPT ![m] = IF @ = "out" THEN "relock" ELSE "broken"]
  /\ UNCHANGED <<timed, stale, due, locked, sig, mgr>>

Relock(m) == Move(m, "relock", "return") /\ Lock /\ UNCHANGED <<lists, due, sig, mgr>>

Return(m) == Move(m, "return", "end") /\ Unlock /\ UNCHANGED <<lists, due, sig, mgr>>
-----------------------------------------------------------------------------
Signals(from, to, pred, node) == sig.at = from /\ sig' = [at |-> to, pred |-> pred, node |-> node]

BroadcastBegin ==
  Signals("idle", "dequeue", None, None) /\ Lock /\ UNCHANGED <<lists, due, at, mgr>>

DequeueMark ==
  /\ Signals("dequeue", "dequeue", None, None) /\ MarkFirst(CondRoot)
  /\ UNCHANGED <<timed, stale, due, locked, at, mgr>>

DequeueUnlink ==
  LET m == next[CondRoot] IN
  /\ Signals("dequeue", IF m \in Timed THEN "mark" ELSE "ready", None, m)
  /\ UnlinkFirst(CondRoot)
  /\ UNCHANGED <<timed, stale, due, locked, at, mgr>>

\* fqueue_remove of ll_timed, from the list of the condition, where it is not.
RemoveTimedMark ==
  /\ IF sig.node \in stale THEN Signals("mark", "ready", None, sig.node)
                          ELSE Signals("mark", "walk", CondRoot, sig.node)
  /\ stale' = stale \cup {sig.node}
  /\ UNCHANGED <<next, mark, timed, due, locked, at, mgr>>

RemoveTimedWalk ==
  LET turn == Turn(sig.pred) IN
  /\ Signals("walk", IF turn.pred = None THEN "ready" ELSE "walk", turn.pred, sig.node)
  /\ Unlink(sig.pred, turn.node)
  /\ UNCHANGED <<mark, timed, stale, due, locked, at, mgr>>

SignalReady ==
  /\ Signals("ready", "dequeue", None, None) /\ Enqueue(ReadyRoot, sig.node)
  /\ UNCHANGED <<timed, stale, due, locked, at, mgr>>

BroadcastEnd ==
  /\ Signals("dequeue", "end", None, None) /\ next[CondRoot] = None
  /\ Unlock
  /\ UNCHANGED <<lists, due, at, mgr>>
-----------------------------------------------------------------------------
Expire ==
  \E m \in ToSet(timed) \ due :
    /\ \A i \in 1 .. Len(timed) : timed[i] = m => ToSet(SubSeq(timed, 1, i - 1)) \subseteq due
    /\ due' = due \cup {m}
    /\ UNCHANGED <<lists, locked, at, sig, mgr>>

Manages(from, to, cur, pred, node) ==
  mgr.at = from /\ mgr' = [at |-> to, cur |-> cur, pred |-> pred, node |-> node]

WakeUp == Manages("sleep", "scan", None, None, None) /\ UNCHANGED <<lists, due, locked, at, sig>>

Scan ==
  /\ IF timed # <<>> /\ Head(timed) \in due
     THEN Manages("scan", "mark", Head(timed), None, None)
     ELSE Manages("scan", "sleep", None, None, None)
  /\ UNCHANGED <<lists, due, locked, at, sig>>

\* fqueue_remove of ll_ready from the list of the condition: marked already,
\* it is left to the thread that marked it.
ManagerMark ==
  /\ IF mgr.cur \in mark THEN Manages("mark", "scan", None, None, None)
                          ELSE Manages("mark", "walk", mgr.cur, CondRoot, None)
  /\ mark' = mark \cup {mgr.cur}
  /\ UNCHANGED <<next, timed, stale, due, locked, at, sig>>

\* Mutant: a marked node is handed on without being unlinked.
WalkNoUnlink ==
  LET turn == Turn(mgr.pred)
      to == IF turn.pred = None THEN "scan" ELSE IF turn.node = None THEN "walk" ELSE "timed"
  IN
  /\ Manages("walk", to, mgr.cur, turn.pred, turn.node)
  /\ UNCHANGED <<lists, due, locked, at, sig>>

\* A marked node is unlinked, whichever it is, and given to
\* insert_in_ready_and_remove_from_timed.
Walk ==
  LET turn == Turn(mgr.pred)
      to == IF turn.pred = None THEN "scan" ELSE IF turn.node = None THEN "walk" ELSE "timed"
  IN
  /\ Manages("walk", to, mgr.cur, turn.pred, turn.node)
  /\ Unlink(mgr.pred, turn.node)
  /\ UNCHANGED <<mark, timed, stale, due, locked, at, sig>>

\* Mutant: the node stays in the timed list.
RemoveFromTimedNot ==
  /\ Manages("timed", "ready", mgr.cur, mgr.pred, mgr.node)
  /\ UNCHANGED <<lists, due, locked, at, sig>>

\* fqueue_remove of ll_timed: the walk unlinks the marked nodes up to the
\* node, or to the end if it is not inserted yet.
RemoveFromTimed ==
  LET i == SelectInSeq(timed, LAMBDA m : m = mgr.node)
      passed == SubSeq(timed, 1, IF i = 0 THEN Len(timed) ELSE i)
  IN
  /\ Manages("timed", "ready", mgr.cur, mgr.pred, mgr.node)
  /\ stale' = stale \cup {mgr.node}
  /\ timed' = IF mgr.node \in stale THEN timed
              ELSE Unmarked(passed, stale') \o SubSeq(timed, Len(passed) + 1, Len(timed))
  /\ UNCHANGED <<next, mark, due, locked, at, sig>>

\* Mutant: the node is not made ready.
InsertInReadyNot ==
  /\ IF mgr.node = mgr.cur THEN Manages("ready", "scan", None, None, None)
                           ELSE Manages("ready", "walk", mgr.cur, mgr.pred, None)
  /\ UNCHANGED <<lists, due, locked, at, sig>>

\* The walk goes on from the node, which is in the ready list now.
InsertInReady ==
  /\ IF mgr.node = mgr.cur THEN Manages("ready", "scan", None, None, None)
                           ELSE Manages("ready", "walk", mgr.cur, mgr.pred, None)
  /\ Enqueue(ReadyRoot, mgr.node)
  /\ UNCHANGED <<timed, stale, due, locked, at, sig>>
-----------------------------------------------------------------------------
MiniStep(m) ==
  Wait(m) \/ Release(m) \/ Insert(m) \/ Swap(m) \/ Elect(m) \/ Relock(m) \/ Return(m)

Broadcast ==
  \/ BroadcastBegin \/ DequeueMark \/ DequeueUnlink
  \/ RemoveTimedMark \/ RemoveTimedWalk \/ SignalReady \/ BroadcastEnd

Manager == WakeUp \/ Scan \/ ManagerMark \/ Walk \/ RemoveFromTimed \/ InsertInReady

Next == (\E m \in Minis : Begin(m) \/ MiniStep(m)) \/ ElectMark \/ Broadcast \/ Expire \/ Manager
-----------------------------------------------------------------------------
\* The nodes of the list of a root.
Nodes(root) ==
  LET from[n \in 0 .. Cardinality(Minis)] ==
        IF n = 0 THEN {root} ELSE from[n - 1] \cup {next[l] : l \in from[n - 1] \ {None}}
  IN from[Cardinality(Minis)] \ {root, None}

Holders(m) ==
  {l \in {"cond", "ready", "signal", "manager"} :
     \/ l = "cond" /\ m \in Nodes(CondRoot)
     \/ l = "ready" /\ m \in Nodes(ReadyRoot)
     \/ l = "signal" /\ m = sig.node
     \/ l = "manager" /\ m = mgr.node}

\* A wait that a broadcast and a time-out both end is ended once: its mini
\* thread is in one place, and never both waits and is ready.
OnePlace == \A m \in Minis, k, l \in {"cond", "ready", "signal", "manager"} :
              {k, l} \subseteq Holders(m) => k = l

\* "and finally, jump to the next mini thread": a mini thread is not resumed
\* before the switch that saves its context.
SavedBeforeResumed == \A m \in Minis : at[m] # "broken"

\* "waiter is up": a mini thread that waits is in the list of its condition,
\* ready, or about to be made ready.
NotLost == \A m \in Minis : at[m] = "out" => Holders(m) # {}
=============================================================================
