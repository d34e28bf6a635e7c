-------------------------------- MODULE MCS --------------------------------
(***************************************************************************)
(* The MCS lock of libslock, mcs.c, with its trylock.  A thread links its  *)
(* node behind its predecessor's and spins on its own; a thread that ends  *)
(* frees its node.  lock_mcs and unlock_mcs of liblock/mcs.c are the same  *)
(* lock but that they arm the node before the swap.                        *)
(***************************************************************************)
EXTENDS Naturals, Sequences

CONSTANTS Threads, None

\* NULL is no node.
Distinct == None \notin Threads

VARIABLES
  L,                     \* the tail of the queue
  next, waiting,         \* the nodes, one per thread
  freed,                 \* the nodes that have been freed
  pred, succ,
  at, arrived            \* as in CLH

vars == <<L, next, waiting, freed, pred, succ, at, arrived>>

Init ==
  /\ L = None
  /\ next = [t \in Threads |-> None]
  /\ waiting = [t \in Threads |-> FALSE]
  /\ freed = {}
  /\ pred = [t \in Threads |-> None]
  /\ succ = [t \in Threads |-> None]
  /\ at = [t \in Threads |-> "out"]
  /\ arrived = <<>>

Move(t, from, to) == at[t] = from /\ at' = [at EXCEPT ![t] = to]
-----------------------------------------------------------------------------
Swap(t) ==
  /\ Move(t, "out", IF L = None THEN "cs" ELSE "arm")
  /\ L' = t
  /\ pred' = [pred EXCEPT ![t] = L]
  /\ next' = [next EXCEPT ![t] = None]
  /\ arrived' = Append(arrived, t)
  /\ UNCHANGED <<waiting, freed, succ>>

\* Mutant: the word to spin on is not set.
ArmNothing(t) ==
  /\ Move(t, "arm", "link")
  /\ UNCHANGED <<L, next, waiting, freed, pred, succ, arrived>>

Arm(t) ==
  /\ Move(t, "arm", "link")
  /\ waiting' = [waiting EXCEPT ![t] = TRUE]
  /\ UNCHANGED <<L, next, freed, pred, succ, arrived>>

Link(t) ==
  /\ Move(t, "link", "spin")
  /\ next' = [next EXCEPT ![pred[t]] = t]
  /\ UNCHANGED <<L, waiting, freed, pred, succ, arrived>>

Spin(t) ==
  /\ Move(t, "spin", "cs")
  /\ ~waiting[t]
  /\ UNCHANGED <<L, next, waiting, freed, pred, succ, arrived>>

TryLock(t) ==
  /\ Move(t, "out", IF L = None THEN "cs" ELSE "out")
  /\ next' = [next EXCEPT ![t] = None]
  /\ L' = IF L = None THEN t ELSE L
  /\ arrived' = IF L = None THEN Append(arrived, t) ELSE arrived
  /\ UNCHANGED <<waiting, freed, pred, succ>>

\* The first look at the successor.
Release(t) ==
  /\ Move(t, "cs", IF next[t] = None THEN "cas" ELSE "grant")
  /\ succ' = [succ EXCEPT ![t] = next[t]]
  /\ arrived' = Tail(arrived)
  /\ UNCHANGED <<L, next, waiting, freed, pred>>

\* Mutant: a release that finds no successor empties the queue.
EmptyUnchecked(t) ==
  /\ Move(t, "cas", "out")
  /\ L' = None
  /\ UNCHANGED <<next, waiting, freed, pred, succ, arrived>>

Empty(t) ==
  /\ Move(t, "cas", IF L = t THEN "out" ELSE "await")
  /\ L' = IF L = t THEN None ELSE L
  /\ UNCHANGED <<next, waiting, freed, pred, succ, arrived>>

\* A successor has swapped the tail, but not linked itself yet.
AwaitLink(t) ==
  /\ next[t] # None
  /\ Move(t, "await", "grant")
  /\ succ' = [succ EXCEPT ![t] = next[t]]
  /\ UNCHANGED <<L, next, waiting, freed, pred, arrived>>

Grant(t) ==
  /\ Move(t, "grant", "out")
  /\ waiting' = [waiting EXCEPT ![succ[t]] = FALSE]
  /\ succ' = [succ EXCEPT ![t] = None]
  /\ UNCHANGED <<L, next, freed, pred, arrived>>

\* end_mcs_local, when the thread is done with the lock.
Exit(t) ==
  /\ Move(t, "out", "end")
  /\ freed' = freed \cup {t}
  /\ UNCHANGED <<L, next, waiting, pred, succ, arrived>>

Step(t) == Arm(t) \/ Link(t) \/ Spin(t) \/ Release(t) \/ Empty(t) \/ AwaitLink(t) \/ Grant(t)

Terminated == (\A t \in Threads : at[t] = "end") /\ UNCHANGED vars

Next == (\E t \in Threads : Swap(t) \/ TryLock(t) \/ Step(t) \/ Exit(t)) \/ Terminated

Spec == Init /\ [][Next]_vars
-----------------------------------------------------------------------------
FifoLock == INSTANCE FifoLock WITH
  line <- arrived, holders <- {t \in Threads : at[t] = "cs"}

\* Threads hold the lock one at a time and in the order of their swaps, while a
\* release races with a successor that has not linked its node.
InLine == UNCHANGED FifoLock!vars \/ FifoLock!Next

Fifo == FifoLock!Spec

\* No thread writes to a node that its owner has freed: by the time a thread
\* can return from mcs_release, its successor has linked itself.
NoFreedAccess ==
  \A t \in Threads :
    /\ at[t] = "link" => pred[t] \notin freed
    /\ at[t] = "grant" => succ[t] \notin freed
-----------------------------------------------------------------------------
Leaving == {"cas", "await", "grant"}
Waiting == {"arm", "link", "spin"}

\* The types of the variables.
TypeOK ==
  /\ L \in Threads \cup {None}
  /\ next \in [Threads -> Threads \cup {None}]
  /\ waiting \in [Threads -> BOOLEAN]
  /\ freed \subseteq Threads
  /\ pred \in [Threads -> Threads \cup {None}]
  /\ succ \in [Threads -> Threads \cup {None}]
  /\ at \in [Threads -> {"out", "cs", "end"} \cup Waiting \cup Leaving]
  /\ arrived \in Seq(Threads)

\* Which threads are in the line, each once.
Members ==
  /\ \A t \in Threads :
       at[t] \in Waiting \cup {"cs"} <=> \E i \in 1 .. Len(arrived) : arrived[i] = t
  /\ \A i, j \in 1 .. Len(arrived) : arrived[i] = arrived[j] => i = j

\* One thread at most is in the critical section or releases the lock.
OneOwner ==
  \A t, u \in Threads : {at[t], at[u]} \subseteq {"cs"} \cup Leaving => t = u

\* Thread t waits directly behind thread p.
Behind(t, p) ==
  /\ pred[t] = p
  /\ at[t] \in Waiting
  /\ next[p] = IF at[t] = "spin" THEN t ELSE None
  /\ at[t] # "arm" => waiting[t]

Chained == \A i \in 1 .. Len(arrived) - 1 : Behind(arrived[i + 1], arrived[i])

\* The first of the line waits behind the thread that releases the lock, which
\* is about to let it in; without one, it has the lock or has been let in.
FirstOfLine ==
  /\ \A t \in Threads : at[t] \in Leaving =>
       IF arrived = <<>> THEN at[t] = "cas" /\ L = t ELSE Behind(arrived[1], t)
  /\ \A t \in Threads : at[t] = "grant" =>
       arrived # <<>> /\ at[arrived[1]] = "spin" /\ succ[t] = arrived[1]
  /\ arrived # <<>> /\ (\A t \in Threads : at[t] \notin Leaving) =>
       at[arrived[1]] = "cs" \/ (at[arrived[1]] = "spin" /\ ~waiting[arrived[1]])

\* The tail is the last of the line, or the thread that releases the lock.
LastOfLine ==
  /\ arrived # <<>> => L = arrived[Len(arrived)]
  /\ arrived = <<>> /\ L # None => at[L] = "cas"
  /\ L # None => next[L] = None

\* The queue is the thread that releases the lock, if there is one, and the
\* line of those that arrived.
QueueInv ==
  /\ TypeOK /\ Members /\ OneOwner /\ Chained /\ FirstOfLine /\ LastOfLine
  /\ \A t \in Threads : t \in freed <=> at[t] = "end"
=============================================================================
