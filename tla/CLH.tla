-------------------------------- MODULE CLH --------------------------------
(***************************************************************************)
(* The CLH lock of libslock, clh.c (sim-synch/clh.h is the same lock).  A  *)
(* thread spins on its predecessor's node and, when it releases the lock,  *)
(* takes that node for its next acquisition: nodes change hands.           *)
(***************************************************************************)
EXTENDS Naturals, Sequences

CONSTANTS
  Threads,
  Dummy      \* the node the lock is created with

\* The dummy node is none of the threads' own.
Distinct == Dummy \notin Threads

VARIABLES
  L,         \* the lock: a pointer to the last node of the queue
  locked,    \* the field of the nodes, named by the thread they were made for
  my_qnode, my_pred,
  at,        \* where the thread is in clh_acquire and clh_release
  arrived    \* history: the threads in the order of their swaps

vars == <<L, locked, my_qnode, my_pred, at, arrived>>

Init ==
  /\ L = Dummy
  /\ locked = [n \in Threads \cup {Dummy} |-> FALSE]
  /\ my_qnode = [t \in Threads |-> t]
  /\ my_pred = [t \in Threads |-> Dummy]   \* NULL in the code: written before it is read
  /\ at = [t \in Threads |-> "out"]
  /\ arrived = <<>>
-----------------------------------------------------------------------------
\* Mutant: the flag is not raised before the node is published.
AnnounceNothing(t) ==
  /\ at[t] = "out"
  /\ at' = [at EXCEPT ![t] = "swap"]
  /\ UNCHANGED <<L, locked, my_qnode, my_pred, arrived>>

Announce(t) ==
  /\ at[t] = "out"
  /\ locked' = [locked EXCEPT ![my_qnode[t]] = TRUE]
  /\ at' = [at EXCEPT ![t] = "swap"]
  /\ UNCHANGED <<L, my_qnode, my_pred, arrived>>

Swap(t) ==
  /\ at[t] = "swap"
  /\ L' = my_qnode[t]
  /\ my_pred' = [my_pred EXCEPT ![t] = L]
  /\ at' = [at EXCEPT ![t] = "spin"]
  /\ arrived' = Append(arrived, t)
  /\ UNCHANGED <<locked, my_qnode>>

Spin(t) ==
  /\ at[t] = "spin"
  /\ ~locked[my_pred[t]]
  /\ at' = [at EXCEPT ![t] = "cs"]
  /\ UNCHANGED <<L, locked, my_qnode, my_pred, arrived>>

Acquire(t) == Announce(t) \/ Swap(t) \/ Spin(t)

\* Mutant: the thread keeps its own node.
ReleaseKeepsNode(t) ==
  /\ at[t] = "cs"
  /\ locked' = [locked EXCEPT ![my_qnode[t]] = FALSE]
  /\ at' = [at EXCEPT ![t] = "out"]
  /\ arrived' = Tail(arrived)
  /\ UNCHANGED <<L, my_qnode, my_pred>>

Release(t) ==
  /\ at[t] = "cs"
  /\ locked' = [locked EXCEPT ![my_qnode[t]] = FALSE]
  /\ my_qnode' = [my_qnode EXCEPT ![t] = my_pred[t]]
  /\ at' = [at EXCEPT ![t] = "out"]
  /\ arrived' = Tail(arrived)
  /\ UNCHANGED <<L, my_pred>>

Next == \E t \in Threads : Acquire(t) \/ Release(t)

Step(t) == Swap(t) \/ Spin(t) \/ Release(t)

Spec == Init /\ [][Next]_vars
-----------------------------------------------------------------------------
FifoLock == INSTANCE FifoLock WITH
  line <- arrived, holders <- {t \in Threads : at[t] = "cs"}

\* Threads hold the lock one at a time and in the order of their swaps,
\* whoever's node they queue with and spin on.
InLine == UNCHANGED FifoLock!vars \/ FifoLock!Next

Fifo == FifoLock!Spec
-----------------------------------------------------------------------------
Nodes == Threads \cup {Dummy}

\* The node that no thread has for its next acquisition: the one the first of
\* the queue spins on, and the lock itself if the queue is empty.
Free == IF arrived = <<>> THEN L ELSE my_pred[arrived[1]]

\* The types of the variables.
TypeOK ==
  /\ L \in Nodes
  /\ locked \in [Nodes -> BOOLEAN]
  /\ my_qnode \in [Threads -> Nodes]
  /\ my_pred \in [Threads -> Nodes]
  /\ at \in [Threads -> {"out", "swap", "spin", "cs"}]
  /\ arrived \in Seq(Threads)

\* The queue is threaded through the nodes: each thread spins on the node of the
\* one before it, the lock points to the last one's, no two threads have one
\* node, and the nodes of the threads that want the lock are the locked ones.
QueueInv ==
  /\ TypeOK
  /\ \A t \in Threads :
       at[t] \in {"spin", "cs"} <=> \E i \in 1 .. Len(arrived) : arrived[i] = t
  /\ \A i, j \in 1 .. Len(arrived) : arrived[i] = arrived[j] => i = j
  /\ \A i \in 1 .. Len(arrived) - 1 : my_pred[arrived[i + 1]] = my_qnode[arrived[i]]
  /\ arrived # <<>> => L = my_qnode[arrived[Len(arrived)]]
  /\ \A t, u \in Threads : my_qnode[t] = my_qnode[u] => t = u
  /\ \A t \in Threads : my_qnode[t] # Free
  /\ \A t \in Threads : locked[my_qnode[t]] <=> at[t] # "out"
  /\ ~locked[Free]
  /\ \A t \in Threads : at[t] = "cs" => arrived[1] = t
=============================================================================
