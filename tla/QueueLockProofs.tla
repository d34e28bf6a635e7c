-------------------------- MODULE QueueLockProofs ---------------------------
(***************************************************************************)
(* What FifoLock promises (HeldByFirst), and that the queue locks CLH and  *)
(* MCS implement it, for any set of threads.                               *)
(*                                                                         *)
(* Each proof rests on an inductive invariant, QueueInv, that ties the     *)
(* order of the swaps to the nodes the threads queue with.                 *)
(*                                                                         *)
(* The time-published MCS lock keeps no such order: threads leave and come *)
(* back.  What it keeps is that the lock has one owner (OwnerInv): it is   *)
(* granted by a compare-and-swap of a status from WAITING, and every other *)
(* write of a status leaves its node without the lock.                     *)
(***************************************************************************)
EXTENDS FifoLock, Integers, TLAPS

\* Sequences of threads: u is in q; q repeats nothing; r is q without its first,
\* or with a last one added.
In(u, q) == \E i \in 1 .. Len(q) : q[i] = u
Once(q) == \A i, j \in 1 .. Len(q) : q[i] = q[j] => i = j
IsTail(r, q) ==
  /\ r \in Seq(Threads) /\ Len(r) = Len(q) - 1
  /\ \A i \in 1 .. Len(q) - 1 : r[i] = q[i + 1]
IsAppend(r, q, t) ==
  /\ r \in Seq(Threads) /\ r # <<>>
  /\ Len(r) = Len(q) + 1 /\ r[Len(r)] = t
  /\ \A i \in 1 .. Len(q) : r[i] = q[i]

\* What Append does to a line of threads.
LEMMA AppendProps ==
  ASSUME NEW q \in Seq(Threads), NEW t \in Threads
  PROVE  IsAppend(Append(q, t), q, t)
  BY DEF IsAppend

\* A line that is not empty has a first thread.
LEMMA NotEmpty ==
  ASSUME NEW q \in Seq(Threads), q # <<>>
  PROVE  Len(q) \in Nat /\ Len(q) >= 1
  OBVIOUS

\* A thread that was not in the line is added to it, once.
LEMMA AppendMembers ==
  ASSUME NEW q \in Seq(Threads), NEW t \in Threads, NEW r, IsAppend(r, q, t), Once(q), ~In(t, q)
  PROVE  Once(r) /\ \A u : In(u, r) <=> u = t \/ In(u, q)
  <1>1. Once(r)
    BY DEF Once, In, IsAppend
  <1>2. In(t, r)
    BY DEF In, IsAppend
  <1>3. ASSUME NEW u, In(u, q) PROVE In(u, r)
    BY <1>3 DEF In, IsAppend
  <1>4. ASSUME NEW u, In(u, r), u # t PROVE In(u, q)
    BY <1>4 DEF In, IsAppend
  <1> QED BY Zenon, <1>1, <1>2, <1>3, <1>4

\* What Tail does to a line of threads.
LEMMA TailProps ==
  ASSUME NEW q \in Seq(Threads), q # <<>>
  PROVE  IsTail(Tail(q), q)
  BY DEF IsTail

\* Without its first, the line has the others, once each.
LEMMA TailMembers ==
  ASSUME NEW q \in Seq(Threads), q # <<>>, NEW r, IsTail(r, q), Once(q)
  PROVE  Once(r) /\ \A u : In(u, r) <=> u # q[1] /\ In(u, q)
  <1>1. Once(r)
    BY DEF Once, IsTail
  <1>2. ASSUME NEW u, In(u, q), u # q[1] PROVE In(u, r)
    <2>1. PICK i \in 1 .. Len(q) : q[i] = u
      BY Zenon, <1>2 DEF In
    <2>2. i - 1 \in 1 .. Len(r) /\ r[i - 1] = u
      BY <1>2, <2>1 DEF IsTail
    <2> QED BY Zenon, <2>2 DEF In
  <1>3. ASSUME NEW u, In(u, r) PROVE u # q[1] /\ In(u, q)
    <2>1. PICK i \in 1 .. Len(r) : r[i] = u
      BY Zenon, <1>3 DEF In
    <2>2. i + 1 \in 1 .. Len(q) /\ q[i + 1] = u /\ i + 1 # 1 /\ 1 \in 1 .. Len(q)
      BY <2>1 DEF IsTail
    <2> QED BY Zenon, <2>2 DEF In, Once
  <1> QED BY Zenon, <1>1, <1>2, <1>3
-----------------------------------------------------------------------------
\* The lock is held by the first of the line, if anybody holds it.
FirstHolds == line \in Seq(Threads) /\ (holders # {} => line # <<>> /\ holders = {line[1]})

\* What the locks that implement FifoLock have in common: no two threads hold the
\* lock, and the one that holds it came first of those in the line.
THEOREM HeldByFirst == Spec => []FirstHolds
  <1>1. Init => FirstHolds
    BY DEF Init, FirstHolds
  <1>2. FirstHolds /\ [Next]_vars => FirstHolds'
    <2> SUFFICES ASSUME FirstHolds, [Next]_vars PROVE FirstHolds'
      OBVIOUS
    <2>1. ASSUME NEW t \in Threads, Arrive(t) PROVE FirstHolds'
      <3>1. IsAppend(line', line, t) /\ holders' = holders
        BY <2>1, AppendProps DEF Arrive, FirstHolds
      <3>2. line # <<>> => line'[1] = line[1]
        BY <3>1, NotEmpty DEF IsAppend, FirstHolds
      <3> QED BY <3>1, <3>2 DEF FirstHolds, IsAppend
    <2>2. ASSUME NEW t \in Threads, Enter(t) PROVE FirstHolds'
      BY <2>2 DEF Enter, FirstHolds
    <2>3. ASSUME NEW t \in Threads, TryEnter(t) PROVE FirstHolds'
      BY <2>3 DEF TryEnter, FirstHolds
    <2>4. ASSUME NEW t \in Threads, Leave(t) PROVE FirstHolds'
      BY <2>4 DEF Leave, FirstHolds
    <2>5. CASE UNCHANGED vars
      BY <2>5 DEF vars, FirstHolds
    <2> QED BY <2>1, <2>2, <2>3, <2>4, <2>5 DEF Next
  <1> QED BY <1>1, <1>2, PTL DEF Spec
-----------------------------------------------------------------------------
CONSTANTS Dummy, None

VARIABLES
  L, at, arrived,                          \* of both locks
  locked, my_qnode, my_pred,               \* of CLH
  next, waiting, freed, pred, succ         \* of MCS

CLH == INSTANCE CLH

MCS == INSTANCE MCS

\* init_clh_global and init_clh_local leave the queue empty and each thread with
\* a node of its own.
LEMMA CLHInit ==
  ASSUME CLH!Distinct, CLH!Init
  PROVE  CLH!QueueInv
  BY DEF CLH!Distinct, CLH!Init, CLH!QueueInv, CLH!TypeOK, CLH!Nodes, CLH!Free

\* Raising the flag of one's own node is invisible: nobody spins on it.
LEMMA CLHAnnounce ==
  ASSUME CLH!QueueInv, NEW t \in Threads, CLH!Announce(t)
  PROVE  CLH!QueueInv' /\ UNCHANGED CLH!FifoLock!vars
  BY DEF CLH!QueueInv, CLH!TypeOK, CLH!Nodes, CLH!Free, CLH!Announce, CLH!FifoLock!vars

\* The swap puts the thread at the end of the line, behind the last one's node.
LEMMA CLHSwap ==
  ASSUME CLH!QueueInv, NEW t \in Threads, CLH!Swap(t)
  PROVE  CLH!QueueInv' /\ CLH!FifoLock!Arrive(t)
  <1>1. \A i \in 1 .. Len(arrived) : arrived[i] # t
    BY Zenon DEF CLH!QueueInv, CLH!TypeOK, CLH!Swap
  <1>2. CLH!FifoLock!Arrive(t)
    BY <1>1 DEF CLH!QueueInv, CLH!TypeOK, CLH!Swap, CLH!FifoLock!Arrive
  <1>3. /\ arrived' \in Seq(Threads)
        /\ Len(arrived') = Len(arrived) + 1
        /\ arrived'[Len(arrived')] = t
        /\ \A i \in 1 .. Len(arrived) : arrived'[i] = arrived[i]
        /\ arrived' # <<>>
    BY DEF CLH!QueueInv, CLH!TypeOK, CLH!Swap
  <1>4. CLH!Free' = CLH!Free
    BY <1>3 DEF CLH!QueueInv, CLH!TypeOK, CLH!Free, CLH!Swap
  <1>5. CLH!QueueInv'
    BY <1>1, <1>3, <1>4 DEF CLH!QueueInv, CLH!TypeOK, CLH!Nodes, CLH!Swap
  <1> QED BY Zenon, <1>2, <1>5

\* The spin of clh_acquire ends only for the first of the line: the node any other
\* thread spins on is locked, because the thread it belongs to is in the line.
LEMMA CLHSpin ==
  ASSUME CLH!QueueInv, NEW t \in Threads, CLH!Spin(t)
  PROVE  CLH!QueueInv' /\ CLH!FifoLock!Enter(t)
  <1>1. PICK i \in 1 .. Len(arrived) : arrived[i] = t
    BY Zenon DEF CLH!QueueInv, CLH!TypeOK, CLH!Spin
  <1>2. ASSUME i # 1
        PROVE  FALSE
    <2>1. i - 1 \in 1 .. Len(arrived) - 1 /\ (i - 1) + 1 = i
      BY <1>1, <1>2 DEF CLH!QueueInv, CLH!TypeOK
    <2>2. my_pred[t] = my_qnode[arrived[i - 1]]
      BY <1>1, <2>1 DEF CLH!QueueInv
    <2>3. arrived[i - 1] \in Threads /\ at[arrived[i - 1]] # "out"
      BY <1>1, <2>1 DEF CLH!QueueInv, CLH!TypeOK
    <2> QED BY Zenon, <2>2, <2>3 DEF CLH!QueueInv, CLH!Spin
  <1>3. CLH!QueueInv'
    BY <1>1, <1>2 DEF CLH!QueueInv, CLH!TypeOK, CLH!Nodes, CLH!Free, CLH!Spin
  <1>4. CLH!FifoLock!Enter(t)
    BY <1>1, <1>2 DEF CLH!QueueInv, CLH!TypeOK, CLH!Spin, CLH!FifoLock!Enter
  <1> QED BY Zenon, <1>3, <1>4

\* clh_release hands the node it unlocks to the next of the line and takes the
\* free one: it becomes the free node in its place.
LEMMA CLHRelease ==
  ASSUME CLH!QueueInv, NEW t \in Threads, CLH!Release(t)
  PROVE  CLH!QueueInv' /\ CLH!FifoLock!Leave(t)
  <1>1. arrived \in Seq(Threads) /\ arrived # <<>> /\ arrived[1] = t /\ at[t] = "cs"
    BY DEF CLH!QueueInv, CLH!TypeOK, CLH!Release
  <1>2. /\ arrived' \in Seq(Threads)
        /\ Len(arrived') = Len(arrived) - 1
        /\ \A i \in 1 .. Len(arrived') : arrived'[i] = arrived[i + 1]
    BY <1>1 DEF CLH!Release
  <1>3. CLH!FifoLock!Leave(t)
    BY <1>1 DEF CLH!QueueInv, CLH!TypeOK, CLH!Release, CLH!FifoLock!Leave
  <1>4. CLH!TypeOK'
    BY Zenon, <1>2 DEF CLH!QueueInv, CLH!TypeOK, CLH!Release
  <1>5. my_qnode'[t] = CLH!Free /\ CLH!Free' = my_qnode[t]
    <2>1. my_qnode'[t] = CLH!Free
      BY Zenon, <1>1 DEF CLH!QueueInv, CLH!TypeOK, CLH!Free, CLH!Release
    <2>2. CASE Len(arrived) = 1
      <3>1. arrived' = <<>>
        BY <1>2, <2>2
      <3>2. L' = my_qnode[t]
        BY Zenon, <1>1, <2>2 DEF CLH!QueueInv, CLH!Release
      <3> QED BY Zenon, <2>1, <3>1, <3>2 DEF CLH!Free
    <2>3. CASE Len(arrived) # 1
      <3>1. 1 \in 1 .. Len(arrived) - 1 /\ arrived' # <<>> /\ arrived'[1] = arrived[1 + 1]
        BY <1>1, <1>2, <2>3
      <3>2. my_pred'[arrived'[1]] = my_qnode[t]
        BY ZenonT(60), <1>1, <3>1 DEF CLH!QueueInv, CLH!Release
      <3> QED BY Zenon, <2>1, <3>1, <3>2 DEF CLH!Free
    <2> QED BY Zenon, <2>1, <2>2, <2>3
  <1>6. \A u \in Threads :
          at'[u] \in {"spin", "cs"} <=> \E i \in 1 .. Len(arrived') : arrived'[i] = u
    <2> SUFFICES ASSUME NEW u \in Threads
                 PROVE  at'[u] \in {"spin", "cs"} <=> \E i \in 1 .. Len(arrived') : arrived'[i] = u
      BY Zenon
    <2>1. CASE u = t
      BY <1>1, <1>2, <2>1 DEF CLH!QueueInv, CLH!TypeOK, CLH!Release
    <2>2. CASE u # t
      <3>1. at'[u] = at[u]
        BY ZenonT(60), <2>2 DEF CLH!QueueInv, CLH!TypeOK, CLH!Release
      <3>2. ASSUME NEW i \in 1 .. Len(arrived), arrived[i] = u
            PROVE  \E j \in 1 .. Len(arrived') : arrived'[j] = u
        <4>1. i - 1 \in 1 .. Len(arrived') /\ (i - 1) + 1 = i
          BY <1>1, <1>2, <2>2, <3>2
        <4> QED BY Zenon, <1>2, <3>2, <4>1
      <3>3. ASSUME NEW j \in 1 .. Len(arrived'), arrived'[j] = u
            PROVE  \E i \in 1 .. Len(arrived) : arrived[i] = u
        <4>1. j + 1 \in 1 .. Len(arrived)
          BY <1>1, <1>2
        <4> QED BY Zenon, <1>2, <3>3, <4>1
      <3> QED BY Zenon, <3>1, <3>2, <3>3 DEF CLH!QueueInv
    <2> QED BY Zenon, <2>1, <2>2
  <1>7. /\ \A i, j \in 1 .. Len(arrived') : arrived'[i] = arrived'[j] => i = j
        /\ \A i \in 1 .. Len(arrived') - 1 : my_pred'[arrived'[i + 1]] = my_qnode'[arrived'[i]]
        /\ arrived' # <<>> => L' = my_qnode'[arrived'[Len(arrived')]]
    BY <1>1, <1>2 DEF CLH!QueueInv, CLH!TypeOK, CLH!Release
  <1>8. /\ \A u, w \in Threads : my_qnode'[u] = my_qnode'[w] => u = w
        /\ \A u \in Threads : my_qnode'[u] # CLH!Free'
    BY <1>5 DEF CLH!QueueInv, CLH!TypeOK, CLH!Release
  <1>9. /\ \A u \in Threads : locked'[my_qnode'[u]] <=> at'[u] # "out"
        /\ ~locked'[CLH!Free']
        /\ \A u \in Threads : at'[u] = "cs" => arrived'[1] = u
    BY <1>1, <1>5 DEF CLH!QueueInv, CLH!TypeOK, CLH!Release
  <1> QED BY Zenon, <1>3, <1>4, <1>6, <1>7, <1>8, <1>9 DEF CLH!QueueInv

\* The CLH lock of clh.c lets threads in one at a time and in the order of their
\* swaps, for any number of threads, although their nodes change hands: it
\* implements FifoLock.
THEOREM CLHFifo ==
  ASSUME CLH!Distinct
  PROVE  CLH!Spec => CLH!Fifo
  <1>1. CLH!Init => CLH!QueueInv /\ CLH!FifoLock!Init
    BY Zenon, CLHInit DEF CLH!Init, CLH!FifoLock!Init
  <1>2. CLH!QueueInv /\ [CLH!Next]_(CLH!vars)
        => CLH!QueueInv' /\ [CLH!FifoLock!Next]_(CLH!FifoLock!vars)
    <2>1. CLH!QueueInv /\ CLH!Next => CLH!QueueInv' /\ [CLH!FifoLock!Next]_(CLH!FifoLock!vars)
      BY Zenon, CLHAnnounce, CLHSwap, CLHSpin, CLHRelease DEF CLH!Next, CLH!Acquire, CLH!FifoLock!Next
    <2>2. CLH!QueueInv /\ UNCHANGED CLH!vars
          => CLH!QueueInv' /\ UNCHANGED CLH!FifoLock!vars
      BY DEF CLH!QueueInv, CLH!TypeOK, CLH!Free, CLH!vars, CLH!FifoLock!vars
    <2> QED BY <2>1, <2>2
  <1> QED BY <1>1, <1>2, PTL DEF CLH!Spec, CLH!Fifo, CLH!FifoLock!Spec
-----------------------------------------------------------------------------
\* The lock is created with an empty queue.
LEMMA MCSInit ==
  ASSUME MCS!Distinct, MCS!Init
  PROVE  MCS!QueueInv /\ MCS!FifoLock!Init
  BY DEF MCS!Distinct, MCS!Init, MCS!QueueInv, MCS!TypeOK, MCS!Leaving, MCS!FifoLock!Init,
     MCS!Waiting, MCS!Members, MCS!OneOwner, MCS!Chained, MCS!FirstOfLine, MCS!LastOfLine

\* The conjuncts of the invariant.
LEMMA MCSFacts ==
  ASSUME MCS!QueueInv
  PROVE  /\ MCS!TypeOK /\ MCS!Members /\ MCS!OneOwner /\ MCS!Chained /\ MCS!FirstOfLine
         /\ MCS!LastOfLine /\ arrived \in Seq(Threads)
  BY Zenon DEF MCS!QueueInv, MCS!TypeOK

\* The thread that waits behind no other: it has the lock, or has been let in.
LEMMA MCSFirst ==
  ASSUME MCS!QueueInv, NEW t \in Threads,
         at[t] = "cs" \/ (at[t] = "spin" /\ ~waiting[t])
  PROVE  /\ arrived # <<>> /\ arrived[1] = t
         /\ \A u \in Threads : at[u] \in {"cs"} \cup MCS!Leaving => u = t
  <1>1. ASSUME NEW u \in Threads, at[u] = "cs" \/ (at[u] = "spin" /\ ~waiting[u])
        PROVE  arrived # <<>> /\ arrived[1] = u
    <2>1. PICK i \in 1 .. Len(arrived) : arrived[i] = u
      BY Zenon, <1>1, MCSFacts DEF MCS!Members, MCS!Waiting
    <2>2. i # 1 => i - 1 \in 1 .. Len(arrived) - 1 /\ (i - 1) + 1 = i
      BY MCSFacts
    <2>3. i # 1 => MCS!Behind(u, arrived[i - 1])
      BY Zenon, <2>1, <2>2, MCSFacts DEF MCS!Chained
    <2>4. i = 1
      BY Zenon, <1>1, <2>3 DEF MCS!Behind, MCS!Waiting
    <2> QED BY <2>1, <2>4, MCSFacts
  <1>2. ASSUME NEW u \in Threads, at[u] \in MCS!Leaving
        PROVE  u = t
    <2>1. MCS!Behind(t, u)
      BY Zenon, <1>1, <1>2, MCSFacts DEF MCS!FirstOfLine
    <2> QED BY Zenon, <2>1, <1>2 DEF MCS!Behind, MCS!Waiting
  <1> QED BY Zenon, <1>1, <1>2

\* A thread that has swapped the tail and not linked itself yet waits behind its
\* pred, which is in the line just before it or releases the lock.
LEMMA MCSBehind ==
  ASSUME MCS!QueueInv, NEW t \in Threads, at[t] \in {"arm", "link"}
  PROVE  /\ MCS!Behind(t, pred[t])
         /\ pred[t] \in Threads
         /\ \/ /\ at[pred[t]] \in MCS!Leaving
               /\ arrived # <<>> /\ arrived[1] = t
            \/ \E i \in 1 .. Len(arrived) - 1 : arrived[i] = pred[t] /\ arrived[i + 1] = t
  <1>1. PICK i \in 1 .. Len(arrived) : arrived[i] = t
    BY Zenon, MCSFacts DEF MCS!Members, MCS!Waiting
  <1>2. CASE i = 1
    <2>1. arrived # <<>>
      BY <1>1, <1>2, MCSFacts
    <2>2. PICK p \in Threads : at[p] \in MCS!Leaving
      BY Zenon, <1>1, <1>2, <2>1, MCSFacts DEF MCS!FirstOfLine
    <2>3. MCS!Behind(t, p)
      BY Zenon, <1>1, <1>2, <2>1, <2>2, MCSFacts DEF MCS!FirstOfLine
    <2> QED BY Zenon, <1>1, <1>2, <2>1, <2>2, <2>3 DEF MCS!Behind
  <1>3. CASE i # 1
    <2>1. i - 1 \in 1 .. Len(arrived) - 1 /\ (i - 1) + 1 = i
      BY <1>1, <1>3, MCSFacts
    <2>2. arrived[i - 1] \in Threads /\ MCS!Behind(t, arrived[i - 1])
      BY <1>1, <2>1, MCSFacts DEF MCS!Chained
    <2>3. pred[t] = arrived[i - 1]
      BY Zenon, <2>2 DEF MCS!Behind
    <2> QED BY Zenon, <1>1, <2>1, <2>2, <2>3
  <1> QED BY Zenon, <1>2, <1>3

\* Steps that keep the line and the tail, do not move a thread into or out of
\* the line, and keep every thread behind its predecessor.
LEMMA MCSSameLine ==
  ASSUME MCS!QueueInv, MCS!TypeOK', UNCHANGED <<L, arrived>>,
         \A u \in Threads : at[u] \in MCS!Waiting <=> at'[u] \in MCS!Waiting,
         \A u \in Threads : at[u] = "cs" <=> at'[u] = "cs",
         \A u \in Threads : at'[u] \in MCS!Leaving => at[u] \in MCS!Leaving
  PROVE  MCS!Members' /\ MCS!OneOwner' /\ UNCHANGED MCS!FifoLock!vars
  <1>1. MCS!Members'
    BY Zenon, MCSFacts DEF MCS!Members
  <1>2. MCS!OneOwner'
    BY MCSFacts DEF MCS!OneOwner
  <1> QED BY Zenon, <1>1, <1>2 DEF MCS!FifoLock!vars

\* Arming the node after the swap is in time: nobody can have reset it yet.
LEMMA MCSArm ==
  ASSUME MCS!Distinct, MCS!QueueInv, NEW t \in Threads, MCS!Arm(t)
  PROVE  MCS!QueueInv' /\ UNCHANGED MCS!FifoLock!vars
  <1>1. /\ at[t] = "arm" /\ at' = [at EXCEPT ![t] = "link"]
        /\ waiting' = [waiting EXCEPT ![t] = TRUE]
        /\ UNCHANGED <<L, next, freed, pred, succ, arrived>>
    BY Zenon DEF MCS!Arm, MCS!Move
  <1>2. MCS!TypeOK' /\ \A u \in Threads : u \in freed' <=> at'[u] = "end"
    BY Zenon, <1>1 DEF MCS!QueueInv, MCS!TypeOK, MCS!Waiting
  <1>3. MCS!Members' /\ MCS!OneOwner' /\ UNCHANGED MCS!FifoLock!vars
    BY Zenon, <1>1, <1>2, MCSSameLine, MCSFacts DEF MCS!Waiting, MCS!Leaving, MCS!TypeOK
  <1>4. \A u, p \in Threads : MCS!Behind(u, p) => MCS!Behind(u, p)'
    BY Zenon, <1>1, MCSFacts DEF MCS!Behind, MCS!Waiting, MCS!TypeOK
  <1>5. MCS!Chained'
    BY <1>1, <1>4, MCSFacts DEF MCS!Chained
  <1>6. MCS!FirstOfLine' /\ MCS!LastOfLine'
    BY <1>1, <1>4, MCSFacts DEF MCS!FirstOfLine, MCS!LastOfLine, MCS!TypeOK, MCS!Leaving
  <1> QED BY Zenon, <1>2, <1>3, <1>5, <1>6 DEF MCS!QueueInv

\* Linking the node writes the field of the predecessor's only.
LEMMA MCSLink ==
  ASSUME MCS!Distinct, MCS!QueueInv, NEW t \in Threads, MCS!Link(t)
  PROVE  MCS!QueueInv' /\ UNCHANGED MCS!FifoLock!vars
  <1>1. /\ at[t] = "link" /\ at' = [at EXCEPT ![t] = "spin"]
        /\ next' = [next EXCEPT ![pred[t]] = t]
        /\ UNCHANGED <<L, waiting, freed, pred, succ, arrived>>
    BY Zenon DEF MCS!Link, MCS!Move
  <1>2. MCS!TypeOK' /\ \A u \in Threads : u \in freed' <=> at'[u] = "end"
    BY Zenon, <1>1 DEF MCS!QueueInv, MCS!TypeOK, MCS!Waiting
  <1>3. MCS!Members' /\ MCS!OneOwner' /\ UNCHANGED MCS!FifoLock!vars
    BY ZenonT(60), <1>1, <1>2, MCSSameLine, MCSFacts DEF MCS!Waiting, MCS!Leaving, MCS!TypeOK
  <1>4. /\ MCS!Behind(t, pred[t]) /\ pred[t] \in Threads
        /\ \/ at[pred[t]] \in MCS!Leaving /\ arrived # <<>> /\ arrived[1] = t
           \/ \E i \in 1 .. Len(arrived) - 1 : arrived[i] = pred[t] /\ arrived[i + 1] = t
    BY Zenon, <1>1, MCSBehind
  <1>5. \A i \in 1 .. Len(arrived) : at[arrived[i]] \notin MCS!Leaving
    BY MCSFacts DEF MCS!Members, MCS!Leaving, MCS!Waiting
  <1>6. ASSUME NEW u \in Threads, NEW p \in Threads, MCS!Behind(u, p), p = pred[t] => u = t
        PROVE  MCS!Behind(u, p)'
    BY Zenon, <1>1, <1>4, <1>6, MCSFacts DEF MCS!Behind, MCS!Waiting, MCS!TypeOK
  <1>7. MCS!Chained'
    <2> SUFFICES ASSUME NEW i \in 1 .. Len(arrived) - 1
                 PROVE  MCS!Behind(arrived[i + 1], arrived[i])'
      BY Zenon, <1>1 DEF MCS!Chained
    <2>1. i \in 1 .. Len(arrived) /\ i + 1 \in 1 .. Len(arrived)
      BY MCSFacts
    <2>2. arrived[i] = pred[t] => arrived[i + 1] = t
      BY <1>4, <1>5, <2>1, MCSFacts DEF MCS!Members
    <2> QED BY <1>1, <1>6, <2>1, <2>2, MCSFacts DEF MCS!Chained
  <1>8. \A u \in Threads : at[u] \in MCS!Leaving /\ u = pred[t] => arrived[1] = t
    BY <1>4, <1>5, MCSFacts
  <1>9. MCS!FirstOfLine'
    BY <1>1, <1>6, <1>8, MCSFacts DEF MCS!FirstOfLine, MCS!TypeOK, MCS!Leaving, MCS!Waiting
  <1>10. MCS!LastOfLine'
    <2>1. arrived # <<>> /\ L = arrived[Len(arrived)]
      BY <1>4, MCSFacts DEF MCS!LastOfLine
    <2>2. Len(arrived) \in 1 .. Len(arrived)
      BY <2>1, MCSFacts
    <2>3. L # pred[t]
      BY <1>4, <1>5, <2>1, <2>2, MCSFacts DEF MCS!Members
    <2> QED BY Zenon, <1>1, <2>1, <2>3, MCSFacts DEF MCS!LastOfLine, MCS!TypeOK
  <1> QED BY Zenon, <1>2, <1>3, <1>7, <1>9, <1>10 DEF MCS!QueueInv

\* The spin of mcs_acquire ends only for the first of the line, when the one that
\* released the lock is gone.
LEMMA MCSSpin ==
  ASSUME MCS!Distinct, MCS!QueueInv, NEW t \in Threads, MCS!Spin(t)
  PROVE  MCS!QueueInv' /\ MCS!FifoLock!Enter(t)
  <1>1. /\ at[t] = "spin" /\ at' = [at EXCEPT ![t] = "cs"]
        /\ ~waiting[t]
        /\ UNCHANGED <<L, next, waiting, freed, pred, succ, arrived>>
    BY Zenon DEF MCS!Spin, MCS!Move
  <1>2. MCS!TypeOK' /\ \A u \in Threads : u \in freed' <=> at'[u] = "end"
    BY Zenon, <1>1 DEF MCS!QueueInv, MCS!TypeOK, MCS!Waiting
  <1>3. arrived # <<>> /\ arrived[1] = t
    BY Zenon, <1>1, MCSFirst
  <1>4. \A u \in Threads : at[u] \notin {"cs"} \cup MCS!Leaving
    BY Zenon, <1>1, MCSFirst DEF MCS!Leaving
  <1>5. MCS!FifoLock!Enter(t)
    BY <1>1, <1>3, <1>4, MCSFacts DEF MCS!TypeOK, MCS!FifoLock!Enter
  <1>6. MCS!Members' /\ MCS!OneOwner'
    BY <1>1, <1>4, MCSFacts DEF MCS!Members, MCS!OneOwner, MCS!TypeOK, MCS!Leaving, MCS!Waiting
  <1>7. \A u, p \in Threads : MCS!Behind(u, p) => MCS!Behind(u, p)'
    BY Zenon, <1>1, MCSFacts DEF MCS!Behind, MCS!TypeOK
  <1>8. MCS!Chained'
    BY <1>1, <1>7, MCSFacts DEF MCS!Chained
  <1>9. MCS!FirstOfLine' /\ MCS!LastOfLine'
    BY Zenon, <1>1, <1>3, <1>4, MCSFacts DEF MCS!FirstOfLine, MCS!LastOfLine, MCS!TypeOK, MCS!Leaving
  <1> QED BY Zenon, <1>2, <1>5, <1>6, <1>8, <1>9 DEF MCS!QueueInv

\* The compare-and-swap of mcs_release empties the queue only if no thread has
\* swapped the tail since.
LEMMA MCSEmpty ==
  ASSUME MCS!Distinct, MCS!QueueInv, NEW t \in Threads, MCS!Empty(t)
  PROVE  MCS!QueueInv' /\ UNCHANGED MCS!FifoLock!vars
  <1>1. /\ at[t] = "cas" /\ at' = [at EXCEPT ![t] = IF L = t THEN "out" ELSE "await"]
        /\ L' = IF L = t THEN None ELSE L
        /\ UNCHANGED <<next, waiting, freed, pred, succ, arrived>>
    BY Zenon DEF MCS!Empty, MCS!Move
  <1>2. MCS!TypeOK' /\ \A u \in Threads : u \in freed' <=> at'[u] = "end"
    BY Zenon, <1>1 DEF MCS!QueueInv, MCS!TypeOK, MCS!Leaving
  <1>3. MCS!Members' /\ MCS!OneOwner'
    BY <1>1, MCSFacts DEF MCS!Members, MCS!OneOwner, MCS!TypeOK, MCS!Leaving, MCS!Waiting
  <1>4. \A u, p \in Threads : MCS!Behind(u, p) => MCS!Behind(u, p)'
    BY Zenon, <1>1, MCSFacts DEF MCS!Behind, MCS!TypeOK, MCS!Waiting
  <1>5. MCS!Chained'
    BY <1>1, <1>4, MCSFacts DEF MCS!Chained
  <1>6. L = t => arrived = <<>>
    BY <1>1, MCSFacts DEF MCS!LastOfLine, MCS!Members, MCS!Waiting
  <1>7. \A u \in Threads : at[u] \in MCS!Leaving => u = t
    BY Zenon, <1>1, MCSFacts DEF MCS!OneOwner, MCS!Leaving
  <1>8. MCS!FirstOfLine' /\ MCS!LastOfLine'
    BY <1>1, <1>4, <1>6, <1>7, MCSFacts DEF MCS!FirstOfLine, MCS!LastOfLine, MCS!TypeOK, MCS!Leaving, MCS!Distinct
  <1>9. UNCHANGED MCS!FifoLock!vars
    BY Zenon, <1>1, MCSFacts DEF MCS!TypeOK, MCS!FifoLock!vars
  <1> QED BY Zenon, <1>2, <1>3, <1>5, <1>8, <1>9 DEF MCS!QueueInv

\* A release that has lost the compare-and-swap waits for the first of the line.
LEMMA MCSAwaitLink ==
  ASSUME MCS!Distinct, MCS!QueueInv, NEW t \in Threads, MCS!AwaitLink(t)
  PROVE  MCS!QueueInv' /\ UNCHANGED MCS!FifoLock!vars
  <1>1. /\ at[t] = "await" /\ at' = [at EXCEPT ![t] = "grant"]
        /\ next[t] # None /\ succ' = [succ EXCEPT ![t] = next[t]]
        /\ UNCHANGED <<L, next, waiting, freed, pred, arrived>>
    BY Zenon DEF MCS!AwaitLink, MCS!Move
  <1>2. MCS!TypeOK' /\ \A u \in Threads : u \in freed' <=> at'[u] = "end"
    BY Zenon, <1>1 DEF MCS!QueueInv, MCS!TypeOK, MCS!Leaving
  <1>3. MCS!Members' /\ MCS!OneOwner' /\ UNCHANGED MCS!FifoLock!vars
    BY Zenon, <1>1, <1>2, MCSSameLine, MCSFacts DEF MCS!Waiting, MCS!Leaving, MCS!TypeOK
  <1>4. \A u, p \in Threads : MCS!Behind(u, p) => MCS!Behind(u, p)'
    BY Zenon, <1>1, MCSFacts DEF MCS!Behind, MCS!TypeOK, MCS!Waiting
  <1>5. MCS!Chained'
    BY SMTT(60), <1>1, <1>4, MCSFacts DEF MCS!Chained
  <1>6. arrived # <<>> /\ MCS!Behind(arrived[1], t)
    BY Zenon, <1>1, MCSFacts DEF MCS!FirstOfLine, MCS!Leaving
  <1>7. at[arrived[1]] = "spin" /\ next[t] = arrived[1]
    BY Zenon, <1>1, <1>6 DEF MCS!Behind
  <1>8. MCS!FirstOfLine' /\ MCS!LastOfLine'
    BY SMTT(60), <1>1, <1>4, <1>6, <1>7, MCSFacts DEF MCS!FirstOfLine, MCS!LastOfLine, MCS!TypeOK, MCS!Leaving
  <1> QED BY Zenon, <1>2, <1>3, <1>5, <1>8 DEF MCS!QueueInv

\* The thread let in is the first of the line, and it spins.
LEMMA MCSGrant ==
  ASSUME MCS!Distinct, MCS!QueueInv, NEW t \in Threads, MCS!Grant(t)
  PROVE  MCS!QueueInv' /\ UNCHANGED MCS!FifoLock!vars
  <1>1. /\ at[t] = "grant" /\ at' = [at EXCEPT ![t] = "out"]
        /\ waiting' = [waiting EXCEPT ![succ[t]] = FALSE]
        /\ succ' = [succ EXCEPT ![t] = None]
        /\ UNCHANGED <<L, next, freed, pred, arrived>>
    BY Zenon DEF MCS!Grant, MCS!Move
  <1>2. MCS!TypeOK' /\ \A u \in Threads : u \in freed' <=> at'[u] = "end"
    BY Zenon, <1>1 DEF MCS!QueueInv, MCS!TypeOK
  <1>3. MCS!Members' /\ MCS!OneOwner' /\ UNCHANGED MCS!FifoLock!vars
    BY Zenon, <1>1, <1>2, MCSSameLine, MCSFacts DEF MCS!Waiting, MCS!Leaving, MCS!TypeOK
  <1>4. arrived # <<>> /\ at[arrived[1]] = "spin" /\ succ[t] = arrived[1] /\ arrived[1] \in Threads
    BY <1>1, MCSFacts DEF MCS!FirstOfLine
  <1>5. \A u, p \in Threads : u # arrived[1] /\ MCS!Behind(u, p) => MCS!Behind(u, p)'
    BY Zenon, <1>1, <1>4, MCSFacts DEF MCS!Behind, MCS!TypeOK, MCS!Waiting
  <1>6. MCS!Chained'
    <2> SUFFICES ASSUME NEW i \in 1 .. Len(arrived) - 1
                 PROVE  MCS!Behind(arrived[i + 1], arrived[i])'
      BY Zenon, <1>1 DEF MCS!Chained
    <2>1. i \in 1 .. Len(arrived) /\ i + 1 \in 1 .. Len(arrived) /\ i + 1 # 1 /\ 1 \in 1 .. Len(arrived)
      BY MCSFacts
    <2>2. arrived[i + 1] # arrived[1]
      BY ZenonT(60), <2>1, MCSFacts DEF MCS!Members
    <2> QED BY <1>1, <1>5, <2>1, <2>2, MCSFacts DEF MCS!Chained
  <1>7. \A u \in Threads : at'[u] \notin MCS!Leaving
    BY Zenon, <1>1, MCSFacts DEF MCS!OneOwner, MCS!Leaving, MCS!TypeOK
  <1>8. at'[arrived[1]] = "spin" /\ ~waiting'[arrived[1]]
    BY Zenon, <1>1, <1>4, MCSFacts DEF MCS!TypeOK
  <1>9. MCS!FirstOfLine' /\ MCS!LastOfLine'
    BY Zenon, <1>1, <1>4, <1>7, <1>8, MCSFacts DEF MCS!FirstOfLine, MCS!LastOfLine, MCS!Leaving
  <1> QED BY Zenon, <1>2, <1>3, <1>6, <1>9 DEF MCS!QueueInv

\* A thread that frees its node is not in the queue.
LEMMA MCSExit ==
  ASSUME MCS!Distinct, MCS!QueueInv, NEW t \in Threads, MCS!Exit(t)
  PROVE  MCS!QueueInv' /\ UNCHANGED MCS!FifoLock!vars
  <1>1. /\ at[t] = "out" /\ at' = [at EXCEPT ![t] = "end"]
        /\ freed' = freed \cup {t}
        /\ UNCHANGED <<L, next, waiting, pred, succ, arrived>>
    BY Zenon DEF MCS!Exit, MCS!Move
  <1>2. MCS!TypeOK' /\ \A u \in Threads : u \in freed' <=> at'[u] = "end"
    BY Zenon, <1>1 DEF MCS!QueueInv, MCS!TypeOK
  <1>3. MCS!Members' /\ MCS!OneOwner' /\ UNCHANGED MCS!FifoLock!vars
    BY Zenon, <1>1, <1>2, MCSSameLine, MCSFacts DEF MCS!Waiting, MCS!Leaving, MCS!TypeOK
  <1>4. \A u, p \in Threads : MCS!Behind(u, p) => MCS!Behind(u, p)'
    BY Zenon, <1>1, MCSFacts DEF MCS!Behind, MCS!TypeOK, MCS!Waiting
  <1>5. MCS!Chained'
    BY <1>1, <1>4, MCSFacts DEF MCS!Chained
  <1>6. MCS!FirstOfLine' /\ MCS!LastOfLine'
    BY <1>1, <1>4, MCSFacts DEF MCS!FirstOfLine, MCS!LastOfLine, MCS!TypeOK, MCS!Leaving
  <1> QED BY Zenon, <1>2, <1>3, <1>5, <1>6 DEF MCS!QueueInv

\* The first look at the successor takes the thread out of the line, whether it
\* sees one or not.
LEMMA MCSRelease ==
  ASSUME MCS!Distinct, MCS!QueueInv, NEW t \in Threads, MCS!Release(t)
  PROVE  MCS!QueueInv' /\ MCS!FifoLock!Leave(t)
  <1>1. /\ at[t] = "cs" /\ at' = [at EXCEPT ![t] = IF next[t] = None THEN "cas" ELSE "grant"]
        /\ succ' = [succ EXCEPT ![t] = next[t]]
        /\ arrived' = Tail(arrived)
        /\ UNCHANGED <<L, next, waiting, freed, pred>>
    BY Zenon DEF MCS!Release, MCS!Move
  <1>2. /\ arrived # <<>> /\ arrived[1] = t
        /\ \A u \in Threads : at[u] \in {"cs"} \cup MCS!Leaving => u = t
    BY Zenon, <1>1, MCSFirst
  <1>3. PICK q : arrived' = q /\ IsTail(q, arrived)
    BY Zenon, <1>1, <1>2, MCSFacts, TailProps
  <1>4. Once(q) /\ \A u : In(u, q) <=> u # t /\ In(u, arrived)
    <2>1. Once(arrived)
      BY Zenon, MCSFacts DEF MCS!Members, Once
    <2> QED BY Zenon, <1>2, <1>3, <2>1, MCSFacts, TailMembers
  <1>5. MCS!FifoLock!Leave(t)
    BY <1>1, <1>2, MCSFacts DEF MCS!TypeOK, MCS!FifoLock!Leave
  <1>6. MCS!TypeOK' /\ \A u \in Threads : u \in freed' <=> at'[u] = "end"
    BY Zenon, <1>1, <1>3 DEF MCS!QueueInv, MCS!TypeOK, MCS!Leaving, IsTail
  <1>7. at'[t] \in MCS!Leaving /\ \A u \in Threads : u # t => at'[u] = at[u]
    BY Zenon, <1>1, MCSFacts DEF MCS!TypeOK, MCS!Leaving
  <1>8. MCS!Members'
    <2>1. at'[t] \notin MCS!Waiting \cup {"cs"}
      BY Zenon, <1>7 DEF MCS!Waiting, MCS!Leaving
    <2>2. \A u \in Threads : at[u] \in MCS!Waiting \cup {"cs"} <=> In(u, arrived)
      BY Zenon, MCSFacts DEF MCS!Members, In
    <2>3. \A u \in Threads : at'[u] \in MCS!Waiting \cup {"cs"} <=> In(u, q)
      BY Zenon, <1>4, <1>7, <2>1, <2>2
    <2> QED BY ZenonT(60), <1>3, <1>4, <2>3 DEF MCS!Members, In, Once
  <1>9. MCS!OneOwner'
    BY Zenon, <1>2, <1>7 DEF MCS!OneOwner
  <1>10. \A u, p \in Threads : u # t /\ MCS!Behind(u, p) => MCS!Behind(u, p)'
    BY Zenon, <1>1, <1>7 DEF MCS!Behind
  <1>11. MCS!Chained'
    <2> SUFFICES ASSUME NEW i \in 1 .. Len(q) - 1
                 PROVE  MCS!Behind(q[i + 1], q[i])'
      BY Zenon, <1>3 DEF MCS!Chained
    <2>1. /\ i + 1 \in 1 .. Len(arrived) - 1 /\ (i + 1) + 1 \in 1 .. Len(arrived)
          /\ i \in 1 .. Len(arrived) - 1 /\ 1 \in 1 .. Len(arrived) /\ (i + 1) + 1 # 1
      BY <1>3, MCSFacts DEF IsTail
    <2>2. q[i] = arrived[i + 1] /\ q[i + 1] = arrived[(i + 1) + 1]
      BY Zenon, <1>3, <2>1 DEF IsTail
    <2>3. MCS!Behind(q[i + 1], q[i])
      BY Zenon, <2>1, <2>2, MCSFacts DEF MCS!Chained
    <2>4. q[i + 1] # t /\ q[i] \in Threads /\ q[i + 1] \in Threads
      BY <1>2, <2>1, <2>2, MCSFacts DEF MCS!Members
    <2> QED BY Zenon, <1>10, <2>3, <2>4
  <1>12. MCS!FirstOfLine' /\ MCS!LastOfLine'
    <2>1. CASE Len(arrived) = 1
      <3>1. arrived' = <<>> /\ L' = t /\ next'[t] = None
        BY <1>1, <1>2, <1>3, <2>1, MCSFacts DEF MCS!LastOfLine, MCS!Distinct, IsTail
      <3>2. at'[t] = "cas"
        BY Zenon, <1>1, <3>1, MCSFacts DEF MCS!TypeOK
      <3>3. MCS!FirstOfLine' /\ MCS!LastOfLine'
        BY Zenon, <1>2, <1>7, <3>1, <3>2 DEF MCS!FirstOfLine, MCS!LastOfLine, MCS!Leaving
      <3> QED BY Zenon, <3>3
    <2>2. CASE Len(arrived) # 1
      <3>1. 1 \in 1 .. Len(arrived) - 1 /\ 1 + 1 \in 1 .. Len(arrived) /\ 1 \in 1 .. Len(arrived)
        <4>1. Len(arrived) \in Nat /\ Len(arrived) >= 1
          BY Zenon, <1>2, MCSFacts, NotEmpty
        <4>2. PICK n \in Nat : n = Len(arrived)
          BY Zenon, <4>1
        <4>3. n > 1
          BY <2>2, <4>1, <4>2
        <4> QED BY <4>2, <4>3
      <3>2. PICK w \in Threads : q[1] = w /\ w # t /\ MCS!Behind(w, t)
        BY <1>2, <1>3, <3>1, MCSFacts DEF MCS!Chained, MCS!Members, IsTail
      <3>3. MCS!Behind(w, t)'
        BY Zenon, <1>10, <3>2
      <3>4. at'[t] = "grant" => at'[w] = "spin" /\ succ'[t] = w
        BY Zenon, <1>1, <3>2, MCSFacts DEF MCS!Behind, MCS!TypeOK
      <3>5. L' = q[Len(q)] /\ next'[L'] = None
        <4>1. /\ Len(arrived) - 1 \in 1 .. Len(arrived) - 1 /\ (Len(arrived) - 1) + 1 = Len(arrived)
              /\ Len(arrived) \in 1 .. Len(arrived)
          BY <3>1, MCSFacts
        <4>2. L' = arrived[Len(arrived)] /\ L' # None /\ next'[L'] = None
          BY <1>1, <1>2, <4>1, MCSFacts DEF MCS!LastOfLine, MCS!Distinct
        <4> QED BY Zenon, <1>3, <4>1, <4>2 DEF IsTail
      <3>6. q # <<>>
        BY <1>3, <3>1 DEF IsTail
      <3>7. MCS!FirstOfLine' /\ MCS!LastOfLine'
        BY Zenon, <1>2, <1>3, <1>7, <3>2, <3>3, <3>4, <3>5, <3>6 DEF MCS!FirstOfLine, MCS!LastOfLine, MCS!Leaving
      <3> QED BY Zenon, <3>7
    <2> QED BY Zenon, <2>1, <2>2
  <1> QED BY Zenon, <1>5, <1>6, <1>8, <1>9, <1>11, <1>12 DEF MCS!QueueInv

\* The swap of the tail, by mcs_acquire or by a trylock that finds it empty.
MCSJoins(t) ==
  /\ at[t] = "out" /\ at' = [at EXCEPT ![t] = IF L = None THEN "cs" ELSE "arm"]
  /\ L' = t /\ next' = [next EXCEPT ![t] = None]
  /\ arrived' = Append(arrived, t)
  /\ pred' \in [Threads -> Threads \cup {None}] /\ (L # None => pred'[t] = L)
  /\ \A u \in Threads : u # t => pred'[u] = pred[u]
  /\ UNCHANGED <<waiting, freed, succ>>

\* The swap puts the thread at the end of the line, or gives it the lock.
LEMMA MCSJoin ==
  ASSUME MCS!Distinct, MCS!QueueInv, NEW t \in Threads, MCSJoins(t)
  PROVE  /\ MCS!QueueInv'
         /\ L = None => MCS!FifoLock!TryEnter(t)
         /\ L # None => MCS!FifoLock!Arrive(t)
  <1>1. PICK q : arrived' = q /\ IsAppend(q, arrived, t)
    BY Zenon, MCSFacts, AppendProps DEF MCSJoins
  <1>2. Once(arrived) /\ ~In(t, arrived)
    <2>1. at[t] \notin MCS!Waiting \cup {"cs"}
      BY Zenon DEF MCSJoins, MCS!Waiting
    <2> QED BY Zenon, <2>1, MCSFacts DEF MCS!Members, In, Once
  <1>3. Once(q) /\ \A u : In(u, q) <=> u = t \/ In(u, arrived)
    BY Zenon, <1>1, <1>2, MCSFacts, AppendMembers
  <1>4. MCS!TypeOK' /\ \A u \in Threads : u \in freed' <=> at'[u] = "end"
    BY Zenon, <1>1 DEF MCS!QueueInv, MCS!TypeOK, MCS!Waiting, MCSJoins, IsAppend
  <1>5. \A u \in Threads : u # t => at'[u] = at[u] /\ next'[u] = next[u] /\ pred'[u] = pred[u]
    BY Zenon, MCSFacts DEF MCS!TypeOK, MCSJoins
  <1>6. /\ at[t] = "out" /\ at'[t] = (IF L = None THEN "cs" ELSE "arm")
        /\ next'[t] = None /\ L' = t /\ (L # None => pred'[t] = L) /\ waiting' = waiting /\ succ' = succ
    BY Zenon, MCSFacts DEF MCS!TypeOK, MCSJoins
  <1>7. MCS!Members'
    <2>1. at'[t] \in MCS!Waiting \cup {"cs"}
      BY Zenon, <1>6 DEF MCS!Waiting
    <2>2. \A u \in Threads : at[u] \in MCS!Waiting \cup {"cs"} <=> In(u, arrived)
      BY Zenon, MCSFacts DEF MCS!Members, In
    <2>3. \A u \in Threads : at'[u] \in MCS!Waiting \cup {"cs"} <=> In(u, q)
      BY Zenon, <1>3, <1>5, <2>1, <2>2
    <2> QED BY Zenon, <1>1, <1>3, <2>3 DEF MCS!Members, In, Once
  <1>8. MCS!LastOfLine'
    BY Zenon, <1>1, <1>6 DEF MCS!LastOfLine, IsAppend
  <1>9. CASE L = None
    <2>1. arrived = <<>>
      BY <1>9, MCSFacts DEF MCS!LastOfLine, MCS!Distinct
    <2>2. \A u \in Threads : at[u] \notin {"cs"} \cup MCS!Leaving
      BY <1>9, <2>1, MCSFacts DEF MCS!FirstOfLine, MCS!Members, MCS!Distinct
    <2>3. MCS!OneOwner'
      BY Zenon, <1>5, <2>2 DEF MCS!OneOwner
    <2>4. Len(q) = 1 /\ q[1] = t /\ q # <<>>
      BY <1>1, <2>1 DEF IsAppend
    <2>5. MCS!Chained'
      <3>1. 1 .. Len(q) - 1 = {}
        BY <2>4
      <3> QED BY Zenon, <1>1, <3>1 DEF MCS!Chained
    <2>6. MCS!FirstOfLine'
      BY Zenon, <1>1, <1>5, <1>6, <1>9, <2>2, <2>4 DEF MCS!FirstOfLine, MCS!Leaving
    <2>7. MCS!FifoLock!TryEnter(t)
      BY <1>9, <2>1, <2>2, MCSFacts DEF MCS!TypeOK, MCS!FifoLock!TryEnter, MCSJoins
    <2> QED BY Zenon, <1>4, <1>7, <1>8, <1>9, <2>3, <2>5, <2>6, <2>7 DEF MCS!QueueInv
  <1>10. CASE L # None
    <2>1. PICK p \in Threads : p = L /\ p # t /\ next[p] = None
      <3>1. arrived # <<>> => Len(arrived) \in 1 .. Len(arrived)
        BY MCSFacts
      <3> QED BY Zenon, <1>2, <1>6, <1>10, <3>1, MCSFacts DEF MCS!LastOfLine, MCS!TypeOK, In
    <2>2. MCS!Behind(t, p)'
      BY Zenon, <1>5, <1>6, <1>10, <2>1 DEF MCS!Behind, MCS!Waiting
    <2>3. \A u, r \in Threads : u # t /\ r # t /\ MCS!Behind(u, r) => MCS!Behind(u, r)'
      BY Zenon, <1>5, <1>6 DEF MCS!Behind
    <2>4. MCS!OneOwner'
      BY <1>5, <1>6, <1>10, MCSFacts DEF MCS!OneOwner, MCS!Leaving
    <2>5. MCS!Chained'
      <3> SUFFICES ASSUME NEW i \in 1 .. Len(q) - 1
                   PROVE  MCS!Behind(q[i + 1], q[i])'
        BY Zenon, <1>1 DEF MCS!Chained
      <3>1. CASE i = Len(arrived)
        <4>1. q[i] = p /\ q[i + 1] = t
          BY <1>1, <2>1, <3>1, MCSFacts DEF MCS!LastOfLine, IsAppend
        <4> QED BY Zenon, <2>2, <4>1
      <3>2. CASE i # Len(arrived)
        <4>1. i \in 1 .. Len(arrived) - 1 /\ i \in 1 .. Len(arrived) /\ i + 1 \in 1 .. Len(arrived)
          BY <1>1, <3>2, MCSFacts DEF IsAppend
        <4>2. q[i] = arrived[i] /\ q[i + 1] = arrived[i + 1]
          BY Zenon, <1>1, <4>1 DEF IsAppend
        <4>3. MCS!Behind(arrived[i + 1], arrived[i])
          BY Zenon, <4>1, MCSFacts DEF MCS!Chained
        <4>4. /\ arrived[i] \in Threads /\ arrived[i] # t
              /\ arrived[i + 1] \in Threads /\ arrived[i + 1] # t
          BY <1>2, <4>1, MCSFacts DEF In
        <4> QED BY Zenon, <2>3, <4>2, <4>3, <4>4
      <3> QED BY Zenon, <3>1, <3>2
    <2>6. MCS!FirstOfLine'
      <3>1. CASE arrived = <<>>
        <4>1. q[1] = t /\ q # <<>> /\ at[p] = "cas"
          BY <1>1, <1>10, <2>1, <3>1, MCSFacts DEF MCS!LastOfLine, IsAppend
        <4>2. \A u \in Threads : at[u] \in {"cs"} \cup MCS!Leaving => u = p
          BY <2>1, <4>1, MCSFacts DEF MCS!OneOwner, MCS!Leaving
        <4> QED BY SMTT(60), <1>1, <1>5, <1>6, <1>10, <2>1, <2>2, <4>1, <4>2 DEF MCS!FirstOfLine, MCS!Leaving
      <3>2. CASE arrived # <<>>
        <4>1. PICK f \in Threads : f = arrived[1] /\ f = q[1] /\ f # t /\ q # <<>>
          <5>1. 1 \in 1 .. Len(arrived)
            BY <3>2, MCSFacts, NotEmpty
          <5> QED BY <1>1, <1>2, <5>1, MCSFacts DEF IsAppend, In
        <4>2. \A u \in Threads : at'[u] \in MCS!Leaving => u # t /\ at[u] \in MCS!Leaving
          BY Zenon, <1>5, <1>6, <1>10 DEF MCS!Leaving
        <4>3. \A u \in Threads : at[u] \in MCS!Leaving => MCS!Behind(f, u)
          BY Zenon, <3>2, <4>1, MCSFacts DEF MCS!FirstOfLine
        <4>4. \A u \in Threads : at'[u] \in MCS!Leaving => MCS!Behind(f, u)'
          BY Zenon, <2>3, <4>1, <4>2, <4>3
        <4>5. \A u \in Threads : at'[u] = "grant" => at'[f] = "spin" /\ succ'[u] = f
          BY Zenon, <1>5, <1>6, <1>10, <4>1, MCSFacts DEF MCS!FirstOfLine
        <4>6. (\A u \in Threads : at'[u] \notin MCS!Leaving) => \A u \in Threads : at[u] \notin MCS!Leaving
          BY Zenon, <1>5, <1>6 DEF MCS!Leaving
        <4>7. (\A u \in Threads : at'[u] \notin MCS!Leaving) =>
                at'[f] = "cs" \/ (at'[f] = "spin" /\ ~waiting'[f])
          BY Zenon, <1>5, <1>6, <3>2, <4>1, <4>6, MCSFacts DEF MCS!FirstOfLine
        <4> QED BY Zenon, <1>1, <4>1, <4>4, <4>5, <4>7 DEF MCS!FirstOfLine
      <3> QED BY Zenon, <3>1, <3>2
    <2>7. MCS!FifoLock!Arrive(t)
      <3>1. \A i \in 1 .. Len(arrived) : arrived[i] # t
        BY Zenon, <1>2 DEF In
      <3>2. \A u \in Threads : at'[u] = "cs" <=> at[u] = "cs"
        BY Zenon, <1>5, <1>6, <1>10
      <3> QED BY <3>1, <3>2, MCSFacts DEF MCS!FifoLock!Arrive, MCSJoins
    <2> QED BY Zenon, <1>4, <1>7, <1>8, <1>10, <2>4, <2>5, <2>6, <2>7 DEF MCS!QueueInv
  <1> QED BY Zenon, <1>9, <1>10

\* mcs_acquire up to the swap of the tail.
LEMMA MCSSwap ==
  ASSUME MCS!Distinct, MCS!QueueInv, NEW t \in Threads, MCS!Swap(t)
  PROVE  MCS!QueueInv' /\ MCS!FifoLock!Next
  <1>1. /\ pred' \in [Threads -> Threads \cup {None}] /\ pred'[t] = L
        /\ \A u \in Threads : u # t => pred'[u] = pred[u]
    BY Zenon, MCSFacts DEF MCS!Swap, MCS!TypeOK
  <1>2. MCSJoins(t)
    BY Zenon, <1>1 DEF MCS!Swap, MCS!Move, MCSJoins
  <1> QED BY Zenon, <1>2, MCSJoin DEF MCS!FifoLock!Next

\* mcs_trylock takes the lock only if the queue is empty, and otherwise changes
\* nothing but the thread's own node.
LEMMA MCSTryLock ==
  ASSUME MCS!Distinct, MCS!QueueInv, NEW t \in Threads, MCS!TryLock(t)
  PROVE  MCS!QueueInv' /\ (MCS!FifoLock!Next \/ UNCHANGED MCS!FifoLock!vars)
  <1>1. CASE L = None
    <2>1. MCSJoins(t)
      BY Zenon, <1>1, MCSFacts DEF MCS!TryLock, MCS!Move, MCS!TypeOK, MCSJoins
    <2> QED BY Zenon, <1>1, <2>1, MCSJoin DEF MCS!FifoLock!Next
  <1>2. CASE L # None
    <2>1. /\ at[t] = "out" /\ at' = at /\ arrived' = arrived
          /\ UNCHANGED <<L, waiting, freed, pred, succ>>
      BY Zenon, <1>2, MCSFacts DEF MCS!TryLock, MCS!Move, MCS!TypeOK
    <2>2. next'[t] = None /\ \A u \in Threads : u # t => next'[u] = next[u]
      BY Zenon, MCSFacts DEF MCS!TryLock, MCS!TypeOK
    <2>3. MCS!TypeOK'
      BY Zenon, <2>1, MCSFacts DEF MCS!TryLock, MCS!TypeOK
    <2>4. MCS!Members' /\ MCS!OneOwner' /\ \A u \in Threads : u \in freed' <=> at'[u] = "end"
      BY <2>1 DEF MCS!QueueInv, MCS!Members, MCS!OneOwner
    <2>5. \A u, p \in Threads : p # t /\ MCS!Behind(u, p) => MCS!Behind(u, p)'
      BY Zenon, <2>1, <2>2 DEF MCS!Behind
    <2>6. \A i \in 1 .. Len(arrived) : arrived[i] # t /\ arrived[i] \in Threads
      BY <2>1, MCSFacts DEF MCS!Members, MCS!Waiting
    <2>7. MCS!Chained'
      <3> SUFFICES ASSUME NEW i \in 1 .. Len(arrived) - 1
                   PROVE  MCS!Behind(arrived[i + 1], arrived[i])'
        BY Zenon, <2>1 DEF MCS!Chained
      <3>1. i \in 1 .. Len(arrived) /\ i + 1 \in 1 .. Len(arrived)
        BY MCSFacts
      <3>2. MCS!Behind(arrived[i + 1], arrived[i])
        BY Zenon, MCSFacts DEF MCS!Chained
      <3>3. PICK u, p \in Threads : u = arrived[i + 1] /\ p = arrived[i] /\ p # t
        BY Zenon, <2>6, <3>1
      <3>4. MCS!Behind(u, p)'
        BY Zenon, <2>5, <3>2, <3>3
      <3> QED BY Zenon, <2>1, <3>3, <3>4
    <2>8. MCS!FirstOfLine'
      <3>1. ASSUME NEW u \in Threads, at[u] \in MCS!Leaving, arrived # <<>>
            PROVE  MCS!Behind(arrived[1], u)'
        <4>1. PICK f \in Threads : f = arrived[1]
          BY <3>1, MCSFacts, NotEmpty
        <4>2. u # t /\ MCS!Behind(f, u)
          BY Zenon, <2>1, <3>1, <4>1, MCSFacts DEF MCS!FirstOfLine, MCS!Leaving
        <4>3. MCS!Behind(f, u)'
          BY Zenon, <2>5, <4>2
        <4> QED BY Zenon, <2>1, <4>1, <4>3
      <3> QED BY Zenon, <2>1, <3>1, MCSFacts DEF MCS!FirstOfLine
    <2>9. MCS!LastOfLine'
      BY Zenon, <2>1, <2>2, MCSFacts DEF MCS!LastOfLine, MCS!TypeOK
    <2>10. UNCHANGED MCS!FifoLock!vars
      BY Zenon, <2>1 DEF MCS!FifoLock!vars
    <2> QED BY Zenon, <2>3, <2>4, <2>7, <2>8, <2>9, <2>10 DEF MCS!QueueInv
  <1> QED BY Zenon, <1>1, <1>2

\* A step that changes nothing.
LEMMA MCSUnchanged ==
  ASSUME MCS!QueueInv, UNCHANGED MCS!vars
  PROVE  MCS!QueueInv' /\ UNCHANGED MCS!FifoLock!vars
  BY DEF MCS!QueueInv, MCS!vars, MCS!TypeOK, MCS!Members, MCS!OneOwner, MCS!Behind, MCS!Chained,
     MCS!FirstOfLine, MCS!LastOfLine, MCS!FifoLock!vars

\* The MCS lock of mcs.c, with its trylock, implements FifoLock for any number of
\* threads: one at a time and in the order of the swaps, while releases race with
\* successors that have not linked themselves.
THEOREM MCSQueue ==
  ASSUME MCS!Distinct
  PROVE  MCS!Spec => []MCS!QueueInv /\ MCS!Fifo
  <1>1. MCS!Init => MCS!QueueInv /\ MCS!FifoLock!Init
    BY Zenon, MCSInit
  <1>2. MCS!QueueInv /\ [MCS!Next]_(MCS!vars) =>
          MCS!QueueInv' /\ [MCS!FifoLock!Next]_(MCS!FifoLock!vars)
    <2> SUFFICES ASSUME MCS!QueueInv, [MCS!Next]_(MCS!vars)
                 PROVE  MCS!QueueInv' /\ [MCS!FifoLock!Next]_(MCS!FifoLock!vars)
      BY Zenon
    <2>1. CASE UNCHANGED MCS!vars
      BY Zenon, <2>1, MCSUnchanged
    <2>2. ASSUME NEW t \in Threads, MCS!Swap(t) \/ MCS!TryLock(t) \/ MCS!Exit(t)
          PROVE  MCS!QueueInv' /\ [MCS!FifoLock!Next]_(MCS!FifoLock!vars)
      BY Zenon, <2>2, MCSSwap, MCSTryLock, MCSExit
    <2>3. ASSUME NEW t \in Threads, MCS!Step(t)
          PROVE  MCS!QueueInv' /\ [MCS!FifoLock!Next]_(MCS!FifoLock!vars)
      BY Zenon, <2>3, MCSArm, MCSLink, MCSSpin, MCSRelease, MCSEmpty, MCSAwaitLink, MCSGrant
         DEF MCS!Step, MCS!FifoLock!Next
    <2>4. CASE MCS!Terminated
      BY <2>4, MCSUnchanged DEF MCS!Terminated
    <2> QED BY <2>1, <2>2, <2>3, <2>4 DEF MCS!Next
  <1> QED BY <1>1, <1>2, PTL DEF MCS!Spec, MCS!Fifo, MCS!FifoLock!Spec

\* A thread of the MCS lock that writes to its predecessor's node or to its
\* successor's finds it not freed by end_mcs_local, for any number of threads.
THEOREM MCSNodes ==
  ASSUME MCS!Distinct
  PROVE  MCS!Spec => []MCS!NoFreedAccess
  <1>1. MCS!QueueInv => MCS!NoFreedAccess
    <2> SUFFICES ASSUME MCS!QueueInv, NEW t \in Threads
                 PROVE  /\ at[t] = "link" => pred[t] \notin freed
                        /\ at[t] = "grant" => succ[t] \notin freed
      BY Zenon DEF MCS!NoFreedAccess
    <2>1. \A u \in Threads : u \in freed => at[u] = "end"
      BY Zenon DEF MCS!QueueInv
    <2>2. \A i \in 1 .. Len(arrived) : arrived[i] \in Threads /\ at[arrived[i]] # "end"
      BY MCSFacts DEF MCS!Members, MCS!Waiting
    <2>3. ASSUME at[t] = "link" PROVE pred[t] \notin freed
      <3>1. /\ pred[t] \in Threads
            /\ \/ at[pred[t]] \in MCS!Leaving
               \/ \E i \in 1 .. Len(arrived) - 1 : arrived[i] = pred[t]
        BY Zenon, <2>3, MCSBehind
      <3>2. at[pred[t]] # "end"
        BY <2>2, <3>1, MCSFacts DEF MCS!Leaving
      <3> QED BY Zenon, <2>1, <3>1, <3>2
    <2>4. ASSUME at[t] = "grant" PROVE succ[t] \notin freed
      <3>1. arrived # <<>> /\ at[arrived[1]] = "spin" /\ succ[t] = arrived[1]
        BY Zenon, <2>4, MCSFacts DEF MCS!FirstOfLine
      <3>2. arrived[1] \in Threads
        BY <3>1, MCSFacts, NotEmpty
      <3> QED BY <2>1, <3>1, <3>2
    <2> QED BY <2>3, <2>4
  <1> QED BY <1>1, MCSQueue, PTL

-----------------------------------------------------------------------------
CONSTANT MAX_THREADS

VARIABLES tail, status, th, queue          \* of MCSTP, besides next

MCSTP == INSTANCE MCSTP

\* The values of a status; the places where a thread has the lock, and where it has
\* it when its node says so.
Statuses == {"INIT", "WAITING", "AVAILABLE", "TIMED_OUT", "FAILED"}
Owning == {"cs", "scan", "empty", "await", "visit", "offer"}
Queuing == {"clear", "swap", "link", "wait"}

\* Thread t goes from one place to another with the record r.
LEMMA OwnerMove ==
  ASSUME MCSTP!OwnerInv, NEW t \in Threads, NEW from, NEW r,
         MCSTP!Become(t, from, r), r \in MCSTP!Records, MCSTP!NotNull(r),
         tail' \in MCSTP!Pointer, next' \in [Threads -> MCSTP!Pointer], status' \in [Threads -> Statuses]
  PROVE  /\ MCSTP!TypeOK' /\ th'[t] = r /\ th[t].at = from
         /\ \A u \in Threads : u # t => th'[u] = th[u]
  <1>1. /\ th \in [Threads -> MCSTP!Records] /\ \A u \in Threads : MCSTP!NotNull(th[u])
    BY Zenon DEF MCSTP!OwnerInv, MCSTP!TypeOK
  <1>2. th[t].at = from /\ th' = [th EXCEPT ![t] = r]
    BY Zenon DEF MCSTP!Become
  <1>3. th' \in [Threads -> MCSTP!Records] /\ th'[t] = r /\ \A u \in Threads : u # t => th'[u] = th[u]
    BY Zenon, <1>1, <1>2
  <1>4. \A u \in Threads : MCSTP!NotNull(th'[u])
    BY Zenon, <1>1, <1>3
  <1>5. \A u \in Threads : MCSTP!NotNull(th[u])'
    BY Zenon, <1>4 DEF MCSTP!NotNull
  <1> QED BY Zenon, <1>2, <1>3, <1>5 DEF MCSTP!TypeOK, Statuses

\* A step of t by which no thread is given the lock keeps the invariant, if t holds the
\* lock after it only if it did before or the queue was empty.
LEMMA OwnerStep ==
  ASSUME MCSTP!OwnerInv, NEW t \in Threads, NEW from, NEW r,
         MCSTP!Become(t, from, r), r \in MCSTP!Records, MCSTP!NotNull(r),
         tail' \in MCSTP!Pointer, next' \in [Threads -> MCSTP!Pointer], status' \in [Threads -> Statuses],
         \A u \in Threads : u # t /\ status'[u] = "AVAILABLE" => status[u] = "AVAILABLE",
         \/ ~(r.at \in Owning) /\ ~(r.at \in Queuing /\ status'[t] = "AVAILABLE")
         \/ tail = None /\ tail' = t
         \/ from \in Owning /\ tail' = tail
         \/ from \in Queuing /\ status[t] = "AVAILABLE" /\ tail' \in {t, tail},
         tail' = None => \/ tail = None
                         \/ from \in Owning /\ r.at \notin Owning \cup Queuing,
         t # None
  PROVE  MCSTP!OwnerInv'
  <1>1. /\ \A u, v \in Threads : MCSTP!Holds(u) /\ MCSTP!Holds(v) => u = v
        /\ tail = None => \A u \in Threads : ~MCSTP!Holds(u)
    BY Zenon DEF MCSTP!OwnerInv
  <1>2. /\ MCSTP!TypeOK' /\ th'[t] = r /\ th[t].at = from
        /\ \A u \in Threads : u # t => th'[u] = th[u]
    BY Zenon, OwnerMove
  <1>3. \A u \in Threads : u # t /\ MCSTP!Holds(u)' => MCSTP!Holds(u)
    BY Zenon, <1>2 DEF MCSTP!Holds
  <1>4. MCSTP!Holds(t)' <=> r.at \in Owning \/ (r.at \in Queuing /\ status'[t] = "AVAILABLE")
    BY Zenon, <1>2 DEF MCSTP!Holds, Owning, Queuing
  <1>5. MCSTP!Holds(t) <=> from \in Owning \/ (from \in Queuing /\ status[t] = "AVAILABLE")
    BY Zenon, <1>2 DEF MCSTP!Holds, Owning, Queuing
  <1>6. \A u, v \in Threads : MCSTP!Holds(u)' /\ MCSTP!Holds(v)' => u = v
    <2>1. MCSTP!Holds(t)' => MCSTP!Holds(t) \/ tail = None
      BY Zenon, <1>4, <1>5
    <2> QED BY Zenon, <1>1, <1>3, <2>1
  <1>7. ASSUME tail' = None PROVE \A u \in Threads : ~MCSTP!Holds(u)'
    <2>1. CASE tail = None
      BY Zenon, <1>1, <1>3, <1>4, <1>5, <1>7, <2>1
    <2>2. CASE from \in Owning /\ r.at \notin Owning \cup Queuing
      BY Zenon, <1>1, <1>3, <1>4, <1>5, <2>2
    <2> QED BY Zenon, <1>7, <2>1, <2>2
  <1> QED BY Zenon, <1>2, <1>6, <1>7 DEF MCSTP!OwnerInv

\* What the invariant says of the types.
LEMMA OwnerTypes ==
  ASSUME MCSTP!OwnerInv, NEW t \in Threads
  PROVE  /\ tail \in MCSTP!Pointer /\ next \in [Threads -> MCSTP!Pointer] /\ status \in [Threads -> Statuses]
         /\ th[t] \in MCSTP!Records /\ MCSTP!NotNull(th[t])
         /\ th[t].curr \in MCSTP!Pointer /\ th[t].succ \in MCSTP!Pointer /\ th[t].last \in MCSTP!Pointer
  <1>1. /\ tail \in MCSTP!Pointer /\ next \in [Threads -> MCSTP!Pointer] /\ status \in [Threads -> Statuses]
        /\ th[t] \in MCSTP!Records /\ MCSTP!NotNull(th[t])
    BY Zenon DEF MCSTP!OwnerInv, MCSTP!TypeOK, Statuses
  <1>2. th[t].curr \in MCSTP!Pointer /\ th[t].succ \in MCSTP!Pointer /\ th[t].last \in MCSTP!Pointer
    BY <1>1 DEF MCSTP!Records
  <1> QED BY Zenon, <1>1, <1>2

\* The record of a thread that goes elsewhere with its locals, and that of one that
\* has none.
LEMMA Elsewhere ==
  ASSUME NEW r \in MCSTP!Records, NEW p \in MCSTP!Places
  PROVE  /\ [r EXCEPT !.at = p] \in MCSTP!Records /\ [r EXCEPT !.at = p].at = p
         /\ [r EXCEPT !.at = p].curr = r.curr
         /\ [r EXCEPT !.at = p].succ = r.succ /\ [r EXCEPT !.at = p].last = r.last
  BY DEF MCSTP!Records

\* A thread that is not unlocking has no locals.
LEMMA Fresh ==
  ASSUME NEW p \in MCSTP!Places, p \in {"out", "cs", "wait"}
  PROVE  MCSTP!At(p) \in MCSTP!Records /\ MCSTP!At(p).at = p /\ MCSTP!NotNull(MCSTP!At(p))
  BY DEF MCSTP!At, MCSTP!Records, MCSTP!Pointer, MCSTP!NotNull

\* What marking the node of a thread does to the status of the others.
LEMMA Marked ==
  ASSUME status \in [Threads -> Statuses], NEW n, NEW m \in Statuses, m # "AVAILABLE",
         status' = [status EXCEPT ![n] = m]
  PROVE  /\ status' \in [Threads -> Statuses]
         /\ \A u \in Threads : status'[u] = "AVAILABLE" => status[u] = "AVAILABLE"
         /\ n \in Threads => status'[n] = m
  BY Zenon

\* A step of t to another place, with its locals, that leaves the tail alone.
LEMMA OwnerGoto ==
  ASSUME MCSTP!Distinct, MCSTP!OwnerInv, NEW t \in Threads, NEW from, NEW to \in MCSTP!Places, MCSTP!Goto(t, from, to),
         tail' = tail, next' \in [Threads -> MCSTP!Pointer], status' \in [Threads -> Statuses],
         \A u \in Threads : status'[u] = "AVAILABLE" => status[u] = "AVAILABLE",
         \/ to \notin Owning \cup Queuing
         \/ to \in Queuing /\ (from \in Queuing \/ status'[t] # "AVAILABLE")
         \/ from \in Owning
         \/ from \in Queuing /\ status[t] = "AVAILABLE",
         MCSTP!NotNull([th[t] EXCEPT !.at = to])
  PROVE  MCSTP!OwnerInv'
  <1>1. /\ t # None /\ th[t] \in MCSTP!Records /\ tail \in MCSTP!Pointer /\ tail' \in MCSTP!Pointer
        /\ MCSTP!Become(t, from, [th[t] EXCEPT !.at = to])
    BY Zenon, OwnerTypes DEF MCSTP!Distinct, MCSTP!Goto
  <1>2. [th[t] EXCEPT !.at = to] \in MCSTP!Records /\ [th[t] EXCEPT !.at = to].at = to
    BY Zenon, <1>1, Elsewhere
  <1>3. Owning \cap Queuing = {}
    BY DEF Owning, Queuing
  <1>4. \/ ~(to \in Owning) /\ ~(to \in Queuing /\ status'[t] = "AVAILABLE")
        \/ from \in Owning /\ tail' = tail
        \/ from \in Queuing /\ status[t] = "AVAILABLE" /\ tail' \in {t, tail}
    BY Zenon, <1>3
  <1> QED BY Zenon, <1>1, <1>2, <1>4, OwnerStep

\* A place where a thread dereferences no pointer but its own.
LEMMA Safe ==
  ASSUME NEW r \in MCSTP!Records, NEW p \in {"out", "wait", "enqueue", "clear", "swap", "cs"}
  PROVE  p \in MCSTP!Places /\ MCSTP!NotNull([r EXCEPT !.at = p])
  <1>1. p \in MCSTP!Places
    BY Zenon DEF MCSTP!Places
  <1> QED BY <1>1, Elsewhere DEF MCSTP!NotNull

\* trylock_mcstp up to the swap.
LEMMA OwnerTry ==
  ASSUME MCSTP!Distinct, MCSTP!OwnerInv, NEW t \in Threads, MCSTP!Reclaim(t) \/ MCSTP!SetWaiting(t) \/ MCSTP!ClearNext(t)
  PROVE  MCSTP!OwnerInv'
  <1>0. th[t] \in MCSTP!Records /\ next \in [Threads -> MCSTP!Pointer] /\ status \in [Threads -> Statuses]
    BY Zenon, OwnerTypes
  <1>1. CASE MCSTP!Reclaim(t)
    <2>1. tail' = tail /\ next' = next
      BY Zenon, <1>1 DEF MCSTP!Reclaim
    <2>2. CASE status[t] = "TIMED_OUT"
      <3>1. MCSTP!Goto(t, "out", "wait") /\ status' = [status EXCEPT ![t] = "WAITING"]
        BY Zenon, <1>1, <2>2 DEF MCSTP!Reclaim
      <3>2. /\ status' \in [Threads -> Statuses] /\ status'[t] = "WAITING"
            /\ \A u \in Threads : status'[u] = "AVAILABLE" => status[u] = "AVAILABLE"
        BY Zenon, <1>0, <3>1, Marked DEF Statuses
      <3> QED BY Zenon, <1>0, <2>1, <3>1, <3>2, Safe, OwnerGoto DEF Queuing
    <2>3. CASE status[t] # "TIMED_OUT"
      <3>1. MCSTP!Goto(t, "out", "enqueue") /\ status' = status
        BY Zenon, <1>1, <2>3 DEF MCSTP!Reclaim
      <3> QED BY Zenon, <1>0, <2>1, <3>1, Safe, OwnerGoto DEF Owning, Queuing
    <2> QED BY Zenon, <2>2, <2>3
  <1>2. CASE MCSTP!SetWaiting(t)
    <2>1. /\ MCSTP!Goto(t, "enqueue", "clear") /\ tail' = tail /\ next' = next
          /\ status' = [status EXCEPT ![t] = "WAITING"]
      BY Zenon, <1>2 DEF MCSTP!SetWaiting
    <2>2. /\ status' \in [Threads -> Statuses] /\ status'[t] = "WAITING"
          /\ \A u \in Threads : status'[u] = "AVAILABLE" => status[u] = "AVAILABLE"
      BY Zenon, <1>0, <2>1, Marked DEF Statuses
    <2> QED BY Zenon, <1>0, <2>1, <2>2, Safe, OwnerGoto DEF Queuing
  <1>3. CASE MCSTP!ClearNext(t)
    <2>1. /\ MCSTP!Goto(t, "clear", "swap") /\ tail' = tail /\ status' = status
          /\ next' = [next EXCEPT ![t] = None]
      BY Zenon, <1>3 DEF MCSTP!ClearNext
    <2>2. next' \in [Threads -> MCSTP!Pointer]
      BY Zenon, <1>0, <2>1 DEF MCSTP!Pointer
    <2> QED BY Zenon, <1>0, <2>1, <2>2, Safe, OwnerGoto DEF Queuing
  <1> QED BY Zenon, <1>1, <1>2, <1>3

\* The swap: the thread has the lock if the queue was empty.
LEMMA OwnerSwap ==
  ASSUME MCSTP!Distinct, MCSTP!OwnerInv, NEW t \in Threads, MCSTP!Swap(t) \/ MCSTP!Link(t)
  PROVE  MCSTP!OwnerInv'
  <1>0. /\ th[t] \in MCSTP!Records /\ next \in [Threads -> MCSTP!Pointer] /\ status \in [Threads -> Statuses]
        /\ tail \in MCSTP!Pointer /\ t \in MCSTP!Pointer /\ t # None
    BY Zenon, OwnerTypes DEF MCSTP!Pointer, MCSTP!Distinct
  <1>1. CASE MCSTP!Swap(t) /\ tail = None
    <2>1. MCSTP!Become(t, "swap", MCSTP!At("cs")) /\ tail' = t /\ next' = next /\ status' = status
      BY Zenon, <1>1 DEF MCSTP!Swap
    <2>2. MCSTP!At("cs") \in MCSTP!Records /\ MCSTP!At("cs").at = "cs" /\ MCSTP!NotNull(MCSTP!At("cs"))
      BY Zenon, Fresh DEF MCSTP!Places
    <2> QED BY Zenon, <1>0, <1>1, <2>1, <2>2, OwnerStep
  <1>2. CASE MCSTP!Swap(t) /\ tail # None
    <2> DEFINE r == [MCSTP!At("link") EXCEPT !.pred = tail]
    <2>1. MCSTP!Become(t, "swap", r) /\ tail' = t /\ next' = next /\ status' = status
      BY Zenon, <1>2 DEF MCSTP!Swap
    <2>2. r \in MCSTP!Records /\ r.at = "link" /\ MCSTP!NotNull(r)
      BY <1>0, <1>2 DEF MCSTP!At, MCSTP!Records, MCSTP!NotNull, MCSTP!Places, MCSTP!Pointer
    <2>3. \/ ~(r.at \in Owning) /\ ~(r.at \in Queuing /\ status'[t] = "AVAILABLE")
          \/ "swap" \in Queuing /\ status[t] = "AVAILABLE" /\ tail' \in {t, tail}
      BY Zenon, <2>1, <2>2 DEF Owning, Queuing
    <2> HIDE DEF r
    <2> QED BY Zenon, <1>0, <2>1, <2>2, <2>3, OwnerStep
  <1>3. CASE MCSTP!Link(t)
    <2>1. /\ MCSTP!Become(t, "link", MCSTP!At("wait")) /\ tail' = tail /\ status' = status
          /\ next' = [next EXCEPT ![th[t].pred] = t]
      BY Zenon, <1>3 DEF MCSTP!Link
    <2>2. MCSTP!At("wait") \in MCSTP!Records /\ MCSTP!At("wait").at = "wait" /\ MCSTP!NotNull(MCSTP!At("wait"))
      BY Zenon, Fresh DEF MCSTP!Places
    <2>3. next' \in [Threads -> MCSTP!Pointer]
      BY Zenon, <1>0, <2>1
    <2>4. \/ ~("wait" \in Owning) /\ ~("wait" \in Queuing /\ status'[t] = "AVAILABLE")
          \/ "link" \in Queuing /\ status[t] = "AVAILABLE" /\ tail' \in {t, tail}
      BY Zenon, <2>1 DEF Owning, Queuing
    <2> QED BY Zenon, <1>0, <2>1, <2>2, <2>3, <2>4, OwnerStep
  <1> QED BY Zenon, <1>1, <1>2, <1>3

\* The end of the wait, and of the patience.
LEMMA OwnerWait ==
  ASSUME MCSTP!Distinct, MCSTP!OwnerInv, NEW t \in Threads, MCSTP!Wait(t) \/ MCSTP!TimeOut(t)
  PROVE  MCSTP!OwnerInv'
  <1>0. th[t] \in MCSTP!Records /\ next \in [Threads -> MCSTP!Pointer] /\ status \in [Threads -> Statuses]
    BY Zenon, OwnerTypes
  <1>1. CASE MCSTP!Wait(t) /\ status[t] = "AVAILABLE"
    <2>1. MCSTP!Goto(t, "wait", "cs") /\ tail' = tail /\ next' = next /\ status' = status
      BY Zenon, <1>1 DEF MCSTP!Wait
    <2> QED BY Zenon, <1>0, <1>1, <2>1, Safe, OwnerGoto DEF Queuing
  <1>2. CASE MCSTP!Wait(t) /\ status[t] # "AVAILABLE"
    <2>1. MCSTP!Goto(t, "wait", "out") /\ tail' = tail /\ next' = next /\ status' = status
      BY Zenon, <1>2 DEF MCSTP!Wait
    <2> QED BY Zenon, <1>0, <2>1, Safe, OwnerGoto DEF Owning, Queuing
  <1>3. CASE MCSTP!TimeOut(t)
    <2>1. /\ MCSTP!Goto(t, "wait", "out") /\ tail' = tail /\ next' = next
          /\ status' = [status EXCEPT ![t] = "TIMED_OUT"]
      BY Zenon, <1>3 DEF MCSTP!TimeOut
    <2>2. /\ status' \in [Threads -> Statuses]
          /\ \A u \in Threads : status'[u] = "AVAILABLE" => status[u] = "AVAILABLE"
      BY Zenon, <1>0, <2>1, Marked DEF Statuses
    <2> QED BY Zenon, <1>0, <2>1, <2>2, Safe, OwnerGoto DEF Owning, Queuing
  <1> QED BY Zenon, <1>1, <1>2, <1>3

\* A step of unlock_mcstp after which the thread still owns the lock, with the record r.
LEMMA OwnerWalk ==
  ASSUME MCSTP!Distinct, MCSTP!OwnerInv, NEW t \in Threads, NEW from \in Owning, NEW r,
         MCSTP!Become(t, from, r), r \in MCSTP!Records, MCSTP!NotNull(r), tail' = tail, next' = next,
         status' \in [Threads -> Statuses],
         \A u \in Threads : status'[u] = "AVAILABLE" => status[u] = "AVAILABLE"
  PROVE  MCSTP!OwnerInv'
  <1>1. t # None /\ tail \in MCSTP!Pointer /\ next \in [Threads -> MCSTP!Pointer]
    BY Zenon, OwnerTypes DEF MCSTP!Distinct
  <1> QED BY Zenon, <1>1, OwnerStep

\* unlock_mcstp looks for a successor.
LEMMA OwnerScan ==
  ASSUME MCSTP!Distinct, MCSTP!OwnerInv, NEW t \in Threads,
         MCSTP!Unlock(t) \/ MCSTP!ReadNext(t) \/ MCSTP!AwaitNext(t) \/ MCSTP!Visit(t) \/ MCSTP!Skip(t)
  PROVE  MCSTP!OwnerInv'
  <1>0. /\ th[t] \in MCSTP!Records /\ MCSTP!NotNull(th[t]) /\ next \in [Threads -> MCSTP!Pointer]
        /\ status \in [Threads -> Statuses] /\ t \in MCSTP!Pointer /\ t # None /\ None \in MCSTP!Pointer
        /\ th[t].curr \in MCSTP!Pointer /\ th[t].succ \in MCSTP!Pointer /\ th[t].last \in MCSTP!Pointer
    BY Zenon, OwnerTypes DEF MCSTP!Pointer, MCSTP!Distinct
  <1>1. CASE MCSTP!Unlock(t)
    <2> DEFINE r == [MCSTP!At("scan") EXCEPT !.curr = t]
    <2>1. MCSTP!Become(t, "cs", r) /\ tail' = tail /\ next' = next /\ status' = status
      BY Zenon, <1>1 DEF MCSTP!Unlock
    <2>2. r \in MCSTP!Records /\ MCSTP!NotNull(r)
      BY <1>0 DEF MCSTP!At, MCSTP!Records, MCSTP!NotNull, MCSTP!Places
    <2> HIDE DEF r
    <2> QED BY Zenon, <1>0, <2>1, <2>2, OwnerWalk DEF Owning
  <1>2. CASE MCSTP!ReadNext(t)
    <2> DEFINE s == next[th[t].curr]
               r == [th[t] EXCEPT !.at = IF s = None THEN "empty" ELSE "visit", !.succ = s]
    <2>1. /\ MCSTP!Become(t, "scan", r) /\ tail' = tail /\ next' = next /\ status' = status
          /\ th[t].at = "scan"
      BY Zenon, <1>2 DEF MCSTP!ReadNext
    <2>2. th[t].curr # None
      BY Zenon, <1>0, <2>1 DEF MCSTP!NotNull
    <2>3. s \in MCSTP!Pointer
      BY Zenon, <1>0, <2>2 DEF MCSTP!Pointer
    <2> HIDE DEF s
    <2>4. r \in MCSTP!Records /\ r.at \in {"empty", "visit"} /\ r.curr = th[t].curr /\ r.succ = s
          /\ (r.at = "visit" => s # None)
      BY Zenon, <1>0, <2>3 DEF MCSTP!Records, MCSTP!Places
    <2>5. MCSTP!NotNull(r)
      BY <2>2, <2>4 DEF MCSTP!NotNull
    <2> HIDE DEF r
    <2> QED BY Zenon, <1>0, <2>1, <2>4, <2>5, OwnerWalk DEF Owning
  <1>3. CASE MCSTP!AwaitNext(t)
    <2> DEFINE s == next[th[t].curr]
               r == [th[t] EXCEPT !.at = "visit", !.succ = s]
    <2>1. /\ MCSTP!Become(t, "await", r) /\ tail' = tail /\ next' = next /\ status' = status
          /\ th[t].at = "await" /\ s # None
      BY Zenon, <1>3 DEF MCSTP!AwaitNext
    <2>2. th[t].curr # None
      BY Zenon, <1>0, <2>1 DEF MCSTP!NotNull
    <2>3. s \in MCSTP!Pointer
      BY Zenon, <1>0, <2>2 DEF MCSTP!Pointer
    <2> HIDE DEF s
    <2>4. r \in MCSTP!Records /\ r.at = "visit" /\ r.curr = th[t].curr /\ r.succ = s
      BY Zenon, <1>0, <2>3 DEF MCSTP!Records, MCSTP!Places
    <2>5. MCSTP!NotNull(r)
      BY <2>1, <2>2, <2>4 DEF MCSTP!NotNull
    <2> HIDE DEF r
    <2> QED BY Zenon, <1>0, <2>1, <2>4, <2>5, OwnerWalk DEF Owning
  <1>4. CASE MCSTP!Visit(t)
    <2> DEFINE early == th[t].scanned + 1 < MAX_THREADS
               r == [th[t] EXCEPT !.at = "offer",
                                  !.scanned = IF early THEN @ + 1 ELSE @,
                                  !.last = IF early \/ @ # None THEN @ ELSE th[t].curr]
    <2>1. /\ MCSTP!Become(t, "visit", r) /\ tail' = tail /\ next' = next
          /\ status' = IF early THEN [status EXCEPT ![th[t].curr] = "FAILED"] ELSE status
      BY Zenon, <1>4 DEF MCSTP!Visit
    <2>2. th[t].at = "visit"
      BY Zenon, <2>1 DEF MCSTP!Become
    <2>3. th[t].curr # None /\ th[t].succ # None
      BY Zenon, <1>0, <2>2 DEF MCSTP!NotNull
    <2>4. /\ status' \in [Threads -> Statuses]
          /\ \A u \in Threads : status'[u] = "AVAILABLE" => status[u] = "AVAILABLE"
      <3>1. CASE early
        BY Zenon, <1>0, <2>1, <3>1, Marked DEF Statuses
      <3>2. CASE ~early
        BY Zenon, <1>0, <2>1, <3>2
      <3> QED BY Zenon, <3>1, <3>2
    <2>5. th[t].scanned \in Nat
      BY Zenon, <1>0 DEF MCSTP!Records
    <2>6. th[t].scanned + 1 \in Nat
      BY <2>5
    <2> HIDE DEF early
    <2>7. r \in MCSTP!Records /\ r.at = "offer" /\ r.curr = th[t].curr /\ r.succ = th[t].succ
      BY Zenon, <1>0, <2>5, <2>6 DEF MCSTP!Records, MCSTP!Places
    <2>8. MCSTP!NotNull(r)
      BY <2>3, <2>7 DEF MCSTP!NotNull
    <2> HIDE DEF r
    <2> QED BY Zenon, <1>0, <2>1, <2>4, <2>7, <2>8, OwnerWalk DEF Owning
  <1>5. CASE MCSTP!Skip(t)
    <2> DEFINE r == [th[t] EXCEPT !.at = "scan", !.curr = th[t].succ, !.succ = None]
    <2>1. MCSTP!Become(t, "offer", r) /\ tail' = tail /\ next' = next /\ status' = status
      BY Zenon, <1>5 DEF MCSTP!Skip
    <2>2. th[t].at = "offer"
      BY Zenon, <2>1 DEF MCSTP!Become
    <2>3. th[t].succ # None
      BY Zenon, <1>0, <2>2 DEF MCSTP!NotNull
    <2>4. r \in MCSTP!Records /\ r.at = "scan" /\ r.curr = th[t].succ
      BY Zenon, <1>0 DEF MCSTP!Records, MCSTP!Places
    <2>5. MCSTP!NotNull(r)
      BY <2>3, <2>4 DEF MCSTP!NotNull
    <2> HIDE DEF r
    <2> QED BY Zenon, <1>0, <2>1, <2>4, <2>5, OwnerWalk DEF Owning
  <1> QED BY Zenon, <1>1, <1>2, <1>3, <1>4, <1>5

\* The queue ends with the node the unlock has come to, or a node comes behind it.
LEMMA OwnerEmpty ==
  ASSUME MCSTP!Distinct, MCSTP!OwnerInv, NEW t \in Threads, MCSTP!Empty(t) \/ MCSTP!FailLast(t)
  PROVE  MCSTP!OwnerInv'
  <1>0. /\ th[t] \in MCSTP!Records /\ MCSTP!NotNull(th[t]) /\ next \in [Threads -> MCSTP!Pointer]
        /\ status \in [Threads -> Statuses] /\ t # None /\ None \in MCSTP!Pointer /\ tail \in MCSTP!Pointer
    BY Zenon, OwnerTypes DEF MCSTP!Pointer, MCSTP!Distinct
  <1>1. CASE MCSTP!Empty(t)
    <2>1. th[t].at = "empty" /\ next' = next /\ status' = status
      BY Zenon, <1>1 DEF MCSTP!Empty, MCSTP!Goto, MCSTP!Become
    <2>2. th[t].curr # None
      BY Zenon, <1>0, <2>1 DEF MCSTP!NotNull
    <2>3. CASE tail = th[t].curr
      <3> DEFINE r == [th[t] EXCEPT !.at = "fail"]
      <3>1. MCSTP!Become(t, "empty", r) /\ tail' = None
        BY Zenon, <1>1, <2>3 DEF MCSTP!Empty, MCSTP!Goto
      <3>2. r \in MCSTP!Records /\ r.at = "fail" /\ r.curr = th[t].curr
        BY Zenon, <1>0, Elsewhere DEF MCSTP!Places
      <3>3. MCSTP!NotNull(r)
        BY <2>2, <3>2 DEF MCSTP!NotNull
      <3> HIDE DEF r
      <3> QED BY Zenon, <1>0, <2>1, <3>1, <3>2, <3>3, OwnerStep DEF Owning, Queuing
    <2>4. CASE tail # th[t].curr
      <3>1. MCSTP!Goto(t, "empty", "await") /\ tail' = tail
        BY Zenon, <1>1, <2>4 DEF MCSTP!Empty
      <3>2. /\ "await" \in MCSTP!Places
            /\ [th[t] EXCEPT !.at = "await"].at = "await"
            /\ [th[t] EXCEPT !.at = "await"].curr = th[t].curr
        BY Zenon, <1>0, Elsewhere DEF MCSTP!Places
      <3>3. MCSTP!NotNull([th[t] EXCEPT !.at = "await"])
        BY <2>2, <3>2 DEF MCSTP!NotNull
      <3> QED BY Zenon, <1>0, <2>1, <3>1, <3>2, <3>3, OwnerGoto DEF Owning
    <2> QED BY Zenon, <2>3, <2>4
  <1>2. CASE MCSTP!FailLast(t)
    <2>1. /\ MCSTP!Become(t, "fail", MCSTP!At("out")) /\ tail' = tail /\ next' = next
          /\ status' = [status EXCEPT ![th[t].curr] = "FAILED"]
      BY Zenon, <1>2 DEF MCSTP!FailLast
    <2>2. MCSTP!At("out") \in MCSTP!Records /\ MCSTP!At("out").at = "out" /\ MCSTP!NotNull(MCSTP!At("out"))
      BY Zenon, Fresh DEF MCSTP!Places
    <2>3. /\ status' \in [Threads -> Statuses]
          /\ \A u \in Threads : status'[u] = "AVAILABLE" => status[u] = "AVAILABLE"
      BY Zenon, <1>0, <2>1, Marked DEF Statuses
    <2>4. ~("out" \in Owning) /\ ~("out" \in Queuing)
      BY Zenon DEF Owning, Queuing
    <2> QED BY Zenon, <1>0, <2>1, <2>2, <2>3, <2>4, OwnerStep
  <1> QED BY Zenon, <1>1, <1>2

\* The nodes that were kept are marked after the lock is handed over.
LEMMA OwnerMark ==
  ASSUME MCSTP!Distinct, MCSTP!OwnerInv, NEW t \in Threads, MCSTP!MarkKept(t) \/ MCSTP!AdvanceKept(t)
  PROVE  MCSTP!OwnerInv'
  <1>0. /\ th[t] \in MCSTP!Records /\ MCSTP!NotNull(th[t]) /\ next \in [Threads -> MCSTP!Pointer]
        /\ status \in [Threads -> Statuses] /\ t # None /\ None \in MCSTP!Pointer /\ tail \in MCSTP!Pointer
        /\ th[t].last \in MCSTP!Pointer
    BY Zenon, OwnerTypes DEF MCSTP!Pointer, MCSTP!Distinct
  <1>1. CASE MCSTP!MarkKept(t)
    <2>1. /\ MCSTP!Goto(t, "mark", "advance") /\ tail' = tail /\ next' = next
          /\ status' = [status EXCEPT ![th[t].last] = "FAILED"] /\ th[t].at = "mark"
      BY Zenon, <1>1 DEF MCSTP!MarkKept, MCSTP!Goto, MCSTP!Become
    <2>2. th[t].last # None
      BY Zenon, <1>0, <2>1 DEF MCSTP!NotNull
    <2>3. /\ status' \in [Threads -> Statuses]
          /\ \A u \in Threads : status'[u] = "AVAILABLE" => status[u] = "AVAILABLE"
      BY Zenon, <1>0, <2>1, Marked DEF Statuses
    <2>4. /\ "advance" \in MCSTP!Places
          /\ [th[t] EXCEPT !.at = "advance"].at = "advance"
          /\ [th[t] EXCEPT !.at = "advance"].last = th[t].last
      BY Zenon, <1>0, Elsewhere DEF MCSTP!Places
    <2>5. MCSTP!NotNull([th[t] EXCEPT !.at = "advance"])
      BY <2>2, <2>4 DEF MCSTP!NotNull
    <2> QED BY Zenon, <1>0, <2>1, <2>3, <2>4, <2>5, OwnerGoto DEF Owning, Queuing
  <1>2. CASE MCSTP!AdvanceKept(t)
    <2> DEFINE l == next[th[t].last]
               r == IF l \in {None, th[t].curr} THEN MCSTP!At("out")
                    ELSE [th[t] EXCEPT !.at = "mark", !.last = l]
    <2>1. /\ MCSTP!Become(t, "advance", r) /\ tail' = tail /\ next' = next /\ status' = status
          /\ th[t].at = "advance"
      BY Zenon, <1>2 DEF MCSTP!AdvanceKept
    <2>2. th[t].last # None
      BY Zenon, <1>0, <2>1 DEF MCSTP!NotNull
    <2>3. l \in MCSTP!Pointer
      BY Zenon, <1>0, <2>2 DEF MCSTP!Pointer
    <2> HIDE DEF l
    <2>4. r \in MCSTP!Records /\ r.at \in {"out", "mark"} /\ MCSTP!NotNull(r)
      <3>1. CASE l \in {None, th[t].curr}
        BY Zenon, <3>1, Fresh DEF MCSTP!Places
      <3>2. CASE l \notin {None, th[t].curr}
        BY Zenon, <1>0, <2>3, <3>2 DEF MCSTP!Records, MCSTP!Places, MCSTP!NotNull
      <3> QED BY Zenon, <3>1, <3>2
    <2> HIDE DEF r
    <2>5. ~(r.at \in Owning) /\ ~(r.at \in Queuing)
      BY Zenon, <2>4 DEF Owning, Queuing
    <2> QED BY Zenon, <1>0, <2>1, <2>4, <2>5, OwnerStep
  <1> QED BY Zenon, <1>1, <1>2

\* The lock is handed over: its owner owns it no longer, and one thread does.
LEMMA OwnerGrant ==
  ASSUME MCSTP!Distinct, MCSTP!OwnerInv, NEW t \in Threads, MCSTP!Grant(t)
  PROVE  MCSTP!OwnerInv'
  <1>0. /\ th[t] \in MCSTP!Records /\ MCSTP!NotNull(th[t]) /\ next \in [Threads -> MCSTP!Pointer]
        /\ status \in [Threads -> Statuses] /\ t # None /\ None \in MCSTP!Pointer /\ tail \in MCSTP!Pointer
        /\ th[t].last \in MCSTP!Pointer
    BY Zenon, OwnerTypes DEF MCSTP!Pointer, MCSTP!Distinct
  <1> DEFINE r == IF th[t].last \in {None, th[t].curr} THEN MCSTP!At("out")
                  ELSE [th[t] EXCEPT !.at = "mark"]
  <1>1. /\ th[t].at = "offer" /\ status' = [status EXCEPT ![th[t].succ] = "AVAILABLE"]
        /\ MCSTP!Become(t, "offer", r) /\ tail' = tail /\ next' = next
    BY Zenon DEF MCSTP!Grant
  <1>2. r \in MCSTP!Records /\ r.at \in {"out", "mark"} /\ MCSTP!NotNull(r)
    <2>1. CASE th[t].last \in {None, th[t].curr}
      BY Zenon, <2>1, Fresh DEF MCSTP!Places
    <2>2. CASE th[t].last \notin {None, th[t].curr}
      BY <1>0, <2>2 DEF MCSTP!Records, MCSTP!Places, MCSTP!NotNull
    <2> QED BY Zenon, <2>1, <2>2
  <1> HIDE DEF r
  <1>3. status' \in [Threads -> Statuses]
    BY Zenon, <1>0, <1>1 DEF Statuses
  <1>4. \A u \in Threads : u # th[t].succ => status'[u] = status[u]
    BY Zenon, <1>0, <1>1
  <1>5. /\ MCSTP!TypeOK' /\ th'[t] = r /\ \A u \in Threads : u # t => th'[u] = th[u]
    BY Zenon, <1>0, <1>1, <1>2, <1>3, OwnerMove
  <1>6. MCSTP!Holds(t) /\ ~MCSTP!Holds(t)'
    BY Zenon, <1>1, <1>2, <1>5 DEF MCSTP!Holds
  <1>7. /\ \A u \in Threads : MCSTP!Holds(u) => u = t
        /\ tail # None
    BY Zenon, <1>6 DEF MCSTP!OwnerInv
  <1>8. \A u \in Threads : MCSTP!Holds(u)' => u = th[t].succ
    <2> SUFFICES ASSUME NEW u \in Threads, MCSTP!Holds(u)', u # th[t].succ PROVE FALSE
      OBVIOUS
    <2>1. u # t
      BY Zenon, <1>6
    <2>2. MCSTP!Holds(u)
      BY Zenon, <1>4, <1>5, <2>1 DEF MCSTP!Holds
    <2> QED BY Zenon, <1>7, <2>1, <2>2
  <1> QED BY Zenon, <1>1, <1>5, <1>7, <1>8 DEF MCSTP!OwnerInv

Sets == INSTANCE FiniteSetTheorems

\* MCSTP's cardinality is that of the theorems on finite sets.
LEMMA MCSTPCardinality ==
  \A S : MCSTP!Cardinality(S) = Sets!Cardinality(S)
  BY Zenon DEF MCSTP!IsFiniteSet, Sets!IsFiniteSet, MCSTP!Cardinality, Sets!Cardinality

\* The time-published lock is one thread's at a time, although waiters leave their
\* nodes behind, come back to them, and are marked by an unlock_mcstp that may
\* already have handed the lock over.
THEOREM OneOwner == ASSUME MCSTP!Distinct PROVE MCSTP!Spec => [](MCSTP!OwnerInv /\ MCSTP!Exclusion)
  <1>1. MCSTP!Init => MCSTP!OwnerInv
    <2> SUFFICES ASSUME MCSTP!Init PROVE MCSTP!OwnerInv
      OBVIOUS
    <2>1. MCSTP!At("out") \in MCSTP!Records /\ MCSTP!At("out").at = "out" /\ MCSTP!NotNull(MCSTP!At("out"))
      BY Zenon, Fresh DEF MCSTP!Places
    <2>2. MCSTP!TypeOK
      BY Zenon, <2>1 DEF MCSTP!Init, MCSTP!TypeOK, MCSTP!Pointer
    <2>3. \A t \in Threads : ~MCSTP!Holds(t)
      BY Zenon, <2>1 DEF MCSTP!Init, MCSTP!Holds
    <2> QED BY Zenon, <2>2, <2>3 DEF MCSTP!OwnerInv
  <1>2. MCSTP!OwnerInv /\ [MCSTP!Next]_(MCSTP!vars) => MCSTP!OwnerInv'
    <2> SUFFICES ASSUME MCSTP!OwnerInv, [MCSTP!Next]_(MCSTP!vars) PROVE MCSTP!OwnerInv'
      OBVIOUS
    <2>1. CASE UNCHANGED MCSTP!vars
      BY Zenon, <2>1 DEF MCSTP!vars, MCSTP!OwnerInv, MCSTP!TypeOK, MCSTP!Holds, MCSTP!NotNull
    <2>2. ASSUME NEW t \in Threads,
            \/ MCSTP!Reclaim(t) \/ MCSTP!SetWaiting(t) \/ MCSTP!ClearNext(t) \/ MCSTP!Swap(t) \/ MCSTP!Link(t) \/ MCSTP!Wait(t)
            \/ MCSTP!TimeOut(t) \/ MCSTP!Unlock(t) \/ MCSTP!ReadNext(t) \/ MCSTP!Empty(t) \/ MCSTP!FailLast(t) \/ MCSTP!AwaitNext(t)
            \/ MCSTP!Visit(t) \/ MCSTP!Grant(t) \/ MCSTP!Skip(t) \/ MCSTP!MarkKept(t) \/ MCSTP!AdvanceKept(t)
          PROVE  MCSTP!OwnerInv'
      BY ZenonT(60), <2>2, OwnerTry, OwnerSwap, OwnerWait, OwnerScan, OwnerEmpty, OwnerMark, OwnerGrant
    <2> QED BY Zenon, <2>1, <2>2 DEF MCSTP!Next
  <1>3. MCSTP!OwnerInv => MCSTP!Exclusion
    <2> SUFFICES ASSUME MCSTP!OwnerInv PROVE MCSTP!Exclusion
      OBVIOUS
    <2>1. \A t, u \in MCSTP!Owners : t = u
      BY Zenon DEF MCSTP!OwnerInv, MCSTP!Owners, MCSTP!Holds
    <2>2. MCSTP!Owners = {} \/ \E t : MCSTP!Owners = {t}
      BY <2>1
    <2>3. MCSTP!Cardinality(MCSTP!Owners) \in {0, 1}
      BY Zenon, <2>2, MCSTPCardinality, Sets!FS_EmptySet, Sets!FS_Singleton
    <2> QED BY <2>3 DEF MCSTP!Exclusion
  <1> QED BY <1>1, <1>2, <1>3, PTL DEF MCSTP!Spec
=============================================================================
