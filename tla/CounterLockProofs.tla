------------------------- MODULE CounterLockProofs --------------------------
(***************************************************************************)
(* The locks that count.  The array lock implements FifoLock, for any      *)
(* finite set of threads whose size divides the range of the tickets: its  *)
(* invariant, QueueInv, places the line on the array, in consecutive slots *)
(* with the raised flag at the first.  The ticket lock implements FifoLock *)
(* for any finite set of threads, although its counters wrap around.  The  *)
(* word of the read-write lock counts the readers, and keeps them and the  *)
(* writers apart.                                                          *)
(***************************************************************************)
EXTENDS FifoLock, Integers, FiniteSets, FiniteSetTheorems, TLAPS

\* Sequences of threads: u is in q; q repeats nothing; r is q without its first,
\* or with a last one added.
In(u, q) == \E i \in 1 .. Len(q) : q[i] = u
Once(q) == \A i, j \in 1 .. Len(q) : q[i] = q[j] => i = j
IsTail(r, q) ==
  /\ r \in Seq(Threads) /\ Len(r) = Len(q) - 1
  /\ \A i \in 1 .. Len(q) - 1 : r[i] = q[i + 1]
IsAppend(r, q, t) ==
  /\ r \in Seq(Threads) /\ r # <<>>
  /\ Len(r) = Len(q) + 1 /\ r[Len(r)] = t
  /\ \A i \in 1 .. Len(q) : r[i] = q[i]

\* What Append does to a line of threads.
LEMMA AppendProps ==
  ASSUME NEW q \in Seq(Threads), NEW t \in Threads
  PROVE  IsAppend(Append(q, t), q, t)
  BY DEF IsAppend

\* A line that is not empty has a first thread.
LEMMA NotEmpty ==
  ASSUME NEW q \in Seq(Threads), q # <<>>
  PROVE  Len(q) \in Nat /\ Len(q) >= 1
  OBVIOUS

\* A thread that was not in the line is added to it, once.
LEMMA AppendMembers ==
  ASSUME NEW q \in Seq(Threads), NEW t \in Threads, NEW r, IsAppend(r, q, t), Once(q), ~In(t, q)
  PROVE  Once(r) /\ \A u : In(u, r) <=> u = t \/ In(u, q)
  <1>1. Once(r)
    BY DEF Once, In, IsAppend
  <1>2. In(t, r)
    BY DEF In, IsAppend
  <1>3. ASSUME NEW u, In(u, q) PROVE In(u, r)
    BY <1>3 DEF In, IsAppend
  <1>4. ASSUME NEW u, In(u, r), u # t PROVE In(u, q)
    BY <1>4 DEF In, IsAppend
  <1> QED BY Zenon, <1>1, <1>2, <1>3, <1>4

\* What Tail does to a line of threads.
LEMMA TailProps ==
  ASSUME NEW q \in Seq(Threads), q # <<>>
  PROVE  IsTail(Tail(q), q)
  BY DEF IsTail

\* Without its first, the line has the others, once each.
LEMMA TailMembers ==
  ASSUME NEW q \in Seq(Threads), q # <<>>, NEW r, IsTail(r, q), Once(q)
  PROVE  Once(r) /\ \A u : In(u, r) <=> u # q[1] /\ In(u, q)
  <1>1. Once(r)
    BY DEF Once, IsTail
  <1>2. ASSUME NEW u, In(u, q), u # q[1] PROVE In(u, r)
    <2>1. PICK i \in 1 .. Len(q) : q[i] = u
      BY Zenon, <1>2 DEF In
    <2>2. i - 1 \in 1 .. Len(r) /\ r[i - 1] = u
      BY <1>2, <2>1 DEF IsTail
    <2> QED BY Zenon, <2>2 DEF In
  <1>3. ASSUME NEW u, In(u, r) PROVE u # q[1] /\ In(u, q)
    <2>1. PICK i \in 1 .. Len(r) : r[i] = u
      BY Zenon, <1>3 DEF In
    <2>2. i + 1 \in 1 .. Len(q) /\ q[i + 1] = u /\ i + 1 # 1 /\ 1 \in 1 .. Len(q)
      BY <2>1 DEF IsTail
    <2> QED BY Zenon, <2>2 DEF In, Once
  <1> QED BY Zenon, <1>1, <1>2, <1>3

\* Counting on from a counter that wraps.
LEMMA WrapSucc ==
  ASSUME NEW w \in Nat \ {0}, NEW h \in 0 .. w - 1, NEW n \in 0 .. w - 1
  PROVE  /\ (((h + n) % w) + 1) % w = (h + (n + 1)) % w
         /\ (((h + 1) % w) + n) % w = (h + (n + 1)) % w
         /\ (h + n) % w = h => n = 0
         /\ (h + 0) % w = h
         /\ (h + n) % w \in 0 .. w - 1
  <1>1. PICK a \in 0 .. w - 1 : a = (h + n) % w /\ a = IF h + n < w THEN h + n ELSE h + n - w
    <2>1. CASE h + n < w
      BY <2>1
    <2>2. CASE h + n >= w
      BY <2>2
    <2> QED BY <2>1, <2>2
  <1>2. PICK b \in 0 .. w - 1 :
          b = (h + (n + 1)) % w /\ b = IF h + (n + 1) < w THEN h + (n + 1) ELSE h + (n + 1) - w
    <2>1. CASE h + (n + 1) < w
      BY <2>1
    <2>2. CASE h + (n + 1) >= w
      BY <2>2
    <2> QED BY <2>1, <2>2
  <1>3. PICK c \in 0 .. w - 1 : c = (h + 1) % w /\ c = IF h + 1 < w THEN h + 1 ELSE 0
    <2>1. CASE h + 1 < w
      BY <2>1
    <2>2. CASE h + 1 >= w
      BY <2>2
    <2> QED BY <2>1, <2>2
  <1>4. (a + 1) % w = b
    BY <1>1, <1>2
  <1>5. (c + n) % w = b
    BY <1>2, <1>3
  <1>6. (h + 0) % w = h
    OBVIOUS
  <1> QED BY <1>1, <1>2, <1>3, <1>4, <1>5, <1>6
-----------------------------------------------------------------------------
CONSTANT W

VARIABLES arrived, tail, flag, slot, at    \* of ALock

ALock == INSTANCE ALock

\* The remainder of a number that is given by its quotient and remainder.
LEMMA RemainderOf == ASSUME NEW s \in Nat \ {0}, NEW q \in Int, NEW r \in 0 .. s - 1 PROVE (s * q + r) % s = r
  OBVIOUS

\* Quotient and remainder.
LEMMA Division == ASSUME NEW s \in Nat \ {0}, NEW x \in Nat PROVE x = (s * (x \div s)) + (x % s) /\ x % s \in 0 .. s - 1 /\ x \div s \in Int
  OBVIOUS

\* Adding one and taking the remainder.
LEMMA RemainderSucc == ASSUME NEW s \in Nat \ {0}, NEW x \in Nat
   PROVE x % s \in 0 .. s - 1 /\ (x + 1) % s = ((x % s) + 1) % s
  <1>1. PICK q \in Int, r \in 0 .. s - 1 : x = s * q + r /\ r = x % s
    BY Zenon, Division
  <1>2. CASE r + 1 = s
    <2>0. PICK p \in Int : s * q = p /\ s * (q + 1) = p + s
      OBVIOUS
    <2>7. x = p + r
      BY Zenon, <1>1, <2>0
    <2>8. x + 1 = (p + s) + 0
      BY <1>2, <2>7
    <2>1. x + 1 = s * (q + 1) + 0
      BY Zenon, <2>0, <2>8
    <2>2. q + 1 \in Int /\ 0 \in 0 .. s - 1
      OBVIOUS
    <2>3. (x + 1) % s = 0
      BY Zenon, <2>1, <2>2, RemainderOf
    <2>4. s = s * 1 + 0 
      OBVIOUS
    <2>6. 1 \in Int
      OBVIOUS
    <2>5. s % s = 0 
      BY Zenon, <2>2, <2>4, <2>6, RemainderOf
    <2> QED BY Zenon, <1>1, <1>2, <2>3, <2>5
  <1>3. CASE r + 1 # s
    <2>1. x + 1 = s * q + (r + 1) /\ r + 1 \in 0 .. s - 1
      BY <1>1, <1>3
    <2>2. (x + 1) % s = r + 1
      BY Zenon, <2>1, RemainderOf
    <2>3. (r + 1) % s = r + 1
      BY <2>1
    <2> QED BY Zenon, <1>1, <2>2, <2>3
  <1> QED BY Zenon, <1>1, <1>2, <1>3

\* A remainder is in the range of the number it is taken of.
LEMMA RemainderSmall ==
  ASSUME NEW s \in Nat \ {0}, NEW w \in Nat \ {0}, NEW x \in 0 .. w - 1
  PROVE  x % s \in 0 .. w - 1
  <1>1. PICK r \in 0 .. s - 1 : r = x % s
    BY RemainderSucc
  <1>2. CASE x < s
    BY <1>2
  <1>3. CASE x >= s
    BY <1>1, <1>3
  <1> QED BY <1>2, <1>3

\* A counter that wraps at a multiple of s counts modulo s.
LEMMA WrapInWrap == ASSUME NEW s \in Nat \ {0}, NEW w \in Nat \ {0}, w % s = 0, NEW x \in 0 .. w - 1
  PROVE ((x + 1) % w) % s = ((x % s) + 1) % s
  <1>0. x \in Nat
    OBVIOUS
  <1>1. CASE x + 1 < w
     <2>1. (x + 1) % w = x + 1
       BY <1>1
     <2> QED BY ZenonT(60), <2>1, RemainderSucc, <1>0
  <1>2. CASE x + 1 = w
     <2>1. (x + 1) % w = 0 /\ 0 % s = 0
       BY <1>2
     <2>2. (x + 1) % s = 0
       BY Zenon, <1>2
     <2> QED BY Zenon, <2>1, <2>2, RemainderSucc, <1>0
  <1> QED BY <1>1, <1>2

\* ALock's cardinality is that of FiniteSets.
LEMMA ALockCardinality ==
  /\ \A S : ALock!IsFiniteSet(S) <=> IsFiniteSet(S)
  /\ \A S : ALock!Cardinality(S) = Cardinality(S)
  BY Zenon DEF ALock!IsFiniteSet, IsFiniteSet, ALock!Cardinality, Cardinality

\* The conjuncts of the invariant, and the length of the line: a thread that is not
\* in the line leaves a slot free.
LEMMA ALockFacts ==
  ASSUME ALock!Sizes, ALock!QueueInv
  PROVE  /\ ALock!size \in Nat \ {0} /\ W \in Nat \ {0} /\ W % ALock!size = 0
         /\ ALock!TypeOK /\ arrived \in Seq(Threads) /\ Once(arrived) /\ Len(arrived) \in Nat
         /\ \A t \in Threads : t \in ALock!InQueue <=> In(t, arrived)
         /\ IsFiniteSet(ALock!InQueue) /\ Cardinality(ALock!InQueue) = Len(arrived)
         /\ Len(arrived) <= ALock!size
         /\ \A t \in Threads : t \notin ALock!InQueue => Len(arrived) \in 0 .. ALock!size - 1
         /\ \E b : ALock!FromSlot(b)
  <1>1. IsFiniteSet(Threads) /\ Threads # {} /\ W \in Nat \ {0} /\ W % ALock!size = 0
    BY Zenon, ALockCardinality DEF ALock!Sizes
  <1>2. ALock!size = Cardinality(Threads)
    BY Zenon, ALockCardinality DEF ALock!size
  <1>3. ALock!size \in Nat /\ ALock!size # 0
    BY Zenon, <1>1, <1>2, FS_CardinalityType, FS_EmptySet
  <1>4. /\ ALock!TypeOK /\ arrived \in Seq(Threads) /\ Once(arrived)
        /\ \A t \in Threads : t \in ALock!InQueue <=> In(t, arrived)
        /\ \E b : ALock!FromSlot(b)
    BY Zenon DEF ALock!QueueInv, ALock!TypeOK, Once, In
  <1>5. Len(arrived) \in Nat
    BY <1>4
  <1>6. ALock!InQueue \subseteq Threads
    BY Zenon DEF ALock!InQueue
  <1>7. IsFiniteSet(ALock!InQueue) /\ Cardinality(ALock!InQueue) = Len(arrived)
    BY Zenon, <1>1, <1>6, FS_Subset, ALockCardinality DEF ALock!QueueInv
  <1>8. Len(arrived) <= ALock!size
    BY Zenon, <1>1, <1>2, <1>6, <1>7, FS_Subset
  <1>9. ASSUME NEW t \in Threads, t \notin ALock!InQueue PROVE Len(arrived) \in 0 .. ALock!size - 1
    <2>1. Cardinality(ALock!InQueue \cup {t}) = Len(arrived) + 1
      BY Zenon, <1>7, <1>9, FS_AddElement
    <2>2. ALock!InQueue \cup {t} \in SUBSET Threads
      BY Zenon, <1>6
    <2>3. Cardinality(ALock!InQueue \cup {t}) <= Cardinality(Threads)
      BY Zenon, <1>1, <2>2, FS_Subset
    <2>4. Len(arrived) + 1 <= ALock!size
      BY Zenon, <1>2, <2>1, <2>3
    <2> QED BY <1>3, <1>5, <2>4
  <1> QED BY Zenon, <1>1, <1>3, <1>4, <1>5, <1>7, <1>8, <1>9

\* The first of the line, and only it, has the slot whose flag is up.
LEMMA ALockFirst ==
  ASSUME ALock!Sizes, ALock!QueueInv, NEW t \in ALock!InQueue, flag[slot[t]]
  PROVE  arrived # <<>> /\ arrived[1] = t /\ ALock!Passing = {}
  <1>1. PICK b : ALock!FromSlot(b)
    BY Zenon, ALockFacts
  <1>2. PICK i \in 1 .. Len(arrived) : arrived[i] = t
    BY Zenon, ALockFacts DEF In, ALock!InQueue
  <1>3. /\ slot[t] = (b + (i - 1)) % ALock!size /\ b \in 0 .. ALock!size - 1
        /\ \A j \in 0 .. ALock!size - 1 : flag[j] => j = b /\ ALock!Passing = {}
    BY Zenon, <1>1, <1>2 DEF ALock!FromSlot
  <1>4. i - 1 \in 0 .. ALock!size - 1 /\ ALock!size \in Nat \ {0}
    BY ALockFacts
  <1>5. slot[t] \in 0 .. ALock!size - 1
    <2>1. (b + (i - 1)) % ALock!size \in 0 .. ALock!size - 1
      BY Zenon, <1>3, <1>4, WrapSucc
    <2> QED BY Zenon, <1>3, <2>1
  <1>6. slot[t] = b /\ ALock!Passing = {}
    BY Zenon, <1>3, <1>5
  <1>7. i - 1 = 0
    BY Zenon, <1>3, <1>4, <1>6, WrapSucc
  <1> QED BY SMTT(60), <1>2, <1>6, <1>7, ALockFacts

\* The thread in the critical section is the first of the line, under its flag.
LEMMA ALockHolder ==
  ASSUME ALock!Sizes, ALock!QueueInv, NEW t \in Threads, at[t] = "cs"
  PROVE  /\ arrived # <<>> /\ arrived[1] = t /\ ALock!Passing = {} /\ t \in ALock!InQueue
         /\ \A u \in Threads : at[u] = "cs" => u = t
         /\ \A b : ALock!FromSlot(b) => slot[t] = b
  <1>1. t \in ALock!InQueue
    BY Zenon DEF ALock!InQueue
  <1>2. In(t, arrived)
    BY Zenon, <1>1, ALockFacts
  <1>3. arrived # <<>> /\ 1 \in 1 .. Len(arrived)
    BY <1>2, ALockFacts DEF In
  <1>4. arrived[1] = t /\ ALock!Passing = {} /\ \A u \in Threads : at[u] = "cs" => u = t
    BY Zenon DEF ALock!QueueInv
  <1>5. ASSUME NEW b, ALock!FromSlot(b) PROVE slot[t] = b
    <2>1. slot[t] = (b + (1 - 1)) % ALock!size /\ b \in 0 .. ALock!size - 1
      BY Zenon, <1>3, <1>4, <1>5 DEF ALock!FromSlot
    <2>2. 1 - 1 = 0 /\ 0 \in 0 .. ALock!size - 1 /\ ALock!size \in Nat \ {0}
      BY ALockFacts
    <2>3. (b + 0) % ALock!size = b
      BY Zenon, <2>1, <2>2, WrapSucc
    <2> QED BY Zenon, <2>1, <2>2, <2>3
  <1> QED BY Zenon, <1>1, <1>3, <1>4, <1>5

\* A thread takes the next slot, by fetch-and-add or by a successful trylock; by
\* the latter only when nobody has the lock.
ALockJoins(t) ==
  /\ t \notin ALock!InQueue /\ t \notin ALock!Passing
  /\ ALock!Advance
  /\ slot' = [slot EXCEPT ![t] = tail % ALock!size]
  /\ \/ at' = [at EXCEPT ![t] = "spin"]
     \/ at' = [at EXCEPT ![t] = "cs"] /\ arrived = <<>> /\ ALock!Passing = {}
  /\ arrived' = Append(arrived, t)
  /\ flag' = flag

\* Taking a slot preserves the invariant: the slot follows those of the line.
LEMMA ALockJoin ==
  ASSUME ALock!Sizes, ALock!QueueInv, NEW t \in Threads, ALockJoins(t)
  PROVE  ALock!QueueInv'
  <1>1. PICK q : arrived' = q /\ IsAppend(q, arrived, t)
    BY Zenon, ALockFacts, AppendProps DEF ALockJoins
  <1>2. Once(q) /\ \A u : In(u, q) <=> u = t \/ In(u, arrived)
    BY Zenon, <1>1, ALockFacts, AppendMembers DEF ALockJoins
  <1>3. Len(arrived) \in 0 .. ALock!size - 1 /\ ALock!size \in Nat \ {0} /\ W \in Nat \ {0}
    BY Zenon, ALockFacts DEF ALockJoins
  <1>4. tail \in 0 .. W - 1 /\ tail \in Nat
    BY ALockFacts DEF ALock!TypeOK
  <1>5. tail' = (tail + 1) % W /\ \A u \in Threads : at[u] = "try" => slot[u] # tail'
    BY Zenon DEF ALockJoins, ALock!Advance
  <1>6. /\ tail' % ALock!size = ((tail % ALock!size) + 1) % ALock!size
        /\ tail % ALock!size \in 0 .. ALock!size - 1
    BY Zenon, <1>3, <1>4, <1>5, ALockFacts, WrapInWrap, RemainderSucc
  <1>7. tail' \in 0 .. W - 1 /\ tail % ALock!size \in 0 .. W - 1
    <2>1. (tail + 1) % W \in 0 .. W - 1
      BY <1>3, <1>4
    <2>2. tail % ALock!size \in 0 .. W - 1
      BY Zenon, <1>3, <1>4, RemainderSmall
    <2> QED BY Zenon, <1>5, <2>1, <2>2
  <1>8. /\ slot'[t] = tail % ALock!size
        /\ at'[t] \in {"spin", "cs"} /\ (at'[t] = "cs" => arrived = <<>> /\ ALock!Passing = {})
        /\ \A u \in Threads : u # t => slot'[u] = slot[u] /\ at'[u] = at[u]
        /\ flag' = flag
    BY Zenon, ALockFacts DEF ALockJoins, ALock!TypeOK
  <1>9. ALock!TypeOK'
    BY Zenon, <1>1, <1>7, ALockFacts DEF ALockJoins, ALock!TypeOK, IsAppend
  <1>10. ALock!InQueue' = ALock!InQueue \cup {t} /\ ALock!Passing' = ALock!Passing
    BY Zenon, <1>8 DEF ALockJoins, ALock!InQueue, ALock!Passing
  <1>11. \A u \in Threads : u \in ALock!InQueue' <=> In(u, q)
    BY Zenon, <1>2, <1>10, ALockFacts
  <1>12. Cardinality(ALock!InQueue') = Len(q)
    <2>1. IsFiniteSet(ALock!InQueue) /\ Cardinality(ALock!InQueue) = Len(arrived) /\ t \notin ALock!InQueue
      BY Zenon, ALockFacts DEF ALockJoins
    <2>2. Cardinality(ALock!InQueue \cup {t}) = Len(arrived) + 1
      BY Zenon, <2>1, FS_AddElement
    <2> QED BY Zenon, <1>1, <1>10, <2>2 DEF IsAppend
  <1>13. \A u \in Threads : at'[u] = "cs" => q[1] = u /\ ALock!Passing' = {}
    <2> SUFFICES ASSUME NEW u \in Threads, at'[u] = "cs" PROVE q[1] = u /\ ALock!Passing' = {}
      BY Zenon
    <2>1. CASE u = t
      <3>1. Len(arrived) = 0 /\ ALock!Passing = {}
        BY Zenon, <1>8, <2>1
      <3> QED BY SMTT(60), <1>1, <1>10, <2>1, <3>1 DEF IsAppend
    <2>2. CASE u # t
      <3>1. arrived # <<>> /\ arrived[1] = u /\ ALock!Passing = {}
        BY Zenon, <1>8, <2>2, ALockHolder
      <3>2. q[1] = arrived[1]
        BY SMTT(60), <1>1, <3>1, ALockFacts, NotEmpty DEF IsAppend
      <3> QED BY Zenon, <1>10, <3>1, <3>2
    <2> QED BY Zenon, <2>1, <2>2
  <1>14. \A u, v \in ALock!Passing' : u = v
    BY Zenon, <1>10 DEF ALock!QueueInv
  <1>15. \A u \in Threads : at'[u] = "try" /\ slot'[u] = tail' => arrived' = <<>> /\ ALock!Passing' = {}
    BY Zenon, <1>5, <1>8
  <1>16. PICK b : ALock!FromSlot(b)
    BY Zenon, ALockFacts
  <1>17. b \in 0 .. ALock!size - 1 /\ tail % ALock!size = (b + Len(arrived)) % ALock!size
    BY Zenon, <1>16 DEF ALock!FromSlot
  <1>18. ASSUME NEW i \in 1 .. Len(q) PROVE slot'[q[i]] = (b + (i - 1)) % ALock!size
    <2>1. CASE i = Len(q)
      <3>1. q[i] = t /\ i - 1 = Len(arrived)
        BY SMTT(60), <1>1, <2>1, ALockFacts DEF IsAppend
      <3> QED BY Zenon, <1>8, <1>17, <3>1
    <2>2. CASE i # Len(q)
      <3>1. i \in 1 .. Len(arrived) /\ q[i] = arrived[i]
        BY SMTT(60), <1>1, <2>2, ALockFacts DEF IsAppend
      <3>2. arrived[i] \in Threads /\ arrived[i] # t
        BY <3>1, ALockFacts DEF ALockJoins, In
      <3> QED BY Zenon, <1>8, <1>16, <3>1, <3>2 DEF ALock!FromSlot
    <2> QED BY Zenon, <2>1, <2>2
  <1>19. tail' % ALock!size = (b + Len(q)) % ALock!size
    <2>1. Len(q) = Len(arrived) + 1
      BY Zenon, <1>1 DEF IsAppend
    <2>2. (((b + Len(arrived)) % ALock!size) + 1) % ALock!size = (b + (Len(arrived) + 1)) % ALock!size
      BY ZenonT(60), <1>3, <1>17, WrapSucc
    <2> QED BY Zenon, <1>6, <1>17, <2>1, <2>2
  <1>20. /\ \A j \in 0 .. ALock!size - 1 : flag'[j] <=> j = b /\ ALock!Passing' = {}
         /\ \A u \in ALock!Passing' : (slot'[u] + 1) % ALock!size = b
    BY Zenon, <1>8, <1>10, <1>16 DEF ALock!FromSlot, ALockJoins, ALock!Passing
  <1>21. ALock!size' = ALock!size
    BY Zenon DEF ALock!size
  <1>22. ALock!FromSlot(b)'
    BY Zenon, <1>1, <1>17, <1>18, <1>19, <1>20, <1>21 DEF ALock!FromSlot
  <1>23. \E c \in 0 .. ALock!size - 1 : ALock!FromSlot(c)'
    BY Zenon, <1>17, <1>22
  <1>24. /\ \A u \in Threads : u \in ALock!InQueue' <=> \E i \in 1 .. Len(arrived') : arrived'[i] = u
         /\ \A i, j \in 1 .. Len(arrived') : arrived'[i] = arrived'[j] => i = j
    BY Zenon, <1>1, <1>2, <1>11 DEF Once, In
  <1>25. /\ Len(arrived') = ALock!Cardinality(ALock!InQueue')
         /\ \A u \in Threads : at'[u] = "cs" => arrived'[1] = u /\ ALock!Passing' = {}
    BY Zenon, <1>1, <1>12, <1>13, ALockCardinality
  <1> QED BY ZenonT(60), <1>9, <1>14, <1>15, <1>21, <1>23, <1>24, <1>25 DEF ALock!QueueInv

\* The fetch-and-add of alock_lock puts the thread at the end of the line.
LEMMA ALockTake ==
  ASSUME ALock!Sizes, ALock!QueueInv, NEW t \in Threads, ALock!TakeSlot(t)
  PROVE  ALock!QueueInv' /\ ALock!FifoLock!Arrive(t)
  <1>1. at[t] = "out" /\ t \notin ALock!InQueue /\ t \notin ALock!Passing /\ ~In(t, arrived)
    BY Zenon, ALockFacts DEF ALock!TakeSlot, ALock!Move, ALock!InQueue, ALock!Passing
  <1>2. ALockJoins(t)
    BY Zenon, <1>1 DEF ALockJoins, ALock!TakeSlot, ALock!Move
  <1>3. {u \in Threads : at'[u] = "cs"} = {u \in Threads : at[u] = "cs"}
    BY Zenon, <1>1, ALockFacts DEF ALock!TakeSlot, ALock!Move, ALock!TypeOK
  <1>4. \A i \in DOMAIN arrived : arrived[i] # t
    BY <1>1, ALockFacts DEF In
  <1>5. ALock!FifoLock!Arrive(t)
    BY Zenon, <1>3, <1>4 DEF ALock!FifoLock!Arrive, ALock!TakeSlot
  <1> QED BY Zenon, <1>2, <1>5, ALockJoin

\* Steps that keep the line, the counter, the flags and the slots in use.
LEMMA ALockSame ==
  ASSUME ALock!Sizes, ALock!QueueInv, ALock!TypeOK', UNCHANGED <<tail, flag, arrived>>,
         ALock!InQueue' = ALock!InQueue, ALock!Passing' = ALock!Passing,
         \A u \in ALock!InQueue \cup ALock!Passing : slot'[u] = slot[u],
         \A u \in Threads : at'[u] = "cs" => arrived[1] = u /\ ALock!Passing = {},
         \A u \in Threads : at'[u] = "try" /\ slot'[u] = tail => arrived = <<>> /\ ALock!Passing = {}
  PROVE  ALock!QueueInv'
  <1>1. PICK b : ALock!FromSlot(b)
    BY Zenon, ALockFacts
  <1>2. b \in 0 .. ALock!size - 1 /\ ALock!size' = ALock!size
    BY Zenon, <1>1 DEF ALock!FromSlot, ALock!size
  <1>3. ASSUME NEW i \in 1 .. Len(arrived) PROVE slot'[arrived[i]] = (b + (i - 1)) % ALock!size
    <2>1. arrived[i] \in ALock!InQueue
      BY ALockFacts DEF In
    <2> QED BY Zenon, <1>1, <2>1 DEF ALock!FromSlot
  <1>4. /\ \A j \in 0 .. ALock!size - 1 : flag'[j] <=> j = b /\ ALock!Passing' = {}
        /\ \A u \in ALock!Passing' : (slot'[u] + 1) % ALock!size = b
        /\ tail' % ALock!size = (b + Len(arrived)) % ALock!size
    BY Zenon, <1>1 DEF ALock!FromSlot
  <1>5. ALock!FromSlot(b)'
    BY Zenon, <1>2, <1>3, <1>4 DEF ALock!FromSlot
  <1>6. \E c \in 0 .. ALock!size - 1 : ALock!FromSlot(c)'
    BY Zenon, <1>2, <1>5
  <1>7. /\ \A u \in Threads : u \in ALock!InQueue' <=> \E i \in 1 .. Len(arrived) : arrived[i] = u
        /\ \A i, j \in 1 .. Len(arrived) : arrived[i] = arrived[j] => i = j
        /\ Len(arrived) = ALock!Cardinality(ALock!InQueue')
        /\ \A t, u \in ALock!Passing' : t = u
    BY Zenon DEF ALock!QueueInv
  <1>8. \A u \in Threads : at'[u] = "cs" => arrived'[1] = u /\ ALock!Passing' = {}
    BY Zenon
  <1>9. \A u \in Threads : at'[u] = "try" /\ slot'[u] = tail' => arrived' = <<>> /\ ALock!Passing' = {}
    BY Zenon
  <1> QED BY <1>2, <1>6, <1>7, <1>8, <1>9 DEF ALock!QueueInv

\* A thread that finds its flag up is the first of the line, and nobody holds the lock.
LEMMA ALockSpin ==
  ASSUME ALock!Sizes, ALock!QueueInv, NEW t \in Threads, ALock!Spin(t)
  PROVE  ALock!QueueInv' /\ ALock!FifoLock!Enter(t)
  <1>1. /\ at[t] = "spin" /\ at'[t] = "cs" /\ flag[slot[t]] /\ UNCHANGED <<tail, flag, slot, arrived>>
        /\ \A u \in Threads : u # t => at'[u] = at[u]
    BY Zenon, ALockFacts DEF ALock!Spin, ALock!Move, ALock!TypeOK
  <1>2. t \in ALock!InQueue
    BY Zenon, <1>1 DEF ALock!InQueue
  <1>3. arrived # <<>> /\ arrived[1] = t /\ ALock!Passing = {}
    BY Zenon, <1>1, <1>2, ALockFirst
  <1>4. ALock!InQueue' = ALock!InQueue /\ ALock!Passing' = ALock!Passing
    BY Zenon, <1>1 DEF ALock!InQueue, ALock!Passing
  <1>5. ALock!TypeOK'
    BY Zenon, ALockFacts DEF ALock!Spin, ALock!Move, ALock!TypeOK, ALock!size
  <1>6. \A u \in Threads : at[u] # "cs"
    BY Zenon, <1>1, <1>3, ALockHolder
  <1>7. ALock!QueueInv'
    <2>1. \A u \in Threads : at'[u] = "cs" => arrived[1] = u /\ ALock!Passing = {}
      BY Zenon, <1>1, <1>3, <1>6
    <2>2. \A u \in Threads : at'[u] = "try" /\ slot'[u] = tail => arrived = <<>> /\ ALock!Passing = {}
      BY Zenon, <1>1 DEF ALock!QueueInv
    <2> QED BY Zenon, <1>1, <1>4, <1>5, <2>1, <2>2, ALockSame
  <1>8. {u \in Threads : at[u] = "cs"} = {} /\ {u \in Threads : at'[u] = "cs"} = {t}
    BY Zenon, <1>1, <1>6
  <1>9. Head(arrived) = t
    BY <1>3, ALockFacts
  <1>10. ALock!FifoLock!Enter(t)
    BY Zenon, <1>1, <1>3, <1>8, <1>9 DEF ALock!FifoLock!Enter
  <1> QED BY Zenon, <1>7, <1>10

\* The flag that the tail selects is up only when the line is empty: the thread
\* that looks at it is not in the line, so the line does not go all around.
LEMMA ALockTryRead ==
  ASSUME ALock!Sizes, ALock!QueueInv, NEW t \in Threads, ALock!TryRead(t)
  PROVE  ALock!QueueInv' /\ UNCHANGED ALock!FifoLock!vars
  <1>1. /\ at[t] = "out" /\ at'[t] = "try" /\ slot'[t] = tail /\ UNCHANGED <<tail, flag, arrived>>
        /\ \A u \in Threads : u # t => at'[u] = at[u] /\ slot'[u] = slot[u]
        /\ flag[tail % ALock!size]
    BY Zenon, ALockFacts DEF ALock!TryRead, ALock!Move, ALock!TypeOK
  <1>2. t \notin ALock!InQueue /\ t \notin ALock!Passing
    BY Zenon, <1>1 DEF ALock!InQueue, ALock!Passing
  <1>3. ALock!InQueue' = ALock!InQueue /\ ALock!Passing' = ALock!Passing
    BY Zenon, <1>1 DEF ALock!InQueue, ALock!Passing
  <1>4. ALock!TypeOK'
    BY Zenon, ALockFacts DEF ALock!TryRead, ALock!Move, ALock!TypeOK, ALock!size
  <1>5. arrived = <<>> /\ ALock!Passing = {}
    <2>1. PICK b : ALock!FromSlot(b)
      BY Zenon, ALockFacts
    <2>2. /\ b \in 0 .. ALock!size - 1 /\ tail % ALock!size = (b + Len(arrived)) % ALock!size
          /\ \A j \in 0 .. ALock!size - 1 : flag[j] => j = b /\ ALock!Passing = {}
      BY Zenon, <2>1 DEF ALock!FromSlot
    <2>3. Len(arrived) \in 0 .. ALock!size - 1 /\ ALock!size \in Nat \ {0}
      BY Zenon, <1>2, ALockFacts
    <2>4. (b + Len(arrived)) % ALock!size \in 0 .. ALock!size - 1
      BY Zenon, <2>2, <2>3, WrapSucc
    <2>5. (b + Len(arrived)) % ALock!size = b /\ ALock!Passing = {}
      BY Zenon, <1>1, <2>2, <2>4
    <2>6. Len(arrived) = 0
      BY Zenon, <2>2, <2>3, <2>5, WrapSucc
    <2> QED BY <2>5, <2>6, ALockFacts
  <1>6. ALock!QueueInv'
    <2>1. \A u \in ALock!InQueue \cup ALock!Passing : slot'[u] = slot[u]
      BY Zenon, <1>1, <1>2 DEF ALock!InQueue, ALock!Passing
    <2>2. \A u \in Threads : at'[u] = "cs" => arrived[1] = u /\ ALock!Passing = {}
      BY Zenon, <1>1, ALockHolder
    <2> QED BY Zenon, <1>1, <1>3, <1>4, <1>5, <2>1, <2>2, ALockSame
  <1>7. {u \in Threads : at'[u] = "cs"} = {u \in Threads : at[u] = "cs"}
    BY Zenon, <1>1
  <1> QED BY Zenon, <1>1, <1>6, <1>7 DEF ALock!FifoLock!vars

\* The compare-and-swap of alock_trylock succeeds only when the line is empty.
LEMMA ALockTryCas ==
  ASSUME ALock!Sizes, ALock!QueueInv, NEW t \in Threads, ALock!TryCas(t)
  PROVE  ALock!QueueInv' /\ (ALock!FifoLock!TryEnter(t) \/ UNCHANGED ALock!FifoLock!vars)
  <1>1. /\ at[t] = "try" /\ t \notin ALock!InQueue /\ t \notin ALock!Passing
        /\ slot' = [slot EXCEPT ![t] = slot[t] % ALock!size] /\ flag' = flag
    BY Zenon DEF ALock!TryCas, ALock!Move, ALock!InQueue, ALock!Passing
  <1>2. CASE tail = slot[t]
    <2>1. /\ at' = [at EXCEPT ![t] = "cs"] /\ ALock!Advance /\ arrived' = Append(arrived, t)
          /\ slot' = [slot EXCEPT ![t] = tail % ALock!size] /\ flag' = flag
      BY Zenon, <1>2 DEF ALock!TryCas, ALock!Move
    <2>2. arrived = <<>> /\ ALock!Passing = {}
      BY Zenon, <1>1, <1>2 DEF ALock!QueueInv
    <2>3. ALockJoins(t)
      BY Zenon, <1>1, <2>1, <2>2 DEF ALockJoins
    <2>4. \A u \in Threads : at[u] # "cs"
      BY Zenon, <2>2, ALockHolder
    <2>5. {u \in Threads : at'[u] = "cs"} = {t}
      BY Zenon, <2>1, <2>4, ALockFacts DEF ALock!TypeOK
    <2>6. arrived' = <<t>>
      BY <2>1, <2>2
    <2>7. ALock!FifoLock!TryEnter(t)
      BY Zenon, <2>2, <2>5, <2>6 DEF ALock!FifoLock!TryEnter
    <2> QED BY Zenon, <2>3, <2>7, ALockJoin
  <1>3. CASE tail # slot[t]
    <2>1. /\ at'[t] = "out" /\ UNCHANGED <<tail, flag, arrived>>
          /\ \A u \in Threads : u # t => at'[u] = at[u] /\ slot'[u] = slot[u]
      BY Zenon, <1>3, ALockFacts DEF ALock!TryCas, ALock!Move, ALock!TypeOK
    <2>2. ALock!InQueue' = ALock!InQueue /\ ALock!Passing' = ALock!Passing
      BY Zenon, <1>1, <2>1 DEF ALock!InQueue, ALock!Passing
    <2>3. ALock!TypeOK'
      <3>1. slot[t] % ALock!size \in 0 .. W - 1
        BY Zenon, ALockFacts, RemainderSmall DEF ALock!TypeOK
      <3>2. at' = [at EXCEPT ![t] = "out"]
        BY Zenon, <1>3 DEF ALock!TryCas, ALock!Move
      <3> QED BY Zenon, <1>1, <2>1, <3>1, <3>2, ALockFacts DEF ALock!TypeOK, ALock!size
    <2>4. \A u \in ALock!InQueue \cup ALock!Passing : slot'[u] = slot[u]
      BY Zenon, <1>1, <2>1 DEF ALock!InQueue, ALock!Passing
    <2>5. \A u \in Threads : at'[u] = "cs" => arrived[1] = u /\ ALock!Passing = {}
      BY Zenon, <2>1 DEF ALock!QueueInv
    <2>6. \A u \in Threads : at'[u] = "try" /\ slot'[u] = tail => arrived = <<>> /\ ALock!Passing = {}
      BY Zenon, <2>1 DEF ALock!QueueInv
    <2>7. {u \in Threads : at'[u] = "cs"} = {u \in Threads : at[u] = "cs"}
      BY Zenon, <1>1, <2>1
    <2>8. ALock!QueueInv'
      BY Zenon, <2>1, <2>2, <2>3, <2>4, <2>5, <2>6, ALockSame
    <2> QED BY Zenon, <2>1, <2>7, <2>8 DEF ALock!FifoLock!vars
  <1> QED BY Zenon, <1>2, <1>3

\* alock_unlock takes its own flag down; the line moves up, and no flag is up.
LEMMA ALockClear ==
  ASSUME ALock!Sizes, ALock!QueueInv, NEW t \in Threads, ALock!Clear(t)
  PROVE  ALock!QueueInv' /\ ALock!FifoLock!Leave(t)
  <1>1. /\ at[t] = "cs" /\ at' = [at EXCEPT ![t] = "pass"] /\ flag' = [flag EXCEPT ![slot[t]] = FALSE]
        /\ arrived' = Tail(arrived) /\ UNCHANGED <<tail, slot>>
    BY Zenon DEF ALock!Clear, ALock!Move
  <1>2. /\ arrived # <<>> /\ arrived[1] = t /\ ALock!Passing = {} /\ t \in ALock!InQueue
        /\ \A u \in Threads : at[u] = "cs" => u = t
    BY Zenon, <1>1, ALockHolder
  <1>3. at'[t] = "pass" /\ \A u \in Threads : u # t => at'[u] = at[u]
    BY Zenon, <1>1, ALockFacts DEF ALock!TypeOK
  <1>4. PICK q : arrived' = q /\ IsTail(q, arrived)
    BY Zenon, <1>1, <1>2, ALockFacts, TailProps
  <1>5. Once(q) /\ \A u : In(u, q) <=> u # t /\ In(u, arrived)
    BY Zenon, <1>2, <1>4, ALockFacts, TailMembers
  <1>6. {u \in Threads : at[u] = "cs"} = {t} /\ {u \in Threads : at'[u] = "cs"} = {}
    BY Zenon, <1>1, <1>2, <1>3
  <1>7. ALock!FifoLock!Leave(t)
    BY Zenon, <1>1, <1>6 DEF ALock!FifoLock!Leave
  <1>8. PICK b : ALock!FromSlot(b) /\ slot[t] = b
    BY Zenon, <1>1, ALockFacts, ALockHolder
  <1>9. /\ b \in 0 .. ALock!size - 1 /\ tail % ALock!size = (b + Len(arrived)) % ALock!size
        /\ \A j \in 0 .. ALock!size - 1 : flag[j] => j = b
    BY Zenon, <1>8 DEF ALock!FromSlot
  <1>10. ALock!size \in Nat \ {0} /\ ALock!size' = ALock!size
    BY Zenon, ALockFacts DEF ALock!size
  <1>11. ALock!TypeOK'
    BY Zenon, <1>1, <1>4, <1>10, ALockFacts DEF ALock!TypeOK, IsTail
  <1>12. ALock!InQueue' = ALock!InQueue \ {t} /\ ALock!Passing' = {t}
    <2>1. ALock!InQueue' = ALock!InQueue \ {t}
      BY Zenon, <1>1, <1>3 DEF ALock!InQueue
    <2>2. ALock!Passing' = {t}
      BY ZenonT(60), <1>2, <1>3 DEF ALock!Passing
    <2> QED BY Zenon, <2>1, <2>2
  <1>13. /\ \A u \in Threads : u \in ALock!InQueue' <=> \E i \in 1 .. Len(arrived') : arrived'[i] = u
         /\ \A i, j \in 1 .. Len(arrived') : arrived'[i] = arrived'[j] => i = j
    <2>1. \A u \in Threads : u \in ALock!InQueue' <=> In(u, q)
      BY Zenon, <1>5, <1>12, ALockFacts
    <2> QED BY Zenon, <1>4, <1>5, <2>1 DEF Once, In
  <1>14. Len(arrived') = ALock!Cardinality(ALock!InQueue')
    <2>1. IsFiniteSet(ALock!InQueue) /\ Cardinality(ALock!InQueue) = Len(arrived)
      BY Zenon, ALockFacts
    <2>2. Cardinality(ALock!InQueue \ {t}) = Len(arrived) - 1
      BY Zenon, <1>2, <2>1, FS_RemoveElement
    <2> QED BY Zenon, <1>4, <1>12, <2>2, ALockCardinality DEF IsTail
  <1>15. /\ \A u \in Threads : at'[u] # "cs"
         /\ \A u, v \in ALock!Passing' : u = v
    BY Zenon, <1>6, <1>12
  <1>16. \A u \in Threads : at'[u] = "try" => slot'[u] # tail'
    <2>1. \A u \in Threads : at[u] = "try" /\ slot[u] = tail => arrived = <<>>
      BY Zenon DEF ALock!QueueInv
    <2> QED BY Zenon, <1>1, <1>2, <1>3, <2>1
  <1>17. PICK c \in 0 .. ALock!size - 1 : c = (b + 1) % ALock!size
    <2>1. 1 - 1 = 0 /\ (b + 1) % ALock!size \in 0 .. ALock!size - 1
      BY <1>9, <1>10
    <2> QED BY Zenon, <2>1
  <1>18. \A n \in 0 .. ALock!size - 1 : (c + n) % ALock!size = (b + (n + 1)) % ALock!size
    <2>1. \A n \in 0 .. ALock!size - 1 :
            (((b + 1) % ALock!size) + n) % ALock!size = (b + (n + 1)) % ALock!size
      BY ZenonT(60), <1>9, <1>10, WrapSucc
    <2> QED BY Zenon, <1>17, <2>1
  <1>19. ASSUME NEW i \in 1 .. Len(q) PROVE slot[q[i]] = (c + (i - 1)) % ALock!size
    <2>1. i + 1 \in 1 .. Len(arrived) /\ i - 1 \in 0 .. ALock!size - 1 /\ (i - 1) + 1 = (i + 1) - 1
      BY <1>4, ALockFacts DEF IsTail
    <2>2. q[i] = arrived[i + 1]
      BY Zenon, <1>4, <2>1, ALockFacts DEF IsTail
    <2>3. slot[arrived[i + 1]] = (b + ((i + 1) - 1)) % ALock!size
      BY Zenon, <1>8, <2>1 DEF ALock!FromSlot
    <2>4. (c + (i - 1)) % ALock!size = (b + ((i - 1) + 1)) % ALock!size
      BY Zenon, <1>18, <2>1
    <2> QED BY Zenon, <2>1, <2>2, <2>3, <2>4
  <1>20. tail % ALock!size = (c + Len(q)) % ALock!size
    <2>1. Len(q) \in 0 .. ALock!size - 1 /\ Len(q) + 1 = Len(arrived)
      BY <1>2, <1>4, ALockFacts, NotEmpty DEF IsTail
    <2>2. (c + Len(q)) % ALock!size = (b + (Len(q) + 1)) % ALock!size
      BY Zenon, <1>18, <2>1
    <2> QED BY Zenon, <1>9, <2>1, <2>2
  <1>21. \A j \in 0 .. ALock!size - 1 : ~flag'[j]
    BY Zenon, <1>1, <1>8, <1>9, ALockFacts DEF ALock!TypeOK
  <1>22. \A u \in ALock!Passing' : (slot'[u] + 1) % ALock!size = c
    BY Zenon, <1>1, <1>8, <1>12, <1>17
  <1>23. ALock!FromSlot(c)'
    <2>1. \A i \in 1 .. Len(arrived') : slot'[arrived'[i]] = (c + (i - 1)) % ALock!size
      BY Zenon, <1>1, <1>4, <1>19
    <2>2. tail' % ALock!size = (c + Len(arrived')) % ALock!size
      BY Zenon, <1>1, <1>4, <1>20
    <2>3. \A j \in 0 .. ALock!size - 1 : flag'[j] <=> j = c /\ ALock!Passing' = {}
      BY Zenon, <1>12, <1>21
    <2> QED BY Zenon, <1>10, <1>17, <1>22, <2>1, <2>2, <2>3 DEF ALock!FromSlot
  <1>24. \E d \in 0 .. ALock!size - 1 : ALock!FromSlot(d)'
    BY Zenon, <1>17, <1>23
  <1>25. ALock!QueueInv'
    BY Zenon, <1>10, <1>11, <1>13, <1>14, <1>15, <1>16, <1>24 DEF ALock!QueueInv
  <1> QED BY Zenon, <1>7, <1>25

\* Then it raises the next flag, that of the first of the line if there is one.
LEMMA ALockPass ==
  ASSUME ALock!Sizes, ALock!QueueInv, NEW t \in Threads, ALock!Pass(t)
  PROVE  ALock!QueueInv' /\ UNCHANGED ALock!FifoLock!vars
  <1>1. /\ at[t] = "pass" /\ at' = [at EXCEPT ![t] = "out"]
        /\ flag' = [flag EXCEPT ![(slot[t] + 1) % ALock!size] = TRUE] /\ UNCHANGED <<tail, slot, arrived>>
    BY Zenon DEF ALock!Pass, ALock!Move
  <1>2. at'[t] = "out" /\ \A u \in Threads : u # t => at'[u] = at[u]
    BY Zenon, <1>1, ALockFacts DEF ALock!TypeOK
  <1>3. t \in ALock!Passing
    BY Zenon, <1>1 DEF ALock!Passing
  <1>4. \A u, v \in ALock!Passing : u = v
    BY Zenon DEF ALock!QueueInv
  <1>5. ALock!InQueue' = ALock!InQueue /\ ALock!Passing' = {}
    BY Zenon, <1>1, <1>2, <1>3, <1>4 DEF ALock!InQueue, ALock!Passing
  <1>6. \A u \in Threads : at[u] # "cs" /\ at'[u] # "cs"
    <2>1. \A u \in Threads : at[u] # "cs"
      BY Zenon, <1>3, ALockHolder
    <2> QED BY Zenon, <1>2, <2>1
  <1>7. \A u \in Threads : at'[u] = "try" => slot'[u] # tail'
    <2>1. \A u \in Threads : at[u] = "try" /\ slot[u] = tail => ALock!Passing = {}
      BY Zenon DEF ALock!QueueInv
    <2> QED BY Zenon, <1>1, <1>2, <1>3, <2>1
  <1>8. PICK b : ALock!FromSlot(b)
    BY Zenon, ALockFacts
  <1>9. b \in 0 .. ALock!size - 1 /\ ALock!size' = ALock!size
    BY Zenon, <1>8 DEF ALock!FromSlot, ALock!size
  <1>10. (slot[t] + 1) % ALock!size = b /\ \A j \in 0 .. ALock!size - 1 : ~flag[j]
    BY Zenon, <1>3, <1>8 DEF ALock!FromSlot
  <1>11. \A j \in 0 .. ALock!size - 1 : flag'[j] <=> j = b
    BY Zenon, <1>1, <1>9, <1>10, ALockFacts DEF ALock!TypeOK
  <1>12. ALock!TypeOK'
    BY Zenon, <1>1, <1>9, <1>10, ALockFacts DEF ALock!TypeOK
  <1>13. ALock!FromSlot(b)'
    <2>1. /\ tail' % ALock!size = (b + Len(arrived')) % ALock!size
          /\ \A i \in 1 .. Len(arrived') : slot'[arrived'[i]] = (b + (i - 1)) % ALock!size
      BY Zenon, <1>1, <1>8 DEF ALock!FromSlot
    <2> QED BY Zenon, <1>5, <1>9, <1>11, <2>1 DEF ALock!FromSlot
  <1>14. \E d \in 0 .. ALock!size - 1 : ALock!FromSlot(d)'
    BY Zenon, <1>9, <1>13
  <1>15. /\ \A u \in Threads : u \in ALock!InQueue' <=> \E i \in 1 .. Len(arrived') : arrived'[i] = u
         /\ \A i, j \in 1 .. Len(arrived') : arrived'[i] = arrived'[j] => i = j
         /\ Len(arrived') = ALock!Cardinality(ALock!InQueue')
    BY ZenonT(60), <1>1, <1>5 DEF ALock!QueueInv
  <1>16. ALock!QueueInv'
    BY Zenon, <1>5, <1>6, <1>7, <1>9, <1>12, <1>14, <1>15 DEF ALock!QueueInv
  <1>17. {u \in Threads : at'[u] = "cs"} = {u \in Threads : at[u] = "cs"}
    BY Zenon, <1>6
  <1> QED BY Zenon, <1>1, <1>16, <1>17 DEF ALock!FifoLock!vars

\* The array lock lets the threads in one at a time and in the order of their
\* tickets, for any number of threads that divides the range of the tickets.
THEOREM ALockFifo ==
  ASSUME ALock!Sizes
  PROVE  ALock!Spec => ALock!Fifo
  <1>1. ALock!Init => ALock!QueueInv /\ ALock!FifoLock!Init
    <2> SUFFICES ASSUME ALock!Init PROVE ALock!QueueInv /\ ALock!FifoLock!Init
      BY Zenon
    <2>1. /\ ALock!InQueue = {} /\ ALock!Passing = {} /\ Len(arrived) = 0 /\ arrived = <<>>
          /\ \A t \in Threads : at[t] = "out"
      BY Zenon DEF ALock!Init, ALock!InQueue, ALock!Passing
    <2>2. IsFiniteSet(Threads) /\ Threads # {} /\ W \in Nat \ {0}
      BY Zenon, ALockCardinality DEF ALock!Sizes
    <2>3. ALock!size = Cardinality(Threads)
      BY Zenon, ALockCardinality DEF ALock!size
    <2>4. ALock!size \in Nat /\ ALock!size # 0
      BY Zenon, <2>2, <2>3, FS_CardinalityType, FS_EmptySet
    <2>5. ALock!TypeOK
      BY <2>2, <2>4 DEF ALock!Init, ALock!TypeOK
    <2>6. 0 \in 0 .. ALock!size - 1 /\ tail % ALock!size = (0 + Len(arrived)) % ALock!size
      BY <2>1, <2>4 DEF ALock!Init
    <2>7. \A j \in 0 .. ALock!size - 1 : flag[j] <=> j = 0
      BY Zenon DEF ALock!Init
    <2>8. 1 .. Len(arrived) = {}
      BY <2>1
    <2>9. ALock!FromSlot(0)
      BY Zenon, <2>1, <2>6, <2>7, <2>8 DEF ALock!FromSlot
    <2>10. \E b \in 0 .. ALock!size - 1 : ALock!FromSlot(b)
      BY Zenon, <2>6, <2>9
    <2>11. ALock!Cardinality(ALock!InQueue) = 0
      BY Zenon, <2>1, FS_EmptySet, ALockCardinality
    <2>12. ALock!QueueInv
      BY Zenon, <2>1, <2>5, <2>8, <2>10, <2>11 DEF ALock!QueueInv
    <2>13. {t \in Threads : at[t] = "cs"} = {}
      BY <2>1
    <2> QED BY Zenon, <2>1, <2>12, <2>13 DEF ALock!FifoLock!Init
  <1>2. ALock!QueueInv /\ [ALock!Next]_(ALock!vars)
        => ALock!QueueInv' /\ [ALock!FifoLock!Next]_(ALock!FifoLock!vars)
    <2>1. ASSUME ALock!QueueInv, UNCHANGED ALock!vars
          PROVE  ALock!QueueInv' /\ UNCHANGED ALock!FifoLock!vars
      <3>1. UNCHANGED <<tail, flag, slot, at, arrived>>
        BY Zenon, <2>1 DEF ALock!vars
      <3>2. /\ ALock!TypeOK' /\ ALock!InQueue' = ALock!InQueue /\ ALock!Passing' = ALock!Passing
            /\ UNCHANGED ALock!FifoLock!vars
        BY Zenon, <2>1, <3>1, ALockFacts
           DEF ALock!TypeOK, ALock!size, ALock!InQueue, ALock!Passing, ALock!FifoLock!vars
      <3>3. /\ \A u \in Threads : at[u] = "cs" => arrived[1] = u /\ ALock!Passing = {}
            /\ \A u \in Threads : at[u] = "try" /\ slot[u] = tail => arrived = <<>> /\ ALock!Passing = {}
        BY Zenon, <2>1 DEF ALock!QueueInv
      <3> QED BY Zenon, <2>1, <3>1, <3>2, <3>3, ALockSame
    <2>2. ASSUME ALock!QueueInv, NEW t \in Threads,
                 \/ ALock!TakeSlot(t) \/ ALock!Spin(t) \/ ALock!TryRead(t)
                 \/ ALock!TryCas(t) \/ ALock!Clear(t) \/ ALock!Pass(t)
          PROVE  ALock!QueueInv' /\ [ALock!FifoLock!Next]_(ALock!FifoLock!vars)
      BY Zenon, <2>2, ALockTake, ALockSpin, ALockTryRead, ALockTryCas, ALockClear, ALockPass
         DEF ALock!FifoLock!Next
    <2> QED BY Zenon, <2>1, <2>2 DEF ALock!Next
  <1> QED BY <1>1, <1>2, PTL DEF ALock!Spec, ALock!Fifo, ALock!FifoLock!Spec

-----------------------------------------------------------------------------
CONSTANT R

VARIABLES
  head, my_ticket, pc,     \* of Ticket, besides tail and arrived
  lock_data, aux           \* of RWTTAS, besides at

Ticket == INSTANCE Ticket

RW == INSTANCE RWTTAS

\* Ticket's cardinality is that of FiniteSets.
LEMMA TicketCardinality ==
  /\ \A S : Ticket!IsFiniteSet(S) <=> IsFiniteSet(S)
  /\ \A S : Ticket!Cardinality(S) = Cardinality(S)
  BY Zenon DEF Ticket!IsFiniteSet, IsFiniteSet, Ticket!Cardinality, Cardinality

\* The conjuncts of the invariant, and the length of the line: a thread that is not
\* in the line leaves a ticket free.
LEMMA TicketFacts ==
  ASSUME Ticket!Sizes, Ticket!QueueInv
  PROVE  /\ Ticket!TypeOK /\ arrived \in Seq(Threads) /\ Once(arrived)
         /\ \A t \in Threads : t \in Ticket!InQueue <=> In(t, arrived)
         /\ W \in Nat \ {0} /\ W >= 2
         /\ Len(arrived) \in 0 .. W - 1
         /\ IsFiniteSet(Ticket!InQueue) /\ Cardinality(Ticket!InQueue) = Len(arrived)
         /\ \A t \in Threads : t \notin Ticket!InQueue => Len(arrived) + 1 \in 0 .. W - 1
  <1>1. Ticket!TypeOK /\ arrived \in Seq(Threads) /\ W \in Nat \ {0} /\ W >= 2
    BY DEF Ticket!QueueInv, Ticket!TypeOK, Ticket!Sizes
  <1>2. Once(arrived) /\ \A t \in Threads : t \in Ticket!InQueue <=> In(t, arrived)
    BY Zenon DEF Ticket!QueueInv, Once, In
  <1>3. IsFiniteSet(Threads) /\ Cardinality(Threads) < W /\ Cardinality(Threads) \in Nat
    BY Zenon, TicketCardinality, FS_CardinalityType DEF Ticket!Sizes
  <1>4. Ticket!InQueue \subseteq Threads
    BY Zenon DEF Ticket!InQueue
  <1>5. IsFiniteSet(Ticket!InQueue) /\ Cardinality(Ticket!InQueue) = Len(arrived)
    BY Zenon, <1>3, <1>4, FS_Subset, TicketCardinality DEF Ticket!QueueInv
  <1>6. Len(arrived) \in 0 .. W - 1
    <2>1. Len(arrived) <= Cardinality(Threads)
      BY Zenon, <1>3, <1>4, <1>5, FS_Subset
    <2> QED BY <1>1, <1>3, <2>1
  <1>7. ASSUME NEW t \in Threads, t \notin Ticket!InQueue PROVE Len(arrived) + 1 \in 0 .. W - 1
    <2>1. Cardinality(Ticket!InQueue \cup {t}) = Len(arrived) + 1
      BY Zenon, <1>5, <1>7, FS_AddElement
    <2>2. Ticket!InQueue \cup {t} \in SUBSET Threads
      BY Zenon, <1>4
    <2>3. Cardinality(Ticket!InQueue \cup {t}) <= Cardinality(Threads)
      BY Zenon, <1>3, <2>2, FS_Subset
    <2> QED BY SMTT(60), <1>1, <1>3, <2>1, <2>3
  <1> QED BY ZenonT(60), <1>1, <1>2, <1>5, <1>6, <1>7

\* The first of the line, and only it, has the ticket head.
LEMMA TicketFirst ==
  ASSUME Ticket!Sizes, Ticket!QueueInv, NEW t \in Threads, t \in Ticket!InQueue, my_ticket[t] = head
  PROVE  arrived # <<>> /\ arrived[1] = t
  <1>1. PICK i \in 1 .. Len(arrived) : arrived[i] = t
    BY Zenon, TicketFacts DEF In
  <1>2. (head + (i - 1)) % W = head
    BY Zenon, <1>1 DEF Ticket!QueueInv
  <1>3. head \in 0 .. W - 1 /\ i - 1 \in 0 .. W - 1
    BY TicketFacts DEF Ticket!TypeOK
  <1>4. i - 1 = 0
    BY ZenonT(60), <1>2, <1>3, TicketFacts, WrapSucc
  <1> QED BY <1>1, <1>4, TicketFacts

\* A thread gets a ticket, by fetch-and-add or by a successful trylock.
TicketJoins(t) ==
  /\ t \notin Ticket!InQueue
  /\ tail' = Ticket!Succ(tail) /\ my_ticket' = [my_ticket EXCEPT ![t] = Ticket!Succ(tail)]
  /\ head' = head
  /\ pc' = [pc EXCEPT ![t] = IF my_ticket'[t] = head /\ pc[t] = "try" THEN "cs" ELSE "wait"]
  /\ arrived' = Append(arrived, t)

\* Getting a ticket preserves the invariant: the ticket follows those of the line.
LEMMA TicketJoin ==
  ASSUME Ticket!Sizes, Ticket!QueueInv, NEW t \in Threads, TicketJoins(t)
  PROVE  Ticket!QueueInv'
  <1>1. PICK q : arrived' = q /\ IsAppend(q, arrived, t)
    BY Zenon, TicketFacts, AppendProps DEF TicketJoins
  <1>2. Once(q) /\ \A u : In(u, q) <=> u = t \/ In(u, arrived)
    BY Zenon, <1>1, TicketFacts, AppendMembers DEF TicketJoins
  <1>3. Len(arrived) + 1 \in 0 .. W - 1 /\ Len(arrived) \in 0 .. W - 1 /\ head \in 0 .. W - 1
    BY Zenon, TicketFacts DEF TicketJoins, Ticket!TypeOK
  <1>4. /\ Ticket!Succ(tail) = (head + Len(arrived)) % W
        /\ Ticket!Succ(tail) \in 0 .. W - 1
        /\ Ticket!Succ(Ticket!Succ(tail)) = (head + (Len(arrived) + 1)) % W
    <2>1. Ticket!Succ(tail) = (head + Len(arrived)) % W
      BY Zenon DEF Ticket!QueueInv
    <2>2. /\ (head + Len(arrived)) % W \in 0 .. W - 1
          /\ (((head + Len(arrived)) % W) + 1) % W = (head + (Len(arrived) + 1)) % W
      BY ZenonT(60), <1>3, TicketFacts, WrapSucc
    <2> QED BY Zenon, <2>1, <2>2 DEF Ticket!Succ
  <1>5. Ticket!TypeOK'
    BY Zenon, <1>1, <1>4, TicketFacts DEF TicketJoins, Ticket!TypeOK, IsAppend
  <1>6. Ticket!InQueue' = Ticket!InQueue \cup {t}
    BY Zenon, TicketFacts DEF TicketJoins, Ticket!TypeOK, Ticket!InQueue
  <1>7. \A u \in Threads : u \in Ticket!InQueue' <=> In(u, q)
    BY Zenon, <1>2, <1>6, TicketFacts
  <1>8. Cardinality(Ticket!InQueue') = Len(q)
    BY Zenon, <1>1, <1>6, TicketFacts, FS_AddElement DEF TicketJoins, IsAppend
  <1>9. ASSUME NEW i \in 1 .. Len(q)
        PROVE  my_ticket'[q[i]] = (head + (i - 1)) % W
    <2>1. CASE i = Len(q)
      <3>1. q[i] = t /\ i - 1 = Len(arrived)
        BY <1>1, <2>1, TicketFacts DEF IsAppend
      <3> QED BY Zenon, <1>4, <3>1, TicketFacts DEF TicketJoins, Ticket!TypeOK
    <2>2. CASE i # Len(q)
      <3>1. i \in 1 .. Len(arrived) /\ q[i] = arrived[i]
        BY SMTT(60), <1>1, <2>2, TicketFacts DEF IsAppend
      <3>2. arrived[i] \in Threads /\ arrived[i] # t
        BY SMTT(60), <3>1, TicketFacts DEF TicketJoins, In
      <3> QED BY Zenon, <3>1, <3>2 DEF TicketJoins, Ticket!QueueInv, Ticket!TypeOK
    <2> QED BY Zenon, <2>1, <2>2
  <1>10. \A u \in Threads : pc'[u] = "cs" => my_ticket'[u] = head
    BY ZenonT(60), TicketFacts DEF TicketJoins, Ticket!QueueInv, Ticket!TypeOK
  <1>11. Ticket!Succ(tail)' = (head + Len(q)) % W
    BY Zenon, <1>1, <1>4 DEF TicketJoins, IsAppend, Ticket!Succ
  <1> QED BY SMTT(60), <1>1, <1>2, <1>5, <1>7, <1>8, <1>9, <1>10, <1>11, TicketCardinality
        DEF TicketJoins, Ticket!QueueInv, Once, In

\* The fetch-and-add of ticket_acquire puts the thread at the end of the line.
LEMMA TicketTake ==
  ASSUME Ticket!Sizes, Ticket!QueueInv, NEW t \in Threads, Ticket!TakeTicket(t)
  PROVE  Ticket!QueueInv' /\ Ticket!FifoLock!Arrive(t)
  <1>1. pc[t] = "out" /\ t \notin Ticket!InQueue /\ ~In(t, arrived)
    BY Zenon, TicketFacts DEF Ticket!TakeTicket, Ticket!InQueue
  <1>2. TicketJoins(t)
    BY Zenon, <1>1 DEF TicketJoins, Ticket!TakeTicket
  <1>3. Ticket!FifoLock!Arrive(t)
    BY <1>1, TicketFacts DEF Ticket!FifoLock!Arrive, Ticket!TakeTicket, Ticket!TypeOK, In
  <1> QED BY Zenon, <1>2, <1>3, TicketJoin

\* Steps that keep the line and the counters.
LEMMA TicketSame ==
  ASSUME Ticket!Sizes, Ticket!QueueInv, Ticket!TypeOK', UNCHANGED <<head, tail, arrived>>,
         Ticket!InQueue' = Ticket!InQueue,
         \A u \in Ticket!InQueue : my_ticket'[u] = my_ticket[u],
         \A u \in Threads : pc'[u] = "cs" => my_ticket'[u] = head
  PROVE  Ticket!QueueInv'
  <1>1. \A i \in 1 .. Len(arrived) : my_ticket'[arrived[i]] = (head + (i - 1)) % W
    <2> SUFFICES ASSUME NEW i \in 1 .. Len(arrived)
                 PROVE  my_ticket'[arrived[i]] = (head + (i - 1)) % W
      BY Zenon
    <2>1. arrived[i] \in Ticket!InQueue
      BY DEF Ticket!QueueInv, Ticket!TypeOK
    <2> QED BY Zenon, <2>1 DEF Ticket!QueueInv
  <1> QED BY ZenonT(60), <1>1 DEF Ticket!QueueInv, Ticket!Succ

\* A thread that finds its ticket at the head is the first of the line, and nobody
\* holds the lock.
LEMMA TicketTurn ==
  ASSUME Ticket!Sizes, Ticket!QueueInv, NEW t \in Threads, Ticket!Turn(t)
  PROVE  Ticket!QueueInv' /\ Ticket!FifoLock!Enter(t)
  <1>1. Ticket!TypeOK' /\ Ticket!InQueue' = Ticket!InQueue
    BY Zenon, TicketFacts DEF Ticket!Turn, Ticket!TypeOK, Ticket!InQueue
  <1>2. \A u \in Threads : pc'[u] = "cs" => my_ticket'[u] = head
    BY Zenon, TicketFacts DEF Ticket!Turn, Ticket!TypeOK, Ticket!QueueInv
  <1>3. Ticket!QueueInv'
    BY Zenon, <1>1, <1>2, TicketSame DEF Ticket!Turn
  <1>4. arrived # <<>> /\ arrived[1] = t
    BY Zenon, TicketFirst DEF Ticket!Turn, Ticket!InQueue
  <1>5. \A u \in Threads : pc[u] # "cs"
    <2> SUFFICES ASSUME NEW u \in Threads, pc[u] = "cs" PROVE FALSE
      BY Zenon
    <2>1. my_ticket[u] = head /\ u \in Ticket!InQueue
      BY Zenon DEF Ticket!QueueInv, Ticket!InQueue
    <2>2. arrived[1] = u
      BY Zenon, <2>1, TicketFirst
    <2> QED BY Zenon, <1>4, <2>2 DEF Ticket!Turn
  <1>6. Ticket!FifoLock!Enter(t)
    BY <1>4, <1>5, TicketFacts DEF Ticket!FifoLock!Enter, Ticket!Turn, Ticket!TypeOK
  <1> QED BY Zenon, <1>3, <1>6

\* The read of the tail in ticket_trylock is invisible.
LEMMA TicketTryRead ==
  ASSUME Ticket!Sizes, Ticket!QueueInv, NEW t \in Threads, Ticket!TryRead(t)
  PROVE  Ticket!QueueInv' /\ UNCHANGED Ticket!FifoLock!vars
  <1>1. Ticket!Succ(tail) \in 0 .. W - 1
    BY SMTT(60), TicketFacts DEF Ticket!Succ, Ticket!TypeOK
  <1>2. Ticket!TypeOK'
    BY Zenon, <1>1, TicketFacts DEF Ticket!TryRead, Ticket!TypeOK
  <1>3. /\ \A u \in Threads : u # t => pc'[u] = pc[u] /\ my_ticket'[u] = my_ticket[u]
        /\ pc[t] = "out" /\ pc'[t] = "try" /\ UNCHANGED <<head, tail, arrived>>
    BY Zenon, TicketFacts DEF Ticket!TryRead, Ticket!TypeOK
  <1>4. Ticket!InQueue' = Ticket!InQueue
    BY Zenon, <1>3 DEF Ticket!InQueue
  <1>5. \A u \in Ticket!InQueue : my_ticket'[u] = my_ticket[u]
    BY Zenon, <1>3 DEF Ticket!InQueue
  <1>6. \A u \in Threads : pc'[u] = "cs" => my_ticket'[u] = head
    BY Zenon, <1>3 DEF Ticket!QueueInv
  <1> QED BY ZenonT(60), <1>2, <1>3, <1>4, <1>5, <1>6, TicketSame DEF Ticket!FifoLock!vars

\* The compare-and-swap of ticket_trylock succeeds only when the line is empty.
LEMMA TicketTryCas ==
  ASSUME Ticket!Sizes, Ticket!QueueInv, NEW t \in Threads, Ticket!TryCas(t)
  PROVE  Ticket!QueueInv' /\ (Ticket!FifoLock!TryEnter(t) \/ UNCHANGED Ticket!FifoLock!vars)
  <1>1. pc[t] = "try" /\ t \notin Ticket!InQueue /\ Ticket!TypeOK
    BY ZenonT(60), TicketFacts DEF Ticket!TryCas, Ticket!InQueue
  <1>2. CASE head = my_ticket[t] /\ Ticket!Succ(tail) = my_ticket[t]
    <2>1. /\ tail' = my_ticket[t] /\ pc' = [pc EXCEPT ![t] = "cs"]
          /\ arrived' = Append(arrived, t) /\ UNCHANGED <<head, my_ticket>>
      BY Zenon, <1>2 DEF Ticket!TryCas
    <2>2. TicketJoins(t)
      BY Zenon, <1>1, <1>2, <2>1 DEF TicketJoins, Ticket!TypeOK
    <2>3. Len(arrived) = 0
      <3>1. (head + Len(arrived)) % W = head
        BY Zenon, <1>2 DEF Ticket!QueueInv
      <3> QED BY ZenonT(60), <1>1, <3>1, TicketFacts, WrapSucc DEF Ticket!TypeOK
    <2>4. arrived = <<>>
      BY <2>3, TicketFacts
    <2>5. \A u \in Threads : pc[u] # "cs"
      BY <2>4, TicketFacts DEF In, Ticket!InQueue
    <2>6. Ticket!FifoLock!TryEnter(t)
      BY SMTT(60), <1>1, <2>1, <2>4, <2>5 DEF Ticket!FifoLock!TryEnter, Ticket!TypeOK
    <2> QED BY Zenon, <2>2, <2>6, TicketJoin
  <1>3. CASE ~(head = my_ticket[t] /\ Ticket!Succ(tail) = my_ticket[t])
    <2>1. pc' = [pc EXCEPT ![t] = "out"] /\ UNCHANGED <<head, tail, my_ticket, arrived>>
      BY Zenon, <1>3 DEF Ticket!TryCas
    <2>2. Ticket!TypeOK' /\ Ticket!InQueue' = Ticket!InQueue
      BY Zenon, <1>1, <2>1 DEF Ticket!TypeOK, Ticket!InQueue
    <2>3. \A u \in Threads : pc'[u] = "cs" <=> pc[u] = "cs"
      BY Zenon, <1>1, <2>1 DEF Ticket!TypeOK
    <2>4. \A u \in Threads : pc'[u] = "cs" => my_ticket'[u] = head
      BY Zenon, <2>1, <2>3 DEF Ticket!QueueInv
    <2> QED BY Zenon, <2>1, <2>2, <2>3, <2>4, TicketSame DEF Ticket!FifoLock!vars
  <1> QED BY Zenon, <1>2, <1>3

\* The release moves the head to the ticket of the next of the line.
LEMMA TicketRelease ==
  ASSUME Ticket!Sizes, Ticket!QueueInv, NEW t \in Threads, Ticket!Release(t)
  PROVE  Ticket!QueueInv' /\ Ticket!FifoLock!Leave(t)
  <1>1. /\ pc[t] = "cs" /\ pc' = [pc EXCEPT ![t] = "out"] /\ head' = Ticket!Succ(head)
        /\ arrived' = Tail(arrived) /\ UNCHANGED <<tail, my_ticket>>
    BY Zenon DEF Ticket!Release
  <1>2. my_ticket[t] = head /\ t \in Ticket!InQueue
    BY Zenon, <1>1 DEF Ticket!QueueInv, Ticket!InQueue
  <1>3. arrived # <<>> /\ arrived[1] = t
    BY Zenon, <1>2, TicketFirst
  <1>4. \A u \in Threads : pc[u] = "cs" => u = t
    <2> SUFFICES ASSUME NEW u \in Threads, pc[u] = "cs" PROVE u = t
      BY Zenon
    <2>1. my_ticket[u] = head /\ u \in Ticket!InQueue
      BY Zenon DEF Ticket!QueueInv, Ticket!InQueue
    <2> QED BY Zenon, <1>3, <2>1, TicketFirst
  <1>5. PICK q : arrived' = q /\ IsTail(q, arrived)
    BY Zenon, <1>1, <1>3, TicketFacts, TailProps
  <1>6. Once(q) /\ \A u : In(u, q) <=> u # t /\ In(u, arrived)
    BY Zenon, <1>3, <1>5, TicketFacts, TailMembers
  <1>7. Ticket!FifoLock!Leave(t)
    BY Zenon, <1>1, <1>4, TicketFacts DEF Ticket!FifoLock!Leave, Ticket!TypeOK
  <1>8. head \in 0 .. W - 1 /\ Ticket!Succ(head) \in 0 .. W - 1 /\ W \in Nat \ {0}
    BY SMTT(60), TicketFacts DEF Ticket!TypeOK, Ticket!Succ
  <1>9. Ticket!TypeOK'
    BY Zenon, <1>1, <1>5, <1>8, TicketFacts DEF Ticket!TypeOK, IsTail
  <1>10. Ticket!InQueue' = Ticket!InQueue \ {t}
    BY Zenon, <1>1, TicketFacts DEF Ticket!TypeOK, Ticket!InQueue
  <1>11. \A u \in Threads : u \in Ticket!InQueue' <=> In(u, q)
    BY Zenon, <1>6, <1>10, TicketFacts
  <1>12. Cardinality(Ticket!InQueue') = Len(q)
    BY Zenon, <1>2, <1>5, <1>10, TicketFacts, FS_RemoveElement DEF IsTail
  <1>13. \A n \in 0 .. W - 1 : (head' + n) % W = (head + (n + 1)) % W
    BY ZenonT(60), <1>1, <1>8, WrapSucc DEF Ticket!Succ
  <1>14. ASSUME NEW i \in 1 .. Len(q)
         PROVE  my_ticket'[q[i]] = (head' + (i - 1)) % W
    <2>1. i + 1 \in 1 .. Len(arrived) /\ i - 1 \in 0 .. W - 1 /\ (i - 1) + 1 = (i + 1) - 1
      BY <1>5, TicketFacts DEF IsTail
    <2>2. q[i] = arrived[i + 1]
      BY Zenon, <1>5, <2>1, TicketFacts DEF IsTail
    <2>3. my_ticket[arrived[i + 1]] = (head + ((i + 1) - 1)) % W
      BY Zenon, <2>1 DEF Ticket!QueueInv
    <2>4. (head' + (i - 1)) % W = (head + ((i - 1) + 1)) % W
      BY Zenon, <1>13, <2>1
    <2> QED BY Zenon, <1>1, <2>1, <2>2, <2>3, <2>4
  <1>15. Ticket!Succ(tail)' = (head' + Len(q)) % W
    <2>1. Len(q) \in 0 .. W - 1 /\ Len(q) + 1 = Len(arrived)
      BY SMTT(60), <1>3, <1>5, TicketFacts, NotEmpty DEF IsTail
    <2>2. (head' + Len(q)) % W = (head + (Len(q) + 1)) % W
      BY Zenon, <1>13, <2>1
    <2>3. Ticket!Succ(tail)' = Ticket!Succ(tail)
      BY Zenon, <1>1 DEF Ticket!Succ
    <2> QED BY Zenon, <2>1, <2>2, <2>3 DEF Ticket!QueueInv
  <1>16. \A u \in Threads : pc'[u] # "cs"
    BY Zenon, <1>1, <1>4, TicketFacts DEF Ticket!TypeOK
  <1> QED BY ZenonT(60), <1>5, <1>6, <1>7, <1>9, <1>11, <1>12, <1>14, <1>15, <1>16, TicketCardinality
        DEF Ticket!QueueInv, Once, In

\* The ticket lock lets the threads in one at a time and in the order of their
\* tickets, for any finite set of threads smaller than the range of the tickets.
THEOREM TicketFifo ==
  ASSUME Ticket!Sizes
  PROVE  Ticket!Spec => Ticket!Fifo
  <1>1. Ticket!Init => Ticket!QueueInv /\ Ticket!FifoLock!Init
    <2> SUFFICES ASSUME Ticket!Init PROVE Ticket!QueueInv /\ Ticket!FifoLock!Init
      BY Zenon
    <2>1. Ticket!InQueue = {} /\ Cardinality({}) = 0 /\ Len(arrived) = 0
      BY Zenon, FS_EmptySet DEF Ticket!Init, Ticket!InQueue
    <2>2. Ticket!Succ(tail) = (head + Len(arrived)) % W
      BY <2>1 DEF Ticket!Init, Ticket!Sizes, Ticket!Succ
    <2>3. Ticket!TypeOK
      BY DEF Ticket!Init, Ticket!Sizes, Ticket!TypeOK
    <2> QED BY SMTT(60), <2>1, <2>2, <2>3, TicketCardinality DEF Ticket!Init, Ticket!QueueInv, Ticket!FifoLock!Init
  <1>2. Ticket!QueueInv /\ [Ticket!Next]_(Ticket!vars)
        => Ticket!QueueInv' /\ [Ticket!FifoLock!Next]_(Ticket!FifoLock!vars)
    <2>1. ASSUME Ticket!QueueInv, UNCHANGED Ticket!vars
          PROVE  Ticket!QueueInv' /\ UNCHANGED Ticket!FifoLock!vars
      BY Zenon, <2>1 DEF Ticket!QueueInv, Ticket!TypeOK, Ticket!InQueue, Ticket!Succ, Ticket!vars, Ticket!FifoLock!vars
    <2>2. ASSUME Ticket!QueueInv, NEW t \in Threads,
                 Ticket!TakeTicket(t) \/ Ticket!Turn(t) \/ Ticket!TryRead(t) \/ Ticket!TryCas(t) \/ Ticket!Release(t)
          PROVE  Ticket!QueueInv' /\ [Ticket!FifoLock!Next]_(Ticket!FifoLock!vars)
      BY SMTT(60), <2>2, TicketTake, TicketTurn, TicketTryRead, TicketTryCas, TicketRelease DEF Ticket!FifoLock!Next
    <2> QED BY <2>1, <2>2 DEF Ticket!Next
  <1> QED BY <1>1, <1>2, PTL DEF Ticket!Spec, Ticket!Fifo, Ticket!FifoLock!Spec
-----------------------------------------------------------------------------
\* RWTTAS's cardinality is that of FiniteSets.
LEMMA RWCardinality ==
  /\ \A S : RW!IsFiniteSet(S) <=> IsFiniteSet(S)
  /\ \A S : RW!Cardinality(S) = Cardinality(S)
  BY Zenon DEF RW!IsFiniteSet, IsFiniteSet, RW!Cardinality, Cardinality

\* The readers are finitely many.
LEMMA RWFinite ==
  ASSUME RW!Sizes
  PROVE  IsFiniteSet(RW!In("read")) /\ Cardinality(RW!In("read")) \in Nat
  <1>1. RW!In("read") \in SUBSET Threads
    BY Zenon DEF RW!In
  <1>2. IsFiniteSet(RW!In("read"))
    BY Zenon, <1>1, RWCardinality, FS_Subset DEF RW!Sizes
  <1> QED BY Zenon, <1>2, FS_CardinalityType

\* A step that keeps the word and the threads that hold the lock.
LEMMA RWSame ==
  ASSUME RW!WordInv, RW!TypeOK', lock_data' = lock_data,
         RW!In("read")' = RW!In("read"), RW!In("write")' = RW!In("write")
  PROVE  RW!WordInv'
  <1>1. \A t, u \in Threads : at'[t] = "write" /\ at'[u] = "write" => t = u
    BY Zenon DEF RW!WordInv, RW!In
  <1> QED BY Zenon, <1>1 DEF RW!WordInv

\* read_acquire's look at the word changes nothing but what the reader saw.
LEMMA RWReadWord ==
  ASSUME RW!Sizes, RW!WordInv, NEW t \in Threads, RW!ReadWord(t)
  PROVE  RW!WordInv'
  <1>1. lock_data % R \in 0 .. R - 1
    BY DEF RW!Sizes, RW!WordInv, RW!TypeOK
  <1>2. RW!TypeOK' /\ lock_data' = lock_data
    BY Zenon, <1>1 DEF RW!ReadWord, RW!Move, RW!WordInv, RW!TypeOK
  <1>3. RW!In("read")' = RW!In("read") /\ RW!In("write")' = RW!In("write")
    BY Zenon DEF RW!ReadWord, RW!Move, RW!WordInv, RW!TypeOK, RW!In
  <1> QED BY Zenon, <1>2, <1>3, RWSame

\* The reader's compare-and-swap counts it, if no writer holds the lock.
LEMMA RWReadCas ==
  ASSUME RW!Sizes, RW!WordInv, NEW t \in Threads, RW!ReadCas(t)
  PROVE  RW!WordInv'
  <1>0. RW!TypeOK /\ at[t] = "rcas" /\ 0 \in 0 .. R - 1
    BY DEF RW!ReadCas, RW!Move, RW!WordInv, RW!Sizes
  <1>1. CASE lock_data = aux[t]
    <2>1. /\ lock_data' = lock_data + 1 /\ lock_data \in 0 .. R - 1
          /\ at' = [at EXCEPT ![t] = "read"] /\ aux' = [aux EXCEPT ![t] = 0]
      BY Zenon, <1>0, <1>1 DEF RW!ReadCas, RW!Move, RW!TypeOK
    <2>2. RW!TypeOK'
      BY <1>0, <2>1 DEF RW!TypeOK, RW!Sizes
    <2>3. RW!In("write") = {} /\ lock_data = Cardinality(RW!In("read"))
      BY <2>1, RWCardinality DEF RW!WordInv, RW!Sizes
    <2>4. /\ RW!In("write")' = {} /\ RW!In("read")' = RW!In("read") \cup {t}
          /\ t \notin RW!In("read")
      BY Zenon, <1>0, <2>1, <2>3 DEF RW!In, RW!TypeOK
    <2>5. Cardinality(RW!In("read")') = lock_data + 1
      BY ZenonT(60), <2>3, <2>4, RWFinite, FS_AddElement
    <2>6. \A u, w \in Threads : at'[u] = "write" /\ at'[w] = "write" => u = w
      BY Zenon, <2>4 DEF RW!In
    <2> QED BY ZenonT(60), <2>1, <2>2, <2>4, <2>5, <2>6, RWCardinality DEF RW!WordInv
  <1>2. CASE lock_data # aux[t]
    <2>1. /\ lock_data' = lock_data
          /\ at' = [at EXCEPT ![t] = "rspin"] /\ aux' = [aux EXCEPT ![t] = 0]
      BY Zenon, <1>0, <1>2 DEF RW!ReadCas, RW!Move
    <2>2. RW!TypeOK'
      BY Zenon, <1>0, <2>1 DEF RW!TypeOK
    <2>3. RW!In("read")' = RW!In("read") /\ RW!In("write")' = RW!In("write")
      BY Zenon, <1>0, <2>1 DEF RW!TypeOK, RW!In
    <2> QED BY Zenon, <2>1, <2>2, <2>3, RWSame
  <1> QED BY Zenon, <1>1, <1>2

\* The decrement of read_release does not borrow from the writer's digit.
LEMMA Borrow ==
  ASSUME NEW n \in Nat, NEW k \in Nat, k < n
  PROVE  (k + n) % n = k
  OBVIOUS

\* A reader that leaves is counted off; the word is not zero, so it does not wrap.
LEMMA RWReadRelease ==
  ASSUME RW!Sizes, RW!WordInv, NEW t \in Threads, RW!read_release(t)
  PROVE  RW!WordInv'
  <1>1. /\ RW!TypeOK /\ at[t] = "read" /\ at' = [at EXCEPT ![t] = "out"]
        /\ lock_data' = (lock_data + R * R - 1) % (R * R) /\ aux' = aux
    BY Zenon DEF RW!read_release, RW!Move, RW!WordInv
  <1>2. t \in RW!In("read")
    BY Zenon, <1>1 DEF RW!In
  <1>3. RW!In("write") = {} /\ lock_data = Cardinality(RW!In("read"))
    BY Zenon, <1>2, RWCardinality DEF RW!WordInv
  <1>4. lock_data # 0
    BY Zenon, <1>2, <1>3, RWFinite, FS_EmptySet
  <1>5. lock_data' = lock_data - 1
    <2>1. lock_data - 1 \in Nat /\ lock_data \in Nat /\ lock_data <= R /\ R \in Nat /\ R >= 2
      BY <1>1, <1>4 DEF RW!TypeOK, RW!Sizes
    <2>2. R <= R * R /\ R * R \in Nat
      BY <2>1
    <2>3. PICK n \in Nat : n = R * R /\ lock_data - 1 < n
      BY <2>1, <2>2
    <2>4. (lock_data + n - 1) = (lock_data - 1) + n
      BY <2>1
    <2> QED BY ZenonT(60), <1>1, <2>1, <2>3, <2>4, Borrow
  <1>6. RW!TypeOK'
    BY <1>1, <1>4, <1>5 DEF RW!TypeOK, RW!Sizes
  <1>7. RW!In("write")' = {} /\ RW!In("read")' = RW!In("read") \ {t}
    BY Zenon, <1>1, <1>3 DEF RW!In, RW!TypeOK
  <1>8. Cardinality(RW!In("read")') = lock_data - 1
    BY Zenon, <1>2, <1>3, <1>7, RWFinite, FS_RemoveElement
  <1>9. \A u, w \in Threads : at'[u] = "write" /\ at'[w] = "write" => u = w
    BY Zenon, <1>7 DEF RW!In
  <1> QED BY Zenon, <1>5, <1>6, <1>7, <1>8, <1>9, RWCardinality DEF RW!WordInv

\* The writer's compare-and-swap, by write_acquire or rw_trylock: it finds the
\* word zero, so nobody holds the lock.
LEMMA RWWrite ==
  ASSUME RW!Sizes, RW!WordInv, NEW t \in Threads, lock_data = 0, lock_data' = R,
         at[t] \in {"out", "wcas"}, at' = [at EXCEPT ![t] = "write"], aux' = aux
  PROVE  RW!WordInv'
  <1>1. RW!In("write") = {} /\ Cardinality(RW!In("read")) = 0
    BY RWCardinality DEF RW!WordInv, RW!Sizes
  <1>2. RW!In("read") = {}
    BY Zenon, <1>1, RWFinite, FS_EmptySet
  <1>3. RW!TypeOK'
    BY DEF RW!WordInv, RW!TypeOK, RW!Sizes
  <1>4. RW!In("read")' = {} /\ RW!In("write")' = {t}
    BY Zenon, <1>1, <1>2 DEF RW!WordInv, RW!TypeOK, RW!In
  <1>5. \A u, w \in Threads : at'[u] = "write" /\ at'[w] = "write" => u = w
    BY <1>4 DEF RW!In
  <1> QED BY Zenon, <1>3, <1>4, <1>5 DEF RW!WordInv

\* The writer stores zero: there are no readers to count.
LEMMA RWWriteRelease ==
  ASSUME RW!Sizes, RW!WordInv, NEW t \in Threads, RW!write_release(t)
  PROVE  RW!WordInv'
  <1>1. RW!TypeOK' /\ lock_data' = 0
    BY DEF RW!write_release, RW!Move, RW!WordInv, RW!TypeOK, RW!Sizes
  <1>2. RW!In("read")' = {} /\ RW!In("write")' = {}
    BY Zenon DEF RW!write_release, RW!Move, RW!WordInv, RW!TypeOK, RW!In
  <1>3. Cardinality(RW!In("read")') = 0
    BY Zenon, <1>2, FS_EmptySet
  <1>4. \A u, w \in Threads : at'[u] = "write" /\ at'[w] = "write" => u = w
    BY Zenon, <1>2 DEF RW!In
  <1> QED BY ZenonT(60), <1>1, <1>2, <1>3, <1>4, RWCardinality DEF RW!WordInv

\* Retrying changes neither the word nor the holders.
LEMMA RWWait ==
  ASSUME RW!WordInv, NEW t \in Threads,
         RW!Call(t) \/ RW!WriteSpin(t) \/ (lock_data # 0 /\ RW!WriteCas(t))
  PROVE  RW!WordInv'
  <1>1. RW!TypeOK' /\ lock_data' = lock_data
    BY Zenon DEF RW!Call, RW!WriteSpin, RW!WriteCas, RW!Move, RW!WordInv, RW!TypeOK
  <1>2. RW!In("read")' = RW!In("read") /\ RW!In("write")' = RW!In("write")
    BY Zenon DEF RW!Call, RW!WriteSpin, RW!WriteCas, RW!Move, RW!WordInv, RW!TypeOK, RW!In
  <1> QED BY Zenon, <1>1, <1>2, RWSame

\* The read-write lock lets in one writer, or any number of readers, never both.
THEOREM ReadWriteExclusion ==
  ASSUME RW!Sizes
  PROVE  RW!Spec => []RW!Exclusion
  <1>1. RW!Init => RW!WordInv
    <2> SUFFICES ASSUME RW!Init PROVE RW!WordInv
      BY Zenon
    <2>1. RW!In("read") = {} /\ RW!In("write") = {}
      BY Zenon DEF RW!Init, RW!In
    <2>2. Cardinality(RW!In("read")) = 0
      BY Zenon, <2>1, FS_EmptySet
    <2> QED BY <2>1, <2>2, RWCardinality DEF RW!Init, RW!WordInv, RW!TypeOK, RW!Sizes
  <1>2. RW!WordInv /\ [RW!Next]_(RW!vars) => RW!WordInv'
    <2> SUFFICES ASSUME RW!WordInv, [RW!Next]_(RW!vars) PROVE RW!WordInv'
      BY Zenon
    <2>1. CASE UNCHANGED RW!vars
      BY Zenon, <2>1 DEF RW!vars, RW!WordInv, RW!TypeOK, RW!In
    <2>2. ASSUME NEW t \in Threads, RW!Step(t) \/ RW!Call(t) \/ RW!rw_trylock(t)
          PROVE  RW!WordInv'
      <3>1. CASE lock_data = 0 /\ RW!WriteCas(t)
        BY Zenon, <3>1, RWWrite DEF RW!WriteCas, RW!Move, RW!W_MASK
      <3>2. CASE RW!rw_trylock(t)
        BY Zenon, <3>2, RWWrite DEF RW!rw_trylock, RW!Move, RW!W_MASK
      <3> QED BY ZenonT(60), <2>2, <3>1, <3>2, RWReadWord, RWReadCas, RWReadRelease, RWWriteRelease, RWWait
             DEF RW!Step
    <2> QED BY Zenon, <2>1, <2>2 DEF RW!Next
  <1>3. RW!WordInv => RW!Exclusion
    <2> SUFFICES ASSUME RW!WordInv, RW!In("write") # {}
                 PROVE  Cardinality(RW!In("write")) = 1 /\ RW!In("read") = {}
      BY Zenon, RWCardinality DEF RW!Exclusion
    <2>1. PICK t \in Threads : RW!In("write") = {t}
      BY DEF RW!WordInv, RW!In
    <2>2. Cardinality(RW!In("write")) = 1
      BY Zenon, <2>1, FS_Singleton
    <2>3. RW!In("read") = {}
      BY Zenon DEF RW!WordInv
    <2> QED BY Zenon, <2>2, <2>3
  <1> QED BY <1>1, <1>2, <1>3, PTL DEF RW!Spec
=============================================================================
