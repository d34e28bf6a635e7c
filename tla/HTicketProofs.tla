--------------------------- MODULE HTicketProofs ----------------------------
(***************************************************************************)
(* The hierarchical ticket lock keeps threads apart and passes the lock on *)
(* within a socket no more often than it has tickets, for any finite set   *)
(* of threads and sockets.  The inductive invariant, TicketInv, has a part *)
(* on the queue of the global lock (LineRight) and one on the tickets of a *)
(* socket (SocketRight).                                                   *)
(*                                                                         *)
(* What is hard is Refill: new tickets must not go out while old ones are  *)
(* waited with.  A thread that refills has seen cur at NB_TICKETS_LOCAL,   *)
(* which is also its value while a full set of tickets is in use.  That    *)
(* this is not the set it sees rests on the number of threads: if all of   *)
(* the tickets were waited with, one thread kept them and another were to  *)
(* refill, the socket would have NB_TICKETS_LOCAL + 2 threads (HCrowd).    *)
(***************************************************************************)
EXTENDS HTicket, FiniteSetTheorems, TLAPS

\* The number of tickets of a socket.
NB == NB_TICKETS_LOCAL

\* What is assumed of the sizes.
LEMMA HSizes ==
  ASSUME Sizes
  PROVE  /\ IsFiniteSet(Threads) /\ Cardinality(Threads) \in Nat /\ Cardinality(Threads) < W
         /\ W \in Nat \ {0} /\ NB \in Nat
         /\ \A t \in Threads : htlock_node_mine[t] \in Sockets /\ t \in Of(htlock_node_mine[t])
         /\ \A s : Of(s) \subseteq Threads /\ IsFiniteSet(Of(s))
         /\ \A s \in Sockets : Cardinality(Of(s)) \in Nat /\ Cardinality(Of(s)) <= NB + 1
  <1>1. /\ IsFiniteSet(Threads) /\ Cardinality(Threads) \in Nat /\ Cardinality(Threads) < W
        /\ W \in Nat /\ NB \in Nat
    BY Zenon, FS_CardinalityType DEF Sizes, NB
  <1>2. W \in Nat \ {0}
    BY <1>1
  <1>3. \A t \in Threads : htlock_node_mine[t] \in Sockets /\ t \in Of(htlock_node_mine[t])
    BY Zenon DEF Sizes, Of
  <1>4. \A s : Of(s) \in SUBSET Threads
    BY Zenon DEF Of
  <1>5. \A s : IsFiniteSet(Of(s))
    BY Zenon, <1>1, <1>4, FS_Subset
  <1>6. \A s \in Sockets : Cardinality(Of(s)) \in Nat /\ Cardinality(Of(s)) <= NB + 1
    BY Zenon, <1>5, FS_CardinalityType DEF Sizes, NB
  <1> QED BY Zenon, <1>1, <1>2, <1>3, <1>4, <1>5, <1>6

\* A socket has not so many threads that two of them do not wait when all of its
\* tickets are waited with.
LEMMA HCrowd ==
  ASSUME Sizes, NEW s \in Sockets, NEW a \in Of(s), NEW b \in Of(s), a # b,
         at[a] # "local", at[b] # "local", \A k \in 0 .. NB - 1 : Waits(s, k)
  PROVE  FALSE
  <1> DEFINE Waiter(k) == CHOOSE u \in Of(s) : at[u] = "local" /\ ticket[u] = k
             f == [k \in 0 .. NB + 1 |-> IF k = NB THEN a ELSE IF k = NB + 1 THEN b ELSE Waiter(k)]
  <1>0. /\ NB \in Nat /\ IsFiniteSet(Of(s))
        /\ Cardinality(Of(s)) \in Nat /\ Cardinality(Of(s)) <= NB + 1
    BY Zenon, HSizes
  <1>1. \A k \in 0 .. NB - 1 : Waiter(k) \in Of(s) /\ at[Waiter(k)] = "local" /\ ticket[Waiter(k)] = k
    BY Zenon DEF Waits
  <1> HIDE DEF Waiter
  <1>2. \A k \in 0 .. NB + 1 : k # NB /\ k # NB + 1 => k \in 0 .. NB - 1
    BY <1>0
  <1>3. f \in [0 .. NB + 1 -> Of(s)]
    BY Zenon, <1>1, <1>2
  <1>4. NB # NB + 1
    BY <1>0
  <1>5. \A k \in 0 .. NB + 1 :
          /\ k = NB => f[k] = a
          /\ k = NB + 1 => f[k] = b
          /\ k # NB /\ k # NB + 1 => k \in 0 .. NB - 1 /\ f[k] = Waiter(k)
    BY Zenon, <1>2, <1>4
  <1> HIDE DEF f
  <1>6. ASSUME NEW j \in 0 .. NB + 1, NEW k \in 0 .. NB + 1, f[j] = f[k]
        PROVE  j = k
    <2>1. \A i \in 0 .. NB + 1 : i # NB /\ i # NB + 1 => at[f[i]] = "local" /\ ticket[f[i]] = i
      <3> SUFFICES ASSUME NEW i \in 0 .. NB + 1, i # NB, i # NB + 1
                   PROVE  at[f[i]] = "local" /\ ticket[f[i]] = i
        OBVIOUS
      <3>1. i \in 0 .. NB - 1 /\ f[i] = Waiter(i)
        BY Zenon, <1>5
      <3>2. at[Waiter(i)] = "local" /\ ticket[Waiter(i)] = i
        BY Zenon, <1>1, <3>1
      <3> QED BY Zenon, <3>1, <3>2
    <2>2. f[NB] = a /\ f[NB + 1] = b /\ f[j] = f[k]
      BY <1>0, <1>5, <1>6
    <2>3. CASE j = NB
      BY Zenon, <2>1, <2>2, <2>3
    <2>4. CASE j = NB + 1
      BY Zenon, <2>1, <2>2, <2>4
    <2>5. CASE j # NB /\ j # NB + 1
      <3>1. at[f[j]] = "local" /\ ticket[f[j]] = j
        BY Zenon, <2>1, <2>5
      <3>2. k # NB /\ k # NB + 1
        BY Zenon, <2>2, <3>1
      <3>3. ticket[f[k]] = k
        BY Zenon, <2>1, <3>2
      <3> QED BY Zenon, <2>2, <3>1, <3>3
    <2> QED BY Zenon, <2>3, <2>4, <2>5
  <1>7. f \in Injection(0 .. NB + 1, Of(s))
    BY Zenon, <1>3, <1>6 DEF Injection, IsInjective
  <1>8. Cardinality(0 .. NB + 1) <= Cardinality(Of(s))
    BY Zenon, <1>0, <1>7, FS_Injection
  <1>9. Cardinality(0 .. NB + 1) = NB + 2
    <2>1. 0 \in Int /\ NB + 1 \in Int /\ ~(0 > NB + 1) /\ (NB + 1) - 0 + 1 = NB + 2
      BY <1>0
    <2> QED BY Zenon, <2>1, FS_Interval
  <1> QED BY <1>0, <1>8, <1>9
-----------------------------------------------------------------------------
\* Distances on the ring of global tickets.
LEMMA HAhead ==
  ASSUME Sizes, TypeOK, NEW n \in 0 .. W - 1
  PROVE  /\ Ahead(n) \in 0 .. W - 1
         /\ global.cur \in 0 .. W - 1 /\ global.nxt \in 0 .. W - 1
         /\ Ahead(n) = 0 <=> n = global.cur
  <1>1. W \in Nat \ {0} /\ global.cur \in 0 .. W - 1 /\ global.nxt \in 0 .. W - 1
    BY HSizes DEF TypeOK
  <1> QED BY <1>1 DEF Ahead

\* A new ticket is one further away.
LEMMA HAheadNext ==
  ASSUME Sizes, TypeOK, global'.cur = global.cur, global'.nxt = (global.nxt + 1) % W,
         Ahead(global.nxt) + 1 < W
  PROVE  /\ \A n : Ahead(n)' = Ahead(n)
         /\ Ahead(global.nxt)' = Ahead(global.nxt) + 1
  <1>1. W \in Nat \ {0} /\ global.cur \in 0 .. W - 1 /\ global.nxt \in 0 .. W - 1
    BY Zenon, HSizes, HAhead DEF TypeOK
  <1>2. global'.nxt = IF global.nxt + 1 = W THEN 0 ELSE global.nxt + 1
    BY <1>1
  <1>3. \A n : Ahead(n)' = Ahead(n)
    BY Zenon DEF Ahead
  <1>4. Ahead(global'.nxt) = Ahead(global.nxt) + 1
    BY <1>1, <1>2 DEF Ahead
  <1> QED BY Zenon, <1>3, <1>4 DEF Ahead

\* A release brings the tickets one nearer.
LEMMA HAheadCur ==
  ASSUME Sizes, TypeOK, global'.cur = (global.cur + 1) % W, NEW n \in 0 .. W - 1, Ahead(n) > 0
  PROVE  Ahead(n)' = Ahead(n) - 1
  <1>1. W \in Nat \ {0} /\ global.cur \in 0 .. W - 1
    BY HSizes DEF TypeOK
  <1>2. global'.cur = IF global.cur + 1 = W THEN 0 ELSE global.cur + 1
    BY <1>1
  <1> QED BY SMTT(60), <1>1, <1>2 DEF Ahead
-----------------------------------------------------------------------------
\* The types of the line.
LEMMA HLine ==
  ASSUME Sizes, TypeOK, LineRight
  PROVE  /\ IsFiniteSet(Line) /\ Ahead(global.nxt) \in 0 .. W - 1
         /\ Cardinality(Line) = Ahead(global.nxt)
         /\ \A t \in Threads : t \notin Line => Ahead(global.nxt) + 1 < W
         /\ \A t \in Threads : InLine(t) => Place(t) \in 0 .. W - 1 /\ Place(t) < Ahead(global.nxt)
         /\ \A t \in Threads : InLine(t) /\ ~Holds(t) =>
              at[t] = "global" /\ ticket[t] \in 0 .. W - 1 /\ Place(t) = Ahead(ticket[t])
         /\ \A t \in Threads : Holds(t) => InLine(t) /\ Place(t) = 0
  <1>0. /\ IsFiniteSet(Threads) /\ Cardinality(Threads) \in Nat /\ Cardinality(Threads) < W
        /\ W \in Nat \ {0} /\ global.nxt \in 0 .. W - 1
    BY HSizes DEF TypeOK
  <1>1. IsFiniteSet(Line) /\ Line \in SUBSET Threads
    BY Zenon, <1>0, FS_Subset DEF Line
  <1>2. Cardinality(Line) = Ahead(global.nxt) /\ Ahead(global.nxt) \in 0 .. W - 1
    BY Zenon, <1>0, HAhead DEF LineRight
  <1>3. ASSUME NEW t \in Threads, t \notin Line PROVE Ahead(global.nxt) + 1 < W
    <2>1. IsFiniteSet(Line \cup {t}) /\ Cardinality(Line \cup {t}) = Cardinality(Line) + 1
      BY Zenon, <1>1, <1>3, FS_AddElement
    <2>2. Line \cup {t} \in SUBSET Threads
      BY Zenon, <1>1
    <2>3. Cardinality(Line \cup {t}) <= Cardinality(Threads)
      BY Zenon, <1>0, <2>2, FS_Subset
    <2> QED BY <1>0, <1>2, <2>1, <2>3
  <1>4. \A t \in Threads : InLine(t) /\ ~Holds(t) =>
          at[t] = "global" /\ ticket[t] \in 0 .. W - 1 /\ Place(t) = Ahead(ticket[t])
    BY Zenon DEF InLine, Place, LineRight
  <1>5. \A t \in Threads : Holds(t) => InLine(t) /\ Place(t) = 0
    BY Zenon DEF InLine, Place
  <1>6. 0 \in 0 .. W - 1
    BY <1>0
  <1>7. \A t \in Threads : InLine(t) => Place(t) \in 0 .. W - 1 /\ Place(t) < Ahead(global.nxt)
    BY Zenon, <1>4, <1>5, <1>6, HAhead DEF LineRight
  <1> QED BY Zenon, <1>1, <1>2, <1>3, <1>4, <1>5, <1>7

\* At most one thread holds the lock ...
LEMMA HOne ==
  ASSUME LineRight, NEW t \in Threads, NEW u \in Threads, Holds(t), Holds(u)
  PROVE  t = u
  BY Zenon DEF LineRight, InLine, Place

\* ... and after a step.
LEMMA HOneNext ==
  ASSUME LineRight', NEW t \in Threads, NEW u \in Threads, Holds(t)', Holds(u)'
  PROVE  t = u
  BY Zenon DEF LineRight, InLine, Place

\* Steps by which nobody joins or leaves the line.
LEMMA HLineSame ==
  ASSUME Sizes, TypeOK, LineRight, global' = global,
         \A u \in Threads : /\ InLine(u)' <=> InLine(u)
                            /\ InLine(u) => Place(u)' = Place(u)
                            /\ at'[u] = "global" => at[u] = "global" /\ ticket'[u] = ticket[u]
  PROVE  LineRight'
  <1>1. Line' = Line
    BY Zenon DEF Line
  <1>2. Ahead(global.nxt)' = Ahead(global.nxt)
    BY Zenon DEF Ahead
  <1> QED BY Zenon, <1>1, <1>2 DEF LineRight

\* A thread joins the line at its end.
LEMMA HLineJoin ==
  ASSUME Sizes, TypeOK, LineRight, NEW t \in Threads, ~InLine(t),
         global'.cur = global.cur, global'.nxt = (global.nxt + 1) % W,
         \A u \in Threads : u # t => at'[u] = at[u] /\ ticket'[u] = ticket[u] /\ (Holds(u)' <=> Holds(u)),
         InLine(t)', Place(t)' = Ahead(global.nxt),
         at'[t] = "global" => ticket'[t] = global.nxt
  PROVE  LineRight'
  <1>0. /\ IsFiniteSet(Line) /\ Ahead(global.nxt) \in 0 .. W - 1
        /\ Cardinality(Line) = Ahead(global.nxt) /\ t \notin Line
        /\ \A u \in Threads : InLine(u) => Place(u) \in 0 .. W - 1 /\ Place(u) < Ahead(global.nxt)
    BY Zenon, HLine DEF Line
  <1>1. Ahead(global.nxt) + 1 < W
    BY Zenon, <1>0, HLine
  <1>2. /\ \A n : Ahead(n)' = Ahead(n)
        /\ Ahead(global.nxt)' = Ahead(global.nxt) + 1
    BY Zenon, <1>1, HAheadNext
  <1>3. \A u \in Threads : u # t => (InLine(u)' <=> InLine(u)) /\ Place(u)' = Place(u)
    BY Zenon, <1>2 DEF InLine, Place
  <1>4. Line' = Line \cup {t}
    BY Zenon, <1>3 DEF Line
  <1>5. Cardinality(Line') = Ahead(global.nxt)'
    <2>1. Cardinality(Line \cup {t}) = Cardinality(Line) + 1
      BY Zenon, <1>0, FS_AddElement
    <2> QED BY Zenon, <1>0, <1>2, <1>4, <2>1
  <1>6. \A u \in Threads : at'[u] = "global" => ticket'[u] \in 0 .. W - 1
    BY Zenon, HAhead DEF LineRight, TypeOK
  <1>7. \A u \in Threads : InLine(u)' => Place(u)' < Ahead(global.nxt)'
    BY <1>0, <1>2, <1>3
  <1>8. \A u \in Threads : u # t /\ InLine(u)' => Place(u)' # Ahead(global.nxt)
    BY <1>0, <1>3
  <1>9. \A u, v \in Threads : InLine(u)' /\ InLine(v)' /\ Place(u)' = Place(v)' => u = v
    BY Zenon, <1>3, <1>8 DEF LineRight
  <1> QED BY Zenon, <1>5, <1>6, <1>7, <1>9 DEF LineRight

\* The thread that holds the lock leaves the line, and the others move up.
LEMMA HLineLeave ==
  ASSUME Sizes, TypeOK, LineRight, NEW t \in Threads, Holds(t), ~InLine(t)',
         global'.cur = (global.cur + 1) % W, global'.nxt = global.nxt,
         \A u \in Threads : u # t => at'[u] = at[u] /\ ticket'[u] = ticket[u] /\ (Holds(u)' <=> Holds(u))
  PROVE  LineRight'
  <1>0. /\ IsFiniteSet(Line) /\ Ahead(global.nxt) \in 0 .. W - 1
        /\ Cardinality(Line) = Ahead(global.nxt)
        /\ InLine(t) /\ Place(t) = 0 /\ global.nxt \in 0 .. W - 1
        /\ \A u \in Threads : InLine(u) => Place(u) \in 0 .. W - 1 /\ Place(u) < Ahead(global.nxt)
    BY Zenon, HLine DEF TypeOK
  <1>1. Ahead(global.nxt)' = Ahead(global.nxt) - 1
    <2>1. Ahead(global.nxt) > 0
      BY <1>0
    <2>2. \A n : n = global.nxt => Ahead(n)' = Ahead(n) - 1
      BY Zenon, <1>0, <2>1, HAheadCur
    <2> QED BY Zenon, <2>2 DEF Ahead
  <1>2. ASSUME NEW u \in Threads, u # t, InLine(u)
        PROVE  /\ InLine(u)' /\ ~Holds(u)' /\ at[u] = "global" /\ ticket[u] \in 0 .. W - 1
               /\ Place(u)' = Place(u) - 1
    <2>1. ~Holds(u)
      BY Zenon, <1>2, HOne
    <2>2. at[u] = "global" /\ ticket[u] \in 0 .. W - 1 /\ Place(u) = Ahead(ticket[u])
      BY Zenon, <1>2, <2>1, HLine
    <2>3. Place(u) # 0
      BY Zenon, <1>0, <1>2 DEF LineRight
    <2>4. Ahead(ticket[u]) > 0
      BY <1>0, <1>2, <2>2, <2>3
    <2>5. \A n : n = ticket[u] => Ahead(n)' = Ahead(n) - 1
      BY Zenon, <2>2, <2>4, HAheadCur
    <2>6. Ahead(ticket[u])' = Ahead(ticket[u]) - 1
      BY Zenon, <1>2, <2>5 DEF Ahead
    <2>7. InLine(u)' /\ ~Holds(u)'
      BY Zenon, <1>2, <2>1, <2>2 DEF InLine
    <2>8. Place(u)' = Ahead(ticket[u])'
      BY Zenon, <2>7 DEF Place
    <2> QED BY Zenon, <2>2, <2>6, <2>7, <2>8
  <1>3. \A u \in Threads : InLine(u)' => u # t /\ InLine(u)
    BY Zenon DEF InLine
  <1>4. Line' = Line \ {t} /\ t \in Line
    BY Zenon, <1>0, <1>2, <1>3 DEF Line
  <1>5. Cardinality(Line') = Ahead(global.nxt)'
    BY Zenon, <1>0, <1>1, <1>4, FS_RemoveElement
  <1>6. \A u \in Threads : at'[u] = "global" => ticket'[u] \in 0 .. W - 1
    BY Zenon, <1>2, <1>3 DEF InLine
  <1>7. \A u \in Threads : InLine(u)' => Place(u)' < Ahead(global.nxt)'
    BY <1>0, <1>1, <1>2, <1>3
  <1>8. ASSUME NEW u \in Threads, NEW v \in Threads, InLine(u)', InLine(v)', Place(u)' = Place(v)'
        PROVE  u = v
    <2>1. Place(u) = Place(v)
      BY <1>0, <1>2, <1>3, <1>8
    <2> QED BY Zenon, <1>3, <1>8, <2>1 DEF LineRight
  <1> QED BY Zenon, <1>5, <1>6, <1>7, <1>8 DEF LineRight

\* The thread that holds the lock gives it to a thread that was not in line.
LEMMA HLinePass ==
  ASSUME Sizes, TypeOK, LineRight, NEW t \in Threads, NEW w \in Threads,
         Holds(t), ~InLine(t)', ~InLine(w), Holds(w)', global' = global,
         \A u \in Threads : u # t => at'[u] = at[u] /\ ticket'[u] = ticket[u],
         \A u \in Threads : u # t /\ u # w => (Holds(u)' <=> Holds(u))
  PROVE  LineRight'
  <1>0. /\ IsFiniteSet(Line) /\ Ahead(global.nxt) \in 0 .. W - 1
        /\ Cardinality(Line) = Ahead(global.nxt) /\ InLine(t) /\ Place(t) = 0
        /\ \A u \in Threads : InLine(u) => Place(u) \in 0 .. W - 1 /\ Place(u) < Ahead(global.nxt)
    BY Zenon, HLine
  <1>1. \A n : Ahead(n)' = Ahead(n)
    BY Zenon DEF Ahead
  <1>2. Ahead(global.nxt)' = Ahead(global.nxt)
    BY Zenon DEF Ahead
  <1>3. \A u \in Threads : u # t /\ u # w => (InLine(u)' <=> InLine(u)) /\ Place(u)' = Place(u)
    BY Zenon, <1>1 DEF InLine, Place
  <1>4. InLine(w)' /\ Place(w)' = 0 /\ w # t
    BY Zenon, <1>0 DEF InLine, Place
  <1>5. Line' = (Line \ {t}) \cup {w} /\ t \in Line /\ w \notin Line \ {t}
    BY Zenon, <1>0, <1>3, <1>4 DEF Line
  <1>6. IsFiniteSet(Line \ {t}) /\ Cardinality(Line \ {t}) = Cardinality(Line) - 1
    BY Zenon, <1>0, <1>5, FS_RemoveElement
  <1>7. Cardinality(Line') = (Cardinality(Line) - 1) + 1
    BY Zenon, <1>5, <1>6, FS_AddElement
  <1>8. Cardinality(Line') = Ahead(global.nxt)'
    BY <1>0, <1>2, <1>7
  <1>9. \A u \in Threads : at'[u] = "global" => ticket'[u] \in 0 .. W - 1
    BY Zenon DEF LineRight, InLine
  <1>10. \A u \in Threads : InLine(u)' => Place(u)' < Ahead(global.nxt)'
    <2>1. 0 < Ahead(global.nxt)
      BY Zenon, <1>0
    <2> QED BY Zenon, <1>0, <1>2, <1>3, <1>4, <2>1
  <1>11. \A u \in Threads : u # w /\ InLine(u)' => u # t /\ InLine(u) /\ Place(u)' = Place(u) /\ Place(u) # 0
    <2>1. \A u \in Threads : u # w /\ InLine(u)' => u # t /\ InLine(u) /\ Place(u)' = Place(u)
      BY Zenon, <1>3
    <2> QED BY Zenon, <1>0, <2>1 DEF LineRight
  <1>12. \A u, v \in Threads : InLine(u)' /\ InLine(v)' /\ Place(u)' = Place(v)' => u = v
    BY Zenon, <1>4, <1>11 DEF LineRight
  <1> QED BY Zenon, <1>8, <1>9, <1>10, <1>12 DEF LineRight
-----------------------------------------------------------------------------
\* The socket of a thread.
Node(t) == htlock_node_mine[t]

\* No other thread moves, and no other socket changes.
Alone(t) ==
  /\ \A u \in Threads : u # t => at'[u] = at[u] /\ ticket'[u] = ticket[u]
  /\ \A s \in Sockets : s # Node(t) => local'[s] = local[s]

\* The other sockets.
LEMMA HOther ==
  ASSUME Sizes, NEW t \in Threads, Alone(t), NEW s \in Sockets, s # Node(t), SocketRight(s)
  PROVE  SocketRight(s)'
  <1>1. /\ Of(s)' = Of(s) /\ local'[s] = local[s]
        /\ \A u \in Of(s) : at'[u] = at[u] /\ ticket'[u] = ticket[u]
    BY Zenon DEF Of, Alone, Node
  <1>2. \A u \in Of(s) : My(u) = local[s] /\ My(u)' = local'[s]
    BY Zenon DEF Of, My
  <1>3. \A u \in Of(s) : Served(u)' <=> Served(u)
    BY Zenon, <1>1, <1>2 DEF Served
  <1>4. \A u \in Of(s) : (Keeps(u)' <=> Keeps(u)) /\ (Holds(u)' <=> Holds(u))
    BY Zenon, <1>1, <1>3 DEF Keeps, Holds
  <1>5. (Kept(s)' <=> Kept(s)) /\ \A k : Waits(s, k)' <=> Waits(s, k)
    BY Zenon, <1>1, <1>4 DEF Kept, Waits
  <1>6. TicketsRight(s)'
    BY Zenon, <1>1 DEF SocketRight, TicketsRight
  <1>7. KeeperRight(s)'
    BY Zenon, <1>1, <1>4, <1>5 DEF SocketRight, KeeperRight
  <1>8. RefillRight(s)'
    BY Zenon, <1>1, <1>5 DEF SocketRight, RefillRight
  <1>9. ReleaseRight(s)'
    BY Zenon, <1>1, <1>4, <1>5 DEF SocketRight, ReleaseRight
  <1> QED BY Zenon, <1>6, <1>7, <1>8, <1>9 DEF SocketRight

\* What a step that leaves the current tickets alone means to the other threads.
LEMMA HSame ==
  ASSUME Sizes, NEW t \in Threads, Alone(t), local'[Node(t)].cur = local[Node(t)].cur,
         NEW u \in Threads, u # t
  PROVE  /\ Served(u)' <=> Served(u)
         /\ Keeps(u)' <=> Keeps(u)
         /\ Holds(u)' <=> Holds(u)
         /\ InLine(u)' <=> InLine(u)
  <1>1. My(u)'.cur = My(u).cur /\ at'[u] = at[u] /\ ticket'[u] = ticket[u]
    BY Zenon, HSizes DEF My, Alone, Node
  <1>2. Served(u)' <=> Served(u)
    BY Zenon, <1>1 DEF Served
  <1>3. (Keeps(u)' <=> Keeps(u)) /\ (Holds(u)' <=> Holds(u))
    BY Zenon, <1>1, <1>2 DEF Keeps, Holds
  <1> QED BY Zenon, <1>1, <1>2, <1>3 DEF InLine

\* The types of a socket and of its threads.
LEMMA HSocket ==
  ASSUME Sizes, TypeOK, NEW t \in Threads
  PROVE  /\ Node(t) \in Sockets /\ t \in Of(Node(t)) /\ My(t) = local[Node(t)]
         /\ local[Node(t)].cur \in 0 .. NB /\ local[Node(t)].nxt \in Int /\ NB \in Nat
         /\ ticket[t] \in Nat /\ at[t] \in Places
         /\ \A u \in Of(Node(t)) : u \in Threads /\ My(u) = local[Node(t)] /\ ticket[u] \in Nat
  <1>1. /\ Node(t) \in Sockets /\ t \in Of(Node(t)) /\ My(t) = local[Node(t)] /\ NB \in Nat
        /\ \A u \in Of(Node(t)) : u \in Threads /\ My(u) = local[Node(t)]
    BY Zenon, HSizes DEF Node, My, Of
  <1>2. local[Node(t)] \in [cur : 0 .. NB, nxt : Int]
    BY Zenon, <1>1 DEF TypeOK, NB
  <1>3. local[Node(t)].cur \in 0 .. NB /\ local[Node(t)].nxt \in Int
    BY Zenon, <1>2
  <1>4. at[t] \in Places /\ \A u \in Threads : ticket[u] \in Nat
    BY Zenon DEF TypeOK
  <1> QED BY Zenon, <1>1, <1>3, <1>4

\* A step of t that leaves its socket alone: t keeps the tickets after it if it did
\* before, and was no waiter but for the current ticket.
LEMMA HQuiet ==
  ASSUME Sizes, TypeOK, NEW t \in Threads, Alone(t), local'[Node(t)] = local[Node(t)],
         SocketRight(Node(t)), Keeps(t)' <=> Keeps(t),
         at[t] = "local" => ticket[t] = local[Node(t)].cur,
         at'[t] \notin {"local", "refill", "up"},
         at'[t] \in {"queue", "global", "up2"} => local[Node(t)].cur = NB,
         at'[t] = "down" =>
           /\ ticket'[t] = local[Node(t)].cur /\ local[Node(t)].cur > 0
           /\ local[Node(t)].nxt < local[Node(t)].cur,
         local[Node(t)].cur < NB /\ Holds(t) /\ at[t] # "try_cs" => Holds(t)' /\ at'[t] # "try_cs"
  PROVE  SocketRight(Node(t))'
  <1> DEFINE s == Node(t)
  <1>0. /\ s \in Sockets /\ t \in Of(s) /\ local[s].cur \in 0 .. NB /\ NB \in Nat /\ Of(s)' = Of(s)
        /\ \A u \in Of(s) : u \in Threads
    BY Zenon, HSocket DEF Of
  <1>1. \A u \in Of(s) : u # t =>
          /\ at'[u] = at[u] /\ ticket'[u] = ticket[u]
          /\ (Keeps(u)' <=> Keeps(u)) /\ (Holds(u)' <=> Holds(u))
    BY Zenon, <1>0, HSame DEF Alone
  <1>2. local'[s] = local[s] /\ NB = NB_TICKETS_LOCAL
    BY Zenon DEF NB
  <1> HIDE DEF s
  <1>3. \A u \in Of(s) : Keeps(u)' <=> Keeps(u)
    BY Zenon, <1>1
  <1>4. Kept(s)' <=> Kept(s)
    BY Zenon, <1>0, <1>3 DEF Kept
  <1>5. \A k \in 0 .. NB - 1 : k < local[s].cur => k # local[s].cur
    BY <1>0
  <1>6. ASSUME NEW k \in 0 .. NB - 1, k < local[s].cur, Waits(s, k) PROVE Waits(s, k)'
    <2>1. PICK u \in Of(s) : at[u] = "local" /\ ticket[u] = k
      BY Zenon, <1>6 DEF Waits
    <2>2. u # t
      BY Zenon, <1>5, <1>6, <2>1 DEF s
    <2> QED BY Zenon, <1>0, <1>1, <2>1, <2>2 DEF Waits
  <1>7. TicketsRight(s)'
    BY Zenon, <1>0, <1>1, <1>2 DEF SocketRight, TicketsRight, s
  <1>8. KeeperRight(s)'
    <2>1. KeeperRight(s)
      BY Zenon DEF SocketRight, s
    <2>2. \A u, v \in Of(s) : Keeps(u)' /\ Keeps(v)' => u = v
      BY Zenon, <1>3, <2>1 DEF KeeperRight
    <2>3. \A u \in Of(s) : at'[u] \in {"queue", "global"} => local'[s].cur = NB_TICKETS_LOCAL
      BY Zenon, <1>1, <1>2, <2>1 DEF KeeperRight, s
    <2>4. Kept(s)' => \A k \in 0 .. NB_TICKETS_LOCAL - 1 :
                        local'[s].nxt <= k /\ k < local'[s].cur => Waits(s, k)'
      BY Zenon, <1>2, <1>4, <1>6, <2>1 DEF KeeperRight
    <2>5. ~Kept(s)' => local'[s].nxt <= 0 /\ \A u \in Of(s) : at'[u] # "local"
      BY Zenon, <1>1, <1>2, <1>4, <2>1 DEF KeeperRight
    <2> QED BY Zenon, <1>0, <2>2, <2>3, <2>4, <2>5 DEF KeeperRight
  <1>9. RefillRight(s)'
    BY Zenon, <1>0, <1>1, <1>2, <1>4 DEF SocketRight, RefillRight, s
  <1>10. ReleaseRight(s)'
    <2>1. ReleaseRight(s)
      BY Zenon DEF SocketRight, s
    <2>2. local'[s].cur < NB_TICKETS_LOCAL => \E u \in Of(s) : Holds(u)' /\ at'[u] # "try_cs"
      <3> SUFFICES ASSUME local[s].cur < NB PROVE \E u \in Of(s) : Holds(u)' /\ at'[u] # "try_cs"
        BY Zenon, <1>2
      <3>1. PICK u \in Of(s) : Holds(u) /\ at[u] # "try_cs"
        BY Zenon, <1>2, <2>1 DEF ReleaseRight
      <3>2. Holds(u)' /\ at'[u] # "try_cs"
        BY Zenon, <1>1, <3>1 DEF s
      <3> QED BY Zenon, <3>2
    <2>3. \A u \in Of(s) :
            /\ at'[u] = "up" => local'[s].cur = NB_TICKETS_LOCAL \/ ~Kept(s)'
            /\ at'[u] = "up2" => local'[s].cur = NB_TICKETS_LOCAL
            /\ at'[u] = "down" =>
                 ticket'[u] = local'[s].cur /\ local'[s].cur > 0 /\ local'[s].nxt < local'[s].cur
      BY Zenon, <1>1, <1>2, <1>4, <2>1 DEF ReleaseRight, s
    <2> QED BY Zenon, <1>0, <2>2, <2>3 DEF ReleaseRight
  <1> QED BY Zenon, <1>7, <1>8, <1>9, <1>10 DEF SocketRight, s

\* The invariant, from what a step does to the line, to its socket and to passes.
LEMMA HStep ==
  ASSUME Sizes, TicketInv, NEW t \in Threads, Alone(t),
         TypeOK', LineRight', SocketRight(Node(t))', PassesRight'
  PROVE  TicketInv'
  <1>1. \A s \in Sockets : SocketRight(s)'
    BY Zenon, HOther DEF TicketInv
  <1> QED BY Zenon, <1>1 DEF TicketInv

\* What the invariant says.
LEMMA HFacts ==
  ASSUME Sizes, TicketInv, NEW t \in Threads
  PROVE  TypeOK /\ LineRight /\ SocketRight(Node(t)) /\ PassesRight
  BY Zenon, HSizes DEF TicketInv, Node

\* A step of t that neither takes it into the line nor out of it.
LEMMA HLineQuiet ==
  ASSUME Sizes, TypeOK, LineRight, NEW t \in Threads, Alone(t), global' = global,
         local'[Node(t)].cur = local[Node(t)].cur,
         InLine(t)' <=> InLine(t), InLine(t) => Place(t)' = Place(t),
         at'[t] = "global" => at[t] = "global" /\ ticket'[t] = ticket[t]
  PROVE  LineRight'
  <1>1. ASSUME NEW u \in Threads, u # t
        PROVE  /\ at'[u] = at[u] /\ ticket'[u] = ticket[u]
               /\ (InLine(u)' <=> InLine(u)) /\ Place(u)' = Place(u)
    <2>1. at'[u] = at[u] /\ ticket'[u] = ticket[u]
      BY Zenon, <1>1 DEF Alone
    <2>2. (InLine(u)' <=> InLine(u)) /\ (Holds(u)' <=> Holds(u))
      BY Zenon, <1>1, HSame
    <2>3. Ahead(ticket[u])' = Ahead(ticket[u])
      BY Zenon, <2>1 DEF Ahead
    <2>4. Place(u)' = Place(u)
      BY Zenon, <2>2, <2>3 DEF Place
    <2> QED BY Zenon, <2>1, <2>2, <2>4
  <1>2. \A u \in Threads : /\ InLine(u)' <=> InLine(u)
                           /\ InLine(u) => Place(u)' = Place(u)
                           /\ at'[u] = "global" => at[u] = "global" /\ ticket'[u] = ticket[u]
    BY Zenon, <1>1
  <1> QED BY Zenon, <1>2, HLineSame

\* A step of t that leaves passes alone.
LEMMA HPassesSame ==
  ASSUME Sizes, TypeOK, PassesRight, NEW t \in Threads, Alone(t), passes' = passes,
         local'[Node(t)].cur = local[Node(t)].cur,
         at'[t] \in {"cs", "down"} => at[t] \in {"cs", "down"}, ~Served(t)'
  PROVE  PassesRight'
  <1>1. \A u \in Threads : My(u)'.cur = My(u).cur
    BY Zenon, HSizes DEF My, Alone, Node
  <1>2. \A u \in Threads : u # t => at'[u] = at[u] /\ (Served(u)' <=> Served(u))
    BY Zenon, HSame DEF Alone
  <1> QED BY Zenon, <1>1, <1>2 DEF PassesRight

\* What the parts of an action do.
LEMMA HMoves ==
  ASSUME TypeOK, NEW t \in Threads, NEW from, NEW to \in Places, Move(t, from, to)
  PROVE  /\ at[t] = from /\ at'[t] = to /\ at' \in [Threads -> Places]
         /\ \A u \in Threads : u # t => at'[u] = at[u]
  BY Zenon DEF Move, TypeOK

\* A step that writes the ticket of its thread.
LEMMA HWrites ==
  ASSUME TypeOK, NEW t \in Threads, NEW k \in Nat, ticket' = [ticket EXCEPT ![t] = k]
  PROVE  /\ ticket'[t] = k /\ ticket' \in [Threads -> Nat]
         /\ \A u \in Threads : u # t => ticket'[u] = ticket[u]
  BY Zenon DEF TypeOK

\* A step that writes nxt of the socket of its thread.
LEMMA HSetsNxt ==
  ASSUME Sizes, TypeOK, NEW t \in Threads, NEW n \in Int, local' = [local EXCEPT ![Node(t)].nxt = n]
  PROVE  /\ local' \in [Sockets -> [cur : 0 .. NB_TICKETS_LOCAL, nxt : Int]]
         /\ local'[Node(t)].nxt = n /\ local'[Node(t)].cur = local[Node(t)].cur
         /\ \A s \in Sockets : s # Node(t) => local'[s] = local[s]
  <1>1. Node(t) \in Sockets /\ local \in [Sockets -> [cur : 0 .. NB_TICKETS_LOCAL, nxt : Int]]
    BY Zenon, HSizes DEF Node, TypeOK
  <1> QED BY Zenon, <1>1

\* A step that writes cur of the socket of its thread.
LEMMA HSetsCur ==
  ASSUME Sizes, TypeOK, NEW t \in Threads, NEW c \in 0 .. NB_TICKETS_LOCAL,
         local' = [local EXCEPT ![Node(t)].cur = c]
  PROVE  /\ local' \in [Sockets -> [cur : 0 .. NB_TICKETS_LOCAL, nxt : Int]]
         /\ local'[Node(t)].cur = c /\ local'[Node(t)].nxt = local[Node(t)].nxt
         /\ \A s \in Sockets : s # Node(t) => local'[s] = local[s]
  <1>1. Node(t) \in Sockets /\ local \in [Sockets -> [cur : 0 .. NB_TICKETS_LOCAL, nxt : Int]]
    BY Zenon, HSizes DEF Node, TypeOK
  <1> QED BY Zenon, <1>1

\* A step that writes the counters of the global lock.
LEMMA HSetsGlobal ==
  ASSUME Sizes, TypeOK
  PROVE  /\ LET g == [global EXCEPT !.nxt = (@ + 1) % W] IN
              /\ g \in [cur : 0 .. W - 1, nxt : 0 .. W - 1]
              /\ g.cur = global.cur /\ g.nxt = (global.nxt + 1) % W
         /\ LET g == [global EXCEPT !.cur = (@ + 1) % W] IN
              /\ g \in [cur : 0 .. W - 1, nxt : 0 .. W - 1]
              /\ g.cur = (global.cur + 1) % W /\ g.nxt = global.nxt
  <1>1. /\ W \in Nat \ {0} /\ global.cur \in 0 .. W - 1 /\ global.nxt \in 0 .. W - 1
        /\ global \in [cur : 0 .. W - 1, nxt : 0 .. W - 1]
    BY HSizes DEF TypeOK
  <1>2. (global.cur + 1) % W \in 0 .. W - 1 /\ (global.nxt + 1) % W \in 0 .. W - 1
    BY <1>1
  <1> QED BY Zenon, <1>1, <1>2
-----------------------------------------------------------------------------
\* The wait for a ticket of the socket ends.
LEMMA HWaitLocal ==
  ASSUME Sizes, TicketInv, NEW t \in Threads, WaitLocal(t)
  PROVE  TicketInv'
  <1>0. TypeOK /\ LineRight /\ SocketRight(Node(t)) /\ PassesRight
    BY Zenon, HFacts
  <1>1. /\ at[t] = "local" /\ at'[t] = "cs" /\ ticket[t] = My(t).cur /\ ticket' = ticket
        /\ local' = local /\ global' = global /\ passes' = passes + 1
        /\ at' \in [Threads -> Places] /\ \A u \in Threads : u # t => at'[u] = at[u]
    BY Zenon, <1>0, HMoves DEF WaitLocal, Places
  <1>2. Alone(t) /\ My(t) = local[Node(t)] /\ My(t)' = My(t)
    BY Zenon, <1>1 DEF Alone, My, Node
  <1>3. Served(t) /\ Holds(t) /\ Holds(t)' /\ Keeps(t) /\ Keeps(t)'
    BY Zenon, <1>1 DEF Served, Holds, Keeps
  <1>4. TypeOK'
    <2>1. passes + 1 \in Nat
      BY <1>0 DEF TypeOK
    <2> QED BY Zenon, <1>0, <1>1, <2>1 DEF TypeOK
  <1>5. LineRight'
    BY Zenon, <1>0, <1>1, <1>2, <1>3, HLineQuiet DEF InLine, Place
  <1>6. SocketRight(Node(t))'
    BY Zenon, <1>0, <1>1, <1>2, <1>3, HQuiet
  <1>7. PassesRight'
    <2>1. passes = NB_TICKETS_LOCAL - My(t).cur
      BY Zenon, <1>0, <1>3 DEF PassesRight
    <2>2. passes' = NB_TICKETS_LOCAL + 1 - My(t)'.cur /\ passes' <= NB_TICKETS_LOCAL + 1
      BY <1>0, <1>1, <1>2, <2>1, HSocket DEF NB
    <2>3. \A u \in Threads : u # t => ~Holds(u) /\ ~Holds(u)'
      BY Zenon, <1>0, <1>1, <1>2, <1>3, HOne, HSame
    <2>4. \A u \in Threads : u # t => at'[u] \notin {"cs", "down"} /\ ~Served(u)'
      BY Zenon, <2>3 DEF Holds
    <2>5. ~Served(t)'
      BY Zenon, <1>1 DEF Served
    <2> QED BY Zenon, <1>1, <2>2, <2>4, <2>5 DEF PassesRight
  <1> QED BY Zenon, <1>2, <1>4, <1>5, <1>6, <1>7, HStep

\* A ticket of the global lock.
LEMMA HTakeGlobal ==
  ASSUME Sizes, TicketInv, NEW t \in Threads, TakeGlobal(t)
  PROVE  TicketInv'
  <1>0. /\ TypeOK /\ LineRight /\ SocketRight(Node(t)) /\ PassesRight
        /\ global.nxt \in 0 .. W - 1
    BY Zenon, HFacts DEF TypeOK
  <1>1. /\ at[t] = "queue" /\ at'[t] = "global" /\ local' = local /\ passes' = passes
        /\ at' \in [Threads -> Places] /\ \A u \in Threads : u # t => at'[u] = at[u]
    BY Zenon, <1>0, HMoves DEF TakeGlobal, Places
  <1>2. /\ ticket'[t] = global.nxt /\ ticket' \in [Threads -> Nat]
        /\ \A u \in Threads : u # t => ticket'[u] = ticket[u]
    <2>1. global.nxt \in Nat
      BY <1>0
    <2> QED BY Zenon, <1>0, <2>1, HWrites DEF TakeGlobal
  <1>3. /\ global' \in [cur : 0 .. W - 1, nxt : 0 .. W - 1]
        /\ global'.cur = global.cur /\ global'.nxt = (global.nxt + 1) % W
    BY Zenon, <1>0, HSetsGlobal DEF TakeGlobal
  <1>4. Alone(t) /\ local'[Node(t)] = local[Node(t)]
    BY Zenon, <1>1, <1>2 DEF Alone
  <1>5. /\ ~InLine(t) /\ InLine(t)' /\ ~Holds(t) /\ ~Holds(t)' /\ ~Served(t)' /\ Keeps(t) /\ Keeps(t)'
    BY Zenon, <1>1 DEF InLine, Holds, Keeps, Served
  <1>6. TypeOK'
    BY Zenon, <1>0, <1>1, <1>2, <1>3 DEF TypeOK
  <1>7. LineRight'
    <2>1. Place(t)' = Ahead(global.nxt)
      BY Zenon, <1>2, <1>3, <1>5 DEF Place, Ahead
    <2>2. \A u \in Threads : u # t => at'[u] = at[u] /\ ticket'[u] = ticket[u] /\ (Holds(u)' <=> Holds(u))
      BY Zenon, <1>1, <1>2, <1>4, HSame
    <2> QED BY Zenon, <1>0, <1>2, <1>3, <1>5, <2>1, <2>2, HLineJoin
  <1>8. SocketRight(Node(t))'
    <2>1. local[Node(t)].cur = NB
      BY Zenon, <1>0, <1>1, HSocket DEF SocketRight, KeeperRight, NB
    <2> QED BY Zenon, <1>0, <1>1, <1>4, <1>5, <2>1, HQuiet
  <1>9. PassesRight'
    BY Zenon, <1>0, <1>1, <1>4, <1>5, HPassesSame
  <1> QED BY Zenon, <1>4, <1>6, <1>7, <1>8, <1>9, HStep

\* The wait for the global lock ends.
LEMMA HWaitGlobal ==
  ASSUME Sizes, TicketInv, NEW t \in Threads, WaitGlobal(t)
  PROVE  TicketInv'
  <1>0. TypeOK /\ LineRight /\ SocketRight(Node(t)) /\ PassesRight
    BY Zenon, HFacts
  <1>1. /\ at[t] = "global" /\ at'[t] = "cs" /\ global.cur = ticket[t] /\ ticket' = ticket
        /\ local' = local /\ global' = global /\ passes' = 1
        /\ at' \in [Threads -> Places] /\ \A u \in Threads : u # t => at'[u] = at[u]
    BY Zenon, <1>0, HMoves DEF WaitGlobal, Places
  <1>2. Alone(t) /\ My(t) = local[Node(t)] /\ My(t)' = My(t) /\ local'[Node(t)] = local[Node(t)]
    BY Zenon, <1>1 DEF Alone, My, Node
  <1>3. /\ ~Holds(t) /\ Holds(t)' /\ InLine(t) /\ InLine(t)' /\ Keeps(t) /\ Keeps(t)'
        /\ ~Served(t)'
    BY Zenon, <1>1 DEF Served, Holds, Keeps, InLine
  <1>4. TypeOK'
    BY Zenon, <1>0, <1>1 DEF TypeOK
  <1>5. Place(t) = 0 /\ Place(t)' = 0
    BY Zenon, <1>0, <1>1, <1>3, HAhead DEF Place, LineRight
  <1>6. LineRight'
    BY Zenon, <1>0, <1>1, <1>2, <1>3, <1>5, HLineQuiet
  <1>7. SocketRight(Node(t))'
    BY Zenon, <1>0, <1>1, <1>2, <1>3, HQuiet
  <1>8. PassesRight'
    <2>1. My(t)'.cur = NB_TICKETS_LOCAL /\ NB_TICKETS_LOCAL \in Nat
      BY Zenon, <1>0, <1>1, <1>2, HSocket DEF SocketRight, KeeperRight, NB
    <2>2. passes' = NB_TICKETS_LOCAL + 1 - My(t)'.cur /\ passes' <= NB_TICKETS_LOCAL + 1
      BY <1>1, <2>1
    <2>3. \A u \in Threads : u # t => ~Holds(u)'
      BY Zenon, <1>3, <1>6, HOneNext
    <2>4. \A u \in Threads : u # t => at'[u] \notin {"cs", "down"} /\ ~Served(u)'
      BY Zenon, <2>3 DEF Holds
    <2> QED BY Zenon, <1>1, <1>3, <2>2, <2>4 DEF PassesRight
  <1> QED BY Zenon, <1>2, <1>4, <1>6, <1>7, <1>8, HStep

\* The global lock is released, by a thread of a socket or after htlock_trylock.
LEMMA HReleaseGlobal ==
  ASSUME Sizes, TicketInv, NEW t \in Threads, ReleaseGlobal(t) \/ ReleaseTry(t)
  PROVE  TicketInv'
  <1>0. TypeOK /\ LineRight /\ SocketRight(Node(t)) /\ PassesRight
    BY Zenon, HFacts
  <1>1. /\ at[t] \in {"up2", "try_cs"} /\ at'[t] = "out" /\ local' = local /\ passes' = passes
        /\ at' \in [Threads -> Places] /\ \A u \in Threads : u # t => at'[u] = at[u]
    BY Zenon, <1>0, HMoves DEF ReleaseGlobal, ReleaseTry, Places
  <1>2. ticket' \in [Threads -> Nat] /\ \A u \in Threads : u # t => ticket'[u] = ticket[u]
    <2>1. CASE ReleaseGlobal(t)
      <3>1. 0 \in Nat
        OBVIOUS
      <3> QED BY Zenon, <1>0, <2>1, <3>1, HWrites DEF ReleaseGlobal
    <2>2. CASE ReleaseTry(t)
      BY Zenon, <1>0, <2>2 DEF ReleaseTry, TypeOK
    <2> QED BY Zenon, <2>1, <2>2
  <1>3. /\ global' \in [cur : 0 .. W - 1, nxt : 0 .. W - 1]
        /\ global'.cur = (global.cur + 1) % W /\ global'.nxt = global.nxt
    BY Zenon, <1>0, HSetsGlobal DEF ReleaseGlobal, ReleaseTry
  <1>4. Alone(t) /\ local'[Node(t)] = local[Node(t)]
    BY Zenon, <1>1, <1>2 DEF Alone
  <1>5. /\ ~InLine(t)' /\ Holds(t) /\ ~Holds(t)' /\ ~Served(t)' /\ ~Keeps(t) /\ ~Keeps(t)'
    BY Zenon, <1>1 DEF InLine, Holds, Keeps, Served
  <1>6. TypeOK'
    BY Zenon, <1>0, <1>1, <1>2, <1>3 DEF TypeOK
  <1>7. LineRight'
    <2>2. \A u \in Threads : u # t => at'[u] = at[u] /\ ticket'[u] = ticket[u] /\ (Holds(u)' <=> Holds(u))
      BY Zenon, <1>1, <1>2, <1>4, HSame
    <2> QED BY Zenon, <1>0, <1>3, <1>5, <2>2, HLineLeave
  <1>8. SocketRight(Node(t))'
    <2>1. at[t] = "up2" => local[Node(t)].cur = NB
      BY Zenon, <1>0, HSocket DEF SocketRight, ReleaseRight, NB
    <2>2. NB \in Nat /\ ~(NB < NB)
      BY HSizes
    <2>3. ~(local[Node(t)].cur < NB /\ Holds(t) /\ at[t] # "try_cs")
      BY Zenon, <1>1, <2>1, <2>2
    <2> QED BY Zenon, <1>0, <1>1, <1>4, <1>5, <2>3, HQuiet
  <1>9. PassesRight'
    BY Zenon, <1>0, <1>1, <1>4, <1>5, HPassesSame
  <1> QED BY Zenon, <1>4, <1>6, <1>7, <1>8, <1>9, HStep

\* htlock_trylock reads the global lock, and swaps it if it is free.
LEMMA HTry ==
  ASSUME Sizes, TicketInv, NEW t \in Threads, TryRead(t) \/ TryCas(t)
  PROVE  TicketInv'
  <1>0. /\ TypeOK /\ LineRight /\ SocketRight(Node(t)) /\ PassesRight
        /\ global.nxt \in 0 .. W - 1
    BY Zenon, HFacts DEF TypeOK
  <1>1. /\ at[t] \in {"out", "try"} /\ at'[t] \in {"out", "try", "try_cs"} /\ local' = local
        /\ at' \in [Threads -> Places] /\ \A u \in Threads : u # t => at'[u] = at[u]
    BY Zenon, <1>0, HMoves DEF TryRead, TryCas, Places
  <1>2. ticket' \in [Threads -> Nat] /\ \A u \in Threads : u # t => ticket'[u] = ticket[u]
    <2>1. 0 \in Nat /\ global.nxt \in Nat
      BY <1>0
    <2> QED BY Zenon, <1>0, <2>1, HWrites DEF TryRead, TryCas
  <1>3. Alone(t) /\ local'[Node(t)] = local[Node(t)]
    BY Zenon, <1>1, <1>2 DEF Alone
  <1>4. /\ ~InLine(t) /\ ~Holds(t) /\ ~Served(t)' /\ ~Keeps(t) /\ ~Keeps(t)'
        /\ InLine(t)' <=> at'[t] = "try_cs"
        /\ Holds(t)' <=> at'[t] = "try_cs"
    BY Zenon, <1>1 DEF InLine, Holds, Keeps, Served
  <1>5. SocketRight(Node(t))'
    BY Zenon, <1>0, <1>1, <1>3, <1>4, HQuiet
  <1>6. CASE at'[t] # "try_cs"
    <2>1. global' = global /\ passes' = passes
      <3>1. CASE TryRead(t)
        BY Zenon, <3>1 DEF TryRead
      <3>2. CASE TryCas(t)
        <4> DEFINE free == global = [cur |-> ticket[t], nxt |-> ticket[t]]
        <4>1. /\ Move(t, "try", IF free THEN "try_cs" ELSE "out")
              /\ global' = IF free THEN [global EXCEPT !.nxt = (@ + 1) % W] ELSE global
              /\ passes' = IF free THEN 1 ELSE passes
          BY Zenon, <3>2 DEF TryCas
        <4> HIDE DEF free
        <4>2. ~free
          BY Zenon, <1>0, <1>6, <4>1, HMoves DEF Places
        <4> QED BY Zenon, <4>1, <4>2
      <3> QED BY Zenon, <3>1, <3>2
    <2>2. TypeOK'
      BY Zenon, <1>0, <1>1, <1>2, <2>1 DEF TypeOK
    <2>3. LineRight'
      BY Zenon, <1>0, <1>1, <1>3, <1>4, <1>6, <2>1, HLineQuiet
    <2>4. PassesRight'
      BY Zenon, <1>0, <1>1, <1>3, <1>4, <2>1, HPassesSame
    <2> QED BY Zenon, <1>3, <1>5, <2>2, <2>3, <2>4, HStep
  <1>7. CASE at'[t] = "try_cs"
    <2> DEFINE free == global = [cur |-> ticket[t], nxt |-> ticket[t]]
    <2>1. /\ Move(t, "try", IF free THEN "try_cs" ELSE "out")
          /\ global' = IF free THEN [global EXCEPT !.nxt = (@ + 1) % W] ELSE global
          /\ passes' = IF free THEN 1 ELSE passes
      <3>1. ~TryRead(t)
        BY Zenon, <1>0, <1>7, HMoves DEF TryRead, Places
      <3> QED BY Zenon, <3>1 DEF TryCas
    <2>2. free
      <3> HIDE DEF free
      <3> QED BY Zenon, <1>0, <1>7, <2>1, HMoves DEF Places
    <2>3. global.nxt = global.cur
      BY Zenon, <2>2
    <2>4. passes' = 1 /\ global' = [global EXCEPT !.nxt = (@ + 1) % W]
      BY Zenon, <2>1, <2>2
    <2> HIDE DEF free
    <2>5. /\ global' \in [cur : 0 .. W - 1, nxt : 0 .. W - 1]
          /\ global'.cur = global.cur /\ global'.nxt = (global.nxt + 1) % W
      BY Zenon, <1>0, <2>4, HSetsGlobal
    <2>6. TypeOK'
      BY Zenon, <1>0, <1>1, <1>2, <2>4, <2>5 DEF TypeOK
    <2>7. Ahead(global.nxt) = 0
      BY Zenon, <1>0, <2>3, HAhead
    <2>8. LineRight'
      <3>1. Place(t)' = Ahead(global.nxt)
        BY Zenon, <1>4, <1>7, <2>7 DEF Place
      <3>2. \A u \in Threads : u # t => at'[u] = at[u] /\ ticket'[u] = ticket[u] /\ (Holds(u)' <=> Holds(u))
        BY Zenon, <1>1, <1>2, <1>3, HSame
      <3> QED BY Zenon, <1>0, <1>4, <1>7, <2>5, <3>1, <3>2, HLineJoin
    <2>9. PassesRight'
      <3>1. passes' <= NB_TICKETS_LOCAL + 1
        BY <2>4, HSizes DEF NB
      <3>2. \A u \in Threads : u # t => ~Holds(u)'
        BY Zenon, <1>4, <1>7, <2>8, HOneNext
      <3>3. \A u \in Threads : u # t => at'[u] \notin {"cs", "down"} /\ ~Served(u)'
        BY Zenon, <3>2 DEF Holds
      <3> QED BY Zenon, <1>4, <1>7, <3>1, <3>3 DEF PassesRight
    <2> QED BY Zenon, <1>3, <1>5, <2>6, <2>8, <2>9, HStep
  <1> QED BY Zenon, <1>6, <1>7

\* A ticket of the socket is taken, or the last one was, and new ones are needed.
LEMMA HTakeLocal ==
  ASSUME Sizes, TicketInv, NEW t \in Threads, TakeLocal(t)
  PROVE  TicketInv'
  <1> DEFINE s == Node(t)
             n == local[s].nxt - 1
             to == IF n >= 0 THEN "local" ELSE IF n = -1 THEN "refill" ELSE "out"
             k0 == IF n >= 0 THEN n ELSE 0
  <1>0. TypeOK /\ LineRight /\ SocketRight(s) /\ PassesRight
    BY Zenon, HFacts
  <1>1. /\ s \in Sockets /\ t \in Of(s) /\ My(t) = local[s] /\ local[s].cur \in 0 .. NB
        /\ local[s].nxt \in Int /\ NB \in Nat /\ NB = NB_TICKETS_LOCAL
        /\ \A u \in Of(s) : u \in Threads /\ My(u) = local[s] /\ ticket[u] \in Nat
    BY Zenon, <1>0, HSocket DEF NB
  <1>2. /\ Move(t, "out", to) /\ local' = [local EXCEPT ![s].nxt = n]
        /\ ticket' = [ticket EXCEPT ![t] = k0] /\ global' = global /\ passes' = passes
    BY Zenon, <1>1 DEF TakeLocal, Node
  <1>3. n \in Int /\ k0 \in Nat
    BY <1>1
  <1>4. to \in Places
    BY Zenon DEF Places
  <1>5. /\ local' \in [Sockets -> [cur : 0 .. NB_TICKETS_LOCAL, nxt : Int]]
        /\ local'[s].nxt = n /\ local'[s].cur = local[s].cur
        /\ \A r \in Sockets : r # s => local'[r] = local[r]
    BY Zenon, <1>0, <1>2, <1>3, HSetsNxt
  <1>6. /\ at[t] = "out" /\ at'[t] = to /\ at' \in [Threads -> Places]
        /\ \A u \in Threads : u # t => at'[u] = at[u]
    BY Zenon, <1>0, <1>2, <1>4, HMoves
  <1>7. /\ ticket'[t] = k0 /\ ticket' \in [Threads -> Nat]
        /\ \A u \in Threads : u # t => ticket'[u] = ticket[u]
    BY Zenon, <1>0, <1>2, <1>3, HWrites
  <1>8. /\ to \in {"local", "refill", "out"} /\ (to = "local" <=> n >= 0) /\ (to = "refill" <=> n = -1)
        /\ (n >= 0 => k0 = n)
    BY <1>3
  <1>9. Alone(t)
    BY Zenon, <1>5, <1>6, <1>7 DEF Alone
  <1>10. TypeOK'
    BY Zenon, <1>0, <1>2, <1>5, <1>6, <1>7 DEF TypeOK
  <1> DEFINE cur == local[s].cur
             nxt == local[s].nxt
  <1>11. /\ TicketsRight(s) /\ KeeperRight(s) /\ RefillRight(s) /\ ReleaseRight(s)
    BY Zenon, <1>0 DEF SocketRight
  <1>12. /\ nxt \in Int /\ cur \in 0 .. NB /\ n = nxt - 1 /\ nxt <= cur
    BY Zenon, <1>1, <1>11 DEF TicketsRight
  <1> HIDE DEF s, n, to, k0, cur, nxt
  <1>13. n < cur /\ n # cur /\ n <= cur /\ n < NB /\ n < nxt
    BY <1>1, <1>12
  <1>14. ~Served(t)'
    <2>1. at'[t] = "local" => ticket'[t] = n
      BY Zenon, <1>6, <1>7, <1>8
    <2>2. My(t)' = local'[s]
      BY Zenon DEF My, s, Node
    <2> QED BY Zenon, <1>5, <1>13, <2>1, <2>2 DEF Served, cur
  <1>15. ~Holds(t) /\ ~Holds(t)' /\ ~InLine(t) /\ ~InLine(t)' /\ ~Keeps(t) /\ ~Keeps(t)'
    BY Zenon, <1>6, <1>8, <1>14 DEF Holds, InLine, Keeps, Served
  <1>16. LineRight'
    BY Zenon, <1>0, <1>2, <1>5, <1>6, <1>8, <1>9, <1>15, HLineQuiet DEF s
  <1>17. PassesRight'
    BY Zenon, <1>0, <1>2, <1>5, <1>6, <1>8, <1>9, <1>14, HPassesSame DEF s
  <1>18. \A u \in Of(s) : u # t =>
           /\ at'[u] = at[u] /\ ticket'[u] = ticket[u]
           /\ (Keeps(u)' <=> Keeps(u)) /\ (Holds(u)' <=> Holds(u))
    BY Zenon, <1>1, <1>5, <1>6, <1>7, <1>9, HSame DEF s
  <1>19. Of(s)' = Of(s) /\ \A u \in Of(s) : Keeps(u)' <=> Keeps(u)
    BY Zenon, <1>15, <1>18 DEF Of
  <1>20. Kept(s)' <=> Kept(s)
    BY Zenon, <1>19 DEF Kept
  <1>21. local'[s].nxt = n /\ local'[s].cur = cur /\ local[s].nxt = nxt /\ local[s].cur = cur
    BY Zenon, <1>5 DEF cur, nxt
  <1>22. \A u \in Of(s) : u # t /\ at[u] = "local" =>
            /\ ticket[u] < NB /\ nxt <= ticket[u] /\ ticket[u] <= cur
            /\ n <= ticket[u] /\ ticket[u] # n
    <2>1. \A u \in Of(s) : at[u] = "local" =>
            ticket[u] < NB /\ nxt <= ticket[u] /\ ticket[u] <= cur /\ ticket[u] \in Nat
      BY Zenon, <1>1, <1>11, <1>21 DEF TicketsRight
    <2> QED BY <1>12, <2>1
  <1>23. TicketsRight(s)'
    <2>1. \A u \in Of(s) : at'[u] = "local" =>
            /\ ticket'[u] < NB_TICKETS_LOCAL
            /\ local'[s].nxt <= ticket'[u] /\ ticket'[u] <= local'[s].cur
      <3>1. n <= n
        BY <1>12
      <3> QED BY Zenon, <1>1, <1>6, <1>7, <1>8, <1>13, <1>18, <1>21, <1>22, <3>1
    <2>2. ASSUME NEW u \in Of(s), NEW v \in Of(s), at'[u] = "local", at'[v] = "local", ticket'[u] = ticket'[v]
          PROVE  u = v
      <3>1. at'[t] = "local" => ticket'[t] = n
        BY Zenon, <1>6, <1>7, <1>8
      <3> QED BY Zenon, <1>11, <1>18, <1>22, <2>2, <3>1 DEF TicketsRight
    <2> QED BY Zenon, <1>13, <1>19, <1>21, <2>1, <2>2 DEF TicketsRight
  <1>24. KeeperRight(s)'
    <2>1. \A u, v \in Of(s) : Keeps(u)' /\ Keeps(v)' => u = v
      BY Zenon, <1>11, <1>19 DEF KeeperRight
    <2>2. \A u \in Of(s) : at'[u] \in {"queue", "global"} => local'[s].cur = NB_TICKETS_LOCAL
      BY Zenon, <1>6, <1>8, <1>11, <1>18, <1>21 DEF KeeperRight
    <2>3. ASSUME Kept(s)', NEW k \in 0 .. NB_TICKETS_LOCAL - 1, local'[s].nxt <= k, k < local'[s].cur
          PROVE  Waits(s, k)'
      <3>1. CASE k = n
        <4>1. n >= 0
          BY <1>1, <3>1
        <4> QED BY Zenon, <1>1, <1>6, <1>7, <1>8, <1>19, <3>1, <4>1 DEF Waits
      <3>2. CASE k # n
        <4>1. nxt <= k
          BY <1>1, <1>12, <1>21, <2>3, <3>2
        <4>2. Waits(s, k)
          BY Zenon, <1>11, <1>20, <1>21, <2>3, <4>1 DEF KeeperRight
        <4>3. PICK u \in Of(s) : at[u] = "local" /\ ticket[u] = k
          BY Zenon, <4>2 DEF Waits
        <4>4. at'[u] = "local" /\ ticket'[u] = k
          BY Zenon, <1>6, <1>18, <4>3
        <4> QED BY Zenon, <1>19, <4>4 DEF Waits
      <3> QED BY Zenon, <3>1, <3>2
    <2>4. ASSUME ~Kept(s)' PROVE local'[s].nxt <= 0 /\ \A u \in Of(s) : at'[u] # "local"
      <3>1. nxt <= 0 /\ \A u \in Of(s) : at[u] # "local"
        BY Zenon, <1>11, <1>20, <1>21, <2>4 DEF KeeperRight
      <3>2. n <= 0 /\ ~(n >= 0)
        BY <1>12, <3>1
      <3> QED BY Zenon, <1>6, <1>8, <1>18, <1>21, <3>1, <3>2
    <2> QED BY Zenon, <1>19, <2>1, <2>2, <2>3, <2>4 DEF KeeperRight
  <1>25. RefillRight(s)'
    <2>1. \A u \in Of(s) : u # t /\ at[u] = "refill" => nxt < 0 /\ n < 0 /\ n # -1
      BY <1>11, <1>12, <1>21 DEF RefillRight
    <2>2. ASSUME n = -1, Kept(s) PROVE cur < NB
      <3> SUFFICES ASSUME cur = NB PROVE FALSE
        BY <1>1, <1>12
      <3>1. PICK b \in Of(s) : Keeps(b)
        BY Zenon, <2>2 DEF Kept
      <3>2. at[b] # "local"
        <4>1. ASSUME at[b] = "local" PROVE FALSE
          <5>1. ticket[b] = cur /\ ticket[b] < NB
            BY Zenon, <1>1, <1>11, <1>21, <3>1, <4>1 DEF Keeps, Served, TicketsRight
          <5> QED BY <1>1, <5>1
        <4> QED BY Zenon, <4>1
      <3>3. \A k \in 0 .. NB - 1 : nxt <= k /\ k < cur
        BY <1>1, <1>12, <2>2
      <3>4. \A k \in 0 .. NB - 1 : Waits(s, k)
        BY Zenon, <1>1, <1>11, <1>21, <2>2, <3>3 DEF KeeperRight
      <3>5. at[t] # "local" /\ b # t
        BY Zenon, <1>6, <1>15, <3>1
      <3> QED BY Zenon, <1>1, <3>2, <3>4, <3>5, HCrowd
    <2>3. n = -1 => n < 0
      OBVIOUS
    <2>4. \A u \in Of(s) : at'[u] = "refill" =>
            local'[s].nxt < 0 /\ (Kept(s)' => local'[s].cur < NB_TICKETS_LOCAL)
      BY Zenon, <1>1, <1>6, <1>8, <1>11, <1>18, <1>20, <1>21, <2>1, <2>2, <2>3 DEF RefillRight
    <2>5. \A u, v \in Of(s) : at'[u] = "refill" /\ at'[v] = "refill" => u = v
      BY Zenon, <1>6, <1>8, <1>11, <1>18, <2>1 DEF RefillRight
    <2> QED BY Zenon, <1>19, <2>4, <2>5 DEF RefillRight
  <1>26. ReleaseRight(s)'
    <2>1. local'[s].cur < NB_TICKETS_LOCAL => \E u \in Of(s) : Holds(u)' /\ at'[u] # "try_cs"
      <3> SUFFICES ASSUME cur < NB_TICKETS_LOCAL PROVE \E u \in Of(s) : Holds(u)' /\ at'[u] # "try_cs"
        BY Zenon, <1>21
      <3>1. PICK u \in Of(s) : Holds(u) /\ at[u] # "try_cs"
        BY Zenon, <1>11, <1>21 DEF ReleaseRight
      <3>2. Holds(u)' /\ at'[u] # "try_cs"
        BY Zenon, <1>15, <1>18, <3>1
      <3> QED BY Zenon, <3>2
    <2>2. \A u \in Of(s) :
            /\ at'[u] = "up" => local'[s].cur = NB_TICKETS_LOCAL \/ ~Kept(s)'
            /\ at'[u] = "up2" => local'[s].cur = NB_TICKETS_LOCAL
            /\ at'[u] = "down" => ticket'[u] = local'[s].cur /\ local'[s].cur > 0 
      BY Zenon, <1>6, <1>8, <1>11, <1>18, <1>20, <1>21 DEF ReleaseRight
    <2>3. local'[s].nxt < local'[s].cur
      BY Zenon, <1>13, <1>21
    <2> QED BY Zenon, <1>19, <2>1, <2>2, <2>3 DEF ReleaseRight
  <1>27. SocketRight(Node(t))'
    BY Zenon, <1>23, <1>24, <1>25, <1>26 DEF SocketRight, s
  <1> QED BY Zenon, <1>9, <1>10, <1>16, <1>17, <1>27, HStep

\* New tickets are put out: none of the old ones is waited with.
LEMMA HRefill ==
  ASSUME Sizes, TicketInv, NEW t \in Threads, Refill(t)
  PROVE  TicketInv'
  <1> DEFINE s == Node(t)
  <1>0. TypeOK /\ LineRight /\ SocketRight(s) /\ PassesRight
    BY Zenon, HFacts
  <1>1. /\ s \in Sockets /\ t \in Of(s) /\ My(t) = local[s]
        /\ local[s].nxt \in Int /\ NB \in Nat /\ NB = NB_TICKETS_LOCAL
        /\ \A u \in Of(s) : u \in Threads
    BY Zenon, <1>0, HSocket DEF NB
  <1>2. /\ at[t] = "refill" /\ at'[t] = "queue" /\ at' \in [Threads -> Places]
        /\ \A u \in Threads : u # t => at'[u] = at[u]
    BY Zenon, <1>0, HMoves DEF Refill, Places
  <1>3. /\ ticket' = ticket /\ global' = global /\ passes' = passes /\ local[s].cur = NB
        /\ local' = [local EXCEPT ![s].nxt = NB]
    BY Zenon, <1>1 DEF Refill, Node
  <1>4. /\ local' \in [Sockets -> [cur : 0 .. NB_TICKETS_LOCAL, nxt : Int]]
        /\ local'[s].nxt = NB /\ local'[s].cur = NB
        /\ \A r \in Sockets : r # s => local'[r] = local[r]
    <2>1. NB \in Int
      BY <1>1
    <2> QED BY Zenon, <1>0, <1>3, <2>1, HSetsNxt
  <1>5. Alone(t) /\ local'[Node(t)].cur = local[Node(t)].cur
    BY Zenon, <1>2, <1>3, <1>4 DEF Alone
  <1>6. TypeOK'
    BY Zenon, <1>0, <1>2, <1>3, <1>4 DEF TypeOK
  <1>7. ~InLine(t) /\ ~InLine(t)' /\ ~Served(t)' /\ Keeps(t)'
    BY Zenon, <1>2 DEF InLine, Holds, Served, Keeps
  <1>8. LineRight'
    BY Zenon, <1>0, <1>2, <1>3, <1>5, <1>7, HLineQuiet
  <1>9. PassesRight'
    BY Zenon, <1>0, <1>2, <1>3, <1>5, <1>7, HPassesSame
  <1>10. /\ TicketsRight(s) /\ KeeperRight(s) /\ RefillRight(s) /\ ReleaseRight(s)
    BY Zenon, <1>0 DEF SocketRight
  <1>11. ~(NB < NB)
    BY <1>1
  <1>12. ~Kept(s) /\ \A u \in Of(s) : ~Keeps(u) /\ at[u] # "local"
    BY Zenon, <1>1, <1>2, <1>3, <1>10, <1>11 DEF RefillRight, KeeperRight, Kept
  <1>13. Of(s)' = Of(s) /\ \A u \in Of(s) : u # t => at'[u] = at[u] /\ ticket'[u] = ticket[u] /\ ~Keeps(u)'
    BY Zenon, <1>1, <1>2, <1>3, <1>5, <1>12, HSame DEF Of
  <1> HIDE DEF s
  <1>14. \A u \in Of(s) : at'[u] # "local"
    BY Zenon, <1>2, <1>12, <1>13
  <1>15. TicketsRight(s)'
    <2>1. NB <= NB
      BY <1>1
    <2> QED BY Zenon, <1>4, <1>13, <1>14, <2>1 DEF TicketsRight
  <1>16. KeeperRight(s)'
    <2>1. \A k \in 0 .. NB - 1 : ~(NB <= k /\ k < NB)
      BY <1>1
    <2>2. Kept(s)'
      BY Zenon, <1>1, <1>7, <1>13 DEF Kept
    <2> QED BY Zenon, <1>1, <1>4, <1>13, <2>1, <2>2 DEF KeeperRight
  <1>17. RefillRight(s)'
    <2>1. \A u \in Of(s) : at'[u] # "refill"
      BY Zenon, <1>1, <1>2, <1>10, <1>13 DEF RefillRight
    <2> QED BY Zenon, <1>13, <2>1 DEF RefillRight
  <1>18. ReleaseRight(s)'
    <2>1. \A u \in Of(s) : at'[u] # "down"
      BY ZenonT(60), <1>2, <1>12, <1>13 DEF Keeps
    <2> QED BY Zenon, <1>1, <1>4, <1>11, <1>13, <2>1 DEF ReleaseRight
  <1>19. SocketRight(Node(t))'
    BY Zenon, <1>15, <1>16, <1>17, <1>18 DEF SocketRight, s
  <1> QED BY Zenon, <1>5, <1>6, <1>8, <1>9, <1>19, HStep

\* A record of a socket is given by its fields.
LEMMA HFields ==
  ASSUME Sizes, TypeOK, NEW t \in Threads, local' \in [Sockets -> [cur : 0 .. NB_TICKETS_LOCAL, nxt : Int]],
         local'[Node(t)].cur = local[Node(t)].cur, local'[Node(t)].nxt = local[Node(t)].nxt
  PROVE  local'[Node(t)] = local[Node(t)]
  <1>1. Node(t) \in Sockets
    BY Zenon, HSizes DEF Node
  <1>2. /\ local[Node(t)] \in [cur : 0 .. NB_TICKETS_LOCAL, nxt : Int]
        /\ local'[Node(t)] \in [cur : 0 .. NB_TICKETS_LOCAL, nxt : Int]
    BY Zenon, <1>1 DEF TypeOK
  <1> QED BY <1>2

\* The thread that holds the lock does so alone, and nobody waits with its ticket.
LEMMA HHolder ==
  ASSUME Sizes, TicketInv, NEW t \in Threads, at[t] \in {"cs", "up", "down"}
  PROVE  /\ Holds(t) /\ \A u \in Threads : u # t => ~Holds(u)
         /\ \A u \in Of(Node(t)) : u # t /\ at[u] = "local" => ticket[u] # local[Node(t)].cur
         /\ at[t] # "up" => Keeps(t) /\ \A u \in Of(Node(t)) : u # t => ~Keeps(u)
  <1>0. TypeOK /\ LineRight /\ SocketRight(Node(t))
    BY Zenon, HFacts
  <1>1. Holds(t) /\ \A u \in Threads : u # t => ~Holds(u)
    BY Zenon, <1>0, HOne DEF Holds
  <1>2. \A u \in Of(Node(t)) : u # t /\ at[u] = "local" => ticket[u] # local[Node(t)].cur
    BY Zenon, <1>0, <1>1, HSocket DEF Holds, Served
  <1>3. ASSUME at[t] # "up" PROVE Keeps(t) /\ \A u \in Of(Node(t)) : u # t => ~Keeps(u)
    <2>1. Keeps(t)
      BY Zenon, <1>3 DEF Keeps
    <2> QED BY Zenon, <1>0, <2>1, HSocket DEF SocketRight, KeeperRight
  <1> QED BY Zenon, <1>1, <1>2, <1>3

\* htlock_release decides whether the lock stays on the socket.
LEMMA HRelease ==
  ASSUME Sizes, TicketInv, NEW t \in Threads, Release(t)
  PROVE  TicketInv'
  <1> DEFINE s == Node(t)
             cur == local[s].cur
             nxt == local[s].nxt
             up == cur = 0 \/ cur = nxt
             n == IF nxt = cur THEN 0 ELSE nxt
             to == IF up THEN "up" ELSE "down"
  <1>0. TypeOK /\ LineRight /\ SocketRight(s) /\ PassesRight
    BY Zenon, HFacts
  <1>1. /\ s \in Sockets /\ t \in Of(s) /\ My(t) = local[s] /\ cur \in 0 .. NB
        /\ nxt \in Int /\ NB \in Nat /\ NB = NB_TICKETS_LOCAL
        /\ \A u \in Of(s) : u \in Threads /\ ticket[u] \in Nat
    BY Zenon, <1>0, HSocket DEF NB
  <1>2. /\ Move(t, "cs", to) /\ local' = [local EXCEPT ![s].nxt = n]
        /\ ticket' = [ticket EXCEPT ![t] = cur] /\ global' = global /\ passes' = passes
    BY Zenon, <1>1 DEF Release, Node
  <1>3. n \in Int /\ cur \in Nat
    BY <1>1
  <1>4. to \in Places
    BY Zenon DEF Places
  <1>5. /\ local' \in [Sockets -> [cur : 0 .. NB_TICKETS_LOCAL, nxt : Int]]
        /\ local'[s].nxt = n /\ local'[s].cur = cur
        /\ \A r \in Sockets : r # s => local'[r] = local[r]
    BY ZenonT(60), <1>0, <1>2, <1>3, HSetsNxt
  <1>6. /\ at[t] = "cs" /\ at'[t] = to /\ at' \in [Threads -> Places]
        /\ \A u \in Threads : u # t => at'[u] = at[u]
    BY ZenonT(60), <1>0, <1>2, <1>4, HMoves
  <1>7. /\ ticket'[t] = cur /\ ticket' \in [Threads -> Nat]
        /\ \A u \in Threads : u # t => ticket'[u] = ticket[u]
    BY Zenon, <1>0, <1>2, <1>3, HWrites
  <1>8. Alone(t) /\ local'[Node(t)].cur = local[Node(t)].cur
    BY Zenon, <1>5, <1>6, <1>7 DEF Alone
  <1>9. TypeOK'
    BY Zenon, <1>0, <1>2, <1>5, <1>6, <1>7 DEF TypeOK
  <1>10. /\ TicketsRight(s) /\ KeeperRight(s) /\ RefillRight(s) /\ ReleaseRight(s)
    BY Zenon, <1>0 DEF SocketRight
  <1>11. /\ Holds(t) /\ \A u \in Threads : u # t => ~Holds(u)
         /\ \A u \in Of(s) : u # t /\ at[u] = "local" => ticket[u] # cur
         /\ Keeps(t) /\ \A u \in Of(s) : u # t => ~Keeps(u)
    BY Zenon, <1>6, HHolder
  <1>12. (to = "up" <=> up) /\ to \in {"up", "down"}
    BY Zenon
  <1> HIDE DEF s, to
  <1>13. /\ Holds(t)' /\ InLine(t) /\ InLine(t)' /\ ~Served(t)' /\ Place(t) = 0 /\ Place(t)' = 0
         /\ Keeps(t)' <=> to = "down"
    BY Zenon, <1>6, <1>11, <1>12 DEF Holds, InLine, Served, Place, Keeps
  <1>14. LineRight'
    BY Zenon, <1>0, <1>2, <1>6, <1>8, <1>12, <1>13, HLineQuiet
  <1>15. PassesRight'
    BY Zenon, <1>0, <1>2, <1>6, <1>8, <1>13, HPassesSame
  <1>16. nxt <= cur
    BY ZenonT(60), <1>10 DEF TicketsRight
  <1>17. CASE ~up
    <2>1. cur > 0 /\ nxt < cur /\ n = nxt
      BY <1>1, <1>16, <1>17
    <2>2. local'[Node(t)] = local[Node(t)]
      BY Zenon, <1>0, <1>5, <2>1, HFields DEF s
    <2>3. at'[t] = "down"
      BY Zenon, <1>6, <1>12, <1>17
    <2>4. SocketRight(Node(t))'
      BY ZenonT(60), <1>0, <1>6, <1>7, <1>8, <1>11, <1>12, <1>13, <2>1, <2>2, <2>3, HQuiet DEF s
    <2> QED BY Zenon, <1>8, <1>9, <1>14, <1>15, <2>4, HStep
  <1>18. CASE up
    <2>1. /\ n <= cur /\ n <= 0 /\ (nxt < 0 => n = nxt)
          /\ \A k \in Nat : nxt <= k /\ k <= cur => k = cur
      BY <1>1, <1>16, <1>18
    <2>2. at'[t] = "up"
      BY Zenon, <1>6, <1>12, <1>18
    <2>3. \A u \in Of(s) : at[u] # "local"
      BY Zenon, <1>1, <1>6, <1>10, <1>11, <2>1 DEF TicketsRight
    <2>4. /\ Of(s)' = Of(s)
          /\ \A u \in Of(s) : u # t => at'[u] = at[u] /\ ~Keeps(u)' /\ ~Holds(u)
      BY Zenon, <1>1, <1>6, <1>8, <1>11, HSame DEF Of
    <2>5. \A u \in Of(s) : at'[u] # "local" /\ ~Keeps(u)'
      BY Zenon, <1>12, <1>13, <1>6, <2>2, <2>3, <2>4
    <2>6. ~Kept(s)'
      BY Zenon, <2>4, <2>5 DEF Kept
    <2>7. TicketsRight(s)'
      BY Zenon, <1>5, <2>1, <2>4, <2>5 DEF TicketsRight
    <2>8. KeeperRight(s)'
      <3>1. \A u \in Of(s) : at'[u] \notin {"queue", "global"}
        BY Zenon, <2>5 DEF Keeps
      <3> QED BY Zenon, <1>5, <2>1, <2>4, <2>5, <2>6, <3>1 DEF KeeperRight
    <2>9. RefillRight(s)'
      <3>1. \A u \in Of(s) : at'[u] = "refill" => at[u] = "refill" /\ nxt < 0
        BY Zenon, <1>10, <2>2, <2>4 DEF RefillRight
      <3>2. \A u \in Of(s) : at'[u] = "refill" => local'[s].nxt < 0
        BY Zenon, <1>5, <2>1, <3>1
      <3> QED BY Zenon, <1>10, <2>4, <2>6, <3>1, <3>2 DEF RefillRight
    <2>10. ReleaseRight(s)'
      <3>1. \A u \in Of(s) : u # t => at'[u] \notin {"up", "up2", "down"}
        BY Zenon, <2>4 DEF Holds
      <3>2. \A u \in Of(s) : at'[u] \notin {"up2", "down"}
        BY Zenon, <2>2, <3>1
      <3> QED BY Zenon, <1>1, <1>13, <2>2, <2>4, <2>6, <3>2 DEF ReleaseRight
    <2>11. SocketRight(Node(t))'
      BY Zenon, <2>7, <2>8, <2>9, <2>10 DEF SocketRight, s
    <2> QED BY Zenon, <1>8, <1>9, <1>14, <1>15, <2>11, HStep
  <1> QED BY Zenon, <1>17, <1>18

\* The socket's current ticket is reset, before the global lock is released.
LEMMA HResetLocal ==
  ASSUME Sizes, TicketInv, NEW t \in Threads, ResetLocal(t)
  PROVE  TicketInv'
  <1> DEFINE s == Node(t)
  <1>0. TypeOK /\ LineRight /\ SocketRight(s) /\ PassesRight
    BY Zenon, HFacts
  <1>1. /\ s \in Sockets /\ t \in Of(s) /\ My(t) = local[s] /\ local[s].cur \in 0 .. NB
        /\ local[s].nxt \in Int /\ NB \in Nat /\ NB = NB_TICKETS_LOCAL
        /\ \A u \in Of(s) : u \in Threads
    BY Zenon, <1>0, HSocket DEF NB
  <1>2. /\ at[t] = "up" /\ at'[t] = "up2" /\ at' \in [Threads -> Places]
        /\ \A u \in Threads : u # t => at'[u] = at[u]
    BY Zenon, <1>0, HMoves DEF ResetLocal, Places
  <1>3. /\ ticket' = ticket /\ global' = global /\ passes' = passes
        /\ local' = [local EXCEPT ![s].cur = NB_TICKETS_LOCAL]
    BY Zenon, <1>1 DEF ResetLocal, Node
  <1>4. /\ local' \in [Sockets -> [cur : 0 .. NB_TICKETS_LOCAL, nxt : Int]]
        /\ local'[s].cur = NB /\ local'[s].nxt = local[s].nxt
        /\ \A r \in Sockets : r # s => local'[r] = local[r]
    <2>1. NB_TICKETS_LOCAL \in 0 .. NB_TICKETS_LOCAL
      BY <1>1
    <2> QED BY Zenon, <1>0, <1>1, <1>3, <2>1, HSetsCur
  <1>5. Alone(t)
    BY Zenon, <1>2, <1>3, <1>4 DEF Alone
  <1>6. TypeOK'
    BY Zenon, <1>0, <1>2, <1>3, <1>4 DEF TypeOK
  <1>7. /\ Holds(t) /\ Holds(t)' /\ InLine(t) /\ InLine(t)' /\ Place(t) = 0 /\ Place(t)' = 0
        /\ ~Served(t)' /\ ~Keeps(t) /\ ~Keeps(t)'
    BY Zenon, <1>2 DEF Holds, InLine, Place, Keeps, Served
  <1>8. CASE local[s].cur = NB
    <2>1. local'[Node(t)] = local[Node(t)]
      BY Zenon, <1>0, <1>4, <1>8, HFields
    <2>2. LineRight'
      BY Zenon, <1>0, <1>2, <1>3, <1>5, <1>7, <2>1, HLineQuiet
    <2>3. PassesRight'
      BY Zenon, <1>0, <1>2, <1>3, <1>5, <1>7, <2>1, HPassesSame
    <2>4. SocketRight(Node(t))'
      BY ZenonT(60), <1>0, <1>2, <1>5, <1>7, <1>8, <2>1, HQuiet
    <2> QED BY Zenon, <1>5, <1>6, <2>2, <2>3, <2>4, HStep
  <1>9. CASE local[s].cur # NB
    <2>1. /\ TicketsRight(s) /\ KeeperRight(s) /\ RefillRight(s) /\ ReleaseRight(s)
      BY Zenon, <1>0 DEF SocketRight
    <2>2. ~Kept(s) /\ local[s].nxt <= 0 /\ \A u \in Of(s) : at[u] # "local" /\ ~Keeps(u)
      BY Zenon, <1>1, <1>2, <1>9, <2>1 DEF ReleaseRight, KeeperRight, Kept
    <2>3. \A u \in Threads : u # t => (Served(u)' <=> Served(u))
      <3>1. ASSUME NEW u \in Threads, u # t, u \in Of(s) PROVE Served(u)' <=> Served(u)
        BY Zenon, <1>2, <2>2, <3>1 DEF Served
      <3>2. ASSUME NEW u \in Threads, u # t, u \notin Of(s) PROVE Served(u)' <=> Served(u)
        <4>1. My(u)' = My(u)
          BY Zenon, <1>4, <3>2, HSizes DEF My, Of, Node
        <4> QED BY Zenon, <1>2, <1>3, <3>2, <4>1 DEF Served
      <3> QED BY Zenon, <3>1, <3>2
    <2>4. \A u \in Threads : u # t =>
            /\ Holds(u)' <=> Holds(u)
            /\ Keeps(u)' <=> Keeps(u)
            /\ InLine(u)' <=> InLine(u)
            /\ Place(u)' = Place(u)
      <3>1. \A n : Ahead(n)' = Ahead(n)
        BY Zenon, <1>3 DEF Ahead
      <3>2. ASSUME NEW u \in Threads, u # t
            PROVE  (Holds(u)' <=> Holds(u)) /\ (Keeps(u)' <=> Keeps(u)) /\ (InLine(u)' <=> InLine(u))
        BY Zenon, <1>2, <2>3, <3>2 DEF Holds, Keeps, InLine
      <3>3. ASSUME NEW u \in Threads, u # t PROVE Place(u)' = Place(u)
        <4>1. Ahead(ticket[u])' = Ahead(ticket[u])
          BY Zenon, <1>3 DEF Ahead
        <4> QED BY Zenon, <3>2, <3>3, <4>1 DEF Place
      <3> QED BY Zenon, <3>2, <3>3
    <2>5. LineRight'
      <3>1. \A u \in Threads : /\ InLine(u)' <=> InLine(u)
                               /\ InLine(u) => Place(u)' = Place(u)
                               /\ at'[u] = "global" => at[u] = "global" /\ ticket'[u] = ticket[u]
        BY Zenon, <1>2, <1>3, <1>7, <2>4
      <3> QED BY Zenon, <1>0, <1>3, <3>1, HLineSame
    <2>6. \A u \in Threads : u # t => ~Holds(u) /\ ~Holds(u)'
      BY Zenon, <1>0, <1>7, <2>4, HOne
    <2>7. PassesRight'
      <3>1. \A u \in Threads : at'[u] \notin {"cs", "down"} /\ ~Served(u)'
        BY Zenon, <1>2, <1>7, <2>6 DEF Holds
      <3> QED BY Zenon, <1>0, <1>3, <3>1 DEF PassesRight
    <2>8. Of(s)' = Of(s) /\ \A u \in Of(s) : ~Keeps(u)' /\ at'[u] # "local"
      BY Zenon, <1>1, <1>2, <1>7, <2>2, <2>4 DEF Of
    <2> HIDE DEF s
    <2>9. ~Kept(s)'
      BY Zenon, <2>8 DEF Kept
    <2>10. TicketsRight(s)'
      <3>1. local[s].nxt <= NB
        BY <1>1, <2>2
      <3> QED BY Zenon, <1>4, <2>8, <3>1 DEF TicketsRight
    <2>11. KeeperRight(s)'
      <3>1. \A u \in Of(s) : at'[u] \notin {"queue", "global"}
        BY Zenon, <2>8 DEF Keeps
      <3> QED BY Zenon, <1>4, <2>2, <2>8, <2>9, <3>1 DEF KeeperRight
    <2>12. RefillRight(s)'
      <3>1. \A u \in Of(s) : at'[u] = "refill" => at[u] = "refill"
        BY Zenon, <1>1, <1>2
      <3> QED BY Zenon, <1>4, <2>1, <2>8, <2>9, <3>1 DEF RefillRight
    <2>13. ReleaseRight(s)'
      <3>1. \A u \in Of(s) : at'[u] # "down"
        BY Zenon, <1>1, <1>2, <2>6 DEF Holds
      <3>2. ~(NB < NB)
        BY <1>1
      <3> QED BY Zenon, <1>1, <1>4, <2>8, <2>9, <3>1, <3>2 DEF ReleaseRight
    <2>14. SocketRight(Node(t))'
      BY Zenon, <2>10, <2>11, <2>12, <2>13 DEF SocketRight, s
    <2> QED BY Zenon, <1>5, <1>6, <2>5, <2>7, <2>14, HStep
  <1> QED BY Zenon, <1>8, <1>9

\* The lock is passed on to the thread with the next ticket.
LEMMA HPassOn ==
  ASSUME Sizes, TicketInv, NEW t \in Threads, PassOn(t)
  PROVE  TicketInv'
  <1> DEFINE s == Node(t)
             cur == local[s].cur
             nxt == local[s].nxt
             c == cur - 1
  <1>0. TypeOK /\ LineRight /\ SocketRight(s) /\ PassesRight
    BY Zenon, HFacts
  <1>1. /\ s \in Sockets /\ t \in Of(s) /\ My(t) = local[s] /\ cur \in 0 .. NB
        /\ nxt \in Int /\ NB \in Nat /\ NB = NB_TICKETS_LOCAL
        /\ \A u \in Of(s) : u \in Threads /\ ticket[u] \in Nat
    BY Zenon, <1>0, HSocket DEF NB
  <1>2. /\ at[t] = "down" /\ at'[t] = "out" /\ at' \in [Threads -> Places]
        /\ \A u \in Threads : u # t => at'[u] = at[u]
    BY Zenon, <1>0, HMoves DEF PassOn, Places
  <1>3. /\ TicketsRight(s) /\ KeeperRight(s) /\ RefillRight(s) /\ ReleaseRight(s)
    BY Zenon, <1>0 DEF SocketRight
  <1>4. ticket[t] = cur /\ cur > 0 /\ nxt < cur
    BY Zenon, <1>1, <1>2, <1>3 DEF ReleaseRight
  <1>5. /\ global' = global /\ passes' = passes
        /\ local' = [local EXCEPT ![s].cur = c] /\ ticket' = [ticket EXCEPT ![t] = 0]
    BY Zenon, <1>4 DEF PassOn, Node
  <1>6. /\ c \in 0 .. NB - 1 /\ c \in 0 .. NB_TICKETS_LOCAL /\ nxt <= c /\ c < cur /\ c # cur /\ c < NB
        /\ c = cur - 1
    BY <1>1, <1>4
  <1>7. /\ local' \in [Sockets -> [cur : 0 .. NB_TICKETS_LOCAL, nxt : Int]]
        /\ local'[s].cur = c /\ local'[s].nxt = nxt
        /\ \A r \in Sockets : r # s => local'[r] = local[r]
    BY Zenon, <1>0, <1>5, <1>6, HSetsCur
  <1>8. ticket' \in [Threads -> Nat] /\ \A u \in Threads : u # t => ticket'[u] = ticket[u]
    <2>1. 0 \in Nat
      OBVIOUS
    <2> QED BY Zenon, <1>0, <1>5, <2>1, HWrites
  <1>9. Alone(t)
    BY Zenon, <1>2, <1>7, <1>8 DEF Alone
  <1>10. TypeOK'
    BY Zenon, <1>0, <1>2, <1>5, <1>7, <1>8 DEF TypeOK
  <1>11. /\ Holds(t) /\ \A u \in Threads : u # t => ~Holds(u)
         /\ \A u \in Of(s) : u # t /\ at[u] = "local" => ticket[u] # cur
         /\ Keeps(t) /\ \A u \in Of(s) : u # t => ~Keeps(u)
    BY Zenon, <1>2, HHolder
  <1>12. PICK w \in Of(s) : at[w] = "local" /\ ticket[w] = c
    <2>1. Kept(s)
      BY Zenon, <1>1, <1>11 DEF Kept
    <2>2. Waits(s, c)
      BY Zenon, <1>1, <1>3, <1>6, <2>1 DEF KeeperRight
    <2> QED BY Zenon, <2>2 DEF Waits
  <1>13. w # t /\ w \in Threads /\ at'[w] = "local" /\ ticket'[w] = c
    BY Zenon, <1>1, <1>2, <1>8, <1>12
  <1> HIDE DEF c
  <1>14. \A u \in Of(s) : My(u)' = local'[s]
    BY Zenon DEF My, Of
  <1>15. Served(w)' /\ Holds(w)' /\ Keeps(w)' /\ ~InLine(w)
    <2>1. Served(w)'
      BY Zenon, <1>7, <1>13, <1>14 DEF Served
    <2> QED BY Zenon, <1>11, <1>12, <1>13, <2>1 DEF Holds, Keeps, InLine
  <1>16. ~InLine(t)' /\ ~Keeps(t)' /\ ~Served(t)'
    BY Zenon, <1>2 DEF InLine, Holds, Keeps, Served
  <1>17. \A u \in Threads : u # t /\ u # w => ~Served(u)'
    <2>1. ASSUME NEW u \in Threads, u # t, u # w, u \in Of(s) PROVE ~Served(u)'
      BY ZenonT(60), <1>2, <1>3, <1>7, <1>8, <1>12, <1>14, <2>1 DEF Served, TicketsRight
    <2>2. ASSUME NEW u \in Threads, u # t, u # w, u \notin Of(s) PROVE ~Served(u)'
      <3>1. My(u)' = My(u)
        BY Zenon, <1>7, <2>2, HSizes DEF My, Of, Node
      <3>2. Served(u)' => Served(u)
        BY Zenon, <1>2, <1>8, <2>2, <3>1 DEF Served
      <3> QED BY Zenon, <1>11, <2>2, <3>2 DEF Holds
    <2> QED BY Zenon, <2>1, <2>2
  <1>18. \A u \in Threads : u # t /\ u # w => ~Holds(u) /\ ~Holds(u)'
    BY Zenon, <1>2, <1>11, <1>17 DEF Holds
  <1>19. LineRight'
    <2>1. \A u \in Threads : u # t => at'[u] = at[u] /\ ticket'[u] = ticket[u]
      BY Zenon, <1>2, <1>8
    <2>2. \A u \in Threads : u # t /\ u # w => (Holds(u)' <=> Holds(u))
      BY Zenon, <1>18
    <2> QED BY Zenon, <1>0, <1>5, <1>11, <1>13, <1>15, <1>16, <2>1, <2>2, HLinePass
  <1>20. PassesRight'
    <2>1. passes = NB_TICKETS_LOCAL + 1 - cur /\ passes <= NB_TICKETS_LOCAL + 1
      BY Zenon, <1>0, <1>1, <1>2 DEF PassesRight
    <2>2. passes' = NB_TICKETS_LOCAL - c /\ passes' <= NB_TICKETS_LOCAL + 1
      BY <1>1, <1>5, <1>6, <2>1
    <2>3. My(w)'.cur = c
      BY Zenon, <1>7, <1>14
    <2>4. \A u \in Threads : at'[u] \notin {"cs", "down"}
      BY Zenon, <1>2, <1>13, <1>18 DEF Holds
    <2>5. \A u \in Threads : Served(u)' => u = w
      BY Zenon, <1>16, <1>17
    <2> QED BY Zenon, <2>2, <2>3, <2>4, <2>5 DEF PassesRight
  <1>21. Of(s)' = Of(s) /\ \A u \in Of(s) : u # t => at'[u] = at[u] /\ ticket'[u] = ticket[u]
    BY Zenon, <1>1, <1>2, <1>8 DEF Of
  <1>22. \A u \in Of(s) : Keeps(u)' => u = w
    BY Zenon, <1>1, <1>2, <1>11, <1>16, <1>17 DEF Keeps
  <1>23. local[s].cur = cur /\ local[s].nxt = nxt
    BY Zenon
  <1>24. \A u \in Of(s) : at'[u] = "local" => u # t /\ at[u] = "local"
    BY Zenon, <1>2, <1>21
  <1> HIDE DEF s, cur, nxt
  <1>25. TicketsRight(s)'
    <2>1. \A u \in Of(s) : u # t /\ at[u] = "local" =>
            /\ ticket[u] < NB_TICKETS_LOCAL /\ nxt <= ticket[u] /\ ticket[u] <= cur
            /\ ticket[u] # cur /\ ticket[u] \in Nat
      BY Zenon, <1>1, <1>3, <1>11, <1>23 DEF TicketsRight
    <2>2. \A u \in Of(s) : u # t /\ at[u] = "local" => ticket[u] <= c
      BY <1>1, <1>6, <2>1
    <2> QED BY ZenonT(60), <1>3, <1>6, <1>7, <1>21, <1>24, <2>1, <2>2 DEF TicketsRight
  <1>26. KeeperRight(s)'
    <2>1. \A u \in Of(s) : at'[u] \notin {"queue", "global"}
      BY Zenon, <1>13, <1>22 DEF Keeps
    <2>2. Kept(s)'
      BY Zenon, <1>12, <1>15, <1>21 DEF Kept
    <2>3. ASSUME NEW k \in 0 .. NB_TICKETS_LOCAL - 1, nxt <= k, k < c PROVE Waits(s, k)'
      <3>1. k < cur
        BY <1>1, <1>6, <2>3
      <3>2. Kept(s)
        BY Zenon, <1>1, <1>11 DEF Kept
      <3>3. Waits(s, k)
        BY Zenon, <1>3, <1>23, <2>3, <3>1, <3>2 DEF KeeperRight
      <3>4. PICK u \in Of(s) : at[u] = "local" /\ ticket[u] = k
        BY Zenon, <3>3 DEF Waits
      <3>5. at'[u] = "local" /\ ticket'[u] = k
        BY Zenon, <1>2, <1>21, <3>4
      <3> QED BY Zenon, <1>21, <3>5 DEF Waits
    <2> QED BY Zenon, <1>7, <1>21, <1>22, <2>1, <2>2, <2>3 DEF KeeperRight
  <1>27. RefillRight(s)'
    <2>1. \A u \in Of(s) : at'[u] = "refill" => at[u] = "refill"
      BY Zenon, <1>2, <1>21
    <2> QED BY Zenon, <1>1, <1>3, <1>6, <1>7, <1>21, <1>23, <2>1 DEF RefillRight
  <1>28. ReleaseRight(s)'
    <2>1. \A u \in Of(s) : at'[u] \notin {"up", "up2", "down"}
      BY Zenon, <1>1, <1>2, <1>13, <1>18 DEF Holds
    <2> QED BY Zenon, <1>12, <1>13, <1>15, <1>21, <2>1 DEF ReleaseRight
  <1>29. SocketRight(Node(t))'
    BY Zenon, <1>25, <1>26, <1>27, <1>28 DEF SocketRight, s
  <1> QED BY ZenonT(60), <1>9, <1>10, <1>19, <1>20, <1>29, HStep

\* init_htlock leaves the line and the sockets empty.
LEMMA HInit ==
  ASSUME Sizes, Init
  PROVE  TicketInv
  <1>0. W \in Nat \ {0} /\ NB \in Nat /\ NB = NB_TICKETS_LOCAL
    BY Zenon, HSizes DEF NB
  <1>1. 0 \in 0 .. W - 1 /\ NB \in 0 .. NB /\ 0 \in Int /\ 0 \in Nat /\ 0 <= NB /\ ~(NB < NB) /\ 0 <= NB + 1
    BY <1>0
  <1>2. /\ global = [cur |-> 0, nxt |-> 0] /\ passes = 0
        /\ local = [s \in Sockets |-> [cur |-> NB, nxt |-> 0]]
        /\ ticket = [t \in Threads |-> 0] /\ at = [t \in Threads |-> "out"]
    BY Zenon DEF Init, NB
  <1>3. TypeOK
    BY Zenon, <1>0, <1>1, <1>2 DEF TypeOK, Places
  <1>4. \A t \in Threads : at[t] = "out" /\ ~Served(t) /\ ~Holds(t) /\ ~InLine(t) /\ ~Keeps(t)
    BY Zenon, <1>2 DEF Served, Holds, InLine, Keeps
  <1>5. LineRight
    <2>1. Line = {}
      BY Zenon, <1>4 DEF Line
    <2>2. global.nxt = global.cur /\ global.nxt \in 0 .. W - 1
      BY Zenon, <1>1, <1>2
    <2>3. Ahead(global.nxt) = 0
      BY Zenon, <1>3, <2>2, HAhead
    <2> QED BY Zenon, <1>4, <2>1, <2>3, FS_EmptySet DEF LineRight
  <1>6. ASSUME NEW s \in Sockets PROVE SocketRight(s)
    <2>1. local[s].cur = NB /\ local[s].nxt = 0 /\ \A t \in Of(s) : at[t] = "out" /\ ~Keeps(t)
      BY Zenon, <1>2, <1>4 DEF Of
    <2>2. ~Kept(s)
      BY Zenon, <2>1 DEF Kept
    <2>3. 0 <= 0
      OBVIOUS
    <2>4. TicketsRight(s)
      BY Zenon, <1>1, <2>1 DEF TicketsRight
    <2>5. KeeperRight(s)
      BY Zenon, <2>1, <2>2, <2>3 DEF KeeperRight
    <2>6. RefillRight(s)
      BY Zenon, <2>1 DEF RefillRight
    <2>7. ReleaseRight(s)
      BY Zenon, <1>0, <1>1, <2>1 DEF ReleaseRight
    <2> QED BY Zenon, <2>4, <2>5, <2>6, <2>7 DEF SocketRight
  <1>7. PassesRight
    BY Zenon, <1>0, <1>1, <1>2, <1>4 DEF PassesRight
  <1> QED BY Zenon, <1>3, <1>5, <1>6, <1>7 DEF TicketInv

\* At most one thread holds the lock, and it stays in a socket for at most
\* NB_TICKETS_LOCAL + 1 critical sections, as the comment on NB_TICKETS_LOCAL says.
THEOREM HTicketExclusion ==
  ASSUME Sizes
  PROVE  Spec => [](TicketInv /\ Exclusion /\ BoundedPasses)
  <1>1. Init => TicketInv
    BY Zenon, HInit
  <1>2. TicketInv /\ [Next]_vars => TicketInv'
    <2> SUFFICES ASSUME TicketInv, [Next]_vars PROVE TicketInv'
      OBVIOUS
    <2>1. CASE UNCHANGED vars
      <3>1. /\ global' = global /\ local' = local /\ ticket' = ticket /\ at' = at /\ passes' = passes
        BY Zenon, <2>1 DEF vars
      <3>2. \A t \in Threads : /\ Served(t)' <=> Served(t)
                               /\ Holds(t)' <=> Holds(t)
                               /\ InLine(t)' <=> InLine(t)
                               /\ Keeps(t)' <=> Keeps(t)
                               /\ My(t)' = My(t)
        BY Zenon, <3>1 DEF Served, Holds, InLine, Keeps, My
      <3>3. LineRight'
        <4>1. \A t \in Threads : Place(t)' = Place(t)
          BY Zenon, <3>1, <3>2 DEF Place, Ahead
        <4> QED BY Zenon, <3>1, <3>2, <4>1, HLineSame DEF TicketInv
      <3>4. TypeOK' /\ PassesRight'
        BY Zenon, <3>1, <3>2 DEF TicketInv, TypeOK, PassesRight
      <3>5. ASSUME NEW s \in Sockets PROVE SocketRight(s)'
        <4>1. Of(s)' = Of(s) /\ Of(s) \subseteq Threads
          BY Zenon DEF Of
        <4>2. (Kept(s)' <=> Kept(s)) /\ \A k : Waits(s, k)' <=> Waits(s, k)
          BY Zenon, <3>1, <3>2, <4>1 DEF Kept, Waits
        <4>3. TicketsRight(s)' /\ KeeperRight(s)'
          BY ZenonT(60), <3>1, <3>2, <4>1, <4>2 DEF TicketInv, SocketRight, TicketsRight, KeeperRight
        <4>4. RefillRight(s)' /\ ReleaseRight(s)'
          BY ZenonT(60), <3>1, <3>2, <4>1, <4>2 DEF TicketInv, SocketRight, RefillRight, ReleaseRight
        <4> QED BY Zenon, <4>3, <4>4 DEF SocketRight
      <3> QED BY Zenon, <3>3, <3>4, <3>5 DEF TicketInv
    <2>2. ASSUME NEW t \in Threads, Step(t) \/ TakeLocal(t) \/ TryRead(t) \/ TryCas(t) PROVE TicketInv'
      BY ZenonT(60), <2>2, HWaitLocal, HRefill, HTakeGlobal, HWaitGlobal, HRelease, HResetLocal,
         HReleaseGlobal, HPassOn, HTakeLocal, HTry DEF Step
    <2> QED BY Zenon, <2>1, <2>2 DEF Next
  <1>3. TicketInv => Exclusion /\ BoundedPasses
    <2> SUFFICES ASSUME TicketInv PROVE Exclusion /\ BoundedPasses
      OBVIOUS
    <2> DEFINE S == {t \in Threads : at[t] \in {"cs", "try_cs"}}
    <2>1. \A t, u \in S : t = u
      BY Zenon, HOne DEF TicketInv, Holds
    <2> HIDE DEF S
    <2>2. S = {} \/ \E t : S = {t}
      BY <2>1
    <2>3. Cardinality(S) \in {0, 1}
      BY Zenon, <2>2, FS_EmptySet, FS_Singleton
    <2>4. Cardinality(S) <= 1
      BY <2>3
    <2> QED BY Zenon, <2>4 DEF S, Exclusion, BoundedPasses, TicketInv, PassesRight
  <1> QED BY <1>1, <1>2, <1>3, PTL DEF Spec
=============================================================================
