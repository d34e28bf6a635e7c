------------------------------- MODULE Ticket -------------------------------
(***************************************************************************)
(* The ticket lock of libslock, ticket.c, with ticket_trylock, which takes *)
(* head and tail for one 64-bit word.  Tickets are W-valued: 2^32 in the   *)
(* code.                                                                   *)
(***************************************************************************)
EXTENDS Integers, FiniteSets, Sequences

CONSTANTS Threads, W

\* There are more tickets than threads.
Sizes == IsFiniteSet(Threads) /\ W \in Nat /\ W >= 2 /\ Cardinality(Threads) < W

VARIABLES
  head, tail,
  my_ticket,   \* the thread's ticket; in ticket_trylock, the one it tries to get
  pc,
  arrived      \* history: the threads in the order in which they moved the tail

vars == <<head, tail, my_ticket, pc, arrived>>

Succ(n) == (n + 1) % W

Init ==
  /\ head = 1
  /\ tail = 0
  /\ my_ticket = [t \in Threads |-> 0]
  /\ pc = [t \in Threads |-> "out"]
  /\ arrived = <<>>
-----------------------------------------------------------------------------
TakeTicket(t) ==
  /\ pc[t] = "out"
  /\ tail' = Succ(tail)
  /\ my_ticket' = [my_ticket EXCEPT ![t] = Succ(tail)]
  /\ pc' = [pc EXCEPT ![t] = "wait"]
  /\ arrived' = Append(arrived, t)
  /\ UNCHANGED head

\* The spin ends.  How long a thread pauses between two reads is left out.
Turn(t) ==
  /\ pc[t] = "wait"
  /\ head = my_ticket[t]
  /\ pc' = [pc EXCEPT ![t] = "cs"]
  /\ UNCHANGED <<head, tail, my_ticket, arrived>>

TryRead(t) ==
  /\ pc[t] = "out"
  /\ my_ticket' = [my_ticket EXCEPT ![t] = Succ(tail)]
  /\ pc' = [pc EXCEPT ![t] = "try"]
  /\ UNCHANGED <<head, tail, arrived>>

\* Mutant: the compare-and-swap is on the tail alone.
TryCasTail(t) ==
  LET free == Succ(tail) = my_ticket[t] IN
  /\ pc[t] = "try"
  /\ tail' = IF free THEN my_ticket[t] ELSE tail
  /\ pc' = [pc EXCEPT ![t] = IF free THEN "cs" ELSE "out"]
  /\ arrived' = IF free THEN Append(arrived, t) ELSE arrived
  /\ UNCHANGED <<head, my_ticket>>

TryCas(t) ==
  LET free == head = my_ticket[t] /\ Succ(tail) = my_ticket[t] IN
  /\ pc[t] = "try"
  /\ tail' = IF free THEN my_ticket[t] ELSE tail
  /\ pc' = [pc EXCEPT ![t] = IF free THEN "cs" ELSE "out"]
  /\ arrived' = IF free THEN Append(arrived, t) ELSE arrived
  /\ UNCHANGED <<head, my_ticket>>

\* Mutant: the lock is declared free, whoever waits.
ReleaseToAll(t) ==
  /\ pc[t] = "cs"
  /\ head' = Succ(tail)
  /\ pc' = [pc EXCEPT ![t] = "out"]
  /\ arrived' = Tail(arrived)
  /\ UNCHANGED <<tail, my_ticket>>

Release(t) ==
  /\ pc[t] = "cs"
  /\ head' = Succ(head)
  /\ pc' = [pc EXCEPT ![t] = "out"]
  /\ arrived' = Tail(arrived)
  /\ UNCHANGED <<tail, my_ticket>>

Next == \E t \in Threads : TakeTicket(t) \/ Turn(t) \/ TryRead(t) \/ TryCas(t) \/ Release(t)

Step(t) == Turn(t) \/ Release(t)

Spec == Init /\ [][Next]_vars
-----------------------------------------------------------------------------
FifoLock == INSTANCE FifoLock WITH
  line <- arrived, holders <- {t \in Threads : pc[t] = "cs"}

\* Threads hold the lock one at a time, in the order of their tickets, also
\* when the counters wrap around and when ticket_trylock takes the lock between
\* its read of the tail and its compare-and-swap.
InLine == UNCHANGED FifoLock!vars \/ FifoLock!Next

Fifo == FifoLock!Spec
-----------------------------------------------------------------------------
\* The types of the variables.
TypeOK ==
  /\ head \in 0 .. W - 1
  /\ tail \in 0 .. W - 1
  /\ my_ticket \in [Threads -> 0 .. W - 1]
  /\ pc \in [Threads -> {"out", "wait", "try", "cs"}]
  /\ arrived \in Seq(Threads)

InQueue == {t \in Threads : pc[t] \in {"wait", "cs"}}

\* The threads in the line have the tickets from head on, in the order of the
\* line, and the next ticket follows the last one's.
QueueInv ==
  /\ TypeOK
  /\ \A t \in Threads : t \in InQueue <=> \E i \in 1 .. Len(arrived) : arrived[i] = t
  /\ \A i, j \in 1 .. Len(arrived) : arrived[i] = arrived[j] => i = j
  /\ Len(arrived) = Cardinality(InQueue)
  /\ \A i \in 1 .. Len(arrived) : my_ticket[arrived[i]] = (head + (i - 1)) % W
  /\ Succ(tail) = (head + Len(arrived)) % W
  /\ \A t \in Threads : pc[t] = "cs" => my_ticket[t] = head
=============================================================================
