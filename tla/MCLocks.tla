------------------------------ MODULE MCLocks ------------------------------
(***************************************************************************)
(* The locks of libslock, liblock's MCS-TP, and the bank benchmark, each   *)
(* on an instance of its own: the initial state chooses one of them, and   *)
(* no step changes the choice.  The variables a to g are those of the one  *)
(* chosen, in the order of its module, and None if it has fewer.           *)
(***************************************************************************)
EXTENDS Integers, FiniteSets

CONSTANTS t1, t2, t3, Dummy, None

VARIABLES
  lock,          \* the choice
  at, arrived,
  a, b, c, d, e, f, g

vars == <<lock, at, arrived, a, b, c, d, e, f, g>>

Threads == {t1, t2, t3}

\* Two threads on one socket or in one cluster, and the third on another.
ByTwo == [t \in Threads |-> IF t = t3 THEN 2 ELSE 1]

\* All three on one socket, where they can use up its tickets.
Together == [t \in Threads |-> 1]

\* Two threads of the bank transfer, and one of them also reads and sums up.
Kinds == [t \in Threads |-> CASE t = t1 -> {"transfer"}
                              [] t = t2 -> {"transfer", "read", "total"}
                              [] t = t3 -> {}]

Ticket == INSTANCE Ticket WITH head <- a, tail <- b, my_ticket <- c, pc <- at, W <- 5

CLH == INSTANCE CLH WITH L <- a, locked <- b, my_qnode <- c, my_pred <- d

MCS == INSTANCE MCS WITH L <- a, next <- b, waiting <- c, freed <- d, pred <- e, succ <- f

ALock == INSTANCE ALock WITH tail <- a, flag <- b, slot <- c, W <- 6

HTicket(htlock_node_mine) == INSTANCE HTicket WITH
  global <- a, local <- b, ticket <- c, passes <- d,
  Sockets <- {1, 2}, NB_TICKETS_LOCAL <- 2, W <- 4, MinNxt <- -2

HCLH == INSTANCE HCLH WITH
  lq <- a, gq <- b, node <- c, freed <- d, my_qnode <- e, my_pred <- f, local_tail <- g,
  Clusters <- {1, 2}, ClusterOf <- ByTwo

RW == INSTANCE RWTTAS WITH lock_data <- a, aux <- b, R <- 2

MCSTP == INSTANCE MCSTP WITH
  tail <- a, next <- b, status <- c, th <- at, queue <- d, MAX_THREADS <- 2

Bank == INSTANCE Bank WITH
  balance <- a, locks <- b, gl <- c, stop <- d, th <- at, Size <- 4, MaxOps <- 1, Byte <- 4

\* What the proofs assume of the sizes and of the values for no thread.
ASSUME SizesOfLocks == Ticket!Sizes /\ CLH!Distinct /\ MCS!Distinct /\ ALock!Sizes /\ RW!Sizes
                       /\ HTicket(ByTwo)!Sizes /\ HTicket(Together)!Sizes /\ MCSTP!Distinct
-----------------------------------------------------------------------------
Init ==
  \/ lock = "ticket" /\ Ticket!Init /\ d = None /\ e = None /\ f = None /\ g = None
  \/ lock = "clh" /\ CLH!Init /\ e = None /\ f = None /\ g = None
  \/ lock = "mcs" /\ MCS!Init /\ g = None
  \/ lock = "alock" /\ ALock!Init /\ d = None /\ e = None /\ f = None /\ g = None
  \/ lock = "htlock" /\ HTicket(ByTwo)!Init /\ e = None /\ f = None /\ g = None /\ arrived = None
  \/ lock = "htlock_one" /\ HTicket(Together)!Init /\ e = None /\ f = None /\ g = None /\ arrived = None
  \/ lock = "hclh" /\ HCLH!Init /\ arrived = None
  \/ /\ lock = "rw_ttas" /\ RW!Init
     /\ c = None /\ d = None /\ e = None /\ f = None /\ g = None /\ arrived = None
  \/ lock = "mcstp" /\ MCSTP!Init /\ e = None /\ f = None /\ g = None /\ arrived = None
  \/ lock = "bank" /\ Bank!Init /\ e = None /\ f = None /\ g = None /\ arrived = None

\* Lock l has been chosen, and leaves the variables it does not have alone.
Is(l, others) == lock = l /\ UNCHANGED <<lock, others>>

Next ==
  \/ Is("ticket", <<d, e, f, g>>) /\ Ticket!Next
  \/ Is("clh", <<e, f, g>>) /\ CLH!Next
  \/ Is("mcs", g) /\ MCS!Next
  \/ Is("alock", <<d, e, f, g>>) /\ ALock!Next
  \/ Is("htlock", <<e, f, g, arrived>>) /\ HTicket(ByTwo)!Next
  \/ Is("htlock_one", <<e, f, g, arrived>>) /\ HTicket(Together)!Next
  \/ Is("hclh", arrived) /\ HCLH!Next
  \/ Is("rw_ttas", <<c, d, e, f, g, arrived>>) /\ RW!Next
  \/ Is("mcstp", <<e, f, g, arrived>>) /\ MCSTP!Next
  \/ Is("bank", <<e, f, g, arrived>>) /\ Bank!Next

\* A step of thread t inside an acquire, a critical section or a release.
Step(t) ==
  \/ Is("ticket", <<d, e, f, g>>) /\ Ticket!Step(t)
  \/ Is("clh", <<e, f, g>>) /\ CLH!Step(t)
  \/ Is("mcs", g) /\ MCS!Step(t)
  \/ Is("alock", <<d, e, f, g>>) /\ ALock!Step(t)
  \/ Is("htlock", <<e, f, g, arrived>>) /\ HTicket(ByTwo)!Step(t)
  \/ Is("htlock_one", <<e, f, g, arrived>>) /\ HTicket(Together)!Step(t)
  \/ Is("hclh", arrived) /\ HCLH!Step(t)
  \/ Is("rw_ttas", <<c, d, e, f, g, arrived>>) /\ RW!Step(t)

\* The scheduler runs every thread that can go on, and critical sections end.
FairSpec == Init /\ [][Next]_vars /\ \A t \in Threads : WF_vars(Step(t))
-----------------------------------------------------------------------------
\* The queue locks let threads in one at a time and in the order of one atomic
\* step of theirs: they implement FifoLock.
Fifo ==
  /\ lock = "ticket" => Ticket!FifoLock!Init
  /\ lock = "clh" => CLH!FifoLock!Init
  /\ lock = "mcs" => MCS!FifoLock!Init
  /\ lock = "alock" => ALock!FifoLock!Init
  /\ [][/\ lock = "ticket" => Ticket!InLine
        /\ lock = "clh" => CLH!InLine
        /\ lock = "mcs" => MCS!InLine
        /\ lock = "alock" => ALock!InLine]_vars

\* The nodes, tickets and slots of a queue lock stand in the order in which its
\* threads arrived, and the word of the read-write lock counts its holders.
QueueInv ==
  /\ lock = "ticket" => Ticket!QueueInv
  /\ lock = "clh" => CLH!QueueInv
  /\ lock = "mcs" => MCS!QueueInv
  /\ lock = "alock" => ALock!QueueInv
  /\ lock = "htlock" => HTicket(ByTwo)!TicketInv
  /\ lock = "htlock_one" => HTicket(Together)!TicketInv
  /\ lock = "rw_ttas" => RW!WordInv
  /\ lock = "mcstp" => MCSTP!OwnerInv

\* No two threads hold a lock, except as readers.
Exclusion ==
  /\ lock = "htlock" => HTicket(ByTwo)!Exclusion
  /\ lock = "htlock_one" => HTicket(Together)!Exclusion
  /\ lock = "hclh" => HCLH!Exclusion
  /\ lock = "rw_ttas" => RW!Exclusion
  /\ lock = "mcstp" => MCSTP!Exclusion

\* Thread t has taken its place in the queue of the lock.  The read-write lock
\* has no queue: some thread waits for it.
Queued(t) ==
  \/ lock = "ticket" /\ at[t] = "wait"
  \/ lock = "clh" /\ at[t] = "swap"
  \/ lock = "mcs" /\ at[t] = "arm"
  \/ lock = "alock" /\ at[t] = "spin"
  \/ lock \in {"htlock", "htlock_one"} /\ at[t] \in {"local", "refill"}
  \/ lock = "hclh" /\ at[t] \in {"wait", "master"}
  \/ lock = "rw_ttas" /\ RW!Waiting

Entered(t) ==
  \/ lock \notin {"rw_ttas", "mcstp", "bank"} /\ at[t] = "cs"
  \/ lock = "rw_ttas" /\ RW!Held

\* A thread that queues for a lock gets it, and of those that wait for the
\* read-write lock one gets it, if critical sections end.  In every instance
\* of a lock t2 can be exchanged with t1.
Granted == \A t \in {t1, t3} : Queued(t) ~> Entered(t)

\* No thread of the MCS lock writes to a node that its owner has freed.
NoFreedAccess == lock = "mcs" => MCS!NoFreedAccess

\* A socket passes the hierarchical ticket lock on a bounded number of times.
BoundedPasses ==
  /\ lock = "htlock" => HTicket(ByTwo)!BoundedPasses
  /\ lock = "htlock_one" => HTicket(Together)!BoundedPasses

\* An MCS-TP lock of three threads that is taken has an owner: a time-out and a grant
\* that race leave one winner, and the unlock of a holder with two waiters that come
\* and go passes it on or leaves the queue empty.
NotAbandoned == lock = "mcstp" => MCSTP!NotAbandoned

\* The balances of the bank add up to zero when its threads have ended.
TotalZero == lock = "bank" => Bank!TotalZero

\* When main has set stop (d), the threads of the bank that have not ended do not all
\* wait for accounts: as each has few steps left, they end.
BankEnds ==
  lock = "bank" /\ d /\ ~Bank!Ended => ENABLED (\E t \in Threads : Bank!Step(t))
=============================================================================
