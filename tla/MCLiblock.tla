----------------------------- MODULE MCLiblock ------------------------------
(***************************************************************************)
(* The rest of liblock, each part on instances of its own: the server of   *)
(* remote core locking in its two builds, its lists and its condition      *)
(* variables, the condition variables of the queue locks, and the thread   *)
(* ids.  The initial state chooses one, and no step changes the choice.    *)
(* The variables a to i are those of the part chosen, in the order of its  *)
(* module, and None if it has fewer.                                       *)
(***************************************************************************)
EXTENDS Integers, Sequences, FiniteSets

CONSTANTS
  None,
  Parts,             \* the parts to choose from
  ServicingThreads   \* those of the default build of remote core locking

VARIABLES part, a, b, c, d, e, f, g, h, i

vars == <<part, a, b, c, d, e, f, g, h, i>>

\* The clients, the threads of the lists and the mini threads.
Pair == {1, 2}

Counter(fn, val) == [val |-> val + 1, ret |-> val]

RCL(GDB_PROOF, Servicing, MaxCalls) == INSTANCE RCL WITH
  requests <- a, locked <- b, th <- c, pc <- d, op <- e, ret <- f, calls <- g, mem <- h,
  N <- 2, Fns <- {"inc"}, Vars <- {"v", "w"}, InitVal <- 0, Apply <- Counter

FQueue(Ordered, Size) == INSTANCE FQueue WITH
  cell <- a, th <- b, in <- c, out <- d, Threads <- Pair, MaxIn <- 1, MaxOps <- 3

Cond(Timed, Broadcasts) == INSTANCE RCLCond WITH
  next <- a, mark <- b, timed <- c, stale <- d, due <- e, locked <- f, at <- g, sig <- h,
  mgr <- i, Minis <- Pair, CondRoot <- 0, ReadyRoot <- 3

Posix == INSTANCE LiblockCond WITH
  lock <- a, posix_lock <- b, sleeping <- c, var <- d, at <- e, Waiters <- Pair, zzz <- 0

Id == INSTANCE IdManager WITH
  first <- a, first_free <- b, fragmented <- c, bitmap <- d, th <- e,
  Threads <- {1, 2, 3}, last <- 4

\* What the proofs assume of the sizes.
ASSUME SizesOfServers == RCL(FALSE, {"s1"}, <<3, 2>>)!Sizes /\ RCL(TRUE, {"s1", "s2"}, <<2, 1>>)!Sizes
-----------------------------------------------------------------------------
Inits ==
  \/ part = "rcl" /\ RCL(FALSE, ServicingThreads, <<3, 2>>)!Init /\ i = None
  \/ part = "rcl_proof" /\ RCL(TRUE, {"s1", "s2"}, <<2, 1>>)!Init /\ i = None
  \/ /\ part = "list" /\ FQueue(FALSE, 2)!Init
     /\ e = None /\ f = None /\ g = None /\ h = None /\ i = None
  \/ /\ part = "ordered" /\ FQueue(TRUE, 3)!Init
     /\ e = None /\ f = None /\ g = None /\ h = None /\ i = None
  \/ part = "cond" /\ Cond({1}, TRUE)!Init
  \/ part = "timed" /\ Cond(Pair, FALSE)!Init
  \/ part = "posix" /\ Posix!Init /\ f = None /\ g = None /\ h = None /\ i = None
  \/ part = "ids" /\ Id!Init /\ f = None /\ g = None /\ h = None /\ i = None

Init == part \in Parts /\ Inits

\* Part p has been chosen, and leaves the variables it does not have alone.
Is(p, others) == part = p /\ UNCHANGED <<part, others>>

Next ==
  \/ Is("rcl", <<i>>) /\ RCL(FALSE, ServicingThreads, <<3, 2>>)!Next
  \/ Is("rcl_proof", <<i>>) /\ RCL(TRUE, {"s1", "s2"}, <<2, 1>>)!Next
  \/ Is("list", <<e, f, g, h, i>>) /\ FQueue(FALSE, 2)!Next
  \/ Is("ordered", <<e, f, g, h, i>>) /\ FQueue(TRUE, 3)!Next
  \/ Is("cond", <<>>) /\ Cond({1}, TRUE)!Next
  \/ Is("timed", <<>>) /\ Cond(Pair, FALSE)!Next
  \/ Is("posix", <<f, g, h, i>>) /\ Posix!Next
  \/ Is("ids", <<f, g, h, i>>) /\ Id!Next

\* A step of a client that posted a request, of a thread in a list, or of a
\* mini thread; and one of servicing thread s.
Step(p) ==
  \/ Is("rcl", <<i>>) /\ RCL(FALSE, ServicingThreads, <<3, 2>>)!Step(p)
  \/ Is("rcl_proof", <<i>>) /\ RCL(TRUE, {"s1", "s2"}, <<2, 1>>)!Step(p)
  \/ Is("list", <<e, f, g, h, i>>) /\ FQueue(FALSE, 2)!Step(p)
  \/ Is("ordered", <<e, f, g, h, i>>) /\ FQueue(TRUE, 3)!Step(p)
  \/ Is("timed", <<>>) /\ Cond(Pair, FALSE)!MiniStep(p)

Service(s) ==
  \/ Is("rcl", <<i>>) /\ s \in ServicingThreads /\ RCL(FALSE, ServicingThreads, <<3, 2>>)!Service(s)
  \/ Is("rcl_proof", <<i>>) /\ RCL(TRUE, {"s1", "s2"}, <<2, 1>>)!Service(s)

Timed(A) == Is("timed", <<>>) /\ A

OfPosix(A) == Is("posix", <<f, g, h, i>>) /\ A

\* The scheduler runs every thread that can go on; a thread that waits for the
\* queue lock or the POSIX lock gets it some time when it is free again and
\* again; and time passes.
FairSpec ==
  /\ Init /\ [][Next]_vars
  /\ \A p \in Pair : WF_vars(Step(p))
  /\ \A s \in {"s1", "s2"} : WF_vars(Service(s))
  /\ WF_vars(Timed(Cond(Pair, FALSE)!ElectMark))
  /\ WF_vars(Timed(Cond(Pair, FALSE)!Expire)) /\ WF_vars(Timed(Cond(Pair, FALSE)!Manager))
  /\ \A t \in Pair \cup {0} :
       WF_vars(OfPosix(Posix!Step(t))) /\ SF_vars(OfPosix(Posix!Acquire(t)))
-----------------------------------------------------------------------------
\* Each critical section is executed once, under its lock, during its call, and the
\* client gets its result: the sum that test_lock prints is the one it "should be".
\* In the build with GDB_PROOF_IMPL it is so however the two servicing threads are
\* preempted.  In the default build it is so while there is one servicing thread; with
\* a second one, which ensure_at_least_one_free_thread may add, it is not.
Linearizable ==
  /\ part = "rcl" => RCL(FALSE, ServicingThreads, <<3, 2>>)!Abstract!Init
  /\ part = "rcl_proof" => RCL(TRUE, {"s1", "s2"}, <<2, 1>>)!Abstract!Init
  /\ [][/\ part = "rcl" => RCL(FALSE, ServicingThreads, <<3, 2>>)!Serves
        /\ part = "rcl_proof" => RCL(TRUE, {"s1", "s2"}, <<2, 1>>)!Serves]_vars

\* What a servicing thread has read of a request, of its lock and of the data is
\* still so when it acts on it; the bitmap holds ids between the two ends only,
\* and an id between them that is not in it is held.
PartInv ==
  /\ part = "rcl" => RCL(FALSE, ServicingThreads, <<3, 2>>)!ServiceInv
  /\ part = "rcl_proof" => RCL(TRUE, {"s1", "s2"}, <<2, 1>>)!ServiceInv
  /\ part = "ids" => Id!IdInv

Begun(p) ==
  \/ part \in {"rcl", "rcl_proof"} /\ d[p] = "wait"
  \/ part \in {"list", "ordered"} /\ b[p].at # "idle"
  \/ part = "timed" /\ g[p] = "out"

Over(p) ==
  \/ part \in {"rcl", "rcl_proof"} /\ d[p] = "idle"
  \/ part \in {"list", "ordered"} /\ b[p].at = "idle"
  \/ part = "timed" /\ g[p] \in {"return", "end"}

\* A call to the server returns, also when a servicing thread is preempted with
\* a lock or a request; an operation of fqueue.h ends; and a mini thread that
\* waits with a deadline is resumed.
OperationEnds == \A p \in Pair : Begun(p) ~> Over(p)

\* The list holds exactly the nodes that entered and did not leave: fqueue.h
\* loses none, and hands none out twice.
Listed ==
  /\ part = "list" => FQueue(FALSE, 2)!Listed
  /\ part = "ordered" => FQueue(TRUE, 3)!Listed

\* An ordered list stays in the order of the deadlines, whatever is removed
\* under the thread that inserts.
Sorted == part = "ordered" => FQueue(TRUE, 3)!Sorted

\* A wait that a broadcast and a time-out both end is ended once: its mini
\* thread is in one list, or in the hands of one thread.
OnePlace ==
  /\ part = "cond" => Cond({1}, TRUE)!OnePlace
  /\ part = "timed" => Cond(Pair, FALSE)!OnePlace

\* Without signals, the manager goes through the passed deadlines and sleeps.
ManagerSleeps == part = "timed" ~> (part = "timed" /\ i.at = "sleep")

\* test_wait ends: every waiter sees var, although the broadcast is lost to
\* those between the queue lock and the POSIX lock.
TestWaitEnds == part = "posix" ~> (part = "posix" /\ Posix!Ended)

\* No two live threads have the same id, whatever ids move between the bitmap
\* and the two ends while they look for one.
UniqueIds == part = "ids" => Id!UniqueIds

\* An id is free at one place and to one thread, or held by a thread: none is
\* lost, and none is offered twice.
FreeOrHeld == part = "ids" => Id!FreeOrHeld
=============================================================================
