---------------------------- MODULE MCCombining ----------------------------
(***************************************************************************)
(* The combining constructions of liblock and sim-synch, each on an        *)
(* instance of its own: the initial state chooses one of them, and no step *)
(* changes the choice.  A variable that the chosen construction does not   *)
(* have is None.                                                           *)
(***************************************************************************)
EXTENDS Integers, TLC

CONSTANTS
  t1, t2, t3, k0, k1, v, w, inc, dbl, Dummy, None,
  Algs,          \* the constructions to choose from
  LiblockCalls   \* how often t1 uses liblock's DSM-Synch

VARIABLES
  alg,
  op, ret, calls, mem,
  tail, node, mapped, counter, seen, tmp_node, pc,                 \* CC-, H- and DSM-Synch
  my_node, cur_node, tmp_node_next,                                \* CC- and H-Synch
  central_lock, locked, MyNode, MyPred, at, arrived,               \* H-Synch
  toggle, my_pred_node,                                            \* DSM-Synch
  lock, count, head, request, then, cur, prev,                     \* flat combining
  sp, pool, a_toggles, announce, th                                \* Sim, Oyama

Threads == {t1, t2, t3}
Fns == {inc}

\* The arguments are interchangeable.
Arguments == Permutations({v, w})

\* A counter: incremented or doubled, and its old value returned.
Counter(f, n) == [val |-> IF f = dbl THEN 2 * n ELSE n + 1, ret |-> n]

\* Bounds on the calls of each thread.
Calls(n1, n2, n3) == [t \in Threads |-> CASE t = t1 -> n1 [] t = t2 -> n2 [] t = t3 -> n3]

Three == Calls(2, 1, 1)
Two == Calls(2, 2, 0)
SimSynch == Calls(3, 1, 1)
OfLiblock == Calls(LiblockCalls, LiblockCalls - 1, 1)

OneQueue(t) == k0
TwoClusters(t) == IF t = t2 THEN k1 ELSE k0

Rank(t) == CASE t = t1 -> 1 [] t = t2 -> 2 [] t = t3 -> 3
ByBit(t, u) == Rank(t) < Rank(u)

CC == INSTANCE CCSynch WITH
  Clusters <- {k0}, ClusterOf <- OneQueue, Vars <- {v, w}, InitVal <- 0, Apply <- Counter,
  H <- 2, MaxCalls <- Three

HS == INSTANCE HSynch WITH
  Clusters <- {k0, k1}, ClusterOf <- TwoClusters, Vars <- {v, w}, InitVal <- 0, Apply <- Counter,
  H <- 2, MaxCalls <- Three

DSM(liblock, max) == INSTANCE DSMSynch WITH
  Vars <- {v, w}, InitVal <- 0, Apply <- Counter, H <- 2, MaxCalls <- max, Liblock <- liblock

\* Flat combining and Sim have many states: they are checked for three threads with
\* one argument and for two threads with two.  The argument of Sim is its object: it
\* is the function that varies.
FC(args, max) == INSTANCE FlatCombining WITH
  Vars <- args, InitVal <- 0, Apply <- Counter,
  CLEANUP_FREQUENCY <- 1, CLEANUP_OLD_THRESHOLD <- 0, W <- 5, MaxCalls <- max

Sim(fns, max) == INSTANCE Sim WITH
  Fns <- fns, Vars <- {v}, InitVal <- 0, Apply <- Counter,
  LOCAL_POOL_SIZE <- 3, Before <- ByBit, MaxCalls <- max

Oyama == INSTANCE Oyama WITH
  Vars <- {v, w}, InitVal <- 0, Apply <- Counter, OYAMA_HELP_BOUND <- 2, MaxCalls <- Three

\* What the proofs about CC-Synch, flat combining and Oyama's lock assume.
ASSUME SizesOfCombining == CC!Sizes /\ FC({v, w}, Two)!Sizes /\ Oyama!Sizes
-----------------------------------------------------------------------------
ofHSynch == <<central_lock, locked, MyNode, MyPred, at, arrived>>
ofCCSynch == <<my_node, cur_node, tmp_node_next>>
ofDSMSynch == <<toggle, my_pred_node>>
ofQueues == <<node, mapped, counter, tmp_node>>
ofFlatCombining == <<count, head, request, then, cur, prev>>
ofSim == <<sp, a_toggles, announce>>
ofStacks == <<pool, th>>

vars == <<alg, op, ret, calls, mem, tail, seen, pc, lock,
          ofHSynch, ofCCSynch, ofDSMSynch, ofQueues, ofFlatCombining, ofSim, ofStacks>>

NoHSynch ==
  /\ central_lock = None /\ locked = None /\ MyNode = None /\ MyPred = None
  /\ at = None /\ arrived = None
NoCCSynch == my_node = None /\ cur_node = None /\ tmp_node_next = None
NoDSMSynch == toggle = None /\ my_pred_node = None
NoQueues == node = None /\ mapped = None /\ counter = None /\ tmp_node = None
NoFlatCombining ==
  count = None /\ head = None /\ request = None /\ then = None /\ cur = None /\ prev = None
NoSim == sp = None /\ a_toggles = None /\ announce = None
NoStacks == pool = None /\ th = None

Inits ==
  \/ /\ alg = "ccsynch" /\ CC!Init
     /\ lock = None /\ NoHSynch /\ NoDSMSynch /\ NoFlatCombining /\ NoSim /\ NoStacks
  \/ /\ alg = "hsynch" /\ HS!HInit
     /\ lock = None /\ NoDSMSynch /\ NoFlatCombining /\ NoSim /\ NoStacks
  \/ /\ alg = "dsmsynch" /\ DSM(FALSE, SimSynch)!Init
     /\ lock = None /\ NoHSynch /\ NoCCSynch /\ NoFlatCombining /\ NoSim /\ NoStacks
  \/ /\ alg = "dsmsynch_liblock" /\ DSM(TRUE, OfLiblock)!Init
     /\ lock = None /\ NoHSynch /\ NoCCSynch /\ NoFlatCombining /\ NoSim /\ NoStacks
  \/ /\ \/ alg = "flatcombining" /\ FC({v}, Three)!Init
        \/ alg = "flatcombining_arguments" /\ FC({v, w}, Two)!Init
     /\ tail = None /\ NoHSynch /\ NoCCSynch /\ NoDSMSynch /\ NoQueues /\ NoSim /\ NoStacks
  \/ /\ \/ alg = "sim" /\ Sim({inc}, Three)!Init
        \/ alg = "sim_functions" /\ Sim({inc, dbl}, Two)!Init
     /\ mem = None /\ tail = None /\ seen = None /\ pc = None /\ lock = None
     /\ NoHSynch /\ NoCCSynch /\ NoDSMSynch /\ NoQueues /\ NoFlatCombining
  \/ /\ alg = "oyama" /\ Oyama!Init
     /\ seen = None /\ pc = None
     /\ NoHSynch /\ NoCCSynch /\ NoDSMSynch /\ NoQueues /\ NoFlatCombining /\ NoSim

Init == alg \in Algs /\ Inits

\* Construction a has been chosen, and leaves the variables of the others alone.
Is(a) == alg = a /\ UNCHANGED alg
KeepCC == UNCHANGED <<lock, ofHSynch, ofDSMSynch, ofFlatCombining, ofSim, ofStacks>>
KeepHS == UNCHANGED <<lock, ofDSMSynch, ofFlatCombining, ofSim, ofStacks>>
KeepDSM == UNCHANGED <<lock, ofHSynch, ofCCSynch, ofFlatCombining, ofSim, ofStacks>>
KeepFC == UNCHANGED <<tail, ofHSynch, ofCCSynch, ofDSMSynch, ofQueues, ofSim, ofStacks>>
KeepSim == UNCHANGED <<mem, tail, seen, pc, lock,
                       ofHSynch, ofCCSynch, ofDSMSynch, ofQueues, ofFlatCombining>>
KeepOyama == UNCHANGED <<seen, pc, ofHSynch, ofCCSynch, ofDSMSynch, ofQueues, ofFlatCombining, ofSim>>

Next ==
  \/ Is("ccsynch") /\ CC!Next /\ KeepCC
  \/ Is("hsynch") /\ HS!HNext /\ KeepHS
  \/ Is("dsmsynch") /\ DSM(FALSE, SimSynch)!Next /\ KeepDSM
  \/ Is("dsmsynch_liblock") /\ DSM(TRUE, OfLiblock)!Next /\ KeepDSM
  \/ Is("flatcombining") /\ FC({v}, Three)!Next /\ KeepFC
  \/ Is("flatcombining_arguments") /\ FC({v, w}, Two)!Next /\ KeepFC
  \/ Is("sim") /\ Sim({inc}, Three)!Next /\ KeepSim
  \/ Is("sim_functions") /\ Sim({inc, dbl}, Two)!Next /\ KeepSim
  \/ Is("oyama") /\ Oyama!Next /\ KeepOyama

\* A step of a call of thread t.
Step(t) ==
  \/ Is("ccsynch") /\ CC!Step(t) /\ KeepCC
  \/ Is("hsynch") /\ HS!HStep(t) /\ KeepHS
  \/ Is("dsmsynch") /\ DSM(FALSE, SimSynch)!Step(t) /\ KeepDSM
  \/ Is("dsmsynch_liblock") /\ DSM(TRUE, OfLiblock)!Step(t) /\ KeepDSM
  \/ Is("flatcombining") /\ FC({v}, Three)!Step(t) /\ KeepFC
  \/ Is("flatcombining_arguments") /\ FC({v, w}, Two)!Step(t) /\ KeepFC
  \/ Is("sim") /\ Sim({inc}, Three)!Step(t) /\ KeepSim
  \/ Is("sim_functions") /\ Sim({inc, dbl}, Two)!Step(t) /\ KeepSim
  \/ Is("oyama") /\ Oyama!Step(t) /\ KeepOyama

Spec == Init /\ [][Next]_vars
-----------------------------------------------------------------------------
\* Each request is executed once, in one indivisible step, between the call and the
\* return, and the call returns its result.  H-Synch, sim-synch's DSM-Synch, flat
\* combining, Sim and Oyama's lock execute it on the argument of its call: they
\* implement DelegationService (Sim, BatchedService).  The combiners of liblock's CC-
\* and DSM-Synch execute it on an argument of a call that is served, their own: they
\* implement CombiningService.
Linearizable ==
  /\ alg = "ccsynch" => CC!Abstract!Init
  /\ alg = "hsynch" => HS!Abstract!Init
  /\ alg = "dsmsynch" => DSM(FALSE, SimSynch)!Abstract!Init
  /\ alg = "dsmsynch_liblock" => DSM(TRUE, OfLiblock)!Abstract!Init
  /\ alg = "flatcombining" => FC({v}, Three)!Abstract!Init
  /\ alg = "flatcombining_arguments" => FC({v, w}, Two)!Abstract!Init
  /\ alg = "sim" => Sim({inc}, Three)!Abstract!Init
  /\ alg = "sim_functions" => Sim({inc, dbl}, Two)!Abstract!Init
  /\ alg = "oyama" => Oyama!Abstract!Init
  /\ [][/\ alg = "ccsynch" => CC!Combines
        /\ alg = "hsynch" => HS!Serves
        /\ alg = "dsmsynch" => DSM(FALSE, SimSynch)!Serves
        /\ alg = "dsmsynch_liblock" => DSM(TRUE, OfLiblock)!Combines
        /\ alg = "flatcombining" => FC({v}, Three)!Serves
        /\ alg = "flatcombining_arguments" => FC({v, w}, Two)!Serves
        /\ alg = "sim" => Sim({inc}, Three)!Serves
        /\ alg = "sim_functions" => Sim({inc, dbl}, Two)!Serves
        /\ alg = "oyama" => Oyama!Serves]_vars

\* A request is executed on the argument that was passed with it, as in the technique
\* that ccsynch.c says it is "Based on" and in every other lock behind liblock_exec.
\* CC-Synch does not do so: its combiner gives its own argument to every request.
OwnArgument == [][alg = "ccsynch" => CC!Serves]_vars

\* While a call is in progress some thread can go on: the role of the combiner
\* is always handed on, or given up with no announced request left behind.  The
\* test of liblock joins its threads before it prints the result.
NoCallStuck == (\E t \in Threads : op[t] # None) => ENABLED (\E t \in Threads : Step(t))

\* CC-Synch never touches a node that a thread has unmapped on its exit.
NoUnmappedAccess == alg = "ccsynch" => CC!NoUnmappedAccess

\* CC-Synch executes requests in the order in which they joined the queue.
ServedInOrder == alg = "ccsynch" => CC!ServedInOrder

\* The inductive invariant of CC-Synch: its queue, in which one node lets a thread
\* in, and where its combiner is.  And that of flat combining: a record that is
\* active, which its owner therefore does not push again, is in the list, and the
\* thread with the lock has yet to come to its own record while that is pending.
\* And that of Oyama's lock: a call that is not completed is on the stack or with
\* the holder, not both, and the holder's own leaves the stack when it first takes it.
RequestsInv ==
  /\ alg = "ccsynch" => CC!CombineInv
  /\ alg = "flatcombining" => FC({v}, Three)!ListInv
  /\ alg = "flatcombining_arguments" => FC({v, w}, Two)!ListInv
  /\ alg = "oyama" => Oyama!StackInv
=============================================================================
