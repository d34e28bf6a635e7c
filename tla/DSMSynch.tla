------------------------------ MODULE DSMSynch ------------------------------
(***************************************************************************)
(* The combining lock DSM-Synch: liblock/dsmsynch.c, and, when Liblock is  *)
(* FALSE, sim-synch/dsmsynch.h.  Each thread has two nodes that it uses in *)
(* turn; the queue is empty when tail is NULL.  The two programs differ in *)
(* the last store of the combiner, in whose argument it uses, and in what  *)
(* happens to the nodes of a thread that exits.                            *)
(***************************************************************************)
EXTENDS Integers

CONSTANTS
  Threads,
  Fns, Vars, InitVal, Apply(_,_),
  None,           \* NULL
  H,              \* how many requests a combiner executes
  MaxCalls,       \* bound on the calls of each thread
  Liblock         \* which of the two programs

VARIABLES
  tail, node,
  mapped,         \* the nodes that are not munmapped
  toggle, my_pred_node, tmp_node, counter, seen, pc,
  op, ret, calls, mem

vars == <<tail, node, mapped, toggle, my_pred_node, tmp_node, counter, seen, pc,
          op, ret, calls, mem>>

Nodes == Threads \X {0, 1}
my_node(t) == <<t, toggle[t]>>

Init ==
  /\ tail = None
  /\ node = [n \in Nodes |->
       [req |-> None, arg |-> None, ret |-> None, wait |-> FALSE, completed |-> FALSE,
        next |-> None]]
  /\ mapped = Nodes
  /\ toggle = [t \in Threads |-> 0]
  /\ my_pred_node = [t \in Threads |-> None]
  /\ tmp_node = [t \in Threads |-> None]
  /\ counter = [t \in Threads |-> 0]
  /\ seen = [t \in Threads |-> InitVal]
  /\ pc = [t \in Threads |-> "idle"]
  /\ op = [t \in Threads |-> None]
  /\ ret = [t \in Threads |-> InitVal]
  /\ calls = [t \in Threads |-> 0]
  /\ mem = [v \in Vars |-> InitVal]

Goto(t, l) == pc' = [pc EXCEPT ![t] = l]
Caller == <<op, ret, calls>>
-----------------------------------------------------------------------------
Call(t, o) ==
  LET n == <<t, 1 - toggle[t]>> IN
  /\ pc[t] = "idle"
  /\ calls[t] < MaxCalls[t]
  /\ calls' = [calls EXCEPT ![t] = @ + 1]
  /\ op' = [op EXCEPT ![t] = o]
  /\ toggle' = [toggle EXCEPT ![t] = 1 - @]
  /\ node' = [node EXCEPT ![n] = [@ EXCEPT !.wait = TRUE, !.completed = FALSE, !.next = None,
                                           !.req = o.fn, !.arg = o.var]]
  /\ Goto(t, "swap")
  /\ UNCHANGED <<tail, mapped, my_pred_node, tmp_node, counter, seen, ret, mem>>

\* A thread that finds the queue empty is the combiner.
Swap(t) ==
  /\ pc[t] = "swap"
  /\ my_pred_node' = [my_pred_node EXCEPT ![t] = tail]
  /\ tail' = my_node(t)
  /\ tmp_node' = [tmp_node EXCEPT ![t] = my_node(t)]
  /\ Goto(t, IF tail = None THEN "load" ELSE "link")
  /\ UNCHANGED <<node, mapped, toggle, counter, seen, Caller, mem>>

\* Mutant: a thread that has linked its node does not wait.
LinkAndRun(t) ==
  /\ pc[t] = "link"
  /\ node' = [node EXCEPT ![my_pred_node[t]].next = my_node(t)]
  /\ Goto(t, "load")
  /\ UNCHANGED <<tail, mapped, toggle, my_pred_node, tmp_node, counter, seen, Caller, mem>>

Link(t) ==
  /\ pc[t] = "link"
  /\ node' = [node EXCEPT ![my_pred_node[t]].next = my_node(t)]
  /\ Goto(t, "wait")
  /\ UNCHANGED <<tail, mapped, toggle, my_pred_node, tmp_node, counter, seen, Caller, mem>>

\* The spin ends: the thread has been served, or is the combiner.
Wait(t) ==
  /\ pc[t] = "wait"
  /\ ~node[my_node(t)].wait
  /\ Goto(t, IF node[my_node(t)].completed THEN "return" ELSE "load")
  /\ UNCHANGED <<tail, node, mapped, toggle, my_pred_node, tmp_node, counter, seen, Caller, mem>>

\* The argument a request is executed on: in liblock the combiner's.
ArgOf(t) == IF Liblock THEN op[t].var ELSE node[tmp_node[t]].arg

Load(t) ==
  /\ pc[t] = "load"
  /\ counter' = [counter EXCEPT ![t] = @ + 1]
  /\ seen' = [seen EXCEPT ![t] = mem[ArgOf(t)]]
  /\ Goto(t, "store")
  /\ UNCHANGED <<tail, node, mapped, toggle, my_pred_node, tmp_node, Caller, mem>>

Store(t) ==
  LET r == Apply(node[tmp_node[t]].req, seen[t]) IN
  /\ pc[t] = "store"
  /\ mem' = [mem EXCEPT ![ArgOf(t)] = r.val]
  /\ node' = [node EXCEPT ![tmp_node[t]].ret = r.ret, ![tmp_node[t]].completed = TRUE]
  /\ Goto(t, "release")
  /\ UNCHANGED <<tail, mapped, toggle, my_pred_node, tmp_node, counter, seen, Caller>>

Release(t) ==
  /\ pc[t] = "release"
  /\ node' = [node EXCEPT ![tmp_node[t]].wait = FALSE]
  /\ Goto(t, "test")
  /\ UNCHANGED <<tail, mapped, toggle, my_pred_node, tmp_node, counter, seen, Caller, mem>>

\* The end of the combiner's loop: the last request of the queue is left.
Test(t) ==
  LET next == node[tmp_node[t]].next IN
  /\ pc[t] = "test"
  /\ IF next # None /\ node[next].next # None /\ counter[t] < H
       THEN Goto(t, "load") /\ tmp_node' = [tmp_node EXCEPT ![t] = next]
       ELSE Goto(t, "last") /\ UNCHANGED tmp_node
  /\ UNCHANGED <<tail, node, mapped, toggle, my_pred_node, counter, seen, Caller, mem>>

Last(t) ==
  /\ pc[t] = "last"
  /\ Goto(t, IF node[tmp_node[t]].next = None THEN "cas" ELSE "handoff")
  /\ UNCHANGED <<tail, node, mapped, toggle, my_pred_node, tmp_node, counter, seen, Caller, mem>>

\* Mutant: the queue is emptied without a check that nobody has joined it.
EmptyUnchecked(t) ==
  /\ pc[t] = "cas"
  /\ tail' = None
  /\ Goto(t, "return")
  /\ UNCHANGED <<node, mapped, toggle, my_pred_node, tmp_node, counter, seen, Caller, mem>>

Empty(t) ==
  /\ pc[t] = "cas"
  /\ IF tail = tmp_node[t] THEN tail' = None /\ Goto(t, "return")
                           ELSE tail' = tail /\ Goto(t, "handoff")
  /\ UNCHANGED <<node, mapped, toggle, my_pred_node, tmp_node, counter, seen, Caller, mem>>

\* The spin on next ends, and the next combiner is let in.  In liblock a next
\* that was seen at line 128 can be null again at 136, which writes through it;
\* here the combiner waits.
Handoff(t) ==
  LET next == node[tmp_node[t]].next IN
  /\ pc[t] = "handoff"
  /\ next # None
  /\ node' = [node EXCEPT ![next].wait = FALSE]
  /\ Goto(t, IF Liblock THEN "clear" ELSE "return")
  /\ UNCHANGED <<tail, mapped, toggle, my_pred_node, tmp_node, counter, seen, Caller, mem>>

\* The store of line 137, which only liblock has.
Clear(t) ==
  /\ pc[t] = "clear"
  /\ node' = [node EXCEPT ![tmp_node[t]].next = None]
  /\ Goto(t, "return")
  /\ UNCHANGED <<tail, mapped, toggle, my_pred_node, tmp_node, counter, seen, Caller, mem>>

Return(t) ==
  /\ pc[t] = "return"
  /\ ret' = [ret EXCEPT ![t] = node[my_node(t)].ret]
  /\ op' = [op EXCEPT ![t] = None]
  /\ my_pred_node' = [my_pred_node EXCEPT ![t] = None]      \* the locals are dead
  /\ tmp_node' = [tmp_node EXCEPT ![t] = None]
  /\ counter' = [counter EXCEPT ![t] = 0]
  /\ seen' = [seen EXCEPT ![t] = InitVal]
  /\ Goto(t, "idle")
  /\ UNCHANGED <<tail, node, mapped, toggle, calls, mem>>

\* In liblock, on_thread_exit munmaps the nodes.
Exit(t) ==
  /\ pc[t] = "idle"
  /\ calls[t] = MaxCalls[t]
  /\ mapped' = IF Liblock THEN mapped \ {<<t, 0>>, <<t, 1>>} ELSE mapped
  /\ Goto(t, "exited")
  /\ UNCHANGED <<tail, node, toggle, my_pred_node, tmp_node, counter, seen, Caller, mem>>

Step(t) ==
  \/ Swap(t) \/ Link(t) \/ Wait(t) \/ Load(t) \/ Store(t) \/ Release(t) \/ Test(t)
  \/ Last(t) \/ Empty(t) \/ Handoff(t) \/ Clear(t) \/ Return(t)

Ops == [fn : Fns, var : Vars]

Terminated == (\A t \in Threads : pc[t] = "exited") /\ UNCHANGED vars

Next ==
  \/ \E t \in Threads : Step(t) \/ Exit(t) \/ \E o \in Ops : Call(t, o)
  \/ Terminated
-----------------------------------------------------------------------------
InCall(t) == pc[t] \notin {"idle", "exited"}
Executed(t) == InCall(t) /\ node[my_node(t)].completed

Abstract == INSTANCE CombiningService WITH
  Clients <- Threads,
  st <- [t \in Threads |->
    IF ~InCall(t) THEN "idle" ELSE IF Executed(t) THEN "done" ELSE "pending"],
  res <- [t \in Threads |-> IF Executed(t) THEN node[my_node(t)].ret ELSE None]

\* applyOp executes each request once, atomically, on its own argument, during
\* the call, and returns its result, although combiners read nodes that their
\* owners already have back.
Serves == UNCHANGED Abstract!vars \/ Abstract!Next

\* The same for liblock, whose combiner uses its own argument (line 118).
Combines == UNCHANGED Abstract!vars \/ Abstract!CombiningNext

\* No thread accesses the node of a thread that has exited.
NoUnmappedAccess ==
  \A t \in Threads :
    /\ pc[t] = "link" => my_pred_node[t] \in mapped
    /\ pc[t] \in {"load", "store", "release", "test", "last", "handoff", "clear"} =>
         tmp_node[t] \in mapped
=============================================================================
