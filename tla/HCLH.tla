-------------------------------- MODULE HCLH --------------------------------
(***************************************************************************)
(* The hierarchical CLH lock of libslock, hclh.c.  Threads queue in their  *)
(* cluster; the first of them splices the cluster's queue into the global  *)
(* one.  As in CLH a thread leaves its node behind and goes on with its    *)
(* predecessor's, while a neighbour may still look at it.                  *)
(***************************************************************************)
EXTENDS Naturals, FiniteSets

CONSTANTS
  Threads, Clusters, ClusterOf,
  Dummy,               \* the node the lock is created with
  None

VARIABLES
  lq, gq,              \* the tails of the local queues and of the global one
  node,                \* the nodes, named by the thread they were made for
  freed,
  my_qnode, my_pred, local_tail,
  at

vars == <<lq, gq, node, freed, my_qnode, my_pred, local_tail, at>>

Qnode(c, w) == [cluster_id |-> c, successor_must_wait |-> w, tail_when_spliced |-> FALSE]

Init ==
  /\ lq = [c \in Clusters |-> None]
  /\ gq = Dummy
  /\ node = [n \in Threads \cup {Dummy} |->
       IF n = Dummy THEN Qnode(None, FALSE) ELSE Qnode(ClusterOf[n], TRUE)]
  /\ freed = {}
  /\ my_qnode = [t \in Threads |-> t]
  /\ my_pred = [t \in Threads |-> None]
  /\ local_tail = [t \in Threads |-> None]
  /\ at = [t \in Threads |-> "out"]

Move(t, from, to) == at[t] = from /\ at' = [at EXCEPT ![t] = to]
-----------------------------------------------------------------------------
\* The compare-and-swap that succeeds.
Enqueue(t) ==
  /\ Move(t, "out", IF lq[ClusterOf[t]] = None THEN "master" ELSE "wait")
  /\ my_pred' = [my_pred EXCEPT ![t] = lq[ClusterOf[t]]]
  /\ lq' = [lq EXCEPT ![ClusterOf[t]] = my_qnode[t]]
  /\ UNCHANGED <<gq, node, freed, my_qnode, local_tail>>

\* Mutant: a node that another cluster has taken over is not recognized.
WaitForGrantOnly(t) ==
  LET q == node[my_pred[t]] IN
  /\ at[t] = "wait"
  /\ q.tail_when_spliced \/ ~q.successor_must_wait
  /\ Move(t, "wait", IF q.tail_when_spliced THEN "master" ELSE "cs")
  /\ UNCHANGED <<lq, gq, node, freed, my_qnode, my_pred, local_tail>>

wait_for_grant_or_cluster_master(t) ==
  LET q == node[my_pred[t]]
      mine == q.cluster_id = ClusterOf[t] /\ ~q.tail_when_spliced
  IN
  /\ at[t] = "wait"
  /\ ~mine \/ ~q.successor_must_wait
  /\ Move(t, "wait", IF mine THEN "cs" ELSE "master")
  /\ UNCHANGED <<lq, gq, node, freed, my_qnode, my_pred, local_tail>>

ReadLocalTail(t) ==
  /\ Move(t, "master", "splice")
  /\ local_tail' = [local_tail EXCEPT ![t] = lq[ClusterOf[t]]]
  /\ UNCHANGED <<lq, gq, node, freed, my_qnode, my_pred>>

Splice(t) ==
  /\ Move(t, "splice", "mark")
  /\ gq' = local_tail[t]
  /\ my_pred' = [my_pred EXCEPT ![t] = gq]
  /\ UNCHANGED <<lq, node, freed, my_qnode, local_tail>>

\* Mutant: the tail is not marked.
MarkNothing(t) ==
  /\ Move(t, "mark", "global")
  /\ UNCHANGED <<lq, gq, node, freed, my_qnode, my_pred, local_tail>>

Mark(t) ==
  /\ Move(t, "mark", "global")
  /\ node' = [node EXCEPT ![local_tail[t]].tail_when_spliced = TRUE]
  /\ local_tail' = [local_tail EXCEPT ![t] = None]
  /\ UNCHANGED <<lq, gq, freed, my_qnode, my_pred>>

WaitGlobal(t) ==
  /\ at[t] = "global" /\ ~node[my_pred[t]].successor_must_wait
  /\ Move(t, "global", "cs")
  /\ UNCHANGED <<lq, gq, node, freed, my_qnode, my_pred, local_tail>>

Release(t) ==
  /\ Move(t, "cs", "recycle")
  /\ node' = [node EXCEPT ![my_qnode[t]].successor_must_wait = FALSE]
  /\ UNCHANGED <<lq, gq, freed, my_qnode, my_pred, local_tail>>

Recycle(t) ==
  /\ Move(t, "recycle", "out")
  /\ node' = [node EXCEPT ![my_pred[t]] = Qnode(ClusterOf[t], TRUE)]
  /\ my_qnode' = [my_qnode EXCEPT ![t] = my_pred[t]]
  /\ my_pred' = [my_pred EXCEPT ![t] = None]
  /\ UNCHANGED <<lq, gq, freed, local_tail>>

\* end_hclh_local, when a thread ends.
Exit(t) ==
  /\ Move(t, "out", "end")
  /\ freed' = freed \cup {my_qnode[t]}
  /\ UNCHANGED <<lq, gq, node, my_qnode, my_pred, local_tail>>

Step(t) ==
  \/ wait_for_grant_or_cluster_master(t)
  \/ ReadLocalTail(t) \/ Splice(t) \/ Mark(t)
  \/ WaitGlobal(t) \/ Release(t) \/ Recycle(t)

Next == \E t \in Threads : Step(t) \/ Enqueue(t)

\* Threads also end.
Terminated == (\A t \in Threads : at[t] = "end") /\ UNCHANGED vars

ExitNext == Next \/ (\E t \in Threads : Exit(t)) \/ Terminated
-----------------------------------------------------------------------------
\* At most one thread holds the lock, although nodes migrate between clusters
\* while a thread still waits on them.
Exclusion == Cardinality({t \in Threads : at[t] = "cs"}) <= 1

\* No thread looks at a node that another has freed: the threads of the test
\* call free_lock_local as soon as they see stop, while others go on.
NoFreedAccess == \A t \in Threads : at[t] \in {"wait", "global"} => my_pred[t] \notin freed
=============================================================================
