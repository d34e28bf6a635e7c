------------------------------- MODULE FQueue -------------------------------
(***************************************************************************)
(* The lock-free lists of RCL, liblock/fqueue.h: nodes are pushed and      *)
(* popped at the root, or inserted in order, and any node is removed by    *)
(* marking it and then unlinking every marked node on the way to it.  One  *)
(* list: an ordered one is inserted into and removed from (the timed mini  *)
(* threads), another is pushed, popped and removed from (the ready ones    *)
(* and those that wait on a condition).  A node's key is its deadline.     *)
(***************************************************************************)
EXTENDS Naturals, FiniteSets

CONSTANTS
  Threads,
  Size,       \* nodes are 1 .. Size
  Ordered,    \* the list is ordered
  MaxIn,      \* how often a node enters the list: 1 without reuse
  MaxOps      \* operations of each thread

Nodes == 1 .. Size

\* The root is a cell like next_and_mark; 0 is also the null pointer.
Root == 0
Cells == {Root} \cup Nodes

VARIABLES
  cell,       \* cell[Root] is the root, cell[n] is n->next_and_mark
  th,         \* of each thread: where it is, its operations so far, its locals
  in, out     \* history: how often each node was linked, and unlinked

vars == <<cell, th, in, out>>

Ptr(n) == [ptr |-> n, mark |-> FALSE]

Idle(k) == [at |-> "idle", ops |-> k, node |-> 0, entering |-> FALSE,
            pred |-> Root, cur |-> 0, seen |-> Ptr(0)]

Init ==
  /\ cell = [c \in Cells |-> Ptr(0)]
  /\ th = [t \in Threads |-> Idle(0)]
  /\ in = [n \in Nodes |-> 0]
  /\ out = [n \in Nodes |-> 0]
-----------------------------------------------------------------------------
At(t, place, local) == th[t].at = place /\ th' = [th EXCEPT ![t] = local]

Start(t, place, n, entering) ==
  /\ th[t].ops < MaxOps
  /\ At(t, "idle", [Idle(th[t].ops + 1) EXCEPT !.at = place, !.node = n, !.entering = entering])
  /\ UNCHANGED <<cell, in, out>>

Done(t) == Idle(th[t].ops)

\* A node enters by one thread, when it is in no list.
Enters(t, place, n) ==
  /\ in[n] < MaxIn
  /\ in[n] = out[n]
  /\ \A u \in Threads : th[u].node = n => ~th[u].entering
  /\ Start(t, place, n, TRUE)

Linked(n) == in' = [in EXCEPT ![n] = @ + 1] /\ UNCHANGED out

Unlinked(n) == out' = [out EXCEPT ![n] = @ + 1] /\ UNCHANGED in
-----------------------------------------------------------------------------
Enqueue(t) == ~Ordered /\ \E n \in Nodes : Enters(t, "push", n)

Push(t) ==
  /\ At(t, "push", [th[t] EXCEPT !.at = "push_cas", !.cur = cell[Root].ptr])
  /\ cell' = [cell EXCEPT ![th[t].node] = cell[Root]]
  /\ UNCHANGED <<in, out>>

PushCas(t) ==
  IF cell[Root] = Ptr(th[t].cur)
    THEN /\ At(t, "push_cas", Done(t))
         /\ cell' = [cell EXCEPT ![Root] = Ptr(th[t].node)]
         /\ Linked(th[t].node)
    ELSE At(t, "push_cas", [th[t] EXCEPT !.at = "push"]) /\ UNCHANGED <<cell, in, out>>
-----------------------------------------------------------------------------
Dequeue(t) == ~Ordered /\ Start(t, "pop", 0, FALSE)

PopRoot(t) ==
  LET cur == cell[Root].ptr IN
  /\ At(t, "pop", IF cur = 0 THEN Done(t) ELSE [th[t] EXCEPT !.at = "pop_read", !.cur = cur])
  /\ UNCHANGED <<cell, in, out>>

PopRead(t) ==
  LET mark == cell[th[t].cur] IN
  /\ At(t, "pop_read", [th[t] EXCEPT !.at = IF mark.mark THEN "pop_cas" ELSE "pop_mark", !.seen = mark])
  /\ UNCHANGED <<cell, in, out>>

PopMark(t) ==
  /\ At(t, "pop_mark", [th[t] EXCEPT !.at = "pop"])
  /\ cell' = IF cell[th[t].cur] = th[t].seen
               THEN [cell EXCEPT ![th[t].cur].mark = TRUE] ELSE cell
  /\ UNCHANGED <<in, out>>

PopCas(t) ==
  IF cell[Root] = Ptr(th[t].cur)
    THEN /\ At(t, "pop_cas", Done(t))
         /\ cell' = [cell EXCEPT ![Root] = Ptr(th[t].seen.ptr)]
         /\ Unlinked(th[t].cur)
    ELSE At(t, "pop_cas", [th[t] EXCEPT !.at = "pop"]) /\ UNCHANGED <<cell, in, out>>
-----------------------------------------------------------------------------
Remove(t) == \E n \in Nodes : in[n] > 0 /\ Start(t, "remove", n, FALSE)

ReadNext(t) ==
  /\ At(t, "remove", [th[t] EXCEPT !.at = "mark", !.cur = cell[th[t].node].ptr])
  /\ UNCHANGED <<cell, in, out>>

\* The list is searched from the root, once the node is marked.
Mark(t) ==
  IF cell[th[t].node] = Ptr(th[t].cur)
    THEN /\ At(t, "mark", [th[t] EXCEPT !.at = "walk", !.pred = Root])
         /\ cell' = [cell EXCEPT ![th[t].node].mark = TRUE]
         /\ UNCHANGED <<in, out>>
    ELSE At(t, "mark", Done(t)) /\ UNCHANGED <<cell, in, out>>

Walk(t) ==
  LET cur == cell[th[t].pred].ptr IN
  /\ At(t, "walk", IF cur = 0 THEN Done(t) ELSE [th[t] EXCEPT !.at = "look", !.cur = cur])
  /\ UNCHANGED <<cell, in, out>>

Look(t) ==
  /\ At(t, "look", IF cell[th[t].cur].mark
                     THEN [th[t] EXCEPT !.at = "unlink"]
                     ELSE [th[t] EXCEPT !.at = "walk", !.pred = th[t].cur])
  /\ UNCHANGED <<cell, in, out>>

\* Mutant: the compare-and-swap does not look at the predecessor's mark.
UnlinkAny(t, from, then, restart) ==
  IF cell[th[t].pred].ptr = th[t].cur
    THEN /\ At(t, from, then)
         /\ cell' = [cell EXCEPT ![th[t].pred].ptr = cell[th[t].cur].ptr]
         /\ Unlinked(th[t].cur)
    ELSE /\ At(t, from, [th[t] EXCEPT !.at = restart, !.pred = Root])
         /\ UNCHANGED <<cell, in, out>>

\* Mutant: after a failure the search goes on from the predecessor it had.
UnlinkRetry(t, from, then, restart) ==
  IF cell[th[t].pred] = Ptr(th[t].cur)
    THEN /\ At(t, from, then)
         /\ cell' = [cell EXCEPT ![th[t].pred] = Ptr(cell[th[t].cur].ptr)]
         /\ Unlinked(th[t].cur)
    ELSE At(t, from, [th[t] EXCEPT !.at = restart]) /\ UNCHANGED <<cell, in, out>>

\* The compare-and-swap that unlinks cur, or a restart from the root.  The
\* pointer out of cur, read just before, stays what it is while cur is marked.
Unlink(t, from, then, restart) ==
  IF cell[th[t].pred] = Ptr(th[t].cur)
    THEN /\ At(t, from, then)
         /\ cell' = [cell EXCEPT ![th[t].pred] = Ptr(cell[th[t].cur].ptr)]
         /\ Unlinked(th[t].cur)
    ELSE /\ At(t, from, [th[t] EXCEPT !.at = restart, !.pred = Root])
         /\ UNCHANGED <<cell, in, out>>

\* on_remove is called on whatever node was unlinked.
Compress(t) ==
  Unlink(t, "unlink",
         IF th[t].cur = th[t].node THEN Done(t) ELSE [th[t] EXCEPT !.at = "walk", !.pred = th[t].cur],
         "walk")
-----------------------------------------------------------------------------
Insert(t) == Ordered /\ \E n \in Nodes : Enters(t, "insert", n)

\* The end of the list, or the node to compare with.
InsertWalk(t) ==
  LET cur == cell[th[t].pred].ptr IN
  /\ At(t, "insert", [th[t] EXCEPT !.at = IF cur = 0 THEN "link" ELSE "insert_look", !.cur = cur])
  /\ cell' = IF cur = 0 THEN [cell EXCEPT ![th[t].node] = Ptr(0)] ELSE cell
  /\ UNCHANGED <<in, out>>

InsertLook(t) ==
  /\ At(t, "insert_look", [th[t] EXCEPT !.at = IF cell[th[t].cur].mark THEN "insert_unlink" ELSE "compare"])
  /\ UNCHANGED <<cell, in, out>>

InsertCompress(t) == Unlink(t, "insert_unlink", [th[t] EXCEPT !.at = "compare"], "insert")

Compare(t) ==
  LET before == th[t].node < th[t].cur IN
  /\ At(t, "compare", IF before THEN [th[t] EXCEPT !.at = "link"]
                                ELSE [th[t] EXCEPT !.at = "insert", !.pred = th[t].cur])
  /\ cell' = IF before THEN [cell EXCEPT ![th[t].node] = Ptr(th[t].cur)] ELSE cell
  /\ UNCHANGED <<in, out>>

\* Mutant: a failed compare-and-swap is tried again where it failed.
LinkHere(t) ==
  /\ At(t, "link", Done(t))
  /\ cell' = [cell EXCEPT ![th[t].pred].ptr = th[t].node, ![th[t].node].ptr = cell[th[t].pred].ptr]
  /\ Linked(th[t].node)

Link(t) ==
  IF cell[th[t].pred] = Ptr(th[t].cur)
    THEN /\ At(t, "link", Done(t))
         /\ cell' = [cell EXCEPT ![th[t].pred] = Ptr(th[t].node)]
         /\ Linked(th[t].node)
    ELSE At(t, "link", [th[t] EXCEPT !.at = "insert", !.pred = Root]) /\ UNCHANGED <<cell, in, out>>
-----------------------------------------------------------------------------
Step(t) ==
  \/ Push(t) \/ PushCas(t) \/ PopRoot(t) \/ PopRead(t) \/ PopMark(t) \/ PopCas(t)
  \/ ReadNext(t) \/ Mark(t) \/ Walk(t) \/ Look(t) \/ Compress(t)
  \/ InsertWalk(t) \/ InsertLook(t) \/ InsertCompress(t) \/ Compare(t) \/ Link(t)

Terminated == (\A t \in Threads : th[t].at = "idle") /\ UNCHANGED vars

Next ==
  \/ \E t \in Threads : Step(t) \/ Enqueue(t) \/ Dequeue(t) \/ Remove(t) \/ Insert(t)
  \/ Terminated
-----------------------------------------------------------------------------
\* The nodes at the end of 1, 2, ... pointers from the root.
Chain == LET at[k \in 0 .. Size] == IF k = 0 THEN cell[Root].ptr
                                    ELSE IF at[k - 1] = 0 THEN 0 ELSE cell[at[k - 1]].ptr
         IN  {at[k] : k \in 0 .. Size} \ {0}

\* The list holds exactly the nodes that entered and did not leave: none is
\* lost, none stays after it was handed out, and so none is handed out twice.
Listed == Chain = {n \in Nodes : in[n] = out[n] + 1} /\ \A n \in Nodes : out[n] <= in[n]

\* An ordered list is ordered by deadline, whatever is removed under the
\* thread that inserts.
Sorted == Ordered => \A n \in Chain : cell[n].ptr # 0 => n < cell[n].ptr

\* "invariant: if the node is already removed, pred does not contain cur": a
\* compare-and-swap that unlinks cur finds it as it was seen, marked.
PredInvariant ==
  \A t \in Threads :
    th[t].at \in {"unlink", "insert_unlink"} /\ cell[th[t].pred] = Ptr(th[t].cur) =>
      cell[th[t].cur].mark
=============================================================================
