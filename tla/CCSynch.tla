------------------------------ MODULE CCSynch ------------------------------
(***************************************************************************)
(* The combining lock CC-Synch, liblock/ccsynch.c.  Threads queue nodes on *)
(* a lock; the one whose node comes first executes the requests of those   *)
(* behind it, at most H of them, and hands the role over.  A thread leaves *)
(* its node behind as the queue's tail and takes its predecessor's.        *)
(*                                                                         *)
(* The steps are written for several queues, so that HSynch, which has one *)
(* queue per cluster, is built from them; liblock has one per lock.        *)
(***************************************************************************)
EXTENDS Integers, FiniteSets

CONSTANTS
  Threads,
  Clusters,       \* the queues
  ClusterOf(_),   \* the queue a thread uses
  Fns, Vars,      \* the functions and arguments of the critical sections
  InitVal,
  Apply(_,_),     \* what a function does to the variable its argument names
  None,           \* NULL
  H,              \* how many requests a combiner executes
  MaxCalls        \* bound on the calls of each thread

VARIABLES
  tail,           \* impl->tail of each queue
  node,           \* the nodes, named by the thread or queue they were made for
  mapped,         \* the nodes that are not munmapped
  my_node, cur_node, tmp_node, tmp_node_next, counter,
  seen,           \* what the critical section that runs has loaded
  pc,
  op, ret, calls, \* the caller: its operation, its result, how many calls
  mem             \* the variables the critical sections protect

vars == <<tail, node, mapped, my_node, cur_node, tmp_node, tmp_node_next, counter, seen, pc,
          op, ret, calls, mem>>

Nodes == Threads \cup Clusters

Init ==
  /\ tail = [k \in Clusters |-> k]
  /\ node = [n \in Nodes |->
       [req |-> None, arg |-> None, ret |-> None, wait |-> FALSE, completed |-> FALSE,
        next |-> None]]
  /\ mapped = Nodes
  /\ my_node = [t \in Threads |-> t]
  /\ cur_node = [t \in Threads |-> None]
  /\ tmp_node = [t \in Threads |-> None]
  /\ tmp_node_next = [t \in Threads |-> None]
  /\ counter = [t \in Threads |-> 0]
  /\ seen = [t \in Threads |-> InitVal]
  /\ pc = [t \in Threads |-> "idle"]
  /\ op = [t \in Threads |-> None]
  /\ ret = [t \in Threads |-> InitVal]
  /\ calls = [t \in Threads |-> 0]
  /\ mem = [v \in Vars |-> InitVal]

Goto(t, l) == pc' = [pc EXCEPT ![t] = l]
Local == <<my_node, cur_node, tmp_node, tmp_node_next, counter, seen>>
Caller == <<op, ret, calls>>
-----------------------------------------------------------------------------
\* Mutant: completed is not reset.
CallNoReset(t, o) ==
  /\ pc[t] = "idle"
  /\ calls[t] < MaxCalls[t]
  /\ calls' = [calls EXCEPT ![t] = @ + 1]
  /\ op' = [op EXCEPT ![t] = o]
  /\ node' = [node EXCEPT ![my_node[t]].next = None, ![my_node[t]].wait = TRUE]
  /\ Goto(t, "swap")
  /\ UNCHANGED <<tail, mapped, my_node, cur_node, tmp_node, tmp_node_next, counter, seen, ret,
                 mem>>

\* Mutant: wait is not set.
CallNoWait(t, o) ==
  /\ pc[t] = "idle"
  /\ calls[t] < MaxCalls[t]
  /\ calls' = [calls EXCEPT ![t] = @ + 1]
  /\ op' = [op EXCEPT ![t] = o]
  /\ node' = [node EXCEPT ![my_node[t]].next = None, ![my_node[t]].completed = FALSE]
  /\ Goto(t, "swap")
  /\ UNCHANGED <<tail, mapped, my_node, cur_node, tmp_node, tmp_node_next, counter, seen, ret,
                 mem>>

\* A thread calls, and prepares the node that will be the new tail.
Call(t, o) ==
  /\ pc[t] = "idle"
  /\ calls[t] < MaxCalls[t]
  /\ calls' = [calls EXCEPT ![t] = @ + 1]
  /\ op' = [op EXCEPT ![t] = o]
  /\ node' = [node EXCEPT ![my_node[t]].next = None, ![my_node[t]].wait = TRUE,
                          ![my_node[t]].completed = FALSE]
  /\ Goto(t, "swap")
  /\ UNCHANGED <<tail, mapped, my_node, cur_node, tmp_node, tmp_node_next, counter, seen, ret,
                 mem>>

Swap(t) ==
  /\ pc[t] = "swap"
  /\ cur_node' = [cur_node EXCEPT ![t] = tail[ClusterOf(t)]]
  /\ tail' = [tail EXCEPT ![ClusterOf(t)] = my_node[t]]
  /\ Goto(t, "publish")
  /\ UNCHANGED <<node, mapped, my_node, tmp_node, tmp_node_next, counter, seen, Caller, mem>>

Publish(t) ==
  /\ pc[t] = "publish"
  /\ node' = [node EXCEPT ![cur_node[t]].req = op[t].fn, ![cur_node[t]].arg = op[t].var]
  /\ Goto(t, "link")
  /\ UNCHANGED <<tail, mapped, Local, Caller, mem>>

Link(t) ==
  /\ pc[t] = "link"
  /\ node' = [node EXCEPT ![cur_node[t]].next = my_node[t]]
  /\ my_node' = [my_node EXCEPT ![t] = cur_node[t]]
  /\ Goto(t, "wait")
  /\ UNCHANGED <<tail, mapped, cur_node, tmp_node, tmp_node_next, counter, seen, Caller, mem>>

\* The spin ends; the thread has been served or becomes the combiner at label l.
Wait(t, l) ==
  /\ pc[t] = "wait"
  /\ ~node[cur_node[t]].wait
  /\ tmp_node' = [tmp_node EXCEPT ![t] = cur_node[t]]
  /\ Goto(t, IF node[cur_node[t]].completed THEN "return" ELSE l)
  /\ UNCHANGED <<tail, node, mapped, my_node, cur_node, tmp_node_next, counter, seen, Caller, mem>>

\* The head of the combiner's loop; the successor is read before the node is
\* released.
Combine(t) ==
  LET goes_on == node[tmp_node[t]].next # None /\ counter[t] < H IN
  /\ pc[t] = "combine"
  /\ counter' = [counter EXCEPT ![t] = IF goes_on THEN @ + 1 ELSE @]
  /\ tmp_node_next' = [tmp_node_next EXCEPT ![t] = node[tmp_node[t]].next]
  /\ Goto(t, IF goes_on THEN "load" ELSE "handoff")
  /\ UNCHANGED <<tail, node, mapped, my_node, cur_node, tmp_node, seen, Caller, mem>>

\* The request of the node is executed on argument a: a load and a store, for
\* a critical section is not atomic by itself.
Load(t, a) ==
  /\ pc[t] = "load"
  /\ seen' = [seen EXCEPT ![t] = mem[a]]
  /\ Goto(t, "store")
  /\ UNCHANGED <<tail, node, mapped, my_node, cur_node, tmp_node, tmp_node_next, counter,
                 Caller, mem>>

Store(t, a) ==
  LET n == tmp_node[t]
      r == Apply(node[n].req, seen[t])
  IN
  /\ pc[t] = "store"
  /\ mem' = [mem EXCEPT ![a] = r.val]
  /\ node' = [node EXCEPT ![n].ret = r.ret, ![n].completed = TRUE]
  /\ Goto(t, "release")
  /\ UNCHANGED <<tail, mapped, Local, Caller>>

Release(t) ==
  /\ pc[t] = "release"
  /\ node' = [node EXCEPT ![tmp_node[t]].wait = FALSE]
  /\ tmp_node' = [tmp_node EXCEPT ![t] = tmp_node_next[t]]
  /\ Goto(t, "combine")
  /\ UNCHANGED <<tail, mapped, my_node, cur_node, tmp_node_next, counter, seen, Caller, mem>>

\* Mutant: the combiner just leaves.
HandoffNothing(t, l) ==
  /\ pc[t] = "handoff"
  /\ Goto(t, l)
  /\ UNCHANGED <<tail, node, mapped, Local, Caller, mem>>

\* The next combiner, or a thread to come, is let in.
Handoff(t, l) ==
  /\ pc[t] = "handoff"
  /\ node' = [node EXCEPT ![tmp_node[t]].wait = FALSE]
  /\ Goto(t, l)
  /\ UNCHANGED <<tail, mapped, Local, Caller, mem>>

Return(t) ==
  /\ pc[t] = "return"
  /\ ret' = [ret EXCEPT ![t] = node[cur_node[t]].ret]
  /\ op' = [op EXCEPT ![t] = None]
  /\ cur_node' = [cur_node EXCEPT ![t] = None]      \* the locals are dead
  /\ tmp_node' = [tmp_node EXCEPT ![t] = None]
  /\ tmp_node_next' = [tmp_node_next EXCEPT ![t] = None]
  /\ counter' = [counter EXCEPT ![t] = 0]
  /\ seen' = [seen EXCEPT ![t] = InitVal]
  /\ Goto(t, "idle")
  /\ UNCHANGED <<tail, node, mapped, my_node, calls, mem>>

\* Mutant: the node that is munmapped is the one the thread started with.
ExitFirstNode(t) ==
  /\ pc[t] = "idle"
  /\ mapped' = mapped \ {t}
  /\ Goto(t, "exited")
  /\ UNCHANGED <<tail, node, Local, Caller, mem>>

\* A thread exits: on_thread_exit munmaps its node.
Exit(t) ==
  /\ pc[t] = "idle"
  /\ mapped' = mapped \ {my_node[t]}
  /\ Goto(t, "exited")
  /\ UNCHANGED <<tail, node, Local, Caller, mem>>

\* The thread has its node; its request has been executed.
InCall(t) == pc[t] \notin {"idle", "exited", "swap"}
Executed(t) == InCall(t) /\ node[cur_node[t]].completed

\* A step of a call in progress: the argument is the combiner's own.
Step(t) ==
  \/ Swap(t) \/ Publish(t) \/ Link(t) \/ Wait(t, "combine")
  \/ Combine(t) \/ Load(t, op[t].var) \/ Store(t, op[t].var) \/ Release(t) \/ Handoff(t, "return") \/ Return(t)

Ops == [fn : Fns, var : Vars]

Terminated == (\A t \in Threads : pc[t] = "exited") /\ UNCHANGED vars

Next ==
  \/ \E t \in Threads : Step(t) \/ Exit(t) \/ \E o \in Ops : Call(t, o)
  \/ Terminated
-----------------------------------------------------------------------------
Abstract == INSTANCE CombiningService WITH
  Clients <- Threads,
  st <- [t \in Threads |->
    IF pc[t] \in {"idle", "exited"} THEN "idle"
    ELSE IF Executed(t) THEN "done" ELSE "pending"],
  res <- [t \in Threads |-> IF Executed(t) THEN node[cur_node[t]].ret ELSE None]

\* execute_operation executes each request once, atomically, during the call,
\* and returns its result.  The argument is that of the call that combines
\* (line 123), which has executed its own request first.
Combines == UNCHANGED Abstract!vars \/ Abstract!CombiningNext

\* The same, on the argument of the request's own call: what H-Synch promises,
\* and CC-Synch when all calls pass one argument.
Serves == UNCHANGED Abstract!vars \/ Abstract!Next

\* The node each thread dereferences next.
Touches(t) ==
  CASE pc[t] = "idle" -> {my_node[t]}
    [] pc[t] \in {"publish", "link", "wait", "return"} -> {cur_node[t]}
    [] pc[t] \in {"combine", "load", "store", "release", "handoff"} -> {tmp_node[t]}
    [] OTHER -> {}

\* No thread reads or writes a node that its last owner has munmapped on exit
\* (on_thread_exit, line 196), although nodes change hands and a combiner
\* writes into the nodes of threads that may be about to leave.
NoUnmappedAccess == \A t \in Threads : Touches(t) \subseteq mapped

\* Requests are executed in the order in which their threads swapped the tail:
\* one that is behind a waiting request in the queue is not executed before it.
ServedInOrder ==
  \A t, u \in Threads :
    /\ pc[t] \in {"wait", "combine", "load", "store", "release", "handoff"} /\ InCall(u)
    /\ node[cur_node[t]].next = cur_node[u]
    /\ node[cur_node[u]].completed
    => node[cur_node[t]].completed
-----------------------------------------------------------------------------
\* For the proofs: the lock on its own, and what every step of it keeps.
Spec == Init /\ [][Next]_vars
Linearizable == Abstract!CombiningSpec

\* One lock; its first node is nobody's; a combiner executes at least its own
\* request.
Sizes ==
  /\ \A t \in Threads : ClusterOf(t) \in Clusters
  /\ \A j, k \in Clusters : j = k
  /\ Threads \cap Clusters = {}
  /\ None \notin Nodes
  /\ H \in Nat \ {0}

\* A node is a struct of six fields.
IsNode(n) == DOMAIN n = {"req", "arg", "ret", "wait", "completed", "next"}

CombineAt == {"combine", "load", "store", "release", "handoff"}

TypeOK ==
  /\ tail \in [Clusters -> Nodes]
  /\ node = [n \in Nodes |-> node[n]] /\ \A n \in Nodes : IsNode(node[n])
  /\ my_node \in [Threads -> Nodes]
  /\ cur_node \in [Threads -> Nodes \cup {None}]
  /\ tmp_node \in [Threads -> Nodes \cup {None}]
  /\ tmp_node_next \in [Threads -> Nodes \cup {None}]
  /\ counter \in [Threads -> Nat]
  /\ pc \in [Threads -> {"idle", "swap", "publish", "link", "wait", "return", "exited"}
                         \cup CombineAt]
  /\ seen = [t \in Threads |-> seen[t]]
  /\ op = [t \in Threads |-> op[t]]
  /\ ret = [t \in Threads |-> ret[t]]
  /\ mem = [v \in Vars |-> mem[v]]

\* The node thread t has; its request is in the queue and not executed; the node
\* behind it in the queue, which Link has yet to write down.
Own(t) == IF InCall(t) THEN cur_node[t] ELSE my_node[t]
Undone(t) == InCall(t) /\ ~node[cur_node[t]].completed
Behind(t) == IF pc[t] \in {"publish", "link"} THEN my_node[t] ELSE node[cur_node[t]].next

\* The nodes of the queue, and those among them that follow another.
IsTail(n) == \E k \in Clusters : tail[k] = n
Queued(n) == IsTail(n) \/ \E t \in Threads : Undone(t) /\ cur_node[t] = n
Follows(n) == n \in Nodes /\ Queued(n) /\ node[n].wait
First(n) == \A t \in Threads : Undone(t) => Behind(t) # n

\* The nodes go round among the threads and the tail, and each has one place; the
\* nodes that are unmapped are those of threads that have exited.
NodesApart ==
  /\ \A t \in Threads : Own(t) \in Nodes /\ ~IsTail(Own(t))
  /\ \A t, u \in Threads : Own(t) = Own(u) => t = u
  /\ \A n \in Nodes : IsTail(n) => n \in mapped
  /\ \A t \in Threads : pc[t] # "exited" => Own(t) \in mapped

\* What a thread has written to its node, and knows of it.
ThreadRight(t) ==
  /\ pc[t] = "swap" =>
       node[my_node[t]].wait /\ node[my_node[t]].next = None /\ ~node[my_node[t]].completed
  /\ pc[t] \in {"publish", "link"} => node[cur_node[t]].next = None /\ ~node[cur_node[t]].completed
  /\ pc[t] \in {"wait", "return"} \cup CombineAt => my_node[t] = cur_node[t]
  /\ pc[t] \notin {"idle", "exited"} => op[t] \in Ops
  /\ Undone(t) /\ pc[t] # "publish" => node[cur_node[t]].req = op[t].fn
  /\ pc[t] = "return" => ~Undone(t)
  /\ pc[t] \notin {"return"} \cup CombineAt => counter[t] = 0
  /\ pc[t] = "store" => seen[t] = mem[op[t].var]

TailRight == \A n \in Nodes : IsTail(n) => node[n].next = None /\ ~node[n].completed

\* Behind each request that is not executed there is one node, at which a thread
\* has to wait, and that is behind no other.
QueueRight ==
  /\ \A t \in Threads : Undone(t) => Follows(Behind(t))
  /\ \A t, u \in Threads : Undone(t) /\ Undone(u) /\ Behind(t) = Behind(u) => t = u

\* Combiner c is at the first node of the queue, its own or one at which a thread
\* has to wait, and has executed its own request before any other.
AtFirst(c) ==
  /\ First(tmp_node[c])
  /\ \/ /\ tmp_node[c] = cur_node[c] /\ Undone(c)
        /\ pc[c] # "handoff" /\ (pc[c] = "combine" => counter[c] = 0)
     \/ ~Undone(c) /\ Follows(tmp_node[c])

\* Combiner c executes the request of thread t, or has, and t cannot go on.
Executes(c, t) ==
  /\ InCall(t) /\ cur_node[t] = tmp_node[c] /\ (t = c \/ pc[t] = "wait")
  /\ tmp_node_next[c] = node[cur_node[t]].next
Released(c, t) == InCall(t) /\ cur_node[t] = tmp_node[c] /\ (t = c \/ (pc[t] = "wait" /\ node[cur_node[t]].wait))

CombinerRight(c) ==
  /\ pc[c] \in CombineAt \ {"release"} => AtFirst(c)
  /\ pc[c] \in {"load", "store"} => \E t \in Threads : Undone(t) /\ Executes(c, t)
  /\ pc[c] = "release" =>
       /\ ~Undone(c) /\ Follows(tmp_node_next[c]) /\ First(tmp_node_next[c])
       /\ \E t \in Threads : ~Undone(t) /\ Released(c, t)

\* One node of the queue lets its thread in, or that thread combines.
OneFirst ==
  /\ \A n, m \in Nodes : Queued(n) /\ Queued(m) => n = m \/ node[n].wait \/ node[m].wait
  /\ \A c, d \in Threads : pc[c] \in CombineAt /\ pc[d] \in CombineAt => c = d
  /\ \A c \in Threads, n \in Nodes :
       pc[c] \in CombineAt /\ Queued(n) => n = cur_node[c] \/ node[n].wait

CombineInv ==
  /\ TypeOK /\ NodesApart /\ TailRight /\ QueueRight /\ OneFirst
  /\ \A t \in Threads : ThreadRight(t) /\ CombinerRight(t)
=============================================================================
