-------------------------- MODULE CombiningProofs ---------------------------
(***************************************************************************)
(* CC-Synch implements CombiningService, for any number of threads, any    *)
(* limit H of the combiner, any delegated functions and any arguments.     *)
(* The inductive invariant, CombineInv, describes the queue: the nodes of  *)
(* the requests that are not executed and the tail, of which one lets its  *)
(* thread in.                                                              *)
(*                                                                         *)
(* A step of a thread that writes to its own node only cannot disturb the  *)
(* others (Mine); the combiner's write to other nodes, but only to nodes   *)
(* whose threads wait (Writes).                                            *)
(***************************************************************************)
EXTENDS CCSynch, TLAPS

\* Nothing of a thread other than t changes, but for its node.
Alone(t) ==
  \A u \in Threads : u # t =>
    /\ pc'[u] = pc[u] /\ my_node'[u] = my_node[u] /\ cur_node'[u] = cur_node[u]
    /\ tmp_node'[u] = tmp_node[u] /\ tmp_node_next'[u] = tmp_node_next[u]
    /\ counter'[u] = counter[u] /\ seen'[u] = seen[u] /\ op'[u] = op[u]

\* Nothing changes but node n.
Only(n) == \A m \in Nodes : m # n => node'[m] = node[m]

\* A step of t that writes to its own node at most.
Mine(t) == Alone(t) /\ Only(Own(t)) /\ mem' = mem

\* The places in the code.
Labels == {"idle", "swap", "publish", "link", "wait", "return", "exited"} \cup CombineAt

\* Every step is a step of one thread.
LEMMA AloneStep ==
  ASSUME TypeOK, NEW t \in Threads, Step(t) \/ Exit(t) \/ \E o \in Ops : Call(t, o)
  PROVE  Alone(t)
  BY ZenonT(60) DEF TypeOK, Alone, Step, Exit, Call, Swap, Publish, Link, Wait, Combine, Load, Store, Release,
       Handoff, Return, Goto, Local, Caller

\* A call resets the thread's node.
LEMMA TypeCall ==
  ASSUME TypeOK, NEW t \in Threads, NEW o \in Ops, Call(t, o)
  PROVE  /\ TypeOK' /\ Only(my_node[t])
         /\ node'[my_node[t]].wait /\ node'[my_node[t]].next = None /\ ~node'[my_node[t]].completed
         /\ pc[t] = "idle" /\ pc'[t] = "swap" /\ op'[t] = o
         /\ UNCHANGED <<tail, mapped, my_node, cur_node, tmp_node, tmp_node_next, counter, seen, ret, mem>>
  <1>1. my_node[t] \in Nodes
    BY Zenon DEF TypeOK
  <1>2. /\ node' = [n \in Nodes |-> node'[n]] /\ \A n \in Nodes : IsNode(node'[n])
        /\ Only(my_node[t])
        /\ node'[my_node[t]].wait /\ node'[my_node[t]].next = None /\ ~node'[my_node[t]].completed
    BY ZenonT(60), <1>1 DEF TypeOK, IsNode, Call, Only
  <1>3. /\ pc[t] = "idle" /\ pc' = [pc EXCEPT ![t] = "swap"] /\ op' = [op EXCEPT ![t] = o]
        /\ UNCHANGED <<tail, mapped, my_node, cur_node, tmp_node, tmp_node_next, counter, seen, ret, mem>>
    BY Zenon DEF Call, Goto
  <1>4. pc' \in [Threads -> Labels]
        /\ pc'[t] = "swap"
    BY <1>3 DEF TypeOK, Labels, CombineAt
  <1>5. op' = [u \in Threads |-> op'[u]] /\ op'[t] = o
    BY Zenon, <1>3 DEF TypeOK
  <1> QED BY Zenon, <1>2, <1>3, <1>4, <1>5 DEF TypeOK, Labels

\* The swap exchanges the thread's node with the tail.
LEMMA TypeSwap ==
  ASSUME Sizes, TypeOK, NEW t \in Threads, Swap(t)
  PROVE  /\ TypeOK'
         /\ pc[t] = "swap" /\ pc'[t] = "publish" /\ IsTail(cur_node'[t])
         /\ \A n : IsTail(n) => n = cur_node'[t]
         /\ \A n : IsTail(n)' <=> n = my_node[t]
         /\ UNCHANGED <<node, mapped, my_node, tmp_node, tmp_node_next, counter, seen, op, ret, mem>>
  <1>0. ClusterOf(t) \in Clusters /\ \A k \in Clusters : k = ClusterOf(t)
    BY Zenon DEF Sizes
  <1>1. /\ pc[t] = "swap" /\ pc' = [pc EXCEPT ![t] = "publish"]
        /\ UNCHANGED <<node, mapped, my_node, tmp_node, tmp_node_next, counter, seen, op, ret, mem>>
    BY Zenon DEF Swap, Goto, Caller
  <1>2. pc' \in [Threads -> Labels] /\ pc'[t] = "publish"
    BY <1>1 DEF TypeOK, Labels, CombineAt
  <1>3. /\ cur_node' \in [Threads -> Nodes \cup {None}]
        /\ cur_node'[t] = tail[ClusterOf(t)]
    BY Zenon, <1>0 DEF TypeOK, Swap
  <1>4. tail' \in [Clusters -> Nodes] /\ tail'[ClusterOf(t)] = my_node[t]
    BY Zenon, <1>0 DEF TypeOK, Swap
  <1>5. /\ IsTail(cur_node'[t]) /\ \A n : IsTail(n)' <=> n = my_node[t]
        /\ \A n : IsTail(n) => n = cur_node'[t]
    BY Zenon, <1>0, <1>3, <1>4 DEF IsTail
  <1> QED BY Zenon, <1>1, <1>2, <1>3, <1>4, <1>5 DEF TypeOK, Labels

\* The thread writes its request into the node it got.
LEMMA TypePublish ==
  ASSUME TypeOK, NEW t \in Threads, Publish(t), cur_node[t] \in Nodes
  PROVE  /\ TypeOK' /\ Only(cur_node[t])
         /\ LET n == node'[cur_node[t]] m == node[cur_node[t]] IN
              n.req = op[t].fn /\ n.ret = m.ret /\ n.wait = m.wait /\ n.completed = m.completed /\ n.next = m.next
         /\ pc[t] = "publish" /\ pc'[t] = "link"
         /\ UNCHANGED <<tail, mapped, my_node, cur_node, tmp_node, tmp_node_next, counter, seen, op, ret, mem>>
  <1>1. /\ pc[t] = "publish" /\ pc' = [pc EXCEPT ![t] = "link"]
        /\ UNCHANGED <<tail, mapped, my_node, cur_node, tmp_node, tmp_node_next, counter, seen, op, ret, mem>>
    BY Zenon DEF Publish, Goto, Caller, Local
  <1>2. pc' \in [Threads -> Labels] /\ pc'[t] = "link"
    BY <1>1 DEF TypeOK, Labels, CombineAt
  <1>3. /\ node' = [n \in Nodes |-> node'[n]] /\ \A n \in Nodes : IsNode(node'[n])
        /\ Only(cur_node[t])
        /\ LET n == node'[cur_node[t]] m == node[cur_node[t]] IN
              n.req = op[t].fn /\ n.ret = m.ret /\ n.wait = m.wait /\ n.completed = m.completed /\ n.next = m.next
    BY ZenonT(60) DEF TypeOK, IsNode, Publish, Only
  <1> QED BY Zenon, <1>1, <1>2, <1>3 DEF TypeOK, Labels

\* It links the node it left at the tail, and keeps the one with the request.
LEMMA TypeLink ==
  ASSUME TypeOK, NEW t \in Threads, Link(t), cur_node[t] \in Nodes
  PROVE  /\ TypeOK' /\ Only(cur_node[t])
         /\ LET n == node'[cur_node[t]] m == node[cur_node[t]] IN
              n.req = m.req /\ n.ret = m.ret /\ n.wait = m.wait /\ n.completed = m.completed /\ n.next = my_node[t]
         /\ pc[t] = "link" /\ pc'[t] = "wait" /\ my_node'[t] = cur_node[t]
         /\ UNCHANGED <<tail, mapped, cur_node, tmp_node, tmp_node_next, counter, seen, op, ret, mem>>
  <1>1. /\ pc[t] = "link" /\ pc' = [pc EXCEPT ![t] = "wait"]
        /\ UNCHANGED <<tail, mapped, cur_node, tmp_node, tmp_node_next, counter, seen, op, ret, mem>>
    BY Zenon DEF Link, Goto, Caller
  <1>2. pc' \in [Threads -> Labels] /\ pc'[t] = "wait"
    BY <1>1 DEF TypeOK, Labels, CombineAt
  <1>3. /\ node' = [n \in Nodes |-> node'[n]] /\ \A n \in Nodes : IsNode(node'[n])
        /\ Only(cur_node[t])
        /\ LET n == node'[cur_node[t]] m == node[cur_node[t]] IN
              n.req = m.req /\ n.ret = m.ret /\ n.wait = m.wait /\ n.completed = m.completed /\ n.next = my_node[t]
    BY ZenonT(60) DEF TypeOK, IsNode, Link, Only
  <1>4. my_node' \in [Threads -> Nodes] /\ my_node'[t] = cur_node[t]
    BY Zenon DEF TypeOK, Link
  <1> QED BY Zenon, <1>1, <1>2, <1>3, <1>4 DEF TypeOK, Labels

\* The wait ends when the flag is down: with the request executed, or as combiner.
LEMMA TypeWait ==
  ASSUME TypeOK, NEW t \in Threads, Wait(t, "combine")
  PROVE  /\ TypeOK' /\ ~node[cur_node[t]].wait
         /\ tmp_node'[t] = cur_node[t]
         /\ pc[t] = "wait" /\ pc'[t] \in {"return", "combine"}
         /\ pc'[t] = "return" <=> node[cur_node[t]].completed
         /\ UNCHANGED <<tail, node, mapped, my_node, cur_node, tmp_node_next, counter, seen, op, ret, mem>>
  <1>1. /\ pc[t] = "wait" /\ ~node[cur_node[t]].wait
        /\ pc' = [pc EXCEPT ![t] = IF node[cur_node[t]].completed THEN "return" ELSE "combine"]
        /\ UNCHANGED <<tail, node, mapped, my_node, cur_node, tmp_node_next, counter, seen, op, ret, mem>>
    BY Zenon DEF Wait, Goto, Caller
  <1>2. /\ pc' \in [Threads -> Labels] /\ pc'[t] \in {"return", "combine"}
        /\ pc'[t] = "return" <=> node[cur_node[t]].completed
    <2>1. CASE node[cur_node[t]].completed
      <3>1. pc' = [pc EXCEPT ![t] = "return"]
        BY Zenon, <1>1, <2>1
      <3>2. pc' \in [Threads -> Labels] /\ pc'[t] = "return"
        BY <3>1 DEF TypeOK, Labels, CombineAt
      <3> QED BY Zenon, <2>1, <3>2
    <2>2. CASE ~node[cur_node[t]].completed
      <3>1. pc' = [pc EXCEPT ![t] = "combine"]
        BY Zenon, <1>1, <2>2
      <3>2. pc' \in [Threads -> Labels] /\ pc'[t] = "combine" /\ pc'[t] # "return"
        BY <3>1 DEF TypeOK, Labels, CombineAt
      <3> QED BY Zenon, <2>2, <3>2
    <2> QED BY Zenon, <2>1, <2>2
  <1>3. /\ tmp_node' \in [Threads -> Nodes \cup {None}]
        /\ tmp_node'[t] = cur_node[t]
    BY Zenon DEF TypeOK, Wait
  <1> QED BY Zenon, <1>1, <1>2, <1>3 DEF TypeOK, Labels

\* The combiner reads the link to the next node, or stops.
LEMMA TypeCombine ==
  ASSUME TypeOK, NEW t \in Threads, Combine(t), tmp_node[t] \in Nodes,
         node[tmp_node[t]].next \in Nodes \cup {None}
  PROVE  /\ TypeOK'
         /\ tmp_node_next'[t] = node[tmp_node[t]].next
         /\ pc[t] = "combine"
         /\ \/ pc'[t] = "load" /\ node[tmp_node[t]].next # None
            \/ pc'[t] = "handoff" /\ (node[tmp_node[t]].next = None \/ ~(counter[t] < H))
         /\ UNCHANGED <<tail, node, mapped, my_node, cur_node, tmp_node, seen, op, ret, mem>>
  <1> DEFINE goes_on == node[tmp_node[t]].next # None /\ counter[t] < H
  <1>1. /\ pc[t] = "combine"
        /\ pc' = [pc EXCEPT ![t] = IF goes_on THEN "load" ELSE "handoff"]
        /\ counter' = [counter EXCEPT ![t] = IF goes_on THEN counter[t] + 1 ELSE counter[t]]
        /\ UNCHANGED <<tail, node, mapped, my_node, cur_node, tmp_node, seen, op, ret, mem>>
    BY Zenon DEF Combine, Goto, Caller
  <1>2. /\ tmp_node_next' \in [Threads -> Nodes \cup {None}]
        /\ tmp_node_next'[t] = node[tmp_node[t]].next
    BY Zenon DEF TypeOK, Combine
  <1> HIDE DEF goes_on
  <1>3. pc' \in [Threads -> Labels]
         /\ \/ pc'[t] = "load" /\ goes_on
            \/ pc'[t] = "handoff" /\ ~goes_on
    BY <1>1 DEF TypeOK, Labels, CombineAt
  <1>4. counter' \in [Threads -> Nat]
    BY <1>1 DEF TypeOK
  <1> QED BY Zenon, <1>1, <1>2, <1>3, <1>4 DEF TypeOK, Labels, goes_on

\* The first half of a critical section reads the variable.
LEMMA TypeLoad ==
  ASSUME TypeOK, NEW t \in Threads, Load(t, op[t].var)
  PROVE  /\ TypeOK'
         /\ seen'[t] = mem[op[t].var]
         /\ pc[t] = "load" /\ pc'[t] = "store"
         /\ UNCHANGED <<tail, node, mapped, my_node, cur_node, tmp_node, tmp_node_next, counter, op, ret, mem>>
  <1>1. /\ pc[t] = "load" /\ pc' = [pc EXCEPT ![t] = "store"]
        /\ UNCHANGED <<tail, node, mapped, my_node, cur_node, tmp_node, tmp_node_next, counter, op, ret, mem>>
    BY Zenon DEF Load, Goto, Caller
  <1>2. pc' \in [Threads -> Labels] /\ pc'[t] = "store"
    BY <1>1 DEF TypeOK, Labels, CombineAt
  <1>3. seen' = [u \in Threads |-> seen'[u]] /\ seen'[t] = mem[op[t].var]
    BY Zenon DEF TypeOK, Load
  <1> QED BY Zenon, <1>1, <1>2, <1>3 DEF TypeOK, Labels

\* The second half writes it, and the result and the completed flag of the node.
LEMMA TypeStore ==
  ASSUME TypeOK, NEW t \in Threads, Store(t, op[t].var), tmp_node[t] \in Nodes
  PROVE  /\ TypeOK' /\ Only(tmp_node[t])
         /\ LET n == node'[tmp_node[t]] m == node[tmp_node[t]] IN
              n.req = m.req /\ n.ret = Apply(m.req, seen[t]).ret /\ n.wait = m.wait /\ n.completed /\ n.next = m.next
         /\ mem' = [mem EXCEPT ![op[t].var] = Apply(node[tmp_node[t]].req, seen[t]).val]
         /\ pc[t] = "store" /\ pc'[t] = "release"
         /\ UNCHANGED <<tail, mapped, my_node, cur_node, tmp_node, tmp_node_next, counter, seen, op, ret>>
  <1>1. /\ pc[t] = "store" /\ pc' = [pc EXCEPT ![t] = "release"]
        /\ mem' = [mem EXCEPT ![op[t].var] = Apply(node[tmp_node[t]].req, seen[t]).val]
        /\ UNCHANGED <<tail, mapped, my_node, cur_node, tmp_node, tmp_node_next, counter, seen, op, ret>>
    BY Zenon DEF Store, Goto, Caller, Local
  <1>2. pc' \in [Threads -> Labels] /\ pc'[t] = "release"
    BY <1>1 DEF TypeOK, Labels, CombineAt
  <1>3. /\ node' = [n \in Nodes |-> node'[n]] /\ \A n \in Nodes : IsNode(node'[n])
        /\ Only(tmp_node[t])
        /\ LET n == node'[tmp_node[t]] m == node[tmp_node[t]] IN
              n.req = m.req /\ n.ret = Apply(m.req, seen[t]).ret /\ n.wait = m.wait /\ n.completed /\ n.next = m.next
    BY ZenonT(60) DEF TypeOK, IsNode, Store, Only
  <1>4. mem' = [v \in Vars |-> mem'[v]]
    BY Zenon, <1>1 DEF TypeOK
  <1> QED BY Zenon, <1>1, <1>2, <1>3, <1>4 DEF TypeOK, Labels

\* The combiner lowers the flag of the node it has done, and goes to the next.
LEMMA TypeRelease ==
  ASSUME TypeOK, NEW t \in Threads, Release(t), tmp_node[t] \in Nodes
  PROVE  /\ TypeOK' /\ Only(tmp_node[t])
         /\ LET n == node'[tmp_node[t]] m == node[tmp_node[t]] IN
              n.req = m.req /\ n.ret = m.ret /\ ~n.wait /\ n.completed = m.completed /\ n.next = m.next
         /\ tmp_node'[t] = tmp_node_next[t]
         /\ pc[t] = "release" /\ pc'[t] = "combine"
         /\ UNCHANGED <<tail, mapped, my_node, cur_node, tmp_node_next, counter, seen, op, ret, mem>>
  <1>1. /\ pc[t] = "release" /\ pc' = [pc EXCEPT ![t] = "combine"]
        /\ UNCHANGED <<tail, mapped, my_node, cur_node, tmp_node_next, counter, seen, op, ret, mem>>
    BY Zenon DEF Release, Goto, Caller
  <1>2. pc' \in [Threads -> Labels] /\ pc'[t] = "combine"
    BY <1>1 DEF TypeOK, Labels, CombineAt
  <1>3. /\ node' = [n \in Nodes |-> node'[n]] /\ \A n \in Nodes : IsNode(node'[n])
        /\ Only(tmp_node[t])
        /\ LET n == node'[tmp_node[t]] m == node[tmp_node[t]] IN
              n.req = m.req /\ n.ret = m.ret /\ ~n.wait /\ n.completed = m.completed /\ n.next = m.next
    BY ZenonT(60) DEF TypeOK, IsNode, Release, Only
  <1>4. tmp_node' \in [Threads -> Nodes \cup {None}] /\ tmp_node'[t] = tmp_node_next[t]
    BY Zenon DEF TypeOK, Release
  <1> QED BY Zenon, <1>1, <1>2, <1>3, <1>4 DEF TypeOK, Labels

\* It lowers the flag of the node at which it stops.
LEMMA TypeHandoff ==
  ASSUME TypeOK, NEW t \in Threads, Handoff(t, "return"), tmp_node[t] \in Nodes
  PROVE  /\ TypeOK' /\ Only(tmp_node[t])
         /\ LET n == node'[tmp_node[t]] m == node[tmp_node[t]] IN
              n.req = m.req /\ n.ret = m.ret /\ ~n.wait /\ n.completed = m.completed /\ n.next = m.next
         /\ pc[t] = "handoff" /\ pc'[t] = "return"
         /\ UNCHANGED <<tail, mapped, my_node, cur_node, tmp_node, tmp_node_next, counter, seen, op, ret, mem>>
  <1>1. /\ pc[t] = "handoff" /\ pc' = [pc EXCEPT ![t] = "return"]
        /\ UNCHANGED <<tail, mapped, my_node, cur_node, tmp_node, tmp_node_next, counter, seen, op, ret, mem>>
    BY Zenon DEF Handoff, Goto, Caller, Local
  <1>2. pc' \in [Threads -> Labels] /\ pc'[t] = "return"
    BY <1>1 DEF TypeOK, Labels, CombineAt
  <1>3. /\ node' = [n \in Nodes |-> node'[n]] /\ \A n \in Nodes : IsNode(node'[n])
        /\ Only(tmp_node[t])
        /\ LET n == node'[tmp_node[t]] m == node[tmp_node[t]] IN
              n.req = m.req /\ n.ret = m.ret /\ ~n.wait /\ n.completed = m.completed /\ n.next = m.next
    BY ZenonT(60) DEF TypeOK, IsNode, Handoff, Only
  <1> QED BY Zenon, <1>1, <1>2, <1>3 DEF TypeOK, Labels

\* The thread returns the result in its node.
LEMMA TypeReturn ==
  ASSUME TypeOK, NEW t \in Threads, Return(t)
  PROVE  /\ TypeOK' /\ counter'[t] = 0
         /\ ret' = [ret EXCEPT ![t] = node[cur_node[t]].ret]
         /\ op' = [op EXCEPT ![t] = None]
         /\ pc[t] = "return" /\ pc'[t] = "idle"
         /\ UNCHANGED <<tail, node, mapped, my_node, mem>>
  <1>1. /\ pc[t] = "return" /\ pc' = [pc EXCEPT ![t] = "idle"]
        /\ ret' = [ret EXCEPT ![t] = node[cur_node[t]].ret]
        /\ op' = [op EXCEPT ![t] = None]
        /\ UNCHANGED <<tail, node, mapped, my_node, mem>>
    BY Zenon DEF Return, Goto
  <1>2. pc' \in [Threads -> Labels] /\ pc'[t] = "idle"
    BY <1>1 DEF TypeOK, Labels, CombineAt
  <1>3. /\ cur_node' \in [Threads -> Nodes \cup {None}]
        /\ tmp_node' \in [Threads -> Nodes \cup {None}]
        /\ tmp_node_next' \in [Threads -> Nodes \cup {None}]
    BY Zenon DEF TypeOK, Return
  <1>4. counter' \in [Threads -> Nat] /\ counter'[t] = 0
    BY DEF TypeOK, Return
  <1>5. /\ seen' = [u \in Threads |-> seen'[u]]
        /\ op' = [u \in Threads |-> op'[u]]
        /\ ret' = [u \in Threads |-> ret'[u]]
    BY Zenon DEF TypeOK, Return
  <1> QED BY Zenon, <1>1, <1>2, <1>3, <1>4, <1>5 DEF TypeOK, Labels

\* The thread unmaps its node.
LEMMA TypeExit ==
  ASSUME TypeOK, NEW t \in Threads, Exit(t)
  PROVE  /\ TypeOK' /\ mapped' = mapped \ {my_node[t]}
         /\ pc[t] = "idle" /\ pc'[t] = "exited"
         /\ UNCHANGED <<tail, node, my_node, cur_node, tmp_node, tmp_node_next, counter, seen, op, ret, mem>>
  <1>1. /\ pc[t] = "idle" /\ pc' = [pc EXCEPT ![t] = "exited"] /\ mapped' = mapped \ {my_node[t]}
        /\ UNCHANGED <<tail, node, my_node, cur_node, tmp_node, tmp_node_next, counter, seen, op, ret, mem>>
    BY Zenon DEF Exit, Goto, Caller, Local
  <1>2. pc' \in [Threads -> Labels] /\ pc'[t] = "exited"
    BY <1>1 DEF TypeOK, Labels, CombineAt
  <1> QED BY Zenon, <1>1, <1>2 DEF TypeOK, Labels

-----------------------------------------------------------------------------
\* The step leaves another thread and its node alone.
LEMMA OthersKeep ==
  ASSUME TypeOK, NodesApart, NEW t \in Threads, Mine(t), NEW u \in Threads, u # t
  PROVE  /\ InCall(u)' <=> InCall(u)
         /\ Own(u)' = Own(u)
         /\ Undone(u)' <=> Undone(u)
         /\ InCall(u) => Behind(u)' = Behind(u) /\ node'[cur_node[u]] = node[cur_node[u]]
         /\ ThreadRight(u) => ThreadRight(u)'
  <1>1. /\ pc'[u] = pc[u] /\ my_node'[u] = my_node[u] /\ cur_node'[u] = cur_node[u]
        /\ counter'[u] = counter[u] /\ seen'[u] = seen[u] /\ op'[u] = op[u] /\ mem' = mem
    BY Zenon DEF Mine, Alone
  <1>2. Own(u) \in Nodes /\ node'[Own(u)] = node[Own(u)]
    BY Zenon DEF NodesApart, Mine, Only
  <1>3. (InCall(u)' <=> InCall(u)) /\ Own(u)' = Own(u)
    BY Zenon, <1>1 DEF InCall, Own
  <1>4. /\ InCall(u) => node'[cur_node[u]] = node[cur_node[u]]
        /\ ~InCall(u) => node'[my_node[u]] = node[my_node[u]]
    BY Zenon, <1>2 DEF Own
  <1>5. /\ Undone(u)' <=> Undone(u)
        /\ InCall(u) => Behind(u)' = Behind(u)
    BY Zenon, <1>1, <1>3, <1>4 DEF Undone, Behind
  <1>6. ASSUME ThreadRight(u) PROVE ThreadRight(u)'
    <2>1. CASE InCall(u)
      <3>1. pc[u] # "swap"
        BY Zenon, <2>1 DEF InCall
      <3> QED BY Zenon, <1>1, <1>4, <1>5, <1>6, <2>1, <3>1 DEF ThreadRight
    <2>2. CASE ~InCall(u)
      <3>1. /\ ~Undone(u) /\ pc[u] \notin {"publish", "link", "return", "store"}
            /\ pc[u] \notin {"wait", "return"} \cup CombineAt
        BY <2>2 DEF InCall, Undone, CombineAt
      <3> QED BY Zenon, <1>1, <1>4, <1>5, <1>6, <2>2, <3>1 DEF ThreadRight
    <2> QED BY Zenon, <2>1, <2>2
  <1> QED BY Zenon, <1>3, <1>4, <1>5, <1>6

\* The queue stays as it is.
Quiet ==
  /\ \A n : IsTail(n)' <=> IsTail(n)
  /\ \A u \in Threads : /\ Undone(u)' <=> Undone(u)
                        /\ Undone(u) => cur_node'[u] = cur_node[u] /\ Behind(u)' = Behind(u)
  /\ \A n \in Nodes : Queued(n) => (node'[n].wait <=> node[n].wait)

\* If tail, requests and links are as before, so is the queue.
LEMMA QuietQueue ==
  ASSUME Quiet
  PROVE  /\ \A n : Queued(n)' <=> Queued(n)
         /\ \A n : Follows(n)' <=> Follows(n)
         /\ \A n : First(n)' <=> First(n)
         /\ QueueRight => QueueRight'
  <1>1. ASSUME NEW n PROVE Queued(n)' <=> Queued(n)
    BY Zenon DEF Quiet, Queued
  <1>2. ASSUME NEW n PROVE Follows(n)' <=> Follows(n)
    BY Zenon, <1>1 DEF Quiet, Follows, Nodes
  <1>3. ASSUME NEW n PROVE First(n)' <=> First(n)
    BY Zenon DEF Quiet, First
  <1>4. ASSUME QueueRight PROVE QueueRight'
    BY Zenon, <1>2, <1>4 DEF Quiet, QueueRight
  <1> QED BY Zenon, <1>1, <1>2, <1>3, <1>4

\* The step leaves the queue as it is if it leaves t's place in it.
QuietOf(t) ==
  /\ tail' = tail
  /\ Undone(t)' <=> Undone(t)
  /\ Undone(t) => cur_node'[t] = cur_node[t] /\ Behind(t)' = Behind(t)
                   /\ (node'[cur_node[t]].wait <=> node[cur_node[t]].wait)

\* It is enough that the thread's own request is as before.
LEMMA MineQuiet ==
  ASSUME TypeOK, NodesApart, NEW t \in Threads, Mine(t), QuietOf(t)
  PROVE  Quiet
  <1>1. \A n : IsTail(n)' <=> IsTail(n)
    BY Zenon DEF QuietOf, IsTail
  <1>2. ASSUME NEW u \in Threads
        PROVE  /\ Undone(u)' <=> Undone(u)
               /\ Undone(u) => cur_node'[u] = cur_node[u] /\ Behind(u)' = Behind(u)
    <2>1. CASE u = t
      BY Zenon, <2>1 DEF QuietOf
    <2>2. CASE u # t
      BY Zenon, <2>2, OthersKeep DEF Undone, Mine, Alone
    <2> QED BY Zenon, <2>1, <2>2
  <1>3. ASSUME NEW n \in Nodes, Queued(n) PROVE node'[n].wait <=> node[n].wait
    <2>1. CASE n # Own(t)
      BY Zenon, <2>1 DEF Mine, Only
    <2>2. CASE n = Own(t)
      <3>1. PICK u \in Threads : Undone(u) /\ cur_node[u] = n
        BY Zenon, <1>3, <2>2 DEF Queued, NodesApart
      <3>2. u = t
        BY Zenon, <2>2, <3>1 DEF NodesApart, Own, Undone
      <3> QED BY Zenon, <3>1, <3>2 DEF QuietOf
    <2> QED BY Zenon, <2>1, <2>2
  <1> QED BY Zenon, <1>1, <1>2, <1>3 DEF Quiet

\* A thread in a call has its node; one that is not done has it in the queue.
LEMMA OwnNode ==
  ASSUME NodesApart, NEW t \in Threads, InCall(t)
  PROVE  /\ cur_node[t] \in Nodes /\ ~IsTail(cur_node[t]) /\ Own(t) = cur_node[t]
         /\ \A u \in Threads : InCall(u) /\ cur_node[u] = cur_node[t] => u = t
         /\ Queued(cur_node[t]) <=> Undone(t)
  <1>1. Own(t) = cur_node[t]
    BY Zenon DEF Own
  <1>2. \A u \in Threads : InCall(u) /\ cur_node[u] = cur_node[t] => u = t
    BY Zenon DEF NodesApart, Own
  <1>3. cur_node[t] \in Nodes /\ ~IsTail(cur_node[t])
    BY Zenon, <1>1 DEF NodesApart
  <1> QED BY Zenon, <1>1, <1>2, <1>3 DEF Queued, Undone

\* No node of the queue leaves it, lets its thread in or comes to be behind another.
Keeps ==
  \A n \in Nodes : Queued(n) =>
    Queued(n)' /\ (node[n].wait => node'[n].wait) /\ (First(n) => First(n)')

\* Then the first node stays the first, and a thread that has to wait still has to.
LEMMA QuietKeeps == ASSUME Quiet PROVE Keeps
  BY Zenon, QuietQueue DEF Keeps, Quiet

\* Nobody else disturbs a combiner.
LEMMA CombinerKeeps ==
  ASSUME TypeOK, NodesApart, NEW t \in Threads, Mine(t), Keeps,
         pc[t] = "wait" => ~node[cur_node[t]].wait, pc[t] \notin CombineAt,
         NEW c \in Threads, c # t, pc[c] \in CombineAt, CombinerRight(c)
  PROVE  CombinerRight(c)'
  <1>1. /\ pc'[c] = pc[c] /\ cur_node'[c] = cur_node[c] /\ tmp_node'[c] = tmp_node[c]
        /\ tmp_node_next'[c] = tmp_node_next[c] /\ counter'[c] = counter[c]
    BY Zenon DEF Mine, Alone
  <1>2. InCall(c)
    BY DEF InCall, CombineAt
  <1>3. Undone(c)' <=> Undone(c)
    BY Zenon, OthersKeep
  <1>4. \A n : Follows(n) => Follows(n)' /\ (First(n) => First(n)')
    BY Zenon DEF Keeps, Follows
  <1>5. ASSUME AtFirst(c) PROVE AtFirst(c)'
    <2>1. First(tmp_node[c])'
      <3>1. tmp_node[c] \in Nodes /\ Queued(tmp_node[c]) /\ First(tmp_node[c])
        BY Zenon, <1>2, <1>5, OwnNode DEF AtFirst, Follows
      <3>2. First(tmp_node[c])'
        <4>1. \A n \in Nodes : Queued(n) /\ First(n) => \A u \in Threads : Undone(u)' => Behind(u)' # n
          BY Zenon DEF Keeps, First
        <4> QED BY Zenon, <1>1, <3>1, <4>1 DEF First
      <3> QED BY Zenon, <3>2
    <2>2. ASSUME Follows(tmp_node[c]) PROVE Follows(tmp_node[c])'
      BY ZenonT(60), <1>1, <2>2 DEF Keeps, Follows, Queued, Nodes, IsTail
    <2> QED BY Zenon, <1>1, <1>3, <1>5, <2>1, <2>2 DEF AtFirst
  <1>6. ASSUME NEW u \in Threads, u # t, InCall(u)
        PROVE  /\ InCall(u)' /\ cur_node'[u] = cur_node[u] /\ pc'[u] = pc[u]
               /\ node'[cur_node[u]] = node[cur_node[u]] /\ (Undone(u)' <=> Undone(u))
    BY Zenon, <1>6, OthersKeep DEF Mine, Alone
  <1>7. ASSUME pc[c] \in {"load", "store"}
        PROVE  \E u \in Threads : Undone(u)' /\ Executes(c, u)'
    <2>1. PICK u \in Threads : Undone(u) /\ Executes(c, u)
      BY Zenon, <1>7 DEF CombinerRight
    <2>2. AtFirst(c)
      BY <1>7 DEF CombinerRight, CombineAt
    <2>3. u # t
      <3> SUFFICES ASSUME u = t PROVE FALSE
        OBVIOUS
      <3>1. pc[t] = "wait" /\ cur_node[t] = tmp_node[c] /\ InCall(t)
        BY Zenon, <2>1 DEF Executes
      <3>2. tmp_node[c] # cur_node[c]
        BY Zenon, <1>2, <3>1, OwnNode
      <3> QED BY Zenon, <2>2, <3>1, <3>2 DEF AtFirst, Follows
    <2> QED BY ZenonT(60), <1>1, <1>6, <2>1, <2>3 DEF Executes
  <1>8. ASSUME pc[c] = "release"
        PROVE  /\ Follows(tmp_node_next[c])' /\ First(tmp_node_next[c])'
               /\ \E u \in Threads : ~Undone(u)' /\ Released(c, u)'
    <2>1. PICK u \in Threads : ~Undone(u) /\ Released(c, u)
      BY Zenon, <1>8 DEF CombinerRight
    <2>2. u # t
      BY Zenon, <2>1 DEF Released
    <2>3. Follows(tmp_node_next[c]) /\ First(tmp_node_next[c])
      BY Zenon, <1>8 DEF CombinerRight
    <2>4. Follows(tmp_node_next[c])' 
      BY ZenonT(60), <1>1, <2>3 DEF Keeps, Follows, Queued, Nodes, IsTail
    <2>5. First(tmp_node_next[c])'
      BY Zenon, <1>1, <2>3 DEF Keeps, Follows, First
    <2> QED BY ZenonT(60), <1>1, <1>6, <2>1, <2>2, <2>4, <2>5 DEF Released
  <1> QED BY Zenon, <1>1, <1>3, <1>5, <1>7, <1>8 DEF CombinerRight

\* What a step of t has to leave right of t's own.
Fits(t) ==
  /\ TypeOK' /\ Own(t)' = Own(t) /\ ThreadRight(t)' /\ CombinerRight(t)'
  /\ \A n \in Nodes : n \in mapped => n \in mapped' \/ (n = Own(t) /\ pc'[t] = "exited")
  /\ pc[t] = "exited" => pc'[t] = "exited"
  /\ pc[t] = "wait" => ~node[cur_node[t]].wait
  /\ pc'[t] \in CombineAt =>
       /\ cur_node'[t] = cur_node[t]
       /\ pc[t] \in CombineAt \/ (pc[t] = "wait" /\ Undone(t))

\* A step of t with its own node keeps the invariant if it leaves the queue as it is
\* and t's part of the invariant holds.
LEMMA MineInv ==
  ASSUME CombineInv, NEW t \in Threads, Mine(t), QuietOf(t), Fits(t)
  PROVE  CombineInv'
  <1>1. TypeOK /\ NodesApart /\ TailRight /\ QueueRight /\ OneFirst
    BY Zenon DEF CombineInv
  <1>f. /\ TypeOK' /\ Own(t)' = Own(t) /\ ThreadRight(t)' /\ CombinerRight(t)'
        /\ pc[t] = "wait" => ~node[cur_node[t]].wait
    BY Zenon DEF Fits
  <1>g. /\ \A n \in Nodes : n \in mapped => n \in mapped' \/ (n = Own(t) /\ pc'[t] = "exited")
        /\ pc[t] = "exited" => pc'[t] = "exited"
    BY Zenon DEF Fits
  <1>h. pc'[t] \in CombineAt =>
          /\ cur_node'[t] = cur_node[t]
          /\ pc[t] \in CombineAt \/ (pc[t] = "wait" /\ Undone(t) /\ ~node[cur_node[t]].wait)
    BY Zenon DEF Fits
  <1>2. Quiet
    BY Zenon, <1>1, MineQuiet
  <1>3. \A n : IsTail(n)' <=> IsTail(n)
    BY Zenon, <1>2 DEF Quiet
  <1>4. \A u \in Threads : Own(u)' = Own(u)
    BY Zenon, <1>f, <1>1, OthersKeep
  <1>5. NodesApart'
    <2>1. ASSUME NEW u \in Threads, pc'[u] # "exited" PROVE Own(u)' \in mapped'
      <3>1. pc[u] # "exited"
        BY Zenon, <1>g, <2>1 DEF Mine, Alone
      <3>2. Own(u) \in Nodes /\ Own(u) \in mapped
        BY Zenon, <1>1, <3>1 DEF NodesApart
      <3>3. Own(u) = Own(t) => u = t
        BY Zenon, <1>1 DEF NodesApart
      <3> QED BY Zenon, <1>g, <1>4, <2>1, <3>2, <3>3
    <2>2. ASSUME NEW n \in Nodes, IsTail(n)' PROVE n \in mapped'
      BY Zenon, <1>1, <1>3, <1>g, <2>2 DEF NodesApart
    <2>3. ASSUME NEW u \in Threads PROVE Own(u)' \in Nodes /\ ~IsTail(Own(u))'
      <3>1. PICK n : n = Own(u)
        OBVIOUS
      <3>2. n \in Nodes /\ ~IsTail(n) /\ n = Own(u)'
        BY Zenon, <1>1, <1>4, <3>1 DEF NodesApart
      <3>3. ~IsTail(n)'
        BY Zenon, <1>3, <3>2
      <3> QED BY Zenon, <3>2, <3>3 DEF IsTail
    <2>4. \A u, w \in Threads : Own(u)' = Own(w)' => u = w
      BY Zenon, <1>1, <1>4 DEF NodesApart
    <2> QED BY Zenon, <2>1, <2>2, <2>3, <2>4 DEF NodesApart, Nodes
  <1>6. TailRight'
    <2>1. ASSUME NEW n \in Nodes, IsTail(n)' PROVE node'[n].next = None /\ ~node'[n].completed
      <3>1. IsTail(n) /\ n # Own(t)
        BY Zenon, <1>1, <1>3, <2>1 DEF NodesApart
      <3> QED BY Zenon, <1>1, <3>1 DEF TailRight, Mine, Only
    <2> QED BY Zenon, <2>1 DEF TailRight, Nodes
  <1>7. QueueRight'
    BY Zenon, <1>1, <1>2, QuietQueue
  <1>8. OneFirst'
    <2>0. \A n \in Nodes : (Queued(n)' <=> Queued(n)) /\ (Queued(n) => (node'[n].wait <=> node[n].wait))
      BY Zenon, <1>2, QuietQueue DEF Quiet
    <2>1. ASSUME NEW n \in Nodes, NEW m \in Nodes, Queued(n)', Queued(m)'
          PROVE  n = m \/ node'[n].wait \/ node'[m].wait
      BY Zenon, <1>1, <2>0, <2>1 DEF OneFirst
    <2>2. ASSUME NEW c \in Threads, pc[c] \in CombineAt, c # t, pc'[t] \in CombineAt PROVE FALSE
      <3>1. Undone(t) /\ pc[t] = "wait" /\ ~node[cur_node[t]].wait
        BY Zenon, <1>h, <1>1, <2>2 DEF OneFirst
      <3>2. cur_node[t] \in Nodes /\ Queued(cur_node[t]) /\ InCall(t)
        BY Zenon, <1>1, <3>1, OwnNode DEF Undone
      <3>3. cur_node[t] = cur_node[c]
        BY Zenon, <1>1, <2>2, <3>1, <3>2 DEF OneFirst
      <3>4. InCall(c)
        BY <2>2 DEF InCall, CombineAt
      <3> QED BY Zenon, <1>1, <2>2, <3>2, <3>3, <3>4, OwnNode
    <2>3. \A c \in Threads : c # t => pc'[c] = pc[c] /\ cur_node'[c] = cur_node[c]
      BY Zenon DEF Mine, Alone
    <2>4. ASSUME NEW c \in Threads, NEW d \in Threads, pc'[c] \in CombineAt, pc'[d] \in CombineAt
          PROVE  c = d
      BY Zenon, <1>1, <2>2, <2>3, <2>4 DEF OneFirst
    <2>5. ASSUME NEW c \in Threads, NEW n \in Nodes, pc'[c] \in CombineAt, Queued(n)'
          PROVE  n = cur_node'[c] \/ node'[n].wait
      <3>1. CASE c # t \/ pc[t] \in CombineAt
        BY Zenon, <1>h, <1>1, <2>0, <2>3, <2>5, <3>1 DEF OneFirst
      <3>2. CASE c = t /\ pc[t] = "wait" /\ Undone(t)
        <4>1. cur_node[t] \in Nodes /\ Queued(cur_node[t]) /\ cur_node'[t] = cur_node[t]
          BY Zenon, <1>h, <1>1, <2>5, <3>2, OwnNode DEF Undone
        <4> QED BY Zenon, <1>h, <1>1, <2>0, <2>5, <3>2, <4>1 DEF OneFirst
      <3> QED BY Zenon, <1>h, <2>5, <3>1, <3>2
    <2> QED BY Zenon, <2>1, <2>4, <2>5 DEF OneFirst, Nodes
  <1>9. ASSUME NEW u \in Threads PROVE ThreadRight(u)' /\ CombinerRight(u)'
    <2>1. CASE u = t
      BY Zenon, <1>f, <2>1
    <2>2. CASE u # t
      <3>1. ThreadRight(u)'
        BY Zenon, <1>1, <2>2, OthersKeep DEF CombineInv
      <3>2. CASE pc[u] \notin CombineAt
        <4>1. pc'[u] = pc[u]
          BY Zenon, <2>2 DEF Mine, Alone
        <4> QED BY <3>1, <3>2, <4>1 DEF CombinerRight, CombineAt
      <3>3. CASE pc[u] \in CombineAt
        <4>1. pc[t] \notin CombineAt
          BY Zenon, <1>1, <2>2, <3>3 DEF OneFirst
        <4>2. CombinerRight(u) /\ Keeps
          BY Zenon, <1>2, QuietKeeps DEF CombineInv
        <4> QED BY Zenon, <1>1, <2>2, <3>1, <3>3, <4>1, <4>2, <1>f, CombinerKeeps
      <3> QED BY Zenon, <3>2, <3>3
    <2> QED BY Zenon, <2>1, <2>2
  <1> QED BY Zenon, <1>5, <1>6, <1>7, <1>8, <1>9, <1>f DEF CombineInv

-----------------------------------------------------------------------------
\* What CombiningService sees of a thread.
St(t) ==
  IF pc[t] \in {"idle", "exited"} THEN "idle" ELSE IF Executed(t) THEN "done" ELSE "pending"
Res(t) == IF Executed(t) THEN node[cur_node[t]].ret ELSE None
SameCall(t) == St(t)' = St(t) /\ Res(t)' = Res(t)

\* A step that changes no call is a stutter of the service.
LEMMA Stutter ==
  ASSUME \A u \in Threads : SameCall(u), UNCHANGED <<op, ret, mem>>
  PROVE  Combines
  <1>1. /\ [u \in Threads |-> St(u)]' = [u \in Threads |-> St(u)]
        /\ [u \in Threads |-> Res(u)]' = [u \in Threads |-> Res(u)]
    BY Zenon DEF SameCall
  <1> QED BY Zenon, <1>1 DEF Combines, Abstract!vars, St, Res

\* A thread's step with its own node changes nobody else's call.
LEMMA MineOthers ==
  ASSUME TypeOK, NodesApart, NEW t \in Threads, Mine(t), NEW u \in Threads, u # t
  PROVE  SameCall(u)
  <1>1. pc'[u] = pc[u] /\ cur_node'[u] = cur_node[u]
    BY Zenon DEF Mine, Alone
  <1>2. InCall(u) => node'[cur_node[u]] = node[cur_node[u]]
    BY Zenon, OthersKeep
  <1> QED BY Zenon, <1>1, <1>2 DEF SameCall, St, Res, Executed, InCall

\* The request of a call is not executed before it is in the queue.
LEMMA CallStep ==
  ASSUME CombineInv, NEW t \in Threads, NEW o \in Ops, Call(t, o)
  PROVE  CombineInv' /\ Combines
  <1>1. TypeOK /\ NodesApart /\ ThreadRight(t)
    BY Zenon DEF CombineInv
  <1>2. /\ TypeOK' /\ Only(my_node[t])
        /\ node'[my_node[t]].wait /\ node'[my_node[t]].next = None /\ ~node'[my_node[t]].completed
        /\ pc[t] = "idle" /\ pc'[t] = "swap" /\ op'[t] = o
        /\ UNCHANGED <<tail, mapped, my_node, cur_node, tmp_node, tmp_node_next, counter, seen, ret, mem>>
    BY Zenon, <1>1, TypeCall
  <1>3. /\ ~InCall(t) /\ ~InCall(t)' /\ pc'[t] \notin CombineAt /\ pc[t] \notin CombineAt \cup {"return"}
        /\ pc[t] # "exited" /\ pc[t] # "wait"
    BY <1>2 DEF InCall, CombineAt
  <1>4. Own(t) = my_node[t] /\ Own(t)' = my_node[t] /\ ~Undone(t) /\ ~Undone(t)'
    BY Zenon, <1>2, <1>3 DEF Own, Undone
  <1>5. Mine(t)
    BY Zenon, <1>1, <1>2, <1>4, AloneStep DEF Mine
  <1>6. QuietOf(t)
    BY Zenon, <1>2, <1>4 DEF QuietOf
  <1>7. ThreadRight(t)' /\ CombinerRight(t)'
    <2>1. counter'[t] = 0
      BY Zenon, <1>1, <1>2, <1>3 DEF ThreadRight
    <2>2. /\ pc'[t] \notin {"publish", "link", "return", "store"} /\ pc'[t] \notin {"wait", "return"} \cup CombineAt
          /\ pc'[t] \notin {"load", "store"} /\ pc'[t] # "release"
      BY <1>2 DEF CombineAt
    <2> QED BY Zenon, <1>2, <1>3, <1>4, <2>1, <2>2 DEF ThreadRight, CombinerRight
  <1>8. CombineInv'
    <2>1. Fits(t)
      BY Zenon, <1>2, <1>3, <1>4, <1>7 DEF Fits
    <2> QED BY Zenon, <1>5, <1>6, <2>1, MineInv
  <1>9. Combines
    <2>1. St(t) = "idle" /\ St(t)' = "pending" /\ Res(t)' = Res(t)
      BY <1>2, <1>3 DEF St, Res, Executed
    <2>2. \A u \in Threads : u # t => SameCall(u)
      BY Zenon, <1>1, <1>5, MineOthers
    <2>3. [u \in Threads |-> St(u)]' = [[u \in Threads |-> St(u)] EXCEPT ![t] = "pending"]
      BY Zenon, <2>1, <2>2 DEF SameCall
    <2>4. [u \in Threads |-> Res(u)]' = [u \in Threads |-> Res(u)]
      BY Zenon, <2>1, <2>2 DEF SameCall
    <2>5. op' = [op EXCEPT ![t] = o]
      BY Zenon DEF Call
    <2>6. [u \in Threads |-> St(u)][t] = "idle"
      BY Zenon, <2>1
    <2>7. Abstract!Invoke(t, o)
      BY Zenon, <1>2, <2>3, <2>4, <2>5, <2>6 DEF Abstract!Invoke, St, Res
    <2> QED BY Zenon, <2>7 DEF Combines, Abstract!CombiningNext, Abstract!Ops, Ops
  <1> QED BY Zenon, <1>8, <1>9

\* So it is a stutter if the thread's own call is as before.
LEMMA MineStutter ==
  ASSUME TypeOK, NodesApart, NEW t \in Threads, Mine(t), SameCall(t), UNCHANGED <<op, ret>>
  PROVE  Combines
  <1>1. \A u \in Threads : SameCall(u)
    BY Zenon, MineOthers
  <1> QED BY Zenon, <1>1, Stutter DEF Mine

\* Publish: the request is the one of the call.
LEMMA PublishStep ==
  ASSUME CombineInv, NEW t \in Threads, Publish(t)
  PROVE  CombineInv' /\ Combines
  <1>1. TypeOK /\ NodesApart /\ ThreadRight(t)
    BY Zenon DEF CombineInv
  <1>2. InCall(t)
    BY DEF Publish, InCall
  <1>3. /\ cur_node[t] \in Nodes /\ Own(t) = cur_node[t]
    BY Zenon, <1>1, <1>2, OwnNode
  <1>4. /\ TypeOK' /\ Only(cur_node[t])
        /\ LET n == node'[cur_node[t]] m == node[cur_node[t]] IN
             n.req = op[t].fn /\ n.ret = m.ret /\ n.wait = m.wait /\ n.completed = m.completed /\ n.next = m.next
        /\ pc[t] = "publish" /\ pc'[t] = "link"
        /\ UNCHANGED <<tail, mapped, my_node, cur_node, tmp_node, tmp_node_next, counter, seen, op, ret, mem>>
    BY Zenon, <1>1, <1>3, TypePublish
  <1>5. /\ InCall(t)' /\ pc'[t] \in {"publish", "link"} /\ pc[t] \in {"publish", "link"}
        /\ pc'[t] \notin CombineAt \cup {"return", "wait"} /\ pc[t] \notin CombineAt \cup {"return", "wait"}
        /\ pc'[t] \notin {"idle", "exited"} /\ pc[t] \notin {"idle", "exited"}
        /\ pc'[t] # "swap" /\ pc'[t] # "store" /\ pc'[t] # "release" /\ pc'[t] # "return"
        /\ pc[t] # "wait" /\ pc'[t] \notin {"load", "store"}
    BY <1>4 DEF InCall, CombineAt
  <1>6. /\ Own(t)' = Own(t) /\ (Undone(t)' <=> Undone(t)) /\ Behind(t)' = Behind(t)
    BY Zenon, <1>2, <1>4, <1>5 DEF Own, Undone, Behind
  <1>7. Mine(t)
    BY Zenon, <1>1, <1>3, <1>4, AloneStep DEF Mine, Step
  <1>8. QuietOf(t)
    BY Zenon, <1>4, <1>6 DEF QuietOf
  <1>9. ThreadRight(t)'
    BY Zenon, <1>1, <1>4, <1>5, <1>6 DEF ThreadRight
  <1>10. CombinerRight(t)'
    BY Zenon, <1>5 DEF CombinerRight
  <1>11. Fits(t)
    BY Zenon, <1>4, <1>5, <1>6, <1>9, <1>10 DEF Fits
  <1>12. SameCall(t)
    BY Zenon, <1>2, <1>4, <1>5 DEF SameCall, St, Res, Executed
  <1> QED BY Zenon, <1>1, <1>4, <1>7, <1>8, <1>11, <1>12, MineInv, MineStutter

\* Link: what is behind the thread's node is now written down.
LEMMA LinkStep ==
  ASSUME CombineInv, NEW t \in Threads, Link(t)
  PROVE  CombineInv' /\ Combines
  <1>1. TypeOK /\ NodesApart /\ ThreadRight(t)
    BY Zenon DEF CombineInv
  <1>2. InCall(t)
    BY DEF Link, InCall
  <1>3. /\ cur_node[t] \in Nodes /\ Own(t) = cur_node[t]
    BY Zenon, <1>1, <1>2, OwnNode
  <1>4. /\ TypeOK' /\ Only(cur_node[t])
        /\ LET n == node'[cur_node[t]] m == node[cur_node[t]] IN
             n.req = m.req /\ n.ret = m.ret /\ n.wait = m.wait /\ n.completed = m.completed /\ n.next = my_node[t]
        /\ pc[t] = "link" /\ pc'[t] = "wait" /\ my_node'[t] = cur_node[t]
        /\ UNCHANGED <<tail, mapped, cur_node, tmp_node, tmp_node_next, counter, seen, op, ret, mem>>
    BY Zenon, <1>1, <1>3, TypeLink
  <1>5. /\ InCall(t)' /\ pc'[t] \notin {"publish", "link"} /\ pc[t] \in {"publish", "link"}
        /\ pc'[t] \notin CombineAt \cup {"return"} /\ pc[t] \notin CombineAt \cup {"return", "wait"}
        /\ pc'[t] \notin CombineAt /\ pc[t] \notin CombineAt \cup {"return"}
        /\ pc'[t] \notin {"idle", "exited"} /\ pc[t] \notin {"idle", "exited"}
        /\ pc'[t] # "swap" /\ pc'[t] # "store" /\ pc'[t] # "release" /\ pc'[t] # "return"
        /\ pc[t] # "wait" /\ pc[t] # "publish" /\ pc'[t] \notin {"load", "store"}
    BY <1>4 DEF InCall, CombineAt
  <1>6. /\ Own(t)' = Own(t) /\ (Undone(t)' <=> Undone(t)) /\ Behind(t)' = Behind(t)
    BY Zenon, <1>2, <1>4, <1>5 DEF Own, Undone, Behind
  <1>7. Mine(t)
    BY Zenon, <1>1, <1>3, <1>4, AloneStep DEF Mine, Step
  <1>8. QuietOf(t)
    BY Zenon, <1>4, <1>6 DEF QuietOf
  <1>9. ThreadRight(t)'
    BY Zenon, <1>1, <1>4, <1>5, <1>6 DEF ThreadRight
  <1>10. CombinerRight(t)'
    BY Zenon, <1>5 DEF CombinerRight
  <1>11. Fits(t)
    BY Zenon, <1>4, <1>5, <1>6, <1>9, <1>10 DEF Fits
  <1>12. SameCall(t)
    BY Zenon, <1>2, <1>4, <1>5 DEF SameCall, St, Res, Executed
  <1> QED BY Zenon, <1>1, <1>4, <1>7, <1>8, <1>11, <1>12, MineInv, MineStutter

\* Wait: a thread whose flag is down and whose request is not executed is the first, and combines.
LEMMA WaitStep ==
  ASSUME CombineInv, NEW t \in Threads, Wait(t, "combine")
  PROVE  CombineInv' /\ Combines
  <1>1. TypeOK /\ NodesApart /\ ThreadRight(t) /\ QueueRight
    BY Zenon DEF CombineInv
  <1>2. InCall(t)
    BY DEF Wait, InCall
  <1>3. /\ cur_node[t] \in Nodes /\ Own(t) = cur_node[t]
    BY Zenon, <1>1, <1>2, OwnNode
  <1>4. /\ TypeOK' /\ ~node[cur_node[t]].wait
        /\ tmp_node'[t] = cur_node[t]
        /\ pc[t] = "wait" /\ pc'[t] \in {"return", "combine"}
        /\ pc'[t] = "return" <=> node[cur_node[t]].completed
        /\ UNCHANGED <<tail, node, mapped, my_node, cur_node, tmp_node_next, counter, seen, op, ret, mem>>
    BY Zenon, <1>1, TypeWait
  <1>5. /\ InCall(t)' /\ pc'[t] \notin {"publish", "link"} /\ pc[t] \notin {"publish", "link"}
        /\ pc'[t] \in CombineAt \cup {"return"} /\ pc[t] \notin CombineAt \cup {"return"}
        /\ pc[t] \in {"wait", "return"} \cup CombineAt
        /\ pc'[t] \notin {"idle", "exited"} /\ pc[t] \notin {"idle", "exited"}
        /\ pc'[t] # "swap" /\ pc'[t] # "store" /\ pc'[t] # "release" /\ pc'[t] # "handoff"
        /\ pc[t] # "publish" /\ pc'[t] \notin {"load", "store"}
        /\ pc'[t] \in CombineAt <=> pc'[t] # "return"
    BY <1>4 DEF InCall, CombineAt
  <1>6. /\ Own(t)' = Own(t) /\ (Undone(t)' <=> Undone(t)) /\ Behind(t)' = Behind(t)
        /\ Undone(t) <=> pc'[t] # "return"
    BY Zenon, <1>2, <1>4, <1>5 DEF Own, Undone, Behind
  <1>7. Mine(t)
    BY Zenon, <1>1, <1>3, <1>4, AloneStep DEF Mine, Step, Only
  <1>8. QuietOf(t)
    BY Zenon, <1>4, <1>6 DEF QuietOf
  <1>9. ThreadRight(t)'
    BY Zenon, <1>1, <1>4, <1>5, <1>6 DEF ThreadRight
  <1>10. CombinerRight(t)'
    <2>1. ASSUME pc'[t] \in CombineAt PROVE AtFirst(t)'
      <3>1. Undone(t) /\ Undone(t)' /\ counter'[t] = 0
        BY Zenon, <1>1, <1>4, <1>5, <1>6, <2>1 DEF ThreadRight
      <3>2. First(cur_node[t])
        BY Zenon, <1>1, <1>4 DEF First, QueueRight, Follows
      <3>3. Quiet
        BY Zenon, <1>1, <1>7, <1>8, MineQuiet
      <3>4. ASSUME NEW u \in Threads, Undone(u)' PROVE Behind(u)' # tmp_node'[t]
        BY Zenon, <1>4, <3>2, <3>3, <3>4 DEF First, Quiet
      <3> QED BY Zenon, <1>4, <1>5, <3>1, <3>4 DEF AtFirst, First
    <2> QED BY Zenon, <1>5, <2>1 DEF CombinerRight
  <1>11. Fits(t)
    BY Zenon, <1>4, <1>5, <1>6, <1>9, <1>10 DEF Fits
  <1>12. SameCall(t)
    BY Zenon, <1>2, <1>4, <1>5 DEF SameCall, St, Res, Executed
  <1> QED BY Zenon, <1>1, <1>4, <1>7, <1>8, <1>11, <1>12, MineInv, MineStutter

\* The node a combiner is at: it is in the queue, and if another node is linked to
\* it, it is the combiner's own or that of a thread that waits.
LEMMA CombinerNode ==
  ASSUME Sizes, CombineInv, NEW c \in Threads, pc[c] \in CombineAt \ {"release"}
  PROVE  /\ AtFirst(c) /\ tmp_node[c] \in Nodes /\ Queued(tmp_node[c])
         /\ node[tmp_node[c]].next \in Nodes \cup {None}
         /\ node[tmp_node[c]].next # None =>
              \E u \in Threads : Undone(u) /\ cur_node[u] = tmp_node[c] /\ (u = c \/ pc[u] = "wait")
         /\ Undone(c) => node[cur_node[c]].next # None
  <1>1. TypeOK /\ NodesApart /\ TailRight /\ QueueRight /\ OneFirst
    BY Zenon DEF CombineInv
  <1>2. InCall(c) /\ pc[c] \in CombineAt /\ pc[c] \notin {"publish", "link"}
    BY DEF InCall, CombineAt
  <1>3. AtFirst(c)
    BY Zenon DEF CombineInv, CombinerRight
  <1>4. tmp_node[c] \in Nodes /\ Queued(tmp_node[c])
    BY Zenon, <1>1, <1>2, <1>3, OwnNode DEF AtFirst, Follows
  <1>5. ASSUME NEW u \in Threads, Undone(u), pc[u] \notin {"publish", "link"}
        PROVE  node[cur_node[u]].next \in Nodes /\ node[cur_node[u]].next # None
    <2>1. PICK m : m = node[cur_node[u]].next
      OBVIOUS
    <2>2. m \in Nodes
      BY Zenon, <1>1, <1>5, <2>1 DEF QueueRight, Follows, Behind
    <2> QED BY Zenon, <2>1, <2>2 DEF Sizes
  <1>6. Undone(c) => node[cur_node[c]].next # None
    BY Zenon, <1>2, <1>5
  <1>7. CASE IsTail(tmp_node[c])
    BY Zenon, <1>1, <1>3, <1>4, <1>6, <1>7 DEF TailRight
  <1>8. CASE ~IsTail(tmp_node[c])
    <2>1. PICK u \in Threads : Undone(u) /\ cur_node[u] = tmp_node[c]
      BY Zenon, <1>4, <1>8 DEF Queued
    <2>2. CASE pc[u] \in {"publish", "link"}
      <3>1. node[tmp_node[c]].next = None
        BY Zenon, <2>1, <2>2 DEF CombineInv, ThreadRight
      <3> QED BY Zenon, <1>3, <1>4, <1>6, <3>1
    <2>3. CASE pc[u] \notin {"publish", "link"}
      <3>1. u = c \/ pc[u] = "wait"
        <4>1. pc[u] # "return"
          BY Zenon, <2>1 DEF CombineInv, ThreadRight
        <4>2. pc[u] = "wait" \/ pc[u] \in CombineAt
          BY <1>1, <2>1, <2>3, <4>1 DEF TypeOK, Undone, InCall, CombineAt
        <4> QED BY Zenon, <1>1, <1>2, <4>2 DEF OneFirst
      <3>2. node[tmp_node[c]].next \in Nodes
        BY Zenon, <1>5, <2>1, <2>3
      <3> QED BY Zenon, <1>3, <1>4, <1>6, <2>1, <3>1, <3>2
    <2> QED BY Zenon, <2>2, <2>3
  <1> QED BY Zenon, <1>7, <1>8

\* A step of a combiner that changes only its locals, at the same node.
LEMMA CombineStep ==
  ASSUME Sizes, CombineInv, NEW t \in Threads, Combine(t)
  PROVE  CombineInv' /\ Combines
  <1>1. TypeOK /\ NodesApart /\ ThreadRight(t) /\ QueueRight
    BY Zenon DEF CombineInv
  <1>2. InCall(t) /\ pc[t] \in CombineAt \ {"release"} /\ pc[t] = "combine"
    BY DEF Combine, InCall, CombineAt
  <1>3. /\ cur_node[t] \in Nodes /\ Own(t) = cur_node[t]
    BY Zenon, <1>1, <1>2, OwnNode
  <1>4. /\ AtFirst(t) /\ tmp_node[t] \in Nodes
        /\ node[tmp_node[t]].next \in Nodes \cup {None}
        /\ node[tmp_node[t]].next # None =>
             \E u \in Threads : Undone(u) /\ cur_node[u] = tmp_node[t] /\ (u = t \/ pc[u] = "wait")
        /\ Undone(t) => node[cur_node[t]].next # None
    BY Zenon, <1>2, CombinerNode
  <1>5. /\ TypeOK'
        /\ tmp_node_next'[t] = node[tmp_node[t]].next
        /\ \/ pc'[t] = "load" /\ node[tmp_node[t]].next # None
           \/ pc'[t] = "handoff" /\ (node[tmp_node[t]].next = None \/ ~(counter[t] < H))
        /\ UNCHANGED <<tail, node, mapped, my_node, cur_node, tmp_node, seen, op, ret, mem>>
    BY Zenon, <1>1, <1>4, TypeCombine
  <1>6. /\ InCall(t)' /\ pc'[t] \notin {"publish", "link"} /\ pc[t] \notin {"publish", "link"}
        /\ pc'[t] \in CombineAt \ {"release"} /\ pc'[t] \in CombineAt \cup {"return"}
        /\ pc[t] \in {"wait", "return"} \cup CombineAt
        /\ pc'[t] \notin {"idle", "exited"} /\ pc[t] \notin {"idle", "exited"}
        /\ pc'[t] # "swap" /\ pc'[t] # "store" /\ pc'[t] # "release" /\ pc'[t] # "combine" /\ pc'[t] # "return"
        /\ pc[t] # "publish" /\ pc[t] # "wait" /\ (pc'[t] \in {"load", "store"} <=> pc'[t] = "load")
        /\ pc'[t] = "handoff" => pc'[t] # "load"
    BY <1>2, <1>5 DEF InCall, CombineAt
  <1>7. /\ Own(t)' = Own(t) /\ (Undone(t)' <=> Undone(t)) /\ Behind(t)' = Behind(t)
    BY Zenon, <1>2, <1>5, <1>6 DEF Own, Undone, Behind
  <1>8. Mine(t)
    BY Zenon, <1>1, <1>3, <1>5, AloneStep DEF Mine, Step, Only
  <1>9. QuietOf(t)
    BY Zenon, <1>5, <1>7 DEF QuietOf
  <1>10. ThreadRight(t)'
    BY Zenon, <1>1, <1>5, <1>6, <1>7 DEF ThreadRight
  <1>11. Quiet
    BY Zenon, <1>1, <1>8, <1>9, MineQuiet
  <1>12. First(tmp_node[t])' /\ (Follows(tmp_node[t]) => Follows(tmp_node[t])')
    <2>1. PICK n : n = tmp_node[t] /\ n = tmp_node'[t] /\ First(n)
      BY Zenon, <1>4, <1>5 DEF AtFirst
    <2>2. First(n)' /\ (Follows(n) => Follows(n)')
      BY Zenon, <1>11, <2>1, QuietQueue
    <2>3. First(tmp_node[t])'
      BY Zenon, <2>1, <2>2 DEF First
    <2>4. Follows(tmp_node[t]) => Follows(tmp_node[t])'
      BY Zenon, <2>1, <2>2 DEF Follows, Queued, IsTail, Nodes
    <2> QED BY Zenon, <2>3, <2>4
  <1>13. AtFirst(t)'
    <2>1. ASSUME pc'[t] = "handoff", tmp_node[t] = cur_node[t], Undone(t) PROVE FALSE
      <3>1. counter[t] = 0 /\ node[tmp_node[t]].next # None
        BY Zenon, <1>1, <1>2, <1>3, <1>4, <2>1, OwnNode DEF AtFirst
      <3>2. ~(counter[t] < H)
        BY Zenon, <1>5, <1>6, <2>1, <3>1
      <3> QED BY <3>1, <3>2 DEF Sizes
    <2> QED BY Zenon, <1>4, <1>5, <1>6, <1>7, <1>12, <2>1 DEF AtFirst
  <1>14. ASSUME pc'[t] = "load" PROVE \E u \in Threads : Undone(u)' /\ Executes(t, u)'
    <2>1. node[tmp_node[t]].next # None
      BY Zenon, <1>5, <1>6, <1>14
    <2>2. PICK u \in Threads : Undone(u) /\ cur_node[u] = tmp_node[t] /\ (u = t \/ pc[u] = "wait")
      BY Zenon, <1>4, <2>1
    <2>3. Undone(u)' /\ InCall(u)'
      BY Zenon, <1>11, <2>2 DEF Quiet, Undone
    <2>4. u = t \/ pc'[u] = "wait"
      BY Zenon, <1>8, <2>2 DEF Mine, Alone
    <2> QED BY Zenon, <1>5, <2>2, <2>3, <2>4 DEF Executes
  <1>15. CombinerRight(t)'
    BY Zenon, <1>6, <1>13, <1>14 DEF CombinerRight
  <1>16. Fits(t)
    BY Zenon, <1>2, <1>5, <1>6, <1>7, <1>10, <1>15 DEF Fits
  <1>17. SameCall(t)
    BY Zenon, <1>2, <1>5, <1>6 DEF SameCall, St, Res, Executed
  <1> QED BY Zenon, <1>1, <1>5, <1>8, <1>9, <1>16, <1>17, MineInv, MineStutter

\* Load: the value read is the variable's, as nobody else combines.
LEMMA LoadStep ==
  ASSUME Sizes, CombineInv, NEW t \in Threads, Load(t, op[t].var)
  PROVE  CombineInv' /\ Combines
  <1>1. TypeOK /\ NodesApart /\ ThreadRight(t) /\ QueueRight /\ CombinerRight(t)
    BY Zenon DEF CombineInv
  <1>2. InCall(t) /\ pc[t] \in CombineAt \ {"release"} /\ pc[t] \in {"load", "store"}
    BY DEF Load, InCall, CombineAt
  <1>3. /\ cur_node[t] \in Nodes /\ Own(t) = cur_node[t]
    BY Zenon, <1>1, <1>2, OwnNode
  <1>4. AtFirst(t)
    BY Zenon, <1>2, CombinerNode
  <1>5. /\ TypeOK'
        /\ seen'[t] = mem[op[t].var]
        /\ pc[t] = "load" /\ pc'[t] = "store"
        /\ UNCHANGED <<tail, node, mapped, my_node, cur_node, tmp_node, tmp_node_next, counter, op, ret, mem>>
    BY Zenon, <1>1, <1>4, TypeLoad
  <1>6. /\ InCall(t)' /\ pc'[t] \notin {"publish", "link"} /\ pc[t] \notin {"publish", "link"}
        /\ pc'[t] \in CombineAt \ {"release"} /\ pc'[t] \in CombineAt \cup {"return"}
        /\ pc[t] \in {"wait", "return"} \cup CombineAt /\ pc'[t] # "handoff"
        /\ pc'[t] \notin {"idle", "exited"} /\ pc[t] \notin {"idle", "exited"}
        /\ pc'[t] # "swap" /\ pc'[t] # "release" /\ pc'[t] # "combine" /\ pc'[t] # "return"
        /\ pc[t] # "publish" /\ pc[t] # "wait"
    BY <1>2, <1>5 DEF InCall, CombineAt
  <1>7. /\ Own(t)' = Own(t) /\ (Undone(t)' <=> Undone(t)) /\ Behind(t)' = Behind(t)
    BY Zenon, <1>2, <1>5, <1>6 DEF Own, Undone, Behind
  <1>8. Mine(t)
    BY Zenon, <1>1, <1>3, <1>5, AloneStep DEF Mine, Step, Only
  <1>9. QuietOf(t)
    BY Zenon, <1>5, <1>7 DEF QuietOf
  <1>10. ThreadRight(t)'
    BY Zenon, <1>1, <1>5, <1>6, <1>7 DEF ThreadRight
  <1>11. Quiet
    BY Zenon, <1>1, <1>8, <1>9, MineQuiet
  <1>12. First(tmp_node[t])' /\ (Follows(tmp_node[t]) => Follows(tmp_node[t])')
    <2>1. PICK n : n = tmp_node[t] /\ n = tmp_node'[t] /\ First(n)
      BY Zenon, <1>4, <1>5 DEF AtFirst
    <2>2. First(n)' /\ (Follows(n) => Follows(n)')
      BY Zenon, <1>11, <2>1, QuietQueue
    <2>3. First(tmp_node[t])'
      BY Zenon, <2>1, <2>2 DEF First
    <2>4. Follows(tmp_node[t]) => Follows(tmp_node[t])'
      BY Zenon, <2>1, <2>2 DEF Follows, Queued, IsTail, Nodes
    <2> QED BY Zenon, <2>3, <2>4
  <1>13. AtFirst(t)'
    BY Zenon, <1>4, <1>5, <1>6, <1>7, <1>12 DEF AtFirst
  <1>14. \E u \in Threads : Undone(u)' /\ Executes(t, u)'
    <2>1. PICK u \in Threads : Undone(u) /\ Executes(t, u)
      BY Zenon, <1>1, <1>2 DEF CombinerRight
    <2>2. Undone(u)' /\ InCall(u)'
      BY Zenon, <1>11, <2>1 DEF Quiet, Undone
    <2>3. u = t \/ pc'[u] = "wait"
      BY Zenon, <1>8, <2>1 DEF Mine, Alone, Executes
    <2> QED BY Zenon, <1>5, <2>1, <2>2, <2>3 DEF Executes
  <1>15. CombinerRight(t)'
    BY Zenon, <1>6, <1>13, <1>14 DEF CombinerRight
  <1>16. Fits(t)
    BY Zenon, <1>2, <1>5, <1>6, <1>7, <1>10, <1>15 DEF Fits
  <1>17. SameCall(t)
    BY Zenon, <1>2, <1>5, <1>6 DEF SameCall, St, Res, Executed
  <1> QED BY Zenon, <1>1, <1>5, <1>8, <1>9, <1>16, <1>17, MineInv, MineStutter

\* Return: the result is the one stored with the execution.
LEMMA ReturnStep ==
  ASSUME CombineInv, NEW t \in Threads, Return(t)
  PROVE  CombineInv' /\ Combines
  <1>1. TypeOK /\ NodesApart /\ ThreadRight(t)
    BY Zenon DEF CombineInv
  <1>2. InCall(t)
    BY DEF Return, InCall
  <1>3. /\ cur_node[t] \in Nodes /\ Own(t) = cur_node[t]
    BY Zenon, <1>1, <1>2, OwnNode
  <1>4. /\ TypeOK' /\ counter'[t] = 0
        /\ ret' = [ret EXCEPT ![t] = node[cur_node[t]].ret]
        /\ op' = [op EXCEPT ![t] = None]
        /\ pc[t] = "return" /\ pc'[t] = "idle"
        /\ UNCHANGED <<tail, node, mapped, my_node, mem>>
    BY Zenon, <1>1, TypeReturn
  <1>5. /\ ~InCall(t)' /\ pc'[t] \notin {"publish", "link"}
        /\ pc'[t] \notin CombineAt /\ pc'[t] \notin CombineAt \ {"release"}
        /\ pc[t] \in {"wait", "return"} \cup CombineAt /\ pc'[t] \notin {"wait", "return"} \cup CombineAt
        /\ pc'[t] \in {"idle", "exited"} /\ pc[t] \notin {"idle", "exited"}
        /\ pc'[t] # "swap" /\ pc'[t] # "release" /\ pc'[t] # "store" /\ pc'[t] # "return"
        /\ pc[t] # "exited" /\ pc[t] # "wait" /\ pc'[t] \notin {"load", "store"}
    BY <1>2, <1>4 DEF InCall, CombineAt
  <1>6. ~Undone(t) /\ ~Undone(t)' /\ Own(t)' = Own(t)
    BY Zenon, <1>1, <1>3, <1>4, <1>5 DEF Own, Undone, ThreadRight
  <1>7. Mine(t)
    BY Zenon, <1>1, <1>3, <1>4, AloneStep DEF Mine, Step, Only
  <1>8. QuietOf(t)
    BY Zenon, <1>4, <1>6 DEF QuietOf
  <1>9. ThreadRight(t)'
    BY Zenon, <1>4, <1>5, <1>6 DEF ThreadRight
  <1>10. CombinerRight(t)'
    BY Zenon, <1>5 DEF CombinerRight
  <1>11. Fits(t)
    BY Zenon, <1>4, <1>5, <1>6, <1>9, <1>10 DEF Fits
  <1>12. Combines
    <2>1. Executed(t) /\ ~Executed(t)'
      BY Zenon, <1>2, <1>5, <1>6 DEF Executed, Undone
    <2>2. St(t) = "done" /\ St(t)' = "idle" /\ Res(t) = node[cur_node[t]].ret /\ Res(t)' = None
      BY Zenon, <1>5, <2>1 DEF St, Res
    <2>3. \A u \in Threads : u # t => SameCall(u)
      BY Zenon, <1>1, <1>7, MineOthers
    <2>4. [u \in Threads |-> St(u)]' = [[u \in Threads |-> St(u)] EXCEPT ![t] = "idle"]
      BY Zenon, <2>2, <2>3 DEF SameCall
    <2>5. [u \in Threads |-> Res(u)]' = [[u \in Threads |-> Res(u)] EXCEPT ![t] = None]
      BY Zenon, <2>2, <2>3 DEF SameCall
    <2>6. [u \in Threads |-> St(u)][t] = "done"
      BY Zenon, <2>2
    <2>7. ret' = [ret EXCEPT ![t] = [u \in Threads |-> Res(u)][t]]
      BY Zenon, <1>4, <2>2
    <2>8. Abstract!Return(t)
      BY Zenon, <1>4, <2>4, <2>5, <2>6, <2>7 DEF Abstract!Return, St, Res
    <2> QED BY Zenon, <2>8 DEF Combines, Abstract!CombiningNext
  <1> QED BY Zenon, <1>7, <1>8, <1>11, <1>12, MineInv

\* Exit: the thread has a node that is not in the queue.
LEMMA ExitStep ==
  ASSUME CombineInv, NEW t \in Threads, Exit(t)
  PROVE  CombineInv' /\ Combines
  <1>1. TypeOK /\ NodesApart /\ ThreadRight(t)
    BY Zenon DEF CombineInv
  <1>2. /\ TypeOK' /\ mapped' = mapped \ {my_node[t]}
        /\ pc[t] = "idle" /\ pc'[t] = "exited"
        /\ UNCHANGED <<tail, node, my_node, cur_node, tmp_node, tmp_node_next, counter, seen, op, ret, mem>>
    BY Zenon, <1>1, TypeExit
  <1>3. /\ ~InCall(t) /\ ~InCall(t)' /\ pc'[t] \notin {"publish", "link"}
        /\ pc'[t] \notin CombineAt /\ pc'[t] \notin CombineAt \ {"release"}
        /\ pc[t] \notin {"return"} \cup CombineAt /\ pc'[t] \notin {"wait", "return"} \cup CombineAt
        /\ pc'[t] \in {"idle", "exited"} /\ pc[t] \in {"idle", "exited"}
        /\ pc'[t] # "swap" /\ pc'[t] # "release" /\ pc'[t] # "store" /\ pc'[t] # "return"
        /\ pc[t] # "exited" /\ pc[t] # "wait" /\ pc'[t] \notin {"load", "store"}
    BY <1>2 DEF InCall, CombineAt
  <1>4. ~Undone(t) /\ ~Undone(t)' /\ Own(t)' = Own(t) /\ Own(t) = my_node[t]
    BY Zenon, <1>2, <1>3 DEF Own, Undone
  <1>5. Mine(t)
    BY Zenon, <1>1, <1>2, <1>4, AloneStep DEF Mine, Only
  <1>6. QuietOf(t)
    BY Zenon, <1>2, <1>4 DEF QuietOf
  <1>7. ThreadRight(t)'
    BY Zenon, <1>1, <1>2, <1>3, <1>4 DEF ThreadRight
  <1>8. CombinerRight(t)'
    BY Zenon, <1>3 DEF CombinerRight
  <1>9. Fits(t)
    <2>1. \A n \in Nodes : n \in mapped => n \in mapped' \/ n = Own(t)
      BY Zenon, <1>2, <1>4
    <2> QED BY Zenon, <1>2, <1>3, <1>4, <1>7, <1>8, <2>1 DEF Fits
  <1>10. SameCall(t)
    BY Zenon, <1>2, <1>3 DEF SameCall, St, Res, Executed
  <1> QED BY Zenon, <1>1, <1>2, <1>5, <1>6, <1>9, <1>10, MineInv, MineStutter

\* The swap puts a node at the end of the queue, behind the node that was the tail
\* and is now the thread's.
LEMMA SwapStep ==
  ASSUME Sizes, CombineInv, NEW t \in Threads, Swap(t)
  PROVE  CombineInv' /\ Combines
  <1>1. TypeOK /\ NodesApart /\ TailRight /\ QueueRight /\ OneFirst /\ ThreadRight(t)
    BY Zenon DEF CombineInv
  <1>2. /\ TypeOK'
        /\ pc[t] = "swap" /\ pc'[t] = "publish" /\ IsTail(cur_node'[t])
        /\ \A n : IsTail(n) => n = cur_node'[t]
        /\ \A n : IsTail(n)' <=> n = my_node[t]
        /\ UNCHANGED <<node, mapped, my_node, tmp_node, tmp_node_next, counter, seen, op, ret, mem>>
    BY Zenon, <1>1, TypeSwap
  <1>3. /\ ~InCall(t) /\ InCall(t)' /\ pc'[t] \in {"publish", "link"} /\ pc[t] # "exited" /\ pc[t] # "wait"
        /\ pc'[t] \notin CombineAt /\ pc'[t] \notin CombineAt \ {"release"} /\ pc[t] \notin CombineAt
        /\ pc[t] \notin {"return"} \cup CombineAt /\ pc'[t] \notin {"wait", "return"} \cup CombineAt
        /\ pc'[t] \notin {"idle", "exited"} /\ pc[t] \notin {"idle", "exited"}
        /\ pc'[t] # "swap" /\ pc'[t] # "release" /\ pc'[t] # "store" /\ pc'[t] # "return"
        /\ pc'[t] \notin {"load", "store"}
    BY <1>2 DEF InCall, CombineAt
  <1>4. PICK a, b : a = cur_node'[t] /\ b = my_node[t]
    OBVIOUS
  <1>5. /\ Own(t) = b /\ Own(t)' = a /\ ~Undone(t) /\ Behind(t)' = b
        /\ a \in Nodes /\ b \in Nodes /\ IsTail(a) /\ ~IsTail(b) /\ a # b
        /\ node[b].wait /\ node[b].next = None /\ ~node[b].completed
        /\ node[a].next = None /\ ~node[a].completed
    <2>1. Own(t) = b /\ Own(t)' = a /\ ~Undone(t) /\ Behind(t)' = b
      BY Zenon, <1>2, <1>3, <1>4 DEF Own, Undone, Behind
    <2>2. a \in Nodes /\ b \in Nodes /\ IsTail(a) /\ ~IsTail(b)
      <3>1. IsTail(a)
        BY Zenon, <1>2, <1>4
      <3>2. a \in Nodes
        BY Zenon, <1>1, <3>1 DEF TypeOK, IsTail
      <3>3. b \in Nodes /\ ~IsTail(b)
        BY Zenon, <1>1, <2>1 DEF NodesApart
      <3> QED BY Zenon, <3>1, <3>2, <3>3
    <2>3. node[b].wait /\ node[b].next = None /\ ~node[b].completed
      BY Zenon, <1>1, <1>2, <1>4 DEF ThreadRight
    <2> QED BY Zenon, <1>1, <2>1, <2>2, <2>3 DEF TailRight
  <1>6. Undone(t)'
    BY Zenon, <1>2, <1>3, <1>4, <1>5 DEF Undone
  <1>7. Mine(t)
    BY Zenon, <1>1, <1>2, AloneStep DEF Mine, Step, Only
  <1>8. ASSUME NEW u \in Threads, u # t
        PROVE  /\ InCall(u)' <=> InCall(u)
               /\ Own(u)' = Own(u) /\ cur_node'[u] = cur_node[u] /\ pc'[u] = pc[u]
               /\ Undone(u)' <=> Undone(u)
               /\ Undone(u) => Behind(u)' = Behind(u)
               /\ ThreadRight(u)'
    BY Zenon, <1>1, <1>7, <1>8, OthersKeep DEF CombineInv, Undone, Mine, Alone
  <1>9. ~Queued(b) /\ \A n : Queued(n)' <=> Queued(n) \/ n = b
    <2>1. ~Queued(b)
      <3>1. ASSUME NEW u \in Threads, Undone(u) PROVE cur_node[u] # b
        <4>1. Own(u) = cur_node[u] /\ u # t
          BY Zenon, <1>3, <3>1 DEF Undone, Own
        <4> QED BY Zenon, <1>1, <1>5, <4>1 DEF NodesApart
      <3> QED BY Zenon, <1>5, <3>1 DEF Queued
    <2>2. ASSUME NEW n, Queued(n) PROVE Queued(n)'
      <3>1. CASE IsTail(n)
        BY Zenon, <1>2, <1>6, <3>1 DEF Queued
      <3>2. CASE ~IsTail(n)
        BY Zenon, <1>5, <1>8, <2>2, <3>2 DEF Queued
      <3> QED BY Zenon, <3>1, <3>2
    <2>3. ASSUME NEW n, Queued(n)', n # b PROVE Queued(n)
      BY Zenon, <1>2, <1>4, <1>5, <1>8, <2>3 DEF Queued
    <2>4. Queued(b)'
      BY Zenon, <1>2, <1>4 DEF Queued
    <2> QED BY Zenon, <2>1, <2>2, <2>3, <2>4
  <1>10. NodesApart'
    <2>1. \A u \in Threads : u # t => Own(u) \in Nodes /\ Own(u) # b /\ Own(u) # a
      BY Zenon, <1>1, <1>5 DEF NodesApart
    <2>2. a \in mapped /\ b \in mapped
      BY Zenon, <1>1, <1>3, <1>5 DEF NodesApart
    <2>3. ASSUME NEW u \in Threads PROVE Own(u)' \in Nodes /\ Own(u)' # b
      BY Zenon, <1>5, <1>8, <2>1
    <2>4. ASSUME NEW u \in Threads PROVE ~IsTail(Own(u))'
      <3>1. PICK n : n = Own(u)'
        OBVIOUS
      <3>2. ~IsTail(n)'
        BY Zenon, <1>2, <1>4, <2>3, <3>1
      <3> QED BY Zenon, <3>1, <3>2 DEF IsTail
    <2>5. ASSUME NEW u \in Threads, NEW w \in Threads, Own(u)' = Own(w)' PROVE u = w
      <3>1. CASE u # t /\ w # t
        <4>1. Own(u) = Own(w)
          BY Zenon, <1>8, <2>5, <3>1
        <4> QED BY Zenon, <1>1, <4>1 DEF NodesApart
      <3>2. CASE u = t \/ w = t
        BY Zenon, <1>5, <1>8, <2>1, <2>5, <3>2
      <3> QED BY Zenon, <3>1, <3>2
    <2>6. ASSUME NEW u \in Threads, pc'[u] # "exited" PROVE Own(u)' \in mapped'
      BY Zenon, <1>1, <1>2, <1>5, <1>8, <2>2, <2>6 DEF NodesApart
    <2>7. ASSUME NEW n \in Nodes, IsTail(n)' PROVE n \in mapped'
      BY Zenon, <1>2, <1>4, <2>2, <2>7
    <2> QED BY Zenon, <2>3, <2>4, <2>5, <2>6, <2>7 DEF NodesApart, Nodes
  <1>11. TailRight'
    BY Zenon, <1>2, <1>4, <1>5 DEF TailRight, Nodes
  <1>12. QueueRight'
    <2>1. ASSUME NEW u \in Threads, Undone(u)' PROVE Follows(Behind(u))'
      <3>1. PICK n : n = Behind(u)'
        OBVIOUS
      <3>2. n \in Nodes /\ Queued(n)' /\ node[n].wait
        <4>1. CASE u = t
          BY Zenon, <1>5, <1>9, <3>1, <4>1
        <4>2. CASE u # t
          BY Zenon, <1>1, <1>8, <1>9, <2>1, <3>1, <4>2 DEF QueueRight, Follows
        <4> QED BY Zenon, <4>1, <4>2
      <3>3. Follows(n)'
        BY Zenon, <1>2, <3>2 DEF Follows, Nodes
      <3> QED BY Zenon, <3>1, <3>3 DEF Follows, Queued, IsTail, Nodes
    <2>2. ASSUME NEW u \in Threads, NEW w \in Threads, Undone(u)', Undone(w)', Behind(u)' = Behind(w)'
          PROVE  u = w
      <3>1. \A x \in Threads : x # t /\ Undone(x)' => Behind(x)' # b
        <4>1. ASSUME NEW x \in Threads, x # t, Undone(x)' PROVE Behind(x)' # b
          <5>1. Undone(x) /\ Behind(x)' = Behind(x)
            BY Zenon, <1>8, <4>1
          <5>2. Queued(Behind(x))
            BY Zenon, <1>1, <5>1 DEF QueueRight, Follows
          <5> QED BY Zenon, <1>9, <5>1, <5>2
        <4> QED BY Zenon, <4>1
      <3>2. CASE u # t /\ w # t
        <4>1. Undone(u) /\ Undone(w) /\ Behind(u) = Behind(w)
          BY Zenon, <1>8, <2>2, <3>2
        <4> QED BY Zenon, <1>1, <4>1 DEF QueueRight
      <3>3. CASE u = t \/ w = t
        BY ZenonT(60), <1>5, <2>2, <3>1, <3>3
      <3> QED BY Zenon, <3>2, <3>3
    <2> QED BY Zenon, <2>1, <2>2 DEF QueueRight
  <1>13. OneFirst'
    <2>1. ASSUME NEW n \in Nodes, NEW m \in Nodes, Queued(n)', Queued(m)'
          PROVE  n = m \/ node'[n].wait \/ node'[m].wait
      BY Zenon, <1>1, <1>2, <1>5, <1>9, <2>1 DEF OneFirst
    <2>2. ASSUME NEW c \in Threads, pc'[c] \in CombineAt PROVE pc[c] \in CombineAt /\ c # t
      BY Zenon, <1>3, <1>8, <2>2
    <2>3. ASSUME NEW c \in Threads, NEW n \in Nodes, pc'[c] \in CombineAt, Queued(n)'
          PROVE  n = cur_node'[c] \/ node'[n].wait
      BY Zenon, <1>1, <1>2, <1>5, <1>8, <1>9, <2>2, <2>3 DEF OneFirst
    <2>4. ASSUME NEW c \in Threads, NEW d \in Threads, pc'[c] \in CombineAt, pc'[d] \in CombineAt
          PROVE  c = d
      BY Zenon, <1>1, <2>2, <2>4 DEF OneFirst
    <2> QED BY Zenon, <2>1, <2>3, <2>4 DEF OneFirst, Nodes
  <1>14. Keeps
    <2>1. ASSUME NEW n \in Nodes, Queued(n), First(n) PROVE First(n)'
      <3>1. ASSUME NEW u \in Threads, Undone(u)' PROVE Behind(u)' # n
        BY Zenon, <1>5, <1>8, <1>9, <2>1, <3>1 DEF First
      <3> QED BY Zenon, <3>1 DEF First
    <2> QED BY Zenon, <1>2, <1>9, <2>1 DEF Keeps
  <1>15. ASSUME NEW u \in Threads PROVE ThreadRight(u)' /\ CombinerRight(u)'
    <2>1. CASE u = t
      <3>1. ThreadRight(t)'
        BY Zenon, <1>1, <1>2, <1>3, <1>4, <1>5 DEF ThreadRight
      <3>2. CombinerRight(t)'
        BY Zenon, <1>3 DEF CombinerRight
      <3> QED BY Zenon, <2>1, <3>1, <3>2
    <2>2. CASE u # t /\ pc[u] \in CombineAt
      <3>1. CombinerRight(u)
        BY Zenon DEF CombineInv
      <3> QED BY Zenon, <1>1, <1>3, <1>7, <1>8, <1>14, <2>2, <3>1, CombinerKeeps
    <2>3. CASE u # t /\ pc[u] \notin CombineAt
      <3>1. CombinerRight(u)'
        <4>1. pc'[u] \notin CombineAt
          BY Zenon, <1>8, <2>3
        <4> QED BY <4>1 DEF CombinerRight, CombineAt
      <3> QED BY Zenon, <1>8, <2>3, <3>1
    <2> QED BY Zenon, <2>1, <2>2, <2>3
  <1>16. SameCall(t)
    BY Zenon, <1>2, <1>3, <1>4, <1>5 DEF SameCall, St, Res, Executed
  <1>17. Combines
    BY Zenon, <1>1, <1>2, <1>7, <1>16, MineStutter
  <1> QED BY Zenon, <1>2, <1>10, <1>11, <1>12, <1>13, <1>15, <1>17 DEF CombineInv

\* A step of t that writes node x at most, and neither its request nor its link, and
\* leaves everything else of the other threads alone.
Writes(t, x) ==
  /\ TypeOK' /\ Alone(t) /\ Only(x) /\ x \in Nodes
  /\ node'[x].req = node[x].req /\ node'[x].next = node[x].next
  /\ InCall(t) /\ InCall(t)' /\ pc[t] \notin {"publish", "link"} /\ pc'[t] \notin {"publish", "link"}
  /\ UNCHANGED <<tail, mapped, my_node, cur_node, op>>

\* Such a step leaves nodes, links and places of all threads as they are.
LEMMA WritesOthers ==
  ASSUME TypeOK, NodesApart, NEW t \in Threads, NEW x, Writes(t, x),
         Queued(x) \/ \E u \in Threads : InCall(u) /\ cur_node[u] = x
  PROVE  /\ NodesApart' /\ (\A n : IsTail(n)' <=> IsTail(n))
         /\ \A u \in Threads :
              /\ InCall(u)' <=> InCall(u)
              /\ cur_node'[u] = cur_node[u]
              /\ InCall(u) => Behind(u)' = Behind(u) /\ node'[cur_node[u]].req = node[cur_node[u]].req
         /\ \A u \in Threads : u # t => pc'[u] = pc[u]
         /\ \A u \in Threads : pc[u] = "swap" => node'[my_node[u]] = node[my_node[u]]
  <1>1. ASSUME NEW u \in Threads
        PROVE  /\ InCall(u)' <=> InCall(u)
               /\ cur_node'[u] = cur_node[u]
               /\ InCall(u) => Behind(u)' = Behind(u) /\ node'[cur_node[u]].req = node[cur_node[u]].req
               /\ Own(u)' = Own(u)
               /\ u # t => pc'[u] = pc[u]
    <2>1. u # t => pc'[u] = pc[u]
      BY Zenon DEF Writes, Alone
    <2>2. InCall(u)' <=> InCall(u)
      <3>1. CASE u = t
        BY Zenon, <3>1 DEF Writes
      <3>2. CASE u # t
        BY Zenon, <2>1, <3>2 DEF InCall
      <3> QED BY Zenon, <3>1, <3>2
    <2>3. my_node'[u] = my_node[u] /\ cur_node'[u] = cur_node[u]
      BY Zenon DEF Writes
    <2>4. Own(u)' = Own(u)
      BY Zenon, <2>2, <2>3 DEF Own
    <2>5. ASSUME InCall(u) PROVE node'[cur_node[u]].req = node[cur_node[u]].req /\ node'[cur_node[u]].next = node[cur_node[u]].next
      <3>1. cur_node[u] \in Nodes
        BY Zenon, <2>5, OwnNode
      <3> QED BY Zenon, <3>1 DEF Writes, Only
    <2>6. InCall(u) => Behind(u)' = Behind(u)
      <3>1. CASE u = t
        BY Zenon, <2>3, <2>5, <3>1 DEF Writes, Behind
      <3>2. CASE u # t
        BY Zenon, <2>1, <2>3, <2>5, <3>2 DEF Behind
      <3> QED BY Zenon, <3>1, <3>2
    <2> QED BY Zenon, <2>1, <2>2, <2>3, <2>4, <2>5, <2>6
  <1>2. \A n : IsTail(n)' <=> IsTail(n)
    BY Zenon DEF Writes, IsTail
  <1>3. NodesApart'
    <2>1. ASSUME NEW u \in Threads PROVE Own(u)' \in Nodes /\ ~IsTail(Own(u))'
      BY ZenonT(60), <1>1 DEF NodesApart, Writes, IsTail
    <2>2. ASSUME NEW u \in Threads, pc'[u] # "exited" PROVE pc[u] # "exited"
      BY <1>1, <2>2 DEF Writes, InCall
    <2>3. mapped' = mapped
      BY Zenon DEF Writes
    <2>4. ASSUME NEW u \in Threads, NEW w \in Threads, Own(u)' = Own(w)' PROVE u = w
      BY Zenon, <1>1, <2>4 DEF NodesApart
    <2>5. ASSUME NEW n \in Nodes, IsTail(n)' PROVE n \in mapped'
      BY Zenon, <1>2, <2>3, <2>5 DEF NodesApart
    <2>6. ASSUME NEW u \in Threads, pc'[u] # "exited" PROVE Own(u)' \in mapped'
      BY Zenon, <1>1, <2>2, <2>3, <2>6 DEF NodesApart
    <2> QED BY Zenon, <2>1, <2>4, <2>5, <2>6 DEF NodesApart, Nodes
  <1>4. ASSUME NEW u \in Threads, pc[u] = "swap" PROVE node'[my_node[u]] = node[my_node[u]]
    <2>1. ~InCall(u)
      BY <1>4 DEF InCall
    <2>2. Own(u) = my_node[u] /\ Own(u) \in Nodes /\ ~IsTail(Own(u))
      BY Zenon, <2>1 DEF Own, NodesApart
    <2>3. ASSUME NEW w \in Threads, InCall(w) PROVE cur_node[w] # Own(u)
      BY Zenon, <2>1, <2>3 DEF Own, NodesApart
    <2>4. x # my_node[u]
      BY Zenon, <2>2, <2>3 DEF Queued, Undone
    <2> QED BY Zenon, <2>2, <2>4 DEF Writes, Only
  <1> QED BY Zenon, <1>1, <1>2, <1>3, <1>4

\* The store executes the request at the first node, which leaves the queue.
LEMMA StoreStep ==
  ASSUME Sizes, CombineInv, NEW t \in Threads, Store(t, op[t].var)
  PROVE  CombineInv' /\ Combines
  <1>1. TypeOK /\ NodesApart /\ TailRight /\ QueueRight /\ OneFirst /\ ThreadRight(t) /\ CombinerRight(t)
    BY Zenon DEF CombineInv
  <1>2. InCall(t) /\ pc[t] \in CombineAt \ {"release"} /\ pc[t] \in {"load", "store"} /\ pc[t] \in CombineAt
    BY DEF Store, InCall, CombineAt
  <1>3. AtFirst(t) /\ tmp_node[t] \in Nodes
    BY Zenon, <1>2, CombinerNode
  <1>4. PICK u \in Threads : Undone(u) /\ Executes(t, u)
    BY Zenon, <1>1, <1>2 DEF CombinerRight
  <1>5. PICK x : x = tmp_node[t]
    OBVIOUS
  <1>6. /\ TypeOK' /\ Only(x) /\ x \in Nodes /\ First(x)
        /\ node'[x].req = node[x].req /\ node'[x].ret = Apply(node[x].req, seen[t]).ret
        /\ node'[x].wait = node[x].wait /\ node'[x].completed /\ node'[x].next = node[x].next
        /\ mem' = [mem EXCEPT ![op[t].var] = Apply(node[x].req, seen[t]).val]
        /\ pc[t] = "store" /\ pc'[t] = "release"
        /\ UNCHANGED <<tail, mapped, my_node, cur_node, tmp_node, tmp_node_next, counter, seen, op, ret>>
    BY Zenon, <1>1, <1>3, <1>5, TypeStore DEF AtFirst
  <1>7. /\ InCall(t)' /\ pc'[t] \notin {"publish", "link"} /\ pc[t] \notin {"publish", "link"}
        /\ pc'[t] \in CombineAt /\ pc[t] \in {"wait", "return"} \cup CombineAt
        /\ pc'[t] \in {"return"} \cup CombineAt /\ pc'[t] \notin CombineAt \ {"release"}
        /\ pc'[t] \notin {"idle", "exited"} /\ pc[t] \notin {"idle", "exited"}
        /\ pc'[t] # "swap" /\ pc'[t] # "store" /\ pc'[t] # "combine" /\ pc'[t] # "return"
        /\ pc'[t] \notin {"load", "store"} /\ pc[t] # "publish" /\ pc[t] # "wait" /\ pc[t] # "return"
    BY <1>2, <1>6 DEF InCall, CombineAt
  <1>8. /\ InCall(u) /\ cur_node[u] = x /\ (u = t \/ pc[u] = "wait") /\ tmp_node_next[t] = node[x].next
        /\ pc[u] \notin {"publish", "link"} /\ pc[u] # "publish"
    <2>1. InCall(u) /\ cur_node[u] = x /\ (u = t \/ pc[u] = "wait") /\ tmp_node_next[t] = node[x].next
      BY Zenon, <1>4, <1>5 DEF Executes
    <2> QED BY <1>6, <2>1
  <1>9. Alone(t)
    BY Zenon, <1>1, AloneStep DEF Step
  <1>10. Writes(t, x)
    BY Zenon, <1>2, <1>6, <1>7, <1>9 DEF Writes
  <1>11. /\ NodesApart' /\ (\A n : IsTail(n)' <=> IsTail(n))
         /\ \A w \in Threads :
              /\ InCall(w)' <=> InCall(w)
              /\ cur_node'[w] = cur_node[w]
              /\ InCall(w) => Behind(w)' = Behind(w) /\ node'[cur_node[w]].req = node[cur_node[w]].req
         /\ \A w \in Threads : w # t => pc'[w] = pc[w]
         /\ \A w \in Threads : pc[w] = "swap" => node'[my_node[w]] = node[my_node[w]]
    BY Zenon, <1>1, <1>8, <1>10, WritesOthers
  <1>12. ASSUME NEW w \in Threads, w # u, InCall(w) PROVE node'[cur_node[w]] = node[cur_node[w]] /\ cur_node[w] # x
    BY Zenon, <1>1, <1>6, <1>8, <1>12, OwnNode DEF Only
  <1>13. ASSUME NEW w \in Threads PROVE Undone(w)' <=> Undone(w) /\ w # u
    <2>1. CASE w = u
      BY Zenon, <1>6, <1>8, <1>11, <2>1 DEF Undone
    <2>2. CASE w # u
      BY ZenonT(60), <1>11, <1>12, <2>2 DEF Undone
    <2> QED BY Zenon, <2>1, <2>2
  <1>14. ~IsTail(x) /\ \A n \in Nodes : node'[n].wait = node[n].wait /\ node'[n].next = node[n].next
    BY Zenon, <1>1, <1>6, <1>8, OwnNode DEF Only
  <1>15. \A n : Queued(n)' <=> Queued(n) /\ n # x
    <2>1. ASSUME NEW n, Queued(n)' PROVE Queued(n) /\ n # x
      <3>1. CASE IsTail(n)'
        BY Zenon, <1>11, <1>14, <3>1 DEF Queued
      <3>2. CASE ~IsTail(n)'
        <4>1. PICK w \in Threads : Undone(w)' /\ cur_node'[w] = n
          BY Zenon, <2>1, <3>2 DEF Queued
        <4>2. Undone(w) /\ w # u /\ cur_node[w] = n /\ InCall(w)
          BY Zenon, <1>11, <1>13, <4>1 DEF Undone
        <4> QED BY Zenon, <1>12, <4>2 DEF Queued
      <3> QED BY Zenon, <3>1, <3>2
    <2>2. ASSUME NEW n, Queued(n), n # x PROVE Queued(n)'
      <3>1. CASE IsTail(n)
        BY Zenon, <1>11, <3>1 DEF Queued
      <3>2. CASE ~IsTail(n)
        <4>1. PICK w \in Threads : Undone(w) /\ cur_node[w] = n
          BY Zenon, <2>2, <3>2 DEF Queued
        <4>2. w # u
          BY Zenon, <1>8, <2>2, <4>1
        <4> QED BY Zenon, <1>11, <1>13, <4>1, <4>2 DEF Queued
      <3> QED BY Zenon, <3>1, <3>2
    <2> QED BY Zenon, <2>1, <2>2
  <1>16. TailRight'
    <2>1. ASSUME NEW n \in Nodes, IsTail(n)' PROVE node'[n].next = None /\ ~node'[n].completed
      BY ZenonT(60), <1>1, <1>6, <1>11, <1>14, <2>1 DEF TailRight, Only
    <2> QED BY Zenon, <2>1 DEF TailRight, Nodes
  <1>17. ASSUME NEW w \in Threads, Undone(w), NEW n, n = Behind(w) PROVE Follows(n)' /\ n # x
    <2>1. Follows(n) /\ n # x
      BY Zenon, <1>1, <1>6, <1>17 DEF QueueRight, First
    <2> QED BY Zenon, <1>14, <1>15, <2>1 DEF Follows, Nodes
  <1>18. QueueRight'
    <2>1. ASSUME NEW w \in Threads, Undone(w)' PROVE Follows(Behind(w))' /\ Undone(w) /\ Behind(w)' = Behind(w)
      <3>1. Undone(w) /\ Behind(w)' = Behind(w)
        BY Zenon, <1>11, <1>13, <2>1 DEF Undone
      <3>2. PICK n : n = Behind(w) /\ n = Behind(w)'
        BY Zenon, <3>1
      <3>3. Follows(n)'
        BY Zenon, <1>17, <3>1, <3>2
      <3>4. Follows(Behind(w))'
        BY Zenon, <3>2, <3>3 DEF Follows, Queued, IsTail, Nodes
      <3> QED BY Zenon, <3>1, <3>4
    <2>2. ASSUME NEW w \in Threads, NEW v \in Threads, Undone(w)', Undone(v)', Behind(w)' = Behind(v)'
          PROVE  w = v
      BY Zenon, <1>1, <2>1, <2>2 DEF QueueRight
    <2> QED BY Zenon, <2>1, <2>2 DEF QueueRight
  <1>19. \A c \in Threads : pc'[c] \in CombineAt <=> c = t
    <2>1. ASSUME NEW c \in Threads, c # t PROVE pc'[c] \notin CombineAt
      BY Zenon, <1>1, <1>2, <1>11, <2>1 DEF OneFirst
    <2> QED BY Zenon, <1>7, <2>1
  <1>20. OneFirst'
    <2>1. ASSUME NEW n \in Nodes, NEW m \in Nodes, Queued(n)', Queued(m)'
          PROVE  n = m \/ node'[n].wait \/ node'[m].wait
      BY Zenon, <1>1, <1>14, <1>15, <2>1 DEF OneFirst
    <2>2. ASSUME NEW c \in Threads, NEW n \in Nodes, pc'[c] \in CombineAt, Queued(n)'
          PROVE  n = cur_node'[c] \/ node'[n].wait
      BY ZenonT(60), <1>1, <1>2, <1>11, <1>14, <1>15, <1>19, <2>2 DEF OneFirst
    <2> QED BY Zenon, <1>19, <2>1, <2>2 DEF OneFirst, Nodes
  <1>21. ASSUME NEW w \in Threads PROVE ThreadRight(w)'
    <2>1. ThreadRight(w)
      BY Zenon DEF CombineInv
    <2>2. /\ my_node'[w] = my_node[w] /\ counter'[w] = counter[w] /\ seen'[w] = seen[w] /\ op'[w] = op[w]
          /\ cur_node'[w] = cur_node[w]
      BY Zenon, <1>6
    <2>3. CASE w = t
      <3>1. Undone(t)' => Undone(t) /\ node'[cur_node[t]].req = node[cur_node[t]].req
        BY Zenon, <1>2, <1>11, <1>13
      <3> QED BY Zenon, <1>1, <1>7, <2>2, <2>3, <3>1 DEF ThreadRight
    <2>4. CASE w # t
      <3>1. pc'[w] = pc[w] /\ pc[w] \notin CombineAt
        BY Zenon, <1>11, <1>19, <2>4
      <3>2. pc[w] # "store"
        BY <3>1 DEF CombineAt
      <3>3. pc[w] = "swap" => node'[my_node[w]] = node[my_node[w]]
        BY Zenon, <1>11
      <3>4. pc[w] \in {"publish", "link"} => InCall(w) /\ w # u
        BY <1>8 DEF InCall
      <3>5. pc[w] \in {"publish", "link"} => node'[cur_node[w]] = node[cur_node[w]]
        BY Zenon, <1>12, <3>4
      <3>6. Undone(w)' => Undone(w) /\ node'[cur_node[w]].req = node[cur_node[w]].req
        BY Zenon, <1>11, <1>13 DEF Undone
      <3> QED BY Zenon, <2>1, <2>2, <3>1, <3>2, <3>3, <3>5, <3>6 DEF ThreadRight
    <2> QED BY Zenon, <2>3, <2>4
  <1>22. CombinerRight(t)'
    <2>1. ~Undone(t)' /\ (u # t => ~Undone(t) /\ Follows(x))
      <3>1. CASE u = t
        BY Zenon, <1>13, <3>1
      <3>2. CASE u # t
        <4>1. ~Undone(t) /\ Follows(x)
          BY Zenon, <1>2, <1>3, <1>5, <1>12, <3>2 DEF AtFirst
        <4> QED BY Zenon, <1>13, <3>2, <4>1
      <3> QED BY Zenon, <3>1, <3>2
    <2>2. PICK n : n = tmp_node_next[t] /\ n = tmp_node_next'[t]
      BY Zenon, <1>6
    <2>3. Behind(u) = n
      BY Zenon, <1>8, <2>2 DEF Behind
    <2>4. Follows(n)'
      BY Zenon, <1>4, <1>17, <2>3
    <2>5. ASSUME NEW w \in Threads, Undone(w)' PROVE Behind(w)' # n
      <3>1. Undone(w) /\ w # u /\ Behind(w)' = Behind(w)
        BY Zenon, <1>11, <1>13, <2>5 DEF Undone
      <3> QED BY Zenon, <1>1, <1>4, <2>3, <3>1 DEF QueueRight
    <2>6. First(tmp_node_next[t])'
      BY Zenon, <2>2, <2>5 DEF First
    <2>7. Follows(tmp_node_next[t])'
      BY Zenon, <2>2, <2>4 DEF Follows, Queued, IsTail, Nodes
    <2>8. ~Undone(u)' /\ Released(t, u)'
      <3>1. InCall(u)' /\ cur_node'[u] = tmp_node'[t] /\ ~Undone(u)'
        BY Zenon, <1>5, <1>6, <1>8, <1>11, <1>13
      <3>2. u # t => pc'[u] = "wait"
        BY Zenon, <1>8, <1>11
      <3>3. u # t => node'[cur_node'[u]].wait
        <4>1. u # t => node[x].wait
          BY Zenon, <2>1 DEF Follows
        <4> QED BY Zenon, <1>6, <1>8, <1>11, <4>1
      <3> QED BY Zenon, <3>1, <3>2, <3>3 DEF Released
    <2> QED BY Zenon, <1>7, <2>1, <2>6, <2>7, <2>8 DEF CombinerRight
  <1>23. ASSUME NEW w \in Threads PROVE CombinerRight(w)'
    <2>1. CASE w # t
      <3>1. pc'[w] \notin CombineAt
        BY Zenon, <1>19, <2>1
      <3> QED BY <3>1 DEF CombinerRight, CombineAt
    <2> QED BY Zenon, <1>22, <2>1
  <1>24. Combines
    <2>1. ASSUME NEW w \in Threads, w # u PROVE SameCall(w)
      <3>1. pc'[w] \in {"idle", "exited"} <=> pc[w] \in {"idle", "exited"}
        BY Zenon, <1>7, <1>11
      <3>2. Executed(w)' <=> Executed(w)
        BY ZenonT(60), <1>11, <1>12, <2>1 DEF Executed
      <3>3. Executed(w) => node'[cur_node'[w]].ret = node[cur_node[w]].ret
        BY Zenon, <1>11, <1>12, <2>1 DEF Executed
      <3> QED BY Zenon, <3>1, <3>2, <3>3 DEF SameCall, St, Res
    <2>2. ~Executed(u) /\ Executed(u)' /\ pc[u] \notin {"idle", "exited"} /\ pc'[u] \notin {"idle", "exited"}
      <3>1. ~Executed(u) /\ Executed(u)' /\ InCall(u)'
        BY Zenon, <1>4, <1>6, <1>8, <1>11 DEF Executed, Undone
      <3> QED BY Zenon, <1>8, <3>1 DEF InCall
    <2>3. /\ op[u] \in Ops /\ op[t] \in Ops /\ node[x].req = op[u].fn /\ seen[t] = mem[op[t].var]
      <3>1. ThreadRight(u)
        BY Zenon DEF CombineInv
      <3>2. op[u] \in Ops /\ node[x].req = op[u].fn
        BY Zenon, <1>4, <1>8, <2>2, <3>1 DEF ThreadRight
      <3>3. op[t] \in Ops /\ seen[t] = mem[op[t].var]
        BY Zenon, <1>1, <1>6, <1>7 DEF ThreadRight
      <3> QED BY Zenon, <3>2, <3>3
    <2>4. t = u \/ [w \in Threads |-> St(w)][t] = "done"
      <3>1. ASSUME u # t PROVE St(t) = "done"
        <4>1. ~Undone(t)
          BY Zenon, <1>2, <1>3, <1>5, <1>12, <3>1 DEF AtFirst
        <4>2. Executed(t)
          BY Zenon, <1>2, <4>1 DEF Executed, Undone
        <4> QED BY Zenon, <1>7, <4>2 DEF St
      <3> QED BY Zenon, <3>1
    <2>5. St(u) = "pending" /\ St(u)' = "done" /\ Res(u)' = Apply(op[u].fn, mem[op[t].var]).ret
      <3>1. Res(u)' = node'[x].ret
        BY Zenon, <1>8, <1>11, <2>2 DEF Res
      <3>2. Res(u)' = Apply(op[u].fn, mem[op[t].var]).ret
        BY Zenon, <1>6, <2>3, <3>1
      <3>3. St(u) = "pending" /\ St(u)' = "done"
        BY Zenon, <2>2 DEF St
      <3> QED BY Zenon, <3>2, <3>3
    <2>6. [w \in Threads |-> St(w)]' = [[w \in Threads |-> St(w)] EXCEPT ![u] = "done"]
      BY Zenon, <2>1, <2>5 DEF SameCall
    <2>7. [w \in Threads |-> Res(w)]' = [[w \in Threads |-> Res(w)] EXCEPT ![u] = Apply(op[u].fn, mem[op[t].var]).ret]
      BY Zenon, <2>1, <2>5 DEF SameCall
    <2>8. [w \in Threads |-> St(w)][u] = "pending"
      BY Zenon, <2>5
    <2>9. mem' = [mem EXCEPT ![op[t].var] = Apply(op[u].fn, mem[op[t].var]).val]
      BY Zenon, <1>6, <2>3
    <2>10. Abstract!ExecuteBy(u, t)
      BY Zenon, <1>6, <2>4, <2>6, <2>7, <2>8, <2>9 DEF Abstract!ExecuteBy, St, Res
    <2> QED BY Zenon, <2>10 DEF Combines, Abstract!CombiningNext
  <1> QED BY Zenon, <1>6, <1>11, <1>16, <1>18, <1>20, <1>21, <1>23, <1>24 DEF CombineInv

\* The write that lets the thread of node x go on: nothing else changes of the queue.
LetsGo(t, x) ==
  /\ Writes(t, x)
  /\ node'[x].completed = node[x].completed /\ node'[x].ret = node[x].ret /\ ~node'[x].wait
  /\ UNCHANGED <<counter, seen, ret, mem>>

\* While a thread combines, no other does, and no flag but its own is down.
LEMMA OneCombiner ==
  ASSUME OneFirst, NEW t \in Threads, pc[t] \in CombineAt
  PROVE  /\ \A c \in Threads : c # t => pc[c] \notin CombineAt
         /\ \A n \in Nodes : Queued(n) /\ n # cur_node[t] => node[n].wait
  BY Zenon DEF OneFirst

\* It keeps all of the invariant but what is said of flags and of the combiner.
LEMMA LetsGoKeeps ==
  ASSUME CombineInv, NEW t \in Threads, NEW x, LetsGo(t, x), pc[t] \in CombineAt,
         Queued(x) \/ \E u \in Threads : InCall(u) /\ cur_node[u] = x,
         pc'[t] \in {"return"} \cup CombineAt, pc'[t] = "return" => ~Undone(t), pc'[t] # "store"
  PROVE  /\ NodesApart' /\ TailRight' /\ Combines
         /\ \A n : Queued(n)' <=> Queued(n)
         /\ \A n : First(n)' <=> First(n)
         /\ \A u \in Threads :
              /\ InCall(u)' <=> InCall(u)
              /\ Undone(u)' <=> Undone(u)
              /\ InCall(u) => Behind(u)' = Behind(u)
              /\ cur_node'[u] = cur_node[u]
              /\ ThreadRight(u)'
         /\ \A c \in Threads : c # t => pc'[c] = pc[c] /\ pc'[c] \notin CombineAt /\ CombinerRight(c)'
  <1>1. TypeOK /\ NodesApart /\ TailRight /\ OneFirst
    BY Zenon DEF CombineInv
  <1>2. Writes(t, x) /\ x \in Nodes /\ Only(x)
    BY Zenon DEF LetsGo, Writes
  <1>3. /\ NodesApart' /\ (\A n : IsTail(n)' <=> IsTail(n))
        /\ \A w \in Threads :
              /\ InCall(w)' <=> InCall(w)
              /\ cur_node'[w] = cur_node[w]
              /\ InCall(w) => Behind(w)' = Behind(w) /\ node'[cur_node[w]].req = node[cur_node[w]].req
        /\ \A w \in Threads : w # t => pc'[w] = pc[w]
        /\ \A w \in Threads : pc[w] = "swap" => node'[my_node[w]] = node[my_node[w]]
    BY Zenon, <1>1, <1>2, WritesOthers
  <1>4. ASSUME NEW n \in Nodes
        PROVE  node'[n].completed = node[n].completed /\ node'[n].ret = node[n].ret /\ node'[n].next = node[n].next
    BY Zenon, <1>2 DEF LetsGo, Writes, Only
  <1>5. ASSUME NEW w \in Threads, InCall(w)
        PROVE  /\ node'[cur_node'[w]].completed = node[cur_node[w]].completed
               /\ node'[cur_node'[w]].ret = node[cur_node[w]].ret
               /\ node'[cur_node'[w]].next = node[cur_node[w]].next
    BY ZenonT(60), <1>1, <1>3, <1>4, <1>5, OwnNode
  <1>6. ASSUME NEW w \in Threads PROVE Undone(w)' <=> Undone(w)
    BY Zenon, <1>3, <1>5 DEF Undone
  <1>7. ASSUME NEW n PROVE Queued(n)' <=> Queued(n)
    BY Zenon, <1>3, <1>6 DEF Queued
  <1>8. ASSUME NEW n PROVE First(n)' <=> First(n)
    <2>1. \A w \in Threads : Undone(w) => Behind(w)' = Behind(w)
      BY Zenon, <1>3 DEF Undone
    <2> QED BY Zenon, <1>6, <2>1 DEF First
  <1>9. TailRight'
    BY Zenon, <1>1, <1>3, <1>4 DEF TailRight, Nodes
  <1>10. \A c \in Threads : c # t => pc'[c] = pc[c] /\ pc'[c] \notin CombineAt
    <2>1. ASSUME NEW c \in Threads, c # t PROVE pc[c] \notin CombineAt
      BY Zenon, <2>1, <1>1, OneCombiner
    <2> QED BY Zenon, <1>3, <2>1
  <1>11. ASSUME NEW c \in Threads, c # t PROVE CombinerRight(c)'
    <2>1. pc'[c] \notin CombineAt
      BY Zenon, <1>10, <1>11
    <2> QED BY <2>1 DEF CombinerRight, CombineAt
  <1>12. ASSUME NEW w \in Threads PROVE ThreadRight(w)'
    <2>1. ThreadRight(w)
      BY Zenon DEF CombineInv
    <2>2. /\ my_node'[w] = my_node[w] /\ counter'[w] = counter[w] /\ seen'[w] = seen[w] /\ op'[w] = op[w]
          /\ cur_node'[w] = cur_node[w] /\ mem' = mem
      BY Zenon DEF LetsGo, Writes
    <2>3. Undone(w) => node'[cur_node[w]].req = node[cur_node[w]].req
      BY Zenon, <1>3 DEF Undone
    <2>4. CASE w = t
      <3>1. /\ pc[t] \in {"wait", "return"} \cup CombineAt /\ pc[t] \notin {"idle", "exited"} /\ pc[t] # "publish"
            /\ pc'[t] # "swap" /\ pc'[t] \notin {"publish", "link"} /\ pc'[t] \notin {"idle", "exited"}
        BY DEF CombineAt
      <3> QED BY Zenon, <1>6, <2>1, <2>2, <2>3, <2>4, <3>1 DEF ThreadRight
    <2>5. CASE w # t
      <3>1. pc'[w] = pc[w]
        BY Zenon, <1>10, <2>5
      <3>2. pc[w] = "swap" => node'[my_node[w]] = node[my_node[w]]
        BY Zenon, <1>3
      <3>3. pc[w] \in {"publish", "link"} => InCall(w)
        BY DEF InCall
      <3>4. pc[w] \in {"publish", "link"} =>
              /\ node'[cur_node'[w]].completed = node[cur_node[w]].completed
              /\ node'[cur_node'[w]].next = node[cur_node[w]].next
        BY Zenon, <1>5, <3>3
      <3> QED BY Zenon, <1>6, <2>1, <2>2, <2>3, <3>1, <3>2, <3>4 DEF ThreadRight
    <2> QED BY Zenon, <2>4, <2>5
  <1>13. Combines
    <2>1. ASSUME NEW w \in Threads PROVE SameCall(w)
      <3>1. pc'[w] \in {"idle", "exited"} <=> pc[w] \in {"idle", "exited"}
        <4>1. pc'[t] \notin {"idle", "exited"} /\ pc[t] \notin {"idle", "exited"}
          BY DEF CombineAt
        <4> QED BY Zenon, <1>10, <4>1
      <3>2. Executed(w)' <=> Executed(w)
        BY Zenon, <1>3, <1>5 DEF Executed
      <3>3. Executed(w) => node'[cur_node'[w]].ret = node[cur_node[w]].ret
        BY Zenon, <1>5 DEF Executed
      <3> QED BY Zenon, <3>1, <3>2, <3>3 DEF SameCall, St, Res
    <2>2. UNCHANGED <<op, ret, mem>>
      BY Zenon DEF LetsGo, Writes
    <2> QED BY Zenon, <2>1, <2>2, Stutter
  <1> QED BY Zenon, <1>3, <1>6, <1>7, <1>8, <1>9, <1>10, <1>11, <1>12, <1>13

\* Release: the node that is let go has left the queue, so that no thread can combine.
LEMMA ReleaseStep ==
  ASSUME Sizes, CombineInv, NEW t \in Threads, Release(t)
  PROVE  CombineInv' /\ Combines
  <1>1. TypeOK /\ NodesApart /\ QueueRight /\ OneFirst /\ CombinerRight(t)
    BY Zenon DEF CombineInv
  <1>2. InCall(t) /\ pc[t] = "release" /\ pc[t] \in CombineAt /\ pc[t] \notin {"publish", "link"}
    BY DEF Release, InCall, CombineAt
  <1>3. PICK u \in Threads : ~Undone(u) /\ Released(t, u)
    BY Zenon, <1>1, <1>2 DEF CombinerRight
  <1>4. ~Undone(t) /\ Follows(tmp_node_next[t]) /\ First(tmp_node_next[t])
    BY Zenon, <1>1, <1>2 DEF CombinerRight
  <1>5. PICK x : x = tmp_node[t]
    OBVIOUS
  <1>6. InCall(u) /\ cur_node[u] = x /\ x \in Nodes /\ ~Queued(x)
    BY Zenon, <1>1, <1>3, <1>5, OwnNode DEF Released
  <1>7. /\ TypeOK' /\ Only(x)
        /\ node'[x].req = node[x].req /\ node'[x].ret = node[x].ret
        /\ ~node'[x].wait /\ node'[x].completed = node[x].completed /\ node'[x].next = node[x].next
        /\ tmp_node'[t] = tmp_node_next[t] /\ pc'[t] = "combine"
        /\ UNCHANGED <<tail, mapped, my_node, cur_node, tmp_node_next, counter, seen, op, ret, mem>>
    BY ZenonT(60), <1>1, <1>5, <1>6, TypeRelease
  <1>8. /\ InCall(t)' /\ pc'[t] \notin {"publish", "link"} /\ pc'[t] \in CombineAt
        /\ pc'[t] \in {"return"} \cup CombineAt /\ pc'[t] # "return" /\ pc'[t] # "store"
        /\ pc'[t] # "release" /\ pc'[t] \notin {"load", "store"}
    BY <1>7 DEF InCall, CombineAt
  <1>9. LetsGo(t, x)
    <2>1. Alone(t)
      BY Zenon, <1>1, AloneStep DEF Step
    <2> QED BY Zenon, <1>2, <1>6, <1>7, <1>8, <2>1 DEF LetsGo, Writes
  <1>10. /\ NodesApart' /\ TailRight' /\ Combines
         /\ \A n : Queued(n)' <=> Queued(n)
         /\ \A n : First(n)' <=> First(n)
         /\ \A w \in Threads :
              /\ InCall(w)' <=> InCall(w)
              /\ Undone(w)' <=> Undone(w)
              /\ InCall(w) => Behind(w)' = Behind(w)
              /\ cur_node'[w] = cur_node[w]
              /\ ThreadRight(w)'
         /\ \A c \in Threads : c # t => pc'[c] = pc[c] /\ pc'[c] \notin CombineAt /\ CombinerRight(c)'
    BY Zenon, <1>2, <1>6, <1>8, <1>9, LetsGoKeeps
  <1>11. \A n \in Nodes : Queued(n) => node'[n].wait = node[n].wait
    BY Zenon, <1>6, <1>7 DEF Only
  <1>12. ASSUME NEW n, Follows(n) PROVE Follows(n)'
    BY Zenon, <1>10, <1>11, <1>12 DEF Follows, Nodes
  <1>13. QueueRight'
    <2>1. ASSUME NEW w \in Threads, Undone(w)' PROVE Follows(Behind(w))' /\ Undone(w) /\ Behind(w)' = Behind(w)
      <3>1. Undone(w) /\ Behind(w)' = Behind(w)
        BY Zenon, <1>10, <2>1 DEF Undone
      <3>2. PICK n : n = Behind(w) /\ n = Behind(w)'
        BY Zenon, <3>1
      <3>3. Follows(n)'
        BY Zenon, <1>1, <1>12, <3>1, <3>2 DEF QueueRight
      <3>4. Follows(Behind(w))'
        BY Zenon, <3>2, <3>3 DEF Follows, Queued, IsTail, Nodes
      <3> QED BY Zenon, <3>1, <3>4
    <2>2. ASSUME NEW w \in Threads, NEW v \in Threads, Undone(w)', Undone(v)', Behind(w)' = Behind(v)'
          PROVE  w = v
      BY Zenon, <1>1, <2>1, <2>2 DEF QueueRight
    <2> QED BY Zenon, <2>1, <2>2 DEF QueueRight
  <1>14. OneFirst'
    <2>1. ASSUME NEW n \in Nodes, NEW m \in Nodes, Queued(n)', Queued(m)'
          PROVE  n = m \/ node'[n].wait \/ node'[m].wait
      BY Zenon, <1>1, <1>10, <1>11, <2>1 DEF OneFirst
    <2>2. ASSUME NEW c \in Threads, pc'[c] \in CombineAt PROVE c = t
      BY Zenon, <1>10, <2>2
    <2>3. ASSUME NEW n \in Nodes, Queued(n)' PROVE n = cur_node'[t] \/ node'[n].wait
      BY Zenon, <1>1, <1>2, <1>10, <1>11, <2>3 DEF OneFirst
    <2> QED BY Zenon, <2>1, <2>2, <2>3 DEF OneFirst, Nodes
  <1>15. CombinerRight(t)'
    <2>1. PICK n : n = tmp_node_next[t] /\ n = tmp_node'[t] /\ Follows(n) /\ First(n)
      BY Zenon, <1>4, <1>7
    <2>2. Follows(n)' /\ First(n)'
      BY Zenon, <1>10, <1>12, <2>1
    <2>3. First(tmp_node[t])'
      BY Zenon, <2>1, <2>2 DEF First
    <2>4. Follows(tmp_node[t])'
      BY Zenon, <2>1, <2>2 DEF Follows, Queued, IsTail, Nodes
    <2>5. AtFirst(t)'
      BY Zenon, <1>4, <1>10, <2>3, <2>4 DEF AtFirst
    <2> QED BY Zenon, <1>8, <2>5 DEF CombinerRight
  <1>16. \A c \in Threads : CombinerRight(c)'
    BY Zenon, <1>10, <1>15
  <1> QED BY Zenon, <1>7, <1>10, <1>13, <1>14, <1>16 DEF CombineInv

\* The first node that is not executed lets its thread in, and the combiner leaves.
LEMMA HandoffStep ==
  ASSUME Sizes, CombineInv, NEW t \in Threads, Handoff(t, "return")
  PROVE  CombineInv' /\ Combines
  <1>1. TypeOK /\ NodesApart /\ QueueRight /\ OneFirst /\ CombinerRight(t)
    BY Zenon DEF CombineInv
  <1>2. /\ InCall(t) /\ pc[t] = "handoff" /\ pc[t] \in CombineAt /\ pc[t] \notin {"publish", "link"}
        /\ pc[t] \in CombineAt \ {"release"}
    BY DEF Handoff, InCall, CombineAt
  <1>3. AtFirst(t) /\ tmp_node[t] \in Nodes /\ Queued(tmp_node[t])
    BY Zenon, <1>2, CombinerNode
  <1>4. PICK x : x = tmp_node[t]
    OBVIOUS
  <1>5. ~Undone(t) /\ First(x) /\ Queued(x) /\ x \in Nodes
    BY Zenon, <1>2, <1>3, <1>4 DEF AtFirst
  <1>6. ~Queued(cur_node[t])
    BY Zenon, <1>1, <1>2, <1>5, OwnNode
  <1>7. /\ TypeOK' /\ Only(x)
        /\ node'[x].req = node[x].req /\ node'[x].ret = node[x].ret
        /\ ~node'[x].wait /\ node'[x].completed = node[x].completed /\ node'[x].next = node[x].next
        /\ pc'[t] = "return"
        /\ UNCHANGED <<tail, mapped, my_node, cur_node, tmp_node, tmp_node_next, counter, seen, op, ret, mem>>
    BY Zenon, <1>1, <1>4, <1>5, TypeHandoff
  <1>8. /\ InCall(t)' /\ pc'[t] \notin {"publish", "link"} /\ pc'[t] \notin CombineAt
        /\ pc'[t] \in {"return"} \cup CombineAt /\ pc'[t] # "store"
    BY <1>7 DEF InCall, CombineAt
  <1>9. LetsGo(t, x)
    <2>1. Alone(t)
      BY Zenon, <1>1, AloneStep DEF Step
    <2> QED BY Zenon, <1>2, <1>5, <1>7, <1>8, <2>1 DEF LetsGo, Writes
  <1>10. /\ NodesApart' /\ TailRight' /\ Combines
         /\ \A n : Queued(n)' <=> Queued(n)
         /\ \A n : First(n)' <=> First(n)
         /\ \A w \in Threads :
              /\ InCall(w)' <=> InCall(w)
              /\ Undone(w)' <=> Undone(w)
              /\ InCall(w) => Behind(w)' = Behind(w)
              /\ cur_node'[w] = cur_node[w]
              /\ ThreadRight(w)'
         /\ \A c \in Threads : c # t => pc'[c] = pc[c] /\ pc'[c] \notin CombineAt /\ CombinerRight(c)'
    BY Zenon, <1>2, <1>5, <1>8, <1>9, LetsGoKeeps
  <1>11. \A n \in Nodes : n # x => node'[n].wait = node[n].wait
    BY Zenon, <1>7 DEF Only
  <1>12. ASSUME NEW n, Follows(n), n # x PROVE Follows(n)'
    BY Zenon, <1>10, <1>11, <1>12 DEF Follows, Nodes
  <1>13. QueueRight'
    <2>1. ASSUME NEW w \in Threads, Undone(w)' PROVE Follows(Behind(w))' /\ Undone(w) /\ Behind(w)' = Behind(w)
      <3>1. Undone(w) /\ Behind(w)' = Behind(w)
        BY Zenon, <1>10, <2>1 DEF Undone
      <3>2. PICK n : n = Behind(w) /\ n = Behind(w)'
        BY Zenon, <3>1
      <3>3. n # x
        BY Zenon, <1>5, <3>1, <3>2 DEF First
      <3>4. Follows(n)'
        BY Zenon, <1>1, <1>12, <3>1, <3>2, <3>3 DEF QueueRight
      <3>5. Follows(Behind(w))'
        BY Zenon, <3>2, <3>4 DEF Follows, Queued, IsTail, Nodes
      <3> QED BY Zenon, <3>1, <3>5
    <2>2. ASSUME NEW w \in Threads, NEW v \in Threads, Undone(w)', Undone(v)', Behind(w)' = Behind(v)'
          PROVE  w = v
      BY Zenon, <1>1, <2>1, <2>2 DEF QueueRight
    <2> QED BY Zenon, <2>1, <2>2 DEF QueueRight
  <1>14. OneFirst'
    <2>1. ASSUME NEW n \in Nodes, Queued(n)', n # x PROVE node'[n].wait
      <3>1. Queued(n) /\ n # cur_node[t]
        BY Zenon, <1>6, <1>10, <2>1
      <3> QED BY Zenon, <1>1, <1>2, <1>11, <2>1, <3>1, OneCombiner
    <2>2. \A c \in Threads : pc'[c] \notin CombineAt
      BY Zenon, <1>8, <1>10
    <2> QED BY Zenon, <2>1, <2>2 DEF OneFirst, Nodes
  <1>15. CombinerRight(t)'
    BY <1>8 DEF CombinerRight, CombineAt
  <1>16. \A c \in Threads : CombinerRight(c)'
    BY Zenon, <1>10, <1>15
  <1> QED BY Zenon, <1>7, <1>10, <1>13, <1>14, <1>16 DEF CombineInv

\* The first node is the tail, and lets the first thread in.
LEMMA InitInv == Sizes /\ Init => CombineInv
  <1> SUFFICES ASSUME Sizes, Init PROVE CombineInv
    OBVIOUS
  <1>1. TypeOK
    <2>1. /\ tail \in [Clusters -> Nodes] /\ my_node \in [Threads -> Nodes]
          /\ cur_node \in [Threads -> Nodes \cup {None}] /\ tmp_node \in [Threads -> Nodes \cup {None}]
          /\ tmp_node_next \in [Threads -> Nodes \cup {None}] /\ counter \in [Threads -> Nat]
      BY DEF Init, Nodes
    <2>2. pc \in [Threads -> Labels]
      BY DEF Init, Labels
    <2>3. /\ seen = [t \in Threads |-> seen[t]] /\ op = [t \in Threads |-> op[t]]
          /\ ret = [t \in Threads |-> ret[t]] /\ mem = [v \in Vars |-> mem[v]]
          /\ node = [n \in Nodes |-> node[n]]
      BY Zenon DEF Init
    <2>4. \A n \in Nodes : IsNode(node[n])
      BY DEF Init, IsNode
    <2> QED BY Zenon, <2>1, <2>2, <2>3, <2>4 DEF TypeOK, Labels
  <1>2. \A t \in Threads : pc[t] = "idle" /\ my_node[t] = t /\ counter[t] = 0
    BY Zenon DEF Init
  <1>3. \A t \in Threads : /\ ~InCall(t) /\ pc[t] \notin CombineAt /\ pc[t] # "swap" /\ pc[t] \notin {"publish", "link"}
                          /\ pc[t] \notin {"wait", "return"} \cup CombineAt /\ pc[t] \in {"idle", "exited"}
                          /\ pc[t] # "return" /\ pc[t] # "store" /\ pc[t] # "release"
    BY <1>2 DEF InCall, CombineAt
  <1>4. \A t \in Threads : ~Undone(t) /\ Own(t) = t
    BY Zenon, <1>2, <1>3 DEF Undone, Own
  <1>5. \A n : IsTail(n) => n \in Clusters
    BY Zenon DEF Init, IsTail
  <1>6. NodesApart
    <2>1. mapped = Nodes
      BY Zenon DEF Init
    <2>2. ASSUME NEW t \in Threads PROVE Own(t) \in Nodes /\ ~IsTail(Own(t)) /\ Own(t) \in mapped
      <3>1. t \in Nodes /\ t \notin Clusters
        BY Zenon DEF Nodes, Sizes
      <3> QED BY Zenon, <1>4, <1>5, <2>1, <3>1
    <2> QED BY Zenon, <1>4, <2>1, <2>2 DEF NodesApart
  <1>7. TailRight
    BY Zenon, <1>5 DEF TailRight, Init, Nodes
  <1>8. QueueRight
    BY Zenon, <1>4 DEF QueueRight
  <1>9. OneFirst
    <2>1. \A n : Queued(n) => IsTail(n)
      BY Zenon, <1>4 DEF Queued
    <2>2. \A n, m : IsTail(n) /\ IsTail(m) => n = m
      BY Zenon DEF IsTail, Sizes
    <2> QED BY Zenon, <1>3, <2>1, <2>2 DEF OneFirst
  <1>10. \A t \in Threads : ThreadRight(t)
    BY Zenon, <1>2, <1>3, <1>4 DEF ThreadRight
  <1>11. ASSUME NEW t \in Threads PROVE CombinerRight(t)
    <2>1. pc[t] \notin CombineAt
      BY Zenon, <1>3
    <2> QED BY <2>1 DEF CombinerRight, CombineAt
  <1> QED BY Zenon, <1>1, <1>6, <1>7, <1>8, <1>9, <1>10, <1>11 DEF CombineInv

\* Before the first call nothing is pending.
LEMMA InitServes == Init => Abstract!Init
  <1> SUFFICES ASSUME Init PROVE Abstract!Init
    OBVIOUS
  <1>1. \A t \in Threads : pc[t] \in {"idle", "exited"} /\ ~InCall(t)
    BY DEF Init, InCall
  <1>2. \A t \in Threads : St(t) = "idle" /\ Res(t) = None
    BY Zenon, <1>1 DEF St, Res, Executed
  <1>3. /\ [t \in Threads |-> St(t)] = [t \in Threads |-> "idle"]
        /\ [t \in Threads |-> Res(t)] = [t \in Threads |-> None]
    BY Zenon, <1>2
  <1> QED BY Zenon, <1>3 DEF Init, Abstract!Init, St, Res

\* A step that changes nothing keeps the invariant.
LEMMA SameInv ==
  ASSUME UNCHANGED vars
  PROVE  (CombineInv => CombineInv') /\ Combines
  <1>1. UNCHANGED <<tail, node, mapped, my_node, cur_node, tmp_node, tmp_node_next, counter, seen, pc, op, ret, mem>>
    BY Zenon DEF vars
  <1>2. TypeOK => TypeOK'
    BY Zenon, <1>1 DEF TypeOK, Nodes
  <1>3. \A t : (InCall(t)' <=> InCall(t)) /\ Own(t)' = Own(t) /\ (Undone(t)' <=> Undone(t)) /\ Behind(t)' = Behind(t)
    BY Zenon, <1>1 DEF InCall, Own, Undone, Behind
  <1>4. Quiet
    BY Zenon, <1>1, <1>3 DEF Quiet, IsTail
  <1>5. /\ \A n : Queued(n)' <=> Queued(n)
        /\ \A n : Follows(n)' <=> Follows(n)
        /\ \A n : First(n)' <=> First(n)
        /\ QueueRight => QueueRight'
    BY Zenon, <1>4, QuietQueue
  <1>6. NodesApart => NodesApart'
    BY Zenon, <1>1 DEF NodesApart, Own, InCall, IsTail, Nodes
  <1>7. TailRight => TailRight'
    BY Zenon, <1>1 DEF TailRight, IsTail, Nodes
  <1>8. OneFirst => OneFirst'
    BY Zenon, <1>1, <1>5 DEF OneFirst, Nodes
  <1>9. ASSUME NEW t PROVE ThreadRight(t) => ThreadRight(t)'
    BY Zenon, <1>1, <1>3 DEF ThreadRight
  <1>10. ASSUME NEW t PROVE CombinerRight(t) => CombinerRight(t)'
    <2>1. PICK n, m : n = tmp_node[t] /\ m = tmp_node_next[t]
      OBVIOUS
    <2>2. n = tmp_node'[t] /\ m = tmp_node_next'[t]
      BY Zenon, <1>1, <2>1
    <2>3. First(tmp_node[t])' <=> First(tmp_node[t])
      BY Zenon, <1>5, <2>1, <2>2 DEF First
    <2>4. Follows(tmp_node[t]) => Follows(tmp_node[t])'
      <3> SUFFICES ASSUME Follows(tmp_node[t]) PROVE Follows(tmp_node[t])'
        OBVIOUS
      <3>1. PICK k : k = tmp_node[t] /\ k = tmp_node'[t] /\ Follows(k)
        BY Zenon, <2>1, <2>2
      <3>2. Follows(k)'
        BY Zenon, <1>5, <3>1
      <3> QED BY Zenon, <3>1, <3>2 DEF Follows, Queued, IsTail, Nodes
    <2>5. First(tmp_node_next[t])' <=> First(tmp_node_next[t])
      BY Zenon, <1>5, <2>1, <2>2 DEF First
    <2>6. Follows(tmp_node_next[t]) => Follows(tmp_node_next[t])'
      <3> SUFFICES ASSUME Follows(tmp_node_next[t]) PROVE Follows(tmp_node_next[t])'
        OBVIOUS
      <3>1. PICK k : k = tmp_node_next[t] /\ k = tmp_node_next'[t] /\ Follows(k)
        BY Zenon, <2>1, <2>2
      <3>2. Follows(k)'
        BY Zenon, <1>5, <3>1
      <3> QED BY Zenon, <3>1, <3>2 DEF Follows, Queued, IsTail, Nodes
    <2>7. AtFirst(t) => AtFirst(t)'
      BY Zenon, <1>1, <1>3, <2>3, <2>4 DEF AtFirst
    <2>8. \A u : (Executes(t, u) => Executes(t, u)') /\ (Released(t, u) => Released(t, u)')
      BY Zenon, <1>1, <1>3 DEF Executes, Released
    <2> QED BY Zenon, <1>1, <1>3, <2>5, <2>6, <2>7, <2>8 DEF CombinerRight
  <1>11. Combines
    <2>1. \A t \in Threads : SameCall(t)
      BY Zenon, <1>1, <1>3 DEF SameCall, St, Res, Executed
    <2> QED BY Zenon, <1>1, <2>1, Stutter
  <1>12. CombineInv => CombineInv'
    BY Zenon, <1>2, <1>5, <1>6, <1>7, <1>8, <1>9, <1>10 DEF CombineInv
  <1> QED BY Zenon, <1>11, <1>12

\* Every step keeps the invariant, and is a step of the service or a stutter.
LEMMA NextStep ==
  ASSUME Sizes, CombineInv, Next
  PROVE  CombineInv' /\ Combines
  <1>1. ASSUME NEW t \in Threads, Step(t)
        PROVE  CombineInv' /\ Combines
    BY Zenon, <1>1, SwapStep, PublishStep, LinkStep, WaitStep, CombineStep, LoadStep, StoreStep, ReleaseStep,
       HandoffStep, ReturnStep DEF Step
  <1>2. ASSUME NEW t \in Threads, Exit(t)
        PROVE  CombineInv' /\ Combines
    BY Zenon, <1>2, ExitStep
  <1>3. ASSUME NEW t \in Threads, NEW o \in Ops, Call(t, o)
        PROVE  CombineInv' /\ Combines
    BY Zenon, <1>3, CallStep
  <1>4. CASE Terminated
    BY Zenon, <1>4, SameInv DEF Terminated
  <1> QED BY Zenon, <1>1, <1>2, <1>3, <1>4 DEF Next

\* CC-Synch implements CombiningService: each call of execute_operation takes
\* effect once, when a combiner stores the result of its request, although a
\* thread leaves with another node than it came with and the role of the combiner
\* goes round.  The argument is that of the call that combines, whatever the
\* others pass, and that call has executed its own request on it first.
THEOREM CombiningLinearizable ==
  ASSUME Sizes
  PROVE  Spec => []CombineInv /\ Linearizable
  <1>1. Init => CombineInv /\ Abstract!Init
    BY Zenon, InitInv, InitServes
  <1>2. CombineInv /\ [Next]_vars => CombineInv' /\ [Abstract!CombiningNext]_(Abstract!vars)
    <2>1. CombineInv /\ [Next]_vars => CombineInv' /\ Combines
      BY Zenon, NextStep, SameInv
    <2> QED BY Zenon, <2>1 DEF Combines
  <1> QED BY <1>1, <1>2, PTL DEF Spec, Linearizable, Abstract!CombiningSpec

\* When all calls pass one argument, as those of test_wait do, CC-Synch
\* implements DelegationService: the combiner's argument is everybody's.
COROLLARY OneArgument ==
  ASSUME Sizes, \A v, w \in Vars : v = w
  PROVE  Spec => Abstract!Spec
  <1>1. CombineInv /\ [Abstract!CombiningNext]_(Abstract!vars) => [Abstract!Next]_(Abstract!vars)
    <2> SUFFICES ASSUME CombineInv, Abstract!CombiningNext PROVE Abstract!Next
      OBVIOUS
    <2>1. ASSUME NEW c \in Threads, NEW d \in Threads, Abstract!ExecuteBy(c, d) PROVE Abstract!Execute(c)
      <3>1. pc[c] \notin {"idle", "exited"} /\ pc[d] \notin {"idle", "exited"}
        BY <2>1 DEF Abstract!ExecuteBy
      <3>2. op[c] \in Ops /\ op[d] \in Ops
        BY Zenon, <3>1 DEF CombineInv, ThreadRight
      <3>3. op[c].var \in Vars /\ op[d].var \in Vars
        BY <3>2 DEF Ops
      <3>4. op[d].var = op[c].var
        BY Zenon, <3>3
      <3> QED BY Zenon, <2>1, <3>4 DEF Abstract!ExecuteBy, Abstract!Execute
    <2> QED BY Zenon, <2>1 DEF Abstract!CombiningNext, Abstract!Next
  <1> QED BY <1>1, CombiningLinearizable, PTL DEF Linearizable, Abstract!Spec, Abstract!CombiningSpec

\* A request is not executed before the one in front of it in the queue, whoever
\* combines, and wherever one combiner stops and the next goes on.
THEOREM CombiningOrder == ASSUME Sizes PROVE Spec => []ServedInOrder
  <1>1. ASSUME CombineInv PROVE ServedInOrder
    <2>1. ASSUME NEW t \in Threads, NEW u \in Threads,
                 pc[t] \in {"wait", "combine", "load", "store", "release", "handoff"}, InCall(u),
                 node[cur_node[t]].next = cur_node[u],
                 node[cur_node[u]].completed, ~node[cur_node[t]].completed
          PROVE  FALSE
      <3>1. InCall(t) /\ pc[t] \notin {"publish", "link"}
        BY <2>1 DEF InCall
      <3>2. Undone(t) /\ Behind(t) = cur_node[u]
        BY Zenon, <2>1, <3>1 DEF Undone, Behind
      <3>3. Queued(cur_node[u])
        BY Zenon, <1>1, <3>2 DEF CombineInv, QueueRight, Follows
      <3>4. Undone(u)
        BY Zenon, <1>1, <2>1, <3>3, OwnNode DEF CombineInv
      <3> QED BY Zenon, <2>1, <3>4 DEF Undone
    <2> QED BY Zenon, <2>1 DEF ServedInOrder
  <1> QED BY <1>1, CombiningLinearizable, PTL

\* No thread reads or writes a node that on_thread_exit has unmapped: a thread that
\* exits unmaps the node it has last, which nobody else can reach.
THEOREM CombiningNodes == ASSUME Sizes PROVE Spec => []NoUnmappedAccess
  <1>1. ASSUME Sizes, CombineInv PROVE NoUnmappedAccess
    <2>1. ASSUME NEW t \in Threads PROVE Touches(t) \subseteq mapped
      <3>1. NodesApart /\ CombinerRight(t)
        BY Zenon, <1>1 DEF CombineInv
      <3>2. ASSUME NEW u \in Threads, InCall(u) PROVE cur_node[u] \in mapped
        <4>1. pc[u] # "exited"
          BY <3>2 DEF InCall
        <4> QED BY Zenon, <3>1, <3>2, <4>1 DEF NodesApart, Own
      <3>3. CASE pc[t] = "idle"
        <4>1. ~InCall(t) /\ pc[t] # "exited" /\ Touches(t) = {my_node[t]}
          BY <3>3 DEF InCall, Touches
        <4> QED BY Zenon, <3>1, <4>1 DEF NodesApart, Own
      <3>4. CASE pc[t] \in {"publish", "link", "wait", "return"}
        <4>1. InCall(t) /\ Touches(t) = {cur_node[t]}
          BY <3>4 DEF InCall, Touches
        <4> QED BY Zenon, <3>2, <4>1
      <3>5. CASE pc[t] \in CombineAt
        <4>1. Touches(t) = {tmp_node[t]}
          BY <3>5 DEF Touches, CombineAt
        <4>2. CASE pc[t] = "release"
          <5>1. PICK u \in Threads : Released(t, u)
            BY Zenon, <3>1, <4>2 DEF CombinerRight
          <5> QED BY Zenon, <3>2, <4>1, <5>1 DEF Released
        <4>3. CASE pc[t] # "release"
          <5>1. pc[t] \in CombineAt \ {"release"}
            BY <3>5, <4>3
          <5>2. tmp_node[t] \in Nodes /\ Queued(tmp_node[t])
            BY Zenon, <1>1, <5>1, CombinerNode
          <5> QED BY Zenon, <3>1, <3>2, <4>1, <5>2 DEF Queued, Undone, NodesApart
        <4> QED BY Zenon, <4>2, <4>3
      <3>6. CASE pc[t] \notin {"idle", "publish", "link", "wait", "return"} \cup CombineAt
        <4>1. Touches(t) = {}
          BY <3>6 DEF Touches, CombineAt
        <4> QED BY Zenon, <4>1
      <3> QED BY Zenon, <3>3, <3>4, <3>5, <3>6
    <2> QED BY Zenon, <2>1 DEF NoUnmappedAccess
  <1> QED BY <1>1, CombiningLinearizable, PTL

====
