------------------------ MODULE ListCombiningProofs -------------------------
(***************************************************************************)
(* The two combiners whose threads announce their calls in a linked list   *)
(* implement the delegation service, for any set of threads: Oyama's lock  *)
(* and, at the end of the module, flat combining.                          *)
(*                                                                         *)
(* What is needed of a list is which nodes are in it: those that are in    *)
(* every set with its first node that no pointer leads out of.  So nothing *)
(* is said of lengths or positions.                                        *)
(***************************************************************************)
EXTENDS Oyama, TLAPS

\* A way along the pointers: it may be empty, it can be put together, it begins with
\* the pointer of its first node, and there is none from null.
LEMMA ReachOn ==
  ASSUME Sizes, TypeOK
  PROVE  /\ \A a \in Pointer : Reach(a, a)
         /\ \A a, b, c \in Pointer : Reach(a, b) /\ Reach(b, c) => Reach(a, c)
         /\ \A r \in Threads, b \in Pointer : Reach(pool[r].next, b) => Reach(r, b)
         /\ \A r, t \in Threads : Reach(r, t) /\ r # t => Reach(pool[r].next, t)
         /\ \A t \in Threads : ~Reach(None, t)
  <1>1. \A a \in Pointer : Reach(a, a)
    BY Zenon DEF Reach
  <1>2. \A a, b, c \in Pointer : Reach(a, b) /\ Reach(b, c) => Reach(a, c)
    BY Zenon DEF Reach
  <1>3. \A r \in Threads, b \in Pointer : Reach(pool[r].next, b) => Reach(r, b)
    BY Zenon DEF Reach, Closed
  <1>4. ASSUME NEW r \in Threads, NEW t \in Threads, Reach(r, t), r # t,
               NEW S \in SUBSET Pointer, pool[r].next \in S, Closed(S)
        PROVE  t \in S
    <2>1. S \cup {r} \in SUBSET Pointer /\ r \in S \cup {r}
      BY Zenon DEF Pointer
    <2>2. Closed(S \cup {r})
      BY Zenon, <1>4 DEF Closed
    <2>3. t \in S \cup {r}
      BY Zenon, <1>4, <2>1, <2>2 DEF Reach
    <2> QED BY Zenon, <1>4, <2>3
  <1>5. \A r, t \in Threads : Reach(r, t) /\ r # t => Reach(pool[r].next, t)
    BY Zenon, <1>4 DEF Reach
  <1>6. ASSUME NEW t \in Threads, Reach(None, t) PROVE FALSE
    <2>1. {None} \in SUBSET Pointer /\ Closed({None})
      BY Zenon DEF Pointer, Closed, Sizes
    <2>2. t \in {None}
      BY Zenon, <1>6, <2>1 DEF Reach
    <2> QED BY Zenon, <2>2 DEF Sizes
  <1> QED BY Zenon, <1>1, <1>2, <1>3, <1>5, <1>6

\* Where no pointer changes the ways are the same.
LEMMA SameWays ==
  ASSUME \A r \in Threads : pool'[r].next = pool[r].next
  PROVE  \A a \in Pointer, b \in Pointer : Reach(a, b)' <=> Reach(a, b)
  <1>1. \A S \in SUBSET Pointer : Closed(S)' <=> Closed(S)
    BY Zenon DEF Closed
  <1> QED BY Zenon, <1>1 DEF Reach, Pointer

\* The ways from a are the same when the only pointer that changes is not on one.
LEMMA OtherWays ==
  ASSUME Sizes, TypeOK, NEW t \in Threads, \A r \in Threads : r # t => pool'[r].next = pool[r].next,
         NEW a \in Pointer, ~Reach(a, t)
  PROVE  \A b \in Pointer : Reach(a, b)' <=> Reach(a, b)
  <1>1. PICK L \in SUBSET Pointer : L = {x \in Pointer : Reach(a, x)}
    BY Zenon
  <1>2. a \in L /\ t \notin L
    BY Zenon, <1>1, ReachOn DEF Pointer
  <1>3. \A r \in Threads : r \in L => pool[r].next \in L /\ pool'[r].next = pool[r].next
    <2>1. ASSUME NEW r \in Threads, r \in L PROVE pool[r].next \in L
      <3>1. Reach(a, r) /\ pool[r].next \in Pointer
        BY Zenon, <1>1, <2>1 DEF TypeOK, IsNode
      <3>2. Reach(a, pool[r].next)
        BY Zenon, <3>1 DEF Reach, Closed
      <3> QED BY Zenon, <1>1, <3>1, <3>2
    <2> QED BY Zenon, <1>2, <2>1
  <1>4. Closed(L)'
    BY Zenon, <1>3 DEF Closed
  <1>5. ASSUME NEW b \in Pointer, Reach(a, b)' PROVE Reach(a, b)
    <2>1. b \in L
      BY Zenon, <1>2, <1>4, <1>5 DEF Reach, Pointer
    <2> QED BY Zenon, <1>1, <2>1
  <1>6. ASSUME NEW b \in Pointer, Reach(a, b), NEW S \in SUBSET Pointer, a \in S, Closed(S)'
        PROVE  b \in S
    <2>1. \A r \in Threads : r \in S => pool'[r].next \in S
      BY Zenon, <1>6 DEF Closed
    <2>2. Closed(S \cap L)
      BY Zenon, <1>3, <2>1 DEF Closed
    <2>3. S \cap L \in SUBSET Pointer /\ a \in S \cap L
      BY Zenon, <1>2, <1>6
    <2> QED BY Zenon, <1>6, <2>2, <2>3 DEF Reach
  <1>7. \A b \in Pointer : Reach(a, b) => Reach(a, b)'
    BY Zenon, <1>6 DEF Reach, Pointer
  <1> QED BY Zenon, <1>5, <1>7

\* What the types are needed for.
LEMMA Types ==
  ASSUME Sizes, TypeOK
  PROVE  /\ tail \in Pointer /\ None \in Pointer /\ lock \in BOOLEAN
         /\ \A t \in Threads : t \in Pointer /\ t # None
         /\ \A t \in Threads : pool[t].next \in Pointer /\ pool[t].completed \in BOOLEAN
         /\ \A t \in Threads : /\ th[t].pc \in Labels /\ th[t].p \in Pointer
                               /\ th[t].tmp_next \in Pointer /\ th[t].counter \in Nat
         /\ \A t \in Threads : First(t) \in Pointer
  <1>1. \A t \in Threads : pool[t].next \in Pointer /\ pool[t].completed \in BOOLEAN
    BY Zenon DEF TypeOK, IsNode
  <1>2. \A t \in Threads : /\ th[t].pc \in Labels /\ th[t].p \in Pointer
                           /\ th[t].tmp_next \in Pointer /\ th[t].counter \in Nat
    BY Zenon DEF TypeOK, IsLocals
  <1>3. \A t \in Threads : First(t) \in Pointer
    BY Zenon, <1>2 DEF First, Pointer
  <1> QED BY Zenon, <1>1, <1>2, <1>3 DEF Sizes, TypeOK, Pointer

\* A step of t; a step that writes to the node of t at most.
OnlyThread(t) == \A u \in Threads : u # t => th'[u] = th[u] /\ op'[u] = op[u]
OnlyNode(t) == \A u \in Threads : u # t => pool'[u] = pool[u]

Nodes == pool = [t \in Threads |-> pool[t]] /\ \A t \in Threads : IsNode(pool[t])
Locals == th = [t \in Threads |-> th[t]] /\ \A t \in Threads : IsLocals(th[t])

\* The types, from their parts.
LEMMA TypesKept ==
  ASSUME TypeOK, lock' \in BOOLEAN, tail' \in Pointer, Nodes', Locals',
         op' = op \/ \E t \in Threads, x \in Ops \cup {None} : op' = [op EXCEPT ![t] = x],
         ret' = ret \/ \E t \in Threads : ret' = [ret EXCEPT ![t] = pool[t].arg_ret],
         mem' = mem \/ \E v, y : mem' = [mem EXCEPT ![v] = y]
  PROVE  TypeOK'
  <1>1. op' = [t \in Threads |-> op'[t]]
    BY Zenon DEF TypeOK
  <1>2. ret' = [t \in Threads |-> ret'[t]]
    BY Zenon DEF TypeOK
  <1>3. mem' = [v \in Vars |-> mem'[v]]
    BY Zenon DEF TypeOK
  <1> QED BY Zenon, <1>1, <1>2, <1>3 DEF TypeOK, Nodes, Locals, Pointer

LEMMA LocalsWritten ==
  ASSUME Locals, NEW t \in Threads, NEW l, IsLocals(l), th' = [th EXCEPT ![t] = l]
  PROVE  Locals' /\ th'[t] = l /\ \A u \in Threads : u # t => th'[u] = th[u]
  <1>1. /\ th' = [u \in Threads |-> th'[u]] /\ th'[t] = l
        /\ \A u \in Threads : u # t => th'[u] = th[u]
    BY Zenon DEF Locals
  <1>2. \A u \in Threads : IsLocals(th'[u])
    BY Zenon, <1>1 DEF Locals
  <1> QED BY Zenon, <1>1, <1>2 DEF Locals, IsLocals, Labels, Pointer

LEMMA NodeWritten ==
  ASSUME Nodes, NEW t \in Threads, NEW n, IsNode(n), pool' = [pool EXCEPT ![t] = n]
  PROVE  Nodes' /\ pool'[t] = n /\ OnlyNode(t)
  <1>1. pool' = [u \in Threads |-> pool'[u]] /\ pool'[t] = n /\ OnlyNode(t)
    BY Zenon DEF Nodes, OnlyNode
  <1>2. \A u \in Threads : IsNode(pool'[u])
    BY Zenon, <1>1 DEF Nodes, OnlyNode
  <1> QED BY Zenon, <1>1, <1>2 DEF Nodes, IsNode, Pointer

\* t goes to another place.
LEMMA Goes ==
  ASSUME Locals, NEW t \in Threads, NEW x \in Labels, th' = [th EXCEPT ![t].pc = x]
  PROVE  /\ Locals' /\ (\A u \in Threads : u # t => th'[u] = th[u]) /\ th'[t].pc = x
         /\ th'[t].p = th[t].p /\ th'[t].tmp_next = th[t].tmp_next /\ th'[t].seen = th[t].seen
         /\ th'[t].counter = th[t].counter
  <1>1. PICK l : l = [th[t] EXCEPT !.pc = x]
    BY Zenon
  <1>2. IsLocals(th[t])
    BY Zenon DEF Locals
  <1>3. /\ DOMAIN l = DOMAIN th[t] /\ l.pc = x /\ l.p = th[t].p /\ l.tmp_next = th[t].tmp_next
        /\ l.seen = th[t].seen /\ l.counter = th[t].counter
    BY Zenon, <1>1, <1>2 DEF IsLocals
  <1>4. IsLocals(l)
    BY Zenon, <1>2, <1>3 DEF IsLocals
  <1>5. th' = [th EXCEPT ![t] = l]
    BY Zenon, <1>1
  <1> QED BY ZenonT(60), <1>3, <1>4, <1>5, LocalsWritten

\* t takes the stack.
LEMMA GoesTaking ==
  ASSUME Locals, NEW t \in Threads, NEW x \in Labels, NEW a \in Pointer,
         th' = [th EXCEPT ![t].p = a, ![t].pc = x]
  PROVE  /\ Locals' /\ (\A u \in Threads : u # t => th'[u] = th[u]) /\ th'[t].pc = x
         /\ th'[t].p = a /\ th'[t].tmp_next = th[t].tmp_next /\ th'[t].counter = th[t].counter
  <1>1. PICK l : l = [[th[t] EXCEPT !.p = a] EXCEPT !.pc = x]
    BY Zenon
  <1>2. IsLocals(th[t])
    BY Zenon DEF Locals
  <1>3. /\ DOMAIN l = DOMAIN th[t] /\ l.pc = x /\ l.p = a /\ l.tmp_next = th[t].tmp_next
        /\ l.counter = th[t].counter
    BY Zenon, <1>1, <1>2 DEF IsLocals
  <1>4. IsLocals(l)
    BY Zenon, <1>2, <1>3 DEF IsLocals
  <1>5. th' = [th EXCEPT ![t] = l]
    BY Zenon, <1>1
  <1> QED BY Zenon, <1>3, <1>4, <1>5, LocalsWritten

\* The step that loads the variable a node asks for: n are now executed, a is next.
Loads(t, a, v, n) ==
  th' = [th EXCEPT ![t].counter = n, ![t].tmp_next = a, ![t].seen = v, ![t].pc = "store"]

\* t reads the node and the variable.
LEMMA GoesLoading ==
  ASSUME Locals, NEW t \in Threads, NEW a \in Pointer, NEW v, NEW n \in Nat,
         Loads(t, a, v, n)
  PROVE  /\ Locals' /\ (\A u \in Threads : u # t => th'[u] = th[u]) /\ th'[t].pc = "store"
         /\ th'[t].p = th[t].p /\ th'[t].tmp_next = a /\ th'[t].seen = v /\ th'[t].counter = n
  <1>1. PICK l : l = [[[[th[t] EXCEPT !.counter = n] EXCEPT !.tmp_next = a] EXCEPT !.seen = v] EXCEPT !.pc = "store"]
    BY Zenon
  <1>2. IsLocals(th[t])
    BY Zenon DEF Locals
  <1>3. /\ DOMAIN l = DOMAIN th[t] /\ l.pc = "store" /\ l.p = th[t].p /\ l.tmp_next = a
        /\ l.seen = v /\ l.counter = n
    BY Zenon, <1>1, <1>2 DEF IsLocals
  <1>4. IsLocals(l)
    BY Zenon, <1>2, <1>3 DEF IsLocals, Labels
  <1>5. th' = [th EXCEPT ![t] = l]
    BY Zenon, <1>1 DEF Loads
  <1> QED BY Zenon, <1>3, <1>4, <1>5, LocalsWritten

\* t has executed the node.
LEMMA GoesStoring ==
  ASSUME Locals, NEW t \in Threads, NEW v, th' = [th EXCEPT ![t].pc = "complete", ![t].seen = v]
  PROVE  /\ Locals' /\ (\A u \in Threads : u # t => th'[u] = th[u]) /\ th'[t].pc = "complete"
         /\ th'[t].p = th[t].p /\ th'[t].tmp_next = th[t].tmp_next /\ th'[t].counter = th[t].counter
  <1>1. PICK l : l = [[th[t] EXCEPT !.pc = "complete"] EXCEPT !.seen = v]
    BY Zenon
  <1>2. IsLocals(th[t])
    BY Zenon DEF Locals
  <1>3. /\ DOMAIN l = DOMAIN th[t] /\ l.pc = "complete" /\ l.p = th[t].p
        /\ l.tmp_next = th[t].tmp_next /\ l.counter = th[t].counter
    BY Zenon, <1>1, <1>2 DEF IsLocals
  <1>4. IsLocals(l)
    BY Zenon, <1>2, <1>3 DEF IsLocals, Labels
  <1>5. th' = [th EXCEPT ![t] = l]
    BY Zenon, <1>1
  <1> QED BY ZenonT(60), <1>3, <1>4, <1>5, LocalsWritten

\* t goes on to the next node.
LEMMA GoesOn ==
  ASSUME Sizes, Locals, NEW t \in Threads, NEW a \in Pointer, NEW x \in Labels,
         th' = [th EXCEPT ![t].p = a, ![t].tmp_next = None, ![t].pc = x]
  PROVE  /\ Locals' /\ (\A u \in Threads : u # t => th'[u] = th[u]) /\ th'[t].pc = x
         /\ th'[t].p = a /\ th'[t].counter = th[t].counter
  <1>1. PICK l : l = [[[th[t] EXCEPT !.p = a] EXCEPT !.tmp_next = None] EXCEPT !.pc = x]
    BY Zenon
  <1>2. IsLocals(th[t])
    BY Zenon DEF Locals
  <1>3. /\ DOMAIN l = DOMAIN th[t] /\ l.pc = x /\ l.p = a /\ l.tmp_next = None
        /\ l.counter = th[t].counter
    BY Zenon, <1>1, <1>2 DEF IsLocals
  <1>4. IsLocals(l)
    BY Zenon, <1>2, <1>3 DEF IsLocals, Pointer
  <1>5. th' = [th EXCEPT ![t] = l]
    BY Zenon, <1>1
  <1> QED BY Zenon, <1>3, <1>4, <1>5, LocalsWritten

\* t's locals are as in the beginning.
LEMMA GoesFresh ==
  ASSUME Locals, NEW t \in Threads, NEW x \in {"idle", "return"},
         th' = [th EXCEPT ![t] = [Fresh EXCEPT !.pc = x]]
  PROVE  /\ Locals' /\ (\A u \in Threads : u # t => th'[u] = th[u]) /\ th'[t].pc = x
         /\ th'[t].counter = 0
  <1>1. PICK l : l = [Fresh EXCEPT !.pc = x]
    BY Zenon
  <1>2. /\ DOMAIN l = {"pc", "p", "tmp_next", "seen", "counter"} /\ l.pc = x /\ l.p = None
        /\ l.tmp_next = None /\ l.counter = 0
    BY SMT, <1>1 DEF Fresh
  <1>3. 0 \in Nat
    BY SMT
  <1>4. IsLocals(l)
    BY Zenon, <1>2, <1>3 DEF IsLocals, Pointer, Labels
  <1> QED BY Zenon, <1>1, <1>2, <1>4, LocalsWritten

LEMMA CallWritten ==
  ASSUME Nodes, NEW t \in Threads, NEW a \in Pointer, NEW v,
         pool' = [pool EXCEPT ![t] = [next |-> a, arg_ret |-> v, completed |-> FALSE]]
  PROVE  /\ Nodes' /\ OnlyNode(t)
         /\ pool'[t].next = a /\ pool'[t].arg_ret = v /\ ~pool'[t].completed
  <1>1. PICK n : n = [next |-> a, arg_ret |-> v, completed |-> FALSE]
    BY Zenon
  <1>2. DOMAIN n = {"next", "arg_ret", "completed"} /\ n.next = a /\ n.arg_ret = v /\ n.completed = FALSE
    BY SMT, <1>1
  <1>3. IsNode(n)
    BY Zenon, <1>2 DEF IsNode
  <1> QED BY Zenon, <1>1, <1>2, <1>3, NodeWritten

LEMMA NextWritten ==
  ASSUME Nodes, NEW t \in Threads, NEW a \in Pointer, pool' = [pool EXCEPT ![t].next = a]
  PROVE  /\ Nodes' /\ OnlyNode(t) /\ pool'[t].next = a
         /\ pool'[t].arg_ret = pool[t].arg_ret /\ pool'[t].completed = pool[t].completed
  <1>1. PICK n : n = [pool[t] EXCEPT !.next = a]
    BY Zenon
  <1>2. IsNode(pool[t])
    BY Zenon DEF Nodes
  <1>3. /\ DOMAIN n = DOMAIN pool[t] /\ n.next = a /\ n.arg_ret = pool[t].arg_ret
        /\ n.completed = pool[t].completed
    BY Zenon, <1>1, <1>2 DEF IsNode
  <1>4. IsNode(n)
    BY Zenon, <1>2, <1>3 DEF IsNode
  <1> QED BY Zenon, <1>1, <1>3, <1>4, NodeWritten

LEMMA ResultWritten ==
  ASSUME Nodes, NEW t \in Threads, NEW v, pool' = [pool EXCEPT ![t].arg_ret = v]
  PROVE  /\ Nodes' /\ OnlyNode(t) /\ pool'[t].next = pool[t].next
         /\ pool'[t].arg_ret = v /\ pool'[t].completed = pool[t].completed
  <1>1. PICK n : n = [pool[t] EXCEPT !.arg_ret = v]
    BY Zenon
  <1>2. IsNode(pool[t])
    BY Zenon DEF Nodes
  <1>3. /\ DOMAIN n = DOMAIN pool[t] /\ n.next = pool[t].next /\ n.arg_ret = v
        /\ n.completed = pool[t].completed
    BY Zenon, <1>1, <1>2 DEF IsNode
  <1>4. IsNode(n)
    BY Zenon, <1>2, <1>3 DEF IsNode
  <1> QED BY Zenon, <1>1, <1>3, <1>4, NodeWritten

LEMMA CompletedWritten ==
  ASSUME Nodes, NEW t \in Threads, pool' = [pool EXCEPT ![t].completed = TRUE]
  PROVE  /\ Nodes' /\ OnlyNode(t) /\ pool'[t].next = pool[t].next
         /\ pool'[t].arg_ret = pool[t].arg_ret /\ pool'[t].completed
  <1>1. PICK n : n = [pool[t] EXCEPT !.completed = TRUE]
    BY Zenon
  <1>2. IsNode(pool[t])
    BY Zenon DEF Nodes
  <1>3. /\ DOMAIN n = DOMAIN pool[t] /\ n.next = pool[t].next /\ n.arg_ret = pool[t].arg_ret
        /\ n.completed = TRUE
    BY Zenon, <1>1, <1>2 DEF IsNode
  <1>4. IsNode(n)
    BY Zenon, <1>2, <1>3 DEF IsNode
  <1> QED BY Zenon, <1>1, <1>3, <1>4, NodeWritten

LEMMA Parts ==
  ASSUME TypeOK PROVE Nodes /\ Locals
  BY Zenon DEF TypeOK, Nodes, Locals

-----------------------------------------------------------------------------
\* Whether the node of u is in a list does not change.
SameFor(u) ==
  /\ (Stacked(u)' <=> Stacked(u)) /\ (Listed(u) => (Loop(u)' <=> Loop(u)))
  /\ \A c \in Threads : Taken(c, u)' <=> Taken(c, u)

Waiting(t) == Listed(t) \/ \E c \in Threads : Finishes(c, t)

\* A step of t that neither takes, executes nor marks a node, and leaves its own
\* alone while others know of it.
Mild(t) ==
  /\ OnlyThread(t) /\ OnlyNode(t) /\ mem' = mem
  /\ th[t].pc # "complete" /\ th'[t].pc # "complete"
  /\ \A u \in Threads : u # t => SameFor(u)
  /\ Waiting(t) =>
       /\ pool'[t] = pool[t] /\ op'[t] = op[t] /\ th'[t].pc \notin {"idle", "push"} /\ SameFor(t)

LEMMA SameListed ==
  ASSUME NEW u \in Threads, SameFor(u)
  PROVE  Listed(u)' <=> Listed(u)
  BY Zenon DEF SameFor, Listed

LEMMA MildFinishes ==
  ASSUME NEW t \in Threads, Mild(t), NEW u \in Threads
  PROVE  /\ \A c \in Threads : Finishes(c, u)' <=> Finishes(c, u)
         /\ (th'[u].pc = "idle" <=> th[u].pc = "idle") /\ pool'[u].completed = pool[u].completed
              => (Executed(u)' <=> Executed(u))
  <1>1. \A c \in Threads : Finishes(c, u)' <=> Finishes(c, u)
    BY Zenon DEF Mild, OnlyThread, Finishes
  <1> QED BY Zenon, <1>1 DEF Executed, Finishes

\* It does not disturb another thread.
LEMMA MildOthers ==
  ASSUME StackInv, NEW t \in Threads, Mild(t), NEW u \in Threads, u # t
  PROVE  ListRight(u)' /\ ThreadRight(u)' /\ HolderRight(u)'
  <1>1. /\ th'[u] = th[u] /\ op'[u] = op[u] /\ pool'[u] = pool[u] /\ SameFor(u)
        /\ ListRight(u) /\ ThreadRight(u) /\ HolderRight(u) /\ mem' = mem
    BY Zenon DEF StackInv, Mild, OnlyThread, OnlyNode
  <1>2. Listed(u)' <=> Listed(u)
    BY Zenon, <1>1, SameListed
  <1>3. /\ \A c \in Threads : Finishes(c, u)' <=> Finishes(c, u)
        /\ Executed(u)' <=> Executed(u)
    BY Zenon, <1>1, MildFinishes
  <1>4. ListRight(u)'
    BY Zenon, <1>1, <1>2 DEF ListRight, SameFor
  <1>5. Holds(u)' <=> Holds(u)
    BY Zenon, <1>1 DEF Holds
  <1>6. ThreadRight(u)'
    BY Zenon, <1>1, <1>2, <1>3, <1>5 DEF ThreadRight, Ops
  <1>7. HolderRight(u)'
    <2>1. CASE ~Holds(u)
      BY Zenon, <1>1, <1>5, <2>1 DEF HolderRight, Holds
    <2>2. CASE th[u].pc \in {"take", "unlock", "load"}
      BY Zenon, <1>1, <1>5, <2>2 DEF HolderRight, SameFor
    <2>3. ASSUME NEW x \in Threads, x = th[u].p, th[u].pc \in {"store", "complete"}
          PROVE  /\ pool'[x] = pool[x] /\ op'[x] = op[x] /\ SameFor(x)
                 /\ th'[x].pc \in {"idle", "push"} => th[x].pc \in {"idle", "push"}
      <3>1. Waiting(x)
        <4>1. CASE th[u].pc = "store"
          BY Zenon, <2>3, <4>1 DEF Waiting, Listed, Taken, First, Reach
        <4>2. CASE th[u].pc = "complete"
          BY Zenon, <2>3, <4>2 DEF Waiting, Finishes
        <4> QED BY Zenon, <2>3, <4>1, <4>2
      <3> QED BY Zenon, <3>1 DEF Mild, OnlyNode, OnlyThread
    <2>4. CASE th[u].pc = "store"
      <3>1. PICK x \in Threads : x = th[u].p
        BY Zenon, <1>1, <2>4 DEF HolderRight
      <3>2. pool'[x] = pool[x] /\ op'[x] = op[x]
        BY Zenon, <2>3, <2>4, <3>1
      <3> QED BY Zenon, <1>1, <1>5, <2>4, <3>1, <3>2 DEF HolderRight, SameFor
    <2>5. CASE th[u].pc = "complete"
      <3>1. PICK x \in Threads : x = th[u].p
        BY Zenon, <1>1, <2>5 DEF HolderRight
      <3>2. pool'[x] = pool[x] /\ SameFor(x) /\ (th'[x].pc \in {"idle", "push"} => th[x].pc \in {"idle", "push"})
        BY Zenon, <2>3, <2>5, <3>1
      <3>3. Listed(x)' <=> Listed(x)
        BY Zenon, <3>2, SameListed
      <3>4. th[x].pc \notin {"idle", "push"} /\ ~pool[x].completed /\ ~Listed(x)
        BY Zenon, <1>1, <2>5, <3>1 DEF HolderRight
      <3>5. Listed(th[u].p)' <=> Listed(x)'
        BY Zenon, <1>1, <3>1 DEF Listed, Stacked, Taken, Reach
      <3>6. ~(Stacked(u) /\ Holds(u)) /\ th[u].counter # 0
        BY Zenon, <1>1, <2>5 DEF HolderRight
      <3> QED BY Zenon, <1>1, <1>5, <2>5, <3>1, <3>2, <3>3, <3>4, <3>5, <3>6 DEF HolderRight, SameFor
    <2> QED BY Zenon, <2>1, <2>2, <2>4, <2>5 DEF Holds
  <1> QED BY Zenon, <1>4, <1>6, <1>7

\* A mild step keeps the invariant if t's own part of it is kept.
LEMMA MildStep ==
  ASSUME StackInv, NEW t \in Threads, Mild(t), TypeOK', OneHolder',
         ListRight(t)', ThreadRight(t)', HolderRight(t)'
  PROVE  StackInv'
  <1>1. \A u \in Threads : ListRight(u)' /\ ThreadRight(u)' /\ HolderRight(u)'
    BY Zenon, MildOthers
  <1> QED BY Zenon, <1>1 DEF StackInv

\* The lists are the same when the pointers are.
LEMMA SameLists ==
  ASSUME Sizes, TypeOK, \A r \in Threads : pool'[r].next = pool[r].next, tail' = tail,
         \A c \in Threads : First(c)' = First(c)
  PROVE  \A u \in Threads : SameFor(u)
  <1>1. \A a \in Pointer, b \in Pointer : Reach(a, b)' <=> Reach(a, b)
    BY Zenon, SameWays
  <1>2. ASSUME NEW u \in Threads PROVE SameFor(u)
    <2>0. u \in Pointer
      BY Zenon, Types
    <2>1. Stacked(u)' <=> Stacked(u)
      <3>1. PICK a \in Pointer : a = tail
        BY Zenon, Types
      <3>2. Reach(tail, u)' <=> Reach(a, u)'
        BY Zenon, <3>1 DEF Reach
      <3> QED BY Zenon, <1>1, <2>0, <3>1, <3>2 DEF Stacked
    <2>2. Loop(u)' <=> Loop(u)
      <3>1. PICK a \in Pointer : a = pool[u].next
        BY Zenon, Types
      <3>2. Reach(pool[u].next, u)' <=> Reach(a, u)'
        BY Zenon, <3>1 DEF Reach
      <3> QED BY Zenon, <1>1, <2>0, <3>1, <3>2 DEF Loop
    <2>3. ASSUME NEW c \in Threads PROVE Taken(c, u)' <=> Taken(c, u)
      <3>1. PICK a \in Pointer : a = First(c)
        BY Zenon, Types
      <3>2. Reach(First(c), u)' <=> Reach(a, u)'
        BY Zenon, <3>1 DEF Reach
      <3> QED BY Zenon, <1>1, <2>0, <3>1, <3>2 DEF Taken
    <2> QED BY Zenon, <2>1, <2>2, <2>3 DEF SameFor
  <1> QED BY Zenon, <1>2

\* A step of t that writes to no node.
Plain(t) ==
  /\ OnlyThread(t) /\ pool' = pool /\ tail' = tail /\ mem' = mem /\ First(t)' = First(t)
  /\ th[t].pc # "complete" /\ th'[t].pc # "complete"

LEMMA PlainLists ==
  ASSUME Sizes, TypeOK, NEW t \in Threads, Plain(t)
  PROVE  \A u \in Threads : SameFor(u) /\ (Listed(u)' <=> Listed(u))
  <1>1. \A c \in Threads : First(c)' = First(c)
    <2>1. \A c \in Threads : c # t => th'[c] = th[c]
      BY Zenon DEF Plain, OnlyThread
    <2>2. \A c \in Threads : c # t => First(c)' = First(c)
      BY Zenon, <2>1 DEF First
    <2> QED BY Zenon, <2>2 DEF Plain
  <1>2. \A u \in Threads : SameFor(u)
    BY Zenon, <1>1, SameLists DEF Plain
  <1> QED BY Zenon, <1>2, SameListed

LEMMA PlainMild ==
  ASSUME Sizes, TypeOK, NEW t \in Threads, Plain(t),
         Waiting(t) => op'[t] = op[t] /\ th'[t].pc \notin {"idle", "push"}
  PROVE  Mild(t)
  BY Zenon, PlainLists DEF Plain, Mild, OnlyNode

\* The lock stays with its holder.
LEMMA SameHolder ==
  ASSUME StackInv, NEW t \in Threads, OnlyThread(t), lock' = lock, Holds(t)' => Holds(t)
  PROVE  OneHolder'
  <1>1. \A u \in Threads : Holds(u)' => Holds(u)
    BY Zenon DEF OnlyThread, Holds
  <1> QED BY Zenon, <1>1 DEF StackInv, OneHolder

\* While c has the lock the others are elsewhere and have taken nothing.
LEMMA OnlyHolder ==
  ASSUME Sizes, StackInv, NEW c \in Threads, Holds(c), NEW u \in Threads, u # c
  PROVE  /\ ~Holds(u) /\ th[u].pc \notin {"take", "load", "store", "complete", "unlock"}
         /\ First(u) = None
         /\ \A t \in Threads : ~Taken(u, t) /\ ~Finishes(u, t)
  <1>1. ~Holds(u)
    BY Zenon DEF StackInv, OneHolder
  <1>2. th[u].pc \notin {"take", "load", "store", "complete", "unlock"}
    BY Zenon, <1>1 DEF Holds
  <1>3. First(u) = None
    BY Zenon, <1>2 DEF First
  <1>4. \A t \in Threads : ~Taken(u, t)
    BY Zenon, <1>3, ReachOn DEF Taken, StackInv
  <1> QED BY Zenon, <1>1, <1>2, <1>3, <1>4 DEF Finishes

-----------------------------------------------------------------------------
\* What the callers see of a thread.
St(t) == IF th[t].pc = "idle" THEN "idle" ELSE IF Executed(t) THEN "done" ELSE "pending"
Res(t) == IF Executed(t) THEN pool[t].arg_ret ELSE None
Same(t) == St(t)' = St(t) /\ Res(t)' = Res(t)

\* A step the callers do not see.
LEMMA Unseen ==
  ASSUME op' = op, ret' = ret, mem' = mem,
         \A u \in Threads : /\ th'[u].pc = "idle" <=> th[u].pc = "idle"
                            /\ Executed(u)' <=> Executed(u)
                            /\ pool'[u].arg_ret = pool[u].arg_ret
  PROVE  Serves
  <1>1. \A u \in Threads : Same(u)
    BY Zenon DEF Same, St, Res
  <1>2. [u \in Threads |-> St(u)]' = [u \in Threads |-> St(u)]
    BY Zenon, <1>1 DEF Same
  <1>3. [u \in Threads |-> Res(u)]' = [u \in Threads |-> Res(u)]
    BY Zenon, <1>1 DEF Same
  <1> QED BY Zenon, <1>2, <1>3 DEF Serves, Abstract!vars, St, Res

\* A mild step within a call.
LEMMA MildUnseen ==
  ASSUME NEW t \in Threads, Mild(t), op' = op, ret' = ret,
         pool'[t].completed = pool[t].completed, pool'[t].arg_ret = pool[t].arg_ret,
         th'[t].pc = "idle" <=> th[t].pc = "idle"
  PROVE  Serves
  <1>1. \A u \in Threads : /\ th'[u].pc = "idle" <=> th[u].pc = "idle"
                           /\ pool'[u].arg_ret = pool[u].arg_ret
                           /\ pool'[u].completed = pool[u].completed
    BY Zenon DEF Mild, OnlyThread, OnlyNode
  <1>2. \A u \in Threads : Executed(u)' <=> Executed(u)
    BY Zenon, <1>1, MildFinishes
  <1> QED BY Zenon, <1>1, <1>2, Unseen DEF Mild

-----------------------------------------------------------------------------
\* A plain step within a call keeps what is said of t's node.
LEMMA PlainOwn ==
  ASSUME Sizes, StackInv, NEW t \in Threads, Plain(t), op' = op,
         th[t].pc \notin {"idle", "push"}, th'[t].pc \notin {"idle", "push"},
         th'[t].pc \in {"unlock", "return"} => pool[t].completed,
         ~Holds(t)' => th'[t].counter = 0
  PROVE  Mild(t) /\ ListRight(t)' /\ ThreadRight(t)'
  <1>0. TypeOK /\ ListRight(t) /\ ThreadRight(t) /\ pool' = pool
    BY Zenon DEF StackInv, Plain
  <1>1. Mild(t)
    BY Zenon, <1>0, PlainMild
  <1>2. SameFor(t) /\ (Listed(t)' <=> Listed(t))
    BY Zenon, <1>0, PlainLists
  <1>3. ListRight(t)'
    BY Zenon, <1>0, <1>2 DEF ListRight, SameFor
  <1>4. /\ \A c \in Threads : Finishes(c, t)' <=> Finishes(c, t)
        /\ Executed(t)' <=> Executed(t)
    BY Zenon, <1>0, <1>1, MildFinishes
  <1>5. ThreadRight(t)'
    BY Zenon, <1>0, <1>2, <1>4 DEF ThreadRight, Ops
  <1> QED BY Zenon, <1>1, <1>3, <1>5

LEMMA LockStep ==
  ASSUME Sizes, StackInv, NEW t \in Threads, Lock(t)
  PROVE  StackInv' /\ Serves
  <1>0. TypeOK /\ Nodes /\ Locals /\ ThreadRight(t) /\ th[t].pc = "lock"
    BY Zenon, Parts DEF StackInv, Lock
  <1>1. PICK x \in {"spin", "take"} : x = (IF lock THEN "spin" ELSE "take")
    BY Zenon
  <1>2. /\ x \in Labels /\ th' = [th EXCEPT ![t].pc = x] /\ lock' = TRUE
        /\ tail' = tail /\ pool' = pool /\ op' = op /\ ret' = ret /\ mem' = mem
    BY Zenon, <1>1 DEF Lock, Caller, Labels
  <1>3. /\ Locals' /\ (\A u \in Threads : u # t => th'[u] = th[u]) /\ th'[t].pc = x
        /\ th'[t].counter = th[t].counter
    BY Zenon, <1>0, <1>2, Goes
  <1>4. Nodes'
    BY Zenon, <1>0, <1>2 DEF Nodes, IsNode, Pointer
  <1>5. TypeOK'
    BY Zenon, <1>0, <1>2, <1>3, <1>4, TypesKept, Types
  <1>6. OnlyThread(t) /\ th'[t].pc \notin {"idle", "push", "complete", "unlock", "return"}
    BY Zenon, <1>1, <1>2, <1>3 DEF OnlyThread
  <1>7. Plain(t)
    <2>1. First(t)' = None /\ First(t) = None
      BY Zenon, <1>0, <1>1, <1>3 DEF First
    <2> QED BY Zenon, <1>0, <1>2, <1>6, <2>1 DEF Plain
  <1>8. th'[t].counter = 0
    BY Zenon, <1>0, <1>3 DEF ThreadRight, Holds
  <1>9. Mild(t) /\ ListRight(t)' /\ ThreadRight(t)'
    BY Zenon, <1>0, <1>2, <1>6, <1>7, <1>8, PlainOwn
  <1>10. HolderRight(t)'
    BY Zenon, <1>1, <1>3, <1>8 DEF HolderRight, Holds
  <1>11. OneHolder'
    <2>1. \A u \in Threads : u # t => (Holds(u)' <=> Holds(u))
      BY Zenon, <1>3 DEF Holds
    <2>2. CASE lock
      <3>1. ~Holds(t)'
        BY Zenon, <1>1, <1>3, <2>2 DEF Holds
      <3> QED BY Zenon, <1>2, <2>1, <3>1 DEF StackInv, OneHolder
    <2>3. CASE ~lock
      <3>1. \A u \in Threads : u # t => ~Holds(u)'
        BY Zenon, <2>1, <2>3 DEF StackInv, OneHolder
      <3> QED BY Zenon, <1>2, <3>1 DEF OneHolder
    <2> QED BY Zenon, <2>2, <2>3
  <1>12. StackInv'
    BY Zenon, <1>5, <1>9, <1>10, <1>11, MildStep
  <1>13. Serves
    BY Zenon, <1>0, <1>2, <1>6, <1>9, MildUnseen
  <1> QED BY Zenon, <1>12, <1>13

LEMMA SpinStep ==
  ASSUME Sizes, StackInv, NEW t \in Threads, Spin(t)
  PROVE  StackInv' /\ Serves
  <1>0. TypeOK /\ Nodes /\ Locals /\ ThreadRight(t) /\ th[t].pc = "spin"
    BY Zenon, Parts DEF StackInv, Spin
  <1>1. PICK x \in {"return", "lock"} : x = (IF pool[t].completed THEN "return" ELSE "lock")
    BY Zenon
  <1>2. /\ x \in Labels /\ th' = [th EXCEPT ![t].pc = x] /\ lock' = lock
        /\ tail' = tail /\ pool' = pool /\ op' = op /\ ret' = ret /\ mem' = mem
    BY Zenon, <1>1 DEF Spin, Caller, Labels
  <1>3. /\ Locals' /\ (\A u \in Threads : u # t => th'[u] = th[u]) /\ th'[t].pc = x
        /\ th'[t].counter = th[t].counter
    BY Zenon, <1>0, <1>2, Goes
  <1>4. Nodes'
    BY Zenon, <1>0, <1>2 DEF Nodes, IsNode, Pointer
  <1>5. TypeOK'
    BY Zenon, <1>0, <1>2, <1>3, <1>4, TypesKept, Types
  <1>6. /\ OnlyThread(t) /\ th'[t].pc \notin {"idle", "push", "complete"}
        /\ th'[t].pc \in {"unlock", "return"} => pool[t].completed
    BY Zenon, <1>1, <1>2, <1>3 DEF OnlyThread
  <1>7. Plain(t)
    <2>1. First(t)' = None /\ First(t) = None
      BY Zenon, <1>0, <1>1, <1>3 DEF First
    <2> QED BY Zenon, <1>0, <1>2, <1>6, <2>1 DEF Plain
  <1>8. th'[t].counter = 0 /\ ~Holds(t)'
    BY Zenon, <1>0, <1>1, <1>3 DEF ThreadRight, Holds
  <1>9. Mild(t) /\ ListRight(t)' /\ ThreadRight(t)'
    BY Zenon, <1>0, <1>2, <1>6, <1>7, <1>8, PlainOwn
  <1>10. HolderRight(t)'
    BY Zenon, <1>1, <1>3, <1>8 DEF HolderRight
  <1>11. OneHolder'
    BY Zenon, <1>2, <1>6, <1>8, SameHolder
  <1>12. StackInv'
    BY Zenon, <1>5, <1>9, <1>10, <1>11, MildStep
  <1>13. Serves
    BY Zenon, <1>0, <1>2, <1>6, <1>9, MildUnseen
  <1> QED BY Zenon, <1>12, <1>13

LEMMA UnlockStep ==
  ASSUME Sizes, StackInv, NEW t \in Threads, Unlock(t)
  PROVE  StackInv' /\ Serves
  <1>0. TypeOK /\ Nodes /\ Locals /\ ThreadRight(t) /\ th[t].pc = "unlock"
    BY Zenon, Parts DEF StackInv, Unlock
  <1>2. /\ th' = [th EXCEPT ![t] = [Fresh EXCEPT !.pc = "return"]] /\ lock' = FALSE
        /\ tail' = tail /\ pool' = pool /\ op' = op /\ ret' = ret /\ mem' = mem
    BY Zenon DEF Unlock, Caller
  <1>3. /\ Locals' /\ (\A u \in Threads : u # t => th'[u] = th[u]) /\ th'[t].pc = "return"
        /\ th'[t].counter = 0
    BY Zenon, <1>0, <1>2, GoesFresh
  <1>4. Nodes'
    BY Zenon, <1>0, <1>2 DEF Nodes, IsNode, Pointer
  <1>5. TypeOK'
    BY Zenon, <1>0, <1>2, <1>3, <1>4, TypesKept, Types
  <1>6. /\ OnlyThread(t) /\ th'[t].pc \notin {"idle", "push", "complete"} /\ pool[t].completed
    BY Zenon, <1>0, <1>2, <1>3 DEF OnlyThread, ThreadRight
  <1>7. Plain(t)
    <2>1. First(t)' = None /\ First(t) = None
      BY Zenon, <1>0, <1>3 DEF First
    <2> QED BY Zenon, <1>0, <1>2, <1>6, <2>1 DEF Plain
  <1>9. Mild(t) /\ ListRight(t)' /\ ThreadRight(t)'
    BY Zenon, <1>0, <1>2, <1>3, <1>6, <1>7, PlainOwn
  <1>10. HolderRight(t)' /\ ~Holds(t)'
    BY Zenon, <1>3 DEF HolderRight, Holds
  <1>11. OneHolder'
    <2>1. Holds(t)
      BY Zenon, <1>0 DEF Holds
    <2>2. \A u \in Threads : u # t => ~Holds(u)'
      <3>1. \A u \in Threads : u # t => ~Holds(u)
        BY Zenon, <2>1, OnlyHolder
      <3> QED BY Zenon, <1>3, <3>1 DEF Holds
    <2> QED BY Zenon, <1>10, <2>2 DEF OneHolder
  <1>12. StackInv'
    BY Zenon, <1>5, <1>9, <1>10, <1>11, MildStep
  <1>13. Serves
    BY Zenon, <1>0, <1>2, <1>6, <1>9, MildUnseen
  <1> QED BY Zenon, <1>12, <1>13

\* The holder reads the first node it has taken, whose owner waits.
LEMMA LoadStep ==
  ASSUME Sizes, StackInv, NEW t \in Threads, Load(t)
  PROVE  StackInv' /\ Serves
  <1>0. /\ TypeOK /\ Nodes /\ Locals /\ ThreadRight(t) /\ HolderRight(t) /\ th[t].pc = "load"
    BY Zenon, Parts DEF StackInv, Load
  <1>1. PICK x \in Threads : x = th[t].p
    BY Zenon, <1>0 DEF HolderRight
  <1>2. PICK n \in Nat : n = th[t].counter + 1 /\ n # 0
    <2>1. th[t].counter \in Nat
      BY Zenon, <1>0, Types
    <2> QED BY SMT, <2>1
  <1>a. PICK a \in Pointer : a = pool[x].next
    BY Zenon, <1>0, Types
  <1>v. PICK v : v = mem[op[x].var]
    BY Zenon
  <1>3. /\ th' = [th EXCEPT ![t].counter = n, ![t].tmp_next = a, ![t].seen = v, ![t].pc = "store"]
        /\ lock' = lock /\ tail' = tail /\ pool' = pool /\ op' = op /\ ret' = ret /\ mem' = mem
    BY Zenon, <1>1, <1>2, <1>a, <1>v DEF Load, Caller
  <1>l. Loads(t, a, v, n)
    BY Zenon, <1>3 DEF Loads
  <1>4. /\ Locals' /\ (\A u \in Threads : u # t => th'[u] = th[u]) /\ th'[t].pc = "store"
        /\ th'[t].p = x /\ th'[t].tmp_next = a /\ th'[t].seen = v
        /\ th'[t].counter = n
    <2>1. Locals /\ th[t].p = x
      BY Zenon, <1>0, <1>1
    <2>2. /\ Locals' /\ (\A u \in Threads : u # t => th'[u] = th[u]) /\ th'[t].pc = "store"
          /\ th'[t].p = th[t].p /\ th'[t].tmp_next = a /\ th'[t].seen = v /\ th'[t].counter = n
      BY ZenonT(60), <1>l, <2>1, GoesLoading
    <2> QED BY Zenon, <2>1, <2>2
  <1>5. Nodes'
    BY Zenon, <1>0, <1>3 DEF Nodes, IsNode, Pointer
  <1>6. TypeOK'
    BY Zenon, <1>0, <1>3, <1>4, <1>5, TypesKept, Types
  <1>7. OnlyThread(t) /\ th'[t].pc \notin {"idle", "push", "complete", "unlock", "return"} /\ Holds(t) /\ Holds(t)'
    BY Zenon, <1>0, <1>3, <1>4 DEF OnlyThread, Holds
  <1>8. Plain(t)
    <2>1. First(t)' = x /\ First(t) = x
      BY Zenon, <1>0, <1>1, <1>4 DEF First
    <2> QED BY Zenon, <1>0, <1>3, <1>7, <2>1 DEF Plain
  <1>9. Mild(t) /\ ListRight(t)' /\ ThreadRight(t)'
    BY Zenon, <1>0, <1>3, <1>7, <1>8, PlainOwn
  <1>10. HolderRight(t)'
    <2>1. ~Stacked(t)'
      <3>1. ~Stacked(t)
        BY Zenon, <1>0, <1>7 DEF HolderRight
      <3> QED BY Zenon, <1>0, <1>8, <3>1, PlainLists DEF SameFor
    <2>2. th'[t].tmp_next = pool'[th'[t].p].next /\ th'[t].seen = mem'[op'[th'[t].p].var]
      BY Zenon, <1>3, <1>4, <1>a, <1>v
    <2> QED BY Zenon, <1>2, <1>4, <2>1, <2>2 DEF HolderRight
  <1>11. OneHolder'
    BY Zenon, <1>3, <1>7, SameHolder
  <1>12. StackInv'
    BY Zenon, <1>6, <1>9, <1>10, <1>11, MildStep
  <1>13. Serves
    BY Zenon, <1>0, <1>3, <1>7, <1>9, MildUnseen
  <1> QED BY Zenon, <1>12, <1>13

\* Nobody knows of a node before it is announced and when it is completed.
LEMMA NotWaiting ==
  ASSUME StackInv, NEW t \in Threads, th[t].pc \in {"idle", "push"} \/ pool[t].completed
  PROVE  ~Listed(t) /\ ~Waiting(t) /\ \A c \in Threads : ~Finishes(c, t)
  <1>1. ~Listed(t)
    BY Zenon DEF StackInv, ListRight
  <1>2. \A c \in Threads : ~Finishes(c, t)
    BY Zenon DEF StackInv, HolderRight, Finishes
  <1> QED BY Zenon, <1>1, <1>2 DEF Waiting

LEMMA ReturnStep ==
  ASSUME Sizes, StackInv, NEW t \in Threads, Return(t)
  PROVE  StackInv' /\ Serves
  <1>0. /\ TypeOK /\ Nodes /\ Locals /\ ThreadRight(t) /\ th[t].pc = "return" /\ pool[t].completed
    BY Zenon, Parts DEF StackInv, Return, ThreadRight
  <1>2. /\ th' = [th EXCEPT ![t] = Fresh] /\ op' = [op EXCEPT ![t] = None]
        /\ ret' = [ret EXCEPT ![t] = pool[t].arg_ret]
        /\ lock' = lock /\ tail' = tail /\ pool' = pool /\ mem' = mem
    BY Zenon DEF Return
  <1>3. /\ Locals' /\ (\A u \in Threads : u # t => th'[u] = th[u]) /\ th'[t].pc = "idle"
        /\ th'[t].counter = 0
    <2>1. PICK l : l = Fresh
      BY Zenon
    <2>2. /\ DOMAIN l = {"pc", "p", "tmp_next", "seen", "counter"} /\ l.pc = "idle" /\ l.p = None
          /\ l.tmp_next = None /\ l.counter = 0
      BY SMT, <2>1 DEF Fresh
    <2>3. 0 \in Nat
      BY SMT
    <2>4. IsLocals(l)
      BY Zenon, <2>2, <2>3 DEF IsLocals, Pointer, Labels
    <2> QED BY Zenon, <1>0, <1>2, <2>1, <2>2, <2>4, LocalsWritten
  <1>4. Nodes'
    BY Zenon, <1>0, <1>2 DEF Nodes, IsNode, Pointer
  <1>5. TypeOK'
    BY Zenon, <1>0, <1>2, <1>3, <1>4, TypesKept, Types
  <1>6. OnlyThread(t)
    BY Zenon, <1>0, <1>2, <1>3 DEF OnlyThread, TypeOK
  <1>7. Plain(t)
    <2>1. First(t)' = None /\ First(t) = None
      BY Zenon, <1>0, <1>3 DEF First
    <2> QED BY Zenon, <1>0, <1>2, <1>3, <1>6, <2>1 DEF Plain
  <1>8. ~Listed(t) /\ ~Waiting(t) /\ \A c \in Threads : ~Finishes(c, t)
    BY Zenon, <1>0, NotWaiting
  <1>9. Mild(t)
    BY Zenon, <1>0, <1>7, <1>8, PlainMild
  <1>10. ListRight(t)'
    <2>1. ~Listed(t)'
      BY Zenon, <1>0, <1>7, <1>8, PlainLists
    <2> QED BY Zenon, <2>1 DEF ListRight, Listed
  <1>11. ThreadRight(t)' /\ HolderRight(t)' /\ ~Holds(t)'
    BY Zenon, <1>3 DEF ThreadRight, HolderRight, Holds
  <1>12. OneHolder'
    BY Zenon, <1>2, <1>6, <1>11, SameHolder
  <1>13. StackInv'
    BY Zenon, <1>5, <1>9, <1>10, <1>11, <1>12, MildStep
  <1>14. Executed(t) /\ ~Executed(t)'
    BY Zenon, <1>0, <1>3 DEF Executed
  <1>15. St(t) = "done" /\ Res(t) = pool[t].arg_ret /\ St(t)' = "idle" /\ Res(t)' = None
    BY Zenon, <1>0, <1>3, <1>14 DEF St, Res
  <1>16. ASSUME NEW u \in Threads, u # t PROVE Same(u)
    <2>1. th'[u] = th[u] /\ pool'[u] = pool[u]
      BY Zenon, <1>2, <1>3, <1>16
    <2>2. Executed(u)' <=> Executed(u)
      BY Zenon, <1>9, <2>1, MildFinishes
    <2> QED BY Zenon, <2>1, <2>2 DEF Same, St, Res
  <1>17. [u \in Threads |-> St(u)]' = [[u \in Threads |-> St(u)] EXCEPT ![t] = "idle"]
    BY Zenon, <1>15, <1>16 DEF Same
  <1>18. [u \in Threads |-> Res(u)]' = [[u \in Threads |-> Res(u)] EXCEPT ![t] = None]
    BY Zenon, <1>15, <1>16 DEF Same
  <1>19. /\ [u \in Threads |-> St(u)][t] = "done"
         /\ ret' = [ret EXCEPT ![t] = [u \in Threads |-> Res(u)][t]]
    BY Zenon, <1>2, <1>15
  <1>20. Abstract!Return(t)
    BY Zenon, <1>2, <1>17, <1>18, <1>19 DEF Abstract!Return, St, Res
  <1>21. Serves
    BY Zenon, <1>20 DEF Serves, Abstract!Next
  <1> QED BY Zenon, <1>13, <1>21

\* A write to a node that is in no list.
LEMMA OffList ==
  ASSUME Sizes, StackInv, NEW t \in Threads, OnlyThread(t), OnlyNode(t), ~Listed(t), tail' = tail,
         First(t)' = First(t)
  PROVE  \A u \in Threads : SameFor(u) /\ (Listed(u)' <=> Listed(u))
  <1>0. TypeOK
    BY Zenon DEF StackInv
  <1>1. \A r \in Threads : r # t => pool'[r].next = pool[r].next
    BY Zenon DEF OnlyNode
  <1>2. \A a \in Pointer : ~Reach(a, t) => \A b \in Pointer : Reach(a, b)' <=> Reach(a, b)
    BY Zenon, <1>0, <1>1, OtherWays
  <1>3. \A c \in Threads : First(c)' = First(c)
    <2>1. \A c \in Threads : c # t => th'[c] = th[c]
      BY Zenon DEF OnlyThread
    <2> QED BY Zenon, <2>1 DEF First
  <1>4. ASSUME NEW u \in Threads PROVE Stacked(u)' <=> Stacked(u)
    <2>1. PICK a \in Pointer : a = tail
      BY Zenon, <1>0, Types
    <2>2. Reach(tail, u)' <=> Reach(a, u)'
      BY Zenon, <2>1 DEF Reach
    <2>3. ~Reach(a, t)
      BY Zenon, <2>1 DEF Listed, Stacked
    <2>4. Reach(a, u)' <=> Reach(a, u)
      BY Zenon, <1>0, <1>2, <2>3, Types
    <2> QED BY Zenon, <2>1, <2>2, <2>4 DEF Stacked
  <1>5. ASSUME NEW u \in Threads, NEW c \in Threads PROVE Taken(c, u)' <=> Taken(c, u)
    <2>1. PICK a \in Pointer : a = First(c)
      BY Zenon, <1>0, Types
    <2>2. Reach(First(c), u)' <=> Reach(a, u)'
      BY Zenon, <1>3, <2>1 DEF Reach
    <2>3. ~Reach(a, t)
      BY Zenon, <2>1 DEF Listed, Taken
    <2>4. Reach(a, u)' <=> Reach(a, u)
      BY Zenon, <1>0, <1>2, <2>3, Types
    <2> QED BY Zenon, <2>1, <2>2, <2>4 DEF Taken
  <1>6. ASSUME NEW u \in Threads, Listed(u) PROVE Loop(u)' <=> Loop(u)
    <2>1. PICK a \in Pointer : a = pool[u].next
      BY Zenon, <1>0, Types
    <2>2. PICK f \in Pointer : Reach(f, u) /\ ~Reach(f, t)
      BY Zenon, <1>0, <1>6, Types DEF Listed, Stacked, Taken
    <2>3. u # t /\ pool'[u].next = a
      BY Zenon, <1>1, <1>6, <2>1
    <2>4. ~Reach(a, t)
      <3>1. Reach(a, t) => Reach(u, t)
        BY Zenon, <1>0, <2>1, ReachOn, Types
      <3> QED BY Zenon, <1>0, <2>2, <3>1, ReachOn, Types
    <2>5. Reach(a, u)' <=> Reach(a, u)
      BY Zenon, <1>0, <1>2, <2>4, Types
    <2>6. Reach(pool[u].next, u)' <=> Reach(a, u)'
      BY Zenon, <2>3 DEF Reach
    <2> QED BY Zenon, <2>1, <2>5, <2>6 DEF Loop
  <1>7. \A u \in Threads : SameFor(u)
    BY Zenon, <1>4, <1>5, <1>6 DEF SameFor
  <1> QED BY Zenon, <1>7, SameListed

LEMMA CallStep ==
  ASSUME Sizes, StackInv, NEW t \in Threads, NEW o \in Ops, Call(t, o)
  PROVE  StackInv' /\ Serves
  <1>0. TypeOK /\ Nodes /\ Locals /\ ThreadRight(t) /\ th[t].pc = "idle"
    BY Zenon, Parts DEF StackInv, Call
  <1>1. PICK a \in Pointer : a = tail
    BY Zenon, <1>0, Types
  <1>2. /\ th' = [th EXCEPT ![t].pc = "push"] /\ op' = [op EXCEPT ![t] = o]
        /\ pool' = [pool EXCEPT ![t] = [next |-> a, arg_ret |-> o.fn, completed |-> FALSE]]
        /\ ret' = ret /\ lock' = lock /\ tail' = tail /\ mem' = mem /\ "push" \in Labels
    BY Zenon, <1>1 DEF Call, Labels
  <1>3. /\ Locals' /\ (\A u \in Threads : u # t => th'[u] = th[u]) /\ th'[t].pc = "push"
        /\ th'[t].counter = th[t].counter
    BY Zenon, <1>0, <1>2, Goes
  <1>4. Nodes' /\ OnlyNode(t) /\ pool'[t].arg_ret = o.fn /\ ~pool'[t].completed
    BY ZenonT(60), <1>0, <1>2, CallWritten
  <1>5. TypeOK'
    BY Zenon, <1>0, <1>2, <1>3, <1>4, TypesKept, Types
  <1>6. OnlyThread(t) /\ op'[t] = o
    BY Zenon, <1>0, <1>2, <1>3 DEF OnlyThread, TypeOK
  <1>7. First(t)' = None /\ First(t) = None
    BY Zenon, <1>0, <1>3 DEF First
  <1>8. ~Listed(t) /\ ~Waiting(t) /\ \A c \in Threads : ~Finishes(c, t)
    BY Zenon, <1>0, NotWaiting
  <1>9. \A u \in Threads : SameFor(u) /\ (Listed(u)' <=> Listed(u))
    BY Zenon, <1>2, <1>4, <1>6, <1>7, <1>8, OffList
  <1>10. Mild(t)
    BY Zenon, <1>0, <1>2, <1>3, <1>4, <1>6, <1>8, <1>9 DEF Mild
  <1>11. ListRight(t)'
    BY Zenon, <1>8, <1>9 DEF ListRight, Listed
  <1>12. /\ \A c \in Threads : ~Finishes(c, t)'
         /\ ~Executed(t)' /\ ~Executed(t)
    <2>1. \A c \in Threads : ~Finishes(c, t)'
      BY Zenon, <1>8, <1>10, MildFinishes
    <2> QED BY Zenon, <1>0, <1>4, <2>1 DEF Executed, Finishes
  <1>13. ~Holds(t)' /\ ~Holds(t)
    BY Zenon, <1>0, <1>3 DEF Holds
  <1>14. ThreadRight(t)' /\ HolderRight(t)'
    <2>1. ThreadRight(t)'
      <3>1. th'[t].counter = 0
        BY Zenon, <1>0, <1>3, <1>13 DEF ThreadRight
      <3>2. Ops' = Ops
        BY Zenon DEF Ops
      <3> QED BY Zenon, <1>3, <1>4, <1>6, <3>1, <3>2 DEF ThreadRight
    <2> QED BY Zenon, <1>3, <1>13, <2>1 DEF HolderRight
  <1>15. OneHolder'
    BY Zenon, <1>2, <1>6, <1>13, SameHolder
  <1>16. StackInv'
    BY Zenon, <1>5, <1>10, <1>11, <1>14, <1>15, MildStep
  <1>17. St(t) = "idle" /\ Res(t) = None /\ St(t)' = "pending" /\ Res(t)' = None
    BY Zenon, <1>0, <1>3, <1>12 DEF St, Res
  <1>18. ASSUME NEW u \in Threads, u # t PROVE Same(u)
    <2>1. th'[u] = th[u] /\ pool'[u] = pool[u]
      BY Zenon, <1>3, <1>4, <1>18 DEF OnlyNode
    <2>2. Executed(u)' <=> Executed(u)
      BY Zenon, <1>10, <2>1, MildFinishes
    <2> QED BY Zenon, <2>1, <2>2 DEF Same, St, Res
  <1>19. [u \in Threads |-> St(u)]' = [[u \in Threads |-> St(u)] EXCEPT ![t] = "pending"]
    BY Zenon, <1>17, <1>18 DEF Same
  <1>20. [u \in Threads |-> Res(u)]' = [u \in Threads |-> Res(u)]
    BY Zenon, <1>17, <1>18 DEF Same
  <1>21. [u \in Threads |-> St(u)][t] = "idle"
    BY Zenon, <1>17
  <1>22. Abstract!Invoke(t, o)
    BY Zenon, <1>2, <1>19, <1>20, <1>21 DEF Abstract!Invoke, St, Res
  <1>23. Serves
    BY Zenon, <1>22 DEF Serves, Abstract!Next, Abstract!Ops, Ops
  <1> QED BY Zenon, <1>16, <1>23

\* The compare-and-swap fails, and the tail is read again.
LEMMA PushFails ==
  ASSUME Sizes, StackInv, NEW t \in Threads, Push(t), tail # pool[t].next
  PROVE  StackInv' /\ Serves
  <1>0. TypeOK /\ Nodes /\ Locals /\ ThreadRight(t) /\ HolderRight(t) /\ th[t].pc = "push"
    BY Zenon, Parts DEF StackInv, Push
  <1>1. PICK a \in Pointer : a = tail
    BY Zenon, <1>0, Types
  <1>2. /\ pool' = [pool EXCEPT ![t].next = a]
        /\ th' = th /\ op' = op /\ ret' = ret /\ lock' = lock /\ tail' = tail /\ mem' = mem
    BY Zenon, <1>1 DEF Push, Caller
  <1>3. Locals'
    BY Zenon, <1>0, <1>2 DEF Locals, IsLocals, Labels, Pointer
  <1>4. /\ Nodes' /\ OnlyNode(t) /\ pool'[t].arg_ret = pool[t].arg_ret
        /\ pool'[t].completed = pool[t].completed
    BY Zenon, <1>0, <1>2, NextWritten
  <1>5. TypeOK'
    BY Zenon, <1>0, <1>2, <1>3, <1>4, TypesKept, Types
  <1>6. OnlyThread(t) /\ th'[t].pc = "push"
    BY Zenon, <1>0, <1>2 DEF OnlyThread
  <1>7. First(t)' = First(t)
    BY Zenon, <1>2 DEF First
  <1>8. ~Listed(t) /\ ~Waiting(t)
    BY Zenon, <1>0, NotWaiting
  <1>9. \A u \in Threads : SameFor(u) /\ (Listed(u)' <=> Listed(u))
    BY Zenon, <1>2, <1>4, <1>6, <1>7, <1>8, OffList
  <1>10. Mild(t)
    BY Zenon, <1>0, <1>2, <1>4, <1>6, <1>8, <1>9 DEF Mild
  <1>11. ListRight(t)'
    BY Zenon, <1>8, <1>9 DEF ListRight, Listed
  <1>12. Executed(t)' <=> Executed(t)
    BY Zenon, <1>4, <1>2, <1>10, MildFinishes
  <1>13. ~Holds(t)' /\ ~Holds(t)
    BY Zenon, <1>0, <1>6 DEF Holds
  <1>14. ThreadRight(t)'
    BY Zenon, <1>0, <1>2, <1>4, <1>6, <1>12, <1>13 DEF ThreadRight, Ops
  <1>15. HolderRight(t)'
    BY Zenon, <1>6, <1>13 DEF HolderRight
  <1>16. OneHolder'
    BY Zenon, <1>2, <1>6, <1>13, SameHolder
  <1>17. StackInv'
    BY Zenon, <1>5, <1>10, <1>11, <1>14, <1>15, <1>16, MildStep
  <1>18. Serves
    BY Zenon, <1>2, <1>4, <1>10, MildUnseen
  <1> QED BY Zenon, <1>17, <1>18

\* The node is announced, in front of what is on the stack.
LEMMA PushSucceeds ==
  ASSUME Sizes, StackInv, NEW t \in Threads, Push(t), tail = pool[t].next
  PROVE  StackInv' /\ Serves
  <1>0. TypeOK /\ Nodes /\ Locals /\ ThreadRight(t) /\ th[t].pc = "push"
    BY Zenon, Parts DEF StackInv, Push
  <1>1. PICK a \in Pointer : a = tail /\ a = pool[t].next
    BY Zenon, <1>0, Types
  <1>2. /\ th' = [th EXCEPT ![t].pc = "lock"] /\ pool' = pool /\ op' = op /\ ret' = ret
        /\ lock' = lock /\ tail' = t /\ mem' = mem /\ "lock" \in Labels
    BY Zenon DEF Push, Caller, Labels
  <1>3. /\ Locals' /\ (\A u \in Threads : u # t => th'[u] = th[u]) /\ th'[t].pc = "lock"
        /\ th'[t].counter = th[t].counter
    BY Zenon, <1>0, <1>2, Goes
  <1>4. Nodes'
    BY Zenon, <1>0, <1>2 DEF Nodes, IsNode, Pointer
  <1>5. TypeOK'
    BY Zenon, <1>0, <1>2, <1>3, <1>4, TypesKept, Types
  <1>6. OnlyThread(t) /\ OnlyNode(t)
    BY Zenon, <1>2, <1>3 DEF OnlyThread, OnlyNode
  <1>7. \A c \in Threads : First(c)' = First(c)
    <2>1. First(t)' = None /\ First(t) = None
      BY Zenon, <1>0, <1>3 DEF First
    <2>2. \A c \in Threads : c # t => First(c)' = First(c)
      BY Zenon, <1>3 DEF First
    <2> QED BY Zenon, <2>1, <2>2
  <1>8. ~Listed(t) /\ ~Waiting(t) /\ \A c \in Threads : ~Finishes(c, t)
    BY Zenon, <1>0, NotWaiting
  <1>9. \A b \in Pointer, d \in Pointer : Reach(b, d)' <=> Reach(b, d)
    BY Zenon, <1>2, SameWays
  <1>10. ASSUME NEW u \in Threads
         PROVE  /\ Stacked(u)' <=> Stacked(u) \/ u = t
                /\ Loop(u)' <=> Loop(u)
                /\ \A c \in Threads : Taken(c, u)' <=> Taken(c, u)
    <2>1. Reach(t, u)' <=> Reach(t, u)
      BY Zenon, <1>0, <1>9, Types
    <2>2. Stacked(u)' <=> Reach(t, u)'
      BY Zenon, <1>2 DEF Stacked, Reach
    <2>3. Reach(t, u) <=> Reach(a, u) \/ u = t
      BY Zenon, <1>0, <1>1, ReachOn, Types
    <2>4. Loop(u)' <=> Loop(u)
      <3>1. PICK b \in Pointer : b = pool[u].next
        BY Zenon, <1>0, Types
      <3>2. Loop(u)' <=> Reach(b, u)'
        BY Zenon, <1>2, <3>1 DEF Loop, Reach
      <3>3. Reach(b, u)' <=> Reach(b, u)
        BY Zenon, <1>0, <1>9, Types
      <3> QED BY Zenon, <3>1, <3>2, <3>3 DEF Loop
    <2>5. ASSUME NEW c \in Threads PROVE Taken(c, u)' <=> Taken(c, u)
      <3>1. PICK b \in Pointer : b = First(c)
        BY Zenon, <1>0, Types
      <3>2. Taken(c, u)' <=> Reach(b, u)'
        BY Zenon, <1>7, <3>1 DEF Taken, Reach
      <3>3. Reach(b, u)' <=> Reach(b, u)
        BY Zenon, <1>0, <1>9, Types
      <3> QED BY Zenon, <3>1, <3>2, <3>3 DEF Taken
    <2> QED BY Zenon, <1>1, <2>1, <2>2, <2>3, <2>4, <2>5 DEF Stacked
  <1>11. \A u \in Threads : u # t => SameFor(u)
    BY Zenon, <1>10 DEF SameFor
  <1>12. Mild(t)
    BY Zenon, <1>0, <1>2, <1>3, <1>6, <1>8, <1>11 DEF Mild
  <1>13. ~pool'[t].completed /\ th'[t].counter = 0 /\ ~Holds(t)'
    BY Zenon, <1>0, <1>2, <1>3 DEF ThreadRight, Holds
  <1>14. ListRight(t)'
    <2>1. ~Loop(t)'
      BY Zenon, <1>1, <1>8, <1>10 DEF Loop, Listed, Stacked
    <2>2. \A c \in Threads : ~Taken(c, t)'
      BY Zenon, <1>8, <1>10 DEF Listed
    <2> QED BY Zenon, <1>3, <1>13, <2>1, <2>2 DEF ListRight
  <1>15. ThreadRight(t)'
    <2>1. Listed(t)'
      BY Zenon, <1>10 DEF Listed
    <2>2. Executed(t)' <=> Executed(t)
      BY Zenon, <1>0, <1>2, <1>3, <1>12, MildFinishes
    <2> QED BY Zenon, <1>0, <1>2, <1>3, <1>13, <2>1, <2>2 DEF ThreadRight, Ops
  <1>16. HolderRight(t)'
    BY Zenon, <1>3, <1>13 DEF HolderRight
  <1>17. OneHolder'
    BY Zenon, <1>2, <1>6, <1>13, SameHolder
  <1>18. StackInv'
    BY Zenon, <1>5, <1>12, <1>14, <1>15, <1>16, <1>17, MildStep
  <1>19. Serves
    BY Zenon, <1>0, <1>2, <1>3, <1>12, MildUnseen
  <1> QED BY Zenon, <1>18, <1>19

-----------------------------------------------------------------------------
\* The holder's own call is completed when it finds no node, or may help no more.
LEMMA HolderServed ==
  ASSUME Sizes, StackInv, NEW c \in Threads, th[c].pc = "take",
         tail = None \/ ~(th[c].counter < OYAMA_HELP_BOUND)
  PROVE  pool[c].completed
  <1>0. TypeOK /\ ThreadRight(c) /\ HolderRight(c) /\ Holds(c)
    BY Zenon DEF StackInv, Holds
  <1>1. ~Stacked(c)
    <2>1. CASE tail = None
      BY Zenon, <1>0, <2>1, ReachOn DEF Stacked
    <2>2. CASE ~(th[c].counter < OYAMA_HELP_BOUND)
      <3>1. th[c].counter # 0
        <4>1. th[c].counter = 0 => FALSE
          BY SMT, <2>2 DEF Sizes
        <4> QED BY Zenon, <4>1
      <3> QED BY Zenon, <1>0, <3>1 DEF HolderRight
    <2> QED BY Zenon, <2>1, <2>2
  <1>2. \A d \in Threads : ~Taken(d, c) /\ ~Finishes(d, c)
    <2>1. First(c) = None
      BY Zenon DEF First
    <2>2. ~Taken(c, c) /\ ~Finishes(c, c)
      BY Zenon, <1>0, <2>1, ReachOn DEF Taken, Finishes
    <2> QED BY Zenon, <1>0, <2>2, OnlyHolder
  <1>3. ~Listed(c)
    BY Zenon, <1>1, <1>2 DEF Listed
  <1> QED BY Zenon, <1>0, <1>2, <1>3 DEF ThreadRight

\* The holder stops helping.
LEMMA TakeNothing ==
  ASSUME Sizes, StackInv, NEW t \in Threads, Take(t),
         tail = None \/ ~(th[t].counter < OYAMA_HELP_BOUND)
  PROVE  StackInv' /\ Serves
  <1>0. TypeOK /\ Nodes /\ Locals /\ ThreadRight(t) /\ th[t].pc = "take" /\ Holds(t)
    BY Zenon, Parts DEF StackInv, Take, Holds
  <1>1. pool[t].completed
    BY Zenon, <1>0, HolderServed
  <1>2. /\ \/ th' = [th EXCEPT ![t].pc = "unlock"]
           \/ th' = [th EXCEPT ![t].p = None, ![t].pc = "unlock"]
        /\ tail' = tail /\ lock' = lock /\ pool' = pool /\ op' = op /\ ret' = ret /\ mem' = mem
        /\ "unlock" \in Labels /\ None \in Pointer
    BY Zenon DEF Take, Caller, Labels, Pointer
  <1>3. /\ Locals' /\ (\A u \in Threads : u # t => th'[u] = th[u]) /\ th'[t].pc = "unlock"
        /\ th'[t].counter = th[t].counter
    <2>1. CASE th' = [th EXCEPT ![t].pc = "unlock"]
      BY Zenon, <1>0, <1>2, <2>1, Goes
    <2>2. CASE th' = [th EXCEPT ![t].p = None, ![t].pc = "unlock"]
      BY Zenon, <1>0, <1>2, <2>2, GoesTaking
    <2> QED BY Zenon, <1>2, <2>1, <2>2
  <1>4. Nodes'
    BY Zenon, <1>0, <1>2 DEF Nodes, IsNode, Pointer
  <1>5. TypeOK'
    BY Zenon, <1>0, <1>2, <1>3, <1>4, TypesKept, Types
  <1>6. OnlyThread(t) /\ th'[t].pc \notin {"idle", "push", "complete"} /\ Holds(t)'
    BY Zenon, <1>2, <1>3 DEF OnlyThread, Holds
  <1>7. Plain(t)
    <2>1. First(t)' = None /\ First(t) = None
      BY Zenon, <1>0, <1>3 DEF First
    <2> QED BY Zenon, <1>0, <1>2, <1>6, <2>1 DEF Plain
  <1>8. Mild(t) /\ ListRight(t)' /\ ThreadRight(t)'
    BY Zenon, <1>0, <1>1, <1>2, <1>6, <1>7, PlainOwn
  <1>9. HolderRight(t)'
    <2>1. ~Listed(t)'
      BY Zenon, <1>0, <1>1, <1>7, NotWaiting, PlainLists
    <2> QED BY Zenon, <1>3, <2>1 DEF HolderRight, Listed
  <1>10. OneHolder'
    BY Zenon, <1>0, <1>2, <1>6, SameHolder
  <1>11. StackInv'
    BY Zenon, <1>5, <1>8, <1>9, <1>10, MildStep
  <1>12. Serves
    BY Zenon, <1>0, <1>2, <1>3, <1>8, MildUnseen
  <1> QED BY Zenon, <1>11, <1>12

\* A step of the holder leaves the lock with it, and the others have no part in it.
LEMMA HolderStays ==
  ASSUME Sizes, StackInv, NEW c \in Threads, Holds(c), Holds(c)', OnlyThread(c), lock' = lock
  PROVE  /\ OneHolder'
         /\ \A u \in Threads : u # c => HolderRight(u)' /\ First(u)' = None /\ ~Holds(u)
  <1>1. OneHolder'
    BY Zenon, SameHolder
  <1>2. ASSUME NEW u \in Threads, u # c
        PROVE  HolderRight(u)' /\ First(u)' = None /\ ~Holds(u)
    <2>1. /\ ~Holds(u) /\ th[u].pc \notin {"take", "load", "store", "complete", "unlock"}
          /\ First(u) = None /\ th'[u] = th[u]
      BY Zenon, <1>2, OnlyHolder DEF OnlyThread
    <2>2. ~Holds(u)' /\ First(u)' = None
      BY Zenon, <2>1 DEF Holds, First
    <2> QED BY Zenon, <2>1, <2>2 DEF HolderRight
  <1> QED BY Zenon, <1>1, <1>2

\* Thread u stays where it is, as far as its own part of the invariant goes.
SamePlace(u) ==
  /\ (th'[u].pc = "idle" <=> th[u].pc = "idle") /\ (th'[u].pc = "push" <=> th[u].pc = "push")
  /\ (th'[u].pc \in {"unlock", "return"} <=> th[u].pc \in {"unlock", "return"})
  /\ (Holds(u)' <=> Holds(u)) /\ (~Holds(u) => th'[u].counter = th[u].counter)

LEMMA HolderSame ==
  ASSUME Sizes, StackInv, NEW c \in Threads, OnlyThread(c),
         th[c].pc \in {"take", "store", "complete"}, th'[c].pc \in {"take", "load", "complete"}
  PROVE  \A u \in Threads : SamePlace(u)
  <1>1. ASSUME NEW u \in Threads, u # c PROVE SamePlace(u)
    <2>1. th'[u] = th[u]
      BY Zenon, <1>1 DEF OnlyThread
    <2> QED BY Zenon, <2>1 DEF SamePlace, Holds
  <1>2. SamePlace(c)
    BY Zenon DEF SamePlace, Holds
  <1> QED BY Zenon, <1>1, <1>2

\* It is executed if it was, when the node's mark is the same or stands for the place.
LEMMA SameExecuted ==
  ASSUME NEW u \in Threads, SamePlace(u), pool'[u].completed = pool[u].completed,
         \A d \in Threads : Finishes(d, u)' <=> Finishes(d, u)
  PROVE  Executed(u)' <=> Executed(u)
  BY Zenon DEF SamePlace, Executed, Finishes

LEMMA SamePlaces ==
  ASSUME op' = op, ret' = ret, mem' = mem,
         \A u \in Threads : SamePlace(u) /\ (Executed(u)' <=> Executed(u)),
         \A u \in Threads : pool'[u].arg_ret = pool[u].arg_ret
  PROVE  Serves
  <1>1. ASSUME NEW u \in Threads
        PROVE  /\ (th'[u].pc = "idle" <=> th[u].pc = "idle") /\ (Executed(u)' <=> Executed(u))
               /\ pool'[u].arg_ret = pool[u].arg_ret
    BY Zenon DEF SamePlace
  <1> QED BY Zenon, <1>1, Unseen

\* SWAP takes all of the stack, and the holder's own node with it.
LEMMA TakeAll ==
  ASSUME Sizes, StackInv, NEW c \in Threads, Take(c), tail # None, th[c].counter < OYAMA_HELP_BOUND
  PROVE  StackInv' /\ Serves
  <1>0. TypeOK /\ Nodes /\ Locals /\ th[c].pc = "take" /\ Holds(c)
    BY Zenon, Parts DEF StackInv, Take, Holds
  <1>1. PICK a \in Threads : a = tail
    BY Zenon, <1>0 DEF TypeOK, Pointer
  <1>2. /\ th' = [th EXCEPT ![c].p = a, ![c].pc = "load"]
        /\ tail' = None /\ lock' = lock /\ pool' = pool /\ op' = op /\ ret' = ret /\ mem' = mem
        /\ "load" \in Labels /\ a \in Pointer /\ None \in Pointer
    BY Zenon, <1>1 DEF Take, Caller, Labels, Pointer
  <1>3. /\ Locals' /\ (\A u \in Threads : u # c => th'[u] = th[u]) /\ th'[c].pc = "load"
        /\ th'[c].p = a
    BY ZenonT(60), <1>0, <1>2, GoesTaking
  <1>4. Nodes'
    BY Zenon, <1>0, <1>2 DEF Nodes, IsNode, Pointer
  <1>5. TypeOK'
    BY Zenon, <1>0, <1>2, <1>3, <1>4, TypesKept, Types
  <1>6. OnlyThread(c) /\ Holds(c)' /\ First(c)' = a /\ First(c) = None
    BY Zenon, <1>0, <1>2, <1>3 DEF OnlyThread, Holds, First
  <1>7. /\ OneHolder'
        /\ \A u \in Threads : u # c => HolderRight(u)' /\ First(u)' = None /\ ~Holds(u)
    BY Zenon, <1>0, <1>2, <1>6, HolderStays
  <1>8. \A b \in Pointer, d \in Pointer : Reach(b, d)' <=> Reach(b, d)
    BY Zenon, <1>2, SameWays
  <1>9. ASSUME NEW u \in Threads
        PROVE  /\ ~Stacked(u)' /\ (Taken(c, u)' <=> Stacked(u)) /\ (Loop(u)' <=> Loop(u))
               /\ \A d \in Threads : ~Taken(d, u) /\ (d # c => ~Taken(d, u)')
    <2>1. ~Reach(None, u)' /\ u \in Pointer
      BY Zenon, <1>0, <1>8, ReachOn, Types
    <2>2. ~Stacked(u)'
      BY Zenon, <1>2, <2>1 DEF Stacked, Reach
    <2>3. Taken(c, u)' <=> Stacked(u)
      <3>1. Taken(c, u)' <=> Reach(a, u)'
        BY Zenon, <1>6 DEF Taken, Reach
      <3> QED BY Zenon, <1>1, <1>2, <1>8, <2>1, <3>1 DEF Stacked
    <2>4. Loop(u)' <=> Loop(u)
      <3>1. PICK b \in Pointer : b = pool[u].next
        BY Zenon, <1>0, Types
      <3>2. Loop(u)' <=> Reach(b, u)'
        BY Zenon, <1>2, <3>1 DEF Loop, Reach
      <3> QED BY Zenon, <1>8, <2>1, <3>1, <3>2 DEF Loop
    <2>5. ASSUME NEW d \in Threads PROVE ~Taken(d, u) /\ (d # c => ~Taken(d, u)')
      <3>1. ~Taken(d, u)
        BY Zenon, <1>0, <1>6, OnlyHolder, ReachOn DEF Taken
      <3>2. d # c => (Taken(d, u)' <=> Reach(None, u)')
        BY Zenon, <1>7 DEF Taken, Reach
      <3> QED BY Zenon, <2>1, <3>1, <3>2
    <2> QED BY Zenon, <2>2, <2>3, <2>4, <2>5
  <1>10. \A u \in Threads : Listed(u)' <=> Listed(u)
    BY Zenon, <1>9 DEF Listed
  <1>11. \A u \in Threads : SamePlace(u)
    BY Zenon, <1>0, <1>3, <1>6, HolderSame
  <1>12. ASSUME NEW u \in Threads
         PROVE  (\A d \in Threads : Finishes(d, u)' <=> Finishes(d, u)) /\ (Executed(u)' <=> Executed(u))
    <2>1. \A d \in Threads : Finishes(d, u)' <=> Finishes(d, u)
      BY Zenon, <1>0, <1>3 DEF Finishes
    <2> QED BY Zenon, <1>2, <1>11, <2>1, SameExecuted
  <1>13. ASSUME NEW u \in Threads PROVE ListRight(u)' /\ ThreadRight(u)'
    <2>1. ListRight(u) /\ ThreadRight(u) /\ op'[u] = op[u] /\ pool'[u] = pool[u] /\ SamePlace(u)
      BY Zenon, <1>2, <1>11 DEF StackInv
    <2>2. ~Stacked(u)' /\ (Loop(u)' <=> Loop(u)) /\ (Listed(u)' <=> Listed(u))
      BY Zenon, <1>9, <1>10
    <2>3. ListRight(u)'
      BY Zenon, <2>1, <2>2 DEF ListRight, SamePlace
    <2>4. /\ \A d \in Threads : Finishes(d, u)' <=> Finishes(d, u)
          /\ Executed(u)' <=> Executed(u)
      BY Zenon, <1>12
    <2>5. ThreadRight(u)'
      BY Zenon, <2>1, <2>2, <2>4 DEF ThreadRight, Ops, SamePlace
    <2> QED BY Zenon, <2>3, <2>5
  <1>14. HolderRight(c)'
    BY Zenon, <1>3, <1>9 DEF HolderRight
  <1>15. StackInv'
    BY Zenon, <1>5, <1>7, <1>13, <1>14 DEF StackInv
  <1>16. Serves
    BY Zenon, <1>2, <1>11, <1>12, SamePlaces
  <1> QED BY Zenon, <1>15, <1>16

\* The node is marked; the holder already knows what comes behind it.
LEMMA CompleteStep ==
  ASSUME Sizes, StackInv, NEW c \in Threads, Complete(c)
  PROVE  StackInv' /\ Serves
  <1>0. TypeOK /\ Nodes /\ Locals /\ HolderRight(c) /\ th[c].pc = "complete" /\ Holds(c)
    BY Zenon, Parts DEF StackInv, Complete, Holds
  <1>1. PICK x \in Threads : x = th[c].p
    BY Zenon, <1>0 DEF HolderRight
  <1>a. PICK a \in Pointer : a = th[c].tmp_next
    BY Zenon, <1>0, Types
  <1>y. PICK y \in {"take", "load"} : y = (IF a = None THEN "take" ELSE "load")
    BY Zenon
  <1>2. /\ th' = [th EXCEPT ![c].p = a, ![c].tmp_next = None, ![c].pc = y]
        /\ pool' = [pool EXCEPT ![x].completed = TRUE] /\ y \in Labels
        /\ tail' = tail /\ lock' = lock /\ op' = op /\ ret' = ret /\ mem' = mem
    BY Zenon, <1>1, <1>a, <1>y DEF Complete, Caller, Labels
  <1>3. /\ Locals' /\ (\A u \in Threads : u # c => th'[u] = th[u]) /\ th'[c].pc = y
        /\ th'[c].p = a /\ th'[c].counter = th[c].counter
    BY Zenon, <1>0, <1>2, GoesOn
  <1>4. /\ Nodes' /\ OnlyNode(x) /\ pool'[x].next = pool[x].next
        /\ pool'[x].arg_ret = pool[x].arg_ret /\ pool'[x].completed
    BY Zenon, <1>0, <1>2, CompletedWritten
  <1>5. TypeOK'
    BY Zenon, <1>0, <1>2, <1>3, <1>4, TypesKept, Types
  <1>6. OnlyThread(c) /\ Holds(c)' /\ First(c)' = a /\ First(c) = a
    BY Zenon, <1>0, <1>2, <1>3, <1>a, <1>y DEF OnlyThread, Holds, First
  <1>7. /\ OneHolder'
        /\ \A u \in Threads : u # c => HolderRight(u)' /\ First(u)' = None /\ ~Holds(u)
    BY Zenon, <1>0, <1>2, <1>6, HolderStays
  <1>8. \A u \in Threads : /\ pool'[u].next = pool[u].next /\ pool'[u].arg_ret = pool[u].arg_ret
                            /\ (u # x => pool'[u] = pool[u])
    BY Zenon, <1>4 DEF OnlyNode
  <1>9. \A u \in Threads : SameFor(u) /\ (Listed(u)' <=> Listed(u))
    <2>1. \A u \in Threads : First(u)' = First(u)
      BY Zenon, <1>0, <1>6, <1>7, OnlyHolder
    <2>2. \A r \in Threads : pool'[r].next = pool[r].next
      BY Zenon, <1>8
    <2>3. \A u \in Threads : SameFor(u)
      BY Zenon, <1>0, <1>2, <2>1, <2>2, SameLists
    <2> QED BY Zenon, <2>3, SameListed
  <1>10. \A u \in Threads : SamePlace(u)
    BY Zenon, <1>0, <1>3, <1>6, <1>y, HolderSame
  <1>11. th[x].pc \notin {"idle", "push"} /\ ~Listed(x)
    BY Zenon, <1>0, <1>1 DEF HolderRight
  <1>12. \A u, d \in Threads : ~Finishes(d, u)' /\ (Finishes(d, u) => u = x)
    <2>1. \A d \in Threads : th'[d].pc # "complete"
      BY Zenon, <1>0, <1>3, <1>y, OnlyHolder
    <2>2. \A d \in Threads : d # c => th[d].pc # "complete"
      BY Zenon, <1>0, OnlyHolder
    <2> QED BY Zenon, <1>1, <2>1, <2>2 DEF Finishes
  <1>13. ASSUME NEW u \in Threads PROVE Executed(u)' <=> Executed(u)
    <2>1. CASE u = x
      <3>1. Finishes(c, x) /\ th[x].pc # "idle"
        BY Zenon, <1>0, <1>1, <1>11 DEF Finishes
      <3>2. Executed(x)
        BY Zenon, <3>1 DEF Executed, Finishes
      <3>3. th'[x].pc # "idle"
        BY Zenon, <1>10, <3>1 DEF SamePlace
      <3>4. Executed(x)'
        BY Zenon, <1>4, <3>3 DEF Executed
      <3> QED BY Zenon, <2>1, <3>2, <3>4
    <2>2. CASE u # x
      <3>1. pool'[u] = pool[u] /\ \A d \in Threads : Finishes(d, u)' <=> Finishes(d, u)
        BY Zenon, <1>8, <1>12, <2>2
      <3> QED BY Zenon, <1>10, <3>1, SameExecuted
    <2> QED BY Zenon, <2>1, <2>2
  <1>14. ASSUME NEW u \in Threads PROVE ListRight(u)' /\ ThreadRight(u)'
    <2>0. ListRight(u) /\ ThreadRight(u) /\ SamePlace(u)
      BY Zenon, <1>10 DEF StackInv
    <2>1. /\ op'[u] = op[u] /\ pool'[u].arg_ret = pool[u].arg_ret /\ SameFor(u)
          /\ (Listed(u)' <=> Listed(u)) /\ (Executed(u)' <=> Executed(u))
      BY Zenon, <1>2, <1>8, <1>9, <1>13
    <2>2. CASE u = x
      <3>1. ~Listed(u)' /\ pool'[u].completed
        BY Zenon, <1>4, <1>11, <2>1, <2>2
      <3>2. th'[u].pc \notin {"idle", "push"}
        BY Zenon, <1>11, <2>0, <2>2 DEF SamePlace
      <3>3. ListRight(u)'
        BY Zenon, <3>1 DEF ListRight, Listed
      <3> QED BY Zenon, <2>0, <2>1, <3>1, <3>2, <3>3 DEF ThreadRight, Ops, SamePlace
    <2>3. CASE u # x
      <3>1. pool'[u] = pool[u]
        BY Zenon, <1>8, <2>3
      <3>2. ListRight(u)'
        BY Zenon, <2>0, <2>1, <3>1 DEF ListRight, SameFor, SamePlace
      <3>3. \A d \in Threads : ~Finishes(d, u)
        BY Zenon, <1>12, <2>3
      <3> QED BY Zenon, <2>0, <2>1, <3>1, <3>2, <3>3 DEF ThreadRight, Ops, SamePlace
    <2> QED BY Zenon, <2>2, <2>3
  <1>15. HolderRight(c)'
    <2>1. ~Stacked(c)'
      BY Zenon, <1>0, <1>9 DEF HolderRight, SameFor
    <2>2. y = "load" => a \in Threads
      BY Zenon, <1>y DEF Pointer
    <2> QED BY Zenon, <1>3, <1>y, <2>1, <2>2 DEF HolderRight
  <1>16. StackInv'
    BY Zenon, <1>5, <1>7, <1>14, <1>15 DEF StackInv
  <1>17. Serves
    <2>1. \A u \in Threads : pool'[u].arg_ret = pool[u].arg_ret
      BY Zenon, <1>8
    <2> QED BY Zenon, <1>2, <1>10, <1>13, <2>1, SamePlaces
  <1> QED BY Zenon, <1>16, <1>17

\* The operation of the first node is executed: its node leaves the list.
LEMMA StoreStep ==
  ASSUME Sizes, StackInv, NEW c \in Threads, Store(c)
  PROVE  StackInv' /\ Serves
  <1> DEFINE r == Apply(pool[th[c].p].arg_ret, th[c].seen)
  <1>0. TypeOK /\ Nodes /\ Locals /\ HolderRight(c) /\ th[c].pc = "store" /\ Holds(c)
    BY Zenon, Parts DEF StackInv, Store, Holds
  <1>1. PICK x \in Threads : x = th[c].p
    BY Zenon, <1>0 DEF HolderRight
  <1>a. PICK a \in Pointer : a = th[c].tmp_next /\ a = pool[x].next
    BY Zenon, <1>0, <1>1, Types DEF HolderRight
  <1>2. /\ th' = [th EXCEPT ![c].pc = "complete", ![c].seen = InitVal]
        /\ pool' = [pool EXCEPT ![x].arg_ret = r.ret] /\ mem' = [mem EXCEPT ![op[x].var] = r.val]
        /\ tail' = tail /\ lock' = lock /\ op' = op /\ ret' = ret
    BY Zenon, <1>1 DEF Store, Caller
  <1> HIDE DEF r
  <1>3. /\ Locals' /\ (\A u \in Threads : u # c => th'[u] = th[u]) /\ th'[c].pc = "complete"
        /\ th'[c].p = x /\ th'[c].tmp_next = a /\ th'[c].counter = th[c].counter
    BY Zenon, <1>0, <1>1, <1>a, <1>2, GoesStoring
  <1>4. /\ Nodes' /\ OnlyNode(x) /\ pool'[x].next = pool[x].next
        /\ pool'[x].arg_ret = r.ret /\ pool'[x].completed = pool[x].completed
    BY Zenon, <1>0, <1>2, ResultWritten
  <1>5. TypeOK'
    BY Zenon, <1>0, <1>2, <1>3, <1>4, TypesKept, Types
  <1>6. OnlyThread(c) /\ Holds(c)' /\ First(c)' = a /\ First(c) = x
    BY Zenon, <1>0, <1>1, <1>2, <1>3 DEF OnlyThread, Holds, First
  <1>7. /\ OneHolder'
        /\ \A u \in Threads : u # c => HolderRight(u)' /\ First(u)' = None /\ ~Holds(u)
    BY Zenon, <1>0, <1>2, <1>6, HolderStays
  <1>8. \A u \in Threads : /\ pool'[u].next = pool[u].next /\ pool'[u].completed = pool[u].completed
                            /\ (u # x => pool'[u] = pool[u])
    BY Zenon, <1>4 DEF OnlyNode
  <1>9. \A b \in Pointer, d \in Pointer : Reach(b, d)' <=> Reach(b, d)
    BY Zenon, <1>8, SameWays
  <1>10. /\ Taken(c, x) /\ Listed(x) /\ ~Stacked(x) /\ ~Loop(x) /\ ~pool[x].completed
         /\ th[x].pc \notin {"idle", "push"}
    <2>1. Taken(c, x)
      BY Zenon, <1>0, <1>6, ReachOn, Types DEF Taken
    <2>2. Listed(x) /\ ListRight(x)
      BY Zenon, <2>1 DEF Listed, StackInv
    <2> QED BY Zenon, <2>1, <2>2 DEF ListRight
  <1>11. ASSUME NEW u \in Threads
         PROVE  /\ (Stacked(u)' <=> Stacked(u)) /\ (Loop(u)' <=> Loop(u))
                /\ (Taken(c, u)' <=> Taken(c, u) /\ u # x)
                /\ \A d \in Threads : d # c => ~Taken(d, u) /\ ~Taken(d, u)'
    <2>1. u \in Pointer /\ None \in Pointer
      BY Zenon, <1>0, Types
    <2>2. Stacked(u)' <=> Stacked(u)
      <3>1. PICK b \in Pointer : b = tail
        BY Zenon, <1>0, Types
      <3>2. Stacked(u)' <=> Reach(b, u)'
        BY Zenon, <1>2, <3>1 DEF Stacked, Reach
      <3> QED BY Zenon, <1>9, <2>1, <3>1, <3>2 DEF Stacked
    <2>3. Loop(u)' <=> Loop(u)
      <3>1. PICK b \in Pointer : b = pool[u].next /\ b = pool'[u].next
        BY Zenon, <1>0, <1>8, Types
      <3>2. Loop(u)' <=> Reach(b, u)'
        BY Zenon, <3>1 DEF Loop, Reach
      <3> QED BY Zenon, <1>9, <2>1, <3>1, <3>2 DEF Loop
    <2>4. Taken(c, u)' <=> Taken(c, u) /\ u # x
      <3>1. Taken(c, u)' <=> Reach(a, u)'
        BY Zenon, <1>6 DEF Taken, Reach
      <3>2. Taken(c, u)' <=> Reach(a, u)
        BY Zenon, <1>9, <2>1, <3>1
      <3>3. Taken(c, u) <=> Reach(x, u)
        BY Zenon, <1>6 DEF Taken
      <3>4. ~Reach(a, x)
        BY Zenon, <1>10, <1>a DEF Loop
      <3>5. Reach(a, u) => Reach(x, u)
        BY Zenon, <1>0, <1>a, <2>1, ReachOn
      <3>6. Reach(x, u) /\ u # x => Reach(a, u)
        BY Zenon, <1>0, <1>a, ReachOn
      <3> QED BY Zenon, <3>2, <3>3, <3>4, <3>5, <3>6
    <2>5. ASSUME NEW d \in Threads, d # c PROVE ~Taken(d, u) /\ ~Taken(d, u)'
      <3>1. ~Taken(d, u)
        BY Zenon, <1>0, <2>5, OnlyHolder
      <3>2. Taken(d, u)' <=> Reach(None, u)'
        BY Zenon, <1>7, <2>5 DEF Taken, Reach
      <3>3. ~Reach(None, u)'
        BY Zenon, <1>0, <1>9, <2>1, ReachOn
      <3> QED BY Zenon, <3>1, <3>2, <3>3
    <2> QED BY Zenon, <2>2, <2>3, <2>4, <2>5
  <1>12. ASSUME NEW u \in Threads, u # x PROVE SameFor(u) /\ (Listed(u)' <=> Listed(u))
    <2>1. \A d \in Threads : Taken(d, u)' <=> Taken(d, u)
      BY Zenon, <1>11, <1>12
    <2>2. SameFor(u)
      BY Zenon, <1>11, <2>1 DEF SameFor
    <2> QED BY Zenon, <2>2, SameListed
  <1>13. ~Listed(x)' /\ \A d \in Threads : ~Taken(d, x)'
    <2>1. \A d \in Threads : ~Taken(d, x)'
      BY Zenon, <1>11
    <2> QED BY Zenon, <1>10, <1>11, <2>1 DEF Listed
  <1>14. \A u \in Threads : SamePlace(u)
    BY Zenon, <1>0, <1>3, <1>6, HolderSame
  <1>15. \A u, d \in Threads : ~Finishes(d, u) /\ (Finishes(d, u)' <=> d = c /\ u = x)
    <2>1. \A d \in Threads : th[d].pc # "complete"
      BY Zenon, <1>0, OnlyHolder
    <2>2. \A d \in Threads : d # c => th'[d].pc # "complete"
      BY Zenon, <1>3, <2>1
    <2> QED BY Zenon, <1>3, <2>1, <2>2 DEF Finishes
  <1>16. ~Executed(x) /\ Executed(x)'
    <2>1. th'[x].pc # "idle"
      BY Zenon, <1>10, <1>14 DEF SamePlace
    <2>2. Finishes(c, x)'
      BY Zenon, <1>15
    <2>3. Executed(x)'
      BY Zenon, <2>1, <2>2 DEF Executed, Finishes
    <2>4. \A d \in Threads : ~Finishes(d, x)
      BY Zenon, <1>15
    <2>5. ~Executed(x)
      BY Zenon, <1>10, <2>4 DEF Executed, Finishes
    <2> QED BY Zenon, <2>3, <2>5
  <1>17. ASSUME NEW u \in Threads, u # x PROVE Executed(u)' <=> Executed(u)
    <2>1. pool'[u] = pool[u] /\ \A d \in Threads : Finishes(d, u)' <=> Finishes(d, u)
      BY Zenon, <1>8, <1>15, <1>17
    <2> QED BY Zenon, <1>14, <2>1, SameExecuted
  <1>18. ASSUME NEW u \in Threads PROVE ListRight(u)' /\ ThreadRight(u)'
    <2>0. ListRight(u) /\ ThreadRight(u) /\ SamePlace(u) /\ op'[u] = op[u]
      BY Zenon, <1>2, <1>14 DEF StackInv
    <2>1. CASE u = x
      <3>1. ~Listed(u)' /\ (\A d \in Threads : ~Taken(d, u)') /\ Finishes(c, u)' /\ Executed(u)'
        BY Zenon, <1>13, <1>15, <1>16, <2>1
      <3>2. ListRight(u)'
        BY Zenon, <3>1 DEF ListRight
      <3>3. pool'[u].completed = pool[u].completed
        BY Zenon, <1>8
      <3> QED BY Zenon, <2>0, <3>1, <3>2, <3>3 DEF ThreadRight, Ops, SamePlace
    <2>2. CASE u # x
      <3>1. /\ pool'[u] = pool[u] /\ SameFor(u) /\ (Listed(u)' <=> Listed(u))
            /\ (Executed(u)' <=> Executed(u)) /\ \A d \in Threads : ~Finishes(d, u)
        BY Zenon, <1>8, <1>12, <1>15, <1>17, <2>2
      <3>2. ListRight(u)'
        BY Zenon, <2>0, <3>1 DEF ListRight, SameFor, SamePlace
      <3> QED BY Zenon, <2>0, <3>1, <3>2 DEF ThreadRight, Ops, SamePlace
    <2> QED BY Zenon, <2>1, <2>2
  <1>19. HolderRight(c)'
    <2>1. ~Stacked(c)' /\ th'[c].counter # 0
      BY Zenon, <1>0, <1>3, <1>11 DEF HolderRight
    <2>2. th'[x].pc \notin {"idle", "push"} /\ ~pool'[x].completed
      BY Zenon, <1>4, <1>10, <1>14 DEF SamePlace
    <2>3. Listed(th[c].p)' <=> Listed(x)'
      BY Zenon, <1>3 DEF Listed, Stacked, Taken, Reach
    <2> QED BY Zenon, <1>3, <1>13, <2>1, <2>2, <2>3 DEF HolderRight
  <1>20. StackInv'
    BY Zenon, <1>5, <1>7, <1>18, <1>19 DEF StackInv
  <1>21. pool[x].arg_ret = op[x].fn /\ th[c].seen = mem[op[x].var]
    <2>1. ThreadRight(x)
      BY Zenon DEF StackInv
    <2> QED BY Zenon, <1>0, <1>1, <1>10, <1>16, <2>1 DEF ThreadRight, HolderRight
  <1>22. r = Apply(op[x].fn, mem[op[x].var])
    BY Zenon, <1>1, <1>21 DEF r
  <1>23. St(x) = "pending" /\ St(x)' = "done" /\ Res(x)' = r.ret
    <2>1. th'[x].pc # "idle"
      BY Zenon, <1>10, <1>14 DEF SamePlace
    <2> QED BY Zenon, <1>4, <1>10, <1>16, <2>1 DEF St, Res
  <1>24. ASSUME NEW u \in Threads, u # x PROVE Same(u)
    <2>1. pool'[u] = pool[u] /\ (Executed(u)' <=> Executed(u)) /\ (th'[u].pc = "idle" <=> th[u].pc = "idle")
      BY Zenon, <1>8, <1>14, <1>17, <1>24 DEF SamePlace
    <2> QED BY Zenon, <2>1 DEF Same, St, Res
  <1>25. [u \in Threads |-> St(u)]' = [[u \in Threads |-> St(u)] EXCEPT ![x] = "done"]
    BY Zenon, <1>23, <1>24 DEF Same
  <1>26. [u \in Threads |-> Res(u)]' = [[u \in Threads |-> Res(u)] EXCEPT ![x] = r.ret]
    BY Zenon, <1>23, <1>24 DEF Same
  <1>27. [u \in Threads |-> St(u)][x] = "pending"
    BY Zenon, <1>23
  <1>28. Abstract!Execute(x)
    BY Zenon, <1>2, <1>22, <1>25, <1>26, <1>27 DEF Abstract!Execute, St, Res
  <1>29. Serves
    BY Zenon, <1>28 DEF Serves, Abstract!Next
  <1> QED BY Zenon, <1>20, <1>29

-----------------------------------------------------------------------------
LEMMA InitInv ==
  ASSUME Sizes, Init PROVE StackInv
  <1>1. \A t \in Threads : /\ pool[t] = [next |-> None, arg_ret |-> None, completed |-> FALSE]
                            /\ th[t] = Fresh
    BY Zenon DEF Init
  <1>2. PICK n : n = [next |-> None, arg_ret |-> None, completed |-> FALSE]
    BY Zenon
  <1>3. PICK l : l = Fresh
    BY Zenon
  <1>4. DOMAIN n = {"next", "arg_ret", "completed"} /\ n.next = None /\ n.completed = FALSE
    BY SMT, <1>2
  <1>5. /\ DOMAIN l = {"pc", "p", "tmp_next", "seen", "counter"} /\ l.pc = "idle" /\ l.p = None
        /\ l.tmp_next = None /\ l.counter = 0 /\ l.counter \in Nat
    BY SMT, <1>3 DEF Fresh
  <1>6. IsNode(n) /\ IsLocals(l)
    BY Zenon, <1>4, <1>5 DEF IsNode, IsLocals, Pointer, Labels
  <1>7. TypeOK
    <2>1. \A t \in Threads : IsNode(pool[t]) /\ IsLocals(th[t])
      BY Zenon, <1>1, <1>2, <1>3, <1>6
    <2> QED BY Zenon, <2>1 DEF Init, TypeOK, Pointer
  <1>8. \A t \in Threads : /\ th[t].pc = "idle" /\ th[t].counter = 0 /\ ~Holds(t) /\ First(t) = None
    <2>1. \A t \in Threads : th[t].pc = "idle" /\ th[t].counter = 0
      BY Zenon, <1>1, <1>3, <1>5
    <2> QED BY Zenon, <2>1 DEF Holds, First
  <1>9. \A t \in Threads : ~Stacked(t) /\ ~Listed(t) /\ \A c \in Threads : ~Taken(c, t)
    <2>1. \A t, c \in Threads : ~Stacked(t) /\ ~Taken(c, t)
      BY ZenonT(60), <1>7, <1>8, ReachOn DEF Init, Stacked, Taken
    <2> QED BY Zenon, <2>1 DEF Listed
  <1>10. ASSUME NEW t \in Threads PROVE ListRight(t) /\ ThreadRight(t) /\ HolderRight(t)
    BY Zenon, <1>8, <1>9 DEF ListRight, ThreadRight, HolderRight
  <1> QED BY Zenon, <1>7, <1>8, <1>10 DEF StackInv, OneHolder

LEMMA InitServes ==
  ASSUME Sizes, Init PROVE Abstract!Init
  <1>1. \A t \in Threads : th[t].pc = "idle"
    <2>1. Fresh.pc = "idle"
      BY SMT DEF Fresh
    <2> QED BY Zenon, <2>1 DEF Init
  <1>2. \A t \in Threads : St(t) = "idle" /\ Res(t) = None
    BY Zenon, <1>1 DEF St, Res, Executed
  <1>3. /\ [t \in Threads |-> St(t)] = [t \in Threads |-> "idle"]
        /\ [t \in Threads |-> Res(t)] = [t \in Threads |-> None]
    BY Zenon, <1>2
  <1> QED BY Zenon, <1>3 DEF Init, Abstract!Init, St, Res

\* A step that changes nothing.
LEMMA SameInv ==
  ASSUME Sizes, StackInv, UNCHANGED vars
  PROVE  StackInv' /\ Serves
  <1>0. TypeOK /\ Nodes /\ Locals
    BY Zenon, Parts DEF StackInv
  <1>1. /\ th' = th /\ pool' = pool /\ tail' = tail /\ lock' = lock /\ op' = op /\ ret' = ret
        /\ mem' = mem
    BY Zenon DEF vars
  <1>2. Nodes' /\ Locals'
    BY Zenon, <1>0, <1>1 DEF Nodes, Locals, IsNode, IsLocals, Pointer, Labels
  <1>3. TypeOK'
    BY Zenon, <1>0, <1>1, <1>2, TypesKept, Types
  <1>4. \A u \in Threads : First(u)' = First(u)
    BY Zenon, <1>1 DEF First
  <1>5. \A u \in Threads : SameFor(u)
    BY Zenon, <1>0, <1>1, <1>4, SameLists
  <1>6. OneHolder'
    <2>1. \A u \in Threads : Holds(u)' <=> Holds(u)
      BY Zenon, <1>1 DEF Holds
    <2> QED BY Zenon, <1>1, <2>1 DEF StackInv, OneHolder
  <1>7. \A u, d \in Threads : Finishes(d, u)' <=> Finishes(d, u)
    BY Zenon, <1>1 DEF Finishes
  <1>8. ASSUME NEW u \in Threads PROVE ListRight(u)' /\ ThreadRight(u)' /\ HolderRight(u)'
    <2>1. ListRight(u) /\ ThreadRight(u) /\ HolderRight(u) /\ SameFor(u) /\ (Listed(u)' <=> Listed(u))
      BY Zenon, <1>5, SameListed DEF StackInv
    <2>2. ListRight(u)'
      BY Zenon, <1>1, <2>1 DEF ListRight, SameFor
    <2>3. (Executed(u)' <=> Executed(u)) /\ (Holds(u)' <=> Holds(u))
      BY Zenon, <1>1 DEF Executed, Holds
    <2>4. ThreadRight(u)'
      BY Zenon, <1>1, <1>7, <2>1, <2>3 DEF ThreadRight, Ops
    <2>5. HolderRight(u)'
      <3>1. CASE th[u].pc = "complete"
        <4>1. PICK x \in Threads : x = th[u].p
          BY Zenon, <2>1, <3>1 DEF HolderRight
        <4>2. Listed(th[u].p)' <=> Listed(x)'
          BY Zenon, <1>1, <4>1 DEF Listed, Stacked, Taken, Reach
        <4>3. Listed(x)' <=> Listed(x)
          BY Zenon, <1>5, SameListed
        <4> QED BY Zenon, <1>1, <2>1, <2>3, <3>1, <4>1, <4>2, <4>3 DEF HolderRight, SameFor
      <3>2. CASE th[u].pc # "complete"
        BY Zenon, <1>1, <2>1, <2>3, <3>2 DEF HolderRight, SameFor
      <3> QED BY Zenon, <3>1, <3>2
    <2> QED BY Zenon, <2>2, <2>4, <2>5
  <1>9. StackInv'
    BY Zenon, <1>3, <1>6, <1>8 DEF StackInv
  <1>10. Serves
    BY Zenon, <1>1, Unseen DEF Executed
  <1> QED BY Zenon, <1>9, <1>10

LEMMA NextStep ==
  ASSUME Sizes, StackInv, Next PROVE StackInv' /\ Serves
  <1>1. ASSUME NEW t \in Threads, Step(t) PROVE StackInv' /\ Serves
    <2>1. CASE Push(t)
      BY Zenon, <2>1, PushFails, PushSucceeds
    <2>2. CASE Lock(t)
      BY Zenon, <2>2, LockStep
    <2>3. CASE Spin(t)
      BY Zenon, <2>3, SpinStep
    <2>4. CASE Take(t)
      BY Zenon, <2>4, TakeNothing, TakeAll
    <2>5. CASE Load(t)
      BY Zenon, <2>5, LoadStep
    <2>6. CASE Store(t)
      BY Zenon, <2>6, StoreStep
    <2>7. CASE Complete(t)
      BY Zenon, <2>7, CompleteStep
    <2>8. CASE Unlock(t)
      BY Zenon, <2>8, UnlockStep
    <2>9. CASE Return(t)
      BY Zenon, <2>9, ReturnStep
    <2> QED BY Zenon, <1>1, <2>1, <2>2, <2>3, <2>4, <2>5, <2>6, <2>7, <2>8, <2>9 DEF Step
  <1>2. ASSUME NEW t \in Threads, NEW o \in Ops, Call(t, o) PROVE StackInv' /\ Serves
    BY Zenon, <1>2, CallStep
  <1>3. ASSUME Terminated PROVE StackInv' /\ Serves
    BY Zenon, <1>3, SameInv DEF Terminated
  <1> QED BY Zenon, <1>1, <1>2, <1>3 DEF Next

\* Oyama's lock implements DelegationService: each operation of applyOp takes effect
\* once, when the holder of the lock stores its result, and the holder itself returns
\* with its own operation done, although it only looks at what it took from the stack.
THEOREM OyamaLinearizable ==
  ASSUME Sizes
  PROVE  Spec => []StackInv /\ Linearizable
  <1>1. Init => StackInv /\ Abstract!Init
    BY Zenon, InitInv, InitServes
  <1>2. StackInv /\ [Next]_vars => StackInv' /\ [Abstract!Next]_(Abstract!vars)
    <2>1. StackInv /\ [Next]_vars => StackInv' /\ Serves
      BY Zenon, NextStep, SameInv
    <2> QED BY Zenon, <2>1 DEF Serves
  <1> QED BY <1>1, <1>2, PTL DEF Spec, Linearizable, Abstract!Spec

-----------------------------------------------------------------------------
(***************************************************************************)
(* Flat combining.  The thread with the lock must come to its own record;  *)
(* all other requests may be executed or not.  The names of this part      *)
(* begin with F.                                                           *)
(***************************************************************************)
CONSTANTS CLEANUP_FREQUENCY, CLEANUP_OLD_THRESHOLD, W

VARIABLES pc, count, head, request, then, cur, prev, seen

FC == INSTANCE FlatCombining

\* The successor of a record of the list is in it, or there is none.
LEMMA FListClosed ==
  ASSUME FC!Sizes, FC!TypeOK
  PROVE  /\ FC!Closed(FC!Listed \cup {None}) /\ head \in FC!Listed \cup {None}
         /\ FC!Listed \cup {None} \in SUBSET FC!Pointer
         /\ \A r \in FC!Listed : r \in Threads /\ request[r].next \in FC!Listed \cup {None}
  <1>1. head \in FC!Listed \cup {None}
    BY Zenon DEF FC!TypeOK, FC!Listed, FC!Reach, FC!Pointer
  <1>2. ASSUME NEW r \in FC!Listed
        PROVE  r \in Threads /\ request[r].next \in FC!Listed \cup {None}
    <2>1. r \in Threads /\ FC!Reach(head, r)
      BY Zenon DEF FC!Listed
    <2>2. request[r].next \in FC!Pointer
      BY Zenon, <2>1 DEF FC!TypeOK, FC!IsRecord
    <2>3. FC!Reach(head, request[r].next)
      BY Zenon, <2>1 DEF FC!Reach, FC!Closed
    <2> QED BY Zenon, <2>1, <2>2, <2>3 DEF FC!Listed, FC!Pointer
  <1>3. \A r \in Threads : r \in FC!Listed \cup {None} /\ r # None => request[r].next \in FC!Listed \cup {None}
    BY Zenon, <1>2
  <1> QED BY Zenon, <1>1, <1>2, <1>3 DEF FC!Sizes, FC!Closed, FC!Listed, FC!Pointer

\* A way along the list goes on behind its first record, and there is none from null.
LEMMA FReachOn ==
  ASSUME FC!Sizes, FC!TypeOK
  PROVE  /\ \A a \in FC!Pointer : FC!Reach(a, a)
         /\ \A r, t \in Threads : FC!Reach(r, t) /\ r # t => FC!Reach(request[r].next, t)
         /\ \A t \in Threads : ~FC!Reach(None, t)
  <1>1. \A a \in FC!Pointer : FC!Reach(a, a)
    BY Zenon DEF FC!Reach
  <1>2. ASSUME NEW r \in Threads, NEW t \in Threads, FC!Reach(r, t), r # t,
               NEW S \in SUBSET FC!Pointer, request[r].next \in S, FC!Closed(S)
        PROVE  t \in S
    <2>1. S \cup {r} \in SUBSET FC!Pointer /\ r \in S \cup {r}
      BY Zenon DEF FC!Pointer
    <2>2. FC!Closed(S \cup {r})
      BY Zenon, <1>2 DEF FC!Closed
    <2>3. t \in S \cup {r}
      BY Zenon, <1>2, <2>1, <2>2 DEF FC!Reach
    <2> QED BY Zenon, <1>2, <2>3
  <1>3. ASSUME NEW t \in Threads, FC!Reach(None, t) PROVE FALSE
    <2>1. {None} \in SUBSET FC!Pointer /\ FC!Closed({None})
      BY Zenon DEF FC!Pointer, FC!Closed, FC!Sizes
    <2>2. t \in {None}
      BY Zenon, <1>3, <2>1 DEF FC!Reach
    <2> QED BY Zenon, <2>2 DEF FC!Sizes
  <1> QED BY Zenon, <1>1, <1>2, <1>3 DEF FC!Reach

\* The list is the same while no pointer of it is written.
LEMMA FSameList ==
  ASSUME FC!Sizes, FC!TypeOK, FC!TypeOK', head' = head, \A r \in FC!Listed : request'[r].next = request[r].next
  PROVE  /\ FC!Listed' = FC!Listed
         /\ \A a \in FC!Listed \cup {None}, b \in Threads : FC!Reach(a, b)' <=> FC!Reach(a, b)
  <1>1. PICK L \in SUBSET FC!Pointer : L = FC!Listed \cup {None}
    BY Zenon, FListClosed
  <1>2. /\ FC!Closed(L) /\ head \in L
        /\ \A r \in Threads : r \in L => r \in FC!Listed
    BY Zenon, <1>1, FListClosed DEF FC!Sizes
  <1>3. \A r \in Threads : r \in L => request[r].next \in L /\ request'[r].next = request[r].next
    BY Zenon, <1>2 DEF FC!Closed
  <1>4. ASSUME NEW S \in SUBSET FC!Pointer, FC!Closed(S) PROVE FC!Closed(S \cap L)'
    <2>1. \A r \in Threads : r \in S \cap L => request'[r].next \in S \cap L
      BY Zenon, <1>3, <1>4 DEF FC!Closed
    <2> QED BY Zenon, <2>1 DEF FC!Closed
  <1>5. ASSUME NEW S \in SUBSET FC!Pointer, FC!Closed(S)' PROVE FC!Closed(S \cap L)
    <2>1. \A r \in Threads : r \in S => request'[r].next \in S
      BY Zenon, <1>5 DEF FC!Closed
    <2>2. \A r \in Threads : r \in S \cap L => request[r].next \in S \cap L
      BY Zenon, <1>3, <2>1
    <2> QED BY Zenon, <2>2 DEF FC!Closed
  <1>6. \A S \in SUBSET FC!Pointer : S \cap L \in SUBSET FC!Pointer
    BY Zenon
  <1>7. ASSUME NEW a \in L, NEW b \in Threads, FC!Reach(a, b) PROVE FC!Reach(a, b)'
    <2>1. \A S \in SUBSET FC!Pointer : a \in S /\ FC!Closed(S)' => b \in S
      BY Zenon, <1>5, <1>6, <1>7 DEF FC!Reach
    <2>2. FC!Pointer' = FC!Pointer
      BY Zenon DEF FC!Pointer
    <2> QED BY Zenon, <2>1, <2>2 DEF FC!Reach
  <1>8. ASSUME NEW a \in L, NEW b \in Threads, FC!Reach(a, b)' PROVE FC!Reach(a, b)
    <2>1. \A S \in SUBSET FC!Pointer : a \in S /\ FC!Closed(S)' => b \in S
      BY Zenon, <1>8 DEF FC!Reach, FC!Pointer
    <2> QED BY Zenon, <1>4, <1>6, <2>1 DEF FC!Reach
  <1>9. \A b \in Threads : b \in FC!Listed' <=> b \in FC!Listed
    BY Zenon, <1>2, <1>7, <1>8 DEF FC!Listed
  <1>10. FC!Listed' = FC!Listed
    BY Zenon, <1>9 DEF FC!Listed
  <1> QED BY Zenon, <1>1, <1>7, <1>8, <1>10

\* enqueue_request puts a record in front of the list.
LEMMA FPushedList ==
  ASSUME FC!Sizes, FC!TypeOK, FC!TypeOK', request' = request, NEW t \in Threads, request[t].next = head, head' = t
  PROVE  /\ FC!Listed' = FC!Listed \cup {t}
         /\ \A a \in FC!Pointer, b \in Threads : FC!Reach(a, b)' <=> FC!Reach(a, b)
  <1>1. \A S \in SUBSET FC!Pointer : FC!Closed(S)' <=> FC!Closed(S)
    BY Zenon DEF FC!Closed
  <1>2. \A a \in FC!Pointer, b \in Threads : FC!Reach(a, b)' <=> FC!Reach(a, b)
    BY Zenon, <1>1 DEF FC!Reach, FC!Pointer
  <1>3. ASSUME NEW b \in FC!Listed PROVE b \in FC!Listed'
    <2>1. b \in Threads /\ FC!Reach(head, b)
      BY Zenon DEF FC!Listed
    <2>2. FC!Reach(t, b)
      BY Zenon, <2>1 DEF FC!Reach, FC!Closed
    <2>3. FC!Reach(t, b)'
      BY Zenon, <1>2, <2>1, <2>2 DEF FC!Pointer
    <2> QED BY Zenon, <2>1, <2>3 DEF FC!Listed
  <1>4. t \in FC!Listed'
    <2>1. FC!Reach(t, t)'
      BY Zenon, <1>2, FReachOn DEF FC!Pointer
    <2> QED BY Zenon, <2>1 DEF FC!Listed
  <1>5. ASSUME NEW b \in FC!Listed', b # t PROVE b \in FC!Listed
    <2>1. b \in Threads /\ FC!Reach(t, b)
      BY Zenon, <1>2 DEF FC!Listed, FC!Pointer
    <2> QED BY Zenon, <1>5, <2>1, FReachOn DEF FC!Listed
  <1>6. \A b : b \in FC!Listed' <=> b \in FC!Listed \cup {t}
    BY Zenon, <1>3, <1>4, <1>5
  <1> QED BY Zenon, <1>2, <1>6

\* The clean-up takes a record out of the list, and only this one: no other record
\* points to it.
LEMMA FUnlinkedList ==
  ASSUME FC!Sizes, FC!TypeOK, FC!TypeOK', FC!ListRight, head' = head, NEW p \in FC!Listed, NEW r \in Threads,
         request[p].next = r, request'[p].next = request[r].next,
         \A s \in Threads : s # p => request'[s].next = request[s].next
  PROVE  FC!Listed' = FC!Listed \ {r} /\ r \in FC!Listed /\ p # r /\ p \in FC!Listed'
  <1>1. PICK L \in SUBSET FC!Pointer : L = FC!Listed \cup {None}
    BY Zenon, FListClosed
  <1>2. /\ head \in L /\ p \in Threads /\ r \in FC!Listed
        /\ \A s \in Threads : s \in L => s \in FC!Listed
        /\ \A s \in FC!Listed : s \in Threads /\ request[s].next \in L
    BY Zenon, <1>1, FListClosed DEF FC!Sizes
  <1>3. /\ head # r
        /\ \A s \in FC!Listed : request[s].next = r => s = p
    BY Zenon, <1>2 DEF FC!ListRight, FC!Sizes
  <1>4. L \ {r} \in SUBSET FC!Pointer /\ head \in L \ {r}
    BY Zenon, <1>2, <1>3
  <1>5. p # r
    <2>1. SUFFICES ASSUME p = r PROVE FALSE
      OBVIOUS
    <2>2. FC!Closed(L \ {r})
      BY Zenon, <1>2, <1>3, <2>1 DEF FC!Closed
    <2>3. r \notin FC!Listed
      BY Zenon, <1>4, <2>2 DEF FC!Listed, FC!Reach
    <2> QED BY Zenon, <1>2, <2>3
  <1>6. request[r].next # r
    BY Zenon, <1>2, <1>3, <1>5
  <1>7. \A s \in Threads : s \in L \ {r} => request'[s].next \in L \ {r}
    BY Zenon, <1>2, <1>3, <1>6
  <1>8. r \notin FC!Listed'
    <2>1. FC!Closed(L \ {r})'
      BY Zenon, <1>7 DEF FC!Closed
    <2> QED BY Zenon, <1>4, <2>1 DEF FC!Listed, FC!Reach, FC!Pointer
  <1>9. ASSUME NEW b \in FC!Listed' PROVE b \in FC!Listed
    <2>1. FC!Closed(L \ {r})'
      BY Zenon, <1>7 DEF FC!Closed
    <2>2. b \in L /\ b \in Threads
      BY Zenon, <1>4, <2>1 DEF FC!Listed, FC!Reach, FC!Pointer
    <2> QED BY Zenon, <1>2, <2>2
  <1>10. ASSUME NEW b \in FC!Listed, b # r PROVE b \in FC!Listed'
    <2>1. b \in Threads /\ FC!Reach(head, b)
      BY Zenon DEF FC!Listed
    <2>2. ASSUME NEW S \in SUBSET FC!Pointer, head \in S, FC!Closed(S)' PROVE b \in S
      <3>1. \A s \in Threads : s \in S => request'[s].next \in S
        BY Zenon, <2>2 DEF FC!Closed
      <3>2. CASE p \in S
        <4>1. S \cup {r} \in SUBSET FC!Pointer /\ head \in S \cup {r}
          BY Zenon, <2>2 DEF FC!Pointer
        <4>2. FC!Closed(S \cup {r})
          BY Zenon, <1>2, <3>1, <3>2 DEF FC!Closed
        <4> QED BY Zenon, <1>10, <2>1, <4>1, <4>2 DEF FC!Reach
      <3>3. CASE p \notin S
        <4>1. FC!Closed(S)
          BY Zenon, <3>1, <3>3 DEF FC!Closed
        <4> QED BY Zenon, <2>1, <2>2, <4>1 DEF FC!Reach
      <3> QED BY Zenon, <3>2, <3>3
    <2>3. FC!Reach(head, b)'
      BY Zenon, <2>2 DEF FC!Reach, FC!Pointer
    <2> QED BY Zenon, <2>1, <2>3 DEF FC!Listed
  <1>11. \A b : b \in FC!Listed' <=> b \in FC!Listed /\ b # r
    BY Zenon, <1>8, <1>9, <1>10
  <1> QED BY Zenon, <1>2, <1>5, <1>11

\* The records, and what a step writes to them.
FRecs == request = [t \in Threads |-> request[t]] /\ \A t \in Threads : FC!IsRecord(request[t])
FOnlyRecord(r) == \A s \in Threads : s # r => request'[s] = request[s]

LEMMA FWriteNext ==
  ASSUME FRecs, NEW r \in Threads, NEW x \in FC!Pointer, request' = [request EXCEPT ![r].next = x]
  PROVE  /\ FRecs' /\ FOnlyRecord(r) /\ request'[r].next = x
         /\ request'[r].active = request[r].active /\ request'[r].pending = request[r].pending
         /\ request'[r].val = request[r].val
  <1>1. /\ request' = [t \in Threads |-> request'[t]] /\ FOnlyRecord(r)
        /\ request'[r] = [request[r] EXCEPT !.next = x]
    BY Zenon DEF FRecs, FOnlyRecord
  <1>2. FC!IsRecord(request[r])
    BY Zenon DEF FRecs
  <1>3. /\ FC!IsRecord(request'[r]) /\ request'[r].next = x
        /\ request'[r].active = request[r].active /\ request'[r].pending = request[r].pending
        /\ request'[r].val = request[r].val
    BY Zenon, <1>1, <1>2 DEF FC!IsRecord
  <1>4. \A t \in Threads : FC!IsRecord(request'[t])
    BY Zenon, <1>1, <1>3 DEF FRecs, FOnlyRecord
  <1> QED BY Zenon, <1>1, <1>3, <1>4 DEF FRecs, FC!IsRecord, FC!Pointer

LEMMA FWriteActive ==
  ASSUME FRecs, NEW r \in Threads, NEW x \in BOOLEAN, request' = [request EXCEPT ![r].active = x]
  PROVE  /\ FRecs' /\ FOnlyRecord(r) /\ request'[r].active = x
         /\ request'[r].next = request[r].next /\ request'[r].pending = request[r].pending
         /\ request'[r].val = request[r].val
  <1>1. /\ request' = [t \in Threads |-> request'[t]] /\ FOnlyRecord(r)
        /\ request'[r] = [request[r] EXCEPT !.active = x]
    BY Zenon DEF FRecs, FOnlyRecord
  <1>2. FC!IsRecord(request[r])
    BY Zenon DEF FRecs
  <1>3. /\ FC!IsRecord(request'[r]) /\ request'[r].active = x
        /\ request'[r].next = request[r].next /\ request'[r].pending = request[r].pending
        /\ request'[r].val = request[r].val
    BY Zenon, <1>1, <1>2 DEF FC!IsRecord
  <1>4. \A t \in Threads : FC!IsRecord(request'[t])
    BY Zenon, <1>1, <1>3 DEF FRecs, FOnlyRecord
  <1> QED BY Zenon, <1>1, <1>3, <1>4 DEF FRecs, FC!IsRecord, FC!Pointer

LEMMA FWriteVal ==
  ASSUME FRecs, NEW r \in Threads, NEW x, request' = [request EXCEPT ![r].val = x]
  PROVE  /\ FRecs' /\ FOnlyRecord(r) /\ request'[r].val = x
         /\ request'[r].next = request[r].next /\ request'[r].active = request[r].active
         /\ request'[r].pending = request[r].pending
  <1>1. /\ request' = [t \in Threads |-> request'[t]] /\ FOnlyRecord(r)
        /\ request'[r] = [request[r] EXCEPT !.val = x]
    BY Zenon DEF FRecs, FOnlyRecord
  <1>2. FC!IsRecord(request[r])
    BY Zenon DEF FRecs
  <1>3. /\ FC!IsRecord(request'[r]) /\ request'[r].val = x
        /\ request'[r].next = request[r].next /\ request'[r].active = request[r].active
        /\ request'[r].pending = request[r].pending
    BY Zenon, <1>1, <1>2 DEF FC!IsRecord
  <1>4. \A t \in Threads : FC!IsRecord(request'[t])
    BY Zenon, <1>1, <1>3 DEF FRecs, FOnlyRecord
  <1> QED BY Zenon, <1>1, <1>3, <1>4 DEF FRecs, FC!IsRecord, FC!Pointer

LEMMA FWriteCall ==
  ASSUME FRecs, NEW r \in Threads, NEW x, NEW y, request' = [request EXCEPT ![r].val = x, ![r].pending = y]
  PROVE  /\ FRecs' /\ FOnlyRecord(r) /\ request'[r].val = x /\ request'[r].pending = y
         /\ request'[r].next = request[r].next /\ request'[r].active = request[r].active
  <1>1. /\ request' = [t \in Threads |-> request'[t]] /\ FOnlyRecord(r)
        /\ request'[r] = [[request[r] EXCEPT !.val = x] EXCEPT !.pending = y]
    BY Zenon DEF FRecs, FOnlyRecord
  <1>2. FC!IsRecord(request[r])
    BY Zenon DEF FRecs
  <1>3. /\ FC!IsRecord(request'[r]) /\ request'[r].val = x /\ request'[r].pending = y
        /\ request'[r].next = request[r].next /\ request'[r].active = request[r].active
    BY Zenon, <1>1, <1>2 DEF FC!IsRecord
  <1>4. \A t \in Threads : FC!IsRecord(request'[t])
    BY Zenon, <1>1, <1>3 DEF FRecs, FOnlyRecord
  <1> QED BY Zenon, <1>1, <1>3, <1>4 DEF FRecs, FC!IsRecord, FC!Pointer

LEMMA FWriteDone ==
  ASSUME FRecs, NEW r \in Threads, NEW x, NEW y, request' = [request EXCEPT ![r].pending = x, ![r].age = y]
  PROVE  /\ FRecs' /\ FOnlyRecord(r) /\ request'[r].pending = x
         /\ request'[r].next = request[r].next /\ request'[r].active = request[r].active
         /\ request'[r].val = request[r].val
  <1>1. /\ request' = [t \in Threads |-> request'[t]] /\ FOnlyRecord(r)
        /\ request'[r] = [[request[r] EXCEPT !.pending = x] EXCEPT !.age = y]
    BY Zenon DEF FRecs, FOnlyRecord
  <1>2. FC!IsRecord(request[r])
    BY Zenon DEF FRecs
  <1>3. /\ FC!IsRecord(request'[r]) /\ request'[r].pending = x
        /\ request'[r].next = request[r].next /\ request'[r].active = request[r].active
        /\ request'[r].val = request[r].val
    BY Zenon, <1>1, <1>2 DEF FC!IsRecord
  <1>4. \A t \in Threads : FC!IsRecord(request'[t])
    BY Zenon, <1>1, <1>3 DEF FRecs, FOnlyRecord
  <1> QED BY Zenon, <1>1, <1>3, <1>4 DEF FRecs, FC!IsRecord, FC!Pointer

\* A step of t.
FAlone(t) ==
  \A u \in Threads : u # t =>
    /\ pc'[u] = pc[u] /\ then'[u] = then[u] /\ cur'[u] = cur[u] /\ prev'[u] = prev[u]
    /\ seen'[u] = seen[u] /\ op'[u] = op[u]

\* A step of t that executes nothing and writes to its own record at most, and
\* not over a request.
FMine(t) ==
  /\ FAlone(t) /\ FOnlyRecord(t) /\ mem' = mem
  /\ pc[t] \notin {"done", "deactivate"} /\ pc'[t] \notin {"done", "deactivate"}
  /\ request[t].pending # None =>
       request'[t].pending = request[t].pending /\ request'[t].val = request[t].val
  /\ request[t].active => request'[t].active /\ (FC!Enqueues(t)' => FC!Enqueues(t))

\* The list stays, or t's record is put in front of it.
FGrows(t) ==
  /\ \A r \in FC!Listed : r \in FC!Listed'
  /\ \A r \in FC!Listed' : r \in FC!Listed \/ (r = t /\ FC!Enqueues(t))
  /\ \A a \in FC!Listed \cup {None}, b \in Threads : FC!Reach(a, b) => FC!Reach(a, b)'

LEMMA FAloneStep ==
  ASSUME FC!TypeOK, NEW t \in Threads, FC!Step(t) \/ \E o \in FC!Ops : FC!Call(t, o)
  PROVE  FAlone(t)
  BY ZenonT(60) DEF FC!TypeOK, FAlone, FC!Step, FC!Call, FC!Enqueue, FC!ReadHead, FC!Push, FC!Spin, FC!Served, FC!Lock, FC!Combine, FC!Scan,
       FC!Store, FC!Done, FC!Clean, FC!Deactivate, FC!Unlock, FC!Return, FC!Goto, FC!Caller

\* The other threads' requests.
LEMMA FOthersExecuted ==
  ASSUME NEW t \in Threads, FAlone(t), pc[t] # "done", pc'[t] # "done", NEW u \in Threads,
         pc'[u] = "idle" <=> pc[u] = "idle",
         request'[u].pending = None <=> request[u].pending = None
  PROVE  FC!Executed(u)' <=> FC!Executed(u)
  <1>1. \A c \in Threads : pc'[c] = "done" /\ cur'[c] = u <=> pc[c] = "done" /\ cur[c] = u
    BY Zenon DEF FAlone
  <1> QED BY Zenon, <1>1 DEF FC!Executed

LEMMA FOthersThread ==
  ASSUME FC!ListInv, NEW t \in Threads, FMine(t), NEW u \in Threads, u # t
  PROVE  FC!ThreadRight(u)'
  <1>1. /\ pc'[u] = pc[u] /\ then'[u] = then[u] /\ op'[u] = op[u] /\ request'[u] = request[u]
        /\ FC!ThreadRight(u)
    BY Zenon DEF FC!ListInv, FMine, FAlone, FOnlyRecord
  <1>2. FC!Executed(u)' <=> FC!Executed(u)
    BY Zenon, <1>1, FOthersExecuted DEF FMine
  <1>3. FC!Enqueues(u)' <=> FC!Enqueues(u)
    BY Zenon, <1>1 DEF FC!Enqueues
  <1> QED BY Zenon, <1>1, <1>2, <1>3 DEF FC!ThreadRight, FC!Ops

\* The thread that has the lock is not disturbed.
LEMMA FOthersHolder ==
  ASSUME FC!Sizes, FC!ListInv, NEW t \in Threads, FMine(t), FGrows(t), NEW u \in Threads, u # t
  PROVE  FC!HolderRight(u)'
  <1>1. /\ pc'[u] = pc[u] /\ cur'[u] = cur[u] /\ prev'[u] = prev[u] /\ seen'[u] = seen[u]
        /\ request'[u] = request[u] /\ mem' = mem
        /\ FC!HolderRight(u)
    BY Zenon DEF FC!ListInv, FMine, FAlone, FOnlyRecord
  <1>2. \A r \in FC!Listed : r \in FC!Listed' /\ r \in Threads
    BY Zenon DEF FGrows, FC!Listed
  <1>3. ASSUME pc[u] \in {"scan", "store", "done"}
        PROVE  cur'[u] \in FC!Listed' \cup {None} /\ (request'[u].pending # None => FC!Reach(cur[u], u)')
    <2>1. cur[u] \in FC!Listed \cup {None} /\ (request[u].pending # None => FC!Reach(cur[u], u))
      BY Zenon, <1>1, <1>3 DEF FC!HolderRight
    <2>2. PICK a \in FC!Listed \cup {None} : a = cur[u]
      BY Zenon, <2>1
    <2>3. request[u].pending # None => FC!Reach(a, u)'
      BY Zenon, <2>1, <2>2 DEF FGrows
    <2>4. cur'[u] = a
      BY Zenon, <1>1, <2>2
    <2>5. FC!Reach(a, u)' => FC!Reach(cur[u], u)'
      BY Zenon, <2>4 DEF FC!Reach
    <2> QED BY Zenon, <1>1, <1>2, <2>1, <2>3, <2>5
  <1>4. ASSUME pc[u] \in {"store", "done"}
        PROVE  cur'[u] # None /\ request'[cur'[u]].pending # None
               /\ request'[cur'[u]].val = request[cur[u]].val
    <2>1. cur[u] \in FC!Listed \cup {None} /\ cur[u] # None /\ request[cur[u]].pending # None
      BY Zenon, <1>1, <1>4 DEF FC!HolderRight
    <2>2. \A r \in Threads : request[r].pending # None =>
            request'[r].pending = request[r].pending /\ request'[r].val = request[r].val
      BY Zenon DEF FMine, FOnlyRecord
    <2> QED BY Zenon, <1>1, <1>2, <2>1, <2>2
  <1>5. ASSUME pc[u] = "deactivate"
        PROVE  cur'[u] \in Threads \ FC!Listed' /\ request'[cur'[u]].active /\ ~FC!Enqueues(cur[u])'
    <2>1. cur[u] \in Threads \ FC!Listed /\ request[cur[u]].active /\ ~FC!Enqueues(cur[u])
      BY Zenon, <1>1, <1>5 DEF FC!HolderRight
    <2>2. \A r \in Threads : request[r].active => request'[r].active
      BY Zenon DEF FMine, FOnlyRecord
    <2>3. \A r \in Threads : request[r].active /\ ~FC!Enqueues(r) => ~(pc'[r] \in {"supposed", "push"})
      BY Zenon DEF FMine, FAlone, FC!Enqueues
    <2>4. \A r \in Threads : r \notin FC!Listed /\ ~FC!Enqueues(r) => r \notin FC!Listed'
      BY Zenon DEF FGrows
    <2>5. PICK x \in Threads : x = cur[u]
      BY Zenon, <2>1
    <2>6. x \notin FC!Listed' /\ request'[x].active /\ pc'[x] \notin {"supposed", "push"}
      BY Zenon, <2>1, <2>2, <2>3, <2>4, <2>5
    <2> QED BY Zenon, <1>1, <2>5, <2>6 DEF FC!Enqueues
  <1>6. pc[u] \in {"combine", "scan", "store", "done"} => u \in FC!Listed'
    BY Zenon, <1>1, <1>2 DEF FC!HolderRight
  <1>7. pc[u] \in {"clean", "deactivate"} => prev'[u] \in FC!Listed'
    BY Zenon, <1>1, <1>2 DEF FC!HolderRight
  <1>8. pc[u] = "store" => seen'[u] = mem'[request'[cur'[u]].val]
    BY Zenon, <1>1, <1>4 DEF FC!HolderRight
  <1> QED BY ZenonT(60), <1>1, <1>3, <1>4, <1>5, <1>6, <1>7, <1>8 DEF FC!HolderRight

\* So such a step keeps the invariant when it does for t and for the list.
LEMMA FMineKeeps ==
  ASSUME FC!Sizes, FC!ListInv, FC!TypeOK', NEW t \in Threads, FMine(t), FGrows(t), FC!OneHolder', FC!ListRight',
         FC!ThreadRight(t)', FC!HolderRight(t)',
         request'[t].active => request[t].active \/ FC!Enqueues(t)',
         FC!Enqueues(t) => FC!Enqueues(t)' \/ t \in FC!Listed'
  PROVE  FC!ListInv'
  <1>1. \A u \in Threads : FC!ThreadRight(u)' /\ FC!HolderRight(u)'
    BY Zenon, FOthersThread, FOthersHolder
  <1>2. ASSUME NEW u \in Threads, request'[u].active
        PROVE  u \in FC!Listed' \/ FC!Enqueues(u)' \/ \E c \in Threads : pc'[c] = "deactivate" /\ cur'[c] = u
    <2>1. request[u].active \/ FC!Enqueues(u)'
      BY Zenon, <1>2 DEF FMine, FOnlyRecord
    <2>2. request[u].active =>
            u \in FC!Listed \/ FC!Enqueues(u) \/ \E c \in Threads : pc[c] = "deactivate" /\ cur[c] = u
      BY Zenon DEF FC!ListInv, FC!ActiveIsListed, FC!Enqueues
    <2>3. FC!Enqueues(u) => FC!Enqueues(u)' \/ u \in FC!Listed'
      BY Zenon DEF FC!Enqueues, FMine, FAlone
    <2>4. \A c \in Threads : pc[c] = "deactivate" /\ cur[c] = u => pc'[c] = "deactivate" /\ cur'[c] = u
      BY Zenon DEF FMine, FAlone
    <2> QED BY Zenon, <2>1, <2>2, <2>3, <2>4 DEF FGrows
  <1>3. FC!ActiveIsListed'
    BY Zenon, <1>2 DEF FC!ActiveIsListed, FC!Enqueues
  <1> QED BY Zenon, <1>1, <1>3 DEF FC!ListInv

\* A step that the service does not see.
LEMMA FUnseen ==
  ASSUME UNCHANGED <<mem, op, ret>>,
         \A u \in Threads : /\ pc'[u] = "idle" <=> pc[u] = "idle"
                            /\ FC!Executed(u)' <=> FC!Executed(u)
                            /\ FC!Executed(u) => request'[u].val = request[u].val
  PROVE  FC!Serves
  <1>1. [t \in Threads |->
           IF pc[t] = "idle" THEN "idle" ELSE IF FC!Executed(t) THEN "done" ELSE "pending"]'
        = [t \in Threads |->
           IF pc[t] = "idle" THEN "idle" ELSE IF FC!Executed(t) THEN "done" ELSE "pending"]
    BY Zenon
  <1>2. [t \in Threads |-> IF FC!Executed(t) THEN request[t].val ELSE None]'
        = [t \in Threads |-> IF FC!Executed(t) THEN request[t].val ELSE None]
    BY Zenon
  <1> QED BY Zenon, <1>1, <1>2 DEF FC!Serves, FC!Abstract!vars

LEMMA FMineUnseen ==
  ASSUME NEW t \in Threads, FMine(t), UNCHANGED <<op, ret>>,
         pc'[t] = "idle" <=> pc[t] = "idle",
         request'[t].pending = request[t].pending, request'[t].val = request[t].val
  PROVE  FC!Serves
  <1>1. \A u \in Threads : /\ pc'[u] = "idle" <=> pc[u] = "idle"
                           /\ request'[u].pending = request[u].pending
                           /\ request'[u].val = request[u].val
    BY Zenon DEF FMine, FAlone, FOnlyRecord
  <1>2. \A u \in Threads : FC!Executed(u)' <=> FC!Executed(u)
    BY Zenon, <1>1, FOthersExecuted DEF FMine
  <1> QED BY Zenon, <1>1, <1>2, FUnseen DEF FMine

\* A step of t that leaves the pointers of the list alone.
LEMMA FQuietList ==
  ASSUME FC!Sizes, FC!ListInv, FC!TypeOK', NEW t \in Threads, FMine(t), head' = head,
         request'[t].next = request[t].next \/ FC!Enqueues(t)
  PROVE  /\ FGrows(t) /\ FC!ListRight' /\ FC!Listed' = FC!Listed
         /\ \A a \in FC!Listed \cup {None}, b \in Threads : FC!Reach(a, b)' <=> FC!Reach(a, b)
  <1>1. FC!TypeOK /\ FC!ListRight /\ \A r \in FC!Listed : r \in Threads
    BY Zenon DEF FC!ListInv, FC!Listed
  <1>2. \A r \in FC!Listed : request'[r].next = request[r].next
    BY Zenon, <1>1 DEF FC!ListRight, FMine, FOnlyRecord
  <1>3. /\ FC!Listed' = FC!Listed
        /\ \A a \in FC!Listed \cup {None}, b \in Threads : FC!Reach(a, b)' <=> FC!Reach(a, b)
    BY Zenon, <1>1, <1>2, FSameList
  <1>4. FGrows(t)
    BY Zenon, <1>3 DEF FGrows
  <1>5. \A r \in FC!Listed : request[r].active /\ pc[r] \notin {"supposed", "push"} /\ request[r].next # head
    BY Zenon, <1>1 DEF FC!ListRight, FC!Enqueues
  <1>6. \A r \in FC!Listed : request'[r].active /\ pc'[r] \notin {"supposed", "push"} /\ request'[r].next # head'
    BY ZenonT(60), <1>1, <1>2, <1>5 DEF FMine, FAlone, FOnlyRecord, FC!Enqueues
  <1>7. \A r, s \in FC!Listed : request'[r].next = request'[s].next /\ request'[r].next # None => r = s
    BY Zenon, <1>1, <1>2 DEF FC!ListRight
  <1>8. FC!ListRight'
    BY Zenon, <1>3, <1>6, <1>7 DEF FC!ListRight, FC!Enqueues
  <1> QED BY Zenon, <1>3, <1>4, <1>8

\* The lock stays with the thread that has it.
LEMMA FHolderStays ==
  ASSUME FC!OneHolder, NEW t \in Threads, FAlone(t), lock' = lock, FC!Holds(t)' => FC!Holds(t)
  PROVE  FC!OneHolder'
  <1>1. \A u \in Threads : FC!Holds(u)' => FC!Holds(u)
    BY Zenon DEF FC!Holds, FC!Enqueues, FAlone
  <1> QED BY Zenon, <1>1 DEF FC!OneHolder

LEMMA FOneOnly ==
  ASSUME FC!ListInv, NEW t \in Threads, FC!Holds(t)
  PROVE  lock /\ \A u \in Threads : FC!Holds(u) => u = t
  BY Zenon DEF FC!ListInv, FC!OneHolder

\* A step of t that writes to no record and stays in the call.
LEMMA FPlainStep ==
  ASSUME FC!Sizes, FC!ListInv, FC!TypeOK', NEW t \in Threads, FAlone(t), FC!OneHolder',
         UNCHANGED <<request, head, op, ret, mem>>,
         pc[t] \notin {"idle", "done", "deactivate", "supposed", "push"},
         pc'[t] \notin {"idle", "done", "deactivate", "supposed", "push"},
         pc'[t] \in {"return", "clean", "unlock"} => request[t].pending = None,
         pc'[t] \in {"combine", "scan", "store"} => t \in FC!Listed,
         NEW a \in FC!Pointer, cur'[t] = a,
         pc'[t] \in {"scan", "store"} => a \in FC!Listed \cup {None} /\ (request[t].pending # None => FC!Reach(a, t)),
         pc'[t] = "store" => a # None /\ request[a].pending # None /\ seen'[t] = mem[request[a].val],
         pc'[t] = "clean" => prev'[t] \in FC!Listed
  PROVE  FC!ListInv' /\ FC!Serves
  <1>1. ~FC!Enqueues(t) /\ ~FC!Enqueues(t)'
    BY Zenon DEF FC!Enqueues
  <1>2. FMine(t)
    BY Zenon, <1>1 DEF FMine, FOnlyRecord
  <1>3. /\ FGrows(t) /\ FC!ListRight' /\ FC!Listed' = FC!Listed
        /\ \A x \in FC!Listed \cup {None}, b \in Threads : FC!Reach(x, b)' <=> FC!Reach(x, b)
    BY Zenon, <1>2, FQuietList
  <1>4. FC!Executed(t)' <=> FC!Executed(t)
    BY Zenon, FOthersExecuted
  <1>5. op'[t] = op[t] /\ FC!ThreadRight(t)
    BY Zenon DEF FC!ListInv
  <1>6. FC!ThreadRight(t)'
    BY Zenon, <1>1, <1>4, <1>5 DEF FC!ThreadRight, FC!Ops
  <1>7. pc'[t] \in {"scan", "store"} /\ request'[t].pending # None => FC!Reach(cur[t], t)'
    <2>1. pc'[t] \in {"scan", "store"} /\ request'[t].pending # None => FC!Reach(a, t)'
      BY Zenon, <1>3
    <2>2. FC!Reach(a, t)' => FC!Reach(cur[t], t)'
      BY Zenon DEF FC!Reach
    <2> QED BY Zenon, <2>1, <2>2
  <1>8. FC!HolderRight(t)'
    BY Zenon, <1>3, <1>7 DEF FC!HolderRight
  <1>9. FC!ListInv'
    BY Zenon, <1>1, <1>2, <1>3, <1>6, <1>8, FMineKeeps
  <1> QED BY Zenon, <1>2, <1>9, FMineUnseen

\* The types of what a step leaves or sets at t.
LEMMA FMoves ==
  ASSUME FC!TypeOK, NEW t \in Threads, NEW l \in FC!Labels, FC!Goto(t, l)
  PROVE  pc' \in [Threads -> FC!Labels] /\ pc'[t] = l
  BY Zenon DEF FC!TypeOK, FC!Goto

LEMMA FKept ==
  ASSUME FC!TypeOK, lock' \in BOOLEAN, head' \in FC!Pointer, FRecs', pc' \in [Threads -> FC!Labels],
         then' = [t \in Threads |-> then'[t]],
         cur' \in [Threads -> FC!Pointer], prev' \in [Threads -> FC!Pointer], UNCHANGED <<op, ret, mem>>,
         seen' = [t \in Threads |-> seen'[t]]
  PROVE  FC!TypeOK'
  <1>1. /\ op' = [t \in Threads |-> op'[t]] /\ ret' = [t \in Threads |-> ret'[t]]
        /\ mem' = [v \in Vars |-> mem'[v]]
    BY Zenon DEF FC!TypeOK
  <1> QED BY Zenon, <1>1 DEF FC!TypeOK, FRecs, FC!Pointer, FC!Labels, FC!IsRecord

\* What TypeOK says, in a form the provers take up.
LEMMA FTypes ==
  ASSUME FC!ListInv
  PROVE  /\ FC!TypeOK /\ lock \in BOOLEAN /\ head \in FC!Pointer /\ FRecs /\ pc \in [Threads -> FC!Labels]
         /\ then = [t \in Threads |-> then[t]] /\ seen = [t \in Threads |-> seen[t]]
         /\ cur \in [Threads -> FC!Pointer] /\ prev \in [Threads -> FC!Pointer]
         /\ \A t \in Threads : cur[t] \in FC!Pointer /\ prev[t] \in FC!Pointer /\ request[t].next \in FC!Pointer
  BY Zenon DEF FC!ListInv, FC!TypeOK, FRecs, FC!IsRecord

\* A step that sets nothing but pc.
LEMMA FOnlyMoves ==
  ASSUME FC!ListInv, NEW t \in Threads, NEW l \in FC!Labels, FC!Goto(t, l), lock' \in BOOLEAN,
         UNCHANGED <<head, request, then, cur, prev, seen, op, ret, mem>>
  PROVE  FC!TypeOK' /\ pc'[t] = l /\ cur'[t] = cur[t] /\ cur[t] \in FC!Pointer
  <1>1. pc' \in [Threads -> FC!Labels] /\ pc'[t] = l
    BY Zenon, FMoves, FTypes
  <1>2. /\ head' \in FC!Pointer /\ FRecs' /\ then' = [u \in Threads |-> then'[u]]
        /\ seen' = [u \in Threads |-> seen'[u]]
        /\ cur' \in [Threads -> FC!Pointer] /\ prev' \in [Threads -> FC!Pointer]
    BY Zenon, FTypes DEF FRecs, FC!Pointer
  <1> QED BY Zenon, <1>1, <1>2, FKept, FTypes

\* A thread in the call finds its record active, and goes on.
LEMMA FActiveStep ==
  ASSUME FC!Sizes, FC!ListInv, NEW t \in Threads, FAlone(t), NEW from, NEW l, FC!Enqueue(t, from, l),
         \/ from = "active?" /\ l = "spin"
         \/ from = "locked" /\ l = "combine",
         request[t].active
  PROVE  FC!ListInv' /\ FC!Serves
  <1>1. /\ pc[t] = from /\ FC!Goto(t, l) /\ lock' = lock
        /\ UNCHANGED <<head, request, then, cur, prev, seen, op, ret, mem>>
    BY Zenon DEF FC!Enqueue, FC!Caller
  <1>2. l \in FC!Labels
    BY Zenon DEF FC!Labels
  <1>3. FC!TypeOK' /\ pc'[t] = l /\ cur'[t] = cur[t] /\ cur[t] \in FC!Pointer
    BY Zenon, <1>1, <1>2, FOnlyMoves, FTypes
  <1>4. FC!Holds(t)' => FC!Holds(t)
    BY Zenon, <1>1, <1>3 DEF FC!Holds, FC!Enqueues
  <1>5. FC!OneHolder'
    BY Zenon, <1>1, <1>4, FHolderStays DEF FC!ListInv
  <1>6. ASSUME l = "combine" PROVE t \in FC!Listed
    <2>1. FC!Holds(t) /\ pc[t] = "locked"
      BY Zenon, <1>1, <1>6 DEF FC!Holds
    <2>2. \A c \in Threads : pc[c] # "deactivate"
      BY Zenon, <2>1, FOneOnly DEF FC!Holds
    <2> QED BY Zenon, <2>1, <2>2 DEF FC!ListInv, FC!ActiveIsListed
  <1>7. /\ pc[t] \notin {"idle", "done", "deactivate", "supposed", "push"}
        /\ pc'[t] \notin {"idle", "done", "deactivate", "supposed", "push"}
        /\ pc'[t] \notin {"return", "clean", "unlock", "scan", "store"}
        /\ pc'[t] \in {"combine", "scan", "store"} => t \in FC!Listed
    BY Zenon, <1>1, <1>3, <1>6
  <1> QED BY Zenon, <1>1, <1>3, <1>5, <1>7, FPlainStep

\* The wait ends.
LEMMA FSpinStep ==
  ASSUME FC!Sizes, FC!ListInv, NEW t \in Threads, FAlone(t), FC!Spin(t)
  PROVE  FC!ListInv' /\ FC!Serves
  <1>1. /\ pc[t] = "spin" /\ FC!Goto(t, "served?") /\ lock' = lock
        /\ UNCHANGED <<head, request, then, cur, prev, seen, op, ret, mem>>
    BY Zenon DEF FC!Spin, FC!Caller
  <1>2. "served?" \in FC!Labels
    BY Zenon DEF FC!Labels
  <1>3. FC!TypeOK' /\ pc'[t] = "served?" /\ cur'[t] = cur[t] /\ cur[t] \in FC!Pointer
    BY Zenon, <1>1, <1>2, FOnlyMoves, FTypes
  <1>4. FC!Holds(t)' => FC!Holds(t)
    BY Zenon, <1>3 DEF FC!Holds, FC!Enqueues
  <1>5. FC!OneHolder'
    BY Zenon, <1>1, <1>4, FHolderStays DEF FC!ListInv
  <1> QED BY Zenon, <1>1, <1>3, <1>5, FPlainStep

\* The thread is served and returns, or tries to get the lock.
LEMMA FServedStep ==
  ASSUME FC!Sizes, FC!ListInv, NEW t \in Threads, FAlone(t), FC!Served(t)
  PROVE  FC!ListInv' /\ FC!Serves
  <1> DEFINE l == IF request[t].pending = None THEN "return" ELSE "lock"
  <1>1. /\ pc[t] = "served?" /\ FC!Goto(t, l) /\ lock' = lock
        /\ UNCHANGED <<head, request, then, cur, prev, seen, op, ret, mem>>
    BY Zenon DEF FC!Served, FC!Caller
  <1>2. l \in FC!Labels /\ l \in {"return", "lock"} /\ (l = "return" => request[t].pending = None)
    BY Zenon DEF FC!Labels
  <1> HIDE DEF l
  <1>3. FC!TypeOK' /\ pc'[t] = l /\ cur'[t] = cur[t] /\ cur[t] \in FC!Pointer
    BY Zenon, <1>1, <1>2, FOnlyMoves, FTypes
  <1>4. FC!Holds(t)' => FC!Holds(t)
    BY Zenon, <1>2, <1>3 DEF FC!Holds, FC!Enqueues
  <1>5. FC!OneHolder'
    BY Zenon, <1>1, <1>4, FHolderStays DEF FC!ListInv
  <1>6. /\ pc'[t] \notin {"idle", "done", "deactivate", "supposed", "push", "clean", "unlock", "combine", "scan", "store"}
        /\ pc'[t] = "return" => request[t].pending = None
    BY Zenon, <1>2, <1>3
  <1> QED BY Zenon, <1>1, <1>3, <1>5, <1>6, FPlainStep

\* The compare-and-swap of the lock: it was free, or another thread has it.
LEMMA FLockStep ==
  ASSUME FC!Sizes, FC!ListInv, NEW t \in Threads, FAlone(t), FC!Lock(t)
  PROVE  FC!ListInv' /\ FC!Serves
  <1> DEFINE l == IF lock THEN "active?" ELSE "locked"
  <1>1. /\ pc[t] = "lock" /\ FC!Goto(t, l) /\ lock' = TRUE
        /\ UNCHANGED <<head, request, then, cur, prev, seen, op, ret, mem>>
    BY Zenon DEF FC!Lock, FC!Caller
  <1>2. l \in FC!Labels /\ l \in {"active?", "locked"} /\ (l = "locked" => ~lock)
    BY Zenon DEF FC!Labels
  <1> HIDE DEF l
  <1>3. FC!TypeOK' /\ pc'[t] = l /\ cur'[t] = cur[t] /\ cur[t] \in FC!Pointer
    BY Zenon, <1>1, <1>2, FOnlyMoves
  <1>4. \A u \in Threads : u # t /\ FC!Holds(u)' => FC!Holds(u) /\ lock
    BY ZenonT(60) DEF FC!Holds, FC!Enqueues, FAlone, FC!ListInv, FC!OneHolder
  <1>5. FC!Holds(t)' => ~lock
    BY Zenon, <1>2, <1>3 DEF FC!Holds, FC!Enqueues
  <1>6. FC!OneHolder'
    <2>1. \A u, w \in Threads : FC!Holds(u)' /\ FC!Holds(w)' => u = w
      BY Zenon, <1>4, <1>5 DEF FC!ListInv, FC!OneHolder
    <2> QED BY Zenon, <1>1, <2>1 DEF FC!OneHolder
  <1>7. pc'[t] \notin {"idle", "done", "deactivate", "supposed", "push", "return", "clean", "unlock", "combine", "scan", "store"}
    BY Zenon, <1>2, <1>3
  <1> QED BY Zenon, <1>1, <1>3, <1>6, <1>7, FPlainStep

\* The loop over the list starts at its head.
LEMMA FCombineStep ==
  ASSUME FC!Sizes, FC!ListInv, NEW t \in Threads, FAlone(t), FC!Combine(t)
  PROVE  FC!ListInv' /\ FC!Serves
  <1>1. /\ pc[t] = "combine" /\ FC!Goto(t, "scan") /\ lock' = lock /\ cur' = [cur EXCEPT ![t] = head]
        /\ UNCHANGED <<head, request, then, prev, seen, op, ret, mem>>
    BY Zenon DEF FC!Combine, FC!Caller
  <1>2. "scan" \in FC!Labels
    BY Zenon DEF FC!Labels
  <1>3. pc' \in [Threads -> FC!Labels] /\ pc'[t] = "scan"
    BY Zenon, <1>1, <1>2, FMoves, FTypes
  <1>4. /\ head' \in FC!Pointer /\ FRecs' /\ then' = [u \in Threads |-> then'[u]]
        /\ seen' = [u \in Threads |-> seen'[u]] /\ prev' \in [Threads -> FC!Pointer]
    BY Zenon, <1>1, FTypes DEF FRecs, FC!Pointer
  <1>5. cur' \in [Threads -> FC!Pointer] /\ cur'[t] = head /\ head \in FC!Pointer
    BY Zenon, <1>1, FTypes
  <1>6. FC!TypeOK'
    BY Zenon, <1>1, <1>3, <1>4, <1>5, FKept, FTypes
  <1>7. FC!Holds(t)
    BY Zenon, <1>1 DEF FC!Holds
  <1>8. FC!OneHolder'
    BY Zenon, <1>1, <1>7, FHolderStays DEF FC!ListInv
  <1>9. t \in FC!Listed /\ FC!Reach(head, t) /\ head \in FC!Listed \cup {None}
    BY Zenon, <1>1, FListClosed, FTypes DEF FC!ListInv, FC!HolderRight, FC!Listed
  <1> QED BY Zenon, <1>1, <1>3, <1>5, <1>6, <1>8, <1>9, FPlainStep

\* The lock is released.
LEMMA FUnlockStep ==
  ASSUME FC!Sizes, FC!ListInv, NEW t \in Threads, FAlone(t), FC!Unlock(t)
  PROVE  FC!ListInv' /\ FC!Serves
  <1>1. /\ pc[t] = "unlock" /\ FC!Goto(t, "return") /\ lock' = FALSE
        /\ cur' = [cur EXCEPT ![t] = None] /\ prev' = [prev EXCEPT ![t] = None]
        /\ UNCHANGED <<head, request, then, seen, op, ret, mem>>
    BY Zenon DEF FC!Unlock, FC!Caller
  <1>2. "return" \in FC!Labels /\ None \in FC!Pointer
    BY Zenon DEF FC!Labels, FC!Pointer
  <1>3. pc' \in [Threads -> FC!Labels] /\ pc'[t] = "return"
    BY Zenon, <1>1, <1>2, FMoves, FTypes
  <1>4. /\ head' \in FC!Pointer /\ FRecs' /\ then' = [u \in Threads |-> then'[u]]
        /\ seen' = [u \in Threads |-> seen'[u]] /\ lock' \in BOOLEAN
    BY Zenon, <1>1, FTypes DEF FRecs, FC!Pointer
  <1>5. cur' \in [Threads -> FC!Pointer] /\ cur'[t] = None /\ prev' \in [Threads -> FC!Pointer]
    BY Zenon, <1>1, <1>2, FTypes
  <1>6. FC!TypeOK'
    BY Zenon, <1>1, <1>3, <1>4, <1>5, FKept, FTypes
  <1>7. FC!Holds(t) /\ ~FC!Holds(t)'
    BY Zenon, <1>1, <1>3 DEF FC!Holds, FC!Enqueues
  <1>8. \A u \in Threads : ~FC!Holds(u)'
    <2>1. \A u \in Threads : u # t /\ FC!Holds(u)' => FC!Holds(u)
      BY Zenon DEF FC!Holds, FC!Enqueues, FAlone
    <2> QED BY Zenon, <1>7, <2>1, FOneOnly
  <1>9. FC!OneHolder'
    BY Zenon, <1>8 DEF FC!OneHolder
  <1>10. request[t].pending = None
    BY Zenon, <1>1 DEF FC!ListInv, FC!ThreadRight
  <1> QED BY Zenon, <1>1, <1>2, <1>3, <1>5, <1>6, <1>9, <1>10, FPlainStep

\* The loop over the list: a pending request is loaded, another record is passed,
\* or the list has ended, and then the thread's own request is executed.
LEMMA FScanStep ==
  ASSUME FC!Sizes, FC!ListInv, NEW t \in Threads, FAlone(t), FC!Scan(t)
  PROVE  FC!ListInv' /\ FC!Serves
  <1>0. PICK r \in FC!Pointer : r = cur[t]
    BY Zenon, FTypes
  <1>1. /\ pc[t] = "scan" /\ lock' = lock
        /\ UNCHANGED <<head, request, then, op, ret, mem>>
    BY Zenon DEF FC!Scan, FC!Caller
  <1>2. /\ head' \in FC!Pointer /\ FRecs' /\ then' = [u \in Threads |-> then'[u]] /\ lock' \in BOOLEAN
    BY Zenon, <1>1, FTypes DEF FRecs, FC!Pointer
  <1>3. FC!Holds(t)
    BY Zenon, <1>1 DEF FC!Holds
  <1>4. FC!OneHolder'
    BY Zenon, <1>1, <1>3, FHolderStays DEF FC!ListInv
  <1>5. t \in FC!Listed /\ r \in FC!Listed \cup {None} /\ (request[t].pending # None => FC!Reach(r, t))
    BY Zenon, <1>0, <1>1 DEF FC!ListInv, FC!HolderRight
  <1>6. CASE /\ r # None /\ request[r].pending # None
             /\ seen' = [seen EXCEPT ![t] = mem[request[r].val]]
             /\ FC!Goto(t, "store") /\ UNCHANGED <<cur, prev>>
    <2>1. "store" \in FC!Labels
      BY Zenon DEF FC!Labels
    <2>2. pc' \in [Threads -> FC!Labels] /\ pc'[t] = "store"
      BY Zenon, <1>6, <2>1, FMoves, FTypes
    <2>3. /\ seen' = [u \in Threads |-> seen'[u]] /\ seen'[t] = mem[request[r].val]
          /\ cur' \in [Threads -> FC!Pointer] /\ prev' \in [Threads -> FC!Pointer] /\ cur'[t] = r
      BY Zenon, <1>0, <1>6, FTypes
    <2>4. FC!TypeOK'
      BY Zenon, <1>1, <1>2, <2>2, <2>3, FKept, FTypes
    <2> QED BY Zenon, <1>1, <1>4, <1>5, <1>6, <2>2, <2>3, <2>4, FPlainStep
  <1>7. CASE /\ r # None /\ request[r].pending = None
             /\ cur' = [cur EXCEPT ![t] = request[r].next] /\ UNCHANGED <<pc, prev, seen>>
    <2>1. r \in FC!Listed /\ r \in Threads
      BY Zenon, <1>5, <1>7 DEF FC!Listed
    <2>2. PICK a \in FC!Pointer : a = request[r].next
      BY Zenon, <2>1, FTypes
    <2>3. a \in FC!Listed \cup {None}
      BY Zenon, <2>1, <2>2, FListClosed, FTypes
    <2>4. request[t].pending # None => FC!Reach(a, t)
      BY Zenon, <1>5, <1>7, <2>1, <2>2, FReachOn, FTypes
    <2>5. /\ cur' \in [Threads -> FC!Pointer] /\ cur'[t] = a /\ prev' \in [Threads -> FC!Pointer]
          /\ pc' \in [Threads -> FC!Labels] /\ pc'[t] = "scan" /\ seen' = [u \in Threads |-> seen'[u]]
      BY Zenon, <1>1, <1>7, <2>2, FTypes DEF FC!Labels, FC!Pointer
    <2>6. FC!TypeOK'
      BY Zenon, <1>1, <1>2, <2>5, FKept, FTypes
    <2> QED BY Zenon, <1>1, <1>4, <1>5, <2>3, <2>4, <2>5, <2>6, FPlainStep
  <1>8. CASE /\ r = None /\ prev' = [prev EXCEPT ![t] = head]
             /\ FC!Goto(t, IF count % CLEANUP_FREQUENCY = 0 THEN "clean" ELSE "unlock")
             /\ UNCHANGED <<cur, seen>>
    <2>1. request[t].pending = None
      BY Zenon, <1>5, <1>8, FReachOn, FTypes
    <2>2. PICK l \in {"clean", "unlock"} : FC!Goto(t, l)
      BY Zenon, <1>8
    <2>3. l \in FC!Labels
      BY Zenon DEF FC!Labels
    <2>4. pc' \in [Threads -> FC!Labels] /\ pc'[t] = l
      BY Zenon, <2>2, <2>3, FMoves, FTypes
    <2>5. head \in FC!Listed
      <3>1. head # None
        BY Zenon, <1>5, FReachOn, FTypes DEF FC!Listed
      <3> QED BY Zenon, <3>1, FListClosed, FTypes
    <2>6. /\ seen' = [u \in Threads |-> seen'[u]] /\ cur' \in [Threads -> FC!Pointer] /\ cur'[t] = r
          /\ prev' \in [Threads -> FC!Pointer] /\ prev'[t] = head
      BY Zenon, <1>0, <1>8, FTypes
    <2>7. FC!TypeOK'
      BY Zenon, <1>1, <1>2, <2>4, <2>6, FKept, FTypes
    <2>8. pc'[t] \in {"clean", "unlock"}
      BY Zenon, <2>4
    <2>9. /\ pc'[t] \notin {"idle", "done", "deactivate", "supposed", "push", "combine", "scan", "store"}
          /\ prev'[t] \in FC!Listed
      BY Zenon, <2>5, <2>6, <2>8
    <2> QED BY Zenon, <1>1, <1>4, <2>1, <2>6, <2>7, <2>9, FPlainStep
  <1> QED BY Zenon, <1>0, <1>6, <1>7, <1>8 DEF FC!Scan

\* What the service sees of a call.
FSt(t) == IF pc[t] = "idle" THEN "idle" ELSE IF FC!Executed(t) THEN "done" ELSE "pending"
FRes(t) == IF FC!Executed(t) THEN request[t].val ELSE None
FSame(t) == FSt(t)' = FSt(t) /\ FRes(t)' = FRes(t)

LEMMA FMineSame ==
  ASSUME NEW t \in Threads, FMine(t), NEW u \in Threads, u # t
  PROVE  FSame(u)
  <1>1. pc'[u] = pc[u] /\ request'[u] = request[u]
    BY Zenon DEF FMine, FAlone, FOnlyRecord
  <1>2. FC!Executed(u)' <=> FC!Executed(u)
    BY Zenon, <1>1, FOthersExecuted DEF FMine
  <1> QED BY Zenon, <1>1, <1>2 DEF FSame, FSt, FRes

\* A call: the thread's last request is executed, and nobody is at its record.
LEMMA FCallStep ==
  ASSUME FC!Sizes, FC!ListInv, NEW t \in Threads, FAlone(t), NEW o \in FC!Ops, FC!Call(t, o)
  PROVE  FC!ListInv' /\ FC!Serves
  <1>1. /\ pc[t] = "idle" /\ op' = [op EXCEPT ![t] = o]
        /\ request' = [request EXCEPT ![t].val = o.var, ![t].pending = o.fn]
        /\ FC!Goto(t, "active?")
        /\ UNCHANGED <<lock, head, then, cur, prev, seen, ret, mem>>
    BY Zenon DEF FC!Call
  <1>2. "active?" \in FC!Labels
    BY Zenon DEF FC!Labels
  <1>3. pc' \in [Threads -> FC!Labels] /\ pc'[t] = "active?"
    BY Zenon, <1>1, <1>2, FMoves, FTypes
  <1>4. /\ FRecs' /\ FOnlyRecord(t) /\ request'[t].val = o.var /\ request'[t].pending = o.fn
        /\ request'[t].next = request[t].next /\ request'[t].active = request[t].active
    BY Zenon, <1>1, FWriteCall, FTypes
  <1>5. op' = [u \in Threads |-> op'[u]] /\ op'[t] = o
    BY Zenon, <1>1, FTypes DEF FC!TypeOK
  <1>6. FC!TypeOK'
    BY Zenon, <1>1, <1>3, <1>4, <1>5, FTypes DEF FC!TypeOK, FRecs, FC!Pointer, FC!Labels, FC!IsRecord
  <1>7. FC!ThreadRight(t) /\ request[t].pending = None
    BY Zenon, <1>1 DEF FC!ListInv, FC!ThreadRight
  <1>8. ~FC!Enqueues(t) /\ ~FC!Enqueues(t)' /\ ~FC!Holds(t)'
    BY Zenon, <1>1, <1>3 DEF FC!Enqueues, FC!Holds
  <1>9. FMine(t)
    BY Zenon, <1>1, <1>3, <1>4, <1>7, <1>8 DEF FMine
  <1>10. FGrows(t) /\ FC!ListRight'
    BY Zenon, <1>1, <1>4, <1>6, <1>9, FQuietList
  <1>11. FC!OneHolder'
    BY Zenon, <1>1, <1>8, FHolderStays DEF FC!ListInv
  <1>12. FC!ThreadRight(t)'
    BY Zenon, <1>3, <1>4, <1>5, <1>8 DEF FC!ThreadRight, FC!Ops
  <1>13. FC!HolderRight(t)'
    BY Zenon, <1>3 DEF FC!HolderRight
  <1>14. FC!ListInv'
    BY ZenonT(60), <1>4, <1>6, <1>8, <1>9, <1>10, <1>11, <1>12, <1>13, FMineKeeps
  <1>15. ~FC!Executed(t) /\ ~FC!Executed(t)'
    <2>1. o.fn \in Fns
      BY DEF FC!Ops
    <2>2. request'[t].pending # None
      BY Zenon, <1>4, <2>1 DEF FC!Sizes
    <2>3. \A c \in Threads : ~(pc'[c] = "done" /\ cur'[c] = t)
      <3>1. \A c \in Threads : pc[c] = "done" => request[cur[c]].pending # None
        BY Zenon DEF FC!ListInv, FC!HolderRight
      <3>2. \A c \in Threads : pc'[c] = "done" => pc[c] = "done" /\ cur'[c] = cur[c]
        BY Zenon, <1>3 DEF FAlone
      <3> QED BY Zenon, <1>7, <3>1, <3>2
    <2> QED BY Zenon, <1>1, <2>2, <2>3 DEF FC!Executed
  <1>16. FSt(t) = "idle" /\ FSt(t)' = "pending" /\ FRes(t)' = FRes(t)
    <2>1. pc'[t] # "idle"
      BY Zenon, <1>3
    <2> QED BY Zenon, <1>1, <1>15, <2>1 DEF FSt, FRes
  <1>17. \A u \in Threads : u # t => FSame(u)
    BY Zenon, <1>9, FMineSame
  <1>18. [u \in Threads |-> FSt(u)]' = [[u \in Threads |-> FSt(u)] EXCEPT ![t] = "pending"]
    BY Zenon, <1>16, <1>17 DEF FSame
  <1>19. [u \in Threads |-> FRes(u)]' = [u \in Threads |-> FRes(u)]
    BY Zenon, <1>16, <1>17 DEF FSame
  <1>20. [u \in Threads |-> FSt(u)][t] = "idle"
    BY Zenon, <1>16
  <1>21. FC!Abstract!Invoke(t, o)
    BY Zenon, <1>1, <1>18, <1>19, <1>20 DEF FC!Abstract!Invoke, FSt, FRes
  <1>22. FC!Serves
    BY Zenon, <1>21 DEF FC!Serves, FC!Abstract!Next, FC!Abstract!Ops, FC!Ops
  <1> QED BY Zenon, <1>14, <1>22

\* A return: the request is executed, and its result is in the record.
LEMMA FReturnStep ==
  ASSUME FC!Sizes, FC!ListInv, NEW t \in Threads, FAlone(t), FC!Return(t)
  PROVE  FC!ListInv' /\ FC!Serves
  <1>1. /\ pc[t] = "return" /\ op' = [op EXCEPT ![t] = None]
        /\ ret' = [ret EXCEPT ![t] = request[t].val]
        /\ FC!Goto(t, "idle")
        /\ UNCHANGED <<lock, head, request, then, cur, prev, seen, mem>>
    BY Zenon DEF FC!Return
  <1>2. "idle" \in FC!Labels
    BY Zenon DEF FC!Labels
  <1>3. pc' \in [Threads -> FC!Labels] /\ pc'[t] = "idle"
    BY Zenon, <1>1, <1>2, FMoves, FTypes
  <1>4. /\ op' = [u \in Threads |-> op'[u]] /\ ret' = [u \in Threads |-> ret'[u]]
    BY Zenon, <1>1, FTypes DEF FC!TypeOK
  <1>5. FC!TypeOK'
    BY Zenon, <1>1, <1>3, <1>4, FTypes DEF FC!TypeOK, FC!Pointer, FC!Labels, FC!IsRecord
  <1>6. request[t].pending = None
    BY Zenon, <1>1 DEF FC!ListInv, FC!ThreadRight
  <1>7. ~FC!Enqueues(t) /\ ~FC!Enqueues(t)' /\ ~FC!Holds(t)'
    BY Zenon, <1>1, <1>3 DEF FC!Enqueues, FC!Holds
  <1>8. FMine(t)
    BY Zenon, <1>1, <1>3, <1>7 DEF FMine, FOnlyRecord
  <1>9. FGrows(t) /\ FC!ListRight'
    BY Zenon, <1>1, <1>5, <1>8, FQuietList
  <1>10. FC!OneHolder'
    BY Zenon, <1>1, <1>7, FHolderStays DEF FC!ListInv
  <1>11. FC!ThreadRight(t)'
    BY Zenon, <1>1, <1>3, <1>6, <1>7 DEF FC!ThreadRight
  <1>12. FC!HolderRight(t)'
    BY Zenon, <1>3 DEF FC!HolderRight
  <1>13. FC!ListInv'
    BY Zenon, <1>1, <1>5, <1>7, <1>8, <1>9, <1>10, <1>11, <1>12, FMineKeeps
  <1>14. FC!Executed(t) /\ ~FC!Executed(t)'
    BY Zenon, <1>1, <1>3, <1>6 DEF FC!Executed
  <1>15. FSt(t) = "done" /\ FSt(t)' = "idle" /\ FRes(t) = request[t].val /\ FRes(t)' = None
    BY Zenon, <1>1, <1>3, <1>14 DEF FSt, FRes
  <1>16. \A u \in Threads : u # t => FSame(u)
    BY Zenon, <1>8, FMineSame
  <1>17. [u \in Threads |-> FSt(u)]' = [[u \in Threads |-> FSt(u)] EXCEPT ![t] = "idle"]
    BY Zenon, <1>15, <1>16 DEF FSame
  <1>18. [u \in Threads |-> FRes(u)]' = [[u \in Threads |-> FRes(u)] EXCEPT ![t] = None]
    BY Zenon, <1>15, <1>16 DEF FSame
  <1>19. [u \in Threads |-> FSt(u)][t] = "done"
    BY Zenon, <1>15
  <1>20. ret' = [ret EXCEPT ![t] = [u \in Threads |-> FRes(u)][t]]
    BY Zenon, <1>1, <1>15
  <1>21. FC!Abstract!Return(t)
    BY Zenon, <1>1, <1>17, <1>18, <1>19, <1>20 DEF FC!Abstract!Return, FSt, FRes
  <1>22. FC!Serves
    BY Zenon, <1>21 DEF FC!Serves, FC!Abstract!Next
  <1> QED BY Zenon, <1>13, <1>22

\* enqueue_request is called: the record is not in the list.
LEMMA FInactiveStep ==
  ASSUME FC!Sizes, FC!ListInv, NEW t \in Threads, FAlone(t), NEW from, NEW l, FC!Enqueue(t, from, l),
         \/ from = "active?" /\ l = "spin"
         \/ from = "locked" /\ l = "combine",
         ~request[t].active
  PROVE  FC!ListInv' /\ FC!Serves
  <1>1. /\ pc[t] = from /\ FC!Goto(t, "supposed")
        /\ request' = [request EXCEPT ![t].active = TRUE] /\ then' = [then EXCEPT ![t] = l]
        /\ UNCHANGED <<lock, head, cur, prev, seen, op, ret, mem>>
    BY Zenon DEF FC!Enqueue, FC!Caller
  <1>2. "supposed" \in FC!Labels
    BY Zenon DEF FC!Labels
  <1>3. pc' \in [Threads -> FC!Labels] /\ pc'[t] = "supposed"
    BY Zenon, <1>1, <1>2, FMoves, FTypes
  <1>4. /\ FRecs' /\ FOnlyRecord(t) /\ request'[t].active = TRUE
        /\ request'[t].next = request[t].next /\ request'[t].pending = request[t].pending
        /\ request'[t].val = request[t].val
    BY Zenon, <1>1, FWriteActive, FTypes
  <1>5. then' = [u \in Threads |-> then'[u]] /\ then'[t] = l
    BY Zenon, <1>1, FTypes
  <1>6. FC!TypeOK'
    BY Zenon, <1>1, <1>3, <1>4, <1>5, FKept, FTypes DEF FC!Pointer
  <1>7. FMine(t)
    BY Zenon, <1>1, <1>3, <1>4 DEF FMine
  <1>8. FGrows(t) /\ FC!ListRight'
    BY Zenon, <1>1, <1>4, <1>6, <1>7, FQuietList
  <1>9. FC!Holds(t)' => FC!Holds(t)
    BY Zenon, <1>1, <1>3, <1>5 DEF FC!Holds, FC!Enqueues
  <1>10. FC!OneHolder'
    BY Zenon, <1>1, <1>9, FHolderStays DEF FC!ListInv
  <1>11. FC!ThreadRight(t) /\ pc[t] # "idle" /\ op'[t] = op[t]
    BY Zenon, <1>1 DEF FC!ListInv
  <1>12. FC!Executed(t)' <=> FC!Executed(t)
    BY Zenon, <1>3, <1>4, <1>7, <1>11, FOthersExecuted DEF FMine
  <1>13. FC!ThreadRight(t)'
    BY Zenon, <1>3, <1>4, <1>5, <1>11, <1>12 DEF FC!ThreadRight, FC!Ops
  <1>14. FC!HolderRight(t)'
    BY Zenon, <1>3 DEF FC!HolderRight
  <1>15. FC!Enqueues(t)'
    BY Zenon, <1>3 DEF FC!Enqueues
  <1>16. FC!ListInv'
    BY ZenonT(60), <1>6, <1>7, <1>8, <1>10, <1>13, <1>14, <1>15, FMineKeeps
  <1>17. FC!Serves
    BY ZenonT(60), <1>1, <1>3, <1>4, <1>7, <1>11, FMineUnseen
  <1> QED BY Zenon, <1>16, <1>17

\* The head is read, and written to a record that is not in the list.
LEMMA FReadHeadStep ==
  ASSUME FC!Sizes, FC!ListInv, NEW t \in Threads, FAlone(t), FC!ReadHead(t)
  PROVE  FC!ListInv' /\ FC!Serves
  <1>1. /\ pc[t] = "supposed" /\ FC!Goto(t, "push")
        /\ request' = [request EXCEPT ![t].next = head]
        /\ UNCHANGED <<lock, head, then, cur, prev, seen, op, ret, mem>>
    BY Zenon DEF FC!ReadHead, FC!Caller
  <1>2. "push" \in FC!Labels
    BY Zenon DEF FC!Labels
  <1>3. pc' \in [Threads -> FC!Labels] /\ pc'[t] = "push"
    BY Zenon, <1>1, <1>2, FMoves, FTypes
  <1>4. /\ FRecs' /\ FOnlyRecord(t) /\ request'[t].active = request[t].active
        /\ request'[t].pending = request[t].pending /\ request'[t].val = request[t].val
    BY Zenon, <1>1, FWriteNext, FTypes
  <1>5. FC!TypeOK'
    BY Zenon, <1>1, <1>3, <1>4, FKept, FTypes DEF FC!Pointer
  <1>6. FC!Enqueues(t) /\ FC!Enqueues(t)'
    BY Zenon, <1>1, <1>3 DEF FC!Enqueues
  <1>7. FMine(t)
    BY Zenon, <1>1, <1>3, <1>4, <1>6 DEF FMine
  <1>8. FGrows(t) /\ FC!ListRight'
    BY Zenon, <1>1, <1>5, <1>6, <1>7, FQuietList
  <1>9. FC!Holds(t)' => FC!Holds(t)
    BY Zenon, <1>1, <1>3, <1>6 DEF FC!Holds
  <1>10. FC!OneHolder'
    BY Zenon, <1>1, <1>9, FHolderStays DEF FC!ListInv
  <1>11. FC!ThreadRight(t) /\ pc[t] # "idle" /\ op'[t] = op[t] /\ then'[t] = then[t]
    BY Zenon, <1>1 DEF FC!ListInv
  <1>12. FC!Executed(t)' <=> FC!Executed(t)
    BY Zenon, <1>3, <1>4, <1>7, <1>11, FOthersExecuted DEF FMine
  <1>13. FC!ThreadRight(t)'
    BY Zenon, <1>3, <1>4, <1>6, <1>11, <1>12 DEF FC!ThreadRight, FC!Ops
  <1>14. FC!HolderRight(t)'
    BY Zenon, <1>3 DEF FC!HolderRight
  <1>15. FC!ListInv'
    BY ZenonT(60), <1>5, <1>6, <1>7, <1>8, <1>10, <1>13, <1>14, FMineKeeps
  <1>16. FC!Serves
    BY Zenon, <1>1, <1>3, <1>4, <1>7, <1>11, FMineUnseen
  <1> QED BY Zenon, <1>15, <1>16

\* The compare-and-swap of the head: the record is put in front of the list, or
\* the head has changed.
LEMMA FPushStep ==
  ASSUME FC!Sizes, FC!ListInv, NEW t \in Threads, FAlone(t), FC!Push(t)
  PROVE  FC!ListInv' /\ FC!Serves
  <1>1. /\ pc[t] = "push"
        /\ UNCHANGED <<lock, request, cur, prev, seen, op, ret, mem>>
    BY Zenon DEF FC!Push, FC!Caller
  <1>2. FC!ThreadRight(t) /\ pc[t] # "idle" /\ op'[t] = op[t] /\ FC!Enqueues(t)
    BY Zenon, <1>1 DEF FC!ListInv, FC!Enqueues
  <1>3. /\ request[t].active /\ then[t] \in {"spin", "combine"}
        /\ t \notin FC!Listed
    BY Zenon, <1>2 DEF FC!ThreadRight, FC!ListInv, FC!ListRight
  <1>4. CASE head = request[t].next /\ head' = t /\ FC!Goto(t, then[t]) /\ then' = [then EXCEPT ![t] = None]
    <2>1. then[t] \in FC!Labels
      BY Zenon, <1>3 DEF FC!Labels
    <2>2. pc' \in [Threads -> FC!Labels] /\ pc'[t] = then[t]
      BY Zenon, <1>4, <2>1, FMoves, FTypes
    <2>3. then' = [u \in Threads |-> then'[u]] /\ head' \in FC!Pointer
      BY Zenon, <1>4, FTypes DEF FC!Pointer
    <2>4. FC!TypeOK'
      BY Zenon, <1>1, <2>2, <2>3, FKept, FTypes DEF FC!Pointer, FRecs
    <2>5. pc'[t] \in {"spin", "combine"} /\ ~FC!Enqueues(t)'
      BY Zenon, <1>3, <2>2 DEF FC!Enqueues
    <2>6. FMine(t)
      BY Zenon, <1>1, <2>5 DEF FMine, FOnlyRecord
    <2>7. /\ FC!Listed' = FC!Listed \cup {t}
          /\ \A a \in FC!Pointer, b \in Threads : FC!Reach(a, b)' <=> FC!Reach(a, b)
      BY Zenon, <1>1, <1>4, <2>4, FPushedList, FTypes
    <2>8. FGrows(t)
      BY Zenon, <1>2, <2>7 DEF FGrows, FC!Listed, FC!Pointer
    <2>9. FC!ListRight'
      <3>1. head \in FC!Listed \cup {None} /\ \A r \in FC!Listed : r \in Threads /\ request[r].next \in FC!Listed \cup {None}
        BY Zenon, FListClosed, FTypes
      <3>2. t # head /\ \A r \in FC!Listed : request[r].next # t
        BY Zenon, <1>3, <3>1 DEF FC!Sizes
      <3>3. /\ \A r \in FC!Listed : request[r].active /\ pc[r] \notin {"supposed", "push"} /\ request[r].next # head
            /\ \A r, s \in FC!Listed : request[r].next = request[s].next /\ request[r].next # None => r = s
        BY Zenon DEF FC!ListInv, FC!ListRight, FC!Enqueues
      <3>4. \A r \in FC!Listed : request'[r].active /\ pc'[r] \notin {"supposed", "push"} /\ request'[r].next # head'
        BY Zenon, <1>1, <1>3, <1>4, <3>1, <3>2, <3>3 DEF FAlone
      <3>5. request'[t].active /\ pc'[t] \notin {"supposed", "push"} /\ request'[t].next # head'
        BY Zenon, <1>1, <1>3, <1>4, <2>5, <3>2
      <3>6. \A r, s \in FC!Listed \cup {t} : request[r].next = request[s].next /\ request[r].next # None => r = s
        BY Zenon, <1>4, <3>3
      <3> QED BY Zenon, <1>1, <2>7, <3>4, <3>5, <3>6 DEF FC!ListRight, FC!Enqueues
    <2>10. FC!Holds(t)' => FC!Holds(t)
      BY Zenon, <1>2, <2>2, <2>5 DEF FC!Holds
    <2>11. FC!OneHolder'
      BY Zenon, <1>1, <2>10, FHolderStays DEF FC!ListInv
    <2>12. FC!Executed(t)' <=> FC!Executed(t)
      BY Zenon, <1>1, <1>2, <2>5, <2>6, FOthersExecuted DEF FMine
    <2>13. FC!ThreadRight(t)'
      BY Zenon, <1>1, <1>2, <2>5, <2>12 DEF FC!ThreadRight, FC!Ops
    <2>14. t \in FC!Listed'
      BY Zenon, <2>7
    <2>15. FC!HolderRight(t)'
      BY Zenon, <2>5, <2>14 DEF FC!HolderRight
    <2>16. FC!ListInv'
      BY ZenonT(60), <1>1, <1>3, <2>4, <2>6, <2>8, <2>9, <2>11, <2>13, <2>14, <2>15, FMineKeeps
    <2>17. FC!Serves
      BY ZenonT(60), <1>1, <1>2, <2>5, <2>6, FMineUnseen
    <2> QED BY Zenon, <2>16, <2>17
  <1>5. CASE head' = head /\ FC!Goto(t, "supposed") /\ UNCHANGED then
    <2>1. "supposed" \in FC!Labels
      BY Zenon DEF FC!Labels
    <2>2. FC!TypeOK' /\ pc'[t] = "supposed"
      BY Zenon, <1>1, <1>5, <2>1, FOnlyMoves, FTypes
    <2>3. FC!Enqueues(t)'
      BY Zenon, <2>2 DEF FC!Enqueues
    <2>4. FMine(t)
      BY Zenon, <1>1, <1>2, <2>2 DEF FMine, FOnlyRecord
    <2>5. FGrows(t) /\ FC!ListRight'
      BY Zenon, <1>1, <1>5, <2>2, <2>4, FQuietList
    <2>6. FC!Holds(t)' => FC!Holds(t)
      BY ZenonT(60), <1>2, <1>5, <2>2 DEF FC!Holds
    <2>7. FC!OneHolder'
      BY Zenon, <1>1, <2>6, FHolderStays DEF FC!ListInv
    <2>8. FC!Executed(t)' <=> FC!Executed(t)
      BY Zenon, <1>1, <1>2, <2>2, <2>4, FOthersExecuted DEF FMine
    <2>9. FC!ThreadRight(t)'
      BY Zenon, <1>1, <1>2, <1>3, <1>5, <2>2, <2>8 DEF FC!ThreadRight, FC!Ops
    <2>10. FC!HolderRight(t)'
      BY Zenon, <2>2 DEF FC!HolderRight
    <2>11. FC!ListInv'
      BY ZenonT(60), <1>1, <1>3, <2>2, <2>3, <2>4, <2>5, <2>7, <2>9, <2>10, FMineKeeps
    <2>12. FC!Serves
      BY Zenon, <1>1, <1>2, <2>2, <2>4, FMineUnseen
    <2> QED BY Zenon, <2>11, <2>12
  <1> QED BY Zenon, <1>4, <1>5 DEF FC!Push

\* While c has the lock, the others do nothing that takes it.
LEMMA FOnlyHolder ==
  ASSUME FC!ListInv, NEW c \in Threads, FAlone(c), FC!Holds(c), NEW u \in Threads, u # c
  PROVE  /\ pc[u] \notin {"done", "deactivate"} /\ pc'[u] = pc[u]
         /\ FC!HolderRight(u)' /\ (FC!Enqueues(u)' <=> FC!Enqueues(u)) /\ then'[u] = then[u] /\ op'[u] = op[u]
  <1>1. ~FC!Holds(u)
    BY Zenon, FOneOnly
  <1>2. pc'[u] = pc[u] /\ then'[u] = then[u] /\ op'[u] = op[u]
    BY Zenon DEF FAlone
  <1>3. pc[u] \notin {"locked", "combine", "scan", "store", "done", "clean", "deactivate", "unlock"}
    BY Zenon, <1>1 DEF FC!Holds
  <1>4. FC!HolderRight(u)'
    BY Zenon, <1>2, <1>3 DEF FC!HolderRight
  <1> QED BY Zenon, <1>2, <1>3, <1>4 DEF FC!Enqueues

\* A step of the thread with the lock that writes to no pointer, and to active only
\* to mark a record that is not in the list, keeps the invariant.
LEMMA FHolderKeeps ==
  ASSUME FC!Sizes, FC!ListInv, FC!TypeOK', NEW c \in Threads, FAlone(c), FC!Holds(c), lock' = lock, head' = head,
         pc[c] \notin {"supposed", "push"}, pc'[c] \notin {"supposed", "push", "deactivate"},
         \A r \in Threads : request'[r].next = request[r].next,
         \A r \in Threads : (pc[c] = "deactivate" /\ cur[c] = r) \/ request'[r].active = request[r].active,
         pc[c] = "deactivate" => ~request'[cur[c]].active,
         \A u \in Threads : FC!ThreadRight(u)', FC!HolderRight(c)'
  PROVE  FC!ListInv'
  <1>1. FC!Listed' = FC!Listed /\ \A r \in FC!Listed : r \in Threads
    BY Zenon, FSameList, FTypes DEF FC!Listed
  <1>2. \A u \in Threads : FC!HolderRight(u)'
    BY Zenon, FOnlyHolder
  <1>3. \A u \in Threads : FC!Enqueues(u)' <=> FC!Enqueues(u)
    BY Zenon, FOnlyHolder DEF FC!Enqueues
  <1>4. FC!ListRight'
    <2>1. \A r \in FC!Listed : request[r].active /\ ~FC!Enqueues(r) /\ request[r].next # head
      BY Zenon DEF FC!ListInv, FC!ListRight
    <2>2. pc[c] = "deactivate" => cur[c] \notin FC!Listed
      BY Zenon DEF FC!ListInv, FC!HolderRight
    <2>3. \A r \in FC!Listed : request'[r].active /\ ~FC!Enqueues(r)' /\ request'[r].next # head'
      BY Zenon, <1>1, <1>3, <2>1, <2>2
    <2>4. \A r, s \in FC!Listed : request'[r].next = request'[s].next /\ request'[r].next # None => r = s
      <3>1. \A r, s \in FC!Listed : request[r].next = request[s].next /\ request[r].next # None => r = s
        BY Zenon DEF FC!ListInv, FC!ListRight
      <3>2. \A r \in FC!Listed : request'[r].next = request[r].next
        BY Zenon, <1>1
      <3> QED BY Zenon, <3>1, <3>2
    <2> QED BY Zenon, <1>1, <2>3, <2>4 DEF FC!ListRight
  <1>5. FC!OneHolder'
    BY Zenon, FHolderStays DEF FC!ListInv
  <1>6. ASSUME NEW u \in Threads, request'[u].active PROVE u \in FC!Listed' \/ FC!Enqueues(u)'
    <2>1. ~(pc[c] = "deactivate" /\ cur[c] = u)
      BY Zenon, <1>6
    <2>2. request[u].active
      BY Zenon, <1>6, <2>1
    <2>3. u \in FC!Listed \/ FC!Enqueues(u) \/ \E d \in Threads : pc[d] = "deactivate" /\ cur[d] = u
      BY Zenon, <2>2 DEF FC!ListInv, FC!ActiveIsListed, FC!Enqueues
    <2>4. \A d \in Threads : pc[d] = "deactivate" => d = c
      BY Zenon, FOnlyHolder
    <2> QED BY Zenon, <1>1, <1>3, <2>1, <2>3, <2>4
  <1>7. FC!ActiveIsListed'
    BY Zenon, <1>6 DEF FC!ActiveIsListed, FC!Enqueues
  <1> QED BY Zenon, <1>2, <1>4, <1>5, <1>7 DEF FC!ListInv

\* The store: the request of record x takes effect.
LEMMA FStoreStep ==
  ASSUME FC!Sizes, FC!ListInv, NEW c \in Threads, FAlone(c), FC!Store(c)
  PROVE  FC!ListInv' /\ FC!Serves
  <1>0. pc[c] = "store" /\ FC!Holds(c) /\ FC!HolderRight(c)
    BY Zenon DEF FC!Store, FC!Holds, FC!ListInv
  <1>1. PICK x \in FC!Listed : x = cur[c]
    BY Zenon, <1>0 DEF FC!HolderRight
  <1>2. /\ x \in Threads /\ c \in FC!Listed /\ request[x].pending # None /\ seen[c] = mem[request[x].val]
        /\ request[c].pending # None => FC!Reach(x, c)
    BY Zenon, <1>0, <1>1 DEF FC!HolderRight, FC!Listed
  <1> DEFINE r == Apply(request[x].pending, seen[c])
  <1>3. /\ FC!Goto(c, "done") /\ seen' = [seen EXCEPT ![c] = InitVal]
        /\ mem' = [mem EXCEPT ![request[x].val] = r.val]
        /\ request' = [request EXCEPT ![x].val = r.ret]
        /\ UNCHANGED <<lock, head, then, cur, prev, op, ret>>
    BY Zenon, <1>1 DEF FC!Store, FC!Caller
  <1> HIDE DEF r
  <1>4. "done" \in FC!Labels
    BY Zenon DEF FC!Labels
  <1>5. pc' \in [Threads -> FC!Labels] /\ pc'[c] = "done"
    BY Zenon, <1>3, <1>4, FMoves, FTypes
  <1>6. /\ FRecs' /\ FOnlyRecord(x) /\ request'[x].val = r.ret
        /\ request'[x].next = request[x].next /\ request'[x].active = request[x].active
        /\ request'[x].pending = request[x].pending
    BY Zenon, <1>2, <1>3, FWriteVal, FTypes
  <1>7. seen' = [u \in Threads |-> seen'[u]] /\ mem' = [w \in Vars |-> mem'[w]]
    BY Zenon, <1>3, FTypes DEF FC!TypeOK
  <1>8. FC!TypeOK'
    BY Zenon, <1>3, <1>5, <1>6, <1>7, FTypes DEF FC!TypeOK, FRecs, FC!Pointer, FC!Labels, FC!IsRecord
  <1>9. \A u \in Threads : /\ request'[u].next = request[u].next /\ request'[u].active = request[u].active
                           /\ request'[u].pending = request[u].pending
                           /\ (pc'[u] = "idle" <=> pc[u] = "idle")
    BY Zenon, <1>0, <1>5, <1>6 DEF FOnlyRecord, FAlone
  <1>10. /\ \A u \in Threads : u # c => pc[u] # "done" /\ pc'[u] # "done"
         /\ \A u \in Threads : pc[u] # "done"
    BY Zenon, <1>0, FOnlyHolder
  <1>11. pc[x] # "idle" /\ FC!ThreadRight(x)
    BY Zenon, <1>2 DEF FC!ListInv, FC!ThreadRight
  <1>12. ~FC!Executed(x) /\ FC!Executed(x)'
    <2>1. pc'[c] = "done" /\ cur'[c] = x
      BY Zenon, <1>1, <1>3, <1>5
    <2> QED BY Zenon, <1>2, <1>9, <1>10, <1>11, <2>1 DEF FC!Executed
  <1>13. \A u \in Threads : u # x => (FC!Executed(u)' <=> FC!Executed(u))
    <2>1. cur'[c] = x
      BY Zenon, <1>1, <1>3
    <2> QED BY Zenon, <1>9, <1>10, <2>1 DEF FC!Executed
  <1>14. ASSUME NEW u \in Threads PROVE FC!ThreadRight(u)'
    <2>1. FC!ThreadRight(u) /\ op'[u] = op[u] /\ then'[u] = then[u]
      BY Zenon, <1>3 DEF FC!ListInv
    <2>2. CASE u = c
      <3>1. u # x => request'[u].val = request[u].val
        BY Zenon, <1>6 DEF FOnlyRecord
      <3>2. ~FC!Enqueues(u)' /\ pc'[u] \notin {"idle", "return", "clean", "deactivate", "unlock"} /\ pc[u] # "idle"
        BY Zenon, <1>0, <1>5, <2>2 DEF FC!Enqueues
      <3> QED BY ZenonT(60), <1>9, <1>12, <1>13, <2>1, <3>1, <3>2 DEF FC!ThreadRight, FC!Ops
    <2>3. CASE u # c
      <3>1. u # x => request'[u].val = request[u].val
        BY Zenon, <1>6 DEF FOnlyRecord
      <3>2. (FC!Enqueues(u)' <=> FC!Enqueues(u)) /\ pc'[u] = pc[u]
        BY Zenon, <1>0, <2>3, FOnlyHolder
      <3> QED BY ZenonT(60), <1>9, <1>12, <1>13, <2>1, <3>1, <3>2 DEF FC!ThreadRight, FC!Ops
    <2> QED BY Zenon, <2>2, <2>3
  <1>15. FC!HolderRight(c)'
    <2>1. /\ FC!Listed' = FC!Listed
          /\ \A a \in FC!Listed \cup {None}, b \in Threads : FC!Reach(a, b)' <=> FC!Reach(a, b)
      BY Zenon, <1>3, <1>8, <1>9, FSameList, FTypes DEF FC!Listed
    <2>2. request'[c].pending # None => FC!Reach(x, c)'
      BY Zenon, <1>2, <1>9, <2>1
    <2>3. cur'[c] = x
      BY Zenon, <1>1, <1>3
    <2>4. FC!Reach(x, c)' => FC!Reach(cur[c], c)'
      BY Zenon, <2>3 DEF FC!Reach
    <2>5. x # None /\ request'[cur'[c]].pending # None
      BY Zenon, <1>2, <1>9, <2>3 DEF FC!Sizes
    <2> QED BY ZenonT(60), <1>2, <1>5, <2>1, <2>2, <2>3, <2>4, <2>5 DEF FC!HolderRight
  <1>16. FC!ListInv'
    BY Zenon, <1>0, <1>3, <1>5, <1>8, <1>9, <1>14, <1>15, FHolderKeeps
  <1>17. request[x].pending = op[x].fn /\ request[x].val = op[x].var
    BY Zenon, <1>2, <1>11, <1>12 DEF FC!ThreadRight
  <1>18. FSt(x) = "pending" /\ FSt(x)' = "done" /\ FRes(x)' = r.ret
    BY Zenon, <1>6, <1>9, <1>11, <1>12, <1>2 DEF FSt, FRes
  <1>19. ASSUME NEW u \in Threads, u # x PROVE FSame(u)
    <2>1. request'[u] = request[u]
      BY Zenon, <1>6, <1>19 DEF FOnlyRecord
    <2> QED BY Zenon, <1>9, <1>13, <1>19, <2>1 DEF FSame, FSt, FRes
  <1>20. r = Apply(op[x].fn, mem[op[x].var])
    BY Zenon, <1>2, <1>17 DEF r
  <1>21. [u \in Threads |-> FSt(u)]' = [[u \in Threads |-> FSt(u)] EXCEPT ![x] = "done"]
    BY Zenon, <1>18, <1>19 DEF FSame
  <1>22. [u \in Threads |-> FRes(u)]' = [[u \in Threads |-> FRes(u)] EXCEPT ![x] = r.ret]
    BY Zenon, <1>18, <1>19 DEF FSame
  <1>23. [u \in Threads |-> FSt(u)][x] = "pending"
    BY Zenon, <1>2, <1>18
  <1>24. mem' = [mem EXCEPT ![op[x].var] = r.val]
    BY Zenon, <1>3, <1>17
  <1>25. FC!Abstract!Execute(x)
    BY Zenon, <1>3, <1>20, <1>21, <1>22, <1>23, <1>24 DEF FC!Abstract!Execute, FSt, FRes
  <1>26. FC!Serves
    BY Zenon, <1>2, <1>25 DEF FC!Serves, FC!Abstract!Next
  <1> QED BY Zenon, <1>16, <1>26

\* The request is marked as executed, and the loop goes on behind it.
LEMMA FDoneStep ==
  ASSUME FC!Sizes, FC!ListInv, NEW c \in Threads, FAlone(c), FC!Done(c)
  PROVE  FC!ListInv' /\ FC!Serves
  <1>0. pc[c] = "done" /\ FC!Holds(c) /\ FC!HolderRight(c)
    BY Zenon DEF FC!Done, FC!Holds, FC!ListInv
  <1>1. PICK x \in FC!Listed : x = cur[c]
    BY Zenon, <1>0 DEF FC!HolderRight
  <1>2. /\ x \in Threads /\ c \in FC!Listed /\ request[x].pending # None
        /\ request[c].pending # None => FC!Reach(x, c)
    BY Zenon, <1>0, <1>1 DEF FC!HolderRight, FC!Listed
  <1>3. /\ FC!Goto(c, "scan") /\ cur' = [cur EXCEPT ![c] = request[x].next]
        /\ request' = [request EXCEPT ![x].pending = None, ![x].age = count]
        /\ UNCHANGED <<lock, head, then, prev, seen, op, ret, mem>>
    BY Zenon, <1>1 DEF FC!Done, FC!Caller
  <1>4. "scan" \in FC!Labels
    BY Zenon DEF FC!Labels
  <1>5. pc' \in [Threads -> FC!Labels] /\ pc'[c] = "scan"
    BY Zenon, <1>3, <1>4, FMoves, FTypes
  <1>6. /\ FRecs' /\ FOnlyRecord(x) /\ request'[x].pending = None
        /\ request'[x].next = request[x].next /\ request'[x].active = request[x].active
        /\ request'[x].val = request[x].val
    BY Zenon, <1>2, <1>3, FWriteDone, FTypes
  <1>7. PICK a \in FC!Listed \cup {None} : a = request[x].next
    BY Zenon, FListClosed, FTypes
  <1>8. cur' \in [Threads -> FC!Pointer] /\ cur'[c] = a
    <2>1. request[x].next \in FC!Pointer
      BY Zenon, <1>2, FTypes
    <2> QED BY Zenon, <1>3, <1>7, <2>1, FTypes
  <1>9. FC!TypeOK'
    BY Zenon, <1>3, <1>5, <1>6, <1>8, FKept, FTypes DEF FC!Pointer
  <1>10. \A u \in Threads : /\ request'[u].next = request[u].next /\ request'[u].active = request[u].active
                            /\ request'[u].val = request[u].val
                            /\ (u # x => request'[u].pending = request[u].pending)
                            /\ (pc'[u] = "idle" <=> pc[u] = "idle")
    BY Zenon, <1>0, <1>5, <1>6 DEF FOnlyRecord, FAlone
  <1>11. \A u \in Threads : pc'[u] # "done" /\ (pc[u] = "done" => u = c)
    BY Zenon, <1>0, <1>5, FOnlyHolder
  <1>12. pc[x] # "idle"
    BY Zenon, <1>2 DEF FC!ListInv, FC!ThreadRight
  <1>13. \A u \in Threads : FC!Executed(u)' <=> FC!Executed(u)
    <2>1. FC!Executed(x)' /\ FC!Executed(x)
      BY Zenon, <1>0, <1>1, <1>6, <1>10, <1>12, <1>2 DEF FC!Executed
    <2>2. \A u \in Threads : u # x => (FC!Executed(u)' <=> FC!Executed(u))
      BY Zenon, <1>1, <1>10, <1>11 DEF FC!Executed
    <2> QED BY Zenon, <2>1, <2>2
  <1>14. ASSUME NEW u \in Threads PROVE FC!ThreadRight(u)'
    <2>1. FC!ThreadRight(u) /\ op'[u] = op[u] /\ then'[u] = then[u]
      BY Zenon, <1>3 DEF FC!ListInv
    <2>2. u = x => request'[u].pending = None
      BY Zenon, <1>6
    <2>3. CASE u = c
      <3>1. ~FC!Enqueues(u)' /\ pc'[u] \notin {"idle", "return", "clean", "deactivate", "unlock"} /\ pc[u] # "idle"
        BY Zenon, <1>0, <1>5, <2>3 DEF FC!Enqueues
      <3> QED BY Zenon, <1>10, <1>13, <2>1, <2>2, <3>1 DEF FC!ThreadRight, FC!Ops
    <2>4. CASE u # c
      <3>1. (FC!Enqueues(u)' <=> FC!Enqueues(u)) /\ pc'[u] = pc[u]
        BY Zenon, <1>0, <2>4, FOnlyHolder
      <3> QED BY Zenon, <1>10, <1>13, <2>1, <2>2, <3>1 DEF FC!ThreadRight, FC!Ops
    <2> QED BY Zenon, <2>3, <2>4
  <1>15. FC!HolderRight(c)'
    <2>1. /\ FC!Listed' = FC!Listed
          /\ \A b \in FC!Listed \cup {None}, d \in Threads : FC!Reach(b, d)' <=> FC!Reach(b, d)
      BY Zenon, <1>3, <1>9, <1>10, FSameList, FTypes DEF FC!Listed
    <2>2. request'[c].pending # None => FC!Reach(a, c)
      <3>1. request'[c].pending # None => c # x /\ request[c].pending # None
        BY Zenon, <1>6, <1>10
      <3> QED BY Zenon, <1>2, <1>7, <3>1, FReachOn, FTypes
    <2>3. request'[c].pending # None => FC!Reach(a, c)'
      BY Zenon, <2>1, <2>2
    <2>4. FC!Reach(a, c)' => FC!Reach(cur[c], c)'
      BY Zenon, <1>8 DEF FC!Reach
    <2> QED BY Zenon, <1>2, <1>5, <1>8, <2>1, <2>3, <2>4 DEF FC!HolderRight
  <1>16. FC!ListInv'
    BY ZenonT(60), <1>0, <1>3, <1>5, <1>9, <1>10, <1>14, <1>15, FHolderKeeps
  <1>17. FC!Serves
    BY Zenon, <1>3, <1>10, <1>13, FUnseen
  <1> QED BY Zenon, <1>16, <1>17

\* The record that was taken out of the list is marked, so that its owner sees it.
LEMMA FDeactivateStep ==
  ASSUME FC!Sizes, FC!ListInv, NEW c \in Threads, FAlone(c), FC!Deactivate(c)
  PROVE  FC!ListInv' /\ FC!Serves
  <1>0. pc[c] = "deactivate" /\ FC!Holds(c) /\ FC!HolderRight(c)
    BY Zenon DEF FC!Deactivate, FC!Holds, FC!ListInv
  <1>1. PICK x \in Threads : x = cur[c] /\ x \notin FC!Listed /\ pc[x] \notin {"supposed", "push"}
    BY Zenon, <1>0 DEF FC!HolderRight, FC!Enqueues
  <1>2. /\ FC!Goto(c, "clean") /\ request' = [request EXCEPT ![x].active = FALSE]
        /\ UNCHANGED <<lock, head, then, cur, prev, seen, op, ret, mem>>
    BY Zenon, <1>1 DEF FC!Deactivate, FC!Caller
  <1>3. "clean" \in FC!Labels
    BY Zenon DEF FC!Labels
  <1>4. pc' \in [Threads -> FC!Labels] /\ pc'[c] = "clean"
    BY Zenon, <1>2, <1>3, FMoves, FTypes
  <1>5. /\ FRecs' /\ FOnlyRecord(x) /\ request'[x].active = FALSE
        /\ request'[x].next = request[x].next /\ request'[x].pending = request[x].pending
        /\ request'[x].val = request[x].val
    BY Zenon, <1>2, FWriteActive, FTypes
  <1>6. FC!TypeOK'
    BY Zenon, <1>2, <1>4, <1>5, FKept, FTypes DEF FC!Pointer
  <1>7. \A u \in Threads : /\ request'[u].next = request[u].next /\ request'[u].pending = request[u].pending
                           /\ request'[u].val = request[u].val
                           /\ (u # x => request'[u].active = request[u].active)
                           /\ (pc'[u] = "idle" <=> pc[u] = "idle")
    BY Zenon, <1>0, <1>4, <1>5 DEF FOnlyRecord, FAlone
  <1>8. \A u \in Threads : FC!Executed(u)' <=> FC!Executed(u)
    BY Zenon, <1>0, <1>4, <1>7, FOthersExecuted
  <1>9. ASSUME NEW u \in Threads PROVE FC!ThreadRight(u)'
    <2>1. FC!ThreadRight(u) /\ op'[u] = op[u] /\ then'[u] = then[u]
      BY Zenon, <1>2 DEF FC!ListInv
    <2>2. CASE u = c
      <3>1. ~FC!Enqueues(u)' /\ pc'[u] # "idle" /\ pc[u] # "idle"
        BY Zenon, <1>0, <1>4, <2>2 DEF FC!Enqueues
      <3>2. request'[u].pending = None
        BY Zenon, <1>0, <1>7, <2>1, <2>2 DEF FC!ThreadRight
      <3> QED BY Zenon, <2>1, <3>1, <3>2 DEF FC!ThreadRight, FC!Ops
    <2>3. CASE u # c
      <3>1. (FC!Enqueues(u)' <=> FC!Enqueues(u)) /\ pc'[u] = pc[u]
        BY Zenon, <1>0, <2>3, FOnlyHolder
      <3>2. FC!Enqueues(u) => u # x
        BY Zenon, <1>1 DEF FC!Enqueues
      <3> QED BY Zenon, <1>7, <1>8, <2>1, <3>1, <3>2 DEF FC!ThreadRight, FC!Ops
    <2> QED BY Zenon, <2>2, <2>3
  <1>10. FC!HolderRight(c)'
    <2>1. FC!Listed' = FC!Listed
      BY Zenon, <1>2, <1>6, <1>7, FSameList, FTypes DEF FC!Listed
    <2>2. prev'[c] \in FC!Listed'
      BY Zenon, <1>0, <1>2, <2>1 DEF FC!HolderRight
    <2> QED BY Zenon, <1>4, <2>2 DEF FC!HolderRight
  <1>11. /\ \A r \in Threads : (pc[c] = "deactivate" /\ cur[c] = r) \/ request'[r].active = request[r].active
         /\ ~request'[cur[c]].active
    BY Zenon, <1>0, <1>1, <1>5, <1>7
  <1>12. FC!ListInv'
    BY ZenonT(60), <1>0, <1>2, <1>4, <1>6, <1>7, <1>9, <1>10, <1>11, FHolderKeeps
  <1>13. FC!Serves
    BY Zenon, <1>2, <1>7, <1>8, FUnseen
  <1> QED BY Zenon, <1>12, <1>13

\* The clean-up takes record x out of the list, behind record p.
FUnlinks(c, p, x) ==
  /\ pc[c] = "clean" /\ p = prev[c] /\ x = request[p].next
  /\ request' = [request EXCEPT ![p].next = request[x].next]
  /\ cur' = [cur EXCEPT ![c] = x] /\ FC!Goto(c, "deactivate")
  /\ UNCHANGED <<lock, head, then, prev, seen, op, ret, mem>>

LEMMA FUnlinkStep ==
  ASSUME FC!Sizes, FC!ListInv, NEW c \in Threads, FAlone(c), NEW p \in FC!Listed, NEW x \in Threads,
         FUnlinks(c, p, x)
  PROVE  FC!ListInv' /\ FC!Serves
  <1>0. FC!Holds(c) /\ p \in Threads
    BY Zenon DEF FUnlinks, FC!Holds, FC!Listed
  <1>1. "deactivate" \in FC!Labels
    BY Zenon DEF FC!Labels
  <1>2. pc' \in [Threads -> FC!Labels] /\ pc'[c] = "deactivate"
    BY Zenon, <1>1, FMoves, FTypes DEF FUnlinks
  <1>3. /\ FRecs' /\ FOnlyRecord(p) /\ request'[p].next = request[x].next
        /\ request'[p].active = request[p].active /\ request'[p].pending = request[p].pending
        /\ request'[p].val = request[p].val
    BY Zenon, <1>0, FWriteNext, FTypes DEF FUnlinks
  <1>4. cur' \in [Threads -> FC!Pointer] /\ cur'[c] = x
    BY Zenon, FTypes DEF FUnlinks, FC!Pointer
  <1>5. FC!TypeOK'
    BY Zenon, <1>2, <1>3, <1>4, FKept, FTypes DEF FUnlinks, FC!Pointer
  <1>6. \A u \in Threads : /\ request'[u].active = request[u].active /\ request'[u].pending = request[u].pending
                           /\ request'[u].val = request[u].val
                           /\ (u # p => request'[u].next = request[u].next)
                           /\ (pc'[u] = "idle" <=> pc[u] = "idle")
    BY Zenon, <1>2, <1>3 DEF FUnlinks, FOnlyRecord, FAlone
  <1>7. FC!Listed' = FC!Listed \ {x} /\ x \in FC!Listed /\ p # x /\ p \in FC!Listed'
    <2>1. head' = head /\ request[p].next = x /\ FC!ListRight
      BY Zenon DEF FUnlinks, FC!ListInv
    <2> QED BY ZenonT(60), <1>3, <1>5, <1>6, <2>1, FUnlinkedList, FTypes
  <1>8. \A u \in Threads : FC!Executed(u)' <=> FC!Executed(u)
    <2>1. pc[c] # "done" /\ pc'[c] # "done"
      BY Zenon, <1>2 DEF FUnlinks
    <2> QED BY Zenon, <1>6, <2>1, FOthersExecuted
  <1>9. \A u \in Threads : FC!Enqueues(u)' <=> FC!Enqueues(u)
    BY Zenon, <1>2 DEF FUnlinks, FC!Enqueues, FAlone
  <1>10. ASSUME NEW u \in Threads PROVE FC!ThreadRight(u)'
    <2>1. FC!ThreadRight(u) /\ op'[u] = op[u] /\ then'[u] = then[u]
      BY Zenon DEF FUnlinks, FC!ListInv
    <2>2. pc'[u] \in {"idle", "return", "clean", "deactivate", "unlock"}
            => pc[u] \in {"idle", "return", "clean", "deactivate", "unlock"}
      BY Zenon, <1>2 DEF FUnlinks, FAlone
    <2> QED BY Zenon, <1>6, <1>8, <1>9, <2>1, <2>2 DEF FC!ThreadRight, FC!Ops
  <1>11. /\ \A r \in FC!Listed : request[r].active /\ ~FC!Enqueues(r) /\ request[r].next # head /\ r \in Threads
         /\ \A r, s \in FC!Listed : request[r].next = request[s].next /\ request[r].next # None => r = s
    BY Zenon DEF FC!ListInv, FC!ListRight, FC!Listed
  <1>12. FC!ListRight'
    <2>1. \A r \in FC!Listed : request'[r].active /\ ~FC!Enqueues(r)' /\ request'[r].next # head'
      <3>1. head' = head /\ request'[p].next # head
        BY Zenon, <1>3, <1>7, <1>11 DEF FUnlinks
      <3> QED BY Zenon, <1>6, <1>9, <1>11, <3>1
    <2>2. ASSUME NEW r \in FC!Listed, NEW s \in FC!Listed, r # x, s # x,
                 request'[r].next = request'[s].next, request'[r].next # None
          PROVE  r = s
      <3>1. ASSUME NEW q \in FC!Listed, q # p, request[q].next = request[x].next, request[q].next # None
            PROVE  q = x
        BY Zenon, <1>7, <1>11, <3>1
      <3>2. /\ r # p => request'[r].next = request[r].next
            /\ s # p => request'[s].next = request[s].next
        BY Zenon, <1>6, <1>11
      <3>3. CASE r = p
        <4>1. SUFFICES ASSUME s # p PROVE FALSE
          BY Zenon, <3>3
        <4>2. request[s].next = request[x].next /\ request[s].next # None
          BY Zenon, <1>3, <2>2, <3>2, <3>3, <4>1
        <4> QED BY Zenon, <2>2, <3>1, <4>1, <4>2
      <3>4. CASE s = p /\ r # p
        <4>1. request[r].next = request[x].next /\ request[r].next # None
          BY Zenon, <1>3, <2>2, <3>2, <3>4
        <4> QED BY Zenon, <2>2, <3>1, <3>4, <4>1
      <3>5. CASE r # p /\ s # p
        <4>1. request[r].next = request[s].next /\ request[r].next # None
          BY Zenon, <2>2, <3>2, <3>5
        <4> QED BY Zenon, <1>11, <4>1
      <3> QED BY Zenon, <3>3, <3>4, <3>5
    <2> QED BY Zenon, <1>7, <2>1, <2>2 DEF FC!ListRight
  <1>13. FC!HolderRight(c)'
    <2>1. cur'[c] \in Threads \ FC!Listed' /\ request'[cur'[c]].active
      BY Zenon, <1>4, <1>6, <1>7, <1>11
    <2>2. pc'[x] \notin {"supposed", "push"}
      BY Zenon, <1>7, <1>9, <1>11 DEF FC!Enqueues
    <2>3. ~FC!Enqueues(cur[c])'
      BY Zenon, <1>4, <2>2 DEF FC!Enqueues
    <2>4. prev'[c] \in FC!Listed'
      BY Zenon, <1>7 DEF FUnlinks
    <2> QED BY Zenon, <1>2, <2>1, <2>3, <2>4 DEF FC!HolderRight
  <1>14. \A u \in Threads : FC!HolderRight(u)'
    BY Zenon, <1>0, <1>13, FOnlyHolder
  <1>15. FC!Holds(c)' => FC!Holds(c)
    BY Zenon, <1>0
  <1>16. FC!OneHolder'
    BY Zenon, <1>15, FHolderStays DEF FUnlinks, FC!ListInv
  <1>17. ASSUME NEW u \in Threads, request'[u].active
         PROVE  u \in FC!Listed' \/ FC!Enqueues(u)' \/ \E d \in Threads : pc'[d] = "deactivate" /\ cur'[d] = u
    <2>1. u \in FC!Listed \/ FC!Enqueues(u) \/ \E d \in Threads : pc[d] = "deactivate" /\ cur[d] = u
      BY Zenon, <1>6, <1>17 DEF FC!ListInv, FC!ActiveIsListed, FC!Enqueues
    <2>2. \A d \in Threads : pc[d] # "deactivate"
      BY Zenon, <1>0, FOnlyHolder DEF FUnlinks
    <2> QED BY Zenon, <1>2, <1>4, <1>7, <1>9, <2>1, <2>2
  <1>18. FC!ActiveIsListed'
    BY Zenon, <1>17 DEF FC!ActiveIsListed, FC!Enqueues
  <1>19. FC!ListInv'
    BY Zenon, <1>5, <1>10, <1>12, <1>14, <1>16, <1>18 DEF FC!ListInv
  <1>20. FC!Serves
    BY Zenon, <1>6, <1>8, FUnseen DEF FUnlinks
  <1> QED BY Zenon, <1>19, <1>20

\* The clean-up: the list has ended, or a record is taken out of it or passed.
LEMMA FCleanStep ==
  ASSUME FC!Sizes, FC!ListInv, NEW c \in Threads, FAlone(c), FC!Clean(c)
  PROVE  FC!ListInv' /\ FC!Serves
  <1>1. /\ pc[c] = "clean" /\ UNCHANGED <<lock, head, then, seen, op, ret, mem>>
    BY Zenon DEF FC!Clean, FC!Caller
  <1>2. PICK p \in FC!Listed : p = prev[c]
    BY Zenon, <1>1 DEF FC!ListInv, FC!HolderRight
  <1>3. p \in Threads /\ request[c].pending = None
    BY Zenon, <1>1 DEF FC!Listed, FC!ListInv, FC!ThreadRight
  <1>4. PICK x \in FC!Listed \cup {None} : x = request[p].next
    BY Zenon, FListClosed, FTypes
  <1>5. FC!Holds(c)
    BY Zenon, <1>1 DEF FC!Holds
  <1>6. FC!OneHolder'
    BY Zenon, <1>1, <1>5, FHolderStays DEF FC!ListInv
  <1>7. CASE FC!Goto(c, "unlock") /\ UNCHANGED <<cur, prev, request>>
    <2>1. "unlock" \in FC!Labels
      BY Zenon DEF FC!Labels
    <2>2. FC!TypeOK' /\ pc'[c] = "unlock" /\ cur'[c] = cur[c] /\ cur[c] \in FC!Pointer
      BY Zenon, <1>1, <1>7, <2>1, FOnlyMoves, FTypes
    <2> QED BY Zenon, <1>1, <1>3, <1>6, <1>7, <2>2, FPlainStep
  <1>8. CASE /\ x # None /\ request' = [request EXCEPT ![p].next = request[x].next]
             /\ cur' = [cur EXCEPT ![c] = x] /\ FC!Goto(c, "deactivate") /\ UNCHANGED prev
    <2>1. x \in Threads
      BY Zenon, <1>8 DEF FC!Listed
    <2>2. FUnlinks(c, p, x)
      BY Zenon, <1>1, <1>2, <1>4, <1>8 DEF FUnlinks
    <2> QED BY Zenon, <2>1, <2>2, FUnlinkStep
  <1>9. CASE x # None /\ prev' = [prev EXCEPT ![c] = x] /\ UNCHANGED <<pc, cur, request>>
    <2>1. x \in FC!Listed /\ x \in FC!Pointer
      BY Zenon, <1>9 DEF FC!Listed, FC!Pointer
    <2>2. /\ prev' \in [Threads -> FC!Pointer] /\ prev'[c] = x /\ pc'[c] = "clean" /\ pc' \in [Threads -> FC!Labels]
          /\ cur' \in [Threads -> FC!Pointer] /\ cur'[c] = cur[c] /\ cur[c] \in FC!Pointer
      BY Zenon, <1>1, <1>9, <2>1, FTypes DEF FC!Labels, FC!Pointer
    <2>3. FC!TypeOK'
      BY Zenon, <1>1, <1>9, <2>2, FKept, FTypes DEF FC!Pointer, FRecs
    <2> QED BY Zenon, <1>1, <1>3, <1>6, <1>9, <2>1, <2>2, <2>3, FPlainStep
  <1> QED BY Zenon, <1>2, <1>4, <1>7, <1>8, <1>9 DEF FC!Clean

LEMMA FInitInv == FC!Sizes /\ FC!Init => FC!ListInv
  <1> SUFFICES ASSUME FC!Sizes, FC!Init PROVE FC!ListInv
    OBVIOUS
  <1>1. /\ lock = FALSE /\ head = None
        /\ \A t \in Threads : /\ pc[t] = "idle" /\ ~request[t].active /\ request[t].pending = None
                              /\ request[t].next = None
    BY Zenon DEF FC!Init
  <1>2. \A t \in Threads : FC!IsRecord(request[t])
    BY DEF FC!Init, FC!IsRecord, FC!Pointer
  <1>3. FC!TypeOK
    BY Zenon, <1>2 DEF FC!Init, FC!TypeOK, FC!Pointer, FC!Labels
  <1>4. FC!Listed = {}
    BY Zenon, <1>1, <1>3, FReachOn DEF FC!Listed
  <1>5. \A t \in Threads : ~FC!Holds(t) /\ ~FC!Enqueues(t)
    BY Zenon, <1>1 DEF FC!Holds, FC!Enqueues
  <1>6. FC!OneHolder /\ FC!ListRight /\ FC!ActiveIsListed
    BY Zenon, <1>1, <1>4, <1>5 DEF FC!OneHolder, FC!ListRight, FC!ActiveIsListed
  <1>7. \A t \in Threads : FC!ThreadRight(t) /\ FC!HolderRight(t)
    BY Zenon, <1>1, <1>5 DEF FC!ThreadRight, FC!HolderRight
  <1> QED BY Zenon, <1>3, <1>6, <1>7 DEF FC!ListInv

LEMMA FInitServes == FC!Init => FC!Abstract!Init
  <1> SUFFICES ASSUME FC!Init PROVE FC!Abstract!Init
    OBVIOUS
  <1>1. \A t \in Threads : pc[t] = "idle"
    BY Zenon DEF FC!Init
  <1>2. \A t \in Threads : FSt(t) = "idle" /\ FRes(t) = None
    BY Zenon, <1>1 DEF FSt, FRes, FC!Executed
  <1>3. /\ [t \in Threads |-> FSt(t)] = [t \in Threads |-> "idle"]
        /\ [t \in Threads |-> FRes(t)] = [t \in Threads |-> None]
    BY Zenon, <1>2
  <1> QED BY Zenon, <1>3 DEF FC!Init, FC!Abstract!Init, FSt, FRes

\* A step that changes nothing keeps the invariant.
LEMMA FSameInv ==
  ASSUME UNCHANGED FC!vars
  PROVE  (FC!ListInv => FC!ListInv') /\ FC!Serves
  <1>1. UNCHANGED <<lock, count, head, request, pc, then, cur, prev, seen, op, ret, calls, mem>>
    BY Zenon DEF FC!vars
  <1>2. FC!TypeOK => FC!TypeOK'
    BY Zenon, <1>1 DEF FC!TypeOK, FC!IsRecord, FC!Pointer, FC!Labels
  <1>3. \A S : FC!Closed(S)' <=> FC!Closed(S)
    BY Zenon, <1>1 DEF FC!Closed
  <1>4. \A a, b : FC!Reach(a, b)' <=> FC!Reach(a, b)
    BY Zenon, <1>3 DEF FC!Reach, FC!Pointer
  <1>5. FC!Listed' = FC!Listed
    <2>1. PICK h : h = head /\ h = head'
      BY Zenon, <1>1
    <2>2. \A r \in Threads : FC!Reach(h, r)' <=> FC!Reach(h, r)
      BY Zenon, <1>4
    <2>3. \A r \in Threads : FC!Reach(head, r)' <=> FC!Reach(head, r)
      BY Zenon, <2>1, <2>2 DEF FC!Reach
    <2> QED BY Zenon, <2>3 DEF FC!Listed
  <1>6. \A t : (FC!Enqueues(t)' <=> FC!Enqueues(t)) /\ (FC!Holds(t)' <=> FC!Holds(t)) /\ (FC!Executed(t)' <=> FC!Executed(t))
    BY Zenon, <1>1 DEF FC!Enqueues, FC!Holds, FC!Executed
  <1>7. (FC!OneHolder => FC!OneHolder') /\ (FC!ListRight => FC!ListRight') /\ (FC!ActiveIsListed => FC!ActiveIsListed')
    BY Zenon, <1>1, <1>5, <1>6 DEF FC!OneHolder, FC!ListRight, FC!ActiveIsListed
  <1>8. ASSUME NEW t PROVE (FC!ThreadRight(t) => FC!ThreadRight(t)') /\ (FC!HolderRight(t) => FC!HolderRight(t)')
    <2>1. FC!ThreadRight(t) => FC!ThreadRight(t)'
      BY Zenon, <1>1, <1>6 DEF FC!ThreadRight, FC!Ops
    <2>2. PICK a : a = cur[t] /\ a = cur'[t]
      BY Zenon, <1>1
    <2>3. FC!Reach(cur[t], t)' <=> FC!Reach(cur[t], t)
      <3>1. FC!Reach(a, t)' <=> FC!Reach(a, t)
        BY Zenon, <1>4
      <3> QED BY Zenon, <2>2, <3>1 DEF FC!Reach
    <2>4. FC!Enqueues(cur[t])' <=> FC!Enqueues(cur[t])
      BY Zenon, <1>1 DEF FC!Enqueues
    <2> QED BY Zenon, <1>1, <1>5, <2>1, <2>3, <2>4 DEF FC!HolderRight
  <1>9. FC!ListInv => FC!ListInv'
    BY Zenon, <1>2, <1>7, <1>8 DEF FC!ListInv
  <1>10. FC!Serves
    BY Zenon, <1>1, <1>6, FUnseen
  <1> QED BY Zenon, <1>9, <1>10

\* Every step keeps the invariant, and is a step of the service or a stutter.
LEMMA FNextStep ==
  ASSUME FC!Sizes, FC!ListInv, FC!Next
  PROVE  FC!ListInv' /\ FC!Serves
  <1>1. ASSUME NEW t \in Threads, FC!Step(t)
        PROVE  FC!ListInv' /\ FC!Serves
    <2>1. FAlone(t)
      BY Zenon, <1>1, FAloneStep, FTypes
    <2>2. CASE FC!Enqueue(t, "active?", "spin")
      BY Zenon, <2>1, <2>2, FActiveStep, FInactiveStep
    <2>3. CASE FC!Enqueue(t, "locked", "combine")
      BY Zenon, <2>1, <2>3, FActiveStep, FInactiveStep
    <2> QED BY ZenonT(60), <1>1, <2>1, <2>2, <2>3, FReadHeadStep, FPushStep, FSpinStep, FServedStep, FLockStep,
               FCombineStep, FScanStep, FStoreStep, FDoneStep, FCleanStep, FDeactivateStep, FUnlockStep, FReturnStep DEF FC!Step
  <1>2. ASSUME NEW t \in Threads, NEW o \in FC!Ops, FC!Call(t, o)
        PROVE  FC!ListInv' /\ FC!Serves
    <2>1. FAlone(t)
      BY Zenon, <1>2, FAloneStep, FTypes
    <2> QED BY Zenon, <1>2, <2>1, FCallStep
  <1>3. CASE FC!Terminated
    BY Zenon, <1>3, FSameInv DEF FC!Terminated
  <1> QED BY Zenon, <1>1, <1>2, <1>3 DEF FC!Next

\* Flat combining implements DelegationService: each call of execute_operation takes
\* effect once, when the thread with the lock stores the result of its request,
\* although threads push their records while the list is walked and cleaned up.
THEOREM FlatCombiningLinearizable ==
  ASSUME FC!Sizes
  PROVE  FC!Spec => []FC!ListInv /\ FC!Linearizable
  <1>1. FC!Init => FC!ListInv /\ FC!Abstract!Init
    BY Zenon, FInitInv, FInitServes
  <1>2. FC!ListInv /\ [FC!Next]_(FC!vars) => FC!ListInv' /\ [FC!Abstract!Next]_(FC!Abstract!vars)
    <2>1. FC!ListInv /\ [FC!Next]_(FC!vars) => FC!ListInv' /\ FC!Serves
      BY Zenon, FNextStep, FSameInv
    <2> QED BY Zenon, <2>1 DEF FC!Serves
  <1> QED BY <1>1, <1>2, PTL DEF FC!Spec, FC!Linearizable, FC!Abstract!Spec

\* A record that its owner takes to be in the list is in it, or on its way.
THEOREM FlatCombiningListed == ASSUME FC!Sizes PROVE FC!Spec => []FC!ActiveIsListed
  <1>1. FC!ListInv => FC!ActiveIsListed
    BY Zenon DEF FC!ListInv
  <1> QED BY <1>1, FlatCombiningLinearizable, PTL
=============================================================================
