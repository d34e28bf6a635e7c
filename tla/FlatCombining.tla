---------------------------- MODULE FlatCombining ----------------------------
(***************************************************************************)
(* Flat combining, liblock/flatcombining.c.  Each thread has one request   *)
(* record, pushed on the lock's publication list.  Whoever gets the lock   *)
(* executes every pending request of the list; every CLEANUP_FREQUENCY     *)
(* turns it also unlinks the records that have not been used lately, whose *)
(* owners may be about to use them.                                        *)
(***************************************************************************)
EXTENDS Integers

CONSTANTS
  Threads,
  Fns, Vars, InitVal, Apply(_,_),
  None,                    \* the null pointer
  CLEANUP_FREQUENCY, CLEANUP_OLD_THRESHOLD,
  W,                       \* count and age are W-valued: 2^32 in the code
  MaxCalls                 \* bound on the calls of each thread

VARIABLES
  lock, count, head,       \* struct liblock_impl
  request,                 \* the records, named by their threads
  pc,
  then,                    \* where enqueue_request returns to
  cur, prev, seen,
  op, ret, calls, mem

vars == <<lock, count, head, request, pc, then, cur, prev, seen, op, ret, calls, mem>>

Init ==
  /\ lock = FALSE
  /\ count = 0
  /\ head = None
  /\ request = [t \in Threads |->
       [next |-> None, active |-> FALSE, pending |-> None, age |-> 0, val |-> None]]
  /\ pc = [t \in Threads |-> "idle"]
  /\ then = [t \in Threads |-> None]
  /\ cur = [t \in Threads |-> None]
  /\ prev = [t \in Threads |-> None]
  /\ seen = [t \in Threads |-> InitVal]
  /\ op = [t \in Threads |-> None]
  /\ ret = [t \in Threads |-> InitVal]
  /\ calls = [t \in Threads |-> 0]
  /\ mem = [v \in Vars |-> InitVal]

Goto(t, l) == pc' = [pc EXCEPT ![t] = l]
Caller == <<op, ret, calls>>
-----------------------------------------------------------------------------
Call(t, o) ==
  /\ pc[t] = "idle"
  /\ calls[t] < MaxCalls[t]
  /\ calls' = [calls EXCEPT ![t] = @ + 1]
  /\ op' = [op EXCEPT ![t] = o]
  /\ request' = [request EXCEPT ![t].val = o.var, ![t].pending = o.fn]
  /\ Goto(t, "active?")
  /\ UNCHANGED <<lock, count, head, then, cur, prev, seen, ret, mem>>

\* enqueue_request, unless the record is in the list; then to label l.
Enqueue(t, from, l) ==
  /\ pc[t] = from
  /\ IF request[t].active
       THEN Goto(t, l) /\ UNCHANGED <<request, then>>
       ELSE /\ request' = [request EXCEPT ![t].active = TRUE]
            /\ then' = [then EXCEPT ![t] = l]
            /\ Goto(t, "supposed")
  /\ UNCHANGED <<lock, count, head, cur, prev, seen, Caller, mem>>

ReadHead(t) ==
  /\ pc[t] = "supposed"
  /\ request' = [request EXCEPT ![t].next = head]
  /\ Goto(t, "push")
  /\ UNCHANGED <<lock, count, head, then, cur, prev, seen, Caller, mem>>

\* Mutant: the head is stored without a compare-and-swap.
PushUnchecked(t) ==
  /\ pc[t] = "push"
  /\ head' = t /\ Goto(t, then[t])
  /\ UNCHANGED <<lock, count, request, then, cur, prev, seen, Caller, mem>>

Push(t) ==
  /\ pc[t] = "push"
  /\ IF head = request[t].next
       THEN head' = t /\ Goto(t, then[t]) /\ then' = [then EXCEPT ![t] = None]
       ELSE head' = head /\ Goto(t, "supposed") /\ UNCHANGED then
  /\ UNCHANGED <<lock, count, request, cur, prev, seen, Caller, mem>>

\* Mutant: a thread whose record is in the list just waits to be served.
SpinUntilServed(t) ==
  /\ pc[t] = "spin"
  /\ request[t].pending = None \/ ~request[t].active
  /\ Goto(t, "served?")
  /\ UNCHANGED <<lock, count, head, request, then, cur, prev, seen, Caller, mem>>

\* The inner loop ends: the lock is free, or the thread is served or unlinked.
Spin(t) ==
  /\ pc[t] = "spin"
  /\ ~lock \/ request[t].pending = None \/ ~request[t].active
  /\ Goto(t, "served?")
  /\ UNCHANGED <<lock, count, head, request, then, cur, prev, seen, Caller, mem>>

Served(t) ==
  /\ pc[t] = "served?"
  /\ Goto(t, IF request[t].pending = None THEN "return" ELSE "lock")
  /\ UNCHANGED <<lock, count, head, request, then, cur, prev, seen, Caller, mem>>

Lock(t) ==
  /\ pc[t] = "lock"
  /\ lock' = TRUE
  /\ Goto(t, IF lock THEN "active?" ELSE "locked")
  /\ UNCHANGED <<count, head, request, then, cur, prev, seen, Caller, mem>>

Combine(t) ==
  /\ pc[t] = "combine"
  /\ count' = (count + 1) % W
  /\ cur' = [cur EXCEPT ![t] = head]
  /\ Goto(t, "scan")
  /\ UNCHANGED <<lock, head, request, then, prev, seen, Caller, mem>>

\* The head of the loop over the list, and what follows the loop.  The critical
\* section of a pending request is a load and a store.
Scan(t) ==
  LET r == cur[t] IN
  /\ pc[t] = "scan"
  /\ \/ /\ r # None /\ request[r].pending # None
        /\ seen' = [seen EXCEPT ![t] = mem[request[r].val]]
        /\ Goto(t, "store") /\ UNCHANGED <<cur, prev>>
     \/ /\ r # None /\ request[r].pending = None
        /\ cur' = [cur EXCEPT ![t] = request[r].next] /\ UNCHANGED <<pc, prev, seen>>
     \/ /\ r = None
        /\ prev' = [prev EXCEPT ![t] = head]
        /\ Goto(t, IF count % CLEANUP_FREQUENCY = 0 THEN "clean" ELSE "unlock")
        /\ UNCHANGED <<cur, seen>>
  /\ UNCHANGED <<lock, count, head, request, then, Caller, mem>>

Store(t) ==
  LET r == Apply(request[cur[t]].pending, seen[t]) IN
  /\ pc[t] = "store"
  /\ mem' = [mem EXCEPT ![request[cur[t]].val] = r.val]
  /\ request' = [request EXCEPT ![cur[t]].val = r.ret]
  /\ seen' = [seen EXCEPT ![t] = InitVal]      \* dead
  /\ Goto(t, "done")
  /\ UNCHANGED <<lock, count, head, then, cur, prev, Caller>>

\* The owner may go; the record stays in the list.
Done(t) ==
  /\ pc[t] = "done"
  /\ request' = [request EXCEPT ![cur[t]].pending = None, ![cur[t]].age = count]
  /\ cur' = [cur EXCEPT ![t] = request[cur[t]].next]
  /\ Goto(t, "scan")
  /\ UNCHANGED <<lock, count, head, then, prev, seen, Caller, mem>>

\* The head of the clean-up loop.
Clean(t) ==
  LET r == request[prev[t]].next IN
  /\ pc[t] = "clean"
  /\ \/ r = None /\ Goto(t, "unlock") /\ UNCHANGED <<cur, prev, request>>
     \/ /\ r # None
        /\ (request[r].age + CLEANUP_OLD_THRESHOLD) % W < count
        /\ request' = [request EXCEPT ![prev[t]].next = request[r].next]
        /\ cur' = [cur EXCEPT ![t] = r]
        /\ Goto(t, "deactivate")
        /\ UNCHANGED prev
     \/ /\ r # None
        /\ (request[r].age + CLEANUP_OLD_THRESHOLD) % W >= count
        /\ prev' = [prev EXCEPT ![t] = r]
        /\ UNCHANGED <<pc, cur, request>>
  /\ UNCHANGED <<lock, count, head, then, seen, Caller, mem>>

\* Mutant: an unlinked record is not marked.
DeactivateNothing(t) ==
  /\ pc[t] = "deactivate"
  /\ Goto(t, "clean")
  /\ UNCHANGED <<lock, count, head, request, then, cur, prev, seen, Caller, mem>>

Deactivate(t) ==
  /\ pc[t] = "deactivate"
  /\ request' = [request EXCEPT ![cur[t]].active = FALSE]
  /\ Goto(t, "clean")
  /\ UNCHANGED <<lock, count, head, then, cur, prev, seen, Caller, mem>>

Unlock(t) ==
  /\ pc[t] = "unlock"
  /\ lock' = FALSE
  /\ cur' = [cur EXCEPT ![t] = None]      \* dead, and so is prev
  /\ prev' = [prev EXCEPT ![t] = None]
  /\ Goto(t, "return")
  /\ UNCHANGED <<count, head, request, then, seen, Caller, mem>>

Return(t) ==
  /\ pc[t] = "return"
  /\ ret' = [ret EXCEPT ![t] = request[t].val]
  /\ op' = [op EXCEPT ![t] = None]
  /\ Goto(t, "idle")
  /\ UNCHANGED <<lock, count, head, request, then, cur, prev, seen, calls, mem>>

Step(t) ==
  \/ Enqueue(t, "active?", "spin") \/ Enqueue(t, "locked", "combine")
  \/ ReadHead(t) \/ Push(t) \/ Spin(t) \/ Served(t) \/ Lock(t)
  \/ Combine(t) \/ Scan(t) \/ Store(t) \/ Done(t)
  \/ Clean(t) \/ Deactivate(t) \/ Unlock(t) \/ Return(t)

Ops == [fn : Fns, var : Vars]

Terminated ==
  (\A t \in Threads : pc[t] = "idle" /\ calls[t] = MaxCalls[t]) /\ UNCHANGED vars

Next == (\E t \in Threads : Step(t) \/ \E o \in Ops : Call(t, o)) \/ Terminated
-----------------------------------------------------------------------------
\* The request of thread t has taken effect.
Executed(t) ==
  /\ pc[t] # "idle"
  /\ \/ request[t].pending = None
     \/ \E c \in Threads : pc[c] = "done" /\ cur[c] = t

Abstract == INSTANCE DelegationService WITH
  Clients <- Threads,
  st <- [t \in Threads |->
    IF pc[t] = "idle" THEN "idle" ELSE IF Executed(t) THEN "done" ELSE "pending"],
  res <- [t \in Threads |-> IF Executed(t) THEN request[t].val ELSE None]

\* Each request is executed once, atomically, on its own argument, during the
\* call, and its result is returned, while records leave and enter the list.
Serves == UNCHANGED Abstract!vars \/ Abstract!Next

\* The records that can be reached from the head of the list: they are in every set
\* of records with the head in which no pointer leads out of the set.
Pointer == Threads \cup {None}
Closed(S) == \A r \in Threads : r \in S => request[r].next \in S
Reach(a, b) == \A S \in SUBSET Pointer : a \in S /\ Closed(S) => b \in S
Listed == {r \in Threads : Reach(head, r)}

\* A record whose owner takes it to be in the list, because active is set, is in
\* the list or on its way into or out of it: a record that was unlinked and not
\* marked, or lost by a push, would never be served by another thread.
ActiveIsListed ==
  \A t \in Threads :
    request[t].active =>
      \/ t \in Listed
      \/ pc[t] \in {"supposed", "push"}
      \/ \E c \in Threads : pc[c] = "deactivate" /\ cur[c] = t
-----------------------------------------------------------------------------
\* For the proofs: the lock on its own, and what every step of it keeps.
Spec == Init /\ [][Next]_vars
Linearizable == Abstract!Spec

\* The null pointer is no record, and no function.
Sizes == None \notin Threads /\ None \notin Fns

Labels ==
  {"idle", "active?", "supposed", "push", "spin", "served?", "lock", "locked", "combine", "scan",
   "store", "done", "clean", "deactivate", "unlock", "return"}

\* A record is a struct of five fields.
IsRecord(r) ==
  /\ DOMAIN r = {"next", "active", "pending", "age", "val"}
  /\ r.next \in Pointer /\ r.active \in BOOLEAN

TypeOK ==
  /\ lock \in BOOLEAN
  /\ head \in Pointer
  /\ request = [t \in Threads |-> request[t]] /\ \A t \in Threads : IsRecord(request[t])
  /\ pc \in [Threads -> Labels]
  /\ then = [t \in Threads |-> then[t]]
  /\ cur \in [Threads -> Pointer]
  /\ prev \in [Threads -> Pointer]
  /\ seen = [t \in Threads |-> seen[t]]
  /\ op = [t \in Threads |-> op[t]]
  /\ ret = [t \in Threads |-> ret[t]]
  /\ mem = [v \in Vars |-> mem[v]]

\* t is in enqueue_request, or has the lock.
Enqueues(t) == pc[t] \in {"supposed", "push"}
Holds(t) ==
  \/ pc[t] \in {"locked", "combine", "scan", "store", "done", "clean", "deactivate", "unlock"}
  \/ Enqueues(t) /\ then[t] = "combine"

OneHolder ==
  /\ \A t \in Threads : Holds(t) => lock
  /\ \A t, u \in Threads : Holds(t) /\ Holds(u) => t = u

\* A record of the list is active, and has one predecessor, or is the head.
ListRight ==
  /\ \A r \in Listed : request[r].active /\ ~Enqueues(r) /\ request[r].next # head
  /\ \A r, s \in Listed : request[r].next = request[s].next /\ request[r].next # None => r = s

\* What a thread knows of its own record.
ThreadRight(t) ==
  /\ pc[t] \in {"idle", "return", "clean", "deactivate", "unlock"} => request[t].pending = None
  /\ Enqueues(t) => request[t].active /\ then[t] \in {"spin", "combine"}
  /\ pc[t] # "idle" => op[t] \in Ops
  /\ request[t].pending # None /\ ~Executed(t) =>
       request[t].pending = op[t].fn /\ request[t].val = op[t].var

\* The thread with the lock has its own record in the list, and has yet to come to
\* it when its request is not executed.
HolderRight(c) ==
  /\ pc[c] \in {"combine", "scan", "store", "done"} => c \in Listed
  /\ pc[c] \in {"scan", "store", "done"} =>
       /\ cur[c] \in Listed \cup {None}
       /\ request[c].pending # None => Reach(cur[c], c)
  /\ pc[c] \in {"store", "done"} => cur[c] # None /\ request[cur[c]].pending # None
  /\ pc[c] = "store" => seen[c] = mem[request[cur[c]].val]
  /\ pc[c] \in {"clean", "deactivate"} => prev[c] \in Listed
  /\ pc[c] = "deactivate" =>
       cur[c] \in Threads \ Listed /\ request[cur[c]].active /\ ~Enqueues(cur[c])

ListInv ==
  /\ TypeOK /\ OneHolder /\ ListRight /\ ActiveIsListed
  /\ \A t \in Threads : ThreadRight(t) /\ HolderRight(t)
=============================================================================
