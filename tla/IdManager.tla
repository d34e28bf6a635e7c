----------------------------- MODULE IdManager ------------------------------
(***************************************************************************)
(* The thread ids of liblock, liblock.c: a thread takes an id when it      *)
(* starts and gives it back when it ends, without a lock.  The ids below   *)
(* first and from first_free on are free; between them the bitmap tells.   *)
(***************************************************************************)
EXTENDS Naturals, FiniteSets

CONSTANTS Threads, last    \* last: MAX_NUMBER_OF_THREADS in the code

Ids == 0 .. last - 1

VARIABLES
  first, first_free, fragmented,
  bitmap,     \* TRUE: free
  th          \* of each thread: where it is, the local cur, and its id

vars == <<first, first_free, fragmented, bitmap, th>>

managed == <<first, first_free, fragmented, bitmap>>

\* No id.
NoId == last

\* A thread without an id.
Without(place, cur) == [at |-> place, cur |-> cur, id |-> NoId]

Outside == Without("out", 0)

Init ==
  /\ first = 0
  /\ first_free = 0
  /\ fragmented = FALSE
  /\ bitmap = [i \in Ids |-> FALSE]
  /\ th = [t \in Threads |-> Outside]
-----------------------------------------------------------------------------
Goto(t, from, to) == th[t].at = from /\ th' = [th EXCEPT ![t].at = to]

Read(t, from, to, value) ==
  /\ th[t].at = from
  /\ th' = [th EXCEPT ![t] = Without(to, value)]
  /\ UNCHANGED managed

Runs(t, id) == th' = [th EXCEPT ![t] = [at |-> "run", cur |-> 0, id |-> id]]

\* liblock_find_id: the bitmap is searched when it may hold a free id.
Find(t) == IF fragmented THEN Read(t, "out", "scan", first)
                         ELSE Goto(t, "out", "first") /\ UNCHANGED managed

\* Mutant: the bit is found free, and left so.
ScanBitOnly(t) ==
  LET cur == th[t].cur IN
  /\ th[t].at = "scan"
  /\ cur < first_free
  /\ IF bitmap[cur] THEN Runs(t, cur) ELSE th' = [th EXCEPT ![t] = Without("scan", cur + 1)]
  /\ UNCHANGED managed

ScanBit(t) ==
  LET cur == th[t].cur IN
  /\ th[t].at = "scan"
  /\ cur < first_free
  /\ IF bitmap[cur] THEN Runs(t, cur) ELSE th' = [th EXCEPT ![t] = Without("scan", cur + 1)]
  /\ bitmap' = [bitmap EXCEPT ![cur] = FALSE]
  /\ UNCHANGED <<first, first_free, fragmented>>

ScanEnd(t) ==
  /\ th[t].at = "scan"
  /\ th[t].cur >= first_free
  /\ th' = [th EXCEPT ![t] = Without("first", 0)]
  /\ fragmented' = FALSE
  /\ UNCHANGED <<first, first_free, bitmap>>

ReadFirst(t) == Read(t, "first", IF first > 0 THEN "first_cas" ELSE "free", first)

FirstCas(t) ==
  /\ th[t].at = "first_cas"
  /\ IF first = th[t].cur THEN first' = first - 1 /\ Runs(t, first - 1)
                          ELSE Goto(t, "first_cas", "first") /\ UNCHANGED first
  /\ UNCHANGED <<first_free, fragmented, bitmap>>

ReadFirstFree(t) == Read(t, "free", IF first_free < last THEN "free_cas" ELSE "fatal", first_free)

FreeCas(t) ==
  /\ th[t].at = "free_cas"
  /\ IF first_free = th[t].cur THEN first_free' = first_free + 1 /\ Runs(t, first_free)
                               ELSE Goto(t, "free_cas", "free") /\ UNCHANGED first_free
  /\ UNCHANGED <<first, fragmented, bitmap>>
-----------------------------------------------------------------------------
\* liblock_release_id.  Its branch for first_free = id - 1 is never taken: the
\* id of a thread is below first_free.
Release(t) ==
  /\ Goto(t, "run", IF first = th[t].id THEN "release_cas" ELSE "set_bit")
  /\ UNCHANGED managed

\* Mutant: the result of the compare-and-swap is not looked at.
ReleaseCasOnce(t) ==
  /\ th[t].at = "release_cas"
  /\ first' = IF first = th[t].id THEN first + 1 ELSE first
  /\ th' = [th EXCEPT ![t] = Outside]
  /\ UNCHANGED <<first_free, fragmented, bitmap>>

ReleaseCas(t) ==
  /\ th[t].at = "release_cas"
  /\ IF first = th[t].id THEN first' = first + 1 /\ th' = [th EXCEPT ![t] = Outside]
                         ELSE Goto(t, "release_cas", "run") /\ UNCHANGED first
  /\ UNCHANGED <<first_free, fragmented, bitmap>>

SetBit(t) ==
  /\ th[t].at = "set_bit"
  /\ bitmap' = [bitmap EXCEPT ![th[t].id] = TRUE]
  /\ th' = [th EXCEPT ![t] = Without("fragment", 0)]
  /\ UNCHANGED <<first, first_free, fragmented>>

SetFragmented(t) ==
  /\ Goto(t, "fragment", "out")
  /\ fragmented' = TRUE
  /\ UNCHANGED <<first, first_free, bitmap>>

Next ==
  \E t \in Threads :
    \/ Find(t) \/ ScanBit(t) \/ ScanEnd(t) \/ ReadFirst(t) \/ FirstCas(t)
    \/ ReadFirstFree(t) \/ FreeCas(t)
    \/ Release(t) \/ ReleaseCas(t) \/ SetBit(t) \/ SetFragmented(t)

Spec == Init /\ [][Next]_vars
-----------------------------------------------------------------------------
Held == {th[t].id : t \in Threads} \ {NoId}

\* No two live threads have the same id, whatever ids move between the bitmap
\* and the two ends while they look for one.
UniqueIds ==
  \A t, u \in Threads : t # u /\ th[t].id = th[u].id => th[t].id = NoId

\* Where id i is.
Places(i) == {p \in 1 .. 4 : \/ p = 1 /\ i < first
                             \/ p = 2 /\ bitmap[i]
                             \/ p = 3 /\ i >= first_free
                             \/ p = 4 /\ i \in Held}

\* An id is free at one place and to one thread, or held by a thread: none is
\* lost, none is on offer while it is held, and none is offered twice.
FreeOrHeld == \A i \in Ids : \E p \in 1 .. 4 : Places(i) = {p}

\* fatal("exhausted client ids...") is for when every id is held: with no more
\* threads than ids, no thread gets there.
OnlyExhausted == Cardinality(Threads) <= last => \A t \in Threads : th[t].at # "fatal"
-----------------------------------------------------------------------------
Labels == {"out", "scan", "first", "first_cas", "free", "free_cas", "fatal", "run", "release_cas",
           "set_bit", "fragment"}

\* The types of the variables.
TypeOK ==
  /\ first \in 0 .. last
  /\ first_free \in 0 .. last
  /\ fragmented \in BOOLEAN
  /\ bitmap \in [Ids -> BOOLEAN]
  /\ th \in [Threads -> [at : Labels, cur : 0 .. last, id : 0 .. last]]

\* A thread has an id from the step that takes it off its place to the step that
\* puts it back.
ThreadInv(t) ==
  /\ th[t].id # NoId <=> th[t].at \in {"run", "release_cas", "set_bit"}
  /\ th[t].at = "first_cas" => th[t].cur > 0
  /\ th[t].at = "free_cas" => th[t].cur < last
  /\ th[t].id # NoId => first <= th[t].id /\ th[t].id < first_free /\ ~bitmap[th[t].id]

\* An id that is at neither end is in the bitmap or held.
PlaceInv(i) ==
  /\ bitmap[i] => first <= i /\ i < first_free
  /\ i < first \/ bitmap[i] \/ i >= first_free \/ \E t \in Threads : th[t].id = i

\* What UniqueIds and FreeOrHeld rest on.
IdInv ==
  /\ TypeOK
  /\ first <= first_free
  /\ UniqueIds
  /\ \A t \in Threads : ThreadInv(t)
  /\ \A i \in Ids : PlaceInv(i)
=============================================================================
