---------------------------- MODULE LiblockProofs ----------------------------
(***************************************************************************)
(* Two parts of liblock, for any number of threads: the ids of             *)
(* id_manager are unique, and the request array of a server of remote core *)
(* locking implements the delegation service.  The first rests on IdInv    *)
(* of IdManager, the second on ServiceInv of RCL.                          *)
(***************************************************************************)
EXTENDS Integers, TLAPS

CONSTANTS
  Threads, last,                             \* of IdManager
  N, Servicing, GDB_PROOF, Fns, Vars,
  InitVal, Apply(_,_), None, MaxCalls        \* of RCL

VARIABLES
  th,                                        \* of both
  first, first_free, fragmented, bitmap,     \* of IdManager
  requests, locked, pc, op, ret, calls, mem  \* of RCL

Id == INSTANCE IdManager

Rcl == INSTANCE RCL

\* The record of a thread, and the places in the code where it has an id.
IdRecord == [at : Id!Labels, cur : 0 .. last, id : 0 .. last]
HasId == {"run", "release_cas", "set_bit"}

\* What the invariant says of the types.
LEMMA IdTypes ==
  ASSUME Id!IdInv
  PROVE  /\ first \in 0 .. last /\ first_free \in 0 .. last /\ first <= first_free
         /\ fragmented \in BOOLEAN /\ bitmap \in [Id!Ids -> BOOLEAN]
         /\ th \in [Threads -> IdRecord]
  BY Zenon DEF Id!IdInv, Id!TypeOK, IdRecord

\* What it says of a thread.
LEMMA IdOfThread ==
  ASSUME Id!IdInv, NEW u \in Threads
  PROVE  /\ th[u].at \in Id!Labels /\ th[u].cur \in 0 .. last /\ th[u].id \in 0 .. last
         /\ th[u].id # last <=> th[u].at \in HasId
         /\ th[u].at = "first_cas" => th[u].cur > 0
         /\ th[u].at = "free_cas" => th[u].cur < last
         /\ th[u].id # last => first <= th[u].id /\ th[u].id < first_free /\ ~bitmap[th[u].id]
  <1>1. Id!ThreadInv(u)
    BY Zenon DEF Id!IdInv
  <1>2. th[u] \in IdRecord
    BY Zenon, IdTypes
  <1>3. th[u].at \in Id!Labels /\ th[u].cur \in 0 .. last /\ th[u].id \in 0 .. last
    BY Zenon, <1>2 DEF IdRecord
  <1> QED BY Zenon, <1>1, <1>3 DEF Id!ThreadInv, Id!NoId, HasId

\* Two threads have different ids.
LEMMA IdOfTwo ==
  ASSUME Id!IdInv
  PROVE  \A t, u \in Threads : t # u /\ th[t].id = th[u].id => th[t].id = last
  BY Zenon DEF Id!IdInv, Id!UniqueIds, Id!NoId

\* What it says of an id.
LEMMA IdOfId ==
  ASSUME Id!IdInv, NEW i \in Id!Ids
  PROVE  /\ bitmap[i] => first <= i /\ i < first_free
         /\ i < first \/ bitmap[i] \/ i >= first_free \/ \E t \in Threads : th[t].id = i
  BY Zenon DEF Id!IdInv, Id!PlaceInv

\* What a step of one thread does to the threads.
LEMMA IdMoves ==
  ASSUME Id!IdInv, NEW t \in Threads, NEW r \in IdRecord, th' = [th EXCEPT ![t] = r]
  PROVE  /\ th' \in [Threads -> IdRecord] /\ th'[t] = r
         /\ \A u \in Threads : u # t => th'[u] = th[u]
  BY Zenon, IdTypes

\* The invariant after a step, from its parts.
LEMMA IdAfter ==
  ASSUME first' \in 0 .. last, first_free' \in 0 .. last, first' <= first_free',
         fragmented' \in BOOLEAN, bitmap' \in [Id!Ids -> BOOLEAN], th' \in [Threads -> IdRecord],
         Id!UniqueIds',
         \A u \in Threads : Id!ThreadInv(u)', \A j \in Id!Ids : Id!PlaceInv(j)'
  PROVE  Id!IdInv'
  BY Zenon DEF Id!IdInv, Id!TypeOK, IdRecord, Id!Ids, Id!Labels

\* A step of a thread that neither takes nor returns an id.
LEMMA IdSame ==
  ASSUME last \in Nat, Id!IdInv, NEW t \in Threads, NEW r \in IdRecord, th' = [th EXCEPT ![t] = r],
         UNCHANGED <<first, first_free, bitmap>>, fragmented' \in BOOLEAN,
         r.id = th[t].id,
         r.at \in HasId <=> th[t].at \in HasId,
         r.at = "first_cas" => r.cur > 0,
         r.at = "free_cas" => r.cur < last
  PROVE  Id!IdInv'
  <1>1. /\ th' \in [Threads -> IdRecord] /\ th'[t] = r
        /\ \A u \in Threads : u # t => th'[u] = th[u]
    BY Zenon, IdMoves
  <1>2. \A u \in Threads : th'[u].id = th[u].id
    BY Zenon, <1>1
  <1>3. Id!UniqueIds'
    BY <1>2, IdOfTwo DEF Id!UniqueIds, Id!NoId
  <1>4. ASSUME NEW u \in Threads PROVE Id!ThreadInv(u)'
    <2>1. CASE u = t
      BY Zenon, <1>1, <2>1, IdOfThread DEF Id!ThreadInv, Id!NoId, HasId
    <2>2. CASE u # t
      BY Zenon, <1>1, <2>2, IdOfThread DEF Id!ThreadInv, Id!NoId, HasId
    <2> QED BY Zenon, <2>1, <2>2
  <1>5. ASSUME NEW j \in Id!Ids PROVE Id!PlaceInv(j)'
    <2>1. first' = first /\ first_free' = first_free /\ bitmap' = bitmap
      BY Zenon
    <2>2. (\E u \in Threads : th[u].id = j) => \E u \in Threads : th'[u].id = j
      BY <1>2
    <2> QED BY Zenon, <2>1, <2>2, IdOfId DEF Id!PlaceInv
  <1>6. /\ first' \in 0 .. last /\ first_free' \in 0 .. last /\ first' <= first_free'
        /\ bitmap' \in [Id!Ids -> BOOLEAN]
    BY Zenon, IdTypes
  <1> QED BY Zenon, <1>1, <1>3, <1>4, <1>5, <1>6, IdAfter

\* A step that only moves the thread on.
LEMMA IdGoto ==
  ASSUME last \in Nat, Id!IdInv, NEW t \in Threads, NEW a \in Id!Labels,
         th' = [th EXCEPT ![t].at = a],
         UNCHANGED <<first, first_free, bitmap>>, fragmented' \in BOOLEAN,
         a \in HasId <=> th[t].at \in HasId, a # "first_cas", a # "free_cas"
  PROVE  Id!IdInv'
  <1>1. th[t] \in IdRecord
    BY Zenon, IdTypes
  <1>2. PICK r : r = [th[t] EXCEPT !.at = a]
    BY Zenon
  <1>3. r \in IdRecord /\ r.id = th[t].id /\ r.at = a
    BY Zenon, <1>1, <1>2 DEF IdRecord
  <1>4. th' = [th EXCEPT ![t] = r]
    BY Zenon, <1>2
  <1> QED BY Zenon, <1>3, <1>4, IdSame

\* A step in which a thread without an id stays without.
LEMMA IdWithout ==
  ASSUME last \in Nat, Id!IdInv, NEW t \in Threads, NEW a \in Id!Labels, NEW b \in 0 .. last,
         th[t].at \notin HasId, a \notin HasId,
         th' = [th EXCEPT ![t] = Id!Without(a, b)],
         UNCHANGED <<first, first_free, bitmap>>, fragmented' \in BOOLEAN,
         a = "first_cas" => b > 0, a = "free_cas" => b < last
  PROVE  Id!IdInv'
  <1>1. PICK r : r = Id!Without(a, b)
    BY Zenon
  <1>2. r \in IdRecord /\ r.id = last /\ r.at = a /\ r.cur = b
    BY <1>1 DEF IdRecord, Id!Without, Id!NoId
  <1>3. th[t].id = last
    BY Zenon, IdOfThread
  <1> QED BY Zenon, <1>1, <1>2, <1>3, IdSame

\* A thread looks for an id, or begins or ends a release.
IdLooks(t) ==
  \/ Id!Find(t) \/ Id!ScanEnd(t) \/ Id!ReadFirst(t) \/ Id!ReadFirstFree(t)
  \/ Id!Release(t) \/ Id!SetFragmented(t)

\* Those steps keep the invariant.
LEMMA IdLook ==
  ASSUME last \in Nat, Id!IdInv, NEW t \in Threads, IdLooks(t)
  PROVE  Id!IdInv'
  <1>0. fragmented \in BOOLEAN /\ first \in 0 .. last /\ first_free \in 0 .. last /\ 0 \in 0 .. last
    BY IdTypes
  <1>1. CASE Id!Find(t) /\ fragmented
    <2>1. /\ th[t].at = "out" /\ th' = [th EXCEPT ![t] = Id!Without("scan", first)]
          /\ UNCHANGED <<first, first_free, fragmented, bitmap>>
      BY Zenon, <1>1 DEF Id!Find, Id!Read, Id!managed
    <2>2. "scan" \in Id!Labels /\ th[t].at \notin HasId /\ "scan" \notin HasId \cup {"first_cas", "free_cas"}
      BY Zenon, <2>1 DEF HasId, Id!Labels
    <2> QED BY Zenon, <1>0, <2>1, <2>2, IdWithout
  <1>2. CASE Id!ScanEnd(t)
    <2>1. /\ th[t].at = "scan" /\ th' = [th EXCEPT ![t] = Id!Without("first", 0)]
          /\ UNCHANGED <<first, first_free, bitmap>> /\ fragmented' \in BOOLEAN
      BY Zenon, <1>2 DEF Id!ScanEnd
    <2>2. "first" \in Id!Labels /\ th[t].at \notin HasId /\ "first" \notin HasId \cup {"first_cas", "free_cas"}
      BY Zenon, <2>1 DEF HasId, Id!Labels
    <2> QED BY Zenon, <1>0, <2>1, <2>2, IdWithout
  <1>3. CASE Id!ReadFirst(t)
    <2>1. PICK a : /\ a = (IF first > 0 THEN "first_cas" ELSE "free") /\ th[t].at = "first"
                   /\ th' = [th EXCEPT ![t] = Id!Without(a, first)]
                   /\ UNCHANGED <<first, first_free, fragmented, bitmap>>
      BY Zenon, <1>3 DEF Id!ReadFirst, Id!Read, Id!managed
    <2>2. /\ a \in Id!Labels /\ th[t].at \notin HasId /\ a \notin HasId \cup {"free_cas"}
          /\ a = "first_cas" => first > 0
      BY Zenon, <2>1 DEF HasId, Id!Labels
    <2> QED BY Zenon, <1>0, <2>1, <2>2, IdWithout
  <1>4. CASE Id!ReadFirstFree(t)
    <2>1. PICK a : /\ a = (IF first_free < last THEN "free_cas" ELSE "fatal") /\ th[t].at = "free"
                   /\ th' = [th EXCEPT ![t] = Id!Without(a, first_free)]
                   /\ UNCHANGED <<first, first_free, fragmented, bitmap>>
      BY Zenon, <1>4 DEF Id!ReadFirstFree, Id!Read, Id!managed
    <2>2. /\ a \in Id!Labels /\ th[t].at \notin HasId /\ a \notin HasId \cup {"first_cas"}
          /\ a = "free_cas" => first_free < last
      BY Zenon, <2>1 DEF HasId, Id!Labels
    <2> QED BY Zenon, <1>0, <2>1, <2>2, IdWithout
  <1>5. CASE (Id!Find(t) /\ ~fragmented) \/ Id!Release(t) \/ Id!SetFragmented(t)
    <2>1. PICK a \in Id!Labels :
            /\ th' = [th EXCEPT ![t].at = a] /\ UNCHANGED <<first, first_free, bitmap>>
            /\ fragmented' \in BOOLEAN /\ a # "first_cas" /\ a # "free_cas"
            /\ a \in HasId <=> th[t].at \in HasId
      BY Zenon, <1>0, <1>5 DEF Id!Find, Id!Release, Id!SetFragmented, Id!Goto, Id!managed, Id!Labels, HasId
    <2> QED BY Zenon, <2>1, IdGoto
  <1> QED BY Zenon, <1>1, <1>2, <1>3, <1>4, <1>5 DEF IdLooks

\* A thread takes id i, which nobody holds, off its place: an end, or the bitmap.
IdTakes(t, i) ==
  /\ i \in Id!Ids /\ Id!Runs(t, i)
  /\ th[t].id = last /\ \A u \in Threads : th[u].id # i
  /\ first' \in 0 .. last /\ first_free' \in 0 .. last /\ fragmented' \in BOOLEAN
  /\ first' <= i /\ i < first_free'
  /\ bitmap' = [bitmap EXCEPT ![i] = FALSE]
  /\ \A j \in Id!Ids : j # i => (j < first' <=> j < first) /\ (j < first_free' <=> j < first_free)

\* Taking an id keeps the invariant.
LEMMA IdTake ==
  ASSUME last \in Nat, Id!IdInv, NEW t \in Threads, NEW i, IdTakes(t, i)
  PROVE  Id!IdInv'
  <1>0. /\ i \in Id!Ids /\ th[t].id = last /\ \A u \in Threads : th[u].id # i
        /\ first' <= i /\ i < first_free' /\ first' \in 0 .. last /\ first_free' \in 0 .. last
        /\ \A j \in Id!Ids : j # i => (j < first' <=> j < first) /\ (j < first_free' <=> j < first_free)
        /\ fragmented' \in BOOLEAN /\ bitmap' = [bitmap EXCEPT ![i] = FALSE]
    BY Zenon DEF IdTakes
  <1>1. i # last /\ i \in 0 .. last /\ first' <= first_free' /\ first \in Nat /\ first_free \in Nat
    BY <1>0, IdTypes DEF Id!Ids
  <1>2. PICK r : r = [at |-> "run", cur |-> 0, id |-> i]
    BY Zenon
  <1>3. r \in IdRecord /\ r.at = "run" /\ r.id = i
    BY <1>1, <1>2 DEF IdRecord, Id!Labels
  <1>4. th' = [th EXCEPT ![t] = r]
    BY Zenon, <1>2 DEF IdTakes, Id!Runs
  <1>5. /\ th' \in [Threads -> IdRecord] /\ th'[t] = r
        /\ \A u \in Threads : u # t => th'[u] = th[u]
    BY Zenon, <1>3, <1>4, IdMoves
  <1>6. /\ bitmap' \in [Id!Ids -> BOOLEAN] /\ ~bitmap'[i]
        /\ \A j \in Id!Ids : j # i => bitmap'[j] = bitmap[j]
    BY Zenon, <1>0, IdTypes
  <1>7. Id!UniqueIds'
    BY <1>0, <1>3, <1>5, IdOfTwo DEF Id!UniqueIds, Id!NoId
  <1>8. ASSUME NEW u \in Threads PROVE Id!ThreadInv(u)'
    <2>1. CASE u = t
      <3>1. th'[u].at = "run" /\ th'[u].id = i
        BY Zenon, <1>3, <1>5, <2>1
      <3> QED BY Zenon, <1>0, <1>1, <1>6, <3>1 DEF Id!ThreadInv, Id!NoId
    <2>2. CASE u # t
      <3>1. th'[u] = th[u] /\ th[u].id # i
        BY Zenon, <1>0, <1>5, <2>2
      <3>2. CASE th[u].id = last
        BY Zenon, <3>1, <3>2, IdOfThread DEF Id!ThreadInv, Id!NoId, HasId
      <3>3. CASE th[u].id # last
        <4>1. th[u].id \in Id!Ids
          BY <3>3, IdOfThread DEF Id!Ids
        <4>2. first <= th[u].id /\ th[u].id < first_free /\ ~bitmap[th[u].id]
          BY Zenon, <3>3, IdOfThread
        <4>3. first' <= th[u].id /\ th[u].id < first_free'
          BY <1>0, <1>1, <3>1, <4>1, <4>2 DEF Id!Ids
        <4>4. ~bitmap'[th[u].id]
          BY Zenon, <1>6, <3>1, <4>1, <4>2
        <4> QED BY Zenon, <3>1, <4>3, <4>4, IdOfThread DEF Id!ThreadInv, Id!NoId, HasId
      <3> QED BY Zenon, <3>2, <3>3
    <2> QED BY Zenon, <2>1, <2>2
  <1>9. ASSUME NEW j \in Id!Ids PROVE Id!PlaceInv(j)'
    <2>1. CASE j = i
      BY Zenon, <1>3, <1>5, <1>6, <2>1 DEF Id!PlaceInv
    <2>2. CASE j # i
      <3>1. /\ j < first' <=> j < first
            /\ j < first_free' <=> j < first_free
            /\ bitmap'[j] = bitmap[j]
        BY Zenon, <1>0, <1>6, <2>2
      <3>2. /\ first' <= j <=> first <= j
            /\ j >= first_free' <=> j >= first_free
        BY <1>0, <1>1, <3>1 DEF Id!Ids
      <3>3. j # last
        BY DEF Id!Ids
      <3>4. (\E u \in Threads : th[u].id = j) => \E u \in Threads : th'[u].id = j
        BY Zenon, <1>0, <1>5, <3>3
      <3> QED BY Zenon, <3>1, <3>2, <3>4, IdOfId DEF Id!PlaceInv
    <2> QED BY Zenon, <2>1, <2>2
  <1> QED BY Zenon, <1>0, <1>1, <1>5, <1>6, <1>7, <1>8, <1>9, IdAfter

\* ScanBit: test_and_set_bit found id cur free, or did not.
LEMMA IdScanBit ==
  ASSUME last \in Nat, Id!IdInv, NEW t \in Threads, Id!ScanBit(t)
  PROVE  Id!IdInv'
  <1>0. PICK i : i = th[t].cur
    BY Zenon
  <1>1. /\ th[t].at = "scan" /\ i < first_free /\ bitmap' = [bitmap EXCEPT ![i] = FALSE]
        /\ IF bitmap[i] THEN Id!Runs(t, i) ELSE th' = [th EXCEPT ![t] = Id!Without("scan", i + 1)]
        /\ UNCHANGED <<first, first_free, fragmented>>
    BY Zenon, <1>0 DEF Id!ScanBit
  <1>2. i \in Id!Ids /\ i + 1 \in 0 .. last
    BY <1>0, <1>1, IdTypes, IdOfThread DEF Id!Ids
  <1>3. th[t].at \notin HasId /\ "scan" \notin HasId \cup {"first_cas", "free_cas"} /\ "scan" \in Id!Labels
    BY Zenon, <1>1 DEF HasId, Id!Labels
  <1>4. th[t].id = last
    BY Zenon, <1>3, IdOfThread
  <1>5. CASE bitmap[i]
    <2>1. \A u \in Threads : th[u].id # i
      <3>1. i # last
        BY <1>2 DEF Id!Ids
      <3> QED BY Zenon, <1>5, <3>1, IdOfThread
    <2>2. first <= i
      BY Zenon, <1>2, <1>5, IdOfId
    <2>3. IdTakes(t, i)
      BY Zenon, <1>1, <1>2, <1>4, <1>5, <2>1, <2>2, IdTypes DEF IdTakes
    <2> QED BY Zenon, <2>3, IdTake
  <1>6. CASE ~bitmap[i]
    <2>1. bitmap' = bitmap
      <3>1. bitmap \in [Id!Ids -> BOOLEAN] /\ bitmap[i] = FALSE
        BY Zenon, <1>2, <1>6, IdTypes
      <3> QED BY Zenon, <1>1, <1>2, <3>1
    <2> QED BY Zenon, <1>1, <1>2, <1>3, <1>6, <2>1, IdTypes, IdWithout
  <1> QED BY Zenon, <1>5, <1>6

\* The compare-and-swap on first takes id first - 1, or is tried again.
LEMMA IdFirstCas ==
  ASSUME last \in Nat, Id!IdInv, NEW t \in Threads, Id!FirstCas(t)
  PROVE  Id!IdInv'
  <1>1. th[t].at = "first_cas" /\ UNCHANGED <<first_free, fragmented, bitmap>>
    BY Zenon DEF Id!FirstCas
  <1>2. th[t].at \notin HasId /\ "first" \notin HasId /\ "first" \in Id!Labels
    BY Zenon, <1>1 DEF HasId, Id!Labels
  <1>3. th[t].id = last /\ th[t].cur > 0
    BY Zenon, <1>1, <1>2, IdOfThread
  <1>4. CASE first = th[t].cur
    <2>1. PICK i : i = first - 1
      BY Zenon
    <2>2. first' = i /\ Id!Runs(t, i)
      BY Zenon, <1>4, <2>1 DEF Id!FirstCas
    <2>3. /\ i \in Id!Ids /\ i # last /\ i \in 0 .. last /\ ~(first <= i) /\ i < first_free /\ i <= i
          /\ \A j \in Id!Ids : j # i => (j < i <=> j < first)
      BY SMTT(60), <1>3, <1>4, <2>1, IdTypes DEF Id!Ids
    <2>4. ~bitmap[i] /\ \A u \in Threads : th[u].id # i
      BY Zenon, <2>3, IdOfId, IdOfThread
    <2>5. bitmap' = [bitmap EXCEPT ![i] = FALSE]
      <3>1. bitmap \in [Id!Ids -> BOOLEAN] /\ bitmap[i] = FALSE
        BY Zenon, <2>3, <2>4, IdTypes
      <3> QED BY Zenon, <1>1, <2>3, <3>1
    <2>6. IdTakes(t, i)
      BY Zenon, <1>1, <1>3, <2>2, <2>3, <2>4, <2>5, IdTypes DEF IdTakes
    <2> QED BY Zenon, <2>6, IdTake
  <1>5. CASE first # th[t].cur
    <2>1. th' = [th EXCEPT ![t].at = "first"] /\ first' = first
      BY Zenon, <1>5 DEF Id!FirstCas, Id!Goto
    <2> QED BY Zenon, <1>1, <1>2, <2>1, IdTypes, IdGoto
  <1> QED BY Zenon, <1>4, <1>5

\* The compare-and-swap on first_free takes that id, or is tried again.
LEMMA IdFreeCas ==
  ASSUME last \in Nat, Id!IdInv, NEW t \in Threads, Id!FreeCas(t)
  PROVE  Id!IdInv'
  <1>1. th[t].at = "free_cas" /\ UNCHANGED <<first, fragmented, bitmap>>
    BY Zenon DEF Id!FreeCas
  <1>2. th[t].at \notin HasId /\ "free" \notin HasId /\ "free" \in Id!Labels
    BY Zenon, <1>1 DEF HasId, Id!Labels
  <1>3. th[t].id = last /\ th[t].cur < last
    BY Zenon, <1>1, <1>2, IdOfThread
  <1>4. CASE first_free = th[t].cur
    <2>1. PICK i : i = first_free
      BY Zenon
    <2>2. first_free' = i + 1 /\ Id!Runs(t, i)
      BY Zenon, <1>4, <2>1 DEF Id!FreeCas
    <2>3. /\ i \in Id!Ids /\ i # last /\ i + 1 \in 0 .. last /\ ~(i < first_free) /\ first <= i /\ i < i + 1
          /\ \A j \in Id!Ids : j # i => (j < i + 1 <=> j < first_free)
      BY SMTT(60), <1>3, <1>4, <2>1, IdTypes DEF Id!Ids
    <2>4. ~bitmap[i] /\ \A u \in Threads : th[u].id # i
      BY Zenon, <2>3, IdOfId, IdOfThread
    <2>5. bitmap' = [bitmap EXCEPT ![i] = FALSE]
      <3>1. bitmap \in [Id!Ids -> BOOLEAN] /\ bitmap[i] = FALSE
        BY Zenon, <2>3, <2>4, IdTypes
      <3> QED BY Zenon, <1>1, <2>3, <3>1
    <2>6. IdTakes(t, i)
      BY Zenon, <1>1, <1>3, <2>2, <2>3, <2>4, <2>5, IdTypes DEF IdTakes
    <2> QED BY Zenon, <2>6, IdTake
  <1>5. CASE first_free # th[t].cur
    <2>1. th' = [th EXCEPT ![t].at = "free"] /\ first_free' = first_free
      BY Zenon, <1>5 DEF Id!FreeCas, Id!Goto
    <2> QED BY Zenon, <1>1, <1>2, <2>1, IdTypes, IdGoto
  <1> QED BY Zenon, <1>4, <1>5

\* A thread puts its id i back: below first, or into the bitmap.
IdReturns(t, i, a) ==
  /\ i \in Id!Ids /\ th[t].id = i /\ a \in Id!Labels \ (HasId \cup {"first_cas", "free_cas"})
  /\ th' = [th EXCEPT ![t] = Id!Without(a, 0)]
  /\ first' \in 0 .. last /\ first' <= first_free /\ UNCHANGED <<first_free, fragmented>>
  /\ bitmap' \in [Id!Ids -> BOOLEAN]
  /\ i < first' \/ bitmap'[i]
  /\ bitmap'[i] => first' <= i /\ i < first_free
  /\ \A j \in Id!Ids : j # i => (j < first' <=> j < first) /\ bitmap'[j] = bitmap[j]

\* Putting an id back keeps the invariant.
LEMMA IdReturn ==
  ASSUME last \in Nat, Id!IdInv, NEW t \in Threads, NEW i, NEW a, IdReturns(t, i, a)
  PROVE  Id!IdInv'
  <1>0. /\ i \in Id!Ids /\ th[t].id = i
        /\ a \in Id!Labels /\ a \notin HasId /\ a # "first_cas" /\ a # "free_cas"
        /\ first' \in 0 .. last /\ first' <= first_free /\ UNCHANGED <<first_free, fragmented>>
        /\ bitmap' \in [Id!Ids -> BOOLEAN]
        /\ i < first' \/ bitmap'[i]
        /\ bitmap'[i] => first' <= i /\ i < first_free
        /\ \A j \in Id!Ids : j # i => (j < first' <=> j < first) /\ bitmap'[j] = bitmap[j]
    BY Zenon DEF IdReturns
  <1>1. i # last /\ first \in Nat /\ first' \in Nat
    BY <1>0, IdTypes DEF Id!Ids
  <1>2. PICK r : r = Id!Without(a, 0)
    BY Zenon
  <1>3. r \in IdRecord /\ r.at = a /\ r.id = last
    BY <1>0, <1>2 DEF IdRecord, Id!Without, Id!NoId
  <1>4. th' = [th EXCEPT ![t] = r]
    BY Zenon, <1>2 DEF IdReturns
  <1>5. /\ th' \in [Threads -> IdRecord] /\ th'[t] = r
        /\ \A u \in Threads : u # t => th'[u] = th[u]
    BY Zenon, <1>3, <1>4, IdMoves
  <1>6. \A u \in Threads : u # t => th[u].id # i
    BY Zenon, <1>0, <1>1 DEF Id!IdInv, Id!UniqueIds, Id!NoId
  <1>7. Id!UniqueIds'
    BY ZenonT(60), <1>3, <1>5, IdOfTwo DEF Id!UniqueIds, Id!NoId
  <1>8. ASSUME NEW u \in Threads PROVE Id!ThreadInv(u)'
    <2>1. CASE u = t
      BY Zenon, <1>0, <1>3, <1>5, <2>1 DEF Id!ThreadInv, Id!NoId, HasId
    <2>2. CASE u # t
      <3>1. th'[u] = th[u] /\ th[u].id # i
        BY Zenon, <1>5, <1>6, <2>2
      <3>2. CASE th[u].id = last
        BY Zenon, <3>1, <3>2, IdOfThread DEF Id!ThreadInv, Id!NoId, HasId
      <3>3. CASE th[u].id # last
        <4>1. th[u].id \in Id!Ids
          BY <3>3, IdOfThread DEF Id!Ids
        <4>2. first <= th[u].id /\ th[u].id < first_free' /\ ~bitmap[th[u].id]
          BY Zenon, <1>0, <3>3, IdOfThread
        <4>3. th[u].id < first' <=> th[u].id < first
          BY Zenon, <1>0, <3>1, <4>1
        <4>4. first' <= th[u].id
          BY <1>1, <4>1, <4>2, <4>3 DEF Id!Ids
        <4>5. ~bitmap'[th[u].id]
          BY Zenon, <1>0, <3>1, <4>1, <4>2
        <4> QED BY Zenon, <3>1, <4>2, <4>4, <4>5, IdOfThread DEF Id!ThreadInv, Id!NoId, HasId
      <3> QED BY Zenon, <3>2, <3>3
    <2> QED BY Zenon, <2>1, <2>2
  <1>9. ASSUME NEW j \in Id!Ids PROVE Id!PlaceInv(j)'
    <2>1. CASE j = i
      BY Zenon, <1>0, <2>1 DEF Id!PlaceInv
    <2>2. CASE j # i
      <3>1. (j < first' <=> j < first) /\ bitmap'[j] = bitmap[j]
        BY Zenon, <1>0, <2>2
      <3>2. first' <= j <=> first <= j
        BY <1>1, <3>1 DEF Id!Ids
      <3>3. (\E u \in Threads : th[u].id = j) => \E u \in Threads : th'[u].id = j
        BY Zenon, <1>0, <1>5, <2>2
      <3> QED BY Zenon, <1>0, <3>1, <3>2, <3>3, IdOfId DEF Id!PlaceInv
    <2> QED BY Zenon, <2>1, <2>2
  <1>10. first_free' \in 0 .. last /\ first' <= first_free' /\ fragmented' \in BOOLEAN
    BY Zenon, <1>0, IdTypes
  <1> QED BY Zenon, <1>0, <1>5, <1>7, <1>8, <1>9, <1>10, IdAfter

\* The compare-and-swap of a release puts id first back, or is tried again.
LEMMA IdReleaseCas ==
  ASSUME last \in Nat, Id!IdInv, NEW t \in Threads, Id!ReleaseCas(t)
  PROVE  Id!IdInv'
  <1>0. PICK i : i = th[t].id
    BY Zenon
  <1>1. th[t].at = "release_cas" /\ UNCHANGED <<first_free, fragmented, bitmap>>
    BY Zenon DEF Id!ReleaseCas
  <1>2. /\ th[t].at \in HasId /\ "run" \in HasId /\ "run" \in Id!Labels
        /\ "out" \in Id!Labels \ (HasId \cup {"first_cas", "free_cas"})
    BY Zenon, <1>1 DEF HasId, Id!Labels
  <1>3. i # last /\ first <= i /\ i < first_free /\ ~bitmap[i] /\ i \in 0 .. last
    BY Zenon, <1>0, <1>2, IdOfThread
  <1>4. i \in Id!Ids
    BY <1>3 DEF Id!Ids
  <1>5. CASE first = i
    <2>1. first' = first + 1 /\ th' = [th EXCEPT ![t] = Id!Without("out", 0)]
      BY Zenon, <1>0, <1>5 DEF Id!ReleaseCas, Id!Outside
    <2>2. /\ first' \in 0 .. last /\ first' <= first_free /\ i < first'
          /\ \A j \in Id!Ids : j # i => (j < first' <=> j < first)
      BY <1>3, <1>5, <2>1, IdTypes DEF Id!Ids
    <2>3. IdReturns(t, i, "out")
      BY Zenon, <1>0, <1>1, <1>2, <1>3, <1>4, <2>1, <2>2, IdTypes DEF IdReturns
    <2> QED BY Zenon, <2>3, IdReturn
  <1>6. CASE first # i
    <2>1. th' = [th EXCEPT ![t].at = "run"] /\ first' = first
      BY Zenon, <1>0, <1>6 DEF Id!ReleaseCas, Id!Goto
    <2> QED BY Zenon, <1>1, <1>2, <2>1, IdTypes, IdGoto
  <1> QED BY Zenon, <1>5, <1>6

\* A release into the bitmap.
LEMMA IdSetBit ==
  ASSUME last \in Nat, Id!IdInv, NEW t \in Threads, Id!SetBit(t)
  PROVE  Id!IdInv'
  <1>0. PICK i : i = th[t].id
    BY Zenon
  <1>1. /\ th[t].at = "set_bit" /\ bitmap' = [bitmap EXCEPT ![i] = TRUE]
        /\ th' = [th EXCEPT ![t] = Id!Without("fragment", 0)]
        /\ UNCHANGED <<first, first_free, fragmented>>
    BY Zenon, <1>0 DEF Id!SetBit
  <1>2. th[t].at \in HasId /\ "fragment" \in Id!Labels \ (HasId \cup {"first_cas", "free_cas"})
    BY Zenon, <1>1 DEF HasId, Id!Labels
  <1>3. i # last /\ first <= i /\ i < first_free /\ i \in 0 .. last
    BY Zenon, <1>0, <1>2, IdOfThread
  <1>4. i \in Id!Ids
    BY <1>3 DEF Id!Ids
  <1>5. /\ bitmap' \in [Id!Ids -> BOOLEAN] /\ bitmap'[i]
        /\ \A j \in Id!Ids : j # i => bitmap'[j] = bitmap[j]
    BY Zenon, <1>1, <1>4, IdTypes
  <1>6. IdReturns(t, i, "fragment")
    BY Zenon, <1>0, <1>1, <1>2, <1>3, <1>4, <1>5, IdTypes DEF IdReturns
  <1> QED BY Zenon, <1>6, IdReturn

\* No two threads have the same id, and every id is at one of the places of
\* id_manager or with one thread, however the threads that take ids and those that
\* return them interleave: the CASes, the bitmap and the flag lose no id and give
\* none out twice, for any number of threads and ids.
THEOREM IdsUnique ==
  ASSUME last \in Nat
  PROVE  Id!Spec => [](Id!UniqueIds /\ Id!FreeOrHeld)
  <1>1. Id!Init => Id!IdInv
    <2> SUFFICES ASSUME Id!Init PROVE Id!IdInv
      BY Zenon
    <2>1. first = 0 /\ first_free = 0 /\ bitmap \in [Id!Ids -> BOOLEAN] /\ fragmented \in BOOLEAN
      BY Zenon DEF Id!Init
    <2>2. Id!Outside \in IdRecord /\ Id!Outside.id = last /\ Id!Outside.at = "out"
      BY DEF Id!Outside, Id!Without, Id!NoId, IdRecord, Id!Labels
    <2>3. th \in [Threads -> IdRecord] /\ \A t \in Threads : th[t].id = last /\ th[t].at = "out"
      BY Zenon, <2>2 DEF Id!Init
    <2>4. \A i \in Id!Ids : ~bitmap[i] /\ i >= first_free
      <3>1. \A i \in Id!Ids : i >= 0
        BY DEF Id!Ids
      <3> QED BY Zenon, <2>1, <3>1 DEF Id!Init
    <2>5. first \in 0 .. last /\ first_free \in 0 .. last /\ first <= first_free
      BY <2>1
    <2>6. \A t \in Threads : Id!ThreadInv(t)
      BY Zenon, <2>3 DEF Id!ThreadInv, Id!NoId
    <2>7. \A i \in Id!Ids : Id!PlaceInv(i)
      BY Zenon, <2>4 DEF Id!PlaceInv
    <2> QED BY Zenon, <2>1, <2>3, <2>5, <2>6, <2>7 DEF Id!IdInv, Id!TypeOK, Id!UniqueIds, Id!NoId, IdRecord
  <1>2. Id!IdInv /\ [Id!Next]_(Id!vars) => Id!IdInv'
    <2>1. ASSUME Id!IdInv, UNCHANGED Id!vars PROVE Id!IdInv'
      BY Zenon, <2>1 DEF Id!IdInv, Id!TypeOK, Id!UniqueIds, Id!ThreadInv, Id!PlaceInv, Id!vars, Id!Ids, Id!Labels
    <2>2. ASSUME Id!IdInv, NEW t \in Threads,
                 \/ Id!Find(t) \/ Id!ScanBit(t) \/ Id!ScanEnd(t) \/ Id!ReadFirst(t) \/ Id!FirstCas(t)
                 \/ Id!ReadFirstFree(t) \/ Id!FreeCas(t)
                 \/ Id!Release(t) \/ Id!ReleaseCas(t) \/ Id!SetBit(t) \/ Id!SetFragmented(t)
          PROVE  Id!IdInv'
      BY Zenon, <2>2, IdLook, IdScanBit, IdFirstCas, IdFreeCas, IdReleaseCas, IdSetBit DEF IdLooks
    <2> QED BY Zenon, <2>1, <2>2 DEF Id!Next
  <1>3. Id!IdInv => Id!UniqueIds /\ Id!FreeOrHeld
    <2> SUFFICES ASSUME Id!IdInv, NEW i \in Id!Ids PROVE \E p \in 1 .. 4 : Id!Places(i) = {p}
      BY Zenon DEF Id!IdInv, Id!FreeOrHeld
    <2>1. i \in Id!Held <=> \E t \in Threads : th[t].id = i
      BY DEF Id!Held, Id!NoId, Id!Ids
    <2>2. /\ bitmap[i] => first <= i /\ i < first_free
          /\ i < first \/ bitmap[i] \/ i >= first_free \/ i \in Id!Held
          /\ i \in Id!Held => first <= i /\ i < first_free /\ ~bitmap[i]
          /\ first \in Nat /\ first_free \in Nat /\ first <= first_free /\ i \in Nat
      <3>1. first \in Nat /\ first_free \in Nat /\ first <= first_free /\ i \in Nat /\ i # last
        BY IdTypes DEF Id!Ids
      <3> QED BY Zenon, <2>1, <3>1, IdOfId, IdOfThread
    <2>3. CASE i < first
      BY <2>2, <2>3 DEF Id!Places
    <2>4. CASE bitmap[i]
      BY <2>2, <2>4 DEF Id!Places
    <2>5. CASE i >= first_free
      BY <2>2, <2>5 DEF Id!Places
    <2>6. CASE i \in Id!Held
      BY <2>2, <2>6 DEF Id!Places
    <2> QED BY <2>2, <2>3, <2>4, <2>5, <2>6
  <1> QED BY <1>1, <1>2, <1>3, PTL DEF Id!Spec
-----------------------------------------------------------------------------
\* The update of a function at one argument.
LEMMA RclUpdate ==
  ASSUME NEW S, NEW f, f = [y \in S |-> f[y]], NEW x \in S, NEW v
  PROVE  LET g == [f EXCEPT ![x] = v] IN
         /\ g = [y \in S |-> g[y]] /\ g[x] = v
         /\ \A y \in S : y # x => g[y] = f[y]
  BY Zenon

\* A request and a servicing thread, by their fields.
LEMMA RclIsRequest ==
  ASSUME NEW a, NEW b, NEW c, NEW d, NEW q,
         q = [impl |-> a, val |-> b, pending |-> c, servicing_owner |-> d]
  PROVE  /\ Rcl!IsRequest(q)
         /\ q.impl = a /\ q.val = b /\ q.pending = c /\ q.servicing_owner = d
  BY DEF Rcl!IsRequest

\* The same of a servicing thread.
LEMMA RclIsThread ==
  ASSUME NEW a, NEW b, NEW c, NEW d, NEW e, NEW t,
         t = [at |-> a, i |-> b, pending |-> c, impl |-> d, seen |-> e]
  PROVE  /\ Rcl!IsThread(t)
         /\ t.at = a /\ t.i = b /\ t.pending = c /\ t.impl = d /\ t.seen = e
  BY DEF Rcl!IsThread

\* The updates of a request.
SetPending(p, q, v) == p = [q EXCEPT !.pending = v]

\* pending is set.
LEMMA RclRequestPending ==
  ASSUME NEW q, NEW v, NEW p, SetPending(p, q, v), Rcl!IsRequest(q)
  PROVE  /\ Rcl!IsRequest(p)
         /\ p.impl = q.impl
         /\ p.val = q.val
         /\ p.pending = v
         /\ p.servicing_owner = q.servicing_owner
  <1>1. PICK a1, a2, a3, a4 : q = [impl |-> a1, val |-> a2, pending |-> a3, servicing_owner |-> a4]
    BY Zenon DEF Rcl!IsRequest
  <1>2. p = [impl |-> a1, val |-> a2, pending |-> v, servicing_owner |-> a4]
    BY <1>1 DEF SetPending
  <1> QED BY <1>1, <1>2, RclIsRequest

SetOwner(p, q, v) == p = [q EXCEPT !.servicing_owner = v]

\* servicing_owner is set.
LEMMA RclRequestOwner ==
  ASSUME NEW q, NEW v, NEW p, SetOwner(p, q, v), Rcl!IsRequest(q)
  PROVE  /\ Rcl!IsRequest(p)
         /\ p.impl = q.impl
         /\ p.val = q.val
         /\ p.pending = q.pending
         /\ p.servicing_owner = v
  <1>1. PICK a1, a2, a3, a4 : q = [impl |-> a1, val |-> a2, pending |-> a3, servicing_owner |-> a4]
    BY Zenon DEF Rcl!IsRequest
  <1>2. p = [impl |-> a1, val |-> a2, pending |-> a3, servicing_owner |-> v]
    BY <1>1 DEF SetOwner
  <1> QED BY <1>1, <1>2, RclIsRequest

SetVal(p, q, v) == p = [q EXCEPT !.val = v]

\* val is set.
LEMMA RclRequestVal ==
  ASSUME NEW q, NEW v, NEW p, SetVal(p, q, v), Rcl!IsRequest(q)
  PROVE  /\ Rcl!IsRequest(p)
         /\ p.impl = q.impl
         /\ p.val = v
         /\ p.pending = q.pending
         /\ p.servicing_owner = q.servicing_owner
  <1>1. PICK a1, a2, a3, a4 : q = [impl |-> a1, val |-> a2, pending |-> a3, servicing_owner |-> a4]
    BY Zenon DEF Rcl!IsRequest
  <1>2. p = [impl |-> a1, val |-> v, pending |-> a3, servicing_owner |-> a4]
    BY <1>1 DEF SetVal
  <1> QED BY <1>1, <1>2, RclIsRequest

SetCall(p, q, v, w) == p = [q EXCEPT !.impl = v, !.val = w]

\* impl and val are set.
LEMMA RclRequestCall ==
  ASSUME NEW q, NEW v, NEW w, NEW p, SetCall(p, q, v, w), Rcl!IsRequest(q)
  PROVE  /\ Rcl!IsRequest(p)
         /\ p.impl = v
         /\ p.val = w
         /\ p.pending = q.pending
         /\ p.servicing_owner = q.servicing_owner
  <1>1. PICK a1, a2, a3, a4 : q = [impl |-> a1, val |-> a2, pending |-> a3, servicing_owner |-> a4]
    BY Zenon DEF Rcl!IsRequest
  <1>2. p = [impl |-> v, val |-> w, pending |-> a3, servicing_owner |-> a4]
    <2>1. p = [[q EXCEPT !.impl = v] EXCEPT !.val = w]
      BY Zenon, <1>1 DEF SetCall
    <2>2. PICK m : m = [impl |-> v, val |-> a2, pending |-> a3, servicing_owner |-> a4]
      BY Zenon
    <2>3. [q EXCEPT !.impl = v] = m
      BY <1>1, <2>2
    <2>4. [m EXCEPT !.val = w] = [impl |-> v, val |-> w, pending |-> a3, servicing_owner |-> a4]
      BY <2>2
    <2> QED BY Zenon, <2>1, <2>3, <2>4
  <1> QED BY <1>1, <1>2, RclIsRequest

\* The updates of a servicing thread.
GoesTo(p, q, v) == p = [q EXCEPT !.at = v]

\* The thread goes on.
LEMMA RclThreadAt ==
  ASSUME NEW q, NEW v, NEW p, GoesTo(p, q, v), Rcl!IsThread(q)
  PROVE  /\ Rcl!IsThread(p)
         /\ p.at = v
         /\ p.i = q.i
         /\ p.pending = q.pending
         /\ p.impl = q.impl
         /\ p.seen = q.seen
  <1>1. PICK a1, a2, a3, a4, a5 : q = [at |-> a1, i |-> a2, pending |-> a3, impl |-> a4, seen |-> a5]
    BY Zenon DEF Rcl!IsThread
  <1>2. p = [at |-> v, i |-> a2, pending |-> a3, impl |-> a4, seen |-> a5]
    BY <1>1 DEF GoesTo
  <1> QED BY <1>1, <1>2, RclIsThread

GoesPending(p, q, v, w) == p = [q EXCEPT !.at = v, !.pending = w]

\* It goes on with the function it has read.
LEMMA RclThreadPending ==
  ASSUME NEW q, NEW v, NEW w, NEW p, GoesPending(p, q, v, w), Rcl!IsThread(q)
  PROVE  /\ Rcl!IsThread(p)
         /\ p.at = v
         /\ p.i = q.i
         /\ p.pending = w
         /\ p.impl = q.impl
         /\ p.seen = q.seen
  <1>1. PICK a1, a2, a3, a4, a5 : q = [at |-> a1, i |-> a2, pending |-> a3, impl |-> a4, seen |-> a5]
    BY Zenon DEF Rcl!IsThread
  <1>2. p = [at |-> v, i |-> a2, pending |-> w, impl |-> a4, seen |-> a5]
    <2>1. p = [[q EXCEPT !.at = v] EXCEPT !.pending = w]
      BY Zenon, <1>1 DEF GoesPending
    <2>2. PICK m : m = [at |-> v, i |-> a2, pending |-> a3, impl |-> a4, seen |-> a5]
      BY Zenon
    <2>3. [q EXCEPT !.at = v] = m
      BY <1>1, <2>2
    <2>4. [m EXCEPT !.pending = w] = [at |-> v, i |-> a2, pending |-> w, impl |-> a4, seen |-> a5]
      BY <2>2
    <2> QED BY Zenon, <2>1, <2>3, <2>4
  <1> QED BY <1>1, <1>2, RclIsThread

GoesImpl(p, q, v, w) == p = [q EXCEPT !.at = v, !.impl = w]

\* It goes on with the lock it has read.
LEMMA RclThreadImpl ==
  ASSUME NEW q, NEW v, NEW w, NEW p, GoesImpl(p, q, v, w), Rcl!IsThread(q)
  PROVE  /\ Rcl!IsThread(p)
         /\ p.at = v
         /\ p.i = q.i
         /\ p.pending = q.pending
         /\ p.impl = w
         /\ p.seen = q.seen
  <1>1. PICK a1, a2, a3, a4, a5 : q = [at |-> a1, i |-> a2, pending |-> a3, impl |-> a4, seen |-> a5]
    BY Zenon DEF Rcl!IsThread
  <1>2. p = [at |-> v, i |-> a2, pending |-> a3, impl |-> w, seen |-> a5]
    <2>1. p = [[q EXCEPT !.at = v] EXCEPT !.impl = w]
      BY Zenon, <1>1 DEF GoesImpl
    <2>2. PICK m : m = [at |-> v, i |-> a2, pending |-> a3, impl |-> a4, seen |-> a5]
      BY Zenon
    <2>3. [q EXCEPT !.at = v] = m
      BY <1>1, <2>2
    <2>4. [m EXCEPT !.impl = w] = [at |-> v, i |-> a2, pending |-> a3, impl |-> w, seen |-> a5]
      BY <2>2
    <2> QED BY Zenon, <2>1, <2>3, <2>4
  <1> QED BY <1>1, <1>2, RclIsThread

GoesSeen(p, q, v, w) == p = [q EXCEPT !.at = v, !.seen = w]

\* It goes on with the value it has read.
LEMMA RclThreadSeen ==
  ASSUME NEW q, NEW v, NEW w, NEW p, GoesSeen(p, q, v, w), Rcl!IsThread(q)
  PROVE  /\ Rcl!IsThread(p)
         /\ p.at = v
         /\ p.i = q.i
         /\ p.pending = q.pending
         /\ p.impl = q.impl
         /\ p.seen = w
  <1>1. PICK a1, a2, a3, a4, a5 : q = [at |-> a1, i |-> a2, pending |-> a3, impl |-> a4, seen |-> a5]
    BY Zenon DEF Rcl!IsThread
  <1>2. p = [at |-> v, i |-> a2, pending |-> a3, impl |-> a4, seen |-> w]
    <2>1. p = [[q EXCEPT !.at = v] EXCEPT !.seen = w]
      BY Zenon, <1>1 DEF GoesSeen
    <2>2. PICK m : m = [at |-> v, i |-> a2, pending |-> a3, impl |-> a4, seen |-> a5]
      BY Zenon
    <2>3. [q EXCEPT !.at = v] = m
      BY <1>1, <2>2
    <2>4. [m EXCEPT !.seen = w] = [at |-> v, i |-> a2, pending |-> a3, impl |-> a4, seen |-> w]
      BY <2>2
    <2> QED BY Zenon, <2>1, <2>3, <2>4
  <1> QED BY <1>1, <1>2, RclIsThread

\* The invariant's parts, by name.
LEMMA RclShapes ==
  ASSUME Rcl!ServiceInv
  PROVE  /\ requests = [c \in Rcl!Clients |-> requests[c]] /\ locked \in [Vars -> BOOLEAN]
         /\ th = [s \in Servicing |-> th[s]] /\ pc = [c \in Rcl!Clients |-> pc[c]]
         /\ op = [c \in Rcl!Clients |-> op[c]] /\ ret = [c \in Rcl!Clients |-> ret[c]]
         /\ mem = [v \in Vars |-> mem[v]]
  BY Zenon DEF Rcl!ServiceInv, Rcl!Shapes

\* What the invariant says of a client.
LEMMA RclClient ==
  ASSUME Rcl!ServiceInv, NEW c \in Rcl!Clients
  PROVE  /\ Rcl!IsRequest(requests[c])
         /\ pc[c] \in {"idle", "post", "wait"}
         /\ pc[c] # "idle" => op[c] \in Rcl!Ops /\ requests[c].impl = op[c].var
         /\ requests[c].pending # None => pc[c] = "wait" /\ requests[c].pending = op[c].fn
  BY Zenon DEF Rcl!ServiceInv, Rcl!ClientInv

\* What it says of a servicing thread.
LEMMA RclServant ==
  ASSUME Rcl!ServiceInv, NEW s \in Servicing
  PROVE  /\ Rcl!IsThread(th[s]) /\ th[s].i \in Rcl!Clients
         /\ GDB_PROOF /\ th[s].at \in Rcl!BusyAt => requests[th[s].i].servicing_owner = s
         /\ th[s].at \in Rcl!ServingAt =>
              requests[th[s].i].pending # None /\ th[s].pending = requests[th[s].i].pending
         /\ th[s].at \in Rcl!NamedAt => th[s].impl = requests[th[s].i].impl
         /\ th[s].at \in Rcl!HoldsAt => th[s].impl \in Vars /\ locked[th[s].impl]
         /\ th[s].at = "store" => th[s].seen = mem[th[s].impl]
  BY Zenon DEF Rcl!ServiceInv, Rcl!ThreadInv, Rcl!request

\* The record of a servicing thread, by name.
LEMMA RclRecord ==
  ASSUME Rcl!ServiceInv, NEW s \in Servicing
  PROVE  \E t, q : /\ t = th[s] /\ Rcl!IsThread(t) /\ t.i \in Rcl!Clients
                   /\ q = requests[th[s].i] /\ Rcl!IsRequest(q)
  <1>1. Rcl!IsThread(th[s]) /\ th[s].i \in Rcl!Clients /\ Rcl!IsRequest(requests[th[s].i])
    BY Zenon, RclServant, RclClient
  <1>2. PICK t, q : t = th[s] /\ q = requests[th[s].i]
    BY Zenon
  <1>3. Rcl!IsThread(t)
    BY Zenon, <1>1, <1>2 DEF Rcl!IsThread
  <1>4. Rcl!IsRequest(q)
    BY Zenon, <1>1, <1>2 DEF Rcl!IsRequest
  <1> QED BY Zenon, <1>1, <1>2, <1>3, <1>4

\* What it says of the locks.
LEMMA RclLocks ==
  ASSUME Rcl!ServiceInv
  PROVE  \A s, r \in Servicing :
           s # r /\ th[s].at \in Rcl!HoldsAt /\ th[r].at \in Rcl!HoldsAt => th[s].impl # th[r].impl
  BY Zenon DEF Rcl!ServiceInv, Rcl!LockInv

\* The places of a servicing thread.
LEMMA RclPlaces ==
  ASSUME Rcl!Sizes
  PROVE  /\ \A a \in Rcl!ServingAt : a \in Rcl!BusyAt
         /\ \A a \in Rcl!NamedAt : a \in Rcl!ServingAt
         /\ \A a \in Rcl!DoneAt : a \in Rcl!ServingAt
         /\ "store" \in Rcl!HoldsAt
         /\ \A a \in Rcl!HoldsAt : a \in Rcl!BusyAt
  <1>1. CASE GDB_PROOF
    BY Zenon, <1>1 DEF Rcl!ServingAt, Rcl!NamedAt, Rcl!DoneAt, Rcl!HoldsAt, Rcl!BusyAt
  <1>2. CASE ~GDB_PROOF
    BY Zenon, <1>2 DEF Rcl!ServingAt, Rcl!NamedAt, Rcl!DoneAt, Rcl!HoldsAt, Rcl!BusyAt
  <1> QED BY <1>1, <1>2

\* Two servicing threads are not busy with one request: it has one owner, or
\* there is one thread.
LEMMA RclOne ==
  ASSUME Rcl!Sizes, Rcl!ServiceInv, NEW s \in Servicing, NEW u \in Servicing, u # s,
         th[u].at \in Rcl!BusyAt, th[s].at \in Rcl!BusyAt
  PROVE  th[u].i # th[s].i
  <1>1. GDB_PROOF
    BY Zenon DEF Rcl!Sizes
  <1>2. requests[th[u].i].servicing_owner = u /\ requests[th[s].i].servicing_owner = s
    BY Zenon, <1>1, RclServant
  <1> QED BY Zenon, <1>2

\* What does not depend on the state.
LEMMA RclConstants ==
  /\ Rcl!Clients' = Rcl!Clients /\ Rcl!BusyAt' = Rcl!BusyAt /\ Rcl!ServingAt' = Rcl!ServingAt
  /\ Rcl!NamedAt' = Rcl!NamedAt /\ Rcl!HoldsAt' = Rcl!HoldsAt /\ Rcl!DoneAt' = Rcl!DoneAt
  /\ Rcl!Ops' = Rcl!Ops
  BY Zenon DEF Rcl!Clients, Rcl!BusyAt, Rcl!ServingAt, Rcl!NamedAt, Rcl!HoldsAt, Rcl!DoneAt, Rcl!Ops

\* A step of servicing thread s, to record r, that leaves its request as q.
RclMoves(s, r, q) ==
  /\ th' = [u \in Servicing |-> th'[u]] /\ th'[s] = r /\ Rcl!IsThread(r) /\ r.i \in Rcl!Clients
  /\ \A u \in Servicing : u # s => th'[u] = th[u]
  /\ requests' = [c \in Rcl!Clients |-> requests'[c]] /\ requests'[th[s].i] = q /\ Rcl!IsRequest(q)
  /\ \A c \in Rcl!Clients : c # th[s].i => requests'[c] = requests[c]
  /\ q.impl = requests[th[s].i].impl
  /\ pc' = pc /\ op' = op /\ ret' = ret

\* The updates that make such a step.
LEMMA RclMove ==
  ASSUME Rcl!ServiceInv, NEW s \in Servicing, NEW r, NEW q,
         th' = [th EXCEPT ![s] = r], Rcl!IsThread(r), r.i \in Rcl!Clients,
         requests' = [requests EXCEPT ![th[s].i] = q], Rcl!IsRequest(q),
         q.impl = requests[th[s].i].impl, pc' = pc, op' = op, ret' = ret
  PROVE  RclMoves(s, r, q)
  <1>1. /\ th' = [u \in Servicing |-> th'[u]] /\ th'[s] = r
        /\ \A u \in Servicing : u # s => th'[u] = th[u]
    BY Zenon, RclShapes, RclUpdate
  <1>2. th[s].i \in Rcl!Clients
    BY Zenon, RclServant
  <1>3. /\ requests' = [c \in Rcl!Clients |-> requests'[c]] /\ requests'[th[s].i] = q
        /\ \A c \in Rcl!Clients : c # th[s].i => requests'[c] = requests[c]
    BY Zenon, <1>2, RclShapes, RclUpdate
  <1> QED BY Zenon, <1>1, <1>3 DEF RclMoves

\* What is to be shown of a thread after a step.
LEMMA RclAfter ==
  ASSUME NEW u \in Servicing, NEW t, NEW q, th'[u] = t, Rcl!IsThread(t), t.i \in Rcl!Clients,
         requests'[t.i] = q,
         GDB_PROOF /\ t.at \in Rcl!BusyAt => q.servicing_owner = u,
         t.at \in Rcl!ServingAt => q.pending # None /\ t.pending = q.pending,
         t.at \in Rcl!NamedAt => t.impl = q.impl,
         t.at \in Rcl!HoldsAt => t.impl \in Vars /\ locked'[t.impl],
         t.at = "store" => t.seen = mem'[t.impl]
  PROVE  Rcl!ThreadInv(u)'
  <1>1. requests'[th'[u].i] = q
    BY Zenon
  <1> QED BY Zenon, <1>1, RclConstants DEF Rcl!ThreadInv, Rcl!request, Rcl!IsThread

\* The other threads lose nothing to such a step.
LEMMA RclOthers ==
  ASSUME Rcl!Sizes, Rcl!ServiceInv, NEW s \in Servicing, NEW r, NEW q, RclMoves(s, r, q),
         q.pending = requests[th[s].i].pending \/ th[s].at \in Rcl!BusyAt,
         \/ q.servicing_owner = requests[th[s].i].servicing_owner
         \/ th[s].at \in Rcl!BusyAt \/ requests[th[s].i].servicing_owner = None,
         NEW u \in Servicing, u # s,
         th[u].at \in Rcl!HoldsAt => locked'[th[u].impl] /\ mem'[th[u].impl] = mem[th[u].impl]
  PROVE  Rcl!ThreadInv(u)'
  <1>1. th'[u] = th[u] /\ requests'[th[s].i] = q /\ q.impl = requests[th[s].i].impl
        /\ \A c \in Rcl!Clients : c # th[s].i => requests'[c] = requests[c]
    BY Zenon DEF RclMoves
  <1>2. PICK t, p : t = th[u] /\ p = requests'[th[u].i]
    BY Zenon
  <1>3. th[u].i \in Rcl!Clients /\ Rcl!IsThread(th[u])
    BY Zenon, RclServant
  <1>4. /\ p.impl = requests[th[u].i].impl
        /\ th[u].at \in Rcl!BusyAt => p.pending = requests[th[u].i].pending
        /\ GDB_PROOF /\ th[u].at \in Rcl!BusyAt => p.servicing_owner = requests[th[u].i].servicing_owner
    <2>1. CASE th[u].i = th[s].i
      <3>1. p = q
        BY Zenon, <1>1, <1>2, <2>1
      <3>2. th[u].at \in Rcl!BusyAt => ~(th[s].at \in Rcl!BusyAt)
        BY Zenon, <2>1, RclOne
      <3>3. u # None
        BY Zenon DEF Rcl!Sizes
      <3>4. GDB_PROOF /\ th[u].at \in Rcl!BusyAt => requests[th[s].i].servicing_owner # None
        BY Zenon, <2>1, <3>3, RclServant
      <3> QED BY Zenon, <1>1, <2>1, <3>1, <3>2, <3>4
    <2>2. CASE th[u].i # th[s].i
      <3>1. p = requests[th[u].i]
        BY Zenon, <1>1, <1>2, <1>3, <2>2
      <3> QED BY Zenon, <3>1
    <2> QED BY Zenon, <2>1, <2>2
  <1>5. GDB_PROOF /\ th[u].at \in Rcl!BusyAt => p.servicing_owner = u
    BY Zenon, <1>4, RclServant
  <1>6. th[u].at \in Rcl!ServingAt => p.pending # None /\ th[u].pending = p.pending
    BY Zenon, <1>4, RclServant, RclPlaces
  <1>7. th[u].at \in Rcl!NamedAt => th[u].impl = p.impl
    BY Zenon, <1>4, RclServant
  <1>8. /\ th[u].at \in Rcl!HoldsAt => th[u].impl \in Vars /\ locked'[th[u].impl]
        /\ th[u].at = "store" => th[u].seen = mem'[th[u].impl]
    BY Zenon, RclServant, RclPlaces
  <1> QED BY ZenonT(60), <1>1, <1>2, <1>3, <1>5, <1>6, <1>7, <1>8, RclAfter

\* The invariant after a step of a servicing thread.
LEMMA RclKeeps ==
  ASSUME Rcl!Sizes, Rcl!ServiceInv, NEW s \in Servicing, NEW r, NEW q, RclMoves(s, r, q),
         q.pending = requests[th[s].i].pending \/ (th[s].at \in Rcl!BusyAt /\ q.pending = None),
         \/ q.servicing_owner = requests[th[s].i].servicing_owner
         \/ th[s].at \in Rcl!BusyAt \/ requests[th[s].i].servicing_owner = None,
         locked' \in [Vars -> BOOLEAN], mem' = [v \in Vars |-> mem'[v]],
         \A u \in Servicing : u # s /\ th[u].at \in Rcl!HoldsAt =>
           locked'[th[u].impl] /\ mem'[th[u].impl] = mem[th[u].impl],
         r.at \in Rcl!HoldsAt =>
           \A u \in Servicing : u # s /\ th[u].at \in Rcl!HoldsAt => th[u].impl # r.impl,
         Rcl!ThreadInv(s)'
  PROVE  Rcl!ServiceInv'
  <1>1. /\ th' = [u \in Servicing |-> th'[u]] /\ th'[s] = r
        /\ \A u \in Servicing : u # s => th'[u] = th[u]
        /\ requests' = [c \in Rcl!Clients |-> requests'[c]] /\ requests'[th[s].i] = q /\ Rcl!IsRequest(q)
        /\ \A c \in Rcl!Clients : c # th[s].i => requests'[c] = requests[c]
        /\ q.impl = requests[th[s].i].impl
        /\ pc' = pc /\ op' = op /\ ret' = ret
    BY Zenon DEF RclMoves
  <1>2. ASSUME NEW u \in Servicing PROVE Rcl!ThreadInv(u)'
    <2>1. CASE u # s
      BY Zenon, <2>1, RclOthers
    <2> QED BY Zenon, <2>1
  <1>3. ASSUME NEW c \in Rcl!Clients PROVE Rcl!ClientInv(c)'
    <2>1. PICK p : p = requests'[c]
      BY Zenon
    <2>2. /\ Rcl!IsRequest(p) /\ p.impl = requests[c].impl
          /\ p.pending # None => p.pending = requests[c].pending
      <3>1. CASE c = th[s].i
        <4>1. p = q
          BY Zenon, <1>1, <2>1, <3>1
        <4>2. q.pending # None => q.pending = requests[th[s].i].pending
          BY Zenon
        <4>3. q.impl = requests[c].impl /\ (q.pending # None => q.pending = requests[c].pending)
          BY <1>1, <3>1, <4>2
        <4> QED BY Zenon, <1>1, <4>1, <4>3
      <3>2. CASE c # th[s].i
        <4>1. p = requests[c]
          BY Zenon, <1>1, <2>1, <3>2
        <4> QED BY Zenon, <4>1, RclClient
      <3> QED BY Zenon, <3>1, <3>2
    <2>3. /\ pc'[c] \in {"idle", "post", "wait"}
          /\ pc'[c] # "idle" => op'[c] \in Rcl!Ops /\ p.impl = op'[c].var
          /\ p.pending # None => pc'[c] = "wait" /\ p.pending = op'[c].fn
      BY Zenon, <1>1, <2>2, RclClient
    <2> QED BY Zenon, <2>1, <2>2, <2>3, RclConstants DEF Rcl!ClientInv, Rcl!IsRequest
  <1>4. Rcl!LockInv'
    <2> SUFFICES ASSUME NEW u \in Servicing, NEW w \in Servicing, u # w,
                        th'[u].at \in Rcl!HoldsAt, th'[w].at \in Rcl!HoldsAt
                 PROVE  th'[u].impl # th'[w].impl
      BY Zenon, RclConstants DEF Rcl!LockInv
    <2>1. CASE u = s
      BY Zenon, <1>1, <2>1
    <2>2. CASE w = s
      BY Zenon, <1>1, <2>2
    <2>3. CASE u # s /\ w # s
      BY <1>1, <2>3, RclLocks
    <2> QED BY Zenon, <2>1, <2>2, <2>3
  <1>5. Rcl!Shapes'
    <2>1. /\ pc' = [c \in Rcl!Clients |-> pc'[c]] /\ op' = [c \in Rcl!Clients |-> op'[c]]
          /\ ret' = [c \in Rcl!Clients |-> ret'[c]]
      BY Zenon, <1>1, RclShapes
    <2> QED BY Zenon, <1>1, <2>1, RclConstants DEF Rcl!Shapes
  <1> QED BY Zenon, <1>2, <1>3, <1>4, <1>5, RclConstants DEF Rcl!ServiceInv

\* A step of a servicing thread that only changes the thread.
LEMMA RclMoveOn ==
  ASSUME Rcl!Sizes, Rcl!ServiceInv, NEW s \in Servicing, NEW r,
         th' = [th EXCEPT ![s] = r], Rcl!IsThread(r), r.i \in Rcl!Clients,
         UNCHANGED <<requests, locked, Rcl!Caller, mem>>,
         r.at \in Rcl!BusyAt => r.i = th[s].i,
         GDB_PROOF /\ r.at \in Rcl!BusyAt => th[s].at \in Rcl!BusyAt,
         r.at \in Rcl!ServingAt => requests[th[s].i].pending # None /\ r.pending = requests[th[s].i].pending,
         r.at \in Rcl!NamedAt => r.impl = requests[th[s].i].impl,
         r.at \in Rcl!HoldsAt => th[s].at \in Rcl!HoldsAt /\ r.impl = th[s].impl,
         r.at = "store" => r.seen = mem[r.impl]
  PROVE  Rcl!ServiceInv' /\ RclMoves(s, r, requests[th[s].i])
  <1>1. PICK q : q = requests[th[s].i]
    BY Zenon
  <1>2. th[s].i \in Rcl!Clients /\ Rcl!IsRequest(q)
    BY Zenon, <1>1, RclServant, RclClient
  <1>3. /\ requests' = requests /\ pc' = pc /\ op' = op /\ ret' = ret /\ locked' = locked /\ mem' = mem
    BY Zenon DEF Rcl!Caller
  <1>4. requests' = [requests EXCEPT ![th[s].i] = q]
    BY Zenon, <1>1, <1>2, <1>3, RclShapes
  <1>5. RclMoves(s, r, q)
    BY Zenon, <1>1, <1>2, <1>3, <1>4, RclMove
  <1>6. Rcl!ThreadInv(s)'
    <2>1. th'[s] = r
      BY Zenon, <1>5 DEF RclMoves
    <2>2. PICK p : p = requests'[r.i]
      BY Zenon
    <2>3. r.at \in Rcl!BusyAt => p = q
      BY Zenon, <1>1, <1>3, <2>2
    <2>4. GDB_PROOF /\ r.at \in Rcl!BusyAt => p.servicing_owner = s
      BY Zenon, <1>1, <2>3, RclServant
    <2>5. r.at \in Rcl!ServingAt => p.pending # None /\ r.pending = p.pending
      BY Zenon, <1>1, <2>3, RclPlaces
    <2>6. r.at \in Rcl!NamedAt => r.impl = p.impl
      BY Zenon, <1>1, <2>3, RclPlaces
    <2>7. r.at \in Rcl!HoldsAt => r.impl \in Vars /\ locked'[r.impl]
      BY Zenon, <1>3, RclServant
    <2>8. r.at = "store" => r.seen = mem'[r.impl]
      BY Zenon, <1>3
    <2> QED BY Zenon, <2>1, <2>2, <2>4, <2>5, <2>6, <2>7, <2>8, RclAfter
  <1>7. locked' \in [Vars -> BOOLEAN] /\ mem' = [v \in Vars |-> mem'[v]]
    BY Zenon, <1>3, RclShapes
  <1>8. \A u \in Servicing : u # s /\ th[u].at \in Rcl!HoldsAt =>
           locked'[th[u].impl] /\ mem'[th[u].impl] = mem[th[u].impl]
    BY Zenon, <1>3, RclServant
  <1>9. r.at \in Rcl!HoldsAt =>
           \A u \in Servicing : u # s /\ th[u].at \in Rcl!HoldsAt => th[u].impl # r.impl
    BY Zenon DEF Rcl!ServiceInv, Rcl!LockInv
  <1>10. Rcl!ServiceInv'
    BY Zenon, <1>1, <1>5, <1>6, <1>7, <1>8, <1>9, RclKeeps
  <1> QED BY Zenon, <1>1, <1>5, <1>10

\* Nothing changes for the clients.
LEMMA RclStutter ==
  ASSUME \A c \in Rcl!Clients : Rcl!Executed(c)' <=> Rcl!Executed(c),
         \A c \in Rcl!Clients : requests'[c].val = requests[c].val,
         mem' = mem, pc' = pc, op' = op, ret' = ret
  PROVE  UNCHANGED Rcl!Abstract!vars
  <1>1. [c \in Rcl!Clients |-> IF pc[c] = "idle" THEN "idle" ELSE IF Rcl!Executed(c) THEN "done" ELSE "pending"]'
        = [c \in Rcl!Clients |-> IF pc[c] = "idle" THEN "idle" ELSE IF Rcl!Executed(c) THEN "done" ELSE "pending"]
    BY RclConstants
  <1>2. [c \in Rcl!Clients |-> IF Rcl!Executed(c) THEN requests[c].val ELSE None]'
        = [c \in Rcl!Clients |-> IF Rcl!Executed(c) THEN requests[c].val ELSE None]
    BY RclConstants
  <1> QED BY Zenon, <1>1, <1>2 DEF Rcl!Abstract!vars

\* A servicing thread that neither executes a request nor clears one changes
\* nothing for the clients.
LEMMA RclQuiet ==
  ASSUME Rcl!ServiceInv, NEW s \in Servicing, NEW r, NEW q, RclMoves(s, r, q), mem' = mem,
         q.val = requests[th[s].i].val, q.pending = requests[th[s].i].pending,
         th[s].at \in Rcl!DoneAt <=> r.at \in Rcl!DoneAt,
         r.at \in Rcl!DoneAt => r.i = th[s].i
  PROVE  UNCHANGED Rcl!Abstract!vars
  <1>1. /\ th'[s] = r /\ \A u \in Servicing : u # s => th'[u] = th[u]
        /\ requests'[th[s].i] = q
        /\ \A c \in Rcl!Clients : c # th[s].i => requests'[c] = requests[c]
        /\ pc' = pc /\ op' = op /\ ret' = ret
    BY Zenon DEF RclMoves
  <1>2. ASSUME NEW c \in Rcl!Clients
        PROVE  requests'[c].val = requests[c].val /\ requests'[c].pending = requests[c].pending
    <2>1. CASE c = th[s].i
      BY Zenon, <1>1, <2>1
    <2>2. CASE c # th[s].i
      BY Zenon, <1>1, <2>2
    <2> QED BY Zenon, <2>1, <2>2
  <1>3. ASSUME NEW u \in Servicing
        PROVE  /\ th'[u].at \in Rcl!DoneAt <=> th[u].at \in Rcl!DoneAt
               /\ th'[u].at \in Rcl!DoneAt => th'[u].i = th[u].i
    <2>1. CASE u = s
      BY Zenon, <1>1, <2>1
    <2>2. CASE u # s
      BY Zenon, <1>1, <2>2
    <2> QED BY Zenon, <2>1, <2>2
  <1>4. ASSUME NEW c \in Rcl!Clients PROVE Rcl!Executed(c)' <=> Rcl!Executed(c)
    <2>1. (\E u \in Servicing : th'[u].i = c /\ th'[u].at \in Rcl!DoneAt)
          <=> \E u \in Servicing : th[u].i = c /\ th[u].at \in Rcl!DoneAt
      BY Zenon, <1>3
    <2> QED BY Zenon, <1>1, <1>2, <2>1, RclConstants DEF Rcl!Executed
  <1> QED BY Zenon, <1>1, <1>2, <1>4, RclStutter

\* The request after N is the first.
LEMMA RclNext ==
  ASSUME Rcl!Sizes, NEW i \in Rcl!Clients
  PROVE  (IF i = N THEN 1 ELSE i + 1) \in Rcl!Clients
  BY DEF Rcl!Sizes, Rcl!Clients

\* A servicing thread goes on to the next request.
LEMMA RclLeave ==
  ASSUME Rcl!Sizes, Rcl!ServiceInv, NEW s \in Servicing, Rcl!Leave(s)
  PROVE  \E r : /\ th' = [th EXCEPT ![s] = r] /\ Rcl!IsThread(r) /\ r.i \in Rcl!Clients
                /\ r.at \notin Rcl!BusyAt /\ r.at \notin Rcl!ServingAt /\ r.at \notin Rcl!NamedAt
                /\ r.at \notin Rcl!HoldsAt /\ r.at \notin Rcl!DoneAt /\ r.at # "store"
  <1>1. PICK i : i = IF th[s].i = N THEN 1 ELSE th[s].i + 1
    BY Zenon
  <1>2. i \in Rcl!Clients
    BY Zenon, <1>1, RclNext, RclServant
  <1>3. PICK r : r = Rcl!Scan(i)
    BY Zenon
  <1>4. Rcl!IsThread(r) /\ r.i = i /\ r.at = "scan"
    BY <1>3 DEF Rcl!Scan, Rcl!IsThread
  <1>5. "scan" \notin Rcl!BusyAt /\ "scan" # "store"
    BY DEF Rcl!BusyAt
  <1>6. th' = [th EXCEPT ![s] = r]
    BY Zenon, <1>1, <1>3 DEF Rcl!Leave
  <1> QED BY Zenon, <1>2, <1>4, <1>5, <1>6, RclPlaces

\* A servicing thread that finds nothing to do goes on.
LEMMA RclGone ==
  ASSUME Rcl!Sizes, Rcl!ServiceInv, NEW s \in Servicing, Rcl!Leave(s), th[s].at \notin Rcl!DoneAt,
         UNCHANGED <<requests, locked, Rcl!Caller, mem>>
  PROVE  Rcl!ServiceInv' /\ UNCHANGED Rcl!Abstract!vars
  <1>1. PICK r : /\ th' = [th EXCEPT ![s] = r] /\ Rcl!IsThread(r) /\ r.i \in Rcl!Clients
                 /\ r.at \notin Rcl!BusyAt /\ r.at \notin Rcl!ServingAt /\ r.at \notin Rcl!NamedAt
                 /\ r.at \notin Rcl!HoldsAt /\ r.at \notin Rcl!DoneAt /\ r.at # "store"
    BY Zenon, RclLeave
  <1>2. Rcl!ServiceInv' /\ RclMoves(s, r, requests[th[s].i])
    BY Zenon, <1>1, RclMoveOn
  <1>3. mem' = mem
    BY Zenon
  <1> QED BY Zenon, <1>1, <1>2, <1>3, RclQuiet

\* Which places are which.
LEMMA RclAt ==
  ASSUME Rcl!Sizes
  PROVE  /\ \A a \in {"scan", "own"} : a \notin Rcl!BusyAt
         /\ \A a \in {"reread", "disown", "unlock"} : a \in Rcl!BusyAt
         /\ \A a \in {"scan", "own", "reread", "disown"} :
              /\ a \notin Rcl!ServingAt /\ a \notin Rcl!NamedAt /\ a \notin Rcl!HoldsAt
              /\ a \notin Rcl!DoneAt /\ a # "store"
         /\ "impl" \in Rcl!ServingAt
         /\ "impl" \notin Rcl!NamedAt /\ "impl" \notin Rcl!HoldsAt /\ "impl" \notin Rcl!DoneAt
         /\ "lock" \in Rcl!NamedAt /\ "lock" \notin Rcl!HoldsAt /\ "lock" \notin Rcl!DoneAt
         /\ \A a \in {"load", "store"} : a \in Rcl!NamedAt /\ a \in Rcl!HoldsAt /\ a \notin Rcl!DoneAt
         /\ "clear" \in Rcl!DoneAt /\ "clear" \in Rcl!NamedAt /\ ("clear" \in Rcl!HoldsAt <=> ~GDB_PROOF)
         /\ "unlock" \in Rcl!HoldsAt /\ ("unlock" \in Rcl!DoneAt <=> GDB_PROOF)
         /\ ("unlock" \in Rcl!ServingAt <=> GDB_PROOF) /\ ("unlock" \in Rcl!NamedAt <=> GDB_PROOF)
  <1>1. CASE GDB_PROOF
    BY <1>1 DEF Rcl!ServingAt, Rcl!NamedAt, Rcl!DoneAt, Rcl!HoldsAt, Rcl!BusyAt
  <1>2. CASE ~GDB_PROOF
    BY <1>2 DEF Rcl!ServingAt, Rcl!NamedAt, Rcl!DoneAt, Rcl!HoldsAt, Rcl!BusyAt
  <1> QED BY Zenon, <1>1, <1>2

\* What a step of a servicing thread has to keep.
RclServed == Rcl!ServiceInv' /\ (UNCHANGED Rcl!Abstract!vars \/ Rcl!Abstract!Next)

\* The thread looks at a request.
LEMMA RclReadPending ==
  ASSUME Rcl!Sizes, Rcl!ServiceInv, NEW s \in Servicing, Rcl!ReadPending(s)
  PROVE  RclServed
  <1>1. th[s].at = "scan" /\ UNCHANGED <<requests, locked, Rcl!Caller, mem>>
    BY Zenon DEF Rcl!ReadPending
  <1>2. CASE requests[th[s].i].pending = None
    BY Zenon, <1>1, <1>2, RclGone, RclAt DEF Rcl!ReadPending, Rcl!request, RclServed
  <1>3. CASE requests[th[s].i].pending # None
    <2>1. PICK a, v : /\ a = IF GDB_PROOF THEN "own" ELSE "impl"
                      /\ v = IF GDB_PROOF THEN None ELSE requests[th[s].i].pending
      BY Zenon
    <2>r. PICK t, r : t = th[s] /\ Rcl!IsThread(t) /\ t.i \in Rcl!Clients /\ GoesPending(r, t, a, v)
      BY Zenon, RclRecord DEF GoesPending
    <2>2. th' = [th EXCEPT ![s] = r]
      BY Zenon, <1>3, <2>1, <2>r DEF Rcl!ReadPending, Rcl!request, GoesPending
    <2>3. Rcl!IsThread(r) /\ r.at = a /\ r.i = th[s].i /\ r.pending = v /\ r.i \in Rcl!Clients
      <3>1. Rcl!IsThread(t) /\ GoesPending(r, t, a, v)
        BY Zenon, <2>r
      <3>2. Rcl!IsThread(r) /\ r.at = a /\ r.i = t.i /\ r.pending = v
        BY <3>1, RclThreadPending
      <3> QED BY Zenon, <2>r, <3>2
    <2>4. /\ a # "store" /\ a \notin Rcl!NamedAt /\ a \notin Rcl!HoldsAt /\ a \notin Rcl!DoneAt
          /\ GDB_PROOF => a \notin Rcl!BusyAt
          /\ a \in Rcl!ServingAt => v = requests[th[s].i].pending
      BY <2>1, RclAt
    <2>5. Rcl!ServiceInv' /\ RclMoves(s, r, requests[th[s].i])
      BY Zenon, <1>1, <1>3, <2>2, <2>3, <2>4, RclMoveOn
    <2>6. mem' = mem /\ th[s].at \notin Rcl!DoneAt
      BY Zenon, <1>1, RclAt
    <2> QED BY Zenon, <2>3, <2>4, <2>5, <2>6, RclQuiet DEF RclServed
  <1> QED BY Zenon, <1>2, <1>3

\* It reads pending again, and then the lock.
LEMMA RclReread ==
  ASSUME Rcl!Sizes, Rcl!ServiceInv, NEW s \in Servicing, Rcl!Reread(s)
  PROVE  RclServed
  <1>1. th[s].at = "reread" /\ UNCHANGED <<requests, locked, Rcl!Caller, mem>>
    BY Zenon DEF Rcl!Reread
  <1>2. PICK a, v : v = requests[th[s].i].pending /\ a = IF v = None THEN "disown" ELSE "impl"
    BY Zenon
  <1>r. PICK t, r : t = th[s] /\ Rcl!IsThread(t) /\ t.i \in Rcl!Clients /\ GoesPending(r, t, a, v)
    BY Zenon, RclRecord DEF GoesPending
  <1>3. th' = [th EXCEPT ![s] = r]
    BY Zenon, <1>2, <1>r DEF Rcl!Reread, Rcl!request, GoesPending
  <1>4. Rcl!IsThread(r) /\ r.at = a /\ r.i = th[s].i /\ r.pending = v /\ r.i \in Rcl!Clients
    <2>1. Rcl!IsThread(t) /\ GoesPending(r, t, a, v)
      BY Zenon, <1>r
    <2>2. Rcl!IsThread(r) /\ r.at = a /\ r.i = t.i /\ r.pending = v
      BY <2>1, RclThreadPending
    <2> QED BY Zenon, <1>r, <2>2
  <1>5. /\ a # "store" /\ a \notin Rcl!NamedAt /\ a \notin Rcl!HoldsAt /\ a \notin Rcl!DoneAt
        /\ a \in Rcl!ServingAt => requests[th[s].i].pending # None /\ v = requests[th[s].i].pending
    BY <1>2, RclAt
  <1>6. mem' = mem /\ th[s].at \notin Rcl!DoneAt /\ th[s].at \in Rcl!BusyAt
    BY Zenon, <1>1, RclAt
  <1>7. Rcl!ServiceInv' /\ RclMoves(s, r, requests[th[s].i])
    BY Zenon, <1>1, <1>3, <1>4, <1>5, <1>6, RclMoveOn
  <1> QED BY Zenon, <1>4, <1>5, <1>6, <1>7, RclQuiet DEF RclServed

\* The thread reads the lock of the request.
LEMMA RclReadImpl ==
  ASSUME Rcl!Sizes, Rcl!ServiceInv, NEW s \in Servicing, Rcl!ReadImpl(s)
  PROVE  RclServed
  <1>1. th[s].at = "impl" /\ UNCHANGED <<requests, locked, Rcl!Caller, mem>>
    BY Zenon DEF Rcl!ReadImpl
  <1>2. PICK v, t, r : /\ v = requests[th[s].i].impl
                       /\ t = th[s] /\ Rcl!IsThread(t) /\ t.i \in Rcl!Clients /\ GoesImpl(r, t, "lock", v)
    BY Zenon, RclRecord DEF GoesImpl
  <1>3. th' = [th EXCEPT ![s] = r]
    BY Zenon, <1>2 DEF Rcl!ReadImpl, Rcl!request, GoesImpl
  <1>4. /\ Rcl!IsThread(r) /\ r.at = "lock" /\ r.i = th[s].i /\ r.pending = th[s].pending
        /\ r.impl = requests[th[s].i].impl /\ r.i \in Rcl!Clients
    <2>1. Rcl!IsThread(t) /\ GoesImpl(r, t, "lock", v)
      BY Zenon, <1>2
    <2>2. Rcl!IsThread(r) /\ r.at = "lock" /\ r.i = t.i /\ r.pending = t.pending /\ r.impl = v
      BY <2>1, RclThreadImpl
    <2> QED BY Zenon, <1>2, <2>2
  <1>5. /\ r.at # "store" /\ r.at \notin Rcl!HoldsAt /\ r.at \notin Rcl!DoneAt
        /\ mem' = mem /\ th[s].at \notin Rcl!DoneAt /\ th[s].at \in Rcl!BusyAt
    BY Zenon, <1>1, <1>4, RclAt, RclPlaces
  <1>6. requests[th[s].i].pending # None /\ r.pending = requests[th[s].i].pending
    BY Zenon, <1>1, <1>4, RclServant, RclAt
  <1>7. Rcl!ServiceInv' /\ RclMoves(s, r, requests[th[s].i])
    BY Zenon, <1>1, <1>3, <1>4, <1>5, <1>6, RclMoveOn
  <1> QED BY Zenon, <1>4, <1>5, <1>7, RclQuiet DEF RclServed

\* A thread that has looked up the lock of its request has it right.
LEMMA RclNamed ==
  ASSUME Rcl!Sizes, Rcl!ServiceInv, NEW s \in Servicing, th[s].at \in Rcl!NamedAt
  PROVE  /\ pc[th[s].i] = "wait" /\ op[th[s].i] \in Rcl!Ops
         /\ th[s].pending = op[th[s].i].fn /\ th[s].impl = op[th[s].i].var
         /\ th[s].impl \in Vars /\ th[s].i \in Rcl!Clients
         /\ requests[th[s].i].pending # None
  <1>1. PICK c : c = th[s].i
    BY Zenon
  <1>2. /\ c \in Rcl!Clients /\ requests[c].pending # None /\ th[s].pending = requests[c].pending
        /\ th[s].impl = requests[c].impl
    BY Zenon, <1>1, RclServant, RclPlaces
  <1>3. pc[c] = "wait" /\ requests[c].pending = op[c].fn
    BY Zenon, <1>2, RclClient
  <1>4. "wait" # "idle"
    OBVIOUS
  <1>5. op[c] \in Rcl!Ops /\ requests[c].impl = op[c].var
    BY Zenon, <1>2, <1>3, <1>4, RclClient
  <1>6. op[c].var \in Vars
    BY <1>5 DEF Rcl!Ops
  <1> QED BY Zenon, <1>1, <1>2, <1>3, <1>5, <1>6

\* The thread loads the variable of its request.
LEMMA RclLoad ==
  ASSUME Rcl!Sizes, Rcl!ServiceInv, NEW s \in Servicing, Rcl!Load(s)
  PROVE  RclServed
  <1>1. th[s].at = "load" /\ UNCHANGED <<requests, locked, Rcl!Caller, mem>>
    BY Zenon DEF Rcl!Load
  <1>2. PICK v, t, r : /\ v = mem[th[s].impl]
                       /\ t = th[s] /\ Rcl!IsThread(t) /\ t.i \in Rcl!Clients /\ GoesSeen(r, t, "store", v)
    BY Zenon, RclRecord DEF GoesSeen
  <1>3. th' = [th EXCEPT ![s] = r]
    BY Zenon, <1>2 DEF Rcl!Load, GoesSeen
  <1>4. /\ Rcl!IsThread(r) /\ r.at = "store" /\ r.i = th[s].i /\ r.pending = th[s].pending
        /\ r.impl = th[s].impl /\ r.seen = mem[r.impl] /\ r.i \in Rcl!Clients
    <2>1. Rcl!IsThread(t) /\ GoesSeen(r, t, "store", v)
      BY Zenon, <1>2
    <2>2. Rcl!IsThread(r) /\ r.at = "store" /\ r.i = t.i /\ r.pending = t.pending /\ r.impl = t.impl /\ r.seen = v
      BY <2>1, RclThreadSeen
    <2> QED BY Zenon, <1>2, <2>2
  <1>5. /\ r.at \notin Rcl!DoneAt /\ th[s].at \in Rcl!HoldsAt /\ th[s].at \in Rcl!NamedAt
        /\ mem' = mem /\ th[s].at \notin Rcl!DoneAt /\ th[s].at \in Rcl!BusyAt
    BY Zenon, <1>1, <1>4, RclAt, RclPlaces
  <1>6. /\ requests[th[s].i].pending # None /\ r.pending = requests[th[s].i].pending
        /\ r.impl = requests[th[s].i].impl
    BY Zenon, <1>4, <1>5, RclServant, RclPlaces
  <1>7. Rcl!ServiceInv' /\ RclMoves(s, r, requests[th[s].i])
    BY Zenon, <1>1, <1>3, <1>4, <1>5, <1>6, RclMoveOn
  <1> QED BY Zenon, <1>4, <1>5, <1>7, RclQuiet DEF RclServed

\* A thread that only goes to another place.
RclGoes(s, a) == th' = [th EXCEPT ![s].at = a]

\* A thread goes on and keeps its locals.
LEMMA RclGoto ==
  ASSUME Rcl!ServiceInv, NEW s \in Servicing, NEW a, RclGoes(s, a)
  PROVE  \E r : /\ th' = [th EXCEPT ![s] = r] /\ Rcl!IsThread(r) /\ r.i \in Rcl!Clients
                /\ r.at = a /\ r.i = th[s].i /\ r.pending = th[s].pending /\ r.impl = th[s].impl
                /\ r.seen = th[s].seen
  <1>1. PICK t, r : t = th[s] /\ Rcl!IsThread(t) /\ t.i \in Rcl!Clients /\ GoesTo(r, t, a)
    BY Zenon, RclRecord DEF GoesTo
  <1>2. th' = [th EXCEPT ![s] = r]
    BY Zenon, <1>1 DEF RclGoes, GoesTo
  <1>3. Rcl!IsThread(t) /\ GoesTo(r, t, a)
    BY Zenon, <1>1
  <1>4. /\ Rcl!IsThread(r) /\ r.at = a /\ r.i = t.i /\ r.pending = t.pending /\ r.impl = t.impl
        /\ r.seen = t.seen
    BY <1>3, RclThreadAt
  <1> QED BY Zenon, <1>1, <1>2, <1>4

\* A thread that sets a field of its request.
RclSetOwner(s, v) == requests' = [requests EXCEPT ![th[s].i].servicing_owner = v]

\* The owner of its request is set.
LEMMA RclSetsOwner ==
  ASSUME Rcl!ServiceInv, NEW s \in Servicing, NEW v, RclSetOwner(s, v)
  PROVE  \E q : /\ requests' = [requests EXCEPT ![th[s].i] = q] /\ Rcl!IsRequest(q) /\ q.servicing_owner = v
                /\ q.impl = requests[th[s].i].impl
                /\ q.val = requests[th[s].i].val /\ q.pending = requests[th[s].i].pending
  <1>1. PICK p, q : p = requests[th[s].i] /\ Rcl!IsRequest(p) /\ SetOwner(q, p, v)
    BY Zenon, RclRecord DEF SetOwner
  <1>2. requests' = [requests EXCEPT ![th[s].i] = q]
    BY Zenon, <1>1 DEF SetOwner, RclSetOwner
  <1>3. Rcl!IsRequest(p) /\ SetOwner(q, p, v)
    BY Zenon, <1>1
  <1>4. Rcl!IsRequest(q) /\ q.servicing_owner = v /\ q.impl = p.impl /\ q.val = p.val /\ q.pending = p.pending
    BY <1>3, RclRequestOwner
  <1> QED BY Zenon, <1>1, <1>2, <1>4

RclSetVal(s, v) == requests' = [requests EXCEPT ![th[s].i].val = v]

\* The result of its request is set.
LEMMA RclSetsVal ==
  ASSUME Rcl!ServiceInv, NEW s \in Servicing, NEW v, RclSetVal(s, v)
  PROVE  \E q : /\ requests' = [requests EXCEPT ![th[s].i] = q] /\ Rcl!IsRequest(q) /\ q.val = v
                /\ q.impl = requests[th[s].i].impl
                /\ q.pending = requests[th[s].i].pending /\ q.servicing_owner = requests[th[s].i].servicing_owner
  <1>1. PICK p, q : p = requests[th[s].i] /\ Rcl!IsRequest(p) /\ SetVal(q, p, v)
    BY Zenon, RclRecord DEF SetVal
  <1>2. requests' = [requests EXCEPT ![th[s].i] = q]
    BY Zenon, <1>1 DEF SetVal, RclSetVal
  <1>3. Rcl!IsRequest(p) /\ SetVal(q, p, v)
    BY Zenon, <1>1
  <1>4. Rcl!IsRequest(q) /\ q.val = v /\ q.impl = p.impl /\ q.pending = p.pending /\ q.servicing_owner = p.servicing_owner
    BY <1>3, RclRequestVal
  <1> QED BY Zenon, <1>1, <1>2, <1>4

RclSetPending(s, v) == requests' = [requests EXCEPT ![th[s].i].pending = v]

\* Its request is cleared.
LEMMA RclSetsPending ==
  ASSUME Rcl!ServiceInv, NEW s \in Servicing, NEW v, RclSetPending(s, v)
  PROVE  \E q : /\ requests' = [requests EXCEPT ![th[s].i] = q] /\ Rcl!IsRequest(q) /\ q.pending = v
                /\ q.impl = requests[th[s].i].impl
                /\ q.val = requests[th[s].i].val /\ q.servicing_owner = requests[th[s].i].servicing_owner
  <1>1. PICK p, q : p = requests[th[s].i] /\ Rcl!IsRequest(p) /\ SetPending(q, p, v)
    BY Zenon, RclRecord DEF SetPending
  <1>2. requests' = [requests EXCEPT ![th[s].i] = q]
    BY Zenon, <1>1 DEF SetPending, RclSetPending
  <1>3. Rcl!IsRequest(p) /\ SetPending(q, p, v)
    BY Zenon, <1>1
  <1>4. Rcl!IsRequest(q) /\ q.pending = v /\ q.impl = p.impl /\ q.val = p.val /\ q.servicing_owner = p.servicing_owner
    BY <1>3, RclRequestPending
  <1> QED BY Zenon, <1>1, <1>2, <1>4

\* One that leaves it alone.
LEMMA RclLeavesRequest ==
  ASSUME Rcl!ServiceInv, NEW s \in Servicing, requests' = requests
  PROVE  \E q : /\ requests' = [requests EXCEPT ![th[s].i] = q] /\ Rcl!IsRequest(q)
                /\ q = requests[th[s].i]
  <1>1. PICK q : q = requests[th[s].i] /\ Rcl!IsRequest(q) /\ th[s].i \in Rcl!Clients
    BY Zenon, RclRecord
  <1>2. requests' = [requests EXCEPT ![th[s].i] = q]
    BY Zenon, <1>1, RclShapes
  <1> QED BY Zenon, <1>1, <1>2

\* Owners: a request is taken when it has none, and given back.
LEMMA RclOwn ==
  ASSUME Rcl!Sizes, Rcl!ServiceInv, NEW s \in Servicing, Rcl!Own(s)
  PROVE  RclServed
  <1>1. /\ th[s].at = "own" /\ locked' = locked /\ mem' = mem /\ pc' = pc /\ op' = op /\ ret' = ret
        /\ UNCHANGED Rcl!Caller
    BY Zenon DEF Rcl!Own, Rcl!Caller
  <1>2. th[s].at \notin Rcl!DoneAt
    BY Zenon, <1>1, RclAt
  <1>3. CASE requests[th[s].i].servicing_owner = None
    <2>1. RclGoes(s, "reread") /\ RclSetOwner(s, s)
      BY Zenon, <1>3 DEF Rcl!Own, Rcl!Goto, Rcl!request, RclGoes, RclSetOwner
    <2>2. PICK r : /\ th' = [th EXCEPT ![s] = r] /\ Rcl!IsThread(r) /\ r.i \in Rcl!Clients
                   /\ r.at = "reread" /\ r.i = th[s].i
      BY <2>1, RclGoto
    <2>3. PICK q : /\ requests' = [requests EXCEPT ![th[s].i] = q] /\ Rcl!IsRequest(q)
                   /\ q.servicing_owner = s /\ q.impl = requests[th[s].i].impl
                   /\ q.val = requests[th[s].i].val /\ q.pending = requests[th[s].i].pending
      BY <2>1, RclSetsOwner
    <2>4. RclMoves(s, r, q)
      BY Zenon, <1>1, <2>2, <2>3, RclMove
    <2>5. /\ r.at \notin Rcl!ServingAt /\ r.at \notin Rcl!NamedAt /\ r.at \notin Rcl!HoldsAt
          /\ r.at \notin Rcl!DoneAt /\ r.at # "store"
      BY Zenon, <2>2, RclAt
    <2>6. Rcl!ThreadInv(s)'
      <3>1. th'[s] = r /\ requests'[r.i] = q
        BY Zenon, <2>2, <2>4 DEF RclMoves
      <3> QED BY Zenon, <2>2, <2>3, <2>5, <3>1, RclAfter
    <2>7. locked' \in [Vars -> BOOLEAN] /\ mem' = [v \in Vars |-> mem'[v]]
      BY Zenon, <1>1, RclShapes
    <2>8. \A u \in Servicing : u # s /\ th[u].at \in Rcl!HoldsAt =>
            locked'[th[u].impl] /\ mem'[th[u].impl] = mem[th[u].impl]
      BY Zenon, <1>1, RclServant
    <2>9. Rcl!ServiceInv'
      BY Zenon, <1>3, <2>3, <2>4, <2>5, <2>6, <2>7, <2>8, RclKeeps
    <2> QED BY Zenon, <1>1, <1>2, <2>3, <2>4, <2>5, <2>9, RclQuiet DEF RclServed
  <1>4. CASE requests[th[s].i].servicing_owner # None
    <2>1. Rcl!Leave(s) /\ UNCHANGED <<requests, locked, Rcl!Caller, mem>>
      BY Zenon, <1>1, <1>4 DEF Rcl!Own, Rcl!request
    <2> QED BY Zenon, <1>2, <2>1, RclGone DEF RclServed
  <1> QED BY Zenon, <1>3, <1>4

\* The request is given back.
LEMMA RclDisown ==
  ASSUME Rcl!Sizes, Rcl!ServiceInv, NEW s \in Servicing, Rcl!Disown(s)
  PROVE  RclServed
  <1>1. /\ th[s].at = "disown" /\ locked' = locked /\ mem' = mem /\ pc' = pc /\ op' = op /\ ret' = ret
        /\ Rcl!Leave(s) /\ RclSetOwner(s, None)
    BY Zenon DEF Rcl!Disown, Rcl!Caller, RclSetOwner
  <1>2. th[s].at \notin Rcl!DoneAt /\ th[s].at \in Rcl!BusyAt
    BY Zenon, <1>1, RclAt
  <1>3. PICK r : /\ th' = [th EXCEPT ![s] = r] /\ Rcl!IsThread(r) /\ r.i \in Rcl!Clients
                 /\ r.at \notin Rcl!BusyAt /\ r.at \notin Rcl!ServingAt /\ r.at \notin Rcl!NamedAt
                 /\ r.at \notin Rcl!HoldsAt /\ r.at \notin Rcl!DoneAt /\ r.at # "store"
    BY Zenon, <1>1, RclLeave
  <1>4. PICK q : /\ requests' = [requests EXCEPT ![th[s].i] = q] /\ Rcl!IsRequest(q)
                 /\ q.impl = requests[th[s].i].impl
                 /\ q.val = requests[th[s].i].val /\ q.pending = requests[th[s].i].pending
    BY Zenon, <1>1, RclSetsOwner
  <1>5. RclMoves(s, r, q)
    BY Zenon, <1>1, <1>3, <1>4, RclMove
  <1>6. Rcl!ThreadInv(s)'
    <2>1. PICK p : p = requests'[r.i]
      BY Zenon
    <2>2. th'[s] = r
      BY Zenon, <1>5 DEF RclMoves
    <2> QED BY Zenon, <1>3, <2>1, <2>2, RclAfter
  <1>7. locked' \in [Vars -> BOOLEAN] /\ mem' = [v \in Vars |-> mem'[v]]
    BY Zenon, <1>1, RclShapes
  <1>8. \A u \in Servicing : u # s /\ th[u].at \in Rcl!HoldsAt =>
          locked'[th[u].impl] /\ mem'[th[u].impl] = mem[th[u].impl]
    BY Zenon, <1>1, RclServant
  <1>9. Rcl!ServiceInv'
    BY Zenon, <1>2, <1>3, <1>4, <1>5, <1>6, <1>7, <1>8, RclKeeps
  <1> QED BY Zenon, <1>1, <1>2, <1>3, <1>4, <1>5, <1>9, RclQuiet DEF RclServed

\* The lock of the request is taken, if it is free.
LEMMA RclLock ==
  ASSUME Rcl!Sizes, Rcl!ServiceInv, NEW s \in Servicing, Rcl!Lock(s)
  PROVE  RclServed
  <1>1. /\ th[s].at = "lock" /\ requests' = requests /\ mem' = mem /\ pc' = pc /\ op' = op /\ ret' = ret
        /\ UNCHANGED Rcl!Caller
    BY Zenon DEF Rcl!Lock, Rcl!Caller
  <1>2. th[s].at \notin Rcl!DoneAt /\ th[s].at \in Rcl!NamedAt /\ th[s].at \in Rcl!BusyAt
    BY Zenon, <1>1, RclAt, RclPlaces
  <1>3. PICK v \in Vars : v = th[s].impl
    BY Zenon, <1>2, RclNamed
  <1>4. locked' = [locked EXCEPT ![v] = TRUE]
    BY Zenon, <1>3 DEF Rcl!Lock
  <1>5. CASE locked[v]
    <2>1. locked' = locked
      <3>1. locked \in [Vars -> BOOLEAN] /\ locked[v] = TRUE
        BY Zenon, <1>5, RclShapes
      <3> QED BY Zenon, <1>4, <3>1
    <2>2. UNCHANGED <<requests, locked, Rcl!Caller, mem>>
      BY Zenon, <1>1, <2>1
    <2>3. CASE GDB_PROOF
      <3>1. RclGoes(s, "disown")
        BY Zenon, <1>3, <1>5, <2>3 DEF Rcl!Lock, Rcl!Goto, RclGoes
      <3>2. PICK r : /\ th' = [th EXCEPT ![s] = r] /\ Rcl!IsThread(r) /\ r.i \in Rcl!Clients
                     /\ r.at = "disown" /\ r.i = th[s].i
        BY <3>1, RclGoto
      <3>3. /\ r.at \notin Rcl!ServingAt /\ r.at \notin Rcl!NamedAt /\ r.at \notin Rcl!HoldsAt
            /\ r.at \notin Rcl!DoneAt /\ r.at # "store"
        BY Zenon, <3>2, RclAt
      <3>4. Rcl!ServiceInv' /\ RclMoves(s, r, requests[th[s].i])
        BY Zenon, <1>2, <2>2, <3>2, <3>3, RclMoveOn
      <3> QED BY Zenon, <1>1, <1>2, <3>3, <3>4, RclQuiet DEF RclServed
    <2>4. CASE ~GDB_PROOF
      <3>1. Rcl!Leave(s)
        BY Zenon, <1>3, <1>5, <2>4 DEF Rcl!Lock
      <3> QED BY Zenon, <1>2, <2>2, <3>1, RclGone DEF RclServed
    <2> QED BY Zenon, <2>3, <2>4
  <1>6. CASE ~locked[v]
    <2>1. RclGoes(s, "load")
      BY Zenon, <1>3, <1>6 DEF Rcl!Lock, Rcl!Goto, RclGoes
    <2>2. PICK r : /\ th' = [th EXCEPT ![s] = r] /\ Rcl!IsThread(r) /\ r.i \in Rcl!Clients
                   /\ r.at = "load" /\ r.i = th[s].i /\ r.pending = th[s].pending /\ r.impl = th[s].impl
      BY <2>1, RclGoto
    <2>3. PICK q : /\ requests' = [requests EXCEPT ![th[s].i] = q] /\ Rcl!IsRequest(q)
                   /\ q = requests[th[s].i]
      BY Zenon, <1>1, RclLeavesRequest
    <2>4. RclMoves(s, r, q)
      BY Zenon, <1>1, <2>2, <2>3, RclMove
    <2>5. r.at \notin Rcl!DoneAt /\ r.at # "store"
      BY <2>2, RclAt
    <2>6. \A u \in Servicing : u # s /\ th[u].at \in Rcl!HoldsAt => th[u].impl \in Vars /\ th[u].impl # v
      BY Zenon, <1>6, RclServant
    <2>7. /\ locked' \in [Vars -> BOOLEAN] /\ locked'[v] /\ \A w \in Vars : w # v => locked'[w] = locked[w]
      BY Zenon, <1>4, RclShapes
    <2>8. Rcl!ThreadInv(s)'
      <3>1. th'[s] = r /\ requests'[r.i] = q
        BY Zenon, <2>2, <2>4 DEF RclMoves
      <3>2. /\ GDB_PROOF => q.servicing_owner = s
            /\ q.pending # None /\ r.pending = q.pending /\ r.impl = q.impl
        BY Zenon, <1>2, <2>2, <2>3, RclServant, RclPlaces
      <3>3. r.impl \in Vars /\ locked'[r.impl]
        BY Zenon, <1>3, <2>2, <2>7
      <3> QED BY Zenon, <2>2, <2>5, <3>1, <3>2, <3>3, RclAfter
    <2>9. mem' = [w \in Vars |-> mem'[w]]
      BY Zenon, <1>1, RclShapes
    <2>10. \A u \in Servicing : u # s /\ th[u].at \in Rcl!HoldsAt =>
             locked'[th[u].impl] /\ mem'[th[u].impl] = mem[th[u].impl]
      BY Zenon, <1>1, <2>6, <2>7, RclServant
    <2>11. \A u \in Servicing : u # s /\ th[u].at \in Rcl!HoldsAt => th[u].impl # r.impl
      BY Zenon, <1>3, <2>2, <2>6
    <2>12. Rcl!ServiceInv'
      BY Zenon, <2>3, <2>4, <2>7, <2>8, <2>9, <2>10, <2>11, RclKeeps
    <2> QED BY Zenon, <1>1, <1>2, <2>3, <2>4, <2>5, <2>12, RclQuiet DEF RclServed
  <1> QED BY Zenon, <1>5, <1>6

\* The lock of the request is released.
LEMMA RclUnlock ==
  ASSUME Rcl!Sizes, Rcl!ServiceInv, NEW s \in Servicing, Rcl!Unlock(s)
  PROVE  RclServed
  <1>1. /\ th[s].at = "unlock" /\ requests' = requests /\ mem' = mem /\ pc' = pc /\ op' = op /\ ret' = ret
    BY Zenon DEF Rcl!Unlock, Rcl!Caller
  <1>2. /\ th[s].at \in Rcl!HoldsAt /\ th[s].at \in Rcl!BusyAt
        /\ th[s].at \in Rcl!DoneAt <=> GDB_PROOF
        /\ th[s].at \in Rcl!ServingAt <=> GDB_PROOF
        /\ th[s].at \in Rcl!NamedAt <=> GDB_PROOF
    BY Zenon, <1>1, RclAt
  <1>3. PICK v \in Vars : v = th[s].impl
    BY Zenon, <1>2, RclServant
  <1>4. locked' = [locked EXCEPT ![v] = FALSE]
    BY Zenon, <1>3 DEF Rcl!Unlock
  <1>5. PICK q : /\ requests' = [requests EXCEPT ![th[s].i] = q] /\ Rcl!IsRequest(q)
                 /\ q = requests[th[s].i]
    BY Zenon, <1>1, RclLeavesRequest
  <1>6. PICK r : /\ th' = [th EXCEPT ![s] = r] /\ Rcl!IsThread(r) /\ r.i \in Rcl!Clients
                 /\ r.at \notin Rcl!HoldsAt /\ r.at # "store"
                 /\ r.at \in Rcl!DoneAt <=> GDB_PROOF
                 /\ GDB_PROOF => r.i = th[s].i /\ r.pending = th[s].pending /\ r.impl = th[s].impl
                 /\ r.at \in Rcl!BusyAt => GDB_PROOF
    <2>1. CASE GDB_PROOF
      <3>1. RclGoes(s, "clear")
        BY Zenon, <2>1 DEF Rcl!Unlock, Rcl!Goto, RclGoes
      <3>2. PICK r : /\ th' = [th EXCEPT ![s] = r] /\ Rcl!IsThread(r) /\ r.i \in Rcl!Clients
                     /\ r.at = "clear" /\ r.i = th[s].i /\ r.pending = th[s].pending /\ r.impl = th[s].impl
        BY <3>1, RclGoto
      <3>3. r.at \notin Rcl!HoldsAt /\ r.at # "store" /\ r.at \in Rcl!DoneAt
        BY <2>1, <3>2, RclAt
      <3> QED BY Zenon, <2>1, <3>2, <3>3
    <2>2. CASE ~GDB_PROOF
      <3>1. Rcl!Leave(s)
        BY Zenon, <2>2 DEF Rcl!Unlock
      <3> QED BY Zenon, <2>2, <3>1, RclLeave
    <2> QED BY Zenon, <2>1, <2>2
  <1>7. RclMoves(s, r, q)
    BY Zenon, <1>1, <1>5, <1>6, RclMove
  <1>8. Rcl!ThreadInv(s)'
    <2>1. th'[s] = r
      BY Zenon, <1>7 DEF RclMoves
    <2>2. PICK p : p = requests'[r.i]
      BY Zenon
    <2>3. GDB_PROOF => p = q
      BY Zenon, <1>6, <1>7, <2>2 DEF RclMoves
    <2>4. GDB_PROOF => /\ q.servicing_owner = s /\ q.pending # None
                       /\ r.pending = q.pending /\ r.impl = q.impl
      BY Zenon, <1>2, <1>5, <1>6, RclServant
    <2>5. /\ GDB_PROOF => p.servicing_owner = s /\ p.pending # None /\ r.pending = p.pending /\ r.impl = p.impl
      BY Zenon, <2>3, <2>4
    <2>6. (r.at \in Rcl!ServingAt => GDB_PROOF) /\ (r.at \in Rcl!NamedAt => GDB_PROOF)
      BY Zenon, <1>6, RclPlaces
    <2> QED BY Zenon, <1>6, <2>1, <2>2, <2>5, <2>6, RclAfter
  <1>9. /\ locked' \in [Vars -> BOOLEAN] /\ mem' = [w \in Vars |-> mem'[w]]
        /\ \A w \in Vars : w # v => locked'[w] = locked[w]
    BY Zenon, <1>1, <1>4, RclShapes
  <1>10. \A u \in Servicing : u # s /\ th[u].at \in Rcl!HoldsAt => th[u].impl \in Vars /\ th[u].impl # v
    BY Zenon, <1>2, <1>3, RclServant, RclLocks
  <1>11. \A u \in Servicing : u # s /\ th[u].at \in Rcl!HoldsAt =>
           locked'[th[u].impl] /\ mem'[th[u].impl] = mem[th[u].impl]
    BY Zenon, <1>1, <1>9, <1>10, RclServant
  <1>12. Rcl!ServiceInv'
    BY Zenon, <1>5, <1>6, <1>7, <1>8, <1>9, <1>11, RclKeeps
  <1> QED BY Zenon, <1>1, <1>2, <1>5, <1>6, <1>7, <1>12, RclQuiet DEF RclServed

\* What the abstract specification sees of client d.
RclSt(d) == IF pc[d] = "idle" THEN "idle" ELSE IF Rcl!Executed(d) THEN "done" ELSE "pending"
RclRes(d) == IF Rcl!Executed(d) THEN requests[d].val ELSE None

\* A step that changes it for one client.
LEMMA RclChange ==
  ASSUME NEW c \in Rcl!Clients, NEW a, NEW b, RclSt(c)' = a, RclRes(c)' = b,
         \A d \in Rcl!Clients : d # c => RclSt(d)' = RclSt(d) /\ RclRes(d)' = RclRes(d)
  PROVE  /\ [d \in Rcl!Clients |-> RclSt(d)]' = [[d \in Rcl!Clients |-> RclSt(d)] EXCEPT ![c] = a]
         /\ [d \in Rcl!Clients |-> RclRes(d)]' = [[d \in Rcl!Clients |-> RclRes(d)] EXCEPT ![c] = b]
  BY Zenon, RclConstants

\* A request is executed.
RclExecution(c, x) ==
  /\ RclSt(c) = "pending" /\ RclSt(c)' = "done" /\ RclRes(c)' = x.ret
  /\ \A d \in Rcl!Clients : d # c => RclSt(d)' = RclSt(d) /\ RclRes(d)' = RclRes(d)
  /\ x = Apply(op[c].fn, mem[op[c].var])
  /\ mem' = [mem EXCEPT ![op[c].var] = x.val] /\ op' = op /\ ret' = ret

\* That is a step of the service.
LEMMA RclExecutes ==
  ASSUME NEW c \in Rcl!Clients, NEW x, RclExecution(c, x)
  PROVE  Rcl!Abstract!Next
  <1>1. /\ [d \in Rcl!Clients |-> RclSt(d)]' = [[d \in Rcl!Clients |-> RclSt(d)] EXCEPT ![c] = "done"]
        /\ [d \in Rcl!Clients |-> RclRes(d)]' = [[d \in Rcl!Clients |-> RclRes(d)] EXCEPT ![c] = x.ret]
    BY Zenon, RclChange DEF RclExecution
  <1>2. [d \in Rcl!Clients |-> RclSt(d)][c] = "pending"
    BY Zenon DEF RclExecution
  <1>3. /\ x = Apply(op[c].fn, mem[op[c].var])
        /\ mem' = [mem EXCEPT ![op[c].var] = x.val] /\ op' = op /\ ret' = ret
    BY Zenon DEF RclExecution
  <1>4. Rcl!Abstract!Execute(c)
    BY Zenon, <1>1, <1>2, <1>3 DEF Rcl!Abstract!Execute, RclSt, RclRes
  <1> QED BY Zenon, <1>4 DEF Rcl!Abstract!Next

\* The result is stored.
LEMMA RclStore ==
  ASSUME Rcl!Sizes, Rcl!ServiceInv, NEW s \in Servicing, Rcl!Store(s)
  PROVE  RclServed
  <1>0. PICK x, a : x = Apply(th[s].pending, th[s].seen) /\ a = IF GDB_PROOF THEN "unlock" ELSE "clear"
    BY Zenon
  <1>1. /\ th[s].at = "store" /\ locked' = locked /\ pc' = pc /\ op' = op /\ ret' = ret
        /\ mem' = [mem EXCEPT ![th[s].impl] = x.val] /\ RclSetVal(s, x.ret) /\ RclGoes(s, a)
    BY Zenon, <1>0 DEF Rcl!Store, Rcl!Caller, Rcl!Goto, RclGoes, RclSetVal
  <1>2. /\ th[s].at \notin Rcl!DoneAt /\ th[s].at \in Rcl!NamedAt /\ th[s].at \in Rcl!BusyAt
        /\ th[s].at \in Rcl!HoldsAt
    BY Zenon, <1>1, RclAt, RclPlaces
  <1>3. PICK c \in Rcl!Clients : c = th[s].i
    BY Zenon, RclServant
  <1>4. PICK v \in Vars : v = th[s].impl
    BY Zenon, <1>2, RclServant
  <1>5. /\ pc[c] = "wait" /\ requests[c].pending # None /\ op[c].var = v
        /\ x = Apply(op[c].fn, mem[op[c].var]) /\ mem' = [mem EXCEPT ![op[c].var] = x.val]
    <2>1. pc[c] = "wait" /\ requests[c].pending # None /\ th[s].pending = op[c].fn /\ op[c].var = v
      BY Zenon, <1>2, <1>3, <1>4, RclNamed
    <2>2. th[s].seen = mem[v]
      BY Zenon, <1>1, <1>4, RclServant
    <2> QED BY Zenon, <1>0, <1>1, <1>4, <2>1, <2>2
  <1>6. PICK r : /\ th' = [th EXCEPT ![s] = r] /\ Rcl!IsThread(r) /\ r.i \in Rcl!Clients
                 /\ r.at = a /\ r.i = th[s].i /\ r.pending = th[s].pending /\ r.impl = th[s].impl
    BY <1>1, RclGoto
  <1>7. PICK q : /\ requests' = [requests EXCEPT ![th[s].i] = q] /\ Rcl!IsRequest(q)
                 /\ q.val = x.ret /\ q.impl = requests[th[s].i].impl
                 /\ q.pending = requests[th[s].i].pending
                 /\ q.servicing_owner = requests[th[s].i].servicing_owner
    BY <1>1, RclSetsVal
  <1>8. RclMoves(s, r, q)
    BY Zenon, <1>1, <1>6, <1>7, RclMove
  <1>9. r.at \in Rcl!DoneAt /\ r.at # "store"
    BY <1>0, <1>6, RclAt
  <1>10. Rcl!ThreadInv(s)'
    <2>1. th'[s] = r /\ requests'[r.i] = q
      BY Zenon, <1>6, <1>8 DEF RclMoves
    <2>2. /\ GDB_PROOF => q.servicing_owner = s
          /\ q.pending # None /\ r.pending = q.pending /\ r.impl = q.impl
      <3>1. th[s].at \in Rcl!ServingAt
        BY Zenon, <1>2, RclPlaces
      <3>2. /\ GDB_PROOF => requests[th[s].i].servicing_owner = s
            /\ requests[th[s].i].pending # None /\ th[s].pending = requests[th[s].i].pending
            /\ th[s].impl = requests[th[s].i].impl
        BY Zenon, <1>2, <3>1, RclServant
      <3> QED BY Zenon, <1>6, <1>7, <3>2
    <2>3. r.impl \in Vars /\ locked'[r.impl]
      BY Zenon, <1>1, <1>2, <1>6, RclServant
    <2> QED BY Zenon, <1>6, <1>9, <2>1, <2>2, <2>3, RclAfter
  <1>11. /\ locked' \in [Vars -> BOOLEAN] /\ mem' = [w \in Vars |-> mem'[w]]
         /\ \A w \in Vars : w # v => mem'[w] = mem[w]
    BY Zenon, <1>1, <1>4, RclShapes, RclUpdate
  <1>12. \A u \in Servicing : u # s /\ th[u].at \in Rcl!HoldsAt => th[u].impl \in Vars /\ th[u].impl # v
    BY Zenon, <1>2, <1>4, RclServant, RclLocks
  <1>13. \A u \in Servicing : u # s /\ th[u].at \in Rcl!HoldsAt =>
           locked'[th[u].impl] /\ mem'[th[u].impl] = mem[th[u].impl]
    BY Zenon, <1>1, <1>11, <1>12, RclServant
  <1>14. \A u \in Servicing : u # s /\ th[u].at \in Rcl!HoldsAt => th[u].impl # r.impl
    BY Zenon, <1>4, <1>6, <1>12
  <1>15. Rcl!ServiceInv'
    BY Zenon, <1>7, <1>8, <1>10, <1>11, <1>13, <1>14, RclKeeps
  <1>16. /\ th'[s] = r /\ \A u \in Servicing : u # s => th'[u] = th[u]
         /\ requests'[c] = q /\ \A d \in Rcl!Clients : d # c => requests'[d] = requests[d]
    BY Zenon, <1>3, <1>8 DEF RclMoves
  <1>17. ~Rcl!Executed(c)
    <2>1. \A u \in Servicing : u # s /\ th[u].i = c => th[u].at \notin Rcl!DoneAt
      BY Zenon, <1>2, <1>3, RclOne, RclPlaces
    <2> QED BY Zenon, <1>2, <1>5, <2>1 DEF Rcl!Executed
  <1>18. Rcl!Executed(c)'
    <2>1. th'[s].i = c /\ th'[s].at \in Rcl!DoneAt /\ pc'[c] = "wait"
      BY Zenon, <1>1, <1>3, <1>5, <1>6, <1>9, <1>16
    <2> QED BY Zenon, <2>1, RclConstants DEF Rcl!Executed
  <1>19. ASSUME NEW d \in Rcl!Clients, d # c
         PROVE  RclSt(d)' = RclSt(d) /\ RclRes(d)' = RclRes(d)
    <2>1. requests'[d] = requests[d] /\ pc' = pc
      BY Zenon, <1>1, <1>16, <1>19
    <2>2. (\E u \in Servicing : th'[u].i = d /\ th'[u].at \in Rcl!DoneAt)
          <=> \E u \in Servicing : th[u].i = d /\ th[u].at \in Rcl!DoneAt
      <3>1. th'[s].i = c /\ th[s].i = c
        BY Zenon, <1>3, <1>6, <1>16
      <3> QED BY Zenon, <1>16, <1>19, <3>1
    <2>3. Rcl!Executed(d)' <=> Rcl!Executed(d)
      BY Zenon, <2>1, <2>2, RclConstants DEF Rcl!Executed
    <2> QED BY Zenon, <2>1, <2>3 DEF RclSt, RclRes
  <1>20. RclSt(c) = "pending" /\ RclSt(c)' = "done" /\ RclRes(c)' = x.ret
    <2>1. pc[c] # "idle" /\ pc'[c] # "idle"
      BY <1>1, <1>5
    <2>2. requests'[c].val = x.ret
      BY Zenon, <1>7, <1>16
    <2> QED BY Zenon, <1>17, <1>18, <2>1, <2>2 DEF RclSt, RclRes
  <1>21. Rcl!Abstract!Next
    <2>1. RclExecution(c, x)
      BY Zenon, <1>1, <1>5, <1>19, <1>20 DEF RclExecution
    <2> QED BY Zenon, <2>1, RclExecutes
  <1> QED BY Zenon, <1>15, <1>21 DEF RclServed

\* The request is no longer pending.
LEMMA RclClear ==
  ASSUME Rcl!Sizes, Rcl!ServiceInv, NEW s \in Servicing, Rcl!Clear(s)
  PROVE  RclServed
  <1>0. PICK a : a = IF GDB_PROOF THEN "disown" ELSE "unlock"
    BY Zenon
  <1>1. /\ th[s].at = "clear" /\ locked' = locked /\ mem' = mem /\ pc' = pc /\ op' = op /\ ret' = ret
        /\ RclSetPending(s, None) /\ RclGoes(s, a)
    BY Zenon, <1>0 DEF Rcl!Clear, Rcl!Caller, Rcl!Goto, RclGoes, RclSetPending
  <1>2. /\ th[s].at \in Rcl!DoneAt /\ th[s].at \in Rcl!NamedAt /\ th[s].at \in Rcl!BusyAt
        /\ th[s].at \in Rcl!HoldsAt <=> ~GDB_PROOF
    BY Zenon, <1>1, RclAt, RclPlaces
  <1>3. PICK c \in Rcl!Clients : c = th[s].i /\ pc[c] = "wait"
    BY Zenon, <1>2, RclNamed
  <1>4. PICK r : /\ th' = [th EXCEPT ![s] = r] /\ Rcl!IsThread(r) /\ r.i \in Rcl!Clients
                 /\ r.at = a /\ r.i = th[s].i /\ r.impl = th[s].impl
    BY <1>1, RclGoto
  <1>5. PICK q : /\ requests' = [requests EXCEPT ![th[s].i] = q] /\ Rcl!IsRequest(q)
                 /\ q.pending = None /\ q.impl = requests[th[s].i].impl
                 /\ q.val = requests[th[s].i].val
                 /\ q.servicing_owner = requests[th[s].i].servicing_owner
    BY <1>1, RclSetsPending
  <1>6. RclMoves(s, r, q)
    BY Zenon, <1>1, <1>4, <1>5, RclMove
  <1>7. /\ r.at # "store" /\ r.at \notin Rcl!ServingAt /\ r.at \notin Rcl!NamedAt
        /\ r.at \in Rcl!HoldsAt => ~GDB_PROOF
        /\ r.at \notin Rcl!DoneAt
    BY <1>0, <1>4, RclAt
  <1>8. Rcl!ThreadInv(s)'
    <2>1. th'[s] = r /\ requests'[r.i] = q
      BY Zenon, <1>4, <1>6 DEF RclMoves
    <2>2. GDB_PROOF => q.servicing_owner = s
      BY Zenon, <1>2, <1>5, RclServant
    <2>3. r.at \in Rcl!HoldsAt => r.impl \in Vars /\ locked'[r.impl]
      BY Zenon, <1>1, <1>2, <1>4, <1>7, RclServant
    <2> QED BY Zenon, <1>4, <1>7, <2>1, <2>2, <2>3, RclAfter
  <1>9. locked' \in [Vars -> BOOLEAN] /\ mem' = [v \in Vars |-> mem'[v]]
    BY Zenon, <1>1, RclShapes
  <1>10. \A u \in Servicing : u # s /\ th[u].at \in Rcl!HoldsAt =>
           locked'[th[u].impl] /\ mem'[th[u].impl] = mem[th[u].impl]
    BY Zenon, <1>1, RclServant
  <1>11. r.at \in Rcl!HoldsAt =>
           \A u \in Servicing : u # s /\ th[u].at \in Rcl!HoldsAt => th[u].impl # r.impl
    BY Zenon, <1>2, <1>4, <1>7, RclLocks
  <1>12. Rcl!ServiceInv'
    BY ZenonT(60), <1>2, <1>5, <1>6, <1>8, <1>9, <1>10, <1>11, RclKeeps
  <1>13. /\ th'[s] = r /\ \A u \in Servicing : u # s => th'[u] = th[u]
         /\ requests'[c] = q /\ \A d \in Rcl!Clients : d # c => requests'[d] = requests[d]
    BY Zenon, <1>3, <1>6 DEF RclMoves
  <1>14. ASSUME NEW d \in Rcl!Clients PROVE requests'[d].val = requests[d].val
    <2>1. CASE d = c
      BY Zenon, <1>3, <1>5, <1>13, <2>1
    <2> QED BY Zenon, <1>13, <2>1
  <1>15. ASSUME NEW d \in Rcl!Clients PROVE Rcl!Executed(d)' <=> Rcl!Executed(d)
    <2>1. CASE d = c
      <3>1. Rcl!Executed(c)
        BY Zenon, <1>2, <1>3 DEF Rcl!Executed
      <3>2. requests'[c].pending = None /\ pc'[c] = "wait"
        BY Zenon, <1>1, <1>3, <1>5, <1>13
      <3>3. Rcl!Executed(c)'
        BY Zenon, <3>2 DEF Rcl!Executed
      <3> QED BY Zenon, <2>1, <3>1, <3>3
    <2>2. CASE d # c
      <3>1. requests'[d] = requests[d] /\ pc' = pc
        BY Zenon, <1>1, <1>13, <2>2
      <3>2. (\E u \in Servicing : th'[u].i = d /\ th'[u].at \in Rcl!DoneAt)
            <=> \E u \in Servicing : th[u].i = d /\ th[u].at \in Rcl!DoneAt
        <4>1. th'[s].i = c /\ th[s].i = c
          BY Zenon, <1>3, <1>4, <1>13
        <4> QED BY Zenon, <1>13, <2>2, <4>1
      <3> QED BY Zenon, <3>1, <3>2, RclConstants DEF Rcl!Executed
    <2> QED BY Zenon, <2>1, <2>2
  <1>16. UNCHANGED Rcl!Abstract!vars
    BY Zenon, <1>1, <1>14, <1>15, RclStutter
  <1> QED BY Zenon, <1>12, <1>16 DEF RclServed

\* No servicing thread has executed, or is about to, a request that is not
\* pending.
LEMMA RclIdle ==
  ASSUME Rcl!Sizes, Rcl!ServiceInv, NEW c \in Rcl!Clients, requests[c].pending = None
  PROVE  \A u \in Servicing : th[u].i = c => th[u].at \notin Rcl!ServingAt /\ th[u].at \notin Rcl!DoneAt
  BY Zenon, RclServant, RclPlaces

\* A step of client c, whose request is not pending, that leaves it as q.
RclAsks(c, q) ==
  /\ requests[c].pending = None
  /\ requests' = [requests EXCEPT ![c] = q] /\ Rcl!IsRequest(q)
  /\ q.servicing_owner = requests[c].servicing_owner
  /\ UNCHANGED <<locked, th, mem>>
  /\ pc' = [d \in Rcl!Clients |-> pc'[d]] /\ op' = [d \in Rcl!Clients |-> op'[d]]
  /\ ret' = [d \in Rcl!Clients |-> ret'[d]]
  /\ \A d \in Rcl!Clients : d # c => pc'[d] = pc[d] /\ op'[d] = op[d]
  /\ pc'[c] \in {"idle", "post", "wait"}
  /\ pc'[c] # "idle" => op'[c] \in Rcl!Ops /\ q.impl = op'[c].var
  /\ q.pending # None => pc'[c] = "wait" /\ q.pending = op'[c].fn

\* Such a step keeps the invariant and changes nothing for the other clients.
LEMMA RclAsk ==
  ASSUME Rcl!Sizes, Rcl!ServiceInv, NEW c \in Rcl!Clients, NEW q, RclAsks(c, q)
  PROVE  /\ Rcl!ServiceInv'
         /\ \A d \in Rcl!Clients : d # c => RclSt(d)' = RclSt(d) /\ RclRes(d)' = RclRes(d)
         /\ requests'[c] = q
         /\ Rcl!Executed(c) <=> pc[c] = "wait"
         /\ Rcl!Executed(c)' <=> pc'[c] = "wait" /\ q.pending = None
  <1>1. /\ requests[c].pending = None /\ Rcl!IsRequest(q)
        /\ q.servicing_owner = requests[c].servicing_owner
        /\ locked' = locked /\ th' = th /\ mem' = mem
        /\ \A d \in Rcl!Clients : d # c => pc'[d] = pc[d] /\ op'[d] = op[d]
        /\ pc'[c] \in {"idle", "post", "wait"}
        /\ pc'[c] # "idle" => op'[c] \in Rcl!Ops /\ q.impl = op'[c].var
        /\ q.pending # None => pc'[c] = "wait" /\ q.pending = op'[c].fn
    BY Zenon DEF RclAsks
  <1>2. /\ requests' = [d \in Rcl!Clients |-> requests'[d]] /\ requests'[c] = q
        /\ \A d \in Rcl!Clients : d # c => requests'[d] = requests[d]
    BY Zenon, RclShapes, RclUpdate DEF RclAsks
  <1>3. \A u \in Servicing : th[u].i = c => th[u].at \notin Rcl!ServingAt /\ th[u].at \notin Rcl!DoneAt
    BY Zenon, <1>1, RclIdle
  <1>4. ASSUME NEW u \in Servicing PROVE Rcl!ThreadInv(u)'
    <2>1. PICK t, p : t = th[u] /\ Rcl!IsThread(t) /\ p = requests'[th[u].i]
      BY Zenon, RclRecord
    <2>2. th[u].i \in Rcl!Clients
      BY Zenon, RclServant
    <2>3. p.servicing_owner = requests[th[u].i].servicing_owner
      <3>1. CASE th[u].i = c
        BY Zenon, <1>1, <1>2, <2>1, <3>1
      <3>2. CASE th[u].i # c
        BY Zenon, <1>2, <2>1, <2>2, <3>2
      <3> QED BY Zenon, <3>1, <3>2
    <2>4. th[u].at \in Rcl!ServingAt => p = requests[th[u].i]
      BY Zenon, <1>2, <1>3, <2>1, <2>2
    <2>5. /\ GDB_PROOF /\ t.at \in Rcl!BusyAt => p.servicing_owner = u
          /\ t.i \in Rcl!Clients /\ th'[u] = t /\ requests'[t.i] = p
      BY Zenon, <1>1, <2>1, <2>2, <2>3, RclServant
    <2>6. th[u].at \in Rcl!ServingAt => p.pending # None /\ th[u].pending = p.pending
      BY Zenon, <2>4, RclServant
    <2>7. th[u].at \in Rcl!NamedAt => th[u].impl = p.impl
      BY Zenon, <2>4, RclServant, RclPlaces
    <2>8. /\ th[u].at \in Rcl!HoldsAt => th[u].impl \in Vars /\ locked'[th[u].impl]
          /\ th[u].at = "store" => th[u].seen = mem'[th[u].impl]
      BY Zenon, <1>1, RclServant
    <2> QED BY ZenonT(60), <2>1, <2>5, <2>6, <2>7, <2>8, RclAfter
  <1>5. ASSUME NEW d \in Rcl!Clients PROVE Rcl!ClientInv(d)'
    <2>1. CASE d = c
      BY Zenon, <1>1, <1>2, <2>1, RclConstants DEF Rcl!ClientInv, Rcl!IsRequest
    <2>2. CASE d # c
      <3>1. requests'[d] = requests[d] /\ pc'[d] = pc[d] /\ op'[d] = op[d]
        BY Zenon, <1>1, <1>2, <2>2
      <3> QED BY Zenon, <3>1, RclClient, RclConstants DEF Rcl!ClientInv, Rcl!IsRequest
    <2> QED BY Zenon, <2>1, <2>2
  <1>6. Rcl!LockInv'
    BY Zenon, <1>1, RclLocks, RclConstants DEF Rcl!LockInv
  <1>7. Rcl!Shapes'
    <2>1. /\ pc' = [d \in Rcl!Clients |-> pc'[d]] /\ op' = [d \in Rcl!Clients |-> op'[d]]
          /\ ret' = [d \in Rcl!Clients |-> ret'[d]]
      BY Zenon DEF RclAsks
    <2>2. /\ locked' \in [Vars -> BOOLEAN] /\ mem' = [v \in Vars |-> mem'[v]]
          /\ th' = [u \in Servicing |-> th'[u]]
      BY Zenon, <1>1, RclShapes
    <2> QED BY Zenon, <1>2, <2>1, <2>2, RclConstants DEF Rcl!Shapes
  <1>8. Rcl!ServiceInv'
    BY Zenon, <1>4, <1>5, <1>6, <1>7, RclConstants DEF Rcl!ServiceInv
  <1>9. ASSUME NEW d \in Rcl!Clients, d # c
        PROVE  RclSt(d)' = RclSt(d) /\ RclRes(d)' = RclRes(d)
    <2>1. requests'[d] = requests[d] /\ pc'[d] = pc[d]
      BY Zenon, <1>1, <1>2, <1>9
    <2>2. Rcl!Executed(d)' <=> Rcl!Executed(d)
      BY Zenon, <1>1, <2>1, RclConstants DEF Rcl!Executed
    <2> QED BY Zenon, <2>1, <2>2 DEF RclSt, RclRes
  <1>10. Rcl!Executed(c) <=> pc[c] = "wait"
    BY Zenon, <1>1, <1>3 DEF Rcl!Executed
  <1>11. Rcl!Executed(c)' <=> pc'[c] = "wait" /\ q.pending = None
    BY Zenon, <1>1, <1>2, <1>3, RclConstants DEF Rcl!Executed
  <1> QED BY Zenon, <1>2, <1>8, <1>9, <1>10, <1>11

\* A request is filled in: the call is handed over.
LEMMA RclCall ==
  ASSUME Rcl!Sizes, Rcl!ServiceInv, NEW c \in Rcl!Clients, NEW o \in Rcl!Ops, Rcl!Call(c, o)
  PROVE  RclServed
  <1>1. /\ pc[c] = "idle" /\ op' = [op EXCEPT ![c] = o] /\ pc' = [pc EXCEPT ![c] = "post"]
        /\ UNCHANGED <<locked, th, ret, mem>>
        /\ requests' = [requests EXCEPT ![c] = [requests[c] EXCEPT !.impl = o.var, !.val = None]]
    BY Zenon DEF Rcl!Call
  <1>2. PICK p, q, v : /\ p = requests[c] /\ Rcl!IsRequest(p) /\ v = o.var
                       /\ q = [requests[c] EXCEPT !.impl = o.var, !.val = None]
                       /\ SetCall(q, p, v, None)
    BY Zenon, RclClient DEF SetCall
  <1>3. /\ Rcl!IsRequest(q) /\ q.impl = o.var /\ q.pending = p.pending
        /\ q.servicing_owner = p.servicing_owner
    <2>1. /\ Rcl!IsRequest(q) /\ q.impl = v /\ q.pending = p.pending
          /\ q.servicing_owner = p.servicing_owner
      BY <1>2, RclRequestCall
    <2> QED BY Zenon, <1>2, <2>1
  <1>4. requests[c].pending = None
    BY <1>1, RclClient
  <1>5. /\ pc' = [d \in Rcl!Clients |-> pc'[d]] /\ pc'[c] = "post"
        /\ \A d \in Rcl!Clients : d # c => pc'[d] = pc[d]
    BY Zenon, <1>1, RclShapes, RclUpdate
  <1>6. /\ op' = [d \in Rcl!Clients |-> op'[d]] /\ op'[c] = o
        /\ \A d \in Rcl!Clients : d # c => op'[d] = op[d]
    BY Zenon, <1>1, RclShapes, RclUpdate
  <1>7. ret' = [d \in Rcl!Clients |-> ret'[d]]
    BY Zenon, <1>1, RclShapes
  <1>8. q.pending = None
    BY Zenon, <1>2, <1>3, <1>4
  <1>9. RclAsks(c, q)
    BY Zenon, <1>1, <1>2, <1>3, <1>4, <1>5, <1>6, <1>7, <1>8 DEF RclAsks
  <1>10. /\ ~Rcl!Executed(c) /\ ~Rcl!Executed(c)'
         /\ Rcl!ServiceInv'
         /\ \A d \in Rcl!Clients : d # c => RclSt(d)' = RclSt(d) /\ RclRes(d)' = RclRes(d)
    <2>1. pc[c] # "wait" /\ pc'[c] # "wait"
      BY <1>1, <1>5
    <2> QED BY Zenon, <1>9, <2>1, RclAsk
  <1>11. RclSt(c) = "idle" /\ RclSt(c)' = "pending" /\ RclRes(c)' = None /\ RclRes(c) = None
    BY <1>1, <1>5, <1>10 DEF RclSt, RclRes
  <1>12. /\ [d \in Rcl!Clients |-> RclSt(d)]' = [[d \in Rcl!Clients |-> RclSt(d)] EXCEPT ![c] = "pending"]
         /\ [d \in Rcl!Clients |-> RclSt(d)][c] = "idle"
    BY Zenon, <1>10, <1>11, RclChange
  <1>13. [d \in Rcl!Clients |-> RclRes(d)]' = [d \in Rcl!Clients |-> RclRes(d)]
    BY Zenon, <1>10, <1>11, RclConstants
  <1>14. Rcl!Abstract!Invoke(c, o)
    BY Zenon, <1>1, <1>12, <1>13 DEF Rcl!Abstract!Invoke, RclSt, RclRes
  <1>15. Rcl!Abstract!Next
    BY Zenon, <1>14 DEF Rcl!Abstract!Next, Rcl!Abstract!Ops, Rcl!Ops
  <1> QED BY Zenon, <1>10, <1>15 DEF RclServed

\* The request is made pending, and the abstract object does nothing.
LEMMA RclPost ==
  ASSUME Rcl!Sizes, Rcl!ServiceInv, NEW c \in Rcl!Clients, Rcl!Post(c)
  PROVE  RclServed
  <1>1. /\ pc[c] = "post" /\ pc' = [pc EXCEPT ![c] = "wait"]
        /\ UNCHANGED <<locked, th, op, ret, mem>>
        /\ requests' = [requests EXCEPT ![c] = [requests[c] EXCEPT !.pending = op[c].fn]]
    BY Zenon DEF Rcl!Post
  <1>2. PICK p, q, f : /\ p = requests[c] /\ Rcl!IsRequest(p) /\ f = op[c].fn
                       /\ q = [requests[c] EXCEPT !.pending = op[c].fn]
                       /\ SetPending(q, p, f)
    BY Zenon, RclClient DEF SetPending
  <1>3. /\ Rcl!IsRequest(q) /\ q.impl = p.impl /\ q.pending = op[c].fn
        /\ q.servicing_owner = p.servicing_owner
    <2>1. /\ Rcl!IsRequest(q) /\ q.impl = p.impl /\ q.pending = f
          /\ q.servicing_owner = p.servicing_owner
      BY <1>2, RclRequestPending
    <2> QED BY Zenon, <1>2, <2>1
  <1>4. requests[c].pending = None /\ op[c] \in Rcl!Ops /\ p.impl = op[c].var
    BY <1>1, <1>2, RclClient
  <1>5. /\ pc' = [d \in Rcl!Clients |-> pc'[d]] /\ pc'[c] = "wait"
        /\ \A d \in Rcl!Clients : d # c => pc'[d] = pc[d]
    BY Zenon, <1>1, RclShapes, RclUpdate
  <1>6. /\ ret' = [d \in Rcl!Clients |-> ret'[d]] /\ op' = [d \in Rcl!Clients |-> op'[d]]
        /\ op' = op
    BY Zenon, <1>1, RclShapes
  <1>7. q.pending # None
    <2>1. op[c].fn \in Fns
      BY <1>4 DEF Rcl!Ops
    <2> QED BY Zenon, <1>3, <2>1 DEF Rcl!Sizes
  <1>8. RclAsks(c, q)
    BY Zenon, <1>1, <1>2, <1>3, <1>4, <1>5, <1>6 DEF RclAsks
  <1>9. /\ ~Rcl!Executed(c) /\ ~Rcl!Executed(c)'
        /\ Rcl!ServiceInv'
        /\ \A d \in Rcl!Clients : d # c => RclSt(d)' = RclSt(d) /\ RclRes(d)' = RclRes(d)
    <2>1. pc[c] # "wait"
      BY <1>1
    <2> QED BY Zenon, <1>7, <1>8, <2>1, RclAsk
  <1>10. RclSt(c)' = RclSt(c) /\ RclRes(c)' = RclRes(c)
    BY <1>1, <1>5, <1>9 DEF RclSt, RclRes
  <1>11. /\ [d \in Rcl!Clients |-> RclSt(d)]' = [d \in Rcl!Clients |-> RclSt(d)]
         /\ [d \in Rcl!Clients |-> RclRes(d)]' = [d \in Rcl!Clients |-> RclRes(d)]
    BY Zenon, <1>9, <1>10, RclConstants
  <1>12. UNCHANGED Rcl!Abstract!vars
    BY Zenon, <1>1, <1>11 DEF Rcl!Abstract!vars, RclSt, RclRes
  <1> QED BY Zenon, <1>9, <1>12 DEF RclServed

\* The client finds its request no longer pending and takes its result.
LEMMA RclReturn ==
  ASSUME Rcl!Sizes, Rcl!ServiceInv, NEW c \in Rcl!Clients, Rcl!Return(c)
  PROVE  RclServed
  <1>1. /\ pc[c] = "wait" /\ requests[c].pending = None
        /\ pc' = [pc EXCEPT ![c] = "idle"] /\ op' = [op EXCEPT ![c] = None]
        /\ ret' = [ret EXCEPT ![c] = requests[c].val]
        /\ UNCHANGED <<requests, locked, th, mem>>
    BY Zenon DEF Rcl!Return
  <1>2. PICK q : q = requests[c] /\ Rcl!IsRequest(q)
    BY Zenon, RclClient
  <1>3. requests' = [requests EXCEPT ![c] = q]
    BY Zenon, <1>1, <1>2, RclShapes
  <1>5. /\ pc' = [d \in Rcl!Clients |-> pc'[d]] /\ pc'[c] = "idle"
        /\ \A d \in Rcl!Clients : d # c => pc'[d] = pc[d]
    BY Zenon, <1>1, RclShapes, RclUpdate
  <1>6. /\ op' = [d \in Rcl!Clients |-> op'[d]] /\ op'[c] = None
        /\ \A d \in Rcl!Clients : d # c => op'[d] = op[d]
    BY Zenon, <1>1, RclShapes, RclUpdate
  <1>7. ret' = [d \in Rcl!Clients |-> ret'[d]]
    BY Zenon, <1>1, RclShapes, RclUpdate
  <1>8. RclAsks(c, q)
    BY Zenon, <1>1, <1>2, <1>3, <1>5, <1>6, <1>7 DEF RclAsks
  <1>9. /\ Rcl!Executed(c) /\ ~Rcl!Executed(c)'
        /\ Rcl!ServiceInv'
        /\ \A d \in Rcl!Clients : d # c => RclSt(d)' = RclSt(d) /\ RclRes(d)' = RclRes(d)
    <2>1. pc'[c] # "wait"
      BY <1>5
    <2> QED BY Zenon, <1>1, <1>8, <2>1, RclAsk
  <1>10. /\ RclSt(c) = "done" /\ RclSt(c)' = "idle"
         /\ RclRes(c) = requests[c].val /\ RclRes(c)' = None
    BY <1>1, <1>5, <1>9 DEF RclSt, RclRes
  <1>11. /\ [d \in Rcl!Clients |-> RclSt(d)]' = [[d \in Rcl!Clients |-> RclSt(d)] EXCEPT ![c] = "idle"]
         /\ [d \in Rcl!Clients |-> RclRes(d)]' = [[d \in Rcl!Clients |-> RclRes(d)] EXCEPT ![c] = None]
         /\ [d \in Rcl!Clients |-> RclSt(d)][c] = "done"
         /\ [d \in Rcl!Clients |-> RclRes(d)][c] = requests[c].val
    BY Zenon, <1>9, <1>10, RclChange
  <1>12. Rcl!Abstract!Return(c)
    BY Zenon, <1>1, <1>11 DEF Rcl!Abstract!Return, RclSt, RclRes
  <1>13. Rcl!Abstract!Next
    BY Zenon, <1>12 DEF Rcl!Abstract!Next
  <1> QED BY Zenon, <1>9, <1>13 DEF RclServed

\* Every step keeps the invariant, and does for the abstract object one of its
\* steps or nothing.
LEMMA RclStep ==
  ASSUME Rcl!Sizes, Rcl!ServiceInv, [Rcl!Next]_(Rcl!vars)
  PROVE  RclServed
  <1>1. CASE \E c \in Rcl!Clients : Rcl!Step(c) \/ \E o \in Rcl!Ops : Rcl!Call(c, o)
    BY Zenon, <1>1, RclPost, RclReturn, RclCall DEF Rcl!Step
  <1>2. CASE \E s \in Servicing : Rcl!Service(s)
    <2>1. PICK s \in Servicing : Rcl!Service(s)
      BY Zenon, <1>2
    <2> QED BY ZenonT(60), <2>1, RclReadPending, RclOwn, RclReread, RclReadImpl, RclLock, RclLoad,
                RclStore, RclClear, RclUnlock, RclDisown DEF Rcl!Service
  <1>3. CASE UNCHANGED Rcl!vars
    <2>1. /\ requests' = requests /\ locked' = locked /\ th' = th /\ mem' = mem
          /\ pc' = pc /\ op' = op /\ ret' = ret
      BY Zenon, <1>3 DEF Rcl!vars
    <2>2. ASSUME NEW c \in Rcl!Clients PROVE Rcl!Executed(c)' <=> Rcl!Executed(c)
      BY Zenon, <2>1, RclConstants DEF Rcl!Executed
    <2>3. UNCHANGED Rcl!Abstract!vars
      BY Zenon, <2>1, <2>2, RclStutter
    <2>4. ASSUME NEW u \in Servicing PROVE Rcl!ThreadInv(u)'
      <3>1. PICK t, p : t = th[u] /\ Rcl!IsThread(t) /\ p = requests[th[u].i]
        BY Zenon, RclRecord
      <3> QED BY Zenon, <2>1, <3>1, RclServant, RclAfter
    <2>5. ASSUME NEW d \in Rcl!Clients PROVE Rcl!ClientInv(d)'
      BY Zenon, <2>1, RclClient, RclConstants DEF Rcl!ClientInv, Rcl!IsRequest
    <2>6. Rcl!LockInv'
      BY Zenon, <2>1, RclLocks, RclConstants DEF Rcl!LockInv
    <2>7. Rcl!Shapes'
      BY Zenon, <2>1, RclShapes, RclConstants DEF Rcl!Shapes
    <2> QED BY Zenon, <2>3, <2>4, <2>5, <2>6, <2>7, RclConstants DEF Rcl!ServiceInv, RclServed
  <1> QED BY Zenon, <1>1, <1>2, <1>3 DEF Rcl!Next

\* Nothing is pending and every servicing thread is at the first request.
LEMMA RclInit ==
  ASSUME Rcl!Sizes, Rcl!Init
  PROVE  Rcl!ServiceInv /\ Rcl!Abstract!Init
  <1>1. 1 \in Rcl!Clients
    BY DEF Rcl!Sizes, Rcl!Clients
  <1>2. PICK q : q = [impl |-> None, val |-> None, pending |-> None, servicing_owner |-> None]
    BY Zenon
  <1>3. PICK t : t = Rcl!Scan(1)
    BY Zenon
  <1>4. Rcl!IsRequest(q) /\ q.pending = None
    BY <1>2, RclIsRequest
  <1>5. Rcl!IsThread(t) /\ t.at = "scan" /\ t.i = 1
    <2>1. PICK a, i : a = "scan" /\ i = 1
      BY Zenon
    <2>2. t = [at |-> a, i |-> i, pending |-> None, impl |-> None, seen |-> InitVal]
      BY Zenon, <1>3, <2>1 DEF Rcl!Scan
    <2>3. Rcl!IsThread(t) /\ t.at = a /\ t.i = i
      BY <2>2, RclIsThread
    <2> QED BY Zenon, <2>1, <2>3
  <1>6. /\ requests = [c \in Rcl!Clients |-> q] /\ th = [s \in Servicing |-> t]
        /\ locked = [v \in Vars |-> FALSE] /\ mem = [v \in Vars |-> InitVal]
        /\ pc = [c \in Rcl!Clients |-> "idle"] /\ op = [c \in Rcl!Clients |-> None]
        /\ ret = [c \in Rcl!Clients |-> InitVal]
    BY Zenon, <1>2, <1>3 DEF Rcl!Init
  <1>7. Rcl!Shapes
    BY Zenon, <1>6 DEF Rcl!Shapes
  <1>8. ASSUME NEW c \in Rcl!Clients PROVE Rcl!ClientInv(c)
    <2>1. requests[c] = q /\ pc[c] = "idle"
      BY Zenon, <1>6
    <2> QED BY Zenon, <1>4, <2>1 DEF Rcl!ClientInv
  <1>9. t.at \notin Rcl!BusyAt /\ t.at \notin Rcl!ServingAt /\ t.at \notin Rcl!NamedAt /\ t.at \notin Rcl!HoldsAt /\ t.at # "store"
    BY <1>5 DEF Rcl!BusyAt, Rcl!ServingAt, Rcl!NamedAt, Rcl!HoldsAt, Rcl!DoneAt
  <1>10. ASSUME NEW s \in Servicing PROVE Rcl!ThreadInv(s)
    <2>1. th[s] = t
      BY Zenon, <1>6
    <2> QED BY Zenon, <1>1, <1>5, <1>9, <2>1 DEF Rcl!ThreadInv
  <1>11. Rcl!LockInv
    BY Zenon, <1>6, <1>9 DEF Rcl!LockInv
  <1>12. Rcl!ServiceInv
    BY Zenon, <1>7, <1>8, <1>10, <1>11 DEF Rcl!ServiceInv
  <1>13. ASSUME NEW c \in Rcl!Clients PROVE RclSt(c) = "idle" /\ RclRes(c) = None
    <2>1. pc[c] = "idle"
      BY Zenon, <1>6
    <2> QED BY <2>1 DEF RclSt, RclRes, Rcl!Executed
  <1>14. /\ [c \in Rcl!Clients |-> RclSt(c)] = [c \in Rcl!Clients |-> "idle"]
         /\ [c \in Rcl!Clients |-> RclRes(c)] = [c \in Rcl!Clients |-> None]
    BY Zenon, <1>13
  <1>15. Rcl!Abstract!Init
    BY Zenon, <1>6, <1>14 DEF Rcl!Abstract!Init, RclSt, RclRes
  <1> QED BY Zenon, <1>12, <1>15

\* However the clients and the servicing threads of an RCL server interleave,
\* every critical section is executed once, between its call and its return, on
\* the data of its lock, and its client gets its result: the array of requests
\* implements the delegation service, for any number of clients and variables,
\* with owners for any number of servicing threads and without them for one.
THEOREM RclLinearizable ==
  ASSUME Rcl!Sizes
  PROVE  Rcl!Spec => []Rcl!ServiceInv /\ Rcl!Linearizable
  <1>1. Rcl!Init => Rcl!ServiceInv /\ Rcl!Abstract!Init
    BY Zenon, RclInit
  <1>2. Rcl!ServiceInv /\ [Rcl!Next]_(Rcl!vars) => Rcl!ServiceInv' /\ [Rcl!Abstract!Next]_(Rcl!Abstract!vars)
    BY Zenon, RclStep DEF RclServed
  <1> QED BY <1>1, <1>2, PTL DEF Rcl!Spec, Rcl!Linearizable, Rcl!Abstract!Spec
=============================================================================
