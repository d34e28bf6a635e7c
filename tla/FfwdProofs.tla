----------------------------- MODULE FfwdProofs -----------------------------
(***************************************************************************)
(* Theorems about Ffwd, for any number of clients, servers and chips, any  *)
(* NCLIENTS and any delegated functions.                                   *)
(*                                                                         *)
(* First, the operators of Ffwd, and the types: every step preserves       *)
(* TypeOK.  Then the invariant of the channel: ChannelInv holds initially, *)
(* and every step preserves it.  A client's steps leave alone what         *)
(* belongs to the servers (ClientFrame); a server's leave alone what       *)
(* belongs to the clients and to the other servers (ServerFrame).          *)
(* ChannelInv is therefore an inductive invariant of Ffwd, and the safety  *)
(* properties of the channel follow from it.                               *)
(*                                                                         *)
(* So does the refinement: the channel implements DelegationService.       *)
(* Three steps of Ffwd are visible in the abstract state: the store of the *)
(* flag word, the return of the delegated function and the read of the     *)
(* return value.                                                           *)
(*                                                                         *)
(* And so does the bound on overtaking, with an invariant on the order in  *)
(* which a server comes to the slots (BypassInv of FfwdBypass).            *)
(***************************************************************************)
EXTENDS FfwdRefinement, FfwdBypass, TLAPS


\* The exclusive or of two flag words is a flag word.
LEMMA XorType ==
  ASSUME NEW A, NEW a \in SUBSET A, NEW b \in SUBSET A
  PROVE  Xor(a, b) \in SUBSET A
  BY Zenon DEF Xor

\* Dividing the number of a slot by the size of a half.
LEMMA HalfArithmetic ==
  ASSUME NEW n \in Nat \ {0}, NEW i \in 0 .. (2 * n - 1)
  PROVE  /\ i < n => i \div n = 0 /\ i % n = i
         /\ i >= n => i \div n = 1 /\ i % n = i - n
  <1>1. CASE i < n
    BY <1>1
  <1>2. CASE i >= n
    BY <1>2
  <1> QED
    BY Zenon, <1>1, <1>2

\* The response line and the word ffwd_thread_create computes for a client
\* exist, and determine the client's slot.
LEMMA SlotTypes ==
  ASSUME NEW c \in Clients
  PROVE  /\ ChipOf[c] \in Chip
         /\ IdOf[c] \in Ids
         /\ LineOf(c) \in Blk
         /\ WordOf(c) \in Words
         /\ LineOf(c) \div 2 = ChipOf[c]
         /\ IdOf[c] = (LineOf(c) % 2) * NCLIENTS + WordOf(c)
  <1>1. NChips \in Nat \ {0} /\ NCLIENTS \in Nat \ {0}
    BY Zenon, SizeAssumption
  <1>2. ChipOf[c] \in 0 .. (NChips - 1) /\ IdOf[c] \in 0 .. (2 * NCLIENTS - 1)
    BY Zenon, SlotAssumption DEF Chip, Ids
  <1>3. CASE IdOf[c] < NCLIENTS
    <2>1. IdOf[c] \div NCLIENTS = 0 /\ IdOf[c] % NCLIENTS = IdOf[c]
      BY Zenon, <1>1, <1>2, <1>3, HalfArithmetic
    <2>2. LineOf(c) = 2 * ChipOf[c] /\ WordOf(c) = IdOf[c]
      BY <1>2, <2>1 DEF LineOf, WordOf
    <2> QED
      BY <1>1, <1>2, <1>3, <2>2 DEF Chip, Ids, Blk, Words
  <1>4. CASE IdOf[c] >= NCLIENTS
    <2>1. IdOf[c] \div NCLIENTS = 1 /\ IdOf[c] % NCLIENTS = IdOf[c] - NCLIENTS
      BY Zenon, <1>1, <1>2, <1>4, HalfArithmetic
    <2>2. LineOf(c) = 2 * ChipOf[c] + 1 /\ WordOf(c) = IdOf[c] - NCLIENTS
      BY Zenon, <1>2, <2>1 DEF LineOf, WordOf
    <2> QED
      BY <1>1, <1>2, <1>4, <2>2 DEF Chip, Ids, Blk, Words
  <1> QED
    BY <1>1, <1>2, <1>3, <1>4

\* Distinct clients have distinct words in the response lines.
LEMMA WordUnique ==
  ASSUME NEW c \in Clients, NEW d \in Clients,
         LineOf(c) = LineOf(d), WordOf(c) = WordOf(d)
  PROVE  c = d
  BY ZenonT(60), SlotTypes, SlotAssumption

\* Where a server polls is a slot of a chip.
LEMMA PositionType ==
  ASSUME TypeOK, NEW s \in Servers
  PROVE  /\ ChipAt(s) \in Chip
         /\ idx[s] < NCLIENTS =>
              /\ SlotAt(s) \in Ids
              /\ SlotAt(s) % NCLIENTS = idx[s]
              /\ idx[s] \in Words
  <1>1. blk[s] \in 0 .. (2 * NChips - 1) /\ idx[s] \in 0 .. NCLIENTS
    BY Zenon DEF TypeOK, PosTypeOK, Blk
  <1>2. NChips \in Nat \ {0} /\ NCLIENTS \in Nat \ {0}
    BY Zenon, SizeAssumption
  <1>3. ChipAt(s) \in Chip
    BY <1>1, <1>2 DEF ChipAt, Chip
  <1>4. SUFFICES ASSUME idx[s] < NCLIENTS
                 PROVE  SlotAt(s) \in Ids /\ SlotAt(s) % NCLIENTS = idx[s] /\ idx[s] \in Words
    BY Zenon, <1>3
  <1>5. blk[s] % 2 \in {0, 1}
    BY <1>1, <1>2
  <1>6. CASE blk[s] % 2 = 0
    <2>1. SlotAt(s) = idx[s] /\ SlotAt(s) \in 0 .. (2 * NCLIENTS - 1)
      BY <1>1, <1>2, <1>4, <1>6 DEF SlotAt
    <2>2. SlotAt(s) % NCLIENTS = SlotAt(s)
      BY Zenon, <1>1, <1>2, <1>4, <2>1, HalfArithmetic
    <2> QED
      BY <1>1, <1>2, <1>4, <2>1, <2>2 DEF Ids, Words
  <1>7. CASE blk[s] % 2 = 1
    <2>1. SlotAt(s) = NCLIENTS + idx[s] /\ SlotAt(s) \in 0 .. (2 * NCLIENTS - 1)
      BY <1>1, <1>2, <1>4, <1>7 DEF SlotAt
    <2> QED
      BY SMTT(30), <1>1, <1>2, <1>4, <2>1, HalfArithmetic DEF Ids, Words
  <1> QED
    BY Zenon, <1>5, <1>6, <1>7

\* A server polls the slot of client c exactly when it is at c's word of c's
\* half.
LEMMA PositionOfClient ==
  ASSUME TypeOK, NEW s \in Servers, NEW c \in Clients, idx[s] < NCLIENTS
  PROVE  /\ blk[s] = LineOf(c) /\ idx[s] = WordOf(c) <=>
              ChipOf[c] = ChipAt(s) /\ IdOf[c] = SlotAt(s)
         /\ blk[s] = LineOf(c) => ChipOf[c] = ChipAt(s)
  <1>1. ASSUME blk[s] = LineOf(c) PROVE ChipOf[c] = ChipAt(s)
    BY Zenon, <1>1, SlotTypes DEF ChipAt
  <1>2. ASSUME blk[s] = LineOf(c), idx[s] = WordOf(c) PROVE IdOf[c] = SlotAt(s)
    BY Zenon, <1>2, SlotTypes DEF SlotAt
  <1>3. ASSUME ChipOf[c] = ChipAt(s), IdOf[c] = SlotAt(s)
        PROVE  blk[s] = LineOf(c) /\ idx[s] = WordOf(c)
    <2>1. NChips \in Nat \ {0} /\ NCLIENTS \in Nat \ {0}
      BY Zenon, SizeAssumption
    <2>2. blk[s] \in 0 .. (2 * NChips - 1) /\ idx[s] \in 0 .. NCLIENTS
      BY Zenon DEF TypeOK, PosTypeOK, Blk
    <2>3. idx[s] = WordOf(c)
      BY Zenon, <1>3, PositionType DEF WordOf
    <2>4. /\ LineOf(c) \div 2 = blk[s] \div 2
          /\ (LineOf(c) % 2) * NCLIENTS + idx[s] = (blk[s] % 2) * NCLIENTS + idx[s]
      BY Zenon, <1>3, <2>3, SlotTypes DEF ChipAt, SlotAt
    <2>5. LineOf(c) \in 0 .. (2 * NChips - 1)
      BY Zenon, SlotTypes DEF Blk
    <2>6. blk[s] % 2 \in {0, 1} /\ LineOf(c) % 2 \in {0, 1}
      BY <2>1, <2>2, <2>5
    <2>7. LineOf(c) % 2 = blk[s] % 2
      BY <2>1, <2>2, <2>4, <2>6
    <2> QED
      BY <2>1, <2>2, <2>3, <2>4, <2>5, <2>7
  <1> QED
    BY Zenon, <1>1, <1>2, <1>3

\* The state launch_servers and ffwd_thread_create leave is well typed.
LEMMA InitType == Init => TypeOK
  <1> SUFFICES ASSUME Init PROVE TypeOK
    BY Zenon
  <1> USE SizeAssumption, DataAssumption
  <1>1. AnyOp \in Ops
    BY Zenon DEF AnyOp
  <1>2. Fns # {} /\ Vars # {}
    BY Zenon DEF Ops
  <1>3. AnyFn \in Fns /\ AnyVar \in Vars
    BY Zenon, <1>2 DEF AnyFn, AnyVar
  <1>4. 0 \in Blk /\ 0 \in 0 .. NCLIENTS /\ 0 \in 0 .. MaxOps
    BY DEF Blk
  <1>5. MainTypeOK
    BY Zenon DEF Init, MainTypeOK
  <1>6. ClientTypeOK
    BY Zenon, <1>1 DEF Init, ClientTypeOK
  <1>7. RequestTypeOK
    BY Zenon, <1>3 DEF Init, RequestTypeOK
  <1>8. PosTypeOK
    BY Zenon, <1>4 DEF Init, PosTypeOK
  <1>9. FlagTypeOK
    BY Zenon DEF Init, FlagTypeOK
  <1>10. CallTypeOK
    BY Zenon, <1>3 DEF Init, CallTypeOK
  <1>11. ResponseTypeOK /\ BufferTypeOK /\ MemTypeOK
    BY Zenon DEF Init, ResponseTypeOK, BufferTypeOK, MemTypeOK
  <1> QED
    BY <1>5, <1>6, <1>7, <1>8, <1>9, <1>10, <1>11, Zenon DEF TypeOK

\* Updating a word of a line leaves an array of lines.
LEMMA UpdateType ==
  ASSUME NEW A, NEW B, NEW D, NEW f \in [A -> [B -> D]],
         NEW a \in A, NEW b \in B, NEW e \in D
  PROVE  [f EXCEPT ![a][b] = e] \in [A -> [B -> D]]
  BY Zenon

\* Updating one word of one line of one server leaves an array of lines.
LEMMA UpdateWordType ==
  ASSUME NEW A, NEW B, NEW C, NEW D, NEW f \in [A -> [B -> [C -> D]]],
         NEW a \in A, NEW b \in B, NEW c \in C, NEW e \in D
  PROVE  [f EXCEPT ![a][b][c] = e] \in [A -> [B -> [C -> D]]]
  <1>1. f[a] \in [B -> [C -> D]]
    BY Zenon
  <1>2. [f[a] EXCEPT ![b][c] = e] \in [B -> [C -> D]]
    BY Zenon, <1>1, UpdateType
  <1>3. [f EXCEPT ![a][b][c] = e] = [f EXCEPT ![a] = [f[a] EXCEPT ![b][c] = e]]
    BY Zenon
  <1> QED
    BY Zenon, <1>2, <1>3

-----------------------------------------------------------------------------
\* A step keeps the types of the variables it leaves alone.
LEMMA TypeFrame ==
  /\ MainTypeOK /\ UNCHANGED mainVars => MainTypeOK'
  /\ ClientTypeOK /\ UNCHANGED clientVars => ClientTypeOK'
  /\ RequestTypeOK /\ UNCHANGED requestVars => RequestTypeOK'
  /\ PosTypeOK /\ UNCHANGED posVars => PosTypeOK'
  /\ FlagTypeOK /\ UNCHANGED flagVars => FlagTypeOK'
  /\ CallTypeOK /\ UNCHANGED callVars => CallTypeOK'
  /\ ResponseTypeOK /\ UNCHANGED responseVars => ResponseTypeOK'
  /\ BufferTypeOK /\ UNCHANGED local_return_values => BufferTypeOK'
  /\ MemTypeOK /\ UNCHANGED mem => MemTypeOK'
  <1>1. MainTypeOK /\ UNCHANGED mainVars => MainTypeOK'
    BY Zenon DEF MainTypeOK, mainVars
  <1>2. ClientTypeOK /\ UNCHANGED clientVars => ClientTypeOK'
    BY Zenon DEF ClientTypeOK, clientVars
  <1>3. RequestTypeOK /\ UNCHANGED requestVars => RequestTypeOK'
    BY Zenon DEF RequestTypeOK, requestVars
  <1>4. PosTypeOK /\ UNCHANGED posVars => PosTypeOK'
    BY Zenon DEF PosTypeOK, posVars
  <1>5. FlagTypeOK /\ UNCHANGED flagVars => FlagTypeOK'
    BY Zenon DEF FlagTypeOK, flagVars
  <1>6. CallTypeOK /\ UNCHANGED callVars => CallTypeOK'
    BY Zenon DEF CallTypeOK, callVars
  <1>7. ResponseTypeOK /\ UNCHANGED responseVars => ResponseTypeOK'
    BY Zenon DEF ResponseTypeOK, responseVars
  <1>8. BufferTypeOK /\ UNCHANGED local_return_values => BufferTypeOK'
    BY Zenon DEF BufferTypeOK
  <1>9. MemTypeOK /\ UNCHANGED mem => MemTypeOK'
    BY Zenon DEF MemTypeOK
  <1> QED
    BY Zenon, <1>1, <1>2, <1>3, <1>4, <1>5, <1>6, <1>7, <1>8, <1>9

\* The steps of a client keep the types.
LEMMA ClientTypeStep ==
  ASSUME TypeOK, NEW c \in Clients, ClientStep(c)
  PROVE  TypeOK'
  <1>0. /\ ChipOf[c] \in Chip
        /\ IdOf[c] \in Ids
        /\ Server(c) \in Servers
        /\ op[c].fn \in Fns
        /\ op[c].var \in Vars
    BY Zenon, SlotAssumption, DataAssumption DEF TypeOK, ClientTypeOK, Server, Ops
  <1>1. CASE WriteFptr(c)
    <2>1. PICK o \in Ops :
            /\ op' = [op EXCEPT ![c] = o]
            /\ fptr' = [fptr EXCEPT ![ServerOf[o.var]][ChipOf[c]][IdOf[c]] = o.fn]
      BY Zenon, <1>1 DEF WriteFptr
    <2>2. ServerOf[o.var] \in Servers /\ o.fn \in Fns
      BY Zenon, DataAssumption DEF Ops
    <2>3. fptr \in [Servers -> [Chip -> [Ids -> Fns]]]
      BY Zenon DEF TypeOK, RequestTypeOK
    <2> DEFINE to == ServerOf[o.var]
               fn == o.fn
    <2>4. fptr' = [fptr EXCEPT ![to][ChipOf[c]][IdOf[c]] = fn]
      BY Zenon, <2>1
    <2>5. to \in Servers /\ fn \in Fns /\ ChipOf[c] \in Chip /\ IdOf[c] \in Ids
      BY Zenon, <1>0, <2>2
    <2> HIDE DEF to, fn
    <2>6. fptr' \in [Servers -> [Chip -> [Ids -> Fns]]]
      <3>1. [fptr EXCEPT ![to][ChipOf[c]][IdOf[c]] = fn] \in [Servers -> [Chip -> [Ids -> Fns]]]
        BY <2>3, <2>5, UpdateWordType
      <3> QED BY Zenon, <2>4, <3>1
    <2>7. RequestTypeOK'
      BY Zenon, <1>1, <2>6 DEF WriteFptr, TypeOK, RequestTypeOK
    <2>8. ClientTypeOK'
      BY Zenon, <1>1, <2>1 DEF WriteFptr, TypeOK, ClientTypeOK
    <2> QED
      BY Zenon, <1>1, <2>7, <2>8, TypeFrame DEF WriteFptr, TypeOK
  <1>2. CASE PrepareRequest(c)
    <2>1. argv \in [Servers -> [Chip -> [Ids -> Vars]]]
      BY Zenon DEF TypeOK, RequestTypeOK
    <2>2. argv' = [argv EXCEPT ![Server(c)][ChipOf[c]][IdOf[c]] = op[c].var]
      BY Zenon, <1>2 DEF PrepareRequest
    <2>3. argv' \in [Servers -> [Chip -> [Ids -> Vars]]]
      BY SMTT(60), <1>0, <2>1, <2>2, UpdateWordType
    <2>4. RequestTypeOK'
      BY Zenon, <1>2, <2>3 DEF PrepareRequest, TypeOK, RequestTypeOK
    <2>5. ClientTypeOK'
      BY Zenon, <1>2 DEF PrepareRequest, TypeOK, ClientTypeOK
    <2> QED
      BY Zenon, <1>2, <2>4, <2>5, TypeFrame DEF PrepareRequest, TypeOK
  <1>3. CASE RaiseFlag(c)
    <2> DEFINE word == Xor(local_client_flag[c][Server(c)], mask(c))
    <2>1. word \in SUBSET Ids
      BY Zenon, <1>0 DEF TypeOK, ClientTypeOK, Xor, mask
    <2>2. /\ flag \in [Servers -> [Chip -> [Ids -> SUBSET Ids]]]
          /\ local_client_flag \in [Clients -> [Servers -> SUBSET Ids]]
      BY Zenon DEF TypeOK, RequestTypeOK, ClientTypeOK
    <2>3. /\ flag' = [flag EXCEPT ![Server(c)][ChipOf[c]][IdOf[c]] = word]
          /\ local_client_flag' = [local_client_flag EXCEPT ![c][Server(c)] = word]
      BY Zenon, <1>3 DEF RaiseFlag
    <2> HIDE DEF word
    <2>4. flag' \in [Servers -> [Chip -> [Ids -> SUBSET Ids]]]
      BY <1>0, <2>1, <2>2, <2>3, UpdateWordType
    <2>5. local_client_flag' \in [Clients -> [Servers -> SUBSET Ids]]
      BY ZenonT(60), <1>0, <2>1, <2>2, <2>3, UpdateType
    <2>6. RequestTypeOK'
      BY Zenon, <1>3, <2>4 DEF RaiseFlag, TypeOK, RequestTypeOK
    <2>7. ClientTypeOK'
      BY Zenon, <1>3, <2>5 DEF RaiseFlag, TypeOK, ClientTypeOK
    <2> QED
      BY Zenon, <1>3, <2>6, <2>7, TypeFrame DEF RaiseFlag, TypeOK
  <1>4. CASE SpinDone(c)
    <2>1. ClientTypeOK'
      BY Zenon, <1>4 DEF SpinDone, TypeOK, ClientTypeOK
    <2> QED
      BY Zenon, <1>4, <2>1, TypeFrame DEF SpinDone, TypeOK
  <1>5. CASE ReadReturn(c)
    <2>1. return_values[Server(c)][LineOf(c)][WordOf(c)] \in Vals
      BY <1>0, SlotTypes DEF TypeOK, ResponseTypeOK
    <2>2. ClientTypeOK'
      BY <1>5, <2>1 DEF ReadReturn, TypeOK, ClientTypeOK
    <2> QED
      BY Zenon, <1>5, <2>2, TypeFrame DEF ReadReturn, TypeOK
  <1>6. CASE ClientExit(c)
    <2>1. ClientTypeOK'
      BY Zenon, <1>6 DEF ClientExit, TypeOK, ClientTypeOK
    <2> QED
      BY Zenon, <1>6, <2>1, TypeFrame DEF ClientExit, TypeOK
  <1> QED
    BY Zenon, <1>1, <1>2, <1>3, <1>4, <1>5, <1>6 DEF ClientStep

\* Going to the next half keeps the position of a server within its arrays.
LEMMA NextHalfType ==
  ASSUME PosTypeOK, NEW s \in Servers, NextHalf(s)
  PROVE  PosTypeOK'
  <1>1. /\ idx \in [Servers -> 0 .. NCLIENTS] /\ NCLIENTS \in Nat
        /\ blk \in [Servers -> 0 .. (2 * NChips - 1)] /\ NChips \in Nat \ {0}
    BY Zenon, SizeAssumption DEF PosTypeOK, Blk
  <1>2. spc' \in [Servers -> {"loop", "poll", "load", "call", "work", "copy", "exited"}]
    BY Zenon DEF NextHalf, PosTypeOK
  <1>3. blk' \in [Servers -> Blk]
    BY <1>1 DEF NextHalf, Blk
  <1>4. idx' \in [Servers -> 0 .. NCLIENTS]
    BY <1>1 DEF NextHalf
  <1> QED
    BY Zenon, <1>2, <1>3, <1>4 DEF PosTypeOK

\* The steps of a server keep the types: a server neither reads nor writes
\* outside the lines launch_servers allocates.
LEMMA ServerTypeStep ==
  ASSUME TypeOK, CallPosition, NEW s \in Servers, ServerStep(s)
  PROVE  TypeOK'
  <1>0. /\ ChipAt(s) \in Chip
        /\ idx[s] < NCLIENTS =>
             SlotAt(s) \in Ids /\ SlotAt(s) % NCLIENTS = idx[s] /\ idx[s] \in Words
    BY Zenon, PositionType
  <1>a. /\ idx \in [Servers -> 0 .. NCLIENTS] /\ NCLIENTS \in Nat
        /\ idx[s] \in 0 .. NCLIENTS /\ blk[s] \in Blk
    BY Zenon, SizeAssumption DEF TypeOK, PosTypeOK
  <1>1. CASE ServerPass(s) \/ ServerExit(s)
    <2>1. PosTypeOK'
      BY Zenon, <1>1 DEF ServerPass, ServerExit, TypeOK, PosTypeOK
    <2> QED
      BY Zenon, <1>1, <2>1, TypeFrame DEF ServerPass, ServerExit, TypeOK
  <1>3. CASE PollMiss(s)
    <2>1. idx' \in [Servers -> 0 .. NCLIENTS]
      BY <1>3, <1>a DEF PollMiss
    <2>2. PosTypeOK'
      BY Zenon, <1>3, <2>1 DEF PollMiss, TypeOK, PosTypeOK
    <2> QED
      BY Zenon, <1>3, <2>2, TypeFrame DEF PollMiss, TypeOK
  <1>4. CASE PollHit(s)
    <2>1. PosTypeOK'
      BY Zenon, <1>4 DEF PollHit, TypeOK, PosTypeOK
    <2> QED
      BY Zenon, <1>4, <2>1, TypeFrame DEF PollHit, TypeOK
  <1>5. CASE LoadArgs(s)
    <2>1. idx[s] < NCLIENTS
      BY Zenon, <1>5 DEF LoadArgs, CallPosition
    <2>2. argv[s][ChipAt(s)][SlotAt(s)] \in Vars
      BY <1>0, <2>1 DEF TypeOK, RequestTypeOK
    <2>3. CallTypeOK'
      BY Zenon, <1>5, <2>2 DEF LoadArgs, TypeOK, CallTypeOK
    <2>4. PosTypeOK'
      BY Zenon, <1>5 DEF LoadArgs, TypeOK, PosTypeOK
    <2> QED
      BY Zenon, <1>5, <2>3, <2>4, TypeFrame DEF LoadArgs, TypeOK
  <1>6. CASE CallFptr(s)
    <2>1. idx[s] < NCLIENTS
      BY Zenon, <1>6 DEF CallFptr, CallPosition
    <2>2. fptr[s][ChipAt(s)][SlotAt(s)] \in Fns
      BY <1>0, <2>1 DEF TypeOK, RequestTypeOK
    <2>3. mem[arg[s]] \in Vals
      BY Zenon DEF TypeOK, CallTypeOK, MemTypeOK
    <2>4. CallTypeOK'
      BY Zenon, <1>6, <2>2, <2>3 DEF CallFptr, TypeOK, CallTypeOK
    <2>5. PosTypeOK'
      BY Zenon, <1>6 DEF CallFptr, TypeOK, PosTypeOK
    <2> QED
      BY Zenon, <1>6, <2>4, <2>5, TypeFrame DEF CallFptr, TypeOK
  <1>7. CASE FinishCall(s)
    <2> DEFINE out == Apply(fun[s], tmp[s])
               word == Xor(socket_client_flags[s][ChipAt(s)], {SlotAt(s)})
    <2>1. idx[s] < NCLIENTS
      BY Zenon, <1>7 DEF FinishCall, CallPosition
    <2>2. out.val \in Vals /\ out.ret \in Vals
      BY Zenon, DataAssumption DEF TypeOK, CallTypeOK
    <2>3. word \in SUBSET Ids
      BY Zenon, <1>0, <2>1 DEF TypeOK, FlagTypeOK, Xor
    <2>4. /\ mem' = [mem EXCEPT ![arg[s]] = out.val]
          /\ local_return_values' =
               [local_return_values EXCEPT ![s][blk[s]][idx[s]] = out.ret]
          /\ socket_client_flags' = [socket_client_flags EXCEPT ![s][ChipAt(s)] = word]
          /\ idx' = [idx EXCEPT ![s] = @ + 1]
      BY Zenon, <1>7, <1>0, <2>1 DEF FinishCall
    <2> DEFINE val == out.val
               rv == out.ret
    <2>5. /\ mem' = [mem EXCEPT ![arg[s]] = val]
          /\ local_return_values' =
               [local_return_values EXCEPT ![s][blk[s]][idx[s]] = rv]
          /\ val \in Vals /\ rv \in Vals
      BY ZenonT(60), <2>2, <2>4
    <2> HIDE DEF out, word, val, rv
    <2>6. BufferTypeOK'
      BY <1>0, <1>a, <2>1, <2>5, UpdateWordType DEF TypeOK, BufferTypeOK
    <2>7. FlagTypeOK'
      <3>1. socket_client_flags' \in [Servers -> [Chip -> SUBSET Ids]]
        BY Zenon, <1>0, <2>3, <2>4, UpdateType DEF TypeOK, FlagTypeOK
      <3> QED
        BY Zenon, <1>7, <3>1 DEF FinishCall, TypeOK, FlagTypeOK
    <2>8. MemTypeOK'
      BY Zenon, <2>5 DEF TypeOK, MemTypeOK
    <2>9. PosTypeOK'
      <3>1. idx' \in [Servers -> 0 .. NCLIENTS]
        BY <1>a, <2>1, <2>4
      <3> QED
        BY Zenon, <1>7, <3>1 DEF FinishCall, TypeOK, PosTypeOK
    <2> QED
      BY Zenon, <1>7, <2>6, <2>7, <2>8, <2>9, TypeFrame DEF FinishCall, TypeOK
  <1>8. CASE NothingNew(s)
    <2>1. PosTypeOK'
      BY Zenon, <1>8, NextHalfType DEF NothingNew, TypeOK
    <2> QED
      BY Zenon, <1>8, <2>1, TypeFrame DEF NothingNew, TypeOK
  <1>9. CASE StartCopy(s)
    <2>1. idx' \in [Servers -> 0 .. NCLIENTS]
      BY <1>9, <1>a DEF StartCopy
    <2>2. PosTypeOK'
      BY Zenon, <1>9, <2>1 DEF StartCopy, TypeOK, PosTypeOK
    <2> QED
      BY Zenon, <1>9, <2>2, TypeFrame DEF StartCopy, TypeOK
  <1>10. CASE CopyValue(s)
    <2>1. idx' \in [Servers -> 0 .. NCLIENTS]
      BY <1>10, <1>a DEF CopyValue
    <2>2. PosTypeOK'
      BY Zenon, <1>10, <2>1 DEF CopyValue, TypeOK, PosTypeOK
    <2>3. local_return_values[s][blk[s]][idx[s]] \in Vals /\ idx[s] \in Words
      BY <1>0, <1>a, <1>10 DEF CopyValue, TypeOK, BufferTypeOK
    <2>4. return_values' = [return_values EXCEPT ![s][blk[s]][idx[s]] =
                              local_return_values[s][blk[s]][idx[s]]]
      BY ZenonT(60), <1>10 DEF CopyValue
    <2>5. return_values' \in [Servers -> [Blk -> [Words -> Vals]]]
      BY SMTT(60), <1>a, <2>3, <2>4, UpdateWordType DEF TypeOK, ResponseTypeOK
    <2>6. ResponseTypeOK'
      BY Zenon, <1>10, <2>5 DEF CopyValue, TypeOK, ResponseTypeOK
    <2> QED
      BY Zenon, <1>10, <2>2, <2>6, TypeFrame DEF CopyValue, TypeOK
  <1>11. CASE CopyFlags(s)
    <2>1. socket_client_flags[s][ChipAt(s)] \in SUBSET Ids
      BY Zenon, <1>0 DEF TypeOK, FlagTypeOK
    <2>2. flags' \in [Servers -> [Blk -> SUBSET Ids]]
      BY Zenon, <1>11, <1>a, <2>1, UpdateType DEF CopyFlags, TypeOK, ResponseTypeOK
    <2>3. old_client_flags' \in [Servers -> [Chip -> SUBSET Ids]]
      BY Zenon, <1>0, <1>11, <2>1, UpdateType DEF CopyFlags, TypeOK, FlagTypeOK
    <2>4. ResponseTypeOK'
      BY Zenon, <1>11, <2>2 DEF CopyFlags, TypeOK, ResponseTypeOK
    <2>5. FlagTypeOK'
      BY Zenon, <1>11, <2>3 DEF CopyFlags, TypeOK, FlagTypeOK
    <2>6. PosTypeOK'
      BY Zenon, <1>11, NextHalfType DEF CopyFlags, TypeOK
    <2> QED
      BY Zenon, <1>11, <2>4, <2>5, <2>6, TypeFrame DEF CopyFlags, TypeOK
  <1> QED
    BY Zenon, <1>1, <1>3, <1>4, <1>5, <1>6, <1>7, <1>8, <1>9, <1>10, <1>11 DEF ServerStep

\* Every step of every thread keeps the types.
LEMMA TypeStep == TypeOK /\ CallPosition /\ [Next]_vars => TypeOK'
  <1> SUFFICES ASSUME TypeOK, CallPosition, [Next]_vars PROVE TypeOK'
    BY Zenon
  <1>1. CASE UNCHANGED vars
    BY Zenon, <1>1, TypeFrame DEF TypeOK, vars
  <1>2. CASE MainStep
    <2>1. MainTypeOK'
      BY Zenon, <1>2 DEF MainStep, SetStop, JoinClients, Shutdown, JoinServers, TypeOK, MainTypeOK
    <2> QED
      BY Zenon, <1>2, <2>1, TypeFrame DEF MainStep, SetStop, JoinClients, Shutdown, JoinServers, TypeOK
  <1> QED
    BY Zenon, <1>1, <1>2, ClientTypeStep, ServerTypeStep DEF Next, Terminated
-----------------------------------------------------------------------------
\* The state launch_servers leaves satisfies the invariant.
LEMMA InitInv == Init => ChannelInv
  <1> SUFFICES ASSUME Init PROVE ChannelInv
    BY Zenon
  <1>1. TypeOK
    BY Zenon, InitType
  <1>2. \A c \in Clients : /\ LineOf(c) \in Blk /\ WordOf(c) \in Words
                           /\ ChipOf[c] \in Chip /\ IdOf[c] \in Ids
    BY Zenon, SlotTypes
  <1>3. Handshake
    BY ZenonT(60), <1>2 DEF Init, Handshake, Agree, LocalBit, ReqBit, SockBit, OldBit, RespBit
  <1>4. Published
    BY Zenon, <1>2 DEF Init, Published
  <1>5. Vacant
    BY Zenon DEF Init, Vacant
  <1> QED
    BY Zenon, <1>1, <1>3, <1>4, <1>5 DEF Init, ChannelInv, CallPosition, RequestWritten,
                                  Written, CallInProgress, Copied, Ending
\* How a step of one client reads: the other clients, and all that the
\* servers own, are as before.
LEMMA ClientFrame ==
  ASSUME UNCHANGED <<spc, blk, idx, old_client_flags, socket_client_flags,
                     local_return_values, return_values, flags>>
  PROVE  /\ CallPosition => CallPosition'
         /\ Copied => Copied'
         /\ Published => Published'
         /\ \A d \in Clients, s \in Servers :
              /\ SockBit(d, s)' = SockBit(d, s)
              /\ OldBit(d, s)' = OldBit(d, s)
              /\ RespBit(d, s)' = RespBit(d, s)
              /\ Passed(s, d)' = Passed(s, d)
              /\ Serving(s, d)' = Serving(s, d)
  BY SMTT(60) DEF CallPosition, Copied, Published, SockBit, OldBit, RespBit, Passed,
         Serving, ChipAt, SlotAt, LineOf, WordOf

\* The server a client delegates to is one of the servers.
LEMMA ServerType ==
  ASSUME TypeOK, NEW c \in Clients
  PROVE  Server(c) \in Servers /\ op[c].fn \in Fns /\ op[c].var \in Vars
  BY Zenon, DataAssumption DEF TypeOK, ClientTypeOK, Server, Ops

\* The first store of FFWD_EXEC, of the function pointer, preserves the
\* invariant: the client's flag is not raised, so no server looks at it.
LEMMA WriteFptrInv ==
  ASSUME ChannelInv, TypeOK', NEW c \in Clients, WriteFptr(c)
  PROVE  ChannelInv'
  <1>0. /\ TypeOK /\ CallPosition /\ Handshake /\ Vacant /\ RequestWritten
        /\ CallInProgress /\ Copied /\ Published /\ Ending
    BY Zenon DEF ChannelInv
  <1>1. PICK o \in Ops :
          /\ op' = [op EXCEPT ![c] = o]
          /\ fptr' = [fptr EXCEPT ![ServerOf[o.var]][ChipOf[c]][IdOf[c]] = o.fn]
    BY Zenon DEF WriteFptr
  <1>2. /\ cpc[c] = "idle" /\ ~ stop
        /\ cpc' = [cpc EXCEPT ![c] = "args"]
        /\ UNCHANGED <<mpc, stop, finished, local_client_flag, argv, flag, spc, blk, idx,
                       old_client_flags, socket_client_flags, local_return_values,
                       arg, fun, tmp, return_values, flags, mem>>
    BY Zenon DEF WriteFptr, mainVars, posVars, flagVars, callVars, responseVars
  <1>3. \A d \in Clients : d # c => cpc'[d] = cpc[d] /\ op'[d] = op[d] /\ Server(d)' = Server(d)
    BY Zenon, <1>0, <1>1, <1>2 DEF TypeOK, ClientTypeOK, Server
  <1>4. cpc'[c] = "args" /\ op'[c] = o /\ Server(c)' = ServerOf[o.var]
    BY Zenon, <1>0, <1>1, <1>2 DEF TypeOK, ClientTypeOK, Server
  <1>5. Handshake'
    <2> SUFFICES ASSUME NEW d \in Clients, NEW s \in Servers PROVE Agree(d, s)'
      BY Zenon DEF Handshake
    <2>1. LocalBit(d, s)' = LocalBit(d, s) /\ ReqBit(d, s)' = ReqBit(d, s)
      BY Zenon, <1>2 DEF LocalBit, ReqBit
    <2>2. ~ Waiting(c, s)
      BY Zenon, <1>2 DEF Waiting
    <2> QED
      BY <1>0, <1>2, <1>3, <1>4, <2>1, <2>2, ClientFrame DEF Handshake, Agree, Waiting
  <1>6. Vacant'
    BY Zenon, <1>0, <1>2 DEF Vacant
  <1>7. RequestWritten'
    <2> SUFFICES ASSUME NEW d \in Clients PROVE Written(d)'
      BY Zenon DEF RequestWritten
    <2> DEFINE to == ServerOf[o.var]
               fn == o.fn
    <2>1. /\ fptr' = [fptr EXCEPT ![to][ChipOf[c]][IdOf[c]] = fn]
          /\ fptr \in [Servers -> [Chip -> [Ids -> Fns]]]
          /\ to \in Servers /\ Server(d) \in Servers
          /\ ChipOf[d] \in Chip /\ IdOf[d] \in Ids /\ ChipOf[c] \in Chip /\ IdOf[c] \in Ids
      BY Zenon, <1>0, <1>1, SlotAssumption, DataAssumption DEF TypeOK, ClientTypeOK, RequestTypeOK, Server, Ops
    <2>2. CASE d = c
      <3> HIDE DEF to, fn
      <3>1. fptr'[to][ChipOf[c]][IdOf[c]] = fn
        BY Zenon, <2>1
      <3> QED
        BY Zenon, <1>4, <2>2, <3>1 DEF to, fn, Written
    <2>3. CASE d # c
      <3> HIDE DEF to, fn
      <3>1. ChipOf[d] # ChipOf[c] \/ IdOf[d] # IdOf[c]
        BY Zenon, <2>3, SlotAssumption
      <3>2. fptr'[Server(d)][ChipOf[d]][IdOf[d]] = fptr[Server(d)][ChipOf[d]][IdOf[d]]
        BY SMTT(60), <2>1, <3>1
      <3> QED
        BY ZenonT(60), <1>0, <1>2, <1>3, <2>3, <3>2 DEF RequestWritten, Written
    <2> QED
      BY Zenon, <2>2, <2>3
  <1>8. CallInProgress'
    <2> SUFFICES ASSUME NEW s \in Servers, spc[s] \in {"load", "call", "work"}
                 PROVE  \E d \in Clients : CallFor(s, d)'
      BY Zenon, <1>2 DEF CallInProgress
    <2>1. PICK d \in Clients : CallFor(s, d)
      BY Zenon, <1>0 DEF CallInProgress
    <2>2. d # c
      BY <1>2, <2>1 DEF CallFor
    <2>3. cpc'[d] = cpc[d] /\ op'[d] = op[d] /\ Server(d)' = Server(d)
      BY Zenon, <1>3, <2>2
    <2>4. Serving(s, d)' = Serving(s, d) /\ SockBit(d, s)' = SockBit(d, s) /\ LocalBit(d, s)' = LocalBit(d, s)
      BY Zenon, <1>2, ClientFrame DEF LocalBit
    <2>5. spc' = spc /\ arg' = arg /\ fun' = fun /\ tmp' = tmp /\ mem' = mem
      BY Zenon, <1>2
    <2> QED
      BY Zenon, <2>1, <2>3, <2>4, <2>5 DEF CallFor
  <1>9. Copied' /\ CallPosition' /\ Published'
    BY Zenon, <1>0, <1>2, ClientFrame
  <1>10. Ending'
    BY Zenon, <1>0, <1>2 DEF Ending
  <1> QED
    BY Zenon, <1>5, <1>6, <1>7, <1>8, <1>9, <1>10 DEF ChannelInv

\* The stores of the arguments preserve the invariant, for the same reason.
LEMMA PrepareRequestInv ==
  ASSUME ChannelInv, TypeOK', NEW c \in Clients, PrepareRequest(c)
  PROVE  ChannelInv'
  <1>0. /\ TypeOK /\ CallPosition /\ Handshake /\ Vacant /\ RequestWritten
        /\ CallInProgress /\ Copied /\ Published /\ Ending
    BY Zenon DEF ChannelInv
  <1>1. /\ cpc[c] = "args"
        /\ cpc' = [cpc EXCEPT ![c] = "raise"]
        /\ argv' = [argv EXCEPT ![Server(c)][ChipOf[c]][IdOf[c]] = op[c].var]
        /\ UNCHANGED <<mpc, stop, finished, op, local_client_flag, fptr, flag, spc, blk, idx,
                       old_client_flags, socket_client_flags, local_return_values,
                       arg, fun, tmp, return_values, flags, mem>>
    BY Zenon DEF PrepareRequest, mainVars, posVars, flagVars, callVars, responseVars
  <1>2. \A d \in Clients : Server(d)' = Server(d) /\ (d # c => cpc'[d] = cpc[d])
    BY Zenon, <1>0, <1>1 DEF TypeOK, ClientTypeOK, Server
  <1>3. cpc'[c] = "raise"
    BY Zenon, <1>0, <1>1 DEF TypeOK, ClientTypeOK
  <1>4. Handshake'
    <2> SUFFICES ASSUME NEW d \in Clients, NEW s \in Servers PROVE Agree(d, s)'
      BY Zenon DEF Handshake
    <2>1. LocalBit(d, s)' = LocalBit(d, s) /\ ReqBit(d, s)' = ReqBit(d, s)
      BY Zenon, <1>1 DEF LocalBit, ReqBit
    <2> QED
      BY <1>0, <1>1, <1>2, <1>3, <2>1, ClientFrame DEF Handshake, Agree, Waiting
  <1>5. Vacant'
    BY Zenon, <1>0, <1>1 DEF Vacant
  <1>6. RequestWritten'
    <2> SUFFICES ASSUME NEW d \in Clients PROVE Written(d)'
      BY Zenon DEF RequestWritten
    <2> DEFINE to == Server(c)
               v == op[c].var
    <2>1. /\ argv' = [argv EXCEPT ![to][ChipOf[c]][IdOf[c]] = v]
          /\ argv \in [Servers -> [Chip -> [Ids -> Vars]]]
          /\ to \in Servers /\ Server(d) \in Servers
          /\ ChipOf[d] \in Chip /\ IdOf[d] \in Ids /\ ChipOf[c] \in Chip /\ IdOf[c] \in Ids
      BY Zenon, <1>0, <1>1, SlotAssumption, ServerType DEF TypeOK, RequestTypeOK
    <2>2. CASE d = c
      <3> HIDE DEF to, v
      <3>1. argv'[to][ChipOf[c]][IdOf[c]] = v
        BY Zenon, <2>1
      <3> QED
        BY Zenon, <1>0, <1>1, <1>2, <1>3, <2>2, <3>1 DEF to, v, Written, RequestWritten
    <2>3. CASE d # c
      <3> HIDE DEF to, v
      <3>1. ChipOf[d] # ChipOf[c] \/ IdOf[d] # IdOf[c]
        BY Zenon, <2>3, SlotAssumption
      <3>2. argv'[Server(d)][ChipOf[d]][IdOf[d]] = argv[Server(d)][ChipOf[d]][IdOf[d]]
        BY SMTT(60), <2>1, <3>1
      <3> QED
        BY ZenonT(60), <1>0, <1>1, <1>2, <2>3, <3>2 DEF RequestWritten, Written
    <2> QED
      BY Zenon, <2>2, <2>3
  <1>7. CallInProgress'
    <2> SUFFICES ASSUME NEW s \in Servers, spc[s] \in {"load", "call", "work"}
                 PROVE  \E d \in Clients : CallFor(s, d)'
      BY Zenon, <1>1 DEF CallInProgress
    <2>1. PICK d \in Clients : CallFor(s, d)
      BY Zenon, <1>0 DEF CallInProgress
    <2>2. d # c
      BY <1>1, <2>1 DEF CallFor
    <2>3. cpc'[d] = cpc[d] /\ op'[d] = op[d] /\ Server(d)' = Server(d)
      BY Zenon, <1>1, <1>2, <2>2
    <2>4. Serving(s, d)' = Serving(s, d) /\ SockBit(d, s)' = SockBit(d, s) /\ LocalBit(d, s)' = LocalBit(d, s)
      BY Zenon, <1>1, ClientFrame DEF LocalBit
    <2>5. spc' = spc /\ arg' = arg /\ fun' = fun /\ tmp' = tmp /\ mem' = mem
      BY Zenon, <1>1
    <2> QED
      BY Zenon, <2>1, <2>3, <2>4, <2>5 DEF CallFor
  <1>8. Copied' /\ CallPosition' /\ Published'
    BY Zenon, <1>0, <1>1, ClientFrame
  <1>9. Ending'
    BY Zenon, <1>0, <1>1, <1>2 DEF Ending
  <1> QED
    BY Zenon, <1>4, <1>5, <1>6, <1>7, <1>8, <1>9 DEF ChannelInv

\* The toggle of the flag preserves the invariant: the request it publishes is
\* completely written.
LEMMA RaiseFlagInv ==
  ASSUME ChannelInv, TypeOK', NEW c \in Clients, RaiseFlag(c)
  PROVE  ChannelInv'
  <1>0. /\ TypeOK /\ CallPosition /\ Handshake /\ Vacant /\ RequestWritten
        /\ CallInProgress /\ Copied /\ Published /\ Ending
    BY Zenon DEF ChannelInv
  <1>a. PICK to \in Servers : to = Server(c)
    BY Zenon, <1>0, ServerType
  <1> DEFINE word == Xor(local_client_flag[c][to], mask(c))
  <1>1. /\ cpc[c] = "raise"
        /\ cpc' = [cpc EXCEPT ![c] = "spin"]
        /\ local_client_flag' = [local_client_flag EXCEPT ![c][to] = word]
        /\ flag' = [flag EXCEPT ![to][ChipOf[c]][IdOf[c]] = word]
        /\ UNCHANGED <<mpc, stop, finished, op, fptr, argv, spc, blk, idx,
                       old_client_flags, socket_client_flags, local_return_values,
                       arg, fun, tmp, return_values, flags, mem>>
    BY Zenon, <1>a DEF RaiseFlag, mainVars, posVars, flagVars, callVars, responseVars
  <1>2. \A d \in Clients : Server(d)' = Server(d) /\ (d # c => cpc'[d] = cpc[d])
    BY Zenon, <1>0, <1>1 DEF TypeOK, ClientTypeOK, Server
  <1>3. cpc'[c] = "spin"
    BY Zenon, <1>0, <1>1 DEF TypeOK, ClientTypeOK
  <1>4. IdOf[c] \in word <=> ~ LocalBit(c, to)
    BY Zenon DEF Xor, mask, LocalBit
  <1>5. /\ local_client_flag \in [Clients -> [Servers -> SUBSET Ids]]
        /\ flag \in [Servers -> [Chip -> [Ids -> SUBSET Ids]]]
        /\ \A d \in Clients : ChipOf[d] \in Chip /\ IdOf[d] \in Ids
    BY Zenon, <1>0, SlotAssumption DEF TypeOK, ClientTypeOK, RequestTypeOK
  <1> HIDE DEF word
  <1>6. \A d \in Clients, s \in Servers : d # c \/ s # to =>
          LocalBit(d, s)' = LocalBit(d, s) /\ ReqBit(d, s)' = ReqBit(d, s)
    <2> SUFFICES ASSUME NEW d \in Clients, NEW s \in Servers, d # c \/ s # to
                 PROVE  LocalBit(d, s)' = LocalBit(d, s) /\ ReqBit(d, s)' = ReqBit(d, s)
      BY Zenon
    <2>1. local_client_flag'[d][s] = local_client_flag[d][s]
      BY Zenon, <1>1, <1>5
    <2>2. s # to \/ ChipOf[d] # ChipOf[c] \/ IdOf[d] # IdOf[c]
      BY Zenon, SlotAssumption
    <2>3. flag'[s][ChipOf[d]][IdOf[d]] = flag[s][ChipOf[d]][IdOf[d]]
      BY ZenonT(60), <1>1, <1>5, <2>2
    <2> QED
      BY Zenon, <2>1, <2>3 DEF LocalBit, ReqBit
  <1>7. LocalBit(c, to)' = ~ LocalBit(c, to) /\ ReqBit(c, to)' = LocalBit(c, to)'
    <2>1. local_client_flag'[c][to] = word
      BY Zenon, <1>1, <1>5
    <2>2. flag'[to][ChipOf[c]][IdOf[c]] = word
      BY ZenonT(60), <1>1, <1>5
    <2>3. LocalBit(c, to)' = (IdOf[c] \in word) /\ ReqBit(c, to)' = (IdOf[c] \in word)
      BY Zenon, <2>1, <2>2 DEF LocalBit, ReqBit
    <2> QED
      BY <1>4, <2>3
  <1>8. Handshake'
    <2> SUFFICES ASSUME NEW d \in Clients, NEW s \in Servers PROVE Agree(d, s)'
      BY Zenon DEF Handshake
    <2>1. Agree(d, s)
      BY Zenon, <1>0 DEF Handshake
    <2>2. CASE d # c
      BY ZenonT(60), <1>1, <1>2, <1>6, <2>1, <2>2, ClientFrame DEF Agree, Waiting
    <2>3. CASE d = c /\ s # to
      BY <1>a, <1>1, <1>2, <1>3, <1>6, <2>1, <2>3, ClientFrame DEF Agree, Waiting
    <2>4. CASE d = c /\ s = to
      BY <1>a, <1>1, <1>2, <1>3, <1>7, <2>1, <2>4, ClientFrame DEF Agree, Waiting
    <2> QED
      BY Zenon, <2>2, <2>3, <2>4
  <1>9. Vacant'
    <2> SUFFICES ASSUME NEW s \in Servers, NEW h \in Chip, NEW i \in Ids,
                        \A d \in Clients : ChipOf[d] # h \/ IdOf[d] # i
                 PROVE  flag'[s][h][i] = flag[s][h][i]
      BY <1>0, <1>1 DEF Vacant
    <2>1. ChipOf[c] # h \/ IdOf[c] # i
      BY Zenon
    <2> QED
      BY ZenonT(60), <1>1, <1>5, <2>1
  <1>10. RequestWritten'
    BY ZenonT(60), <1>0, <1>1, <1>2, <1>3 DEF RequestWritten, Written
  <1>11. CallInProgress'
    <2> SUFFICES ASSUME NEW s \in Servers, spc[s] \in {"load", "call", "work"}
                 PROVE  \E d \in Clients : CallFor(s, d)'
      BY Zenon, <1>1 DEF CallInProgress
    <2>1. PICK d \in Clients : CallFor(s, d)
      BY Zenon, <1>0 DEF CallInProgress
    <2>2. d # c
      BY Zenon, <1>1, <2>1 DEF CallFor
    <2> QED
      BY <1>1, <1>2, <1>6, <2>1, <2>2, ClientFrame DEF CallFor
  <1>12. Copied' /\ CallPosition' /\ Published'
    BY Zenon, <1>0, <1>1, ClientFrame
  <1>13. Ending'
    BY Zenon, <1>0, <1>1, <1>2 DEF Ending
  <1> QED
    BY Zenon, <1>8, <1>9, <1>10, <1>11, <1>12, <1>13 DEF ChannelInv

\* The end of the spin loop, of the call and of the client.
LEMMA ClientRestInv ==
  ASSUME ChannelInv, TypeOK', NEW c \in Clients,
         SpinDone(c) \/ ReadReturn(c) \/ ClientExit(c)
  PROVE  ChannelInv'
  <1>0. /\ TypeOK /\ CallPosition /\ Handshake /\ Vacant /\ RequestWritten
        /\ CallInProgress /\ Copied /\ Published /\ Ending
    BY Zenon DEF ChannelInv
  <1>1. UNCHANGED <<mpc, stop, finished, op, local_client_flag, fptr, argv, flag, spc, blk, idx,
                    old_client_flags, socket_client_flags, local_return_values,
                    arg, fun, tmp, return_values, flags, mem>>
    BY Zenon DEF SpinDone, ReadReturn, ClientExit, mainVars, requestVars, posVars, flagVars,
           callVars, responseVars
  <1>2. \A d \in Clients : Server(d)' = Server(d) /\ (d # c => cpc'[d] = cpc[d])
    BY Zenon, <1>0, <1>1 DEF TypeOK, ClientTypeOK, Server, SpinDone, ReadReturn, ClientExit
  <1>3. \/ /\ cpc[c] = "spin" /\ cpc'[c] = "read"
           /\ IdOf[c] \notin Xor(flags[Server(c)][LineOf(c)], local_client_flag[c][Server(c)])
        \/ cpc[c] = "read" /\ cpc'[c] = "idle"
        \/ cpc[c] = "idle" /\ cpc'[c] = "exited"
    BY Zenon, <1>0 DEF TypeOK, ClientTypeOK, SpinDone, ReadReturn, ClientExit
  <1>4. \A d \in Clients, s \in Servers :
          LocalBit(d, s)' = LocalBit(d, s) /\ ReqBit(d, s)' = ReqBit(d, s)
    BY Zenon, <1>1 DEF LocalBit, ReqBit
  <1>5. Handshake'
    <2> SUFFICES ASSUME NEW d \in Clients, NEW s \in Servers PROVE Agree(d, s)'
      BY Zenon DEF Handshake
    <2>1. Agree(d, s)
      BY Zenon, <1>0 DEF Handshake
    <2>2. CASE d # c
      BY Zenon, <1>1, <1>2, <1>4, <2>1, <2>2, ClientFrame DEF Agree, Waiting
    <2>3. CASE d = c /\ cpc[c] = "spin" /\ Server(c) = s
      <3>1. IdOf[c] \notin Xor(flags[s][LineOf(c)], local_client_flag[c][s])
        BY Zenon, <1>3, <2>3
      <3>2. RespBit(c, s) = LocalBit(c, s)
        BY <3>1 DEF RespBit, LocalBit, Xor
      <3>3. SockBit(c, s) = LocalBit(c, s) /\ OldBit(c, s) = LocalBit(c, s)
        BY Zenon, <2>1, <2>3, <3>2 DEF Agree
      <3>4. cpc'[c] = "read" /\ Server(c)' = s
        BY Zenon, <1>2, <1>3, <2>3
      <3> QED
        BY ZenonT(60), <1>1, <1>4, <2>1, <2>3, <3>2, <3>3, <3>4, ClientFrame DEF Agree, Waiting
    <2>4. CASE d = c /\ ~(cpc[c] = "spin" /\ Server(c) = s)
      BY ZenonT(60), <1>1, <1>2, <1>3, <1>4, <2>1, <2>4, ClientFrame DEF Agree, Waiting
    <2> QED
      BY Zenon, <2>2, <2>3, <2>4
  <1>6. Vacant'
    BY Zenon, <1>0, <1>1 DEF Vacant
  <1>7. RequestWritten'
    BY Zenon, <1>0, <1>1, <1>2, <1>3 DEF RequestWritten, Written
  <1>8. CallInProgress'
    <2> SUFFICES ASSUME NEW s \in Servers, spc[s] \in {"load", "call", "work"}
                 PROVE  \E d \in Clients : CallFor(s, d)'
      BY Zenon, <1>1 DEF CallInProgress
    <2>1. PICK d \in Clients : CallFor(s, d)
      BY Zenon, <1>0 DEF CallInProgress
    <2>2. d # c
      <3> SUFFICES ASSUME d = c PROVE FALSE
        BY Zenon
      <3>1. cpc[c] = "spin" /\ Server(c) = s /\ SockBit(c, s) # LocalBit(c, s)
        BY Zenon, <2>1 DEF CallFor
      <3>2. IdOf[c] \notin Xor(flags[s][LineOf(c)], local_client_flag[c][s])
        BY Zenon, <1>3, <3>1
      <3>3. RespBit(c, s) = LocalBit(c, s)
        BY <3>2 DEF RespBit, LocalBit, Xor
      <3>4. Agree(c, s)
        BY Zenon, <1>0 DEF Handshake
      <3> QED
        BY Zenon, <3>1, <3>3, <3>4 DEF Agree
    <2> QED
      BY ZenonT(60), <1>1, <1>2, <1>4, <2>1, <2>2, ClientFrame DEF CallFor
  <1>9. Copied' /\ CallPosition' /\ Published'
    BY Zenon, <1>0, <1>1, ClientFrame
  <1>10. Ending'
    BY Zenon, <1>0, <1>1, <1>2, <1>3 DEF Ending
  <1> QED
    BY Zenon, <1>5, <1>6, <1>7, <1>8, <1>9, <1>10 DEF ChannelInv



\* How a step of one server reads: what the clients, the main thread and the
\* other servers own is as before.
LEMMA ServerFrame ==
  ASSUME UNCHANGED <<cpc, op, local_client_flag, fptr, argv, flag>>
  PROVE  /\ RequestWritten => RequestWritten'
         /\ \A d \in Clients : Server(d)' = Server(d)
         /\ \A d \in Clients, s \in Servers :
              /\ LocalBit(d, s)' = LocalBit(d, s)
              /\ ReqBit(d, s)' = ReqBit(d, s)
              /\ Waiting(d, s)' = Waiting(d, s)
  BY Zenon DEF RequestWritten, Written, Server, LocalBit, ReqBit, Waiting

\* The words are numbered from 0.
LEMMA NoWordBelow == ASSUME NEW w \in Words PROVE ~(w < 0)
  BY SizeAssumption DEF Words

\* The copies of a bit agree as before if none changes and the server has not passed
\* the slot back.
LEMMA AgreeFrame ==
  ASSUME NEW d \in Clients, NEW s \in Servers, Agree(d, s),
         OldBit(d, s)' = OldBit(d, s) /\ SockBit(d, s)' = SockBit(d, s) /\ RespBit(d, s)' = RespBit(d, s),
         LocalBit(d, s)' = LocalBit(d, s) /\ ReqBit(d, s)' = ReqBit(d, s),
         Waiting(d, s)' = Waiting(d, s) /\ cpc' = cpc,
         OldBit(d, s) # SockBit(d, s) => Passed(s, d)'
  PROVE  Agree(d, s)'
  BY ZenonT(60) DEF Agree

\* Nothing changes of the flags, the positions and the calls.
LEMMA SameHandshake ==
  ASSUME UNCHANGED <<cpc, op, local_client_flag, fptr, argv, flag, spc, blk, idx,
                     old_client_flags, socket_client_flags, local_return_values,
                     arg, fun, tmp, return_values, flags, mem>>,
         Handshake, CallInProgress
  PROVE  Handshake' /\ CallInProgress'
  <1>1. ASSUME NEW d \in Clients, NEW s \in Servers
        PROVE  /\ LocalBit(d, s)' = LocalBit(d, s) /\ ReqBit(d, s)' = ReqBit(d, s)
               /\ Waiting(d, s)' = Waiting(d, s) /\ Server(d)' = Server(d)
               /\ SockBit(d, s)' = SockBit(d, s) /\ OldBit(d, s)' = OldBit(d, s)
               /\ RespBit(d, s)' = RespBit(d, s) /\ Passed(s, d)' = Passed(s, d)
               /\ Serving(s, d)' = Serving(s, d)
    BY Zenon, ClientFrame, ServerFrame
  <1>2. ASSUME NEW d \in Clients, NEW s \in Servers PROVE Agree(d, s)'
    <2>1. Agree(d, s)
      BY Zenon DEF Handshake
    <2> QED BY ZenonT(60), <1>1, <2>1 DEF Agree
  <1>3. ASSUME NEW s \in Servers, spc'[s] \in {"load", "call", "work"}
        PROVE  \E d \in Clients : CallFor(s, d)'
    <2>1. PICK d \in Clients : CallFor(s, d)
      BY Zenon, <1>3 DEF CallInProgress
    <2> QED BY ZenonT(60), <1>1, <2>1 DEF CallFor
  <1> QED BY Zenon, <1>2, <1>3 DEF Handshake, CallInProgress

\* Only the position of server s changes.
LEMMA PositionFrame ==
  ASSUME ChannelInv, TypeOK', NEW s \in Servers,
         UNCHANGED <<mpc, stop, finished, cpc, op, local_client_flag, fptr, argv, flag,
                     old_client_flags, socket_client_flags, local_return_values,
                     return_values, flags, mem>>,
         \A r \in Servers : r # s =>
           /\ spc'[r] = spc[r] /\ blk'[r] = blk[r] /\ idx'[r] = idx[r]
           /\ arg'[r] = arg[r] /\ fun'[r] = fun[r] /\ tmp'[r] = tmp[r],
         spc'[s] \in {"load", "call", "work"} =>
           idx'[s] < NCLIENTS /\ \E c \in Clients : CallFor(s, c)',
         \A c \in Clients : OldBit(c, s) # SockBit(c, s) => Passed(s, c)',
         spc'[s] = "copy" => idx'[s] = 0,
         spc'[s] = "exited" => finished
  PROVE  ChannelInv'
  <1>0. /\ TypeOK /\ CallPosition /\ Handshake /\ Vacant /\ RequestWritten
        /\ CallInProgress /\ Copied /\ Published /\ Ending
    BY Zenon DEF ChannelInv
  <1>1. \A d \in Clients, r \in Servers :
          /\ OldBit(d, r)' = OldBit(d, r)
          /\ SockBit(d, r)' = SockBit(d, r)
          /\ RespBit(d, r)' = RespBit(d, r)
    BY Zenon DEF OldBit, SockBit, RespBit, LineOf
  <1>2. \A d \in Clients, r \in Servers : r # s =>
          Passed(r, d)' = Passed(r, d) /\ Serving(r, d)' = Serving(r, d)
    BY DEF Passed, Serving, ChipAt, SlotAt, LineOf, WordOf
  <1>3. CallPosition'
    BY ZenonT(60), <1>0 DEF CallPosition
  <1>4. Handshake'
    <2> SUFFICES ASSUME NEW d \in Clients, NEW r \in Servers PROVE Agree(d, r)'
      BY Zenon DEF Handshake
    <2>1. Agree(d, r)
      BY Zenon, <1>0 DEF Handshake
    <2>2. OldBit(d, r) # SockBit(d, r) => Passed(r, d)'
      BY Zenon, <1>2, <2>1 DEF Agree
    <2>3. /\ LocalBit(d, r)' = LocalBit(d, r) /\ ReqBit(d, r)' = ReqBit(d, r)
          /\ Waiting(d, r)' = Waiting(d, r) /\ cpc' = cpc
      BY Zenon, ServerFrame
    <2> QED
      BY Zenon, <1>1, <2>1, <2>2, <2>3, AgreeFrame
  <1>5. Vacant'
    BY ZenonT(60), <1>0 DEF Vacant
  <1>6. CallInProgress'
    <2> SUFFICES ASSUME NEW r \in Servers, r # s, spc'[r] \in {"load", "call", "work"}
                 PROVE  \E d \in Clients : CallFor(r, d)'
      BY Zenon DEF CallInProgress
    <2>1. PICK d \in Clients : CallFor(r, d)
      BY Zenon, <1>0 DEF CallInProgress
    <2>2. /\ SockBit(d, r)' = SockBit(d, r) /\ LocalBit(d, r)' = LocalBit(d, r)
          /\ Server(d)' = Server(d) /\ Serving(r, d)' = Serving(r, d)
      BY Zenon, <1>1, <1>2, ServerFrame
    <2>3. CallFor(r, d)'
      BY ZenonT(60), <2>1, <2>2 DEF CallFor
    <2> QED BY Zenon, <2>3
  <1>7. Copied'
    <2> SUFFICES ASSUME NEW r \in Servers, spc'[r] = "copy", NEW w \in Words, w < idx'[r]
                 PROVE  return_values[r][blk'[r]][w] = local_return_values[r][blk'[r]][w]
      BY ZenonT(60) DEF Copied
    <2>1. CASE r = s
      BY Zenon, <2>1, NoWordBelow
    <2>2. CASE r # s
      <3>1. spc[r] = "copy" /\ w < idx[r] /\ blk'[r] = blk[r]
        BY Zenon, <2>2
      <3>2. return_values[r][blk[r]][w] = local_return_values[r][blk[r]][w]
        BY Zenon, <1>0, <3>1 DEF Copied
      <3> QED BY Zenon, <3>1, <3>2
    <2> QED
      BY Zenon, <2>1, <2>2
  <1>8. Published'
    <2> SUFFICES ASSUME NEW d \in Clients, NEW r \in Servers, OldBit(d, r)' = SockBit(d, r)'
                 PROVE  return_values[r][LineOf(d)][WordOf(d)]
                          = local_return_values[r][LineOf(d)][WordOf(d)]
      BY ZenonT(60) DEF Published, LineOf, WordOf
    <2>1. OldBit(d, r) = SockBit(d, r)
      BY Zenon, <1>1
    <2> QED
      BY Zenon, <1>0, <2>1 DEF Published
  <1>9. Ending'
    BY Zenon, <1>0 DEF Ending
  <1> QED
    BY Zenon, <1>0, <1>3, <1>4, <1>5, <1>6, <1>7, <1>8, <1>9, ServerFrame DEF ChannelInv

\* The head of the server's loop preserves the invariant.
LEMMA LoopInv ==
  ASSUME ChannelInv, TypeOK', NEW s \in Servers, ServerPass(s) \/ ServerExit(s)
  PROVE  ChannelInv'
  <1>0. TypeOK /\ Handshake
    BY Zenon DEF ChannelInv
  <1>1. UNCHANGED <<mpc, stop, finished, cpc, op, local_client_flag, fptr, argv, flag,
                    old_client_flags, socket_client_flags, local_return_values,
                    return_values, flags, mem, blk, idx, arg, fun, tmp>>
    BY Zenon DEF ServerPass, ServerExit, mainVars, clientVars, requestVars, flagVars,
           callVars, responseVars
  <1>2. /\ \A r \in Servers : r # s => spc'[r] = spc[r]
        /\ spc[s] = "loop"
        /\ spc'[s] = "poll" \/ (spc'[s] = "exited" /\ finished)
    BY Zenon, <1>0 DEF TypeOK, PosTypeOK, ServerPass, ServerExit
  <1>3. \A c \in Clients : OldBit(c, s) = SockBit(c, s)
    BY Zenon, <1>0, <1>2 DEF Handshake, Agree, Passed
  <1> QED
    BY Zenon, <1>1, <1>2, <1>3, PositionFrame

\* Skipping a slot whose flag has not changed preserves the invariant.
LEMMA PollMissInv ==
  ASSUME ChannelInv, TypeOK', NEW s \in Servers, PollMiss(s)
  PROVE  ChannelInv'
  <1>0. TypeOK /\ Handshake
    BY Zenon DEF ChannelInv
  <1>1. UNCHANGED <<mpc, stop, finished, cpc, op, local_client_flag, fptr, argv, flag,
                    old_client_flags, socket_client_flags, local_return_values,
                    return_values, flags, mem, spc, blk, arg, fun, tmp>>
    BY Zenon DEF PollMiss, mainVars, clientVars, requestVars, flagVars, callVars, responseVars
  <1>2. /\ \A r \in Servers : r # s => idx'[r] = idx[r]
        /\ spc[s] = "poll"
        /\ idx'[s] = idx[s] + 1
    BY Zenon, <1>0 DEF TypeOK, PosTypeOK, PollMiss
  <1>3. ASSUME NEW c \in Clients, OldBit(c, s) # SockBit(c, s) PROVE Passed(s, c)'
    <2>1. Passed(s, c)
      BY Zenon, <1>0, <1>3 DEF Handshake, Agree
    <2>2. WordOf(c) \in Int /\ idx[s] \in Int
      BY <1>0, SlotTypes, SizeAssumption DEF TypeOK, PosTypeOK, Words
    <2> QED
      BY <1>1, <1>2, <2>1, <2>2 DEF Passed, LineOf, WordOf
  <1> QED
    BY Zenon, <1>1, <1>2, <1>3, PositionFrame

\* The request found is raised, complete and not yet executed.
LEMMA PollHitInv ==
  ASSUME ChannelInv, TypeOK', NEW s \in Servers, PollHit(s)
  PROVE  ChannelInv'
  <1>0. /\ TypeOK /\ CallPosition /\ Handshake /\ Vacant /\ RequestWritten
        /\ CallInProgress /\ Copied /\ Published /\ Ending
    BY Zenon DEF ChannelInv
  <1>1. UNCHANGED <<mpc, stop, finished, cpc, op, local_client_flag, fptr, argv, flag,
                    old_client_flags, socket_client_flags, local_return_values,
                    return_values, flags, mem, blk, idx, arg, fun, tmp>>
    BY Zenon DEF PollHit, mainVars, clientVars, requestVars, flagVars, callVars, responseVars
  <1>2. /\ \A r \in Servers : r # s => spc'[r] = spc[r]
        /\ spc[s] = "poll" /\ spc'[s] = "load"
        /\ idx[s] < NCLIENTS
        /\ Raised(s)
    BY Zenon, <1>0 DEF TypeOK, PosTypeOK, PollHit
  <1>3. ChipAt(s) \in Chip /\ SlotAt(s) \in Ids
    BY Zenon, <1>0, <1>2, PositionType
  <1>4. PICK c \in Clients : ChipOf[c] = ChipAt(s) /\ IdOf[c] = SlotAt(s)
    BY Zenon, <1>0, <1>2, <1>3 DEF Vacant, Raised, Xor
  <1>5. OldBit(c, s) # ReqBit(c, s)
    BY Zenon, <1>2, <1>4 DEF Raised, Xor, OldBit, ReqBit
  <1>6. Agree(c, s)
    BY Zenon, <1>0 DEF Handshake
  <1>7. cpc[c] = "spin" /\ Server(c) = s
    BY Zenon, <1>5, <1>6 DEF Agree, Waiting
  <1>8. ~ Passed(s, c)
    <2>1. idx[s] = WordOf(c)
      BY Zenon, <1>0, <1>2, <1>4, PositionOfClient
    <2>2. idx[s] \in Int
      BY <1>0, SizeAssumption DEF TypeOK, PosTypeOK
    <2> QED
      BY <1>2, <2>1, <2>2 DEF Passed
  <1>9. SockBit(c, s) # LocalBit(c, s)
    BY Zenon, <1>5, <1>6, <1>8 DEF Agree
  <1>10. CallFor(s, c)'
    <2>1. Serving(s, c)'
      BY Zenon, <1>1, <1>2, <1>4 DEF Serving, ChipAt, SlotAt
    <2> QED
      BY Zenon, <1>1, <1>2, <1>7, <1>9, <2>1, ServerFrame DEF CallFor, SockBit
  <1>11. ASSUME NEW d \in Clients, OldBit(d, s) # SockBit(d, s) PROVE Passed(s, d)'
    <2>1. Passed(s, d)
      BY Zenon, <1>0, <1>11 DEF Handshake, Agree
    <2> QED
      BY Zenon, <1>1, <1>2, <2>1 DEF Passed, LineOf, WordOf
  <1> QED
    BY Zenon, <1>1, <1>2, <1>10, <1>11, PositionFrame

\* Reading the arguments and the function pointer preserves the invariant: the
\* waiting client leaves them alone.
LEMMA LoadCallInv ==
  ASSUME ChannelInv, TypeOK', NEW s \in Servers, LoadArgs(s) \/ CallFptr(s)
  PROVE  ChannelInv'
  <1>0. /\ TypeOK /\ CallPosition /\ Handshake /\ Vacant /\ RequestWritten
        /\ CallInProgress /\ Copied /\ Published /\ Ending
    BY Zenon DEF ChannelInv
  <1>1. UNCHANGED <<mpc, stop, finished, cpc, op, local_client_flag, fptr, argv, flag,
                    old_client_flags, socket_client_flags, local_return_values,
                    return_values, flags, mem, blk, idx>>
    BY Zenon DEF LoadArgs, CallFptr, mainVars, clientVars, requestVars, flagVars, responseVars
  <1>2. \A r \in Servers : r # s =>
          spc'[r] = spc[r] /\ arg'[r] = arg[r] /\ fun'[r] = fun[r] /\ tmp'[r] = tmp[r]
    BY Zenon, <1>0 DEF TypeOK, PosTypeOK, CallTypeOK, LoadArgs, CallFptr
  <1>3. \/ /\ spc[s] = "load" /\ spc'[s] = "call"
           /\ arg'[s] = argv[s][ChipAt(s)][SlotAt(s)]
        \/ /\ spc[s] = "call" /\ spc'[s] = "work"
           /\ arg'[s] = arg[s]
           /\ fun'[s] = fptr[s][ChipAt(s)][SlotAt(s)]
           /\ tmp'[s] = mem[arg[s]]
    BY Zenon, <1>0 DEF TypeOK, PosTypeOK, CallTypeOK, LoadArgs, CallFptr
  <1>4. PICK c \in Clients : CallFor(s, c)
    BY Zenon, <1>0, <1>3 DEF CallInProgress
  <1>5. /\ argv[s][ChipAt(s)][SlotAt(s)] = op[c].var
        /\ fptr[s][ChipAt(s)][SlotAt(s)] = op[c].fn
    BY Zenon, <1>0, <1>4 DEF CallFor, Serving, RequestWritten, Written
  <1>6. Serving(s, c)'
    BY Zenon, <1>1, <1>3, <1>4 DEF CallFor, Serving, ChipAt, SlotAt
  <1>7. SockBit(c, s)' # LocalBit(c, s)'
    BY Zenon, <1>1, <1>4 DEF CallFor, SockBit, LocalBit
  <1>8. CallFor(s, c)'
    BY Zenon, <1>1, <1>3, <1>4, <1>5, <1>6, <1>7, ServerFrame DEF CallFor
  <1>9. ASSUME NEW d \in Clients, OldBit(d, s) # SockBit(d, s) PROVE Passed(s, d)'
    <2>1. Passed(s, d)
      BY Zenon, <1>0, <1>9 DEF Handshake, Agree
    <2> QED
      BY Zenon, <1>1, <1>3, <2>1 DEF Passed, LineOf, WordOf
  <1>10. idx'[s] < NCLIENTS
    BY Zenon, <1>0, <1>1, <1>3 DEF CallPosition
  <1> QED
    BY Zenon, <1>1, <1>2, <1>3, <1>8, <1>9, <1>10, PositionFrame

\* Entering the copy of the response line preserves the invariant.
LEMMA StartCopyInv ==
  ASSUME ChannelInv, TypeOK', NEW s \in Servers, StartCopy(s)
  PROVE  ChannelInv'
  <1>0. TypeOK /\ Handshake
    BY Zenon DEF ChannelInv
  <1>1. UNCHANGED <<mpc, stop, finished, cpc, op, local_client_flag, fptr, argv, flag,
                    old_client_flags, socket_client_flags, local_return_values,
                    return_values, flags, mem, blk, arg, fun, tmp>>
    BY Zenon DEF StartCopy, mainVars, clientVars, requestVars, flagVars, callVars, responseVars
  <1>2. /\ \A r \in Servers : r # s => spc'[r] = spc[r] /\ idx'[r] = idx[r]
        /\ spc'[s] = "copy" /\ idx'[s] = 0
    BY Zenon, <1>0 DEF TypeOK, PosTypeOK, StartCopy
  <1>3. ASSUME NEW c \in Clients, OldBit(c, s) # SockBit(c, s) PROVE Passed(s, c)'
    <2>1. Passed(s, c)
      BY Zenon, <1>0, <1>3 DEF Handshake, Agree
    <2> QED
      BY Zenon, <1>1, <1>2, <2>1 DEF Passed, LineOf, WordOf
  <1> QED
    BY Zenon, <1>1, <1>2, <1>3, PositionFrame
-----------------------------------------------------------------------------

\* What the end of a half does to the position of a server.
LEMMA NextHalfPosition ==
  ASSUME TypeOK, NEW s \in Servers, NextHalf(s)
  PROVE  /\ \A r \in Servers : r # s =>
              spc'[r] = spc[r] /\ blk'[r] = blk[r] /\ idx'[r] = idx[r]
         /\ spc'[s] \in {"loop", "poll"}
  BY Zenon DEF TypeOK, PosTypeOK, NextHalf

\* Leaving a half in which nothing was executed preserves the invariant.
LEMMA NothingNewInv ==
  ASSUME ChannelInv, TypeOK', NEW s \in Servers, NothingNew(s)
  PROVE  ChannelInv'
  <1>0. TypeOK /\ Handshake
    BY Zenon DEF ChannelInv
  <1>1. UNCHANGED <<mpc, stop, finished, cpc, op, local_client_flag, fptr, argv, flag,
                    old_client_flags, socket_client_flags, local_return_values,
                    return_values, flags, mem, arg, fun, tmp>>
    BY Zenon DEF NothingNew, mainVars, clientVars, requestVars, flagVars, callVars, responseVars
  <1>2. old_client_flags[s][ChipAt(s)] = socket_client_flags[s][ChipAt(s)]
    BY Zenon DEF NothingNew
  <1>3. ASSUME NEW c \in Clients PROVE OldBit(c, s) = SockBit(c, s)
    <2> SUFFICES ASSUME OldBit(c, s) # SockBit(c, s) PROVE FALSE
      BY Zenon
    <2>1. blk[s] = LineOf(c)
      BY Zenon, <1>0 DEF Handshake, Agree, Passed
    <2>2. ChipOf[c] = ChipAt(s)
      BY Zenon, <2>1, SlotTypes DEF ChipAt
    <2> QED
      BY Zenon, <1>2, <2>2 DEF OldBit, SockBit
  <1>4. NextHalf(s)
    BY Zenon DEF NothingNew
  <1> QED
    BY Zenon, <1>0, <1>1, <1>3, <1>4, NextHalfPosition, PositionFrame

\* What the return of the function does: it serves a client that waits, toggles
\* that client's bit and no other, stores its result and no other, and applies
\* its operation to the variable it names.
Completes(s, c) ==
  /\ CallFor(s, c)
  /\ blk[s] = LineOf(c) /\ idx[s] = WordOf(c)
  /\ \A r \in Servers, h \in Chip, i \in Ids :
       i \in socket_client_flags'[r][h] <=>
         IF r = s /\ h = ChipOf[c] /\ i = IdOf[c]
           THEN i \notin socket_client_flags[r][h]
           ELSE i \in socket_client_flags[r][h]
  /\ SockBit(c, s)' # SockBit(c, s)
  /\ \A d \in Clients, r \in Servers :
       d # c \/ r # s => SockBit(d, r)' = SockBit(d, r)
  /\ \A r \in Servers, b \in Blk, w \in Words :
       ~(r = s /\ b = blk[s] /\ w = idx[s]) =>
         local_return_values'[r][b][w] = local_return_values[r][b][w]
  /\ local_return_values'[s][LineOf(c)][WordOf(c)]
       = Apply(op[c].fn, mem[op[c].var]).ret
  /\ mem' = [mem EXCEPT ![op[c].var] = Apply(op[c].fn, mem[op[c].var]).val]

\* FinishCall does that, for some client.
LEMMA FinishCallEffect ==
  ASSUME ChannelInv, NEW s \in Servers, FinishCall(s)
  PROVE  \E c \in Clients : Completes(s, c)
  <1> DEFINE out == Apply(fun[s], tmp[s])
             rv == out.ret
             word == Xor(socket_client_flags[s][ChipAt(s)], {SlotAt(s)})
  <1>0. TypeOK /\ CallPosition /\ CallInProgress
    BY Zenon DEF ChannelInv
  <1>2. spc[s] = "work" /\ idx[s] < NCLIENTS
    BY Zenon, <1>0 DEF FinishCall, CallPosition
  <1>3. /\ ChipAt(s) \in Chip /\ SlotAt(s) \in Ids /\ idx[s] \in Words
        /\ SlotAt(s) % NCLIENTS = idx[s]
        /\ blk[s] \in Blk
    BY Zenon, <1>0, <1>2, PositionType DEF TypeOK, PosTypeOK
  <1>4. PICK c \in Clients : CallFor(s, c)
    BY Zenon, <1>0, <1>2 DEF CallInProgress
  <1>5. /\ ChipOf[c] = ChipAt(s) /\ IdOf[c] = SlotAt(s)
        /\ arg[s] = op[c].var /\ fun[s] = op[c].fn /\ tmp[s] = mem[op[c].var]
    BY Zenon, <1>2, <1>4 DEF CallFor, Serving
  <1>6. blk[s] = LineOf(c) /\ idx[s] = WordOf(c)
    BY Zenon, <1>0, <1>2, <1>5, PositionOfClient
  <1>7. /\ socket_client_flags' = [socket_client_flags EXCEPT ![s][ChipAt(s)] = word]
        /\ local_return_values' =
             [local_return_values EXCEPT ![s][blk[s]][idx[s]] = rv]
        /\ mem' = [mem EXCEPT ![arg[s]] = out.val]
    BY Zenon, <1>3 DEF FinishCall
  <1>8. /\ socket_client_flags \in [Servers -> [Chip -> SUBSET Ids]]
        /\ local_return_values \in [Servers -> [Blk -> [Words -> Vals]]]
        /\ \A d \in Clients : ChipOf[d] \in Chip /\ IdOf[d] \in Ids
    BY Zenon, <1>0, SlotTypes DEF TypeOK, FlagTypeOK, BufferTypeOK
  <1>9. \A i \in Ids : i \in word <=>
           IF i = SlotAt(s) THEN i \notin socket_client_flags[s][ChipAt(s)]
                            ELSE i \in socket_client_flags[s][ChipAt(s)]
    BY Zenon DEF Xor
  <1>10. out = Apply(op[c].fn, mem[op[c].var])
    BY Zenon, <1>5
  <1>11. rv = Apply(op[c].fn, mem[op[c].var]).ret
    BY Zenon, <1>10
  <1>12. mem' = [mem EXCEPT ![op[c].var] = Apply(op[c].fn, mem[op[c].var]).val]
    BY Zenon, <1>5, <1>7, <1>10
  <1> HIDE DEF out, rv, word
  <1>13. \A r \in Servers, h \in Chip : socket_client_flags'[r][h] =
            IF r = s /\ h = ChipAt(s) THEN word ELSE socket_client_flags[r][h]
    BY Zenon, <1>3, <1>7, <1>8
  <1>14. \A r \in Servers, h \in Chip, i \in Ids :
          i \in socket_client_flags'[r][h] <=>
            IF r = s /\ h = ChipOf[c] /\ i = IdOf[c]
              THEN i \notin socket_client_flags[r][h]
              ELSE i \in socket_client_flags[r][h]
    BY <1>5, <1>9, <1>13
  <1>15. \A d \in Clients, r \in Servers : d # c \/ r # s => SockBit(d, r)' = SockBit(d, r)
    BY <1>8, <1>14, SlotAssumption DEF SockBit
  <1>16. SockBit(c, s)' # SockBit(c, s)
    BY Zenon, <1>8, <1>14 DEF SockBit
  <1>17. \A r \in Servers, b \in Blk, w \in Words :
           ~(r = s /\ b = blk[s] /\ w = idx[s]) =>
             local_return_values'[r][b][w] = local_return_values[r][b][w]
    BY <1>3, <1>7, <1>8
  <1>18. local_return_values'[s][blk[s]][idx[s]] = rv
    BY Zenon, <1>3, <1>7, <1>8
  <1>19. local_return_values'[s][LineOf(c)][WordOf(c)] = Apply(op[c].fn, mem[op[c].var]).ret
    BY Zenon, <1>6, <1>11, <1>18
  <1> QED
    BY Zenon, <1>4, <1>6, <1>12, <1>14, <1>15, <1>16, <1>17, <1>19 DEF Completes

\* The function returns: the request is executed and not yet answered.
LEMMA FinishCallInv ==
  ASSUME ChannelInv, TypeOK', NEW s \in Servers, FinishCall(s)
  PROVE  ChannelInv'
  <1>0. /\ TypeOK /\ CallPosition /\ Handshake /\ Vacant /\ RequestWritten
        /\ CallInProgress /\ Copied /\ Published /\ Ending
    BY Zenon DEF ChannelInv
  <1>1. UNCHANGED <<mpc, stop, finished, cpc, op, local_client_flag, fptr, argv, flag,
                    old_client_flags, return_values, flags, blk, arg, fun, tmp>>
    BY Zenon DEF FinishCall, mainVars, clientVars, requestVars, callVars, responseVars
  <1>2. /\ \A r \in Servers : r # s => spc'[r] = spc[r] /\ idx'[r] = idx[r]
        /\ spc[s] = "work" /\ spc'[s] = "poll"
        /\ idx'[s] = idx[s] + 1
        /\ idx[s] < NCLIENTS
    BY Zenon, <1>0 DEF TypeOK, PosTypeOK, FinishCall, CallPosition
  <1>4. PICK c \in Clients : Completes(s, c)
    BY Zenon, FinishCallEffect
  <1>5. /\ cpc[c] = "spin" /\ Server(c) = s
        /\ SockBit(c, s) # LocalBit(c, s)
    BY Zenon, <1>4 DEF Completes, CallFor
  <1>6. blk[s] = LineOf(c) /\ idx[s] = WordOf(c)
    BY Zenon, <1>4 DEF Completes
  <1>7. mem' = [mem EXCEPT ![op[c].var] = Apply(op[c].fn, mem[op[c].var]).val]
    BY Zenon, <1>4 DEF Completes
  <1>8. /\ mem \in [Vars -> Vals]
        /\ \A d \in Clients : LineOf(d) \in Blk /\ WordOf(d) \in Words
    BY Zenon, <1>0, SlotTypes DEF TypeOK, MemTypeOK
  <1>10. \A d \in Clients, r \in Servers : d # c \/ r # s => SockBit(d, r)' = SockBit(d, r)
    BY Zenon, <1>4 DEF Completes
  <1>11. SockBit(c, s)' # SockBit(c, s)
    BY Zenon, <1>4 DEF Completes
  <1>12. \A d \in Clients, r \in Servers :
           OldBit(d, r)' = OldBit(d, r) /\ RespBit(d, r)' = RespBit(d, r)
    BY Zenon, <1>1 DEF OldBit, RespBit, LineOf
  <1>13. \A d \in Clients, r \in Servers : Passed(r, d) => Passed(r, d)'
    <2> SUFFICES ASSUME NEW d \in Clients, NEW r \in Servers, Passed(r, d)
                 PROVE  Passed(r, d)'
      BY Zenon
    <2>1. WordOf(d) \in Int /\ idx[r] \in Int
      BY <1>0, SlotTypes, SizeAssumption DEF TypeOK, PosTypeOK, Words
    <2> QED
      BY <1>1, <1>2, <2>1 DEF Passed, LineOf, WordOf
  <1>14. Agree(c, s)
    BY Zenon, <1>0 DEF Handshake
  <1>15. OldBit(c, s) = SockBit(c, s)
    BY Zenon, <1>5, <1>14 DEF Agree
  <1>16. CallPosition'
    BY Zenon, <1>0, <1>1, <1>2 DEF CallPosition
  <1>17. Handshake'
    <2> SUFFICES ASSUME NEW d \in Clients, NEW r \in Servers PROVE Agree(d, r)'
      BY Zenon DEF Handshake
    <2>1. Agree(d, r)
      BY Zenon, <1>0 DEF Handshake
    <2>2. CASE d # c \/ r # s
      BY Zenon, <1>1, <1>10, <1>12, <1>13, <2>1, <2>2, ServerFrame DEF Agree
    <2>3. CASE d = c /\ r = s
      <3>1. Passed(s, c)'
        <4>1. idx[s] \in Int
          BY <1>0, SizeAssumption DEF TypeOK, PosTypeOK
        <4> QED
          BY <1>1, <1>2, <1>6, <4>1 DEF Passed, LineOf, WordOf
      <3>2. SockBit(c, s)' = LocalBit(c, s)
        BY <1>5, <1>11 DEF SockBit, LocalBit
      <3>3. Waiting(c, s) /\ cpc[c] # "read"
        BY Zenon, <1>5 DEF Waiting
      <3> QED
        BY ZenonT(60), <1>1, <1>12, <1>14, <2>3, <3>1, <3>2, <3>3, ServerFrame DEF Agree
    <2> QED
      BY Zenon, <2>2, <2>3
  <1>18. Vacant'
    <2> SUFFICES ASSUME NEW r \in Servers, NEW h \in Chip, NEW i \in Ids,
                        \A d \in Clients : ChipOf[d] # h \/ IdOf[d] # i
                 PROVE  i \notin socket_client_flags'[r][h]
      BY Zenon, <1>0, <1>1 DEF Vacant
    <2>1. h # ChipOf[c] \/ i # IdOf[c]
      BY Zenon
    <2>2. i \notin socket_client_flags[r][h]
      BY Zenon, <1>0 DEF Vacant
    <2> QED
      BY Zenon, <1>4, <2>1, <2>2 DEF Completes
  <1>19. CallInProgress'
    <2> SUFFICES ASSUME NEW r \in Servers, spc'[r] \in {"load", "call", "work"}
                 PROVE  \E d \in Clients : CallFor(r, d)'
      BY Zenon DEF CallInProgress
    <2>1. r # s /\ spc'[r] = spc[r] /\ idx'[r] = idx[r]
      BY Zenon, <1>2
    <2>2. PICK d \in Clients : CallFor(r, d)
      BY Zenon, <1>0, <2>1 DEF CallInProgress
    <2>3. Serving(r, d)'
      BY Zenon, <1>1, <2>1, <2>2 DEF CallFor, Serving, ChipAt, SlotAt
    <2>4. op[d].var # op[c].var
      BY Zenon, <1>5, <2>1, <2>2 DEF CallFor, Server
    <2>5. mem'[op[d].var] = mem[op[d].var]
      BY Zenon, <1>0, <1>5, <1>7, <1>8, <2>4, ServerType
    <2> QED
      BY Zenon, <1>1, <1>10, <2>1, <2>2, <2>3, <2>5, ServerFrame DEF CallFor
  <1>20. \A r \in Servers, b \in Blk, w \in Words :
           ~(r = s /\ b = blk[s] /\ w = idx[s]) =>
             local_return_values'[r][b][w] = local_return_values[r][b][w]
    BY Zenon, <1>4 DEF Completes
  <1>21. Copied'
    <2> SUFFICES ASSUME NEW r \in Servers, spc'[r] = "copy", NEW w \in Words, w < idx'[r]
                 PROVE  return_values[r][blk[r]][w] = local_return_values'[r][blk[r]][w]
      BY Zenon, <1>1 DEF Copied
    <2>1. r # s /\ spc[r] = "copy" /\ idx'[r] = idx[r] /\ blk[r] \in Blk
      BY Zenon, <1>0, <1>2 DEF TypeOK, PosTypeOK
    <2> QED
      BY <1>0, <1>20, <2>1 DEF Copied
  <1>22. Published'
    <2> SUFFICES ASSUME NEW d \in Clients, NEW r \in Servers,
                        OldBit(d, r)' = SockBit(d, r)'
                 PROVE  return_values[r][LineOf(d)][WordOf(d)]
                          = local_return_values'[r][LineOf(d)][WordOf(d)]
      BY Zenon, <1>1 DEF Published, LineOf, WordOf
    <2>1. d # c \/ r # s
      BY Zenon, <1>11, <1>12, <1>15
    <2>2. OldBit(d, r) = SockBit(d, r)
      BY Zenon, <1>10, <1>12, <2>1
    <2>3. ~(r = s /\ LineOf(d) = blk[s] /\ WordOf(d) = idx[s])
      BY Zenon, <1>6, <2>1, WordUnique
    <2> QED
      BY Zenon, <1>0, <1>8, <1>20, <2>2, <2>3 DEF Published
  <1>23. Ending'
    BY Zenon, <1>0, <1>1, <1>2 DEF Ending
  <1> QED
    BY Zenon, <1>0, <1>1, <1>16, <1>17, <1>18, <1>19, <1>21, <1>22, <1>23, ServerFrame
    DEF ChannelInv



\* Copying one return value preserves the invariant: no client whose spin loop
\* has ended reads the word while it changes.
LEMMA CopyValueInv ==
  ASSUME ChannelInv, TypeOK', NEW s \in Servers, CopyValue(s)
  PROVE  ChannelInv'
  <1>0. /\ TypeOK /\ CallPosition /\ Handshake /\ Vacant /\ RequestWritten
        /\ CallInProgress /\ Copied /\ Published /\ Ending
    BY Zenon DEF ChannelInv
  <1>1. UNCHANGED <<mpc, stop, finished, cpc, op, local_client_flag, fptr, argv, flag,
                    old_client_flags, socket_client_flags, local_return_values, flags,
                    spc, blk, arg, fun, tmp, mem>>
    BY Zenon DEF CopyValue, mainVars, clientVars, requestVars, flagVars, callVars
  <1>2. /\ \A r \in Servers : r # s => idx'[r] = idx[r]
        /\ spc[s] = "copy"
        /\ idx'[s] = idx[s] + 1
        /\ idx[s] < NCLIENTS
    BY Zenon, <1>0 DEF TypeOK, PosTypeOK, CopyValue
  <1>3. /\ idx[s] \in Words /\ blk[s] \in Blk
        /\ return_values \in [Servers -> [Blk -> [Words -> Vals]]]
        /\ \A d \in Clients : LineOf(d) \in Blk /\ WordOf(d) \in Words
    BY Zenon, <1>0, <1>2, PositionType, SlotTypes DEF TypeOK, PosTypeOK, ResponseTypeOK
  <1> DEFINE val == local_return_values[s][blk[s]][idx[s]]
  <1>4. return_values' = [return_values EXCEPT ![s][blk[s]][idx[s]] = val]
    BY Zenon DEF CopyValue
  <1> HIDE DEF val
  <1>5. \A r \in Servers, b \in Blk, w \in Words :
          return_values'[r][b][w] = IF r = s /\ b = blk[s] /\ w = idx[s]
                                      THEN val ELSE return_values[r][b][w]
    BY Zenon, <1>3, <1>4
  <1>6. \A d \in Clients, r \in Servers :
          /\ OldBit(d, r)' = OldBit(d, r) /\ RespBit(d, r)' = RespBit(d, r)
          /\ SockBit(d, r)' = SockBit(d, r)
          /\ Passed(r, d) => Passed(r, d)'
    BY ZenonT(60), <1>1, <1>2 DEF OldBit, RespBit, SockBit, Passed, LineOf, WordOf
  <1>7. CallPosition'
    BY Zenon, <1>0, <1>1, <1>2 DEF CallPosition
  <1>8. Handshake'
    <2> SUFFICES ASSUME NEW d \in Clients, NEW r \in Servers PROVE Agree(d, r)'
      BY Zenon DEF Handshake
    <2>1. Agree(d, r)
      BY Zenon, <1>0 DEF Handshake
    <2> QED
      BY Zenon, <1>1, <1>6, <2>1, ServerFrame DEF Agree
  <1>9. Vacant'
    BY Zenon, <1>0, <1>1 DEF Vacant
  <1>10. CallInProgress'
    <2> SUFFICES ASSUME NEW r \in Servers, spc'[r] \in {"load", "call", "work"}
                 PROVE  \E d \in Clients : CallFor(r, d)'
      BY Zenon DEF CallInProgress
    <2>1. r # s /\ spc'[r] = spc[r] /\ idx'[r] = idx[r]
      BY Zenon, <1>1, <1>2
    <2>2. PICK d \in Clients : CallFor(r, d)
      BY Zenon, <1>0, <2>1 DEF CallInProgress
    <2>3. Serving(r, d)'
      BY Zenon, <1>1, <2>1, <2>2 DEF CallFor, Serving, ChipAt, SlotAt
    <2> QED
      BY Zenon, <1>1, <1>6, <2>1, <2>2, <2>3, ServerFrame DEF CallFor
  <1>11. Copied'
    <2> SUFFICES ASSUME NEW r \in Servers, spc[r] = "copy", NEW w \in Words, w < idx'[r]
                 PROVE  return_values'[r][blk[r]][w] = local_return_values[r][blk[r]][w]
      BY Zenon, <1>1 DEF Copied
    <2>1. blk[r] \in Blk
      BY Zenon, <1>0 DEF TypeOK, PosTypeOK
    <2>2. CASE r = s /\ w = idx[s]
      BY Zenon, <1>3, <1>5, <2>2 DEF val
    <2>3. CASE r # s
      <3>1. w < idx[r]
        BY Zenon, <1>2, <2>3
      <3>2. return_values[r][blk[r]][w] = local_return_values[r][blk[r]][w]
        BY Zenon, <1>0, <3>1 DEF Copied
      <3> QED BY Zenon, <1>5, <2>1, <2>3, <3>2
    <2>4. CASE r = s /\ w # idx[s]
      <3>1. w < idx[s]
        BY <1>2, <1>3, <2>4, SizeAssumption DEF Words
      <3> QED
        <4>1. return_values[s][blk[s]][w] = local_return_values[s][blk[s]][w]
          BY Zenon, <1>0, <2>4, <3>1 DEF Copied
        <4> QED BY ZenonT(60), <1>5, <2>1, <2>4, <4>1
    <2> QED
      BY Zenon, <2>2, <2>3, <2>4
  <1>12. Published'
    <2> SUFFICES ASSUME NEW d \in Clients, NEW r \in Servers, OldBit(d, r) = SockBit(d, r)
                 PROVE  return_values'[r][LineOf(d)][WordOf(d)]
                          = local_return_values[r][LineOf(d)][WordOf(d)]
      BY ZenonT(60), <1>1, <1>6 DEF Published, LineOf, WordOf
    <2> QED
      BY ZenonT(60), <1>0, <1>3, <1>5 DEF Published, val
  <1>13. Ending'
    BY Zenon, <1>0, <1>1 DEF Ending
  <1> QED
    BY Zenon, <1>0, <1>1, <1>7, <1>8, <1>9, <1>10, <1>11, <1>12, <1>13, ServerFrame
    DEF ChannelInv

\* The flag word is stored: every request executed in the half is answered.
LEMMA CopyFlagsInv ==
  ASSUME ChannelInv, TypeOK', NEW s \in Servers, CopyFlags(s)
  PROVE  ChannelInv'
  <1>0. /\ TypeOK /\ CallPosition /\ Handshake /\ Vacant /\ RequestWritten
        /\ CallInProgress /\ Copied /\ Published /\ Ending
    BY Zenon DEF ChannelInv
  <1>1. UNCHANGED <<mpc, stop, finished, cpc, op, local_client_flag, fptr, argv, flag,
                    socket_client_flags, local_return_values, return_values,
                    arg, fun, tmp, mem>>
    BY Zenon DEF CopyFlags, mainVars, clientVars, requestVars, callVars
  <1> DEFINE word == socket_client_flags[s][ChipAt(s)]
  <1>2. /\ spc[s] = "copy" /\ idx[s] = NCLIENTS
        /\ NextHalf(s)
        /\ flags' = [flags EXCEPT ![s][blk[s]] = word]
        /\ old_client_flags' = [old_client_flags EXCEPT ![s][ChipAt(s)] = word]
    BY Zenon DEF CopyFlags
  <1>3. /\ \A r \in Servers : r # s =>
             spc'[r] = spc[r] /\ blk'[r] = blk[r] /\ idx'[r] = idx[r]
        /\ spc'[s] \in {"loop", "poll"}
    BY Zenon, <1>0, <1>2, NextHalfPosition
  <1>4. /\ ChipAt(s) \in Chip /\ blk[s] \in Blk
        /\ flags \in [Servers -> [Blk -> SUBSET Ids]]
        /\ old_client_flags \in [Servers -> [Chip -> SUBSET Ids]]
        /\ \A d \in Clients : /\ ChipOf[d] \in Chip /\ IdOf[d] \in Ids
                              /\ LineOf(d) \in Blk /\ WordOf(d) \in Words
    BY Zenon, <1>0, PositionType, SlotTypes DEF TypeOK, PosTypeOK, FlagTypeOK, ResponseTypeOK
  <1> HIDE DEF word
  <1>5. \A r \in Servers, b \in Blk :
          flags'[r][b] = IF r = s /\ b = blk[s] THEN word ELSE flags[r][b]
    BY Zenon, <1>2, <1>4
  <1>6. \A r \in Servers, h \in Chip :
          old_client_flags'[r][h] = IF r = s /\ h = ChipAt(s) THEN word
                                    ELSE old_client_flags[r][h]
    BY Zenon, <1>2, <1>4
  <1>7. ASSUME NEW d \in Clients, NEW r \in Servers, OldBit(d, r) # SockBit(d, r), r = s
        PROVE  LineOf(d) = blk[s]
    BY Zenon, <1>0, <1>7 DEF Handshake, Agree, Passed
  <1>8. ASSUME NEW d \in Clients, LineOf(d) = blk[s] PROVE ChipOf[d] = ChipAt(s)
    BY Zenon, <1>8, SlotTypes DEF ChipAt
  <1>9. \A d \in Clients, r \in Servers : SockBit(d, r)' = SockBit(d, r)
    BY Zenon, <1>1 DEF SockBit
  <1>10. \A d \in Clients : OldBit(d, s)' = SockBit(d, s)
    <2> SUFFICES ASSUME NEW d \in Clients PROVE OldBit(d, s)' = SockBit(d, s)
      BY ZenonT(60)
    <2>1. CASE ChipOf[d] = ChipAt(s)
      BY <1>4, <1>6, <2>1 DEF OldBit, SockBit, word
    <2>2. CASE ChipOf[d] # ChipAt(s)
      <3>1. OldBit(d, s) = SockBit(d, s)
        BY Zenon, <1>7, <1>8, <2>2
      <3> QED
        BY Zenon, <1>4, <1>6, <2>2, <3>1 DEF OldBit
    <2> QED
      BY Zenon, <2>1, <2>2
  <1>11. \A d \in Clients : RespBit(d, s)' = SockBit(d, s)
    <2> SUFFICES ASSUME NEW d \in Clients PROVE RespBit(d, s)' = SockBit(d, s)
      BY Zenon
    <2>1. CASE LineOf(d) = blk[s]
      <3>1. ChipOf[d] = ChipAt(s) /\ flags'[s][LineOf(d)] = word
        BY Zenon, <1>4, <1>5, <1>8, <2>1
      <3> QED
        BY Zenon, <3>1 DEF RespBit, SockBit, word, LineOf
    <2>2. CASE LineOf(d) # blk[s]
      <3>1. OldBit(d, s) = SockBit(d, s)
        BY Zenon, <1>7, <2>2
      <3>2. RespBit(d, s) = OldBit(d, s)
        BY Zenon, <1>0 DEF Handshake, Agree
      <3>3. flags'[s][LineOf(d)] = flags[s][LineOf(d)]
        BY Zenon, <1>4, <1>5, <2>2
      <3> QED
        BY Zenon, <3>1, <3>2, <3>3 DEF RespBit, LineOf
    <2> QED
      BY Zenon, <2>1, <2>2
  <1>12. \A d \in Clients, r \in Servers : r # s =>
           /\ OldBit(d, r)' = OldBit(d, r) /\ RespBit(d, r)' = RespBit(d, r)
           /\ Passed(r, d)' = Passed(r, d) /\ Serving(r, d)' = Serving(r, d)
    <2> SUFFICES ASSUME NEW d \in Clients, NEW r \in Servers, r # s
                 PROVE  /\ OldBit(d, r)' = OldBit(d, r) /\ RespBit(d, r)' = RespBit(d, r)
                        /\ Passed(r, d)' = Passed(r, d) /\ Serving(r, d)' = Serving(r, d)
      BY Zenon
    <2>1. /\ flags'[r][LineOf(d)] = flags[r][LineOf(d)]
          /\ old_client_flags'[r][ChipOf[d]] = old_client_flags[r][ChipOf[d]]
      BY Zenon, <1>4, <1>5, <1>6
    <2> QED
      BY Zenon, <1>3, <2>1 DEF OldBit, RespBit, Passed, Serving, ChipAt, SlotAt, LineOf, WordOf
  <1>13. CallPosition'
    BY Zenon, <1>0, <1>3 DEF CallPosition
  <1>14. Handshake'
    <2> SUFFICES ASSUME NEW d \in Clients, NEW r \in Servers PROVE Agree(d, r)'
      BY Zenon DEF Handshake
    <2>1. Agree(d, r)
      BY Zenon, <1>0 DEF Handshake
    <2>2. CASE r # s
      BY Zenon, <1>1, <1>9, <1>12, <2>1, <2>2, ServerFrame DEF Agree
    <2>3. CASE r = s
      BY ZenonT(60), <1>1, <1>9, <1>10, <1>11, <2>1, <2>3, ServerFrame DEF Agree
    <2> QED
      BY Zenon, <2>2, <2>3
  <1>15. Vacant'
    BY ZenonT(60), <1>0, <1>1, <1>4, <1>6 DEF Vacant, word
  <1>16. CallInProgress'
    <2> SUFFICES ASSUME NEW r \in Servers, spc'[r] \in {"load", "call", "work"}
                 PROVE  \E d \in Clients : CallFor(r, d)'
      BY Zenon DEF CallInProgress
    <2>1. r # s /\ spc'[r] = spc[r]
      BY Zenon, <1>3
    <2>2. PICK d \in Clients : CallFor(r, d)
      BY Zenon, <1>0, <2>1 DEF CallInProgress
    <2> QED
      BY Zenon, <1>1, <1>9, <1>12, <2>1, <2>2, ServerFrame DEF CallFor
  <1>17. Copied'
    <2> SUFFICES ASSUME NEW r \in Servers, spc'[r] = "copy", NEW w \in Words, w < idx'[r]
                 PROVE  return_values[r][blk'[r]][w] = local_return_values[r][blk'[r]][w]
      BY Zenon, <1>1 DEF Copied
    <2>1. r # s /\ spc[r] = "copy" /\ idx'[r] = idx[r] /\ blk'[r] = blk[r]
      BY Zenon, <1>3
    <2> QED
      BY Zenon, <1>0, <2>1 DEF Copied
  <1>18. Published'
    <2> SUFFICES ASSUME NEW d \in Clients, NEW r \in Servers,
                        OldBit(d, r)' = SockBit(d, r)'
                 PROVE  return_values[r][LineOf(d)][WordOf(d)]
                          = local_return_values[r][LineOf(d)][WordOf(d)]
      BY Zenon, <1>1 DEF Published, LineOf, WordOf
    <2>1. CASE r # s \/ OldBit(d, r) = SockBit(d, r)
      BY Zenon, <1>0, <1>9, <1>12, <2>1 DEF Published
    <2>2. CASE r = s /\ OldBit(d, r) # SockBit(d, r)
      <3>1. LineOf(d) = blk[s] /\ WordOf(d) \in Words
        BY Zenon, <1>4, <1>7, <2>2
      <3>2. WordOf(d) < idx[s]
        BY <1>2, <3>1, SizeAssumption DEF Words
      <3> QED
        BY Zenon, <1>0, <1>2, <2>2, <3>1, <3>2 DEF Copied
    <2> QED
      BY Zenon, <2>1, <2>2
  <1>19. Ending'
    BY Zenon, <1>0, <1>1, <1>3 DEF Ending
  <1> QED
    BY Zenon, <1>0, <1>1, <1>13, <1>14, <1>15, <1>16, <1>17, <1>18, <1>19, ServerFrame
    DEF ChannelInv
-----------------------------------------------------------------------------
\* The steps of the main thread preserve the invariant.
LEMMA MainInv ==
  ASSUME ChannelInv, TypeOK', MainStep
  PROVE  ChannelInv'
  <1>0. /\ TypeOK /\ CallPosition /\ Handshake /\ Vacant /\ RequestWritten
        /\ CallInProgress /\ Copied /\ Published /\ Ending
    BY Zenon DEF ChannelInv
  <1>1. UNCHANGED <<cpc, op, local_client_flag, fptr, argv, flag, spc, blk, idx,
                    old_client_flags, socket_client_flags, local_return_values,
                    arg, fun, tmp, return_values, flags, mem>>
    BY ZenonT(60) DEF MainStep, SetStop, JoinClients, Shutdown, JoinServers, clientVars,
           requestVars, posVars, flagVars, callVars, responseVars
  <1>2. Handshake' /\ CallInProgress'
    BY Zenon, <1>0, <1>1, SameHandshake
  <1>3. Vacant'
    BY Zenon, <1>0, <1>1 DEF Vacant
  <1>4. Ending'
    BY Zenon, <1>0, <1>1 DEF Ending, TypeOK, MainTypeOK, MainStep, SetStop, JoinClients, Shutdown, JoinServers
  <1> QED
    BY Zenon, <1>0, <1>1, <1>2, <1>3, <1>4, ClientFrame, ServerFrame DEF ChannelInv

\* Every step of every thread preserves the invariant.
LEMMA StepInv == ChannelInv /\ [Next]_vars => ChannelInv'
  <1> SUFFICES ASSUME ChannelInv, [Next]_vars PROVE ChannelInv'
    BY Zenon
  <1>1. TypeOK'
    BY Zenon, TypeStep DEF ChannelInv
  <1>2. ASSUME NEW c \in Clients, ClientStep(c) PROVE ChannelInv'
    BY Zenon, <1>1, <1>2, WriteFptrInv, PrepareRequestInv, RaiseFlagInv, ClientRestInv
    DEF ClientStep
  <1>3. ASSUME NEW s \in Servers, ServerStep(s) PROVE ChannelInv'
    BY Zenon, <1>1, <1>3, LoopInv, PollMissInv, PollHitInv, LoadCallInv, FinishCallInv,
       NothingNewInv, StartCopyInv, CopyValueInv, CopyFlagsInv
    DEF ServerStep
  <1>4. CASE MainStep
    BY Zenon, <1>1, <1>4, MainInv
  <1>5. CASE UNCHANGED vars
    <2>1. UNCHANGED <<mpc, stop, finished, cpc, op, local_client_flag, fptr, argv, flag,
                      spc, blk, idx, old_client_flags, socket_client_flags,
                      local_return_values, arg, fun, tmp, return_values, flags, mem>>
      BY Zenon, <1>5 DEF vars, mainVars, clientVars, requestVars, posVars, flagVars,
                  callVars, responseVars
    <2>2. /\ CallPosition /\ Handshake /\ Vacant /\ RequestWritten
          /\ CallInProgress /\ Copied /\ Published /\ Ending
      BY ZenonT(60) DEF ChannelInv
    <2>3. Handshake' /\ CallInProgress'
      BY Zenon, <2>1, <2>2, SameHandshake
    <2>4. Vacant' /\ Ending'
      BY Zenon, <2>1, <2>2 DEF Vacant, Ending
    <2> QED
      BY Zenon, <1>1, <2>1, <2>2, <2>3, <2>4, ClientFrame, ServerFrame DEF ChannelInv
  <1> QED
    BY Zenon, <1>2, <1>3, <1>4, <1>5 DEF Next, Terminated

\* The toggle-bit protocol of FFWD_EXEC and server_func keeps its invariant,
\* for every number of clients, servers and chips.
THEOREM ChannelInvariant == Spec => []ChannelInv
  BY InitInv, StepInv, PTL DEF Spec

\* Every variable keeps its type; in particular no server ever polls, or writes
\* a word, outside the arrays launch_servers allocates.
THEOREM TypeCorrect == Spec => []TypeOK
  <1>1. ChannelInv => TypeOK
    BY DEF ChannelInv
  <1> QED
    BY <1>1, ChannelInvariant, PTL

\* A server runs a delegated function only on a request that its client has
\* completely written and is waiting on, with that request's function and
\* argument.
THEOREM RequestsWhole == Spec => []NoTornRequest
  <1>1. ChannelInv => NoTornRequest
    BY DEF ChannelInv, NoTornRequest, CallInProgress, CallFor
  <1> QED
    BY <1>1, ChannelInvariant, PTL

\* When a client's spin loop has ended, its word of the response line is the
\* value the server computed for it and stays so until the client has read it.
THEOREM ReturnsRight == Spec => []ReturnIsMine
  <1>1. ChannelInv => ReturnIsMine
    <2> SUFFICES ASSUME ChannelInv, NEW c \in Clients, cpc[c] = "read"
                 PROVE  return_values[Server(c)][LineOf(c)][WordOf(c)]
                          = local_return_values[Server(c)][LineOf(c)][WordOf(c)]
      BY Zenon DEF ReturnIsMine
    <2>1. Server(c) \in Servers
      BY Zenon, ServerType DEF ChannelInv
    <2>2. OldBit(c, Server(c)) = SockBit(c, Server(c))
      BY Zenon, <2>1 DEF ChannelInv, Handshake, Agree
    <2> QED
      BY Zenon, <2>1, <2>2 DEF ChannelInv, Published
  <1> QED
    BY <1>1, ChannelInvariant, PTL

\* ffwd_shutdown, called once the clients are joined, leaves no request
\* unanswered: no server leaves its loop while a client waits on it.
THEOREM NobodyStranded == Spec => []NoneStranded
  <1>1. ChannelInv => NoneStranded
    BY DEF ChannelInv, Ending, NoneStranded, Waiting
  <1> QED
    BY <1>1, ChannelInvariant, PTL
-----------------------------------------------------------------------------
\* A step that leaves alone what a client's call looks like from outside: that
\* it waits, its operation, its bit at the client and at the server, its result.
LEMMA SameCall ==
  ASSUME NEW c \in Clients,
         (cpc'[c] \in {"spin", "read"}) <=> (cpc[c] \in {"spin", "read"}),
         cpc[c] \in {"spin", "read"} =>
           /\ op'[c] = op[c]
           /\ LocalBit(c, Server(c))' <=> LocalBit(c, Server(c))
           /\ SockBit(c, Server(c))' <=> SockBit(c, Server(c))
           /\ local_return_values'[Server(c)][LineOf(c)][WordOf(c)]
                = local_return_values[Server(c)][LineOf(c)][WordOf(c)]
  PROVE  /\ CallState(c)' = CallState(c)
         /\ CallOp(c)' = CallOp(c)
         /\ CallResult(c)' = CallResult(c)
  <1>1. CASE cpc[c] \notin {"spin", "read"}
    BY ZenonT(60), <1>1 DEF CallState, CallOp, CallResult
  <1>2. CASE cpc[c] \in {"spin", "read"}
    <2>1. Server(c)' = Server(c) /\ LineOf(c)' = LineOf(c) /\ WordOf(c)' = WordOf(c)
      BY Zenon, <1>2 DEF Server, LineOf, WordOf
    <2>2. Executed(c)' <=> Executed(c)
      BY Zenon, <1>2, <2>1 DEF Executed, Xor, LocalBit, SockBit
    <2> QED
      BY SMTT(30), <1>2, <2>1, <2>2 DEF CallState, CallOp, CallResult
  <1> QED
    BY Zenon, <1>1, <1>2

\* If that holds of every client, and no variable and no result changes, the
\* abstract state does not change.
LEMMA Stutter ==
  ASSUME \A c \in Clients : /\ CallState(c)' = CallState(c)
                            /\ CallOp(c)' = CallOp(c)
                            /\ CallResult(c)' = CallResult(c),
         UNCHANGED <<mem, ret>>
  PROVE  UNCHANGED Abstract!vars
  <1>1. stBar' = stBar /\ opBar' = opBar /\ resBar' = resBar
    BY Zenon DEF stBar, opBar, resBar
  <1> QED
    BY Zenon, <1>1 DEF Abstract!vars

\* A step of the abstract service is a step of one client, here c: the calls of
\* the others look as before.
LEMMA OneCall ==
  ASSUME NEW c \in Clients,
         \A d \in Clients \ {c} : /\ CallState(d)' = CallState(d)
                                  /\ CallOp(d)' = CallOp(d)
                                  /\ CallResult(d)' = CallResult(d)
  PROVE  /\ stBar' = [stBar EXCEPT ![c] = CallState(c)']
         /\ opBar' = [opBar EXCEPT ![c] = CallOp(c)']
         /\ resBar' = [resBar EXCEPT ![c] = CallResult(c)']
         /\ stBar[c] = CallState(c)
         /\ opBar[c] = CallOp(c)
         /\ resBar[c] = CallResult(c)
  BY Zenon DEF stBar, opBar, resBar
-----------------------------------------------------------------------------
\* The initial state of the channel is that of the service: nobody calls.
LEMMA InitService == Init => Abstract!Init
  BY Zenon DEF Init, Abstract!Init, stBar, opBar, resBar, CallState, CallOp, CallResult

\* The store of the flag word hands the operation over.
LEMMA RaiseFlagStep ==
  ASSUME ChannelInv, NEW c \in Clients, RaiseFlag(c)
  PROVE  Abstract!Next
  <1> DEFINE s == Server(c)
             word == Xor(local_client_flag[c][s], mask(c))
  <1>1. /\ cpc[c] = "raise"
        /\ cpc' = [cpc EXCEPT ![c] = "spin"]
        /\ local_client_flag' = [local_client_flag EXCEPT ![c][s] = word]
        /\ UNCHANGED <<op, ret, socket_client_flags, local_return_values, mem>>
    BY Zenon DEF RaiseFlag, flagVars
  <1>2. /\ s \in Servers /\ op[c] \in Ops
        /\ cpc \in [Clients -> {"idle", "args", "raise", "spin", "read", "exited"}]
        /\ local_client_flag \in [Clients -> [Servers -> SUBSET Ids]]
    BY Zenon, ServerType DEF ChannelInv, TypeOK, ClientTypeOK
  <1>3. IdOf[c] \in word <=> IdOf[c] \notin local_client_flag[c][s]
    BY Zenon DEF Xor, mask
  <1> HIDE DEF s, word
  <1>4. /\ local_client_flag'[c][s] = word
        /\ \A d \in Clients \ {c} : local_client_flag'[d] = local_client_flag[d]
        /\ cpc'[c] = "spin"
        /\ \A d \in Clients \ {c} : cpc'[d] = cpc[d]
    BY Zenon, <1>1, <1>2
  <1>5. SockBit(c, s) = LocalBit(c, s)
    BY Zenon, <1>1, <1>2 DEF ChannelInv, Handshake, Agree, Waiting
  <1>6. Server(c)' = s
    BY Zenon, <1>1 DEF Server, s
  <1>7. ~ Executed(c)'
    BY Zenon, <1>1, <1>3, <1>4, <1>5, <1>6 DEF Executed, Xor, SockBit, LocalBit
  <1>8. /\ CallState(c) = "idle" /\ CallState(c)' = "pending"
        /\ CallOp(c)' = op[c]
        /\ CallResult(c) = None /\ CallResult(c)' = None
    BY <1>1, <1>4, <1>7 DEF CallState, CallOp, CallResult
  <1>9. \A d \in Clients \ {c} : /\ CallState(d)' = CallState(d)
                                 /\ CallOp(d)' = CallOp(d)
                                 /\ CallResult(d)' = CallResult(d)
    <2> TAKE d \in Clients \ {c}
    <2>1. (cpc'[d] \in {"spin", "read"}) <=> (cpc[d] \in {"spin", "read"})
      BY Zenon, <1>4
    <2>2. /\ op'[d] = op[d]
          /\ LocalBit(d, Server(d))' <=> LocalBit(d, Server(d))
          /\ SockBit(d, Server(d))' <=> SockBit(d, Server(d))
          /\ local_return_values'[Server(d)][LineOf(d)][WordOf(d)]
               = local_return_values[Server(d)][LineOf(d)][WordOf(d)]
      BY Zenon, <1>1, <1>4 DEF LocalBit, SockBit, Server
    <2> QED
      BY Zenon, <2>1, <2>2, SameCall
  <1>10. /\ stBar[c] = "idle"
         /\ stBar' = [stBar EXCEPT ![c] = "pending"]
         /\ opBar' = [opBar EXCEPT ![c] = op[c]]
         /\ resBar' = resBar
    <2>1. resBar' = [resBar EXCEPT ![c] = None] /\ resBar[c] = None
      BY Zenon, <1>8, <1>9, OneCall
    <2>2. resBar' = resBar
      BY Zenon, <2>1 DEF resBar
    <2> QED
      BY Zenon, <1>8, <1>9, <2>2, OneCall
  <1>11. Abstract!Invoke(c, op[c])
    BY Zenon, <1>1, <1>10 DEF Abstract!Invoke
  <1> QED
    BY Zenon, <1>2, <1>11 DEF Abstract!Next, Abstract!Ops, Ops

\* The end of the call: the client gets the result the server computed for it.
LEMMA ReadReturnStep ==
  ASSUME ChannelInv, NEW c \in Clients, ReadReturn(c)
  PROVE  Abstract!Next
  <1> DEFINE s == Server(c)
             rv == return_values[s][LineOf(c)][WordOf(c)]
  <1>1. /\ cpc[c] = "read"
        /\ cpc' = [cpc EXCEPT ![c] = "idle"]
        /\ ret' = [ret EXCEPT ![c] = rv]
        /\ UNCHANGED <<op, local_client_flag, socket_client_flags, local_return_values, mem>>
    BY Zenon DEF ReadReturn, flagVars
  <1>2. /\ s \in Servers
        /\ cpc \in [Clients -> {"idle", "args", "raise", "spin", "read", "exited"}]
    BY Zenon, ServerType DEF ChannelInv, TypeOK, ClientTypeOK
  <1>3. cpc'[c] = "idle" /\ \A d \in Clients \ {c} : cpc'[d] = cpc[d]
    BY Zenon, <1>1, <1>2
  <1>4. SockBit(c, s) = LocalBit(c, s) /\ OldBit(c, s) = SockBit(c, s)
    BY Zenon, <1>1, <1>2 DEF ChannelInv, Handshake, Agree
  <1>5. Executed(c)
    BY Zenon, <1>4 DEF Executed, Xor, SockBit, LocalBit
  <1>6. rv = local_return_values[s][LineOf(c)][WordOf(c)]
    BY Zenon, <1>2, <1>4 DEF ChannelInv, Published
  <1> HIDE DEF s, rv
  <1>7. /\ CallState(c) = "done" /\ CallState(c)' = "idle"
        /\ CallOp(c)' = None
        /\ CallResult(c) = rv /\ CallResult(c)' = None
    BY Zenon, <1>1, <1>3, <1>5, <1>6 DEF CallState, CallOp, CallResult, s
  <1>8. \A d \in Clients \ {c} : /\ CallState(d)' = CallState(d)
                                 /\ CallOp(d)' = CallOp(d)
                                 /\ CallResult(d)' = CallResult(d)
    <2> TAKE d \in Clients \ {c}
    <2>1. (cpc'[d] \in {"spin", "read"}) <=> (cpc[d] \in {"spin", "read"})
      BY Zenon, <1>3
    <2>2. /\ op'[d] = op[d]
          /\ LocalBit(d, Server(d))' <=> LocalBit(d, Server(d))
          /\ SockBit(d, Server(d))' <=> SockBit(d, Server(d))
          /\ local_return_values'[Server(d)][LineOf(d)][WordOf(d)]
               = local_return_values[Server(d)][LineOf(d)][WordOf(d)]
      BY Zenon, <1>1 DEF LocalBit, SockBit, Server
    <2> QED
      BY Zenon, <2>1, <2>2, SameCall
  <1>9. /\ stBar[c] = "done" /\ resBar[c] = rv
        /\ stBar' = [stBar EXCEPT ![c] = "idle"]
        /\ opBar' = [opBar EXCEPT ![c] = None]
        /\ resBar' = [resBar EXCEPT ![c] = None]
    BY Zenon, <1>7, <1>8, OneCall
  <1>10. Abstract!Return(c)
    BY Zenon, <1>1, <1>9 DEF Abstract!Return
  <1> QED
    BY Zenon, <1>10 DEF Abstract!Next

\* The return of the delegated function is where the call takes effect.
LEMMA FinishCallStep ==
  ASSUME ChannelInv, NEW s \in Servers, FinishCall(s)
  PROVE  Abstract!Next
  <1>1. UNCHANGED <<cpc, op, local_client_flag, ret>>
    BY Zenon DEF FinishCall, clientVars
  <1>2. PICK c \in Clients : Completes(s, c)
    BY Zenon, FinishCallEffect
  <1> DEFINE rv == Apply(op[c].fn, mem[op[c].var]).ret
  <1>3. /\ cpc[c] = "spin" /\ Server(c) = s
        /\ SockBit(c, s) # LocalBit(c, s)
    BY Zenon, <1>2 DEF Completes, CallFor
  <1>4. /\ SockBit(c, s)' # SockBit(c, s)
        /\ local_return_values'[s][LineOf(c)][WordOf(c)] = rv
        /\ mem' = [mem EXCEPT ![op[c].var] = Apply(op[c].fn, mem[op[c].var]).val]
    BY Zenon, <1>2 DEF Completes
  <1> HIDE DEF rv
  <1>5. Server(c)' = s /\ LineOf(c)' = LineOf(c) /\ WordOf(c)' = WordOf(c)
    BY ZenonT(60), <1>1, <1>3 DEF Server, LineOf, WordOf
  <1>6. ~ Executed(c) /\ Executed(c)'
    BY <1>1, <1>3, <1>4, <1>5 DEF Executed, Xor, SockBit, LocalBit
  <1>7. /\ CallState(c) = "pending" /\ CallState(c)' = "done"
        /\ CallOp(c) = op[c] /\ CallOp(c)' = op[c]
        /\ CallResult(c)' = rv
    BY Zenon, <1>1, <1>3, <1>4, <1>5, <1>6 DEF CallState, CallOp, CallResult
  <1>8. \A d \in Clients \ {c} : /\ CallState(d)' = CallState(d)
                                 /\ CallOp(d)' = CallOp(d)
                                 /\ CallResult(d)' = CallResult(d)
    <2> TAKE d \in Clients \ {c}
    <2>1. (cpc'[d] \in {"spin", "read"}) <=> (cpc[d] \in {"spin", "read"})
      BY Zenon, <1>1
    <2>2. Server(d)' = Server(d) /\ op'[d] = op[d]
      BY Zenon, <1>1 DEF Server
    <2>3. LocalBit(d, Server(d))' <=> LocalBit(d, Server(d))
      BY Zenon, <1>1, <2>2 DEF LocalBit
    <2>4. Server(d) \in Servers /\ LineOf(d) \in Blk /\ WordOf(d) \in Words
      BY Zenon, ServerType, SlotTypes DEF ChannelInv
    <2>5. SockBit(d, Server(d))' <=> SockBit(d, Server(d))
      <3> DEFINE r == Server(d)
      <3>1. r' = r /\ r \in Servers
        BY ZenonT(60), <2>2, <2>4
      <3>2. IdOf[d] \in socket_client_flags'[r][ChipOf[d]]
              <=> IdOf[d] \in socket_client_flags[r][ChipOf[d]]
        <4> HIDE DEF r
        <4> QED
          BY <1>2, <3>1 DEF Completes, SockBit
      <3> QED
        BY Zenon, <3>1, <3>2 DEF SockBit
    <2>6. ~ (LineOf(d) = blk[s] /\ WordOf(d) = idx[s])
      BY Zenon, <1>2, WordUnique DEF Completes
    <2>7. local_return_values'[Server(d)][LineOf(d)][WordOf(d)]
            = local_return_values[Server(d)][LineOf(d)][WordOf(d)]
      <3>1. \A r \in Servers, b \in Blk, w \in Words :
              ~(r = s /\ b = blk[s] /\ w = idx[s]) =>
                local_return_values'[r][b][w] = local_return_values[r][b][w]
        BY Zenon, <1>2 DEF Completes
      <3> QED
        BY Zenon, <2>4, <2>6, <3>1
    <2> QED
      BY Zenon, <2>1, <2>2, <2>3, <2>5, <2>7, SameCall
  <1>9. /\ stBar[c] = "pending" /\ opBar[c] = op[c]
        /\ stBar' = [stBar EXCEPT ![c] = "done"]
        /\ resBar' = [resBar EXCEPT ![c] = rv]
        /\ opBar' = opBar
    <2>1. opBar' = [opBar EXCEPT ![c] = op[c]] /\ opBar[c] = op[c]
      BY Zenon, <1>7, <1>8, OneCall
    <2>2. opBar' = opBar
      BY Zenon, <2>1 DEF opBar
    <2> QED
      BY Zenon, <1>7, <1>8, <2>2, OneCall
  <1>10. Abstract!Execute(c)
    BY Zenon, <1>1, <1>4, <1>9 DEF Abstract!Execute, rv
  <1> QED
    BY Zenon, <1>10 DEF Abstract!Next
-----------------------------------------------------------------------------
\* The other steps of a client are not visible: they prepare a call, or notice
\* that it was answered.
LEMMA ClientQuiet ==
  ASSUME ChannelInv, NEW c \in Clients,
         WriteFptr(c) \/ PrepareRequest(c) \/ SpinDone(c) \/ ClientExit(c)
  PROVE  UNCHANGED Abstract!vars
  <1>1. UNCHANGED <<local_client_flag, socket_client_flags, local_return_values, mem, ret>>
    BY Zenon DEF WriteFptr, PrepareRequest, SpinDone, ClientExit, flagVars
  <1>2. /\ \A d \in Clients : cpc'[d] \in {"spin", "read"} <=> cpc[d] \in {"spin", "read"}
        /\ \A d \in Clients : cpc[d] \in {"spin", "read"} => op'[d] = op[d]
    BY Zenon DEF ChannelInv, TypeOK, ClientTypeOK, WriteFptr, PrepareRequest, SpinDone, ClientExit
  <1>3. ASSUME NEW d \in Clients
        PROVE  /\ CallState(d)' = CallState(d)
               /\ CallOp(d)' = CallOp(d)
               /\ CallResult(d)' = CallResult(d)
    <2>1. cpc[d] \in {"spin", "read"} =>
            /\ op'[d] = op[d]
            /\ LocalBit(d, Server(d))' <=> LocalBit(d, Server(d))
            /\ SockBit(d, Server(d))' <=> SockBit(d, Server(d))
            /\ local_return_values'[Server(d)][LineOf(d)][WordOf(d)]
                 = local_return_values[Server(d)][LineOf(d)][WordOf(d)]
      BY Zenon, <1>1, <1>2 DEF LocalBit, SockBit, Server
    <2> QED
      BY Zenon, <1>2, <2>1, SameCall
  <1> QED
    BY Zenon, <1>1, <1>3, Stutter

\* So are the steps that leave the clients and the server's own bits and results
\* alone: polling, loading, copying, and those of the main thread.
LEMMA ServerQuiet ==
  ASSUME UNCHANGED <<cpc, op, local_client_flag, socket_client_flags,
                     local_return_values, mem, ret>>
  PROVE  UNCHANGED Abstract!vars
  <1>1. ASSUME NEW d \in Clients
        PROVE  /\ CallState(d)' = CallState(d)
               /\ CallOp(d)' = CallOp(d)
               /\ CallResult(d)' = CallResult(d)
    BY Zenon, SameCall DEF LocalBit, SockBit, Server
  <1> QED
    BY Zenon, <1>1, Stutter

\* Every step of the channel is a step of the service or invisible.
LEMMA StepService ==
  ChannelInv /\ [Next]_vars => [Abstract!Next]_(Abstract!vars)
  <1> SUFFICES ASSUME ChannelInv, [Next]_vars
               PROVE  Abstract!Next \/ UNCHANGED Abstract!vars
    BY Zenon
  <1>1. ASSUME NEW c \in Clients, ClientStep(c)
        PROVE  Abstract!Next \/ UNCHANGED Abstract!vars
    BY Zenon, <1>1, RaiseFlagStep, ReadReturnStep, ClientQuiet DEF ClientStep
  <1>2. ASSUME NEW s \in Servers, ServerStep(s)
        PROVE  Abstract!Next \/ UNCHANGED Abstract!vars
    <2>1. CASE FinishCall(s)
      BY Zenon, <2>1, FinishCallStep
    <2>2. CASE ServerPass(s) \/ ServerExit(s) \/ PollMiss(s) \/ PollHit(s)
      BY Zenon, <2>2, ServerQuiet
      DEF ServerPass, ServerExit, PollMiss, PollHit, clientVars, flagVars
    <2>3. CASE LoadArgs(s) \/ CallFptr(s) \/ NothingNew(s) \/ StartCopy(s)
      BY Zenon, <2>3, ServerQuiet
      DEF LoadArgs, CallFptr, NothingNew, StartCopy, clientVars, flagVars
    <2>4. CASE CopyValue(s) \/ CopyFlags(s)
      BY Zenon, <2>4, ServerQuiet DEF CopyValue, CopyFlags, clientVars, flagVars
    <2> QED
      BY Zenon, <1>2, <2>1, <2>2, <2>3, <2>4 DEF ServerStep
  <1>3. CASE MainStep
    BY Zenon, <1>3, ServerQuiet
    DEF MainStep, SetStop, JoinClients, Shutdown, JoinServers, clientVars, flagVars
  <1>4. CASE UNCHANGED vars
    BY Zenon, <1>4, ServerQuiet DEF vars, clientVars, flagVars
  <1> QED
    BY Zenon, <1>1, <1>2, <1>3, <1>4 DEF Next, Terminated

\* Delegation through libffwd is linearizable, for every number of clients,
\* servers and chips, and whatever the delegated functions compute.
THEOREM ChannelLinearizable == Spec => Linearizable
  BY InitService, StepService, ChannelInvariant, PTL
  DEF Spec, Linearizable, Abstract!Spec
-----------------------------------------------------------------------------
\* A request that is raised and not executed shows in two copies of its bit.
LEMMA PendingBits ==
  ASSUME NEW c \in Clients, NEW s \in Servers
  PROVE  /\ Pending(c, s) <=> Waiting(c, s) /\ SockBit(c, s) # LocalBit(c, s)
         /\ Pending(c, s)' <=> Waiting(c, s)' /\ SockBit(c, s)' # LocalBit(c, s)'
  BY DEF Pending, Xor, SockBit, LocalBit

\* A position is a slot, as numbers.
LEMMA SlotNumbers ==
  ASSUME TypeOK, NEW s \in Servers, NEW c \in Clients
  PROVE  /\ LineOf(c) \in Nat /\ LineOf(c) < 2 * NChips
         /\ WordOf(c) \in Nat /\ WordOf(c) < NCLIENTS
         /\ blk[s] \in Nat /\ idx[s] \in Nat /\ NChips \in Nat /\ NCLIENTS \in Nat
  <1>1. LineOf(c) \in Blk /\ WordOf(c) \in Words /\ blk[s] \in Blk /\ idx[s] \in 0 .. NCLIENTS
    BY Zenon, SlotTypes DEF TypeOK, PosTypeOK
  <1> QED BY <1>1, SizeAssumption DEF Blk, Words

\* How a server moves along the slots: it stays, goes on by one, or starts over.
Stays(s) == \A e \in Clients : Behind(s, e)' <=> Behind(s, e)
GoesOn(s) ==
  /\ PollMiss(s) \/ FinishCall(s)
  /\ spc[s] # "copy"
  /\ \A e \in Clients : Behind(s, e)' <=> Behind(s, e) \/ At(s, e)
StartsOver(s) == \A e \in Clients : Behind(s, e) /\ ~Behind(s, e)'

\* It stays where it is unless its position changes.
LEMMA PositionStays ==
  ASSUME NEW s \in Servers, blk'[s] = blk[s], idx'[s] = idx[s],
         spc'[s] = "copy" <=> spc[s] = "copy"
  PROVE  Stays(s)
  BY Zenon DEF Stays, Behind, LineOf, WordOf

\* It polls a slot.
LEMMA PositionGoesOn ==
  ASSUME TypeOK, NEW s \in Servers, PollMiss(s) \/ FinishCall(s)
  PROVE  GoesOn(s)
  <1>1. /\ spc[s] \in {"poll", "work"} /\ spc'[s] = "poll"
        /\ blk'[s] = blk[s] /\ idx'[s] = idx[s] + 1
    BY Zenon DEF TypeOK, PosTypeOK, PollMiss, FinishCall, posVars
  <1>2. spc[s] # "copy" /\ spc'[s] # "copy"
    BY <1>1
  <1>3. ASSUME NEW e \in Clients PROVE Behind(s, e)' <=> Behind(s, e) \/ At(s, e)
    <2>1. LineOf(e)' = LineOf(e) /\ WordOf(e)' = WordOf(e)
      BY Zenon DEF LineOf, WordOf
    <2> QED BY <1>1, <1>2, <2>1, SlotNumbers DEF Behind, At
  <1> QED BY Zenon, <1>2, <1>3 DEF GoesOn

\* It leaves a half, for the next one or for the first.
LEMMA PositionLeaves ==
  ASSUME TypeOK, NEW s \in Servers, NextHalf(s), idx[s] = NCLIENTS \/ spc[s] = "copy"
  PROVE  Stays(s) \/ StartsOver(s)
  <1>1. /\ spc'[s] # "copy" /\ idx'[s] = 0
        /\ blk'[s] = IF blk[s] = 2 * NChips - 1 THEN 0 ELSE blk[s] + 1
    BY DEF TypeOK, PosTypeOK, NextHalf
  <1>2. \A e \in Clients : LineOf(e)' = LineOf(e) /\ WordOf(e)' = WordOf(e)
    BY Zenon DEF LineOf, WordOf
  <1>3. CASE blk[s] = 2 * NChips - 1
    <2>1. ASSUME NEW e \in Clients PROVE Behind(s, e) /\ ~Behind(s, e)'
      BY <1>1, <1>2, <1>3, SlotNumbers DEF Behind
    <2> QED BY Zenon, <2>1 DEF StartsOver
  <1>4. CASE blk[s] # 2 * NChips - 1
    <2>1. ASSUME NEW e \in Clients PROVE Behind(s, e)' <=> Behind(s, e)
      BY <1>1, <1>2, <1>4, SlotNumbers DEF Behind
    <2> QED BY Zenon, <2>1 DEF Stays
  <1> QED BY Zenon, <1>3, <1>4

\* The words of a half are copied.
LEMMA PositionCopies ==
  ASSUME TypeOK, NEW s \in Servers, StartCopy(s) \/ CopyValue(s)
  PROVE  Stays(s)
  <1>1. /\ spc'[s] = "copy" /\ blk'[s] = blk[s]
        /\ spc[s] = "copy" \/ idx[s] = NCLIENTS
    BY Zenon DEF TypeOK, PosTypeOK, StartCopy, CopyValue
  <1>2. ASSUME NEW e \in Clients PROVE Behind(s, e)' <=> Behind(s, e)
    <2>1. LineOf(e)' = LineOf(e) /\ WordOf(e)' = WordOf(e)
      BY Zenon DEF LineOf, WordOf
    <2> QED BY <1>1, <2>1, SlotNumbers DEF Behind
  <1> QED BY Zenon, <1>2 DEF Stays

\* A step of a server moves it along the slots, and no other server.
LEMMA ServerMoves ==
  ASSUME TypeOK, NEW r \in Servers, ServerStep(r), NEW s \in Servers
  PROVE  Stays(s) \/ GoesOn(s) \/ StartsOver(s)
  <1>1. CASE r # s
    <2>1. spc'[s] = spc[s] /\ blk'[s] = blk[s] /\ idx'[s] = idx[s]
      BY Zenon, <1>1, NextHalfPosition
         DEF TypeOK, PosTypeOK, ServerStep, ServerPass, ServerExit, PollMiss, PollHit, LoadArgs,
             CallFptr, FinishCall, NothingNew, StartCopy, CopyValue, CopyFlags
    <2> QED BY Zenon, <2>1, PositionStays
  <1>2. CASE r = s
    <2>1. CASE ServerPass(s) \/ ServerExit(s) \/ PollHit(s) \/ LoadArgs(s) \/ CallFptr(s)
      <3>1. /\ blk'[s] = blk[s] /\ idx'[s] = idx[s]
            /\ spc[s] \in {"loop", "poll", "load", "call"}
            /\ spc'[s] \in {"poll", "exited", "load", "call", "work"}
        BY Zenon, <2>1 DEF TypeOK, PosTypeOK, ServerPass, ServerExit, PollHit, LoadArgs, CallFptr
      <3>2. spc[s] # "copy" /\ spc'[s] # "copy"
        BY <3>1
      <3> QED BY Zenon, <3>1, <3>2, PositionStays
    <2>2. CASE PollMiss(s) \/ FinishCall(s)
      BY Zenon, <2>2, PositionGoesOn
    <2>3. CASE NothingNew(s) \/ CopyFlags(s)
      BY Zenon, <2>3, PositionLeaves DEF NothingNew, CopyFlags
    <2>4. CASE StartCopy(s) \/ CopyValue(s)
      BY Zenon, <2>4, PositionCopies
    <2> QED BY Zenon, <1>2, <2>1, <2>2, <2>3, <2>4 DEF ServerStep
  <1> QED BY Zenon, <1>1, <1>2

\* Every step moves a server along the slots.
LEMMA Moves ==
  ASSUME TypeOK, [Next]_vars, NEW s \in Servers
  PROVE  Stays(s) \/ GoesOn(s) \/ StartsOver(s)
  <1>1. CASE \E r \in Servers : ServerStep(r)
    BY Zenon, <1>1, ServerMoves
  <1>2. CASE UNCHANGED posVars
    <2>1. spc' = spc /\ blk' = blk /\ idx' = idx
      BY Zenon, <1>2 DEF posVars
    <2> QED BY Zenon, <2>1, PositionStays
  <1>3. CASE \E c \in Clients : ClientStep(c)
    <2>1. UNCHANGED posVars
      BY Zenon, <1>3 DEF ClientStep, WriteFptr, PrepareRequest, RaiseFlag, SpinDone, ReadReturn, ClientExit
    <2> QED BY Zenon, <2>1, <1>2
  <1>4. CASE MainStep
    <2>1. UNCHANGED posVars
      BY Zenon, <1>4 DEF MainStep, SetStop, JoinClients, Shutdown, JoinServers
    <2> QED BY Zenon, <2>1, <1>2
  <1>5. CASE UNCHANGED vars
    <2>1. UNCHANGED posVars
      BY Zenon, <1>5 DEF vars
    <2> QED BY Zenon, <2>1, <1>2
  <1> QED BY Zenon, <1>1, <1>3, <1>4, <1>5 DEF Next, Terminated

\* A server does not pass the slot of a client whose request is raised before it
\* has executed it.
LEMMA NotPassed ==
  ASSUME ChannelInv, NEW s \in Servers, NEW c \in Clients, GoesOn(s), Pending(c, s), Pending(c, s)'
  PROVE  ~At(s, c)
  <1> SUFFICES ASSUME At(s, c) PROVE FALSE
    OBVIOUS
  <1>1. /\ TypeOK /\ CallPosition /\ Agree(c, s)
        /\ blk[s] = LineOf(c) /\ idx[s] = WordOf(c)
    BY ZenonT(60) DEF ChannelInv, Handshake, At
  <1>2. idx[s] < NCLIENTS
    BY <1>1, SlotNumbers
  <1>3. ChipOf[c] = ChipAt(s) /\ IdOf[c] = SlotAt(s)
    BY ZenonT(60), <1>1, <1>2, PositionOfClient
  <1>4. CASE PollMiss(s)
    <2>1. OldBit(c, s) <=> ReqBit(c, s)
      BY Zenon, <1>3, <1>4 DEF PollMiss, Raised, Xor, OldBit, ReqBit
    <2>2. SockBit(c, s) # LocalBit(c, s)
      BY Zenon, PendingBits
    <2>3. ReqBit(c, s) = LocalBit(c, s) /\ (OldBit(c, s) # SockBit(c, s) => SockBit(c, s) = LocalBit(c, s))
      BY Zenon, <1>1 DEF Agree
    <2> QED BY SMTT(60), <2>1, <2>2, <2>3 DEF ReqBit, SockBit, OldBit, LocalBit
  <1>5. CASE FinishCall(s)
    <2>1. PICK d \in Clients : Completes(s, d)
      BY Zenon, <1>5, FinishCallEffect
    <2>2. d = c
      BY Zenon, <1>1, <2>1, WordUnique DEF Completes
    <2>3. LocalBit(c, s)' = LocalBit(c, s)
      BY Zenon, <1>5 DEF FinishCall, clientVars, LocalBit
    <2>4. SockBit(c, s)' # SockBit(c, s) /\ SockBit(c, s) # LocalBit(c, s)
      BY Zenon, <2>1, <2>2, PendingBits DEF Completes
    <2>5. SockBit(c, s)' # LocalBit(c, s)'
      BY Zenon, PendingBits
    <2> QED BY SMTT(60), <2>3, <2>4, <2>5 DEF SockBit, LocalBit
  <1> QED BY Zenon, <1>4, <1>5 DEF GoesOn

\* A client that waits through a step waits on the same server.
LEMMA SameServer ==
  ASSUME TypeOK, [Next]_vars, NEW c \in Clients, NEW s \in Servers, NEW t \in Servers,
         Pending(c, s), Pending(c, t)'
  PROVE  s = t
  <1>1. /\ cpc[c] \in {"spin", "read"} /\ Server(c) = s
        /\ cpc'[c] \in {"spin", "read"} /\ Server(c)' = t
    BY Zenon DEF Pending, Waiting
  <1>2. op'[c] = op[c]
    <2>1. CASE \E d \in Clients : WriteFptr(d)
      <3>1. PICK d \in Clients : WriteFptr(d)
        BY Zenon, <2>1
      <3>2. cpc'[d] = "args" /\ (c # d => op'[c] = op[c])
        BY Zenon, <3>1 DEF WriteFptr, TypeOK, ClientTypeOK
      <3>3. c # d
        BY <1>1, <3>2
      <3> QED BY Zenon, <3>2, <3>3
    <2>2. CASE op' = op
      BY Zenon, <2>2
    <2>3. CASE \E d \in Clients : ClientStep(d)
      BY Zenon, <2>1, <2>2, <2>3
         DEF ClientStep, PrepareRequest, RaiseFlag, SpinDone, ReadReturn, ClientExit
    <2>4. CASE \E r \in Servers : ServerStep(r)
      <3>1. UNCHANGED clientVars
        BY Zenon, <2>4
           DEF ServerStep, ServerPass, ServerExit, PollMiss, PollHit, LoadArgs,
               CallFptr, FinishCall, NothingNew, StartCopy, CopyValue, CopyFlags
      <3> QED BY Zenon, <2>2, <3>1 DEF clientVars
    <2>5. CASE MainStep
      <3>1. UNCHANGED clientVars
        BY Zenon, <2>5 DEF MainStep, SetStop, JoinClients, Shutdown, JoinServers
      <3> QED BY Zenon, <2>2, <3>1 DEF clientVars
    <2>6. CASE UNCHANGED vars
      BY Zenon, <2>2, <2>6 DEF vars, clientVars
    <2> QED BY Zenon, <2>3, <2>4, <2>5, <2>6 DEF Next, Terminated
  <1> QED BY Zenon, <1>1, <1>2 DEF Server

\* While c waits, its server stays on the way to c's slot before that of d.
LEMMA KeepsOrder ==
  ASSUME ChannelInv, [Next]_vars, NEW c \in Clients, NEW d \in Clients, NEW s \in Servers,
         Pending(c, s), Pending(c, s)', First(s, c, d)
  PROVE  First(s, c, d)'
  <1>1. Before(c, d)' <=> Before(c, d)
    BY Zenon DEF Before, LineOf, WordOf
  <1>2. CASE Stays(s)
    BY Zenon, <1>1, <1>2 DEF Stays, First
  <1>3. CASE GoesOn(s)
    <2>1. ~At(s, c)
      BY Zenon, <1>3, NotPassed
    <2> QED BY Zenon, <1>1, <1>3, <2>1 DEF GoesOn, First
  <1>4. CASE StartsOver(s)
    BY Zenon, <1>1, <1>4 DEF StartsOver, First
  <1>5. TypeOK
    BY Zenon DEF ChannelInv
  <1> QED BY Zenon, <1>2, <1>3, <1>4, <1>5, Moves

\* A client that is served while c waits came before c, and will not again.
LEMMA ServedFirst ==
  ASSUME ChannelInv, [Next]_vars, NEW c \in Clients, NEW d \in Clients, d # c, NEW s \in Servers,
         Pending(c, s), Pending(c, s)', Serves(s, d)
  PROVE  ~First(s, c, d) /\ First(s, c, d)'
  <1>1. TypeOK /\ CallPosition /\ spc[s] = "work" /\ spc'[s] = "poll" /\ Serving(s, d)
    BY Zenon DEF ChannelInv, Serves
  <1>2. idx[s] < NCLIENTS
    BY Zenon, <1>1 DEF CallPosition
  <1>3. At(s, d)
    BY Zenon, <1>1, <1>2, PositionOfClient DEF At, Serving
  <1>4. ~Behind(s, d)
    BY <1>1, <1>3, SlotNumbers DEF At, Behind
  <1>5. GoesOn(s)
    <2>1. FinishCall(s)
      <3>1. spc[s] # spc'[s]
        BY <1>1
      <3>2. \E r \in Servers : ServerStep(r)
        <4>1. ~UNCHANGED posVars
          BY Zenon, <3>1 DEF posVars
        <4> QED BY Zenon, <4>1
              DEF Next, Terminated, vars, ClientStep, WriteFptr, PrepareRequest, RaiseFlag, SpinDone,
                  ReadReturn, ClientExit, MainStep, SetStop, JoinClients, Shutdown, JoinServers
      <3>3. PICK r \in Servers : ServerStep(r)
        BY Zenon, <3>2
      <3>4. r = s
        <4> SUFFICES ASSUME r # s PROVE spc'[s] = spc[s]
          BY Zenon, <3>1
        <4> QED BY Zenon, <1>1, <3>3, NextHalfPosition
             DEF TypeOK, PosTypeOK, ServerStep, ServerPass, ServerExit, PollMiss, PollHit, LoadArgs,
                 CallFptr, FinishCall, NothingNew, StartCopy, CopyValue, CopyFlags
      <3>5. spc[s] # "loop" /\ spc[s] # "poll" /\ spc[s] # "load" /\ spc[s] # "call" /\ spc[s] # "copy"
        BY <1>1
      <3> QED BY Zenon, <3>3, <3>4, <3>5
             DEF ServerStep, ServerPass, ServerExit, PollMiss, PollHit, LoadArgs,
                 CallFptr, NothingNew, StartCopy, CopyValue, CopyFlags
    <2> QED BY Zenon, <1>1, <2>1, PositionGoesOn
  <1>6. ~At(s, c) /\ Behind(s, d)' /\ (Behind(s, c)' <=> Behind(s, c))
    BY Zenon, <1>3, <1>5, NotPassed DEF GoesOn
  <1>7. Behind(s, c) => Before(c, d)
    BY <1>1, <1>3, SlotNumbers DEF At, Behind, Before
  <1>8. ~Behind(s, c) => ~Before(c, d)
    <2>1. ASSUME ~Behind(s, c), Before(c, d) PROVE FALSE
      BY <1>1, <1>3, <1>6, <2>1, SlotNumbers DEF At, Behind, Before
    <2> QED BY Zenon, <2>1
  <1>9. Before(c, d)' <=> Before(c, d)
    BY Zenon DEF Before, LineOf, WordOf
  <1> QED BY Zenon, <1>4, <1>6, <1>7, <1>8, <1>9 DEF First

\* A step counts right: a client is counted once, and is then behind c.
LEMMA BypassStep ==
  ASSUME ChannelInv, BypassInv, [BypassNext]_allVars
  PROVE  BypassInv'
  <1>1. CASE UNCHANGED allVars
    <2>1. UNCHANGED vars /\ overtaken' = overtaken
      BY Zenon, <1>1 DEF allVars
    <2>2. ASSUME NEW c \in Clients, NEW s \in Servers PROVE Pending(c, s)' <=> Pending(c, s)
      BY Zenon, <2>1 DEF vars, clientVars, flagVars, Pending, Waiting, Server, Xor
    <2>3. ASSUME NEW c \in Clients, NEW d \in Clients, overtaken'[c][d] = 1
          PROVE  \E s \in Servers : Pending(c, s)' /\ First(s, c, d)'
      <3>1. PICK s \in Servers : Pending(c, s) /\ First(s, c, d)
        BY Zenon, <2>1, <2>3 DEF BypassInv
      <3>2. Pending(c, s)' /\ [Next]_vars
        BY Zenon, <2>1, <2>2, <3>1
      <3> QED BY Zenon, <3>1, <3>2, KeepsOrder
    <2> QED BY Zenon, <2>1, <2>3 DEF BypassInv
  <1>2. CASE Next /\ Count
    <2>0. TypeOK /\ [Next]_vars
      BY Zenon, <1>2 DEF ChannelInv
    <2>1. ASSUME NEW c \in Clients, NEW d \in Clients
          PROVE  /\ overtaken'[c][d] \in {0, 1}
                 /\ overtaken'[c][d] = 1 => \E s \in Servers : Pending(c, s)' /\ First(s, c, d)'
      <3>1. CASE ~ \E s \in Servers : Pending(c, s)'
        BY <1>2, <3>1 DEF Count
      <3>2. CASE \E s \in Servers : Pending(c, s)'
        <4>1. PICK t \in Servers : Pending(c, t)'
          BY Zenon, <3>2
        <4>2. CASE d # c /\ \E s \in Servers : Pending(c, s) /\ Serves(s, d)
          <5>1. PICK s \in Servers : Pending(c, s) /\ Serves(s, d)
            BY Zenon, <4>2
          <5>2. s = t
            BY Zenon, <2>0, <4>1, <5>1, SameServer
          <5>3. ~First(s, c, d) /\ First(s, c, d)'
            BY Zenon, <2>0, <4>1, <4>2, <5>1, <5>2, ServedFirst
          <5>4. overtaken[c][d] # 1
            <6> SUFFICES ASSUME overtaken[c][d] = 1 PROVE FALSE
              OBVIOUS
            <6>1. PICK r \in Servers : Pending(c, r) /\ First(r, c, d)
              BY Zenon DEF BypassInv
            <6>2. r = s
              BY Zenon, <5>1, <6>1 DEF Pending, Waiting
            <6> QED BY Zenon, <5>3, <6>1, <6>2
          <5>5. overtaken'[c][d] = overtaken[c][d] + 1
            BY Zenon, <1>2, <3>2, <4>2 DEF Count
          <5>6. overtaken[c][d] = 0
            BY Zenon, <5>4 DEF BypassInv
          <5> QED BY <4>1, <5>2, <5>3, <5>5, <5>6
        <4>3. CASE ~(d # c /\ \E s \in Servers : Pending(c, s) /\ Serves(s, d))
          <5>1. overtaken'[c][d] = overtaken[c][d]
            BY Zenon, <1>2, <3>2, <4>3 DEF Count
          <5>2. overtaken'[c][d] \in {0, 1}
            BY Zenon, <5>1 DEF BypassInv
          <5>3. ASSUME overtaken'[c][d] = 1
                PROVE  \E s \in Servers : Pending(c, s)' /\ First(s, c, d)'
            <6>1. PICK s \in Servers : Pending(c, s) /\ First(s, c, d)
              BY Zenon, <5>1, <5>3 DEF BypassInv
            <6>2. s = t
              BY Zenon, <2>0, <4>1, <6>1, SameServer
            <6> QED BY Zenon, <2>0, <4>1, <6>1, <6>2, KeepsOrder
          <5> QED BY Zenon, <5>2, <5>3
        <4> QED BY Zenon, <4>2, <4>3
      <3> QED BY Zenon, <3>1, <3>2
    <2>2. overtaken' = [c \in Clients |-> [d \in Clients |-> overtaken'[c][d]]]
      BY Zenon, <1>2 DEF Count
    <2>3. overtaken' \in [Clients -> [Clients -> {0, 1}]]
      BY Zenon, <2>1, <2>2
    <2> QED BY Zenon, <2>1, <2>3 DEF BypassInv
  <1> QED BY Zenon, <1>1, <1>2 DEF BypassNext

\* Between the store of a client's flag word and the execution of its request, its
\* server executes no other client's requests twice: the scan of server_func, for
\* any number of clients, servers and chips.
THEOREM OvertakenOnce == BypassSpec => []NoDoubleOvertaking
  <1>1. BypassInit => ChannelInv /\ BypassInv
    <2> SUFFICES ASSUME BypassInit PROVE ChannelInv /\ BypassInv
      OBVIOUS
    <2>1. overtaken = [c \in Clients |-> [d \in Clients |-> 0]]
      BY Zenon DEF BypassInit
    <2>2. overtaken \in [Clients -> [Clients -> {0, 1}]]
      BY Zenon, <2>1
    <2>3. \A c, d \in Clients : overtaken[c][d] # 1
      BY <2>1
    <2> QED BY Zenon, <2>2, <2>3, InitInv DEF BypassInit, BypassInv
  <1>2. ChannelInv /\ BypassInv /\ [BypassNext]_allVars => (ChannelInv /\ BypassInv)'
    BY Zenon, BypassStep, StepInv DEF BypassNext, allVars
  <1>3. BypassInv => NoDoubleOvertaking
    <2> SUFFICES ASSUME BypassInv, NEW c \in Clients, NEW d \in Clients
                 PROVE  overtaken[c][d] <= 1
      BY Zenon DEF NoDoubleOvertaking
    <2>1. overtaken[c][d] \in {0, 1}
      BY Zenon DEF BypassInv
    <2> QED BY <2>1
  <1> QED BY <1>1, <1>2, <1>3, PTL DEF BypassSpec
=============================================================================
