-------------------------------- MODULE Ffwd --------------------------------
(***************************************************************************)
(* The delegation channel of libffwd: the client side (FFWD_EXEC), the     *)
(* server loop (server_func) and the part of the main thread that ends a   *)
(* run (stop the clients, join them, ffwd_shutdown).                       *)
(*                                                                         *)
(* A client and a server share two cache lines.  The request line is       *)
(* written by the client only: function pointer, arguments, flag word.     *)
(* The response line is written by the server only and is shared by the    *)
(* NCLIENTS clients of one half of a chip: NCLIENTS return values, then    *)
(* the flag word of the chip.  A request is raised by toggling the         *)
(* client's bit in its flag word, and answered by toggling the same bit    *)
(* in the response line.                                                   *)
(*                                                                         *)
(* A flag word is modelled as the set of the bit positions that are set;   *)
(* exclusive or of two words is then the symmetric difference.  Every      *)
(* store to a shared line is a step of its own, in program order.          *)
(***************************************************************************)
EXTENDS Integers

CONSTANTS
  Clients,     \* client threads (ffwd_thread_create)
  Servers,     \* server threads (launch_servers)
  NChips,      \* chips a server polls; the library's MAX_SOCK, 4
  NCLIENTS,    \* clients per response line; 7 or 15 in the library
  ChipOf,      \* ChipOf[c]: my_chip of client c
  IdOf,        \* IdOf[c]: id_in_chip of client c
  Fns,         \* the delegated functions
  Vars,        \* the shared variables; a function's argument names one
  Vals,        \* values of variables and results
  InitVal,     \* the value memory is zeroed to
  Apply(_,_),  \* Apply(f, v): the new value and the result of f on value v
  ServerOf,    \* ServerOf[x]: the server the clients send requests on x to
  MaxOps       \* bound on the calls a client makes

Ids   == 0 .. (2 * NCLIENTS - 1)
Chip  == 0 .. (NChips - 1)
Blk   == 0 .. (2 * NChips - 1)     \* the halves of the chips, in polling order
Words == 0 .. (NCLIENTS - 1)       \* the return values of a response line
Ops   == [fn : Fns, var : Vars]

ASSUME SizeAssumption ==
  /\ NChips \in Nat \ {0}
  /\ NCLIENTS \in Nat \ {0}
  /\ MaxOps \in Nat

\* Distinct clients have distinct slots (see FfwdPlacement).
ASSUME SlotAssumption ==
  /\ ChipOf \in [Clients -> Chip]
  /\ IdOf \in [Clients -> Ids]
  /\ \A c, d \in Clients : ChipOf[c] = ChipOf[d] /\ IdOf[c] = IdOf[d] => c = d

\* A shared variable is served by one server.
ASSUME DataAssumption ==
  /\ ServerOf \in [Vars -> Servers]
  /\ Ops # {}
  /\ InitVal \in Vals
  /\ \A f \in Fns, v \in Vals : Apply(f, v) \in [val : Vals, ret : Vals]

VARIABLES
  \* main thread
  mpc,         \* where the main thread is
  stop,        \* tells the clients to leave their loop
  finished,    \* finished[0]: tells the servers to leave theirs
  \* clients
  cpc,         \* where each client is in FFWD_EXEC
  op,          \* the macro's arguments: function and argument
  local_client_flag, \* one flag word per server
  ret,         \* the macro's result
  ops,         \* calls completed
  \* request lines, by server, chip and id_in_chip
  fptr, argv, flag,
  \* servers
  spc,         \* where each server is in server_func
  blk,         \* the half of a chip it is polling
  idx,         \* the slot it polls or the word it copies, within the half
  old_client_flags,     \* by chip
  socket_client_flags,  \* by chip
  local_return_values,  \* by half
  arg,         \* argument register of the call in progress
  fun,         \* the function called
  tmp,         \* the variable's value as read by the call in progress
  \* response lines, by server and half
  return_values, flags,
  \* the data the delegated functions work on
  mem

mainVars == <<mpc, stop, finished>>
clientVars == <<cpc, op, local_client_flag, ret, ops>>
requestVars == <<fptr, argv, flag>>
posVars == <<spc, blk, idx>>
flagVars == <<old_client_flags, socket_client_flags>>
callVars == <<arg, fun, tmp>>
responseVars == <<return_values, flags>>
vars == <<mainVars, clientVars, requestVars, posVars, flagVars,
          local_return_values, callVars, responseVars, mem>>

MainTypeOK ==
  /\ mpc \in {"sleep", "join", "shutdown", "joinServers", "done"}
  /\ stop \in BOOLEAN
  /\ finished \in BOOLEAN

ClientTypeOK ==
  /\ cpc \in [Clients -> {"idle", "args", "raise", "spin", "read", "exited"}]
  /\ op \in [Clients -> Ops]
  /\ local_client_flag \in [Clients -> [Servers -> SUBSET Ids]]
  /\ ret \in [Clients -> Vals]
  /\ ops \in [Clients -> Nat]

RequestTypeOK ==
  /\ fptr \in [Servers -> [Chip -> [Ids -> Fns]]]
  /\ argv \in [Servers -> [Chip -> [Ids -> Vars]]]
  /\ flag \in [Servers -> [Chip -> [Ids -> SUBSET Ids]]]

PosTypeOK ==
  /\ spc \in [Servers -> {"loop", "poll", "load", "call", "work", "copy", "exited"}]
  /\ blk \in [Servers -> Blk]
  /\ idx \in [Servers -> 0 .. NCLIENTS]

FlagTypeOK ==
  /\ old_client_flags \in [Servers -> [Chip -> SUBSET Ids]]
  /\ socket_client_flags \in [Servers -> [Chip -> SUBSET Ids]]

CallTypeOK ==
  /\ arg \in [Servers -> Vars]
  /\ fun \in [Servers -> Fns]
  /\ tmp \in [Servers -> Vals]

ResponseTypeOK ==
  /\ return_values \in [Servers -> [Blk -> [Words -> Vals]]]
  /\ flags \in [Servers -> [Blk -> SUBSET Ids]]

BufferTypeOK == local_return_values \in [Servers -> [Blk -> [Words -> Vals]]]

MemTypeOK == mem \in [Vars -> Vals]

TypeOK ==
  /\ MainTypeOK
  /\ ClientTypeOK
  /\ RequestTypeOK
  /\ PosTypeOK
  /\ FlagTypeOK
  /\ CallTypeOK
  /\ ResponseTypeOK
  /\ BufferTypeOK
  /\ MemTypeOK
-----------------------------------------------------------------------------
Xor(a, b) == (a \ b) \cup (b \ a)

\* The client's bit, as a flag word.
mask(c) == {IdOf[c]}

\* The response line a client reads and its word in it.
LineOf(c) == 2 * ChipOf[c] + IdOf[c] \div NCLIENTS
WordOf(c) == IdOf[c] % NCLIENTS

\* Mutant: requests are routed by the client's chip, not by the variable.
ServerByChip(c) == ChipOf[c]

\* The server the call in progress of client c goes to.
Server(c) == ServerOf[op[c].var]

\* Where server s polls: the chip, and the slot in the chip.
ChipAt(s) == blk[s] \div 2
SlotAt(s) == (blk[s] % 2) * NCLIENTS + idx[s]
-----------------------------------------------------------------------------
\* Stand for the contents of words that are not yet written; no step uses them.
AnyOp == CHOOSE o \in Ops : TRUE
AnyFn == CHOOSE f \in Fns : TRUE
AnyVar == CHOOSE v \in Vars : TRUE

(* State at the time every server is launched and every client created:    *)
(* zeroed request and response lines, zeroed flag words.                   *)
Init ==
  /\ mpc = "sleep"
  /\ stop = FALSE
  /\ finished = FALSE
  /\ cpc = [c \in Clients |-> "idle"]
  /\ op = [c \in Clients |-> AnyOp]
  /\ local_client_flag = [c \in Clients |-> [s \in Servers |-> {}]]
  /\ ret = [c \in Clients |-> InitVal]
  /\ ops = [c \in Clients |-> 0]
  /\ fptr = [s \in Servers |-> [h \in Chip |-> [i \in Ids |-> AnyFn]]]
  /\ argv = [s \in Servers |-> [h \in Chip |-> [i \in Ids |-> AnyVar]]]
  /\ flag = [s \in Servers |-> [h \in Chip |-> [i \in Ids |-> {}]]]
  /\ spc = [s \in Servers |-> "loop"]
  /\ blk = [s \in Servers |-> 0]
  /\ idx = [s \in Servers |-> 0]
  /\ old_client_flags = [s \in Servers |-> [h \in Chip |-> {}]]
  /\ socket_client_flags = [s \in Servers |-> [h \in Chip |-> {}]]
  /\ local_return_values = [s \in Servers |-> [b \in Blk |-> [w \in Words |-> InitVal]]]
  /\ arg = [s \in Servers |-> AnyVar]
  /\ fun = [s \in Servers |-> AnyFn]
  /\ tmp = [s \in Servers |-> InitVal]
  /\ return_values = [s \in Servers |-> [b \in Blk |-> [w \in Words |-> InitVal]]]
  /\ flags = [s \in Servers |-> [b \in Blk |-> {}]]
  /\ mem = [x \in Vars |-> InitVal]
-----------------------------------------------------------------------------
(* The client: FFWD_EXEC, inside the loop of the benchmark's client.       *)

\* Choose a call and store the function pointer in the request line.
WriteFptr(c) ==
  /\ cpc[c] = "idle"
  /\ ~ stop
  /\ ops[c] < MaxOps
  /\ \E o \in Ops :
       /\ op' = [op EXCEPT ![c] = o]
       /\ fptr' = [fptr EXCEPT ![ServerOf[o.var]][ChipOf[c]][IdOf[c]] = o.fn]
  /\ cpc' = [cpc EXCEPT ![c] = "args"]
  /\ UNCHANGED <<mainVars, local_client_flag, ret, ops, argv, flag, posVars,
                 flagVars, local_return_values, callVars, responseVars, mem>>

\* prepare_request: store the argument.
PrepareRequest(c) ==
  /\ cpc[c] = "args"
  /\ argv' = [argv EXCEPT ![Server(c)][ChipOf[c]][IdOf[c]] = op[c].var]
  /\ cpc' = [cpc EXCEPT ![c] = "raise"]
  /\ UNCHANGED <<mainVars, op, local_client_flag, ret, ops, fptr, flag, posVars,
                 flagVars, local_return_values, callVars, responseVars, mem>>

\* Mutant: the flag word is stored before the argument.
RaiseFlagEarly(c) ==
  LET s == Server(c)
      word == Xor(local_client_flag[c][s], mask(c))
  IN  /\ cpc[c] = "args"
      /\ local_client_flag' = [local_client_flag EXCEPT ![c][s] = word]
      /\ flag' = [flag EXCEPT ![s][ChipOf[c]][IdOf[c]] = word]
      /\ cpc' = [cpc EXCEPT ![c] = "spin"]
      /\ UNCHANGED <<mainVars, op, ret, ops, fptr, argv, posVars,
                     flagVars, local_return_values, callVars, responseVars, mem>>

\* Toggle the client's bit and store the flag word: the request is raised.
RaiseFlag(c) ==
  LET s == Server(c)
      word == Xor(local_client_flag[c][s], mask(c))
  IN  /\ cpc[c] = "raise"
      /\ local_client_flag' = [local_client_flag EXCEPT ![c][s] = word]
      /\ flag' = [flag EXCEPT ![s][ChipOf[c]][IdOf[c]] = word]
      /\ cpc' = [cpc EXCEPT ![c] = "spin"]
      /\ UNCHANGED <<mainVars, op, ret, ops, fptr, argv, posVars,
                     flagVars, local_return_values, callVars, responseVars, mem>>

\* Mutant: the whole words are compared, not the client's bit.
SpinDoneWord(c) ==
  /\ cpc[c] = "spin"
  /\ flags[Server(c)][LineOf(c)] = local_client_flag[c][Server(c)]
  /\ cpc' = [cpc EXCEPT ![c] = "read"]
  /\ UNCHANGED <<mainVars, op, local_client_flag, ret, ops, requestVars, posVars,
                 flagVars, local_return_values, callVars, responseVars, mem>>

\* The spin loop ends when the client's bit of the response line agrees.
SpinDone(c) ==
  /\ cpc[c] = "spin"
  /\ IdOf[c] \notin Xor(flags[Server(c)][LineOf(c)], local_client_flag[c][Server(c)])
  /\ cpc' = [cpc EXCEPT ![c] = "read"]
  /\ UNCHANGED <<mainVars, op, local_client_flag, ret, ops, requestVars, posVars,
                 flagVars, local_return_values, callVars, responseVars, mem>>

\* Read the return value; the call is complete.
ReadReturn(c) ==
  /\ cpc[c] = "read"
  /\ ret' = [ret EXCEPT ![c] = return_values[Server(c)][LineOf(c)][WordOf(c)]]
  /\ ops' = [ops EXCEPT ![c] = @ + 1]
  /\ cpc' = [cpc EXCEPT ![c] = "idle"]
  /\ UNCHANGED <<mainVars, op, local_client_flag, requestVars, posVars,
                 flagVars, local_return_values, callVars, responseVars, mem>>

\* The client leaves its loop once told to.
ClientExit(c) ==
  /\ cpc[c] = "idle"
  /\ stop
  /\ cpc' = [cpc EXCEPT ![c] = "exited"]
  /\ UNCHANGED <<mainVars, op, local_client_flag, ret, ops, requestVars, posVars,
                 flagVars, local_return_values, callVars, responseVars, mem>>

ClientStep(c) ==
  \/ WriteFptr(c)
  \/ PrepareRequest(c)
  \/ RaiseFlag(c)
  \/ SpinDone(c)
  \/ ReadReturn(c)
  \/ ClientExit(c)
-----------------------------------------------------------------------------
(* The server: server_func.                                                *)

\* Mutant: the loop does not look at finished.
ServerPassAlways(s) ==
  /\ spc[s] = "loop"
  /\ spc' = [spc EXCEPT ![s] = "poll"]
  /\ UNCHANGED <<mainVars, clientVars, requestVars, blk, idx, flagVars,
                 local_return_values, callVars, responseVars, mem>>

\* while (finished[0] != 1): start a pass over the chips ...
ServerPass(s) ==
  /\ spc[s] = "loop"
  /\ ~ finished
  /\ spc' = [spc EXCEPT ![s] = "poll"]
  /\ UNCHANGED <<mainVars, clientVars, requestVars, blk, idx, flagVars,
                 local_return_values, callVars, responseVars, mem>>

\* ... or leave.
ServerExit(s) ==
  /\ spc[s] = "loop"
  /\ finished
  /\ spc' = [spc EXCEPT ![s] = "exited"]
  /\ UNCHANGED <<mainVars, clientVars, requestVars, blk, idx, flagVars,
                 local_return_values, callVars, responseVars, mem>>

\* SERVER_CODE's test: the slot's flag word disagrees with the flags the
\* server held when it started on this half.
Raised(s) ==
  SlotAt(s) \in Xor(old_client_flags[s][ChipAt(s)],
                    flag[s][ChipAt(s)][SlotAt(s)])

PollMiss(s) ==
  /\ spc[s] = "poll"
  /\ idx[s] < NCLIENTS
  /\ ~ Raised(s)
  /\ idx' = [idx EXCEPT ![s] = @ + 1]
  /\ UNCHANGED <<mainVars, clientVars, requestVars, spc, blk, flagVars,
                 local_return_values, callVars, responseVars, mem>>

PollHit(s) ==
  /\ spc[s] = "poll"
  /\ idx[s] < NCLIENTS
  /\ Raised(s)
  /\ spc' = [spc EXCEPT ![s] = "load"]
  /\ UNCHANGED <<mainVars, clientVars, requestVars, blk, idx, flagVars,
                 local_return_values, callVars, responseVars, mem>>

\* Load the argument registers from the request line.
LoadArgs(s) ==
  /\ spc[s] = "load"
  /\ arg' = [arg EXCEPT ![s] = argv[s][ChipAt(s)][SlotAt(s)]]
  /\ spc' = [spc EXCEPT ![s] = "call"]
  /\ UNCHANGED <<mainVars, clientVars, requestVars, blk, idx, flagVars,
                 local_return_values, fun, tmp, responseVars, mem>>

\* Call through the function pointer; the function reads its variable ...
CallFptr(s) ==
  /\ spc[s] = "call"
  /\ fun' = [fun EXCEPT ![s] = fptr[s][ChipAt(s)][SlotAt(s)]]
  /\ tmp' = [tmp EXCEPT ![s] = mem[arg[s]]]
  /\ spc' = [spc EXCEPT ![s] = "work"]
  /\ UNCHANGED <<mainVars, clientVars, requestVars, blk, idx, flagVars,
                 local_return_values, arg, responseVars, mem>>

\* ... and writes it; the result and the toggled bit stay with the server.
FinishCall(s) ==
  LET h == ChipAt(s)
      out == Apply(fun[s], tmp[s])
  IN  /\ spc[s] = "work"
      /\ mem' = [mem EXCEPT ![arg[s]] = out.val]
      /\ local_return_values' =
           [local_return_values EXCEPT ![s][blk[s]][SlotAt(s) % NCLIENTS] = out.ret]
      /\ socket_client_flags' =
           [socket_client_flags EXCEPT ![s][h] = Xor(@, {SlotAt(s)})]
      /\ spc' = [spc EXCEPT ![s] = "poll"]
      /\ idx' = [idx EXCEPT ![s] = @ + 1]
      /\ UNCHANGED <<mainVars, clientVars, requestVars, blk, old_client_flags,
                     callVars, responseVars>>

\* Mutant: one half too many.
NextHalfBeyond(s) ==
  LET last == blk[s] = 2 * NChips
  IN  /\ spc' = [spc EXCEPT ![s] = IF last THEN "loop" ELSE "poll"]
      /\ blk' = [blk EXCEPT ![s] = IF last THEN 0 ELSE @ + 1]
      /\ idx' = [idx EXCEPT ![s] = 0]

\* Mutant: a half in which something was executed is polled again at once.
NextHalfStay(s) ==
  LET busy == old_client_flags[s][ChipAt(s)] # socket_client_flags[s][ChipAt(s)]
      last == blk[s] = 2 * NChips - 1
  IN  /\ spc' = [spc EXCEPT ![s] = IF last /\ ~ busy THEN "loop" ELSE "poll"]
      /\ blk' = [blk EXCEPT ![s] = IF busy THEN @ ELSE IF last THEN 0 ELSE @ + 1]
      /\ idx' = [idx EXCEPT ![s] = 0]

\* Continue with the next half, or go back to the test of the loop.
NextHalf(s) ==
  LET last == blk[s] = 2 * NChips - 1
  IN  /\ spc' = [spc EXCEPT ![s] = IF last THEN "loop" ELSE "poll"]
      /\ blk' = [blk EXCEPT ![s] = IF last THEN 0 ELSE @ + 1]
      /\ idx' = [idx EXCEPT ![s] = 0]

\* The half is polled and nothing was executed.
NothingNew(s) ==
  /\ spc[s] = "poll"
  /\ idx[s] = NCLIENTS
  /\ old_client_flags[s][ChipAt(s)] = socket_client_flags[s][ChipAt(s)]
  /\ NextHalf(s)
  /\ UNCHANGED <<mainVars, clientVars, requestVars, flagVars,
                 local_return_values, callVars, responseVars, mem>>

\* Something was executed: start the memcpy into the response line.
StartCopy(s) ==
  /\ spc[s] = "poll"
  /\ idx[s] = NCLIENTS
  /\ old_client_flags[s][ChipAt(s)] # socket_client_flags[s][ChipAt(s)]
  /\ spc' = [spc EXCEPT ![s] = "copy"]
  /\ idx' = [idx EXCEPT ![s] = 0]
  /\ UNCHANGED <<mainVars, clientVars, requestVars, blk, flagVars,
                 local_return_values, callVars, responseVars, mem>>

\* The memcpy stores the return values in ascending order ...
CopyValue(s) ==
  /\ spc[s] = "copy"
  /\ idx[s] < NCLIENTS
  /\ return_values' = [return_values EXCEPT
       ![s][blk[s]][idx[s]] = local_return_values[s][blk[s]][idx[s]]]
  /\ idx' = [idx EXCEPT ![s] = @ + 1]
  /\ UNCHANGED <<mainVars, clientVars, requestVars, spc, blk, flagVars,
                 local_return_values, callVars, flags, mem>>

\* Mutant: the flag word may be stored before the return values.
CopyFlagsEarly(s) ==
  /\ spc[s] = "copy"
  /\ flags' = [flags EXCEPT ![s][blk[s]] = socket_client_flags[s][ChipAt(s)]]
  /\ old_client_flags' =
       [old_client_flags EXCEPT ![s][ChipAt(s)] = socket_client_flags[s][ChipAt(s)]]
  /\ NextHalf(s)
  /\ UNCHANGED <<mainVars, clientVars, requestVars, socket_client_flags,
                 local_return_values, callVars, return_values, mem>>

\* Mutant: old_client_flags is not brought up to date after the memcpy.
CopyFlagsKeepOld(s) ==
  /\ spc[s] = "copy"
  /\ idx[s] = NCLIENTS
  /\ flags' = [flags EXCEPT ![s][blk[s]] = socket_client_flags[s][ChipAt(s)]]
  /\ NextHalf(s)
  /\ UNCHANGED <<mainVars, clientVars, requestVars, flagVars,
                 local_return_values, callVars, return_values, mem>>

\* ... and the flag word last, which answers every client of the half.
CopyFlags(s) ==
  /\ spc[s] = "copy"
  /\ idx[s] = NCLIENTS
  /\ flags' = [flags EXCEPT ![s][blk[s]] = socket_client_flags[s][ChipAt(s)]]
  /\ old_client_flags' =
       [old_client_flags EXCEPT ![s][ChipAt(s)] = socket_client_flags[s][ChipAt(s)]]
  /\ NextHalf(s)
  /\ UNCHANGED <<mainVars, clientVars, requestVars, socket_client_flags,
                 local_return_values, callVars, return_values, mem>>

ServerStep(s) ==
  \/ ServerPass(s)
  \/ ServerExit(s)
  \/ PollMiss(s)
  \/ PollHit(s)
  \/ LoadArgs(s)
  \/ CallFptr(s)
  \/ FinishCall(s)
  \/ NothingNew(s)
  \/ StartCopy(s)
  \/ CopyValue(s)
  \/ CopyFlags(s)
-----------------------------------------------------------------------------
(* The main thread, from the end of nanosleep to the end of ffwd_shutdown. *)

SetStop ==
  /\ mpc = "sleep"
  /\ stop' = TRUE
  /\ mpc' = "join"
  /\ UNCHANGED <<finished, clientVars, requestVars, posVars, flagVars,
                 local_return_values, callVars, responseVars, mem>>

\* Mutant: shutdown without joining the clients.
JoinNobody ==
  /\ mpc = "join"
  /\ mpc' = "shutdown"
  /\ UNCHANGED <<stop, finished, clientVars, requestVars, posVars, flagVars,
                 local_return_values, callVars, responseVars, mem>>

\* pthread_join on every client.
JoinClients ==
  /\ mpc = "join"
  /\ \A c \in Clients : cpc[c] = "exited"
  /\ mpc' = "shutdown"
  /\ UNCHANGED <<stop, finished, clientVars, requestVars, posVars, flagVars,
                 local_return_values, callVars, responseVars, mem>>

\* ffwd_shutdown: tell the servers ...
Shutdown ==
  /\ mpc = "shutdown"
  /\ finished' = TRUE
  /\ mpc' = "joinServers"
  /\ UNCHANGED <<stop, clientVars, requestVars, posVars, flagVars,
                 local_return_values, callVars, responseVars, mem>>

\* ... and join them.
JoinServers ==
  /\ mpc = "joinServers"
  /\ \A s \in Servers : spc[s] = "exited"
  /\ mpc' = "done"
  /\ UNCHANGED <<stop, finished, clientVars, requestVars, posVars, flagVars,
                 local_return_values, callVars, responseVars, mem>>

MainStep == SetStop \/ JoinClients \/ Shutdown \/ JoinServers

\* The process has ended.
Terminated == mpc = "done" /\ UNCHANGED vars

Next ==
  \/ \E c \in Clients : ClientStep(c)
  \/ \E s \in Servers : ServerStep(s)
  \/ MainStep
  \/ Terminated

Spec == Init /\ [][Next]_vars

\* Every thread has a core of its own and is never blocked by the library.
Fairness ==
  /\ \A c \in Clients : WF_vars(ClientStep(c))
  /\ \A s \in Servers : WF_vars(ServerStep(s))
  /\ WF_vars(MainStep)

FairSpec == Spec /\ Fairness
-----------------------------------------------------------------------------
(* Safety.                                                                 *)

\* Client c waits for server s: its request is raised and not yet consumed.
Waiting(c, s) == cpc[c] \in {"spin", "read"} /\ Server(c) = s

\* Server s is busy with the slot of client c.
Serving(s, c) ==
  /\ spc[s] \in {"load", "call", "work"}
  /\ ChipOf[c] = ChipAt(s)
  /\ IdOf[c] = SlotAt(s)

\* A server only ever works on a request its client has completely written
\* and is waiting on: the argument and the function it runs with are the ones
\* of the client's current call, never a torn or an earlier request
\* (SERVER_CODE tests the flag word, FFWD_EXEC stores it last).
NoTornRequest ==
  \A s \in Servers :
    spc[s] \in {"load", "call", "work"} =>
      \E c \in Clients :
        /\ Serving(s, c)
        /\ cpc[c] = "spin" /\ Server(c) = s
        /\ spc[s] \in {"call", "work"} => arg[s] = op[c].var
        /\ spc[s] = "work" => fun[s] = op[c].fn

\* The word a client is about to read holds what the server computed for it,
\* also while the server rewrites the line for the other clients of the half
\* (the memcpy of server_func against the last line of FFWD_EXEC).
ReturnIsMine ==
  \A c \in Clients :
    cpc[c] = "read" =>
      return_values[Server(c)][LineOf(c)][WordOf(c)]
        = local_return_values[Server(c)][LineOf(c)][WordOf(c)]

\* No server has left its loop while a client still waits on it: a request is
\* never left unanswered by ffwd_shutdown.
NoneStranded ==
  \A s \in Servers, c \in Clients : spc[s] = "exited" => ~ Waiting(c, s)

-----------------------------------------------------------------------------
(* The inductive invariant behind the safety properties.  Of every flag    *)
(* word only the bit of the client it belongs to matters; for client c and *)
(* server s there are five copies of it.                                   *)

LocalBit(c, s) == IdOf[c] \in local_client_flag[c][s]
ReqBit(c, s)   == IdOf[c] \in flag[s][ChipOf[c]][IdOf[c]]
SockBit(c, s)  == IdOf[c] \in socket_client_flags[s][ChipOf[c]]
OldBit(c, s)   == IdOf[c] \in old_client_flags[s][ChipOf[c]]
RespBit(c, s)  == IdOf[c] \in flags[s][LineOf(c)]

\* Server s is in the half of client c and has passed its slot.
Passed(s, c) ==
  /\ blk[s] = LineOf(c)
  /\ \/ spc[s] \in {"poll", "load", "call", "work"} /\ WordOf(c) < idx[s]
     \/ spc[s] = "copy"

\* How the five copies may differ: the request word always shows the client's
\* own, the response line what the server held at the end of its last visit;
\* a client that does not wait has been answered; the server is ahead of the
\* response line only between executing a request and the end of the half.
Agree(c, s) ==
  /\ ReqBit(c, s) = LocalBit(c, s)
  /\ RespBit(c, s) = OldBit(c, s)
  /\ ~ Waiting(c, s) \/ cpc[c] = "read" =>
       SockBit(c, s) = LocalBit(c, s) /\ OldBit(c, s) = LocalBit(c, s)
  /\ OldBit(c, s) # SockBit(c, s) => Passed(s, c) /\ SockBit(c, s) = LocalBit(c, s)

Handshake == \A c \in Clients, s \in Servers : Agree(c, s)

\* The bits of a slot nobody uses stay clear.
Vacant ==
  \A s \in Servers, h \in Chip, i \in Ids :
    (\A c \in Clients : ChipOf[c] # h \/ IdOf[c] # i) =>
      /\ i \notin flag[s][h][i]
      /\ i \notin old_client_flags[s][h]
      /\ i \notin socket_client_flags[s][h]

\* The request line holds what the client has written so far of its call.
Written(c) ==
  /\ cpc[c] \in {"args", "raise", "spin", "read"} =>
       fptr[Server(c)][ChipOf[c]][IdOf[c]] = op[c].fn
  /\ cpc[c] \in {"raise", "spin", "read"} =>
       argv[Server(c)][ChipOf[c]][IdOf[c]] = op[c].var

RequestWritten == \A c \in Clients : Written(c)

\* A call is made from within the scan of a half.
CallPosition ==
  \A s \in Servers : spc[s] \in {"load", "call", "work"} => idx[s] < NCLIENTS

\* A call in progress serves a request that is raised and not yet executed, and
\* nobody has changed its variable since the function read it.
CallFor(s, c) ==
  /\ Serving(s, c)
  /\ cpc[c] = "spin" /\ Server(c) = s
  /\ SockBit(c, s) # LocalBit(c, s)
  /\ spc[s] \in {"call", "work"} => arg[s] = op[c].var
  /\ spc[s] = "work" => fun[s] = op[c].fn /\ tmp[s] = mem[op[c].var]

CallInProgress ==
  \A s \in Servers :
    spc[s] \in {"load", "call", "work"} => \E c \in Clients : CallFor(s, c)

\* The memcpy has stored the words it has passed.
Copied ==
  \A s \in Servers : spc[s] = "copy" =>
    \A w \in Words : w < idx[s] =>
      return_values[s][blk[s]][w] = local_return_values[s][blk[s]][w]

\* A word whose bit is up to date in the response line is up to date itself.
Published ==
  \A c \in Clients, s \in Servers :
    OldBit(c, s) = SockBit(c, s) =>
      return_values[s][LineOf(c)][WordOf(c)]
        = local_return_values[s][LineOf(c)][WordOf(c)]

\* finished is set after every client has left, and servers leave after that.
Ending ==
  /\ mpc \in {"shutdown", "joinServers", "done"} =>
       stop /\ \A c \in Clients : cpc[c] = "exited"
  /\ mpc = "join" => stop
  /\ finished => mpc \in {"joinServers", "done"}
  /\ \A s \in Servers : spc[s] = "exited" => finished

\* All of it: the toggle-bit protocol between FFWD_EXEC and server_func.
ChannelInv ==
  /\ TypeOK
  /\ CallPosition
  /\ Handshake
  /\ Vacant
  /\ RequestWritten
  /\ CallInProgress
  /\ Copied
  /\ Published
  /\ Ending

-----------------------------------------------------------------------------
(* Liveness.                                                               *)

\* Every request that is raised is answered and the answer consumed.
Answered == \A c \in Clients : cpc[c] = "spin" ~> cpc[c] = "idle"

\* The run ends: all clients and all servers are joined.
Terminates == <>(mpc = "done")
=============================================================================
