--------------------------- MODULE FfwdRefinement ---------------------------
(***************************************************************************)
(* The channel of Ffwd implements DelegationService.  A call begins when   *)
(* the flag word is stored, takes effect when the delegated function       *)
(* returns on the server, and ends when the client reads the return value. *)
(***************************************************************************)
EXTENDS Ffwd

CONSTANT None     \* no operation, no result

\* The server has executed the request client c waits on: the client's bit in
\* the server's own flags agrees with the flag word the client stored.
Executed(c) ==
  IdOf[c] \notin Xor(socket_client_flags[Server(c)][ChipOf[c]],
                     local_client_flag[c][Server(c)])

\* The state of client c's call.
CallState(c) ==
  IF cpc[c] \notin {"spin", "read"} THEN "idle"
  ELSE IF Executed(c) THEN "done" ELSE "pending"

\* The operation it has handed over.
CallOp(c) == IF CallState(c) = "idle" THEN None ELSE op[c]

\* The result, which is in the server's private copy of the line until it is read.
CallResult(c) ==
  IF CallState(c) = "done"
    THEN local_return_values[Server(c)][LineOf(c)][WordOf(c)]
    ELSE None

stBar == [c \in Clients |-> CallState(c)]
opBar == [c \in Clients |-> CallOp(c)]
resBar == [c \in Clients |-> CallResult(c)]

Abstract ==
  INSTANCE DelegationService WITH st <- stBar, op <- opBar, res <- resBar

\* Delegation is linearizable: each call takes effect exactly once, atomically,
\* between the store of its flag word and the read of its return value, and
\* returns the value computed then.
Linearizable == Abstract!Spec
=============================================================================
