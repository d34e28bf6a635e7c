----------------------------- MODULE FfwdBypass -----------------------------
(***************************************************************************)
(* How long a raised request may have to wait, in requests of others: Ffwd *)
(* with a history variable that counts, for each client whose request is   *)
(* raised and not yet executed, how often its server has executed each of  *)
(* the other clients in the meantime.                                      *)
(***************************************************************************)
EXTENDS Ffwd

VARIABLE overtaken   \* overtaken[c][d]: times d was served while c waited

allVars == <<vars, overtaken>>

\* Client c's request is raised and server s has not executed it.
Pending(c, s) ==
  /\ Waiting(c, s)
  /\ IdOf[c] \in Xor(socket_client_flags[s][ChipOf[c]], local_client_flag[c][s])

Serves(s, d) ==
  /\ spc[s] = "work" /\ spc'[s] = "poll"
  /\ Serving(s, d)

Count ==
  overtaken' =
    [c \in Clients |-> [d \in Clients |->
       IF ~ \E s \in Servers : Pending(c, s)' THEN 0
       ELSE IF d # c /\ \E s \in Servers : Pending(c, s) /\ Serves(s, d)
            THEN overtaken[c][d] + 1
            ELSE overtaken[c][d]]]

BypassInit == Init /\ overtaken = [c \in Clients |-> [d \in Clients |-> 0]]

BypassNext == Next /\ Count

BypassSpec == BypassInit /\ [][BypassNext]_allVars

FairBypassSpec == BypassSpec /\ Fairness

\* The scan is fair: between the moment a request is raised and the moment it
\* is executed, the server executes no other client's requests twice, however
\* the clients race with the scan of server_func.
NoDoubleOvertaking == \A c, d \in Clients : overtaken[c][d] <= 1
-----------------------------------------------------------------------------
\* Slots are polled in the order of the lines, and in a line in that of the words.
Before(c, d) ==
  LineOf(c) < LineOf(d) \/ (LineOf(c) = LineOf(d) /\ WordOf(c) < WordOf(d))

\* Server s has passed the slot of client c in this pass of its loop, or is at it.
Behind(s, c) ==
  LineOf(c) < blk[s] \/ (LineOf(c) = blk[s] /\ (spc[s] = "copy" \/ WordOf(c) < idx[s]))

At(s, c) == LineOf(c) = blk[s] /\ WordOf(c) = idx[s]

\* Server s comes to the slot of c before it comes to that of d.
First(s, c, d) ==
  IF Behind(s, c) THEN Behind(s, d) /\ Before(c, d) ELSE Behind(s, d) \/ Before(c, d)

\* What NoDoubleOvertaking rests on: a client that was served while c waits is
\* not met again before c.
BypassInv ==
  /\ overtaken \in [Clients -> [Clients -> {0, 1}]]
  /\ \A c, d \in Clients :
       overtaken[c][d] = 1 => \E s \in Servers : Pending(c, s) /\ First(s, c, d)
=============================================================================
