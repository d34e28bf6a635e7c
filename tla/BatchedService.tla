--------------------------- MODULE BatchedService ---------------------------
(***************************************************************************)
(* DelegationService, where one step may execute the operations of several *)
(* clients, one after the other: what an object promises whose combiners   *)
(* publish the effect of a whole batch at once.                            *)
(***************************************************************************)
EXTENDS DelegationService, SequencesExt

\* The operations of the clients of sequence cs are executed in that order.
ExecuteBatch(cs) ==
  LET memory[i \in 0 .. Len(cs)] ==
        IF i = 0 THEN mem
        ELSE [memory[i - 1] EXCEPT ![op[cs[i]].var] = Apply(op[cs[i]].fn, @).val]
      result(i) == Apply(op[cs[i]].fn, memory[i - 1][op[cs[i]].var]).ret
  IN
  /\ mem' = memory[Len(cs)]
  /\ st' = [c \in Clients |-> IF c \in ToSet(cs) THEN "done" ELSE st[c]]
  /\ res' = [c \in Clients |->
       IF c \in ToSet(cs) THEN result(CHOOSE i \in DOMAIN cs : cs[i] = c) ELSE res[c]]
  /\ UNCHANGED <<op, ret>>

BatchedNext ==
  \/ Next
  \/ \E cs \in SetToAllKPermutations({c \in Clients : st[c] = "pending"}) : ExecuteBatch(cs)

BatchedSpec == Init /\ [][BatchedNext]_vars
=============================================================================
