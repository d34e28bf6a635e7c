------------------------------- MODULE MCFfwd -------------------------------
(* Instances of Ffwd for TLC.                                              *)
EXTENDS FfwdRefinement, FiniteSetsExt, TLC

CONSTANTS c1, c2, x, y

\* Where the clients are, with two clients per response line.  The pair shares
\* a line; split, it is in the two halves of a chip; far, on two chips.
ClientPair == {c1, c2}
PairChip == c1 :> 0 @@ c2 :> 0
PairId == c1 :> 0 @@ c2 :> 1
SplitId == c1 :> 1 @@ c2 :> 2
FarChip == c1 :> 0 @@ c2 :> 1
FarId == c1 :> 3 @@ c2 :> 0

\* The delegated functions on a counter of W values: add one and return the
\* new value; return the value.
W == 16
MCVals == 0 .. (W - 1)
MCApply(f, v) ==
  IF f = "increment" THEN [val |-> (v + 1) % W, ret |-> (v + 1) % W]
                     ELSE [val |-> v, ret |-> v]

OneServer == [v \in {x} |-> 0]
TwoServers == x :> 0 @@ y :> 1
Shared == x :> 0 @@ y :> 0

\* No increment is lost or applied twice: when the run is over the counters
\* add up to the calls the clients completed (the sum a benchmark reports).
NoLostIncrement ==
  mpc = "done" =>
    MapThenSumSet(LAMBDA v : mem[v], Vars) = MapThenSumSet(LAMBDA c : ops[c], Clients)
=============================================================================
