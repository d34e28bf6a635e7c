----------------------------- MODULE MCFfwdSetup -----------------------------
(* The places of the threads on the machines libffwd was developed and      *)
(* tested on, and the life of their memory, for TLC.  The initial state     *)
(* chooses one of the two, and the other does not move.                     *)
EXTENDS FfwdPlacement, FfwdLifecycle

CONSTANT Parts

VARIABLE part

\* The machines of the repository's README, one of another make, and one whose
\* kernel has no NUMA support.
Tested ==
  {[numa |-> TRUE, platform |-> "Xeon", nproc |-> 64, lines |-> XeonLines(8)],
   [numa |-> TRUE, platform |-> "Xeon", nproc |-> 128, lines |-> XeonLines(16)],
   [numa |-> TRUE, platform |-> "Opteron", nproc |-> 64, lines |-> OpteronLines(8)],
   [numa |-> TRUE, platform |-> "other", nproc |-> 64, lines |-> OpteronLines(8)],
   [numa |-> FALSE, platform |-> "Xeon", nproc |-> 64, lines |-> XeonLines(8)]}

SetupInit == part \in Parts /\ PlacementInit /\ Init

\* A program may stop creating threads at any time.
SetupNext ==
  /\ UNCHANGED part
  /\ \/ part = "placement" /\ PlacementNext /\ UNCHANGED vars
     \/ part = "placement" /\ UNCHANGED <<placement_vars, vars>>
     \/ part = "lifecycle" /\ Next /\ UNCHANGED placement_vars

SetupSpec == SetupInit /\ [][SetupNext]_<<part, placement_vars, vars>>
==============================================================================
