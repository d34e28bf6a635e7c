------------------------------ MODULE FifoLock ------------------------------
(***************************************************************************)
(* What a queue lock promises: threads line up in the order of one atomic  *)
(* step of theirs, and only the first of the line may hold the lock.  A    *)
(* trylock takes the lock when no thread is in the line.                   *)
(***************************************************************************)
EXTENDS Sequences

CONSTANT Threads

VARIABLES
  line,     \* the threads that wait, behind the one that holds the lock
  holders   \* the threads that hold it

vars == <<line, holders>>

Init == line = <<>> /\ holders = {}

Arrive(t) ==
  /\ \A i \in DOMAIN line : line[i] # t
  /\ line' = Append(line, t)
  /\ UNCHANGED holders

Enter(t) ==
  /\ line # <<>> /\ Head(line) = t
  /\ holders = {}
  /\ holders' = {t}
  /\ UNCHANGED line

TryEnter(t) ==
  /\ line = <<>>
  /\ line' = <<t>>
  /\ holders' = {t}

Leave(t) ==
  /\ holders = {t}
  /\ holders' = {}
  /\ line' = Tail(line)

Next == \E t \in Threads : Arrive(t) \/ Enter(t) \/ TryEnter(t) \/ Leave(t)

Spec == Init /\ [][Next]_vars
=============================================================================
