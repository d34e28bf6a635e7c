------------------------------- MODULE RWTTAS -------------------------------
(***************************************************************************)
(* The read-write lock of libslock, rw_ttas.c: one word of two digits in   *)
(* base R, the low one the number of readers and the high one the writer.  *)
(* R is 256 in the code.  The word is read into a variable of one digit,   *)
(* so the test aux > MAX_RW of read_acquire never holds, and the R-th      *)
(* reader carries into the writer's digit: neither breaks the lock, and    *)
(* both are part of the model.  How long a thread backs off is left out.   *)
(***************************************************************************)
EXTENDS Naturals, FiniteSets

CONSTANTS Threads, R

\* The readers' digit counts at least one reader and tells it from the writer.
Sizes == IsFiniteSet(Threads) /\ R \in Nat /\ R >= 2

VARIABLES
  lock_data,
  aux,         \* what a thread in read_acquire has read
  at

vars == <<lock_data, aux, at>>

W_MASK == R

Init ==
  /\ lock_data = 0
  /\ aux = [t \in Threads |-> 0]
  /\ at = [t \in Threads |-> "out"]
-----------------------------------------------------------------------------
Move(t, from, to) ==
  /\ at[t] = from
  /\ at' = [at EXCEPT ![t] = to]

Call(t) ==
  /\ Move(t, "out", "rspin") \/ Move(t, "out", "wspin")
  /\ UNCHANGED <<lock_data, aux>>

ReadWord(t) ==
  /\ Move(t, "rspin", "rcas")
  /\ aux' = [aux EXCEPT ![t] = lock_data % R]
  /\ UNCHANGED lock_data

\* Mutant: the compare-and-swap is on the readers' digit.
ReadCasDigit(t) ==
  /\ IF lock_data % R = aux[t]
       THEN Move(t, "rcas", "read") /\ lock_data' = lock_data + 1
       ELSE Move(t, "rcas", "rspin") /\ UNCHANGED lock_data
  /\ aux' = [aux EXCEPT ![t] = 0]

ReadCas(t) ==
  /\ IF lock_data = aux[t]
       THEN Move(t, "rcas", "read") /\ lock_data' = aux[t] + 1
       ELSE Move(t, "rcas", "rspin") /\ UNCHANGED lock_data
  /\ aux' = [aux EXCEPT ![t] = 0]

\* Mutant: the readers' digit alone is decremented.
ReadReleaseDigit(t) ==
  /\ Move(t, "read", "out")
  /\ lock_data' = (lock_data \div R) * R + ((lock_data + R - 1) % R)
  /\ UNCHANGED aux

read_release(t) ==
  /\ Move(t, "read", "out")
  /\ lock_data' = (lock_data + R * R - 1) % (R * R)
  /\ UNCHANGED aux

WriteSpin(t) ==
  /\ Move(t, "wspin", "wcas")
  /\ lock_data = 0
  /\ UNCHANGED <<lock_data, aux>>

WriteCas(t) ==
  /\ IF lock_data = 0
       THEN Move(t, "wcas", "write") /\ lock_data' = W_MASK
       ELSE Move(t, "wcas", "wspin") /\ UNCHANGED lock_data
  /\ UNCHANGED aux

rw_trylock(t) ==
  /\ lock_data = 0
  /\ Move(t, "out", "write")
  /\ lock_data' = W_MASK
  /\ UNCHANGED aux

write_release(t) ==
  /\ Move(t, "write", "out")
  /\ lock_data' = 0
  /\ UNCHANGED aux

Step(t) ==
  \/ ReadWord(t) \/ ReadCas(t) \/ read_release(t)
  \/ WriteSpin(t) \/ WriteCas(t) \/ write_release(t)

Next == \E t \in Threads : Step(t) \/ Call(t) \/ rw_trylock(t)

Spec == Init /\ [][Next]_vars
-----------------------------------------------------------------------------
In(place) == {t \in Threads : at[t] = place}

\* A writer is alone, also with more threads than the readers' digit counts.
Exclusion == In("write") = {} \/ (Cardinality(In("write")) = 1 /\ In("read") = {})

Waiting == In("rspin") \cup In("rcas") \cup In("wspin") \cup In("wcas") # {}
Held == In("read") \cup In("write") # {}
-----------------------------------------------------------------------------
\* The types of the variables; the word never counts past R.
TypeOK ==
  /\ lock_data \in 0 .. R
  /\ aux \in [Threads -> 0 .. R - 1]
  /\ at \in [Threads -> {"out", "rspin", "rcas", "read", "wspin", "wcas", "write"}]

\* The word is the number of readers, or R and there is one writer.  It is R
\* with R readers as well.
WordInv ==
  /\ TypeOK
  /\ In("write") = {} => lock_data = Cardinality(In("read"))
  /\ In("write") # {} => lock_data = R /\ In("read") = {}
  /\ \A t, u \in Threads : at[t] = "write" /\ at[u] = "write" => t = u
=============================================================================
