------------------------------- MODULE ALock -------------------------------
(***************************************************************************)
(* Anderson's array lock of libslock, alock.c.  The lock has one flag per  *)
(* process; a thread waits on the flag that its ticket, a W-valued counter *)
(* (2^32 in the code), selects modulo the number of flags.                 *)
(***************************************************************************)
EXTENDS Integers, FiniteSets, Sequences

CONSTANTS Threads, W

VARIABLES
  tail, flag,
  slot,          \* my_index; in alock_trylock, the tail that was read
  at, arrived    \* as in CLH

vars == <<tail, flag, slot, at, arrived>>

size == Cardinality(Threads)

\* The theorems' assumption: the tickets go around the flags a whole number of times.
Sizes == IsFiniteSet(Threads) /\ Threads # {} /\ W \in Nat \ {0} /\ W % size = 0

Init ==
  /\ tail = 0
  /\ flag = [i \in 0 .. size - 1 |-> i = 0]
  /\ slot = [t \in Threads |-> 0]
  /\ at = [t \in Threads |-> "out"]
  /\ arrived = <<>>

Move(t, from, to) == at[t] = from /\ at' = [at EXCEPT ![t] = to]

\* Bound: no thread stays in alock_trylock while the counter goes all around.
Advance ==
  /\ tail' = (tail + 1) % W
  /\ \A t \in Threads : at[t] = "try" => slot[t] # tail'
-----------------------------------------------------------------------------
TakeSlot(t) ==
  /\ Move(t, "out", "spin")
  /\ Advance
  /\ slot' = [slot EXCEPT ![t] = tail % size]
  /\ arrived' = Append(arrived, t)
  /\ UNCHANGED flag

Spin(t) ==
  /\ Move(t, "spin", "cs")
  /\ flag[slot[t]]
  /\ UNCHANGED <<tail, flag, slot, arrived>>

TryRead(t) ==
  /\ flag[tail % size]
  /\ Move(t, "out", "try")
  /\ slot' = [slot EXCEPT ![t] = tail]
  /\ UNCHANGED <<tail, flag, arrived>>

\* Mutant: the flag that was seen is taken without a look at the tail.
TryStore(t) ==
  /\ Move(t, "try", "cs")
  /\ tail' = (slot[t] + 1) % W
  /\ slot' = [slot EXCEPT ![t] = slot[t] % size]
  /\ arrived' = Append(arrived, t)
  /\ UNCHANGED flag

TryCas(t) ==
  LET won == tail = slot[t] IN
  /\ Move(t, "try", IF won THEN "cs" ELSE "out")
  /\ IF won THEN Advance ELSE UNCHANGED tail
  /\ slot' = [slot EXCEPT ![t] = slot[t] % size]
  /\ arrived' = IF won THEN Append(arrived, t) ELSE arrived
  /\ UNCHANGED flag

Clear(t) ==
  /\ Move(t, "cs", "pass")
  /\ flag' = [flag EXCEPT ![slot[t]] = FALSE]
  /\ arrived' = Tail(arrived)
  /\ UNCHANGED <<tail, slot>>

\* Mutant: the flag after the last one is not the first.
PassSaturated(t) ==
  /\ Move(t, "pass", "out")
  /\ flag' = [i \in DOMAIN flag |-> i = slot[t] + 1 \/ flag[i]]
  /\ UNCHANGED <<tail, slot, arrived>>

Pass(t) ==
  /\ Move(t, "pass", "out")
  /\ flag' = [flag EXCEPT ![(slot[t] + 1) % size] = TRUE]
  /\ UNCHANGED <<tail, slot, arrived>>

Next == \E t \in Threads :
  TakeSlot(t) \/ Spin(t) \/ TryRead(t) \/ TryCas(t) \/ Clear(t) \/ Pass(t)

Step(t) == Spin(t) \/ Clear(t) \/ Pass(t)

Spec == Init /\ [][Next]_vars
-----------------------------------------------------------------------------
FifoLock == INSTANCE FifoLock WITH
  line <- arrived, holders <- {t \in Threads : at[t] = "cs"}

\* Threads hold the lock one at a time and in the order of their tickets.
InLine == UNCHANGED FifoLock!vars \/ FifoLock!Next

Fifo == FifoLock!Spec

\* The test counts increments made under the lock and reports "Incorrect lock
\* behavior!" when one is missing: two threads never are in the critical section.
Exclusion == Cardinality({t \in Threads : at[t] = "cs"}) <= 1
-----------------------------------------------------------------------------
\* The types of the variables.
TypeOK ==
  /\ tail \in 0 .. W - 1
  /\ flag \in [0 .. size - 1 -> BOOLEAN]
  /\ slot \in [Threads -> 0 .. W - 1]
  /\ at \in [Threads -> {"out", "spin", "try", "cs", "pass"}]
  /\ arrived \in Seq(Threads)

InQueue == {t \in Threads : at[t] \in {"spin", "cs"}}

Passing == {t \in Threads : at[t] = "pass"}

\* The threads in the line have the slots from b on, in the order of the line, and
\* the next ticket selects the slot after theirs.  The flag of b is the only one
\* that is up, and the thread that is passing the lock on is about to raise it.
FromSlot(b) ==
  /\ b \in 0 .. size - 1
  /\ tail % size = (b + Len(arrived)) % size
  /\ \A i \in 1 .. Len(arrived) : slot[arrived[i]] = (b + (i - 1)) % size
  /\ \A j \in 0 .. size - 1 : flag[j] <=> j = b /\ Passing = {}
  /\ \A t \in Passing : (slot[t] + 1) % size = b

\* What the refinement of FifoLock rests on.  A trylock whose tail still stands
\* found the lock free, and it still is.
QueueInv ==
  /\ TypeOK
  /\ \A t \in Threads : t \in InQueue <=> \E i \in 1 .. Len(arrived) : arrived[i] = t
  /\ \A i, j \in 1 .. Len(arrived) : arrived[i] = arrived[j] => i = j
  /\ Len(arrived) = Cardinality(InQueue)
  /\ \A t \in Threads : at[t] = "cs" => arrived[1] = t /\ Passing = {}
  /\ \A t, u \in Passing : t = u
  /\ \A t \in Threads : at[t] = "try" /\ slot[t] = tail => arrived = <<>> /\ Passing = {}
  /\ \E b \in 0 .. size - 1 : FromSlot(b)
=============================================================================
