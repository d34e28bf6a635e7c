-------------------------------- MODULE Bank --------------------------------
(***************************************************************************)
(* The bank of libslock, bmarks/bank_th.c: transfers and reads of two      *)
(* accounts under one read-write lock per account, total and reset of the  *)
(* whole bank under the global lock of gl_lock.c.  An account's lock is    *)
(* any read-write lock that keeps its promise (see RWTTAS).  What total    *)
(* and read_accounts compute is thrown away by the threads, so only their  *)
(* locking is modelled.  The calls local_lock_* are commented out in       *)
(* bank_th.c and are left out here.                                        *)
(***************************************************************************)
EXTENDS Integers, FiniteSetsExt, SequencesExt

CONSTANTS
  Threads,
  Size,      \* accounts, a power of two
  Kinds,     \* Kinds[t]: what thread t does, by its id and the rates
  MaxOps,    \* operations of a thread before main sets stop
  Byte       \* values of a byte of the global lock: 256 in the code

Accounts == 0 .. Size - 1

VARIABLES
  balance,
  locks,     \* of each account: its number of readers, and whether it has a writer
  gl,        \* the global lock's bytes global_read and global_write
  stop,
  th         \* of each thread: where it is, its operations so far and its locals

vars == <<balance, locks, gl, stop, th>>

Idle(n) == [at |-> "loop", ops |-> n, n1 |-> 0, n2 |-> 0, write |-> FALSE, todo |-> <<>>, val |-> 0]

Free == [readers |-> 0, writer |-> FALSE]

Init ==
  /\ balance = [a \in Accounts |-> 0]
  /\ locks = [a \in Accounts |-> Free]
  /\ gl = [global_read |-> 0, global_write |-> 0]
  /\ stop = FALSE
  /\ th = [t \in Threads |-> Idle(0)]
-----------------------------------------------------------------------------
Goto(t, from, to) ==
  /\ th[t].at = from
  /\ th' = [th EXCEPT ![t].at = to]

\* The loop of test: the thread begins an operation of a kind it is meant for.
Begins(t, kind) ==
  /\ th[t].at = "loop"
  /\ ~stop
  /\ th[t].ops < MaxOps
  /\ kind \in Kinds[t]

\* The second of two random accounts, moved when it is the first.
Second(n, m) == IF m = n THEN (n + 1) % (Size - 1) ELSE m

\* Mutant: the accounts are locked in the order of the arguments.
LockOrderOfArguments(m, n) == <<m, n>>

\* The account with the larger number first.
LockOrder(m, n) == IF m < n THEN <<n, m>> ELSE <<m, n>>

\* transfer moves 1 from m to n; read_accounts has nothing to update.
Updates(kind, m, n) ==
  IF kind = "transfer" THEN <<[account |-> m, by |-> -1], [account |-> n, by |-> 1]>> ELSE <<>>

TwoAccounts(t, kind) ==
  /\ Begins(t, kind)
  /\ \E m, r \in Accounts :
       LET n == Second(m, r)
           order == LockOrder(m, n) IN
       th' = [th EXCEPT ![t] = [at |-> "first", ops |-> th[t].ops + 1,
                                n1 |-> order[1], n2 |-> order[2],
                                write |-> kind = "transfer", todo |-> Updates(kind, m, n), val |-> 0]]
  /\ UNCHANGED <<balance, locks, gl, stop>>

transfer(t) == TwoAccounts(t, "transfer")

read_accounts(t) == TwoAccounts(t, "read")

Acquired(t, a) ==
  /\ ~locks[a].writer
  /\ th[t].write => locks[a].readers = 0
  /\ locks' = [locks EXCEPT ![a] =
                 IF th[t].write THEN [@ EXCEPT !.writer = TRUE]
                                ELSE [@ EXCEPT !.readers = @ + 1]]

Released(t, a) ==
  locks' = [locks EXCEPT ![a] =
              IF th[t].write THEN [@ EXCEPT !.writer = FALSE]
                             ELSE [@ EXCEPT !.readers = @ - 1]]

AcquireFirst(t) ==
  /\ Goto(t, "first", "second")
  /\ Acquired(t, th[t].n1)
  /\ UNCHANGED <<balance, gl, stop>>

\* Mutant: the second account is not locked.
AcquireSecondNot(t) == Goto(t, "second", "update") /\ UNCHANGED <<balance, locks, gl, stop>>

AcquireSecond(t) ==
  /\ Goto(t, "second", "update")
  /\ Acquired(t, th[t].n2)
  /\ UNCHANGED <<balance, gl, stop>>

\* balance -= amount and balance += amount are a load and a store each.
Load(t) ==
  /\ th[t].at = "update"
  /\ th[t].todo # <<>>
  /\ th' = [th EXCEPT ![t].at = "store", ![t].val = balance[Head(th[t].todo).account]]
  /\ UNCHANGED <<balance, locks, gl, stop>>

Store(t) ==
  LET u == Head(th[t].todo) IN
  /\ th[t].at = "store"
  /\ balance' = [balance EXCEPT ![u.account] = th[t].val + u.by]
  /\ th' = [th EXCEPT ![t].at = "update", ![t].todo = Tail(@), ![t].val = 0]
  /\ UNCHANGED <<locks, gl, stop>>

ReleaseSecond(t) ==
  /\ th[t].todo = <<>>
  /\ Goto(t, "update", "release")
  /\ Released(t, th[t].n2)
  /\ UNCHANGED <<balance, gl, stop>>

ReleaseFirst(t) ==
  /\ th[t].at = "release"
  /\ th' = [th EXCEPT ![t] = Idle(th[t].ops)]
  /\ Released(t, th[t].n1)
  /\ UNCHANGED <<balance, gl, stop>>
-----------------------------------------------------------------------------
\* total, under global_acquire_read and global_unlock_read.  A failed
\* compare-and-swap goes back to the loop.  The reader is added in the whole word,
\* so that one too many is carried into global_write, and taken off in its byte.
total(t) ==
  /\ Begins(t, "total")
  /\ gl.global_write = 0
  /\ gl' = [global_read |-> (gl.global_read + 1) % Byte,
            global_write |-> (gl.global_read + 1) \div Byte]
  /\ th' = [th EXCEPT ![t].at = "total", ![t].ops = @ + 1]
  /\ UNCHANGED <<balance, locks, stop>>

TotalEnd(t) ==
  /\ Goto(t, "total", "loop")
  /\ gl' = [gl EXCEPT !.global_read = (@ - 1) % Byte]
  /\ UNCHANGED <<balance, locks, stop>>

\* reset, under global_acquire_write and global_unlock_write.  It spins on the
\* whole word, and then stores 0x1000000 cut to an unsigned short, which is 0.
ResetCall(t) ==
  /\ Begins(t, "reset")
  /\ th' = [th EXCEPT ![t].at = "spin", ![t].ops = @ + 1]
  /\ UNCHANGED <<balance, locks, gl, stop>>

ResetBegin(t) ==
  /\ th[t].at = "spin"
  /\ gl = [global_read |-> 0, global_write |-> 0]
  /\ th' = [th EXCEPT ![t].at = "clear", ![t].val = 0]
  /\ UNCHANGED <<balance, locks, gl, stop>>

ResetClear(t) ==
  /\ th[t].at = "clear"
  /\ th[t].val < Size
  /\ balance' = [balance EXCEPT ![th[t].val] = 0]
  /\ th' = [th EXCEPT ![t].val = @ + 1]
  /\ UNCHANGED <<locks, gl, stop>>

ResetEnd(t) ==
  /\ th[t].at = "clear"
  /\ th[t].val = Size
  /\ gl' = [global_read |-> 0, global_write |-> 0]
  /\ th' = [th EXCEPT ![t] = Idle(th[t].ops)]
  /\ UNCHANGED <<balance, locks, stop>>
-----------------------------------------------------------------------------
\* main stops the threads when the duration is over, and then joins them.
Stop ==
  /\ ~stop
  /\ stop' = TRUE
  /\ UNCHANGED <<balance, locks, gl, th>>

End(t) == stop /\ Goto(t, "loop", "end") /\ UNCHANGED <<balance, locks, gl, stop>>

Ended == \A t \in Threads : th[t].at = "end"

Joined == Ended /\ UNCHANGED vars

Step(t) ==
  \/ AcquireFirst(t) \/ AcquireSecond(t) \/ Load(t) \/ Store(t)
  \/ ReleaseSecond(t) \/ ReleaseFirst(t) \/ TotalEnd(t) \/ End(t)

Next ==
  \/ \E t \in Threads : Step(t) \/ transfer(t) \/ read_accounts(t) \/ total(t)
  \/ Stop
  \/ Joined

\* With threads that write all (reset).
Reset(t) == ResetBegin(t) \/ ResetClear(t) \/ ResetEnd(t)

ResetNext == Next \/ \E t \in Threads : ResetCall(t) \/ Reset(t)
-----------------------------------------------------------------------------
\* What main prints at the end: "Bank total    : %d (expected: 0)".
TotalZero == Ended => MapThenSumSet(LAMBDA a : balance[a], Accounts) = 0
=============================================================================
