---------------------------- MODULE LiblockCond -----------------------------
(***************************************************************************)
(* The condition variables of liblock's queue locks, as in mcs.c (mcstp.c  *)
(* and the others copy it): a wait gives the lock back and sleeps under a  *)
(* second, POSIX, lock.  A signal takes neither lock, so one sent between  *)
(* the two is lost.  The threads are those of test_wait in main.c, with    *)
(* any number of waiters.  The lock is what MCS is shown to be: its        *)
(* waiters get it in turn, hence the strong fairness of taking it.         *)
(* pthread_cond_timedwait is external; it may also wake for no reason.     *)
(***************************************************************************)
EXTENDS Naturals

CONSTANTS Waiters, zzz, None

Threads == Waiters \cup {zzz}

VARIABLES
  lock,         \* who holds the queue lock
  posix_lock,   \* who holds the POSIX lock
  sleeping,     \* who sleeps on the condition variable
  var,
  at

vars == <<lock, posix_lock, sleeping, var, at>>

Init ==
  /\ lock = None
  /\ posix_lock = None
  /\ sleeping = {}
  /\ var = FALSE
  /\ at = [t \in Threads |-> "out"]
-----------------------------------------------------------------------------
Move(t, from, to) == at[t] = from /\ at' = [at EXCEPT ![t] = to]

Take(t, from, to) ==
  /\ Move(t, from, to)
  /\ lock = None
  /\ lock' = t
  /\ UNCHANGED <<posix_lock, sleeping, var>>

Give(t, from, to) ==
  /\ Move(t, from, to)
  /\ lock' = None
  /\ UNCHANGED <<posix_lock, sleeping, var>>

\* liblock_exec(&lock, waiter, 0) and liblock_exec(&lock, sender, 0).
Exec(t) == Take(t, "out", IF t = zzz THEN "send" ELSE "loop")

sender(t) ==
  /\ Move(t, "send", "broadcast")
  /\ var' = TRUE
  /\ UNCHANGED <<lock, posix_lock, sleeping>>

do_liblock_cond_broadcast(t) ==
  /\ Move(t, "broadcast", "unlock")
  /\ sleeping' = {}
  /\ UNCHANGED <<lock, posix_lock, var>>

\* while(!var) of waiter.
waiter(t) ==
  /\ Move(t, "loop", IF var THEN "unlock" ELSE "mutex")
  /\ UNCHANGED <<lock, posix_lock, sleeping, var>>

\* cond_timedwait, up to its return to the loop.
PosixLock(t) ==
  /\ Move(t, "mutex", "release")
  /\ posix_lock = None
  /\ posix_lock' = t
  /\ UNCHANGED <<lock, sleeping, var>>

UnlockMcs(t) == Give(t, "release", "wait")

CondWait(t) ==
  /\ Move(t, "wait", "sleep")
  /\ posix_lock' = None
  /\ sleeping' = sleeping \cup {t}
  /\ UNCHANGED <<lock, var>>

\* Mutant: the wait has no time-out.
TimeOutNever(t) == FALSE /\ UNCHANGED vars

TimeOut(t) ==
  /\ t \in sleeping
  /\ sleeping' = sleeping \ {t}
  /\ UNCHANGED <<lock, posix_lock, var, at>>

Wake(t) ==
  /\ Move(t, "sleep", "woken")
  /\ t \notin sleeping
  /\ posix_lock = None
  /\ posix_lock' = t
  /\ UNCHANGED <<lock, sleeping, var>>

PosixUnlock(t) ==
  /\ Move(t, "woken", "relock")
  /\ posix_lock' = None
  /\ UNCHANGED <<lock, sleeping, var>>

LockMcs(t) == Take(t, "relock", "loop")

Unlock(t) == Give(t, "unlock", "end")

Ended == \A t \in Threads : at[t] = "end"

Step(t) ==
  \/ sender(t) \/ do_liblock_cond_broadcast(t) \/ waiter(t)
  \/ UnlockMcs(t) \/ CondWait(t) \/ TimeOut(t) \/ PosixUnlock(t) \/ Unlock(t)

Acquire(t) == Exec(t) \/ PosixLock(t) \/ Wake(t) \/ LockMcs(t)

Next == (\E t \in Threads : Step(t) \/ Acquire(t)) \/ (Ended /\ UNCHANGED vars)
=============================================================================
