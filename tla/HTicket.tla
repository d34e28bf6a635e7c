------------------------------- MODULE HTicket -------------------------------
(***************************************************************************)
(* The hierarchical ticket lock of libslock, htlock.c.  A thread that gets *)
(* a ticket of its socket waits for a neighbour to pass the lock on; when  *)
(* none is left, one thread of the socket queues for the global lock and   *)
(* puts NB_TICKETS_LOCAL new tickets out.  htlock_trylock takes the global *)
(* lock for one thread.                                                    *)
(***************************************************************************)
EXTENDS Integers, FiniteSets

CONSTANTS
  Threads, Sockets, htlock_node_mine,
  NB_TICKETS_LOCAL,
  W,              \* global tickets are W-valued: 2^32 in the code
  MinNxt          \* bound on how far nxt of a socket is decremented in vain

VARIABLES
  global, local,
  ticket,         \* local_ticket or global_ticket; in htlock_release, local_cur
  at,
  passes          \* history: critical sections since the global lock changed hands

vars == <<global, local, ticket, at, passes>>

Init ==
  /\ global = [cur |-> 0, nxt |-> 0]
  /\ local = [s \in Sockets |-> [cur |-> NB_TICKETS_LOCAL, nxt |-> 0]]
  /\ ticket = [t \in Threads |-> 0]
  /\ at = [t \in Threads |-> "out"]
  /\ passes = 0

My(t) == local[htlock_node_mine[t]]
Move(t, from, to) == at[t] = from /\ at' = [at EXCEPT ![t] = to]
-----------------------------------------------------------------------------
\* DAF_U32; a thread that comes too late tries again.
TakeLocal(t) ==
  LET n == My(t).nxt - 1 IN
  /\ n >= MinNxt
  /\ Move(t, "out", IF n >= 0 THEN "local" ELSE IF n = -1 THEN "refill" ELSE "out")
  /\ local' = [local EXCEPT ![htlock_node_mine[t]].nxt = n]
  /\ ticket' = [ticket EXCEPT ![t] = IF n >= 0 THEN n ELSE 0]
  /\ UNCHANGED <<global, passes>>

WaitLocal(t) ==
  /\ My(t).cur = ticket[t]
  /\ Move(t, "local", "cs")
  /\ passes' = passes + 1
  /\ UNCHANGED <<global, local, ticket>>

\* Mutant: new tickets go out while the old ones are in use.
RefillEarly(t) ==
  /\ Move(t, "refill", "queue")
  /\ local' = [local EXCEPT ![htlock_node_mine[t]].nxt = NB_TICKETS_LOCAL]
  /\ UNCHANGED <<global, ticket, passes>>

Refill(t) ==
  /\ My(t).cur = NB_TICKETS_LOCAL
  /\ Move(t, "refill", "queue")
  /\ local' = [local EXCEPT ![htlock_node_mine[t]].nxt = NB_TICKETS_LOCAL]
  /\ UNCHANGED <<global, ticket, passes>>

TakeGlobal(t) ==
  /\ Move(t, "queue", "global")
  /\ ticket' = [ticket EXCEPT ![t] = global.nxt]
  /\ global' = [global EXCEPT !.nxt = (@ + 1) % W]
  /\ UNCHANGED <<local, passes>>

WaitGlobal(t) ==
  /\ global.cur = ticket[t]
  /\ Move(t, "global", "cs")
  /\ passes' = 1
  /\ UNCHANGED <<global, local, ticket>>

\* Mutant: tickets that are used up are renewed without a release of the global lock.
ReleaseRenew(t) ==
  LET cur == My(t).cur
      up  == cur = My(t).nxt
  IN
  /\ Move(t, "cs", IF up THEN "up" ELSE "down")
  /\ local' = [local EXCEPT ![htlock_node_mine[t]].nxt =
       IF @ = cur THEN 0 ELSE IF cur = 0 THEN NB_TICKETS_LOCAL ELSE @]
  /\ ticket' = [ticket EXCEPT ![t] = IF cur = 0 THEN NB_TICKETS_LOCAL ELSE cur]
  /\ UNCHANGED <<global, passes>>

\* The read of cur and the compare-and-swap of nxt: nobody else waits, or the
\* tickets are used up, and the global lock is released.
Release(t) ==
  LET cur == My(t).cur
      up  == cur = 0 \/ cur = My(t).nxt
  IN
  /\ Move(t, "cs", IF up THEN "up" ELSE "down")
  /\ local' = [local EXCEPT ![htlock_node_mine[t]].nxt = IF @ = cur THEN 0 ELSE @]
  /\ ticket' = [ticket EXCEPT ![t] = cur]
  /\ UNCHANGED <<global, passes>>

\* Mutant: the socket's tickets are not reset before the global lock is released.
ReleaseGlobalOnly(t) ==
  /\ Move(t, "up", "up2")
  /\ UNCHANGED <<global, local, ticket, passes>>

ResetLocal(t) ==
  /\ Move(t, "up", "up2")
  /\ local' = [local EXCEPT ![htlock_node_mine[t]].cur = NB_TICKETS_LOCAL]
  /\ UNCHANGED <<global, ticket, passes>>

ReleaseGlobal(t) ==
  /\ Move(t, "up2", "out")
  /\ global' = [global EXCEPT !.cur = (@ + 1) % W]
  /\ ticket' = [ticket EXCEPT ![t] = 0]      \* the locals are dead
  /\ UNCHANGED <<local, passes>>

PassOn(t) ==
  /\ Move(t, "down", "out")
  /\ local' = [local EXCEPT ![htlock_node_mine[t]].cur = ticket[t] - 1]
  /\ ticket' = [ticket EXCEPT ![t] = 0]
  /\ UNCHANGED <<global, passes>>

TryRead(t) ==
  /\ Move(t, "out", "try")
  /\ ticket' = [ticket EXCEPT ![t] = global.nxt]
  /\ UNCHANGED <<global, local, passes>>

TryCas(t) ==
  LET free == global = [cur |-> ticket[t], nxt |-> ticket[t]] IN
  /\ Move(t, "try", IF free THEN "try_cs" ELSE "out")
  /\ global' = IF free THEN [global EXCEPT !.nxt = (@ + 1) % W] ELSE global
  /\ passes' = IF free THEN 1 ELSE passes
  /\ ticket' = [ticket EXCEPT ![t] = 0]
  /\ UNCHANGED local

ReleaseTry(t) ==
  /\ Move(t, "try_cs", "out")
  /\ global' = [global EXCEPT !.cur = (@ + 1) % W]
  /\ UNCHANGED <<local, ticket, passes>>

Step(t) ==
  \/ WaitLocal(t) \/ Refill(t) \/ TakeGlobal(t) \/ WaitGlobal(t)
  \/ Release(t) \/ ResetLocal(t) \/ ReleaseGlobal(t) \/ PassOn(t) \/ ReleaseTry(t)

Next == \E t \in Threads : Step(t) \/ TakeLocal(t) \/ TryRead(t) \/ TryCas(t)
-----------------------------------------------------------------------------
\* At most one thread holds the lock, whether it came by a ticket of its socket,
\* by the global queue or by htlock_trylock.
Exclusion == Cardinality({t \in Threads : at[t] \in {"cs", "try_cs"}}) <= 1

\* NB_TICKETS_LOCAL is "max number of local tickets before releasing global": the
\* lock is passed on that often, and then the global lock changes hands.
BoundedPasses == passes <= NB_TICKETS_LOCAL + 1
-----------------------------------------------------------------------------
\* For the proofs: the invariant from which both follow.
Spec == Init /\ [][Next]_vars

\* The threads of socket s.
Of(s) == {t \in Threads : htlock_node_mine[t] = s}

\* A socket has at most one thread more than it has tickets: with two more, one
\* could put new tickets out while the old ones are waited with.
Sizes ==
  /\ IsFiniteSet(Threads) /\ Cardinality(Threads) < W
  /\ W \in Nat /\ NB_TICKETS_LOCAL \in Nat
  /\ htlock_node_mine \in [Threads -> Sockets]
  /\ \A s \in Sockets : Cardinality(Of(s)) <= NB_TICKETS_LOCAL + 1

Places ==
  {"out", "local", "refill", "queue", "global", "cs", "up", "up2", "down", "try", "try_cs"}

TypeOK ==
  /\ global \in [cur : 0 .. W - 1, nxt : 0 .. W - 1]
  /\ local \in [Sockets -> [cur : 0 .. NB_TICKETS_LOCAL, nxt : Int]]
  /\ ticket \in [Threads -> Nat]
  /\ at \in [Threads -> Places]
  /\ passes \in Nat

\* The lock has been passed on to t, which has not seen it.
Served(t) == at[t] = "local" /\ ticket[t] = My(t).cur

\* t has the global lock, and t has it or waits for it.
Holds(t) == at[t] \in {"cs", "down", "up", "up2", "try_cs"} \/ Served(t)
InLine(t) == at[t] = "global" \/ Holds(t)
Line == {t \in Threads : InLine(t)}

\* How many tickets are before n in the global queue, and t's place there.
Ahead(n) == IF n >= global.cur THEN n - global.cur ELSE n + W - global.cur
Place(t) == IF Holds(t) THEN 0 ELSE Ahead(ticket[t])

\* The threads in line are at places of their own, and the line is as long as the
\* global lock's counters say.
LineRight ==
  /\ Cardinality(Line) = Ahead(global.nxt)
  /\ \A t \in Threads : at[t] = "global" => ticket[t] \in 0 .. W - 1
  /\ \A t \in Threads : InLine(t) => Place(t) < Ahead(global.nxt)
  /\ \A t, u \in Threads : InLine(t) /\ InLine(u) /\ Place(t) = Place(u) => t = u

\* t keeps the tickets of its socket valid: it has the global lock and will pass it
\* on, or it has put the tickets out and waits for the global lock.
Keeps(t) == at[t] \in {"queue", "global", "cs", "down"} \/ Served(t)
Kept(s) == \E t \in Of(s) : Keeps(t)

\* A thread waits with ticket k of socket s.
Waits(s, k) == \E t \in Of(s) : at[t] = "local" /\ ticket[t] = k

\* A ticket of socket s is that of one thread, which is yet to be served.
TicketsRight(s) ==
  /\ local[s].nxt <= local[s].cur
  /\ \A t \in Of(s) : at[t] = "local" =>
       /\ ticket[t] < NB_TICKETS_LOCAL
       /\ local[s].nxt <= ticket[t] /\ ticket[t] <= local[s].cur
  /\ \A t, u \in Of(s) : at[t] = "local" /\ at[u] = "local" /\ ticket[t] = ticket[u] => t = u

\* Tickets of s are out when one thread keeps them, and then each that was taken and
\* not yet served is waited with.
KeeperRight(s) ==
  /\ \A t, u \in Of(s) : Keeps(t) /\ Keeps(u) => t = u
  /\ \A t \in Of(s) : at[t] \in {"queue", "global"} => local[s].cur = NB_TICKETS_LOCAL
  /\ Kept(s) => \A k \in 0 .. NB_TICKETS_LOCAL - 1 :
                  local[s].nxt <= k /\ k < local[s].cur => Waits(s, k)
  /\ ~Kept(s) => local[s].nxt <= 0 /\ \A t \in Of(s) : at[t] # "local"

\* One thread of s is to put new tickets out, and does so when the old are not kept.
RefillRight(s) ==
  /\ \A t \in Of(s) : at[t] = "refill" =>
       local[s].nxt < 0 /\ (Kept(s) => local[s].cur < NB_TICKETS_LOCAL)
  /\ \A t, u \in Of(s) : at[t] = "refill" /\ at[u] = "refill" => t = u

\* While the current ticket of s is one that was taken, s has the lock; a thread that
\* releases has read what it is to do.
ReleaseRight(s) ==
  /\ local[s].cur < NB_TICKETS_LOCAL => \E t \in Of(s) : Holds(t) /\ at[t] # "try_cs"
  /\ \A t \in Of(s) :
       /\ at[t] = "up" => local[s].cur = NB_TICKETS_LOCAL \/ ~Kept(s)
       /\ at[t] = "up2" => local[s].cur = NB_TICKETS_LOCAL
       /\ at[t] = "down" =>
            ticket[t] = local[s].cur /\ local[s].cur > 0 /\ local[s].nxt < local[s].cur

SocketRight(s) == TicketsRight(s) /\ KeeperRight(s) /\ RefillRight(s) /\ ReleaseRight(s)

\* Each time the lock is passed on, the socket's current ticket goes down by one.
PassesRight ==
  /\ passes <= NB_TICKETS_LOCAL + 1
  /\ \A t \in Threads :
       /\ at[t] \in {"cs", "down"} => passes = NB_TICKETS_LOCAL + 1 - My(t).cur
       /\ Served(t) => passes = NB_TICKETS_LOCAL - My(t).cur

TicketInv == TypeOK /\ LineRight /\ (\A s \in Sockets : SocketRight(s)) /\ PassesRight
=============================================================================
