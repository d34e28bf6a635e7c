# ffwd in TLA+

ffwd is a delegation library: instead of taking a lock, a *client* thread asks
a *server* thread, which alone works on a piece of data, to run a function for
it.  This directory models the library (`src/libffwd`), checks the model with
TLC and proves its central invariant and what it implements with TLAPS.  The
repository also holds the locks and combining constructions ffwd is compared
with; they are modelled and model-checked here too, and what the queue locks,
the read-write lock, the thread ids and remote core locking promise is proved.

## Inventory

| Part | Source | State | Operations |
|---|---|---|---|
| delegation channel | `ffwd.h` (`FFWD_EXEC`, `SERVER_CODE_IMP`), `libffwd.c` (`prepare_request`, `server_func`), `macro.h` | request line per client and server; response line per half chip and server; flag words | call a function, poll, execute, answer |
| placement | `libffwd.c` (`initialize_core_ordering`, `ffwd_thread_create`, `ffwd_bind_main_thread`, `move_to_core`) | table of processors, `global_id`, contexts | read the machine, place servers, place clients |
| life cycle | `libffwd.c` (`ffwd_init`, `launch_servers`, `ffwd_shutdown`), `ffwd_sample.c` | arrays of buffers, threads, `finished`, `stop` | allocate, start, join, free |
| liblock: combining locks | `liblock/ccsynch.c`, `dsmsynch.c`, `fccsynch.c`, `flatcombining.c` | queue or list of requests | publish, combine, hand over |
| liblock: thread ids | `liblock/liblock.c` | two counters and a bitmap | take an id, give it back |
| liblock: queue and spin locks | `liblock/mcs.c`, `mcstp.c`, `mcs_mon.c`, `spinlock.c`, `posix.c`, `mwait.c` | tail, nodes | lock, unlock, condition variables |
| liblock: remote core locking | `liblock/rcl.c`, `eercl.c`, `fqueue.h` | request array, mini-threads, servers, a lock-free queue | request, service, block, wake, manage |
| libslock | `ssync-libslock/src` | ticket, CLH, MCS, array, hierarchical, reader-writer locks | acquire, try, release |
| bank | `ssync-libslock/bmarks/bank_th.c`, `gl_lock.c` | accounts, their locks, a global lock | transfer, read, total, reset |
| combining constructions | `micro-benchmarks/sim-synch` (`hsynch.h`, `dsmsynch.h`, `sim.c`, `oyama.h`, `clh.h`) | queues, pools of states, stacks of requests | apply an operation |
| benchmarks, applications | `micro-benchmarks`, `memcached`, `phoenix`, `splash2`, `synchrobench` | data structures under the locks | |

How the parts of ffwd interact.  `launch_servers` allocates, for each server,
four pages of request lines (one per chip) and the response lines, and starts
the server.  `ffwd_thread_create` gives a client a processor and, from its
number, a *slot*: a chip and an index in the chip.  The slot decides which
request line the client writes, which response line it reads, and which bit of
the flag words is its own.  From then on clients and servers only communicate
through these lines.  At the end the main thread sets `stop`, joins the clients,
and calls `ffwd_shutdown`, which sets `finished`, joins the servers and frees.

What is hard about it:

- no atomic instruction and no fence is used; correctness rests on the order of
  plain stores, on one line having one writer, and on a toggled bit;
- a response line is shared by all clients of half a chip and rewritten as a
  whole, while clients answered earlier may still be reading it;
- the halves of a chip share two of the server's flag words but have a response
  line each;
- delegated functions are not synchronised: the routing of a variable to one
  server is all that keeps them apart;
- the server decides once per pass whether to go on;
- slots are computed by platform-dependent arithmetic on processor numbers.

## Modules

The library:

| Module | What it is |
|---|---|
| `DelegationService` | abstract: a call is handed over, takes effect once and atomically, returns the result |
| `Ffwd` | the channel: clients, servers, and the main thread from `nanosleep` to the end of `ffwd_shutdown`'s joins; its safety and liveness properties; the inductive invariant |
| `FfwdRefinement` | the refinement mapping from `Ffwd` to `DelegationService` |
| `FfwdBypass` | `Ffwd` with a history variable that counts overtaking |
| `FfwdPlacement` | processors, slots, response lines |
| `FfwdLifecycle` | allocation, thread start, joins, frees |
| `MCFfwd`, `MCFfwdBypass`, `MCFfwdSetup` | instances for TLC |
| `FfwdProofs` | arithmetic of slots; every step keeps `TypeOK` and `ChannelInv`; the theorems about safety; `Ffwd` implements `DelegationService`; overtaking |
| `FfwdSetupProofs` | the memory of servers and clients; the places of the threads |

What it is compared with:

| Module | What it models |
|---|---|
| `BatchedService` | abstract: `DelegationService` whose steps may execute several calls in some order |
| `CombiningService` | abstract: `DelegationService` where a request may be run on the argument of a call that is served already |
| `FifoLock` | abstract: a lock with a line of threads, and a trylock that needs an empty line |
| `CCSynch` | `liblock/ccsynch.c` |
| `HSynch` | `sim-synch/hsynch.h`: `CCSynch` queues, one per cluster, under a `CLH` lock |
| `DSMSynch` | `liblock/dsmsynch.c`, and, with `Liblock = FALSE`, `sim-synch/dsmsynch.h` |
| `FlatCombining` | `liblock/flatcombining.c` |
| `Sim` | `sim-synch/sim.c` |
| `Oyama` | `sim-synch/oyama.h` |
| `Ticket`, `CLH`, `MCS`, `ALock` | the queue locks of libslock; `MCS` is also the lock of `liblock/mcs.c` |
| `HTicket`, `HCLH` | its hierarchical locks, `htlock.c` and `hclh.c` |
| `RWTTAS` | its reader-writer lock |
| `MCSTP` | `liblock/mcstp.c`, MCS with time-outs |
| `Bank` | the bank benchmark and its global lock |
| `RCL` | requests and servicing loop of `liblock/rcl.c` |
| `FQueue` | its lock-free lists, `liblock/fqueue.h` |
| `RCLCond` | its condition variables: mini threads, broadcast, manager |
| `LiblockCond` | the condition variables of the queue locks, as `test_wait` of `main.c` uses them |
| `IdManager` | the thread ids of `liblock.c` |
| `MCCombining`, `MCLocks`, `MCLiblock` | instances of these for TLC |
| `QueueLockProofs` | what `FifoLock` promises; `CLH`, `MCS` and `MCSTP` |
| `CounterLockProofs` | `ALock`, `Ticket` and `RWTTAS` |
| `HTicketProofs` | `HTicket` |
| `CombiningProofs` | `CCSynch` |
| `ListCombiningProofs` | `Oyama` and `FlatCombining` |
| `LiblockProofs` | `IdManager` and `RCL` |

### Ffwd

Variables carry the names of the code: `fptr`, `argv`, `flag` are the fields of
a request line, `return_values` and `flags` those of a response line,
`local_client_flag` is the client's private copy, `old_client_flags`,
`socket_client_flags` and `local_return_values` the server's.  `cpc`, `spc` and
`mpc` are program counters; `blk` numbers the halves (half `b` of the eight is
chip `b \div 2`), `idx` the slot or word in the half.

A flag word is the set of the bits that are set, and exclusive or the symmetric
difference.  Each store to a shared line is a step, so is each load of one; the
delegated function is two steps, a read and a write of its variable, so that
two servers working on one variable would be caught.  `argc`, which the server
hands over but no function looks at, and the arguments after the first are left
out.

| Action | Code |
|---|---|
| `WriteFptr`, `PrepareRequest`, `RaiseFlag`, `SpinDone`, `ReadReturn` | the statements of `FFWD_EXEC`, in order |
| `ClientExit` | the sample's `while (stop == 0)` |
| `ServerPass`, `ServerExit` | `while (finished[0] != 1)` |
| `PollMiss`, `PollHit` | the test of `SERVER_CODE_IMP`, once per slot |
| `LoadArgs`, `CallFptr`, `FinishCall` | its assembly: argument loads, call, result and toggle |
| `NothingNew`, `StartCopy`, `CopyValue`, `CopyFlags` | the end of a half: test, `memcpy`, `old = socket` |
| `SetStop`, `JoinClients`, `Shutdown`, `JoinServers` | the main thread |

Assumptions on memory and build.  Stores of one thread become visible in
program order (x86, the only architecture the inline assembly supports).  The
compiler keeps the order as well: C does not promise it (the lines are not
volatile on the writer's side, and `memcpy` may store in any order), but the
build does.  With `-O3` gcc 12 turns the copy into 16-byte stores at ascending
addresses, the flag word in the last; `prepare_request` is a call between the
stores of the pointer and of the flag; and the flag words are loaded anew at
each poll.  The model stores word by word in ascending order, which allows
every partial copy those stores allow.

Assumption on slots (`SlotAssumption`): distinct clients have distinct slots,
within the range the servers poll.  `FfwdPlacement` is about that.

### FfwdPlacement

The machine is part of the state: whether libnuma works, the platform, and the
lines `READ_SPEC` prints, from which `initialize_core_ordering` derives
`cores_per_socket` and `num_sockets`.  `Place` is what `ffwd_thread_create` and
`ffwd_bind_main_thread` have in common: the number (`NextId`), the row of the
table (`Row`, by socket with `STC`, else by core), the slot (`Slot`) and the
response line (`Response`).

### FfwdLifecycle

Buffers are pairs of a kind and a server.  `LaunchServer` is one iteration of
`launch_servers`; `MprotectFails` the exit from within it.  `ffwd_shutdown`'s
frees index the arrays with `num_of_server_launched`: entries that are null,
or, with all servers launched, memory past the arrays, which is a
nondeterministic choice of what the other entries point to.

### The combining constructions

`CCSynch`, `DSMSynch`, `FlatCombining`, `Oyama` and `Sim` have the same
interface: `Call` starts a call of `[fn, var]`, where `var` stands for the
argument, the data the critical section works on; `op`, `ret` and `calls` belong
to the caller, and `mem` is the data.  Every load and every store of a field that
another thread may touch is an action, named for what it does, and the critical
section is two, `Load` and `Store`, so that two combiners at once are seen.
Nodes and records are named by threads and numbers, the fields carry the names
of the code.  A local that is dead is reset, which is not in the code and keeps
the states few.

Each of them, but for the two below, refines `DelegationService`: the mapping (`Abstract`) says when the
operation of a call has taken effect, and `Serves` that a step is one of the
abstract service or changes nothing of it.  `Sim` publishes a whole batch with
one compare-and-swap, so its service is `BatchedService`.  In `HSynch`, the
composition, a combiner's critical section is bracketed by actions of `CLH`.

The nodes of liblock's CC-Synch and DSM-Synch have no field for the argument: the
combiner runs every request with its own.  What they implement is
`CombiningService` (`Combines`), in which an operation takes effect on the
argument of its call or on that of a call that has taken effect and not returned.
When all calls pass one argument the two services are the same.

### The locks

`Ticket`, `CLH`, `MCS` and `ALock` refine `FifoLock`; the line is that of the
one atomic step by which a thread takes its place.  `Ticket`, `ALock` and
`HTicket` have counters of `W` values that wrap.  The trylocks are a read and a
compare-and-swap, as in the code; that of `ALock` ends before the counter comes
round to the value it read (`Advance`).  `MCSTP` has no clock: a waiter may time out,
and an unlock may find a waiter too old, at any moment.  In `Bank` the lock of
an account is a variable, as the locks are modelled above; the global lock is
two bytes of a word, and a reader too many is carried from one to the other; a transfer is the
loads and stores of two balances between two acquires and two releases.

### Remote core locking

`RCL` has the array of requests, whose entry of a client holds the lock, the
operation and the owner, and the servicing threads, which the manager can
preempt anywhere.  The constant `GDB_PROOF` is the macro of that name: with it a
request is owned before it is read again and run.  `FQueue` is the list at the
level of single loads and compare-and-swaps.  `RCLCond` has three lists.  The
list of the condition and the ready list share the nodes `ll_ready`, so a walk
that holds a node of one may find itself in the other: `next` and `mark` are the
fields of those nodes, and each turn of a loop of `fqueue.h` is a step (load,
test and compare-and-swap together).  In particular the walk of the manager goes
on from the node that `on_remove` has just put in the ready list (`Walk`,
`InsertInReady`), and that of `cond_signal`, which looks for a timed node in the
condition's list, goes through that list turn by turn (`RemoveTimedMark`,
`RemoveTimedWalk`).  The timed list has nodes of its own and is a sequence: the
manager's removal from it marks and walks in one step (`RemoveFromTimed`).

## Runs

| Run | Instance | Shows |
|---|---|---|
| `ffwd_line` | 2 clients in one response line, 2 functions, 2 variables, 2 calls each | `ChannelInv`, `NoTornRequest`, `ReturnIsMine`; `Linearizable`: `Ffwd` implements `DelegationService` |
| `ffwd_servers` | 2 servers, 2 chips, clients on different chips and halves | `NoneStranded`, `NoLostIncrement` |
| `ffwd_live` | 2 clients in the two halves of a chip, 3 calls each, fair | `Answered`, `Terminates`, `NoDoubleOvertaking` |
| `setup` | placement: the machines of the repository's README, both core orderings, up to the last free processor; life cycle: arrays for 2 servers, 1 or 2 launched, 3 clients | `SlotsDistinct`, `SlotsPolled`, `ServerCoresSkipped`, `FillOrder`; `PhaseInv`, `NoUseAfterFree`, `ClientsServed`, no deadlock |
| `placement_full` | the placement of `setup`, one client more | violated: `ServerCoresSkipped` |
| `lifecycle_free` | the life cycle of `setup` | violated: `MemoryFreed` |
| `combining` | up to 3 threads and 2 arguments, each construction in turn | `Linearizable`, `NoCallStuck`, `NoUnmappedAccess`, `ServedInOrder`, `RequestsInv` |
| `ccsynch_argument` | CC-Synch as in `combining` | violated: `OwnArgument` |
| `dsmsynch_hang` | liblock's DSM-Synch, 3 threads with 3, 2 and 1 calls | violated: `NoCallStuck` |
| `locks` | 3 threads, each lock in turn, and the bank | `QueueInv`, `Fifo`, `Exclusion`, `Granted`, `BoundedPasses`, `NoFreedAccess`, `NotAbandoned`, `TotalZero`, `BankEnds` |
| `liblock` | 2 clients, threads or mini threads, 3 threads for the ids | `PartInv`, `Linearizable`, `OperationEnds`, `Listed`, `Sorted`, `OnePlace`, `ManagerSleeps`, `TestWaitEnds`, `UniqueIds`, `FreeOrHeld` |
| `rcl_preempted` | the default build of remote core locking, 2 clients, 2 servicing threads | violated: `Linearizable` |

The last three passing runs ask one question of several programs.  Their modules
(`MCCombining`, `MCLocks`, `MCLiblock`) have instances of each program, and
the initial state chooses which of them runs: the states are the sum of those of
the programs, not their product.  A property is about the program that was
chosen.  `MCFfwdSetup` does the same with placement and life cycle.  In `MCLocks`
and `MCLiblock` the instances share the variables `a`, `b`, ..., in the order in which the program's module declares them; a variable
that a program does not need is `None`.

### Bounds

Two calls per client of ffwd (`MaxOps`) toggle each bit there and back, which
is the whole period of the protocol; the second call meets the line the first
one left.  In `ffwd_live` there are three, so that a client can be served twice
while another waits.  Two slots per half and one chip have every relation two
clients can have: same line, same chip in the other half; the two-server run adds different
chips.  `W = 16` values are more than the increments of a run.  The placement
has no bound but the machines: it creates every client there is room for.
The arrays of the life cycle have length 2 instead of 4 so that both a partly
filled and a full array occur.

Three threads are a combiner, or holder, with a successor and a third thread
that comes in between.  Calls per thread (`MaxCalls`):

| Program | Calls | Other bounds |
|---|---|---|
| CC-Synch | 2, 1, 1 | `H` = 2, so that a combiner stops at its limit; 2 arguments |
| H-Synch | 2, 1, 1 | 2 clusters, 2 arguments |
| DSM-Synch | 3, 1, 1 (liblock: 2, 1, 1; in `dsmsynch_hang` 3, 2, 1) | `H` = 2; a third call uses a thread's first node again; 2 arguments |
| flat combining | 2, 1, 1 with 1 argument; 2, 2 with 2 | a cleanup at every pass, an age of 0, a counter of 5 values |
| Sim | 2, 1, 1 with 1 function; 2, 2 with 2 | pool of 3 states per thread |
| Oyama | 2, 1, 1 | help bound 2, 2 arguments |
| RCL | 3, 2 with one servicing thread; 2, 1 with two | 2 locks |
| lists | 3 operations of each of 2 threads | 2 nodes, or 3 in the ordered list; a node enters once |

The two arguments are interchangeable, so `MCCombining` has them as a symmetry
set; its properties are invariants and a property of steps, for which that is
sound.  The object of Sim is one state: there it is the function that varies, an
increment and a doubling, which do not commute.

The locks are acquired and released without bound.  Their counters wrap after 4
to 6 values, the hierarchical ticket lock passes on 2 local tickets with either
two of the threads or all of them on one socket, the reader-writer lock counts 2
readers, MCS-TP has `MAX_THREADS` = 2 (1000 in the code), so that an unlock reaches its
treadmill case, and the bank has 4 accounts and one operation of each of two threads.
There are 4 ids for 3 threads, which start and end without bound.

### Fairness

Weak fairness of each client, each server and the main thread of ffwd: every
thread is bound to a processor and the library never blocks but in the spin
loop and the joins.  `Answered` and `Terminates` need no more.

`Granted` and `OperationEnds` use weak fairness of each thread inside an
acquire, a critical section, a release or a list operation, and of each
servicing thread: they run on cores of their own or get their share of one, and
critical sections end. Nobody has to call: starting an operation is not fair,
and neither is a trylock.  `Granted` of the read-write lock, which has no queue,
is that some thread gets in, not that each does.  `BankEnds` needs no fairness:
once main has set `stop` the threads have few steps left, and the invariant is
that one of them can always take one.  `TestWaitEnds` also needs strong fairness
of taking the queue lock and the mutex: the queue lock is FIFO, which `locks`
shows of `MCS`, and the mutex is assumed to starve nobody.  `ManagerSleeps` and
the waits of `OperationEnds` assume that time passes (`Expire`).

`NoCallStuck` of `combining` is an invariant and not a liveness property: as
long as a call is in progress some thread can take a step inside a call.  It
finds every state in which the role of the combiner is lost.  It does not
exclude two threads that keep each other busy.  With the calls bounded that
would be a loop of steps; the stronger property, that under weak fairness every
call returns, was checked with one argument and holds, but takes TLC too long
to be one of the runs.

### Mutants

Every property fails for at least one mutant of the model, an operator named as
such next to the definition it replaces, and the properties of the last three
runs fail for at least one mutant of nearly each program they speak of: the flag
stored before the arguments, the flag word copied before the values, a node that
is not reset, a hand-over that is forgotten, a compare-and-swap that does not
look at a mark or becomes a store, a refill of tickets too early, a time-out
that overwrites a grant, locks taken in the order of the arguments, and so on.

## Disagreements

With a run:

- `ccsynch_argument`.  `liblock_exec(lock, pending, val)` asks for `pending(val)`.
  The combiner of CC-Synch calls the functions of all requests it serves with its
  own `val` (`ccsynch.c:123`; DSM-Synch has the same line, `dsmsynch.c:118`),
  unlike the technique the file says it is based on and sim-synch's version of it
  (`ccsynch.h:107`).  It does no harm where all calls pass the same argument or
  none.
- `rcl_preempted`.  Without `GDB_PROOF_IMPL` a servicing thread reads a request
  before it takes its lock and does not look again.  If it is preempted in
  between, a second servicing thread, which `ensure_at_least_one_free_thread`
  adds, can execute the request and clear it; the first one then executes it
  again.  The test of liblock expects each request to be executed once ("should
  be: %d").
- `placement_full`.  `ffwd_thread_create` says "skip the first core in each chip
  (for server purpose)".  The 57th thread of a machine with 64 processors gets
  number 64, which wraps around to the first core of a chip, where a server
  spins; its slot is -2.  Nothing bounds the number of threads.  (With `STC` the
  same thread reads past the table of cores.)
- `lifecycle_free`.  `ffwd_shutdown` says it frees the memory.  Its loop passes
  entry `num_of_server_launched` to `numa_free` each time, never entry `i`, and
  does not touch the response lines.  `NoUseAfterFree` holds nevertheless, as
  all threads are joined by then.
- `dsmsynch_hang`.  liblock's DSM-Synch stores `NULL` in `tmp_node->next` (line
  137) after it has let the next combiner in.  The owner of the node, released
  at line 120, may have queued with it again, and the store cuts its new
  successor off: that call never returns, and the combiner that comes to the
  node waits for ever or dereferences a null pointer (line 136).

The passing runs keep to the instances in which the programs do what they
promise.  TLC finds the following when the instance is changed as described;
each is noted with the hazard it belongs to.

| Program | Changed instance | What TLC finds |
|---|---|---|
| liblock's DSM-Synch | `Serves` for `Combines` | a request is run on the combiner's argument (`dsmsynch.c:118`) |
| liblock's DSM-Synch | `DSMSynch!NoUnmappedAccess` as an invariant | the combiner reads the node of a thread that has exited (`dsmsynch.c:122`) |
| array lock | `W` = 8 with 3 threads | after the wrap two threads are in the critical section: `ALock!Exclusion` |
| hierarchical CLH | `ExitNext` for `Next` | a thread that ends frees a node on which another waits (`hclh.c:272`): `HCLH!NoFreedAccess` |
| MCS-TP | `MAX_THREADS` = 4, 3 threads | a thread waits at a node that is off the queue (`mcstp.c:162`): `Reclaimed` |
| MCS-TP | `MAX_THREADS` = 5, 4 threads | a node that was queued again and granted the lock is marked `FAILED` (`mcstp.c:162`), and nobody has the lock: `NotAbandoned`, which holds for 3 threads with `MAX_THREADS` from 1 to 6 |
| bank | `ResetNext` for `Next`, 2 operations each | a transfer beside a reset leaves a total that is not zero (`bank_th.c:150`): `TotalZero` |
| bank | the same, a total and a reset | the global lock is never free again (`gl_lock.c:66`): deadlock |
| bank | 2 accounts | a transfer locks one account twice (`bank_th.c:312`): deadlock |
| thread ids | 3 ids for 3 threads | the program ends with "exhausted client ids" while an id is free (`liblock.c:258`): `OnlyExhausted` |
| lists | `MaxIn` = 2, 4 operations | a node that was removed and put back is unlinked without being marked (`fqueue.h:64`): `PredInvariant` |
| RCL conditions | one timed wait | a mini thread is resumed before its context is saved (`rcl.c:1111`): `SavedBeforeResumed` |
| RCL conditions | two timed waits and a broadcast | a mini thread that waits is in no list (`rcl.c:1054`): `NotLost` |
| RCL conditions | a timed wait and a broadcast, `ManagerSleeps` | the manager finds the same node for ever (`rcl.c:1054`) |

## Proofs

### The channel

For every set of clients and servers, every number of chips and slots, every
`Apply` and any number of calls, from the assumptions named in `Ffwd`:

| Theorem | Statement |
|---|---|
| `ChannelInvariant` | `Spec => []ChannelInv` |
| `TypeCorrect` | `Spec => []TypeOK` |
| `RequestsWhole` | `Spec => []NoTornRequest` |
| `ReturnsRight` | `Spec => []ReturnIsMine` |
| `NobodyStranded` | `Spec => []NoneStranded` |
| `ChannelLinearizable` | `Spec => Linearizable` |
| `OvertakenOnce` | `BypassSpec => []NoDoubleOvertaking` |

None of the properties is inductive: that a request is whole when the server
sees its bit depends on what the server's bits were when it last passed.  For
each client and server there are five copies of the client's bit: its own, the
request line's, the server's current and old one, and the response line's.
`ChannelInv` says how they may differ (`Handshake`): request line and private
copy always agree, as do response line and the server's old copy; all agree
unless the client waits; the server's current copy is ahead of the old one only
from the execution of the request to the end of the half.  The other conjuncts
say that unused slots keep a clear bit, that the request line holds what the
client has written so far, that a call in progress belongs to a waiting client
whose variable nobody else has touched, that the words a copy has passed are
stored, and how `stop`, `finished` and the joins are related.

The proof that a step keeps it follows the actions: the five steps of a client,
polling and loading, the end of a call and of an idle half, and the copy.  The
lemmas about slots do the arithmetic once: a
client's line and word determine its slot, and a server at a half and index is
at one slot.

The refinement rests on the same invariant.  From outside, a call is idle,
pending while the client's bit and the server's current copy of it differ, and
done once they agree; its result is in the server's private copy of the line.
Three steps are visible: `RaiseFlag` is `Invoke`, because the bits agreed
before; `FinishCall` is `Execute` (lemma `FinishCallEffect`: it toggles the bit
and stores the result of exactly one waiting client); `ReadReturn` is `Return`,
because the bits agree and the word read is the private copy's.  All other
steps leave every client's call as it is (lemma `SameCall`).

The bound on overtaking needs an order: after client d has been served while c
waits, the server comes to c's slot before it comes to d's again (`First`,
written with what the server is past in this pass of its loop).  `BypassInv`
says this of every d that has been counted.  A server moves by one slot, stays
or starts over (lemma `Moves`), and it does not go past the slot of a client
whose request is raised without executing it (lemma `NotPassed`, from
`Handshake`).

### The life cycle

For any length of the arrays (`LifecycleAssumption`: there is room for one
server), any number of servers launched and any set of clients:

| Theorem | Statement |
|---|---|
| `Lifecycle` | `Spec => []PhaseInv` |
| `MemoryInUse` | `Spec => []NoUseAfterFree` |
| `AllServed` | `Spec => []ClientsServed` |

`PhaseInv` says for each place of the main thread which servers run, whether
clients may, and that the memory of a started server is there until the joins
are over.  `NoUseAfterFree` alone is not inductive: nothing in it forbids a
thread to run while the loop frees.

### The placement

For every set of machines and both builds, from `PlacementAssumption`:
`MAX_SOCK` is 4 and `INDEX_DIFF` 2, as in the code, and a machine on which the
library starts has the shape it is written for (`Shaped`): `8 * n` processors,
`n` up to 16, on four sockets.  On a larger one `NCLIENTS` is too small (see the
hazards).  And from `Spare = 0`: there are no more clients than processors that
are not the first of their line; one client more is the run `placement_full`.

| Theorem | Statement |
|---|---|
| `PlacedApart` | `PlacementSpec => []SlotsDistinct` |
| `PlacedWherePolled` | `PlacementSpec => []SlotsPolled` |
| `ServersAlone` | `PlacementSpec => []ServerCoresSkipped` |
| `FilledInOrder` | `PlacementSpec => []FillOrder` |

A client's place is computed by a chain of divisions from a counter that skips
some numbers.  The proof undoes the chain.  `PlacementInv` says that client
number `(n - 1) * r + k` has got number `n * r + k`, where `r` is one of the
eight rows and `k` is a place in it that is not the first (`Taken`), and that its
context is the one of that number.  The lemmas compute the context once: number
`n * r + k` is place `k` of the line that comes `r`-th (`RowIs`), which is the
processor that `XeonLines` or `OpteronLines` have there (`CellIs`), whose chip is
half the line's number and whose slot is `2 * k - 2`, and one more in the second
line of a chip (`SlotIs`).  From that form the four properties follow: line and
place can be read off chip and slot, slots are below `2 * NCLIENTS`, no processor
at place `k > 0` is a multiple of `n`, and the lines are taken in order
(`LineOnce`).

### The locks

A component's theorem speaks of its own specification, `CLH!Spec` and so on, for
every set of threads.

| Theorem | Assumption | Statement |
|---|---|---|
| `HeldByFirst` | | `FifoLock`: `Spec => []FirstHolds`, only the first in line is inside |
| `CLHFifo` | `Distinct`: the first node is nobody's | `Spec => Fifo` |
| `MCSQueue` | `Distinct`: null is no thread's node | `Spec => []QueueInv /\ Fifo` |
| `MCSNodes` | the same | `Spec => []NoFreedAccess` |
| `TicketFifo` | `Sizes`: finitely many threads, fewer than the counter has values | `Spec => Fifo` |
| `ALockFifo` | `Sizes`: finitely many threads, and the number of slots divides the range of the counter | `Spec => Fifo` |
| `ReadWriteExclusion` | `Sizes`: finitely many threads, room for two readers | `Spec => []Exclusion` |
| `HTicketExclusion` | `Sizes`: finitely many threads, fewer than the global counter has values; a socket has at most one thread more than `NB_TICKETS_LOCAL` | `Spec => [](TicketInv /\ Exclusion /\ BoundedPasses)` |
| `OneOwner` | `Distinct`: null is no thread's node | `MCSTP`: `Spec => [](OwnerInv /\ Exclusion)` |

`Fifo` is the specification of `FifoLock`: with `HeldByFirst`, the queue locks
exclude, and serve in the order of the swaps.  The invariants (`QueueInv`) tie
the data a thread spins on to its place in that order:

- CLH: each thread spins on the node of the one before it, no two threads have
  one node, and the node that is neither (`Free`) is the one on which the first
  in line spins, or the lock's if the line is empty.  The release moves it on,
  which is why a thread leaves with another node than it came with;
- MCS: the line is a chain of `next` pointers, with a gap where a thread has
  swapped and not yet linked.  The thread that releases is before the line, and
  its compare-and-swap can fail only if there is a line to wait for;
- ticket lock: the tickets of the line are the numbers from `head` on, modulo
  the range.  With fewer threads than numbers no two are the same, which the
  lemma `WrapSucc` on counting modulo `W` says;
- array lock: the same with slots, and the flag of one slot is up, or none while
  a thread passes the lock on.  If the number of slots does not divide the range
  the theorem is false (see the table above);
- read-write lock: the word is the number of readers, or its maximum when there
  is a writer (`WordInv`);
- hierarchical ticket lock: the threads that have the global lock or queue for
  it are at places of their own, counted from `cur` (`LineRight`); a thread to
  which the lock has been passed on counts from that moment (`Served`).  In each
  socket the tickets from `nxt` to `cur` are waited with, one thread each
  (`TicketsRight`), as long as one thread keeps them (`KeeperRight`).  The thread
  that puts new tickets out waits for `cur = NB_TICKETS_LOCAL`, and `cur` has
  that value also when a set of tickets has just been put out.  That the thread
  does not mistake one for the other depends on the number of threads: the
  tickets of the full set would all be waited with, and besides there would be
  the thread that keeps them and the one that refills (lemma `HCrowd`).  In the
  code `NB_TICKETS_LOCAL` is 128, so the theorem covers up to 129 threads on a
  socket, and says nothing of more;
- MCS with time-outs: `OwnerInv` says that at most one thread holds the lock and
  that none does while the queue is empty.  A thread also holds it (`Holds`) when
  its node is `AVAILABLE` and it waits there or is on its way back into the queue
  with it.  A grant is a compare-and-swap from `WAITING`, made by the holder,
  which thereby stops being one; all other changes of a status by an unlock are
  marks, which can only end a hold.  So the proof needs nothing about the order
  of the queue.  It does not show that a lock that is taken has an owner
  (`NotAbandoned`), and with four threads TLC finds that it may have none (see
  Disagreements).

### CC-Synch

For any set of threads, any limit `H` of at least 1, any delegated functions and
any number of calls with any arguments, from `Sizes`: one lock, whose first node
is nobody's.

| Theorem | Statement |
|---|---|
| `CombiningLinearizable` | `Spec => []CombineInv /\ Linearizable`, where `Linearizable` is the specification of `CombiningService` |
| `OneArgument` | if all calls pass one argument, `Spec` implies that of `DelegationService` |
| `CombiningOrder` | `Spec => []ServedInOrder` |
| `CombiningNodes` | `Spec => []NoUnmappedAccess` |

The nodes go round: a thread brings one, leaves it at the tail, and goes with
the one that was there (`NodesApart`: each node has one place, with a thread or
at the tail).  The queue consists of the nodes whose requests are not executed
and of the tail (`Queued`).  `CombineInv` says of it that

- behind each request that is not executed there is one node, which its thread
  knows before it is linked (`Behind`), and at which a thread has to wait; it is
  behind no other (`QueueRight`).  So the queue is a line;
- at most one of its nodes lets its thread in, and while a thread combines only
  that thread's own can (`OneFirst`): there is one combiner;
- the combiner is at the first node of the queue, and executes its own request
  before any other (`AtFirst`).  The owner of the node it works on is itself or
  waits with its flag up, so the node is not taken back under its hands
  (`Executes`, `Released`).

`Call` is `Invoke`, `Store` is `ExecuteBy` for the thread whose request is at the
first node, on the argument of the combiner, whose own request is that one or is
executed already (`AtFirst`), `Return` is `Return`.  The proof has two kinds of
step.  A thread that writes only to its own node disturbs nobody (lemmas `OthersKeep` and
`CombinerKeeps`): it is enough to look at its part of the invariant
(`MineInv`).  The combiner's steps take the first node out of the queue
(`Store`), let its thread go (`Release`) and let the next one in (`Handoff`);
for the first and the last it matters that no request is in front of that node
(`First`).

### Flat combining

For any set of threads, any delegated functions, any arguments, any frequency and
age of the cleanup and any width of the counter, from `Sizes`: the null pointer
is neither a record nor a function.

| Theorem | Statement |
|---|---|
| `FlatCombiningLinearizable` | `Spec => []ListInv /\ Linearizable` |
| `FlatCombiningListed` | `Spec => []ActiveIsListed` |

The records of the list are those in every set that has the head and that no
pointer leads out of (`Reach`, `Listed`), so the proof needs neither lengths nor
positions, and no induction: to show that a record is still in the list is to
show it for each such set.  `ListInv` says that

- each record of the list is active, and is the head or has one predecessor
  (`ListRight`).  So when the cleanup takes a record off, what came before it and
  what came behind it stay, and it alone goes (`FUnlinkedList`); and a push adds
  one record and loses none (`FPushedList`);
- an active record is in the list, or being pushed, or just taken off and about
  to be marked (`ActiveIsListed`): its owner never pushes it twice;
- one thread has the lock (`OneHolder`).  Its own record is in the list when it
  starts to walk, and stays ahead of it until its request is executed, although
  other threads push in front (`HolderRight`): so a thread that combines returns
  with its own call done.  Others' requests it may meet or not;
- a request that is pending and not executed holds what its call asked for
  (`ThreadRight`).

`Call` is `Invoke`, `Store` is `Execute` for the owner of the record the walk has
come to, `Return` is `Return`.  The age that decides which records are taken off
appears nowhere in the invariant: no wrap of the counter can do harm to safety.
In the module `ListCombiningProofs` the names of this part begin with `F`.

### Oyama's lock

For any set of threads, any delegated functions, any arguments and any bound on
the help of at least 1, from `Sizes`: that, and the null pointer is no node.

| Theorem | Statement |
|---|---|
| `OyamaLinearizable` | `Spec => []StackInv /\ Linearizable` |

There are two lists: the stack, from `tail`, and what the holder of the lock has
taken from it and not yet executed (`Stacked`, `Taken`, with `Reach` as above).
`StackInv` says that

- the owner of a node in either list waits, its node is not completed, no node is
  in both, and no list comes back to a node (`ListRight`).  So a node that the
  holder has executed is no longer ahead of it, and no thread writes to the
  pointer of a node in a list: a thread pushes its node only when it is in none.
  The compare-and-swap of a push compares addresses, and nodes are used again.
  That does no harm: if it succeeds, the node points to what the stack is then;
- a call that is announced and not completed is in a list, or executed and about
  to be marked (`ThreadRight`): none is lost when the stack is taken while threads
  push;
- the holder's own node leaves the stack when it first takes it, and a holder
  goes on until what it took is executed, also beyond its bound (`HolderRight`):
  so it unlocks with its own call done.

`Call` is `Invoke`, `Store` is `Execute` for the owner of the node the holder is
at, `Return` is `Return`.  That a thread that finds the lock taken is served, by
itself or by another, is liveness and stays with TLC.

### Thread ids and remote core locking

| Theorem | Assumption | Statement |
|---|---|---|
| `IdsUnique` | `last` is a natural number | `IdManager`: `Spec => [](UniqueIds /\ FreeOrHeld)` |
| `RclLinearizable` | `Sizes`: at least one client; with `GDB_PROOF` any servicing threads, without it at most one | `RCL`: `Spec => []ServiceInv /\ Linearizable` |

An id is taken from below `first`, from `first_free` on, or from the bitmap.
`IdInv` says that the bitmap holds ids between the two ends only, and that an id
between them is in it or held: a compare-and-swap on an end cannot give out an
id that somebody has, although the thread read the end long before.

`RCL` implements `DelegationService`: `Call` is `Invoke`, `Store` is `Execute`
and `Return` is `Return`; the other steps change nothing of the service.  For
`Store` to be `Execute` what the servicing thread has read must still be so:
the function, the lock and, as the critical section is a load and a store, the
value.  `ServiceInv` says so (`ThreadInv`), because a request that a thread is
busy with is owned by it (or the thread is the only one), stays pending until
that thread clears it, and the lock it holds keeps the others from the data
(`LockInv`).  After `Store` the request is pending still, but done: `Executed`
looks at the place of the thread.

### What is only model-checked

- Liveness (`Answered`, `Terminates`, `Granted`, `OperationEnds`,
  `ManagerSleeps`, `TestWaitEnds`) and `BankEnds`: fairness and `ENABLED` are
  beyond the prover.
- `NoLostIncrement` and `TotalZero`, which are about sums: induction over data.
- The exclusion of the hierarchical CLH lock, that MCS-TP abandons no lock, the
  combining constructions other than CC-Synch, flat combining and Oyama's lock, the
  lists and the condition variables: their invariants have not been found or not been proved inductive.

The assumptions of the components are evaluated by TLC for the instances of the
runs (`SizesOfLocks`, `SizesOfServers`, `SizesOfCombining`), and the inductive invariants are
invariants of the runs: `ChannelInv` of `ffwd_line`, `PhaseInv` of `setup`,
`CombineInv`, `ListInv` and `StackInv` of `combining` (in `RequestsInv`),
`QueueInv`, `WordInv`, `TicketInv` and `OwnerInv` of `locks` (as `QueueInv`), `IdInv` and `ServiceInv`
of `liblock` (as `PartInv`).  `BypassInv` and `PlacementInv` are in no run of
their own: they imply the invariants of `ffwd_live` and of `setup`.

## Not modelled

- the layout of lines in memory, caches and their costs; memory orders weaker
  than program order of stores (x86 lets a load overtake an earlier store: the
  locks use atomic instructions where that would matter, the models assume it);
- option parsing, measuring and printing in the sample; setting affinities;
- `create_thread`, which nothing calls; the unused `finished2` to `finished4`;
- critical sections that call `liblock_exec` or wait inside a combining lock,
  back-off and prefetching, arrays of locks;
- liblock's spinlock, POSIX and `mwait` locks (one instruction, or a call of a
  library), `mcs_mon.c`, `fccsynch.c` and `eercl.c` (variants of files that are
  modelled), the look-up of implementations and of the machine's topology;
- of remote core locking: start and stop of servers, the pool of native threads
  and their priorities;
- in the runs, though not in the modules: the exit of a thread that uses the
  hierarchical CLH lock, and the bank's reset (see above);
- the data structures of the micro-benchmarks, which are sequential code under
  the locks, and memcached, Phoenix, SPLASH-2 and synchrobench, programs by
  others that call the locks and come in several copies each.

The repository has over half a million lines of C, nearly all of them in those
applications; the models cover the synchronisation code, which is a small part
of it.

## Open

- *Store buffers.*  A variant of `Ffwd` with explicit store buffers, to replace
  the assumption on the order of stores.
- *Proofs.*  Mutual exclusion of the hierarchical CLH lock; the invariants of
  DSM-Synch, H-Synch and Sim.
- *Micro-benchmarks.*  The lock-free queue and stack of sim-synch and the lists
  with read-copy-update.
