---------------------------- MODULE FfwdPlacement ----------------------------
(***************************************************************************)
(* Where libffwd puts its threads: the table of cores that ffwd_init reads *)
(* (initialize_core_ordering), the cores launch_servers gives the servers, *)
(* and the core, chip and slot that ffwd_thread_create and                 *)
(* ffwd_bind_main_thread give each client.                                 *)
(*                                                                         *)
(* The channel of Ffwd relies on the slots: distinct clients must have     *)
(* distinct ones, and a slot must be one the servers poll.                 *)
(***************************************************************************)
EXTENDS Integers, Sequences, FiniteSets

CONSTANTS
  Machines,    \* the machines the library may start on
  Builds,      \* the values of "compiled with -DSTC" considered
  MAX_SOCK,    \* 4
  INDEX_DIFF,  \* 2
  Spare        \* how many threads more than a machine has room for

\* n consecutive processors from a on.
Span(a, n) == [i \in 1 .. n |-> a + i - 1]

\* Xeon: four sockets of n cores with two hyperthreads each; READ_SPEC prints a
\* node's processors as two ranges.
XeonLines(n) ==
  [l \in 1 .. 8 |-> LET node == (l - 1) \div 2
                        thread == (l - 1) % 2
                    IN  Span(4 * n * thread + n * node, n)]

\* Opteron: four sockets of two nodes with n cores each.
OpteronLines(n) == [l \in 1 .. 8 |-> Span(n * (l - 1), n)]

\* The machines the library is written for (MAX_SOCK, and NCLIENTS below).
Shaped(m) ==
  \E n \in 1 .. 16 :
    /\ m.nproc = 8 * n
    /\ m.lines = IF m.platform = "Xeon" THEN XeonLines(n) ELSE OpteronLines(n)

ASSUME PlacementAssumption ==
  /\ MAX_SOCK = 4 /\ INDEX_DIFF = 2 /\ Builds \subseteq BOOLEAN
  /\ \A m \in Machines : m.numa /\ m.platform \in {"Xeon", "Opteron"} => Shaped(m)

VARIABLES
  machine,     \* numa_available, platform, processors, READ_SPEC's output
  stc,         \* compiled with -DSTC
  phase,       \* how far the main thread is
  cores,       \* the lines of READ_SPEC
  cores_per_socket, num_sockets,
  global_id,
  server_core, \* the core of each server
  contexts     \* the ffwd_contexts of the clients, in order of creation

placement_vars == <<machine, stc, phase, cores, cores_per_socket, num_sockets, global_id,
                    server_core, contexts>>

\* macro.h: the size of half a chip is chosen by the number of processors.
NCLIENTS == IF machine.nproc = 64 THEN 7 ELSE 15

PlacementInit ==
  /\ machine \in Machines
  /\ stc \in Builds
  /\ phase = "start"
  /\ cores = << >>
  /\ cores_per_socket = 0
  /\ num_sockets = 0
  /\ global_id = 0
  /\ server_core = << >>
  /\ contexts = << >>

Supported == machine.numa /\ machine.platform \in {"Xeon", "Opteron"}

\* ffwd_init: READ_SPEC prints one line per range of processors of a node.
initialize_core_ordering ==
  LET all_threads == Cardinality(UNION {{l} \X DOMAIN machine.lines[l] : l \in DOMAIN machine.lines})
      total_sockets == Len(machine.lines)
  IN  /\ phase = "start"
      /\ Supported
      /\ cores' = machine.lines
      /\ cores_per_socket' = all_threads \div total_sockets
      /\ num_sockets' = total_sockets \div 2
      /\ phase' = "inited"
      /\ UNCHANGED <<machine, stc, global_id, server_core, contexts>>

\* ... and ffwd_init ends the process without libnuma or on any other platform.
Unsupported ==
  /\ phase = "start"
  /\ ~ Supported
  /\ phase' = "exited"
  /\ UNCHANGED <<machine, stc, cores, cores_per_socket, num_sockets, global_id,
                 server_core, contexts>>

\* Mutant: the servers get the last processor of a line, not the first.
ServerCoreLast(i) == cores_per_socket * (i + 1) - 1

\* The processor of server i: the first of a chip, which has two lines of
\* consecutive processors on the Opteron.
ServerCore(i) ==
  IF machine.platform = "Opteron" THEN cores_per_socket * 2 * i ELSE cores_per_socket * i

launch_servers ==
  /\ phase = "inited"
  /\ \E n \in 1 .. MAX_SOCK :
       server_core' = [i \in 0 .. n - 1 |-> ServerCore(i)]
  /\ phase' = "running"
  /\ UNCHANGED <<machine, stc, cores, cores_per_socket, num_sockets, global_id, contexts>>

\* The next number: the one that would be the first of lines 1 to 7 is skipped.
NextId ==
  IF \E k \in 1 .. 7 : global_id = cores_per_socket * k - 1
    THEN global_id + 2
    ELSE global_id + 1

\* Mutant: the lines are taken in the order they are printed in.
RowPrinted(g) == g \div cores_per_socket

\* The line of cores that number g is taken from.
Row(g) ==
  LET r == g \div cores_per_socket
  IN  IF stc THEN r ELSE 2 * r + (1 - 2 * num_sockets) * (r \div num_sockets)

\* C's division truncates towards zero.
Quotient(a, b) == IF a >= 0 THEN a \div b ELSE -((-a) \div b)

\* Mutant: the two hyperthreads of a core get the same slot.
SlotIgnoringHalf(id) ==
  [chip |-> (id \div cores_per_socket) % MAX_SOCK,
   id_in_chip |-> (id % cores_per_socket) * 2 - INDEX_DIFF]

\* The chip of a processor and its slot in the chip.
Slot(id) ==
  IF machine.platform = "Xeon"
    THEN [chip |-> id \div cores_per_socket
                     - (id \div (cores_per_socket * MAX_SOCK)) * MAX_SOCK,
          id_in_chip |-> (id % cores_per_socket) * 2
                           + id \div (cores_per_socket * MAX_SOCK) - INDEX_DIFF]
    ELSE LET chip == id \div (cores_per_socket * 2)
         IN  [chip |-> chip,
              id_in_chip |-> (id % cores_per_socket) * 2
                               + id \div (cores_per_socket * (chip * 2 + 1)) - INDEX_DIFF]

\* Mutant: the lines of the chips are taken to be adjacent.
ResponseAdjacent(chip, id_in_chip) == chip * 2 + Quotient(id_in_chip, NCLIENTS)

\* The response line a client reads.
Response(chip, id_in_chip) == chip * MAX_SOCK + Quotient(id_in_chip, NCLIENTS)

\* The processors that are not the first of their line.
Capacity == Len(cores) * (cores_per_socket - 1)

\* The context for number g: its processor, its slot, its response line.
Context(g) ==
  LET id == cores[Row(g) + 1][(g % cores_per_socket) + 1]
  IN  [id |-> id, chip |-> Slot(id).chip, id_in_chip |-> Slot(id).id_in_chip,
       line |-> Response(Slot(id).chip, Slot(id).id_in_chip)]

Place ==
  /\ phase = "running"
  /\ Len(contexts) < Capacity + Spare
  /\ global_id' = NextId
  /\ contexts' = Append(contexts, Context(NextId))
  /\ UNCHANGED <<machine, stc, phase, cores, cores_per_socket, num_sockets, server_core>>

\* A new thread gets the context ...
ffwd_thread_create == Place

\* ... or the main thread takes it itself.
ffwd_bind_main_thread == Place

PlacementNext ==
  \/ initialize_core_ordering
  \/ Unsupported
  \/ launch_servers
  \/ ffwd_thread_create
  \/ ffwd_bind_main_thread

PlacementSpec == PlacementInit /\ [][PlacementNext]_placement_vars
-----------------------------------------------------------------------------
\* No two clients share a slot or a processor: the requests of one are never
\* taken for those of another, and nobody spins where a waiting client spins
\* (ffwd_thread_create).
SlotsDistinct ==
  \A i, j \in DOMAIN contexts : i # j =>
    /\ contexts[i].id # contexts[j].id
    /\ <<contexts[i].chip, contexts[i].id_in_chip>> # <<contexts[j].chip, contexts[j].id_in_chip>>

\* Every client's slot is one that server_func polls, and the response line it
\* reads is the one server_func answers that slot in (the lines are 0, 1, 4, 5,
\* 8, 9, 12 and 13).
SlotsPolled ==
  \A i \in DOMAIN contexts :
    \E chip \in 0 .. MAX_SOCK - 1, half \in 0 .. 1, k \in 0 .. NCLIENTS - 1 :
      /\ contexts[i].chip = chip
      /\ contexts[i].id_in_chip = half * NCLIENTS + k
      /\ contexts[i].line = chip * 4 + half

\* No client runs on a core where a server spins, be it as the core's other
\* hyperthread: ffwd_thread_create's comment says "skip the first core in each
\* chip (for server purpose)".
ServerCoresSkipped ==
  LET core(id) == IF machine.platform = "Xeon" THEN id % (cores_per_socket * MAX_SOCK) ELSE id
  IN  \A i \in DOMAIN contexts, j \in DOMAIN server_core :
        core(contexts[i].id) # server_core[j]

\* How the machine fills up, as the Makefile has it: with STC a chip is filled
\* before the next one is begun, otherwise no hyperthread is used before every
\* core has a client.
FillOrder ==
  machine.platform = "Xeon" =>
    \A i, j \in DOMAIN contexts : i < j =>
      IF stc THEN contexts[i].chip <= contexts[j].chip
      ELSE LET thread(c) == c.id \div (cores_per_socket * MAX_SOCK)
           IN  thread(contexts[i]) <= thread(contexts[j])
-----------------------------------------------------------------------------
\* For the proofs: the k-th processor of the r-th line taken goes to the client
\* with number (cores_per_socket - 1) * r + k.
Taken(i, g) ==
  \E r \in 0 .. 7, k \in 1 .. cores_per_socket - 1 :
    i = (cores_per_socket - 1) * r + k /\ g = cores_per_socket * r + k

PlacementInv ==
  /\ machine \in Machines /\ stc \in BOOLEAN
  /\ phase \in {"start", "inited", "running", "exited"}
  /\ phase \in {"inited", "running"} =>
       /\ Supported
       /\ num_sockets = 4 /\ cores_per_socket \in 1 .. 16 /\ machine.nproc = 8 * cores_per_socket
       /\ cores = IF machine.platform = "Xeon" THEN XeonLines(cores_per_socket)
                                              ELSE OpteronLines(cores_per_socket)
  /\ phase # "running" => server_core = << >> /\ contexts = << >> /\ global_id = 0
  /\ \A j \in DOMAIN server_core : j \in 0 .. 3 /\ server_core[j] = ServerCore(j)
  /\ contexts \in Seq([id : Int, chip : Int, id_in_chip : Int, line : Int])
  /\ \/ Len(contexts) = 0 /\ global_id = 0
     \/ Taken(Len(contexts), global_id)
  /\ \A i \in 1 .. Len(contexts) : \E g \in Nat : Taken(i, g) /\ contexts[i] = Context(g)
==============================================================================
