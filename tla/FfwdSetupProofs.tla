-------------------------- MODULE FfwdSetupProofs ---------------------------
(***************************************************************************)
(* What libffwd sets up before the channel is used, for any number of      *)
(* servers, any set of clients and any machine: the life of the shared     *)
(* memory (FfwdLifecycle) and the places of the threads (FfwdPlacement).   *)
(*                                                                         *)
(* PhaseInv is inductive: one lemma per group of steps.                    *)
(*                                                                         *)
(* PlacementInv says that the clients' numbers leave out the first place   *)
(* of each line and that a context is the one of its number.  What a       *)
(* number's context is, is computed once: the row (RowIs), the processor   *)
(* READ_SPEC printed there (CellIs), its chip and slot (SlotIs) and the    *)
(* response line (ContextIs).                                              *)
(***************************************************************************)
EXTENDS FfwdLifecycle, FfwdPlacement, FiniteSetTheorems, SequenceTheorems, TLAPS

\* The state in which main starts.
LEMMA InitPhase == Init => PhaseInv
  BY LifecycleAssumption DEF Init, PhaseInv, TypeOK, Index, Shared, Args

\* launch_servers: each iteration gives one server more its memory and starts it.
LEMMA LaunchPhase ==
  PhaseInv /\ (LaunchServer \/ MprotectFails \/ Launched) => PhaseInv'
  <1>1. PhaseInv /\ LaunchServer => PhaseInv'
    BY LifecycleAssumption DEF PhaseInv, TypeOK, Index, Shared, Args, LaunchServer
  <1>2. PhaseInv /\ MprotectFails => PhaseInv'
    BY LifecycleAssumption DEF PhaseInv, TypeOK, Index, MprotectFails
  <1>3. PhaseInv /\ Launched => PhaseInv'
    BY SMTT(60), LifecycleAssumption DEF PhaseInv, TypeOK, Index, Shared, Args, Launched
  <1> QED BY <1>1, <1>2, <1>3

\* A client starts with a pointer to every server that was launched, and ends.
LEMMA ClientPhase ==
  ASSUME PhaseInv, NEW c \in Clients, ClientStart(c) \/ ClientExit(c)
  PROVE  PhaseInv'
  <1>1. UNCHANGED <<main, num_of_servers, s, heap, server, finished, num_of_server_launched>>
    BY DEF ClientStart, ClientExit
  <1>2. CASE ClientStart(c)
    BY <1>1, <1>2, LifecycleAssumption DEF PhaseInv, TypeOK, Shared, Args, ClientStart
  <1>3. CASE ClientExit(c)
    BY <1>1, <1>3, LifecycleAssumption DEF PhaseInv, TypeOK, Shared, Args, ClientExit
  <1> QED BY <1>2, <1>3

\* A server only ends in ffwd_shutdown, when finished is set.
LEMMA ServerPhase ==
  ASSUME PhaseInv, NEW i \in Index, ServerExit(i)
  PROVE  PhaseInv'
  BY LifecycleAssumption DEF PhaseInv, TypeOK, Shared, Args, ServerExit

\* The steps of main after launch_servers, and those of ffwd_shutdown.
LEMMA MainPhase ==
  PhaseInv /\ (SetStop \/ JoinClients \/ SetFinished \/ JoinServers \/ Free \/ Return) => PhaseInv'
  <1>1. PhaseInv /\ SetStop => PhaseInv'
    BY DEF PhaseInv, TypeOK, Shared, Args, SetStop
  <1>2. PhaseInv /\ JoinClients => PhaseInv'
    BY DEF PhaseInv, TypeOK, Shared, Args, JoinClients
  <1>3. PhaseInv /\ SetFinished => PhaseInv'
    BY SMTT(60) DEF PhaseInv, TypeOK, Shared, Args, SetFinished, Index
  <1>4. PhaseInv /\ JoinServers => PhaseInv'
    BY LifecycleAssumption DEF PhaseInv, TypeOK, Shared, Args, JoinServers, Index
  <1>5. PhaseInv /\ Free => PhaseInv'
    BY LifecycleAssumption DEF PhaseInv, TypeOK, Free
  <1>6. PhaseInv /\ Return => PhaseInv'
    BY DEF PhaseInv, TypeOK, Return
  <1> QED BY <1>1, <1>2, <1>3, <1>4, <1>5, <1>6

\* At every place of the main thread the servers, the clients and the memory
\* are as PhaseInv says.
THEOREM Lifecycle == Spec => []PhaseInv
  <1>1. PhaseInv /\ [Next]_vars => PhaseInv'
    <2>1. PhaseInv /\ UNCHANGED vars => PhaseInv'
      BY DEF PhaseInv, TypeOK, vars
    <2> QED
      BY <2>1, LaunchPhase, ClientPhase, ServerPhase, MainPhase DEF Next, Terminated
  <1> QED
    BY <1>1, InitPhase, PTL DEF Spec

\* Whatever ffwd_shutdown frees, no server or client that runs loses memory.
THEOREM MemoryInUse == Spec => []NoUseAfterFree
  <1>1. PhaseInv => NoUseAfterFree
    BY LifecycleAssumption DEF PhaseInv, TypeOK, NoUseAfterFree, Index
  <1> QED
    BY <1>1, Lifecycle, PTL

\* While a client runs, every server main asked for runs, and the client has
\* pointers to them all.
THEOREM AllServed == Spec => []ClientsServed
  <1>1. PhaseInv => ClientsServed
    BY LifecycleAssumption DEF PhaseInv, TypeOK, ClientsServed, Index
  <1> QED
    BY <1>1, Lifecycle, PTL
-----------------------------------------------------------------------------
\* Division by the number of processors of a line.
LEMMA Divide ==
  ASSUME NEW n \in Nat \ {0}, NEW q \in Nat, NEW k \in 0 .. n - 1, NEW x, x = n * q + k
  PROVE  x \div n = q /\ x % n = k
  OBVIOUS

\* m steps for each unit.
LEMMA More ==
  ASSUME NEW m \in Nat, NEW a \in Nat, NEW b \in Nat, a < b
  PROVE  m * a + m <= m * b
  OBVIOUS

\* The line from which the r-th row of numbers is taken.
Line(r) == IF stc THEN r ELSE IF r < 4 THEN 2 * r ELSE 2 * r - 7

\* The processor at place k of line l.
Processor(l, k) ==
  IF machine.platform = "Xeon"
    THEN cores_per_socket * (4 * (l % 2) + l \div 2) + k
    ELSE cores_per_socket * l + k

\* The client at place k of line l.
Client(l, k) ==
  [id |-> Processor(l, k), chip |-> l \div 2, id_in_chip |-> 2 * k + (l % 2) - 2,
   line |-> 4 * (l \div 2) + (IF 2 * k + (l % 2) - 2 < NCLIENTS THEN 0 ELSE 1)]

\* The fields of a context.
LEMMA Fields ==
  ASSUME NEW l, NEW k
  PROVE  /\ Client(l, k).id = Processor(l, k)
         /\ Client(l, k).chip = l \div 2
         /\ Client(l, k).id_in_chip = 2 * k + (l % 2) - 2
         /\ Client(l, k).line = 4 * (l \div 2) + (IF 2 * k + (l % 2) - 2 < NCLIENTS THEN 0 ELSE 1)
  BY DEF Client

\* What is known while clients are placed.
LEMMA Running ==
  ASSUME PlacementInv, phase \in {"inited", "running"}
  PROVE  /\ machine.platform \in {"Xeon", "Opteron"} /\ stc \in BOOLEAN
         /\ MAX_SOCK = 4 /\ INDEX_DIFF = 2
         /\ num_sockets = 4 /\ cores_per_socket \in 1 .. 16
         /\ NCLIENTS \in {7, 15} /\ cores_per_socket <= NCLIENTS + 1
         /\ cores = IF machine.platform = "Xeon" THEN XeonLines(cores_per_socket)
                                                ELSE OpteronLines(cores_per_socket)
  <1>1. /\ machine.platform \in {"Xeon", "Opteron"} /\ stc \in BOOLEAN
        /\ MAX_SOCK = 4 /\ INDEX_DIFF = 2
        /\ num_sockets = 4 /\ cores_per_socket \in 1 .. 16 /\ machine.nproc = 8 * cores_per_socket
        /\ cores = IF machine.platform = "Xeon" THEN XeonLines(cores_per_socket)
                                               ELSE OpteronLines(cores_per_socket)
    BY Zenon, PlacementAssumption DEF PlacementInv, Supported
  <1>2. NCLIENTS \in {7, 15} /\ cores_per_socket <= NCLIENTS + 1
    BY <1>1 DEF NCLIENTS
  <1> QED BY Zenon, <1>1, <1>2

\* Numbers are spread over the lines: number n * r + k is place k of line Line(r).
LEMMA RowIs ==
  ASSUME PlacementInv, phase \in {"inited", "running"}, NEW r \in 0 .. 7,
         NEW k \in 1 .. cores_per_socket - 1
  PROVE  /\ Row(cores_per_socket * r + k) = Line(r)
         /\ Line(r) \in 0 .. 7
         /\ (cores_per_socket * r + k) % cores_per_socket = k
  <1>0. num_sockets = 4 /\ cores_per_socket \in 1 .. 16 /\ stc \in BOOLEAN
    BY Zenon, Running
  <1>1. /\ (cores_per_socket * r + k) \div cores_per_socket = r
        /\ (cores_per_socket * r + k) % cores_per_socket = k
    <2>1. cores_per_socket \in Nat \ {0} /\ r \in Nat /\ k \in 0 .. cores_per_socket - 1
      BY <1>0
    <2> QED BY Zenon, <2>1, Divide
  <1>2. Row(cores_per_socket * r + k) =
          IF stc THEN r ELSE 2 * r + (1 - 2 * num_sockets) * (r \div num_sockets)
    BY <1>1 DEF Row
  <1>3. (IF stc THEN r ELSE 2 * r + (1 - 2 * 4) * (r \div 4)) = Line(r) /\ Line(r) \in 0 .. 7
    BY <1>0 DEF Line
  <1> QED BY Zenon, <1>0, <1>1, <1>2, <1>3

\* What READ_SPEC printed at place k of line l.
LEMMA CellIs ==
  ASSUME PlacementInv, phase \in {"inited", "running"}, NEW l \in 0 .. 7,
         NEW k \in 1 .. cores_per_socket - 1
  PROVE  cores[l + 1][k + 1] = Processor(l, k) /\ Processor(l, k) \in Nat
  <1>0. /\ cores_per_socket \in 1 .. 16 /\ machine.platform \in {"Xeon", "Opteron"}
        /\ cores = IF machine.platform = "Xeon" THEN XeonLines(cores_per_socket)
                                               ELSE OpteronLines(cores_per_socket)
    BY Zenon, Running
  <1>1. l + 1 \in 1 .. 8 /\ (l + 1) - 1 = l /\ k + 1 \in 1 .. cores_per_socket
    BY <1>0
  <1>2. CASE machine.platform = "Xeon"
    <2>1. cores[l + 1] = Span(4 * cores_per_socket * (l % 2) + cores_per_socket * (l \div 2), cores_per_socket)
      BY <1>0, <1>1, <1>2 DEF XeonLines
    <2>2. cores[l + 1][k + 1] = 4 * cores_per_socket * (l % 2) + cores_per_socket * (l \div 2) + (k + 1) - 1
      BY <1>1, <2>1 DEF Span
    <2>3. l % 2 \in 0 .. 1 /\ l \div 2 \in 0 .. 3
      OBVIOUS
    <2> QED BY <1>0, <1>2, <2>2, <2>3 DEF Processor
  <1>3. CASE machine.platform # "Xeon"
    <2>1. cores[l + 1] = Span(cores_per_socket * l, cores_per_socket)
      BY <1>0, <1>1, <1>3 DEF OpteronLines
    <2>2. cores[l + 1][k + 1] = cores_per_socket * l + (k + 1) - 1
      BY <1>1, <2>1 DEF Span
    <2> QED BY <1>0, <1>3, <2>2 DEF Processor
  <1> QED BY Zenon, <1>2, <1>3

\* On the Xeon the processors of the second hyperthreads follow those of the first.
LEMMA HyperThread ==
  ASSUME PlacementInv, phase \in {"inited", "running"}, machine.platform = "Xeon", NEW l \in 0 .. 7,
         NEW k \in 1 .. cores_per_socket - 1
  PROVE  /\ Processor(l, k) \div (cores_per_socket * 4) = l % 2
         /\ Processor(l, k) % (cores_per_socket * 4) = cores_per_socket * (l \div 2) + k
  <1> DEFINE n == cores_per_socket
             id == Processor(l, k)
  <1>0. n \in 1 .. 16
    BY Zenon, Running
  <1>1. PICK h \in 0 .. 1, c \in 0 .. 3 : h = l % 2 /\ c = l \div 2
    OBVIOUS
  <1>2. id = n * (4 * h + c) + k
    BY Zenon, <1>1 DEF Processor
  <1>3. id = (n * 4) * h + (n * c + k)
    BY <1>0, <1>2
  <1>4. n * c + k \in 0 .. n * 4 - 1 /\ n * 4 \in Nat \ {0}
    <2>1. n * c <= n * 3 /\ n * c >= 0 /\ n * c \in Int
      BY <1>0
    <2> QED BY <1>0, <2>1
  <1> HIDE DEF n, id
  <1>5. PICK d, e : d \in Nat \ {0} /\ e \in 0 .. d - 1 /\ d = n * 4 /\ e = n * c + k /\ id = d * h + e
    BY Zenon, <1>3, <1>4
  <1>6. id \div d = h /\ id % d = e
    <2>1. h \in Nat /\ d \in Nat \ {0} /\ e \in 0 .. d - 1 /\ id = d * h + e
      BY <1>5
    <2> QED BY Zenon, <2>1, Divide
  <1> QED BY Zenon, <1>1, <1>5, <1>6 DEF n, id

\* The chip and the slot of the processor at place k of line l.
LEMMA SlotIs ==
  ASSUME PlacementInv, phase \in {"inited", "running"}, NEW l \in 0 .. 7,
         NEW k \in 1 .. cores_per_socket - 1
  PROVE  /\ Slot(Processor(l, k)).chip = l \div 2
         /\ Slot(Processor(l, k)).id_in_chip = 2 * k + (l % 2) - 2
  <1> DEFINE n == cores_per_socket
             id == Processor(l, k)
  <1>0. /\ n \in 1 .. 16 /\ machine.platform \in {"Xeon", "Opteron"}
        /\ MAX_SOCK = 4 /\ INDEX_DIFF = 2
    BY Zenon, Running
  <1>1. n \in Nat \ {0} /\ k \in 0 .. n - 1 /\ l \in Nat
    BY <1>0
  <1>2. CASE machine.platform = "Xeon"
    <2>1. id = n * (4 * (l % 2) + l \div 2) + k /\ 4 * (l % 2) + l \div 2 \in Nat
      BY <1>2 DEF Processor
    <2>2. id \div n = 4 * (l % 2) + l \div 2 /\ id % n = k
      <3>1. PICK q \in Nat : q = 4 * (l % 2) + l \div 2 /\ id = n * q + k
        BY Zenon, <2>1
      <3> HIDE DEF n, id
      <3>2. id \div n = q /\ id % n = k
        BY <1>1, <3>1
      <3> QED BY Zenon, <3>1, <3>2
    <2>3. id \div (n * 4) = l % 2
      BY Zenon, <1>2, HyperThread
    <2> HIDE DEF n, id
    <2>4. id \div n - (id \div (n * 4)) * 4 = l \div 2 /\ (id % n) * 2 + id \div (n * 4) - 2 = 2 * k + (l % 2) - 2
      BY <2>2, <2>3
    <2> QED BY Zenon, <1>0, <1>2, <2>4 DEF Slot, n, id
  <1>3. CASE machine.platform # "Xeon"
    <2>1. id = n * l + k
      BY <1>3 DEF Processor
    <2>2. id \div n = l /\ id % n = k
      <3> HIDE DEF n, id
      <3> QED BY <1>1, <2>1
    <2>3. id \div (n * 2) = l \div 2
      <3>1. PICK h \in 0 .. 1, c \in 0 .. 3 : c = l \div 2 /\ l = 2 * c + h
        OBVIOUS
      <3>2. id = (n * 2) * c + (n * h + k)
        BY <1>0, <2>1, <3>1
      <3>3. n * h + k \in 0 .. n * 2 - 1 /\ n * 2 \in Nat \ {0}
        BY <1>0
      <3> HIDE DEF id, n
      <3>4. PICK d, e : d \in Nat \ {0} /\ e \in 0 .. d - 1 /\ d = n * 2 /\ id = d * c + e
        BY Zenon, <3>2, <3>3
      <3>5. id \div d = c
        <4>1. c \in Nat
          OBVIOUS
        <4> QED BY Zenon, <3>4, <4>1, Divide
      <3> QED BY Zenon, <3>1, <3>4, <3>5
    <2>4. id \div (n * ((l \div 2) * 2 + 1)) = l % 2
      <3>1. PICK h \in 0 .. 1, c \in 0 .. 3 : h = l % 2 /\ c = l \div 2 /\ l = 2 * c + h
        OBVIOUS
      <3>2. PICK d \in Nat \ {0} : d = n * (c * 2 + 1) /\ d = n * (2 * c) + n /\ n * (2 * c) \in Nat
        BY <1>0
      <3>3. CASE h = 0
        <4>1. id = d * 0 + (n * (2 * c) + k) /\ n * (2 * c) + k \in 0 .. d - 1
          BY <1>0, <2>1, <3>1, <3>2, <3>3
        <4> HIDE DEF id, n
        <4>2. PICK e \in 0 .. d - 1 : id = d * 0 + e
          BY Zenon, <4>1
        <4>3. id \div d = 0
          BY <4>2
        <4> QED BY Zenon, <3>1, <3>2, <3>3, <4>3
      <3>4. CASE h = 1
        <4>1. n * l = n * (2 * c) + n
          BY <1>0, <3>1, <3>4
        <4>2. id = d * 1 + k /\ k \in 0 .. d - 1
          BY <1>0, <2>1, <3>2, <4>1
        <4> HIDE DEF id, n
        <4>3. id \div d = 1
          BY <4>2
        <4> QED BY Zenon, <3>1, <3>2, <3>4, <4>3
      <3> QED BY <3>3, <3>4
    <2> HIDE DEF n, id
    <2>5. (id % n) * 2 + (l % 2) - 2 = 2 * k + (l % 2) - 2
      BY <2>2
    <2> QED BY Zenon, <1>0, <1>3, <2>3, <2>4, <2>5 DEF Slot, n, id
  <1> QED BY Zenon, <1>2, <1>3

\* The context of the number n * r + k.
LEMMA ContextIs ==
  ASSUME PlacementInv, phase \in {"inited", "running"}, NEW r \in 0 .. 7,
         NEW k \in 1 .. cores_per_socket - 1
  PROVE  Context(cores_per_socket * r + k) = Client(Line(r), k)
  <1> DEFINE n == cores_per_socket
             l == Line(r)
             p == 2 * k + (l % 2) - 2
  <1>1. Row(n * r + k) = l /\ l \in 0 .. 7 /\ (n * r + k) % n = k
    BY Zenon, RowIs
  <1>2. cores[l + 1][k + 1] = Processor(l, k)
    BY Zenon, <1>1, CellIs
  <1>3. Slot(Processor(l, k)).chip = l \div 2 /\ Slot(Processor(l, k)).id_in_chip = p
    BY Zenon, <1>1, SlotIs
  <1>4. NCLIENTS \in {7, 15} /\ n <= NCLIENTS + 1 /\ n \in 1 .. 16 /\ MAX_SOCK = 4
    BY Zenon, Running
  <1>5. Response(l \div 2, p) = 4 * (l \div 2) + (IF p < NCLIENTS THEN 0 ELSE 1)
    <2>1. l % 2 \in 0 .. 1 /\ l \div 2 \in 0 .. 3
      BY <1>1
    <2> HIDE DEF l
    <2>2. p \in 0 .. 2 * NCLIENTS - 1
      BY <1>4, <2>1
    <2> HIDE DEF p
    <2>3. Quotient(p, NCLIENTS) = IF p < NCLIENTS THEN 0 ELSE 1
      BY <1>4, <2>2 DEF Quotient
    <2> QED BY <1>4, <2>1, <2>3 DEF Response
  <1> QED BY Zenon, <1>1, <1>2, <1>3, <1>5 DEF Context, Client

\* ffwd_init finds the number of processors per line.
LEMMA CountLines ==
  ASSUME NEW n \in 1 .. 16, NEW lines, lines = XeonLines(n) \/ lines = OpteronLines(n)
  PROVE  /\ Len(lines) = 8
         /\ Cardinality(UNION {{l} \X DOMAIN lines[l] : l \in DOMAIN lines}) = 8 * n
  <1>1. \E f : lines = [l \in 1 .. 8 |-> Span(f[l], n)]
    <2>1. CASE lines = XeonLines(n)
      <3>1. WITNESS [l \in 1 .. 8 |-> 4 * n * ((l - 1) % 2) + n * ((l - 1) \div 2)]
      <3> QED BY Zenon, <2>1 DEF XeonLines
    <2>2. CASE lines = OpteronLines(n)
      <3>1. WITNESS [l \in 1 .. 8 |-> n * (l - 1)]
      <3> QED BY Zenon, <2>2 DEF OpteronLines
    <2> QED BY Zenon, <2>1, <2>2
  <1>2. DOMAIN lines = 1 .. 8 /\ Len(lines) = 8 /\ \A l \in 1 .. 8 : DOMAIN lines[l] = 1 .. n
    BY <1>1 DEF Span
  <1>3. UNION {{l} \X DOMAIN lines[l] : l \in DOMAIN lines} = (1 .. 8) \X (1 .. n)
    <2>1. {{l} \X DOMAIN lines[l] : l \in DOMAIN lines} = {{l} \X (1 .. n) : l \in 1 .. 8}
      BY Zenon, <1>2
    <2>2. UNION {{l} \X (1 .. n) : l \in 1 .. 8} = (1 .. 8) \X (1 .. n)
      BY SMT
    <2> QED BY Zenon, <2>1, <2>2
  <1>4. \A m \in 1 .. 16 : IsFiniteSet(1 .. m) /\ Cardinality(1 .. m) = m
    <2>1. ASSUME NEW m \in 1 .. 16
          PROVE  IsFiniteSet(1 .. m) /\ Cardinality(1 .. m) = IF 1 > m THEN 0 ELSE m - 1 + 1
      <3>1. 1 \in Int /\ m \in Int
        OBVIOUS
      <3> QED BY Zenon, <3>1, FS_Interval
    <2>2. \A m \in 1 .. 16 : (IF 1 > m THEN 0 ELSE m - 1 + 1) = m
      OBVIOUS
    <2> QED BY Zenon, <2>1, <2>2
  <1>5. 8 \in 1 .. 16
    OBVIOUS
  <1>6. Cardinality((1 .. 8) \X (1 .. n)) = 8 * n
    <2>1. Cardinality((1 .. 8) \X (1 .. n)) = Cardinality(1 .. 8) * Cardinality(1 .. n)
      BY Zenon, <1>4, <1>5, FS_Product
    <2> QED BY Zenon, <1>4, <1>5, <2>1
  <1> QED BY Zenon, <1>2, <1>3, <1>6

\* The invariant holds before ffwd_init.
LEMMA PlacementInitially ==
  ASSUME PlacementInit
  PROVE  PlacementInv
  BY PlacementAssumption DEF PlacementInit, PlacementInv

\* ffwd_init: the processors it counts are those of the eight lines.
LEMMA PlacementInited ==
  ASSUME PlacementInv, initialize_core_ordering
  PROVE  PlacementInv'
  <1>1. /\ phase = "start" /\ Supported /\ machine \in Machines
        /\ machine' = machine /\ stc' = stc /\ phase' = "inited" /\ cores' = machine.lines
        /\ global_id' = global_id /\ server_core' = server_core /\ contexts' = contexts
        /\ cores_per_socket' =
             Cardinality(UNION {{l} \X DOMAIN machine.lines[l] : l \in DOMAIN machine.lines})
               \div Len(machine.lines)
        /\ num_sockets' = Len(machine.lines) \div 2
    BY Zenon DEF initialize_core_ordering, PlacementInv
  <1>2. PICK n \in 1 .. 16 : /\ machine.nproc = 8 * n
                             /\ machine.lines = IF machine.platform = "Xeon" THEN XeonLines(n)
                                                                             ELSE OpteronLines(n)
    BY Zenon, <1>1, PlacementAssumption DEF Supported, Shaped
  <1>3. machine.lines = XeonLines(n) \/ machine.lines = OpteronLines(n)
    BY Zenon, <1>2
  <1>4. /\ Len(machine.lines) = 8
        /\ Cardinality(UNION {{l} \X DOMAIN machine.lines[l] : l \in DOMAIN machine.lines}) = 8 * n
    BY Zenon, <1>3, CountLines
  <1>5. (8 * n) \div 8 = n /\ 8 \div 2 = 4
    OBVIOUS
  <1>6. cores_per_socket' = n /\ num_sockets' = 4
    BY Zenon, <1>1, <1>4, <1>5
  <1>7. server_core = << >> /\ contexts = << >> /\ global_id = 0 /\ stc \in BOOLEAN
    BY Zenon, <1>1 DEF PlacementInv
  <1>8. Len(<< >>) = 0 /\ 1 .. 0 = {} /\ DOMAIN << >> = {} /\ << >> \in Seq([id : Int, chip : Int, id_in_chip : Int, line : Int])
    OBVIOUS
  <1>9. Supported'
    BY Zenon, <1>1 DEF Supported
  <1> QED BY Zenon, <1>1, <1>2, <1>6, <1>7, <1>8, <1>9 DEF PlacementInv

\* ffwd_init ends the process: nothing was placed.
LEMMA PlacementUnsupported ==
  ASSUME PlacementInv, Unsupported
  PROVE  PlacementInv'
  <1>1. /\ phase = "start" /\ phase' = "exited" /\ machine' = machine /\ stc' = stc /\ cores' = cores
        /\ global_id' = global_id /\ server_core' = server_core /\ contexts' = contexts
    BY Zenon DEF Unsupported
  <1>7. /\ server_core = << >> /\ contexts = << >> /\ global_id = 0 /\ stc \in BOOLEAN
        /\ machine \in Machines
    BY Zenon, <1>1 DEF PlacementInv
  <1>8. Len(<< >>) = 0 /\ 1 .. 0 = {} /\ DOMAIN << >> = {} /\ << >> \in Seq([id : Int, chip : Int, id_in_chip : Int, line : Int])
    OBVIOUS
  <1> QED BY Zenon, <1>1, <1>7, <1>8 DEF PlacementInv

\* launch_servers gives each server the first processor of a chip.
LEMMA PlacementLaunched ==
  ASSUME PlacementInv, launch_servers
  PROVE  PlacementInv'
  <1>1. /\ phase = "inited" /\ phase' = "running" /\ machine' = machine /\ stc' = stc /\ cores' = cores
        /\ cores_per_socket' = cores_per_socket /\ num_sockets' = num_sockets
        /\ global_id' = global_id /\ contexts' = contexts
    BY Zenon DEF launch_servers
  <1>2. PICK n \in 1 .. MAX_SOCK : server_core' = [i \in 0 .. n - 1 |-> ServerCore(i)]
    BY Zenon DEF launch_servers
  <1>3. \A j \in 0 .. n - 1 : j \in 0 .. 3
    BY PlacementAssumption
  <1>4. \A j : ServerCore(j)' = ServerCore(j)
    BY Zenon, <1>1 DEF ServerCore
  <1>5. \A j \in DOMAIN server_core' : j \in 0 .. 3 /\ server_core'[j] = ServerCore(j)'
    BY Zenon, <1>2, <1>3, <1>4
  <1>6. contexts = << >> /\ global_id = 0
    BY Zenon, <1>1 DEF PlacementInv
  <1>7. Supported' <=> Supported
    BY Zenon, <1>1 DEF Supported
  <1>8. Len(<< >>) = 0 /\ 1 .. 0 = {} /\ << >> \in Seq([id : Int, chip : Int, id_in_chip : Int, line : Int])
    OBVIOUS
  <1> QED BY Zenon, <1>1, <1>5, <1>6, <1>7, <1>8 DEF PlacementInv

\* The next number is the next place of the line, or the second of the next line.
LEMMA NextTaken ==
  ASSUME PlacementInv, phase = "running", Spare = 0, Len(contexts) < Capacity + Spare
  PROVE  Taken(Len(contexts) + 1, NextId) /\ NextId \in Nat
  <1> DEFINE n == cores_per_socket
  <1>0. n \in 1 .. 16 /\ Len(contexts) \in Nat
    BY Zenon, Running, LenProperties DEF PlacementInv
  <1>1. Len(contexts) < 8 * (n - 1)
    <2>1. Len(cores) = 8
      BY Running DEF XeonLines, OpteronLines
    <2> QED BY <1>0, <2>1 DEF Capacity
  <1>2. CASE Len(contexts) = 0 /\ global_id = 0
    <2>1. n >= 2 /\ \A k \in 1 .. 7 : 0 # n * k - 1
      <3>1. n >= 2
        BY <1>0, <1>1, <1>2
      <3>2. \A k \in 1 .. 7 : n * k >= n
        BY <1>0
      <3> QED BY <1>0, <3>1, <3>2
    <2>2. NextId = 1
      BY <1>2, <2>1 DEF NextId
    <2>3. 1 \in 1 .. n - 1 /\ 0 \in 0 .. 7 /\ 0 + 1 = (n - 1) * 0 + 1 /\ 1 = n * 0 + 1
      BY <1>0, <2>1
    <2> QED BY <1>2, <2>2, <2>3 DEF Taken
  <1>3. CASE Taken(Len(contexts), global_id)
    <2>1. PICK r \in 0 .. 7, k \in 1 .. n - 1 : Len(contexts) = (n - 1) * r + k /\ global_id = n * r + k
      BY Zenon, <1>3 DEF Taken
    <2>2. n * r \in Nat /\ (n - 1) * r \in Nat /\ (n - 1) * r = n * r - r
      BY <1>0
    <2>3. CASE k < n - 1
      <3>1. ASSUME NEW q \in 1 .. 7 PROVE n * r + k # n * q - 1
        <4>1. CASE r < q
          <5>1. n * r + n <= n * q /\ n * q \in Nat
            BY <1>0, <4>1, More
          <5> QED BY <1>0, <2>2, <2>3, <5>1
        <4>2. CASE q <= r
          <5>1. n * q <= n * r /\ n * q \in Nat
            BY <1>0, <4>2
          <5> QED BY <1>0, <2>2, <2>3, <5>1
        <4> QED BY <4>1, <4>2
      <3>2. NextId = global_id + 1
        BY Zenon, <2>1, <3>1 DEF NextId
      <3>3. /\ k + 1 \in 1 .. n - 1 /\ Len(contexts) + 1 = (n - 1) * r + (k + 1)
            /\ global_id + 1 = n * r + (k + 1) /\ global_id + 1 \in Nat
        BY <1>0, <2>1, <2>2, <2>3
      <3> QED BY Zenon, <3>2, <3>3 DEF Taken
    <2>4. CASE k = n - 1
      <3>1. r < 7
        BY <1>0, <1>1, <2>1, <2>2, <2>4
      <3>2. r + 1 \in 1 .. 7 /\ n * r + k = n * (r + 1) - 1 /\ r + 1 \in 0 .. 7
        BY <1>0, <2>4, <3>1
      <3>3. NextId = global_id + 2
        BY Zenon, <2>1, <3>2 DEF NextId
      <3>4. /\ 1 \in 1 .. n - 1 /\ Len(contexts) + 1 = (n - 1) * (r + 1) + 1
            /\ global_id + 2 = n * (r + 1) + 1 /\ global_id + 2 \in Nat
        BY <1>0, <2>1, <2>2, <2>4, <3>2
      <3> QED BY Zenon, <3>2, <3>3, <3>4 DEF Taken
    <2> QED BY <1>0, <2>3, <2>4
  <1> QED BY Zenon, <1>2, <1>3 DEF PlacementInv

\* A context in terms of its row and its place in it.
LEMMA TakenClient ==
  ASSUME PlacementInv, phase = "running", NEW i, NEW g, Taken(i, g)
  PROVE  /\ \E r \in 0 .. 7, k \in 1 .. cores_per_socket - 1 :
              i = (cores_per_socket - 1) * r + k /\ Context(g) = Client(Line(r), k)
         /\ Context(g) \in [id : Int, chip : Int, id_in_chip : Int, line : Int]
  <1>1. PICK r \in 0 .. 7, k \in 1 .. cores_per_socket - 1 :
          i = (cores_per_socket - 1) * r + k /\ g = cores_per_socket * r + k
    BY Zenon DEF Taken
  <1>2. Context(g) = Client(Line(r), k)
    BY Zenon, <1>1, ContextIs
  <1>3. Line(r) \in 0 .. 7
    BY Zenon, RowIs
  <1>4. Processor(Line(r), k) \in Int
    <2>1. Processor(Line(r), k) \in Nat
      BY Zenon, <1>3, CellIs
    <2> QED BY <2>1
  <1>5. Client(Line(r), k) \in [id : Int, chip : Int, id_in_chip : Int, line : Int]
    <2>1. NCLIENTS \in {7, 15} /\ cores_per_socket \in 1 .. 16
      BY Zenon, Running
    <2> HIDE DEF Line
    <2>2. Line(r) \div 2 \in Int /\ Line(r) % 2 \in 0 .. 1
      BY <1>3
    <2>3. \A a \in Int, b \in 0 .. 1, n \in {7, 15} :
            2 * k + b - 2 \in Int /\ 4 * a + (IF 2 * k + b - 2 < n THEN 0 ELSE 1) \in Int
      BY <2>1
    <2> QED BY ZenonT(60), <1>4, <2>1, <2>2, <2>3 DEF Client
  <1> QED BY Zenon, <1>1, <1>2, <1>5

\* What number g gets depends on the machine only.
LEMMA ContextSame ==
  ASSUME machine' = machine, stc' = stc, cores' = cores, cores_per_socket' = cores_per_socket,
         num_sockets' = num_sockets, NEW g
  PROVE  Context(g)' = Context(g)
  <1>1. Row(g)' = Row(g)
    BY Zenon DEF Row
  <1>2. \A id : Slot(id)' = Slot(id)
    BY Zenon DEF Slot
  <1>3. \A x, y : Response(x, y)' = Response(x, y)
    BY Zenon DEF Response, NCLIENTS
  <1> QED BY Zenon, <1>1, <1>2, <1>3 DEF Context

\* ffwd_thread_create and ffwd_bind_main_thread: the numbers are taken in order,
\* and a client's context is the one of its number.
LEMMA PlacementPlaced ==
  ASSUME PlacementInv, Spare = 0, Place
  PROVE  PlacementInv'
  <1> DEFINE Record == [id : Int, chip : Int, id_in_chip : Int, line : Int]
  <1>1. /\ phase = "running" /\ phase' = phase /\ machine' = machine /\ stc' = stc /\ cores' = cores
        /\ cores_per_socket' = cores_per_socket /\ num_sockets' = num_sockets
        /\ server_core' = server_core
        /\ global_id' = NextId /\ contexts' = Append(contexts, Context(NextId))
        /\ Len(contexts) < Capacity + Spare
    BY Zenon DEF Place
  <1>2. Taken(Len(contexts) + 1, NextId) /\ NextId \in Nat
    BY Zenon, <1>1, NextTaken
  <1>3. Context(NextId) \in Record
    BY Zenon, <1>1, <1>2, TakenClient
  <1>4. contexts \in Seq(Record)
    BY Zenon DEF PlacementInv
  <1>5. /\ contexts' \in Seq(Record) /\ Len(contexts') = Len(contexts) + 1 /\ Len(contexts) \in Nat
        /\ contexts'[Len(contexts) + 1] = Context(NextId)
        /\ \A i \in 1 .. Len(contexts) : contexts'[i] = contexts[i]
    <2> HIDE DEF Record
    <2> DEFINE e == Context(NextId)
    <2>1. e \in Record /\ contexts' = Append(contexts, e)
      BY Zenon, <1>1, <1>3
    <2> HIDE DEF e
    <2>2. /\ contexts' \in Seq(Record) /\ Len(contexts') = Len(contexts) + 1 /\ Len(contexts) \in Nat
          /\ contexts'[Len(contexts) + 1] = e
          /\ \A i \in 1 .. Len(contexts) : contexts'[i] = contexts[i]
      BY <1>4, <2>1
    <2> QED BY Zenon, <2>2 DEF e
  <1>6. \A g : Context(g)' = Context(g)
    BY Zenon, <1>1, ContextSame
  <1>7. \A i, g : Taken(i, g)' <=> Taken(i, g)
    BY Zenon, <1>1 DEF Taken
  <1>8. \A i \in 1 .. Len(contexts') : \E g \in Nat : Taken(i, g)' /\ contexts'[i] = Context(g)'
    <2>1. ASSUME NEW i \in 1 .. Len(contexts')
          PROVE  i \in 1 .. Len(contexts) \/ i = Len(contexts) + 1
      BY <1>5
    <2>2. ASSUME NEW i \in 1 .. Len(contexts) PROVE \E g \in Nat : Taken(i, g) /\ contexts[i] = Context(g)
      BY Zenon DEF PlacementInv
    <2> QED BY Zenon, <1>2, <1>5, <1>6, <1>7, <2>1, <2>2
  <1>9. Supported' /\ \A j : ServerCore(j)' = ServerCore(j)
    BY Zenon, <1>1 DEF Supported, ServerCore, PlacementInv
  <1>10. Taken(Len(contexts), global_id)'
    BY Zenon, <1>1, <1>2, <1>5, <1>7
  <1> QED BY Zenon, <1>1, <1>5, <1>8, <1>9, <1>10 DEF PlacementInv

\* Every step of the placement keeps the invariant.
LEMMA PlacementKept ==
  ASSUME Spare = 0, PlacementInv, [PlacementNext]_placement_vars
  PROVE  PlacementInv'
  <1>1. CASE UNCHANGED placement_vars
    <2>1. /\ phase' = phase /\ machine' = machine /\ stc' = stc /\ cores' = cores
          /\ cores_per_socket' = cores_per_socket /\ num_sockets' = num_sockets
          /\ server_core' = server_core /\ global_id' = global_id /\ contexts' = contexts
      BY Zenon, <1>1 DEF placement_vars
    <2>2. \A i, g : Taken(i, g)' <=> Taken(i, g)
      BY Zenon, <2>1 DEF Taken
    <2>3. \A g : Context(g)' = Context(g)
      BY Zenon, <2>1, ContextSame
    <2>4. (Supported' <=> Supported) /\ \A j : ServerCore(j)' = ServerCore(j)
      BY Zenon, <2>1 DEF Supported, ServerCore
    <2> QED BY ZenonT(60), <2>1, <2>2, <2>3, <2>4 DEF PlacementInv
  <1> QED BY Zenon, <1>1, PlacementInited, PlacementUnsupported, PlacementLaunched, PlacementPlaced
       DEF PlacementNext, ffwd_thread_create, ffwd_bind_main_thread

\* The clients before and after in the order of creation.
LEMMA RowOrder ==
  ASSUME NEW m \in Nat, NEW r \in 0 .. 7, NEW q \in 0 .. 7, NEW k \in 1 .. m, NEW h \in 1 .. m,
         m * r + k < m * q + h
  PROVE  r <= q
  <1> SUFFICES ASSUME q < r PROVE FALSE
    OBVIOUS
  <1>1. m * q + m <= m * r /\ m * q \in Nat /\ m * r \in Nat
    BY More
  <1> QED BY <1>1

\* The lines are taken one after the other, each once.
LEMMA LineOnce ==
  ASSUME stc \in BOOLEAN, NEW r \in 0 .. 7, NEW q \in 0 .. 7
  PROVE  /\ Line(r) \in 0 .. 7
         /\ Line(r) = Line(q) => r = q
         /\ r <= q => IF stc THEN Line(r) \div 2 <= Line(q) \div 2 ELSE Line(r) % 2 <= Line(q) % 2
  <1>1. CASE stc
    BY <1>1 DEF Line
  <1>2. CASE ~stc
    BY <1>2 DEF Line
  <1> QED BY <1>1, <1>2

\* The clients that have been placed.
LEMMA PlacedClient ==
  ASSUME PlacementInv, NEW i \in DOMAIN contexts
  PROVE  /\ phase = "running" /\ i \in Nat
         /\ \E r \in 0 .. 7, k \in 1 .. cores_per_socket - 1 :
              i = (cores_per_socket - 1) * r + k /\ contexts[i] = Client(Line(r), k)
  <1>1. DOMAIN contexts = 1 .. Len(contexts)
    BY DEF PlacementInv
  <1>2. phase = "running"
    BY <1>1 DEF PlacementInv
  <1>3. i \in Nat
    BY <1>1
  <1>4. PICK g \in Nat : Taken(i, g) /\ contexts[i] = Context(g)
    BY Zenon, <1>1 DEF PlacementInv
  <1> QED BY ZenonT(60), <1>2, <1>3, <1>4, TakenClient

\* On every machine libffwd is written for, two clients never share a processor
\* or a slot: the numbers of ffwd_thread_create are spread one to one over the
\* lines, and chip and id_in_chip tell the processors of the lines apart.
THEOREM PlacedApart ==
  ASSUME Spare = 0
  PROVE  PlacementSpec => []SlotsDistinct
  <1>1. PlacementInv => SlotsDistinct
    <2> SUFFICES ASSUME PlacementInv, NEW i \in DOMAIN contexts, NEW j \in DOMAIN contexts, i # j
                 PROVE  /\ contexts[i].id # contexts[j].id
                        /\ <<contexts[i].chip, contexts[i].id_in_chip>>
                             # <<contexts[j].chip, contexts[j].id_in_chip>>
      BY Zenon DEF SlotsDistinct
    <2>0. phase = "running"
      BY Zenon, PlacedClient
    <2>1. PICK r \in 0 .. 7, k \in 1 .. cores_per_socket - 1 :
            i = (cores_per_socket - 1) * r + k /\ contexts[i] = Client(Line(r), k)
      BY Zenon, PlacedClient
    <2>2. PICK q \in 0 .. 7, h \in 1 .. cores_per_socket - 1 :
            j = (cores_per_socket - 1) * q + h /\ contexts[j] = Client(Line(q), h)
      BY Zenon, PlacedClient
    <2>3. stc \in BOOLEAN /\ cores_per_socket \in 1 .. 16
      BY Zenon, <2>0, Running
    <2>4. ~(r = q /\ k = h)
      BY Zenon, <2>1, <2>2
    <2>5. Line(r) \in 0 .. 7 /\ Line(q) \in 0 .. 7 /\ (Line(r) = Line(q) => r = q)
      BY Zenon, <2>3, LineOnce
    <2>6. /\ contexts[i].id = Processor(Line(r), k) /\ contexts[i].chip = Line(r) \div 2
          /\ contexts[i].id_in_chip = 2 * k + (Line(r) % 2) - 2
          /\ contexts[j].id = Processor(Line(q), h) /\ contexts[j].chip = Line(q) \div 2
          /\ contexts[j].id_in_chip = 2 * h + (Line(q) % 2) - 2
      BY Zenon, <2>1, <2>2, Fields
    <2>7. \A a, b \in 0 .. 7 : a \div 2 = b \div 2 /\ 2 * k + (a % 2) - 2 = 2 * h + (b % 2) - 2 => a = b /\ k = h
      BY <2>3
    <2>8. ~(contexts[i].chip = contexts[j].chip /\ contexts[i].id_in_chip = contexts[j].id_in_chip)
      BY Zenon, <2>4, <2>5, <2>6, <2>7
    <2>9. contexts[i].id # contexts[j].id
      <3>1. /\ Slot(Processor(Line(r), k)).chip = Line(r) \div 2
            /\ Slot(Processor(Line(r), k)).id_in_chip = 2 * k + (Line(r) % 2) - 2
        BY Zenon, <2>0, <2>5, SlotIs
      <3>2. /\ Slot(Processor(Line(q), h)).chip = Line(q) \div 2
            /\ Slot(Processor(Line(q), h)).id_in_chip = 2 * h + (Line(q) % 2) - 2
        BY ZenonT(60), <2>0, <2>5, SlotIs
      <3> QED BY Zenon, <2>6, <2>8, <3>1, <3>2
    <2> QED BY <2>8, <2>9
  <1> QED BY <1>1, PlacementInitially, PlacementKept, PTL DEF PlacementSpec

\* Every client writes to a slot server_func polls and reads the response line
\* server_func answers that slot in, with either size of half a chip (NCLIENTS).
THEOREM PlacedWherePolled ==
  ASSUME Spare = 0
  PROVE  PlacementSpec => []SlotsPolled
  <1>1. PlacementInv => SlotsPolled
    <2> SUFFICES ASSUME PlacementInv, NEW i \in DOMAIN contexts
                 PROVE  \E chip \in 0 .. MAX_SOCK - 1, half \in 0 .. 1, k \in 0 .. NCLIENTS - 1 :
                          /\ contexts[i].chip = chip
                          /\ contexts[i].id_in_chip = half * NCLIENTS + k
                          /\ contexts[i].line = chip * 4 + half
      BY Zenon DEF SlotsPolled
    <2>0. phase = "running"
      BY Zenon, PlacedClient
    <2>1. PICK r \in 0 .. 7, k \in 1 .. cores_per_socket - 1 : contexts[i] = Client(Line(r), k)
      BY Zenon, PlacedClient
    <2>2. /\ stc \in BOOLEAN /\ cores_per_socket \in 1 .. 16 /\ MAX_SOCK = 4
          /\ NCLIENTS \in {7, 15} /\ cores_per_socket <= NCLIENTS + 1
      BY Zenon, <2>0, Running
    <2>3. PICK l \in 0 .. 7 : l = Line(r)
      BY Zenon, <2>2, LineOnce
    <2>4. PICK c \in 0 .. 3, t \in 0 .. 1 : c = l \div 2 /\ t = l % 2
      OBVIOUS
    <2>5. PICK p \in Int : p = 2 * k + t - 2
      BY <2>2
    <2>6. /\ contexts[i].chip = c /\ contexts[i].id_in_chip = p
          /\ contexts[i].line = 4 * c + (IF p < NCLIENTS THEN 0 ELSE 1)
      BY Zenon, <2>1, <2>3, <2>4, <2>5, Fields
    <2>7. p \in 0 .. 2 * NCLIENTS - 1
      BY <2>2, <2>5
    <2>8. CASE p < NCLIENTS
      <3>1. /\ c \in 0 .. MAX_SOCK - 1 /\ 0 \in 0 .. 1 /\ p \in 0 .. NCLIENTS - 1
            /\ p = 0 * NCLIENTS + p /\ 4 * c + 0 = c * 4 + 0
        BY <2>2, <2>7, <2>8
      <3> QED BY Zenon, <2>6, <2>8, <3>1
    <2>9. CASE ~(p < NCLIENTS)
      <3>1. /\ c \in 0 .. MAX_SOCK - 1 /\ 1 \in 0 .. 1 /\ p - NCLIENTS \in 0 .. NCLIENTS - 1
            /\ p = 1 * NCLIENTS + (p - NCLIENTS) /\ 4 * c + 1 = c * 4 + 1
        BY <2>2, <2>7, <2>9
      <3> QED BY Zenon, <2>6, <2>9, <3>1
    <2> QED BY Zenon, <2>8, <2>9
  <1> QED BY <1>1, PlacementInitially, PlacementKept, PTL DEF PlacementSpec

\* The numbers that global_id skips are the processors of the servers: as long as
\* there are no more clients than other processors (Spare = 0), no client and no
\* hyperthread of a client's core meets a server.
THEOREM ServersAlone ==
  ASSUME Spare = 0
  PROVE  PlacementSpec => []ServerCoresSkipped
  <1>1. PlacementInv => ServerCoresSkipped
    <2> SUFFICES ASSUME PlacementInv, NEW i \in DOMAIN contexts, NEW j \in DOMAIN server_core
                 PROVE  (IF machine.platform = "Xeon" THEN contexts[i].id % (cores_per_socket * MAX_SOCK)
                                                      ELSE contexts[i].id) # server_core[j]
      BY Zenon DEF ServerCoresSkipped
    <2> DEFINE n == cores_per_socket
    <2>0. phase = "running"
      BY Zenon, PlacedClient
    <2>1. PICK r \in 0 .. 7, k \in 1 .. n - 1 : contexts[i] = Client(Line(r), k)
      BY Zenon, PlacedClient
    <2>2. stc \in BOOLEAN /\ n \in 1 .. 16 /\ MAX_SOCK = 4 /\ machine.platform \in {"Xeon", "Opteron"}
      BY Zenon, <2>0, Running
    <2>3. PICK l \in 0 .. 7 : l = Line(r)
      BY Zenon, <2>2, LineOnce
    <2>4. contexts[i].id = Processor(l, k)
      BY Zenon, <2>1, <2>3, Fields
    <2>5. j \in 0 .. 3 /\ server_core[j] = ServerCore(j)
      BY Zenon DEF PlacementInv
    <2>6. \A a, b \in Nat : n * a + k # n * b
      <3> SUFFICES ASSUME NEW a \in Nat, NEW b \in Nat, n * a + k = n * b PROVE FALSE
        OBVIOUS
      <3>1. n \in Nat \ {0} /\ k \in 0 .. n - 1 /\ 0 \in 0 .. n - 1 /\ n * b = n * b + 0 /\ k # 0
        BY <2>2
      <3>2. (n * b) % n = k
        BY ZenonT(60), <3>1, Divide
      <3>3. (n * b) % n = 0
        BY ZenonT(60), <3>1, Divide
      <3> QED BY Zenon, <3>1, <3>2, <3>3
    <2>7. CASE machine.platform = "Xeon"
      <3>1. contexts[i].id % (n * MAX_SOCK) = n * (l \div 2) + k
        BY Zenon, <2>0, <2>2, <2>4, <2>7, HyperThread
      <3>2. server_core[j] = n * j /\ j \in Nat /\ l \div 2 \in Nat
        <4>1. j \in Nat /\ l \div 2 \in Nat
          BY <2>5
        <4> QED BY Zenon, <2>5, <2>7, <4>1 DEF ServerCore
      <3> QED BY Zenon, <2>6, <2>7, <3>1, <3>2
    <2>8. CASE machine.platform = "Opteron"
      <3>1. contexts[i].id = n * l + k
        BY Zenon, <2>4, <2>8 DEF Processor
      <3>4. l \in Nat
        OBVIOUS
      <3>2. server_core[j] = n * 2 * j
        BY Zenon, <2>5, <2>8 DEF ServerCore
      <3>3. n * 2 * j = n * (2 * j) /\ 2 * j \in Nat
        BY <2>2, <2>5
      <3> QED BY Zenon, <2>6, <2>8, <3>1, <3>2, <3>3, <3>4
    <2> QED BY Zenon, <2>2, <2>7, <2>8
  <1> QED BY <1>1, PlacementInitially, PlacementKept, PTL DEF PlacementSpec

\* The order in which the Xeon's chips (with STC) or hyperthreads (without) fill up.
THEOREM FilledInOrder ==
  ASSUME Spare = 0
  PROVE  PlacementSpec => []FillOrder
  <1>1. PlacementInv => FillOrder
    <2> SUFFICES ASSUME PlacementInv, machine.platform = "Xeon",
                        NEW i \in DOMAIN contexts, NEW j \in DOMAIN contexts, i < j
                 PROVE  IF stc THEN contexts[i].chip <= contexts[j].chip
                        ELSE contexts[i].id \div (cores_per_socket * MAX_SOCK)
                               <= contexts[j].id \div (cores_per_socket * MAX_SOCK)
      BY Zenon DEF FillOrder
    <2>0. phase = "running"
      BY Zenon, PlacedClient
    <2>1. PICK r \in 0 .. 7, k \in 1 .. cores_per_socket - 1 :
            i = (cores_per_socket - 1) * r + k /\ contexts[i] = Client(Line(r), k)
      BY Zenon, PlacedClient
    <2>2. PICK q \in 0 .. 7, h \in 1 .. cores_per_socket - 1 :
            j = (cores_per_socket - 1) * q + h /\ contexts[j] = Client(Line(q), h)
      BY Zenon, PlacedClient
    <2>3. stc \in BOOLEAN /\ cores_per_socket \in 1 .. 16 /\ MAX_SOCK = 4
      BY Zenon, <2>0, Running
    <2>4. r <= q
      <3>1. cores_per_socket - 1 \in Nat
        BY <2>3
      <3> QED BY Zenon, <2>1, <2>2, <3>1, RowOrder
    <2>5. /\ Line(r) \in 0 .. 7 /\ Line(q) \in 0 .. 7
          /\ IF stc THEN Line(r) \div 2 <= Line(q) \div 2 ELSE Line(r) % 2 <= Line(q) % 2
      BY Zenon, <2>3, <2>4, LineOnce
    <2>6. /\ contexts[i].id = Processor(Line(r), k) /\ contexts[i].chip = Line(r) \div 2
          /\ contexts[j].id = Processor(Line(q), h) /\ contexts[j].chip = Line(q) \div 2
      BY Zenon, <2>1, <2>2, Fields
    <2>7. /\ contexts[i].id \div (cores_per_socket * MAX_SOCK) = Line(r) % 2
          /\ contexts[j].id \div (cores_per_socket * MAX_SOCK) = Line(q) % 2
      BY Zenon, <2>0, <2>3, <2>5, <2>6, HyperThread
    <2> QED BY Zenon, <2>5, <2>6, <2>7
  <1> QED BY <1>1, PlacementInitially, PlacementKept, PTL DEF PlacementSpec
==============================================================================
