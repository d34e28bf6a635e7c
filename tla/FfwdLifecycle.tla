---------------------------- MODULE FfwdLifecycle ----------------------------
(***************************************************************************)
(* The life of the memory that servers and clients share: launch_servers   *)
(* allocates it server by server and starts the threads, ffwd_thread_create *)
(* hands clients pointers into it, and ffwd_shutdown frees it.  The main   *)
(* thread is the one of ffwd_sample.c; the channel itself is in Ffwd.      *)
(***************************************************************************)
EXTENDS Integers, FiniteSets

CONSTANTS
  MAX_NUM_OF_SERVERS,  \* the length of the arrays of pointers
  Clients

ASSUME LifecycleAssumption == MAX_NUM_OF_SERVERS \in Nat \ {0}

VARIABLES
  main,                    \* where the main thread is
  num_of_servers,          \* launch_servers's argument
  s,                       \* the loop variable of launch_servers or ffwd_shutdown
  heap,                    \* the buffers that are allocated: <<kind, server>>
  server, client,          \* "none", "running" or "done"
  finished, stop,
  num_of_server_launched,
  known                    \* how many servers a client's context has pointers to

vars == <<main, num_of_servers, s, heap, server, client, finished, stop,
          num_of_server_launched, known>>

Index == 0 .. MAX_NUM_OF_SERVERS - 1

\* What a server and its clients share.  "chips" stands for the four request
\* pages, "lines" for the response lines that a server_set points to.
Shared(i) == {<<"chips", i>>, <<"server_set", i>>, <<"lines", i>>}

\* What a server uses besides.
Args(i) == <<"server_args", i>>

Init ==
  /\ main = "launch"
  /\ num_of_servers \in 1 .. MAX_NUM_OF_SERVERS
  /\ s = 0
  /\ heap = {}
  /\ server = [i \in Index |-> "none"]
  /\ client = [c \in Clients |-> "none"]
  /\ finished = FALSE
  /\ stop = FALSE
  /\ num_of_server_launched = 0
  /\ known = [c \in Clients |-> 0]
-----------------------------------------------------------------------------
\* One iteration of launch_servers.
LaunchServer ==
  /\ main = "launch"
  /\ s < num_of_servers
  /\ heap' = heap \cup Shared(s) \cup {Args(s)}
  /\ server' = [server EXCEPT ![s] = "running"]
  /\ s' = s + 1
  /\ UNCHANGED <<main, num_of_servers, client, finished, stop, num_of_server_launched, known>>

\* mprotect fails: exit(1) ends every thread of the process.
MprotectFails ==
  /\ main = "launch"
  /\ s < num_of_servers
  /\ main' = "failed"
  /\ heap' = {}
  /\ server' = [i \in Index |-> "none"]
  /\ UNCHANGED <<num_of_servers, s, client, finished, stop, num_of_server_launched, known>>

Launched ==
  /\ main = "launch"
  /\ s = num_of_servers
  /\ num_of_server_launched' = num_of_servers
  /\ main' = "create"
  /\ UNCHANGED <<num_of_servers, s, heap, server, client, finished, stop, known>>

\* ffwd_thread_create: a client starts with pointers to the launched servers.
ClientStart(c) ==
  /\ main = "create"
  /\ client[c] = "none"
  /\ client' = [client EXCEPT ![c] = "running"]
  /\ known' = [known EXCEPT ![c] = num_of_server_launched]
  /\ UNCHANGED <<main, num_of_servers, s, heap, server, finished, stop, num_of_server_launched>>

\* The main thread wakes up, having created all its clients.
SetStop ==
  /\ main = "create"
  /\ \A c \in Clients : client[c] # "none"
  /\ stop' = TRUE
  /\ main' = "join_clients"
  /\ UNCHANGED <<num_of_servers, s, heap, server, client, finished, num_of_server_launched, known>>

\* Mutant: the main thread does not wait for its clients.
JoinNoClients ==
  /\ main = "join_clients"
  /\ main' = "shutdown"
  /\ UNCHANGED <<num_of_servers, s, heap, server, client, finished, stop,
                 num_of_server_launched, known>>

JoinClients ==
  /\ main = "join_clients"
  /\ \A c \in Clients : client[c] = "done"
  /\ main' = "shutdown"
  /\ UNCHANGED <<num_of_servers, s, heap, server, client, finished, stop,
                 num_of_server_launched, known>>

ClientExit(c) ==
  /\ client[c] = "running"
  /\ stop
  /\ client' = [client EXCEPT ![c] = "done"]
  /\ UNCHANGED <<main, num_of_servers, s, heap, server, finished, stop,
                 num_of_server_launched, known>>

ServerExit(i) ==
  /\ server[i] = "running"
  /\ finished
  /\ server' = [server EXCEPT ![i] = "done"]
  /\ UNCHANGED <<main, num_of_servers, s, heap, client, finished, stop,
                 num_of_server_launched, known>>
-----------------------------------------------------------------------------
\* ffwd_shutdown: the flags, the joins, the frees.
SetFinished ==
  /\ main = "shutdown"
  /\ finished' = TRUE
  /\ main' = "join_servers"
  /\ UNCHANGED <<num_of_servers, s, heap, server, client, stop, num_of_server_launched, known>>

\* Mutant: the last server is not waited for.
JoinServersButLast ==
  /\ main = "join_servers"
  /\ \A i \in 0 .. num_of_server_launched - 2 : server[i] = "done"
  /\ main' = "free"
  /\ s' = 0
  /\ UNCHANGED <<num_of_servers, heap, server, client, finished, stop,
                 num_of_server_launched, known>>

JoinServers ==
  /\ main = "join_servers"
  /\ \A i \in 0 .. num_of_server_launched - 1 : server[i] = "done"
  /\ main' = "free"
  /\ s' = 0
  /\ UNCHANGED <<num_of_servers, heap, server, client, finished, stop,
                 num_of_server_launched, known>>

\* What numa_free gets from X[num_of_server_launched], over the arrays X: null
\* pointers, or, past the end of the arrays, whatever the build has put there,
\* other entries of the arrays included.
Freed ==
  IF num_of_server_launched < MAX_NUM_OF_SERVERS
    THEN {{}}
    ELSE {f \in SUBSET heap : \A i \in Index : <<"lines", i>> \notin f}

\* One iteration of the loop that frees.
Free ==
  /\ main = "free"
  /\ s < num_of_server_launched
  /\ \E f \in Freed : heap' = heap \ f
  /\ s' = s + 1
  /\ UNCHANGED <<main, num_of_servers, server, client, finished, stop,
                 num_of_server_launched, known>>

\* ffwd_shutdown returns.
Return ==
  /\ main = "free"
  /\ s = num_of_server_launched
  /\ main' = "returned"
  /\ UNCHANGED <<num_of_servers, s, heap, server, client, finished, stop,
                 num_of_server_launched, known>>

\* The process ends.
Terminated == main \in {"returned", "failed"} /\ UNCHANGED vars

Next ==
  \/ LaunchServer \/ MprotectFails \/ Launched
  \/ \E c \in Clients : ClientStart(c) \/ ClientExit(c)
  \/ SetStop \/ JoinClients
  \/ \E i \in Index : ServerExit(i)
  \/ SetFinished \/ JoinServers \/ Free \/ Return \/ Terminated

Spec == Init /\ [][Next]_vars
-----------------------------------------------------------------------------
\* The types of the variables.
TypeOK ==
  /\ main \in {"launch", "failed", "create", "join_clients", "shutdown", "join_servers",
               "free", "returned"}
  /\ num_of_servers \in 1 .. MAX_NUM_OF_SERVERS
  /\ s \in 0 .. MAX_NUM_OF_SERVERS
  /\ server \in [Index -> {"none", "running", "done"}]
  /\ client \in [Clients -> {"none", "running", "done"}]
  /\ num_of_server_launched \in 0 .. MAX_NUM_OF_SERVERS
  /\ known \in [Clients -> 0 .. MAX_NUM_OF_SERVERS]

\* What is true at each place of the main thread: which servers run, whether
\* clients may run, and that the memory of a started server is there until
\* every thread that uses it has been joined.
PhaseInv ==
  /\ TypeOK
  /\ main = "launch" =>
       s <= num_of_servers /\ \A i \in Index : server[i] = IF i < s THEN "running" ELSE "none"
  /\ main \in {"launch", "failed"} => \A c \in Clients : client[c] = "none"
  /\ main \notin {"launch", "failed"} => num_of_server_launched = num_of_servers
  /\ main \in {"create", "join_clients", "shutdown"} =>
       \A i \in Index : server[i] = IF i < num_of_servers THEN "running" ELSE "none"
  /\ main \in {"launch", "failed", "create", "join_clients", "shutdown"} => ~finished
  /\ main = "join_servers" =>
       \A i \in Index : server[i] = "running" => i < num_of_servers
  /\ main \in {"shutdown", "join_servers", "free", "returned"} =>
       \A c \in Clients : client[c] = "done"
  /\ main \in {"failed", "free", "returned"} => \A i \in Index : server[i] # "running"
  /\ main \notin {"failed", "free", "returned"} =>
       \A i \in Index : server[i] # "none" => Shared(i) \cup {Args(i)} \subseteq heap
  /\ \A c \in Clients : client[c] # "none" => known[c] = num_of_servers

\* Whoever runs has its memory: a server the pages, lines and arguments
\* launch_servers gave it, a client those of every server its context points to,
\* although ffwd_shutdown frees pointers of which the code does not know whose
\* they are.
NoUseAfterFree ==
  /\ \A i \in Index : server[i] = "running" => Shared(i) \cup {Args(i)} \subseteq heap
  /\ \A c \in Clients, i \in Index :
       client[c] = "running" /\ i < known[c] => Shared(i) \subseteq heap

\* A client that runs is served: every server its context points to, and it
\* points to all that main asked for, is running (ffwd_thread_create copies
\* num_of_server_launched, launch_servers sets it last, main joins the clients
\* before ffwd_shutdown).
ClientsServed ==
  \A c \in Clients : client[c] = "running" =>
    /\ known[c] = num_of_servers
    /\ \A i \in 0 .. known[c] - 1 : server[i] = "running"

\* When ffwd_shutdown returns the memory of the servers is freed: "关闭 ffwd
\* 系统，停止服务器线程并释放内存" (it shuts ffwd down, stops the servers'
\* threads and frees the memory), libffwd.c:317.
MemoryFreed == main = "returned" => heap = {}
==============================================================================
