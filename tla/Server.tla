------------------------------- MODULE Server -------------------------------
(***************************************************************************)
(* The server process: main, Server::start / run / stop, the WorkerPool    *)
(* and its receive loop, the signal handler, and the request queue they    *)
(* share with the client processes.  process_request is one step here; its *)
(* inside is module RequestProcessor.                                      *)
(*                                                                         *)
(* The server may crash at any moment and be started again.  Its memory is *)
(* lost; the queue, its messages and its name stay in the kernel.          *)
(*                                                                         *)
(* The request queue has two priorities: the QUIT sentinels of stop() (10) *)
(* overtake every client request (0), and requests are first in first out. *)
(* Sentinels are all alike, so the queue is a sequence of clients and a    *)
(* number of sentinels.                                                    *)
(***************************************************************************)
EXTENDS Integers, Sequences, FiniteSets

CONSTANTS
  Clients,            \* client processes, one request at a time each
  kInvalidClientId,   \* client_id of a sentinel
  NoJob,              \* a worker that holds no message
  WorkersArg,         \* what atoi makes of the argument of --workers
  kDefaultWorkerCount,
  MaxMessages         \* queue_config.max_messages

ASSUME ServerAssumption ==
  /\ WorkersArg \in Int
  /\ kDefaultWorkerCount \in Nat \ {0}
  /\ MaxMessages \in Nat \ {0}
  /\ kInvalidClientId \notin Clients
  /\ NoJob \notin Clients \cup {kInvalidClientId}

kMinWorkerCount == 1

\* Slip: main takes a count of zero.
WorkerCountOrZero == IF WorkersArg >= 0 THEN WorkersArg ELSE kDefaultWorkerCount

\* config_.worker_count: main ignores an argument that is not positive.
WorkerCount == IF WorkersArg > 0 THEN WorkersArg ELSE kDefaultWorkerCount

\* WorkerPool raises the count; the loop of stop() does not.
PoolSize == IF WorkerCount < kMinWorkerCount THEN kMinWorkerCount ELSE WorkerCount
Workers == 1..PoolSize

VARIABLES
  main,               \* where main is, see MainPCs
  running,            \* Server::running_
  shutdown,           \* g_shutdown_requested
  signalled,          \* history: SIGINT or SIGTERM has been handled
  name,               \* what the queue name refers to
  requests,           \* client requests in the queue this server or, before
                      \* it has one, its predecessor works on
  sentinels,          \* sentinels in that queue
  sent,               \* loop counter of stop(): sentinels sent
  spawned,            \* threads the pool has started
  wpc,                \* where each worker thread is
  job,                \* the message it received
  client              \* what each client process is doing

mainvars   == <<main, running, name, sent, spawned>>
signalvars == <<shutdown, signalled>>
queuevars  == <<requests, sentinels>>
workervars == <<wpc, job>>
vars == <<main, running, shutdown, signalled, name, requests, sentinels, sent,
          spawned, wpc, job, client>>

\* boot: signal handlers installed, start() not yet called.
MainPCs == {"boot", "open", "spawn", "run", "send", "join", "close", "exit", "failed", "crashed"}
Ended == {"exit", "failed", "crashed"}
WorkerPCs == {"none", "loop", "receive", "received", "process", "reply", "exited"}
\* own: the queue in requests and sentinels.  rival: the queue of another
\* server that was started under the same name.
Bindings == {"none", "own", "rival"}
\* stranded: connected to a queue that is not, or no longer, this server's.
ClientStates == {"away", "connected", "waiting", "stranded", "gone"}

QueueFull  == Len(requests) + sentinels >= MaxMessages

Init ==
  /\ main = "boot"
  /\ running = FALSE
  /\ shutdown = FALSE
  /\ signalled = FALSE
  /\ name = "none"
  /\ requests = <<>>
  /\ sentinels = 0
  /\ sent = 0
  /\ spawned = 0
  /\ wpc = [w \in Workers |-> "none"]
  /\ job = [w \in Workers |-> NoJob]
  /\ client = [c \in Clients |-> "away"]

-----------------------------------------------------------------------------
(* The main thread.                                                        *)

MainGoto(at, next) == main = at /\ main' = next

\* signal_handler: request_shutdown(), at any moment of the process's life.
Signal ==
  /\ main \notin Ended
  /\ shutdown' = TRUE
  /\ signalled' = TRUE
  /\ UNCHANGED <<mainvars, queuevars, workervars, client>>

\* Slip: start() does not unlink.
StartResetOnly ==
  /\ MainGoto("boot", "open")
  /\ shutdown' = FALSE
  /\ UNCHANGED <<running, name, signalled, queuevars, sent, spawned, workervars, client>>

\* start(): reset_shutdown_request() and the unlink of a stale queue.
StartReset ==
  /\ MainGoto("boot", "open")
  /\ shutdown' = FALSE
  /\ name' = "none"
  /\ UNCHANGED <<running, signalled, queuevars, sent, spawned, workervars, client>>

\* start(): open_or_create, then running_ = true.  A queue that still has
\* the name is opened with what is in it.  A new queue is empty, and the
\* clients of the queue before it keep a descriptor nobody serves.
StartOpen ==
  LET created == name = "none"
      cutOff  == {c \in Clients : created /\ client[c] \in {"connected", "waiting"}}
  IN /\ MainGoto("open", "spawn")
     /\ name' = IF created THEN "own" ELSE name
     /\ requests' = IF created THEN <<>> ELSE requests
     /\ sentinels' = IF created THEN 0 ELSE sentinels
     /\ client' = [c \in Clients |-> IF c \in cutOff THEN "stranded" ELSE client[c]]
     /\ running' = TRUE
     /\ UNCHANGED <<signalvars, sent, spawned, workervars>>

\* start() returns false and main returns EXIT_FAILURE.
StartFails ==
  /\ MainGoto("open", "failed")
  /\ UNCHANGED <<running, signalvars, name, queuevars, sent, spawned, workervars, client>>

\* WorkerPool::start: the threads run as soon as they are created.
SpawnWorker ==
  /\ MainGoto("spawn", IF spawned + 1 = PoolSize THEN "run" ELSE "spawn")
  /\ spawned' = spawned + 1
  /\ wpc' = [wpc EXCEPT ![spawned + 1] = "loop"]
  /\ UNCHANGED <<running, signalvars, name, queuevars, sent, job, client>>

\* run(): start() returns at once because running_ is set, the polling loop
\* sees the request, and stop() begins with running_ = false.
StopBegin ==
  /\ MainGoto("run", IF WorkerCount = 0 THEN "join" ELSE "send")
  /\ running /\ shutdown
  /\ running' = FALSE
  /\ UNCHANGED <<signalvars, name, queuevars, sent, spawned, workervars, client>>

\* Slip: the loop of stop() sends one sentinel more.
SendSentinelOneMore ==
  /\ MainGoto("send", IF sent = WorkerCount THEN "join" ELSE "send")
  /\ ~QueueFull
  /\ sentinels' = sentinels + 1
  /\ sent' = sent + 1
  /\ UNCHANGED <<running, signalvars, name, requests, spawned, workervars, client>>

\* Slip: it sends one sentinel less.
SendSentinelOneLess ==
  /\ MainGoto("send", IF sent + 2 >= WorkerCount THEN "join" ELSE "send")
  /\ ~QueueFull
  /\ sentinels' = sentinels + 1
  /\ sent' = sent + 1
  /\ UNCHANGED <<running, signalvars, name, requests, spawned, workervars, client>>

\* stop(): one blocking send per worker.
SendSentinel ==
  /\ MainGoto("send", IF sent + 1 = WorkerCount THEN "join" ELSE "send")
  /\ ~QueueFull
  /\ sentinels' = sentinels + 1
  /\ sent' = sent + 1
  /\ UNCHANGED <<running, signalvars, name, requests, spawned, workervars, client>>

\* Slip: the threads are detached instead of joined.
JoinWorkersDetached ==
  /\ MainGoto("join", "close")
  /\ UNCHANGED <<running, signalvars, name, queuevars, sent, spawned, workervars, client>>

\* WorkerPool::stop joins every thread.
JoinWorkers ==
  /\ MainGoto("join", "close")
  /\ \A w \in Workers : wpc[w] = "exited"
  /\ UNCHANGED <<running, signalvars, name, queuevars, sent, spawned, workervars, client>>

\* request_queue_.close() and unlink; ~Server finds running_ false.
CloseQueue ==
  /\ MainGoto("close", "exit")
  /\ name' = "none"
  /\ UNCHANGED <<running, shutdown, signalled, queuevars, sent, spawned, workervars, client>>

\* The memory of a server process that has not begun.
FreshProcess ==
  /\ running' = FALSE
  /\ shutdown' = FALSE
  /\ signalled' = FALSE
  /\ sent' = 0
  /\ spawned' = 0
  /\ wpc' = [w \in Workers |-> "none"]
  /\ job' = [w \in Workers |-> NoJob]

\* std::thread's constructor throws in WorkerPool::start: nobody catches the
\* exception, and std::terminate ends the process and the threads it has.
SpawnFails ==
  /\ MainGoto("spawn", "crashed")
  /\ FreshProcess
  /\ UNCHANGED <<name, queuevars, client>>

\* The process is killed.
Crash ==
  /\ main \notin Ended
  /\ main' = "crashed"
  /\ FreshProcess
  /\ UNCHANGED <<name, queuevars, client>>

\* The server is started again.
Restart ==
  /\ main \in Ended
  /\ main' = "boot"
  /\ FreshProcess
  /\ UNCHANGED <<name, queuevars, client>>

\* Another server's start() or stop() replaces or unlinks the name, whoever
\* owns the queue behind it.  Not while this one is between unlink and open:
\* two servers would work on one queue.
Rival ==
  /\ main # "open"
  /\ name' \in {"none", "rival"}
  /\ UNCHANGED <<main, running, signalvars, queuevars, sent, spawned, workervars, client>>

Main ==
  \/ StartReset \/ StartOpen \/ StartFails \/ SpawnWorker
  \/ StopBegin \/ SendSentinel \/ JoinWorkers \/ CloseQueue

-----------------------------------------------------------------------------
(* A worker thread: the lambda of start().  receive() fails only on a      *)
(* closed descriptor or a message of another size, which no client sends   *)
(* and NoUseAfterClose excludes; EINTR is retried inside.                  *)

WorkerGoto(w, at, next) == wpc[w] = at /\ wpc' = [wpc EXCEPT ![w] = next]

\* while (running_.load())
LoopTest(w) ==
  /\ WorkerGoto(w, "loop", IF running THEN "receive" ELSE "exited")
  /\ UNCHANGED <<mainvars, signalvars, queuevars, job, client>>

\* mq_receive returns the oldest message of the highest priority.
Receive(w) ==
  /\ WorkerGoto(w, "receive", "received")
  /\ \/ /\ sentinels > 0
        /\ sentinels' = sentinels - 1
        /\ job' = [job EXCEPT ![w] = kInvalidClientId]
        /\ UNCHANGED requests
     \/ /\ sentinels = 0
        /\ requests # <<>>
        /\ requests' = Tail(requests)
        /\ job' = [job EXCEPT ![w] = Head(requests)]
        /\ UNCHANGED sentinels
  /\ UNCHANGED <<mainvars, signalvars, client>>

\* Slip: the worker tests the shutdown request instead of running_.
TestQuitOnRequest(w) ==
  LET quit == shutdown \/ job[w] = kInvalidClientId
  IN /\ WorkerGoto(w, "received", IF quit THEN "exited" ELSE "process")
     /\ job' = [job EXCEPT ![w] = IF quit THEN NoJob ELSE @]
     /\ UNCHANGED <<mainvars, signalvars, queuevars, client>>

\* Slip: a QUIT ends the thread whoever sent it.
TestQuitOfAnyone(w) ==
  \E isQuit \in BOOLEAN :
    LET quit == ~running \/ job[w] = kInvalidClientId \/ isQuit
    IN /\ WorkerGoto(w, "received", IF quit THEN "exited" ELSE "process")
       /\ job' = [job EXCEPT ![w] = IF quit THEN NoJob ELSE @]
       /\ UNCHANGED <<mainvars, signalvars, queuevars, client>>

\* A sentinel, or any message once running_ is false, ends the thread.
TestQuit(w) ==
  LET quit == ~running \/ job[w] = kInvalidClientId
  IN /\ WorkerGoto(w, "received", IF quit THEN "exited" ELSE "process")
     /\ job' = [job EXCEPT ![w] = IF quit THEN NoJob ELSE @]
     /\ UNCHANGED <<mainvars, signalvars, queuevars, client>>

\* processor_.process_request
Process(w) ==
  /\ WorkerGoto(w, "process", "reply")
  /\ UNCHANGED <<mainvars, signalvars, queuevars, job, client>>

\* Open the client's reply queue and send; nothing if the client is gone.  The
\* send blocks while that queue is full.  Here it never is: a client has one
\* request under way, takes the answer, and does not come back once it is gone,
\* so its queue holds one message at most.  Module ClientSession has clients
\* that come back, and workers that block here.
Reply(w) ==
  /\ WorkerGoto(w, "reply", "loop")
  /\ client' = [client EXCEPT ![job[w]] = IF @ = "gone" THEN @ ELSE "connected"]
  /\ job' = [job EXCEPT ![w] = NoJob]
  /\ UNCHANGED <<mainvars, signalvars, queuevars>>

Worker(w) == LoopTest(w) \/ Receive(w) \/ TestQuit(w) \/ Process(w) \/ Reply(w)

-----------------------------------------------------------------------------
(* A client process.                                                       *)

\* Client::connect opens whatever queue has the name.
Connect(c) ==
  /\ client[c] = "away"
  /\ name # "none"
  /\ client' = [client EXCEPT ![c] = IF name = "own" THEN "connected" ELSE "stranded"]
  /\ UNCHANGED <<mainvars, signalvars, queuevars, workervars>>

\* send_request, blocking while the queue is full.  The descriptor outlives
\* the name: a client may still send after the server is gone.
SendRequest(c) ==
  /\ client[c] = "connected"
  /\ ~QueueFull
  /\ requests' = Append(requests, c)
  /\ client' = [client EXCEPT ![c] = "waiting"]
  /\ UNCHANGED <<mainvars, signalvars, sentinels, workervars>>

\* The client exits or is terminated, and its reply queue is unlinked.
Leave(c) ==
  /\ client[c] \in {"connected", "waiting", "stranded"}
  /\ client' = [client EXCEPT ![c] = "gone"]
  /\ UNCHANGED <<mainvars, signalvars, queuevars, workervars>>

Next ==
  \/ Main
  \/ SpawnFails
  \/ Signal \/ Crash \/ Restart \/ Rival
  \/ \E w \in Workers : Worker(w)
  \/ \E c \in Clients : Connect(c) \/ SendRequest(c) \/ Leave(c)

\* The scheduler runs every server thread that can run.  Clients, signals
\* and failures come when they like, or never.
Fairness == WF_vars(Main) /\ \A w \in Workers : WF_vars(Worker(w))

Spec == Init /\ [][Next]_vars /\ Fairness

-----------------------------------------------------------------------------
(* Properties.                                                             *)

\* The threads, the queue and the clients are in states the code knows, and
\* the loop counters of stop() and of WorkerPool::start stay within bounds.
TypeOK ==
  /\ main \in MainPCs
  /\ running \in BOOLEAN
  /\ shutdown \in BOOLEAN
  /\ signalled \in BOOLEAN
  /\ name \in Bindings
  /\ requests \in Seq(Clients)
  /\ sentinels \in Nat
  /\ sent \in 0..WorkerCount
  /\ spawned \in 0..PoolSize
  /\ wpc \in [Workers -> WorkerPCs]
  /\ job \in [Workers -> Clients \cup {kInvalidClientId, NoJob}]
  /\ client \in [Clients -> ClientStates]

\* No thread is left that could touch request_queue_ when stop() closes it,
\* nor any member of Server when main destroys it.
NoUseAfterClose ==
  main \in {"close", "exit"} => \A w \in Workers : wpc[w] = "exited"

\* The places where a request of client c can be.
Places(c) ==
  {<<"queue", i>> : i \in {j \in 1..Len(requests) : requests[j] = c}}
    \cup {<<"worker", w>> : w \in {v \in Workers : job[v] = c}}

\* While the server runs, a client of its queue waits exactly as long as its
\* request is in one place, the queue or one worker: none is lost or answered
\* twice, and none is left from a server that crashed.
NoLostRequest ==
  \A c \in Clients :
    /\ Cardinality(Places(c)) <= 1
    /\ client[c] = "waiting" /\ running => Cardinality(Places(c)) = 1
    /\ Places(c) # {} => client[c] \in {"waiting", "gone"}

StillToSend == IF main = "send" THEN WorkerCount - sent ELSE 0
Receivers == {w \in Workers : wpc[w] = "receive"}

\* Once stop() has begun, the sentinels in the queue and those still to be
\* sent are enough to wake every worker blocked in mq_receive, so join()
\* never waits for a thread nobody will wake, although other workers may
\* take sentinels they do not need.
EnoughSentinels ==
  main \in {"send", "join", "close", "exit"} =>
    Cardinality(Receivers) <= sentinels + StillToSend

\* A running server meets no sentinel, in its queue or in a worker: one that
\* a predecessor left when it crashed in stop() would end a worker of this
\* server, and nobody would replace it.
OnlyOwnSentinels ==
  running => sentinels = 0 /\ \A w \in Workers : job[w] # kInvalidClientId

\* A request is answered unless its client leaves or the server stops first, as
\* long as no reply queue is full (see Reply).
RequestAnswered ==
  \A c \in Clients : (client[c] = "waiting" /\ running) ~> (client[c] # "waiting" \/ ~running)

\* A shutdown requested while the server runs ends with the queue unlinked,
\* unless the process crashes first, as long as no worker is blocked at a full
\* reply queue (see Reply): stop() would wait in join() for it.
ShutdownCompletes == (main = "run" /\ shutdown) ~> (main \in {"exit", "crashed"})

\* A signal the handler has announced ends the process.
SignalHonoured == signalled ~> (main \in Ended)
=============================================================================
