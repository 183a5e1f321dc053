---------------------------- MODULE ServerProofs ----------------------------
(***************************************************************************)
(* Proofs about Server for any number of workers, clients and messages:    *)
(* stop() closes the queue only after every worker has left, and never     *)
(* runs out of sentinels to wake the workers it joins.  Crashes, restarts  *)
(* and other servers under the same name are part of the specification.    *)
(***************************************************************************)
EXTENDS Server, FiniteSetTheorems, SequenceTheorems, TLAPS

\* Where main is determines running_, the loop counters and which threads
\* exist; once stop() has joined them none is left.
LifecycleInv ==
  /\ running <=> main \in {"spawn", "run"}
  /\ main \in {"boot", "open", "failed", "crashed"} => spawned = 0
  /\ main = "spawn" => spawned < WorkerCount
  /\ main \in {"boot", "open", "spawn", "run", "failed", "crashed"} => sent = 0
  /\ main = "open" => name = "none"
  /\ main = "send" => sent < WorkerCount
  /\ main \in {"join", "close", "exit"} => sent = WorkerCount
  /\ \A w \in Workers : wpc[w] = "none" <=> w > spawned
  /\ \A w \in Workers : wpc[w] \in {"none", "loop", "receive", "exited"} => job[w] = NoJob
  /\ \A w \in Workers : wpc[w] = "received" => job[w] # NoJob
  /\ \A w \in Workers : wpc[w] \in {"process", "reply"} => job[w] \in Clients

\* The inductive form of EnoughSentinels: sent counts what has left stop().
SentinelSupply ==
  main \in {"send", "join", "close", "exit"} =>
    Cardinality(Receivers) + sent <= sentinels + WorkerCount

Inv == TypeOK /\ LifecycleInv /\ NoUseAfterClose /\ SentinelSupply /\ OnlyOwnSentinels

\* main's test of the argument makes the pool as large as the loop of stop()
\* believes it is.
LEMMA Counts == WorkerCount \in Nat \ {0} /\ PoolSize = WorkerCount
  BY ServerAssumption DEF WorkerCount, PoolSize, kMinWorkerCount

\* A server that has not started satisfies the invariant.
LEMMA InitInv == Init => Inv
<1> SUFFICES ASSUME Init PROVE Inv
  OBVIOUS
<1> USE ServerAssumption, Counts
<1>1. TypeOK
  <2>1. requests \in Seq(Clients)
    BY EmptySeq DEF Init
  <2>2. 0 \in 0..WorkerCount
    OBVIOUS
  <2> QED
    BY <2>1, <2>2 DEF Init, TypeOK, MainPCs, WorkerPCs, ClientStates, Bindings
<1>2. LifecycleInv
  BY DEF Init, LifecycleInv, Workers
<1>3. NoUseAfterClose /\ SentinelSupply /\ OnlyOwnSentinels
  BY DEF Init, NoUseAfterClose, SentinelSupply, OnlyOwnSentinels
<1> QED
  BY <1>1, <1>2, <1>3 DEF Inv

\* At most WorkerCount threads can be blocked in mq_receive.
LEMMA ReceiversFinite ==
  /\ IsFiniteSet(Receivers)
  /\ Cardinality(Receivers) \in Nat
  /\ Cardinality(Receivers) <= WorkerCount
<1>1. IsFiniteSet(Workers) /\ Cardinality(Workers) = WorkerCount
  BY Counts, FS_Interval DEF Workers
<1>2. Receivers \in SUBSET Workers
  BY DEF Receivers
<1> QED
  BY <1>1, <1>2, FS_Subset, FS_CardinalityType

\* The main thread, statement by statement.
LEMMA MainStep ==
  ASSUME Inv, Main
  PROVE  Inv'
<1> USE ServerAssumption, Counts
    DEF MainGoto, MainPCs, Bindings, mainvars, signalvars, queuevars, workervars
<1>r. Receivers' = {w \in Workers : wpc'[w] = "receive"}
  BY DEF Receivers
<1>1. CASE StartReset
  <2>1. TypeOK'
    BY <1>1 DEF Inv, TypeOK, StartReset
  <2>2. LifecycleInv'
    BY <1>1 DEF Inv, LifecycleInv, StartReset
  <2> QED
    BY <1>1, <2>1, <2>2 DEF Inv, StartReset, NoUseAfterClose, SentinelSupply, OnlyOwnSentinels
<1>2. CASE StartOpen
  <2>0. name = "none" /\ requests' = <<>> /\ sentinels' = 0 /\ name' = "own"
    BY <1>2 DEF StartOpen, Inv, LifecycleInv
  <2>1. TypeOK'
    <3>1. requests' \in Seq(Clients)
      BY <2>0
    <3>2. client' \in [Clients -> ClientStates]
      BY <1>2 DEF StartOpen, Inv, TypeOK, ClientStates
    <3> QED
      BY <1>2, <2>0, <3>1, <3>2 DEF Inv, TypeOK, StartOpen
  <2>2. LifecycleInv'
    BY <1>2 DEF Inv, TypeOK, LifecycleInv, StartOpen
  <2>3. \A w \in Workers : w \in Nat /\ w > spawned /\ job[w] = NoJob
    BY <1>2 DEF Inv, TypeOK, LifecycleInv, StartOpen, Workers
  <2>4. OnlyOwnSentinels'
    BY <1>2, <2>0, <2>3 DEF OnlyOwnSentinels, StartOpen
  <2> QED
    BY <1>2, <2>1, <2>2, <2>4 DEF Inv, StartOpen, NoUseAfterClose, SentinelSupply
<1>3. CASE StartFails
  <2>1. TypeOK'
    BY <1>3 DEF Inv, TypeOK, StartFails
  <2>2. LifecycleInv'
    BY <1>3 DEF Inv, LifecycleInv, StartFails
  <2> QED
    BY <1>3, <2>1, <2>2 DEF Inv, StartFails, NoUseAfterClose, SentinelSupply, OnlyOwnSentinels
<1>4. CASE SpawnWorker
  <2>0. spawned + 1 \in Workers /\ spawned \in Nat /\ wpc[spawned + 1] = "none"
    BY <1>4 DEF SpawnWorker, Inv, TypeOK, LifecycleInv, Workers
  <2>1. TypeOK'
    BY <1>4, <2>0 DEF Inv, TypeOK, SpawnWorker, Workers, WorkerPCs
  <2>2. \A w \in Workers : wpc'[w] = IF w = spawned + 1 THEN "loop" ELSE wpc[w]
    BY <1>4 DEF SpawnWorker, Inv, TypeOK
  <2>3. LifecycleInv'
    BY <1>4, <2>0, <2>2 DEF Inv, TypeOK, LifecycleInv, SpawnWorker, Workers
  <2> QED
    BY <1>4, <2>1, <2>3 DEF Inv, SpawnWorker, NoUseAfterClose, SentinelSupply, OnlyOwnSentinels
<1>5. CASE StopBegin
  <2>1. TypeOK'
    BY <1>5 DEF Inv, TypeOK, StopBegin
  <2>2. LifecycleInv'
    BY <1>5 DEF Inv, LifecycleInv, StopBegin
  <2>3. SentinelSupply'
    <3>1. Receivers' = Receivers /\ sent' = 0 /\ sentinels' = sentinels
      BY <1>5 DEF StopBegin, Receivers, Inv, LifecycleInv
    <3>2. sentinels \in Nat
      BY DEF Inv, TypeOK
    <3> QED
      BY <3>1, <3>2, ReceiversFinite DEF SentinelSupply
  <2> QED
    BY <1>5, <2>1, <2>2, <2>3 DEF Inv, StopBegin, NoUseAfterClose, OnlyOwnSentinels
<1>6. CASE SendSentinel
  <2>0. sent \in Nat /\ sentinels \in Nat /\ sent < WorkerCount
    BY <1>6 DEF SendSentinel, Inv, TypeOK, LifecycleInv
  <2>1. TypeOK'
    BY <1>6, <2>0 DEF Inv, TypeOK, SendSentinel
  <2>2. LifecycleInv'
    BY <1>6, <2>0 DEF Inv, LifecycleInv, SendSentinel
  <2>3. SentinelSupply'
    <3>1. Receivers' = Receivers
      BY <1>6 DEF SendSentinel, Receivers
    <3>2. Cardinality(Receivers) + sent <= sentinels + WorkerCount
      BY <1>6 DEF SendSentinel, Inv, SentinelSupply
    <3> QED
      BY <1>6, <2>0, <3>1, <3>2, ReceiversFinite DEF SendSentinel, SentinelSupply
  <2> QED
    BY <1>6, <2>1, <2>2, <2>3 DEF Inv, LifecycleInv, SendSentinel, NoUseAfterClose, OnlyOwnSentinels
<1>7. CASE JoinWorkers
  <2>1. TypeOK'
    BY <1>7 DEF Inv, TypeOK, JoinWorkers
  <2>2. LifecycleInv'
    BY <1>7 DEF Inv, LifecycleInv, JoinWorkers
  <2>3. NoUseAfterClose'
    BY <1>7 DEF JoinWorkers, NoUseAfterClose
  <2>4. SentinelSupply'
    BY <1>7 DEF JoinWorkers, Inv, SentinelSupply, Receivers
  <2>5. OnlyOwnSentinels'
    BY <1>7 DEF JoinWorkers, Inv, LifecycleInv, OnlyOwnSentinels
  <2> QED
    BY <2>1, <2>2, <2>3, <2>4, <2>5 DEF Inv
<1>8. CASE CloseQueue
  <2>1. TypeOK'
    BY <1>8 DEF Inv, TypeOK, CloseQueue
  <2>2. LifecycleInv'
    BY <1>8 DEF Inv, LifecycleInv, CloseQueue
  <2>3. NoUseAfterClose'
    BY <1>8 DEF CloseQueue, Inv, NoUseAfterClose
  <2>4. SentinelSupply'
    BY <1>8 DEF CloseQueue, Inv, SentinelSupply, Receivers
  <2>5. OnlyOwnSentinels'
    BY <1>8 DEF CloseQueue, Inv, LifecycleInv, OnlyOwnSentinels
  <2> QED
    BY <2>1, <2>2, <2>3, <2>4, <2>5 DEF Inv
<1> QED
  BY <1>1, <1>2, <1>3, <1>4, <1>5, <1>6, <1>7, <1>8 DEF Main

\* A worker that takes a message, needed or not, leaves enough sentinels for
\* the others: one receiver less against at most one sentinel less.
LEMMA ReceiveKeepsEnough ==
  ASSUME Inv, NEW w \in Workers, Receive(w)
  PROVE  SentinelSupply'
<1>1. Receivers' = Receivers \ {w} /\ w \in Receivers
  BY DEF Receive, WorkerGoto, Receivers, Inv, TypeOK
<1>2. Cardinality(Receivers') = Cardinality(Receivers) - 1
  BY <1>1, ReceiversFinite, FS_RemoveElement
<1>3. sentinels' \in Nat /\ sentinels' + 1 >= sentinels /\ sentinels \in Nat
  BY DEF Receive, Inv, TypeOK
<1>4. main' = main /\ sent' = sent /\ sent \in Nat
  BY DEF Receive, mainvars, Inv, TypeOK
<1>5. main \in {"send", "join", "close", "exit"} =>
        Cardinality(Receivers) + sent <= sentinels + WorkerCount
  BY DEF Inv, SentinelSupply
<1>6. main \in {"send", "join", "close", "exit"} =>
        Cardinality(Receivers') + sent <= sentinels' + WorkerCount
  <2>1. ASSUME NEW r \in Nat, NEW n \in Nat, NEW k \in Nat, NEW m \in Nat, NEW q \in Nat,
               k + 1 >= n, r + m <= n + q
        PROVE  (r - 1) + m <= k + q
    BY <2>1
  <2>2. Cardinality(Receivers) \in Nat /\ WorkerCount \in Nat
    BY ReceiversFinite, Counts
  <2> QED
    BY <1>2, <1>3, <1>4, <1>5, <2>1, <2>2
<1> QED
  BY <1>4, <1>6 DEF SentinelSupply

\* A step that blocks nobody in mq_receive and takes no sentinel cannot
\* make the sentinels too few.
LEMMA NoNewReceiver ==
  ASSUME Inv, main' = main, sent' = sent, sentinels' = sentinels,
         Receivers' \subseteq Receivers
  PROVE  SentinelSupply'
<1>1. Cardinality(Receivers') \in Nat /\ Cardinality(Receivers') <= Cardinality(Receivers)
  BY ReceiversFinite, FS_Subset, FS_CardinalityType
<1>2. sent \in Nat /\ sentinels \in Nat
  BY DEF Inv, TypeOK
<1> QED
  BY <1>1, <1>2, ReceiversFinite, Counts DEF Inv, SentinelSupply

\* The loop of a worker thread.
LEMMA WorkerStep ==
  ASSUME Inv, NEW w \in Workers, Worker(w)
  PROVE  Inv'
<1> USE DEF WorkerGoto, WorkerPCs, mainvars, signalvars, queuevars
<1>m. main' = main /\ name' = name /\ sent' = sent /\ spawned' = spawned /\ running' = running
  BY DEF Worker, LoopTest, Receive, TestQuit, Process, Reply
<1>w. \A v \in Workers \ {w} : wpc'[v] = wpc[v] /\ job'[v] = job[v]
  BY DEF Worker, LoopTest, Receive, TestQuit, Process, Reply, Inv, TypeOK
<1>n. wpc[w] \notin {"none", "exited"} /\ wpc'[w] # "none"
  BY DEF Worker, LoopTest, Receive, TestQuit, Process, Reply, Inv, TypeOK
<1>u. NoUseAfterClose'
  BY <1>m, <1>n DEF Inv, NoUseAfterClose
<1>o. ASSUME running => sentinels' = 0 /\ job'[w] # kInvalidClientId
      PROVE  OnlyOwnSentinels'
  BY <1>o, <1>m, <1>w DEF Inv, OnlyOwnSentinels
<1>l. ASSUME wpc'[w] \in {"loop", "receive", "exited"} => job'[w] = NoJob,
             wpc'[w] = "received" => job'[w] # NoJob,
             wpc'[w] \in {"process", "reply"} => job'[w] \in Clients
      PROVE  LifecycleInv'
  BY <1>l, <1>m, <1>w, <1>n DEF Inv, LifecycleInv
<1>1. CASE LoopTest(w)
  <2>1. TypeOK'
    BY <1>1 DEF Inv, TypeOK, LoopTest
  <2>2. LifecycleInv'
    BY <1>1, <1>l DEF LoopTest, Inv, LifecycleInv, TypeOK
  <2>3. SentinelSupply'
    <3>1. CASE running
      BY <3>1, <1>m DEF Inv, LifecycleInv, SentinelSupply
    <3>2. CASE ~running
      <4>1. Receivers' \subseteq Receivers
        BY <1>1, <3>2 DEF LoopTest, Receivers, Inv, TypeOK
      <4> QED
        BY <1>1, <4>1, <1>m, NoNewReceiver DEF LoopTest
    <3> QED
      BY <3>1, <3>2
  <2>9. OnlyOwnSentinels'
    BY <1>1, <1>o, ServerAssumption DEF LoopTest, Inv, TypeOK, OnlyOwnSentinels
  <2> QED
    BY <1>u, <2>1, <2>2, <2>3, <2>9 DEF Inv
<1>2. CASE Receive(w)
  <2>1. /\ requests' \in Seq(Clients)
        /\ job' \in [Workers -> Clients \cup {kInvalidClientId, NoJob}]
        /\ sentinels' \in Nat
    <3>1. CASE sentinels > 0
      BY <1>2, <3>1 DEF Receive, Inv, TypeOK
    <3>2. CASE sentinels = 0
      <4>1. requests # <<>> /\ requests \in Seq(Clients)
        BY <1>2, <3>2 DEF Receive, Inv, TypeOK
      <4>2. Head(requests) \in Clients /\ Tail(requests) \in Seq(Clients)
        BY <4>1
      <4>3. /\ requests' = Tail(requests)
            /\ job' = [job EXCEPT ![w] = Head(requests)]
            /\ sentinels' = sentinels
        BY <1>2, <3>2 DEF Receive
      <4>4. job \in [Workers -> Clients \cup {kInvalidClientId, NoJob}] /\ sentinels \in Nat
        BY DEF Inv, TypeOK
      <4> QED
        BY <4>2, <4>3, <4>4
    <3> QED
      BY <3>1, <3>2 DEF Inv, TypeOK
  <2>2. TypeOK'
    BY <1>2, <2>1 DEF Inv, TypeOK, Receive
  <2>3. job'[w] # NoJob
    <3>1. CASE sentinels > 0
      BY <1>2, <3>1, ServerAssumption DEF Receive, Inv, TypeOK
    <3>2. CASE sentinels = 0
      <4>1. requests # <<>> /\ requests \in Seq(Clients)
        BY <1>2, <3>2 DEF Receive, Inv, TypeOK
      <4>2. Head(requests) \in Clients
        BY <4>1
      <4>3. job'[w] = Head(requests)
        BY <1>2, <3>2 DEF Receive, Inv, TypeOK
      <4> QED
        BY <4>2, <4>3, ServerAssumption
    <3> QED
      BY <3>1, <3>2 DEF Inv, TypeOK
  <2>4. LifecycleInv'
    BY <1>2, <2>3, <1>l DEF Receive, Inv, TypeOK
  <2>5. running => sentinels' = 0 /\ job'[w] # kInvalidClientId
    <3> SUFFICES ASSUME running PROVE sentinels' = 0 /\ job'[w] # kInvalidClientId
      OBVIOUS
    <3>1. sentinels = 0
      BY DEF Inv, OnlyOwnSentinels
    <3>2. requests # <<>> /\ requests \in Seq(Clients)
      BY <1>2, <3>1 DEF Receive, Inv, TypeOK
    <3>3. Head(requests) \in Clients
      BY <3>2
    <3>4. job'[w] = Head(requests) /\ sentinels' = 0
      BY <1>2, <3>1 DEF Receive, Inv, TypeOK
    <3> QED
      BY <3>3, <3>4, ServerAssumption
  <2>6. OnlyOwnSentinels'
    BY <2>5, <1>o
  <2> QED
    BY <1>2, <1>u, <2>2, <2>4, <2>6, ReceiveKeepsEnough DEF Inv
<1>3. CASE TestQuit(w)
  <2>1. TypeOK'
    BY <1>3 DEF Inv, TypeOK, TestQuit
  <2>2. LifecycleInv'
    BY <1>3, <1>l DEF TestQuit, Inv, LifecycleInv, TypeOK
  <2>3. Receivers' \subseteq Receivers
    BY <1>3 DEF TestQuit, Receivers, Inv, TypeOK
  <2>4. SentinelSupply'
    BY <1>3, <1>m, <2>3, NoNewReceiver DEF TestQuit
  <2>9. OnlyOwnSentinels'
    BY <1>3, <1>o, ServerAssumption DEF TestQuit, Inv, TypeOK, OnlyOwnSentinels
  <2> QED
    BY <1>u, <2>1, <2>2, <2>4, <2>9 DEF Inv
<1>4. CASE Process(w)
  <2>1. TypeOK'
    BY <1>4 DEF Inv, TypeOK, Process
  <2>2. LifecycleInv'
    BY <1>4, <1>l DEF Process, Inv, LifecycleInv, TypeOK
  <2>3. Receivers' \subseteq Receivers
    BY <1>4 DEF Process, Receivers, Inv, TypeOK
  <2>4. SentinelSupply'
    BY <1>4, <1>m, <2>3, NoNewReceiver DEF Process
  <2>9. OnlyOwnSentinels'
    BY <1>4, <1>o, ServerAssumption DEF Process, Inv, TypeOK, OnlyOwnSentinels
  <2> QED
    BY <1>u, <2>1, <2>2, <2>4, <2>9 DEF Inv
<1>5. CASE Reply(w)
  <2>0. job[w] \in Clients
    BY <1>5 DEF Reply, Inv, LifecycleInv
  <2>1. TypeOK'
    BY <1>5, <2>0 DEF Inv, TypeOK, Reply, ClientStates
  <2>2. LifecycleInv'
    BY <1>5, <1>l DEF Reply, Inv, TypeOK
  <2>3. Receivers' \subseteq Receivers
    BY <1>5 DEF Reply, Receivers, Inv, TypeOK
  <2>4. SentinelSupply'
    BY <1>5, <1>m, <2>3, NoNewReceiver DEF Reply
  <2>9. OnlyOwnSentinels'
    BY <1>5, <1>o, ServerAssumption DEF Reply, Inv, TypeOK, OnlyOwnSentinels
  <2> QED
    BY <1>u, <2>1, <2>2, <2>4, <2>9 DEF Inv
<1> QED
  BY <1>1, <1>2, <1>3, <1>4, <1>5 DEF Worker

\* Signals, other servers and clients touch neither main nor the workers nor
\* the sentinels.
LEMMA EnvironmentStep ==
  ASSUME Inv, \/ Signal \/ Rival
              \/ \E c \in Clients : Connect(c) \/ SendRequest(c) \/ Leave(c)
  PROVE  Inv'
<1> USE DEF mainvars, signalvars, queuevars, workervars
<1>1. UNCHANGED <<main, running, sent, spawned, sentinels, wpc, job>>
  BY DEF Signal, Rival, Connect, SendRequest, Leave
<1>0. main = "open" => name' = name
  BY DEF Signal, Rival, Connect, SendRequest, Leave
<1>2. TypeOK'
  <2>1. CASE Signal
    BY <2>1 DEF Signal, Inv, TypeOK
  <2>4. CASE Rival
    BY <2>4 DEF Rival, Inv, TypeOK, Bindings
  <2>2. ASSUME NEW c \in Clients, Connect(c) \/ Leave(c) PROVE TypeOK'
    BY <2>2 DEF Connect, Leave, Inv, TypeOK, ClientStates
  <2>3. ASSUME NEW c \in Clients, SendRequest(c) PROVE TypeOK'
    <3>1. requests' \in Seq(Clients)
      BY <2>3 DEF SendRequest, Inv, TypeOK
    <3> QED
      BY <2>3, <3>1 DEF SendRequest, Inv, TypeOK, ClientStates
  <2> QED
    BY <2>1, <2>2, <2>3, <2>4
<1>3. LifecycleInv'
  BY <1>0, <1>1 DEF Inv, LifecycleInv
<1>4. NoUseAfterClose' /\ OnlyOwnSentinels'
  BY <1>1 DEF Inv, NoUseAfterClose, OnlyOwnSentinels
<1>5. SentinelSupply'
  BY <1>1, NoNewReceiver DEF Receivers
<1> QED
  BY <1>2, <1>3, <1>4, <1>5 DEF Inv

\* A process that ends, however it ends, and one that begins have neither
\* threads nor a running_ flag.
LEMMA ProcessStep ==
  ASSUME Inv, SpawnFails \/ Crash \/ Restart
  PROVE  Inv'
<1> USE ServerAssumption, Counts DEF queuevars
<1>1. main' \in {"crashed", "boot"} /\ FreshProcess /\ UNCHANGED <<name, queuevars, client>>
  BY DEF SpawnFails, Crash, Restart, MainGoto
<1>2. TypeOK'
  <2>1. 0 \in 0..WorkerCount
    OBVIOUS
  <2> QED
    BY <1>1, <2>1 DEF FreshProcess, Inv, TypeOK, MainPCs, WorkerPCs
<1>3. LifecycleInv'
  BY <1>1 DEF FreshProcess, LifecycleInv, Workers
<1> QED
  BY <1>1, <1>2, <1>3
  DEF Inv, FreshProcess, NoUseAfterClose, SentinelSupply, OnlyOwnSentinels

\* The inductive invariant of the server's life cycle.
THEOREM LifecycleHolds == Spec => []Inv
<1>1. Inv /\ [Next]_vars => Inv'
  <2>1. ASSUME Inv, Next PROVE Inv'
    BY <2>1, MainStep, WorkerStep, EnvironmentStep, ProcessStep DEF Next
  <2>2. ASSUME Inv, UNCHANGED vars PROVE Inv'
    BY <2>2
    DEF vars, Inv, TypeOK, LifecycleInv, NoUseAfterClose, SentinelSupply, OnlyOwnSentinels, Receivers
  <2> QED
    BY <2>1, <2>2
<1> QED
  BY <1>1, InitInv, PTL DEF Spec

\* Type correctness of the server.
THEOREM TypeCorrect == Spec => []TypeOK
  BY LifecycleHolds, PTL DEF Inv

\* stop() never closes the request queue, and main never destroys the
\* Server, under a worker thread that still runs.
THEOREM CloseIsSafe == Spec => []NoUseAfterClose
  BY LifecycleHolds, PTL DEF Inv

\* The induction's bound gives the one that counts what is still to be sent.
LEMMA SupplyIsEnough == Inv => EnoughSentinels
<1> SUFFICES ASSUME Inv, main \in {"send", "join", "close", "exit"}
             PROVE  Cardinality(Receivers) <= sentinels + StillToSend
  BY DEF EnoughSentinels
<1>1. Cardinality(Receivers) + sent <= sentinels + WorkerCount
  BY DEF Inv, SentinelSupply
<1>2. sent \in Nat /\ sentinels \in Nat /\ WorkerCount \in Nat /\ Cardinality(Receivers) \in Nat
  BY ReceiversFinite, Counts DEF Inv, TypeOK
<1>3. main # "send" => sent = WorkerCount
  BY DEF Inv, LifecycleInv
<1> QED
  BY <1>1, <1>2, <1>3 DEF StillToSend

\* Whatever the interleaving of workers, signals and clients, stop() never
\* runs out of sentinels: join() finds every blocked worker a wake-up.
THEOREM JoinIsSupplied == Spec => []EnoughSentinels
  BY LifecycleHolds, SupplyIsEnough, PTL

\* A server started after a crash, even one in the middle of stop(), never
\* meets its predecessor's sentinels.
THEOREM RestartIsClean == Spec => []OnlyOwnSentinels
  BY LifecycleHolds, PTL DEF Inv

-----------------------------------------------------------------------------
(* Every request in one place.                                             *)

Positions == 1..Len(requests)

\* NoLostRequest without counting: no request is in the queue twice, with two
\* workers, or with a worker and in the queue; whoever has one anywhere waits
\* or is gone; whoever waits while the server runs has one.
OnePlace ==
  /\ \A i, j \in Positions : requests[i] = requests[j] => i = j
  /\ \A v, w \in Workers : job[v] = job[w] /\ job[v] \in Clients => v = w
  /\ \A i \in Positions, w \in Workers : requests[i] # job[w]
  /\ \A i \in Positions : client[requests[i]] \in {"waiting", "gone"}
  /\ \A w \in Workers : job[w] \in Clients => client[job[w]] \in {"waiting", "gone"}
  /\ \A c \in Clients : client[c] = "waiting" /\ running =>
       (\E i \in Positions : requests[i] = c) \/ (\E w \in Workers : job[w] = c)

\* What the positions of the queue hold is a client.
LEMMA PositionTypes ==
  ASSUME TypeOK
  PROVE  /\ Len(requests) \in Nat
         /\ \A i \in Positions : requests[i] \in Clients
<1>1. requests \in Seq(Clients)
  BY DEF TypeOK
<1> QED
  BY <1>1 DEF Positions

\* A step that moves no request and frees no client of its wait preserves it.
LEMMA OnePlaceKept ==
  ASSUME OnePlace, requests' = requests, job' = job, client' = client, running' => running
  PROVE  OnePlace'
  BY DEF OnePlace, Positions

\* main moves no request, except that start() makes a new queue, whose
\* clients before it no longer count.
LEMMA MainKeepsOnePlace ==
  ASSUME Inv, Main, OnePlace
  PROVE  OnePlace'
<1> USE DEF mainvars, signalvars, queuevars, workervars, MainGoto
<1>1. CASE StartOpen
  <2>1. name = "none" /\ requests' = <<>> /\ job' = job
    BY <1>1 DEF StartOpen, Inv, LifecycleInv
  <2>2. Positions' = {}
    BY <2>1 DEF Positions
  <2>3. \A w \in Workers : w \in Nat /\ w > spawned /\ job[w] = NoJob
    BY <1>1 DEF StartOpen, Inv, TypeOK, LifecycleInv, Workers
  <2>4. \A c \in Clients : client'[c] # "waiting"
    BY <1>1, <2>1 DEF StartOpen
  <2> QED
    BY <2>1, <2>2, <2>3, <2>4, ServerAssumption DEF OnePlace
<1>2. CASE Main /\ ~StartOpen
  <2>1. requests' = requests /\ job' = job /\ client' = client /\ (running' => running)
    BY <1>2 DEF Main, StartReset, StartFails, SpawnWorker, StopBegin, SendSentinel,
                JoinWorkers, CloseQueue
  <2> QED
    BY <2>1, OnePlaceKept
<1> QED
  BY <1>1, <1>2

\* A request moves from the head of the queue to the worker that receives it.
LEMMA ReceiveKeepsOnePlace ==
  ASSUME Inv, OnePlace, NEW w \in Workers, Receive(w)
  PROVE  OnePlace'
<1> USE DEF mainvars, signalvars
<1>0. /\ requests \in Seq(Clients) /\ Len(requests) \in Nat
      /\ job \in [Workers -> Clients \cup {kInvalidClientId, NoJob}]
      /\ client' = client /\ running' = running
  BY PositionTypes DEF Inv, TypeOK, Receive
<1>1. CASE sentinels > 0 /\ requests' = requests /\ job' = [job EXCEPT ![w] = kInvalidClientId]
  <2>1. Positions' = Positions
    BY <1>1 DEF Positions
  <2>2. running => FALSE
    BY <1>1 DEF Inv, OnlyOwnSentinels
  <2>3. \A v \in Workers : job'[v] = IF v = w THEN kInvalidClientId ELSE job[v]
    BY <1>0, <1>1
  <2>4. \A i \in Positions : requests[i] \in Clients
    BY PositionTypes DEF Inv
  <2> QED
    BY <1>0, <1>1, <2>1, <2>2, <2>3, <2>4, ServerAssumption DEF OnePlace
<1>2. CASE requests # <<>> /\ requests' = Tail(requests) /\ job' = [job EXCEPT ![w] = Head(requests)]
           /\ wpc[w] = "receive"
  <2>1. /\ Len(requests) > 0 /\ 1 \in Positions
        /\ Head(requests) = requests[1] /\ requests[1] \in Clients
    BY <1>0, <1>2 DEF Positions
  <2>2. /\ Positions' = 1..(Len(requests) - 1)
        /\ \A i \in Positions' : i + 1 \in Positions /\ i + 1 # 1 /\ requests'[i] = requests[i + 1]
    BY <1>0, <1>2, <2>1 DEF Positions
  <2>3. \A v \in Workers : job'[v] = IF v = w THEN requests[1] ELSE job[v]
    BY <1>0, <1>2, <2>1
  <2>4. \A i \in Positions : i = 1 \/ (i - 1 \in Positions' /\ requests'[i - 1] = requests[i])
    BY <1>0, <1>2, <2>1, <2>2 DEF Positions
  <2>5. \A i, j \in Positions' : requests'[i] = requests'[j] => i = j
    <3> SUFFICES ASSUME NEW i \in Positions', NEW j \in Positions', requests'[i] = requests'[j]
                 PROVE  i = j
      OBVIOUS
    <3>1. i + 1 = j + 1
      BY <2>2 DEF OnePlace
    <3>2. i \in Int /\ j \in Int
      BY <1>0, <2>2
    <3> QED
      BY <3>1, <3>2
  <2>6. \A v, u \in Workers : job'[v] = job'[u] /\ job'[v] \in Clients => v = u
    BY <2>1, <2>3 DEF OnePlace
  <2>7. \A i \in Positions', v \in Workers : requests'[i] # job'[v]
    BY <2>1, <2>2, <2>3 DEF OnePlace
  <2>8. /\ \A i \in Positions' : client'[requests'[i]] \in {"waiting", "gone"}
        /\ \A v \in Workers : job'[v] \in Clients => client'[job'[v]] \in {"waiting", "gone"}
    BY <1>0, <2>1, <2>2, <2>3 DEF OnePlace
  <2>9. ASSUME NEW c \in Clients, client'[c] = "waiting", running'
        PROVE  (\E i \in Positions' : requests'[i] = c) \/ (\E v \in Workers : job'[v] = c)
    <3>1. CASE \E i \in Positions : requests[i] = c
      BY <3>1, <2>3, <2>4
    <3>2. CASE \E v \in Workers : job[v] = c
      <4>1. PICK v \in Workers : job[v] = c
        BY <3>2
      <4>2. job[w] = NoJob
        BY <1>2 DEF Inv, LifecycleInv
      <4> QED
        BY <4>1, <4>2, <2>3, ServerAssumption
    <3> QED
      BY <1>0, <2>9, <3>1, <3>2 DEF OnePlace
  <2> QED
    BY <2>5, <2>6, <2>7, <2>8, <2>9 DEF OnePlace
<1> QED
  BY <1>1, <1>2 DEF Receive, WorkerGoto

\* The rest of a worker's loop: a thread that ends drops its message only when
\* the server no longer runs, and an answer ends one client's wait.
LEMMA WorkerKeepsOnePlace ==
  ASSUME Inv, OnePlace, NEW w \in Workers, Worker(w)
  PROVE  OnePlace'
<1> USE DEF mainvars, signalvars, queuevars, WorkerGoto
<1>0. job \in [Workers -> Clients \cup {kInvalidClientId, NoJob}] /\ client \in [Clients -> ClientStates]
  BY DEF Inv, TypeOK
<1>p. \A i \in Positions : requests[i] \in Clients
  BY PositionTypes DEF Inv
<1>1. CASE LoopTest(w) \/ Process(w)
  BY <1>1, OnePlaceKept DEF LoopTest, Process
<1>2. CASE Receive(w)
  BY <1>2, ReceiveKeepsOnePlace
<1>3. CASE TestQuit(w)
  <2>1. requests' = requests /\ client' = client /\ running' = running
    BY <1>3 DEF TestQuit
  <2>2. CASE job' = job
    BY <2>1, <2>2, OnePlaceKept
  <2>3. CASE job' = [job EXCEPT ![w] = NoJob] /\ ~running
    <3>1. Positions' = Positions
      BY <2>1 DEF Positions
    <3>2. \A v \in Workers : job'[v] = IF v = w THEN NoJob ELSE job[v]
      BY <1>0, <2>3
    <3> QED
      BY <1>p, <2>1, <2>3, <3>1, <3>2, ServerAssumption DEF OnePlace
  <2>4. running => job[w] # kInvalidClientId
    BY DEF Inv, OnlyOwnSentinels
  <2>5. \/ job' = [job EXCEPT ![w] = NoJob] /\ (~running \/ job[w] = kInvalidClientId)
        \/ job' = [job EXCEPT ![w] = job[w]]
    BY <1>3 DEF TestQuit
  <2> QED
    BY <1>0, <2>2, <2>3, <2>4, <2>5
<1>4. CASE Reply(w)
  <2>1. /\ job[w] \in Clients /\ requests' = requests /\ running' = running
        /\ Positions' = Positions
    BY <1>4 DEF Reply, Inv, LifecycleInv, Positions
  <2>2. \A v \in Workers : job'[v] = IF v = w THEN NoJob ELSE job[v]
    BY <1>0, <1>4 DEF Reply
  <2>3. \A c \in Clients : c # job[w] => client'[c] = client[c]
    BY <1>0, <1>4, <2>1 DEF Reply
  <2>4. client'[job[w]] # "waiting"
    BY <1>0, <1>4, <2>1 DEF Reply
  <2> QED
    BY <1>p, <2>1, <2>2, <2>3, <2>4, ServerAssumption DEF OnePlace
<1> QED
  BY <1>1, <1>2, <1>3, <1>4 DEF Worker

\* A connected client has no request anywhere before it sends one.
LEMMA SendKeepsOnePlace ==
  ASSUME Inv, OnePlace, NEW c \in Clients, SendRequest(c)
  PROVE  OnePlace'
<1> USE DEF mainvars, signalvars, workervars
<1>0. /\ requests \in Seq(Clients) /\ Len(requests) \in Nat
      /\ client \in [Clients -> ClientStates]
      /\ \A i \in Positions : requests[i] \in Clients
  BY PositionTypes DEF Inv, TypeOK
<1>1. /\ client[c] = "connected" /\ requests' = Append(requests, c)
      /\ job' = job /\ running' = running
  BY DEF SendRequest
<1>2. /\ \A i \in Positions' : i \in Positions \/ i = Len(requests) + 1
      /\ \A i \in Positions : i \in Positions' /\ requests'[i] = requests[i]
      /\ Len(requests) + 1 \in Positions' /\ requests'[Len(requests) + 1] = c
  BY <1>0, <1>1 DEF Positions
<1>3. /\ \A d \in Clients : d # c => client'[d] = client[d]
      /\ client'[c] = "waiting"
  BY <1>0 DEF SendRequest
<1>4. (\A i \in Positions : requests[i] # c) /\ (\A w \in Workers : job[w] # c)
  BY <1>1 DEF OnePlace
<1>5. \A i, j \in Positions' : requests'[i] = requests'[j] => i = j
  BY <1>2, <1>4 DEF OnePlace
<1>6. ASSUME NEW i \in Positions', NEW w \in Workers PROVE requests'[i] # job'[w]
  <2>1. CASE i \in Positions
    <3>1. requests[i] # job[w]
      BY <2>1, Zenon DEF OnePlace
    <3> QED
      BY <1>1, <1>2, <2>1, <3>1
  <2>2. CASE i = Len(requests) + 1
    BY <1>1, <1>2, <1>4, <2>2
  <2> QED
    BY <1>2, <2>1, <2>2
<1>7. \A i \in Positions' : client'[requests'[i]] \in {"waiting", "gone"}
  BY <1>0, <1>2, <1>3 DEF OnePlace
<1>8. \A w \in Workers : job'[w] \in Clients => client'[job'[w]] \in {"waiting", "gone"}
  BY <1>1, <1>3 DEF OnePlace
<1>9. ASSUME NEW d \in Clients, client'[d] = "waiting", running'
      PROVE  (\E i \in Positions' : requests'[i] = d) \/ (\E w \in Workers : job'[w] = d)
  <2>1. CASE d = c
    BY <1>2, <2>1
  <2>2. CASE d # c
    <3>1. (\E i \in Positions : requests[i] = d) \/ (\E w \in Workers : job[w] = d)
      BY <1>1, <1>3, <1>9, <2>2 DEF OnePlace
    <3> QED
      BY <1>1, <1>2, <3>1
  <2> QED
    BY <2>1, <2>2
<1> QED
  BY <1>1, <1>5, <1>6, <1>7, <1>8, <1>9 DEF OnePlace

\* Clients that come and go, signals and other servers move no request.
LEMMA EnvironmentKeepsOnePlace ==
  ASSUME Inv, OnePlace, \/ Signal \/ Rival
                        \/ \E c \in Clients : Connect(c) \/ SendRequest(c) \/ Leave(c)
  PROVE  OnePlace'
<1> USE DEF mainvars, signalvars, queuevars, workervars
<1>1. CASE Signal \/ Rival
  BY <1>1, OnePlaceKept DEF Signal, Rival
<1>2. ASSUME NEW c \in Clients, Connect(c) \/ Leave(c) PROVE OnePlace'
  <2>1. /\ requests' = requests /\ job' = job /\ running' = running /\ Positions' = Positions
    BY <1>2 DEF Connect, Leave, Positions
  <2>2. \A d \in Clients : d # c => client'[d] = client[d]
    BY <1>2 DEF Connect, Leave, Inv, TypeOK
  <2>3. client'[c] = "gone" \/ (client[c] = "away" /\ client'[c] # "waiting")
    BY <1>2 DEF Connect, Leave, Inv, TypeOK
  <2>4. \A i \in Positions : requests[i] \in Clients
    BY PositionTypes DEF Inv
  <2> QED
    BY <2>1, <2>2, <2>3, <2>4 DEF OnePlace
<1> QED
  BY <1>1, <1>2, SendKeepsOnePlace

\* A process that ends takes the requests of its workers with it; it does not
\* run any more, and neither does the one that begins.
LEMMA ProcessKeepsOnePlace ==
  ASSUME Inv, OnePlace, SpawnFails \/ Crash \/ Restart
  PROVE  OnePlace'
<1>1. /\ requests' = requests /\ client' = client /\ ~running' /\ Positions' = Positions
      /\ \A w \in Workers : job'[w] = NoJob
  BY DEF SpawnFails, Crash, Restart, FreshProcess, queuevars, Positions
<1>2. \A i \in Positions : requests[i] \in Clients
  BY PositionTypes DEF Inv
<1> QED
  BY <1>1, <1>2, ServerAssumption DEF OnePlace

\* A set all of whose members are equal has at most one.
LEMMA AtMostOne ==
  ASSUME NEW S, \A x, y \in S : x = y
  PROVE  Cardinality(S) <= 1 /\ (S # {} => Cardinality(S) = 1)
<1>1. CASE S = {}
  BY <1>1, FS_EmptySet
<1>2. CASE S # {}
  <2>1. PICK x : x \in S
    BY <1>2
  <2>2. S = {x}
    BY <2>1
  <2> QED
    BY <2>2, FS_Singleton
<1> QED
  BY <1>1, <1>2

\* Counting the places.
LEMMA OnePlaceCounted == TypeOK /\ OnePlace => NoLostRequest
<1> SUFFICES ASSUME TypeOK, OnePlace, NEW c \in Clients
             PROVE  /\ Cardinality(Places(c)) <= 1
                    /\ client[c] = "waiting" /\ running => Cardinality(Places(c)) = 1
                    /\ Places(c) # {} => client[c] \in {"waiting", "gone"}
  BY DEF NoLostRequest
<1>1. \A x \in Places(c) : \/ \E i \in Positions : x = <<"queue", i>> /\ requests[i] = c
                           \/ \E w \in Workers : x = <<"worker", w>> /\ job[w] = c
  BY DEF Places, Positions
<1>2. \A x, y \in Places(c) : x = y
  BY <1>1 DEF OnePlace
<1>3. client[c] = "waiting" /\ running => Places(c) # {}
  <2> SUFFICES ASSUME client[c] = "waiting", running PROVE Places(c) # {}
    OBVIOUS
  <2>1. ASSUME NEW i \in Positions, requests[i] = c PROVE Places(c) # {}
    <3>1. <<"queue", i>> \in Places(c)
      BY <2>1, Zenon DEF Places, Positions
    <3> QED
      BY <3>1
  <2>2. ASSUME NEW w \in Workers, job[w] = c PROVE Places(c) # {}
    <3>1. <<"worker", w>> \in Places(c)
      BY <2>2, Zenon DEF Places
    <3> QED
      BY <3>1
  <2> QED
    BY <2>1, <2>2 DEF OnePlace
<1>4. Places(c) # {} => client[c] \in {"waiting", "gone"}
  BY <1>1 DEF OnePlace
<1> QED
  BY <1>2, <1>3, <1>4, AtMostOne

\* No request is lost, answered twice or left over from a server that crashed:
\* while the server runs, a client of its queue waits exactly as long as its
\* request is in the queue or with one worker.
THEOREM EachRequestInOnePlace == Spec => []NoLostRequest
<1>1. Init => OnePlace
  <2> SUFFICES ASSUME Init PROVE OnePlace
    OBVIOUS
  <2>1. Positions = {} /\ (\A w \in Workers : job[w] = NoJob) /\ ~running
    BY DEF Init, Positions
  <2> QED
    BY <2>1, ServerAssumption DEF OnePlace
<1>2. Inv /\ OnePlace /\ [Next]_vars => OnePlace'
  <2>1. ASSUME Inv, OnePlace, Next PROVE OnePlace'
    BY <2>1, MainKeepsOnePlace, WorkerKeepsOnePlace, EnvironmentKeepsOnePlace,
       ProcessKeepsOnePlace DEF Next
  <2>2. ASSUME OnePlace, UNCHANGED vars PROVE OnePlace'
    BY <2>2, OnePlaceKept DEF vars
  <2> QED
    BY <2>1, <2>2
<1>3. Inv /\ OnePlace => NoLostRequest
  BY OnePlaceCounted DEF Inv
<1> QED
  BY <1>1, <1>2, <1>3, LifecycleHolds, PTL DEF Spec
=============================================================================
