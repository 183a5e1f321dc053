------------------------ MODULE ClientSessionProofs ------------------------
(***************************************************************************)
(* Proofs about ClientSession for any number of processes, ids, workers    *)
(* and places in the queues, and any plans: reply queue names do not leak  *)
(* and are not inherited, a client with an id of its own gets its own      *)
(* answers, and only abandoned requests can hold a worker up, or all.      *)
(*                                                                         *)
(* The argument has three layers.  NameInv says who has which reply queue  *)
(* open and what the names lead to.  FlightInv says that every message is  *)
(* in one place only and in a queue of its sender's id.  OwnInv and        *)
(* SupplyInv then count the messages in flight of one process and one id.  *)
(***************************************************************************)
EXTENDS ClientSession, FiniteSetTheorems, SequenceTheorems, TLAPS

\* What is in a queue, as a set.
Contents(s) == {s[i] : i \in 1..Len(s)}
Distinct(s) == \A i, j \in 1..Len(s) : s[i] = s[j] => i = j

\* The requests and answers on their way, wherever they are.
InFlight(m) ==
  \/ m \in Contents(requests)
  \/ \E w \in Workers : job[w] = m
  \/ \E q \in Queues : m \in Contents(content[q])

Connected == {"attach", "idle", "waiting"}

-----------------------------------------------------------------------------
(* The invariants.                                                         *)

\* A process has its reply queue open between create and disconnect, and only
\* started processes have ids and messages.
ProcessInv ==
  /\ \A p \in Processes : pc[p] = "new" <=> id[p] = NoId
  /\ \A p \in Processes : pc[p] \in Connected <=> reply[p] # NoQueue
  /\ \A p \in Processes : pc[p] \in {"new", "unlink", "create", "attach"} => request_id[p] = 0
  /\ \A m \in Messages : InFlight(m) => m.request_id <= request_id[m.from]
  /\ \A w \in Workers : target[w] # NoQueue => job[w] # NoMessage

\* A name leads to a queue its id created, by a process that has it open
\* still, unless one of that id was killed.
LinkHasCreator ==
  \A c \in Ids : link[c] # NoQueue =>
    id[link[c]] = c /\ (c \in killed \/ pc[link[c]] \in Connected)

\* A process opens a queue of its id.
OpensOwnId == \A p \in Processes : reply[p] # NoQueue => id[reply[p]] = id[p]

\* Without sharing, one process of an id lives at a time, ...
OneAtATime ==
  \A p, r \in Processes :
    id[p] = id[r] /\ id[p] \in Ids \ Shared /\ pc[p] # "gone" /\ pc[r] # "gone" => p = r

\* ... it finds no queue to open, ...
NothingToOpen ==
  \A p \in Processes : pc[p] = "create" /\ id[p] \notin Shared => link[id[p]] = NoQueue

\* ... and so it creates its own.
OpensOwnQueue ==
  \A p \in Processes : reply[p] # NoQueue /\ id[p] \notin Shared =>
    reply[p] = p /\ owns[p] /\ link[id[p]] = p

NameInv == LinkHasCreator /\ OpensOwnId /\ OneAtATime /\ NothingToOpen /\ OpensOwnQueue

\* No message is in two places, ...
InOnePlace ==
  /\ Distinct(requests)
  /\ \A q \in Queues : Distinct(content[q])
  /\ \A v, w \in Workers : job[v] = job[w] /\ job[v] # NoMessage => v = w
  /\ \A w \in Workers : job[w] \notin Contents(requests)
  /\ \A q \in Queues, w \in Workers : job[w] \notin Contents(content[q])
  /\ \A q \in Queues : \A m \in Contents(content[q]) : m \notin Contents(requests)
  /\ \A q, r \in Queues : \A m \in Contents(content[q]) : m \in Contents(content[r]) => q = r

\* ... and answers are in queues of their id.
RightQueue ==
  /\ \A q \in Queues : \A m \in Contents(content[q]) : id[m.from] = id[q]
  /\ \A w \in Workers : target[w] # NoQueue => id[target[w]] = id[job[w].from]

FlightInv == InOnePlace /\ RightQueue

\* The ids that are neither shared nor used again are used by one process.
OwnIds == Ids \ (Reused \cup Shared)
OwnIdIsUnique == \A p, r \in Processes : id[p] = id[r] /\ id[p] \in OwnIds => p = r

\* Such a client has nothing in flight while it is idle, and while it waits
\* nothing but the request it waits for.
Awaits(p) ==
  /\ pc[p] = "idle" => \A m \in Messages : InFlight(m) => m.from # p
  /\ pc[p] = "idle" /\ request_id[p] > 0 => Answered(p)
  /\ pc[p] = "waiting" =>
       \A m \in Messages : InFlight(m) /\ m.from = p => m.request_id = request_id[p]

OwnInv == OwnIdIsUnique /\ \A p \in Processes : id[p] \in OwnIds => Awaits(p)

\* The processes of an id that wait or have been ended while they waited are
\* at least as many as its messages in flight.
Flying(c) == {m \in Messages : InFlight(m) /\ id[m.from] = c}
Owing(c)  == {p \in Processes : id[p] = c /\ (pc[p] = "waiting" \/ p \in abandoned)}

Covered(c) ==
  /\ IsFiniteSet(Flying(c)) /\ IsFiniteSet(Owing(c))
  /\ Cardinality(Flying(c)) <= Cardinality(Owing(c))

SupplyInv ==
  /\ \A p \in abandoned : pc[p] = "gone"
  /\ \A c \in Ids \ Shared : Covered(c)

-----------------------------------------------------------------------------
(* Queues.                                                                 *)

\* mq_receive: the head leaves, the rest stays as it is.
LEMMA HeadLeaves ==
  ASSUME NEW S, NEW s \in Seq(S), s # <<>>
  PROVE  /\ Head(s) \in S /\ Tail(s) \in Seq(S)
         /\ Head(s) \in Contents(s)
         /\ Contents(s) = Contents(Tail(s)) \cup {Head(s)}
         /\ Distinct(s) => Distinct(Tail(s)) /\ Head(s) \notin Contents(Tail(s))
<1>1. /\ Len(s) \in Nat /\ Len(s) > 0 /\ Head(s) = s[1] /\ s[1] \in S
      /\ Tail(s) \in Seq(S) /\ Len(Tail(s)) = Len(s) - 1
      /\ \A i \in 1..Len(Tail(s)) : Tail(s)[i] = s[i + 1]
  OBVIOUS
<1> DEFINE n == Len(s)
           t == Tail(s)
<1>2. /\ n \in Nat /\ n > 0 /\ Len(t) = n - 1
      /\ \A i \in 1..(n - 1) : t[i] = s[i + 1]
  BY <1>1
<1>3. s[1] \in Contents(s)
  BY <1>1 DEF Contents
<1>4. Contents(s) = Contents(t) \cup {s[1]}
  <2>1. ASSUME NEW x \in Contents(s) PROVE x \in Contents(t) \cup {s[1]}
    <3>1. PICK i \in 1..n : x = s[i]
      BY <2>1 DEF Contents
    <3>2. i = 1 \/ (i - 1 \in 1..(n - 1) /\ t[i - 1] = s[i])
      BY <1>2
    <3> QED
      BY <1>2, <3>1, <3>2 DEF Contents
  <2>2. ASSUME NEW x \in Contents(t) PROVE x \in Contents(s)
    <3>1. PICK i \in 1..(n - 1) : x = t[i]
      BY <1>2, <2>2 DEF Contents
    <3>2. i + 1 \in 1..n /\ x = s[i + 1]
      BY <1>2, <3>1
    <3> QED
      BY <3>2 DEF Contents
  <2> QED
    BY <1>3, <2>1, <2>2
<1>5. ASSUME Distinct(s) PROVE Distinct(t) /\ s[1] \notin Contents(t)
  <2>1. ASSUME NEW i \in 1..(n - 1), NEW j \in 1..(n - 1), t[i] = t[j] PROVE i = j
    <3>1. i + 1 \in 1..n /\ j + 1 \in 1..n /\ s[i + 1] = s[j + 1]
      BY <1>2, <2>1
    <3>2. i + 1 = j + 1
      BY <1>5, <3>1 DEF Distinct
    <3> QED
      BY <3>2
  <2>2. ASSUME NEW i \in 1..(n - 1), t[i] = s[1] PROVE FALSE
    <3>1. i + 1 \in 1..n /\ 1 \in 1..n /\ s[i + 1] = s[1]
      BY <1>2, <2>2
    <3>2. i + 1 = 1
      BY <1>5, <3>1 DEF Distinct
    <3> QED
      BY <3>2
  <2> QED
    BY <1>2, <2>1, <2>2 DEF Distinct, Contents
<1> QED
  BY <1>1, <1>3, <1>4, <1>5

\* mq_send: the message comes behind the others.
LEMMA MessageJoins ==
  ASSUME NEW S, NEW s \in Seq(S), NEW m \in S
  PROVE  /\ Append(s, m) \in Seq(S)
         /\ Contents(Append(s, m)) = Contents(s) \cup {m}
         /\ Distinct(s) /\ m \notin Contents(s) => Distinct(Append(s, m))
<1> DEFINE n == Len(s)
           t == Append(s, m)
<1>1. /\ n \in Nat /\ t \in Seq(S) /\ Len(t) = n + 1
      /\ \A i \in 1..n : t[i] = s[i]
      /\ t[n + 1] = m
  OBVIOUS
<1> HIDE DEF n, t
<1>n. Len(s) = n
  BY DEF n
<1>2. \A i \in 1..(n + 1) : i \in 1..n \/ i = n + 1
  BY <1>1
<1>3. \A i \in 1..n : i \in 1..(n + 1)
  BY <1>1
<1>4. n + 1 \in 1..(n + 1)
  BY <1>1
<1>5. Contents(t) = Contents(s) \cup {m}
  <2>1. ASSUME NEW x \in Contents(t) PROVE x \in Contents(s) \cup {m}
    BY <2>1, <1>1, <1>2, <1>n DEF Contents
  <2>2. ASSUME NEW x \in Contents(s) PROVE x \in Contents(t)
    BY <2>2, <1>1, <1>3, <1>n DEF Contents
  <2>3. m \in Contents(t)
    BY <1>1, <1>4 DEF Contents
  <2> QED
    BY <2>1, <2>2, <2>3
<1>6. ASSUME Distinct(s), m \notin Contents(s) PROVE Distinct(t)
  <2>1. \A i \in 1..n : s[i] # m
    BY <1>6, <1>n DEF Contents
  <2>2. \A i, j \in 1..(n + 1) : t[i] = t[j] => i = j
    BY <1>1, <1>2, <1>6, <1>n, <2>1 DEF Distinct
  <2> QED
    BY <1>1, <2>2 DEF Distinct
<1> QED
  BY <1>1, <1>5, <1>6 DEF t

\* What a queue holds is of the type of its messages.
LEMMA ContentsTyped ==
  ASSUME NEW S, NEW s \in Seq(S)
  PROVE  Contents(s) \subseteq S
  BY DEF Contents

-----------------------------------------------------------------------------
(* Types, and what belongs to a started process.                           *)

Base == TypeOK /\ ProcessInv

\* The steps of a client that neither send nor receive.
Quiet(p) ==
  \/ \E c \in Ids : Boot(p, c)
  \/ Connecting(p) \/ ConnectFails(p)
  \/ handle_quit(p) \/ ClearActive(p) \/ Destroy(p)
  \/ signal_handler(p) \/ Kill(p)

\* They leave every message where it is.
LEMMA QuietMessages ==
  ASSUME NEW p \in Processes, Quiet(p)
  PROVE  /\ UNCHANGED <<request_id, last, content, requests, job, target>>
         /\ \A m : InFlight(m)' <=> InFlight(m)
<1>1. UNCHANGED <<request_id, last, content, requests, job, target>>
  BY DEF Quiet, Boot, Connecting, ConnectUnlink, ConnectCreate, ConnectAttach, ConnectFails,
         handle_quit, ClearActive, Destroy, signal_handler, Kill, servervars, history
<1> QED
  BY <1>1 DEF InFlight

\* A process that is started has an id.
LEMMA StartedHasId ==
  ASSUME Base, NEW p \in Processes, pc[p] # "new"
  PROVE  id[p] \in Ids
  BY DEF Base, TypeOK, ProcessInv

\* The sender of a message in flight has been started.
LEMMA SenderStarted ==
  ASSUME Base, NEW m \in Messages, InFlight(m)
  PROVE  /\ m.from \in Processes /\ m.request_id \in 1..MaxRequests
         /\ m.request_id <= request_id[m.from]
         /\ pc[m.from] \notin {"new", "unlink", "create", "attach"}
         /\ id[m.from] \in Ids
<1>1. m.from \in Processes /\ m.request_id \in 1..MaxRequests
  BY DEF Messages
<1>2. m.request_id <= request_id[m.from]
  BY DEF Base, ProcessInv
<1>3. request_id[m.from] # 0
  BY <1>1, <1>2, SessionAssumption
<1>4. pc[m.from] \notin {"new", "unlink", "create", "attach"}
  BY <1>1, <1>3 DEF Base, ProcessInv
<1> QED
  BY <1>1, <1>2, <1>4, StartedHasId

\* A client that waits has an open reply queue.
LEMMA ConnectedHasQueue ==
  ASSUME Base, NEW p \in Processes, pc[p] \in Connected
  PROVE  reply[p] \in Queues
  BY DEF Base, TypeOK, ProcessInv

\* What is in a queue or with a worker is a message.
LEMMA MessageTypes ==
  ASSUME TypeOK
  PROVE  /\ Contents(requests) \subseteq Messages
         /\ \A q \in Queues : Contents(content[q]) \subseteq Messages
         /\ \A w \in Workers : job[w] # NoMessage => job[w] \in Messages
         /\ NoMessage \notin Messages
<1>1. requests \in Seq(Messages) /\ \A q \in Queues : content[q] \in Seq(Messages)
  BY DEF TypeOK
<1> QED
  BY <1>1, ContentsTyped, SessionAssumption DEF TypeOK, Messages

\* send_request puts one message more in flight.
LEMMA SendFlight ==
  ASSUME Base, NEW p \in Processes, send_request(p)
  PROVE  LET m == [from |-> p, request_id |-> request_id[p] + 1]
         IN /\ m \in Messages /\ m.from = p /\ m.request_id = request_id[p] + 1
            /\ requests' \in Seq(Messages)
            /\ Contents(requests') = Contents(requests) \cup {m}
            /\ Distinct(requests) /\ m \notin Contents(requests) => Distinct(requests')
            /\ \A x : InFlight(x)' <=> InFlight(x) \/ x = m
<1> DEFINE m == [from |-> p, request_id |-> request_id[p] + 1]
<1>1. request_id[p] \in 0..MaxRequests /\ request_id[p] < MaxRequests
  BY DEF send_request, Base, TypeOK
<1>2. request_id[p] + 1 \in 1..MaxRequests
  BY <1>1, SessionAssumption
<1>3. m \in Messages /\ m.from = p /\ m.request_id = request_id[p] + 1
  BY <1>2 DEF Messages
<1>4. requests \in Seq(Messages) /\ requests' = Append(requests, m)
  BY DEF Base, TypeOK, send_request
<1>5. UNCHANGED <<content, job>>
  BY DEF send_request, servervars
<1> HIDE DEF m
<1>6. /\ requests' \in Seq(Messages)
      /\ Contents(requests') = Contents(requests) \cup {m}
      /\ Distinct(requests) /\ m \notin Contents(requests) => Distinct(requests')
  BY <1>3, <1>4, MessageJoins
<1>7. \A x : InFlight(x)' <=> InFlight(x) \/ x = m
  BY <1>5, <1>6 DEF InFlight
<1> QED
  BY <1>3, <1>6, <1>7 DEF m

\* receive_response takes the oldest answer out of the open reply queue.
LEMMA ReceiveFlight ==
  ASSUME Base, NEW p \in Processes, receive_response(p)
  PROVE  LET m == Head(content[reply[p]])
         IN /\ reply[p] \in Queues /\ m \in Messages
            /\ m \in Contents(content[reply[p]])
            /\ \A q \in Queues : q # reply[p] => content'[q] = content[q]
            /\ content'[reply[p]] \in Seq(Messages)
            /\ Contents(content[reply[p]]) = Contents(content'[reply[p]]) \cup {m}
            /\ Distinct(content[reply[p]]) =>
                 Distinct(content'[reply[p]]) /\ m \notin Contents(content'[reply[p]])
            /\ \A x : InFlight(x)' => InFlight(x)
<1> DEFINE q == reply[p]
           m == Head(content[q])
<1>1. q \in Queues /\ content[q] \in Seq(Messages) /\ content[q] # <<>>
  BY ConnectedHasQueue DEF receive_response, Goto, Connected, Base, TypeOK
<1>2. /\ content'[q] = Tail(content[q])
      /\ \A r \in Queues : r # q => content'[r] = content[r]
  BY <1>1 DEF receive_response, Base, TypeOK
<1>3. UNCHANGED <<requests, job>>
  BY DEF receive_response, servervars
<1> HIDE DEF q
<1>4. /\ m \in Messages /\ content'[q] \in Seq(Messages)
      /\ m \in Contents(content[q])
      /\ Contents(content[q]) = Contents(content'[q]) \cup {m}
      /\ Distinct(content[q]) => Distinct(content'[q]) /\ m \notin Contents(content'[q])
  BY <1>1, <1>2, HeadLeaves
<1> HIDE DEF m
<1>5. \A r \in Queues : Contents(content'[r]) \subseteq Contents(content[r])
  BY <1>2, <1>4
<1>6. \A x : InFlight(x)' => InFlight(x)
  BY <1>3, <1>5 DEF InFlight
<1> QED
  BY <1>1, <1>2, <1>4, <1>6 DEF q, m

\* A worker that receives moves the oldest request, and no other.
LEMMA TakeFlight ==
  ASSUME Base, NEW w \in Workers, Take(w)
  PROVE  LET m == Head(requests)
         IN /\ m \in Messages /\ requests' \in Seq(Messages)
            /\ Contents(requests) = Contents(requests') \cup {m}
            /\ Distinct(requests) => Distinct(requests') /\ m \notin Contents(requests')
            /\ \A v \in Workers : job'[v] = IF v = w THEN m ELSE job[v]
            /\ \A x \in Messages : InFlight(x)' <=> InFlight(x)
<1> DEFINE m == Head(requests)
<1>1. requests \in Seq(Messages) /\ requests # <<>> /\ requests' = Tail(requests)
  BY DEF Take, Base, TypeOK
<1>2. \A v \in Workers : job'[v] = IF v = w THEN m ELSE job[v]
  BY DEF Take, Base, TypeOK
<1>3. job[w] = NoMessage /\ content' = content
  BY DEF Take
<1>4. /\ m \in Messages /\ requests' \in Seq(Messages)
      /\ Contents(requests) = Contents(requests') \cup {m}
      /\ Distinct(requests) => Distinct(requests') /\ m \notin Contents(requests')
  BY <1>1, HeadLeaves
<1> HIDE DEF m
<1>5. NoMessage \notin Messages
  BY MessageTypes DEF Base
<1>6. \A x \in Messages : InFlight(x)' <=> InFlight(x)
  <2> SUFFICES ASSUME NEW x \in Messages PROVE InFlight(x)' <=> InFlight(x)
    OBVIOUS
  <2>1. (\E v \in Workers : job'[v] = x) <=> (x = m \/ \E v \in Workers : job[v] = x)
    BY <1>2, <1>3, <1>5
  <2> QED
    BY <1>3, <1>4, <2>1 DEF InFlight
<1> QED
  BY <1>2, <1>4, <1>6 DEF m

\* open_write_only finds the queue of the sender's id, or the answer is lost.
LEMMA OpenFlight ==
  ASSUME Base, NEW w \in Workers, OpenReply(w)
  PROVE  LET q == link[id[job[w].from]]
         IN /\ job[w] \in Messages /\ id[job[w].from] \in Ids
            /\ q \in Queues \cup {NoQueue}
            /\ \A v \in Workers : target'[v] = IF v = w THEN q ELSE target[v]
            /\ \A v \in Workers :
                 job'[v] = IF v = w /\ q = NoQueue THEN NoMessage ELSE job[v]
            /\ \A x \in Messages : InFlight(x)' => InFlight(x)
<1> DEFINE q == link[id[job[w].from]]
<1>1. job[w] \in Messages /\ InFlight(job[w])
  BY MessageTypes DEF OpenReply, Base, InFlight
<1>2. id[job[w].from] \in Ids
  BY <1>1, SenderStarted
<1>3. q \in Queues \cup {NoQueue}
  BY <1>2 DEF Base, TypeOK
<1>4. /\ \A v \in Workers : target'[v] = IF v = w THEN q ELSE target[v]
      /\ \A v \in Workers : job'[v] = IF v = w /\ q = NoQueue THEN NoMessage ELSE job[v]
  BY DEF OpenReply, ReplyQueueOf, Base, TypeOK
<1>5. requests' = requests /\ content' = content
  BY DEF OpenReply
<1>6. NoMessage \notin Messages
  BY MessageTypes DEF Base
<1> HIDE DEF q
<1>7. \A x \in Messages : InFlight(x)' => InFlight(x)
  BY <1>4, <1>5, <1>6 DEF InFlight
<1> QED
  BY <1>1, <1>2, <1>3, <1>4, <1>7 DEF q

\* send moves the answer from the worker to the reply queue it has open.
LEMMA ReplyFlight ==
  ASSUME Base, NEW w \in Workers, SendReply(w)
  PROVE  LET m == job[w]
             q == target[w]
         IN /\ q \in Queues /\ m \in Messages
            /\ \A r \in Queues : r # q => content'[r] = content[r]
            /\ content'[q] \in Seq(Messages)
            /\ Contents(content'[q]) = Contents(content[q]) \cup {m}
            /\ Distinct(content[q]) /\ m \notin Contents(content[q]) => Distinct(content'[q])
            /\ \A v \in Workers : /\ job'[v] = IF v = w THEN NoMessage ELSE job[v]
                                  /\ target'[v] = IF v = w THEN NoQueue ELSE target[v]
            /\ (\A v \in Workers : job[v] = job[w] => v = w) =>
                 \A x \in Messages : InFlight(x)' <=> InFlight(x)
            /\ \A x \in Messages : InFlight(x)' => InFlight(x)
<1> DEFINE m == job[w]
           q == target[w]
<1>1. q \in Queues /\ m \in Messages /\ content[q] \in Seq(Messages)
  BY MessageTypes DEF SendReply, Base, TypeOK, ProcessInv
<1>2. /\ content'[q] = Append(content[q], m)
      /\ \A r \in Queues : r # q => content'[r] = content[r]
  BY <1>1 DEF SendReply, Base, TypeOK
<1>3. \A v \in Workers : /\ job'[v] = IF v = w THEN NoMessage ELSE job[v]
                         /\ target'[v] = IF v = w THEN NoQueue ELSE target[v]
  BY DEF SendReply, Base, TypeOK
<1>4. requests' = requests
  BY DEF SendReply
<1>5. NoMessage \notin Messages
  BY MessageTypes DEF Base
<1>6. /\ content'[q] \in Seq(Messages)
      /\ Contents(content'[q]) = Contents(content[q]) \cup {m}
      /\ Distinct(content[q]) /\ m \notin Contents(content[q]) => Distinct(content'[q])
  BY <1>1, <1>2, MessageJoins
<1>m. m = job[w]
  OBVIOUS
<1> HIDE DEF m, q
<1>7. \A x : (\E r \in Queues : x \in Contents(content'[r])) <=>
             (x = m \/ \E r \in Queues : x \in Contents(content[r]))
  BY <1>1, <1>2, <1>6
<1>8. \A x \in Messages : InFlight(x)' => InFlight(x)
  BY <1>3, <1>4, <1>5, <1>7, <1>m DEF InFlight
<1>9. ASSUME \A v \in Workers : job[v] = job[w] => v = w
      PROVE  \A x \in Messages : InFlight(x) => InFlight(x)'
  BY <1>3, <1>4, <1>7, <1>9, <1>m DEF InFlight
<1> QED
  BY <1>1, <1>2, <1>3, <1>6, <1>8, <1>9 DEF m, q

\* At the start there is no message.
LEMMA InitNothing == Init => Base /\ \A m \in Messages : ~InFlight(m)
<1> SUFFICES ASSUME Init PROVE Base /\ \A m \in Messages : ~InFlight(m)
  OBVIOUS
<1>1. /\ Contents(requests) = {}
      /\ \A q \in Queues : Contents(content[q]) = {}
      /\ \A w \in Workers : job[w] = NoMessage
  BY DEF Init, Contents
<1>2. NoMessage \notin Messages
  BY SessionAssumption DEF Messages
<1>3. \A m \in Messages : ~InFlight(m)
  BY <1>1, <1>2 DEF InFlight
<1>4. TypeOK
  <2>1. requests \in Seq(Messages) /\ content \in [Queues -> Seq(Messages)]
    BY DEF Init
  <2>2. request_id \in [Processes -> 0..MaxRequests]
    BY SessionAssumption DEF Init
  <2>3. owns \in [Processes -> BOOLEAN]
    BY Zenon DEF Init
  <2> QED
    BY <2>1, <2>2, <2>3 DEF Init, TypeOK, PCs
<1>5. ProcessInv
  BY <1>3, SessionAssumption DEF Init, ProcessInv, Connected
<1> QED
  BY <1>3, <1>4, <1>5 DEF Base

\* The quiet steps keep the types.
LEMMA QuietBase ==
  ASSUME Base, NEW p \in Processes, Quiet(p)
  PROVE  Base'
<1> USE DEF Goto, Disconnect, Abandon, history
<1>m. /\ UNCHANGED <<request_id, last, content, requests, job, target>>
      /\ \A m : InFlight(m)' <=> InFlight(m)
  BY QuietMessages
<1>n. NoQueue \notin Processes /\ NoId \notin Ids
  BY SessionAssumption
<1>k. ASSUME /\ pc' \in [Processes -> PCs]
             /\ id' \in [Processes -> Ids \cup {NoId}]
             /\ reply' \in [Processes -> Queues \cup {NoQueue}]
             /\ owns' \in [Processes -> BOOLEAN]
             /\ link' \in [Ids -> Queues \cup {NoQueue}]
             /\ killed' \subseteq Ids
             /\ abandoned' \subseteq Processes,
             \A r \in Processes \ {p} : pc'[r] = pc[r] /\ id'[r] = id[r] /\ reply'[r] = reply[r],
             pc'[p] = "new" <=> id'[p] = NoId,
             pc'[p] \in Connected <=> reply'[p] # NoQueue,
             pc'[p] \in {"new", "unlink", "create", "attach"} => request_id[p] = 0
      PROVE  Base'
  <2>1. TypeOK'
    BY <1>m, <1>k DEF Base, TypeOK
  <2>2. ProcessInv'
    BY <1>m, <1>k DEF Base, ProcessInv
  <2> QED
    BY <2>1, <2>2 DEF Base
<1>t. /\ pc \in [Processes -> PCs] /\ id \in [Processes -> Ids \cup {NoId}]
      /\ reply \in [Processes -> Queues \cup {NoQueue}] /\ owns \in [Processes -> BOOLEAN]
      /\ link \in [Ids -> Queues \cup {NoQueue}] /\ killed \subseteq Ids /\ abandoned \subseteq Processes
  BY DEF Base, TypeOK
<1>i. /\ pc[p] = "new" <=> id[p] = NoId
      /\ pc[p] \in Connected <=> reply[p] # NoQueue
      /\ pc[p] \in {"new", "unlink", "create", "attach"} => request_id[p] = 0
  BY DEF Base, ProcessInv
<1>1. ASSUME NEW c \in Ids, Boot(p, c) PROVE Base'
  BY <1>1, <1>k, <1>t, <1>i, <1>n DEF Boot, PCs, Connected
<1>2. CASE ConnectUnlink(p)
  BY <1>2, <1>k, <1>t, <1>i, <1>n DEF ConnectUnlink, PCs, Connected
<1>3. CASE ConnectCreate(p)
  <2>1. id[p] \in Ids
    BY <1>3, StartedHasId DEF ConnectCreate
  <2>2. /\ pc[p] = "create" /\ pc' = [pc EXCEPT ![p] = "attach"]
        /\ UNCHANGED <<id, killed, abandoned>>
    BY <1>3 DEF ConnectCreate
  <2>3. reply' \in [Processes -> Queues \cup {NoQueue}] /\ reply'[p] # NoQueue
        /\ \A r \in Processes \ {p} : reply'[r] = reply[r]
    BY <1>3, <1>t, <1>n, <2>1 DEF ConnectCreate, Queues
  <2>4. owns' = owns \/ owns' = [owns EXCEPT ![p] = TRUE]
    BY <1>3 DEF ConnectCreate
  <2>5. owns' \in [Processes -> BOOLEAN]
    BY <1>t, <2>4, Zenon
  <2>6. link' \in [Ids -> Queues \cup {NoQueue}]
    BY <1>3, <1>t, <2>1 DEF ConnectCreate, Queues
  <2> QED
    BY <1>k, <1>t, <1>i, <2>2, <2>3, <2>5, <2>6 DEF PCs, Connected
<1>4. CASE ConnectAttach(p) \/ ClearActive(p)
  BY <1>4, <1>k, <1>t, <1>i, <1>n DEF ConnectAttach, ClearActive, PCs, Connected
<1>5. CASE ConnectFails(p)
  BY <1>5, <1>k, <1>t, <1>i, <1>n DEF ConnectFails, PCs, Connected
<1>6. CASE handle_quit(p) \/ Destroy(p)
  BY <1>6, <1>k, <1>t, <1>i, <1>n DEF handle_quit, Destroy, PCs, Connected
<1>7. CASE signal_handler(p)
  BY <1>7, <1>k, <1>t, <1>i, <1>n DEF signal_handler, Running, PCs, Connected
<1>8. CASE Kill(p)
  <2>1. id[p] \in Ids
    BY <1>8, StartedHasId DEF Kill, Running
  <2> QED
    BY <1>8, <1>k, <1>t, <1>i, <1>n, <2>1 DEF Kill, Running, PCs, Connected
<1> QED
  BY <1>1, <1>2, <1>3, <1>4, <1>5, <1>6, <1>7, <1>8 DEF Quiet, Connecting

\* So do sending and receiving, and the workers.
LEMMA MessageBase ==
  ASSUME Base, \/ \E p \in Processes : send_request(p) \/ receive_response(p)
               \/ \E w \in Workers : Worker(w)
  PROVE  Base'
<1> USE DEF Goto, history, servervars, clientvars
<1>1. ASSUME NEW p \in Processes, send_request(p) PROVE Base'
  <2> DEFINE m == [from |-> p, request_id |-> request_id[p] + 1]
  <2>1. /\ m \in Messages /\ m.from = p /\ m.request_id = request_id[p] + 1
        /\ requests' \in Seq(Messages)
        /\ \A x : InFlight(x)' <=> InFlight(x) \/ x = m
    BY <1>1, SendFlight
  <2> HIDE DEF m
  <2>2. /\ pc[p] = "idle" /\ pc' = [pc EXCEPT ![p] = "waiting"]
        /\ request_id' = [request_id EXCEPT ![p] = request_id[p] + 1]
        /\ request_id[p] \in Nat /\ request_id[p] < MaxRequests
        /\ UNCHANGED <<id, reply, owns, last, killed, abandoned, link, content, job, target>>
    BY <1>1 DEF send_request, Base, TypeOK
  <2>3. TypeOK'
    BY <2>1, <2>2, SessionAssumption DEF Base, TypeOK, PCs
  <2>4. ASSUME NEW x \in Messages, InFlight(x)' PROVE x.request_id <= request_id'[x.from]
    <3>1. CASE x = m
      BY <2>1, <2>2, <3>1 DEF Base, TypeOK
    <3>2. CASE InFlight(x)
      <4>1. /\ x.from \in Processes /\ x.request_id \in Nat
            /\ x.request_id <= request_id[x.from] /\ request_id[x.from] \in Nat
        BY <3>2, SenderStarted DEF Base, TypeOK
      <4>2. request_id'[x.from] >= request_id[x.from] /\ request_id'[x.from] \in Nat
        BY <2>2, <4>1 DEF Base, TypeOK
      <4> QED
        BY <4>1, <4>2
    <3> QED
      BY <2>1, <2>4, <3>1, <3>2
  <2>5. ProcessInv'
    BY <2>2, <2>4 DEF Base, TypeOK, ProcessInv, Connected
  <2> QED
    BY <2>3, <2>5 DEF Base
<1>2. ASSUME NEW p \in Processes, receive_response(p) PROVE Base'
  <2>1. /\ reply[p] \in Queues /\ Head(content[reply[p]]) \in Messages
        /\ content'[reply[p]] \in Seq(Messages)
        /\ \A x : InFlight(x)' => InFlight(x)
    BY <1>2, ReceiveFlight
  <2>2. /\ pc[p] = "waiting" /\ pc' = [pc EXCEPT ![p] = "idle"]
        /\ last' = [last EXCEPT ![p] = Head(content[reply[p]])]
        /\ content' = [content EXCEPT ![reply[p]] = Tail(content[reply[p]])]
        /\ UNCHANGED <<id, reply, owns, request_id, killed, abandoned, link, requests, job, target>>
    BY <1>2 DEF receive_response
  <2>3. content' \in [Queues -> Seq(Messages)]
    BY <2>1, <2>2 DEF Base, TypeOK
  <2>4. TypeOK'
    BY <2>1, <2>2, <2>3 DEF Base, TypeOK, PCs
  <2>5. ProcessInv'
    BY <2>1, <2>2 DEF Base, TypeOK, ProcessInv, Connected
  <2> QED
    BY <2>4, <2>5 DEF Base
<1>3. ASSUME NEW w \in Workers, Take(w) PROVE Base'
  <2>1. /\ Head(requests) \in Messages /\ requests' \in Seq(Messages)
        /\ \A v \in Workers : job'[v] = IF v = w THEN Head(requests) ELSE job[v]
        /\ \A x \in Messages : InFlight(x)' <=> InFlight(x)
    BY <1>3, TakeFlight
  <2>2. /\ job' = [job EXCEPT ![w] = Head(requests)]
        /\ UNCHANGED <<pc, id, reply, owns, request_id, last, killed, abandoned, link, content, target>>
    BY <1>3 DEF Take
  <2>3. TypeOK'
    BY <2>1, <2>2 DEF Base, TypeOK
  <2>4. Head(requests) # NoMessage
    BY <2>1, MessageTypes DEF Base
  <2>5. ProcessInv'
    BY <2>1, <2>2, <2>4 DEF Base, ProcessInv
  <2> QED
    BY <2>3, <2>5 DEF Base
<1>4. ASSUME NEW w \in Workers, OpenReply(w) PROVE Base'
  <2> DEFINE q == link[id[job[w].from]]
  <2>1. /\ job[w] \in Messages /\ q \in Queues \cup {NoQueue}
        /\ \A v \in Workers : target'[v] = IF v = w THEN q ELSE target[v]
        /\ \A v \in Workers : job'[v] = IF v = w /\ q = NoQueue THEN NoMessage ELSE job[v]
        /\ \A x \in Messages : InFlight(x)' => InFlight(x)
    BY <1>4, OpenFlight
  <2>2. /\ job' = [job EXCEPT ![w] = IF q = NoQueue THEN NoMessage ELSE job[w]]
        /\ target' = [target EXCEPT ![w] = q]
        /\ UNCHANGED <<pc, id, reply, owns, request_id, last, killed, abandoned, link, content, requests>>
    BY <1>4 DEF OpenReply, ReplyQueueOf
  <2> HIDE DEF q
  <2>3. TypeOK'
    BY <2>1, <2>2 DEF Base, TypeOK
  <2>4. job[w] # NoMessage
    BY <1>4 DEF OpenReply
  <2>5. ProcessInv'
    BY <2>1, <2>2, <2>4 DEF Base, ProcessInv
  <2> QED
    BY <2>3, <2>5 DEF Base
<1>5. ASSUME NEW w \in Workers, SendReply(w) PROVE Base'
  <2>1. /\ target[w] \in Queues /\ job[w] \in Messages
        /\ content'[target[w]] \in Seq(Messages)
        /\ \A v \in Workers : /\ job'[v] = IF v = w THEN NoMessage ELSE job[v]
                              /\ target'[v] = IF v = w THEN NoQueue ELSE target[v]
        /\ \A x \in Messages : InFlight(x)' => InFlight(x)
    BY <1>5, ReplyFlight
  <2>2. /\ content' = [content EXCEPT ![target[w]] = Append(content[target[w]], job[w])]
        /\ job' = [job EXCEPT ![w] = NoMessage]
        /\ target' = [target EXCEPT ![w] = NoQueue]
        /\ UNCHANGED <<pc, id, reply, owns, request_id, last, killed, abandoned, link, requests>>
    BY <1>5 DEF SendReply
  <2>3. content' \in [Queues -> Seq(Messages)]
    BY <2>1, <2>2 DEF Base, TypeOK
  <2>4. TypeOK'
    BY <2>2, <2>3 DEF Base, TypeOK
  <2>5. ProcessInv'
    BY <2>1, <2>2 DEF Base, ProcessInv
  <2> QED
    BY <2>4, <2>5 DEF Base
<1> QED
  BY <1>1, <1>2, <1>3, <1>4, <1>5 DEF Worker

-----------------------------------------------------------------------------
(* Reply queue names.                                                      *)

\* Sending, receiving and answering do not touch the names.
LEMMA MessageNames ==
  ASSUME Base, NameInv, \/ \E p \in Processes : send_request(p) \/ receive_response(p)
                        \/ \E w \in Workers : Worker(w)
  PROVE  NameInv'
<1>1. UNCHANGED <<id, reply, owns, link, killed>>
  BY DEF send_request, receive_response, Worker, Take, OpenReply, SendReply, clientvars, history
<1>2. /\ \A r \in Processes : pc'[r] = "gone" <=> pc[r] = "gone"
      /\ \A r \in Processes : pc'[r] = "create" <=> pc[r] = "create"
      /\ \A r \in Processes : pc'[r] \in Connected <=> pc[r] \in Connected
  BY DEF send_request, receive_response, Goto, Worker, Take, OpenReply, SendReply, clientvars,
         Base, TypeOK, Connected
<1>3. \A c \in Ids : link[c] # NoQueue => link[c] \in Processes
  BY DEF Base, TypeOK, Queues
<1> QED
  BY <1>1, <1>2, <1>3
  DEF NameInv, LinkHasCreator, OpensOwnId, OneAtATime, NothingToOpen, OpensOwnQueue

\* disconnect(), wherever it is called from, gives up what the process has
\* opened and the name of its id.
LEMMA DisconnectNames ==
  ASSUME Base, NameInv, NEW p \in Processes, Disconnect(p),
         NEW x \in PCs \ (Connected \cup {"new"}), pc' = [pc EXCEPT ![p] = x],
         pc[p] \notin {"new", "gone"}, id' = id, killed' = killed
  PROVE  NameInv'
<1>t. /\ pc \in [Processes -> PCs] /\ id \in [Processes -> Ids \cup {NoId}]
      /\ reply \in [Processes -> Processes \cup {NoQueue}] /\ owns \in [Processes -> BOOLEAN]
      /\ link \in [Ids -> Processes \cup {NoQueue}]
  BY DEF Base, TypeOK, Queues
<1>0. id[p] \in Ids
  BY StartedHasId
<1>1. /\ \A c \in Ids : link'[c] = IF c = id[p] THEN NoQueue ELSE link[c]
      /\ \A r \in Processes : reply'[r] = IF r = p THEN NoQueue ELSE reply[r]
      /\ \A r \in Processes : r # p => owns'[r] = owns[r]
      /\ \A r \in Processes : pc'[r] = IF r = p THEN x ELSE pc[r]
  BY <1>t DEF Disconnect
<1>2. LinkHasCreator'
  BY <1>0, <1>1, <1>t DEF NameInv, LinkHasCreator
<1>3. OpensOwnId'
  BY <1>1 DEF NameInv, OpensOwnId
<1>4. OneAtATime'
  BY <1>1 DEF NameInv, OneAtATime
<1>5. NothingToOpen'
  <2> SUFFICES ASSUME NEW r \in Processes, pc'[r] = "create", id[r] \notin Shared
               PROVE  link'[id[r]] = NoQueue
    BY DEF NothingToOpen
  <2>1. id[r] \in Ids
    BY <1>0, <1>1, StartedHasId
  <2> QED
    BY <1>1, <2>1 DEF NameInv, NothingToOpen
<1>6. OpensOwnQueue'
  <2> SUFFICES ASSUME NEW r \in Processes, reply'[r] # NoQueue, id[r] \notin Shared
               PROVE  reply'[r] = r /\ owns'[r] /\ link'[id[r]] = r
    BY DEF OpensOwnQueue
  <2>1. r # p /\ reply[r] # NoQueue
    BY <1>1
  <2>2. reply[r] = r /\ owns[r] /\ link[id[r]] = r
    BY <2>1 DEF NameInv, OpensOwnQueue
  <2>3. pc[r] \in Connected
    BY <2>1 DEF Base, ProcessInv
  <2>4. id[r] \in Ids
    BY <2>3, StartedHasId DEF Connected
  <2>5. id[r] # id[p]
    BY <2>1, <2>3, <2>4 DEF NameInv, OneAtATime, Connected
  <2> QED
    BY <1>1, <2>1, <2>2, <2>4, <2>5
<1> QED
  BY <1>2, <1>3, <1>4, <1>5, <1>6 DEF NameInv

\* open_or_create: with an id of its own the process creates the queue.
LEMMA CreateNames ==
  ASSUME Base, NameInv, NEW p \in Processes, ConnectCreate(p)
  PROVE  NameInv'
<1>t. /\ pc \in [Processes -> PCs] /\ id \in [Processes -> Ids \cup {NoId}]
      /\ reply \in [Processes -> Processes \cup {NoQueue}] /\ owns \in [Processes -> BOOLEAN]
      /\ link \in [Ids -> Processes \cup {NoQueue}] /\ NoQueue \notin Processes
  BY SessionAssumption DEF Base, TypeOK, Queues
<1>0. id[p] \in Ids /\ pc[p] = "create" /\ pc' = [pc EXCEPT ![p] = "attach"]
  BY StartedHasId DEF ConnectCreate, Goto
<1>1. id' = id /\ killed' = killed
  BY DEF ConnectCreate, history
<1>2. \A r \in Processes : pc'[r] = IF r = p THEN "attach" ELSE pc[r]
  BY <1>0, <1>t
<1>3. OneAtATime'
  BY <1>0, <1>1, <1>2 DEF NameInv, OneAtATime
<1>o. \A r \in Processes : r # p /\ id[r] = id[p] /\ id[r] \notin Shared => pc[r] = "gone"
  BY <1>0 DEF NameInv, OneAtATime
<1>g. \A r \in Processes : reply[r] # NoQueue => pc[r] # "gone" /\ id[r] \in Ids
  BY StartedHasId DEF Base, ProcessInv, Connected
<1>4. CASE link[id[p]] = NoQueue
  <2>1. /\ \A c \in Ids : link'[c] = IF c = id[p] THEN p ELSE link[c]
        /\ \A r \in Processes : reply'[r] = IF r = p THEN p ELSE reply[r]
        /\ \A r \in Processes : owns'[r] = IF r = p THEN TRUE ELSE owns[r]
    BY <1>0, <1>4, <1>t DEF ConnectCreate
  <2>2. LinkHasCreator'
    BY <1>0, <1>1, <1>2, <1>t, <2>1 DEF NameInv, LinkHasCreator, Connected
  <2>3. OpensOwnId'
    BY <1>1, <2>1 DEF NameInv, OpensOwnId
  <2>4. NothingToOpen'
    <3> SUFFICES ASSUME NEW r \in Processes, pc'[r] = "create", id[r] \notin Shared
                 PROVE  link'[id[r]] = NoQueue
      BY <1>1 DEF NothingToOpen
    <3>1. r # p /\ id[r] \in Ids /\ pc[r] = "create"
      BY <1>2, StartedHasId
    <3> QED
      BY <1>o, <2>1, <3>1 DEF NameInv, NothingToOpen
  <2>5. OpensOwnQueue'
    BY <1>1, <1>0, <1>o, <1>g, <2>1 DEF NameInv, OpensOwnQueue
  <2> QED
    BY <1>3, <2>2, <2>3, <2>4, <2>5 DEF NameInv
<1>5. CASE link[id[p]] # NoQueue
  <2>1. /\ link' = link /\ owns' = owns
        /\ \A r \in Processes : reply'[r] = IF r = p THEN link[id[p]] ELSE reply[r]
    BY <1>0, <1>5, <1>t DEF ConnectCreate
  <2>2. LinkHasCreator'
    BY <1>0, <1>1, <1>2, <1>t, <2>1 DEF NameInv, LinkHasCreator, Connected
  <2>3. OpensOwnId'
    BY <1>0, <1>1, <1>5, <2>1 DEF NameInv, OpensOwnId, LinkHasCreator
  <2>4. NothingToOpen'
    BY <1>1, <1>2, <2>1 DEF NameInv, NothingToOpen
  <2>5. id[p] \in Shared
    BY <1>0, <1>5 DEF NameInv, NothingToOpen
  <2>6. OpensOwnQueue'
    BY <1>1, <2>1, <2>5 DEF NameInv, OpensOwnQueue
  <2> QED
    BY <1>3, <2>2, <2>3, <2>4, <2>6 DEF NameInv
<1> QED
  BY <1>4, <1>5

\* A process that ends without disconnect() leaves the name behind only if it
\* was killed: at main's end nothing is left to unlink.
LEMMA EndNames ==
  ASSUME Base, NameInv, NEW p \in Processes, p \in Running,
         pc' = [pc EXCEPT ![p] = "gone"],
         reply' = [reply EXCEPT ![p] = NoQueue],
         owns' = [owns EXCEPT ![p] = FALSE],
         UNCHANGED <<id, link>>,
         \/ pc[p] = "leaving" /\ killed' = killed
         \/ killed' = killed \cup {id[p]}
  PROVE  NameInv'
<1>t. /\ pc \in [Processes -> PCs] /\ reply \in [Processes -> Processes \cup {NoQueue}]
      /\ owns \in [Processes -> BOOLEAN] /\ link \in [Ids -> Processes \cup {NoQueue}]
  BY DEF Base, TypeOK, Queues
<1>1. /\ \A r \in Processes : pc'[r] = IF r = p THEN "gone" ELSE pc[r]
      /\ \A r \in Processes : reply'[r] = IF r = p THEN NoQueue ELSE reply[r]
      /\ \A r \in Processes : r # p => owns'[r] = owns[r]
  BY <1>t
<1>2. LinkHasCreator'
  BY <1>1, <1>t DEF NameInv, LinkHasCreator, Connected
<1>3. OpensOwnId' /\ OneAtATime' /\ NothingToOpen'
  BY <1>1 DEF NameInv, OpensOwnId, OneAtATime, NothingToOpen, Running
<1>4. OpensOwnQueue'
  BY <1>1 DEF NameInv, OpensOwnQueue
<1> QED
  BY <1>2, <1>3, <1>4 DEF NameInv

\* A new process is the only one alive with its id, unless the id is shared.
LEMMA BootNames ==
  ASSUME Base, NameInv, NEW p \in Processes, NEW c \in Ids, Boot(p, c)
  PROVE  NameInv'
<1>t. /\ pc \in [Processes -> PCs] /\ id \in [Processes -> Ids \cup {NoId}]
      /\ reply \in [Processes -> Processes \cup {NoQueue}]
      /\ link \in [Ids -> Processes \cup {NoQueue}] /\ NoId \notin Ids
  BY SessionAssumption DEF Base, TypeOK, Queues
<1>0. pc[p] = "new" /\ id[p] = NoId /\ reply[p] = NoQueue
  BY DEF Boot, Goto, Base, ProcessInv, Connected
<1>1. UNCHANGED <<reply, owns, link, killed>>
  BY DEF Boot, history
<1>2. /\ \A r \in Processes : pc'[r] = IF r = p THEN "unlink" ELSE pc[r]
      /\ \A r \in Processes : id'[r] = IF r = p THEN c ELSE id[r]
  BY <1>t DEF Boot, Goto
<1>3. LinkHasCreator'
  BY <1>0, <1>1, <1>2, <1>t DEF NameInv, LinkHasCreator, Connected
<1>4. OpensOwnId'
  <2>1. \A r \in Processes : reply[r] # NoQueue => id[r] \in Ids
    BY StartedHasId DEF Base, ProcessInv, Connected
  <2> QED
    BY <1>0, <1>1, <1>2, <1>t, <2>1 DEF NameInv, OpensOwnId
<1>5. OneAtATime'
  BY <1>1, <1>2 DEF NameInv, OneAtATime, Boot
<1>6. NothingToOpen'
  BY <1>1, <1>2 DEF NameInv, NothingToOpen
<1>7. OpensOwnQueue'
  BY <1>0, <1>1, <1>2 DEF NameInv, OpensOwnQueue
<1> QED
  BY <1>3, <1>4, <1>5, <1>6, <1>7 DEF NameInv

\* The quiet steps keep the names in order.
LEMMA QuietNames ==
  ASSUME Base, NameInv, NEW p \in Processes, Quiet(p)
  PROVE  NameInv'
<1> USE DEF Goto, history
<1>t. pc \in [Processes -> PCs]
  BY DEF Base, TypeOK
<1>1. ASSUME NEW c \in Ids, Boot(p, c) PROVE NameInv'
  BY <1>1, BootNames
<1>2. CASE ConnectUnlink(p)
  BY <1>2, DisconnectNames DEF ConnectUnlink, PCs, Connected
<1>3. CASE ConnectCreate(p)
  BY <1>3, CreateNames
<1>4. ASSUME NEW x \in {"idle", "leaving"}, pc' = [pc EXCEPT ![p] = x],
             pc[p] \in Connected <=> x \in Connected, pc[p] \notin {"new", "gone"},
             UNCHANGED <<id, reply, owns, link, killed>>
      PROVE  NameInv'
  <2>1. \A r \in Processes : pc'[r] = IF r = p THEN x ELSE pc[r]
    BY <1>4, <1>t
  <2>2. \A c \in Ids : link[c] # NoQueue => link[c] \in Processes
    BY DEF Base, TypeOK, Queues
  <2> QED
    BY <1>4, <2>1, <2>2
    DEF NameInv, LinkHasCreator, OpensOwnId, OneAtATime, NothingToOpen, OpensOwnQueue
<1>5. CASE ConnectAttach(p)
  BY <1>4, <1>5 DEF ConnectAttach, Connected
<1>6. CASE ClearActive(p)
  BY <1>4, <1>6 DEF ClearActive, Connected
<1>7. CASE ConnectFails(p)
  <2>1. CASE pc[p] = "create"
    BY <1>4, <1>7, <2>1 DEF ConnectFails, Connected
  <2>2. CASE pc[p] = "attach"
    BY <1>7, <2>2, DisconnectNames DEF ConnectFails, PCs, Connected
  <2> QED
    BY <1>7, <2>1, <2>2 DEF ConnectFails
<1>8. CASE handle_quit(p)
  BY <1>8, DisconnectNames DEF handle_quit, PCs, Connected
<1>9. CASE Destroy(p)
  BY <1>9, DisconnectNames DEF Destroy, PCs, Connected
<1>10. CASE signal_handler(p)
  <2>1. CASE pc[p] = "leaving"
    BY <1>10, <2>1, EndNames DEF signal_handler
  <2>2. CASE pc[p] # "leaving"
    BY <1>10, <2>2, DisconnectNames DEF signal_handler, Running, PCs, Connected
  <2> QED
    BY <2>1, <2>2
<1>11. CASE Kill(p)
  BY <1>11, EndNames DEF Kill
<1> QED
  BY <1>1, <1>2, <1>3, <1>5, <1>6, <1>7, <1>8, <1>9, <1>10, <1>11 DEF Quiet, Connecting

\* Which steps there are.
LEMMA Steps ==
  ASSUME Next
  PROVE  \/ \E p \in Processes : Quiet(p)
         \/ \E p \in Processes : send_request(p) \/ receive_response(p)
         \/ \E w \in Workers : Worker(w)
  BY DEF Next, Client, Quiet

\* Types and names, whatever processes, signals and workers do.
THEOREM NamesInOrder == Spec => [](Base /\ NameInv)
<1>1. Init => Base /\ NameInv
  <2> SUFFICES ASSUME Init PROVE Base /\ NameInv
    OBVIOUS
  <2>1. NameInv
    BY SessionAssumption
    DEF Init, NameInv, LinkHasCreator, OpensOwnId, OneAtATime, NothingToOpen, OpensOwnQueue
  <2> QED
    BY <2>1, InitNothing
<1>2. Base /\ NameInv /\ [Next]_vars => Base' /\ NameInv'
  <2>1. ASSUME Base, NameInv, Next PROVE Base' /\ NameInv'
    <3>1. CASE \E p \in Processes : Quiet(p)
      BY <2>1, <3>1, QuietBase, QuietNames
    <3>2. CASE \/ \E p \in Processes : send_request(p) \/ receive_response(p)
               \/ \E w \in Workers : Worker(w)
      BY <2>1, <3>2, MessageBase, MessageNames
    <3> QED
      BY <2>1, <3>1, <3>2, Steps
  <2>2. ASSUME Base, NameInv, UNCHANGED vars PROVE Base' /\ NameInv'
    <3>1. Base'
      BY <2>2 DEF vars, Base, TypeOK, ProcessInv, InFlight
    <3>2. NameInv'
      BY <2>2
      DEF vars, NameInv, LinkHasCreator, OpensOwnId, OneAtATime, NothingToOpen, OpensOwnQueue
    <3> QED
      BY <3>1, <3>2
  <2> QED
    BY <2>1, <2>2
<1> QED
  BY <1>1, <1>2, PTL DEF Spec

\* Type correctness of the client processes, the reply queues and the workers.
THEOREM TypeCorrect == Spec => []TypeOK
  BY NamesInOrder, PTL DEF Base

\* A restarted client never inherits a reply queue, even from a process that
\* was killed, and no other process has its queue open.
THEOREM ReplyQueueIsOwn == Spec => []OwnReplyQueue
<1>1. Base /\ NameInv => OwnReplyQueue
  <2> SUFFICES ASSUME Base, NameInv, NEW p \in Processes,
                      reply[p] # NoQueue, id[p] \notin Shared
               PROVE  /\ owns[p] /\ link[id[p]] = reply[p]
                      /\ \A r \in Processes : reply[r] = reply[p] => r = p
    BY DEF OwnReplyQueue
  <2>1. reply[p] = p /\ owns[p] /\ link[id[p]] = p
    BY DEF NameInv, OpensOwnQueue
  <2>2. \A r \in Processes : reply[r] # NoQueue => pc[r] \in Connected /\ id[r] \in Ids
    BY StartedHasId DEF Base, ProcessInv, Connected
  <2>3. ASSUME NEW r \in Processes, reply[r] = reply[p] PROVE r = p
    <3>1. id[r] = id[p]
      BY <2>1, <2>3 DEF NameInv, OpensOwnId
    <3> QED
      BY <2>2, <2>3, <3>1 DEF NameInv, OneAtATime, Connected
  <2> QED
    BY <2>1, <2>3
<1> QED
  BY <1>1, NamesInOrder, PTL

\* Whichever way the processes of an id end, short of SIGKILL, the name of
\* their reply queue goes with the last of them.
THEOREM NamesDoNotLeak == Spec => []NoReplyQueueLeft
<1>1. Base /\ NameInv => NoReplyQueueLeft
  <2> SUFFICES ASSUME Base, NameInv, NEW c \in Ids, link[c] # NoQueue, c \notin killed
               PROVE  \E p \in Running : id[p] = c
    BY DEF NoReplyQueueLeft
  <2>1. link[c] \in Processes /\ id[link[c]] = c /\ pc[link[c]] \in Connected
    BY DEF Base, TypeOK, Queues, NameInv, LinkHasCreator
  <2>2. link[c] \in Running
    BY <2>1 DEF Running, Connected
  <2> QED
    BY <2>1, <2>2
<1> QED
  BY <1>1, NamesInOrder, PTL

-----------------------------------------------------------------------------
(* Messages in flight.                                                     *)

\* The quiet steps leave messages alone, and give no id to a process that a
\* message or a queue already refers to.
LEMMA QuietFlight ==
  ASSUME Base, FlightInv, NEW p \in Processes, Quiet(p)
  PROVE  FlightInv'
<1>1. UNCHANGED <<content, requests, job, target>>
  BY QuietMessages
<1>2. InOnePlace'
  BY <1>1 DEF FlightInv, InOnePlace
<1>3. id' = id \/ (id[p] = NoId /\ pc[p] = "new" /\ \A r \in Processes : r # p => id'[r] = id[r])
  BY DEF Quiet, Boot, Connecting, ConnectUnlink, ConnectCreate, ConnectAttach, ConnectFails,
         handle_quit, ClearActive, Destroy, signal_handler, Kill, Goto, Base, TypeOK, ProcessInv
<1>n. NoId \notin Ids
  BY SessionAssumption
<1>4. ASSUME NEW q \in Queues, NEW m \in Contents(content[q]) PROVE id'[m.from] = id'[q]
  <2>1. m \in Messages /\ InFlight(m)
    BY MessageTypes DEF Base, InFlight
  <2>2. m.from \in Processes /\ id[m.from] \in Ids /\ pc[m.from] # "new"
    BY <2>1, SenderStarted
  <2>3. id[m.from] = id[q]
    BY DEF FlightInv, RightQueue
  <2> QED
    BY <1>3, <1>n, <2>2, <2>3 DEF Queues
<1>5. ASSUME NEW w \in Workers, target[w] # NoQueue PROVE id'[target[w]] = id'[job[w].from]
  <2>1. job[w] \in Messages /\ InFlight(job[w]) /\ target[w] \in Processes
    BY <1>5, MessageTypes DEF Base, TypeOK, ProcessInv, InFlight, Queues
  <2>2. job[w].from \in Processes /\ id[job[w].from] \in Ids /\ pc[job[w].from] # "new"
    BY <2>1, SenderStarted
  <2>3. id[target[w]] = id[job[w].from]
    BY <1>5 DEF FlightInv, RightQueue
  <2> QED
    BY <1>3, <1>n, <2>1, <2>2, <2>3
<1> QED
  BY <1>1, <1>2, <1>4, <1>5 DEF FlightInv, RightQueue

\* A new request has a number no message of its process has.
LEMMA SendKeepsFlight ==
  ASSUME Base, FlightInv, NEW p \in Processes, send_request(p)
  PROVE  FlightInv' /\ ~InFlight([from |-> p, request_id |-> request_id[p] + 1])
<1> DEFINE m == [from |-> p, request_id |-> request_id[p] + 1]
<1>1. /\ m \in Messages /\ m.from = p /\ m.request_id = request_id[p] + 1
      /\ Contents(requests') = Contents(requests) \cup {m}
      /\ Distinct(requests) /\ m \notin Contents(requests) => Distinct(requests')
  BY SendFlight
<1>2. UNCHANGED <<id, content, job, target>>
  BY DEF send_request, servervars
<1>m. m = [from |-> p, request_id |-> request_id[p] + 1]
  OBVIOUS
<1> HIDE DEF m
<1>3. ~InFlight(m)
  <2> SUFFICES ASSUME InFlight(m) PROVE FALSE
    OBVIOUS
  <2>1. m.request_id <= request_id[p] /\ request_id[p] \in Nat
    BY <1>1, SenderStarted DEF Base, TypeOK
  <2> QED
    BY <1>1, <2>1
<1>4. /\ m \notin Contents(requests) /\ \A w \in Workers : job[w] # m
      /\ \A q \in Queues : m \notin Contents(content[q])
  BY <1>3 DEF InFlight
<1>5. InOnePlace'
  BY <1>1, <1>2, <1>4 DEF FlightInv, InOnePlace
<1>6. RightQueue'
  BY <1>2 DEF FlightInv, RightQueue
<1> QED
  BY <1>3, <1>5, <1>6, <1>m DEF FlightInv

\* The answer a client receives is not in flight any more.
LEMMA ReceiveKeepsFlight ==
  ASSUME Base, FlightInv, NEW p \in Processes, receive_response(p)
  PROVE  LET m == Head(content[reply[p]])
         IN /\ FlightInv'
            /\ m \in Messages /\ InFlight(m) /\ id[m.from] = id[reply[p]]
            /\ \A x \in Messages : InFlight(x)' <=> InFlight(x) /\ x # m
<1> DEFINE q == reply[p]
           m == Head(content[q])
<1>1. /\ q \in Queues /\ m \in Messages
      /\ m \in Contents(content[q])
      /\ \A r \in Queues : r # q => content'[r] = content[r]
      /\ Contents(content[q]) = Contents(content'[q]) \cup {m}
      /\ Distinct(content[q]) => Distinct(content'[q]) /\ m \notin Contents(content'[q])
  BY ReceiveFlight
<1>2. UNCHANGED <<id, requests, job, target>>
  BY DEF receive_response, servervars
<1>d. q = reply[p] /\ m = Head(content[q])
  OBVIOUS
<1> HIDE DEF q, m
<1>3. Distinct(content'[q]) /\ m \notin Contents(content'[q])
  BY <1>1 DEF FlightInv, InOnePlace
<1>4. /\ \A r \in Queues : Contents(content'[r]) \subseteq Contents(content[r])
      /\ \A r \in Queues : Distinct(content'[r])
  BY <1>1, <1>3 DEF FlightInv, InOnePlace
<1>5. InOnePlace'
  BY <1>2, <1>4 DEF FlightInv, InOnePlace
<1>6. RightQueue'
  BY <1>2, <1>4 DEF FlightInv, RightQueue
<1>7. InFlight(m) /\ id[m.from] = id[q]
  BY <1>1 DEF InFlight, FlightInv, RightQueue
<1>8. ASSUME NEW x \in Messages PROVE InFlight(x)' <=> InFlight(x) /\ x # m
  <2>1. \A r \in Queues : x \in Contents(content'[r]) <=> x \in Contents(content[r]) /\ x # m
    BY <1>1, <1>3 DEF FlightInv, InOnePlace
  <2>2. m \notin Contents(requests) /\ \A w \in Workers : job[w] # m
    BY <1>1 DEF FlightInv, InOnePlace
  <2> QED
    BY <1>2, <2>1, <2>2 DEF InFlight
<1> QED
  BY <1>1, <1>5, <1>6, <1>7, <1>8, <1>d DEF FlightInv

\* A worker moves a request to itself, finds the queue of its sender's id and
\* moves the answer there, or drops it.
LEMMA WorkerKeepsFlight ==
  ASSUME Base, NameInv, FlightInv, NEW w \in Workers, Worker(w)
  PROVE  /\ FlightInv'
         /\ \A x \in Messages : InFlight(x)' => InFlight(x)
<1>t. NoMessage \notin Messages
  BY MessageTypes DEF Base
<1>y. /\ Contents(requests) \subseteq Messages
      /\ \A r \in Queues : Contents(content[r]) \subseteq Messages
  BY MessageTypes DEF Base
<1>1. CASE Take(w)
  <2> DEFINE m == Head(requests)
  <2>1. /\ m \in Messages
        /\ Contents(requests) = Contents(requests') \cup {m}
        /\ Distinct(requests) => Distinct(requests') /\ m \notin Contents(requests')
        /\ \A v \in Workers : job'[v] = IF v = w THEN m ELSE job[v]
        /\ \A x \in Messages : InFlight(x)' <=> InFlight(x)
    BY <1>1, TakeFlight
  <2>2. UNCHANGED <<id, content, target>> /\ job[w] = NoMessage
    BY <1>1 DEF Take, clientvars
  <2> HIDE DEF m
  <2>3. Distinct(requests') /\ m \notin Contents(requests')
    BY <2>1 DEF FlightInv, InOnePlace
  <2>4. \A q \in Queues : m \notin Contents(content[q])
    BY <2>1 DEF FlightInv, InOnePlace
  <2>5. \A v \in Workers : job[v] # m
    BY <2>1 DEF FlightInv, InOnePlace
  <2>6. InOnePlace'
    BY <2>1, <2>2, <2>3, <2>4, <2>5 DEF FlightInv, InOnePlace
  <2>7. target[w] = NoQueue
    BY <2>2 DEF Base, ProcessInv
  <2>8. RightQueue'
    BY <2>1, <2>2, <2>7 DEF FlightInv, RightQueue
  <2> QED
    BY <2>1, <2>6, <2>8 DEF FlightInv
<1>2. CASE OpenReply(w)
  <2> DEFINE q == link[id[job[w].from]]
  <2>1. /\ job[w] \in Messages /\ id[job[w].from] \in Ids
        /\ \A v \in Workers : target'[v] = IF v = w THEN q ELSE target[v]
        /\ \A v \in Workers : job'[v] = IF v = w /\ q = NoQueue THEN NoMessage ELSE job[v]
        /\ \A x \in Messages : InFlight(x)' => InFlight(x)
    BY <1>2, OpenFlight
  <2>2. UNCHANGED <<id, content, requests>>
    BY <1>2 DEF OpenReply, clientvars
  <2>3. q # NoQueue => id[q] = id[job[w].from]
    BY <2>1 DEF NameInv, LinkHasCreator
  <2> HIDE DEF q
  <2>4. InOnePlace'
    BY <1>t, <1>y, <2>1, <2>2 DEF FlightInv, InOnePlace
  <2>5. RightQueue'
    BY <2>1, <2>2, <2>3 DEF FlightInv, RightQueue
  <2> QED
    BY <2>1, <2>4, <2>5 DEF FlightInv
<1>3. CASE SendReply(w)
  <2> DEFINE m == job[w]
             q == target[w]
  <2>1. /\ q \in Queues /\ m \in Messages
        /\ \A r \in Queues : r # q => content'[r] = content[r]
        /\ Contents(content'[q]) = Contents(content[q]) \cup {m}
        /\ Distinct(content[q]) /\ m \notin Contents(content[q]) => Distinct(content'[q])
        /\ \A v \in Workers : /\ job'[v] = IF v = w THEN NoMessage ELSE job[v]
                              /\ target'[v] = IF v = w THEN NoQueue ELSE target[v]
        /\ \A x \in Messages : InFlight(x)' => InFlight(x)
    BY <1>3, ReplyFlight
  <2>2. UNCHANGED <<id, requests>>
    BY <1>3 DEF SendReply, clientvars
  <2>3. /\ m \notin Contents(requests)
        /\ \A r \in Queues : m \notin Contents(content[r])
        /\ \A v \in Workers : v # w => job[v] # m
        /\ q # NoQueue => id[q] = id[m.from]
    BY <1>t, <2>1 DEF FlightInv, InOnePlace, RightQueue
  <2>4. q # NoQueue
    BY <1>3 DEF SendReply
  <2> HIDE DEF m, q
  <2>5. \A r \in Queues : \A x \in Contents(content'[r]) : x \in Contents(content[r]) \/ (r = q /\ x = m)
    BY <2>1
  <2>6. \A r \in Queues : Distinct(content'[r])
    BY <2>1, <2>3 DEF FlightInv, InOnePlace
  <2>7. /\ \A v, u \in Workers : job'[v] = job'[u] /\ job'[v] # NoMessage => v = u
        /\ \A v \in Workers : job'[v] \notin Contents(requests')
    BY <1>t, <1>y, <2>1, <2>2 DEF FlightInv, InOnePlace
  <2>8. \A r \in Queues, v \in Workers : job'[v] \notin Contents(content'[r])
    BY <1>t, <1>y, <2>1, <2>3, <2>5 DEF FlightInv, InOnePlace
  <2>9. /\ \A r \in Queues : \A x \in Contents(content'[r]) : x \notin Contents(requests')
        /\ \A r, u \in Queues : \A x \in Contents(content'[r]) : x \in Contents(content'[u]) => r = u
    BY <2>2, <2>3, <2>5 DEF FlightInv, InOnePlace
  <2>10. Distinct(requests')
    BY <2>2 DEF FlightInv, InOnePlace
  <2>11. InOnePlace'
    BY <2>6, <2>7, <2>8, <2>9, <2>10 DEF InOnePlace
  <2>12. RightQueue'
    BY <2>1, <2>2, <2>3, <2>4, <2>5 DEF FlightInv, RightQueue
  <2> QED
    BY <2>1, <2>11, <2>12 DEF FlightInv
<1> QED
  BY <1>1, <1>2, <1>3 DEF Worker

\* At the start no message is in any place.
LEMMA InitFlight == Init => FlightInv
<1> SUFFICES ASSUME Init PROVE FlightInv
  OBVIOUS
<1>1. /\ Contents(requests) = {} /\ \A q \in Queues : Contents(content[q]) = {}
      /\ Distinct(requests) /\ \A q \in Queues : Distinct(content[q])
      /\ \A w \in Workers : job[w] = NoMessage /\ target[w] = NoQueue
  BY DEF Init, Contents, Distinct
<1> QED
  BY <1>1 DEF FlightInv, InOnePlace, RightQueue

\* FlightInv holds of every step.
LEMMA FlightStep ==
  ASSUME Base, NameInv, FlightInv, [Next]_vars
  PROVE  FlightInv'
<1>1. CASE Next
  BY <1>1, Steps, QuietFlight, SendKeepsFlight, ReceiveKeepsFlight, WorkerKeepsFlight
<1>2. CASE UNCHANGED vars
  BY <1>2 DEF vars, FlightInv, InOnePlace, RightQueue
<1> QED
  BY <1>1, <1>2

-----------------------------------------------------------------------------
(* A client with an id of its own.                                         *)

\* A quiet step does not bring a process to wait, and brings it to the prompt
\* only from connect(), before its first request.
LEMMA QuietOwn ==
  ASSUME Base, OwnInv, NEW p \in Processes, Quiet(p)
  PROVE  OwnInv'
<1>1. /\ UNCHANGED <<request_id, last>>
      /\ \A m : InFlight(m)' <=> InFlight(m)
  BY QuietMessages
<1>2. /\ \A r \in Processes : r # p => pc'[r] = pc[r] /\ id'[r] = id[r]
      /\ pc'[p] # "waiting"
      /\ pc'[p] = "idle" => pc[p] = "attach" /\ id' = id
  BY DEF Quiet, Boot, Connecting, ConnectUnlink, ConnectCreate, ConnectAttach, ConnectFails,
         handle_quit, ClearActive, Destroy, signal_handler, Kill, Goto, Base, TypeOK
<1>3. OwnIdIsUnique'
  <2>1. CASE id' = id
    BY <2>1 DEF OwnInv, OwnIdIsUnique
  <2>2. ASSUME NEW c \in Ids, Boot(p, c) PROVE OwnIdIsUnique'
    <3>1. \A r \in Processes : id'[r] = IF r = p THEN c ELSE id[r]
      BY <2>2 DEF Boot, Base, TypeOK
    <3>2. \A r \in Processes : id[r] = c => c \in Reused \cup Shared
      BY <2>2 DEF Boot
    <3> QED
      BY <3>1, <3>2 DEF OwnInv, OwnIdIsUnique, OwnIds
  <2> QED
    BY <2>1, <2>2
    DEF Quiet, Connecting, ConnectUnlink, ConnectCreate, ConnectAttach, ConnectFails,
        handle_quit, ClearActive, Destroy, signal_handler, Kill
<1>4. ASSUME NEW r \in Processes, id'[r] \in OwnIds PROVE Awaits(r)'
  <2>1. CASE r # p
    <3>1. Awaits(r)
      BY <1>2, <1>4, <2>1 DEF OwnInv
    <3> QED
      BY <1>1, <1>2, <2>1, <3>1 DEF Awaits, Answered
  <2>2. CASE r = p
    <3>1. pc[p] = "attach" => request_id[p] = 0 /\ \A m \in Messages : InFlight(m) => m.from # p
      BY SenderStarted DEF Base, ProcessInv
    <3> QED
      BY <1>1, <1>2, <2>2, <3>1 DEF Awaits
  <2> QED
    BY <2>1, <2>2
<1> QED
  BY <1>3, <1>4 DEF OwnInv

\* A request is sent when nothing of the client is in flight.
LEMMA SendOwn ==
  ASSUME Base, OwnInv, NEW p \in Processes, send_request(p)
  PROVE  OwnInv'
<1> DEFINE m == [from |-> p, request_id |-> request_id[p] + 1]
<1>1. /\ m \in Messages /\ m.from = p /\ m.request_id = request_id[p] + 1
      /\ \A x : InFlight(x)' <=> InFlight(x) \/ x = m
  BY SendFlight
<1> HIDE DEF m
<1>2. /\ id' = id /\ last' = last /\ pc[p] = "idle" /\ pc'[p] = "waiting"
      /\ request_id'[p] = request_id[p] + 1
      /\ \A r \in Processes : r # p => pc'[r] = pc[r] /\ request_id'[r] = request_id[r]
  BY DEF send_request, Goto, Base, TypeOK
<1>3. ASSUME NEW r \in Processes, id[r] \in OwnIds PROVE Awaits(r)'
  <2>0. Awaits(r)
    BY <1>3 DEF OwnInv
  <2>1. CASE r # p
    BY <1>1, <1>2, <2>0, <2>1 DEF Awaits, Answered
  <2>2. CASE r = p
    BY <1>1, <1>2, <2>0, <2>2 DEF Awaits
  <2> QED
    BY <2>1, <2>2
<1> QED
  BY <1>2, <1>3 DEF OwnInv, OwnIdIsUnique

\* What it receives is the answer it waits for, and then nothing is left.
LEMMA ReceiveOwn ==
  ASSUME Base, NameInv, FlightInv, OwnInv, NEW p \in Processes, receive_response(p)
  PROVE  OwnInv'
<1> DEFINE m == Head(content[reply[p]])
<1>1. /\ m \in Messages /\ InFlight(m) /\ id[m.from] = id[reply[p]]
      /\ \A x \in Messages : InFlight(x)' <=> InFlight(x) /\ x # m
  BY ReceiveKeepsFlight
<1>2. /\ id' = id /\ request_id' = request_id /\ pc[p] = "waiting" /\ pc'[p] = "idle"
      /\ last'[p] = m
      /\ \A r \in Processes : r # p => pc'[r] = pc[r] /\ last'[r] = last[r]
  BY DEF receive_response, Goto, Base, TypeOK
<1> HIDE DEF m
<1>3. id[m.from] = id[p] /\ m.from \in Processes
  BY <1>1, <1>2, ConnectedHasQueue, SessionAssumption
  DEF NameInv, OpensOwnId, Connected, Messages, Queues
<1>4. ASSUME NEW r \in Processes, id[r] \in OwnIds PROVE Awaits(r)'
  <2>0. Awaits(r)
    BY <1>4 DEF OwnInv
  <2>1. CASE r # p
    BY <1>1, <1>2, <2>0, <2>1 DEF Awaits, Answered
  <2>2. CASE r = p
    <3>1. m.from = p
      BY <1>3, <1>4, <2>2 DEF OwnInv, OwnIdIsUnique
    <3>2. \A x \in Messages : InFlight(x) /\ x.from = p => x.request_id = request_id[p]
      BY <1>2, <2>0, <2>2 DEF Awaits
    <3>3. \A x \in Messages : InFlight(x) /\ x.from = p => x = m
      BY <1>1, <3>1, <3>2 DEF Messages
    <3>4. m = [from |-> p, request_id |-> request_id[p]]
      BY <1>1, <3>1, <3>2 DEF Messages
    <3> QED
      BY <1>1, <1>2, <2>2, <3>3, <3>4 DEF Awaits, Answered
  <2> QED
    BY <2>1, <2>2
<1> QED
  BY <1>2, <1>4 DEF OwnInv, OwnIdIsUnique

\* A client whose id no other process uses takes no answer for the wrong
\* request, although responses are matched with requests by order alone.
THEOREM AnswersAreOwn == Spec => []OwnResponse
<1>1. Init => FlightInv /\ OwnInv
  <2> SUFFICES ASSUME Init PROVE FlightInv /\ OwnInv
    OBVIOUS
  <2>1. FlightInv
    BY InitFlight
  <2>2. OwnInv
    BY SessionAssumption DEF Init, OwnInv, OwnIdIsUnique, OwnIds
  <2> QED
    BY <2>1, <2>2
<1>2. Base /\ NameInv /\ FlightInv /\ OwnInv /\ [Next]_vars => OwnInv'
  <2> SUFFICES ASSUME Base, NameInv, FlightInv, OwnInv, [Next]_vars PROVE OwnInv'
    OBVIOUS
  <2>1. ASSUME NEW w \in Workers, Worker(w) PROVE OwnInv'
    <3>1. \A x \in Messages : InFlight(x)' => InFlight(x)
      BY <2>1, WorkerKeepsFlight
    <3>2. UNCHANGED <<pc, id, request_id, last>>
      BY <2>1 DEF Worker, Take, OpenReply, SendReply, clientvars
    <3> QED
      BY <3>1, <3>2 DEF OwnInv, OwnIdIsUnique, Awaits, Answered
  <2>2. CASE UNCHANGED vars
    BY <2>2 DEF vars, OwnInv, OwnIdIsUnique, Awaits, Answered, InFlight
  <2> QED
    BY <2>1, <2>2, Steps, QuietOwn, SendOwn, ReceiveOwn
<1>3. Base /\ OwnInv => OwnResponse
  <2> SUFFICES ASSUME Base, OwnInv, NEW p \in HasAnswer, id[p] \notin Reused \cup Shared
               PROVE  Answered(p)
    BY DEF OwnResponse
  <2>1. p \in Processes /\ pc[p] = "idle" /\ request_id[p] > 0
    BY DEF HasAnswer
  <2>2. id[p] \in OwnIds
    BY <2>1, StartedHasId DEF OwnIds
  <2> QED
    BY <2>1, <2>2 DEF OwnInv, Awaits
<1>4. Base /\ NameInv /\ FlightInv /\ [Next]_vars => FlightInv'
  BY FlightStep
<1> QED
  BY <1>1, <1>2, <1>3, <1>4, NamesInOrder, PTL DEF Spec

-----------------------------------------------------------------------------
(* What can fill a reply queue.                                            *)

\* A client that ends while it waits is counted as abandoned from then on.
LEMMA QuietSupply ==
  ASSUME Base, SupplyInv, NEW p \in Processes, Quiet(p)
  PROVE  SupplyInv'
<1>1. \A m : InFlight(m)' <=> InFlight(m)
  BY QuietMessages
<1>2. /\ \A r \in Processes : r # p => pc'[r] = pc[r] /\ id'[r] = id[r]
      /\ pc'[p] # "waiting" /\ pc[p] # "gone"
      /\ id'[p] = id[p] \/ pc[p] = "new"
  BY DEF Quiet, Boot, Connecting, ConnectUnlink, ConnectCreate, ConnectAttach, ConnectFails,
         handle_quit, ClearActive, Destroy, signal_handler, Kill, Goto, Running, Base, TypeOK
<1>3. /\ abandoned' = IF pc[p] = "waiting" THEN abandoned \cup {p} ELSE abandoned
      /\ pc[p] = "waiting" => pc'[p] = "gone"
  BY DEF Quiet, Boot, Connecting, ConnectUnlink, ConnectCreate, ConnectAttach, ConnectFails,
         handle_quit, ClearActive, Destroy, signal_handler, Kill, Goto, Abandon, history,
         Base, TypeOK
<1>t. abandoned \subseteq Processes /\ NoId \notin Ids
  BY SessionAssumption DEF Base, TypeOK
<1>4. \A r \in abandoned' : pc'[r] = "gone"
  BY <1>2, <1>3, <1>t DEF SupplyInv
<1>5. ASSUME NEW c \in Ids \ Shared PROVE Flying(c)' = Flying(c) /\ Owing(c)' = Owing(c)
  <2>1. ASSUME NEW m \in Messages, InFlight(m) PROVE id'[m.from] = id[m.from]
    BY <1>2, <2>1, SenderStarted
  <2>2. Flying(c)' = Flying(c)
    BY <1>1, <2>1 DEF Flying
  <2>3. \A r \in Processes : (id'[r] = c /\ (pc'[r] = "waiting" \/ r \in abandoned'))
                              <=> (id[r] = c /\ (pc[r] = "waiting" \/ r \in abandoned))
    BY <1>2, <1>3 DEF SupplyInv
  <2> QED
    BY <2>2, <2>3 DEF Owing
<1>6. ASSUME NEW c \in Ids \ Shared PROVE Covered(c)'
  BY <1>5 DEF SupplyInv, Covered
<1> QED
  BY <1>4, <1>6 DEF SupplyInv

\* A request more in flight, a process more that waits.
LEMMA SendSupply ==
  ASSUME Base, FlightInv, SupplyInv, NEW p \in Processes, send_request(p)
  PROVE  SupplyInv'
<1> DEFINE m == [from |-> p, request_id |-> request_id[p] + 1]
<1>1. /\ m \in Messages /\ m.from = p
      /\ \A x : InFlight(x)' <=> InFlight(x) \/ x = m
  BY SendFlight
<1>2. ~InFlight(m)
  BY SendKeepsFlight
<1> HIDE DEF m
<1>3. /\ id' = id /\ abandoned' = abandoned /\ pc[p] = "idle" /\ pc'[p] = "waiting"
      /\ \A r \in Processes : r # p => pc'[r] = pc[r]
      /\ abandoned \subseteq Processes
  BY DEF send_request, Goto, Base, TypeOK, history
<1>4. p \notin abandoned
  BY <1>3 DEF SupplyInv
<1>5. ASSUME NEW c \in Ids \ Shared PROVE Covered(c)'
  <2>1. Flying(c)' = {x \in Messages : (InFlight(x) \/ x = m) /\ id[x.from] = c}
    BY <1>1, <1>3 DEF Flying
  <2>2. CASE id[p] = c
    <3>1. Flying(c)' = Flying(c) \cup {m} /\ m \notin Flying(c)
      BY <1>1, <1>2, <2>1, <2>2 DEF Flying
    <3>2. Owing(c)' = Owing(c) \cup {p} /\ p \notin Owing(c)
      BY <1>3, <1>4, <2>2 DEF Owing
    <3>3. /\ IsFiniteSet(Flying(c)) /\ IsFiniteSet(Owing(c))
          /\ Cardinality(Flying(c)) <= Cardinality(Owing(c))
      BY DEF SupplyInv, Covered
    <3>4. /\ IsFiniteSet(Flying(c) \cup {m})
          /\ Cardinality(Flying(c) \cup {m}) = Cardinality(Flying(c)) + 1
          /\ IsFiniteSet(Owing(c) \cup {p})
          /\ Cardinality(Owing(c) \cup {p}) = Cardinality(Owing(c)) + 1
      BY <3>1, <3>2, <3>3, FS_AddElement
    <3>5. Cardinality(Flying(c)) \in Nat /\ Cardinality(Owing(c)) \in Nat
      BY <3>3, FS_CardinalityType
    <3>6. Cardinality(Flying(c) \cup {m}) <= Cardinality(Owing(c) \cup {p})
      BY <3>3, <3>4, <3>5
    <3> QED
      BY <3>1, <3>2, <3>4, <3>6 DEF Covered
  <2>3. CASE id[p] # c
    <3>1. Flying(c)' = Flying(c)
      BY <1>1, <2>1, <2>3 DEF Flying
    <3>2. Owing(c)' = Owing(c)
      BY <1>3, <2>3 DEF Owing
    <3> QED
      BY <3>1, <3>2 DEF SupplyInv, Covered
  <2> QED
    BY <2>2, <2>3
<1>6. \A r \in abandoned' : pc'[r] = "gone"
  BY <1>3, <1>4 DEF SupplyInv
<1> QED
  BY <1>5, <1>6 DEF SupplyInv

\* An answer less, a process less that waits.
LEMMA ReceiveSupply ==
  ASSUME Base, NameInv, FlightInv, SupplyInv, NEW p \in Processes, receive_response(p)
  PROVE  SupplyInv'
<1> DEFINE m == Head(content[reply[p]])
<1>1. /\ m \in Messages /\ InFlight(m) /\ id[m.from] = id[reply[p]]
      /\ \A x \in Messages : InFlight(x)' <=> InFlight(x) /\ x # m
  BY ReceiveKeepsFlight
<1> HIDE DEF m
<1>2. /\ id' = id /\ abandoned' = abandoned /\ pc[p] = "waiting" /\ pc'[p] = "idle"
      /\ \A r \in Processes : r # p => pc'[r] = pc[r]
      /\ abandoned \subseteq Processes
  BY DEF receive_response, Goto, Base, TypeOK, history
<1>3. id[m.from] = id[p]
  BY <1>1, <1>2, ConnectedHasQueue, SessionAssumption DEF NameInv, OpensOwnId, Connected, Queues
<1>4. p \notin abandoned
  BY <1>2 DEF SupplyInv
<1>5. ASSUME NEW c \in Ids \ Shared PROVE Covered(c)'
  <2>1. Flying(c)' = {x \in Messages : InFlight(x) /\ x # m /\ id[x.from] = c}
    BY <1>1, <1>2 DEF Flying
  <2>2. CASE id[p] = c
    <3>1. Flying(c)' = Flying(c) \ {m} /\ m \in Flying(c)
      BY <1>1, <1>3, <2>1, <2>2 DEF Flying
    <3>2. Owing(c)' = Owing(c) \ {p} /\ p \in Owing(c)
      BY <1>2, <1>4, <2>2 DEF Owing
    <3>3. /\ IsFiniteSet(Flying(c)) /\ IsFiniteSet(Owing(c))
          /\ Cardinality(Flying(c)) <= Cardinality(Owing(c))
      BY DEF SupplyInv, Covered
    <3>4. /\ IsFiniteSet(Flying(c) \ {m})
          /\ Cardinality(Flying(c) \ {m}) = Cardinality(Flying(c)) - 1
          /\ IsFiniteSet(Owing(c) \ {p})
          /\ Cardinality(Owing(c) \ {p}) = Cardinality(Owing(c)) - 1
      BY <3>1, <3>2, <3>3, FS_RemoveElement
    <3>5. Cardinality(Flying(c)) \in Nat /\ Cardinality(Owing(c)) \in Nat
      BY <3>3, FS_CardinalityType
    <3>6. Cardinality(Flying(c) \ {m}) <= Cardinality(Owing(c) \ {p})
      BY <3>3, <3>4, <3>5
    <3> QED
      BY <3>1, <3>2, <3>4, <3>6 DEF Covered
  <2>3. CASE id[p] # c
    <3>1. Flying(c)' = Flying(c)
      BY <1>3, <2>1, <2>3 DEF Flying
    <3>2. Owing(c)' = Owing(c)
      BY <1>2, <2>3 DEF Owing
    <3> QED
      BY <3>1, <3>2 DEF SupplyInv, Covered
  <2> QED
    BY <2>2, <2>3
<1>6. \A r \in abandoned' : pc'[r] = "gone"
  BY <1>2, <1>4 DEF SupplyInv
<1> QED
  BY <1>5, <1>6 DEF SupplyInv

\* The workers add nothing.
LEMMA WorkerSupply ==
  ASSUME Base, NameInv, FlightInv, SupplyInv, NEW w \in Workers, Worker(w)
  PROVE  SupplyInv'
<1>1. \A x \in Messages : InFlight(x)' => InFlight(x)
  BY WorkerKeepsFlight
<1>2. UNCHANGED <<pc, id, abandoned>>
  BY DEF Worker, Take, OpenReply, SendReply, clientvars, history
<1>3. ASSUME NEW c \in Ids \ Shared PROVE Covered(c)'
  <2>1. Owing(c)' = Owing(c)
    BY <1>2 DEF Owing
  <2>2. Flying(c)' \in SUBSET Flying(c)
    BY <1>1, <1>2 DEF Flying
  <2>3. /\ IsFiniteSet(Flying(c)) /\ IsFiniteSet(Owing(c))
        /\ Cardinality(Flying(c)) <= Cardinality(Owing(c))
    BY DEF SupplyInv, Covered
  <2>4. IsFiniteSet(Flying(c)') /\ Cardinality(Flying(c)') <= Cardinality(Flying(c))
    BY <2>2, <2>3, FS_Subset
  <2>5. /\ Cardinality(Flying(c)) \in Nat /\ Cardinality(Owing(c)) \in Nat
        /\ Cardinality(Flying(c)') \in Nat
    BY <2>3, <2>4, FS_CardinalityType
  <2> QED
    BY <2>1, <2>3, <2>4, <2>5 DEF Covered
<1> QED
  BY <1>2, <1>3 DEF SupplyInv

\* A queue without repetitions has as many messages as places taken.
LEMMA DistinctCounted ==
  ASSUME NEW S, NEW s \in Seq(S), Distinct(s)
  PROVE  IsFiniteSet(Contents(s)) /\ Cardinality(Contents(s)) = Len(s)
<1> DEFINE n == Len(s)
           f == [i \in 1..n |-> s[i]]
<1>0. n \in Nat
  OBVIOUS
<1>1. f \in Bijection(1..n, Contents(s))
  BY DEF Distinct, Contents, Bijection, Injection, Surjection, IsInjective
<1>2. ExistsBijection(1..n, Contents(s))
  BY <1>1 DEF ExistsBijection
<1>3. IsFiniteSet(1..n)
  BY <1>0, FS_Interval
<1> QED
  BY <1>0, <1>2, <1>3, FS_CountingElements, FS_Bijection

\* One process of an id may be at work, whose request is under way; every other
\* answer of that id in flight was abandoned.
LEMMA OneOwesAlive ==
  ASSUME Base, NameInv, SupplyInv, NEW c \in Ids \ Shared
  PROVE  /\ Cardinality({p \in abandoned : id[p] = c}) \in Nat
         /\ Cardinality(Owing(c)) \in Nat
         /\ Cardinality({p \in abandoned : id[p] = c}) + 1 >= Cardinality(Owing(c))
<1> DEFINE A == {p \in abandoned : id[p] = c}
<1>1. /\ IsFiniteSet(Owing(c))
      /\ \A p \in abandoned : pc[p] = "gone"
      /\ abandoned \subseteq Processes
  BY DEF SupplyInv, Covered, Base, TypeOK
<1>2. \A p, r \in Owing(c) : p \notin abandoned /\ r \notin abandoned => p = r
  BY DEF Owing, NameInv, OneAtATime
<1>3. A \subseteq Owing(c) /\ \A p \in Owing(c) : p \in A \/ p \notin abandoned
  BY <1>1 DEF Owing
<1>4. \A p \in A : p \in abandoned
  OBVIOUS
<1> HIDE DEF A
<1>5. Cardinality(Owing(c)) \in Nat /\ IsFiniteSet(A) /\ Cardinality(A) \in Nat
  BY <1>1, <1>3, FS_Subset, FS_CardinalityType
<1>6. Cardinality(A) + 1 >= Cardinality(Owing(c))
  <2>1. CASE Owing(c) = A
    BY <1>5, <2>1
  <2>2. CASE Owing(c) # A
    <3>1. PICK x \in Owing(c) : x \notin A
      BY <1>3, <2>2
    <3>2. A = Owing(c) \ {x}
      BY <1>2, <1>3, <1>4, <3>1
    <3>3. Cardinality(A) = Cardinality(Owing(c)) - 1
      BY <1>1, <3>1, <3>2, FS_RemoveElement
    <3> QED
      BY <1>5, <3>3
  <2> QED
    BY <2>1, <2>2
<1> QED
  BY <1>5, <1>6 DEF A

\* A worker held up holds an answer of the queue's id that is not in the queue,
\* and the queue's answers are all in flight.
LEMMA HeldUpAnswers ==
  ASSUME Base, FlightInv, NEW w \in Workers, HeldUp(w)
  PROVE  LET q == target[w] IN
         /\ q \in Queues /\ id[q] \in Ids
         /\ IsFiniteSet(Contents(content[q]))
         /\ Cardinality(Contents(content[q])) = Len(content[q])
         /\ Len(content[q]) \in Nat /\ Len(content[q]) >= ReplyMessages
         /\ Contents(content[q]) \in SUBSET Flying(id[q])
         /\ job[w] \in Flying(id[q])
         /\ \A v \in Workers : job[v] \notin Contents(content[q])
<1> DEFINE q == target[w]
<1>1. q \in Queues /\ q # NoQueue /\ Len(content[q]) >= ReplyMessages /\ content[q] \in Seq(Messages)
  BY DEF HeldUp, Base, TypeOK
<1>2. job[w] \in Messages /\ InFlight(job[w]) /\ id[job[w].from] = id[q]
  BY <1>1, MessageTypes DEF Base, ProcessInv, InFlight, FlightInv, RightQueue
<1>3. id[q] \in Ids
  BY <1>2, SenderStarted
<1>4. /\ Contents(content[q]) \subseteq Messages
      /\ \A m \in Contents(content[q]) : InFlight(m) /\ id[m.from] = id[q]
      /\ \A v \in Workers : job[v] \notin Contents(content[q])
  BY <1>1, MessageTypes DEF Base, InFlight, FlightInv, InOnePlace, RightQueue
<1>5. /\ IsFiniteSet(Contents(content[q]))
      /\ Cardinality(Contents(content[q])) = Len(content[q])
  BY <1>1, DistinctCounted DEF FlightInv, InOnePlace
<1> QED
  BY <1>1, <1>2, <1>3, <1>4, <1>5 DEF Flying

\* A full reply queue and the answer that does not fit are more messages than
\* the one process at work accounts for; the others were abandoned.
LEMMA FullQueueIsAbandoned ==
  ASSUME Base, NameInv, FlightInv, SupplyInv
  PROVE  HeldUpByAbandoned
<1> SUFFICES ASSUME NEW w \in Workers, HeldUp(w), id[target[w]] \notin Shared
             PROVE  Cardinality({p \in abandoned : id[p] = id[target[w]]}) >= ReplyMessages
  BY DEF HeldUpByAbandoned
<1> DEFINE q == target[w]
           c == id[q]
           C == Contents(content[q])
<1>1. /\ c \in Ids \ Shared /\ IsFiniteSet(C) /\ Cardinality(C) = Len(content[q])
      /\ Len(content[q]) \in Nat /\ Len(content[q]) >= ReplyMessages
      /\ C \in SUBSET Flying(c) /\ job[w] \in Flying(c) /\ job[w] \notin C
  BY HeldUpAnswers
<1>2. /\ Cardinality({p \in abandoned : id[p] = c}) \in Nat
      /\ Cardinality(Owing(c)) \in Nat
      /\ Cardinality({p \in abandoned : id[p] = c}) + 1 >= Cardinality(Owing(c))
  BY <1>1, OneOwesAlive
<1>3. IsFiniteSet(Flying(c)) /\ Cardinality(Flying(c)) <= Cardinality(Owing(c))
  BY <1>1 DEF SupplyInv, Covered
<1> HIDE DEF c, C, q
<1>4. Cardinality(C \cup {job[w]}) = Len(content[q]) + 1
  BY <1>1, FS_AddElement
<1>5. /\ Cardinality(C \cup {job[w]}) <= Cardinality(Flying(c))
      /\ Cardinality(Flying(c)) \in Nat
  BY <1>1, <1>3, FS_Subset, FS_CardinalityType
<1>6. Cardinality({p \in abandoned : id[p] = c}) >= ReplyMessages
  BY <1>1, <1>2, <1>3, <1>4, <1>5, SessionAssumption
<1> QED
  BY <1>6 DEF c, q

\* The server hangs with every worker held up at reply queues of one id: then
\* as many processes of that id were ended in the middle of a request as a
\* reply queue has places and the server workers, but for one that may still be
\* at work.
HangTakesAbandoned ==
  \A c \in Ids \ Shared :
    Workers # {} /\ (\A w \in Workers : HeldUp(w) /\ id[target[w]] = c) =>
      Cardinality({p \in abandoned : id[p] = c}) + 1 >= ReplyMessages + Cardinality(Workers)

LEMMA HangIsAbandoned ==
  ASSUME Base, NameInv, FlightInv, SupplyInv
  PROVE  HangTakesAbandoned
<1> SUFFICES ASSUME NEW c \in Ids \ Shared, NEW w \in Workers,
                    \A v \in Workers : HeldUp(v) /\ id[target[v]] = c
             PROVE  Cardinality({p \in abandoned : id[p] = c}) + 1
                      >= ReplyMessages + Cardinality(Workers)
  BY DEF HangTakesAbandoned
<1> DEFINE C == Contents(content[target[w]])
           J == {job[v] : v \in Workers}
           n == Len(content[target[w]])
           f == [v \in Workers |-> job[v]]
<1>1. /\ IsFiniteSet(C) /\ Cardinality(C) = n /\ n \in Nat /\ n >= ReplyMessages
      /\ C \in SUBSET Flying(c)
      /\ \A v \in Workers : job[v] \notin C
  BY HeldUpAnswers
<1>2. J \in SUBSET Flying(c)
  BY HeldUpAnswers
<1>3. /\ Cardinality({p \in abandoned : id[p] = c}) \in Nat
      /\ Cardinality(Owing(c)) \in Nat
      /\ Cardinality({p \in abandoned : id[p] = c}) + 1 >= Cardinality(Owing(c))
  BY OneOwesAlive
<1>4. IsFiniteSet(Flying(c)) /\ Cardinality(Flying(c)) <= Cardinality(Owing(c))
  BY DEF SupplyInv, Covered
<1>5. \A v \in Workers : job[v] # NoMessage
  BY DEF HeldUp, Base, ProcessInv
<1>6. f \in Bijection(Workers, J)
  BY <1>5 DEF FlightInv, InOnePlace, Bijection, Injection, Surjection, IsInjective
<1>7. IsFiniteSet(J)
  BY <1>2, <1>4, FS_Subset
<1>8. f \in Injection(Workers, J) /\ f \in Surjection(Workers, J)
  BY <1>6 DEF Bijection
<1> HIDE DEF C, J, n, f
<1>9. IsFiniteSet(Workers) /\ Cardinality(J) = Cardinality(Workers)
  BY <1>7, <1>8, FS_Injection
<1>10. C \cap J = {}
  BY <1>1 DEF J
<1>11. Cardinality(C \cup J) = n + Cardinality(Workers)
  <2>1. Cardinality(C \cup J) = Cardinality(C) + Cardinality(J) - Cardinality(C \cap J)
    BY <1>1, <1>7, FS_Union
  <2>2. Cardinality(C \cap J) = 0
    BY <1>10, FS_EmptySet
  <2>3. Cardinality(Workers) \in Nat
    BY <1>9, FS_CardinalityType
  <2> QED
    BY <1>1, <1>9, <2>1, <2>2, <2>3
<1>12. C \cup J \in SUBSET Flying(c)
  BY <1>1, <1>2
<1>13. /\ Cardinality(C \cup J) <= Cardinality(Flying(c))
       /\ Cardinality(Flying(c)) \in Nat /\ Cardinality(Workers) \in Nat
  BY <1>4, <1>9, <1>12, FS_Subset, FS_CardinalityType
<1> QED
  BY <1>1, <1>3, <1>4, <1>11, <1>13, SessionAssumption

\* The messages in flight are counted at every step.
LEMMA SupplyCounted == Spec => [](Base /\ NameInv /\ FlightInv /\ SupplyInv)
<1>1. Init => FlightInv /\ SupplyInv
  <2> SUFFICES ASSUME Init PROVE FlightInv /\ SupplyInv
    OBVIOUS
  <2>1. FlightInv
    BY InitFlight
  <2>2. IsFiniteSet({}) /\ Cardinality({}) = 0
    BY FS_EmptySet
  <2>3. ASSUME NEW c \in Ids PROVE Covered(c)
    <3>1. Flying(c) = {} /\ Owing(c) = {}
      BY InitNothing DEF Init, Flying, Owing
    <3> QED
      BY <2>2, <3>1 DEF Covered
  <2>4. abandoned = {}
    BY DEF Init
  <2> QED
    BY <2>1, <2>3, <2>4 DEF SupplyInv
<1>2. Base /\ NameInv /\ FlightInv /\ SupplyInv /\ [Next]_vars => SupplyInv'
  <2> SUFFICES ASSUME Base, NameInv, FlightInv, SupplyInv, [Next]_vars PROVE SupplyInv'
    OBVIOUS
  <2>1. CASE UNCHANGED vars
    <3>1. \A c \in Ids : Flying(c)' = Flying(c) /\ Owing(c)' = Owing(c)
      BY <2>1 DEF vars, Flying, Owing, InFlight
    <3> QED
      BY <2>1, <3>1 DEF vars, SupplyInv, Covered
  <2> QED
    BY <2>1, Steps, QuietSupply, SendSupply, ReceiveSupply, WorkerSupply
<1>3. Base /\ NameInv /\ FlightInv /\ [Next]_vars => FlightInv'
  BY FlightStep
<1> QED
  BY <1>1, <1>2, <1>3, NamesInOrder, PTL DEF Spec

\* No client at work fills its own reply queue: a worker is held up only after
\* as many processes of the id as the queue has places were ended in the
\* middle of a request.
THEOREM OnlyAbandonedHoldUp == Spec => []HeldUpByAbandoned
<1>1. Base /\ NameInv /\ FlightInv /\ SupplyInv => HeldUpByAbandoned
  BY FullQueueIsAbandoned
<1> QED
  BY <1>1, SupplyCounted, PTL

\* All workers can be held up at one id's reply queues only after as many of its
\* processes were ended in the middle of a request as a reply queue has places
\* and the server workers, but for one that may still be at work.
THEOREM HangTakesManyAbandoned == Spec => []HangTakesAbandoned
<1>1. Base /\ NameInv /\ FlightInv /\ SupplyInv => HangTakesAbandoned
  BY HangIsAbandoned
<1> QED
  BY <1>1, SupplyCounted, PTL
=============================================================================
