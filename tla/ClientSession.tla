--------------------------- MODULE ClientSession ---------------------------
(***************************************************************************)
(* Client processes and the reply path: main of the client, Client's       *)
(* connect, send_request, receive_response and disconnect, its signal      *)
(* handler, and the server workers' look-up of the reply queue.            *)
(*                                                                         *)
(* A reply queue is found by its name, which depends on the client id      *)
(* only, and a worker looks it up when it answers.  So what matters is     *)
(* which kernel queue the name leads to at that moment, and how often the  *)
(* same id is started, interrupted or killed around it.  The server itself *)
(* is up all the time here; its start and stop are module Server.          *)
(***************************************************************************)
EXTENDS Naturals, Sequences, FiniteSets

CONSTANTS
  Processes,          \* runs of the client program, numbered
  Ids,                \* client ids
  Reused,             \* ids used again after their process has ended
  Shared,             \* ids that processes use at the same time
  NoId,               \* the id of a process not yet started
  Workers,            \* server worker threads
  NoQueue,
  NoMessage,
  MaxRequests,        \* bound: requests a process sends
  Plans,              \* bound: the ways in which the program may be used
  MaxMessages,        \* max_messages of the request queue
  ReplyMessages       \* reply_config.max_messages

ASSUME SessionAssumption ==
  /\ Reused \subseteq Ids /\ Shared \subseteq Ids
  /\ NoId \notin Ids
  /\ Processes \subseteq Nat
  /\ Plans \subseteq [Processes -> [id : Ids \cup {NoId}, requests : Nat]]
  /\ NoQueue \notin Processes
  /\ MaxRequests \in Nat /\ MaxMessages \in Nat \ {0} /\ ReplyMessages \in Nat \ {0}
  /\ NoMessage \notin [from : Processes, request_id : 1..MaxRequests]

VARIABLES
  pc,                 \* where each client process is
  id,                 \* client_id_, from the command line
  reply,              \* the queue reply_queue_ has open
  owns,               \* reply_queue_.owns_queue_
  request_id,         \* requests sent so far (next_request_id_ - 1)
  last,               \* the response it received last
  link,               \* kernel: the queue an id's reply queue name leads to
  content,            \* kernel: the messages in a reply queue
  requests,           \* the server's request queue
  job,                \* the request a worker is processing
  target,             \* the reply queue a worker has opened
  killed,             \* history: ids of processes that died without cleaning up
  abandoned           \* history: processes that ended while they waited

history == <<killed, abandoned>>
clientvars == <<pc, id, reply, owns, request_id, last, history>>
servervars == <<job, target>>
vars == <<pc, id, reply, owns, request_id, last, link, content, requests, job, target,
          killed, abandoned>>

\* A request and its response are named by the process and its request_id;
\* on the wire only id[from] is there.
Messages == [from : Processes, request_id : 1..MaxRequests]

\* A kernel queue is identified with the process that created it: a process
\* calls connect() once.
Queues == Processes

PCs == {"new", "unlink", "create", "attach", "idle", "waiting", "disconnected", "leaving", "gone"}
Running == {p \in Processes : pc[p] \notin {"new", "gone"}}

Init ==
  /\ pc = [p \in Processes |-> "new"]
  /\ id = [p \in Processes |-> NoId]
  /\ reply = [p \in Processes |-> NoQueue]
  /\ owns = [p \in Processes |-> FALSE]
  /\ request_id = [p \in Processes |-> 0]
  /\ last = [p \in Processes |-> NoMessage]
  /\ link = [c \in Ids |-> NoQueue]
  /\ content = [q \in Queues |-> <<>>]
  /\ requests = <<>>
  /\ job = [w \in Workers |-> NoMessage]
  /\ target = [w \in Workers |-> NoQueue]
  /\ killed = {}
  /\ abandoned = {}

\* Bound: the processes started so far and the requests they have sent are part
\* of a plan.  Processes of one id are numbered in the order they are started.
Follows(plan) ==
  \A p \in Processes : id[p] # NoId =>
    /\ id[p] = plan[p].id
    /\ request_id[p] <= plan[p].requests
    /\ \A r \in Processes : r < p /\ plan[r].id = id[p] => id[r] # NoId
Planned == \E plan \in Plans : Follows(plan)

Goto(p, at, next) == pc[p] = at /\ pc' = [pc EXCEPT ![p] = next]

\* disconnect(): both handles are closed, the reply queue's close() unlinks the
\* name if it is owned, and the name is then unlinked in any case.
Disconnect(p) ==
  /\ link' = [link EXCEPT ![id[p]] = NoQueue]
  /\ reply' = [reply EXCEPT ![p] = NoQueue]
  /\ owns' = [owns EXCEPT ![p] = FALSE]

-----------------------------------------------------------------------------
(* main and Client::connect.                                               *)

\* The user starts the program with id c; g_active_client is set and the
\* signal handlers are installed.
Boot(p, c) ==
  /\ Goto(p, "new", "unlink")
  /\ \A r \in Processes : id[r] = c => c \in Shared \/ (c \in Reused /\ pc[r] = "gone")
  /\ id' = [id EXCEPT ![p] = c]
  /\ UNCHANGED <<reply, owns, request_id, last, history, link, content, requests, servervars>>
  /\ Planned'

\* Slip: connect() does not remove what an earlier process left.
ConnectWithoutUnlink(p) ==
  /\ Goto(p, "unlink", "create")
  /\ UNCHANGED <<id, reply, owns, request_id, last, history, link, content, requests, servervars>>

\* connect(): disconnect() and the unlink of a reply queue left over.
ConnectUnlink(p) ==
  /\ Goto(p, "unlink", "create")
  /\ Disconnect(p)
  /\ UNCHANGED <<id, request_id, last, history, content, requests, servervars>>

\* connect(): open_or_create.
ConnectCreate(p) ==
  LET c == id[p]
  IN /\ Goto(p, "create", "attach")
     /\ \/ /\ link[c] = NoQueue
           /\ link' = [link EXCEPT ![c] = p]
           /\ reply' = [reply EXCEPT ![p] = p]
           /\ owns' = [owns EXCEPT ![p] = TRUE]
        \/ /\ link[c] # NoQueue
           /\ reply' = [reply EXCEPT ![p] = link[c]]
           /\ UNCHANGED <<link, owns>>
     /\ UNCHANGED <<id, request_id, last, history, content, requests, servervars>>

\* connect(): open_write_only(server queue).
ConnectAttach(p) ==
  /\ Goto(p, "attach", "idle")
  /\ UNCHANGED <<id, reply, owns, request_id, last, history, link, content, requests, servervars>>

\* Slip: a connect() that finds no server leaves the reply queue to ~Client.
ConnectFailsLate(p) ==
  /\ Goto(p, "create", "leaving") \/ Goto(p, "attach", "leaving")
  /\ UNCHANGED <<id, reply, owns, request_id, last, history, link, content, requests, servervars>>

\* connect() returns false: no reply queue, or no server queue, and then the
\* reply queue is closed and unlinked again.  main clears g_active_client.
ConnectFails(p) ==
  /\ \/ Goto(p, "create", "leaving") /\ UNCHANGED <<link, reply, owns>>
     \/ Goto(p, "attach", "leaving") /\ Disconnect(p)
  /\ UNCHANGED <<id, request_id, last, history, content, requests, servervars>>

-----------------------------------------------------------------------------
(* A request, whichever: request_*(), each a send and a blocking receive.  *)

\* Slip: the request carries the id before it is counted.
send_request_uncounted(p) ==
  /\ Goto(p, "idle", "waiting")
  /\ request_id[p] < MaxRequests
  /\ Len(requests) < MaxMessages
  /\ request_id' = [request_id EXCEPT ![p] = @ + 1]
  /\ requests' = Append(requests, [from |-> p, request_id |-> request_id[p]])
  /\ UNCHANGED <<id, reply, owns, last, history, link, content, servervars>>
  /\ Planned'

send_request(p) ==
  /\ Goto(p, "idle", "waiting")
  /\ request_id[p] < MaxRequests
  /\ Len(requests) < MaxMessages
  /\ request_id' = [request_id EXCEPT ![p] = @ + 1]
  /\ requests' = Append(requests, [from |-> p, request_id |-> request_id[p] + 1])
  /\ UNCHANGED <<id, reply, owns, last, history, link, content, servervars>>
  /\ Planned'

\* The response's request_id is not compared with the request's.
receive_response(p) ==
  /\ Goto(p, "waiting", "idle")
  /\ content[reply[p]] # <<>>
  /\ last' = [last EXCEPT ![p] = Head(content[reply[p]])]
  /\ content' = [content EXCEPT ![reply[p]] = Tail(@)]
  /\ UNCHANGED <<id, reply, owns, request_id, history, link, requests, servervars>>

-----------------------------------------------------------------------------
(* The ends of a process.                                                  *)

\* handle_quit: the answer to QUIT is in, disconnect() follows.
handle_quit(p) ==
  /\ Goto(p, "idle", "disconnected")
  /\ Disconnect(p)
  /\ UNCHANGED <<id, request_id, last, history, content, requests, servervars>>

\* main: g_active_client = nullptr.
ClearActive(p) ==
  /\ Goto(p, "disconnected", "leaving")
  /\ UNCHANGED <<id, reply, owns, request_id, last, history, link, content, requests, servervars>>

\* ~Client: disconnect() once more.
Destroy(p) ==
  /\ Goto(p, "leaving", "gone")
  /\ Disconnect(p)
  /\ UNCHANGED <<id, request_id, last, history, content, requests, servervars>>

Abandon(p) == abandoned' = IF pc[p] = "waiting" THEN abandoned \cup {p} ELSE abandoned

\* SIGINT or SIGTERM: disconnect() unless g_active_client is null, then _Exit.
signal_handler(p) ==
  /\ p \in Running
  /\ pc' = [pc EXCEPT ![p] = "gone"]
  /\ IF pc[p] # "leaving"
       THEN Disconnect(p)
       ELSE /\ reply' = [reply EXCEPT ![p] = NoQueue]
            /\ owns' = [owns EXCEPT ![p] = FALSE]
            /\ UNCHANGED link
  /\ Abandon(p)
  /\ UNCHANGED <<id, request_id, last, killed, content, requests, servervars>>

\* SIGKILL or a crash: the kernel closes the descriptors, the name stays.
Kill(p) ==
  /\ p \in Running
  /\ pc' = [pc EXCEPT ![p] = "gone"]
  /\ reply' = [reply EXCEPT ![p] = NoQueue]
  /\ owns' = [owns EXCEPT ![p] = FALSE]
  /\ killed' = killed \cup {id[p]}
  /\ Abandon(p)
  /\ UNCHANGED <<id, request_id, last, link, content, requests, servervars>>

-----------------------------------------------------------------------------
(* A server worker: receive, process, open_write_only(reply_queue_name),   *)
(* send.  It blocks while the reply queue is full.                         *)

\* Slip: receive() refuses the message it has taken out of the queue.
TakeOrRefuse(w) ==
  /\ job[w] = NoMessage
  /\ requests # <<>>
  /\ job' \in {job, [job EXCEPT ![w] = Head(requests)]}
  /\ requests' = Tail(requests)
  /\ UNCHANGED <<clientvars, link, content, target>>

Take(w) ==
  /\ job[w] = NoMessage
  /\ requests # <<>>
  /\ job' = [job EXCEPT ![w] = Head(requests)]
  /\ requests' = Tail(requests)
  /\ UNCHANGED <<clientvars, link, content, target>>

ReplyQueueOf(m) == link[id[m.from]]

OpenReply(w) ==
  /\ job[w] # NoMessage
  /\ target[w] = NoQueue
  /\ target' = [target EXCEPT ![w] = ReplyQueueOf(job[w])]
  /\ job' = [job EXCEPT ![w] = IF ReplyQueueOf(@) = NoQueue THEN NoMessage ELSE @]
  /\ UNCHANGED <<clientvars, link, content, requests>>

\* Slip: the send is repeated although it succeeded.
SendReplyTwice(w) ==
  /\ target[w] # NoQueue
  /\ Len(content[target[w]]) < ReplyMessages
  /\ content' = [content EXCEPT ![target[w]] = @ \o <<job[w], job[w]>>]
  /\ job' = [job EXCEPT ![w] = NoMessage]
  /\ target' = [target EXCEPT ![w] = NoQueue]
  /\ UNCHANGED <<clientvars, link, requests>>

SendReply(w) ==
  /\ target[w] # NoQueue
  /\ Len(content[target[w]]) < ReplyMessages
  /\ content' = [content EXCEPT ![target[w]] = Append(@, job[w])]
  /\ job' = [job EXCEPT ![w] = NoMessage]
  /\ target' = [target EXCEPT ![w] = NoQueue]
  /\ UNCHANGED <<clientvars, link, requests>>

Worker(w) == Take(w) \/ OpenReply(w) \/ SendReply(w)

Connecting(p) == ConnectUnlink(p) \/ ConnectCreate(p) \/ ConnectAttach(p)

Client(p) ==
  \/ (\E c \in Ids : Boot(p, c))
  \/ Connecting(p) \/ ConnectFails(p)
  \/ send_request(p) \/ receive_response(p)
  \/ handle_quit(p) \/ ClearActive(p) \/ Destroy(p)
  \/ signal_handler(p) \/ Kill(p)

Next == (\E p \in Processes : Client(p)) \/ (\E w \in Workers : Worker(w))

\* The workers run, a process that was started gets through connect and main's
\* end, and a response in the reply queue is received.  Nothing makes a user
\* send or quit, and no signal has to come.
Fairness ==
  /\ \A w \in Workers : WF_vars(Worker(w))
  /\ \A p \in Processes :
       WF_vars(Connecting(p)) /\ WF_vars(receive_response(p))
         /\ WF_vars(ClearActive(p) \/ Destroy(p))

Spec == Init /\ [][Next]_vars /\ Fairness

-----------------------------------------------------------------------------
(* Properties.                                                             *)

\* Client, kernel and worker state hold values of their types.
TypeOK ==
  /\ pc \in [Processes -> PCs]
  /\ id \in [Processes -> Ids \cup {NoId}]
  /\ reply \in [Processes -> Queues \cup {NoQueue}]
  /\ owns \in [Processes -> BOOLEAN]
  /\ request_id \in [Processes -> 0..MaxRequests]
  /\ last \in [Processes -> Messages \cup {NoMessage}]
  /\ link \in [Ids -> Queues \cup {NoQueue}]
  /\ content \in [Queues -> Seq(Messages)]
  /\ requests \in Seq(Messages)
  /\ job \in [Workers -> Messages \cup {NoMessage}]
  /\ target \in [Workers -> Queues \cup {NoQueue}]
  /\ killed \subseteq Ids
  /\ abandoned \subseteq Processes

Answered(p) == last[p] = [from |-> p, request_id |-> request_id[p]]
HasAnswer   == {p \in Processes : pc[p] = "idle" /\ request_id[p] > 0}

\* The response a client takes as the answer to its request is the answer to
\* that request.  request_* pair them by order only, and the reply queue is
\* found by client id only.
ResponseMatches == \A p \in HasAnswer : Answered(p)

\* The same for a client whose id no other process uses, before, after or
\* with it: whatever other clients do, their answers do not get mixed up with
\* its own, nor the answers to its requests with each other.
OwnResponse == \A p \in HasAnswer : id[p] \notin Reused \cup Shared => Answered(p)

\* A worker is held up at a full reply queue only after as many processes of
\* that id as the queue has places were ended in the middle of a request: no
\* client at work fills its own reply queue.  With max_messages = 10 it takes
\* ten of them.
HeldUp(w) == target[w] # NoQueue /\ Len(content[target[w]]) >= ReplyMessages
HeldUpByAbandoned ==
  \A w \in Workers :
    HeldUp(w) /\ id[target[w]] \notin Shared =>
      Cardinality({p \in abandoned : id[p] = id[target[w]]}) >= ReplyMessages

\* No reply queue name outlives its clients: whichever way a process ends, at
\* whatever point of connect or of its exit a signal reaches it, the name is
\* gone unless a process of that id still runs or one was killed outright.
NoReplyQueueLeft ==
  \A c \in Ids :
    link[c] # NoQueue => c \in killed \/ \E p \in Running : id[p] = c

\* A restarted client never inherits the reply queue of an earlier process of
\* its id, even if that one was killed: what it opens is a queue it created,
\* as long as ids are used one process at a time.
OwnReplyQueue ==
  \A p \in Processes :
    reply[p] # NoQueue /\ id[p] \notin Shared =>
      /\ owns[p]
      /\ link[id[p]] = reply[p]
      /\ \A r \in Processes : reply[r] = reply[p] => r = p

\* The server hangs: every worker is held up.  Where the full queues are of ids
\* that are used one process at a time, this many clients were ended in the
\* middle of a request: one for each place of a reply queue and one for each
\* worker.  With ten places and three workers it takes thirteen of them.
ServerHangs ==
  /\ \A w \in Workers : HeldUp(w)
  /\ (\A w \in Workers : id[target[w]] \notin Shared) =>
       Cardinality(abandoned) >= ReplyMessages + Cardinality(Workers)

\* A client waits for an answer without a timeout, and in one case only it waits
\* for ever: when the server has come to hang for good.  Otherwise a response
\* comes, though perhaps a predecessor's, unless the process is ended first;
\* a client whose id is shared may have lost the name of its reply queue.
WaitEnds ==
  \/ <>[]ServerHangs
  \/ \A p \in Processes : (pc[p] = "waiting" /\ id[p] \notin Shared) ~> (pc[p] # "waiting")
=============================================================================
