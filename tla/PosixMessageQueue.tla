------------------------- MODULE PosixMessageQueue -------------------------
(***************************************************************************)
(* src/ipc/posix_message_queue.cpp: the C++ objects that hold message      *)
(* queue descriptors, next to the kernel state they act on.  An object     *)
(* closes its descriptor and, when it created the queue, unlinks its name; *)
(* moves hand both duties over.  The kernel reuses descriptor numbers and  *)
(* lets a queue live on without a name while somebody has it open.         *)
(*                                                                         *)
(* send and receive move messages only and are part of Server and          *)
(* ClientSession.                                                          *)
(***************************************************************************)
CONSTANTS
  Objects,          \* places for a PosixMessageQueue object
  Names,            \* queue names is_valid_posix_queue_name accepts
  Configs,          \* QueueConfigs with positive attributes
  Queues,           \* identities of kernel queues
  Descriptors,      \* what mq_open can return
  NoName,           \* an invalid or moved-from name
  NoConfig,         \* a QueueConfig with a non-positive attribute
  NoQueue,
  kInvalidMqd,      \* -1
  Troubled          \* names mq_unlink may fail on (EACCES), and which others
                    \* remove with the static PosixMessageQueue::unlink

ASSUME QueueAssumption ==
  /\ NoName \notin Names
  /\ NoConfig \notin Configs
  /\ NoQueue \notin Queues
  /\ kInvalidMqd \notin Descriptors
  /\ Troubled \subseteq Names

VARIABLES
  obj,              \* the objects
  link,             \* kernel: the queue a name leads to
  geometry,         \* kernel: the attributes a queue was created with
  open              \* kernel: the queue a descriptor refers to

vars == <<obj, link, geometry, open>>

\* config is history: the QueueConfig open_or_create was called with.
Object == [live : BOOLEAN, descriptor : Descriptors \cup {kInvalidMqd},
           name : Names \cup {NoName}, owns : BOOLEAN, config : Configs \cup {NoConfig}]

Dead == [live |-> FALSE, descriptor |-> kInvalidMqd, name |-> NoName,
         owns |-> FALSE, config |-> NoConfig]

\* What a failed factory returns and, with NoName, a default or moved-from object.
Unopened(n) == [live |-> TRUE, descriptor |-> kInvalidMqd, name |-> n,
                owns |-> FALSE, config |-> NoConfig]

is_open(o) == obj[o].descriptor # kInvalidMqd

Init ==
  /\ obj = [o \in Objects |-> Dead]
  /\ link = [n \in Names |-> NoQueue]
  /\ geometry \in [Queues -> Configs]
  /\ open = [d \in Descriptors |-> NoQueue]

-----------------------------------------------------------------------------
(* The kernel.                                                             *)

FreeDescriptors == {d \in Descriptors : open[d] = NoQueue}

\* A queue identity is free once it has neither a name nor a descriptor.
FreeQueues ==
  {q \in Queues : (\A n \in Names : link[n] # q) /\ (\A d \in Descriptors : open[d] # q)}

\* mq_close fails (EBADF) on a descriptor that is not open.
mq_close(d) == d \in Descriptors /\ open[d] # NoQueue

-----------------------------------------------------------------------------
(* Constructors and the three factories, which build a new object.         *)

Construct(o) ==
  /\ ~obj[o].live
  /\ obj' = [obj EXCEPT ![o] = Unopened(NoName)]
  /\ UNCHANGED <<link, geometry, open>>

\* An invalid argument, or an mq_open that fails: no descriptor left (EMFILE),
\* no permission, no such queue, a name unlinked between EEXIST and the second
\* mq_open, an existing queue of another geometry.
OpenFails(o, n) ==
  /\ ~obj[o].live
  /\ obj' = [obj EXCEPT ![o] = Unopened(n)]
  /\ UNCHANGED <<link, geometry, open>>

\* O_CREAT | O_EXCL succeeds: the caller owns the name.
Create(o, n, c, d, q) ==
  /\ ~obj[o].live
  /\ link[n] = NoQueue
  /\ d \in FreeDescriptors
  /\ q \in FreeQueues
  /\ obj' = [obj EXCEPT ![o] = [live |-> TRUE, descriptor |-> d, name |-> n,
                                owns |-> TRUE, config |-> c]]
  /\ link' = [link EXCEPT ![n] = q]
  /\ geometry' = [geometry EXCEPT ![q] = c]
  /\ open' = [open EXCEPT ![d] = q]

\* Slip: the attributes of the existing queue are not looked at.
GeometryUnchecked(n, c) == TRUE

\* EEXIST: the existing queue is used if its geometry is the one asked for.
GeometryMatches(n, c) == geometry[link[n]] = c

\* Slip: whoever opens the queue with open_or_create owns it.
OpenExistingOwned(o, n, c, d) ==
  /\ ~obj[o].live
  /\ link[n] # NoQueue
  /\ GeometryMatches(n, c)
  /\ d \in FreeDescriptors
  /\ obj' = [obj EXCEPT ![o] = [live |-> TRUE, descriptor |-> d, name |-> n,
                                owns |-> TRUE, config |-> c]]
  /\ open' = [open EXCEPT ![d] = link[n]]
  /\ UNCHANGED <<link, geometry>>

OpenExisting(o, n, c, d) ==
  /\ ~obj[o].live
  /\ link[n] # NoQueue
  /\ GeometryMatches(n, c)
  /\ d \in FreeDescriptors
  /\ obj' = [obj EXCEPT ![o] = [live |-> TRUE, descriptor |-> d, name |-> n,
                                owns |-> FALSE, config |-> c]]
  /\ open' = [open EXCEPT ![d] = link[n]]
  /\ UNCHANGED <<link, geometry>>

\* Slip: a QueueConfig is passed on unchecked.
open_or_create_any(o, n, c) ==
  \/ OpenFails(o, n)
  \/ /\ n \in Names
     /\ \E d \in Descriptors :
          \/ OpenExisting(o, n, c, d)
          \/ \E q \in Queues : Create(o, n, c, d, q)

open_or_create(o, n, c) ==
  \/ OpenFails(o, n)
  \/ /\ n \in Names /\ c \in Configs
     /\ \E d \in Descriptors :
          \/ OpenExisting(o, n, c, d)
          \/ \E q \in Queues : Create(o, n, c, d, q)

\* open_read_only and open_write_only take a queue of any geometry.
open_only(o, n) ==
  /\ ~obj[o].live
  /\ link[n] # NoQueue
  /\ \E d \in FreeDescriptors :
       /\ obj' = [obj EXCEPT ![o] = [live |-> TRUE, descriptor |-> d, name |-> n,
                                     owns |-> FALSE, config |-> NoConfig]]
       /\ open' = [open EXCEPT ![d] = link[n]]
  /\ UNCHANGED <<link, geometry>>

-----------------------------------------------------------------------------
(* close(): the descriptor first, then the name, whether or not the        *)
(* descriptor could be closed.  unlinked says whether mq_unlink succeeded; *)
(* a name that is already gone (ENOENT) counts as success.                 *)

UnlinkOutcomes(n) == IF n \in Troubled THEN BOOLEAN ELSE {TRUE}

\* Slip: ownership is given up even if mq_unlink failed.
ClosedForGood(x, unlinked) ==
  [x EXCEPT !.descriptor = IF mq_close(@) THEN kInvalidMqd ELSE @, !.owns = FALSE]

\* The object close() leaves; a name that could not be unlinked stays owned.
Closed(x, unlinked) ==
  [x EXCEPT !.descriptor = IF mq_close(@) THEN kInvalidMqd ELSE @,
            !.owns = @ /\ ~unlinked]

\* What close() of an object x does to the kernel.
CloseInKernel(x, unlinked) ==
  /\ open' = [d \in Descriptors |-> IF d = x.descriptor THEN NoQueue ELSE open[d]]
  /\ link' = [n \in Names |->
                IF x.owns /\ unlinked /\ n = x.name THEN NoQueue ELSE link[n]]
  /\ UNCHANGED geometry

Close(o, unlinked) ==
  /\ obj[o].live
  /\ obj' = [obj EXCEPT ![o] = Closed(obj[o], unlinked)]
  /\ CloseInKernel(obj[o], unlinked)

\* The destructor logs a failed close and the object is gone.
Destroy(o, unlinked) ==
  /\ obj[o].live
  /\ obj' = [obj EXCEPT ![o] = Dead]
  /\ CloseInKernel(obj[o], unlinked)

\* Slip: the source of a move keeps its descriptor.
MovedFromStillOpen(x) == [x EXCEPT !.owns = FALSE, !.name = NoName]

\* A moved-from object holds nothing; its name is unspecified and never used.
MovedFrom(x) ==
  [x EXCEPT !.descriptor = kInvalidMqd, !.owns = FALSE, !.name = NoName, !.config = NoConfig]

\* PosixMessageQueue o(std::move(p))
MoveConstruct(o, p) ==
  /\ ~obj[o].live
  /\ obj[p].live
  /\ obj' = [obj EXCEPT ![o] = obj[p], ![p] = MovedFrom(obj[p])]
  /\ UNCHANGED <<link, geometry, open>>

\* o = std::move(p): o is closed first, and a failure of that is only logged.
MoveAssign(o, p, unlinked) ==
  /\ o # p
  /\ obj[o].live
  /\ obj[p].live
  /\ obj' = [obj EXCEPT ![o] = obj[p], ![p] = MovedFrom(obj[p])]
  /\ CloseInKernel(obj[o], unlinked)

\* The static unlink, which Server::start, Server::stop, Client::connect and
\* Client::disconnect call on names no object of theirs need own.
Unlink(n) ==
  /\ link' = [link EXCEPT ![n] = NoQueue]
  /\ UNCHANGED <<obj, geometry, open>>

Next ==
  \/ \E o \in Objects :
       \/ Construct(o)
       \/ \E n \in Names \cup {NoName}, c \in Configs \cup {NoConfig} : open_or_create(o, n, c)
       \/ \E n \in Names : open_only(o, n)
       \/ \E p \in Objects : MoveConstruct(o, p)
       \/ \E unlinked \in UnlinkOutcomes(obj[o].name) :
            \/ Close(o, unlinked)
            \/ Destroy(o, unlinked)
            \/ \E p \in Objects : MoveAssign(o, p, unlinked)
  \/ \E n \in Troubled : Unlink(n)

Spec == Init /\ [][Next]_vars

-----------------------------------------------------------------------------
(* Properties.                                                             *)

\* The objects and the kernel tables hold values of their types.
TypeOK ==
  /\ obj \in [Objects -> Object]
  /\ link \in [Names -> Queues \cup {NoQueue}]
  /\ geometry \in [Queues -> Configs]
  /\ open \in [Descriptors -> Queues \cup {NoQueue}]

\* No descriptor leaks and none is closed twice: the open descriptors are
\* exactly the ones some object holds, each held by one object only.  Numbers
\* are reused, so a second close would hit another object's queue.
DescriptorsOwned ==
  /\ \A d \in Descriptors : open[d] # NoQueue <=> \E o \in Objects : obj[o].descriptor = d
  /\ \A o, p \in Objects : is_open(o) /\ obj[o].descriptor = obj[p].descriptor => o = p

\* A handle open_or_create returned stays attached to a queue of the geometry
\* it asked for, whatever happens to the name meanwhile.
GeometryAgrees ==
  \A o \in Objects :
    is_open(o) /\ obj[o].config # NoConfig =>
      geometry[open[obj[o].descriptor]] = obj[o].config

Owners(n) == {o \in Objects : obj[o].owns /\ obj[o].name = n}

\* Where mq_unlink works and nobody unlinks behind the owner's back, a queue
\* name exists exactly as long as one object, and only one, is to unlink it.
NamesOwned ==
  \A n \in Names \ Troubled :
    /\ link[n] # NoQueue <=> Owners(n) # {}
    /\ \A o, p \in Owners(n) : o = p

\* "Failed cleanup can be retried, even after the descriptor is closed;
\* ownership is retained until unlink succeeds": while a queue keeps its name,
\* the duty to unlink it passes from object to object and is dropped only by
\* the two calls that cannot report a failure, the destructor and the move
\* assignment that overwrites the owner.
OwnershipRetained ==
  [][\A n \in Names :
       Owners(n) # {} /\ link[n] # NoQueue /\ link'[n] = link[n] /\ Owners(n)' = {} =>
         \E o \in Owners(n) : Destroy(o, FALSE) \/ \E p \in Objects : MoveAssign(o, p, FALSE)]_vars
=============================================================================
