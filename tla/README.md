# A verification of the concurrent reservation system

The repository is a ticket office for one hall of seats. A server process keeps
the table of seats and lets a pool of worker threads answer requests that come
in on a POSIX message queue; client processes send LIST, STATUS, RESERVE, CANCEL
and QUIT and wait for an answer on a queue of their own. The server can run with
or without a mutex around the table (`--no-sync`), which is the point of its
experiments. This directory holds TLA+ models of that code, the instances TLC
checks, and theorems TLAPS proves about them.

## 1. Inventory

| Part | State | Operations | Talks to |
|---|---|---|---|
| `core`: `Seat`, `ReservationTable` | per seat: status, optional owner | `get_seat`, `reserve_seat`, `cancel_seat`, `reset_all` | called by `RequestProcessor` |
| `server`: `RequestProcessor` | the table, `reservation_mutex_`, configuration | `process_request`: LIST, STATUS, RESERVE, CANCEL, QUIT, unknown | called by every worker thread at once |
| `server`: `Server`, `WorkerPool`, `main` | `running_`, `g_shutdown_requested`, the request queue, the threads | start, run, stop, the worker's loop, the signal handler | clients, through the request queue and their reply queues |
| `ipc`: `PosixMessageQueue` | descriptor, name, `owns_queue_`; in the kernel: names, queues, descriptors | three factories, moves, `close`, destructor, `unlink`, `send`, `receive` | used by server and clients |
| `ipc`: messages, queue names | none; the messages are fixed char arrays | filling and reading an array; validity and construction of names | everybody |
| `client`: `Client`, `main` | both queue handles, `next_request_id_`, `g_active_client` | connect, disconnect, `request_*`, `fetch_seat_map`, the signal handler | the server, through the kernel |
| `client`: `ClientRepl`, preview, parser | the screen: map, message, ticket; the input stream; `g_terminal_resized` | a line of input, the seat prompt, redraw, SIGWINCH | `Client` |
| `client`: `TerminalUi`, `SeatMapFormatter` | the resize flag | `sanitize_input`, the grid, the text of STATUS, rendering | the terminal |
| `concurrency`: `RandomDelayGenerator` | a random engine | a sleep between CHECK and UPDATE | called by workers |

What is hard here:

* workers interleave between any two accesses to a seat, and without the mutex
  they race; the outcome of CHECK is used after a delay;
* the server is stopped by sentinels that go through the very queue that the
  clients fill, to threads that may leave for another reason;
* a reply queue is found by name, the name depends on the client id only, and
  clients are interrupted, killed and started again;
* descriptors are numbers the kernel reuses, and the duty to unlink a name moves
  between C++ objects;
* a server that crashes leaves its queue, with requests or sentinels in it, and
  names are unlinked by whoever starts or stops next;
* a seat id is typed among cursor keys, sanitized twice, cut to a buffer and
  looked up by another process, and both sides must mean the same seat;
* the user's map is fetched seat by seat while others book, and a resize makes a
  read of the input fail.

`PROJECT.json` lists these as hazards, each at its line, with the properties aimed
at it.

## 2. Modules

| Module | Models | Uses |
|---|---|---|
| `ReservationTable` | `src/core`, the message types: definitions without state | |
| `RequestProcessor` | worker threads inside `process_request`, field by field | `ReservationTable`, `ReservationService` |
| `ReservationService` | abstract: one request at a time | `ReservationTable` |
| `Server` | the server process, its threads, the request queue | |
| `PosixMessageQueue` | queue objects and the kernel's tables | |
| `ClientSession` | client processes, reply queues, the workers' answers | |
| `Kiosk` | the user interface, with the server's table behind it | `ReservationTable` |
| `Wire` | strings in message buffers, queue names: definitions without state | |
| `SeatInput` | a seat id from the keyboard through the client to the server | `Wire` |
| `MC…` | values of the constants for TLC | the module of that name |
| `…Proofs`, `RequestProcessorRefinement` | theorems | the module of that name |
| `KeyboardProofs` | theorems about `sanitize_input` | `SeatInputProofs` |

Operators introduced by a comment that begins "Slip:" are not part of a model.
Each is the next definition with a mistake one could make in that code, and each
property is known to fail when some definition is replaced by its slip.

### RequestProcessor

`status` and `owner` are the two members of each `Seat`, `mutex` is
`reservation_mutex_`. A worker has a program counter, its request, its private
copy of the seat (`snap` is `current_seat` or `snapshot`) and the result it will
report. It stops wherever another thread can come in:

* `Lock` is the `scoped_lock`, skipped when `Synchronized` is FALSE; `Unlock` its
  destructor, on every path.
* `CopyField` is `return *seat` of `get_seat`, one member at a time; `todo` holds
  the members not reached yet.
* `GuardReserve`, `GuardCancel` are the tests of `ReservationTable`;
  `SeatReserve`, `SeatCancel` repeat them in `Seat`, after the delay; `WriteField`
  is one of the two assignments.
* `CheckWithoutSeat` is LIST, whose copy of the table is thrown away, and any
  command about a seat that does not exist.

Without the mutex this is a data race. The model lets both copies and updates
take the members in either order, with any interleaving. The assignment of a
`std::optional` is one step: engaged flag and value are not torn apart. On the
platforms the project builds for, an aligned 8-byte object is stored whole or in
two parts; the second case would add states but only when `--no-sync` is used.

`tickets` is a history variable: the clients told SUCCESS for a seat and not
cancelled since. It says what the clients believe, the table what the server
believes. It is changed with the last assignment of the update, from where
nothing can keep the worker from reporting success.

`ReservationService` is what a client should be able to rely on: a request is
invoked, performed in one step on the whole table, and returned. The mapping
takes the step into `unlock` as the moment of effect; until then, a seat being
written counts as it was before (`Committed`).

### Server

`main` walks through `main.cpp`, `start`, `run` and `stop`; workers run the
lambda of `start`. The request queue is a sequence of client requests and a number
of sentinels: `stop` sends with priority 10, clients with 0, so sentinels always
overtake. `process_request` is one step, assumed to end (`RequestProcessor` has
the inside). The number of threads is what `main` makes of `--workers` and
`WorkerPool` of that (`WorkerCount`, `PoolSize`); `stop` counts to the former.

The process may `Crash` at any moment, or a thread cannot be started and the
exception ends it (`SpawnFails`); `Restart` begins anew. Memory is lost
(`FreshProcess`), while `requests`, `sentinels` and `name` are the kernel's and
stay until `StartOpen` creates another queue. `name` says what the queue's name
leads to: nothing, the queue in `requests`, or that of another server. `Rival` is
that other server's `start` or `stop`, which unlink the name whoever it belongs
to. It is kept out of the moment between unlink and open: two servers
started together would share a queue and its sentinels, and nothing says they
may. A client connected to a queue that no server of ours works on is `stranded`.

`receive()` returning false is not an action: it happens for a closed descriptor,
which `NoUseAfterClose` excludes, for a message of the wrong size, which no client
sends, and is retried inside for EINTR.

`Reply` always completes. In the code the send to the reply queue blocks while that
queue is full; here a client has one request under way and does not come back once
it is gone, so its queue holds one answer at most. What happens when clients of one
id come and go is `ClientSession`, where the send does block.

### PosixMessageQueue

`obj` are the objects (`live` says whether the place holds one), `link`,
`geometry` and `open` the kernel's tables: name to queue, queue to attributes,
descriptor to queue. Descriptor numbers and queue identities are reused as soon
as they are free. `Closed` and `CloseInKernel` are the two sides of `close()`,
shared by the destructor and the move assignment. `Troubled` are the names on
which `mq_unlink` may fail and which others remove with the static `unlink`, as
server and clients do when they start. Validity of names and attributes is membership in `Names` and `Configs`.

### ClientSession

A process is one run of the client program with an id from its command line. Ids
in `Reused` may be used again when their process has ended, those in `Shared` by
several processes at once, all others once. Requests and
answers carry the process and number they belong to, although the code only has
the id: this is how the properties can tell answers apart, and no action looks
at it. `Plans` bounds who is started in turn and how many requests each makes;
processes of one id are numbered in that order. `Disconnect` is `Client::disconnect`; a signal can come at every program
counter, and calls it until `main` has cleared `g_active_client`. `abandoned` is
a history variable: the processes ended while they waited for an answer. The handler
is one step: it runs on the interrupted thread and ends in `_Exit`. `Kill` is
SIGKILL or a crash.

### Kiosk

The loop of `ClientRepl::run` in its two modes and of `run_preview_mode`. A line
is what `parse_line` makes of it. A request is one step on `table`, as
`RequestProcessor` justifies; `FetchSeat` is one of the STATUS requests of
`fetch_seat_map`, between which other clients act. `GetlineFails` is the stream:
it fails for good until it is cleared, and SIGWINCH, installed without
`SA_RESTART`, makes a blocked read fail.

`Token`, the counts and `filled_segments` are `format_grid`: what the screen says
about `current_seats`. `told` is the message of a STATUS, as the seat and the owner
`format_single_seat` names.

Some branches of the code cannot be taken against this server and are not
actions: a STATUS of a canonical seat that fails during `fetch_seat_map`, the
`Unknown` case of the switch over commands, and the message "Server timeout",
which needs a `receive` that gives up.

### Wire and SeatInput

A char array is a function on `1..size`, a `std::string` a sequence. Of the
characters only those are kept that the code tells apart (escape, carriage
return, space, NUL, digits, the letters of escape sequences) and one letter with
its capital for the rest. `Press` is a key: a plain one, a cursor or function
key with its whole escape sequence, carriage return, or Escape alone. The loop of
`sanitize_input` has one action for each path through it, `i` counting from 1;
`Trim` is its end. It runs for a line (`pass = "line"`), again in `parse_line`
(`"again"`) and for a seat prompt (`"seat"`). `send_request` fills the buffers,
`Serve` reads them. RESERVE stands for the three commands with a seat.
`typed`, `escape` and `once` are history variables.

## 3. Runs

### The table and its workers

**sync**: two workers, two seats, two clients and the invalid id, all commands,
mutex on. `NoDoubleBooking`: no two clients hold a ticket for a seat.
`OwnerHoldsTicket`: a seat nobody is writing to belongs to exactly the client
with its ticket. `CheckedValuesHold`: what CHECK printed is what UPDATE did.
`StatusNotTorn`: no answer mixes two moments of a seat. `LockInv`: the inductive
invariant of the proofs. `MutexReleased`: every path gives the mutex back.
`ImplementsService`: the refinement. Two workers suffice for every pairwise
interleaving at one seat, and the second seat shows that nothing leaks across.

**nosync**: three workers, one seat, RESERVE and STATUS, no mutex. What is left:
the table's owner is somebody with a ticket, and a client who saw ALREADY
RESERVED at CHECK never gets SUCCESS. Both fail once clients cancel.

**nosync_double_booking** (violation): two clients get SUCCESS for one seat. The
report of experiment 2 says that the server is designed to detect the conflict
at the UPDATE; `Seat::reserve` tests and stores without any atomicity.

**sync_starvation** (violation): a worker can wait at the mutex for ever while
the other keeps taking it, under the fairness a `std::mutex` gives. The report
of experiment 3 claims bounded waiting.

### The life of the server

**server**: two workers, which is what a `--workers 0` leaves of a default of two,
three clients, room in the queue for every client's request and every sentinel;
crashes, restarts and a rival at any moment. `NoUseAfterClose`: no thread is left
when the queue is closed. `NoLostRequest`: while the server runs, a waiting client's
request is in exactly one place, and none is there from before a crash.
`EnoughSentinels`: there is always a sentinel for each blocked worker.
`OnlyOwnSentinels`: a running server meets no sentinel, so none of a predecessor
that crashed in `stop()` ends one of its workers. `RequestAnswered`,
`ShutdownCompletes`: liveness, with reply queues that are never full (see `Reply`);
a worker blocked at one would answer nobody, and `stop` would wait in `join` for it.
Nothing is said of requests dropped by `stop` itself. A client that leaves does not come back in this
run (`ClientSession` has restarts of clients), so three clients bound the
requests; restarts of the server are not bounded.

**server_full_queue** (violation): the same with a queue of two messages. Workers
leave on the first message they receive after `running_` was cleared, clients
fill the queue, and the blocking `send` of a sentinel never returns. The queue
is never closed or unlinked, against the report. The program's queue holds ten
messages, so this takes about ten clients with a request under way.

**server_early_signal** (violation): a signal between the installation of the
handlers and `start()` is announced on the terminal and then reset.

### Queues

**queue**: three objects, two names, three queues and descriptors, two
geometries; one of the names is troubled. `NamesOwned`: the other one exists
exactly as long as one object will unlink it. `DescriptorsOwned`: no descriptor
leaks, is shared, or is closed twice. `GeometryAgrees`: a handle is attached to a
queue of the geometry it asked for. `OwnershipRetained`: a failed cleanup can be
repeated, as the header promises; the duty is lost only in a destructor or an
overwriting move. Three objects are what a move between two next to a bystander
needs; with three descriptors numbers are reused and can run out. Symmetry is
sound: no liveness is checked and no object, queue or descriptor is singled out.

### Clients

**session**: two workers and three ids: one used once, one that may be used again,
one that may be used twice at once. In the plans called pairs two processes of any
ids that may meet send three requests each; in `HangPlan` one id is used three times
and another client comes to it, with one request each.
`OwnResponse`: a client whose id is its own takes the answer to the request it
sent, whatever signals and kills happen to others. `OwnReplyQueue`: a restarted
process reads from a queue it created, even after a kill. `NoReplyQueueLeft`: no
name is left by an exit, a failed connect or a signal at any point, even if two
processes share the id; only SIGKILL leaves one. `HeldUpByAbandoned`: a worker
blocks at a full reply queue only if as many processes of that id as it has
places were ended in mid-request; here that is one, in the program ten. `WaitEnds`:
a client waits for ever in one case only, when the server has come to hang for good
(`ServerHangs`): every worker is blocked at a full reply queue, and, unless shared
ids are among them, as many clients were ended in mid-request as a reply queue has
places and the server workers. That is three in the run, where it happens: in
`HangPlan` three processes of one id are killed while they wait, their answers fill
a reply queue and hold up both workers, and the fourth process waits for ever. In
the program it takes thirteen, ten places and three workers. With fewer the other
workers go on and every wait ends. An answer of a predecessor counts as
an end of the wait. Where shared ids are excluded, it is because the second process
takes the name over and the first may wait in vain.

**session_stale_reply** (violation): a client interrupted in mid-request and
started again with its id takes its predecessor's answer for its own.
`receive_response` does not compare `request_id`, and workers look the name up
when they answer. The slides say the result goes to the right client.

The request queue has room for two and a reply queue for one in these runs,
so that both fill up. Two workers and two or three processes are enough for the
answers of a process and of its successor to overtake each other, and four processes
for a server that hangs: three to hold it up and one to wait. The plans keep the
run small where liveness forbids symmetry; the theorems hold for all plans.

### The user interface

**kiosk**: three seats, one other client, resizes at any moment, in each of the
three modes: the kiosk, lines (standard output is no terminal) and the preview
with its copy of the loop. `TicketHonest`: a ticket on the screen is backed by the
table. `OwnSeatsShown`: the grid marks exactly the user's own seats as MINE,
although its map is no snapshot. `StatusHonest`: the message of a STATUS is right
about the user's own seats as long as it is shown. `LoadHonest`: the LOAD bar, with
its 40 segments, accounts for the user's seats and is full only when none is
FREE. With three seats the quotient is not a whole number of segments, so that
the rounding matters; with the program's 20 it is whole. `EndExcused`: the session ends by QUIT, at the end of
input, or after a resize in the middle of a seat prompt, never after a resize at
the main prompt; in line mode every resize that interrupts a read ends it.
`PromptFails` leaves the stream failed, so the end after a seat prompt is the
code's behaviour; no document says what should happen instead. One other client
stands for all others: they act between two STATUS requests in any case.

**seat_input**: every line to which keys are added until it has five characters, so
up to eight with a cursor key at the end, two client ids, a `seat_id` of four bytes
and a `reply_queue_name` of seven, which one of the names just fills.
`KeysLeaveNoTrace`: the client works on what was typed, cursor keys left out,
unless Escape alone was pressed. `SanitizeIdempotent`: the second call in
`parse_line` changes nothing. `SeatUnderstood`: the server finds the seat the
ticket will name, and a seat id that is cut is nobody's. `ReplyNameOfClient`: the
name that arrives is accepted by `mq_open` and belongs to this client alone.
`LineHandled`: the scan ends whatever the bytes. Five characters hold a
command, a space and a seat, or a whole sequence before or after either; the
buffers are short so that typed ids reach and pass their ends. The sizes in the
program are 8 and 64; `WireAssumption` and `SeatInputAssumption` hold for them, as for
its prefix and suffix of a reply queue name.

### Deadlock and fairness

Deadlock is checked for the table, the queue objects, the server, which can always
be started again, and the keyboard. Client processes end, and
`CHECK_DEADLOCK FALSE` says so.

All fairness is weak. `RequestProcessor`: a worker inside a request runs when it
can. Nothing makes requests come, and nothing orders waiters at the mutex.
`Server`: main and each worker run when they can; `run` polls its flag, so it
does see it. Clients, signals, crashes, restarts and the rival are not fair. `ClientSession`: workers run, a
process started gets through `connect` and through its exit, and an answer
that is there is received; users need not type, signals need not come.
`SeatInput`: the program runs; the user need not type. `Kiosk` checks safety only.

## 4. Proofs

All theorems hold for every value of the constants that the modules' `ASSUME`s
admit: any number of workers, seats, clients, messages, objects, descriptors.

**RequestProcessorProofs.** `TypeCorrect`: types, with or without the mutex.
`MutexProtects`: with it, `LockInv` is inductive. `NoDoubleBooking` alone is not:
nothing in it says that a worker at `write` found the seat free, or that nobody
else is there. `LockInv` adds, for the mutex, that only its holder is in the
critical section; for each seat nobody writes to, that it is vacant without
tickets or owned by its only ticket holder; and for the worker in the critical
section, what its copy and its tests still say about the seat at each program
counter. `QuietStep` covers the steps that change no seat, `LockStep` goes
through the actions. The safety properties follow in `InvImpliesSafety`:
`SynchronizedNoDoubleBooking`, `SynchronizedOwnerHoldsTicket`,
`SynchronizedChecksHold`, `SynchronizedStatusNotTorn`.

What survives without the mutex is proved too, under the assumption that
`Commands` has no CANCEL: `RaceSuccessFollowsCheck` and `RaceOwnerHoldsTicket`, both
with or without `Synchronized`. The invariant `RaceInv` says that the status of a
seat only ever goes from Available to Reserved, so a copy that says Reserved cannot
go stale and a worker that stores has copied Available; and that whoever's id is in
a seat's owner field has a ticket or is a worker's client about to get one. CANCEL
breaks the first part, which is why it is excluded. `NoDoubleBooking` is not among
the results: **nosync_double_booking** refutes it.

**RequestProcessorRefinement.** `Linearizable`: with the mutex, `Spec` implements
`ReservationService`. Every step leaves the abstract state alone except those of
`Dispatch`, `Respond` and the ones into `unlock`. `LockInv` is what makes the answer and
the table at that step the sequential ones.

**ServerProofs.** The inductive invariant is types, `LifecycleInv` (main's place
fixes `running_`, the counters and which threads exist), `NoUseAfterClose` and
`SentinelSupply`: receivers plus sentinels sent never exceed sentinels queued
plus the number of workers. The last counts what has left `stop()`, because
`EnoughSentinels` says nothing before the loop begins. `OnlyOwnSentinels` is
inductive with them: a new queue is empty, and main is the only one to send
sentinels, after it has cleared `running_`. A crash is a step like others, which
leaves the conjuncts that speak of a started server with nothing to say. Results:
`TypeCorrect`, `CloseIsSafe`, `JoinIsSupplied`, `RestartIsClean`. They need no room in the queue; that
`stop()` also gets its sentinels in does, and is a matter of liveness.
`EachRequestInOnePlace` proves `NoLostRequest` from `OnePlace`, which states it without
counting: positions of the queue and jobs of workers hold different clients, each of
them waiting or gone, and each waiting client of a running server is in one. It
needs of `LifecycleInv` that a worker outside a request holds no job.

**PosixMessageQueueProofs.** `HandleInv` (types, dead objects hold nothing,
descriptors, geometry) gives `TypeCorrect`, `NoDescriptorLeak` and `GeometryKept`,
whatever goes wrong. `NamesHaveOneOwner` is about the names that are not `Troubled`,
next to any number that are: `NameInv`, its inductive form, needs `HandleInv`.
`DutyPassesOn` is the action property `OwnershipRetained`: `OwnershipStep` looks at one
owner and shows for every action that it still owns the name, that another object
does, that the name is gone, or that the step is one of the two excused ones.

**ClientSessionProofs.** Four invariants, each resting on those before it. `Base`
is types and what a process's program counter says of its variables. `NameInv` is
about names: a name leads to a queue whose creator has that id and is connected,
unless a process of the id was killed; a process with an id it need not share finds
nothing when it creates its queue, so what it has open is its own. From it follow
`ReplyQueueIsOwn` and `NamesDoNotLeak`. `FlightInv` is about messages: a request or
its answer is in one place (the request queue, a worker's hands, a reply queue) and
goes to a queue of its sender's id. `OwnInv` adds, for ids used once, that an idle
process has nothing under way and a waiting one only its last request, which gives
`AnswersAreOwn`. `SupplyInv` counts: the messages under way for an id are at most the
processes that owe it an answer, waiting or abandoned. A worker blocked at a full
reply queue holds one message more than the queue has places, so that many processes
owe one, and at most one of them is still waiting: `OnlyAbandonedHoldUp`. If all
workers are blocked at the queues of one id, each holds another one, which gives the
number it takes to stop the server: `HangTakesManyAbandoned`. The count
is over finite sets, with one message added or removed, or one process joining or
leaving, in each step.

**KioskProofs.** The invariant says what the properties say, but at every program
counter: the map on the screen, or while a new one is fetched the part that has
arrived, marks this client's seats (`MapInv`); the ticket on the screen, or the one
about to be printed, is held in the table (`TicketInv`); the message of a STATUS is
right until the next redraw (`ToldInv`); the stream has failed for an excuse or is
about to be cleared (`ExcuseInv`). They are inductive since other clients change no
seat this client holds and take none for it. Results: `TypeCorrect`,
`TicketsAreGood`, `MapShowsOwnSeats`, `StatusStaysTrue`, `EndIsExcused`, `LoadIsHonest`.
The last is about the rounding of `filled_segments` and needs `KioskAssumption`: fewer
seats than twice the segments of the bar, here 20 and 40. With more, one free seat
would round to a full bar.

**SeatInputProofs.** About `Wire` alone: `RoundTrip`, that a string shorter than its
field arrives unchanged, and `ValidNameTravels`, that a name
`is_valid_posix_queue_name` accepts is the name the server reads. Both rest on
`ReceivedIs`, which says what `strnlen` finds after the copy, and that on the least
element of a set of numbers, from the library's well-founded induction. The same
least element serves for `to_string`, which is recursive: `ToString` shows that a
function with its equation exists, `ToStringInjective` that no two numbers are
written alike. `ReplyNamesDiffer` follows, and `ReplyNameFits`: ten digits hold
every 32-bit id, and 15 + 10 + 6 characters fit the 64 bytes of the field. About
`SeatInput`: the invariant is types, `Encoded` (the buffers and the server's strings as functions
of `seat` and `client_id`) and `Rescan` (in the second call of `sanitize_input`, the
result is the part of the line already scanned, and the line is trimmed). The
last is needed because `SanitizeIdempotent` speaks of the end of a loop only.
Results: `InputTypes`, `SanitizeOnceIsEnough`, `TicketNamesTheSeat` and
`ReplyFindsClient`. The last two need `SeatInputAssumption`: a seat id is at least two
characters shorter than the field, since an id cut to one less than the field could
be a seat otherwise, and the reply queue names fit theirs.

**KeyboardProofs.** `OnlyTypedKeysCount` is `KeysLeaveNoTrace` for lines of every length.
The scan sees characters, the property is about keys; `KeysInv` says that there is a
division of the line into keys (`Reading`: where each begins, and how many plain keys
are in front of it) such that the scan always stands where a key begins and has kept
exactly the plain keys before it. A key typed extends the division
(`ReadingExtends`); one round of the loop takes one key, because the loop's search
for the end of a sequence ends where the key does (`SkipsOneKey`).

Only model-checked: all liveness (`MutexReleased`, `RequestAnswered`,
`ShutdownCompletes`, `WaitEnds`, `LineHandled`), which is beyond the prover. Every
invariant of a passing run, its action property and its refinement have a theorem.

## 5. What is not modelled

* Text: log lines, the wording of messages, and `TerminalUi`'s frames, colours,
  centring and terminal width. `SeatMapFormatter::format_grid` is called by tests
  only.
* `RandomDelayGenerator`: its sleep is time at a program counter.
* `reset_all` and `Seat::reset`: the server does not call them.
* Two servers that start at the same moment and open one queue (see `Rival`).
* A NUL byte in a typed seat id: the client model has it, but `SeatUnderstood`
  leaves it out. The server reads the id up to the NUL, the ticket shows
  all of it.
* The words of commands: `SeatInput` has one command with a seat, `Kiosk` starts
  from the verb.

## 6. Plan

Written in this order: table and workers first, since the double booking is what
the program is about, with the abstract service and its refinement; the server's
life cycle; queue objects; client sessions; the user interface; then crashes,
restarts and the rival server, reply queues at their limit, the way of a seat id,
and the grid.

The theorems followed in the same order: types and the mutex, the refinement, the
server's shutdown, queue objects, strings in buffers; then the requests in the
server, client sessions, the user interface, the race without CANCEL, and the keys.
What could still be added is on the side of the model: tearing of the owner field
under `--no-sync`, and two servers that start at the same moment.
