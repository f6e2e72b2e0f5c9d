# Verification of ipc-benchmark

TLA+ models of the inter-process transports of this repository and of the
harness that runs them, the TLC runs that check the models on small instances,
and proofs, checked by TLAPS, of what holds for every instance.

Run a check with `tlc -config MCLfshm.cfg MCLfshm.tla`, a proof with
`tlapm LfshmProofs.tla`. `PROJECT.json` lists runs, properties, the source lines
each definition stands for, hazards, findings and theorems.

## 1. Inventory of the system

One program, `ipc_benchmark`, is started twice: as a server and as a client.
The client sends a random message, waits for the echo, checks it and counts it,
until its duration is over; the server echoes until its duration is over. Six
transports implement this, each with the same four operations: `setup_*`,
`run_*_server`, `run_*_client`, `free_*`.

| component | state | operations | what is hard | what makes it correct |
|---|---|---|---|---|
| `lfshm_blocking.c` | a shared segment: `ready`, two flags, two futex words, two positions, a ring; message buffer per process | setup, wait (flag, version, flag, futex), signal (flag, version, wake), ring read and write, close | no lock anywhere; every access interleaves; sleep against wake-up; close at any moment | exclusion in the ring, no lost wake-up, every answer is that of its call, the client always ends |
| `lfshm_nonblocking.c` | the same, and an io_uring of the client | the same, the client waits through io_uring | io_uring errors are ignored | the same while io_uring works; no lost wake-up in any case |
| `shm_blocking.c` | a shared segment: mutex, two condition variables, `ready`, two flags, positions, ring | setup, locked wait, read, write, close | setup races with the client; spurious wake-ups; close at any moment | the same |
| `shm_nonblocking.c` | the same; in the client two threads with one message buffer, one result and two interrupts | the same; the client's main thread hands messages to a second thread | hand-over of the buffer without a lock; ends of both threads; errors of the interrupts are ignored | while no call on an interrupt fails, one owner of the buffer at a time, and both threads end |
| ring buffer (a copy in each of the four) | bytes, read and write position | `ring_buffer_write`, `ring_buffer_read` | frames cut by the end of the buffer, empty against full | it is a queue of messages |
| `interrupt.c` | an eventfd or a pipe | create, signal, clear, wait, destroy | a counter and a queue behind one interface; any call may fail | what a call returns tells whether a signal was given or taken; none is overslept |
| `uds_blocking.c`, `uds_nonblocking.c` | a stream socket, a buffer at each end | header and body reads, send, close | short reads, end of stream in a message, a size taken from the stream | frames stay in step, both ends end |
| `benchmark.c` | none (the statistics belong to the caller) | `random_message`, `validate_message`, `calculate_checksum`, `calculate_stats` | index and size arithmetic | damage is seen; percentiles are percentiles |
| `ipc_benchmark.c` | options | chooses the transport; setup, run, free | order of setup, run and free | |
| `makefile` | the two processes, and the name they meet under | starts the server, sleeps two seconds, runs the client, kills the server | the sleep stands for a handshake; what a killed round leaves behind | every round meets its own server |

Interactions: server and client of the shared-memory transports meet only in the
segment (and in the kernel, by futex or condition variable); those of the socket
transports only in the stream. Within `shm_nonblocking` the client's threads meet
in `ThreadData` and in two `Interrupt`s. Rounds meet in the names of the file
system.

## 2. The modules

| module | models | kind |
|---|---|---|
| `EchoService` | what every transport promises its caller | abstract specification |
| `MessageQueue` | what a ring buffer promises | abstract specification |
| `Event` | what an interrupt promises | abstract specification |
| `FrameRing` | positions of the ring, counted in whole frames | operators |
| `Lfshm` | `lfshm_blocking.c` and `lfshm_nonblocking.c` | state machine |
| `ShmSegment` | what `shm_blocking.c` and `shm_nonblocking.c` share: segment, setup, server | actions, no specification of its own |
| `ShmBlocking` | `shm_blocking.c`: `ShmSegment` and its client | state machine |
| `ShmNonblocking` | `shm_nonblocking.c`: `ShmSegment` and a client of two threads, with two `Event`s | state machine |
| `Interrupt` | `interrupt.c` | state machine |
| `Uds` | `uds_blocking.c` and `uds_nonblocking.c` | state machine |
| `RingBuffer` | `ring_buffer_write` and `ring_buffer_read`, byte by byte | state machine |
| `Benchmark` | `benchmark.c` as a client uses it | state machine over pure operators |
| `Harness` | the makefile's rounds and the life of a segment's name | state machine |
| `*Proofs` | theorems about the module they are named after; `ShmNonblockingProofs` also about `Interrupt` | proofs |
| `MC*` | the instances for TLC | |

`Lfshm`, `ShmBlocking`, `ShmNonblocking` and `Uds` are each shown to implement
`EchoService`, `RingBuffer` to implement `MessageQueue`, `Interrupt` to implement
`Event`; `ShmNonblocking` uses of an interrupt only what `Event` promises.

Most modules have a few definitions marked "Fault": alternatives of the definition
that follows, with a plausible mistake in it. No specification uses them; they
serve to show that each checked property can fail.

### Lfshm

State: the words of the segment (`ready`, `avail`, `futex`, `readPos`,
`writePos`, `ring`), and for each process its control point `pc`, the ring
position and futex value it has loaded (`pos`, `val`), its message buffer `msg`
and whether its deadline has passed. `avail["server"]` is `message_available`,
`avail["client"]` is `response_available`: the index is the process that waits
for the flag; likewise `futex`.

A step is one load or store of a shared word, or one system call. The functions
that server and client both call (`futex_wait_for_atomic_bool`,
`futex_signal_atomic_bool`, `ring_buffer_read`, `ring_buffer_write`) are actions
with the process as parameter:

| code | actions |
|---|---|
| `setup_*` of the server | `Create`, `InitReady`, `InitMessage`, `InitResponse` |
| `setup_*` of the client | `Open`, `Attach` |
| wait for a flag | `Check`, `Load`, `Recheck`, `FutexWait` (the kernel compares and sleeps in one step), `SpuriousWake`, `UringFail` |
| signal | `Signal`: `Raise`, `Bump`, `Wake` |
| ring read, write | `Read`, `Copy`, `Consume`; `Reserve`, `Fill`, `Publish` |
| server loop | `ServerLoop`, `Clear` |
| client loop | `ClientStop`, `ClientCompose`, `PollReady`, `Clear`, `Count` |
| `free_*_server` | `CloseReady`, `CloseSignals`, `Remove` |

Where several local or constant accesses follow each other without anything
shared in between, or the shared word cannot be seen by the other process yet
(the stores of the setup before `ready`), they are one step. Copying a frame is
one step together with the load of the other position: the property
`RingExclusive` says that nobody else is in the ring during it, and when it is
broken (io_uring fails) the contents of the ring are no longer what a run checks.

Interleaving of single accesses is sequential consistency. The code uses
acquire loads, release stores and an acquire-release increment: the one pattern
that could be reordered is a release store to a flag followed by a load of
another word, and each such pair in the code (raise a flag, then test `ready`)
has the atomic increment and a system call between them.

The message is its sequence number and who wrote it into the ring. The second
component is a ghost: it tells an answer from the client's own request, which the
code cannot. `ops` is the statistic, `unanswered` counts the ops that counted an
own request.

### ShmSegment and ShmBlocking

The mutex is explicit and a step is what a process does between two operations
on it: `Lock`, `Wait` (give up the mutex and wait), `ServerReceive` and
`ClientReceive` (find the flag up, read, lower it, unlock), `Request` (write,
raise, signal, test `ready`, and keep the mutex for the wait), `Reply`, `Close`. A
condition variable is the control point "waiting"; `Signalled` and `SpuriousWake`
move a waiter to "woken", from where it must get the mutex again. `ServerCheck` and
`Refuse` let `validate_message` refuse any message; the ghost `dropped` records that
the server refused one, after which both processes wait, as the code does.

The stores of the setup are not inside the mutex, and `ready` is a plain `bool`
that the client polls: a data race. `gcc -O2` stores the flags, then `ready`,
then the positions. `InitPositions` and `InitReady` come in either order.

### ShmNonblocking

The process "client" of the segment is the client thread. `main` is where the main
thread is. `threadData` is the struct the two share; the message buffer and its size
are `msg["client"]`; `readIntr` and `writeIntr` count the signals in the two
interrupts.

| code | actions |
|---|---|
| `setup_shm_nonblocking`, both sides | `SetupServer`; `MainOpen`, `MainAttach` |
| `run_shm_nonblocking_server`, `free_shm_nonblocking_server` | `RunServer`, `EndServer` |
| `run_client_thread` | `ThreadLoop`, `ThreadWait`, `ThreadWaitFails`, `ThreadLocks`, `ThreadWrite`, `ThreadUnlock`, `ThreadReceive`, `ThreadNotify` |
| `run_shm_nonblocking_client` | `MainLoop`, `MainCompose`, `MainSignal`, `MainWait`, `MainWaitFails`, `MainCount`, `MainBreak` |
| its end | `MainExit`, `MainSignalRead`, `MainSignalWrite`, `MainJoin` |

How many signals a wait takes is left open (`Left`, as in `Event`), so that one model
covers the eventfd and the pipe. Unlike that of `shm_blocking.c`, this client counts
a response that does not validate.

Neither thread looks at what `interrupt_signal` and `interrupt_wait` return. The setting
`intrFails`, chosen in `Init`, says whether these calls may fail: then a signal may
be lost (`Added`), and a wait may end without one (`ThreadWaitFails`, `MainWaitFails`),
and the thread goes on. In this setting both threads may be at the message buffer at
once; what is read there while the other writes it is then not modelled, only whole
messages are.

### Interrupt

A step is one system call on the descriptor. `count` is the counter of the eventfd
or the number of signals in the pipe, `Capacity` what it holds before a write
blocks. `Rest` is what a read leaves: nothing of an eventfd, one signal less of a
pipe. The eventfd is created without `EFD_NONBLOCK`, so that its read waits and
only the pipe goes the way `ReadEmpty`, `Poll`. Any of these calls may fail:
`SignalFails` (no signal is given), `WaitFails` (a read that fails with another error
than `EAGAIN`, a poll that fails or returns without `POLLIN`) and `ClearFails` return -1.
`result` is what the last call of each thread returned. `Destroy` requires that no thread is
in a call, as its only user joins the thread first.

### Uds

Both servers are the same code; the clients differ in that the non-blocking one
sends and receives in loops. That is the setting `looping`; the other setting,
`cut`, says at which ends the kernel may hand data over in pieces. Both are chosen
in `Init` and never change. A stream is a sequence of units: `HdrLen` of them make a
header and `MsgLen` a message, and a unit knows its call, its place and its sender,
which is what `validate_message` and the sequence number find out. The socket of the
non-blocking client returns `EAGAIN` where a blocking one waits, and the client polls: in
the model both are a step that is not enabled yet.

`Receive` is one `recv` that finds data, `ReceiveEnd` one that finds the end of the
stream: an error if the peer closed with data unread (`reset`), zero bytes otherwise.
`CheckSize` takes the size out of the header: the first unit of a message says
`MsgLen`; any other unit in its place says anything, valid or not. `Send` appends a
piece, `SendFails` is `EPIPE` (the program ignores `SIGPIPE`). `Hangup` is the close of
either end. Every `break` of a loop ends at `End`.

The socket file is in the model with the mismatch of the code: the server unlinks
`SOCKET_PATH`, which is not the path it was bound to.

### RingBuffer

`Store` and `Fetch` copy bytes to and from a position with the two `memcpy`s of
the code, `Advance` is the position arithmetic with its two ways of wrapping,
`Header` and `Value` are the little-endian length word in base `Base`, `Accepts`
the two tests of the write. A refused call changes nothing and is no step. The
ghost `queue` holds what was accepted and not read yet, the ghost `starts` where
each of these frames begins.

### Benchmark

A message buffer is a row of cells, one per field, byte of data and end marker;
`sizeof(Message)` is one cell more than where the data begins, as in the code (32
against 28 bytes), so a message is one cell longer than what is written into it.
`RandomMessage`, `ValidateMessage`, `CalculateChecksum`, `CalculateStats` are the
functions; the highest bit of a word counts `TopBit`, and words wrap at twice that.
`Sorted` is the outcome of `qsort`: the i-th smallest comes i-th. The transport of this module
delivers the message as it is, damages one cell, or reports another length.
The actions `Compose`, `Deliver`, `Judge`, `Count` are a client's loop; a step of
`Count` stands for a batch of calls with one latency, so that the array of latencies
reaches its limit in a few steps.

### Harness

For each run of make: where its recipe is (`step`), its server and client process,
and the segment each has mapped. A segment goes from "empty" (created, no pages) to
"sized", "ready" and "closed"; `name` is the segment that the name in `/dev/shm`
stands for, and changes hands by `Unlink`, `Create` (with `O_EXCL`) and `Remove`. A
killed process leaves name and segment as they are. `Interrupt` is a round that the
user ends: both processes are killed, the server by the recipe's `trap` on `EXIT`, which
assumes a shell that runs it on an interrupt. The setting `active` says which makes run
at all, `timely` whether two
seconds are enough for a setup; `Calm` is one make, in time.

## 3. What the runs check

Passing runs:

| run | instance | shows |
|---|---|---|
| `lfshm` | 2 slots, 4 futex versions, 3 requests, client after setup | exclusion in the ring, answers, waits, the server's end, the refinement of `EchoService` |
| `lfshm_uring` | 2 slots, 8 versions, 3 requests, io_uring may fail | what is left when io_uring fails, and all the more when it does not: no lost wake-up, and the client ends, or the server finds no room for an answer |
| `shm_blocking` | 4 slots, 3 requests | wake-ups, transfers, answers, the ends of both, the refinement; refused messages included |
| `shm_nonblocking` | 2 slots; 3 messages where no call on an interrupt fails, 2 where any may | the hand-over between the client's threads, answers, the end of both threads, the refinement; flags and ring, and the end of the buffer, where interrupts fail too |
| `interrupt` | 3 threads, 3 signals, any call may fail | eventfd and pipe implement `Event`; no wait oversleeps |
| `uds` | header of 2, message of 4, buffer of 5 units, 2 requests, all settings | buffers, frames, ends of both socket transports |
| `ring_buffer` | 16 bytes, messages of 1, 3, 8 and 9 bytes, deadlock checked | the ring is a queue, at every alignment |
| `benchmark` | words of 4 bits, bytes 0, 4 and 8, payloads of 1 or 2 bytes, single damages, up to three batches of latencies, 30 of them at most | validation and percentiles, over all inputs of that size |
| `harness` | 2 makes, 3 rounds | rounds, alone or overlapping, interrupted or not |

Properties of the transports. A property that a proof covers for every instance and
that another checked one implies or repeats is not run again; where it is only proved,
the list says so.

* `RingExclusive` (lock-free only): never both processes inside a ring function.
* `TransfersSucceed`: a read after a flag finds a frame, a write finds room (run for
  `ShmBlocking` and `ShmNonblocking`, proved for all three).
* `NoStaleAnswer`: the message counted has the sequence number of this call.
* `NoLostWakeup`: nobody sleeps with its flag up, unless its waker is on the way (run for
  `Lfshm` and `ShmBlocking`, proved for all three).
* `NoMutualWait`: never both waiting with both flags down (run for `Lfshm`, proved for all
  three).
* `UnansweredOnlyAtShutdown`: at most one call is counted without an answer, and
  only after the server closed (proved; `EchoSpec` implies it).
* `MessageOwned` (`ShmNonblocking`): one thread at a time uses the buffer, while no call
  on an interrupt fails; the buffer outlives the client thread in any case.
* `HandoverGoesOn`, `SendsNewRequests` (`ShmNonblocking`), while no call on an interrupt
  fails: the two threads never wait for each other in vain, the main thread waits for a
  thread that has ended only if that one's last signal is pending, and what is sent is
  always the new message. `NoStaleAnswer`, `EchoSpec` and `ClientFinishes` of this
  module have the same condition; `TypeOK` and `TransfersSucceed` do without it.
* `InStep` (`Uds`): at the boundary of a call nothing of it is left in the stream, and
  what is sent back and counted is the whole message of this call.
* `EchoSpec`: every step is a step of `EchoService` or none.
* `ClientFinishes`: a client past its setup ends. In `Lfshm` with io_uring failing: or the
  server finds no room for its answer (`NoRoomForAnswer`), which cannot happen while
  io_uring works (`TransfersSucceed`).
* `ServerFinishesWhenCalled`: a server past its deadline with a request
  signalled ends.
* `BothFinish`, `HangupFreesPeer` (`Uds`): both ends end; an end that closes frees the
  other, however the stream was cut.

Those of the ring:

* `Contents`: the bytes between the positions are the frames of the queue.
* `Disjoint`: the frames lie one behind the other; no write overlaps an unread one.
* `EmptyIsEmpty`: equal positions mean an empty ring, never a full one (proved).
* `EmptyAcceptsHalf`: an empty ring takes every message of up to half its size (proved).
* `QueueSpec`: every step is a step of `MessageQueue` or none.

Those of the rest:

* `EventSpec` (`Interrupt`): a wait that returns 0 has had a signal of its own, a call that
  returns -1 has neither given nor taken one, and nothing else uses signals up.
* `WaitReturns` (`Interrupt`): a thread that waits while a signal is pending returns,
  unless other threads take the signals first.
* `DamageIsSeen` (`Benchmark`): a message validates exactly when no cell that is looked
  at was damaged. `seq`, `timestamp` and the last cell are not looked at.
* `PercentilesAreRight`: of the latencies measured, more than p percent do not exceed
  the p-th percentile, and at least 100 - p percent are not below it.
* `OneServerPerSegment`, `CalmRoundSucceeds`, `NameIsRemoved`, `CalmRoundsEnd` (`Harness`):
  no two servers share a segment; a make that is alone always meets its own server,
  its rounds come to an end, and a server that ends by itself cleans up (the latter,
  `NameIsRemoved`, is proved and not run).

Runs that end in a violation, each a statement of a comment that the program does
not keep (details under "findings" in `PROJECT.json`):

| run | statement | what happens |
|---|---|---|
| `lfshm_init` | the client waits for the server to initialize | `ready` is set before the flags are cleared; a signal is lost and both wait for ever |
| `lfshm_uring_read` | the client waits for the response | after an io_uring error it reads the ring at once, next to the server |
| `shm_blocking_init` | `ready` is set after initialization | the compiler sets it before; a request is wiped out |

### What the code does not promise, and the models show

* A client that is let go by a shutdown may count its own request: one op too many,
  never more (`UnansweredOnlyAtShutdown`). The socket transports never do (`EchoSpec`
  of `Uds` maps `unanswered` to 0).
* The result of the io_uring wait is dropped (`lfshm_nonblocking.c:407`). When client and
  server then read the same frame, one frame stays behind in the ring, and over a long
  run these fill it, whatever its size. The server lowers its flag (line 326), cannot write
  its answer, signals nobody (lines 339-340) and waits; the client waits for the answer:
  both sleep for ever. TLC finds this with 2 slots and 2 requests if `NoRoomForAnswer` is
  taken out of `ClientFinishes` of `Lfshm`.
* The results of `interrupt_signal` and `interrupt_wait` are dropped in
  `shm_nonblocking.c` (lines 274, 369, 371 and others). After a lost signal the two threads
  wait for each other for ever; after a wait that failed both use the message buffer, a
  message may be sent twice, and an answer may be counted for another call.
* A shared-memory server looks at its deadline only between two messages: one that
  nobody calls any more never ends. The makefile kills it.
* A request that does not validate is dropped by a shared-memory server, and both
  processes then wait. The properties say `dropped` where this matters.
* A ring accepts messages of up to half its size, its readers take 128 KiB; a longer one
  stays at the head (`RingBuffer` with `MaxRead` below half of `Size`; the run has them equal).
  No caller sends more than 4 KiB.
* A stream that is cut at an end without a loop gets out of step: the client then
  counts messages that do not validate, or both ends wait for each other until one
  closes. `InStep`, `EchoSpec` and `BothFinish` are about `Regular` settings; `TypeOK` (no
  `recv` leaves its buffer) and `HangupFreesPeer` hold for all of them.
* Two makes at a time may take each other's name away, and their clients then fail or
  wait. `OneServerPerSegment` is what remains.

### Bounds

* `MaxMsgs` bounds the requests a client sends (3; 2 in `uds`): the ring has turned
  around once and every slot and flag has been used again; one further call
  begins in the same state as the one before, up to the numbers. `MaxFaulty` bounds them
  where calls on the interrupts fail (2), and also the signals that may pile up for the main
  thread there (`ThreadWaitFails`): each failed wait lets the client thread make one call
  more.
* `NSlots` 2 is the smallest ring (one frame and the free slot), which frames that stay
  behind after failed io_uring waits fill within two requests; 4 with three requests in
  `shm_blocking` lets the positions turn around.
* `FutexMod` 4 is the smallest width at which the protocol is sound: between the
  load of a version and the sleep at most three signals are sent to a waiter
  (an answer, the one of the shutdown; the server gets a request and its own).
  The proofs need `FutexMod > 3` and no more; the code has 2^32. Where io_uring fails
  a signal may come with every request, and `lfshm_uring` has 8 versions for 3 of them
  (`WakeupsArriveAnyway` says what is enough).
* `Capacity` 3 with three threads: the descriptor is full, empty and in between while
  others are inside a wait.
* `HdrLen` 2, `MsgLen` 4, `MaxLen` 5: header and body can each be cut in two, a wrong size
  can be shorter or longer than the message, and the buffer is longer than a message.
* `Size` 16 with frames of 5, 7, 12 bytes: the positions reach every residue, so
  every cut of the length word and of a message happens; the 8-byte message is
  exactly half the ring, the 9-byte one is over it.
* `Base` 2 gives the length word four digits that all matter.
* `TopBit` 8 with payloads of one or two bytes of 0, 4 and 8: the rotation brings the
  top bit of the word around; 8 is the least power of two at which the markers fit a
  word, and the addition of 8 to a rotated 4 leaves it. The proofs are about any
  width, any bytes and any length. `MaxLatencies` 30 with batches of 1 and 19 and three steps: counts
  from 1 to 30, the limit reached in the middle of a batch, and the 95th and 99th
  percentiles at different places. `MaxPayload` 3 is exclusive, as in `random_message`.
* `MaxRounds` 3: a round after one that was interrupted, after one that ended, and two
  overlapping ones with one before or after them.

### Fairness and stopping

Each process is scheduled (`WF` of its actions) and time passes (`WF` of
`Expire`; in `Uds`, where the clock matters only at the head of a loop, `SF`). In
`ShmBlocking` and `ShmNonblocking` the mutex is given to a process that asks for it
again and again (`SF` of the lock steps): POSIX promises no order, but the competitor
holds the mutex for bounded work and then waits, and only an endless series of
spurious wake-ups could shut a process out. Nothing is assumed of spurious
wake-ups, of io_uring failures and of calls on an interrupt that fail. In `Interrupt` a thread inside a call goes on with
it, nobody has to make one. In `Harness` the makes, setups, ends and clients go on;
nothing is assumed of a server's end by itself, of interruptions and of a client whose
server is dead.

Deadlock checking is off where the system ends, and because a server whose client
has gone does wait for ever; what must not stop is stated by `ClientFinishes`,
`ServerFinishesWhenCalled`, `NoMutualWait`, `HandoverGoesOn`, `WaitReturns`, `BothFinish`
and `CalmRoundsEnd`. It is on for the ring.

## 4. What is proved

Everything below holds for every value of the constants that the assumptions of the
modules admit, not only for the instances of the runs. Eight modules hold the proofs,
`ShmSegmentProofs` the lemmas that two of them share.

**`LfshmProofs`**, for every number of slots above 1, every futex width above 3 and any
number of requests:

* `TypeInv`: the type invariant, also when io_uring fails;
* `RingExclusion`, `TransferSuccess`, `FreshAnswer`, `WakeupsArrive`,
  `UnansweredAtShutdown`: the safety properties above, assuming that io_uring does
  not fail (`~UringMayFail`);
* `SomebodyCalled`: `NoMutualWait`, assuming also `StaggeredStart` (without it the
  property is false, see `lfshm_init`);
* `EchoRefinement`: `Lfshm` implements `EchoService`, under `~UringMayFail`;
* `WakeupsArriveAnyway`: `NoLostWakeup` whatever io_uring does and whenever the client
  starts, if `FutexMod > MaxMsgs + 2`.

The last one is what the run `lfshm_uring` checks. Its hypothesis is needed: a client
whose wait fails sends one request after the other, and with 6 requests and 4 versions
TLC finds the futex word back at the version that the server has loaded; so the three
advances that `Versions` below allows are true of a working io_uring only. The proof counts
instead: the server's word is advanced at most once for a request and once by the
shutdown (`ServerAdvances`), the client's at most once for every time the server's flag
was raised and once by the shutdown (`ClientAdvances`), so that no word wraps
(`NoWrap`) and a waiter's version is never ahead of the word (`Loaded`).

The safety properties are not inductive: the exclusion rests on what the other
process has not done yet. The invariant `Inductive` is `TypeOK` and

* `Turn`: for each control point of the client, where the server can be and which
  flags can be up, so that the two control points together say whose turn it is;
* `Frames`: what the ring holds on each turn (nothing, the request, or the
  answer), and which position each process has loaded;
* `Answers`: the sequence number in the ring or the buffer is `ops + 1`, and how
  `unanswered` relates to the shutdown;
* `Versions`: a waiter that is about to sleep on a version has either the current
  one, or one that is behind by the signals given since, at most three, and then
  its flag is up or its waker still on the way;
* `Called` (only with `StaggeredStart`): one of two waiters has been signalled.

`Invariant` proves it inductive, action by action; the theorems about the
properties follow from it in one step each. The refinement maps the call in
flight to "sent" until the frame at the read position is the server's, and to
"answered" from then until it is counted; each action is a step of `EchoService`
or leaves its variables alone.

**`ShmSegmentProofs`, `ShmBlockingProofs`, `ShmNonblockingProofs`**, for every ring and
any number of requests. `WakeupsArrive`, and `TypeInv` of `ShmBlocking`, hold whenever
the client starts; all else assumes `StaggeredStart`, as a client that comes between the
stores of the setup can lose its request (`shm_blocking_init`).

* `TransferSuccess`, `FreshAnswer`, `UnansweredAtShutdown`, `SomebodyCalled` and
  `EchoRefinement` of both;
* `MessageOwnership`, `HandoverNeverStops`, `NewRequests` of `ShmNonblocking`, and its
  `TypeInv`, which says that the two interrupts never hold more than two signals and one
  while no call on them fails.

Here a call has phases, and the invariant is their disjunction `Phase`: `Idle`,
`Requested`, `Served`, `Answered`, `Refused` (the server dropped the request), and `Shut`
once the server has closed. A phase says where each process can be, which flag is up
and what is in the ring; every critical section leads from one phase to one other.
`Started` says that the client meets a segment whose setup is done, `Numbers` which
call the frames belong to, `Counted` what the shutdown may cost. `SameCall` says that the frame
the client waits for, or the server works on, is of the client's current call.

For the two threads the invariant has two layers. `Phase` is about the segment alone, which
only the client thread touches: it holds whatever the interrupts do, and so
`TransferSuccess`, `WakeupsArrive` and `SomebodyCalled` hold when they fail too, and so does
`Joined`, which says that the main thread is done only when the client thread is.
`Settled` is what a working interrupt adds: as long as the client thread lives
(`HandoverBefore`) the place of the main thread, the one of the client thread and the
signals in the two interrupts determine each other; `HandoverAfter` is the way out. The
invariant is `Phase`, `Joined` and `~intrFails => Settled`.

At its end `ShmNonblockingProofs` takes `Interrupt` as `Descriptor` (an instance with its
own threads and capacity) and proves for any number of threads and any capacity
`DescriptorTypeInv` (no write goes past the capacity, nobody is inside a destroyed
interrupt) and `EventRefinement`, with `count` as the signals of the event, calls that
fail included. So what the client assumes of its two interrupts, a wait that succeeds has
used up a signal and one that fails none, is what eventfd and pipe both provide.

**`RingBufferProofs`** proves, for every size of the buffer above 12 bytes, every base
of a byte and every set of messages (`RingAssumption` asks no more than that the
length word can hold half the size), all six properties of the ring: `TypeInv`,
`FramesIntact` (`Contents`), `NoOverlap` (`Disjoint`), `EmptyMeansEmpty`
(`EmptyIsEmpty`), `EmptyTakesHalf` (`EmptyAcceptsHalf`) and `QueueRefinement`
(`QueueSpec`). Its invariant `Inductive` is `TypeOK`, `Contents`, `Disjoint`,
and that no queued message is longer than half the buffer (`Short`, so that the
length word gives its length back) and that an empty queue has equal positions
(`Drained`). `Disjoint` is what makes `Contents` inductive: it places every unread
frame before the write position, seen from the read position, and a write stays
behind that. The argument rests on lemmas about the two-part copies: the two
`memcpy`s are one copy around the circle (`StoreAt`, `FetchAt`), what was stored is
fetched again (`FetchStored`), what lies outside stays (`FetchOther`), and the
length word gives the length back (`ValueOfHeader`).

**`BenchmarkProofs`**, for words of any width, any bytes, payloads of any length, any
number of calls and any size of the array:

* `OneByteChangesChecksum`: two payloads that differ in one byte have different
  checksums. One step of the checksum is injective in the sum so far (`SumsStayApart`:
  the rotation loses no bit, the addition of the same byte can be undone) and in the byte
  (`ByteCounts`), so a difference, once there, stays to the last byte;
* `OneDamageIsSeen`: in a message that validates, a change of any one cell is refused,
  except of `seq`, of `timestamp` and of the last cell; `ComposedIsValid`: whatever
  `random_message` composes validates, whatever its buffer held before;
* `SortedInOrder`, `SortedKeepsAll`: the sorted array is in order and holds every latency
  as often as before; `PercentileOfOrdered`: in an array in order the entry at
  `count * p / 100` is a percentile, and the index is inside, whatever `count` is;
* `TypeInv`, `DamageSeen` (`DamageIsSeen`), `PercentilesRight` (`PercentilesAreRight`).

`DamageIsSeen` speaks of the moment after the verdict and is not inductive. `Inductive`
adds what a client hands over (`Handed`: an undamaged message that validates) and what
the verdict will be (`Verdict`: what arrived validates exactly when nothing that is
checked was damaged; that a wrong length is seen follows from `size` alone). For the
percentiles it adds that there are none before the end (`StatsAtTheEnd`), for `TypeOK`
that a call in flight may still be counted (`CallsBounded`).

What a recursive definition computes needs induction. The checksum is a recursive
function, and the induction is over a set: `Induction` says that a set which holds 0 and
with each number the next one holds them all, by a minimal counterexample (`WFMin` and
`NatLessThanWellFounded` of the library). That the sums exist, that they are words and
that a difference stays are three such sets.

**`HarnessProofs`**, for any number of makes and rounds: `ServersApart`
(`OneServerPerSegment`), which follows from the fact that a server only holds a segment
it created; `CalmSuccess` (`CalmRoundSucceeds`) and `NameRemoval` (`NameIsRemoved`),
which need to know what a make that is alone finds in `/dev/shm` at each step of its
recipe (`Alone`), and, if it is in time, how the places of recipe, server and client go
together (`InTime`), whatever an interrupted round left behind.

**`UdsProofs`**, for every length of header, message and buffer and any number of
requests:

* `TypeInv`, for every setting, also when the stream is out of step: an accepted size
  fits the buffer and no `recv` writes past it (`Cursor`: a part that is being moved is
  not complete, which bounds the next `recv`);
* `FramesInStep` (`InStep`) and `EchoRefinement`, for the `Regular` settings;
* `SomebodySends`: in these settings server and client never both wait in a `recv` that
  finds neither data nor the end of the stream, which is what `BothFinish` rests on.

The invariant is again a disjunction of phases, `Quiet`, `Asked`, `Taking`, `Answering`,
`Answered`, `Counting` and `Lost` (the server closed with the request unread). In
each the streams and buffers hold exact pieces of one message: `Carries(s, c, n, m, q)`
says that stream s holds the units n + 1 to m of the message of call c that q sends,
`Filled(b, c, n, q)` that a buffer holds its first n. Three lemmas about them
(`RestOfStream`, `MoreOfMessage`, `MoreOnTheWay`) carry all steps that move data, in
whatever pieces. A server, which never loops, finds whole messages because only the
ends that loop are ever cut: this is where `Regular` is needed.

Every invariant that a run checks is also proved, and so is every refinement. Only
model-checked: the liveness properties (`ClientFinishes`, `ServerFinishesWhenCalled`,
`WaitReturns`, `BothFinish`, `HangupFreesPeer`, `CalmRoundsEnd`), since fairness is out of
the prover's reach. What a comment says and the program does not keep is refuted by TLC.

## 5. What is not modelled

* Errors of `malloc`, `shm_open`, `ftruncate`, `mmap`, `pthread_create`,
  `interrupt_create`, `io_uring_queue_init` and of setting up a socket: the program
  reports them and ends.
* Average latency, CPU usage, rates (which divide by the default duration) and all
  printing: floating point and output.
* Option parsing, the usage text and the macOS side of the conditional compilation.
* The payload of a message beyond `Benchmark` and `RingBuffer`: in the transports a
  message is its sequence number and its origin.
* A kill of one process in the middle of a critical section: the mutex stays locked and
  the peer waits for ever. The models of the transports kill no process, and `Harness`,
  which does, has no mutex.
* A message that one thread of `shm_nonblocking.c` writes while the other reads it,
  which can happen when `interrupt_wait` fails: such a message is one or the other in the
  model, never a mixture.
