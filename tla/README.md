# ACWebserver in TLA+

TLA+ models of ACWebserver, a multi-reactor HTTP server in C++: one main loop
accepts connections, a pool of loop threads serves them with edge-triggered
epoll, a timer queue per loop closes idle connections, and an asynchronous
logger writes the log. The models are checked with TLC on small instances, and
the safety properties that matter most are proved with TLAPS for every value of
the constants. Paths below are relative to the repository, `src/` in
`PROJECT.json`.

## 1. The system

### Components

| component | state | operations | interacts with |
|---|---|---|---|
| **HttpData** (`WebServer/HttpData.*`) | `inBuffer_`, `outBuffer_`, `error_`, `connectionState_`, parser state (`state_`, `hState_`, `nowReadPos_`, `headers_`), `keepAlive_`, weak `timer_`, its Channel | `newEvent`, `handleRead`, `handleWrite`, `handleConn`, `handleClose`, `handleError`, `reset`, `seperateTimer`, `parseURI`, `parseHeaders`, `analysisRequest` | Channel calls it back through a raw `this`; it (re)registers with Epoll through its loop; timer nodes and `fd2http_` own it |
| **Channel** (`Channel.hpp`) | `events_`, `revents_`, `lastEvents_`, callbacks | `handleEvents`, `eqAndUpdateLastEvents` | called by EventLoop, filled in by Epoll |
| **Epoll** (`Epoll.*`) | `fd2chan_`, `fd2http_`, a TimerManager | `epoll_add`, `epoll_mod`, `epoll_del`, `poll`, `getEventsRequest`, `add_timer`, `handleExpired` | owned by EventLoop; holds the `shared_ptr` that keeps an HttpData alive |
| **EventLoop** (`EventLoop.*`) | `pendingFunctors_` under `mutex_`, eventfd, `qiut_`, `callingPendingFunctors_`, `eventHandling_` | `loop`, `queueInLoop`, `runInLoop`, `doPendingFunctors`, `wakeup`, `handleRead`, `quit` | called by its own thread and by every other |
| **TimerManager, TimerNode** (`Timer.*`) | priority queue of `shared_ptr<TimerNode>`; a node has `expiredTime_`, `deleted_` and a `shared_ptr` to its HttpData | `addTimer`, `clearReq`, `isValid`, `handleExpiredEvent`, `~TimerNode` | the destructor of a node closes its connection |
| **Server** (`Server.*`) | listening descriptor, accept Channel | `start`, `handNewConn`, `handThisConn` | picks a loop from the pool, queues `newEvent` on it |
| **EventLoopThread, EventLoopThreadPool** | `loop_`, `exiting_`, thread; `next_` | `startLoop`, `threadFunc`, destructor; `start`, `getNextLoop` | publish a stack-allocated EventLoop through `mutex_`, `cond_` |
| **Thread, CDLatch, Condition, MutexLock** | started and joined flags, a count | `start`, `join`, `wait`, `countdown` | under the two above and AsyncLogging |
| **Util** (`Util.*`) | none | `readn`, `writen`, socket options | string buffers of HttpData, edge-triggered sockets |
| **AsyncLogging** (`utility/AsyncLogging.*`) | `currentBuffer_`, `nextBuffer_`, `buffers_` under `mutex_`; `newBuffer1/2`, `buffersToWrite` of the thread; `running_` | `append`, `start`, `stop`, `threadFunc` | every thread that logs |
| **LogFile, AppendFile** (`utility/LogFile.*`, `utility/FileUtil.*`) | `count_`; a `FILE` with a buffer of its own | `append`, `append_unlocked`, `flush`, `write` | called by the logging thread |
| **LogStream, Logging** | a small buffer per object | `<<`, number formatting | turn values into a line for AsyncLogging |

### How a connection lives

The main loop's accept handler builds a `shared_ptr<HttpData>` and queues
`newEvent` on a sub-loop (`Server.cpp:49-72`). `newEvent` registers the channel
one-shot and arms a timer. From then on three kinds of `shared_ptr` own the
object: the queued task, the entry in `fd2http_`, and each timer node that has
not been cleared. A pass of `EventLoop::loop` polls, handles the returned
channels, runs the queued tasks and expires timers. `handleEvents` calls
`handleRead`, `handleWrite` and `handleConn` in a row; `handleConn` rearms the
registration and the timer, or closes. The last `shared_ptr` to go closes the
descriptor, which `accept` may return again at once, for another loop.

### What is hard, and what makes it correct

| component | hard behaviour | correctness |
|---|---|---|
| HttpData, Channel, Epoll | callbacks on a raw `this` while owners come and go; descriptors reused across loops; edge-triggered and one-shot registrations with a cached mask (`lastEvents_`); partial writes | table entries own what they name; a handler's object is alive; an idle connection is registered for what it waits for; no edge is lost; no response is cut |
| EventLoop | tasks queued between the swap and `epoll_wait`; `quit` from another thread at any moment | no wakeup is lost; tasks form a FIFO queue; a quit ends a running loop |
| TimerManager | a clock that wraps every 10000 s; lazily deleted nodes in a heap; closing from a destructor | never closes early; misses nothing that is overdue; at most one live node per connection |
| AsyncLogging | buffers that change owner five times a round, some outside the mutex; dropping under load | one place per buffer; nothing lost but with a dropped buffer |
| LogFile, AppendFile | short writes that are repeated, a stdio buffer between a line and the disk, a process that is killed | the disk has the lines in order; a kill loses the last round at most; every line gets there |
| Util | read and write loops over single system calls, while the client sends, reads, closes or resets between two of them | no byte is lost, repeated or reordered; the handlers may take the loops for atomic |
| EventLoopThread | a handshake around thread creation; a stack object published to others | `startLoop` returns a loop that runs; nobody uses it after its end |
| Server | an edge-triggered accept loop that stops on an error; descriptors at their limit; a loop that ends with connections queued | a main loop that waits has nobody waiting for it; each descriptor has one holder until it is closed; a queued connection is served or closed |
| the parser | a request cut at any byte, a reset between requests | answers in order, one for each request; what the other handlers find afterwards is what they rely on |

## 2. Modules

| module | models | state |
|---|---|---|
| `Poller` | external: one socket and its epoll entry (edge triggering, one-shot, ready list), and `Util`'s `writen` as one step | none: operators |
| `ReadOutcome` | what a pass of `handleRead` can do to the fields the reactor depends on | none: operators |
| `Reactor` (extends both) | HttpData, Channel, Epoll's tables, who holds what through timer nodes, and one pass of each sub-loop, with clients and the accepting thread around them | `http`, `sock` per object; `fd2chan`, `fd2http`, `phase`, `batch`, `cur`, `wake` per loop |
| `MCReactor` | symmetry for TLC | - |
| `ByteStream` | abstract: a stream delivers its bytes in order, each at most once, none skipped | `pushed`, `queue`, `out`, `ended` |
| `SocketIO` (extends `Reactor`) | `readn` and `writen`, one system call per step, over queues and buffers of bytes; refines `Reactor` and `ByteStream` | `io` per object |
| `HttpParser` (uses `ReadOutcome`) | `parseURI`, `parseHeaders`, `analysisRequest` and the stages of `handleRead`, on one connection | `requests` and `taken` of the client's stream, the HttpData, `again`, `whole` |
| `LoopThread` | EventLoopThreadPool::start, EventLoopThread, and Thread, CDLatch and Condition under it | `main` and `i` of the main thread, `loops_`, each thread's place, latch, `loop_`, EventLoop |
| `Server` (extends `LoopThread`) | the main thread's `start` and accept loop, the listening socket, round robin, the way of each descriptor; refines `LoopThread` | `srv`, `backlog`, `watch`, `listed`, `asked`, `hand`, `nextLoop`, `open`, `pending`, `served` |
| `TaskQueue` | abstract: a FIFO of tasks each executed at most once | `queue`, `done` |
| `EventLoop` | one EventLoop with its callers; refines `TaskQueue` | `pc`, both task vectors, eventfd, ready list, `qiut_`, callers |
| `TimerQueue` | TimerManager and TimerNode with the wrapping clock | `clock`, `queue`, `node`, `timer`, `open` |
| `AsyncLogging` | the double-buffered log | buffers and their contents, the thread's place, what was handed over |
| `LogFile` (extends `AsyncLogging`) | LogFile and AppendFile under the logging thread, the stdio buffer and the disk; refines `AsyncLogging` | `stdio`, `disk`, `count`, `repeating`, `n` |
| `ReactorProofs`, `SocketIOProofs`, `HttpParserProofs`, `EventLoopProofs`, `TimerQueueProofs`, `AsyncLoggingProofs`, `LogFileProofs` | the theorems about the module in the name | - |
| `ServerProofs` | the theorems about `LoopThread` and `Server` | - |

How they fit together. `Server` accepts and queues a connection; `Reactor` takes
it from there (its `HandNewConn` is the accepting thread seen from a loop);
`SocketIO` opens the two calls that `Reactor` takes for atomic, and `HttpParser`
the parser that `Reactor` takes for a choice among `ReadOutcomes`. `EventLoop`
has the inside of `queueInLoop` and `quit`, `TimerQueue` the inside of the expiry, that `Server` and
`Reactor` take for one step.

`PROJECT.json` maps every definition to its lines.

### Abstractions

**Reactor.** An HttpData is a record. `life` says which owner it has beside
tables and timers (the `newEvent` task in `pendingFunctors_`, or in the swapped
vector); `timers` counts its uncleared nodes and `linked` says that `timer_`
locks. `out` and `more` say that a buffer is not empty. What the parser makes
of the bytes read is nondeterministic over every outcome that
`handleRead` has (incomplete, bad, a request finished with or without a
response, more input behind it); `HttpParser` says which. The steps of one pass are separate actions
(`Poll`, `Dispatch`, `HandleRead`, `FinishRead`, `HandleWrite`, `HandleConn`,
`SwapFunctors`, `NewEvent`, `FunctorsDone`, `HandleExpired`), so that clients
and other loops act between them. Time is left out: expiry may hit any set of
connections that have a node. `EPOLL_CTL_ADD` and
`EPOLL_CTL_MOD` may fail, which drops the channel from the table. A new object takes its identity
and a descriptor that nobody has open; both are reused for ever, so behaviours
are unbounded although the sets are small. `HandNewConn` leaves out the accepting thread's own
`shared_ptr` (`req_info`, `Server.cpp:68-72`), which goes at the end of that iteration: an object may
go a step earlier than in the code, which only makes reuse come sooner.

**EventLoop.** A call from another thread is two steps, since `queueInLoop`
releases the mutex before `wakeup`. `qiut_` and `callingPendingFunctors_` are
read and written without synchronisation: each read is modelled as atomic and
made at the point where the code reads. Wakeups of `epoll_wait` by other
descriptors can come at any moment. `quit` is called from other threads only
(the repository has no other call), and nothing is called on a loop that has
ended: the end of a loop is the matter of `LoopThread`.

**TimerQueue.** The clock is the value that `isValid` computes, modulo
`Period`; `gettimeofday` is taken to move forward steadily. The heap is a set,
its top a least element. `left` is a history variable: the real time
until a node's timeout is over, which the wrapped clock does not show.

**AsyncLogging.** The k-th appended line is the number k, of length one, so a
buffer of `Capacity` holds `Capacity - 1` lines (the code's test is
`avail() > len`). Buffers have identities, in order to see sharing; freed
identities are used again. The thread's wait may end at any time, which covers notify, the
time-out and spurious wakeups. `running_` is read without the mutex: an atomic read.
A line longer than a buffer is not modelled.

**LogFile.** The unit that stdio accepts is a line. At any write stdio may pass
on any part of what it has. A short `fwrite` takes a part of the
buffer; the loop after it, which asks for the whole length again from
`logline + n_`, reads beyond the end of the line: what it finds there is `Junk`, and
`MaxAhead` bounds how far it gets. In the code this may be stale lines of an earlier use of the
buffer, since `FixedBuffer::reset` only moves `cur_` (`LogStream.hpp:42`); `DiskInOrder` and
`WrittenInOrder` leave it out of account, so they say nothing of what gets between the lines.
A flush may fail. The last call of
`AppendFile::append` is one step with the counting after it. Killing the process
is no action: it leaves `disk`, so what holds of `disk` in every state
holds after a kill. `swapped`, `safe` and `faulty` are history variables: the lines
appended before the last swap, those before the last swap whose round is complete, and whether a
write has failed.

**LoopThread.** A critical section is one step, since a mutex is only held over
the wait of a condition. Waits can end spuriously; creating a thread can fail.
Of the loop's pass only the test of `qiut_` and the wait in `poll` are kept.
`Wakeup` on a loop that has ended in the meantime does nothing: in the code it
writes to a closed descriptor. The pool is destroyed after the main loop has
returned, in the order of its vector.

**Server.** A step of the main thread lies between two system calls, so that
clients connect and loops close connections in between. `accept` returns the
lowest free descriptor, or fails at any moment; `fcntl` and `EPOLL_CTL_ADD` may
fail too. A pass of a loop is one step here (it closes some connections and
adopts the queued ones), and so is `queueInLoop`. The main loop is told to quit at a time of its own; a loop
that ends drops its tasks and its connections (the timer nodes that are destroyed with the Epoll close theirs through
`handleClose` while its tables still exist, `Timer.cpp:28`; it comes to the same). `stranded` is a history variable:
`accept` failed with clients waiting and nobody has come since.

**SocketIO.** The bytes of a direction are 1, 2, 3, ... in the order sent. Each
call of `read` or `write` is a step; the last call of a loop is one step with
the return from the loop and what the handler does with it, since nothing of other
threads touches the object between them. `inq`, `space`, `rst` and `out` of
`Reactor` are what the handlers and epoll go by: `inq` and `space` change when a loop ends, and
`SocketIOProofs` shows how they agree with the queues and buffers (`Agreed`). How many bytes an answer has,
and whether it is assigned (`hello`) or appended, is nondeterministic.
EINTR repeats the call and is no step.

**HttpParser.** A stream is a sequence of tokens, each of which the parser
treats as a unit; a cut inside one has the effect of a cut at one of its ends. A
header block is Host, Host and Accept, nothing, Content-length, or a value
over the limit. An answer is a method and a name, or a status of failure. A step
reads as much as has arrived (`readn` drains the socket), ends with EAGAIN, the end
of the stream or an error, and runs all stages of `handleRead`; the recursive call is a step of its
own, before which more may arrive. `handleError` writes past `outBuffer_`. Whether a file
exists, opens and maps is nondeterministic. The text between positions that are
unset (a header resumed by a later read) begins with the byte before the buffer: a token
that equals no other. `Reading` follows the masks of `handleConn`. A closed
connection keeps only the record of what it has sent. `whole` is a history
variable: how many requests have been read while every read ended at a harmless place.
No path contains a method or a separator, nor is it `index.html` itself (`ParserAssumption`): the parser looks for
methods and separators anywhere in a line, so that such a path is taken for another request, and the root is answered with `index.html`.

## 3. The runs

All bounds are the constants in the `.cfg` files.

| run | module, cfg | bounds | states | question |
|---|---|---|---|---|
| `reactor_conn` | `MCReactor`, `MCReactorConn.cfg` | 1 loop, 2 descriptors, 2 objects | 685,782 | ownership, timers and registrations under every interleaving |
| `reactor_live` | `MCReactor`, `MCReactorLive.cfg` | 2 loops, 1 descriptor, 2 objects | 49,465 | a descriptor that goes from loop to loop; output is retried, requests are read |
| `reactor_orphan` | `MCReactor`, `MCReactorOrphan.cfg` | 1 loop, 1 descriptor, 1 object | violation | output that nobody watches |
| `socketio` | `SocketIO`, `SocketIO.cfg` | 1 loop, 1 connection at a time, reads of 2 bytes, 2 bytes of send buffer, 3 bytes sent, 5 bytes of answers | 88,787 | are the loops atomic for the handlers, and are the bytes right |
| `httpparser` | `HttpParser`, `HttpParser.cfg` | 2 requests of 13 kinds, 2 names, values up to 6 tokens | 58,311 | answers, and what a pass leaves behind, under every cutting of the stream |
| `httpparser_line` | `HttpParser`, `HttpParserLine.cfg` | 1 request, 1 name | violation | a request line in two pieces |
| `server` | `Server`, `Server.cfg` | 2 threads, 3 descriptors of which the third is refused, backlog of 2 | 98,378 | accepting, handing over, start and end of the pool |
| `eventloop` | `EventLoop`, `EventLoop.cfg` | 3 tasks, 2 callers, eventfd counts to 2 | 8,490 | wakeups, FIFO refinement, liveness |
| `eventloop_quit` | `EventLoop`, `EventLoopQuit.cfg` | 1 task, 1 caller | violation | a quit before `loop()` |
| `timerqueue` | `TimerQueue`, `TimerQueue.cfg` | 2 connections, 3 nodes, period 4, timeouts 1 and 2 | 59,912 | expiry across the wrap |
| `timerqueue_wrap` | `TimerQueue`, `TimerQueueWrap.cfg` | 1 connection, 2 nodes | violation | a node the clock never reaches |
| `logging` | `LogFile`, `LogFile.cfg` | 6 lines, 2 per buffer, 7 buffers, more than 2 waiting are dropped, every second write flushed | 321,834 | assertions, sharing, loss, order on disk, a killed process |

Why the bounds are enough:

- *Reactor.* Two connections on one loop give batches with two channels, a close
  of one while the other is handled, and the reuse of either descriptor and object; two
  loops with one descriptor make every new connection a reuse, on the same
  or on the other loop. Every property speaks of one connection or of
  a pair. Symmetry is used in `reactor_conn` only, which has no liveness property.
- *EventLoop.* Three tasks occupy both vectors and still leave one to queue; two callers
  overlap between unlock and wakeup; the eventfd's counter
  stops at 2, which only keeps the states finite: the real limit of 2^64 - 2 is out of reach, and a
  wakeup that is refused at the bound leaves the loop no less awake.
- *TimerQueue.* Three nodes are a cleared one, its successor and another
  connection's, in any order of expiry; with a period of 4 and timeouts up to 2
  every node is created on each side of the wrap.
- *SocketIO.* Three bytes make a read of two, a second one and an EAGAIN, with the client
  between any two; answers of up to five bytes do not fit the send buffer of two, so that
  a write is short, waits for room and goes on, more than once.
- *Server.* With two threads one can be in any place while the other is being started
  or ended, both ends of the loop over the pool are reached, and the round robin comes
  round. Three descriptors give one on each loop and one that is refused (`accept` may fail at any
  time besides). A backlog of two is one to accept and one that comes meanwhile.
- *LogFile.* Six lines fill three buffers: the queue exceeds the limit, `nextBuffer_` is used up
  and buffers are allocated while the thread writes. Seven identities are one for each place plus the three
  that can wait. A flush every second write leaves writes with and without one.

- *HttpParser.* The first request leaves behind what the second one meets (leftover bytes, the
  state of the parser, pending output); a third would meet nothing new, since
  `reset` runs after each. The limit of 6 tokens lies above a resumed header of normal length
  and below the long one.

`CHECK_DEADLOCK FALSE` is in each configuration because the systems really stop: a
server without clients waits, a loop that has ended and a log that was stopped do
nothing more, and the counts of tasks and lines are bounded.

### The properties

*Reactor*: `TablesOwned` (an entry names a live object of that loop and
descriptor), `HandlerAlive` (a channel in the batch or in a handler is owned by
`fd2http_`), `OneTimer`, `TimerGuard` (a connected client outside a handler has
a timer node that ends it), `Attended` (an idle connection is armed
for what it waits for, although `epoll_mod` skips the call when
`lastEvents_` agrees), `NoLostEdge` (if it is ready for that, epoll knows),
`NoCutResponse` (a close that leaves output behind is one of a failed
connection), `OutputRetried` and `RequestRead` (liveness), `OutputWatched`
(violated).

*SocketIO*: `Spec` (`Reactor`'s specification: its atomic reads and writes describe the loops),
`Streams` (both directions of every connection refine `ByteStream`: nothing is lost, repeated or
reordered by short, interrupted or failed calls, only an answer to `hello` replaces what waits, and nothing
follows a failure), `AllWritten` (liveness).

*HttpParser*: `AnswersInOrder` (answers are to requests the client made, in order,
none twice), `WholeAnswered` (while reads end between requests, or around the LF of the
request line, every request with a header and without a body is accepted and answered),
`OutcomesForeseen` (whatever the parser does is one of the `ReadOutcomes` that `Reactor` relies on),
`LineComplete` (violated).

*Server*: `BacklogWatched` (a main loop that waits has its listening socket watched and nobody
unnoticed in the backlog, but for the two failures the code does not handle), `FdHeld` (every open descriptor
has one holder, from `accept` to the task to the tables to the close; only a failing `fcntl` loses one),
`Adopted` (a queued connection is served, or closed with its loop). Of *LoopThread* under it: `LoopsUsable` (the pool
holds loops that exist), `ThreadOutlived` (no thread is left when its
EventLoopThread is gone), `Started`, `QuitTaken` (liveness).

*EventLoop*: `NoLostWakeup`, `FifoSpec` (the refinement of
`TaskQueue` with `queue <- functors \o pending`), `QueuedRuns`, `RunningQuits`,
`QuitEnds` (violated).

*TimerQueue*: `HoldersLinked`, `NotEarly`, `NothingOverdue`, `LeavesInTime`,
`DeletedLeaves` (violated).

*AsyncLogging and LogFile*: `AssertsHold` (the `assert`s of `threadFunc`), `NoSharing`,
`NothingLost`, `DiskInOrder` (the disk and the stdio buffer have the lines in the order they were appended, none twice,
what short writes read beyond a line apart), `Flushed` (a killed process leaves
every line from before the last complete round), `OnDisk` (liveness: a line gets to the disk or is
dropped, even if none follows it).

The type invariants (`TypeOK`, in `Server` `ServerTypeOK`) are proved rather than run; `SocketIO`,
`LogFile` and `HttpParser` have none of their own. For every property of
a passing run `PROJECT.json` names a mutated definition, kept in the module
beside the original, under which TLC finds the property violated.

### Fairness

- `Reactor!FairSpec`: weak fairness of each loop's step (a thread that can run
  does run) and of `Drain` (a client that keeps its connection open reads what it is
  sent; a client that never reads has its connection end by timer, which is in
  the model but owes nothing). Sending and expiry are not fair.
- `EventLoop!FairSpec`: weak fairness of the loop's step and of `Wake`, the
  second half of a call that another thread has begun. No event of another
  descriptor is owed: liveness rests on the eventfd alone.
- `TimerQueue!BusySpec`: the loop makes a pass at least once at every value of
  the clock. `Epoll::poll` waits without limit and returns only with a channel
  (`Epoll.cpp:83-92`), so an idle loop does not expire anything; the liveness
  properties are stated for a busy loop.
- `SocketIO!FairIO`: the same, with each system call of a loop as a step that the thread
  takes if it can, and clients that go on reading.
- `LogFile!FairLog`: weak fairness of the logging thread, whose wait ends
  by its time-out (`AsyncLogging.cpp:72`), and of its writes, each of which may fall short but
  not for ever. Callers owe nothing.
- `Server!FairServer`: weak fairness of the main thread (starting and ending the pool, and its
  passes over the listening socket) and of every loop thread. No client, spurious wakeup or other event is
  owed.

### Findings

1. **Orphaned output** (`HttpData.cpp:325-327`, `OutputWatched`). If the client shuts
   down its sending side while a response is pending, `handleConn` puts EPOLLOUT
   into `events_` but does not call `updatePoller`, and the timer has been
   cleared. Epoll does not watch for writing and no timer ends the connection.
2. **Lost quit** (`EventLoop.cpp:93`, `QuitEnds`). `loop()` resets `qiut_` on
   entry, so a `quit()` between the publication of `loop_` and `loop()` has no effect.
3. **Node out of reach** (`Timer.cpp:24, 43`, `DeletedLeaves`). A node made
   within its timeout of the clock's wrap has an expiry time that the clock never
   reaches. Its connection is never timed out, and deleted nodes behind it stay.
4. **Incomplete line** (`HttpData.cpp:341`, `LineComplete`). `pos` is unsigned, `pos < 0` never
   holds, and a request line without its CR is taken for a whole one. It also
   stays in `inBuffer_` and is scanned as a header; the CR then makes it a Bad Request.

What the module says of other cuts, and why `WholeAnswered` has its conditions. A
header that is cut is scanned from its start in the state of its middle: it is
rejected, or stored under a key or with a value that is not the one sent; a cut between the
last header and the empty line is rejected. The byte after the
headers is dropped if it came with them (`:510`), so that a POST with its body in
the same piece waits for a byte that never comes, and a pipelined
request loses its first letter. A request without headers is not recognised as
ended (`:432`). A POST gets no answer, and its body is parsed as the next request.

## 4. What is proved

Every theorem holds for all constants that satisfy the named `ASSUME`s of the
module, and nothing else is assumed. Each proof has the same
form: an inductive invariant (`IInv`, or one named for what it says), one lemma per part with one step for each
action, and a theorem for each property that follows from it.

- **Reactor** (`ReactorAssumption`: `None` is not an object, descriptor or
  loop). `TypeCorrect`, `Ownership` (`TablesOwned`), `CallbacksSafe` (`HandlerAlive`),
  `SingleTimer`, `Guarded`. `TablesOwned` alone is not inductive: that closing
  through one entry leaves the others alone needs open objects to have
  different descriptors (`FdsApart`), live ones to be in the table they
  should be in (`ObjectInv`), and a loop to be in a handler just when `cur` is set
  (`LoopInv`). `GuardInv` is `TimerGuard` with the handler named.
  `AlwaysAttended` (`Attended`) and `EdgesKept` (`NoLostEdge`) rest on a second invariant, `WatchInv`: the mask of
  the kernel is `lastEvents_`, and in each phase of a pass it tells which events were reported, what
  the handlers can still leave in `events_`, and when an edge may be forgotten because `epoll_mod` will
  look again. `epoll_mod` skips its call only if the mask is not the one-shot one.
  `ResponsesWhole` (`NoCutResponse`) needs `OutputAsked`: a connection that has not failed comes to
  `handleConn` with `EPOLLOUT` in `events_` if output is left, whether `handleRead` or `handleWrite` tried
  last; and that nothing is destroyed before the end of `handleConn` (`DestroyedInConn`).
- **EventLoop** (`EventLoopAssumption`: an eventfd can count). `TypeCorrect`, `EdgeNeverLost`,
  `NoWakeupLost`, `ImplementsFifo`. `NoLostWakeup` speaks of `poll` only;
  `WorkSignalled` extends it backwards over the part of the pass in which the
  swap has already happened, `QuitSignalled` does the same for the flag. The refinement maps every step to a
  step of `TaskQueue` or a stutter; the swap is a stutter since the
  local vector is empty outside its execution (`LocalVector`).
- **TimerQueue** (`PeriodAssumption`, `TimeoutAssumption`, `NoneAssumption`).
  `TypeCorrect`, `HoldersAlwaysLinked`, `NeverEarly`, `ExpiryComplete`. `Links` is the converse
  direction of `HoldersLinked`; `Remaining` ties the history of real time to the
  wrapped clock: a wrap only moves the clock away from a node's time.
- **AsyncLogging** (`AsyncLoggingAssumption`: at least four buffers, a capacity of more than one
  line, a limit of at least two). `TypeCorrect` (no buffer overflows), `OnePlace`
  (`NoSharing`), `AssertionsHold`, `NoLineLost` (`NothingLost`). The key is `NextUsed`: `nextBuffer_`
  is missing only if a full buffer is queued, so the swap that gives away the
  second spare buffer gets at least two to make spares from (`Places`), even
  after dropping, because the limit is at least two. `Clean` says that free and
  spare buffers are empty.
- **LogFile** (`LogFileAssumption`). `ImplementsAsyncLogging`: every step is one of
  `AsyncLogging` or leaves it alone, so that the theorems above hold here.
  `KilledLosesLittle` (`Flushed`): the invariant `LInv` follows the lines of the
  last swap through the buffers that are being written, the stdio buffer and the disk.
  `WrittenInOrder` (`DiskInOrder`) rests on `DInv`. A line passes through the current buffer, the queue,
  `buffersToWrite` and the stream; its first half, `OrderInv`, says that what is further on that way was
  appended earlier, within and between buffers. The second, `StreamInv`, says the same of the lines in the stream and those
  that are still to be written, `n_` included: while a short write is repeated, the lines that it has
  passed on are in the stream and the others are not. What the repeated write reads past the end of a line (`Junk`)
  is left out of account, as in the property.
- **LoopThread** (`NumThreadsAssumption`, in `ServerProofs`). `PoolTypeCorrect`, `PoolUsable`
  (`LoopsUsable`), `NoThreadOutlives` (`ThreadOutlived`). `ThreadInv` ties `loop_`
  and the life of the EventLoop to the place of the thread, and says that only
  a loop that was told to quit is on its way out; `MainInv` says what the main
  thread has behind it.
- **Server** (`ServerAssumption`). `ImplementsLoopThread`, by which the two above hold of the server as well
  (`ServedLoopsUsable`, `ServedThreadsOutlived`);
  `DescriptorsHeld` (`FdHeld`) and `NobodyForgotten` (`BacklogWatched`) from `ServerInv`, which
  extends `BacklogWatched` over the pass of the main loop: while it accepts, the mask it will ask for and
  the list tell whether somebody may be forgotten.
- **SocketIO** (`SocketIOAssumption`). `ImplementsReactor`: the specification with single system calls implies
  `Reactor`'s `Spec`, so that every theorem about `Reactor` holds of it. A step inside a loop is a stutter; the last one of a loop is `Reactor`'s atomic
  action, which has to find the flags as it expects them. That is `FlagsTell`: `Agreed` says for each connection
  what `inq`, `space` and `out` tell of the queues and of `outBuffer_`, outside and in the middle of the loops, and needs
  `IInv` of `ReactorProofs` to know which loop handles which connection.
  `ImplementsByteStream` (`Streams`) needs one thing more, `PassInv`: what a connection's flags can be at each
  point of a pass. `error_` is set only on the way to `handleConn`, a finished request is seen only in the tail of `handleRead`,
  and a count of written bytes is kept only while `writen` runs, so that the abstract stream has ended just when nobody will read or write it again.
- **HttpParser** (`ParserAssumption`). `OutcomesComplete` (`OutcomesForeseen`): one lemma for each stage says what it keeps of a connection
  and in which states it can leave it, and these are put together along `handleRead`. Between two
  passes the connection is at rest (`RestInv`): it waits for a line, headers or a body, never in
  `STATE_ANALYSIS` or `STATE_FINISH`. What the scan of the headers computes need not be known for it:
  the lemma about `ParseHeaders` holds of any result of the scan. With this theorem the nondeterminism of `Reactor`'s and `SocketIO`'s
  `handleRead` is no assumption about the parser.
  `AnswersStayInOrder` (`AnswersInOrder`) does need to know what is computed. The stream and the scan are recursive functions;
  the library's induction theorems take an operator, which the provers cannot instantiate, so `Least` and `Induction` are proved for sets of numbers
  from the well-foundedness of `<`, and with them the scan and the stream unroll turn by turn and request by request
  (`ScanSteps`, `FlattenSteps`, `Layout`). `Marks` sums up what the parser can tell of the stream: a method stands only at the start of a request, the
  line of request `k` ends at the CR `Shut(k)`, and a colon before a line has a CR between the two. From it,
  a line that `parseURI` accepts, even a cut one, holds the beginning of exactly one request, and gives its method and name (`LineFinds`, `URIStage`).
  The invariant `OrderInv` is about the place in the stream that the parse has reached: everything sent or pending answers a
  request whose line ends before it, and `method_` and `fileName_` are those of a request not yet answered. An accepted line that
  was cut breaks this, as its text stays in the buffer and could be parsed again;
  but then the header scan finds the end of the line before any colon, and can only wait for it or fail (`Lost`, `HeadersStage`).
  `WholeRequestsAnswered` (`WholeAnswered`) follows the parse of one request forward. `WholeInv` says that while no cut does harm, as many answers are sent or
  pending as requests were read, and the parse is before the next request or has passed its line with at most the LF left (`Between`).
  A line that has arrived whole is accepted with its own method and name (`LineAccepted`), the scan of one or two headers goes through
  its states one by one to `H_END_LF` (`HeaderScanned`, `BlockScanned`), and with the LF alone it stays where it is (`HeadersWait`).

**Only model-checked.** Liveness (`OutputRetried`, `RequestRead`, `AllWritten`, `QueuedRuns`,
`RunningQuits`, `LeavesInTime`, `OnDisk`, `Started`, `QuitTaken`, `Adopted`): TLAPS does not handle `ENABLED`,
on which weak fairness rests. Every other property of a passing run is proved.

## 5. What is not modelled

- LogStream and the front end of Logging: they turn values into text in an object of
  the calling thread, and share nothing. `AsyncLogging::start` and its latch: the handshake is the one that `LoopThread` has.
- `std::stoi` throwing on a malformed `Content-length` (`HttpData.cpp:233`), which ends
  the process.
- `socket_bind_listen`, the socket options and the signal handler of `Util`: calls of the
  system made once, before there is anything to interleave with.
- `readn` without the flag (`Util.cpp:83`), `TimerNode::update` and its copy constructor: nothing calls them.
  `readn` and `writen` on a plain buffer serve the eventfd (`EventLoop.cpp:51, 60`), where they are one
  system call and one step of `EventLoop`, and `handleError`.
- `Main` (option parsing), `MimeType`, the favicon data: sequential start-up code and constant
  tables. `TestDemo/HTTPClient` and `WebBench`: clients, the latter third-party.

## 6. Plan

Every part of the server that changes state shared between threads, or over several
events, is modelled. What is left to do:

1. The links between modules that are argued in words only: that a node of `TimerQueue` does to its
   connection what `timers` and `linked` of `Reactor` say, and that the pass of `EventLoop` is the one that `Reactor`
   takes apart into phases. Both are refinements to be stated, checked and proved.
