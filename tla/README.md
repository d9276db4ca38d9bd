# Verification of sevent

sevent is a C++17 network library: event loops in the reactor style, one loop
per thread, with timers, TCP servers and clients, an asynchronous log, TLS and
HTTP codecs. This directory holds TLA+ models of its core, translated from the
code under `src/sevent`, the TLC configurations that check them on small
instances, and TLAPS proofs of what holds for every size. `PROJECT.json` lists
the runs, the source lines of every definition, the properties with a mutation
of the model that breaks each, the findings and the hazards.

To run it: `tlc -config MCEventLoop.cfg MCEventLoop`, likewise for the others,
and `tlapm EventLoopProofs.tla`, likewise for the other modules named `...Proofs`.

## 1. The system

| component | state | operations | interacts with |
|---|---|---|---|
| `EventLoop`, `WakeupChannel`, `Poller` | `pendingTasks` under a mutex, `isQuit`, `isTasking`, the active channels, the eventfd | `loop`, `runInLoop`, `queueInLoop`, `quit`, `doPendingTasks` | everything: other threads reach a component only by queueing a call on its loop |
| `Channel` | fd, `events`, `index` | `enable/disable*Event`, `remove`, `handleEvent` | the poller below, the handler (a subclass) above |
| `EpollPoller`, `SelectPoller`, `PollPoller` | `channelMap`; epoll's list, `fd_set`s, `pollfdList` | `updateChannel`, `removeChannel`, `poll` | `Channel::index` is theirs to use |
| `TimerManager`, `TimerfdChannel` | `timers` (set ordered by expiry), the batch being run, the timerfd | `addTimer`, `cancel`, `handleExpired`, `resetTimers` | a channel of the loop; callbacks add and cancel timers |
| `TcpConnection` | `state`, `inputBuf`, `outputBuf`, `isRead`, `isWrite`, the socket | `send`, `sendOutputBuf`, `shutdown`, `forceClose`, `forceClose(ms)`, flow control, `handleRead/Write/Close/Error` | user callbacks (`TcpHandler`), which call it again; its holder (server or connector) |
| `Connector`, `TcpClient` | `isStop`, `retryCur`, `state`, fd, `connection`, `started` | `connect`, `retry`, `doTimeout`, `stop`, `shutdown`, `forceClose`, `handleWrite/Error` | timers that are never cancelled; the connection it made |
| `TcpServer`, `Acceptor`, `EventLoopWorkers`, `EventLoopThread` | the map of connections, `nextId`, `idleFd`, the worker threads with `isLooping` | `listen`, `handleRead`, `onConnection`, `removeConnection`, destruction | each worker's loop, through its task queue |
| `LogAsynAppender`, `LogFile` | `curBuffer`, `nextBuffer`, `buffersHolder` under a mutex; the writing thread's own buffers | `append`, `flush`, `start`, `stop`, `process` | every thread that logs |
| `Buffer` | read and write indices over a vector | `append`, `retrieve`, `readFd`, `writeFd`, ... | connections and codecs |
| `TcpPipeline`, `HttpCodec`, `SslCodec` | handlers in a list; the parser, the TLS state and two buffers in the connection's contexts | `onConnection`, `onMessage`, `onClose`, `write` | a connection's callbacks; OpenSSL |
| `HttpParser`, `http_parser.c` | the parser's state, flags and lengths; what the callbacks collected | `execute`, `reset`, `isKeepAlive` | the codec's loop |

What makes it hard:

* **threads**: `queueInLoop` and `quit` push (or store) first and wake the loop
  up afterwards; `send`, `shutdown`, `forceClose`, `TcpClient::shutdown` read or
  write flags from other threads and queue a call that finds another state when
  it runs;
* **re-entrance**: a user callback may call the object that is calling it;
  `handleEvent` goes on with the events of a poll after `handleClose`;
* **stale timers and events**: the retry and timeout timers of `Connector` are
  never cancelled, expired timers are cancelled while their batch runs, one
  `Channel` serves many descriptors;
* **ownership across threads**: a connection is held by the server's map on the
  owner's thread and used on its worker's; tasks, and the order in which the
  destructor stops the threads, decide who destroys it and when;
* **cuts**: bytes arrive in reads of any length, and parsers, codecs and buffers
  must not let the application see where the cuts were;
* **failure**: partial writes, resets, half-closes, refused connections, late
  batches of timers, a wall clock that is set.

What correctness means, component by component, is in section 3 with the
properties, and under "hazards" in `PROJECT.json` with the line of the code
where each can go wrong. Nothing is persisted, so no crash recovery is at stake.

## 2. The modules

| module | models | checked by | proved in |
|---|---|---|---|
| `TaskQueue` | what `queueInLoop` promises: one executor, every task once, in order | as a property of `EventLoop` | its safety, in `EventLoopProofs` |
| `EventLoop` | the loop's thread step by step, the calling threads, the eventfd | `eventloop` | `EventLoopProofs` |
| `Channels` | the calls of a set of channels on their poller | through the next two | through `EpollSelectProofs` |
| `EpollSelect` | `EpollPoller` and `SelectPoller` | `epoll_select` | `EpollSelectProofs` |
| `PollPoller` | `PollPoller` | `poll_index` | |
| `TimerManager` | timers, batches, timerfd | `timer_manager`, `timer_cancel` | `TimerManagerProofs` |
| `ByteStream` | what `TcpConnection` promises to those who send: the bytes in order, the half-close after the last | as a property of `TcpConnection` | in `TcpConnectionProofs` |
| `TcpConnection` | one connection, its socket and its peer | `tcp_connection` | `TcpConnectionProofs` |
| `Connector` | a client, its attempts, its connection's life | `connector` | `ConnectorProofs` |
| `TcpServer` | a server, its acceptor, its worker threads and their loops, its connections' life, its destruction | `server`, `server_destroy` | `TcpServerProofs` |
| `Buffer` | `Buffer`, as functions on the bytes and the two indices | `http_codec` | `HttpCodecProofs` |
| `HttpUrl` | the character classes and URL parser of `http_parser.c`, `parseQueryParam` | `http_codec` | |
| `HttpParser` | `http_parser_execute` and `HttpParser`, as functions on one record | `http_codec`, `http_body` | its states, in `HttpCodecProofs` |
| `HttpCodec` | a connection with `SslCodec`, an HTTP codec and an application in its pipeline | `http_codec`, `http_body` | `HttpCodecProofs` |
| `LogAsynAppender` | the asynchronous log | `log_appender` | `LogAsynAppenderProofs` |

How they fit: `TaskQueue` is the interface between `EventLoop` and the rest.
`TcpConnection` and `Connector` keep the part of the loop's queue that concerns
them as a sequence `tasks`, which is sound because `EventLoop` implements
`TaskQueue`. In the same way `ByteStream` is what a user of `TcpConnection` may
rely on. `TcpConnection` and `Connector` keep `Channel::index` as
`EpollPoller` leaves it, which is the subject of `EpollSelect`. `Connector` and
`TcpServer` keep only the life of the connection (up, half closed, down) that
`TcpConnection` models in full; `TcpServer` composes it with a loop per thread,
the queue of `TaskQueue` and one flag for the eventfd. `HttpCodec` composes
`Buffer` and `HttpParser` with what it needs of a connection.

### Correspondence with the code

**EventLoop.** `pc` is where the owner is in `loop()`: one action for each
stretch between two points at which another thread can see or change something.
`Push(c)` is `queueInLoop` up to the unlock, `PushWakeup(c)` its second half;
`Quit`/`QuitWakeup` likewise. `runInLoop` of the owner runs the functor directly
and is part of the task or callback that calls it. A task is a number; what it
does is any call of the owner while `pc` is in a task. The 10 s timeout of
`poll` is left out: it would hide every lost wakeup behind a delay.

**Channels, EpollSelect, PollPoller.** Every sequence of `enable*`, `disable*`
and `remove` on each channel, and the closing and reuse of descriptors as
`Connector` does it. `interest` is the kernel's list with the rules of
`epoll_ctl`; an assertion of the code that fails sets `failed`.

**TimerManager.** An expiry is kept relative to the wall clock (`rem`), so that
the state stays finite while time passes between any two steps. `fd` is the
timerfd's remaining time, on the monotonic clock: a jump of the wall clock
changes `rem` and not `fd`. `handleExpired` is split at each callback. The clock
goes on, and may be set, between any two steps: while a batch runs, the expiries
of its timers stay as they were at `now` and `age` is what the clock has gone on
since, which is what `resetTimers` reads again for the timerfd. Between the poll
that returns the timerfd (`PollReturns`) and its handling, callbacks of other
channels may arm it again; it is handled all the same.

**TcpConnection.** Everything but the public calls runs on the owner's thread.
`todo` is what that thread still has to do, innermost first: the remaining steps
of `handleEvent`, `removeItself`, `forceCloseInLoop` and the user's callbacks,
during which any call may come. Bytes are numbered; `wire` is what was written
to the socket. A call of another thread is the check it makes and the task it
queues. The peer takes data, sends, half-closes or resets when it likes. Only
`send` fills `outputBuf`; what a user writes into `getOutputBuf()` is left out
(section 5).

**Connector.** `reg` is what epoll watches for the single channel, `open` the
client's open sockets, `conn[f]` the life of the connection on `f`. Delays are
left out: any armed timer may fire next. Calls of another thread are three
steps (`started`, `isStop`, the queue). As in `TcpClient`, `connect` asks for
`started` only, so it may follow a shutdown at once, with a retry timer, an
attempt or a connection of the past still there. `overlapped` records that this
has happened; most of what one would claim of a client is false from then on, and
the properties say `~overlapped` where they need it. Afterwards an assertion of
`EpollPoller` or `TcpConnection` may have ended the program, so the model may
stop there (`Idle`).

**TcpServer.** `owner.pc` is where the owner's thread is outside its loop: the
start of the threads one by one (each waits for the latch), the loop, and the
destructor: the body, then the members last first, which are the map, the
threads with `quit` and `join`, and the acceptor. Every loop, the owner's
included, polls, handles its active channels and runs its batch of tasks.
`Alive(id)` counts what holds a `shared_ptr`: the map, and queued tasks that
bind one (`removeConnection` binds a number only). The handler of a close is two
steps, with the connection in use (`cur`) in between. The server is destroyed
after its owner's loop has ended, as in all of `examples/`.

**Buffer, HttpUrl, HttpParser.** Functions, one for each function, callback or
`case` of the code. A byte is a token: a letter, a digit or a separator where
the code looks at single characters, and one token for a method, a version, a
keyword or a name where only the whole word matters, so that the states in the
middle of a word (`s_res_HT`, `h_CON`, `h_matching_...`) are passed in one step.
A length counts tokens. Strict mode, as the library is built.

**HttpCodec.** A behaviour picks a script: the side this end is on, TLS or not,
and the messages the peer sends. `Read(n)` is a read of any length, with TLS of
any number of half records, and all that `TcpPipeline` then calls; `PeerClose` is
a read of 0. The loop of `HttpCodec::onMessage` is a function of the buffer. Of
OpenSSL there is a table: which of the peer's flights needs how many of ours, and
how many of ours exist after it. `sent` is what was taken out of the BIO and
given to the connection, so that what stays in the BIO never reaches the peer.

**LogAsynAppender.** What happens under the mutex is one step. A `unique_ptr` is
a sequence of at most one buffer, so that a move is a concatenation that leaves
the empty sequence. The wait of the writing thread ends by a notification or by
the interval, and a notification sent when nobody waits is lost, as it is in C++.

## 3. The runs

The passing runs check for deadlock; where the bounds stop the system, an
action (`Finished`, `Idle`) says so and does nothing. Only `server` and
`http_codec` do not: a server that was destroyed and a peer that has nothing
more to send end the system, and their liveness properties say what must have
happened by then.

| run | states | bounds | why they are enough |
|---|---|---|---|
| `eventloop` | 5 thousand | two foreign threads and the owner, 4 tasks | one thread can be between push and wakeup while the wakeup of the other is consumed; two batches of two |
| `tcp_connection` | 1.0 million | 3 calls out of 9 kinds, sends of 1 or 2 bytes, a send buffer of 1, high water mark 2 | partial writes, a direct write behind buffered data, a call during or after a close, the crossing of the mark |
| `timer_manager` | 1.2 million | 3 timers, delays and intervals of 0 or 1 tick, one jump of the clock at any moment | a timer of a batch, one in the set, one added by a callback; a batch later than an interval; the clock set while a batch runs |
| `epoll_select` | 12 thousand | 3 channels, 4 descriptors | a descriptor closed by one channel and reused by another |
| `connector` | 94 thousand | 3 calls, one foreign thread, 2 descriptors, a retry count of 1 or none, with and without timeout | connect, stop, connect, at once or later; an attempt while an old socket is not closed yet |
| `server` | 382 thousand | no, one or two workers, 3 peers, 3 descriptors | two workers close at once; a worker is still busy while the other is joined; the third peer finds no descriptor, and one when a connection has gone |
| `http_codec` | 14 thousand | 45 scripts of one or two messages out of 40, each cut into reads everywhere; a buffer of 8 bytes, an extra buffer of 16, records of 6 | a message over three reads, two in one, a buffer that must move, grow, and be read past its end; every state of the parser is reached, and every error that the library can get |
| `log_appender` | 11 thousand | 11 messages, 2 per buffer, limit 4, 2 starts | five buffers in one batch, so that some are dropped; messages left to the next start |

### What they show

* `eventloop`: no task is lost, repeated or reordered (`FifoExactlyOnce`); the
  owner never sleeps in `poll` over a task or a `quit` whose caller has finished
  (`NoLostWakeup`), which is what the condition `!isInOwnerThread() || isTasking`
  is for; `quit` ends the loop, whatever tasks queue tasks (`QuitStops`); the
  loop implements `TaskQueue`, part of which is that every task is started
  (`ImplementsTaskQueue`).
* `tcp_connection`: what reaches the socket is a prefix of what was sent
  (`WireIsPrefix`); buffered data is watched for (`OutputWatched`); the
  connection implements `ByteStream` (`ImplementsByteStream`): each write
  carries on where the last one ended, and the half-close comes only when every
  byte given to `send` was written, unless the peer has reset; it does come
  (`ShutdownCompletes`); a closed connection is out of the poller before its
  descriptor is closed (`ClosedNotWatched`); no `onMessage` follows `onClose`
  (`NoMessageAfterClose`); `onHighWaterMark` is followed by `onWriteComplete` or
  `onClose` (`HighWaterMarkRelieved`). Write events switched by hand (`manual`)
  are excluded where the header leaves the outcome to the user, and
  `ClosedNotWatched` excludes flow calls that run after the close (`late`, see
  below).
* `timer_manager`: the timerfd is armed no later than the first timer whichever
  operation ran last (`Armed`); no timer runs before its expiry, as the wall clock
  was when its batch was taken, a one-shot runs once and an erased one never again
  (`RunsWhenDue`); and every timer runs (`TimersRun`), with late batches and when
  the clock is set.
* `epoll_select`: `Channel::index` says what epoll knows (`StatusTellsTheTruth`)
  and both pollers watch exactly what the channels want (`WatchesWanted`).
* `connector`: as long as `connect` has not been called over the remains of an
  earlier one (`~overlapped`), no socket is leaked, however retries, timeouts and
  stops interleave (`NoSocketLeak`), the channel watches the attempt under way and
  nothing else (`WatchedIsCurrent`), a live connection is held (`ConnectionHeld`),
  and a failed attempt is not the last one while retries are left
  (`ConnectIsAnswered`). After a stop no attempt is under way, whether attempts
  have overlapped or not, and no connection is up if they have not
  (`StoppedStaysStopped`). The hypothesis is needed: see the disagreements below.
* `server`: a connection whose handler has not returned, or that a running loop
  watches, exists, and so does the server while a worker runs (`UsedIsAlive`);
  while the server's loop runs, only disconnected connections are destroyed,
  whichever thread drops the last reference (`NoEarlyDestruction`); a connection
  closed by its peer is given up with its descriptor (`ClosedEventually`); peers
  that wait are accepted or dropped, also when descriptors run out
  (`BacklogDrains`); the destructor returns (`DestructorReturns`).
* `http_codec`: the application gets what the peer sent, in order, with its
  headers, URL, parameters and body (`DeliveredAsSent`), in the read that
  completes it and never before (`Prompt`); the buffer holds exactly the bytes
  not handed over yet (`BytesKept`); malformed messages are refused in the read
  that shows the error, and nothing else is (`RefusedForCause`); the application
  sees its connection once, after the handshake (`OpenedOnceFirst`); and what the
  peer sends gets there (`EventuallyDelivered`). What a message means is written
  down in `MCHttpCodec` beside its bytes, not computed by the parser.
  `BufferLaws`, an assumption of `MCHttpCodec` that TLC evaluates, compares every
  operation of `Buffer` with a plain sequence on all small buffers.
* `log_appender`: every message is written once and in order, or dropped over
  the limit, or still in a buffer (`InOrderOnce`); enough buffers come back
  (`EnoughBuffers`); a half-full buffer is written too (`EventuallyWritten`);
  `stop` returns although its notification can be lost (`StopEnds`, thanks to
  the interval). What is appended after the last exchange before `stop` stays
  unwritten unless the appender is started again; nothing in the repository
  says otherwise.

### Disagreements found

| run | what the code says of itself | what it does |
|---|---|---|
| `timer_cancel` | `TimerQueue_test.cpp` expects a cancelled timer to stop repeating | one that is cancelled in the batch it expires in (by its own callback, for one) is put back by `resetTimers` |
| `poll_index` | comment: "swap with the last one, and update the channel's index" | `removeChannel` updates the index of the channel it removes, not of the one it moved |
| `http_body` | comment of `HttpParser::reset`: only the state is kept | `body.empty()` only asks: an incomplete message is parsed again from its start with the next read, and its body is appended to the part already seen. A response that ends with the connection always has its body twice |
| `server_destroy` | `~TcpConnection` asserts that the state is `disconnected` | a worker that is in its batch of tasks when `~TcpServer` queues `removeItself` and quits it ends without running it, and the connection is destroyed while connected |

Also met while modelling, and described here rather than by a run:

* a FIN of the peer closes the connection with data in `outputBuf`, which is
  dropped, although `src/README.md:149` says that shutdown guarantees that the
  buffer's data is sent; `ShutdownCompletes` therefore speaks of a peer that
  does not close first;
* `enableRead` and the other flow calls test `fd < 0` only: one that runs after
  the close puts the closed channel back into the poller, which `handleClose` is
  said to leave (`src/README.md:141`); `late` marks these behaviours;
* `TcpClient::shutdown` sets `started` to false at once (`TcpClient.cpp:36`), so
  that `connect` may begin again over what is left of the attempt before. Two
  things go wrong then, and TLC shows each within a few thousand states when
  `~overlapped` is taken out of the property. `NoSocketLeak`: a second attempt
  overwrites `fd`, and the first socket is never closed, by `shutdown` neither,
  which is said to close what is connected or connecting (`TcpClient.h:26`). The
  second attempt is begun by `connect` itself, when another thread's `shutdown` has
  set `started` but its task has not run, or by a retry timer of the earlier
  `connect`, which nobody cancels and which finds `isStop` false again
  (`Connector.cpp:143`). `ConnectionHeld`: the
  connection that was shut down has not been closed by its peer yet;
  `onConnection` overwrites the pointer to it (`Connector.cpp:254`), and it is
  destroyed in state `disconnecting`, against the assertion of
  `TcpConnection.cpp:30`;
* a `connect` of another thread waits in the task queue, while a later `shutdown`
  of the loop's own thread is carried out at once and finds nothing to stop: the
  client connects after it, with `started` false, although both are said to be
  thread-safe (`TcpClient.h:24`, `:26`). In the model: nothing is queued, `started`
  is false and so is `stopped`;
* data that a user has put into `getOutputBuf()` with the write event off is not
  sent before a `shutdown`, which closes the write side at once because it only
  asks `isEnableWrite` (`TcpConnection.cpp`, `shutdownInLoop`), while the comment at
  `TcpConnection.h:44` promises that the data of `outputBuf` is sent first; the
  model has no such data (section 5);
* `HttpCodec` parses what it has of a URL at the end of each read: an absolute
  URL cut in its scheme or host fails in `on_url`, and the connection is shut
  down; `CONNECT` is always refused, because `on_url` passes `is_connect = 0`;
* after an error the bytes stay, and every read parses them and shuts down
  again; good requests in the same read as a bad one are handed over after the
  shutdown, so their answers are dropped;
* of a folded header only the last line is kept (`assign`, not `append`);
* a TLS 1.2 server leaves its last flight in the BIO: the handshake is over, so
  `SslCodec.cpp:65` does not send it, and the client waits
  (`EventuallyDelivered` excludes this case);
* a TLS client whose peer closes during the handshake asks a parser that is not
  in the context yet (`HttpResponseCodec.cpp:23`): a null pointer (`crashed`);
* with assertions, `http_parser_pause` fails when `execute` follows an error;
* after `prepend` has used the reserved bytes, the sum in `ensureSpace` wraps
  below zero and the bytes are moved although there is no room.

### Fairness

* `EventLoop`: weak for the steps of the loop and for a thread that has pushed
  and not woken the loop yet (a thread is not stopped for ever inside a call);
  strong for entering the loop and for the end of callbacks, which the owner's
  own calls may interleave with (a user callback returns).
* `TcpConnection`: weak for the owner's steps and for a peer that takes the data
  it was sent; strong for tasks, timers and poll, each of which the loop reaches
  in every iteration although the others may disable it for a moment.
* `TimerManager`: time passes and the loop handles the timerfd.
* `Connector`: as above, and the peer does not refuse for ever: an attempt that
  is repeated again and again gets under way and succeeds at some time. Without
  it `ConnectIsAnswered` would say that servers answer.
* `TcpServer`: weak for each thread (a runnable thread runs). Peers need not
  come or leave, and nobody needs to call `quit`.
* `HttpCodec`: weak for the connection's start and for the peer's bytes to
  arrive as long as it has some to send; not for its closing.
* `LogAsynAppender`: weak for the writing thread, including the end of its timed
  wait, and for the owner's calls of start and stop to finish.

## 4. The proofs

Every proof module extends the module of its component; the only assumptions are
the ASSUMEs on the constants, which TLC evaluates in the runs, and the
hypotheses named below. Each inductive invariant was checked by TLC, on the
instance of the component's run, before it was proved. A proof has one lemma for
each operation, under it one step for each conjunct that the operation can
disturb, and a temporal theorem that puts them together.

**EventLoopProofs** (any set of threads, any number of tasks)

* `TypeCorrect`, `FifoCorrect`: `[]TypeOK` and `[]FifoExactlyOnce`. Neither is
  inductive alone: `started` stays in its range because every task of a batch
  was queued, and a swap loses nothing because there is no batch outside
  `doPendingTasks`. The invariant is
  `FifoInv == TypeOK /\ FifoExactlyOnce /\ BatchInTasks`.
* `WakeupCorrect`: `[]NoLostWakeup` when `MaxEarly = 0`. The strengthening
  `WakeInv` says, for every `pc` and not only in `poll`, who is still to wake
  the loop up. It is false for `MaxEarly > 0`: before `loop()` is called the
  owner is not `isTasking` and writes no wakeup, and the first `poll` sleeps
  over the task until an event or the 10 s timeout. The hypothesis is where
  the users of the code have to be careful.
* `ImplementsQueueSafety`: every step of `EventLoop` is a step of `TaskQueue` or
  a stutter, under the mapping of `ImplementsTaskQueue`.

**TcpConnectionProofs** (any lengths of data, any send buffer and high water
mark, any number of calls)

* `InvHolds`: `[]ConnectionInv`; from it `TypeCorrect`, `NothingSkipped`
  (`WireIsPrefix`), `BufferWatched` (`OutputWatched`), `DrainedFirst`
  (once the socket is half-closed `outputBuf` is empty, unless write events were
  switched by hand), `ClosedIsRemoved` (`ClosedNotWatched`), and the action
  property `NothingDeliveredAfterClose` (`NoMessageAfterClose`).
* `ImplementsStream`: `Spec => ImplementsByteStream`, the whole refinement, since
  `ByteStream` promises safety only. `sent`, `wrShut`, `state` and the peer's
  reset are what the mapping reads. There is one lemma per handler: a `send` is
  a `Send` whatever part of it goes out at once, a `handleWrite` is a `Transfer`
  that may end the stream, or a `Close`; what a handler does to the channel, the
  tasks and the callbacks is a stutter. The invariant is needed in both states:
  that the wire counts 1, 2, 3, ... before and after turns "more was written"
  into "the next bytes were written", and `Buffered` turns "the buffer is empty"
  into "every byte is on the wire".
* The invariant has three parts. `DataInv`: unless the stream is broken, the
  bytes of the wire and then those of `outputBuf` are all that was sent, in
  order; the write event is on exactly while there is something to write, unless
  it was switched by hand. Both are needed for a direct write in `send`: it is
  allowed when write events are off, which says nothing of the order until one
  knows that the buffer is then empty. `TodoInv`: what is left of `handleEvent`
  and `handleClose`; a closed connection is out of the poller, or `removeItself`
  is still to come in this very pass. `TasksInv`: `onConnection` is the first
  task and no other comes before it.

**TimerManagerProofs** (any timers, delays and intervals, the clock set by any
amount at any moment)

* `InvHolds`: `[]TimersInv`; from it `TypeCorrect`, `NoTimerForgotten` (`Armed`)
  and `RunsOnlyWhenDue` (`RunsWhenDue`).
* `Armed` is about the states in which the loop waits; the invariant adds what
  `handleExpired` relies on between its callbacks: the callback that runs is one
  of the batch, and a one-shot that has run is not in the set.
* The constants have a longest interval and a longest delay, which bound the time
  that the model lets a batch be late; a finite set of timers has both.

**EpollSelectProofs** (any channels and descriptors)

* `TypeCorrect`, `StatusIsTrue` (`StatusTellsTheTruth`), `WatchedIsWanted`
  (`WatchesWanted`). The invariant `PollersInv` gives the pollers' records as
  functions of the channels: the map holds the channels whose `index` is not new,
  epoll's list those that are added, with the events they ask for, and no two open
  channels share a descriptor. The last is what a reused descriptor depends on: a
  channel is closed only when it is out of the map, so the next owner of the
  number finds it free.

**ConnectorProofs** (any calls in any order, descriptors and retry counts, any
threads, with and without timeouts)

* `TypeCorrect`, `SocketsNotLeaked` (`NoSocketLeak`), `OnlyCurrentWatched`
  (`WatchedIsCurrent`), `LiveIsHeld` (`ConnectionHeld`), `NoneAfterStop`
  (`StoppedStaysStopped`). The hypothesis `~overlapped` is part of the properties;
  there is none on the constants, and none on who calls what and when.
* The invariant is `Types`, `StoppedInv`, which holds overlapped or not, and
  `~overlapped => Alone`. `Alone` couples the places where the code keeps what it
  is doing: the channel is in the poller exactly while `state` is connecting
  (`Attempt`), a connection is held exactly while `state` is connected
  (`Connected`) and its socket is open (`ConnIsOpen`), at most one retry is due and
  only while `state` is disconnected (`RetryAlone`), and what `handleClose` has left
  to do is about the connection that is held (`Removal`). A `connect` that leaves
  `overlapped` false therefore finds no retry, no attempt and no connection, and of
  `handleClose` only callbacks that are still to return: it must not meet a
  `removeConnection` that would forget its own connection. The last part of
  `Removal` is there for that: `close` comes right after `removeConnection`.

**TcpServerProofs** (any workers, peers and descriptors)

* `InvHolds`: `[]ServerInv`; from it `TypeCorrect`, `NothingUsedIsGone`
  (`UsedIsAlive`) and `DestroyedWhenClosed` (`NoEarlyDestruction`).
* The argument follows the references. While a handler runs, the `tie` that it has
  queued keeps its connection. Otherwise the server's map holds every connection
  that is not disconnected, until the destructor destroys the map; from then on a
  connection that a running worker may still watch has `removeItself` among that
  worker's due tasks (`TakenDown`), which holds it. The due tasks of a loop are
  the rest of its batch and what was queued behind it (`Due`); in them
  `onConnection` comes first and once, and `removeItself` after it (`DueInv`), so
  that a connection that was disconnected cannot come up again. The server itself
  goes only when every loop has ended (`OwnerInv`).
* A connection that is destroyed while connected, as `server_destroy` shows, is no
  contradiction: `TakenDown` speaks of workers that have not ended.

**LogAsynAppenderProofs** (buffers of any size, any limit of at least four, any
number of messages and starts)

* `TypeCorrect`: `[]TypeOK`, part of which is that `curBuffer` is never null when
  the mutex is free, so `append` may use it untested.
* `BackIsThere`: `[]EnoughBuffers`, `buffers_bak.back()` is never called on an
  empty vector. The invariant `BuffersInv` says where the four buffers can be:
  `nextBuffer` is null only if the holder has a buffer, the writing thread has
  its two spares between batches, and during a batch there are as many buffers
  to write as spares to replace. `resize(2)` keeps just enough.
* `WrittenInOrder`: `[]InOrderOnce`. `OrderInv` adds to `BuffersInv` that the
  spare buffers come back empty, that there is no writing thread while the owner
  has not started one, and that the log, which is the file, the batch, the holder
  and `curBuffer` one behind the other, increases strictly, so that what is
  missing from it is what was dropped. The log flattens sequences of buffers:
  what `FlattenSeq` makes of an appended or a dropped buffer is proved for every
  length, from the least sequence that would be a counterexample.

**HttpCodecProofs** (any scripts, messages and cuts; buffers, records and data of
any length)

* `AppendKeeps`, `ReadKeeps`, `RetrieveKeeps`, `PrependKeeps`,
  `ReadAsStringSplits`, `ShrinkKeeps`: the operations of `Buffer` keep the two
  indices in order (`BufferOK`) and do to the bytes between them what their names
  say; these are the `BufferLaws` of `MCHttpCodec` for all sizes. Hypotheses: the
  sizes fit in `size_t`, which `BufferOK` and the bounds on the lengths say, and,
  where `ensureSpace` is called, the reserved bytes are unused (`Reserved`). The
  second is needed: see the last disagreement of section 3.
* `ExecuteKeeps`: whatever `execute` reads, the parser is left in a state that
  `http_parser_execute` has a case for, with a count of bytes. There is a lemma
  for each group of the parser's states; that a read is a recursion over its bytes
  is dealt with by the first byte after which it would fail.
* `DecryptHolds`: `SslHandler::decrypt` adds the text of the records behind the
  bytes of the buffer, however often the free space has to grow in between.
* `CodecInvariant`: `[]CodecInv`; from it `OpenedOnce` (`OpenedOnceFirst`) and
  `StreamKept` (`BytesInOrder`). A connection is fresh or running (`Running`). Its
  record is passed from handler to handler, so the proof says what each of them
  leaves alone: one that only sends or shuts down leaves buffer, parser and
  messages (`Plain`); the loop of `HttpCodec::onMessage` takes bytes from the front
  of the buffer, hands messages over and opens nothing (`Same`). `OpenedOnceFirst`
  alone is not inductive: one must know that nothing is handed over while `ssl` is
  connecting, that a refused handshake never gets past its flights, and that
  reading on does not undo one (`FlightsGrow`).
* `BytesInOrder` says that the buffer holds the bytes of the stream from some point
  up to what was read. `BytesKept`, which only TLC checks, also says from which
  point: the end of the last message handed over. The invariant behind it bounds
  the buffer as well (`Holds`): retrieved space is used again, and growing adds at
  most what came in, so that the sizes stay below `RoomFor(script)`, which
  `CodecAssumption` says is in the range of `size_t`.

Only model-checked: liveness under fairness, and the fairness part of
`EventLoop`'s refinement, which the prover does not reach; and four properties of `HttpCodec`.
`DeliveredAsSent`, `BytesKept`, `Prompt` and `RefusedForCause` compare the parser
with the messages written down in `MCHttpCodec`, which a proof for every value of
the constants would have to replace by a grammar. `TypeOK` of
`Connector`, `EpollSelect` and `TcpServer` is proved and listed by no run; it is
part of the invariants that TLC checked.

## 5. What is not modelled

* Of `TcpConnection`: what a user writes into `getOutputBuf()` himself, for
  `sendOutputBuf` or `enableWrite` to send (`TcpConnection.h:42`, `:49`, `:73`).
  `WireIsPrefix`, `ImplementsByteStream` and `ShutdownCompletes` are about the bytes
  given to `send`.
* Of `EventLoop`: a batch that would grow for ever while it runs. There are finitely
  many tasks, so `QuitStops` and `ImplementsTaskQueue` hold for a loop that runs
  what is queued during the batch in the same batch, too; that it does not is the
  swap in `doPendingTasks`, translated as `Swap`.
* Of the server: its destruction inside its own running loop, worker loops that
  the application quits, and other threads that open descriptors while the
  acceptor closes its idle one.
* Of `http_parser.c`: `HTTP_BOTH` and `ICE/1.0`, which the library never asks
  for; lenient mode; `max_header_size`; `F_SKIPBODY`, which needs a callback that
  returns 1.
* Of TLS: records, alerts and certificates, which are OpenSSL's;
  renegotiation; `close_notify`, a TODO of `SslCodec.cpp:82`.
* Of the pipeline: handlers that the library does not contain, and the events
  that its own handlers pass on unchanged.
* `LogFile`: rolling and stdio. `LogAsynAppender::flush` calls `fflush` on the
  file without a lock while the writing thread may be closing it in `rollFile`.
* Formatting (`Logger`, `LogStream`, `Timestamp`, HTTP messages), wrappers of
  system calls (`SocketsOps`), `wepoll.c`, the Windows variants.
* Data races are modelled where a flag is read by another thread (`state`,
  `isStop`, `isTasking`): the reader sees a value the flag has at that moment.

## 6. The plan

In order:

1. A grammar of messages in place of the list in `MCHttpCodec`, and from it
   `BytesKept` and `Prompt` for every stream: what the parser needs beyond
   `ExecuteKeeps` is that it reads a message in two parts as it reads it in one.
2. The other direction of `ByteStream`, what the peer sends and `onMessage`
   delivers, and its liveness: that every byte given to `send` is written.
3. The composition of `TcpServer` with the shutdown of its connections by the
   application while the server is being destroyed.
