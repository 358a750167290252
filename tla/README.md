# cppnetool in TLA+

cppnetool is a small reactor library in C++ (`src/cppnetool`), with a TCP proxy built on
it (`src/proxy`). One thread runs an `EventLoop`; sockets, timers and calls from other
threads all end in callbacks on that thread. This directory holds TLA+ models of its
core, the TLC configurations that check them on small instances and proofs, checked by
TLAPS, of the safety properties for all values of the constants.

## 1. The system

| Part | State | Operations | Talks to |
|---|---|---|---|
| EventLoop | `quit_`, `looping_`, `callingPendingFunctors_`, `pendingFunctors_` (under `mutex_`), the eventfd, the list of active channels | `loop`, `quit`, `runInLoop`, `queueInLoop`, `wakeup`, `handleRead`, `doPendingFunctors` | everything: it calls the channels' handlers, and any thread calls it |
| Poller, Channel | `pollfds_`, `channels_`; per channel `events_`, `index_` | `updateChannel`, `removeChannel`, `poll`, `handleEvent` | EventLoop asks it to poll, owners of channels change their interest |
| TimerQueue, Timer, TimerId | `timers_`, `activeTimers_`, `cancelingTimers_`, the timerfd | `addTimer`, `cancel`, `handleRead`, `getExpired`, `reset` | a channel of its own; callers on any thread, through functors |
| Buffer | a vector and two indices | `append`, `prepend`, `retrieve*`, `readFd`, `ensureWritableBytes`, `shrink`, `swap` | TcpConnection has two |
| TcpConnection | `state_`, output and input buffer, the interest of its channel | `send`, `shutdown`, `sendInLoop`, `handleRead/Write/Close/Error`, `connectEstablished`, `connectDestroyed` | its owner's close callback; functors from other threads |
| Connector | `connect_`, `state_`, `channel_`, `retryDelayMs_`, `timerId_` | `start`, `stop`, `restart`, `connect`, `handleWrite`, `handleError`, `retry` | timers and functors of the loop; hands sockets to TcpClient |
| TcpClient | `connection_`, `state_`, `connect_`, `retry_` | `connect`, `disconnect`, `stop`, `newConnection`, `removeConnection` | Connector, TcpConnection |
| TcpServer, Acceptor | the map of connections, the listening socket | `start`, `newConnection`, `removeConnection`, `removeConn` | one loop or a pool of loops |
| EventLoopThread(Pool) | the loop pointer under a mutex and a condition | `startLoop`, destructor, `getNextLoop` | TcpServer |
| Proxy, Session, ServerManager | `sessionMap_`; per session two deadlines and `connecting_` | `onTcpServerConnection_`, four callbacks per session, `~Session`, the sweep `processSession_` in the loop callback | TcpServer and TcpClient, whose connections call the session back |
| base: Mutex, Condition, Thread, Atomic, Timestamp, Logging | | wrappers | |

What is hard in this code, and what makes each part correct:

- *Threads and the loop.* `queueInLoop` pushes under the lock and wakes afterwards; the
  loop reads the eventfd and swaps the queue afterwards. Correct: no wakeup is lost, each
  functor is called once and in order, batches end, a `quit()` of a loop that has come to its `while` ends it.
- *Registration.* Three records of the same fact are kept in step by hand through a swap
  of array entries and a negated encoding of descriptors. Correct: they agree, asserts
  hold, disabled channels are silent.
- *Time.* Timers at addresses that are used again, cancelled from callbacks of the batch
  being called, one timerfd for all. Correct: one owner per timer, the timerfd is armed
  for the first one, a cancel hits its own timer only and stays in force.
- *Partial writes and shutdown.* The bytes of a message go to the kernel directly, or to
  the buffer, or part and part; a shutdown has to wait for them. Correct: the stream is
  intact, POLLOUT is asked for exactly while bytes wait, the FIN comes last, and comes.
- *A server and its loops.* The base loop owns the map, each connection lives on a loop of its
  own, and functors with bare pointers travel between them. Correct: `start()` ends, a functor
  finds its connection as its asserts demand, no loop has registered the channel of a destroyed
  connection, connections are spread evenly, a closed one is erased (up to what the base thread does to
  the pollers of other loops, see section 2).
- *Attempts and retries.* An attempt ends in `connect(2)`, by an error event or by a write
  event, while other threads stop the connector. Correct: one attempt at a time, no
  socket without an owner, a client that is asked to connect keeps trying.
- *Sessions.* A session of the proxy has a connection on each side, either of which comes, closes
  and comes again without the other knowing, and ends only by one of two deadlines which six handlers
  set. Correct: no connection outlives its session, a channel is not destroyed in the
  round that is to handle it, `connect` is not called twice, bytes that wait are waiting for something, a
  session that relays is not ended, one that has lost its client is.

`PROJECT.json` lists the hazards line by line, with the properties that cover them.

## 2. Modules

| Module | Models | Checked by | Proofs |
|---|---|---|---|
| `LoopExecutor` | what `queueInLoop` promises: a FIFO executor | refinement of `EventLoop` | |
| `EventLoop` | EventLoop, threads interleaved between the steps | `event_loop`, `event_loop_stranded` | `EventLoopProofs` |
| `Poller` (`MCPoller`) | Poller and the registration part of Channel | `poller`, `poller_interest` | `PollerProofs` |
| `ByteQueue` | what a buffer promises: a queue of bytes | refinement of `Buffer` | |
| `Buffer` | Buffer | `buffer` | `BufferProofs` |
| `TimerQueue` (`MCTimerQueue`) | TimerQueue, Timer, TimerId | `timer_queue`, `timer_queue_ids` | `TimerQueueProofs` |
| `MessageStream` | what `send` and `shutdown` promise: a stream of messages and its end | refinement of `TcpConnection` | |
| `TcpConnection` | the way out of a connection, composed with the part of the loop its order depends on | `tcp_connection`, `tcp_connection_shutdown` | `TcpConnectionProofs` |
| `TcpServer` | TcpServer, Acceptor, EventLoopThreadPool and the start of EventLoopThread, over several loops | `tcp_server` | `TcpServerProofs` |
| `Connector` | Connector: its actions, to be completed by an owner | through `TcpClient` | `TcpClientProofs` |
| `TcpClient` | TcpClient composed with Connector | `tcp_client` | `TcpClientProofs` |
| `Proxy` | Proxy and Session over what they see of TcpServer and TcpClient, on one loop with rounds and time | `proxy` | `ProxyProofs` |

Variables carry the names of the members they stand for, without the underscore at the
end (`TcpClient` keeps it for `connect_`, `state_` and `retry_`, because Connector has
members of the same names; `Proxy` keeps it for the members of Session and Proxy). Actions carry the names of the functions. A function that another thread can interrupt at a
point that matters is split there, and the comment of each part says which part it is:
`queueInLoop` and `queueInLoopWakeup`; `Loop` and `ResetQuit`; `SetDisconnecting` and `PushShutdown`;
`addTimerRemotely` and `ReturnTimerId`; `connectCall`, `StartConnector` and `startInLoop`; `startInLoop` and `ConnectSocket`;
`retry` and `ArmRetry`; `Release` and `Restart`. Operators named `X_Y`
after an operator `X` with the comment "Mutant" are wrong variants of `X`. No action uses
them; each is there to show that a property notices that mistake.

How the modules fit together. `EventLoop` shows that the loop is a FIFO executor and that
a push is never lost, so `TimerQueue`, `TcpConnection` and `Connector` have a sequence of functors whose head
the loop thread calls, and `TcpServer` has one such sequence for each loop. `Buffer` shows that a buffer is a queue of bytes, so `TcpConnection` has
sequences of bytes. `Poller` shows that a registered channel is found with its own
interest, so `TcpConnection` and `Connector` have a set of events and a set of registered sockets.
`TcpConnection` details what happens to one connection between `connectEstablished` and
`handleClose`; `TcpServer` keeps of it the state and the interest, and looks at the loops around it.
`Proxy` stands on top: it takes from `TcpClient` that an attempt ends in a connection, another attempt or none, from
`TcpServer` the map, and shows in turn that the proxy uses a TcpClient as `TcpClient` assumes
(`OneUpstream`) and that no round of the loop meets a destroyed channel (`ActiveAreLive`), which
the modules of one connection cannot see. Its deadlines are kept as the time left, which `Tick` counts
down: 0 may or may not be over (the code compares microseconds), less is over for sure.

### What is left out, and assumed

- *Freed memory.* Functors and timers hold raw pointers. A functor of a destroyed
  `TcpConnection` is dropped by the model; what the code does with it has no meaning.
  `Connector::handleWrite` destroys the channel whose `handleEvent` is running; the model ends the round there.
- *Clients of Poller* destroy only channels that are not registered, and a descriptor has
  one channel at a time. This is how the library uses it.
- *Users of TcpClient* ask again for a connection only when the one they were given is
  gone and the client does not retry by itself, as `proxy/Session` does (`OneUpstream`). `connect()` during an attempt
  replaces a registered channel (the assert is commented out in `Connector.cc:117`).
- *`quit()` before the loop runs.* `loop()` stores `looping_` and then resets `quit_` (`EventLoop.cc:72-73`). A `quit()` that
  comes before the second store is forgotten, also one whose caller has seen `looping_` set. The model has the two stores
  apart (`Loop`, `ResetQuit`); `QuitStopsLoop` is about a loop that has come to its `while`.
- *`connect_` and `timerId_` without a lock.* The connector tests `connect_` and acts on it afterwards, and other threads store it in
  between. The model has each store, each test and what follows it as steps of their own. What comes of it: a `stop()` after the test of `startInLoop` is
  followed by an open socket (`ConnectSocket`), which `handleWrite` closes when it is connected; a `stop()` after the test of
  `retry` by a timer, which does nothing when it expires; so `StoppedBeginsNothing` says that no attempt begins, and that
  no socket is opened except by an attempt that had passed its test. A `stop()` that overlaps a `connect()` may have its store overwritten and still cancel
  the first retry timer: the client then waits for nothing, although `connect_` is set. `stopped` tells these calls apart ("during"), and
  `KeepsTrying` does not promise anything to users who make them; TLC finds the case when it does. A `timerId_` read while it
  is stored is the old value or the new one here; a mixture of the two members of `TimerId` names no timer, as the old
  value does, whose timer has expired.
- *`restart()` and `stop()`.* With `enableRetry()`, `removeConnection` tests `connect_` and then calls
  `restart()`, which sets `Connector::connect_` again (`Connector.cc:103`): a `stop()` of another thread
  between the two is lost. The model has it (`Release` and `Restart`); `StopIsKept` and `StoppedBeginsNothing` therefore speak of clients without
  `enableRetry()`. Without that condition TLC finds the lost stop.
- *Callbacks of a connection that closes.* `handleClose` drops all interest, bytes in the buffer or not, and then calls the user's close callback and, from
  `connectDestroyed`, his connection callback. The model goes through all of it in one step. A user who called `shutdown()` in the close callback
  would send the FIN with bytes still in the buffer, and `FinAfterBytes` does not speak of him; the callbacks of the repository
  (`proxy/Session`, `proxy/Proxy`, the examples) only log there.
- *The owner of a TcpConnection* is a TcpClient or a TcpServer with one loop, and may destroy it from the loop
  thread at any time (`ownerDestroys`: `~TcpClient`, and `removeConn` with its `shutdownAll`).
  `TcpServer` with several loops changes the poller of another thread's loop (next item).
- *Another thread's poller.* `TcpServer::removeConnectionInLoop` calls `connectDestroyed` on the
  base thread, which calls `removeChannel` on the poller of the connection's loop, without a lock
  and although `assertInLoopThread` fails there, since `abortNotInLoopThread` only logs (`EventLoop.cc:99`)
  (the variant that passes through `ioLoop` is commented out, `TcpServer.cc:96`). What this data race does has no
  meaning in C++. `TcpServer` remembers the loops it has happened to (`raced`). From then on such a
  loop may see events on sockets that have none (`handleClose`), may lose the entry of a connection in its `pollfds_`, as when `pop_back` meets
  `push_back` or the swap a `poll` (`LoseEntry`: the connection is never polled again and stays in the map, its socket open, while nothing crashes), and
  the program may crash (`Crash`). `ClosedIsErased` says that these are the only ways for a closed connection to stay. `RegisteredAreLive` is about the channels
  the loops have registered, whatever a race leaves of their entries.
  `removeConn`, which a user calls on the base thread, is modelled for servers without threads only.
- *TcpServer's map.* `removeConn` and `getConn` index the map with `[]` and leave an entry without a
  pointer under an unknown name; `Proxy` keeps such entries (`"NULL"`, one is left for every session whose client was gone
  first, and none is ever erased), `TcpServer` does not. Names are used again in `TcpServer` when
  nothing refers to them, where the code counts. The destructors of the server and its threads are not
  modelled: the pool never destroys its threads.
- *Errors of `accept(2)`.* An expected one changes nothing; an unexpected one is logged as fatal, which aborts
  (`acceptFails`). That the listening socket stays readable when descriptors run out, so that the loop spins, is not a
  matter of state.
- *The sweep.* `processSession_` erases the map entry its iterator stands on. What the traversal does
  afterwards is undefined; the model lets it end the sessions of any further part of the expired ones, or crash.
- *The proxy's dead code.* `getTcpClient` never returns NULL, so `pairs_` stays empty and `processQueue_` does nothing;
  nothing calls `ServerManager::init`, `processRequest` and its maps. The loop has no end, so the
  destructors do not run. The server's `closeCallback_` stays bound to the session made last and is called on it, ended or not,
  for every connection that closes; it only logs.
- `Buffer::shrink` leaves the indices as they were (a reserve smaller than what lies
  before them breaks their order); no code calls it. `swap` is not called either.
- Logging, formatting, addresses, and the input side of a connection beyond its end and, in `Proxy`, whether bytes wait there.

## 3. Runs

| Run | Instance | States | Shows |
|---|---|---|---|
| `event_loop` | 2 threads, 3 functors, eventfd up to 2 | 33 000 | no lost wakeup, FIFO, batches end, functors are called, a `quit` of a running loop ends it |
| `poller` | 3 channels, descriptors 0, 4, 6 | 189 000 | registration consistent, asserts hold |
| `buffer` | prepend 2, size 2, strings up to 3, content up to 4 | 115 000 | indices, space, queue of bytes |
| `timer_queue` | 2 addresses, 1 other thread, 3 timers, clock 1..3 | 2 000 000 | ownership, arming, cancelling |
| `tcp_connection` | 2 threads, 2 messages of 2 bytes | 205 000 | stream, interest, FIN, order of messages (refinement), progress |
| `tcp_server` | 3 connections, 0 to 2 threads | 208 000 | start-up, functors between loops, registration, turns, closed connections are erased but for lost entries |
| `tcp_client` | 2 threads, 3 sockets, delays 1, 2, 3 | 381 000 | attempts, sockets, retries; a stop is kept and no attempt begins after it |
| `proxy` | 2 connections, times 2 and 5 | 163 000 | sessions end with their connections and not before, rounds meet live channels, waiting ends |

The other runs each show one thing the code does not do although a text or a program of
the repository says or needs it:

| Run | What happens |
|---|---|
| `event_loop_stranded` | a functor the loop thread queues from an event handler (a write-complete callback) waits until another thread wakes the loop |
| `poller_interest` | after `disableAll` the channel is never polled again, whatever it enables |
| `timer_queue_ids` | `addTimer` on another thread may return the id of another timer |
| `tcp_connection_shutdown` | the FIN may overtake a message that the same thread has sent before its `shutdown()` |

### Why the bounds are enough

`event_loop`: two threads race each other and the loop; three functors fill a batch, the
queue behind it and one more push; a counter of 2 has the failing write. `poller`: with
three channels the removed entry can be the last, the first or between, and the entry
that moves can be negated; descriptor 0 is the edge of the encoding. Channels are
interchangeable, so the run uses symmetry. `buffer`: every case of `makeSpace` and `readFd` occurs
with a buffer of two bytes, and the header of two can be used up by prepends. `timer_queue`: two
addresses are enough for two timers in a batch and for an address to be used again, which
takes a third timer; the clock runs past every expiration (times in the past and the
invalid time are asked for too). Its addresses are symmetric. `tcp_connection`: two messages of two bytes give all splits between
direct writes and the buffer, with a second message behind a first that is stuck. `tcp_client`: one socket
connecting, one being closed, one spare; three delays reach the limit and stay there; the
numbers of timers are used again when nothing refers to them, so retries go on for ever.
`tcp_server`: no thread, one and two are the three cases of `getNextLoop` (no pool, `next_` that is
always 0, `next_` that moves); three connections put two on one loop and one on another, each at any stage of its life.
`proxy`: sessions do not touch one another except in the round and in the sweep, for which two are the least and show
both an expired session the traversal stops at and one it misses. A TIMEOUT of 2 has a time
between "just refreshed" and "may be over"; 5 keeps the first deadline longer than twice that, as 60 is longer than twice 6.
`MaxConns` is below ten, so that names come in the order of their numbers in the map.

### Fairness

Liveness properties are checked under `FairSpec`:

- the loop thread goes on (weak fairness of its steps: `poll` has a time-out of
  `kPollTimeMs` and callbacks return);
- a thread inside `queueInLoop`, `send`, `shutdown`, `connect` or `stop` leaves it (weak);
- in `TcpConnection`, the socket becomes writable again and again while the loop asks
  (strong fairness of a `Poll` that reports it). A peer that never reads makes bytes wait for ever, in the code too;
- in `TcpClient`, the kernel decides each attempt (weak: `connect` times out), and the server
  can be reached again and again (strong). Nothing else makes "keeps trying" end in a
  connection.

- in `TcpServer`, the base thread goes through `start()`, each thread of the pool gets to run and
  reaches its loop, each loop calls its functors, and `poll` reports a closed connection until it is
  handled, if its entry is not lost (all weak: `poll(2)` is level-triggered). A spurious wakeup of the condition is possible, never due.

- in `Proxy`, the loop goes round (weak: `poll` times out after 10 s) and time passes (weak). No channel has to become active.

Nobody has to call, to quit, to connect, to shut down or to close. `tcp_client` and
`tcp_server` do not check deadlock: a client may be destroyed, and a
server may crash or abort (see above), and then nothing happens any more. All other runs check it.

## 4. Proofs

Each proof module extends its model and TLAPS. The theorems hold for every value
of the constants that meets the assumptions named in the models (a loop thread that is not one of
the callers, sizes that are natural numbers, descriptors that are natural numbers, a clock and bounds that are
natural numbers; in `TcpClient` finitely many callers, and at least as many numbers for timers as there can be functors).

`EventLoopProofs`. `NoLostWakeup` is preserved only with the control invariant `Control` (which
variables may be non-empty at which point of the loop: the batch only in
`doPendingFunctors`, the flag set exactly there). The argument follows the wakeup: a push by
another thread puts the thread into `inQueue`; leaving it writes the counter; the counter is
reset only on the way to the swap; the swap empties the queue. From the same invariant: batches do
not grow, and the loop implements `LoopExecutor` with `queue <- functors \o pendingFunctors`
(the swap is a stutter, a call takes the head).

`PollerProofs`. `IndexConsistent` is inductive together with `TypeOK`, `AssertsHold` and the
uniqueness of descriptors and the fields of channels that are not registered. The step that matters, `removeChannel`, is split on whether the entry
is the last one; when it is not, the channel that moves is the registered one whose entry was
last, and every other position keeps its entry. `Silenced` is added for `ActiveAreEnabled`: a channel that has asked
for events and wants none any more has a negated entry, wherever that entry has moved.

`BufferProofs`. The invariant is `WellFormed`: the indices ordered and inside the vector, and
the vector at least as large as the header. Lemmas say what each function does to
`Content` and to the size of the vector; the refinement `Spec => Queue!Spec` and `GrowsOnlyWhenFull` follow from them.

`TcpConnectionProofs`. The invariant is `TypeOK`, `StreamIntact` and `WritingWhilePending`
together: that a direct write keeps the order needs that nothing waits, and that the FIN comes last
needs that interest and buffer agree. `FinAfterBytes` is an action property proved from it.
The refinement `Spec => Stream!Spec` maps to `onTheWay[t]` the message that thread `t` has not pushed yet and those of its functors in
the batch and in the queue. It needs `Numbered`: these messages stand in the order of their numbers, so that the functor that is called
has the first, and `Ends`: a destroyed connection has no interest, so that it writes nothing. Pushes, the swap of the
queue and what `poll` does are stutters. From the refinement follows `EachByteOnce`, which no run checks, with the invariant
`Once`: the number of a message is on the way of one thread, or in the stream, or in neither.

`TcpServerProofs`. The invariant is `TypeOK`, `FunctorsFindConnection` and `RegisteredAreLive`
together with `Control`: no connection of the map is disconnected, a server without threads
has all its connections and no functor on the base loop, and the base thread waits for a loop only while one is missing.
A functor for a connection is then the only one, so that a step for one connection leaves what the others
need (`OnlyTouches`). `Balanced` follows from a second invariant, `LeadsByTurn`: exactly the loops
`1..next` are one connection ahead.

`ProxyProofs`. The invariant is `TypeOK`, `Paired` and `ActiveAreLive` together with three facts the
properties rest on. `ConnectingMeans`: `connecting_` stands for an attempt that is under way or was given up, and is clear once the
connection is there; without it neither `OneUpstream` nor `NothingStuck` is inductive. `Unused`: nothing is known
under a number that was not given out yet. `RelayingInTime`: while both connections are up, each deadline is at
least TIMEOUT minus the time since the last message, from which `NotSweptEarly` follows at the sweep.

`TimerQueueProofs`. `SetsAgree` and `OneOwner` are inductive only with what the functors know: a functor that is to add
a timer is the only one for it, and the timer is still there (`AddsMatch`). `CancelledGone` says of every cancelled id
that its timer is gone, or is in the batch with the id in `cancelingTimers_`, so that `reset` drops it;
`Sequences` keeps the ids of the past apart from the next timer at the same address. `AllArmed` is `Armed` without
minima: the timerfd is due by the expiration of every entry, or at the next tick of the clock. While the batch is being called
it is owed only for entries that a callback added or `reset` put back with a valid time, because `reset` arms
the timerfd afterwards. That every entry of the queue and of the batch has a timer with its expiration (`Agree`) gives
`CalledInTime`, which no run checks: a timer that is called exists, and its time has come.

`TcpClientProofs`. An attempt is, one after another, a call of `start()` on its way, a functor, a function the loop thread goes on with (`calling`), a timer or an open socket.
`OnlyOne` says that there is one of one kind at a time, without counting; `OneAttempt`, which counts, follows.
It is preserved because an attempt begins only when nothing is under way (`BeginsIdle`: the user's `connect()`,
and `removeConnection` up to its `restart()`). `Owned` says that the open sockets are exactly those of the connector's registered channel,
of `connection_` and of the one being handed over; `Control` says which of them there are at which point of the
loop thread; `Dead` what is left after the destructor. `StopHolds` is what `stop()` needs to stay in force for a client that does not
retry. From the same invariant: `StoppedBeginsNothing` (only `ConnectSocket` opens a socket, and only `startInLoop` with `connect_` set leads to it), and `NeverReplaced`, which no run checks: `newConnection`
finds `connection_` empty. `NumberIsFree` is about the model itself: `retry` always finds a number for its timer, so that the
bounds of the model keep no step from being taken.

Type correctness of every module with proofs, and the order of Buffer's
indices, are theorems and not checked by the runs any more. Every safety invariant and every action property
that a passing run checks is a theorem.

Only model-checked: the liveness properties (`RemoteFunctorIsCalled`, `QuitStopsLoop`, `ShutdownSendsFin`,
`BytesGoOut`, `KeepsTrying`, `Serves`, `ClosedIsErased`, `OneSidedIsSwept`, `WaitEnds`), because fairness and
ENABLED are outside the prover's reach, and the disagreements listed above, which are counterexamples.

## 5. Plan

Done, in this order: EventLoop, Poller, Buffer, TimerQueue, TcpConnection, Connector with
TcpClient, TcpServer with the pool, Proxy with its sessions (and with them the rounds in which a handler destroys
the channels of another). Next:

1. An abstract specification of the timers with a proof: a service that calls each one when it is due and at most once per
   expiration (`TimerQueue`).
2. The destructor of `EventLoopThread`, once something destroys one: `quit` and `join` from another thread,
   composed with the loop's `quit_`, which a destructor that comes before `ResetQuit` loses, so that it joins for ever.
3. A cancel on the loop thread that overtakes the functor which is to add its timer (`TimerQueue.cc:209`).
