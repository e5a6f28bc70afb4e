# jmuduo: models and proofs

TLA+ models of jmuduo, a C++ network library in the style of muduo: one event
loop per thread, non-blocking sockets, callbacks.  The models are translated
from `src/src/*.h` and `src/src/*.cc`; the tests in `src/testjmuduo` and the
comments say how the code is meant to be used.  TLC checks every model on small
instances, and TLAPS proves every safety property of the passing runs for all values of
the constants.

`PROJECT.json` lists components, runs, the source lines behind each definition,
the hazards and the theorems.

## 1. The system

| Component | State | Operations | Talks to |
|---|---|---|---|
| `EventLoop` | `quit_`, `looping_`, `pendingFunctors_` (under `mutex_`), `callingPendingFunctor_`, `wakeupFd_`, `activeChannels_` | `loop`, `quit`, `queueInLoop`, `runInLoop`, `wakeup`, `doPendingFunctors_` | polls the `Poller`, runs callbacks of channels and functors of other threads |
| `Poller`, `Channel` | `pollfds_`, `channels_`; per channel `index_`, `events_` | `updateChannel`, `removeChannel`, `poll`, `handleEvent`, `enableReading`, ... | called in the loop's thread only, also for channels already removed |
| `TcpConnection` | `state_`, `outputBuffer_`, `inputBuffer_`, its channel and socket | `send`, `shutdown` (any thread); `sendInLoop`, `handleRead`, `handleWrite`, `handleClose`, `connectEstablished`, `connectDestroy` (its loop) | owner: `TcpServer`; user callbacks |
| `TcpServer` | `connections_`, `started_`, the acceptor and the pool | `start`, `newConnection`, `removeConnection` | base loop; I/O loops through `runInLoop` |
| `Acceptor`, `Socket` | `acceptSocket_`, `listenning_`, `idleFd_` | `listen`, `handleRead`, destructor | hands sockets to `TcpServer` |
| `Buffer` | a vector of bytes and two indices | `append`, `retrieve`, `prepend`, `readFd` | belongs to one connection |
| `TimerQueue`, `Timer` | ordered set of timers, one timerfd | `addTimer`, `handleRead`, `getExpired`, `reset` | its timerfd is the first channel of the loop |
| `EventLoopThreadPool`, `EventLoopThread` | `loops_`, `nextId_`; per thread `loop_`, a mutex and a condition | `start`, `getNextLoop`, `threadFunc`, destructors | `TcpServer` |
| `Thread`, `Mutex`, `Condition` | pthread objects | `start`, `join`, `lock`, `wait`, `notify` | everybody |
| `CountDownLatch`, `ThreadPool` | counter; task queue | `wait`, `countdown`; `run`, `take`, `stop` | nobody in the library |
| `BlockingQueue`, `BoundedBlockingQueue`, `Singleton`, `ThreadLocal`, `BufferMin`, `BufferStander` | | | dead code: not instantiable, not compilable or not included |

What is hard in it:

* *Threads.* `queueInLoop`, `quit`, `send`, `shutdown` and `addTimer` are called from
  any thread.  Only `pendingFunctors_` is protected by a mutex; `quit_`, `state_`,
  `callingPendingFunctor_` and `loop_` are plain variables that several threads use.
* *Order.* A cross-thread call is a functor that runs later, after state it was
  decided on has changed.  Closing a connection takes a callback and two functors in
  two loops.  A loop's iteration is poll, callbacks, functors.
* *Lifetime.* Channels are raw pointers, connections are reference counted but
  `send` and `shutdown` bind a plain `this`, descriptors are reused by the kernel, loops
  live on the stacks of their threads.
* *Failures.* Partial writes, EAGAIN, EPIPE and ECONNRESET; EMFILE; spurious wakeups;
  a wall clock that is set while timers wait.
* *Assertions.* `NDEBUG` is not defined: an assertion that fails ends the process, so
  each one is a claim to check.

What makes each component correct is stated with the modules below, and
`PROJECT.json` has the hazards line by line.

## 2. Modules

`X.tla` models component X; `XProofs.tla` has theorems about it; abstract
specifications have names of their own.

| Module | What | Abstract specification it implements |
|---|---|---|
| `EventLoop` | the loop's thread and any number of other threads | `FunctorQueue`: functors start once, in the order posted |
| `Poller` (`MCPoller` for TLC) | `Poller` and the channels of one loop | `PollSet`: a set of interests; a muted channel is never reported |
| `TcpConnection` | one connection with its server, two loops, user threads and network | |
| `TcpServer` (extends `Acceptor`) | a server with several connections, their names, loops, descriptors and references | `ConnectionLife`: one life and one descriptor for each connection |
| `Buffer` | `net::Buffer` | `ByteQueue`: each request puts its bytes at an end or takes as many as it says |
| `TimerQueue` | the timers of one loop and two clocks | |
| `EventLoopThreadPool` | the I/O threads from start to destruction | |
| `Acceptor` | the steps of the listening socket when descriptors run out; taken by `TcpServer` | |
| `LoopDestruction` (instantiates `Poller`) | a main with a loop and a channel of its own, from constructor to destructors (`test3.cc`) | |
| `CountDownLatch`, `ThreadPool` | the latch and the task queue, lock by lock | |
| `Workers` (extends both) | threads that wait on a latch for tasks of a pool | |

**Atomicity.** A step is what no other thread can observe in the middle.  In
`EventLoop` a critical section of `mutex_` is one step and each assignment to a
variable that another thread reads is one (`ResetQuit`, `SetCalling`, `ClearCalling`,
and a write of `quit_` or `pendingFunctors_` is separate from the `wakeup` that follows
it).  In `TcpConnection`, `send` and `shutdown` of a user thread are cut after
their test of `state_` (`queueSend`, `setDisconnecting`, `queueShutdown`), because the loop
may change it there.  A handler that runs in one loop is one step up to the user
callback it makes, since all else it touches belongs to that loop's thread.
`handleRead` of `Acceptor` is cut at each system call, as the descriptor table belongs to
the process.  A `Buffer` belongs to one thread: an operation is one step.

**Failed assertions and undefined behaviour.** A failed assertion, or a use of an
object that is gone, sets `failed` (in `LoopDestruction`, `dangling`) to a name and
nothing happens afterwards.  What each outcome means for the code:

| Outcome | Where | What is said of it |
|---|---|---|
| `updateChannel`, `fillActiveChannels` | `Poller` | do not occur (`AssertionsHold`) |
| `removeFd`, `removeEvents` | `Poller` | occur in one case each, no other (`AssertionsHold`) |
| `isNoneEvent` | `Poller` | occurs; in the library when `sendInLoop` is late (run `connection_remove_assert`) |
| `sendInLoop`, `remove` | `TcpConnection` | occur (runs `connection_send_assert`, `connection_remove_assert`) |
| `handleClose` | `TcpConnection` | does not occur (`LifecycleOrdered`) |
| `dangling` | `TcpConnection` | occurs in two cases, no other (`OutlivesUse`) |
| `update` | `TcpConnection` | occurs, and no property is about it here: `Poller` models what the update of a removed channel does |
| `hasWritten` | `Buffer` | does not occur (`AppendFits`) |
| `prepend`, `peek` | `Buffer` | a caller's duty; no property |
| `readTimerfd` | `TimerQueue` | does not occur (`ReadAssertHolds`) |
| `addTimer` | `TimerQueue` | occurs (run `timer_queue_timer_id`) |
| `null` | `EventLoopThreadPool` | occurs only if a loop's own user code quits it (`StartedLoopsExist`) |
| `dangling` | `EventLoopThreadPool` | occurs: the destructor's `wakeup` on a loop that left and was destroyed meanwhile (EventLoop.cc:99-103); no property is about it |
| `failed` | `Acceptor` | a `close` of someone else's descriptor: does not occur (`DescriptorsOwned`) |

The unsynchronised reads of `quit_`, `state_`, `loop_` and `callingPendingFunctor_` are
modelled as reads of the current value, at every point where the scheduler may put
them; the compiler could do worse.

**How the modules correspond to the code**

* `EventLoop`: `pc` is the place in `loop()`; `calls[t]` is a thread between its write
  and its `wakeup()`; `early` is a history variable for functors queued by the loop's
  thread while it is not in `loop()`.  The poller appears as the set it returns:
  anything, but `wakeupFd_`'s channel exactly when its counter is not zero.
  `runInLoop` is `queueInLoop` from another thread and part of the caller's frame in
  the loop's thread.
* `Poller`: one action for each call a channel can make; `Channel` and `destroy` are its
  constructor and destructor, guarded by the rule that two open descriptors differ.
  `MayRemove` is how the library gets to `Channel::remove`: with one loop,
  `removeConnection` runs `connectDestroy` inside the channel's own callback
  (`handling = c`), with two it is a functor, which runs when no channel waits to be handled
  (`InFunctors`).  `enableWriting` is also taken for a removed channel, by a `sendInLoop` that
  was queued before: `removeChannel` leaves `index_` as it was, and the update rewrites the
  entry that is there now (`Sharing`), or memory behind the last entry.  `overwritten` and
  `enabled` are history variables: channels whose entry was last written so, and channels that
  ever asked for an event.  In `PollSet` such an update is `Misdirect`.
* `TcpConnection`: `ioQueue` and `baseQueue` are the functors queued for this connection;
  `Alive` is the reference count (map, user's pointers, functors that bind a
  `TcpConnectionPtr`, the guard of `Channel::handleEvent`).  `socket_` is the kernel:
  room in the send buffer, our FIN, a pending error, the peer's state.  A write takes what
  there is room for, or fails with EAGAIN, EPIPE or ECONNRESET according to `socket_`.
  `taken` counts the bytes `sendInLoop` has taken, and each gets its number from that count,
  not from what is left of the earlier ones: a lost byte leaves a gap in `wire`, a
  repeated one is there twice.  The write-complete and high-water-mark callbacks may be
  unset, as TcpServer leaves them (`Offered`).  A user's callback (`pc = "callback"`) may send,
  shut down and copy its pointer.  The callback for "down", which `handleClose` and
  `connectDestroy` make, is part of their step: `send` and `shutdown` do nothing in it,
  as `state_` is `kDisconnected`, and a pointer copied there keeps the object as one
  copied before does.
  `loop_` is the connection's loop: the base loop, where `runInLoop` runs at once, or
  another.
* `Buffer`: `buffer_` is a function over `0 .. size - 1`; `FirstPart` and `SecondPart`
  are what `readv` puts into the vector and into the array on the stack.  `request` is a
  history variable, the last operation and its argument, which ties `ByteQueue`'s steps to
  what was asked for.
* `TimerQueue`: `due[t]` is the time left on the wall clock; `timerfd` counts on the
  monotonic one.  `jump` sets the first only.
  A time stamp is after 1970: `Timestamp::valid()` is true of every timer.  A timer's address is reused after
  `delete`.  `returning` holds the threads that are in `addTimer` after `runInLoop`.
* `EventLoopThreadPool`: `base` is the base loop's thread, `thread[t]` the place of each
  I/O thread from `publish` (it sets `loop_` and notifies) to `unwind` (the
  `EventLoop` on its stack is destroyed).  `quitters` are threads whose user code
  called `quit()` on its own loop, which happens only once a connection was given to it.
* `Acceptor`: `fds` is the process's table; `raced` is a history variable: another thread
  took a descriptor while the acceptor held no reserve.
* `TcpServer`: `conn` has the `TcpConnection` objects in the order of their creation,
  `connections_` maps names (numbers) to them, `functors[l]` is what is queued in loop l.
  `Alive` is the reference count; a step after which it is false runs the destructor,
  which closes the descriptor (`ClosesDestroyed`).  The base loop takes no step while it
  is between two system calls of `Acceptor::handleRead`.  Data, `shutdown` and events are
  left to `TcpConnection`; here a registered connection may be closed at any time.
* `LoopDestruction`: `Poller` with three channels of fixed descriptors, those of the timer
  queue, of the wakeup and of main.  `EndInit` is the state the constructor leaves; `stage` is
  how far main has got.  `ChannelDestroyed`, `EventLoopDestroyed` and `TimerQueueRemoved` are
  the destructors, in the reverse of the order of declaration.  `dangling` is a write to a
  channel whose `life` is over.
* `CountDownLatch`: `waiter[w]` is a thread in `wait`; each critical section is a step.
* `ThreadPool`: `mutex_` is its holder; a thread that holds it and locks it again, in
  `isFull` or `isEmpty`, is in `"again"`.  What follows that lock is in no action.
  `run`'s read of `threads_` and the worker's of `running_` are not under the mutex.
* `Workers`: a task counts the latch down once, as in `testCountDownLatch.cc`.

Definitions that a comment calls *Mutant* are wrong versions of the definition next
to them; `PROJECT.json` says which property fails with which.

## 3. Runs

`tlc -config X.cfg M` in this directory; `poller` takes two minutes, each of the others
less than one.

| Run | Bounds | Distinct states | Shows |
|---|---|---|---|
| `event_loop` | 2 other threads, 3 functors, one I/O channel, eventfd limit 2 | 28,950 | no lost wakeup, no lost quit, FIFO, prompt execution, quit ends the loop, channels are not starved |
| `poller` | 4 channels on 3 descriptors, two sharing one, and interchangeable but for their names (`SYMMETRY`) | 513,704 | array, map and indices agree; only live channels are called; assertions fail in two cases only; implements `PollSet` |
| `connection` | 1 user thread, 3 bytes in messages of 1 or 2, room for 1 in the kernel, high water mark 2, both kinds of loop | 113,084 | data complete and in order, FIN after data, POLLOUT exactly when needed, no use after destruction but the two named, one close, cleanup, output and shutdown completed |
| `buffer` | 2 byte values, sizes 2 + 2, 2 extra, operations of up to 3 bytes, 4 held at most | 48,835 | a queue of the bytes asked for, bounded growth, `hasWritten`'s assertion |
| `timer_queue` | 2 timers, delays 0, 1, 3, intervals 0, 1, 2, one jump of the clock | 91,267 | timerfd armed in time, timers owned once, every timer runs |
| `thread_pool` | 3 I/O threads, 2 connections for each loop | 41,522 | pointers valid until told to quit, start returns, and join if the thread was past `quit_ = false` |
| `server` | 4 descriptors, backlog 2, 3 connections, 0 or 2 I/O threads | 75,512 | descriptors watched, closed and reused by their owners only, backlog drained, one life for each connection, cleanup |
| `workers` | 2 waiting threads, 2 tasks, 0 to 2 pool threads | 8,442 | waiting means done, all are released; who locks twice stays, a task handed over is never done and its waiters never released |

Why the bounds are enough.  *EventLoop*: two threads and the loop's own make all pairs of
callers; three functors give one running, one left in the batch and one queued
meanwhile, the least that shows an order.  *Poller*: removing the first, a middle
or the last of three entries, with the moved one muted or not, are the cases of
`removeChannel`; the fourth channel reuses a descriptor.  *TcpConnection*: a message of two
bytes with room for one is the partial write; three bytes let a second message follow
it.  With two user threads, which can be in `shutdown` together, the six invariants
have been checked as well, without liveness (`Users = {t1, t2}`, `SPECIFICATION Spec`,
789,630 states); the callbacks are a second caller in the run itself.  *Buffer*: sizes below and above
`kCheapPrepend`, and operations larger than the free space, give each branch of
`makeSpace` and each split of `readFd`.  *TimerQueue*: two timers give every order of
a new one and an old; delays below, at and above the least time that is armed.
*Pool*: with three threads the destructor works on one, after one, before
another.  *Server*: two descriptors besides the acceptor's own can be taken in all ways,
the third connection gets a descriptor, and in the pool a loop, that another had;
with two I/O threads `connectDestroy` and the reuse of the descriptor are in different
loops.  *Workers*: `notify` instead of `notifyAll` shows with two that wait.

`MaxLen`, `MaxBytes`, `MaxReadable`, `MaxLate`, `MaxJumps`, `MaxAssigned`, `MaxArrivals`
bound what could grow for ever; `EventfdMax` stands for 2^64 - 2 and is reached.
`CHECK_DEADLOCK FALSE` is set where the bounded environment may come to an end: a
connection that is destroyed, a pool that is, an execution that failed an
assertion, a buffer that did.  The loop of `EventLoop` never stops, and its run checks
for deadlock.

**Fairness.** Threads that can go on do so (weak fairness of each thread's steps), user
callbacks return, and a poll that has something to report returns.  Nobody has to
call anything.  In detail:

* `EventLoop`: `QuitEndsLoop`, `IoNotStarved` and the first part of `FunctorsRun` assume no
  timeout of poll; the second part assumes `Timeouts`, that poll returns after
  `KPollTimeMs`, the constant it is called with.
* `TcpConnection`: an iteration runs the functors and polls; each may be disabled and
  enabled again by the other, hence strong fairness for both, justified by
  `IoNotStarved` and `FunctorsRun` of `EventLoop`.  The network acknowledges what it was
  given as long as the peer is there.
* `TimerQueue`: the loop goes round, time passes.
* `EventLoopThreadPool`: a poll returns when woken, not otherwise.
* `TcpServer`: the loops poll, `handleRead` goes on and functors are run.  The base loop's
  functors wait while it is in `handleRead`, which may happen again and again: hence
  strong fairness for them, justified like that of `TcpConnection`.  No descriptor need be
  freed, no peer close, no user release anything.
* `Workers`: a thread that was woken, or that runs a task, goes on.

**Violations.** Four runs show an assertion or a test's use of the library failing; the
counterexamples are short and read as executions of the code.

| Run | Claim | What happens |
|---|---|---|
| `connection_send_assert` | `assert(nwrote>=0)`, TcpConnection.cc:190 | a direct write fails with EAGAIN or ECONNRESET; only EPIPE returns before the assertion |
| `connection_remove_assert` | `assert(isNoneEvent())`, Channel.cc:51 | a `sendInLoop` queued earlier runs after `handleClose` and enables writing again; `connectDestroy` removes the channel |
| `loop_destruction` | a `main` whose channel's callback quits the loop, and that returns: test3.cc:18, 27, 34-37 | the channel is destroyed first, and its entry stays; `~TimerQueue`'s removal moves that entry and writes to the channel (Poller.cc:105) |
| `timer_queue_timer_id` | test4.cc:14, a timer added from another thread | `addTimer` reads the sequence number of a timer the loop has run and deleted |

Three more misbehaviours are in properties that hold, because they say exactly when it
happens:

* `AssertionsHold`: the assertion of Poller.cc:92 fails for a channel that was never enabled,
  as `disableAll` adds an entry that is not muted (`~Acceptor` of a server that is destroyed
  without `start()`); and for a channel whose entry a late `sendInLoop` of a removed one
  has overwritten.
* `OutlivesUse`: the functors that `send` and `shutdown` bind to a plain `this` may run on a
  destroyed connection if its loop is the base loop, or if they were queued after the
  connection left the map (`late`).
* `SecondLockHangs`: `isFull` and `isEmpty` lock the mutex their callers hold (ThreadPool.cc:73,
  85, 104, 110): a pool with threads stops at its first task.  A finding has the details.

`JoinReturns` excepts a pool destroyed before one of its threads has executed
`quit_ = false`: its quit is forgotten, and the destructor does wait for ever.

## 4. Proofs

`tlapm XProofs.tla` proves the following for every value of the constants that meets
the assumptions named in X.  The assumptions say what sort of thing a constant is
(the loop's thread is not one of the others, descriptors are natural numbers, sizes
are, `kCheapPrepend` and `kInitialSize` are not zero), and nothing about there are.

**EventLoopProofs.** `TypeCorrect`, `WakeupNotLost`, `QuitNotLost`, `CallingCorrect`,
`ImplementsQueue`.  The invariant is

    IInv == TypeOK /\ CallingMatches /\ BatchMatches /\ NoLostWakeup /\ NoLostQuit

`NoLostWakeup` is not inductive alone: when the loop's own thread queues a functor, it
writes a wakeup only if `callingPendingFunctor_` is set, so one must know that the flag
is up whenever the thread is past the swap (`CallingMatches`); and that it can only be
inside a functor there (`BatchMatches`).  `WakeupStep` shows that a wakeup that is coming stays so
until `handleRead`, which runs only where a swap still follows.  For the queue, the
abstract one is `functors \o pendingFunctors_`: a swap is a stutter because `functors` is
empty then, which is `BatchMatches` again.

**PollerProofs.** `TypeCorrect`, `PollfdsAgree`, `ActiveAlive`, `PollerAsserts`,
`ImplementsPollSet`.  The invariant is

    Core == TypeOK /\ Lifetimes /\ PollfdsMatch /\ ActiveValid /\ AssertionsHold
    IInv == Core /\ Recorded

where `Lifetimes` says that existing channels have different descriptors, and `Recorded`
ties the two history variables to the entries: a registered channel that once asked for an
event and asks for none now has its entry muted, one that is overwritten is registered.
The core is the removal: after the last entry has moved, its channel's index, found
through its descriptor (negated if it is muted), is the only one that changes.  The
parts need each other: a look-up succeeds because the map and the array agree, and they do
because look-ups hit the right channel.  That a late update of a removed channel leaves
this agreement alone is no accident of the model: it writes `events`, and `fd` only if no event
is asked for, which `enableWriting` never does.

**BufferProofs.** `TypeCorrect`, `IndicesStayOrdered`, `AppendAlwaysFits`,
`GrowthStaysBounded`, `AlwaysMovesDown`, `ImplementsQueue`.  One lemma for each
operation says what it does to `Content` with the argument it was given (`request`);
`EnsureWritable` says that making space
changes nothing a reader sees.  `GrowthBounded` needs the order of the indices and that the
content is below `MaxReadable`.  `AlwaysMovesDown` is what BufferStander.h asserts
(line 379) and Buffer.h no longer does.

**WorkersProofs.** `TypeCorrect`, `WaitReturnsWhenDone`, `NeverUnlocked`.  The invariants are

    LockInv  == PoolTypeOK /\ HeldWhere /\ OwnerPlaces
    CountInv == LockInv /\ LatchTypeOK /\ WaitMeansDone

`SecondLockHangs` is about steps, and needs to know who holds `mutex_` (`HeldWhere`): a
thread at its second lock does, and so nobody can take the mutex.  A caller that was handed
over to the pool thus stays where it is (`HeldFast`), and the count, which is the
number of tasks left, cannot reach 0 without it.  `WaitMeansDone` is inductive once
the count is tied to the tasks that are left; a task leaves that set when it counts, and
no other step of the pool changes it (`PoolStepLeft`).  Assumed are that the threads with
tasks are finitely many, each counted once by the latch, and are not the pool's own.

**EventLoopThreadPoolProofs.** `TypeCorrect`, `LoopsExist`, `DestroyedAfterUse`, for any
number of I/O threads.  The invariant `PoolInv` ties four records of one history
together: the place of the base loop's thread (`base`), the vector (`LoopsInOrder`: the i-th
pointer is the i-th thread's, as many as `startLoop` has returned), the threads
(`ThreadsBegun`) and the pointers that they lent (`LentInLoop`).  `QuitsWhenTold` says who
can make a loop leave: that a loop in the vector exists is true only because its
thread leaves `loop()` after a quit, and nobody but its own user code and its destructor
has a reason to call one; before the pool is ready nobody has (`HandedOutWhenReady`).

**TimerQueueProofs.** `TypeCorrect`, `ReadFindsExpiration`, `TimersOwned`, `NoTimerForgotten`.

    TimersInv == TypeOK /\ ReadAssertHolds /\ Owned
                 /\ VectorMatches /\ ReportedIsReadable /\ FinitelyMany /\ CoversEach

`TimerfdCovers` speaks of the first timer, `CoversEach` of every one; the latter is
inductive, and `CoversFirst` shows that they agree.  That needs a first timer
to exist: the set is finite (`FinitelyMany`: timers are added one by one), and a finite set
that the entries' order is total on has a least element (`LeastExists`, from the
well-foundedness of strict inclusion).  Delays may be negative and intervals zero, as
the code allows.

**TcpConnectionProofs.** `TypeCorrect`, `BytesStayInOrder`, `FinAfterData`,
`WatchedWhileWaiting`, `ConnectionOutlivesUse`, `LifeInOrder`, for any threads, lengths and
send buffer, and both kinds of loop.

    ConnInv == TypeOK /\ Data /\ LifeInv

`Data` is the first three properties together: `InOrder` says that `wire` and
`outputBuffer_` are the numbers from 1 to `taken`, and a direct write keeps it only if
nothing is buffered, which the test of POLLOUT in `sendInLoop` shows only if
`WritingMatchesBuffer` holds.  `LifeInv` puts an execution that has not failed in one of four
parts of a life, `Unborn`, `Connecting`, `Open`, `Closed`, the last of them with three stages
(`Leaving`, `Destroying`, `Gone`), each with the functors that are queued then.  They are what
`OutlivesUse` needs: that the object lives while the channel is registered is true because one
functor or the map holds it in each stage, and that a plain `this` is safe in an I/O
loop is true because none is queued behind `connectDestroy` unless `late`
(`NoPlainBehind`).  The two exceptions of the property are in the theorem as they
are in the run.  `TypeOK` says of the numbers of bytes that they are positive, not
how great: that no more of them wait in the queues than were issued is a sum over a
queue, and thus induction over data.

**TcpServerProofs.** `TypeCorrect`, `DescriptorsAreOwned` and the refinement
`ServerImplementsLives`, for any descriptors (0 and 1 among them), any number of connections
and any `ThreadCounts`.

    ServerInv == ServerTypeOK /\ AcceptorOwns /\ Counted /\ Named
                 /\ FunctorsKnown /\ Phases /\ ConnectionsOwn

`Phases` says of each connection which one functor about it is queued, in whatever
loop, and what the map has then (`Pending`, `Up`, `Leaving`, `Destroying`, `Removed`).  A
registered connection is alive in all phases it can be in, which gives
`DescriptorsOwned` once the table is known to agree with the connections that exist
(`ConnectionsOwn`); that is inductive because `accept` takes a free descriptor
(`LeastFree`), and `close` gives up only the acceptor's own (`AcceptorOwns`) or that of a
connection with its last reference.  `Moves(c)` is what all steps of a connection have in
common: the others keep their phase and their references, although they share the map
and the queues with c, and the table changes exactly if c ends (`MoveOthers`,
`MoveTable`).  `Aside` is the same for steps of the acceptor, other threads and
peers, `Begins` for a new connection.  Each is then matched with a step of `ConnectionLife`
or none (`StaysAbstractly`, `ChangesAbstractly`, `EndsAbstractly`, `BeginKeeps`).  That names do
not collide is `Named` with `Counted`: a name is the number of the connection that has it.

Before a strengthened invariant was proved, TLC checked it with the bounds of the
component's run.

**Only model-checked.** All liveness properties (fairness is out of the prover's reach):
`FunctorsRun`, `QuitEndsLoop`, `IoNotStarved`, `PeerCloseCleansUp`, `OutputCompletes`,
`EveryTimerRuns`, `PoolStarts`, `JoinReturns`, `BacklogDrains`, `CleanedUp`, `WaitersReleased`.
The four runs that find a violation have nothing to prove.  The type invariants of
`EventLoop`, `Poller` and `Buffer` are proved and are in no run.

## 5. Not modelled

* The destruction of a server with open connections: there is no `~TcpServer`, and
  `connections_` is destroyed while their channels are registered.  The models destroy
  a server when it has none left.
* The caller's message pointer of a cross-thread `send` (TcpConnection.cc:157): models
  pass lengths.  Assertions on a caller's duty (`prepend`, `peekInt64`, ...) are outcomes of
  `Buffer` that end an execution; no run makes a claim of them.
* What follows the second lock in `ThreadPool::run` and `take`: it never executes, as
  `SecondLockHangs` shows.
* What the memory behind the last entry of `pollfds_` holds, which a late update may write:
  nothing reads it.
* Values: addresses, names, time stamps, byte order, formatting, logging, socket options.
* Dead code, listed in section 1.
* Signals (EINTR ends the process), failures of `pthread_create`, and memory that runs out.

## 6. Plan

Order by importance: the loop and what rests on it first.

1. Done: `EventLoop`, `Poller`, `TcpConnection`, `Buffer`, `TimerQueue`,
   `EventLoopThreadPool`, `Acceptor`, `TcpServer`, `LoopDestruction`, `CountDownLatch`,
   `ThreadPool` and `Workers`; the abstract specifications of four of them; every
   safety property of the passing runs is proved.
2. Next: action properties of `TcpConnection` (what the peer has received is never taken
   back; a connection that is down does not come up again) and of `TcpServer` (a
   descriptor changes hands only through "free"); a composition of `Poller` with two
   connections, in which the late update meets the entry of the other; and the safety of
   `LoopDestruction` for the orders of destruction that do work.
