--------------------------- MODULE TcpConnection ----------------------------
(***************************************************************************)
(* One connection of a TcpServer from accept to destruction                *)
(* (src/src/TcpConnection.{h,cc}, src/src/TcpServer.cc:38-73,              *)
(* src/src/Channel.cc): the base loop that owns connections_, the I/O loop *)
(* that owns the connection, threads that call send and shutdown, and the  *)
(* peer.                                                                   *)
(*                                                                         *)
(* The loops are used through what their own modules establish: functors   *)
(* are run once each and in order (FunctorQueue), and the poller reports   *)
(* the events of a registered channel until it has been muted (PollSet).   *)
(* A handler is one step of its loop, up to a user callback that can act   *)
(* on the connection.  send and shutdown read state_ without a lock, so in *)
(* other threads their tests, assignments and hand-overs are steps of      *)
(* their own.                                                              *)
(*                                                                         *)
(* An assertion that fails, a call through a pointer to the destroyed      *)
(* connection and an update of a removed channel end the execution:        *)
(* failed says which it was.                                               *)
(***************************************************************************)
EXTENDS Integers, Sequences

CONSTANTS Loops,           \* what getNextLoop may return: "base" in a server
                           \* without I/O threads, else "io"
          Users,           \* other threads that use the connection
          Lengths,         \* lengths of the messages they send
          MaxBytes,        \* bound on the bytes handed to send in all
          SendBuffer,      \* what the kernel's send buffer holds
          HighWaterMark

ASSUME LoopsAssumption == Loops \subseteq {"base", "io"}
ASSUME LengthsAssumption == Lengths \subseteq Nat \ {0}
ASSUME SizesAssumption == MaxBytes \in Nat /\ SendBuffer \in Nat \ {0} /\ HighWaterMark \in Nat

VARIABLES
    loop_,             \* the loop that was chosen, "none" before that
    state_,
    channel_,          \* "new", "registered" or "removed"
    events_,           \* of the channel
    muted,             \* the poller skips the channel from now on
    outputBuffer_,     \* bytes, by their numbers (see taken)
    connections_,      \* the server's map holds the connection
    baseQueue,         \* functors of the base loop about this connection
    ioQueue,           \* functors of the I/O loop about this connection
    pc,                \* where the I/O loop is: "idle", "reported" (poll
                       \* returned the channel), "dispatch", "callback"
    revents,           \* what poll reported and has not been handled
    socket_,           \* the kernel's side, see Sockets
    calls,             \* where each user thread is in send or shutdown
    holders,           \* user threads that hold a TcpConnectionPtr
    failed,
    issued,            \* bytes handed to send, for the bound
    wire,              \* history: bytes the kernel took, in order
    taken,             \* history: how many bytes sendInLoop has taken; the
                       \* next one's number is one more
    notified,          \* history: calls of connectionCallback_
    late               \* history: send or shutdown queued its functor when
                       \* the connection had left the server's map

object == <<loop_, state_, outputBuffer_>>
channel == <<channel_, events_, muted>>
loops == <<baseQueue, ioQueue, pc, revents>>
owners == <<connections_, holders>>
history == <<issued, wire, taken, notified, late>>
vars == <<object, channel, loops, owners, history, socket_, calls, failed>>

States == {"none", "kConnecting", "kConnected", "kDisconnecting", "kDisconnected"}
Functors == [run : {"connectEstablished", "connectDestroy", "shutdownInLoop",
                    "writeComplete", "highWaterMark"}]
            \cup [run : {"sendInLoop"}, len : Lengths]
Calls == [at : {"idle", "setDisconnecting", "queueShutdown"}] \cup [at : {"queueSend"}, len : Lengths]

(* room: free space in the send buffer; fin: our side was shut down;       *)
(* error: ECONNRESET is pending; peer: "closed" after its FIN; inbound:    *)
(* data waits to be read.                                                  *)
Sockets == [room : 0 .. SendBuffer, fin : BOOLEAN, error : BOOLEAN,
            peer : {"open", "closed", "reset"}, inbound : BOOLEAN]

(* The outcomes that end the execution, by the code that meets them.       *)
Failures == {"none", "sendInLoop", "handleClose", "remove", "update", "dangling"}

TypeOK ==
    /\ loop_ \in Loops \cup {"none"}
    /\ state_ \in States
    /\ channel_ \in {"new", "registered", "removed"}
    /\ events_ \in SUBSET {"read", "write"}
    /\ muted \in BOOLEAN
    /\ outputBuffer_ \in Seq(Nat \ {0})
    /\ connections_ \in BOOLEAN
    /\ baseQueue \in Seq({"removeConnectionInLoop"})
    /\ ioQueue \in Seq(Functors)
    /\ pc \in {"idle", "reported", "dispatch", "callback"}
    /\ revents \in SUBSET {"in", "out"}
    /\ socket_ \in Sockets
    /\ calls \in [Users -> Calls]
    /\ holders \in SUBSET Users
    /\ failed \in Failures
    /\ issued \in 0 .. MaxBytes
    /\ wire \in Seq(Nat \ {0})
    /\ taken \in Nat
    /\ notified \in [{"up", "down"} -> 0 .. 2]
    /\ late \in BOOLEAN

Idle == [at |-> "idle"]

Init ==
    /\ loop_ = "none"
    /\ state_ = "none"
    /\ channel_ = "new"
    /\ events_ = {}
    /\ muted = FALSE
    /\ outputBuffer_ = << >>
    /\ connections_ = FALSE
    /\ baseQueue = << >>
    /\ ioQueue = << >>
    /\ pc = "idle"
    /\ revents = {}
    /\ socket_ = [room |-> SendBuffer, fin |-> FALSE, error |-> FALSE,
                  peer |-> "open", inbound |-> FALSE]
    /\ calls = [t \in Users |-> Idle]
    /\ holders = {}
    /\ failed = "none"
    /\ issued = 0
    /\ wire = << >>
    /\ taken = 0
    /\ notified = [up |-> 0, down |-> 0]
    /\ late = FALSE

-----------------------------------------------------------------------------
(* Mutant: connectDestroy is bound to a plain this, too.                   *)
OwningWithoutDestroy == {"connectEstablished", "writeComplete", "highWaterMark"}

(* Who keeps the connection alive: the map, user threads, functors that    *)
(* were bound to a TcpConnectionPtr (sendInLoop and shutdownInLoop are     *)
(* bound to a plain this), and the guard of Channel::handleEvent.          *)
Owning == {"connectEstablished", "connectDestroy", "writeComplete", "highWaterMark"}

Alive ==
    \/ connections_
    \/ holders # {}
    \/ baseQueue # << >>
    \/ \E i \in DOMAIN ioQueue : ioQueue[i].run \in Owning
    \/ pc \in {"dispatch", "callback"}

Created == state_ # "none"
SameLoop == loop_ = "base"
Running == failed = "none"
Writing == "write" \in events_

(* write(2) of n bytes: the count, or -1.                                  *)
Broken == socket_.error \/ socket_.fin \/ socket_.peer = "reset"

(* Mutant: a write is never short.                                         *)
WriteAll(n) == IF Broken THEN -1 ELSE n

WriteCount(n) ==
    CASE Broken \/ socket_.room = 0 -> -1
      [] OTHER -> IF n <= socket_.room THEN n ELSE socket_.room

(* ECONNRESET is reported once, then EPIPE; a full buffer gives EAGAIN.    *)
Epipe == ~socket_.error /\ (socket_.fin \/ socket_.peer = "reset")

Took(n) == [socket_ EXCEPT !.room = @ - n]

Numbered(first, last) == [i \in 1 .. last - first + 1 |-> first + i - 1]

-----------------------------------------------------------------------------
(* TcpConnection::sendInLoop with a message of n bytes, when q is what is  *)
(* left of the I/O loop's queue.  It does not look at state_.              *)

sendDirectly == ~Writing /\ outputBuffer_ = << >>

Dropped(n, q) ==
    /\ sendDirectly
    /\ Epipe
    /\ ioQueue' = q
    /\ UNCHANGED <<object, channel, socket_, wire, taken, failed>>

AssertNwrote(n, q) ==
    /\ sendDirectly
    /\ WriteCount(n) < 0 /\ ~Epipe
    /\ failed' = "sendInLoop"
    /\ ioQueue' = q
    /\ UNCHANGED <<object, channel, socket_, wire, taken>>

CrossesHighWaterMark(remaining) ==
    /\ Len(outputBuffer_) + remaining >= HighWaterMark
    /\ Len(outputBuffer_) < HighWaterMark

(* The callbacks of the user, when they are set, are functors of the I/O   *)
(* loop.  TcpServer sets neither (TcpServer.cc:54-55).                     *)
Offered(q, callback) == {q, Append(q, [run |-> callback])}

(* The numbers of the bytes at the places from first to last of the        *)
(* message that is being taken.                                            *)
Message(first, last) == Numbered(taken + first, taken + last)

(* Mutant: what is appended starts at message, not at message + nwrote.    *)
FromStart(n, nwrote) == Message(1, n - nwrote)

Rest(n, nwrote) == Message(nwrote + 1, n)

WatchedFor(remaining) == IF remaining > 0 THEN events_ \cup {"write"} ELSE events_

Taken(n, q) ==
    LET nwrote == IF sendDirectly THEN WriteCount(n) ELSE 0
        remaining == n - nwrote
    IN
    /\ nwrote >= 0
    /\ taken' = taken + n
    /\ wire' = wire \o Message(1, nwrote)
    /\ socket_' = Took(nwrote)
    /\ outputBuffer_' = outputBuffer_ \o Rest(n, nwrote)
    /\ ioQueue' \in CASE remaining = 0 -> Offered(q, "writeComplete")
                      [] remaining > 0 /\ CrossesHighWaterMark(remaining)
                           -> Offered(q, "highWaterMark")
                      [] OTHER -> {q}
    /\ events_' = WatchedFor(remaining)
    /\ failed' = IF remaining > 0 /\ ~Writing /\ channel_ = "removed" THEN "update" ELSE failed
    /\ UNCHANGED <<loop_, state_, channel_, muted>>

sendInLoop(n, q) == Dropped(n, q) \/ AssertNwrote(n, q) \/ Taken(n, q)

(* Mutant: the FIN does not wait.                                          *)
ShutDownAtOnce(sock, writing) == [sock EXCEPT !.fin = TRUE]

(* shutdownInLoop: the FIN waits until nothing is left to write.           *)
ShutDown(sock, writing) == IF writing THEN sock ELSE [sock EXCEPT !.fin = TRUE]

-----------------------------------------------------------------------------
(* TcpServer::newConnection, in the base loop; connectEstablished runs at  *)
(* once if that is also the I/O loop.  It ends in the user's callback.     *)

Established ==
    /\ state_' = "kConnected"
    /\ channel_' = "registered"
    /\ events_' = {"read"}
    /\ notified' = [notified EXCEPT !.up = @ + 1]
    /\ pc' = "callback"

newConnection ==
    /\ Running
    /\ ~Created
    /\ connections_' = TRUE
    /\ loop_' \in Loops
    /\ IF SameLoop'
       THEN Established /\ UNCHANGED ioQueue
       ELSE /\ state_' = "kConnecting"
            /\ ioQueue' = Append(ioQueue, [run |-> "connectEstablished"])
            /\ UNCHANGED <<channel_, events_, notified, pc>>
    /\ UNCHANGED <<outputBuffer_, muted, baseQueue, revents, holders, issued, wire, taken,
                   socket_, calls, failed, late>>

(* TcpServer::removeConnectionInLoop in a base loop of its own.            *)
removeConnectionInLoop ==
    /\ Running
    /\ baseQueue # << >>
    /\ baseQueue' = Tail(baseQueue)
    /\ connections_' = FALSE
    /\ ioQueue' = Append(ioQueue, [run |-> "connectDestroy"])
    /\ UNCHANGED <<object, channel, pc, revents, holders, history, socket_, calls, failed>>

-----------------------------------------------------------------------------
(* The functors of the I/O loop.  q is the queue without the one that runs.*)

connectEstablished(q) ==
    /\ Established
    /\ ioQueue' = q
    /\ UNCHANGED <<loop_, outputBuffer_, muted, baseQueue, revents, owners, issued, wire, taken,
                   socket_, calls, failed, late>>

(* Mutant: any state but kDisconnected counts as open.                     *)
NotDisconnected == state_ # "kDisconnected"

StillOpen == state_ = "kConnected"

(* The state is kDisconnected or, after a late shutdown, kDisconnecting,   *)
(* when handleClose led here; Channel::remove asserts that no event is set.*)
connectDestroy(q) ==
    LET left == IF StillOpen THEN {} ELSE events_ IN
    /\ state_' = IF StillOpen THEN "kDisconnected" ELSE state_
    /\ notified' = IF StillOpen THEN [notified EXCEPT !.down = @ + 1] ELSE notified
    /\ events_' = left
    /\ muted' = (muted \/ StillOpen)
    /\ IF left = {}
       THEN channel_' = "removed" /\ UNCHANGED failed
       ELSE failed' = "remove" /\ UNCHANGED channel_
    /\ ioQueue' = q
    /\ UNCHANGED <<loop_, outputBuffer_, baseQueue, pc, revents, owners, issued, wire, taken,
                   socket_, calls, late>>

(* A functor bound to this finds the connection, or no longer does.        *)
Dangling(q) ==
    /\ ~Alive
    /\ failed' = "dangling"
    /\ ioQueue' = q
    /\ UNCHANGED <<object, channel, baseQueue, pc, revents, owners, history, socket_, calls>>

RunSend(n, q) ==
    /\ Alive
    /\ sendInLoop(n, q)
    /\ UNCHANGED <<baseQueue, pc, revents, owners, issued, notified, calls, late>>

RunShutdown(q) ==
    /\ Alive
    /\ socket_' = ShutDown(socket_, Writing)
    /\ ioQueue' = q
    /\ UNCHANGED <<object, channel, baseQueue, pc, revents, owners, history, calls, failed>>

(* writeCompleteCallback_ and highWaterMarkCallback_ are user code.        *)
RunUserFunctor(q) ==
    /\ pc' = "callback"
    /\ ioQueue' = q
    /\ UNCHANGED <<object, channel, baseQueue, revents, owners, history, socket_, calls, failed>>

RunFunctor ==
    /\ Running
    /\ pc = "idle"
    /\ ioQueue # << >>
    /\ LET f == Head(ioQueue)
           q == Tail(ioQueue)
       IN  \/ f.run = "connectEstablished" /\ connectEstablished(q)
           \/ f.run = "connectDestroy" /\ connectDestroy(q)
           \/ f.run = "sendInLoop" /\ (RunSend(f.len, q) \/ Dangling(q))
           \/ f.run = "shutdownInLoop" /\ (RunShutdown(q) \/ Dangling(q))
           \/ f.run \in {"writeComplete", "highWaterMark"} /\ RunUserFunctor(q)

-----------------------------------------------------------------------------
(* Polling and Channel::handleEvent.                                       *)

(* Mutant: the end of the stream is not an event.                          *)
ReadableWithData == socket_.inbound

(* On Linux a TCP socket that hangs up is also readable, so the branch of  *)
(* handleEventWithGuard for POLLHUP without POLLIN is never taken.         *)
Readable == socket_.inbound \/ socket_.peer # "open"
Writable == socket_.room > 0 \/ socket_.fin \/ socket_.peer = "reset"
Ready == (IF Readable THEN {"in"} ELSE {}) \cup (IF Writing /\ Writable THEN {"out"} ELSE {})

MayReport == channel_ = "registered" /\ ~muted

poll ==
    /\ Running
    /\ pc = "idle"
    /\ MayReport
    /\ Ready # {}
    /\ revents' = Ready
    /\ pc' = "reported"
    /\ UNCHANGED <<object, channel, baseQueue, ioQueue, owners, history, socket_, calls, failed>>

(* The guard: tie_.lock().  The channel belongs to the connection, so a    *)
(* destroyed connection is a dangling pointer in activeChannels_.          *)
handleEvent ==
    /\ Running
    /\ pc = "reported"
    /\ IF Alive
       THEN pc' = "dispatch" /\ UNCHANGED failed
       ELSE failed' = "dangling" /\ UNCHANGED pc
    /\ UNCHANGED <<object, channel, baseQueue, ioQueue, revents, owners, history, socket_, calls>>

(* After the read part, and after the write part.                          *)
Handled(part) ==
    /\ revents' = revents \ {part}
    /\ pc' = IF revents = {part} THEN "idle" ELSE "dispatch"

(* handleRead: data for messageCallback_.                                  *)
ReadMessage ==
    /\ socket_.inbound
    /\ socket_' = [socket_ EXCEPT !.inbound = FALSE]
    /\ revents' = revents \ {"in"}
    /\ pc' = "callback"
    /\ UNCHANGED <<object, channel, baseQueue, ioQueue, owners, history, calls, failed>>

(* handleRead: an error.  handleError does nothing.                        *)
ReadError ==
    /\ ~socket_.inbound /\ socket_.error
    /\ socket_' = [socket_ EXCEPT !.error = FALSE]
    /\ Handled("in")
    /\ UNCHANGED <<object, channel, baseQueue, ioQueue, owners, history, calls, failed>>

(* removeConnection runs at once when there is one loop only.              *)
ChannelAfterClose == IF SameLoop THEN "removed" ELSE channel_
HeldAfterClose == IF SameLoop THEN FALSE ELSE connections_

(* handleRead: end of file, handleClose.  removeConnection is queued to    *)
(* the base loop, or run here down to the removal of the channel.          *)
handleClose ==
    /\ ~socket_.inbound /\ ~socket_.error /\ socket_.peer # "open"
    /\ IF state_ \in {"kConnected", "kDisconnecting"}
       THEN /\ state_' = "kDisconnected"
            /\ events_' = {}
            /\ muted' = TRUE
            /\ notified' = [notified EXCEPT !.down = @ + 1]
            /\ connections_' = HeldAfterClose
            /\ channel_' = ChannelAfterClose
            /\ baseQueue' = IF SameLoop THEN baseQueue
                                        ELSE Append(baseQueue, "removeConnectionInLoop")
            /\ UNCHANGED failed
       ELSE /\ failed' = "handleClose"
            /\ UNCHANGED <<state_, channel, notified, connections_, baseQueue>>
    /\ Handled("in")
    /\ UNCHANGED <<loop_, outputBuffer_, ioQueue, holders, issued, wire, taken, socket_, calls,
                   late>>

handleRead ==
    /\ Running
    /\ pc = "dispatch" /\ "in" \in revents
    /\ ReadMessage \/ ReadError \/ handleClose

(* Mutants: POLLOUT stays on; a pending shutdown is forgotten.             *)
WatchedForEver(done) == events_
NeverShutsDown(done) == FALSE

(* handleWrite: what the kernel takes leaves outputBuffer_; once that is   *)
(* empty, writing is disabled and a pending shutdown is carried out.       *)
FinishesShutdown(done) == done /\ state_ = "kDisconnecting"
WatchedAfter(done) == IF done THEN events_ \ {"write"} ELSE events_

WriteSome ==
    LET n == WriteCount(Len(outputBuffer_))
        done == n = Len(outputBuffer_)
    IN
    /\ Writing
    /\ n > 0
    /\ wire' = wire \o SubSeq(outputBuffer_, 1, n)
    /\ outputBuffer_' = SubSeq(outputBuffer_, n + 1, Len(outputBuffer_))
    /\ events_' = WatchedAfter(done)
    /\ ioQueue' \in IF done THEN Offered(ioQueue, "writeComplete") ELSE {ioQueue}
    /\ socket_' = IF FinishesShutdown(done) THEN ShutDown(Took(n), FALSE) ELSE Took(n)
    /\ UNCHANGED <<loop_, state_, channel_, muted>>

WriteFails ==
    /\ Writing
    /\ WriteCount(Len(outputBuffer_)) <= 0
    /\ socket_' = [socket_ EXCEPT !.error = FALSE]
    /\ UNCHANGED <<object, channel, ioQueue, wire>>

(* disableAll was called since poll reported the event.                    *)
NotWriting ==
    /\ ~Writing
    /\ UNCHANGED <<object, channel, ioQueue, wire, socket_>>

handleWrite ==
    /\ Running
    /\ pc = "dispatch" /\ revents = {"out"}
    /\ Handled("out")
    /\ WriteSome \/ WriteFails \/ NotWriting
    /\ UNCHANGED <<baseQueue, owners, issued, taken, notified, calls, failed, late>>

-----------------------------------------------------------------------------
(* User code in a callback of the I/O loop.                                *)

MaySend(n) == issued + n <= MaxBytes

sendInCallback(n) ==
    /\ Running
    /\ pc = "callback"
    /\ state_ = "kConnected"
    /\ MaySend(n)
    /\ issued' = issued + n
    /\ sendInLoop(n, ioQueue)
    /\ UNCHANGED <<baseQueue, pc, revents, owners, notified, calls, late>>

shutdownInCallback ==
    /\ Running
    /\ pc = "callback"
    /\ state_ = "kConnected"
    /\ state_' = "kDisconnecting"
    /\ socket_' = ShutDown(socket_, Writing)
    /\ UNCHANGED <<loop_, outputBuffer_, channel, loops, owners, history, calls, failed>>

(* The callback gives another thread a copy of its TcpConnectionPtr.       *)
share(t) ==
    /\ Running
    /\ pc = "callback"
    /\ t \notin holders
    /\ holders' = holders \cup {t}
    /\ UNCHANGED <<object, channel, loops, connections_, history, socket_, calls, failed>>

callbackReturns ==
    /\ Running
    /\ pc = "callback"
    /\ pc' = IF revents = {} THEN "idle" ELSE "dispatch"
    /\ UNCHANGED <<object, channel, baseQueue, ioQueue, revents, owners, history,
                   socket_, calls, failed>>

(* User code in other threads.                                             *)
MayUse(t) == t \in holders /\ calls[t] = Idle

send(t, n) ==
    /\ Running
    /\ MayUse(t)
    /\ state_ = "kConnected"
    /\ MaySend(n)
    /\ issued' = issued + n
    /\ calls' = [calls EXCEPT ![t] = [at |-> "queueSend", len |-> n]]
    /\ UNCHANGED <<object, channel, loops, owners, wire, taken, notified, socket_, failed,
                   late>>

queueSend(t) ==
    /\ Running
    /\ calls[t].at = "queueSend"
    /\ ioQueue' = Append(ioQueue, [run |-> "sendInLoop", len |-> calls[t].len])
    /\ calls' = [calls EXCEPT ![t] = Idle]
    /\ late' = (late \/ ~connections_)
    /\ UNCHANGED <<object, channel, baseQueue, pc, revents, owners, issued, wire, taken, notified,
                   socket_, failed>>

shutdown(t) ==
    /\ Running
    /\ MayUse(t)
    /\ state_ = "kConnected"
    /\ calls' = [calls EXCEPT ![t] = [at |-> "setDisconnecting"]]
    /\ UNCHANGED <<object, channel, loops, owners, history, socket_, failed>>

setDisconnecting(t) ==
    /\ Running
    /\ calls[t].at = "setDisconnecting"
    /\ state_' = "kDisconnecting"
    /\ calls' = [calls EXCEPT ![t] = [at |-> "queueShutdown"]]
    /\ UNCHANGED <<loop_, outputBuffer_, channel, loops, owners, history, socket_, failed>>

queueShutdown(t) ==
    /\ Running
    /\ calls[t].at = "queueShutdown"
    /\ ioQueue' = Append(ioQueue, [run |-> "shutdownInLoop"])
    /\ calls' = [calls EXCEPT ![t] = Idle]
    /\ late' = (late \/ ~connections_)
    /\ UNCHANGED <<object, channel, baseQueue, pc, revents, owners, issued, wire, taken, notified,
                   socket_, failed>>

release(t) ==
    /\ Running
    /\ MayUse(t)
    /\ holders' = holders \ {t}
    /\ UNCHANGED <<object, channel, loops, connections_, history, socket_, calls, failed>>

(* The peer and the network.                                               *)
NetworkStep(sock) ==
    /\ Running
    /\ Created
    /\ socket_' = sock
    /\ UNCHANGED <<object, channel, loops, owners, history, calls, failed>>

acknowledge ==
    /\ socket_.room < SendBuffer /\ socket_.peer # "reset"
    /\ NetworkStep([socket_ EXCEPT !.room = @ + 1])

peerSends ==
    /\ ~socket_.inbound /\ socket_.peer = "open"
    /\ NetworkStep([socket_ EXCEPT !.inbound = TRUE])

peerCloses ==
    /\ socket_.peer = "open"
    /\ NetworkStep([socket_ EXCEPT !.peer = "closed"])

(* A reset after the peer's FIN is reported as EPIPE, not ECONNRESET.      *)
peerResets ==
    /\ socket_.peer # "reset"
    /\ NetworkStep([socket_ EXCEPT !.peer = "reset", !.error = socket_.peer = "open"])

IoStep == RunFunctor \/ poll \/ handleEvent \/ handleRead \/ handleWrite \/ callbackReturns

UserStep(t) ==
    \/ \E n \in Lengths : send(t, n)
    \/ queueSend(t) \/ shutdown(t) \/ setDisconnecting(t) \/ queueShutdown(t)
    \/ share(t) \/ release(t)

Next ==
    \/ newConnection \/ removeConnectionInLoop
    \/ IoStep
    \/ \E n \in Lengths : sendInCallback(n)
    \/ shutdownInCallback
    \/ \E t \in Users : UserStep(t)
    \/ acknowledge \/ peerSends \/ peerCloses \/ peerResets

Spec == Init /\ [][Next]_vars

(* Every iteration of the I/O loop polls and then runs the functors, so    *)
(* neither keeps it from the other for ever (IoNotStarved and FunctorsRun  *)
(* of EventLoop); callbacks return, a thread inside send or shutdown goes  *)
(* on, and a network that is up acknowledges what it was given.  Nobody    *)
(* has to call send or shutdown, and the peer need not do anything else.   *)
Fairness ==
    /\ SF_vars(RunFunctor) /\ SF_vars(poll)
    /\ WF_vars(handleEvent) /\ WF_vars(handleRead) /\ WF_vars(handleWrite)
    /\ WF_vars(callbackReturns)
    /\ WF_vars(removeConnectionInLoop)
    /\ \A t \in Users : WF_vars(queueSend(t) \/ setDisconnecting(t) \/ queueShutdown(t))
    /\ WF_vars(acknowledge)

FairSpec == Spec /\ Fairness

-----------------------------------------------------------------------------
(* Nothing sendInLoop took is lost, repeated or reordered on its way to    *)
(* the kernel, although a message may be written directly, partly, or      *)
(* through outputBuffer_ (TcpConnection.cc:167-202, 83-87).  taken counts  *)
(* the bytes apart from wire and outputBuffer_, and numbers them.  Not     *)
(* taken are messages that EPIPE drops (TcpConnection.cc:184-187).         *)
InOrder == wire \o outputBuffer_ = Numbered(1, taken)

(* The FIN never overtakes data: until the connection is closed from the   *)
(* other side, our side is shut down only when everything taken has been   *)
(* written, and nothing is taken afterwards (TcpConnection.cc:96-99, 219). *)
ShutdownAfterData ==
    (socket_.fin /\ "read" \in events_) => outputBuffer_ = << >>

(* While the connection is open, POLLOUT is asked for exactly when there   *)
(* is something to write: otherwise the loop would spin, or the rest of a  *)
(* message would never be sent.                                            *)
WritingMatchesBuffer ==
    "read" \in events_ => (Writing <=> outputBuffer_ # << >>)

(* The connection outlives its use.  A channel the poller knows belongs to *)
(* one that exists: the last reference goes only after connectDestroy has  *)
(* removed the channel.  And a functor that send or shutdown bound to a    *)
(* plain this (TcpConnection.cc:157, 211) finds it, although the caller    *)
(* may have dropped its pointer since: connectDestroy, queued behind it,   *)
(* has a reference.  That holds in an I/O loop of its own, where the close *)
(* comes back from the base loop as a functor, and unless the functor was  *)
(* queued after that, by a thread that had found the connection open.      *)
OutlivesUse ==
    /\ Running => (channel_ = "registered" => Alive)
    /\ failed = "dangling" => (late \/ SameLoop)

(* A connection is closed once (the assertion of TcpConnection.cc:119), it *)
(* is taken out of the server's map before its channel is removed, and the *)
(* user hears once that it is up and once, later, that it is down.         *)
LifecycleOrdered ==
    /\ failed # "handleClose"
    /\ channel_ = "removed" => ~connections_ /\ notified.down = 1
    /\ notified.down <= notified.up /\ notified.up <= 1

(* The assertion of TcpConnection.cc:190: a write that is not refused with *)
(* EPIPE writes something or nothing, but does not fail.                   *)
SendAssertHolds == failed # "sendInLoop"

(* The assertion of Channel.cc:51: no event is set on a channel that is    *)
(* being removed.                                                          *)
RemoveAssertHolds == failed # "remove"

-----------------------------------------------------------------------------
(* Liveness.  An execution that failed is exempt.                          *)

(* When the peer closes or resets an established connection, it leaves the *)
(* server's map and its channel leaves the poller, whatever the loops and  *)
(* threads are in the middle of.                                           *)
PeerCloseCleansUp ==
    (connections_ /\ socket_.peer # "open") ~> (channel_ = "removed" \/ ~Running)

(* What is left in outputBuffer_ is written while the peer keeps reading,  *)
(* and shutdown() is not forgotten over it: handleWrite takes it up once   *)
(* the buffer is empty (TcpConnection.cc:96-99).                           *)
OutputCompletes ==
    /\ (outputBuffer_ # << >>) ~> (outputBuffer_ = << >> \/ socket_.peer # "open" \/ ~Running)
    /\ (state_ = "kDisconnecting") ~> (socket_.fin \/ socket_.peer # "open" \/ ~Running)
=============================================================================
