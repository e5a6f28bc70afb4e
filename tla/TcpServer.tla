----------------------------- MODULE TcpServer ------------------------------
(***************************************************************************)
(* A server with its connections (src/src/TcpServer.{h,cc}): the acceptor  *)
(* (Acceptor) gives them descriptors, newConnection gives them names and   *)
(* loops, and a close travels from the connection's loop to the base loop  *)
(* and back.  The object dies, and closes its descriptor, with its last    *)
(* reference: the map's, one bound into a queued functor, or a user's.     *)
(*                                                                         *)
(* Data, shutdown and the channel's events are in TcpConnection.  A        *)
(* handler or a functor is one step of its loop; the base loop takes none  *)
(* while it is inside Acceptor::handleRead.  That functors of a batch are  *)
(* destroyed together at its end only delays what is said here.            *)
(*                                                                         *)
(* start() is a call of the base loop's thread (EventLoopThreadPool::start *)
(* ends the process otherwise): it lets the acceptor listen and starts the *)
(* pool's threads (EventLoopThreadPool) before anything is polled, and a   *)
(* second start() does nothing.  Here it is listen.                        *)
(***************************************************************************)
EXTENDS Acceptor, Sequences

CONSTANT ThreadCounts    \* what setNumThread may be given

ASSUME ThreadCountsAssumption == ThreadCounts \subseteq Nat

VARIABLES
    numThreads_,
    nextId_,        \* of the pool
    nextConnId_,
    connections_,   \* the map, from names to connections
    conn,           \* the TcpConnection objects, in the order of creation
    functors,       \* queued in each loop; 0 is the base loop
    holders         \* connections that user code has a pointer to

server == <<numThreads_, nextId_, nextConnId_, connections_, conn, functors, holders>>
allVars == <<vars, server>>

Loops == 0 .. numThreads_
Connections == 1 .. MaxArrivals
Functors == [run : {"connectEstablished", "removeConnectionInLoop", "connectDestroy"},
             conn : Connections]
Objects == [fd : Fds, name : 1 .. MaxArrivals, loop_ : Nat,
            state_ : {"kConnecting", "kConnected", "kDisconnected"},
            channel_ : {"new", "registered", "removed"}]

ServerTypeOK ==
    /\ TypeOK
    /\ numThreads_ \in {0} \cup ThreadCounts
    /\ nextId_ \in Nat /\ (nextId_ = 0 \/ nextId_ < numThreads_)
    /\ nextConnId_ \in 1 .. MaxArrivals + 1
    /\ connections_ \in UNION {[1 .. n -> {0} \cup DOMAIN conn] : n \in 0 .. MaxArrivals}
    /\ conn \in Seq(Objects) /\ \A c \in DOMAIN conn : conn[c].loop_ \in Loops
    /\ functors \in [Loops -> Seq(Functors)]
    /\ holders \subseteq DOMAIN conn

ServerInit ==
    /\ Init
    /\ numThreads_ \in IF newConnectionCallback_ THEN ThreadCounts ELSE {0}
    /\ nextId_ = 0
    /\ nextConnId_ = 1
    /\ connections_ = << >>
    /\ conn = << >>
    /\ functors = [l \in Loops |-> << >>]
    /\ holders = {}

-----------------------------------------------------------------------------
(* References, and the destructor that follows the last.                   *)

(* Mutant: connectDestroy is bound to a plain this.                        *)
OwningWithoutDestroy == {"connectEstablished", "removeConnectionInLoop"}

Owning == {"connectEstablished", "removeConnectionInLoop", "connectDestroy"}

Alive(c) ==
    \/ \E name \in DOMAIN connections_ : connections_[name] = c
    \/ c \in holders
    \/ \E l \in Loops : \E i \in DOMAIN functors[l] :
          functors[l][i].conn = c /\ functors[l][i].run \in Owning

Destroyed == {c \in DOMAIN conn : Alive(c) /\ ~Alive(c)'}

(* ~Socket.                                                                *)
ClosesDestroyed ==
    fds' = [f \in Fds |-> IF \E c \in Destroyed : conn[c].fd = f THEN "free" ELSE fds[f]]

Queued(l, run, c) == [functors EXCEPT ![l] = Append(@, [run |-> run, conn |-> c])]

-----------------------------------------------------------------------------
(* TcpServer::newConnection, called by Acceptor::handleRead.               *)

(* Mutant: the counter is not incremented.                                 *)
SameConnId == nextConnId_

NextConnId == nextConnId_ + 1

(* EventLoopThreadPool::getNextLoop, of a pool that has threads.           *)
(* Mutant: the index is not set back.                                      *)
NeverWraps == nextId_ + 1

NextId == IF nextId_ + 1 = numThreads_ THEN 0 ELSE nextId_ + 1

newConnection ==
    /\ newConnectionCallback_
    /\ Accept
    /\ nextConnId_' = NextConnId
    /\ LET c == Len(conn) + 1
           base == numThreads_ = 0
           l == IF base THEN 0 ELSE nextId_ + 1
       IN  /\ nextId_' = IF base THEN nextId_ ELSE NextId
           /\ conn' = Append(conn,
                 [fd |-> connd', name |-> nextConnId_, loop_ |-> l,
                  state_ |-> IF base THEN "kConnected" ELSE "kConnecting",
                  channel_ |-> IF base THEN "registered" ELSE "new"])
           /\ connections_' = [name \in DOMAIN connections_ \cup {nextConnId_} |->
                                  IF name = nextConnId_ THEN c ELSE connections_[name]]
           /\ functors' = IF base THEN functors ELSE Queued(l, "connectEstablished", c)
    /\ UNCHANGED <<numThreads_, holders>>

(* Mutant: the entry stays.                                                *)
NotErased(c) == connections_

Erased(c) == [connections_ EXCEPT ![conn[c].name] = 0]

connectEstablished(c) ==
    /\ conn' = [conn EXCEPT ![c].state_ = "kConnected", ![c].channel_ = "registered"]
    /\ UNCHANGED connections_

connectDestroy(c) ==
    /\ conn' = [conn EXCEPT ![c].channel_ = "removed"]
    /\ UNCHANGED connections_

(* The loops are different: connectDestroy has to be queued.               *)
removeConnectionInLoop(c) ==
    /\ connections_' = Erased(c)
    /\ UNCHANGED conn

RunFunctor(l) ==
    /\ l \in Loops /\ functors[l] # << >>
    /\ l = 0 => pc = "poll"
    /\ LET f == Head(functors[l])
           rest == [functors EXCEPT ![l] = Tail(@)]
       IN  \/ f.run = "connectEstablished" /\ connectEstablished(f.conn) /\ functors' = rest
           \/ f.run = "connectDestroy" /\ connectDestroy(f.conn) /\ functors' = rest
           \/ /\ f.run = "removeConnectionInLoop"
              /\ removeConnectionInLoop(f.conn)
              /\ functors' = [rest EXCEPT ![conn[f.conn].loop_] =
                                 Append(@, [run |-> "connectDestroy", conn |-> f.conn])]
    /\ UNCHANGED <<socket, idleFd_, connd, backlog, pc, raced, failed,
                   numThreads_, nextId_, nextConnId_, holders>>
    /\ ClosesDestroyed

(* The closeCallback_: the functor for the base loop, or if that is the    *)
(* only one, all that follows, down to connectDestroy.                     *)
removeConnection(c) ==
    IF conn[c].loop_ = 0
    THEN connections_' = Erased(c) /\ UNCHANGED functors
    ELSE functors' = Queued(0, "removeConnectionInLoop", c) /\ UNCHANGED connections_

(* Of an established connection.                                           *)
handleClose(c) ==
    /\ conn[c].channel_ = "registered" /\ conn[c].state_ = "kConnected"
    /\ conn[c].loop_ = 0 => pc = "poll"
    /\ removeConnection(c)
    /\ conn' = [conn EXCEPT ![c].state_ = "kDisconnected",
                            ![c].channel_ = IF conn[c].loop_ = 0 THEN "removed" ELSE @]
    /\ UNCHANGED <<socket, idleFd_, connd, backlog, pc, raced, failed,
                   numThreads_, nextId_, nextConnId_, holders>>
    /\ ClosesDestroyed

(* A callback stores its TcpConnectionPtr, and some thread drops it.       *)
share(c) ==
    /\ conn[c].channel_ = "registered" /\ c \notin holders
    /\ holders' = holders \cup {c}
    /\ UNCHANGED <<vars, numThreads_, nextId_, nextConnId_, connections_, conn, functors>>

release(c) ==
    /\ c \in holders
    /\ holders' = holders \ {c}
    /\ UNCHANGED <<socket, idleFd_, connd, backlog, pc, raced, failed,
                   numThreads_, nextId_, nextConnId_, connections_, conn, functors>>
    /\ ClosesDestroyed

(* The destructors of server and acceptor.  They say nothing of open       *)
(* connections: the user has to wait until there are none.                 *)
DestroyedIdle == \A c \in DOMAIN conn : ~Alive(c)

ReadStep ==
    \/ AcceptFails \/ refuse \/ Emfile \/ yield \/ drain \/ drop \/ reserve
    \/ (~newConnectionCallback_ /\ Accept)

AcceptorStep == listen \/ poll \/ ReadStep \/ (DestroyedIdle /\ destroy)

OtherStep ==
    \/ otherOpens \/ peerConnects
    \/ \E f \in Fds : otherCloses(f)

ConnectionStep(c) == handleClose(c) \/ share(c) \/ release(c)

ServerNext ==
    \/ (AcceptorStep \/ OtherStep) /\ UNCHANGED server
    \/ newConnection
    \/ \E l \in Loops : RunFunctor(l)
    \/ \E c \in DOMAIN conn : ConnectionStep(c)

ServerSpec == ServerInit /\ [][ServerNext]_allVars

(* The loops go round.  The base loop's functors run between two polls,    *)
(* so each visit to handleRead interrupts them: hence strong fairness.     *)
(* No peer need close, no user need release anything.                      *)
ServerFairness ==
    /\ WF_allVars(poll /\ UNCHANGED server)
    /\ WF_allVars((ReadStep /\ UNCHANGED server) \/ newConnection)
    /\ SF_allVars(RunFunctor(0))
    /\ \A l \in UNION {1 .. n : n \in ThreadCounts} : WF_allVars(RunFunctor(l))

ServerFairSpec == ServerSpec /\ ServerFairness

-----------------------------------------------------------------------------
(* A descriptor a poller watches for a connection is open and belongs to   *)
(* that connection, which exists, and no other loop watches the same       *)
(* number (Poller.cc:58): it is closed after the channel is removed,       *)
(* although the two happen in different loops.  And the acceptor closes    *)
(* only what is its own.                                                   *)
DescriptorsOwned ==
    /\ ClosesOwn
    /\ \A c \in DOMAIN conn : conn[c].channel_ = "registered" =>
          /\ Alive(c)
          /\ fds[conn[c].fd] = "connection"
          /\ \A d \in DOMAIN conn :
                conn[d].channel_ = "registered" /\ conn[d].fd = conn[c].fd => d = c

Life(c) ==
    CASE c \notin DOMAIN conn -> "none"
      [] c \in DOMAIN conn /\ ~Alive(c) -> "ended"
      [] OTHER -> CASE conn[c].state_ = "kConnecting" -> "accepted"
                    [] conn[c].state_ = "kConnected" -> "up"
                    [] conn[c].state_ = "kDisconnected" -> "down"

Abstract == INSTANCE ConnectionLife WITH
    Descriptors <- Fds,
    life <- [c \in Connections |-> Life(c)],
    descriptor <- [c \in {d \in DOMAIN conn : Alive(d)} |-> conn[c].fd],
    open <- {f \in Fds : fds[f] = "connection"}

(* The server, its map, the loops' queues and the descriptor table give    *)
(* every connection one life: names do not collide in the map, a           *)
(* connection is not destroyed before it is up, or twice, and its          *)
(* descriptor is closed exactly then.                                      *)
LifeSpec == Abstract!Spec

(* A connection that went down leaves the map, and its object is destroyed *)
(* with its descriptor, unless user code keeps a pointer to it.            *)
CleanedUp ==
    \A c \in Connections :
        (Life(c) = "down") ~> (Life(c) = "ended" \/ c \in holders)
=============================================================================
