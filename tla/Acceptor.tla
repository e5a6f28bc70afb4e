------------------------------ MODULE Acceptor ------------------------------
(***************************************************************************)
(* The listening socket of a server (src/src/Acceptor.{h,cc},              *)
(* src/src/Socket.cc, src/src/SocketOps.cc) in a process that runs out of  *)
(* file descriptors.                                                       *)
(*                                                                         *)
(* accept(2) fails with EMFILE when none is free, and leaves the           *)
(* connection in the backlog, where poll(2) reports it again at once.  The *)
(* acceptor therefore keeps one descriptor in reserve, idleFd_: it closes  *)
(* that, accepts the connection in its place, closes the connection and    *)
(* opens the reserve again.  Those are four system calls, and other        *)
(* threads open and close descriptors between them: the descriptor table   *)
(* belongs to the process.                                                 *)
(*                                                                         *)
(* TcpServer says what becomes of the connections and when steps are taken.*)
(***************************************************************************)
EXTENDS Integers

CONSTANTS Fds,           \* descriptors the process may have
          MaxBacklog,    \* SOMAXCONN
          MaxArrivals    \* bound on the connections that peers make

ASSUME FdsAssumption == Fds \subseteq Nat /\ {0, 1} \subseteq Fds
ASSUME BoundsAssumption == MaxBacklog \in Nat /\ MaxArrivals \in Nat

VARIABLES
    fds,                     \* who has each descriptor
    acceptSocket_, idleFd_,  \* descriptors, NoFd after a call failed
    connd,                   \* local of handleRead
    listenning_,
    newConnectionCallback_,  \* TRUE if it is set
    backlog, arrivals,
    pc,                      \* where the loop is in handleRead
    raced,                   \* history: another thread took the descriptor
                             \* the acceptor had given up for a moment
    failed

socket == <<acceptSocket_, listenning_, newConnectionCallback_, arrivals>>
vars == <<fds, socket, idleFd_, connd, backlog, pc, raced, failed>>

NoFd == -1
Owners == {"free", "acceptor", "connection", "other"}

(* "accept": handleRead begins; "refuse": there is no callback; "yield",   *)
(* "drain", "drop" and "reserve": the four calls after EMFILE.             *)
Locations == {"poll", "accept", "refuse", "yield", "drain", "drop", "reserve", "destroyed"}

TypeOK ==
    /\ fds \in [Fds -> Owners]
    /\ acceptSocket_ \in Fds
    /\ {idleFd_, connd} \subseteq Fds \cup {NoFd}
    /\ listenning_ \in BOOLEAN /\ newConnectionCallback_ \in BOOLEAN
    /\ backlog \in 0 .. MaxBacklog
    /\ arrivals \in 0 .. MaxArrivals
    /\ pc \in Locations
    /\ raced \in BOOLEAN /\ failed \in BOOLEAN

Init ==
    /\ fds = [f \in Fds |-> IF f \in {0, 1} THEN "acceptor" ELSE "free"]
    /\ acceptSocket_ = 0
    /\ idleFd_ = 1
    /\ connd = NoFd
    /\ listenning_ = FALSE
    /\ newConnectionCallback_ \in BOOLEAN
    /\ backlog = 0
    /\ arrivals = 0
    /\ pc = "poll"
    /\ raced = FALSE
    /\ failed = FALSE

-----------------------------------------------------------------------------
(* The kernel's table: a call gets the least descriptor that is free.      *)
Free == {f \in Fds : fds[f] = "free"}
Least == CHOOSE f \in Free : \A g \in Free : f <= g

Given(f, owner) == [fds EXCEPT ![f] = owner]

(* close(2) by the acceptor.  Of a descriptor that is not its own it would *)
(* take it from whoever has it, or fail.                                   *)
Closes(f) ==
    /\ fds' = IF f = NoFd THEN fds ELSE Given(f, "free")
    /\ failed' = (failed \/ (f # NoFd /\ fds[f] # "acceptor"))

-----------------------------------------------------------------------------
listen ==
    /\ pc = "poll"
    /\ ~listenning_
    /\ listenning_' = TRUE
    /\ UNCHANGED <<fds, acceptSocket_, idleFd_, newConnectionCallback_, connd,
                   backlog, arrivals, pc, raced, failed>>

poll ==
    /\ pc = "poll"
    /\ listenning_
    /\ backlog > 0
    /\ pc' = "accept"
    /\ UNCHANGED <<fds, socket, idleFd_, connd, backlog, raced, failed>>

(* accept4: the connection is handed to the server, or closed if there is  *)
(* nobody to take it.                                                      *)
Accept ==
    /\ pc = "accept"
    /\ Free # {}
    /\ fds' = Given(Least, IF newConnectionCallback_ THEN "connection" ELSE "acceptor")
    /\ connd' = Least
    /\ backlog' = backlog - 1
    /\ pc' = IF newConnectionCallback_ THEN "poll" ELSE "refuse"
    /\ UNCHANGED <<socket, idleFd_, raced, failed>>

(* An error of the connection itself, which is then gone.                  *)
AcceptFails ==
    /\ pc = "accept"
    /\ Free # {}
    /\ backlog' = backlog - 1
    /\ pc' = "poll"
    /\ UNCHANGED <<fds, socket, idleFd_, connd, raced, failed>>

refuse ==
    /\ pc = "refuse"
    /\ Closes(connd)
    /\ pc' = "poll"
    /\ UNCHANGED <<socket, idleFd_, connd, backlog, raced>>

AfterEmfile == "yield"

Emfile ==
    /\ pc = "accept"
    /\ Free = {}
    /\ pc' = AfterEmfile
    /\ UNCHANGED <<fds, socket, idleFd_, connd, backlog, raced, failed>>

yield ==
    /\ pc = "yield"
    /\ Closes(idleFd_)
    /\ pc' = "drain"
    /\ UNCHANGED <<socket, idleFd_, connd, backlog, raced>>

Kept(f) == f

(* idleFd_ = accept(...), which fails if the descriptor was taken, or if   *)
(* the connection is in error.                                             *)
drain ==
    /\ pc = "drain"
    /\ IF Free = {}
       THEN /\ idleFd_' = Kept(NoFd)
            /\ UNCHANGED <<fds, backlog>>
       ELSE /\ \/ fds' = Given(Least, "acceptor") /\ idleFd_' = Kept(Least)
               \/ UNCHANGED fds /\ idleFd_' = Kept(NoFd)
            /\ backlog' = backlog - 1
    /\ pc' = "drop"
    /\ UNCHANGED <<socket, connd, raced, failed>>

drop ==
    /\ pc = "drop"
    /\ Closes(idleFd_)
    /\ pc' = "reserve"
    /\ UNCHANGED <<socket, idleFd_, connd, backlog, raced>>

(* Mutant: what open returned is not kept.                                 *)
NeverReopened == NoFd

Opened == IF Free = {} THEN fds ELSE Given(Least, "acceptor")
OpenedFd == IF Free = {} THEN NoFd ELSE Least

reserve ==
    /\ pc = "reserve"
    /\ fds' = Opened
    /\ idleFd_' = OpenedFd
    /\ pc' = "poll"
    /\ UNCHANGED <<socket, connd, backlog, raced, failed>>

(* ~Acceptor, of one that listens: acceptSocket_ is closed, idleFd_ isn't. *)
destroy ==
    /\ pc = "poll"
    /\ listenning_
    /\ Closes(acceptSocket_)
    /\ pc' = "destroyed"
    /\ UNCHANGED <<socket, idleFd_, connd, backlog, raced>>

-----------------------------------------------------------------------------
(* The rest of the process: user code opens and closes files; and peers.   *)

(* Between the calls of handleRead that give up the reserve and get it     *)
(* back.                                                                   *)
Yielded == pc \in {"drain", "reserve"} \/ (pc = "drop" /\ idleFd_ = NoFd)

otherOpens ==
    /\ Free # {}
    /\ fds' = Given(Least, "other")
    /\ raced' = (raced \/ Yielded)
    /\ UNCHANGED <<socket, idleFd_, connd, backlog, pc, failed>>

otherCloses(f) ==
    /\ fds[f] = "other"
    /\ fds' = Given(f, "free")
    /\ UNCHANGED <<socket, idleFd_, connd, backlog, pc, raced, failed>>

peerConnects ==
    /\ listenning_ /\ pc # "destroyed"
    /\ backlog < MaxBacklog /\ arrivals < MaxArrivals
    /\ backlog' = backlog + 1
    /\ arrivals' = arrivals + 1
    /\ UNCHANGED <<fds, acceptSocket_, listenning_, newConnectionCallback_, idleFd_,
                   connd, pc, raced, failed>>

-----------------------------------------------------------------------------
(* handleRead closes no descriptor of another thread, although a number it *)
(* has closed may be another's by the time of its next call, and what it   *)
(* keeps in reserve is its own.                                            *)
ClosesOwn ==
    /\ ~failed
    /\ (pc \notin {"drain", "destroyed"} /\ idleFd_ # NoFd) =>
           (fds[idleFd_] = "acceptor" \/ pc = "reserve")

(* A connection that cannot be accepted does not stay in the backlog, to   *)
(* be reported by every poll, unless another thread once took a descriptor *)
(* between two calls of handleRead: the reserve is there again after it    *)
(* was used, however often.                                                *)
BacklogDrains == (backlog > 0) ~> (backlog = 0 \/ raced \/ pc = "destroyed")
=============================================================================
