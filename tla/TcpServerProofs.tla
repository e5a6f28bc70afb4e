-------------------------- MODULE TcpServerProofs ---------------------------
(***************************************************************************)
(* Descriptors, references and functors of a server, for any number of     *)
(* descriptors, connections and I/O threads.                               *)
(***************************************************************************)
EXTENDS TcpServer, SequenceTheorems, WellFoundedInduction, TLAPS

(* The acceptor's descriptors: its socket, the reserve and, between accept *)
(* and close, a connection nobody takes.                                   *)
AcceptorOwns ==
    /\ ~failed
    /\ pc # "destroyed" => fds[acceptSocket_] = "acceptor"
    /\ (pc \notin {"drain", "reserve", "destroyed"} /\ idleFd_ # NoFd) =>
          fds[idleFd_] = "acceptor" /\ idleFd_ # acceptSocket_
    /\ pc = "refuse" => /\ connd \in Fds /\ fds[connd] = "acceptor"
                        /\ connd # acceptSocket_ /\ connd # idleFd_

(* Who connected is accepted, waits or was turned away.                    *)
Counted ==
    /\ pc \in {"accept", "yield", "drain"} => backlog > 0
    /\ Len(conn) + backlog <= arrivals
    /\ nextConnId_ = Len(conn) + 1

(* Names are the numbers of connections, and so do not collide.            *)
Named ==
    /\ DOMAIN connections_ = DOMAIN conn
    /\ \A c \in DOMAIN conn : conn[c].name = c /\ connections_[c] \in {0, c}

(* Functors in the queues F of all loops that are about connection c: none *)
(* or one that runs r.                                                     *)
None(F, c) == \A l \in Loops : \A i \in DOMAIN F[l] : F[l][i].conn # c
Only(F, c, r, l, i) ==
    /\ F[l][i].conn = c /\ F[l][i].run = r
    /\ \A k \in Loops : \A j \in DOMAIN F[k] : F[k][j].conn = c => k = l /\ j = i
One(F, c, r) == \E l \in Loops : \E i \in DOMAIN F[l] : Only(F, c, r, l, i)

(* The way of a connection through the loops.                              *)
Pending(c) ==
    /\ conn[c].state_ = "kConnecting" /\ conn[c].channel_ = "new"
    /\ connections_[c] = c /\ One(functors, c, "connectEstablished")
Up(c) ==
    /\ conn[c].state_ = "kConnected" /\ conn[c].channel_ = "registered"
    /\ connections_[c] = c /\ None(functors, c)
Leaving(c) ==
    /\ conn[c].state_ = "kDisconnected" /\ conn[c].channel_ = "registered"
    /\ connections_[c] = c /\ One(functors, c, "removeConnectionInLoop")
Destroying(c) ==
    /\ conn[c].state_ = "kDisconnected" /\ conn[c].channel_ = "registered"
    /\ connections_[c] = 0 /\ One(functors, c, "connectDestroy")
Removed(c) ==
    /\ conn[c].state_ = "kDisconnected" /\ conn[c].channel_ = "removed"
    /\ connections_[c] = 0 /\ None(functors, c)

Phase(c) == Pending(c) \/ Up(c) \/ Leaving(c) \/ Destroying(c) \/ Removed(c)

Phases == \A c \in DOMAIN conn : Phase(c)

(* Functors are about connections that were made.                          *)
FunctorsKnown == \A l \in Loops : \A i \in DOMAIN functors[l] : functors[l][i].conn \in DOMAIN conn

(* The table and the connections that exist agree.                         *)
ConnectionsOwn ==
    /\ \A c \in DOMAIN conn : Alive(c) => fds[conn[c].fd] = "connection"
    /\ \A c, d \in DOMAIN conn : Alive(c) /\ Alive(d) /\ conn[c].fd = conn[d].fd => c = d
    /\ \A f \in Fds : fds[f] = "connection" => \E c \in DOMAIN conn : Alive(c) /\ conn[c].fd = f

ServerInv ==
    /\ ServerTypeOK /\ AcceptorOwns /\ Counted /\ Named /\ FunctorsKnown
    /\ Phases /\ ConnectionsOwn

-----------------------------------------------------------------------------
LEMMA LeastIsFree ==
    ASSUME NEW S \in SUBSET Nat, S # {}
    PROVE  \E f \in S : \A g \in S : f <= g
<1>1. PICK f \in S : \A g \in S : ~(<<g, f>> \in OpToRel(<, Nat))
  BY NatLessThanWellFounded, WFMin
<1>2. \A g \in S : ~(g < f)
  BY <1>1 DEF OpToRel
<1> QED  BY <1>2

-----------------------------------------------------------------------------
(* The queues.                                                             *)

LEMMA QueueAppend ==
    ASSUME NEW F \in [Loops -> Seq(Functors)], NEW l \in Loops, NEW f \in Functors,
           NEW G, G = [F EXCEPT ![l] = Append(@, f)]
    PROVE  /\ G \in [Loops -> Seq(Functors)]
           /\ \A k \in Loops \ {l} : G[k] = F[k]
           /\ DOMAIN F[l] = 1 .. Len(F[l]) /\ DOMAIN G[l] = 1 .. Len(F[l]) + 1 /\ Len(F[l]) \in Nat
           /\ G[l][Len(F[l]) + 1] = f
           /\ \A i \in 1 .. Len(F[l]) : G[l][i] = F[l][i]
<1>1. F[l] \in Seq(Functors) /\ G[l] = Append(F[l], f)
  OBVIOUS
<1>2. Len(F[l]) \in Nat /\ DOMAIN F[l] = 1 .. Len(F[l])
  BY <1>1, LenProperties
<1>3. /\ G[l] \in Seq(Functors) /\ Len(G[l]) = Len(F[l]) + 1
      /\ \A i \in 1 .. Len(F[l]) : G[l][i] = F[l][i]
      /\ G[l][Len(F[l]) + 1] = f
  BY <1>1, AppendProperties
<1>4. DOMAIN G[l] = 1 .. Len(G[l])
  BY <1>3, LenProperties
<1> QED  BY <1>1, <1>2, <1>3, <1>4

(* F became G when f was queued in loop l.                                *)
AddedTo(F, G, l, f) ==
    /\ G \in [Loops -> Seq(Functors)]
    /\ \A d : d # f.conn /\ None(F, d) => None(G, d)
    /\ \A d, r : d # f.conn /\ One(F, d, r) => One(G, d, r)
    /\ None(F, f.conn) => One(G, f.conn, f.run)
    /\ \A k \in Loops : \A i \in DOMAIN G[k] :
          G[k][i] = f \/ (i \in DOMAIN F[k] /\ G[k][i] = F[k][i])

LEMMA AppendKeeps ==
    ASSUME NEW F \in [Loops -> Seq(Functors)], NEW l \in Loops, NEW f \in Functors,
           NEW G, G = [F EXCEPT ![l] = Append(@, f)]
    PROVE  AddedTo(F, G, l, f)
<1> DEFINE n == Len(F[l])
<1>1. /\ G \in [Loops -> Seq(Functors)]
      /\ \A k \in Loops \ {l} : G[k] = F[k]
      /\ DOMAIN F[l] = 1 .. n /\ DOMAIN G[l] = 1 .. n + 1 /\ n \in Nat
      /\ G[l][n + 1] = f
      /\ \A i \in 1 .. n : G[l][i] = F[l][i]
  BY QueueAppend
<1> HIDE DEF n
<1>2. ASSUME NEW k \in Loops, NEW i \in DOMAIN G[k]
      PROVE  (k = l /\ i = n + 1 /\ G[k][i] = f) \/ (i \in DOMAIN F[k] /\ G[k][i] = F[k][i])
  BY <1>1, <1>2
<1>3. ASSUME NEW k \in Loops, NEW i \in DOMAIN F[k]
      PROVE  i \in DOMAIN G[k] /\ G[k][i] = F[k][i]
  BY <1>1, <1>3
<1>4. ASSUME NEW d, d # f.conn, None(F, d) PROVE None(G, d)
  BY <1>2, <1>4 DEF None
<1>5. ASSUME NEW d, NEW r, d # f.conn, One(F, d, r) PROVE One(G, d, r)
  <2>a. PICK k \in Loops : \E i \in DOMAIN F[k] : Only(F, d, r, k, i)
    BY <1>5 DEF One
  <2>b. PICK i \in DOMAIN F[k] : Only(F, d, r, k, i)
    BY <2>a
  <2>1. /\ F[k][i].conn = d /\ F[k][i].run = r
        /\ \A m \in Loops : \A j \in DOMAIN F[m] : F[m][j].conn = d => m = k /\ j = i
    BY <2>b DEF Only
  <2>2. i \in DOMAIN G[k] /\ G[k][i].conn = d /\ G[k][i].run = r
    BY <1>3, <2>1
  <2>3. \A m \in Loops : \A j \in DOMAIN G[m] : G[m][j].conn = d => m = k /\ j = i
    BY <1>2, <1>5, <2>1
  <2> QED  BY <2>2, <2>3 DEF One, Only
<1>6. ASSUME None(F, f.conn) PROVE One(G, f.conn, f.run)
  <2>1. n + 1 \in DOMAIN G[l] /\ G[l][n + 1].conn = f.conn /\ G[l][n + 1].run = f.run
    BY <1>1
  <2>2. \A m \in Loops : \A j \in DOMAIN G[m] : G[m][j].conn = f.conn => m = l /\ j = n + 1
    BY <1>2, <1>6 DEF None
  <2> QED  BY <2>1, <2>2 DEF One, Only
<1> QED  BY <1>1, <1>2, <1>4, <1>5, <1>6 DEF AddedTo

(* F became G when loop l took f.                                          *)
TakenFrom(F, G, l, f) ==
    /\ G \in [Loops -> Seq(Functors)] /\ f \in Functors
    /\ \A d : d # f.conn /\ None(F, d) => None(G, d)
    /\ \A d, r : d # f.conn /\ One(F, d, r) => One(G, d, r)
    /\ ~None(F, f.conn)
    /\ \A r : One(F, f.conn, r) => r = f.run /\ None(G, f.conn)
    /\ \A k \in Loops : \A i \in DOMAIN G[k] : \E j \in DOMAIN F[k] : G[k][i] = F[k][j]
    /\ \E i \in DOMAIN F[l] : f = F[l][i]

LEMMA TailKeeps ==
    ASSUME NEW F \in [Loops -> Seq(Functors)], NEW l \in Loops, F[l] # << >>,
           NEW G, G = [F EXCEPT ![l] = Tail(@)], NEW f, f = Head(F[l])
    PROVE  TakenFrom(F, G, l, f)
<1> DEFINE n == Len(F[l])
<1>1. F[l] \in Seq(Functors) /\ G[l] = Tail(F[l]) /\ \A k \in Loops \ {l} : G[k] = F[k]
  OBVIOUS
<1>2. n \in Nat /\ n > 0 /\ DOMAIN F[l] = 1 .. n
  BY <1>1, EmptySeq, LenProperties
<1>3. /\ Head(F[l]) = F[l][1] /\ Head(F[l]) \in Functors
      /\ G[l] \in Seq(Functors) /\ Len(G[l]) = n - 1
      /\ \A i \in 1 .. Len(G[l]) : G[l][i] = F[l][i + 1]
  BY <1>1, HeadTailProperties
<1>4. DOMAIN G[l] = 1 .. n - 1
  BY <1>3, LenProperties
<1> HIDE DEF n
<1>5. G \in [Loops -> Seq(Functors)]
  BY <1>3
<1>6. ASSUME NEW i \in DOMAIN G[l]
      PROVE  i \in Nat /\ i + 1 \in DOMAIN F[l] /\ i + 1 # 1 /\ G[l][i] = F[l][i + 1]
  BY <1>2, <1>3, <1>4
<1>7. ASSUME NEW i \in DOMAIN F[l], i # 1
      PROVE  i - 1 \in DOMAIN G[l] /\ G[l][i - 1] = F[l][i] /\ (i - 1) + 1 = i
  <2>1. i - 1 \in 1 .. n - 1 /\ (i - 1) + 1 = i
    BY <1>2, <1>7
  <2> QED  BY <1>3, <1>4, <2>1
<1>8. 1 \in DOMAIN F[l] /\ F[l][1] = f
  BY <1>2, <1>3
<1>9. ASSUME NEW d, None(F, d) PROVE None(G, d)
  BY <1>1, <1>6, <1>9 DEF None
<1>10. ASSUME NEW d, NEW r, d # f.conn, One(F, d, r) PROVE One(G, d, r)
  <2>a. PICK k \in Loops : \E i \in DOMAIN F[k] : Only(F, d, r, k, i)
    BY <1>10 DEF One
  <2>b. PICK i \in DOMAIN F[k] : Only(F, d, r, k, i)
    BY <2>a
  <2>1. /\ F[k][i].conn = d /\ F[k][i].run = r
        /\ \A m \in Loops : \A j \in DOMAIN F[m] : F[m][j].conn = d => m = k /\ j = i
    BY <2>b DEF Only
  <2>2. CASE k = l
    <3>1. i # 1
      BY <1>8, <1>10, <2>1, <2>2
    <3>2. i - 1 \in DOMAIN G[l] /\ G[l][i - 1].conn = d /\ G[l][i - 1].run = r
      BY <1>7, <2>1, <2>2, <3>1
    <3>3. ASSUME NEW m \in Loops, NEW j \in DOMAIN G[m], G[m][j].conn = d
          PROVE  m = l /\ j = i - 1
      <4>1. CASE m = l
        <5>1. j \in Nat /\ j + 1 \in DOMAIN F[l] /\ F[l][j + 1].conn = d
          BY <1>6, <3>3, <4>1
        <5>2. j + 1 = i
          BY <2>1, <2>2, <5>1
        <5> QED  BY <4>1, <5>1, <5>2
      <4>2. CASE m # l
        BY <1>1, <2>1, <2>2, <3>3, <4>2
      <4> QED  BY <4>1, <4>2
    <3> QED  BY <3>2, <3>3 DEF One, Only
  <2>3. CASE k # l
    <3>1. i \in DOMAIN G[k] /\ G[k][i].conn = d /\ G[k][i].run = r
      BY <1>1, <2>1, <2>3
    <3>2. ASSUME NEW m \in Loops, NEW j \in DOMAIN G[m], G[m][j].conn = d
          PROVE  m = k /\ j = i
      <4>1. m # l
        BY <1>6, <2>1, <2>3, <3>2
      <4> QED  BY <1>1, <2>1, <3>2, <4>1
    <3> QED  BY <3>1, <3>2 DEF One, Only
  <2> QED  BY <2>2, <2>3
<1>11. ~None(F, f.conn)
  BY <1>8 DEF None
<1>12. ASSUME NEW r, One(F, f.conn, r) PROVE r = f.run /\ None(G, f.conn)
  <2>a. PICK k \in Loops : \E i \in DOMAIN F[k] : Only(F, f.conn, r, k, i)
    BY <1>12 DEF One
  <2>b. PICK i \in DOMAIN F[k] : Only(F, f.conn, r, k, i)
    BY <2>a
  <2>1. /\ F[k][i].run = r
        /\ \A m \in Loops : \A j \in DOMAIN F[m] : F[m][j].conn = f.conn => m = k /\ j = i
    BY <2>b DEF Only
  <2>2. k = l /\ i = 1
    BY <1>8, <2>1
  <2>3. ASSUME NEW m \in Loops, NEW j \in DOMAIN G[m] PROVE G[m][j].conn # f.conn
    <3>1. CASE m = l
      BY <1>6, <2>1, <2>2, <3>1
    <3>2. CASE m # l
      BY <1>1, <2>1, <2>2, <3>2
    <3> QED  BY <3>1, <3>2
  <2> QED  BY <1>8, <2>1, <2>2, <2>3 DEF None
<1>13. \A k \in Loops : \A i \in DOMAIN G[k] : \E j \in DOMAIN F[k] : G[k][i] = F[k][j]
  BY <1>1, <1>6
<1> QED  BY <1>3, <1>5, <1>8, <1>9, <1>10, <1>11, <1>12, <1>13 DEF TakenFrom

-----------------------------------------------------------------------------
(* Connections and references.                                             *)

LEMMA ConnIs ==
    ASSUME ServerTypeOK
    PROVE  /\ Len(conn) \in Nat /\ DOMAIN conn = 1 .. Len(conn)
           /\ \A c \in DOMAIN conn : c \in Nat /\ c # 0 /\ conn[c] \in Objects
<1>1. conn \in Seq(Objects)
  BY DEF ServerTypeOK
<1>2. Len(conn) \in Nat /\ DOMAIN conn = 1 .. Len(conn)
  BY <1>1, LenProperties
<1>3. \A c \in 1 .. Len(conn) : conn[c] \in Objects
  BY <1>1, ElementOfSeq
<1> QED  BY <1>2, <1>3

(* The references there are, with c in the map under its own name.         *)
Held(c) == connections_[c] = c \/ c \in holders \/ ~None(functors, c)

LEMMA AliveIs ==
    ASSUME ServerTypeOK, Named, NEW c \in DOMAIN conn
    PROVE  Alive(c) <=> Held(c)
<1>1. c # 0 /\ c \in DOMAIN connections_ /\ \A n \in DOMAIN connections_ : connections_[n] \in {0, n}
  BY ConnIs DEF Named
<1>2. (\E n \in DOMAIN connections_ : connections_[n] = c) <=> connections_[c] = c
  BY <1>1
<1>3. \A l \in Loops : \A i \in DOMAIN functors[l] : functors[l][i].run \in Owning
  <2>1. ASSUME NEW l \in Loops, NEW i \in DOMAIN functors[l] PROVE functors[l][i] \in Functors
    BY LenProperties, ElementOfSeq DEF ServerTypeOK
  <2> QED  BY <2>1 DEF Functors, Owning
<1> QED  BY <1>2, <1>3 DEF Alive, Held, None

LEMMA AliveIsNext ==
    ASSUME ServerTypeOK', Named', NEW c, c \in DOMAIN conn'
    PROVE  Alive(c)' <=> Held(c)'
<1>0. c # 0
  <2>1. conn' \in Seq(Objects)
    BY DEF ServerTypeOK
  <2>2. Len(conn') \in Nat /\ DOMAIN conn' = 1 .. Len(conn')
    BY <2>1, LenProperties
  <2> QED  BY <2>2
<1>1. /\ c \in DOMAIN connections_'
      /\ \A n \in DOMAIN connections_' : connections_'[n] \in {0, n}
  BY DEF Named
<1>2. (\E n \in DOMAIN connections_' : connections_'[n] = c) <=> connections_'[c] = c
  BY <1>0, <1>1
<1>3. \A l \in Loops' : \A i \in DOMAIN functors'[l] : functors'[l][i].run \in Owning
  <2>1. ASSUME NEW l \in Loops', NEW i \in DOMAIN functors'[l] PROVE functors'[l][i] \in Functors
    <3>1. functors'[l] \in Seq(Functors)
      BY DEF ServerTypeOK, Functors, Connections
    <3> QED  BY <3>1, LenProperties, ElementOfSeq
  <2> QED  BY <2>1 DEF Functors, Owning
<1> QED  BY <1>2, <1>3 DEF Alive, Held, None

(* In the last part of its life only user code holds the connection.       *)
LEMMA HeldIs ==
    ASSUME ServerTypeOK, NEW c \in DOMAIN conn, Phase(c)
    PROVE  Held(c) <=> (~Removed(c) \/ c \in holders)
<1>1. c # 0
  BY ConnIs
<1>2. \A r : One(functors, c, r) => ~None(functors, c)
  BY DEF One, Only, None
<1> QED  BY <1>1, <1>2 DEF Phase, Pending, Up, Leaving, Destroying, Removed, Held

-----------------------------------------------------------------------------
(* A step that is about one connection.                                    *)
Moves(c) ==
    /\ c \in DOMAIN conn
    /\ conn' \in Seq(Objects) /\ DOMAIN conn' = DOMAIN conn /\ Len(conn') = Len(conn)
    /\ \A d \in DOMAIN conn : /\ conn'[d].fd = conn[d].fd /\ conn'[d].name = conn[d].name
                              /\ conn'[d].loop_ = conn[d].loop_
    /\ connections_' \in [DOMAIN conn -> {0} \cup DOMAIN conn] /\ connections_'[c] \in {0, c}
    /\ functors' \in [Loops -> Seq(Functors)]
    /\ \A l \in Loops : \A i \in DOMAIN functors'[l] : functors'[l][i].conn \in DOMAIN conn
    /\ holders' \subseteq DOMAIN conn
    /\ \A d \in DOMAIN conn \ {c} :
          /\ conn'[d] = conn[d] /\ connections_'[d] = connections_[d]
          /\ d \in holders' <=> d \in holders
          /\ None(functors, d) => None(functors', d)
          /\ \A r : One(functors, d, r) => One(functors', d, r)
    /\ UNCHANGED <<socket, idleFd_, connd, backlog, pc, raced, failed, numThreads_, nextId_, nextConnId_>>
    /\ ClosesDestroyed

LEMMA MoveTypes ==
    ASSUME ServerInv, NEW c, Moves(c)
    PROVE  ServerTypeOK' /\ Named' /\ FunctorsKnown' /\ Counted'
<1>1. UNCHANGED <<acceptSocket_, listenning_, newConnectionCallback_, arrivals, idleFd_, connd, backlog,
                  pc, raced, failed, numThreads_, nextId_, nextConnId_>>
  BY DEF Moves, socket
<1>2. TypeOK'
  <2>1. fds' \in [Fds -> Owners]
    BY DEF Moves, ClosesDestroyed, ServerInv, ServerTypeOK, TypeOK, Owners
  <2> QED  BY <1>1, <2>1 DEF ServerInv, ServerTypeOK, TypeOK
<1>3. Loops' = Loops
  BY <1>1 DEF Loops
<1>4. connections_' \in UNION {[1 .. n -> {0} \cup DOMAIN conn'] : n \in 0 .. MaxArrivals}
  <2>1. Len(conn) \in 0 .. MaxArrivals
    BY ConnIs, BoundsAssumption
       DEF ServerInv, ServerTypeOK, TypeOK, Counted, BoundsAssumption
  <2>2. connections_' \in [1 .. Len(conn) -> {0} \cup DOMAIN conn']
    BY ConnIs DEF Moves, ServerInv
  <2> QED  BY <2>1, <2>2
<1>5. \A d \in DOMAIN conn' : conn'[d].loop_ \in Loops'
  BY <1>3 DEF Moves, ServerInv, ServerTypeOK
<1>6. ServerTypeOK'
  BY <1>1, <1>2, <1>3, <1>4, <1>5 DEF Moves, ServerInv, ServerTypeOK, Functors, Connections
<1>7. Named'
  BY DEF Moves, ServerInv, Named
<1>8. FunctorsKnown'
  BY <1>3 DEF Moves, FunctorsKnown
<1>9. Counted'
  BY <1>1 DEF Moves, ServerInv, Counted
<1> QED  BY <1>6, <1>7, <1>8, <1>9

(* The others go on as they were.                                          *)
LEMMA MoveOthers ==
    ASSUME ServerInv, NEW c, Moves(c), NEW d \in DOMAIN conn \ {c}
    PROVE  Phase(d)' /\ (Alive(d)' <=> Alive(d)) /\ conn'[d] = conn[d]
<1>1. Loops' = Loops
  BY DEF Moves, Loops
<1>2. ServerTypeOK' /\ Named' /\ d \in DOMAIN conn /\ d \in DOMAIN conn'
  BY MoveTypes DEF Moves
<1>3. Phase(d)
  BY DEF ServerInv, Phases
<1>4. /\ conn'[d] = conn[d] /\ connections_'[d] = connections_[d]
      /\ d \in holders' <=> d \in holders
      /\ None(functors, d) => None(functors', d)
      /\ \A r : One(functors, d, r) => One(functors', d, r)
  BY DEF Moves
<1>5. /\ None(functors, d)' <=> None(functors', d)
      /\ \A r : One(functors, d, r)' <=> One(functors', d, r)
  BY <1>1 DEF None, One, Only
<1>6. Phase(d)'
  BY <1>3, <1>4, <1>5 DEF Phase, Pending, Up, Leaving, Destroying, Removed
<1>7. Held(d)' <=> Held(d)
  <2>1. (\E r : One(functors, d, r)) => ~None(functors, d) /\ ~None(functors, d)'
    BY <1>4, <1>5 DEF One, Only, None
  <2>2. None(functors, d) \/ \E r : One(functors, d, r)
    BY <1>3 DEF Phase, Pending, Up, Leaving, Destroying, Removed
  <2> QED  BY <1>4, <1>5, <2>1, <2>2 DEF Held
<1> QED  BY <1>2, <1>4, <1>6, <1>7, AliveIs, AliveIsNext DEF ServerInv

(* The descriptor of c is closed if this was its last reference.           *)
LEMMA MoveTable ==
    ASSUME ServerInv, NEW c, Moves(c)
    PROVE  /\ conn[c].fd \in Fds
           /\ Alive(c) /\ ~Alive(c)' => fds' = [fds EXCEPT ![conn[c].fd] = "free"]
           /\ ~Alive(c) \/ Alive(c)' => fds' = fds
<1>1. fds = [f \in Fds |-> fds[f]]
  BY DEF ServerInv, ServerTypeOK, TypeOK
<1>2. c \in DOMAIN conn /\ conn[c].fd \in Fds
  BY ConnIs DEF Moves, ServerInv, Objects
<1>3. Destroyed \subseteq {c} /\ (c \in Destroyed <=> Alive(c) /\ ~Alive(c)')
  BY <1>2, MoveOthers DEF Destroyed
<1>4. fds' = [f \in Fds |-> IF \E d \in Destroyed : conn[d].fd = f THEN "free" ELSE fds[f]]
  BY DEF Moves, ClosesDestroyed
<1>5. ASSUME Alive(c), ~Alive(c)' PROVE fds' = [fds EXCEPT ![conn[c].fd] = "free"]
  <2>1. Destroyed = {c}
    BY <1>3, <1>5
  <2> QED  BY <1>1, <1>2, <1>4, <2>1
<1>6. ASSUME ~Alive(c) \/ Alive(c)' PROVE fds' = fds
  <2>1. Destroyed = {}
    BY <1>3, <1>6
  <2> QED  BY <1>1, <1>4, <2>1
<1> QED  BY <1>2, <1>5, <1>6

LEMMA MoveKeeps ==
    ASSUME ServerInv, NEW c, Moves(c), Phase(c)', Alive(c)' => Alive(c)
    PROVE  ServerInv'
<1>1. ServerTypeOK' /\ Named' /\ FunctorsKnown' /\ Counted'
  BY MoveTypes
<1>2. /\ conn[c].fd \in Fds
      /\ Alive(c) /\ ~Alive(c)' => fds' = [fds EXCEPT ![conn[c].fd] = "free"]
      /\ ~Alive(c) \/ Alive(c)' => fds' = fds
  BY MoveTable
<1>3. c \in DOMAIN conn /\ DOMAIN conn' = DOMAIN conn
  BY DEF Moves
<1>4. \A d \in DOMAIN conn : conn'[d].fd = conn[d].fd /\ conn[d].fd \in Fds
  BY ConnIs DEF Moves, ServerInv, Objects
<1>5. \A d \in DOMAIN conn \ {c} : Phase(d)' /\ (Alive(d)' <=> Alive(d))
  BY MoveOthers
<1>6. Phases'
  BY <1>3, <1>5 DEF Phases
<1>7. fds \in [Fds -> Owners] /\ \A d \in DOMAIN conn : Alive(d) => fds[conn[d].fd] = "connection"
  BY DEF ServerInv, ServerTypeOK, TypeOK, ConnectionsOwn
<1>8. \A f \in Fds : fds[f] # "connection" => fds'[f] = fds[f]
  BY <1>2, <1>3, <1>7
<1>9. AcceptorOwns'
  <2>1. UNCHANGED <<acceptSocket_, idleFd_, connd, pc, failed>>
    BY DEF Moves, socket
  <2>2. acceptSocket_ \in Fds /\ (idleFd_ # NoFd => idleFd_ \in Fds)
    BY DEF ServerInv, ServerTypeOK, TypeOK
  <2> QED  BY <1>8, <2>1, <2>2 DEF ServerInv, AcceptorOwns
<1>10. ConnectionsOwn'
  <2>1. \A d, e \in DOMAIN conn : Alive(d) /\ Alive(e) /\ conn[d].fd = conn[e].fd => d = e
    BY DEF ServerInv, ConnectionsOwn
  <2>2. \A d \in DOMAIN conn : Alive(d)' => Alive(d)
    BY <1>5
  <2>3. ASSUME NEW d \in DOMAIN conn, Alive(d)' PROVE fds'[conn[d].fd] = "connection"
    <3>1. CASE d = c
      BY <1>2, <1>3, <1>7, <2>2, <2>3, <3>1
    <3>2. CASE d # c /\ Alive(c) /\ ~Alive(c)'
      <4>1. conn[d].fd # conn[c].fd
        BY <1>3, <2>1, <2>2, <2>3, <3>2
      <4> QED  BY <1>2, <1>4, <1>7, <2>2, <2>3, <3>2, <4>1
    <3>3. CASE d # c /\ (~Alive(c) \/ Alive(c)')
      BY <1>2, <1>7, <2>2, <2>3, <3>3
    <3> QED  BY <3>1, <3>2, <3>3
  <2>4. ASSUME NEW f \in Fds, fds'[f] = "connection"
        PROVE  \E d \in DOMAIN conn : Alive(d)' /\ conn[d].fd = f
    <3>1. fds[f] = "connection"
      BY <1>2, <1>7, <2>4
    <3>2. PICK d \in DOMAIN conn : Alive(d) /\ conn[d].fd = f
      BY <3>1 DEF ServerInv, ConnectionsOwn
    <3>3. d = c => Alive(c)'
      BY <1>2, <1>7, <2>4, <3>2
    <3> QED  BY <1>5, <3>2, <3>3
  <2> QED  BY <1>3, <1>4, <2>1, <2>2, <2>3, <2>4 DEF ConnectionsOwn
<1> QED  BY <1>1, <1>6, <1>9, <1>10 DEF ServerInv

-----------------------------------------------------------------------------
(* The lives of the connections.                                           *)

LEMMA LifeIs ==
    ASSUME ServerInv
    PROVE  /\ DOMAIN conn \subseteq Connections
           /\ \A c \in Connections \ DOMAIN conn : Life(c) = "none"
           /\ \A c \in DOMAIN conn :
                 /\ ~Alive(c) => Life(c) = "ended"
                 /\ Alive(c) /\ conn[c].state_ = "kConnecting" => Life(c) = "accepted"
                 /\ Alive(c) /\ conn[c].state_ = "kConnected" => Life(c) = "up"
                 /\ Alive(c) /\ conn[c].state_ = "kDisconnected" => Life(c) = "down"
<1>1. Len(conn) <= MaxArrivals
  BY ConnIs, BoundsAssumption DEF ServerInv, ServerTypeOK, TypeOK, Counted, BoundsAssumption
<1>2. DOMAIN conn \subseteq Connections
  BY <1>1, ConnIs, BoundsAssumption DEF ServerInv, Connections, BoundsAssumption
<1> QED  BY <1>2 DEF Life

LEMMA MoveLives ==
    ASSUME ServerInv, NEW c, Moves(c)
    PROVE  /\ c \in DOMAIN conn /\ DOMAIN conn' = DOMAIN conn /\ c \in Connections
           /\ \A d \in Connections \ {c} : Life(d)' = Life(d)
           /\ ~Alive(c)' => Life(c)' = "ended"
           /\ Alive(c)' /\ conn'[c].state_ = "kConnecting" => Life(c)' = "accepted"
           /\ Alive(c)' /\ conn'[c].state_ = "kConnected" => Life(c)' = "up"
           /\ Alive(c)' /\ conn'[c].state_ = "kDisconnected" => Life(c)' = "down"
           /\ \A d \in DOMAIN conn \ {c} : Alive(d)' <=> Alive(d)
           /\ \A d \in DOMAIN conn : conn'[d].fd = conn[d].fd
<1>1. c \in DOMAIN conn /\ DOMAIN conn' = DOMAIN conn /\ \A d \in DOMAIN conn : conn'[d].fd = conn[d].fd
  BY DEF Moves
<1>2. \A d \in DOMAIN conn \ {c} : (Alive(d)' <=> Alive(d)) /\ conn'[d] = conn[d]
  BY MoveOthers
<1>3. \A d \in Connections \ {c} : Life(d)' = Life(d)
  BY <1>1, <1>2 DEF Life
<1>4. c \in Connections
  BY <1>1, LifeIs
<1> QED  BY <1>1, <1>2, <1>3, <1>4 DEF Life

LEMMA StaysAbstractly ==
    ASSUME ServerInv, NEW c, Moves(c), Alive(c)' <=> Alive(c), conn'[c].state_ = conn[c].state_
    PROVE  UNCHANGED Abstract!vars
<1>1. fds' = fds
  BY MoveTable
<1>2. \A d \in Connections : Life(d)' = Life(d)
  <2>1. Life(c)' = Life(c)
    BY MoveLives DEF Life
  <2> QED  BY <2>1, MoveLives
<1>3. \A d \in DOMAIN conn : (Alive(d)' <=> Alive(d)) /\ conn'[d].fd = conn[d].fd
  BY MoveLives
<1>4. [d \in Connections |-> Life(d)]' = [d \in Connections |-> Life(d)]
  BY <1>2 DEF Connections
<1>5. {d \in DOMAIN conn : Alive(d)}' = {d \in DOMAIN conn : Alive(d)}
  BY <1>3, MoveLives
<1>6. [d \in {e \in DOMAIN conn : Alive(e)} |-> conn[d].fd]' = [d \in {e \in DOMAIN conn : Alive(e)} |-> conn[d].fd]
  BY <1>3, <1>5
<1> QED  BY <1>1, <1>4, <1>6 DEF Abstract!vars

LEMMA ChangesAbstractly ==
    ASSUME ServerInv, NEW c, Moves(c), Alive(c), Alive(c)',
           \/ conn[c].state_ = "kConnecting" /\ conn'[c].state_ = "kConnected"
           \/ conn[c].state_ = "kConnected" /\ conn'[c].state_ = "kDisconnected"
    PROVE  Abstract!Next
<1>1. fds' = fds
  BY MoveTable
<1>2. c \in DOMAIN conn /\ c \in Connections
  BY MoveLives
<1>3. \/ Life(c) = "accepted" /\ Life(c)' = "up"
      \/ Life(c) = "up" /\ Life(c)' = "down"
  BY <1>2, MoveLives, LifeIs
<1> DEFINE life == [d \in Connections |-> Life(d)]
<1>4. life' = [life EXCEPT ![c] = Life(c)'] /\ life[c] = Life(c)
  BY <1>2, MoveLives DEF Connections
<1>5. \A d \in DOMAIN conn : (Alive(d)' <=> Alive(d)) /\ conn'[d].fd = conn[d].fd
  BY MoveLives
<1>6. {d \in DOMAIN conn : Alive(d)}' = {d \in DOMAIN conn : Alive(d)}
  BY <1>5, MoveLives
<1>7. [d \in {e \in DOMAIN conn : Alive(e)} |-> conn[d].fd]' = [d \in {e \in DOMAIN conn : Alive(e)} |-> conn[d].fd]
  BY <1>5, <1>6
<1>8. Abstract!Goes(c, {"accepted"}, "up") \/ Abstract!Goes(c, {"up"}, "down")
  BY <1>3, <1>4 DEF Abstract!Goes
<1>9. Abstract!Change(c)
  BY <1>1, <1>7, <1>8 DEF Abstract!Change
<1> QED  BY <1>2, <1>9 DEF Abstract!Next

LEMMA EndsAbstractly ==
    ASSUME ServerInv, NEW c, Moves(c), Alive(c), ~Alive(c)',
           conn[c].state_ \in {"kConnected", "kDisconnected"}
    PROVE  Abstract!Next
<1>1. conn[c].fd \in Fds /\ fds' = [fds EXCEPT ![conn[c].fd] = "free"] /\ fds \in [Fds -> Owners]
  BY MoveTable DEF ServerInv, ServerTypeOK, TypeOK
<1>2. c \in DOMAIN conn /\ c \in Connections
  BY MoveLives
<1>3. Life(c) \in {"up", "down"} /\ Life(c)' = "ended"
  BY <1>2, MoveLives, LifeIs
<1> DEFINE life == [d \in Connections |-> Life(d)]
<1>4. life' = [life EXCEPT ![c] = "ended"] /\ life[c] = Life(c)
  BY <1>2, <1>3, MoveLives DEF Connections
<1> DEFINE living == {d \in DOMAIN conn : Alive(d)}
           descriptor == [d \in living |-> conn[d].fd]
<1>5. living' = living \ {c} /\ c \in living
  BY <1>2, MoveLives
<1>6. /\ descriptor[c] = conn[c].fd
      /\ descriptor' = [d \in DOMAIN descriptor \ {c} |-> descriptor[d]]
  BY <1>5, MoveLives
<1>7. {f \in Fds : fds[f] = "connection"}' = {f \in Fds : fds[f] = "connection"} \ {conn[c].fd}
  BY <1>1
<1>8. Abstract!Goes(c, {"up", "down"}, "ended")
  BY <1>3, <1>4 DEF Abstract!Goes
<1>9. Abstract!End(c)
  BY <1>6, <1>7, <1>8 DEF Abstract!End
<1> QED  BY <1>2, <1>9 DEF Abstract!Next

-----------------------------------------------------------------------------
(* The steps that move a connection.                                       *)

LEMMA SeqOf ==
    ASSUME NEW S, NEW n \in Nat, NEW s \in [1 .. n -> S]
    PROVE  s \in Seq(S) /\ Len(s) = n
OBVIOUS

LEMMA ConnSet ==
    ASSUME ServerTypeOK, NEW c \in DOMAIN conn,
           NEW s \in {"kConnecting", "kConnected", "kDisconnected"},
           NEW h \in {"new", "registered", "removed"},
           conn' = [conn EXCEPT ![c].state_ = s, ![c].channel_ = h]
    PROVE  /\ conn' \in Seq(Objects) /\ DOMAIN conn' = DOMAIN conn /\ Len(conn') = Len(conn)
           /\ \A d \in DOMAIN conn : /\ conn'[d].fd = conn[d].fd /\ conn'[d].name = conn[d].name
                                     /\ conn'[d].loop_ = conn[d].loop_
           /\ \A d \in DOMAIN conn \ {c} : conn'[d] = conn[d]
           /\ conn'[c].state_ = s /\ conn'[c].channel_ = h
<1>1. /\ Len(conn) \in Nat /\ DOMAIN conn = 1 .. Len(conn)
      /\ \A d \in DOMAIN conn : conn[d] \in Objects
  BY ConnIs
<1>2. conn \in [1 .. Len(conn) -> Objects]
  BY LenProperties DEF ServerTypeOK
<1>3. DOMAIN conn' = DOMAIN conn /\ \A d \in DOMAIN conn \ {c} : conn'[d] = conn[d]
  OBVIOUS
<1>4. /\ conn'[c].fd = conn[c].fd /\ conn'[c].name = conn[c].name /\ conn'[c].loop_ = conn[c].loop_
      /\ conn'[c].state_ = s /\ conn'[c].channel_ = h /\ conn'[c] \in Objects
  BY <1>1 DEF Objects
<1>5. conn' \in [1 .. Len(conn) -> Objects]
  BY <1>1, <1>2, <1>3, <1>4
<1>6. conn' \in Seq(Objects) /\ Len(conn') = Len(conn)
  <2> DEFINE new == conn'
             n == Len(conn)
  <2>1. n \in Nat /\ new \in [1 .. n -> Objects]
    BY <1>1, <1>5
  <2> HIDE DEF new, n
  <2>2. new \in Seq(Objects) /\ Len(new) = n
    BY <2>1, SeqOf
  <2> QED  BY <2>2 DEF new, n
<1> QED  BY <1>3, <1>4, <1>6

(* What the functor at the head of a queue tells of its connection.        *)
LEMMA RunsFor ==
    ASSUME ServerInv, NEW l \in Loops, functors[l] # << >>,
           NEW rest, rest = [functors EXCEPT ![l] = Tail(@)],
           NEW f, f = Head(functors[l])
    PROVE  /\ f.conn \in DOMAIN conn /\ rest \in [Loops -> Seq(Functors)] /\ None(rest, f.conn)
           /\ \A d : d # f.conn /\ None(functors, d) => None(rest, d)
           /\ \A d, r : d # f.conn /\ One(functors, d, r) => One(rest, d, r)
           /\ \A k \in Loops : \A i \in DOMAIN rest[k] : rest[k][i].conn \in DOMAIN conn
           /\ f.run = "connectEstablished" => Pending(f.conn)
           /\ f.run = "removeConnectionInLoop" => Leaving(f.conn)
           /\ f.run = "connectDestroy" => Destroying(f.conn)
<1>1. functors \in [Loops -> Seq(Functors)]
  BY DEF ServerInv, ServerTypeOK
<1>a. TakenFrom(functors, rest, l, f)
  BY <1>1, TailKeeps
<1>2. /\ rest \in [Loops -> Seq(Functors)]
      /\ \A d : d # f.conn /\ None(functors, d) => None(rest, d)
      /\ \A d, r : d # f.conn /\ One(functors, d, r) => One(rest, d, r)
      /\ ~None(functors, f.conn)
      /\ \A r : One(functors, f.conn, r) => r = f.run /\ None(rest, f.conn)
      /\ \A k \in Loops : \A i \in DOMAIN rest[k] : \E j \in DOMAIN functors[k] : rest[k][i] = functors[k][j]
      /\ \E i \in DOMAIN functors[l] : f = functors[l][i]
  BY <1>a DEF TakenFrom
<1>3. f.conn \in DOMAIN conn
  BY <1>2 DEF ServerInv, FunctorsKnown
<1>4. Phase(f.conn)
  BY <1>3 DEF ServerInv, Phases
<1>5. \/ Pending(f.conn) /\ f.run = "connectEstablished"
      \/ Leaving(f.conn) /\ f.run = "removeConnectionInLoop"
      \/ Destroying(f.conn) /\ f.run = "connectDestroy"
  BY <1>2, <1>4 DEF Phase, Pending, Up, Leaving, Destroying, Removed
<1>6. None(rest, f.conn)
  BY <1>2, <1>5 DEF Pending, Leaving, Destroying
<1>7. \A k \in Loops : \A i \in DOMAIN rest[k] : rest[k][i].conn \in DOMAIN conn
  BY <1>2 DEF ServerInv, FunctorsKnown
<1> QED  BY <1>2, <1>3, <1>5, <1>6, <1>7

LEMMA MapIs ==
    ASSUME ServerInv, NEW c \in DOMAIN conn
    PROVE  /\ connections_ \in [DOMAIN conn -> {0} \cup DOMAIN conn] /\ connections_[c] \in {0, c}
           /\ Erased(c) \in [DOMAIN conn -> {0} \cup DOMAIN conn] /\ Erased(c)[c] = 0
           /\ \A d \in DOMAIN conn \ {c} : Erased(c)[d] = connections_[d]
<1>1. DOMAIN connections_ = DOMAIN conn /\ conn[c].name = c
      /\ \A d \in DOMAIN conn : connections_[d] \in {0, d}
  BY DEF ServerInv, Named
<1>2. connections_ \in [DOMAIN conn -> {0} \cup DOMAIN conn]
  BY <1>1 DEF ServerInv, ServerTypeOK
<1> QED  BY <1>1, <1>2 DEF Erased

LEMMA EstablishedMoves ==
    ASSUME ServerInv, NEW l \in Loops, functors[l] # << >>,
           NEW f, f = Head(functors[l]), f.run = "connectEstablished", connectEstablished(f.conn),
           functors' = [functors EXCEPT ![l] = Tail(@)],
           UNCHANGED <<socket, idleFd_, connd, backlog, pc, raced, failed,
                       numThreads_, nextId_, nextConnId_, holders>>,
           ClosesDestroyed
    PROVE  Moves(f.conn) /\ Pending(f.conn) /\ Up(f.conn)'
<1> DEFINE c == f.conn
<1>1. /\ c \in DOMAIN conn /\ functors' \in [Loops -> Seq(Functors)] /\ None(functors', c)
      /\ \A d : d # c /\ None(functors, d) => None(functors', d)
      /\ \A d, r : d # c /\ One(functors, d, r) => One(functors', d, r)
      /\ \A k \in Loops : \A i \in DOMAIN functors'[k] : functors'[k][i].conn \in DOMAIN conn
      /\ Pending(c)
  BY RunsFor
<1> HIDE DEF c
<1>2. conn' = [conn EXCEPT ![c].state_ = "kConnected", ![c].channel_ = "registered"]
      /\ connections_' = connections_ /\ holders' = holders
  BY DEF connectEstablished, c
<1>3. /\ conn' \in Seq(Objects) /\ DOMAIN conn' = DOMAIN conn /\ Len(conn') = Len(conn)
      /\ \A d \in DOMAIN conn : /\ conn'[d].fd = conn[d].fd /\ conn'[d].name = conn[d].name
                                /\ conn'[d].loop_ = conn[d].loop_
      /\ \A d \in DOMAIN conn \ {c} : conn'[d] = conn[d]
      /\ conn'[c].state_ = "kConnected" /\ conn'[c].channel_ = "registered"
  BY <1>1, <1>2, ConnSet DEF ServerInv
<1>4. connections_ \in [DOMAIN conn -> {0} \cup DOMAIN conn] /\ connections_[c] \in {0, c}
  BY <1>1, MapIs
<1>5. Moves(c)
  BY <1>1, <1>2, <1>3, <1>4 DEF Moves, ServerInv, ServerTypeOK
<1>6. Up(c)'
  <2>1. connections_[c] = c
    BY <1>1 DEF Pending
  <2>2. Loops' = Loops
    BY DEF Loops
  <2> QED  BY <1>1, <1>2, <1>3, <2>1, <2>2 DEF Up, None
<1> QED  BY <1>1, <1>5, <1>6 DEF c

LEMMA FunctorsAre ==
    ASSUME ServerInv, NEW c \in DOMAIN conn
    PROVE  /\ [run |-> "removeConnectionInLoop", conn |-> c] \in Functors
           /\ [run |-> "connectDestroy", conn |-> c] \in Functors
           /\ 0 \in Loops /\ conn[c].loop_ \in Loops
<1>1. c \in Connections
  BY LifeIs
<1>2. numThreads_ \in Nat
  BY ThreadCountsAssumption DEF ThreadCountsAssumption, ServerInv, ServerTypeOK
<1> QED  BY <1>1, <1>2 DEF Functors, Loops, ServerInv, ServerTypeOK

LEMMA RemoveMoves ==
    ASSUME ServerInv, NEW l \in Loops, functors[l] # << >>,
           NEW f, f = Head(functors[l]), f.run = "removeConnectionInLoop",
           removeConnectionInLoop(f.conn),
           NEW rest, rest = [functors EXCEPT ![l] = Tail(@)],
           functors' = [rest EXCEPT ![conn[f.conn].loop_] =
                           Append(@, [run |-> "connectDestroy", conn |-> f.conn])],
           UNCHANGED <<socket, idleFd_, connd, backlog, pc, raced, failed,
                       numThreads_, nextId_, nextConnId_, holders>>,
           ClosesDestroyed
    PROVE  Moves(f.conn) /\ Leaving(f.conn) /\ Destroying(f.conn)'
<1> DEFINE c == f.conn
           g == [run |-> "connectDestroy", conn |-> c]
           k == conn[c].loop_
<1>1. /\ c \in DOMAIN conn /\ rest \in [Loops -> Seq(Functors)] /\ None(rest, c)
      /\ \A d : d # c /\ None(functors, d) => None(rest, d)
      /\ \A d, r : d # c /\ One(functors, d, r) => One(rest, d, r)
      /\ \A m \in Loops : \A i \in DOMAIN rest[m] : rest[m][i].conn \in DOMAIN conn
      /\ Leaving(c)
  BY RunsFor
<1>2. /\ connections_' = Erased(c) /\ conn' = conn /\ holders' = holders
      /\ functors' = [rest EXCEPT ![k] = Append(@, g)]
  BY DEF removeConnectionInLoop
<1>3. g \in Functors /\ k \in Loops /\ g.conn = c /\ g.run = "connectDestroy"
  BY <1>1, FunctorsAre
<1> HIDE DEF c, g, k
<1>4. AddedTo(rest, functors', k, g)
  BY <1>1, <1>2, <1>3, AppendKeeps
<1>5. /\ functors' \in [Loops -> Seq(Functors)] /\ One(functors', c, "connectDestroy")
      /\ \A d : d # c /\ None(functors, d) => None(functors', d)
      /\ \A d, r : d # c /\ One(functors, d, r) => One(functors', d, r)
      /\ \A m \in Loops : \A i \in DOMAIN functors'[m] : functors'[m][i].conn \in DOMAIN conn
  <2>1. functors' \in [Loops -> Seq(Functors)] /\ One(functors', c, "connectDestroy")
    BY <1>1, <1>3, <1>4 DEF AddedTo
  <2>2. ASSUME NEW d, d # c, None(functors, d) PROVE None(functors', d)
    BY <1>1, <1>3, <1>4, <2>2 DEF AddedTo
  <2>3. ASSUME NEW d, NEW r, d # c, One(functors, d, r) PROVE One(functors', d, r)
    BY <1>1, <1>3, <1>4, <2>3 DEF AddedTo
  <2>4. ASSUME NEW m \in Loops, NEW i \in DOMAIN functors'[m]
        PROVE  functors'[m][i].conn \in DOMAIN conn
    <3> DEFINE e == functors'[m][i]
    <3>1. e = g \/ (i \in DOMAIN rest[m] /\ e = rest[m][i])
      BY <1>4, Zenon DEF AddedTo
    <3> HIDE DEF e
    <3>2. e.conn \in DOMAIN conn
      BY <1>1, <1>3, <3>1
    <3> QED  BY <3>2 DEF e
  <2> QED  BY <2>1, <2>2, <2>3, <2>4
<1>6. /\ connections_' \in [DOMAIN conn -> {0} \cup DOMAIN conn] /\ connections_'[c] = 0
      /\ \A d \in DOMAIN conn \ {c} : connections_'[d] = connections_[d]
  BY <1>1, <1>2, MapIs
<1>7. Moves(c)
  BY <1>1, <1>2, <1>5, <1>6 DEF Moves, ServerInv, ServerTypeOK
<1>8. Destroying(c)'
  <2>1. Loops' = Loops
    BY DEF Loops
  <2>2. One(functors, c, "connectDestroy")' <=> One(functors', c, "connectDestroy")
    BY <2>1 DEF One, Only
  <2>3. conn'[c].state_ = "kDisconnected" /\ conn'[c].channel_ = "registered"
    BY <1>1, <1>2 DEF Leaving
  <2> QED  BY <1>5, <1>6, <2>2, <2>3 DEF Destroying
<1> QED  BY <1>1, <1>7, <1>8 DEF c

LEMMA DestroyMoves ==
    ASSUME ServerInv, NEW l \in Loops, functors[l] # << >>,
           NEW f, f = Head(functors[l]), f.run = "connectDestroy", connectDestroy(f.conn),
           functors' = [functors EXCEPT ![l] = Tail(@)],
           UNCHANGED <<socket, idleFd_, connd, backlog, pc, raced, failed,
                       numThreads_, nextId_, nextConnId_, holders>>,
           ClosesDestroyed
    PROVE  Moves(f.conn) /\ Destroying(f.conn) /\ Removed(f.conn)'
<1> DEFINE c == f.conn
<1>1. /\ c \in DOMAIN conn /\ functors' \in [Loops -> Seq(Functors)] /\ None(functors', c)
      /\ \A d : d # c /\ None(functors, d) => None(functors', d)
      /\ \A d, r : d # c /\ One(functors, d, r) => One(functors', d, r)
      /\ \A k \in Loops : \A i \in DOMAIN functors'[k] : functors'[k][i].conn \in DOMAIN conn
      /\ Destroying(c)
  BY RunsFor
<1> HIDE DEF c
<1>2. /\ conn' = [conn EXCEPT ![c].channel_ = "removed"]
      /\ connections_' = connections_ /\ holders' = holders
  BY DEF connectDestroy, c
<1>3. conn[c] \in Objects /\ conn[c].state_ = "kDisconnected"
  BY <1>1, ConnIs DEF Destroying, ServerInv
<1>4. conn' = [conn EXCEPT ![c].state_ = "kDisconnected", ![c].channel_ = "removed"]
  <2>1. [conn[c] EXCEPT !.state_ = "kDisconnected"] = conn[c]
    BY <1>3 DEF Objects
  <2> QED  BY <1>2, <2>1
<1>5. /\ conn' \in Seq(Objects) /\ DOMAIN conn' = DOMAIN conn /\ Len(conn') = Len(conn)
      /\ \A d \in DOMAIN conn : /\ conn'[d].fd = conn[d].fd /\ conn'[d].name = conn[d].name
                                /\ conn'[d].loop_ = conn[d].loop_
      /\ \A d \in DOMAIN conn \ {c} : conn'[d] = conn[d]
      /\ conn'[c].state_ = "kDisconnected" /\ conn'[c].channel_ = "removed"
  BY <1>1, <1>4, ConnSet DEF ServerInv
<1>6. connections_ \in [DOMAIN conn -> {0} \cup DOMAIN conn] /\ connections_[c] \in {0, c}
  BY <1>1, MapIs
<1>7. Moves(c)
  BY <1>1, <1>2, <1>5, <1>6 DEF Moves, ServerInv, ServerTypeOK
<1>8. Removed(c)'
  <2>1. Loops' = Loops
    BY DEF Loops
  <2> QED  BY <1>1, <1>2, <1>5, <2>1 DEF Destroying, Removed, None
<1> QED  BY <1>1, <1>7, <1>8 DEF c

LEMMA CloseMoves ==
    ASSUME ServerInv, NEW c \in DOMAIN conn, handleClose(c)
    PROVE  Moves(c) /\ Up(c) /\ (Removed(c)' \/ Leaving(c)') /\ holders' = holders
<1>1. Up(c)
  BY DEF ServerInv, Phases, Phase, Pending, Leaving, Destroying, Removed, handleClose
<1> DEFINE h == IF conn[c].loop_ = 0 THEN "removed" ELSE "registered"
           g == [run |-> "removeConnectionInLoop", conn |-> c]
<1>2. /\ UNCHANGED <<socket, idleFd_, connd, backlog, pc, raced, failed,
                     numThreads_, nextId_, nextConnId_, holders>>
      /\ ClosesDestroyed
      /\ conn' = [conn EXCEPT ![c].state_ = "kDisconnected", ![c].channel_ = h]
      /\ IF conn[c].loop_ = 0
         THEN connections_' = Erased(c) /\ functors' = functors
         ELSE functors' = [functors EXCEPT ![0] = Append(@, g)] /\ connections_' = connections_
  BY DEF handleClose, removeConnection, Queued
<1>3. /\ conn' \in Seq(Objects) /\ DOMAIN conn' = DOMAIN conn /\ Len(conn') = Len(conn)
      /\ \A d \in DOMAIN conn : /\ conn'[d].fd = conn[d].fd /\ conn'[d].name = conn[d].name
                                /\ conn'[d].loop_ = conn[d].loop_
      /\ \A d \in DOMAIN conn \ {c} : conn'[d] = conn[d]
      /\ conn'[c].state_ = "kDisconnected" /\ conn'[c].channel_ = h
  BY <1>2, ConnSet DEF ServerInv
<1>4. /\ connections_' \in [DOMAIN conn -> {0} \cup DOMAIN conn]
      /\ connections_'[c] = IF conn[c].loop_ = 0 THEN 0 ELSE c
      /\ \A d \in DOMAIN conn \ {c} : connections_'[d] = connections_[d]
  BY <1>1, <1>2, MapIs DEF Up
<1>5. functors \in [Loops -> Seq(Functors)] /\ None(functors, c) /\ Loops' = Loops
  BY <1>1, <1>2 DEF ServerInv, ServerTypeOK, Up, Loops
<1>6. \A m \in Loops : \A i \in DOMAIN functors[m] : functors[m][i].conn \in DOMAIN conn
  BY DEF ServerInv, FunctorsKnown
<1>7. CASE conn[c].loop_ = 0
  <2>1. Moves(c)
    BY <1>2, <1>3, <1>4, <1>5, <1>6, <1>7 DEF Moves, ServerInv, ServerTypeOK
  <2>2. Removed(c)'
    BY <1>2, <1>3, <1>4, <1>5, <1>7 DEF Removed, None
  <2> QED  BY <1>1, <1>2, <2>1, <2>2
<1>8. CASE conn[c].loop_ # 0
  <2>1. g \in Functors /\ 0 \in Loops /\ g.conn = c /\ g.run = "removeConnectionInLoop"
    BY FunctorsAre
  <2>2. functors' = [functors EXCEPT ![0] = Append(@, g)]
    BY <1>2, <1>8
  <2> HIDE DEF g
  <2>3. AddedTo(functors, functors', 0, g)
    BY <1>5, <2>1, <2>2, AppendKeeps
  <2>4. functors' \in [Loops -> Seq(Functors)] /\ One(functors', c, "removeConnectionInLoop")
    BY <1>5, <2>1, <2>3 DEF AddedTo
  <2>5. ASSUME NEW d, d # c, None(functors, d) PROVE None(functors', d)
    BY <2>1, <2>3, <2>5 DEF AddedTo
  <2>6. ASSUME NEW d, NEW r, d # c, One(functors, d, r) PROVE One(functors', d, r)
    BY <2>1, <2>3, <2>6 DEF AddedTo
  <2>7. ASSUME NEW m \in Loops, NEW i \in DOMAIN functors'[m]
        PROVE  functors'[m][i].conn \in DOMAIN conn
    BY <1>6, <2>1, <2>3 DEF AddedTo
  <2>8. Moves(c)
    BY <1>2, <1>3, <1>4, <1>8, <2>4, <2>5, <2>6, <2>7 DEF Moves, ServerInv, ServerTypeOK
  <2>9. One(functors, c, "removeConnectionInLoop")' <=> One(functors', c, "removeConnectionInLoop")
    BY <1>5 DEF One, Only
  <2>10. Leaving(c)'
    BY <1>3, <1>4, <1>8, <2>4, <2>9 DEF Leaving
  <2> QED  BY <1>1, <1>2, <2>8, <2>10
<1> QED  BY <1>7, <1>8

(* User code takes or drops a pointer.                                     *)
LEMMA HoldersMove ==
    ASSUME ServerInv, NEW c \in DOMAIN conn, holders' \in {holders \cup {c}, holders \ {c}},
           UNCHANGED <<socket, idleFd_, connd, backlog, pc, raced, failed,
                       numThreads_, nextId_, nextConnId_, connections_, conn, functors>>,
           ClosesDestroyed
    PROVE  Moves(c) /\ Phase(c)'
<1>1. Phase(c) /\ Loops' = Loops
  BY DEF ServerInv, Phases, Loops
<1>2. connections_ \in [DOMAIN conn -> {0} \cup DOMAIN conn] /\ connections_[c] \in {0, c}
  BY MapIs
<1>3. Moves(c)
  BY <1>2 DEF Moves, ServerInv, ServerTypeOK, FunctorsKnown
<1>4. Phase(c)' <=> Phase(c)
  BY <1>1 DEF Phase, Pending, Up, Leaving, Destroying, Removed, None, One, Only
<1> QED  BY <1>1, <1>3, <1>4

LEMMA AlivePhase ==
    ASSUME ServerInv, NEW c \in DOMAIN conn
    PROVE  Alive(c) <=> (~Removed(c) \/ c \in holders)
BY AliveIs, HeldIs DEF ServerInv, Phases

LEMMA AlivePhaseNext ==
    ASSUME ServerInv, NEW c, Moves(c), Phase(c)'
    PROVE  Alive(c)' <=> (~Removed(c)' \/ c \in holders')
<1>1. ServerTypeOK' /\ Named' /\ c \in DOMAIN conn /\ c \in DOMAIN conn'
  BY MoveTypes DEF Moves
<1>2. c # 0
  BY <1>1, ConnIs DEF ServerInv
<1>3. \A r : One(functors, c, r)' => ~None(functors, c)'
  BY DEF One, Only, None
<1>4. Held(c)' <=> (~Removed(c)' \/ c \in holders')
  BY <1>2, <1>3 DEF Phase, Pending, Up, Leaving, Destroying, Removed, Held
<1> QED  BY <1>1, <1>4, AliveIsNext

(* The way of c: it is established, leaves the map and is destroyed.       *)
LEMMA UpKeeps ==
    ASSUME ServerInv, NEW c \in DOMAIN conn, Moves(c), Pending(c), Up(c)'
    PROVE  ServerInv' /\ [Abstract!Next]_Abstract!vars
<1>1. Phase(c)' /\ ~Removed(c) /\ ~Removed(c)'
  BY DEF Phase, Pending, Up, Removed
<1>2. Alive(c) /\ Alive(c)'
  BY <1>1, AlivePhase, AlivePhaseNext
<1>3. ServerInv'
  BY <1>1, <1>2, MoveKeeps
<1>4. Abstract!Next
  BY <1>2, ChangesAbstractly DEF Pending, Up
<1> QED  BY <1>3, <1>4

LEMMA DestroyingKeeps ==
    ASSUME ServerInv, NEW c \in DOMAIN conn, Moves(c), Leaving(c), Destroying(c)'
    PROVE  ServerInv' /\ [Abstract!Next]_Abstract!vars
<1>1. /\ Phase(c)' /\ ~Removed(c) /\ ~Removed(c)' /\ conn'[c].state_ = conn[c].state_
  BY DEF Phase, Leaving, Destroying, Removed
<1>2. Alive(c) /\ Alive(c)'
  BY <1>1, AlivePhase, AlivePhaseNext
<1>3. ServerInv'
  BY <1>1, <1>2, MoveKeeps
<1>4. UNCHANGED Abstract!vars
  BY <1>1, <1>2, StaysAbstractly
<1> QED  BY <1>3, <1>4

LEMMA RemovedKeeps ==
    ASSUME ServerInv, NEW c \in DOMAIN conn, Moves(c), Destroying(c), Removed(c)'
    PROVE  ServerInv' /\ [Abstract!Next]_Abstract!vars
<1>1. /\ Phase(c)' /\ ~Removed(c)
      /\ conn[c].state_ = "kDisconnected" /\ conn'[c].state_ = conn[c].state_
  BY DEF Phase, Destroying, Removed
<1>2. Alive(c)
  BY <1>1, AlivePhase
<1>3. ServerInv'
  BY <1>1, <1>2, MoveKeeps
<1>4. CASE Alive(c)'
  BY <1>1, <1>2, <1>3, <1>4, StaysAbstractly
<1>5. CASE ~Alive(c)'
  BY <1>1, <1>2, <1>3, <1>5, EndsAbstractly
<1> QED  BY <1>4, <1>5

LEMMA RunFunctorKeeps ==
    ASSUME ServerInv, NEW l \in Loops, RunFunctor(l)
    PROVE  ServerInv' /\ [Abstract!Next]_Abstract!vars
<1>1. PICK f, rest :
         /\ f = Head(functors[l]) /\ rest = [functors EXCEPT ![l] = Tail(@)]
         /\ \/ f.run = "connectEstablished" /\ connectEstablished(f.conn) /\ functors' = rest
            \/ f.run = "connectDestroy" /\ connectDestroy(f.conn) /\ functors' = rest
            \/ /\ f.run = "removeConnectionInLoop"
               /\ removeConnectionInLoop(f.conn)
               /\ functors' = [rest EXCEPT ![conn[f.conn].loop_] =
                                  Append(@, [run |-> "connectDestroy", conn |-> f.conn])]
  BY DEF RunFunctor
<1>2. /\ functors[l] # << >> /\ ClosesDestroyed
      /\ UNCHANGED <<socket, idleFd_, connd, backlog, pc, raced, failed,
                     numThreads_, nextId_, nextConnId_, holders>>
  BY DEF RunFunctor
<1>3. f.conn \in DOMAIN conn
  BY <1>1, <1>2, RunsFor
<1>4. CASE f.run = "connectEstablished" /\ connectEstablished(f.conn) /\ functors' = rest
  <2>1. functors' = [functors EXCEPT ![l] = Tail(@)]
    BY <1>1, <1>4
  <2>2. Moves(f.conn) /\ Pending(f.conn) /\ Up(f.conn)'
    BY <1>1, <1>2, <1>4, <2>1, EstablishedMoves
  <2> QED  BY <1>3, <2>2, UpKeeps
<1>5. CASE f.run = "connectDestroy" /\ connectDestroy(f.conn) /\ functors' = rest
  <2>1. functors' = [functors EXCEPT ![l] = Tail(@)]
    BY <1>1, <1>5
  <2>2. Moves(f.conn) /\ Destroying(f.conn) /\ Removed(f.conn)'
    BY <1>1, <1>2, <1>5, <2>1, DestroyMoves
  <2> QED  BY <1>3, <2>2, RemovedKeeps
<1>6. CASE /\ f.run = "removeConnectionInLoop" /\ removeConnectionInLoop(f.conn)
           /\ functors' = [rest EXCEPT ![conn[f.conn].loop_] =
                              Append(@, [run |-> "connectDestroy", conn |-> f.conn])]
  <2>1. Moves(f.conn) /\ Leaving(f.conn) /\ Destroying(f.conn)'
    BY <1>1, <1>2, <1>6, RemoveMoves
  <2> QED  BY <1>3, <2>1, DestroyingKeeps
<1> QED  BY <1>1, <1>4, <1>5, <1>6

LEMMA CloseKeeps ==
    ASSUME ServerInv, NEW c \in DOMAIN conn, handleClose(c)
    PROVE  ServerInv' /\ [Abstract!Next]_Abstract!vars
<1>1. Moves(c) /\ Up(c) /\ (Removed(c)' \/ Leaving(c)')
  BY CloseMoves
<1>2. /\ Phase(c)' /\ ~Removed(c)
      /\ conn[c].state_ = "kConnected" /\ conn'[c].state_ = "kDisconnected"
  BY <1>1 DEF Phase, Up, Leaving, Removed
<1>3. Alive(c)
  BY <1>2, AlivePhase
<1>4. ServerInv'
  BY <1>1, <1>2, <1>3, MoveKeeps
<1>5. CASE Alive(c)'
  BY <1>1, <1>2, <1>3, <1>4, <1>5, ChangesAbstractly
<1>6. CASE ~Alive(c)'
  BY <1>1, <1>2, <1>3, <1>4, <1>6, EndsAbstractly
<1> QED  BY <1>5, <1>6

LEMMA ShareKeeps ==
    ASSUME ServerInv, NEW c \in DOMAIN conn, share(c)
    PROVE  ServerInv' /\ [Abstract!Next]_Abstract!vars
<1>1. /\ holders' = holders \cup {c} /\ fds' = fds
      /\ UNCHANGED <<socket, idleFd_, connd, backlog, pc, raced, failed,
                     numThreads_, nextId_, nextConnId_, connections_, conn, functors>>
  BY DEF share, vars
<1>2. \A d \in DOMAIN conn : Alive(d) => Alive(d)'
  BY <1>1 DEF Alive, Loops
<1>3. ClosesDestroyed
  <2>1. Destroyed = {}
    BY <1>2 DEF Destroyed
  <2>2. fds = [f \in Fds |-> fds[f]]
    BY DEF ServerInv, ServerTypeOK, TypeOK
  <2> QED  BY <1>1, <2>1, <2>2 DEF ClosesDestroyed
<1>4. Moves(c) /\ Phase(c)'
  BY <1>1, <1>3, HoldersMove
<1>5. ~Removed(c)
  BY DEF share, Removed
<1>6. Alive(c) /\ Alive(c)'
  BY <1>2, <1>5, AlivePhase
<1>7. ServerInv' /\ UNCHANGED Abstract!vars
  BY <1>1, <1>4, <1>6, MoveKeeps, StaysAbstractly
<1> QED  BY <1>7

LEMMA ReleaseKeeps ==
    ASSUME ServerInv, NEW c \in DOMAIN conn, release(c)
    PROVE  ServerInv' /\ [Abstract!Next]_Abstract!vars
<1>1. /\ c \in holders /\ holders' = holders \ {c} /\ ClosesDestroyed
      /\ UNCHANGED <<socket, idleFd_, connd, backlog, pc, raced, failed,
                     numThreads_, nextId_, nextConnId_, connections_, conn, functors>>
  BY DEF release
<1>2. Moves(c) /\ Phase(c)'
  BY <1>1, HoldersMove
<1>3. Alive(c)
  BY <1>1, AlivePhase
<1>4. ServerInv'
  BY <1>2, <1>3, MoveKeeps
<1>5. CASE Alive(c)'
  BY <1>1, <1>2, <1>3, <1>4, <1>5, StaysAbstractly
<1>6. CASE ~Alive(c)'
  <2>1. Removed(c)'
    BY <1>2, <1>6, AlivePhaseNext
  <2>2. conn[c].state_ = "kDisconnected"
    BY <1>1, <2>1 DEF Removed
  <2> QED  BY <1>2, <1>3, <1>4, <1>6, <2>2, EndsAbstractly
<1> QED  BY <1>5, <1>6

-----------------------------------------------------------------------------
(* The steps of the acceptor, of other threads and of peers.               *)

LEMMA LeastFree ==
    ASSUME TypeOK, Free # {}
    PROVE  Least \in Fds /\ fds[Least] = "free" /\ Least # NoFd
<1>1. Free \in SUBSET Nat
  BY FdsAssumption DEF Free, FdsAssumption
<1>2. \E f \in Free : \A g \in Free : f <= g
  BY <1>1, LeastIsFree
<1>3. Least \in Free
  BY <1>2 DEF Least
<1> QED  BY <1>1, <1>3 DEF Free, NoFd

(* What such a step keeps.                                                 *)
Aside ==
    /\ TypeOK' /\ AcceptorOwns'
    /\ pc' \in {"accept", "yield", "drain"} => backlog' > 0
    /\ backlog' - arrivals' <= backlog - arrivals
    /\ \A f \in Fds : fds'[f] = "connection" <=> fds[f] = "connection"

LEMMA AsideKeeps ==
    ASSUME ServerInv, Aside, UNCHANGED server
    PROVE  ServerInv' /\ [Abstract!Next]_Abstract!vars
<1>1. UNCHANGED <<numThreads_, nextId_, nextConnId_, connections_, conn, functors, holders>>
  BY DEF server
<1>2. /\ Loops' = Loops /\ \A c : Alive(c)' <=> Alive(c)
      /\ \A c : Phase(c)' <=> Phase(c)
  BY <1>1 DEF Loops, Alive, Phase, Pending, Up, Leaving, Destroying, Removed, None, One, Only
<1>3. \A f \in Fds : fds'[f] = "connection" <=> fds[f] = "connection"
  BY DEF Aside
<1>4. \A c \in DOMAIN conn : conn[c].fd \in Fds
  BY ConnIs DEF ServerInv, Objects
<1>5. ServerTypeOK'
  BY <1>1, <1>2 DEF Aside, ServerInv, ServerTypeOK, Functors, Connections
<1>6. Counted'
  <2>1. /\ Len(conn) \in Int /\ backlog \in Int /\ arrivals \in Int
        /\ backlog' \in Int /\ arrivals' \in Int
    BY ConnIs, BoundsAssumption DEF ServerInv, ServerTypeOK, TypeOK, Aside, BoundsAssumption
  <2>2. /\ pc' \in {"accept", "yield", "drain"} => backlog' > 0
        /\ backlog' - arrivals' <= backlog - arrivals
    BY DEF Aside
  <2>3. Len(conn) + backlog <= arrivals /\ nextConnId_ = Len(conn) + 1
    BY DEF ServerInv, Counted
  <2>4. Len(conn) + backlog' <= arrivals'
    <3>1. \A n, b, a, bb, aa \in Int : n + b <= a /\ bb - aa <= b - a => n + bb <= aa
      OBVIOUS
    <3> QED  BY <2>1, <2>2, <2>3, <3>1
  <2>5. conn' = conn /\ nextConnId_' = nextConnId_
    BY <1>1
  <2>6. Len(conn') + backlog' <= arrivals' /\ nextConnId_' = Len(conn') + 1
    BY <2>3, <2>4, <2>5
  <2> QED  BY <2>2, <2>6 DEF Counted
<1>7. Named' /\ FunctorsKnown' /\ Phases'
  BY <1>1, <1>2 DEF ServerInv, Named, FunctorsKnown, Phases
<1>8. ConnectionsOwn'
  BY <1>1, <1>2, <1>3, <1>4 DEF ServerInv, ConnectionsOwn
<1>9. ServerInv'
  BY <1>5, <1>6, <1>7, <1>8 DEF Aside, ServerInv
<1>10. UNCHANGED Abstract!vars
  <2>1. \A c \in Connections : Life(c)' = Life(c)
    BY <1>1, <1>2 DEF Life
  <2>2. [c \in Connections |-> Life(c)]' = [c \in Connections |-> Life(c)]
    BY <2>1 DEF Connections
  <2>3. {d \in DOMAIN conn : Alive(d)}' = {d \in DOMAIN conn : Alive(d)}
    BY <1>1, <1>2
  <2>4. [c \in {d \in DOMAIN conn : Alive(d)} |-> conn[c].fd]'
          = [c \in {d \in DOMAIN conn : Alive(d)} |-> conn[c].fd]
    BY <1>1, <2>3
  <2>5. {f \in Fds : fds[f] = "connection"}' = {f \in Fds : fds[f] = "connection"}
    BY <1>3
  <2> QED  BY <2>2, <2>4, <2>5 DEF Abstract!vars
<1> QED  BY <1>9, <1>10

LEMMA AcceptorAside ==
    ASSUME ServerInv, listen \/ poll \/ ReadStep \/ destroy
    PROVE  Aside
<1>1. /\ TypeOK /\ AcceptorOwns /\ (pc \in {"accept", "yield", "drain"} => backlog > 0)
      /\ fds \in [Fds -> Owners] /\ acceptSocket_ \in Fds /\ NoFd \notin Fds
      /\ MaxBacklog \in Nat /\ MaxArrivals \in Nat /\ backlog \in Nat /\ arrivals \in Nat
  BY FdsAssumption, BoundsAssumption
     DEF ServerInv, ServerTypeOK, TypeOK, Counted, FdsAssumption, BoundsAssumption, NoFd
<1>2. Free # {} => Least \in Fds /\ fds[Least] = "free" /\ Least # NoFd
  BY <1>1, LeastFree
<1> HIDE DEF Least, Free, NoFd
<1> USE DEF Aside, AcceptorOwns, TypeOK, socket, Owners, Locations
<1>3. CASE listen
  BY <1>1, <1>3 DEF listen
<1>4. CASE poll
  BY <1>1, <1>4 DEF poll
<1>5. CASE ~newConnectionCallback_ /\ Accept
  BY <1>1, <1>2, <1>5 DEF Accept, Given
<1>6. CASE AcceptFails
  BY <1>1, <1>6 DEF AcceptFails
<1>7. CASE refuse
  BY <1>1, <1>7 DEF refuse, Closes, Given
<1>8. CASE Emfile
  BY <1>1, <1>8 DEF Emfile, AfterEmfile
<1>9. CASE yield
  BY <1>1, <1>9 DEF yield, Closes, Given
<1>10. CASE drain
  BY <1>1, <1>2, <1>10 DEF drain, Kept, Given
<1>11. CASE drop
  BY <1>1, <1>11 DEF drop, Closes, Given
<1>12. CASE reserve
  BY <1>1, <1>2, <1>12 DEF reserve, Opened, OpenedFd, Given
<1>13. CASE destroy
  BY <1>1, <1>13 DEF destroy, Closes, Given
<1> QED  BY <1>3, <1>4, <1>5, <1>6, <1>7, <1>8, <1>9, <1>10, <1>11, <1>12, <1>13 DEF ReadStep

LEMMA OtherAside ==
    ASSUME ServerInv, OtherStep
    PROVE  Aside
<1>1. /\ TypeOK /\ AcceptorOwns /\ (pc \in {"accept", "yield", "drain"} => backlog > 0)
      /\ fds \in [Fds -> Owners] /\ acceptSocket_ \in Fds /\ NoFd \notin Fds
      /\ MaxBacklog \in Nat /\ MaxArrivals \in Nat /\ backlog \in Nat /\ arrivals \in Nat
  BY FdsAssumption, BoundsAssumption
     DEF ServerInv, ServerTypeOK, TypeOK, Counted, FdsAssumption, BoundsAssumption, NoFd
<1>2. Free # {} => Least \in Fds /\ fds[Least] = "free" /\ Least # NoFd
  BY <1>1, LeastFree
<1> HIDE DEF Least, Free, NoFd
<1> USE DEF Aside, AcceptorOwns, TypeOK, socket, Owners, Locations
<1>3. CASE otherOpens
  BY <1>1, <1>2, <1>3 DEF otherOpens, Given, Yielded
<1>4. CASE peerConnects
  BY <1>1, <1>4 DEF peerConnects
<1>5. ASSUME NEW f \in Fds, otherCloses(f) PROVE Aside
  BY <1>1, <1>5 DEF otherCloses, Given
<1> QED  BY <1>3, <1>4, <1>5 DEF OtherStep

-----------------------------------------------------------------------------
(* A new connection c, with descriptor f.                                  *)
Begins(c, f) ==
    /\ c = Len(conn) + 1 /\ c \in Connections /\ c \notin DOMAIN conn
    /\ f \in Fds /\ fds[f] = "free" /\ fds' = [fds EXCEPT ![f] = "connection"]
    /\ conn' \in Seq(Objects) /\ Len(conn') = c /\ DOMAIN conn' = DOMAIN conn \cup {c}
    /\ conn'[c].fd = f /\ conn'[c].name = c /\ conn'[c].loop_ \in Loops
    /\ connections_' \in [DOMAIN conn' -> {0} \cup DOMAIN conn'] /\ connections_'[c] = c
    /\ functors' \in [Loops -> Seq(Functors)]
    /\ \A l \in Loops : \A i \in DOMAIN functors'[l] : functors'[l][i].conn \in DOMAIN conn'
    /\ \A d \in DOMAIN conn :
          /\ conn'[d] = conn[d] /\ connections_'[d] = connections_[d]
          /\ None(functors, d) => None(functors', d)
          /\ \A r : One(functors, d, r) => One(functors', d, r)
    /\ \/ /\ conn'[c].state_ = "kConnected" /\ conn'[c].channel_ = "registered"
          /\ None(functors', c)
       \/ /\ conn'[c].state_ = "kConnecting" /\ conn'[c].channel_ = "new"
          /\ One(functors', c, "connectEstablished")
    /\ nextId_' \in Nat /\ (nextId_' = 0 \/ nextId_' < numThreads_)
    /\ backlog > 0 /\ backlog' = backlog - 1 /\ nextConnId_' = c + 1
    /\ pc = "accept" /\ pc' = "poll" /\ connd' = f
    /\ UNCHANGED <<socket, idleFd_, raced, failed, numThreads_, holders>>

(* Where the pool puts it.                                                 *)
LEMMA NextLoop ==
    ASSUME ServerTypeOK, NEW l, l = IF numThreads_ = 0 THEN 0 ELSE nextId_ + 1,
           nextId_' = IF numThreads_ = 0 THEN nextId_ ELSE NextId
    PROVE  /\ l \in Loops /\ l \in Nat
           /\ nextId_' \in Nat /\ (nextId_' = 0 \/ nextId_' < numThreads_)
<1>1. numThreads_ \in Nat /\ nextId_ \in Nat /\ (nextId_ = 0 \/ nextId_ < numThreads_)
  BY ThreadCountsAssumption DEF ThreadCountsAssumption, ServerTypeOK
<1>2. CASE numThreads_ = 0
  BY <1>1, <1>2 DEF Loops
<1>3. CASE numThreads_ # 0
  BY <1>1, <1>3 DEF Loops, NextId
<1> QED  BY <1>2, <1>3

LEMMA NewBegins ==
    ASSUME ServerInv, newConnection
    PROVE  \E c, f : Begins(c, f)
<1>1. PICK c, f, o, l :
         /\ c = Len(conn) + 1 /\ f = connd' /\ l = IF numThreads_ = 0 THEN 0 ELSE nextId_ + 1
         /\ o = [fd |-> f, name |-> nextConnId_, loop_ |-> l,
                 state_ |-> IF numThreads_ = 0 THEN "kConnected" ELSE "kConnecting",
                 channel_ |-> IF numThreads_ = 0 THEN "registered" ELSE "new"]
         /\ nextId_' = IF numThreads_ = 0 THEN nextId_ ELSE NextId
         /\ conn' = Append(conn, o)
         /\ connections_' = [name \in DOMAIN connections_ \cup {nextConnId_} |->
                                IF name = nextConnId_ THEN c ELSE connections_[name]]
         /\ functors' = IF numThreads_ = 0 THEN functors
                        ELSE [functors EXCEPT ![l] =
                                 Append(@, [run |-> "connectEstablished", conn |-> c])]
  BY Zenon DEF newConnection, Queued
<1>2. Accept /\ newConnectionCallback_ /\ nextConnId_' = nextConnId_ + 1
      /\ UNCHANGED <<numThreads_, holders>>
  BY DEF newConnection, NextConnId
<1>3. /\ f \in Fds /\ fds[f] = "free" /\ fds' = [fds EXCEPT ![f] = "connection"]
      /\ pc = "accept" /\ pc' = "poll" /\ connd' = f /\ backlog' = backlog - 1
      /\ UNCHANGED <<socket, idleFd_, raced, failed>>
  BY <1>1, <1>2, LeastFree DEF Accept, Given, ServerInv, ServerTypeOK
<1>4. backlog > 0 /\ nextConnId_ = c
  BY <1>1, <1>3 DEF ServerInv, Counted
<1>5. Len(conn) \in Nat /\ DOMAIN conn = 1 .. Len(conn)
  BY ConnIs DEF ServerInv
<1>6. c \in 1 .. MaxArrivals /\ c \notin DOMAIN conn /\ DOMAIN conn \cup {c} = 1 .. c
  <2>1. Len(conn) + backlog <= arrivals /\ arrivals \in 0 .. MaxArrivals /\ backlog \in 0 .. MaxBacklog
    BY DEF ServerInv, ServerTypeOK, TypeOK, Counted
  <2>2. Len(conn) + 1 <= MaxArrivals
    BY <1>4, <1>5, <2>1, BoundsAssumption DEF BoundsAssumption
  <2> QED  BY <1>1, <1>5, <2>2, BoundsAssumption DEF BoundsAssumption
<1>7. l \in Loops /\ l \in Nat /\ nextId_' \in Nat /\ (nextId_' = 0 \/ nextId_' < numThreads_)
  BY <1>1, NextLoop DEF ServerInv
<1>8. o \in Objects
  BY <1>1, <1>3, <1>4, <1>6, <1>7 DEF Objects
<1>9. /\ conn' \in Seq(Objects) /\ Len(conn') = c /\ DOMAIN conn' = DOMAIN conn \cup {c}
      /\ conn'[c] = o /\ \A d \in DOMAIN conn : conn'[d] = conn[d]
  <2>1. conn \in Seq(Objects) /\ conn' = Append(conn, o)
    BY <1>1 DEF ServerInv, ServerTypeOK
  <2>2. /\ conn' \in Seq(Objects) /\ Len(conn') = Len(conn) + 1
        /\ \A d \in 1 .. Len(conn) : conn'[d] = conn[d]
        /\ conn'[Len(conn) + 1] = o
    BY <1>8, <2>1, AppendProperties
  <2>3. DOMAIN conn' = 1 .. Len(conn')
    BY <2>2, LenProperties
  <2> QED  BY <1>1, <1>5, <1>6, <2>2, <2>3
<1>10. /\ connections_' \in [DOMAIN conn' -> {0} \cup DOMAIN conn'] /\ connections_'[c] = c
       /\ \A d \in DOMAIN conn : connections_'[d] = connections_[d]
  <2>1. DOMAIN connections_ = DOMAIN conn /\ \A d \in DOMAIN conn : connections_[d] \in {0, d}
    BY DEF ServerInv, Named
  <2>2. connections_' = [d \in DOMAIN conn \cup {c} |-> IF d = c THEN c ELSE connections_[d]]
    BY <1>1, <1>4, <2>1
  <2> QED  BY <1>6, <1>9, <2>1, <2>2
<1>11. functors \in [Loops -> Seq(Functors)] /\ None(functors, c)
       /\ \A k \in Loops : \A i \in DOMAIN functors[k] : functors[k][i].conn \in DOMAIN conn
  BY <1>6 DEF ServerInv, ServerTypeOK, FunctorsKnown, None
<1>12. /\ functors' \in [Loops -> Seq(Functors)]
       /\ \A k \in Loops : \A i \in DOMAIN functors'[k] : functors'[k][i].conn \in DOMAIN conn \cup {c}
       /\ \A d \in DOMAIN conn : /\ None(functors, d) => None(functors', d)
                                 /\ \A r : One(functors, d, r) => One(functors', d, r)
       /\ numThreads_ = 0 => None(functors', c)
       /\ numThreads_ # 0 => One(functors', c, "connectEstablished")
  <2>1. CASE numThreads_ = 0
    BY <1>1, <1>11, <2>1
  <2>2. CASE numThreads_ # 0
    <3>1. PICK g : g = [run |-> "connectEstablished", conn |-> c]
      OBVIOUS
    <3>2. g \in Functors /\ g.conn = c /\ g.run = "connectEstablished"
      BY <1>6, <3>1 DEF Functors, Connections
    <3>3. functors' = [functors EXCEPT ![l] = Append(@, g)]
      BY <1>1, <2>2, <3>1
    <3>4. AddedTo(functors, functors', l, g)
      BY <1>7, <1>11, <3>2, <3>3, AppendKeeps
    <3>5. functors' \in [Loops -> Seq(Functors)] /\ One(functors', c, "connectEstablished")
      BY <1>11, <3>2, <3>4 DEF AddedTo
    <3>6. ASSUME NEW d \in DOMAIN conn
          PROVE  /\ None(functors, d) => None(functors', d)
                 /\ \A r : One(functors, d, r) => One(functors', d, r)
      <4>1. d # g.conn
        BY <1>6, <3>2, <3>6
      <4> QED  BY <3>4, <4>1 DEF AddedTo
    <3>7. ASSUME NEW k \in Loops, NEW i \in DOMAIN functors'[k]
          PROVE  functors'[k][i].conn \in DOMAIN conn \cup {c}
      BY <1>11, <3>2, <3>4, <3>7 DEF AddedTo
    <3> QED  BY <2>2, <3>5, <3>6, <3>7
  <2> QED  BY <2>1, <2>2
<1>13. /\ o.fd = f /\ o.name = c /\ o.loop_ = l
       /\ numThreads_ = 0 => o.state_ = "kConnected" /\ o.channel_ = "registered"
       /\ numThreads_ # 0 => o.state_ = "kConnecting" /\ o.channel_ = "new"
  BY <1>1, <1>4
<1>14. \/ /\ conn'[c].state_ = "kConnected" /\ conn'[c].channel_ = "registered"
          /\ None(functors', c)
       \/ /\ conn'[c].state_ = "kConnecting" /\ conn'[c].channel_ = "new"
          /\ One(functors', c, "connectEstablished")
  BY <1>9, <1>12, <1>13
<1>15. \A k \in Loops : \A i \in DOMAIN functors'[k] : functors'[k][i].conn \in DOMAIN conn'
  BY <1>9, <1>12
<1>16. conn'[c].fd = f /\ conn'[c].name = c /\ conn'[c].loop_ \in Loops
  BY <1>7, <1>9, <1>13
<1>17. \A d \in DOMAIN conn : /\ conn'[d] = conn[d] /\ connections_'[d] = connections_[d]
                              /\ None(functors, d) => None(functors', d)
                              /\ \A r : One(functors, d, r) => One(functors', d, r)
  BY <1>9, <1>10, <1>12
<1>18. c = Len(conn) + 1 /\ nextConnId_' = c + 1
  BY <1>1, <1>2, <1>4
<1>19. Begins(c, f)
  BY <1>2, <1>3, <1>4, <1>6, <1>7, <1>9, <1>10, <1>12, <1>14, <1>15, <1>16, <1>17, <1>18
     DEF Begins, Connections
<1> QED  BY <1>19

LEMMA BeginTypes ==
    ASSUME ServerInv, NEW c, NEW f, Begins(c, f)
    PROVE  ServerTypeOK' /\ Named' /\ FunctorsKnown' /\ Counted' /\ AcceptorOwns'
<1>1. Loops' = Loops
  BY DEF Begins, Loops
<1>2. Len(conn) \in Nat /\ DOMAIN conn = 1 .. Len(conn) /\ c \in 1 .. MaxArrivals /\ c = Len(conn) + 1
  BY ConnIs DEF ServerInv, Begins, Connections
<1>3. TypeOK'
  <2>1. /\ UNCHANGED <<acceptSocket_, listenning_, newConnectionCallback_, arrivals, idleFd_, raced, failed>>
        /\ pc' = "poll" /\ connd' = f /\ f \in Fds
    BY DEF Begins, socket
  <2>2. fds' \in [Fds -> Owners]
    BY DEF Begins, ServerInv, ServerTypeOK, TypeOK, Owners
  <2>3. backlog' \in 0 .. MaxBacklog
    BY BoundsAssumption DEF Begins, ServerInv, ServerTypeOK, TypeOK, BoundsAssumption
  <2> QED  BY <2>1, <2>2, <2>3 DEF ServerInv, ServerTypeOK, TypeOK, Locations
<1>4. connections_' \in UNION {[1 .. n -> {0} \cup DOMAIN conn'] : n \in 0 .. MaxArrivals}
  <2>1. DOMAIN conn' = 1 .. c /\ c \in 0 .. MaxArrivals
    BY <1>2 DEF Begins
  <2>2. connections_' \in [1 .. c -> {0} \cup DOMAIN conn']
    BY <2>1 DEF Begins
  <2> QED  BY <2>1, <2>2
<1>5. \A d \in DOMAIN conn' : conn'[d].loop_ \in Loops'
  BY <1>1 DEF Begins, ServerInv, ServerTypeOK
<1>6. ServerTypeOK'
  <2>1. /\ numThreads_' = numThreads_ /\ holders' = holders
        /\ nextId_' \in Nat /\ (nextId_' = 0 \/ nextId_' < numThreads_)
        /\ conn' \in Seq(Objects) /\ functors' \in [Loops -> Seq(Functors)]
        /\ DOMAIN conn \subseteq DOMAIN conn'
    BY DEF Begins
  <2>2. nextConnId_' \in 1 .. MaxArrivals + 1
    BY <1>2, BoundsAssumption DEF Begins, BoundsAssumption
  <2> QED  BY <1>1, <1>3, <1>4, <1>5, <2>1, <2>2
           DEF ServerInv, ServerTypeOK, Functors, Connections, Objects
<1>7. Named'
  BY DEF Begins, ServerInv, Named
<1>8. FunctorsKnown'
  BY <1>1 DEF Begins, FunctorsKnown
<1>9. Counted'
  <2>1. /\ backlog \in Int /\ arrivals \in Int /\ Len(conn) \in Int
        /\ Len(conn) + backlog <= arrivals
    BY <1>2, BoundsAssumption DEF ServerInv, ServerTypeOK, TypeOK, Counted, BoundsAssumption
  <2>2. backlog' = backlog - 1 /\ arrivals' = arrivals /\ Len(conn') = Len(conn) + 1
        /\ pc' = "poll" /\ nextConnId_' = Len(conn') + 1
    BY DEF Begins, socket
  <2>3. Len(conn') + backlog' <= arrivals'
    BY <2>1, <2>2
  <2> QED  BY <2>2, <2>3 DEF Counted
<1>10. AcceptorOwns'
  <2>1. \A g \in Fds : fds[g] = "acceptor" => fds'[g] = "acceptor"
    BY DEF Begins, ServerInv, ServerTypeOK, TypeOK
  <2>2. UNCHANGED <<acceptSocket_, idleFd_, failed>> /\ pc = "accept" /\ pc' = "poll"
    BY DEF Begins, socket
  <2>3. acceptSocket_ \in Fds /\ (idleFd_ # NoFd => idleFd_ \in Fds)
    BY DEF ServerInv, ServerTypeOK, TypeOK
  <2> QED  BY <2>1, <2>2, <2>3 DEF ServerInv, AcceptorOwns
<1> QED  BY <1>6, <1>7, <1>8, <1>9, <1>10

LEMMA BeginLives ==
    ASSUME ServerInv, NEW c, NEW f, Begins(c, f)
    PROVE  /\ Phase(c)' /\ Alive(c)'
           /\ \A d \in DOMAIN conn : Phase(d)' /\ (Alive(d)' <=> Alive(d)) /\ conn'[d] = conn[d]
<1>1. Loops' = Loops /\ holders' = holders
  BY DEF Begins, Loops
<1>2. ServerTypeOK' /\ Named'
  BY BeginTypes
<1>3. c \in DOMAIN conn' /\ DOMAIN conn \subseteq DOMAIN conn' /\ connections_'[c] = c
  BY DEF Begins
<1>4. \A d : /\ None(functors, d)' <=> None(functors', d)
             /\ \A r : One(functors, d, r)' <=> One(functors', d, r)
  BY <1>1 DEF None, One, Only
<1>5. Phase(c)'
  <2>1. Pending(c)' \/ Up(c)'
    BY <1>4 DEF Begins, Pending, Up
  <2> QED  BY <2>1 DEF Phase
<1>6. Alive(c)'
  BY <1>2, <1>3, AliveIsNext DEF Held
<1>7. ASSUME NEW d \in DOMAIN conn
      PROVE  Phase(d)' /\ (Alive(d)' <=> Alive(d)) /\ conn'[d] = conn[d]
  <2>1. Phase(d)
    BY DEF ServerInv, Phases
  <2>2. /\ conn'[d] = conn[d] /\ connections_'[d] = connections_[d]
        /\ None(functors, d) => None(functors', d)
        /\ \A r : One(functors, d, r) => One(functors', d, r)
    BY DEF Begins
  <2>3. Phase(d)'
    BY <1>4, <2>1, <2>2 DEF Phase, Pending, Up, Leaving, Destroying, Removed
  <2>4. Held(d)' <=> Held(d)
    <3>0. \A F, r : One(F, d, r) => ~None(F, d)
      BY DEF One, Only, None
    <3>1. (\E r : One(functors, d, r)) => ~None(functors, d) /\ ~None(functors, d)'
      BY <1>4, <2>2, <3>0
    <3>2. None(functors, d) \/ \E r : One(functors, d, r)
      BY <2>1 DEF Phase, Pending, Up, Leaving, Destroying, Removed
    <3> QED  BY <1>1, <1>4, <2>2, <3>1, <3>2 DEF Held
  <2>5. d \in DOMAIN conn'
    BY <1>3
  <2> QED  BY <1>2, <2>2, <2>3, <2>4, <2>5, AliveIs, AliveIsNext DEF ServerInv
<1> QED  BY <1>5, <1>6, <1>7

LEMMA BeginKeeps ==
    ASSUME ServerInv, NEW c, NEW f, Begins(c, f)
    PROVE  ServerInv' /\ [Abstract!Next]_Abstract!vars
<1>1. /\ Phase(c)' /\ Alive(c)'
      /\ \A d \in DOMAIN conn : Phase(d)' /\ (Alive(d)' <=> Alive(d)) /\ conn'[d] = conn[d]
  BY BeginLives
<1>2. /\ DOMAIN conn' = DOMAIN conn \cup {c} /\ c \notin DOMAIN conn /\ c \in Connections
      /\ conn'[c].fd = f /\ f \in Fds /\ fds[f] = "free" /\ fds' = [fds EXCEPT ![f] = "connection"]
      /\ conn'[c].state_ \in {"kConnected", "kConnecting"}
  BY DEF Begins
<1>3. Phases'
  BY <1>1, <1>2 DEF Phases
<1>4. /\ fds \in [Fds -> Owners]
      /\ \A d \in DOMAIN conn : conn[d].fd \in Fds
      /\ \A d \in DOMAIN conn : Alive(d) => fds[conn[d].fd] = "connection"
      /\ \A d, e \in DOMAIN conn : Alive(d) /\ Alive(e) /\ conn[d].fd = conn[e].fd => d = e
      /\ \A g \in Fds : fds[g] = "connection" => \E d \in DOMAIN conn : Alive(d) /\ conn[d].fd = g
  BY ConnIs DEF ServerInv, ServerTypeOK, TypeOK, ConnectionsOwn, Objects
<1>5. ConnectionsOwn'
  <2>1. \A d \in DOMAIN conn : Alive(d) => conn[d].fd # f
    BY <1>2, <1>4
  <2>2. \A d \in DOMAIN conn' : Alive(d)' => fds'[conn'[d].fd] = "connection"
    BY <1>1, <1>2, <1>4
  <2>3. \A d, e \in DOMAIN conn' : Alive(d)' /\ Alive(e)' /\ conn'[d].fd = conn'[e].fd => d = e
    BY <1>1, <1>2, <1>4, <2>1
  <2>4. ASSUME NEW g \in Fds, fds'[g] = "connection"
        PROVE  \E d \in DOMAIN conn' : Alive(d)' /\ conn'[d].fd = g
    <3>1. CASE g = f
      BY <1>1, <1>2, <3>1
    <3>2. CASE g # f
      BY <1>1, <1>2, <1>4, <2>4, <3>2
    <3> QED  BY <3>1, <3>2
  <2> QED  BY <2>2, <2>3, <2>4 DEF ConnectionsOwn
<1>6. ServerInv'
  BY <1>3, <1>5, BeginTypes DEF ServerInv
<1> DEFINE life == [d \in Connections |-> Life(d)]
           living == {d \in DOMAIN conn : Alive(d)}
           descriptor == [d \in living |-> conn[d].fd]
           open == {g \in Fds : fds[g] = "connection"}
<1>7. Abstract!Goes(c, {"none"}, "accepted") \/ Abstract!Goes(c, {"none"}, "up")
  <2>1. \A d \in Connections \ {c} : Life(d)' = Life(d)
    BY <1>1, <1>2 DEF Life
  <2>2. Life(c) = "none" /\ Life(c)' \in {"accepted", "up"}
    BY <1>1, <1>2 DEF Life
  <2>3. life' = [life EXCEPT ![c] = Life(c)'] /\ life[c] = Life(c)
    BY <1>2, <2>1 DEF Connections
  <2> QED  BY <2>2, <2>3 DEF Abstract!Goes
<1>8. descriptor' = [d \in DOMAIN descriptor \cup {c} |-> IF d = c THEN f ELSE descriptor[d]]
  <2>1. living' = living \cup {c} /\ c \notin living
    BY <1>1, <1>2
  <2>2. \A d \in living : conn'[d].fd = conn[d].fd
    BY <1>1
  <2> QED  BY <1>2, <2>1, <2>2
<1>9. f \notin open /\ open' = open \cup {f}
  BY <1>2, <1>4
<1>10. Abstract!Begin(c, f)
  BY <1>7, <1>8, <1>9 DEF Abstract!Begin
<1>11. Abstract!Next
  BY <1>2, <1>10 DEF Abstract!Next
<1> QED  BY <1>6, <1>11

-----------------------------------------------------------------------------
LEMMA ServerStarts ==
    ASSUME ServerInit
    PROVE  ServerInv /\ Abstract!Init
<1>1. /\ fds = [f \in Fds |-> IF f \in {0, 1} THEN "acceptor" ELSE "free"]
      /\ acceptSocket_ = 0 /\ idleFd_ = 1 /\ connd = NoFd /\ listenning_ = FALSE
      /\ newConnectionCallback_ \in BOOLEAN /\ backlog = 0 /\ arrivals = 0 /\ pc = "poll"
      /\ raced = FALSE /\ failed = FALSE
      /\ numThreads_ \in {0} \cup ThreadCounts /\ nextId_ = 0 /\ nextConnId_ = 1
      /\ connections_ = << >> /\ conn = << >> /\ functors = [l \in Loops |-> << >>] /\ holders = {}
  BY DEF ServerInit, Init
<1>2. DOMAIN conn = {} /\ Len(conn) = 0 /\ conn \in Seq(Objects)
  BY <1>1
<1>3. TypeOK
  BY <1>1, FdsAssumption, BoundsAssumption
     DEF TypeOK, Owners, Locations, FdsAssumption, BoundsAssumption
<1>4. connections_ \in UNION {[1 .. n -> {0} \cup DOMAIN conn] : n \in 0 .. MaxArrivals}
  <2>1. connections_ \in [1 .. 0 -> {0} \cup DOMAIN conn]
    BY <1>1
  <2> QED  BY <2>1, BoundsAssumption DEF BoundsAssumption
<1>5. functors \in [Loops -> Seq(Functors)] /\ \A l \in Loops : DOMAIN functors[l] = {}
  BY <1>1
<1>6. ServerTypeOK
  <2>1. /\ numThreads_ \in {0} \cup ThreadCounts /\ nextId_ \in Nat /\ nextId_ = 0
        /\ holders \subseteq DOMAIN conn
    BY <1>1
  <2>2. nextConnId_ \in 1 .. MaxArrivals + 1
    BY <1>1, BoundsAssumption DEF BoundsAssumption
  <2>3. \A c \in DOMAIN conn : conn[c].loop_ \in Loops
    BY <1>2
  <2> QED  BY <1>2, <1>3, <1>4, <1>5, <2>1, <2>2, <2>3 DEF ServerTypeOK
<1>7. AcceptorOwns /\ Counted
  BY <1>1, <1>2, FdsAssumption DEF AcceptorOwns, Counted, FdsAssumption
<1>8. Named /\ FunctorsKnown /\ Phases /\ ConnectionsOwn
  BY <1>1, <1>2, <1>5 DEF Named, FunctorsKnown, Phases, ConnectionsOwn
<1>9. ServerInv
  BY <1>6, <1>7, <1>8 DEF ServerInv
<1>10. Abstract!Init
  <2>1. \A c \in Connections : Life(c) = "none"
    BY <1>2 DEF Life
  <2>2. [c \in Connections |-> Life(c)] = [c \in Connections |-> "none"]
    BY <2>1
  <2>3. [c \in {d \in DOMAIN conn : Alive(d)} |-> conn[c].fd] = << >>
    BY <1>2
  <2>4. {f \in Fds : fds[f] = "connection"} = {}
    BY <1>1
  <2> QED  BY <2>2, <2>3, <2>4 DEF Abstract!Init
<1> QED  BY <1>9, <1>10

LEMMA ServerKeeps ==
    ASSUME ServerInv, [ServerNext]_allVars
    PROVE  ServerInv' /\ [Abstract!Next]_Abstract!vars
<1>1. CASE AcceptorStep /\ UNCHANGED server
  <2>1. listen \/ poll \/ ReadStep \/ destroy
    BY <1>1 DEF AcceptorStep
  <2> QED  BY <1>1, <2>1, AcceptorAside, AsideKeeps
<1>2. CASE OtherStep /\ UNCHANGED server
  BY <1>2, OtherAside, AsideKeeps
<1>3. CASE newConnection
  <2>1. PICK c, f : Begins(c, f)
    BY <1>3, NewBegins
  <2> QED  BY <2>1, BeginKeeps
<1>4. ASSUME NEW l \in Loops, RunFunctor(l)
      PROVE  ServerInv' /\ [Abstract!Next]_Abstract!vars
  BY <1>4, RunFunctorKeeps
<1>5. ASSUME NEW c \in DOMAIN conn, ConnectionStep(c)
      PROVE  ServerInv' /\ [Abstract!Next]_Abstract!vars
  BY <1>5, CloseKeeps, ShareKeeps, ReleaseKeeps DEF ConnectionStep
<1>6. CASE UNCHANGED allVars
  <2>1. Aside
    BY <1>6 DEF allVars, vars, socket, Aside, ServerInv, ServerTypeOK, TypeOK, AcceptorOwns, Counted
  <2> QED  BY <1>6, <2>1, AsideKeeps DEF allVars
<1> QED  BY <1>1, <1>2, <1>3, <1>4, <1>5, <1>6 DEF ServerNext

LEMMA Invariance == ServerSpec => []ServerInv
<1>1. ServerInit => ServerInv
  BY ServerStarts
<1>2. ServerInv /\ [ServerNext]_allVars => ServerInv'
  BY ServerKeeps
<1> QED  BY <1>1, <1>2, PTL DEF ServerSpec

(* The map holds only connections that were made, each belongs to a loop   *)
(* that exists, and the queues of the loops hold functors about them.      *)
THEOREM TypeCorrect == ServerSpec => []ServerTypeOK
<1>1. ServerInv => ServerTypeOK
  BY DEF ServerInv
<1> QED  BY <1>1, Invariance, PTL

(* A descriptor that a poller watches belongs to one connection, which     *)
(* exists, although the channel is removed in the connection's loop and    *)
(* the map's entry is erased in the base loop; and handleRead closes only  *)
(* what is the acceptor's, although other threads open files meanwhile.    *)
THEOREM DescriptorsAreOwned == ServerSpec => []DescriptorsOwned
<1>1. ServerInv => DescriptorsOwned
  <2> SUFFICES ASSUME ServerInv PROVE DescriptorsOwned
    OBVIOUS
  <2>1. ClosesOwn
    BY DEF ServerInv, AcceptorOwns, ClosesOwn
  <2>2. \A c \in DOMAIN conn : conn[c].channel_ = "registered" => Alive(c)
    BY AlivePhase DEF Removed
  <2> QED  BY <2>1, <2>2 DEF ServerInv, ConnectionsOwn, DescriptorsOwned
<1> QED  BY <1>1, Invariance, PTL

(* Every step of acceptor, map, queues and descriptor table is a step in   *)
(* the life of one connection, or none: a connection gets a descriptor     *)
(* that no other has, comes up and goes down once, and its end and the     *)
(* close of its descriptor are the same step.                              *)
THEOREM ServerImplementsLives == ServerSpec => LifeSpec
<1>1. ServerInit => Abstract!Init
  BY ServerStarts
<1>2. ServerInv /\ [ServerNext]_allVars => [Abstract!Next]_Abstract!vars
  BY ServerKeeps
<1> QED  BY <1>1, <1>2, Invariance, PTL DEF ServerSpec, LifeSpec, Abstract!Spec
=============================================================================
