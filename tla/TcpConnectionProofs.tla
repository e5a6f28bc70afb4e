------------------------- MODULE TcpConnectionProofs -------------------------
(***************************************************************************)
(* The life and the data of a connection, for any number of threads that   *)
(* use it, any lengths of messages and any send buffer, in an I/O loop of  *)
(* its own or in the base loop.                                            *)
(***************************************************************************)
EXTENDS TcpConnection, SequenceTheorems, TLAPS

(* The functors that take the connection from one part of its life to the  *)
(* next, and those that hold a plain this.                                 *)
Steps == {"connectEstablished", "connectDestroy"}
Plain == {"sendInLoop", "shutdownInLoop"}

NoStep(q) == \A i \in DOMAIN q : q[i].run \notin Steps
NoPlain(q) == \A i \in DOMAIN q : q[i].run \notin Plain

(* connectDestroy is queued once, and nothing with a plain this behind it. *)
DestroyAt(q, d) == q[d].run = "connectDestroy" /\ \A i \in DOMAIN q \ {d} : q[i].run \notin Steps
NoPlainBehind(q, d) == \A i \in DOMAIN q : i > d => q[i].run \notin Plain
Destroys(q, l) == \E d \in DOMAIN q : DestroyAt(q, d) /\ (l \/ NoPlainBehind(q, d))
DestroyQueued == Destroys(ioQueue, late)

Calls0 == holders = {} /\ \A t \in Users : calls[t] = Idle

(* Before connectEstablished.                                              *)
Untouched ==
    /\ channel_ = "new" /\ events_ = {} /\ ~muted /\ outputBuffer_ = << >>
    /\ baseQueue = << >> /\ pc = "idle" /\ Calls0
    /\ notified = [up |-> 0, down |-> 0]

Unborn == state_ = "none" /\ ~connections_ /\ ioQueue = << >> /\ Untouched

Connecting ==
    /\ state_ = "kConnecting" /\ connections_ /\ ioQueue = <<[run |-> "connectEstablished"]>>
    /\ Untouched

Open ==
    /\ state_ \in {"kConnected", "kDisconnecting"} /\ channel_ = "registered" /\ ~muted
    /\ "read" \in events_ /\ connections_ /\ baseQueue = << >> /\ NoStep(ioQueue)
    /\ notified = [up |-> 1, down |-> 0]

(* After handleClose: removeConnectionInLoop, then connectDestroy is       *)
(* queued, and then neither.                                               *)
Leaving ==
    /\ channel_ = "registered" /\ connections_
    /\ baseQueue = <<"removeConnectionInLoop">> /\ NoStep(ioQueue)

Destroying == channel_ = "registered" /\ ~connections_ /\ baseQueue = << >> /\ DestroyQueued

Gone ==
    /\ channel_ = "removed" /\ ~connections_ /\ baseQueue = << >> /\ NoStep(ioQueue)
    /\ late \/ SameLoop \/ NoPlain(ioQueue)

Closed ==
    /\ state_ \in {"kDisconnected", "kDisconnecting"} /\ muted /\ "read" \notin events_
    /\ notified = [up |-> 1, down |-> 1]
    /\ Leaving \/ Destroying \/ Gone

(* The I/O loop leaves a connection alone that it has not polled since it  *)
(* was closed.                                                             *)
Polled ==
    /\ pc = "idle" => revents = {}
    /\ pc = "reported" \/ "in" \in revents => Open

Life == (Unborn \/ Connecting \/ Open \/ Closed) /\ Polled

Data == InOrder /\ ShutdownAfterData /\ WritingMatchesBuffer

LifeInv == OutlivesUse /\ LifecycleOrdered /\ (Running => Life)

ConnInv == TypeOK /\ Data /\ LifeInv

-----------------------------------------------------------------------------
(* Bytes in order.                                                         *)

Bytes == Nat \ {0}

(* The bytes of s are numbered from k + 1.                                 *)
Counts(s, k) == \A i \in 1 .. Len(s) : s[i] = k + i

LEMMA NumberedIs ==
    ASSUME NEW first \in Nat, first > 0, NEW last \in Nat, first <= last + 1
    PROVE  /\ Numbered(first, last) \in Seq(Bytes)
           /\ Len(Numbered(first, last)) = last - first + 1
           /\ \A i \in 1 .. last - first + 1 : Numbered(first, last)[i] = first + i - 1
<1> DEFINE n == last - first + 1
<1>1. n \in Nat /\ \A i \in 1 .. n : first + i - 1 \in Bytes
  BY DEF Bytes
<1>2. [i \in 1 .. n |-> first + i - 1] \in [1 .. n -> Bytes]
  BY <1>1
<1>3. [i \in 1 .. n |-> first + i - 1] \in Seq(Bytes)
  BY <1>1, <1>2
<1>4. Len([i \in 1 .. n |-> first + i - 1]) = n
  BY <1>1, <1>2
<1> QED  BY <1>1, <1>3, <1>4 DEF Numbered

(* InOrder, sequence by sequence.                                          *)
LEMMA InOrderIs ==
    ASSUME NEW w \in Seq(Bytes), NEW o \in Seq(Bytes), NEW k \in Nat
    PROVE  w \o o = Numbered(1, k) <=> Len(w) + Len(o) = k /\ Counts(w, 0) /\ Counts(o, Len(w))
<1> DEFINE n == Len(w) + Len(o)
<1>1. /\ Len(w) \in Nat /\ Len(o) \in Nat /\ n \in Nat
      /\ w \o o \in Seq(Bytes) /\ Len(w \o o) = n
      /\ \A i \in 1 .. n : (w \o o)[i] = IF i <= Len(w) THEN w[i] ELSE o[i - Len(w)]
  BY ConcatProperties, LenProperties
<1>2. /\ Numbered(1, n) \in Seq(Bytes) /\ Len(Numbered(1, n)) = n
      /\ \A i \in 1 .. n : Numbered(1, n)[i] = i
  <2>1. n \in Nat /\ 1 > 0 /\ 1 <= n + 1 /\ n - 1 + 1 = n /\ \A i \in 1 .. n : 1 + i - 1 = i
    BY <1>1
  <2> HIDE DEF n
  <2>2. /\ Numbered(1, n) \in Seq(Bytes) /\ Len(Numbered(1, n)) = n - 1 + 1
        /\ \A i \in 1 .. n - 1 + 1 : Numbered(1, n)[i] = 1 + i - 1
    BY <2>1, NumberedIs
  <2> QED  BY <2>1, <2>2
<1> HIDE DEF n
<1>3. w \o o = Numbered(1, n) <=> \A i \in 1 .. n : (w \o o)[i] = i
  <2>1. ASSUME \A i \in 1 .. n : (w \o o)[i] = i PROVE w \o o = Numbered(1, n)
    <3>1. \A i \in 1 .. Len(w \o o) : (w \o o)[i] = Numbered(1, n)[i]
      BY <1>1, <1>2, <2>1
    <3> QED  BY <1>1, <1>2, <3>1, SeqEqual
  <2> QED  BY <1>2, <2>1
<1>4. (\A i \in 1 .. n : (w \o o)[i] = i) <=> Counts(w, 0) /\ Counts(o, Len(w))
  <2>0. n = Len(w) + Len(o)
    BY DEF n
  <2>1. ASSUME \A i \in 1 .. n : (w \o o)[i] = i PROVE Counts(w, 0) /\ Counts(o, Len(w))
    <3>1. \A i \in 1 .. Len(w) : i \in 1 .. n /\ i <= Len(w) /\ 0 + i = i
      BY <1>1, <2>0
    <3>2. \A i \in 1 .. Len(o) : Len(w) + i \in 1 .. n /\ ~(Len(w) + i <= Len(w))
                                 /\ (Len(w) + i) - Len(w) = i
      BY <1>1, <2>0
    <3> QED  BY <1>1, <2>1, <3>1, <3>2 DEF Counts
  <2>2. ASSUME Counts(w, 0), Counts(o, Len(w)), NEW i \in 1 .. n
        PROVE  (w \o o)[i] = i
    <3>1. CASE i <= Len(w)
      BY <1>1, <2>2, <3>1 DEF Counts
    <3>2. CASE ~(i <= Len(w))
      <4>1. i - Len(w) \in 1 .. Len(o) /\ Len(w) + (i - Len(w)) = i
        BY <1>1, <2>0, <3>2
      <4> QED  BY <1>1, <2>2, <3>2, <4>1 DEF Counts
    <3> QED  BY <3>1, <3>2
  <2> QED  BY <2>1, <2>2
<1>5. w \o o = Numbered(1, k) => n = k
  <2>1. Len(Numbered(1, k)) = k
    <3>1. 1 \in Nat /\ 1 > 0 /\ 1 <= k + 1 /\ k - 1 + 1 = k
      OBVIOUS
    <3> QED  BY <3>1, NumberedIs
  <2> QED  BY <1>1, <2>1
<1>6. n = Len(w) + Len(o)
  BY DEF n
<1> QED  BY <1>3, <1>4, <1>5, <1>6

(* What continues the numbering of s is appended to it.                    *)
LEMMA NextBytes ==
    ASSUME NEW s \in Seq(Bytes), NEW k \in Nat, Counts(s, k),
           NEW first \in Nat, NEW last \in Nat, first = k + Len(s) + 1, first <= last + 1
    PROVE  /\ s \o Numbered(first, last) \in Seq(Bytes)
           /\ Len(s \o Numbered(first, last)) = last - k
           /\ Counts(s \o Numbered(first, last), k)
<1> DEFINE m == Numbered(first, last)
<1>0. Len(s) \in Nat /\ first > 0
  BY LenProperties
<1>1. /\ m \in Seq(Bytes) /\ Len(m) = last - first + 1
      /\ \A i \in 1 .. last - first + 1 : m[i] = first + i - 1
  BY <1>0, NumberedIs
<1> HIDE DEF m
<1>2. /\ s \o m \in Seq(Bytes) /\ Len(s \o m) = Len(s) + Len(m)
      /\ \A i \in 1 .. Len(s) + Len(m) : (s \o m)[i] = IF i <= Len(s) THEN s[i] ELSE m[i - Len(s)]
  BY <1>1, ConcatProperties
<1>3. Len(s) + Len(m) = last - k
  BY <1>0, <1>1
<1>4. ASSUME NEW i \in 1 .. last - k PROVE (s \o m)[i] = k + i
  <2>1. CASE i <= Len(s)
    BY <1>0, <1>2, <1>3, <2>1 DEF Counts
  <2>2. CASE ~(i <= Len(s))
    <3>1. i - Len(s) \in 1 .. last - first + 1 /\ first + (i - Len(s)) - 1 = k + i
      BY <1>0, <1>1, <1>3, <2>2
    <3> QED  BY <1>0, <1>1, <1>2, <1>3, <2>2, <3>1
  <2> QED  BY <2>1, <2>2
<1> QED  BY <1>2, <1>3, <1>4 DEF m, Counts

(* What of the types these proofs use.                                     *)
DataTypes ==
    /\ wire \in Seq(Bytes) /\ outputBuffer_ \in Seq(Bytes) /\ taken \in Nat
    /\ socket_ \in Sockets /\ events_ \in SUBSET {"read", "write"}

LEMMA BytesInOrder ==
    ASSUME DataTypes
    PROVE  InOrder <=> /\ Len(wire) + Len(outputBuffer_) = taken
                       /\ Counts(wire, 0) /\ Counts(outputBuffer_, Len(wire))
BY InOrderIs DEF DataTypes, InOrder

LEMMA BytesInOrderNext ==
    ASSUME DataTypes'
    PROVE  InOrder' <=> /\ Len(wire') + Len(outputBuffer_') = taken'
                        /\ Counts(wire', 0) /\ Counts(outputBuffer_', Len(wire'))
BY InOrderIs DEF DataTypes, InOrder, Numbered

(* The kernel takes at most what it has room for.                          *)
LEMMA WriteCountIs ==
    ASSUME socket_ \in Sockets, NEW n \in Nat
    PROVE  /\ WriteCount(n) \in -1 .. n /\ WriteCount(n) <= socket_.room
           /\ WriteCount(n) >= 0 => ~Broken
BY SizesAssumption DEF SizesAssumption, Sockets, WriteCount, Broken

LEMMA TakenKeepsData ==
    ASSUME DataTypes, Data, NEW n \in Bytes, NEW q, Taken(n, q)
    PROVE  DataTypes' /\ Data'
<1> DEFINE nwrote == IF sendDirectly THEN WriteCount(n) ELSE 0
           A == taken
<1>1. /\ nwrote >= 0
      /\ wire' = wire \o Numbered(A + 1, A + nwrote)
      /\ socket_' = Took(nwrote)
      /\ outputBuffer_' = outputBuffer_ \o Numbered(A + (nwrote + 1), A + n)
      /\ events_' = WatchedFor(n - nwrote)
      /\ taken' = A + n
  BY DEF Taken, Message, Rest
<1>2. nwrote \in 0 .. n /\ nwrote <= socket_.room /\ n \in Nat /\ n > 0
      /\ (~sendDirectly => nwrote = 0) /\ (sendDirectly => ~Broken)
  <2>1. n \in Nat /\ n > 0 /\ nwrote >= 0 /\ socket_ \in Sockets /\ socket_.room \in Nat
    BY <1>1, SizesAssumption DEF DataTypes, Bytes, Sockets, SizesAssumption
  <2>2. WriteCount(n) \in -1 .. n /\ WriteCount(n) <= socket_.room /\ (WriteCount(n) >= 0 => ~Broken)
    BY <2>1, WriteCountIs
  <2> QED  BY <2>1, <2>2
<1> HIDE DEF nwrote
<1>3. Len(wire) \in Nat /\ Len(outputBuffer_) \in Nat /\ A = Len(wire) + Len(outputBuffer_)
  <2>1. Len(wire) \in Nat /\ Len(outputBuffer_) \in Nat
    BY LenProperties DEF DataTypes
  <2>2. Len(wire) + Len(outputBuffer_) = taken
    BY BytesInOrder DEF Data
  <2> QED  BY <2>1, <2>2
<1>4. Counts(wire, 0) /\ Counts(outputBuffer_, Len(wire))
  BY BytesInOrder DEF Data
<1> HIDE DEF A
<1>5. /\ A \in Nat /\ A + nwrote \in Nat /\ A + n \in Nat /\ A + 1 \in Nat /\ A + nwrote + 1 \in Nat
      /\ A + (nwrote + 1) = A + nwrote + 1
  BY <1>2, <1>3
<1>6. wire' \in Seq(Bytes) /\ Len(wire') = Len(wire) + nwrote /\ Counts(wire', 0)
  <2>1. CASE sendDirectly
    <3>1. A = Len(wire)
      BY <1>3, <2>1, EmptySeq DEF sendDirectly
    <3>2. A + 1 <= A + nwrote + 1 /\ A + 1 = 0 + Len(wire) + 1 /\ 0 \in Nat
      BY <1>2, <1>3, <3>1
    <3> DEFINE first == A + 1
               last == A + nwrote
    <3>3. wire' = wire \o Numbered(first, last) /\ first \in Nat /\ last \in Nat
          /\ first <= last + 1 /\ first = 0 + Len(wire) + 1 /\ wire \in Seq(Bytes)
      BY <1>1, <1>5, <3>2 DEF DataTypes
    <3> HIDE DEF first, last
    <3>4. /\ wire' \in Seq(Bytes) /\ Len(wire') = last - 0 /\ Counts(wire', 0)
      BY <1>4, <3>3, NextBytes
    <3> QED  BY <1>2, <1>3, <3>1, <3>4 DEF last
  <2>2. CASE ~sendDirectly
    <3>1. nwrote = 0 /\ A + nwrote = A
      BY <1>2, <1>5, <2>2
    <3>2. Numbered(A + 1, A) = << >>
      <4>1. A + 1 > 0 /\ A + 1 <= A + 1 /\ A - (A + 1) + 1 = 0
        BY <1>5
      <4>2. Numbered(A + 1, A) \in Seq(Bytes) /\ Len(Numbered(A + 1, A)) = 0
        BY <1>5, <4>1, NumberedIs
      <4> QED  BY <4>2, EmptySeq
    <3>3. wire' = wire
      BY <1>1, <3>1, <3>2, ConcatEmptySeq DEF DataTypes
    <3> QED  BY <1>3, <1>4, <3>1, <3>3 DEF DataTypes
  <2> QED  BY <2>1, <2>2
<1>7. /\ outputBuffer_' \in Seq(Bytes) /\ Len(outputBuffer_') = Len(outputBuffer_) + n - nwrote
      /\ Counts(outputBuffer_', Len(wire'))
  <2>1. Len(wire') \in Nat /\ Counts(outputBuffer_, Len(wire'))
    <3>1. CASE sendDirectly
      BY <1>2, <1>3, <1>6, <3>1, EmptySeq DEF sendDirectly, Counts
    <3>2. CASE ~sendDirectly
      BY <1>2, <1>3, <1>4, <1>6, <3>2
    <3> QED  BY <3>1, <3>2
  <2>2. A + nwrote + 1 <= A + n + 1 /\ A + nwrote + 1 = Len(wire') + Len(outputBuffer_) + 1
    BY <1>2, <1>3, <1>6
  <2> DEFINE first == A + nwrote + 1
             last == A + n
             k == Len(wire')
  <2>3. outputBuffer_' = outputBuffer_ \o Numbered(first, last) /\ first \in Nat /\ last \in Nat
        /\ first <= last + 1 /\ first = k + Len(outputBuffer_) + 1 /\ k \in Nat
        /\ outputBuffer_ \in Seq(Bytes) /\ Counts(outputBuffer_, k)
    BY <1>1, <1>5, <2>1, <2>2 DEF DataTypes
  <2>4. last - k = Len(outputBuffer_) + n - nwrote
    BY <1>2, <1>3, <1>6
  <2> HIDE DEF first, last, k
  <2>5. outputBuffer_' \in Seq(Bytes) /\ Len(outputBuffer_') = last - k /\ Counts(outputBuffer_', k)
    BY <2>3, NextBytes
  <2> QED  BY <2>4, <2>5 DEF k
<1>8. DataTypes'
  <2>1. socket_' \in Sockets
    <3>1. socket_ \in Sockets /\ socket_.room \in 0 .. SendBuffer /\ SendBuffer \in Nat
      BY SizesAssumption DEF DataTypes, Sockets, SizesAssumption
    <3>2. socket_.room - nwrote \in 0 .. SendBuffer
      BY <1>2, <3>1
    <3> QED  BY <1>1, <3>1, <3>2 DEF Took, Sockets
  <2>2. events_' \in SUBSET {"read", "write"}
    BY <1>1 DEF WatchedFor, DataTypes
  <2>3. taken' \in Nat
    BY <1>1, <1>5
  <2> QED  BY <1>6, <1>7, <2>1, <2>2, <2>3 DEF DataTypes
<1>9. InOrder'
  <2>1. taken' = A + n /\ A = Len(wire) + Len(outputBuffer_)
    BY <1>1, <1>3
  <2>2. Len(wire') + Len(outputBuffer_') = Len(wire) + nwrote + (Len(outputBuffer_) + n - nwrote)
    BY <1>6, <1>7
  <2>3. Len(wire') + Len(outputBuffer_') = taken'
    BY <1>2, <1>3, <2>1, <2>2
  <2> QED  BY <1>6, <1>7, <1>8, <2>3, BytesInOrderNext
<1>10. "read" \in events_' => "read" \in events_
  BY <1>1 DEF WatchedFor
<1>11. WritingMatchesBuffer'
  <2>1. CASE n = nwrote
    <3>1. sendDirectly /\ ~Writing /\ outputBuffer_ = << >> /\ events_' = events_
      BY <1>1, <1>2, <2>1 DEF WatchedFor, sendDirectly
    <3>2. outputBuffer_' = << >>
      BY <1>2, <1>7, <2>1, <3>1, EmptySeq
    <3> QED  BY <3>1, <3>2 DEF WritingMatchesBuffer, Writing
  <2>2. CASE n # nwrote
    <3>1. n - nwrote > 0
      BY <1>2, <2>2
    <3>2. "write" \in events_'
      BY <1>1, <3>1 DEF WatchedFor
    <3>3. Len(outputBuffer_') > 0
      BY <1>2, <1>3, <1>7, <3>1
    <3> QED  BY <3>2, <3>3, EmptySeq DEF WritingMatchesBuffer, Writing
  <2> QED  BY <2>1, <2>2
<1>12. ShutdownAfterData'
  <2>1. socket_'.fin = socket_.fin
    BY <1>1 DEF Took, DataTypes, Sockets
  <2>2. ~(socket_.fin /\ "read" \in events_)
    BY <1>2 DEF Data, ShutdownAfterData, WritingMatchesBuffer, sendDirectly, Broken
  <2> QED  BY <1>10, <2>1, <2>2 DEF ShutdownAfterData
<1> QED  BY <1>8, <1>9, <1>11, <1>12 DEF Data

LEMMA WriteSomeKeepsData ==
    ASSUME DataTypes, Data, WriteSome, UNCHANGED taken
    PROVE  DataTypes' /\ Data'
<1> DEFINE len == Len(outputBuffer_)
           n == WriteCount(len)
<1>1. /\ Writing /\ n > 0
      /\ wire' = wire \o SubSeq(outputBuffer_, 1, n)
      /\ outputBuffer_' = SubSeq(outputBuffer_, n + 1, len)
      /\ events_' = WatchedAfter(n = len)
      /\ socket_' = IF FinishesShutdown(n = len) THEN ShutDown(Took(n), FALSE) ELSE Took(n)
  BY DEF WriteSome
<1>2. /\ len \in Nat /\ n \in 1 .. len /\ n <= socket_.room /\ ~Broken
      /\ DOMAIN outputBuffer_ = 1 .. len
  <2>1. len \in Nat /\ DOMAIN outputBuffer_ = 1 .. len
    BY LenProperties DEF DataTypes
  <2> HIDE DEF len
  <2>2. n \in -1 .. len /\ n <= socket_.room /\ (n >= 0 => ~Broken)
    BY <2>1, WriteCountIs DEF DataTypes
  <2> QED  BY <1>1, <2>1, <2>2
<1> HIDE DEF n
<1>3. /\ Counts(wire, 0) /\ Counts(outputBuffer_, Len(wire)) /\ Len(wire) \in Nat
      /\ Len(wire) + len = taken
  BY BytesInOrder, LenProperties DEF Data, DataTypes
<1> DEFINE sent == SubSeq(outputBuffer_, 1, n)
<1>4. \A i \in 1 .. len : outputBuffer_[i] \in Bytes /\ outputBuffer_[i] = Len(wire) + i
  BY <1>2, <1>3, ElementOfSeq DEF Counts, DataTypes
<1>5. sent \in Seq(Bytes) /\ Len(sent) = n /\ \A i \in 1 .. n : sent[i] = Len(wire) + i
  <2>1. \A i \in 1 .. n : i \in 1 .. len
    BY <1>2
  <2>2. 1 \in Int /\ n \in Int /\ 1 <= n /\ n - 1 + 1 = n /\ \A i \in 1 .. n : 1 + i - 1 = i
    BY <1>2
  <2>3. \A i \in 1 .. n : outputBuffer_[i] \in Bytes
    BY <1>4, <2>1
  <2>4. /\ sent \in Seq(Bytes) /\ Len(sent) = n - 1 + 1
        /\ \A i \in 1 .. n - 1 + 1 : sent[i] = outputBuffer_[1 + i - 1]
    BY <2>2, <2>3, SubSeqProperties
  <2> QED  BY <1>4, <2>1, <2>2, <2>4
<1>6. /\ outputBuffer_' \in Seq(Bytes) /\ Len(outputBuffer_') = len - n
      /\ \A i \in 1 .. len - n : outputBuffer_'[i] = Len(wire) + n + i
  <2> DEFINE m == n + 1
  <2>0. outputBuffer_' = SubSeq(outputBuffer_, m, len)
    BY <1>1
  <2>1. n \in Nat /\ len \in Nat /\ 1 <= n /\ n <= len
    BY <1>2
  <2> HIDE DEF len
  <2>2. m \in Int /\ len \in Int /\ (IF m <= len THEN len - m + 1 ELSE 0) = len - n
        /\ len - m + 1 = len - n
    BY <2>1
  <2>3. \A i \in m .. len : outputBuffer_[i] \in Bytes
    BY <1>4, <2>1
  <2>4. outputBuffer_' = SubSeq(outputBuffer_, m, len)
    BY <2>0
  <2> HIDE DEF m
  <2>5. /\ outputBuffer_' \in Seq(Bytes)
        /\ Len(outputBuffer_') = IF m <= len THEN len - m + 1 ELSE 0
        /\ \A i \in 1 .. len - m + 1 : outputBuffer_'[i] = outputBuffer_[m + i - 1]
    BY <2>2, <2>3, <2>4, SubSeqProperties
  <2>6. \A i \in 1 .. len - n : m + i - 1 \in 1 .. len /\ Len(wire) + (m + i - 1) = Len(wire) + n + i
    BY <1>2, <1>3 DEF m
  <2> QED  BY <1>4, <2>2, <2>5, <2>6
<1> HIDE DEF sent
<1>7. /\ wire' \in Seq(Bytes) /\ Len(wire') = Len(wire) + n
      /\ \A i \in 1 .. Len(wire) + n : wire'[i] = i
  <2>1. /\ wire' \in Seq(Bytes) /\ Len(wire') = Len(wire) + n
        /\ \A i \in 1 .. Len(wire) + n :
              wire'[i] = IF i <= Len(wire) THEN wire[i] ELSE sent[i - Len(wire)]
    BY <1>1, <1>5, ConcatProperties DEF DataTypes, sent
  <2>2. ASSUME NEW i \in 1 .. Len(wire) + n PROVE wire'[i] = i
    <3>1. CASE i <= Len(wire)
      BY <1>2, <1>3, <2>1, <3>1 DEF Counts
    <3>2. CASE ~(i <= Len(wire))
      <4>1. i - Len(wire) \in 1 .. n /\ Len(wire) + (i - Len(wire)) = i
        BY <1>2, <1>3, <3>2
      <4> QED  BY <1>5, <2>1, <3>2, <4>1
    <3> QED  BY <3>1, <3>2
  <2> QED  BY <2>1, <2>2
<1>8. socket_' \in Sockets /\ (socket_'.fin => n = len)
  <2>1. socket_ \in Sockets /\ socket_.room \in 0 .. SendBuffer /\ SendBuffer \in Nat /\ ~socket_.fin
    BY <1>2, SizesAssumption DEF DataTypes, Sockets, SizesAssumption, Broken
  <2>2. socket_.room - n \in 0 .. SendBuffer
    BY <1>2, <2>1
  <2>3. Took(n) \in Sockets /\ ~Took(n).fin
    BY <2>1, <2>2 DEF Took, Sockets
  <2>4. ShutDown(Took(n), FALSE) \in Sockets
    BY <2>3 DEF ShutDown, Sockets
  <2> QED  BY <1>1, <2>3, <2>4 DEF FinishesShutdown
<1>9. events_' \in SUBSET {"read", "write"}
  BY <1>1 DEF WatchedAfter, DataTypes
<1>10. DataTypes'
  BY <1>6, <1>7, <1>8, <1>9 DEF DataTypes
<1>11. InOrder'
  <2>1. Counts(wire', 0) /\ Counts(outputBuffer_', Len(wire'))
    BY <1>2, <1>3, <1>6, <1>7 DEF Counts
  <2>2. Len(wire') + Len(outputBuffer_') = taken'
    BY <1>2, <1>3, <1>6, <1>7
  <2> QED  BY <1>10, <2>1, <2>2, BytesInOrderNext
<1>12. outputBuffer_' = << >> <=> n = len
  <2>1. outputBuffer_' = << >> <=> Len(outputBuffer_') = 0
    BY <1>6, EmptySeq
  <2>2. len \in Nat /\ n \in Nat /\ Len(outputBuffer_') = len - n
    BY <1>2, <1>6
  <2> HIDE DEF len
  <2>3. len - n = 0 <=> n = len
    BY <2>2
  <2> QED  BY <2>1, <2>2, <2>3
<1>13. ShutdownAfterData' /\ WritingMatchesBuffer'
  BY <1>1, <1>8, <1>12 DEF ShutdownAfterData, WritingMatchesBuffer, Writing, WatchedAfter
<1> QED  BY <1>10, <1>11, <1>13 DEF Data

(* Whatever else happens to the socket and to the channel.                 *)
LEMMA OthersKeepData ==
    ASSUME DataTypes, Data, UNCHANGED <<wire, taken, outputBuffer_>>,
           socket_' \in Sockets, socket_'.fin => socket_.fin \/ ~Writing,
           events_' \in SUBSET {"read", "write"},
           \/ events_' = events_ \/ "read" \notin events_'
           \/ outputBuffer_ = << >> /\ events_' = {"read"}
    PROVE  DataTypes' /\ Data'
<1>1. DataTypes'
  BY DEF DataTypes
<1>2. InOrder'
  BY DEF Data, InOrder, Numbered
<1>3. ShutdownAfterData' /\ WritingMatchesBuffer'
  BY DEF Data, ShutdownAfterData, WritingMatchesBuffer, Writing
<1> QED  BY <1>1, <1>2, <1>3 DEF Data

-----------------------------------------------------------------------------
(* The queue of the I/O loop.                                              *)

LEMMA TailOf ==
    ASSUME NEW q \in Seq(Functors), q # << >>
    PROVE  /\ Len(q) \in Nat /\ Len(q) > 0 /\ DOMAIN q = 1 .. Len(q) /\ Head(q) = q[1]
           /\ Tail(q) \in Seq(Functors) /\ DOMAIN Tail(q) = 1 .. Len(q) - 1
           /\ \A i \in 1 .. Len(q) - 1 : Tail(q)[i] = q[i + 1] /\ i + 1 \in 1 .. Len(q)
<1>1. Len(q) \in Nat /\ Len(q) > 0 /\ DOMAIN q = 1 .. Len(q)
  BY EmptySeq, LenProperties
<1>2. /\ Head(q) = q[1] /\ Tail(q) \in Seq(Functors) /\ Len(Tail(q)) = Len(q) - 1
      /\ \A i \in 1 .. Len(Tail(q)) : Tail(q)[i] = q[i + 1]
  BY HeadTailProperties
<1>3. DOMAIN Tail(q) = 1 .. Len(Tail(q))
  BY <1>2, LenProperties
<1> QED  BY <1>1, <1>2, <1>3

LEMMA AppendOf ==
    ASSUME NEW q \in Seq(Functors), NEW f \in Functors
    PROVE  /\ Len(q) \in Nat /\ DOMAIN q = 1 .. Len(q)
           /\ Append(q, f) \in Seq(Functors) /\ DOMAIN Append(q, f) = 1 .. Len(q) + 1
           /\ Append(q, f)[Len(q) + 1] = f
           /\ \A i \in 1 .. Len(q) : Append(q, f)[i] = q[i] /\ i \in 1 .. Len(q) + 1
<1>1. Len(q) \in Nat /\ DOMAIN q = 1 .. Len(q)
  BY LenProperties
<1>2. /\ Append(q, f) \in Seq(Functors) /\ Len(Append(q, f)) = Len(q) + 1
      /\ \A i \in 1 .. Len(q) : Append(q, f)[i] = q[i]
      /\ Append(q, f)[Len(q) + 1] = f
  BY AppendProperties
<1>3. DOMAIN Append(q, f) = 1 .. Len(Append(q, f))
  BY <1>2, LenProperties
<1> QED  BY <1>1, <1>2, <1>3

(* The functor at the head runs and is none of the two.                    *)
LEMMA TailKeeps ==
    ASSUME NEW q \in Seq(Functors), q # << >>, Head(q).run \notin Steps, NEW l
    PROVE  /\ NoStep(q) => NoStep(Tail(q))
           /\ NoPlain(q) => NoPlain(Tail(q))
           /\ Destroys(q, l) => Destroys(Tail(q), l)
<1>1. NoStep(q) => NoStep(Tail(q))
  BY TailOf DEF NoStep
<1>2. NoPlain(q) => NoPlain(Tail(q))
  BY TailOf DEF NoPlain
<1>3. ASSUME NEW d \in DOMAIN q, DestroyAt(q, d), l \/ NoPlainBehind(q, d)
      PROVE  Destroys(Tail(q), l)
  <2>1. d # 1
    BY <1>3, TailOf DEF DestroyAt, Steps
  <2>2. d - 1 \in 1 .. Len(q) - 1 /\ (d - 1) + 1 = d
    BY <2>1, TailOf
  <2>3. DestroyAt(Tail(q), d - 1)
    <3>1. Tail(q)[d - 1].run = "connectDestroy"
      BY <1>3, <2>2, TailOf DEF DestroyAt
    <3>2. ASSUME NEW i \in DOMAIN Tail(q) \ {d - 1} PROVE Tail(q)[i].run \notin Steps
      <4>1. i \in 1 .. Len(q) - 1 /\ i # d - 1
        BY TailOf
      <4>2. i + 1 \in DOMAIN q \ {d} /\ Tail(q)[i] = q[i + 1]
        BY <2>2, <4>1, TailOf
      <4> QED  BY <1>3, <4>2 DEF DestroyAt
    <3> QED  BY <3>1, <3>2 DEF DestroyAt
  <2>4. ASSUME NoPlainBehind(q, d) PROVE NoPlainBehind(Tail(q), d - 1)
    <3>1. ASSUME NEW i \in DOMAIN Tail(q), i > d - 1 PROVE Tail(q)[i].run \notin Plain
      <4>1. i + 1 \in DOMAIN q /\ i + 1 > d /\ Tail(q)[i] = q[i + 1]
        BY <2>2, <3>1, TailOf
      <4> QED  BY <2>4, <4>1 DEF NoPlainBehind
    <3> QED  BY <3>1 DEF NoPlainBehind
  <2>5. d - 1 \in DOMAIN Tail(q)
    BY <2>2, TailOf
  <2> QED  BY <1>3, <2>3, <2>4, <2>5 DEF Destroys
<1> QED  BY <1>1, <1>2, <1>3 DEF Destroys

(* A functor that is none of the two is queued.                            *)
LEMMA AppendKeeps ==
    ASSUME NEW q \in Seq(Functors), NEW f \in Functors, f.run \notin Steps, NEW l, NEW m,
           l => m, m \/ f.run \notin Plain
    PROVE  /\ NoStep(q) => NoStep(Append(q, f))
           /\ NoPlain(q) => m \/ NoPlain(Append(q, f))
           /\ Destroys(q, l) => Destroys(Append(q, f), m)
<1>1. \A i \in 1 .. Len(q) + 1 : i \in 1 .. Len(q) \/ i = Len(q) + 1
  BY AppendOf
<1>2. NoStep(q) => NoStep(Append(q, f))
  BY <1>1, AppendOf DEF NoStep
<1>3. NoPlain(q) => m \/ NoPlain(Append(q, f))
  BY <1>1, AppendOf DEF NoPlain
<1>4. ASSUME NEW d \in DOMAIN q, DestroyAt(q, d), l \/ NoPlainBehind(q, d)
      PROVE  Destroys(Append(q, f), m)
  <2>1. d \in DOMAIN Append(q, f) /\ Append(q, f)[d] = q[d]
    BY AppendOf
  <2>2. DestroyAt(Append(q, f), d)
    BY <1>1, <1>4, <2>1, AppendOf DEF DestroyAt
  <2>3. m \/ NoPlainBehind(Append(q, f), d)
    BY <1>1, <1>4, AppendOf DEF NoPlainBehind
  <2> QED  BY <2>1, <2>2, <2>3 DEF Destroys
<1> QED  BY <1>2, <1>3, <1>4 DEF Destroys

LEMMA DestroyFunctor == [run |-> "connectDestroy"] \in Functors
BY DEF Functors

LEMMA AppendDestroys ==
    ASSUME NEW q \in Seq(Functors), NoStep(q), NEW l
    PROVE  Destroys(Append(q, [run |-> "connectDestroy"]), l)
<1> DEFINE f == [run |-> "connectDestroy"]
<1>1. f \in Functors /\ f.run = "connectDestroy"
  BY DestroyFunctor
<1> HIDE DEF f
<1>2. \A i \in 1 .. Len(q) + 1 : i \in 1 .. Len(q) \/ i = Len(q) + 1
  BY <1>1, AppendOf
<1>3. Len(q) + 1 \in DOMAIN Append(q, f)
  BY <1>1, AppendOf
<1>4. DestroyAt(Append(q, f), Len(q) + 1)
  BY <1>1, <1>2, AppendOf DEF DestroyAt, NoStep
<1>5. NoPlainBehind(Append(q, f), Len(q) + 1)
  BY <1>1, AppendOf DEF NoPlainBehind
<1> QED  BY <1>3, <1>4, <1>5 DEF Destroys, f

(* connectDestroy runs.                                                    *)
LEMMA TailOfDestroy ==
    ASSUME NEW q \in Seq(Functors), q # << >>, Head(q).run = "connectDestroy", NEW l,
           Destroys(q, l)
    PROVE  NoStep(Tail(q)) /\ (l \/ NoPlain(Tail(q)))
<1>1. PICK d \in DOMAIN q : DestroyAt(q, d) /\ (l \/ NoPlainBehind(q, d))
  BY DEF Destroys
<1>2. 1 \in DOMAIN q /\ q[1].run = "connectDestroy"
  BY TailOf
<1>3. d = 1
  BY <1>1, <1>2 DEF DestroyAt, Steps
<1>4. \A i \in 1 .. Len(q) - 1 : i + 1 \in DOMAIN q \ {1} /\ i + 1 > 1 /\ Tail(q)[i] = q[i + 1]
  BY TailOf
<1> QED  BY <1>1, <1>3, <1>4, TailOf DEF DestroyAt, NoPlainBehind, NoStep, NoPlain

-----------------------------------------------------------------------------
(* The life of the connection.                                             *)

LEMMA LifeIsOrdered ==
    ASSUME TypeOK', Running', Life'
    PROVE  LifeInv'
<1>1. (channel_ = "registered" => Alive)'
  <2>1. CASE (Unborn \/ Connecting)'
    BY <2>1 DEF Unborn, Connecting, Untouched
  <2>2. CASE (Open \/ Leaving)'
    BY <2>2 DEF Open, Leaving, Alive
  <2>3. CASE Destroying'
    BY <2>3 DEF Destroying, DestroyQueued, Destroys, DestroyAt, Alive, Owning
  <2>4. CASE Gone'
    BY <2>4 DEF Gone
  <2> QED  BY <2>1, <2>2, <2>3, <2>4 DEF Life, Closed
<1>2. OutlivesUse'
  BY <1>1 DEF OutlivesUse, Running
<1>3. CASE (Unborn \/ Connecting \/ Open)'
  BY <1>2, <1>3 DEF Unborn, Connecting, Open, Untouched, LifecycleOrdered, Running, LifeInv
<1>4. CASE Closed'
  BY <1>2, <1>4 DEF Closed, Leaving, Destroying, Gone, LifecycleOrdered, Running, LifeInv
<1> QED  BY <1>3, <1>4 DEF Life

(* What ends the execution leaves the order of the life as it was.         *)
LEMMA FailureIsOrdered ==
    ASSUME LifeInv, UNCHANGED <<channel_, connections_, notified>>,
           ~Running', failed' # "handleClose", failed' = "dangling" => (late \/ SameLoop)'
    PROVE  LifeInv'
BY DEF LifeInv, LifecycleOrdered, OutlivesUse

(* The I/O loop's queue changes without a step of the life.                *)
QueueKept ==
    /\ late => late'
    /\ NoStep(ioQueue) => NoStep(ioQueue')
    /\ ~connections_ /\ DestroyQueued => DestroyQueued'
    /\ ~connections_ /\ NoPlain(ioQueue) => late' \/ NoPlain(ioQueue')

LEMMA QueueSame ==
    ASSUME UNCHANGED <<ioQueue, late>>
    PROVE  QueueKept
BY DEF QueueKept, DestroyQueued

LEMMA QueueTail ==
    ASSUME TypeOK, ioQueue # << >>, Head(ioQueue).run \notin Steps,
           ioQueue' = Tail(ioQueue), UNCHANGED late
    PROVE  QueueKept
BY TailKeeps DEF QueueKept, DestroyQueued, TypeOK

LEMMA QueueAppend ==
    ASSUME TypeOK, NEW f \in Functors, f.run \notin Steps,
           ioQueue' = Append(ioQueue, f), late => late',
           f.run \in Plain => late' \/ connections_
    PROVE  QueueKept
<1>1. CASE connections_
  <2>1. NoStep(ioQueue) => NoStep(Append(ioQueue, f))
    BY AppendKeeps DEF TypeOK
  <2> QED  BY <1>1, <2>1 DEF QueueKept
<1>2. CASE ~connections_
  <2>1. late' \/ f.run \notin Plain
    BY <1>2
  <2>2. /\ NoStep(ioQueue) => NoStep(Append(ioQueue, f))
        /\ NoPlain(ioQueue) => late' \/ NoPlain(Append(ioQueue, f))
        /\ Destroys(ioQueue, late) => Destroys(Append(ioQueue, f), late')
    BY <2>1, AppendKeeps DEF TypeOK
  <2> QED  BY <2>2 DEF QueueKept, DestroyQueued
<1> QED  BY <1>1, <1>2

LEMMA QueueReplace ==
    ASSUME TypeOK, ioQueue # << >>, Head(ioQueue).run \notin Steps,
           NEW f \in Functors, f.run \notin Steps \cup Plain,
           ioQueue' = Append(Tail(ioQueue), f), UNCHANGED late
    PROVE  QueueKept
<1> DEFINE q == Tail(ioQueue)
<1>1. q \in Seq(Functors)
  BY TailOf DEF TypeOK
<1>2. /\ NoStep(ioQueue) => NoStep(q)
      /\ NoPlain(ioQueue) => NoPlain(q)
      /\ Destroys(ioQueue, late) => Destroys(q, late)
  BY TailKeeps DEF TypeOK
<1>3. ioQueue' = Append(q, f)
  OBVIOUS
<1> HIDE DEF q
<1>4. /\ NoStep(q) => NoStep(Append(q, f))
      /\ NoPlain(q) => late \/ NoPlain(Append(q, f))
      /\ Destroys(q, late) => Destroys(Append(q, f), late)
  BY <1>1, AppendKeeps
<1> QED  BY <1>2, <1>3, <1>4 DEF QueueKept, DestroyQueued

(* The connection stays open, or closed, as it was.                        *)
LEMMA PhaseKept ==
    ASSUME Open \/ Closed, QueueKept,
           UNCHANGED <<loop_, channel_, muted, connections_, baseQueue, notified>>,
           "read" \in events_' <=> "read" \in events_,
           state_' \in {state_, "kDisconnecting"}
    PROVE  (Open => Open') /\ (Closed => Closed')
<1>1. Open => Open'
  BY DEF Open, QueueKept
<1>2. Leaving => Leaving'
  BY DEF Leaving, QueueKept
<1>3. Destroying => Destroying'
  BY DEF Destroying, QueueKept
<1>4. Gone => Gone'
  BY DEF Gone, QueueKept, SameLoop
<1>5. Closed => Closed'
  BY <1>2, <1>3, <1>4 DEF Closed
<1> QED  BY <1>1, <1>5

LEMMA LifeKept ==
    ASSUME TypeOK', LifeInv, Open \/ Closed, QueueKept,
           UNCHANGED <<loop_, channel_, muted, connections_, baseQueue, notified>>,
           "read" \in events_' <=> "read" \in events_,
           state_' \in {state_, "kDisconnecting"},
           pc' = "idle" => revents' = {},
           pc' = "reported" \/ "in" \in revents' => Open,
           failed' \notin {"handleClose", "dangling"}
    PROVE  LifeInv'
<1>1. CASE Running'
  <2>1. (Open => Open') /\ (Closed => Closed')
    BY PhaseKept
  <2>2. Polled'
    BY <2>1 DEF Polled
  <2>3. Life'
    BY <2>1, <2>2 DEF Life
  <2> QED  BY <1>1, <2>3, LifeIsOrdered
<1>2. CASE ~Running'
  BY <1>2, FailureIsOrdered
<1> QED  BY <1>1, <1>2

-----------------------------------------------------------------------------
(* The steps.                                                              *)

(* The types of what is not data.                                          *)
ControlTypes ==
    /\ loop_ \in Loops \cup {"none"} /\ state_ \in States
    /\ channel_ \in {"new", "registered", "removed"}
    /\ muted \in BOOLEAN /\ connections_ \in BOOLEAN /\ late \in BOOLEAN
    /\ baseQueue \in Seq({"removeConnectionInLoop"}) /\ ioQueue \in Seq(Functors)
    /\ pc \in {"idle", "reported", "dispatch", "callback"} /\ revents \in SUBSET {"in", "out"}
    /\ calls \in [Users -> Calls] /\ holders \in SUBSET Users
    /\ failed \in Failures /\ issued \in 0 .. MaxBytes
    /\ notified \in [{"up", "down"} -> 0 .. 2]

LEMMA AllTypes == TypeOK <=> DataTypes /\ ControlTypes
BY DEF TypeOK, DataTypes, ControlTypes, Bytes

LEMMA AllTypesNext == TypeOK' <=> DataTypes' /\ ControlTypes'
BY DEF TypeOK, DataTypes, ControlTypes, Bytes

(* What a step starts from.                                                *)
Before == TypeOK /\ Data /\ LifeInv /\ Life /\ Running /\ DataTypes /\ ControlTypes

LEMMA BeforeIs == ConnInv /\ Running => Before
BY AllTypes DEF ConnInv, Before, LifeInv

LEMMA InUse == ASSUME Before, ~(Unborn \/ Connecting) PROVE Open \/ Closed
BY DEF Before, Life

LEMMA ReportedIsOpen == ASSUME Before, pc = "reported" \/ "in" \in revents PROVE Open
BY DEF Before, Life, Polled

LEMMA FunctorsAre ==
    /\ \A r \in {"connectEstablished", "shutdownInLoop", "writeComplete", "highWaterMark"} :
          [run |-> r] \in Functors
    /\ \A n \in Lengths : [run |-> "sendInLoop", len |-> n] \in Functors
BY DEF Functors

LEMMA NotifiedIs ==
    ASSUME NEW up \in 0 .. 2, NEW down \in 0 .. 2
    PROVE  [up |-> up, down |-> down] \in [{"up", "down"} -> 0 .. 2]
<1> DEFINE f == [up |-> up, down |-> down]
<1>1. f = [x \in {"up", "down"} |-> f[x]] /\ \A x \in {"up", "down"} : f[x] \in 0 .. 2
  OBVIOUS
<1> QED  BY <1>1

LEMMA InitConnInv == Init => ConnInv
<1> SUFFICES ASSUME Init PROVE ConnInv
  OBVIOUS
<1>1. DataTypes
  BY SizesAssumption, EmptySeq DEF Init, DataTypes, Sockets, SizesAssumption
<1>2. ControlTypes
  <2>1. << >> \in Seq(Functors) /\ << >> \in Seq({"removeConnectionInLoop"})
    BY EmptySeq
  <2>2. calls \in [Users -> Calls]
    BY DEF Init, Calls, Idle
  <2>3. issued \in 0 .. MaxBytes
    BY SizesAssumption DEF Init, SizesAssumption
  <2>4. notified \in [{"up", "down"} -> 0 .. 2]
    BY NotifiedIs DEF Init
  <2> QED  BY <2>1, <2>2, <2>3, <2>4 DEF Init, ControlTypes, States, Failures
<1>3. Counts(<< >>, 0) /\ Len(<< >>) = 0
  BY EmptySeq DEF Counts
<1>4. InOrder
  BY <1>1, <1>3, BytesInOrder DEF Init
<1>5. Data
  BY <1>4 DEF Init, Data, ShutdownAfterData, WritingMatchesBuffer
<1>6. Life
  BY DEF Init, Life, Unborn, Untouched, Calls0, Polled
<1>7. LifeInv
  BY <1>6 DEF Init, LifeInv, OutlivesUse, LifecycleOrdered
<1> QED  BY <1>1, <1>2, <1>5, <1>7, AllTypes DEF ConnInv

LEMMA StepKeeps ==
    ASSUME DataTypes', Data', ControlTypes', TypeOK' => LifeInv'
    PROVE  ConnInv'
BY AllTypesNext DEF ConnInv

(* connectEstablished is called, or queued.                                *)
LEMMA EstablishedKeeps ==
    ASSUME Before, Established, Unborn \/ Connecting, ioQueue' = << >>, connections_',
           loop_' \in Loops \cup {"none"},
           UNCHANGED <<outputBuffer_, muted, baseQueue, revents, holders, issued, wire, taken,
                       socket_, calls, failed, late>>
    PROVE  ConnInv'
<1>1. DataTypes' /\ Data'
  <2>1. outputBuffer_ = << >> /\ events_' = {"read"}
    BY DEF Established, Unborn, Connecting, Untouched
  <2> QED  BY <2>1, OthersKeepData DEF Before, DataTypes
<1>2. notified' = [up |-> 1, down |-> 0]
  BY DEF Established, Unborn, Connecting, Untouched
<1>3. ControlTypes'
  <2>1. ioQueue' \in Seq(Functors)
    BY EmptySeq
  <2>2. connections_' \in BOOLEAN
    BY DEF Unborn, Connecting
  <2>3. /\ state_' \in States /\ channel_' \in {"new", "registered", "removed"}
        /\ pc' \in {"idle", "reported", "dispatch", "callback"}
    BY DEF Established, States
  <2>4. notified' \in [{"up", "down"} -> 0 .. 2]
    BY <1>2, NotifiedIs
  <2> QED  BY <2>1, <2>2, <2>3, <2>4 DEF Before, ControlTypes
<1>4. Open'
  <2>1. NoStep(ioQueue')
    BY DEF NoStep
  <2> QED  BY <1>2, <2>1 DEF Established, Unborn, Connecting, Untouched, Open
<1>5. Life'
  <2>1. pc' = "callback" /\ (pc = "idle" => revents = {})
    BY DEF Established, Before, Life, Polled
  <2> QED  BY <1>4, <2>1 DEF Life, Polled
<1>6. TypeOK' => LifeInv'
  BY <1>5, LifeIsOrdered DEF Before, Running
<1> QED  BY <1>1, <1>3, <1>6, StepKeeps

LEMMA NewConnectionKeeps == Before /\ newConnection => ConnInv'
<1> SUFFICES ASSUME Before, newConnection PROVE ConnInv'
  OBVIOUS
<1>1. Unborn
  BY DEF newConnection, Created, Before, Life, Connecting, Open, Closed
<1>2. CASE SameLoop'
  BY <1>1, <1>2, EstablishedKeeps DEF newConnection, Unborn
<1>3. CASE ~SameLoop'
  <2> DEFINE f == [run |-> "connectEstablished"]
  <2>1. /\ state_' = "kConnecting" /\ ioQueue' = Append(ioQueue, f)
        /\ connections_' = TRUE /\ loop_' \in Loops
        /\ UNCHANGED <<channel_, events_, notified, pc, outputBuffer_, muted, baseQueue, revents,
                       holders, issued, wire, taken, socket_, calls, failed, late>>
    BY <1>3 DEF newConnection
  <2>2. f \in Functors
    BY FunctorsAre
  <2> HIDE DEF f
  <2>3. ioQueue' = <<f>> /\ ioQueue' \in Seq(Functors)
    BY <1>1, <2>1, <2>2 DEF Unborn
  <2>4. DataTypes' /\ Data'
    BY <2>1, OthersKeepData DEF Before, DataTypes
  <2>5. ControlTypes'
    BY <2>1, <2>3 DEF Before, ControlTypes, States
  <2>6. Connecting'
    BY <1>1, <2>1, <2>3 DEF Unborn, Untouched, Calls0, Connecting, f
  <2>7. Polled'
    BY <1>1, <2>1 DEF Before, Life, Polled, Unborn, Untouched
  <2>8. TypeOK' => LifeInv'
    BY <2>1, <2>6, <2>7, LifeIsOrdered DEF Before, Running, Life
  <2> QED  BY <2>4, <2>5, <2>8, StepKeeps
<1> QED  BY <1>2, <1>3

LEMMA RemoveConnectionKeeps == Before /\ removeConnectionInLoop => ConnInv'
<1> SUFFICES ASSUME Before, removeConnectionInLoop PROVE ConnInv'
  OBVIOUS
<1> DEFINE f == [run |-> "connectDestroy"]
<1>1. /\ baseQueue # << >> /\ baseQueue' = Tail(baseQueue) /\ connections_' = FALSE
      /\ ioQueue' = Append(ioQueue, f)
      /\ UNCHANGED <<loop_, state_, outputBuffer_, channel_, events_, muted, pc, revents, holders,
                     issued, wire, taken, notified, late, socket_, calls, failed>>
  BY DEF removeConnectionInLoop, object, channel, history
<1>2. Closed /\ Leaving
  BY <1>1 DEF Before, Life, Unborn, Connecting, Untouched, Open, Closed, Destroying, Gone
<1>3. baseQueue' = << >>
  BY <1>1, <1>2 DEF Leaving
<1>4. f \in Functors
  BY FunctorsAre, DestroyFunctor
<1> HIDE DEF f
<1>5. ioQueue' \in Seq(Functors)
  BY <1>1, <1>4, AppendOf DEF Before, ControlTypes
<1>6. DataTypes' /\ Data'
  BY <1>1, OthersKeepData DEF Before, DataTypes
<1>7. ControlTypes'
  <2>1. baseQueue' \in Seq({"removeConnectionInLoop"})
    BY <1>3, EmptySeq
  <2> QED  BY <1>1, <1>5, <2>1 DEF Before, ControlTypes
<1>8. Destroying'
  <2>1. DestroyQueued'
    BY <1>1, <1>2, AppendDestroys DEF Before, ControlTypes, Leaving, DestroyQueued, f
  <2> QED  BY <1>1, <1>2, <1>3, <2>1 DEF Leaving, Destroying
<1>9. Closed'
  BY <1>1, <1>2, <1>8 DEF Closed
<1>10. Polled'
  BY <1>1, <1>2 DEF Before, Life, Polled, Open, Leaving
<1>11. TypeOK' => LifeInv'
  BY <1>1, <1>9, <1>10, LifeIsOrdered DEF Before, Running, Life
<1> QED  BY <1>6, <1>7, <1>11, StepKeeps

LEMMA ConnectEstablishedKeeps ==
    ASSUME Before, ioQueue # << >>, Head(ioQueue).run = "connectEstablished",
           connectEstablished(Tail(ioQueue))
    PROVE  ConnInv'
<1>1. ~NoStep(ioQueue) /\ ~DestroyQueued
  <2>1. 1 \in DOMAIN ioQueue /\ ioQueue[1].run = "connectEstablished"
    BY TailOf DEF Before, ControlTypes
  <2> QED  BY <2>1 DEF NoStep, Steps, DestroyQueued, Destroys, DestroyAt
<1>2. Connecting
  BY <1>1 DEF Before, Life, Unborn, Open, Closed, Leaving, Destroying, Gone
<1>3. ioQueue' = << >>
  BY <1>2 DEF Connecting, connectEstablished
<1>4. loop_' \in Loops \cup {"none"}
  BY DEF Before, ControlTypes, connectEstablished
<1> QED  BY <1>2, <1>3, <1>4, EstablishedKeeps DEF connectEstablished, Connecting, owners

LEMMA ConnectDestroyKeeps ==
    ASSUME Before, ioQueue # << >>, Head(ioQueue).run = "connectDestroy",
           connectDestroy(Tail(ioQueue))
    PROVE  ConnInv'
<1>1. ~NoStep(ioQueue) /\ ioQueue # <<[run |-> "connectEstablished"]>>
  <2>1. 1 \in DOMAIN ioQueue /\ ioQueue[1].run = "connectDestroy"
    BY TailOf DEF Before, ControlTypes
  <2> QED  BY <2>1 DEF NoStep, Steps
<1>2. Closed /\ Destroying
  BY <1>1 DEF Before, Life, Unborn, Connecting, Open, Closed, Leaving, Gone
<1>3. ~StillOpen
  BY <1>2 DEF Closed, StillOpen
<1>4. /\ ioQueue' = Tail(ioQueue)
      /\ UNCHANGED <<state_, notified, events_, muted, loop_, outputBuffer_, baseQueue, pc, revents,
                     connections_, holders, issued, wire, taken, socket_, calls, late>>
      /\ \/ channel_' = "removed" /\ failed' = failed
         \/ channel_' = channel_ /\ failed' = "remove"
  BY <1>3 DEF connectDestroy, Before, DataTypes, ControlTypes, owners
<1>5. DataTypes' /\ Data'
  BY <1>4, OthersKeepData DEF Before, DataTypes
<1>6. ControlTypes'
  <2>1. ioQueue' \in Seq(Functors)
    BY <1>4, TailOf DEF Before, ControlTypes
  <2> QED  BY <1>4, <2>1 DEF Before, ControlTypes, Failures
<1>7. CASE channel_' = "removed" /\ failed' = failed
  <2>1. NoStep(ioQueue') /\ (late \/ NoPlain(ioQueue'))
    BY <1>2, <1>4, TailOfDestroy DEF Before, ControlTypes, Destroying, DestroyQueued
  <2>2. Gone'
    BY <1>2, <1>4, <1>7, <2>1 DEF Destroying, Gone
  <2>3. Closed'
    BY <1>2, <1>4, <2>2 DEF Closed
  <2>4. Polled'
    BY <1>2, <1>4 DEF Before, Life, Polled, Open, Destroying
  <2>5. TypeOK' => LifeInv'
    BY <1>7, <2>3, <2>4, LifeIsOrdered DEF Before, Running, Life
  <2> QED  BY <1>5, <1>6, <2>5, StepKeeps
<1>8. CASE channel_' = channel_ /\ failed' = "remove"
  <2>1. LifeInv'
    BY <1>4, <1>8, FailureIsOrdered DEF Before, Running
  <2> QED  BY <1>5, <1>6, <2>1, StepKeeps
<1> QED  BY <1>4, <1>7, <1>8

(* What sendInLoop does to the rest of the connection.                     *)
SendLeaves(q) ==
    /\ UNCHANGED <<loop_, state_, channel_, muted>>
    /\ "read" \in events_' <=> "read" \in events_
    /\ failed' \in Failures \ {"handleClose", "dangling"}
    /\ \/ ioQueue' = q
       \/ \E f \in Functors : f.run \notin Steps \cup Plain /\ ioQueue' = Append(q, f)

LEMMA SendInLoopKeeps ==
    ASSUME Before, NEW n \in Lengths, NEW q, sendInLoop(n, q)
    PROVE  DataTypes' /\ Data' /\ SendLeaves(q)
<1>1. CASE Dropped(n, q)
  <2>1. DataTypes' /\ Data'
    BY <1>1, OthersKeepData DEF Dropped, object, channel, Before, DataTypes
  <2> QED  BY <1>1, <2>1 DEF Dropped, object, channel, SendLeaves, Before, Running, Failures
<1>2. CASE AssertNwrote(n, q)
  <2>1. DataTypes' /\ Data'
    BY <1>2, OthersKeepData DEF AssertNwrote, object, channel, Before, DataTypes
  <2> QED  BY <1>2, <2>1 DEF AssertNwrote, object, channel, SendLeaves, Failures
<1>3. CASE Taken(n, q)
  <2>1. n \in Bytes
    BY LengthsAssumption DEF LengthsAssumption, Bytes
  <2>2. DataTypes' /\ Data'
    BY <1>3, <2>1, TakenKeepsData DEF Before
  <2>3. "read" \in events_' <=> "read" \in events_
    BY <1>3 DEF Taken, WatchedFor
  <2>4. \/ ioQueue' = q
        \/ \E f \in Functors : f.run \notin Steps \cup Plain /\ ioQueue' = Append(q, f)
    <3>1. /\ [run |-> "writeComplete"] \in Functors /\ [run |-> "highWaterMark"] \in Functors
          /\ [run |-> "writeComplete"].run \notin Steps \cup Plain
          /\ [run |-> "highWaterMark"].run \notin Steps \cup Plain
      BY FunctorsAre DEF Steps, Plain
    <3>2. \/ ioQueue' = q
          \/ ioQueue' = Append(q, [run |-> "writeComplete"])
          \/ ioQueue' = Append(q, [run |-> "highWaterMark"])
      BY <1>3 DEF Taken, Offered
    <3> QED  BY <3>1, <3>2
  <2>5. failed' \in {failed, "update"}
    BY <1>3 DEF Taken
  <2> QED  BY <1>3, <2>2, <2>3, <2>4, <2>5 DEF Taken, SendLeaves, Before, Running, Failures
<1> QED  BY <1>1, <1>2, <1>3 DEF sendInLoop

(* A functor other than the two runs.                                      *)
LEMMA RunsInUse ==
    ASSUME Before, ioQueue # << >>, Head(ioQueue).run \notin Steps
    PROVE  /\ Open \/ Closed
           /\ Head(ioQueue) \in Functors /\ Tail(ioQueue) \in Seq(Functors)
<1>1. /\ Head(ioQueue) = ioQueue[1] /\ 1 \in DOMAIN ioQueue /\ Tail(ioQueue) \in Seq(Functors)
  BY TailOf DEF Before, ControlTypes
<1>2. Head(ioQueue) \in Functors
  BY HeadTailProperties DEF Before, ControlTypes
<1>3. ~Unborn /\ ~Connecting
  BY <1>1 DEF Unborn, Connecting, Steps
<1> QED  BY <1>1, <1>2, <1>3, InUse

LEMMA RunSendKeeps ==
    ASSUME Before, ioQueue # << >>, Head(ioQueue).run = "sendInLoop", pc = "idle",
           RunSend(Head(ioQueue).len, Tail(ioQueue))
    PROVE  ConnInv'
<1> DEFINE f == Head(ioQueue)
           q == Tail(ioQueue)
<1>1. (Open \/ Closed) /\ f \in Functors /\ q \in Seq(Functors) /\ f.run \notin Steps
  BY RunsInUse DEF Steps
<1>2. f.len \in Lengths
  BY <1>1 DEF Functors
<1>3. /\ sendInLoop(f.len, q)
      /\ UNCHANGED <<baseQueue, pc, revents, connections_, holders, issued, notified, calls, late>>
  BY DEF RunSend, owners
<1>4. DataTypes' /\ Data' /\ SendLeaves(q)
  BY <1>2, <1>3, SendInLoopKeeps
<1>5. QueueKept
  <2>1. CASE ioQueue' = q
    BY <1>1, <1>3, <2>1, QueueTail DEF Before
  <2>2. ASSUME NEW g \in Functors, g.run \notin Steps \cup Plain, ioQueue' = Append(q, g)
        PROVE  QueueKept
    BY <1>1, <1>3, <2>2, QueueReplace DEF Before
  <2> QED  BY <1>4, <2>1, <2>2 DEF SendLeaves
<1>6. ControlTypes'
  <2>1. ioQueue' \in Seq(Functors)
    BY <1>1, <1>4, AppendOf DEF SendLeaves
  <2> QED  BY <1>3, <1>4, <2>1 DEF Before, ControlTypes, SendLeaves
<1>7. TypeOK' => LifeInv'
  <2>1. (pc = "idle" => revents = {}) /\ (pc = "reported" \/ "in" \in revents => Open)
    BY DEF Before, Life, Polled
  <2> QED  BY <1>1, <1>3, <1>4, <1>5, <2>1, LifeKept DEF SendLeaves, Before
<1> QED  BY <1>4, <1>6, <1>7, StepKeeps

LEMMA RunShutdownKeeps ==
    ASSUME Before, ioQueue # << >>, Head(ioQueue).run = "shutdownInLoop",
           RunShutdown(Tail(ioQueue))
    PROVE  ConnInv'
<1>1. (Open \/ Closed) /\ Tail(ioQueue) \in Seq(Functors) /\ Head(ioQueue).run \notin Steps
  BY RunsInUse DEF Steps
<1>2. /\ socket_' = ShutDown(socket_, Writing) /\ ioQueue' = Tail(ioQueue)
      /\ UNCHANGED <<loop_, state_, outputBuffer_, channel_, events_, muted, baseQueue, pc, revents,
                     connections_, holders, issued, wire, taken, notified, late, calls, failed>>
  BY DEF RunShutdown, object, channel, owners, history
<1>3. DataTypes' /\ Data'
  <2>1. socket_' \in Sockets /\ (socket_'.fin => socket_.fin \/ ~Writing)
    BY <1>2 DEF ShutDown, Before, DataTypes, Sockets
  <2> QED  BY <1>2, <2>1, OthersKeepData DEF Before, DataTypes
<1>4. ControlTypes'
  BY <1>1, <1>2 DEF Before, ControlTypes
<1>5. QueueKept
  BY <1>1, <1>2, QueueTail DEF Before
<1>6. TypeOK' => LifeInv'
  <2>1. (pc = "idle" => revents = {}) /\ (pc = "reported" \/ "in" \in revents => Open)
    BY DEF Before, Life, Polled
  <2> QED  BY <1>1, <1>2, <1>5, <2>1, LifeKept DEF Before, Running
<1> QED  BY <1>3, <1>4, <1>6, StepKeeps

LEMMA RunUserFunctorKeeps ==
    ASSUME Before, ioQueue # << >>, pc = "idle", Head(ioQueue).run \in {"writeComplete", "highWaterMark"},
           RunUserFunctor(Tail(ioQueue))
    PROVE  ConnInv'
<1>1. (Open \/ Closed) /\ Tail(ioQueue) \in Seq(Functors) /\ Head(ioQueue).run \notin Steps
  BY RunsInUse DEF Steps
<1>2. /\ pc' = "callback" /\ ioQueue' = Tail(ioQueue)
      /\ UNCHANGED <<loop_, state_, outputBuffer_, channel_, events_, muted, baseQueue, revents,
                     connections_, holders, issued, wire, taken,
                     notified, late, socket_, calls, failed>>
  BY DEF RunUserFunctor, object, channel, owners, history
<1>3. DataTypes' /\ Data'
  BY <1>2, OthersKeepData DEF Before, DataTypes
<1>4. ControlTypes'
  BY <1>1, <1>2 DEF Before, ControlTypes
<1>5. QueueKept
  BY <1>1, <1>2, QueueTail DEF Before
<1>6. TypeOK' => LifeInv'
  <2>1. "in" \in revents => Open
    BY DEF Before, Life, Polled
  <2> QED  BY <1>1, <1>2, <1>5, <2>1, LifeKept DEF Before, Running
<1> QED  BY <1>3, <1>4, <1>6, StepKeeps

(* A plain this finds the connection gone.                                 *)
LEMMA DanglingKeeps ==
    ASSUME Before, ioQueue # << >>, Head(ioQueue).run \in Plain, Dangling(Tail(ioQueue))
    PROVE  ConnInv'
<1>1. Head(ioQueue) = ioQueue[1] /\ 1 \in DOMAIN ioQueue /\ Tail(ioQueue) \in Seq(Functors)
  BY TailOf DEF Before, ControlTypes
<1>2. /\ ~Alive /\ failed' = "dangling" /\ ioQueue' = Tail(ioQueue)
      /\ UNCHANGED <<loop_, state_, outputBuffer_, channel_, events_, muted, baseQueue, pc, revents,
                     connections_, holders, issued, wire, taken, notified, late, socket_, calls>>
  BY DEF Dangling, object, channel, owners, history
<1>3. DataTypes' /\ Data'
  BY <1>2, OthersKeepData DEF Before, DataTypes
<1>4. ControlTypes'
  BY <1>1, <1>2 DEF Before, ControlTypes, Failures
<1>5. Gone
  <2>1. ~Unborn /\ ~Connecting
    BY <1>1 DEF Unborn, Connecting, Plain
  <2>2. channel_ # "registered"
    BY <1>2 DEF Before, LifeInv, OutlivesUse
  <2> QED  BY <2>1, <2>2 DEF Before, Life, Open, Closed, Leaving, Destroying
<1>6. late \/ SameLoop
  BY <1>1, <1>5 DEF Gone, NoPlain
<1>7. LifeInv'
  BY <1>2, <1>6, FailureIsOrdered DEF Before, Running, SameLoop
<1> QED  BY <1>3, <1>4, <1>7, StepKeeps

LEMMA RunFunctorKeeps == Before /\ RunFunctor => ConnInv'
<1> SUFFICES ASSUME Before, RunFunctor PROVE ConnInv'
  OBVIOUS
<1> DEFINE f == Head(ioQueue)
           q == Tail(ioQueue)
<1>1. ioQueue # << >> /\ pc = "idle"
  BY DEF RunFunctor
<1>2. CASE f.run = "connectEstablished" /\ connectEstablished(q)
  BY <1>1, <1>2, ConnectEstablishedKeeps
<1>3. CASE f.run = "connectDestroy" /\ connectDestroy(q)
  BY <1>1, <1>3, ConnectDestroyKeeps
<1>4. CASE f.run = "sendInLoop" /\ RunSend(f.len, q)
  BY <1>1, <1>4, RunSendKeeps
<1>5. CASE f.run = "shutdownInLoop" /\ RunShutdown(q)
  BY <1>1, <1>5, RunShutdownKeeps
<1>6. CASE f.run \in Plain /\ Dangling(q)
  BY <1>1, <1>6, DanglingKeeps
<1>7. CASE f.run \in {"writeComplete", "highWaterMark"} /\ RunUserFunctor(q)
  BY <1>1, <1>7, RunUserFunctorKeeps
<1> QED  BY <1>2, <1>3, <1>4, <1>5, <1>6, <1>7 DEF RunFunctor, Plain

LEMMA InPhaseKeeps ==
    ASSUME Before, Open \/ Closed, DataTypes', Data', ControlTypes', QueueKept,
           UNCHANGED <<loop_, channel_, muted, connections_, baseQueue, notified>>,
           "read" \in events_' <=> "read" \in events_,
           state_' \in {state_, "kDisconnecting"},
           pc' = "idle" => revents' = {},
           pc' = "reported" \/ "in" \in revents' => Open,
           failed' \notin {"handleClose", "dangling"}
    PROVE  ConnInv'
<1>1. TypeOK' => LifeInv'
  BY LifeKept DEF Before
<1> QED  BY <1>1, StepKeeps

(* Only the socket, the calls of user threads and what they hold change.   *)
LEMMA OutsideKeeps ==
    ASSUME Before, DataTypes', Data', ControlTypes',
           UNCHANGED <<object, channel, loops, connections_, notified, late, failed>>,
           (Unborn \/ Connecting) => UNCHANGED <<holders, calls>>
    PROVE  ConnInv'
<1>1. UNCHANGED <<loop_, state_, outputBuffer_, channel_, events_, muted, baseQueue, ioQueue, pc,
                  revents, connections_, notified, late, failed>>
  BY DEF object, channel, loops
<1>2. CASE Unborn \/ Connecting
  <2>1. (Unborn \/ Connecting)'
    BY <1>1, <1>2 DEF Unborn, Connecting, Untouched, Calls0
  <2>2. Polled'
    BY <1>1, <1>2 DEF Before, Life, Polled, Unborn, Connecting, Untouched
  <2>3. TypeOK' => LifeInv'
    BY <1>1, <2>1, <2>2, LifeIsOrdered DEF Before, Running, Life
  <2> QED  BY <2>3, StepKeeps
<1>3. CASE ~(Unborn \/ Connecting)
  <2>1. (pc = "idle" => revents = {}) /\ (pc = "reported" \/ "in" \in revents => Open)
    BY DEF Before, Life, Polled
  <2> QED  BY <1>1, <1>3, <2>1, InUse, QueueSame, InPhaseKeeps DEF Before, Running
<1> QED  BY <1>2, <1>3

LEMMA PollKeeps == Before /\ poll => ConnInv'
<1> SUFFICES ASSUME Before, poll PROVE ConnInv'
  OBVIOUS
<1>1. /\ MayReport /\ revents' = Ready /\ pc' = "reported"
      /\ UNCHANGED <<loop_, state_, outputBuffer_, channel_, events_, muted, baseQueue, ioQueue,
                     connections_, holders, issued, wire, taken,
                     notified, late, socket_, calls, failed>>
  BY DEF poll, object, channel, owners, history
<1>2. Open
  BY <1>1 DEF Before, Life, MayReport, Unborn, Connecting, Untouched, Closed
<1>3. DataTypes' /\ Data'
  BY <1>1, OthersKeepData DEF Before, DataTypes
<1>4. ControlTypes'
  BY <1>1 DEF Before, ControlTypes, Ready
<1> QED  BY <1>1, <1>2, <1>3, <1>4, QueueSame, InPhaseKeeps DEF Before, Running

LEMMA HandleEventKeeps == Before /\ handleEvent => ConnInv'
<1> SUFFICES ASSUME Before, handleEvent PROVE ConnInv'
  OBVIOUS
<1>1. Open
  BY ReportedIsOpen DEF handleEvent
<1>2. Alive
  BY <1>1 DEF Open, Alive
<1>3. /\ pc' = "dispatch"
      /\ UNCHANGED <<loop_, state_, outputBuffer_, channel_, events_, muted, baseQueue, ioQueue, revents,
                     connections_, holders, issued, wire, taken,
                     notified, late, socket_, calls, failed>>
  BY <1>2 DEF handleEvent, object, channel, owners, history
<1>4. DataTypes' /\ Data'
  BY <1>3, OthersKeepData DEF Before, DataTypes
<1>5. ControlTypes'
  BY <1>3 DEF Before, ControlTypes
<1> QED  BY <1>1, <1>3, <1>4, <1>5, QueueSame, InPhaseKeeps DEF Before, Running

LEMMA ReadKeeps == ASSUME Before, pc = "dispatch", "in" \in revents, ReadMessage \/ ReadError PROVE ConnInv'
<1>1. Open
  BY ReportedIsOpen
<1>2. /\ revents' = revents \ {"in"} /\ socket_' \in Sockets /\ socket_'.fin = socket_.fin
      /\ pc' \in {"callback", "dispatch", "idle"} /\ (pc' = "idle" => revents' = {})
      /\ UNCHANGED <<loop_, state_, outputBuffer_, channel_, events_, muted, baseQueue, ioQueue,
                     connections_, holders, issued, wire, taken, notified, late, calls, failed>>
  <2>1. CASE ReadMessage
    BY <2>1 DEF ReadMessage, object, channel, owners, history, Before, DataTypes, Sockets
  <2>2. CASE ReadError
    BY <2>2 DEF ReadError, Handled, object, channel, owners, history, Before, DataTypes, Sockets
  <2> QED  BY <2>1, <2>2
<1>3. DataTypes' /\ Data'
  BY <1>2, OthersKeepData DEF Before, DataTypes
<1>4. ControlTypes'
  BY <1>2 DEF Before, ControlTypes
<1> QED  BY <1>1, <1>2, <1>3, <1>4, QueueSame, InPhaseKeeps DEF Before, Running

LEMMA HandleCloseKeeps == ASSUME Before, pc = "dispatch", "in" \in revents, handleClose PROVE ConnInv'
<1>1. Open
  BY ReportedIsOpen
<1>2. /\ state_' = "kDisconnected" /\ events_' = {} /\ muted' = TRUE
      /\ notified' = [notified EXCEPT !.down = @ + 1]
      /\ connections_' = HeldAfterClose /\ channel_' = ChannelAfterClose
      /\ baseQueue' = IF SameLoop THEN baseQueue ELSE Append(baseQueue, "removeConnectionInLoop")
      /\ revents' = revents \ {"in"} /\ (pc' = "idle" => revents' = {}) /\ pc' \in {"idle", "dispatch"}
      /\ UNCHANGED <<loop_, outputBuffer_, ioQueue, holders, issued, wire, taken,
                     socket_, calls, late, failed>>
  BY <1>1 DEF handleClose, Open, Handled
<1>3. DataTypes' /\ Data'
  BY <1>2, OthersKeepData DEF Before, DataTypes
<1>4. notified' = [up |-> 1, down |-> 1]
  BY <1>1, <1>2 DEF Open
<1>5. /\ SameLoop => baseQueue' = << >> /\ ~connections_' /\ channel_' = "removed"
      /\ ~SameLoop => /\ baseQueue' = <<"removeConnectionInLoop">>
                      /\ connections_' = connections_ /\ channel_' = channel_
  BY <1>1, <1>2 DEF Open, HeldAfterClose, ChannelAfterClose
<1>6. ControlTypes'
  <2>1. baseQueue' \in Seq({"removeConnectionInLoop"})
    <3>1. << >> \in Seq({"removeConnectionInLoop"})
      BY EmptySeq
    <3>2. <<"removeConnectionInLoop">> \in Seq({"removeConnectionInLoop"})
      OBVIOUS
    <3> QED  BY <1>5, <3>1, <3>2
  <2>2. notified' \in [{"up", "down"} -> 0 .. 2]
    BY <1>4, NotifiedIs
  <2>3. connections_' \in BOOLEAN /\ channel_' \in {"new", "registered", "removed"}
    BY <1>2 DEF Before, ControlTypes, HeldAfterClose, ChannelAfterClose
  <2> QED  BY <1>2, <2>1, <2>2, <2>3 DEF Before, ControlTypes, States
<1>7. Closed'
  <2>1. CASE SameLoop
    <3>1. Gone'
      BY <1>1, <1>2, <1>5, <2>1 DEF Gone, Open, SameLoop
    <3> QED  BY <1>2, <1>4, <3>1 DEF Closed
  <2>2. CASE ~SameLoop
    <3>1. Leaving'
      BY <1>1, <1>2, <1>5, <2>2 DEF Leaving, Open
    <3> QED  BY <1>2, <1>4, <3>1 DEF Closed
  <2> QED  BY <2>1, <2>2
<1>8. Polled'
  BY <1>2 DEF Polled
<1>9. TypeOK' => LifeInv'
  BY <1>2, <1>7, <1>8, LifeIsOrdered DEF Before, Running, Life
<1> QED  BY <1>3, <1>6, <1>9, StepKeeps

LEMMA HandleReadKeeps == Before /\ handleRead => ConnInv'
BY ReadKeeps, HandleCloseKeeps DEF handleRead

LEMMA HandleWriteKeeps == Before /\ handleWrite => ConnInv'
<1> SUFFICES ASSUME Before, handleWrite PROVE ConnInv'
  OBVIOUS
<1>1. /\ pc = "dispatch" /\ pc' = "idle" /\ revents' = {}
      /\ WriteSome \/ WriteFails \/ NotWriting
      /\ UNCHANGED <<baseQueue, connections_, holders, issued, taken, notified, calls, failed, late>>
  BY DEF handleWrite, Handled, owners
<1>2. Open \/ Closed
  BY <1>1, InUse DEF Unborn, Connecting, Untouched
<1>3. CASE WriteSome
  <2>1. /\ UNCHANGED <<loop_, state_, channel_, muted>>
        /\ "read" \in events_' <=> "read" \in events_
        /\ ioQueue' = ioQueue \/ ioQueue' = Append(ioQueue, [run |-> "writeComplete"])
    BY <1>3 DEF WriteSome, WatchedAfter, Offered
  <2>2. DataTypes' /\ Data'
    BY <1>1, <1>3, WriteSomeKeepsData DEF Before
  <2> DEFINE f == [run |-> "writeComplete"]
  <2>3. f \in Functors /\ f.run \notin Steps \cup Plain /\ (ioQueue' = ioQueue \/ ioQueue' = Append(ioQueue, f))
    BY <2>1, FunctorsAre DEF Steps, Plain
  <2> HIDE DEF f
  <2>4. ioQueue' \in Seq(Functors)
    BY <2>3, AppendOf DEF Before, ControlTypes
  <2>5. QueueKept
    BY <1>1, <2>3, QueueSame, QueueAppend DEF Before
  <2>6. ControlTypes'
    BY <1>1, <2>1, <2>4 DEF Before, ControlTypes
  <2> QED  BY <1>1, <1>2, <2>1, <2>2, <2>5, <2>6, InPhaseKeeps DEF Before, Running
<1>4. CASE WriteFails \/ NotWriting
  <2>1. /\ socket_' \in Sockets /\ socket_'.fin = socket_.fin /\ taken' = taken
        /\ UNCHANGED <<loop_, state_, outputBuffer_, channel_, events_, muted, ioQueue, wire>>
    BY <1>1, <1>4 DEF WriteFails, NotWriting, object, channel, Before, DataTypes, Sockets
  <2>2. DataTypes' /\ Data'
    BY <2>1, OthersKeepData DEF Before, DataTypes
  <2>3. ControlTypes'
    BY <1>1, <2>1 DEF Before, ControlTypes
  <2> QED  BY <1>1, <1>2, <2>1, <2>2, <2>3, QueueSame, InPhaseKeeps DEF Before, Running
<1> QED  BY <1>1, <1>3, <1>4

(* User code in a callback.                                                *)
LEMMA CallbackInUse == ASSUME Before, pc = "callback" PROVE Open \/ Closed
BY InUse DEF Unborn, Connecting, Untouched

LEMMA SendInCallbackKeeps ==
    ASSUME Before, NEW n \in Lengths, sendInCallback(n) PROVE ConnInv'
<1>1. /\ pc = "callback" /\ issued + n <= MaxBytes /\ issued' = issued + n
      /\ sendInLoop(n, ioQueue)
      /\ UNCHANGED <<baseQueue, pc, revents, connections_, holders, notified, calls, late>>
  BY DEF sendInCallback, MaySend, owners
<1>2. DataTypes' /\ Data' /\ SendLeaves(ioQueue)
  BY <1>1, SendInLoopKeeps
<1>3. QueueKept /\ ioQueue' \in Seq(Functors)
  <2>1. CASE ioQueue' = ioQueue
    BY <1>1, <2>1, QueueSame DEF Before, ControlTypes
  <2>2. ASSUME NEW f \in Functors, f.run \notin Steps \cup Plain, ioQueue' = Append(ioQueue, f)
        PROVE  QueueKept /\ ioQueue' \in Seq(Functors)
    BY <1>1, <2>2, QueueAppend, AppendOf DEF Before, ControlTypes
  <2> QED  BY <1>2, <2>1, <2>2 DEF SendLeaves
<1>4. ControlTypes'
  <2>1. issued' \in 0 .. MaxBytes
    BY <1>1, LengthsAssumption, SizesAssumption
       DEF Before, ControlTypes, LengthsAssumption, SizesAssumption
  <2> QED  BY <1>1, <1>2, <1>3, <2>1 DEF Before, ControlTypes, SendLeaves
<1>5. "in" \in revents => Open
  BY DEF Before, Life, Polled
<1> QED  BY <1>1, <1>2, <1>3, <1>4, <1>5, CallbackInUse, InPhaseKeeps DEF SendLeaves

LEMMA ShutdownInCallbackKeeps == Before /\ shutdownInCallback => ConnInv'
<1> SUFFICES ASSUME Before, shutdownInCallback PROVE ConnInv'
  OBVIOUS
<1>1. /\ pc = "callback" /\ state_' = "kDisconnecting" /\ socket_' = ShutDown(socket_, Writing)
      /\ UNCHANGED <<loop_, outputBuffer_, channel_, events_, muted, baseQueue, ioQueue, pc, revents,
                     connections_, holders, issued, wire, taken, notified, late, calls, failed>>
  BY DEF shutdownInCallback, channel, loops, owners, history
<1>2. DataTypes' /\ Data'
  <2>1. socket_' \in Sockets /\ (socket_'.fin => socket_.fin \/ ~Writing)
    BY <1>1 DEF ShutDown, Before, DataTypes, Sockets
  <2> QED  BY <1>1, <2>1, OthersKeepData DEF Before, DataTypes
<1>3. ControlTypes'
  BY <1>1 DEF Before, ControlTypes, States
<1>4. "in" \in revents => Open
  BY DEF Before, Life, Polled
<1> QED  BY <1>1, <1>2, <1>3, <1>4, CallbackInUse, QueueSame, InPhaseKeeps DEF Before, Running

LEMMA CallbackReturnsKeeps == Before /\ callbackReturns => ConnInv'
<1> SUFFICES ASSUME Before, callbackReturns PROVE ConnInv'
  OBVIOUS
<1>1. /\ pc = "callback" /\ pc' = IF revents = {} THEN "idle" ELSE "dispatch"
      /\ UNCHANGED <<loop_, state_, outputBuffer_, channel_, events_, muted, baseQueue, ioQueue, revents,
                     connections_, holders, issued, wire, taken,
                     notified, late, socket_, calls, failed>>
  BY DEF callbackReturns, object, channel, owners, history
<1>2. DataTypes' /\ Data'
  BY <1>1, OthersKeepData DEF Before, DataTypes
<1>3. ControlTypes'
  BY <1>1 DEF Before, ControlTypes
<1>4. "in" \in revents => Open
  BY DEF Before, Life, Polled
<1> QED  BY <1>1, <1>2, <1>3, <1>4, CallbackInUse, QueueSame, InPhaseKeeps DEF Before, Running

(* Other threads.                                                          *)
LEMMA UserInUse ==
    ASSUME Before, NEW t \in Users, t \in holders \/ calls[t] # Idle
    PROVE  ~(Unborn \/ Connecting) /\ (Open \/ Closed)
<1>1. ~(Unborn \/ Connecting)
  BY DEF Unborn, Connecting, Untouched, Calls0
<1> QED  BY <1>1, InUse

LEMMA CallsAre ==
    /\ [at |-> "idle"] \in Calls /\ [at |-> "setDisconnecting"] \in Calls
    /\ [at |-> "queueShutdown"] \in Calls
    /\ \A n \in Lengths : [at |-> "queueSend", len |-> n] \in Calls
BY DEF Calls

LEMMA SocketKept == ASSUME Before, UNCHANGED <<wire, taken, outputBuffer_, socket_, events_>>
                    PROVE  DataTypes' /\ Data'
BY OthersKeepData DEF Before, DataTypes

(* A thread enters send or shutdown, or gets or drops its pointer.         *)
LEMMA UserOutsideKeeps ==
    ASSUME Before, NEW t \in Users,
           \/ \E n \in Lengths : send(t, n)
           \/ shutdown(t) \/ share(t) \/ release(t)
    PROVE  ConnInv'
<1>1. UNCHANGED <<object, channel, loops, connections_, notified, late, failed, socket_, wire,
                taken>>
  BY DEF send, shutdown, share, release, owners, history
<1>2. ~(Unborn \/ Connecting)
  <2>1. CASE share(t)
    BY <2>1 DEF share, Unborn, Connecting, Untouched
  <2>2. CASE t \in holders
    BY <2>2, UserInUse
  <2> QED  BY <2>1, <2>2 DEF send, shutdown, release, MayUse
<1>3. DataTypes' /\ Data'
  BY <1>1, SocketKept DEF object, channel
<1>4. holders' \in SUBSET Users /\ calls' \in [Users -> Calls] /\ issued' \in 0 .. MaxBytes
  <2>1. ASSUME NEW n \in Lengths, send(t, n)
        PROVE  holders' \in SUBSET Users /\ calls' \in [Users -> Calls] /\ issued' \in 0 .. MaxBytes
    <3>1. issued' \in 0 .. MaxBytes
      BY <2>1, LengthsAssumption, SizesAssumption
         DEF send, MaySend, Before, ControlTypes, LengthsAssumption, SizesAssumption
    <3>2. calls' \in [Users -> Calls]
      <4> DEFINE c == [at |-> "queueSend", len |-> n]
      <4>1. c \in Calls /\ calls' = [calls EXCEPT ![t] = c]
        BY <2>1, CallsAre DEF send
      <4> HIDE DEF c
      <4> QED  BY <4>1 DEF Before, ControlTypes
    <3> QED  BY <2>1, <3>1, <3>2 DEF send, owners, Before, ControlTypes
  <2>2. CASE shutdown(t)
    <3> DEFINE c == [at |-> "setDisconnecting"]
    <3>1. c \in Calls /\ calls' = [calls EXCEPT ![t] = c]
      BY <2>2, CallsAre DEF shutdown
    <3> HIDE DEF c
    <3> QED  BY <2>2, <3>1 DEF shutdown, owners, history, Before, ControlTypes
  <2>3. CASE share(t) \/ release(t)
    BY <2>3 DEF share, release, history, Before, ControlTypes
  <2> QED  BY <2>1, <2>2, <2>3
<1>5. ControlTypes'
  BY <1>1, <1>4 DEF object, channel, loops, Before, ControlTypes
<1> QED  BY <1>1, <1>2, <1>3, <1>5, OutsideKeeps

LEMMA SetDisconnectingKeeps ==
    ASSUME Before, NEW t \in Users, setDisconnecting(t) PROVE ConnInv'
<1> DEFINE c == [at |-> "queueShutdown"]
<1>1. /\ calls[t] # Idle /\ state_' = "kDisconnecting" /\ calls' = [calls EXCEPT ![t] = c]
      /\ UNCHANGED <<loop_, outputBuffer_, channel_, events_, muted, baseQueue, ioQueue, pc, revents,
                     connections_, holders, issued, wire, taken, notified, late, socket_, failed>>
  BY DEF setDisconnecting, Idle, channel, loops, owners, history
<1>2. c \in Calls
  BY CallsAre
<1> HIDE DEF c
<1>3. DataTypes' /\ Data'
  BY <1>1, SocketKept
<1>4. ControlTypes'
  BY <1>1, <1>2 DEF Before, ControlTypes, States
<1>5. (pc = "idle" => revents = {}) /\ (pc = "reported" \/ "in" \in revents => Open)
  BY DEF Before, Life, Polled
<1> QED  BY <1>1, <1>3, <1>4, <1>5, UserInUse, QueueSame, InPhaseKeeps DEF Before, Running

LEMMA UserQueuesKeeps ==
    ASSUME Before, NEW t \in Users, queueSend(t) \/ queueShutdown(t) PROVE ConnInv'
<1>1. /\ calls[t] # Idle /\ calls' = [calls EXCEPT ![t] = Idle] /\ late' = (late \/ ~connections_)
      /\ UNCHANGED <<loop_, state_, outputBuffer_, channel_, events_, muted, baseQueue, pc, revents,
                     connections_, holders, issued, wire, taken, notified, socket_, failed>>
  BY DEF queueSend, queueShutdown, Idle, object, channel, owners
<1>2. PICK f \in Functors : f.run \in Plain /\ ioQueue' = Append(ioQueue, f)
  <2>1. CASE queueSend(t)
    <3> DEFINE n == calls[t].len
               f == [run |-> "sendInLoop", len |-> n]
    <3>1. calls[t].at = "queueSend" /\ ioQueue' = Append(ioQueue, f)
      BY <2>1 DEF queueSend
    <3>2. n \in Lengths
      BY <3>1 DEF Before, ControlTypes, Calls
    <3>3. f \in Functors /\ f.run \in Plain
      BY <3>2, FunctorsAre DEF Plain
    <3> QED  BY <3>1, <3>3
  <2>2. CASE queueShutdown(t)
    <3> DEFINE f == [run |-> "shutdownInLoop"]
    <3>1. f \in Functors /\ f.run \in Plain /\ ioQueue' = Append(ioQueue, f)
      BY <2>2, FunctorsAre DEF queueShutdown, Plain
    <3> QED  BY <3>1
  <2> QED  BY <2>1, <2>2
<1>3. f.run \notin Steps
  BY <1>2 DEF Steps, Plain
<1>4. QueueKept
  BY <1>1, <1>2, <1>3, QueueAppend DEF Before
<1>5. DataTypes' /\ Data'
  BY <1>1, SocketKept
<1>6. ControlTypes'
  <2>1. ioQueue' \in Seq(Functors)
    BY <1>2, AppendOf DEF Before, ControlTypes
  <2>2. Idle \in Calls
    BY CallsAre DEF Idle
  <2> QED  BY <1>1, <2>1, <2>2 DEF Before, ControlTypes
<1>7. (pc = "idle" => revents = {}) /\ (pc = "reported" \/ "in" \in revents => Open)
  BY DEF Before, Life, Polled
<1> QED  BY <1>1, <1>4, <1>5, <1>6, <1>7, UserInUse, InPhaseKeeps DEF Before, Running

LEMMA UserStepKeeps == ASSUME Before, NEW t \in Users, UserStep(t) PROVE ConnInv'
BY UserOutsideKeeps, SetDisconnectingKeeps, UserQueuesKeeps DEF UserStep

(* The peer and the network.                                               *)
LEMMA NetworkKeeps ==
    ASSUME Before, acknowledge \/ peerSends \/ peerCloses \/ peerResets PROVE ConnInv'
<1>1. /\ socket_' \in Sockets /\ socket_'.fin = socket_.fin
      /\ UNCHANGED <<object, channel, loops, connections_, holders, issued, wire, taken,
                     notified, late,
                     calls, failed>>
  <2>1. CASE acknowledge
    <3>1. socket_.room + 1 \in 0 .. SendBuffer
      BY <2>1, SizesAssumption DEF acknowledge, Before, DataTypes, Sockets, SizesAssumption
    <3> QED  BY <2>1, <3>1 DEF acknowledge, NetworkStep, owners, history, Before, DataTypes, Sockets
  <2>2. CASE peerSends \/ peerCloses \/ peerResets
    BY <2>2 DEF peerSends, peerCloses, peerResets, NetworkStep, owners, history, Before, DataTypes,
                Sockets
  <2> QED  BY <2>1, <2>2
<1>2. DataTypes' /\ Data'
  BY <1>1, OthersKeepData DEF object, channel, Before, DataTypes
<1>3. ControlTypes'
  BY <1>1 DEF object, channel, loops, Before, ControlTypes
<1> QED  BY <1>1, <1>2, <1>3, OutsideKeeps

-----------------------------------------------------------------------------
LEMMA NextRuns == Next => Running
BY DEF Next, newConnection, removeConnectionInLoop, IoStep, RunFunctor, poll, handleEvent, handleRead,
       handleWrite, callbackReturns, sendInCallback, shutdownInCallback, UserStep, send, queueSend,
       shutdown, setDisconnecting, queueShutdown, share, release, acknowledge, peerSends, peerCloses,
       peerResets, NetworkStep

LEMMA StutterKeeps == ConnInv /\ UNCHANGED vars => ConnInv'
<1> SUFFICES ASSUME ConnInv, UNCHANGED vars PROVE ConnInv'
  OBVIOUS
<1>1. UNCHANGED <<loop_, state_, channel_, events_, muted, outputBuffer_, connections_, baseQueue,
                  ioQueue, pc, revents, socket_, calls, holders, failed, issued, wire, taken,
                  notified, late>>
  BY DEF vars, object, channel, loops, owners, history
<1>2. TypeOK'
  BY <1>1 DEF ConnInv, TypeOK
<1>3. Data'
  BY <1>1 DEF ConnInv, Data, InOrder, Numbered, ShutdownAfterData, WritingMatchesBuffer, Writing
<1>4. OutlivesUse' /\ LifecycleOrdered'
  BY <1>1 DEF ConnInv, LifeInv, OutlivesUse, LifecycleOrdered, Alive, SameLoop, Running
<1>5. Life' <=> Life
  <2>1. (Unborn \/ Connecting \/ Open)' <=> (Unborn \/ Connecting \/ Open)
    BY <1>1 DEF Unborn, Connecting, Untouched, Calls0, Open
  <2>2. Closed' <=> Closed
    BY <1>1 DEF Closed, Leaving, Destroying, DestroyQueued, Gone, SameLoop
  <2>3. Polled' <=> Polled
    BY <1>1 DEF Polled, Open
  <2> QED  BY <2>1, <2>2, <2>3 DEF Life
<1> QED  BY <1>1, <1>2, <1>3, <1>4, <1>5 DEF ConnInv, LifeInv, Running

LEMMA ConnInvariant == Spec => []ConnInv
<1>1. ASSUME ConnInv, Next PROVE ConnInv'
  <2>1. Before
    BY <1>1, NextRuns, BeforeIs
  <2>2. CASE newConnection
    BY <2>1, <2>2, NewConnectionKeeps
  <2>3. CASE removeConnectionInLoop
    BY <2>1, <2>3, RemoveConnectionKeeps
  <2>4. CASE IoStep
    BY <2>1, <2>4, RunFunctorKeeps, PollKeeps, HandleEventKeeps, HandleReadKeeps, HandleWriteKeeps,
       CallbackReturnsKeeps DEF IoStep
  <2>5. ASSUME NEW n \in Lengths, sendInCallback(n) PROVE ConnInv'
    BY <2>1, <2>5, SendInCallbackKeeps
  <2>6. CASE shutdownInCallback
    BY <2>1, <2>6, ShutdownInCallbackKeeps
  <2>7. ASSUME NEW t \in Users, UserStep(t) PROVE ConnInv'
    BY <2>1, <2>7, UserStepKeeps
  <2>8. CASE acknowledge \/ peerSends \/ peerCloses \/ peerResets
    BY <2>1, <2>8, NetworkKeeps
  <2> QED  BY <1>1, <2>2, <2>3, <2>4, <2>5, <2>6, <2>7, <2>8 DEF Next
<1> QED  BY <1>1, InitConnInv, StutterKeeps, PTL DEF Spec

(* Every variable keeps to its values; issued stays within its bound, and  *)
(* the user is called back at most twice either way.                       *)
THEOREM TypeCorrect == Spec => []TypeOK
BY ConnInvariant, PTL DEF ConnInv

(* The bytes that sendInLoop took reach the kernel in order, none lost and *)
(* none twice, whatever is written directly, appended or left by a partial *)
(* write (TcpConnection.cc:162-204 with handleWrite, 78-115).              *)
THEOREM BytesStayInOrder == Spec => []InOrder
BY ConnInvariant, PTL DEF ConnInv, Data

(* The FIN waits for what was taken before it (TcpConnection.cc:96-99,     *)
(* 214-221).                                                               *)
THEOREM FinAfterData == Spec => []ShutdownAfterData
BY ConnInvariant, PTL DEF ConnInv, Data

(* An open connection is watched for POLLOUT exactly while outputBuffer_   *)
(* holds something (TcpConnection.cc:94, 203-205).                         *)
THEOREM WatchedWhileWaiting == Spec => []WritingMatchesBuffer
BY ConnInvariant, PTL DEF ConnInv, Data

(* The connection exists for whoever uses it, although sendInLoop and      *)
(* shutdownInLoop are bound to a plain this (TcpConnection.cc:157, 211).   *)
THEOREM ConnectionOutlivesUse == Spec => []OutlivesUse
BY ConnInvariant, PTL DEF ConnInv, LifeInv

(* Up before down, once each; out of the map before out of the poller; and *)
(* the assertion of handleClose holds (TcpConnection.cc:119).              *)
THEOREM LifeInOrder == Spec => []LifecycleOrdered
BY ConnInvariant, PTL DEF ConnInv, LifeInv
=============================================================================
