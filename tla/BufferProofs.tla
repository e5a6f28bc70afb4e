---------------------------- MODULE BufferProofs ----------------------------
(***************************************************************************)
(* Proofs about Buffer, for every size of the buffer, of its prependable   *)
(* space, of readFd's second buffer and of the data.                       *)
(***************************************************************************)
EXTENDS Buffer, SequenceTheorems, TLAPS

Ordered(b) == b.readerIndex_ <= b.writerIndex_ /\ b.writerIndex_ <= b.size

(* The bytes of an operation are a sequence of Byte.                       *)
LEMMA DataSeq ==
    ASSUME NEW data \in Data
    PROVE  data \in Seq(Byte) /\ Len(data) \in 1 .. MaxLen
<1>1. PICK n \in 1 .. MaxLen : data \in [1 .. n -> Byte]
  BY DEF Data
<1>2. n \in Nat
  BY SizeAssumption DEF SizeAssumption
<1>3. data \in Seq(Byte) /\ Len(data) = n
  BY <1>1, <1>2
<1> QED  BY <1>3

(* The readable bytes are a sequence of Byte.                              *)
LEMMA ContentSeq ==
    ASSUME NEW b, IsBuffer(b), Ordered(b)
    PROVE  Content(b) \in Seq(Byte) /\ Len(Content(b)) = readableBytes(b) /\ readableBytes(b) \in Nat
<1>1. readableBytes(b) \in Nat
  BY DEF IsBuffer, Ordered, readableBytes
<1>2. \A i \in 1 .. readableBytes(b) : b.buffer_[b.readerIndex_ + i - 1] \in Byte
  BY DEF IsBuffer, Ordered, readableBytes, Memory
<1>3. Content(b) \in [1 .. readableBytes(b) -> Byte]
  BY <1>2 DEF Content
<1> QED  BY <1>1, <1>3

(* Copying bytes into the vector keeps it a vector of bytes of that size.  *)
LEMMA CopiedToType ==
    ASSUME NEW b, IsBuffer(b), NEW at \in Nat, NEW data \in Seq(Byte)
    PROVE  CopiedTo(b, at, data) \in Memory(b.size)
BY DEF CopiedTo, Memory, IsBuffer

(* ensureWritable makes the room it is asked for, keeps the readable       *)
(* bytes, and lets the vector grow only if there is no room inside it.     *)
LEMMA EnsureWritable ==
    ASSUME NEW b, IsBuffer(b), Ordered(b), NEW len \in Nat, kCheapPrepend <= b.size
    PROVE  LET e == ensureWritable(b, len) IN
           /\ IsBuffer(e) /\ Ordered(e)
           /\ writableBytes(e) >= len
           /\ Content(e) = Content(b) /\ readableBytes(e) = readableBytes(b)
           /\ b.size <= e.size
           /\ \/ e.size = b.size
              \/ e.size = b.writerIndex_ + len /\ ~SpaceInside(b, len)
<1> DEFINE e == ensureWritable(b, len)
<1>0. /\ kCheapPrepend \in Nat /\ b.size \in Nat
      /\ b.readerIndex_ \in Nat /\ b.writerIndex_ \in Nat
  BY SizeAssumption DEF IsBuffer, SizeAssumption
<1>1. CASE writableBytes(b) >= len
  <2>1. e = b
    BY <1>1, <1>0 DEF ensureWritable, writableBytes
  <2> QED  BY <2>1, <1>1, <1>0
<1>2. CASE writableBytes(b) < len /\ SpaceInside(b, len)
  <2>1. e = Compacted(b)
    BY <1>2 DEF ensureWritable, makeSpace
  <2>2. /\ e.buffer_ = CopiedTo(b, kCheapPrepend, Content(b)) /\ e.size = b.size
        /\ e.readerIndex_ = kCheapPrepend
        /\ e.writerIndex_ = kCheapPrepend + readableBytes(b)
        /\ e = [buffer_ |-> e.buffer_, size |-> e.size,
                readerIndex_ |-> e.readerIndex_, writerIndex_ |-> e.writerIndex_]
    BY <2>1 DEF Compacted
  <2>3. Content(b) \in Seq(Byte) /\ Len(Content(b)) = readableBytes(b) /\ readableBytes(b) \in Nat
    BY ContentSeq
  <2>4. e.buffer_ \in Memory(e.size)
    BY <2>2, <2>3, <1>0, CopiedToType
  <2>5. IsBuffer(e)
    BY <2>2, <2>3, <2>4, <1>0 DEF IsBuffer
  <2>6. kCheapPrepend < b.readerIndex_
    BY <1>2, <1>0 DEF SpaceInside, writableBytes, prependableBytes
  <2>7. Ordered(e) /\ writableBytes(e) >= len /\ readableBytes(e) = readableBytes(b)
    BY <2>2, <2>3, <2>6, <1>2, <1>0
    DEF Ordered, SpaceInside, writableBytes, prependableBytes, readableBytes
  <2>8. \A i \in 1 .. readableBytes(b) : e.buffer_[e.readerIndex_ + i - 1] = Content(b)[i]
    <3> SUFFICES ASSUME NEW i \in 1 .. readableBytes(b)
                 PROVE  e.buffer_[kCheapPrepend + i - 1] = Content(b)[i]
      BY <2>2
    <3> DEFINE k == kCheapPrepend + i - 1
    <3>1. /\ k \in 0 .. b.size - 1
          /\ kCheapPrepend <= k /\ k < kCheapPrepend + Len(Content(b))
          /\ k - kCheapPrepend + 1 = i
      BY <2>3, <2>6, <1>0 DEF Ordered, readableBytes
    <3>2. e.buffer_[k] = Content(b)[k - kCheapPrepend + 1]
      <4> HIDE DEF k, e
      <4> QED  BY <3>1, <2>2 DEF CopiedTo
    <3> QED  BY <3>1, <3>2
  <2>9. Content(e) = Content(b)
    BY <2>7, <2>8 DEF Content
  <2> QED  BY <2>2, <2>5, <2>7, <2>9, <1>0
<1>3. CASE writableBytes(b) < len /\ ~SpaceInside(b, len)
  <2>1. e = Resized(b, b.writerIndex_ + len)
    BY <1>3 DEF ensureWritable, makeSpace
  <2>2. /\ e.buffer_ = ZeroFilled(b, b.writerIndex_ + len)
        /\ e.size = b.writerIndex_ + len
        /\ e.readerIndex_ = b.readerIndex_
        /\ e.writerIndex_ = b.writerIndex_
        /\ e = [buffer_ |-> e.buffer_, size |-> e.size,
                readerIndex_ |-> e.readerIndex_, writerIndex_ |-> e.writerIndex_]
    BY <2>1 DEF Resized
  <2>3. b.size < b.writerIndex_ + len
    BY <1>3, <1>0 DEF writableBytes
  <2>4. e.buffer_ \in Memory(e.size)
    BY <2>2, <1>0, ByteAssumption DEF ByteAssumption, IsBuffer, Memory, ZeroFilled
  <2>5. IsBuffer(e)
    BY <2>2, <2>4, <1>0 DEF IsBuffer
  <2>6. Ordered(e) /\ writableBytes(e) >= len /\ readableBytes(e) = readableBytes(b)
    BY <2>2, <1>0 DEF Ordered, writableBytes, readableBytes
  <2>7. \A i \in 1 .. readableBytes(b) :
            e.buffer_[b.readerIndex_ + i - 1] = b.buffer_[b.readerIndex_ + i - 1]
    BY <2>2, <2>3, <1>0 DEF Ordered, readableBytes, ZeroFilled
  <2>8. Content(e) = Content(b)
    BY <2>2, <2>6, <2>7 DEF Content
  <2> QED  BY <2>2, <2>3, <2>5, <2>6, <2>8, <1>3, <1>0
<1> QED  BY <1>1, <1>2, <1>3, <1>0 DEF writableBytes

(* Bytes put into the writable part follow the readable ones.              *)
LEMMA WrittenAfter ==
    ASSUME NEW b, IsBuffer(b), Ordered(b),
           NEW data \in Seq(Byte), Len(data) <= writableBytes(b)
    PROVE  LET w == Written(b, data) IN
           /\ IsBuffer(w) /\ Ordered(w) /\ w.size = b.size
           /\ w.readerIndex_ = b.readerIndex_
           /\ w.writerIndex_ = b.writerIndex_ + Len(data)
           /\ readableBytes(w) = readableBytes(b) + Len(data)
           /\ Content(w) = Content(b) \o data
<1> DEFINE w == Written(b, data)
<1>0. /\ b.size \in Nat /\ b.readerIndex_ \in Nat /\ b.writerIndex_ \in Nat
      /\ Len(data) \in Nat
  BY DEF IsBuffer
<1>1. /\ w.buffer_ = CopiedTo(b, b.writerIndex_, data) /\ w.size = b.size
      /\ w.readerIndex_ = b.readerIndex_
      /\ w.writerIndex_ = b.writerIndex_ + Len(data)
      /\ w = [buffer_ |-> w.buffer_, size |-> w.size,
              readerIndex_ |-> w.readerIndex_, writerIndex_ |-> w.writerIndex_]
  BY DEF Written
<1>2. w.buffer_ \in Memory(w.size)
  BY <1>0, <1>1, CopiedToType
<1>3. IsBuffer(w)
  BY <1>0, <1>1, <1>2 DEF IsBuffer
<1>4. Ordered(w) /\ readableBytes(w) = readableBytes(b) + Len(data)
  BY <1>0, <1>1 DEF Ordered, readableBytes, writableBytes
<1>5. /\ Content(b) \in Seq(Byte) /\ Len(Content(b)) = readableBytes(b)
      /\ readableBytes(b) \in Nat
  BY ContentSeq
<1>6. /\ Content(w) \in Seq(Byte) /\ Len(Content(w)) = readableBytes(w)
  BY <1>3, <1>4, ContentSeq
<1>7. \A i \in 1 .. readableBytes(w) : Content(w)[i] = (Content(b) \o data)[i]
  <2> SUFFICES ASSUME NEW i \in 1 .. readableBytes(w)
               PROVE  Content(w)[i] = (Content(b) \o data)[i]
    OBVIOUS
  <2> DEFINE k == b.readerIndex_ + i - 1
  <2>1. k \in 0 .. b.size - 1
    <3>1. i \in Nat /\ 1 <= i /\ i <= b.writerIndex_ - b.readerIndex_ + Len(data)
      BY <1>0, <1>4 DEF Ordered, readableBytes
    <3>2. b.writerIndex_ + Len(data) <= b.size
      BY <1>0 DEF writableBytes
    <3> QED  BY <3>1, <3>2, <1>0
  <2>2. Content(w)[i] = CopiedTo(b, b.writerIndex_, data)[k]
    BY <1>1 DEF Content
  <2>3. CASE i <= readableBytes(b)
    <3>1. k < b.writerIndex_
      BY <2>3, <1>0 DEF readableBytes
    <3>2. CopiedTo(b, b.writerIndex_, data)[k] = b.buffer_[k]
      <4> HIDE DEF k
      <4> QED  BY <3>1, <2>1, <1>0 DEF CopiedTo
    <3>3. Content(b)[i] = b.buffer_[k]
      BY <2>3, <1>0 DEF Content, readableBytes
    <3> QED  BY <2>2, <2>3, <3>2, <3>3, <1>5, <1>4
  <2>4. CASE i > readableBytes(b)
    <3>1. /\ b.writerIndex_ <= k /\ k < b.writerIndex_ + Len(data)
          /\ k - b.writerIndex_ + 1 = i - readableBytes(b)
      BY <2>4, <1>0, <1>4 DEF readableBytes
    <3>2. CopiedTo(b, b.writerIndex_, data)[k] = data[k - b.writerIndex_ + 1]
      <4> HIDE DEF k
      <4> QED  BY <3>1, <2>1, <1>0 DEF CopiedTo
    <3> QED  BY <2>2, <2>4, <3>1, <3>2, <1>5, <1>4
  <2> QED  BY <2>3, <2>4, <1>5, <1>4, <1>0
<1>8. /\ Content(b) \o data \in Seq(Byte)
      /\ Len(Content(b) \o data) = readableBytes(w)
  BY <1>5, <1>4
<1>9. Content(w) = Content(b) \o data
  BY <1>6, <1>7, <1>8, SeqEqual
<1> QED  BY <1>1, <1>3, <1>4, <1>9

(* append puts its bytes at the end, and grows the vector only when the    *)
(* space in front of the readable bytes does not suffice.                  *)
LEMMA AppendedAfter ==
    ASSUME NEW b, IsBuffer(b), Ordered(b), kCheapPrepend <= b.size, NEW data \in Seq(Byte)
    PROVE  LET a == Appended(b, data) IN
           /\ WrittenFits(b, Len(data))
           /\ IsBuffer(a) /\ Ordered(a) /\ b.size <= a.size
           /\ Content(a) = Content(b) \o data
           /\ \/ a.size = b.size
              \/ a.size = b.writerIndex_ + Len(data) /\ ~SpaceInside(b, Len(data))
<1> DEFINE e == ensureWritable(b, Len(data))
<1>1. Len(data) \in Nat
  OBVIOUS
<1>2. /\ IsBuffer(e) /\ Ordered(e) /\ writableBytes(e) >= Len(data)
      /\ Content(e) = Content(b) /\ b.size <= e.size
      /\ \/ e.size = b.size
         \/ e.size = b.writerIndex_ + Len(data) /\ ~SpaceInside(b, Len(data))
  BY <1>1, EnsureWritable
<1>3. writableBytes(e) \in Int
  BY <1>2 DEF IsBuffer, writableBytes
<1> HIDE DEF e
<1>4. LET w == Written(e, data) IN
      /\ IsBuffer(w) /\ Ordered(w) /\ w.size = e.size
      /\ Content(w) = Content(e) \o data
  BY <1>1, <1>2, <1>3, WrittenAfter
<1>5. Appended(b, data) = Written(e, data) /\ WrittenFits(b, Len(data))
  BY <1>2 DEF Appended, WrittenFits, e
<1> QED  BY <1>2, <1>4, <1>5

(* prepend puts its bytes in front.                                        *)
LEMMA PrependedBefore ==
    ASSUME NEW b, IsBuffer(b), Ordered(b),
           NEW data \in Seq(Byte), Len(data) <= prependableBytes(b)
    PROVE  LET p == Prepended(b, data) IN
           /\ IsBuffer(p) /\ Ordered(p) /\ p.size = b.size
           /\ Content(p) = data \o Content(b)
<1> DEFINE p == Prepended(b, data)
           at == b.readerIndex_ - Len(data)
<1>0. /\ b.size \in Nat /\ b.readerIndex_ \in Nat /\ b.writerIndex_ \in Nat
      /\ Len(data) \in Nat /\ at \in Nat
  BY DEF IsBuffer, prependableBytes
<1>1. /\ p.buffer_ = CopiedTo(b, at, data) /\ p.size = b.size
      /\ p.readerIndex_ = at
      /\ p.writerIndex_ = b.writerIndex_
      /\ p = [buffer_ |-> p.buffer_, size |-> p.size,
              readerIndex_ |-> p.readerIndex_, writerIndex_ |-> p.writerIndex_]
  BY DEF Prepended
<1>2. p.buffer_ \in Memory(p.size)
  BY <1>0, <1>1, CopiedToType
<1>3. IsBuffer(p)
  BY <1>0, <1>1, <1>2 DEF IsBuffer
<1>4. Ordered(p) /\ readableBytes(p) = Len(data) + readableBytes(b)
  BY <1>0, <1>1 DEF Ordered, readableBytes
<1>5. /\ Content(b) \in Seq(Byte) /\ Len(Content(b)) = readableBytes(b)
      /\ readableBytes(b) \in Nat
  BY ContentSeq
<1>6. /\ Content(p) \in Seq(Byte) /\ Len(Content(p)) = readableBytes(p)
  BY <1>3, <1>4, ContentSeq
<1>7. \A i \in 1 .. readableBytes(p) : Content(p)[i] = (data \o Content(b))[i]
  <2> SUFFICES ASSUME NEW i \in 1 .. readableBytes(p)
               PROVE  Content(p)[i] = (data \o Content(b))[i]
    OBVIOUS
  <2> DEFINE k == at + i - 1
  <2>1. k \in 0 .. b.size - 1
    BY <1>0, <1>1, <1>4 DEF Ordered, readableBytes
  <2>2. Content(p)[i] = CopiedTo(b, at, data)[k]
    BY <1>1 DEF Content
  <2>3. CASE i <= Len(data)
    <3>1. at <= k /\ k < at + Len(data) /\ k - at + 1 = i
      BY <2>3, <1>0
    <3>2. CopiedTo(b, at, data)[k] = data[k - at + 1]
      <4> HIDE DEF k, at
      <4> QED  BY <3>1, <2>1, <1>0 DEF CopiedTo
    <3> QED  BY <2>2, <2>3, <3>1, <3>2, <1>5, <1>4
  <2>4. CASE i > Len(data)
    <3>1. k >= at + Len(data) /\ k = b.readerIndex_ + (i - Len(data)) - 1
      BY <2>4, <1>0
    <3>2. CopiedTo(b, at, data)[k] = b.buffer_[k]
      <4> HIDE DEF k, at
      <4> QED  BY <3>1, <2>1, <1>0 DEF CopiedTo
    <3>3. i - Len(data) \in 1 .. readableBytes(b)
      BY <2>4, <1>0, <1>4, <1>5
    <3>4. Content(b)[i - Len(data)] = b.buffer_[k]
      BY <3>1, <3>3 DEF Content
    <3>5. i - Len(data) \in 1 .. Len(Content(b)) /\ i = Len(data) + (i - Len(data))
      BY <3>3, <1>5, <1>0, <1>4
    <3>6. (data \o Content(b))[i] = Content(b)[i - Len(data)]
      BY <3>5, <2>4, <1>5, <1>0, ConcatProperties
    <3> QED  BY <2>2, <3>2, <3>4, <3>6
  <2> QED  BY <2>3, <2>4, <1>0, <1>4, <1>5
<1>8. /\ data \o Content(b) \in Seq(Byte)
      /\ Len(data \o Content(b)) = readableBytes(p)
  BY <1>5, <1>4
<1>9. Content(p) = data \o Content(b)
  BY <1>6, <1>7, <1>8, SeqEqual
<1> QED  BY <1>1, <1>3, <1>4, <1>9

(* retrieve takes bytes from the front, or all of them.                    *)
LEMMA RetrievedFront ==
    ASSUME NEW b, IsBuffer(b), Ordered(b), kCheapPrepend <= b.size, NEW len \in Nat
    PROVE  LET r == Retrieved(b, len) IN
           /\ IsBuffer(r) /\ Ordered(r) /\ r.size = b.size
           /\ Content(r) = IF len < Len(Content(b))
                           THEN SubSeq(Content(b), len + 1, Len(Content(b)))
                           ELSE << >>
<1> DEFINE r == Retrieved(b, len)
<1>0. /\ kCheapPrepend \in Nat /\ b.size \in Nat
      /\ b.readerIndex_ \in Nat /\ b.writerIndex_ \in Nat
  BY SizeAssumption DEF IsBuffer, SizeAssumption
<1>1. /\ Content(b) \in Seq(Byte) /\ Len(Content(b)) = readableBytes(b)
      /\ readableBytes(b) \in Nat
  BY ContentSeq
<1>2. /\ r.buffer_ = b.buffer_ /\ r.size = b.size
      /\ r = [buffer_ |-> r.buffer_, size |-> r.size,
              readerIndex_ |-> r.readerIndex_, writerIndex_ |-> r.writerIndex_]
  BY DEF Retrieved
<1>3. CASE len < readableBytes(b)
  <2>1. r.readerIndex_ = b.readerIndex_ + len /\ r.writerIndex_ = b.writerIndex_
    BY <1>3 DEF Retrieved
  <2>2. IsBuffer(r) /\ Ordered(r) /\ readableBytes(r) = readableBytes(b) - len
    BY <1>0, <1>2, <1>3, <2>1 DEF IsBuffer, Ordered, readableBytes
  <2>3. Content(r) = SubSeq(Content(b), len + 1, Len(Content(b)))
    <3>1. /\ Content(r) \in Seq(Byte) /\ Len(Content(r)) = readableBytes(b) - len
      BY <2>2, ContentSeq
    <3>2. /\ SubSeq(Content(b), len + 1, Len(Content(b))) \in Seq(Byte)
          /\ Len(SubSeq(Content(b), len + 1, Len(Content(b)))) = readableBytes(b) - len
      BY <1>1, <1>3, SubSeqProperties
    <3>3. \A i \in 1 .. readableBytes(b) - len :
             Content(r)[i] = SubSeq(Content(b), len + 1, Len(Content(b)))[i]
      <4> SUFFICES ASSUME NEW i \in 1 .. readableBytes(b) - len
                   PROVE  Content(r)[i] = SubSeq(Content(b), len + 1, Len(Content(b)))[i]
        OBVIOUS
      <4>1. Content(r)[i] = b.buffer_[b.readerIndex_ + len + i - 1]
        BY <2>1, <2>2, <1>2 DEF Content
      <4>2. len + i \in 1 .. readableBytes(b)
        BY <1>1
      <4>3. Content(b)[len + i] = b.buffer_[b.readerIndex_ + (len + i) - 1]
        BY <4>2 DEF Content
      <4>4. SubSeq(Content(b), len + 1, Len(Content(b)))[i] = Content(b)[len + i]
        <5>1. /\ len + 1 \in Int /\ Len(Content(b)) \in Int
              /\ \A j \in len + 1 .. Len(Content(b)) : Content(b)[j] \in Byte
          BY <1>1
        <5>2. \A j \in 1 .. Len(Content(b)) - (len + 1) + 1 :
                 SubSeq(Content(b), len + 1, Len(Content(b)))[j] = Content(b)[len + 1 + j - 1]
          BY <5>1, SubSeqProperties
        <5>3. i \in 1 .. Len(Content(b)) - (len + 1) + 1 /\ len + 1 + i - 1 = len + i
          BY <1>1
        <5> QED  BY <5>2, <5>3
      <4>5. b.readerIndex_ + (len + i) - 1 = b.readerIndex_ + len + i - 1
        BY <1>0, <1>1
      <4> QED  BY <4>1, <4>3, <4>4, <4>5
    <3> QED  BY <3>1, <3>2, <3>3, SeqEqual
  <2> QED  BY <1>1, <1>2, <1>3, <2>2, <2>3
<1>4. CASE ~(len < readableBytes(b))
  <2>1. r.readerIndex_ = kCheapPrepend /\ r.writerIndex_ = kCheapPrepend
    BY <1>4 DEF Retrieved
  <2>2. IsBuffer(r) /\ Ordered(r) /\ readableBytes(r) = 0
    BY <1>0, <1>2, <2>1 DEF IsBuffer, Ordered, readableBytes
  <2>3. Content(r) = << >>
    <3>1. Content(r) \in Seq(Byte) /\ Len(Content(r)) = 0
      BY <2>2, ContentSeq
    <3> QED  BY <3>1
  <2> QED  BY <1>1, <1>2, <1>4, <2>2, <2>3
<1> QED  BY <1>3, <1>4

(* A vector is resized only when what it then holds is all but one         *)
(* operation's bytes of it.                                                *)
LEMMA GrowthStep ==
    ASSUME NEW b, IsBuffer(b), Ordered(b), NEW len \in Nat, len <= MaxLen,
           readableBytes(b) + len <= MaxReadable, ~SpaceInside(b, len)
    PROVE  b.writerIndex_ + len < kCheapPrepend + MaxReadable + MaxLen
<1>1. /\ kCheapPrepend \in Nat /\ MaxReadable \in Nat /\ MaxLen \in Nat
      /\ b.size \in Nat /\ b.readerIndex_ \in Nat /\ b.writerIndex_ \in Nat
  BY SizeAssumption DEF SizeAssumption, IsBuffer
<1> QED  BY <1>1 DEF Ordered, SpaceInside, prependableBytes, writableBytes, readableBytes

-----------------------------------------------------------------------------
(* The inductive invariant.                                                *)
IInv == TypeOK /\ IndicesOrdered /\ AppendFits /\ GrowthBounded

LEMMA Sizes ==
    ASSUME IInv
    PROVE  /\ kCheapPrepend \in Nat /\ kInitialSize \in Nat /\ MaxLen \in Nat
           /\ MaxReadable \in Nat /\ IsBuffer(buffer) /\ Ordered(buffer)
           /\ buffer.size \in Nat /\ buffer.readerIndex_ \in Nat
           /\ buffer.writerIndex_ \in Nat
           /\ kCheapPrepend <= buffer.size
BY SizeAssumption DEF IInv, TypeOK, IndicesOrdered, Ordered, IsBuffer, SizeAssumption

LEMMA InitIInv == Init => IInv
<1> SUFFICES ASSUME Init PROVE IInv
  OBVIOUS
<1>1. kCheapPrepend \in Nat /\ kInitialSize \in Nat
  BY SizeAssumption DEF SizeAssumption
<1>2. /\ buffer.size = kCheapPrepend + kInitialSize
      /\ buffer.readerIndex_ = kCheapPrepend /\ buffer.writerIndex_ = kCheapPrepend
      /\ buffer = [buffer_ |-> buffer.buffer_, size |-> buffer.size,
                   readerIndex_ |-> buffer.readerIndex_, writerIndex_ |-> buffer.writerIndex_]
  BY DEF Init
<1>3. buffer.buffer_ \in Memory(buffer.size)
  BY <1>1, <1>2, ByteAssumption DEF Init, Memory, ByteAssumption
<1>4. request \in Requests
  BY DEF Init, Requests
<1> QED  BY <1>1, <1>2, <1>3, <1>4 DEF Init, IInv, TypeOK, IsBuffer, IndicesOrdered, AppendFits,
                                       GrowthBounded

(* What is to be shown of a step that leaves a buffer of the same size or  *)
(* one that was resized as GrowthStep says.                                *)
LEMMA Kept ==
    ASSUME IInv, UNCHANGED failed, request' \in Requests, IsBuffer(buffer'), Ordered(buffer'),
           \/ buffer'.size = buffer.size
           \/ /\ buffer.size <= buffer'.size
              /\ buffer'.size < kCheapPrepend + MaxReadable + MaxLen
    PROVE  IInv'
<1>1. /\ buffer'.size \in Nat /\ kCheapPrepend \in Nat /\ kInitialSize \in Nat
      /\ buffer.size \in Nat
  BY Sizes DEF IsBuffer
<1> QED  BY <1>1 DEF IInv, TypeOK, IndicesOrdered, AppendFits, GrowthBounded, Ordered

(* A request that was carried out.                                         *)
LEMMA PutRequested ==
    ASSUME IInv, NEW data \in Data, NEW op \in {"put", "putFront"},
           Requested([op |-> op, data |-> data]), UNCHANGED failed, Running
    PROVE  request' = [op |-> op, data |-> data] /\ request' \in Requests
<1>1. request' = [op |-> op, data |-> data]
  BY DEF Requested, Running
<1> QED  BY <1>1 DEF Requests

LEMMA AppendStep ==
    ASSUME IInv, NEW data \in Data, append(data)
    PROVE  IInv' /\ Queue!Put(data)
<1>1. data \in Seq(Byte) /\ Len(data) \in 1 .. MaxLen
  BY DataSeq
<1>2. /\ WrittenFits(buffer, Len(data))
      /\ IsBuffer(Appended(buffer, data)) /\ Ordered(Appended(buffer, data))
      /\ buffer.size <= Appended(buffer, data).size
      /\ Content(Appended(buffer, data)) = Content(buffer) \o data
      /\ \/ Appended(buffer, data).size = buffer.size
         \/ /\ Appended(buffer, data).size = buffer.writerIndex_ + Len(data)
            /\ ~SpaceInside(buffer, Len(data))
  BY <1>1, Sizes, AppendedAfter
<1>3. buffer' = Appended(buffer, data) /\ UNCHANGED failed
  BY <1>2 DEF append, CheckedAppend
<1>4. readableBytes(buffer) + Len(data) <= MaxReadable
  BY DEF append, MayHold
<1>5. ~SpaceInside(buffer, Len(data))
          => buffer.writerIndex_ + Len(data) < kCheapPrepend + MaxReadable + MaxLen
  BY <1>1, <1>4, Sizes, GrowthStep
<1>6. request' = [op |-> "put", data |-> data] /\ request' \in Requests
  BY <1>3, PutRequested DEF append
<1>7. IInv'
  BY <1>2, <1>3, <1>5, <1>6, Kept
<1>8. Len(Content(buffer)) = readableBytes(buffer)
  BY Sizes, ContentSeq
<1>9. Queue!Put(data)
  BY <1>2, <1>3, <1>4, <1>8, <1>6 DEF Queue!Put
<1> QED  BY <1>7, <1>9

(* The two parts of what readv returned make up the whole.                 *)
LEMMA Parts ==
    ASSUME NEW b, IsBuffer(b), Ordered(b), NEW data \in Seq(Byte),
           writableBytes(b) < Len(data)
    PROVE  /\ FirstPart(b, data) \in Seq(Byte) /\ Len(FirstPart(b, data)) = writableBytes(b)
           /\ SecondPart(b, data) \in Seq(Byte)
           /\ Len(SecondPart(b, data)) = Len(data) - writableBytes(b)
           /\ FirstPart(b, data) \o SecondPart(b, data) = data
<1> DEFINE n == writableBytes(b)
           f == FirstPart(b, data)
           s == SecondPart(b, data)
<1>1. n \in Nat /\ Len(data) \in Nat
  BY DEF IsBuffer, Ordered, writableBytes
<1>2. \A i \in 1 .. Len(data) : data[i] \in Byte
  OBVIOUS
<1>3. /\ f \in Seq(Byte) /\ Len(f) = n
      /\ \A i \in 1 .. n : f[i] = data[i]
  <2> HIDE DEF n
  <2>1. f = SubSeq(data, 1, n)
    BY DEF FirstPart, n
  <2> QED  BY <2>1, <1>1, <1>2, n < Len(data), SubSeqProperties DEF n
<1>4. /\ s \in Seq(Byte) /\ Len(s) = Len(data) - n
      /\ \A i \in 1 .. Len(data) - n : s[i] = data[n + i]
  <2> HIDE DEF n
  <2>1. s = SubSeq(data, n + 1, Len(data))
    BY DEF SecondPart, n
  <2>2. n < Len(data)
    BY DEF n
  <2>3. \A i \in n + 1 .. Len(data) : data[i] \in Byte
    BY <1>1, <1>2
  <2>4. /\ s \in Seq(Byte)
        /\ Len(s) = IF n + 1 <= Len(data) THEN Len(data) - (n + 1) + 1 ELSE 0
        /\ \A i \in 1 .. Len(data) - (n + 1) + 1 : s[i] = data[n + 1 + i - 1]
    BY <2>1, <2>3, <1>1, SubSeqProperties
  <2>5. Len(s) = Len(data) - n
    BY <2>2, <2>4, <1>1
  <2>6. \A i \in 1 .. Len(data) - n : s[i] = data[n + i]
    <3> HIDE DEF s
    <3> TAKE i \in 1 .. Len(data) - n
    <3>1. i \in 1 .. Len(data) - (n + 1) + 1 /\ n + 1 + i - 1 = n + i
      BY <1>1
    <3> QED  BY <3>1, <2>4
  <2> QED  BY <2>4, <2>5, <2>6
<1>5. f \o s = data
  <2> HIDE DEF f, s, n
  <2>1. /\ f \o s \in Seq(Byte) /\ Len(f \o s) = Len(data)
        /\ \A i \in 1 .. Len(data) : (f \o s)[i] = IF i <= n THEN f[i] ELSE s[i - n]
    BY <1>1, <1>3, <1>4, ConcatProperties
  <2>2. \A i \in 1 .. Len(data) : (f \o s)[i] = data[i]
    <3> TAKE i \in 1 .. Len(data)
    <3>1. CASE i <= n
      BY <3>1, <2>1, <1>3, <1>1
    <3>2. CASE i > n
      <4>1. i - n \in 1 .. Len(data) - n /\ n + (i - n) = i
        BY <3>2, <1>1
      <4>2. (f \o s)[i] = s[i - n]
        BY <3>2, <2>1, <1>1
      <4>3. s[i - n] = data[n + (i - n)]
        BY <4>1, <1>4
      <4> QED  BY <4>1, <4>2, <4>3
    <3>3. i <= n \/ i > n
      BY <1>1
    <3> QED  BY <3>1, <3>2, <3>3
  <2> QED  BY <2>1, <2>2, SeqEqual
<1> QED  BY <1>3, <1>4, <1>5

LEMMA ReadFdStep ==
    ASSUME IInv, NEW data \in Data, readFd(data)
    PROVE  IInv' /\ Queue!Put(data)
<1>1. data \in Seq(Byte) /\ Len(data) \in 1 .. MaxLen
  BY DataSeq
<1>2. readableBytes(buffer) + Len(data) <= MaxReadable
  BY DEF readFd, MayHold
<1>3. /\ Len(Content(buffer)) = readableBytes(buffer)
      /\ readableBytes(buffer) \in Nat /\ Content(buffer) \in Seq(Byte)
  BY Sizes, ContentSeq
<1>4. CASE Len(data) <= writableBytes(buffer)
  <2>1. buffer' = Written(buffer, data) /\ UNCHANGED failed
    BY <1>4 DEF readFd
  <2>2. /\ IsBuffer(buffer') /\ Ordered(buffer') /\ buffer'.size = buffer.size
        /\ Content(buffer') = Content(buffer) \o data
    BY <2>1, <1>1, <1>4, Sizes, WrittenAfter
  <2>3. request' = [op |-> "put", data |-> data] /\ request' \in Requests
    BY <2>1, PutRequested DEF readFd
  <2>4. IInv'
    BY <2>1, <2>2, <2>3, Kept
  <2> QED  BY <2>2, <2>3, <2>4, <1>2, <1>3 DEF Queue!Put
<1>5. CASE writableBytes(buffer) < Len(data)
  <2> DEFINE f == FirstPart(buffer, data)
             s == SecondPart(buffer, data)
             w == Written(buffer, f)
             a == Appended(w, s)
  <2>1. /\ f \in Seq(Byte) /\ Len(f) = writableBytes(buffer)
        /\ s \in Seq(Byte) /\ Len(s) = Len(data) - writableBytes(buffer)
        /\ f \o s = data
    BY <1>1, <1>5, Sizes, Parts
  <2>2. writableBytes(buffer) \in Nat
    BY Sizes DEF Ordered, writableBytes
  <2>3. /\ IsBuffer(w) /\ Ordered(w) /\ w.size = buffer.size
        /\ readableBytes(w) = readableBytes(buffer) + writableBytes(buffer)
        /\ Content(w) = Content(buffer) \o f
    <3>1. f \in Seq(Byte) /\ Len(f) <= writableBytes(buffer) /\ Len(f) = writableBytes(buffer)
      BY <2>1, <2>2
    <3>2. IsBuffer(buffer) /\ Ordered(buffer)
      BY Sizes
    <3> HIDE DEF f
    <3> QED  BY <3>1, <3>2, WrittenAfter
  <2>4. /\ WrittenFits(w, Len(s))
        /\ IsBuffer(a) /\ Ordered(a) /\ w.size <= a.size
        /\ Content(a) = Content(w) \o s
        /\ \/ a.size = w.size
           \/ a.size = w.writerIndex_ + Len(s) /\ ~SpaceInside(w, Len(s))
    <3> HIDE DEF s, w
    <3> QED  BY <2>1, <2>3, Sizes, AppendedAfter
  <2>5. buffer' = a /\ UNCHANGED failed
    <3>1. ~(Len(data) <= writableBytes(buffer))
      BY <1>5, <1>1, <2>2
    <3>2. CheckedAppend(w, s)
      BY <3>1 DEF readFd
    <3> HIDE DEF w, s
    <3> QED  BY <3>2, <2>4 DEF CheckedAppend
  <2>6. ~SpaceInside(w, Len(s)) => w.writerIndex_ + Len(s) < kCheapPrepend + MaxReadable + MaxLen
    <3>1. Len(s) \in Nat /\ Len(s) <= MaxLen /\ readableBytes(w) + Len(s) <= MaxReadable
      <4> HIDE DEF s, w
      <4> QED  BY <2>1, <2>2, <2>3, <1>1, <1>2, <1>3, <1>5, Sizes
    <3> HIDE DEF s, w
    <3> QED  BY <3>1, <2>3, GrowthStep
  <2>7. Content(a) = Content(buffer) \o data
    <3> HIDE DEF f, s, w, a
    <3>1. Content(a) = (Content(buffer) \o f) \o s
      BY <2>3, <2>4
    <3>2. (Content(buffer) \o f) \o s = Content(buffer) \o (f \o s)
      <4>1. Content(buffer) \in Seq(Byte) /\ f \in Seq(Byte) /\ s \in Seq(Byte)
        BY <2>1, <1>3
      <4>2. \A x, y, z \in Seq(Byte) : (x \o y) \o z = x \o (y \o z)
        BY ConcatAssociative
      <4> QED  BY <4>1, <4>2, Zenon
    <3> QED  BY <3>1, <3>2, <2>1
  <2> HIDE DEF f, s, w, a
  <2>8. request' = [op |-> "put", data |-> data] /\ request' \in Requests
    BY <2>5, PutRequested DEF readFd
  <2>9. IInv'
    BY <2>3, <2>4, <2>5, <2>6, <2>8, Kept
  <2> QED  BY <2>5, <2>7, <2>8, <2>9, <1>2, <1>3 DEF Queue!Put
<1> QED  BY <1>1, <1>4, <1>5, Sizes DEF writableBytes

LEMMA PrependStep ==
    ASSUME IInv, NEW data \in Data, prepend(data)
    PROVE  IInv' /\ (Queue!PutFront(data) \/ UNCHANGED <<buffer, request>>)
<1>1. data \in Seq(Byte) /\ Len(data) \in 1 .. MaxLen
  BY DataSeq
<1>2. CASE Len(data) < prependableBytes(buffer)
  <2>1. buffer' = Prepended(buffer, data) /\ UNCHANGED failed
    BY <1>2 DEF prepend
  <2>2. /\ IsBuffer(buffer') /\ Ordered(buffer') /\ buffer'.size = buffer.size
        /\ Content(buffer') = data \o Content(buffer)
    <3>1. Len(data) <= prependableBytes(buffer)
      BY <1>1, <1>2, Sizes DEF prependableBytes
    <3> QED  BY <2>1, <3>1, <1>1, Sizes, PrependedBefore
  <2>3. request' = [op |-> "putFront", data |-> data] /\ request' \in Requests
    BY <2>1, PutRequested DEF prepend
  <2>4. IInv'
    BY <2>1, <2>2, <2>3, Kept
  <2>5. Len(Content(buffer)) = readableBytes(buffer)
    BY Sizes, ContentSeq
  <2> QED  BY <2>2, <2>3, <2>4, <2>5 DEF Queue!PutFront, prepend, MayHold
<1>3. CASE ~(Len(data) < prependableBytes(buffer))
  <2>1. UNCHANGED <<buffer, request>> /\ failed' = "prepend"
    BY <1>3 DEF prepend, Requested
  <2> QED  BY <2>1 DEF IInv, TypeOK, IndicesOrdered, AppendFits, GrowthBounded
<1> QED  BY <1>2, <1>3

LEMMA RetrieveStep ==
    ASSUME IInv, NEW len \in 0 .. MaxReadable, retrieve(len)
    PROVE  IInv' /\ Queue!Take(len)
<1>1. len \in Nat /\ kCheapPrepend <= buffer.size
  BY Sizes
<1>2. buffer' = Retrieved(buffer, len) /\ UNCHANGED failed
  BY DEF retrieve
<1>3. request' = [op |-> "take", len |-> len] /\ request' \in Requests
  BY DEF retrieve, Requested, Running, Requests
<1>4. /\ IsBuffer(buffer') /\ Ordered(buffer') /\ buffer'.size = buffer.size
      /\ Content(buffer') = IF len < Len(Content(buffer))
                           THEN SubSeq(Content(buffer), len + 1, Len(Content(buffer)))
                           ELSE << >>
  BY <1>1, <1>2, Sizes, RetrievedFront
<1>5. IInv'
  BY <1>2, <1>4, <1>3, Kept
<1> QED  BY <1>4, <1>5, <1>3 DEF Queue!Take

LEMMA ReadStep ==
    ASSUME IInv, NEW len \in 0 .. MaxReadable, read(len)
    PROVE  IInv' /\ (Queue!Take(len) \/ UNCHANGED <<buffer, request>>)
<1>1. CASE retrieve(len)
  BY <1>1, RetrieveStep
<1>2. CASE UNCHANGED <<buffer, request>> /\ failed' = "peek"
  BY <1>2 DEF IInv, TypeOK, IndicesOrdered, AppendFits, GrowthBounded
<1> QED  BY <1>1, <1>2 DEF read

(* Every step preserves the invariant and is a step of the queue.          *)
LEMMA StepIInv == IInv /\ [Next]_vars => IInv' /\ [Queue!Next]_(Queue!vars)
<1> SUFFICES ASSUME IInv, [Next]_vars
             PROVE  IInv' /\ (Queue!Next \/ UNCHANGED <<Content(buffer), request>>)
  BY DEF Queue!vars
<1>1. ASSUME NEW data \in Data, append(data) \/ readFd(data) \/ prepend(data)
      PROVE  IInv' /\ (Queue!Next \/ UNCHANGED <<Content(buffer), request>>)
  <2>1. IInv' /\ (Queue!Put(data) \/ Queue!PutFront(data) \/ UNCHANGED <<buffer, request>>)
    BY <1>1, AppendStep, ReadFdStep, PrependStep
  <2>2. CASE UNCHANGED <<buffer, request>>
    BY <2>1, <2>2
  <2>3. CASE Queue!Put(data) \/ Queue!PutFront(data)
    <3>1. data \in Seq(Byte) /\ Len(data) \in 1 .. MaxLen
      BY DataSeq
    <3>2. Len(Content(buffer)) \in Nat
      BY Sizes, ContentSeq
    <3>3. Len(data) \in 0 .. MaxReadable
      BY <2>3, <3>1, <3>2, Sizes DEF Queue!Put, Queue!PutFront
    <3>4. data \in [1 .. Len(data) -> Byte]
      BY <3>1
    <3>5. data \in Queue!Data
      BY <3>3, <3>4 DEF Queue!Data
    <3> QED  BY <2>1, <2>3, <3>5 DEF Queue!Next
  <2> QED  BY <2>1, <2>2, <2>3
<1>2. ASSUME NEW len \in 0 .. MaxReadable, retrieve(len) \/ read(len)
      PROVE  IInv' /\ (Queue!Next \/ UNCHANGED <<Content(buffer), request>>)
  BY <1>2, RetrieveStep, ReadStep DEF Queue!Next
<1>3. ASSUME UNCHANGED vars
      PROVE  IInv' /\ (Queue!Next \/ UNCHANGED <<Content(buffer), request>>)
  BY <1>3 DEF vars, IInv, TypeOK, IndicesOrdered, AppendFits, GrowthBounded
<1> QED  BY <1>1, <1>2, <1>3 DEF Next

LEMMA Invariant == Spec => []IInv
<1>1. IInv /\ [Next]_vars => IInv'
  BY StepIInv
<1> QED  BY InitIInv, <1>1, PTL DEF Spec

(* The vector, its indices and the outcome always have their types.        *)
THEOREM TypeCorrect == Spec => []TypeOK
<1>1. IInv => TypeOK
  BY DEF IInv
<1> QED  BY Invariant, <1>1, PTL

(* readerIndex_ <= writerIndex_ <= size after any sequence of operations.  *)
THEOREM IndicesStayOrdered == Spec => []IndicesOrdered
<1>1. IInv => IndicesOrdered
  BY DEF IInv
<1> QED  BY Invariant, <1>1, PTL

(* The assertion in hasWritten (Buffer.h:181) never fails.                 *)
THEOREM AppendAlwaysFits == Spec => []AppendFits
<1>1. IInv => AppendFits
  BY DEF IInv
<1> QED  BY Invariant, <1>1, PTL

(* The vector stays within one operation's bytes of the most it held.      *)
THEOREM GrowthStaysBounded == Spec => []GrowthBounded
<1>1. IInv => GrowthBounded
  BY DEF IInv
<1> QED  BY Invariant, <1>1, PTL

(* makeSpace only ever moves bytes down.                                   *)
THEOREM AlwaysMovesDown == Spec => []MovesDown
<1>1. IInv => MovesDown
  BY Sizes DEF MovesDown, SpaceInside, Ordered, writableBytes, prependableBytes
<1> QED  BY Invariant, <1>1, PTL

(* A buffer is a queue of bytes.                                           *)
THEOREM ImplementsQueue == Spec => QueueSpec
<1>1. Init => Queue!Init
  <2> SUFFICES ASSUME Init PROVE Content(buffer) = << >>
    BY DEF Queue!Init, Init
  <2>1. kCheapPrepend \in Nat
    BY SizeAssumption DEF SizeAssumption
  <2>2. readableBytes(buffer) = 0
    BY <2>1 DEF Init, readableBytes
  <2>3. Content(buffer) \in Seq(Byte) /\ Len(Content(buffer)) = 0
    BY <2>2, InitIInv, Sizes, ContentSeq
  <2> QED  BY <2>3
<1>2. IInv /\ [Next]_vars => [Queue!Next]_(Queue!vars)
  BY StepIInv
<1> QED  BY <1>1, <1>2, Invariant, PTL DEF Spec, QueueSpec, Queue!Spec
=============================================================================
