------------------------------- MODULE Buffer -------------------------------
(***************************************************************************)
(* net::Buffer (src/src/Buffer.h, src/src/Buffer.cc): a vector of bytes    *)
(* with two indices,                                                       *)
(*                                                                         *)
(*     prependable bytes | readable bytes | writable bytes                 *)
(*     0           readerIndex_      writerIndex_     buffer_.size()       *)
(*                                                                         *)
(* that recycles the space in front of the readable bytes before it grows. *)
(* A buffer belongs to one thread, so an operation is one step.  The typed *)
(* operations (appendInt32, readInt64, ...) are append, read and prepend   *)
(* of as many bytes.                                                       *)
(*                                                                         *)
(* An assertion that fails ends the execution: failed says which.          *)
(***************************************************************************)
EXTENDS Integers, Sequences

CONSTANTS Byte, Zero,
          kCheapPrepend,   \* 8 in the code
          kInitialSize,    \* 1024
          ExtraSize,       \* of readFd's buffer on the stack, 65536
          MaxLen,          \* bound on the bytes of one operation
          MaxReadable      \* bound on the bytes held at one time

ASSUME ByteAssumption == Zero \in Byte
ASSUME SizeAssumption ==
    /\ kCheapPrepend \in Nat \ {0} /\ kInitialSize \in Nat \ {0}
    /\ ExtraSize \in Nat /\ MaxLen \in Nat /\ MaxReadable \in Nat

VARIABLES buffer,    \* the object
          failed,
          request    \* history: the last operation that did not fail, as
                     \* its caller sees it, with its argument

vars == <<buffer, failed, request>>

Memory(size) == [0 .. size - 1 -> Byte]

(* buffer_ is a function over 0 .. size - 1, and size its vector's size(). *)
IsBuffer(b) ==
    /\ b = [buffer_ |-> b.buffer_, size |-> b.size,
            readerIndex_ |-> b.readerIndex_, writerIndex_ |-> b.writerIndex_]
    /\ b.size \in Nat
    /\ b.buffer_ \in Memory(b.size)
    /\ b.readerIndex_ \in Nat /\ b.writerIndex_ \in Nat

Data == UNION {[1 .. n -> Byte] : n \in 1 .. MaxLen}
Requests == [op : {"none"}] \cup [op : {"put", "putFront"}, data : Data]
            \cup [op : {"take"}, len : 0 .. MaxReadable]

TypeOK ==
    /\ IsBuffer(buffer)
    /\ failed \in {"none", "hasWritten", "prepend", "peek"}
    /\ request \in Requests

Init ==
    /\ buffer = [buffer_ |-> [k \in 0 .. kCheapPrepend + kInitialSize - 1 |-> Zero],
                 size |-> kCheapPrepend + kInitialSize,
                 readerIndex_ |-> kCheapPrepend,
                 writerIndex_ |-> kCheapPrepend]
    /\ failed = "none"
    /\ request = [op |-> "none"]

-----------------------------------------------------------------------------
prependableBytes(b) == b.readerIndex_
readableBytes(b) == b.writerIndex_ - b.readerIndex_
writableBytes(b) == b.size - b.writerIndex_

(* What peek() shows to a reader.                                          *)
Content(b) == [i \in 1 .. readableBytes(b) |-> b.buffer_[b.readerIndex_ + i - 1]]

(* std::copy of a sequence of bytes to the place at.                       *)
CopiedTo(b, at, data) ==
    [k \in 0 .. b.size - 1 |->
        IF at <= k /\ k < at + Len(data) THEN data[k - at + 1] ELSE b.buffer_[k]]

(* makeSpace: the readable bytes move down to kCheapPrepend, or the vector *)
(* is resized, which keeps its bytes and fills the new ones with zeros.    *)
Compacted(b) ==
    [buffer_ |-> CopiedTo(b, kCheapPrepend, Content(b)),
     size |-> b.size,
     readerIndex_ |-> kCheapPrepend,
     writerIndex_ |-> kCheapPrepend + readableBytes(b)]

ZeroFilled(b, size) == [k \in 0 .. size - 1 |-> IF k < b.size THEN b.buffer_[k] ELSE Zero]

Resized(b, size) ==
    [buffer_ |-> ZeroFilled(b, size),
     size |-> size,
     readerIndex_ |-> b.readerIndex_,
     writerIndex_ |-> b.writerIndex_]

(* Mutants: the prependable space is used as well; nothing is recycled.    *)
SpaceAnywhere(b, len) == prependableBytes(b) + writableBytes(b) >= len
NeverInside(b, len) == FALSE

SpaceInside(b, len) == prependableBytes(b) + writableBytes(b) >= len + kCheapPrepend

makeSpace(b, len) ==
    IF SpaceInside(b, len) THEN Compacted(b) ELSE Resized(b, b.writerIndex_ + len)

ensureWritable(b, len) == IF writableBytes(b) < len THEN makeSpace(b, len) ELSE b

(* Bytes that fit are put into the writable part, which shrinks.           *)
Written(b, data) ==
    [buffer_ |-> CopiedTo(b, b.writerIndex_, data),
     size |-> b.size,
     readerIndex_ |-> b.readerIndex_,
     writerIndex_ |-> b.writerIndex_ + Len(data)]

(* append: hasWritten asserts that ensureWritable did its work.            *)
Appended(b, data) == Written(ensureWritable(b, Len(data)), data)

WrittenFits(b, len) == writableBytes(ensureWritable(b, len)) >= len

Retrieved(b, len) ==
    [buffer_ |-> b.buffer_,
     size |-> b.size,
     readerIndex_ |-> IF len < readableBytes(b) THEN b.readerIndex_ + len ELSE kCheapPrepend,
     writerIndex_ |-> IF len < readableBytes(b) THEN b.writerIndex_ ELSE kCheapPrepend]

Prepended(b, data) ==
    [buffer_ |-> CopiedTo(b, b.readerIndex_ - Len(data), data),
     size |-> b.size,
     readerIndex_ |-> b.readerIndex_ - Len(data),
     writerIndex_ |-> b.writerIndex_]

(* readFd: readv fills the writable part first, then the stack's buffer,   *)
(* whose bytes are appended.                                               *)
FirstPart(b, data) == SubSeq(data, 1, writableBytes(b))

(* Mutant: the second part has its size, but begins where the first does.  *)
SecondPartAgain(b, data) == SubSeq(data, 1, Len(data) - writableBytes(b))

SecondPart(b, data) == SubSeq(data, writableBytes(b) + 1, Len(data))

Capacity(b) == writableBytes(b) + (IF writableBytes(b) > ExtraSize THEN 0 ELSE ExtraSize)

-----------------------------------------------------------------------------
Running == failed = "none"

MayHold(data) == readableBytes(buffer) + Len(data) <= MaxReadable

(* b is the buffer that data are appended to.                              *)
CheckedAppend(b, data) ==
    IF WrittenFits(b, Len(data))
    THEN buffer' = Appended(b, data) /\ UNCHANGED failed
    ELSE failed' = "hasWritten" /\ UNCHANGED buffer

Requested(r) == request' = IF failed' = "none" THEN r ELSE request

append(data) ==
    /\ Running
    /\ MayHold(data)
    /\ CheckedAppend(buffer, data)
    /\ Requested([op |-> "put", data |-> data])

retrieve(len) ==
    /\ Running
    /\ buffer' = Retrieved(buffer, len)
    /\ UNCHANGED failed
    /\ Requested([op |-> "take", len |-> len])

(* readInt64 .. readInt8 retrieve what peekInt64 .. peekInt8 show, which   *)
(* assert that it is there, as retrieveAsString does.                      *)
peekFits(len) == len <= readableBytes(buffer)

read(len) ==
    \/ peekFits(len) /\ retrieve(len)
    \/ Running /\ ~peekFits(len) /\ failed' = "peek" /\ UNCHANGED <<buffer, request>>

prepend(data) ==
    /\ Running
    /\ MayHold(data)
    /\ IF Len(data) < prependableBytes(buffer)
       THEN buffer' = Prepended(buffer, data) /\ UNCHANGED failed
       ELSE failed' = "prepend" /\ UNCHANGED buffer
    /\ Requested([op |-> "putFront", data |-> data])

readFd(data) ==
    /\ Running
    /\ MayHold(data)
    /\ Len(data) <= Capacity(buffer)
    /\ IF Len(data) <= writableBytes(buffer)
       THEN buffer' = Written(buffer, data) /\ UNCHANGED failed
       ELSE CheckedAppend(Written(buffer, FirstPart(buffer, data)), SecondPart(buffer, data))
    /\ Requested([op |-> "put", data |-> data])

Next ==
    \/ \E data \in Data : append(data) \/ prepend(data) \/ readFd(data)
    \/ \E len \in 0 .. MaxReadable : retrieve(len) \/ read(len)

Spec == Init /\ [][Next]_vars

-----------------------------------------------------------------------------
(* The picture in BufferStander.h:22-30,                                   *)
(* 0 <= readerIndex <= writerIndex <= size, through every combination of   *)
(* growing, compacting, prepending and wrapping back.                      *)
IndicesOrdered ==
    /\ buffer.readerIndex_ <= buffer.writerIndex_
    /\ buffer.writerIndex_ <= buffer.size
    /\ kCheapPrepend + kInitialSize <= buffer.size

(* The assertion of Buffer.h:181: after makeSpace there is room for what   *)
(* is appended, also for the second half of a readFd that has just filled  *)
(* the buffer to its end.                                                  *)
AppendFits == failed # "hasWritten"

(* The assertion of BufferStander.h:379, which makeSpace of Buffer.h does  *)
(* not make: bytes are only ever moved down, as std::copy requires of      *)
(* ranges that overlap, even after prepend has gone below kCheapPrepend.   *)
MovesDown ==
    \A len \in 0 .. MaxLen :
        writableBytes(buffer) < len /\ SpaceInside(buffer, len)
            => kCheapPrepend < buffer.readerIndex_

(* Space that was freed is used again: however long a connection lives,    *)
(* its buffer does not outgrow what it held at one time by more than one   *)
(* operation's bytes.                                                      *)
GrowthBounded ==
    \/ buffer.size = kCheapPrepend + kInitialSize
    \/ buffer.size < kCheapPrepend + MaxReadable + MaxLen

(* Every operation does to the readable bytes what it does to a queue with *)
(* the same argument: what is appended, prepended or returned by readv is  *)
(* what arrives, no byte less and no other, through compacting, growing    *)
(* and the two parts of readFd, and what was there is not disturbed.       *)
Queue == INSTANCE ByteQueue WITH bytes <- Content(buffer)
QueueSpec == Queue!Spec
=============================================================================
