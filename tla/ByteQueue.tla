----------------------------- MODULE ByteQueue ------------------------------
(***************************************************************************)
(* What a Buffer promises to its users: a queue of bytes.  Bytes are put   *)
(* at its end (append, readFd) or in front of the others (prepend), and    *)
(* leave it at its front; asking for more than there is takes everything.  *)
(* request is what the user asked for last: the bytes that arrive in the   *)
(* queue are those of the request, all of them and in their order, and as  *)
(* many leave it as the request says.                                      *)
(***************************************************************************)
EXTENDS Integers, Sequences

CONSTANTS Byte,
          MaxReadable    \* bound on the length of the queue

VARIABLES bytes, request

vars == <<bytes, request>>

Data == UNION {[1 .. n -> Byte] : n \in 0 .. MaxReadable}

Init ==
    /\ bytes = << >>
    /\ request = [op |-> "none"]

Put(data) ==
    /\ Len(bytes) + Len(data) <= MaxReadable
    /\ request' = [op |-> "put", data |-> data]
    /\ bytes' = bytes \o data

PutFront(data) ==
    /\ Len(bytes) + Len(data) <= MaxReadable
    /\ request' = [op |-> "putFront", data |-> data]
    /\ bytes' = data \o bytes

Take(n) ==
    /\ request' = [op |-> "take", len |-> n]
    /\ bytes' = IF n < Len(bytes) THEN SubSeq(bytes, n + 1, Len(bytes)) ELSE << >>

Next ==
    \/ \E data \in Data : Put(data) \/ PutFront(data)
    \/ \E n \in 0 .. MaxReadable : Take(n)

Spec == Init /\ [][Next]_vars
=============================================================================
