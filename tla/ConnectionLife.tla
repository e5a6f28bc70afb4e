--------------------------- MODULE ConnectionLife ---------------------------
(***************************************************************************)
(* What a server promises of its connections: each has a descriptor of its *)
(* own from accept to its end, which nothing else closes or gets in        *)
(* between; it comes up, goes down and ends, in this order and once.       *)
(***************************************************************************)
CONSTANTS Connections, Descriptors

VARIABLES life,         \* of each connection
          descriptor,   \* of each that exists
          open          \* descriptors in use by connections

vars == <<life, descriptor, open>>

Init ==
    /\ life = [c \in Connections |-> "none"]
    /\ descriptor = << >>
    /\ open = {}

Goes(c, from, to) ==
    /\ life[c] \in from
    /\ life' = [life EXCEPT ![c] = to]

Begin(c, fd) ==
    /\ fd \notin open
    /\ Goes(c, {"none"}, "accepted") \/ Goes(c, {"none"}, "up")
    /\ open' = open \cup {fd}
    /\ descriptor' = [d \in DOMAIN descriptor \cup {c} |-> IF d = c THEN fd ELSE descriptor[d]]

Change(c) ==
    /\ Goes(c, {"accepted"}, "up") \/ Goes(c, {"up"}, "down")
    /\ UNCHANGED <<descriptor, open>>

(* In a server with one loop the end may come with the going down.         *)
End(c) ==
    /\ Goes(c, {"up", "down"}, "ended")
    /\ open' = open \ {descriptor[c]}
    /\ descriptor' = [d \in DOMAIN descriptor \ {c} |-> descriptor[d]]

Next == \E c \in Connections : Change(c) \/ End(c) \/ \E fd \in Descriptors : Begin(c, fd)

Spec == Init /\ [][Next]_vars
=============================================================================
