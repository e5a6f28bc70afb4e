------------------------------ MODULE PollSet -------------------------------
(***************************************************************************)
(* What the poller promises to channels, without the array of pollfds and  *)
(* the indices into it: which channels are registered and the events each  *)
(* asked for last.  A channel that once asks for no event is muted until   *)
(* it is removed, whatever it asks for afterwards; only a muted channel    *)
(* can be removed, and only one that is not muted is ever reported.  What  *)
(* it does not promise is that a channel which was removed can be updated. *)
(***************************************************************************)
CONSTANTS Channels, Events

VARIABLES registered,  \* channels the poller watches or has muted
          asked,       \* per channel: the events it asked for last
          muted,       \* registered channels that poll skips
          active       \* channels reported and not yet handled

vars == <<registered, asked, muted, active>>

Init ==
    /\ registered = {}
    /\ asked = [c \in Channels |-> {}]
    /\ muted = {}
    /\ active = {}

Register(c, e) ==
    /\ c \notin registered
    /\ registered' = registered \cup {c}
    /\ asked' = [asked EXCEPT ![c] = e]
    /\ UNCHANGED <<muted, active>>

Modify(c, e) ==
    /\ c \in registered
    /\ asked' = [asked EXCEPT ![c] = e]
    /\ muted' = IF e = {} THEN muted \cup {c} ELSE muted
    /\ UNCHANGED <<registered, active>>

(* An update of a channel that is not registered any more: it may end up   *)
(* with the one that has its place now.                                    *)
Misdirect(d, e) ==
    /\ registered # Channels
    /\ d \in registered
    /\ e # {}
    /\ asked' = [asked EXCEPT ![d] = e]
    /\ UNCHANGED <<registered, muted, active>>

Remove(c) ==
    /\ c \in muted \ active
    /\ asked[c] = {}
    /\ registered' = registered \ {c}
    /\ muted' = muted \ {c}
    /\ UNCHANGED <<asked, active>>

Report(S) ==
    /\ active = {}
    /\ S \subseteq registered \ muted
    /\ active' = S
    /\ UNCHANGED <<registered, asked, muted>>

Handle(c) ==
    /\ c \in active \cap registered
    /\ active' = active \ {c}
    /\ UNCHANGED <<registered, asked, muted>>

Next ==
    \/ \E c \in Channels, e \in SUBSET Events : Register(c, e) \/ Modify(c, e) \/ Misdirect(c, e)
    \/ \E c \in Channels : Remove(c) \/ Handle(c)
    \/ \E S \in SUBSET Channels : Report(S)

Spec == Init /\ [][Next]_vars
=============================================================================
