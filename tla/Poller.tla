------------------------------- MODULE Poller -------------------------------
(***************************************************************************)
(* Poller and the part of Channel it works with (src/src/Poller.{h,cc},    *)
(* src/src/Channel.{h,cc}).  The poller keeps the array it hands to        *)
(* poll(2), the map from file descriptors to channels, and in every        *)
(* channel the index of its entry.  A channel without events has its entry *)
(* negated (-fd - 1) so that poll(2) skips it, and an entry is removed by  *)
(* moving the last entry into its place.                                   *)
(*                                                                         *)
(* All of this runs in the loop thread: between two polls callbacks and    *)
(* functors enable, disable and remove channels.  What they may call is    *)
(* what their callers in src/ do: Acceptor, TcpConnection, TimerQueue and  *)
(* EventLoop.  File descriptors are reused: a new channel may have the     *)
(* number of one that was closed.                                          *)
(***************************************************************************)
EXTENDS Integers, Sequences, FiniteSets

CONSTANTS Channels,    \* channel objects that may exist
          NoChannel,
          Fd           \* fd_ of each channel; two channels may share one,
                       \* at different times

ASSUME FdAssumption == Fd \in [Channels -> Nat]
ASSUME NoChannelAssumption == NoChannel \notin Channels

VARIABLES
    pollfds_,          \* sequence of [fd, events]; index i is entry i + 1
    channels_,         \* std::map from fd to channel, NoChannel if absent
    index_,            \* per channel, -1 before it is registered
    events_,           \* per channel, what it last asked for
    activeChannels_,   \* reported by poll and not yet handled, in order
    handling,          \* the channel whose callback is running
    life,              \* per channel: "absent", "open" or "removed"
    failed,            \* the assertion that ended the process
    enabled,           \* history: channels that asked for an event so far
    overwritten        \* history: registered channels whose entry was last
                       \* written for another, removed one

history == <<enabled, overwritten>>
vars == <<pollfds_, channels_, index_, events_, activeChannels_, handling, life, failed, history>>

Fds == {Fd[c] : c \in Channels}
Events == {"read", "write"}
Muted(fd) == -fd - 1      \* poll(2) skips a negative descriptor
Entries == [fd : Fds \cup {Muted(fd) : fd \in Fds}, events : SUBSET Events]
Assertions == {"none", "updateChannel", "fillActiveChannels",
               "isNoneEvent", "removeFd", "removeEvents"}

TypeOK ==
    /\ pollfds_ \in Seq(Entries)
    /\ channels_ \in [Fds -> Channels \cup {NoChannel}]
    /\ index_ \in [Channels -> Nat \cup {-1}]
    /\ events_ \in [Channels -> SUBSET Events]
    /\ activeChannels_ \in Seq(Channels)
    /\ handling \in Channels \cup {NoChannel}
    /\ life \in [Channels -> {"absent", "open", "removed"}]
    /\ failed \in Assertions
    /\ enabled \subseteq Channels
    /\ overwritten \subseteq Channels

Init ==
    /\ pollfds_ = << >>
    /\ channels_ = [fd \in Fds |-> NoChannel]
    /\ index_ = [c \in Channels |-> -1]
    /\ events_ = [c \in Channels |-> {}]
    /\ activeChannels_ = << >>
    /\ handling = NoChannel
    /\ life = [c \in Channels |-> "absent"]
    /\ failed = "none"
    /\ enabled = {}
    /\ overwritten = {}

Running == failed = "none"
Registered(c) == life[c] = "open" /\ index_[c] >= 0
Entry(c) == pollfds_[index_[c] + 1]

(* doPendingFunctors_ runs when all active channels are handled.           *)
InFunctors == handling = NoChannel /\ activeChannels_ = << >>

-----------------------------------------------------------------------------
(* Construction, with a descriptor that is not in use.                     *)
Channel(c) ==
    /\ Running
    /\ life[c] = "absent"
    /\ \A d \in Channels : Fd[d] = Fd[c] => life[d] = "absent"
    /\ life' = [life EXCEPT ![c] = "open"]
    /\ UNCHANGED <<pollfds_, channels_, index_, events_, activeChannels_, handling, failed>>
    /\ UNCHANGED history

(* Poller::updateChannel after Channel set events_ to e: the entry is new, *)
(* or the one index_ designates is rewritten.  removeChannel leaves the    *)
(* index_ of the channel it removes as it is: an update of that channel    *)
(* rewrites the entry which is there now, another channel's, or memory     *)
(* behind the last entry, which no one reads before it is written again.   *)
AddEntry(c, e) ==
    /\ index_[c] < 0
    /\ IF channels_[Fd[c]] = NoChannel
       THEN /\ pollfds_' = Append(pollfds_, [fd |-> Fd[c], events |-> e])
            /\ index_' = [index_ EXCEPT ![c] = Len(pollfds_)]
            /\ channels_' = [channels_ EXCEPT ![Fd[c]] = c]
            /\ UNCHANGED failed
       ELSE /\ failed' = "updateChannel"
            /\ UNCHANGED <<pollfds_, index_, channels_>>

(* Mutant: the entry is never negated.                                     *)
NeverMuted(fd, c, e) == [fd |-> fd, events |-> e]

Rewritten(fd, c, e) == [fd |-> IF e = {} THEN Muted(Fd[c]) ELSE fd, events |-> e]

RewriteEntry(c, e) ==
    /\ index_[c] >= 0
    /\ pollfds_' = [i \in DOMAIN pollfds_ |->
                       IF i = index_[c] + 1 THEN Rewritten(pollfds_[i].fd, c, e) ELSE pollfds_[i]]
    /\ UNCHANGED <<index_, channels_, failed>>

Sharing(c) == {d \in Channels \ {c} : Registered(d) /\ index_[d] = index_[c]}

updateChannel(c, e) ==
    /\ Running
    /\ events_' = [events_ EXCEPT ![c] = e]
    /\ AddEntry(c, e) \/ RewriteEntry(c, e)
    /\ enabled' = IF e = {} THEN enabled ELSE enabled \cup {c}
    /\ overwritten' = (overwritten \ {c}) \cup Sharing(c)
    /\ UNCHANGED <<activeChannels_, handling, life>>

(* Acceptor::listen, TcpConnection::connectEstablished, the constructors   *)
(* of TimerQueue and EventLoop.                                            *)
enableReading(c) ==
    /\ life[c] = "open"
    /\ updateChannel(c, events_[c] \cup {"read"})

(* TcpConnection::sendInLoop, also after handleClose has called            *)
(* disableAll, and after connectDestroy has called remove: send tests      *)
(* state_, but sendInLoop does not when it runs as a functor.              *)
enableWriting(c) ==
    /\ life[c] = "open" \/ (life[c] = "removed" /\ InFunctors)
    /\ "write" \notin events_[c]
    /\ updateChannel(c, events_[c] \cup {"write"})

(* TcpConnection::handleWrite.                                             *)
disableWriting(c) ==
    /\ handling = c
    /\ "write" \in events_[c]
    /\ updateChannel(c, events_[c] \ {"write"})

(* TcpConnection::handleClose, and ~Acceptor whether it listened or not.   *)
disableAll(c) ==
    /\ life[c] = "open"
    /\ updateChannel(c, {})

(* Poller::removeChannel: the last entry moves into the place of c's.      *)
Decode(fd) == IF fd < 0 THEN -fd - 1 ELSE fd

(* Mutant: vector::erase, which shifts what follows.                       *)
ShiftDown(idx) ==
    [i \in 1 .. Len(pollfds_) - 1 |-> IF i > idx THEN pollfds_[i + 1] ELSE pollfds_[i]]

MoveLast(idx) ==
    [i \in 1 .. Len(pollfds_) - 1 |->
        IF i = idx + 1 THEN pollfds_[Len(pollfds_)] ELSE pollfds_[i]]

LastChannel == channels_[Decode(pollfds_[Len(pollfds_)].fd)]

(* Mutant: a channel is removed while others wait to be handled.           *)
MayAlwaysRemove(c) == TRUE

(* Removal comes from connectDestroy, either inside the channel's own      *)
(* callback or as a functor once all active channels are handled, and from *)
(* the destructors of Acceptor and TimerQueue, which run there too.        *)
MayRemove(c) == handling = c \/ InFunctors

(* Mutant: the channel stays in the map.                                   *)
NotErased(c) == channels_

Erased(c) == [channels_ EXCEPT ![Fd[c]] = NoChannel]

(* Poller.cc:92 asserts that the entry is muted and has the channel's      *)
(* events.                                                                 *)
EntryAssertion(c) ==
    IF Entry(c).fd # Muted(Fd[c]) THEN "removeFd"
    ELSE IF Entry(c).events # events_[c] THEN "removeEvents" ELSE "none"

removeFails(c) ==
    \/ /\ events_[c] # {}
       /\ failed' = "isNoneEvent"
       /\ UNCHANGED channels_
    \/ /\ events_[c] = {}
       /\ EntryAssertion(c) # "none"
       /\ failed' = EntryAssertion(c)
       /\ channels_' = Erased(c)

removeSucceeds(c) ==
    /\ events_[c] = {}
    /\ EntryAssertion(c) = "none"
    /\ channels_' = Erased(c)
    /\ pollfds_' = MoveLast(index_[c])
    /\ index_' = IF index_[c] = Len(pollfds_) - 1
                 THEN index_
                 ELSE [index_ EXCEPT ![LastChannel] = index_[c]]
    /\ life' = [life EXCEPT ![c] = "removed"]
    /\ overwritten' = overwritten \ {c}
    /\ UNCHANGED failed

removeChannel(c) ==
    /\ Running
    /\ Registered(c)
    /\ MayRemove(c)
    /\ \/ removeFails(c) /\ UNCHANGED <<pollfds_, index_, life, overwritten>>
       \/ removeSucceeds(c)
    /\ UNCHANGED <<events_, activeChannels_, handling, enabled>>

(* The channel's owner is destroyed and its descriptor closed.  The fields *)
(* of a channel that does not exist are those the constructor gives it.    *)
destroy(c) ==
    /\ Running
    /\ life[c] = "removed" \/ (life[c] = "open" /\ index_[c] < 0)
    /\ handling # c
    /\ life' = [life EXCEPT ![c] = "absent"]
    /\ index_' = [index_ EXCEPT ![c] = -1]
    /\ events_' = [events_ EXCEPT ![c] = {}]
    /\ enabled' = enabled \ {c}
    /\ UNCHANGED <<pollfds_, channels_, activeChannels_, handling, failed, overwritten>>

-----------------------------------------------------------------------------
(* poll(2) may report any entry it does not skip: for an event that was    *)
(* asked for, or for an error or hangup, which need not be asked for.      *)
(* fillActiveChannels goes through the array once: ready lists, in order,  *)
(* the n entries that have revents.                                        *)
poll(n, ready) ==
    /\ Running
    /\ activeChannels_ = << >>
    /\ handling = NoChannel
    /\ \A i, j \in 1 .. n : i < j => ready[i] < ready[j]
    /\ \A i \in 1 .. n : pollfds_[ready[i]].fd >= 0
    /\ LET Found(i) == channels_[pollfds_[ready[i]].fd]
       IN  IF \A i \in 1 .. n : Found(i) # NoChannel /\ Fd[Found(i)] = pollfds_[ready[i]].fd
           THEN /\ activeChannels_' = [i \in 1 .. n |-> Found(i)]
                /\ UNCHANGED failed
           ELSE /\ failed' = "fillActiveChannels"
                /\ UNCHANGED activeChannels_
    /\ UNCHANGED <<pollfds_, channels_, index_, events_, handling, life, history>>

(* EventLoop::loop calls handleEvent of each active channel in turn.       *)
handleEvent ==
    /\ Running
    /\ handling = NoChannel
    /\ activeChannels_ # << >>
    /\ handling' = Head(activeChannels_)
    /\ activeChannels_' = Tail(activeChannels_)
    /\ UNCHANGED <<pollfds_, channels_, index_, events_, life, failed, history>>

handleEventReturns ==
    /\ Running
    /\ handling # NoChannel
    /\ handling' = NoChannel
    /\ UNCHANGED <<pollfds_, channels_, index_, events_, activeChannels_, life, failed, history>>

Next ==
    \/ \E c \in Channels :
        \/ Channel(c) \/ destroy(c)
        \/ enableReading(c) \/ enableWriting(c) \/ disableWriting(c) \/ disableAll(c)
        \/ removeChannel(c)
    \/ \E n \in 0 .. Len(pollfds_) : \E ready \in [1 .. n -> DOMAIN pollfds_] : poll(n, ready)
    \/ handleEvent \/ handleEventReturns

Spec == Init /\ [][Next]_vars

-----------------------------------------------------------------------------
(* The array, the map and the indices agree: every registered channel's    *)
(* index_ designates an entry of its own with its descriptor, the map      *)
(* finds it, and neither array nor map holds anything else.  It is what    *)
(* moving the last entry must preserve (Poller.cc:93-107).  The entry has  *)
(* the channel's events, unless a channel removed before was updated and   *)
(* its old index_ is this one's (Poller.cc:71).                            *)
PollfdsMatch ==
    Running =>
        /\ \A c \in Channels : Registered(c) =>
              /\ index_[c] + 1 \in DOMAIN pollfds_
              /\ Entry(c).fd \in {Fd[c], Muted(Fd[c])}
              /\ c \notin overwritten => Entry(c).events = events_[c]
              /\ channels_[Fd[c]] = c
        /\ \A i \in DOMAIN pollfds_ : \E c \in Channels : Registered(c) /\ index_[c] + 1 = i
        /\ \A fd \in Fds : channels_[fd] # NoChannel =>
              Registered(channels_[fd]) /\ Fd[channels_[fd]] = fd

(* The loop calls handleEvent through raw pointers (EventLoop.cc:81-84):   *)
(* each is a channel that still exists and is registered, and no channel   *)
(* is called twice.                                                        *)
ActiveValid ==
    Running =>
        /\ \A i \in DOMAIN activeChannels_ : Registered(activeChannels_[i])
        /\ \A i, j \in DOMAIN activeChannels_ : i # j => activeChannels_[i] # activeChannels_[j]
        /\ handling # NoChannel =>
              /\ life[handling] # "absent"
              /\ \A i \in DOMAIN activeChannels_ : activeChannels_[i] # handling

(* The assertions of Poller.cc:40, 42 and 58 hold, although descriptors    *)
(* are reused: a number is back in use only after its entry is gone.  That *)
(* of Poller.cc:92 fails in two cases only: for a channel that never asked *)
(* for an event, whose entry disableAll added without muting it            *)
(* (Poller.cc:56-68), and for one whose entry was overwritten by an update *)
(* of a channel already removed (TcpConnection.cc:201 in a late functor).  *)
(* The channel it fails for is the one just erased from the map.           *)
HalfRemoved == {c \in Channels : Registered(c) /\ channels_[Fd[c]] = NoChannel}

AssertionsHold ==
    /\ failed \notin {"updateChannel", "fillActiveChannels"}
    /\ failed = "removeFd" => \E c \in HalfRemoved : c \notin enabled
    /\ failed = "removeEvents" => \E c \in HalfRemoved : c \in overwritten

(* Poller implements PollSet.                                              *)
Abstract == INSTANCE PollSet
    WITH registered <- {c \in Channels : Registered(c)},
         asked <- [c \in Channels |-> IF Registered(c) THEN Entry(c).events ELSE {}],
         muted <- {c \in Channels : Registered(c) /\ Entry(c).fd < 0},
         active <- {activeChannels_[i] : i \in DOMAIN activeChannels_}

(* Seen from the channels, the poller is a set of interests: a change of a *)
(* registered channel affects it and no other, a muted channel is never    *)
(* reported and never unmuted, and a reported one is handled once.  An     *)
(* update of a channel no longer registered may change what one other asks *)
(* for, but neither mutes, reports nor unregisters any.                    *)
PollSetSpec == Abstract!Spec
=============================================================================
