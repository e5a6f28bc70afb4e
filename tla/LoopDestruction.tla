--------------------------- MODULE LoopDestruction --------------------------
(***************************************************************************)
(* The end of an EventLoop (src/src/EventLoop.{h,cc},                      *)
(* src/src/TimerQueue.cc:77-86), as src/testjmuduo/test3.cc has it: main   *)
(* registers a channel of its own, whose callback quits the loop, and      *)
(* returns.  The destructors run in the reverse of the order in which the  *)
(* objects were declared: main's channel, which nobody removed from the    *)
(* poller, then the members of the loop: wakeChannel_, which nothing       *)
(* removes either, then timerQueue_, which removes its own channel, then   *)
(* the poller.                                                             *)
(***************************************************************************)
EXTENDS Integers, Sequences

VARIABLES pollfds_, channels_, index_, events_, activeChannels_, handling, life, failed,
          enabled, overwritten

Descriptor == [timerfdChannel_ |-> 3, wakeChannel_ |-> 4, channel |-> 5]

INSTANCE Poller WITH Channels <- DOMAIN Descriptor, Fd <- Descriptor, NoChannel <- "none"

VARIABLES quit_,
          stage,      \* how far main has got
          dangling    \* a channel was written after its destruction

endVars == <<vars, quit_, stage, dangling>>

Constructed == {"timerfdChannel_", "wakeChannel_"}

(* EventLoop::EventLoop, with the constructor of TimerQueue.               *)
EndInit ==
    /\ pollfds_ = [i \in 1 .. 2 |-> [fd |-> i + 2, events |-> {"read"}]]
    /\ channels_ = [fd \in 3 .. 5 |-> CASE fd = 3 -> "timerfdChannel_"
                                        [] fd = 4 -> "wakeChannel_"
                                        [] fd = 5 -> "none"]
    /\ index_ = [timerfdChannel_ |-> 0, wakeChannel_ |-> 1, channel |-> -1]
    /\ events_ = [c \in DOMAIN Descriptor |-> IF c \in Constructed THEN {"read"} ELSE {}]
    /\ activeChannels_ = << >>
    /\ handling = "none"
    /\ life = [c \in DOMAIN Descriptor |-> IF c \in Constructed THEN "open" ELSE "absent"]
    /\ failed = "none"
    /\ enabled = Constructed
    /\ overwritten = {}
    /\ quit_ = FALSE
    /\ stage = "main"
    /\ dangling = FALSE

StageGoes(from, to) == stage = from /\ stage' = to

(* test3.cc: Channel channel(&loop,timerfd); channel.enableReading().      *)
ChannelConstructed == stage = "main" /\ Channel("channel") /\ UNCHANGED <<quit_, stage, dangling>>
ChannelEnabled ==
    /\ StageGoes("main", "loop")
    /\ enableReading("channel")
    /\ UNCHANGED <<quit_, dangling>>

(* EventLoop::loop; timeout, the channel's callback, calls quit.           *)
Polls ==
    /\ stage = "loop" /\ ~quit_
    /\ \E n \in 0 .. Len(pollfds_) : \E ready \in [1 .. n -> DOMAIN pollfds_] : poll(n, ready)
    /\ UNCHANGED <<quit_, stage, dangling>>

Handles ==
    /\ handleEvent
    /\ quit_' = (quit_ \/ handling' = "channel")
    /\ UNCHANGED <<stage, dangling>>

HandlerReturns == handleEventReturns /\ UNCHANGED <<quit_, stage, dangling>>

(* loop returns, and main: its channel goes first.  ~Channel leaves the    *)
(* poller as it is.                                                        *)
ChannelDestroyed ==
    /\ StageGoes("loop", "channelGone")
    /\ quit_ /\ InFunctors
    /\ life' = [life EXCEPT !["channel"] = "absent"]
    /\ UNCHANGED <<pollfds_, channels_, index_, events_, activeChannels_, handling, failed>>
    /\ UNCHANGED <<enabled, overwritten, quit_, dangling>>

(* ~EventLoop: scoped_ptr deletes wakeChannel_, and then timerQueue_,      *)
(* whose destructor disables its channel ...                               *)
EventLoopDestroyed ==
    /\ StageGoes("channelGone", "timerDisabled")
    /\ events_' = [events_ EXCEPT !["timerfdChannel_"] = {}]
    /\ RewriteEntry("timerfdChannel_", {})
    /\ life' = [life EXCEPT !["wakeChannel_"] = "absent"]
    /\ UNCHANGED <<activeChannels_, handling, enabled, overwritten, quit_, dangling>>

(* ... and removes it: removeChannel writes the index of the channel whose *)
(* entry it moves.                                                         *)
TimerQueueRemoved ==
    /\ StageGoes("timerDisabled", "timerGone")
    /\ removeChannel("timerfdChannel_")
    /\ dangling' = (LastChannel # "timerfdChannel_" /\ life[LastChannel] = "absent")
    /\ UNCHANGED quit_

EndNext ==
    \/ ChannelConstructed \/ ChannelEnabled
    \/ Polls \/ Handles \/ HandlerReturns
    \/ ChannelDestroyed \/ EventLoopDestroyed \/ TimerQueueRemoved

EndSpec == EndInit /\ [][EndNext]_endVars

-----------------------------------------------------------------------------
(* A main that quits its loop and returns, as test3.cc does (lines 18 and  *)
(* 35-37), ends without touching what is destroyed: the channel whose      *)
(* index Poller::removeChannel writes (Poller.cc:105) still exists.        *)
EndsCleanly == ~dangling
=============================================================================
