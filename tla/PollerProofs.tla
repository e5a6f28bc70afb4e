---------------------------- MODULE PollerProofs ----------------------------
(***************************************************************************)
(* For any channels and any assignment of descriptors to them: the array,  *)
(* the map and the indices of the poller agree, its assertions hold but in *)
(* two cases, and it implements PollSet.                                   *)
(***************************************************************************)
EXTENDS Poller, SequenceTheorems, TLAPS

(* Two channels that exist have different descriptors, and a channel that  *)
(* does not exist has the index its constructor will give it.              *)
Lifetimes ==
    /\ \A c, d \in Channels : c # d /\ Fd[c] = Fd[d] => life[c] = "absent" \/ life[d] = "absent"
    /\ \A c \in Channels : life[c] = "absent" => index_[c] = -1

(* What the history variables stand for; a channel that asked for events   *)
(* once is muted when it asks for none; and a channel that was removed in  *)
(* its own callback asks for nothing until that returns.                   *)
Recorded ==
    /\ \A c \in overwritten : Registered(c)
    /\ \A c \in enabled : index_[c] >= 0
    /\ \A c \in Channels : life[c] = "removed" => index_[c] >= 0
    /\ \A c \in enabled : Registered(c) /\ events_[c] = {} => Entry(c).fd = Muted(Fd[c])
    /\ handling # NoChannel /\ life[handling] = "removed" => events_[handling] = {}

Core == TypeOK /\ Lifetimes /\ PollfdsMatch /\ ActiveValid /\ AssertionsHold
IInv == Core /\ Recorded

-----------------------------------------------------------------------------
(* Facts about one state.                                                  *)

LEMMA FdsAreNat == \A c \in Channels : Fd[c] \in Nat /\ Fd[c] \in Fds /\ Muted(Fd[c]) < 0
BY FdAssumption DEF FdAssumption, Fds, Muted

LEMMA EntryFds ==
    ASSUME TypeOK, NEW i \in DOMAIN pollfds_
    PROVE  /\ pollfds_[i] = [fd |-> pollfds_[i].fd, events |-> pollfds_[i].events]
           /\ pollfds_[i].fd \in Int
           /\ pollfds_[i].fd \in Fds \/ \E fd \in Fds : pollfds_[i].fd = Muted(fd)
           /\ pollfds_[i].events \in SUBSET Events
<1>1. pollfds_[i] \in Entries
  BY ElementOfSeq, LenProperties DEF TypeOK
<1> QED
  BY <1>1, FdAssumption DEF Entries, Fds, Muted, FdAssumption

(* No two registered channels share an entry or a descriptor.              *)
LEMMA Distinct ==
    ASSUME TypeOK, Running, PollfdsMatch,
           NEW c \in Channels, NEW d \in Channels, c # d, Registered(c), Registered(d)
    PROVE  index_[c] # index_[d] /\ Fd[c] # Fd[d]
<1>1. Fd[c] # Fd[d]
  BY DEF PollfdsMatch
<1>2. /\ Entry(c).fd \in {Fd[c], Muted(Fd[c])}
      /\ Entry(d).fd \in {Fd[d], Muted(Fd[d])}
  BY DEF PollfdsMatch
<1>3. {Fd[c], Muted(Fd[c])} \cap {Fd[d], Muted(Fd[d])} = {}
  BY <1>1, FdsAreNat DEF Muted
<1> QED
  BY <1>1, <1>2, <1>3 DEF Entry

-----------------------------------------------------------------------------
LEMMA InvInit == Init => IInv
<1> SUFFICES ASSUME Init PROVE IInv
  OBVIOUS
<1>1. TypeOK
  <2>1. << >> \in Seq(Entries) /\ << >> \in Seq(Channels)
    OBVIOUS
  <2> QED
    BY <2>1 DEF Init, TypeOK, Assertions
<1>2. Lifetimes
  BY DEF Init, Lifetimes
<1>3. PollfdsMatch
  BY DEF Init, PollfdsMatch, Registered
<1>4. ActiveValid /\ AssertionsHold
  BY DEF Init, ActiveValid, AssertionsHold
<1>5. Recorded
  BY DEF Init, Recorded
<1> QED
  BY <1>1, <1>2, <1>3, <1>4, <1>5 DEF IInv, Core

(* A step that adds or rewrites an entry.                                  *)
LEMMA UpdateStep ==
    ASSUME IInv, NEW c \in Channels, NEW e \in SUBSET Events, life[c] = "open",
           updateChannel(c, e)
    PROVE  /\ Core'
           /\ \A d \in Channels \ {c} : /\ Registered(d)' <=> Registered(d)
                                        /\ Registered(d) => Entry(d)' = Entry(d)
           /\ Registered(c)'
           /\ AddEntry(c, e) => ~Registered(c) /\ Entry(c)' = [fd |-> Fd[c], events |-> e]
           /\ RewriteEntry(c, e) =>
                 /\ Registered(c)
                 /\ Entry(c)' = [fd |-> IF e = {} THEN Muted(Fd[c]) ELSE Entry(c).fd,
                                 events |-> e]
<1> USE DEF IInv, Core, updateChannel
<1>1. pollfds_ \in Seq(Entries) /\ Len(pollfds_) \in Nat /\ DOMAIN pollfds_ = 1 .. Len(pollfds_)
  BY LenProperties DEF TypeOK
<1>2. /\ events_' = [events_ EXCEPT ![c] = e]
      /\ events_[c] \in SUBSET Events
      /\ events_'[c] = e
      /\ \A d \in Channels \ {c} : events_'[d] = events_[d]
      /\ enabled' \subseteq Channels /\ overwritten' \subseteq Channels
      /\ \A d \in overwritten : d \in overwritten' \/ d = c
  BY DEF TypeOK, Sharing
<1>3. CASE AddEntry(c, e)
  <2> DEFINE new == [fd |-> Fd[c], events |-> e]
  <2>1. channels_[Fd[c]] = NoChannel
    <3>1. SUFFICES ASSUME channels_[Fd[c]] # NoChannel PROVE FALSE
      OBVIOUS
    <3>2. channels_[Fd[c]] \in Channels
      BY <3>1, FdsAreNat DEF TypeOK
    <3>3. Registered(channels_[Fd[c]]) /\ Fd[channels_[Fd[c]]] = Fd[c]
      BY <3>1, FdsAreNat DEF PollfdsMatch
    <3>4. channels_[Fd[c]] # c
      BY <1>3, <3>3, FdsAreNat DEF AddEntry, Registered, TypeOK
    <3> QED
      BY <3>2, <3>3, <3>4 DEF Lifetimes, Registered
  <2>2. /\ pollfds_' = Append(pollfds_, new)
        /\ index_' = [index_ EXCEPT ![c] = Len(pollfds_)]
        /\ channels_' = [channels_ EXCEPT ![Fd[c]] = c]
        /\ failed' = failed
    BY <1>3, <2>1 DEF AddEntry
  <2>3. new \in Entries
    BY FdsAreNat DEF Entries
  <2>4. /\ pollfds_' \in Seq(Entries)
        /\ DOMAIN pollfds_' = 1 .. Len(pollfds_) + 1
        /\ \A i \in DOMAIN pollfds_ : pollfds_'[i] = pollfds_[i]
        /\ pollfds_'[Len(pollfds_) + 1] = new
    BY <1>1, <2>2, <2>3, AppendProperties, LenProperties
  <2>5. TypeOK'
    BY <1>1, <1>2, <2>2, <2>4, FdsAreNat DEF TypeOK
  <2>6. Lifetimes'
    <3>1. life' = life /\ \A d \in Channels \ {c} : index_'[d] = index_[d]
      BY <2>2 DEF TypeOK
    <3>2. ASSUME NEW d \in Channels, life'[d] = "absent" PROVE index_'[d] = -1
      <4>1. d # c /\ life[d] = "absent"
        BY <3>1, <3>2
      <4> QED
        BY <3>1, <4>1 DEF Lifetimes
    <3> QED
      BY <3>1, <3>2 DEF Lifetimes
  <2>7. ~Registered(c)
    <3>1. index_[c] < 0 /\ index_[c] \in Int
      BY <1>3 DEF AddEntry, TypeOK
    <3> QED
      BY <3>1 DEF Registered
  <2>8. /\ index_'[c] = Len(pollfds_) /\ Registered(c)'
        /\ \A d \in Channels \ {c} : index_'[d] = index_[d] /\ (Registered(d)' <=> Registered(d))
    BY <1>1, <2>2 DEF TypeOK, Registered
  <2>9. \A d \in Channels \ {c} : Registered(d) => Fd[d] # Fd[c]
    BY DEF Lifetimes, Registered
  <2>10. ASSUME NEW d \in Channels \ {c}, Registered(d)
         PROVE  index_[d] + 1 \in DOMAIN pollfds_ /\ Entry(d)' = Entry(d)
    <3>1. index_[d] + 1 \in DOMAIN pollfds_
      BY <2>10 DEF PollfdsMatch
    <3> QED
      BY <2>4, <2>8, <3>1 DEF Entry
  <2>11. PollfdsMatch'
    <3> SUFFICES ASSUME Running' PROVE PollfdsMatch'
      BY DEF PollfdsMatch
    <3>1. ASSUME NEW d \in Channels, Registered(d)'
          PROVE  /\ index_'[d] + 1 \in DOMAIN pollfds_'
                 /\ Entry(d)'.fd \in {Fd[d], Muted(Fd[d])}
                 /\ d \notin overwritten' => Entry(d)'.events = events_'[d]
                 /\ channels_'[Fd[d]] = d
      <4>1. CASE d = c
        BY <1>1, <1>2, <2>2, <2>4, <2>8, <4>1, FdsAreNat DEF TypeOK, Entry
      <4>2. CASE d # c
        <5>1. Registered(d)
          BY <2>8, <3>1, <4>2
        <5>2. /\ index_[d] + 1 \in DOMAIN pollfds_
              /\ Entry(d).fd \in {Fd[d], Muted(Fd[d])}
              /\ d \notin overwritten => Entry(d).events = events_[d]
              /\ channels_[Fd[d]] = d
          BY <5>1 DEF PollfdsMatch
        <5>3. Entry(d)' = Entry(d)
          BY <2>10, <4>2, <5>1
        <5>4. channels_'[Fd[d]] = channels_[Fd[d]]
          BY <2>2, <2>9, <4>2, <5>1, FdsAreNat DEF TypeOK
        <5> QED
          BY <1>1, <1>2, <2>4, <2>8, <4>2, <5>2, <5>3, <5>4
      <4> QED
        BY <4>1, <4>2
    <3>2. ASSUME NEW i \in DOMAIN pollfds_'
          PROVE  \E d \in Channels : Registered(d)' /\ index_'[d] + 1 = i
      <4>1. CASE i \in DOMAIN pollfds_
        <5>1. PICK d \in Channels : Registered(d) /\ index_[d] + 1 = i
          BY <4>1 DEF PollfdsMatch
        <5> QED
          BY <2>7, <2>8, <5>1
      <4>2. CASE i = Len(pollfds_) + 1
        BY <2>8, <4>2
      <4> QED
        BY <1>1, <2>4, <4>1, <4>2
    <3>3. ASSUME NEW fd \in Fds, NEW d \in Channels, channels_'[fd] = d
          PROVE  Registered(d)' /\ Fd[d] = fd
      <4>1. CASE fd = Fd[c]
        BY <2>2, <2>8, <3>3, <4>1, FdsAreNat DEF TypeOK
      <4>2. CASE fd # Fd[c]
        <5>1. channels_[fd] = d /\ d # NoChannel
          BY <2>2, <3>3, <4>2, NoChannelAssumption DEF TypeOK, NoChannelAssumption
        <5> QED
          BY <2>7, <2>8, <5>1 DEF PollfdsMatch
      <4> QED
        BY <4>1, <4>2
    <3>4. \A fd \in Fds : channels_'[fd] \in Channels \cup {NoChannel}
      BY <2>5 DEF TypeOK
    <3> QED
      BY <3>1, <3>2, <3>3, <3>4 DEF PollfdsMatch, Registered
  <2>12. ActiveValid' /\ AssertionsHold'
    <3>1. \A i \in DOMAIN activeChannels_ : activeChannels_[i] \in Channels
      BY ElementOfSeq, LenProperties DEF TypeOK
    <3> QED
      BY <2>2, <2>8, <3>1 DEF ActiveValid, AssertionsHold, Running
  <2>13. Entry(c)' = new
    BY <2>2, <2>4, <2>8 DEF Entry
  <2>14. ~RewriteEntry(c, e)
    BY <1>3, FdsAreNat DEF AddEntry, RewriteEntry, Rewritten, TypeOK
  <2> QED
    BY <2>5, <2>6, <2>7, <2>8, <2>10, <2>11, <2>12, <2>13, <2>14
<1>4. CASE RewriteEntry(c, e)
  <2> DEFINE idx == index_[c] + 1
             new == [fd |-> IF e = {} THEN Muted(Fd[c]) ELSE pollfds_[idx].fd, events |-> e]
  <2>1. Registered(c) /\ idx \in DOMAIN pollfds_
    BY <1>4 DEF RewriteEntry, Rewritten, Registered, PollfdsMatch
  <2>2. /\ pollfds_' = [i \in DOMAIN pollfds_ |-> IF i = idx THEN new ELSE pollfds_[i]]
        /\ UNCHANGED <<index_, channels_, failed>>
    BY <1>4 DEF RewriteEntry, Rewritten
  <2>3. new \in Entries
    <3>1. Muted(Fd[c]) \in {Muted(fd) : fd \in Fds}
      BY FdsAreNat
    <3>2. pollfds_[idx].fd \in Fds \cup {Muted(fd) : fd \in Fds}
      BY <2>1, EntryFds
    <3> QED
      BY <3>1, <3>2 DEF Entries
  <2>4. /\ pollfds_' \in Seq(Entries)
        /\ DOMAIN pollfds_' = DOMAIN pollfds_
        /\ \A i \in DOMAIN pollfds_ : pollfds_'[i] = IF i = idx THEN new ELSE pollfds_[i]
    <3>1. \A i \in 1 .. Len(pollfds_) : pollfds_[i] \in Entries
      BY <1>1, ElementOfSeq
    <3>2. pollfds_' \in [1 .. Len(pollfds_) -> Entries]
      BY <1>1, <2>2, <2>3, <3>1
    <3>3. pollfds_' \in Seq(Entries)
      BY <1>1, <3>2, SeqDef
    <3> QED
      BY <2>2, <3>3
  <2>5. TypeOK' /\ Lifetimes' /\ AssertionsHold'
    BY <1>2, <2>2, <2>4 DEF TypeOK, Lifetimes, AssertionsHold, Running
  <2>6. \A d \in Channels : Registered(d)' <=> Registered(d)
    BY <2>2 DEF Registered
  <2>7. ActiveValid'
    <3>1. \A i \in DOMAIN activeChannels_ : activeChannels_[i] \in Channels
      BY ElementOfSeq, LenProperties DEF TypeOK
    <3> QED
      BY <2>2, <2>6, <3>1 DEF ActiveValid, Running
  <2>8. ASSUME NEW d \in Channels \ {c}, Registered(d) PROVE Entry(d)' = Entry(d)
    <3>1. index_[d] # index_[c] /\ index_[d] + 1 \in DOMAIN pollfds_
      BY <2>1, <2>8, Distinct DEF PollfdsMatch
    <3>2. index_[d] \in Int /\ index_[c] \in Int
      BY DEF TypeOK
    <3>3. index_[d] + 1 # idx
      BY <3>1, <3>2
    <3> QED
      BY <2>2, <2>4, <3>1, <3>3 DEF Entry
  <2>9. PollfdsMatch'
    <3>1. ASSUME NEW d \in Channels, Registered(d)
          PROVE  /\ index_[d] + 1 \in DOMAIN pollfds_'
                 /\ Entry(d)'.fd \in {Fd[d], Muted(Fd[d])}
                 /\ d \notin overwritten' => Entry(d)'.events = events_'[d]
                 /\ channels_[Fd[d]] = d
      <4>1. /\ index_[d] + 1 \in DOMAIN pollfds_
            /\ Entry(d).fd \in {Fd[d], Muted(Fd[d])}
            /\ d \notin overwritten => Entry(d).events = events_[d]
            /\ channels_[Fd[d]] = d
        BY <3>1 DEF PollfdsMatch
      <4>2. CASE d = c
        BY <1>2, <2>2, <2>4, <4>1, <4>2 DEF Entry
      <4>3. CASE d # c
        BY <1>2, <2>4, <2>8, <3>1, <4>1, <4>3
      <4> QED
        BY <4>2, <4>3
    <3> QED
      BY <2>2, <2>4, <2>6, <3>1 DEF PollfdsMatch, Running, TypeOK
  <2>10. Entry(c)' = new
    BY <2>1, <2>2, <2>4 DEF Entry
  <2>11. ~AddEntry(c, e)
    BY <1>4, FdsAreNat DEF AddEntry, RewriteEntry, Rewritten, TypeOK
  <2> QED
    BY <2>1, <2>5, <2>6, <2>7, <2>8, <2>9, <2>10, <2>11 DEF Entry
<1> QED
  BY <1>3, <1>4

(* A removal: the last entry takes the place of the channel's own.         *)
LEMMA RemoveStep ==
    ASSUME IInv, NEW c \in Channels, removeChannel(c)
    PROVE  /\ Core'
           /\ \/ /\ Entry(c) = [fd |-> Muted(Fd[c]), events |-> {}]
                 /\ \A x \in Channels : /\ Registered(x)' <=> Registered(x) /\ x # c
                                        /\ Registered(x) /\ x # c => Entry(x)' = Entry(x)
              \/ UNCHANGED <<pollfds_, index_, life>>
<1> USE DEF IInv, Core
<1> DEFINE L == Len(pollfds_)
           k == index_[c] + 1
<1>1. /\ Running /\ Registered(c) /\ MayRemove(c)
      /\ UNCHANGED <<events_, activeChannels_, handling, enabled>>
  BY DEF removeChannel
<1>2. pollfds_ \in Seq(Entries) /\ L \in Nat /\ DOMAIN pollfds_ = 1 .. L
  BY LenProperties DEF TypeOK
<1>3. \/ channels_' = channels_
      \/ /\ channels_' = [channels_ EXCEPT ![Fd[c]] = NoChannel]
         /\ channels_'[Fd[c]] = NoChannel
  BY FdsAreNat DEF removeChannel, removeFails, removeSucceeds, Erased, TypeOK
<1>3a. channels_' \in [Fds -> Channels \cup {NoChannel}]
  BY <1>3 DEF TypeOK
<1>4. CASE removeFails(c) /\ UNCHANGED <<pollfds_, index_, life, overwritten>>
  <2>1. failed' \in {"isNoneEvent", "removeFd", "removeEvents"}
    BY <1>4 DEF removeFails, EntryAssertion
  <2>2. TypeOK'
    BY <1>1, <1>3a, <1>4, <2>1 DEF TypeOK, Assertions
  <2>3. failed' # "isNoneEvent" =>
           events_[c] = {} /\ failed' = EntryAssertion(c) /\ c \in HalfRemoved'
    BY <1>1, <1>4, FdsAreNat DEF removeFails, EntryAssertion, Erased, HalfRemoved, Registered, TypeOK
  <2>4. failed' = "removeFd" => c \notin enabled'
    BY <1>1, <2>3 DEF EntryAssertion, Recorded
  <2>5. failed' = "removeEvents" => c \in overwritten'
    BY <1>1, <1>4, <2>3 DEF EntryAssertion, PollfdsMatch
  <2>6. AssertionsHold'
    BY <2>1, <2>3, <2>4, <2>5 DEF AssertionsHold
  <2> QED
    BY <1>4, <2>1, <2>2, <2>6 DEF Lifetimes, PollfdsMatch, ActiveValid, Running
<1>5. CASE removeSucceeds(c)
  <2>1. /\ pollfds_' = MoveLast(index_[c])
        /\ index_' = IF index_[c] = L - 1 THEN index_
                     ELSE [index_ EXCEPT ![LastChannel] = index_[c]]
        /\ life' = [life EXCEPT ![c] = "removed"]
        /\ failed' = failed
        /\ channels_' = [channels_ EXCEPT ![Fd[c]] = NoChannel]
        /\ overwritten' = overwritten \ {c}
    BY <1>5 DEF removeSucceeds, Erased
  <2>2. k \in 1 .. L /\ index_[c] \in Nat
    BY <1>1, <1>2 DEF PollfdsMatch, Registered, TypeOK
  <2>3. PICK d \in Channels : Registered(d) /\ index_[d] + 1 = L
    <3>1. L \in DOMAIN pollfds_
      BY <1>2, <2>2
    <3> QED
      BY <1>1, <3>1 DEF PollfdsMatch
  <2>4. LastChannel = d
    <3>1. pollfds_[L].fd \in {Fd[d], Muted(Fd[d])} /\ channels_[Fd[d]] = d
      BY <1>1, <2>3 DEF PollfdsMatch, Entry
    <3>2. Decode(pollfds_[L].fd) = Fd[d]
      BY <3>1, FdsAreNat DEF Decode, Muted
    <3> QED
      BY <3>1, <3>2 DEF LastChannel
  <2>5. k = L <=> d = c
    BY <1>1, <2>2, <2>3, Distinct DEF TypeOK
  <2>6. /\ index_' \in [Channels -> Nat \cup {-1}]
        /\ d # c => index_'[d] = index_[c]
        /\ \A x \in Channels \ {d} : index_'[x] = index_[x]
        /\ index_'[c] = index_[c]
    BY <1>2, <2>1, <2>2, <2>3, <2>4, <2>5 DEF TypeOK
  <2>7. DOMAIN pollfds_' = 1 .. L - 1
        /\ \A i \in 1 .. L - 1 : pollfds_'[i] = IF i = k THEN pollfds_[L] ELSE pollfds_[i]
    BY <2>1 DEF MoveLast
  <2>8. pollfds_' \in Seq(Entries)
    <3>1. \A i \in 1 .. L : pollfds_[i] \in Entries
      BY <1>2, ElementOfSeq
    <3>2. \A i \in 1 .. L - 1 : pollfds_'[i] \in Entries
      BY <1>2, <2>2, <2>7, <3>1
    <3>3. pollfds_' \in [1 .. L - 1 -> Entries]
      BY <2>1, <2>7, <3>2 DEF MoveLast
    <3> QED
      BY <1>2, <2>2, <3>3, SeqDef
  <2>9. TypeOK'
    BY <1>1, <1>3a, <2>1, <2>6, <2>8 DEF TypeOK
  <2>10. Lifetimes' /\ AssertionsHold'
    <3>1. \A x \in Channels : life'[x] = "absent" => life[x] = "absent" /\ x # c /\ x # d
      BY <1>1, <2>1, <2>3 DEF TypeOK, Registered
    <3>2. \A x \in Channels : life[x] = "absent" => life'[x] = "absent"
      BY <1>1, <2>1 DEF TypeOK, Registered
    <3> QED
      BY <1>1, <2>1, <2>6, <3>1, <3>2 DEF Lifetimes, AssertionsHold, Running
  <2>11. \A x \in Channels : Registered(x)' <=> Registered(x) /\ x # c
    BY <2>1, <2>2, <2>3, <2>6 DEF Registered, TypeOK
  <2>12. ActiveValid'
    <3>1. \A i \in DOMAIN activeChannels_ : activeChannels_[i] \in Channels /\ activeChannels_[i] # c
      <4>1. \A i \in DOMAIN activeChannels_ : activeChannels_[i] \in Channels
        BY ElementOfSeq, LenProperties DEF TypeOK
      <4>2. CASE handling = c
        BY <1>1, <4>1, <4>2, NoChannelAssumption DEF ActiveValid, NoChannelAssumption
      <4>3. CASE activeChannels_ = << >>
        BY <4>3
      <4> QED
        BY <1>1, <4>1, <4>2, <4>3 DEF MayRemove, InFunctors
    <3>2. handling # NoChannel => life'[handling] # "absent"
      BY <1>1, <2>1 DEF TypeOK, ActiveValid
    <3> QED
      BY <1>1, <2>11, <3>1, <3>2 DEF ActiveValid
  <2>13. ASSUME NEW x \in Channels, Registered(x), x # c
         PROVE  /\ index_'[x] + 1 \in DOMAIN pollfds_'
                /\ pollfds_'[index_'[x] + 1] = Entry(x)
    <3>1. CASE x = d
      <4>1. index_'[x] + 1 = k /\ k \in 1 .. L - 1
        BY <1>2, <2>2, <2>5, <2>6, <2>13, <3>1
      <4>2. pollfds_'[k] = pollfds_[L]
        BY <2>7, <4>1
      <4> QED
        BY <2>3, <2>7, <3>1, <4>1, <4>2 DEF Entry
    <3>2. CASE x # d
      <4>1. index_[x] # index_[d] /\ index_[x] # index_[c]
        BY <1>1, <2>3, <2>13, <3>2, Distinct
      <4>2. index_[x] + 1 \in 1 .. L
        BY <1>1, <1>2, <2>13 DEF PollfdsMatch
      <4>3. index_[x] \in Int /\ index_[d] \in Int /\ index_[c] \in Int
        BY DEF TypeOK
      <4>4. index_[x] + 1 # L /\ index_[x] + 1 # k
        BY <2>3, <4>1, <4>3
      <4> QED
        BY <1>2, <2>6, <2>7, <3>2, <4>2, <4>4 DEF Entry
    <3> QED
      BY <3>1, <3>2
  <2>14. ASSUME NEW x \in Channels, Registered(x), x # c
         PROVE  /\ Entry(x)'.fd \in {Fd[x], Muted(Fd[x])}
                /\ x \notin overwritten' => Entry(x)'.events = events_'[x]
                /\ channels_'[Fd[x]] = x
    <3>1. /\ Entry(x).fd \in {Fd[x], Muted(Fd[x])}
          /\ x \notin overwritten => Entry(x).events = events_[x]
          /\ channels_[Fd[x]] = x
      BY <1>1, <2>14 DEF PollfdsMatch
    <3>2. Fd[x] # Fd[c]
      BY <1>1, <2>14, Distinct
    <3> QED
      BY <1>1, <2>1, <2>13, <2>14, <3>1, <3>2, FdsAreNat DEF Entry, TypeOK
  <2>15. ASSUME NEW i \in 1 .. L - 1
         PROVE  \E x \in Channels : Registered(x) /\ x # c /\ index_'[x] + 1 = i
    <3>1. CASE i = k
      <4>1. d # c
        BY <1>2, <2>5, <3>1
      <4> QED
        BY <2>3, <2>6, <3>1, <4>1
    <3>2. CASE i # k
      <4> i \in DOMAIN pollfds_
        BY <1>2
      <4>1. PICK x \in Channels : Registered(x) /\ index_[x] + 1 = i
        BY <1>1 DEF PollfdsMatch
      <4>2. x # c /\ x # d
        BY <1>2, <2>3, <3>2, <4>1
      <4> QED
        BY <2>6, <4>1, <4>2
    <3> QED
      BY <3>1, <3>2
  <2>16. ASSUME NEW fd \in Fds, NEW x \in Channels, channels_'[fd] = x
         PROVE  Registered(x) /\ x # c /\ Fd[x] = fd
    <3>1. fd # Fd[c] /\ channels_[fd] = x /\ x # NoChannel
      BY <2>1, <2>16, NoChannelAssumption DEF TypeOK, NoChannelAssumption
    <3>2. Registered(x) /\ Fd[x] = fd
      BY <1>1, <3>1 DEF PollfdsMatch
    <3> QED
      BY <3>1, <3>2
  <2>17. PollfdsMatch'
    <3>1. \A x \in Channels : Registered(x)' =>
             /\ (index_[x] + 1 \in DOMAIN pollfds_)'
             /\ Entry(x)'.fd \in {Fd[x], Muted(Fd[x])}
             /\ x \notin overwritten' => Entry(x)'.events = events_'[x]
             /\ channels_'[Fd[x]] = x
      BY <2>11, <2>13, <2>14
    <3>2. \A i \in DOMAIN pollfds_' : \E x \in Channels : Registered(x)' /\ index_'[x] + 1 = i
      BY <2>7, <2>11, <2>15
    <3>3. \A fd \in Fds, x \in Channels : channels_'[fd] = x => Registered(x)' /\ Fd[x] = fd
      BY <2>11, <2>16
    <3>4. \A fd \in Fds : channels_'[fd] \in Channels \cup {NoChannel}
      BY <1>3a
    <3> QED
      BY <3>1, <3>2, <3>3, <3>4 DEF PollfdsMatch, Registered
  <2>18. Entry(c) = [fd |-> Muted(Fd[c]), events |-> {}]
    <3>1. Entry(c).fd = Muted(Fd[c]) /\ Entry(c).events = {}
      BY <1>5 DEF removeSucceeds, EntryAssertion
    <3>2. Entry(c) = [fd |-> Entry(c).fd, events |-> Entry(c).events]
      BY <1>2, <2>2, EntryFds DEF Entry
    <3> QED
      BY <3>1, <3>2
  <2> QED
    BY <2>9, <2>10, <2>11, <2>12, <2>13, <2>17, <2>18 DEF Entry
<1> QED
  BY <1>4, <1>5 DEF removeChannel

(* A step that leaves the array, the map and the indices as they are.      *)
LEMMA StablePollfds ==
    ASSUME IInv, UNCHANGED <<pollfds_, channels_, index_, events_, overwritten>>,
           Running' => Running,
           \A c \in Channels : index_[c] >= 0 => (Registered(c)' <=> Registered(c))
    PROVE  PollfdsMatch'
<1>1. \A c \in Channels : Registered(c)' <=> Registered(c)
  BY DEF Registered
<1>2. \A fd \in Fds : channels_[fd] \in Channels \cup {NoChannel}
  BY DEF IInv, Core, TypeOK
<1>3. \A c \in Channels : Entry(c)' = Entry(c)
  BY DEF Entry
<1> QED
  BY <1>1, <1>2, <1>3 DEF IInv, Core, PollfdsMatch

LEMMA LifeStep ==
    ASSUME IInv, NEW c \in Channels, Channel(c) \/ destroy(c)
    PROVE  Core'
<1> USE DEF IInv, Core
<1>1. CASE Channel(c)
  <2>1. /\ life[c] = "absent" /\ index_[c] = -1
        /\ life' = [life EXCEPT ![c] = "open"]
        /\ UNCHANGED <<pollfds_, channels_, index_, events_, activeChannels_, handling, failed>>
        /\ Running /\ UNCHANGED <<enabled, overwritten>>
    BY <1>1 DEF Channel, Lifetimes, history
  <2>2. TypeOK' /\ AssertionsHold'
    BY <2>1 DEF TypeOK, AssertionsHold, Running
  <2>3. Lifetimes'
    BY <1>1, <2>1 DEF Channel, Lifetimes, TypeOK
  <2>4. \A d \in Channels : Registered(d)' <=> Registered(d)
    BY <2>1 DEF Registered, TypeOK
  <2>5. PollfdsMatch'
    BY <2>1, <2>4, StablePollfds DEF Running
  <2>6. ActiveValid'
    <3>1. \A i \in DOMAIN activeChannels_ : activeChannels_[i] \in Channels
      BY ElementOfSeq, LenProperties DEF TypeOK
    <3>2. handling # NoChannel => (life[handling] # "absent" => life'[handling] # "absent")
      BY <2>1 DEF TypeOK
    <3> QED
      BY <2>1, <2>4, <3>1, <3>2 DEF ActiveValid, Running
  <2> QED
    BY <2>2, <2>3, <2>5, <2>6
<1>2. CASE destroy(c)
  <2>1. /\ Running
        /\ life[c] = "removed" \/ (life[c] = "open" /\ index_[c] < 0)
        /\ handling # c
        /\ life' = [life EXCEPT ![c] = "absent"]
        /\ index_' = [index_ EXCEPT ![c] = -1]
        /\ events_' = [events_ EXCEPT ![c] = {}]
        /\ enabled' = enabled \ {c}
        /\ UNCHANGED <<pollfds_, channels_, activeChannels_, handling, failed, overwritten>>
    BY <1>2 DEF destroy
  <2>2. TypeOK' /\ Lifetimes' /\ AssertionsHold'
    BY <2>1 DEF TypeOK, Lifetimes, AssertionsHold, Running
  <2>3. ~Registered(c) /\ ~Registered(c)'
    BY <2>1 DEF Registered, TypeOK
  <2>4. \A d \in Channels \ {c} : /\ Registered(d)' <=> Registered(d)
                                  /\ index_'[d] = index_[d] /\ events_'[d] = events_[d]
                                  /\ Entry(d)' = Entry(d)
    BY <2>1 DEF Registered, TypeOK, Entry
  <2>5. PollfdsMatch'
    <3>1. \A fd \in Fds : channels_[fd] \in Channels \cup {NoChannel}
      BY DEF TypeOK
    <3> QED
      BY <2>1, <2>3, <2>4, <3>1 DEF PollfdsMatch, Running
  <2>6. ActiveValid'
    <3>1. \A i \in DOMAIN activeChannels_ : activeChannels_[i] \in Channels \ {c}
      BY <2>1, <2>3, ElementOfSeq, LenProperties DEF TypeOK, ActiveValid
    <3>2. handling # NoChannel => (life[handling] # "absent" => life'[handling] # "absent")
      BY <2>1 DEF TypeOK
    <3> QED
      BY <2>1, <2>4, <3>1, <3>2 DEF ActiveValid, Running
  <2> QED
    BY <2>2, <2>5, <2>6
<1> QED
  BY <1>1, <1>2

LEMMA PollStep ==
    ASSUME IInv, NEW n \in 0 .. Len(pollfds_), NEW ready \in [1 .. n -> DOMAIN pollfds_],
           poll(n, ready)
    PROVE  /\ Core'
           /\ \A i \in DOMAIN activeChannels_' :
                 Registered(activeChannels_'[i]) /\ Entry(activeChannels_'[i]).fd >= 0
<1> USE DEF IInv, Core
<1> DEFINE Found(i) == channels_[pollfds_[ready[i]].fd]
<1>1. /\ Running /\ activeChannels_ = << >> /\ handling = NoChannel
      /\ UNCHANGED <<pollfds_, channels_, index_, events_, handling, life, enabled, overwritten>>
  BY DEF poll, history
<1>2. n \in Nat
  BY LenProperties DEF TypeOK
<1>3. ASSUME NEW i \in 1 .. n
      PROVE  /\ Found(i) \in Channels /\ Registered(Found(i))
             /\ Found(i) # NoChannel /\ Fd[Found(i)] = pollfds_[ready[i]].fd
             /\ index_[Found(i)] + 1 = ready[i] /\ Entry(Found(i)).fd >= 0
  <2>1. ready[i] \in DOMAIN pollfds_ /\ pollfds_[ready[i]].fd >= 0
    BY DEF poll
  <2>2. PICK c \in Channels : Registered(c) /\ index_[c] + 1 = ready[i]
    BY <1>1, <2>1 DEF PollfdsMatch
  <2>3. pollfds_[ready[i]].fd \in {Fd[c], Muted(Fd[c])} /\ channels_[Fd[c]] = c
    BY <1>1, <2>2 DEF PollfdsMatch, Entry
  <2>4. pollfds_[ready[i]].fd = Fd[c]
    BY <2>1, <2>3, FdsAreNat DEF Muted
  <2> QED
    BY <2>1, <2>2, <2>3, <2>4, NoChannelAssumption DEF NoChannelAssumption, Entry
<1>4. activeChannels_' = [i \in 1 .. n |-> Found(i)] /\ failed' = failed
  BY <1>3 DEF poll
<1> HIDE DEF Found
<1>5. activeChannels_' \in Seq(Channels) /\ DOMAIN activeChannels_' = 1 .. n
  <2>1. activeChannels_' \in [1 .. n -> Channels]
    BY <1>3, <1>4
  <2> QED
    BY <1>2, <1>4, <2>1, SeqDef
<1>6. TypeOK' /\ Lifetimes' /\ AssertionsHold'
  BY <1>1, <1>4, <1>5 DEF TypeOK, Lifetimes, AssertionsHold, Running
<1>7. PollfdsMatch'
  BY <1>1, <1>4, StablePollfds DEF Running, Registered
<1>8. ASSUME NEW i \in 1 .. n, NEW j \in 1 .. n, i # j PROVE Found(i) # Found(j)
  <2>1. ready[i] # ready[j]
    <3>1. ready[i] \in Int /\ ready[j] \in Int
      BY LenProperties DEF TypeOK
    <3> QED
      BY <1>2, <1>8, <3>1 DEF poll
  <2> QED
    BY <1>3, <2>1
<1>9. ActiveValid'
  <2>1. \A i \in 1 .. n : activeChannels_'[i] = Found(i)
    BY <1>4
  <2>2. \A i \in 1 .. n : life'[activeChannels_'[i]] = "open" /\ index_'[activeChannels_'[i]] >= 0
    BY <1>1, <1>3, <2>1 DEF Registered
  <2>3. \A i, j \in 1 .. n : i # j => activeChannels_'[i] # activeChannels_'[j]
    BY <1>8, <2>1
  <2> QED
    BY <1>1, <1>5, <2>2, <2>3 DEF ActiveValid, Registered
<1> QED
  BY <1>3, <1>4, <1>5, <1>6, <1>7, <1>9

LEMMA HandleStep ==
    ASSUME IInv, handleEvent \/ handleEventReturns
    PROVE  Core'
<1> USE DEF IInv, Core
<1>1. CASE handleEvent
  <2>1. /\ Running /\ activeChannels_ # << >>
        /\ handling' = Head(activeChannels_) /\ activeChannels_' = Tail(activeChannels_)
        /\ UNCHANGED <<pollfds_, channels_, index_, events_, life, failed, enabled, overwritten>>
    BY <1>1 DEF handleEvent, history
  <2>2. /\ activeChannels_ \in Seq(Channels)
        /\ DOMAIN activeChannels_ = 1 .. Len(activeChannels_)
        /\ Len(activeChannels_) \in Nat \ {0}
    BY <2>1, LenProperties, EmptySeq DEF TypeOK
  <2>3. /\ Tail(activeChannels_) \in Seq(Channels)
        /\ DOMAIN Tail(activeChannels_) = 1 .. Len(activeChannels_) - 1
        /\ \A i \in 1 .. Len(activeChannels_) - 1 :
              Tail(activeChannels_)[i] = activeChannels_[i + 1]
    BY <2>1, <2>2, HeadTailProperties, LenProperties
  <2>4. Head(activeChannels_) = activeChannels_[1] /\ 1 \in DOMAIN activeChannels_
    BY <2>1, <2>2
  <2>5. TypeOK' /\ Lifetimes' /\ AssertionsHold'
    BY <2>1, <2>3, HeadTailProperties DEF TypeOK, Lifetimes, AssertionsHold, Running
  <2>6. PollfdsMatch'
    BY <2>1, StablePollfds DEF Running, Registered
  <2>7. \A i \in 1 .. Len(activeChannels_) - 1 :
           i + 1 \in DOMAIN activeChannels_ /\ i + 1 # 1
    BY <2>2
  <2>8. ActiveValid'
    <3>1. \A i \in DOMAIN activeChannels_' : Registered(activeChannels_'[i])
      BY <2>1, <2>3, <2>7 DEF ActiveValid
    <3>2. \A i, j \in DOMAIN activeChannels_' :
             i # j => activeChannels_'[i] # activeChannels_'[j]
      BY <2>1, <2>2, <2>3, <2>7 DEF ActiveValid
    <3>3. life[handling'] # "absent" /\ \A i \in DOMAIN activeChannels_' :
             activeChannels_'[i] # handling'
      BY <2>1, <2>3, <2>4, <2>7 DEF ActiveValid, Registered
    <3> QED
      BY <2>1, <3>1, <3>2, <3>3 DEF ActiveValid, Registered
  <2> QED
    BY <2>5, <2>6, <2>8
<1>2. CASE handleEventReturns
  <2>1. PollfdsMatch'
    BY <1>2, StablePollfds DEF handleEventReturns, Running, Registered, history
  <2>2. TypeOK' /\ Lifetimes' /\ AssertionsHold'
    BY <1>2 DEF handleEventReturns, TypeOK, Lifetimes, AssertionsHold, Running, history
  <2>3. ActiveValid'
    BY <1>2 DEF handleEventReturns, ActiveValid, Running, Registered
  <2> QED
    BY <2>1, <2>2, <2>3
<1> QED
  BY <1>1, <1>2

(* What a channel asks for: anything while it is open; after its removal   *)
(* only sendInLoop still calls it.                                         *)
LEMMA Updates ==
    ASSUME TypeOK, Recorded, Running => ActiveValid, NEW c \in Channels,
           enableReading(c) \/ enableWriting(c) \/ disableWriting(c) \/ disableAll(c)
    PROVE  \E e \in SUBSET Events :
              /\ updateChannel(c, e)
              /\ life[c] = "open" \/ (life[c] = "removed" /\ e # {} /\ handling = NoChannel)
<1>1. events_[c] \in SUBSET Events /\ life[c] \in {"absent", "open", "removed"}
  BY DEF TypeOK
<1>2. CASE enableReading(c) \/ disableAll(c)
  BY <1>1, <1>2 DEF enableReading, disableAll, Events
<1>3. CASE enableWriting(c)
  <2> DEFINE e == events_[c] \cup {"write"}
  <2>1. e \in SUBSET Events /\ e # {}
    BY <1>1 DEF Events
  <2> QED
    BY <1>3, <2>1 DEF enableWriting, InFunctors
<1>4. CASE disableWriting(c)
  <2>1. /\ handling = c /\ "write" \in events_[c]
        /\ updateChannel(c, events_[c] \ {"write"})
    BY <1>4 DEF disableWriting
  <2>2. life[c] # "removed" /\ life[c] # "absent"
    BY <2>1, NoChannelAssumption DEF Recorded, ActiveValid, updateChannel, NoChannelAssumption
  <2> QED
    BY <1>1, <2>1, <2>2
<1> QED
  BY <1>2, <1>3, <1>4

(* An update of a channel that was removed changes the events of at most   *)
(* one entry, and notes whose.                                             *)
LEMMA StaleStep ==
    ASSUME IInv, NEW c \in Channels, NEW e \in SUBSET Events, e # {}, life[c] = "removed",
           updateChannel(c, e)
    PROVE  /\ Core'
           /\ RewriteEntry(c, e)
           /\ \A d \in Channels : Registered(d)' <=> Registered(d)
           /\ \A d \in Channels : Registered(d) => Entry(d)'.fd = Entry(d).fd
           /\ \A d \in Channels \ Sharing(c) : Registered(d) => Entry(d)' = Entry(d)
           /\ \A d \in Sharing(c) : Entry(d)'.events = e
           /\ \A d1, d2 \in Sharing(c) : d1 = d2
<1> USE DEF IInv, Core
<1>1. /\ Running /\ RewriteEntry(c, e) /\ ~Registered(c)
      /\ events_' = [events_ EXCEPT ![c] = e]
      /\ overwritten' = (overwritten \ {c}) \cup Sharing(c)
      /\ enabled' = enabled \cup {c}
      /\ UNCHANGED <<activeChannels_, handling, life>>
  BY DEF updateChannel, AddEntry, Recorded, Registered, TypeOK
<1>2. pollfds_ \in Seq(Entries) /\ Len(pollfds_) \in Nat /\ DOMAIN pollfds_ = 1 .. Len(pollfds_)
  BY LenProperties DEF TypeOK
<1> DEFINE idx == index_[c] + 1
<1>3. /\ pollfds_' = [i \in DOMAIN pollfds_ |->
                        IF i = idx THEN [fd |-> pollfds_[i].fd, events |-> e] ELSE pollfds_[i]]
      /\ UNCHANGED <<index_, channels_, failed>>
  BY <1>1 DEF RewriteEntry, Rewritten
<1>4. /\ pollfds_' \in Seq(Entries)
      /\ DOMAIN pollfds_' = DOMAIN pollfds_
      /\ \A i \in DOMAIN pollfds_ : pollfds_'[i].fd = pollfds_[i].fd
      /\ \A i \in DOMAIN pollfds_ : i # idx => pollfds_'[i] = pollfds_[i]
      /\ idx \in DOMAIN pollfds_ => pollfds_'[idx].events = e
  <2>1. \A i \in 1 .. Len(pollfds_) :
           /\ pollfds_[i] \in Entries
           /\ pollfds_[i].fd \in Fds \cup {Muted(fd) : fd \in Fds}
    <3>1. \A i \in 1 .. Len(pollfds_) : pollfds_[i] \in Entries
      BY <1>2, ElementOfSeq
    <3> QED
      BY <3>1 DEF Entries
  <2>2. \A i \in 1 .. Len(pollfds_) : pollfds_'[i] \in Entries
    BY <1>2, <1>3, <2>1 DEF Entries
  <2>3. pollfds_' \in [1 .. Len(pollfds_) -> Entries]
    BY <1>2, <1>3, <2>2
  <2>4. pollfds_' \in Seq(Entries)
    BY <1>2, <2>3, SeqDef
  <2> QED
    BY <1>3, <2>4
<1>5. \A d \in Channels : Registered(d)' <=> Registered(d)
  BY <1>1, <1>3 DEF Registered
<1>6. ASSUME NEW d \in Channels, Registered(d)
      PROVE  /\ index_[d] + 1 \in DOMAIN pollfds_ /\ d # c
             /\ Entry(d)'.fd = Entry(d).fd
             /\ d \notin Sharing(c) => Entry(d)' = Entry(d)
             /\ d \in Sharing(c) => Entry(d)'.events = e
  <2>1. index_[d] + 1 \in DOMAIN pollfds_ /\ d # c
    BY <1>1, <1>6 DEF PollfdsMatch
  <2>2. index_[d] \in Int /\ index_[c] \in Int
    BY DEF TypeOK
  <2>3. d \notin Sharing(c) => index_[d] + 1 # idx
    BY <1>6, <2>1, <2>2 DEF Sharing
  <2>4. d \in Sharing(c) => index_[d] + 1 = idx
    BY DEF Sharing
  <2> QED
    BY <1>3, <1>4, <2>1, <2>3, <2>4 DEF Entry
<1>7. TypeOK' /\ Lifetimes' /\ AssertionsHold'
  <2>1. overwritten' \subseteq Channels /\ enabled' \subseteq Channels
    BY <1>1 DEF TypeOK, Sharing
  <2> QED
    BY <1>1, <1>3, <1>4, <2>1 DEF TypeOK, Lifetimes, AssertionsHold, Running
<1>8. PollfdsMatch'
  <2>1. ASSUME NEW d \in Channels, Registered(d)
        PROVE  /\ index_[d] + 1 \in DOMAIN pollfds_'
               /\ Entry(d)'.fd \in {Fd[d], Muted(Fd[d])}
               /\ d \notin overwritten' => Entry(d)'.events = events_'[d]
               /\ channels_[Fd[d]] = d
    <3>1. /\ Entry(d).fd \in {Fd[d], Muted(Fd[d])}
          /\ d \notin overwritten => Entry(d).events = events_[d]
          /\ channels_[Fd[d]] = d
      BY <1>1, <2>1 DEF PollfdsMatch
    <3>2. d # c /\ events_'[d] = events_[d]
      BY <1>1, <1>6, <2>1 DEF TypeOK
    <3> QED
      BY <1>1, <1>4, <1>6, <2>1, <3>1, <3>2
  <2>2. \A fd \in Fds : channels_[fd] \in Channels \cup {NoChannel}
    BY DEF TypeOK
  <2> QED
    BY <1>1, <1>3, <1>4, <1>5, <2>1, <2>2 DEF PollfdsMatch, Running
<1>9. ActiveValid'
  <2>1. \A i \in DOMAIN activeChannels_ : activeChannels_[i] \in Channels
    BY ElementOfSeq, LenProperties DEF TypeOK
  <2> QED
    BY <1>1, <1>5, <2>1 DEF ActiveValid, Running
<1>10. \A d1, d2 \in Sharing(c) : d1 = d2
  BY <1>1, Distinct DEF Sharing
<1> QED
  BY <1>1, <1>5, <1>6, <1>7, <1>8, <1>9, <1>10 DEF Sharing

-----------------------------------------------------------------------------
(* The history variables keep their meaning.                               *)

LEMMA RecordedUpdate ==
    ASSUME IInv, NEW c \in Channels, NEW e \in SUBSET Events, updateChannel(c, e),
           life[c] = "open" \/ (life[c] = "removed" /\ e # {} /\ handling = NoChannel)
    PROVE  Recorded'
<1>1. /\ overwritten' = (overwritten \ {c}) \cup Sharing(c)
      /\ enabled' \subseteq enabled \cup {c}
      /\ e = {} => enabled' = enabled
      /\ events_' = [events_ EXCEPT ![c] = e]
      /\ UNCHANGED <<handling, life>> /\ Running
      /\ enabled \subseteq Channels /\ overwritten \subseteq Channels
      /\ Sharing(c) \subseteq {d \in Channels : Registered(d)}
  BY DEF updateChannel, IInv, Core, TypeOK, Sharing
<1>2. CASE life[c] = "open"
  <2>1. /\ Core' /\ Registered(c)'
        /\ \A d \in Channels \ {c} : /\ Registered(d)' <=> Registered(d)
                                     /\ Registered(d) => Entry(d)' = Entry(d)
        /\ AddEntry(c, e) => ~Registered(c) /\ Entry(c)' = [fd |-> Fd[c], events |-> e]
        /\ RewriteEntry(c, e) =>
              /\ Registered(c)
              /\ Entry(c)' = [fd |-> IF e = {} THEN Muted(Fd[c]) ELSE Entry(c).fd, events |-> e]
    BY <1>2, UpdateStep
  <2>2. \A d \in overwritten' : Registered(d)'
    BY <1>1, <2>1 DEF IInv, Recorded
  <2>3. \A d \in Channels \ {c} : index_'[d] = index_[d]
    BY DEF updateChannel, AddEntry, RewriteEntry, IInv, Core, TypeOK
  <2>4. index_'[c] >= 0
    BY <2>1 DEF Registered
  <2>5. \A d \in enabled' : index_'[d] >= 0
    BY <1>1, <2>3, <2>4 DEF IInv, Recorded
  <2>6. \A d \in Channels : life'[d] = "removed" => index_'[d] >= 0
    BY <1>1, <2>3, <2>4 DEF IInv, Recorded
  <2>7. ASSUME NEW d \in enabled', Registered(d)', events_'[d] = {}
        PROVE  Entry(d)'.fd = Muted(Fd[d])
    <3>1. CASE d = c
      <4>1. e = {} /\ c \in enabled
        BY <1>1, <2>7, <3>1 DEF IInv, Core, TypeOK
      <4>2. index_[c] >= 0
        BY <4>1 DEF IInv, Recorded
      <4>3. RewriteEntry(c, e)
        BY <4>2 DEF updateChannel, AddEntry, IInv, Core, TypeOK
      <4> QED
        BY <2>1, <3>1, <4>1, <4>3
    <3>2. CASE d # c
      <4>1. d \in enabled /\ d \in Channels /\ Registered(d) /\ events_[d] = {}
        BY <1>1, <2>1, <2>7, <3>2 DEF IInv, Core, TypeOK
      <4> QED
        BY <2>1, <3>2, <4>1 DEF IInv, Recorded
    <3> QED
      BY <3>1, <3>2
  <2>8. handling' # NoChannel /\ life'[handling'] = "removed" => events_'[handling'] = {}
    BY <1>1, <1>2 DEF IInv, Core, TypeOK, Recorded
  <2> QED
    BY <2>2, <2>5, <2>6, <2>7, <2>8 DEF Recorded
<1>3. CASE life[c] = "removed" /\ e # {} /\ handling = NoChannel
  <2>1. /\ RewriteEntry(c, e)
        /\ \A d \in Channels : Registered(d)' <=> Registered(d)
        /\ \A d \in Channels : Registered(d) => Entry(d)'.fd = Entry(d).fd
    BY <1>3, StaleStep
  <2>2. index_' = index_ /\ index_[c] >= 0 /\ ~Registered(c)
    BY <1>3, <2>1 DEF RewriteEntry, Registered
  <2>3. \A d \in overwritten' : Registered(d)'
    BY <1>1, <2>1 DEF IInv, Recorded
  <2>4. \A d \in enabled' : Registered(d)' /\ events_'[d] = {} => Entry(d)'.fd = Muted(Fd[d])
    <3>1. ASSUME NEW d \in enabled', Registered(d)', events_'[d] = {}
          PROVE  Entry(d)'.fd = Muted(Fd[d])
      <4>1. d # c /\ d \in Channels /\ d \in enabled /\ Registered(d) /\ events_[d] = {}
        BY <1>1, <2>1, <2>2, <3>1 DEF IInv, Core, TypeOK
      <4> QED
        BY <2>1, <4>1 DEF IInv, Recorded
    <3> QED
      BY <3>1
  <2> QED
    BY <1>1, <1>3, <2>2, <2>3, <2>4 DEF IInv, Recorded
<1> QED
  BY <1>2, <1>3

LEMMA RecordedRemove ==
    ASSUME IInv, NEW c \in Channels, removeChannel(c)
    PROVE  Recorded'
<1>1. /\ UNCHANGED <<events_, activeChannels_, handling, enabled>>
      /\ Registered(c)
  BY DEF removeChannel
<1>2. CASE removeFails(c) /\ UNCHANGED <<pollfds_, index_, life, overwritten>>
  BY <1>1, <1>2 DEF IInv, Recorded, Registered, Entry
<1>3. CASE removeSucceeds(c)
  <2>1. /\ events_[c] = {} /\ overwritten' = overwritten \ {c}
        /\ life' = [life EXCEPT ![c] = "removed"]
    BY <1>3 DEF removeSucceeds
  <2>2. \A x \in Channels : /\ Registered(x)' <=> Registered(x) /\ x # c
                            /\ Registered(x) /\ x # c => Entry(x)' = Entry(x)
    <3>1. life' # life
      BY <1>1, <2>1 DEF IInv, Core, TypeOK, Registered
    <3>2. ~UNCHANGED <<pollfds_, index_, life>>
      BY <3>1
    <3> QED
      BY <3>2, RemoveStep DEF Registered, Entry
  <2>3. enabled \subseteq Channels /\ overwritten \subseteq Channels
    BY DEF IInv, Core, TypeOK
  <2>4. \A x \in Channels : index_[x] >= 0 => index_'[x] >= 0
    <3>1. index_[c] >= 0 /\ index_[c] \in Int
      BY <1>1 DEF Registered, IInv, Core, TypeOK
    <3>2. \A x \in Channels : index_'[x] = index_[x] \/ index_'[x] = index_[c]
      BY <1>3 DEF removeSucceeds, IInv, Core, TypeOK
    <3> QED
      BY <3>1, <3>2
  <2>5. ASSUME NEW x \in overwritten' PROVE Registered(x)'
    <3>1. x \in overwritten /\ x \in Channels /\ x # c
      BY <2>1, <2>3
    <3>2. Registered(x)
      BY <3>1 DEF IInv, Recorded
    <3> QED
      BY <2>2, <3>1, <3>2 DEF Registered
  <2>6. \A x \in enabled' : index_'[x] >= 0
    BY <1>1, <2>3, <2>4 DEF IInv, Recorded
  <2>7. \A x \in Channels : life'[x] = "removed" => index_'[x] >= 0
    <3>1. ASSUME NEW x \in Channels, life'[x] = "removed" PROVE index_[x] >= 0
      <4>1. x = c \/ life[x] = "removed"
        BY <2>1, <3>1 DEF IInv, Core, TypeOK
      <4> QED
        BY <1>1, <4>1 DEF IInv, Recorded, Registered
    <3> QED
      BY <2>4, <3>1
  <2>8. ASSUME NEW x \in enabled', Registered(x)', events_'[x] = {}
        PROVE  Entry(x)'.fd = Muted(Fd[x])
    <3>1. x \in enabled /\ x \in Channels /\ events_[x] = {}
      BY <1>1, <2>3, <2>8
    <3>2. Registered(x) /\ Entry(x)' = Entry(x)
      BY <2>2, <2>8, <3>1 DEF Registered, Entry
    <3> QED
      BY <3>1, <3>2 DEF IInv, Recorded
  <2>9. handling' # NoChannel /\ life'[handling'] = "removed" => events_'[handling'] = {}
    BY <1>1, <2>1 DEF IInv, Recorded, Core, TypeOK
  <2> QED
    BY <2>5, <2>6, <2>7, <2>8, <2>9 DEF Recorded
<1> QED
  BY <1>2, <1>3 DEF removeChannel

LEMMA RecordedLife ==
    ASSUME IInv, NEW c \in Channels, Channel(c) \/ destroy(c)
    PROVE  Recorded'
<1> USE DEF IInv, Core
<1>1. CASE Channel(c)
  <2>1. /\ life[c] = "absent" /\ index_[c] = -1
        /\ life' = [life EXCEPT ![c] = "open"]
        /\ UNCHANGED <<pollfds_, index_, events_, handling, enabled, overwritten>>
    BY <1>1 DEF Channel, Lifetimes, history
  <2>2. \A d \in Channels : (Registered(d)' <=> Registered(d)) /\ Entry(d)' = Entry(d)
    BY <2>1 DEF Registered, TypeOK, Entry
  <2> QED
    BY <2>1, <2>2 DEF Recorded, TypeOK
<1>2. CASE destroy(c)
  <2>1. /\ life[c] = "removed" \/ (life[c] = "open" /\ index_[c] < 0)
        /\ handling # c
        /\ life' = [life EXCEPT ![c] = "absent"]
        /\ index_' = [index_ EXCEPT ![c] = -1]
        /\ events_' = [events_ EXCEPT ![c] = {}]
        /\ enabled' = enabled \ {c}
        /\ UNCHANGED <<pollfds_, handling, overwritten>>
    BY <1>2 DEF destroy
  <2>2. ~Registered(c) /\ ~Registered(c)'
    BY <2>1 DEF Registered, TypeOK
  <2>3. \A d \in Channels \ {c} : /\ Registered(d)' <=> Registered(d)
                                  /\ index_'[d] = index_[d] /\ events_'[d] = events_[d]
                                  /\ life'[d] = life[d]
                                  /\ Entry(d)' = Entry(d)
    BY <2>1 DEF Registered, TypeOK, Entry
  <2>4. life'[c] = "absent"
    BY <2>1 DEF TypeOK
  <2>5. handling # NoChannel => handling \in Channels \ {c}
    BY <2>1 DEF TypeOK
  <2>6. enabled \subseteq Channels /\ overwritten \subseteq Channels \ {c}
    BY <2>2 DEF TypeOK, Recorded
  <2> QED
    BY <2>1, <2>2, <2>3, <2>4, <2>5, <2>6 DEF Recorded
<1> QED
  BY <1>1, <1>2

LEMMA RecordedHandle ==
    ASSUME IInv, handleEvent \/ handleEventReturns
    PROVE  Recorded'
<1>1. UNCHANGED <<pollfds_, index_, events_, life, enabled, overwritten>>
  BY DEF handleEvent, handleEventReturns, history
<1>2. handling' # NoChannel => life[handling'] = "open"
  <2>1. CASE handleEvent
    <3>1. /\ Running /\ activeChannels_ # << >> /\ handling' = Head(activeChannels_)
      BY <2>1 DEF handleEvent
    <3>2. Head(activeChannels_) = activeChannels_[1] /\ 1 \in DOMAIN activeChannels_
      BY <3>1, LenProperties, EmptySeq, HeadTailProperties DEF IInv, Core, TypeOK
    <3> QED
      BY <3>1, <3>2 DEF IInv, Core, ActiveValid, Registered
  <2>2. CASE handleEventReturns
    BY <2>2 DEF handleEventReturns
  <2> QED
    BY <2>1, <2>2
<1> QED
  BY <1>1, <1>2 DEF IInv, Recorded, Registered, Entry

LEMMA InvStep == IInv /\ [Next]_vars => IInv'
<1> SUFFICES ASSUME IInv, [Next]_vars PROVE IInv'
  OBVIOUS
<1>1. ASSUME NEW c \in Channels, Channel(c) \/ destroy(c) PROVE IInv'
  BY <1>1, LifeStep, RecordedLife DEF IInv
<1>2. ASSUME NEW c \in Channels,
             enableReading(c) \/ enableWriting(c) \/ disableWriting(c) \/ disableAll(c)
      PROVE  IInv'
  <2>1. PICK e \in SUBSET Events :
           /\ updateChannel(c, e)
           /\ life[c] = "open" \/ (life[c] = "removed" /\ e # {} /\ handling = NoChannel)
    BY <1>2, Updates DEF IInv, Core
  <2>2. Core'
    BY <2>1, UpdateStep, StaleStep
  <2>3. Recorded'
    BY <2>1, RecordedUpdate
  <2> QED
    BY <2>2, <2>3 DEF IInv
<1>3. ASSUME NEW c \in Channels, removeChannel(c) PROVE IInv'
  BY <1>3, RemoveStep, RecordedRemove DEF IInv
<1>4. ASSUME NEW n \in 0 .. Len(pollfds_), NEW ready \in [1 .. n -> DOMAIN pollfds_],
             poll(n, ready)
      PROVE  IInv'
  <2>1. Recorded'
    BY <1>4 DEF poll, history, IInv, Recorded, Registered, Entry
  <2> QED
    BY <1>4, <2>1, PollStep DEF IInv
<1>5. CASE handleEvent \/ handleEventReturns
  BY <1>5, HandleStep, RecordedHandle DEF IInv
<1>6. CASE UNCHANGED vars
  <2>1. PollfdsMatch'
    BY <1>6, StablePollfds DEF vars, history, Running, Registered
  <2>2. TypeOK' /\ Lifetimes'
    BY <1>6 DEF IInv, Core, vars, history, TypeOK, Lifetimes
  <2>3. ActiveValid'
    BY <1>6 DEF IInv, Core, vars, ActiveValid, Running, Registered
  <2>4. AssertionsHold' /\ Recorded'
    BY <1>6 DEF IInv, Core, vars, history, AssertionsHold, HalfRemoved, Recorded, Registered, Entry
  <2> QED
    BY <2>1, <2>2, <2>3, <2>4 DEF IInv, Core
<1> QED
  BY <1>1, <1>2, <1>3, <1>4, <1>5, <1>6 DEF Next

LEMMA Inductive == Spec => []IInv
BY InvInit, InvStep, PTL DEF Spec

(* Every variable keeps its type.                                          *)
THEOREM TypeCorrect == Spec => []TypeOK
BY Inductive, PTL DEF IInv, Core

(* However entries are added, muted and moved on removal, the array, the   *)
(* map and the indices stored in the channels keep agreeing.               *)
THEOREM PollfdsAgree == Spec => []PollfdsMatch
BY Inductive, PTL DEF IInv, Core

(* The loop never calls a channel that is gone, and none twice.            *)
THEOREM ActiveAlive == Spec => []ActiveValid
BY Inductive, PTL DEF IInv, Core

(* The assertions of Poller.cc:40, 42 and 58 hold; that of line 92 fails   *)
(* only for a channel that was never enabled or whose entry was            *)
(* overwritten by the update of a removed one.                             *)
THEOREM PollerAsserts == Spec => []AssertionsHold
BY Inductive, PTL DEF IInv, Core

-----------------------------------------------------------------------------
(* Poller implements PollSet.                                              *)

absRegistered == {c \in Channels : Registered(c)}
absAsked == [c \in Channels |-> IF Registered(c) THEN Entry(c).events ELSE {}]
absMuted == {c \in Channels : Registered(c) /\ Entry(c).fd < 0}
absActive == {activeChannels_[i] : i \in DOMAIN activeChannels_}

LEMMA RefineInit == Init => Abstract!Init
<1> SUFFICES ASSUME Init PROVE Abstract!Init
  OBVIOUS
<1>1. \A c \in Channels : ~Registered(c)
  BY DEF Init, Registered
<1>2. absRegistered = {} /\ absMuted = {} /\ absActive = {} /\ absAsked = [c \in Channels |-> {}]
  BY <1>1 DEF absRegistered, absMuted, absActive, absAsked, Init
<1> QED
  BY <1>2 DEF Abstract!Init, absRegistered, absMuted, absActive, absAsked

(* A step that leaves every registered channel and its entry alone.        *)
LEMMA RefineStutter ==
    ASSUME UNCHANGED activeChannels_,
           \A c \in Channels : /\ Registered(c)' <=> Registered(c)
                               /\ Registered(c) => Entry(c)' = Entry(c)
    PROVE  UNCHANGED Abstract!vars
<1>1. absRegistered' = absRegistered /\ absMuted' = absMuted /\ absAsked' = absAsked
  BY DEF absRegistered, absMuted, absAsked
<1>2. absActive' = absActive
  BY DEF absActive
<1> QED
  BY <1>1, <1>2 DEF Abstract!vars, absRegistered, absMuted, absActive, absAsked

LEMMA RefineUpdate ==
    ASSUME IInv, NEW c \in Channels, NEW e \in SUBSET Events, life[c] = "open",
           updateChannel(c, e)
    PROVE  Abstract!Register(c, e) \/ Abstract!Modify(c, e)
<1>1. /\ \A d \in Channels \ {c} : /\ Registered(d)' <=> Registered(d)
                                   /\ Registered(d) => Entry(d)' = Entry(d)
      /\ Registered(c)'
  BY UpdateStep
<1>2. absActive' = absActive
  BY DEF updateChannel, absActive
<1>3. CASE AddEntry(c, e)
  <2>1. ~Registered(c) /\ Entry(c)' = [fd |-> Fd[c], events |-> e]
    BY <1>3, UpdateStep
  <2>2. absRegistered' = absRegistered \cup {c} /\ c \notin absRegistered
    BY <1>1, <2>1 DEF absRegistered
  <2>3. absAsked' = [absAsked EXCEPT ![c] = e]
    <3>1. absAsked'[c] = e
      BY <1>1, <2>1 DEF absAsked
    <3>2. \A d \in Channels \ {c} : absAsked'[d] = absAsked[d]
      BY <1>1 DEF absAsked
    <3>3. absAsked = [d \in Channels |-> absAsked[d]] /\ absAsked' = [d \in Channels |-> absAsked'[d]]
      BY DEF absAsked
    <3> HIDE DEF absAsked
    <3> QED
      BY <3>1, <3>2, <3>3
  <2>4. absMuted' = absMuted
    BY <1>1, <2>1, FdsAreNat DEF absMuted
  <2> QED
    BY <1>2, <2>2, <2>3, <2>4 DEF Abstract!Register, absRegistered, absAsked, absMuted, absActive
<1>4. CASE RewriteEntry(c, e)
  <2>1. /\ Registered(c)
        /\ Entry(c)' = [fd |-> IF e = {} THEN Muted(Fd[c]) ELSE Entry(c).fd, events |-> e]
    BY <1>4, UpdateStep
  <2>2. absRegistered' = absRegistered /\ c \in absRegistered
    BY <1>1, <2>1 DEF absRegistered
  <2>3. absAsked' = [absAsked EXCEPT ![c] = e]
    <3>1. absAsked'[c] = e
      BY <1>1, <2>1 DEF absAsked
    <3>2. \A d \in Channels \ {c} : absAsked'[d] = absAsked[d]
      BY <1>1 DEF absAsked
    <3>3. absAsked = [d \in Channels |-> absAsked[d]] /\ absAsked' = [d \in Channels |-> absAsked'[d]]
      BY DEF absAsked
    <3> HIDE DEF absAsked
    <3> QED
      BY <3>1, <3>2, <3>3
  <2>4. absMuted' = IF e = {} THEN absMuted \cup {c} ELSE absMuted
    BY <1>1, <2>1, FdsAreNat DEF absMuted
  <2> QED
    BY <1>2, <2>2, <2>3, <2>4 DEF Abstract!Modify, absRegistered, absAsked, absMuted, absActive
<1> QED
  BY <1>3, <1>4 DEF updateChannel

LEMMA RefineStale ==
    ASSUME IInv, NEW c \in Channels, NEW e \in SUBSET Events, e # {}, life[c] = "removed",
           updateChannel(c, e)
    PROVE  (\E d \in Channels : Abstract!Misdirect(d, e)) \/ UNCHANGED Abstract!vars
<1>1. /\ \A d \in Channels : Registered(d)' <=> Registered(d)
      /\ \A d \in Channels : Registered(d) => Entry(d)'.fd = Entry(d).fd
      /\ \A d \in Channels \ Sharing(c) : Registered(d) => Entry(d)' = Entry(d)
      /\ \A d \in Sharing(c) : Entry(d)'.events = e
      /\ \A d1, d2 \in Sharing(c) : d1 = d2
  BY StaleStep
<1>2. activeChannels_' = activeChannels_
  BY DEF updateChannel
<1>3. CASE Sharing(c) = {}
  BY <1>1, <1>2, <1>3, RefineStutter
<1>4. ASSUME NEW d \in Sharing(c) PROVE d \in Channels /\ Abstract!Misdirect(d, e)
  <2>1. d \in Channels /\ Registered(d) /\ Sharing(c) = {d}
    BY <1>1, <1>4 DEF Sharing
  <2>2. absRegistered' = absRegistered /\ d \in absRegistered /\ absRegistered # Channels
    BY <1>1, <2>1 DEF absRegistered, Registered
  <2>3. absMuted' = absMuted /\ absActive' = absActive
    BY <1>1, <1>2 DEF absMuted, absActive
  <2>4. absAsked' = [absAsked EXCEPT ![d] = e]
    <3>1. absAsked'[d] = e
      BY <1>1, <2>1 DEF absAsked
    <3>2. \A x \in Channels \ {d} : absAsked'[x] = absAsked[x]
      BY <1>1, <2>1 DEF absAsked
    <3>3. absAsked = [x \in Channels |-> absAsked[x]] /\ absAsked' = [x \in Channels |-> absAsked'[x]]
      BY DEF absAsked
    <3> HIDE DEF absAsked
    <3> QED
      BY <2>1, <3>1, <3>2, <3>3
  <2> QED
    BY <2>1, <2>2, <2>3, <2>4 DEF Abstract!Misdirect, absRegistered, absAsked, absMuted, absActive
<1> QED
  BY <1>3, <1>4

LEMMA RefineRemove ==
    ASSUME IInv, NEW c \in Channels, removeChannel(c)
    PROVE  Abstract!Remove(c) \/ UNCHANGED Abstract!vars
<1>1. CASE UNCHANGED <<pollfds_, index_, life>>
  <2>1. \A d \in Channels : (Registered(d)' <=> Registered(d)) /\ Entry(d)' = Entry(d)
    BY <1>1 DEF Registered, Entry
  <2> QED
    BY <2>1, RefineStutter DEF removeChannel
<1>2. CASE /\ Entry(c) = [fd |-> Muted(Fd[c]), events |-> {}]
           /\ \A x \in Channels : /\ Registered(x)' <=> Registered(x) /\ x # c
                                  /\ Registered(x) /\ x # c => Entry(x)' = Entry(x)
  <2>1. Registered(c) /\ UNCHANGED activeChannels_ /\ MayRemove(c) /\ Running
    BY DEF removeChannel
  <2>2. c \in absMuted
    BY <1>2, <2>1, FdsAreNat DEF absMuted
  <2>3. c \notin absActive
    BY <2>1, NoChannelAssumption DEF IInv, Core, MayRemove, InFunctors, ActiveValid, absActive, NoChannelAssumption
  <2>4. absAsked[c] = {} /\ absAsked' = absAsked
    BY <1>2, <2>1 DEF absAsked
  <2>5. absRegistered' = absRegistered \ {c} /\ absMuted' = absMuted \ {c}
    BY <1>2 DEF absRegistered, absMuted
  <2>6. absActive' = absActive
    BY <2>1 DEF absActive
  <2> QED
    BY <2>2, <2>3, <2>4, <2>5, <2>6
       DEF Abstract!Remove, absRegistered, absAsked, absMuted, absActive
<1> QED
  BY <1>1, <1>2, RemoveStep

LEMMA RefinePoll ==
    ASSUME IInv, NEW n \in 0 .. Len(pollfds_), NEW ready \in [1 .. n -> DOMAIN pollfds_],
           poll(n, ready)
    PROVE  \E S \in SUBSET Channels : Abstract!Report(S)
<1>1. /\ Core'
      /\ \A i \in DOMAIN activeChannels_' :
            Registered(activeChannels_'[i]) /\ Entry(activeChannels_'[i]).fd >= 0
  BY PollStep
<1>2. \A i \in DOMAIN activeChannels_' : activeChannels_'[i] \in Channels
  BY <1>1, ElementOfSeq, LenProperties DEF IInv, Core, TypeOK
<1>3. absActive = {}
  BY DEF poll, absActive
<1>4. absActive' \in SUBSET Channels /\ absActive' \subseteq absRegistered \ absMuted
  <2>1. ASSUME NEW c \in absActive' PROVE c \in absRegistered /\ c \notin absMuted
    <3>1. PICK i \in DOMAIN activeChannels_' : c = activeChannels_'[i]
      BY DEF absActive
    <3>2. c \in Channels /\ Registered(c) /\ Entry(c).fd >= 0
      BY <1>1, <1>2, <3>1
    <3>3. Entry(c).fd \in Int
      BY <3>2, EntryFds DEF IInv, Core, PollfdsMatch, poll, Entry
    <3> QED
      BY <3>2, <3>3 DEF absRegistered, absMuted
  <2> QED
    BY <2>1 DEF absRegistered
<1>5. UNCHANGED <<absRegistered, absAsked, absMuted>>
  BY DEF poll, absRegistered, absAsked, absMuted, Registered, Entry
<1> QED
  BY <1>3, <1>4, <1>5 DEF Abstract!Report, absRegistered, absAsked, absMuted, absActive

LEMMA RefineHandle ==
    ASSUME IInv, handleEvent
    PROVE  \E c \in Channels : Abstract!Handle(c)
<1>1. /\ Running /\ activeChannels_ # << >> /\ activeChannels_' = Tail(activeChannels_)
      /\ UNCHANGED <<pollfds_, index_, life>>
  BY DEF handleEvent
<1>2. /\ activeChannels_ \in Seq(Channels)
      /\ DOMAIN activeChannels_ = 1 .. Len(activeChannels_)
      /\ Len(activeChannels_) \in Nat \ {0}
  BY <1>1, LenProperties, EmptySeq DEF IInv, Core, TypeOK
<1>3. /\ DOMAIN Tail(activeChannels_) = 1 .. Len(activeChannels_) - 1
      /\ \A i \in 1 .. Len(activeChannels_) - 1 : Tail(activeChannels_)[i] = activeChannels_[i + 1]
  BY <1>1, <1>2, HeadTailProperties, LenProperties
<1>4. PICK c \in Channels : c = activeChannels_[1] /\ 1 \in DOMAIN activeChannels_
  BY <1>2, ElementOfSeq
<1>5. Registered(c) /\ \A i \in DOMAIN activeChannels_ : i # 1 => activeChannels_[i] # c
  BY <1>1, <1>4 DEF IInv, Core, ActiveValid
<1>6. absActive' = absActive \ {c}
  <2>1. absActive' = {activeChannels_[i + 1] : i \in 1 .. Len(activeChannels_) - 1}
    BY <1>1, <1>3 DEF absActive
  <2>2. \A x : x \in absActive' <=> \E i \in DOMAIN activeChannels_ : i # 1 /\ x = activeChannels_[i]
    <3>1. ASSUME NEW x, NEW i \in DOMAIN activeChannels_, i # 1, x = activeChannels_[i]
          PROVE  x \in absActive'
      <4>1. i - 1 \in 1 .. Len(activeChannels_) - 1 /\ (i - 1) + 1 = i
        BY <1>2, <3>1
      <4> QED
        BY <2>1, <3>1, <4>1
    <3>2. ASSUME NEW x \in absActive'
          PROVE  \E i \in DOMAIN activeChannels_ : i # 1 /\ x = activeChannels_[i]
      <4>1. PICK j \in 1 .. Len(activeChannels_) - 1 : x = activeChannels_[j + 1]
        BY <2>1
      <4>2. j + 1 \in DOMAIN activeChannels_ /\ j + 1 # 1
        BY <1>2
      <4> QED
        BY <4>1, <4>2
    <3> QED
      BY <3>1, <3>2
  <2> QED
    BY <1>4, <1>5, <2>2 DEF absActive
<1>7. c \in absActive \cap absRegistered
  BY <1>4, <1>5 DEF absActive, absRegistered
<1>8. UNCHANGED <<absRegistered, absAsked, absMuted>>
  BY <1>1 DEF absRegistered, absAsked, absMuted, Registered, Entry
<1>9. Abstract!Handle(c)
  BY <1>6, <1>7, <1>8 DEF Abstract!Handle, absRegistered, absAsked, absMuted, absActive
<1> QED
  BY <1>4, <1>9

LEMMA RefineStep == IInv /\ [Next]_vars => [Abstract!Next]_Abstract!vars
<1> SUFFICES ASSUME IInv, [Next]_vars PROVE [Abstract!Next]_Abstract!vars
  OBVIOUS
<1>1. ASSUME NEW c \in Channels, Channel(c) \/ destroy(c) PROVE UNCHANGED Abstract!vars
  <2>1. ASSUME NEW d \in Channels
        PROVE  /\ Registered(d)' <=> Registered(d)
               /\ Registered(d) => Entry(d)' = Entry(d)
    BY <1>1 DEF Channel, destroy, IInv, Core, TypeOK, Lifetimes, Registered, Entry
  <2> QED
    BY <1>1, <2>1, RefineStutter DEF Channel, destroy
<1>2. ASSUME NEW c \in Channels,
             enableReading(c) \/ enableWriting(c) \/ disableWriting(c) \/ disableAll(c)
      PROVE  [Abstract!Next]_Abstract!vars
  <2>1. PICK e \in SUBSET Events :
           /\ updateChannel(c, e)
           /\ life[c] = "open" \/ (life[c] = "removed" /\ e # {} /\ handling = NoChannel)
    BY <1>2, Updates DEF IInv, Core
  <2>2. CASE life[c] = "open"
    BY <2>1, <2>2, RefineUpdate DEF Abstract!Next
  <2>3. CASE life[c] = "removed" /\ e # {}
    BY <2>1, <2>3, RefineStale DEF Abstract!Next
  <2> QED
    BY <2>1, <2>2, <2>3
<1>3. ASSUME NEW c \in Channels, removeChannel(c) PROVE [Abstract!Next]_Abstract!vars
  BY <1>3, RefineRemove DEF Abstract!Next
<1>4. ASSUME NEW n \in 0 .. Len(pollfds_), NEW ready \in [1 .. n -> DOMAIN pollfds_],
             poll(n, ready)
      PROVE  Abstract!Next
  BY <1>4, RefinePoll DEF Abstract!Next
<1>5. CASE handleEvent
  BY <1>5, RefineHandle DEF Abstract!Next
<1>6. CASE handleEventReturns
  BY <1>6, RefineStutter DEF handleEventReturns, Registered, Entry
<1>7. CASE UNCHANGED vars
  BY <1>7, RefineStutter DEF vars, Registered, Entry
<1> QED
  BY <1>1, <1>2, <1>3, <1>4, <1>5, <1>6, <1>7 DEF Next

(* The array with negated descriptors and moved entries is, seen from the  *)
(* channels, a set of interests that change one at a time.                 *)
THEOREM ImplementsPollSet == Spec => PollSetSpec
<1>1. Spec => []IInv
  BY Inductive
<1> QED
  BY <1>1, RefineInit, RefineStep, PTL DEF Spec, PollSetSpec, Abstract!Spec
=============================================================================
