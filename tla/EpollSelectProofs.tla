-------------------------- MODULE EpollSelectProofs --------------------------
(***************************************************************************)
(* Proofs about EpollSelect for any number of channels and descriptors:    *)
(* Channel::index tells what the map and the interest list hold, no        *)
(* epoll_ctl ever fails, and both pollers watch what the channels want.    *)
(***************************************************************************)
EXTENDS EpollSelect, TLAPS

-----------------------------------------------------------------------------
(* The inductive invariant: the records of both pollers are functions of    *)
(* the statuses, and open descriptors are told apart.                       *)
Distinct == \A c, d \in Chs : open[c] /\ open[d] /\ fd[c] = fd[d] => c = d

ClosedIsReady == \A c \in Chs : ~open[c] => status[c] = "ready"
QuietUnlessNormal == \A c \in Chs : status[c] # "normal" => events[c] = {}

Pair(c) == <<fd[c], c>>
MapIsKnown == channelMap = {Pair(c) : c \in {d \in Chs : status[d] # "ready"}}

Entry(c) == [fd |-> fd[c], ch |-> c, events |-> events[c]]
InterestIsNormal == interest = {Entry(c) : c \in {d \in Chs : status[d] = "normal"}}

PollersInv == /\ ChannelsOK /\ status \in [Chs -> {"ready", "normal", "removed"}]
              /\ Distinct /\ ClosedIsReady /\ QuietUnlessNormal
              /\ MapIsKnown /\ InterestIsNormal /\ ctlFailed = FALSE

-----------------------------------------------------------------------------
LEMMA InitPollers == Init => PollersInv
<1> SUFFICES ASSUME Init PROVE PollersInv
  OBVIOUS
<1> USE DEF Init, ChannelsInit
<1>1. ChannelsOK /\ status \in [Chs -> {"ready", "normal", "removed"}]
  BY DEF ChannelsOK
<1>2. Distinct /\ ClosedIsReady /\ QuietUnlessNormal
  BY DEF Distinct, ClosedIsReady, QuietUnlessNormal
<1>3. MapIsKnown /\ InterestIsNormal
  BY DEF MapIsKnown, InterestIsNormal
<1> QED BY <1>1, <1>2, <1>3 DEF PollersInv

(* The kernel knows the descriptor of an open channel exactly when the      *)
(* status says so, and knows it as that channel's.                          *)
LEMMA RegisteredIsNormal ==
  ASSUME PollersInv, NEW c \in Chs, open[c]
  PROVE  /\ Registered(fd[c]) <=> status[c] = "normal"
         /\ {r \in interest : r.fd # fd[c]} = interest \ {Entry(c)}
<1>1. \A r \in interest : r.fd = fd[c] => r = Entry(c) /\ status[c] = "normal"
  <2> SUFFICES ASSUME NEW r \in interest, r.fd = fd[c] PROVE r = Entry(c) /\ status[c] = "normal"
    OBVIOUS
  <2>1. PICK d \in Chs : status[d] = "normal" /\ r = Entry(d)
    BY DEF PollersInv, InterestIsNormal
  <2>2. fd[d] = fd[c] /\ open[d]
    BY <2>1 DEF Entry, PollersInv, ClosedIsReady
  <2> QED BY <2>1, <2>2 DEF PollersInv, Distinct
<1>2. Entry(c).fd = fd[c]
  BY DEF Entry
<1>3. status[c] = "normal" => Entry(c) \in interest
  BY DEF PollersInv, InterestIsNormal
<1> QED BY <1>1, <1>2, <1>3 DEF Registered

-----------------------------------------------------------------------------
(* updateChannel *)

LEMMA UpdatePreserves ==
  ASSUME PollersInv, NEW c \in Chs, NEW ev \in SUBSET {"R", "W"}, UpdateChannel(c, ev)
  PROVE  PollersInv'
<1> USE DEF PollersInv
<1>1. /\ open[c] /\ events' = [events EXCEPT ![c] = ev] /\ UNCHANGED <<fd, open>>
      /\ status' = [status EXCEPT ![c] = StatusAfter(c, ev)]
      /\ channelMap' = channelMap \union {Pair(c)}
  BY DEF UpdateChannel, SetEvents, Pair
<1>2. /\ events \in [Chs -> SUBSET {"R", "W"}] /\ fd \in [Chs -> Fds]
      /\ status \in [Chs -> {"ready", "normal", "removed"}]
      /\ StatusAfter(c, ev) \in {"normal", "removed"}
      /\ StatusAfter(c, ev) = "removed" => ev = {}
  BY DEF ChannelsOK, StatusAfter
<1>3. ChannelsOK' /\ status' \in [Chs -> {"ready", "normal", "removed"}]
  BY <1>1, <1>2 DEF ChannelsOK
<1>4. Distinct' /\ ClosedIsReady' /\ QuietUnlessNormal'
  BY <1>1, <1>2 DEF Distinct, ClosedIsReady, QuietUnlessNormal
<1>5. MapIsKnown'
  <2>1. \A d \in Chs : Pair(d)' = Pair(d)
    BY <1>1 DEF Pair
  <2>2. \A d \in Chs : status'[d] # "ready" <=> d = c \/ status[d] # "ready"
    BY <1>1, <1>2
  <2> QED BY <1>1, <2>1, <2>2 DEF MapIsKnown
<1>6. InterestIsNormal' /\ ctlFailed' = FALSE
  <2> DEFINE this == [fd |-> fd[c], ch |-> c, events |-> ev]
  <2>1. /\ \A d \in Chs \ {c} : Entry(d)' = Entry(d) /\ Entry(d) # Entry(c) /\ status'[d] = status[d]
        /\ Entry(c)' = this /\ status'[c] = StatusAfter(c, ev)
    BY <1>1, <1>2 DEF Entry
  <2>2. Registered(fd[c]) <=> status[c] = "normal"
    BY <1>1, RegisteredIsNormal
  <2>3. {r \in interest : r.fd # fd[c]} = interest \ {Entry(c)}
    BY <1>1, RegisteredIsNormal
  <2>4. Ctl(Op(c, ev), c, ev)
    BY DEF UpdateChannel
  <2>5. CASE status[c] = "normal" /\ ev = {}
    <3>1. interest' = interest \ {Entry(c)} /\ ctlFailed' = ctlFailed
      BY <2>2, <2>3, <2>4, <2>5 DEF Ctl, Op
    <3>2. status'[c] = "removed"
      BY <2>1, <2>5 DEF StatusAfter
    <3> QED BY <2>1, <3>1, <3>2 DEF InterestIsNormal
  <2>6. CASE ~(status[c] = "normal" /\ ev = {})
    <3>1. interest' = (interest \ {Entry(c)}) \union {this} /\ ctlFailed' = ctlFailed
      BY <1>2, <2>2, <2>3, <2>4, <2>6 DEF Ctl, Op
    <3>2. status'[c] = "normal"
      BY <2>1, <2>6 DEF StatusAfter
    <3> QED BY <2>1, <3>1, <3>2 DEF InterestIsNormal
  <2> QED BY <2>5, <2>6
<1> QED BY <1>3, <1>4, <1>5, <1>6

-----------------------------------------------------------------------------
(* removeChannel *)

LEMMA RemovePreserves ==
  ASSUME PollersInv, NEW c \in Chs, RemoveChannel(c)
  PROVE  PollersInv'
<1> USE DEF PollersInv
<1>1. /\ open[c] /\ events' = [events EXCEPT ![c] = {}] /\ UNCHANGED <<fd, open>>
      /\ status' = [status EXCEPT ![c] = "ready"]
      /\ channelMap' = {p \in channelMap : p[1] # fd[c]}
  BY DEF RemoveChannel, ClearEvents, MapWithout
<1>2. /\ events \in [Chs -> SUBSET {"R", "W"}] /\ fd \in [Chs -> Fds]
      /\ status \in [Chs -> {"ready", "normal", "removed"}]
  BY DEF ChannelsOK
<1>3. ChannelsOK' /\ status' \in [Chs -> {"ready", "normal", "removed"}]
  BY <1>1, <1>2 DEF ChannelsOK
<1>4. Distinct' /\ ClosedIsReady' /\ QuietUnlessNormal'
  BY <1>1, <1>2 DEF Distinct, ClosedIsReady, QuietUnlessNormal
<1>5. MapIsKnown'
  <2>1. \A d \in Chs : Pair(d)' = Pair(d) /\ Pair(d)[1] = fd[d]
    BY <1>1 DEF Pair
  <2>2. \A d \in Chs : status'[d] # "ready" <=> d # c /\ status[d] # "ready"
    BY <1>1, <1>2
  <2>3. \A d \in Chs : status[d] # "ready" /\ fd[d] = fd[c] => d = c
    BY <1>1 DEF ClosedIsReady, Distinct
  <2> QED BY <1>1, <2>1, <2>2, <2>3 DEF MapIsKnown
<1>6. InterestIsNormal' /\ ctlFailed' = FALSE
  <2>1. /\ \A d \in Chs \ {c} : Entry(d)' = Entry(d) /\ Entry(d) # Entry(c) /\ status'[d] = status[d]
        /\ status'[c] = "ready"
    BY <1>1, <1>2 DEF Entry
  <2>2. Registered(fd[c]) <=> status[c] = "normal"
    BY <1>1, RegisteredIsNormal
  <2>3. {r \in interest : r.fd # fd[c]} = interest \ {Entry(c)}
    BY <1>1, RegisteredIsNormal
  <2>4. CASE status[c] = "normal"
    <3>1. interest' = interest \ {Entry(c)} /\ ctlFailed' = ctlFailed
      BY <2>2, <2>3, <2>4 DEF RemoveChannel, Ctl
    <3> QED BY <2>1, <3>1 DEF InterestIsNormal
  <2>5. CASE status[c] # "normal"
    <3>1. interest' = interest /\ ctlFailed' = ctlFailed
      BY <2>5 DEF RemoveChannel
    <3> QED BY <2>1, <2>5, <3>1 DEF InterestIsNormal
  <2> QED BY <2>4, <2>5
<1> QED BY <1>3, <1>4, <1>5, <1>6

-----------------------------------------------------------------------------
(* Descriptors closed and used again *)

LEMMA ClosePreserves ==
  ASSUME PollersInv, NEW c \in Chs, Close(c)
  PROVE  PollersInv'
<1> USE DEF PollersInv
<1>1. /\ status[c] = "ready" /\ open' = [open EXCEPT ![c] = FALSE]
      /\ UNCHANGED <<events, fd, status, channelMap, interest, ctlFailed>>
  BY DEF Close, CloseFd
<1>2. open' \in [Chs -> BOOLEAN] /\ \A d \in Chs : d # c => open'[d] = open[d]
  BY <1>1 DEF ChannelsOK
<1>3. ChannelsOK' /\ status' \in [Chs -> {"ready", "normal", "removed"}]
  BY <1>1, <1>2 DEF ChannelsOK
<1>4. Distinct'
  BY <1>1 DEF Distinct, ChannelsOK
<1>5. ClosedIsReady' /\ QuietUnlessNormal'
  BY <1>1, <1>2 DEF ClosedIsReady, QuietUnlessNormal
<1>6. MapIsKnown' /\ InterestIsNormal'
  BY <1>1 DEF MapIsKnown, InterestIsNormal, Pair, Entry
<1> QED BY <1>1, <1>3, <1>4, <1>5, <1>6

LEMMA ReopenPreserves ==
  ASSUME PollersInv, NEW c \in Chs, NEW f \in Fds, Reopen(c, f)
  PROVE  PollersInv'
<1> USE DEF PollersInv
<1>1. /\ ~open[c] /\ \A d \in Chs : open[d] => fd[d] # f
      /\ fd' = [fd EXCEPT ![c] = f] /\ open' = [open EXCEPT ![c] = TRUE]
      /\ UNCHANGED <<events, status, channelMap, interest, ctlFailed>>
  BY DEF Reopen, SetFd
<1>2. /\ open' \in [Chs -> BOOLEAN] /\ \A d \in Chs : d # c => open'[d] = open[d]
      /\ fd' \in [Chs -> Fds] /\ fd'[c] = f /\ \A d \in Chs : d # c => fd'[d] = fd[d]
  BY <1>1 DEF ChannelsOK
<1>3. ChannelsOK' /\ status' \in [Chs -> {"ready", "normal", "removed"}]
  BY <1>1, <1>2 DEF ChannelsOK
<1>4. Distinct' /\ ClosedIsReady' /\ QuietUnlessNormal'
  BY <1>1, <1>2 DEF Distinct, ClosedIsReady, QuietUnlessNormal
<1>5. status[c] = "ready"
  BY <1>1 DEF ClosedIsReady
<1>6. \A d \in Chs : status[d] # "ready" => Pair(d)' = Pair(d) /\ Entry(d)' = Entry(d)
  BY <1>1, <1>2, <1>5 DEF Pair, Entry
<1>7. MapIsKnown' /\ InterestIsNormal'
  <2>1. \A d \in Chs : status[d] = "normal" => status[d] # "ready"
    OBVIOUS
  <2> QED BY <1>1, <1>6, <2>1 DEF MapIsKnown, InterestIsNormal
<1> QED BY <1>1, <1>3, <1>4, <1>7

-----------------------------------------------------------------------------
(* The theorems *)

LEMMA StepPollers == PollersInv /\ [Next]_vars => PollersInv'
<1> SUFFICES ASSUME PollersInv, [Next]_vars PROVE PollersInv'
  OBVIOUS
<1>1. CASE Next
  BY <1>1, UpdatePreserves, RemovePreserves, ClosePreserves, ReopenPreserves DEF Next
<1>2. CASE UNCHANGED vars
  BY <1>2 DEF vars, channelVars, PollersInv, ChannelsOK, Distinct, ClosedIsReady,
              QuietUnlessNormal, MapIsKnown, Pair, InterestIsNormal, Entry
<1> QED BY <1>1, <1>2

LEMMA PollersInvariant == Spec => []PollersInv
BY InitPollers, StepPollers, PTL DEF Spec

(* TypeOK follows from it: at most one channel of the map has a given       *)
(* descriptor, although numbers are used again.                             *)
THEOREM TypeCorrect == Spec => []TypeOK
<1>1. PollersInv => TypeOK
  <2> SUFFICES ASSUME PollersInv PROVE TypeOK
    OBVIOUS
  <2> USE DEF PollersInv
  <2>1. channelMap \subseteq Fds \X Chs
    BY DEF MapIsKnown, Pair, ChannelsOK
  <2>2. \A p, q \in channelMap : p[1] = q[1] => p = q
    <3> SUFFICES ASSUME NEW p \in channelMap, NEW q \in channelMap, p[1] = q[1] PROVE p = q
      OBVIOUS
    <3>1. PICK c \in Chs : status[c] # "ready" /\ p = Pair(c)
      BY DEF MapIsKnown
    <3>2. PICK d \in Chs : status[d] # "ready" /\ q = Pair(d)
      BY DEF MapIsKnown
    <3>3. open[c] /\ open[d] /\ fd[c] = fd[d]
      BY <3>1, <3>2 DEF ClosedIsReady, Pair
    <3> QED BY <3>1, <3>2, <3>3 DEF Distinct
  <2>3. interest \subseteq [fd : Fds, ch : Chs, events : SUBSET {"R", "W"}]
    BY DEF InterestIsNormal, Entry, ChannelsOK
  <2> QED BY <2>1, <2>2, <2>3 DEF TypeOK
<1> QED BY <1>1, PollersInvariant, PTL

(* Through any sequence of updates, removals, closes and reuses of          *)
(* descriptors, no assertion of updateChannel fails and no epoll_ctl: the   *)
(* one status word of a channel tells what the map and the kernel hold.     *)
THEOREM StatusIsTrue == Spec => []StatusTellsTheTruth
<1>1. PollersInv => StatusTellsTheTruth
  <2> SUFFICES ASSUME PollersInv PROVE StatusTellsTheTruth
    OBVIOUS
  <2> USE DEF PollersInv
  <2>1. \A c \in Chs : status[c] = "ready" => \A p \in channelMap : p[2] # c /\ (open[c] => p[1] # fd[c])
    <3> SUFFICES ASSUME NEW c \in Chs, status[c] = "ready", NEW p \in channelMap
                 PROVE  p[2] # c /\ (open[c] => p[1] # fd[c])
      OBVIOUS
    <3>1. PICK d \in Chs : status[d] # "ready" /\ p = <<fd[d], d>>
      BY DEF MapIsKnown, Pair
    <3>2. d # c /\ open[d]
      BY <3>1 DEF ClosedIsReady
    <3> QED BY <3>1, <3>2 DEF Distinct
  <2>2. \A c \in Chs : status[c] # "ready" => <<fd[c], c>> \in channelMap
    BY DEF MapIsKnown, Pair
  <2>3. \A c \in Chs : (status[c] = "normal") = (\E r \in interest : r.fd = fd[c] /\ r.ch = c)
    <3> SUFFICES ASSUME NEW c \in Chs
                 PROVE  status[c] = "normal" <=> \E r \in interest : r.fd = fd[c] /\ r.ch = c
      BY Zenon
    <3>1. ASSUME status[c] = "normal" PROVE \E r \in interest : r.fd = fd[c] /\ r.ch = c
      <4>1. Entry(c) \in interest
        BY <3>1 DEF InterestIsNormal
      <4>2. Entry(c).fd = fd[c] /\ Entry(c).ch = c
        BY DEF Entry
      <4> QED BY <4>1, <4>2
    <3>2. ASSUME NEW r \in interest, r.ch = c PROVE status[c] = "normal"
      BY <3>2 DEF InterestIsNormal, Entry
    <3> QED BY <3>1, <3>2
  <2> QED BY <2>1, <2>2, <2>3 DEF StatusTellsTheTruth
<1> QED BY <1>1, PollersInvariant, PTL

(* EpollPoller and SelectPoller watch the same events, those the channels   *)
(* ask for, and nothing for a channel that was removed or closed.           *)
THEOREM WatchedIsWanted == Spec => []WatchesWanted
<1>1. PollersInv => WatchesWanted
  <2> SUFFICES ASSUME PollersInv PROVE WatchesWanted
    OBVIOUS
  <2> USE DEF PollersInv
  <2>1. EpollWatched = Wanted
    <3>1. \A c \in Chs, e \in {"R", "W"} :
             (\E r \in interest : r.ch = c /\ e \in r.events) <=> e \in events[c]
      <4> SUFFICES ASSUME NEW c \in Chs, NEW e \in {"R", "W"}
                   PROVE  (\E r \in interest : r.ch = c /\ e \in r.events) <=> e \in events[c]
        OBVIOUS
      <4>1. ASSUME NEW r \in interest, r.ch = c, e \in r.events PROVE e \in events[c]
        BY <4>1 DEF InterestIsNormal, Entry
      <4>2. ASSUME e \in events[c] PROVE \E r \in interest : r.ch = c /\ e \in r.events
        <5>1. Entry(c) \in interest
          BY <4>2 DEF QuietUnlessNormal, InterestIsNormal
        <5>2. Entry(c).ch = c /\ Entry(c).events = events[c]
          BY DEF Entry
        <5> QED BY <4>2, <5>1, <5>2
      <4> QED BY <4>1, <4>2
    <3> QED BY <3>1 DEF EpollWatched, Wanted
  <2>2. SelectWatched = Wanted
    <3>1. Selectable = {c \in Chs : status[c] = "normal"}
      <4>1. \A p \in channelMap : p[2] \in Chs
        BY DEF MapIsKnown, Pair
      <4>2. \A c \in Chs : status[c] = "normal" => Pair(c) \in channelMap /\ Pair(c)[2] = c
        BY DEF MapIsKnown, Pair
      <4> QED BY <4>1, <4>2 DEF Selectable
    <3> QED BY <3>1 DEF SelectWatched, Wanted, QuietUnlessNormal
  <2> QED BY <2>1, <2>2 DEF WatchesWanted
<1> QED BY <1>1, PollersInvariant, PTL
==============================================================================
