--------------------------- MODULE ConnectorProofs ---------------------------
(***************************************************************************)
(* Proofs about Connector for any descriptors, threads, retry counts and   *)
(* numbers of calls: type correctness; and as long as no connect has begun *)
(* while an earlier attempt was not over (~overlapped, which is part of    *)
(* the properties), no leaked socket, a poller that watches the attempt    *)
(* under way, a live connection that is held and a stop that lasts.        *)
(***************************************************************************)
EXTENDS Connector, SequenceTheorems, TLAPS

-----------------------------------------------------------------------------
(* The inductive invariant *)

Steps == [do : Callbacks \union {"removeConnection", "close"}, fd : Fds \union {NoFd}]

Types == TypeOK /\ todo \in Seq(Steps)

(* Of a stop that the loop has seen, overlapped or not.                     *)
StoppedInv == stopped => isStop /\ state # "connecting"

(* The channel and the descriptor of an attempt that is under way, during   *)
(* which there is no connection, no retry is due and nothing is left to do  *)
(* but to return from callbacks.                                            *)
OnlyCallbacks == \A i \in DOMAIN todo : todo[i].do \in Callbacks
Attempt == /\ (status = "normal") = (state = "connecting")
           /\ state = "connecting" => /\ fd \in open /\ conn[fd] = "none"
                                      /\ retries = 0 /\ OnlyCallbacks

(* A connection is held exactly in state connected.                         *)
Connected == (state = "connected") = (connection # NoFd)

(* The socket of a connection is open.                                      *)
ConnIsOpen == \A f \in Fds : conn[f] # "none" => f \in open

(* One retry is due at most, and only when there is neither an attempt nor  *)
(* a connection.                                                            *)
RetryAlone == retries \in 0..1 /\ (retries > 0 => state = "disconnected")

(* What is left of handleClose is about the connection that is held, closed *)
(* already; it is left only once, and forceCloseInLoop ends right after it. *)
Removes(i) == i \in DOMAIN todo /\ todo[i].do = "removeConnection"
Closes(i) == i \in DOMAIN todo /\ todo[i].do = "close"
RemovesHeld == \A i \in DOMAIN todo : Removes(i) => /\ todo[i].fd = connection
                                                   /\ connection # NoFd
                                                   /\ ~Live(connection)
RemovesOnce == \A i, j \in DOMAIN todo : Removes(i) /\ Removes(j) => i = j
CloseFollows == \A i \in DOMAIN todo : Closes(i) => i = 1 \/ Removes(i - 1)
Removal == RemovesHeld /\ RemovesOnce /\ CloseFollows

(* What holds as long as attempts have not overlapped.                      *)
Alone == /\ ~overlapped
         /\ Attempt /\ Connected /\ ConnIsOpen /\ RetryAlone /\ Removal
         /\ NoSocketLeak /\ WatchedIsCurrent /\ ConnectionHeld /\ StoppedStaysStopped

ConnectorInv == /\ Types /\ StoppedInv
                /\ (~overlapped => Alone)

-----------------------------------------------------------------------------
(* Sequences *)

LEMMA TailType ==
  ASSUME NEW S, NEW s \in Seq(S), s # <<>>
  PROVE  /\ Tail(s) \in Seq(S) /\ Head(s) \in S /\ Head(s) = s[1] /\ 1 \in DOMAIN s
         /\ \A i \in DOMAIN Tail(s) : i + 1 \in DOMAIN s /\ Tail(s)[i] = s[i + 1]
<1>1. Tail(s) \in Seq(S) /\ Len(Tail(s)) = Len(s) - 1 /\ Head(s) \in S
  BY HeadTailProperties
<1>2. Len(s) \in Nat \ {0} /\ DOMAIN s = 1..Len(s) /\ DOMAIN Tail(s) = 1..Len(Tail(s))
  BY <1>1, EmptySeq, LenProperties
<1> QED BY <1>1, <1>2

LEMMA ElementType ==
  ASSUME NEW S, NEW s \in Seq(S)
  PROVE  \A i \in DOMAIN s : s[i] \in S
OBVIOUS

LEMMA SingleType ==
  ASSUME NEW S, NEW e \in S
  PROVE  <<e>> \in Seq(S) /\ DOMAIN <<e>> = {1} /\ <<e>>[1] = e
OBVIOUS

LEMMA PairType ==
  ASSUME NEW S, NEW a \in S, NEW b \in S
  PROVE  <<a, b>> \in Seq(S) /\ Len(<<a, b>>) = 2 /\ <<a, b>>[1] = a /\ <<a, b>>[2] = b
OBVIOUS

LEMMA ConcatType ==
  ASSUME NEW S, NEW s \in Seq(S), NEW t \in Seq(S)
  PROVE  /\ s \o t \in Seq(S) /\ DOMAIN (s \o t) = 1..(Len(s) + Len(t))
         /\ Len(s) \in Nat /\ Len(t) \in Nat /\ Len(s \o t) = Len(s) + Len(t)
         /\ \A i \in 1..(Len(s) + Len(t)) :
                (s \o t)[i] = IF i <= Len(s) THEN s[i] ELSE t[i - Len(s)]
BY ConcatProperties, LenProperties

LEMMA PairAndOne ==
  ASSUME NEW S, NEW a \in S, NEW b \in S, NEW c \in S
  PROVE  /\ <<a, b>> \o <<c>> \in Seq(S) /\ Len(<<a, b>> \o <<c>>) = 3
         /\ (<<a, b>> \o <<c>>)[1] = a /\ (<<a, b>> \o <<c>>)[2] = b
         /\ (<<a, b>> \o <<c>>)[3] = c
<1>1. <<c>> \in Seq(S) /\ Len(<<c>>) = 1 /\ <<c>>[1] = c
  OBVIOUS
<1> QED BY <1>1, PairType, ConcatType

LEMMA StepType ==
  ASSUME NEW what \in Callbacks \union {"removeConnection", "close"}, NEW f \in Fds \union {NoFd}
  PROVE  Do(what, f) \in Steps /\ Do(what, f).do = what /\ Do(what, f).fd = f
BY DEF Do, Steps

LEMMA EmptyType ==
  ASSUME NEW S
  PROVE  <<>> \in Seq(S) /\ DOMAIN <<>> = {}
OBVIOUS

-----------------------------------------------------------------------------
(* Types *)

SettingTypes == retryCount \in RetryCounts /\ timeout \in Timeouts
ClientTypes == /\ started \in BOOLEAN /\ gone \in BOOLEAN
               /\ tasks \in Seq(CallOps) /\ calls \in 0..MaxCalls
               /\ call \in [Threads -> [op : CallOps, at : {"none", "flag", "queue"}]]
FlagTypes == /\ isStop \in BOOLEAN /\ active \in BOOLEAN /\ overlapped \in BOOLEAN
             /\ stopped \in BOOLEAN /\ fatal \in BOOLEAN
             /\ retries \in Nat /\ timeouts \in Nat
SocketTypes == /\ retryCur \in -1..retryCount
               /\ state \in {"disconnected", "connecting", "connected"}
               /\ fd \in Fds \union {NoFd} /\ connection \in Fds \union {NoFd}
               /\ status \in {"ready", "normal"} /\ reg \subseteq Fds /\ open \subseteq Fds
               /\ conn \in [Fds -> {"none", "up", "half", "down"}]

LEMMA TypeParts ==
  Types <=> SettingTypes /\ ClientTypes /\ FlagTypes /\ SocketTypes /\ todo \in Seq(Steps)
<1>1. todo \in Seq(Steps) => \A i \in DOMAIN todo : todo[i] \in Steps
  BY ElementType
<1> QED BY <1>1 DEF Types, TypeOK, SettingTypes, ClientTypes, FlagTypes, SocketTypes, Steps

LEMMA TypePartsNext ==
  Types' <=> SettingTypes' /\ ClientTypes' /\ FlagTypes' /\ SocketTypes' /\ todo' \in Seq(Steps)
<1>1. todo' \in Seq(Steps) => \A i \in DOMAIN todo' : todo'[i] \in Steps
  BY ElementType
<1> QED BY <1>1 DEF Types, TypeOK, SettingTypes, ClientTypes, FlagTypes, SocketTypes, Steps

LEMMA RetryCurIs ==
  ASSUME SettingTypes, NEW cur \in -1..retryCount
  PROVE  /\ retryCount \in Int /\ retryCount >= -1 /\ cur \in Int
         /\ NextRetryCur(cur) \in -1..retryCount
BY ConstantsAssumption DEF SettingTypes, NextRetryCur

(* What an attempt that is made sets.                                       *)
LEMMA DoconnectTypes ==
  ASSUME Types, NEW cur \in -1..retryCount, NEW armed \in Nat, Doconnect(cur, armed)
  PROVE  /\ retries' \in Nat /\ retryCur' \in -1..retryCount /\ fatal' \in BOOLEAN
         /\ state' \in {"disconnected", "connecting"} /\ fd' \in Fds
         /\ status' \in {"ready", "normal"} /\ reg' \subseteq Fds /\ open' \subseteq Fds
<1>1. SettingTypes /\ SocketTypes
  BY TypeParts
<1>2. fatal' \in BOOLEAN
  BY Zenon DEF Doconnect, InProgress, FailsAtOnce, FailsForGood
<1>3. CASE InProgress(cur, armed)
  <2>1. PICK f \in Fds \ open : /\ fd' = f /\ open' = open \union {f} /\ state' = "connecting"
                               /\ WatchWrite(f) /\ retryCur' = cur /\ retries' = armed
    BY <1>3 DEF InProgress
  <2> QED BY <1>1, <1>2, <2>1 DEF WatchWrite, SocketTypes
<1>4. CASE FailsAtOnce(cur, armed)
  <2>1. NextRetryCur(cur) \in -1..retryCount
    BY <1>1, RetryCurIs
  <2>2. PICK f \in Fds \ open : /\ fd' = f /\ Retry(FALSE, cur, armed)
                               /\ UNCHANGED <<open, channel>>
    BY <1>4 DEF FailsAtOnce
  <2>3. \/ retryCur' = NextRetryCur(cur) /\ retries' = armed + 1
        \/ retryCur' = cur /\ retries' = armed
    BY <2>2 DEF Retry, MayRetry
  <2> QED BY <1>1, <1>2, <2>1, <2>2, <2>3 DEF Retry, SocketTypes, channel
<1>5. CASE FailsForGood(cur, armed)
  BY <1>1, <1>2, <1>5 DEF FailsForGood, SocketTypes, channel
<1> QED BY <1>3, <1>4, <1>5 DEF Doconnect

LEMMA UnwatchTypes ==
  ASSUME Types, Unwatch
  PROVE  status' \in {"ready", "normal"} /\ reg' \subseteq Fds
BY TypeParts DEF Unwatch, SocketTypes

LEMMA ClosedTypes ==
  ASSUME Types, NEW f \in Fds, NEW after, after = <<>> \/ after = <<Do("close", f)>>,
         Closed(f, after)
  PROVE  /\ conn' = [conn EXCEPT ![f] = "down"] /\ conn' \in [Fds -> {"none", "up", "half", "down"}]
         /\ todo' \in Seq(Steps)
<1>1. todo \in Seq(Steps) /\ SocketTypes
  BY TypeParts
<1>2. conn' = [conn EXCEPT ![f] = "down"] /\ conn' \in [Fds -> {"none", "up", "half", "down"}]
  BY <1>1 DEF Closed, SocketTypes
<1>3. Do("onClose", f) \in Steps /\ Do("removeConnection", f) \in Steps /\ Do("close", f) \in Steps
  BY StepType DEF Callbacks
<1>4. after \in Seq(Steps)
  <2>1. CASE after = <<>>
    BY <2>1, EmptyType
  <2>2. CASE after = <<Do("close", f)>>
    BY <1>3, <2>2, SingleType
  <2> QED BY <2>1, <2>2
<1>5. <<Do("onClose", f), Do("removeConnection", f)>> \in Seq(Steps)
  BY <1>3, PairType
<1>6. <<Do("onClose", f), Do("removeConnection", f)>> \o after \in Seq(Steps)
  BY <1>4, <1>5, ConcatType
<1>7. (<<Do("onClose", f), Do("removeConnection", f)>> \o after) \o todo \in Seq(Steps)
  BY <1>1, <1>6, ConcatType
<1> QED BY <1>2, <1>7 DEF Closed

(* The first of the steps that are left has been done.                      *)
LEMMA StepDone ==
  ASSUME todo \in Seq(Steps), todo # <<>>, todo' = Tail(todo)
  PROVE  /\ todo' \in Seq(Steps)
         /\ Head(todo) \in Steps /\ Head(todo) = todo[1] /\ 1 \in DOMAIN todo
         /\ \A i \in DOMAIN todo' : /\ i \in Nat \ {0} /\ i + 1 \in DOMAIN todo
                                    /\ todo'[i] = todo[i + 1]
         /\ \A i \in DOMAIN todo' : i > 1 => i - 1 \in DOMAIN todo'
<1>1. todo' \in Seq(Steps) /\ DOMAIN todo' = 1..Len(todo') /\ Len(todo') \in Nat
  BY TailType, LenProperties
<1> QED BY <1>1, TailType, LenProperties

LEMMA InitInv == Init => ConnectorInv
<1> SUFFICES ASSUME Init PROVE ConnectorInv
  OBVIOUS
<1> USE ConstantsAssumption DEF Init
<1>1. /\ isStop \in BOOLEAN /\ active \in BOOLEAN /\ overlapped \in BOOLEAN
      /\ stopped \in BOOLEAN /\ fatal \in BOOLEAN /\ started \in BOOLEAN /\ gone \in BOOLEAN
  BY Zenon
<1>2. /\ SettingTypes /\ retryCur \in -1..retryCount
      /\ tasks \in Seq(CallOps) /\ todo \in Seq(Steps) /\ DOMAIN todo = {}
  BY EmptyType DEF SettingTypes
<1>3. conn \in [Fds -> {"none", "up", "half", "down"}] /\ \A f \in Fds : conn[f] = "none"
  OBVIOUS
<1>4. call \in [Threads -> [op : CallOps, at : {"none", "flag", "queue"}]]
  BY DEF NoCall, CallOps
<1>5. Types
  BY <1>1, <1>2, <1>3, <1>4, TypeParts DEF ClientTypes, FlagTypes, SocketTypes
<1>6. Attempt /\ Connected /\ ConnIsOpen /\ RetryAlone
  BY <1>3 DEF Attempt, Connected, ConnIsOpen, RetryAlone
<1>7. Removal
  BY <1>2 DEF Removal, RemovesHeld, RemovesOnce, CloseFollows
<1>8. /\ StoppedInv /\ StoppedStaysStopped
      /\ NoSocketLeak /\ WatchedIsCurrent /\ ConnectionHeld
  BY <1>3 DEF StoppedInv, StoppedStaysStopped, NoSocketLeak, WatchedIsCurrent, ConnectionHeld, Live
<1> QED BY <1>5, <1>6, <1>7, <1>8 DEF ConnectorInv, Alone

-----------------------------------------------------------------------------
(* Attempts that have not overlapped *)

LEMMA ConnectingIsAlone ==
  ASSUME Types, Alone, state = "connecting"
  PROVE  /\ fd \in Fds /\ fd \in open /\ conn[fd] = "none" /\ reg = {fd} /\ status = "normal"
         /\ retries = 0 /\ OnlyCallbacks /\ connection = NoFd
         /\ \A f \in Fds : ~Live(f)
<1>1. SocketTypes
  BY TypeParts
<1> QED BY <1>1 DEF SocketTypes, Alone, Attempt, Connected, WatchedIsCurrent, ConnectionHeld

LEMMA NothingLive ==
  ASSUME Types, Alone, state # "connected"
  PROVE  /\ connection = NoFd /\ \A f \in Fds : ~Live(f) /\ conn[f] # "up"
         /\ \A i \in DOMAIN todo : ~Removes(i)
<1>1. connection = NoFd /\ \A f \in Fds : ~Live(f)
  BY DEF Alone, Connected, ConnectionHeld
<1>2. \A f \in Fds : conn[f] # "up"
  BY <1>1, ConstantsAssumption DEF Live
<1> QED BY <1>1, <1>2 DEF Alone, Removal, RemovesHeld

LEMMA OnlyCallbacksRemoval ==
  OnlyCallbacks => Removal /\ \A i \in DOMAIN todo : ~Removes(i) /\ ~Closes(i)
BY DEF OnlyCallbacks, Removal, RemovesHeld, RemovesOnce, CloseFollows, Removes, Closes, Callbacks

LEMMA OnlyCallbacksRemovalNext ==
  OnlyCallbacks' => Removal'
BY DEF OnlyCallbacks, Removal, RemovesHeld, RemovesOnce, CloseFollows, Removes, Closes, Callbacks

LEMMA EmptyOnlyCallbacks ==
  todo = <<>> => OnlyCallbacks
BY EmptyType DEF OnlyCallbacks

(* An attempt that is made, with no retry due, when there is none under way. *)
LEMMA DoconnectAlone ==
  ASSUME Types, Alone, state = "disconnected", OnlyCallbacks, Types', StoppedInv',
         NEW cur \in -1..retryCount, Doconnect(cur, 0), ~stopped', ~overlapped',
         UNCHANGED <<connection, conn, todo>>
  PROVE  Alone'
<1> USE ConstantsAssumption
<1>1. /\ SocketTypes /\ connection = NoFd /\ status = "ready" /\ reg = {}
      /\ \A f \in Fds : ~Live(f) /\ conn[f] # "up"
  BY NothingLive, TypeParts DEF SocketTypes, Alone, Attempt, WatchedIsCurrent
<1>2. retries' \in 0..1 /\ (state' = "connecting" => retries' = 0)
  <2>1. CASE InProgress(cur, 0)
    BY <2>1 DEF InProgress
  <2>2. CASE FailsAtOnce(cur, 0)
    BY <2>2 DEF FailsAtOnce, Retry, MayRetry
  <2>3. CASE FailsForGood(cur, 0)
    BY <2>3 DEF FailsForGood
  <2> QED BY <2>1, <2>2, <2>3 DEF Doconnect
<1>3. /\ fd' \in Fds
      /\ \/ /\ state' = "connecting" /\ open' = open \union {fd'} /\ fd' \notin open
            /\ reg' = {fd'} /\ status' = "normal"
         \/ state' = "disconnected" /\ open' = open /\ reg' = {} /\ status' = "ready"
  <2>1. CASE InProgress(cur, 0)
    BY <1>1, <2>1 DEF InProgress, WatchWrite
  <2>2. CASE FailsAtOnce(cur, 0)
    BY <1>1, <2>2 DEF FailsAtOnce, Retry, channel
  <2>3. CASE FailsForGood(cur, 0)
    BY <1>1, <2>3 DEF FailsForGood, channel
  <2> QED BY <2>1, <2>2, <2>3 DEF Doconnect
<1>4. OnlyCallbacks' /\ Removal'
  BY OnlyCallbacksRemovalNext DEF OnlyCallbacks
<1>5. Attempt' /\ Connected' /\ ConnIsOpen' /\ RetryAlone'
  BY <1>1, <1>2, <1>3, <1>4 DEF Alone, Attempt, Connected, ConnIsOpen, RetryAlone
<1>6. StoppedStaysStopped'
  BY DEF StoppedStaysStopped
<1>7. NoSocketLeak' /\ WatchedIsCurrent' /\ ConnectionHeld'
  BY <1>1, <1>3 DEF Alone, NoSocketLeak, WatchedIsCurrent, ConnectionHeld, Live
<1> QED BY <1>4, <1>5, <1>6, <1>7 DEF Alone

(* An attempt that ends without a connection.                               *)
LEMMA EndAlone ==
  ASSUME Types, Alone, state = "connecting", Unwatch, CloseFd, state' = "disconnected",
         Types', retries' \in 0..1, OnlyCallbacks',
         UNCHANGED <<fd, connection, conn, overlapped>>
  PROVE  Alone'
<1> USE ConstantsAssumption
<1>1. /\ SocketTypes /\ fd \in open /\ conn[fd] = "none" /\ connection = NoFd
      /\ \A f \in Fds : ~Live(f) /\ conn[f] # "up"
  BY NothingLive, ConnectingIsAlone, TypeParts
<1>2. open' = open \ {fd} /\ reg' = {} /\ status' = "ready"
  BY ConnectingIsAlone DEF Unwatch, CloseFd
<1>3. Attempt' /\ Connected' /\ ConnIsOpen' /\ RetryAlone'
  BY <1>1, <1>2 DEF Alone, SocketTypes, Attempt, Connected, ConnIsOpen, RetryAlone
<1>4. Removal'
  BY OnlyCallbacksRemovalNext
<1>5. NoSocketLeak' /\ WatchedIsCurrent' /\ ConnectionHeld' /\ StoppedStaysStopped'
  BY <1>1, <1>2 DEF Alone, NoSocketLeak, WatchedIsCurrent, ConnectionHeld, StoppedStaysStopped, Live
<1> QED BY <1>3, <1>4, <1>5 DEF Alone

(* A step that touches neither the attempt nor the connection.              *)
LEMMA ApartAlone ==
  ASSUME Alone, Removal', OnlyCallbacks => OnlyCallbacks', StoppedStaysStopped',
         UNCHANGED <<channel, state, fd, connection, open, conn, retries, overlapped>>
  PROVE  Alone'
<1>1. Attempt' /\ Connected' /\ ConnIsOpen' /\ RetryAlone'
  BY DEF Alone, Attempt, Connected, ConnIsOpen, RetryAlone, channel
<1>2. NoSocketLeak' /\ WatchedIsCurrent' /\ ConnectionHeld'
  BY DEF Alone, NoSocketLeak, WatchedIsCurrent, ConnectionHeld, Live, channel
<1> QED BY <1>1, <1>2 DEF Alone

LEMMA SameSteps ==
  ASSUME UNCHANGED <<connection, conn, todo>>
  PROVE  (Removal => Removal') /\ (OnlyCallbacks => OnlyCallbacks')
BY DEF Removal, RemovesHeld, RemovesOnce, CloseFollows, Removes, Closes, Live, OnlyCallbacks

LEMMA SameStopped ==
  ASSUME UNCHANGED <<state, conn, stopped, overlapped>>
  PROVE  StoppedStaysStopped => StoppedStaysStopped'
BY DEF StoppedStaysStopped

(* The steps of an invariant's proof: types, the stop, and the rest as long *)
(* as attempts have not overlapped.                                         *)
LEMMA InvParts ==
  ASSUME ConnectorInv
  PROVE  /\ Types /\ SettingTypes /\ ClientTypes /\ FlagTypes /\ SocketTypes
         /\ todo \in Seq(Steps) /\ StoppedInv
         /\ (~overlapped => Alone)
BY TypeParts DEF ConnectorInv

LEMMA InvNext ==
  ASSUME SettingTypes', ClientTypes', FlagTypes', SocketTypes', todo' \in Seq(Steps),
         StoppedInv', ~overlapped' => Alone'
  PROVE  ConnectorInv'
BY TypePartsNext DEF ConnectorInv

-----------------------------------------------------------------------------
(* Timers and events *)

LEMMA RetryFiresKeeps == ConnectorInv /\ RetryFires => ConnectorInv'
<1> SUFFICES ASSUME ConnectorInv, RetryFires PROVE ConnectorInv'
  OBVIOUS
<1>1. /\ todo = <<>> /\ retries > 0
      /\ UNCHANGED <<settings, client, isStop, connection, conn, timeouts, active, todo,
                     overlapped, stopped>>
  BY DEF RetryFires
<1>2. SettingTypes' /\ ClientTypes' /\ todo' \in Seq(Steps) /\ retries - 1 \in Nat
  BY <1>1, InvParts DEF SettingTypes, ClientTypes, FlagTypes, settings, client
<1>3. CASE StillWanted
  <2>1. Doconnect(retryCur, retries - 1) /\ ~stopped'
    BY <1>1, <1>3, InvParts DEF RetryFires, StillWanted, StoppedInv
  <2>2. /\ retries' \in Nat /\ retryCur' \in -1..retryCount /\ fatal' \in BOOLEAN
        /\ state' \in {"disconnected", "connecting"} /\ fd' \in Fds
        /\ status' \in {"ready", "normal"} /\ reg' \subseteq Fds /\ open' \subseteq Fds
    BY <1>2, <2>1, InvParts, DoconnectTypes DEF SocketTypes
  <2>3. FlagTypes' /\ SocketTypes' /\ StoppedInv'
    BY <1>1, <2>1, <2>2, InvParts DEF FlagTypes, SocketTypes, StoppedInv, settings
  <2>4. ASSUME ~overlapped' PROVE Alone'
    <3>1. Alone /\ retries = 1 /\ state = "disconnected" /\ OnlyCallbacks
      BY <1>1, <2>4, InvParts, EmptyOnlyCallbacks DEF Alone, RetryAlone
    <3>2. Types' /\ Doconnect(retryCur, 0) /\ retryCur \in -1..retryCount
      BY <1>2, <2>1, <2>3, <3>1, InvParts, TypePartsNext DEF SocketTypes
    <3> QED BY <1>1, <2>1, <2>3, <2>4, <3>1, <3>2, InvParts, DoconnectAlone
  <2> QED BY <1>2, <2>3, <2>4, InvNext
<1>4. CASE ~StillWanted
  <2>1. retries' = retries - 1 /\ UNCHANGED <<channel, retryCur, state, fd, open, fatal>>
    BY <1>4 DEF RetryFires
  <2>2. FlagTypes' /\ SocketTypes' /\ StoppedInv'
    BY <1>1, <1>2, <2>1, InvParts DEF FlagTypes, SocketTypes, StoppedInv, settings, channel
  <2>3. ASSUME ~overlapped' PROVE Alone'
    <3>1. Alone /\ retries = 1 /\ state = "disconnected" /\ retries' = 0
      BY <1>1, <2>1, <2>3, InvParts DEF Alone, RetryAlone
    <3>2. Removal' /\ StoppedStaysStopped'
      BY <1>1, <2>1, <3>1, SameSteps, SameStopped DEF Alone
    <3>3. Attempt' /\ Connected' /\ ConnIsOpen' /\ RetryAlone'
      BY <1>1, <2>1, <3>1 DEF Alone, Attempt, Connected, ConnIsOpen, RetryAlone, channel
    <3>4. NoSocketLeak' /\ WatchedIsCurrent' /\ ConnectionHeld'
      BY <1>1, <2>1, <3>1 DEF Alone, NoSocketLeak, WatchedIsCurrent, ConnectionHeld, Live, channel
    <3> QED BY <2>3, <3>2, <3>3, <3>4 DEF Alone
  <2> QED BY <1>2, <2>2, <2>3, InvNext
<1> QED BY <1>3, <1>4

LEMMA TimeoutFiresKeeps == ConnectorInv /\ TimeoutFires => ConnectorInv'
<1> SUFFICES ASSUME ConnectorInv, TimeoutFires PROVE ConnectorInv'
  OBVIOUS
<1>1. /\ todo = <<>> /\ timeouts > 0 /\ timeouts' = timeouts - 1
      /\ UNCHANGED <<settings, client, retryCur, fd, connection, conn, retries, active,
                     overlapped, fatal>>
  BY DEF TimeoutFires
<1>2. SettingTypes' /\ ClientTypes' /\ timeouts' \in Nat
  BY <1>1, InvParts DEF SettingTypes, ClientTypes, FlagTypes, settings, client
<1>3. CASE ~TimesOut
  <2>1. UNCHANGED <<isStop, stopped, state, channel, open, todo>>
    BY <1>3 DEF TimeoutFires
  <2>2. FlagTypes' /\ SocketTypes' /\ StoppedInv' /\ todo' \in Seq(Steps)
    BY <1>1, <1>2, <2>1, InvParts DEF FlagTypes, SocketTypes, StoppedInv, settings, channel
  <2>3. ASSUME ~overlapped' PROVE Alone'
    <3>1. Alone
      BY <1>1, <2>3, InvParts
    <3> QED BY <1>1, <2>1, <3>1, SameSteps, SameStopped, ApartAlone DEF Alone
  <2> QED BY <1>2, <2>2, <2>3, InvNext
<1>4. CASE TimesOut
  <2>1. /\ isStop' = TRUE /\ stopped' = TRUE /\ state' = "disconnected"
        /\ IF state = "connecting" THEN Unwatch /\ CloseFd ELSE UNCHANGED <<channel, open>>
        /\ todo' = <<Do("timeoutCallBack", NoFd)>>
    BY <1>4 DEF TimeoutFires
  <2>2. todo' \in Seq(Steps) /\ OnlyCallbacks'
    BY <2>1, StepType, SingleType DEF Callbacks, OnlyCallbacks
  <2>3. status' \in {"ready", "normal"} /\ reg' \subseteq Fds /\ open' \subseteq Fds
    <3>1. CASE state = "connecting"
      BY <2>1, <3>1, InvParts, UnwatchTypes DEF CloseFd, SocketTypes
    <3>2. CASE state # "connecting"
      BY <2>1, <3>2, InvParts DEF SocketTypes, channel
    <3> QED BY <3>1, <3>2
  <2>4. FlagTypes' /\ SocketTypes' /\ StoppedInv'
    BY <1>1, <1>2, <2>1, <2>3, InvParts DEF FlagTypes, SocketTypes, StoppedInv, settings
  <2>5. ASSUME ~overlapped' PROVE Alone'
    <3>1. Alone /\ Types /\ Types' /\ retries' \in 0..1 /\ Removal'
      BY <1>1, <1>2, <2>2, <2>4, <2>5, InvParts, TypePartsNext, OnlyCallbacksRemovalNext
         DEF Alone, RetryAlone
    <3>2. CASE state = "connecting"
      BY <1>1, <2>1, <2>2, <3>1, <3>2, EndAlone
    <3>3. CASE state # "connecting"
      <4>1. state = "disconnected" /\ UNCHANGED <<channel, open>>
        BY <1>4, <2>1, <3>3, InvParts DEF TimesOut, SocketTypes
      <4>2. StoppedStaysStopped'
        BY <1>1, <2>1, <3>1, <4>1, NothingLive DEF StoppedStaysStopped
      <4> QED BY <1>1, <2>1, <2>2, <3>1, <4>1, <4>2, ApartAlone
    <3> QED BY <3>2, <3>3
  <2> QED BY <1>2, <2>2, <2>4, <2>5, InvNext
<1> QED BY <1>3, <1>4

LEMMA PollKeeps == ConnectorInv /\ (PollReturns \/ EventIgnored) => ConnectorInv'
<1> SUFFICES ASSUME ConnectorInv, PollReturns \/ EventIgnored PROVE ConnectorInv'
  OBVIOUS
<1>1. /\ active' \in BOOLEAN
      /\ UNCHANGED <<settings, client, channel, isStop, retryCur, state, fd, connection,
                     open, conn, retries, timeouts, todo, overlapped, stopped, fatal>>
  <2>1. active' \in BOOLEAN
    BY Zenon DEF PollReturns, EventIgnored, Handled
  <2> QED BY <2>1 DEF PollReturns, EventIgnored
<1>2. /\ SettingTypes' /\ ClientTypes' /\ FlagTypes' /\ SocketTypes' /\ StoppedInv'
      /\ todo' \in Seq(Steps)
  BY <1>1, InvParts DEF SettingTypes, ClientTypes, FlagTypes, SocketTypes, StoppedInv, settings,
                        client, channel
<1>3. ASSUME ~overlapped' PROVE Alone'
  <2>1. Alone
    BY <1>1, <1>3, InvParts
  <2> QED BY <1>1, <2>1, SameSteps, SameStopped, ApartAlone DEF Alone
<1> QED BY <1>2, <1>3, InvNext

LEMMA AttemptFailsKeeps == ConnectorInv /\ AttemptFails => ConnectorInv'
<1> SUFFICES ASSUME ConnectorInv, AttemptFails PROVE ConnectorInv'
  OBVIOUS
<1>1. /\ todo = <<>> /\ state = "connecting" /\ Unwatch /\ CloseFd /\ state' = "disconnected"
      /\ UNCHANGED <<settings, client, isStop, fd, connection, conn, timeouts, todo, overlapped,
                     stopped, fatal>>
  BY DEF AttemptFails, Handled, Retry
<1>2. active' \in BOOLEAN
  BY Zenon DEF AttemptFails, Handled
<1>3. \/ retryCur' = NextRetryCur(retryCur) /\ retries' = retries + 1
      \/ retryCur' = retryCur /\ retries' = retries
  BY DEF AttemptFails, Retry, MayRetry
<1>4. retryCur' \in -1..retryCount /\ retries' \in Nat
  BY <1>3, InvParts, RetryCurIs DEF SocketTypes, FlagTypes
<1>5. SettingTypes' /\ ClientTypes' /\ FlagTypes' /\ StoppedInv' /\ todo' \in Seq(Steps)
  BY <1>1, <1>2, <1>4, InvParts DEF SettingTypes, ClientTypes, FlagTypes, StoppedInv, settings, client
<1>6. SocketTypes'
  BY <1>1, <1>4, InvParts, UnwatchTypes DEF SocketTypes, CloseFd, settings
<1>7. ASSUME ~overlapped' PROVE Alone'
  <2>1. Types /\ Alone /\ Types'
    BY <1>1, <1>5, <1>6, <1>7, InvParts, TypePartsNext
  <2>2. retries' \in 0..1
    BY <1>1, <1>3, <2>1, ConnectingIsAlone
  <2>3. OnlyCallbacks'
    BY <1>1, EmptyOnlyCallbacks, SameSteps
  <2> QED BY <1>1, <2>1, <2>2, <2>3, EndAlone
<1> QED BY <1>5, <1>6, <1>7, InvNext

LEMMA AttemptSucceedsKeeps == ConnectorInv /\ AttemptSucceeds => ConnectorInv'
<1> SUFFICES ASSUME ConnectorInv, AttemptSucceeds PROVE ConnectorInv'
  OBVIOUS
<1> USE ConstantsAssumption
<1>1. /\ todo = <<>> /\ state = "connecting" /\ Unwatch
      /\ UNCHANGED <<settings, client, isStop, retryCur, fd, retries, timeouts, overlapped,
                     stopped, fatal>>
  BY DEF AttemptSucceeds, Handled
<1>2. active' \in BOOLEAN
  BY Zenon DEF AttemptSucceeds, Handled
<1>3. SettingTypes' /\ ClientTypes' /\ FlagTypes'
  BY <1>1, <1>2, InvParts DEF SettingTypes, ClientTypes, FlagTypes, settings, client
<1>4. ASSUME ~overlapped' PROVE Types /\ Alone
  BY <1>1, <1>4, InvParts
<1>5. CASE isStop
  <2>1. CloseFd /\ state' = "disconnected" /\ UNCHANGED <<connection, conn, todo>>
    BY <1>5 DEF AttemptSucceeds
  <2>2. SocketTypes' /\ StoppedInv' /\ todo' \in Seq(Steps)
    BY <1>1, <2>1, InvParts, UnwatchTypes DEF SocketTypes, CloseFd, StoppedInv, settings
  <2>3. ASSUME ~overlapped' PROVE Alone'
    <3>1. Types' /\ OnlyCallbacks' /\ retries' \in 0..1
      BY <1>1, <1>3, <1>4, <2>1, <2>2, <2>3, TypePartsNext, EmptyOnlyCallbacks, SameSteps
         DEF Alone, RetryAlone
    <3> QED BY <1>1, <1>4, <2>1, <2>3, <3>1, EndAlone
  <2> QED BY <1>3, <2>2, <2>3, InvNext
<1>6. CASE ~isStop
  <2>1. /\ state' = "connected" /\ connection' = fd /\ conn' = [conn EXCEPT ![fd] = "up"]
        /\ todo' = <<Do("onConnection", fd)>> /\ UNCHANGED open
    BY <1>6 DEF AttemptSucceeds
  <2>2. todo' \in Seq(Steps) /\ OnlyCallbacks'
    BY <2>1, InvParts, StepType, SingleType DEF SocketTypes, Callbacks, OnlyCallbacks
  <2>3. SocketTypes' /\ StoppedInv' /\ ~stopped'
    BY <1>1, <1>6, <2>1, InvParts, UnwatchTypes DEF SocketTypes, StoppedInv, settings
  <2>4. ASSUME ~overlapped' PROVE Alone'
    <3>1. /\ Alone /\ SocketTypes /\ fd \in Fds /\ fd \in open /\ conn[fd] = "none" /\ fd # NoFd
          /\ retries = 0 /\ reg' = {} /\ status' = "ready"
          /\ \A f \in Fds : ~Live(f) /\ conn[f] # "up"
      BY <1>1, <1>4, <2>4, InvParts, NothingLive, ConnectingIsAlone DEF Unwatch
    <3>2. \A f \in Fds : conn'[f] = IF f = fd THEN "up" ELSE conn[f]
      BY <2>1, <3>1 DEF SocketTypes
    <3>3. Attempt' /\ Connected' /\ RetryAlone'
      BY <1>1, <2>1, <3>1 DEF Attempt, Connected, RetryAlone
    <3>4. ConnIsOpen' /\ NoSocketLeak' /\ ConnectionHeld'
      BY <1>1, <2>1, <3>1, <3>2 DEF Alone, ConnIsOpen, NoSocketLeak, ConnectionHeld, Live
    <3>5. Removal' /\ StoppedStaysStopped' /\ WatchedIsCurrent'
      BY <2>1, <2>2, <2>3, <3>1, OnlyCallbacksRemovalNext DEF StoppedStaysStopped, WatchedIsCurrent
    <3> QED BY <2>4, <3>3, <3>4, <3>5 DEF Alone
  <2> QED BY <1>3, <2>2, <2>3, <2>4, InvNext
<1> QED BY <1>5, <1>6

-----------------------------------------------------------------------------
(* The connection *)

(* A step that is not a callback is left only while there is no attempt.    *)
LEMMA NoAttempt ==
  ASSUME Types, Alone, NEW i \in DOMAIN todo, todo[i].do \notin Callbacks
  PROVE  state # "connecting" /\ reg = {} /\ status = "ready"
BY TypeParts DEF Alone, Attempt, OnlyCallbacks, WatchedIsCurrent, SocketTypes

LEMMA RemoveConnectionKeeps == ConnectorInv /\ RemoveConnection => ConnectorInv'
<1> SUFFICES ASSUME ConnectorInv, RemoveConnection PROVE ConnectorInv'
  OBVIOUS
<1> USE ConstantsAssumption
<1>1. /\ todo # <<>> /\ Head(todo).do = "removeConnection" /\ todo' = Tail(todo)
      /\ connection' = NoFd /\ state' = "disconnected"
      /\ UNCHANGED <<settings, client, channel, isStop, retryCur, fd, open, conn, retries,
                     timeouts, active, overlapped, stopped, fatal>>
  BY DEF RemoveConnection, Forget
<1>2. /\ SettingTypes' /\ ClientTypes' /\ FlagTypes' /\ SocketTypes' /\ StoppedInv'
      /\ todo' \in Seq(Steps)
  BY <1>1, InvParts, StepDone DEF SettingTypes, ClientTypes, FlagTypes, SocketTypes, StoppedInv,
                                  settings, client, channel
<1>3. ASSUME ~overlapped' PROVE Alone'
  <2>1. Types /\ Alone /\ Removes(1) /\ todo \in Seq(Steps)
    BY <1>1, <1>3, InvParts, StepDone DEF Removes
  <2>2. state # "connecting" /\ reg = {} /\ status = "ready"
    BY <2>1, NoAttempt DEF Removes, Callbacks
  <2>3. (\A f \in Fds : ~Live(f)) /\ \A i \in DOMAIN todo : Removes(i) => i = 1
    BY <2>1 DEF Alone, Removal, RemovesHeld, RemovesOnce, Removes, ConnectionHeld
  <2>4. \A i \in DOMAIN todo' : /\ i \in Nat \ {0} /\ i + 1 \in DOMAIN todo
                                /\ todo'[i] = todo[i + 1]
    BY <1>1, <2>1, StepDone
  <2>5. \A i \in DOMAIN todo' : ~Removes(i)' /\ (Closes(i)' => i = 1)
    <3> SUFFICES ASSUME NEW i \in DOMAIN todo' PROVE ~Removes(i)' /\ (Closes(i)' => i = 1)
      OBVIOUS
    <3>1. ~Removes(i)'
      BY <2>3, <2>4 DEF Removes
    <3>2. ASSUME Closes(i)' PROVE i = 1
      <4>1. i \in Nat \ {0} /\ i + 1 \in DOMAIN todo /\ Closes(i + 1)
        BY <2>4, <3>2 DEF Closes
      <4>2. Removes((i + 1) - 1)
        BY <2>1, <4>1 DEF Alone, Removal, CloseFollows
      <4> QED BY <2>3, <4>1, <4>2 DEF Removes
    <3> QED BY <3>1, <3>2
  <2>6. Removal'
    BY <2>5 DEF Removal, RemovesHeld, RemovesOnce, CloseFollows
  <2>7. Attempt' /\ Connected' /\ ConnIsOpen' /\ RetryAlone'
    BY <1>1, <2>1, <2>2 DEF Alone, Attempt, Connected, ConnIsOpen, RetryAlone, channel
  <2>8. NoSocketLeak' /\ WatchedIsCurrent' /\ ConnectionHeld' /\ StoppedStaysStopped'
    BY <1>1, <2>1, <2>2, <2>3
       DEF Alone, NoSocketLeak, WatchedIsCurrent, ConnectionHeld, StoppedStaysStopped, Live, channel
  <2> QED BY <1>3, <2>6, <2>7, <2>8 DEF Alone
<1> QED BY <1>2, <1>3, InvNext

(* What is left of the removal when a step other than it is done, and no    *)
(* connection has come to life by that.                                     *)
LEMMA RemovalLater ==
  ASSUME Types, Removal, todo # <<>>, todo' = Tail(todo), Head(todo).do # "removeConnection",
         UNCHANGED connection, Live(connection)' => Live(connection)
  PROVE  Removal'
<1>1. todo \in Seq(Steps)
  BY TypeParts
<1>2. \A i \in DOMAIN todo' : /\ i \in Nat \ {0} /\ i + 1 \in DOMAIN todo
                              /\ todo'[i] = todo[i + 1]
  BY <1>1, StepDone
<1>3. RemovesHeld'
  BY <1>2 DEF Removal, RemovesHeld, Removes
<1>4. RemovesOnce'
  <2> SUFFICES ASSUME NEW i \in DOMAIN todo', NEW j \in DOMAIN todo', Removes(i)', Removes(j)'
               PROVE  i = j
    BY DEF RemovesOnce
  <2>1. i \in Nat /\ j \in Nat /\ Removes(i + 1) /\ Removes(j + 1)
    BY <1>2 DEF Removes
  <2>2. i + 1 = j + 1
    BY <2>1 DEF Removal, RemovesOnce, Removes
  <2> QED BY <2>1, <2>2
<1>5. CloseFollows'
  <2> SUFFICES ASSUME NEW i \in DOMAIN todo', Closes(i)', i # 1
               PROVE  Removes(i - 1)'
    BY DEF CloseFollows
  <2>1. i \in Nat \ {0} /\ i + 1 \in DOMAIN todo /\ Closes(i + 1)
    BY <1>2 DEF Closes
  <2>2. Removes(i)
    <3>1. i + 1 # 1 /\ (i + 1) - 1 = i
      BY <2>1
    <3> QED BY <2>1, <3>1 DEF Removal, CloseFollows
  <2>3. i - 1 \in DOMAIN todo' /\ todo'[i - 1] = todo[i]
    <3>1. i - 1 \in DOMAIN todo'
      BY <1>1, <2>1, StepDone
    <3> QED BY <1>2, <2>1, <3>1
  <2> QED BY <2>2, <2>3 DEF Removes
<1> QED BY <1>3, <1>4, <1>5 DEF Removal

LEMMA CloseConnectionKeeps == ConnectorInv /\ CloseConnection => ConnectorInv'
<1> SUFFICES ASSUME ConnectorInv, CloseConnection PROVE ConnectorInv'
  OBVIOUS
<1> USE ConstantsAssumption
<1> DEFINE f == Head(todo).fd
<1>1. /\ todo # <<>> /\ Head(todo).do = "close" /\ todo' = Tail(todo)
      /\ open' = open \ {f} /\ conn' = [conn EXCEPT ![f] = "none"]
      /\ UNCHANGED <<settings, client, channel, isStop, retryCur, state, fd, connection, retries,
                     timeouts, active, overlapped, stopped, fatal>>
  BY DEF CloseConnection
<1>2. /\ conn' \in [Fds -> {"none", "up", "half", "down"}]
      /\ \A g \in Fds : conn'[g] = IF g = f THEN "none" ELSE conn[g]
  BY <1>1, InvParts DEF SocketTypes
<1>3. /\ SettingTypes' /\ ClientTypes' /\ FlagTypes' /\ SocketTypes' /\ StoppedInv'
      /\ todo' \in Seq(Steps)
  BY <1>1, <1>2, InvParts, StepDone DEF SettingTypes, ClientTypes, FlagTypes, SocketTypes, StoppedInv,
                                        settings, client, channel
<1>4. ASSUME ~overlapped' PROVE Alone'
  <2>1. Types /\ Alone /\ SocketTypes
    BY <1>1, <1>4, InvParts
  <2>2. state # "connecting" /\ reg = {} /\ status = "ready"
    BY <1>1, <2>1, InvParts, StepDone, NoAttempt DEF Callbacks
  <2>3. \A g \in Fds \union {NoFd} : Live(g)' => Live(g)
    BY <1>2 DEF Live
  <2>4. Removal'
    BY <1>1, <2>1, <2>3, RemovalLater DEF Alone, SocketTypes
  <2>5. Attempt' /\ Connected' /\ RetryAlone'
    BY <1>1, <2>1, <2>2 DEF Alone, Attempt, Connected, RetryAlone, channel
  <2>6. ConnIsOpen' /\ NoSocketLeak'
    BY <1>1, <1>2, <2>1, <2>2 DEF Alone, ConnIsOpen, NoSocketLeak, SocketTypes
  <2>7. StoppedStaysStopped' /\ WatchedIsCurrent' /\ ConnectionHeld'
    BY <1>1, <1>2, <2>1, <2>2, <2>3
       DEF Alone, StoppedStaysStopped, WatchedIsCurrent, ConnectionHeld, channel
  <2> QED BY <1>4, <2>4, <2>5, <2>6, <2>7 DEF Alone
<1> QED BY <1>3, <1>4, InvNext

LEMMA CallbackReturnsKeeps == ConnectorInv /\ CallbackReturns => ConnectorInv'
<1> SUFFICES ASSUME ConnectorInv, CallbackReturns PROVE ConnectorInv'
  OBVIOUS
<1>1. /\ todo # <<>> /\ Head(todo).do # "removeConnection" /\ todo' = Tail(todo)
      /\ UNCHANGED <<settings, client, channel, isStop, retryCur, state, fd, connection, open, conn,
                     retries, timeouts, active, overlapped, stopped, fatal>>
  BY DEF CallbackReturns, Callbacks
<1>2. /\ SettingTypes' /\ ClientTypes' /\ FlagTypes' /\ SocketTypes' /\ StoppedInv'
      /\ todo' \in Seq(Steps)
  BY <1>1, InvParts, StepDone DEF SettingTypes, ClientTypes, FlagTypes, SocketTypes, StoppedInv,
                                  settings, client, channel
<1>3. ASSUME ~overlapped' PROVE Alone'
  <2>1. Types /\ Alone
    BY <1>1, <1>3, InvParts
  <2>2. Removal'
    BY <1>1, <2>1, RemovalLater DEF Alone, Live
  <2>3. OnlyCallbacks => OnlyCallbacks'
    BY <1>1, InvParts, StepDone DEF OnlyCallbacks
  <2>4. StoppedStaysStopped'
    BY <1>1, <2>1, SameStopped DEF Alone
  <2> QED BY <1>1, <2>1, <2>2, <2>3, <2>4, ApartAlone
<1> QED BY <1>2, <1>3, InvNext

LEMMA DestroyKeeps ==
  ASSUME ConnectorInv, NEW f \in Fds, Destroy(f)
  PROVE  ConnectorInv'
<1> USE ConstantsAssumption
<1>1. /\ conn[f] = "down" /\ connection # f
      /\ open' = open \ {f} /\ conn' = [conn EXCEPT ![f] = "none"]
      /\ UNCHANGED <<settings, client, channel, isStop, retryCur, state, fd, connection, retries,
                     timeouts, active, todo, overlapped, stopped, fatal>>
  BY DEF Destroy
<1>2. /\ conn' \in [Fds -> {"none", "up", "half", "down"}]
      /\ \A g \in Fds : conn'[g] = IF g = f THEN "none" ELSE conn[g]
  BY <1>1, InvParts DEF SocketTypes
<1>3. /\ SettingTypes' /\ ClientTypes' /\ FlagTypes' /\ SocketTypes' /\ StoppedInv'
      /\ todo' \in Seq(Steps)
  BY <1>1, <1>2, InvParts DEF SettingTypes, ClientTypes, FlagTypes, SocketTypes, StoppedInv,
                              settings, client, channel
<1>4. ASSUME ~overlapped' PROVE Alone'
  <2>1. Types /\ Alone /\ SocketTypes
    BY <1>1, <1>4, InvParts
  <2>2. \A g \in Fds \union {NoFd} : Live(g)' => Live(g)
    BY <1>2 DEF Live
  <2>3. Attempt' /\ Connected' /\ RetryAlone'
    BY <1>1, <1>2, <2>1 DEF Alone, Attempt, OnlyCallbacks, Connected, RetryAlone, SocketTypes, channel
  <2>4. ConnIsOpen' /\ NoSocketLeak'
    BY <1>1, <1>2, <2>1 DEF Alone, ConnIsOpen, NoSocketLeak, SocketTypes
  <2>5. Removal'
    BY <1>1, <2>1, <2>2
       DEF Alone, Removal, RemovesHeld, RemovesOnce, CloseFollows, Removes, Closes, SocketTypes
  <2>6. StoppedStaysStopped' /\ WatchedIsCurrent' /\ ConnectionHeld'
    BY <1>1, <1>2, <2>1, <2>2
       DEF Alone, StoppedStaysStopped, WatchedIsCurrent, ConnectionHeld, channel
  <2> QED BY <1>4, <2>3, <2>4, <2>5, <2>6 DEF Alone
<1> QED BY <1>3, <1>4, InvNext

(* What handleClose leaves to do: one removal, of the connection closed,    *)
(* and perhaps the close right after it.                                    *)
LEMMA ClosedSteps ==
  ASSUME NEW f \in Fds, NEW after, after = <<>> \/ after = <<Do("close", f)>>,
         todo \in Seq(Steps), OnlyCallbacks,
         todo' = <<Do("onClose", f), Do("removeConnection", f)>> \o after \o todo
  PROVE  /\ 2 \in DOMAIN todo' /\ todo'[2].do = "removeConnection"
         /\ \A i \in DOMAIN todo' : /\ Removes(i)' => i = 2 /\ todo'[i].fd = f
                                    /\ Closes(i)' => i = 3
<1> DEFINE p == <<Do("onClose", f), Do("removeConnection", f)>> \o after
<1>1. /\ Do("onClose", f) \in Steps /\ Do("removeConnection", f) \in Steps /\ Do("close", f) \in Steps
      /\ Do("onClose", f).do = "onClose" /\ Do("close", f).do = "close"
      /\ Do("removeConnection", f).do = "removeConnection" /\ Do("removeConnection", f).fd = f
  BY StepType DEF Callbacks
<1>2. /\ p \in Seq(Steps) /\ Len(p) \in {2, 3}
      /\ p[1] = Do("onClose", f) /\ p[2] = Do("removeConnection", f)
      /\ Len(p) = 3 => p[3] = Do("close", f)
  <2>1. CASE after = <<>>
    BY <1>1, <2>1, PairType, ConcatEmptySeq
  <2>2. CASE after = <<Do("close", f)>>
    BY <1>1, <2>2, PairAndOne
  <2> QED BY <2>1, <2>2
<1> HIDE DEF p
<1>3. \A i \in 1..Len(p) : /\ p[i].do = "removeConnection" => i = 2 /\ p[i].fd = f
                           /\ p[i].do = "close" => i = 3
  <2> SUFFICES ASSUME NEW i \in 1..Len(p)
               PROVE  /\ p[i].do = "removeConnection" => i = 2 /\ p[i].fd = f
                      /\ p[i].do = "close" => i = 3
    OBVIOUS
  <2>1. CASE Len(p) = 2
    <3>1. i = 1 \/ i = 2
      BY <2>1
    <3> QED BY <1>1, <1>2, <3>1
  <2>2. CASE Len(p) = 3
    <3>1. i = 1 \/ i = 2 \/ i = 3
      BY <2>2
    <3> QED BY <1>1, <1>2, <2>2, <3>1
  <2> QED BY <1>2, <2>1, <2>2
<1>4. todo' = p \o todo
  BY DEF p
<1>5. /\ Len(p) \in Nat /\ Len(todo) \in Nat /\ DOMAIN todo' = 1..(Len(p) + Len(todo))
      /\ \A i \in 1..(Len(p) + Len(todo)) : todo'[i] = IF i <= Len(p) THEN p[i] ELSE todo[i - Len(p)]
  <2>1. p \in Seq(Steps)
    BY <1>2
  <2>2. /\ DOMAIN (p \o todo) = 1..(Len(p) + Len(todo))
        /\ Len(p) \in Nat /\ Len(todo) \in Nat
        /\ \A i \in 1..(Len(p) + Len(todo)) :
               (p \o todo)[i] = IF i <= Len(p) THEN p[i] ELSE todo[i - Len(p)]
    BY <2>1, ConcatType
  <2> QED BY <1>4, <2>2
<1>6. \A i \in DOMAIN todo' : /\ Removes(i)' => i = 2 /\ todo'[i].fd = f
                              /\ Closes(i)' => i = 3
  <2> SUFFICES ASSUME NEW i \in DOMAIN todo'
               PROVE  /\ Removes(i)' => i = 2 /\ todo'[i].fd = f
                      /\ Closes(i)' => i = 3
    OBVIOUS
  <2>1. CASE i <= Len(p)
    BY <1>3, <1>5, <2>1 DEF Removes, Closes
  <2>2. CASE ~(i <= Len(p))
    <3>1. i - Len(p) \in DOMAIN todo /\ todo'[i] = todo[i - Len(p)]
      BY <1>5, <2>2, LenProperties
    <3>2. todo'[i].do \in Callbacks
      BY <3>1 DEF OnlyCallbacks
    <3> QED BY <3>2 DEF Removes, Closes, Callbacks
  <2> QED BY <2>1, <2>2
<1>7. 2 \in DOMAIN todo' /\ todo'[2].do = "removeConnection"
  BY <1>1, <1>2, <1>5
<1> QED BY <1>6, <1>7

(* handleClose, when nothing but callbacks is left to do.                   *)
LEMMA ClosedAlone ==
  ASSUME Types, Alone, NEW f \in Fds, Live(f), OnlyCallbacks,
         NEW after, after = <<>> \/ after = <<Do("close", f)>>, Closed(f, after),
         UNCHANGED <<channel, state, fd, connection, open, retries, overlapped>>
  PROVE  Alone'
<1> USE ConstantsAssumption
<1>1. SocketTypes /\ todo \in Seq(Steps) /\ f = connection /\ f # NoFd /\ state = "connected"
  BY TypeParts DEF Alone, ConnectionHeld, Live
<1>2. \A g \in Fds : conn'[g] = IF g = f THEN "down" ELSE conn[g]
  BY <1>1 DEF Closed, SocketTypes
<1>3. \A g \in Fds : ~Live(g)' /\ conn'[g] # "up"
  BY <1>1, <1>2 DEF Alone, ConnectionHeld, Live
<1>4. todo' = <<Do("onClose", f), Do("removeConnection", f)>> \o after \o todo
  BY DEF Closed
<1>5. Removal'
  <2>1. /\ 2 \in DOMAIN todo' /\ todo'[2].do = "removeConnection"
        /\ \A i \in DOMAIN todo' : /\ Removes(i)' => i = 2 /\ todo'[i].fd = f
                                   /\ Closes(i)' => i = 3
    BY <1>1, <1>4, ClosedSteps
  <2>2. RemovesHeld' /\ RemovesOnce'
    BY <1>1, <1>3, <2>1 DEF RemovesHeld, RemovesOnce
  <2>3. CloseFollows'
    BY <2>1 DEF CloseFollows, Removes
  <2> QED BY <2>2, <2>3 DEF Removal
<1>6. Attempt' /\ Connected' /\ RetryAlone'
  BY <1>1 DEF Alone, Attempt, Connected, RetryAlone, channel
<1>7. ConnIsOpen' /\ NoSocketLeak'
  <2>1. conn[f] # "none" /\ \A g \in Fds : conn'[g] = "none" <=> conn[g] = "none"
    BY <1>1, <1>2 DEF Live
  <2>2. \A g \in open : g \in Fds
    BY <1>1 DEF SocketTypes
  <2> QED BY <1>1, <2>1, <2>2 DEF Alone, ConnIsOpen, NoSocketLeak
<1>8. StoppedStaysStopped' /\ WatchedIsCurrent' /\ ConnectionHeld'
  BY <1>1, <1>3 DEF Alone, StoppedStaysStopped, WatchedIsCurrent, ConnectionHeld, channel
<1> QED BY <1>5, <1>6, <1>7, <1>8 DEF Alone

LEMMA ConnectionClosesKeeps ==
  ASSUME ConnectorInv, NEW f \in Fds, ConnectionCloses(f)
  PROVE  ConnectorInv'
<1>1. PICK after \in {<<>>, <<Do("close", f)>>} : Closed(f, after)
  BY DEF ConnectionCloses
<1>2. /\ todo = <<>> /\ Live(f)
      /\ UNCHANGED <<settings, client, channel, isStop, retryCur, state, fd, connection, open,
                     retries, timeouts, active, overlapped, stopped, fatal>>
  BY DEF ConnectionCloses
<1>3. conn' \in [Fds -> {"none", "up", "half", "down"}] /\ todo' \in Seq(Steps)
  BY <1>1, InvParts, ClosedTypes
<1>4. /\ SettingTypes' /\ ClientTypes' /\ FlagTypes' /\ SocketTypes' /\ StoppedInv'
  BY <1>2, <1>3, InvParts DEF SettingTypes, ClientTypes, FlagTypes, SocketTypes, StoppedInv,
                              settings, client, channel
<1>5. ASSUME ~overlapped' PROVE Alone'
  BY <1>1, <1>2, <1>5, InvParts, EmptyOnlyCallbacks, ClosedAlone
<1> QED BY <1>3, <1>4, <1>5, InvNext

-----------------------------------------------------------------------------
(* The calls, executed *)

(* Where calls are executed, from a callback or from the task queue, only   *)
(* callbacks are left to return from when no removal is.                    *)
FromCallback == todo # <<>> => Head(todo).do \in Callbacks

LEMMA OnlyCallbacksLeft ==
  ASSUME Types, Removal, FromCallback, \A i \in DOMAIN todo : ~Removes(i)
  PROVE  OnlyCallbacks
<1>1. todo \in Seq(Steps)
  BY TypeParts
<1>2. SUFFICES ASSUME NEW i \in DOMAIN todo PROVE todo[i].do \in Callbacks
  BY DEF OnlyCallbacks
<1>3. todo[i] \in Steps
  BY <1>1, ElementType
<1>4. todo[i].do \in Callbacks \/ Removes(i) \/ Closes(i)
  BY <1>3 DEF Steps, Removes, Closes
<1>5. ASSUME Closes(i) PROVE FALSE
  <2>1. i = 1
    BY <1>5 DEF Removal, CloseFollows, Removes
  <2>2. todo # <<>>
    BY <1>2, EmptyType
  <2>3. Head(todo) = todo[1]
    BY <1>1, <2>2, TailType
  <2> QED BY <1>5, <2>1, <2>2, <2>3 DEF FromCallback, Closes, Callbacks
<1> QED BY <1>4, <1>5

(* shutdownInLoop, forceCloseInLoop and stopInLoop. *)
LEMMA StopInLoopTypes ==
  ASSUME Types, NEW op \in StopOps, StopInLoop(op)
  PROVE  /\ state' \in {"disconnected", "connected"}
         /\ status' \in {"ready", "normal"} /\ reg' \subseteq Fds /\ open' \subseteq Fds
         /\ conn' \in [Fds -> {"none", "up", "half", "down"}] /\ todo' \in Seq(Steps)
<1> USE ConstantsAssumption
<1>1. SocketTypes /\ todo \in Seq(Steps)
  BY TypeParts
<1>2. CASE state = "connecting"
  <2>1. state' = "disconnected" /\ Unwatch /\ CloseFd /\ UNCHANGED <<conn, todo>>
    BY <1>2 DEF StopInLoop, CloseOnConnecting, CloseAttempt
  <2> QED BY <1>1, <2>1, UnwatchTypes DEF CloseFd, SocketTypes
<1>3. CASE state # "connecting"
  <2>1. UNCHANGED <<state, channel, open>>
    BY <1>3 DEF StopInLoop
  <2>2. conn' \in [Fds -> {"none", "up", "half", "down"}] /\ todo' \in Seq(Steps)
    <3>1. CASE UNCHANGED <<conn, todo>>
      BY <1>1, <3>1 DEF SocketTypes
    <3>2. CASE /\ conn' = [conn EXCEPT ![connection] = "half"]
               /\ todo' = todo
      BY <1>1, <3>2 DEF SocketTypes
    <3>3. CASE /\ Live(connection)
               /\ \/ Closed(connection, <<>>)
                  \/ Closed(connection, <<Do("close", connection)>>)
      <4>1. connection \in Fds
        BY <1>1, <3>3 DEF Live, SocketTypes
      <4> QED BY <3>3, <4>1, ClosedTypes
    <3> QED BY <1>3, <3>1, <3>2, <3>3 DEF StopInLoop, EndConnection, StopOps
  <2> QED BY <1>1, <1>3, <2>1, <2>2 DEF SocketTypes, channel
<1> QED BY <1>2, <1>3

LEMMA StopInLoopAlone ==
  ASSUME Types, Alone, FromCallback, NEW op \in StopOps, StopInLoop(op), Types'
  PROVE  Alone'
<1> USE ConstantsAssumption
<1>1. /\ SocketTypes /\ todo \in Seq(Steps)
      /\ isStop' = TRUE /\ stopped' = TRUE
      /\ UNCHANGED <<retryCur, fd, connection, retries, timeouts, overlapped, fatal>>
  BY TypeParts DEF StopInLoop
<1>2. CASE state = "connecting"
  <2>1. state' = "disconnected" /\ Unwatch /\ CloseFd /\ UNCHANGED <<conn, todo>>
    BY <1>2 DEF StopInLoop, CloseOnConnecting, CloseAttempt
  <2>2. retries' \in 0..1 /\ OnlyCallbacks'
    BY <1>1, <1>2, <2>1, ConnectingIsAlone, SameSteps
  <2> QED BY <1>1, <1>2, <2>1, <2>2, EndAlone
<1>3. CASE state # "connecting" /\ ~(state = "connected" /\ connection # NoFd)
  <2>1. UNCHANGED <<state, channel, open, conn, todo>>
    BY <1>3 DEF StopInLoop
  <2>2. state # "connected"
    BY <1>3 DEF Alone, Connected
  <2>3. StoppedStaysStopped'
    BY <1>3, <2>1, <2>2, NothingLive DEF StoppedStaysStopped
  <2> QED BY <1>1, <2>1, <2>3, SameSteps, ApartAlone DEF Alone
<1>4. CASE state = "connected" /\ connection # NoFd
  <2>1. EndConnection(op) /\ UNCHANGED <<state, channel, open>> /\ connection \in Fds
    BY <1>1, <1>4 DEF StopInLoop, SocketTypes
  <2>2. CASE op # "shutdown" /\ Live(connection)
    <3>1. Closed(connection, <<>>) \/ Closed(connection, <<Do("close", connection)>>)
      BY <2>1, <2>2 DEF EndConnection, StopOps
    <3>2. OnlyCallbacks
      BY <2>2, OnlyCallbacksLeft DEF Alone, Removal, RemovesHeld
    <3> QED BY <1>1, <2>1, <2>2, <3>1, <3>2, ClosedAlone
  <2>3. CASE op # "shutdown" /\ ~Live(connection)
    <3>1. UNCHANGED <<conn, todo>>
      BY <2>1, <2>3 DEF EndConnection, StopOps
    <3>2. \A f \in Fds : ~Live(f) /\ conn[f] # "up"
      BY <2>3 DEF Alone, ConnectionHeld, Live
    <3>3. StoppedStaysStopped'
      BY <1>4, <2>1, <3>1, <3>2 DEF StoppedStaysStopped
    <3> QED BY <1>1, <2>1, <3>1, <3>3, SameSteps, ApartAlone DEF Alone
  <2>4. CASE op = "shutdown"
    <3>1. /\ conn' = IF conn[connection] = "up" THEN [conn EXCEPT ![connection] = "half"] ELSE conn
          /\ todo' = todo
      BY <2>1, <2>4 DEF EndConnection
    <3>2. \A g \in Fds : conn'[g] = IF g = connection /\ conn[g] = "up" THEN "half" ELSE conn[g]
      BY <1>1, <2>1, <3>1 DEF SocketTypes
    <3>3. \A g \in Fds \union {NoFd} : Live(g)' <=> Live(g)
      BY <3>2 DEF Live
    <3>4. \A g \in Fds : /\ conn'[g] # "up"
                         /\ conn'[g] = "none" <=> conn[g] = "none"
      BY <1>4, <3>2 DEF Alone, ConnectionHeld, Live
    <3>5. Attempt' /\ Connected' /\ RetryAlone'
      BY <1>1, <1>4, <2>1, <3>1 DEF Alone, Attempt, Connected, RetryAlone, channel
    <3>6. ConnIsOpen' /\ NoSocketLeak'
      <4>1. \A g \in open : g \in Fds
        BY <1>1 DEF SocketTypes
      <4> QED BY <1>1, <2>1, <3>4, <4>1 DEF Alone, ConnIsOpen, NoSocketLeak
    <3>7. Removal'
      BY <1>1, <2>1, <3>1, <3>3
         DEF Alone, Removal, RemovesHeld, RemovesOnce, CloseFollows, Removes, Closes
    <3>8. WatchedIsCurrent' /\ ConnectionHeld' /\ StoppedStaysStopped'
      BY <1>1, <1>4, <2>1, <3>3, <3>4
         DEF Alone, WatchedIsCurrent, ConnectionHeld, StoppedStaysStopped, channel
    <3> QED BY <1>1, <3>5, <3>6, <3>7, <3>8 DEF Alone
  <2> QED BY <2>2, <2>3, <2>4
<1> QED BY <1>2, <1>3, <1>4

LEMMA StopInLoopKeeps ==
  ASSUME ConnectorInv, FromCallback, NEW op \in StopOps, StopInLoop(op), ClientTypes',
         active' \in BOOLEAN, UNCHANGED settings
  PROVE  ConnectorInv'
<1>1. /\ isStop' = TRUE /\ stopped' = TRUE
      /\ UNCHANGED <<retryCur, fd, connection, retries, timeouts, overlapped, fatal>>
  BY DEF StopInLoop
<1>2. /\ state' \in {"disconnected", "connected"}
      /\ status' \in {"ready", "normal"} /\ reg' \subseteq Fds /\ open' \subseteq Fds
      /\ conn' \in [Fds -> {"none", "up", "half", "down"}] /\ todo' \in Seq(Steps)
  BY InvParts, StopInLoopTypes
<1>3. SettingTypes' /\ FlagTypes' /\ SocketTypes' /\ StoppedInv'
  BY <1>1, <1>2, InvParts DEF SettingTypes, FlagTypes, SocketTypes, StoppedInv, settings
<1>4. ASSUME ~overlapped' PROVE Alone'
  BY <1>1, <1>2, <1>3, <1>4, InvParts, TypePartsNext, StopInLoopAlone
<1> QED BY <1>2, <1>3, <1>4, InvNext

(* connect: it overlaps with what is left of an earlier one, or there is    *)
(* nothing of it.                                                           *)
LEMMA ConnectKeeps ==
  ASSUME ConnectorInv, FromCallback, Connect, ClientTypes', active' \in BOOLEAN,
         UNCHANGED <<settings, todo>>
  PROVE  ConnectorInv'
<1>1. /\ Doconnect(retryCount, retries) /\ isStop' = FALSE /\ stopped' = FALSE
      /\ UNCHANGED <<connection, conn>>
  BY DEF Connect
<1>2. overlapped' \in BOOLEAN /\ (~overlapped' => ~overlapped /\ ~Overlaps)
  <2>1. overlapped' = (overlapped \/ Overlaps)
    BY DEF Connect
  <2> QED BY <2>1, Zenon
<1>3. timeouts' \in Nat /\ retries \in Nat /\ retryCount \in -1..retryCount
  <2>1. timeouts' = timeouts + 1 \/ timeouts' = timeouts
    BY DEF Connect
  <2>2. SettingTypes /\ FlagTypes
    BY InvParts
  <2>3. retryCount \in Nat \union {-1}
    BY <2>2, ConstantsAssumption DEF SettingTypes
  <2> QED BY <2>1, <2>2, <2>3 DEF FlagTypes
<1>4. /\ retries' \in Nat /\ retryCur' \in -1..retryCount /\ fatal' \in BOOLEAN
      /\ state' \in {"disconnected", "connecting"} /\ fd' \in Fds
      /\ status' \in {"ready", "normal"} /\ reg' \subseteq Fds /\ open' \subseteq Fds
  BY <1>1, <1>3, InvParts, DoconnectTypes
<1>5. /\ SettingTypes' /\ FlagTypes' /\ SocketTypes' /\ StoppedInv' /\ todo' \in Seq(Steps)
  BY <1>1, <1>2, <1>3, <1>4, InvParts DEF SettingTypes, FlagTypes, SocketTypes, StoppedInv, settings
<1>6. ASSUME ~overlapped' PROVE Alone'
  <2>1. /\ Types /\ Alone /\ Types' /\ ~(retries > 0) /\ state = "disconnected"
        /\ connection = NoFd
    BY <1>2, <1>5, <1>6, InvParts, TypePartsNext DEF Overlaps
  <2>2. Doconnect(retryCount, 0)
    BY <1>1, <1>3, <2>1
  <2>3. OnlyCallbacks
    BY <2>1, OnlyCallbacksLeft DEF Alone, Removal, RemovesHeld
  <2> QED BY <1>1, <1>3, <1>5, <1>6, <2>1, <2>2, <2>3, DoconnectAlone
<1> QED BY <1>5, <1>6, InvNext

LEMMA InLoopKeeps ==
  ASSUME ConnectorInv, FromCallback, NEW op \in CallOps, InLoop(op), ClientTypes',
         active' \in BOOLEAN, UNCHANGED settings
  PROVE  ConnectorInv'
<1>1. CASE op = "connect"
  BY <1>1, ConnectKeeps DEF InLoop
<1>2. CASE op \in StopOps
  BY <1>2, StopInLoopKeeps DEF InLoop, StopOps
<1> QED BY <1>1, <1>2 DEF CallOps

-----------------------------------------------------------------------------
(* The calls, made *)

LEMMA MayCallTypes ==
  ASSUME ConnectorInv, NEW op \in CallOps, MayCall(op),
         started' = IF op = "stop" THEN started ELSE op = "connect"
  PROVE  started' \in BOOLEAN /\ gone' \in BOOLEAN /\ calls' \in 0..MaxCalls
<1>1. calls \in 0..MaxCalls /\ calls < MaxCalls /\ calls' = calls + 1
  BY InvParts DEF MayCall, ClientTypes
<1>2. gone' \in BOOLEAN
  BY Zenon DEF MayCall
<1>3. started' \in BOOLEAN
  <2>1. started \in BOOLEAN
    BY InvParts DEF ClientTypes
  <2> QED BY <2>1, Zenon
<1> QED BY <1>1, <1>2, <1>3, ConstantsAssumption

LEMMA OwnerCallsKeeps ==
  ASSUME ConnectorInv, NEW op \in CallOps, OwnerCalls(op)
  PROVE  ConnectorInv'
<1>1. /\ FromCallback /\ MayCall(op) /\ InLoop(op) /\ UNCHANGED <<settings, tasks, call, active>>
      /\ started' = IF op = "stop" THEN started ELSE op = "connect"
  BY DEF OwnerCalls, FromCallback
<1>2. ClientTypes' /\ active' \in BOOLEAN
  BY <1>1, InvParts, MayCallTypes DEF ClientTypes, FlagTypes
<1> QED BY <1>1, <1>2, InLoopKeeps

LEMMA RunTaskKeeps == ConnectorInv /\ RunTask => ConnectorInv'
<1> SUFFICES ASSUME ConnectorInv, RunTask PROVE ConnectorInv'
  OBVIOUS
<1>1. /\ todo = <<>> /\ tasks # <<>> /\ InLoop(Head(tasks)) /\ tasks' = Tail(tasks)
      /\ UNCHANGED <<settings, started, call, gone, calls, active>>
  BY DEF RunTask
<1>2. tasks' \in Seq(CallOps) /\ Head(tasks) \in CallOps
  BY <1>1, InvParts, TailType DEF ClientTypes
<1>3. ClientTypes' /\ active' \in BOOLEAN /\ FromCallback
  BY <1>1, <1>2, InvParts DEF ClientTypes, FlagTypes, FromCallback
<1> QED BY <1>1, <1>2, <1>3, InLoopKeeps

(* A call of another thread is made, on its way or queued: the loop has not *)
(* seen it yet.                                                             *)
LEMMA UnseenKeeps ==
  ASSUME ConnectorInv, ClientTypes', isStop' \in BOOLEAN, isStop => isStop',
         UNCHANGED <<settings, channel, retryCur, state, fd, connection, open, conn, retries,
                     timeouts, active, todo, overlapped, stopped, fatal>>
  PROVE  ConnectorInv'
<1>1. /\ SettingTypes' /\ FlagTypes' /\ SocketTypes' /\ StoppedInv' /\ todo' \in Seq(Steps)
  BY InvParts DEF SettingTypes, FlagTypes, SocketTypes, StoppedInv, settings, channel
<1>2. ASSUME ~overlapped' PROVE Alone'
  <2>1. Alone
    BY <1>2, InvParts
  <2> QED BY <2>1, SameSteps, SameStopped, ApartAlone DEF Alone
<1> QED BY <1>1, <1>2, InvNext

LEMMA BeginCallKeeps ==
  ASSUME ConnectorInv, NEW c \in Threads, NEW op \in CallOps, BeginCall(c, op)
  PROVE  ConnectorInv'
<1>1. /\ MayCall(op)
      /\ started' = IF op = "stop" THEN started ELSE op = "connect"
      /\ call' = [call EXCEPT ![c] = [op |-> op, at |-> IF op = "connect" THEN "queue" ELSE "flag"]]
      /\ UNCHANGED <<settings, tasks, channel, isStop, retryCur, state, fd, connection, open, conn,
                     retries, timeouts, active, todo, overlapped, stopped, fatal>>
  BY DEF BeginCall
<1>2. ClientTypes' /\ isStop' \in BOOLEAN
  BY <1>1, InvParts, MayCallTypes DEF ClientTypes, FlagTypes
<1> QED BY <1>1, <1>2, UnseenKeeps

LEMMA FinishKeeps ==
  ASSUME ConnectorInv, NEW c \in Threads, Finish(c)
  PROVE  ConnectorInv'
<1>1. CASE SetsIsStop(c)
  <2>1. /\ isStop' = TRUE /\ call' = [call EXCEPT ![c].at = "queue"]
        /\ UNCHANGED <<settings, started, tasks, gone, calls, channel, retryCur, state, fd, connection,
                       open, conn, retries, timeouts, active, todo, overlapped, stopped, fatal>>
    BY <1>1 DEF SetsIsStop
  <2>2. ClientTypes'
    BY <2>1, InvParts DEF ClientTypes
  <2> QED BY <2>1, <2>2, UnseenKeeps
<1>2. CASE QueuesCall(c)
  <2>1. /\ tasks' = Append(tasks, call[c].op) /\ call' = [call EXCEPT ![c] = NoCall]
        /\ UNCHANGED <<settings, started, gone, calls, channel, isStop, retryCur, state, fd, connection,
                       open, conn, retries, timeouts, active, todo, overlapped, stopped, fatal>>
    BY <1>2 DEF QueuesCall
  <2>2. tasks' \in Seq(CallOps)
    BY <2>1, InvParts, AppendProperties DEF ClientTypes
  <2>3. ClientTypes' /\ isStop' \in BOOLEAN
    BY <2>1, <2>2, InvParts DEF ClientTypes, FlagTypes, NoCall, CallOps
  <2> QED BY <2>1, <2>3, UnseenKeeps
<1> QED BY <1>1, <1>2 DEF Finish

LEMMA StutterKeeps == ConnectorInv /\ UNCHANGED vars => ConnectorInv'
<1> SUFFICES ASSUME ConnectorInv, UNCHANGED vars PROVE ConnectorInv'
  OBVIOUS
<1>1. ClientTypes' /\ isStop' \in BOOLEAN
  BY InvParts DEF ClientTypes, FlagTypes, vars, client
<1> QED BY <1>1, UnseenKeeps DEF vars

-----------------------------------------------------------------------------
(* The theorems *)

LEMMA StepKeeps == ConnectorInv /\ [Next]_vars => ConnectorInv'
<1> SUFFICES ASSUME ConnectorInv, [Next]_vars PROVE ConnectorInv'
  OBVIOUS
<1>1. CASE RetryFires \/ TimeoutFires \/ PollReturns \/ HandleEvent
  BY <1>1, RetryFiresKeeps, TimeoutFiresKeeps, PollKeeps, AttemptFailsKeeps,
     AttemptSucceedsKeeps DEF HandleEvent
<1>2. CASE Continue \/ RunTask
  BY <1>2, RemoveConnectionKeeps, CloseConnectionKeeps, CallbackReturnsKeeps,
     RunTaskKeeps DEF Continue
<1>3. CASE \E f \in Fds : ConnectionCloses(f) \/ Destroy(f)
  BY <1>3, ConnectionClosesKeeps, DestroyKeeps
<1>4. CASE \E op \in CallOps : OwnerCalls(op)
  BY <1>4, OwnerCallsKeeps
<1>5. CASE \E c \in Threads : (\E op \in CallOps : BeginCall(c, op)) \/ Finish(c)
  BY <1>5, BeginCallKeeps, FinishKeeps
<1>6. CASE Idle \/ UNCHANGED vars
  BY <1>6, StutterKeeps DEF Idle
<1> QED BY <1>1, <1>2, <1>3, <1>4, <1>5, <1>6 DEF Next

LEMMA ConnectorInvariant == Spec => []ConnectorInv
BY InitInv, StepKeeps, PTL DEF Spec

(* The members of TcpClient and Connector, and what its loop has to do,     *)
(* have their types, however attempts overlap: the retries that are left    *)
(* are never fewer than none unless there is no limit.                      *)
THEOREM TypeCorrect == Spec => []TypeOK
<1>1. ConnectorInv => TypeOK
  BY DEF ConnectorInv, Types
<1> QED BY <1>1, ConnectorInvariant, PTL

(* As long as no connect has begun while an earlier attempt, retry or       *)
(* connection was still there: retries, timeouts and stops, from any        *)
(* thread, close the socket of the attempt that they end. Without the       *)
(* hypothesis the code leaks one (StopClosesAttempts).                      *)
THEOREM SocketsNotLeaked == Spec => []NoSocketLeak
<1>1. ConnectorInv => NoSocketLeak
  BY DEF ConnectorInv, Alone, NoSocketLeak
<1> QED BY <1>1, ConnectorInvariant, PTL

(* Under the same hypothesis the poller watches the descriptor of the       *)
(* attempt that is under way, and never one that Connector has closed.      *)
THEOREM OnlyCurrentWatched == Spec => []WatchedIsCurrent
<1>1. ConnectorInv => WatchedIsCurrent
  BY DEF ConnectorInv, Alone, WatchedIsCurrent
<1> QED BY <1>1, ConnectorInvariant, PTL

(* Under the same hypothesis a connection that lives is the one its         *)
(* Connector holds: the assertion of ~TcpConnection is kept whatever        *)
(* handlers and calls come between. Without it the code breaks the          *)
(* assertion (NeverLetGo).                                                  *)
THEOREM LiveIsHeld == Spec => []ConnectionHeld
<1>1. ConnectorInv => ConnectionHeld
  BY DEF ConnectorInv, Alone, ConnectionHeld
<1> QED BY <1>1, ConnectorInvariant, PTL

(* After a stop that the loop has carried out, or a timeout, nothing that   *)
(* is still to come starts an attempt until connect is called again, with   *)
(* or without overlapping attempts; under the hypothesis above nothing      *)
(* brings a connection up either. Of a stop that a connect of another       *)
(* thread, queued before it, overtakes nothing is claimed (LastStopWins).   *)
THEOREM NoneAfterStop == Spec => []StoppedStaysStopped
<1>1. ConnectorInv => StoppedStaysStopped
  BY DEF ConnectorInv, StoppedInv, Alone, StoppedStaysStopped
<1> QED BY <1>1, ConnectorInvariant, PTL
==============================================================================
