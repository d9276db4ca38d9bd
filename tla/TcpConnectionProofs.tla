------------------------- MODULE TcpConnectionProofs -------------------------
(***************************************************************************)
(* Proofs about TcpConnection for any sizes of the data, of the kernel's   *)
(* buffer and of the high water mark, and any number of calls: nothing     *)
(* sent is skipped or reordered, buffered data is watched for and goes out *)
(* before the half-close, and a closed connection leaves the poller and    *)
(* delivers nothing more.                                                  *)
(***************************************************************************)
EXTENDS TcpConnection, SequenceTheorems, TLAPS

-----------------------------------------------------------------------------
(* The inductive invariant, first of the connection, its channel and its    *)
(* socket ...                                                               *)

DataTypes == /\ state \in {"connecting", "connected", "disconnecting", "disconnected"}
             /\ events \subseteq {"R", "W"} /\ status \in {"ready", "normal", "removed"}
             /\ isRead \in BOOLEAN /\ isWrite \in BOOLEAN /\ fdOpen \in BOOLEAN
             /\ wrShut \in BOOLEAN /\ high \in BOOLEAN /\ late \in BOOLEAN
             /\ sent \in Nat /\ outputBuf \in Seq(1..sent) /\ wire \in Seq(1..sent)
             /\ inFlight \in 0..SndBuf /\ PeerOK

(* Before onConnection nothing was sent, and nothing is known of the peer.  *)
Fresh == state = "connecting" => /\ outputBuf = <<>> /\ ~wrShut
                                 /\ peer = [data |-> FALSE, fin |-> FALSE, rst |-> "no"]

(* The bytes on the wire are those sent first; those in the buffer follow,  *)
(* up to the last, as long as neither side has broken the stream.           *)
OnWire == \A i \in 1..Len(wire) : wire[i] = i
Buffered == (state # "disconnected" /\ ~Broken) =>
                /\ Len(wire) + Len(outputBuf) = sent
                /\ \A i \in 1..Len(outputBuf) : outputBuf[i] = Len(wire) + i

(* Write events are watched exactly while there is something to write.      *)
WatchedIfBuffered == (state # "disconnected" /\ ~manual) =>
                         (("W" \in events) <=> (outputBuf # <<>>))
StatusOfEvents == events # {} => status = "normal"

(* shutdown sends everything first: no half-close with data in the buffer.  *)
HalfCloseAfterDrain == (wrShut /\ ~manual) => outputBuf = <<>>
HalfClosed == wrShut => state \in {"disconnecting", "disconnected"}
ClosesCounted == closes = IF state = "disconnected" THEN 1 ELSE 0
FdClosed == ~fdOpen => state = "disconnected" /\ status = "ready"

DataInv == /\ DataTypes /\ Fresh /\ OnWire /\ Buffered /\ WatchedIfBuffered /\ StatusOfEvents
           /\ HalfClosed /\ HalfCloseAfterDrain /\ ClosesCounted /\ FdClosed

(* ... then of what the owner's thread is in the middle of ...              *)
StepNames == Callbacks \union {"hup", "err", "read", "write", "remove", "close"}

(* The channel is removed once handleClose has set the state, and the       *)
(* descriptor is closed right after.                                        *)
Removing == \A i \in DOMAIN todo : todo[i] \in {"remove", "close"} => state = "disconnected"
CloseFollows == \A i \in DOMAIN todo :
                    todo[i] = "close" => \/ i = 1 /\ status = "ready"
                                         \/ i > 1 /\ todo[i - 1] = "remove"
NoHupYet == state = "connecting" => ~Due("hup")
Unwatched == (state = "disconnected" /\ ~late) =>
                 Due("remove") \/ (status = "ready" /\ events = {})

TodoInv == todo \in Seq(StepNames) /\ Removing /\ CloseFollows /\ NoHupYet /\ Unwatched

(* ... and of its tasks: onConnection first, and once.                      *)
TaskOps == {"sendOutputBuf", "shutdown", "forceClose", "enableRead", "disableRead", "enableWrite",
            "disableWrite", "onConnection", "onWriteComplete", "onHighWaterMark", "tie"}
TaskRecs == [op : TaskOps] \union [op : {"send"}, len : Lens]

OnConnectionFirst ==
    /\ state = "connecting" => tasks = <<Task("onConnection")>>
    /\ \A i \in DOMAIN tasks : tasks[i].op = "onConnection" => i = 1 /\ state = "connecting"
ManualTasks == \A i \in DOMAIN tasks : tasks[i].op \in {"enableWrite", "disableWrite"} => manual

TasksInv == tasks \in Seq(TaskRecs) /\ OnConnectionFirst /\ ManualTasks

CallsCounted == calls \in 0..MaxCalls /\ timers \in 0..calls /\ manual \in BOOLEAN

ConnectionInv == DataInv /\ TodoInv /\ TasksInv /\ CallsCounted

-----------------------------------------------------------------------------
(* Sequences, and what a write takes of one *)

LEMMA DropAndTake ==
  ASSUME NEW S, NEW s \in Seq(S), NEW n \in -2..Len(s)
  PROVE  /\ Len(s) \in Nat /\ Taken(n) \in 0..Len(s)
         /\ SubSeq(s, 1, Taken(n)) \in Seq(S) /\ Len(SubSeq(s, 1, Taken(n))) = Taken(n)
         /\ \A i \in 1..Taken(n) : SubSeq(s, 1, Taken(n))[i] = s[i]
         /\ Drop(s, n) \in Seq(S) /\ Len(Drop(s, n)) = Len(s) - Taken(n)
         /\ \A i \in 1..(Len(s) - Taken(n)) : Drop(s, n)[i] = s[i + Taken(n)]
<1> DEFINE k == Taken(n)
<1>1. Len(s) \in Nat /\ \A i \in 1..Len(s) : s[i] \in S
  BY LenProperties, ElementOfSeq
<1>2. k \in 0..Len(s)
  BY <1>1 DEF Taken
<1> HIDE DEF k
<1>3. /\ SubSeq(s, 1, k) \in Seq(S) /\ Len(SubSeq(s, 1, k)) = k
      /\ \A i \in 1..k : SubSeq(s, 1, k)[i] = s[i]
  BY <1>1, <1>2, SubSeqProperties
<1>4. /\ SubSeq(s, k + 1, Len(s)) \in Seq(S)
      /\ Len(SubSeq(s, k + 1, Len(s))) = Len(s) - k
      /\ \A i \in 1..(Len(s) - k) : SubSeq(s, k + 1, Len(s))[i] = s[i + k]
  <2>1. \A i \in (k + 1)..Len(s) : s[i] \in S
    BY <1>1, <1>2
  <2>2. k + 1 \in Int /\ Len(s) \in Int
    BY <1>1, <1>2
  <2> QED BY <1>2, <2>1, <2>2, SubSeqProperties
<1> QED BY <1>1, <1>2, <1>3, <1>4 DEF Drop, k

LEMMA ConcatType ==
  ASSUME NEW S, NEW s \in Seq(S), NEW t \in Seq(S)
  PROVE  /\ s \o t \in Seq(S) /\ Len(s) \in Nat /\ Len(t) \in Nat
         /\ Len(s \o t) = Len(s) + Len(t) /\ DOMAIN (s \o t) = 1..(Len(s) + Len(t))
         /\ \A i \in 1..(Len(s) + Len(t)) :
                (s \o t)[i] = IF i <= Len(s) THEN s[i] ELSE t[i - Len(s)]
BY ConcatProperties, LenProperties

(* The same two facts with their conclusions named, so that a step cites    *)
(* them whole and takes them apart afterwards.                              *)
IsTake(S, s, k, p) == p \in Seq(S) /\ Len(p) = k /\ \A i \in 1..k : p[i] = s[i]
IsRest(S, s, k, d) == /\ d \in Seq(S) /\ Len(d) = Len(s) - k
                      /\ \A i \in 1..(Len(s) - k) : d[i] = s[i + k]
IsConcat(S, s, t, u) == /\ u \in Seq(S) /\ Len(s) \in Nat /\ Len(t) \in Nat
                        /\ Len(u) = Len(s) + Len(t)
                        /\ \A i \in 1..(Len(s) + Len(t)) :
                               u[i] = IF i <= Len(s) THEN s[i] ELSE t[i - Len(s)]

LEMMA Splits ==
  ASSUME NEW S, NEW s \in Seq(S), NEW n \in -2..Len(s)
  PROVE  IsTake(S, s, Taken(n), SubSeq(s, 1, Taken(n))) /\ IsRest(S, s, Taken(n), Drop(s, n))
BY DropAndTake DEF IsTake, IsRest

LEMMA Joins ==
  ASSUME NEW S, NEW s \in Seq(S), NEW t \in Seq(S)
  PROVE  IsConcat(S, s, t, s \o t)
BY ConcatType DEF IsConcat

LEMMA WriteResult ==
  ASSUME inFlight \in 0..SndBuf, NEW len \in Nat, NEW n \in WriteResults(len)
  PROVE  /\ n \in -2..len /\ (n = -2 <=> Broken)
         /\ n > 0 => inFlight + n <= SndBuf
         /\ n = 0 => len = 0
         /\ (len = 0 /\ ~Broken) => n = 0
<1>1. inFlight \in Int /\ SndBuf \in Int
  BY ConstantsAssumption
<1>2. CASE Broken
  BY <1>2 DEF WriteResults
<1>3. CASE ~Broken /\ len = 0
  BY <1>3 DEF WriteResults
<1>4. CASE ~Broken /\ len > 0 /\ Free = 0
  BY <1>4 DEF WriteResults
<1>5. CASE ~Broken /\ len > 0 /\ Free # 0
  <2>1. WriteResults(len) = {k \in 1..len : k <= Free}
    BY <1>5 DEF WriteResults
  <2>2. n \in 1..len /\ n <= SndBuf - inFlight
    BY <2>1 DEF Free
  <2> QED BY <1>1, <1>5, <2>2
<1> QED BY <1>2, <1>3, <1>4, <1>5

(* What a write leaves of the wire, the kernel's buffer and the peer, when  *)
(* the data starts where the wire ends.                                     *)
LEMMA WroteData ==
  ASSUME DataInv, NEW m \in Nat, sent <= m, NEW data \in Seq(1..m),
         NEW n, n = -1 \/ n \in WriteResults(Len(data)), Wrote(data, n),
         n > 0 => \A i \in 1..Len(data) : data[i] = Len(wire) + i
  PROVE  /\ n \in -2..Len(data)
         /\ wire' \in Seq(1..m) /\ Len(wire') = Len(wire) + Taken(n) /\ OnWire'
         /\ inFlight' \in 0..SndBuf /\ PeerOK'
         /\ peer'.rst = "no" <=> peer.rst = "no"
         /\ n # -2 => peer' = peer
         /\ n > 0 => ~Broken
<1> USE ConstantsAssumption
<1>1. /\ Len(data) \in Nat /\ inFlight \in 0..SndBuf /\ wire \in Seq(1..sent) /\ sent \in Nat
      /\ PeerOK
  BY LenProperties DEF DataInv, DataTypes
<1>2. n \in -2..Len(data) /\ (n > 0 => inFlight + n <= SndBuf /\ ~Broken)
  BY <1>1, WriteResult
<1>3. Taken(n) \in 0..Len(data) /\ (Taken(n) > 0 => Taken(n) = n)
  BY <1>1, <1>2 DEF Taken
<1> DEFINE part == SubSeq(data, 1, Taken(n))
<1>4. /\ part \in Seq(1..m) /\ Len(part) = Taken(n)
      /\ \A i \in 1..Taken(n) : part[i] = data[i]
  <2>1. IsTake(1..m, data, Taken(n), part)
    BY Zenon, <1>2, Splits
  <2> QED BY <2>1 DEF IsTake
<1> HIDE DEF part
<1>5. wire \in Seq(1..m)
  <2>1. 1..sent \subseteq 1..m
    BY <1>1
  <2> QED BY <1>1, <2>1, SeqMonotonic
<1>6. wire' = wire \o part
  BY DEF Wrote, part
<1>7. /\ wire' \in Seq(1..m) /\ Len(wire) \in Nat /\ Len(wire') = Len(wire) + Taken(n)
      /\ \A i \in 1..(Len(wire) + Len(part)) :
             wire'[i] = IF i <= Len(wire) THEN wire[i] ELSE part[i - Len(wire)]
  <2>1. IsConcat(1..m, wire, part, wire')
    BY Zenon, <1>4, <1>5, <1>6, Joins
  <2> QED BY <1>4, <2>1 DEF IsConcat
<1>8. OnWire'
  <2> SUFFICES ASSUME NEW i \in 1..Len(wire') PROVE wire'[i] = i
    BY DEF OnWire
  <2>0. i \in 1..(Len(wire) + Len(part)) /\ i \in Nat /\ i >= 1
    BY <1>1, <1>3, <1>4, <1>7
  <2>1. CASE i <= Len(wire)
    <3>1. wire'[i] = wire[i] /\ i \in 1..Len(wire)
      BY <1>7, <2>0, <2>1
    <3> QED BY <3>1 DEF DataInv, OnWire
  <2>2. CASE ~(i <= Len(wire))
    <3> DEFINE k == i - Len(wire)
    <3>0. /\ Len(wire) \in Nat /\ Taken(n) \in 0..Len(data) /\ Len(data) \in Nat
          /\ i \in 1..(Len(wire) + Taken(n))
      BY <1>1, <1>3, <1>4, <1>7, <2>0
    <3>1. k \in 1..Taken(n) /\ Taken(n) > 0 /\ k \in 1..Len(data) /\ i = Len(wire) + k
      BY <2>2, <3>0
    <3>2. wire'[i] = part[k]
      BY <1>7, <2>0, <2>2
    <3> HIDE DEF k
    <3>3. part[k] = data[k]
      BY <1>4, <3>1
    <3>4. n > 0
      BY <1>3, <3>1
    <3>5. data[k] = Len(wire) + k
      BY <3>1, <3>4
    <3> QED BY <3>1, <3>2, <3>3, <3>5
  <2> QED BY <2>1, <2>2
<1>9. inFlight' \in 0..SndBuf
  BY <1>1, <1>2, <1>3 DEF Wrote, Taken
<1>10. /\ PeerOK' /\ (peer'.rst = "no" <=> peer.rst = "no") /\ (n # -2 => peer' = peer)
  <2>1. CASE n = -2 /\ peer.rst = "pending"
    <3>1. peer' = [peer EXCEPT !.rst = "taken"]
      BY <2>1 DEF Wrote
    <3>2. PeerOK' /\ peer'.rst = "taken"
      BY <1>1, <3>1 DEF PeerOK
    <3> QED BY <2>1, <3>2
  <2>2. CASE ~(n = -2 /\ peer.rst = "pending")
    <3>1. peer' = peer
      BY <2>2 DEF Wrote
    <3> QED BY <1>1, <3>1 DEF PeerOK
  <2> QED BY <2>1, <2>2
<1> QED BY <1>2, <1>7, <1>8, <1>9, <1>10

-----------------------------------------------------------------------------
(* The handlers, and the connection, its channel and its socket *)

LEMMA NothingChanged ==
  ASSUME DataInv, UNCHANGED <<conn, sock, ghosts, sent>>, manual => manual'
  PROVE  DataInv'
<1> USE DEF DataInv, conn, sock, ghosts
<1>1. DataTypes' /\ Fresh' /\ OnWire' /\ StatusOfEvents'
  BY DEF DataTypes, PeerOK, Fresh, OnWire, StatusOfEvents
<1>2. Buffered' /\ WatchedIfBuffered'
  BY DEF Buffered, Broken, WatchedIfBuffered
<1>3. HalfClosed' /\ HalfCloseAfterDrain' /\ ClosesCounted' /\ FdClosed'
  BY DEF HalfClosed, HalfCloseAfterDrain, ClosesCounted, FdClosed
<1> QED BY <1>1, <1>2, <1>3

LEMMA WatchedEvents ==
  ASSUME NEW ev \in SUBSET {"R", "W"}, Watch(ev)
  PROVE  /\ events' = ev /\ status' \in {"normal", "removed"}
         /\ StatusOfEvents'
BY DEF Watch, StatusOfEvents

LEMMA SendKeepsData ==
  ASSUME DataInv, state # "connecting", NEW len \in Nat \ {0}, NEW rest, NEW queue,
         SendInLoop(len, rest, queue), manual => manual'
  PROVE  DataInv'
<1> USE DEF ghosts
<1>1. CASE state = "disconnected"
  <2>1. UNCHANGED <<conn, sock, ghosts, sent>>
    BY <1>1 DEF SendInLoop
  <2> QED BY <2>1, NothingChanged
<1>2. CASE state # "disconnected"
  <2> DEFINE data == [i \in 1..len |-> sent + i]
  <2>1. PICK n \in IF WritesDirectly THEN WriteResults(len) ELSE {-1} :
           /\ sent' = sent + len
           /\ Wrote(data, n)
           /\ IF n = -2 \/ Drop(data, n) = <<>> THEN UNCHANGED <<outputBuf, events, status>>
                                                ELSE Keep(Drop(data, n))
           /\ UNCHANGED <<state, isRead, isWrite, fdOpen, wrShut, closes, high, late>>
    BY <1>2 DEF SendInLoop
  <2>2. /\ sent \in Nat /\ sent' \in Nat /\ sent <= sent' /\ outputBuf \in Seq(1..sent)
        /\ inFlight \in 0..SndBuf /\ events \subseteq {"R", "W"}
        /\ status \in {"ready", "normal", "removed"}
    BY <2>1 DEF DataInv, DataTypes
  <2>3. /\ data \in Seq(1..sent') /\ Len(data) = len
        /\ \A i \in 1..len : data[i] = sent + i
    <3>1. \A i \in 1..len : sent + i \in 1..sent'
      BY <2>1, <2>2
    <3> QED BY <3>1, IsASeq
  <2> DEFINE left == Drop(data, n)
  <2> HIDE DEF data
  <2>4. n \in -2..len /\ (n = -1 \/ n \in WriteResults(len)) /\ (n # -1 => WritesDirectly)
    BY <2>1, <2>2, WriteResult
  <2>5. Taken(n) \in 0..len /\ (n >= 0 => Taken(n) = n) /\ (n < 0 => Taken(n) = 0)
    BY <2>4 DEF Taken
  <2>6. /\ left \in Seq(1..sent') /\ Len(left) = len - Taken(n)
        /\ \A i \in 1..(len - Taken(n)) : left[i] = sent + Taken(n) + i
    <3>1. /\ left \in Seq(1..sent') /\ Len(left) = len - Taken(n)
          /\ \A i \in 1..(len - Taken(n)) : left[i] = data[i + Taken(n)]
      <4>1. n \in -2..Len(data)
        BY <2>3, <2>4
      <4>2. IsRest(1..sent', data, Taken(n), left)
        BY Zenon, <2>3, <4>1, Splits
      <4> QED BY <2>3, <4>2 DEF IsRest
    <3>2. \A i \in 1..(len - Taken(n)) : i + Taken(n) \in 1..len
      BY <2>5
    <3> QED BY <2>2, <2>3, <2>5, <3>1, <3>2
  <2>7. left = <<>> <=> n = len
    BY <2>4, <2>5, <2>6, EmptySeq
  <2>8. n # -1 => /\ outputBuf = <<>> /\ Len(outputBuf) = 0
                  /\ ~Broken => Len(wire) = sent
    <3>1. n # -1 => outputBuf = <<>> /\ Len(outputBuf) = 0
      BY <2>4, EmptySeq DEF WritesDirectly
    <3>2. wire \in Seq(1..sent)
      BY DEF DataInv, DataTypes
    <3> QED BY <1>2, <3>1, <3>2, LenProperties DEF DataInv, Buffered
  <2>9. /\ wire' \in Seq(1..sent') /\ Len(wire') = Len(wire) + Taken(n) /\ OnWire'
        /\ inFlight' \in 0..SndBuf /\ PeerOK' /\ (peer'.rst = "no" <=> peer.rst = "no")
        /\ Len(wire) \in Nat
    <3>1. n > 0 => ~Broken
      BY <2>2, <2>4, WriteResult
    <3>2. n > 0 => \A i \in 1..Len(data) : data[i] = Len(wire) + i
      <4>1. n > 0 => Len(wire) = sent
        BY <2>4, <2>8, <3>1
      <4> QED BY <2>3, <4>1
    <3>3. Wrote(data, n) /\ (n = -1 \/ n \in WriteResults(Len(data)))
      BY <2>1, <2>3, <2>4
    <3>4. Len(wire) \in Nat
      BY LenProperties DEF DataInv, DataTypes
    <3> QED BY <2>2, <2>3, <3>2, <3>3, <3>4, WroteData
  <2>10. Broken' <=> Broken
    BY <2>1, <2>9 DEF Broken
  <2>11. outputBuf \in Seq(1..sent') /\ Len(outputBuf) \in Nat
    <3>1. 1..sent \subseteq 1..sent'
      BY <2>2
    <3> QED BY <2>2, <3>1, SeqMonotonic, LenProperties
  <2>12. CASE n = -2 \/ left = <<>>
    <3>1. UNCHANGED <<outputBuf, events, status, state, isRead, isWrite, fdOpen, wrShut, closes, high, late>>
      BY <2>1, <2>12
    <3>2. DataTypes'
      BY <2>2, <2>9, <2>11, <3>1 DEF DataInv, DataTypes
    <3>3. Buffered'
      <4>1. CASE Broken
        BY <2>10, <4>1 DEF Buffered
      <4>2. CASE ~Broken
        <5>1. n = len
          BY <2>2, <2>4, <2>7, <2>12, <4>2, WriteResult
        <5>2. Len(wire) = sent /\ Len(outputBuf) = 0 /\ outputBuf' = outputBuf /\ Taken(n) = len
          BY <2>5, <2>8, <3>1, <4>2, <5>1
        <5> QED BY <2>1, <2>9, <5>2 DEF Buffered
      <4> QED BY <4>1, <4>2
    <3>4. Fresh' /\ WatchedIfBuffered' /\ StatusOfEvents' /\ HalfClosed' /\ HalfCloseAfterDrain'
          /\ ClosesCounted' /\ FdClosed'
      BY <3>1 DEF DataInv, Fresh, WatchedIfBuffered, StatusOfEvents, HalfClosed,
                  HalfCloseAfterDrain, ClosesCounted, FdClosed
    <3> QED BY <2>9, <3>2, <3>3, <3>4 DEF DataInv
  <2>13. CASE n # -2 /\ left # <<>>
    <3>1. /\ UNCHANGED <<state, isRead, isWrite, fdOpen, wrShut, closes, high, late>>
          /\ outputBuf' = outputBuf \o left
          /\ "W" \in events' /\ events' \subseteq {"R", "W"}
          /\ status' \in {"ready", "normal", "removed"} /\ StatusOfEvents'
      <4>1. Keep(left)
        BY <2>1, <2>13
      <4>2. CASE "W" \in events
        BY <2>1, <2>2, <4>1, <4>2 DEF Keep, DataInv, StatusOfEvents
      <4>3. CASE "W" \notin events
        <5>1. Watch(events \union {"W"}) /\ outputBuf' = outputBuf \o left
          BY <4>1, <4>3 DEF Keep
        <5>2. events \union {"W"} \in SUBSET {"R", "W"}
          BY <2>2
        <5>3. events' = events \union {"W"} /\ status' \in {"normal", "removed"} /\ StatusOfEvents'
          BY <5>1, <5>2, WatchedEvents
        <5> QED BY <2>1, <2>2, <5>1, <5>3
      <4> QED BY <4>2, <4>3
    <3>2. /\ outputBuf' \in Seq(1..sent') /\ Len(outputBuf') = Len(outputBuf) + Len(left)
          /\ \A i \in 1..(Len(outputBuf) + Len(left)) :
                 outputBuf'[i] = IF i <= Len(outputBuf) THEN outputBuf[i]
                                                        ELSE left[i - Len(outputBuf)]
      <4>1. IsConcat(1..sent', outputBuf, left, outputBuf')
        BY Zenon, <2>6, <2>11, <3>1, Joins
      <4> QED BY <4>1 DEF IsConcat
    <3>3. outputBuf' # <<>>
      BY <2>4, <2>5, <2>6, <2>7, <2>11, <2>13, <3>2, EmptySeq
    <3>4. DataTypes'
      BY <2>2, <2>9, <3>1, <3>2 DEF DataInv, DataTypes
    <3>5. Buffered'
      <4> SUFFICES ASSUME ~Broken PROVE /\ Len(wire') + Len(outputBuf') = sent'
                                        /\ \A i \in 1..Len(outputBuf') : outputBuf'[i] = Len(wire') + i
        BY <2>10 DEF Buffered
      <4>1. /\ Len(wire) + Len(outputBuf) = sent
            /\ \A i \in 1..Len(outputBuf) : outputBuf[i] = Len(wire) + i
        BY <1>2 DEF DataInv, Buffered
      <4>2. Len(wire') + Len(outputBuf') = sent'
        <5>1. /\ Len(wire) \in Nat /\ Len(outputBuf) \in Nat /\ Taken(n) \in Nat /\ sent \in Nat
              /\ Len(wire) + Len(outputBuf) = sent /\ sent' = sent + len
          BY <2>1, <2>2, <2>5, <2>9, <2>11, <4>1
        <5>2. Len(wire') = Len(wire) + Taken(n) /\ Len(outputBuf') = Len(outputBuf) + (len - Taken(n))
          BY <2>6, <2>9, <3>2
        <5> DEFINE w == Len(wire)
                   o == Len(outputBuf)
                   k == Taken(n)
        <5> HIDE DEF w, o, k
        <5>3. /\ w \in Nat /\ o \in Nat /\ k \in Nat /\ sent \in Nat
              /\ w + o = sent /\ sent' = sent + len
              /\ Len(wire') = w + k /\ Len(outputBuf') = o + (len - k)
          BY <5>1, <5>2 DEF w, o, k
        <5> QED BY <5>3
      <4>3. ASSUME NEW i \in 1..Len(outputBuf') PROVE outputBuf'[i] = Len(wire') + i
        <5>1. CASE i <= Len(outputBuf)
          <6>1. n = -1 /\ Taken(n) = 0
            BY <2>5, <2>8, <5>1
          <6>2. i \in 1..Len(outputBuf) /\ outputBuf'[i] = outputBuf[i]
            BY <2>5, <2>6, <2>11, <3>2, <5>1
          <6> QED BY <2>9, <4>1, <6>1, <6>2
        <5>2. CASE ~(i <= Len(outputBuf))
          <6>1. i - Len(outputBuf) \in 1..(len - Taken(n)) /\ i \in 1..(Len(outputBuf) + Len(left))
            BY <2>5, <2>6, <2>11, <3>2, <5>2
          <6>2. outputBuf'[i] = sent + Taken(n) + (i - Len(outputBuf))
            BY <2>6, <3>2, <5>2, <6>1
          <6>3. /\ Len(wire) \in Nat /\ Len(outputBuf) \in Nat /\ Taken(n) \in Nat /\ sent \in Nat
                /\ i \in Nat /\ Len(wire) + Len(outputBuf) = sent
            BY <2>2, <2>5, <2>9, <2>11, <4>1, <6>1
          <6>4. Len(wire') = Len(wire) + Taken(n)
            BY <2>9
          <6>5. sent + Taken(n) + (i - Len(outputBuf)) = Len(wire) + Taken(n) + i
            BY <6>3
          <6> QED BY <6>2, <6>4, <6>5
        <5> QED BY <5>1, <5>2
      <4> QED BY <4>2, <4>3
    <3>6. HalfCloseAfterDrain'
      <4> SUFFICES ASSUME wrShut, ~manual PROVE FALSE
        BY <3>1 DEF HalfCloseAfterDrain
      <4>1. Broken /\ outputBuf = <<>>
        BY DEF Broken, DataInv, HalfCloseAfterDrain
      <4>2. "W" \notin events
        BY <1>2, <4>1 DEF DataInv, WatchedIfBuffered
      <4>3. n = -2
        BY <2>1, <2>2, <4>1, <4>2, WriteResult DEF WritesDirectly
      <4> QED BY <2>13, <4>3
    <3>7. Fresh' /\ WatchedIfBuffered' /\ HalfClosed' /\ ClosesCounted' /\ FdClosed'
      BY <1>2, <3>1, <3>3 DEF DataInv, Fresh, WatchedIfBuffered, HalfClosed, ClosesCounted, FdClosed
    <3> QED BY <2>9, <3>1, <3>4, <3>5, <3>6, <3>7 DEF DataInv
  <2> QED BY <2>12, <2>13
<1> QED BY <1>1, <1>2

(* The connection's own state is written by outputBuf.writeFd; the rest of  *)
(* the buffer stays.                                                        *)
LEMMA WroteBuffer ==
  ASSUME DataInv, state # "disconnected", NEW n \in WriteResults(Len(outputBuf)), Wrote(outputBuf, n),
         outputBuf' = Drop(outputBuf, n), UNCHANGED <<state, wrShut, sent>>
  PROVE  /\ n \in -2..Len(outputBuf)
         /\ outputBuf' \in Seq(1..sent) /\ wire' \in Seq(1..sent) /\ OnWire' /\ Buffered'
         /\ inFlight' \in 0..SndBuf /\ PeerOK' /\ (n # -2 => peer' = peer)
         /\ (n = -2 <=> Broken) /\ (Broken' <=> Broken)
         /\ (n < 0 => outputBuf' = outputBuf)
         /\ (n = 0 => outputBuf = <<>>) /\ (outputBuf = <<>> /\ ~Broken => n = 0)
         /\ (outputBuf = <<>> => outputBuf' = <<>>)
<1>1. /\ sent \in Nat /\ outputBuf \in Seq(1..sent) /\ wire \in Seq(1..sent)
      /\ inFlight \in 0..SndBuf /\ Len(outputBuf) \in Nat /\ Len(wire) \in Nat
  BY LenProperties DEF DataInv, DataTypes
<1>2. /\ n \in -2..Len(outputBuf) /\ (n = -2 <=> Broken) /\ (n = 0 => Len(outputBuf) = 0)
      /\ (Len(outputBuf) = 0 /\ ~Broken => n = 0)
  BY <1>1, WriteResult
<1>3. outputBuf = <<>> <=> Len(outputBuf) = 0
  BY <1>1, EmptySeq
<1>4. /\ outputBuf' \in Seq(1..sent) /\ Len(outputBuf') = Len(outputBuf) - Taken(n)
      /\ Taken(n) \in 0..Len(outputBuf)
      /\ \A i \in 1..(Len(outputBuf) - Taken(n)) : outputBuf'[i] = outputBuf[i + Taken(n)]
  BY <1>1, <1>2, DropAndTake
<1>5. n < 0 => outputBuf' = outputBuf
  <2> SUFFICES ASSUME n < 0 PROVE outputBuf' = outputBuf
    OBVIOUS
  <2>1. Taken(n) = 0
    BY DEF Taken
  <2>2. Drop(outputBuf, n) = SubSeq(outputBuf, 1, Len(outputBuf))
    BY <2>1 DEF Drop
  <2> QED BY <1>1, <2>2, SubSeqFull
<1>6. outputBuf = <<>> => outputBuf' = <<>>
  BY <1>3, <1>4, EmptySeq
<1>7. n > 0 => \A i \in 1..Len(outputBuf) : outputBuf[i] = Len(wire) + i
  BY <1>2 DEF DataInv, Buffered
<1>8. /\ wire' \in Seq(1..sent) /\ Len(wire') = Len(wire) + Taken(n) /\ OnWire'
      /\ inFlight' \in 0..SndBuf /\ PeerOK'
      /\ (peer'.rst = "no" <=> peer.rst = "no") /\ (n # -2 => peer' = peer)
  BY <1>1, <1>7, WroteData
<1>9. Broken' <=> Broken
  BY <1>8 DEF Broken
<1>10. Buffered'
  <2> SUFFICES ASSUME ~Broken PROVE /\ Len(wire') + Len(outputBuf') = sent
                                    /\ \A i \in 1..Len(outputBuf') : outputBuf'[i] = Len(wire') + i
    BY <1>9 DEF Buffered
  <2>1. /\ Len(wire) + Len(outputBuf) = sent
        /\ \A i \in 1..Len(outputBuf) : outputBuf[i] = Len(wire) + i
    BY DEF DataInv, Buffered
  <2>2. Len(wire') + Len(outputBuf') = sent
    BY <1>1, <1>4, <1>8, <2>1
  <2>3. ASSUME NEW i \in 1..Len(outputBuf') PROVE outputBuf'[i] = Len(wire') + i
    <3>1. i \in 1..(Len(outputBuf) - Taken(n)) /\ i + Taken(n) \in 1..Len(outputBuf)
      BY <1>1, <1>4
    <3>2. outputBuf'[i] = Len(wire) + (i + Taken(n))
      BY <1>4, <2>1, <3>1
    <3> QED BY <1>1, <1>4, <1>8, <3>1, <3>2
  <2> QED BY <2>2, <2>3
<1> QED BY <1>2, <1>3, <1>4, <1>5, <1>6, <1>8, <1>9, <1>10

LEMMA SendOutputBufKeepsData ==
  ASSUME DataInv, state # "connecting", NEW rest, NEW queue, SendOutputBufInLoop(rest, queue),
         manual => manual'
  PROVE  DataInv'
<1> USE DEF ghosts
<1>1. CASE state = "disconnected" \/ "W" \in events \/ outputBuf = <<>>
  <2>1. UNCHANGED <<conn, sock, ghosts, sent>>
    BY <1>1 DEF SendOutputBufInLoop
  <2> QED BY <2>1, NothingChanged
<1>2. CASE ~(state = "disconnected" \/ "W" \in events \/ outputBuf = <<>>)
  <2>1. PICK n \in WriteResults(Len(outputBuf)) :
           /\ Wrote(outputBuf, n)
           /\ outputBuf' = Drop(outputBuf, n)
           /\ IF n = -2 \/ outputBuf' = <<>> THEN UNCHANGED <<events, status>>
                                             ELSE Watch(events \union {"W"})
           /\ UNCHANGED <<state, isRead, isWrite, fdOpen, wrShut, sent, closes, high, late>>
    BY <1>2 DEF SendOutputBufInLoop
  <2>2. /\ n \in -2..Len(outputBuf)
        /\ outputBuf' \in Seq(1..sent) /\ wire' \in Seq(1..sent) /\ OnWire' /\ Buffered'
        /\ inFlight' \in 0..SndBuf /\ PeerOK' /\ (Broken' <=> Broken)
    BY <1>2, <2>1, WroteBuffer
  <2>3. events \subseteq {"R", "W"} /\ status \in {"ready", "normal", "removed"}
    BY DEF DataInv, DataTypes
  <2>4. /\ events' \subseteq {"R", "W"} /\ status' \in {"ready", "normal", "removed"} /\ StatusOfEvents'
        /\ (n # -2 => ("W" \in events' <=> outputBuf' # <<>>))
        /\ (n = -2 => events' = events)
    <3>1. CASE n = -2 \/ outputBuf' = <<>>
      BY <1>2, <2>1, <2>3, <3>1 DEF DataInv, StatusOfEvents
    <3>2. CASE ~(n = -2 \/ outputBuf' = <<>>)
      <4>1. Watch(events \union {"W"}) /\ events \union {"W"} \in SUBSET {"R", "W"}
        BY <2>1, <2>3, <3>2
      <4>2. events' = events \union {"W"} /\ status' \in {"normal", "removed"} /\ StatusOfEvents'
        BY <4>1, WatchedEvents
      <4> QED BY <2>3, <3>2, <4>2
    <3> QED BY <3>1, <3>2
  <2>5. DataTypes'
    BY <2>1, <2>2, <2>4 DEF DataInv, DataTypes
  <2>6. manual
    <3>1. outputBuf # <<>> /\ "W" \notin events /\ state # "disconnected"
      BY <1>2
    <3> QED BY <3>1 DEF DataInv, WatchedIfBuffered
  <2>7. WatchedIfBuffered' /\ HalfCloseAfterDrain'
    BY <2>6 DEF WatchedIfBuffered, HalfCloseAfterDrain
  <2>8. Fresh' /\ HalfClosed' /\ ClosesCounted' /\ FdClosed'
    BY <1>2, <2>1 DEF DataInv, Fresh, HalfClosed, ClosesCounted, FdClosed
  <2> QED BY <2>2, <2>4, <2>5, <2>7, <2>8 DEF DataInv
<1> QED BY <1>1, <1>2

LEMMA ShutdownKeepsData ==
  ASSUME DataInv, NEW rest, NEW queue, ShutdownInLoop(rest, queue), manual => manual'
  PROVE  DataInv'
<1>1. CASE ~CanShutdown
  <2>1. UNCHANGED <<conn, sock, ghosts, sent>>
    BY <1>1 DEF ShutdownInLoop, conn, sock, ghosts
  <2> QED BY <2>1, NothingChanged
<1>2. CASE CanShutdown
  <2>1. /\ state = "connected" /\ state' = "disconnecting" /\ wrShut' = (wrShut \/ NothingToWrite)
        /\ UNCHANGED <<events, status, isRead, isWrite, outputBuf, fdOpen, wire, inFlight, peer,
                       closes, high, late, sent>>
    BY <1>2 DEF ShutdownInLoop, CanShutdown, ghosts
  <2>2. ~wrShut
    BY <2>1 DEF DataInv, HalfClosed
  <2>3. wrShut' \in BOOLEAN
    BY <2>1, Zenon
  <2>4. DataTypes'
    BY <2>1, <2>3 DEF DataInv, DataTypes, PeerOK
  <2>5. Fresh' /\ OnWire' /\ StatusOfEvents' /\ HalfClosed' /\ ClosesCounted' /\ FdClosed'
    BY <2>1 DEF DataInv, Fresh, OnWire, StatusOfEvents, HalfClosed, ClosesCounted, FdClosed
  <2>6. Buffered'
    <3>1. ~Broken' => ~Broken
      BY <2>1 DEF Broken
    <3> QED BY <2>1, <3>1 DEF DataInv, Buffered
  <2>7. WatchedIfBuffered'
    BY <2>1 DEF DataInv, WatchedIfBuffered
  <2>8. HalfCloseAfterDrain'
    <3> SUFFICES ASSUME wrShut', ~manual' PROVE outputBuf' = <<>>
      BY DEF HalfCloseAfterDrain
    <3>1. "W" \notin events
      BY <2>1, <2>2 DEF NothingToWrite
    <3> QED BY <2>1, <3>1 DEF DataInv, WatchedIfBuffered
  <2> QED BY <2>4, <2>5, <2>6, <2>7, <2>8 DEF DataInv
<1> QED BY <1>1, <1>2

(* A connection that is closed: what it still holds does not matter.        *)
LEMMA CloseKeepsData ==
  ASSUME DataInv, state # "connecting", NEW then, NEW rest, NEW queue, HandleClose(then, rest, queue),
         manual => manual', UNCHANGED fdOpen,
         wrShut' = wrShut, PeerOK', inFlight' \in 0..SndBuf, wire' \in Seq(1..sent), OnWire'
  PROVE  DataInv'
<1>1. /\ state' = "disconnected" /\ closes' = 1 /\ (state = "disconnected" => UNCHANGED <<state, closes>>)
      /\ UNCHANGED <<events, status, isRead, isWrite, outputBuf, high, late, sent>>
  <2>1. CASE state # "disconnected"
    BY <2>1 DEF HandleClose, NotClosed, DataInv, ClosesCounted
  <2>2. CASE state = "disconnected"
    BY <2>2 DEF HandleClose, NotClosed, DataInv, ClosesCounted
  <2> QED BY <2>1, <2>2
<1>2. DataTypes'
  BY <1>1 DEF DataInv, DataTypes
<1>3. Fresh' /\ Buffered' /\ WatchedIfBuffered' /\ StatusOfEvents'
  BY <1>1 DEF DataInv, Fresh, Buffered, WatchedIfBuffered, StatusOfEvents
<1>4. HalfClosed' /\ HalfCloseAfterDrain' /\ ClosesCounted' /\ FdClosed'
  BY <1>1 DEF DataInv, HalfClosed, HalfCloseAfterDrain, ClosesCounted, FdClosed
<1> QED BY <1>2, <1>3, <1>4 DEF DataInv

LEMMA ForceCloseKeepsData ==
  ASSUME DataInv, NEW rest, NEW queue, ForceCloseInLoop(rest, queue), manual => manual'
  PROVE  DataInv'
<1>1. CASE CanForceClose
  <2>1. HandleClose(<<"close">>, rest, queue) /\ UNCHANGED sock /\ state # "connecting"
    BY <1>1 DEF ForceCloseInLoop, CanForceClose
  <2>2. /\ UNCHANGED fdOpen /\ wrShut' = wrShut /\ PeerOK' /\ inFlight' \in 0..SndBuf
        /\ wire' = wire /\ wire' \in Seq(1..sent) /\ OnWire'
    BY <2>1 DEF sock, DataInv, DataTypes, PeerOK, OnWire
  <2> QED BY <2>1, <2>2, CloseKeepsData
<1>2. CASE ~CanForceClose
  <2>1. UNCHANGED <<conn, sock, ghosts, sent>>
    BY <1>2 DEF ForceCloseInLoop
  <2> QED BY <2>1, NothingChanged
<1> QED BY <1>1, <1>2

LEMMA FlowKeepsData ==
  ASSUME DataInv, NEW e \in {"R", "W"}, NEW flag, NEW on \in BOOLEAN, NEW rest, NEW queue,
         FlowInLoop(e, flag, on, rest, queue), manual => manual', e = "W" => manual'
  PROVE  DataInv'
<1>1. CASE ~(fdOpen /\ (flag # on \/ (e \in events) # on))
  <2>1. UNCHANGED <<conn, sock, ghosts, sent>>
    BY <1>1 DEF FlowInLoop, conn, ghosts
  <2> QED BY <2>1, NothingChanged
<1>2. CASE fdOpen /\ (flag # on \/ (e \in events) # on)
  <2> DEFINE ev == IF on THEN events \union {e} ELSE events \ {e}
  <2>1. /\ Watch(ev)
        /\ isRead'  = IF e = "R" THEN on ELSE isRead
        /\ isWrite' = IF e = "W" THEN on ELSE isWrite
        /\ late' = (late \/ state = "disconnected")
        /\ UNCHANGED <<state, outputBuf, fdOpen, wire, inFlight, wrShut, peer, closes, high, sent>>
    BY <1>2 DEF FlowInLoop, sock
  <2>2. ev \in SUBSET {"R", "W"}
    BY DEF DataInv, DataTypes
  <2>3. events' = ev /\ status' \in {"normal", "removed"} /\ StatusOfEvents'
    BY <2>1, <2>2, WatchedEvents
  <2>4. isRead' \in BOOLEAN /\ isWrite' \in BOOLEAN
    <3>1. isRead \in BOOLEAN /\ isWrite \in BOOLEAN
      BY DEF DataInv, DataTypes
    <3> QED BY <2>1, <3>1
  <2>5. late' \in BOOLEAN
    BY <2>1, Zenon
  <2>6. DataTypes'
    BY <2>1, <2>2, <2>3, <2>4, <2>5 DEF DataInv, DataTypes, PeerOK
  <2>7. Fresh' /\ OnWire' /\ HalfClosed' /\ HalfCloseAfterDrain' /\ ClosesCounted' /\ FdClosed'
    BY <1>2, <2>1 DEF DataInv, Fresh, OnWire, HalfClosed, HalfCloseAfterDrain, ClosesCounted, FdClosed
  <2>8. Buffered'
    BY <2>1 DEF DataInv, Buffered, Broken
  <2>9. WatchedIfBuffered'
    <3>1. e # "W" => ("W" \in events' <=> "W" \in events)
      BY <2>3
    <3> QED BY <2>1, <3>1 DEF DataInv, WatchedIfBuffered
  <2> QED BY <2>3, <2>6, <2>7, <2>8, <2>9 DEF DataInv
<1> QED BY <1>1, <1>2

CallOps == {"send", "sendOutputBuf", "shutdown", "forceClose"} \union FlowCalls

(* The calls by name: the four of FlowCalls are one.                        *)
LEMMA InLoopCases ==
  ASSUME NEW t \in TaskRecs, t.op \in CallOps, NEW rest, NEW queue, InLoop(t, rest, queue)
  PROVE  \/ t.op = "send" /\ t.len \in Nat \ {0} /\ SendInLoop(t.len, rest, queue)
         \/ t.op = "sendOutputBuf" /\ SendOutputBufInLoop(rest, queue)
         \/ t.op = "shutdown" /\ ShutdownInLoop(rest, queue)
         \/ t.op = "forceClose" /\ ForceCloseInLoop(rest, queue)
         \/ \E e \in {"R", "W"}, flag \in {isRead, isWrite}, on \in BOOLEAN :
                /\ t.op \in FlowCalls /\ (e = "W" => t.op \in {"enableWrite", "disableWrite"})
                /\ FlowInLoop(e, flag, on, rest, queue)
<1>1. CASE t.op = "send"
  <2>1. t.len \in Lens
    BY <1>1 DEF TaskRecs, TaskOps
  <2> QED BY <1>1, <2>1, ConstantsAssumption DEF InLoop
<1>2. CASE t.op = "sendOutputBuf"
  BY <1>2 DEF InLoop
<1>3. CASE t.op = "shutdown"
  BY <1>3 DEF InLoop
<1>4. CASE t.op = "forceClose"
  BY <1>4 DEF InLoop
<1>5. CASE t.op = "enableRead"
  <2>1. FlowInLoop("R", isRead, TRUE, rest, queue)
    BY <1>5 DEF InLoop
  <2> QED BY <1>5, <2>1 DEF FlowCalls
<1>6. CASE t.op = "disableRead"
  <2>1. FlowInLoop("R", isRead, FALSE, rest, queue)
    BY <1>6 DEF InLoop
  <2> QED BY <1>6, <2>1 DEF FlowCalls
<1>7. CASE t.op = "enableWrite"
  <2>1. FlowInLoop("W", isWrite, TRUE, rest, queue)
    BY <1>7 DEF InLoop
  <2> QED BY <1>7, <2>1 DEF FlowCalls
<1>8. CASE t.op = "disableWrite"
  <2>1. FlowInLoop("W", isWrite, FALSE, rest, queue)
    BY <1>8 DEF InLoop
  <2> QED BY <1>8, <2>1 DEF FlowCalls
<1> QED BY <1>1, <1>2, <1>3, <1>4, <1>5, <1>6, <1>7, <1>8 DEF CallOps, FlowCalls

LEMMA InLoopKeepsData ==
  ASSUME DataInv, NEW t \in TaskRecs, t.op \in CallOps, NEW rest, NEW queue, InLoop(t, rest, queue),
         state = "connecting" => t.op \in FlowCalls,
         manual => manual', t.op \in {"enableWrite", "disableWrite"} => manual'
  PROVE  DataInv'
<1>1. CASE t.op = "send" /\ t.len \in Nat \ {0} /\ SendInLoop(t.len, rest, queue)
  <2>1. state # "connecting"
    BY <1>1 DEF FlowCalls
  <2> QED BY <1>1, <2>1, SendKeepsData
<1>2. CASE t.op = "sendOutputBuf" /\ SendOutputBufInLoop(rest, queue)
  <2>1. state # "connecting"
    BY <1>2 DEF FlowCalls
  <2> QED BY <1>2, <2>1, SendOutputBufKeepsData
<1>3. CASE t.op = "shutdown" /\ ShutdownInLoop(rest, queue)
  BY <1>3, ShutdownKeepsData
<1>4. CASE t.op = "forceClose" /\ ForceCloseInLoop(rest, queue)
  BY <1>4, ForceCloseKeepsData
<1>5. ASSUME NEW e \in {"R", "W"}, NEW flag \in {isRead, isWrite}, NEW on \in BOOLEAN,
             e = "W" => t.op \in {"enableWrite", "disableWrite"},
             FlowInLoop(e, flag, on, rest, queue)
      PROVE  DataInv'
  <2>1. e = "W" => manual'
    BY <1>5
  <2> QED BY <1>5, <2>1, FlowKeepsData
<1> QED BY <1>1, <1>2, <1>3, <1>4, <1>5, InLoopCases

-----------------------------------------------------------------------------
(* The steps of the owner's thread, and the same.                           *)

LEMMA HandleHupKeepsData ==
  ASSUME DataInv, TodoInv, HandleHup
  PROVE  DataInv'
<1>1. /\ HandleClose(<<>>, Rest, tasks) /\ UNCHANGED sock /\ manual' = manual
      /\ todo # <<>> /\ Head(todo) = "hup"
  BY DEF HandleHup, Next1
<1>2. state # "connecting"
  <2>1. 1 \in DOMAIN todo /\ todo[1] = "hup"
    BY <1>1, EmptySeq DEF TodoInv
  <2> QED BY <2>1 DEF TodoInv, NoHupYet, Due
<1>3. /\ UNCHANGED fdOpen /\ wrShut' = wrShut /\ PeerOK' /\ inFlight' \in 0..SndBuf
      /\ wire' = wire /\ wire' \in Seq(1..sent) /\ OnWire'
  BY <1>1 DEF sock, DataInv, DataTypes, PeerOK, OnWire
<1> QED BY <1>1, <1>2, <1>3, CloseKeepsData

(* Taking the pending error, or the data, changes nothing else.             *)
LEMMA PeerChanged ==
  ASSUME DataInv, UNCHANGED <<conn, fdOpen, wire, inFlight, wrShut, ghosts, sent>>,
         manual' = manual, PeerOK', (peer.rst # "no") => (peer'.rst # "no"),
         state = "connecting" => peer' = peer
  PROVE  DataInv'
<1> USE DEF DataInv, conn, ghosts
<1>1. DataTypes' /\ Fresh' /\ OnWire' /\ StatusOfEvents'
  BY DEF DataTypes, Fresh, OnWire, StatusOfEvents
<1>2. Buffered' /\ WatchedIfBuffered'
  BY DEF Buffered, Broken, WatchedIfBuffered
<1>3. HalfClosed' /\ HalfCloseAfterDrain' /\ ClosesCounted' /\ FdClosed'
  BY DEF HalfClosed, HalfCloseAfterDrain, ClosesCounted, FdClosed
<1> QED BY <1>1, <1>2, <1>3

LEMMA ErrorTaken ==
  ASSUME DataInv, TakeError
  PROVE  PeerOK' /\ ((peer.rst # "no") => (peer'.rst # "no")) /\ (state = "connecting" => peer' = peer)
<1>1. PeerOK
  BY DEF DataInv, DataTypes
<1>2. CASE peer.rst = "pending"
  <2>1. peer' = [peer EXCEPT !.rst = "taken"]
    BY <1>2 DEF TakeError
  <2>2. state # "connecting"
    BY <1>2 DEF DataInv, Fresh
  <2> QED BY <1>1, <2>1, <2>2 DEF PeerOK
<1>3. CASE peer.rst # "pending"
  BY <1>1, <1>3 DEF TakeError, PeerOK
<1> QED BY <1>2, <1>3

LEMMA HandleErrorKeepsData ==
  ASSUME DataInv, HandleError
  PROVE  DataInv'
<1>1. /\ UNCHANGED <<conn, fdOpen, wire, inFlight, wrShut, ghosts, sent>> /\ manual' = manual
      /\ IF state = "disconnected" THEN UNCHANGED peer ELSE TakeError
  BY DEF HandleError
<1>2. PeerOK' /\ ((peer.rst # "no") => (peer'.rst # "no")) /\ (state = "connecting" => peer' = peer)
  <2>1. CASE state = "disconnected"
    BY <1>1, <2>1 DEF DataInv, DataTypes, PeerOK
  <2>2. CASE state # "disconnected"
    BY <1>1, <2>2, ErrorTaken
  <2> QED BY <2>1, <2>2
<1> QED BY <1>1, <1>2, PeerChanged

LEMMA HandleReadKeepsData ==
  ASSUME DataInv, HandleRead
  PROVE  DataInv'
<1>0. manual' = manual /\ PeerOK
  BY DEF HandleRead, DataInv, DataTypes
<1>1. CASE Delivers
  <2>1. /\ peer' = [peer EXCEPT !.data = FALSE]
        /\ UNCHANGED <<conn, fdOpen, wire, inFlight, wrShut, ghosts, sent>>
    BY <1>1 DEF HandleRead
  <2>2. state # "connecting"
    BY <1>1 DEF Delivers, ReadsData, DataInv, Fresh
  <2>3. PeerOK' /\ peer'.rst = peer.rst
    BY <1>0, <2>1 DEF PeerOK
  <2> QED BY <1>0, <2>1, <2>2, <2>3, PeerChanged
<1>2. CASE ~Delivers /\ state # "disconnected" /\ ReadsEof
  <2>1. HandleClose(<<>>, Rest, tasks) /\ UNCHANGED sock
    BY <1>2 DEF HandleRead
  <2>2. state # "connecting"
    BY <1>2 DEF ReadsEof, DataInv, Fresh
  <2>3. /\ UNCHANGED fdOpen /\ wrShut' = wrShut /\ PeerOK' /\ inFlight' \in 0..SndBuf
        /\ wire' = wire /\ wire' \in Seq(1..sent) /\ OnWire'
    BY <2>1 DEF sock, DataInv, DataTypes, PeerOK, OnWire
  <2> QED BY <1>0, <2>1, <2>2, <2>3, CloseKeepsData
<1>3. CASE ~Delivers /\ ~(state # "disconnected" /\ ReadsEof)
  <2>1. /\ UNCHANGED <<conn, fdOpen, wire, inFlight, wrShut, ghosts, sent>>
        /\ IF state = "disconnected" THEN UNCHANGED peer ELSE TakeError
    BY <1>3 DEF HandleRead
  <2>2. PeerOK' /\ ((peer.rst # "no") => (peer'.rst # "no")) /\ (state = "connecting" => peer' = peer)
    <3>1. CASE state = "disconnected"
      BY <1>0, <2>1, <3>1 DEF PeerOK
    <3>2. CASE state # "disconnected"
      BY <2>1, <3>2, ErrorTaken
    <3> QED BY <3>1, <3>2
  <2> QED BY <1>0, <2>1, <2>2, PeerChanged
<1> QED BY <1>1, <1>2, <1>3

LEMMA HandleWriteKeepsData ==
  ASSUME DataInv, HandleWrite
  PROVE  DataInv'
<1> USE DEF ghosts
<1>0. manual' = manual
  BY DEF HandleWrite
<1>1. CASE state = "disconnected" \/ "W" \notin events
  <2>1. UNCHANGED <<conn, sock, ghosts, sent>>
    BY <1>1 DEF HandleWrite
  <2> QED BY <1>0, <2>1, NothingChanged
<1>2. CASE ~(state = "disconnected" \/ "W" \notin events)
  <2>1. PICK n \in WriteResults(Len(outputBuf)) :
           /\ Wrote(outputBuf, n)
           /\ UNCHANGED fdOpen
           /\ IF n < 0
              THEN HandleClose(<<>>, Rest, tasks) /\ UNCHANGED wrShut
              ELSE /\ outputBuf' = Drop(outputBuf, n)
                   /\ IF n > 0 /\ outputBuf' = <<>>
                      THEN /\ Watch(events \ {"W"})
                           /\ wrShut' = HalfCloseWhenDrained
                      ELSE UNCHANGED <<events, status, wrShut>>
                   /\ UNCHANGED <<state, isRead, isWrite, closes, high, late, sent>>
    BY <1>2 DEF HandleWrite
  <2>2. /\ sent \in Nat /\ outputBuf \in Seq(1..sent) /\ Len(outputBuf) \in Nat
        /\ events \subseteq {"R", "W"} /\ status \in {"ready", "normal", "removed"}
        /\ inFlight \in 0..SndBuf /\ wire \in Seq(1..sent) /\ Len(wire) \in Nat
    BY LenProperties DEF DataInv, DataTypes
  <2>3. n \in -2..Len(outputBuf) /\ (n = -2 <=> Broken) /\ (Len(outputBuf) = 0 /\ ~Broken => n = 0)
    BY <2>2, WriteResult
  <2>4. CASE n < 0
    <3>1. HandleClose(<<>>, Rest, tasks) /\ wrShut' = wrShut /\ UNCHANGED fdOpen
      BY <2>1, <2>4
    <3>2. state # "connecting"
      <4> SUFFICES ASSUME state = "connecting" PROVE FALSE
        OBVIOUS
      <4>1. outputBuf = <<>> /\ ~Broken
        BY DEF DataInv, Fresh, Broken
      <4> QED BY <2>2, <2>3, <2>4, <4>1, EmptySeq
    <3>3. n > 0 => \A i \in 1..Len(outputBuf) : outputBuf[i] = Len(wire) + i
      BY <2>4, <2>2, <2>3
    <3>4. wire' \in Seq(1..sent) /\ OnWire' /\ inFlight' \in 0..SndBuf /\ PeerOK'
      BY <2>1, <2>2, <3>3, WroteData
    <3> QED BY <1>0, <3>1, <3>2, <3>4, CloseKeepsData
  <2>5. CASE ~(n < 0)
    <3>1. /\ outputBuf' = Drop(outputBuf, n) /\ n > -1 /\ n # -2
          /\ UNCHANGED <<state, isRead, isWrite, closes, high, late, sent, fdOpen>>
      BY <2>1, <2>3, <2>5
    <3>2. ~Broken /\ ~wrShut
      BY <2>3, <3>1 DEF Broken
    <3>3. n > 0 => \A i \in 1..Len(outputBuf) : outputBuf[i] = Len(wire) + i
      BY <1>2, <3>2 DEF DataInv, Buffered
    <3>4. /\ wire' \in Seq(1..sent) /\ Len(wire') = Len(wire) + Taken(n) /\ OnWire'
          /\ inFlight' \in 0..SndBuf /\ PeerOK' /\ peer' = peer
      BY <2>1, <2>2, <3>1, <3>3, WroteData
    <3>5. /\ outputBuf' \in Seq(1..sent) /\ Len(outputBuf') = Len(outputBuf) - Taken(n)
          /\ Taken(n) \in 0..Len(outputBuf)
          /\ \A i \in 1..(Len(outputBuf) - Taken(n)) : outputBuf'[i] = outputBuf[i + Taken(n)]
      BY <2>2, <2>3, <3>1, DropAndTake
    <3>6. Buffered'
      <4>1. /\ Len(wire) + Len(outputBuf) = sent
            /\ \A i \in 1..Len(outputBuf) : outputBuf[i] = Len(wire) + i
        BY <1>2, <3>2 DEF DataInv, Buffered
      <4>2. Len(wire') + Len(outputBuf') = sent'
        BY <2>2, <3>1, <3>4, <3>5, <4>1
      <4>3. ASSUME NEW i \in 1..Len(outputBuf') PROVE outputBuf'[i] = Len(wire') + i
        <5>1. i \in 1..(Len(outputBuf) - Taken(n)) /\ i + Taken(n) \in 1..Len(outputBuf)
          BY <2>2, <3>5
        <5>2. outputBuf'[i] = Len(wire) + (i + Taken(n))
          BY <3>5, <4>1, <5>1
        <5> QED BY <2>2, <3>4, <3>5, <5>1, <5>2
      <4> QED BY <4>2, <4>3 DEF Buffered
    <3>7. CASE n > 0 /\ outputBuf' = <<>>
      <4>1. Watch(events \ {"W"}) /\ events \ {"W"} \in SUBSET {"R", "W"}
        BY <2>1, <2>2, <2>5, <3>7
      <4>2. events' = events \ {"W"} /\ status' \in {"normal", "removed"} /\ StatusOfEvents'
        BY <4>1, WatchedEvents
      <4>3. wrShut' = (state = "disconnecting")
        <5>1. wrShut' = (wrShut \/ state = "disconnecting")
          BY <2>1, <2>5, <3>7 DEF HalfCloseWhenDrained
        <5> QED BY <3>2, <5>1, Zenon
      <4>4. wrShut' \in BOOLEAN
        BY <4>3, Zenon
      <4>5. DataTypes'
        BY <2>2, <3>1, <3>4, <3>5, <4>2, <4>4 DEF DataInv, DataTypes
      <4>6. /\ Fresh' /\ WatchedIfBuffered' /\ HalfClosed' /\ HalfCloseAfterDrain'
            /\ ClosesCounted' /\ FdClosed'
        BY <1>2, <3>1, <3>4, <3>7, <4>2, <4>3 DEF DataInv, Fresh, WatchedIfBuffered, HalfClosed,
           HalfCloseAfterDrain, ClosesCounted, FdClosed
      <4> QED BY <3>4, <3>6, <4>2, <4>5, <4>6 DEF DataInv
    <3>8. CASE ~(n > 0 /\ outputBuf' = <<>>)
      <4>1. UNCHANGED <<events, status, wrShut>>
        BY <2>1, <2>5, <3>8
      <4>2. outputBuf' = <<>> <=> outputBuf = <<>>
        <5>1. CASE n > 0
          <6>1. Len(outputBuf) # 0
            BY <2>2, <2>3, <5>1
          <6> QED BY <2>2, <3>8, <5>1, <6>1, EmptySeq
        <5>2. CASE ~(n > 0)
          <6>1. n = 0 /\ Len(outputBuf) = 0
            BY <2>2, <2>3, <3>1, <5>2, WriteResult
          <6>2. Len(outputBuf') = 0
            BY <3>5, <6>1
          <6> QED BY <2>2, <3>5, <6>1, <6>2, EmptySeq
        <5> QED BY <5>1, <5>2
      <4>3. DataTypes'
        BY <2>2, <3>1, <3>4, <3>5, <4>1 DEF DataInv, DataTypes
      <4>4. /\ Fresh' /\ WatchedIfBuffered' /\ StatusOfEvents' /\ HalfClosed' /\ HalfCloseAfterDrain'
            /\ ClosesCounted' /\ FdClosed'
        BY <1>0, <1>2, <3>1, <3>2, <3>4, <4>1, <4>2 DEF DataInv, Fresh, WatchedIfBuffered, HalfClosed,
           HalfCloseAfterDrain, ClosesCounted, FdClosed, StatusOfEvents
      <4> QED BY <3>4, <3>6, <4>3, <4>4 DEF DataInv
    <3> QED BY <3>7, <3>8
  <2> QED BY <2>4, <2>5
<1> QED BY <1>1, <1>2

LEMMA RemoveKeepsData ==
  ASSUME DataInv, TodoInv, Remove
  PROVE  DataInv'
<1>1. state = "disconnected"
  <2>1. 1 \in DOMAIN todo /\ todo[1] = "remove"
    BY EmptySeq DEF Remove, Next1, TodoInv
  <2> QED BY <2>1 DEF TodoInv, Removing
<1>2. /\ events' = {} /\ status' = "ready"
      /\ UNCHANGED <<state, isRead, isWrite, outputBuf, sock, ghosts, sent, manual>>
  BY DEF Remove, Unwatch
<1>3. DataTypes'
  BY <1>2 DEF DataInv, DataTypes, PeerOK, sock, ghosts
<1>4. Fresh' /\ OnWire' /\ Buffered' /\ WatchedIfBuffered' /\ StatusOfEvents'
  BY <1>1, <1>2 DEF DataInv, Fresh, OnWire, Buffered, WatchedIfBuffered, StatusOfEvents, sock
<1>5. HalfClosed' /\ HalfCloseAfterDrain' /\ ClosesCounted' /\ FdClosed'
  BY <1>1, <1>2 DEF DataInv, HalfClosed, HalfCloseAfterDrain, ClosesCounted, FdClosed, sock, ghosts
<1> QED BY <1>3, <1>4, <1>5 DEF DataInv

LEMMA CloseFdKeepsData ==
  ASSUME DataInv, TodoInv, Close
  PROVE  DataInv'
<1>1. state = "disconnected" /\ status = "ready"
  <2>1. todo \in Seq(StepNames) /\ todo # <<>> /\ Head(todo) = "close"
    BY DEF Close, Next1, TodoInv
  <2>2. 1 \in DOMAIN todo /\ todo[1] = "close"
    BY <2>1, EmptySeq
  <2>3. state = "disconnected"
    BY <2>2 DEF TodoInv, Removing
  <2>4. \A i \in DOMAIN todo : todo[i] = "close" => (i > 1 \/ status = "ready")
    BY DEF TodoInv, CloseFollows
  <2>5. 1 > 1 \/ status = "ready"
    BY <2>2, <2>4
  <2> QED BY <2>3, <2>5
<1>2. fdOpen' = FALSE /\ UNCHANGED <<conn, wire, inFlight, wrShut, peer, ghosts, sent, manual>>
  BY DEF Close
<1>3. DataTypes'
  <2>1. DataTypes /\ fdOpen' \in BOOLEAN
    BY <1>2 DEF DataInv
  <2>2. PeerOK'
    BY <1>2, <2>1 DEF DataTypes, PeerOK
  <2> QED BY <1>2, <2>1, <2>2 DEF DataTypes, conn, ghosts
<1>4. Fresh' /\ OnWire' /\ Buffered' /\ WatchedIfBuffered' /\ StatusOfEvents'
  BY <1>1, <1>2 DEF DataInv, Fresh, OnWire, Buffered, WatchedIfBuffered, StatusOfEvents, conn
<1>5. HalfClosed' /\ HalfCloseAfterDrain' /\ ClosesCounted' /\ FdClosed'
  BY <1>1, <1>2 DEF DataInv, HalfClosed, HalfCloseAfterDrain, ClosesCounted, FdClosed, conn, ghosts
<1> QED BY <1>3, <1>4, <1>5 DEF DataInv

LEMMA EstablishKeepsData ==
  ASSUME DataInv, state = "connecting", Establish, manual' = manual
  PROVE  DataInv'
<1>1. /\ state' = "connected" /\ Watch(events \union {"R"})
      /\ UNCHANGED <<isRead, isWrite, outputBuf, sock, ghosts, sent>>
  BY DEF Establish
<1>2. events \union {"R"} \in SUBSET {"R", "W"}
  BY DEF DataInv, DataTypes
<1>3. events' = events \union {"R"} /\ status' \in {"normal", "removed"} /\ StatusOfEvents'
  BY <1>1, <1>2, WatchedEvents
<1>4. DataTypes'
  BY <1>1, <1>2, <1>3 DEF DataInv, DataTypes, PeerOK, sock, ghosts
<1>5. Fresh' /\ OnWire' /\ Buffered' /\ WatchedIfBuffered'
  BY <1>1, <1>3 DEF DataInv, Fresh, OnWire, Buffered, Broken, WatchedIfBuffered, sock
<1>6. HalfClosed' /\ HalfCloseAfterDrain' /\ ClosesCounted' /\ FdClosed'
  BY <1>1, <1>3 DEF DataInv, HalfClosed, HalfCloseAfterDrain, ClosesCounted, FdClosed, Fresh, sock, ghosts
<1> QED BY <1>3, <1>4, <1>5, <1>6 DEF DataInv

LEMMA CallsKeepsData ==
  ASSUME DataInv, NEW callback, Calls(callback), manual' = manual
  PROVE  DataInv'
<1>1. UNCHANGED <<conn, sock, closes, late, sent>> /\ high' = (callback = "onHighWaterMark")
  BY DEF Calls
<1>2. high' \in BOOLEAN
  BY <1>1, Zenon
<1>3. DataTypes' /\ Fresh' /\ OnWire' /\ StatusOfEvents'
  BY <1>1, <1>2 DEF DataInv, DataTypes, PeerOK, Fresh, OnWire, StatusOfEvents, conn, sock
<1>4. Buffered' /\ WatchedIfBuffered'
  BY <1>1 DEF DataInv, Buffered, Broken, WatchedIfBuffered, conn, sock
<1>5. HalfClosed' /\ HalfCloseAfterDrain' /\ ClosesCounted' /\ FdClosed'
  BY <1>1 DEF DataInv, HalfClosed, HalfCloseAfterDrain, ClosesCounted, FdClosed, conn, sock
<1> QED BY <1>3, <1>4, <1>5 DEF DataInv

LEMMA PeerStepsKeepData ==
  ASSUME DataInv, PeerActs \/ PeerTakes
  PROVE  DataInv'
<1>1. CASE PeerActs
  <2>1. /\ UNCHANGED <<conn, fdOpen, wire, inFlight, wrShut, ghosts, sent>> /\ manual' = manual
        /\ state # "connecting" /\ (PeerSends \/ PeerCloses \/ PeerResets)
    BY <1>1 DEF PeerActs
  <2>2. PeerOK' /\ ((peer.rst # "no") => (peer'.rst # "no"))
    BY <2>1 DEF PeerSends, PeerCloses, PeerResets, PeerOK, DataInv, DataTypes
  <2> QED BY <2>1, <2>2, PeerChanged
<1>2. CASE PeerTakes
  <2>1. /\ UNCHANGED <<conn, fdOpen, wire, wrShut, peer, ghosts, sent, manual>>
        /\ inFlight > 0 /\ inFlight' = inFlight - 1
    BY <1>2 DEF PeerTakes
  <2>2. DataTypes'
    BY <2>1, ConstantsAssumption DEF DataInv, DataTypes, PeerOK, conn, ghosts
  <2>3. Fresh' /\ OnWire' /\ StatusOfEvents'
    BY <2>1 DEF DataInv, Fresh, OnWire, StatusOfEvents, conn
  <2>4. Buffered' /\ WatchedIfBuffered'
    BY <2>1 DEF DataInv, Buffered, Broken, WatchedIfBuffered, conn
  <2>5. HalfClosed' /\ HalfCloseAfterDrain' /\ ClosesCounted' /\ FdClosed'
    BY <2>1 DEF DataInv, HalfClosed, HalfCloseAfterDrain, ClosesCounted, FdClosed, conn, ghosts
  <2> QED BY <2>2, <2>3, <2>4, <2>5 DEF DataInv
<1> QED BY <1>1, <1>2

-----------------------------------------------------------------------------
(* What the owner's thread has still to do.                                 *)

(* rest could follow in this state.                                         *)
RestOK(rest) ==
    /\ rest \in Seq(StepNames)
    /\ \A i \in DOMAIN rest : rest[i] \in {"remove", "close"} => state = "disconnected"
    /\ \A i \in DOMAIN rest : rest[i] = "close" => i > 1 /\ rest[i - 1] = "remove"
    /\ state = "connecting" => \A i \in DOMAIN rest : rest[i] # "hup"
    /\ (state = "disconnected" /\ ~late) => \/ \E i \in DOMAIN rest : rest[i] = "remove"
                                            \/ status = "ready" /\ events = {}

LEMMA RestOfCallback ==
  ASSUME TodoInv, todo # <<>>, Head(todo) \in Callbacks
  PROVE  RestOK(todo)
<1>1. todo \in Seq(StepNames) /\ 1 \in DOMAIN todo /\ todo[1] \in Callbacks
  <2>1. todo \in Seq(StepNames)
    BY DEF TodoInv
  <2> QED BY <2>1, EmptySeq
<1>2. todo[1] # "close"
  BY <1>1 DEF Callbacks
<1>3. \A i \in DOMAIN todo : todo[i] = "close" => i > 1 /\ todo[i - 1] = "remove"
  BY <1>2 DEF TodoInv, CloseFollows
<1> QED BY <1>1, <1>3 DEF TodoInv, RestOK, Removing, NoHupYet, Unwatched, Due

LEMMA TailType ==
  ASSUME NEW S, NEW s \in Seq(S), s # <<>>
  PROVE  /\ Tail(s) \in Seq(S) /\ Len(s) \in Nat /\ Len(s) > 0 /\ Head(s) = s[1] /\ s[1] \in S
         /\ DOMAIN s = 1..Len(s) /\ DOMAIN Tail(s) = 1..(Len(s) - 1)
         /\ \A i \in 1..(Len(s) - 1) : Tail(s)[i] = s[i + 1]
BY EmptySeq, LenProperties, HeadTailProperties, ElementOfSeq

LEMMA RestOfStep ==
  ASSUME TodoInv, todo # <<>>, Head(todo) # "remove"
  PROVE  RestOK(Rest)
<1>1. todo \in Seq(StepNames)
  BY DEF TodoInv
<1>2. /\ Rest \in Seq(StepNames) /\ Len(todo) \in Nat /\ todo[1] # "remove"
      /\ DOMAIN todo = 1..Len(todo) /\ DOMAIN Rest = 1..(Len(todo) - 1)
      /\ \A i \in 1..(Len(todo) - 1) : Rest[i] = todo[i + 1]
  BY <1>1, TailType DEF Rest
<1>3. \A i \in DOMAIN Rest : i + 1 \in DOMAIN todo /\ Rest[i] = todo[i + 1]
  BY <1>2
<1>4. \A i \in DOMAIN Rest : Rest[i] \in {"remove", "close"} => state = "disconnected"
  BY <1>3 DEF TodoInv, Removing
<1>5. ASSUME NEW i \in DOMAIN Rest, Rest[i] = "close" PROVE i > 1 /\ Rest[i - 1] = "remove"
  <2>1. i + 1 \in DOMAIN todo /\ todo[i + 1] = "close" /\ i \in Nat /\ i >= 1 /\ i <= Len(todo) - 1
    BY <1>2, <1>3, <1>5
  <2>2. todo[i] = "remove"
    <3>1. i + 1 # 1 /\ (i + 1) - 1 = i
      BY <2>1
    <3> QED BY <2>1, <3>1 DEF TodoInv, CloseFollows
  <2>3. i # 1
    BY <1>2, <2>2
  <2>4. i - 1 \in 1..(Len(todo) - 1) /\ (i - 1) + 1 = i
    BY <1>2, <2>1, <2>3
  <2> QED BY <1>2, <2>1, <2>2, <2>3, <2>4
<1>6. state = "connecting" => \A i \in DOMAIN Rest : Rest[i] # "hup"
  BY <1>3 DEF TodoInv, NoHupYet, Due
<1>7. Due("remove") => \E i \in DOMAIN Rest : Rest[i] = "remove"
  <2> SUFFICES ASSUME NEW j \in DOMAIN todo, todo[j] = "remove"
               PROVE  \E i \in DOMAIN Rest : Rest[i] = "remove"
    BY DEF Due
  <2>1. j - 1 \in 1..(Len(todo) - 1) /\ (j - 1) + 1 = j
    BY <1>2
  <2> QED BY <1>2, <2>1
<1> QED BY <1>2, <1>4, <1>5, <1>6, <1>7 DEF RestOK, TodoInv, Unwatched

LEMMA RestInLoop ==
  ASSUME TodoInv, todo = <<>>
  PROVE  RestOK(<<>>)
<1>1. ~Due("remove") /\ <<>> \in Seq(StepNames) /\ DOMAIN <<>> = {}
  BY EmptySeq DEF Due
<1> QED BY <1>1 DEF RestOK, TodoInv, Unwatched

(* A step that closes nothing leaves the rest.                              *)
LEMMA PlainStep ==
  ASSUME RestOK(todo'), state' = "disconnected" <=> state = "disconnected",
         state' = "connecting" => state = "connecting",
         (state = "disconnected" /\ ~late') => ~late /\ UNCHANGED <<events, status>>
  PROVE  TodoInv'
BY DEF RestOK, TodoInv, Removing, CloseFollows, NoHupYet, Unwatched, Due

(* One that does puts onClose and Channel::remove before it.                *)
LEMMA ClosingStep ==
  ASSUME NEW rest, RestOK(rest), state # "disconnected", state' = "disconnected",
         NEW then \in {<<>>, <<"close">>}, todo' = <<"onClose", "remove">> \o then \o rest
  PROVE  TodoInv'
<1>1. /\ rest \in Seq(StepNames) /\ DOMAIN rest = 1..Len(rest) /\ Len(rest) \in Nat
      /\ \A i \in DOMAIN rest : rest[i] \notin {"remove", "close"}
  BY LenProperties DEF RestOK
<1> DEFINE first == <<"onClose", "remove">> \o then
<1>2. /\ first \in Seq(StepNames) /\ Len(first) \in {2, 3} /\ first[1] = "onClose" /\ first[2] = "remove"
      /\ \A i \in 3..Len(first) : i = 3
  <2> DEFINE two == <<"onClose", "remove">>
  <2>1. two \in Seq(StepNames) /\ Len(two) = 2 /\ two[1] = "onClose" /\ two[2] = "remove"
    BY DEF StepNames, Callbacks
  <2>2. then \in Seq(StepNames) /\ Len(then) \in {0, 1}
    <3>1. CASE then = <<>>
      BY <3>1
    <3>2. CASE then = <<"close">>
      BY <3>2 DEF StepNames
    <3> QED BY <3>1, <3>2
  <2> HIDE DEF two
  <2>3. /\ two \o then \in Seq(StepNames) /\ Len(two \o then) = Len(two) + Len(then)
        /\ \A i \in 1..(Len(two) + Len(then)) :
               (two \o then)[i] = IF i <= Len(two) THEN two[i] ELSE then[i - Len(two)]
    BY <2>1, <2>2, ConcatType
  <2>4. first = two \o then
    BY DEF two
  <2> HIDE DEF first
  <2>5. Len(first) \in {2, 3} /\ first \in Seq(StepNames)
    BY <2>1, <2>2, <2>3, <2>4
  <2>6. /\ 1 \in 1..(Len(two) + Len(then)) /\ 1 <= Len(two)
        /\ 2 \in 1..(Len(two) + Len(then)) /\ 2 <= Len(two)
    BY <2>1, <2>2
  <2>7. first[1] = two[1] /\ first[2] = two[2]
    <3>1. (two \o then)[1] = two[1]
      BY <2>3, <2>6
    <3>2. (two \o then)[2] = two[2]
      BY <2>3, <2>6
    <3> QED BY <2>4, <3>1, <3>2
  <2>8. \A i \in 3..Len(first) : i = 3
    <3>1. CASE Len(first) = 2
      BY <3>1
    <3>2. CASE Len(first) = 3
      BY <3>2
    <3> QED BY <2>5, <3>1, <3>2
  <2> QED BY <2>1, <2>5, <2>7, <2>8
<1> HIDE DEF first
<1>3. /\ todo' \in Seq(StepNames) /\ DOMAIN todo' = 1..(Len(first) + Len(rest))
      /\ \A i \in 1..(Len(first) + Len(rest)) :
             todo'[i] = IF i <= Len(first) THEN first[i] ELSE rest[i - Len(first)]
  BY <1>1, <1>2, ConcatType DEF first
<1>4. todo'[2] = "remove" /\ 2 \in DOMAIN todo' /\ todo'[1] = "onClose"
  BY <1>1, <1>2, <1>3
<1>5. ASSUME NEW i \in DOMAIN todo', todo'[i] = "close" PROVE i = 3
  <2>1. i \in 1..(Len(first) + Len(rest)) /\ i \in Nat
    BY <1>1, <1>2, <1>3
  <2>2. CASE i <= Len(first)
    <3>1. i \in {1, 2} \/ i \in 3..Len(first)
      BY <1>2, <2>1, <2>2
    <3> QED BY <1>2, <1>4, <1>5, <3>1
  <2>3. CASE ~(i <= Len(first))
    <3>1. todo'[i] = rest[i - Len(first)]
      BY <1>3, <2>1, <2>3
    <3>2. i - Len(first) \in DOMAIN rest
      BY <1>1, <1>2, <2>1, <2>3
    <3> QED BY <1>1, <1>5, <3>1, <3>2
  <2> QED BY <2>2, <2>3
<1>6. CloseFollows'
  <2> SUFFICES ASSUME NEW i \in DOMAIN todo', todo'[i] = "close" PROVE i > 1 /\ todo'[i - 1] = "remove"
    BY DEF CloseFollows
  <2>1. i = 3
    BY <1>5
  <2> QED BY <1>4, <2>1
<1> QED BY <1>3, <1>4, <1>6 DEF TodoInv, Removing, NoHupYet, Unwatched, Due

LEMMA CloseKeepsTodo ==
  ASSUME NEW rest, RestOK(rest), NEW then \in {<<>>, <<"close">>}, NEW queue,
         HandleClose(then, rest, queue), DataInv
  PROVE  TodoInv'
<1>1. CASE state # "disconnected"
  <2>1. state' = "disconnected" /\ todo' = <<"onClose", "remove">> \o then \o rest
    BY <1>1 DEF HandleClose, NotClosed
  <2> QED BY <1>1, <2>1, ClosingStep
<1>2. CASE state = "disconnected"
  <2>1. todo' = rest /\ UNCHANGED <<state, events, status, late>>
    BY <1>2 DEF HandleClose, NotClosed
  <2>2. RestOK(todo')
    BY <2>1
  <2> QED BY <2>1, <2>2, PlainStep
<1> QED BY <1>1, <1>2

LEMMA InLoopKeepsTodo ==
  ASSUME DataInv, NEW t \in TaskRecs, t.op \in CallOps, NEW rest, RestOK(rest), NEW queue,
         InLoop(t, rest, queue)
  PROVE  TodoInv'
<1>1. CASE t.op = "send" /\ t.len \in Nat \ {0} /\ SendInLoop(t.len, rest, queue)
  <2>1. /\ todo' = rest /\ UNCHANGED <<state, late>>
        /\ state = "disconnected" => UNCHANGED <<events, status>>
    <3>1. CASE state = "disconnected"
      BY <1>1, <3>1 DEF SendInLoop, conn, ghosts
    <3>2. CASE state # "disconnected"
      BY <1>1, <3>2 DEF SendInLoop, ghosts
    <3> QED BY <3>1, <3>2
  <2>2. RestOK(todo')
    BY <2>1
  <2> QED BY <2>1, <2>2, PlainStep
<1>2. CASE t.op = "sendOutputBuf" /\ SendOutputBufInLoop(rest, queue)
  <2>1. /\ todo' = rest /\ UNCHANGED <<state, late>>
        /\ state = "disconnected" => UNCHANGED <<events, status>>
    <3>1. CASE state = "disconnected" \/ "W" \in events \/ outputBuf = <<>>
      BY <1>2, <3>1 DEF SendOutputBufInLoop, conn, ghosts
    <3>2. CASE ~(state = "disconnected" \/ "W" \in events \/ outputBuf = <<>>)
      BY <1>2, <3>2 DEF SendOutputBufInLoop, ghosts
    <3> QED BY <3>1, <3>2
  <2>2. RestOK(todo')
    BY <2>1
  <2> QED BY <2>1, <2>2, PlainStep
<1>3. CASE t.op = "shutdown" /\ ShutdownInLoop(rest, queue)
  <2>1. /\ todo' = rest /\ UNCHANGED <<late, events, status>>
        /\ state' = state \/ (state = "connected" /\ state' = "disconnecting")
    <3>1. CASE CanShutdown
      BY <1>3, <3>1 DEF ShutdownInLoop, CanShutdown, ghosts
    <3>2. CASE ~CanShutdown
      BY <1>3, <3>2 DEF ShutdownInLoop, ghosts
    <3> QED BY <3>1, <3>2
  <2>2. RestOK(todo')
    BY <2>1
  <2> QED BY <2>1, <2>2, PlainStep
<1>4. CASE t.op = "forceClose" /\ ForceCloseInLoop(rest, queue)
  <2>1. CASE CanForceClose
    <3>1. HandleClose(<<"close">>, rest, queue)
      BY <1>4, <2>1 DEF ForceCloseInLoop
    <3>2. <<"close">> \in {<<>>, <<"close">>}
      OBVIOUS
    <3> QED BY <3>1, <3>2, CloseKeepsTodo
  <2>2. CASE ~CanForceClose
    <3>1. todo' = rest /\ UNCHANGED <<state, events, status, late>>
      BY <1>4, <2>2 DEF ForceCloseInLoop, conn, ghosts
    <3>2. RestOK(todo')
      BY <3>1
    <3> QED BY <3>1, <3>2, PlainStep
  <2> QED BY <2>1, <2>2
<1>5. ASSUME NEW e \in {"R", "W"}, NEW flag \in {isRead, isWrite}, NEW on \in BOOLEAN,
             FlowInLoop(e, flag, on, rest, queue)
      PROVE  TodoInv'
  <2>1. todo' = rest /\ state' = state
    BY <1>5 DEF FlowInLoop
  <2>2. (state = "disconnected" /\ ~late') => ~late /\ UNCHANGED <<events, status>>
    BY <1>5, Zenon DEF FlowInLoop
  <2>3. RestOK(todo')
    BY <2>1
  <2> QED BY <2>1, <2>2, <2>3, PlainStep
<1> QED BY <1>1, <1>2, <1>3, <1>4, <1>5, InLoopCases

(* A callback, or the steps of another handler, before the rest.            *)
LEMMA Prepended ==
  ASSUME NEW rest, RestOK(rest), NEW step \in StepNames \ {"remove", "close", "hup"}
  PROVE  RestOK(<<step>> \o rest)
<1> DEFINE r == <<step>> \o rest
<1>1. rest \in Seq(StepNames) /\ Len(rest) \in Nat /\ DOMAIN rest = 1..Len(rest)
  BY LenProperties DEF RestOK
<1>2. <<step>> \in Seq(StepNames) /\ Len(<<step>>) = 1 /\ <<step>>[1] = step
  OBVIOUS
<1>3. /\ r \in Seq(StepNames) /\ DOMAIN r = 1..(1 + Len(rest))
      /\ \A i \in 1..(1 + Len(rest)) : r[i] = IF i <= 1 THEN <<step>>[i] ELSE rest[i - 1]
  BY <1>1, <1>2, ConcatType
<1> HIDE DEF r
<1>4. r[1] = step
  BY <1>1, <1>2, <1>3
<1>5. \A i \in DOMAIN rest : i + 1 \in DOMAIN r /\ r[i + 1] = rest[i]
  BY <1>1, <1>3
<1>6. \A i \in DOMAIN r : i = 1 \/ (i - 1 \in DOMAIN rest /\ r[i] = rest[i - 1])
  <2> SUFFICES ASSUME NEW i \in DOMAIN r, i # 1 PROVE i - 1 \in DOMAIN rest /\ r[i] = rest[i - 1]
    OBVIOUS
  <2>1. i \in 1..(1 + Len(rest)) /\ ~(i <= 1) /\ i - 1 \in 1..Len(rest)
    BY <1>1, <1>3
  <2> QED BY <1>1, <1>3, <2>1
<1>7. \A i \in DOMAIN r : r[i] \in {"remove", "close"} => state = "disconnected"
  BY <1>4, <1>6 DEF RestOK
<1>8. ASSUME NEW i \in DOMAIN r, r[i] = "close" PROVE i > 1 /\ r[i - 1] = "remove"
  <2>1. i - 1 \in DOMAIN rest /\ rest[i - 1] = "close"
    BY <1>4, <1>6, <1>8
  <2>2. i - 1 > 1 /\ rest[(i - 1) - 1] = "remove"
    BY <2>1 DEF RestOK
  <2>3. (i - 1) - 1 \in DOMAIN rest /\ ((i - 1) - 1) + 1 = i - 1 /\ i > 1
    <3>1. DOMAIN rest = 1..Len(rest) /\ Len(rest) \in Nat
      BY <1>1
    <3>2. i \in Int /\ i - 1 > 1 /\ i - 1 <= Len(rest)
      BY <1>3, <2>1, <2>2, <3>1
    <3> QED BY <3>1, <3>2
  <2> QED BY <1>5, <2>2, <2>3
<1>9. state = "connecting" => \A i \in DOMAIN r : r[i] # "hup"
  BY <1>4, <1>6 DEF RestOK
<1>10. (\E i \in DOMAIN rest : rest[i] = "remove") => \E i \in DOMAIN r : r[i] = "remove"
  BY <1>5
<1>11. RestOK(r)
  BY <1>3, <1>7, <1>8, <1>9, <1>10 DEF RestOK
<1> QED BY <1>11 DEF r

LEMMA StepIfType ==
  ASSUME NEW S, NEW step, NEW holds, holds => step \in S
  PROVE  StepIf(holds, step) \in Seq(S)
<1>1. CASE holds
  <2>1. StepIf(holds, step) = <<step>> /\ step \in S
    BY <1>1 DEF StepIf
  <2> QED BY <2>1
<1>2. CASE ~holds
  <2>1. StepIf(holds, step) = <<>>
    BY <1>2 DEF StepIf
  <2> QED BY <2>1
<1> QED BY <1>1, <1>2

LEMMA PollKeepsTodo ==
  ASSUME DataInv, TodoInv, Poll
  PROVE  TodoInv'
<1> DEFINE S == {s \in {"hup", "err", "read", "write"} : s = "hup" => state # "connecting"}
           he == HandleEvent(Revents)
<1>1. RestOK(<<>>)
  BY RestInLoop DEF Poll
<1>2. he \in Seq(S)
  <2>1. "HUP" \in Revents => state # "connecting"
    <3> SUFFICES ASSUME "HUP" \in Revents, state = "connecting" PROVE FALSE
      OBVIOUS
    <3>1. status = "normal" /\ Hup
      BY DEF Revents
    <3> QED BY <3>1 DEF Hup, DataInv, Fresh
  <2> DEFINE hup == StepIf("HUP" \in Revents /\ "R" \notin Revents, "hup")
             err == StepIf("ERR" \in Revents, "err")
             read == StepIf("R" \in Revents, "read")
             write == StepIf("W" \in Revents, "write")
  <2>2. hup \in Seq(S)
    <3>1. ("HUP" \in Revents /\ "R" \notin Revents) => "hup" \in S
      BY <2>1
    <3> HIDE DEF S
    <3> QED BY <3>1, StepIfType
  <2>3. err \in Seq(S) /\ read \in Seq(S) /\ write \in Seq(S)
    <3>1. "err" \in S /\ "read" \in S /\ "write" \in S
      OBVIOUS
    <3> HIDE DEF S
    <3> QED BY <3>1, StepIfType
  <2>4. he = hup \o err \o read \o write
    BY DEF HandleEvent
  <2> HIDE DEF S, hup, err, read, write, he
  <2>5. hup \o err \in Seq(S)
    BY <2>2, <2>3, ConcatType
  <2>6. hup \o err \o read \in Seq(S)
    BY <2>3, <2>5, ConcatType
  <2> QED BY <2>3, <2>4, <2>6, ConcatType
<1>3. RestOK(he)
  <2>1. \A i \in DOMAIN he : he[i] \in S
    <3> HIDE DEF S, he
    <3> QED BY <1>2, LenProperties, ElementOfSeq
  <2>2. he \in Seq(StepNames)
    <3>1. S \subseteq StepNames
      BY DEF StepNames
    <3> HIDE DEF S, he
    <3> QED BY <1>2, <3>1, SeqMonotonic
  <2>3. (state = "disconnected" /\ ~late) => status = "ready" /\ events = {}
    <3>1. DOMAIN <<>> = {}
      OBVIOUS
    <3> QED BY <1>1, <3>1 DEF RestOK
  <2>4. \A i \in DOMAIN he : he[i] \notin {"remove", "close"} /\ (state = "connecting" => he[i] # "hup")
    <3> HIDE DEF he
    <3> QED BY <2>1
  <2> HIDE DEF he
  <2> QED BY <2>2, <2>3, <2>4 DEF RestOK
<1>4. todo' = <<"otherChannel">> \o he /\ UNCHANGED <<state, late, events, status>>
  BY DEF Poll, conn, ghosts
<1>5. "otherChannel" \in StepNames \ {"remove", "close", "hup"}
  BY DEF StepNames, Callbacks
<1> HIDE DEF he
<1>6. RestOK(<<"otherChannel">> \o he)
  BY <1>3, <1>5, Prepended
<1>7. RestOK(todo')
  BY <1>4, <1>6
<1> QED BY <1>4, <1>7, PlainStep

LEMMA OwnerStepKeepsTodo ==
  ASSUME DataInv, TodoInv, OwnerStep
  PROVE  TodoInv'
<1> DEFINE keeps == todo' = Rest /\ UNCHANGED <<state, late, events, status>>
<1>1. ASSUME todo # <<>>, Head(todo) # "remove", keeps PROVE TodoInv'
  <2>1. RestOK(todo')
    BY <1>1, RestOfStep
  <2> QED BY <1>1, <2>1, PlainStep
<1>2. ASSUME todo # <<>>, Head(todo) # "remove", HandleClose(<<>>, Rest, tasks) PROVE TodoInv'
  <2>1. RestOK(Rest) /\ <<>> \in {<<>>, <<"close">>}
    BY <1>2, RestOfStep
  <2> QED BY <1>2, <2>1, CloseKeepsTodo
<1>3. CASE CallbackReturns
  <2>1. keeps /\ todo # <<>> /\ Head(todo) # "remove"
    BY <1>3 DEF CallbackReturns, Callbacks, conn, ghosts
  <2> QED BY <1>1, <2>1
<1>4. CASE HandleHup
  <2>1. HandleClose(<<>>, Rest, tasks) /\ todo # <<>> /\ Head(todo) # "remove"
    BY <1>4 DEF HandleHup, Next1
  <2> QED BY <1>2, <2>1
<1>5. CASE HandleError
  <2>1. keeps /\ todo # <<>> /\ Head(todo) # "remove"
    BY <1>5 DEF HandleError, Next1, conn, ghosts
  <2> QED BY <1>1, <2>1
<1>6. CASE HandleRead
  <2>1. todo # <<>> /\ Head(todo) # "remove"
    BY <1>6 DEF HandleRead, Next1
  <2>2. CASE Delivers
    <3>1. todo' = <<"onMessage">> \o Rest /\ UNCHANGED <<state, late, events, status>>
      BY <1>6, <2>2 DEF HandleRead, conn, ghosts
    <3>2. "onMessage" \in StepNames \ {"remove", "close", "hup"}
      BY DEF StepNames, Callbacks
    <3>3. RestOK(Rest)
      BY <2>1, RestOfStep
    <3>4. RestOK(<<"onMessage">> \o Rest)
      BY <3>2, <3>3, Prepended
    <3>5. RestOK(todo')
      BY <3>1, <3>4
    <3> QED BY <3>1, <3>5, PlainStep
  <2>3. CASE ~Delivers /\ state # "disconnected" /\ ReadsEof
    <3>1. HandleClose(<<>>, Rest, tasks)
      BY <1>6, <2>3 DEF HandleRead
    <3> QED BY <1>2, <2>1, <3>1
  <2>4. CASE ~Delivers /\ ~(state # "disconnected" /\ ReadsEof)
    <3>1. keeps
      BY <1>6, <2>4 DEF HandleRead, conn, ghosts
    <3> QED BY <1>1, <2>1, <3>1
  <2> QED BY <2>2, <2>3, <2>4
<1>7. CASE HandleWrite
  <2>1. todo # <<>> /\ Head(todo) # "remove"
    BY <1>7 DEF HandleWrite, Next1
  <2>2. CASE state = "disconnected" \/ "W" \notin events
    <3>1. keeps
      BY <1>7, <2>2 DEF HandleWrite, conn, ghosts
    <3> QED BY <1>1, <2>1, <3>1
  <2>3. CASE ~(state = "disconnected" \/ "W" \notin events)
    <3>1. HandleClose(<<>>, Rest, tasks) \/ (todo' = Rest /\ UNCHANGED <<state, late>>)
      BY <1>7, <2>3 DEF HandleWrite, ghosts
    <3>2. ASSUME todo' = Rest, UNCHANGED <<state, late>> PROVE TodoInv'
      <4>1. RestOK(todo')
        BY <2>1, <3>2, RestOfStep
      <4> QED BY <2>3, <3>2, <4>1, PlainStep
    <3> QED BY <1>2, <2>1, <3>1, <3>2
  <2> QED BY <2>2, <2>3
<1>8. CASE Remove
  <2>1. /\ todo \in Seq(StepNames) /\ todo # <<>> /\ Head(todo) = "remove"
        /\ events' = {} /\ status' = "ready" /\ todo' = Rest /\ state' = state
    BY <1>8 DEF Remove, Next1, Unwatch, TodoInv
  <2>2. /\ Rest \in Seq(StepNames) /\ Len(todo) \in Nat /\ todo[1] = "remove" /\ Len(todo) > 0
        /\ DOMAIN todo = 1..Len(todo) /\ DOMAIN Rest = 1..(Len(todo) - 1)
        /\ \A i \in 1..(Len(todo) - 1) : Rest[i] = todo[i + 1]
    BY <2>1, TailType DEF Rest
  <2>3. state = "disconnected"
    <3>1. 1 \in DOMAIN todo
      BY <2>2
    <3> QED BY <2>2, <3>1 DEF TodoInv, Removing
  <2>4. CloseFollows'
    <3> SUFFICES ASSUME NEW i \in DOMAIN Rest, Rest[i] = "close", i # 1
                 PROVE  i > 1 /\ Rest[i - 1] = "remove"
      BY <2>1 DEF CloseFollows
    <3>1. i + 1 \in DOMAIN todo /\ todo[i + 1] = "close" /\ i \in Nat /\ i > 1 /\ i <= Len(todo) - 1
      BY <2>2
    <3>2. todo[i] = "remove"
      <4>1. i + 1 # 1 /\ (i + 1) - 1 = i
        BY <3>1
      <4> QED BY <3>1, <4>1 DEF TodoInv, CloseFollows
    <3>3. i - 1 \in 1..(Len(todo) - 1) /\ (i - 1) + 1 = i
      BY <2>2, <3>1
    <3> QED BY <2>2, <3>1, <3>2, <3>3
  <2> QED BY <2>1, <2>2, <2>3, <2>4 DEF TodoInv, Removing, NoHupYet, Unwatched
<1>9. CASE Close
  <2>1. keeps /\ todo # <<>> /\ Head(todo) # "remove"
    BY <1>9 DEF Close, Next1, conn, ghosts
  <2> QED BY <1>1, <2>1
<1> QED BY <1>3, <1>4, <1>5, <1>6, <1>7, <1>8, <1>9 DEF OwnerStep

-----------------------------------------------------------------------------
(* The tasks.                                                               *)

Reports == {Task("onWriteComplete"), Task("onHighWaterMark"), Task("tie")}

LEMMA ReportsAreTasks ==
  /\ Reports \subseteq TaskRecs
  /\ \A r \in Reports : r.op \notin {"onConnection", "enableWrite", "disableWrite"}
BY DEF Reports, Task, TaskRecs, TaskOps

(* queue could be the tasks of this state.                                  *)
QueueOK(queue) ==
    /\ queue \in Seq(TaskRecs)
    /\ \A i \in DOMAIN queue : /\ queue[i].op # "onConnection"
                               /\ queue[i].op \in {"enableWrite", "disableWrite"} => manual

LEMMA QueueKept ==
  ASSUME QueueOK(tasks'), manual => manual', state' # "connecting"
  PROVE  TasksInv'
BY DEF QueueOK, TasksInv, OnConnectionFirst, ManualTasks

LEMMA Reported ==
  ASSUME NEW queue, QueueOK(queue), NEW more \in Seq(Reports)
  PROVE  QueueOK(queue \o more)
<1> DEFINE q == queue \o more
<1>1. queue \in Seq(TaskRecs) /\ more \in Seq(TaskRecs)
  BY ReportsAreTasks, SeqMonotonic DEF QueueOK
<1>2. /\ q \in Seq(TaskRecs) /\ Len(queue) \in Nat /\ Len(more) \in Nat
      /\ DOMAIN q = 1..(Len(queue) + Len(more))
      /\ \A i \in 1..(Len(queue) + Len(more)) :
             q[i] = IF i <= Len(queue) THEN queue[i] ELSE more[i - Len(queue)]
      /\ DOMAIN queue = 1..Len(queue) /\ \A i \in 1..Len(more) : more[i] \in Reports
  BY <1>1, ConcatType, LenProperties, ElementOfSeq
<1> HIDE DEF q
<1>3. ASSUME NEW i \in DOMAIN q
      PROVE  /\ q[i].op # "onConnection"
             /\ q[i].op \in {"enableWrite", "disableWrite"} => manual
  <2>1. CASE i <= Len(queue)
    <3>1. i \in DOMAIN queue /\ q[i] = queue[i]
      BY <1>2, <1>3, <2>1
    <3> QED BY <3>1 DEF QueueOK
  <2>2. CASE ~(i <= Len(queue))
    <3>1. i - Len(queue) \in 1..Len(more)
      BY <1>2, <1>3, <2>2
    <3>2. q[i] = more[i - Len(queue)]
      BY <1>2, <1>3, <2>2
    <3>3. q[i] \in Reports
      BY <1>2, <3>1, <3>2
    <3> QED BY <3>3, ReportsAreTasks
  <2> QED BY <2>1, <2>2
<1>4. QueueOK(q)
  BY <1>2, <1>3 DEF QueueOK
<1> QED BY <1>4 DEF q

(* A call queued behind them.                                               *)
LEMMA QueuedLast ==
  ASSUME TasksInv, state # "connecting", UNCHANGED state, manual => manual',
         NEW t \in TaskRecs, t.op # "onConnection",
         t.op \in {"enableWrite", "disableWrite"} => manual', tasks' = Append(tasks, t)
  PROVE  TasksInv'
<1>1. /\ tasks \in Seq(TaskRecs) /\ Len(tasks) \in Nat /\ DOMAIN tasks = 1..Len(tasks)
      /\ tasks' \in Seq(TaskRecs) /\ Len(tasks') = Len(tasks) + 1 /\ DOMAIN tasks' = 1..(Len(tasks) + 1)
      /\ \A i \in 1..Len(tasks) : tasks'[i] = tasks[i]
      /\ tasks'[Len(tasks) + 1] = t
  BY AppendProperties, LenProperties DEF TasksInv
<1>2. \A i \in DOMAIN tasks' : (i \in DOMAIN tasks /\ tasks'[i] = tasks[i]) \/ tasks'[i] = t
  <2> SUFFICES ASSUME NEW i \in 1..(Len(tasks) + 1), i # Len(tasks) + 1 PROVE i \in 1..Len(tasks)
    BY <1>1
  <2> QED BY <1>1
<1>3. OnConnectionFirst'
  BY <1>2 DEF TasksInv, OnConnectionFirst
<1>4. ManualTasks'
  BY <1>2 DEF TasksInv, ManualTasks
<1> QED BY <1>1, <1>3, <1>4 DEF TasksInv

LEMMA TasksUnchanged ==
  ASSUME TasksInv, tasks' = tasks, (state' = "connecting") <=> (state = "connecting"), manual => manual'
  PROVE  TasksInv'
BY DEF TasksInv, OnConnectionFirst, ManualTasks

LEMMA InLoopKeepsTasks ==
  ASSUME DataInv, NEW t \in TaskRecs, t.op \in CallOps, NEW rest, NEW queue, QueueOK(queue),
         InLoop(t, rest, queue), state # "connecting", manual => manual'
  PROVE  TasksInv'
<1>1. CASE t.op = "send" /\ t.len \in Nat \ {0} /\ SendInLoop(t.len, rest, queue)
  <2>1. CASE state = "disconnected"
    <3>1. tasks' = queue /\ state' = state
      BY <1>1, <2>1 DEF SendInLoop, conn
    <3>2. QueueOK(tasks')
      BY <3>1
    <3> QED BY <2>1, <3>1, <3>2, QueueKept
  <2>2. CASE state # "disconnected"
    <3>1. /\ state' = state
          /\ \E b, c \in BOOLEAN : tasks' = queue
                \o (IF b THEN <<Task("onWriteComplete")>> ELSE <<>>)
                \o (IF c THEN <<Task("onHighWaterMark")>> ELSE <<>>)
      BY <1>1, <2>2, Zenon DEF SendInLoop
    <3>2. PICK b, c \in BOOLEAN : tasks' = queue
                \o (IF b THEN <<Task("onWriteComplete")>> ELSE <<>>)
                \o (IF c THEN <<Task("onHighWaterMark")>> ELSE <<>>)
      BY <3>1
    <3> DEFINE done == IF b THEN <<Task("onWriteComplete")>> ELSE <<>>
               full == IF c THEN <<Task("onHighWaterMark")>> ELSE <<>>
    <3>3. Task("onWriteComplete") \in Reports /\ Task("onHighWaterMark") \in Reports
      BY DEF Reports
    <3>4. done \in Seq(Reports) /\ full \in Seq(Reports)
      BY <3>3
    <3>5. tasks' = queue \o done \o full
      BY <3>2
    <3> HIDE DEF done, full
    <3>6. QueueOK(queue \o done)
      BY <3>4, Reported
    <3>7. QueueOK((queue \o done) \o full)
      BY <3>4, <3>6, Reported
    <3>8. QueueOK(tasks')
      BY <3>5, <3>7
    <3> QED BY <3>1, <3>8, QueueKept
  <2> QED BY <2>1, <2>2
<1>2. CASE t.op = "sendOutputBuf" /\ SendOutputBufInLoop(rest, queue)
  <2>1. /\ state' = state
        /\ tasks' = queue \/ tasks' = Append(queue, Task("onWriteComplete"))
    <3>1. CASE state = "disconnected" \/ "W" \in events \/ outputBuf = <<>>
      BY <1>2, <3>1 DEF SendOutputBufInLoop, conn
    <3>2. CASE ~(state = "disconnected" \/ "W" \in events \/ outputBuf = <<>>)
      BY <1>2, <3>2 DEF SendOutputBufInLoop
    <3> QED BY <3>1, <3>2
  <2>2. QueueOK(tasks')
    <3>1. Task("onWriteComplete") \in Reports
      BY DEF Reports
    <3>2. <<Task("onWriteComplete")>> \in Seq(Reports)
      BY <3>1
    <3>3. QueueOK(queue \o <<Task("onWriteComplete")>>)
      BY <3>2, Reported
    <3>4. Append(queue, Task("onWriteComplete")) = queue \o <<Task("onWriteComplete")>>
      BY DEF QueueOK
    <3> QED BY <2>1, <3>3, <3>4
  <2> QED BY <2>1, <2>2, QueueKept
<1>3. CASE t.op = "shutdown" /\ ShutdownInLoop(rest, queue)
  <2>1. tasks' = queue /\ (state' = state \/ state' = "disconnecting")
    BY <1>3 DEF ShutdownInLoop
  <2>2. QueueOK(tasks')
    BY <2>1
  <2> QED BY <2>1, <2>2, QueueKept
<1>4. CASE t.op = "forceClose" /\ ForceCloseInLoop(rest, queue)
  <2>1. tasks' = queue /\ (state' = state \/ state' = "disconnected")
    BY <1>4 DEF ForceCloseInLoop, HandleClose, conn
  <2>2. QueueOK(tasks')
    BY <2>1
  <2> QED BY <2>1, <2>2, QueueKept
<1>5. ASSUME NEW e \in {"R", "W"}, NEW flag \in {isRead, isWrite}, NEW on \in BOOLEAN,
             FlowInLoop(e, flag, on, rest, queue)
      PROVE  TasksInv'
  <2>1. tasks' = queue /\ state' = state
    BY <1>5 DEF FlowInLoop
  <2>2. QueueOK(tasks')
    BY <2>1
  <2> QED BY <2>1, <2>2, QueueKept
<1> QED BY <1>1, <1>2, <1>3, <1>4, <1>5, InLoopCases

LEMMA QueueOfTasks ==
  ASSUME TasksInv, state # "connecting"
  PROVE  QueueOK(tasks)
BY DEF TasksInv, QueueOK, OnConnectionFirst, ManualTasks

(* Before onConnection no step of the owner's thread closes or reports.     *)
LEMMA OwnerStepBeforeConnection ==
  ASSUME DataInv, TodoInv, OwnerStep, state = "connecting"
  PROVE  state' = "connecting" /\ tasks' = tasks
<1>1. ~Broken /\ outputBuf = <<>> /\ ~peer.data /\ ~peer.fin /\ peer.rst = "no"
  BY DEF DataInv, Fresh, Broken
<1>2. todo \in Seq(StepNames)
  BY DEF TodoInv
<1>3. todo # <<>> => Head(todo) \notin {"hup", "remove", "close"}
  <2> SUFFICES ASSUME todo # <<>> PROVE Head(todo) \notin {"hup", "remove", "close"}
    OBVIOUS
  <2>1. 1 \in DOMAIN todo /\ Head(todo) = todo[1]
    BY <1>2, EmptySeq
  <2> QED BY <2>1 DEF TodoInv, NoHupYet, Removing, Due
<1>4. CASE CallbackReturns
  BY <1>4 DEF CallbackReturns, conn
<1>5. CASE HandleError
  BY <1>5 DEF HandleError, conn
<1>6. CASE HandleRead
  <2>1. ~Delivers /\ ~ReadsEof
    BY <1>1 DEF Delivers, ReadsData, ReadsEof
  <2> QED BY <1>6, <2>1 DEF HandleRead, conn
<1>7. CASE HandleWrite
  <2>1. CASE "W" \notin events
    BY <1>7, <2>1 DEF HandleWrite, conn
  <2>2. CASE "W" \in events
    <3>1. PICK n \in WriteResults(Len(outputBuf)) :
             IF n < 0 THEN TRUE
             ELSE /\ ~(n > 0 /\ outputBuf' = <<>>) => UNCHANGED tasks
                  /\ UNCHANGED state
      BY <1>7, <2>2 DEF HandleWrite
    <3>2. Len(outputBuf) = 0
      BY <1>1
    <3>3. n = 0
      BY <1>1, <3>1, <3>2 DEF WriteResults
    <3> QED BY <3>1, <3>3
  <2> QED BY <2>1, <2>2
<1> QED BY <1>3, <1>4, <1>5, <1>6, <1>7 DEF OwnerStep, HandleHup, Remove, Close, Next1

LEMMA OwnerStepKeepsTasks ==
  ASSUME DataInv, TodoInv, TasksInv, OwnerStep
  PROVE  TasksInv'
<1>0. manual' = manual
  BY DEF OwnerStep, CallbackReturns, HandleHup, HandleError, HandleRead, HandleWrite, Remove, Close
<1>1. CASE state = "connecting"
  <2>1. state' = "connecting" /\ tasks' = tasks
    BY <1>1, OwnerStepBeforeConnection
  <2> QED BY <1>0, <1>1, <2>1, TasksUnchanged
<1>2. CASE state # "connecting"
  <2>0. QueueOK(tasks)
    BY <1>2, QueueOfTasks
  <2> DEFINE closed == state' = state \/ state' = "disconnected"
  <2>1. ASSUME tasks' = tasks, closed PROVE TasksInv'
    BY <1>0, <1>2, <2>1, TasksUnchanged
  <2>2. ASSUME NEW op, Task(op) \in Reports, closed,
               tasks' = tasks \o <<Task(op)>>
        PROVE  TasksInv'
    <3>1. <<Task(op)>> \in Seq(Reports)
      BY <2>2
    <3>2. QueueOK(tasks \o <<Task(op)>>)
      BY <2>0, <3>1, Reported
    <3>3. QueueOK(tasks')
      BY <2>2, <3>2
    <3> QED BY <1>0, <1>2, <2>2, <3>3, QueueKept
  <2>3. CASE CallbackReturns
    BY <2>1, <2>3 DEF CallbackReturns, conn
  <2>4. CASE HandleHup
    BY <2>1, <2>4 DEF HandleHup, HandleClose
  <2>5. CASE HandleError
    BY <2>1, <2>5 DEF HandleError, conn
  <2>6. CASE HandleRead
    BY <2>1, <2>6 DEF HandleRead, HandleClose, conn
  <2>7. CASE HandleWrite
    <3>1. CASE state = "disconnected" \/ "W" \notin events
      BY <2>1, <2>7, <3>1 DEF HandleWrite, conn
    <3>2. CASE ~(state = "disconnected" \/ "W" \notin events)
      <4>1. closed /\ (tasks' = tasks \/ tasks' = tasks \o DrainReport)
        BY <2>7, <3>2 DEF HandleWrite, HandleClose
      <4>2. Task("onWriteComplete") \in Reports
        BY DEF Reports
      <4> QED BY <2>1, <2>2, <4>1, <4>2 DEF DrainReport
    <3> QED BY <3>1, <3>2
  <2>8. CASE Remove
    <3>1. tasks' = Append(tasks, Task("tie")) /\ state' = state /\ tasks \in Seq(TaskRecs)
      BY <2>8 DEF Remove, TasksInv
    <3>2. Append(tasks, Task("tie")) = tasks \o <<Task("tie")>>
      BY <3>1
    <3>3. Task("tie") \in Reports
      BY DEF Reports
    <3> QED BY <2>2, <3>1, <3>2, <3>3
  <2>9. CASE Close
    BY <2>1, <2>9 DEF Close, conn
  <2> QED BY <2>3, <2>4, <2>5, <2>6, <2>7, <2>8, <2>9 DEF OwnerStep
<1> QED BY <1>1, <1>2

-----------------------------------------------------------------------------
(* The invariant.                                                           *)

LEMMA CallTypes ==
  ASSUME NEW t \in Call
  PROVE  t.op = "forceCloseLater" \/ (t \in TaskRecs /\ t.op \in CallOps)
<1>1. PICK op \in Ops : t \in IF op = "send" THEN {[op |-> op, len |-> n] : n \in Lens}
                                              ELSE {Task(op)}
  BY DEF Call
<1>2. CASE op = "send"
  BY <1>1, <1>2 DEF TaskRecs, CallOps
<1>3. CASE op # "send"
  <2>1. t = [op |-> op]
    BY <1>1, <1>3 DEF Task
  <2> QED BY <1>3, <2>1, ConstantsAssumption DEF TaskRecs, TaskOps, CallOps, FlowCalls
<1> QED BY <1>2, <1>3

LEMMA InitHolds == Init => ConnectionInv
<1> SUFFICES ASSUME Init PROVE ConnectionInv
  OBVIOUS
<1> USE ConstantsAssumption DEF Init
<1>1. DataTypes
  <2>1. /\ isRead \in BOOLEAN /\ isWrite \in BOOLEAN /\ fdOpen \in BOOLEAN
        /\ wrShut \in BOOLEAN /\ high \in BOOLEAN /\ late \in BOOLEAN
    BY Zenon
  <2>2. sent \in Nat /\ outputBuf \in Seq(1..sent) /\ wire \in Seq(1..sent) /\ inFlight \in 0..SndBuf
    OBVIOUS
  <2>3. PeerOK
    <3>1. FALSE \in BOOLEAN /\ "no" \in {"no", "pending", "taken"}
      OBVIOUS
    <3> QED BY <3>1, Zenon DEF PeerOK
  <2> QED BY <2>1, <2>2, <2>3 DEF DataTypes
<1>2. /\ Fresh /\ OnWire /\ Buffered /\ WatchedIfBuffered /\ StatusOfEvents
      /\ HalfClosed /\ HalfCloseAfterDrain /\ ClosesCounted /\ FdClosed
  BY DEF Fresh, OnWire, Buffered, WatchedIfBuffered, StatusOfEvents, HalfClosed,
         HalfCloseAfterDrain, ClosesCounted, FdClosed
<1>3. TodoInv
  BY DEF TodoInv, Removing, CloseFollows, NoHupYet, Unwatched, Due
<1>4. TasksInv
  <2>1. Task("onConnection") \in TaskRecs
    BY DEF Task, TaskRecs, TaskOps
  <2>2. tasks = <<Task("onConnection")>> /\ state = "connecting"
    BY DEF Task
  <2>3. tasks \in Seq(TaskRecs) /\ \A i \in DOMAIN tasks : i = 1 /\ tasks[i] = Task("onConnection")
    BY <2>1, <2>2
  <2>4. Task("onConnection").op = "onConnection"
    BY DEF Task
  <2> QED BY <2>2, <2>3, <2>4 DEF TasksInv, OnConnectionFirst, ManualTasks
<1>5. CallsCounted
  <2>1. calls \in 0..MaxCalls /\ timers \in 0..calls
    OBVIOUS
  <2>2. manual \in BOOLEAN
    BY Zenon
  <2> QED BY <2>1, <2>2 DEF CallsCounted
<1> QED BY <1>1, <1>2, <1>3, <1>4, <1>5 DEF ConnectionInv, DataInv

LEMMA CountedCall ==
  ASSUME CallsCounted, NEW t, Counted(t), timers' = timers \/ AddTimer
  PROVE  /\ CallsCounted' /\ (manual => manual')
         /\ (t.op \in {"enableWrite", "disableWrite"} => manual')
<1>1. manual' = (manual \/ t.op \in {"enableWrite", "disableWrite"})
  BY DEF Counted
<1>2. manual' \in BOOLEAN /\ (manual => manual') /\ (t.op \in {"enableWrite", "disableWrite"} => manual')
  BY <1>1, Zenon
<1>3. calls' \in 0..MaxCalls /\ timers' \in 0..calls'
  BY ConstantsAssumption DEF CallsCounted, Counted, AddTimer
<1> QED BY <1>2, <1>3 DEF CallsCounted

LEMMA OwnerCallsKeep ==
  ASSUME ConnectionInv, NEW t \in Call, OwnerCalls(t)
  PROVE  ConnectionInv'
<1> USE DEF ConnectionInv
<1>1. timers' = timers \/ AddTimer
  BY DEF OwnerCalls
<1>2. /\ CallsCounted' /\ (manual => manual')
      /\ (t.op \in {"enableWrite", "disableWrite"} => manual')
  BY <1>1, CountedCall DEF OwnerCalls
<1>3. CASE t.op = "forceCloseLater"
  <2>1. UNCHANGED <<conn, sock, ghosts, tasks, todo, sent>>
    BY <1>3 DEF OwnerCalls
  <2>2. DataInv'
    BY <1>2, <2>1, NothingChanged
  <2>3. TodoInv'
    BY <2>1 DEF TodoInv, Removing, CloseFollows, NoHupYet, Unwatched, Due, conn, ghosts
  <2>4. TasksInv'
    BY <1>2, <2>1, TasksUnchanged DEF conn
  <2> QED BY <1>2, <2>2, <2>3, <2>4
<1>4. CASE t.op # "forceCloseLater"
  <2>1. /\ t \in TaskRecs /\ t.op \in CallOps /\ InLoop(t, todo, tasks)
        /\ todo # <<>> /\ Head(todo) \in Callbacks /\ Accepts(t.op, state)
    BY <1>4, CallTypes DEF OwnerCalls
  <2>2. state = "connecting" => t.op \in FlowCalls
    BY <2>1 DEF Accepts, CallOps
  <2>3. RestOK(todo)
    BY <2>1, RestOfCallback
  <2>4. DataInv'
    BY <1>2, <2>1, <2>2, InLoopKeepsData
  <2>5. TodoInv'
    BY <2>1, <2>3, InLoopKeepsTodo
  <2>6. TasksInv'
    <3>1. CASE state = "connecting"
      <4>1. \E e \in {"R", "W"}, flag \in {isRead, isWrite}, on \in BOOLEAN :
                FlowInLoop(e, flag, on, todo, tasks)
        BY <2>1, <2>2, <3>1, InLoopCases DEF FlowCalls
      <4>2. tasks' = tasks /\ state' = state
        BY <4>1 DEF FlowInLoop
      <4> QED BY <1>2, <4>2, TasksUnchanged
    <3>2. CASE state # "connecting"
      <4>1. QueueOK(tasks)
        BY <3>2, QueueOfTasks
      <4> QED BY <1>2, <2>1, <3>2, <4>1, InLoopKeepsTasks
    <3> QED BY <3>1, <3>2
  <2> QED BY <1>2, <2>4, <2>5, <2>6
<1> QED BY <1>3, <1>4

LEMMA TodoUnchanged ==
  ASSUME TodoInv, UNCHANGED <<todo, state, late, events, status>>
  PROVE  TodoInv'
BY DEF TodoInv, Removing, CloseFollows, NoHupYet, Unwatched, Due

LEMMA OtherThreadCallsKeep ==
  ASSUME ConnectionInv, NEW t \in Call, OtherThreadCalls(t)
  PROVE  ConnectionInv'
<1> USE DEF ConnectionInv
<1>1. timers' = timers \/ AddTimer
  BY DEF OtherThreadCalls
<1>2. /\ CallsCounted' /\ (manual => manual')
      /\ (t.op \in {"enableWrite", "disableWrite"} => manual')
  BY <1>1, CountedCall DEF OtherThreadCalls
<1>3. UNCHANGED <<conn, sock, ghosts, todo, sent>> /\ state # "connecting"
  BY DEF OtherThreadCalls
<1>4. DataInv'
  BY <1>2, <1>3, NothingChanged
<1>5. TodoInv' /\ state' = state
  BY <1>3, TodoUnchanged DEF conn, ghosts
<1>6. TasksInv'
  <2>1. CASE t.op = "forceCloseLater"
    BY <1>2, <1>5, <2>1, TasksUnchanged DEF OtherThreadCalls
  <2>2. CASE t.op # "forceCloseLater"
    <3>1. t \in TaskRecs /\ t.op \in CallOps /\ tasks' = Append(tasks, t)
      BY <2>2, CallTypes DEF OtherThreadCalls
    <3>2. t.op # "onConnection"
      BY <3>1 DEF CallOps, FlowCalls
    <3> QED BY <1>2, <1>3, <1>5, <3>1, <3>2, QueuedLast
  <2> QED BY <2>1, <2>2
<1> QED BY <1>2, <1>4, <1>5, <1>6

LEMMA RunTaskKeeps ==
  ASSUME ConnectionInv, RunTask
  PROVE  ConnectionInv'
<1> USE DEF ConnectionInv
<1> DEFINE t == Head(tasks)
           queue == Tail(tasks)
<1>1. /\ todo = <<>> /\ tasks # <<>> /\ UNCHANGED <<timers, calls, manual>>
      /\ tasks \in Seq(TaskRecs)
  BY DEF RunTask, TasksInv
<1>2. /\ t = tasks[1] /\ 1 \in DOMAIN tasks /\ t \in TaskRecs /\ queue \in Seq(TaskRecs)
      /\ \A i \in DOMAIN queue : i + 1 \in DOMAIN tasks /\ i + 1 # 1 /\ queue[i] = tasks[i + 1]
  <2>1. /\ queue \in Seq(TaskRecs) /\ Len(tasks) \in Nat /\ Len(tasks) > 0
        /\ Head(tasks) = tasks[1] /\ tasks[1] \in TaskRecs
        /\ DOMAIN tasks = 1..Len(tasks) /\ DOMAIN queue = 1..(Len(tasks) - 1)
        /\ \A i \in 1..(Len(tasks) - 1) : queue[i] = tasks[i + 1]
    BY <1>1, TailType
  <2> QED BY <2>1
<1>3. QueueOK(queue)
  <2> HIDE DEF queue
  <2> QED BY <1>2 DEF TasksInv, OnConnectionFirst, ManualTasks, QueueOK
<1>4. t.op = "onConnection" <=> state = "connecting"
  <2>1. t.op = "onConnection" => state = "connecting"
    BY <1>2 DEF TasksInv, OnConnectionFirst
  <2>2. state = "connecting" => t.op = "onConnection"
    BY <1>1 DEF TasksInv, OnConnectionFirst, Task
  <2> QED BY <2>1, <2>2
<1>5. RestOK(<<>>)
  BY <1>1, RestInLoop
<1>6. CallsCounted'
  BY <1>1 DEF CallsCounted
<1>7. CASE t.op = "onConnection"
  <2>1. Establish /\ tasks' = queue /\ state = "connecting" /\ manual' = manual
    BY <1>1, <1>4, <1>7 DEF RunTask
  <2>2. DataInv'
    BY <2>1, EstablishKeepsData
  <2>3. state' = "connected" /\ todo' = <<"onConnection">>
    BY <2>1 DEF Establish
  <2>4. TodoInv'
    <3>1. "onConnection" \in StepNames
      BY DEF StepNames, Callbacks
    <3>2. todo' \in Seq(StepNames) /\ \A i \in DOMAIN todo' : todo'[i] = "onConnection"
      BY <2>3, <3>1
    <3> QED BY <2>3, <3>2 DEF TodoInv, Removing, CloseFollows, NoHupYet, Unwatched
  <2>5. QueueOK(tasks')
    BY <1>3, <2>1
  <2> QED BY <1>6, <2>1, <2>2, <2>3, <2>4, <2>5, QueueKept
<1>8. CASE t.op \in {"onWriteComplete", "onHighWaterMark"}
  <2>1. Calls(t.op) /\ tasks' = queue /\ manual' = manual /\ state # "connecting"
    BY <1>1, <1>4, <1>8 DEF RunTask
  <2>2. DataInv'
    BY <2>1, CallsKeepsData
  <2>3. todo' = <<t.op>> /\ UNCHANGED <<state, late, events, status>>
    BY <2>1 DEF Calls, conn
  <2>4. RestOK(todo')
    <3>1. t.op \in StepNames \ {"remove", "close", "hup"}
      BY <1>8 DEF StepNames, Callbacks
    <3>2. RestOK(<<t.op>> \o <<>>)
      BY <1>5, <3>1, Prepended
    <3>3. <<t.op>> \o <<>> = <<t.op>>
      OBVIOUS
    <3> QED BY <2>3, <3>2, <3>3
  <2>5. TodoInv'
    BY <2>3, <2>4, PlainStep
  <2>6. QueueOK(tasks')
    BY <1>3, <2>1
  <2> QED BY <1>6, <2>1, <2>2, <2>3, <2>5, <2>6, QueueKept
<1>9. CASE t.op = "tie"
  <2>1. tasks' = queue /\ UNCHANGED <<conn, sock, ghosts, todo, sent, manual>> /\ state # "connecting"
    BY <1>1, <1>4, <1>9 DEF RunTask
  <2>2. DataInv'
    BY <2>1, NothingChanged
  <2>3. TodoInv' /\ state' = state
    BY <2>1, TodoUnchanged DEF conn, ghosts
  <2>4. QueueOK(tasks')
    BY <1>3, <2>1
  <2> QED BY <1>6, <2>1, <2>2, <2>3, <2>4, QueueKept
<1>10. CASE t.op \notin {"onConnection", "onWriteComplete", "onHighWaterMark", "tie"}
  <2>1. InLoop(t, <<>>, queue) /\ manual' = manual /\ state # "connecting"
    BY <1>1, <1>4, <1>10 DEF RunTask
  <2>2. t.op \in CallOps
    BY <1>2, <1>10 DEF TaskRecs, TaskOps, CallOps, FlowCalls
  <2>3. t.op \in {"enableWrite", "disableWrite"} => manual'
    BY <1>2, <2>1 DEF TasksInv, ManualTasks
  <2> HIDE DEF t, queue
  <2>4. DataInv'
    BY <1>2, <2>1, <2>2, <2>3, InLoopKeepsData
  <2>5. TodoInv'
    BY <1>2, <1>5, <2>1, <2>2, InLoopKeepsTodo
  <2>6. TasksInv'
    BY <1>2, <1>3, <2>1, <2>2, InLoopKeepsTasks
  <2> QED BY <1>6, <2>4, <2>5, <2>6
<1> QED BY <1>7, <1>8, <1>9, <1>10

LEMMA TimerFiresKeeps ==
  ASSUME ConnectionInv, TimerFires
  PROVE  ConnectionInv'
<1> USE DEF ConnectionInv
<1>1. /\ todo = <<>> /\ ForceCloseInLoop(<<>>, tasks) /\ UNCHANGED <<calls, manual>>
      /\ timers > 0 /\ timers' = timers - 1
  BY DEF TimerFires
<1>2. DataInv'
  BY <1>1, ForceCloseKeepsData
<1>3. RestOK(<<>>)
  BY <1>1, RestInLoop
<1>4. CallsCounted'
  BY <1>1, ConstantsAssumption DEF CallsCounted
<1>5. CASE CanForceClose
  <2>1. HandleClose(<<"close">>, <<>>, tasks) /\ state # "connecting"
    BY <1>1, <1>5 DEF ForceCloseInLoop, CanForceClose
  <2>2. <<"close">> \in {<<>>, <<"close">>}
    OBVIOUS
  <2>3. TodoInv'
    BY <1>3, <2>1, <2>2, CloseKeepsTodo
  <2>4. tasks' = tasks /\ state' # "connecting"
    BY <2>1 DEF HandleClose
  <2>5. TasksInv'
    BY <1>1, <2>1, <2>4, TasksUnchanged
  <2> QED BY <1>2, <1>4, <2>3, <2>5
<1>6. CASE ~CanForceClose
  <2>1. todo' = todo /\ tasks' = tasks /\ UNCHANGED <<conn, ghosts>>
    BY <1>1, <1>6 DEF ForceCloseInLoop
  <2> QED BY <1>1, <1>2, <1>4, <2>1, TodoUnchanged, TasksUnchanged DEF conn, ghosts
<1> QED BY <1>5, <1>6

LEMMA InvKept == ConnectionInv /\ [Next]_vars => ConnectionInv'
<1> SUFFICES ASSUME ConnectionInv, [Next]_vars PROVE ConnectionInv'
  OBVIOUS
<1>1. CASE Poll
  <2>1. UNCHANGED <<conn, sock, ghosts, tasks, timers, sent, calls, manual>>
    BY <1>1 DEF Poll
  <2>2. DataInv'
    BY <2>1, NothingChanged DEF ConnectionInv
  <2>3. TodoInv'
    BY <1>1, PollKeepsTodo DEF ConnectionInv
  <2>4. TasksInv' /\ CallsCounted'
    BY <2>1, TasksUnchanged DEF ConnectionInv, CallsCounted, conn
  <2> QED BY <2>2, <2>3, <2>4 DEF ConnectionInv
<1>2. CASE OwnerStep
  <2>1. UNCHANGED <<calls, timers, manual>>
    BY <1>2 DEF OwnerStep, CallbackReturns, HandleHup, HandleError, HandleRead, HandleWrite, Remove, Close
  <2>2. DataInv'
    <3>1. CASE CallbackReturns
      BY <3>1, NothingChanged DEF CallbackReturns, ConnectionInv
    <3> QED BY <1>2, <3>1, HandleHupKeepsData, HandleErrorKeepsData, HandleReadKeepsData,
               HandleWriteKeepsData, RemoveKeepsData, CloseFdKeepsData DEF OwnerStep, ConnectionInv
  <2>3. TodoInv' /\ TasksInv'
    BY <1>2, OwnerStepKeepsTodo, OwnerStepKeepsTasks DEF ConnectionInv
  <2> QED BY <2>1, <2>2, <2>3 DEF ConnectionInv, CallsCounted
<1>3. CASE RunTask
  BY <1>3, RunTaskKeeps
<1>4. CASE TimerFires
  BY <1>4, TimerFiresKeeps
<1>5. ASSUME NEW t \in Call, OwnerCalls(t) \/ OtherThreadCalls(t) PROVE ConnectionInv'
  BY <1>5, OwnerCallsKeep, OtherThreadCallsKeep
<1>6. CASE PeerActs \/ PeerTakes
  <2>1. UNCHANGED <<conn, ghosts, tasks, timers, todo, calls, manual>>
    BY <1>6 DEF PeerActs, PeerTakes
  <2>2. DataInv'
    BY <1>6, PeerStepsKeepData DEF ConnectionInv
  <2> QED BY <2>1, <2>2, TodoUnchanged, TasksUnchanged DEF ConnectionInv, CallsCounted, conn, ghosts
<1>7. CASE UNCHANGED vars
  <2>1. UNCHANGED <<conn, sock, ghosts, tasks, timers, todo, sent, calls, manual>>
    BY <1>7 DEF vars
  <2> QED BY <2>1, NothingChanged, TodoUnchanged, TasksUnchanged
          DEF ConnectionInv, CallsCounted, conn, ghosts
<1> QED BY <1>1, <1>2, <1>3, <1>4, <1>5, <1>6, <1>7 DEF Next

(* Whatever the users, the other threads and the peer do, in any order.     *)
THEOREM InvHolds == Spec => []ConnectionInv
BY InitHolds, InvKept, PTL DEF Spec

-----------------------------------------------------------------------------
(* Every variable keeps its type.                                           *)
THEOREM TypeCorrect == Spec => []TypeOK
<1>1. ConnectionInv => TypeOK
  <2> SUFFICES ASSUME ConnectionInv PROVE TypeOK
    OBVIOUS
  <2>1. DataTypes /\ ClosesCounted /\ CallsCounted /\ todo \in Seq(StepNames)
    BY DEF ConnectionInv, DataInv, TodoInv
  <2>2. {todo[i] : i \in DOMAIN todo} \subseteq StepNames
    BY <2>1
  <2>3. closes \in 0..1
    BY <2>1 DEF ClosesCounted
  <2>4. calls \in 0..MaxCalls /\ timers \in 0..MaxCalls
    BY <2>1, ConstantsAssumption DEF CallsCounted
  <2> QED BY <2>1, <2>2, <2>3, <2>4 DEF TypeOK, DataTypes, StepNames, CallsCounted
<1> QED BY <1>1, InvHolds, PTL

(* send and shutdown, in the loop or from elsewhere, directly or through    *)
(* outputBuf: the socket is given the bytes in order, none twice, none left *)
(* out; what it was not given is in the buffer.                             *)
THEOREM NothingSkipped == Spec => []WireIsPrefix
<1>1. ConnectionInv => WireIsPrefix
  <2> SUFFICES ASSUME ConnectionInv PROVE WireIsPrefix
    OBVIOUS
  <2>1. \A i \in 1..Len(wire) : wire[i] = i
    BY DEF ConnectionInv, DataInv, OnWire
  <2>2. ASSUME Open, ~Broken PROVE wire \o outputBuf = [i \in 1..sent |-> i]
    <3>1. /\ wire \in Seq(1..sent) /\ outputBuf \in Seq(1..sent) /\ sent \in Nat
          /\ Len(wire) + Len(outputBuf) = sent
          /\ \A i \in 1..Len(outputBuf) : outputBuf[i] = Len(wire) + i
      BY <2>2 DEF Open, ConnectionInv, DataInv, DataTypes, Buffered
    <3> DEFINE all == wire \o outputBuf
               counted == [i \in 1..sent |-> i]
    <3>2. /\ all \in Seq(1..sent) /\ Len(all) = sent /\ Len(wire) \in Nat /\ Len(outputBuf) \in Nat
          /\ \A i \in 1..sent : all[i] = IF i <= Len(wire) THEN wire[i] ELSE outputBuf[i - Len(wire)]
      BY <3>1, ConcatType
    <3>3. counted \in Seq(1..sent) /\ Len(counted) = sent /\ \A i \in 1..sent : counted[i] = i
      BY <3>1, IsASeq
    <3> HIDE DEF all, counted
    <3>4. ASSUME NEW i \in 1..sent PROVE all[i] = i
      <4>1. CASE i <= Len(wire)
        <5>1. i \in 1..Len(wire)
          BY <3>1, <3>2, <4>1
        <5> QED BY <2>1, <3>2, <4>1, <5>1
      <4>2. CASE ~(i <= Len(wire))
        <5>1. i - Len(wire) \in 1..Len(outputBuf)
          BY <3>1, <3>2, <4>2
        <5>2. outputBuf[i - Len(wire)] = Len(wire) + (i - Len(wire))
          BY <3>1, <5>1
        <5>3. all[i] = outputBuf[i - Len(wire)]
          BY <3>2, <4>2
        <5> QED BY <3>1, <3>2, <5>2, <5>3
      <4> QED BY <4>1, <4>2
    <3>5. all = counted
      BY <3>2, <3>3, <3>4, SeqEqual
    <3> QED BY <3>5 DEF all, counted
  <2> QED BY <2>1, <2>2 DEF WireIsPrefix
<1> QED BY <1>1, InvHolds, PTL

(* What send leaves in outputBuf is watched for by handleWrite.             *)
THEOREM BufferWatched == Spec => []OutputWatched
<1>1. ConnectionInv => OutputWatched
  BY DEF ConnectionInv, DataInv, WatchedIfBuffered, StatusOfEvents, OutputWatched, Open
<1> QED BY <1>1, InvHolds, PTL

(* shutdownInLoop and handleWrite: SHUT_WR only when outputBuf is empty.    *)
THEOREM DrainedFirst == Spec => []HalfCloseAfterDrain
<1>1. ConnectionInv => HalfCloseAfterDrain
  BY DEF ConnectionInv, DataInv
<1> QED BY <1>1, InvHolds, PTL

(* handleClose, removeItself and forceCloseInLoop take the channel out of   *)
(* the poller, and close the descriptor only then.                          *)
THEOREM ClosedIsRemoved == Spec => []ClosedNotWatched
<1>1. ConnectionInv => ClosedNotWatched
  <2> SUFFICES ASSUME ConnectionInv PROVE ClosedNotWatched
    OBVIOUS
  <2>1. todo = <<>> => ~Due("remove")
    BY DEF Due
  <2> QED BY <2>1 DEF ConnectionInv, DataInv, TodoInv, Unwatched, FdClosed, ClosedNotWatched
<1> QED BY <1>1, InvHolds, PTL

(* A closed connection's steps only finish what is under way ...            *)
LEMMA ClosedCallsReturn ==
  ASSUME state = "disconnected", NEW t \in TaskRecs, t.op \in CallOps, NEW rest, NEW queue,
         InLoop(t, rest, queue)
  PROVE  todo' = rest
<1>1. CanForceClose => FALSE
  BY DEF CanForceClose
<1> QED BY <1>1, InLoopCases DEF SendInLoop, SendOutputBufInLoop, ShutdownInLoop, ForceCloseInLoop,
           FlowInLoop

LEMMA RestIsDue ==
  ASSUME TodoInv, todo # <<>>, todo' = Rest, Due("onMessage")'
  PROVE  Due("onMessage")
<1>1. /\ Len(todo) \in Nat /\ DOMAIN todo = 1..Len(todo) /\ DOMAIN Rest = 1..(Len(todo) - 1)
      /\ \A i \in 1..(Len(todo) - 1) : Rest[i] = todo[i + 1]
  BY TailType DEF Rest, TodoInv
<1>2. PICK i \in DOMAIN Rest : Rest[i] = "onMessage"
  BY DEF Due
<1>3. i + 1 \in DOMAIN todo /\ todo[i + 1] = "onMessage"
  BY <1>1, <1>2
<1> QED BY <1>3 DEF Due

LEMMA PollOwesNoMessage ==
  ASSUME Poll
  PROVE  ~Due("onMessage")'
<1> DEFINE S == {"otherChannel", "hup", "err", "read", "write"}
<1>1. todo' = <<"otherChannel">> \o HandleEvent(Revents)
  BY DEF Poll
<1> DEFINE hup == StepIf("HUP" \in Revents /\ "R" \notin Revents, "hup")
           err == StepIf("ERR" \in Revents, "err")
           read == StepIf("R" \in Revents, "read")
           write == StepIf("W" \in Revents, "write")
<1>2. HandleEvent(Revents) = hup \o err \o read \o write
  BY DEF HandleEvent
<1>3. "hup" \in S /\ "err" \in S /\ "read" \in S /\ "write" \in S /\ <<"otherChannel">> \in Seq(S)
  OBVIOUS
<1>4. hup \in Seq(S) /\ err \in Seq(S) /\ read \in Seq(S) /\ write \in Seq(S)
  <2> HIDE DEF S
  <2> QED BY <1>3, StepIfType
<1>5. todo' \in Seq(S)
  <2> HIDE DEF S, hup, err, read, write
  <2>1. hup \o err \in Seq(S)
    BY <1>4, ConcatType
  <2>2. hup \o err \o read \in Seq(S)
    BY <1>4, <2>1, ConcatType
  <2>3. hup \o err \o read \o write \in Seq(S)
    BY <1>4, <2>2, ConcatType
  <2> QED BY <1>1, <1>2, <1>3, <2>3, ConcatType
<1>6. \A i \in DOMAIN todo' : todo'[i] \in S
  <2> HIDE DEF S
  <2> QED BY <1>5, LenProperties, ElementOfSeq
<1> QED BY <1>6 DEF Due

LEMMA ClosedDeliversNothing ==
  ASSUME ConnectionInv, state = "disconnected", [Next]_vars, Due("onMessage")'
  PROVE  Due("onMessage")
<1>0. todo' = todo => Due("onMessage")
  BY DEF Due
<1>1. ASSUME NEW op, op # "onMessage", todo' = <<op>> PROVE FALSE
  BY <1>1 DEF Due
<1>2. CASE Poll
  BY <1>2, PollOwesNoMessage
<1>3. CASE OwnerStep
  <2>1. ~Delivers /\ ~NotClosed
    BY DEF Delivers, NotClosed
  <2>2. todo # <<>> /\ todo' = Rest
    BY <1>3, <2>1 DEF OwnerStep, CallbackReturns, HandleHup, HandleError, HandleRead, HandleWrite,
                      Remove, Close, Next1, HandleClose
  <2> QED BY <2>2, RestIsDue DEF ConnectionInv
<1>4. CASE RunTask
  <2> DEFINE t == Head(tasks)
  <2>1. todo = <<>> /\ t \in TaskRecs
    <3>1. todo = <<>> /\ tasks # <<>> /\ tasks \in Seq(TaskRecs)
      BY <1>4 DEF RunTask, ConnectionInv, TasksInv
    <3> QED BY <3>1, TailType
  <2>2. CASE t.op = "onConnection"
    BY <1>1, <1>4, <2>2 DEF RunTask, Establish
  <2>3. CASE t.op \in {"onWriteComplete", "onHighWaterMark"}
    BY <1>1, <1>4, <2>3 DEF RunTask, Calls
  <2>4. CASE t.op = "tie"
    BY <1>0, <1>4, <2>4 DEF RunTask
  <2>5. CASE t.op \notin {"onConnection", "onWriteComplete", "onHighWaterMark", "tie"}
    <3>1. InLoop(t, <<>>, Tail(tasks))
      BY <1>4, <2>5 DEF RunTask
    <3>2. t.op \in CallOps
      BY <2>1, <2>5 DEF TaskRecs, TaskOps, CallOps, FlowCalls
    <3> HIDE DEF t
    <3>3. todo' = <<>>
      BY <2>1, <3>1, <3>2, ClosedCallsReturn
    <3> QED BY <1>0, <2>1, <3>3
  <2> QED BY <2>2, <2>3, <2>4, <2>5
<1>5. CASE TimerFires
  <2>1. todo' = todo
    BY <1>5 DEF TimerFires, ForceCloseInLoop, CanForceClose
  <2> QED BY <1>0, <2>1
<1>6. ASSUME NEW t \in Call, OwnerCalls(t) PROVE todo' = todo
  <2>1. CASE t.op = "forceCloseLater"
    BY <1>6, <2>1 DEF OwnerCalls
  <2>2. CASE t.op # "forceCloseLater"
    <3>1. t \in TaskRecs /\ t.op \in CallOps /\ InLoop(t, todo, tasks)
      BY <1>6, <2>2, CallTypes DEF OwnerCalls
    <3> QED BY <3>1, ClosedCallsReturn
  <2> QED BY <2>1, <2>2
<1>7. ASSUME NEW t \in Call, OtherThreadCalls(t) PROVE todo' = todo
  BY <1>7 DEF OtherThreadCalls
<1>8. CASE PeerActs \/ PeerTakes \/ UNCHANGED vars
  BY <1>0, <1>8 DEF PeerActs, PeerTakes, vars
<1> QED BY <1>0, <1>2, <1>3, <1>4, <1>5, <1>6, <1>7, <1>8 DEF Next

(* ... so once onClose was called, no event of the same poll, no task and   *)
(* no call makes handleRead deliver.                                        *)
THEOREM NothingDeliveredAfterClose == Spec => NoMessageAfterClose
<1>1. ConnectionInv /\ [Next]_vars => [~Due("onMessage") /\ Due("onMessage")' => closes = 0]_vars
  <2> SUFFICES ASSUME ConnectionInv, [Next]_vars, ~Due("onMessage"), Due("onMessage")'
               PROVE  closes = 0
    BY DEF vars
  <2>1. state # "disconnected"
    BY ClosedDeliversNothing
  <2> QED BY <2>1 DEF ConnectionInv, DataInv, ClosesCounted
<1> QED BY <1>1, InvHolds, PTL DEF Spec, NoMessageAfterClose

-----------------------------------------------------------------------------
(* Every behaviour of TcpConnection is, seen through the mapping of Stream,  *)
(* a behaviour of ByteStream.                                                *)

(* A sequence that counts, as the wire does.                                 *)
LEMMA Counting ==
  ASSUME NEW m \in Nat, NEW w \in Seq(1..m), \A i \in 1..Len(w) : w[i] = i
  PROVE  Len(w) \in Nat /\ Len(w) <= m /\ w = [i \in 1..Len(w) |-> i]
<1> DEFINE counted == [i \in 1..Len(w) |-> i]
<1>1. Len(w) \in Nat /\ \A i \in 1..Len(w) : w[i] \in 1..m
  BY LenProperties, ElementOfSeq
<1>2. Len(w) <= m
  <2>1. CASE Len(w) = 0
    BY <2>1
  <2>2. CASE Len(w) # 0
    <3>1. Len(w) \in 1..Len(w)
      BY <1>1, <2>2
    <3> QED BY <1>1, <3>1
  <2> QED BY <2>1, <2>2
<1>3. counted \in Seq(1..m) /\ Len(counted) = Len(w) /\ \A i \in 1..Len(w) : counted[i] = i
  <2>1. \A i \in 1..Len(w) : i \in 1..m
    BY <1>1, <1>2
  <2> QED BY <1>1, <2>1, IsASeq
<1> HIDE DEF counted
<1>4. w = counted
  BY <1>3, SeqEqual
<1> QED BY <1>1, <1>2, <1>4 DEF counted

(* What a write of some data does to the wire's length.                      *)
LEMMA WroteMore ==
  ASSUME DataInv, NEW m \in Nat, sent <= m, NEW data \in Seq(1..m),
         NEW n, n = -1 \/ n \in WriteResults(Len(data)), Wrote(data, n)
  PROVE  /\ Len(wire) \in Nat /\ Len(wire') \in Nat /\ Len(wire') >= Len(wire)
         /\ Len(wire') > Len(wire) => ~Broken
         /\ n <= 0 => wire' = wire
         /\ peer'.rst = "no" <=> peer.rst = "no"
<1>1. /\ Len(data) \in Nat /\ inFlight \in 0..SndBuf /\ wire \in Seq(1..sent) /\ sent \in Nat
      /\ PeerOK
  BY LenProperties DEF DataInv, DataTypes
<1>2. n \in -2..Len(data) /\ (n > 0 => ~Broken)
  BY <1>1, WriteResult
<1>3. Taken(n) \in 0..Len(data) /\ (n <= 0 => Taken(n) = 0)
  BY <1>1, <1>2 DEF Taken
<1> DEFINE part == SubSeq(data, 1, Taken(n))
<1>4. part \in Seq(1..m) /\ Len(part) = Taken(n)
  <2>1. IsTake(1..m, data, Taken(n), part)
    BY Zenon, <1>2, Splits
  <2> QED BY <2>1 DEF IsTake
<1>5. wire \in Seq(1..m)
  <2>1. 1..sent \subseteq 1..m
    BY <1>1
  <2> QED BY <1>1, <2>1, SeqMonotonic
<1>6. wire' = wire \o part
  BY DEF Wrote
<1> HIDE DEF part
<1>7. Len(wire) \in Nat /\ Len(wire') = Len(wire) + Taken(n)
  BY <1>4, <1>5, <1>6, ConcatType
<1>8. n <= 0 => wire' = wire
  <2> SUFFICES ASSUME n <= 0 PROVE wire' = wire
    OBVIOUS
  <2>1. part = <<>>
    BY <1>3, <1>4, EmptySeq
  <2> QED BY <1>5, <1>6, <2>1, ConcatEmptySeq
<1>9. peer'.rst = "no" <=> peer.rst = "no"
  <2>1. CASE n = -2 /\ peer.rst = "pending"
    <3>1. peer' = [peer EXCEPT !.rst = "taken"]
      BY <2>1 DEF Wrote
    <3> QED BY <1>1, <2>1, <3>1 DEF PeerOK
  <2>2. CASE ~(n = -2 /\ peer.rst = "pending")
    BY <2>2 DEF Wrote
  <2> QED BY <2>1, <2>2
<1>10. Len(wire') > Len(wire) => n > 0
  BY <1>2, <1>3, <1>7
<1> QED BY <1>2, <1>3, <1>7, <1>8, <1>9, <1>10

(* The part of the state that the stream consists of, as it was.             *)
StreamFlags == /\ wrShut' = wrShut /\ manual' = manual
               /\ (state' = "disconnected") <=> (state = "disconnected")
               /\ (peer'.rst = "no") <=> (peer.rst = "no")
StreamSame == wire' = wire /\ sent' = sent /\ StreamFlags

LEMMA SameStream ==
  ASSUME StreamSame
  PROVE  UNCHANGED Stream!vars
BY DEF StreamSame, StreamFlags, Stream!vars

LEMMA WireCounts ==
  ASSUME DataInv, DataInv'
  PROVE  /\ sent \in Nat /\ Len(wire) \in Nat /\ Len(wire) <= sent
         /\ sent' \in Nat /\ Len(wire') \in Nat /\ Len(wire') <= sent'
         /\ wire' = [i \in 1..Len(wire') |-> i]
<1>1. /\ sent \in Nat /\ wire \in Seq(1..sent) /\ \A i \in 1..Len(wire) : wire[i] = i
  BY DEF DataInv, DataTypes, OnWire
<1>2. /\ sent' \in Nat /\ wire' \in Seq(1..sent') /\ \A i \in 1..Len(wire') : wire'[i] = i
  BY DEF DataInv, DataTypes, OnWire
<1>3. Len(wire) \in Nat /\ Len(wire) <= sent
  BY <1>1, Counting
<1>4. Len(wire') \in Nat /\ Len(wire') <= sent' /\ wire' = [i \in 1..Len(wire') |-> i]
  BY <1>2, Counting
<1> QED BY <1>1, <1>2, <1>3, <1>4

(* A write goes out only while it may, and leaves the first bytes there.     *)
LEMMA WireReaches ==
  ASSUME DataInv, DataInv', state # "disconnected", Len(wire') >= Len(wire),
         Len(wire') > Len(wire) => ~Broken
  PROVE  Len(wire') \in Len(wire)..sent' /\ Stream!Reaches(Len(wire'))
<1>1. /\ Len(wire) \in Nat /\ sent' \in Nat /\ Len(wire') \in Nat /\ Len(wire') <= sent'
      /\ wire' = [i \in 1..Len(wire') |-> i]
  BY WireCounts
<1>2. Len(wire') > Len(wire) => Stream!CanWrite
  BY DEF Stream!CanWrite, Broken
<1> QED BY <1>1, <1>2 DEF Stream!Reaches

LEMMA SendStreams ==
  ASSUME DataInv, DataInv', NEW len \in Lens, NEW rest, NEW queue,
         SendInLoop(len, rest, queue), manual' = manual
  PROVE  [Stream!Next]_(Stream!vars)
<1>1. CASE state = "disconnected"
  <2>1. StreamSame
    BY <1>1 DEF SendInLoop, conn, sock, StreamSame, StreamFlags
  <2> QED BY <2>1, SameStream
<1>2. CASE state # "disconnected"
  <2> DEFINE data == [i \in 1..len |-> sent + i]
  <2>1. PICK n \in IF WritesDirectly THEN WriteResults(len) ELSE {-1} :
           sent' = sent + len /\ Wrote(data, n) /\ UNCHANGED <<state, wrShut>>
    BY <1>2 DEF SendInLoop
  <2>2. sent \in Nat /\ sent' \in Nat /\ len \in Nat /\ sent <= sent'
    BY <2>1, ConstantsAssumption DEF DataInv, DataTypes
  <2>3. data \in Seq(1..sent') /\ Len(data) = len
    <3>1. \A i \in 1..len : sent + i \in 1..sent'
      BY <2>1, <2>2
    <3> QED BY <2>2, <3>1, IsASeq
  <2> HIDE DEF data
  <2>4. n = -1 \/ n \in WriteResults(Len(data))
    BY <2>1, <2>3
  <2>5. /\ Len(wire') >= Len(wire) /\ (Len(wire') > Len(wire) => ~Broken)
        /\ (peer'.rst = "no" <=> peer.rst = "no")
    BY <2>1, <2>2, <2>3, <2>4, WroteMore
  <2>6. Len(wire') \in Len(wire)..sent' /\ Stream!Reaches(Len(wire'))
    BY <1>2, <2>5, WireReaches
  <2>7. Stream!Send
    BY <1>2, <2>1, <2>5, <2>6 DEF Stream!Send
  <2> QED BY <2>7 DEF Stream!Next
<1> QED BY <1>1, <1>2

(* A write of outputBuf, which may end the stream when it empties it.        *)
LEMMA BufferStreams ==
  ASSUME DataInv, DataInv', state # "disconnected",
         NEW n \in WriteResults(Len(outputBuf)), Wrote(outputBuf, n),
         UNCHANGED <<state, sent, manual>>,
         \/ wrShut' = wrShut
         \/ wrShut' = TRUE /\ Len(wire') > Len(wire) /\ Len(wire') = sent
  PROVE  [Stream!Next]_(Stream!vars)
<1>1. sent \in Nat /\ outputBuf \in Seq(1..sent)
  BY DEF DataInv, DataTypes
<1>2. /\ Len(wire) \in Nat /\ Len(wire') \in Nat /\ Len(wire') >= Len(wire)
      /\ (Len(wire') > Len(wire) => ~Broken)
      /\ (peer'.rst = "no" <=> peer.rst = "no")
  BY <1>1, WroteMore
<1>3. CASE Len(wire') = Len(wire)
  <2>1. wire' = wire
    BY <1>3, WireCounts, Counting DEF DataInv, DataTypes, OnWire
  <2>2. StreamSame
    BY <1>2, <1>3, <2>1 DEF StreamSame, StreamFlags
  <2> QED BY <2>2, SameStream
<1>4. CASE Len(wire') # Len(wire)
  <2>1. Len(wire') \in Len(wire)..sent /\ Stream!Reaches(Len(wire'))
    BY <1>2, WireReaches
  <2>2. Len(wire') \in (Len(wire) + 1)..sent
    BY <1>1, <1>2, <1>4, <2>1
  <2>3. wrShut = FALSE
    BY <1>2, <1>4 DEF Broken, DataInv, DataTypes
  <2>4. wrShut' \in {FALSE, Len(wire') = sent}
    BY <2>3
  <2>5. Stream!Transfer
    BY <1>2, <2>1, <2>2, <2>4 DEF Stream!Transfer
  <2> QED BY <2>5 DEF Stream!Next
<1> QED BY <1>3, <1>4

LEMMA SendOutputBufStreams ==
  ASSUME DataInv, DataInv', NEW rest, NEW queue, SendOutputBufInLoop(rest, queue), manual' = manual
  PROVE  [Stream!Next]_(Stream!vars)
<1>1. CASE state = "disconnected" \/ "W" \in events \/ outputBuf = <<>>
  <2>1. StreamSame
    BY <1>1 DEF SendOutputBufInLoop, conn, sock, StreamSame, StreamFlags
  <2> QED BY <2>1, SameStream
<1>2. CASE ~(state = "disconnected" \/ "W" \in events \/ outputBuf = <<>>)
  <2>1. PICK n \in WriteResults(Len(outputBuf)) :
           Wrote(outputBuf, n) /\ UNCHANGED <<state, wrShut, sent>>
    BY <1>2 DEF SendOutputBufInLoop
  <2> QED BY <1>2, <2>1, BufferStreams
<1> QED BY <1>1, <1>2

LEMMA ShutdownStreams ==
  ASSUME DataInv, NEW rest, NEW queue, ShutdownInLoop(rest, queue), manual' = manual
  PROVE  [Stream!Next]_(Stream!vars)
<1>1. CASE ~CanShutdown \/ ~NothingToWrite \/ wrShut
  <2>1. wrShut \in BOOLEAN
    BY DEF DataInv, DataTypes
  <2>2. wrShut' = wrShut
    <3>1. CASE ~CanShutdown
      BY <3>1 DEF ShutdownInLoop
    <3>2. CASE CanShutdown
      <4>1. wrShut' = (wrShut \/ NothingToWrite) /\ (~NothingToWrite \/ wrShut)
        BY <1>1, <3>2 DEF ShutdownInLoop
      <4> QED BY Zenon, <2>1, <4>1
    <3> QED BY <3>1, <3>2
  <2>3. /\ state' = state \/ (state = "connected" /\ state' = "disconnecting")
        /\ UNCHANGED <<wire, sent, peer>>
    BY DEF ShutdownInLoop, CanShutdown
  <2>4. StreamSame
    BY <2>2, <2>3 DEF StreamSame, StreamFlags
  <2> QED BY <2>4, SameStream
<1>2. CASE CanShutdown /\ NothingToWrite /\ ~wrShut
  <2>1. /\ state = "connected" /\ state' = "disconnecting" /\ wrShut' = TRUE
        /\ UNCHANGED <<wire, sent, peer, manual>>
    BY <1>2 DEF ShutdownInLoop, CanShutdown
  <2>2. Len(wire) = sent \/ peer.rst # "no" \/ manual
    <3> SUFFICES ASSUME peer.rst = "no", ~manual PROVE Len(wire) = sent
      OBVIOUS
    <3>1. outputBuf = <<>>
      BY <1>2, <2>1 DEF DataInv, WatchedIfBuffered, NothingToWrite
    <3>2. Len(wire) + Len(outputBuf) = sent
      BY <1>2, <2>1 DEF DataInv, Buffered, Broken
    <3>3. Len(wire) \in Nat
      BY LenProperties DEF DataInv, DataTypes
    <3> QED BY <3>1, <3>2, <3>3
  <2>3. Stream!Finish
    BY <1>2, <2>1, <2>2 DEF Stream!Finish
  <2> QED BY <2>3 DEF Stream!Next
<1> QED BY <1>1, <1>2

LEMMA CloseStreams ==
  ASSUME NEW then, NEW rest, NEW queue, HandleClose(then, rest, queue),
         UNCHANGED <<wire, wrShut, manual>>, (peer'.rst = "no") <=> (peer.rst = "no")
  PROVE  [Stream!Next]_(Stream!vars)
<1>1. sent' = sent
  BY DEF HandleClose
<1>2. CASE state = "disconnected"
  <2>1. StreamSame
    BY <1>1, <1>2 DEF HandleClose, NotClosed, StreamSame, StreamFlags
  <2> QED BY <2>1, SameStream
<1>3. CASE state # "disconnected"
  <2>1. state' = "disconnected"
    BY <1>3 DEF HandleClose, NotClosed
  <2>2. Stream!Close
    BY <1>1, <1>3, <2>1 DEF Stream!Close
  <2> QED BY <2>2 DEF Stream!Next
<1> QED BY <1>2, <1>3

LEMMA ForceCloseStreams ==
  ASSUME NEW rest, NEW queue, ForceCloseInLoop(rest, queue), manual' = manual
  PROVE  [Stream!Next]_(Stream!vars)
<1>1. CASE CanForceClose
  BY <1>1, CloseStreams DEF ForceCloseInLoop, sock
<1>2. CASE ~CanForceClose
  <2>1. StreamSame
    BY <1>2 DEF ForceCloseInLoop, conn, sock, StreamSame, StreamFlags
  <2> QED BY <2>1, SameStream
<1> QED BY <1>1, <1>2

(* enableWrite and disableWrite change the stream in being called only.      *)
OnlyManual == /\ UNCHANGED <<wire, sent, wrShut, state, peer>>
              /\ manual' \in BOOLEAN /\ (manual => manual')

LEMMA ManualStreams ==
  ASSUME manual \in BOOLEAN, OnlyManual
  PROVE  [Stream!Next]_(Stream!vars)
<1>1. CASE manual' = manual
  <2>1. StreamSame
    BY <1>1 DEF OnlyManual, StreamSame, StreamFlags
  <2> QED BY <2>1, SameStream
<1>2. CASE manual' # manual
  <2>1. ~manual /\ manual' = TRUE
    BY <1>2 DEF OnlyManual
  <2>2. Stream!TakeOver
    BY <2>1 DEF OnlyManual, Stream!TakeOver
  <2> QED BY <2>2 DEF Stream!Next
<1> QED BY <1>1, <1>2

LEMMA InLoopStreams ==
  ASSUME ConnectionInv, DataInv', NEW t \in TaskRecs, t.op \in CallOps, NEW rest, NEW queue,
         InLoop(t, rest, queue), manual' \in BOOLEAN, manual => manual',
         t.op \notin {"enableWrite", "disableWrite"} => manual' = manual
  PROVE  [Stream!Next]_(Stream!vars)
<1> USE DEF ConnectionInv
<1>1. CASE t.op = "send"
  <2>1. t.len \in Lens
    BY <1>1 DEF TaskRecs, TaskOps
  <2>2. SendInLoop(t.len, rest, queue) /\ manual' = manual
    BY <1>1 DEF InLoop
  <2> QED BY <2>1, <2>2, SendStreams
<1>2. CASE t.op = "sendOutputBuf" /\ SendOutputBufInLoop(rest, queue)
  BY <1>2, SendOutputBufStreams
<1>3. CASE t.op = "shutdown" /\ ShutdownInLoop(rest, queue)
  BY <1>3, ShutdownStreams
<1>4. CASE t.op = "forceClose" /\ ForceCloseInLoop(rest, queue)
  BY <1>4, ForceCloseStreams
<1>5. ASSUME NEW e \in {"R", "W"}, NEW flag \in {isRead, isWrite}, NEW on \in BOOLEAN,
             FlowInLoop(e, flag, on, rest, queue)
      PROVE  [Stream!Next]_(Stream!vars)
  <2>1. OnlyManual /\ manual \in BOOLEAN
    BY <1>5 DEF FlowInLoop, sock, OnlyManual, CallsCounted
  <2> QED BY <2>1, ManualStreams
<1> QED BY <1>1, <1>2, <1>3, <1>4, <1>5, InLoopCases

(* handleWrite ends the stream only in the step that writes the last byte.   *)
LEMMA HandleWriteStreams ==
  ASSUME DataInv, DataInv', HandleWrite
  PROVE  [Stream!Next]_(Stream!vars)
<1>0. manual' = manual
  BY DEF HandleWrite
<1>1. CASE state = "disconnected" \/ "W" \notin events
  <2>1. StreamSame
    BY <1>0, <1>1 DEF HandleWrite, conn, sock, StreamSame, StreamFlags
  <2> QED BY <2>1, SameStream
<1>2. CASE ~(state = "disconnected" \/ "W" \notin events)
  <2>1. PICK n \in WriteResults(Len(outputBuf)) :
           /\ Wrote(outputBuf, n)
           /\ IF n < 0
              THEN HandleClose(<<>>, Rest, tasks) /\ UNCHANGED wrShut
              ELSE /\ outputBuf' = Drop(outputBuf, n)
                   /\ IF n > 0 /\ outputBuf' = <<>>
                      THEN wrShut' = HalfCloseWhenDrained
                      ELSE UNCHANGED wrShut
                   /\ UNCHANGED <<state, sent>>
    BY <1>2 DEF HandleWrite
  <2>2. /\ sent \in Nat /\ outputBuf \in Seq(1..sent) /\ Len(outputBuf) \in Nat /\ wrShut \in BOOLEAN
        /\ wire \in Seq(1..sent) /\ Len(wire) \in Nat /\ inFlight \in 0..SndBuf
    BY LenProperties DEF DataInv, DataTypes
  <2>3. n \in -2..Len(outputBuf) /\ (n = -2 <=> Broken)
    BY <2>2, WriteResult
  <2>4. CASE n < 0
    <3>1. HandleClose(<<>>, Rest, tasks) /\ wrShut' = wrShut
      BY <2>1, <2>4
    <3>2. wire' = wire /\ (peer'.rst = "no" <=> peer.rst = "no")
      BY <2>1, <2>2, <2>3, <2>4, WroteMore
    <3> QED BY <1>0, <3>1, <3>2, CloseStreams
  <2>5. CASE n > 0 /\ outputBuf' = <<>>
    <3>1. /\ UNCHANGED <<state, sent>> /\ outputBuf' = Drop(outputBuf, n)
          /\ wrShut' = HalfCloseWhenDrained
      BY <2>1, <2>3, <2>5
    <3>2. ~Broken /\ Len(wire) + Len(outputBuf) = sent
      BY <1>2, <2>3, <2>5 DEF DataInv, Buffered
    <3>3. Len(outputBuf) = n
      <4>1. Taken(n) = n
        BY <2>3, <2>5 DEF Taken
      <4>2. IsRest(1..sent, outputBuf, Taken(n), Drop(outputBuf, n))
        BY Zenon, <2>2, <2>3, Splits
      <4>3. Len(Drop(outputBuf, n)) = Len(outputBuf) - n
        BY <4>1, <4>2 DEF IsRest
      <4> QED BY <2>2, <2>3, <2>5, <3>1, <4>3
    <3>4. Len(wire') = Len(wire) + n
      <4>1. \A i \in 1..Len(outputBuf) : outputBuf[i] = Len(wire) + i
        BY <1>2, <3>2 DEF DataInv, Buffered
      <4>2. Len(wire') = Len(wire) + Taken(n)
        BY <2>1, <2>2, <4>1, WroteData
      <4> QED BY <2>2, <2>3, <2>5, <4>2 DEF Taken
    <3>5. Len(wire') > Len(wire) /\ Len(wire') = sent
      BY <2>2, <2>3, <2>5, <3>2, <3>3, <3>4
    <3>6. wrShut' = wrShut \/ wrShut' = TRUE
      BY Zenon, <2>2, <3>1 DEF HalfCloseWhenDrained
    <3> QED BY <1>0, <1>2, <2>1, <3>1, <3>5, <3>6, BufferStreams
  <2>6. CASE n >= 0 /\ ~(n > 0 /\ outputBuf' = <<>>)
    <3>1. UNCHANGED <<state, sent, wrShut>>
      BY <2>1, <2>3, <2>6
    <3> QED BY <1>0, <1>2, <2>1, <3>1, BufferStreams
  <2> QED BY <2>3, <2>4, <2>5, <2>6
<1> QED BY <1>1, <1>2

LEMMA ErrorStreams ==
  ASSUME DataInv, TakeError
  PROVE  (peer'.rst = "no") <=> (peer.rst = "no")
<1>1. PeerOK
  BY DEF DataInv, DataTypes
<1>2. CASE peer.rst = "pending"
  <2>1. peer' = [peer EXCEPT !.rst = "taken"]
    BY <1>2 DEF TakeError
  <2> QED BY <1>1, <1>2, <2>1 DEF PeerOK
<1>3. CASE peer.rst # "pending"
  BY <1>3 DEF TakeError
<1> QED BY <1>2, <1>3

LEMMA OwnerStepStreams ==
  ASSUME DataInv, DataInv', OwnerStep
  PROVE  [Stream!Next]_(Stream!vars)
<1>1. CASE CallbackReturns
  <2>1. StreamSame
    BY <1>1 DEF CallbackReturns, conn, sock, StreamSame, StreamFlags
  <2> QED BY <2>1, SameStream
<1>2. CASE HandleHup
  BY <1>2, CloseStreams DEF HandleHup, sock
<1>3. CASE HandleError
  <2>1. (peer'.rst = "no") <=> (peer.rst = "no")
    BY <1>3, ErrorStreams DEF HandleError
  <2>2. StreamSame
    BY <1>3, <2>1 DEF HandleError, conn, StreamSame, StreamFlags
  <2> QED BY <2>2, SameStream
<1>4. CASE HandleRead
  <2>0. manual' = manual
    BY <1>4 DEF HandleRead
  <2>1. CASE ~Delivers /\ state # "disconnected" /\ ReadsEof
    <3>1. HandleClose(<<>>, Rest, tasks) /\ UNCHANGED sock
      BY <1>4, <2>1 DEF HandleRead
    <3> QED BY <2>0, <3>1, CloseStreams DEF sock
  <2>2. CASE Delivers \/ ~(state # "disconnected" /\ ReadsEof)
    <3>1. UNCHANGED <<conn, wire, wrShut, sent>>
      BY <1>4, <2>2 DEF HandleRead
    <3>2. (peer'.rst = "no") <=> (peer.rst = "no")
      <4>1. CASE Delivers
        <5>1. PeerOK /\ peer' = [peer EXCEPT !.data = FALSE]
          BY <1>4, <4>1 DEF HandleRead, DataInv, DataTypes
        <5> QED BY <5>1 DEF PeerOK
      <4>2. CASE ~Delivers
        <5>1. IF state = "disconnected" THEN UNCHANGED peer ELSE TakeError
          BY <1>4, <2>2, <4>2 DEF HandleRead
        <5> QED BY <5>1, ErrorStreams
      <4> QED BY <4>1, <4>2
    <3>3. StreamSame
      BY <2>0, <3>1, <3>2 DEF conn, StreamSame, StreamFlags
    <3> QED BY <3>3, SameStream
  <2> QED BY <2>1, <2>2
<1>5. CASE HandleWrite
  BY <1>5, HandleWriteStreams
<1>6. CASE Remove \/ Close
  <2>1. StreamSame
    BY <1>6 DEF Remove, Close, conn, sock, StreamSame, StreamFlags
  <2> QED BY <2>1, SameStream
<1> QED BY <1>1, <1>2, <1>3, <1>4, <1>5, <1>6 DEF OwnerStep

LEMMA RunTaskStreams ==
  ASSUME ConnectionInv, DataInv', RunTask
  PROVE  [Stream!Next]_(Stream!vars)
<1> DEFINE t == Head(tasks)
<1>1. tasks # <<>> /\ tasks \in Seq(TaskRecs) /\ manual' = manual /\ manual \in BOOLEAN
  BY DEF RunTask, ConnectionInv, TasksInv, CallsCounted
<1>2. t \in TaskRecs /\ t = tasks[1] /\ 1 \in DOMAIN tasks
  <2>1. Len(tasks) > 0 /\ Len(tasks) \in Nat /\ DOMAIN tasks = 1..Len(tasks)
    BY <1>1, TailType
  <2> QED BY <1>1, <2>1, TailType
<1>3. CASE t.op = "onConnection"
  <2>1. Establish /\ state = "connecting"
    BY <1>2, <1>3 DEF RunTask, ConnectionInv, TasksInv, OnConnectionFirst
  <2>2. StreamSame
    BY <1>1, <2>1 DEF Establish, sock, StreamSame, StreamFlags
  <2> QED BY <2>2, SameStream
<1>4. CASE t.op \in {"onWriteComplete", "onHighWaterMark"}
  <2>1. StreamSame
    BY <1>1, <1>4 DEF RunTask, Calls, conn, sock, StreamSame, StreamFlags
  <2> QED BY <2>1, SameStream
<1>5. CASE t.op = "tie"
  <2>1. StreamSame
    BY <1>1, <1>5 DEF RunTask, conn, sock, StreamSame, StreamFlags
  <2> QED BY <2>1, SameStream
<1>6. CASE t.op \notin {"onConnection", "onWriteComplete", "onHighWaterMark", "tie"}
  <2>1. InLoop(t, <<>>, Tail(tasks))
    BY <1>6 DEF RunTask
  <2>2. t.op \in CallOps
    BY <1>2, <1>6 DEF TaskRecs, TaskOps, CallOps, FlowCalls
  <2> HIDE DEF t
  <2> QED BY <1>1, <1>2, <2>1, <2>2, InLoopStreams
<1> QED BY <1>3, <1>4, <1>5, <1>6

LEMMA CallStreams ==
  ASSUME ConnectionInv, DataInv', NEW t \in Call, OwnerCalls(t) \/ OtherThreadCalls(t)
  PROVE  [Stream!Next]_(Stream!vars)
<1>1. manual \in BOOLEAN /\ manual' = (manual \/ t.op \in {"enableWrite", "disableWrite"})
  BY DEF OwnerCalls, OtherThreadCalls, Counted, ConnectionInv, CallsCounted
<1>2. /\ manual' \in BOOLEAN /\ (manual => manual')
      /\ t.op \notin {"enableWrite", "disableWrite"} => manual' = manual
  BY <1>1, Zenon
<1>3. CASE OwnerCalls(t) /\ t.op # "forceCloseLater"
  <2>1. t \in TaskRecs /\ t.op \in CallOps /\ InLoop(t, todo, tasks)
    BY <1>3, CallTypes DEF OwnerCalls
  <2> QED BY <1>2, <2>1, InLoopStreams
<1>4. CASE OtherThreadCalls(t) \/ t.op = "forceCloseLater"
  <2>1. OnlyManual
    BY <1>2, <1>4 DEF OwnerCalls, OtherThreadCalls, conn, sock, OnlyManual
  <2> QED BY <1>1, <2>1, ManualStreams
<1> QED BY <1>3, <1>4

LEMMA PeerStreams ==
  ASSUME DataInv, PeerActs \/ PeerTakes
  PROVE  [Stream!Next]_(Stream!vars)
<1>1. PeerOK /\ UNCHANGED <<wire, sent, wrShut, state, manual>>
  BY DEF PeerActs, PeerTakes, DataInv, DataTypes, conn
<1>2. CASE (PeerActs /\ (PeerSends \/ PeerCloses)) \/ PeerTakes
  <2>1. (peer'.rst = "no") <=> (peer.rst = "no")
    BY <1>1, <1>2 DEF PeerSends, PeerCloses, PeerTakes, PeerOK
  <2>2. StreamSame
    BY <1>1, <2>1 DEF StreamSame, StreamFlags
  <2> QED BY <2>2, SameStream
<1>3. CASE PeerActs /\ PeerResets
  <2>1. peer.rst = "no" /\ peer'.rst = "pending"
    BY <1>1, <1>3 DEF PeerResets, PeerOK
  <2>2. Stream!Reset
    BY <1>1, <2>1 DEF Stream!Reset
  <2> QED BY <2>2 DEF Stream!Next
<1> QED BY <1>2, <1>3 DEF PeerActs

LEMMA StreamStep == ConnectionInv /\ ConnectionInv' /\ [Next]_vars => [Stream!Next]_(Stream!vars)
<1> SUFFICES ASSUME ConnectionInv, DataInv', [Next]_vars PROVE [Stream!Next]_(Stream!vars)
  BY DEF ConnectionInv
<1>0. DataInv
  BY DEF ConnectionInv
<1>1. CASE Poll \/ UNCHANGED vars
  <2>1. StreamSame
    BY <1>1 DEF Poll, vars, conn, sock, StreamSame, StreamFlags
  <2> QED BY <2>1, SameStream
<1>2. CASE OwnerStep
  BY <1>0, <1>2, OwnerStepStreams
<1>3. CASE RunTask
  BY <1>3, RunTaskStreams
<1>4. CASE TimerFires
  BY <1>4, ForceCloseStreams DEF TimerFires
<1>5. ASSUME NEW t \in Call, OwnerCalls(t) \/ OtherThreadCalls(t)
      PROVE  [Stream!Next]_(Stream!vars)
  BY <1>5, CallStreams
<1>6. CASE PeerActs \/ PeerTakes
  BY <1>0, <1>6, PeerStreams
<1> QED BY <1>1, <1>2, <1>3, <1>4, <1>5, <1>6 DEF Next

LEMMA StreamInit == Init => Stream!Init
BY DEF Init, Stream!Init

(* TcpConnection implements ByteStream: the bytes given to send reach the    *)
(* socket in order, however sends, partial writes, handleWrite, shutdown and *)
(* the closing interleave, and the half-close follows the last of them.      *)
THEOREM ImplementsStream == Spec => ImplementsByteStream
<1>1. Spec => Stream!Init /\ [][Stream!Next]_(Stream!vars)
  BY InitHolds, InvKept, StreamInit, StreamStep, PTL DEF Spec
<1> QED BY <1>1 DEF ImplementsByteStream, Stream!Spec
==============================================================================
