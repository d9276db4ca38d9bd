---------------------------- MODULE TcpConnection ----------------------------
(***************************************************************************)
(* One TcpConnection: its socket, its output buffer, its registration with *)
(* the (epoll) poller of the loop that owns it, and the calls the user     *)
(* makes on it from the owner's callbacks and from other threads.          *)
(*                                                                         *)
(* Everything but the public calls runs on the owner's thread. `todo` is   *)
(* what that thread still has to do, innermost first: the steps of         *)
(* Channel::handleEvent, of removeItself and of forceCloseInLoop, and the  *)
(* user's callbacks, during which it may call the connection again. When   *)
(* `todo` is empty the thread is back in EventLoop::loop, which runs the   *)
(* queued tasks in order (TaskQueue) between polls.                        *)
(***************************************************************************)
EXTENDS Integers, Sequences

CONSTANTS Ops,           \* the public calls that users make
          Lens,          \* the sizes of the data they send
          SndBuf,        \* capacity of the kernel's send buffer
          HighWaterMark,
          MaxCalls       \* bound on the number of public calls

ASSUME ConstantsAssumption ==
    /\ Ops \subseteq {"send", "sendOutputBuf", "shutdown", "forceClose", "forceCloseLater",
                      "enableRead", "disableRead", "enableWrite", "disableWrite"}
    /\ Lens \subseteq Nat \ {0} /\ SndBuf \in Nat \ {0}
    /\ HighWaterMark \in Nat \ {0} /\ MaxCalls \in Nat

VARIABLES state,         \* TcpConnection::state
          events,        \* Channel::events: subset of {"R", "W"}
          status,        \* Channel::index as EpollPoller uses it
          isRead, isWrite,    \* TcpConnection's flags of the same names
          fdOpen,        \* the socket is open: fd >= 0
          outputBuf,     \* the bytes the connection keeps, by their number
          tasks,         \* what this connection has in the loop's task queue
          timers,        \* how many delayed forceClose timers are armed
          todo,          \* what the owner's thread is in the middle of
          wire,          \* the bytes written to the socket so far
          inFlight,      \* how many of them the peer has not taken
          wrShut,        \* shutdown(SHUT_WR) was called
          peer,          \* what the peer has sent, see PeerOK
          sent,          \* how many bytes were passed to send on the owner's thread
          closes,        \* how often onClose was called
          high,          \* onHighWaterMark was called and no onWriteComplete since
          manual,        \* the user has called enableWrite or disableWrite
          late,          \* a call of FlowCalls ran after the close
          calls          \* how many public calls were made

conn == <<state, events, status, isRead, isWrite, outputBuf>>
sock == <<fdOpen, wire, inFlight, wrShut, peer>>
ghosts == <<closes, high, late>>
vars == <<conn, sock, ghosts, tasks, timers, todo, sent, calls, manual>>

Callbacks == {"onConnection", "onMessage", "onClose", "onWriteComplete",
              "onHighWaterMark", "otherChannel"}

(* data: unread input; fin: the peer's FIN; rst: none, or its error pending  *)
(* as SO_ERROR, or that error already taken.                                 *)
PeerOK == peer \in [data : BOOLEAN, fin : BOOLEAN, rst : {"no", "pending", "taken"}]

TypeOK == /\ state \in {"connecting", "connected", "disconnecting", "disconnected"}
          /\ events \subseteq {"R", "W"}
          /\ status \in {"ready", "normal", "removed"}
          /\ isRead \in BOOLEAN /\ isWrite \in BOOLEAN /\ fdOpen \in BOOLEAN
          /\ wrShut \in BOOLEAN /\ high \in BOOLEAN
          /\ outputBuf \in Seq(1..sent) /\ wire \in Seq(1..sent)
          /\ inFlight \in 0..SndBuf
          /\ PeerOK
          /\ closes \in 0..1
          /\ {todo[i] : i \in DOMAIN todo} \subseteq Callbacks \union {"hup", "err", "read", "write",
                                                     "remove", "close"}
          /\ calls \in 0..MaxCalls /\ timers \in 0..MaxCalls
          /\ manual \in BOOLEAN /\ late \in BOOLEAN

(* TcpServer::onConnection has made the connection and queued onConnection.  *)
Init == /\ state = "connecting" /\ events = {} /\ status = "ready"
        /\ isRead = TRUE /\ isWrite = FALSE /\ fdOpen = TRUE
        /\ outputBuf = <<>> /\ tasks = <<[op |-> "onConnection"]>> /\ timers = 0
        /\ todo = <<>>
        /\ wire = <<>> /\ inFlight = 0 /\ wrShut = FALSE
        /\ peer = [data |-> FALSE, fin |-> FALSE, rst |-> "no"]
        /\ sent = 0 /\ closes = 0 /\ high = FALSE /\ calls = 0
        /\ manual = FALSE /\ late = FALSE

-----------------------------------------------------------------------------
(* The poller and the socket *)

(* Channel::enable/disable*Event: the new interest set, and what            *)
(* EpollPoller::updateChannel makes of it.                                  *)
Watch(ev) == /\ events' = ev
             /\ status' = IF status = "normal" /\ ev = {} THEN "removed" ELSE "normal"

Broken == wrShut \/ peer.rst # "no"
Free == SndBuf - inFlight

(* sockets::write of len bytes: how many it takes, -1 when it would block,  *)
(* -2 for EPIPE or ECONNRESET.                                              *)
WriteResults(len) == CASE Broken -> {-2}
                       [] ~Broken /\ len = 0 -> {0}
                       [] ~Broken /\ len > 0 /\ Free = 0 -> {-1}
                       [] OTHER -> {n \in 1..len : n <= Free}

Taken(n) == IF n < 0 THEN 0 ELSE n

(* The socket after a write of a prefix of data returned n. *)
Wrote(data, n) ==
    /\ wire' = wire \o SubSeq(data, 1, Taken(n))
    /\ inFlight' = inFlight + Taken(n)
    /\ peer' = IF n = -2 /\ peer.rst = "pending" THEN [peer EXCEPT !.rst = "taken"] ELSE peer

Drop(data, n) == SubSeq(data, Taken(n) + 1, Len(data))

Task(op) == [op |-> op]

-----------------------------------------------------------------------------
(* The calls, in the owner's loop. `rest` is what the thread does next and  *)
(* `queue` the task queue as the caller found it.                           *)

(* sendInLoop, sendInLoopStr, sendInLoopBuf: write directly when nothing is *)
(* buffered or watched, keep what is left and watch for writing.            *)
Mutant_WritesPastBuffer == "W" \notin events
WritesDirectly == "W" \notin events /\ outputBuf = <<>>

Mutant_KeepsWithoutWatch(data) == outputBuf' = outputBuf \o data /\ UNCHANGED <<events, status>>
Keep(data) == /\ outputBuf' = outputBuf \o data
              /\ IF "W" \in events THEN UNCHANGED <<events, status>>
                                   ELSE Watch(events \union {"W"})

SendInLoop(len, rest, queue) ==
    /\ todo' = rest
    /\ IF state = "disconnected"
       THEN tasks' = queue /\ UNCHANGED <<conn, sock, sent>>
       ELSE LET data == [i \in 1..len |-> sent + i]
            IN  \E n \in IF WritesDirectly THEN WriteResults(len) ELSE {-1} :
                  LET left == Drop(data, n)
                      size == Len(outputBuf) + Len(left)
                  IN  /\ sent' = sent + len
                      /\ Wrote(data, n)
                      /\ IF n = -2 \/ left = <<>>
                         THEN UNCHANGED <<outputBuf, events, status>>
                         ELSE Keep(left)
                      /\ tasks' = queue
                           \o (IF left = <<>> THEN <<Task("onWriteComplete")>> ELSE <<>>)
                           \o (IF /\ n # -2 /\ size >= HighWaterMark
                                  /\ Len(outputBuf) < HighWaterMark
                               THEN <<Task("onHighWaterMark")>> ELSE <<>>)
                      /\ UNCHANGED <<state, isRead, isWrite, fdOpen, wrShut>>
    /\ UNCHANGED ghosts

SendOutputBufInLoop(rest, queue) ==
    /\ todo' = rest
    /\ IF state = "disconnected" \/ "W" \in events \/ outputBuf = <<>>
       THEN tasks' = queue /\ UNCHANGED <<conn, sock>>
       ELSE \E n \in WriteResults(Len(outputBuf)) :
              /\ Wrote(outputBuf, n)
              /\ outputBuf' = Drop(outputBuf, n)
              /\ IF n = -2 \/ outputBuf' = <<>> THEN UNCHANGED <<events, status>>
                                                ELSE Watch(events \union {"W"})
              /\ tasks' = IF outputBuf' = <<>> THEN Append(queue, Task("onWriteComplete"))
                                               ELSE queue
              /\ UNCHANGED <<state, isRead, isWrite, fdOpen, wrShut>>
    /\ UNCHANGED <<ghosts, sent>>

(* shutdownInLoop: half-close now, or leave it to handleWrite. *)
Mutant_HalfClosesAtOnce == TRUE
NothingToWrite == "W" \notin events

CanShutdown == state = "connected"

ShutdownInLoop(rest, queue) ==
    /\ todo' = rest /\ tasks' = queue
    /\ IF CanShutdown
       THEN /\ state' = "disconnecting"
            /\ wrShut' = (wrShut \/ NothingToWrite)
       ELSE UNCHANGED <<state, wrShut>>
    /\ UNCHANGED <<events, status, isRead, isWrite, outputBuf, fdOpen, wire, inFlight, peer,
                   ghosts, sent>>

(* handleClose up to its callback: removeItself sets disconnected and calls *)
(* onClose; the rest of handleClose, and `then`, follow.                    *)
Mutant_ClosesAgain == TRUE
NotClosed == state # "disconnected"

HandleClose(then, rest, queue) ==
    /\ tasks' = queue
    /\ IF NotClosed
       THEN /\ state' = "disconnected"
            /\ todo' = <<"onClose", "remove">> \o then \o rest
            /\ closes' = closes + 1
       ELSE todo' = rest /\ UNCHANGED <<state, closes>>
    /\ UNCHANGED <<events, status, isRead, isWrite, outputBuf, high, late, sent>>

(* forceCloseInLoop: handleClose, then close(fd). *)
CanForceClose == state \in {"connected", "disconnecting"}

ForceCloseInLoop(rest, queue) ==
    IF CanForceClose
    THEN HandleClose(<<"close">>, rest, queue) /\ UNCHANGED sock
    ELSE todo' = rest /\ tasks' = queue /\ UNCHANGED <<conn, sock, ghosts, sent>>

(* enableReadInLoop, disableReadInLoop, enableWriteInLoop and               *)
(* disableWriteInLoop: they look at fd only.                                *)
FlowInLoop(e, flag, on, rest, queue) ==
    /\ todo' = rest /\ tasks' = queue
    /\ IF fdOpen /\ (flag # on \/ (e \in events) # on)
       THEN /\ Watch(IF on THEN events \union {e} ELSE events \ {e})
            /\ isRead'  = IF e = "R" THEN on ELSE isRead
            /\ isWrite' = IF e = "W" THEN on ELSE isWrite
            /\ late' = (late \/ state = "disconnected")
       ELSE UNCHANGED <<events, status, isRead, isWrite, late>>
    /\ UNCHANGED <<state, outputBuf, sock, closes, high, sent>>

InLoop(t, rest, queue) ==
    CASE t.op = "send"          -> SendInLoop(t.len, rest, queue)
      [] t.op = "sendOutputBuf" -> SendOutputBufInLoop(rest, queue)
      [] t.op = "shutdown"      -> ShutdownInLoop(rest, queue)
      [] t.op = "forceClose"    -> ForceCloseInLoop(rest, queue)
      [] t.op = "enableRead"    -> FlowInLoop("R", isRead, TRUE, rest, queue)
      [] t.op = "disableRead"   -> FlowInLoop("R", isRead, FALSE, rest, queue)
      [] t.op = "enableWrite"   -> FlowInLoop("W", isWrite, TRUE, rest, queue)
      [] t.op = "disableWrite"  -> FlowInLoop("W", isWrite, FALSE, rest, queue)

-----------------------------------------------------------------------------
(* The public calls *)

Call == UNION {IF op = "send" THEN {[op |-> op, len |-> n] : n \in Lens} ELSE {Task(op)}
                  : op \in Ops}

FlowCalls == {"enableRead", "disableRead", "enableWrite", "disableWrite"}

(* The test of `state` each call starts with. The flow calls have none. *)
Accepts(op, st) == CASE op \in {"send", "sendOutputBuf", "shutdown"} -> st = "connected"
                     [] op \in {"forceClose", "forceCloseLater"} ->
                            st \in {"connected", "disconnecting"}
                     [] OTHER -> TRUE

Counted(t) == /\ calls < MaxCalls /\ calls' = calls + 1
              /\ manual' = (manual \/ t.op \in {"enableWrite", "disableWrite"})
AddTimer == timers' = timers + 1

(* From a callback of the owner's thread: the call is executed on the spot. *)
OwnerCalls(t) ==
    /\ todo # <<>> /\ Head(todo) \in Callbacks
    /\ Accepts(t.op, state)
    /\ Counted(t)
    /\ IF t.op = "forceCloseLater"
       THEN AddTimer /\ UNCHANGED <<conn, sock, ghosts, tasks, todo, sent>>
       ELSE InLoop(t, todo, tasks) /\ UNCHANGED timers

(* From another thread, which holds the connection since onConnection. It   *)
(* reads `state` without synchronisation: it may still see any value the    *)
(* state had since then, `connected` among them, so the call may be queued. *)
OtherThreadCalls(t) ==
    /\ state # "connecting"
    /\ Counted(t)
    /\ IF t.op = "forceCloseLater" THEN AddTimer /\ UNCHANGED tasks
                                   ELSE tasks' = Append(tasks, t) /\ UNCHANGED timers
    /\ UNCHANGED <<conn, sock, ghosts, todo, sent>>

-----------------------------------------------------------------------------
(* The loop *)

Readable == peer.data \/ peer.fin \/ peer.rst # "no"
Hup == peer.rst # "no" \/ (wrShut /\ peer.fin)
Revents == IF status # "normal" THEN {}
           ELSE {e \in {"R"} \intersect events : Readable}
                \union {e \in {"W"} \intersect events : Free > 0 \/ Broken}
                \union {e \in {"ERR"} : peer.rst = "pending"}
                \union {e \in {"HUP"} : Hup}

(* Channel::handleEvent, as the steps it will take for what poll returned.   *)
StepIf(holds, step) == IF holds THEN <<step>> ELSE <<>>

HandleEvent(re) == StepIf("HUP" \in re /\ "R" \notin re, "hup") \o StepIf("ERR" \in re, "err")
                   \o StepIf("R" \in re, "read") \o StepIf("W" \in re, "write")

(* poll returns; a channel handled before this one may run user code too.    *)
Poll == /\ todo = <<>>
        /\ todo' = <<"otherChannel">> \o HandleEvent(Revents)
        /\ UNCHANGED <<conn, sock, ghosts, tasks, timers, sent, calls, manual>>

Next1(step) == todo # <<>> /\ Head(todo) = step
Rest == Tail(todo)

CallbackReturns == /\ todo # <<>> /\ Head(todo) \in Callbacks
                   /\ todo' = Rest
                   /\ UNCHANGED <<conn, sock, ghosts, tasks, timers, sent, calls, manual>>

HandleHup == /\ Next1("hup")
             /\ HandleClose(<<>>, Rest, tasks)
             /\ UNCHANGED <<sock, timers, calls, manual>>

(* getSocketError takes the pending error. *)
TakeError == peer' = IF peer.rst = "pending" THEN [peer EXCEPT !.rst = "taken"] ELSE peer

HandleError == /\ Next1("err")
               /\ todo' = Rest
               /\ IF state = "disconnected" THEN UNCHANGED peer ELSE TakeError
               /\ UNCHANGED <<conn, fdOpen, wire, inFlight, wrShut, ghosts, tasks, timers,
                              sent, calls, manual>>

(* handleRead: data, the end of the stream, or an error. *)
ReadsData  == peer.data
ReadsEof   == ~peer.data /\ (peer.rst = "taken" \/ (peer.rst = "no" /\ peer.fin))

Mutant_DeliversAfterClose == ReadsData
Delivers == state # "disconnected" /\ ReadsData

HandleRead ==
    /\ Next1("read")
    /\ IF Delivers
       THEN /\ peer' = [peer EXCEPT !.data = FALSE]
            /\ todo' = <<"onMessage">> \o Rest
            /\ UNCHANGED <<conn, fdOpen, wire, inFlight, wrShut, ghosts, tasks, sent>>
       ELSE IF state # "disconnected" /\ ReadsEof
       THEN HandleClose(<<>>, Rest, tasks) /\ UNCHANGED sock
       ELSE /\ todo' = Rest
            /\ IF state = "disconnected" THEN UNCHANGED peer ELSE TakeError
            /\ UNCHANGED <<conn, fdOpen, wire, inFlight, wrShut, ghosts, tasks, sent>>
    /\ UNCHANGED <<timers, calls, manual>>

(* handleWrite: outputBuf.writeFd; when that empties the buffer, stop        *)
(* watching, report it and do the half-close that shutdown left pending.     *)
Mutant_ForgetsHalfClose == wrShut
HalfCloseWhenDrained == wrShut \/ state = "disconnecting"

Mutant_DrainsSilently == <<>>
DrainReport == <<Task("onWriteComplete")>>

HandleWrite ==
    /\ Next1("write")
    /\ IF state = "disconnected" \/ "W" \notin events
       THEN todo' = Rest /\ UNCHANGED <<conn, sock, ghosts, tasks, sent>>
       ELSE \E n \in WriteResults(Len(outputBuf)) :
              /\ Wrote(outputBuf, n)
              /\ UNCHANGED fdOpen
              /\ IF n < 0
                 THEN HandleClose(<<>>, Rest, tasks) /\ UNCHANGED wrShut
                 ELSE
                   /\ todo' = Rest
                   /\ outputBuf' = Drop(outputBuf, n)
                   /\ IF n > 0 /\ outputBuf' = <<>>
                      THEN /\ Watch(events \ {"W"})
                           /\ tasks' = tasks \o DrainReport
                           /\ wrShut' = HalfCloseWhenDrained
                      ELSE UNCHANGED <<events, status, tasks, wrShut>>
                   /\ UNCHANGED <<state, isRead, isWrite, ghosts, sent>>
    /\ UNCHANGED <<timers, calls, manual>>

(* removeItself's Channel::remove, then the rest of handleClose.             *)
Mutant_UnwatchKeepsStatus == events' = {} /\ UNCHANGED status
Unwatch == events' = {} /\ status' = "ready"

Remove == /\ Next1("remove")
          /\ Unwatch
          /\ tasks' = Append(tasks, Task("tie"))
          /\ todo' = Rest
          /\ UNCHANGED <<state, isRead, isWrite, outputBuf, sock, ghosts, timers, sent, calls, manual>>

(* forceCloseInLoop's close(fd). *)
Close == /\ Next1("close")
         /\ fdOpen' = FALSE
         /\ todo' = Rest
         /\ UNCHANGED <<conn, wire, inFlight, wrShut, peer, ghosts, tasks, timers, sent, calls, manual>>

(* onConnection: asserts `connecting`, sets connected, watches for reading.  *)
Establish == /\ state' = "connected"
             /\ Watch(events \union {"R"})
             /\ todo' = <<"onConnection">>
             /\ UNCHANGED <<isRead, isWrite, outputBuf, sock, ghosts, sent>>

(* A task that calls the handler. *)
Calls(callback) == /\ todo' = <<callback>>
                   /\ high' = (callback = "onHighWaterMark")
                   /\ UNCHANGED <<conn, sock, closes, late, sent>>

(* The loop runs the oldest task. *)
RunTask == /\ todo = <<>> /\ tasks # <<>>
           /\ LET t == Head(tasks)
                  queue == Tail(tasks)
              IN  CASE t.op = "onConnection" -> Establish /\ tasks' = queue
                    [] t.op \in {"onWriteComplete", "onHighWaterMark"} ->
                           Calls(t.op) /\ tasks' = queue
                    [] t.op = "tie" -> tasks' = queue /\ UNCHANGED <<conn, sock, ghosts, todo, sent>>
                    [] OTHER -> InLoop(t, <<>>, queue)
           /\ UNCHANGED <<timers, calls, manual>>

(* A timer of forceClose(delayMs) expires. *)
TimerFires == /\ todo = <<>> /\ timers > 0
              /\ timers' = timers - 1
              /\ ForceCloseInLoop(<<>>, tasks)
              /\ UNCHANGED <<calls, manual>>

-----------------------------------------------------------------------------
(* The peer. After its FIN it sends no data; after a RST nothing matters.    *)
PeerSends == /\ ~peer.fin /\ peer.rst = "no"
             /\ peer' = [peer EXCEPT !.data = TRUE]
PeerCloses == ~peer.fin /\ peer.rst = "no" /\ peer' = [peer EXCEPT !.fin = TRUE]
PeerResets == peer.rst = "no" /\ peer' = [peer EXCEPT !.rst = "pending"]

PeerActs == /\ state # "connecting" /\ fdOpen
            /\ PeerSends \/ PeerCloses \/ PeerResets
            /\ UNCHANGED <<conn, fdOpen, wire, inFlight, wrShut, ghosts, tasks, timers, todo,
                           sent, calls, manual>>

PeerTakes == /\ inFlight > 0 /\ peer.rst = "no"
             /\ inFlight' = inFlight - 1
             /\ UNCHANGED <<conn, fdOpen, wire, wrShut, peer, ghosts, tasks, timers, todo,
                            sent, calls, manual>>

-----------------------------------------------------------------------------
OwnerStep == CallbackReturns \/ HandleHup \/ HandleError \/ HandleRead \/ HandleWrite
             \/ Remove \/ Close

Next == \/ Poll \/ OwnerStep \/ RunTask \/ TimerFires
        \/ \E t \in Call : OwnerCalls(t) \/ OtherThreadCalls(t)
        \/ PeerActs \/ PeerTakes

(* Callbacks return; the loop goes on polling and running its tasks, however *)
(* its other work interleaves (SF: TaskQueue's fairness); timers expire.*)
(* The peer keeps taking data unless it resets the connection; it is never   *)
(* assumed to send, close or reset.                                          *)
Fairness == /\ WF_vars(OwnerStep)
            /\ SF_vars(RunTask) /\ SF_vars(TimerFires) /\ SF_vars(Poll)
            /\ WF_vars(PeerTakes)

Spec == Init /\ [][Next]_vars /\ Fairness

-----------------------------------------------------------------------------
(* Properties *)

Open == state \in {"connected", "disconnecting"}

(* What reaches the socket is a prefix of what was sent, whether it went     *)
(* directly from send or through the buffer, and nothing is skipped: what is *)
(* not on the wire is in the buffer, unless the socket was broken.           *)
WireIsPrefix == /\ \A i \in 1..Len(wire) : wire[i] = i
                /\ (Open /\ ~Broken) => wire \o outputBuf = [i \in 1..sent |-> i]

(* Buffered data is always watched for, so that no byte waits for a POLLOUT  *)
(* nobody asked for, as long as the user leaves write events to it.          *)
OutputWatched == (Open /\ outputBuf # <<>> /\ ~manual) => "W" \in events /\ status = "normal"

(* Once closed and back in the loop, the channel is out of the poller, and   *)
(* only then may its descriptor be closed. Not so once a call of FlowCalls   *)
(* has run after the close: it looks at fd, which a connection that its peer *)
(* closed keeps, and puts the channel back.                                  *)
ClosedNotWatched ==
    /\ (state = "disconnected" /\ todo = <<>> /\ ~late) => (status = "ready" /\ events = {})
    /\ ~fdOpen => (state = "disconnected" /\ status = "ready")

(* After onClose the user hears of no more data, even when the events of the *)
(* same poll, computed before the close, say so. (The owner's thread is in   *)
(* at most one onMessage at a time.)                                         *)
Due(step) == \E i \in DOMAIN todo : todo[i] = step
NoMessageAfterClose == [][~Due("onMessage") /\ Due("onMessage")' => closes = 0]_vars

(* shutdown half-closes in the end, unless the connection is closed first.   *)
ShutdownCompletes == state = "disconnecting" ~> (wrShut \/ state = "disconnected" \/ manual)

(* A producer that stops at onHighWaterMark and resumes at onWriteComplete   *)
(* is never stuck: the second callback, or onClose, follows the first.       *)
HighWaterMarkRelieved == high ~> (~high \/ state = "disconnected" \/ manual)

(* Seen through the calls to write(2) and shutdown(2), a connection is a     *)
(* stream of bytes that keeps ByteStream's promise: in order, and ended only *)
(* when every byte given to send has been written.                           *)
Stream == INSTANCE ByteStream WITH given <- sent,
                                   ended <- wrShut,
                                   closed <- (state = "disconnected"),
                                   reset <- (peer.rst # "no")
ImplementsByteStream == Stream!Spec
==============================================================================
