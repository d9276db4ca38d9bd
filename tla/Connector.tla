------------------------------ MODULE Connector ------------------------------
(***************************************************************************)
(* A TcpClient and its Connector: the attempts to connect, their retries   *)
(* and their timeout, the connection that comes of them, and the calls     *)
(* that end all this, from callbacks of the owner's loop and from other    *)
(* threads.  One Channel serves every attempt, with a new descriptor each. *)
(*                                                                         *)
(* `todo` is what the owner's thread still has to do, innermost first, as  *)
(* in TcpConnection, of which only the life is kept here: up, half (the    *)
(* client has shut down), down (closed, perhaps still held by the user).   *)
(***************************************************************************)
EXTENDS Integers, Sequences

CONSTANTS Fds,           \* descriptors; numbers are used again once closed
          Threads,       \* the threads that do not own the loop
          RetryCounts,   \* what setRetryCount may have set, -1 for no limit
          Timeouts,      \* whether setTimeout has set a timeout
          MaxCalls       \* bound on the number of calls on the client

NoFd == 0
ASSUME ConstantsAssumption == /\ NoFd \notin Fds
                              /\ RetryCounts \subseteq Nat \union {-1}
                              /\ Timeouts \subseteq BOOLEAN
                              /\ MaxCalls \in Nat

VARIABLES retryCount, timeout,  \* what the user has set
          started,       \* TcpClient::started
          isStop, retryCur, state, fd, connection,    \* members of Connector
          status,        \* Channel::index
          reg,           \* the descriptors epoll watches for this channel
          open,          \* the client's sockets that are open
          conn,          \* conn[f]: the connection made on f
          retries,       \* timers armed by retry
          timeouts,      \* timers armed by connect
          tasks,         \* calls in the loop's task queue
          active,        \* poll has returned the channel, its event is not handled yet
          todo,
          call,          \* call[c]: what thread c is in the middle of
          gone,          \* the TcpClient is destroyed
          overlapped,    \* connect has begun while an earlier attempt was not over
          stopped,       \* the last call the loop has seen, or the timeout, was to stop
          fatal,         \* the last attempt ended with an error that is not retried
          calls

channel == <<status, reg>>
settings == <<retryCount, timeout>>
client == <<started, tasks, call, gone, calls>>
vars == <<settings, client, channel, isStop, retryCur, state, fd, connection, open, conn,
          retries, timeouts, active, todo, overlapped, stopped, fatal>>

StopOps == {"shutdown", "forceClose", "stop"}
CallOps == {"connect"} \union StopOps
Callbacks == {"onConnection", "onClose", "timeoutCallBack"}

TypeOK ==
    /\ started \in BOOLEAN /\ isStop \in BOOLEAN /\ gone \in BOOLEAN /\ active \in BOOLEAN
    /\ overlapped \in BOOLEAN /\ stopped \in BOOLEAN /\ fatal \in BOOLEAN
    /\ retryCount \in RetryCounts /\ timeout \in Timeouts
    /\ retryCur \in -1..retryCount
    /\ state \in {"disconnected", "connecting", "connected"}
    /\ fd \in Fds \union {NoFd} /\ connection \in Fds \union {NoFd}
    /\ status \in {"ready", "normal"} /\ reg \subseteq Fds /\ open \subseteq Fds
    /\ conn \in [Fds -> {"none", "up", "half", "down"}]
    /\ retries \in Nat /\ timeouts \in Nat
    /\ tasks \in Seq(CallOps) /\ calls \in 0..MaxCalls
    /\ call \in [Threads -> [op : CallOps, at : {"none", "flag", "queue"}]]
    /\ \A i \in DOMAIN todo : todo[i] \in [do : Callbacks \union {"removeConnection", "close"},
                                           fd : Fds \union {NoFd}]

NoCall == [op |-> "connect", at |-> "none"]

Init == /\ retryCount \in RetryCounts /\ timeout \in Timeouts
        /\ started = FALSE /\ isStop = TRUE /\ retryCur = -1 /\ state = "disconnected"
        /\ fd = NoFd /\ connection = NoFd /\ status = "ready" /\ reg = {} /\ open = {}
        /\ conn = [f \in Fds |-> "none"]
        /\ retries = 0 /\ timeouts = 0 /\ tasks = <<>> /\ active = FALSE /\ todo = <<>>
        /\ call = [c \in Threads |-> NoCall]
        /\ gone = FALSE /\ overlapped = FALSE /\ stopped = TRUE /\ fatal = FALSE /\ calls = 0

Do(what, f) == [do |-> what, fd |-> f]

-----------------------------------------------------------------------------
(* Attempts *)

(* Channel::enableWriteEvent: a channel whose status is normal is modified,  *)
(* and a descriptor that epoll does not know is not added by that.           *)
WatchWrite(f) == /\ status' = "normal"
                 /\ reg' = IF status = "ready" THEN reg \union {f} ELSE reg

(* Channel::remove, and close of the descriptor. *)
Mutant_StaysWatched == UNCHANGED channel
Unwatch == /\ status' = "ready"
           /\ reg' = IF status = "normal" THEN reg \ {fd} ELSE reg

CloseFd == open' = open \ {fd}

(* retry, with retryCur = cur and `armed` retry timers. *)
NextRetryCur(cur) == IF cur > 0 THEN cur - 1 ELSE cur

Mutant_NoTimer(stop, cur) == FALSE
MayRetry(stop, cur) == ~stop /\ cur # 0

Retry(stop, cur, armed) ==
    /\ state' = "disconnected"
    /\ IF MayRetry(stop, cur)
       THEN retryCur' = NextRetryCur(cur) /\ retries' = armed + 1
       ELSE retryCur' = cur /\ retries' = armed

(* doconnect, when not stopped: connect is in progress, fails in a way that  *)
(* is tried again, or fails for good.                                        *)
InProgress(cur, armed) ==
    \E f \in Fds \ open : /\ fd' = f /\ open' = open \union {f}
                          /\ state' = "connecting" /\ WatchWrite(f)
                          /\ retryCur' = cur /\ retries' = armed /\ fatal' = FALSE

FailsAtOnce(cur, armed) ==
    \E f \in Fds \ open : /\ fd' = f
                          /\ Retry(FALSE, cur, armed)
                          /\ fatal' = FALSE
                          /\ UNCHANGED <<open, channel>>

FailsForGood(cur, armed) ==
    \E f \in Fds \ open : /\ fd' = f /\ state' = "disconnected"
                          /\ retryCur' = cur /\ retries' = armed /\ fatal' = TRUE
                          /\ UNCHANGED <<open, channel>>

Doconnect(cur, armed) == \/ InProgress(cur, armed)
                         \/ FailsAtOnce(cur, armed)
                         \/ FailsForGood(cur, armed)

(* Of an earlier call of connect there is still an attempt, a retry that is  *)
(* due or a connection.                                                      *)
Overlaps == retries > 0 \/ state # "disconnected" \/ connection # NoFd

(* connect, which looks at none of these. *)
Connect == /\ isStop' = FALSE /\ stopped' = FALSE
           /\ overlapped' = (overlapped \/ Overlaps)
           /\ Doconnect(retryCount, retries)
           /\ timeouts' = IF timeout THEN timeouts + 1 ELSE timeouts
           /\ UNCHANGED <<connection, conn>>

(* The timer of retry. *)
Mutant_IgnoresStop == TRUE
StillWanted == ~isStop

RetryFires == /\ retries > 0 /\ todo = <<>>
              /\ IF StillWanted
                 THEN Doconnect(retryCur, retries - 1)
                 ELSE /\ retries' = retries - 1
                      /\ UNCHANGED <<channel, retryCur, state, fd, open, fatal>>
              /\ UNCHANGED <<settings, client, isStop, connection, conn, timeouts, active,
                             todo, overlapped, stopped>>

(* doTimeout *)
Mutant_TimesOutAnyway == ~isStop
TimesOut == ~isStop /\ state # "connected"

TimeoutFires ==
    /\ timeouts > 0 /\ todo = <<>>
    /\ timeouts' = timeouts - 1
    /\ IF TimesOut
       THEN /\ isStop' = TRUE /\ stopped' = TRUE /\ state' = "disconnected"
            /\ IF state = "connecting" THEN Unwatch /\ CloseFd ELSE UNCHANGED <<channel, open>>
            /\ todo' = <<Do("timeoutCallBack", NoFd)>>
       ELSE UNCHANGED <<isStop, stopped, state, channel, open, todo>>
    /\ UNCHANGED <<settings, client, retryCur, fd, connection, conn, retries, active, overlapped,
                   fatal>>

(* poll returns the channel; other channels' callbacks may run before it is  *)
(* handled, and tasks only after.                                            *)
PollReturns == /\ ~active /\ todo = <<>> /\ reg # {}
               /\ active' = TRUE
               /\ UNCHANGED <<settings, client, channel, isStop, retryCur, state, fd, connection,
                              open, conn, retries, timeouts, todo, overlapped, stopped, fatal>>

Handled == active /\ todo = <<>> /\ active' = FALSE

(* handleError, and handleWrite when the socket has an error or is connected *)
(* to itself.                                                                *)
AttemptFails ==
    /\ Handled /\ state = "connecting"
    /\ Unwatch /\ CloseFd
    /\ Retry(isStop, retryCur, retries)
    /\ UNCHANGED <<settings, client, isStop, fd, connection, conn, timeouts, todo, overlapped,
                   stopped, fatal>>

(* handleWrite otherwise, and onConnection. *)
AttemptSucceeds ==
    /\ Handled /\ state = "connecting"
    /\ Unwatch
    /\ IF isStop
       THEN CloseFd /\ state' = "disconnected" /\ UNCHANGED <<connection, conn, todo>>
       ELSE /\ state' = "connected" /\ connection' = fd
            /\ conn' = [conn EXCEPT ![fd] = "up"]
            /\ todo' = <<Do("onConnection", fd)>>
            /\ UNCHANGED open
    /\ UNCHANGED <<settings, client, isStop, retryCur, fd, retries, timeouts, overlapped, stopped,
                   fatal>>

(* An event of an attempt that is no more. *)
EventIgnored == /\ Handled /\ state # "connecting"
                /\ UNCHANGED <<settings, client, channel, isStop, retryCur, state, fd, connection,
                               open, conn, retries, timeouts, todo, overlapped, stopped, fatal>>

-----------------------------------------------------------------------------
(* The connection *)

(* TcpConnection::handleClose; `after` is what its caller does then. *)
Closed(f, after) ==
    /\ conn' = [conn EXCEPT ![f] = "down"]
    /\ todo' = <<Do("onClose", f), Do("removeConnection", f)>> \o after \o todo

Live(f) == f # NoFd /\ conn[f] \in {"up", "half"}

(* The peer, or the user's TcpConnection::forceClose, closes the connection. *)
ConnectionCloses(f) ==
    /\ todo = <<>> /\ Live(f)
    /\ \E after \in {<<>>, <<Do("close", f)>>} : Closed(f, after)
    /\ UNCHANGED <<settings, client, channel, isStop, retryCur, state, fd, connection, open,
                   retries, timeouts, active, overlapped, stopped, fatal>>

Forget == connection' = NoFd /\ state' = "disconnected"

(* removeConnection: whichever connection it was. *)
RemoveConnection == /\ todo # <<>> /\ Head(todo).do = "removeConnection"
                    /\ Forget
                    /\ todo' = Tail(todo)
                    /\ UNCHANGED <<settings, client, channel, isStop, retryCur, fd, open, conn,
                                   retries, timeouts, active, overlapped, stopped, fatal>>

(* The end of forceCloseInLoop. *)
CloseConnection == /\ todo # <<>> /\ Head(todo).do = "close"
                   /\ open' = open \ {Head(todo).fd}
                   /\ conn' = [conn EXCEPT ![Head(todo).fd] = "none"]
                   /\ todo' = Tail(todo)
                   /\ UNCHANGED <<settings, client, channel, isStop, retryCur, state, fd,
                                  connection, retries, timeouts, active, overlapped, stopped, fatal>>

(* The last reference to a closed connection goes: ~TcpConnection. *)
Destroy(f) == /\ conn[f] = "down" /\ connection # f
              /\ \A i \in DOMAIN todo : todo[i].fd # f
              /\ open' = open \ {f} /\ conn' = [conn EXCEPT ![f] = "none"]
              /\ UNCHANGED <<settings, client, channel, isStop, retryCur, state, fd, connection,
                             retries, timeouts, active, todo, overlapped, stopped, fatal>>

CallbackReturns == /\ todo # <<>> /\ Head(todo).do \in Callbacks
                   /\ todo' = Tail(todo)
                   /\ UNCHANGED <<settings, client, channel, isStop, retryCur, state, fd,
                                  connection, open, conn, retries, timeouts, active, overlapped, stopped,
                                  fatal>>

-----------------------------------------------------------------------------
(* shutdownInLoop, forceCloseInLoop and stopInLoop *)

Mutant_LeavesSocket == UNCHANGED open
CloseAttempt == CloseFd

CloseOnConnecting == /\ state' = "disconnected" /\ Unwatch /\ CloseAttempt
                     /\ UNCHANGED <<conn, todo>>

EndConnection(op) ==
    CASE op = "shutdown"   -> /\ conn' = IF conn[connection] = "up"
                                         THEN [conn EXCEPT ![connection] = "half"] ELSE conn
                              /\ UNCHANGED todo
      [] op = "forceClose" -> IF Live(connection) THEN Closed(connection, <<Do("close", connection)>>)
                                                  ELSE UNCHANGED <<conn, todo>>
      [] op = "stop"       -> IF Live(connection) THEN Closed(connection, <<>>)
                                                  ELSE UNCHANGED <<conn, todo>>

StopInLoop(op) ==
    /\ isStop' = TRUE /\ stopped' = TRUE
    /\ IF state = "connecting" THEN CloseOnConnecting
       ELSE /\ IF state = "connected" /\ connection # NoFd THEN EndConnection(op)
                                                           ELSE UNCHANGED <<conn, todo>>
            /\ UNCHANGED <<state, channel, open>>
    /\ UNCHANGED <<retryCur, fd, connection, retries, timeouts, overlapped, fatal>>

InLoop(op) == IF op = "connect" THEN Connect /\ UNCHANGED todo ELSE StopInLoop(op)

-----------------------------------------------------------------------------
(* The calls *)

MayCall(op) == /\ calls < MaxCalls /\ calls' = calls + 1
               /\ ~gone /\ gone' = (op = "stop")
               /\ op = "stop" => \A c \in Threads : call[c].at = "none"
               /\ op = "connect" => ~started

(* From the owner's thread: executed at once. *)
OwnerCalls(op) == /\ todo # <<>> => Head(todo).do \in Callbacks
                  /\ MayCall(op)
                  /\ started' = IF op = "stop" THEN started ELSE op = "connect"
                  /\ InLoop(op)
                  /\ UNCHANGED <<settings, tasks, call, active>>

(* From another thread: TcpClient::started, then Connector::isStop, then     *)
(* the task queue.                                                           *)
BeginCall(c, op) ==
    /\ call[c].at = "none"
    /\ MayCall(op)
    /\ started' = IF op = "stop" THEN started ELSE op = "connect"
    /\ call' = [call EXCEPT ![c] = [op |-> op, at |-> IF op = "connect" THEN "queue" ELSE "flag"]]
    /\ UNCHANGED <<settings, tasks, channel, isStop, retryCur, state, fd, connection, open, conn,
                   retries, timeouts, active, todo, overlapped, stopped, fatal>>

SetsIsStop(c) == /\ call[c].at = "flag"
                 /\ isStop' = TRUE
                 /\ call' = [call EXCEPT ![c].at = "queue"]
                 /\ UNCHANGED <<settings, started, tasks, gone, calls, channel, retryCur, state, fd,
                                connection, open, conn, retries, timeouts, active, todo, overlapped, stopped,
                                fatal>>

QueuesCall(c) == /\ call[c].at = "queue"
                 /\ tasks' = Append(tasks, call[c].op)
                 /\ call' = [call EXCEPT ![c] = NoCall]
                 /\ UNCHANGED <<settings, started, gone, calls, channel, isStop, retryCur, state,
                                fd, connection, open, conn, retries, timeouts, active, todo,
                                overlapped, stopped, fatal>>

RunTask == /\ todo = <<>> /\ ~active /\ tasks # <<>>
           /\ InLoop(Head(tasks))
           /\ tasks' = Tail(tasks)
           /\ UNCHANGED <<settings, started, call, gone, calls, active>>

-----------------------------------------------------------------------------
HandleEvent == AttemptFails \/ AttemptSucceeds \/ EventIgnored
Continue == RemoveConnection \/ CloseConnection \/ CallbackReturns
Finish(c) == SetsIsStop(c) \/ QueuesCall(c)

(* Nothing is left of the client for the loop to do, or attempts have        *)
(* overlapped: descriptors are lost then and the assertions of EpollPoller   *)
(* and TcpConnection may have ended the program.                             *)
AtRest == /\ retries = 0 /\ timeouts = 0 /\ tasks = <<>> /\ todo = <<>> /\ ~active
          /\ state = "disconnected" /\ connection = NoFd /\ open = {}
          /\ \A c \in Threads : call[c].at = "none"
Idle == (AtRest \/ overlapped) /\ UNCHANGED vars

Next == \/ RetryFires \/ TimeoutFires \/ PollReturns \/ HandleEvent \/ Continue \/ RunTask
        \/ \E f \in Fds : ConnectionCloses(f) \/ Destroy(f)
        \/ \E op \in CallOps : OwnerCalls(op)
        \/ \E c \in Threads : (\E op \in CallOps : BeginCall(c, op)) \/ Finish(c)
        \/ Idle

(* The loop runs what it has to run, timers expire and calls return. Of the  *)
(* peer it is assumed that it does not refuse for ever: an attempt that is   *)
(* made again and again gets under way, and succeeds, at some time.          *)
Fairness == /\ WF_vars(HandleEvent) /\ WF_vars(Continue)
            /\ SF_vars(RunTask) /\ SF_vars(RetryFires) /\ SF_vars(PollReturns)
            /\ SF_vars(RetryFires /\ state' = "connecting") /\ SF_vars(AttemptSucceeds)
            /\ \A c \in Threads : WF_vars(Finish(c))
            /\ \A f \in Fds : WF_vars(Destroy(f))

Spec == Init /\ [][Next]_vars /\ Fairness

-----------------------------------------------------------------------------
(* Properties *)

(* As long as connect has not been called while an earlier attempt, a retry  *)
(* that was due or a connection was still there (~overlapped, which neither  *)
(* TcpClient nor Connector sees to), no descriptor is leaked, however        *)
(* retries, timeouts and stops interleave: an open socket is the attempt     *)
(* under way or belongs to a connection.                                     *)
NoSocketLeak ==
    ~overlapped => \A f \in open : (state = "connecting" /\ f = fd) \/ conn[f] # "none"

(* The one Channel is in the poller exactly while an attempt is under way,   *)
(* with that attempt's descriptor, under the same hypothesis.                *)
WatchedIsCurrent == ~overlapped => reg = IF state = "connecting" THEN {fd} ELSE {}

(* ~TcpConnection asserts that the state is `disconnected`: a connection is  *)
(* held by its Connector until it is closed, under the same hypothesis.      *)
ConnectionHeld ==
    ~overlapped => \A f \in Fds : Live(f) => connection = f /\ state = "connected"

(* Once the loop has seen a shutdown, a forceClose, a stop or the timeout,   *)
(* no attempt is under way until connect is called, whatever timers, events  *)
(* and calls of earlier attempts are still to come; and no connection is up, *)
(* under the same hypothesis.                                                *)
StoppedStaysStopped == stopped => /\ state # "connecting"
                                  /\ ~overlapped => \A f \in Fds : conn[f] # "up"

(* A client that goes on wanting to connect is connected in the end, if the  *)
(* peer does not refuse for ever: no failed attempt is the last one before   *)
(* the retries are used up, unless attempts have overlapped.                 *)
ConnectIsAnswered ==
    state = "connecting" ~>
        (isStop \/ retryCur = 0 \/ fatal \/ state = "connected" \/ overlapped)
==============================================================================
