----------------------------- MODULE EpollSelect -----------------------------
(***************************************************************************)
(* EpollPoller and SelectPoller driven by the same calls of the same       *)
(* channels. Both keep a status in Channel::index and a channelMap;        *)
(* EpollPoller keeps the kernel's interest list in step with them, and     *)
(* SelectPoller builds its fd_sets from them before each select.           *)
(***************************************************************************)
EXTENDS Channels

VARIABLES status,        \* Channel::index: "ready", "normal" or "removed"
          channelMap,    \* fd -> channel, a set of pairs (the same in both pollers)
          interest,      \* epoll's interest list: fd -> channel and events
          ctlFailed      \* an epoll_ctl has failed

vars == <<channelVars, status, channelMap, interest, ctlFailed>>

TypeOK == /\ ChannelsOK
          /\ status \in [Chs -> {"ready", "normal", "removed"}]
          /\ channelMap \subseteq Fds \X Chs
          /\ \A p, q \in channelMap : p[1] = q[1] => p = q
          /\ interest \subseteq [fd : Fds, ch : Chs, events : SUBSET {"R", "W"}]
          /\ ctlFailed \in BOOLEAN

Init == /\ ChannelsInit
        /\ status = [c \in Chs |-> "ready"]
        /\ channelMap = {} /\ interest = {} /\ ctlFailed = FALSE

-----------------------------------------------------------------------------
Registered(f) == \E r \in interest : r.fd = f

(* EpollPoller::update: epoll_ctl; the failures it only logs.               *)
Ctl(op, c, ev) ==
    LET f == fd[c]
        others == {r \in interest : r.fd # f}
        this == {[fd |-> f, ch |-> c, events |-> ev]}
    IN  CASE op = "ADD" /\ ~Registered(f) -> interest' = others \union this /\ UNCHANGED ctlFailed
          [] op = "MOD" /\ Registered(f)  -> interest' = others \union this /\ UNCHANGED ctlFailed
          [] op = "DEL" /\ Registered(f)  -> interest' = others /\ UNCHANGED ctlFailed
          [] OTHER -> ctlFailed' = TRUE /\ UNCHANGED interest

(* updateChannel *)
Mutant_OpWithoutRemoved(c, ev) == IF status[c] = "normal" THEN "MOD" ELSE "ADD"
Op(c, ev) == CASE status[c] = "normal" /\ ev = {} -> "DEL"
               [] status[c] = "normal" /\ ev # {} -> "MOD"
               [] OTHER -> "ADD"

Mutant_StaysNormal(c, ev) == "normal"
StatusAfter(c, ev) == IF status[c] = "normal" /\ ev = {} THEN "removed" ELSE "normal"

UpdateChannel(c, ev) ==
    /\ SetEvents(c, ev)
    /\ Ctl(Op(c, ev), c, ev)
    /\ status' = [status EXCEPT ![c] = StatusAfter(c, ev)]
    /\ channelMap' = channelMap \union {<<fd[c], c>>}

(* removeChannel *)
MapWithout(c) == {p \in channelMap : p[1] # fd[c]}

RemoveChannel(c) ==
    /\ ClearEvents(c)
    /\ channelMap' = MapWithout(c)
    /\ IF status[c] = "normal" THEN Ctl("DEL", c, {}) ELSE UNCHANGED <<interest, ctlFailed>>
    /\ status' = [status EXCEPT ![c] = "ready"]

(* The owners of channels close a descriptor after they have removed its    *)
(* channel (~TcpConnection, Connector, Acceptor).                           *)
Close(c) == /\ status[c] = "ready"
            /\ CloseFd(c)
            /\ UNCHANGED <<status, channelMap, interest, ctlFailed>>

Reopen(c, f) == SetFd(c, f) /\ UNCHANGED <<status, channelMap, interest, ctlFailed>>

Next == \E c \in Chs : \/ \E ev \in SUBSET {"R", "W"} : UpdateChannel(c, ev)
                       \/ RemoveChannel(c)
                       \/ Close(c)
                       \/ \E f \in Fds : Reopen(c, f)

Spec == Init /\ [][Next]_vars

-----------------------------------------------------------------------------
(* What each poller watches *)

(* epoll_wait reports a registered descriptor to the channel in data.ptr.   *)
EpollWatched == {w \in Chs \X {"R", "W"} :
                    \E r \in interest : r.ch = w[1] /\ w[2] \in r.events}

(* SelectPoller::reset: the channels of the map whose status is normal.     *)
Selectable == {c \in {p[2] : p \in channelMap} : status[c] = "normal"}
SelectWatched == {w \in Selectable \X {"R", "W"} : w[2] \in events[w[1]]}

-----------------------------------------------------------------------------
(* Properties *)

(* The assertions of both updateChannel, which rest on one status word per  *)
(* channel telling whether the map and the interest list have it, through   *)
(* every sequence of updates, removals and reuse of descriptors.            *)
StatusTellsTheTruth ==
    /\ \A c \in Chs :
          /\ status[c] = "ready" => \A p \in channelMap : p[2] # c /\ (open[c] => p[1] # fd[c])
          /\ status[c] # "ready" => <<fd[c], c>> \in channelMap
          /\ (status[c] = "normal") = (\E r \in interest : r.fd = fd[c] /\ r.ch = c)
    /\ ~ctlFailed

(* Both pollers watch exactly the events the channels ask for: none is lost, *)
(* and none is reported to a channel that was removed or whose descriptor    *)
(* was closed and given to another.                                          *)
WatchesWanted == EpollWatched = Wanted /\ SelectWatched = Wanted
==============================================================================
