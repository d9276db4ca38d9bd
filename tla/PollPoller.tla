----------------------------- MODULE PollPoller -----------------------------
(***************************************************************************)
(* PollPoller, driven by the calls of Channels: a vector of pollfd, in     *)
(* which each channel remembers its place in Channel::index.               *)
(***************************************************************************)
EXTENDS Channels, Integers, Sequences

VARIABLES index,         \* Channel::index, -1 when the channel is not in the vector
          pollfdList,    \* of [fd, on, events]; ~on: fd is kept as -fd - 1, ignored by poll
          channelMap,    \* fd -> channel, a set of pairs
          failed         \* an assertion of updateChannel or removeChannel has failed

vars == <<channelVars, index, pollfdList, channelMap, failed>>

Init == /\ ChannelsInit
        /\ index = [c \in Chs |-> -1]
        /\ pollfdList = <<>> /\ channelMap = {} /\ failed = FALSE

-----------------------------------------------------------------------------
Entry(c, ev) == [fd |-> fd[c], on |-> ev # {}, events |-> ev]
At(c) == index[c] + 1                          \* Channel::index counts from 0
InList(c) == At(c) \in DOMAIN pollfdList
Mine(c) == InList(c) /\ pollfdList[At(c)].fd = fd[c]
LastFd == Len(pollfdList) - 1
Without(f) == {p \in channelMap : p[1] # f}

(* A failed assertion ends the program. *)
Assert(holds, effect) ==
    IF holds THEN effect /\ UNCHANGED failed
             ELSE failed' = TRUE /\ UNCHANGED <<index, pollfdList, channelMap>>

(* updateChannel: push_back a new channel, or update the pollfd at its index. *)
AddChannel(c, ev) ==
    Assert(\A p \in channelMap : p[1] # fd[c],
           /\ pollfdList' = Append(pollfdList, [fd |-> fd[c], on |-> TRUE, events |-> ev])
           /\ index' = [index EXCEPT ![c] = Len(pollfdList)]
           /\ channelMap' = channelMap \union {<<fd[c], c>>})

ModifyChannel(c, ev) ==
    Assert(<<fd[c], c>> \in channelMap /\ Mine(c),
           /\ pollfdList' = [pollfdList EXCEPT ![At(c)] = Entry(c, ev)]
           /\ UNCHANGED <<index, channelMap>>)

UpdateChannel(c, ev) ==
    /\ ~failed
    /\ SetEvents(c, ev)
    /\ IF index[c] < 0 THEN AddChannel(c, ev) ELSE ModifyChannel(c, ev)

(* removeChannel: pop_back the last pollfd, after swapping it with the        *)
(* channel's own. The index that is set then is that of the channel removed,  *)
(* and it is not set to -1.                                                   *)
RemoveChannel(c) ==
    /\ ~failed
    /\ ClearEvents(c)
    /\ IF index[c] < 0
       THEN UNCHANGED <<index, pollfdList, channelMap, failed>>
       ELSE Assert(Mine(c),
                   /\ channelMap' = Without(fd[c])
                   /\ pollfdList' = SubSeq([pollfdList EXCEPT
                                               ![At(c)] = pollfdList[Len(pollfdList)]],
                                           1, LastFd)
                   /\ UNCHANGED index)

(* The owner closes the descriptor of a channel that it has removed. *)
Close(c) == /\ ~failed
            /\ <<fd[c], c>> \notin channelMap
            /\ CloseFd(c)
            /\ UNCHANGED <<index, pollfdList, channelMap, failed>>

Reopen(c, f) == /\ ~failed
                /\ SetFd(c, f)
                /\ UNCHANGED <<index, pollfdList, channelMap, failed>>

Next == \E c \in Chs : \/ \E ev \in SUBSET {"R", "W"} : UpdateChannel(c, ev)
                       \/ RemoveChannel(c)
                       \/ Close(c)
                       \/ \E f \in Fds : Reopen(c, f)

Spec == Init /\ [][Next]_vars

-----------------------------------------------------------------------------
(* "Swap with the last one, and update the channel's index": the pollfd at    *)
(* the index of a channel of the map is that channel's, which is what the     *)
(* assertions of updateChannel and removeChannel check. The code violates it: *)
(* removeChannel sets the index of the channel it removes, and the channel    *)
(* whose pollfd was moved keeps the index of a place that is gone.            *)
IndexIsRight == \A p \in channelMap : Mine(p[2])
==============================================================================
