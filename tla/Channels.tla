------------------------------ MODULE Channels ------------------------------
(***************************************************************************)
(* The channels of one EventLoop and the calls they make on its poller,    *)
(* without the poller: which events each channel wants, and on which fd.   *)
(* A poller keeps its own records up to date at each call, and must watch  *)
(* exactly what is wanted.                                                 *)
(***************************************************************************)
EXTENDS Naturals

CONSTANTS Chs, Fds
ASSUME FdsAssumption == \E f \in [Chs -> Fds] : \A c, d \in Chs : f[c] = f[d] => c = d

VARIABLES events,        \* Channel::events, a subset of {"R", "W"}
          fd,            \* Channel::fd
          open           \* the descriptor is open

channelVars == <<events, fd, open>>

ChannelsOK == /\ events \in [Chs -> SUBSET {"R", "W"}]
              /\ fd \in [Chs -> Fds]
              /\ open \in [Chs -> BOOLEAN]

ChannelsInit == /\ events = [c \in Chs |-> {}]
                /\ fd \in [Chs -> Fds]
                /\ \A c, d \in Chs : fd[c] = fd[d] => c = d
                /\ open = [c \in Chs |-> TRUE]

(* enableReadEvent, enableWriteEvent, disableReadEvent, disableWriteEvent and *)
(* disableAll; Poller::updateChannel follows.                                 *)
SetEvents(c, ev) == /\ open[c]
                    /\ events' = [events EXCEPT ![c] = ev]
                    /\ UNCHANGED <<fd, open>>

(* Channel::remove; Poller::removeChannel follows. *)
ClearEvents(c) == /\ open[c]
                  /\ events' = [events EXCEPT ![c] = {}]
                  /\ UNCHANGED <<fd, open>>

(* The owner closes the descriptor of a channel that it has removed ...       *)
CloseFd(c) == /\ open[c]
              /\ open' = [open EXCEPT ![c] = FALSE]
              /\ UNCHANGED <<events, fd>>

(* ... and a channel is given a new one: Connector uses setFdUnSafe again at  *)
(* each attempt to connect. The kernel hands out numbers that were closed.    *)
SetFd(c, f) == /\ ~open[c]
               /\ \A d \in Chs : open[d] => fd[d] # f
               /\ fd' = [fd EXCEPT ![c] = f]
               /\ open' = [open EXCEPT ![c] = TRUE]
               /\ UNCHANGED events

(* What the poller must watch. *)
Wanted == {w \in Chs \X {"R", "W"} : w[2] \in events[w[1]]}
==============================================================================
