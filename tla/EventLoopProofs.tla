--------------------------- MODULE EventLoopProofs ---------------------------
(***************************************************************************)
(* Proofs about EventLoop for any number of threads and tasks:             *)
(* type correctness, FIFO without loss, no lost wakeup, and that every     *)
(* step is a step of TaskQueue (the safety part of the refinement).        *)
(***************************************************************************)
EXTENDS EventLoop, SequenceTheorems, TLAPS

-----------------------------------------------------------------------------
(* Lemmas on the two sequences whose concatenation is TaskQueue's queue.    *)

LEMMA AppendToConcat ==
  ASSUME NEW S, NEW s \in Seq(S), NEW t \in Seq(S), NEW e \in S
  PROVE  s \o Append(t, e) = Append(s \o t, e)
<1>1. /\ s \o Append(t, e) \in Seq(S) /\ Append(s \o t, e) \in Seq(S)
      /\ Len(s \o Append(t, e)) = Len(Append(s \o t, e))
  OBVIOUS
<1>2. \A i \in 1..Len(s \o Append(t, e)) :
         (s \o Append(t, e))[i] = Append(s \o t, e)[i]
  OBVIOUS
<1> QED BY <1>1, <1>2, SeqEqual

LEMMA TailOfConcat ==
  ASSUME NEW S, NEW s \in Seq(S), NEW t \in Seq(S), s # <<>>
  PROVE  /\ Head(s \o t) = s[1]
         /\ Tail(s \o t) = Tail(s) \o t
<1>1. /\ Tail(s \o t) \in Seq(S) /\ Tail(s) \o t \in Seq(S)
      /\ Len(Tail(s \o t)) = Len(Tail(s) \o t)
  OBVIOUS
<1>2. \A i \in 1..Len(Tail(s \o t)) : Tail(s \o t)[i] = (Tail(s) \o t)[i]
  OBVIOUS
<1>3. Tail(s \o t) = Tail(s) \o t
  BY <1>1, <1>2, SeqEqual
<1>4. Head(s \o t) = s[1]
  OBVIOUS
<1> QED BY <1>3, <1>4

(* Both, as predicates that are found without the equations.                *)
Grows(s, t, e) == s \o Append(t, e) = Append(s \o t, e)
Advances(s, t) == Head(s \o t) = s[1] /\ Tail(s \o t) = Tail(s) \o t /\ s \o t # <<>>

LEMMA QueueMoves ==
  ASSUME NEW S, NEW s \in Seq(S), NEW t \in Seq(S)
  PROVE  (\A e \in S : Grows(s, t, e)) /\ (s # <<>> => Advances(s, t))
<1>1. s # <<>> => s \o t # <<>>
  BY ConcatEqualIffEmpty
<1> QED BY <1>1, AppendToConcat, TailOfConcat DEF Grows, Advances

-----------------------------------------------------------------------------
(* Type correctness needs FifoExactlyOnce: started stays in 0..MaxTasks     *)
(* because every task of the batch was queued. Both are proved together,    *)
(* with the fact that there is a batch only inside doPendingTasks.          *)
BatchInTasks == tmpTasks # <<>> => pc \in {"tasks", "task"}

FifoInv == TypeOK /\ FifoExactlyOnce /\ BatchInTasks

LEMMA FifoInit == Init => FifoInv
<1> SUFFICES ASSUME Init PROVE FifoInv
  OBVIOUS
<1> USE DEF Init
<1>1. TypeOK
  <2>1. <<>> \in Seq(Nat) /\ 0 \in 0..MaxTasks
    BY ConstantsAssumption
  <2>2. call \in [Callers -> {"none", "pushed", "quitting"}]
    OBVIOUS
  <2> QED BY <2>1, <2>2 DEF TypeOK
<1>2. tmpTasks = <<>> /\ pendingTasks = <<>> /\ Len(<<>>) = 0
  OBVIOUS
<1>3. FifoExactlyOnce /\ BatchInTasks
  BY <1>2 DEF FifoExactlyOnce, BatchInTasks
<1> QED BY <1>1, <1>3 DEF FifoInv

LEMMA FifoStep == FifoInv /\ [Next]_vars => FifoInv'
<1> SUFFICES ASSUME FifoInv, [Next]_vars PROVE FifoInv'
  OBVIOUS
<1> USE ConstantsAssumption DEF FifoInv, TypeOK, FifoExactlyOnce, BatchInTasks
<1>1. ASSUME NEW c \in Callers, Push(c) PROVE FifoInv'
  <2>1. TypeOK'
    BY <1>1 DEF Push, Enqueue
  <2>2. /\ queued' = queued + 1 /\ pendingTasks' = Append(pendingTasks, queued + 1)
        /\ UNCHANGED <<pc, tmpTasks, started>>
    BY <1>1 DEF Push, Enqueue
  <2>3. /\ Len(pendingTasks') = Len(pendingTasks) + 1
        /\ pendingTasks'[Len(pendingTasks) + 1] = queued + 1
        /\ \A i \in 1..Len(pendingTasks) : pendingTasks'[i] = pendingTasks[i]
    BY <2>2
  <2>4. Len(pendingTasks) \in Nat /\ Len(tmpTasks) \in Nat
    OBVIOUS
  <2>5. FifoExactlyOnce'
    <3> HIDE ConstantsAssumption DEF TypeOK, FifoExactlyOnce, BatchInTasks, FifoInv
    <3>1. /\ started \in Nat /\ queued \in Nat
          /\ started + Len(tmpTasks) + Len(pendingTasks) = queued
          /\ \A i \in 1..Len(tmpTasks) : tmpTasks[i] = started + i
          /\ \A i \in 1..Len(pendingTasks) :
                pendingTasks[i] = started + Len(tmpTasks) + i
      BY ConstantsAssumption DEF FifoInv, TypeOK, FifoExactlyOnce
    <3>2. /\ started' = started /\ queued' = queued + 1 /\ tmpTasks' = tmpTasks
          /\ Len(pendingTasks') = Len(pendingTasks) + 1
          /\ Len(tmpTasks') = Len(tmpTasks)
      BY <2>2, <2>3
    <3>3. started' + Len(tmpTasks') + Len(pendingTasks') = queued'
      BY <2>4, <3>1, <3>2
    <3>4. ASSUME NEW i \in 1..Len(pendingTasks')
          PROVE  pendingTasks'[i] = started' + Len(tmpTasks') + i
      <4>1. CASE i \in 1..Len(pendingTasks)
        BY <2>3, <2>4, <3>1, <3>2, <4>1
      <4>2. CASE i = Len(pendingTasks) + 1
        BY <2>3, <2>4, <3>1, <3>2, <4>2
      <4> QED BY <2>4, <3>2, <4>1, <4>2
    <3> QED BY <2>2, <3>1, <3>2, <3>3, <3>4 DEF FifoExactlyOnce
  <2>6. BatchInTasks'
    BY <2>2
  <2> QED BY <2>1, <2>5, <2>6
<1>2. ASSUME NEW c \in Callers, PushWakeup(c) \/ Quit(c) \/ QuitWakeup(c) PROVE FifoInv'
  BY <1>2 DEF PushWakeup, NeedsWakeup, Quit, QuitWakeup, QuitNeedsWakeup
<1>3. CASE EnterLoop \/ CheckQuit \/ CallbackReturns
  BY <1>3 DEF EnterLoop, CheckQuit, CallbackReturns, At
<1>4. CASE PollWoken \/ PollOther
  BY <1>4 DEF PollWoken, PollOther, PollReturns, At
<1>5. CASE HandleWakeup \/ HandleIO \/ BeginTasks
  BY <1>5 DEF HandleWakeup, HandleIO, BeginTasks, At
<1>6. CASE Swap
  <2>1. tmpTasks = <<>>
    BY <1>6 DEF Swap, At
  <2> QED BY <1>6, <2>1 DEF Swap, At
<1>7. CASE StartTask
  <2>1. /\ tmpTasks' = Tail(tmpTasks) /\ Len(tmpTasks') = Len(tmpTasks) - 1
        /\ tmpTasks' \in Seq(Nat)
        /\ \A i \in 1..Len(tmpTasks') : tmpTasks'[i] = tmpTasks[i + 1]
    BY <1>7 DEF StartTask, At
  <2>2. /\ started' = started + 1 /\ pc' = "task"
        /\ UNCHANGED <<isQuit, isTasking, pendingTasks, active, signalled, call, queued>>
    BY <1>7 DEF StartTask
  <2>3. Len(pendingTasks) \in Nat /\ Len(tmpTasks) \in Nat /\ Len(tmpTasks') \in Nat
    BY <2>1
  <2>4. TypeOK'
    BY <2>1, <2>2, <2>3
  <2>5. FifoExactlyOnce'
    <3>1. started' + Len(tmpTasks') + Len(pendingTasks') = queued'
      <4> HIDE ConstantsAssumption DEF TypeOK, FifoExactlyOnce, BatchInTasks, FifoInv
      <4>1. started + Len(tmpTasks) + Len(pendingTasks) = queued /\ started \in Nat
        BY ConstantsAssumption DEF FifoInv, TypeOK, FifoExactlyOnce
      <4>2. Len(tmpTasks') = Len(tmpTasks) - 1 /\ pendingTasks' = pendingTasks
        BY <2>1, <2>2
      <4> QED BY <2>2, <2>3, <4>1, <4>2
    <3>2. \A i \in 1..Len(tmpTasks') : tmpTasks'[i] = started' + i
      BY <2>1, <2>2, <2>3
    <3>3. \A i \in 1..Len(pendingTasks') :
             pendingTasks'[i] = started' + Len(tmpTasks') + i
      BY <2>1, <2>2, <2>3
    <3> QED BY <3>1, <3>2, <3>3
  <2> QED BY <2>2, <2>4, <2>5
<1>8. CASE EndTasks
  BY <1>8 DEF EndTasks, At
<1>9. CASE UNCHANGED vars
  BY <1>9 DEF vars
<1> QED
  BY <1>1, <1>2, <1>3, <1>4, <1>5, <1>6, <1>7, <1>8, <1>9
     DEF Next, LoopStep, CallerStep, Finished

(* EventLoop's variables stay in their types: in particular no more tasks are *)
(* started than were queued.                                                  *)
THEOREM TypeCorrect == Spec => []TypeOK
<1>1. FifoInv => TypeOK
  BY DEF FifoInv
<1> QED BY <1>1, FifoInit, FifoStep, PTL DEF Spec

(* doPendingTasks loses, repeats and reorders nothing, whatever is queued     *)
(* while a batch runs.                                                        *)
THEOREM FifoCorrect == Spec => []FifoExactlyOnce
<1>1. FifoInv => FifoExactlyOnce
  BY DEF FifoInv
<1> QED BY <1>1, FifoInit, FifoStep, PTL DEF Spec

-----------------------------------------------------------------------------
(* No lost wakeup. NoLostWakeup speaks of poll only; inductively, the         *)
(* promise holds wherever the eventfd has not been drained since the last     *)
(* swap, and the owner's own calls are over when the loop gets back to poll.  *)
Undrained == {"setup", "check", "poll", "tasks", "task"}

OwnerInCallback == call[Owner] # "none" => pc \in {"setup", "io", "task"}
TaskingInTasks  == isTasking <=> pc \in {"swap", "tasks", "task"}
PushedWillWake  == (pc \in Undrained /\ ~signalled /\ pendingTasks # <<>>) =>
                       \E c \in Callers : call[c] = "pushed" /\ NeedsWakeup(c)
QuitWillWake    == (pc = "poll" /\ ~signalled /\ isQuit) =>
                       \E c \in Threads : call[c] = "quitting"

WakeInv == OwnerInCallback /\ TaskingInTasks /\ PushedWillWake /\ QuitWillWake

LEMMA WakeInit == Init => WakeInv
BY DEF Init, WakeInv, OwnerInCallback, TaskingInTasks, PushedWillWake, QuitWillWake,
       Callers

LEMMA WakeStep ==
  ASSUME MaxEarly = 0
  PROVE  FifoInv /\ WakeInv /\ [Next]_vars => WakeInv'
<1> SUFFICES ASSUME FifoInv, WakeInv, [Next]_vars PROVE WakeInv'
  OBVIOUS
<1> USE ConstantsAssumption
    DEF FifoInv, TypeOK, WakeInv, OwnerInCallback, TaskingInTasks, PushedWillWake,
        QuitWillWake, Undrained, Callers, NeedsWakeup
<1>1. ASSUME NEW c \in Callers, Push(c) PROVE WakeInv'
  <2>1. /\ call' = [call EXCEPT ![c] = "pushed"]
        /\ c = Owner => pc \in {"io", "task"}
        /\ UNCHANGED <<pc, isTasking, isQuit, signalled>>
    BY <1>1, MaxEarly = 0 DEF Push, MayCall
  <2>2. call'[c] = "pushed" /\ \A d \in Callers \ {c} : call'[d] = call[d]
    BY <2>1
  <2>3. OwnerInCallback' /\ TaskingInTasks'
    BY <2>1, <2>2
  <2>4. PushedWillWake'
    BY <2>1, <2>2
  <2>5. QuitWillWake'
    BY <2>1, <2>2, <1>1 DEF Push, MayCall
  <2> QED BY <2>3, <2>4, <2>5
<1>2. ASSUME NEW c \in Callers, PushWakeup(c) PROVE WakeInv'
  BY <1>2 DEF PushWakeup
<1>3. ASSUME NEW c \in Callers, Quit(c) PROVE WakeInv'
  <2>1. /\ call' = [call EXCEPT ![c] = "quitting"] /\ call[c] = "none"
        /\ c = Owner => pc \in {"setup", "io", "task"}
        /\ UNCHANGED <<pc, isTasking, pendingTasks, signalled>>
    BY <1>3 DEF Quit, MayCall
  <2>2. call'[c] = "quitting" /\ \A d \in Callers \ {c} : call'[d] = call[d]
    BY <2>1
  <2> QED BY <2>1, <2>2
<1>4. ASSUME NEW c \in Callers, QuitWakeup(c) PROVE WakeInv'
  BY <1>4 DEF QuitWakeup, QuitNeedsWakeup
<1>5. CASE EnterLoop \/ CheckQuit
  BY <1>5 DEF EnterLoop, CheckQuit, At
<1>6. CASE CallbackReturns
  BY <1>6 DEF CallbackReturns, At
<1>7. CASE PollWoken \/ PollOther
  BY <1>7 DEF PollWoken, PollOther, PollReturns, At
<1>8. CASE HandleWakeup \/ HandleIO \/ BeginTasks
  BY <1>8 DEF HandleWakeup, HandleIO, BeginTasks, At
<1>9. CASE Swap \/ StartTask
  BY <1>9 DEF Swap, StartTask, At
<1>10. CASE EndTasks
  BY <1>10 DEF EndTasks, At
<1>11. CASE UNCHANGED vars
  BY <1>11 DEF vars
<1> QED
  BY <1>1, <1>2, <1>3, <1>4, <1>5, <1>6, <1>7, <1>8, <1>9, <1>10, <1>11
     DEF Next, LoopStep, CallerStep, Finished

(* When the owner queues nothing before it calls loop(), it never sleeps in   *)
(* poll over a queued task or a request to quit that no thread is about to    *)
(* signal.                                                                    *)
THEOREM WakeupCorrect ==
  ASSUME MaxEarly = 0
  PROVE  Spec => []NoLostWakeup
<1>1. FifoInv /\ WakeInv => NoLostWakeup
  BY ConstantsAssumption
     DEF WakeInv, OwnerInCallback, PushedWillWake, QuitWillWake, NoLostWakeup,
         Undrained, Callers
<1>2. FifoInv /\ WakeInv /\ [Next]_vars => (FifoInv /\ WakeInv)'
  BY FifoStep, WakeStep, MaxEarly = 0
<1> QED BY <1>1, <1>2, FifoInit, WakeInit, PTL DEF Spec

-----------------------------------------------------------------------------
(* Every behaviour of EventLoop is, seen through the mapping of Queue, a      *)
(* behaviour of TaskQueue's initial predicate and next-state relation.        *)
LEMMA QueueInit == Init => Queue!Init
BY DEF Init, Queue!Init

LEMMA QueueStep == FifoInv /\ FifoInv' /\ [Next]_vars => [Queue!Next]_(Queue!vars)
<1> SUFFICES ASSUME FifoInv, [Next]_vars PROVE [Queue!Next]_(Queue!vars)
  OBVIOUS
<1> USE DEF FifoInv, TypeOK
<1>1. ASSUME NEW c \in Callers, Push(c) PROVE Queue!Accept
  <2>1. tmpTasks \o Append(pendingTasks, queued + 1)
          = Append(tmpTasks \o pendingTasks, queued + 1)
    <3>1. tmpTasks \in Seq(Nat) /\ pendingTasks \in Seq(Nat) /\ queued + 1 \in Nat
      OBVIOUS
    <3>2. Grows(tmpTasks, pendingTasks, queued + 1)
      BY Zenon, <3>1, QueueMoves
    <3> QED BY <3>2 DEF Grows
  <2> QED BY <1>1, <2>1 DEF Push, Enqueue, Queue!Accept
<1>2. CASE StartTask
  <2>1. /\ Head(tmpTasks \o pendingTasks) = tmpTasks[1]
        /\ Tail(tmpTasks \o pendingTasks) = Tail(tmpTasks) \o pendingTasks
        /\ tmpTasks \o pendingTasks # <<>>
    <3>1. tmpTasks \in Seq(Nat) /\ pendingTasks \in Seq(Nat) /\ tmpTasks # <<>>
      BY <1>2 DEF StartTask
    <3>2. Advances(tmpTasks, pendingTasks)
      BY Zenon, <3>1, QueueMoves
    <3> QED BY <3>2 DEF Advances
  <2>2. tmpTasks[1] = started + 1
    BY <1>2 DEF StartTask, FifoExactlyOnce
  <2> QED BY <1>2, <2>1, <2>2 DEF StartTask, At, Queue!Next, Queue!Start
<1>3. CASE CheckQuit
  BY <1>3 DEF CheckQuit, At, Queue!Next, Queue!Stop, Queue!vars
<1>4. CASE Swap
  <2>1. tmpTasks = <<>> /\ <<>> \o pendingTasks = pendingTasks
                        /\ pendingTasks \o <<>> = pendingTasks
    BY <1>4 DEF Swap, At, BatchInTasks
  <2> QED BY <1>4, <2>1 DEF Swap, At, Queue!vars
<1>5. ASSUME NEW c \in Callers, PushWakeup(c) \/ Quit(c) \/ QuitWakeup(c)
      PROVE  UNCHANGED Queue!vars
  BY <1>5 DEF PushWakeup, Quit, QuitWakeup, Queue!vars
<1>6. CASE EnterLoop \/ PollWoken \/ PollOther
  BY <1>6 DEF EnterLoop, PollWoken, PollOther, PollReturns, At, Queue!vars
<1>7. CASE HandleWakeup \/ HandleIO \/ BeginTasks
  BY <1>7 DEF HandleWakeup, HandleIO, BeginTasks, At, Queue!vars
<1>8. CASE EndTasks \/ CallbackReturns
  BY <1>8 DEF EndTasks, CallbackReturns, At, Queue!vars
<1>9. CASE UNCHANGED vars
  BY <1>9 DEF vars, Queue!vars
<1> QED
  BY <1>1, <1>2, <1>3, <1>4, <1>5, <1>6, <1>7, <1>8, <1>9
     DEF Next, LoopStep, CallerStep, Finished, Queue!Next

(* EventLoop implements TaskQueue, fairness apart: every task is run at most  *)
(* once, in the order in which queueInLoop accepted it, and none after the    *)
(* loop has stopped.                                                          *)
THEOREM ImplementsQueueSafety == Spec => Queue!Init /\ [][Queue!Next]_(Queue!vars)
<1> QED BY FifoInit, FifoStep, QueueInit, QueueStep, PTL DEF Spec
==============================================================================
