------------------------------ MODULE EventLoop ------------------------------
(***************************************************************************)
(* EventLoop: the thread that polls, dispatches the active channels and    *)
(* runs the tasks that any thread queues, and the eventfd (WakeupChannel)  *)
(* with which the other threads get it out of poll.                        *)
(*                                                                         *)
(* queueInLoop and quit are not atomic: the push (or the store to isQuit)  *)
(* and the write to the eventfd are separate steps, with any step of any   *)
(* thread between them.  Tasks are numbered in the order of their pushes.  *)
(***************************************************************************)
EXTENDS Naturals, Sequences

CONSTANTS Threads,       \* threads that do not own the loop
          Owner,         \* the thread that constructed the loop and calls loop()
          MaxTasks,      \* bound on the number of tasks ever queued
          MaxEarly       \* how many of them the owner may queue before loop()

ASSUME ConstantsAssumption == /\ Owner \notin Threads
                              /\ MaxTasks \in Nat
                              /\ MaxEarly \in Nat

Callers == Threads \union {Owner}

VARIABLES pc,            \* where the owner is in loop()
          isQuit, isTasking, pendingTasks,   \* members of EventLoop
          tmpTasks,      \* local of doPendingTasks: the swapped-out batch, unstarted part
          active,        \* channels poll returned that are not handled yet
          signalled,     \* the eventfd's counter is not zero
          call,          \* call[c]: what thread c is in the middle of
          queued, started    \* how many tasks were pushed, how many were started

vars == <<pc, isQuit, isTasking, pendingTasks, tmpTasks, active, signalled,
          call, queued, started>>

TypeOK == /\ pc \in {"setup", "check", "poll", "events", "io", "swap",
                     "tasks", "task", "stopped"}
          /\ isQuit \in BOOLEAN /\ isTasking \in BOOLEAN /\ signalled \in BOOLEAN
          /\ pendingTasks \in Seq(Nat) /\ tmpTasks \in Seq(Nat)
          /\ active \subseteq {"wakeup", "io"}
          /\ call \in [Callers -> {"none", "pushed", "quitting"}]
          /\ queued \in 0..MaxTasks /\ started \in 0..MaxTasks

Init == /\ pc = "setup"
        /\ isQuit = FALSE /\ isTasking = FALSE /\ signalled = FALSE
        /\ pendingTasks = <<>> /\ tmpTasks = <<>>
        /\ active = {}
        /\ call = [c \in Callers |-> "none"]
        /\ queued = 0 /\ started = 0

-----------------------------------------------------------------------------
(* The callers. The owner's code runs only in a callback (of a channel, or *)
(* of a task) or before it calls loop().                                    *)
MayCall(c) == /\ call[c] = "none"
              /\ c = Owner => pc \in {"setup", "io", "task"}

(* pendingTasks.push_back; the mutant pushes at the other end. *)
Mutant_PushFront(q, t) == <<t>> \o q
Enqueue(q, t) == Append(q, t)

(* queueInLoop, and runInLoop called off the owner thread: the locked push. *)
Push(c) == /\ MayCall(c)
           /\ queued < MaxTasks
           /\ (c = Owner /\ pc = "setup") => queued < MaxEarly
           /\ queued' = queued + 1
           /\ pendingTasks' = Enqueue(pendingTasks, queued + 1)
           /\ call' = [call EXCEPT ![c] = "pushed"]
           /\ UNCHANGED <<pc, isQuit, isTasking, tmpTasks, active, signalled, started>>

(* The owner needs no wakeup unless it is in doPendingTasks. *)
Mutant_OwnerNeverWakes(c) == c # Owner
NeedsWakeup(c) == c # Owner \/ isTasking

(* queueInLoop's end. *)
PushWakeup(c) == /\ call[c] = "pushed"
                 /\ signalled' = (signalled \/ NeedsWakeup(c))
                 /\ call' = [call EXCEPT ![c] = "none"]
                 /\ UNCHANGED <<pc, isQuit, isTasking, pendingTasks, tmpTasks, active,
                                queued, started>>

(* quit: the store to isQuit, then the wakeup. *)
Quit(c) == /\ MayCall(c)
           /\ isQuit' = TRUE
           /\ call' = [call EXCEPT ![c] = "quitting"]
           /\ UNCHANGED <<pc, isTasking, pendingTasks, tmpTasks, active, signalled,
                          queued, started>>

Mutant_QuitWakesNobody(c) == FALSE
QuitNeedsWakeup(c) == c # Owner

QuitWakeup(c) == /\ call[c] = "quitting"
                 /\ signalled' = (signalled \/ QuitNeedsWakeup(c))
                 /\ call' = [call EXCEPT ![c] = "none"]
                 /\ UNCHANGED <<pc, isQuit, isTasking, pendingTasks, tmpTasks, active,
                                queued, started>>

-----------------------------------------------------------------------------
(* The loop. It goes on only when its own call, if any, has returned.       *)
At(p) == pc = p /\ call[Owner] = "none"

EnterLoop == /\ At("setup")
             /\ pc' = "check"
             /\ UNCHANGED <<isQuit, isTasking, pendingTasks, tmpTasks, active, signalled,
                            call, queued, started>>

(* while (!isQuit) *)
CheckQuit == /\ At("check")
             /\ pc' = IF isQuit THEN "stopped" ELSE "poll"
             /\ UNCHANGED <<isQuit, isTasking, pendingTasks, tmpTasks, active, signalled,
                            call, queued, started>>

(* poll returns with the channels that are ready: the eventfd if its counter *)
(* is not zero, and possibly a channel of a connection, a listener or a timer.*)
PollReturns(ready) == /\ At("poll")
                      /\ active' = ready
                      /\ pc' = "events"
                      /\ UNCHANGED <<isQuit, isTasking, pendingTasks, tmpTasks, signalled,
                                     call, queued, started>>

PollWoken == signalled /\ \E io \in SUBSET {"io"} : PollReturns({"wakeup"} \union io)
PollOther == ~signalled /\ \E io \in SUBSET {"io"} : PollReturns(io)  \* I/O, or the timeout

(* WakeupChannel::handleRead: reading an eventfd resets its counter. *)
HandleWakeup == /\ At("events")
                /\ "wakeup" \in active
                /\ active' = active \ {"wakeup"}
                /\ signalled' = FALSE
                /\ UNCHANGED <<pc, isQuit, isTasking, pendingTasks, tmpTasks, call,
                               queued, started>>

(* Any other channel: user callbacks run, which may queue tasks or quit. *)
HandleIO == /\ At("events")
            /\ "io" \in active
            /\ active' = active \ {"io"}
            /\ pc' = "io"
            /\ UNCHANGED <<isQuit, isTasking, pendingTasks, tmpTasks, signalled, call,
                           queued, started>>

(* doPendingTasks *)
BeginTasks == /\ At("events")
              /\ active = {}
              /\ isTasking' = TRUE
              /\ pc' = "swap"
              /\ UNCHANGED <<isQuit, pendingTasks, tmpTasks, active, signalled, call,
                             queued, started>>

Mutant_SwapCopies == /\ At("swap")
                     /\ tmpTasks' = pendingTasks
                     /\ pc' = "tasks"
                     /\ UNCHANGED <<isQuit, isTasking, pendingTasks, active, signalled,
                                    call, queued, started>>

Swap == /\ At("swap")
        /\ tmpTasks' = pendingTasks
        /\ pendingTasks' = <<>>
        /\ pc' = "tasks"
        /\ UNCHANGED <<isQuit, isTasking, active, signalled, call, queued, started>>

StartTask == /\ At("tasks")
             /\ tmpTasks # <<>>
             /\ tmpTasks' = Tail(tmpTasks)
             /\ started' = started + 1
             /\ pc' = "task"
             /\ UNCHANGED <<isQuit, isTasking, pendingTasks, active, signalled, call, queued>>

EndTasks == /\ At("tasks")
            /\ tmpTasks = <<>>
            /\ isTasking' = FALSE
            /\ pc' = "check"
            /\ UNCHANGED <<isQuit, pendingTasks, tmpTasks, active, signalled, call,
                           queued, started>>

(* A channel's callback, or a task, returns to the loop. *)
CallbackReturns == /\ At("io") \/ At("task")
                   /\ pc' = IF pc = "io" THEN "events" ELSE "tasks"
                   /\ UNCHANGED <<isQuit, isTasking, pendingTasks, tmpTasks, active,
                                  signalled, call, queued, started>>

-----------------------------------------------------------------------------
LoopStep == \/ EnterLoop \/ CheckQuit \/ PollWoken \/ HandleWakeup \/ HandleIO
            \/ BeginTasks \/ Swap \/ StartTask \/ EndTasks

CallerStep(c) == Push(c) \/ PushWakeup(c) \/ Quit(c) \/ QuitWakeup(c)

(* loop() has returned, every call has returned and no task can be queued.  *)
Finished == pc = "stopped" /\ UNCHANGED vars

Next == \/ LoopStep \/ PollOther \/ CallbackReturns
        \/ \E c \in Callers : CallerStep(c)
        \/ Finished

(* The owner's thread and every caller in the middle of a call are scheduled, *)
(* and a callback (or the code before loop()) returns however many calls it   *)
(* makes. Nothing is assumed of                                               *)
(* poll but that it returns when the eventfd is readable: neither I/O nor the *)
(* 10 s timeout is needed for a task to be run.                               *)
Fairness == /\ WF_vars(LoopStep)
            /\ SF_vars(EnterLoop \/ CallbackReturns)
            /\ \A c \in Callers : WF_vars(PushWakeup(c) \/ QuitWakeup(c))

Spec == Init /\ [][Next]_vars /\ Fairness

-----------------------------------------------------------------------------
(* Properties *)

(* doPendingTasks swaps batches and clears them without losing, repeating or *)
(* reordering a task: the batch being run, then the queue, are exactly the   *)
(* tasks accepted and not started, in the order of their pushes.             *)
FifoExactlyOnce ==
    /\ started + Len(tmpTasks) + Len(pendingTasks) = queued
    /\ \A i \in 1..Len(tmpTasks) : tmpTasks[i] = started + i
    /\ \A i \in 1..Len(pendingTasks) :
          pendingTasks[i] = started + Len(tmpTasks) + i

(* The reason for `!isInOwnerThread() || isTasking`: the owner never sleeps  *)
(* in poll over a queued task or a request to quit, unless a thread is still *)
(* between its push (or its store to isQuit) and its write to the eventfd.   *)
NoLostWakeup ==
    (pc = "poll" /\ ~signalled) =>
        /\ pendingTasks # <<>> => \E c \in Threads : call[c] = "pushed"
        /\ isQuit => \E c \in Threads : call[c] = "quitting"

(* quit, from any thread and at any moment, gets loop() to return. *)
QuitStops == isQuit ~> pc = "stopped"

(* Seen from outside, the loop is one executor of numbered tasks: every task *)
(* that queueInLoop has accepted, from whichever thread and at whatever      *)
(* moment of the loop, is run once and in order, unless the loop stops first.*)
Queue == INSTANCE TaskQueue WITH accepted <- queued,
                                 waiting <- tmpTasks \o pendingTasks,
                                 stopped <- pc = "stopped"
ImplementsTaskQueue == Queue!Spec
==============================================================================
