------------------------------ MODULE TaskQueue ------------------------------
(***************************************************************************)
(* What EventLoop::queueInLoop promises its callers, whatever the number   *)
(* of threads: one executor that runs every task exactly once, in the      *)
(* order in which queueInLoop accepted them, until the loop stops.         *)
(*                                                                         *)
(* Task k is the k-th task accepted, so the queue and the history of what  *)
(* was run are sequences of numbers.                                       *)
(***************************************************************************)
EXTENDS Naturals, Sequences

CONSTANT MaxTasks        \* bound on the number of tasks ever queued

VARIABLES accepted,      \* how many tasks queueInLoop has accepted
          waiting,       \* accepted tasks that have not been started, in order
          started,       \* how many tasks have been started
          stopped        \* EventLoop::loop has returned

vars == <<accepted, waiting, started, stopped>>

TypeOK == /\ accepted \in 0..MaxTasks
          /\ waiting \in Seq(1..MaxTasks)
          /\ started \in 0..MaxTasks
          /\ stopped \in BOOLEAN

Init == /\ accepted = 0
        /\ waiting = <<>>
        /\ started = 0
        /\ stopped = FALSE

(* EventLoop::queueInLoop: accepted even after the loop has stopped. *)
Accept == /\ accepted < MaxTasks
          /\ accepted' = accepted + 1
          /\ waiting' = Append(waiting, accepted + 1)
          /\ UNCHANGED <<started, stopped>>

(* The loop starts the oldest waiting task, and it is the next in order. *)
Start == /\ ~stopped
         /\ waiting # <<>>
         /\ Head(waiting) = started + 1
         /\ started' = started + 1
         /\ waiting' = Tail(waiting)
         /\ UNCHANGED <<accepted, stopped>>

(* EventLoop::loop returns after quit; tasks still waiting are never run. *)
Stop == /\ ~stopped
        /\ stopped' = TRUE
        /\ UNCHANGED <<accepted, waiting, started>>

Next == Accept \/ Start \/ Stop

(* A waiting task is eventually started unless the loop stops. *)
Spec == Init /\ [][Next]_vars /\ WF_vars(Start)
==============================================================================
