---------------------------- MODULE TimerManager ----------------------------
(***************************************************************************)
(* TimerManager: the timers of one EventLoop, kept in a set ordered by     *)
(* expiry and driven by a timerfd that is armed for the earliest of them.  *)
(*                                                                         *)
(* An expiry is kept relative to the wall clock, so that the state stays   *)
(* finite while time goes on: rem[t] is how many ticks are left, at least  *)
(* -Late (an expiry further in the past is not told from it) and 0 for a   *)
(* timer that is neither set nor in the batch.  For a timer of the batch   *)
(* it is what was left at `now`, when the batch was taken.  Time passes,   *)
(* and the clock may be set, between any two steps, also while callbacks   *)
(* run.                                                                    *)
(***************************************************************************)
EXTENDS Integers

CONSTANTS Timers,        \* the timers ever made
          Delays,        \* ticks from addTimerInLoop to the expiry, 0 when it is due
          Intervals,     \* intervals of the timers, 0 for one-shot
          Late,          \* bound on how late an expiry is told apart
          MaxJump,       \* bound on one jump of the wall clock, and on how far it is put back
          MaxJumps       \* bound on the number of jumps

ASSUME ConstantsAssumption ==
    /\ Delays \subseteq Nat /\ Intervals \subseteq Nat
    /\ \A S \in {Intervals, Delays \union Intervals} : \E longest \in S : \A x \in S : x <= longest
    /\ Late \in Nat \ {0} /\ MaxJump \in Nat /\ MaxJumps \in Nat

VARIABLES timers,        \* TimerManager::timers
          rem,           \* Timer::expired of each, relative to Timestamp::now()
          interval,      \* Timer::interval of each
          fd,            \* ticks until the timerfd is readable, -1 when disarmed
          polled,        \* poll has returned the timerfd, it is not handled yet
          pc,            \* "idle", or where handleExpired is
          batch,         \* expiredList
          due,           \* the part of it that has not been run
          age,           \* what the wall clock has gone on since handleExpired took `now`
          running,       \* the timer whose callback runs, if any
          made,          \* the timers addTimer has made
          cancelled,     \* timers for which cancelInLoop was executed
          erased,        \* those of them it found and erased
          ran,           \* one-shot timers whose callback has run
          jumped,        \* the wall clock has jumped forward since the last arming
          jumps          \* how often it has jumped

vars == <<timers, rem, interval, fd, polled, pc, batch, due, age, running, made,
          cancelled, erased, ran, jumped, jumps>>

MaxOf(S) == CHOOSE x \in S : \A y \in S : y <= x
MinOf(S) == CHOOSE x \in S : \A y \in S : x <= y
Longest == MaxOf(Delays \union Intervals) + MaxJump
Clamp(x) == MaxOf({x, -Late})
Positive(x) == MaxOf({x, 0})
Oldest == Late + MaxOf(Intervals)

TypeOK == /\ timers \subseteq made /\ made \subseteq Timers
          /\ rem \in [Timers -> -Late..Longest]
          /\ interval \in [Timers -> Intervals \union {0}]
          /\ fd \in -1..Longest /\ polled \in BOOLEAN
          /\ pc \in {"idle", "run", "callback"}
          /\ batch \subseteq made /\ due \subseteq batch
          /\ age \in -MaxJump..Oldest
          /\ running \subseteq made
          /\ erased \subseteq cancelled /\ cancelled \subseteq made
          /\ ran \subseteq made /\ jumped \in BOOLEAN /\ jumps \in 0..MaxJumps

Init == /\ timers = {} /\ made = {} /\ cancelled = {} /\ erased = {}
        /\ rem = [t \in Timers |-> 0] /\ interval = [t \in Timers |-> 0]
        /\ fd = -1 /\ polled = FALSE /\ jumped = FALSE /\ jumps = 0 /\ ran = {}
        /\ pc = "idle" /\ batch = {} /\ due = {} /\ age = 0 /\ running = {}

Earliest(T, r) == MinOf({r[t] : t \in T})

(* TimerfdChannel::resetExpired: relative, and 100 us (less than a tick) when *)
(* the expiry is past.                                                        *)
Mutant_ArmNoFloor(r) == fd' = r /\ jumped' = FALSE
Arm(r) == fd' = Positive(r) /\ jumped' = FALSE

(* The loop's thread is in a callback or a task: user code may run.           *)
UserRuns == pc \in {"idle", "callback"}

-----------------------------------------------------------------------------
(* addTimerInLoop: insert, and arm the timerfd when the new timer is the first.*)
Mutant_NeverFirst(d) == timers = {}
IsChanged(d) == timers = {} \/ d < Earliest(timers, rem)

AddTimer(t, d, i) ==
    /\ UserRuns
    /\ t \notin made
    /\ made' = made \union {t}
    /\ timers' = timers \union {t}
    /\ rem' = [rem EXCEPT ![t] = d]
    /\ interval' = [interval EXCEPT ![t] = i]
    /\ IF IsChanged(d) THEN Arm(d) ELSE UNCHANGED <<fd, jumped>>
    /\ UNCHANGED <<polled, pc, batch, due, age, running, cancelled, erased, ran, jumps>>

(* cancelInLoop: erases the timer if it is in the set, and only there. *)
Erase(t) == timers' = timers \ {t}

Cancel(t) ==
    /\ UserRuns
    /\ t \in made \ cancelled
    /\ cancelled' = cancelled \union {t}
    /\ Erase(t)
    /\ rem' = IF t \in timers THEN [rem EXCEPT ![t] = 0] ELSE rem
    /\ erased' = erased \union ({t} \intersect timers)
    /\ UNCHANGED <<interval, fd, polled, pc, batch, due, age, running, made, ran, jumped, jumps>>

-----------------------------------------------------------------------------
(* Callbacks of other channels, which add and cancel timers, may come between *)
(* the poll that returns the timerfd and its handling.                        *)
PollReturns == /\ pc = "idle" /\ ~polled /\ fd = 0
               /\ polled' = TRUE
               /\ UNCHANGED <<timers, rem, interval, fd, pc, batch, due, age, running, made,
                              cancelled, erased, ran, jumped, jumps>>

(* getExpired: lower_bound with a probe timer that expires now; of the timers *)
(* that expire at this very moment it takes those with a smaller address.     *)
Mutant_OneTickEarly(E) == /\ {t \in timers : rem[t] < 0} \subseteq E
                          /\ E \subseteq {t \in timers : rem[t] <= 1}
Expired(E) == /\ {t \in timers : rem[t] < 0} \subseteq E
              /\ E \subseteq {t \in timers : rem[t] <= 0}

(* TimerfdChannel::handleRead and handleExpired. A timerfd that was armed     *)
(* again since poll returned it has nothing to read and stays armed.          *)
HandleExpired == /\ polled /\ polled' = FALSE
                 /\ pc = "idle" /\ pc' = "run"
                 /\ \E E \in SUBSET timers :
                      /\ Expired(E)
                      /\ batch' = E /\ due' = E
                      /\ timers' = timers \ E
                 /\ fd' = (IF fd = 0 THEN -1 ELSE fd) /\ age' = 0
                 /\ UNCHANGED <<rem, interval, running, made, cancelled, erased, ran, jumped, jumps>>

(* Timer::isRepeat, among the batch. *)
Repeating == {t \in batch : interval[t] > 0}

(* item->run(), in the order of their expiries. *)
RunTimer(t) == /\ pc = "run"
               /\ t \in due
               /\ rem[t] = Earliest(due, rem)
               /\ due' = due \ {t}
               /\ running' = {t} /\ ran' = ran \union {x \in {t} : interval[x] = 0}
               /\ pc' = "callback"
               /\ UNCHANGED <<timers, rem, interval, fd, polled, batch, age, made, cancelled,
                              erased, jumped, jumps>>

CallbackReturns == /\ pc = "callback"
                   /\ running' = {}
                   /\ pc' = "run"
                   /\ UNCHANGED <<timers, rem, interval, fd, polled, batch, due, age, made,
                                  cancelled, erased, ran, jumped, jumps>>

(* resetTimers: repeating timers go back, from the `now` the batch was taken  *)
(* at, and the timerfd is armed again for the first of all.                   *)
Mutant_NoRearm == FALSE
MustRearm == timers \union Repeating # {}

ResetTimers == /\ pc = "run" /\ due = {}
               /\ timers' = timers \union Repeating
               /\ rem' = [t \in Timers |-> CASE t \in Repeating -> Clamp(interval[t] - age)
                                              [] t \in timers -> rem[t]
                                              [] OTHER -> 0]
               /\ IF MustRearm THEN Arm(Earliest(timers', rem'))
                               ELSE UNCHANGED <<fd, jumped>>
               /\ batch' = {} /\ age' = 0 /\ pc' = "idle"
               /\ UNCHANGED <<interval, polled, due, running, made, cancelled, erased, ran, jumps>>

-----------------------------------------------------------------------------
(* Time *)

(* The wall clock goes on by j: what is left of the timers that are set, and *)
(* the age of the batch.                                                     *)
WallClock(j) ==
    /\ rem' = [t \in Timers |-> IF t \in timers THEN Clamp(rem[t] - j) ELSE rem[t]]
    /\ age' = IF pc = "idle" THEN age ELSE MinOf({age + j, Oldest})

(* One tick of both clocks, CLOCK_MONOTONIC's timerfd and the wall clock's.   *)
Tick == /\ WallClock(1)
        /\ fd' = IF fd > 0 THEN fd - 1 ELSE fd
        /\ UNCHANGED <<timers, interval, polled, pc, batch, due, running, made, cancelled,
                       erased, ran, jumped, jumps>>

(* The wall clock is set, forward or back: the expiries and the age of the    *)
(* batch move, the timerfd does not.                                          *)
Jump(j) == /\ jumps < MaxJumps /\ jumps' = jumps + 1
           /\ pc = "idle" => timers # {}
           /\ (\A t \in timers : rem[t] - j <= Longest) /\ age + j >= -MaxJump
           /\ WallClock(j)
           /\ jumped' = (jumped \/ j > 0)
           /\ UNCHANGED <<timers, interval, fd, polled, pc, batch, due, running, made, cancelled,
                          erased, ran>>

-----------------------------------------------------------------------------
LoopStep == \/ PollReturns \/ HandleExpired \/ CallbackReturns \/ ResetTimers
            \/ \E t \in Timers : RunTimer(t)

Next == \/ LoopStep
        \/ \E t \in Timers, d \in Delays, i \in Intervals : AddTimer(t, d, i)
        \/ \E t \in Timers : Cancel(t)
        \/ Tick
        \/ \E j \in (-MaxJump..MaxJump) \ {0} : Jump(j)

(* The loop's thread is scheduled, callbacks return, time goes on. *)
Spec == Init /\ [][Next]_vars /\ WF_vars(LoopStep) /\ WF_vars(Tick)

-----------------------------------------------------------------------------
(* Properties *)

(* No timer is forgotten: while any is set, the timerfd is armed, and not    *)
(* later than the first of them, whichever of addTimerInLoop, cancelInLoop   *)
(* and resetTimers ran last (unless the wall clock was put forward, which    *)
(* delays it to the expiry that was armed).                                  *)
Armed == (pc = "idle" /\ timers # {}) =>
             /\ fd >= 0
             /\ ~jumped => fd <= Positive(Earliest(timers, rem))

(* Nothing runs that must not: no timer before its expiry, as getExpired     *)
(* found it at `now`, whatever was added, cancelled or set since; a one-shot *)
(* timer once, for resetTimers puts back repeating timers only and no timer  *)
(* is in the set and in the batch at once; and a timer that cancelInLoop     *)
(* found never again, even if a batch was being run or it was about to       *)
(* expire.                                                                   *)
RunsWhenDue == /\ \A t \in due : rem[t] <= 0
               /\ timers \intersect batch = {}
               /\ ran \intersect (timers \union due) = {}
               /\ erased \intersect (timers \union batch \union running) = {}

(* Every timer in the set runs, unless it is erased: a one-shot once, a      *)
(* repeating one again and again, however late its batch is, whatever its    *)
(* callback adds or cancels, and when the clock is set.                      *)
TimersRun == \A t \in Timers : t \in timers ~> (t \in running \/ t \in erased)

(* What the loop's users rely on, TimerQueue_test.cpp for one: a cancelled   *)
(* timer does not repeat. The code violates it for a timer that expires in   *)
(* the batch from which it is cancelled (by itself or by another one): it is *)
(* not in the set then, and resetTimers puts it back.                        *)
CancelledIsGone == pc = "idle" => cancelled \intersect timers = {}
==============================================================================
