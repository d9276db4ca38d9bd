------------------------- MODULE TimerManagerProofs -------------------------
(***************************************************************************)
(* Proofs about TimerManager for any timers, delays and intervals, and     *)
(* whenever the clock is set: the timerfd is armed in time for the first   *)
(* timer while the loop waits, no timer runs before its expiry, one-shot   *)
(* timers run once and a timer that was found by cancelInLoop never again. *)
(***************************************************************************)
EXTENDS TimerManager, WellFoundedInduction, TLAPS

-----------------------------------------------------------------------------
(* The inductive invariant *)

ArmedInTime == (pc = "idle" /\ timers # {}) =>
                   /\ fd >= 0
                   /\ ~jumped => \A t \in timers : fd <= Positive(rem[t])

(* What resetTimers does not put back has run, and the callback that runs   *)
(* is one of the batch.                                                     *)
RanOneShots == \A t \in ran : interval[t] = 0
RunningInBatch == running \subseteq batch /\ (pc # "callback" => running = {})

TimersInv == TypeOK /\ ArmedInTime /\ RunsWhenDue /\ RanOneShots /\ RunningInBatch

-----------------------------------------------------------------------------
(* The largest and the smallest of a set of integers *)

LEMMA LeastOfNats ==
  ASSUME NEW S \in SUBSET Nat, S # {}
  PROVE  \E m \in S : \A n \in S : m <= n
<1>1. PICK m \in S : \A n \in S : <<n, m>> \notin OpToRel(<, Nat)
  BY WFMin, NatLessThanWellFounded, Zenon
<1>2. \A n \in S : ~(n < m)
  BY <1>1, Zenon DEF OpToRel
<1> QED BY <1>2

LEMMA MinOfBounded ==
  ASSUME NEW S \in SUBSET Int, S # {}, NEW bound \in Int, \A x \in S : bound <= x
  PROVE  MinOf(S) \in S /\ \A x \in S : MinOf(S) <= x
<1> DEFINE T == {x - bound : x \in S}
<1>1. T \in SUBSET Nat /\ T # {}
  <2>1. \A x \in S : x - bound \in Nat /\ x - bound \in T
    OBVIOUS
  <2> QED BY <2>1
<1>2. PICK m \in T : \A n \in T : m <= n
  <2> HIDE DEF T
  <2> QED BY <1>1, LeastOfNats
<1>3. PICK x \in S : m = x - bound
  BY <1>2
<1>4. ASSUME NEW y \in S PROVE x <= y
  <2>1. y - bound \in T
    OBVIOUS
  <2>2. x - bound <= y - bound
    BY <1>2, <1>3, <2>1
  <2> QED BY <2>2
<1>5. \E k \in S : \A y \in S : k <= y
  BY <1>4
<1> QED BY <1>5, Zenon DEF MinOf

LEMMA MaxOfIs ==
  ASSUME NEW S, \E m \in S : \A x \in S : x <= m
  PROVE  MaxOf(S) \in S /\ \A x \in S : x <= MaxOf(S)
BY Zenon DEF MaxOf

LEMMA MaxOfTwo ==
  ASSUME NEW x \in Int, NEW y \in Int
  PROVE  MaxOf({x, y}) = IF x <= y THEN y ELSE x
<1>1. \E m \in {x, y} : \A z \in {x, y} : z <= m
  <2>1. CASE x <= y
    BY <2>1
  <2>2. CASE ~(x <= y)
    BY <2>2
  <2> QED BY <2>1, <2>2
<1>2. MaxOf({x, y}) \in {x, y} /\ x <= MaxOf({x, y}) /\ y <= MaxOf({x, y})
  BY <1>1, MaxOfIs
<1> QED BY <1>2

LEMMA ClampIs ==
  ASSUME NEW x \in Int
  PROVE  Clamp(x) \in Int /\ Clamp(x) = IF x <= -Late THEN -Late ELSE x
BY MaxOfTwo, ConstantsAssumption DEF Clamp

LEMMA PositiveIs ==
  ASSUME NEW x \in Int
  PROVE  Positive(x) \in Nat /\ Positive(x) = IF x <= 0 THEN 0 ELSE x
BY MaxOfTwo DEF Positive

LEMMA LongestIs ==
  /\ Longest \in Nat /\ \A d \in Delays \union Intervals : d <= Longest
  /\ MaxOf(Intervals) \in Nat /\ \A i \in Intervals : i <= MaxOf(Intervals)
  /\ Oldest \in Nat /\ MaxOf(Intervals) <= Oldest
  /\ \A i \in Intervals : i + MaxJump <= Longest
  /\ MaxJump <= Longest
<1> USE ConstantsAssumption
<1>1. /\ MaxOf(Intervals) \in Intervals
      /\ \A i \in Intervals : i <= MaxOf(Intervals)
      /\ MaxOf(Delays \union Intervals) \in Delays \union Intervals
      /\ \A d \in Delays \union Intervals : d <= MaxOf(Delays \union Intervals)
  BY MaxOfIs
<1>2. MaxOf(Intervals) \in Nat /\ MaxOf(Delays \union Intervals) \in Nat
  BY <1>1
<1> QED BY <1>1, <1>2 DEF Longest, Oldest

(* The expiry that the timerfd is armed for.                                *)
LEMMA EarliestIs ==
  ASSUME NEW T, T # {}, NEW r, \A t \in T : r[t] \in Int /\ r[t] >= -Late
  PROVE  /\ \E t \in T : Earliest(T, r) = r[t]
         /\ \A t \in T : Earliest(T, r) <= r[t]
         /\ Earliest(T, r) \in Int
<1> DEFINE S == {r[t] : t \in T}
<1>1. S \in SUBSET Int /\ S # {} /\ -Late \in Int /\ \A x \in S : -Late <= x
  BY ConstantsAssumption
<1> HIDE DEF S
<1>2. MinOf(S) \in S /\ \A x \in S : MinOf(S) <= x
  BY <1>1, MinOfBounded
<1>3. Earliest(T, r) = MinOf(S)
  BY DEF Earliest, S
<1> QED BY <1>1, <1>2, <1>3 DEF S

-----------------------------------------------------------------------------
(* The operations *)

LEMMA ConstantTypes ==
  Delays \subseteq Nat /\ Intervals \subseteq Nat /\ Late \in Nat \ {0} /\ MaxJump \in Nat
  /\ MaxJumps \in Nat /\ -Late \in Int /\ -Late < 0
BY ConstantsAssumption

USE ConstantTypes

LEMMA InitHolds == Init => TimersInv
<1> SUFFICES ASSUME Init PROVE TimersInv
  OBVIOUS
<1>1. /\ timers = {} /\ made = {} /\ cancelled = {} /\ erased = {} /\ ran = {}
      /\ rem = [t \in Timers |-> 0] /\ interval = [t \in Timers |-> 0]
      /\ fd = -1 /\ polled = FALSE /\ jumps = 0 /\ pc = "idle" /\ batch = {} /\ due = {} /\ age = 0 /\ running = {}
  BY DEF Init
<1>2. jumped \in BOOLEAN /\ polled \in BOOLEAN
  BY Zenon DEF Init
<1>3. 0 \in -Late..Longest /\ -1 \in -1..Longest /\ 0 \in -MaxJump..Oldest
  BY LongestIs
<1>4. TypeOK
  BY <1>1, <1>2, <1>3 DEF TypeOK
<1> QED BY <1>1, <1>4 DEF TimersInv, ArmedInTime, RunsWhenDue, RanOneShots, RunningInBatch

(* What TypeOK says of the expiries, without the bounds' names.             *)
LEMMA Types ==
  ASSUME TypeOK
  PROVE  /\ timers \subseteq made /\ made \subseteq Timers
         /\ \A t \in Timers : rem[t] \in Int /\ -Late <= rem[t] /\ rem[t] <= Longest
         /\ \A t \in Timers : interval[t] \in Int /\ 0 <= interval[t] /\ interval[t] <= Longest
         /\ \A t \in Timers : interval[t] + MaxJump <= Longest
         /\ fd \in Int /\ -1 <= fd /\ fd <= Longest
         /\ age \in Int /\ -MaxJump <= age /\ age <= Oldest
<1>1. /\ Longest \in Nat /\ Oldest \in Nat /\ MaxJump <= Longest
      /\ \A i \in Intervals : i <= Longest /\ i + MaxJump <= Longest
  BY LongestIs
<1>2. \A t \in Timers : interval[t] \in Intervals \/ interval[t] = 0
  BY DEF TypeOK
<1>3. \A t \in Timers : rem[t] \in -Late..Longest
  BY DEF TypeOK
<1>4. fd \in -1..Longest /\ age \in -MaxJump..Oldest
  BY DEF TypeOK
<1>5. \A t \in Timers : /\ interval[t] \in Int /\ 0 <= interval[t] /\ interval[t] <= Longest
                          /\ interval[t] + MaxJump <= Longest
  <2>1. \A i \in Intervals \union {0} : /\ i \in Int /\ 0 <= i /\ i <= Longest
                                        /\ i + MaxJump <= Longest
    BY <1>1
  <2> QED BY <1>2, <2>1
<1>6. \A t \in Timers : rem[t] \in Int /\ -Late <= rem[t] /\ rem[t] <= Longest
  <2>1. \A x \in -Late..Longest : x \in Int /\ -Late <= x /\ x <= Longest
    BY <1>1
  <2> QED BY <1>3, <2>1
<1>7. /\ fd \in Int /\ -1 <= fd /\ fd <= Longest
      /\ age \in Int /\ -MaxJump <= age /\ age <= Oldest
  BY <1>1, <1>4
<1> QED BY <1>5, <1>6, <1>7 DEF TypeOK

LEMMA AddTimerKeeps ==
  ASSUME TimersInv, NEW t \in Timers, NEW d \in Delays, NEW i \in Intervals, AddTimer(t, d, i)
  PROVE  TimersInv'
<1>1. /\ t \notin made /\ made' = made \union {t} /\ timers' = timers \union {t}
      /\ rem' = [rem EXCEPT ![t] = d] /\ interval' = [interval EXCEPT ![t] = i]
      /\ IF IsChanged(d) THEN Arm(d) ELSE UNCHANGED <<fd, jumped>>
      /\ UNCHANGED <<polled, pc, batch, due, age, running, cancelled, erased, ran, jumps>>
  BY DEF AddTimer
<1>2. /\ TypeOK /\ timers \subseteq made /\ made \subseteq Timers
      /\ \A x \in Timers : rem[x] \in Int /\ -Late <= rem[x] /\ rem[x] <= Longest
      /\ d \in Nat /\ d <= Longest /\ Longest \in Nat
  BY Types, LongestIs DEF TimersInv
<1>3. /\ rem' \in [Timers -> -Late..Longest] /\ interval' \in [Timers -> Intervals \union {0}]
      /\ rem'[t] = d /\ \A x \in Timers \ {t} : rem'[x] = rem[x] /\ interval'[x] = interval[x]
  <2>1. d \in -Late..Longest
    BY <1>2
  <2> QED BY <1>1, <2>1, <1>2 DEF TypeOK
<1>4. Positive(d) = d
  BY <1>2, PositiveIs
<1>5. /\ fd' \in -1..Longest /\ jumped' \in BOOLEAN
      /\ IsChanged(d) => fd' = d /\ ~jumped'
      /\ ~IsChanged(d) => fd' = fd /\ jumped' = jumped
  <2>1. CASE IsChanged(d)
    <3>1. fd' = d /\ jumped' = FALSE
      BY <1>1, <1>4, <2>1 DEF Arm
    <3>2. fd' \in -1..Longest
      BY <1>2, <3>1
    <3>3. jumped' \in BOOLEAN
      BY <3>1, Zenon
    <3> QED BY <2>1, <3>1, <3>2, <3>3
  <2>2. CASE ~IsChanged(d)
    BY <1>1, <1>2, <2>2 DEF TypeOK
  <2> QED BY <2>1, <2>2
<1>6. TypeOK'
  BY <1>1, <1>2, <1>3, <1>5 DEF TypeOK
<1>7. ArmedInTime'
  <2> SUFFICES ASSUME pc = "idle"
               PROVE  fd' >= 0 /\ (~jumped' => \A x \in timers' : fd' <= Positive(rem'[x]))
    BY <1>1 DEF ArmedInTime
  <2>1. CASE timers = {}
    <3>1. IsChanged(d) /\ timers' = {t}
      BY <1>1, <2>1 DEF IsChanged
    <3> QED BY <1>2, <1>3, <1>4, <1>5, <3>1
  <2>2. CASE timers # {}
    <3>1. /\ \E x \in timers : Earliest(timers, rem) = rem[x]
          /\ \A x \in timers : Earliest(timers, rem) <= rem[x]
          /\ Earliest(timers, rem) \in Int
      BY <1>2, <2>2, EarliestIs
    <3>2. CASE IsChanged(d)
      <4>1. d < Earliest(timers, rem) /\ fd' = d /\ ~jumped'
        BY <1>5, <2>2, <3>2 DEF IsChanged
      <4>2. ASSUME NEW x \in timers PROVE fd' <= Positive(rem'[x])
        <5>1. rem'[x] = rem[x] /\ rem[x] \in Int /\ d <= rem[x]
          BY <1>1, <1>2, <1>3, <3>1, <4>1
        <5> QED BY <1>2, <4>1, <5>1, PositiveIs
      <4> QED BY <1>1, <1>2, <1>3, <1>4, <4>1, <4>2
    <3>3. CASE ~IsChanged(d)
      <4>1. Earliest(timers, rem) <= d /\ fd' = fd /\ jumped' = jumped
        BY <1>2, <1>5, <3>1, <3>3 DEF IsChanged
      <4>2. fd >= 0 /\ (~jumped => \A x \in timers : fd <= Positive(rem[x]))
        BY <2>2 DEF TimersInv, ArmedInTime
      <4>3. \A x \in timers : rem'[x] = rem[x]
        BY <1>1, <1>2, <1>3
      <4>4. ~jumped => fd <= Positive(d)
        <5> SUFFICES ASSUME ~jumped PROVE fd <= Positive(d)
          OBVIOUS
        <5>1. PICK x \in timers : Earliest(timers, rem) = rem[x]
          BY <3>1
        <5>2. fd <= Positive(rem[x]) /\ rem[x] <= d /\ rem[x] \in Int /\ fd \in Int
          BY <1>2, <3>1, <4>1, <4>2, <5>1, Types
        <5> QED BY <1>2, <1>4, <5>2, PositiveIs
      <4> QED BY <1>1, <1>3, <4>1, <4>2, <4>3, <4>4
    <3> QED BY <3>2, <3>3
  <2> QED BY <2>1, <2>2
<1>8. RunsWhenDue' /\ RanOneShots' /\ RunningInBatch'
  <2>1. /\ t \notin batch /\ t \notin due /\ t \notin ran /\ t \notin erased
        /\ ran \subseteq Timers /\ due \subseteq Timers
    BY <1>1, <1>2 DEF TypeOK
  <2> QED BY <1>1, <1>3, <2>1 DEF TimersInv, RunsWhenDue, RanOneShots, RunningInBatch
<1> QED BY <1>6, <1>7, <1>8 DEF TimersInv

LEMMA CancelKeeps ==
  ASSUME TimersInv, NEW t \in Timers, Cancel(t)
  PROVE  TimersInv'
<1>1. /\ t \in made /\ cancelled' = cancelled \union {t} /\ timers' = timers \ {t}
      /\ rem' = IF t \in timers THEN [rem EXCEPT ![t] = 0] ELSE rem
      /\ erased' = erased \union ({t} \intersect timers)
      /\ UNCHANGED <<interval, fd, polled, pc, batch, due, age, running, made, ran, jumped, jumps>>
  BY DEF Cancel, Erase
<1>2. /\ TypeOK /\ timers \subseteq made /\ made \subseteq Timers /\ 0 \in -Late..Longest
  BY Types, LongestIs DEF TimersInv
<1>3. rem' \in [Timers -> -Late..Longest] /\ \A x \in timers' : rem'[x] = rem[x]
  BY <1>1, <1>2 DEF TypeOK
<1>4. TypeOK'
  BY <1>1, <1>2, <1>3 DEF TypeOK
<1>5. ArmedInTime'
  BY <1>1, <1>3 DEF TimersInv, ArmedInTime
<1>6. \A x \in due : rem'[x] = rem[x]
  <2>1. due \subseteq Timers /\ due \intersect timers = {}
    BY <1>2 DEF TimersInv, TypeOK, RunsWhenDue
  <2> QED BY <1>1, <1>2, <2>1 DEF TypeOK
<1>7. RunsWhenDue' /\ RanOneShots' /\ RunningInBatch'
  BY <1>1, <1>6 DEF TimersInv, RunsWhenDue, RanOneShots, RunningInBatch
<1> QED BY <1>4, <1>5, <1>7 DEF TimersInv

LEMMA PollReturnsKeeps ==
  ASSUME TimersInv, PollReturns
  PROVE  TimersInv'
<1>1. /\ polled' = TRUE
      /\ UNCHANGED <<timers, rem, interval, fd, pc, batch, due, age, running, made, cancelled,
                     erased, ran, jumped, jumps>>
  BY DEF PollReturns
<1>2. TypeOK'
  BY <1>1 DEF TimersInv, TypeOK
<1> QED BY <1>1, <1>2 DEF TimersInv, ArmedInTime, RunsWhenDue, RanOneShots, RunningInBatch

LEMMA HandleExpiredKeeps ==
  ASSUME TimersInv, HandleExpired
  PROVE  TimersInv'
<1>1. PICK E \in SUBSET timers : Expired(E) /\ batch' = E /\ due' = E /\ timers' = timers \ E
  BY DEF HandleExpired
<1>2. /\ fd' = (IF fd = 0 THEN -1 ELSE fd) /\ polled' = FALSE /\ age' = 0
      /\ pc = "idle" /\ pc' = "run"
      /\ UNCHANGED <<rem, interval, running, made, cancelled, erased, ran, jumped, jumps>>
  BY DEF HandleExpired
<1>3. -1 \in -1..Longest /\ 0 \in -MaxJump..Oldest
  BY LongestIs
<1>4. TypeOK'
  BY <1>1, <1>2, <1>3 DEF TimersInv, TypeOK
<1>5. \A t \in due' : rem'[t] <= 0
  BY <1>1, <1>2 DEF Expired
<1> QED BY <1>1, <1>2, <1>4, <1>5 DEF TimersInv, ArmedInTime, RunsWhenDue, RanOneShots, RunningInBatch

LEMMA RunTimerKeeps ==
  ASSUME TimersInv, NEW t \in Timers, RunTimer(t)
  PROVE  TimersInv'
<1>1. /\ t \in due /\ due' = due \ {t} /\ running' = {t} /\ pc' = "callback"
      /\ ran' = ran \union {x \in {t} : interval[x] = 0}
      /\ UNCHANGED <<timers, rem, interval, fd, polled, batch, age, made, cancelled, erased,
                     jumped, jumps>>
  BY DEF RunTimer
<1>2. t \in batch /\ t \notin timers
  BY <1>1 DEF TimersInv, TypeOK, RunsWhenDue
<1>3. TypeOK'
  BY <1>1, <1>2 DEF TimersInv, TypeOK
<1> QED BY <1>1, <1>2, <1>3 DEF TimersInv, ArmedInTime, RunsWhenDue, RanOneShots, RunningInBatch

LEMMA ResetTimersKeeps ==
  ASSUME TimersInv, ResetTimers
  PROVE  TimersInv'
<1>1. /\ pc = "run" /\ due = {} /\ timers' = timers \union Repeating
      /\ rem' = [t \in Timers |-> CASE t \in Repeating -> Clamp(interval[t] - age)
                                     [] t \in timers -> rem[t]
                                     [] OTHER -> 0]
      /\ IF MustRearm THEN Arm(Earliest(timers', rem')) ELSE UNCHANGED <<fd, jumped>>
      /\ batch' = {} /\ age' = 0 /\ pc' = "idle"
      /\ UNCHANGED <<interval, polled, due, running, made, cancelled, erased, ran, jumps>>
  BY DEF ResetTimers
<1>2. /\ TypeOK /\ timers \subseteq made /\ made \subseteq Timers /\ Longest \in Nat
      /\ \A t \in Timers : rem[t] \in Int /\ -Late <= rem[t] /\ rem[t] <= Longest
      /\ \A t \in Timers : interval[t] \in Int /\ 0 <= interval[t] /\ interval[t] <= Longest
      /\ age \in Int /\ -MaxJump <= age
      /\ \A t \in Timers : interval[t] + MaxJump <= Longest
  BY Types, LongestIs DEF TimersInv
<1>3. ASSUME NEW t \in Timers PROVE Clamp(interval[t] - age) \in -Late..Longest
  <2>1. interval[t] - age \in Int /\ interval[t] - age <= Longest
    BY <1>2
  <2> QED BY <1>2, <2>1, ClampIs
<1>4. \A t \in Timers : rem'[t] \in -Late..Longest
  <2> TAKE t \in Timers
  <2>1. CASE t \in Repeating
    <3>1. rem'[t] = CASE t \in Repeating -> Clamp(interval[t] - age)
                      [] t \in timers -> rem[t]
                      [] OTHER -> 0
      BY <1>1, Zenon
    <3>2. t \notin timers
      BY <2>1 DEF Repeating, TimersInv, RunsWhenDue
    <3>3. rem'[t] = Clamp(interval[t] - age)
      BY <2>1, <3>1, <3>2
    <3> QED BY <1>3, <3>3
  <2>2. CASE t \notin Repeating /\ t \in timers
    BY <1>1, <1>2, <2>2
  <2>3. CASE t \notin Repeating /\ t \notin timers
    <3>1. rem'[t] = 0
      BY <1>1, <2>3
    <3> QED BY <1>2, <3>1
  <2> QED BY <2>1, <2>2, <2>3
<1>5. rem' \in [Timers -> -Late..Longest]
  BY <1>1, <1>4
<1>6. batch \subseteq made /\ Repeating \subseteq made /\ timers' \subseteq Timers
  BY <1>1, <1>2 DEF TypeOK, Repeating
<1>7. timers' # {} => /\ fd' = Positive(Earliest(timers', rem')) /\ jumped' = FALSE
                      /\ \A t \in timers' : Earliest(timers', rem') <= rem'[t]
                      /\ \E t \in timers' : Earliest(timers', rem') = rem'[t]
                      /\ Earliest(timers', rem') \in Int
  <2> SUFFICES ASSUME timers' # {}
               PROVE  /\ fd' = Positive(Earliest(timers', rem')) /\ jumped' = FALSE
                      /\ \A t \in timers' : Earliest(timers', rem') <= rem'[t]
                      /\ \E t \in timers' : Earliest(timers', rem') = rem'[t]
                      /\ Earliest(timers', rem') \in Int
    OBVIOUS
  <2>1. MustRearm
    BY <1>1 DEF MustRearm
  <2>2. \A t \in timers' : rem'[t] \in Int /\ rem'[t] >= -Late
    BY <1>2, <1>4, <1>6
  <2> QED BY <1>1, <2>1, <2>2, EarliestIs DEF Arm
<1>8. timers' # {} => fd' >= 0 /\ fd' \in -1..Longest /\ \A t \in timers' : fd' <= Positive(rem'[t])
  <2> SUFFICES ASSUME timers' # {}
               PROVE  fd' >= 0 /\ fd' \in -1..Longest /\ \A t \in timers' : fd' <= Positive(rem'[t])
    OBVIOUS
  <2> DEFINE e == Earliest(timers', rem')
  <2>1. /\ fd' = Positive(e) /\ e \in Int /\ e <= Longest /\ \A t \in timers' : e <= rem'[t]
        /\ \A t \in timers' : rem'[t] \in Int
    BY <1>2, <1>4, <1>6, <1>7
  <2> HIDE DEF e
  <2>2. fd' \in Nat /\ fd' = IF e <= 0 THEN 0 ELSE e
    BY <2>1, PositiveIs
  <2>3. ASSUME NEW t \in timers' PROVE fd' <= Positive(rem'[t])
    <3>1. rem'[t] \in Int /\ e <= rem'[t]
      BY <2>1
    <3>2. Positive(rem'[t]) \in Nat /\ Positive(rem'[t]) = IF rem'[t] <= 0 THEN 0 ELSE rem'[t]
      BY <3>1, PositiveIs
    <3> QED BY <2>1, <2>2, <3>1, <3>2
  <2> QED BY <1>2, <2>1, <2>2, <2>3
<1>9. timers' = {} => UNCHANGED <<fd, jumped>>
  BY <1>1 DEF MustRearm
<1>10. fd' \in -1..Longest /\ jumped' \in BOOLEAN
  <2>1. CASE timers' = {}
    BY <1>2, <1>9, <2>1 DEF TypeOK
  <2>2. CASE timers' # {}
    <3>1. jumped' = FALSE
      BY <1>7, <2>2
    <3> QED BY <1>8, <2>2, <3>1
  <2> QED BY <2>1, <2>2
<1>11. 0 \in -MaxJump..Oldest
  BY LongestIs
<1>12. TypeOK'
  BY <1>1, <1>2, <1>5, <1>6, <1>10, <1>11 DEF TypeOK
<1>13. ArmedInTime'
  BY <1>8 DEF ArmedInTime
<1>14. ran \intersect Repeating = {} /\ running = {}
  <2>1. \A t \in Repeating : interval[t] # 0
    BY <1>2, <1>6 DEF Repeating
  <2> QED BY <1>1, <2>1 DEF TimersInv, RanOneShots, RunningInBatch
<1>15. RunsWhenDue' /\ RanOneShots' /\ RunningInBatch'
  <2>1. erased \intersect Repeating = {}
    BY DEF Repeating, TimersInv, RunsWhenDue
  <2> QED BY <1>1, <1>14, <2>1 DEF TimersInv, RunsWhenDue, RanOneShots, RunningInBatch
<1> QED BY <1>12, <1>13, <1>15 DEF TimersInv

LEMMA CallbackReturnsKeeps ==
  ASSUME TimersInv, CallbackReturns
  PROVE  TimersInv'
<1>1. /\ running' = {} /\ pc' = "run"
      /\ UNCHANGED <<timers, rem, interval, fd, polled, batch, due, age, made, cancelled, erased,
                     ran, jumped, jumps>>
  BY DEF CallbackReturns
<1>2. TypeOK'
  BY <1>1 DEF TimersInv, TypeOK
<1> QED BY <1>1, <1>2 DEF TimersInv, ArmedInTime, RunsWhenDue, RanOneShots, RunningInBatch

(* A move of the wall clock by j, of which no expiry is put out of bounds.   *)
LEMMA WallClockKeeps ==
  ASSUME TimersInv, NEW j \in Int, WallClock(j), \A t \in timers : rem[t] - j <= Longest,
         age + j >= -MaxJump,
         UNCHANGED <<timers, interval, polled, pc, batch, due, running, made, cancelled, erased, ran>>
  PROVE  /\ rem' \in [Timers -> -Late..Longest] /\ age' \in -MaxJump..Oldest
         /\ \A t \in timers : rem[t] \in Int /\ rem'[t] \in Int /\ rem[t] - j <= rem'[t]
         /\ RunsWhenDue' /\ RanOneShots' /\ RunningInBatch'
<1>1. /\ rem' = [t \in Timers |-> IF t \in timers THEN Clamp(rem[t] - j) ELSE rem[t]]
      /\ age' = IF pc = "idle" THEN age ELSE MinOf({age + j, Oldest})
  BY DEF WallClock
<1>2. /\ TypeOK /\ timers \subseteq Timers /\ Longest \in Nat /\ Oldest \in Nat
      /\ \A t \in Timers : rem[t] \in Int /\ -Late <= rem[t] /\ rem[t] <= Longest
      /\ age \in Int /\ -MaxJump <= age /\ age <= Oldest
  BY Types, LongestIs DEF TimersInv
<1>3. \A x \in Int : x - j <= Longest => Clamp(x - j) \in -Late..Longest /\ x - j <= Clamp(x - j)
  <2> TAKE x \in Int
  <2>1. x - j \in Int
    OBVIOUS
  <2>2. Clamp(x - j) \in Int /\ Clamp(x - j) = IF x - j <= -Late THEN -Late ELSE x - j
    BY <2>1, ClampIs
  <2> QED BY <1>2, <2>2
<1>4. \A t \in Timers : rem'[t] \in -Late..Longest
  <2> TAKE t \in Timers
  <2>1. CASE t \in timers
    BY <1>1, <1>2, <1>3, <2>1
  <2>2. CASE t \notin timers
    BY <1>1, <1>2, <2>2
  <2> QED BY <2>1, <2>2
<1>5. rem' \in [Timers -> -Late..Longest]
  BY <1>1, <1>4
<1>6. \A t \in timers : rem[t] \in Int /\ rem'[t] \in Int /\ rem[t] - j <= rem'[t]
  BY <1>1, <1>2, <1>3, <1>4
<1>7. age' \in -MaxJump..Oldest
  <2>1. age + j \in Int
    BY <1>2
  <2>2. MinOf({age + j, Oldest}) \in {age + j, Oldest} /\ MinOf({age + j, Oldest}) <= Oldest
    <3>1. {age + j, Oldest} \in SUBSET Int /\ -MaxJump \in Int /\ {age + j, Oldest} # {}
      BY <1>2, <2>1
    <3>2. \A x \in {age + j, Oldest} : -MaxJump <= x
      BY <1>2, <2>1
    <3> QED BY <3>1, <3>2, MinOfBounded
  <2>3. MinOf({age + j, Oldest}) \in -MaxJump..Oldest
    BY <1>2, <2>1, <2>2
  <2> QED BY <1>1, <1>2, <2>3
<1>8. \A t \in due : rem'[t] = rem[t]
  <2>1. due \subseteq Timers /\ due \intersect timers = {}
    BY <1>2 DEF TimersInv, TypeOK, RunsWhenDue
  <2> QED BY <1>1, <2>1
<1>9. RunsWhenDue' /\ RanOneShots' /\ RunningInBatch'
  BY <1>8 DEF TimersInv, RunsWhenDue, RanOneShots, RunningInBatch
<1> QED BY <1>5, <1>6, <1>7, <1>9

(* Positive keeps the order, and one tick stays at most one.                *)
LEMMA PositiveKeepsOrder ==
  \A old, new \in Int : /\ Positive(old) \in Nat /\ Positive(new) \in Nat
                        /\ (old <= new => Positive(old) <= Positive(new))
                        /\ (old - 1 <= new => Positive(old) <= Positive(new) + 1)
<1> TAKE old, new \in Int
<1>1. /\ Positive(old) \in Nat /\ Positive(old) = IF old <= 0 THEN 0 ELSE old
      /\ Positive(new) \in Nat /\ Positive(new) = IF new <= 0 THEN 0 ELSE new
  BY PositiveIs
<1> QED BY <1>1

LEMMA TickKeeps ==
  ASSUME TimersInv, Tick
  PROVE  TimersInv'
<1>1. /\ WallClock(1) /\ fd' = IF fd > 0 THEN fd - 1 ELSE fd
      /\ UNCHANGED <<timers, interval, polled, pc, batch, due, running, made, cancelled, erased,
                     ran, jumped, jumps>>
  BY DEF Tick
<1>2. /\ TypeOK /\ timers \subseteq Timers /\ Longest \in Nat
      /\ \A t \in Timers : rem[t] \in Int /\ rem[t] <= Longest
      /\ fd \in Int /\ -1 <= fd /\ fd <= Longest /\ age \in Int /\ -MaxJump <= age
  BY Types, LongestIs DEF TimersInv
<1>3. /\ rem' \in [Timers -> -Late..Longest] /\ age' \in -MaxJump..Oldest
      /\ \A t \in timers : rem[t] \in Int /\ rem'[t] \in Int /\ rem[t] - 1 <= rem'[t]
      /\ RunsWhenDue' /\ RanOneShots' /\ RunningInBatch'
  <2>1. (\A t \in timers : rem[t] - 1 <= Longest) /\ age + 1 >= -MaxJump
    BY <1>2
  <2> QED BY <1>1, <2>1, WallClockKeeps
<1>4. fd' \in -1..Longest
  BY <1>1, <1>2
<1>5. TypeOK'
  BY <1>1, <1>3, <1>4 DEF TimersInv, TypeOK
<1>6. ArmedInTime'
  <2> SUFFICES ASSUME pc = "idle", timers # {}
               PROVE  fd' >= 0 /\ (~jumped => \A t \in timers : fd' <= Positive(rem'[t]))
    BY <1>1 DEF ArmedInTime
  <2>1. fd >= 0 /\ (~jumped => \A t \in timers : fd <= Positive(rem[t]))
    BY DEF TimersInv, ArmedInTime
  <2>2. /\ fd \in Nat /\ fd' \in Nat /\ fd' <= fd /\ (fd' = 0 \/ fd' <= fd - 1)
    BY <1>1, <1>2, <2>1
  <2>3. ASSUME ~jumped, NEW t \in timers PROVE fd' <= Positive(rem'[t])
    <3>1. /\ Positive(rem[t]) \in Nat /\ Positive(rem'[t]) \in Nat
          /\ Positive(rem[t]) <= Positive(rem'[t]) + 1
      BY <1>3, PositiveKeepsOrder
    <3>2. fd <= Positive(rem[t])
      BY <2>1, <2>3
    <3> QED BY <2>2, <3>1, <3>2
  <2> QED BY <2>2, <2>3
<1> QED BY <1>3, <1>5, <1>6 DEF TimersInv

LEMMA JumpKeeps ==
  ASSUME TimersInv, NEW j \in (-MaxJump..MaxJump) \ {0}, Jump(j)
  PROVE  TimersInv'
<1>1. /\ WallClock(j) /\ jumps < MaxJumps /\ jumps' = jumps + 1
      /\ (\A t \in timers : rem[t] - j <= Longest) /\ age + j >= -MaxJump
      /\ jumped' = (jumped \/ j > 0)
      /\ UNCHANGED <<timers, interval, fd, polled, pc, batch, due, running, made, cancelled, erased, ran>>
  BY DEF Jump
<1>2. TypeOK /\ j \in Int /\ fd \in Int
  BY Types DEF TimersInv
<1>3. /\ rem' \in [Timers -> -Late..Longest] /\ age' \in -MaxJump..Oldest
      /\ \A t \in timers : rem[t] \in Int /\ rem'[t] \in Int /\ rem[t] - j <= rem'[t]
      /\ RunsWhenDue' /\ RanOneShots' /\ RunningInBatch'
  BY <1>1, <1>2, WallClockKeeps
<1>4. jumped' \in BOOLEAN
  BY <1>1, Zenon
<1>5. jumps' \in 0..MaxJumps
  BY <1>1, <1>2 DEF TypeOK
<1>6. TypeOK'
  BY <1>1, <1>2, <1>3, <1>4, <1>5 DEF TypeOK
<1>7. ArmedInTime'
  <2> SUFFICES ASSUME pc = "idle", timers # {}
               PROVE  fd >= 0 /\ (~jumped' => \A t \in timers : fd <= Positive(rem'[t]))
    BY <1>1 DEF ArmedInTime
  <2>1. fd >= 0 /\ (~jumped => \A t \in timers : fd <= Positive(rem[t]))
    BY DEF TimersInv, ArmedInTime
  <2>2. ASSUME ~jumped', NEW t \in timers PROVE fd <= Positive(rem'[t])
    <3>1. ~jumped
      BY <1>1, <2>2, Zenon
    <3>2. ~(j > 0)
      BY <1>1, <2>2, Zenon
    <3>3. /\ Positive(rem[t]) \in Nat /\ Positive(rem'[t]) \in Nat
          /\ Positive(rem[t]) <= Positive(rem'[t])
      <4>1. rem[t] \in Int /\ rem'[t] \in Int /\ rem[t] <= rem'[t]
        BY <1>2, <1>3, <3>2
      <4> QED BY <4>1, PositiveKeepsOrder
    <3>4. fd <= Positive(rem[t])
      BY <2>1, <2>2, <3>1
    <3> QED BY <1>2, <3>3, <3>4
  <2> QED BY <2>1, <2>2
<1> QED BY <1>3, <1>6, <1>7 DEF TimersInv

LEMMA InvKept == TimersInv /\ [Next]_vars => TimersInv'
<1> SUFFICES ASSUME TimersInv, [Next]_vars PROVE TimersInv'
  OBVIOUS
<1>1. CASE LoopStep
  BY <1>1, PollReturnsKeeps, HandleExpiredKeeps, CallbackReturnsKeeps, ResetTimersKeeps, RunTimerKeeps DEF LoopStep
<1>2. CASE UNCHANGED vars
  BY <1>2 DEF vars, TimersInv, TypeOK, ArmedInTime, RunsWhenDue, RanOneShots, RunningInBatch
<1> QED BY <1>1, <1>2, AddTimerKeeps, CancelKeeps, TickKeeps, JumpKeeps DEF Next

(* Whatever is added, cancelled and run, and however time passes.           *)
THEOREM InvHolds == Spec => []TimersInv
BY InitHolds, InvKept, PTL DEF Spec

-----------------------------------------------------------------------------
(* Every variable keeps its type.                                           *)
THEOREM TypeCorrect == Spec => []TypeOK
<1>1. TimersInv => TypeOK
  BY DEF TimersInv
<1> QED BY <1>1, InvHolds, PTL

(* addTimerInLoop, cancelInLoop and resetTimers leave the timerfd armed, in *)
(* time for the first timer.                                                *)
THEOREM NoTimerForgotten == Spec => []Armed
<1>1. TimersInv => Armed
  <2> SUFFICES ASSUME TimersInv, pc = "idle", timers # {}
               PROVE  fd >= 0 /\ (~jumped => fd <= Positive(Earliest(timers, rem)))
    BY DEF Armed
  <2>1. \A t \in timers : rem[t] \in Int /\ rem[t] >= -Late
    BY Types DEF TimersInv
  <2>2. \E t \in timers : Earliest(timers, rem) = rem[t]
    BY <2>1, EarliestIs
  <2> QED BY <2>2 DEF TimersInv, ArmedInTime
<1> QED BY <1>1, InvHolds, PTL

(* handleExpired and resetTimers run no timer before its expiry, one-shot   *)
(* timers once only, and what cancelInLoop erased is in no batch and does   *)
(* not come back.                                                           *)
THEOREM RunsOnlyWhenDue == Spec => []RunsWhenDue
<1>1. TimersInv => RunsWhenDue
  BY DEF TimersInv
<1> QED BY <1>1, InvHolds, PTL
==============================================================================
