------------------------ MODULE LogAsynAppenderProofs ------------------------
(***************************************************************************)
(* Proofs about LogAsynAppender for buffers of any size, any limit and any *)
(* number of messages and starts: type correctness, which says that the    *)
(* buffer messages go to is never a null pointer, that the writing thread  *)
(* always gets enough buffers back, and that the messages reach the file   *)
(* in order, each once.                                                    *)
(***************************************************************************)
EXTENDS LogAsynAppender, SequenceTheorems, NaturalsInduction, WellFoundedInduction, TLAPS

-----------------------------------------------------------------------------
(* The inductive invariant: where the four buffers can be.                  *)

(* nextBuffer is taken only together with a buffer put in the holder.       *)
NextIsInHolder == nextBuffer = Null => buffersHolder # <<>>

(* Between two batches the writing thread has its two spare buffers, and    *)
(* nothing else.                                                            *)
SparesAtHome == pc \in {"check", "lock", "wait", "end"} =>
                    curbuf_bak # Null /\ nextbuf_bak # Null /\ buffers_bak = <<>>

(* In a batch, there are as many buffers to write as spares to be replaced. *)
EnoughInBatch == pc \in {"limit", "write", "restore"} =>
                     Len(buffers_bak) >= Needed(curbuf_bak) + Needed(nextbuf_bak)

BuffersInv == TypeOK /\ NextIsInHolder /\ SparesAtHome /\ EnoughInBatch

-----------------------------------------------------------------------------
(* Buffers and pointers *)

LEMMA NullAndNew == IsPtr(Null) /\ IsPtr(new) /\ new # Null /\ EmptyBuffer \in Buffers
BY DEF IsPtr, Null, new, EmptyBuffer, Buffers

LEMMA AppendType ==
  ASSUME NEW S, NEW s \in Seq(S), NEW e \in S
  PROVE  Append(s, e) \in Seq(S)
OBVIOUS

LEMMA ConcatType ==
  ASSUME NEW S, NEW s \in Seq(S), NEW t \in Seq(S)
  PROVE  s \o t \in Seq(S) /\ Len(s \o t) = Len(s) + Len(t)
OBVIOUS

LEMMA PutType ==
  ASSUME NEW buffer \in Buffers, NEW msg \in 1..MaxAppends
  PROVE  Put(buffer, msg) \in Buffers
<1>1. Append(buffer, msg) \in Buffers
  BY AppendType DEF Buffers
<1> QED BY <1>1 DEF Put

LEMMA PtrOfBuffer ==
  ASSUME NEW buffer \in Buffers
  PROVE  IsPtr(<<buffer>>) /\ <<buffer>> # Null
BY DEF IsPtr, Null

LEMMA PtrContent ==
  ASSUME NEW p, IsPtr(p), p # Null
  PROVE  Len(p) = 1 /\ p[1] \in Buffers
BY DEF IsPtr, Null

LEMMA RecycledPtr ==
  ASSUME NEW buffers
  PROVE  IsPtr(Recycled(buffers)) /\ (buffers # <<>> => Recycled(buffers) # Null)
BY NullAndNew DEF Recycled

LEMMA NeededRange ==
  ASSUME NEW p
  PROVE  /\ Needed(p) \in 0..1
         /\ p = Null => Needed(p) = 1
         /\ p # Null => Needed(p) = 0
BY DEF Needed

LEMMA InitBuffers == Init => BuffersInv
<1> SUFFICES ASSUME Init PROVE BuffersInv
  OBVIOUS
<1> USE NullAndNew, ConstantsAssumption DEF Init
<1>1. buffersHolder \in Seq(Buffers) /\ buffers_bak \in Seq(Buffers)
  OBVIOUS
<1>2. appended \in 0..MaxAppends /\ starts \in 0..MaxStarts
  OBVIOUS
<1>3. /\ IsPtr(curBuffer) /\ curBuffer # Null /\ IsPtr(nextBuffer)
      /\ IsPtr(curbuf_bak) /\ IsPtr(nextbuf_bak) /\ nextBuffer # Null
  OBVIOUS
<1>4. latch \in 0..1 /\ pc = "none" /\ owner = "idle"
  OBVIOUS
<1>5. TypeOK
  <2>1. running \in BOOLEAN /\ woken \in BOOLEAN
    BY Zenon
  <2> QED BY <1>1, <1>2, <1>3, <1>4, <2>1 DEF TypeOK
<1>6. NextIsInHolder /\ SparesAtHome /\ EnoughInBatch
  BY <1>3, <1>4 DEF NextIsInHolder, SparesAtHome, EnoughInBatch
<1> QED BY <1>5, <1>6 DEF BuffersInv

-----------------------------------------------------------------------------
(* append *)

LEMMA AppendPreserves == BuffersInv /\ AppendLog => BuffersInv'
<1> SUFFICES ASSUME BuffersInv, AppendLog PROVE BuffersInv'
  OBVIOUS
<1> USE DEF BuffersInv
<1>1. appended' \in 1..MaxAppends /\ appended' \in 0..MaxAppends
  BY ConstantsAssumption DEF TypeOK, AppendLog
<1>2. curBuffer[1] \in Buffers /\ Len(curBuffer) = 1
  BY PtrContent DEF TypeOK
<1>3. UNCHANGED <<own, control, pc>>
  BY DEF AppendLog
<1>4. woken' \in BOOLEAN
  BY DEF TypeOK, AppendLog, AppendFits, AppendFull, notify_one
<1>5. CASE AppendFits(appended')
  <2>1. IsPtr(curBuffer') /\ curBuffer' # Null
    BY <1>1, <1>2, <1>5, PutType, PtrOfBuffer DEF AppendFits
  <2> QED BY <1>1, <1>3, <1>4, <1>5, <2>1
          DEF AppendFits, TypeOK, NextIsInHolder, SparesAtHome, EnoughInBatch, own, control
<1>6. CASE AppendFull(appended')
  <2>1. (IF nextBuffer # Null THEN nextBuffer[1] ELSE EmptyBuffer) \in Buffers
    BY PtrContent, NullAndNew DEF TypeOK
  <2>2. IsPtr(curBuffer') /\ curBuffer' # Null
    BY <1>1, <1>6, <2>1, PutType, PtrOfBuffer DEF AppendFull
  <2>3. buffersHolder' \in Seq(Buffers) /\ buffersHolder' # <<>>
    BY <1>2, <1>6 DEF AppendFull, HolderWithCur, TypeOK, IsPtr
  <2>4. IsPtr(nextBuffer')
    BY <1>6, NullAndNew DEF AppendFull
  <2> QED BY <1>1, <1>3, <1>4, <2>2, <2>3, <2>4
          DEF TypeOK, NextIsInHolder, SparesAtHome, EnoughInBatch, own, control
<1> QED BY <1>5, <1>6 DEF AppendLog

-----------------------------------------------------------------------------
(* process *)

(* After the exchange of the buffers, done when there is something to take. *)
LEMMA ExchangePreserves ==
  ASSUME BuffersInv, pc \in {"lock", "wait"}, Exchange, woken' \in BOOLEAN,
         UNCHANGED <<control, appended>>
  PROVE  BuffersInv'
<1> USE DEF BuffersInv
<1>1. curbuf_bak # Null /\ nextbuf_bak # Null /\ buffers_bak = <<>>
  BY DEF SparesAtHome
<1>2. Len(curBuffer) = 1 /\ curBuffer \in Seq(Buffers) /\ buffersHolder \in Seq(Buffers)
  BY PtrContent DEF TypeOK, IsPtr
<1>3. buffers_bak' \in Seq(Buffers) /\ Len(buffers_bak') = Len(buffersHolder) + 1
  <2>1. buffers_bak' = buffersHolder \o curBuffer
    BY DEF Exchange, Taken, HolderWithCur
  <2> QED BY <1>2, <2>1, ConcatType
<1>4. buffersHolder' = <<>> /\ buffersHolder' \in Seq(Buffers)
  BY <1>1 DEF Exchange
<1>5. /\ IsPtr(curBuffer') /\ curBuffer' # Null
      /\ curbuf_bak' = Null /\ IsPtr(curbuf_bak') /\ Needed(curbuf_bak)' = 1
  BY <1>1, NullAndNew, NeededRange DEF Exchange, TypeOK
<1>6. /\ IsPtr(nextBuffer') /\ IsPtr(nextbuf_bak') /\ nextBuffer' # Null
      /\ Len(buffers_bak') >= Needed(curbuf_bak)' + Needed(nextbuf_bak)'
  <2>1. CASE nextBuffer = Null
    <3>1. buffersHolder # <<>>
      BY <2>1 DEF NextIsInHolder
    <3>2. Len(buffersHolder) >= 1
      BY <1>2, <3>1
    <3>3. Needed(nextbuf_bak)' = 1 /\ nextBuffer' = nextbuf_bak /\ nextbuf_bak' = Null
      BY <2>1, NeededRange DEF Exchange, RefillNext
    <3>4. Len(buffersHolder) \in Nat
      BY <1>2
    <3>5. Len(buffers_bak') >= Needed(curbuf_bak)' + Needed(nextbuf_bak)'
      BY <1>3, <1>5, <3>2, <3>3, <3>4
    <3> QED BY <1>1, <3>3, <3>5, NullAndNew DEF TypeOK
  <2>2. CASE nextBuffer # Null
    <3>1. nextBuffer' = nextBuffer /\ nextbuf_bak' = nextbuf_bak
      BY <2>2 DEF Exchange, RefillNext
    <3>2. Needed(nextbuf_bak)' = 0
      BY <1>1, <3>1, NeededRange
    <3>3. Len(buffersHolder) \in Nat
      BY <1>2
    <3>4. Len(buffers_bak') >= Needed(curbuf_bak)' + Needed(nextbuf_bak)'
      BY <1>3, <1>5, <3>2, <3>3
    <3> QED BY <2>2, <3>1, <3>4 DEF TypeOK
  <2> QED BY <2>1, <2>2
<1>7. pc' = "limit"
  BY DEF Exchange
<1>8. TypeOK'
  BY <1>3, <1>4, <1>5, <1>6, <1>7 DEF TypeOK, control
<1> QED BY <1>6, <1>7, <1>8 DEF NextIsInHolder, SparesAtHome, EnoughInBatch

LEMMA LockPreserves == BuffersInv /\ Lock => BuffersInv'
<1> SUFFICES ASSUME BuffersInv, Lock PROVE BuffersInv'
  OBVIOUS
<1>1. CASE buffersHolder = <<>>
  <2>1. pc = "lock" /\ pc' = "wait" /\ woken' = FALSE /\ UNCHANGED <<shared, own, control, appended>>
    BY <1>1 DEF Lock
  <2>2. woken' \in BOOLEAN
    BY <2>1, Zenon
  <2> QED BY <2>1, <2>2 DEF BuffersInv, TypeOK, NextIsInHolder, SparesAtHome, EnoughInBatch,
                            shared, own, control
<1>2. CASE buffersHolder # <<>>
  <2>1. pc = "lock" /\ Exchange /\ woken' = woken /\ UNCHANGED <<control, appended>>
    BY <1>2 DEF Lock
  <2> QED BY <2>1, ExchangePreserves DEF BuffersInv, TypeOK
<1> QED BY <1>1, <1>2

LEMMA AwakePreserves == BuffersInv /\ Awake => BuffersInv'
<1> SUFFICES ASSUME BuffersInv, Awake PROVE BuffersInv'
  OBVIOUS
<1>1. pc = "wait" /\ woken' = FALSE /\ UNCHANGED <<control, appended>>
  BY DEF Awake
<1>2. woken' \in BOOLEAN
  BY <1>1, Zenon
<1>3. CASE NothingToWrite
  <2>1. pc' = "check" /\ UNCHANGED <<shared, own>>
    BY <1>3 DEF Awake
  <2> QED BY <1>1, <1>2, <2>1 DEF BuffersInv, TypeOK, NextIsInHolder, SparesAtHome,
                                  EnoughInBatch, shared, own, control
<1>4. CASE ~NothingToWrite
  <2>1. Exchange
    BY <1>4 DEF Awake
  <2> QED BY <1>1, <1>2, <2>1, ExchangePreserves
<1> QED BY <1>3, <1>4

LEMMA LimitPreserves == BuffersInv /\ CheckLimit => BuffersInv'
<1> SUFFICES ASSUME BuffersInv, CheckLimit PROVE BuffersInv'
  OBVIOUS
<1> USE DEF BuffersInv
<1>1. /\ pc = "limit" /\ pc' = "write"
      /\ UNCHANGED <<shared, curbuf_bak, nextbuf_bak, control, woken, appended>>
  BY DEF CheckLimit
<1>2. /\ Needed(curbuf_bak) \in 0..1 /\ Needed(nextbuf_bak) \in 0..1
      /\ Needed(curbuf_bak)' = Needed(curbuf_bak) /\ Needed(nextbuf_bak)' = Needed(nextbuf_bak)
  BY <1>1, NeededRange
<1>3. /\ buffers_bak' \in Seq(Buffers)
      /\ Len(buffers_bak') >= Needed(curbuf_bak)' + Needed(nextbuf_bak)'
  <2>1. CASE Len(buffers_bak) > Limit
    <3>1. buffers_bak \in Seq(Buffers) /\ Len(buffers_bak) > 2
      BY <2>1, ConstantsAssumption DEF TypeOK
    <3>2. buffers_bak' = SubSeq(buffers_bak, 1, 2)
      BY <2>1 DEF CheckLimit, Kept
    <3>3. buffers_bak' \in Seq(Buffers) /\ Len(buffers_bak') = 2
      BY <3>1, <3>2
    <3> QED BY <1>2, <3>3
  <2>2. CASE ~(Len(buffers_bak) > Limit)
    <3>1. buffers_bak' = buffers_bak
      BY <2>2 DEF CheckLimit
    <3> QED BY <1>1, <1>2, <3>1 DEF TypeOK, EnoughInBatch
  <2> QED BY <2>1, <2>2
<1>4. TypeOK'
  BY <1>1, <1>3 DEF TypeOK, shared, control
<1> QED BY <1>1, <1>3, <1>4 DEF NextIsInHolder, SparesAtHome, EnoughInBatch, shared

LEMMA RestorePreserves == BuffersInv /\ Restore => BuffersInv'
<1> SUFFICES ASSUME BuffersInv, Restore PROVE BuffersInv'
  OBVIOUS
<1> USE DEF BuffersInv
<1>1. /\ pc = "restore" /\ pc' = "check" /\ buffers_bak' = <<>>
      /\ UNCHANGED <<shared, control, woken, appended>>
  BY DEF Restore
<1>2. Len(buffers_bak) >= Needed(curbuf_bak) + Needed(nextbuf_bak)
  BY <1>1 DEF EnoughInBatch
<1>3. buffers_bak \in Seq(Buffers) /\ IsPtr(curbuf_bak) /\ IsPtr(nextbuf_bak)
  BY DEF TypeOK
<1>4. IsPtr(curbuf_bak') /\ curbuf_bak' # Null
  <2>1. CASE curbuf_bak = Null
    <3>1. Needed(curbuf_bak) = 1 /\ Needed(nextbuf_bak) \in 0..1
      BY <2>1, NeededRange
    <3>2. buffers_bak # <<>>
      BY <1>2, <1>3, <3>1
    <3>3. curbuf_bak' = Recycled(buffers_bak)
      BY <2>1 DEF Restore
    <3> QED BY <3>2, <3>3, RecycledPtr
  <2>2. CASE curbuf_bak # Null
    <3>1. curbuf_bak' = curbuf_bak
      BY <2>2 DEF Restore
    <3> QED BY <1>3, <2>2, <3>1
  <2> QED BY <2>1, <2>2
<1>5. IsPtr(nextbuf_bak') /\ nextbuf_bak' # Null
  <2>1. CASE nextbuf_bak = Null
    <3> DEFINE rest == IF curbuf_bak = Null THEN Front(buffers_bak) ELSE buffers_bak
    <3>1. nextbuf_bak' = Recycled(rest)
      BY <2>1 DEF Restore
    <3>2. Needed(nextbuf_bak) = 1
      BY <2>1, NeededRange
    <3>3. rest # <<>>
      <4>1. CASE curbuf_bak = Null
        <5>1. Needed(curbuf_bak) = 1
          BY <4>1, NeededRange
        <5>2. Len(buffers_bak) >= 2
          BY <1>2, <1>3, <3>2, <5>1
        <5>3. Len(SubSeq(buffers_bak, 1, Len(buffers_bak) - 1)) = Len(buffers_bak) - 1
          BY <1>3, <5>2
        <5>4. Len(Front(buffers_bak)) # 0
          BY <1>3, <5>2, <5>3 DEF Front
        <5> QED BY <4>1, <5>4
      <4>2. CASE curbuf_bak # Null
        <5>1. Needed(curbuf_bak) = 0
          BY <4>2, NeededRange
        <5>2. Len(buffers_bak) >= 1
          BY <1>2, <1>3, <3>2, <5>1
        <5> QED BY <4>2, <5>2
      <4> QED BY <4>1, <4>2
    <3> HIDE DEF rest
    <3> QED BY <3>1, <3>3, RecycledPtr
  <2>2. CASE nextbuf_bak # Null
    <3>1. nextbuf_bak' = nextbuf_bak
      BY <2>2 DEF Restore
    <3> QED BY <1>3, <2>2, <3>1
  <2> QED BY <2>1, <2>2
<1>6. buffers_bak' \in Seq(Buffers)
  BY <1>1
<1>7. TypeOK'
  BY <1>1, <1>4, <1>5, <1>6 DEF TypeOK, shared, control
<1> QED BY <1>1, <1>4, <1>5, <1>7 DEF NextIsInHolder, SparesAtHome, EnoughInBatch, shared

-----------------------------------------------------------------------------
(* The other steps *)

LEMMA OthersPreserve ==
  ASSUME BuffersInv,
         \/ Flush \/ Begin \/ CheckRunning \/ WriteBuffers \/ Owner \/ Finished
         \/ UNCHANGED vars
  PROVE  BuffersInv'
<1> USE DEF BuffersInv, NextIsInHolder, SparesAtHome, EnoughInBatch, shared, own, control
<1>1. CASE Flush
  <2>1. woken' \in BOOLEAN
    BY <1>1 DEF Flush, notify_one, TypeOK
  <2> QED BY <1>1, <2>1 DEF Flush, TypeOK
<1>2. CASE Begin
  <2>1. latch' \in 0..1
    BY <1>2 DEF Begin, TypeOK
  <2>2. buffers_bak' \in Seq(Buffers)
    BY <1>2 DEF Begin
  <2> QED BY <1>2, <2>1, <2>2, NullAndNew DEF Begin, TypeOK
<1>3. CASE CheckRunning
  BY <1>3 DEF CheckRunning, TypeOK
<1>4. CASE WriteBuffers
  BY <1>4 DEF WriteBuffers, TypeOK
<1>5. CASE Start
  <2>1. running' \in BOOLEAN
    BY <1>5, Zenon DEF Start
  <2>2. starts' \in 0..MaxStarts
    BY <1>5, ConstantsAssumption DEF Start, TypeOK
  <2> QED BY <1>5, <2>1, <2>2 DEF Start, TypeOK
<1>6. CASE StartReturns
  BY <1>6 DEF StartReturns, TypeOK
<1>7. CASE Stop
  <2>1. running' \in BOOLEAN
    BY <1>7, Zenon DEF Stop
  <2> QED BY <1>7, <2>1 DEF Stop, TypeOK
<1>8. CASE StopNotifies
  <2>1. woken' \in BOOLEAN
    BY <1>8 DEF StopNotifies, notify_one, TypeOK
  <2> QED BY <1>8, <2>1 DEF StopNotifies, TypeOK
<1>9. CASE StopReturns
  <2>1. buffers_bak' \in Seq(Buffers)
    BY <1>9 DEF StopReturns
  <2> QED BY <1>9, <2>1, NullAndNew DEF StopReturns, TypeOK
<1>10. CASE Finished \/ UNCHANGED vars
  BY <1>10 DEF Finished, vars, TypeOK
<1> QED BY <1>1, <1>2, <1>3, <1>4, <1>5, <1>6, <1>7, <1>8, <1>9, <1>10 DEF Owner

LEMMA StepBuffers == BuffersInv /\ [Next]_vars => BuffersInv'
<1> SUFFICES ASSUME BuffersInv, [Next]_vars PROVE BuffersInv'
  OBVIOUS
<1>1. CASE AppendLog
  BY <1>1, AppendPreserves
<1>2. CASE Lock
  BY <1>2, LockPreserves
<1>3. CASE Notified \/ IntervalOver
  BY <1>3, AwakePreserves DEF Notified, IntervalOver
<1>4. CASE CheckLimit
  BY <1>4, LimitPreserves
<1>5. CASE Restore
  BY <1>5, RestorePreserves
<1>6. CASE Flush \/ Begin \/ CheckRunning \/ WriteBuffers \/ Owner \/ Finished \/ UNCHANGED vars
  BY <1>6, OthersPreserve
<1> QED BY <1>1, <1>2, <1>3, <1>4, <1>5, <1>6 DEF Next, Process

LEMMA BuffersInvariant == Spec => []BuffersInv
BY InitBuffers, StepBuffers, PTL DEF Spec

-----------------------------------------------------------------------------
(* Type correctness, with curBuffer never a null pointer when the mutex is  *)
(* free: append may use it without a test.                                  *)
THEOREM TypeCorrect == Spec => []TypeOK
<1>1. BuffersInv => TypeOK
  BY DEF BuffersInv
<1> QED BY <1>1, BuffersInvariant, PTL

(* process never takes back() of an empty vector, whatever was moved and    *)
(* dropped before: EnoughBuffers.                                           *)
THEOREM BackIsThere == Spec => []EnoughBuffers
<1>1. BuffersInv => EnoughBuffers
  BY DEF BuffersInv, EnoughInBatch, EnoughBuffers
<1> QED BY <1>1, BuffersInvariant, PTL

-----------------------------------------------------------------------------
(* Sequences of sequences *)

LEMMA LeastOfNats ==
  ASSUME NEW S \in SUBSET Nat, S # {}
  PROVE  \E m \in S : \A n \in S : m <= n
<1>1. PICK m \in S : \A n \in S : <<n, m>> \notin OpToRel(<, Nat)
  BY WFMin, NatLessThanWellFounded, Zenon
<1>2. \A n \in S : ~(n < m)
  BY <1>1, Zenon DEF OpToRel
<1> QED BY <1>2

(* FlattenSeq is defined by recursion: f[i] joins the first i of the        *)
(* sequences.                                                               *)
Joins(s, n, f) == f = [i \in 1..n |-> IF i = 1 THEN s[i] ELSE f[i - 1] \o s[i]]

LEMMA JoinsExists ==
  ASSUME NEW s, NEW n \in Nat
  PROVE  \E f : Joins(s, n, f)
<1> DEFINE Bad == {m \in Nat : ~\E f : Joins(s, m, f)}
<1>1. SUFFICES ASSUME Bad # {} PROVE FALSE
  OBVIOUS
<1>2. PICK m \in Bad : \A k \in Bad : m <= k
  BY <1>1, LeastOfNats
<1>3. CASE m = 0
  <2> DEFINE f == [i \in 1..0 |-> s]
  <2>1. Joins(s, 0, f)
    BY DEF Joins
  <2> QED BY <1>2, <1>3, <2>1
<1>4. CASE m # 0
  <2>1. m \in Nat \ {0} /\ m - 1 \in Nat /\ m - 1 \notin Bad
    BY <1>2, <1>4
  <2>2. PICK g : Joins(s, m - 1, g)
    BY <2>1
  <2> DEFINE last == IF m = 1 THEN s[m] ELSE g[m - 1] \o s[m]
             f == [i \in 1..m |-> IF i = m THEN last ELSE g[i]]
  <2>3. ASSUME NEW i \in 1..m PROVE f[i] = IF i = 1 THEN s[i] ELSE f[i - 1] \o s[i]
    <3>1. CASE i = m
      BY <2>1, <3>1
    <3>2. CASE i # m
      <4>1. i \in 1..(m - 1) /\ f[i] = g[i]
        BY <2>1, <3>2
      <4>2. i # 1 => i - 1 \in 1..(m - 1) /\ f[i - 1] = g[i - 1]
        BY <2>1, <3>2
      <4>3. g[i] = IF i = 1 THEN s[i] ELSE g[i - 1] \o s[i]
        BY <2>2, <4>1 DEF Joins
      <4> QED BY <4>1, <4>2, <4>3
    <3> QED BY <3>1, <3>2
  <2>4. Joins(s, m, f)
    <3>1. f = [i \in 1..m |-> f[i]]
      OBVIOUS
    <3> HIDE DEF f
    <3> QED BY <2>3, <3>1 DEF Joins
  <2> QED BY <1>2, <2>4
<1> QED BY <1>3, <1>4

LEMMA FlattenIsJoin ==
  ASSUME NEW S, NEW s \in Seq(S), s # <<>>
  PROVE  \E f : Joins(s, Len(s), f) /\ FlattenSeq(s) = f[Len(s)]
<1>1. Len(s) \in Nat \ {0}
  BY EmptySeq, LenProperties
<1>2. \E f : Joins(s, Len(s), f)
  BY <1>1, JoinsExists
<1> DEFINE f == CHOOSE f : Joins(s, Len(s), f)
<1>3. Joins(s, Len(s), f)
  BY <1>2
<1>4. FlattenSeq(s) = f[Len(s)]
  BY <1>1 DEF FlattenSeq, Joins
<1> QED BY <1>3, <1>4

LEMMA JoinsAt ==
  ASSUME NEW s, NEW n \in Nat, NEW f, Joins(s, n, f), NEW i \in 1..n
  PROVE  f[i] = IF i = 1 THEN s[i] ELSE f[i - 1] \o s[i]
BY DEF Joins

LEMMA JoinsType ==
  ASSUME NEW S, NEW s \in Seq(Seq(S)), NEW f, Joins(s, Len(s), f)
  PROVE  \A i \in 1..Len(s) : f[i] \in Seq(S)
<1> DEFINE n == Len(s)
           Bad == {i \in 1..n : f[i] \notin Seq(S)}
<1>0. n \in Nat /\ \A i \in 1..n : s[i] \in Seq(S)
  BY ElementOfSeq, LenProperties
<1> HIDE DEF n
<1>1. SUFFICES ASSUME Bad # {} PROVE FALSE
  BY DEF n
<1>2. Bad \in SUBSET Nat
  OBVIOUS
<1>3. PICK m \in Bad : \A k \in Bad : m <= k
  <2> HIDE DEF Bad
  <2> QED BY <1>1, <1>2, LeastOfNats
<1>4. m \in 1..n /\ f[m] \notin Seq(S) /\ f[m] = IF m = 1 THEN s[m] ELSE f[m - 1] \o s[m]
  BY <1>0, JoinsAt DEF n
<1>5. CASE m = 1
  BY <1>0, <1>4, <1>5
<1>6. CASE m # 1
  <2>1. m - 1 \in 1..n /\ m - 1 \notin Bad
    BY <1>0, <1>3, <1>4, <1>6
  <2>2. f[m - 1] \in Seq(S) /\ s[m] \in Seq(S)
    BY <2>1, <1>0, <1>4
  <2>3. f[m - 1] \o s[m] \in Seq(S)
    BY <2>2, ConcatProperties
  <2> QED BY <1>4, <1>6, <2>3
<1> QED BY <1>5, <1>6

LEMMA JoinsAgree ==
  ASSUME NEW s, NEW t, NEW n \in Nat, NEW m \in Nat, NEW f, NEW g,
         Joins(s, n, f), Joins(t, m, g), n <= m, \A i \in 1..n : s[i] = t[i]
  PROVE  \A i \in 1..n : f[i] = g[i]
<1> DEFINE Bad == {i \in 1..n : f[i] # g[i]}
<1>1. SUFFICES ASSUME Bad # {} PROVE FALSE
  OBVIOUS
<1>2. Bad \in SUBSET Nat
  OBVIOUS
<1>3. PICK k \in Bad : \A j \in Bad : k <= j
  <2> HIDE DEF Bad
  <2> QED BY <1>1, <1>2, LeastOfNats
<1>4. k \in 1..n /\ k \in 1..m /\ s[k] = t[k] /\ f[k] # g[k]
  OBVIOUS
<1>5. f[k] = IF k = 1 THEN s[k] ELSE f[k - 1] \o s[k]
  BY <1>4, JoinsAt
<1>6. g[k] = IF k = 1 THEN t[k] ELSE g[k - 1] \o t[k]
  BY <1>4, JoinsAt
<1>7. k # 1 => k - 1 \in 1..n /\ k - 1 \notin Bad
  BY <1>3, <1>4
<1>8. k # 1 => f[k - 1] = g[k - 1]
  BY <1>7
<1> QED BY <1>4, <1>5, <1>6, <1>8

LEMMA FlattenEmpty == FlattenSeq(<<>>) = <<>>
BY DEF FlattenSeq

LEMMA FlattenType ==
  ASSUME NEW S, NEW s \in Seq(Seq(S))
  PROVE  FlattenSeq(s) \in Seq(S)
<1>1. CASE s = <<>>
  <2>1. FlattenSeq(s) = <<>>
    BY <1>1, FlattenEmpty
  <2>2. <<>> \in Seq(S)
    BY EmptySeq
  <2> QED BY <2>1, <2>2
<1>2. CASE s # <<>>
  <2>1. PICK f : Joins(s, Len(s), f) /\ FlattenSeq(s) = f[Len(s)]
    BY <1>2, FlattenIsJoin
  <2>2. Len(s) \in 1..Len(s)
    BY <1>2, EmptySeq, LenProperties
  <2> QED BY <2>1, <2>2, JoinsType
<1> QED BY <1>1, <1>2

LEMMA FlattenAppend ==
  ASSUME NEW S, NEW s \in Seq(Seq(S)), NEW b \in Seq(S)
  PROVE  FlattenSeq(Append(s, b)) = FlattenSeq(s) \o b
<1> DEFINE t == Append(s, b)
           n == Len(s)
<1>1. /\ t \in Seq(Seq(S)) /\ t # <<>> /\ Len(t) = n + 1 /\ t[n + 1] = b
      /\ n \in Nat /\ \A i \in 1..n : t[i] = s[i]
  BY AppendProperties, LenProperties
<1> HIDE DEF t
<1>2. PICK g : Joins(t, Len(t), g) /\ FlattenSeq(t) = g[Len(t)]
  BY <1>1, FlattenIsJoin
<1>3. g[n + 1] = IF n + 1 = 1 THEN b ELSE g[n] \o b
  <2>1. n + 1 \in 1..(n + 1) /\ (n + 1) - 1 = n /\ n + 1 \in Nat
    BY <1>1
  <2>2. g[n + 1] = IF n + 1 = 1 THEN t[n + 1] ELSE g[(n + 1) - 1] \o t[n + 1]
    <3>1. Joins(t, n + 1, g)
      BY <1>1, <1>2
    <3> HIDE DEF n
    <3> QED BY <2>1, <3>1, JoinsAt
  <2> QED BY <1>1, <2>1, <2>2
<1>4. CASE s = <<>>
  <2>1. n = 0
    BY <1>4
  <2>2. <<>> \o b = b
    BY ConcatEmptySeq
  <2> QED BY <1>1, <1>2, <1>3, <1>4, <2>1, <2>2, FlattenEmpty DEF t
<1>5. CASE s # <<>>
  <2>1. PICK f : Joins(s, n, f) /\ FlattenSeq(s) = f[n]
    BY <1>5, FlattenIsJoin
  <2>2. n # 0 /\ n \in 1..n /\ n <= Len(t) /\ Len(t) \in Nat
    BY <1>1, <1>5, EmptySeq
  <2>3. f[n] = g[n]
    <3> DEFINE m == Len(t)
    <3>1. /\ n \in Nat /\ m \in Nat /\ n <= m /\ n \in 1..n
          /\ Joins(s, n, f) /\ Joins(t, m, g) /\ \A i \in 1..n : s[i] = t[i]
      BY <1>1, <1>2, <2>1, <2>2
    <3> HIDE DEF n, m
    <3>2. \A i \in 1..n : f[i] = g[i]
      BY <3>1, JoinsAgree
    <3> QED BY <3>1, <3>2
  <2> QED BY <1>1, <1>2, <1>3, <2>1, <2>2, <2>3 DEF t
<1> QED BY <1>4, <1>5

(* Associativity as one predicate, which the provers find for long terms    *)
(* where they do not find the equation.                                     *)
Assoc(s, t, u) == (s \o t) \o u = s \o (t \o u)

LEMMA AssocHolds ==
  ASSUME NEW S, NEW s \in Seq(S), NEW t \in Seq(S), NEW u \in Seq(S)
  PROVE  Assoc(s, t, u)
BY ConcatAssociative DEF Assoc

LEMMA ConcatAppend ==
  ASSUME NEW S, NEW s \in Seq(S), NEW t \in Seq(S), NEW e \in S
  PROVE  s \o Append(t, e) = Append(s \o t, e)
OBVIOUS

AppendsLast(s, t, e) == s \o Append(t, e) = Append(s \o t, e)

LEMMA ConcatAppendHolds ==
  ASSUME NEW S, NEW s \in Seq(S), NEW t \in Seq(S), NEW e \in S
  PROVE  AppendsLast(s, t, e)
BY ConcatAppend DEF AppendsLast

LEMMA FlattenConcat ==
  ASSUME NEW S, NEW s \in Seq(Seq(S)), NEW t \in Seq(Seq(S))
  PROVE  FlattenSeq(s \o t) = FlattenSeq(s) \o FlattenSeq(t)
<1> DEFINE Fails(u) == FlattenSeq(s \o u) # FlattenSeq(s) \o FlattenSeq(u)
           Bad == {n \in Nat : \E u \in Seq(Seq(S)) : Len(u) = n /\ Fails(u)}
<1>1. SUFFICES ASSUME Bad # {} PROVE FALSE
  BY LenProperties
<1>2. PICK n \in Bad : \A k \in Bad : n <= k
  BY <1>1, LeastOfNats
<1>3. PICK u \in Seq(Seq(S)) : Len(u) = n /\ Fails(u)
  BY <1>2
<1>4. CASE u = <<>>
  <2>1. FlattenSeq(s) \in Seq(S)
    BY FlattenType
  <2>2. s \o <<>> = s /\ FlattenSeq(s) \o <<>> = FlattenSeq(s)
    BY <2>1, ConcatEmptySeq
  <2> QED BY <1>3, <1>4, <2>2, FlattenEmpty
<1>5. CASE u # <<>>
  <2>1. PICK v \in Seq(Seq(S)), b \in Seq(S) : u = Append(v, b)
    BY <1>5, SequenceEmptyOrAppend
  <2>2. Len(v) \in Nat /\ n = Len(v) + 1
    BY <1>3, <2>1, AppendProperties, LenProperties
  <2>3. ~Fails(v)
    <3> DEFINE l == Len(v)
    <3>1. l \notin Bad
      <4>1. l \in Nat /\ n = l + 1 /\ \A k \in Bad : n <= k
        BY <1>2, <2>2
      <4> HIDE DEF Bad, l
      <4> QED BY <4>1
    <3> QED BY <2>1, <2>2, <3>1
  <2>4. s \o u = Append(s \o v, b) /\ s \o v \in Seq(Seq(S))
    <3> HIDE DEF Bad, Fails
    <3>1. s \o Append(v, b) = Append(s \o v, b)
      <4>1. AppendsLast(s, v, b)
        BY Zenon, ConcatAppendHolds
      <4> QED BY <4>1 DEF AppendsLast
    <3>2. s \o v \in Seq(Seq(S))
      BY ConcatProperties
    <3> QED BY <2>1, <3>1, <3>2
  <2>5. FlattenSeq(s \o u) = FlattenSeq(s \o v) \o b /\ FlattenSeq(u) = FlattenSeq(v) \o b
    BY <2>1, <2>4, FlattenAppend
  <2>6. FlattenSeq(s) \in Seq(S) /\ FlattenSeq(v) \in Seq(S)
    BY FlattenType
  <2>7. (FlattenSeq(s) \o FlattenSeq(v)) \o b = FlattenSeq(s) \o (FlattenSeq(v) \o b)
    <3> HIDE DEF Bad, Fails
    <3>1. Assoc(FlattenSeq(s), FlattenSeq(v), b)
      BY Zenon, <2>6, AssocHolds
    <3> QED BY Zenon, <3>1 DEF Assoc
  <2> QED BY <1>3, <2>3, <2>5, <2>7
<1> QED BY <1>4, <1>5

(* Increasing sequences have no element twice *)
Increasing(l) == \A i, j \in DOMAIN l : i < j => l[i] < l[j]

LEMMA IncreasingAppend ==
  ASSUME NEW S \in SUBSET Nat, NEW l \in Seq(S), NEW n \in S, Increasing(l), \A x \in ToSet(l) : x < n
  PROVE  Increasing(Append(l, n)) /\ ToSet(Append(l, n)) = ToSet(l) \union {n}
<1> DEFINE a == Append(l, n)
           k == Len(l)
<1>1. /\ a \in Seq(S) /\ DOMAIN a = 1..(k + 1) /\ DOMAIN l = 1..k /\ k \in Nat
      /\ \A i \in 1..k : a[i] = l[i] /\ l[i] \in S
      /\ a[k + 1] = n
  BY AppendProperties, LenProperties, ElementOfSeq
<1> HIDE DEF a, k
<1>2. \A i \in 1..k : l[i] \in ToSet(l) /\ l[i] < n
  BY <1>1 DEF ToSet
<1>3. Increasing(a)
  <2> SUFFICES ASSUME NEW i \in 1..(k + 1), NEW j \in 1..(k + 1), i < j PROVE a[i] < a[j]
    BY <1>1 DEF Increasing
  <2>1. i \in 1..k /\ (j \in 1..k \/ j = k + 1)
    BY <1>1
  <2>2. CASE j \in 1..k
    BY <1>1, <2>1, <2>2 DEF Increasing
  <2>3. CASE j = k + 1
    BY <1>1, <1>2, <2>1, <2>3
  <2> QED BY <2>1, <2>2, <2>3
<1>4. ToSet(a) = ToSet(l) \union {n}
  <2>1. ASSUME NEW i \in 1..(k + 1) PROVE a[i] \in ToSet(l) \union {n}
    <3>1. i \in 1..k \/ i = k + 1
      BY <1>1
    <3> QED BY <1>1, <1>2, <3>1
  <2>2. ASSUME NEW i \in 1..k PROVE \E h \in 1..(k + 1) : a[h] = l[i]
    BY <1>1
  <2>3. k + 1 \in 1..(k + 1)
    BY <1>1
  <2>4. n \in ToSet(a)
    BY <1>1, <2>3, Zenon DEF ToSet
  <2>5. ToSet(l) \subseteq ToSet(a)
    BY <1>1, <2>2 DEF ToSet
  <2>6. ToSet(a) \subseteq ToSet(l) \union {n}
    BY <1>1, <2>1 DEF ToSet
  <2> QED BY <2>4, <2>5, <2>6
<1> QED BY <1>3, <1>4 DEF a

(* A piece cut out of an increasing sequence.                               *)
LEMMA IncreasingCut ==
  ASSUME NEW S \in SUBSET Nat, NEW p \in Seq(S), NEW q \in Seq(S), NEW r \in Seq(S),
         Increasing(p \o (q \o r))
  PROVE  /\ Increasing(p \o r)
         /\ ToSet(p \o r) = ToSet(p \o (q \o r)) \ ToSet(q)
         /\ ToSet(q) \subseteq ToSet(p \o (q \o r))
<1> DEFINE l == p \o (q \o r)
           c == p \o r
           np == Len(p)
           nq == Len(q)
           nr == Len(r)
           m(i) == IF i <= np THEN i ELSE i + nq
<1>1. /\ np \in Nat /\ nq \in Nat /\ nr \in Nat /\ DOMAIN q = 1..nq
      /\ DOMAIN l = 1..(np + (nq + nr)) /\ DOMAIN c = 1..(np + nr)
  <2>1. q \o r \in Seq(S) /\ Len(q \o r) = nq + nr
    BY ConcatProperties
  <2>2. l \in Seq(S) /\ Len(l) = np + (nq + nr) /\ c \in Seq(S) /\ Len(c) = np + nr
    BY <2>1, ConcatProperties
  <2> QED BY <2>2, LenProperties
<1>2. ASSUME NEW i \in 1..(np + nr) PROVE c[i] = l[m(i)] /\ m(i) \in 1..(np + (nq + nr))
  OBVIOUS
<1>3. ASSUME NEW i \in 1..nq PROVE q[i] = l[np + i] /\ np + i \in 1..(np + (nq + nr))
  OBVIOUS
<1>4. \A i \in DOMAIN l : l[i] \in S /\ l[i] \in Nat
  <2>1. l \in Seq(S)
    BY ConcatProperties
  <2> QED BY <2>1, ElementOfSeq, LenProperties
<1>5. \A i, j \in DOMAIN l : i < j => l[i] < l[j]
  BY DEF Increasing
<1> HIDE DEF l, c, np, nq, nr
<1>6. Increasing(c)
  <2> SUFFICES ASSUME NEW i \in 1..(np + nr), NEW j \in 1..(np + nr), i < j PROVE c[i] < c[j]
    BY <1>1 DEF Increasing
  <2>1. m(i) < m(j)
    BY <1>1
  <2> HIDE DEF m
  <2> QED BY <1>1, <1>2, <1>5, <2>1
<1>7. ASSUME NEW i \in DOMAIN c PROVE c[i] \in ToSet(l) /\ c[i] \notin ToSet(q)
  <2>1. i \in 1..(np + nr)
    BY <1>1
  <2>2. c[i] \in ToSet(l)
    BY <1>1, <1>2, <2>1 DEF ToSet
  <2>3. ASSUME NEW k \in 1..nq, q[k] = c[i] PROVE FALSE
    <3>1. m(i) # np + k /\ (m(i) < np + k \/ np + k < m(i))
      BY <1>1, <2>1
    <3>2. m(i) \in DOMAIN l /\ np + k \in DOMAIN l /\ l[m(i)] = l[np + k]
      BY <1>1, <1>2, <1>3, <2>1, <2>3
    <3> HIDE DEF m
    <3> DEFINE a == m(i)
               b == np + k
    <3>3. a \in DOMAIN l /\ b \in DOMAIN l /\ l[a] = l[b] /\ (a < b \/ b < a)
      BY <3>1, <3>2
    <3> HIDE DEF a, b
    <3> QED BY <1>4, <1>5, <3>3
  <2> QED BY <1>1, <2>2, <2>3 DEF ToSet
<1>8. ASSUME NEW i \in DOMAIN q PROVE q[i] \in ToSet(l)
  BY <1>1, <1>3 DEF ToSet
<1>9. ASSUME NEW i \in DOMAIN l PROVE l[i] \in ToSet(q) \/ l[i] \in ToSet(c)
  <2>1. i \in 1..(np + (nq + nr))
    BY <1>1
  <2>2. CASE i <= np
    <3>1. i \in 1..(np + nr) /\ c[i] = l[i]
      BY <1>1, <1>2, <2>1, <2>2
    <3> QED BY <1>1, <3>1 DEF ToSet
  <2>3. CASE np < i /\ i <= np + nq
    <3>1. i - np \in 1..nq /\ np + (i - np) = i
      BY <1>1, <2>1, <2>3
    <3>2. q[i - np] = l[i]
      BY <1>3, <3>1
    <3> QED BY <1>1, <3>1, <3>2 DEF ToSet
  <2>4. CASE np + nq < i
    <3>1. i - nq \in 1..(np + nr) /\ m(i - nq) = i
      BY <1>1, <2>1, <2>4
    <3>2. c[i - nq] = l[i]
      BY <1>2, <3>1
    <3> QED BY <1>1, <3>1, <3>2 DEF ToSet
  <2> QED BY <1>1, <2>1, <2>2, <2>3, <2>4
<1>10. ToSet(c) = ToSet(l) \ ToSet(q) /\ ToSet(q) \subseteq ToSet(l)
  <2>1. \A x \in ToSet(c) : x \in ToSet(l) /\ x \notin ToSet(q)
    <3> SUFFICES ASSUME NEW x \in ToSet(c) PROVE x \in ToSet(l) /\ x \notin ToSet(q)
      OBVIOUS
    <3>1. PICK i \in DOMAIN c : x = c[i]
      BY DEF ToSet
    <3> QED BY <1>7, <3>1
  <2>2. \A x \in ToSet(q) : x \in ToSet(l)
    <3> SUFFICES ASSUME NEW x \in ToSet(q) PROVE x \in ToSet(l)
      OBVIOUS
    <3>1. PICK i \in DOMAIN q : x = q[i]
      BY DEF ToSet
    <3> QED BY <1>8, <3>1
  <2>3. \A x \in ToSet(l) : x \in ToSet(q) \/ x \in ToSet(c)
    <3> SUFFICES ASSUME NEW x \in ToSet(l) PROVE x \in ToSet(q) \/ x \in ToSet(c)
      OBVIOUS
    <3>1. PICK i \in DOMAIN l : x = l[i]
      BY DEF ToSet
    <3> QED BY <1>9, <3>1
  <2> QED BY <2>1, <2>2, <2>3
<1> QED BY <1>6, <1>10 DEF l, c

-----------------------------------------------------------------------------
(* The messages that are not dropped, from the first written to the last    *)
(* appended: in the file, in the batch, in the holder and in curBuffer.     *)
Messages == 1..MaxAppends
InBatch == IF pc \in {"limit", "write"} THEN FlattenSeq(buffers_bak) ELSE <<>>
InHolder == FlattenSeq(buffersHolder)
LogOf(f, b, h, c) == f \o ((b \o h) \o c)
Log == LogOf(file, InBatch, InHolder, curBuffer[1])

(* A buffer that goes round comes back empty.                               *)
SparesEmpty == \A p \in {nextBuffer, curbuf_bak, nextbuf_bak} : p # Null => p = new

InOrder == /\ Increasing(Log) /\ ToSet(Log) \subseteq 1..appended
           /\ dropped = (1..appended) \ ToSet(Log)

Idle == owner = "idle" => pc = "none"

OrderInv == BuffersInv /\ Idle /\ file \in Seq(Messages) /\ SparesEmpty /\ InOrder

LEMMA LogType ==
  ASSUME NEW S, NEW f \in Seq(S), NEW b \in Seq(S), NEW h \in Seq(S), NEW c \in Seq(S)
  PROVE  LogOf(f, b, h, c) \in Seq(S)
<1>1. b \o h \in Seq(S)
  BY ConcatProperties
<1>2. (b \o h) \o c \in Seq(S)
  BY <1>1, ConcatProperties
<1> QED BY <1>2, ConcatProperties DEF LogOf

(* The moves of messages inside the log.                                    *)
GrowsBy(f, b, h, c, e) ==
    /\ LogOf(f, b, h, Append(c, e)) = Append(LogOf(f, b, h, c), e)
    /\ LogOf(f, b, h \o c, <<e>>) = Append(LogOf(f, b, h, c), e)

Splits(f, b, q, h, c) ==
    /\ LogOf(f, b \o q, h, c) = (f \o b) \o (q \o (h \o c))
    /\ LogOf(f, b, h, c) = (f \o b) \o (h \o c)

LEMMA LogAppend ==
  ASSUME NEW S, NEW f \in Seq(S), NEW b \in Seq(S), NEW h \in Seq(S), NEW c \in Seq(S), NEW e \in S
  PROVE  GrowsBy(f, b, h, c, e)
<1> DEFINE u == b \o h
           v == u \o c
<1>1. u \in Seq(S) /\ v \in Seq(S)
  BY ConcatProperties
<1>2. b \o (h \o c) = v
  <2>1. Assoc(b, h, c)
    BY Zenon, AssocHolds
  <2> QED BY <2>1 DEF Assoc
<1> HIDE DEF u
<1>3. u \o Append(c, e) = Append(v, e)
  BY <1>1, ConcatAppend
<1> HIDE DEF v
<1>4. v \o <<e>> = Append(v, e)
  BY <1>1, AppendIsConcat
<1>5. f \o Append(v, e) = Append(f \o v, e)
  BY <1>1, ConcatAppend
<1>6. /\ LogOf(f, b, h, Append(c, e)) = f \o (u \o Append(c, e))
      /\ LogOf(f, b, h \o c, <<e>>) = f \o ((b \o (h \o c)) \o <<e>>)
      /\ LogOf(f, b, h, c) = f \o v
  BY DEF LogOf, u, v
<1> QED BY <1>2, <1>3, <1>4, <1>5, <1>6 DEF GrowsBy

LEMMA LogExchange ==
  ASSUME NEW S, NEW f \in Seq(S), NEW h \in Seq(S), NEW c \in Seq(S)
  PROVE  LogOf(f, h \o c, <<>>, <<>>) = LogOf(f, <<>>, h, c)
<1>1. h \o c \in Seq(S)
  BY ConcatProperties
<1>2. (h \o c) \o <<>> = h \o c /\ <<>> \o h = h
  BY <1>1, ConcatEmptySeq
<1> QED BY <1>2 DEF LogOf

LEMMA LogWrite ==
  ASSUME NEW S, NEW f \in Seq(S), NEW b \in Seq(S), NEW h \in Seq(S), NEW c \in Seq(S)
  PROVE  LogOf(f \o b, <<>>, h, c) = LogOf(f, b, h, c)
<1>1. <<>> \o h = h /\ (b \o h) \o c = b \o (h \o c) /\ h \o c \in Seq(S)
  <2>1. <<>> \o h = h
    BY ConcatEmptySeq
  <2>2. h \o c \in Seq(S)
    BY ConcatProperties
  <2>3. Assoc(b, h, c)
    BY Zenon, AssocHolds
  <2> QED BY <2>1, <2>2, <2>3 DEF Assoc
<1>2. (f \o b) \o (h \o c) = f \o (b \o (h \o c))
  <2>1. Assoc(f, b, h \o c)
    BY Zenon, <1>1, AssocHolds
  <2> QED BY <2>1 DEF Assoc
<1> QED BY Zenon, <1>1, <1>2 DEF LogOf

LEMMA LogCut ==
  ASSUME NEW S, NEW f \in Seq(S), NEW b \in Seq(S), NEW q \in Seq(S), NEW h \in Seq(S), NEW c \in Seq(S)
  PROVE  Splits(f, b, q, h, c)
<1> DEFINE u == h \o c
           v == q \o u
<1>1. u \in Seq(S) /\ v \in Seq(S) /\ b \o q \in Seq(S)
  BY ConcatProperties
<1>2. (b \o h) \o c = b \o u
  <2>1. Assoc(b, h, c)
    BY Zenon, AssocHolds
  <2> QED BY <2>1 DEF Assoc
<1>3. ((b \o q) \o h) \o c = (b \o q) \o u
  <2> DEFINE w == b \o q
  <2>1. w \in Seq(S)
    BY <1>1
  <2> HIDE DEF w
  <2>2. Assoc(w, h, c)
    BY Zenon, <2>1, AssocHolds
  <2> QED BY <2>2 DEF w, Assoc
<1> HIDE DEF u
<1>4. (b \o q) \o u = b \o v
  <2>1. Assoc(b, q, u)
    BY Zenon, <1>1, AssocHolds
  <2> QED BY <2>1 DEF Assoc
<1> HIDE DEF v
<1>5. (f \o b) \o v = f \o (b \o v)
  <2>1. Assoc(f, b, v)
    BY Zenon, <1>1, AssocHolds
  <2> QED BY <2>1 DEF Assoc
<1>6. (f \o b) \o u = f \o (b \o u)
  <2>1. Assoc(f, b, u)
    BY Zenon, <1>1, AssocHolds
  <2> QED BY <2>1 DEF Assoc
<1>7. ((b \o q) \o h) \o c = b \o v
  BY <1>3, <1>4
<1> QED BY <1>2, <1>5, <1>6, <1>7 DEF LogOf, Splits, u, v

LEMMA LogParts ==
  ASSUME BuffersInv
  PROVE  /\ InBatch \in Seq(Messages) /\ InHolder \in Seq(Messages)
         /\ curBuffer[1] \in Seq(Messages) /\ curBuffer = <<curBuffer[1]>>
         /\ FlattenSeq(buffers_bak) \in Seq(Messages)
<1>1. buffersHolder \in Seq(Seq(Messages)) /\ buffers_bak \in Seq(Seq(Messages))
  BY DEF BuffersInv, TypeOK, Buffers, Messages
<1>2. curBuffer \in Seq(Buffers) /\ Len(curBuffer) = 1 /\ curBuffer[1] \in Buffers
  BY PtrContent DEF BuffersInv, TypeOK, IsPtr
<1>3. curBuffer = <<curBuffer[1]>>
  BY <1>2
<1>4. InHolder \in Seq(Messages) /\ FlattenSeq(buffers_bak) \in Seq(Messages)
  BY <1>1, FlattenType DEF InHolder
<1>5. InBatch \in Seq(Messages)
  BY <1>4 DEF InBatch
<1> QED BY <1>2, <1>3, <1>4, <1>5 DEF Buffers, Messages

LEMMA InitOrder == Init => OrderInv
<1> SUFFICES ASSUME Init PROVE OrderInv
  OBVIOUS
<1>1. BuffersInv
  BY InitBuffers
<1>2. file = <<>> /\ InBatch = <<>> /\ InHolder = <<>> /\ curBuffer[1] = <<>>
  BY FlattenEmpty DEF Init, InBatch, InHolder, new, EmptyBuffer
<1>3. Log = <<>>
  BY <1>2 DEF Log, LogOf
<1>4. InOrder
  BY <1>3 DEF Init, InOrder, Increasing, ToSet
<1>5. SparesEmpty /\ Idle
  BY DEF Init, SparesEmpty, Idle
<1> QED BY <1>1, <1>2, <1>4, <1>5 DEF OrderInv

(* A step that leaves the log as it is.                                     *)
LEMMA SameLog ==
  ASSUME OrderInv, BuffersInv', Idle', Log' = Log, UNCHANGED <<appended, dropped>>,
         file' \in Seq(Messages), SparesEmpty'
  PROVE  OrderInv'
BY DEF OrderInv, InOrder

LEMMA AppendOrder == ASSUME OrderInv, BuffersInv', Idle', AppendLog PROVE OrderInv'
<1> DEFINE e == appended + 1
           b == InBatch
           h == InHolder
           c == curBuffer[1]
<1>1. /\ file \in Seq(Messages) /\ b \in Seq(Messages) /\ h \in Seq(Messages) /\ c \in Seq(Messages)
      /\ e \in Messages /\ appended \in Nat /\ curBuffer = <<c>>
  <2>1. BuffersInv /\ file \in Seq(Messages)
    BY DEF OrderInv
  <2>2. b \in Seq(Messages) /\ h \in Seq(Messages) /\ c \in Seq(Messages) /\ curBuffer = <<c>>
    BY Zenon, <2>1, LogParts
  <2>3. appended \in 0..MaxAppends /\ appended < MaxAppends /\ MaxAppends \in Nat
    BY <2>1, ConstantsAssumption DEF BuffersInv, TypeOK, AppendLog
  <2>4. e \in Messages /\ appended \in Nat
    BY <2>3 DEF Messages
  <2> QED BY <2>1, <2>2, <2>4
<1>a. file \in Seq(Messages) /\ b \in Seq(Messages) /\ h \in Seq(Messages) /\ c \in Seq(Messages) /\ e \in Messages
  BY <1>1
<1>2. appended' = e /\ UNCHANGED <<own, pc, file, dropped>> /\ InBatch' = b
  BY DEF AppendLog, InBatch, own
<1>3. Log' = Append(Log, e) /\ SparesEmpty'
  <2>1. CASE AppendFits(appended')
    <3>1. InHolder' = h /\ curBuffer' = <<Put(c, e)>> /\ Len(c) < Cap /\ nextBuffer' = nextBuffer
      BY <1>2, <2>1 DEF AppendFits, InHolder, Fits
    <3>2. curBuffer'[1] = Append(c, e)
      BY <3>1 DEF Put
    <3>3. Log' = LogOf(file, b, h, Append(c, e)) /\ Log = LogOf(file, b, h, c)
      BY <1>2, <3>1, <3>2 DEF Log
    <3>4. SparesEmpty'
      BY <1>2, <3>1 DEF OrderInv, SparesEmpty, own
    <3> HIDE DEF e, b, h, c
    <3>a. GrowsBy(file, b, h, c, e)
      BY <1>a, LogAppend, Zenon
    <3>5. LogOf(file, b, h, Append(c, e)) = Append(LogOf(file, b, h, c), e)
      BY <3>a DEF GrowsBy
    <3> QED BY <3>3, <3>4, <3>5
  <2>2. CASE AppendFull(appended')
    <3>1. buffersHolder' = Append(buffersHolder, c) /\ nextBuffer' = Null
      <4>1. buffersHolder \in Seq(Buffers) /\ c \in Buffers
        BY <1>1 DEF OrderInv, BuffersInv, TypeOK, Buffers, Messages
      <4>2. buffersHolder' = buffersHolder \o <<c>> /\ nextBuffer' = Null
        BY <1>1, <2>2 DEF AppendFull, HolderWithCur
      <4> HIDE DEF c
      <4> QED BY <4>1, <4>2, AppendIsConcat
    <3>2. InHolder' = h \o c
      <4>1. buffersHolder \in Seq(Seq(Messages))
        BY DEF OrderInv, BuffersInv, TypeOK, Buffers, Messages
      <4> HIDE DEF c
      <4> QED BY <1>1, <3>1, <4>1, FlattenAppend DEF InHolder
    <3>3. curBuffer' = <<Put(<<>>, e)>>
      <4>1. (IF nextBuffer # Null THEN nextBuffer[1] ELSE EmptyBuffer) = <<>>
        BY DEF OrderInv, SparesEmpty, new, EmptyBuffer
      <4> QED BY <1>2, <2>2, <4>1 DEF AppendFull
    <3>4. Put(<<>>, e) = <<e>>
      BY ConstantsAssumption DEF Put
    <3>5. Log' = LogOf(file, b, h \o c, <<e>>) /\ Log = LogOf(file, b, h, c)
      BY <1>2, <3>2, <3>3, <3>4 DEF Log
    <3>6. SparesEmpty'
      BY <1>2, <3>1 DEF OrderInv, SparesEmpty, own
    <3> HIDE DEF e, b, h, c
    <3>a. GrowsBy(file, b, h, c, e)
      BY <1>a, LogAppend, Zenon
    <3>7. LogOf(file, b, h \o c, <<e>>) = Append(LogOf(file, b, h, c), e)
      BY <3>a DEF GrowsBy
    <3> QED BY <3>5, <3>6, <3>7
  <2> QED BY <2>1, <2>2 DEF AppendLog
<1>4. Log \in Seq(Messages)
  BY <1>1, LogType DEF Log
<1>5. Messages \in SUBSET Nat /\ \A x \in ToSet(Log) : x < e
  <2>1. \A x \in 1..appended : x < e
    BY <1>1
  <2> QED BY <2>1 DEF OrderInv, InOrder, Messages
<1>6. Increasing(Append(Log, e)) /\ ToSet(Append(Log, e)) = ToSet(Log) \union {e}
  <2> HIDE DEF e
  <2> QED BY <1>1, <1>4, <1>5, IncreasingAppend DEF OrderInv, InOrder
<1>7. InOrder'
  <2>1. 1..appended' = (1..appended) \union {e} /\ e \notin 1..appended
    BY <1>1, <1>2
  <2>2. dropped = (1..appended) \ ToSet(Log) /\ ToSet(Log) \subseteq 1..appended /\ dropped' = dropped
    BY <1>2 DEF OrderInv, InOrder
  <2>3. Increasing(Log') /\ ToSet(Log') = ToSet(Log) \union {e}
    BY <1>3, <1>6
  <2> HIDE DEF e
  <2> QED BY <2>1, <2>2, <2>3 DEF InOrder
<1> QED BY <1>1, <1>2, <1>3, <1>7 DEF OrderInv

LEMMA ExchangeOrder ==
  ASSUME OrderInv, BuffersInv', Idle', pc \in {"lock", "wait"}, Exchange, UNCHANGED <<appended, file, dropped>>
  PROVE  OrderInv'
<1> DEFINE h == InHolder
           c == curBuffer[1]
<1>1. /\ file \in Seq(Messages) /\ h \in Seq(Messages) /\ c \in Seq(Messages) /\ curBuffer = <<c>>
      /\ InBatch = <<>>
  BY LogParts DEF OrderInv, InBatch
<1>2. curbuf_bak = new /\ buffers_bak = <<>>
  BY DEF OrderInv, BuffersInv, SparesAtHome, SparesEmpty
<1>3. InBatch' = h \o c
  <2>1. buffersHolder \in Seq(Seq(Messages)) /\ buffersHolder \in Seq(Buffers) /\ c \in Buffers
    BY <1>1 DEF OrderInv, BuffersInv, TypeOK, Buffers, Messages
  <2>2. buffers_bak' = buffersHolder \o <<c>> /\ pc' = "limit"
    BY <1>1 DEF Exchange, Taken, HolderWithCur
  <2> HIDE DEF c
  <2>3. buffers_bak' = Append(buffersHolder, c)
    BY <2>1, <2>2, AppendIsConcat
  <2> QED BY <1>1, <2>1, <2>2, <2>3, FlattenAppend DEF InBatch, InHolder
<1>4. InHolder' = <<>> /\ curBuffer'[1] = <<>>
  BY <1>2, FlattenEmpty DEF Exchange, InHolder, new, EmptyBuffer
<1>5. Log' = Log
  <2>1. Log' = LogOf(file, h \o c, <<>>, <<>>) /\ Log = LogOf(file, <<>>, h, c)
    BY <1>1, <1>3, <1>4 DEF Log
  <2> HIDE DEF h, c
  <2> QED BY <1>1, <2>1, LogExchange
<1>6. SparesEmpty'
  BY DEF Exchange, RefillNext, OrderInv, SparesEmpty
<1> QED BY <1>1, <1>5, <1>6, SameLog

LEMMA LimitOrder == ASSUME OrderInv, BuffersInv', Idle', CheckLimit PROVE OrderInv'
<1> DEFINE h == InHolder
           c == curBuffer[1]
           bak == buffers_bak
<1>1. /\ pc = "limit" /\ pc' = "write" /\ UNCHANGED <<shared, curbuf_bak, nextbuf_bak, appended, file>>
  BY DEF CheckLimit
<1>2. /\ file \in Seq(Messages) /\ h \in Seq(Messages) /\ c \in Seq(Messages)
      /\ bak \in Seq(Seq(Messages))
  BY LogParts DEF OrderInv, BuffersInv, TypeOK, Buffers, Messages
<1>3. SparesEmpty' /\ InHolder' = h /\ curBuffer'[1] = c
  BY <1>1 DEF OrderInv, SparesEmpty, InHolder, shared
<1>4. CASE Len(bak) > Limit
  <2> DEFINE A == SubSeq(bak, 1, 2)
             B == SubSeq(bak, 3, Len(bak))
             a == FlattenSeq(A)
             q == FlattenSeq(B)
  <2>1. Len(bak) \in Nat /\ Len(bak) > 2
    BY <1>2, <1>4, LenProperties, ConstantsAssumption
  <2>2. A \in Seq(Seq(Messages)) /\ B \in Seq(Seq(Messages)) /\ bak = A \o B
    BY <1>2, <2>1
  <2>3. buffers_bak' = A /\ dropped' = dropped \union ToSet(q)
    <3>1. buffers_bak' = SubSeq(buffers_bak, 1, Kept)
      BY <1>4 DEF CheckLimit
    <3>2. dropped' = dropped \union MessagesOf(SubSeq(buffers_bak, Kept + 1, Len(buffers_bak)))
      BY <1>4 DEF CheckLimit
    <3>3. Kept = 2 /\ Kept + 1 = 3
      BY DEF Kept
    <3> QED BY <3>1, <3>2, <3>3 DEF MessagesOf
  <2>4. InBatch = a \o q /\ InBatch' = a /\ a \in Seq(Messages) /\ q \in Seq(Messages)
    <3>1. InBatch = FlattenSeq(bak) /\ InBatch' = FlattenSeq(A)
      BY <1>1, <2>3 DEF InBatch
    <3> HIDE DEF A, B, bak
    <3> QED BY <2>2, <3>1, FlattenConcat, FlattenType
  <2>5. Log = LogOf(file, a \o q, h, c) /\ Log' = LogOf(file, a, h, c)
    BY <1>1, <1>3, <2>4 DEF Log
  <2> HIDE DEF a, q, h, c
  <2> DEFINE p == file \o a
             r == h \o c
  <2>6. p \in Seq(Messages) /\ r \in Seq(Messages)
    BY <1>2, <2>4, ConcatProperties
  <2>7. Log = p \o (q \o r) /\ Log' = p \o r
    <3>1. Splits(file, a, q, h, c)
      BY <1>2, <2>4, LogCut, Zenon
    <3> QED BY <2>5, <3>1 DEF Splits, p, r
  <2> HIDE DEF p, r
  <2>8. Messages \in SUBSET Nat
    BY DEF Messages
  <2>9. /\ Increasing(p \o r) /\ ToSet(p \o r) = ToSet(p \o (q \o r)) \ ToSet(q)
        /\ ToSet(q) \subseteq ToSet(p \o (q \o r))
    BY <2>4, <2>6, <2>7, <2>8, IncreasingCut DEF OrderInv, InOrder
  <2>10. InOrder'
    <3>1. ToSet(Log') = ToSet(Log) \ ToSet(q) /\ ToSet(q) \subseteq ToSet(Log) /\ Increasing(Log')
      BY <2>7, <2>9
    <3>2. ToSet(Log) \subseteq 1..appended /\ dropped = (1..appended) \ ToSet(Log) /\ appended' = appended
      BY <1>1 DEF OrderInv, InOrder
    <3> QED BY <2>3, <3>1, <3>2 DEF InOrder
  <2> QED BY <1>1, <1>2, <1>3, <2>10 DEF OrderInv
<1>5. CASE ~(Len(bak) > Limit)
  <2>1. UNCHANGED <<buffers_bak, dropped>>
    BY <1>5 DEF CheckLimit
  <2>2. InBatch' = InBatch
    BY <1>1, <2>1 DEF InBatch
  <2>3. Log' = Log
    BY <1>1, <1>3, <2>2 DEF Log
  <2> QED BY <1>1, <1>2, <1>3, <2>1, <2>3, SameLog
<1> QED BY <1>4, <1>5

LEMMA WriteOrder == ASSUME OrderInv, BuffersInv', Idle', WriteBuffers PROVE OrderInv'
<1> DEFINE h == InHolder
           c == curBuffer[1]
           b == FlattenSeq(buffers_bak)
<1>1. /\ file \in Seq(Messages) /\ h \in Seq(Messages) /\ c \in Seq(Messages) /\ b \in Seq(Messages)
  BY LogParts DEF OrderInv
<1>2. /\ InBatch = b /\ InBatch' = <<>> /\ file' = file \o b /\ InHolder' = h /\ curBuffer'[1] = c
      /\ UNCHANGED <<appended, dropped>>
  BY DEF WriteBuffers, InBatch, InHolder, shared
<1>3. SparesEmpty'
  BY DEF WriteBuffers, OrderInv, SparesEmpty, shared, own
<1>4. Log' = LogOf(file \o b, <<>>, h, c) /\ Log = LogOf(file, b, h, c)
  BY <1>2 DEF Log
<1> HIDE DEF h, c, b
<1>5. Log' = Log /\ file' \in Seq(Messages)
  BY <1>1, <1>2, <1>4, LogWrite, ConcatProperties
<1> QED BY <1>2, <1>3, <1>5, SameLog

LEMMA QuietOrder ==
  ASSUME OrderInv, BuffersInv', Idle', UNCHANGED <<shared, appended, file, dropped>>,
         \/ UNCHANGED buffers_bak /\ (pc \in {"limit", "write"} <=> pc' \in {"limit", "write"})
         \/ pc \notin {"limit", "write"} /\ pc' \notin {"limit", "write"},
         SparesEmpty'
  PROVE  OrderInv'
<1>1. InBatch' = InBatch /\ InHolder' = InHolder /\ curBuffer' = curBuffer
  BY DEF InBatch, InHolder, shared
<1>2. Log' = Log /\ file' = file
  BY <1>1 DEF Log
<1> QED BY <1>2, SameLog DEF OrderInv

LEMMA OthersOrder ==
  ASSUME OrderInv, BuffersInv', Idle',
         \/ Flush \/ Begin \/ CheckRunning \/ Restore \/ Owner \/ Finished \/ UNCHANGED vars
         \/ (Lock /\ buffersHolder = <<>>) \/ (Awake /\ NothingToWrite)
  PROVE  OrderInv'
<1>1. UNCHANGED <<shared, appended, file, dropped>>
  BY DEF Flush, Begin, CheckRunning, Restore, Owner, Start, StartReturns, Stop, StopNotifies,
         StopReturns, Finished, vars, Lock, Awake
<1>2. \/ UNCHANGED buffers_bak /\ (pc \in {"limit", "write"} <=> pc' \in {"limit", "write"})
      \/ pc \notin {"limit", "write"} /\ pc' \notin {"limit", "write"}
  <2> DEFINE Same == UNCHANGED buffers_bak /\ (pc \in {"limit", "write"} <=> pc' \in {"limit", "write"})
             Out == pc \notin {"limit", "write"} /\ pc' \notin {"limit", "write"}
  <2>1. Flush \/ Finished \/ UNCHANGED vars \/ StartReturns \/ Stop \/ StopNotifies => Same
    BY DEF Flush, Finished, vars, StartReturns, Stop, StopNotifies, own
  <2>2. Begin \/ CheckRunning \/ Restore \/ StopReturns => Out
    BY DEF Begin, CheckRunning, Restore, StopReturns
  <2>3. Lock /\ buffersHolder = <<>> => Out
    BY DEF Lock
  <2>4. Awake /\ NothingToWrite => Out
    BY DEF Awake
  <2>5. Start => Out
    BY DEF Start, OrderInv, Idle
  <2> QED BY <2>1, <2>2, <2>3, <2>4, <2>5 DEF Owner
<1>3. SparesEmpty'
  <2>1. CASE Restore
    <3>1. \A buffers : Recycled(buffers) # Null => Recycled(buffers) = new
      BY DEF Recycled
    <3> QED BY <2>1, <3>1 DEF Restore, OrderInv, SparesEmpty, shared
  <2>2. CASE Begin \/ StopReturns
    BY <2>2 DEF Begin, StopReturns, OrderInv, SparesEmpty, shared
  <2>3. CASE UNCHANGED own
    BY <1>1, <2>3 DEF OrderInv, SparesEmpty, shared, own
  <2>4. CASE ~(Restore \/ Begin \/ StopReturns)
    <3>1. UNCHANGED own
      BY <2>4 DEF Flush, CheckRunning, Owner, Start, StartReturns, Stop, StopNotifies, Finished,
                  vars, Lock, Awake
    <3> QED BY <2>3, <3>1
  <2> QED BY <2>1, <2>2, <2>4
<1> QED BY <1>1, <1>2, <1>3, QuietOrder

LEMMA StepOrder == OrderInv /\ [Next]_vars => OrderInv'
<1> SUFFICES ASSUME OrderInv, [Next]_vars PROVE OrderInv'
  OBVIOUS
<1>1. BuffersInv' /\ Idle'
  <2>1. Idle'
    BY DEF OrderInv, Idle, Next, vars, control, AppendLog, Flush, Process, Begin, CheckRunning, Lock,
           Exchange, Notified, IntervalOver, Awake, CheckLimit, WriteBuffers, Restore, Owner, Start,
           StartReturns, Stop, StopNotifies, StopReturns, Finished
  <2> QED BY <2>1, StepBuffers DEF OrderInv
<1>2. CASE AppendLog
  BY <1>1, <1>2, AppendOrder
<1>3. CASE Lock
  <2>1. CASE buffersHolder = <<>>
    BY <1>1, <1>3, <2>1, OthersOrder
  <2>2. CASE buffersHolder # <<>>
    <3>1. pc = "lock" /\ Exchange /\ UNCHANGED <<appended, file, dropped>>
      BY <1>3, <2>2 DEF Lock
    <3> QED BY <1>1, <3>1, ExchangeOrder
  <2> QED BY <2>1, <2>2
<1>4. CASE Notified \/ IntervalOver
  <2>1. Awake
    BY <1>4 DEF Notified, IntervalOver
  <2>2. CASE NothingToWrite
    BY <1>1, <2>1, <2>2, OthersOrder
  <2>3. CASE ~NothingToWrite
    <3>1. pc = "wait" /\ Exchange /\ UNCHANGED <<appended, file, dropped>>
      BY <2>1, <2>3 DEF Awake
    <3> QED BY <1>1, <3>1, ExchangeOrder
  <2> QED BY <2>2, <2>3
<1>5. CASE CheckLimit
  BY <1>1, <1>5, LimitOrder
<1>6. CASE WriteBuffers
  BY <1>1, <1>6, WriteOrder
<1>7. CASE Flush \/ Begin \/ CheckRunning \/ Restore \/ Owner \/ Finished \/ UNCHANGED vars
  BY <1>1, <1>7, OthersOrder
<1> QED BY <1>2, <1>3, <1>4, <1>5, <1>6, <1>7 DEF Next, Process

(* No message is lost, repeated or overtaken on its way through the four    *)
(* buffers, however appends fall between the exchanges and the writes; only *)
(* the limit drops some, and it says which.                                 *)
THEOREM WrittenInOrder == Spec => []InOrderOnce
<1>1. OrderInv => InOrderOnce
  <2>1. Log = file \o Unwritten
    BY DEF Log, LogOf, Unwritten, InBatch, InHolder
  <2> QED BY <2>1 DEF OrderInv, InOrder, Increasing, InOrderOnce
<1> QED BY <1>1, InitOrder, StepOrder, PTL DEF Spec
==============================================================================
