--------------------------- MODULE LogAsynAppender ---------------------------
(***************************************************************************)
(* The asynchronous log: threads append messages to a buffer under a       *)
(* mutex, and a thread of the appender takes the full buffers away and     *)
(* writes them to the file without it.  Four buffers go round.             *)
(*                                                                         *)
(* A message is its number in the order of the appends.  A buffer is the   *)
(* sequence of its messages.  A unique_ptr is a sequence of at most one    *)
(* buffer, so that moving it is a concatenation and leaves <<>>.  What is  *)
(* done under the mutex is one step.                                       *)
(***************************************************************************)
EXTENDS Naturals, SequencesExt

CONSTANTS Cap,             \* messages that fit in a buffer
          Limit,           \* buffersLimit
          MaxAppends,      \* bound on the number of messages
          MaxStarts        \* bound on the number of calls of start

ASSUME ConstantsAssumption == /\ Cap \in Nat \ {0} /\ Limit \in Nat /\ Limit >= 4
                              /\ MaxAppends \in Nat /\ MaxStarts \in Nat

VARIABLES running,
          latch,
          curBuffer, nextBuffer,     \* where messages go, and the one to take next
          buffersHolder,             \* full buffers
          curbuf_bak, nextbuf_bak, buffers_bak,   \* the writing thread's own
          pc,                        \* where process is
          woken,                     \* the writing thread has been notified in its wait
          owner,                     \* what start or stop is doing
          appended, starts,
          file,                      \* the messages written
          dropped                    \* the messages given up over the limit

shared == <<curBuffer, nextBuffer, buffersHolder>>
own == <<curbuf_bak, nextbuf_bak, buffers_bak>>
control == <<running, latch, owner, starts>>
vars == <<shared, own, control, pc, woken, appended, file, dropped>>

Buffers == Seq(1..MaxAppends)
EmptyBuffer == <<>>
Null == <<>>
new == <<EmptyBuffer>>

IsPtr(p) == p \in Seq(Buffers) /\ Len(p) <= 1

TypeOK ==
    /\ running \in BOOLEAN /\ latch \in 0..1 /\ woken \in BOOLEAN
    /\ IsPtr(curBuffer) /\ curBuffer # Null /\ IsPtr(nextBuffer)
    /\ IsPtr(curbuf_bak) /\ IsPtr(nextbuf_bak)
    /\ buffersHolder \in Seq(Buffers) /\ buffers_bak \in Seq(Buffers)
    /\ pc \in {"none", "start", "check", "lock", "wait", "limit", "write", "restore", "end"}
    /\ owner \in {"idle", "starting", "up", "stopping"}
    /\ appended \in 0..MaxAppends /\ starts \in 0..MaxStarts

Init == /\ running = FALSE /\ latch = 1
        /\ curBuffer = new /\ nextBuffer = new /\ buffersHolder = <<>>
        /\ curbuf_bak = Null /\ nextbuf_bak = Null /\ buffers_bak = <<>>
        /\ pc = "none" /\ woken = FALSE /\ owner = "idle"
        /\ appended = 0 /\ starts = 0 /\ file = <<>> /\ dropped = {}

notify_one == woken' = (woken \/ pc = "wait")

(* FixedBuffer::append: what does not fit is not stored. *)
Put(buffer, msg) == IF Len(buffer) < Cap THEN Append(buffer, msg) ELSE buffer

-----------------------------------------------------------------------------
(* append, from any thread *)
Fits == Len(curBuffer[1]) < Cap

AppendFits(msg) == /\ Fits
                   /\ curBuffer' = <<Put(curBuffer[1], msg)>>
                   /\ UNCHANGED <<nextBuffer, buffersHolder, woken>>

HolderWithCur == buffersHolder \o curBuffer

AppendFull(msg) == /\ ~Fits
                   /\ buffersHolder' = HolderWithCur
                   /\ LET buffer == IF nextBuffer # Null THEN nextBuffer[1] ELSE EmptyBuffer
                      IN  curBuffer' = <<Put(buffer, msg)>>
                   /\ nextBuffer' = Null
                   /\ notify_one

AppendLog == /\ appended < MaxAppends /\ appended' = appended + 1
             /\ AppendFits(appended') \/ AppendFull(appended')
             /\ UNCHANGED <<own, control, pc, file, dropped>>

(* flush, as the writing thread sees it *)
Flush == /\ pc = "wait" /\ notify_one
         /\ UNCHANGED <<shared, own, control, pc, appended, file, dropped>>

-----------------------------------------------------------------------------
(* process, the writing thread *)
Begin == /\ pc = "start" /\ pc' = "check"
         /\ curbuf_bak' = new /\ nextbuf_bak' = new /\ buffers_bak' = <<>>
         /\ latch' = IF latch > 0 THEN latch - 1 ELSE latch
         /\ UNCHANGED <<shared, running, owner, starts, woken, appended, file, dropped>>

CheckRunning == /\ pc = "check"
                /\ pc' = IF running THEN "lock" ELSE "end"
                /\ UNCHANGED <<shared, own, control, woken, appended, file, dropped>>

(* The exchange of the buffers, under the mutex. *)
RefillNext == IF nextBuffer = Null
              THEN nextBuffer' = nextbuf_bak /\ nextbuf_bak' = Null
              ELSE UNCHANGED <<nextBuffer, nextbuf_bak>>

Mutant_CurFirst == curBuffer \o buffersHolder
Taken == HolderWithCur

Exchange == /\ buffers_bak' = Taken
            /\ buffersHolder' = buffers_bak
            /\ curBuffer' = curbuf_bak /\ curbuf_bak' = Null
            /\ RefillNext
            /\ pc' = "limit"

Lock == /\ pc = "lock"
        /\ IF buffersHolder = <<>>
           THEN pc' = "wait" /\ woken' = FALSE /\ UNCHANGED <<shared, own>>
           ELSE Exchange /\ UNCHANGED woken
        /\ UNCHANGED <<control, appended, file, dropped>>

(* The wait is over, by notify_one or by the time. *)
Mutant_HolderOnly == buffersHolder = <<>>
NothingToWrite == curBuffer[1] = EmptyBuffer

Awake == /\ pc = "wait" /\ woken' = FALSE
         /\ IF NothingToWrite THEN pc' = "check" /\ UNCHANGED <<shared, own>>
                              ELSE Exchange
         /\ UNCHANGED <<control, appended, file, dropped>>

Notified == woken /\ Awake

Mutant_WaitsForNotify == FALSE
TimeExpires == TRUE

IntervalOver == TimeExpires /\ Awake

(* resize(2) over the limit. *)
Mutant_KeepsOne == 1
Kept == 2

MessagesOf(buffers) == ToSet(FlattenSeq(buffers))

CheckLimit ==
    /\ pc = "limit" /\ pc' = "write"
    /\ IF Len(buffers_bak) > Limit
       THEN /\ buffers_bak' = SubSeq(buffers_bak, 1, Kept)
            /\ dropped' = dropped \union
                          MessagesOf(SubSeq(buffers_bak, Kept + 1, Len(buffers_bak)))
       ELSE UNCHANGED <<buffers_bak, dropped>>
    /\ UNCHANGED <<shared, curbuf_bak, nextbuf_bak, control, woken, appended, file>>

WriteBuffers == /\ pc = "write" /\ pc' = "restore"
                /\ file' = file \o FlattenSeq(buffers_bak)
                /\ UNCHANGED <<shared, own, control, woken, appended, dropped>>

(* Buffers are taken from the back, and reset, for the pointers that are     *)
(* null; the others are freed.                                               *)
Mutant_NotRestored(buffers) == Null
Recycled(buffers) == IF buffers # <<>> THEN new ELSE Null

Restore ==
    /\ pc = "restore" /\ pc' = "check"
    /\ LET cur  == curbuf_bak = Null
           rest == IF cur THEN Front(buffers_bak) ELSE buffers_bak
       IN  /\ curbuf_bak' = IF cur THEN Recycled(buffers_bak) ELSE curbuf_bak
           /\ nextbuf_bak' = IF nextbuf_bak = Null THEN Recycled(rest) ELSE nextbuf_bak
    /\ buffers_bak' = <<>>
    /\ UNCHANGED <<shared, control, woken, appended, file, dropped>>

-----------------------------------------------------------------------------
(* start and stop, by the thread that owns the appender *)
Start == /\ owner = "idle" /\ starts < MaxStarts /\ starts' = starts + 1
         /\ running' = TRUE /\ pc' = "start" /\ owner' = "starting"
         /\ UNCHANGED <<shared, own, latch, woken, appended, file, dropped>>

StartReturns == /\ owner = "starting" /\ latch = 0
                /\ owner' = "up"
                /\ UNCHANGED <<shared, own, running, latch, starts, pc, woken, appended, file,
                               dropped>>

Stop == /\ owner = "up" /\ running /\ running' = FALSE
        /\ UNCHANGED <<shared, own, latch, owner, starts, pc, woken, appended, file, dropped>>

StopNotifies == /\ owner = "up" /\ ~running
                /\ notify_one /\ owner' = "stopping"
                /\ UNCHANGED <<shared, own, running, latch, starts, pc, appended, file, dropped>>

(* join; the thread's own buffers are gone. *)
StopReturns == /\ owner = "stopping" /\ pc = "end"
               /\ pc' = "none" /\ owner' = "idle"
               /\ curbuf_bak' = Null /\ nextbuf_bak' = Null /\ buffers_bak' = <<>>
               /\ UNCHANGED <<shared, running, latch, starts, woken, appended, file, dropped>>

-----------------------------------------------------------------------------
Process == \/ Begin \/ CheckRunning \/ Lock \/ Notified \/ IntervalOver
           \/ CheckLimit \/ WriteBuffers \/ Restore

Owner == Start \/ StartReturns \/ Stop \/ StopNotifies \/ StopReturns

(* Everything that may happen has happened. *)
Finished == /\ owner = "idle" /\ starts = MaxStarts /\ appended = MaxAppends
            /\ UNCHANGED vars

Next == AppendLog \/ Flush \/ Process \/ Owner \/ Finished

(* The writing thread is scheduled, its waits end when the time is over, and *)
(* start and stop are not abandoned half-way.                                *)
Fairness == WF_vars(Process) /\ WF_vars(StartReturns \/ StopNotifies \/ StopReturns)

Spec == Init /\ [][Next]_vars /\ Fairness

-----------------------------------------------------------------------------
(* Properties *)

(* Whatever is appended while buffers are exchanged and written, every       *)
(* message is in one place only, and the order of the appends is that of the *)
(* file: nothing is lost, repeated or reordered, except what the limit       *)
(* drops.                                                                    *)
Unwritten == (IF pc \in {"limit", "write"} THEN FlattenSeq(buffers_bak) ELSE <<>>)
             \o FlattenSeq(buffersHolder) \o curBuffer[1]

InOrderOnce ==
    LET log == file \o Unwritten
    IN  /\ \A i, j \in DOMAIN log : i < j => log[i] < log[j]
        /\ dropped = (1..appended) \ ToSet(log)

(* back() is never called on an empty vector: whatever was moved, dropped    *)
(* and written, enough buffers came back for the pointers that are null.     *)
Needed(p) == IF p = Null THEN 1 ELSE 0

EnoughBuffers == pc = "restore" =>
                     Len(buffers_bak) >= Needed(curbuf_bak) + Needed(nextbuf_bak)

(* Nothing stays in a half-full buffer: as long as the appender runs, every  *)
(* message is written or dropped in the end, by the interval if by nothing   *)
(* else.                                                                     *)
EventuallyWritten ==
    \A i \in 1..MaxAppends :
        (running /\ i <= appended) ~> (~running \/ i \in ToSet(file) \/ i \in dropped)

(* stop returns, although its notification comes without the mutex and may   *)
(* fall between the test of `running` and the wait.                          *)
StopEnds == owner = "stopping" ~> owner = "idle"
==============================================================================
