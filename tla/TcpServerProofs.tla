--------------------------- MODULE TcpServerProofs ---------------------------
(***************************************************************************)
(* Proofs about TcpServer for any number of threads, peers and             *)
(* descriptors: a connection exists as long as a thread uses it or a       *)
(* running loop watches it, whichever thread drops which reference, and    *)
(* the server as long as a worker may call it.                             *)
(***************************************************************************)
EXTENDS TcpServer, SequenceTheorems, TLAPS

-----------------------------------------------------------------------------
(* The inductive invariant *)

Tasks == [op : {"onConnection", "removeItself", "tie", "remove"}, id : Conns]
LoopRecs == [pc : {"off", "starting", "poll", "events", "tasks", "ended"},
             active : SUBSET (Conns \union {acceptorChannel}), cur : Conns \union {none},
             batch : Seq(Tasks), at : Nat \ {0}, pending : Seq(Tasks),
             wake : BOOLEAN, quit : BOOLEAN]
ConnRecs == [loop : Loops, state : {"connecting", "connected", "disconnected"}, watched : BOOLEAN]
OwnerRecs == [pc : {"start", "latch", "loop", "remove", "quit", "join", "gone"},
              k : Nat \ {0}, todo : SUBSET Conns]

ServerTypes ==
    /\ threadNums \in 0..MaxThreads /\ nextIndex \in 0..Len(workerloops) - 1
    /\ owner \in OwnerRecs /\ loops \in [Loops -> LoopRecs] /\ conns \in [Conns -> ConnRecs]
    /\ nextId \in 1..(MaxPeers + 1) /\ held \subseteq 1..(nextId - 1)
    /\ owner.todo \subseteq 1..(nextId - 1)
    /\ idle \in BOOLEAN /\ eof \subseteq 1..(nextId - 1)
    /\ peers \in [left : Nat, backlog : Nat]
    /\ nextId + peers.left + peers.backlog <= MaxPeers + 1

Has(d, op, id) == \E i \in DOMAIN d : d[i].op = op /\ d[i].id = id

(* Where each thread is: handlers run in `events`, a batch in `tasks`.      *)
LoopsInv == \A l \in Loops :
    /\ loops[l].pc # "tasks" => loops[l].batch = <<>>
    /\ loops[l].cur # none => /\ loops[l].pc = "events"
                              /\ Has(loops[l].pending, "tie", loops[l].cur)
    /\ l > threadNums => loops[l].pc = "off"

(* Where the owner is, and what has ended when.                             *)
Destroying == owner.pc \in {"remove", "quit", "join", "gone"}
OwnerInv ==
    /\ owner.pc \in {"start", "latch"} =>
           /\ loops[0].pc = "off"
           /\ \A l \in Loops : l > owner.k => loops[l].pc = "off"
    /\ owner.pc = "start" => \A l \in Loops : l = owner.k => loops[l].pc = "off"
    /\ owner.pc \in {"loop", "remove"} => owner.k = 1
    /\ owner.pc \in {"latch", "join"} => owner.k <= threadNums
    /\ Destroying => loops[0].pc = "ended"
    /\ owner.pc \in {"quit", "join"} =>
           \A l \in Loops : (0 < l /\ l < owner.k) => loops[l].pc = "ended"
    /\ owner.pc = "gone" => \A l \in Loops : loops[l].pc \in {"off", "ended"}

(* What a loop has queued and not run, in its order.                        *)
Left(b, a, p) == SubSeq(b, a, Len(b)) \o p
Due(l) == Left(loops[l].batch, loops[l].at, loops[l].pending)

(* onConnection is the first of a connection's tasks, and queued once;      *)
(* removeItself comes after it; the owner is told to forget a connection    *)
(* that is disconnected.                                                    *)
DueOK(l, d, cs, n) == \A i \in DOMAIN d :
    /\ d[i] \in Tasks /\ d[i].id < n
    /\ d[i].op = "onConnection" =>
           /\ l = cs[d[i].id].loop /\ cs[d[i].id].state = "connecting"
           /\ \A j \in DOMAIN d :
                  (d[j].id = d[i].id /\ d[j].op \in {"onConnection", "removeItself"}) => i <= j
    /\ d[i].op = "removeItself" => l = cs[d[i].id].loop
    /\ d[i].op = "remove" => cs[d[i].id].state = "disconnected"
DueInv == \A l \in Loops : DueOK(l, Due(l), conns, nextId)

ConnsInv == \A id \in Conns :
    /\ id >= nextId => conns[id].state = "connecting"
    /\ (id < nextId /\ conns[id].loop = 0) => conns[id].state # "connecting"
    /\ conns[id].watched => conns[id].state = "connected"
    /\ \A l \in Loops : id \in loops[l].active => conns[id].state # "connecting"

(* The server holds what is not disconnected, until its map is destroyed; a *)
(* worker that still runs then has the task that disconnects it.            *)
Holds == owner.pc \notin {"quit", "join", "gone"} =>
             \A id \in 1..(nextId - 1) : conns[id].state # "disconnected" => id \in held
Leaving(id) == Has(Due(conns[id].loop), "removeItself", id)
TakenDown == Destroying =>
    \A id \in 1..(nextId - 1) :
        (conns[id].state # "disconnected" /\ loops[conns[id].loop].pc # "ended")
            => (owner.pc = "remove" /\ id \in owner.todo) \/ Leaving(id)

ServerInv == ServerTypes /\ LoopsInv /\ OwnerInv /\ DueInv /\ ConnsInv /\ Holds /\ TakenDown

-----------------------------------------------------------------------------
(* Queues                                                                   *)

LEMMA TaskType ==
  ASSUME NEW op \in {"onConnection", "removeItself", "tie", "remove"}, NEW id \in Conns
  PROVE  Task(op, id) \in Tasks /\ Task(op, id).op = op /\ Task(op, id).id = id
BY DEF Task, Tasks

LEMMA SuffixType ==
  ASSUME NEW S, NEW b \in Seq(S), NEW a \in Nat \ {0}
  PROVE  SubSeq(b, a, Len(b)) \in Seq(S) /\ Len(b) \in Nat
<1>1. Len(b) \in Nat /\ \A i \in 1..Len(b) : b[i] \in S
  BY LenProperties, ElementOfSeq
<1>2. \A i \in a..Len(b) : b[i] \in S
  BY <1>1
<1> QED BY <1>1, <1>2, SubSeqProperties

LEMMA LeftType ==
  ASSUME NEW S, NEW b \in Seq(S), NEW a \in Nat \ {0}, NEW p \in Seq(S)
  PROVE  Left(b, a, p) \in Seq(S)
BY SuffixType, ConcatProperties DEF Left

(* queueInLoop: behind the others.                                          *)
LEMMA LeftAppend ==
  ASSUME NEW S, NEW b \in Seq(S), NEW a \in Nat \ {0}, NEW p \in Seq(S), NEW t \in S
  PROVE  Left(b, a, Append(p, t)) = Append(Left(b, a, p), t)
<1> DEFINE s == SubSeq(b, a, Len(b))
<1>1. s \in Seq(S) /\ <<t>> \in Seq(S)
  BY SuffixType
<1> HIDE DEF s
<1>2. Append(p, t) = p \o <<t>>
  BY AppendIsConcat
<1>3. s \o p \in Seq(S)
  BY <1>1, ConcatProperties
<1>4. Append(s \o p, t) = (s \o p) \o <<t>>
  BY <1>3, AppendIsConcat
<1>5. (s \o p) \o <<t>> = s \o (p \o <<t>>)
  BY <1>1, ConcatAssociative
<1> QED BY <1>2, <1>4, <1>5 DEF Left, s

(* doPendingTasks swaps the queue with an empty batch ...                   *)
LEMMA LeftSwap ==
  ASSUME NEW S, NEW p \in Seq(S), NEW a \in Nat \ {0}
  PROVE  Left(p, 1, <<>>) = Left(<<>>, a, p)
<1>1. SubSeq(p, 1, Len(p)) = p
  BY SubSeqFull
<1>2. Len(<<>>) = 0 /\ SubSeq(<<>>, a, 0) = <<>>
  BY SubSeqEmpty, LenProperties
<1>3. p \o <<>> = p /\ <<>> \o p = p
  BY ConcatEmptySeq
<1> QED BY <1>1, <1>2, <1>3 DEF Left

(* ... and runs the batch in order ...                                      *)
LEMMA LeftNext ==
  ASSUME NEW S, NEW b \in Seq(S), NEW a \in Nat \ {0}, NEW p \in Seq(S), a <= Len(b)
  PROVE  Left(b, a, p) = <<b[a]>> \o Left(b, a + 1, p) /\ b[a] \in S
<1> DEFINE r == SubSeq(b, a + 1, Len(b))
<1>1. Len(b) \in Nat /\ a \in 1..Len(b) /\ Len(b) \in a..Len(b) /\ a + 1 \in Nat \ {0}
  BY LenProperties
<1>2. SubSeq(b, a, Len(b)) = <<b[a]>> \o r
  BY <1>1, SubSeqRecursiveFirst
<1>3. r \in Seq(S)
  BY <1>1, SuffixType
<1>4. b[a] \in S /\ <<b[a]>> \in Seq(S)
  BY <1>1, ElementOfSeq
<1> HIDE DEF r
<1>5. (<<b[a]>> \o r) \o p = <<b[a]>> \o (r \o p)
  BY <1>3, <1>4, ConcatAssociative
<1> QED BY <1>2, <1>4, <1>5 DEF Left, r

(* ... until there is nothing left of it.                                   *)
LEMMA LeftAll ==
  ASSUME NEW S, NEW b \in Seq(S), NEW a \in Nat \ {0}, NEW p \in Seq(S), a > Len(b)
  PROVE  Left(b, a, p) = p /\ Left(<<>>, a, p) = p
<1>1. Len(b) \in Nat /\ Len(<<>>) = 0
  BY LenProperties
<1>2. SubSeq(b, a, Len(b)) = <<>> /\ SubSeq(<<>>, a, 0) = <<>>
  BY <1>1, SubSeqEmpty
<1>3. <<>> \o p = p
  BY ConcatEmptySeq
<1> QED BY <1>1, <1>2, <1>3 DEF Left

(* What is left is in the batch or in the queue.                            *)
LEMMA LeftElement ==
  ASSUME NEW S, NEW b \in Seq(S), NEW a \in Nat \ {0}, NEW p \in Seq(S), NEW i \in DOMAIN Left(b, a, p)
  PROVE  \/ \E j \in DOMAIN b : b[j] = Left(b, a, p)[i]
         \/ \E j \in DOMAIN p : p[j] = Left(b, a, p)[i]
<1> DEFINE s == SubSeq(b, a, Len(b))
<1>1. s \in Seq(S) /\ Len(b) \in Nat /\ DOMAIN b = 1..Len(b) /\ DOMAIN p = 1..Len(p) /\ Len(p) \in Nat
  BY SuffixType, LenProperties
<1>2. \A j \in 1..Len(s) : a + j - 1 \in 1..Len(b) /\ s[j] = b[a + j - 1]
  <2>1. \A j \in a..Len(b) : b[j] \in S
    BY <1>1, ElementOfSeq
  <2>2. /\ Len(s) = IF a <= Len(b) THEN Len(b) - a + 1 ELSE 0
        /\ \A j \in 1..(Len(b) - a + 1) : s[j] = b[a + j - 1]
    BY <1>1, <2>1, SubSeqProperties
  <2> QED BY <1>1, <2>2
<1> HIDE DEF s
<1>3. i \in 1..(Len(s) + Len(p)) /\ Len(s) \in Nat
      /\ Left(b, a, p)[i] = IF i <= Len(s) THEN s[i] ELSE p[i - Len(s)]
  <2>1. /\ s \o p \in Seq(S) /\ Len(s \o p) = Len(s) + Len(p)
        /\ \A j \in 1..(Len(s) + Len(p)) : (s \o p)[j] = IF j <= Len(s) THEN s[j] ELSE p[j - Len(s)]
    BY <1>1, ConcatProperties
  <2>2. DOMAIN (s \o p) = 1..(Len(s) + Len(p)) /\ Len(s) \in Nat
    BY <1>1, <2>1, LenProperties
  <2>3. Left(b, a, p) = s \o p
    BY DEF Left, s
  <2> QED BY <2>1, <2>2, <2>3
<1>4. CASE i <= Len(s)
  <2>1. i \in 1..Len(s)
    BY <1>3, <1>4
  <2> QED BY <1>1, <1>2, <1>3, <1>4, <2>1
<1>5. CASE ~(i <= Len(s))
  <2>1. i - Len(s) \in 1..Len(p)
    BY <1>1, <1>3, <1>5
  <2> QED BY <1>1, <1>3, <1>5, <2>1
<1> QED BY <1>4, <1>5

(* A step that leaves the queue alone.                                      *)
LEMMA QueueKept ==
  ASSUME NEW l, NEW d, NEW cs, NEW n \in Int, NEW cs2, NEW n2 \in Int,
         DueOK(l, d, cs, n), n <= n2,
         \A i \in DOMAIN d : d[i].id \in Int,
         \A i \in DOMAIN d : /\ cs2[d[i].id].loop = cs[d[i].id].loop
                             /\ d[i].op = "onConnection" => cs2[d[i].id].state = "connecting"
                             /\ d[i].op = "remove" => cs2[d[i].id].state = "disconnected"
  PROVE  DueOK(l, d, cs2, n2)
<1> SUFFICES ASSUME NEW i \in DOMAIN d
             PROVE  /\ d[i] \in Tasks /\ d[i].id < n2
                    /\ d[i].op = "onConnection" =>
                          /\ l = cs2[d[i].id].loop /\ cs2[d[i].id].state = "connecting"
                          /\ \A j \in DOMAIN d :
                                (d[j].id = d[i].id /\ d[j].op \in {"onConnection", "removeItself"}) => i <= j
                    /\ d[i].op = "removeItself" => l = cs2[d[i].id].loop
                    /\ d[i].op = "remove" => cs2[d[i].id].state = "disconnected"
  BY DEF DueOK
<1>1. /\ d[i] \in Tasks /\ d[i].id < n /\ d[i].id \in Int
      /\ d[i].op = "onConnection" =>
            /\ l = cs[d[i].id].loop
            /\ \A j \in DOMAIN d :
                  (d[j].id = d[i].id /\ d[j].op \in {"onConnection", "removeItself"}) => i <= j
      /\ d[i].op = "removeItself" => l = cs[d[i].id].loop
  BY DEF DueOK
<1> QED BY <1>1

(* queueInLoop *)
LEMMA QueueGrown ==
  ASSUME NEW l, NEW d \in Seq(Tasks), NEW cs, NEW n, NEW t \in Tasks,
         DueOK(l, d, cs, n), t.id < n,
         t.op = "onConnection" =>
             /\ l = cs[t.id].loop /\ cs[t.id].state = "connecting"
             /\ ~Has(d, "onConnection", t.id) /\ ~Has(d, "removeItself", t.id),
         t.op = "removeItself" => l = cs[t.id].loop,
         t.op = "remove" => cs[t.id].state = "disconnected"
  PROVE  /\ Append(d, t) \in Seq(Tasks) /\ DueOK(l, Append(d, t), cs, n)
         /\ Has(Append(d, t), t.op, t.id)
         /\ \A op, id : Has(d, op, id) => Has(Append(d, t), op, id)
<1> DEFINE e == Append(d, t)
           m == Len(d)
<1>1. /\ e \in Seq(Tasks) /\ m \in Nat /\ DOMAIN d = 1..m /\ DOMAIN e = 1..(m + 1)
      /\ \A i \in 1..m : e[i] = d[i]
      /\ e[m + 1] = t
  BY AppendProperties, LenProperties
<1> HIDE DEF e, m
<1>2. \A i \in 1..(m + 1) : i \in 1..m \/ i = m + 1
  BY <1>1
<1>3. ASSUME NEW i \in DOMAIN e
      PROVE  /\ e[i] \in Tasks /\ e[i].id < n
             /\ e[i].op = "onConnection" => l = cs[e[i].id].loop /\ cs[e[i].id].state = "connecting"
             /\ e[i].op = "removeItself" => l = cs[e[i].id].loop
             /\ e[i].op = "remove" => cs[e[i].id].state = "disconnected"
  <2>1. CASE i \in 1..m
    BY <1>1, <2>1 DEF DueOK
  <2>2. CASE i = m + 1
    BY <1>1, <2>2
  <2> QED BY <1>1, <1>2, <2>1, <2>2
<1>4. ASSUME NEW i \in DOMAIN e, NEW j \in DOMAIN e, e[i].op = "onConnection",
             e[j].id = e[i].id, e[j].op \in {"onConnection", "removeItself"}
      PROVE  i <= j
  <2>1. i \in 1..(m + 1) /\ j \in 1..(m + 1)
    BY <1>1
  <2>2. CASE i \in 1..m /\ j \in 1..m
    <3>1. i \in DOMAIN d /\ j \in DOMAIN d /\ e[i] = d[i] /\ e[j] = d[j]
      BY <1>1, <2>2
    <3> QED BY <1>4, <3>1 DEF DueOK
  <2>3. CASE i \in 1..m /\ j = m + 1
    BY <1>1, <2>3
  <2>4. CASE i = m + 1 /\ j \in 1..m
    <3>1. j \in DOMAIN d /\ d[j].id = t.id /\ d[j].op \in {"onConnection", "removeItself"} /\ t.op = "onConnection"
      BY <1>1, <1>4, <2>4
    <3>2. Has(d, "onConnection", t.id) \/ Has(d, "removeItself", t.id)
      BY <3>1 DEF Has
    <3> QED BY <3>1, <3>2
  <2>5. CASE i = m + 1 /\ j = m + 1
    BY <1>1, <2>5
  <2> QED BY <1>2, <2>1, <2>2, <2>3, <2>4, <2>5
<1>5. DueOK(l, e, cs, n)
  BY <1>3, <1>4 DEF DueOK
<1>6. Has(e, t.op, t.id)
  <2>1. m + 1 \in DOMAIN e
    BY <1>1
  <2> QED BY <1>1, <2>1 DEF Has
<1>7. ASSUME NEW op, NEW id, Has(d, op, id) PROVE Has(e, op, id)
  <2>1. PICK i \in DOMAIN d : d[i].op = op /\ d[i].id = id
    BY <1>7 DEF Has
  <2>2. i \in DOMAIN e /\ e[i] = d[i]
    BY <1>1
  <2> QED BY <2>1, <2>2 DEF Has
<1> QED BY <1>1, <1>5, <1>6, <1>7 DEF e

(* doPendingTasks: the first task is run, the others stay.                  *)
Before(t, r) == <<t>> \o r

LEMMA QueueRun ==
  ASSUME NEW l, NEW r \in Seq(Tasks), NEW t \in Tasks, NEW cs, NEW n, DueOK(l, Before(t, r), cs, n)
  PROVE  /\ DueOK(l, r, cs, n)
         /\ t.id < n
         /\ t.op = "onConnection" =>
               l = cs[t.id].loop /\ cs[t.id].state = "connecting" /\ ~Has(r, "onConnection", t.id)
         /\ t.op = "removeItself" => l = cs[t.id].loop /\ ~Has(r, "onConnection", t.id)
         /\ t.op = "remove" => cs[t.id].state = "disconnected"
         /\ \A op, id : Has(Before(t, r), op, id) => Has(r, op, id) \/ (t.op = op /\ t.id = id)
<1> DEFINE m == Len(r)
           d == Before(t, r)
<1>0. d = <<t>> \o r /\ DueOK(l, d, cs, n)
  BY DEF Before
<1> HIDE DEF d
<1>1. /\ m \in Nat /\ DOMAIN r = 1..m /\ DOMAIN d = 1..(m + 1) /\ d[1] = t
      /\ \A i \in 1..m : d[i + 1] = r[i]
  <2>1. <<t>> \in Seq(Tasks) /\ Len(<<t>>) = 1 /\ <<t>>[1] = t /\ m \in Nat /\ DOMAIN r = 1..m
    BY LenProperties
  <2> DEFINE s == <<t>>
  <2>2. s \in Seq(Tasks) /\ Len(s) = 1 /\ s[1] = t /\ d = s \o r
    BY <1>0, <2>1
  <2> HIDE DEF m, s
  <2>3. /\ s \o r \in Seq(Tasks) /\ Len(s \o r) = 1 + m
        /\ \A i \in 1..(1 + m) : (s \o r)[i] = IF i <= 1 THEN s[i] ELSE r[i - 1]
    BY <2>2, ConcatProperties DEF m
  <2>4. d \in Seq(Tasks) /\ Len(d) = m + 1 /\ \A i \in 1..(1 + m) : d[i] = IF i <= 1 THEN s[i] ELSE r[i - 1]
    BY <2>1, <2>2, <2>3
  <2>5. DOMAIN d = 1..(m + 1)
    BY <2>4, LenProperties
  <2>6. d[1] = t
    BY <2>1, <2>2, <2>4
  <2>7. \A i \in 1..m : d[i + 1] = r[i]
    BY <2>1, <2>4
  <2> QED BY <2>1, <2>5, <2>6, <2>7 DEF m
<1> HIDE DEF m
<1>2. 1 \in DOMAIN d /\ \A i \in 1..m : i + 1 \in DOMAIN d /\ i + 1 > 1
  BY <1>1
<1>3. ASSUME NEW i \in DOMAIN r
      PROVE  /\ r[i] \in Tasks /\ r[i].id < n
             /\ r[i].op = "onConnection" => l = cs[r[i].id].loop /\ cs[r[i].id].state = "connecting"
             /\ r[i].op = "removeItself" => l = cs[r[i].id].loop
             /\ r[i].op = "remove" => cs[r[i].id].state = "disconnected"
             /\ r[i].op = "onConnection" =>
                    \A j \in DOMAIN r : (r[j].id = r[i].id /\ r[j].op \in {"onConnection", "removeItself"}) => i <= j
             /\ r[i].op = "onConnection" => ~(t.id = r[i].id /\ t.op \in {"onConnection", "removeItself"})
  <2>1. i \in 1..m /\ i + 1 \in DOMAIN d /\ d[i + 1] = r[i]
    BY <1>1, <1>2
  <2>2. /\ r[i] \in Tasks /\ r[i].id < n
        /\ r[i].op = "onConnection" => l = cs[r[i].id].loop /\ cs[r[i].id].state = "connecting"
        /\ r[i].op = "removeItself" => l = cs[r[i].id].loop
        /\ r[i].op = "remove" => cs[r[i].id].state = "disconnected"
        /\ r[i].op = "onConnection" =>
               \A j \in DOMAIN d : (d[j].id = r[i].id /\ d[j].op \in {"onConnection", "removeItself"}) => i + 1 <= j
    BY <1>0, <2>1 DEF DueOK
  <2>3. ASSUME NEW j \in DOMAIN r, r[i].op = "onConnection", r[j].id = r[i].id, r[j].op \in {"onConnection", "removeItself"}
        PROVE  i <= j
    <3>1. j \in 1..m /\ j + 1 \in DOMAIN d /\ d[j + 1] = r[j]
      BY <1>1, <1>2
    <3>2. i + 1 <= j + 1
      BY <2>2, <2>3, <3>1
    <3> QED BY <2>1, <3>1, <3>2
  <2>4. ASSUME r[i].op = "onConnection", t.id = r[i].id, t.op \in {"onConnection", "removeItself"}
        PROVE  FALSE
    <3>1. i + 1 <= 1
      BY <1>1, <1>2, <2>2, <2>4
    <3> QED BY <2>1, <3>1
  <2> QED BY <2>2, <2>3, <2>4
<1>4. /\ t.id < n
      /\ t.op = "onConnection" => l = cs[t.id].loop /\ cs[t.id].state = "connecting"
      /\ t.op = "removeItself" => l = cs[t.id].loop
      /\ t.op = "remove" => cs[t.id].state = "disconnected"
  BY <1>0, <1>1, <1>2 DEF DueOK
<1>5. t.op \in {"onConnection", "removeItself"} => ~Has(r, "onConnection", t.id)
  BY <1>3 DEF Has
<1>6. ASSUME NEW op, NEW id, Has(d, op, id), ~(t.op = op /\ t.id = id) PROVE Has(r, op, id)
  <2>1. PICK i \in DOMAIN d : d[i].op = op /\ d[i].id = id
    BY <1>6 DEF Has
  <2>2. i \in 1..(m + 1) /\ i # 1
    BY <1>1, <1>6, <2>1
  <2>3. i - 1 \in 1..m /\ (i - 1) + 1 = i
    BY <1>1, <2>2
  <2>4. i - 1 \in DOMAIN r /\ r[i - 1] = d[i]
    BY <1>1, <2>3
  <2> QED BY <2>1, <2>4 DEF Has
<1>7. DueOK(l, r, cs, n)
  BY <1>3 DEF DueOK
<1> QED BY <1>4, <1>5, <1>6, <1>7 DEF d

-----------------------------------------------------------------------------
(* Records                                                                  *)

LEMMA TaskFields == \A t \in Tasks :
    /\ t.op \in {"onConnection", "removeItself", "tie", "remove"} /\ t.id \in Conns /\ t.id \in Int
    /\ t = Task(t.op, t.id)
BY ServerAssumption DEF Tasks, Task, Conns

LEMMA ConnFields ==
  ASSUME ServerTypes, NEW id \in Conns
  PROVE  /\ conns[id].loop \in Loops /\ conns[id].state \in {"connecting", "connected", "disconnected"}
         /\ conns[id].watched \in BOOLEAN /\ id \in Int
BY ServerAssumption DEF ServerTypes, ConnRecs, Conns

LEMMA LoopFields ==
  ASSUME ServerTypes, NEW l \in Loops
  PROVE  /\ loops[l] \in LoopRecs /\ loops[l].batch \in Seq(Tasks) /\ loops[l].at \in Nat \ {0}
         /\ loops[l].pending \in Seq(Tasks) /\ loops[l].active \subseteq Conns \union {acceptorChannel}
         /\ Due(l) \in Seq(Tasks)
<1>1. /\ loops[l] \in LoopRecs /\ loops[l].batch \in Seq(Tasks) /\ loops[l].at \in Nat \ {0}
      /\ loops[l].pending \in Seq(Tasks) /\ loops[l].active \subseteq Conns \union {acceptorChannel}
  BY DEF ServerTypes, LoopRecs
<1> QED BY <1>1, LeftType DEF Due

LEMMA Numbers ==
  ASSUME ServerTypes
  PROVE  /\ MaxThreads \in Nat /\ MaxPeers \in Nat /\ 0 \in Loops /\ acceptorChannel \notin Conns
         /\ threadNums \in Nat /\ threadNums <= MaxThreads /\ nextId \in Nat /\ nextId >= 1
         /\ owner.k \in Nat \ {0} /\ owner.todo \subseteq Conns
         /\ \A id \in 1..(nextId - 1) : id \in Conns /\ id < nextId
         /\ \A id \in Conns : id < nextId => id \in 1..(nextId - 1)
BY ServerAssumption DEF ServerTypes, OwnerRecs, Loops, Conns, acceptorChannel

LEMMA QueueFields ==
  ASSUME NEW ls \in [Loops -> LoopRecs], NEW l \in Loops, NEW t \in Tasks, NEW self \in BOOLEAN
  PROVE  /\ Queue(ls, l, t, self) \in [Loops -> LoopRecs]
         /\ \A k \in Loops : k # l => Queue(ls, l, t, self)[k] = ls[k]
         /\ \A k \in Loops : /\ Queue(ls, l, t, self)[k].pc = ls[k].pc
                             /\ Queue(ls, l, t, self)[k].active = ls[k].active
                             /\ Queue(ls, l, t, self)[k].cur = ls[k].cur
                             /\ Queue(ls, l, t, self)[k].batch = ls[k].batch
                             /\ Queue(ls, l, t, self)[k].at = ls[k].at
                             /\ Queue(ls, l, t, self)[k].quit = ls[k].quit
         /\ Queue(ls, l, t, self)[l].pending = Append(ls[l].pending, t)
<1>1. ls[l].pending \in Seq(Tasks) /\ ls[l].wake \in BOOLEAN
  BY DEF LoopRecs
<1>2. Append(ls[l].pending, t) \in Seq(Tasks) /\ (ls[l].wake \/ ~self) \in BOOLEAN
  BY <1>1, AppendProperties
<1> DEFINE p == Append(ls[l].pending, t)
           w == ls[l].wake \/ ~self
<1>3. Queue(ls, l, t, self) = [ls EXCEPT ![l] = [ls[l] EXCEPT !.pending = p, !.wake = w]]
  BY DEF Queue
<1>4. p \in Seq(Tasks) /\ w \in BOOLEAN
  BY <1>2
<1> HIDE DEF p, w
<1>5. [ls[l] EXCEPT !.pending = p, !.wake = w] \in LoopRecs
  BY <1>4 DEF LoopRecs
<1> QED BY <1>3, <1>5 DEF p, LoopRecs

-----------------------------------------------------------------------------
(* Steps that leave the queues and the connections alone                    *)

LEMMA QueuesSame ==
  ASSUME ServerInv, UNCHANGED <<conns, nextId>>,
         \A k \in Loops :
             /\ Due(k)' = Due(k)
             /\ loops[k].pc = "ended" => loops'[k].pc = "ended"
             /\ \A id \in Conns : id \in loops'[k].active =>
                    id \in loops[k].active \/ conns[id].state # "connecting"
  PROVE  DueInv' /\ ConnsInv' /\ (owner' = owner => TakenDown')
<1>1. ASSUME NEW k \in Loops PROVE Due(k)' = Due(k)
  OBVIOUS
<1>2. DueInv'
  BY <1>1 DEF ServerInv, DueInv
<1>3. ConnsInv'
  BY DEF ServerInv, ConnsInv
<1>4. ASSUME owner' = owner PROVE TakenDown'
  <2> SUFFICES ASSUME Destroying', NEW id \in 1..(nextId - 1),
                      conns[id].state # "disconnected", loops'[conns[id].loop].pc # "ended"
               PROVE  (owner.pc = "remove" /\ id \in owner.todo) \/ Leaving(id)'
    BY <1>4 DEF TakenDown
  <2>1. Destroying
    BY <1>4 DEF Destroying
  <2>2. id \in Conns
    BY Numbers DEF ServerInv
  <2>3. conns[id].loop \in Loops
    BY <2>2, ConnFields DEF ServerInv
  <2>4. loops[conns[id].loop].pc # "ended"
    BY <2>3
  <2>5. (owner.pc = "remove" /\ id \in owner.todo) \/ Leaving(id)
    BY <2>1, <2>4 DEF ServerInv, TakenDown
  <2>6. Due(conns[id].loop)' = Due(conns[id].loop)
    BY <1>1, <2>3
  <2> QED BY <2>5, <2>6 DEF Leaving
<1> QED BY <1>1, <1>2, <1>3, <1>4

LEMMA Quiet ==
  ASSUME ServerInv, UNCHANGED <<conns, nextId>>,
         \A k \in Loops :
             /\ loops'[k].batch = loops[k].batch /\ loops'[k].at = loops[k].at
             /\ loops'[k].pending = loops[k].pending
             /\ loops[k].pc = "ended" => loops'[k].pc = "ended"
             /\ \A id \in Conns : id \in loops'[k].active =>
                    id \in loops[k].active \/ conns[id].state # "connecting"
  PROVE  /\ DueInv' /\ ConnsInv' /\ (owner' = owner => TakenDown')
         /\ \A k \in Loops : Due(k)' = Due(k)
<1>1. ASSUME NEW k \in Loops PROVE Due(k)' = Due(k)
  BY DEF Due
<1> QED BY <1>1, QueuesSame

LEMMA OutsideKeeps ==
  ASSUME ServerInv, PeerConnect \/ \E id \in Conns : PeerClose(id)
  PROVE  ServerInv'
<1>1. CASE PeerConnect
  <2>1. ServerTypes'
    BY <1>1 DEF PeerConnect, ServerInv, ServerTypes, workerloops
  <2> QED BY <1>1, <2>1, Quiet DEF PeerConnect, ServerInv, LoopsInv, OwnerInv, Destroying, Holds
<1>2. ASSUME NEW id \in Conns, PeerClose(id) PROVE ServerInv'
  <2>1. id \in 1..(nextId - 1)
    BY <1>2, Numbers DEF PeerClose, ServerInv
  <2>2. ServerTypes'
    BY <1>2, <2>1 DEF PeerClose, ServerInv, ServerTypes, workerloops
  <2> QED BY <1>2, <2>2, Quiet DEF PeerClose, ServerInv, LoopsInv, OwnerInv, Destroying, Holds
<1> QED BY <1>1, <1>2

LEMMA LoopWith ==
  ASSUME ServerTypes, NEW l \in Loops, NEW r \in LoopRecs
  PROVE  [loops EXCEPT ![l] = r] \in [Loops -> LoopRecs]
BY DEF ServerTypes

LEMMA LoopSet ==
  ASSUME ServerTypes, NEW l \in Loops, NEW r \in LoopRecs, loops' = [loops EXCEPT ![l] = r]
  PROVE  loops' \in [Loops -> LoopRecs] /\ \A k \in Loops : loops'[k] = IF k = l THEN r ELSE loops[k]
BY DEF ServerTypes

LEMMA StartLoopKeeps == ASSUME ServerInv, StartLoop PROVE ServerInv'
<1> USE DEF StartLoop
<1>1. owner.k \in Loops /\ owner.k # 0 /\ owner.k \in Nat
  BY Numbers DEF ServerInv, Loops
<1>0. loops[owner.k] \in LoopRecs
  BY <1>1, LoopFields DEF ServerInv
<1>a. [loops[owner.k] EXCEPT !.pc = "starting"] \in LoopRecs
  BY <1>0 DEF LoopRecs
<1>2. loops' \in [Loops -> LoopRecs]
  BY <1>a, <1>1, LoopWith DEF ServerInv
<1>b. owner' \in OwnerRecs
  BY <1>1 DEF ServerInv, ServerTypes, OwnerRecs
<1>3. /\ owner'.pc = "latch" /\ owner'.k = owner.k /\ owner'.todo = owner.todo
      /\ \A l \in Loops : /\ loops'[l].batch = loops[l].batch /\ loops'[l].at = loops[l].at
                          /\ loops'[l].pending = loops[l].pending /\ loops'[l].cur = loops[l].cur
                          /\ loops'[l].active = loops[l].active
                          /\ loops'[l].pc = IF l = owner.k THEN "starting" ELSE loops[l].pc
  BY <1>1 DEF ServerInv, ServerTypes, LoopRecs, OwnerRecs
<1>4. loops[owner.k].pc = "off"
  BY <1>1 DEF ServerInv, OwnerInv
<1>5. ServerTypes'
  BY <1>2, <1>b, <1>3 DEF ServerInv, ServerTypes, workerloops
<1>6. DueInv' /\ ConnsInv'
  BY <1>1, <1>3, <1>4, Quiet
<1>7. TakenDown' /\ Holds'
  BY <1>3 DEF TakenDown, Destroying, ServerInv, Holds
<1>8. LoopsInv'
  <2> SUFFICES ASSUME NEW l \in Loops
               PROVE  /\ loops'[l].pc # "tasks" => loops'[l].batch = <<>>
                      /\ loops'[l].cur # none => /\ loops'[l].pc = "events"
                                                /\ Has(loops'[l].pending, "tie", loops'[l].cur)
                      /\ l > threadNums => loops'[l].pc = "off"
    BY DEF LoopsInv
  <2>1. /\ loops[l].pc # "tasks" => loops[l].batch = <<>>
        /\ loops[l].cur # none => loops[l].pc = "events" /\ Has(loops[l].pending, "tie", loops[l].cur)
        /\ l > threadNums => loops[l].pc = "off"
    BY DEF ServerInv, LoopsInv
  <2>2. CASE l = owner.k
    <3>1. ~(l > threadNums)
      BY <1>1, <2>2, Numbers DEF ServerInv
    <3> QED BY <1>3, <1>4, <2>1, <2>2, <3>1
  <2>3. CASE l # owner.k
    BY <1>3, <2>1, <2>3
  <2> QED BY <2>2, <2>3
<1>9. OwnerInv'
  BY <1>1, <1>3, Numbers DEF ServerInv, OwnerInv, Destroying
<1> QED BY <1>5, <1>6, <1>7, <1>8, <1>9 DEF ServerInv

LEMMA ThreadStartKeeps == ASSUME ServerInv, NEW l \in Loops, ThreadStart(l) PROVE ServerInv'
<1> USE DEF ThreadStart
<1>a. [loops[l] EXCEPT !.pc = "poll"] \in LoopRecs
  BY LoopFields DEF ServerInv, LoopRecs
<1>2. loops' \in [Loops -> LoopRecs]
  BY <1>a, LoopWith DEF ServerInv
<1>3. \A k \in Loops : /\ loops'[k].batch = loops[k].batch /\ loops'[k].at = loops[k].at
                       /\ loops'[k].pending = loops[k].pending /\ loops'[k].cur = loops[k].cur
                       /\ loops'[k].active = loops[k].active
                       /\ loops'[k].pc = IF k = l THEN "poll" ELSE loops[k].pc
  BY DEF ServerInv, ServerTypes, LoopRecs
<1>5. ServerTypes'
  BY <1>2 DEF ServerInv, ServerTypes, workerloops
<1>6. DueInv' /\ ConnsInv' /\ TakenDown'
  BY <1>3, Quiet
<1>7. Holds'
  BY DEF ServerInv, Holds
<1>8. LoopsInv'
  BY <1>3 DEF ServerInv, LoopsInv
<1>9. OwnerInv'
  BY <1>3, Numbers DEF ServerInv, OwnerInv, Destroying
<1> QED BY <1>5, <1>6, <1>7, <1>8, <1>9 DEF ServerInv

LEMMA LatchWaitKeeps == ASSUME ServerInv, LatchWait PROVE ServerInv'
<1> USE DEF LatchWait
<1>0. owner.k + 1 \in Nat \ {0}
  BY Numbers DEF ServerInv
<1>1. /\ owner'.pc = "start" /\ owner'.k = owner.k + 1 /\ owner'.todo = owner.todo
      /\ owner' \in OwnerRecs
  BY <1>0 DEF ServerInv, ServerTypes, OwnerRecs
<1>5. ServerTypes'
  BY <1>1 DEF ServerInv, ServerTypes, workerloops
<1>6. DueInv' /\ ConnsInv'
  BY Quiet
<1>7. TakenDown' /\ Holds'
  BY <1>1 DEF TakenDown, Destroying, ServerInv, Holds
<1>8. LoopsInv'
  BY DEF ServerInv, LoopsInv
<1>9. OwnerInv'
  BY <1>1, Numbers DEF ServerInv, OwnerInv, Destroying, Loops
<1> QED BY <1>5, <1>6, <1>7, <1>8, <1>9 DEF ServerInv

LEMMA ListenKeeps == ASSUME ServerInv, Listen PROVE ServerInv'
<1> USE DEF Listen
<1>1. 0 \in Loops /\ loops[0].pc = "off"
  BY Numbers DEF ServerInv, OwnerInv
<1>a. [loops[0] EXCEPT !.pc = "poll"] \in LoopRecs
  BY <1>1, LoopFields DEF ServerInv, LoopRecs
<1>2. loops' \in [Loops -> LoopRecs]
  BY <1>a, <1>1, LoopWith DEF ServerInv
<1>b. owner' \in OwnerRecs
  <2>1. owner \in OwnerRecs /\ 1 \in Nat \ {0} /\ owner' = [owner EXCEPT !.pc = "loop", !.k = 1]
    BY DEF ServerInv, ServerTypes
  <2> QED BY <2>1 DEF OwnerRecs
<1>3. /\ owner'.pc = "loop" /\ owner'.k = 1 /\ owner'.todo = owner.todo
      /\ \A l \in Loops : /\ loops'[l].batch = loops[l].batch /\ loops'[l].at = loops[l].at
                          /\ loops'[l].pending = loops[l].pending /\ loops'[l].cur = loops[l].cur
                          /\ loops'[l].active = loops[l].active
                          /\ loops'[l].pc = IF l = 0 THEN "poll" ELSE loops[l].pc
  BY <1>1 DEF ServerInv, ServerTypes, LoopRecs, OwnerRecs
<1>5. ServerTypes'
  BY <1>2, <1>b, <1>3 DEF ServerInv, ServerTypes, workerloops
<1>6. DueInv' /\ ConnsInv'
  BY <1>1, <1>3, Quiet
<1>7. TakenDown' /\ Holds'
  BY <1>3 DEF TakenDown, Destroying, ServerInv, Holds
<1>8. LoopsInv'
  BY <1>1, <1>3, Numbers DEF ServerInv, LoopsInv
<1>9. OwnerInv'
  BY <1>1, <1>3, Numbers DEF ServerInv, OwnerInv, Destroying
<1> QED BY <1>5, <1>6, <1>7, <1>8, <1>9 DEF ServerInv

LEMMA QuitKeeps == ASSUME ServerInv, Quit PROVE ServerInv'
<1> USE DEF Quit
<1>1. 0 \in Loops
  BY Numbers DEF ServerInv
<1>a. [loops[0] EXCEPT !.quit = TRUE, !.wake = TRUE] \in LoopRecs
  BY <1>1, LoopFields DEF ServerInv, LoopRecs
<1>b. loops' = [loops EXCEPT ![0] = [loops[0] EXCEPT !.quit = TRUE, !.wake = TRUE]]
  BY <1>1 DEF ServerInv, ServerTypes
<1>2. loops' \in [Loops -> LoopRecs]
  BY <1>a, <1>b, <1>1, LoopWith DEF ServerInv
<1>3. \A l \in Loops : /\ loops'[l].batch = loops[l].batch /\ loops'[l].at = loops[l].at
                       /\ loops'[l].pending = loops[l].pending /\ loops'[l].cur = loops[l].cur
                       /\ loops'[l].active = loops[l].active /\ loops'[l].pc = loops[l].pc
  BY <1>1 DEF ServerInv, ServerTypes, LoopRecs
<1>5. ServerTypes'
  BY <1>2 DEF ServerInv, ServerTypes, workerloops
<1>6. DueInv' /\ ConnsInv' /\ TakenDown'
  BY <1>3, Quiet
<1>7. LoopsInv' /\ Holds'
  <2>1. LoopsInv /\ Holds /\ threadNums' = threadNums
    BY DEF ServerInv
  <2>2. owner' = owner /\ held' = held /\ nextId' = nextId /\ conns' = conns
    OBVIOUS
  <2> HIDE DEF Quit
  <2>3. LoopsInv'
    BY <1>3, <2>1 DEF LoopsInv
  <2>4. Holds'
    BY <2>1, <2>2 DEF Holds
  <2> QED BY <2>3, <2>4
<1>9. OwnerInv'
  <2>1. OwnerInv /\ owner' = owner /\ threadNums' = threadNums
    BY DEF ServerInv
  <2>2. \A l \in Loops : loops'[l].pc = loops[l].pc
    BY <1>3
  <2> HIDE DEF Quit
  <2> QED BY <1>1, <2>1, <2>2 DEF OwnerInv, Destroying
<1> QED BY <1>5, <1>6, <1>7, <1>9 DEF ServerInv

LEMMA PollKeeps == ASSUME ServerInv, NEW l \in Loops, Poll(l) PROVE ServerInv'
<1> USE DEF Poll
<1>1. Ready(l) \subseteq Conns \union {acceptorChannel} /\ \A id \in Conns : id \in Ready(l) => conns[id].watched
  BY Numbers DEF ServerInv, ServerTypes, Ready
<1>a. [loops[l] EXCEPT !.pc = "events", !.active = Ready(l), !.wake = FALSE] \in LoopRecs
  BY <1>1, LoopFields DEF ServerInv, LoopRecs
<1>b. loops' = [loops EXCEPT ![l] = [loops[l] EXCEPT !.pc = "events", !.active = Ready(l), !.wake = FALSE]]
  BY <1>1 DEF ServerInv, ServerTypes
<1>2. loops' \in [Loops -> LoopRecs]
  <2> DEFINE r == [loops[l] EXCEPT !.pc = "events", !.active = Ready(l), !.wake = FALSE]
  <2>1. r \in LoopRecs /\ loops' = [loops EXCEPT ![l] = r] /\ ServerTypes
    BY <1>a, <1>b DEF ServerInv
  <2> HIDE DEF r, Poll
  <2> QED BY <2>1, LoopWith
<1>3. \A k \in Loops : /\ loops'[k].batch = loops[k].batch /\ loops'[k].at = loops[k].at
                       /\ loops'[k].pending = loops[k].pending /\ loops'[k].cur = loops[k].cur
                       /\ loops'[k].active = IF k = l THEN Ready(l) ELSE loops[k].active
                       /\ loops'[k].pc = IF k = l THEN "events" ELSE loops[k].pc
  BY DEF ServerInv, ServerTypes, LoopRecs
<1>4. \A id \in Conns : id \in Ready(l) => conns[id].state # "connecting"
  BY <1>1 DEF ServerInv, ConnsInv
<1>5. ServerTypes'
  BY <1>2 DEF ServerInv, ServerTypes, workerloops
<1>6. DueInv' /\ ConnsInv' /\ TakenDown'
  <2>1. UNCHANGED <<conns, nextId, owner>> /\ loops[l].pc # "ended"
    OBVIOUS
  <2> HIDE DEF Poll
  <2>2. \A k \in Loops :
             /\ loops'[k].batch = loops[k].batch /\ loops'[k].at = loops[k].at
             /\ loops'[k].pending = loops[k].pending
             /\ loops[k].pc = "ended" => loops'[k].pc = "ended"
             /\ \A id \in Conns : id \in loops'[k].active =>
                    id \in loops[k].active \/ conns[id].state # "connecting"
    BY <1>3, <1>4, <2>1
  <2> QED BY <2>1, <2>2, Quiet
<1>7. Holds'
  BY DEF ServerInv, Holds
<1>8. LoopsInv'
  <2>1. LoopsInv /\ threadNums' = threadNums /\ loops[l].pc = "poll"
    BY DEF ServerInv
  <2> HIDE DEF Poll
  <2> QED BY <1>3, <2>1 DEF LoopsInv
<1>9. OwnerInv'
  <2>1. loops[l].pc = "poll" /\ owner' = owner /\ threadNums' = threadNums /\ l \in Loops
    OBVIOUS
  <2>2. \A k \in Loops : /\ loops'[k].pc = loops[k].pc \/ (loops[k].pc = "poll" /\ loops'[k].pc = "events")
    BY <1>3, <2>1
  <2>3. OwnerInv /\ 0 \in Loops
    BY Numbers DEF ServerInv
  <2> HIDE DEF Poll
  <2> QED BY <2>1, <2>2, <2>3 DEF OwnerInv, Destroying
<1> QED BY <1>5, <1>6, <1>7, <1>8, <1>9 DEF ServerInv

LEMMA HandlerReturnsKeeps == ASSUME ServerInv, NEW l \in Loops, HandlerReturns(l) PROVE ServerInv'
<1> USE DEF HandlerReturns
<1>a. [loops[l] EXCEPT !.cur = none] \in LoopRecs
  BY LoopFields DEF ServerInv, LoopRecs
<1>2. loops' \in [Loops -> LoopRecs]
  BY <1>a, LoopWith DEF ServerInv
<1>3. \A k \in Loops : /\ loops'[k].batch = loops[k].batch /\ loops'[k].at = loops[k].at
                       /\ loops'[k].pending = loops[k].pending
                       /\ loops'[k].cur = IF k = l THEN none ELSE loops[k].cur
                       /\ loops'[k].active = loops[k].active /\ loops'[k].pc = loops[k].pc
  BY DEF ServerInv, ServerTypes, LoopRecs
<1>5. ServerTypes'
  BY <1>2 DEF ServerInv, ServerTypes, workerloops
<1>6. DueInv' /\ ConnsInv' /\ TakenDown'
  BY <1>3, Quiet
<1>7. Holds'
  BY DEF ServerInv, Holds
<1>8. LoopsInv'
  BY <1>3 DEF ServerInv, LoopsInv
<1>9. OwnerInv'
  BY <1>3, Numbers DEF ServerInv, OwnerInv, Destroying
<1> QED BY <1>5, <1>6, <1>7, <1>8, <1>9 DEF ServerInv

LEMMA AcceptFailsKeeps == ASSUME ServerInv, AcceptFails PROVE ServerInv'
<1> USE DEF AcceptFails
<1>1. 0 \in Loops
  BY Numbers DEF ServerInv
<1>a. [loops[0] EXCEPT !.active = @ \ {acceptorChannel}] \in LoopRecs
  <2>1. loops[0] \in LoopRecs
    BY <1>1, LoopFields DEF ServerInv
  <2> QED BY <2>1 DEF LoopRecs
<1>2. loops' \in [Loops -> LoopRecs]
  BY <1>a, <1>1, LoopWith DEF ServerInv
<1>3. \A l \in Loops : /\ loops'[l].batch = loops[l].batch /\ loops'[l].at = loops[l].at
                       /\ loops'[l].pending = loops[l].pending /\ loops'[l].cur = loops[l].cur
                       /\ loops'[l].active \subseteq loops[l].active /\ loops'[l].pc = loops[l].pc
  BY <1>1 DEF ServerInv, ServerTypes, LoopRecs
<1>4. idle' \in BOOLEAN
  <2> DEFINE room == (IF idle THEN openFds - 1 ELSE openFds) < MaxFds
  <2>1. EmFile.idle = room
    BY DEF EmFile
  <2>2. room \in BOOLEAN
    OBVIOUS
  <2> HIDE DEF room
  <2> QED BY <2>1, <2>2 DEF ServerInv, ServerTypes
<1>5. peers' \in [left : Nat, backlog : Nat]
  <2>1. EmFile.backlog \in {peers.backlog, peers.backlog - 1} /\ (EmFile.backlog = peers.backlog \/ peers.backlog > 0)
    BY DEF EmFile
  <2>2. EmFile.backlog \in Nat
    BY <2>1 DEF ServerInv, ServerTypes
  <2> QED BY <2>2 DEF ServerInv, ServerTypes
<1>b. nextId' + peers'.left + peers'.backlog <= MaxPeers + 1
  <2>1. EmFile.backlog \in Int /\ EmFile.backlog <= peers.backlog
    BY DEF EmFile, ServerInv, ServerTypes
  <2>2. peers'.left = peers.left /\ (peers'.backlog = EmFile.backlog \/ peers'.backlog = peers.backlog)
    BY DEF ServerInv, ServerTypes
  <2>3. nextId + peers.left + peers.backlog <= MaxPeers + 1 /\ peers.left \in Nat /\ peers.backlog \in Nat
        /\ nextId \in Nat /\ MaxPeers \in Nat /\ nextId' = nextId
    BY Numbers DEF ServerInv, ServerTypes
  <2> HIDE DEF AcceptFails
  <2> QED BY <2>1, <2>2, <2>3
<1>6. ServerTypes'
  BY <1>2, <1>4, <1>5, <1>b DEF ServerInv, ServerTypes, workerloops
<1>7. DueInv' /\ ConnsInv' /\ TakenDown'
  BY <1>3, Quiet
<1>8. LoopsInv' /\ Holds'
  BY <1>3 DEF ServerInv, LoopsInv, Holds
<1>9. OwnerInv'
  BY <1>1, <1>3 DEF ServerInv, OwnerInv, Destroying
<1> QED BY <1>6, <1>7, <1>8, <1>9 DEF ServerInv

-----------------------------------------------------------------------------
(* The destructor, but for RemoveOne                                        *)

LEMMA DestroyKeeps == ASSUME ServerInv, Destroy PROVE ServerInv'
<1> USE DEF Destroy
<1>1. /\ owner'.pc = "remove" /\ owner'.k = owner.k /\ owner'.todo = held
      /\ owner' \in OwnerRecs
  BY Numbers DEF ServerInv, ServerTypes, OwnerRecs
<1>2. ServerTypes'
  BY <1>1 DEF ServerInv, ServerTypes, workerloops
<1>3. DueInv' /\ ConnsInv'
  BY Quiet
<1>4. LoopsInv' /\ Holds'
  BY DEF ServerInv, LoopsInv, Holds
<1>5. OwnerInv'
  BY <1>1 DEF ServerInv, OwnerInv, Destroying
<1>6. TakenDown'
  BY <1>1 DEF ServerInv, Holds, TakenDown
<1> QED BY <1>2, <1>3, <1>4, <1>5, <1>6 DEF ServerInv

LEMMA DestroyMapKeeps == ASSUME ServerInv, DestroyMap PROVE ServerInv'
<1> USE DEF DestroyMap
<1>1. /\ owner'.pc = "quit" /\ owner'.k = owner.k /\ owner'.todo = {}
      /\ owner' \in OwnerRecs
  BY DEF ServerInv, ServerTypes, OwnerRecs
<1>2. ServerTypes'
  BY <1>1 DEF ServerInv, ServerTypes, workerloops
<1>3. DueInv' /\ ConnsInv' /\ \A l \in Loops : Due(l)' = Due(l)
  BY Quiet
<1>4. LoopsInv' /\ Holds'
  BY <1>1 DEF ServerInv, LoopsInv, Holds
<1>5. OwnerInv'
  BY <1>1, Numbers DEF ServerInv, OwnerInv, Destroying, Loops
<1>6. TakenDown'
  <2> SUFFICES ASSUME NEW id \in 1..(nextId - 1),
                      conns[id].state # "disconnected", loops[conns[id].loop].pc # "ended"
               PROVE  Leaving(id)'
    BY DEF TakenDown
  <2>1. Leaving(id) /\ id \in Conns
    BY Numbers DEF ServerInv, TakenDown, Destroying
  <2>2. conns[id].loop \in Loops
    BY <2>1, ConnFields DEF ServerInv
  <2> QED BY <1>3, <2>1, <2>2 DEF Leaving
<1> QED BY <1>2, <1>3, <1>4, <1>5, <1>6 DEF ServerInv

(* What TakenDown says after the map is destroyed.                          *)
LEMMA LeavingStays ==
  ASSUME ServerInv, owner.pc \in {"quit", "join"}, UNCHANGED <<conns, nextId>>,
         \A l \in Loops : loops[l].pc # "ended" => Due(l)' = Due(l),
         \A l \in Loops : loops[l].pc = "ended" => loops'[l].pc = "ended"
  PROVE  TakenDown'
<1> SUFFICES ASSUME NEW id \in 1..(nextId - 1),
                    conns[id].state # "disconnected", loops'[conns[id].loop].pc # "ended"
             PROVE  Leaving(id)'
  BY DEF TakenDown
<1>1. id \in Conns
  BY Numbers DEF ServerInv
<1>2. conns[id].loop \in Loops
  BY <1>1, ConnFields DEF ServerInv
<1>3. loops[conns[id].loop].pc # "ended"
  BY <1>2
<1>4. Leaving(id)
  BY <1>3 DEF ServerInv, TakenDown, Destroying
<1> QED BY <1>2, <1>3, <1>4 DEF Leaving

LEMMA QuitWorkerKeeps == ASSUME ServerInv, QuitWorker PROVE ServerInv'
<1> USE DEF QuitWorker
<1>1. owner.k \in Loops /\ owner.k \in Nat
  BY Numbers DEF ServerInv, Loops
<1>2. /\ owner'.pc = "join" /\ owner'.k = owner.k /\ owner'.todo = owner.todo
      /\ owner' \in OwnerRecs
  BY DEF ServerInv, ServerTypes, OwnerRecs
<1>3. /\ loops' \in [Loops -> LoopRecs]
      /\ \A l \in Loops : /\ loops'[l].batch = loops[l].batch /\ loops'[l].at = loops[l].at
                          /\ loops'[l].pending = loops[l].pending /\ loops'[l].cur = loops[l].cur
                          /\ loops'[l].active = loops[l].active /\ loops'[l].pc = loops[l].pc
  <2>1. CASE loops' = loops
    BY <2>1 DEF ServerInv, ServerTypes
  <2>2. CASE loops' = quitLoop(owner.k)
    <3> DEFINE r == [loops[owner.k] EXCEPT !.quit = TRUE, !.wake = TRUE]
    <3>1. loops[owner.k] \in LoopRecs
      BY <1>1, LoopFields DEF ServerInv
    <3>2. r \in LoopRecs
      BY <3>1 DEF LoopRecs
    <3>3. loops' = [loops EXCEPT ![owner.k] = r]
      BY <1>1, <2>2 DEF quitLoop, ServerInv, ServerTypes
    <3>4. loops' \in [Loops -> LoopRecs]
      <4> HIDE DEF r
      <4> QED BY <1>1, <3>2, <3>3, LoopWith DEF ServerInv
    <3>5. /\ r.batch = loops[owner.k].batch /\ r.at = loops[owner.k].at /\ r.pending = loops[owner.k].pending
          /\ r.cur = loops[owner.k].cur /\ r.active = loops[owner.k].active /\ r.pc = loops[owner.k].pc
      BY <3>1 DEF LoopRecs
    <3> HIDE DEF r
    <3>6. \A l \in Loops : loops'[l] = IF l = owner.k THEN r ELSE loops[l]
      BY <3>3 DEF ServerInv, ServerTypes
    <3> QED BY <3>4, <3>5, <3>6
  <2> QED BY <2>1, <2>2
<1>4. ServerTypes'
  BY <1>2, <1>3 DEF ServerInv, ServerTypes, workerloops
<1>5. DueInv' /\ ConnsInv' /\ \A l \in Loops : Due(l)' = Due(l)
  BY <1>3, Quiet
<1>6. LoopsInv' /\ Holds'
  BY <1>2, <1>3 DEF ServerInv, LoopsInv, Holds
<1>7. OwnerInv'
  BY <1>1, <1>2, <1>3, Numbers DEF ServerInv, OwnerInv, Destroying
<1>8. TakenDown'
  BY <1>3, <1>5, LeavingStays
<1> QED BY <1>4, <1>5, <1>6, <1>7, <1>8 DEF ServerInv

LEMMA JoinKeeps == ASSUME ServerInv, Join PROVE ServerInv'
<1> USE DEF Join
<1>0. owner.k + 1 \in Nat \ {0} /\ owner.k \in Nat
  BY Numbers DEF ServerInv
<1>1. /\ owner'.pc = "quit" /\ owner'.k = owner.k + 1 /\ owner'.todo = owner.todo
      /\ owner' \in OwnerRecs
  BY <1>0 DEF ServerInv, ServerTypes, OwnerRecs
<1>2. ServerTypes'
  BY <1>1 DEF ServerInv, ServerTypes, workerloops
<1>3. DueInv' /\ ConnsInv' /\ \A l \in Loops : Due(l)' = Due(l)
  BY Quiet
<1>4. LoopsInv' /\ Holds'
  BY <1>1 DEF ServerInv, LoopsInv, Holds
<1>5. OwnerInv'
  <2>1. ASSUME NEW l \in Loops, 0 < l, l < owner.k + 1 PROVE loops[l].pc = "ended"
    <3>1. l < owner.k \/ l = owner.k
      BY <1>0, <2>1 DEF Loops
    <3> QED BY <2>1, <3>1 DEF ServerInv, OwnerInv
  <2> QED BY <1>1, <2>1 DEF ServerInv, OwnerInv, Destroying
<1>6. TakenDown'
  BY <1>3, LeavingStays
<1> QED BY <1>2, <1>3, <1>4, <1>5, <1>6 DEF ServerInv

LEMMA DestroyAcceptorKeeps == ASSUME ServerInv, DestroyAcceptor PROVE ServerInv'
<1> USE DEF DestroyAcceptor
<1>0. 0 \in Loops /\ loops[0].pc = "ended" /\ loops[0].batch = <<>> /\ loops[0].cur = none
  BY Numbers DEF ServerInv, OwnerInv, Destroying, LoopsInv
<1>1. /\ owner'.pc = "gone" /\ owner'.k = owner.k /\ owner'.todo = owner.todo
      /\ owner' \in OwnerRecs
  BY DEF ServerInv, ServerTypes, OwnerRecs
<1>2. loops' \in [Loops -> LoopRecs]
  <2>1. <<>> \in Seq(Tasks)
    OBVIOUS
  <2>2. [loops[0] EXCEPT !.pending = <<>>] \in LoopRecs
    BY <1>0, <2>1, LoopFields DEF ServerInv, LoopRecs
  <2> QED BY <1>0, <2>2, LoopWith DEF ServerInv
<1>3. \A l \in Loops : /\ loops'[l].batch = loops[l].batch /\ loops'[l].at = loops[l].at
                       /\ l # 0 => loops'[l].pending = loops[l].pending
                       /\ l = 0 => loops'[l].pending = <<>>
                       /\ loops'[l].cur = loops[l].cur
                       /\ loops'[l].active = loops[l].active /\ loops'[l].pc = loops[l].pc
  BY <1>0 DEF ServerInv, ServerTypes, LoopRecs
<1>4. ServerTypes'
  BY <1>1, <1>2 DEF ServerInv, ServerTypes, workerloops
<1>5. \A l \in Loops : l # 0 => Due(l)' = Due(l)
  BY <1>3 DEF Due
<1>6. Due(0)' = <<>>
  <2>1. loops[0].at \in Nat \ {0} /\ <<>> \in Seq(Tasks) /\ Len(<<>>) = 0
    BY <1>0, LoopFields DEF ServerInv
  <2>2. loops[0].at > Len(<<>>)
    BY <2>1
  <2>3. Left(<<>>, loops[0].at, <<>>) = <<>>
    BY <2>1, <2>2, LeftAll
  <2> QED BY <1>0, <1>3, <2>3 DEF Due
<1>7. DueInv'
  <2>1. DueOK(0, <<>>, conns, nextId)
    BY DEF DueOK
  <2> QED BY <1>5, <1>6, <2>1 DEF ServerInv, DueInv
<1>8. LoopsInv'
  <2> SUFFICES ASSUME NEW l \in Loops
               PROVE  /\ loops[l].pc # "tasks" => loops[l].batch = <<>>
                      /\ loops[l].cur # none => /\ loops[l].pc = "events"
                                                /\ Has(loops'[l].pending, "tie", loops[l].cur)
                      /\ l > threadNums => loops[l].pc = "off"
    BY <1>3 DEF LoopsInv
  <2>1. /\ loops[l].pc # "tasks" => loops[l].batch = <<>>
        /\ loops[l].cur # none => loops[l].pc = "events" /\ Has(loops[l].pending, "tie", loops[l].cur)
        /\ l > threadNums => loops[l].pc = "off"
    BY DEF ServerInv, LoopsInv
  <2> QED BY <1>0, <1>3, <2>1
<1>9. OwnerInv'
  <2>1. ASSUME NEW l \in Loops PROVE loops[l].pc \in {"off", "ended"}
    <3>1. l = 0 \/ (0 < l /\ l < owner.k) \/ l > threadNums
      BY Numbers DEF ServerInv, Loops
    <3> QED BY <1>0, <3>1 DEF ServerInv, OwnerInv, LoopsInv
  <2> QED BY <1>0, <1>1, <1>3, <2>1 DEF OwnerInv, Destroying
<1>10. ConnsInv'
  BY <1>3 DEF ServerInv, ConnsInv
<1>11. Holds'
  BY <1>1 DEF Holds
<1>12. TakenDown'
  BY <1>0, <1>3, <1>5, LeavingStays
<1> QED BY <1>4, <1>7, <1>8, <1>9, <1>10, <1>11, <1>12 DEF ServerInv

-----------------------------------------------------------------------------
(* A loop and its tasks                                                     *)

LEMMA DoPendingTasksKeeps == ASSUME ServerInv, NEW l \in Loops, DoPendingTasks(l) PROVE ServerInv'
<1> USE DEF DoPendingTasks
<1>1. loops[l].batch = <<>> /\ loops[l].pending \in Seq(Tasks) /\ loops[l].at \in Nat \ {0} /\ <<>> \in Seq(Tasks)
  BY LoopFields DEF ServerInv, LoopsInv
<1> DEFINE r == [loops[l] EXCEPT !.pc = "tasks", !.batch = loops[l].pending, !.at = 1, !.pending = <<>>]
<1>2. loops[l] \in LoopRecs
  BY LoopFields DEF ServerInv
<1>3. r \in LoopRecs
  <2> DEFINE q == loops[l].pending
             e == loops[l]
  <2>1. q \in Seq(Tasks) /\ e \in LoopRecs /\ 1 \in Nat \ {0} /\ <<>> \in Seq(Tasks)
    BY <1>1, <1>2
  <2>2. r = [e EXCEPT !.pc = "tasks", !.batch = q, !.at = 1, !.pending = <<>>]
    OBVIOUS
  <2> HIDE DEF q, e, r, DoPendingTasks
  <2>3. [e EXCEPT !.pc = "tasks", !.batch = q, !.at = 1, !.pending = <<>>] \in LoopRecs
    BY <2>1 DEF LoopRecs
  <2> QED BY <2>2, <2>3
<1>4. /\ r.pc = "tasks" /\ r.batch = loops[l].pending /\ r.at = 1 /\ r.pending = <<>>
      /\ r.active = loops[l].active /\ r.cur = none
  BY <1>2 DEF LoopRecs
<1>5. loops' = [loops EXCEPT ![l] = r]
  BY DEF ServerInv, ServerTypes
<1> HIDE DEF r
<1>6. loops' \in [Loops -> LoopRecs] /\ \A k \in Loops : loops'[k] = IF k = l THEN r ELSE loops[k]
  <2> HIDE DEF DoPendingTasks
  <2> QED BY <1>3, <1>5, LoopSet DEF ServerInv
<1>7. \A k \in Loops : Due(k)' = Due(k)
  <2>1. Left(loops[l].pending, 1, <<>>) = Left(<<>>, loops[l].at, loops[l].pending)
    BY <1>1, LeftSwap
  <2>2. Due(l)' = Due(l)
    BY <1>1, <1>4, <1>6, <2>1 DEF Due
  <2>3. ASSUME NEW k \in Loops, k # l PROVE Due(k)' = Due(k)
    BY <1>6, <2>3 DEF Due
  <2> QED BY <2>2, <2>3
<1>8. ServerTypes'
  BY <1>6 DEF ServerInv, ServerTypes, workerloops
<1>9. DueInv' /\ ConnsInv' /\ TakenDown'
  <2>1. \A k \in Loops : /\ loops[k].pc = "ended" => loops'[k].pc = "ended"
                         /\ loops'[k].active = loops[k].active
    BY <1>4, <1>6
  <2> QED BY <1>7, <2>1, QueuesSame
<1>10. Holds'
  BY DEF ServerInv, Holds
<1>11. LoopsInv'
  BY <1>4, <1>6 DEF ServerInv, LoopsInv
<1>12. OwnerInv'
  BY <1>4, <1>6, Numbers DEF ServerInv, OwnerInv, Destroying
<1> QED BY <1>8, <1>9, <1>10, <1>11, <1>12 DEF ServerInv

LEMMA EndTasksKeeps == ASSUME ServerInv, NEW l \in Loops, EndTasks(l) PROVE ServerInv'
<1> USE DEF EndTasks
<1> DEFINE quits == loops[l].quit
           p == IF quits /\ l # 0 THEN <<>> ELSE loops[l].pending
           c == IF quits THEN "ended" ELSE "poll"
           r == [loops[l] EXCEPT !.pc = c, !.batch = <<>>, !.pending = p]
<1>1. /\ loops[l].batch \in Seq(Tasks) /\ loops[l].pending \in Seq(Tasks) /\ loops[l].at \in Nat \ {0}
      /\ loops[l] \in LoopRecs /\ <<>> \in Seq(Tasks) /\ loops[l].cur = none /\ loops[l].pc = "tasks"
  BY LoopFields DEF ServerInv, LoopsInv
<1>2. c \in {"ended", "poll"} /\ p \in Seq(Tasks) /\ (quits => c = "ended") /\ (p = loops[l].pending \/ (c = "ended" /\ p = <<>>))
  BY <1>1
<1>3. loops' = [loops EXCEPT ![l] = r]
  BY DEF ServerInv, ServerTypes
<1> HIDE DEF p, c, quits
<1>4. r \in LoopRecs
  BY <1>1, <1>2 DEF LoopRecs
<1>5. /\ r.pc = c /\ r.batch = <<>> /\ r.at = loops[l].at /\ r.pending = p
      /\ r.active = loops[l].active /\ r.cur = none
  BY <1>1 DEF LoopRecs
<1> HIDE DEF r
<1>6. loops' \in [Loops -> LoopRecs] /\ \A k \in Loops : loops'[k] = IF k = l THEN r ELSE loops[k]
  <2> HIDE DEF EndTasks
  <2> QED BY <1>3, <1>4, LoopSet DEF ServerInv
<1>7. \A k \in Loops : k # l => Due(k)' = Due(k)
  BY <1>6 DEF Due
<1>8. Due(l)' = Due(l) \/ (c = "ended" /\ Due(l)' = <<>>)
  <2>1. Due(l) = loops[l].pending
    BY <1>1, LeftAll DEF Due
  <2>2. loops[l].at > Len(<<>>)
    BY <1>1, LenProperties
  <2>3. Left(<<>>, loops[l].at, p) = p
    BY <1>1, <1>2, <2>2, LeftAll
  <2>4. Due(l)' = p
    BY <1>5, <1>6, <2>3 DEF Due
  <2> QED BY <1>2, <2>1, <2>4
<1>9. ServerTypes'
  BY <1>6 DEF ServerInv, ServerTypes, workerloops
<1>10. DueInv'
  <2>1. DueOK(l, <<>>, conns, nextId)
    BY DEF DueOK
  <2>2. DueOK(l, Due(l)', conns, nextId)
    BY <1>8, <2>1 DEF ServerInv, DueInv
  <2> QED BY <1>7, <2>2 DEF ServerInv, DueInv
<1>11. ConnsInv'
  BY <1>5, <1>6 DEF ServerInv, ConnsInv
<1>12. Holds'
  BY DEF ServerInv, Holds
<1>13. LoopsInv'
  BY <1>1, <1>5, <1>6 DEF ServerInv, LoopsInv
<1>14. OwnerInv'
  BY <1>1, <1>2, <1>5, <1>6, Numbers DEF ServerInv, OwnerInv, Destroying
<1>15. TakenDown'
  <2> SUFFICES ASSUME Destroying, NEW id \in 1..(nextId - 1),
                      conns[id].state # "disconnected", loops'[conns[id].loop].pc # "ended"
               PROVE  (owner.pc = "remove" /\ id \in owner.todo) \/ Leaving(id)'
    BY DEF TakenDown, Destroying
  <2>1. id \in Conns
    BY Numbers DEF ServerInv
  <2>2. conns[id].loop \in Loops
    BY <2>1, ConnFields DEF ServerInv
  <2>3. loops[conns[id].loop].pc # "ended" /\ (conns[id].loop = l => c # "ended")
    BY <1>1, <1>5, <1>6, <2>2
  <2>4. (owner.pc = "remove" /\ id \in owner.todo) \/ Leaving(id)
    BY <2>3 DEF ServerInv, TakenDown
  <2>5. Due(conns[id].loop)' = Due(conns[id].loop)
    BY <1>7, <1>8, <2>2, <2>3
  <2> QED BY <2>4, <2>5 DEF Leaving
<1> QED BY <1>9, <1>10, <1>11, <1>12, <1>13, <1>14, <1>15 DEF ServerInv

(* A connection's state moves, and what is queued stays right.              *)
MovesOn(cs, cs2, n, d) ==
    \A id \in Conns : id < n =>
        /\ cs2[id].loop = cs[id].loop
        /\ cs[id].state = "disconnected" => cs2[id].state = "disconnected"
        /\ \/ cs2[id].state = cs[id].state
           \/ cs[id].state # "connecting"
           \/ ~Has(d, "onConnection", id)

LEMMA StateMoves ==
  ASSUME NEW cs, NEW cs2, NEW n \in Int, NEW n2 \in Int, NEW l, NEW d,
         DueOK(l, d, cs, n), n <= n2, MovesOn(cs, cs2, n, d)
  PROVE  DueOK(l, d, cs2, n2)
<1>1. ASSUME NEW i \in DOMAIN d
      PROVE  /\ d[i].id \in Int
             /\ cs2[d[i].id].loop = cs[d[i].id].loop
             /\ d[i].op = "onConnection" => cs2[d[i].id].state = "connecting"
             /\ d[i].op = "remove" => cs2[d[i].id].state = "disconnected"
  <2>1. /\ d[i] \in Tasks /\ d[i].id < n
        /\ d[i].op = "onConnection" => cs[d[i].id].state = "connecting"
        /\ d[i].op = "remove" => cs[d[i].id].state = "disconnected"
    BY DEF DueOK
  <2>2. d[i].id \in Conns /\ d[i].id \in Int
    BY <2>1, TaskFields
  <2>3. d[i].op = "onConnection" => Has(d, "onConnection", d[i].id)
    BY DEF Has
  <2>4. /\ cs2[d[i].id].loop = cs[d[i].id].loop
        /\ cs[d[i].id].state = "disconnected" => cs2[d[i].id].state = "disconnected"
        /\ \/ cs2[d[i].id].state = cs[d[i].id].state
           \/ cs[d[i].id].state # "connecting"
           \/ ~Has(d, "onConnection", d[i].id)
    BY <2>1, <2>2 DEF MovesOn
  <2> QED BY <2>1, <2>2, <2>3, <2>4
<1> QED BY <1>1, QueueKept

(* A task changes the state of its connection only ...                      *)
Current(l) == loops[l].batch[loops[l].at]

LEMMA TaskMoves ==
  ASSUME ServerInv, NEW l \in Loops, RunTask(l)
  PROVE  /\ Current(l) \in Tasks /\ Current(l).id \in 1..(nextId - 1) /\ Current(l).id \in Conns
         /\ Due(l) = Before(Current(l), Due(l)') /\ Due(l)' \in Seq(Tasks)
         /\ \A k \in Loops : k # l => Due(k)' = Due(k)
         /\ Current(l).op = "onConnection" => l = conns[Current(l).id].loop /\ conns[Current(l).id].state = "connecting" /\ conns' = Opened(Current(l).id)
         /\ Current(l).op = "removeItself" => l = conns[Current(l).id].loop /\ conns' = Removed(Current(l).id)
         /\ Current(l).op \notin {"onConnection", "removeItself"} => conns' = conns
         /\ Current(l).op = "remove" => conns[Current(l).id].state = "disconnected" /\ held' = held \ {Current(l).id}
         /\ Current(l).op # "remove" => held' = held
         /\ Current(l).op \in {"onConnection", "removeItself"} => ~Has(Due(l)', "onConnection", Current(l).id)
         /\ \A op, id : Has(Due(l), op, id) => Has(Due(l)', op, id) \/ (Current(l).op = op /\ Current(l).id = id)
         /\ loops' \in [Loops -> LoopRecs]
         /\ \A k \in Loops : /\ loops'[k].batch = loops[k].batch /\ loops'[k].pending = loops[k].pending
                             /\ loops'[k].cur = loops[k].cur /\ loops'[k].active = loops[k].active
                             /\ loops'[k].pc = loops[k].pc
<1> DEFINE t == Current(l)
<1> HIDE DEF t
<1> USE DEF RunTask
<1>1. /\ loops[l].batch \in Seq(Tasks) /\ loops[l].pending \in Seq(Tasks) /\ loops[l].at \in Nat \ {0}
      /\ loops[l] \in LoopRecs /\ loops[l].at <= Len(loops[l].batch) /\ loops[l].at + 1 \in Nat \ {0}
  BY LoopFields DEF ServerInv
<1>2. /\ loops' \in [Loops -> LoopRecs]
      /\ \A k \in Loops : /\ loops'[k].batch = loops[k].batch /\ loops'[k].pending = loops[k].pending
                          /\ loops'[k].cur = loops[k].cur /\ loops'[k].active = loops[k].active
                          /\ loops'[k].pc = loops[k].pc
                          /\ loops'[k].at = IF k = l THEN loops[l].at + 1 ELSE loops[k].at
  <2> DEFINE r == [loops[l] EXCEPT !.at = @ + 1]
  <2>1. r \in LoopRecs
    BY <1>1 DEF LoopRecs
  <2>2. loops' = [loops EXCEPT ![l] = r]
    BY DEF ServerInv, ServerTypes
  <2>3. /\ r.batch = loops[l].batch /\ r.at = loops[l].at + 1 /\ r.pending = loops[l].pending
        /\ r.cur = loops[l].cur /\ r.active = loops[l].active /\ r.pc = loops[l].pc
    BY <1>1 DEF LoopRecs
  <2> HIDE DEF r, RunTask
  <2>4. loops' \in [Loops -> LoopRecs] /\ \A k \in Loops : loops'[k] = IF k = l THEN r ELSE loops[k]
    BY <2>1, <2>2, LoopWith DEF ServerInv, ServerTypes
  <2> QED BY <2>3, <2>4
<1>3. \A k \in Loops : k # l => Due(k)' = Due(k)
  BY <1>2 DEF Due
<1>4. Due(l)' = Left(loops[l].batch, loops[l].at + 1, loops[l].pending)
  BY <1>2 DEF Due
<1>5. t \in Tasks /\ Due(l) = Before(t, Due(l)') /\ Due(l)' \in Seq(Tasks)
  <2> DEFINE b == loops[l].batch
             a == loops[l].at
             p == loops[l].pending
             u == Left(b, a + 1, p)
  <2>1. /\ b \in Seq(Tasks) /\ a \in Nat \ {0} /\ p \in Seq(Tasks) /\ a <= Len(b) /\ a + 1 \in Nat \ {0}
        /\ t = b[a] /\ Due(l)' = u /\ Due(l) = Left(b, a, p)
    BY <1>1, <1>4 DEF Due, t, Current
  <2> HIDE DEF b, a, p, RunTask
  <2>2. Left(b, a, p) = <<b[a]>> \o Left(b, a + 1, p) /\ b[a] \in Tasks
    BY <2>1, LeftNext
  <2>3. Left(b, a + 1, p) \in Seq(Tasks)
    BY <2>1, LeftType
  <2> QED BY <2>1, <2>2, <2>3 DEF Before
<1>6. DueOK(l, Due(l), conns, nextId)
  BY DEF ServerInv, DueInv
<1> HIDE DEF RunTask
<1>7. /\ t.id < nextId
      /\ t.op = "onConnection" =>
            l = conns[t.id].loop /\ conns[t.id].state = "connecting" /\ ~Has(Due(l)', "onConnection", t.id)
      /\ t.op = "removeItself" => l = conns[t.id].loop /\ ~Has(Due(l)', "onConnection", t.id)
      /\ t.op = "remove" => conns[t.id].state = "disconnected"
      /\ \A op, id : Has(Due(l), op, id) => Has(Due(l)', op, id) \/ (t.op = op /\ t.id = id)
  <2> DEFINE d == Due(l)
             q == Due(l)'
  <2>1. t \in Tasks /\ q \in Seq(Tasks) /\ DueOK(l, Before(t, q), conns, nextId) /\ d = Before(t, q)
    BY <1>5, <1>6
  <2> HIDE DEF d, q
  <2>2. /\ t.id < nextId
        /\ t.op = "onConnection" =>
              l = conns[t.id].loop /\ conns[t.id].state = "connecting" /\ ~Has(q, "onConnection", t.id)
        /\ t.op = "removeItself" => l = conns[t.id].loop /\ ~Has(q, "onConnection", t.id)
        /\ t.op = "remove" => conns[t.id].state = "disconnected"
        /\ \A op, id : Has(Before(t, q), op, id) => Has(q, op, id) \/ (t.op = op /\ t.id = id)
    BY <2>1, QueueRun
  <2> QED BY <2>1, <2>2 DEF d, q
<1>8. t.id \in Conns /\ t.id \in 1..(nextId - 1) /\ t.op \in {"onConnection", "removeItself", "tie", "remove"}
  BY <1>5, <1>7, TaskFields, Numbers DEF ServerInv
<1>9. /\ conns' = CASE t.op = "onConnection" -> Opened(t.id)
                    [] t.op = "removeItself" -> Removed(t.id)
                    [] OTHER -> conns
      /\ held' = IF t.op = "remove" THEN removeConnectionInLoop(t.id) ELSE held
  BY DEF RunTask, t, Current
<1>10. /\ t.op = "onConnection" => conns' = Opened(t.id)
       /\ t.op = "removeItself" => conns' = Removed(t.id)
       /\ t.op \notin {"onConnection", "removeItself"} => conns' = conns
       /\ t.op = "remove" => held' = held \ {t.id}
       /\ t.op # "remove" => held' = held
  BY <1>9 DEF removeConnectionInLoop
<1> QED BY <1>2, <1>3, <1>5, <1>7, <1>8, <1>10 DEF t

(* ... where the change is legal.                                           *)
LEMMA MovedConns ==
  ASSUME ServerInv, NEW id \in Conns
  PROVE  /\ Opened(id) \in [Conns -> ConnRecs] /\ Removed(id) \in [Conns -> ConnRecs]
         /\ Opened(id)[id].state = "connected" /\ Opened(id)[id].watched
         /\ Removed(id)[id].state = "disconnected" /\ ~Removed(id)[id].watched
         /\ \A k \in Conns : /\ Opened(id)[k].loop = conns[k].loop /\ Removed(id)[k].loop = conns[k].loop
                             /\ k # id => Opened(id)[k] = conns[k] /\ Removed(id)[k] = conns[k]
<1>1. conns \in [Conns -> ConnRecs] /\ conns[id] \in ConnRecs
  BY DEF ServerInv, ServerTypes
<1> DEFINE o == [conns[id] EXCEPT !.state = "connected", !.watched = TRUE]
           r == [conns[id] EXCEPT !.state = "disconnected", !.watched = FALSE]
<1>2. Opened(id) = [conns EXCEPT ![id] = o] /\ Removed(id) = [conns EXCEPT ![id] = r]
  BY <1>1 DEF Opened, Removed
<1>3. /\ o \in ConnRecs /\ o.state = "connected" /\ o.watched /\ o.loop = conns[id].loop
      /\ r \in ConnRecs /\ r.state = "disconnected" /\ ~r.watched /\ r.loop = conns[id].loop
  BY <1>1 DEF ConnRecs
<1> HIDE DEF o, r
<1> QED BY <1>1, <1>2, <1>3

LEMMA RunTaskKeeps == ASSUME ServerInv, NEW l \in Loops, RunTask(l) PROVE ServerInv'
<1> DEFINE t == Current(l)
<1> HIDE DEF t
<1>1. /\ t \in Tasks /\ t.id \in 1..(nextId - 1) /\ t.id \in Conns /\ t.id \in Int /\ t.id < nextId
      /\ \A k \in Loops : k # l => Due(k)' = Due(k)
      /\ t.op = "onConnection" => l = conns[t.id].loop /\ conns[t.id].state = "connecting" /\ conns' = Opened(t.id)
      /\ t.op = "removeItself" => l = conns[t.id].loop /\ conns' = Removed(t.id)
      /\ t.op \notin {"onConnection", "removeItself"} => conns' = conns
      /\ t.op = "remove" => conns[t.id].state = "disconnected" /\ held' = held \ {t.id}
      /\ t.op # "remove" => held' = held
      /\ t.op \in {"onConnection", "removeItself"} => ~Has(Due(l)', "onConnection", t.id)
  BY TaskMoves, Numbers, TaskFields DEF t, ServerInv
<1>2. /\ loops' \in [Loops -> LoopRecs]
      /\ \A k \in Loops : /\ loops'[k].batch = loops[k].batch /\ loops'[k].pending = loops[k].pending
                          /\ loops'[k].cur = loops[k].cur /\ loops'[k].active = loops[k].active
                          /\ loops'[k].pc = loops[k].pc
  BY TaskMoves
<1>3. \A op, id : Has(Due(l), op, id) => Has(Due(l)', op, id) \/ (t.op = op /\ t.id = id)
  BY TaskMoves DEF t
<1>4. UNCHANGED <<threadNums, owner, nextId, nextIndex, idle, peers, eof>>
  BY DEF RunTask
<1>5. /\ conns' \in [Conns -> ConnRecs]
      /\ \A id \in Conns :
             /\ conns'[id].loop = conns[id].loop
             /\ id # t.id => conns'[id] = conns[id]
             /\ conns'[id].watched => conns'[id].state = "connected"
             /\ conns[id].state # "connecting" => conns'[id].state # "connecting"
             /\ conns'[id].state # "disconnected" => conns[id].state # "disconnected" \/ t.op = "onConnection"
      /\ t.op = "removeItself" => conns'[t.id].state = "disconnected"
      /\ t.op = "onConnection" => conns'[t.id].state = "connected"
  <2>0. conns \in [Conns -> ConnRecs] /\ \A id \in Conns : conns[id].watched => conns[id].state = "connected"
    BY DEF ServerInv, ServerTypes, ConnsInv
  <2>1. CASE t.op = "onConnection"
    <3>1. conns' = Opened(t.id)
      BY <1>1, <2>1
    <3> QED BY <1>1, <2>0, <2>1, <3>1, MovedConns
  <2>2. CASE t.op = "removeItself"
    <3>1. conns' = Removed(t.id)
      BY <1>1, <2>2
    <3> QED BY <1>1, <2>0, <2>2, <3>1, MovedConns
  <2>3. CASE t.op \notin {"onConnection", "removeItself"}
    <3>1. conns' = conns
      BY <1>1, <2>3
    <3> QED BY <2>0, <2>3, <3>1
  <2> QED BY <2>1, <2>2, <2>3
<1>6. ServerTypes'
  <2>1. held' \subseteq held
    BY <1>1
  <2> QED BY <1>2, <1>4, <1>5, <2>1 DEF ServerInv, ServerTypes, workerloops
<1>7. DueInv'
  <2> SUFFICES ASSUME NEW k \in Loops PROVE DueOK(k, Due(k)', conns', nextId)
    BY <1>4 DEF DueInv
  <2> DEFINE d == Due(k)'
  <2>1. DueOK(k, d, conns, nextId)
    <3>1. CASE k # l
      BY <1>1, <3>1 DEF ServerInv, DueInv
    <3>2. CASE k = l
      <4>1. /\ t \in Tasks /\ Due(l)' \in Seq(Tasks) /\ Due(l) = Before(t, Due(l)')
        BY TaskMoves DEF t
      <4>2. DueOK(l, Before(t, Due(l)'), conns, nextId)
        BY <4>1 DEF ServerInv, DueInv
      <4> DEFINE q == Due(l)'
      <4>3. q \in Seq(Tasks) /\ DueOK(l, Before(t, q), conns, nextId)
        BY <4>1, <4>2
      <4> HIDE DEF q, d
      <4>4. DueOK(l, q, conns, nextId)
        BY <4>1, <4>3, QueueRun
      <4> QED BY <3>2, <4>4 DEF q, d
    <3> QED BY <3>1, <3>2
  <2>2. t.op \in {"onConnection", "removeItself"} => conns[t.id].state # "connecting" \/ ~Has(d, "onConnection", t.id)
    <3> SUFFICES ASSUME t.op \in {"onConnection", "removeItself"}, k # l, Has(d, "onConnection", t.id) PROVE FALSE
      BY <1>1
    <3>1. PICK i \in DOMAIN d : d[i].op = "onConnection" /\ d[i].id = t.id
      BY DEF Has
    <3>2. k = conns[t.id].loop
      BY <2>1, <3>1 DEF DueOK
    <3> QED BY <1>1, <3>2
  <2>3. \A id \in Conns : id < nextId =>
             /\ conns'[id].loop = conns[id].loop
             /\ conns[id].state = "disconnected" => conns'[id].state = "disconnected"
             /\ \/ conns'[id].state = conns[id].state
                \/ conns[id].state # "connecting"
                \/ ~Has(d, "onConnection", id)
    <3> SUFFICES ASSUME NEW id \in Conns
                 PROVE  /\ conns'[id].loop = conns[id].loop
                        /\ conns[id].state = "disconnected" => conns'[id].state = "disconnected"
                        /\ \/ conns'[id].state = conns[id].state
                           \/ conns[id].state # "connecting"
                           \/ ~Has(d, "onConnection", id)
      OBVIOUS
    <3>1. CASE id # t.id
      BY <1>5, <3>1
    <3>2. CASE id = t.id /\ t.op \in {"onConnection", "removeItself"}
      <4>1. conns[t.id].state = "disconnected" => conns'[t.id].state = "disconnected"
        BY <1>1, <1>5, <3>2
      <4> QED BY <1>5, <2>2, <3>2, <4>1
    <3>3. CASE t.op \notin {"onConnection", "removeItself"}
      BY <1>1, <3>3
    <3> QED BY <3>1, <3>2, <3>3
  <2>4. nextId \in Int
    BY Numbers DEF ServerInv
  <2> HIDE DEF d
  <2>5. DueOK(k, d, conns', nextId)
    <3>1. MovesOn(conns, conns', nextId, d) /\ nextId <= nextId
      BY <2>3, <2>4 DEF MovesOn
    <3> QED BY <2>1, <2>4, <3>1, StateMoves, Zenon
  <2> QED BY <2>5 DEF d
<1>8. ConnsInv'
  <2> SUFFICES ASSUME NEW id \in Conns
               PROVE  /\ id >= nextId => conns'[id].state = "connecting"
                      /\ (id < nextId /\ conns'[id].loop = 0) => conns'[id].state # "connecting"
                      /\ conns'[id].watched => conns'[id].state = "connected"
                      /\ \A k \in Loops : id \in loops'[k].active => conns'[id].state # "connecting"
    BY <1>4 DEF ConnsInv
  <2>1. /\ id >= nextId => conns[id].state = "connecting"
        /\ (id < nextId /\ conns[id].loop = 0) => conns[id].state # "connecting"
        /\ \A k \in Loops : id \in loops[k].active => conns[id].state # "connecting"
    BY DEF ServerInv, ConnsInv
  <2>2. id >= nextId => id # t.id
    BY <1>1, Numbers DEF ServerInv
  <2> QED BY <1>2, <1>5, <2>1, <2>2
<1>9. Holds'
  <2> SUFFICES ASSUME owner.pc \notin {"quit", "join", "gone"}, NEW id \in 1..(nextId - 1), conns'[id].state # "disconnected"
               PROVE  id \in held'
    BY <1>4 DEF Holds
  <2>1. id \in Conns
    BY Numbers DEF ServerInv
  <2>2. conns[id].state # "disconnected"
    BY <1>1, <1>5, <2>1
  <2>3. id \in held
    BY <2>2 DEF ServerInv, Holds
  <2>4. t.op = "remove" => id # t.id
    BY <1>1, <2>2
  <2> QED BY <1>1, <2>3, <2>4
<1>10. LoopsInv'
  BY <1>2, <1>4 DEF ServerInv, LoopsInv
<1>11. OwnerInv'
  BY <1>2, <1>4, Numbers DEF ServerInv, OwnerInv, Destroying
<1>12. TakenDown'
  <2> SUFFICES ASSUME Destroying, NEW id \in 1..(nextId - 1),
                      conns'[id].state # "disconnected", loops'[conns'[id].loop].pc # "ended"
               PROVE  (owner.pc = "remove" /\ id \in owner.todo) \/ Leaving(id)'
    BY <1>4 DEF TakenDown, Destroying
  <2>1. id \in Conns
    BY Numbers DEF ServerInv
  <2>2. conns[id].state # "disconnected" /\ conns'[id].loop = conns[id].loop
    BY <1>1, <1>5, <2>1
  <2>3. conns[id].loop \in Loops
    BY <2>1, ConnFields DEF ServerInv
  <2>4. loops[conns[id].loop].pc # "ended"
    BY <1>2, <2>2, <2>3
  <2>5. (owner.pc = "remove" /\ id \in owner.todo) \/ Leaving(id)
    BY <2>2, <2>4 DEF ServerInv, TakenDown
  <2>6. ASSUME Leaving(id) PROVE Leaving(id)'
    <3>1. CASE conns[id].loop # l
      BY <1>1, <2>2, <2>3, <2>6, <3>1 DEF Leaving
    <3>2. CASE conns[id].loop = l
      <4>1. ~(t.op = "removeItself" /\ t.id = id)
        BY <1>5
      <4>2. Has(Due(l), "removeItself", id)
        BY <2>6, <3>2 DEF Leaving
      <4>3. Has(Due(l)', "removeItself", id)
        BY <1>3, <4>1, <4>2
      <4> QED BY <2>2, <3>2, <4>3 DEF Leaving
    <3> QED BY <3>1, <3>2
  <2> QED BY <2>5, <2>6
<1> QED BY <1>6, <1>7, <1>8, <1>9, <1>10, <1>11, <1>12 DEF ServerInv

-----------------------------------------------------------------------------
(* Steps that queue a task                                                  *)

DueIn(ls, l) == Left(ls[l].batch, ls[l].at, ls[l].pending)

LEMMA DueOfLoops ==
  \A l \in Loops : Due(l) = DueIn(loops, l) /\ Due(l)' = DueIn(loops', l)
BY DEF Due, DueIn

LEMMA HasGrows ==
  ASSUME NEW d \in Seq(Tasks), NEW t \in Tasks
  PROVE  /\ Has(Append(d, t), t.op, t.id)
         /\ \A op, id : Has(d, op, id) => Has(Append(d, t), op, id)
<1> DEFINE e == Append(d, t)
           m == Len(d)
<1>1. /\ e \in Seq(Tasks) /\ m \in Nat /\ DOMAIN d = 1..m /\ DOMAIN e = 1..(m + 1)
      /\ \A i \in 1..m : e[i] = d[i]
      /\ e[m + 1] = t
  BY AppendProperties, LenProperties
<1> HIDE DEF e, m
<1>2. m + 1 \in DOMAIN e /\ \A i \in DOMAIN d : i \in DOMAIN e /\ e[i] = d[i]
  BY <1>1
<1>3. Has(e, t.op, t.id) /\ \A op, id : Has(d, op, id) => Has(e, op, id)
  BY <1>1, <1>2 DEF Has
<1> QED BY <1>3 DEF e

(* What queueInLoop leaves alone in the loops, and what it adds for l.       *)
SameShape(ls, q) ==
    /\ q \in [Loops -> LoopRecs]
    /\ \A k \in Loops : /\ q[k].pc = ls[k].pc /\ q[k].active = ls[k].active
                        /\ q[k].cur = ls[k].cur /\ q[k].batch = ls[k].batch

Receives(ls, q, l, t) ==
    /\ DueIn(ls, l) \in Seq(Tasks)
    /\ DueIn(q, l) = Append(DueIn(ls, l), t)
    /\ \A k \in Loops : k # l => DueIn(q, k) = DueIn(ls, k)
    /\ \A k \in Loops : \A op, id : Has(DueIn(ls, k), op, id) => Has(DueIn(q, k), op, id)
    /\ \A k \in Loops : \A op, id : Has(ls[k].pending, op, id) => Has(q[k].pending, op, id)
    /\ Has(DueIn(q, l), t.op, t.id)
    /\ Has(q[l].pending, t.op, t.id)

LEMMA QueueShape ==
  ASSUME NEW ls \in [Loops -> LoopRecs], NEW l \in Loops, NEW t \in Tasks, NEW self \in BOOLEAN
  PROVE  SameShape(ls, Queue(ls, l, t, self))
BY QueueFields DEF SameShape

LEMMA QueueDue ==
  ASSUME NEW ls \in [Loops -> LoopRecs], NEW l \in Loops, NEW t \in Tasks, NEW self \in BOOLEAN
  PROVE  Receives(ls, Queue(ls, l, t, self), l, t)
<1> DEFINE q == Queue(ls, l, t, self)
           b == ls[l].batch
           a == ls[l].at
           p == ls[l].pending
           d == Left(b, a, p)
<1>1. b \in Seq(Tasks) /\ a \in Nat \ {0} /\ p \in Seq(Tasks)
  BY DEF LoopRecs
<1>2. /\ q[l].batch = b /\ q[l].at = a /\ q[l].pending = Append(p, t)
      /\ \A k \in Loops : k # l => q[k] = ls[k]
  BY QueueFields
<1> HIDE DEF q, b, a, p
<1>3. d \in Seq(Tasks)
  BY <1>1, LeftType
<1>4. Left(b, a, Append(p, t)) = Append(d, t)
  BY <1>1, LeftAppend
<1> HIDE DEF d
<1>5. DueIn(ls, l) = d /\ DueIn(q, l) = Append(d, t)
  BY <1>2, <1>4 DEF DueIn, d, b, a, p
<1>6. \A k \in Loops : k # l => DueIn(q, k) = DueIn(ls, k)
  BY <1>2 DEF DueIn
<1>7. Has(Append(d, t), t.op, t.id) /\ \A op, id : Has(d, op, id) => Has(Append(d, t), op, id)
  BY <1>3, HasGrows
<1>8. Has(Append(p, t), t.op, t.id) /\ \A op, id : Has(p, op, id) => Has(Append(p, t), op, id)
  BY <1>1, HasGrows
<1>9. ASSUME NEW k \in Loops, NEW op, NEW id
      PROVE  /\ Has(DueIn(ls, k), op, id) => Has(DueIn(q, k), op, id)
             /\ Has(ls[k].pending, op, id) => Has(q[k].pending, op, id)
  <2>1. CASE k = l
    BY <1>2, <1>5, <1>7, <1>8, <2>1 DEF p
  <2>2. CASE k # l
    BY <1>2, <1>6, <2>2
  <2> QED BY <2>1, <2>2
<1>10. Has(DueIn(q, l), t.op, t.id) /\ Has(q[l].pending, t.op, t.id)
  BY <1>2, <1>5, <1>7, <1>8
<1>11. DueIn(ls, l) \in Seq(Tasks) /\ DueIn(q, l) = Append(DueIn(ls, l), t)
  BY <1>3, <1>5
<1>12. Receives(ls, q, l, t)
  BY <1>6, <1>9, <1>10, <1>11 DEF Receives
<1> QED BY <1>12 DEF q

(* LoopsInv, OwnerInv and TakenDown do not mind more tasks.                 *)
LEMMA MoreTasks ==
  ASSUME ServerInv, UNCHANGED threadNums, owner'.pc = owner.pc, owner'.k = owner.k,
         \A k \in Loops :
             /\ loops'[k].pc = loops[k].pc /\ loops'[k].cur = loops[k].cur /\ loops'[k].batch = loops[k].batch
             /\ \A op, id : Has(loops[k].pending, op, id) => Has(loops'[k].pending, op, id)
  PROVE  LoopsInv' /\ OwnerInv'
<1>1. LoopsInv'
  <2> SUFFICES ASSUME NEW k \in Loops
               PROVE  /\ loops'[k].pc # "tasks" => loops'[k].batch = <<>>
                      /\ loops'[k].cur # none => /\ loops'[k].pc = "events"
                                                /\ Has(loops'[k].pending, "tie", loops'[k].cur)
                      /\ k > threadNums => loops'[k].pc = "off"
    BY DEF LoopsInv
  <2>1. /\ loops[k].pc # "tasks" => loops[k].batch = <<>>
        /\ loops[k].cur # none => loops[k].pc = "events" /\ Has(loops[k].pending, "tie", loops[k].cur)
        /\ k > threadNums => loops[k].pc = "off"
    BY DEF ServerInv, LoopsInv
  <2> QED BY <2>1
<1>2. OwnerInv'
  <2>1. OwnerInv /\ 0 \in Loops
    BY Numbers DEF ServerInv
  <2>2. \A k \in Loops : loops'[k].pc = loops[k].pc
    OBVIOUS
  <2> QED BY <2>1, <2>2 DEF OwnerInv, Destroying
<1> QED BY <1>1, <1>2

LEMMA RemoveOneKeeps == ASSUME ServerInv, NEW id \in Conns, RemoveOne(id) PROVE ServerInv'
<1> DEFINE l == conns[id].loop
           t == Task("removeItself", id)
<1>1. /\ owner.pc = "remove" /\ id \in owner.todo /\ owner' = [owner EXCEPT !.todo = @ \ {id}]
      /\ UNCHANGED <<threadNums, held, nextId, nextIndex, idle, peers, eof>>
      /\ IF l = 0 THEN conns' = Removed(id) /\ UNCHANGED loops
         ELSE loops' = Queue(loops, l, t, FALSE) /\ UNCHANGED conns
  BY DEF RemoveOne
<1>2. /\ id \in 1..(nextId - 1) /\ id < nextId /\ l \in Loops /\ id \in Int /\ nextId \in Int
      /\ t \in Tasks /\ t.op = "removeItself" /\ t.id = id
  <2>1. ServerTypes
    BY DEF ServerInv
  <2>2. id \in 1..(nextId - 1)
    BY <1>1, <2>1 DEF ServerTypes
  <2>3. id < nextId /\ nextId \in Int
    BY <2>1, <2>2, Numbers
  <2>4. l \in Loops /\ id \in Int
    BY <2>1, ConnFields
  <2>5. t \in Tasks /\ t.op = "removeItself" /\ t.id = id
    BY TaskType
  <2> QED BY <2>2, <2>3, <2>4, <2>5
<1>3. owner' \in OwnerRecs /\ owner'.pc = "remove" /\ owner'.k = owner.k /\ owner'.todo = owner.todo \ {id}
  BY <1>1 DEF ServerInv, ServerTypes, OwnerRecs
<1> HIDE DEF t, l
<1>4. ASSUME NEW c \in 1..(nextId - 1), conns[c].state # "disconnected", loops[conns[c].loop].pc # "ended"
      PROVE  c \in owner.todo \/ Leaving(c)
  BY <1>1, <1>4 DEF ServerInv, TakenDown, Destroying
<1>5. CASE l = 0
  <2>1. conns' = Removed(id) /\ loops' = loops /\ conns[id].state # "connecting"
    BY <1>1, <1>2, <1>5 DEF ServerInv, ConnsInv, l
  <2>2. /\ conns' \in [Conns -> ConnRecs]
        /\ conns'[id].state = "disconnected" /\ ~conns'[id].watched
        /\ \A k \in Conns : conns'[k].loop = conns[k].loop /\ (k # id => conns'[k] = conns[k])
    BY <2>1, MovedConns
  <2>3. ServerTypes'
    BY <1>1, <1>3, <2>1, <2>2 DEF ServerInv, ServerTypes, workerloops
  <2>4. DueInv'
    <3> SUFFICES ASSUME NEW k \in Loops PROVE DueOK(k, Due(k), conns', nextId)
      BY <1>1, <2>1 DEF DueInv, Due
    <3>1. DueOK(k, Due(k), conns, nextId)
      BY DEF ServerInv, DueInv
    <3>2. \A c \in Conns : /\ conns'[c].loop = conns[c].loop
                           /\ conns[c].state = "disconnected" => conns'[c].state = "disconnected"
                           /\ conns'[c].state = conns[c].state \/ conns[c].state # "connecting"
      BY <2>1, <2>2
    <3>3. MovesOn(conns, conns', nextId, Due(k)) /\ nextId <= nextId
      BY <1>2, <3>2 DEF MovesOn
    <3> QED BY <1>2, <3>1, <3>3, StateMoves, Zenon
  <2>5. ConnsInv'
    <3> SUFFICES ASSUME NEW c \in Conns
                 PROVE  /\ c >= nextId => conns'[c].state = "connecting"
                        /\ (c < nextId /\ conns'[c].loop = 0) => conns'[c].state # "connecting"
                        /\ conns'[c].watched => conns'[c].state = "connected"
                        /\ \A k \in Loops : c \in loops[k].active => conns'[c].state # "connecting"
      BY <1>1, <2>1 DEF ConnsInv
    <3>1. CASE c = id
      BY <1>2, <2>2, <3>1
    <3>2. CASE c # id
      BY <2>2, <3>2 DEF ServerInv, ConnsInv
    <3> QED BY <3>1, <3>2
  <2>6. Holds'
    <3>1. \A c \in 1..(nextId - 1) : c \in Conns
      BY Numbers DEF ServerInv
    <3>2. \A c \in 1..(nextId - 1) : conns'[c].state # "disconnected" => conns[c].state # "disconnected"
      BY <2>2, <3>1
    <3> QED BY <1>1, <3>2 DEF ServerInv, Holds
  <2>7. LoopsInv' /\ OwnerInv'
    BY <1>1, <1>3, <2>1, MoreTasks
  <2>8. TakenDown'
    <3> SUFFICES ASSUME NEW c \in 1..(nextId - 1), conns'[c].state # "disconnected", loops[conns'[c].loop].pc # "ended"
                 PROVE  c \in owner'.todo \/ Leaving(c)'
      BY <1>1, <1>3, <2>1 DEF TakenDown
    <3>1. c \in Conns /\ c # id
      BY <2>2, Numbers DEF ServerInv
    <3>2. conns'[c] = conns[c]
      BY <2>2, <3>1
    <3>3. c \in owner.todo \/ Leaving(c)
      BY <1>4, <3>2
    <3>4. Leaving(c)' = Leaving(c)
      BY <2>1, <3>2 DEF Leaving, Due
    <3> QED BY <1>3, <3>1, <3>3, <3>4
  <2> QED BY <2>3, <2>4, <2>5, <2>6, <2>7, <2>8 DEF ServerInv
<1>6. CASE l # 0
  <2>1. loops' = Queue(loops, l, t, FALSE) /\ conns' = conns /\ loops \in [Loops -> LoopRecs]
    BY <1>1, <1>6 DEF ServerInv, ServerTypes
  <2>2. /\ loops' \in [Loops -> LoopRecs]
        /\ \A k \in Loops : /\ loops'[k].pc = loops[k].pc /\ loops'[k].active = loops[k].active
                            /\ loops'[k].cur = loops[k].cur /\ loops'[k].batch = loops[k].batch
    <3>1. /\ Queue(loops, l, t, FALSE) \in [Loops -> LoopRecs]
          /\ \A k \in Loops : /\ Queue(loops, l, t, FALSE)[k].pc = loops[k].pc
                              /\ Queue(loops, l, t, FALSE)[k].active = loops[k].active
                              /\ Queue(loops, l, t, FALSE)[k].cur = loops[k].cur
                              /\ Queue(loops, l, t, FALSE)[k].batch = loops[k].batch
      <4>1. SameShape(loops, Queue(loops, l, t, FALSE))
        BY Zenon, <1>2, <2>1, QueueShape
      <4> QED BY <4>1 DEF SameShape
    <3> QED BY <2>1, <3>1
  <2>3. /\ DueIn(loops, l) \in Seq(Tasks) /\ DueIn(loops', l) = Append(DueIn(loops, l), t)
        /\ \A k \in Loops : k # l => DueIn(loops', k) = DueIn(loops, k)
        /\ \A k \in Loops : \A op, c : Has(DueIn(loops, k), op, c) => Has(DueIn(loops', k), op, c)
        /\ \A k \in Loops : \A op, c : Has(loops[k].pending, op, c) => Has(loops'[k].pending, op, c)
        /\ Has(DueIn(loops', l), t.op, t.id)
    <3>1. Receives(loops, Queue(loops, l, t, FALSE), l, t)
      BY Zenon, <1>2, <2>1, QueueDue
    <3>2. Receives(loops, loops', l, t)
      BY <2>1, <3>1
    <3> QED BY <3>2 DEF Receives
  <2>4. ServerTypes'
    BY <1>1, <1>3, <2>1, <2>2 DEF ServerInv, ServerTypes, workerloops
  <2>5. DueInv'
    <3> SUFFICES ASSUME NEW k \in Loops PROVE DueOK(k, DueIn(loops', k), conns, nextId)
      BY <1>1, <2>1, DueOfLoops DEF DueInv
    <3>1. DueOK(k, DueIn(loops, k), conns, nextId)
      BY DueOfLoops DEF ServerInv, DueInv
    <3>2. CASE k # l
      BY <2>3, <3>1, <3>2
    <3>3. CASE k = l
      <4> DEFINE d == DueIn(loops, l)
      <4>1. d \in Seq(Tasks) /\ DueOK(l, d, conns, nextId) /\ l = conns[t.id].loop
        BY <1>2, <2>3, <3>1, <3>3 DEF l
      <4> HIDE DEF d
      <4>2. DueOK(l, Append(d, t), conns, nextId)
        BY <1>2, <4>1, QueueGrown
      <4> QED BY <2>3, <3>3, <4>2 DEF d
    <3> QED BY <3>2, <3>3
  <2>6. ConnsInv' /\ Holds'
    BY <1>1, <1>3, <2>1, <2>2 DEF ServerInv, ConnsInv, Holds
  <2>7. LoopsInv' /\ OwnerInv'
    BY <1>1, <1>3, <2>2, <2>3, MoreTasks
  <2>8. TakenDown'
    <3> SUFFICES ASSUME NEW c \in 1..(nextId - 1), conns[c].state # "disconnected", loops'[conns[c].loop].pc # "ended"
                 PROVE  c \in owner'.todo \/ Leaving(c)'
      BY <1>1, <1>3, <2>1 DEF TakenDown
    <3>1. c \in Conns /\ conns[c].loop \in Loops
      BY ConnFields, Numbers DEF ServerInv
    <3>2. c \in owner.todo \/ Leaving(c)
      BY <1>4, <2>2, <3>1
    <3>3. Leaving(c) => Leaving(c)'
      BY <2>1, <2>3, <3>1, DueOfLoops DEF Leaving
    <3>4. c = id => Leaving(c)'
      BY <1>2, <2>1, <2>3, DueOfLoops DEF Leaving, l
    <3> QED BY <1>3, <3>2, <3>3, <3>4
  <2> QED BY <2>4, <2>5, <2>6, <2>7, <2>8 DEF ServerInv
<1> QED BY <1>5, <1>6

LEMMA HandleCloseKeeps == ASSUME ServerInv, NEW l \in Loops, NEW id \in Conns, HandleClose(l, id) PROVE ServerInv'
<1> DEFINE act == loops[l].active \ {id}
<1>1. /\ loops[l].pc = "events" /\ loops[l].cur = none /\ id \in loops[l].active
      /\ IF conns[id].state = "disconnected"
         THEN loops' = [loops EXCEPT ![l].active = @ \ {id}] /\ UNCHANGED <<conns, held>>
         ELSE loops' = Close(l, id) /\ conns' = Removed(id) /\ held' = IF l = 0 THEN held \ {id} ELSE held
      /\ UNCHANGED <<threadNums, owner, nextId, nextIndex, idle, peers, eof>>
  BY DEF HandleClose
<1>2. /\ conns[id].state # "connecting" /\ id < nextId /\ 0 \in Loops /\ id \in Int /\ nextId \in Int
      /\ loops \in [Loops -> LoopRecs] /\ loops[l] \in LoopRecs
  <2>1. loops \in [Loops -> LoopRecs] /\ loops[l] \in LoopRecs /\ 0 \in Loops /\ id \in Int /\ nextId \in Int
    <3>1. ServerTypes
      BY DEF ServerInv
    <3>2. 0 \in Loops /\ nextId \in Int
      BY <3>1, Numbers
    <3>3. id \in Int
      BY <3>1, ConnFields
    <3>4. loops \in [Loops -> LoopRecs]
      BY <3>1 DEF ServerTypes
    <3> QED BY <3>2, <3>3, <3>4
  <2>2. conns[id].state # "connecting" /\ (id >= nextId => conns[id].state = "connecting")
    BY <1>1 DEF ServerInv, ConnsInv
  <2> QED BY <2>1, <2>2
<1>3. act \subseteq Conns \union {acceptorChannel}
  BY <1>2 DEF LoopRecs
<1>4. CASE conns[id].state = "disconnected"
  <2> DEFINE r == [loops[l] EXCEPT !.active = @ \ {id}]
  <2>1. r \in LoopRecs
    BY <1>2, <1>3 DEF LoopRecs
  <2>2. loops' = [loops EXCEPT ![l] = r]
    BY <1>1, <1>2, <1>4
  <2>3. /\ r.pc = loops[l].pc /\ r.batch = loops[l].batch /\ r.at = loops[l].at /\ r.pending = loops[l].pending
        /\ r.cur = loops[l].cur /\ r.active \subseteq loops[l].active
    BY <1>2 DEF LoopRecs
  <2> HIDE DEF r
  <2>4. loops' \in [Loops -> LoopRecs] /\ \A k \in Loops : loops'[k] = IF k = l THEN r ELSE loops[k]
    BY <2>1, <2>2, LoopSet DEF ServerInv
  <2>5. \A k \in Loops : /\ loops'[k].batch = loops[k].batch /\ loops'[k].at = loops[k].at
                         /\ loops'[k].pending = loops[k].pending /\ loops'[k].cur = loops[k].cur
                         /\ loops'[k].pc = loops[k].pc /\ loops'[k].active \subseteq loops[k].active
    BY <2>3, <2>4
  <2>6. UNCHANGED <<conns, held>>
    BY <1>1, <1>4
  <2>7. ServerTypes'
    BY <1>1, <2>4, <2>6 DEF ServerInv, ServerTypes, workerloops
  <2>8. DueInv' /\ ConnsInv' /\ TakenDown'
    BY <1>1, <2>5, <2>6, Quiet
  <2>9. LoopsInv' /\ OwnerInv'
    BY <1>1, <2>5, MoreTasks
  <2>10. Holds'
    BY <1>1, <2>6 DEF ServerInv, Holds
  <2> QED BY <2>7, <2>8, <2>9, <2>10 DEF ServerInv
<1>5. CASE conns[id].state # "disconnected"
  <2> DEFINE r == [loops[l] EXCEPT !.active = @ \ {id}, !.cur = id]
             ls == [loops EXCEPT ![l] = r]
             tie == Task("tie", id)
             rm == Task("remove", id)
             tied == Queue(ls, l, tie, TRUE)
             both == Queue(tied, 0, rm, FALSE)
  <2>1. r \in LoopRecs
    BY <1>2, <1>3 DEF LoopRecs
  <2>2. /\ r.pc = loops[l].pc /\ r.batch = loops[l].batch /\ r.at = loops[l].at /\ r.pending = loops[l].pending
        /\ r.cur = id /\ r.active \subseteq loops[l].active
    BY <1>2 DEF LoopRecs
  <2>3. loops' = IF l = 0 THEN tied ELSE both
    <3>1. [loops EXCEPT ![l].active = @ \ {id}, ![l].cur = id] = ls
      BY <1>2
    <3> QED BY <1>1, <1>5, <3>1 DEF Close
  <2>4. conns' = Removed(id) /\ held' = IF l = 0 THEN held \ {id} ELSE held
    BY <1>1, <1>5
  <2>5. tie \in Tasks /\ tie.op = "tie" /\ tie.id = id /\ rm \in Tasks /\ rm.op = "remove" /\ rm.id = id
    BY TaskType
  <2> HIDE DEF r
  <2>6. ls \in [Loops -> LoopRecs] /\ \A k \in Loops : ls[k] = IF k = l THEN r ELSE loops[k]
    BY <1>2, <2>1
  <2> HIDE DEF ls, tie, rm
  <2>7. /\ tied \in [Loops -> LoopRecs]
        /\ \A k \in Loops : /\ tied[k].pc = ls[k].pc /\ tied[k].active = ls[k].active
                            /\ tied[k].cur = ls[k].cur /\ tied[k].batch = ls[k].batch
    <3>1. ls \in [Loops -> LoopRecs] /\ tie \in Tasks /\ TRUE \in BOOLEAN
      BY <2>5, <2>6
    <3>2. SameShape(ls, tied)
      BY <3>1, QueueShape, Zenon
    <3> QED BY <3>2 DEF SameShape
  <2>8. /\ DueIn(ls, l) \in Seq(Tasks) /\ DueIn(tied, l) = Append(DueIn(ls, l), tie)
        /\ \A k \in Loops : k # l => DueIn(tied, k) = DueIn(ls, k)
        /\ \A k \in Loops : \A op, c : Has(DueIn(ls, k), op, c) => Has(DueIn(tied, k), op, c)
        /\ \A k \in Loops : \A op, c : Has(ls[k].pending, op, c) => Has(tied[k].pending, op, c)
        /\ Has(tied[l].pending, tie.op, tie.id)
    <3>1. ls \in [Loops -> LoopRecs] /\ tie \in Tasks /\ TRUE \in BOOLEAN
      BY <2>5, <2>6
    <3>2. Receives(ls, tied, l, tie)
      BY <3>1, QueueDue, Zenon
    <3> QED BY <3>2 DEF Receives
  <2> HIDE DEF tied
  <2>9. /\ both \in [Loops -> LoopRecs]
        /\ \A k \in Loops : /\ both[k].pc = tied[k].pc /\ both[k].active = tied[k].active
                            /\ both[k].cur = tied[k].cur /\ both[k].batch = tied[k].batch
    <3>1. tied \in [Loops -> LoopRecs] /\ rm \in Tasks /\ FALSE \in BOOLEAN /\ 0 \in Loops
      BY <1>2, <2>5, <2>7
    <3>2. SameShape(tied, both)
      BY <3>1, QueueShape, Zenon
    <3> QED BY <3>2 DEF SameShape
  <2>10. /\ DueIn(tied, 0) \in Seq(Tasks) /\ DueIn(both, 0) = Append(DueIn(tied, 0), rm)
         /\ \A k \in Loops : k # 0 => DueIn(both, k) = DueIn(tied, k)
         /\ \A k \in Loops : \A op, c : Has(DueIn(tied, k), op, c) => Has(DueIn(both, k), op, c)
         /\ \A k \in Loops : \A op, c : Has(tied[k].pending, op, c) => Has(both[k].pending, op, c)
    <3>1. tied \in [Loops -> LoopRecs] /\ rm \in Tasks /\ FALSE \in BOOLEAN /\ 0 \in Loops
      BY <1>2, <2>5, <2>7
    <3>2. Receives(tied, both, 0, rm)
      BY <3>1, QueueDue, Zenon
    <3> QED BY <3>2 DEF Receives
  <2> HIDE DEF both
  <2>11. /\ loops' \in [Loops -> LoopRecs]
         /\ \A k \in Loops : /\ loops'[k].pc = loops[k].pc /\ loops'[k].batch = loops[k].batch
                             /\ loops'[k].active \subseteq loops[k].active
                             /\ loops'[k].cur = IF k = l THEN id ELSE loops[k].cur
    BY <2>2, <2>3, <2>6, <2>7, <2>9
  <2>12. \A k \in Loops : DueIn(ls, k) = DueIn(loops, k) /\ ls[k].pending = loops[k].pending
    BY <2>2, <2>6 DEF DueIn
  <2>13. /\ \A k \in Loops : \A op, c : Has(DueIn(loops, k), op, c) => Has(DueIn(loops', k), op, c)
         /\ \A k \in Loops : \A op, c : Has(loops[k].pending, op, c) => Has(loops'[k].pending, op, c)
         /\ Has(loops'[l].pending, "tie", id)
    BY <2>3, <2>5, <2>8, <2>10, <2>12
  <2>14. /\ conns' \in [Conns -> ConnRecs]
         /\ conns'[id].state = "disconnected" /\ ~conns'[id].watched
         /\ \A k \in Conns : conns'[k].loop = conns[k].loop /\ (k # id => conns'[k] = conns[k])
    BY <2>4, MovedConns
  <2>15. ServerTypes'
    <3>1. held' \subseteq held
      BY <2>4
    <3> QED BY <1>1, <2>11, <2>14, <3>1 DEF ServerInv, ServerTypes, workerloops
  <2>16. DueInv'
    <3>1. ASSUME NEW k \in Loops PROVE DueOK(k, DueIn(ls, k), conns', nextId)
      <4>1. DueOK(k, DueIn(ls, k), conns, nextId)
        BY <2>12, DueOfLoops DEF ServerInv, DueInv
      <4>2. \A c \in Conns : /\ conns'[c].loop = conns[c].loop
                             /\ conns[c].state = "disconnected" => conns'[c].state = "disconnected"
                             /\ conns'[c].state = conns[c].state \/ conns[c].state # "connecting"
        BY <1>2, <2>14
      <4>3. MovesOn(conns, conns', nextId, DueIn(ls, k)) /\ nextId <= nextId /\ nextId \in Int
        BY <1>2, <4>2 DEF MovesOn
      <4> QED BY <4>1, <4>3, StateMoves, Zenon
    <3>2. ASSUME NEW k \in Loops PROVE DueOK(k, DueIn(tied, k), conns', nextId)
      <4>1. CASE k # l
        BY <2>8, <3>1, <4>1
      <4>2. CASE k = l
        <5> DEFINE d == DueIn(ls, l)
                   cs == conns'
        <5>1. d \in Seq(Tasks) /\ DueOK(l, d, cs, nextId) /\ tie.id < nextId /\ tie.op = "tie" /\ tie \in Tasks
          BY <1>2, <2>5, <2>8, <3>1
        <5> HIDE DEF d, cs
        <5>2. DueOK(l, Append(d, tie), cs, nextId)
          BY <5>1, QueueGrown
        <5> QED BY <2>8, <4>2, <5>2 DEF d, cs
      <4> QED BY <4>1, <4>2
    <3>3. ASSUME NEW k \in Loops PROVE DueOK(k, DueIn(both, k), conns', nextId)
      <4>1. CASE k # 0
        BY <2>10, <3>2, <4>1
      <4>2. CASE k = 0
        <5> DEFINE d == DueIn(tied, 0)
                   cs == conns'
        <5>1. d \in Seq(Tasks) /\ DueOK(0, d, cs, nextId) /\ rm.id < nextId /\ rm.op = "remove" /\ rm \in Tasks
              /\ cs[rm.id].state = "disconnected"
          BY <1>2, <2>5, <2>10, <2>14, <3>2
        <5> HIDE DEF d, cs
        <5>2. DueOK(0, Append(d, rm), cs, nextId)
          BY <5>1, QueueGrown
        <5> QED BY <2>10, <4>2, <5>2 DEF d, cs
      <4> QED BY <4>1, <4>2
    <3>4. \A k \in Loops : DueOK(k, DueIn(loops', k), conns', nextId)
      BY <2>3, <3>2, <3>3
    <3> QED BY <1>1, <3>4, DueOfLoops DEF DueInv
  <2>17. ConnsInv'
    <3> SUFFICES ASSUME NEW c \in Conns
                 PROVE  /\ c >= nextId => conns'[c].state = "connecting"
                        /\ (c < nextId /\ conns'[c].loop = 0) => conns'[c].state # "connecting"
                        /\ conns'[c].watched => conns'[c].state = "connected"
                        /\ \A k \in Loops : c \in loops'[k].active => conns'[c].state # "connecting"
      BY <1>1 DEF ConnsInv
    <3>1. CASE c = id
      BY <1>2, <2>14, <3>1
    <3>2. CASE c # id
      BY <2>11, <2>14, <3>2 DEF ServerInv, ConnsInv
    <3> QED BY <3>1, <3>2
  <2>18. Holds'
    <3>1. \A c \in 1..(nextId - 1) : c \in Conns
      BY Numbers DEF ServerInv
    <3>2. \A c \in 1..(nextId - 1) : conns'[c].state # "disconnected" => conns[c].state # "disconnected" /\ c # id
      BY <2>14, <3>1
    <3> QED BY <1>1, <2>4, <3>2 DEF ServerInv, Holds
  <2>19. LoopsInv'
    <3> SUFFICES ASSUME NEW k \in Loops
                 PROVE  /\ loops'[k].pc # "tasks" => loops'[k].batch = <<>>
                        /\ loops'[k].cur # none => /\ loops'[k].pc = "events"
                                                  /\ Has(loops'[k].pending, "tie", loops'[k].cur)
                        /\ k > threadNums => loops'[k].pc = "off"
      BY <1>1 DEF LoopsInv
    <3>1. /\ loops[k].pc # "tasks" => loops[k].batch = <<>>
          /\ loops[k].cur # none => loops[k].pc = "events" /\ Has(loops[k].pending, "tie", loops[k].cur)
          /\ k > threadNums => loops[k].pc = "off"
      BY DEF ServerInv, LoopsInv
    <3> QED BY <1>1, <2>11, <2>13, <3>1
  <2>20. OwnerInv'
    BY <1>1, <2>11, Numbers DEF ServerInv, OwnerInv, Destroying
  <2>21. TakenDown'
    <3> SUFFICES ASSUME Destroying, NEW c \in 1..(nextId - 1), conns'[c].state # "disconnected",
                        loops'[conns'[c].loop].pc # "ended"
                 PROVE  (owner.pc = "remove" /\ c \in owner.todo) \/ Leaving(c)'
      BY <1>1 DEF TakenDown, Destroying
    <3>1. c \in Conns /\ c # id /\ conns[c].loop \in Loops
      BY <2>14, ConnFields, Numbers DEF ServerInv
    <3>2. conns'[c] = conns[c]
      BY <2>14, <3>1
    <3>3. (owner.pc = "remove" /\ c \in owner.todo) \/ Leaving(c)
      BY <2>11, <3>1, <3>2 DEF ServerInv, TakenDown
    <3>4. Leaving(c) => Leaving(c)'
      BY <2>13, <3>1, <3>2, DueOfLoops DEF Leaving
    <3> QED BY <3>3, <3>4
  <2> QED BY <2>15, <2>16, <2>17, <2>18, <2>19, <2>20, <2>21 DEF ServerInv
<1> QED BY <1>4, <1>5

(* EventLoopWorkers::getWorkerLoop: one of the loops that were started.     *)
LEMMA WorkerLoop ==
  ASSUME ServerInv
  PROVE  /\ workerloops[nextIndex + 1] \in Loops
         /\ NextIndex \in 0..Len(workerloops) - 1
<1>1. threadNums \in Nat /\ threadNums <= MaxThreads /\ MaxThreads \in Nat
  BY Numbers DEF ServerInv
<1>2. CASE threadNums = 0
  <2>1. Len(workerloops) = 1 /\ workerloops[1] = 0
    BY <1>2 DEF workerloops
  <2>2. nextIndex = 0
    BY <2>1 DEF ServerInv, ServerTypes
  <2>3. NextIndex = 0
    BY <2>1, <2>2 DEF NextIndex
  <2> QED BY <1>1, <2>1, <2>2, <2>3 DEF Loops
<1>3. CASE threadNums # 0
  <2>1. workerloops = [i \in 1..threadNums |-> i]
    BY <1>3 DEF workerloops
  <2>2. Len(workerloops) = threadNums /\ \A i \in 1..threadNums : workerloops[i] = i
    BY <1>1, <2>1
  <2>3. nextIndex \in 0..(threadNums - 1)
    BY <2>2 DEF ServerInv, ServerTypes
  <2>4. NextIndex \in 0..(threadNums - 1)
    BY <1>1, <1>3, <2>2, <2>3 DEF NextIndex
  <2>5. nextIndex + 1 \in 1..threadNums
    BY <1>1, <2>3
  <2> QED BY <1>1, <2>2, <2>4, <2>5 DEF Loops
<1> QED BY <1>2, <1>3

LEMMA AcceptKeeps == ASSUME ServerInv, Accept PROVE ServerInv'
<1> DEFINE w == workerloops[nextIndex + 1]
           id == nextId
           t == Task("onConnection", id)
<1>1. /\ loops[0].pc = "events" /\ peers.backlog > 0
      /\ peers' = [peers EXCEPT !.backlog = @ - 1]
      /\ held' = held \union {id}
      /\ IF w = 0 THEN conns' = Opened(id) /\ UNCHANGED loops
         ELSE conns' = [conns EXCEPT ![id].loop = w] /\ loops' = Queue(loops, w, t, FALSE)
      /\ nextId' = nextId + 1 /\ nextIndex' = NextIndex
      /\ UNCHANGED <<threadNums, owner, idle, eof>>
  BY DEF Accept, Hold
<1>2. /\ w \in Loops /\ NextIndex \in 0..Len(workerloops) - 1
      /\ loops \in [Loops -> LoopRecs] /\ conns \in [Conns -> ConnRecs] /\ 0 \in Loops
  BY WorkerLoop, Numbers DEF ServerInv, ServerTypes
<1>3. /\ peers.left \in Nat /\ peers.backlog \in Nat /\ nextId \in Nat /\ MaxPeers \in Nat /\ nextId >= 1
      /\ nextId + peers.left + peers.backlog <= MaxPeers + 1
  BY Numbers DEF ServerInv, ServerTypes
<1>4. id \in Conns /\ id \in Int /\ nextId + 1 \in 1..(MaxPeers + 1)
  BY <1>1, <1>3 DEF Conns
<1>5. t \in Tasks /\ t.op = "onConnection" /\ t.id = id
  BY <1>4, TaskType
<1> HIDE DEF w, t
<1>6. conns[id].state = "connecting" /\ ~conns[id].watched /\ \A k \in Loops : id \notin loops[k].active
  BY <1>3, <1>4 DEF ServerInv, ConnsInv
<1>7. ~Destroying
  BY <1>1 DEF ServerInv, OwnerInv
<1>8. peers' \in [left : Nat, backlog : Nat] /\ nextId' + peers'.left + peers'.backlog <= MaxPeers + 1
  <2>1. peers \in [left : Nat, backlog : Nat]
    BY DEF ServerInv, ServerTypes
  <2>2. peers'.left = peers.left /\ peers'.backlog = peers.backlog - 1 /\ peers.backlog - 1 \in Nat
    BY <1>1, <1>3, <2>1
  <2>3. peers' \in [left : Nat, backlog : Nat]
    BY <1>1, <2>1, <2>2
  <2> QED BY <1>1, <1>3, <2>2, <2>3
<1>9. /\ 1..(nextId' - 1) = 1..(nextId - 1) \union {id}
       /\ held' \subseteq 1..(nextId' - 1) /\ eof' \subseteq 1..(nextId' - 1) /\ owner'.todo \subseteq 1..(nextId' - 1)
  <2>1. nextId' - 1 = nextId /\ 1..nextId = 1..(nextId - 1) \union {nextId}
    BY <1>1, <1>3
  <2> QED BY <1>1, <2>1 DEF ServerInv, ServerTypes
<1>10. /\ conns' \in [Conns -> ConnRecs] /\ conns'[id].state # "disconnected"
       /\ conns'[id].watched => conns'[id].state = "connected"
       /\ conns'[id].loop = 0 => conns'[id].state # "connecting" \/ w = 0
       /\ w = 0 => conns'[id].state = "connected"
       /\ w # 0 => conns'[id].state = "connecting" /\ conns'[id].loop = w
       /\ \A c \in Conns : c # id => conns'[c] = conns[c]
  <2>1. CASE w = 0
    <3>1. conns' = Opened(id)
      BY <1>1, <2>1
    <3> QED BY <1>4, <2>1, <3>1, MovedConns
  <2>2. CASE w # 0
    <3>1. conns' = [conns EXCEPT ![id] = [conns[id] EXCEPT !.loop = w]]
      BY <1>1, <1>2, <2>2
    <3>2. conns[id] \in ConnRecs
      BY <1>2, <1>4
    <3> DEFINE r == [conns[id] EXCEPT !.loop = w]
    <3>3. r \in ConnRecs /\ r.loop = w /\ r.state = conns[id].state /\ r.watched = conns[id].watched
      BY <1>2, <3>2 DEF ConnRecs
    <3> HIDE DEF r
    <3>4. conns' \in [Conns -> ConnRecs] /\ conns'[id] = r /\ \A c \in Conns : c # id => conns'[c] = conns[c]
      BY <1>2, <1>4, <3>1, <3>3 DEF r
    <3>5. ~r.watched
      BY <1>6, <3>3
    <3> QED BY <1>6, <2>2, <3>3, <3>4, <3>5
  <2> QED BY <2>1, <2>2
<1>11. /\ loops' \in [Loops -> LoopRecs]
       /\ \A k \in Loops : /\ loops'[k].pc = loops[k].pc /\ loops'[k].active = loops[k].active
                           /\ loops'[k].cur = loops[k].cur /\ loops'[k].batch = loops[k].batch
                           /\ \A op, c : Has(loops[k].pending, op, c) => Has(loops'[k].pending, op, c)
  <2>1. CASE w = 0
    <3>1. loops' = loops
      BY <1>1, <2>1
    <3> QED BY <1>2, <3>1
  <2>2. CASE w # 0
    <3>1. loops' = Queue(loops, w, t, FALSE) /\ FALSE \in BOOLEAN
      BY <1>1, <2>2
    <3>2. /\ Queue(loops, w, t, FALSE) \in [Loops -> LoopRecs]
          /\ \A k \in Loops : /\ Queue(loops, w, t, FALSE)[k].pc = loops[k].pc
                              /\ Queue(loops, w, t, FALSE)[k].active = loops[k].active
                              /\ Queue(loops, w, t, FALSE)[k].cur = loops[k].cur
                              /\ Queue(loops, w, t, FALSE)[k].batch = loops[k].batch
      <4>1. SameShape(loops, Queue(loops, w, t, FALSE))
        BY Zenon, <1>2, <1>5, <3>1, QueueShape
      <4> QED BY <4>1 DEF SameShape
    <3>3. \A k \in Loops : \A op, c : Has(loops[k].pending, op, c) => Has(Queue(loops, w, t, FALSE)[k].pending, op, c)
      <4>1. Receives(loops, Queue(loops, w, t, FALSE), w, t)
        BY Zenon, <1>2, <1>5, <3>1, QueueDue
      <4> QED BY <4>1 DEF Receives
    <3> QED BY <3>1, <3>2, <3>3
  <2> QED BY <2>1, <2>2
<1>12. ServerTypes'
  <2>1. nextIndex' \in 0..Len(workerloops') - 1
    BY <1>1, <1>2 DEF workerloops
  <2> QED BY <1>1, <1>4, <1>8, <1>9, <1>10, <1>11, <2>1 DEF ServerInv, ServerTypes
<1>13. DueInv'
  <2>1. ASSUME NEW k \in Loops PROVE DueOK(k, Due(k), conns', nextId + 1) /\ DueOK(k, Due(k), conns, nextId)
    <3>1. DueOK(k, Due(k), conns, nextId)
      BY DEF ServerInv, DueInv
    <3>2. \A c \in Conns : c < nextId => conns'[c] = conns[c]
      BY <1>3, <1>10
    <3>3. nextId \in Int /\ nextId + 1 \in Int /\ nextId <= nextId + 1
      BY <1>3
    <3>4. MovesOn(conns, conns', nextId, Due(k))
      BY <3>2 DEF MovesOn
    <3> QED BY <3>1, <3>3, <3>4, StateMoves, Zenon
  <2>2. CASE w = 0
    <3>1. \A k \in Loops : Due(k)' = Due(k)
      BY <1>1, <2>2 DEF Due
    <3> QED BY <1>1, <2>1, <3>1 DEF DueInv
  <2>3. CASE w # 0
    <3>1. loops' = Queue(loops, w, t, FALSE) /\ FALSE \in BOOLEAN
      BY <1>1, <2>3
    <3> DEFINE d == DueIn(loops, w)
               cs == conns'
               n == nextId + 1
    <3>2. /\ d \in Seq(Tasks) /\ DueIn(loops', w) = Append(d, t)
          /\ \A k \in Loops : k # w => DueIn(loops', k) = DueIn(loops, k)
      <4>1. Receives(loops, Queue(loops, w, t, FALSE), w, t)
        BY Zenon, <1>2, <1>5, <3>1, QueueDue
      <4>2. Receives(loops, loops', w, t)
        BY <3>1, <4>1
      <4> QED BY <4>2 DEF Receives
    <3>3. DueOK(w, d, cs, n) /\ DueOK(w, d, conns, nextId)
      BY <1>2, <2>1, DueOfLoops
    <3>4. ~Has(d, "onConnection", id) /\ ~Has(d, "removeItself", id)
      <4>1. \A i \in DOMAIN d : d[i].id < nextId
        BY <3>3 DEF DueOK
      <4> HIDE DEF d
      <4> QED BY <1>3, <4>1 DEF Has
    <3>5. t.id < n /\ w = cs[t.id].loop /\ cs[t.id].state = "connecting"
      BY <1>3, <1>5, <1>10, <2>3
    <3> HIDE DEF d, cs, n
    <3>6. DueOK(w, Append(d, t), cs, n)
      <4>1. ~Has(d, "onConnection", t.id) /\ ~Has(d, "removeItself", t.id)
        BY <1>5, <3>4
      <4> QED BY <1>5, <3>2, <3>3, <3>5, <4>1, QueueGrown
    <3>7. ASSUME NEW k \in Loops PROVE DueOK(k, DueIn(loops', k), conns', nextId + 1)
      <4>1. CASE k = w
        BY <3>2, <3>6, <4>1 DEF cs, n
      <4>2. CASE k # w
        BY <2>1, <3>2, <4>2, DueOfLoops
      <4> QED BY <4>1, <4>2
    <3> QED BY <1>1, <3>7, DueOfLoops DEF DueInv
  <2> QED BY <2>2, <2>3
<1>14. ConnsInv'
  <2> SUFFICES ASSUME NEW c \in Conns
               PROVE  /\ c >= nextId + 1 => conns'[c].state = "connecting"
                      /\ (c < nextId + 1 /\ conns'[c].loop = 0) => conns'[c].state # "connecting"
                      /\ conns'[c].watched => conns'[c].state = "connected"
                      /\ \A k \in Loops : c \in loops'[k].active => conns'[c].state # "connecting"
    BY <1>1 DEF ConnsInv
  <2>1. CASE c = id
    BY <1>3, <1>6, <1>10, <1>11, <2>1
  <2>2. CASE c # id
    <3>1. conns'[c] = conns[c] /\ c \in Int /\ (c >= nextId + 1 => c >= nextId) /\ (c < nextId + 1 => c < nextId)
      BY <1>3, <1>10, <2>2 DEF Conns
    <3> QED BY <1>11, <3>1 DEF ServerInv, ConnsInv
  <2> QED BY <2>1, <2>2
<1>15. Holds'
  <2> SUFFICES ASSUME owner.pc \notin {"quit", "join", "gone"}, NEW c \in 1..(nextId' - 1), conns'[c].state # "disconnected"
               PROVE  c \in held'
    BY <1>1 DEF Holds
  <2>1. CASE c = id
    BY <1>1, <2>1
  <2>2. CASE c # id
    <3>1. c \in 1..(nextId - 1)
      BY <1>9, <2>2
    <3>2. c \in Conns
      BY <3>1, Numbers DEF ServerInv
    <3> QED BY <1>1, <1>10, <2>2, <3>1, <3>2 DEF ServerInv, Holds
  <2> QED BY <2>1, <2>2
<1>16. LoopsInv' /\ OwnerInv'
  BY <1>1, <1>11, MoreTasks
<1>17. TakenDown'
  BY <1>1, <1>7 DEF TakenDown, Destroying
<1> QED BY <1>12, <1>13, <1>14, <1>15, <1>16, <1>17 DEF ServerInv

-----------------------------------------------------------------------------
(* The invariant *)

LEMMA InitHolds == Init => ServerInv
<1> SUFFICES ASSUME Init PROVE ServerInv
  OBVIOUS
<1> USE DEF Init
<1>1. ServerTypes
  <2>1. \A l \in Loops : loops[l] \in LoopRecs
    <3>1. <<>> \in Seq(Tasks) /\ 1 \in Nat \ {0}
      OBVIOUS
    <3> QED BY <3>1 DEF LoopRecs
  <2>2. loops \in [Loops -> LoopRecs]
    BY <2>1
  <2>3. conns \in [Conns -> ConnRecs]
    BY ServerAssumption DEF ConnRecs, Loops
  <2>4. owner \in OwnerRecs /\ owner.todo = {}
    BY DEF OwnerRecs
  <2>5. nextIndex \in 0..Len(workerloops) - 1
    <3>1. threadNums \in Nat /\ nextIndex = 0
      BY ServerAssumption
    <3>2. CASE threadNums = 0
      BY <3>1, <3>2 DEF workerloops
    <3>3. CASE threadNums # 0
      <4>1. workerloops = [i \in 1..threadNums |-> i]
        BY <3>3 DEF workerloops
      <4>2. Len(workerloops) = threadNums
        BY <3>1, <4>1
      <4> QED BY <3>1, <3>3, <4>2
    <3> QED BY <3>2, <3>3
  <2>6. /\ peers \in [left : Nat, backlog : Nat] /\ nextId + peers.left + peers.backlog <= MaxPeers + 1
        /\ nextId \in 1..(MaxPeers + 1)
    BY ServerAssumption
  <2> QED BY <2>2, <2>3, <2>4, <2>5, <2>6 DEF ServerTypes
<1>2. ASSUME NEW l \in Loops PROVE Due(l) = <<>>
  <2>1. ASSUME NEW a \in Nat \ {0} PROVE Left(<<>>, a, <<>>) = <<>>
    <3>1. <<>> \in Seq(Tasks) /\ Len(<<>>) = 0
      OBVIOUS
    <3>2. a > Len(<<>>)
      BY <3>1
    <3> QED BY <3>1, <3>2, LeftAll
  <2>2. Left(<<>>, 1, <<>>) = <<>>
    BY <2>1
  <2>3. loops[l].batch = <<>> /\ loops[l].at = 1 /\ loops[l].pending = <<>>
    OBVIOUS
  <2> QED BY <2>2, <2>3 DEF Due
<1>3. DueInv
  BY <1>2 DEF DueInv, DueOK
<1>4. LoopsInv
  BY DEF LoopsInv
<1>5. OwnerInv
  BY Numbers, <1>1 DEF OwnerInv, Destroying
<1>6. ConnsInv
  <2> SUFFICES ASSUME NEW id \in Conns
               PROVE  /\ conns[id].state = "connecting" /\ ~conns[id].watched /\ ~(id < nextId)
                      /\ \A l \in Loops : id \notin loops[l].active
    BY DEF ConnsInv
  <2>1. id \in Nat /\ id >= 1
    BY ServerAssumption DEF Conns
  <2>2. ~(id < nextId)
    BY <2>1
  <2>3. \A l \in Loops : id \notin loops[l].active
    OBVIOUS
  <2> QED BY <2>2, <2>3
<1>7. Holds /\ TakenDown
  BY DEF Holds, TakenDown, Destroying
<1> QED BY <1>1, <1>3, <1>4, <1>5, <1>6, <1>7 DEF ServerInv

LEMMA InvKept == ServerInv /\ [Next]_vars => ServerInv'
<1> SUFFICES ASSUME ServerInv, [Next]_vars PROVE ServerInv'
  OBVIOUS
<1>1. CASE OwnerStep
  BY <1>1, StartLoopKeeps, LatchWaitKeeps, ListenKeeps, DestroyKeeps, DestroyMapKeeps, QuitWorkerKeeps,
     JoinKeeps, DestroyAcceptorKeeps, RemoveOneKeeps DEF OwnerStep
<1>2. CASE AcceptorStep
  BY <1>2, AcceptKeeps, AcceptFailsKeeps DEF AcceptorStep
<1>3. CASE Environment
  BY <1>3, OutsideKeeps, QuitKeeps DEF Environment
<1>4. ASSUME NEW l \in Loops, LoopStep(l) PROVE ServerInv'
  BY <1>4, ThreadStartKeeps, PollKeeps, HandlerReturnsKeeps, DoPendingTasksKeeps, RunTaskKeeps,
     EndTasksKeeps, HandleCloseKeeps DEF LoopStep
<1>5. CASE UNCHANGED vars
  <2>1. ServerTypes'
    BY <1>5 DEF vars, ServerInv, ServerTypes, workerloops
  <2>2. DueInv' /\ ConnsInv' /\ TakenDown'
    BY <1>5, Quiet DEF vars
  <2>3. LoopsInv' /\ OwnerInv'
    BY <1>5, MoreTasks DEF vars
  <2>4. Holds'
    BY <1>5 DEF vars, ServerInv, Holds
  <2> QED BY <2>1, <2>2, <2>3, <2>4 DEF ServerInv
<1> QED BY <1>1, <1>2, <1>3, <1>4, <1>5 DEF Next

(* Whatever the threads, the peers and the destructor do, in any order.     *)
THEOREM InvHolds == Spec => []ServerInv
BY InitHolds, InvKept, PTL DEF Spec

-----------------------------------------------------------------------------
(* Every variable keeps its type: the round robin of getWorkerLoop stays    *)
(* inside the loops that were started, and the map holds only connections   *)
(* that were accepted.                                                      *)
THEOREM TypeCorrect == Spec => []TypeOK
<1>1. ServerInv => TypeOK
  BY DEF ServerInv, ServerTypes, OwnerRecs, LoopRecs, ConnRecs, TypeOK
<1> QED BY <1>1, InvHolds, PTL

(* A task that is due keeps its connection alive.                           *)
LEMMA DueAlive ==
  ASSUME ServerInv, NEW l \in Loops, NEW op, NEW id, op # "remove",
         Has(Due(l), op, id) \/ Has(loops[l].pending, op, id)
  PROVE  Alive(id)
<1>1. /\ loops[l].batch \in Seq(Tasks) /\ loops[l].at \in Nat \ {0} /\ loops[l].pending \in Seq(Tasks)
  BY LoopFields DEF ServerInv
<1>2. Has(loops[l].batch, op, id) \/ Has(loops[l].pending, op, id)
  <2> SUFFICES ASSUME Has(Due(l), op, id) PROVE Has(loops[l].batch, op, id) \/ Has(loops[l].pending, op, id)
    OBVIOUS
  <2> DEFINE b == loops[l].batch
             a == loops[l].at
             p == loops[l].pending
             d == Left(b, a, p)
  <2>1. b \in Seq(Tasks) /\ a \in Nat \ {0} /\ p \in Seq(Tasks) /\ Has(d, op, id)
    BY <1>1 DEF Due
  <2>2. PICK i \in DOMAIN d : d[i].op = op /\ d[i].id = id
    BY <2>1 DEF Has
  <2> HIDE DEF b, a, p
  <2>3. (\E j \in DOMAIN b : b[j] = d[i]) \/ (\E j \in DOMAIN p : p[j] = d[i])
    BY <2>1, LeftElement
  <2> HIDE DEF d
  <2>4. Has(b, op, id) \/ Has(p, op, id)
    BY <2>2, <2>3 DEF Has
  <2> QED BY <2>4 DEF b, p
<1>3. CASE Has(loops[l].batch, op, id)
  <2>1. PICK i \in DOMAIN loops[l]["batch"] : Refers(loops[l]["batch"][i], id)
    BY <1>3 DEF Has, Refers
  <2> QED BY <2>1 DEF Alive
<1>4. CASE Has(loops[l].pending, op, id)
  <2>1. PICK i \in DOMAIN loops[l]["pending"] : Refers(loops[l]["pending"][i], id)
    BY <1>4 DEF Has, Refers
  <2> QED BY <2>1 DEF Alive
<1> QED BY <1>2, <1>3, <1>4

(* handleClose may go on with its connection, a loop may call the channels  *)
(* it watches, and a worker may call removeConnection, although the owner   *)
(* has dropped what it held.                                                *)
THEOREM NothingUsedIsGone == Spec => []UsedIsAlive
<1>1. ServerInv => UsedIsAlive
  <2> SUFFICES ASSUME ServerInv PROVE UsedIsAlive
    OBVIOUS
  <2>1. ASSUME NEW l \in Loops, loops[l].cur # none PROVE Alive(loops[l].cur)
    <3>1. Has(loops[l].pending, "tie", loops[l].cur)
      BY <2>1 DEF ServerInv, LoopsInv
    <3> QED BY <3>1, DueAlive
  <2>2. ASSUME NEW id \in Conns, conns[id].watched, Running(conns[id].loop) PROVE Alive(id)
    <3>1. conns[id].state = "connected" /\ ~(id >= nextId)
      BY <2>2 DEF ServerInv, ConnsInv
    <3>2. id \in 1..(nextId - 1) /\ conns[id].loop \in Loops
      BY <3>1, ConnFields, Numbers DEF ServerInv
    <3>3. CASE owner.pc \in {"quit", "join", "gone"}
      <4>1. loops[conns[id].loop].pc # "ended" /\ Destroying
        BY <2>2, <3>3 DEF Running, Destroying
      <4>2. Has(Due(conns[id].loop), "removeItself", id)
        BY <3>1, <3>2, <3>3, <4>1 DEF ServerInv, TakenDown, Leaving
      <4> QED BY <3>2, <4>2, DueAlive
    <3>4. CASE owner.pc \notin {"quit", "join", "gone"}
      BY <3>1, <3>2, <3>4 DEF ServerInv, Holds, Alive
    <3> QED BY <3>3, <3>4
  <2>3. ASSUME NEW l \in 1..MaxThreads, Running(l) PROVE owner.pc # "gone"
    BY <2>3, Numbers DEF ServerInv, OwnerInv, Running, Loops
  <2> QED BY <2>1, <2>2, <2>3 DEF UsedIsAlive
<1> QED BY <1>1, InvHolds, PTL

LEMMA LoopOwner ==
  ASSUME ServerInv, Next, owner.pc = "loop"
  PROVE  owner'.pc \in {"loop", "remove"} /\ nextId' >= nextId
<1>1. nextId \in Nat /\ owner \in OwnerRecs
  BY Numbers DEF ServerInv, ServerTypes
<1>2. CASE OwnerStep
  <2>1. ASSUME NEW id \in Conns, RemoveOne(id) PROVE FALSE
    BY <2>1 DEF RemoveOne
  <2>2. Destroy
    BY <1>2, <2>1 DEF OwnerStep, StartLoop, LatchWait, Listen, DestroyMap, QuitWorker, Join, DestroyAcceptor
  <2> QED BY <1>1, <2>2 DEF Destroy, OwnerRecs
<1>3. CASE AcceptorStep
  <2>1. CASE Accept
    <3>1. owner' = owner
      BY <2>1, Zenon DEF Accept
    <3>2. nextId' = nextId + 1
      BY <2>1, Zenon DEF Accept
    <3> QED BY <1>1, <3>1, <3>2
  <2>2. CASE AcceptFails
    BY <1>1, <2>2 DEF AcceptFails
  <2> QED BY <1>3, <2>1, <2>2 DEF AcceptorStep
<1>4. CASE Environment
  BY <1>1, <1>4 DEF Environment, PeerConnect, Quit, PeerClose
<1>5. ASSUME NEW l \in Loops, LoopStep(l) PROVE owner' = owner /\ nextId' = nextId
  BY <1>5 DEF LoopStep, ThreadStart, Poll, HandlerReturns, DoPendingTasks, RunTask, EndTasks, HandleClose
<1> QED BY <1>1, <1>2, <1>3, <1>4, <1>5 DEF Next

(* While the server's loop runs, its map and the queues hold a connection   *)
(* until it is disconnected: the map drops it only when removeConnection    *)
(* comes, which handleClose sends.                                          *)
THEOREM DestroyedWhenClosed == Spec => NoEarlyDestruction
<1>1. ServerInv /\ ServerInv' /\ [Next]_vars =>
        [owner.pc = "loop" => \A id \in Conns : Dies(id) => conns'[id].state = "disconnected"]_vars
  <2> SUFFICES ASSUME ServerInv, ServerInv', Next, owner.pc = "loop", NEW id \in Conns, Dies(id)
               PROVE  conns'[id].state = "disconnected"
    OBVIOUS
  <2>1. owner'.pc \in {"loop", "remove"} /\ nextId' >= nextId
    BY LoopOwner
  <2>2. id < nextId /\ nextId \in Int /\ nextId' \in Int /\ id \in Int /\ id >= 1
    BY Numbers DEF Dies, ServerInv, ServerTypes, Conns
  <2> DEFINE n == nextId
             m == nextId'
  <2>3. m >= n /\ id < n /\ n \in Int /\ m \in Int /\ id \in Int /\ id >= 1
    BY <2>1, <2>2
  <2> HIDE DEF n, m
  <2>5. id \in 1..(m - 1)
    BY <2>3
  <2>6. id \in 1..(nextId' - 1)
    BY <2>5 DEF m
  <2>4. id \notin held'
    BY DEF Dies, Alive
  <2> QED BY <2>1, <2>6, <2>4 DEF ServerInv, Holds
<1> QED BY <1>1, InvHolds, PTL DEF NoEarlyDestruction, Spec
==============================================================================
