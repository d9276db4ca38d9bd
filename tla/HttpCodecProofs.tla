-------------------------- MODULE HttpCodecProofs --------------------------
(* Proofs about a connection with an HTTP codec, for streams of any length   *)
(* cut into reads of any length, records and buffers of any size.  First     *)
(* the operations of Buffer, for buffers and data of any length and bytes    *)
(* of any kind: they keep the indices in order and the bytes between them.   *)
(* Then what HttpParser returns, whatever it reads; then the loop of         *)
(* HttpCodec::onMessage and SslHandler::decrypt; then the actions.           *)
EXTENDS HttpCodec, SequenceTheorems, FiniteSetTheorems, WellFoundedInduction,
        NaturalsInduction, TLAPS

------------------------------- \* Buffer
(* A buffer of bytes from S, as it is between two operations.  The vector   *)
(* is never so long that its size does not fit in size_t.                   *)
BufferOK(b, S) ==
    /\ b \in [mem : Seq(S), r : Nat, w : Nat]
    /\ b.r <= b.w /\ b.w <= Len(b.mem) /\ prepends <= Len(b.mem) /\ Len(b.mem) < SizeMod

(* prepend has not used the reserved bytes.                                 *)
Reserved(b) == b.r >= prepends

-----------------------------------------------------------------------------
(* Arithmetic and sequences *)

LEMMA ModOfSmall ==
  ASSUME NEW m \in Nat, NEW x \in Nat, x < m
  PROVE  x % m = x
OBVIOUS

LEMMA SizeModPositive == SizeMod \in Nat /\ SizeMod > 8 /\ ExtraBuf \in Nat /\ InitialSize \in Nat
BY BufferAssumption

LEMMA FunctionIsSeq ==
  ASSUME NEW S, NEW n \in Nat, NEW f, f = [i \in 1..n |-> f[i]], \A i \in 1..n : f[i] \in S
  PROVE  f \in Seq(S) /\ Len(f) = n
<1>1. f \in [1..n -> S]
  OBVIOUS
<1> QED BY <1>1

LEMMA PutIs ==
  ASSUME NEW S, NEW mem \in Seq(S), NEW at \in Nat, NEW data \in Seq(S), at + Len(data) <= Len(mem)
  PROVE  /\ Put(mem, at, data) \in Seq(S) /\ Len(Put(mem, at, data)) = Len(mem)
         /\ \A i \in 1..Len(mem) :
              Put(mem, at, data)[i] = IF at < i /\ i <= at + Len(data) THEN data[i - at] ELSE mem[i]
<1> DEFINE n == Len(mem)
           k == Len(data)
           f == Put(mem, at, data)
<1>1. n \in Nat /\ k \in Nat
  BY LenProperties
<1>2. f = [i \in 1..n |-> IF i \in at + 1 .. at + k THEN data[i - at] ELSE mem[i]]
  BY DEF Put
<1>3. ASSUME NEW i \in 1..n
      PROVE  /\ f[i] = IF at < i /\ i <= at + k THEN data[i - at] ELSE mem[i]
             /\ f[i] \in S
  <2>1. f[i] = IF i \in at + 1 .. at + k THEN data[i - at] ELSE mem[i]
    BY <1>2
  <2>2. i \in at + 1 .. at + k <=> at < i /\ i <= at + k
    BY <1>1
  <2>3. mem[i] \in S
    BY ElementOfSeq
  <2>4. at < i /\ i <= at + k => data[i - at] \in S
    <3>1. at < i /\ i <= at + k => i - at \in 1..k
      BY <1>1
    <3> QED BY <3>1, ElementOfSeq
  <2> HIDE DEF f
  <2> QED BY <2>1, <2>2, <2>3, <2>4
<1>4. f = [i \in 1..n |-> f[i]]
  BY <1>2
<1> HIDE DEF f, n, k
<1>5. f \in Seq(S) /\ Len(f) = n
  BY <1>1, <1>3, <1>4, FunctionIsSeq
<1> QED BY <1>3, <1>5 DEF f, n, k

LEMMA ResizeIs ==
  ASSUME NEW S, Hole \in S, NEW mem \in Seq(S), NEW n \in Nat
  PROVE  /\ Resize(mem, n) \in Seq(S) /\ Len(Resize(mem, n)) = n
         /\ \A i \in 1..n : i <= Len(mem) => Resize(mem, n)[i] = mem[i]
<1> DEFINE f == Resize(mem, n)
<1>1. f = [i \in 1..n |-> IF i <= Len(mem) THEN mem[i] ELSE Hole]
  BY DEF Resize
<1>2. ASSUME NEW i \in 1..n
      PROVE  f[i] \in S /\ (i <= Len(mem) => f[i] = mem[i])
  <2>1. i <= Len(mem) => mem[i] \in S
    <3>1. i <= Len(mem) => i \in 1..Len(mem)
      BY LenProperties
    <3> QED BY <3>1, ElementOfSeq
  <2> QED BY <1>1, <2>1
<1>3. f = [i \in 1..n |-> f[i]]
  BY <1>1
<1> HIDE DEF f
<1>4. f \in Seq(S) /\ Len(f) = n
  BY <1>2, <1>3, FunctionIsSeq
<1> QED BY <1>2, <1>4 DEF f

(* A sequence cut in two.                                                   *)
First(s, n) == SubSeq(s, 1, Min2(n, Len(s)))
Rest(s, n) == SubSeq(s, Min2(n, Len(s)) + 1, Len(s))

LEMMA FirstIs ==
  ASSUME NEW S, NEW s \in Seq(S), NEW n \in Nat, n <= Len(s)
  PROVE  /\ SubSeq(s, 1, n) \in Seq(S) /\ Len(SubSeq(s, 1, n)) = n
         /\ \A i \in 1..n : SubSeq(s, 1, n)[i] = s[i]
<1> DEFINE lo == 1
           f == SubSeq(s, lo, n)
<1>1. lo \in Int /\ n \in Int /\ \A i \in lo..n : s[i] \in S
  <2>1. \A i \in lo..n : i \in 1..Len(s)
    BY LenProperties
  <2> QED BY <2>1, ElementOfSeq
<1>2. n - lo + 1 = n /\ (lo <= n <=> n > 0) /\ \A i \in 1..n : lo + i - 1 = i
  OBVIOUS
<1> HIDE DEF lo
<1>3. /\ f \in Seq(S) /\ Len(f) = (IF lo <= n THEN n - lo + 1 ELSE 0)
      /\ \A i \in 1..(n - lo + 1) : f[i] = s[lo + i - 1]
  BY <1>1, SubSeqProperties
<1> HIDE DEF f
<1>4. Len(f) = n
  BY <1>2, <1>3
<1>5. ASSUME NEW i \in 1..n PROVE f[i] = s[i]
  <2>1. i \in 1..(n - lo + 1) /\ lo + i - 1 = i
    BY <1>2
  <2>2. f[i] = s[lo + i - 1]
    BY <1>3, <2>1
  <2> QED BY <2>1, <2>2
<1> QED BY <1>3, <1>4, <1>5 DEF f, lo

LEMMA RestIs ==
  ASSUME NEW S, NEW s \in Seq(S), NEW n \in Nat, n <= Len(s)
  PROVE  /\ SubSeq(s, n + 1, Len(s)) \in Seq(S) /\ Len(SubSeq(s, n + 1, Len(s))) = Len(s) - n
         /\ \A i \in 1..(Len(s) - n) : SubSeq(s, n + 1, Len(s))[i] = s[n + i]
         /\ Len(s) - n \in Nat
<1> DEFINE lo == n + 1
           hi == Len(s)
           k == Len(s) - n
           f == SubSeq(s, lo, hi)
<1>1. hi \in Nat /\ k \in Nat
  BY LenProperties
<1>2. lo \in Int /\ hi \in Int /\ \A i \in lo..hi : s[i] \in S
  <2>1. \A i \in lo..hi : i \in 1..Len(s)
    BY <1>1
  <2> QED BY <1>1, <2>1, ElementOfSeq
<1>3. hi - lo + 1 = k /\ (lo <= hi <=> k > 0) /\ \A i \in 1..k : lo + i - 1 = n + i
  BY <1>1
<1> HIDE DEF lo, hi, k
<1>4. f \in Seq(S) /\ Len(f) = (IF lo <= hi THEN hi - lo + 1 ELSE 0)
      /\ \A i \in 1..(hi - lo + 1) : f[i] = s[lo + i - 1]
  BY <1>2, SubSeqProperties
<1> HIDE DEF f
<1>5. Len(f) = k
  BY <1>1, <1>3, <1>4
<1>6. ASSUME NEW i \in 1..k PROVE f[i] = s[n + i]
  <2>1. i \in 1..(hi - lo + 1) /\ lo + i - 1 = n + i
    BY <1>3
  <2>2. f[i] = s[lo + i - 1]
    BY <1>4, <2>1
  <2> QED BY <2>1, <2>2
<1> QED BY <1>1, <1>4, <1>5, <1>6 DEF f, lo, hi, k

LEMMA FirstThenRest ==
  ASSUME NEW S, NEW s \in Seq(S), NEW n \in Nat, n <= Len(s)
  PROVE  SubSeq(s, 1, n) \o SubSeq(s, n + 1, Len(s)) = s
<1> DEFINE f == SubSeq(s, 1, n)
           g == SubSeq(s, n + 1, Len(s))
<1>1. f \in Seq(S) /\ Len(f) = n /\ \A i \in 1..n : f[i] = s[i]
  BY FirstIs
<1>2. /\ g \in Seq(S) /\ Len(g) = Len(s) - n /\ Len(s) \in Nat
      /\ \A i \in 1..(Len(s) - n) : g[i] = s[n + i]
  BY RestIs, LenProperties
<1> HIDE DEF f, g
<1>3. f \o g \in Seq(S) /\ Len(f \o g) = Len(s)
      /\ \A i \in 1..Len(s) : (f \o g)[i] = IF i <= n THEN f[i] ELSE g[i - n]
  <2>1. Len(f) + Len(g) = Len(s)
    BY <1>1, <1>2
  <2> QED BY <1>1, <1>2, <2>1, ConcatProperties
<1>4. ASSUME NEW i \in 1..Len(s) PROVE (f \o g)[i] = s[i]
  <2>1. CASE i <= n
    BY <1>1, <1>3, <2>1
  <2>2. CASE ~(i <= n)
    <3>1. i - n \in 1..(Len(s) - n) /\ n + (i - n) = i
      BY <1>2, <2>2
    <3> QED BY <1>2, <1>3, <2>2, <3>1
  <2> QED BY <2>1, <2>2
<1>5. f \o g = s
  BY <1>3, <1>4, SeqEqual
<1> QED BY <1>5 DEF f, g

(* What the fields say of the bytes.                                        *)
LEMMA ContentsIs ==
  ASSUME NEW S, NEW b, BufferOK(b, S)
  PROVE  /\ Contents(b) \in Seq(S) /\ Len(Contents(b)) = b.w - b.r
         /\ \A i \in 1..(b.w - b.r) : Contents(b)[i] = b.mem[b.r + i]
         /\ b.w - b.r \in Nat
<1>1. /\ b.mem \in Seq(S) /\ Len(b.mem) \in Nat
      /\ b.r \in Nat /\ b.w \in Nat /\ b.r <= b.w /\ b.w <= Len(b.mem)
  BY LenProperties DEF BufferOK
<1> DEFINE m == b.mem
           lo == b.r + 1
           hi == b.w
<1>2. lo \in Int /\ hi \in Int /\ \A i \in lo..hi : m[i] \in S
  <2>1. \A i \in lo..hi : i \in 1..Len(m)
    BY <1>1
  <2> QED BY <1>1, <2>1, ElementOfSeq
<1> HIDE DEF m, lo, hi
<1>3. /\ SubSeq(m, lo, hi) \in Seq(S)
      /\ Len(SubSeq(m, lo, hi)) = IF lo <= hi THEN hi - lo + 1 ELSE 0
      /\ \A i \in 1..(hi - lo + 1) : SubSeq(m, lo, hi)[i] = m[lo + i - 1]
  BY <1>2, SubSeqProperties
<1>4. hi - lo + 1 = b.w - b.r /\ (lo <= hi <=> b.w - b.r > 0) /\ Contents(b) = SubSeq(m, lo, hi)
      /\ \A i \in 1..(b.w - b.r) : lo + i - 1 = b.r + i
  BY <1>1 DEF lo, hi, m, Contents
<1>5. \A i \in 1..(b.w - b.r) : Contents(b)[i] = m[b.r + i]
  <2> SUFFICES ASSUME NEW i \in 1..(b.w - b.r) PROVE Contents(b)[i] = m[b.r + i]
    OBVIOUS
  <2>1. i \in 1..(hi - lo + 1)
    BY <1>4
  <2>2. SubSeq(m, lo, hi)[i] = m[lo + i - 1]
    BY <1>3, <2>1
  <2> QED BY <1>4, <2>2
<1>6. b.w - b.r \in Nat
  BY <1>1
<1>7. Len(Contents(b)) = b.w - b.r
  <2> DEFINE k == b.w - b.r
  <2>1. hi - lo + 1 = k /\ k \in Nat /\ (lo <= hi <=> k > 0) /\ Contents(b) = SubSeq(m, lo, hi)
    BY <1>4, <1>6
  <2> HIDE DEF k
  <2>2. Len(Contents(b)) = k
    BY <1>3, <2>1
  <2> QED BY <2>2 DEF k
<1> QED BY <1>3, <1>4, <1>5, <1>6, <1>7 DEF m

LEMMA SizesAre ==
  ASSUME NEW S, NEW b, BufferOK(b, S)
  PROVE  /\ readableBytes(b) = b.w - b.r /\ writableBytes(b) = Len(b.mem) - b.w
         /\ prependableBytes(b) = b.r /\ size(b) = Len(b.mem)
         /\ Reserved(b) => (writableBytes(b) + prependableBytes(b) - prepends) % SizeMod
                             = Len(b.mem) - b.w + b.r - prepends
<1>1. /\ b.r \in Nat /\ b.w \in Nat /\ b.r <= b.w /\ b.w <= Len(b.mem) /\ Len(b.mem) \in Nat
      /\ Len(b.mem) < SizeMod /\ SizeMod \in Nat
  BY LenProperties, SizeModPositive DEF BufferOK
<1> DEFINE x == b.w - b.r
           y == Len(b.mem) - b.w
           z == y + b.r - 8
<1>2. x \in Nat /\ y \in Nat /\ x < SizeMod /\ y < SizeMod
  BY <1>1
<1>3. b.r >= 8 => z \in Nat /\ z < SizeMod
  BY <1>1
<1> HIDE DEF x, y, z
<1>4. x % SizeMod = x /\ y % SizeMod = y
  BY <1>1, <1>2, ModOfSmall
<1>5. b.r >= 8 => z % SizeMod = z
  BY <1>1, <1>3, ModOfSmall
<1>6. readableBytes(b) = x /\ writableBytes(b) = y
  BY <1>4 DEF readableBytes, writableBytes, size, x, y
<1>7. Reserved(b) => (y + b.r - prepends) % SizeMod = y + b.r - prepends
  BY <1>5 DEF Reserved, prepends, z
<1> QED BY <1>6, <1>7 DEF prependableBytes, size, x, y

LEMMA FieldsAre ==
  ASSUME NEW S, NEW b, BufferOK(b, S)
  PROVE  /\ b.mem \in Seq(S) /\ b.r \in Nat /\ b.w \in Nat /\ Len(b.mem) \in Nat
         /\ b.r <= b.w /\ b.w <= Len(b.mem) /\ 8 <= Len(b.mem) /\ Len(b.mem) < SizeMod
         /\ SizeMod \in Nat /\ b = [mem |-> b.mem, r |-> b.r, w |-> b.w]
BY LenProperties, SizeModPositive DEF BufferOK, prepends

LEMMA MakeBuffer ==
  ASSUME NEW S, NEW m \in Seq(S), NEW x \in Nat, NEW y \in Nat,
         x <= y, y <= Len(m), 8 <= Len(m), Len(m) < SizeMod
  PROVE  BufferOK([mem |-> m, r |-> x, w |-> y], S)
BY DEF BufferOK, prepends

LEMMA ContentsAre ==
  ASSUME NEW S, NEW b, BufferOK(b, S), NEW s \in Seq(S), Len(s) = b.w - b.r,
         \A i \in 1..(b.w - b.r) : b.mem[b.r + i] = s[i]
  PROVE  Contents(b) = s
<1> DEFINE sum == Contents(b)
           k == b.w - b.r
<1>1. sum \in Seq(S) /\ Len(sum) = k /\ k \in Nat /\ Len(s) = k /\ \A i \in 1..k : sum[i] = b.mem[b.r + i]
  BY ContentsIs
<1>2. \A i \in 1..k : sum[i] = s[i]
  BY <1>1
<1> HIDE DEF sum, k
<1>3. sum = s
  BY <1>1, <1>2, SeqEqual
<1> QED BY <1>3 DEF sum

-----------------------------------------------------------------------------
(* ensureSpace moves or grows, and then there is room.                      *)
LEMMA SpaceEnsured ==
  ASSUME NEW S, Hole \in S, NEW b, BufferOK(b, S), Reserved(b), NEW len \in Nat, b.w + len < SizeMod
  PROVE  /\ BufferOK(ensureSpace(b, len), S) /\ Reserved(ensureSpace(b, len))
         /\ Contents(ensureSpace(b, len)) = Contents(b)
         /\ ensureSpace(b, len).w + len <= Len(ensureSpace(b, len).mem)
         /\ ensureSpace(b, len).w <= b.w
         /\ \/ Len(ensureSpace(b, len).mem) <= Len(b.mem)
            \/ Len(ensureSpace(b, len).mem) <= b.w + len
<1> DEFINE e == ensureSpace(b, len)
           m == b.mem
           all == Contents(b)
<1>1. /\ m \in Seq(S) /\ b.r \in Nat /\ b.w \in Nat /\ Len(m) \in Nat
      /\ b.r <= b.w /\ b.w <= Len(m) /\ 8 <= Len(m) /\ Len(m) < SizeMod /\ 8 <= b.r
      /\ SizeMod \in Nat /\ b = [mem |-> m, r |-> b.r, w |-> b.w]
  BY FieldsAre DEF Reserved, prepends
<1>2. /\ readableBytes(b) = b.w - b.r /\ writableBytes(b) = Len(m) - b.w
      /\ (writableBytes(b) + prependableBytes(b) - prepends) % SizeMod = Len(m) - b.w + b.r - 8
  BY SizesAre DEF prepends
<1>3. /\ all \in Seq(S) /\ Len(all) = b.w - b.r
      /\ \A i \in 1..(b.w - b.r) : all[i] = m[b.r + i]
  BY ContentsIs
<1>4. CASE writableBytes(b) >= len
  <2>1. e = b
    BY <1>4 DEF ensureSpace
  <2>2. b.w + len <= Len(m)
    BY <1>1, <1>2, <1>4
  <2>3. Len(e.mem) <= Len(b.mem)
    BY <1>1, <2>1
  <2> QED BY <1>1, <2>1, <2>2, <2>3
<1>5. CASE ~(writableBytes(b) >= len) /\ Len(m) - b.w + b.r - 8 < len
  <2> DEFINE g == Resize(m, b.w + len)
  <2>1. e = [b EXCEPT !.mem = g]
    BY <1>2, <1>5 DEF ensureSpace
  <2>2. b.w + len \in Nat /\ Len(m) < b.w + len
    BY <1>1, <1>2, <1>5
  <2>3. g \in Seq(S) /\ Len(g) = b.w + len /\ \A i \in 1..(b.w + len) : i <= Len(m) => g[i] = m[i]
    BY <1>1, <2>2, ResizeIs
  <2> HIDE DEF g, m, all
  <2>4. e = [mem |-> g, r |-> b.r, w |-> b.w]
    BY <1>1, <2>1
  <2>5. BufferOK(e, S)
    BY <1>1, <2>2, <2>3, <2>4, MakeBuffer
  <2>6. e.mem = g /\ e.r = b.r /\ e.w = b.w
    BY <2>4
  <2>7. \A i \in 1..(e.w - e.r) : e.mem[e.r + i] = all[i]
    <3> SUFFICES ASSUME NEW i \in 1..(b.w - b.r) PROVE g[b.r + i] = all[i]
      BY <2>6
    <3>1. b.r + i \in 1..(b.w + len) /\ b.r + i <= Len(m)
      BY <1>1, <2>2
    <3>2. g[b.r + i] = m[b.r + i]
      BY <2>3, <3>1
    <3> QED BY <1>3, <3>2
  <2>8. Contents(e) = all
    <3> HIDE DEF e
    <3> QED BY <1>3, <2>5, <2>6, <2>7, ContentsAre
  <2>9. e.w + len <= Len(e.mem) /\ Len(e.mem) <= b.w + len
    BY <1>1, <2>3, <2>6
  <2> QED BY <1>1, <2>3, <2>5, <2>6, <2>8, <2>9 DEF Reserved, prepends, all
<1>6. CASE ~(writableBytes(b) >= len) /\ ~(Len(m) - b.w + b.r - 8 < len)
  <2> DEFINE g == Put(m, 8, all)
             k == b.w - b.r
  <2>1. e = [mem |-> g, r |-> 8, w |-> 8 + k]
    BY <1>2, <1>6 DEF ensureSpace, prepends
  <2>2. k \in Nat /\ 8 + k + len <= Len(m) /\ 8 + k <= b.w
    BY <1>1, <1>2, <1>6
  <2>3. /\ g \in Seq(S) /\ Len(g) = Len(m)
        /\ \A i \in 1..Len(m) : g[i] = IF 8 < i /\ i <= 8 + Len(all) THEN all[i - 8] ELSE m[i]
    <3> HIDE DEF all, m, k
    <3> DEFINE z == 8
    <3>1. z + Len(all) <= Len(m) /\ z \in Nat
      BY <1>1, <1>3, <2>2 DEF k
    <3> HIDE DEF z
    <3>2. /\ Put(m, z, all) \in Seq(S) /\ Len(Put(m, z, all)) = Len(m)
          /\ \A i \in 1..Len(m) :
               Put(m, z, all)[i] = IF z < i /\ i <= z + Len(all) THEN all[i - z] ELSE m[i]
      <4>1. m \in Seq(S) /\ all \in Seq(S)
        BY <1>1, <1>3
      <4> QED BY <3>1, <4>1, PutIs
    <3> QED BY <3>2 DEF z
  <2> HIDE DEF g, m, all
  <2>4. Len(all) = k
    BY <1>3
  <2> HIDE DEF k
  <2>5. BufferOK(e, S)
    <3>1. /\ 8 \in Nat /\ 8 + k \in Nat /\ 8 <= 8 + k
          /\ 8 + k <= Len(g) /\ 8 <= Len(g) /\ Len(g) < SizeMod
      BY <1>1, <2>2, <2>3
    <3>2. BufferOK([mem |-> g, r |-> 8, w |-> 8 + k], S)
      <4> DEFINE x == 8
                 y == 8 + k
      <4>1. x \in Nat /\ y \in Nat /\ x <= y /\ y <= Len(g) /\ 8 <= Len(g) /\ Len(g) < SizeMod
        BY <3>1
      <4> HIDE DEF x, y
      <4>2. BufferOK([mem |-> g, r |-> x, w |-> y], S)
        BY <2>3, <4>1, MakeBuffer
      <4> QED BY <4>2 DEF x, y
    <3> QED BY <2>1, <3>2
  <2>6. e.mem = g /\ e.r = 8 /\ e.w = 8 + k
    BY <2>1
  <2>7. \A i \in 1..(e.w - e.r) : e.mem[e.r + i] = all[i]
    <3> SUFFICES ASSUME NEW i \in 1..k PROVE g[8 + i] = all[i]
      BY <2>2, <2>6
    <3>1. 8 + i \in 1..Len(m) /\ 8 < 8 + i /\ 8 + i <= 8 + Len(all) /\ (8 + i) - 8 = i
      BY <1>1, <2>2, <2>4
    <3> QED BY <2>3, <3>1
  <2>8. Contents(e) = all
    <3>1. e.w - e.r = k
      BY <2>2, <2>6
    <3> HIDE DEF e
    <3> QED BY <1>3, <2>4, <2>5, <2>7, <3>1, ContentsAre
  <2>9. Reserved(e) /\ e.w + len <= Len(e.mem) /\ e.w <= b.w
    BY <2>2, <2>3, <2>6 DEF Reserved, prepends
  <2>10. Len(e.mem) <= Len(b.mem)
    BY <1>1, <2>3, <2>6 DEF m
  <2> QED BY <2>5, <2>8, <2>9, <2>10 DEF all
<1> QED BY <1>4, <1>5, <1>6

(* Bytes copied to the write index, where there is room for them.           *)
Written(b, data) == [b EXCEPT !.mem = Put(b.mem, b.w, data), !.w = b.w + Len(data)]

LEMMA WriteKeeps ==
  ASSUME NEW S, NEW b, BufferOK(b, S), NEW data \in Seq(S), b.w + Len(data) <= Len(b.mem)
  PROVE  /\ BufferOK(Written(b, data), S)
         /\ Written(b, data).r = b.r /\ Written(b, data).w = b.w + Len(data)
         /\ Len(Written(b, data).mem) = Len(b.mem)
         /\ Contents(Written(b, data)) = Contents(b) \o data
<1> DEFINE e == Written(b, data)
           m == b.mem
           k == Len(data)
           g == Put(m, b.w, data)
           all == Contents(b)
           sum == all \o data
<1>1. /\ m \in Seq(S) /\ b.r \in Nat /\ b.w \in Nat /\ Len(m) \in Nat /\ k \in Nat
      /\ b.r <= b.w /\ b.w <= Len(m) /\ 8 <= Len(m) /\ Len(m) < SizeMod /\ b.w + k <= Len(m)
      /\ b = [mem |-> m, r |-> b.r, w |-> b.w]
  BY FieldsAre, LenProperties
<1>2. /\ all \in Seq(S) /\ Len(all) = b.w - b.r
      /\ \A i \in 1..(b.w - b.r) : all[i] = m[b.r + i]
  BY ContentsIs
<1>3. /\ g \in Seq(S) /\ Len(g) = Len(m)
      /\ \A i \in 1..Len(m) : g[i] = IF b.w < i /\ i <= b.w + k THEN data[i - b.w] ELSE m[i]
  BY <1>1, PutIs
<1>4. /\ sum \in Seq(S) /\ Len(sum) = Len(all) + k
      /\ \A i \in 1 .. Len(all) + k : sum[i] = IF i <= Len(all) THEN all[i] ELSE data[i - Len(all)]
  <2>1. all \in Seq(S)
    BY <1>2
  <2> HIDE DEF all
  <2>2. /\ sum \in Seq(S) /\ Len(sum) = Len(all) + Len(data)
        /\ \A i \in 1 .. Len(all) + Len(data) : sum[i] = IF i <= Len(all) THEN all[i] ELSE data[i - Len(all)]
    BY Zenon, <2>1, ConcatProperties
  <2> QED BY <2>2
<1>5. e = [mem |-> g, r |-> b.r, w |-> b.w + k]
  <2> HIDE DEF g
  <2>1. e = [b EXCEPT !.mem = g, !.w = b.w + k]
    BY DEF Written, g
  <2> QED BY <1>1, <2>1
<1> HIDE DEF e, m, g, all, sum, k
<1>6. e.mem = g /\ e.r = b.r /\ e.w = b.w + k
  BY <1>5
<1>7. BufferOK(e, S)
  <2> DEFINE x == b.r
             y == b.w + k
  <2>1. x \in Nat /\ y \in Nat /\ x <= y /\ y <= Len(g) /\ 8 <= Len(g) /\ Len(g) < SizeMod
    BY <1>1, <1>3
  <2> HIDE DEF x, y
  <2>2. BufferOK([mem |-> g, r |-> x, w |-> y], S)
    BY <1>3, <2>1, MakeBuffer
  <2> QED BY <1>5, <2>2 DEF x, y
<1>8. Len(sum) = e.w - e.r
  BY <1>1, <1>2, <1>4, <1>6
<1>9. ASSUME NEW i \in 1..(e.w - e.r) PROVE e.mem[e.r + i] = sum[i]
  <2>1. i \in 1..(Len(all) + k) /\ b.r + i \in 1..Len(m) /\ i \in Int
    BY <1>1, <1>2, <1>6
  <2>2. e.mem[e.r + i] = g[b.r + i]
    BY <1>6
  <2>3. CASE i <= Len(all)
    <3>1. i \in 1..(b.w - b.r) /\ ~(b.w < b.r + i)
      BY <1>1, <1>2, <2>1, <2>3
    <3>2. g[b.r + i] = m[b.r + i] /\ sum[i] = all[i] /\ all[i] = m[b.r + i]
      BY <1>2, <1>3, <1>4, <2>1, <2>3, <3>1
    <3> QED BY <2>2, <3>2
  <2>4. CASE ~(i <= Len(all))
    <3>1. b.w < b.r + i /\ b.r + i <= b.w + k /\ (b.r + i) - b.w = i - Len(all)
      <4>1. /\ b.r \in Nat /\ b.w \in Nat /\ k \in Nat /\ i \in Int
            /\ Len(all) = b.w - b.r /\ i <= Len(all) + k /\ Len(all) < i
        BY <1>1, <1>2, <2>1, <2>4
      <4> QED BY <4>1
    <3>2. g[b.r + i] = data[i - Len(all)] /\ sum[i] = data[i - Len(all)]
      BY <1>3, <1>4, <2>1, <2>4, <3>1
    <3> QED BY <2>2, <3>2
  <2> QED BY <2>3, <2>4
<1>10. Contents(e) = sum
  BY <1>4, <1>7, <1>8, <1>9, ContentsAre
<1> QED BY <1>3, <1>6, <1>7, <1>10 DEF e, m, all, sum, k
-----------------------------------------------------------------------------
(* The operations *)

(* append (Buffer.cpp) adds the bytes behind those that are there, whether  *)
(* ensureSpace has to move them, to grow the vector, or neither; a buffer   *)
(* that keeps its reserved bytes goes on keeping them.                      *)
THEOREM AppendKeeps ==
  ASSUME NEW S, Hole \in S, NEW b, BufferOK(b, S), Reserved(b),
         NEW data \in Seq(S), b.w + Len(data) < SizeMod
  PROVE  /\ BufferOK(append(b, data), S) /\ Reserved(append(b, data))
         /\ Contents(append(b, data)) = Contents(b) \o data
         /\ append(b, data).w <= b.w + Len(data)
         /\ \/ Len(append(b, data).mem) <= Len(b.mem)
            \/ Len(append(b, data).mem) <= b.w + Len(data)
<1> DEFINE e == ensureSpace(b, Len(data))
<1>1. /\ BufferOK(e, S) /\ Reserved(e) /\ Contents(e) = Contents(b)
      /\ e.w + Len(data) <= Len(e.mem) /\ e.w <= b.w
      /\ Len(e.mem) <= Len(b.mem) \/ Len(e.mem) <= b.w + Len(data)
  <2>1. Len(data) \in Nat
    BY LenProperties
  <2> DEFINE n == Len(data)
  <2> HIDE DEF n
  <2>2. n \in Nat /\ b.w + n < SizeMod
    BY <2>1 DEF n
  <2>3. /\ BufferOK(ensureSpace(b, n), S) /\ Reserved(ensureSpace(b, n))
        /\ Contents(ensureSpace(b, n)) = Contents(b)
        /\ ensureSpace(b, n).w + n <= Len(ensureSpace(b, n).mem)
        /\ ensureSpace(b, n).w <= b.w
        /\ \/ Len(ensureSpace(b, n).mem) <= Len(b.mem)
           \/ Len(ensureSpace(b, n).mem) <= b.w + n
    BY <2>2, SpaceEnsured
  <2> QED BY <2>3 DEF n
<1>2. append(b, data) = Written(e, data)
  BY DEF append, Written
<1> HIDE DEF e
<1>3. /\ BufferOK(Written(e, data), S) /\ Written(e, data).r = e.r
      /\ Contents(Written(e, data)) = Contents(e) \o data
      /\ Written(e, data).w = e.w + Len(data) /\ Len(Written(e, data).mem) = Len(e.mem)
  <2>1. BufferOK(e, S) /\ e.w + Len(data) <= Len(e.mem)
    BY <1>1
  <2> QED BY <2>1, WriteKeeps
<1>4. Reserved(Written(e, data))
  BY <1>1, <1>3 DEF Reserved
<1>5. Written(e, data).w <= b.w + Len(data)
  <2>1. e.w \in Nat /\ b.w \in Nat /\ Len(data) \in Nat
    BY <1>1, FieldsAre, LenProperties
  <2> QED BY <1>1, <1>3, <2>1
<1>6. \/ Len(append(b, data).mem) <= Len(b.mem)
      \/ Len(append(b, data).mem) <= b.w + Len(data)
  BY <1>1, <1>2, <1>3
<1>7. Contents(append(b, data)) = Contents(b) \o data
  BY <1>1, <1>2, <1>3
<1> QED BY <1>2, <1>3, <1>4, <1>5, <1>6, <1>7

(* readFd (Buffer.cpp) adds what readv took, the part that went to the      *)
(* stack buffer included, in order and without a gap.                       *)
THEOREM ReadKeeps ==
  ASSUME NEW S, Hole \in S, NEW b, BufferOK(b, S), Reserved(b),
         NEW data \in Seq(S), Len(data) <= MaxRead(b), Len(b.mem) + ExtraBuf < SizeMod
  PROVE  /\ BufferOK(readFd(b, data), S) /\ Reserved(readFd(b, data))
         /\ Contents(readFd(b, data)) = Contents(b) \o data
         /\ readFd(b, data).w <= b.w + Len(data)
         /\ \/ Len(readFd(b, data).mem) <= Len(b.mem)
            \/ Len(readFd(b, data).mem) <= b.w + Len(data)
<1> DEFINE k == Len(data)
           room == Len(b.mem) - b.w
           here == Min2(k, room)
           one == SubSeq(data, 1, here)
           two == SubSeq(data, here + 1, k)
           b1 == Written(b, one)
<1>1. /\ b.r \in Nat /\ b.w \in Nat /\ Len(b.mem) \in Nat /\ b.r <= b.w /\ b.w <= Len(b.mem)
      /\ k \in Nat /\ room \in Nat /\ here \in Nat /\ here <= k /\ here <= room /\ ExtraBuf \in Nat
      /\ b.w + here <= Len(b.mem) /\ SizeMod \in Nat
      /\ (k <= room => here = k) /\ (~(k <= room) => here = room)
  <2>1. /\ b.r \in Nat /\ b.w \in Nat /\ Len(b.mem) \in Nat /\ k \in Nat
        /\ b.r <= b.w /\ b.w <= Len(b.mem) /\ ExtraBuf \in Nat /\ SizeMod \in Nat
    BY FieldsAre, LenProperties, SizeModPositive
  <2> HIDE DEF k
  <2> QED BY <2>1 DEF Min2
<1>2. writableBytes(b) = room
  BY SizesAre
<1>3. /\ one \in Seq(S) /\ Len(one) = here
      /\ two \in Seq(S) /\ Len(two) = k - here /\ one \o two = data
  <2> HIDE DEF here
  <2>1. one \in Seq(S) /\ Len(one) = here
    BY <1>1, FirstIs
  <2>2. two \in Seq(S) /\ Len(two) = k - here
    BY <1>1, RestIs
  <2>3. one \o two = data
    BY <1>1, FirstThenRest
  <2> QED BY <2>1, <2>2, <2>3
<1>4. readFd(b, data) = IF k <= room THEN [b EXCEPT !.mem = Put(b.mem, b.w, one), !.w = b.w + here]
                        ELSE append([b EXCEPT !.mem = Put(b.mem, b.w, one), !.w = b.w + here], two)
  BY <1>2 DEF readFd
<1>5. b1 = [b EXCEPT !.mem = Put(b.mem, b.w, one), !.w = b.w + here]
  BY <1>3 DEF Written
<1> HIDE DEF here, one, two, room, k
<1>6. /\ BufferOK(b1, S) /\ b1.r = b.r /\ b1.w = b.w + here
      /\ Contents(b1) = Contents(b) \o one /\ Len(b1.mem) = Len(b.mem)
  <2>1. b.w + Len(one) <= Len(b.mem)
    BY <1>1, <1>3
  <2>2. /\ BufferOK(Written(b, one), S) /\ Written(b, one).r = b.r
        /\ Written(b, one).w = b.w + Len(one)
        /\ Contents(Written(b, one)) = Contents(b) \o one
        /\ Len(Written(b, one).mem) = Len(b.mem)
    BY <1>3, <2>1, WriteKeeps
  <2> QED BY <1>3, <2>2
<1> HIDE DEF b1
<1>7. Reserved(b1)
  BY <1>6 DEF Reserved
<1>8. CASE k <= room
  <2>1. readFd(b, data) = b1
    BY <1>4, <1>5, <1>8
  <2>2. one = data
    <3>1. SubSeq(data, 1, Len(data)) = data
      BY SubSeqFull
    <3>2. here = Len(data)
      BY <1>1, <1>8 DEF k
    <3> QED BY <3>1, <3>2 DEF one
  <2>3. readFd(b, data).w <= b.w + Len(data) /\ Len(readFd(b, data).mem) <= Len(b.mem)
    BY <1>1, <1>6, <2>1 DEF k
  <2> QED BY <1>6, <1>7, <2>1, <2>2, <2>3
<1>9. CASE ~(k <= room)
  <2>1. readFd(b, data) = append(b1, two)
    BY <1>4, <1>5, <1>9
  <2>2. b1.w + Len(two) < SizeMod
    <3>1. k <= room + ExtraBuf
      <4>1. MaxRead(b) = room + ExtraBuf \/ MaxRead(b) = room
        BY <1>1, <1>2 DEF MaxRead
      <4> QED BY <1>1, <4>1 DEF k
    <3>2. Len(b.mem) + ExtraBuf < SizeMod
      OBVIOUS
    <3>3. b.w + room = Len(b.mem)
      BY <1>1 DEF room
    <3> QED BY <1>1, <1>3, <1>6, <1>9, <3>1, <3>2, <3>3
  <2>3. /\ BufferOK(append(b1, two), S) /\ Reserved(append(b1, two))
        /\ Contents(append(b1, two)) = Contents(b1) \o two
        /\ append(b1, two).w <= b1.w + Len(two)
        /\ \/ Len(append(b1, two).mem) <= Len(b1.mem)
           \/ Len(append(b1, two).mem) <= b1.w + Len(two)
    BY <1>3, <1>6, <1>7, <2>2, AppendKeeps
  <2>4. (Contents(b) \o one) \o two = Contents(b) \o (one \o two)
    <3> DEFINE all == Contents(b)
    <3>1. all \in Seq(S)
      BY ContentsIs
    <3>2. one \in Seq(S) /\ two \in Seq(S)
      BY <1>3
    <3> HIDE DEF all
    <3>3. (all \o one) \o two = all \o (one \o two)
      BY <3>1, <3>2, ConcatAssociative
    <3> QED BY <3>3 DEF all
  <2>5. b1.w + Len(two) = b.w + Len(data)
    BY <1>1, <1>3, <1>6 DEF k
  <2> QED BY <1>3, <1>6, <2>1, <2>3, <2>4, <2>5
<1> QED BY <1>8, <1>9

(* retrieve and writeFd (Buffer.cpp) take the first bytes and leave the     *)
(* rest; whoever takes as many as there are, or more, leaves nothing.       *)
THEOREM RetrieveKeeps ==
  ASSUME NEW S, NEW b, BufferOK(b, S), NEW len \in Nat
  PROVE  /\ BufferOK(retrieve(b, len), S) /\ BufferOK(writeFd(b, len), S)
         /\ Reserved(b) => Reserved(retrieve(b, len)) /\ Reserved(writeFd(b, len))
         /\ Contents(retrieve(b, len)) = Rest(Contents(b), len)
         /\ Contents(writeFd(b, len)) = Rest(Contents(b), len)
<1> DEFINE m == b.mem
           all == Contents(b)
           k == b.w - b.r
           e == retrieve(b, len)
           cut == Min2(len, k)
           left == SubSeq(all, cut + 1, Len(all))
<1>1. /\ m \in Seq(S) /\ b.r \in Nat /\ b.w \in Nat /\ Len(m) \in Nat
      /\ b.r <= b.w /\ b.w <= Len(m) /\ 8 <= Len(m) /\ Len(m) < SizeMod
      /\ b = [mem |-> m, r |-> b.r, w |-> b.w]
  BY FieldsAre
<1>2. /\ all \in Seq(S) /\ Len(all) = k /\ k \in Nat
      /\ \A i \in 1..k : all[i] = m[b.r + i]
  BY ContentsIs
<1>3. readableBytes(b) = k
  BY SizesAre
<1>4. cut \in Nat /\ cut <= k /\ (len < k => cut = len) /\ (~(len < k) => cut = k)
  <2> HIDE DEF k
  <2> QED BY <1>2 DEF Min2
<1>5. /\ left \in Seq(S) /\ Len(left) = k - cut /\ \A i \in 1..(k - cut) : left[i] = all[cut + i]
  <2> HIDE DEF all, cut, k
  <2> QED BY <1>2, <1>4, RestIs
<1>6. Rest(all, len) = left
  <2> HIDE DEF all, k
  <2> QED BY <1>2 DEF Rest, cut
<1> HIDE DEF m, all, k, cut, left
<1>7. BufferOK(e, S) /\ (Reserved(b) => Reserved(e)) /\ Contents(e) = left
  <2>1. CASE len < k
    <3> DEFINE x == b.r + len
    <3>1. e = [mem |-> m, r |-> x, w |-> b.w]
      BY <1>1, <1>3, <2>1 DEF retrieve
    <3>2. x \in Nat /\ x <= b.w /\ x >= b.r /\ b.w - x = k - cut
      BY <1>1, <1>4, <2>1 DEF k
    <3>3. \A i \in 1..(k - cut) : m[x + i] = left[i]
      <4> SUFFICES ASSUME NEW i \in 1..(k - cut) PROVE m[x + i] = left[i]
        OBVIOUS
      <4>1. cut + i \in 1..k /\ b.r + (cut + i) = x + i
        BY <1>1, <1>2, <1>4, <2>1
      <4> QED BY <1>2, <1>5, <4>1
    <3> HIDE DEF x, e
    <3>4. e.mem = m /\ e.r = x /\ e.w = b.w
      BY <3>1
    <3>5. BufferOK(e, S)
      BY <1>1, <3>1, <3>2, MakeBuffer
    <3>6. Reserved(b) => Reserved(e)
      BY <1>1, <3>2, <3>4 DEF Reserved, prepends
    <3>7. Len(left) = e.w - e.r /\ \A i \in 1..(e.w - e.r) : e.mem[e.r + i] = left[i]
      BY <1>5, <3>2, <3>3, <3>4
    <3>8. Contents(e) = left
      BY <1>5, <3>5, <3>7, ContentsAre
    <3> QED BY <3>5, <3>6, <3>8
  <2>2. CASE ~(len < k)
    <3> DEFINE x == 8
    <3>1. e = [mem |-> m, r |-> x, w |-> x]
      <4>1. e = retrieveAll(b)
        BY <1>3, <2>2 DEF retrieve
      <4>2. retrieveAll(b) = [b EXCEPT !.r = x, !.w = x]
        BY DEF retrieveAll, prepends
      <4> HIDE DEF x, e
      <4>3. [b EXCEPT !.r = x, !.w = x] = [mem |-> m, r |-> x, w |-> x]
        <5> DEFINE f == [b EXCEPT !.r = x]
        <5>1. f = [mem |-> m, r |-> x, w |-> b.w]
          BY <1>1
        <5>2. [b EXCEPT !.r = x, !.w = x] = [f EXCEPT !.w = x]
          OBVIOUS
        <5> HIDE DEF f
        <5>3. [f EXCEPT !.w = x] = [mem |-> m, r |-> x, w |-> x]
          BY <5>1
        <5> QED BY <5>2, <5>3
      <4> QED BY <4>1, <4>2, <4>3
    <3>2. x \in Nat /\ x <= x /\ x <= Len(m) /\ x - x = 0 /\ k - cut = 0 /\ x >= 8
      BY <1>1, <1>2, <1>4, <2>2
    <3> HIDE DEF x, e
    <3>3. e.mem = m /\ e.r = x /\ e.w = x
      BY <3>1
    <3>4. BufferOK(e, S)
      BY <1>1, <3>1, <3>2, MakeBuffer
    <3>5. Reserved(e)
      BY <3>2, <3>3 DEF Reserved, prepends
    <3>6. Len(left) = e.w - e.r /\ \A i \in 1..(e.w - e.r) : e.mem[e.r + i] = left[i]
      BY <1>5, <3>2, <3>3
    <3>7. Contents(e) = left
      BY <1>5, <3>4, <3>6, ContentsAre
    <3> QED BY <3>4, <3>5, <3>7
  <2> QED BY <2>1, <2>2
<1>8. writeFd(b, len) = e \/ (len = 0 /\ writeFd(b, len) = b)
  BY DEF writeFd
<1>9. len = 0 => all = left
  <2> SUFFICES ASSUME len = 0 PROVE all = left
    OBVIOUS
  <2>1. cut = 0
    BY <1>2, <1>4
  <2>2. Len(left) = Len(all) /\ \A i \in 1..Len(all) : left[i] = all[i]
    BY <1>2, <1>5, <2>1
  <2> QED BY <1>2, <1>5, <2>2, SeqEqual
<1> HIDE DEF e
<1>10. BufferOK(writeFd(b, len), S) /\ (Reserved(b) => Reserved(writeFd(b, len)))
       /\ Contents(writeFd(b, len)) = left
  BY <1>7, <1>8, <1>9 DEF all
<1> QED BY <1>6, <1>7, <1>10 DEF e, all

(* What was taken stays where it is: the vector and its end do not change.  *)
LEMMA RetrieveSizes ==
  ASSUME NEW S, NEW b, BufferOK(b, S), Reserved(b), NEW len \in Nat
  PROVE  retrieve(b, len).w <= b.w /\ retrieve(b, len).mem = b.mem
<1>1. b.r \in Nat /\ b.w \in Nat /\ b.r <= b.w /\ 8 <= b.r /\ b = [mem |-> b.mem, r |-> b.r, w |-> b.w]
  BY FieldsAre DEF Reserved, prepends
<1>2. retrieve(b, len) = [b EXCEPT !.r = b.r + len] \/ retrieve(b, len) = retrieveAll(b)
  BY DEF retrieve
<1>3. CASE retrieve(b, len) = [b EXCEPT !.r = b.r + len]
  BY <1>1, <1>3
<1>4. CASE retrieve(b, len) = retrieveAll(b)
  <2>1. retrieveAll(b).w = 8 /\ retrieveAll(b).mem = b.mem
    <3> DEFINE z == 8
    <3> HIDE DEF z
    <3>1. retrieveAll(b) = [b EXCEPT !.r = z, !.w = z]
      BY DEF retrieveAll, prepends, z
    <3>2. retrieveAll(b).w = z /\ retrieveAll(b).mem = b.mem
      BY <1>1, <3>1
    <3> QED BY <3>2 DEF z
  <2> QED BY <1>1, <1>4, <2>1
<1> QED BY <1>2, <1>3, <1>4

(* prepend (Buffer.cpp) puts as many bytes as fit in front of the first one *)
(* and leaves those behind them alone.                                      *)
THEOREM PrependKeeps ==
  ASSUME NEW S, NEW b, BufferOK(b, S), NEW data \in Seq(S)
  PROVE  /\ BufferOK(prepend(b, data), S)
         /\ Contents(prepend(b, data)) = First(data, b.r) \o Contents(b)
<1> DEFINE m == b.mem
           all == Contents(b)
           n == Min2(Len(data), b.r)
           new == SubSeq(data, 1, n)
           x == b.r - n
           g == Put(m, x, new)
           e == prepend(b, data)
           sum == new \o all
<1>1. /\ m \in Seq(S) /\ b.r \in Nat /\ b.w \in Nat /\ Len(m) \in Nat
      /\ b.r <= b.w /\ b.w <= Len(m) /\ 8 <= Len(m) /\ Len(m) < SizeMod
      /\ b = [mem |-> m, r |-> b.r, w |-> b.w] /\ Len(data) \in Nat
  BY FieldsAre, LenProperties
<1>2. /\ all \in Seq(S) /\ Len(all) = b.w - b.r
      /\ \A i \in 1..(b.w - b.r) : all[i] = m[b.r + i]
  BY ContentsIs
<1>3. /\ n \in Nat /\ n <= b.r /\ n <= Len(data) /\ n = Min2(b.r, Len(data))
      /\ x \in Nat /\ x <= b.r /\ x + n = b.r
  BY <1>1 DEF Min2
<1>4. new \in Seq(S) /\ Len(new) = n
  <2> HIDE DEF n
  <2> QED BY <1>3, FirstIs
<1>5. First(data, b.r) = new
  BY <1>3 DEF First
<1>6. e = [mem |-> g, r |-> x, w |-> b.w]
  <2> HIDE DEF g
  <2>1. e = [b EXCEPT !.r = x, !.mem = g]
    BY DEF prepend, prependableBytes, g
  <2> QED BY <1>1, <2>1
<1> HIDE DEF m, all, n, new, x, e
<1>7. /\ g \in Seq(S) /\ Len(g) = Len(m)
      /\ \A i \in 1..Len(m) : g[i] = IF x < i /\ i <= x + n THEN new[i - x] ELSE m[i]
  <2>1. x + Len(new) <= Len(m)
    BY <1>1, <1>3, <1>4
  <2>2. /\ g \in Seq(S) /\ Len(g) = Len(m)
        /\ \A i \in 1..Len(m) : g[i] = IF x < i /\ i <= x + Len(new) THEN new[i - x] ELSE m[i]
    BY <1>1, <1>3, <1>4, <2>1, PutIs
  <2> HIDE DEF g
  <2> QED BY <1>4, <2>2
<1>8. /\ sum \in Seq(S) /\ Len(sum) = n + Len(all)
      /\ \A i \in 1 .. n + Len(all) : sum[i] = IF i <= n THEN new[i] ELSE all[i - n]
  BY <1>2, <1>4, ConcatProperties
<1> HIDE DEF g, sum
<1>9. e.mem = g /\ e.r = x /\ e.w = b.w
  BY <1>6
<1>10. BufferOK(e, S)
  <2>1. x <= b.w /\ b.w <= Len(g) /\ 8 <= Len(g) /\ Len(g) < SizeMod
    BY <1>1, <1>3, <1>7
  <2> QED BY <1>1, <1>3, <1>6, <1>7, <2>1, MakeBuffer
<1>11. Len(sum) = e.w - e.r
  BY <1>1, <1>2, <1>3, <1>8, <1>9
<1>12. ASSUME NEW i \in 1..(e.w - e.r) PROVE e.mem[e.r + i] = sum[i]
  <2>1. i \in 1..(n + Len(all)) /\ x + i \in 1..Len(m) /\ i \in Int
    BY <1>1, <1>2, <1>3, <1>9
  <2>2. e.mem[e.r + i] = g[x + i]
    BY <1>9
  <2>3. CASE i <= n
    <3>1. x < x + i /\ x + i <= x + n /\ (x + i) - x = i
      BY <1>3, <2>1, <2>3
    <3> QED BY <1>7, <1>8, <2>1, <2>2, <2>3, <3>1
  <2>4. CASE ~(i <= n)
    <3>1. ~(x + i <= x + n) /\ i - n \in 1..(b.w - b.r) /\ b.r + (i - n) = x + i
      <4>1. /\ b.r \in Nat /\ b.w \in Nat /\ n \in Nat /\ x \in Nat /\ x + n = b.r /\ i \in Int
            /\ Len(all) = b.w - b.r /\ i <= n + Len(all) /\ n < i
        BY <1>1, <1>2, <1>3, <2>1, <2>4
      <4> QED BY <4>1
    <3>2. g[x + i] = m[x + i] /\ sum[i] = all[i - n] /\ all[i - n] = m[x + i]
      BY <1>2, <1>7, <1>8, <2>1, <2>4, <3>1
    <3> QED BY <2>2, <3>2
  <2> QED BY <2>3, <2>4
<1>13. Contents(e) = sum
  BY <1>8, <1>10, <1>11, <1>12, ContentsAre
<1> QED BY <1>5, <1>10, <1>13 DEF e, sum, all

(* readAsString (Buffer.cpp) gives the caller the first bytes and keeps     *)
(* the rest: nothing is lost between the two and nothing is read twice.     *)
THEOREM ReadAsStringSplits ==
  ASSUME NEW S, NEW b, BufferOK(b, S), NEW len \in Nat
  PROVE  LET got == readAsString(b, len)[1]
             kept == readAsString(b, len)[2]
         IN  /\ BufferOK(kept, S)
             /\ got = First(Contents(b), len) /\ Contents(kept) = Rest(Contents(b), len)
             /\ got \o Contents(kept) = Contents(b)
<1> DEFINE all == Contents(b)
           cut == Min2(len, Len(all))
<1>1. all \in Seq(S) /\ Len(all) \in Nat /\ readableBytes(b) = Len(all)
  <2>1. all \in Seq(S) /\ Len(all) = b.w - b.r
    BY ContentsIs
  <2> QED BY <2>1, SizesAre, LenProperties
<1>2. cut \in Nat /\ cut <= Len(all) /\ Min2(cut, Len(all)) = cut
  <2> HIDE DEF all
  <2> QED BY <1>1 DEF Min2
<1>3. readAsString(b, len) = <<SubSeq(all, 1, cut), retrieve(b, cut)>>
  BY <1>1 DEF readAsString
<1>4. First(all, len) = SubSeq(all, 1, cut) /\ Rest(all, len) = SubSeq(all, cut + 1, Len(all))
      /\ Rest(all, cut) = SubSeq(all, cut + 1, Len(all))
  <2>1. Rest(all, cut) = SubSeq(all, Min2(cut, Len(all)) + 1, Len(all))
    BY DEF Rest
  <2> QED BY <1>2, <2>1 DEF First, Rest
<1> HIDE DEF cut
<1>5. BufferOK(retrieve(b, cut), S) /\ Contents(retrieve(b, cut)) = Rest(all, cut)
  BY <1>2, RetrieveKeeps
<1>6. SubSeq(all, 1, cut) \o SubSeq(all, cut + 1, Len(all)) = all
  <2> HIDE DEF all
  <2> QED BY <1>1, <1>2, FirstThenRest
<1>7. readAsString(b, len)[1] = SubSeq(all, 1, cut)
  <2> DEFINE got == SubSeq(all, 1, cut)
  <2>1. readAsString(b, len) = <<got, retrieve(b, cut)>>
    BY <1>3
  <2> HIDE DEF got
  <2>2. readAsString(b, len)[1] = got
    BY <2>1
  <2> QED BY <2>2 DEF got
<1>8. readAsString(b, len)[2] = retrieve(b, cut)
  BY <1>3
<1> QED BY <1>4, <1>5, <1>6, <1>7, <1>8

(* A buffer of its own making: the constructor (Buffer.cpp).                *)
LEMMA NewBuffer ==
  ASSUME NEW S, Hole \in S
  PROVE  /\ BufferOK(Buffer(InitialSize), S) /\ Reserved(Buffer(InitialSize))
         /\ Buffer(InitialSize).w = 8 /\ Len(Buffer(InitialSize).mem) = 8 + InitialSize
         /\ Contents(Buffer(InitialSize)) = <<>>
<1> DEFINE new == Buffer(InitialSize)
           m0 == [i \in 1..(prepends + InitialSize) |-> Hole]
<1>1. SizeMod \in Nat /\ InitialSize \in Nat /\ 8 + InitialSize < SizeMod
  BY SizeModPositive, BufferAssumption
<1>2. m0 \in Seq(S) /\ Len(m0) = 8 + InitialSize
  <2> DEFINE n == 8 + InitialSize
  <2>1. n \in Nat /\ m0 = [i \in 1..n |-> Hole]
    BY <1>1 DEF prepends
  <2> HIDE DEF n
  <2>2. m0 = [i \in 1..n |-> m0[i]] /\ \A i \in 1..n : m0[i] \in S
    BY <2>1
  <2> HIDE DEF m0
  <2>3. m0 \in Seq(S) /\ Len(m0) = n
    BY <2>1, <2>2, FunctionIsSeq
  <2> QED BY <2>3 DEF n
<1>3. BufferOK(new, S) /\ Reserved(new) /\ new.w = 8 /\ new.r = 8 /\ new.mem = m0
  <2> DEFINE z == 8
  <2> HIDE DEF m0
  <2>1. new = [mem |-> m0, r |-> z, w |-> z]
    BY DEF Buffer, prepends, m0
  <2>2. z \in Nat /\ z <= z /\ z <= Len(m0) /\ 8 <= Len(m0) /\ Len(m0) < SizeMod
    BY <1>1, <1>2
  <2> HIDE DEF z, new
  <2>3. BufferOK(new, S) /\ new.r = z /\ new.w = z /\ new.mem = m0
    BY <1>2, <2>1, <2>2, MakeBuffer
  <2> QED BY <2>3 DEF z, Reserved, prepends
<1>4. Contents(new) = <<>>
  <2>1. Contents(new) \in Seq(S) /\ Len(Contents(new)) = new.w - new.r
    BY <1>3, ContentsIs
  <2>2. Len(Contents(new)) = 0
    BY <1>3, <2>1
  <2> QED BY <2>1, <2>2, EmptySeq
<1> QED BY <1>2, <1>3, <1>4

(* shrinkToFit (Buffer.cpp) moves the bytes to a buffer of its own making   *)
(* that reserves the bytes for prepend again, and loses none.               *)
THEOREM ShrinkKeeps ==
  ASSUME NEW S, Hole \in S, NEW b, BufferOK(b, S), Len(b.mem) + prepends < SizeMod
  PROVE  /\ BufferOK(shrinkToFit(b), S) /\ Reserved(shrinkToFit(b))
         /\ Contents(shrinkToFit(b)) = Contents(b)
<1> DEFINE new == Buffer(InitialSize)
           all == Contents(b)
           k == b.w - b.r
           e == ensureSpace(new, k)
<1>1. /\ b.r \in Nat /\ b.w \in Nat /\ Len(b.mem) \in Nat /\ b.r <= b.w /\ b.w <= Len(b.mem)
      /\ SizeMod \in Nat /\ InitialSize \in Nat /\ 8 + InitialSize < SizeMod
  BY FieldsAre, SizeModPositive, BufferAssumption
<1>2. all \in Seq(S) /\ Len(all) = k /\ k \in Nat /\ readableBytes(b) = k
  BY ContentsIs, SizesAre
<1>3. BufferOK(new, S) /\ Reserved(new) /\ new.w = 8 /\ Contents(new) = <<>>
  BY NewBuffer
<1> HIDE DEF new, k, all
<1>4. /\ BufferOK(e, S) /\ Reserved(e) /\ Contents(e) = <<>> /\ e.w <= 8 /\ e.w \in Nat
  <2>1. new.w + k < SizeMod
    BY <1>1, <1>3 DEF k, prepends
  <2>2. BufferOK(e, S) /\ Reserved(e) /\ Contents(e) = Contents(new) /\ e.w <= new.w
    BY <1>2, <1>3, <2>1, SpaceEnsured
  <2>3. e.w \in Nat
    BY <2>2, FieldsAre
  <2> QED BY <1>3, <2>2, <2>3
<1>5. shrinkToFit(b) = append(e, all)
  BY <1>2 DEF shrinkToFit, new, all
<1> HIDE DEF e
<1>6. e.w + Len(all) < SizeMod
  BY <1>1, <1>2, <1>4 DEF k, prepends
<1>7. /\ BufferOK(append(e, all), S) /\ Reserved(append(e, all))
      /\ Contents(append(e, all)) = Contents(e) \o all
  BY <1>2, <1>4, <1>6, AppendKeeps
<1>8. <<>> \o all = all
  BY <1>2, ConcatEmptySeq
<1> QED BY <1>4, <1>5, <1>7, <1>8 DEF all

------------------------------- \* HttpParser
(* The states in which Step has a branch.                                   *)
PlainStates ==
  {"s_start_req", "s_start_res", "s_req_spaces_before_url", "s_req_http_start",
   "s_res_first_status_code", "s_res_status_code", "s_res_status_start", "s_res_status",
   "s_header_field_start", "s_header_field", "s_header_value_discard_ws",
   "s_header_value_discard_lws", "s_header_value_start", "s_header_value",
   "s_header_value_lws", "s_headers_almost_done", "s_body_identity", "s_body_identity_eof",
   "s_chunk_size_start", "s_chunk_size", "s_chunk_size_almost_done", "s_chunk_data",
   "s_chunk_data_almost_done"}
MoveStates ==
  {"s_req_method", "s_req_http_end", "s_req_line_almost_done", "s_res_http_end",
   "s_res_line_almost_done", "s_header_almost_done", "s_header_value_discard_ws_almost_done",
   "s_chunk_parameters", "s_chunk_data_done", "s_dead"}
States == PlainStates \cup MoveStates \cup UrlStates

(* What every step of the parser keeps: it has a state that Step knows, and *)
(* only Count changes the number of bytes parsed.                           *)
IsParser(p) == "state" \in DOMAIN p /\ "count" \in DOMAIN p /\ p.state \in States
Keeps(p, q) == IsParser(q) /\ q.count = p.count

LEMMA MoveDomain == DOMAIN Otherwise = MoveStates
BY DEF Otherwise, MoveStates

LEMMA KeepsTrans ==
  ASSUME NEW p, NEW q, NEW r, Keeps(p, q), Keeps(q, r)
  PROVE  Keeps(p, r)
BY DEF Keeps

LEMMA SetKeeps ==
  ASSUME NEW p, IsParser(p), NEW f, f # "state", f # "count", NEW v
  PROVE  Keeps(p, [p EXCEPT ![f] = v])
BY DEF IsParser, Keeps

LEMMA ToKeeps ==
  ASSUME NEW p, IsParser(p), NEW s \in States
  PROVE  Keeps(p, To(p, s)) /\ To(p, s).state = s
BY DEF IsParser, Keeps, To

LEMMA FailKeeps ==
  ASSUME NEW p, IsParser(p), NEW e
  PROVE  Keeps(p, Fail(p, e)) /\ Fail(p, e).state = p.state
BY DEF IsParser, Keeps, Fail

LEMMA MarkKeeps ==
  ASSUME NEW p, IsParser(p), NEW m
  PROVE  Keeps(p, MARK(p, m)) /\ MARK(p, m).state = p.state
BY DEF IsParser, Keeps, MARK

LEMMA CallbackKeeps ==
  ASSUME NEW p, IsParser(p)
  PROVE  Keeps(p, Callback(p)) /\ Callback(p).state = p.state
<1> DEFINE Same(q) == Keeps(p, q) /\ q.state = p.state
<1>1. Same(on_header_field(p)) /\ Same(on_header_value(p)) /\ Same(on_body(p)) /\ Same(p)
  BY DEF on_header_field, on_header_value, on_body, IsParser, Keeps
<1>2. Same(on_url(p))
  <2> DEFINE u == http_parser_parse_url(p.text)
  <2> HIDE DEF u
  <2>1. Same(StoreUrl(p, u))
    BY DEF StoreUrl, Fail, IsParser, Keeps
  <2> QED BY <2>1 DEF on_url, u
<1>3. ASSUME NEW q, Same(q) PROVE Same(ClearMark(q))
  BY <1>3 DEF ClearMark, IsParser, Keeps
<1> HIDE DEF Same
<1>4. \/ Callback(p) = ClearMark(on_header_field(p)) \/ Callback(p) = ClearMark(on_header_value(p))
      \/ Callback(p) = ClearMark(on_body(p)) \/ Callback(p) = ClearMark(on_url(p))
      \/ Callback(p) = ClearMark(p)
  BY DEF Callback
<1>5. Same(Callback(p))
  BY <1>1, <1>2, <1>3, <1>4
<1> QED BY <1>5 DEF Same

-----------------------------------------------------------------------------
(* The branches of Step *)

LEMMA StartKeeps ==
  ASSUME NEW p, IsParser(p), NEW t
  PROVE  Keeps(p, StartRequest(p, t)) /\ Keeps(p, StartResponse(p, t))
<1> DEFINE n == NewMessage(p)
<1>1. Keeps(p, p) /\ Keeps(p, n) /\ IsParser(n)
  BY DEF NewMessage, IsParser, Keeps
<1> HIDE DEF n
<1>2. /\ "s_req_method" \in States /\ "s_res_http_end" \in States
  BY DEF States, MoveStates
<1>3. Keeps(p, To(n, "s_req_method")) /\ Keeps(p, To(n, "s_res_http_end"))
  BY <1>1, <1>2, ToKeeps, KeepsTrans
<1>4. /\ Keeps(p, [To(n, "s_req_method") EXCEPT !.method = t])
      /\ Keeps(p, [To(n, "s_res_http_end") EXCEPT !.version = VersionOf[t]])
  BY <1>3 DEF Keeps, IsParser
<1>5. Keeps(p, Fail(n, "INVALID_METHOD")) /\ Keeps(p, Fail(n, "INVALID_CONSTANT"))
  BY <1>1, FailKeeps, KeepsTrans
<1> HIDE DEF n
<1> QED BY <1>1, <1>4, <1>5 DEF StartRequest, StartResponse, n

LEMMA MoveKeeps ==
  ASSUME NEW p, IsParser(p), NEW t
  PROVE  Keeps(p, Move(p, t))
<1>1. \A m \in Moves : m[3] \in States
  BY DEF Moves, States, PlainStates, MoveStates
<1> DEFINE to == {m \in Moves : m[1] = p.state /\ m[2] = t}
           s == (CHOOSE m \in to : TRUE)[3]
<1>2. to # {} => s \in States
  <2> SUFFICES ASSUME to # {} PROVE s \in States
    OBVIOUS
  <2>1. (CHOOSE m \in to : TRUE) \in to
    OBVIOUS
  <2>2. (CHOOSE m \in to : TRUE) \in Moves
    BY <2>1
  <2> QED BY <1>1, <2>2
<1>3. Move(p, t) = IF to = {} THEN Fail(p, Otherwise[p.state]) ELSE To(p, s)
  BY DEF Move
<1> HIDE DEF to, s
<1> QED BY <1>2, <1>3, FailKeeps, ToKeeps

LEMMA UrlChars ==
  ASSUME NEW s \in UrlStates \cup {"s_req_spaces_before_url", "s_req_server_start"}, NEW t
  PROVE  parse_url_char(s, t) \in UrlStates \cup {"s_dead"}
<1>1. s # "s_dead" /\ s \in DOMAIN UrlMoves
  BY DEF UrlStates, UrlEnd, UrlMoves
<1>2. \A q \in DOMAIN UrlMoves : \A m \in UrlMoves[q] : m[2] \in UrlStates
  BY DEF UrlStates, UrlEnd, UrlMoves, ServerMoves, QueryMoves
<1> DEFINE table == UrlMoves[s]
           to == {m \in table : t \in m[1]}
<1>3. parse_url_char(s, t) = IF to = {} THEN "s_dead" ELSE (CHOOSE m \in to : TRUE)[2]
  BY <1>1 DEF parse_url_char, Lookup
<1>4. to # {} => (CHOOSE m \in to : TRUE) \in table
  <2> HIDE DEF table
  <2> QED OBVIOUS
<1> HIDE DEF to
<1> QED BY <1>1, <1>2, <1>3, <1>4

(* The URL of a request, and what ends it.                                  *)
LEMMA UrlKeeps ==
  ASSUME NEW p, IsParser(p), p.state \in UrlStates \cup {"s_req_spaces_before_url"}, NEW t
  PROVE  Keeps(p, Url(p, t))
<1> DEFINE first == p.state = "s_req_spaces_before_url"
           from == IF first /\ p.method = "CONNECT" THEN "s_req_server_start" ELSE p.state
           to == parse_url_char(from, t)
           m == IF first THEN MARK(p, "url") ELSE p
           q == To(m, to)
           next == CASE t = "SP" -> "s_req_http_start"
                     [] t = "CR" -> "s_req_line_almost_done"
                     [] t = "LF" -> "s_header_field_start"
           e == [To(p, next) EXCEPT !.version = IF t = "SP" THEN @ ELSE <<0, 9>>]
<1>1. to \in States
  <2>1. from \in UrlStates \cup {"s_req_spaces_before_url", "s_req_server_start"}
    OBVIOUS
  <2> HIDE DEF from
  <2>2. to \in UrlStates \cup {"s_dead"}
    BY <2>1, UrlChars
  <2> QED BY <2>2 DEF States, MoveStates
<1>2. Keeps(p, m)
  BY MarkKeeps DEF Keeps
<1> HIDE DEF to, m
<1>3. Keeps(p, q)
  BY <1>1, <1>2, ToKeeps, KeepsTrans DEF Keeps
<1>4. Keeps(p, Fail(q, "INVALID_URL"))
  <2> HIDE DEF q
  <2> QED BY <1>3, FailKeeps, KeepsTrans DEF Keeps
<1>5. t \in EOL \cup {"SP"} => Keeps(p, Callback(e))
  <2> SUFFICES ASSUME t \in EOL \cup {"SP"} PROVE Keeps(p, Callback(e))
    OBVIOUS
  <2>1. next \in States
    BY DEF EOL, States, PlainStates, MoveStates
  <2> HIDE DEF next
  <2>2. Keeps(p, To(p, next))
    BY <2>1, ToKeeps
  <2>3. Keeps(p, e)
    BY <2>2 DEF Keeps, IsParser
  <2> HIDE DEF e
  <2> QED BY <2>3, CallbackKeeps, KeepsTrans DEF Keeps
<1>6. Keeps(p, p)
  BY DEF Keeps
<1>7. Url(p, t) = IF first /\ t = "SP" THEN p
                  ELSE IF p.state \in UrlEnd /\ t \in EOL \cup {"SP"} THEN Callback(e)
                  ELSE IF to = "s_dead" THEN Fail(q, "INVALID_URL") ELSE q
  BY DEF Url, to, m
<1> HIDE DEF q, e, first
<1> QED BY <1>3, <1>4, <1>5, <1>6, <1>7

LEMMA KeepsSelf == ASSUME NEW p, IsParser(p) PROVE Keeps(p, p)
BY DEF Keeps

(* Where a branch ends, for the states it may end in.                       *)
LEMMA EndStates ==
  /\ PlainStates \subseteq States /\ MoveStates \subseteq States /\ UrlStates \subseteq States
  /\ "s_dead" \in States
BY DEF States, MoveStates

(* The version in a request line, and the status line.                      *)
LEMMA LineKeeps ==
  ASSUME NEW p, IsParser(p), NEW t
  PROVE  /\ Keeps(p, HttpStart(p, t)) /\ Keeps(p, FirstStatusCode(p, t))
         /\ Keeps(p, ResStatus(p, t)) /\ Keeps(p, StatusStart(p, t)) /\ Keeps(p, StatusCode(p, t))
<1>1. ASSUME NEW q, Keeps(p, q), NEW e PROVE Keeps(p, Fail(q, e))
  BY <1>1, FailKeeps, KeepsTrans DEF Keeps
<1>2. ASSUME NEW q, Keeps(p, q), NEW s \in States PROVE Keeps(p, To(q, s))
  BY <1>2, ToKeeps, KeepsTrans DEF Keeps
<1>3. Keeps(p, p)
  BY KeepsSelf
<1>4. /\ "s_req_http_end" \in States /\ "s_res_status_code" \in States
      /\ "s_res_line_almost_done" \in States /\ "s_header_field_start" \in States
      /\ "s_res_status" \in States /\ "s_res_status_start" \in States
  BY DEF States, PlainStates, MoveStates
<1>5. Keeps(p, HttpStart(p, t))
  <2>1. Keeps(p, To(p, "s_req_http_end")) /\ Keeps(p, Fail(p, "INVALID_CONSTANT"))
    BY <1>1, <1>2, <1>3, <1>4
  <2>2. Keeps(p, [To(p, "s_req_http_end") EXCEPT !.version = VersionOf[t]])
    BY <2>1 DEF Keeps, IsParser
  <2> QED BY <1>3, <2>1, <2>2 DEF HttpStart
<1>6. Keeps(p, FirstStatusCode(p, t))
  <2>1. Keeps(p, To(p, "s_res_status_code")) /\ Keeps(p, Fail(p, "INVALID_STATUS"))
    BY <1>1, <1>2, <1>3, <1>4
  <2>2. Keeps(p, [To(p, "s_res_status_code") EXCEPT !.code = unhex[t]])
    BY <2>1 DEF Keeps, IsParser
  <2> QED BY <1>3, <2>1, <2>2 DEF FirstStatusCode
<1>7. ASSUME NEW q, Keeps(p, q) PROVE Keeps(p, ResStatus(q, t))
  <2> DEFINE s == IF t = "CR" THEN "s_res_line_almost_done" ELSE "s_header_field_start"
  <2>1. Keeps(p, To(q, s))
    <3>1. s \in States
      BY <1>4
    <3> HIDE DEF s
    <3> QED BY <1>2, <1>7, <3>1
  <2>2. Keeps(p, Callback(To(q, s)))
    <3> HIDE DEF s
    <3> QED BY <2>1, CallbackKeeps, KeepsTrans DEF Keeps
  <2> QED BY <1>7, <2>2 DEF ResStatus
<1>8. ASSUME NEW q, Keeps(p, q) PROVE Keeps(p, StatusStart(q, t))
  <2> DEFINE m == MARK(q, "status")
             r == To(m, "s_res_status")
  <2>1. Keeps(p, m)
    BY <1>8, MarkKeeps, KeepsTrans DEF Keeps
  <2> HIDE DEF m
  <2>2. Keeps(p, r)
    BY <1>2, <1>4, <2>1
  <2> HIDE DEF r
  <2>3. Keeps(p, ResStatus(r, t))
    BY <1>7, <2>2
  <2> QED BY <2>2, <2>3 DEF StatusStart, r, m
<1>9. Keeps(p, StatusCode(p, t))
  <2> DEFINE s == To(p, "s_res_status_start")
  <2>1. Keeps(p, s)
    BY <1>2, <1>3, <1>4
  <2> HIDE DEF s
  <2>2. Keeps(p, Fail(p, "INVALID_STATUS")) /\ Keeps(p, StatusStart(s, t))
    BY <1>1, <1>3, <1>8, <2>1
  <2>3. \A x : Keeps(p, [p EXCEPT !.code = x])
    BY DEF Keeps, IsParser
  <2> QED BY <2>1, <2>2, <2>3 DEF StatusCode, s
<1> QED BY <1>3, <1>5, <1>6, <1>7, <1>8, <1>9

(* Where a message ends.                                                    *)
LEMMA DoneKeeps ==
  ASSUME NEW p, IsParser(p)
  PROVE  Keeps(p, MessageComplete(p)) /\ Keeps(p, MessageDone(p))
<1>1. ASSUME NEW q, Keeps(p, q) PROVE Keeps(p, MessageComplete(q))
  BY <1>1 DEF MessageComplete, Keeps, IsParser
<1> DEFINE s == IF ~http_should_keep_alive(p) THEN "s_dead"
                ELSE IF p.type = "REQUEST" THEN "s_start_req" ELSE "s_start_res"
<1>2. s \in States
  <2>1. "s_dead" \in States /\ "s_start_req" \in States /\ "s_start_res" \in States
    BY DEF States, PlainStates, MoveStates
  <2> QED BY <2>1
<1> HIDE DEF s
<1>3. Keeps(p, To(p, s))
  BY <1>2, ToKeeps
<1> QED BY <1>1, <1>3, KeepsSelf DEF MessageDone, s

(* Bodies with a length, with chunks, and up to the end of the connection.  *)
LEMMA BodyKeeps ==
  ASSUME NEW p, IsParser(p), NEW t
  PROVE  /\ Keeps(p, BodyIdentity(p, t)) /\ Keeps(p, ChunkSizeStart(p, t)) /\ Keeps(p, ChunkSize(p, t))
         /\ Keeps(p, ChunkSizeAlmostDone(p, t)) /\ Keeps(p, ChunkData(p, t))
         /\ Keeps(p, ChunkDataAlmostDone(p, t))
<1>1. \A e : Keeps(p, Fail(p, e))
  BY FailKeeps
<1>2. \A s \in States : Keeps(p, To(p, s))
  BY ToKeeps
<1>3. Keeps(p, p)
  BY KeepsSelf
<1>4. /\ "s_chunk_size" \in States /\ "s_chunk_size_almost_done" \in States
      /\ "s_chunk_parameters" \in States /\ "s_header_field_start" \in States
      /\ "s_chunk_data" \in States /\ "s_chunk_data_almost_done" \in States
      /\ "s_chunk_data_done" \in States
  BY DEF States, PlainStates, MoveStates
<1> DEFINE m == MARK(p, "body")
           q == [m EXCEPT !.length = @ - 1]
<1>5. Keeps(p, m)
  BY MarkKeeps
<1>6. Keeps(p, q)
  <2> HIDE DEF m
  <2> QED BY <1>5 DEF Keeps, IsParser
<1>7. Keeps(p, BodyIdentity(p, t))
  <2> DEFINE r == [q EXCEPT !.text = Append(@, t)]
  <2> HIDE DEF q
  <2>1. Keeps(p, r)
    BY <1>6 DEF Keeps, IsParser
  <2> HIDE DEF r
  <2>2. Keeps(p, Callback(r))
    BY <2>1, CallbackKeeps, KeepsTrans DEF Keeps
  <2>3. Keeps(p, MessageDone(Callback(r)))
    BY <2>2, DoneKeeps, KeepsTrans DEF Keeps
  <2> QED BY <1>6, <2>3 DEF BodyIdentity, r, q
<1>8. Keeps(p, ChunkSizeStart(p, t))
  <2>1. Keeps(p, [To(p, "s_chunk_size") EXCEPT !.length = unhex[t]])
    BY <1>2, <1>4 DEF Keeps, IsParser
  <2> QED BY <1>1, <2>1 DEF ChunkSizeStart
<1>9. Keeps(p, ChunkSize(p, t))
  <2> DEFINE r == [p EXCEPT !.length = @ * 16 + unhex[t]]
  <2>1. Keeps(p, r)
    BY DEF Keeps, IsParser
  <2> HIDE DEF r
  <2>2. ChunkSize(p, t) \in {To(p, "s_chunk_size_almost_done"), To(p, "s_chunk_parameters"), r,
                            Fail(p, "INVALID_CONTENT_LENGTH"), Fail(p, "INVALID_CHUNK_SIZE")}
    <3> DEFINE full == (LengthMax - 16) \div 16 < p.length
               fits == (LengthMax - 16) \div 16 >= p.length
               ends == t \in {";", "SP"}
    <3>1. ChunkSize(p, t) = CASE t = "CR" -> To(p, "s_chunk_size_almost_done")
                              [] ends -> To(p, "s_chunk_parameters")
                              [] t \in DOMAIN unhex /\ full -> Fail(p, "INVALID_CONTENT_LENGTH")
                              [] t \in DOMAIN unhex /\ fits -> r
                              [] OTHER -> Fail(p, "INVALID_CHUNK_SIZE")
      BY DEF ChunkSize, r
    <3> HIDE DEF full, fits, ends
    <3> QED BY <3>1
  <2> QED BY <1>1, <1>2, <1>4, <2>1, <2>2
<1>10. Keeps(p, ChunkSizeAlmostDone(p, t))
  <2>1. Keeps(p, [To(p, "s_header_field_start") EXCEPT !.flags = @ \cup {"TRAILING"}])
    BY <1>2, <1>4 DEF Keeps, IsParser
  <2> QED BY <1>1, <1>2, <1>4, <2>1 DEF ChunkSizeAlmostDone
<1>11. Keeps(p, ChunkData(p, t))
  <2> HIDE DEF q
  <2>1. Keeps(p, To(q, "s_chunk_data_almost_done"))
    BY <1>4, <1>6, ToKeeps, KeepsTrans DEF Keeps
  <2> QED BY <1>6, <2>1 DEF ChunkData, q
<1>12. Keeps(p, ChunkDataAlmostDone(p, t))
  <2> DEFINE r == To(p, "s_chunk_data_done")
  <2>1. Keeps(p, r)
    BY <1>2, <1>4
  <2> HIDE DEF r
  <2>2. Keeps(p, Callback(r))
    BY <2>1, CallbackKeeps, KeepsTrans DEF Keeps
  <2> QED BY <1>1, <2>2 DEF ChunkDataAlmostDone, r
<1> QED BY <1>7, <1>8, <1>9, <1>10, <1>11, <1>12

(* The end of the head of a message.                                        *)
LEMMA HeadersKeep ==
  ASSUME NEW p, IsParser(p), NEW t
  PROVE  Keeps(p, HeadersAlmostDone(p, t)) /\ Keeps(p, HeaderFieldStart(p, t))
<1>1. \A e : Keeps(p, Fail(p, e))
  BY FailKeeps
<1>2. /\ "s_chunk_size_start" \in States /\ "s_body_identity" \in States
      /\ "s_body_identity_eof" \in States /\ "s_headers_almost_done" \in States
      /\ "s_header_field" \in States
  BY DEF States, PlainStates
<1>3. ASSUME NEW q, IsParser(q) PROVE Keeps(q, HeadersDone(q))
  <2>1. /\ Keeps(q, MessageDone(q)) /\ Keeps(q, Fail(q, "INVALID_TRANSFER_ENCODING"))
        /\ Keeps(q, To(q, "s_chunk_size_start")) /\ Keeps(q, To(q, "s_body_identity"))
        /\ Keeps(q, To(q, "s_body_identity_eof"))
    BY <1>2, <1>3, DoneKeeps, FailKeeps, ToKeeps
  <2> DEFINE none == q.upgrade /\ (q.method = "CONNECT"
                                   \/ ~("CHUNKED" \in q.flags \/ q.length \notin {0, LengthMax}))
  <2>2. HeadersDone(q) =
          CASE none -> MessageDone(q)
            [] ~none -> IF "CHUNKED" \in q.flags THEN To(q, "s_chunk_size_start")
                        ELSE IF q.te
                        THEN IF q.type = "REQUEST" THEN Fail(q, "INVALID_TRANSFER_ENCODING")
                             ELSE To(q, "s_body_identity_eof")
                        ELSE IF q.length = 0 THEN MessageDone(q)
                        ELSE IF q.length # LengthMax THEN To(q, "s_body_identity")
                        ELSE IF ~http_message_needs_eof(q) THEN MessageDone(q)
                        ELSE To(q, "s_body_identity_eof")
    BY DEF HeadersDone
  <2> HIDE DEF none
  <2> QED BY <2>1, <2>2
<1>4. Keeps(p, HeadersAlmostDone(p, t))
  <2> DEFINE u == IF {"UPGRADE", "CONNECTION_UPGRADE"} \subseteq p.flags
                  THEN p.type = "REQUEST" \/ p.code = 101 ELSE p.method = "CONNECT"
             q == [p EXCEPT !.upgrade = u]
  <2> HIDE DEF u
  <2>1. Keeps(p, q)
    BY DEF Keeps, IsParser
  <2> HIDE DEF q
  <2>2. Keeps(p, HeadersDone(q))
    BY <1>3, <2>1, KeepsTrans DEF Keeps
  <2>3. Keeps(p, MessageDone(p))
    BY DoneKeeps
  <2>4. HeadersAlmostDone(p, t) =
          CASE t # "LF" -> Fail(p, "STRICT")
            [] t = "LF" /\ "TRAILING" \in p.flags -> MessageDone(p)
            [] t = "LF" /\ "TRAILING" \notin p.flags ->
                 IF p.te /\ "CONTENTLENGTH" \in p.flags THEN Fail(p, "UNEXPECTED_CONTENT_LENGTH")
                 ELSE HeadersDone(q)
    BY DEF HeadersAlmostDone, q, u
  <2> QED BY <1>1, <2>2, <2>3, <2>4
<1>5. Keeps(p, HeaderFieldStart(p, t))
  <2> DEFINE m == MARK(p, "header_field")
             q == To(m, "s_header_field")
             h == ValueOf(HeaderStateOf, t, "h_general")
             r == [q EXCEPT !.hstate = h, !.te = @ \/ t = "transfer-encoding"]
  <2>1. Keeps(p, m)
    BY MarkKeeps
  <2> HIDE DEF m, h
  <2>2. Keeps(p, q)
    BY <1>2, <2>1, ToKeeps, KeepsTrans DEF Keeps
  <2> HIDE DEF q
  <2>3. Keeps(p, r)
    BY <2>2 DEF Keeps, IsParser
  <2>4. Keeps(p, To(p, "s_headers_almost_done"))
    BY <1>2, ToKeeps
  <2> HIDE DEF r
  <2>5. HeaderFieldStart(p, t) =
          CASE t = "CR" -> To(p, "s_headers_almost_done")
            [] t = "LF" -> HeadersAlmostDone(p, t)
            [] t \in TokenChar -> r
            [] OTHER -> Fail(p, "INVALID_HEADER_TOKEN")
    BY Zenon DEF HeaderFieldStart, r, q, m, h
  <2> QED BY <1>1, <1>4, <2>3, <2>4, <2>5
<1> QED BY <1>4, <1>5

(* The digits of a content length.                                          *)
LEMMA NumberKeeps ==
  ASSUME NEW p, IsParser(p), NEW t
  PROVE  Keeps(p, ContentLengthStart(p, t)) /\ Keeps(p, ContentLengthNum(p, t))
<1>1. \A e : Keeps(p, Fail(p, e))
  BY FailKeeps
<1>2. Keeps(p, ContentLengthStart(p, t))
  <2> DEFINE r == [p EXCEPT !.flags = @ \cup {"CONTENTLENGTH"}, !.length = unhex[t],
                            !.hstate = "h_content_length_num"]
  <2>1. Keeps(p, r)
    BY DEF Keeps, IsParser
  <2>2. ContentLengthStart(p, t) =
          CASE t \notin Digits -> Fail(p, "INVALID_CONTENT_LENGTH")
            [] t \in Digits /\ "CONTENTLENGTH" \in p.flags -> Fail(p, "UNEXPECTED_CONTENT_LENGTH")
            [] OTHER -> r
    BY DEF ContentLengthStart
  <2> HIDE DEF r
  <2> QED BY <1>1, <2>1, <2>2
<1>3. Keeps(p, ContentLengthNum(p, t))
  <2> DEFINE r == [p EXCEPT !.length = @ * 10 + unhex[t]]
             w == [p EXCEPT !.hstate = "h_content_length_ws"]
             bad == t # "SP" /\ (t \notin Digits \/ (LengthMax - 10) \div 10 < p.length)
  <2>1. Keeps(p, r) /\ Keeps(p, w)
    BY DEF Keeps, IsParser
  <2>2. ContentLengthNum(p, t) =
          CASE t = "SP" -> w
            [] bad -> Fail(p, "INVALID_CONTENT_LENGTH")
            [] OTHER -> r
    BY Zenon DEF ContentLengthNum
  <2> HIDE DEF r, w, bad
  <2> QED BY <1>1, <2>1, <2>2
<1> QED BY <1>2, <1>3

LEMMA ValueStartKeeps ==
  ASSUME NEW p, IsParser(p), NEW t
  PROVE  Keeps(p, ValueStart(p, t))
<1> DEFINE m == MARK(p, "header_value")
           q == To(m, "s_header_value")
<1>1. Keeps(p, m)
  BY MarkKeeps
<1>2. "s_header_value" \in States
  BY DEF States, PlainStates
<1> HIDE DEF m
<1>3. Keeps(p, q)
  BY <1>1, <1>2, ToKeeps, KeepsTrans DEF Keeps
<1> HIDE DEF q
<1> DEFINE H(h) == [q EXCEPT !.hstate = h]
<1>4. \A h : Keeps(p, H(h))
  BY <1>3 DEF Keeps, IsParser
<1> DEFINE up == [H("h_general") EXCEPT !.flags = @ \cup {"UPGRADE"}]
<1>5. Keeps(p, up)
  BY <1>4 DEF Keeps, IsParser
<1>6. Keeps(p, ContentLengthStart(q, t))
  BY <1>3, NumberKeeps, KeepsTrans DEF Keeps
<1> DEFINE te == IF t = "chunked" THEN "h_transfer_encoding_chunked"
                 ELSE "h_matching_transfer_encoding_token"
           opt == ValueOf(OptionOf, t, "h_matching_connection_token")
<1>7. ValueStart(p, t) =
        CASE p.hstate = "h_upgrade" -> up
          [] p.hstate = "h_transfer_encoding" -> H(te)
          [] p.hstate = "h_content_length" -> ContentLengthStart(q, t)
          [] p.hstate = "h_connection" -> H(opt)
          [] p.hstate \in {"h_matching_transfer_encoding_token_start", "h_content_length_ws",
                           "h_matching_connection_token_start"} -> q
          [] OTHER -> H("h_general")
  BY Zenon DEF ValueStart, q, m
<1> HIDE DEF up, te, opt, H
<1> QED BY <1>3, <1>4, <1>5, <1>6, <1>7

(* The value of a header, and what it means to the parser.                  *)
LEMMA ValueKeeps ==
  ASSUME NEW p, IsParser(p), NEW t
  PROVE  /\ Keeps(p, HeaderValue(p, t)) /\ Keeps(p, HeaderValueLws(p, t))
         /\ Keeps(p, DiscardWs(p, t)) /\ Keeps(p, DiscardLws(p, t))
<1>1. \A e : Keeps(p, Fail(p, e))
  BY FailKeeps
<1>2. /\ "s_header_almost_done" \in States /\ "s_header_value_lws" \in States
      /\ "s_header_field_start" \in States /\ "s_header_value_discard_ws" \in States
      /\ "s_header_value_discard_ws_almost_done" \in States
      /\ "s_header_value_discard_lws" \in States
  BY DEF States, PlainStates, MoveStates
<1>3. \A s \in States : Keeps(p, To(p, s))
  BY ToKeeps
<1>4. Keeps(p, p) /\ Keeps(p, AddFlag(p))
  BY DEF AddFlag, Keeps, IsParser
<1>5. Keeps(p, HeaderValue(p, t))
  <2> DEFINE s == IF t = "CR" THEN "s_header_almost_done" ELSE "s_header_value_lws"
             end == Callback(To(p, s))
             a == IF t = "," /\ p.hstate \in OptionStates THEN AddFlag(p) ELSE p
             n == NextValueState(p.hstate, t)
             r == [a EXCEPT !.hstate = n]
             num == p.hstate = "h_content_length_num" /\ t \notin EOL \cup {"NUL"}
             ws == p.hstate = "h_content_length_ws" /\ t \notin EOL \cup {"NUL", "SP"}
  <2>1. Keeps(p, end)
    <3>1. s \in States
      BY <1>2
    <3> HIDE DEF s
    <3>2. Keeps(p, To(p, s))
      BY <1>3, <3>1
    <3> QED BY <3>2, CallbackKeeps, KeepsTrans DEF Keeps
  <2>2. Keeps(p, r)
    <3>1. Keeps(p, a)
      BY <1>4
    <3> HIDE DEF a, n
    <3> QED BY <3>1 DEF Keeps, IsParser
  <2>3. Keeps(p, ContentLengthNum(p, t))
    BY NumberKeeps
  <2>4. HeaderValue(p, t) = CASE t \in EOL -> end
                              [] t = "NUL" -> Fail(p, "INVALID_HEADER_TOKEN")
                              [] num -> ContentLengthNum(p, t)
                              [] ws -> Fail(p, "INVALID_CONTENT_LENGTH")
                              [] OTHER -> r
    BY Zenon DEF HeaderValue
  <2> HIDE DEF end, r, num, ws
  <2> QED BY <1>1, <2>1, <2>2, <2>3, <2>4
<1>6. ASSUME NEW q, Keeps(p, q) PROVE Keeps(p, HeaderFieldStart(q, t)) /\ Keeps(p, ValueStart(q, t))
  BY <1>6, HeadersKeep, ValueStartKeeps, KeepsTrans DEF Keeps
<1> DEFINE f == To(AddFlag(p), "s_header_field_start")
<1>7. Keeps(p, f)
  BY <1>2, <1>4, ToKeeps, KeepsTrans DEF Keeps
<1>8. Keeps(p, HeaderValueLws(p, t))
  <2> DEFINE h == IF p.hstate = "h_content_length_num" THEN "h_content_length_ws" ELSE p.hstate
             q == [p EXCEPT !.hstate = h]
  <2> HIDE DEF h
  <2>1. Keeps(p, q)
    BY DEF Keeps, IsParser
  <2> HIDE DEF q, f
  <2>2. Keeps(p, ValueStart(q, t)) /\ Keeps(p, HeaderFieldStart(f, t))
    BY <1>6, <1>7, <2>1
  <2>3. HeaderValueLws(p, t) = IF t = "SP" THEN ValueStart(q, t) ELSE HeaderFieldStart(f, t)
    BY Zenon DEF HeaderValueLws, q, f, h
  <2> QED BY <2>2, <2>3
<1>9. Keeps(p, DiscardWs(p, t))
  <2>1. Keeps(p, ValueStart(p, t))
    BY <1>4, <1>6
  <2> QED BY <1>2, <1>3, <1>4, <2>1 DEF DiscardWs
<1>10. Keeps(p, DiscardLws(p, t))
  <2> DEFINE m == MARK(f, "header_value")
  <2> HIDE DEF f
  <2>1. Keeps(p, m)
    BY <1>7, MarkKeeps, KeepsTrans DEF Keeps
  <2> HIDE DEF m
  <2>2. Keeps(p, Callback(m))
    BY <2>1, CallbackKeeps, KeepsTrans DEF Keeps
  <2>3. Keeps(p, HeaderFieldStart(Callback(m), t))
    BY <1>6, <2>2
  <2>4. DiscardLws(p, t) =
          CASE t = "SP" -> To(p, "s_header_value_discard_ws")
            [] t # "SP" /\ p.hstate = "h_content_length" -> Fail(p, "INVALID_CONTENT_LENGTH")
            [] OTHER -> HeaderFieldStart(Callback(m), t)
    BY Zenon DEF DiscardLws, m, f
  <2> QED BY <1>1, <1>2, <1>3, <2>3, <2>4
<1> QED BY <1>5, <1>8, <1>9, <1>10

LEMMA FieldKeeps ==
  ASSUME NEW p, IsParser(p), NEW t
  PROVE  Keeps(p, HeaderField(p, t))
<1> DEFINE r == [p EXCEPT !.hstate = "h_general"]
           to == To(p, "s_header_value_discard_ws")
<1>1. Keeps(p, r)
  BY DEF Keeps, IsParser
<1>2. Keeps(p, to)
  <2>1. "s_header_value_discard_ws" \in States
    BY DEF States, PlainStates
  <2> QED BY <2>1, ToKeeps
<1> HIDE DEF r, to
<1>3. Keeps(p, Callback(to)) /\ Keeps(p, Fail(p, "INVALID_HEADER_TOKEN"))
  BY <1>2, CallbackKeeps, FailKeeps, KeepsTrans DEF Keeps
<1> DEFINE colon == t = ":"
<1>4. HeaderField(p, t) = CASE t \in TokenChar -> r
                            [] colon -> Callback(to)
                            [] OTHER -> Fail(p, "INVALID_HEADER_TOKEN")
  BY Zenon DEF HeaderField, r, to
<1> HIDE DEF colon
<1> QED BY <1>1, <1>3, <1>4

(* One byte, whatever it is and wherever the parser is.                     *)
LEMMA StepKeeps ==
  ASSUME NEW p, IsParser(p), NEW t
  PROVE  Keeps(p, Step(p, t))
<1> DEFINE s == p.state
           q == Step(p, t)
<1>1. /\ Keeps(p, StartRequest(p, t)) /\ Keeps(p, StartResponse(p, t)) /\ Keeps(p, Move(p, t))
      /\ Keeps(p, HttpStart(p, t)) /\ Keeps(p, FirstStatusCode(p, t)) /\ Keeps(p, StatusCode(p, t))
      /\ Keeps(p, StatusStart(p, t)) /\ Keeps(p, ResStatus(p, t))
  BY StartKeeps, MoveKeeps, LineKeeps
<1> DEFINE moves == s \in DOMAIN Otherwise
           url == s \in UrlStates \cup {"s_req_spaces_before_url"}
<1>2. url => Keeps(p, Url(p, t))
  BY UrlKeeps
<1>3. /\ Keeps(p, HeaderFieldStart(p, t)) /\ Keeps(p, HeaderField(p, t)) /\ Keeps(p, DiscardWs(p, t))
      /\ Keeps(p, DiscardLws(p, t)) /\ Keeps(p, ValueStart(p, t)) /\ Keeps(p, HeaderValue(p, t))
      /\ Keeps(p, HeaderValueLws(p, t)) /\ Keeps(p, HeadersAlmostDone(p, t))
  BY HeadersKeep, FieldKeeps, ValueStartKeeps, ValueKeeps
<1>4. /\ Keeps(p, BodyIdentity(p, t)) /\ Keeps(p, MARK(p, "body")) /\ Keeps(p, ChunkSizeStart(p, t))
      /\ Keeps(p, ChunkSize(p, t)) /\ Keeps(p, ChunkSizeAlmostDone(p, t)) /\ Keeps(p, ChunkData(p, t))
      /\ Keeps(p, ChunkDataAlmostDone(p, t))
  BY BodyKeeps, MarkKeeps
<1>5. /\ s \in PlainStates \/ moves \/ url
      /\ ~url => s # "s_req_spaces_before_url"
  BY MoveDomain DEF IsParser, States
<1>6. q = CASE s = "s_start_req" -> StartRequest(p, t)
            [] s = "s_start_res" -> StartResponse(p, t)
            [] moves -> Move(p, t)
            [] url -> Url(p, t)
            [] s = "s_req_http_start" -> HttpStart(p, t)
            [] s = "s_res_first_status_code" -> FirstStatusCode(p, t)
            [] s = "s_res_status_code" -> StatusCode(p, t)
            [] s = "s_res_status_start" -> StatusStart(p, t)
            [] s = "s_res_status" -> ResStatus(p, t)
            [] s = "s_header_field_start" -> HeaderFieldStart(p, t)
            [] s = "s_header_field" -> HeaderField(p, t)
            [] s = "s_header_value_discard_ws" -> DiscardWs(p, t)
            [] s = "s_header_value_discard_lws" -> DiscardLws(p, t)
            [] s = "s_header_value_start" -> ValueStart(p, t)
            [] s = "s_header_value" -> HeaderValue(p, t)
            [] s = "s_header_value_lws" -> HeaderValueLws(p, t)
            [] s = "s_headers_almost_done" -> HeadersAlmostDone(p, t)
            [] s = "s_body_identity" -> BodyIdentity(p, t)
            [] s = "s_body_identity_eof" -> MARK(p, "body")
            [] s = "s_chunk_size_start" -> ChunkSizeStart(p, t)
            [] s = "s_chunk_size" -> ChunkSize(p, t)
            [] s = "s_chunk_size_almost_done" -> ChunkSizeAlmostDone(p, t)
            [] s = "s_chunk_data" -> ChunkData(p, t)
            [] s = "s_chunk_data_almost_done" -> ChunkDataAlmostDone(p, t)
  BY Zenon DEF Step
<1> HIDE DEF moves, url, s, q
<1>7. Keeps(p, q)
  <2>1. CASE moves
    BY <1>1, <1>2, <1>3, <1>4, <1>6, <2>1
  <2>2. CASE url
    BY <1>1, <1>2, <1>3, <1>4, <1>6, <2>2
  <2>3. CASE ~moves /\ ~url
    <3>1. s \in PlainStates /\ s # "s_req_spaces_before_url"
      BY <1>5, <2>3
    <3> QED BY <1>1, <1>3, <1>4, <1>6, <2>3, <3>1 DEF PlainStates
  <2> QED BY <2>1, <2>2, <2>3
<1> QED BY <1>7 DEF q

-----------------------------------------------------------------------------
(* A whole read *)

(* The least element, for the proofs by a smallest counterexample.          *)
LEMMA LeastOfNats ==
  ASSUME NEW S \in SUBSET Nat, S # {}
  PROVE  \E m \in S : \A n \in S : m <= n
<1>1. PICK m \in S : \A n \in S : <<n, m>> \notin OpToRel(<, Nat)
  BY WFMin, NatLessThanWellFounded, Zenon
<1>2. \A n \in S : ~(n < m)
  BY <1>1, Zenon DEF OpToRel
<1> QED BY <1>2

ParserOK(p) == IsParser(p) /\ p.count \in Nat

(* One byte with its error and its count.                                   *)
LEMMA TakeKeeps ==
  ASSUME NEW p, ParserOK(p), NEW t
  PROVE  ParserOK(Take(p, t))
<1> DEFINE q == Step(p, t)
           text == IF q.mark = "none" THEN <<>> ELSE Append(q.text, t)
           n == IF q.errno \in {"OK", "PAUSED", "CB_url"} THEN q.count + 1 ELSE q.count
           r == [q EXCEPT !.text = text, !.count = n]
<1>1. Keeps(p, q)
  BY StepKeeps DEF ParserOK
<1> HIDE DEF q
<1>2. IsParser(q) /\ q.count \in Nat
  BY <1>1 DEF Keeps, ParserOK
<1>3. n \in Nat
  BY <1>2
<1> HIDE DEF text, n
<1>4. ParserOK(r)
  BY <1>2, <1>3 DEF ParserOK, IsParser
<1>5. Take(p, t) = IF p.errno # "OK" THEN p ELSE r
  BY Zenon DEF Take, Count, r, q, text, n
<1> QED BY <1>4, <1>5

(* The function that http_parser_execute is defined by.                     *)
ReadStart(p) == [p EXCEPT !.count = 0, !.mark = OpenMark(p), !.text = <<>>]
IsRun(p, data, n, f) ==
  f = [i \in 0..n |-> IF i = 0 THEN ReadStart(p) ELSE Take(f[i - 1], data[i])]
Run(p, data) == CHOOSE f : IsRun(p, data, Len(data), f)

(* The recursive definition defines a function.                             *)
LEMMA RunExists ==
  ASSUME NEW p, NEW data, NEW n \in Nat
  PROVE  \E f : IsRun(p, data, n, f)
<1> DEFINE Bad == {m \in Nat : ~\E f : IsRun(p, data, m, f)}
<1>1. SUFFICES ASSUME Bad # {} PROVE FALSE
  OBVIOUS
<1>2. PICK m \in Bad : \A k \in Bad : m <= k
  BY <1>1, LeastOfNats
<1>3. CASE m = 0
  <2> DEFINE f == [i \in 0..0 |-> ReadStart(p)]
  <2>1. f = [i \in 0..0 |-> IF i = 0 THEN ReadStart(p) ELSE Take(f[i - 1], data[i])]
    OBVIOUS
  <2>2. IsRun(p, data, 0, f)
    BY <2>1 DEF IsRun
  <2> QED BY <1>2, <1>3, <2>2
<1>4. CASE m # 0
  <2>1. m \in Nat \ {0} /\ m - 1 \in Nat /\ m - 1 \notin Bad
    BY <1>2, <1>4
  <2>2. PICK g : IsRun(p, data, m - 1, g)
    BY <2>1
  <2> DEFINE f == [i \in 0..m |-> IF i = m THEN Take(g[m - 1], data[m]) ELSE g[i]]
  <2>3. ASSUME NEW i \in 0..m
        PROVE  f[i] = IF i = 0 THEN ReadStart(p) ELSE Take(f[i - 1], data[i])
    <3>1. i # 0 => i - 1 \in 0..(m - 1) /\ f[i - 1] = g[i - 1]
      BY <2>1
    <3>2. CASE i = m
      BY <2>1, <3>1, <3>2
    <3>3. CASE i # m
      <4>1. i \in 0..(m - 1) /\ f[i] = g[i]
        BY <2>1, <3>3
      <4>2. g[i] = IF i = 0 THEN ReadStart(p) ELSE Take(g[i - 1], data[i])
        BY <2>2, <4>1 DEF IsRun
      <4> QED BY <3>1, <4>1, <4>2
    <3> QED BY <3>2, <3>3
  <2>4. IsRun(p, data, m, f)
    <3>1. f = [i \in 0..m |-> f[i]]
      OBVIOUS
    <3> HIDE DEF f
    <3> QED BY <2>3, <3>1 DEF IsRun
  <2> QED BY <1>2, <2>4
<1> QED BY <1>3, <1>4

LEMMA RunKeeps ==
  ASSUME NEW p, ParserOK(p), NEW data, Len(data) \in Nat
  PROVE  ParserOK(Run(p, data)[Len(data)])
<1> DEFINE n == Len(data)
           f == Run(p, data)
<1>1. IsRun(p, data, n, f)
  BY RunExists DEF Run
<1> HIDE DEF f, n
<1>2. n \in Nat
  BY DEF n
<1>3. \A i \in 0..n : f[i] = IF i = 0 THEN ReadStart(p) ELSE Take(f[i - 1], data[i])
  BY <1>1 DEF IsRun
<1> DEFINE Bad == {i \in 0..n : ~ParserOK(f[i])}
<1>4. Bad = {}
  <2> SUFFICES ASSUME Bad # {} PROVE FALSE
    OBVIOUS
  <2>1. Bad \in SUBSET Nat
    OBVIOUS
  <2>2. PICK m \in Bad : \A k \in Bad : m <= k
    <3> HIDE DEF Bad
    <3> QED BY <2>1, LeastOfNats
  <2>3. m \in 0..n /\ ~ParserOK(f[m])
    OBVIOUS
  <2>4. m # 0 => m - 1 \in 0..n /\ m - 1 \notin Bad
    BY <1>2, <2>2, <2>3
  <2>5. m # 0 => ParserOK(f[m - 1])
    BY <2>4
  <2> HIDE DEF Bad
  <2>6. ParserOK(ReadStart(p))
    BY DEF ReadStart, ParserOK, IsParser
  <2>7. CASE m = 0
    BY <1>3, <2>3, <2>6, <2>7
  <2>8. CASE m # 0
    BY <1>3, <2>3, <2>5, <2>8, TakeKeeps
  <2> QED BY <2>7, <2>8
<1> QED BY <1>2, <1>4 DEF f, n

(* Whatever it reads and however it is cut, http_parser_execute leaves the  *)
(* parser in a state that it has a case for, and with a count of bytes      *)
(* (http_parser.c, HttpParser.cpp:75-81).                                 *)
THEOREM ExecuteKeeps ==
  ASSUME NEW p, ParserOK(p), NEW data, Len(data) \in Nat
  PROVE  ParserOK(execute(p, data))
<1>1. ASSUME NEW q, ParserOK(q) PROVE ParserOK(AtEof(q)) /\ ParserOK(AtEnd(q))
  <2> DEFINE z == [q EXCEPT !.count = 0]
             w == [q EXCEPT !.count = 1]
  <2>1. ParserOK(z) /\ ParserOK(w)
    BY <1>1 DEF ParserOK, IsParser
  <2> HIDE DEF z, w
  <2>2. ParserOK(MessageComplete(z)) /\ ParserOK(Fail(w, "INVALID_EOF_STATE"))
    BY <2>1, DoneKeeps, FailKeeps DEF ParserOK, Keeps
  <2>3. ParserOK(AtEof(q))
    BY <2>1, <2>2 DEF AtEof, z, w
  <2> DEFINE r == IF q.errno = "OK" THEN Callback(q) ELSE q
  <2>4. ParserOK(r)
    BY <1>1, CallbackKeeps DEF ParserOK, Keeps
  <2> HIDE DEF r
  <2>5. ParserOK([r EXCEPT !.mark = "none", !.text = <<>>])
    BY <2>4 DEF ParserOK, IsParser
  <2> QED BY <2>3, <2>5 DEF AtEnd, r
<1> DEFINE q == [p EXCEPT !.status = "parsing", !.errno = IF @ = "PAUSED" THEN "OK" ELSE @]
<1>2. ParserOK(q)
  BY DEF ParserOK, IsParser
<1>3. execute(p, data) = http_parser_execute(q, data)
  BY Zenon DEF execute
<1> HIDE DEF q
<1>4. http_parser_execute(q, data) =
        CASE q.errno # "OK" -> [q EXCEPT !.count = 0]
          [] q.errno = "OK" /\ data = <<>> -> AtEof(q)
          [] OTHER -> AtEnd(Run(q, data)[Len(data)])
  BY DEF http_parser_execute, Run, IsRun, ReadStart
<1>5. ParserOK([q EXCEPT !.count = 0])
  BY <1>2 DEF ParserOK, IsParser
<1>6. ParserOK(AtEnd(Run(q, data)[Len(data)])) /\ ParserOK(AtEof(q))
  BY <1>1, <1>2, RunKeeps
<1> QED BY <1>3, <1>4, <1>5, <1>6

(* The constructor and reset of HttpParser.                                 *)
LEMMA NewParser ==
  ASSUME NEW type
  PROVE  ParserOK(New(type)) /\ \A p : ParserOK(p) => ParserOK(reset(p))
<1>1. ASSUME NEW p, NEW t, ParserOK(p) PROVE ParserOK(http_parser_init(p, t))
  <2> DEFINE first == IF t = "REQUEST" THEN "s_start_req" ELSE "s_start_res"
             z == 0
             v == <<z, z>>
             r == [p EXCEPT !.type = t, !.errno = "OK", !.flags = {}, !.length = z, !.te = FALSE,
                            !.state = first, !.hstate = "h_general", !.method = "DELETE",
                            !.version = v, !.code = z, !.upgrade = FALSE]
  <2>1. http_parser_init(p, t) = r
    BY DEF http_parser_init
  <2>2. first \in States
    BY DEF States, PlainStates
  <2> HIDE DEF first, v, z
  <2>3. "state" \in DOMAIN r /\ "count" \in DOMAIN r /\ r.state = first /\ r.count = p.count
    <3> DEFINE a == [p EXCEPT !.type = t, !.errno = "OK", !.flags = {}, !.length = z]
               b == [a EXCEPT !.te = FALSE, !.state = first, !.hstate = "h_general"]
               d == [b EXCEPT !.method = "DELETE", !.version = v, !.code = z]
    <3>1. "state" \in DOMAIN a /\ "count" \in DOMAIN a /\ a.count = p.count
      BY <1>1 DEF ParserOK, IsParser
    <3>2. r = [d EXCEPT !.upgrade = FALSE]
      OBVIOUS
    <3> HIDE DEF a, r
    <3>3. "state" \in DOMAIN b /\ "count" \in DOMAIN b /\ b.state = first /\ b.count = a.count
      BY <3>1
    <3> HIDE DEF b
    <3>4. "state" \in DOMAIN d /\ "count" \in DOMAIN d /\ d.state = b.state /\ d.count = b.count
      BY <3>3
    <3> HIDE DEF d
    <3> QED BY <3>1, <3>2, <3>3, <3>4
  <2> HIDE DEF r
  <2> QED BY <1>1, <2>1, <2>2, <2>3 DEF ParserOK, IsParser
<1>2. ASSUME NEW p, ParserOK(p) PROVE ParserOK(reset(p))
  BY <1>1, <1>2 DEF reset
<1> DEFINE z == 0
           v == <<0, 0>>
           u == [f \in UrlFields |-> <<>>]
           e == <<>>
           p == [type |-> type, errno |-> "OK", flags |-> {}, length |-> z, te |-> FALSE,
                 state |-> "s_dead", hstate |-> "h_general", method |-> "DELETE",
                 version |-> v, code |-> z, upgrade |-> FALSE,
                 mark |-> "none", text |-> e, count |-> z,
                 status |-> "ready", url |-> u, field |-> e,
                 headers |-> e, params |-> e, body |-> e]
<1>3. New(type) = http_parser_init(p, type)
  BY DEF New
<1> HIDE DEF v, u, e
<1>4. ParserOK(p)
  BY DEF ParserOK, IsParser, States, MoveStates
<1> HIDE DEF p
<1> QED BY <1>1, <1>2, <1>3, <1>4

------------------------------- \* the stream, and what the buffer holds of it
(* The stream of a script *)

IsJoin(s, n, f) ==
  f = [i \in 0..n |-> IF i = 0 THEN <<>> ELSE f[i - 1] \o Catalogue[s.msgs[i]].bytes]
Join(s) == CHOOSE f : IsJoin(s, Len(s.msgs), f)

(* The recursive definition defines a function.                             *)
LEMMA JoinExists ==
  ASSUME NEW s, NEW n \in Nat
  PROVE  \E f : IsJoin(s, n, f)
<1> DEFINE Bad == {m \in Nat : ~\E f : IsJoin(s, m, f)}
           With(x, i) == x \o Catalogue[s.msgs[i]].bytes
           none == <<>>
<1>0. ASSUME NEW m, NEW f
      PROVE  IsJoin(s, m, f) <=> f = [i \in 0..m |-> IF i = 0 THEN none ELSE With(f[i - 1], i)]
  BY Zenon DEF IsJoin
<1> HIDE DEF With, none
<1>1. SUFFICES ASSUME Bad # {} PROVE FALSE
  OBVIOUS
<1>2. PICK m \in Bad : \A k \in Bad : m <= k
  BY <1>1, LeastOfNats
<1>3. CASE m = 0
  <2> DEFINE f == [i \in 0..0 |-> none]
  <2>1. f = [i \in 0..0 |-> IF i = 0 THEN none ELSE With(f[i - 1], i)]
    OBVIOUS
  <2>2. IsJoin(s, 0, f)
    BY <1>0, <2>1
  <2> QED BY <1>2, <1>3, <2>2
<1>4. CASE m # 0
  <2>1. m \in Nat \ {0} /\ m - 1 \in Nat /\ m - 1 \notin Bad
    BY <1>2, <1>4
  <2>2. PICK g : IsJoin(s, m - 1, g)
    BY <2>1
  <2> DEFINE f == [i \in 0..m |-> IF i = m THEN With(g[m - 1], m) ELSE g[i]]
  <2>3. ASSUME NEW i \in 0..m
        PROVE  f[i] = IF i = 0 THEN none ELSE With(f[i - 1], i)
    <3>1. i # 0 => i - 1 \in 0..(m - 1) /\ f[i - 1] = g[i - 1]
      BY <2>1
    <3>2. CASE i = m
      BY <2>1, <3>1, <3>2
    <3>3. CASE i # m
      <4>1. i \in 0..(m - 1) /\ f[i] = g[i]
        BY <2>1, <3>3
      <4>2. g[i] = IF i = 0 THEN none ELSE With(g[i - 1], i)
        BY <1>0, <2>2, <4>1
      <4> QED BY <3>1, <4>1, <4>2
    <3> QED BY <3>2, <3>3
  <2>4. IsJoin(s, m, f)
    <3>1. f = [i \in 0..m |-> f[i]]
      OBVIOUS
    <3> HIDE DEF f
    <3>2. f = [i \in 0..m |-> IF i = 0 THEN none ELSE With(f[i - 1], i)]
      BY <2>3, <3>1
    <3> QED BY <1>0, <3>2, Zenon
  <2> QED BY <1>2, <2>4
<1> QED BY <1>3, <1>4

(* What a buffer holds: what the peer sends, and what nobody has written.   *)
Byte == STRING \cup {Hole}

LEMMA BytesAre == Hole \in Byte /\ \A s \in Seq(STRING) : s \in Seq(Byte)
<1>1. ASSUME NEW s \in Seq(STRING) PROVE s \in Seq(Byte)
  <2>1. Len(s) \in Nat /\ s = [i \in 1..Len(s) |-> s[i]] /\ \A i \in 1..Len(s) : s[i] \in Byte
    BY LenProperties, ElementOfSeq DEF Byte
  <2> QED BY <2>1, FunctionIsSeq
<1> QED BY <1>1 DEF Byte

(* The stream is a sequence of bytes, whatever the messages.                *)
LEMMA StreamIsSeq ==
  ASSUME NEW s \in Scripts
  PROVE  StreamOf(s) \in Seq(Byte)
<1> DEFINE n == Len(s.msgs)
           f == Join(s)
<1>1. s.msgs \in Seq(DOMAIN Catalogue) /\ n \in Nat
  BY CodecAssumption, LenProperties
<1>2. IsJoin(s, n, f)
  BY <1>1, JoinExists DEF Join
<1>3. StreamOf(s) = f[n]
  BY Zenon DEF StreamOf, Join, IsJoin
<1> HIDE DEF f
<1>4. ASSUME NEW i \in 1..n PROVE Catalogue[s.msgs[i]].bytes \in Seq(STRING)
  <2>1. s.msgs[i] \in DOMAIN Catalogue
    BY <1>1, ElementOfSeq
  <2> QED BY <2>1, CodecAssumption
<1> DEFINE With(x, i) == x \o Catalogue[s.msgs[i]].bytes
<1>5. ASSUME NEW i \in 1..n, NEW x \in Seq(STRING) PROVE With(x, i) \in Seq(STRING)
  BY <1>4, ConcatProperties
<1> HIDE DEF n
<1>6. \A i \in 0..n : f[i] = IF i = 0 THEN <<>> ELSE With(f[i - 1], i)
  BY <1>2 DEF IsJoin
<1> HIDE DEF With
<1> DEFINE Bad == {i \in 0..n : f[i] \notin Seq(STRING)}
<1>7. Bad = {}
  <2> SUFFICES ASSUME Bad # {} PROVE FALSE
    OBVIOUS
  <2>1. Bad \in SUBSET Nat
    OBVIOUS
  <2>2. PICK m \in Bad : \A k \in Bad : m <= k
    <3> HIDE DEF Bad
    <3> QED BY <2>1, LeastOfNats
  <2>3. m \in 0..n /\ f[m] \notin Seq(STRING)
    OBVIOUS
  <2>4. m # 0 => m - 1 \in 0..n /\ m - 1 \notin Bad /\ m \in 1..n
    BY <1>1, <2>2, <2>3 DEF n
  <2>5. m # 0 => f[m - 1] \in Seq(STRING)
    BY <2>4
  <2> HIDE DEF Bad
  <2>6. m # 0 => f[m] \in Seq(STRING)
    BY <1>5, <1>6, <2>3, <2>4, <2>5
  <2>7. m = 0 => f[m] = <<>>
    BY <1>6, <2>3
  <2>8. <<>> \in Seq(STRING)
    OBVIOUS
  <2> QED BY <2>3, <2>6, <2>7, <2>8
<1>8. n \in 0..n /\ n \in Nat
  BY <1>1 DEF n
<1>9. StreamOf(s) \in Seq(STRING)
  BY <1>3, <1>7, <1>8 DEF n
<1> QED BY <1>9, BytesAre

-----------------------------------------------------------------------------
(* Parts of a sequence *)

(* A part from the middle of a sequence.                                    *)
LEMMA PartIs ==
  ASSUME NEW S, NEW s \in Seq(S), NEW k \in Nat, NEW m \in Nat, k <= m, m <= Len(s)
  PROVE  /\ SubSeq(s, k + 1, m) \in Seq(S) /\ Len(SubSeq(s, k + 1, m)) = m - k
         /\ \A i \in 1..(m - k) : SubSeq(s, k + 1, m)[i] = s[k + i]
         /\ m - k \in Nat
<1> DEFINE lo == k + 1
           n == m - k
           f == SubSeq(s, lo, m)
<1>1. n \in Nat /\ Len(s) \in Nat
  BY LenProperties
<1>2. lo \in Int /\ m \in Int /\ \A i \in lo..m : s[i] \in S
  <2>1. \A i \in lo..m : i \in 1..Len(s)
    BY <1>1
  <2> QED BY <1>1, <2>1, ElementOfSeq
<1>3. m - lo + 1 = n /\ (lo <= m <=> n > 0) /\ \A i \in 1..n : lo + i - 1 = k + i
  BY <1>1
<1> HIDE DEF lo, n
<1>4. f \in Seq(S) /\ Len(f) = (IF lo <= m THEN m - lo + 1 ELSE 0)
      /\ \A i \in 1..(m - lo + 1) : f[i] = s[lo + i - 1]
  BY <1>2, SubSeqProperties
<1> HIDE DEF f
<1>5. Len(f) = n
  BY <1>1, <1>3, <1>4
<1>6. ASSUME NEW i \in 1..n PROVE f[i] = s[k + i]
  <2>1. i \in 1..(m - lo + 1) /\ lo + i - 1 = k + i
    BY <1>3
  <2>2. f[i] = s[lo + i - 1]
    BY <1>4, <2>1
  <2> QED BY <2>1, <2>2
<1> QED BY <1>1, <1>4, <1>5, <1>6 DEF f, lo, n

IsConcat(S, f, g, a) ==
  /\ a \in Seq(S) /\ Len(a) = Len(f) + Len(g)
  /\ \A i \in 1 .. Len(f) + Len(g) : a[i] = IF i <= Len(f) THEN f[i] ELSE g[i - Len(f)]

LEMMA ConcatIs ==
  ASSUME NEW S, NEW f \in Seq(S), NEW g \in Seq(S)
  PROVE  IsConcat(S, f, g, f \o g)
BY Zenon, ConcatProperties DEF IsConcat

(* A prefix and the part behind it are a longer prefix.                     *)
LEMMA FirstGrows ==
  ASSUME NEW S, NEW s \in Seq(S), NEW k \in Nat, NEW m \in Nat, k <= m, m <= Len(s),
         NEW g \in Seq(S), Len(g) = m - k, \A i \in 1..(m - k) : g[i] = s[k + i]
  PROVE  SubSeq(s, 1, k) \o g = SubSeq(s, 1, m)
<1> DEFINE f == SubSeq(s, 1, k)
           e == SubSeq(s, 1, m)
           a == f \o g
<1>1. f \in Seq(S) /\ Len(f) = k /\ \A i \in 1..k : f[i] = s[i]
  <2>1. k <= Len(s)
    BY LenProperties
  <2> QED BY <2>1, FirstIs
<1>2. e \in Seq(S) /\ Len(e) = m /\ \A i \in 1..m : e[i] = s[i]
  BY FirstIs
<1> HIDE DEF f, e
<1>3. a \in Seq(S) /\ Len(a) = m /\ \A i \in 1..m : a[i] = IF i <= k THEN f[i] ELSE g[i - k]
  <2>1. Len(f) + Len(g) = m
    BY <1>1
  <2>2. /\ a \in Seq(S) /\ Len(a) = Len(f) + Len(g)
        /\ \A i \in 1 .. Len(f) + Len(g) : a[i] = IF i <= Len(f) THEN f[i] ELSE g[i - Len(f)]
    <3>1. f \in Seq(S) /\ g \in Seq(S)
      BY <1>1
    <3>2. IsConcat(S, f, g, a)
      BY <3>1, ConcatIs
    <3> QED BY <3>2 DEF IsConcat
  <2> HIDE DEF a
  <2>3. Len(f) = k /\ Len(f) + Len(g) = m
    BY <1>1, <2>1
  <2> QED BY <2>2, <2>3
<1> HIDE DEF a
<1>4. ASSUME NEW i \in 1..m PROVE a[i] = e[i]
  <2>1. CASE i <= k
    <3>1. i \in 1..k
      BY <2>1
    <3>2. a[i] = f[i] /\ f[i] = s[i] /\ e[i] = s[i]
      BY <1>1, <1>2, <1>3, <2>1, <3>1
    <3> QED BY <3>2
  <2>2. CASE ~(i <= k)
    <3>1. i - k \in 1..(m - k) /\ k + (i - k) = i
      BY <2>2
    <3>2. g[i - k] = s[i]
      BY <3>1
    <3> QED BY <1>2, <1>3, <2>2, <3>2
  <2> QED BY <2>1, <2>2
<1>5. a = e
  BY <1>2, <1>3, <1>4, SeqEqual
<1> QED BY <1>5 DEF a, e, f

-----------------------------------------------------------------------------
(* The buffer of a connection, after n bytes of the stream have been read:  *)
(* with the bytes taken from it before, it holds those n, in order.         *)
TookFirst(taken, b, n) == taken \o Contents(b) = SubSeq(Stream, 1, n)
Holds(b, n) == /\ BufferOK(b, Byte) /\ Reserved(b)
               /\ b.w <= 8 + n /\ Len(b.mem) <= RoomFor(script)
               /\ \E taken \in Seq(Byte) : TookFirst(taken, b, n)

(* What is left of b when some of its first bytes are taken.                *)
Split(taken, b, e) == Contents(b) = taken \o Contents(e)
Left(b, e) == /\ BufferOK(e, Byte) /\ Reserved(e) /\ e.w <= b.w /\ Len(e.mem) <= Len(b.mem)
              /\ \E taken \in Seq(Byte) : Split(taken, b, e)

LEMMA LeftSelf ==
  ASSUME NEW b, BufferOK(b, Byte), Reserved(b)
  PROVE  Left(b, b)
<1>1. Contents(b) \in Seq(Byte) /\ b.w \in Nat /\ Len(b.mem) \in Nat
  BY ContentsIs, FieldsAre
<1>2. <<>> \o Contents(b) = Contents(b)
  BY <1>1, ConcatEmptySeq
<1>3. Split(<<>>, b, b)
  BY <1>2 DEF Split
<1>4. <<>> \in Seq(Byte) /\ b.w <= b.w /\ Len(b.mem) <= Len(b.mem)
  BY <1>1
<1> QED BY <1>3, <1>4 DEF Left

Assoc(x, y, z) == (x \o y) \o z = x \o (y \o z)

LEMMA ConcatAssoc ==
  ASSUME NEW x \in Seq(Byte), NEW y \in Seq(Byte), NEW z \in Seq(Byte)
  PROVE  Assoc(x, y, z) /\ x \o y \in Seq(Byte)
<1>1. (x \o y) \o z = x \o (y \o z)
  BY ConcatAssociative
<1>2. x \o y \in Seq(Byte)
  BY ConcatProperties
<1> QED BY <1>1, <1>2 DEF Assoc

LEMMA LeftTrans ==
  ASSUME NEW b, NEW d, NEW e, BufferOK(b, Byte), Left(b, d), Left(d, e)
  PROVE  Left(b, e)
<1>1. PICK x \in Seq(Byte) : Split(x, b, d)
  BY DEF Left
<1>2. PICK y \in Seq(Byte) : Split(y, d, e)
  BY DEF Left
<1>3. Contents(e) \in Seq(Byte) /\ b.w \in Nat /\ Len(b.mem) \in Nat /\ d.w \in Nat
      /\ Len(d.mem) \in Nat /\ e.w \in Nat /\ Len(e.mem) \in Nat
  BY ContentsIs, FieldsAre DEF Left
<1>4. Assoc(x, y, Contents(e)) /\ x \o y \in Seq(Byte)
  BY <1>1, <1>2, <1>3, ConcatAssoc
<1>5. Split(x \o y, b, e)
  BY <1>1, <1>2, <1>4 DEF Split, Assoc
<1>6. BufferOK(e, Byte) /\ Reserved(e) /\ e.w <= b.w /\ Len(e.mem) <= Len(b.mem)
  BY <1>3 DEF Left
<1> QED BY <1>4, <1>5, <1>6 DEF Left

(* What is taken from the front changes nothing about what came in.         *)
LEMMA LeftHolds ==
  ASSUME NEW b, NEW e, NEW n \in Nat, RoomFor(script) \in Nat, Holds(b, n), Left(b, e)
  PROVE  Holds(e, n)
<1>1. PICK x \in Seq(Byte) : TookFirst(x, b, n)
  BY DEF Holds
<1>2. PICK y \in Seq(Byte) : Split(y, b, e)
  BY DEF Left
<1>3. Contents(e) \in Seq(Byte) /\ b.w \in Nat /\ Len(b.mem) \in Nat
      /\ e.w \in Nat /\ Len(e.mem) \in Nat
  BY ContentsIs, FieldsAre DEF Left, Holds
<1>4. Assoc(x, y, Contents(e)) /\ x \o y \in Seq(Byte)
  BY <1>1, <1>2, <1>3, ConcatAssoc
<1>5. TookFirst(x \o y, e, n)
  BY <1>1, <1>2, <1>4 DEF Split, Assoc, TookFirst
<1>6. e.w <= 8 + n /\ Len(e.mem) <= RoomFor(script)
  <2>1. e.w <= b.w /\ Len(e.mem) <= Len(b.mem) /\ b.w <= 8 + n /\ Len(b.mem) <= RoomFor(script)
    BY DEF Left, Holds
  <2> QED BY <1>3, <2>1
<1> QED BY <1>4, <1>5, <1>6 DEF Left, Holds

(* What retrieve leaves.                                                    *)
LEMMA RetrieveLeaves ==
  ASSUME NEW b, BufferOK(b, Byte), Reserved(b), NEW len \in Nat
  PROVE  Left(b, retrieve(b, len))
<1> DEFINE e == retrieve(b, len)
           all == Contents(b)
           k == Min2(len, Len(all))
           one == SubSeq(all, 1, k)
<1>1. all \in Seq(Byte) /\ Len(all) \in Nat
  BY ContentsIs, LenProperties
<1>2. k \in Nat /\ k <= Len(all)
  <2> HIDE DEF all
  <2> QED BY <1>1 DEF Min2
<1>3. BufferOK(e, Byte) /\ Reserved(e) /\ Contents(e) = Rest(all, len)
  BY RetrieveKeeps
<1>4. e.w <= b.w /\ e.mem = b.mem
  BY RetrieveSizes
<1>5. Len(b.mem) \in Nat
  BY FieldsAre
<1>6. Rest(all, len) = SubSeq(all, k + 1, Len(all))
  BY Zenon DEF Rest, k
<1> HIDE DEF e, k, all
<1>7. one \in Seq(Byte) /\ one \o SubSeq(all, k + 1, Len(all)) = all
  BY <1>1, <1>2, FirstIs, FirstThenRest
<1> HIDE DEF one
<1>8. Split(one, b, e)
  BY <1>3, <1>6, <1>7 DEF Split, all
<1>9. Len(e.mem) <= Len(b.mem)
  BY <1>4, <1>5
<1> QED BY <1>3, <1>4, <1>7, <1>8, <1>9 DEF Left, e

Piece(g, k, m) == g \in Seq(Byte) /\ Len(g) = m - k /\ \A i \in 1..(m - k) : g[i] = Stream[k + i]

(* Sizes never come near the end of size_t.                                 *)
LEMMA RoomIs ==
  ASSUME script \in Scripts
  PROVE  /\ Stream \in Seq(Byte) /\ Len(Stream) \in Nat /\ Most(script) \in Nat
         /\ RecordSize \in Nat /\ RecordSize > 0
         /\ 16 + InitialSize + 2 * Len(Stream) <= RoomFor(script)
         /\ RoomFor(script) \in Nat /\ RoomFor(script) + ExtraBuf < SizeMod
         /\ SizeMod \in Nat /\ InitialSize \in Nat /\ ExtraBuf \in Nat
<1>1. Stream \in Seq(Byte) /\ Len(Stream) \in Nat
  BY StreamIsSeq, LenProperties DEF Stream
<1>2. RecordSize \in Nat /\ RecordSize > 0 /\ RoomFor(script) + ExtraBuf < SizeMod
  BY CodecAssumption
<1>3. Most(script) = 2 * Len(Stream) + 8
  BY DEF Most, Stream
<1>4. Most(script) \in Nat
  BY <1>1, <1>3
<1> DEFINE k == Most(script) * RecordSize
<1>5. k \in Nat
  BY <1>2, <1>4
<1>6. RoomFor(script) = 16 + InitialSize + 2 * Len(Stream) + k
  BY DEF RoomFor, Stream
<1> HIDE DEF k
<1>7. SizeMod \in Nat /\ InitialSize \in Nat /\ ExtraBuf \in Nat
  BY SizeModPositive
<1>8. RoomFor(script) \in Nat /\ 16 + InitialSize + 2 * Len(Stream) <= RoomFor(script)
  BY <1>1, <1>5, <1>6, <1>7
<1> QED BY <1>1, <1>2, <1>4, <1>7, <1>8

(* Bytes that come in behind those in the buffer continue the stream.       *)
LEMMA TookMore ==
  ASSUME script \in Scripts, NEW taken \in Seq(Byte), NEW b, NEW e, NEW k \in Nat, NEW m \in Nat,
         k <= m, m <= Len(Stream), TookFirst(taken, b, k), Contents(b) \in Seq(Byte),
         NEW g, Piece(g, k, m), Contents(e) = Contents(b) \o g
  PROVE  TookFirst(taken, e, m)
<1>1. g \in Seq(Byte) /\ Len(g) = m - k /\ \A i \in 1..(m - k) : g[i] = Stream[k + i]
  BY DEF Piece
<1>2. Stream \in Seq(Byte)
  BY RoomIs
<1> DEFINE s == Stream
<1>3. s \in Seq(Byte) /\ m <= Len(s) /\ \A i \in 1..(m - k) : g[i] = s[k + i]
  BY <1>1, <1>2
<1> HIDE DEF s
<1>4. SubSeq(s, 1, k) \o g = SubSeq(s, 1, m)
  BY <1>1, <1>3, FirstGrows
<1>5. Assoc(taken, Contents(b), g)
  BY <1>1, ConcatAssoc
<1> QED BY <1>4, <1>5 DEF Assoc, TookFirst, s

(* A read from the socket.                                                  *)
LEMMA ReadHolds ==
  ASSUME script \in Scripts, NEW b, NEW k \in Nat, NEW m \in Nat, k <= m, m <= Len(Stream),
         Holds(b, k), NEW g, Piece(g, k, m), Len(g) <= MaxRead(b)
  PROVE  Holds(readFd(b, g), m)
<1> DEFINE e == readFd(b, g)
<1>1. g \in Seq(Byte) /\ Len(g) = m - k
  BY DEF Piece
<1>2. /\ BufferOK(b, Byte) /\ Reserved(b) /\ b.w <= 8 + k /\ Len(b.mem) <= RoomFor(script)
      /\ b.w \in Nat /\ Len(b.mem) \in Nat /\ Contents(b) \in Seq(Byte)
  BY FieldsAre, ContentsIs DEF Holds
<1>3. Len(b.mem) + ExtraBuf < SizeMod
  <2> DEFINE y == Len(b.mem)
             room == RoomFor(script)
  <2>1. y \in Nat /\ y <= room
    BY <1>2
  <2>2. room \in Nat /\ room + ExtraBuf < SizeMod /\ SizeMod \in Nat /\ ExtraBuf \in Nat
    BY RoomIs
  <2> HIDE DEF y, room
  <2>3. y + ExtraBuf < SizeMod
    BY <2>1, <2>2
  <2> QED BY <2>3 DEF y
<1>4. Hole \in Byte
  BY BytesAre
<1>5. /\ BufferOK(e, Byte) /\ Reserved(e) /\ Contents(e) = Contents(b) \o g
      /\ e.w <= b.w + Len(g) /\ (Len(e.mem) <= Len(b.mem) \/ Len(e.mem) <= b.w + Len(g))
  BY <1>1, <1>2, <1>3, <1>4, ReadKeeps
<1> HIDE DEF e
<1>6. PICK taken \in Seq(Byte) : TookFirst(taken, b, k)
  BY DEF Holds
<1>7. TookFirst(taken, e, m)
  BY <1>2, <1>5, <1>6, TookMore
<1>8. e.w <= 8 + m /\ Len(e.mem) <= RoomFor(script)
  <2>1. e.w \in Nat /\ Len(e.mem) \in Nat
    BY <1>5, FieldsAre
  <2>2. 8 + m <= RoomFor(script) /\ RoomFor(script) \in Nat
    BY RoomIs
  <2> HIDE DEF e
  <2>3. b.w + Len(g) <= 8 + m
    BY <1>1, <1>2
  <2>4. b.w + Len(g) \in Nat
    BY <1>1, <1>2
  <2> DEFINE y == b.w + Len(g)
  <2>5. y \in Nat /\ y <= 8 + m /\ e.w <= y /\ (Len(e.mem) <= Len(b.mem) \/ Len(e.mem) <= y)
    BY <1>5, <2>3, <2>4
  <2>6. Len(b.mem) <= RoomFor(script) /\ Len(b.mem) \in Nat
    BY <1>2
  <2> HIDE DEF y
  <2> QED BY <2>1, <2>2, <2>5, <2>6
<1> QED BY <1>5, <1>6, <1>7, <1>8 DEF Holds, e

(* Room made in a buffer, for what the records that came in may hold.       *)
LEMMA SpaceHolds ==
  ASSUME script \in Scripts, NEW b, NEW k \in Nat, k <= Len(Stream), Holds(b, k),
         NEW len \in Nat, b.w + len <= RoomFor(script)
  PROVE  /\ Holds(ensureSpace(b, len), k)
         /\ ensureSpace(b, len).w + len <= Len(ensureSpace(b, len).mem)
<1> DEFINE e == ensureSpace(b, len)
<1>1. /\ BufferOK(b, Byte) /\ Reserved(b) /\ b.w <= 8 + k /\ Len(b.mem) <= RoomFor(script)
      /\ b.w \in Nat
  BY FieldsAre DEF Holds
<1>2. b.w + len < SizeMod /\ RoomFor(script) \in Nat
  <2> DEFINE room == RoomFor(script)
             y == b.w + len
  <2>1. room \in Nat /\ room + ExtraBuf < SizeMod /\ SizeMod \in Nat /\ ExtraBuf \in Nat
    BY RoomIs
  <2>2. y \in Nat /\ y <= room
    BY <1>1
  <2> HIDE DEF room, y
  <2>3. y < SizeMod
    BY <2>1, <2>2
  <2> QED BY <2>1, <2>3 DEF room, y
<1>3. Hole \in Byte
  BY BytesAre
<1>4. /\ BufferOK(e, Byte) /\ Reserved(e) /\ Contents(e) = Contents(b)
      /\ e.w + len <= Len(e.mem) /\ e.w <= b.w
      /\ (Len(e.mem) <= Len(b.mem) \/ Len(e.mem) <= b.w + len)
  BY <1>1, <1>2, <1>3, SpaceEnsured
<1> HIDE DEF e
<1>5. PICK taken \in Seq(Byte) : TookFirst(taken, b, k)
  BY DEF Holds
<1>6. TookFirst(taken, e, k)
  BY <1>4, <1>5 DEF TookFirst
<1>7. e.w <= 8 + k /\ Len(e.mem) <= RoomFor(script)
  <2>1. e.w \in Nat /\ Len(e.mem) \in Nat /\ Len(b.mem) \in Nat
    BY <1>1, <1>4, FieldsAre
  <2>2. e.w <= b.w /\ b.w <= 8 + k /\ Len(b.mem) <= RoomFor(script)
        /\ (Len(e.mem) <= Len(b.mem) \/ Len(e.mem) <= b.w + len) /\ b.w + len <= RoomFor(script)
    BY <1>1, <1>4
  <2> QED BY <1>1, <1>2, <2>1, <2>2
<1> QED BY <1>4, <1>5, <1>6, <1>7 DEF Holds, e

(* One byte of text in the free space, and twice the room when it is full.  *)
PutOne(e, x) == advance([e EXCEPT !.mem = Put(e.mem, e.w, <<x>>)], 1)
StepOf(e, x) == LET f == PutOne(e, x)
                IN IF writableBytes(f) = 0 THEN ensureSpace(f, size(f)) ELSE f

LEMMA PutOneIs ==
  ASSUME NEW e, BufferOK(e, Byte), e.w < Len(e.mem), NEW x \in Byte
  PROVE  PutOne(e, x) = Written(e, <<x>>)
<1> DEFINE m == Put(e.mem, e.w, <<x>>)
           f == [e EXCEPT !.mem = m]
<1>1. /\ e.mem \in Seq(Byte) /\ e.r \in Nat /\ e.w \in Nat /\ Len(e.mem) \in Nat
      /\ e.r <= e.w /\ e.w <= Len(e.mem) /\ 8 <= Len(e.mem) /\ Len(e.mem) < SizeMod
      /\ SizeMod \in Nat /\ e = [mem |-> e.mem, r |-> e.r, w |-> e.w]
  BY FieldsAre
<1>2. m \in Seq(Byte) /\ Len(m) = Len(e.mem)
  <2> DEFINE t == <<x>>
  <2>1. t \in Seq(Byte) /\ Len(t) = 1
    OBVIOUS
  <2> HIDE DEF t
  <2>2. e.w + Len(t) <= Len(e.mem)
    BY <1>1, <2>1
  <2>3. Put(e.mem, e.w, t) \in Seq(Byte) /\ Len(Put(e.mem, e.w, t)) = Len(e.mem)
    <3>1. e.mem \in Seq(Byte) /\ e.w \in Nat
      BY <1>1
    <3> QED BY <2>1, <2>2, <3>1, PutIs
  <2> QED BY <2>3 DEF t
<1> HIDE DEF m
<1>3. f = [mem |-> m, r |-> e.r, w |-> e.w]
  BY <1>1
<1>4. f.mem = m /\ f.w = e.w /\ f.r = e.r
  BY <1>3
<1>5. BufferOK(f, Byte)
  <2>1. /\ e.r \in Nat /\ e.w \in Nat /\ e.r <= e.w /\ e.w <= Len(m) /\ 8 <= Len(m)
        /\ Len(m) < SizeMod
    BY <1>1, <1>2
  <2> HIDE DEF f
  <2>2. BufferOK([mem |-> m, r |-> e.r, w |-> e.w], Byte)
    BY <1>2, <2>1, MakeBuffer
  <2> QED BY <1>3, <2>2
<1>6. writableBytes(f) = Len(e.mem) - e.w /\ size(f) = Len(e.mem)
  <2> HIDE DEF f
  <2> QED BY <1>2, <1>4, <1>5, SizesAre
<1> HIDE DEF f
<1>7. (IF 1 < writableBytes(f) THEN f.w + 1 ELSE size(f)) = e.w + 1
  BY <1>1, <1>4, <1>6
<1>8. advance(f, 1) = [f EXCEPT !.w = e.w + 1]
  BY <1>7 DEF advance
<1>9. [f EXCEPT !.w = e.w + 1] = [e EXCEPT !.mem = m, !.w = e.w + 1]
  BY DEF f
<1>10. Written(e, <<x>>) = [e EXCEPT !.mem = m, !.w = e.w + 1]
  <2>1. Len(<<x>>) = 1
    OBVIOUS
  <2> QED BY <2>1 DEF Written, m
<1> QED BY <1>8, <1>9, <1>10 DEF PutOne, f, m

LEMMA StepHolds ==
  ASSUME script \in Scripts, NEW e, NEW k \in Nat, k < Len(Stream), Holds(e, k),
         e.w < Len(e.mem), NEW x, x = Stream[k + 1]
  PROVE  Holds(StepOf(e, x), k + 1) /\ StepOf(e, x).w < Len(StepOf(e, x).mem)
<1> DEFINE g == <<x>>
           f == PutOne(e, x)
<1>1. /\ BufferOK(e, Byte) /\ Reserved(e) /\ e.w <= 8 + k /\ Len(e.mem) <= RoomFor(script)
      /\ e.w \in Nat /\ Len(e.mem) \in Nat /\ Contents(e) \in Seq(Byte)
  BY FieldsAre, ContentsIs DEF Holds
<1>2. Stream \in Seq(Byte) /\ Len(Stream) \in Nat
  BY RoomIs
<1>3. x \in Byte /\ k + 1 \in Nat /\ k + 1 <= Len(Stream)
  <2>1. k + 1 \in 1..Len(Stream) /\ k + 1 \in Nat
    BY <1>2
  <2> QED BY <1>2, <2>1, ElementOfSeq
<1>4. g \in Seq(Byte) /\ Len(g) = 1 /\ g[1] = x
  BY <1>3
<1>5. f = Written(e, g)
  BY <1>1, <1>3, PutOneIs
<1>6. Piece(g, k, k + 1)
  <2>1. (k + 1) - k = 1
    OBVIOUS
  <2>2. \A i \in 1..1 : i = 1
    OBVIOUS
  <2> HIDE DEF g
  <2>3. \A i \in 1..1 : g[i] = Stream[k + i]
    BY <1>4, <2>2
  <2> QED BY <1>4, <2>1, <2>3 DEF Piece
<1> HIDE DEF f, g
<1>7. /\ BufferOK(f, Byte) /\ f.r = e.r /\ f.w = e.w + 1 /\ Len(f.mem) = Len(e.mem)
      /\ Contents(f) = Contents(e) \o g
  <2>1. e.w + Len(g) <= Len(e.mem)
    BY <1>1, <1>4
  <2>2. /\ BufferOK(Written(e, g), Byte)
        /\ Written(e, g).r = e.r /\ Written(e, g).w = e.w + Len(g)
        /\ Len(Written(e, g).mem) = Len(e.mem)
        /\ Contents(Written(e, g)) = Contents(e) \o g
    BY <1>1, <1>4, <2>1, WriteKeeps
  <2> QED BY <1>4, <1>5, <2>2
<1>8. PICK taken \in Seq(Byte) : TookFirst(taken, e, k)
  BY DEF Holds
<1>9. TookFirst(taken, f, k + 1)
  <2> DEFINE m == k + 1
  <2>1. m \in Nat /\ k <= m /\ m <= Len(Stream) /\ Piece(g, k, m)
    BY <1>3, <1>6
  <2> HIDE DEF m
  <2>2. TookFirst(taken, f, m)
    BY <1>1, <1>7, <1>8, <2>1, TookMore
  <2> QED BY <2>2 DEF m
<1>10. Holds(f, k + 1)
  <2>1. Reserved(f) /\ f.w <= 8 + (k + 1) /\ Len(f.mem) <= RoomFor(script)
    BY <1>1, <1>7 DEF Reserved
  <2> QED BY <1>7, <1>8, <1>9, <2>1 DEF Holds
<1>11. writableBytes(f) = Len(f.mem) - f.w /\ size(f) = Len(f.mem)
       /\ f.w \in Nat /\ Len(f.mem) \in Nat /\ f.w <= Len(f.mem) /\ 8 <= Len(f.mem)
  BY <1>7, SizesAre, FieldsAre
<1>12. StepOf(e, x) = IF writableBytes(f) = 0 THEN ensureSpace(f, size(f)) ELSE f
  BY DEF StepOf, f
<1>13. CASE writableBytes(f) = 0
  <2> DEFINE len == Len(f.mem)
             d == ensureSpace(f, len)
             m == k + 1
  <2>1. len \in Nat /\ f.w = len /\ 8 <= len
    BY <1>11, <1>13
  <2>2. f.w + len <= RoomFor(script)
    <3>1. len <= 8 + m /\ m <= Len(Stream) /\ m \in Nat
      BY <1>3, <1>10, <2>1 DEF Holds
    <3>2. 16 + 2 * Len(Stream) <= RoomFor(script) /\ RoomFor(script) \in Nat /\ Len(Stream) \in Nat
      BY RoomIs
    <3> HIDE DEF len, m
    <3> QED BY <2>1, <3>1, <3>2
  <2>3. m \in Nat /\ m <= Len(Stream) /\ Holds(f, m)
    BY <1>3, <1>10
  <2> HIDE DEF len, m
  <2>4. Holds(d, m) /\ d.w + len <= Len(d.mem)
    BY <2>1, <2>2, <2>3, SpaceHolds
  <2> HIDE DEF d
  <2>5. d.w \in Nat /\ Len(d.mem) \in Nat
    BY <2>4, FieldsAre DEF Holds
  <2>6. d.w < Len(d.mem)
    BY <2>1, <2>4, <2>5
  <2> QED BY <1>11, <1>12, <1>13, <2>4, <2>6 DEF d, len, m
<1>14. CASE writableBytes(f) # 0
  <2>1. f.w < Len(f.mem)
    BY <1>11, <1>14
  <2> QED BY <1>10, <1>12, <1>14, <2>1
<1> QED BY <1>13, <1>14

LEMMA RoomForRecords ==
  ASSUME script \in Scripts, NEW in \in Nat, in <= Most(script) * RecordSize
  PROVE  8 + Len(Stream) + in <= RoomFor(script)
<1> DEFINE k == Most(script) * RecordSize
           n == Len(Stream)
<1>1. n \in Nat /\ InitialSize \in Nat /\ Most(script) \in Nat /\ RecordSize \in Nat
  BY RoomIs
<1>2. k \in Nat
  BY <1>1
<1>3. RoomFor(script) = 16 + InitialSize + 2 * n + k
  BY DEF RoomFor, Stream
<1>4. in <= k
  OBVIOUS
<1> HIDE DEF k, n
<1>5. 8 + n + in <= RoomFor(script)
  BY <1>1, <1>2, <1>3, <1>4
<1> QED BY <1>5 DEF n

(* The function that decrypt is defined by.                                 *)
IsFill(b, text, n, f) == f = [i \in 0..n |-> IF i = 0 THEN b ELSE StepOf(f[i - 1], text[i])]
Fill(b, text) == CHOOSE f : IsFill(b, text, Len(text), f)

(* The recursive definition defines a function.                             *)
LEMMA FillExists ==
  ASSUME NEW b, NEW text, NEW n \in Nat
  PROVE  \E f : IsFill(b, text, n, f)
<1> DEFINE Bad == {m \in Nat : ~\E f : IsFill(b, text, m, f)}
<1>1. SUFFICES ASSUME Bad # {} PROVE FALSE
  OBVIOUS
<1>2. PICK m \in Bad : \A k \in Bad : m <= k
  BY <1>1, LeastOfNats
<1>3. CASE m = 0
  <2> DEFINE f == [i \in 0..0 |-> b]
  <2>1. f = [i \in 0..0 |-> IF i = 0 THEN b ELSE StepOf(f[i - 1], text[i])]
    OBVIOUS
  <2>2. IsFill(b, text, 0, f)
    BY <2>1 DEF IsFill
  <2> QED BY <1>2, <1>3, <2>2
<1>4. CASE m # 0
  <2>1. m \in Nat \ {0} /\ m - 1 \in Nat /\ m - 1 \notin Bad
    BY <1>2, <1>4
  <2>2. PICK g : IsFill(b, text, m - 1, g)
    BY <2>1
  <2> DEFINE f == [i \in 0..m |-> IF i = m THEN StepOf(g[m - 1], text[m]) ELSE g[i]]
  <2>3. ASSUME NEW i \in 0..m
        PROVE  f[i] = IF i = 0 THEN b ELSE StepOf(f[i - 1], text[i])
    <3>1. i # 0 => i - 1 \in 0..(m - 1) /\ f[i - 1] = g[i - 1]
      BY <2>1
    <3>2. CASE i = m
      BY <2>1, <3>1, <3>2
    <3>3. CASE i # m
      <4>1. i \in 0..(m - 1) /\ f[i] = g[i]
        BY <2>1, <3>3
      <4>2. g[i] = IF i = 0 THEN b ELSE StepOf(g[i - 1], text[i])
        BY <2>2, <4>1 DEF IsFill
      <4> QED BY <3>1, <4>1, <4>2
    <3> QED BY <3>2, <3>3
  <2>4. IsFill(b, text, m, f)
    <3>1. f = [i \in 0..m |-> f[i]]
      OBVIOUS
    <3> HIDE DEF f
    <3>2. f = [i \in 0..m |-> IF i = 0 THEN b ELSE StepOf(f[i - 1], text[i])]
      BY <2>3, <3>1
    <3> QED BY <3>2, Zenon DEF IsFill
  <2> QED BY <1>2, <2>4
<1> QED BY <1>3, <1>4

(* After i bytes of text the buffer holds the stream as far as k + i.       *)
LEMMA FillHolds ==
  ASSUME script \in Scripts, NEW b, NEW k \in Nat, NEW m \in Nat, k <= m, m <= Len(Stream),
         Holds(b, k), NEW text, Piece(text, k, m), k < m => b.w < Len(b.mem)
  PROVE  Holds(Fill(b, text)[Len(text)], m)
<1> DEFINE n == Len(text)
           f == Fill(b, text)
<1>1. n = m - k /\ n \in Nat /\ \A i \in 1..n : text[i] = Stream[k + i]
  BY DEF Piece
<1>2. IsFill(b, text, n, f)
  BY <1>1, FillExists DEF Fill
<1> HIDE DEF n, f
<1>3. \A i \in 0..n : f[i] = IF i = 0 THEN b ELSE StepOf(f[i - 1], text[i])
  BY <1>2 DEF IsFill
<1> DEFINE Good(i) == Holds(f[i], k + i) /\ (k < m => f[i].w < Len(f[i].mem))
           Bad == {i \in 0..n : ~Good(i)}
<1>4. Bad = {}
  <2> SUFFICES ASSUME Bad # {} PROVE FALSE
    OBVIOUS
  <2>1. Bad \in SUBSET Nat
    BY <1>1
  <2>2. PICK j \in Bad : \A i \in Bad : j <= i
    <3> HIDE DEF Bad
    <3> QED BY <2>1, LeastOfNats
  <2>3. j \in 0..n /\ ~Good(j)
    <3> HIDE DEF Good
    <3> QED OBVIOUS
  <2>4. j # 0 => j - 1 \in 0..n /\ j - 1 \notin Bad
    <3> HIDE DEF Good
    <3> QED BY <1>1, <2>2, <2>3
  <2>5. j # 0 => Good(j - 1)
    <3> HIDE DEF Good
    <3> QED BY <2>4
  <2> HIDE DEF Bad
  <2>6. CASE j = 0
    <3>1. f[j] = b /\ k + j = k
      BY <1>3, <2>3, <2>6
    <3> QED BY <2>3, <3>1
  <2>7. CASE j # 0
    <3> DEFINE e == f[j - 1]
               p == k + (j - 1)
               x == text[j]
    <3>1. p \in Nat /\ p < Len(Stream) /\ k < m /\ j \in 1..n /\ p + 1 = k + j
      <4>1. Len(Stream) \in Nat
        BY RoomIs
      <4> QED BY <1>1, <2>3, <2>7, <4>1
    <3>2. Holds(e, p) /\ e.w < Len(e.mem)
      BY <2>5, <2>7, <3>1
    <3>3. x = Stream[p + 1]
      BY <1>1, <3>1
    <3>4. f[j] = StepOf(e, x)
      BY <1>3, <2>3, <2>7
    <3> HIDE DEF e, p, x
    <3>5. Holds(StepOf(e, x), p + 1) /\ StepOf(e, x).w < Len(StepOf(e, x).mem)
      BY <3>1, <3>2, <3>3, StepHolds
    <3>6. Good(j)
      BY <3>1, <3>4, <3>5
    <3> QED BY <2>3, <3>6
  <2> QED BY <2>6, <2>7
<1>5. n \in 0..n /\ k + n = m
  BY <1>1
<1>6. Good(n)
  <2> HIDE DEF Good
  <2> QED BY <1>4, <1>5
<1> QED BY <1>5, <1>6 DEF f, n

(* SslHandler::decrypt loses no byte of the text and keeps their order,     *)
(* however often the free space has to grow while it reads.                 *)
THEOREM DecryptHolds ==
  ASSUME script \in Scripts, NEW b, NEW k \in Nat, NEW m \in Nat, k <= m, m <= Len(Stream),
         Holds(b, k), NEW text, Piece(text, k, m),
         NEW in \in Nat, in <= Most(script) * RecordSize, k < m => in > 0
  PROVE  Holds(decrypt(b, text, in), m)
<1> DEFINE out == writableBytes(b)
           len == in - out
           d == IF in > out THEN ensureSpace(b, len) ELSE b
<1>1. decrypt(b, text, in) = Fill(d, text)[Len(text)]
  BY Zenon DEF decrypt, Fill, IsFill, StepOf, PutOne, d, len, out
<1>2. BufferOK(b, STRING \cup {Hole}) /\ b.w \in Nat /\ Len(b.mem) \in Nat /\ b.w <= Len(b.mem)
      /\ b.w <= 8 + k
  BY FieldsAre DEF Holds, Byte
<1>3. out = Len(b.mem) - b.w
  BY <1>2, SizesAre
<1>4. CASE in > out
  <2>1. len \in Nat /\ len > 0 /\ out \in Nat
    BY <1>2, <1>3, <1>4
  <2>2. b.w + len <= RoomFor(script)
    <3> DEFINE L == Len(Stream)
               room == RoomFor(script)
    <3>1. 8 + L + in <= room /\ L \in Nat /\ room \in Nat
      BY RoomForRecords, RoomIs
    <3>2. b.w <= 8 + L /\ len <= in
      BY <1>2, <2>1, <3>1
    <3> HIDE DEF L, room, len
    <3>3. b.w + len <= room
      BY <1>2, <2>1, <3>1, <3>2
    <3> QED BY <3>3 DEF room
  <2>3. k <= Len(Stream)
    BY RoomIs
  <2> HIDE DEF len
  <2>4. Holds(ensureSpace(b, len), k)
        /\ ensureSpace(b, len).w + len <= Len(ensureSpace(b, len).mem)
    BY <2>1, <2>2, <2>3, SpaceHolds
  <2>5. d = ensureSpace(b, len)
    BY <1>4
  <2> HIDE DEF d
  <2>6. d.w \in Nat /\ Len(d.mem) \in Nat
    BY <2>4, <2>5, FieldsAre DEF Holds
  <2>7. Holds(d, k) /\ d.w < Len(d.mem)
    BY <2>1, <2>4, <2>5, <2>6
  <2> QED BY <1>1, <2>7, FillHolds
<1>5. CASE ~(in > out)
  <2>1. d = b
    BY <1>5
  <2> HIDE DEF d
  <2>2. k < m => d.w < Len(d.mem)
    BY <1>2, <1>3, <1>5, <2>1
  <2> QED BY <1>1, <2>1, <2>2, FillHolds
<1> QED BY <1>4, <1>5

------------------------------- \* the handlers, on the record of a connection
(* A connection's record, and what a handler that is neither onConnection   *)
(* nor onMessage leaves alone.                                              *)
Fields == {"state", "context", "buf", "parser", "got", "written", "opened", "refused",
           "crashed", "made", "sent", "ssl"}
HasFields(x) == Fields \subseteq DOMAIN x
Plain(x, y) == /\ HasFields(y) /\ y.opened = x.opened /\ y.ssl = x.ssl /\ y.got = x.got
               /\ y.parser = x.parser /\ y.buf = x.buf
               /\ x.state # "connecting" => y.state # "connecting"

LEMMA PlainSelf == ASSUME NEW x, HasFields(x) PROVE Plain(x, x)
BY DEF Plain

LEMMA PlainTrans ==
  ASSUME NEW x, NEW y, NEW z, Plain(x, y), Plain(y, z)
  PROVE  Plain(x, z)
BY DEF Plain

LEMMA SendPlain ==
  ASSUME NEW x, HasFields(x)
  PROVE  Plain(x, Send(x)) /\ Plain(x, shutdown(x))
<1>1. Plain(x, Send(x))
  BY DEF Send, HasFields, Plain, Fields
<1>2. Plain(x, shutdown(x))
  <2> DEFINE y == [x EXCEPT !.state = "disconnecting", !.refused = TRUE]
  <2>1. HasFields(y) /\ y.opened = x.opened /\ y.ssl = x.ssl /\ y.got = x.got
        /\ y.parser = x.parser /\ y.buf = x.buf /\ y.state = "disconnecting"
    BY DEF HasFields, Fields
  <2>2. shutdown(x) = IF x.state = "connected" THEN y ELSE x
    BY DEF shutdown
  <2> HIDE DEF y
  <2> QED BY <2>1, <2>2, PlainSelf DEF Plain
<1> QED BY <1>1, <1>2

LEMMA WritePlain ==
  ASSUME NEW x, HasFields(x)
  PROVE  Plain(x, write(x))
<1> DEFINE y == IF Tls THEN [x EXCEPT !.made = @ + 1] ELSE x
           z == Send(y)
           w == [z EXCEPT !.written = @ + 1]
<1>1. Plain(x, y)
  BY DEF HasFields, Plain, Fields
<1>2. write(x) = IF x.state = "connected" THEN w ELSE x
  BY DEF write
<1> HIDE DEF y
<1>3. Plain(x, z)
  BY <1>1, SendPlain, PlainTrans DEF Plain
<1> HIDE DEF z
<1>4. Plain(z, w)
  BY <1>3 DEF HasFields, Plain, Fields
<1> HIDE DEF w
<1> QED BY <1>2, <1>3, <1>4, PlainTrans, PlainSelf

(* onConnection of HttpCodec tells the application once.                    *)
Opens(x, y) == /\ HasFields(y) /\ y.opened = x.opened + 1 /\ y.ssl = x.ssl /\ y.got = x.got
               /\ ParserOK(y.parser) /\ y.buf = x.buf
               /\ x.state # "connecting" => y.state # "connecting"

(* HttpCodec::onConnection.                                                 *)
LEMMA ConnectionOpens ==
  ASSUME NEW x, HasFields(x)
  PROVE  Opens(x, HttpOnConnection(x))
<1> DEFINE p == New(script.side)
           y == [x EXCEPT !.context = @ \cup {"HttpParser"}, !.parser = p, !.opened = @ + 1]
<1>1. ParserOK(p)
  BY NewParser
<1>2. /\ HasFields(y) /\ y.opened = x.opened + 1 /\ y.ssl = x.ssl /\ y.got = x.got
      /\ y.state = x.state /\ y.parser = p /\ y.buf = x.buf
  <2> HIDE DEF p
  <2> QED BY DEF HasFields, Fields
<1>3. HttpOnConnection(x) = IF Client THEN write(y) ELSE y
  BY DEF HttpOnConnection
<1> HIDE DEF y, p
<1>4. Plain(y, write(y))
  BY <1>2, WritePlain
<1> QED BY <1>1, <1>2, <1>3, <1>4 DEF Plain, Opens

(* SslCodec::onConnection tells the application nothing.                    *)
LEMMA SslConnectionPlain ==
  ASSUME NEW x, HasFields(x)
  PROVE  Plain(x, SslOnConnection(x))
<1> DEFINE y == [x EXCEPT !.context = @ \cup {"SslHandler", "ConnectionMsg"}]
           z == [y EXCEPT !.made = 1]
<1>1. Plain(x, y)
  BY DEF HasFields, Plain, Fields
<1>2. SslOnConnection(x) = IF Client THEN Send(z) ELSE y
  BY DEF SslOnConnection
<1> HIDE DEF y
<1>3. Plain(y, z)
  BY <1>1 DEF HasFields, Plain, Fields
<1> HIDE DEF z
<1>4. Plain(z, Send(z))
  BY <1>3, SendPlain DEF Plain
<1> QED BY <1>1, <1>2, <1>3, <1>4, PlainTrans

-----------------------------------------------------------------------------
(* The application answers every message of the list.                       *)
IsAnswers(y, n, f) == f = [i \in 0..n |-> IF i = 0 THEN y ELSE write(f[i - 1])]
Answers(y, n) == CHOOSE f : IsAnswers(y, n, f)

LEMMA AnswersExist ==
  ASSUME NEW y, NEW n \in Nat
  PROVE  \E f : IsAnswers(y, n, f)
<1> DEFINE Bad == {m \in Nat : ~\E f : IsAnswers(y, m, f)}
<1>1. SUFFICES ASSUME Bad # {} PROVE FALSE
  OBVIOUS
<1>2. PICK m \in Bad : \A k \in Bad : m <= k
  BY <1>1, LeastOfNats
<1>3. CASE m = 0
  <2> DEFINE f == [i \in 0..0 |-> y]
  <2>1. f = [i \in 0..0 |-> IF i = 0 THEN y ELSE write(f[i - 1])]
    OBVIOUS
  <2>2. IsAnswers(y, 0, f)
    BY <2>1 DEF IsAnswers
  <2> QED BY <1>2, <1>3, <2>2
<1>4. CASE m # 0
  <2>1. m \in Nat \ {0} /\ m - 1 \in Nat /\ m - 1 \notin Bad
    BY <1>2, <1>4
  <2>2. PICK g : IsAnswers(y, m - 1, g)
    BY <2>1
  <2> DEFINE f == [i \in 0..m |-> IF i = m THEN write(g[m - 1]) ELSE g[i]]
  <2>3. ASSUME NEW i \in 0..m
        PROVE  f[i] = IF i = 0 THEN y ELSE write(f[i - 1])
    <3>1. i # 0 => i - 1 \in 0..(m - 1) /\ f[i - 1] = g[i - 1]
      BY <2>1
    <3>2. CASE i = m
      BY <2>1, <3>1, <3>2
    <3>3. CASE i # m
      <4>1. i \in 0..(m - 1) /\ f[i] = g[i]
        BY <2>1, <3>3
      <4>2. g[i] = IF i = 0 THEN y ELSE write(g[i - 1])
        BY <2>2, <4>1 DEF IsAnswers
      <4> QED BY <3>1, <4>1, <4>2
    <3> QED BY <3>2, <3>3
  <2>4. IsAnswers(y, m, f)
    <3>1. f = [i \in 0..m |-> f[i]]
      OBVIOUS
    <3> HIDE DEF f
    <3> QED BY <2>3, <3>1 DEF IsAnswers
  <2> QED BY <1>2, <2>4
<1> QED BY <1>3, <1>4

(* Answering the requests of a list touches neither buffer nor parser.      *)
LEMMA AnswersPlain ==
  ASSUME NEW y, HasFields(y), NEW n \in Nat
  PROVE  Plain(y, Answers(y, n)[n])
<1> DEFINE f == Answers(y, n)
<1>1. IsAnswers(y, n, f)
  BY AnswersExist DEF Answers
<1> HIDE DEF f
<1>2. \A i \in 0..n : f[i] = IF i = 0 THEN y ELSE write(f[i - 1])
  BY <1>1 DEF IsAnswers
<1> DEFINE Bad == {i \in 0..n : ~Plain(y, f[i])}
<1>3. Bad = {}
  <2> SUFFICES ASSUME Bad # {} PROVE FALSE
    OBVIOUS
  <2>1. Bad \in SUBSET Nat
    OBVIOUS
  <2>2. PICK m \in Bad : \A k \in Bad : m <= k
    <3> HIDE DEF Bad
    <3> QED BY <2>1, LeastOfNats
  <2>3. m \in 0..n /\ ~Plain(y, f[m])
    OBVIOUS
  <2>4. m # 0 => m - 1 \in 0..n /\ m - 1 \notin Bad
    BY <2>2, <2>3
  <2>5. m # 0 => Plain(y, f[m - 1])
    BY <2>4
  <2> HIDE DEF Bad
  <2>6. m = 0 => FALSE
    BY <1>2, <2>3, PlainSelf
  <2>7. m # 0 => Plain(f[m - 1], f[m])
    BY <1>2, <2>3, <2>5, WritePlain DEF Plain
  <2> QED BY <2>3, <2>5, <2>6, <2>7, PlainTrans
<1> QED BY <1>3 DEF f

-----------------------------------------------------------------------------
(* One turn of the loop of HttpCodec::onMessage, and the whole loop.  It    *)
(* takes bytes from the front of the buffer, and may shut down.             *)
IsConn(x) == HasFields(x) /\ ParserOK(x.parser) /\ BufferOK(x.buf, Byte) /\ Reserved(x.buf)
Same(x, y) == /\ HasFields(y) /\ ParserOK(y.parser) /\ Left(x.buf, y.buf)
              /\ y.opened = x.opened /\ y.ssl = x.ssl
              /\ x.state # "connecting" => y.state # "connecting"
Quiet(x, y) == Same(x, y) /\ y.got = x.got

LEMMA QuietSelf == ASSUME NEW x, IsConn(x) PROVE Quiet(x, x)
BY LeftSelf DEF Quiet, Same, IsConn

LEMMA SameTrans ==
  ASSUME NEW x, NEW y, NEW z, IsConn(x), Same(x, y), Same(y, z)
  PROVE  Same(x, z)
<1>1. Left(x.buf, z.buf)
  BY LeftTrans DEF Same, IsConn
<1> QED BY <1>1 DEF Same

LEMMA SamePlain ==
  ASSUME NEW x, NEW y, NEW z, Same(x, y), Plain(y, z)
  PROVE  Same(x, z)
BY DEF Same, Plain

LEMMA SameIsConn ==
  ASSUME NEW x, NEW y, Same(x, y)
  PROVE  IsConn(y)
BY DEF Same, IsConn, Left

(* The application's onMessage.                                             *)
LEMMA MessageSame ==
  ASSUME NEW x, IsConn(x), NEW list, Len(list) \in Nat
  PROVE  Same(x, AppOnMessage(x, list))
<1> DEFINE y == [x EXCEPT !.got = @ \o list]
<1>1. Same(x, y) /\ HasFields(y)
  <2> DEFINE v == x.got \o list
  <2> HIDE DEF v
  <2> DEFINE z == [x EXCEPT !.got = v]
  <2>1. HasFields(z) /\ z.parser = x.parser /\ z.buf = x.buf /\ z.opened = x.opened
        /\ z.ssl = x.ssl /\ z.state = x.state
    BY DEF IsConn, HasFields, Fields
  <2> HIDE DEF z
  <2>2. Left(x.buf, z.buf) /\ ParserOK(z.parser)
    BY <2>1, LeftSelf DEF IsConn
  <2>3. Same(x, z) /\ HasFields(z)
    BY <2>1, <2>2 DEF Same
  <2> QED BY <2>3 DEF v, z
<1> HIDE DEF y
<1>2. AppOnMessage(x, list) = IF Client THEN y ELSE Answers(y, Len(list))[Len(list)]
  BY Zenon DEF AppOnMessage, Answers, IsAnswers, y
<1>3. Plain(y, Answers(y, Len(list))[Len(list)])
  BY <1>1, AnswersPlain
<1> QED BY <1>1, <1>2, <1>3, SamePlain

IsTurn(x, t) == /\ {"x", "list", "go"} \subseteq DOMAIN t /\ Quiet(x, t.x)
                /\ \E S : t.list \in Seq(S)

(* A turn hands nothing over yet, and takes bytes from the front only.      *)
LEMMA TurnKeeps ==
  ASSUME NEW x, IsConn(x), NEW t, IsTurn(x, t)
  PROVE  IsTurn(x, ParseTurn(t))
<1> DEFINE p == Parsed(t)
           q == AfterEof(t, p)
           more == [t.x EXCEPT !.buf = retrieve(@, p.count), !.parser = New(script.side)]
           bad == [t.x EXCEPT !.parser = reset(q)]
           end == IF getErr(q) # "OK" THEN shutdown(bad) ELSE bad
           t1 == [t EXCEPT !.x = more, !.list = Append(@, q)]
           t2 == [t EXCEPT !.x = end, !.go = FALSE]
<1>1. /\ {"x", "list", "go"} \subseteq DOMAIN t /\ Quiet(x, t.x) /\ IsConn(t.x)
      /\ \E S : t.list \in Seq(S)
  BY SameIsConn DEF IsTurn, Quiet
<1>2. ParseTurn(t) = IF ~t.go \/ readableBytes(t.x.buf) = 0 THEN t
                     ELSE IF isComplete(q) THEN t1 ELSE t2
  <2>1. ParseTurn(t) = IF ~t.go \/ readableBytes(t.x.buf) = 0 THEN t ELSE TakeMessage(t, p, q)
    BY Zenon DEF ParseTurn, TakeNext, p, q
  <2> HIDE DEF p, q
  <2>2. TakeMessage(t, p, q) = IF isComplete(q) THEN t1 ELSE t2
    BY Zenon DEF TakeMessage, more, bad, end, t1, t2
  <2> QED BY <2>1, <2>2, Zenon
<1>3. ParserOK(p)
  <2>1. Contents(t.x.buf) \in Seq(Byte)
    BY <1>1, ContentsIs DEF IsConn
  <2>2. Len(Contents(t.x.buf)) \in Nat
    BY <2>1, LenProperties
  <2> QED BY <1>1, <2>2, ExecuteKeeps DEF IsConn, Parsed
<1>4. ParserOK(q)
  <2> DEFINE e == <<>>
  <2>1. Len(e) \in Nat
    OBVIOUS
  <2> HIDE DEF e, p
  <2>2. ParserOK(execute(p, e))
    BY <1>3, <2>1, ExecuteKeeps
  <2> QED BY <1>3, <2>2 DEF AfterEof, e
<1> HIDE DEF p, q
<1>5. Quiet(x, more)
  <2> DEFINE b == retrieve(t.x.buf, p.count)
             n == New(script.side)
             y == [t.x EXCEPT !.buf = b, !.parser = n]
  <2>1. Left(t.x.buf, b)
    BY <1>1, <1>3, RetrieveLeaves DEF IsConn, ParserOK
  <2>2. ParserOK(n)
    BY NewParser
  <2> HIDE DEF b, n
  <2>3. HasFields(y) /\ y.parser = n /\ y.buf = b /\ y.opened = t.x.opened
        /\ y.ssl = t.x.ssl /\ y.state = t.x.state /\ y.got = t.x.got
    BY <1>1 DEF IsConn, HasFields, Fields
  <2> HIDE DEF y
  <2>4. Same(t.x, y)
    BY <2>1, <2>2, <2>3 DEF Same
  <2>5. Same(x, y)
    BY <1>1, <2>4, SameTrans DEF Quiet
  <2>6. Quiet(x, y)
    BY <1>1, <2>3, <2>5 DEF Quiet
  <2> QED BY <2>6 DEF b, n, y
<1>6. Quiet(x, bad) /\ HasFields(bad)
  <2> DEFINE r == reset(q)
             y == [t.x EXCEPT !.parser = r]
  <2>1. ParserOK(r)
    BY <1>4, NewParser
  <2> HIDE DEF r
  <2>2. HasFields(y) /\ y.parser = r /\ y.buf = t.x.buf /\ y.opened = t.x.opened
        /\ y.ssl = t.x.ssl /\ y.state = t.x.state /\ y.got = t.x.got
    BY <1>1 DEF IsConn, HasFields, Fields
  <2> HIDE DEF y
  <2>3. Quiet(x, y) /\ HasFields(y)
    BY <1>1, <2>1, <2>2 DEF Quiet, Same
  <2> QED BY <2>3 DEF r, y
<1> HIDE DEF more, bad
<1>7. Quiet(x, end)
  <2>1. Plain(bad, shutdown(bad))
    BY <1>6, SendPlain
  <2>2. Quiet(x, shutdown(bad))
    BY <1>6, <2>1, SamePlain DEF Quiet, Plain
  <2> QED BY <1>6, <2>2
<1> HIDE DEF end
<1>8. IsTurn(x, t2)
  BY <1>1, <1>7 DEF IsTurn
<1>9. \E S : Append(t.list, q) \in Seq(S)
  <2>1. PICK S : t.list \in Seq(S)
    BY <1>1
  <2>2. t.list \in Seq(S \cup {q}) /\ q \in S \cup {q}
    BY <2>1
  <2> QED BY <2>2, AppendProperties
<1>10. IsTurn(x, t1)
  <2> DEFINE a == Append(t.list, q)
  <2> HIDE DEF a
  <2>1. t1 = [t EXCEPT !.x = more, !.list = a]
    BY DEF a, t1
  <2>2. {"x", "list", "go"} \subseteq DOMAIN t1 /\ t1.x = more /\ t1.list = a
    BY <1>1, <2>1
  <2> HIDE DEF t1
  <2> QED BY <1>5, <1>9, <2>2 DEF IsTurn, a
<1> QED BY <1>2, <1>8, <1>10

IsLoop(x, n, f) ==
  f = [k \in 0..n |-> IF k = 0 THEN [x |-> x, list |-> <<>>, go |-> TRUE] ELSE ParseTurn(f[k - 1])]
Loop(x, n) == CHOOSE f : IsLoop(x, n, f)

LEMMA LoopExists ==
  ASSUME NEW x, NEW n \in Nat
  PROVE  \E f : IsLoop(x, n, f)
<1> DEFINE t0 == [x |-> x, list |-> <<>>, go |-> TRUE]
           Bad == {m \in Nat : ~\E f : IsLoop(x, m, f)}
<1>0. ASSUME NEW m, NEW f
      PROVE  IsLoop(x, m, f) <=> f = [k \in 0..m |-> IF k = 0 THEN t0 ELSE ParseTurn(f[k - 1])]
  BY Zenon DEF IsLoop
<1> HIDE DEF t0
<1>1. SUFFICES ASSUME Bad # {} PROVE FALSE
  OBVIOUS
<1>2. PICK m \in Bad : \A k \in Bad : m <= k
  BY <1>1, LeastOfNats
<1>3. CASE m = 0
  <2> DEFINE f == [i \in 0..0 |-> t0]
  <2>1. f = [i \in 0..0 |-> IF i = 0 THEN t0 ELSE ParseTurn(f[i - 1])]
    OBVIOUS
  <2>2. IsLoop(x, 0, f)
    BY <1>0, <2>1
  <2> QED BY <1>2, <1>3, <2>2
<1>4. CASE m # 0
  <2>1. m \in Nat \ {0} /\ m - 1 \in Nat /\ m - 1 \notin Bad
    BY <1>2, <1>4
  <2>2. PICK g : IsLoop(x, m - 1, g)
    BY <2>1
  <2> DEFINE f == [i \in 0..m |-> IF i = m THEN ParseTurn(g[m - 1]) ELSE g[i]]
  <2>3. ASSUME NEW i \in 0..m
        PROVE  f[i] = IF i = 0 THEN t0 ELSE ParseTurn(f[i - 1])
    <3>1. i # 0 => i - 1 \in 0..(m - 1) /\ f[i - 1] = g[i - 1]
      BY <2>1
    <3>2. CASE i = m
      BY <2>1, <3>1, <3>2
    <3>3. CASE i # m
      <4>1. i \in 0..(m - 1) /\ f[i] = g[i]
        BY <2>1, <3>3
      <4>2. g[i] = IF i = 0 THEN t0 ELSE ParseTurn(g[i - 1])
        BY <1>0, <2>2, <4>1
      <4> QED BY <3>1, <4>1, <4>2
    <3> QED BY <3>2, <3>3
  <2>4. IsLoop(x, m, f)
    <3>1. f = [i \in 0..m |-> f[i]]
      OBVIOUS
    <3> HIDE DEF f
    <3>2. f = [i \in 0..m |-> IF i = 0 THEN t0 ELSE ParseTurn(f[i - 1])]
      BY <2>3, <3>1
    <3> QED BY <1>0, <3>2, Zenon
  <2>5. m \notin Bad
    BY <2>4, Zenon
  <2> QED BY <1>2, <2>5
<1> QED BY <1>3, <1>4

(* The loop, by its least turn that would not.                              *)
LEMMA LoopKeeps ==
  ASSUME NEW x, IsConn(x), NEW n \in Nat
  PROVE  IsTurn(x, Loop(x, n)[n])
<1> DEFINE f == Loop(x, n)
           t0 == [x |-> x, list |-> <<>>, go |-> TRUE]
<1>1. IsLoop(x, n, f)
  BY LoopExists DEF Loop
<1> HIDE DEF f
<1>2. \A k \in 0..n : f[k] = IF k = 0 THEN t0 ELSE ParseTurn(f[k - 1])
  BY <1>1 DEF IsLoop
<1>3. IsTurn(x, t0)
  BY QuietSelf DEF IsTurn
<1> HIDE DEF t0
<1> DEFINE Bad == {k \in 0..n : ~IsTurn(x, f[k])}
<1>4. Bad = {}
  <2> SUFFICES ASSUME Bad # {} PROVE FALSE
    OBVIOUS
  <2>1. Bad \in SUBSET Nat
    OBVIOUS
  <2>2. PICK m \in Bad : \A k \in Bad : m <= k
    <3> HIDE DEF Bad
    <3> QED BY <2>1, LeastOfNats
  <2>3. m \in 0..n /\ ~IsTurn(x, f[m])
    OBVIOUS
  <2>4. m # 0 => m - 1 \in 0..n /\ m - 1 \notin Bad
    BY <2>2, <2>3
  <2>5. m # 0 => IsTurn(x, f[m - 1])
    BY <2>4
  <2> HIDE DEF Bad
  <2>6. m = 0 => FALSE
    BY <1>2, <1>3, <2>3
  <2> QED BY <1>2, <2>3, <2>5, <2>6, TurnKeeps
<1> QED BY <1>4 DEF f

(* What a whole onMessage of HttpCodec leaves alone.                        *)
LEMMA CodecSame ==
  ASSUME NEW x, IsConn(x)
  PROVE  Same(x, HttpOnMessage(x))
<1> DEFINE n == readableBytes(x.buf)
           t == Loop(x, n)[n]
           z == [x EXCEPT !.crashed = TRUE]
<1>0. n \in Nat
  <2>1. BufferOK(x.buf, Byte)
    BY DEF IsConn
  <2>2. readableBytes(x.buf) = x.buf.w - x.buf.r /\ x.buf.w - x.buf.r \in Nat
    BY <2>1, SizesAre, ContentsIs
  <2> QED BY <2>2
<1>1. HttpOnMessage(x) = IF "HttpParser" \notin x.context THEN z ELSE handleMessage(t)
  BY Zenon DEF HttpOnMessage, Loop, IsLoop, n, t, z
<1>2. Same(x, z)
  <2>1. Plain(x, z)
    BY DEF IsConn, HasFields, Fields, Plain
  <2> QED BY <2>1, QuietSelf, SamePlain DEF Quiet
<1>3. IsTurn(x, t)
  BY <1>0, LoopKeeps
<1> HIDE DEF t, z
<1>4. Same(x, t.x) /\ IsConn(t.x) /\ Len(t.list) \in Nat
  <2>1. PICK S : t.list \in Seq(S)
    BY <1>3 DEF IsTurn
  <2>2. Len(t.list) \in Nat
    BY <2>1, LenProperties
  <2> QED BY <1>3, <2>2, SameIsConn DEF IsTurn, Quiet
<1>5. Same(x, AppOnMessage(t.x, t.list))
  BY <1>4, MessageSame, SameTrans
<1> QED BY <1>1, <1>2, <1>4, <1>5 DEF handleMessage

------------------------------- \* OpenSSL and the peer
(* What n units decrypt to, and the flights in them, grow with n.           *)
LEMMA TimesGrows ==
  ASSUME NEW a \in Nat, NEW b \in Nat, NEW r \in Nat, a <= b
  PROVE  a * r <= b * r /\ a * r \in Nat /\ b * r \in Nat
<1> DEFINE d == b - a
           e == d * r
           f == a * r
           g == b * r
<1>1. d \in Nat /\ b = a + d
  OBVIOUS
<1>2. g = f + e
  BY <1>1
<1>3. e \in Nat /\ f \in Nat /\ g \in Nat
  BY <1>1
<1> HIDE DEF e, f, g
<1>4. f <= g
  BY <1>2, <1>3
<1> QED BY <1>3, <1>4 DEF f, g

LEMMA HandshakeIs == Handshake \in Nat
<1> DEFINE one == <<1>>
           two == <<1, 2>>
           start == <<0, 1>>
           none == <<>>
<1>1. Len(one) = 1 /\ Len(two) = 2 /\ Len(start) = 2 /\ Len(none) = 0
  OBVIOUS
<1> HIDE DEF one, two, start, none
<1>2. Flights.need \in {one, two, start, none}
  BY DEF Flights, one, two, start, none
<1> HIDE DEF Flights
<1> QED BY <1>1, <1>2 DEF Handshake

LEMMA HalfGrows ==
  ASSUME NEW a \in Nat, NEW b \in Nat, a <= b
  PROVE  a \div 2 \in Nat /\ b \div 2 \in Nat /\ a \div 2 <= b \div 2
OBVIOUS

(* Reading on never undoes a flight of the handshake.                       *)
LEMMA FlightsGrow ==
  ASSUME NEW a \in Nat, NEW b \in Nat, a <= b
  PROVE  /\ FlightsIn(a) \in Nat /\ FlightsIn(b) \in Nat /\ FlightsIn(a) <= FlightsIn(b)
         /\ FlightsIn(b) <= Handshake
<1> DEFINE x == a \div 2
           y == b \div 2
<1>1. x \in Nat /\ y \in Nat /\ x <= y
  BY HalfGrows
<1>2. FlightsIn(a) = Min2(Handshake, x) /\ FlightsIn(b) = Min2(Handshake, y)
  BY DEF FlightsIn
<1> HIDE DEF x, y
<1> QED BY <1>1, <1>2, HandshakeIs DEF Min2

(* Text of the handshake is none, and text ends where the stream does.      *)
LEMMA TextIs ==
  ASSUME script \in Scripts, NEW n \in Nat, ~Tls => n <= Len(Stream)
  PROVE  /\ Text(n) \in Nat /\ Text(n) <= Len(Stream)
         /\ Tls /\ n <= 2 * Handshake => Text(n) = 0
         /\ n = 0 => Text(n) = 0
<1> DEFINE h == n \div 2
           r == h - Handshake
           k == r * RecordSize
           len == Len(Stream)
<1>1. h \in Nat /\ (n <= 2 * Handshake => h <= Handshake)
  BY HandshakeIs
<1>2. Text(n) = IF ~Tls THEN n ELSE IF r <= 0 THEN 0 ELSE Min2(len, k)
  BY DEF Text
<1>3. r > 0 => k \in Nat
  <2>1. r > 0 => r \in Nat
    BY <1>1, HandshakeIs
  <2> HIDE DEF r
  <2> QED BY <2>1, RoomIs
<1>4. len \in Nat /\ r \in Int /\ (n <= 2 * Handshake => r <= 0) /\ (n = 0 => r <= 0)
  BY <1>1, RoomIs, HandshakeIs
<1>5. Tls \/ n <= len
  OBVIOUS
<1> HIDE DEF k, r, len
<1>6. r > 0 \/ r <= 0
  BY <1>4
<1> QED
  <2>1. Text(n) \in Nat /\ Text(n) <= len
    BY <1>2, <1>3, <1>4, <1>5, <1>6 DEF Min2
  <2>2. /\ Tls /\ n <= 2 * Handshake => Text(n) = 0
        /\ n = 0 => Text(n) = 0
    BY <1>2, <1>4
  <2> QED BY <2>1, <2>2 DEF len

(* More units are more text.                                                *)
LEMMA TextGrows ==
  ASSUME script \in Scripts, NEW a \in Nat, NEW b \in Nat, a <= b, ~Tls => b <= Len(Stream)
  PROVE  Text(a) <= Text(b)
<1> DEFINE x == a \div 2 - Handshake
           y == b \div 2 - Handshake
           j == x * RecordSize
           k == y * RecordSize
           len == Len(Stream)
<1>1. x \in Int /\ y \in Int /\ x <= y
  <2> DEFINE f == a \div 2
             g == b \div 2
  <2>1. f \in Nat /\ g \in Nat /\ f <= g
    BY HalfGrows
  <2>2. x = f - Handshake /\ y = g - Handshake
    OBVIOUS
  <2> HIDE DEF f, g, x, y
  <2> QED BY <2>1, <2>2, HandshakeIs
<1>2. /\ Text(a) = IF ~Tls THEN a ELSE IF x <= 0 THEN 0 ELSE Min2(len, j)
      /\ Text(b) = IF ~Tls THEN b ELSE IF y <= 0 THEN 0 ELSE Min2(len, k)
  BY DEF Text
<1>3. len \in Nat
  BY RoomIs
<1> HIDE DEF x, y
<1>4. x > 0 => j <= k /\ j \in Nat /\ k \in Nat
  <2>1. x > 0 => x \in Nat /\ y \in Nat
    BY <1>1
  <2> QED BY <1>1, <2>1, RoomIs, TimesGrows
<1>5. y > 0 => k \in Nat
  <2>1. y > 0 => y \in Nat
    BY <1>1
  <2> QED BY <2>1, RoomIs
<1> HIDE DEF j, k, len
<1>6. CASE ~Tls
  BY <1>2, <1>6
<1>7. CASE Tls /\ x <= 0
  BY <1>1, <1>2, <1>3, <1>5, <1>7 DEF Min2
<1>8. CASE Tls /\ x > 0
  <2>1. x \in Int /\ y \in Int /\ x > 0 /\ y > 0
    BY <1>1, <1>8
  <2>2. Text(a) = Min2(len, j) /\ Text(b) = Min2(len, k)
    BY <1>2, <1>8, <2>1
  <2>3. j <= k /\ j \in Nat /\ k \in Nat
    BY <1>4, <2>1
  <2> QED BY <1>3, <2>2, <2>3 DEF Min2
<1>9. x <= 0 \/ x > 0
  BY <1>1
<1> QED BY <1>6, <1>7, <1>8, <1>9

(* Of a peer that refuses the handshake nothing but flights comes.          *)
LEMMA RefusedAvailable ==
  ASSUME script.tls = "refused", NEW sent
  PROVE  Available(sent) \in Nat /\ Available(sent) <= 2 * Handshake
<1> DEFINE s == {k \in 1..Handshake : \A j \in 1..k : Flights.need[j] <= sent}
           n == Cardinality(s)
<1>1. n \in Nat /\ n <= Handshake
  <2>1. IsFiniteSet(1..Handshake) /\ Cardinality(1..Handshake) = Handshake
    BY HandshakeIs, FS_Interval
  <2>2. s \in SUBSET (1..Handshake)
    OBVIOUS
  <2> HIDE DEF s
  <2>3. IsFiniteSet(s) /\ n <= Handshake
    BY <2>1, <2>2, FS_Subset
  <2>4. n \in Nat
    BY <2>3, FS_CardinalityType
  <2> QED BY <2>3, <2>4
<1>2. Tls /\ Records = 0
  BY DEF Tls, Records
<1>3. Available(sent) = IF sent >= Flights.data THEN 2 * (Handshake + 0) ELSE 2 * n
  BY <1>2 DEF Available
<1> HIDE DEF n
<1> QED BY <1>1, <1>3, HandshakeIs

------------------------------- \* the invariant and the actions
(* What holds of the connection when n units of the peer's bytes are read:  *)
(* what it knows of the handshake, and what it holds of the stream.         *)
Told(x, n) == /\ x.ssl \in {"CONNECTING", "CONNECTED"} /\ x.opened \in {0, 1}
              /\ Tls => (x.opened = 1 <=> x.ssl = "CONNECTED")
              /\ Tls /\ x.opened = 1 => FlightsIn(n) = Handshake
              /\ x.got # <<>> => x.opened = 1
Running(x, n) == /\ IsConn(x) /\ Holds(x.buf, Text(n)) /\ Told(x, n)
                 /\ x.state # "connecting" /\ (~Tls => x.opened = 1)
Fresh(x) == /\ IsConn(x) /\ Holds(x.buf, 0) /\ x.state = "connecting" /\ x.opened = 0
            /\ x.ssl = "CONNECTING" /\ x.got = <<>>
CodecInv ==
  /\ script \in Scripts /\ pos \in Nat
  /\ ~Tls => pos <= Len(Stream)
  /\ script.tls = "refused" => pos <= 2 * Handshake
  /\ (pos = 0 /\ Fresh(c)) \/ Running(c, pos)

(* Taking messages from the buffer keeps a running connection running.      *)
LEMMA SameRunning ==
  ASSUME script \in Scripts, NEW x, NEW y, NEW n \in Nat, ~Tls => n <= Len(Stream),
         Running(x, n), Same(x, y), y.got = x.got \/ x.opened = 1
  PROVE  Running(y, n)
<1>1. Holds(y.buf, Text(n))
  <2>1. Text(n) \in Nat /\ RoomFor(script) \in Nat
    BY TextIs, RoomIs
  <2>2. Holds(x.buf, Text(n)) /\ Left(x.buf, y.buf)
    BY DEF Running, Same
  <2> QED BY <2>1, <2>2, LeftHolds
<1>2. IsConn(y)
  BY SameIsConn
<1>3. Told(y, n)
  BY DEF Running, Same, Told
<1> QED BY <1>1, <1>2, <1>3 DEF Running, Same

(* The rest of the pipeline after SslCodec, or the whole without it.        *)
LEMMA PipelineRunning ==
  ASSUME script \in Scripts, NEW x, NEW n \in Nat, ~Tls => n <= Len(Stream), Running(x, n)
  PROVE  Running(PipelineOnMessage(x), n)
<1> DEFINE y == HttpOnMessage(x)
<1>1. Tls /\ x.ssl = "CONNECTING" => PipelineOnMessage(x) = x
  BY DEF PipelineOnMessage
<1>2. PipelineOnMessage(x) \in {x, y}
  BY DEF PipelineOnMessage
<1>3. Same(x, y)
  BY CodecSame DEF Running
<1> HIDE DEF y
<1>4. ~(Tls /\ x.ssl = "CONNECTING") => x.opened = 1
  BY DEF Running, Told
<1>5. x.opened = 1 => Running(y, n)
  BY <1>3, SameRunning
<1> QED BY <1>1, <1>2, <1>4, <1>5

(* A handler that only sends or shuts down.                                 *)
LEMMA PlainRunning ==
  ASSUME NEW x, NEW y, NEW n, Running(x, n), Plain(x, y)
  PROVE  Running(y, n)
<1>1. IsConn(y) /\ Holds(y.buf, Text(n))
  BY DEF Running, IsConn, Plain
<1>2. Told(y, n)
  BY DEF Running, Told, Plain
<1> QED BY <1>1, <1>2 DEF Running, Plain

(* The text of the records read goes to the buffer.                         *)
LEMMA TextDecrypted ==
  ASSUME script \in Scripts, NEW b, NEW from \in Nat, NEW to \in Nat, from <= to,
         to - from <= Most(script), Tls, Holds(b, Text(from))
  PROVE  Holds(decrypt(b, SubSeq(Stream, Text(from) + 1, Text(to)), (to - from) * RecordSize),
               Text(to))
<1> DEFINE k == Text(from)
           m == Text(to)
           text == SubSeq(Stream, k + 1, m)
           d == to - from
           in == d * RecordSize
           top == Most(script) * RecordSize
<1>1. k \in Nat /\ m \in Nat /\ m <= Len(Stream)
  BY TextIs
<1>2. k <= m
  BY TextGrows
<1>3. d \in Nat /\ d <= Most(script) /\ (k < m => 1 <= d)
  <2>1. from = to => k = m
    OBVIOUS
  <2> HIDE DEF k, m
  <2> QED BY <1>1, <2>1
<1> HIDE DEF d
<1>4. in \in Nat /\ in <= top
  BY <1>3, RoomIs, TimesGrows
<1>5. k < m => in > 0
  <2> DEFINE z == 1
  <2> HIDE DEF z
  <2>1. k < m => z * RecordSize <= in
    <3>1. z \in Nat
      BY DEF z
    <3>2. k < m => z <= d
      BY <1>3 DEF z
    <3> HIDE DEF k, m
    <3> QED BY <1>3, <3>1, <3>2, RoomIs, TimesGrows
  <2>2. z * RecordSize = RecordSize /\ RecordSize > 0 /\ RecordSize \in Nat
    BY RoomIs DEF z
  <2> HIDE DEF in, k, m
  <2> QED BY <1>4, <2>1, <2>2
<1>6. Piece(text, k, m)
  <2> DEFINE s == Stream
  <2>1. s \in Seq(Byte) /\ k \in Nat /\ m \in Nat /\ k <= m /\ m <= Len(s)
    BY <1>1, <1>2, RoomIs
  <2> HIDE DEF s, k, m
  <2>2. /\ SubSeq(s, k + 1, m) \in Seq(Byte) /\ Len(SubSeq(s, k + 1, m)) = m - k
        /\ \A i \in 1..(m - k) : SubSeq(s, k + 1, m)[i] = s[k + i]
    BY <2>1, PartIs
  <2> QED BY <2>2 DEF Piece, s
<1> HIDE DEF k, m, in, text
<1>7. Holds(b, k)
  BY DEF k
<1>8. Holds(decrypt(b, text, in), m)
  BY <1>1, <1>2, <1>4, <1>5, <1>6, <1>7, DecryptHolds DEF top
<1> QED BY <1>8 DEF k, m, text, in, d

(* SslCodec::onMessage and onClose: what is read is decrypted, the peer's   *)
(* flight is answered, and the end of the handshake opens the connection.   *)
LEMMA UnsealRunning ==
  ASSUME script \in Scripts, NEW x, NEW from \in Nat, NEW to \in Nat, from <= to,
         to - from <= Most(script), Tls, script.tls = "refused" => to <= 2 * Handshake,
         Running(x, from)
  PROVE  Running(Unseal(x, from, to), to)
<1> DEFINE buf == decrypt(x.buf, SubSeq(Stream, Text(from) + 1, Text(to)), (to - from) * RecordSize)
           made == IF FlightsIn(to) = FlightsIn(from) THEN x.made
                   ELSE Flights.makes[FlightsIn(to)]
           d == [x EXCEPT !.buf = buf, !.made = made]
           e == [d EXCEPT !.ssl = "CONNECTED", !.context = @ \ {"ConnectionMsg"}]
<1>1. Unseal(x, from, to) = IF from # to /\ SSL_failed(to) THEN shutdown(x)
                            ELSE IF from # to /\ ~SSL_is_init_finished(to) THEN Send(d)
                            ELSE IF from # to /\ d.ssl = "CONNECTING" THEN HttpOnConnection(e)
                            ELSE d
  BY Zenon DEF Unseal, d, e, buf, made
<1>2. Holds(buf, Text(to))
  BY TextDecrypted DEF Running
<1> HIDE DEF buf, made
<1>3. FlightsIn(from) = Handshake => FlightsIn(to) = Handshake
  BY FlightsGrow, HandshakeIs
<1>4. /\ HasFields(d) /\ d.buf = buf /\ d.parser = x.parser /\ d.opened = x.opened
      /\ d.ssl = x.ssl /\ d.got = x.got /\ d.state = x.state
  BY DEF Running, IsConn, HasFields, Fields
<1> HIDE DEF d
<1>5. Running(d, to)
  <2>1. IsConn(d)
    BY <1>2, <1>4 DEF Running, IsConn, Holds
  <2>2. Told(d, to)
    BY <1>3, <1>4 DEF Running, Told
  <2> QED BY <1>2, <1>4, <2>1, <2>2 DEF Running
<1>6. SSL_failed(to) => Running(shutdown(x), to)
  <2> SUFFICES ASSUME SSL_failed(to) PROVE Running(shutdown(x), to)
    OBVIOUS
  <2>1. script.tls = "refused" /\ FlightsIn(to) = Handshake
    BY DEF SSL_failed
  <2>2. to <= 2 * Handshake /\ from <= 2 * Handshake
    BY <2>1, HandshakeIs
  <2>3. Text(to) = 0 /\ Text(from) = 0
    BY <2>2, TextIs
  <2>4. Holds(x.buf, Text(to)) /\ Told(x, to)
    BY <1>3, <2>3 DEF Running, Told
  <2>5. Running(x, to)
    BY <2>4 DEF Running
  <2>6. Plain(x, shutdown(x))
    BY SendPlain DEF Running, IsConn
  <2> QED BY <2>5, <2>6, PlainRunning
<1>7. Running(Send(d), to)
  BY <1>4, <1>5, SendPlain, PlainRunning
<1>8. SSL_is_init_finished(to) /\ d.ssl = "CONNECTING" => Running(HttpOnConnection(e), to)
  <2> SUFFICES ASSUME SSL_is_init_finished(to), d.ssl = "CONNECTING"
               PROVE  Running(HttpOnConnection(e), to)
    OBVIOUS
  <2> DEFINE y == HttpOnConnection(e)
  <2>1. FlightsIn(to) = Handshake
    BY DEF SSL_is_init_finished
  <2>2. d.opened = 0 /\ d.got = <<>> /\ d.state # "connecting" /\ Holds(d.buf, Text(to))
    BY <1>5 DEF Running, Told
  <2>3. /\ HasFields(e) /\ e.buf = d.buf /\ e.opened = d.opened
        /\ e.ssl = "CONNECTED" /\ e.got = d.got /\ e.state = d.state
    BY <1>4 DEF HasFields, Fields
  <2> HIDE DEF e
  <2>4. Opens(e, y)
    BY <2>3, ConnectionOpens
  <2> HIDE DEF y
  <2>5. /\ HasFields(y) /\ y.opened = 1 /\ y.ssl = "CONNECTED" /\ y.got = <<>>
        /\ ParserOK(y.parser) /\ y.buf = d.buf /\ y.state # "connecting"
    BY <2>2, <2>3, <2>4 DEF Opens
  <2>6. IsConn(y) /\ Holds(y.buf, Text(to))
    BY <2>2, <2>5 DEF IsConn, Holds
  <2>7. Told(y, to)
    BY <2>1, <2>5 DEF Told
  <2>8. Running(y, to)
    BY <2>5, <2>6, <2>7 DEF Running
  <2> QED BY <2>8 DEF y
<1> HIDE DEF e
<1> QED BY <1>1, <1>5, <1>6, <1>7, <1>8

(* HttpResponseCodec::onClose goes through the pipeline once more.          *)
LEMMA CloseRunning ==
  ASSUME script \in Scripts, pos \in Nat, ~Tls => pos <= Len(Stream),
         script.tls = "refused" => pos <= 2 * Handshake, NEW x, Running(x, pos)
  PROVE  Running(HttpOnClose(x), pos)
<1> DEFINE y == [x EXCEPT !.context = @ \cup {"onClose"}]
           z == [x EXCEPT !.crashed = TRUE]
           u == IF Tls THEN Unseal(y, pos, pos) ELSE y
<1>1. HttpOnClose(x) \in {x, z, PipelineOnMessage(u)}
  <2>1. HttpOnClose(x) = IF ~Client THEN x
                         ELSE IF "HttpParser" \notin x.context THEN z
                         ELSE IF x.parser.status # "parsing" THEN x
                         ELSE PipelineOnMessage(u)
    BY Zenon DEF HttpOnClose, y, z, u
  <2> HIDE DEF z, u
  <2> QED BY <2>1
<1>2. Plain(x, y) /\ Plain(x, z)
  BY DEF Running, IsConn, HasFields, Fields, Plain
<1> HIDE DEF y, z
<1>3. Running(y, pos) /\ Running(z, pos)
  BY <1>2, PlainRunning
<1>4. Tls => Running(Unseal(y, pos, pos), pos)
  <2> DEFINE n == pos
  <2>1. n \in Nat /\ n <= n /\ n - n <= Most(script)
    BY RoomIs
  <2> QED BY <1>3, <2>1, UnsealRunning
<1>5. Running(u, pos)
  BY <1>3, <1>4
<1> HIDE DEF u
<1>6. Running(PipelineOnMessage(u), pos)
  BY <1>5, PipelineRunning
<1> QED BY <1>1, <1>3, <1>6

-----------------------------------------------------------------------------
(* The buffer is empty, and the application has seen nothing.               *)
LEMMA InitCodec == Init => CodecInv
<1> SUFFICES ASSUME Init PROVE CodecInv
  OBVIOUS
<1> DEFINE b == Buffer(InitialSize)
           p == New(script.side)
           none == <<>>
           x == [state |-> "connecting", context |-> {}, buf |-> b, parser |-> p, got |-> none,
                 written |-> 0, opened |-> 0, refused |-> FALSE, crashed |-> FALSE,
                 made |-> 0, sent |-> 0, ssl |-> "CONNECTING"]
<1>1. script \in Scripts /\ pos = 0 /\ c = x
  BY DEF Init
<1>2. /\ BufferOK(b, Byte) /\ Reserved(b) /\ b.w = 8 /\ Len(b.mem) = 8 + InitialSize
      /\ Contents(b) = <<>>
  BY NewBuffer, BytesAre
<1>3. ParserOK(p)
  BY NewParser
<1> HIDE DEF b, p, none
<1>4. /\ HasFields(x) /\ x.state = "connecting" /\ x.buf = b /\ x.parser = p /\ x.got = none
      /\ x.opened = 0 /\ x.ssl = "CONNECTING"
  BY DEF HasFields, Fields
<1> HIDE DEF x
<1>5. Len(b.mem) <= RoomFor(script)
  BY <1>1, <1>2, RoomIs
<1>6. TookFirst(<<>>, b, 0)
  <2> DEFINE s == Stream
  <2>1. s \in Seq(Byte)
    BY <1>1, RoomIs
  <2> HIDE DEF s
  <2> DEFINE z == 0
             f == SubSeq(s, 1, z)
             e == <<>>
  <2>2. z \in Nat /\ z <= Len(s)
    BY <2>1, LenProperties
  <2> HIDE DEF z
  <2>3. f \in Seq(Byte) /\ Len(f) = z
    BY <2>1, <2>2, FirstIs
  <2> HIDE DEF f
  <2>4. f = <<>>
    BY <2>3, EmptySeq DEF z
  <2>5. e \in Seq(Byte)
    OBVIOUS
  <2>6. e \o Contents(b) = f
    <3>1. Contents(b) = e /\ f = e
      BY <1>2, <2>4 DEF e
    <3>2. e \o e = e
      BY <2>5, ConcatEmptySeq DEF e
    <3> HIDE DEF e
    <3> QED BY <3>1, <3>2
  <2> QED BY <2>6, Zenon DEF TookFirst, s, f, z, e
<1>7. Holds(b, 0)
  <2> DEFINE z == 0
             e == <<>>
  <2>1. e \in Seq(Byte) /\ b.w <= 8 + z
    BY <1>2
  <2> HIDE DEF z, e
  <2>2. TookFirst(e, b, z)
    BY <1>6, Zenon DEF z, e
  <2>3. Holds(b, z)
    BY <1>2, <1>5, <2>1, <2>2 DEF Holds
  <2> QED BY <2>3 DEF z
<1>8. Fresh(c)
  BY <1>1, <1>2, <1>3, <1>4, <1>7 DEF Fresh, IsConn, none
<1>9. 0 <= Len(Stream) /\ 0 <= 2 * Handshake
  BY <1>1, RoomIs, HandshakeIs
<1> QED BY <1>1, <1>8, <1>9 DEF CodecInv

(* The script never changes, so neither does what is defined by it.         *)
After(x, n) == /\ ~Tls => n <= Len(Stream)
               /\ script.tls = "refused" => n <= 2 * Handshake
               /\ (n = 0 /\ Fresh(x)) \/ Running(x, n)

LEMMA ScriptStays ==
  ASSUME script \in Scripts, script' = script, pos' \in Nat, After(c', pos')
  PROVE  CodecInv'
<1>1. Tls' = Tls /\ Stream' = Stream /\ RoomFor(script)' = RoomFor(script) /\ Client' = Client
  BY DEF Tls, Stream, Client
<1>2. Flights' = Flights
  BY <1>1 DEF Flights
<1>3. Handshake' = Handshake
  BY <1>2 DEF Handshake
<1>4. FlightsIn(pos)' = FlightsIn(pos')
  BY <1>3 DEF FlightsIn
<1>5. Text(pos)' = Text(pos')
  BY <1>1, <1>3 DEF Text
<1>6. SubSeq(Stream, 1, Text(pos))' = SubSeq(Stream, 1, Text(pos')) /\ (8 + Text(pos))' = 8 + Text(pos')
  BY <1>1, <1>5
<1>7. Holds(c'.buf, Text(pos')) => Holds(c.buf, Text(pos))'
  BY <1>1, <1>6, Zenon DEF Holds, TookFirst
<1>8. Holds(c'.buf, 0) => Holds(c.buf, 0)'
  BY <1>1, Zenon DEF Holds, TookFirst
<1>9. IsConn(c') => IsConn(c)'
  BY Zenon DEF IsConn
<1>10. Told(c', pos') => Told(c, pos)'
  BY <1>1, <1>3, <1>4, Zenon DEF Told
<1>11. Running(c', pos') => Running(c, pos)'
  BY <1>1, <1>7, <1>9, <1>10, Zenon DEF Running
<1>12. Fresh(c') => Fresh(c)'
  BY <1>8, <1>9, Zenon DEF Fresh
<1>13. /\ ~Tls' => pos' <= Len(Stream)'
       /\ script'.tls = "refused" => pos' <= 2 * Handshake'
  BY <1>1, <1>3, Zenon DEF After
<1> QED BY <1>11, <1>12, <1>13, Zenon DEF After, CodecInv

(* TcpConnection::onConnection, with TLS and without.                       *)
LEMMA ConnectCodec == CodecInv /\ Connect => CodecInv'
<1> SUFFICES ASSUME CodecInv, Connect PROVE CodecInv'
  OBVIOUS
<1> DEFINE x == [c EXCEPT !.state = "connected"]
           zero == 0
<1>1. /\ c.state = "connecting" /\ script' = script /\ pos' = pos
      /\ c' = IF Tls THEN SslOnConnection(x) ELSE HttpOnConnection(x)
  BY DEF Connect
<1>2. pos = zero /\ Fresh(c) /\ script \in Scripts
  BY <1>1 DEF CodecInv, Running
<1>3. /\ HasFields(x) /\ x.opened = 0 /\ x.got = <<>> /\ x.ssl = "CONNECTING" /\ x.buf = c.buf
      /\ x.parser = c.parser /\ x.state = "connected" /\ IsConn(c) /\ Holds(c.buf, 0)
  BY <1>2 DEF Fresh, IsConn, HasFields, Fields
<1> HIDE DEF x, Connect
<1>4. zero \in Nat /\ zero <= Len(Stream) /\ zero <= 2 * Handshake
  BY <1>2, RoomIs, HandshakeIs
<1>5. Text(zero) = 0
  <2>1. zero = 0 => Text(zero) = 0
    <3> HIDE DEF zero
    <3> QED BY <1>2, <1>4, TextIs
  <2> QED BY <2>1
<1>6. IsConn(x) /\ Holds(x.buf, Text(zero))
  BY <1>3, <1>5 DEF IsConn
<1> HIDE DEF zero
<1>7. Running(c', zero)
  <2>1. CASE Tls
    <3>1. Told(x, zero)
      BY <1>3 DEF Told
    <3>2. Running(x, zero)
      BY <1>3, <1>6, <2>1, <3>1 DEF Running
    <3>3. Running(SslOnConnection(x), zero)
      BY <1>3, <3>2, SslConnectionPlain, PlainRunning
    <3> QED BY <1>1, <2>1, <3>3
  <2>2. CASE ~Tls
    <3> DEFINE y == HttpOnConnection(x)
    <3>1. Opens(x, y)
      BY <1>3, ConnectionOpens
    <3>2. c' = y
      BY <1>1, <2>2
    <3> HIDE DEF y
    <3>3. /\ HasFields(y) /\ y.opened = 1 /\ y.ssl = "CONNECTING" /\ y.got = <<>>
          /\ ParserOK(y.parser) /\ y.buf = x.buf /\ y.state # "connecting"
      BY <1>3, <3>1 DEF Opens
    <3>4. IsConn(y) /\ Holds(y.buf, Text(zero)) /\ Told(y, zero)
      BY <1>6, <2>2, <3>3 DEF IsConn, Told
    <3> QED BY <3>2, <3>3, <3>4 DEF Running
  <2> QED BY <2>1, <2>2
<1>8. After(c', pos') /\ pos' \in Nat
  BY <1>1, <1>2, <1>4, <1>7 DEF After
<1> QED BY <1>1, <1>2, <1>8, ScriptStays

(* A read of 0.                                                             *)
LEMMA CloseCodec == CodecInv /\ PeerClose => CodecInv'
<1> SUFFICES ASSUME CodecInv, PeerClose PROVE CodecInv'
  OBVIOUS
<1> DEFINE x == [c EXCEPT !.state = "disconnected"]
<1>1. /\ c.state \in {"connected", "disconnecting"} /\ script' = script /\ pos' = pos
      /\ c' = HttpOnClose(x)
  BY DEF PeerClose
<1>2. /\ Running(c, pos) /\ script \in Scripts /\ pos \in Nat /\ (~Tls => pos <= Len(Stream))
      /\ (script.tls = "refused" => pos <= 2 * Handshake)
  BY <1>1 DEF CodecInv, Fresh
<1>3. /\ HasFields(x) /\ x.opened = c.opened /\ x.ssl = c.ssl /\ x.got = c.got
      /\ x.parser = c.parser /\ x.buf = c.buf /\ x.state = "disconnected"
  BY <1>2 DEF Running, IsConn, HasFields, Fields
<1> HIDE DEF x, PeerClose
<1>4. Running(x, pos)
  <2>1. Plain(c, x)
    BY <1>3 DEF Plain
  <2> QED BY <1>2, <2>1, PlainRunning
<1>5. Running(HttpOnClose(x), pos)
  BY <1>2, <1>4, CloseRunning
<1>6. After(c', pos') /\ pos' \in Nat
  BY <1>1, <1>2, <1>5 DEF After
<1> QED BY <1>1, <1>2, <1>6, ScriptStays

(* A read of n units, with TLS and without.                                 *)
LEMMA ReadCodec ==
  ASSUME CodecInv, NEW n \in 1..Most(script), Read(n)
  PROVE  CodecInv'
<1> DEFINE buf == readFd(c.buf, SubSeq(Stream, pos + 1, pos'))
           x == IF Tls THEN Unseal(c, pos, pos') ELSE [c EXCEPT !.buf = buf]
<1>1. /\ c.state \in {"connected", "disconnecting"} /\ script' = script /\ pos' = pos + n
      /\ pos + n <= Available(c.sent) /\ (~Tls => n <= MaxRead(c.buf))
  BY DEF Read, Arrive
<1>2. c' = PipelineOnMessage(x)
  BY Zenon DEF Read, x, buf
<1> HIDE DEF Read
<1>3. /\ Running(c, pos) /\ script \in Scripts /\ pos \in Nat
  BY <1>1 DEF CodecInv, Fresh
<1>4. n \in Nat /\ Most(script) \in Nat /\ n <= Most(script) /\ n >= 1
  BY <1>3, RoomIs
<1>5. pos' \in Nat /\ pos <= pos' /\ pos' - pos <= Most(script) /\ pos' - pos = n
  BY <1>1, <1>3, <1>4
<1>6. ~Tls => pos' <= Len(Stream)
  BY <1>1 DEF Available
<1>7. script.tls = "refused" => pos' <= 2 * Handshake
  BY <1>1, <1>5, HandshakeIs, RefusedAvailable
<1>8. Running(x, pos')
  <2>1. CASE Tls
    <3>1. Running(Unseal(c, pos, pos'), pos')
      BY <1>3, <1>5, <1>7, <2>1, UnsealRunning
    <3> QED BY <2>1, <3>1
  <2>2. CASE ~Tls
    <3> DEFINE g == SubSeq(Stream, pos + 1, pos')
               y == [c EXCEPT !.buf = buf]
               s == Stream
    <3>1. s \in Seq(Byte) /\ pos' <= Len(s)
      BY <1>3, <1>6, <2>2, RoomIs
    <3>2. Text(pos) = pos /\ Text(pos') = pos'
      BY <2>2 DEF Text
    <3> HIDE DEF s
    <3>3. /\ SubSeq(s, pos + 1, pos') \in Seq(Byte)
          /\ Len(SubSeq(s, pos + 1, pos')) = pos' - pos
          /\ \A i \in 1..(pos' - pos) : SubSeq(s, pos + 1, pos')[i] = s[pos + i]
      <4> DEFINE k == pos
                 m == pos'
      <4>1. s \in Seq(Byte) /\ k \in Nat /\ m \in Nat /\ k <= m /\ m <= Len(s)
        BY <1>3, <1>5, <3>1
      <4> HIDE DEF k, m
      <4>2. /\ SubSeq(s, k + 1, m) \in Seq(Byte) /\ Len(SubSeq(s, k + 1, m)) = m - k
            /\ \A i \in 1..(m - k) : SubSeq(s, k + 1, m)[i] = s[k + i]
        BY <4>1, PartIs
      <4> QED BY <4>2 DEF k, m
    <3>4. Piece(g, pos, pos') /\ Len(g) <= MaxRead(c.buf)
      BY <1>1, <1>5, <2>2, <3>3 DEF Piece, s
    <3> HIDE DEF g
    <3>5. Holds(c.buf, pos) /\ pos' <= Len(Stream)
      BY <1>3, <1>6, <2>2, <3>2 DEF Running
    <3>6. Holds(readFd(c.buf, g), pos')
      BY <1>3, <1>5, <3>4, <3>5, ReadHolds
    <3>7. Holds(buf, Text(pos'))
      BY <3>2, <3>6 DEF g
    <3> HIDE DEF buf
    <3>8. /\ HasFields(y) /\ y.opened = c.opened /\ y.ssl = c.ssl /\ y.got = c.got
          /\ y.parser = c.parser /\ y.buf = buf /\ y.state = c.state
      BY <1>3 DEF Running, IsConn, HasFields, Fields
    <3> HIDE DEF y
    <3>9. IsConn(y) /\ Told(y, pos')
      BY <1>3, <2>2, <3>7, <3>8 DEF Running, IsConn, Holds, Told
    <3>10. Running(y, pos')
      BY <1>3, <2>2, <3>7, <3>8, <3>9 DEF Running
    <3> QED BY <2>2, <3>10 DEF y
  <2> QED BY <2>1, <2>2
<1> HIDE DEF x
<1>9. Running(PipelineOnMessage(x), pos')
  BY <1>3, <1>5, <1>6, <1>8, PipelineRunning
<1>10. After(c', pos')
  BY <1>2, <1>6, <1>7, <1>9 DEF After
<1> QED BY <1>1, <1>3, <1>5, <1>10, ScriptStays

LEMMA StutterCodec == CodecInv /\ UNCHANGED vars => CodecInv'
<1> SUFFICES ASSUME CodecInv, UNCHANGED vars PROVE CodecInv'
  OBVIOUS
<1>1. script' = script /\ pos' = pos /\ c' = c
  BY DEF vars
<1>2. script \in Scripts /\ pos' \in Nat /\ After(c', pos')
  BY <1>1 DEF CodecInv, After
<1> QED BY <1>1, <1>2, ScriptStays

(* Whatever the script, the reads and the closing: the connection is either  *)
(* fresh or running, its buffer holds a rest of the text read, and what the  *)
(* application was told agrees with the handshake (SslCodec.cpp:30-77,       *)
(* HttpCodec.cpp:12-55).                                                     *)
THEOREM CodecInvariant == Spec => []CodecInv
<1>1. CodecInv /\ [Next]_vars => CodecInv'
  <2> SUFFICES ASSUME CodecInv, [Next]_vars PROVE CodecInv'
    OBVIOUS
  <2>1. CASE Connect
    BY <2>1, ConnectCodec
  <2>2. CASE PeerClose
    BY <2>2, CloseCodec
  <2>3. ASSUME NEW n \in 1..Most(script), Read(n) PROVE CodecInv'
    BY <2>3, ReadCodec
  <2>4. CASE UNCHANGED vars
    BY <2>4, StutterCodec
  <2> QED BY <2>1, <2>2, <2>3, <2>4 DEF Next
<1> QED BY <1>1, InitCodec, PTL DEF Spec

(* The application sees its connection once, before any message, and with    *)
(* TLS only after the handshake (SslCodec.cpp:30-51, 71-77).                 *)
THEOREM OpenedOnce == Spec => []OpenedOnceFirst
<1>1. CodecInv => OpenedOnceFirst
  BY DEF CodecInv, Fresh, Running, Told, OpenedOnceFirst
<1> QED BY <1>1, CodecInvariant, PTL

(* What the buffer holds is a rest of the text read so far: nothing in its   *)
(* middle or at its end is lost, repeated or moved, however reads, records,  *)
(* partial messages, moves and growth of the buffer follow one another       *)
(* (Buffer.cpp, HttpCodec.cpp:31-50, SslContext.cpp:212-273).              *)
BytesInOrder == \E k \in 0..Text(pos) : Contents(c.buf) = SubSeq(Stream, k + 1, Text(pos))

(* What follows x in the first n elements of s.                              *)
LEMMA RestOfStream ==
  ASSUME NEW S, NEW s \in Seq(S), NEW x \in Seq(S), NEW y \in Seq(S), NEW n \in Nat, n <= Len(s),
         x \o y = SubSeq(s, 1, n)
  PROVE  \E k \in 0..n : y = SubSeq(s, k + 1, n)
<1> DEFINE a == x \o y
           f == SubSeq(s, 1, n)
           k == Len(x)
           m == Len(y)
<1>1. k \in Nat /\ m \in Nat
  BY LenProperties
<1>2. a \in Seq(S) /\ Len(a) = k + m /\ \A i \in 1..(k + m) : a[i] = IF i <= k THEN x[i] ELSE y[i - k]
  BY ConcatProperties
<1>3. f \in Seq(S) /\ Len(f) = n /\ \A i \in 1..n : f[i] = s[i]
  BY FirstIs
<1>4. a = f
  OBVIOUS
<1> HIDE DEF a, f
<1>5. k + m = n /\ k <= n /\ m = n - k
  BY <1>1, <1>2, <1>3, <1>4
<1> DEFINE g == SubSeq(s, k + 1, n)
<1> HIDE DEF k, m
<1>6. g \in Seq(S) /\ Len(g) = n - k /\ \A i \in 1..(n - k) : g[i] = s[k + i]
  <2>1. s \in Seq(S) /\ k \in Nat /\ n \in Nat /\ k <= n /\ n <= Len(s)
    BY <1>1, <1>5
  <2>2. /\ SubSeq(s, k + 1, n) \in Seq(S) /\ Len(SubSeq(s, k + 1, n)) = n - k
        /\ \A i \in 1..(n - k) : SubSeq(s, k + 1, n)[i] = s[k + i]
    BY <2>1, PartIs
  <2> QED BY <2>2 DEF g
<1> HIDE DEF g
<1>7. ASSUME NEW i \in 1..m PROVE y[i] = g[i]
  <2>1. i \in Int /\ k + i \in 1..(k + m) /\ ~(k + i <= k) /\ (k + i) - k = i /\ k + i \in 1..n
    BY <1>1, <1>5
  <2>2. y[i] = a[k + i]
    BY <1>2, <2>1
  <2>3. f[k + i] = s[k + i] /\ g[i] = s[k + i]
    BY <1>3, <1>5, <1>6, <2>1
  <2> QED BY <1>4, <2>2, <2>3
<1>8. y = g
  <2>1. Len(y) = Len(g)
    BY <1>5, <1>6 DEF m
  <2> QED BY <1>6, <1>7, <2>1, SeqEqual DEF m
<1> QED BY <1>1, <1>5, <1>8 DEF g

(* The bytes of the peer stay in order in the buffer (BytesInOrder), for     *)
(* every script, every cut and every size of records and buffers.            *)
THEOREM StreamKept == Spec => []BytesInOrder
<1>1. ASSUME CodecInv PROVE BytesInOrder
  <2> DEFINE n == Text(pos)
             s == Stream
             y == Contents(c.buf)
  <2>1. script \in Scripts /\ pos \in Nat /\ (~Tls => pos <= Len(Stream))
    BY <1>1 DEF CodecInv
  <2>2. n \in Nat /\ n <= Len(s) /\ s \in Seq(Byte)
    BY <2>1, TextIs, RoomIs
  <2>3. Holds(c.buf, n)
    <3>1. pos = 0 => n = 0
      BY <2>1, TextIs
    <3> HIDE DEF n
    <3> QED BY <1>1, <3>1 DEF CodecInv, Fresh, Running, n
  <2>4. PICK taken \in Seq(Byte) : TookFirst(taken, c.buf, n)
    BY <2>3 DEF Holds
  <2>5. y \in Seq(Byte)
    BY <2>3, ContentsIs DEF Holds
  <2>6. taken \o y = SubSeq(s, 1, n)
    BY <2>4 DEF TookFirst
  <2> HIDE DEF n, s, y
  <2>7. \E k \in 0..n : y = SubSeq(s, k + 1, n)
    BY <2>2, <2>5, <2>6, RestOfStream
  <2> QED BY <2>7 DEF BytesInOrder, n, s, y
<1> QED BY <1>1, CodecInvariant, PTL
=============================================================================
