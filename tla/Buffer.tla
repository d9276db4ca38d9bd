------------------------------- MODULE Buffer -------------------------------
(* net/Buffer.cpp: the byte buffer of every connection, as functions on a   *)
(* record of the vector's bytes and the two indices.  Bytes are tokens of   *)
(* the modules that use it; indices count from 0 as in the code, positions  *)
(* of `mem` from 1.  The int8/16/32/64 accessors are append, prepend, peek  *)
(* and retrieve of a fixed length and have no operator of their own.        *)
EXTENDS Integers, Sequences

CONSTANTS InitialSize,   \* Buffer::initialSize (1024 in the code)
          ExtraBuf,      \* readFd's stack buffer (65536 in the code)
          SizeMod        \* 2^w for size_t of w bits

ASSUME BufferAssumption ==
  /\ InitialSize \in Nat \ {0} /\ ExtraBuf \in Nat \ {0}
  /\ SizeMod \in Nat /\ SizeMod > 8 + InitialSize + ExtraBuf

prepends == 8
Hole == "hole"           \* a byte nobody has written

Min2(a, b) == IF a < b THEN a ELSE b

Buffer(n) == [mem |-> [i \in 1..(prepends + n) |-> Hole],
              r |-> prepends, w |-> prepends]

size(b)             == Len(b.mem)
readableBytes(b)    == (b.w - b.r) % SizeMod
writableBytes(b)    == (size(b) - b.w) % SizeMod
prependableBytes(b) == b.r
Contents(b)         == SubSeq(b.mem, b.r + 1, b.w)

\* std::copy to position `at`; the vector ends where it ends
Put(mem, at, data) ==
  [i \in 1..Len(mem) |->
      IF i \in at + 1 .. at + Len(data) THEN data[i - at] ELSE mem[i]]

\* vector::resize, which also shrinks
Resize(mem, n) == [i \in 1..n |-> IF i <= Len(mem) THEN mem[i] ELSE Hole]

retrieveAll(b) == [b EXCEPT !.r = prepends, !.w = prepends]

retrieve(b, len) ==
  IF len < readableBytes(b) THEN [b EXCEPT !.r = b.r + len] ELSE retrieveAll(b)

advance(b, len) ==
  [b EXCEPT !.w = IF len < writableBytes(b) THEN b.w + len ELSE size(b)]

\* Grow when the free space at both ends is too small, else move to the front.
ensureSpace(b, len) ==
  IF writableBytes(b) >= len THEN b
  ELSE IF (writableBytes(b) + prependableBytes(b) - prepends) % SizeMod < len
  THEN [b EXCEPT !.mem = Resize(b.mem, b.w + len)]
  ELSE [mem |-> Put(b.mem, prepends, Contents(b)),
        r |-> prepends, w |-> prepends + readableBytes(b)]

append(b, data) ==
  LET e == ensureSpace(b, Len(data))
  IN [e EXCEPT !.mem = Put(e.mem, e.w, data), !.w = e.w + Len(data)]

prepend(b, data) ==
  LET len == Min2(Len(data), prependableBytes(b))
  IN [b EXCEPT !.r = b.r - len,
               !.mem = Put(b.mem, b.r - len, SubSeq(data, 1, len))]

\* readv into the free space and the stack buffer, which is then appended
MaxRead(b) ==
  writableBytes(b) + (IF writableBytes(b) < ExtraBuf THEN ExtraBuf ELSE 0)

readFd(b, data) ==
  LET here == Min2(Len(data), writableBytes(b))
      b1   == [b EXCEPT !.mem = Put(b.mem, b.w, SubSeq(data, 1, here)),
                        !.w = b.w + here]
  IN IF Len(data) <= writableBytes(b) THEN b1
     ELSE append(b1, SubSeq(data, here + 1, Len(data)))

\* the n bytes that write took
writeFd(b, n) == IF n > 0 THEN retrieve(b, n) ELSE b

\* what the caller gets, and the buffer afterwards
readAsString(b, len) ==
  LET n == Min2(len, readableBytes(b))
  IN <<SubSeq(Contents(b), 1, n), retrieve(b, n)>>

shrinkToFit(b) ==
  append(ensureSpace(Buffer(InitialSize), readableBytes(b)), Contents(b))

=============================================================================
