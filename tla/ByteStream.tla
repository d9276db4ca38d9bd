------------------------------ MODULE ByteStream ------------------------------
(***************************************************************************)
(* What TcpConnection promises to those who send on it, whatever is        *)
(* buffered, written in parts or called from elsewhere: the bytes given to *)
(* send reach the socket in order, none twice and none left out, and the   *)
(* stream ends after the last of them, unless the peer resets it or the    *)
(* user switches write events by hand. A closed connection writes nothing. *)
(*                                                                         *)
(* A byte is its number in the order of the sends, so that what reached    *)
(* the socket is the sequence <<1, 2, ..., m>> for some m.                 *)
(***************************************************************************)
EXTENDS Naturals, Sequences

CONSTANT Lens            \* the sizes of the data that is sent

VARIABLES given,         \* how many bytes were passed to send
          wire,          \* the bytes written to the socket so far
          ended,         \* shutdown(SHUT_WR) was called
          closed,        \* the connection is disconnected
          reset,         \* the peer has reset the connection
          manual         \* the user has called enableWrite or disableWrite

vars == <<given, wire, ended, closed, reset, manual>>

Init == /\ given = 0 /\ wire = <<>>
        /\ ended = FALSE /\ closed = FALSE /\ reset = FALSE /\ manual = FALSE

CanWrite == ~ended /\ ~closed /\ ~reset

(* The first m bytes are on the wire; more than before only where possible.  *)
Reaches(m) == /\ wire' = [i \in 1..m |-> i]
              /\ m > Len(wire) => CanWrite

(* send: some of the bytes are written at once, perhaps none, perhaps all.   *)
Send == /\ ~closed
        /\ \E n \in Lens : given' = given + n
        /\ \E m \in Len(wire)..given' : Reaches(m)
        /\ UNCHANGED <<ended, closed, reset, manual>>

(* handleWrite or sendOutputBuf: more of the bytes given are written, and    *)
(* the half-close that was waiting for the last of them may follow.          *)
Transfer == /\ \E m \in (Len(wire) + 1)..given : Reaches(m)
            /\ ended' \in {FALSE, Len(wire') = given}
            /\ UNCHANGED <<given, closed, reset, manual>>

(* shutdown, with nothing left to write.                                     *)
Finish == /\ ~ended /\ ~closed
          /\ Len(wire) = given \/ reset \/ manual
          /\ ended' = TRUE
          /\ UNCHANGED <<given, wire, closed, reset, manual>>

(* handleClose: what was not written is dropped.                             *)
Close == ~closed /\ closed' = TRUE /\ UNCHANGED <<given, wire, ended, reset, manual>>

Reset == ~reset /\ reset' = TRUE /\ UNCHANGED <<given, wire, ended, closed, manual>>

TakeOver == ~manual /\ manual' = TRUE /\ UNCHANGED <<given, wire, ended, closed, reset>>

Next == Send \/ Transfer \/ Finish \/ Close \/ Reset \/ TakeOver

Spec == Init /\ [][Next]_vars
==============================================================================
