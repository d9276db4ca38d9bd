------------------------------ MODULE HttpCodec ------------------------------
(* A connection whose TcpHandler is a TcpPipeline: SslCodec (or nothing),   *)
(* HttpRequestCodec or HttpResponseCodec, and an application handler as in  *)
(* examples/https.  The peer's bytes, a script chosen at the start, arrive  *)
(* in reads of any length, and the peer may close at any moment.  OpenSSL   *)
(* is external: it turns whole records into text, and takes part in the     *)
(* handshake by the table Flights.                                          *)
EXTENDS HttpParser, Buffer, FiniteSets

CONSTANTS Catalogue,    \* name -> what a message is: bytes, meaning, cut points
          Scripts,      \* records [side, tls, msgs]
          RecordSize    \* tokens of text in a TLS record

\* All the bytes of a script.
StreamOf(s) ==
  LET f[i \in 0..Len(s.msgs)] == IF i = 0 THEN <<>> ELSE f[i - 1] \o Catalogue[s.msgs[i]].bytes
  IN f[Len(s.msgs)]

\* A read takes at most Most(s) units of them; SslHandler::decrypt makes room
\* for as many records, and then for as much as there is already.
Most(s) == 2 * Len(StreamOf(s)) + 8
RoomFor(s) == 16 + InitialSize + 2 * Len(StreamOf(s)) + Most(s) * RecordSize

ASSUME CodecAssumption ==
  /\ RecordSize \in Nat \ {0}
  /\ \A m \in DOMAIN Catalogue : Catalogue[m].bytes \in Seq(STRING)
  /\ \A s \in Scripts : /\ s.side \in {"REQUEST", "RESPONSE"}
                        /\ s.msgs \in Seq(DOMAIN Catalogue)
                        /\ RoomFor(s) + ExtraBuf < SizeMod    \* size_t is wide enough

VARIABLES script,   \* what the peer sends, and on which side this end is
          pos,      \* units of it read: tokens, or half records with TLS
          c,        \* the TcpConnection with its buffer, context and handlers
          cuts      \* history: messages in whose body, or URL, a read ended

vars == <<script, pos, c, cuts>>

Tls == script.tls # "none"
Client == script.side = "RESPONSE"

Stream == StreamOf(script)

\* The i-th message of the script, and where its bytes begin and end.
Msg(i) == Catalogue[script.msgs[i]]
EndOf == LET e[i \in 0..Len(script.msgs)] ==
               IF i = 0 THEN 0 ELSE e[i - 1] + Len(Msg(i).bytes)
         IN [i \in 0..Len(script.msgs) |-> e[i]]

------------------------------------------------------- \* OpenSSL and the peer
\* Per flight of the peer: how many of our flights it needs first, and how
\* many of ours exist once it is processed; last, what the peer needs before
\* it sends data.  A TLS 1.2 server ends the handshake with a flight.
Flights ==
  CASE ~Tls   -> [need |-> <<>>, makes |-> <<>>, data |-> 0]
    [] Client /\ script.tls = "tls12" -> [need |-> <<1, 2>>, makes |-> <<2, 2>>, data |-> 3]
    [] Client /\ script.tls # "tls12" -> [need |-> <<1>>, makes |-> <<2>>, data |-> 3]
    [] ~Client /\ script.tls = "tls12" -> [need |-> <<0, 1>>, makes |-> <<1, 2>>, data |-> 2]
    [] OTHER  -> [need |-> <<0, 1>>, makes |-> <<1, 1>>, data |-> 1]
Handshake == Len(Flights.need)

\* Text is what n units decrypt to; FlightsIn, the handshake records in them.
Text(n) == IF ~Tls THEN n
           ELSE LET r == n \div 2 - Handshake
                IN IF r <= 0 THEN 0 ELSE Min2(Len(Stream), r * RecordSize)
FlightsIn(n) == Min2(Handshake, n \div 2)
Records == IF script.tls = "refused" THEN 0
           ELSE (Len(Stream) + RecordSize - 1) \div RecordSize

\* Units the peer has sent, given how many of our flights reached it.
Available(sent) ==
  IF ~Tls THEN Len(Stream)
  ELSE IF sent >= Flights.data THEN 2 * (Handshake + Records)
  ELSE 2 * Cardinality({k \in 1..Handshake : \A j \in 1..k : Flights.need[j] <= sent})

SSL_is_init_finished(n) == script.tls # "refused" /\ FlightsIn(n) = Handshake
SSL_failed(n)           == script.tls = "refused" /\ FlightsIn(n) = Handshake

---------------------------------------------------- \* the handlers, on record c
\* conn->send, of what bioRead took out of the BIO: our flights and our data
Send(x)     == IF x.state = "connected" THEN [x EXCEPT !.sent = x.made] ELSE x
shutdown(x) == IF x.state = "connected"
               THEN [x EXCEPT !.state = "disconnecting", !.refused = TRUE] ELSE x

\* PipelineHandler::write, through SslCodec::handleWrite when it is there:
\* encrypt, and send all that the BIO holds with it.
write(x) ==
  IF x.state = "connected"
  THEN [Send(IF Tls THEN [x EXCEPT !.made = @ + 1] ELSE x) EXCEPT !.written = @ + 1]
  ELSE x

\* HttpCodec::onConnection, then the application's, which for a client asks
HttpOnConnection(x) ==
  LET y == [x EXCEPT !.context = @ \cup {"HttpParser"}, !.parser = New(script.side),
                     !.opened = @ + 1]
  IN IF Client THEN write(y) ELSE y

Mutant_SslOnConnection(x) ==    \* lets the next handlers go on at once
  HttpOnConnection([x EXCEPT !.context = {"SslHandler", "ConnectionMsg"},
                             !.made = IF Client THEN 1 ELSE 0])

SslOnConnection(x) ==
  LET y == [x EXCEPT !.context = @ \cup {"SslHandler", "ConnectionMsg"}]
  IN IF Client THEN Send([y EXCEPT !.made = 1]) ELSE y

\* The application's onMessage: a server answers every request of the list.
AppOnMessage(x, list) ==
  LET y == [x EXCEPT !.got = @ \o list]
      w[i \in 0..Len(list)] == IF i = 0 THEN y ELSE write(w[i - 1])
  IN IF Client THEN y ELSE w[Len(list)]

\* One turn of HttpCodec::onMessage's loop on [x, list, go]: p parses what
\* the buffer holds, and q is p after the end of the connection, if it ended.
Parsed(t) == execute(t.x.parser, Contents(t.x.buf))
AfterEof(t, p) ==
  IF "onClose" \in t.x.context /\ ~http_should_keep_alive(p) THEN execute(p, <<>>) ELSE p

Mutant_TakeMessage(t, p, q) ==  \* takes all the bytes for the message
  IF isComplete(q)
  THEN [t EXCEPT !.x = [@ EXCEPT !.buf = retrieveAll(@), !.parser = New(script.side)],
                 !.list = Append(@, q)]
  ELSE [t EXCEPT !.x = [@ EXCEPT !.parser = reset(q)], !.go = FALSE]

TakeMessage(t, p, q) ==
  LET more == [t.x EXCEPT !.buf = retrieve(@, p.count), !.parser = New(script.side)]
      bad  == [t.x EXCEPT !.parser = reset(q)]
  IN IF isComplete(q)
     THEN [t EXCEPT !.x = more, !.list = Append(@, q)]
     ELSE [t EXCEPT !.x = IF getErr(q) # "OK" THEN shutdown(bad) ELSE bad, !.go = FALSE]

TakeNext(t, p) == TakeMessage(t, p, AfterEof(t, p))
ParseTurn(t) ==
  IF ~t.go \/ readableBytes(t.x.buf) = 0 THEN t ELSE TakeNext(t, Parsed(t))

\* A parser that is not in the context is a null pointer.
handleMessage(t) == IF t.list = <<>> THEN t.x ELSE AppOnMessage(t.x, t.list)
HttpOnMessage(x) ==
  LET turn[k \in 0..readableBytes(x.buf)] ==
        IF k = 0 THEN [x |-> x, list |-> <<>>, go |-> TRUE] ELSE ParseTurn(turn[k - 1])
  IN IF "HttpParser" \notin x.context THEN [x EXCEPT !.crashed = TRUE]
     ELSE handleMessage(turn[readableBytes(x.buf)])

\* SslHandler::decrypt: room for what came in, then SSL_read into the free
\* space, with more room each time it is full.
Mutant_decrypt(b, text, inBytes) ==      \* room for one read only
  LET out == writableBytes(b)
      e   == IF inBytes > out THEN ensureSpace(b, inBytes - out) ELSE b
  IN advance([e EXCEPT !.mem = Put(e.mem, e.w, text)], Len(text))

decrypt(b, text, inBytes) ==
  LET out == writableBytes(b)
      at[i \in 0..Len(text)] ==
        IF i = 0 THEN IF inBytes > out THEN ensureSpace(b, inBytes - out) ELSE b
        ELSE LET e == at[i - 1]
                 f == advance([e EXCEPT !.mem = Put(e.mem, e.w, <<text[i]>>)], 1)
             IN IF writableBytes(f) = 0 THEN ensureSpace(f, size(f)) ELSE f
  IN at[Len(text)]

\* SslCodec::onMessage, without what it calls next, after a read from unit `from` to unit `to`; with
\* from = to there is nothing to decrypt.
Mutant_Unseal(x, from, to) ==            \* does not answer the peer's flight
  LET text == SubSeq(Stream, Text(from) + 1, Text(to))
      d    == [x EXCEPT !.buf = decrypt(x.buf, text, (to - from) * RecordSize)]
  IN IF ~SSL_is_init_finished(to) THEN x
     ELSE IF d.ssl = "CONNECTING" THEN HttpOnConnection([d EXCEPT !.ssl = "CONNECTED"]) ELSE d

Unseal(x, from, to) ==
  LET text == SubSeq(Stream, Text(from) + 1, Text(to))
      d    == [x EXCEPT !.buf = decrypt(x.buf, text, (to - from) * RecordSize),
                        !.made = IF FlightsIn(to) = FlightsIn(from) THEN @
                                 ELSE Flights.makes[FlightsIn(to)]]
  IN IF from # to /\ SSL_failed(to) THEN shutdown(x)
     ELSE IF from # to /\ ~SSL_is_init_finished(to) THEN Send(d)
     ELSE IF from # to /\ d.ssl = "CONNECTING"
     THEN HttpOnConnection([d EXCEPT !.ssl = "CONNECTED", !.context = @ \ {"ConnectionMsg"}])
     ELSE d

\* The pipeline's onMessage: nothing goes on to HttpCodec before the handshake
\* is over, or without a byte of text.
PipelineOnMessage(x) ==
  IF Tls /\ (x.ssl = "CONNECTING" \/ readableBytes(x.buf) = 0) THEN x ELSE HttpOnMessage(x)

\* HttpResponseCodec::onClose: what is left in the buffer may end with EOF.
HttpOnClose(x) ==
  LET y == [x EXCEPT !.context = @ \cup {"onClose"}]
  IN IF ~Client THEN x
     ELSE IF "HttpParser" \notin x.context THEN [x EXCEPT !.crashed = TRUE]
     ELSE IF x.parser.status # "parsing" THEN x
     ELSE PipelineOnMessage(IF Tls THEN Unseal(y, pos, pos) ELSE y)

-------------------------------------------------------------------- \* actions
Init ==
  /\ script \in Scripts
  /\ pos = 0
  /\ cuts = [body |-> {}, url |-> {}]
  /\ c = [state |-> "connecting", context |-> {}, buf |-> Buffer(InitialSize),
          parser |-> New(script.side), got |-> <<>>, written |-> 0, opened |-> 0,
          refused |-> FALSE, crashed |-> FALSE, made |-> 0, sent |-> 0,
          ssl |-> "CONNECTING"]

\* TcpConnection::onConnection, TcpPipeline::onConnection
Connect ==
  /\ c.state = "connecting"
  /\ LET x == [c EXCEPT !.state = "connected"]
     IN c' = IF Tls THEN SslOnConnection(x) ELSE HttpOnConnection(x)
  /\ UNCHANGED <<script, pos, cuts>>

\* TcpConnection::handleRead with n > 0 units, TcpPipeline::onMessage.
Arrive(n) ==
  /\ c.state \in {"connected", "disconnecting"} /\ ~c.crashed
  /\ pos + n <= Available(c.sent)
  /\ ~Tls => n <= MaxRead(c.buf)
  /\ pos' = pos + n

Read(n) ==
  /\ Arrive(n)
  /\ c' = PipelineOnMessage(
            IF Tls THEN Unseal(c, pos, pos')
            ELSE [c EXCEPT !.buf = readFd(@, SubSeq(Stream, pos + 1, pos'))])
  /\ LET In(i, points) == Text(pos') - EndOf[i - 1] \in points
     IN cuts' = [body |-> cuts.body \cup {i \in 1..Len(script.msgs) : In(i, Msg(i).bodyCuts)},
                 url  |-> cuts.url  \cup {i \in 1..Len(script.msgs) : In(i, Msg(i).urlCuts)}]
  /\ UNCHANGED script

\* A read of 0: TcpConnection::handleClose, TcpPipeline::onClose.
PeerClose ==
  /\ c.state \in {"connected", "disconnecting"} /\ ~c.crashed
  /\ c' = HttpOnClose([c EXCEPT !.state = "disconnected"])
  /\ UNCHANGED <<script, pos, cuts>>

Next == Connect \/ PeerClose \/ \E n \in 1..Most(script) : Read(n)

\* Arrive(n) is enabled whenever Read(n) is, and no other step is one.
Spec == Init /\ [][Next]_vars /\ WF_vars(Connect) /\ WF_pos(\E n \in 1..Most(script) : Arrive(n))

----------------------------------------------------------------- \* properties
Indices == 1..Len(script.msgs)

\* What the application gets is what the peer sent, in order: start line,
\* headers and, unless a read ended in the URL, its parts and parameters.  A
\* body ends with the sent body, and is the sent body unless a read ended in
\* it; one that the connection's end cuts short is not judged (HttpCodec.cpp:19-54, http_parser.c, HttpParser.cpp:84-118).
DeliveredAsSent ==
  \A i \in 1..Len(c.got) :
    LET m == Msg(i) g == c.got[i] IN
    /\ <<g.method, g.code, g.version, g.upgrade, g.headers>>
         = <<m.method, m.code, m.version, m.upgrade, m.headers>>
    /\ i \notin cuts.url => g.url = m.url /\ g.params = m.params
    /\ \/ m.eof /\ Text(pos) < EndOf[i]
       \/ /\ Len(g.body) >= Len(m.body)
          /\ SubSeq(g.body, Len(g.body) - Len(m.body) + 1, Len(g.body)) = m.body
          /\ i \notin cuts.body => g.body = m.body

\* The messages whose bytes have all been read, up to the first that is
\* malformed; one that the end of the connection ends is complete when the
\* connection has ended after its head.
Complete == {i \in Indices : /\ \A j \in 1..i : Msg(j).ok
                             /\ IF Msg(i).eof
                                THEN /\ c.state = "disconnected"
                                     /\ EndOf[i] - Len(Msg(i).body) <= Text(pos)
                                ELSE EndOf[i] <= Text(pos)}

\* A message is handed over in the very read that completes it, however the
\* reads cut it and whatever comes before it in the same read; no part of a
\* message and nothing from a malformed one on is; a server answers no request
\* twice (HttpCodec.cpp:32-53, HttpResponseCodec.cpp:21-31).
Prompt == /\ ~c.crashed => Len(c.got) = Cardinality(Complete)
          /\ c.written <= IF Client THEN 1 ELSE Len(c.got)

\* The buffer holds the bytes read and not handed over, none lost or moved
\* (Buffer.cpp:14-118 under every mix of reads and retrievals).
BytesKept == Contents(c.buf) = SubSeq(Stream, EndOf[Len(c.got)] + 1, Text(pos))

\* This end gives up on a malformed message, in the read that shows it, and
\* otherwise only after a refused handshake, or a read that ended in an
\* absolute URL where what it had of the URL is none (HttpCodec.cpp:41-45,
\* HttpParser.cpp:84-91, http_parser.c).
RefusedForCause ==
  /\ c.refused => \/ script.tls = "refused" \/ cuts.url # {}
                  \/ \E i \in Indices : ~Msg(i).ok /\ EndOf[i - 1] < Text(pos)
  /\ (\E i \in Indices : ~Msg(i).ok /\ EndOf[i] <= Text(pos)) => c.refused

\* The application sees its connection once, before any message, and with TLS
\* only after the handshake (SslCodec.cpp:30-51, 71-77).
OpenedOnceFirst ==
  /\ c.opened <= 1 /\ (c.got # <<>> => c.opened = 1)
  /\ Tls => (c.opened = 1 <=> c.ssl = "CONNECTED")
  /\ c.opened = 1 => ~Tls \/ FlightsIn(pos) = Handshake

\* A delivered body is the sent body.
BodyAsSent == \A i \in 1..Len(c.got) : EndOf[i] <= Text(pos) => c.got[i].body = Msg(i).body

\* When the peer's bytes keep arriving, its messages before a malformed one
\* are handed over: both ends get what they need to finish the handshake
\* (SslCodec.cpp:65-77).  Not so for a TLS 1.2 server: with the handshake over
\* it leaves its own last flight in the BIO, for which the client waits.
Deliverable == {i \in Indices : \A j \in 1..i : Msg(j).ok /\ ~Msg(j).eof}
EventuallyDelivered ==
  <>(\/ Len(c.got) >= Cardinality(Deliverable) \/ c.state = "disconnected"
     \/ script.tls = "refused" \/ (~Client /\ script.tls = "tls12"))

=============================================================================
