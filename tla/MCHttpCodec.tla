---------------------------- MODULE MCHttpCodec ----------------------------
(* The messages of the runs, each with its bytes and, independently of the  *)
(* parser, what it means and where a read that ends in it matters.          *)
EXTENDS HttpCodec

NL == <<"CR", "LF">>
NoUrl == [f \in UrlFields |-> <<>>]
Path(p) == [NoUrl EXCEPT !.path = p]

Request == [bytes |-> <<>>, method |-> "GET", code |-> 0, version |-> <<1, 1>>,
            upgrade |-> FALSE, url |-> Path(<<"/">>), params |-> <<>>, headers |-> <<>>,
            body |-> <<>>, bodyCuts |-> {}, urlCuts |-> {}, ok |-> TRUE, eof |-> FALSE]
Response == [Request EXCEPT !.method = "DELETE", !.code = 200, !.url = NoUrl]
Bad(bytes) == [Request EXCEPT !.bytes = bytes, !.ok = FALSE]
BadResponse(bytes) == [Response EXCEPT !.bytes = bytes, !.ok = FALSE]

Get  == <<"GET", "SP", "/", "SP", "HTTP/1.1", "CR", "LF">>
Post == <<"POST", "SP", "/", "SP", "HTTP/1.1", "CR", "LF">>
Ok   == <<"HTTP/1.1", "SP", "2", "0", "0", "SP", "ok", "CR", "LF">>
Header(k, v) == <<k, ":", "SP">> \o v \o NL
Chunked == Header("transfer-encoding", <<"chunked">>)
Length(n) == Header("content-length", n)

\* a message with a body after its head; the head of a chunked one ends
\* before the first byte of its first chunk
Whole(m, head, body) == [m EXCEPT !.bytes = head \o body, !.body = body,
                         !.bodyCuts = Len(head) + 1 .. Len(head) + Len(body) - 1]
InChunks(m, head, rest, body) ==
  [m EXCEPT !.bytes = head \o rest, !.body = body,
            !.bodyCuts = Len(head) + 1 .. Len(head) + Len(rest) - 1]
UntilEof(m, head, body) ==
  [Whole(m, head, body) EXCEPT !.eof = TRUE, !.bodyCuts = Len(head) + 1 .. Len(head) + Len(body)]

Codes(m, n) == [m EXCEPT !.code = n]

MCCatalogue == [
  get |-> [Request EXCEPT !.bytes = Get \o NL],
  query |-> [Request EXCEPT
     !.bytes = <<"GET", "SP", "/", "a", "?", "x", "=", "1", "&", "b", "=", "2", "#", "f",
                 "SP", "HTTP/1.1", "CR", "LF", "CR", "LF">>,
     !.url = [Path(<<"/", "a">>) EXCEPT !.query = <<"x", "=", "1", "&", "b", "=", "2">>,
                                        !.fragment = <<"f">>],
     !.params = <<"x">> :> <<"1">> @@ <<"b">> :> <<"2">>],
  absolute |-> [Request EXCEPT
     !.bytes = <<"GET", "SP", "http", ":", "/", "/", "user", "@", "host", ":", "8", "0", "/",
                 "SP", "HTTP/1.1", "CR", "LF", "CR", "LF">>,
     !.url = [Path(<<"/">>) EXCEPT !.schema = <<"http">>, !.userinfo = <<"user">>,
                                   !.host = <<"host">>, !.port = <<"8", "0">>],
     !.urlCuts = {3, 4, 5, 6, 8, 10}],
  password |-> [Request EXCEPT
     !.bytes = <<"GET", "SP", "http", ":", "/", "/", "user", ":", "1", "@", "[", "a", ":", "1",
                 "]", "SP", "HTTP/1.0", "CR", "LF", "CR", "LF">>,
     !.version = <<1, 0>>,
     !.url = [NoUrl EXCEPT !.schema = <<"http">>, !.userinfo = <<"user", ":", "1">>,
                           !.host = <<"a", ":", "1">>],
     !.urlCuts = {3, 4, 5, 6, 8, 9} \cup 10..14],
  old |-> [Request EXCEPT !.bytes = <<"GET", "SP", "/", "CR", "LF", "CR", "LF">>,
                          !.version = <<0, 9>>],
  post |-> Whole([Request EXCEPT !.method = "POST",
                                 !.headers = <<"content-length">> :> <<"3", "SP">>],
                 Post \o Length(<<"3", "SP">>) \o NL, <<"x", "LF", "user">>),
  long |-> Whole([Request EXCEPT !.headers = <<"content-length">> :> <<"1", "0">>],
                 <<"CR", "LF">> \o Get \o Length(<<"1", "0">>) \o NL,
                 <<"a", "b", "c", "d", "CR", "LF", "CR", "LF", "GET", "SP">>),
  chunks |-> InChunks([Request EXCEPT !.method = "POST",
                          !.headers = <<"transfer-encoding">> :> <<"chunked">>
                                      @@ <<"x">> :> <<"a">>],
                      Post \o Chunked \o NL \o <<"2", ";", "x", "CR", "LF">>,
                      <<"x", "CR", "CR", "LF", "0", "0", "SP", "CR", "LF">>
                        \o Header("x", <<"a">>) \o NL, <<"x", "CR">>),
  noChunk |-> [Request EXCEPT !.headers = <<"transfer-encoding">> :> <<"a", ",", "SP", "chunked">>,
     !.bytes = Get \o Header("transfer-encoding", <<"a", ",", "SP", "chunked">>) \o NL
               \o <<"0", "CR", "LF", "CR", "LF">>],
  folded |-> [Request EXCEPT
     !.bytes = <<"GET", "SP", "*", "SP", "SP", "HTTP/1.1", "LF",
                 "host", ":", "LF", "x", ":", "CR", "LF", "SP", "a", "LF", "SP", "b", "CR", "LF",
                 "content-length", ":", "0", "CR", "LF", "SP", "CR", "LF", "LF">>,
     !.url = Path(<<"*">>),
     \* only the last line of a folded value is kept, with its space
     !.headers = <<"host">> :> <<>> @@ <<"x">> :> <<"SP", "b">>
                 @@ <<"content-length">> :> <<"SP">>],
  upgrade |-> Whole([Request EXCEPT !.upgrade = TRUE,
     !.headers = <<"connection">> :> <<"x", ",", "upgrade">> @@ <<"upgrade">> :> <<"x">>
                 @@ <<"content-length">> :> <<"1">>],
     Get \o Header("connection", <<"x", ",", "upgrade">>) \o Header("upgrade", <<"x">>)
         \o Length(<<"1">>) \o NL, <<"a">>),
  noBody |-> [Request EXCEPT !.upgrade = TRUE,
     !.headers = <<"connection">> :> <<"upgrade", ",", "close">> @@ <<"upgrade">> :> <<"x">>,
     !.bytes = Get \o Header("connection", <<"upgrade", ",", "close">>)
                   \o Header("upgrade", <<"x">>) \o NL],
  badMethod |-> Bad(<<"user", "SP", "/">>),
  badUrl |-> Bad(<<"GET", "SP", "a", "/">>),
  badPort |-> Bad(<<"GET", "SP", "http", ":", "/", "/", "host", ":", "6", "5", "5", "3", "6", "SP">>),
  connect |-> Bad(<<"CONNECT", "SP", "host", ":", "8", "0", "SP", "HTTP/1.1", "CR", "LF",
                    "CR", "LF">>),
  badVersion |-> Bad(<<"GET", "SP", "/", "SP", "http", "CR", "LF">>),
  badLine |-> Bad(<<"GET", "SP", "/", "SP", "HTTP/1.1", "CR", "x">>),
  badName |-> Bad(Get \o <<"x", "SP", ":">>),
  badValue |-> Bad(Get \o <<"x", ":", "a", "NUL">>),
  badFold |-> Bad(Get \o <<"content-length", ":", "1", "CR", "LF", "SP", "1">>),
  noLength |-> Bad(Get \o <<"content-length", ":", "CR", "LF", "CR">>),
  twoLengths |-> Bad(Get \o Length(<<"1">>) \o Length(<<"1">>)),
  badLength |-> Bad(Get \o Length(<<"9", "9", "9">>)),
  both |-> Bad(Post \o Chunked \o Length(<<"1">>) \o NL),
  notChunked |-> Bad(Post \o Header("transfer-encoding", <<"chunked", ",", "a">>) \o NL),
  badChunk |-> Bad(Post \o Chunked \o NL \o <<"x">>),
  bigChunk |-> Bad(Post \o Chunked \o NL \o <<"f", "f", "f">>),
  chunkEnd |-> Bad(Post \o Chunked \o NL \o <<"1", "CR", "LF", "a", "b">>),
  ok200 |-> Whole([Response EXCEPT !.headers = <<"content-length">> :> <<"3">>],
                  Ok \o Length(<<"3">>) \o NL, <<"x", "user", "x">>),
  chunks200 |-> InChunks([Response EXCEPT !.headers = <<"transfer-encoding">> :> <<"chunked">>],
                         Ok \o Chunked \o NL \o <<"1", "CR", "LF">>,
                         <<"a", "CR", "LF", "2", "CR", "LF", "CR", "LF", "CR", "LF",
                           "0", "CR", "LF", "CR", "LF">>, <<"a", "CR", "LF">>),
  eof |-> UntilEof([Response EXCEPT !.version = <<1, 0>>],
                   <<"HTTP/1.0", "SP", "2", "0", "0", "CR", "LF", "CR", "LF">>, <<"x", "user">>),
  eof404 |-> UntilEof(Codes(Response, 404),
                      <<"HTTP/1.1", "SP", "4", "0", "4", "SP", "x", "LF", "LF">>, <<>>),
  identity |-> UntilEof([Response EXCEPT !.headers = <<"transfer-encoding">> :> <<"x">>],
                        Ok \o Header("transfer-encoding", <<"x">>) \o NL, <<"a">>),
  continue |-> [Codes(Response, 100) EXCEPT
                   !.bytes = <<"HTTP/1.1", "SP", "1", "0", "0", "SP", "CR", "LF", "CR", "LF">>],
  switch |-> [Codes(Response, 101) EXCEPT !.upgrade = TRUE,
     !.headers = <<"connection">> :> <<"keep-alive", ",", "upgrade">> @@ <<"upgrade">> :> <<"x">>,
     !.bytes = <<"HTTP/1.1", "SP", "1", "0", "1", "SP", "x", "CR", "LF">>
               \o Header("connection", <<"keep-alive", ",", "upgrade">>)
               \o Header("upgrade", <<"x">>) \o NL],
  r204 |-> [Codes(Response, 204) EXCEPT !.version = <<1, 0>>,
               !.headers = <<"proxy-connection">> :> <<"keep-alive">>,
               !.bytes = <<"HTTP/1.0", "SP", "SP", "2", "0", "4", "SP", "x", "CR", "LF">>
                         \o Header("proxy-connection", <<"keep-alive">>) \o NL],
  badStatus |-> BadResponse(<<"HTTP/1.1", "SP", "2", "0", "0", "0">>),
  badReason |-> BadResponse(<<"HTTP/1.1", "SP", "x">>),
  notHttp |-> BadResponse(<<"x", "CR">>)]

Script(side, tls, msgs) == [side |-> side, tls |-> tls, msgs |-> msgs]

MCScripts ==
  {Script("REQUEST", "none", <<a, b>>) : a \in {"get", "post"}, b \in {"post", "badChunk"}}
  \cup {Script("REQUEST", "none", <<"chunks", "get">>)}
  \cup {Script("REQUEST", "none", <<a>>) : a \in {"query", "absolute", "password", "long",
          "noChunk", "folded", "noBody", "badMethod", "badUrl", "badPort", "connect",
          "badVersion", "badLine", "badName", "badValue", "badFold", "noLength", "twoLengths",
          "badLength", "both", "notChunked", "bigChunk", "chunkEnd"}}
  \cup {Script("REQUEST", "none", <<"old", "upgrade">>)}
  \cup {Script("RESPONSE", "none", <<"continue", a>>) : a \in {"ok200", "eof", "identity", "r204"}}
  \cup {Script("RESPONSE", "none", <<a>>) : a \in {"chunks200", "eof404", "switch", "badStatus",
                                                   "badReason", "notHttp"}}
  \cup {Script("REQUEST", t, <<"post", "get">>) : t \in {"tls12", "tls13", "refused"}}
  \cup {Script("RESPONSE", t, <<"ok200", "eof404">>) : t \in {"tls12", "tls13", "refused"}}

\* for the run that shows what becomes of a body
BodyScripts == {Script("REQUEST", "none", <<"post">>), Script("RESPONSE", "none", <<"eof">>)}

(* Buffer's operations against a plain sequence of bytes, for every small    *)
(* buffer: those the run does not reach, and indices it does not combine.    *)
(* append after prepend is asked of buffers that keep the reserved bytes.    *)
SmallBuffers == {[mem |-> [i \in 1..n |-> i], r |-> r, w |-> w] :
                   n \in 8..12, r \in 4..12, w \in 8..12}
BufferLaw(b, d) ==
  LET all == Contents(b)  k == Len(d)
      Rest(s, n) == SubSeq(s, Min2(n, Len(s)) + 1, Len(s))
  IN /\ readableBytes(b) = Len(all)
     /\ b.r >= prepends => /\ Contents(append(b, d)) = all \o d
                          /\ Contents(readFd(b, SubSeq(d, 1, Min2(k, MaxRead(b))))) = all \o d
     /\ Contents(prepend(b, d)) = SubSeq(d, 1, Min2(k, prependableBytes(b))) \o all
     /\ Contents(retrieve(b, k)) = Rest(all, k) /\ Contents(writeFd(b, k)) = Rest(all, k)
     /\ readAsString(b, k)[1] = SubSeq(all, 1, Min2(k, Len(all)))
     /\ Contents(readAsString(b, k)[2]) = Rest(all, k)
     /\ Contents(shrinkToFit(b)) = all

ASSUME BufferLaws ==
  \A b \in SmallBuffers, k \in 0..6 :
    b.r <= b.w /\ b.w <= size(b) => BufferLaw(b, [i \in 1..k |-> -i])

=============================================================================
