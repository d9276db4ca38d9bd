----------------------------- MODULE HttpParser -----------------------------
(* http-parser/http_parser.c (strict mode, one message at a time) and the   *)
(* C++ class HttpParser around it, as functions on one record that holds    *)
(* the fields of both.  A method, a version and a keyword are one token     *)
(* each, so the states in the middle of such a word (s_res_HT, h_CON,        *)
(* h_matching_...) are passed in one step, and a word of a header value is   *)
(* either a keyword or no prefix of one.  Left out: HTTP_BOTH and "ICE/1.0", *)
(* which the library never asks for, lenient mode, and max_header_size.      *)
EXTENDS HttpUrl

CONSTANT LengthMax    \* ULLONG_MAX, which also means that there is no length

ASSUME ParserAssumption == LengthMax \in Nat /\ LengthMax > 32

VersionOf == "HTTP/1.1" :> <<1, 1>> @@ "HTTP/1.0" :> <<1, 0>>

\* The header names, the connection options and the flags the parser knows.
HeaderStateOf == "connection" :> "h_connection" @@ "proxy-connection" :> "h_connection"
   @@ "content-length" :> "h_content_length" @@ "upgrade" :> "h_upgrade"
   @@ "transfer-encoding" :> "h_transfer_encoding"
OptionOf == "keep-alive" :> "h_connection_keep_alive"
   @@ "close" :> "h_connection_close" @@ "upgrade" :> "h_connection_upgrade"
FlagOf == [h_connection_keep_alive |-> {"CONNECTION_KEEP_ALIVE"},
           h_connection_close |-> {"CONNECTION_CLOSE"},
           h_connection_upgrade |-> {"CONNECTION_UPGRADE"},
           h_transfer_encoding_chunked |-> {"CHUNKED"}]
ValueOf(f, x, default) == IF x \in DOMAIN f THEN f[x] ELSE default

---------------------------------------------------------- \* the parser record
http_parser_init(p, type) ==
  [p EXCEPT !.type = type, !.errno = "OK", !.flags = {}, !.length = 0, !.te = FALSE,
            !.state = IF type = "REQUEST" THEN "s_start_req" ELSE "s_start_res",
            !.hstate = "h_general", !.method = "DELETE", !.version = <<0, 0>>,
            !.code = 0, !.upgrade = FALSE]

\* The locals of http_parser_execute are mark (which of the five is set),
\* text (what it marks so far) and count (the result).
New(type) ==
  http_parser_init(
    [type |-> type, errno |-> "OK", flags |-> {}, length |-> 0, te |-> FALSE,
     state |-> "s_dead", hstate |-> "h_general", method |-> "DELETE",
     version |-> <<0, 0>>, code |-> 0, upgrade |-> FALSE,
     mark |-> "none", text |-> <<>>, count |-> 0,
     status |-> "ready", url |-> [f \in UrlFields |-> <<>>], field |-> <<>>,
     headers |-> <<>>, params |-> <<>>, body |-> <<>>], type)

\* HttpParser::reset as it is: std::string::empty() and map::empty() only
\* ask, so that body, headers, params and the URL stay, and so does `status`.
reset(p) == http_parser_init(p, p.type)

Fail(p, e)  == [p EXCEPT !.errno = e]
To(p, s)    == [p EXCEPT !.state = s]
MARK(p, m)  == IF p.mark = "none" THEN [p EXCEPT !.mark = m, !.text = <<>>] ELSE p
AddFlag(p)  == [p EXCEPT !.flags = @ \cup ValueOf(FlagOf, p.hstate, {})]

Mutant_on_body(p) == [p EXCEPT !.body = p.text]        \* assign for append
on_body(p) == [p EXCEPT !.body = @ \o p.text]

on_header_field(p) == [p EXCEPT !.field = p.text]
on_header_value(p) == [p EXCEPT !.headers = (p.field :> p.text) @@ @]

\* A part that the URL does not have keeps its old value.
StoreUrl(p, u) ==
  IF ~u.ok THEN Fail(p, "CB_url")
  ELSE [p EXCEPT !.url = [f \in UrlFields |-> IF u.part[f] = <<>> THEN @[f] ELSE u.part[f]],
                 !.params = IF u.part["query"] = <<>> THEN @
                            ELSE parseQueryParam(u.part["query"], @)]
on_url(p) == StoreUrl(p, http_parser_parse_url(p.text))

\* The mark is cleared unless the callback fails; on_status does nothing.
ClearMark(p) == IF p.errno = "CB_url" THEN p ELSE [p EXCEPT !.mark = "none", !.text = <<>>]
Callback(p) ==
  ClearMark(CASE p.mark = "header_field" -> on_header_field(p)
              [] p.mark = "header_value" -> on_header_value(p)
              [] p.mark = "body"         -> on_body(p)
              [] p.mark = "url"          -> on_url(p)
              [] OTHER                   -> p)

http_message_needs_eof(p) ==
  /\ p.type = "RESPONSE"
  /\ ~(p.code \div 100 = 1 \/ p.code \in {204, 304})
  /\ \/ p.te /\ "CHUNKED" \notin p.flags
     \/ "CHUNKED" \notin p.flags /\ p.length = LengthMax

http_should_keep_alive(p) ==
  /\ IF p.version[1] > 0 /\ p.version[2] > 0
     THEN "CONNECTION_CLOSE" \notin p.flags
     ELSE "CONNECTION_KEEP_ALIVE" \in p.flags
  /\ ~http_message_needs_eof(p)

\* on_message_complete: the C++ state, and http_parser_pause(p, 1)
MessageComplete(p) == [p EXCEPT !.status = "completed", !.errno = "PAUSED"]

\* NEW_MESSAGE(), CALLBACK_NOTIFY(message_complete)
MessageDone(p) ==
  MessageComplete(To(p, IF ~http_should_keep_alive(p) THEN "s_dead"
                        ELSE IF p.type = "REQUEST" THEN "s_start_req" ELSE "s_start_res"))

----------------------------------------------------------------- \* start line
NewMessage(p) == [p EXCEPT !.flags = {}, !.te = FALSE, !.length = LengthMax]

StartRequest(p, t) ==
  CASE t \in EOL     -> p
    [] t \in Methods -> [To(NewMessage(p), "s_req_method") EXCEPT !.method = t]
    [] OTHER         -> Fail(NewMessage(p), "INVALID_METHOD")

StartResponse(p, t) ==
  CASE t \in EOL -> p
    [] t \in DOMAIN VersionOf ->
         [To(NewMessage(p), "s_res_http_end") EXCEPT !.version = VersionOf[t]]
    [] OTHER -> Fail(NewMessage(p), "INVALID_CONSTANT")

\* States that only move: <<state, token, next state>>, and what any other
\* token is: an error, or nothing where the state stays.
Moves == {<<"s_req_method", "SP", "s_req_spaces_before_url">>,
          <<"s_req_http_end", "CR", "s_req_line_almost_done">>,
          <<"s_req_http_end", "LF", "s_header_field_start">>,
          <<"s_req_line_almost_done", "LF", "s_header_field_start">>,
          <<"s_res_http_end", "SP", "s_res_first_status_code">>,
          <<"s_res_line_almost_done", "LF", "s_header_field_start">>,
          <<"s_header_almost_done", "LF", "s_header_value_lws">>,
          <<"s_header_value_discard_ws_almost_done", "LF", "s_header_value_discard_lws">>,
          <<"s_chunk_parameters", "CR", "s_chunk_size_almost_done">>,
          <<"s_chunk_data_done", "LF", "s_chunk_size_start">>,
          <<"s_dead", "CR", "s_dead">>, <<"s_dead", "LF", "s_dead">>}
Otherwise == [s_req_method |-> "INVALID_METHOD", s_req_http_end |-> "INVALID_VERSION",
              s_req_line_almost_done |-> "LF_EXPECTED", s_res_http_end |-> "INVALID_VERSION",
              s_res_line_almost_done |-> "STRICT", s_header_almost_done |-> "LF_EXPECTED",
              s_header_value_discard_ws_almost_done |-> "STRICT",
              s_chunk_parameters |-> "OK", s_chunk_data_done |-> "STRICT",
              s_dead |-> "CLOSED_CONNECTION"]
Move(p, t) ==
  LET to == {m \in Moves : m[1] = p.state /\ m[2] = t}
  IN IF to = {} THEN Fail(p, Otherwise[p.state]) ELSE To(p, (CHOOSE m \in to : TRUE)[3])

UrlEnd == {"s_req_server", "s_req_server_with_at", "s_req_path", "s_req_query_string_start",
           "s_req_query_string", "s_req_fragment_start", "s_req_fragment"}
UrlStates == UrlEnd \cup {"s_req_schema", "s_req_schema_slash", "s_req_schema_slash_slash",
                          "s_req_server_start"}

\* The URL is checked token by token, and parsed by the callback at its end.
Url(p, t) ==
  LET first == p.state = "s_req_spaces_before_url"
      from  == IF first /\ p.method = "CONNECT" THEN "s_req_server_start" ELSE p.state
      to    == parse_url_char(from, t)
      q     == To(IF first THEN MARK(p, "url") ELSE p, to)
  IN IF first /\ t = "SP" THEN p
     ELSE IF p.state \in UrlEnd /\ t \in EOL \cup {"SP"}
     THEN Callback([To(p, CASE t = "SP" -> "s_req_http_start"
                            [] t = "CR" -> "s_req_line_almost_done"
                            [] t = "LF" -> "s_header_field_start")
                      EXCEPT !.version = IF t = "SP" THEN @ ELSE <<0, 9>>])
     ELSE IF to = "s_dead" THEN Fail(q, "INVALID_URL") ELSE q

HttpStart(p, t) ==
  IF t = "SP" THEN p
  ELSE IF t \in DOMAIN VersionOf
  THEN [To(p, "s_req_http_end") EXCEPT !.version = VersionOf[t]]
  ELSE Fail(p, "INVALID_CONSTANT")

FirstStatusCode(p, t) ==
  IF t \in Digits THEN [To(p, "s_res_status_code") EXCEPT !.code = unhex[t]]
  ELSE IF t = "SP" THEN p ELSE Fail(p, "INVALID_STATUS")

ResStatus(p, t) ==
  IF t \in EOL THEN Callback(To(p, IF t = "CR" THEN "s_res_line_almost_done"
                                   ELSE "s_header_field_start"))
  ELSE p

StatusStart(p, t) ==
  LET q == To(MARK(p, "status"), "s_res_status")
  IN IF t \in EOL THEN ResStatus(q, t) ELSE q

StatusCode(p, t) ==
  LET code == p.code * 10 + unhex[t]
  IN IF t \in Digits
     THEN IF code > 999 THEN Fail(p, "INVALID_STATUS") ELSE [p EXCEPT !.code = code]
     ELSE IF t = "SP" THEN To(p, "s_res_status_start")
     ELSE IF t \in EOL THEN StatusStart(To(p, "s_res_status_start"), t)
     ELSE Fail(p, "INVALID_STATUS")

-------------------------------------------------------------------- \* body
BodyIdentity(p, t) ==
  LET q == [MARK(p, "body") EXCEPT !.length = @ - 1]
  IN IF q.length = 0 THEN MessageDone(Callback([q EXCEPT !.text = Append(@, t)])) ELSE q

ChunkSizeStart(p, t) ==
  IF t \in DOMAIN unhex THEN [To(p, "s_chunk_size") EXCEPT !.length = unhex[t]]
  ELSE Fail(p, "INVALID_CHUNK_SIZE")

ChunkSize(p, t) ==
  CASE t = "CR" -> To(p, "s_chunk_size_almost_done")
    [] t \in {";", "SP"} -> To(p, "s_chunk_parameters")
    [] t \in DOMAIN unhex /\ (LengthMax - 16) \div 16 < p.length ->
         Fail(p, "INVALID_CONTENT_LENGTH")
    [] t \in DOMAIN unhex /\ (LengthMax - 16) \div 16 >= p.length ->
         [p EXCEPT !.length = @ * 16 + unhex[t]]
    [] OTHER -> Fail(p, "INVALID_CHUNK_SIZE")

ChunkSizeAlmostDone(p, t) ==
  IF t # "LF" THEN Fail(p, "STRICT")
  ELSE IF p.length = 0
  THEN [To(p, "s_header_field_start") EXCEPT !.flags = @ \cup {"TRAILING"}]
  ELSE To(p, "s_chunk_data")

ChunkData(p, t) ==
  LET q == [MARK(p, "body") EXCEPT !.length = @ - 1]
  IN IF q.length = 0 THEN To(q, "s_chunk_data_almost_done") ELSE q

ChunkDataAlmostDone(p, t) ==
  IF t # "CR" THEN Fail(p, "STRICT") ELSE Callback(To(p, "s_chunk_data_done"))

----------------------------------------------------------------- \* headers
HeadersDone(p) ==
  LET hasBody == "CHUNKED" \in p.flags \/ p.length \notin {0, LengthMax}
  IN CASE p.upgrade /\ (p.method = "CONNECT" \/ ~hasBody) -> MessageDone(p)
       [] ~(p.upgrade /\ (p.method = "CONNECT" \/ ~hasBody)) ->
            IF "CHUNKED" \in p.flags THEN To(p, "s_chunk_size_start")
            ELSE IF p.te
            THEN IF p.type = "REQUEST" THEN Fail(p, "INVALID_TRANSFER_ENCODING")
                 ELSE To(p, "s_body_identity_eof")
            ELSE IF p.length = 0 THEN MessageDone(p)
            ELSE IF p.length # LengthMax THEN To(p, "s_body_identity")
            ELSE IF ~http_message_needs_eof(p) THEN MessageDone(p)
            ELSE To(p, "s_body_identity_eof")

HeadersAlmostDone(p, t) ==
  CASE t # "LF" -> Fail(p, "STRICT")
    [] t = "LF" /\ "TRAILING" \in p.flags -> MessageDone(p)
    [] t = "LF" /\ "TRAILING" \notin p.flags ->
         IF p.te /\ "CONTENTLENGTH" \in p.flags THEN Fail(p, "UNEXPECTED_CONTENT_LENGTH")
         ELSE HeadersDone([p EXCEPT !.upgrade =
                IF {"UPGRADE", "CONNECTION_UPGRADE"} \subseteq p.flags
                THEN p.type = "REQUEST" \/ p.code = 101
                ELSE p.method = "CONNECT"])

HeaderFieldStart(p, t) ==
  CASE t = "CR" -> To(p, "s_headers_almost_done")
    [] t = "LF" -> HeadersAlmostDone(p, t)
    [] t \in TokenChar ->
         [To(MARK(p, "header_field"), "s_header_field") EXCEPT
            !.hstate = ValueOf(HeaderStateOf, t, "h_general"),
            !.te = @ \/ t = "transfer-encoding"]
    [] OTHER -> Fail(p, "INVALID_HEADER_TOKEN")

HeaderField(p, t) ==
  CASE t \in TokenChar -> [p EXCEPT !.hstate = "h_general"]
    [] t = ":"         -> Callback(To(p, "s_header_value_discard_ws"))
    [] OTHER           -> Fail(p, "INVALID_HEADER_TOKEN")

ContentLengthStart(p, t) ==
  CASE t \notin Digits -> Fail(p, "INVALID_CONTENT_LENGTH")
    [] t \in Digits /\ "CONTENTLENGTH" \in p.flags -> Fail(p, "UNEXPECTED_CONTENT_LENGTH")
    [] OTHER -> [p EXCEPT !.flags = @ \cup {"CONTENTLENGTH"}, !.length = unhex[t],
                          !.hstate = "h_content_length_num"]

\* s_header_value_start: the first token of a value, or of its continuation
ValueStart(p, t) ==
  LET q == To(MARK(p, "header_value"), "s_header_value")
      H(h) == [q EXCEPT !.hstate = h]
  IN CASE p.hstate = "h_upgrade" -> [H("h_general") EXCEPT !.flags = @ \cup {"UPGRADE"}]
       [] p.hstate = "h_transfer_encoding" ->
            H(IF t = "chunked" THEN "h_transfer_encoding_chunked"
              ELSE "h_matching_transfer_encoding_token")
       [] p.hstate = "h_content_length" -> ContentLengthStart(q, t)
       [] p.hstate = "h_connection" ->
            H(ValueOf(OptionOf, t, "h_matching_connection_token"))
       [] p.hstate \in {"h_matching_transfer_encoding_token_start", "h_content_length_ws",
                        "h_matching_connection_token_start"} -> q
       [] OTHER -> H("h_general")

Mutant_ContentLengthNum(p, t) ==     \* no spaces after the length
  IF t \notin Digits \/ (LengthMax - 10) \div 10 < p.length
  THEN Fail(p, "INVALID_CONTENT_LENGTH")
  ELSE [p EXCEPT !.length = @ * 10 + unhex[t]]

ContentLengthNum(p, t) ==
  CASE t = "SP" -> [p EXCEPT !.hstate = "h_content_length_ws"]
    [] t # "SP" /\ (t \notin Digits \/ (LengthMax - 10) \div 10 < p.length) ->
         Fail(p, "INVALID_CONTENT_LENGTH")
    [] OTHER -> [p EXCEPT !.length = @ * 10 + unhex[t]]

\* The states after an option of Connection.
OptionStates == {OptionOf[o] : o \in DOMAIN OptionOf}

\* What a value's next token does to header_state, outside a length.
NextValueState(h, t) ==
  LET TokenStart(known) == IF t \in TokenChar THEN known ELSE IF t = "SP" THEN h ELSE "h_general"
  IN CASE h = "h_matching_transfer_encoding_token_start" ->
            TokenStart(IF t = "chunked" THEN "h_transfer_encoding_chunked"
                       ELSE "h_matching_transfer_encoding_token")
       [] h = "h_matching_transfer_encoding_token" /\ t = "," ->
            "h_matching_transfer_encoding_token_start"
       [] h = "h_transfer_encoding_chunked" /\ t # "SP" -> "h_matching_transfer_encoding_token"
       [] h = "h_matching_connection_token_start" ->
            TokenStart(ValueOf(OptionOf, t, "h_matching_connection_token"))
       [] h \in OptionStates \cup {"h_matching_connection_token"} /\ t = "," ->
            "h_matching_connection_token_start"
       [] h \in OptionStates /\ t \notin {",", "SP"} -> "h_matching_connection_token"
       [] OTHER -> h

HeaderValue(p, t) ==
  CASE t \in EOL ->
         Callback(To(p, IF t = "CR" THEN "s_header_almost_done" ELSE "s_header_value_lws"))
    [] t = "NUL" -> Fail(p, "INVALID_HEADER_TOKEN")
    [] p.hstate = "h_content_length_num" /\ t \notin EOL \cup {"NUL"} -> ContentLengthNum(p, t)
    [] p.hstate = "h_content_length_ws" /\ t \notin EOL \cup {"NUL", "SP"} ->
         Fail(p, "INVALID_CONTENT_LENGTH")
    [] OTHER -> [(IF t = "," /\ p.hstate \in OptionStates THEN AddFlag(p) ELSE p) EXCEPT
                    !.hstate = NextValueState(p.hstate, t)]

\* After the end of a line: a folded value goes on, another header starts.
HeaderValueLws(p, t) ==
  IF t = "SP"
  THEN ValueStart([p EXCEPT !.hstate = IF @ = "h_content_length_num"
                                       THEN "h_content_length_ws" ELSE @], t)
  ELSE HeaderFieldStart(To(AddFlag(p), "s_header_field_start"), t)

DiscardWs(p, t) ==
  CASE t = "SP" -> p
    [] t = "CR" -> To(p, "s_header_value_discard_ws_almost_done")
    [] t = "LF" -> To(p, "s_header_value_discard_lws")
    [] OTHER    -> ValueStart(p, t)

\* An empty value is a value.
DiscardLws(p, t) ==
  CASE t = "SP" -> To(p, "s_header_value_discard_ws")
    [] t # "SP" /\ p.hstate = "h_content_length" -> Fail(p, "INVALID_CONTENT_LENGTH")
    [] OTHER -> HeaderFieldStart(
                  Callback(MARK(To(AddFlag(p), "s_header_field_start"), "header_value")), t)

------------------------------------------------------------------- \* execute
Step(p, t) ==
  LET s == p.state
  IN CASE s = "s_start_req" -> StartRequest(p, t)
       [] s = "s_start_res" -> StartResponse(p, t)
       [] s \in DOMAIN Otherwise -> Move(p, t)
       [] s \in UrlStates \cup {"s_req_spaces_before_url"} -> Url(p, t)
       [] s = "s_req_http_start" -> HttpStart(p, t)
       [] s = "s_res_first_status_code" -> FirstStatusCode(p, t)
       [] s = "s_res_status_code" -> StatusCode(p, t)
       [] s = "s_res_status_start" -> StatusStart(p, t)
       [] s = "s_res_status" -> ResStatus(p, t)
       [] s = "s_header_field_start" -> HeaderFieldStart(p, t)
       [] s = "s_header_field" -> HeaderField(p, t)
       [] s = "s_header_value_discard_ws" -> DiscardWs(p, t)
       [] s = "s_header_value_discard_lws" -> DiscardLws(p, t)
       [] s = "s_header_value_start" -> ValueStart(p, t)
       [] s = "s_header_value" -> HeaderValue(p, t)
       [] s = "s_header_value_lws" -> HeaderValueLws(p, t)
       [] s = "s_headers_almost_done" -> HeadersAlmostDone(p, t)
       [] s = "s_body_identity" -> BodyIdentity(p, t)
       [] s = "s_body_identity_eof" -> MARK(p, "body")
       [] s = "s_chunk_size_start" -> ChunkSizeStart(p, t)
       [] s = "s_chunk_size" -> ChunkSize(p, t)
       [] s = "s_chunk_size_almost_done" -> ChunkSizeAlmostDone(p, t)
       [] s = "s_chunk_data" -> ChunkData(p, t)
       [] s = "s_chunk_data_almost_done" -> ChunkDataAlmostDone(p, t)

\* One turn of the loop: a token is counted unless it is an error.
Count(q, t) == [q EXCEPT !.text = IF q.mark = "none" THEN <<>> ELSE Append(@, t),
                         !.count = IF q.errno \in {"OK", "PAUSED", "CB_url"} THEN @ + 1 ELSE @]
Take(p, t) == IF p.errno # "OK" THEN p ELSE Count(Step(p, t), t)

\* A field, value, URL or status that the last read left open goes on.
OpenMark(p) ==
  CASE p.state = "s_header_field" -> "header_field"
    [] p.state = "s_header_value" -> "header_value"
    [] p.state \in UrlStates      -> "url"
    [] p.state = "s_res_status"   -> "status"
    [] OTHER                      -> "none"

\* A read of no bytes is the end of the connection.
AtEof(p) ==
  CASE p.state = "s_body_identity_eof" -> MessageComplete([p EXCEPT !.count = 0])
    [] p.state \in {"s_dead", "s_start_req", "s_start_res"} -> [p EXCEPT !.count = 0]
    [] OTHER -> Fail([p EXCEPT !.count = 1], "INVALID_EOF_STATE")

\* What is still marked at the end of the data is handed over.
AtEnd(p) == [(IF p.errno = "OK" THEN Callback(p) ELSE p) EXCEPT !.mark = "none", !.text = <<>>]

http_parser_execute(p, data) ==
  LET run[i \in 0..Len(data)] ==
        IF i = 0 THEN [p EXCEPT !.count = 0, !.mark = OpenMark(p), !.text = <<>>]
        ELSE Take(run[i - 1], data[i])
  IN CASE p.errno # "OK" -> [p EXCEPT !.count = 0]
       [] p.errno = "OK" /\ data = <<>> -> AtEof(p)
       [] OTHER -> AtEnd(run[Len(data)])

\* HttpParser::execute: http_parser_pause(0) undoes a pause and, in a release
\* build, leaves an error alone.
execute(p, data) ==
  http_parser_execute(
    [p EXCEPT !.status = "parsing", !.errno = IF @ = "PAUSED" THEN "OK" ELSE @], data)

isComplete(p) == p.status = "completed"
getErr(p)     == IF isComplete(p) THEN "OK" ELSE p.errno

=============================================================================
