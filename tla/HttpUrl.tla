------------------------------- MODULE HttpUrl ------------------------------
(* The characters of http-parser/http_parser.c and its URL parser, with     *)
(* HttpParser::parseQueryParam, as functions on sequences of tokens.  A      *)
(* token is a run of letters, a name with hyphens, a digit or a separator;   *)
(* all the characters of a token are in the same classes.                    *)
EXTENDS Integers, Sequences, TLC

CONSTANT Words       \* tokens that are runs of letters

------------------------------------------------------------- \* characters
Digits == {"0", "1", "2", "3", "4", "5", "6", "7", "8", "9"}
unhex == [d \in Digits \cup {"a", "b", "c", "d", "e", "f"} |->
            CASE d = "0" -> 0 [] d = "1" -> 1 [] d = "2" -> 2 [] d = "3" -> 3
              [] d = "4" -> 4 [] d = "5" -> 5 [] d = "6" -> 6 [] d = "7" -> 7
              [] d = "8" -> 8 [] d = "9" -> 9 [] d = "a" -> 10 [] d = "b" -> 11
              [] d = "c" -> 12 [] d = "d" -> 13 [] d = "e" -> 14 [] d = "f" -> 15]
Methods    == {"GET", "POST", "HEAD", "PUT", "CONNECT"}
Hyphenated == {"proxy-connection", "content-length", "transfer-encoding", "keep-alive"}
Alpha      == Words \cup Methods \cup {"connection", "upgrade", "chunked", "close"}
                \cup (DOMAIN unhex \ Digits)
AlphaNum   == Alpha \cup Hyphenated \cup Digits        \* and '-'
TokenChar  == AlphaNum \cup {"*", "#", "&", "%", "."}                \* TOKEN
UrlChar    == AlphaNum \cup {"*", "&", "%", ".", "/", ":", "@", ",", ";", "=", "[", "]"}
Userinfo   == AlphaNum \cup {"*", "&", "%", ".", ";", ":", "=", ","}
HostChar   == AlphaNum \cup {"."}
EOL        == {"CR", "LF"}

\* The value a table of <<characters, target>> gives a token, or `otherwise`.
Lookup(table, t, otherwise) ==
  LET to == {m \in table : t \in m[1]}
  IN IF to = {} THEN otherwise ELSE (CHOOSE m \in to : TRUE)[2]

---------------------------------------------------------------------- \* URL
ServerMoves == {<<{"/"}, "s_req_path">>, <<{"?"}, "s_req_query_string_start">>,
                <<Userinfo \cup {"[", "]"}, "s_req_server">>}
QueryMoves  == {<<UrlChar \cup {"?"}, "s_req_query_string">>,
                <<{"#"}, "s_req_fragment_start">>}

UrlMoves ==
  [s_req_spaces_before_url  |-> {<<{"/", "*"}, "s_req_path">>, <<Alpha, "s_req_schema">>},
   s_req_schema             |-> {<<Alpha, "s_req_schema">>, <<{":"}, "s_req_schema_slash">>},
   s_req_schema_slash       |-> {<<{"/"}, "s_req_schema_slash_slash">>},
   s_req_schema_slash_slash |-> {<<{"/"}, "s_req_server_start">>},
   s_req_server_start       |-> ServerMoves \cup {<<{"@"}, "s_req_server_with_at">>},
   s_req_server             |-> ServerMoves \cup {<<{"@"}, "s_req_server_with_at">>},
   s_req_server_with_at     |-> ServerMoves,
   s_req_path               |-> {<<UrlChar, "s_req_path">>,
                                 <<{"?"}, "s_req_query_string_start">>,
                                 <<{"#"}, "s_req_fragment_start">>},
   s_req_query_string_start |-> QueryMoves,
   s_req_query_string       |-> QueryMoves,
   s_req_fragment_start     |-> {<<UrlChar \cup {"?"}, "s_req_fragment">>,
                                 <<{"#"}, "s_req_fragment_start">>},
   s_req_fragment           |-> {<<UrlChar \cup {"?", "#"}, "s_req_fragment">>}]

parse_url_char(s, t) ==
  IF s = "s_dead" THEN s ELSE Lookup(UrlMoves[s], t, "s_dead")

HostMoves ==
  LET user == {<<{"@"}, "s_http_host_start">>, <<Userinfo, "s_http_userinfo">>}
      v6   == <<DOMAIN unhex \cup {":", "."}, "s_http_host_v6">>
      zone == <<AlphaNum \cup {"%", "."}, "s_http_host_v6_zone">>
      end  == <<{"]"}, "s_http_host_v6_end">>
      port == <<{":"}, "s_http_host_port_start">>
      num  == {<<Digits, "s_http_host_port">>}
  IN [s_http_userinfo_start |-> user, s_http_userinfo |-> user,
      s_http_host_start |-> {<<{"["}, "s_http_host_v6_start">>, <<HostChar, "s_http_host">>},
      s_http_host |-> {<<HostChar, "s_http_host">>, port},
      s_http_host_v6_start |-> {v6},
      s_http_host_v6 |-> {v6, end, <<{"%"}, "s_http_host_v6_zone_start">>},
      s_http_host_v6_zone_start |-> {zone}, s_http_host_v6_zone |-> {zone, end},
      s_http_host_v6_end |-> {port},
      s_http_host_port_start |-> num, s_http_host_port |-> num]

http_parse_host_char(s, t) ==
  IF s = "s_http_host_dead" THEN s ELSE Lookup(HostMoves[s], t, "s_http_host_dead")

\* The characters of a part are those that lead into its states; s[i] is the
\* state after i characters.
Part(text, s, states) ==
  LET in[i \in 0..Len(text)] ==
        IF i = 0 THEN <<>>
        ELSE IF s[i] \in states THEN Append(in[i - 1], text[i]) ELSE in[i - 1]
  IN in[Len(text)]

HostParts(text, s) ==
  [ok |-> s[Len(text)] \in {"s_http_host", "s_http_host_v6_end", "s_http_host_port"},
   host |-> Part(text, s, {"s_http_host", "s_http_host_v6", "s_http_host_v6_zone_start",
                           "s_http_host_v6_zone"}),
   port |-> Part(text, s, {"s_http_host_port"}),
   userinfo |-> Part(text, s, {"s_http_userinfo"})]

http_parse_host(text, found_at) ==
  LET s[i \in 0..Len(text)] ==
        IF i = 0 THEN IF found_at THEN "s_http_userinfo_start" ELSE "s_http_host_start"
        ELSE http_parse_host_char(s[i - 1], text[i])
  IN HostParts(text, s)

\* Ports have a max value of 2^16; the code stops counting above it.
PortFits(text) ==
  LET v[i \in 0..Len(text)] ==
        IF i = 0 THEN 0
        ELSE LET u == v[i - 1] IN IF u > 65535 THEN u ELSE u * 10 + unhex[text[i]]
  IN v[Len(text)] <= 65535

UrlFields == {"schema", "host", "port", "path", "query", "fragment", "userinfo"}
FieldOf   == [s_req_schema |-> "schema", s_req_server |-> "host",
              s_req_server_with_at |-> "host", s_req_path |-> "path",
              s_req_query_string |-> "query", s_req_fragment |-> "fragment"]

\* The host's text h replaced by its own parts, and the verdict on the URL.
UrlResult(u, h, valid) ==
  LET v == IF u.host = <<>> \/ ~h.ok THEN u
           ELSE [u EXCEPT !.host = h.host, !.port = h.port, !.userinfo = h.userinfo]
  IN [ok |-> /\ valid
             /\ (u.schema # <<>> => u.host # <<>>)
             /\ (u.host # <<>> => h.ok)
             /\ PortFits(v.port),
      part |-> v]

\* The URL's parts: those with a character are in field_set.
UrlParts(text, s) ==
  LET u  == [f \in UrlFields |-> Part(text, s, {q \in DOMAIN FieldOf : FieldOf[q] = f})]
      at == \E i \in 1..Len(text) : s[i] = "s_req_server_with_at"
  IN UrlResult(u, http_parse_host(u.host, at), text # <<>> /\ s[Len(text)] # "s_dead")

\* The caller always passes is_connect = 0.
http_parser_parse_url(text) ==
  LET s[i \in 0..Len(text)] ==
        IF i = 0 THEN "s_req_spaces_before_url" ELSE parse_url_char(s[i - 1], text[i])
  IN UrlParts(text, s)

\* HttpParser::parseQueryParam: "k=v&k2=v2"; what ends in '=' has no value yet
parseQueryParam(text, params) ==
  LET Store(q) == IF q.key = <<>> THEN q.params ELSE (q.key :> q.val) @@ q.params
      at[i \in 0..Len(text)] ==
        IF i = 0 THEN [key |-> <<>>, val |-> <<>>, value |-> FALSE, params |-> params]
        ELSE LET q == at[i - 1] t == text[i]
             IN IF ~q.value /\ t = "=" THEN [q EXCEPT !.value = TRUE]
                ELSE IF ~q.value THEN [q EXCEPT !.key = Append(@, t)]
                ELSE IF t = "&" THEN [key |-> <<>>, val |-> <<>>, value |-> FALSE,
                                      params |-> Store(q)]
                ELSE [q EXCEPT !.val = Append(@, t)]
      e == at[Len(text)]
  IN IF e.value /\ e.val # <<>> THEN Store(e) ELSE e.params

=============================================================================
