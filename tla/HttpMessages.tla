--------------------------- MODULE HttpMessages ---------------------------
(***************************************************************************)
(* Requests as a client means them, the bytes they are sent as, and what   *)
(* bossan has to make of these bytes, wherever the reads cut them.         *)
(* A stream is [msgs, bytes, ends]: the requests, their bytes, and for     *)
(* each request the number of bytes up to its end.                         *)
(***************************************************************************)
EXTENDS HttpReading

(***************************************************************************)
(* The bytes of a request.  A value Null is a line without a colon; "fold" *)
(* in a value is a line break and a blank; lead are blank lines before the *)
(* request; gap are the blanks in its first line; eol ends the lines of    *)
(* the head and the trailers; the byte at the position bad, if any, is     *)
(* replaced by one that is not a token.                                    *)
(***************************************************************************)
Crlf == <<CR, LF>>
LinesOf(headers, eol) ==
  FlattenSeq([i \in DOMAIN headers |->
    LET h == headers[i]
        folded == FlattenSeq([k \in DOMAIN h.value |->
                    IF h.value[k] = "fold" THEN eol \o <<" ">> ELSE <<h.value[k]>>])
    IN h.name \o (IF h.value = Null THEN <<>> ELSE <<":", " ">> \o folded) \o eol])

UrlOf(m) ==
  m.path \o (IF m.query = Null THEN <<>> ELSE <<"?">> \o m.query)
  \o (IF m.fragment = Null THEN <<>> ELSE <<"#">> \o m.fragment)

HeadOf(m) ==
  m.lead \o m.method \o m.gap \o UrlOf(m)
  \o (IF m.version = "0.9" THEN <<>> ELSE m.gap \o <<m.version>>) \o m.eol
  \o LinesOf(m.headers, m.eol) \o m.eol

ChunksOf(m) ==
  FlattenSeq([i \in DOMAIN m.chunks |-> m.chunks[i].size \o Crlf \o m.chunks[i].data \o Crlf])
  \o <<"0">> \o Crlf \o LinesOf(m.trailers, m.eol) \o m.eol

HasHeader(m, name, value) ==
  \E i \in DOMAIN m.headers : m.headers[i].name = name /\ m.headers[i].value = value
Chunked(m) == HasHeader(m, <<"te">>, <<"chunked">>)
Upgrades(m) ==
  \/ m.method = method_strings.CONNECT
  \/ \E i \in DOMAIN m.headers :
       m.headers[i].name = <<"up">> /\ m.headers[i].value \notin {Null, <<>>}

BytesOf(m) ==
  LET bytes == HeadOf(m) \o (IF Chunked(m) THEN ChunksOf(m) ELSE m.body) IN
  [i \in DOMAIN bytes |-> IF i = m.bad THEN "bad" ELSE bytes[i]]
StreamOf(msgs) ==
  LET bytes == [i \in DOMAIN msgs |-> BytesOf(msgs[i])] IN
  [msgs |-> msgs, bytes |-> FlattenSeq(bytes),
   ends |-> [i \in DOMAIN msgs |-> Len(FlattenSeq(SubSeq(bytes, 1, i)))]]

(***************************************************************************)
(* What a request means                                                    *)
(***************************************************************************)
Msg(i) == stream.msgs[i]

MethodName(m) == CHOOSE name \in Methods : method_strings[name] = m.method

Unfolded(value) == SelectSeq(value, LAMBDA c : c # "fold")
KeyOf(name) ==
  CASE name = <<"cl">> -> <<"CONTENT_LENGTH">>
    [] name = <<"ct">> -> <<"CONTENT_TYPE">>
    [] OTHER -> get_http_header_key(name)
EnvironOf(m) ==
  LET keys == {KeyOf(m.headers[i].name) : i \in DOMAIN m.headers}
      lastOf(k) == Max({i \in DOMAIN m.headers : KeyOf(m.headers[i].name) = k})
      own == (<<"REQUEST_METHOD">> :> <<MethodName(m)>>)
          @@ (<<"PATH_INFO">> :> m.path)
          @@ (<<"QUERY_STRING">> :> IF m.query = Null THEN <<>> ELSE m.query)
          @@ (<<"SERVER_PROTOCOL">> :> <<IF m.version = "1.1" THEN "1.1" ELSE "1.0">>)
  IN own @@ [k \in keys |-> Unfolded(m.headers[lastOf(k)].value)]

Decimal(digits) == FoldLeft(LAMBDA n, d : 10 * n + ValueOf(d), 0, digits)
Hexadecimal(digits) == FoldLeft(LAMBDA n, d : 16 * n + ValueOf(d), 0, digits)
LengthsOf(m) == {i \in DOMAIN m.headers : m.headers[i].name = <<"cl">> /\ m.headers[i].value # <<>>}
HasLength(m) == LengthsOf(m) # {}
LengthOf(m) ==
  IF HasLength(m) THEN Decimal(m.headers[Max(LengthsOf(m))].value) ELSE 0

BodyOf(m) ==
  IF Chunked(m) THEN FlattenSeq([i \in DOMAIN m.chunks |-> m.chunks[i].data]) ELSE m.body

\* Whether the connection goes on, by the headers given
KeepsAlive(m, headers) ==
  LET asks(v) == \E i \in DOMAIN headers : headers[i].name = <<"co">> /\ headers[i].value = <<v>>
  IN IF m.version \in {"0.9", "1.0"} THEN asks("keep-alive") ELSE ~asks("close")

\* Every line of the headers has a colon.
Colons(headers) == \A i \in DOMAIN headers : headers[i].value # Null
\* Bossan has a name for the method: seven have none.
Named(m) == Presented(MethodName(m)) = MethodName(m)

\* A URL is a path, the name of a server, or both behind a scheme.  A server's
\* name may hold several @, but not side by side; a path may be all there is of
\* it, and a query may follow it at once.
Authority(url) ==
  LET host == UpTo(url, {"/", "?"}) IN
  /\ url # <<>> /\ Range(host) \cap {"#", "^"} = {}
  /\ \A i \in 1 .. Len(host) - 1 : ~(host[i] = "@" /\ host[i + 1] = "@")
ValidUrl(m) ==
  LET url == UrlOf(m) IN
  IF m.method = method_strings.CONNECT THEN Authority(url)
  ELSE \/ url # <<>> /\ Head(url) \in {"/", "*"}
       \/ \E n \in 1 .. Len(url) - 3 :
            /\ Range(SubSeq(url, 1, n)) \subseteq Letters
            /\ SubSeq(url, n + 1, n + 3) = <<":", "/", "/">>
            /\ Authority(SubSeq(url, n + 4, Len(url)))

WellFormed(m) ==
  /\ m.bad = 0
  /\ m.method \in Range(method_strings) /\ m.version \in Versions \cup {"0.9"}
  /\ ValidUrl(m) /\ Range(UrlOf(m)) \cap {"bad", "%"} = {}
  /\ \A i \in DOMAIN m.headers : \A k \in DOMAIN m.headers[i].name :
       Token(m.headers[i].name[k])
  /\ \A i \in LengthsOf(m) : \A k \in DOMAIN m.headers[i].value : IsNum(m.headers[i].value[k])
  /\ Chunked(m) => \A i \in DOMAIN m.chunks :
       Hexadecimal(UpTo(m.chunks[i].size, {";", " "})) = Len(m.chunks[i].data)
  /\ ~Chunked(m) => Len(m.body) = LengthOf(m)

\* The headers are counted when the next one begins, so one more than the limit
\* passes; trailers are counted with them.
WithinLimits(m) ==
  /\ Len(UrlOf(m)) <= UriSize
  /\ \A i \in DOMAIN m.headers :
       /\ Len(m.headers[i].name) + 1 <= FieldSize
       /\ Len(Unfolded(m.headers[i].value)) <= FieldSize
  /\ Len(m.headers) + Len(m.trailers) <= MaxFields + 1
  /\ LengthOf(m) <= MaxContent
  /\ BodyOf(m) # <<>> => Len(BodyOf(m)) < MaxContent
  /\ ~(BodyOf(m) # <<>> /\ HasLength(m) /\ LengthOf(m) = 0)

\* The bytes of trailers are not forgotten before the next request is counted.
TrailerBytes(m) == IF Chunked(m) THEN Len(LinesOf(m.trailers, m.eol) \o m.eol) ELSE 0
HeaderFits(i) ==
  /\ Len(HeadOf(Msg(i))) + (IF i = 1 THEN 0 ELSE TrailerBytes(Msg(i - 1))) <= MaxHeader
  /\ TrailerBytes(Msg(i)) <= MaxHeader

\* The third letter of a method counts only where it tells the method from
\* another one that begins as it does, and in SUBSCRIBE: "GEX" is GET.
Exact == {"CONNECT", "COPY", "MKCOL", "MKACTIVITY", "PURGE", "UNSUBSCRIBE", "SUBSCRIBE"}
TakenFor(m) ==
  {name \in Methods \ Exact :
     LET word == method_strings[name] IN
     /\ Len(word) = Len(m.method) /\ \A i \in DOMAIN word \ {3} : word[i] = m.method[i]
     /\ <<name, m.method[3]>> \notin {<<"PUT", "R">>, <<"UNLOCK", "S">>}}
Corrected(m) ==
  IF TakenFor(m) = {} THEN m
  ELSE [m EXCEPT !.method = method_strings[CHOOSE name \in TakenFor(m) : TRUE]]

Acceptable(i) ==
  /\ WellFormed(Corrected(Msg(i))) /\ WithinLimits(Msg(i)) /\ HeaderFits(i)
  /\ i > 1 => KeepsAlive(Msg(i - 1), Msg(i - 1).headers \o Msg(i - 1).trailers)

(***************************************************************************)
(* Properties                                                              *)
(***************************************************************************)

\* When the headers of a request are complete its environ holds exactly them,
\* one entry for each name as Rack spells it, the last value given, however the
\* reads cut the names and values into pieces; until trailers come.  Not meant:
\* lines without a colon, whose name becomes a part of the next header's, and
\* methods that are presented as GET for want of a name.
EnvironExact ==
  \A i \in DOMAIN requests :
    requests[i].headed /\ WellFormed(Msg(i)) /\ Colons(Msg(i).headers) /\ Named(Msg(i))
    /\ (Msg(i).trailers = <<>> \/ (i = Len(requests) /\ "TRAILING" \notin parser.flags))
      => requests[i].environ = EnvironOf(Msg(i))

\* client->keep_alive is what the request whose headers were last seen asks for.
KeepExact ==
  requests # <<>> /\ Current.headed /\ WellFormed(Msg(Len(requests))) =>
    keep_alive = KeepsAlive(Msg(Len(requests)), Msg(Len(requests)).headers)

\* When its headers are complete a request's environ and client->keep_alive are
\* what its message says, whatever the requests before it were.
HeadExact == EnvironExact /\ KeepExact

\* The body handed to the application is a prefix of the one that was sent, and
\* all of it when the request is complete, by either framing.
BodyExact ==
  \A i \in DOMAIN requests :
    WellFormed(Msg(i)) =>
      /\ IsPrefix(requests[i].body, BodyOf(Msg(i)))
      /\ requests[i].done => requests[i].body = BodyOf(Msg(i))

\* A request is complete when its last byte was consumed and not before: on a
\* connection with several requests none takes a byte of another one.
Framed ==
  \A i \in DOMAIN requests :
    WellFormed(Msg(i)) => (requests[i].done <=> pos >= stream.ends[i])

\* Nothing that bossan must refuse is completed (a bad byte may be a part of a
\* value or a body), and the parser fails only at a request that is to be
\* refused, or after an upgrade, when more came with it; lines without a colon
\* are left out, their names add up.  A wrong third letter of a method is not
\* refused, as it should be, but for the methods in Exact.
Here == Len(requests) + (IF parser.state \in {"s_start_req", "s_dead"} THEN 1 ELSE 0)
RefusesExactly ==
  /\ \A i \in DOMAIN requests : requests[i].done /\ Msg(i).bad = 0 => Acceptable(i)
  /\ failed /\ Colons(Msg(Here).headers) =>
       ~Acceptable(Here) \/ (Here > 1 /\ Upgrades(Msg(Here - 1)))

\* The asserts of http_parser_execute: the first byte of a chunk's size is the
\* first one counted, a body being read has a length, header_state was resolved
\* when the value began.
NoAssertFails ==
  ~failed /\ pos < Len(stream.bytes) =>
    /\ parser.state = "s_chunk_size_start" => Counted.nread = 1
    /\ parser.state \in {"s_chunk_size_start", "s_chunk_size", "s_chunk_data",
                         "s_chunk_data_almost_done", "s_chunk_data_done"}
         => "CHUNKED" \in parser.flags
    /\ parser.state \in {"s_body_identity", "s_chunk_data"}
         => parser.content_length \notin {0, Unlimited}
    /\ parser.state = "s_chunk_data_almost_done" => parser.content_length = 0
    /\ parser.state = "s_header_value"
         => parser.header_state \notin {"h_connection", "h_transfer_encoding"}
=============================================================================
