---------------------------- MODULE HttpParser ----------------------------
(***************************************************************************)
(* http_parser.c: http_parser_execute over the bytes of a connection, with *)
(* the callbacks of Environ.  A step takes one byte in the parser's state; *)
(* EndRead is the end of the data of one call, where the pieces marked so  *)
(* far are handed over; it can come after any byte.  The version and the   *)
(* names and values of headers that the parser follows are one byte each,  *)
(* so states that differ in the letter of these are one state.             *)
(***************************************************************************)
EXTENDS Environ

CONSTANTS
  Streams,        \* records whose field bytes is what the peer sends
  MaxHeader,      \* HTTP_MAX_HEADER_SIZE
  Width           \* of uint64_t, in bits

\* max_content_length is an int, lengths are 64 bits wide, and one digit is no
\* length that was not given.
ASSUME ParserAssumption ==
  /\ MaxHeader \in Nat /\ Width \in Nat \ {0}
  /\ 10 * MaxContent < 2 ^ Width /\ 10 < 2 ^ Width

VARIABLES
  stream,         \* the element of Streams sent on this connection
  pos,            \* the bytes consumed
  again,          \* reexecute_byte: the next byte was looked at already
  parser,         \* http_parser
  piece,          \* the bytes since the mark that is set, or Null
  requests,       \* the requests begun on this connection, oldest first
  keep_alive, complete,   \* fields of client_t
  failed          \* the parser has an errno, or its result is short of the data

vars == <<stream, pos, again, parser, piece, requests, keep_alive, complete, failed>>

CR == "CR"
LF == "LF"
Digits == <<"0", "1", "2", "3", "4", "5", "6", "7", "8", "9">>
IsNum(c) == c \in Range(Digits)
ValueOf(c) == CHOOSE v \in 0 .. 9 : Digits[v + 1] = c
\* Versions with two minors above zero, only one of which is HTTP/1.1
Versions == {"1.0", "1.1", "1.2"}
\* TOKEN(c); the byte "bad" is NUL, "^" is one that a server's name may not contain.
Token(c) == c \notin {" ", ":", ";", "/", "?", "@", "[", "]", CR, LF, "bad"}

\* method_strings
method_strings ==
  [DELETE |-> <<"D", "E", "L", "E", "T", "E">>, GET |-> <<"G", "E", "T">>,
   HEAD |-> <<"H", "E", "A", "D">>, POST |-> <<"P", "O", "S", "T">>, PUT |-> <<"P", "U", "T">>,
   CONNECT |-> <<"C", "O", "N", "N", "E", "C", "T">>,
   OPTIONS |-> <<"O", "P", "T", "I", "O", "N", "S">>, TRACE |-> <<"T", "R", "A", "C", "E">>,
   COPY |-> <<"C", "O", "P", "Y">>, LOCK |-> <<"L", "O", "C", "K">>,
   MKCOL |-> <<"M", "K", "C", "O", "L">>, MOVE |-> <<"M", "O", "V", "E">>,
   PROPFIND |-> <<"P", "R", "O", "P", "F", "I", "N", "D">>,
   PROPPATCH |-> <<"P", "R", "O", "P", "P", "A", "T", "C", "H">>,
   SEARCH |-> <<"S", "E", "A", "R", "C", "H">>, UNLOCK |-> <<"U", "N", "L", "O", "C", "K">>,
   REPORT |-> <<"R", "E", "P", "O", "R", "T">>,
   MKACTIVITY |-> <<"M", "K", "A", "C", "T", "I", "V", "I", "T", "Y">>,
   CHECKOUT |-> <<"C", "H", "E", "C", "K", "O", "U", "T">>, MERGE |-> <<"M", "E", "R", "G", "E">>,
   MSEARCH |-> <<"M", "-", "S", "E", "A", "R", "C", "H">>,
   NOTIFY |-> <<"N", "O", "T", "I", "F", "Y">>,
   SUBSCRIBE |-> <<"S", "U", "B", "S", "C", "R", "I", "B", "E">>,
   UNSUBSCRIBE |-> <<"U", "N", "S", "U", "B", "S", "C", "R", "I", "B", "E">>,
   PATCH |-> <<"P", "A", "T", "C", "H">>, PURGE |-> <<"P", "U", "R", "G", "E">>]
Methods == DOMAIN method_strings

\* parser->method and parser->index: the method that a first letter may begin,
\* and the letters there were
FirstMethod ==
  [C |-> "CONNECT", D |-> "DELETE", G |-> "GET", H |-> "HEAD", L |-> "LOCK", M |-> "MKCOL",
   N |-> "NOTIFY", O |-> "OPTIONS", P |-> "POST", R |-> "REPORT", S |-> "SUBSCRIBE",
   T |-> "TRACE", U |-> "UNLOCK"]
FirstLetter(c) == [name |-> FirstMethod[c], index |-> 1]
MethodOver(method, c) == c = " " /\ method.index = Len(method_strings[method.name])
\* What a letter other than the one expected makes of a method.  A third letter
\* that fits nothing is no error, but for three methods.
Turned(name, index, c) ==
  CASE name = "CONNECT" /\ index = 1 /\ c = "H" -> "CHECKOUT"
    [] name = "CONNECT" /\ index = 2 /\ c = "P" -> "COPY"
    [] name = "MKCOL" /\ index = 1 /\ c = "O" -> "MOVE"
    [] name = "MKCOL" /\ index = 1 /\ c = "E" -> "MERGE"
    [] name = "MKCOL" /\ index = 1 /\ c = "-" -> "MSEARCH"
    [] name = "MKCOL" /\ index = 2 /\ c = "A" -> "MKACTIVITY"
    [] name = "SUBSCRIBE" /\ index = 1 /\ c = "E" -> "SEARCH"
    [] name = "POST" /\ index = 1 /\ c = "R" -> "PROPFIND"
    [] name = "POST" /\ index = 1 /\ c = "U" -> "PUT"
    [] name = "POST" /\ index = 1 /\ c = "A" -> "PATCH"
    [] name = "PUT" /\ index = 2 /\ c = "R" -> "PURGE"
    [] name = "UNLOCK" /\ index = 2 /\ c = "S" -> "UNSUBSCRIBE"
    [] name = "PROPFIND" /\ index = 4 /\ c = "P" -> "PROPPATCH"
    [] index = 2 /\ name \notin {"CONNECT", "MKCOL", "SUBSCRIBE"} -> name
    [] OTHER -> "none"
NextMethod(method, c) ==
  LET word == method_strings[method.name] IN
  IF c = "bad" THEN "none"
  ELSE IF MethodOver(method, c) THEN method.name
  ELSE IF method.index < Len(word) /\ c = word[method.index + 1] THEN method.name
  ELSE Turned(method.name, method.index, c)

\* The states that url_mark is set in: those where no blank and no end of the
\* line may come, and the others
UrlStates == {"s_req_schema", "s_req_schema_slash", "s_req_schema_slash_slash",
              "s_req_server_start", "s_req_server", "s_req_server_with_at", "s_req_path",
              "s_req_query_string_start", "s_req_query_string",
              "s_req_fragment_start", "s_req_fragment"}
UrlStarts == {"s_req_schema", "s_req_schema_slash", "s_req_schema_slash_slash",
              "s_req_server_start"}
UrlEnds == UrlStates \ UrlStarts
Servers == {"s_req_server_start", "s_req_server", "s_req_server_with_at"}
Queries == {"s_req_query_string_start", "s_req_query_string"}
Fragments == {"s_req_fragment_start", "s_req_fragment"}

\* IS_ALPHA, IS_URL_CHAR, and IS_USERINFO_CHAR with the brackets
Letters == {"A", "B", "C", "D", "E", "F", "G", "H", "I", "J", "K", "L", "M", "N", "O", "P", "Q",
            "R", "S", "T", "U", "V", "W", "X", "Y", "Z", "v", "x"}
UrlChar(c) == c \notin {" ", "?", "#", CR, LF, "bad"}
ServerChar(c) == UrlChar(c) /\ c \notin {"/", "@", "^"}

parse_url_char(s, c) ==
  CASE s = "s_req_spaces_before_url" /\ c \in {"/", "*"} -> "s_req_path"
    [] s \in {"s_req_spaces_before_url", "s_req_schema"} /\ c \in Letters -> "s_req_schema"
    [] s = "s_req_schema" /\ c = ":" -> "s_req_schema_slash"
    [] s = "s_req_schema_slash" /\ c = "/" -> "s_req_schema_slash_slash"
    [] s = "s_req_schema_slash_slash" /\ c = "/" -> "s_req_server_start"
    [] s \in Servers /\ c = "/" -> "s_req_path"
    [] s \in Servers /\ c = "?" -> "s_req_query_string_start"
    [] s \in {"s_req_server_start", "s_req_server"} /\ c = "@" -> "s_req_server_with_at"
    [] s \in Servers /\ ServerChar(c) -> "s_req_server"
    [] s = "s_req_path" /\ UrlChar(c) -> s
    [] s = "s_req_path" /\ c = "?" -> "s_req_query_string_start"
    [] s \in Queries /\ (UrlChar(c) \/ c = "?") -> "s_req_query_string"
    [] s \in Queries \cup {"s_req_path"} /\ c = "#" -> "s_req_fragment_start"
    [] s \in Fragments /\ c = "#" -> s
    [] s \in Fragments /\ (UrlChar(c) \/ c = "?") -> "s_req_fragment"
    [] OTHER -> "s_dead"
\* Where the URL begins: a CONNECT names a server.
UrlBegin(method) ==
  IF method.name = "CONNECT" THEN "s_req_server_start" ELSE "s_req_spaces_before_url"

\* ULLONG_MAX, which also stands for a length that was not given
Unlimited == 2 ^ Width - 1
\* PARSING_HEADER: every state up to s_headers_done
BodyStates == {"s_chunk_data", "s_chunk_data_almost_done", "s_chunk_data_done",
               "s_body_identity", "s_message_done"}

\* Seeded fault: HTTP/1.0 is taken for HTTP/1.1.
FaultyKeepAlive(p) == "CLOSE" \notin p.flags
\* http_should_keep_alive
ShouldKeepAlive(p) ==
  IF p.version \in {"1.1", "1.2"} THEN "CLOSE" \notin p.flags ELSE "KEEP_ALIVE" \in p.flags
\* NEW_MESSAGE in a strict build
NewMessage(p) == IF ShouldKeepAlive(p) THEN "s_start_req" ELSE "s_dead"

\* One more digit of a length: 64 bits wide, with the parser's test of overflow.
Shifted(p, base, c) == (p.content_length * base + ValueOf(c)) % 2 ^ Width
\* Seeded fault: a length that wraps is taken.
FaultyOverflows(p, base, c) == Shifted(p, base, c) = Unlimited
Overflows(p, base, c) ==
  Shifted(p, base, c) < p.content_length \/ Shifted(p, base, c) = Unlimited

\* http_parser_init
Init ==
  /\ stream \in Streams
  /\ pos = 0 /\ again = FALSE
  /\ parser = [state |-> "s_start_req", header_state |-> "h_general", flags |-> {},
               content_length |-> 0, nread |-> 0, method |-> [name |-> "DELETE", index |-> 0],
               version |-> "0.0"]
  /\ piece = Null /\ requests = <<>>
  /\ keep_alive = FALSE /\ complete = FALSE /\ failed = FALSE

ch == stream.bytes[pos + 1]
Current == Last(requests)

\* The loop's head: a byte of a header is counted when it is first looked at.
Counted ==
  IF again \/ parser.state \in BodyStates THEN parser ELSE [parser EXCEPT !.nread = @ + 1]
In(state) ==
  /\ ~failed /\ pos < Len(stream.bytes) /\ parser.state = state
  /\ Counted.nread <= MaxHeader

Goto(state) == parser' = [Counted EXCEPT !.state = state]
Advance == pos' = pos + 1 /\ again' = FALSE /\ UNCHANGED stream
Reexecute == again' = TRUE /\ UNCHANGED <<pos, stream>>
Mark == piece' = (IF piece = Null THEN <<>> ELSE piece) \o <<ch>>
Unmark == piece' = Null
NoCall == UNCHANGED <<requests, keep_alive, complete, failed>>
\* A callback left the current request as req.
Called(req) ==
  /\ requests' = Front(requests) \o <<req>>
  /\ failed' = ~req.ok
  /\ UNCHANGED <<keep_alive, complete>>
Error == failed' = TRUE /\ UNCHANGED <<stream, pos, again, parser, piece, requests,
                                       keep_alive, complete>>

HeaderOverflow ==
  /\ ~failed /\ pos < Len(stream.bytes) /\ Counted.nread > MaxHeader
  /\ Error

Dead ==
  /\ In("s_dead")
  /\ \/ ch \in {CR, LF} /\ Goto("s_dead") /\ Advance /\ NoCall /\ UNCHANGED piece
     \/ ch \notin {CR, LF} /\ Error

\* message_begin_cb
MessageBegin ==
  /\ requests' = Append(requests, new_request)
  /\ complete' = FALSE
  /\ UNCHANGED <<keep_alive, failed>>

\* Seeded fault: the flags of the request before stay.
FaultyStarted(c) ==
  [Counted EXCEPT !.state = "s_req_method", !.content_length = Unlimited,
                  !.method = FirstLetter(c)]
Started(c) ==
  [Counted EXCEPT !.state = "s_req_method", !.flags = {}, !.content_length = Unlimited,
                  !.method = FirstLetter(c)]

StartReq ==
  /\ In("s_start_req")
  /\ \/ ch \in {CR, LF} /\ Goto("s_start_req") /\ Advance /\ NoCall /\ UNCHANGED piece
     \/ /\ ch \in DOMAIN FirstMethod
        /\ parser' = Started(ch)
        /\ MessageBegin /\ Advance /\ UNCHANGED piece
     \/ ch \notin DOMAIN FirstMethod \cup {CR, LF} /\ Error

ReqMethod ==
  /\ In("s_req_method")
  /\ LET next == NextMethod(parser.method, ch)
         state == IF MethodOver(parser.method, ch) THEN "s_req_spaces_before_url"
                  ELSE "s_req_method"
     IN
     \/ /\ next # "none"
        /\ parser' = [Counted EXCEPT !.method = [name |-> next, index |-> @.index + 1],
                                     !.state = state]
        /\ Advance /\ NoCall /\ UNCHANGED piece
     \/ next = "none" /\ Error

\* A byte of the URL, seen in the state s
UrlByte(s) ==
  /\ parse_url_char(s, ch) # "s_dead"
  /\ Goto(parse_url_char(s, ch)) /\ Mark /\ Advance /\ NoCall

ReqSpacesBeforeUrl ==
  /\ In("s_req_spaces_before_url")
  /\ LET begin == UrlBegin(parser.method) IN
     \/ ch = " " /\ Goto("s_req_spaces_before_url") /\ Advance /\ NoCall /\ UNCHANGED piece
     \/ UrlByte(begin)
     \/ ch # " " /\ parse_url_char(begin, ch) = "s_dead" /\ Error

\* The states from s_req_schema to s_req_server_start
ReqSchema ==
  /\ parser.state \in UrlStarts /\ In(parser.state)
  /\ \/ UrlByte(parser.state)
     \/ parse_url_char(parser.state, ch) = "s_dead" /\ Error

\* The states that the URL may end in; without a version the request is HTTP/0.9.
ReqPath ==
  /\ parser.state \in UrlEnds /\ In(parser.state)
  /\ \/ UrlByte(parser.state)
     \/ ch \notin {" ", CR, LF} /\ parse_url_char(parser.state, ch) = "s_dead" /\ Error
     \/ /\ ch = " "
        /\ Goto("s_req_http_start")
        /\ Called(request_uri_cb(Current, piece)) /\ Unmark /\ Advance
     \/ /\ ch \in {CR, LF}
        /\ parser' = [Counted EXCEPT !.version = "0.9",
                        !.state = IF ch = CR THEN "s_req_line_almost_done"
                                  ELSE "s_header_field_start"]
        /\ Called(request_uri_cb(Current, piece)) /\ Unmark /\ Advance

ReqHttpStart ==
  /\ In("s_req_http_start")
  /\ \/ ch = " " /\ Goto("s_req_http_start") /\ Advance /\ NoCall /\ UNCHANGED piece
     \/ /\ ch \in Versions
        /\ parser' = [Counted EXCEPT !.version = ch, !.state = "s_req_http_minor"]
        /\ Advance /\ NoCall /\ UNCHANGED piece
     \/ ch \notin Versions \cup {" "} /\ Error

ReqHttpMinor ==
  /\ In("s_req_http_minor")
  /\ \/ ch = CR /\ Goto("s_req_line_almost_done") /\ Advance /\ NoCall /\ UNCHANGED piece
     \/ ch = LF /\ Goto("s_header_field_start") /\ Advance /\ NoCall /\ UNCHANGED piece
     \/ ch \notin {CR, LF} /\ Error

ReqLineAlmostDone ==
  /\ In("s_req_line_almost_done")
  /\ \/ ch = LF /\ Goto("s_header_field_start") /\ Advance /\ NoCall /\ UNCHANGED piece
     \/ ch # LF /\ Error

\* The names that the parser follows; any other one, and one that goes on, is general.
NameState(c) ==
  CASE c = "co" -> "h_connection" [] c = "cl" -> "h_content_length"
    [] c = "te" -> "h_transfer_encoding" [] c = "up" -> "h_upgrade" [] OTHER -> "h_general"

HeaderFieldStart ==
  /\ In("s_header_field_start")
  /\ \/ ch = CR /\ Goto("s_headers_almost_done") /\ Advance /\ NoCall /\ UNCHANGED piece
     \/ ch = LF /\ Goto("s_headers_almost_done") /\ Reexecute /\ NoCall /\ UNCHANGED piece
     \/ /\ Token(ch)
        /\ parser' = [Counted EXCEPT !.state = "s_header_field",
                                     !.header_state = NameState(ch)]
        /\ Mark /\ Advance /\ NoCall
     \/ ~Token(ch) /\ ch \notin {CR, LF} /\ Error

HeaderField ==
  /\ In("s_header_field")
  /\ \/ /\ Token(ch)
        /\ parser' = [Counted EXCEPT !.header_state = "h_general"]
        /\ Mark /\ Advance /\ NoCall
     \/ /\ ch \in {":", CR, LF}
        /\ Goto(CASE ch = ":" -> "s_header_value_start" [] ch = CR -> "s_header_almost_done"
                  [] OTHER -> "s_header_field_start")
        /\ Called(header_field_cb(Current, piece)) /\ Unmark /\ Advance
     \/ ~Token(ch) /\ ch \notin {":", CR, LF} /\ Error

\* What the first and the later bytes of a value make of header_state
FirstOfValue(hs, c) ==
  CASE hs = "h_transfer_encoding" /\ c = "chunked" -> "h_transfer_encoding_chunked"
    [] hs = "h_connection" /\ c = "keep-alive" -> "h_connection_keep_alive"
    [] hs = "h_connection" /\ c = "close" -> "h_connection_close"
    [] hs = "h_content_length" -> hs
    [] OTHER -> "h_general"
NextOfValue(hs, c) == IF hs = "h_content_length" \/ c = " " THEN hs ELSE "h_general"

HeaderValueStart ==
  /\ In("s_header_value_start")
  /\ \/ ch = " " /\ Goto("s_header_value_start") /\ Advance /\ NoCall /\ UNCHANGED piece
     \/ /\ ch = CR
        /\ parser' = [Counted EXCEPT !.header_state = "h_general",
                                     !.state = "s_header_almost_done"]
        /\ Called(header_value_cb(Current, <<>>)) /\ Unmark /\ Advance
     \/ /\ ch = LF
        /\ Goto("s_header_field_start")
        /\ Called(header_value_cb(Current, <<>>)) /\ Unmark /\ Advance
     \/ /\ ch \notin {" ", CR, LF}
        /\ parser.header_state = "h_content_length" => IsNum(ch)
        /\ parser' = [Counted EXCEPT
                        !.state = "s_header_value",
                        !.header_state = FirstOfValue(@, ch),
                        !.content_length =
                          IF parser.header_state = "h_content_length" THEN ValueOf(ch) ELSE @,
                        !.flags = @ \cup (IF parser.header_state = "h_upgrade"
                                          THEN {"UPGRADE"} ELSE {})]
        /\ Mark /\ Advance /\ NoCall
     \/ /\ parser.header_state = "h_content_length" /\ ~IsNum(ch)
        /\ ch \notin {" ", CR, LF}
        /\ Error

HeaderValue ==
  /\ In("s_header_value")
  /\ LET counts == parser.header_state = "h_content_length" /\ ch \notin {" ", CR, LF}
         taken == IsNum(ch) /\ ~Overflows(parser, 10, ch)
     IN
     \/ /\ ch = CR
        /\ Goto("s_header_almost_done")
        /\ Called(header_value_cb(Current, piece)) /\ Unmark /\ Advance
     \/ /\ ch = LF
        /\ Goto("s_header_almost_done")
        /\ Called(header_value_cb(Current, piece)) /\ Unmark /\ Reexecute
     \/ /\ ch \notin {CR, LF} /\ (counts => taken)
        /\ parser' = [Counted EXCEPT
                        !.header_state = NextOfValue(@, ch),
                        !.content_length = IF counts THEN Shifted(parser, 10, ch) ELSE @]
        /\ Mark /\ Advance /\ NoCall
     \/ counts /\ ~taken /\ Error

FlagsOf(hs) ==
  CASE hs = "h_connection_keep_alive" -> {"KEEP_ALIVE"}
    [] hs = "h_connection_close" -> {"CLOSE"}
    [] hs = "h_transfer_encoding_chunked" -> {"CHUNKED"}
    [] OTHER -> {}
HeaderAlmostDone ==
  /\ In("s_header_almost_done")
  /\ \/ /\ ch = LF
        /\ parser' = [Counted EXCEPT !.state = "s_header_value_lws",
                                     !.flags = @ \cup FlagsOf(parser.header_state)]
        /\ Advance /\ NoCall /\ UNCHANGED piece
     \/ ch # LF /\ Error

\* A line that starts with a blank goes on with the value.
HeaderValueLws ==
  /\ In("s_header_value_lws")
  /\ \/ ch = " " /\ Goto("s_header_value_start") /\ Advance
     \/ ch # " " /\ Goto("s_header_field_start") /\ Reexecute
  /\ NoCall /\ UNCHANGED piece

\* message_complete_cb
MessageComplete ==
  /\ complete' = TRUE
  /\ requests' = Front(requests) \o <<[Current EXCEPT !.done = TRUE]>>
  /\ UNCHANGED <<keep_alive, failed>>

HeadersAlmostDone ==
  /\ In("s_headers_almost_done")
  /\ \/ ch # LF /\ Error
     \/ /\ ch = LF /\ "TRAILING" \in parser.flags
        /\ Goto(NewMessage(parser))
        /\ MessageComplete /\ Advance /\ UNCHANGED piece
     \/ /\ ch = LF /\ "TRAILING" \notin parser.flags
        /\ Goto("s_headers_done")
        /\ LET req == headers_complete_cb(Current, parser.content_length,
                                          parser.content_length = Unlimited,
                                          parser.version, parser.method.name)
           IN requests' = Front(requests) \o <<req>> /\ failed' = ~req.ok
        /\ keep_alive' = ShouldKeepAlive(parser)
        /\ Reexecute /\ UNCHANGED <<piece, complete>>

NoContent == parser.content_length \in {0, Unlimited}
\* After an upgrade the call returns; what it did not read makes its result short.
HeadersDone ==
  /\ In("s_headers_done")
  /\ LET upgrade == "UPGRADE" \in parser.flags \/ parser.method.name = "CONNECT"
         chunked == "CHUNKED" \in parser.flags
     IN
     \/ /\ upgrade
        /\ parser' = [Counted EXCEPT !.nread = 0, !.state = NewMessage(parser)]
        /\ complete' = TRUE
        /\ requests' = Front(requests) \o <<[Current EXCEPT !.done = TRUE]>>
        /\ \E more \in BOOLEAN :
             (more => pos + 1 < Len(stream.bytes)) /\ failed' = more
        /\ UNCHANGED keep_alive
     \/ /\ ~upgrade /\ chunked
        /\ parser' = [Counted EXCEPT !.nread = 0, !.state = "s_chunk_size_start"]
        /\ NoCall
     \/ /\ ~upgrade /\ ~chunked /\ NoContent
        /\ parser' = [Counted EXCEPT !.nread = 0, !.state = NewMessage(parser)]
        /\ MessageComplete
     \/ /\ ~upgrade /\ ~chunked /\ ~NoContent
        /\ parser' = [Counted EXCEPT !.nread = 0, !.state = "s_body_identity"]
        /\ NoCall
  /\ Advance /\ UNCHANGED piece

\* A byte of the body; the last one is looked at again in s_message_done.
BodyIdentity ==
  /\ In("s_body_identity")
  /\ LET left == parser.content_length - 1
         marked == (IF piece = Null THEN <<>> ELSE piece) \o <<ch>>
     IN
     \/ /\ left > 0
        /\ parser' = [parser EXCEPT !.content_length = left]
        /\ Mark /\ Advance /\ NoCall
     \/ /\ left = 0
        /\ parser' = [parser EXCEPT !.content_length = 0, !.state = "s_message_done"]
        /\ Called(body_cb(Current, marked)) /\ Unmark /\ Reexecute

MessageDone ==
  /\ In("s_message_done")
  /\ Goto(NewMessage(parser))
  /\ MessageComplete /\ Advance /\ UNCHANGED piece

ChunkSizeStart ==
  /\ In("s_chunk_size_start")
  /\ \/ /\ IsNum(ch)
        /\ parser' = [Counted EXCEPT !.content_length = ValueOf(ch), !.state = "s_chunk_size"]
        /\ Advance /\ NoCall /\ UNCHANGED piece
     \/ ~IsNum(ch) /\ Error

ChunkSize ==
  /\ In("s_chunk_size")
  /\ \/ ch = CR /\ Goto("s_chunk_size_almost_done") /\ Advance /\ NoCall /\ UNCHANGED piece
     \/ ch \in {";", " "} /\ Goto("s_chunk_parameters") /\ Advance /\ NoCall /\ UNCHANGED piece
     \/ /\ IsNum(ch) /\ ~Overflows(parser, 16, ch)
        /\ parser' = [Counted EXCEPT !.content_length = Shifted(parser, 16, ch)]
        /\ Advance /\ NoCall /\ UNCHANGED piece
     \/ IsNum(ch) /\ Overflows(parser, 16, ch) /\ Error
     \/ ~IsNum(ch) /\ ch \notin {CR, ";", " "} /\ Error

ChunkParameters ==
  /\ In("s_chunk_parameters")
  /\ Goto(IF ch = CR THEN "s_chunk_size_almost_done" ELSE "s_chunk_parameters")
  /\ Advance /\ NoCall /\ UNCHANGED piece

\* Seeded fault: the last chunk is one with data.
FaultyChunkSizeAlmostDone ==
  /\ In("s_chunk_size_almost_done") /\ ch = LF
  /\ parser' = [parser EXCEPT !.nread = 0, !.state = "s_chunk_data"]
  /\ Advance /\ NoCall /\ UNCHANGED piece
ChunkSizeAlmostDone ==
  /\ In("s_chunk_size_almost_done")
  /\ \/ /\ ch = LF
        /\ parser' = [parser EXCEPT
             !.nread = 0,
             !.flags = @ \cup (IF parser.content_length = 0 THEN {"TRAILING"} ELSE {}),
             !.state = IF parser.content_length = 0 THEN "s_header_field_start"
                       ELSE "s_chunk_data"]
        /\ Advance /\ NoCall /\ UNCHANGED piece
     \/ ch # LF /\ Error

\* The mark stays when the chunk is over: its last piece goes out with the CR.
ChunkData ==
  /\ In("s_chunk_data")
  /\ LET left == parser.content_length - 1 IN
     parser' = [parser EXCEPT !.content_length = left,
                              !.state = IF left = 0 THEN "s_chunk_data_almost_done" ELSE @]
  /\ Mark /\ Advance /\ NoCall

ChunkDataAlmostDone ==
  /\ In("s_chunk_data_almost_done")
  /\ \/ /\ ch = CR
        /\ Goto("s_chunk_data_done")
        /\ IF piece = Null THEN NoCall ELSE Called(body_cb(Current, piece))
        /\ Unmark /\ Advance
     \/ ch # CR /\ Error

ChunkDataDone ==
  /\ In("s_chunk_data_done")
  /\ \/ /\ ch = LF
        /\ parser' = [parser EXCEPT !.nread = 0, !.state = "s_chunk_size_start"]
        /\ Advance /\ NoCall /\ UNCHANGED piece
     \/ ch # LF /\ Error

\* Seeded fault: a piece of the body is dropped at the end of the data.
FaultyGiven(state, req, bytes) ==
  CASE state = "s_header_field" -> header_field_cb(req, bytes)
    [] state = "s_header_value" -> header_value_cb(req, bytes)
    [] state \in UrlStates -> request_uri_cb(req, bytes)
    [] OTHER -> req
\* The callback that a mark stands for, by the state it was set in
Given(state, req, bytes) ==
  CASE state = "s_header_field" -> header_field_cb(req, bytes)
    [] state = "s_header_value" -> header_value_cb(req, bytes)
    [] state \in UrlStates -> request_uri_cb(req, bytes)
    [] OTHER -> body_cb(req, bytes)
\* The marks left over at the end of the data, and the ones that the next call
\* sets before its first byte
Leftover == Given(parser.state, Current, piece)
EndRead ==
  /\ ~failed /\ ~again /\ piece \notin {Null, <<>>}
  /\ requests' = Front(requests) \o <<Leftover>>
  /\ failed' = (Leftover.bad_request_code > 0)
  /\ UNCHANGED <<keep_alive, complete>>
  /\ piece' = IF parser.state \in {"s_header_field", "s_header_value"} \cup UrlStates
              THEN <<>> ELSE Null
  /\ UNCHANGED <<stream, pos, again, parser>>

Next ==
  \/ HeaderOverflow \/ Dead \/ StartReq \/ ReqMethod
  \/ ReqSpacesBeforeUrl \/ ReqSchema \/ ReqPath
  \/ ReqHttpStart \/ ReqHttpMinor \/ ReqLineAlmostDone
  \/ HeaderFieldStart \/ HeaderField \/ HeaderValueStart \/ HeaderValue
  \/ HeaderAlmostDone \/ HeaderValueLws \/ HeadersAlmostDone \/ HeadersDone
  \/ BodyIdentity \/ MessageDone
  \/ ChunkSizeStart \/ ChunkSize \/ ChunkParameters \/ ChunkSizeAlmostDone
  \/ ChunkData \/ ChunkDataAlmostDone \/ ChunkDataDone
  \/ EndRead

Spec == Init /\ [][Next]_vars

-----------------------------------------------------------------------------
(* The inductive invariant of the parser's asserts: ParserInv.             *)

ChunkStates == {"s_chunk_size_start", "s_chunk_size", "s_chunk_parameters",
                "s_chunk_size_almost_done", "s_chunk_data", "s_chunk_data_almost_done",
                "s_chunk_data_done"}
\* The states that something is said about
Special == ChunkStates \cup {"s_body_identity", "s_header_value"}
ParserStates == Special \cup UrlStates \cup
  {"s_dead", "s_start_req", "s_req_method", "s_req_spaces_before_url",
   "s_req_http_start", "s_req_http_minor", "s_req_line_almost_done", "s_header_field_start",
   "s_header_field", "s_header_value_start", "s_header_almost_done", "s_header_value_lws",
   "s_headers_almost_done", "s_headers_done", "s_message_done"}
HeaderStates == {"h_general", "h_connection", "h_content_length", "h_transfer_encoding",
                 "h_upgrade", "h_transfer_encoding_chunked", "h_connection_keep_alive",
                 "h_connection_close"}
Flags == {"KEEP_ALIVE", "CLOSE", "CHUNKED", "TRAILING", "UPGRADE"}

TypeOK ==
  parser \in [state : ParserStates, header_state : HeaderStates, flags : SUBSET Flags,
              content_length : 0 .. Unlimited, nread : Nat,
              method : [name : Methods, index : Nat], version : Versions \cup {"0.0", "0.9"}]

\* A chunk's size begins on a fresh count.
SizeOK == parser.state = "s_chunk_size_start" => parser.nread = 0 /\ ~again

\* Nothing but the begin of a request clears a flag.
ChunkedOK == parser.state \in ChunkStates => "CHUNKED" \in parser.flags

\* A length that is used is one that was given: the value that stands for none
\* is taken neither from a header nor from the digits of a chunk's size, and the
\* count of a body goes down from it to one.
LengthOK ==
  /\ parser.state \in {"s_chunk_size", "s_chunk_parameters", "s_chunk_size_almost_done"} =>
       parser.content_length # Unlimited
  /\ parser.state \in {"s_body_identity", "s_chunk_data"} =>
       parser.content_length \notin {0, Unlimited}
  /\ parser.state = "s_chunk_data_almost_done" => parser.content_length = 0

ValueOK ==
  parser.state = "s_header_value" =>
    parser.header_state \notin {"h_connection", "h_transfer_encoding"}

ParserInv == TypeOK /\ SizeOK /\ ChunkedOK /\ LengthOK /\ ValueOK
=============================================================================
