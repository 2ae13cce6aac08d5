---------------------------- MODULE HttpReading ----------------------------
(***************************************************************************)
(* What http_parser_execute makes of a stream when every read ends after   *)
(* one byte: a function of the bytes.  The callbacks get one byte each,    *)
(* nothing stays marked, and a byte that is looked at again is finished at *)
(* once.  A callback that fails, like an error, ends it: Refused.  The     *)
(* size of a URL's buffer is left out: it does depend on the cuts.         *)
(***************************************************************************)
EXTENDS HttpParser

\* The sequence that stands for NULL is no piece of a stream.
Byte == STRING \ {"NULL"}
ASSUME StreamsAssumption == \A s \in Streams : s.bytes \in Seq(Byte)

Refused == [state |-> "refused"]

\* The request with the bytes of its URL alone
Erased(req) == [req EXCEPT !.path = [bytes |-> req.path.bytes, buf_size |-> 0]]

At(q, state) == [q EXCEPT !.state = state]
\* A callback left the last request as req.
Hand(q, req) ==
  IF req.ok THEN [q EXCEPT !.requests = Front(@) \o <<Erased(req)>>] ELSE Refused
\* The byte c, marked in the state that q has come to
Taken(q, c) == Hand(q, Given(q.state, Last(q.requests), <<c>>))
EmptyValue(q) == Hand(q, header_value_cb(Last(q.requests), <<>>))

Completed(q) ==
  [q EXCEPT !.state = NewMessage(q), !.complete = TRUE,
            !.requests = Front(@) \o <<[Last(@) EXCEPT !.done = TRUE]>>]

Began(q, c) ==
  [q EXCEPT !.state = "s_req_method", !.flags = {}, !.content_length = Unlimited,
            !.method = FirstLetter(c), !.complete = FALSE, !.requests = Append(@, new_request)]

\* A letter of the method, a byte of the URL
MethodByte(q, c) ==
  LET next == NextMethod(q.method, c) IN
  IF next = "none" THEN Refused
  ELSE [q EXCEPT !.method = [name |-> next, index |-> @.index + 1],
                 !.state = IF MethodOver(q.method, c) THEN "s_req_spaces_before_url"
                           ELSE "s_req_method"]
UrlRead(q, s, c) ==
  LET next == parse_url_char(s, c) IN
  IF next = "s_dead" THEN Refused ELSE Taken(At(q, next), c)
UrlOver(q, c) ==
  IF c = " " THEN At(q, "s_req_http_start")
  ELSE At([q EXCEPT !.version = "0.9"],
          IF c = CR THEN "s_req_line_almost_done" ELSE "s_header_field_start")

\* The line feed after the headers, or after the trailers
HeadOver(q) ==
  LET upgrade == "UPGRADE" \in q.flags \/ q.method.name = "CONNECT"
      chunked == "CHUNKED" \in q.flags
  IN IF upgrade \/ (~chunked /\ q.content_length \in {0, Unlimited}) THEN Completed(q)
     ELSE At(q, IF chunked THEN "s_chunk_size_start" ELSE "s_body_identity")
HeadEnd(q) ==
  LET req == headers_complete_cb(Last(q.requests), q.content_length,
                                 q.content_length = Unlimited, q.version, q.method.name)
      headed == Hand([q EXCEPT !.state = "s_headers_done", !.keep_alive = ShouldKeepAlive(q)], req)
  IN IF "TRAILING" \in q.flags THEN Completed(q)
     ELSE IF headed = Refused THEN Refused ELSE HeadOver(headed)

LineStart(q, c) ==
  IF c = CR THEN At(q, "s_headers_almost_done")
  ELSE IF c = LF THEN HeadEnd(At(q, "s_headers_almost_done"))
  ELSE IF Token(c)
  THEN Taken([q EXCEPT !.state = "s_header_field", !.header_state = NameState(c)], c)
  ELSE Refused

NameByte(q, c) ==
  IF Token(c) THEN Taken([q EXCEPT !.header_state = "h_general"], c)
  ELSE IF c = ":" THEN At(q, "s_header_value_start")
  ELSE IF c = CR THEN At(q, "s_header_almost_done")
  ELSE IF c = LF THEN At(q, "s_header_field_start")
  ELSE Refused

ValueStart(q, c) ==
  LET counts == q.header_state = "h_content_length" IN
  IF c = " " THEN q
  ELSE IF c = CR
  THEN EmptyValue([q EXCEPT !.header_state = "h_general", !.state = "s_header_almost_done"])
  ELSE IF c = LF THEN EmptyValue(At(q, "s_header_field_start"))
  ELSE IF counts /\ ~IsNum(c) THEN Refused
  ELSE Taken([q EXCEPT !.state = "s_header_value",
                            !.header_state = FirstOfValue(@, c),
                            !.content_length = IF counts THEN ValueOf(c) ELSE @,
                            !.flags = @ \cup (IF q.header_state = "h_upgrade" THEN {"UPGRADE"}
                                              ELSE {})], c)

LineEnd(q) == [q EXCEPT !.state = "s_header_value_lws", !.flags = @ \cup FlagsOf(q.header_state)]

ValueByte(q, c) ==
  LET counts == q.header_state = "h_content_length" /\ c # " "
      taken == IsNum(c) /\ ~Overflows(q, 10, c)
  IN IF c = CR THEN At(q, "s_header_almost_done")
     ELSE IF c = LF THEN LineEnd(At(q, "s_header_almost_done"))
     ELSE IF counts /\ ~taken THEN Refused
     ELSE Taken([q EXCEPT !.header_state = NextOfValue(@, c),
                               !.content_length = IF counts THEN Shifted(q, 10, c) ELSE @], c)

IdentityByte(q, c) ==
  LET left == q.content_length - 1
      read == Taken([q EXCEPT !.content_length = left,
                                 !.state = IF left = 0 THEN "s_message_done" ELSE @], c)
  IN IF left = 0 /\ read # Refused THEN Completed(read) ELSE read

SizeByte(q, c) ==
  IF c = CR THEN At(q, "s_chunk_size_almost_done")
  ELSE IF c \in {";", " "} THEN At(q, "s_chunk_parameters")
  ELSE IF IsNum(c) /\ ~Overflows(q, 16, c)
  THEN [q EXCEPT !.content_length = Shifted(q, 16, c)] ELSE Refused

SizeEnd(q) ==
  [q EXCEPT !.flags = @ \cup (IF q.content_length = 0 THEN {"TRAILING"} ELSE {}),
            !.state = IF q.content_length = 0 THEN "s_header_field_start" ELSE "s_chunk_data"]

ChunkByte(q, c) ==
  LET left == q.content_length - 1 IN
  Taken([q EXCEPT !.content_length = left,
                     !.state = IF left = 0 THEN "s_chunk_data_almost_done" ELSE @], c)

\* q, read on by the byte c
Read(q, c) ==
  LET Expect(bytes, state) == IF c \in bytes THEN At(q, state) ELSE Refused IN
  CASE q.state = "s_dead" -> Expect({CR, LF}, "s_dead")
    [] q.state = "s_start_req" ->
         IF c \in DOMAIN FirstMethod THEN Began(q, c) ELSE Expect({CR, LF}, "s_start_req")
    [] q.state = "s_req_method" -> MethodByte(q, c)
    [] q.state = "s_req_spaces_before_url" ->
         IF c = " " THEN q ELSE UrlRead(q, UrlBegin(q.method), c)
    [] q.state \in UrlStarts -> UrlRead(q, q.state, c)
    [] q.state \in UrlEnds ->
         IF c \in {" ", CR, LF} THEN UrlOver(q, c) ELSE UrlRead(q, q.state, c)
    [] q.state = "s_req_http_start" ->
         IF c \in Versions THEN At([q EXCEPT !.version = c], "s_req_http_minor")
         ELSE Expect({" "}, "s_req_http_start")
    [] q.state = "s_req_http_minor" ->
         IF c = CR THEN At(q, "s_req_line_almost_done") ELSE Expect({LF}, "s_header_field_start")
    [] q.state = "s_req_line_almost_done" -> Expect({LF}, "s_header_field_start")
    [] q.state = "s_header_field_start" -> LineStart(q, c)
    [] q.state = "s_header_field" -> NameByte(q, c)
    [] q.state = "s_header_value_start" -> ValueStart(q, c)
    [] q.state = "s_header_value" -> ValueByte(q, c)
    [] q.state = "s_header_almost_done" -> IF c = LF THEN LineEnd(q) ELSE Refused
    [] q.state = "s_header_value_lws" ->
         IF c = " " THEN At(q, "s_header_value_start")
         ELSE LineStart(At(q, "s_header_field_start"), c)
    [] q.state = "s_headers_almost_done" -> IF c = LF THEN HeadEnd(q) ELSE Refused
    [] q.state = "s_headers_done" -> HeadOver(q)
    [] q.state = "s_body_identity" -> IdentityByte(q, c)
    [] q.state = "s_message_done" -> Completed(q)
    [] q.state = "s_chunk_size_start" ->
         IF IsNum(c) THEN [q EXCEPT !.content_length = ValueOf(c), !.state = "s_chunk_size"]
         ELSE Refused
    [] q.state = "s_chunk_size" -> SizeByte(q, c)
    [] q.state = "s_chunk_parameters" ->
         At(q, IF c = CR THEN "s_chunk_size_almost_done" ELSE "s_chunk_parameters")
    [] q.state = "s_chunk_size_almost_done" -> IF c = LF THEN SizeEnd(q) ELSE Refused
    [] q.state = "s_chunk_data" -> ChunkByte(q, c)
    [] q.state = "s_chunk_data_almost_done" -> Expect({CR}, "s_chunk_data_done")
    [] q.state = "s_chunk_data_done" -> Expect({LF}, "s_chunk_size_start")
    [] q.state = "refused" -> Refused

Fresh ==
  [state |-> "s_start_req", header_state |-> "h_general", flags |-> {}, content_length |-> 0,
   method |-> [name |-> "DELETE", index |-> 0], version |-> "0.0", keep_alive |-> FALSE,
   complete |-> FALSE, requests |-> <<>>]

\* What the first p bytes of the stream are read as
Reading ==
  LET upTo[p \in 0 .. Len(stream.bytes)] ==
        IF p = 0 THEN Fresh ELSE Read(upTo[p - 1], stream.bytes[p])
  IN upTo

(***************************************************************************)
(* What the parser has read, whatever is marked handed over                *)
(***************************************************************************)
Kept(reqs) == [i \in DOMAIN reqs |-> Erased(reqs[i])]
Marked == piece \notin {Null, <<>>}
Handed == IF Marked THEN Front(requests) \o <<Leftover>> ELSE requests
Reader(p, keep, over, reqs) ==
  [state |-> p.state, header_state |-> p.header_state, flags |-> p.flags,
   content_length |-> p.content_length, method |-> p.method, version |-> p.version,
   keep_alive |-> keep, complete |-> over, requests |-> reqs]
Known == Reader(parser, keep_alive, complete, Kept(Handed))

\* What the parser fails at and the reader does not: the header is too long, or
\* the read that ended an upgrade went on.
Overran == Counted.nread > MaxHeader
Upgraded == requests # <<>> /\ Current.done
            /\ ("UPGRADE" \in parser.flags \/ parser.method.name = "CONNECT")

\* Wherever the reads cut the bytes, what the parser has read is what these bytes
\* are read as one at a time.  It fails when they are refused, at the latest when
\* a piece is over, and else only for those two reasons.  Only the second makes
\* the cuts matter: what comes in the read that ends an upgrade is an error, what
\* comes in the next one is a request.
CutsDoNotMatter ==
  IF failed THEN Overran \/ Upgraded
                 \/ \E p \in {pos, pos + 1} \cap DOMAIN Reading : Reading[p] = Refused
  ELSE IF Marked /\ ~Leftover.ok THEN Reading[pos] = Refused
  ELSE IF again THEN Read(Known, ch) = Reading[pos + 1]
  ELSE Known = Reading[pos]

-----------------------------------------------------------------------------
(* The inductive invariant of CutsDoNotMatter: ReadingInv.                 *)

\* The states that a mark for a piece of the head is set in: the next call sets
\* it again.  In the others of MarkStates there may be a piece of the body.
HeadMarks == {"s_header_field", "s_header_value"} \cup UrlStates
MarkStates == HeadMarks \cup {"s_body_identity", "s_chunk_data", "s_chunk_data_almost_done"}

\* Nothing is lost or given twice by a call that is given no bytes.
PieceOK ==
  /\ piece \in Seq(Byte) \cup {Null}
  /\ parser.state \notin MarkStates => piece = Null
  /\ parser.state \in HeadMarks => piece # Null
  /\ piece = <<>> => parser.state \in HeadMarks /\ Leftover = Current

Char == Byte \cup {"NULL", "HTTP_", "_", "X"}    \* of which a name is made
RequestOK(r) ==
  /\ r = [x \in DOMAIN new_request |-> r[x]]
  /\ r.path \in [bytes : Seq(Byte), buf_size : 0 .. UriSize + 1]
  /\ r.field \in Seq(Char) /\ r.field # <<>>
  /\ r.field[1] = "NULL" => r.field = Null
  /\ r.value \in Seq(Byte) \cup {Null}
  /\ r.body \in Seq(Byte)
  /\ r.ok = TRUE /\ r.bad_request_code = 0
RequestsOK ==
  /\ Len(requests) \in Nat /\ requests = [i \in 1 .. Len(requests) |-> requests[i]]
  /\ \A i \in 1 .. Len(requests) : RequestOK(requests[i])
  /\ parser.state \notin {"s_start_req", "s_dead"} => Len(requests) > 0

ReadingInv ==
  /\ ~failed => /\ stream.bytes \in Seq(Byte) /\ pos \in 0 .. Len(stream.bytes)
                /\ PieceOK /\ RequestsOK
  /\ CutsDoNotMatter
=============================================================================
