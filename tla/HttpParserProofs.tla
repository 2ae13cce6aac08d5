------------------------- MODULE HttpParserProofs -------------------------
(***************************************************************************)
(* For every stream, every limit and every cut into reads: the asserts of  *)
(* http_parser_execute hold (ParserInv is inductive), and what the parser  *)
(* makes of the bytes does not depend on the cuts (ReadingInv is).         *)
(***************************************************************************)
EXTENDS HttpMessages, SequenceTheorems, WellFoundedInduction, TLAPS

\* The value that stands for no length is more than any digit.
LEMMA UnlimitedIs == Unlimited \in Nat /\ Unlimited > 9
  BY ParserAssumption DEF Unlimited

\* The value of a digit is one.
LEMMA ValueOfDigit ==
  ASSUME NEW c, IsNum(c)
  PROVE  ValueOf(c) \in 0 .. 9
  BY DEF IsNum, ValueOf, Digits, Range

\* A digit more keeps a length 64 bits wide.
LEMMA ShiftedLength ==
  ASSUME TypeOK, NEW base \in Nat, NEW c, IsNum(c)
  PROVE  Shifted(parser, base, c) \in 0 .. Unlimited
<1> DEFINE n == parser.content_length * base + ValueOf(c)
           k == 2 ^ Width
<1>1. parser.content_length \in Nat
  BY UnlimitedIs DEF TypeOK
<1>2. parser.content_length * base \in Nat
  BY <1>1
<1>3. n \in Nat
  BY <1>2, ValueOfDigit
<1>4. k \in Nat /\ k > 0
  BY ParserAssumption
<1> HIDE DEF n, k
<1>5. n % k \in 0 .. k - 1
  BY <1>3, <1>4
<1> QED BY <1>5 DEF Shifted, Unlimited, n, k

\* The loop's head counts a byte and changes nothing else.
LEMMA CountedIs ==
  ASSUME TypeOK
  PROVE  \E n \in Nat : Counted = [parser EXCEPT !.nread = n]
<1>1. parser = [parser EXCEPT !.nread = parser.nread] /\ parser.nread \in Nat
  BY DEF TypeOK
<1> QED BY <1>1 DEF Counted

\* Of the states that nothing is said about only the types matter.
LEMMA PlainStep ==
  ASSUME TypeOK', parser'.state \notin Special
  PROVE  ParserInv'
  BY DEF ParserInv, SizeOK, ChunkedOK, LengthOK, ValueOK, Special, ChunkStates

\* A state that no part of ParserInv speaks of may always be gone to.
LEMMA GotoPlain ==
  ASSUME ParserInv, NEW s \in ParserStates \ Special, Goto(s)
  PROVE  ParserInv'
<1>1. PICK n \in Nat : Counted = [parser EXCEPT !.nread = n]
  BY CountedIs DEF ParserInv
<1>2. TypeOK' /\ parser'.state = s
  BY <1>1 DEF Goto, ParserInv, TypeOK
<1> QED BY <1>2, PlainStep

\* The parser with five of its fields assigned
Assigned(n, s, cl, fl, m) ==
  [parser EXCEPT !.nread = n, !.state = s, !.content_length = cl, !.flags = fl, !.method = m]

\* The fields of a parser that is assigned anew, and their types
LEMMA FieldsSet ==
  ASSUME TypeOK, NEW n \in Nat, NEW s \in ParserStates, NEW cl \in 0 .. Unlimited,
         NEW fl \in SUBSET Flags, NEW m \in [name : Methods, index : Nat],
         parser' = Assigned(n, s, cl, fl, m)
  PROVE  /\ TypeOK'
         /\ parser'.nread = n /\ parser'.state = s /\ parser'.content_length = cl
         /\ parser'.flags = fl /\ parser'.header_state = parser.header_state
<1>1. parser'.nread = n /\ parser'.state = s /\ parser'.content_length = cl
      /\ parser'.flags = fl /\ parser'.header_state = parser.header_state
  BY DEF TypeOK, Assigned
<1>2. TypeOK'
  BY DEF TypeOK, Assigned
<1> QED BY <1>1, <1>2

\* The types of the fields
LEMMA FieldTypes ==
  ASSUME TypeOK
  PROVE  /\ parser.nread \in Nat /\ parser.state \in ParserStates
         /\ parser.content_length \in 0 .. Unlimited
         /\ parser.flags \in SUBSET Flags /\ parser.method \in [name : Methods, index : Nat]
         /\ parser.header_state \in HeaderStates
  BY DEF TypeOK

\* ParserInv speaks of the parser alone.
LEMMA SameParser ==
  ASSUME ParserInv, UNCHANGED <<parser, again>>
  PROVE  ParserInv'
  BY DEF ParserInv, TypeOK, SizeOK, ChunkedOK, LengthOK, ValueOK

\* An error leaves the parser as it is.
LEMMA ErrorStep == ASSUME ParserInv, Error PROVE ParserInv'
  BY SameParser DEF Error

\* The method that a letter begins
LEMMA FirstLetterIs ==
  ASSUME NEW c \in DOMAIN FirstMethod
  PROVE  FirstLetter(c) \in [name : Methods, index : Nat]
<1>1. FirstMethod[c] \in Methods
  BY DEF FirstMethod, Methods, method_strings
<1> QED BY <1>1 DEF FirstLetter
\* The method that a letter goes on with
LEMMA NextMethodIs ==
  ASSUME NEW m, m.name \in Methods, NEW c
  PROVE  NextMethod(m, c) \in Methods \cup {"none"}
<1>1. {"CHECKOUT", "COPY", "MOVE", "MERGE", "MSEARCH", "MKACTIVITY", "SEARCH", "PROPFIND", "PUT",
       "PATCH", "PURGE", "UNSUBSCRIBE", "PROPPATCH"} \subseteq Methods
  BY DEF Methods, method_strings
<1>2. Turned(m.name, m.index, c) \in Methods \cup {"none"}
  BY <1>1 DEF Turned
<1> QED BY <1>2 DEF NextMethod

\* A byte of a URL leads to a state of the URL, or is an error.
LEMMA UrlCharGoes ==
  ASSUME NEW s, NEW c
  PROVE  parse_url_char(s, c) \in UrlStates \cup {"s_dead"}
<1> DEFINE U == UrlStates \cup {"s_dead"}
<1>1. {"s_req_path", "s_req_schema", "s_req_schema_slash", "s_req_schema_slash_slash",
       "s_req_server_start", "s_req_query_string_start", "s_req_server_with_at", "s_req_server",
       "s_req_query_string", "s_req_fragment_start", "s_req_fragment", "s_dead"} \subseteq U
  BY DEF UrlStates
<1>2. s \in Fragments => s \in U
  BY DEF Fragments, UrlStates
<1> HIDE DEF U
<1>3. parse_url_char(s, c) \in U
  BY <1>1, <1>2 DEF parse_url_char
<1> QED BY <1>3 DEF U

\* After a message the parser is at the start of one, or dead.
LEMMA NewMessageIs ==
  ASSUME NEW p PROVE NewMessage(p) \in ParserStates \ Special
  BY DEF NewMessage, ParserStates, Special, ChunkStates

\* The request line
LEMMA RequestLine ==
  ASSUME ParserInv,
         Dead \/ StartReq \/ ReqMethod \/ ReqSpacesBeforeUrl \/ ReqSchema
         \/ ReqPath \/ ReqHttpStart \/ ReqHttpMinor \/ ReqLineAlmostDone
  PROVE  ParserInv'
<1>1. PICK n \in Nat : Counted = [parser EXCEPT !.nread = n]
  BY CountedIs DEF ParserInv
<1>2. CASE Dead
  <2>1. "s_dead" \in ParserStates \ Special
    BY DEF ParserStates, Special, ChunkStates
  <2> QED BY <1>2, <2>1, GotoPlain, ErrorStep DEF Dead
<1>3. CASE StartReq
  <2>1. "s_start_req" \in ParserStates \ Special
    BY DEF ParserStates, Special, ChunkStates
  <2>2. ASSUME ch \in DOMAIN FirstMethod, parser' = Started(ch) PROVE ParserInv'
    <3>1. parser' = Assigned(n, "s_req_method", Unlimited, {}, FirstLetter(ch))
      BY <1>1, <2>2 DEF Started, ParserInv, TypeOK, Assigned
    <3>2. "s_req_method" \in ParserStates \ Special
      BY DEF ParserStates, Special, ChunkStates
    <3>3. Unlimited \in 0 .. Unlimited /\ {} \in SUBSET Flags
      BY UnlimitedIs
    <3>4. TypeOK' /\ parser'.state = "s_req_method"
      BY <2>2, <3>1, <3>2, <3>3, FirstLetterIs, FieldsSet DEF ParserInv
    <3> QED BY <3>2, <3>4, PlainStep
  <2> QED BY <1>3, <2>1, <2>2, GotoPlain, ErrorStep DEF StartReq
<1>4. CASE ReqMethod
  <2>1. {"s_req_method", "s_req_spaces_before_url"} \subseteq ParserStates \ Special
    BY DEF ParserStates, Special, ChunkStates
  <2>2. ASSUME NEW next, next = NextMethod(parser.method, ch), next # "none",
               NEW s \in {"s_req_method", "s_req_spaces_before_url"},
               parser' = [Counted EXCEPT !.method = [name |-> next, index |-> @.index + 1],
                                         !.state = s]
        PROVE  ParserInv'
    <3>1. parser.method.name \in Methods /\ parser.method.index \in Nat
      BY DEF ParserInv, TypeOK
    <3> PICK m : m = [name |-> next, index |-> parser.method.index + 1]
      OBVIOUS
    <3>2. m \in [name : Methods, index : Nat]
      BY <2>2, <3>1, NextMethodIs
    <3>3. parser' = Assigned(n, s, parser.content_length, parser.flags, m)
      BY <1>1, <2>2 DEF ParserInv, TypeOK, Assigned
    <3>4. TypeOK' /\ parser'.state = s
      BY <2>1, <3>2, <3>3, FieldTypes, FieldsSet DEF ParserInv
    <3> QED BY <2>1, <3>4, PlainStep
  <2> QED BY <1>4, <2>2, ErrorStep DEF ReqMethod
<1>u. UrlStates \subseteq ParserStates \ Special
  BY DEF ParserStates, Special, ChunkStates, UrlStates
<1>b. ASSUME NEW s, UrlByte(s) PROVE ParserInv'
  <2>1. parse_url_char(s, ch) \in ParserStates \ Special
    BY <1>b, <1>u, UrlCharGoes DEF UrlByte
  <2> QED BY <1>b, <2>1, GotoPlain DEF UrlByte
<1>5. CASE ReqSpacesBeforeUrl \/ ReqSchema
  <2>1. "s_req_spaces_before_url" \in ParserStates \ Special
    BY DEF ParserStates, Special, ChunkStates
  <2> QED BY <1>5, <1>b, <2>1, GotoPlain, ErrorStep DEF ReqSpacesBeforeUrl, ReqSchema
<1>6. CASE ReqPath
  <2>1. "s_req_http_start" \in ParserStates \ Special
    BY DEF ParserStates, Special, ChunkStates
  <2>2. ASSUME parser' = [Counted EXCEPT !.version = "0.9",
                            !.state = IF ch = CR THEN "s_req_line_almost_done"
                                      ELSE "s_header_field_start"]
        PROVE  ParserInv'
    <3>1. TypeOK' /\ parser'.state \in {"s_req_line_almost_done", "s_header_field_start"}
      BY <1>1, <2>2 DEF ParserInv, TypeOK, ParserStates
    <3> QED BY <3>1, PlainStep DEF Special, ChunkStates
  <2> QED BY <1>6, <1>b, <2>1, <2>2, GotoPlain, ErrorStep DEF ReqPath
<1>7. CASE ReqHttpStart
  <2>1. "s_req_http_start" \in ParserStates \ Special
    BY DEF ParserStates, Special, ChunkStates
  <2>2. ASSUME ch \in Versions,
               parser' = [Counted EXCEPT !.version = ch, !.state = "s_req_http_minor"]
        PROVE  ParserInv'
    <3>1. TypeOK' /\ parser'.state = "s_req_http_minor"
      BY <1>1, <2>2 DEF ParserInv, TypeOK, ParserStates
    <3> QED BY <3>1, PlainStep DEF Special, ChunkStates
  <2> QED BY <1>7, <2>1, <2>2, GotoPlain, ErrorStep DEF ReqHttpStart
<1>8. CASE ReqHttpMinor
  <2>1. {"s_req_line_almost_done", "s_header_field_start"} \subseteq ParserStates \ Special
    BY DEF ParserStates, Special, ChunkStates
  <2> QED BY <1>8, <2>1, GotoPlain, ErrorStep DEF ReqHttpMinor
<1>9. CASE ReqLineAlmostDone
  <2>1. "s_header_field_start" \in ParserStates \ Special
    BY DEF ParserStates, Special, ChunkStates
  <2> QED BY <1>9, <2>1, GotoPlain, ErrorStep DEF ReqLineAlmostDone
<1> QED BY <1>2, <1>3, <1>4, <1>5, <1>6, <1>7, <1>8, <1>9

\* The first byte of a value resolves header_state.
LEMMA ResolvedFirst ==
  ASSUME NEW hs, NEW c
  PROVE  FirstOfValue(hs, c) \in HeaderStates \ {"h_connection", "h_transfer_encoding"}
  BY DEF FirstOfValue, HeaderStates

\* A header_state that is resolved stays so over the bytes of a value.
LEMMA StaysResolved ==
  ASSUME NEW hs \in HeaderStates \ {"h_connection", "h_transfer_encoding"}, NEW c
  PROVE  NextOfValue(hs, c) \in HeaderStates \ {"h_connection", "h_transfer_encoding"}
  BY DEF NextOfValue, HeaderStates

\* A step inside of a value, with header_state resolved
LEMMA ValueStep ==
  ASSUME TypeOK', parser'.state = "s_header_value",
         parser'.header_state \notin {"h_connection", "h_transfer_encoding"}
  PROVE  ParserInv'
  BY DEF ParserInv, SizeOK, ChunkedOK, LengthOK, ValueOK, ChunkStates

\* The lines of a header keep ParserInv.
LEMMA HeaderLines ==
  ASSUME ParserInv,
         HeaderFieldStart \/ HeaderField \/ HeaderValueStart \/ HeaderValue
         \/ HeaderAlmostDone \/ HeaderValueLws
  PROVE  ParserInv'
<1>1. PICK n \in Nat : Counted = [parser EXCEPT !.nread = n]
  BY CountedIs DEF ParserInv
<1>p. {"s_headers_almost_done", "s_header_field", "s_header_field_start", "s_header_almost_done",
       "s_header_value_start", "s_header_value_lws"} \subseteq ParserStates \ Special
  BY DEF ParserStates, Special, ChunkStates
<1>2. CASE HeaderFieldStart
  <2>1. ASSUME parser' = [Counted EXCEPT !.state = "s_header_field",
                                         !.header_state = NameState(ch)]
        PROVE  ParserInv'
    <3>1. NameState(ch) \in HeaderStates
      BY DEF NameState, HeaderStates
    <3>2. TypeOK' /\ parser'.state = "s_header_field"
      BY <1>1, <1>p, <2>1, <3>1 DEF ParserInv, TypeOK
    <3> QED BY <1>p, <3>2, PlainStep
  <2> QED BY <1>2, <1>p, <2>1, GotoPlain, ErrorStep DEF HeaderFieldStart
<1>3. CASE HeaderField
  <2>1. ASSUME In("s_header_field"), parser' = [Counted EXCEPT !.header_state = "h_general"]
        PROVE  ParserInv'
    <3>1. TypeOK' /\ parser'.state = "s_header_field"
      BY <1>1, <2>1 DEF ParserInv, TypeOK, HeaderStates, In
    <3> QED BY <1>p, <3>1, PlainStep
  <2>2. ASSUME Goto(CASE ch = ":" -> "s_header_value_start" [] ch = CR -> "s_header_almost_done"
                      [] OTHER -> "s_header_field_start")
        PROVE  ParserInv'
    BY <1>p, <2>2, GotoPlain
  <2> QED BY <1>3, <2>1, <2>2, ErrorStep DEF HeaderField
<1>4. CASE HeaderValueStart
  <2>1. ASSUME parser' = [Counted EXCEPT !.header_state = "h_general",
                                         !.state = "s_header_almost_done"]
        PROVE  ParserInv'
    <3>1. TypeOK' /\ parser'.state = "s_header_almost_done"
      BY <1>1, <1>p, <2>1 DEF ParserInv, TypeOK, HeaderStates
    <3> QED BY <1>p, <3>1, PlainStep
  <2>2. ASSUME parser.header_state = "h_content_length" => IsNum(ch),
               parser' = [Counted EXCEPT
                            !.state = "s_header_value",
                            !.header_state = FirstOfValue(@, ch),
                            !.content_length =
                              IF parser.header_state = "h_content_length" THEN ValueOf(ch) ELSE @,
                            !.flags = @ \cup (IF parser.header_state = "h_upgrade"
                                              THEN {"UPGRADE"} ELSE {})]
        PROVE  ParserInv'
    <3> DEFINE hs == FirstOfValue(parser.header_state, ch)
               cl == IF parser.header_state = "h_content_length" THEN ValueOf(ch)
                     ELSE parser.content_length
               fl == parser.flags \cup (IF parser.header_state = "h_upgrade"
                                        THEN {"UPGRADE"} ELSE {})
    <3>1. hs \in HeaderStates \ {"h_connection", "h_transfer_encoding"}
      BY ResolvedFirst
    <3>2. cl \in 0 .. Unlimited
      BY <2>2, ValueOfDigit, UnlimitedIs DEF ParserInv, TypeOK
    <3>3. fl \in SUBSET Flags
      BY DEF ParserInv, TypeOK, Flags
    <3>4. parser' = [parser EXCEPT !.nread = n, !.state = "s_header_value", !.header_state = hs,
                                   !.content_length = cl, !.flags = fl]
      BY <1>1, <2>2 DEF ParserInv, TypeOK
    <3>5. "s_header_value" \in ParserStates
      BY DEF ParserStates, Special
    <3> HIDE DEF hs, cl, fl
    <3>6. TypeOK' /\ parser'.state = "s_header_value" /\ parser'.header_state = hs
      BY <3>1, <3>2, <3>3, <3>4, <3>5 DEF ParserInv, TypeOK
    <3> QED BY <3>1, <3>6, ValueStep
  <2> QED BY <1>4, <1>p, <2>1, <2>2, GotoPlain, ErrorStep DEF HeaderValueStart
<1>5. CASE HeaderValue
  <2> DEFINE counts == parser.header_state = "h_content_length" /\ ch \notin {" ", CR, LF}
             taken == IsNum(ch) /\ ~Overflows(parser, 10, ch)
  <2>1. ASSUME In("s_header_value"), counts => taken,
               parser' = [Counted EXCEPT
                            !.header_state = NextOfValue(@, ch),
                            !.content_length = IF counts THEN Shifted(parser, 10, ch) ELSE @]
        PROVE  ParserInv'
    <3> DEFINE hs == NextOfValue(parser.header_state, ch)
               cl == IF counts THEN Shifted(parser, 10, ch) ELSE parser.content_length
    <3>1. hs \in HeaderStates \ {"h_connection", "h_transfer_encoding"}
      BY <2>1, StaysResolved DEF ParserInv, TypeOK, ValueOK, In
    <3>2. cl \in 0 .. Unlimited
      BY <2>1, ShiftedLength DEF ParserInv, TypeOK
    <3>3. parser' = [parser EXCEPT !.nread = n, !.header_state = hs, !.content_length = cl]
      BY <1>1, <2>1 DEF ParserInv, TypeOK
    <3> HIDE DEF hs, cl
    <3>4. TypeOK' /\ parser'.state = "s_header_value" /\ parser'.header_state = hs
      BY <2>1, <3>1, <3>2, <3>3 DEF ParserInv, TypeOK, In
    <3> QED BY <3>1, <3>4, ValueStep
  <2> QED BY <1>5, <1>p, <2>1, GotoPlain, ErrorStep DEF HeaderValue
<1>6. CASE HeaderAlmostDone
  <2>1. ASSUME parser' = [Counted EXCEPT !.state = "s_header_value_lws",
                                         !.flags = @ \cup FlagsOf(parser.header_state)]
        PROVE  ParserInv'
    <3>1. FlagsOf(parser.header_state) \subseteq Flags
      BY DEF FlagsOf, Flags
    <3>2. TypeOK' /\ parser'.state = "s_header_value_lws"
      BY <1>1, <1>p, <2>1, <3>1 DEF ParserInv, TypeOK
    <3> QED BY <1>p, <3>2, PlainStep
  <2> QED BY <1>6, <2>1, ErrorStep DEF HeaderAlmostDone
<1>7. CASE HeaderValueLws
  BY <1>7, <1>p, GotoPlain DEF HeaderValueLws
<1> QED BY <1>2, <1>3, <1>4, <1>5, <1>6, <1>7

\* The end of the headers decides how the body is read.
LEMMA HeadersEnd ==
  ASSUME ParserInv, HeadersAlmostDone \/ HeadersDone \/ MessageDone
  PROVE  ParserInv'
<1>1. PICK n \in Nat : Counted = [parser EXCEPT !.nread = n]
  BY CountedIs DEF ParserInv
<1>p. {"s_headers_done"} \subseteq ParserStates \ Special
  BY DEF ParserStates, Special, ChunkStates
<1>2. CASE HeadersAlmostDone
  BY <1>2, <1>p, NewMessageIs, GotoPlain, ErrorStep DEF HeadersAlmostDone
<1>3. CASE HeadersDone
  <2>1. again' = FALSE
    BY <1>3 DEF HeadersDone, Advance
  <2>2. ASSUME parser' = [Counted EXCEPT !.nread = 0, !.state = NewMessage(parser)]
        PROVE  ParserInv'
    <3>1. TypeOK' /\ parser'.state = NewMessage(parser)
      BY <1>1, <2>2, NewMessageIs DEF ParserInv, TypeOK
    <3> QED BY <3>1, NewMessageIs, PlainStep
  <2>3. ASSUME "CHUNKED" \in parser.flags,
               parser' = [Counted EXCEPT !.nread = 0, !.state = "s_chunk_size_start"]
        PROVE  ParserInv'
    <3>1. "s_chunk_size_start" \in ParserStates
      BY DEF ParserStates, Special, ChunkStates
    <3>2. parser' = Assigned(0, "s_chunk_size_start", parser.content_length, parser.flags,
                             parser.method)
      BY <1>1, <2>3 DEF ParserInv, TypeOK, Assigned
    <3>3. TypeOK' /\ parser'.state = "s_chunk_size_start" /\ parser'.nread = 0
          /\ "CHUNKED" \in parser'.flags
      BY <2>3, <3>1, <3>2, FieldTypes, FieldsSet DEF ParserInv
    <3> QED BY <2>1, <3>3 DEF ParserInv, SizeOK, ChunkedOK, LengthOK, ValueOK
  <2>4. ASSUME ~NoContent,
               parser' = [Counted EXCEPT !.nread = 0, !.state = "s_body_identity"]
        PROVE  ParserInv'
    <3>1. "s_body_identity" \in ParserStates
      BY DEF ParserStates, Special
    <3>2. parser' = Assigned(0, "s_body_identity", parser.content_length, parser.flags,
                             parser.method)
      BY <1>1, <2>4 DEF ParserInv, TypeOK, Assigned
    <3>3. TypeOK' /\ parser'.state = "s_body_identity"
          /\ parser'.content_length \notin {0, Unlimited}
      BY <2>4, <3>1, <3>2, FieldTypes, FieldsSet DEF ParserInv, NoContent
    <3> QED BY <3>3 DEF ParserInv, SizeOK, ChunkedOK, LengthOK, ValueOK, ChunkStates, Unlimited
  <2> QED BY <1>3, <2>2, <2>3, <2>4 DEF HeadersDone
<1>4. CASE MessageDone
  BY <1>4, NewMessageIs, GotoPlain DEF MessageDone
<1> QED BY <1>2, <1>3, <1>4

\* Each byte of a body counts its length down.
LEMMA IdentityBody ==
  ASSUME ParserInv, BodyIdentity
  PROVE  ParserInv'
<1> DEFINE left == parser.content_length - 1
<1>1. parser.content_length \in 0 .. Unlimited /\ parser.content_length \notin {0, Unlimited}
  BY DEF BodyIdentity, In, ParserInv, TypeOK, LengthOK
<1>2. left \in 0 .. Unlimited /\ left # Unlimited
  BY <1>1, UnlimitedIs
<1> HIDE DEF left
<1>3. ASSUME left > 0, parser' = [parser EXCEPT !.content_length = left]
      PROVE  ParserInv'
  <2>1. TypeOK' /\ parser'.state = "s_body_identity" /\ parser'.content_length = left
    BY <1>2, <1>3 DEF BodyIdentity, In, ParserInv, TypeOK
  <2>2. parser'.content_length \notin {0, Unlimited}'
    BY <1>2, <1>3, <2>1 DEF Unlimited
  <2> QED BY <2>1, <2>2 DEF ParserInv, SizeOK, ChunkedOK, LengthOK, ValueOK, ChunkStates
<1>4. ASSUME parser' = [parser EXCEPT !.content_length = 0, !.state = "s_message_done"]
      PROVE  ParserInv'
  <2>1. "s_message_done" \in ParserStates \ Special
    BY DEF ParserStates, Special, ChunkStates
  <2>2. parser' = Assigned(parser.nread, "s_message_done", 0, parser.flags, parser.method)
    BY <1>4 DEF ParserInv, TypeOK, Assigned
  <2>3. 0 \in 0 .. Unlimited
    BY UnlimitedIs
  <2>4. TypeOK' /\ parser'.state = "s_message_done"
    BY <2>1, <2>2, <2>3, FieldTypes, FieldsSet DEF ParserInv
  <2> QED BY <2>1, <2>4, PlainStep
<1> QED BY <1>3, <1>4 DEF BodyIdentity, left

\* A step from one state of the chunks to another, but to a first digit
LEMMA ChunkStep ==
  ASSUME TypeOK', parser'.state \in ChunkStates, "CHUNKED" \in parser'.flags, LengthOK',
         parser'.state = "s_chunk_size_start" => parser'.nread = 0 /\ ~again'
  PROVE  ParserInv'
  BY DEF ParserInv, SizeOK, ChunkedOK, ValueOK, ChunkStates

\* The digits of a chunk's size keep ParserInv.
LEMMA ChunkSizes ==
  ASSUME ParserInv, ChunkSizeStart \/ ChunkSize \/ ChunkParameters
  PROVE  ParserInv'
<1>1. PICK n \in Nat : Counted = [parser EXCEPT !.nread = n]
  BY CountedIs DEF ParserInv
<1>p. {"s_chunk_size", "s_chunk_parameters", "s_chunk_size_almost_done"}
        \subseteq ParserStates \cap ChunkStates
  BY DEF ParserStates, Special, ChunkStates
<1>c. "CHUNKED" \in parser.flags
  BY DEF ChunkSizeStart, ChunkSize, ChunkParameters, In, ParserInv, ChunkedOK, ChunkStates
<1>2. ASSUME NEW s \in {"s_chunk_size", "s_chunk_parameters", "s_chunk_size_almost_done"},
             NEW cl \in 0 .. Unlimited, cl # Unlimited,
             parser' = [Counted EXCEPT !.state = s, !.content_length = cl]
      PROVE  ParserInv'
  <2>1. parser' = Assigned(n, s, cl, parser.flags, parser.method)
    BY <1>1, <1>2 DEF ParserInv, TypeOK, Assigned
  <2>2. TypeOK' /\ parser'.state = s /\ parser'.content_length = cl
        /\ parser'.flags = parser.flags
    BY <1>2, <1>p, <2>1, FieldTypes, FieldsSet DEF ParserInv
  <2>3. LengthOK'
    BY <1>2, <2>2 DEF LengthOK, Unlimited
  <2> QED BY <1>2, <1>c, <1>p, <2>2, <2>3, ChunkStep
<1>3. CASE ChunkSizeStart
  <2>1. ASSUME IsNum(ch),
               parser' = [Counted EXCEPT !.content_length = ValueOf(ch), !.state = "s_chunk_size"]
        PROVE  ParserInv'
    <3>1. ValueOf(ch) \in 0 .. Unlimited /\ ValueOf(ch) # Unlimited
      BY <2>1, ValueOfDigit, UnlimitedIs
    <3>2. parser' = [Counted EXCEPT !.state = "s_chunk_size", !.content_length = ValueOf(ch)]
      BY <2>1
    <3> QED BY <1>2, <3>1, <3>2
  <2> QED BY <1>3, <2>1, ErrorStep DEF ChunkSizeStart
<1>4. ASSUME NEW s \in {"s_chunk_size_almost_done", "s_chunk_parameters"}, Goto(s),
             parser.content_length # Unlimited
      PROVE  ParserInv'
  <2>1. parser' = [Counted EXCEPT !.state = s, !.content_length = parser.content_length]
    BY <1>1, <1>4 DEF Goto, ParserInv, TypeOK
  <2>2. parser.content_length \in 0 .. Unlimited
    BY DEF ParserInv, TypeOK
  <2> QED BY <1>2, <1>4, <2>1, <2>2
<1>5. CASE ChunkSize
  <2>1. parser.content_length # Unlimited
    BY <1>5 DEF ChunkSize, In, ParserInv, LengthOK
  <2>2. ASSUME IsNum(ch), ~Overflows(parser, 16, ch),
               parser' = [Counted EXCEPT !.content_length = Shifted(parser, 16, ch)]
        PROVE  ParserInv'
    <3>1. /\ Shifted(parser, 16, ch) \in 0 .. Unlimited
          /\ Shifted(parser, 16, ch) # Unlimited
      BY <2>2, ShiftedLength DEF Overflows, ParserInv
    <3>2. Counted.state = "s_chunk_size"
      BY <1>1, <1>5 DEF ChunkSize, In, ParserInv, TypeOK
    <3>3. parser' = [Counted EXCEPT !.state = "s_chunk_size",
                                    !.content_length = Shifted(parser, 16, ch)]
      BY <1>1, <2>2, <3>2 DEF ParserInv, TypeOK
    <3> QED BY <1>2, <3>1, <3>3
  <2> QED BY <1>4, <1>5, <2>1, <2>2, ErrorStep DEF ChunkSize
<1>6. CASE ChunkParameters
  <2>1. parser.content_length # Unlimited
    BY <1>6 DEF ChunkParameters, In, ParserInv, LengthOK
  <2> QED BY <1>4, <1>6, <2>1 DEF ChunkParameters
<1> QED BY <1>3, <1>5, <1>6

\* The bytes of a chunk keep ParserInv.
LEMMA ChunkBodies ==
  ASSUME ParserInv,
         ChunkSizeAlmostDone \/ ChunkData \/ ChunkDataAlmostDone \/ ChunkDataDone
  PROVE  ParserInv'
<1>1. PICK n \in Nat : Counted = [parser EXCEPT !.nread = n]
  BY CountedIs DEF ParserInv
<1>p. {"s_chunk_data", "s_chunk_data_almost_done", "s_chunk_data_done", "s_chunk_size_start"}
        \subseteq ParserStates \cap ChunkStates
  BY DEF ParserStates, Special, ChunkStates
<1>c. "CHUNKED" \in parser.flags
  BY DEF ChunkSizeAlmostDone, ChunkData, ChunkDataAlmostDone, ChunkDataDone, In, ParserInv,
         ChunkedOK, ChunkStates
<1>2. CASE ChunkSizeAlmostDone
  <2>1. ASSUME parser.content_length = 0,
               parser' = [parser EXCEPT !.nread = 0, !.flags = @ \cup {"TRAILING"},
                                        !.state = "s_header_field_start"]
        PROVE  ParserInv'
    <3>1. "s_header_field_start" \in ParserStates \ Special
      BY DEF ParserStates, Special, ChunkStates
    <3>2. TypeOK' /\ parser'.state = "s_header_field_start"
      BY <2>1, <3>1 DEF ParserInv, TypeOK, Flags
    <3> QED BY <3>1, <3>2, PlainStep
  <2>2. ASSUME parser.content_length # 0, parser.content_length # Unlimited,
               parser' = [parser EXCEPT !.nread = 0, !.flags = @ \cup {},
                                        !.state = "s_chunk_data"]
        PROVE  ParserInv'
    <3>1. TypeOK' /\ parser'.state = "s_chunk_data" /\ parser'.flags = parser.flags
          /\ parser'.content_length = parser.content_length
      BY <1>p, <2>2 DEF ParserInv, TypeOK
    <3>2. LengthOK'
      BY <2>2, <3>1 DEF LengthOK, Unlimited
    <3> QED BY <1>c, <1>p, <3>1, <3>2, ChunkStep
  <2>3. parser.content_length # Unlimited
    BY <1>2 DEF ChunkSizeAlmostDone, In, ParserInv, LengthOK
  <2> QED BY <1>2, <2>1, <2>2, <2>3, ErrorStep DEF ChunkSizeAlmostDone
<1>3. CASE ChunkData
  <2> DEFINE left == parser.content_length - 1
             s == IF left = 0 THEN "s_chunk_data_almost_done" ELSE "s_chunk_data"
  <2>1. parser.content_length \in 0 .. Unlimited /\ parser.content_length \notin {0, Unlimited}
    BY <1>3 DEF ChunkData, In, ParserInv, TypeOK, LengthOK
  <2>2. left \in 0 .. Unlimited /\ left # Unlimited
    BY <2>1, UnlimitedIs
  <2>3. parser' = [parser EXCEPT !.content_length = left, !.state = s]
    BY <1>3 DEF ChunkData, In, ParserInv, TypeOK
  <2>4. s \in {"s_chunk_data", "s_chunk_data_almost_done"} /\ (left = 0 <=> s # "s_chunk_data")
    OBVIOUS
  <2> HIDE DEF left, s
  <2>5. TypeOK' /\ parser'.state = s /\ parser'.content_length = left
        /\ parser'.flags = parser.flags
    BY <1>p, <2>2, <2>3, <2>4 DEF ParserInv, TypeOK, Unlimited
  <2>6. LengthOK'
    BY <2>2, <2>4, <2>5 DEF LengthOK, Unlimited
  <2> QED BY <1>c, <1>p, <2>4, <2>5, <2>6, ChunkStep
<1>4. CASE ChunkDataAlmostDone
  <2>1. ASSUME Goto("s_chunk_data_done") PROVE ParserInv'
    <3>1. TypeOK' /\ parser'.state = "s_chunk_data_done" /\ parser'.flags = parser.flags
      BY <1>1, <1>p, <2>1 DEF Goto, ParserInv, TypeOK
    <3>2. LengthOK'
      BY <3>1 DEF LengthOK
    <3> QED BY <1>c, <1>p, <3>1, <3>2, ChunkStep
  <2> QED BY <1>4, <2>1, ErrorStep DEF ChunkDataAlmostDone
<1>5. CASE ChunkDataDone
  <2>1. ASSUME parser' = [parser EXCEPT !.nread = 0, !.state = "s_chunk_size_start"], Advance
        PROVE  ParserInv'
    <3>1. TypeOK' /\ parser'.state = "s_chunk_size_start" /\ parser'.flags = parser.flags
          /\ parser'.nread = 0
      BY <1>p, <2>1 DEF ParserInv, TypeOK
    <3>2. LengthOK' /\ ~again'
      BY <2>1, <3>1 DEF LengthOK, Advance
    <3> QED BY <1>c, <1>p, <3>1, <3>2, ChunkStep
  <2> QED BY <1>5, <2>1, ErrorStep DEF ChunkDataDone
<1> QED BY <1>2, <1>3, <1>4, <1>5

\* ParserInv is an invariant: every step of the parser keeps what its asserts
\* rest on.
THEOREM ParserInvariance == Spec => []ParserInv
<1>0. "DELETE" \in Methods
  BY DEF Methods, method_strings
<1>1. Init => ParserInv
  BY <1>0, UnlimitedIs DEF Init, ParserInv, TypeOK, SizeOK, ChunkedOK, LengthOK, ValueOK, ParserStates,
     Special, ChunkStates, HeaderStates, Flags
<1>2. ParserInv /\ [Next]_vars => ParserInv'
  <2> SUFFICES ASSUME ParserInv, [Next]_vars PROVE ParserInv'
    OBVIOUS
  <2>1. CASE HeaderOverflow
    BY <2>1, ErrorStep DEF HeaderOverflow
  <2>2. CASE EndRead
    BY <2>2, SameParser DEF EndRead
  <2>3. CASE UNCHANGED vars
    BY <2>3, SameParser DEF vars
  <2> QED BY <2>1, <2>2, <2>3, RequestLine, HeaderLines, HeadersEnd, IdentityBody, ChunkSizes,
             ChunkBodies DEF Next
<1> QED BY <1>1, <1>2, PTL DEF Spec

\* No assert of http_parser_execute fails, whatever bytes come in whatever
\* pieces: a chunk's size starts on a fresh count of header bytes, a body that is
\* read has a length, and header_state is resolved when a value is read.
THEOREM ParserAssertsHold == Spec => []NoAssertFails
<1>1. ParserInv => NoAssertFails
  <2> SUFFICES ASSUME ParserInv PROVE NoAssertFails
    OBVIOUS
  <2>1. ASSUME parser.state = "s_chunk_size_start" PROVE Counted.nread = 1
    BY <2>1 DEF ParserInv, TypeOK, SizeOK, Counted, BodyStates
  <2> QED BY <2>1 DEF NoAssertFails, ParserInv, ChunkedOK, LengthOK, ValueOK, ChunkStates
<1> QED BY <1>1, ParserInvariance, PTL

-----------------------------------------------------------------------------
(* Sequences: the last request is replaced, a piece grows.                 *)

IsSequence(rs) == Len(rs) \in Nat /\ rs = [i \in 1 .. Len(rs) |-> rs[i]]
Swapped(rs, x) == [i \in 1 .. Len(rs) |-> IF i = Len(rs) THEN x ELSE rs[i]]

\* To replace the last element is to append to the front.
LEMMA SwapLast ==
  ASSUME NEW rs, IsSequence(rs), Len(rs) > 0, NEW x
  PROVE  Front(rs) \o <<x>> = Swapped(rs, x)
<1> DEFINE S == {rs[i] : i \in 1 .. Len(rs)} \cup {x}
           n == Len(rs)
<1>1. rs \in Seq(S) /\ x \in S
  BY DEF IsSequence
<1>2. n \in Nat /\ n > 0
  BY DEF IsSequence
<1> HIDE DEF S
<1>a. PICK m \in Int : m = n - 1
  BY <1>2
<1>b. Front(rs) = SubSeq(rs, 1, m)
  BY <1>a DEF Front
<1>c. \A i \in 1 .. m : rs[i] \in S
  BY <1>1, <1>2, <1>a
<1>d. /\ SubSeq(rs, 1, m) \in Seq(S)
      /\ Len(SubSeq(rs, 1, m)) = IF 1 <= m THEN m - 1 + 1 ELSE 0
      /\ \A i \in 1 .. m - 1 + 1 : SubSeq(rs, 1, m)[i] = rs[1 + i - 1]
  BY <1>c, SubSeqProperties
<1>3. Front(rs) \in Seq(S) /\ Len(Front(rs)) = m
      /\ \A i \in 1 .. m : Front(rs)[i] = rs[i]
  BY <1>a, <1>b, <1>d, <1>2
<1>4. Front(rs) \o <<x>> \in Seq(S) /\ Len(Front(rs) \o <<x>>) = n
      /\ \A i \in 1 .. n : (Front(rs) \o <<x>>)[i] = IF i = n THEN x ELSE rs[i]
  BY <1>1, <1>2, <1>3, <1>a
<1>5. Swapped(rs, x) \in Seq(S) /\ Len(Swapped(rs, x)) = n
      /\ \A i \in 1 .. n : Swapped(rs, x)[i] = IF i = n THEN x ELSE rs[i]
  BY <1>1, <1>2 DEF Swapped
<1> DEFINE t == Front(rs) \o <<x>>
           u == Swapped(rs, x)
<1>6. t \in Seq(S) /\ u \in Seq(S) /\ Len(t) = Len(u)
  BY <1>4, <1>5
<1>7. \A i \in 1 .. Len(t) : t[i] = u[i]
  BY <1>4, <1>5
<1> HIDE DEF t, u
<1>8. t = u
  BY <1>6, <1>7, SeqEqual
<1> QED BY <1>8 DEF t, u

\* The last element is another one, the others are the same.
LEMMA SwappedIs ==
  ASSUME NEW rs, IsSequence(rs), Len(rs) > 0, NEW x
  PROVE  /\ IsSequence(Swapped(rs, x)) /\ Len(Swapped(rs, x)) = Len(rs)
         /\ Last(Swapped(rs, x)) = x
         /\ \A i \in 1 .. Len(rs) : Swapped(rs, x)[i] = IF i = Len(rs) THEN x ELSE rs[i]
<1> DEFINE n == Len(rs)
<1>1. n \in Nat /\ n > 0
  BY DEF IsSequence
<1>2. Len(Swapped(rs, x)) = n
  BY <1>1 DEF Swapped
<1>3. \A i \in 1 .. n : Swapped(rs, x)[i] = IF i = n THEN x ELSE rs[i]
  BY DEF Swapped
<1>4. Last(Swapped(rs, x)) = x
  BY <1>1, <1>2, <1>3 DEF Last
<1>5. IsSequence(Swapped(rs, x))
  BY <1>1, <1>2, <1>3 DEF IsSequence, Swapped
<1> QED BY <1>2, <1>3, <1>4, <1>5

\* The last one put there stays.
LEMMA SwapTwice ==
  ASSUME NEW rs, IsSequence(rs), Len(rs) > 0, NEW x, NEW y
  PROVE  Swapped(Swapped(rs, x), y) = Swapped(rs, y)
<1>1. Len(Swapped(rs, x)) = Len(rs)
  BY SwappedIs
<1>2. \A i \in 1 .. Len(rs) : Swapped(rs, x)[i] = IF i = Len(rs) THEN x ELSE rs[i]
  BY SwappedIs
<1> QED BY <1>1, <1>2 DEF Swapped

\* To put the last element in its own place changes nothing.
LEMMA SwapSame ==
  ASSUME NEW rs, IsSequence(rs), Len(rs) > 0
  PROVE  Swapped(rs, Last(rs)) = rs
  BY DEF IsSequence, Swapped, Last

\* What is kept of a sequence of requests is kept of each.
LEMMA KeptIs ==
  ASSUME NEW rs, IsSequence(rs)
  PROVE  /\ IsSequence(Kept(rs)) /\ Len(Kept(rs)) = Len(rs)
         /\ Kept(rs) = [i \in 1 .. Len(rs) |-> Erased(rs[i])]
         /\ Len(rs) > 0 => Last(Kept(rs)) = Erased(Last(rs))
<1> DEFINE n == Len(rs)
<1>1. n \in Nat /\ DOMAIN rs = 1 .. n
  BY DEF IsSequence
<1>2. Kept(rs) = [i \in 1 .. n |-> Erased(rs[i])]
  BY <1>1 DEF Kept
<1>3. Len(Kept(rs)) = n
  BY <1>1, <1>2
<1>4. IsSequence(Kept(rs))
  BY <1>1, <1>2, <1>3 DEF IsSequence
<1>5. n > 0 => Last(Kept(rs)) = Erased(Last(rs))
  BY <1>1, <1>2, <1>3 DEF Last
<1> QED BY <1>2, <1>3, <1>4, <1>5

\* Erasing goes over the replacement of the last request.
LEMMA KeptSwapped ==
  ASSUME NEW rs, IsSequence(rs), Len(rs) > 0, NEW x
  PROVE  Kept(Swapped(rs, x)) = Swapped(Kept(rs), Erased(x))
<1>1. \A i \in 1 .. Len(rs) : Swapped(rs, x)[i] = IF i = Len(rs) THEN x ELSE rs[i]
  BY SwappedIs
<1>2. Kept(Swapped(rs, x)) = [i \in 1 .. Len(rs) |-> Erased(Swapped(rs, x)[i])]
  BY SwappedIs, KeptIs
<1>3. Kept(rs) = [i \in 1 .. Len(rs) |-> Erased(rs[i])] /\ Len(Kept(rs)) = Len(rs)
  BY KeptIs
<1> QED BY <1>1, <1>2, <1>3 DEF Swapped

-----------------------------------------------------------------------------
(* The callbacks: a piece more, and the size of a buffer left out.         *)

Fields == {"path", "field", "value", "last_header_element", "num_headers", "environ", "body",
           "body_type", "body_length", "bad_request_code", "ok", "headed", "done"}
Shaped(r) == r = [x \in Fields |-> r[x]]

\* The fields of a request are those of a new one.
LEMMA FieldsAre == DOMAIN new_request = Fields
  BY DEF new_request, Fields

\* What a request is, by its fields
Sound(path, field, value, body, code, ok) ==
  /\ path \in [bytes : Seq(Byte), buf_size : 0 .. UriSize + 1]
  /\ field \in Seq(Char) /\ field # <<>> /\ (field[1] = "NULL" => field = Null)
  /\ value \in Seq(Byte) \cup {Null}
  /\ body \in Seq(Byte)
  /\ ok = TRUE /\ code = 0

\* RequestOK speaks of six fields only.
LEMMA RequestIs ==
  ASSUME NEW r
  PROVE  RequestOK(r) <=>
           Shaped(r) /\ Sound(r.path, r.field, r.value, r.body, r.bad_request_code, r.ok)
  BY FieldsAre DEF RequestOK, Shaped, Sound

\* Erasing touches the path alone.
LEMMA ErasedIs ==
  ASSUME NEW r, RequestOK(r)
  PROVE  /\ Erased(r).path = [bytes |-> r.path.bytes, buf_size |-> 0]
         /\ Erased(r).field = r.field /\ Erased(r).value = r.value
         /\ Erased(r).last_header_element = r.last_header_element
         /\ Erased(r).num_headers = r.num_headers /\ Erased(r).environ = r.environ
         /\ Erased(r).body = r.body /\ Erased(r).body_type = r.body_type
         /\ Erased(r).body_length = r.body_length
         /\ Erased(r).bad_request_code = r.bad_request_code /\ Erased(r).ok = r.ok
         /\ Erased(r).headed = r.headed /\ Erased(r).done = r.done
  BY RequestIs DEF Erased, Shaped, Fields


\* Two sequences, one after the other
LEMMA Joined ==
  ASSUME NEW S, NEW u \in Seq(S), NEW v \in Seq(S)
  PROVE  /\ u \o v \in Seq(S) /\ Len(u \o v) = Len(u) + Len(v)
         /\ \A i \in 1 .. Len(u) + Len(v) :
              (u \o v)[i] = IF i <= Len(u) THEN u[i] ELSE v[i - Len(u)]
  OBVIOUS

\* The elements of a sequence
LEMMA SequenceIs ==
  ASSUME NEW S, NEW u \in Seq(S)
  PROVE  Len(u) \in Nat /\ DOMAIN u = 1 .. Len(u) /\ \A i \in 1 .. Len(u) : u[i] \in S
  OBVIOUS

\* A function from 1 to n is a sequence.
LEMMA FunctionIs ==
  ASSUME NEW S, NEW n \in Nat, NEW f \in [1 .. n -> S]
  PROVE  f \in Seq(S) /\ Len(f) = n
  OBVIOUS

\* A name for the environ is made byte by byte.
LEMMA KeyUpperIs ==
  ASSUME NEW p \in Seq(Char)
  PROVE  /\ key_upper(p) \in Seq(Char) /\ Len(key_upper(p)) = Len(p)
         /\ \A i \in 1 .. Len(p) : key_upper(p)[i] =
              IF p[i] = "-" THEN "_" ELSE IF p[i] = "x" THEN "X" ELSE p[i]
<1> DEFINE up(c) == IF c = "-" THEN "_" ELSE IF c = "x" THEN "X" ELSE c
           n == Len(p)
<1>1. n \in Nat /\ DOMAIN p = 1 .. n /\ \A i \in 1 .. n : p[i] \in Char
  BY SequenceIs
<1>a. "_" \in Char /\ "X" \in Char
  BY DEF Char
<1>b. \A c : up(c) \in {"_", "X", c}
  OBVIOUS
<1>2. \A i \in 1 .. n : up(p[i]) \in Char
  BY <1>1, <1>a, <1>b
<1>3. key_upper(p) = [i \in 1 .. n |-> up(p[i])]
  BY <1>1 DEF key_upper
<1> HIDE DEF up
<1>4. key_upper(p) \in Seq(Char) /\ Len(key_upper(p)) = n
      /\ \A i \in 1 .. n : key_upper(p)[i] = up(p[i])
  <2>1. key_upper(p) \in [1 .. n -> Char]
    BY <1>2, <1>3
  <2>2. \A i \in 1 .. n : key_upper(p)[i] = up(p[i])
    BY <1>3
  <2> QED
    BY <1>1, <2>1, <2>2, FunctionIs
<1> QED BY <1>4 DEF up

\* A name is made of two pieces as of one.
LEMMA KeyUpperJoins ==
  ASSUME NEW p \in Seq(Char), NEW t \in Seq(Char)
  PROVE  key_upper(p \o t) = key_upper(p) \o key_upper(t)
<1> DEFINE a == key_upper(p \o t)
           b == key_upper(p) \o key_upper(t)
           up(c) == IF c = "-" THEN "_" ELSE IF c = "x" THEN "X" ELSE c
<1>1. p \o t \in Seq(Char) /\ Len(p \o t) = Len(p) + Len(t)
      /\ \A i \in 1 .. Len(p) + Len(t) :
           (p \o t)[i] = IF i <= Len(p) THEN p[i] ELSE t[i - Len(p)]
  OBVIOUS
<1>2. a \in Seq(Char) /\ Len(a) = Len(p) + Len(t)
      /\ \A i \in 1 .. Len(p) + Len(t) : a[i] = up((p \o t)[i])
  BY <1>1, KeyUpperIs
<1>3. /\ key_upper(p) \in Seq(Char) /\ Len(key_upper(p)) = Len(p)
      /\ \A i \in 1 .. Len(p) : key_upper(p)[i] = up(p[i])
  BY KeyUpperIs
<1>4. /\ key_upper(t) \in Seq(Char) /\ Len(key_upper(t)) = Len(t)
      /\ \A i \in 1 .. Len(t) : key_upper(t)[i] = up(t[i])
  BY KeyUpperIs
<1> HIDE DEF up
<1>5. b \in Seq(Char) /\ Len(b) = Len(p) + Len(t)
      /\ \A i \in 1 .. Len(p) + Len(t) :
           b[i] = IF i <= Len(p) THEN up(p[i]) ELSE up(t[i - Len(p)])
  <2>1. PICK u : u = key_upper(p)
    OBVIOUS
  <2>2. PICK v : v = key_upper(t)
    OBVIOUS
  <2>3. /\ u \in Seq(Char) /\ v \in Seq(Char) /\ Len(u) = Len(p) /\ Len(v) = Len(t)
        /\ b = u \o v
    BY <1>3, <1>4, <2>1, <2>2
  <2> HIDE DEF b
  <2>4. b \in Seq(Char) /\ Len(b) = Len(p) + Len(t)
        /\ \A i \in 1 .. Len(p) + Len(t) : b[i] = IF i <= Len(p) THEN u[i] ELSE v[i - Len(p)]
    BY <2>3, Joined
  <2>5. Len(p) \in Nat /\ Len(t) \in Nat
    OBVIOUS
  <2>6. ASSUME NEW i \in 1 .. Len(p) + Len(t)
        PROVE  b[i] = IF i <= Len(p) THEN up(p[i]) ELSE up(t[i - Len(p)])
    <3>1. i <= Len(p) => i \in 1 .. Len(p)
      BY <2>5
    <3>2. ~(i <= Len(p)) => i - Len(p) \in 1 .. Len(t)
      BY <2>5
    <3> QED
      BY <1>3, <1>4, <2>1, <2>2, <2>4, <3>1, <3>2
  <2> QED
    BY <2>4, <2>6
<1>6. \A i \in 1 .. Len(p) + Len(t) : a[i] = b[i]
  BY <1>1, <1>2, <1>5
<1> HIDE DEF a, b
<1>7. a = b
  BY <1>2, <1>5, <1>6, SeqEqual
<1> QED BY <1>7 DEF a, b

\* NULL is told from no bytes.
LEMMA NullIs == Null \in Seq(Char) /\ Null # <<>> /\ Null[1] = "NULL"
<1>1. "NULL" \in Char
  BY DEF Char
<1> QED BY <1>1 DEF Null

\* No piece of a stream is NULL.
LEMMA NotNull ==
  ASSUME NEW p \in Seq(Byte)
  PROVE  p # Null
<1>1. Null[1] = "NULL" /\ Len(Null) = 1
  BY DEF Null
<1>2. Len(p) = 1 => p[1] \in Byte
  OBVIOUS
<1> QED BY <1>1, <1>2 DEF Byte

\* A name may have any byte of a stream.
LEMMA ByteIsChar ==
  ASSUME NEW p \in Seq(Byte)
  PROVE  p \in Seq(Char)
<1>1. Byte \subseteq Char
  BY DEF Char
<1>2. PICK n \in Nat : p \in [1 .. n -> Byte]
  BY SequenceIs
<1>3. p \in [1 .. n -> Char]
  BY <1>1, <1>2
<1> QED BY <1>3, FunctionIs

\* A name that a piece begins or goes on
NameOf(field, p) ==
  IF field = Null THEN get_http_header_key(p) ELSE field \o key_upper(p)
NameOK(field) ==
  field \in Seq(Char) /\ field # <<>> /\ (field[1] = "NULL" => field = Null)

\* A piece more makes a name of a name.
LEMMA NameType ==
  ASSUME NEW field, NameOK(field), NEW p \in Seq(Byte)
  PROVE  NameOK(NameOf(field, p)) /\ NameOf(field, p) # Null
         /\ Len(NameOf(field, p)) =
              (IF field = Null THEN 1 ELSE Len(field)) + Len(p)
<1> DEFINE u == key_upper(p)
           n == NameOf(field, p)
           first == IF field = Null THEN <<"HTTP_">> ELSE field
<1>1. u \in Seq(Char) /\ Len(u) = Len(p)
  BY ByteIsChar, KeyUpperIs
<1>2. n = first \o u
  BY DEF NameOf, get_http_header_key
<1>3. first \in Seq(Char) /\ Len(first) > 0 /\ first[1] # "NULL"
  <2>1. CASE field = Null
    BY <2>1 DEF Char
  <2>2. CASE field # Null
    BY <2>2 DEF NameOK
  <2> QED BY <2>1, <2>2
<1>4. Len(first) = IF field = Null THEN 1 ELSE Len(field)
  OBVIOUS
<1> HIDE DEF u, n, first
<1>5. n \in Seq(Char) /\ Len(n) = Len(first) + Len(u)
      /\ \A i \in 1 .. Len(first) + Len(u) :
           n[i] = IF i <= Len(first) THEN first[i] ELSE u[i - Len(first)]
  <2>1. /\ first \o u \in Seq(Char) /\ Len(first \o u) = Len(first) + Len(u)
        /\ \A i \in 1 .. Len(first) + Len(u) :
             (first \o u)[i] = IF i <= Len(first) THEN first[i] ELSE u[i - Len(first)]
    BY ZenonT(30), <1>1, <1>3, Joined
  <2> QED BY <1>2, <2>1
<1>6. Len(first) \in Nat /\ Len(u) \in Nat
  BY <1>1, <1>3
<1>7. n[1] = first[1] /\ Len(n) > 0
  <2>1. 1 \in 1 .. Len(first) + Len(u) /\ 1 <= Len(first)
    BY <1>3, <1>6
  <2> QED BY <1>3, <1>5, <1>6, <2>1
<1>8. n # Null /\ n # <<>>
  BY <1>3, <1>7 DEF Null
<1>9. NameOK(n)
  BY <1>3, <1>5, <1>7, <1>8 DEF NameOK
<1> QED BY <1>1, <1>4, <1>5, <1>8, <1>9 DEF n, u

\* A name that goes on with two pieces goes on with the two as one.
LEMMA NameJoins ==
  ASSUME NEW field, NameOK(field), NEW p \in Seq(Byte), NEW t \in Seq(Byte)
  PROVE  NameOf(NameOf(field, p), t) = NameOf(field, p \o t)
<1>1. p \in Seq(Char) /\ t \in Seq(Char)
  BY ByteIsChar
<1>2. key_upper(p \o t) = key_upper(p) \o key_upper(t)
  BY <1>1, KeyUpperJoins
<1> DEFINE first == IF field = Null THEN <<"HTTP_">> ELSE field
<1>3. first \in Seq(Char)
  <2>1. "HTTP_" \in Char /\ field \in Seq(Char)
    BY DEF NameOK, Char
  <2> QED BY <2>1
<1>4. key_upper(p) \in Seq(Char) /\ key_upper(t) \in Seq(Char)
  BY <1>1, KeyUpperIs
<1>5. NameOf(field, p) = first \o key_upper(p)
      /\ NameOf(field, p \o t) = first \o key_upper(p \o t)
  BY DEF NameOf, get_http_header_key
<1>6. NameOf(NameOf(field, p), t) = NameOf(field, p) \o key_upper(t)
  BY NameType DEF NameOf
<1> HIDE DEF first
<1>7. (first \o key_upper(p)) \o key_upper(t) = first \o (key_upper(p) \o key_upper(t))
  BY SMTT(30), <1>3, <1>4, ConcatAssociative
<1> QED BY <1>2, <1>5, <1>6, <1>7

\* The request that a piece of a name goes to, and whether a limit stops it
Base(r) == IF r.last_header_element # "FIELD" THEN Committed(r) ELSE r
NameOver(r, p) ==
  \/ r.last_header_element # "FIELD" /\ MaxFields <= r.num_headers
  \/ Len(NameOf(Base(r).field, p)) > FieldSize
WithName(b, name) == [b EXCEPT !.field = name, !.last_header_element = "FIELD"]

\* header_field_cb by its limits: it fails, or the name goes on.
LEMMA FieldCallback ==
  ASSUME NEW r, RequestOK(r), NEW p
  PROVE  /\ NameOver(r, p) => /\ header_field_cb(r, p).ok = FALSE
                              /\ header_field_cb(r, p).bad_request_code = 400
         /\ ~NameOver(r, p) =>
              header_field_cb(r, p) = WithName(Base(r), NameOf(Base(r).field, p))
<1>1. Shaped(r)
  BY RequestIs
<1> QED
  BY <1>1 DEF header_field_cb, NameOf, Fail, Shaped, Fields, Committed, Base, NameOver, WithName

\* header_field_cb when no limit stops it
LEMMA FieldTaken ==
  ASSUME NEW r, RequestOK(r), NEW p, ~NameOver(r, p)
  PROVE  header_field_cb(r, p) = WithName(Base(r), NameOf(Base(r).field, p))
  BY FieldCallback

\* The request that a name goes to is a sound one.
LEMMA BaseIs ==
  ASSUME NEW r, RequestOK(r)
  PROVE  /\ RequestOK(Base(r)) /\ NameOK(Base(r).field)
         /\ r.last_header_element = "FIELD" => Base(r) = r
<1>1. CASE r.last_header_element # "FIELD"
  <2>1. Base(r) = Committed(r)
    BY <1>1 DEF Base
  <2>2. /\ RequestOK(Committed(r)) /\ Committed(r).field = Null
    <3> DEFINE c == Committed(r)
    <3>1. Shaped(r) /\ Sound(r.path, r.field, r.value, r.body, r.bad_request_code, r.ok)
      BY RequestIs
    <3>2. /\ Shaped(c) /\ c.path = r.path /\ c.field = Null /\ c.value = Null
          /\ c.body = r.body /\ c.bad_request_code = r.bad_request_code /\ c.ok = r.ok
      BY <3>1 DEF Committed, Shaped, Fields
    <3>3. Sound(r.path, Null, Null, r.body, r.bad_request_code, r.ok)
      BY <3>1, NullIs DEF Sound
    <3> HIDE DEF c
    <3>4. RequestOK(c)
      BY <3>2, <3>3, RequestIs
    <3> QED BY <3>2, <3>4 DEF c
  <2>3. NameOK(Null)
    BY DEF NameOK, Null, Char
  <2> QED BY <1>1, <2>1, <2>2, <2>3
<1>2. CASE r.last_header_element = "FIELD"
  BY <1>2, RequestIs DEF Base, Sound, NameOK
<1> QED BY <1>1, <1>2

\* A sound request with another name is a sound one.
LEMMA NamedIs ==
  ASSUME NEW b, RequestOK(b), NEW name, NameOK(name)
  PROVE  /\ RequestOK(WithName(b, name)) /\ WithName(b, name).field = name
         /\ WithName(b, name).last_header_element = "FIELD"
<1> DEFINE c == WithName(b, name)
<1>1. Shaped(b) /\ Sound(b.path, b.field, b.value, b.body, b.bad_request_code, b.ok)
  BY RequestIs
<1>2. /\ Shaped(c) /\ c.path = b.path /\ c.field = name /\ c.value = b.value
      /\ c.body = b.body /\ c.bad_request_code = b.bad_request_code /\ c.ok = b.ok
      /\ c.last_header_element = "FIELD"
  BY <1>1 DEF WithName, Shaped, Fields
<1>3. Sound(b.path, name, b.value, b.body, b.bad_request_code, b.ok)
  BY <1>1 DEF Sound, NameOK
<1> HIDE DEF c
<1>4. RequestOK(c)
  BY <1>2, <1>3, RequestIs
<1> QED BY <1>2, <1>4 DEF c

\* The last name stays.
LEMMA NamedTwice ==
  ASSUME NEW b, RequestOK(b), NEW n, NEW m
  PROVE  WithName(WithName(b, n), m) = WithName(b, m)
  BY RequestIs DEF Shaped, Fields, WithName

\* header_field_cb leaves a sound request, or an error for the client.
LEMMA FieldType ==
  ASSUME NEW r, RequestOK(r), NEW p \in Seq(Byte)
  PROVE  LET f == header_field_cb(r, p) IN
         /\ f.ok = TRUE <=> ~NameOver(r, p)
         /\ f.ok = TRUE => RequestOK(f)
         /\ f.ok # TRUE => f.ok = FALSE /\ f.bad_request_code > 0
<1> DEFINE n == NameOf(Base(r).field, p)
           f == header_field_cb(r, p)
<1>1. RequestOK(Base(r)) /\ NameOK(n)
  BY BaseIs, NameType
<1>2. RequestOK(WithName(Base(r), n))
  BY <1>1, NamedIs
<1>3. WithName(Base(r), n).ok = TRUE
  BY <1>2, RequestIs DEF Sound
<1>4. /\ NameOver(r, p) => f.ok = FALSE /\ f.bad_request_code = 400
      /\ ~NameOver(r, p) => f = WithName(Base(r), n)
  BY FieldCallback
<1> HIDE DEF f, n
<1>5. f.ok = TRUE <=> ~NameOver(r, p)
  BY <1>3, <1>4
<1>6. f.ok = TRUE => RequestOK(f)
  BY <1>2, <1>4, <1>5
<1>7. f.ok # TRUE => f.ok = FALSE /\ f.bad_request_code > 0
  <2>1. f.ok # TRUE => NameOver(r, p)
    BY <1>5
  <2>2. NameOver(r, p) => f.ok = FALSE /\ f.bad_request_code = 400
    BY <1>4
  <2> QED BY <2>1, <2>2
<1> QED BY <1>5, <1>6, <1>7 DEF f

\* A name in two calls of header_field_cb is the name in one, or fails in both.
LEMMA FieldJoins ==
  ASSUME NEW r, RequestOK(r), NEW p \in Seq(Byte), NEW t \in Seq(Byte),
         ~NameOver(r, p)
  PROVE  \/ header_field_cb(header_field_cb(r, p), t) = header_field_cb(r, p \o t)
         \/ /\ header_field_cb(header_field_cb(r, p), t).ok = FALSE
            /\ header_field_cb(r, p \o t).ok = FALSE
<1> DEFINE n == NameOf(Base(r).field, p)
           m == NameOf(Base(r).field, p \o t)
           f == WithName(Base(r), n)
<1>1. RequestOK(Base(r)) /\ NameOK(Base(r).field) /\ NameOK(n)
  BY BaseIs, NameType
<1>2. header_field_cb(r, p) = f
  BY FieldCallback
<1>3. RequestOK(f) /\ f.field = n /\ f.last_header_element = "FIELD"
  BY <1>1, NamedIs
<1>4. Base(f) = f
  BY <1>3, BaseIs
<1>5. NameOf(n, t) = m
  BY <1>1, NameJoins
<1> HIDE DEF n, m
<1>6. NameOver(f, t) <=> Len(m) > FieldSize
  BY <1>3, <1>4, <1>5 DEF NameOver
<1>7. NameOver(r, p \o t) <=> Len(m) > FieldSize
  BY DEF NameOver, m
<1>8. WithName(f, m) = WithName(Base(r), m)
  BY <1>1, NamedTwice
<1> HIDE DEF f
<1>a. PICK u : u = p \o t
  OBVIOUS
<1>b. /\ NameOver(f, t) => /\ header_field_cb(f, t).ok = FALSE
                            /\ header_field_cb(f, t).bad_request_code = 400
      /\ ~NameOver(f, t) => header_field_cb(f, t) = WithName(Base(f), NameOf(Base(f).field, t))
  BY <1>3, FieldCallback
<1>c. /\ NameOver(r, u) => /\ header_field_cb(r, u).ok = FALSE
                            /\ header_field_cb(r, u).bad_request_code = 400
      /\ ~NameOver(r, u) => header_field_cb(r, u) = WithName(Base(r), NameOf(Base(r).field, u))
  BY FieldCallback
<1>9. CASE Len(m) > FieldSize
  <2>1. header_field_cb(f, t).ok = FALSE
    BY <1>6, <1>9, <1>b
  <2>2. header_field_cb(r, p \o t).ok = FALSE
    BY <1>7, <1>9, <1>a, <1>c
  <2> QED BY <1>2, <2>1, <2>2
<1>10. CASE ~(Len(m) > FieldSize)
  <2>1. header_field_cb(f, t) = WithName(f, m)
    BY <1>3, <1>4, <1>5, <1>6, <1>10, <1>b
  <2>2. header_field_cb(r, p \o t) = WithName(Base(r), m)
    BY <1>7, <1>10, <1>a, <1>c DEF m
  <2> QED BY <1>2, <1>8, <2>1, <2>2
<1> QED BY <1>9, <1>10

\* A name that fits was fitting before it was complete.
LEMMA FieldPrefix ==
  ASSUME NEW r, RequestOK(r), NEW p \in Seq(Byte), NEW t \in Seq(Byte),
         ~NameOver(r, p \o t)
  PROVE  ~NameOver(r, p)
<1>1. NameOK(Base(r).field)
  BY BaseIs
<1>2. p \o t \in Seq(Byte) /\ Len(p \o t) = Len(p) + Len(t) /\ Len(p) \in Nat /\ Len(t) \in Nat
  BY Joined
<1> DEFINE k == IF Base(r).field = Null THEN 1 ELSE Len(Base(r).field)
<1>3. k \in Nat
  BY <1>1 DEF NameOK
<1> HIDE DEF k
<1>4. Len(NameOf(Base(r).field, p)) = k + Len(p)
      /\ Len(NameOf(Base(r).field, p \o t)) = k + Len(p \o t)
  BY <1>1, <1>2, NameType DEF k
<1> QED BY <1>2, <1>3, <1>4, LimitsAssumption DEF NameOver

\* A call of header_field_cb without bytes changes nothing after one with bytes.
LEMMA FieldNothing ==
  ASSUME NEW r, RequestOK(r), NEW p \in Seq(Byte), ~NameOver(r, p)
  PROVE  header_field_cb(header_field_cb(r, p), <<>>) = header_field_cb(r, p)
<1> DEFINE f == header_field_cb(r, p)
<1>1. p \o <<>> = p /\ <<>> \in Seq(Byte)
  OBVIOUS
<1>2. f.ok = TRUE
  BY FieldType
<1>3. \/ header_field_cb(f, <<>>) = header_field_cb(r, p \o <<>>)
      \/ /\ header_field_cb(f, <<>>).ok = FALSE
         /\ header_field_cb(r, p \o <<>>).ok = FALSE
  BY <1>1, FieldJoins
<1>4. header_field_cb(r, p \o <<>>) = f
  BY <1>1
<1> QED BY <1>2, <1>3, <1>4

-----------------------------------------------------------------------------
(* Values *)

ValueOfPieces(value, p) == IF value = Null THEN p ELSE value \o p
ValueOver(r, p) == Len(ValueOfPieces(r.value, p)) > FieldSize
Valued(b, v) == [b EXCEPT !.value = v, !.last_header_element = "VAL"]

\* header_value_cb by its limit: it fails, or the value goes on.
LEMMA ValueCallback ==
  ASSUME NEW r, RequestOK(r), NEW p
  PROVE  /\ ValueOver(r, p) => /\ header_value_cb(r, p).ok = FALSE
                               /\ header_value_cb(r, p).bad_request_code = 400
         /\ ~ValueOver(r, p) => header_value_cb(r, p) = Valued(r, ValueOfPieces(r.value, p))
<1>1. Shaped(r)
  BY RequestIs
<1> QED
  BY <1>1 DEF header_value_cb, ValueOfPieces, Fail, Shaped, Fields, ValueOver, Valued

\* header_value_cb when the limit does not stop it
LEMMA ValueTaken ==
  ASSUME NEW r, RequestOK(r), NEW p, ~ValueOver(r, p)
  PROVE  header_value_cb(r, p) = Valued(r, ValueOfPieces(r.value, p))
  BY ValueCallback

\* A value that goes on with a piece of a stream is one of bytes.
LEMMA ValueIs ==
  ASSUME NEW r, RequestOK(r), NEW p \in Seq(Byte)
  PROVE  /\ ValueOfPieces(r.value, p) \in Seq(Byte)
         /\ Len(ValueOfPieces(r.value, p)) = (IF r.value = Null THEN 0 ELSE Len(r.value)) + Len(p)
<1>1. r.value \in Seq(Byte) \cup {Null}
  BY RequestIs DEF Sound
<1>2. CASE r.value = Null
  BY <1>2 DEF ValueOfPieces
<1>3. CASE r.value # Null
  BY <1>1, <1>3, Joined DEF ValueOfPieces
<1> QED BY <1>2, <1>3

\* A sound request with another value is a sound one.
LEMMA ValuedIs ==
  ASSUME NEW b, RequestOK(b), NEW v \in Seq(Byte)
  PROVE  RequestOK(Valued(b, v)) /\ Valued(b, v).value = v
<1> DEFINE c == Valued(b, v)
<1>1. Shaped(b) /\ Sound(b.path, b.field, b.value, b.body, b.bad_request_code, b.ok)
  BY RequestIs
<1>2. /\ Shaped(c) /\ c.path = b.path /\ c.field = b.field /\ c.value = v
      /\ c.body = b.body /\ c.bad_request_code = b.bad_request_code /\ c.ok = b.ok
  BY <1>1 DEF Valued, Shaped, Fields
<1>3. Sound(b.path, b.field, v, b.body, b.bad_request_code, b.ok)
  BY <1>1 DEF Sound
<1> HIDE DEF c
<1>4. RequestOK(c)
  BY <1>2, <1>3, RequestIs
<1> QED BY <1>2, <1>4 DEF c

\* The last value stays.
LEMMA ValuedTwice ==
  ASSUME NEW b, RequestOK(b), NEW n, NEW m
  PROVE  Valued(Valued(b, n), m) = Valued(b, m)
  BY RequestIs DEF Shaped, Fields, Valued

\* header_value_cb leaves a sound request, or an error for the client.
LEMMA ValueType ==
  ASSUME NEW r, RequestOK(r), NEW p \in Seq(Byte)
  PROVE  LET f == header_value_cb(r, p) IN
         /\ f.ok = TRUE <=> ~ValueOver(r, p)
         /\ f.ok = TRUE => RequestOK(f)
         /\ f.ok # TRUE => f.ok = FALSE /\ f.bad_request_code > 0
<1> DEFINE n == ValueOfPieces(r.value, p)
           f == header_value_cb(r, p)
<1>1. n \in Seq(Byte)
  BY ValueIs
<1>2. RequestOK(Valued(r, n))
  BY <1>1, ValuedIs
<1>3. Valued(r, n).ok = TRUE
  BY <1>2, RequestIs DEF Sound
<1>4. /\ ValueOver(r, p) => f.ok = FALSE /\ f.bad_request_code = 400
      /\ ~ValueOver(r, p) => f = Valued(r, n)
  BY ValueCallback
<1> HIDE DEF f, n
<1>5. f.ok = TRUE <=> ~ValueOver(r, p)
  BY <1>3, <1>4
<1>6. f.ok = TRUE => RequestOK(f)
  BY <1>2, <1>4, <1>5
<1>7. f.ok # TRUE => f.ok = FALSE /\ f.bad_request_code > 0
  <2>1. f.ok # TRUE => ValueOver(r, p)
    BY <1>5
  <2>2. ValueOver(r, p) => f.ok = FALSE /\ f.bad_request_code = 400
    BY <1>4
  <2> QED BY <2>1, <2>2
<1> QED BY <1>5, <1>6, <1>7 DEF f

\* A value in two calls of header_value_cb is the value in one, or fails in both.
LEMMA ValueJoins ==
  ASSUME NEW r, RequestOK(r), NEW p \in Seq(Byte), NEW t \in Seq(Byte),
         ~ValueOver(r, p)
  PROVE  \/ header_value_cb(header_value_cb(r, p), t) = header_value_cb(r, p \o t)
         \/ /\ header_value_cb(header_value_cb(r, p), t).ok = FALSE
            /\ header_value_cb(r, p \o t).ok = FALSE
<1> DEFINE n == ValueOfPieces(r.value, p)
           m == ValueOfPieces(r.value, p \o t)
           f == Valued(r, n)
<1>1. n \in Seq(Byte)
  BY ValueIs
<1>2. header_value_cb(r, p) = f
  BY ValueCallback
<1>3. RequestOK(f) /\ f.value = n /\ n # Null
  BY <1>1, ValuedIs, NotNull
<1>5. n \o t = m
  <2>1. r.value \in Seq(Byte) \cup {Null}
    BY RequestIs DEF Sound
  <2>2. CASE r.value = Null
    BY <2>2 DEF ValueOfPieces
  <2>3. CASE r.value # Null
    <3>1. r.value \in Seq(Byte)
      BY <2>1, <2>3
    <3>2. (r.value \o p) \o t = r.value \o (p \o t)
      <4>1. PICK w \in Seq(Byte) : w = r.value
        BY <3>1
      <4>2. (w \o p) \o t = w \o (p \o t)
        BY ConcatAssociative
      <4> QED BY <4>1, <4>2
    <3>3. n = r.value \o p /\ m = r.value \o (p \o t)
      BY <2>3 DEF ValueOfPieces
    <3> QED BY <3>2, <3>3
  <2> QED BY <2>2, <2>3
<1> HIDE DEF n, m
<1>6. ValueOfPieces(f.value, t) = m
  BY <1>3, <1>5 DEF ValueOfPieces
<1>7. Valued(f, m) = Valued(r, m)
  BY <1>1, ValuedTwice
<1> HIDE DEF f
<1>a. PICK u : u = p \o t
  OBVIOUS
<1>b. /\ ValueOver(f, t) => /\ header_value_cb(f, t).ok = FALSE
                            /\ header_value_cb(f, t).bad_request_code = 400
      /\ ~ValueOver(f, t) => header_value_cb(f, t) = Valued(f, ValueOfPieces(f.value, t))
  <2>1. RequestOK(f)
    BY <1>3
  <2> QED BY <2>1, ValueCallback
<1>c. /\ ValueOver(r, u) => /\ header_value_cb(r, u).ok = FALSE
                            /\ header_value_cb(r, u).bad_request_code = 400
      /\ ~ValueOver(r, u) => header_value_cb(r, u) = Valued(r, ValueOfPieces(r.value, u))
  BY ValueCallback
<1>d. ValueOfPieces(r.value, u) = m
  BY <1>a DEF m
<1>8. (ValueOver(f, t) <=> Len(m) > FieldSize) /\ (ValueOver(r, u) <=> Len(m) > FieldSize)
  BY <1>6, <1>d DEF ValueOver
<1>9. CASE Len(m) > FieldSize
  <2>1. header_value_cb(f, t).ok = FALSE
    BY <1>8, <1>9, <1>b
  <2>2. header_value_cb(r, p \o t).ok = FALSE
    BY <1>8, <1>9, <1>a, <1>c
  <2> QED BY <1>2, <2>1, <2>2
<1>10. CASE ~(Len(m) > FieldSize)
  <2>1. header_value_cb(f, t) = Valued(f, m)
    BY <1>6, <1>8, <1>10, <1>b
  <2>2. header_value_cb(r, p \o t) = Valued(r, m)
    BY <1>8, <1>10, <1>a, <1>c, <1>d
  <2> QED BY <1>2, <1>7, <2>1, <2>2
<1> QED BY <1>9, <1>10

\* The front of a value that fits fits.
LEMMA ValuePrefix ==
  ASSUME NEW r, RequestOK(r), NEW p \in Seq(Byte), NEW t \in Seq(Byte),
         ~ValueOver(r, p \o t)
  PROVE  ~ValueOver(r, p)
<1>1. r.value \in Seq(Byte) \cup {Null}
  BY RequestIs DEF Sound
<1>2. p \o t \in Seq(Byte) /\ Len(p \o t) = Len(p) + Len(t) /\ Len(p) \in Nat /\ Len(t) \in Nat
  BY Joined
<1> DEFINE k == IF r.value = Null THEN 0 ELSE Len(r.value)
<1>3. k \in Nat
  BY <1>1
<1> HIDE DEF k
<1>4. Len(ValueOfPieces(r.value, p)) = k + Len(p)
      /\ Len(ValueOfPieces(r.value, p \o t)) = k + Len(p \o t)
  BY <1>2, ValueIs DEF k
<1> QED BY <1>2, <1>3, <1>4, LimitsAssumption DEF ValueOver

\* A call of header_value_cb without bytes changes nothing after one with bytes.
LEMMA ValueNothing ==
  ASSUME NEW r, RequestOK(r), NEW p \in Seq(Byte), ~ValueOver(r, p)
  PROVE  header_value_cb(header_value_cb(r, p), <<>>) = header_value_cb(r, p)
<1> DEFINE f == header_value_cb(r, p)
<1>1. p \o <<>> = p /\ <<>> \in Seq(Byte)
  OBVIOUS
<1>2. f.ok = TRUE
  BY ValueType
<1>3. \/ header_value_cb(f, <<>>) = header_value_cb(r, p \o <<>>)
      \/ /\ header_value_cb(f, <<>>).ok = FALSE
         /\ header_value_cb(r, p \o <<>>).ok = FALSE
  BY <1>1, ValueJoins
<1>4. header_value_cb(r, p \o <<>>) = f
  BY <1>1
<1> QED BY <1>2, <1>3, <1>4

-----------------------------------------------------------------------------
(* URLs *)

UriOver(r, p) == Len(r.path.bytes) + Len(p) > UriSize
Pathed(r, bytes, size) == [r EXCEPT !.path = [bytes |-> bytes, buf_size |-> size]]
BufferOf(r) == IF r.path = NoBuffer THEN new_buffer ELSE r.path

\* The URL of a sound request
LEMMA PathIs ==
  ASSUME NEW r, RequestOK(r)
  PROVE  /\ r.path \in [bytes : Seq(Byte), buf_size : 0 .. UriSize + 1]
         /\ r.path.bytes \in Seq(Byte) /\ Len(r.path.bytes) \in Nat
         /\ r.path.buf_size \in 0 .. UriSize + 1
<1>1. r.path \in [bytes : Seq(Byte), buf_size : 0 .. UriSize + 1]
  BY RequestIs DEF Sound
<1>2. r.path.bytes \in Seq(Byte) /\ r.path.buf_size \in 0 .. UriSize + 1
  BY <1>1
<1> QED BY <1>1, <1>2, SequenceIs

\* What the doubling of a buffer ends in
LEMMA GrownIs ==
  ASSUME NEW size \in 0 .. UriSize + 1, NEW needs \in Nat
  PROVE  /\ Grown(size, needs) \in 0 .. UriSize + 1
         /\ needs > UriSize => Grown(size, needs) = UriSize + 1
         /\ needs <= UriSize => Grown(size, needs) > needs
         /\ needs < size => Grown(size, needs) = size
  BY LimitsAssumption DEF Grown

\* The buffer that request_uri_cb writes to
LEMMA BufferIs ==
  ASSUME NEW r, RequestOK(r)
  PROVE  /\ BufferOf(r).bytes = r.path.bytes
         /\ BufferOf(r).buf_size \in 0 .. UriSize + 1
         /\ r.path.buf_size > 0 => BufferOf(r) = r.path
<1>1. CASE r.path = NoBuffer
  BY <1>1, LimitsAssumption DEF BufferOf, NoBuffer, new_buffer
<1>2. CASE r.path # NoBuffer
  BY <1>2, PathIs DEF BufferOf
<1> QED BY <1>1, <1>2

\* request_uri_cb by its limit: it fails, or the URL goes on in a buffer with room.
LEMMA UriCallback ==
  ASSUME NEW r, RequestOK(r), NEW p \in Seq(Byte)
  PROVE  LET size == Grown(BufferOf(r).buf_size, Len(r.path.bytes) + Len(p)) IN
         /\ UriOver(r, p) => /\ request_uri_cb(r, p).ok = FALSE
                             /\ request_uri_cb(r, p).bad_request_code = 400
         /\ ~UriOver(r, p) => /\ request_uri_cb(r, p) = Pathed(r, r.path.bytes \o p, size)
                              /\ size \in 0 .. UriSize + 1
                              /\ size > Len(r.path.bytes) + Len(p)
<1> DEFINE buf == BufferOf(r)
           newl == Len(r.path.bytes) + Len(p)
           size == Grown(buf.buf_size, newl)
<1>1. newl \in Nat /\ Len(p) \in Nat /\ Len(r.path.bytes) \in Nat
  BY PathIs
<1>2. buf.bytes = r.path.bytes /\ buf.buf_size \in 0 .. UriSize + 1
  BY BufferIs
<1>3. /\ size \in 0 .. UriSize + 1
      /\ newl > UriSize => size = UriSize + 1
      /\ newl <= UriSize => size > newl
  BY <1>1, <1>2, GrownIs
<1>4. LimitOver(buf, p) <=> newl >= size
  BY <1>2 DEF LimitOver
<1>5. UriOver(r, p) <=> newl > UriSize
  BY DEF UriOver
<1>6. Shaped(r)
  BY RequestIs
<1>7. request_uri_cb(r, p) =
        IF LimitOver(buf, p) THEN Fail([r EXCEPT !.path = write2buf(buf, p)], 400)
        ELSE [r EXCEPT !.path = write2buf(buf, p)]
  BY DEF request_uri_cb, BufferOf
<1> HIDE DEF newl, size, buf
<1>8. LimitOver(buf, p) <=> UriOver(r, p)
  BY <1>1, <1>3, <1>4, <1>5, LimitsAssumption
<1>9. ASSUME UriOver(r, p)
      PROVE  request_uri_cb(r, p).ok = FALSE /\ request_uri_cb(r, p).bad_request_code = 400
  <2>1. PICK w : w = write2buf(buf, p)
    OBVIOUS
  <2>2. request_uri_cb(r, p) = Fail([r EXCEPT !.path = w], 400)
    BY <1>7, <1>8, <1>9, <2>1
  <2>3. Fail([r EXCEPT !.path = w], 400).ok = FALSE
        /\ Fail([r EXCEPT !.path = w], 400).bad_request_code = 400
    BY <1>6 DEF Fail, Shaped, Fields
  <2> QED BY <2>2, <2>3
<1>10. ASSUME ~UriOver(r, p)
       PROVE  /\ request_uri_cb(r, p) = Pathed(r, r.path.bytes \o p, size)
              /\ size \in 0 .. UriSize + 1 /\ size > newl
  <2>1. SubSeq(p, 1, Len(p)) = p
    OBVIOUS
  <2>2. Len(buf.bytes) + Len(p) = newl
    BY <1>2 DEF newl
  <2>3. write2buf(buf, p) = [bytes |-> buf.bytes \o SubSeq(p, 1, Len(p)),
                             buf_size |-> Grown(buf.buf_size, newl)]
    BY <1>8, <1>10, <2>2 DEF write2buf
  <2>4. request_uri_cb(r, p) = Pathed(r, r.path.bytes \o p, size)
    BY <1>2, <1>7, <1>8, <1>10, <2>1, <2>3 DEF Pathed, size
  <2>5. newl <= UriSize
    BY <1>1, <1>5, <1>10, LimitsAssumption
  <2> QED BY <1>3, <2>4, <2>5
<1> QED BY <1>9, <1>10 DEF newl, size, buf

\* A sound request with another URL is a sound one.
LEMMA PathedIs ==
  ASSUME NEW r, RequestOK(r), NEW bytes \in Seq(Byte), NEW n \in 0 .. UriSize + 1
  PROVE  /\ RequestOK(Pathed(r, bytes, n)) /\ Pathed(r, bytes, n).ok = TRUE
         /\ Pathed(r, bytes, n).path = [bytes |-> bytes, buf_size |-> n]
<1> DEFINE c == Pathed(r, bytes, n)
<1>1. Shaped(r) /\ Sound(r.path, r.field, r.value, r.body, r.bad_request_code, r.ok)
  BY RequestIs
<1>2. /\ Shaped(c) /\ c.path = [bytes |-> bytes, buf_size |-> n] /\ c.field = r.field
      /\ c.value = r.value
      /\ c.body = r.body /\ c.bad_request_code = r.bad_request_code /\ c.ok = r.ok
  BY <1>1 DEF Pathed, Shaped, Fields
<1>3. Sound([bytes |-> bytes, buf_size |-> n], r.field, r.value, r.body, r.bad_request_code, r.ok)
  BY <1>1 DEF Sound
<1> HIDE DEF c
<1>4. RequestOK(c) /\ c.ok = TRUE
  BY <1>2, <1>3, RequestIs DEF Sound
<1> QED BY <1>2, <1>4 DEF c

\* The last URL stays, and erasing leaves its bytes.
LEMMA PathedTwice ==
  ASSUME NEW r, RequestOK(r), NEW b, NEW n, NEW c, NEW m
  PROVE  /\ Pathed(Pathed(r, b, n), c, m) = Pathed(r, c, m)
         /\ Erased(Pathed(r, b, n)) = Pathed(r, b, 0)
         /\ Erased(r) = Pathed(r, r.path.bytes, 0)
  BY RequestIs DEF Shaped, Fields, Pathed, Erased

\* request_uri_cb leaves a sound request, or an error for the client.
LEMMA UriType ==
  ASSUME NEW r, RequestOK(r), NEW p \in Seq(Byte)
  PROVE  LET f == request_uri_cb(r, p) IN
         /\ f.ok = TRUE <=> ~UriOver(r, p)
         /\ f.ok = TRUE => /\ RequestOK(f) /\ f.path.bytes = r.path.bytes \o p
                           /\ Erased(f) = Pathed(r, r.path.bytes \o p, 0)
         /\ f.ok # TRUE => f.ok = FALSE /\ f.bad_request_code > 0
<1> DEFINE size == Grown(BufferOf(r).buf_size, Len(r.path.bytes) + Len(p))
           f == request_uri_cb(r, p)
           b == r.path.bytes \o p
<1>1. b \in Seq(Byte)
  BY PathIs
<1>2. /\ UriOver(r, p) => f.ok = FALSE /\ f.bad_request_code = 400
      /\ ~UriOver(r, p) => f = Pathed(r, b, size) /\ size \in 0 .. UriSize + 1
  <2> HIDE DEF size
  <2>1. /\ UriOver(r, p) => /\ request_uri_cb(r, p).ok = FALSE
                            /\ request_uri_cb(r, p).bad_request_code = 400
        /\ ~UriOver(r, p) => /\ request_uri_cb(r, p) = Pathed(r, r.path.bytes \o p, size)
                             /\ size \in 0 .. UriSize + 1
                             /\ size > Len(r.path.bytes) + Len(p)
    BY UriCallback DEF size
  <2> QED BY <2>1
<1> HIDE DEF f, size, b
<1>3. ~UriOver(r, p) => /\ RequestOK(f) /\ f.ok = TRUE /\ f.path.bytes = b
                        /\ Erased(f) = Pathed(r, b, 0)
  <2>1. SUFFICES ASSUME ~UriOver(r, p)
                 PROVE  /\ RequestOK(f) /\ f.ok = TRUE /\ f.path.bytes = b
                        /\ Erased(f) = Pathed(r, b, 0)
    OBVIOUS
  <2>2. f = Pathed(r, b, size) /\ size \in 0 .. UriSize + 1
    BY <1>2, <2>1
  <2>3. /\ RequestOK(Pathed(r, b, size)) /\ Pathed(r, b, size).ok = TRUE
        /\ Pathed(r, b, size).path = [bytes |-> b, buf_size |-> size]
    BY <1>1, <2>2, PathedIs
  <2>4. Erased(Pathed(r, b, size)) = Pathed(r, b, 0)
    BY PathedTwice
  <2> QED BY <2>2, <2>3, <2>4
<1>4. f.ok = TRUE <=> ~UriOver(r, p)
  BY <1>2, <1>3
<1>5. f.ok # TRUE => f.ok = FALSE /\ f.bad_request_code > 0
  <2>1. f.ok # TRUE => UriOver(r, p)
    BY <1>4
  <2>2. UriOver(r, p) => f.ok = FALSE /\ f.bad_request_code = 400
    BY <1>2
  <2> QED BY <2>1, <2>2
<1> QED BY <1>3, <1>4, <1>5 DEF f, b

\* A URL in two calls of request_uri_cb is the URL in one but for the buffer's size.
LEMMA UriJoins ==
  ASSUME NEW r, RequestOK(r), NEW p \in Seq(Byte), NEW t \in Seq(Byte),
         NEW f, f = request_uri_cb(r, p), f.ok = TRUE
  PROVE  /\ request_uri_cb(f, t).ok = TRUE <=> request_uri_cb(r, p \o t).ok = TRUE
         /\ request_uri_cb(f, t).ok = TRUE =>
              Erased(request_uri_cb(f, t)) = Erased(request_uri_cb(r, p \o t))
<1>1. PICK b \in Seq(Byte) : b = r.path.bytes
  BY PathIs
<1>2. PICK u \in Seq(Byte) : u = p \o t
  BY Joined
<1>3. (b \o p) \o t = b \o u /\ Len(u) = Len(p) + Len(t) /\ Len(b \o p) = Len(b) + Len(p)
  BY SMTT(30), <1>2, ConcatAssociative, Joined
<1>4. /\ RequestOK(f) /\ f.path.bytes = b \o p /\ Erased(f) = Pathed(r, b \o p, 0)
  BY <1>1, UriType
<1>5. Len(b) \in Nat /\ Len(p) \in Nat /\ Len(t) \in Nat /\ UriSize \in Nat
  BY LimitsAssumption
<1>6. UriOver(f, t) <=> UriOver(r, u)
  <2>1. UriOver(f, t) <=> Len(b \o p) + Len(t) > UriSize
    BY <1>4 DEF UriOver
  <2>2. UriOver(r, u) <=> Len(b) + Len(u) > UriSize
    BY <1>1 DEF UriOver
  <2>3. Len(b \o p) + Len(t) = Len(b) + Len(u)
    BY <1>3, <1>5
  <2> QED BY <2>1, <2>2, <2>3
<1>7. request_uri_cb(f, t).ok = TRUE <=> ~UriOver(f, t)
  BY <1>4, UriType
<1>8. request_uri_cb(r, u).ok = TRUE <=> ~UriOver(r, u)
  BY UriType
<1>9. ASSUME request_uri_cb(f, t).ok = TRUE
      PROVE  Erased(request_uri_cb(f, t)) = Erased(request_uri_cb(r, u))
  <2>1. Erased(request_uri_cb(f, t)) = Pathed(f, f.path.bytes \o t, 0)
    BY <1>4, <1>9, UriType
  <2>2. Erased(request_uri_cb(r, u)) = Pathed(r, b \o u, 0)
    BY <1>1, <1>6, <1>7, <1>8, <1>9, UriType
  <2>3. PICK n : n = f.path.buf_size
    OBVIOUS
  <2>4. Pathed(f, b \o u, 0) = Pathed(r, b \o u, 0)
    <3>1. Pathed(Erased(f), b \o u, 0) = Pathed(f, b \o u, 0)
      BY <1>4, RequestIs DEF Pathed, Erased, Shaped, Fields
    <3>2. Pathed(Pathed(r, b \o p, 0), b \o u, 0) = Pathed(r, b \o u, 0)
      BY PathedTwice
    <3> QED BY <1>4, <3>1, <3>2
  <2> QED BY <1>3, <1>4, <2>1, <2>2, <2>4
<1> QED BY <1>2, <1>6, <1>7, <1>8, <1>9

\* The front of a URL that fits fits.
LEMMA UriPrefix ==
  ASSUME NEW r, RequestOK(r), NEW p \in Seq(Byte), NEW t \in Seq(Byte), ~UriOver(r, p \o t)
  PROVE  ~UriOver(r, p)
<1>1. Len(p \o t) = Len(p) + Len(t) /\ Len(p) \in Nat /\ Len(t) \in Nat
      /\ Len(r.path.bytes) \in Nat /\ UriSize \in Nat
  BY Joined, PathIs, LimitsAssumption
<1>2. PICK k \in Nat : k = Len(r.path.bytes)
  BY <1>1
<1>3. k + Len(p) > UriSize => k + Len(p \o t) > UriSize
  BY <1>1
<1>4. ~(k + Len(p \o t) > UriSize)
  BY <1>2 DEF UriOver
<1>5. ~(k + Len(p) > UriSize)
  BY <1>3, <1>4
<1> QED BY <1>2, <1>5 DEF UriOver

\* A call of request_uri_cb without bytes changes nothing after one with bytes.
LEMMA UriNothing ==
  ASSUME NEW r, RequestOK(r), NEW p \in Seq(Byte), ~UriOver(r, p)
  PROVE  request_uri_cb(request_uri_cb(r, p), <<>>) = request_uri_cb(r, p)
<1> DEFINE f == request_uri_cb(r, p)
<1>1. PICK b \in Seq(Byte) : b = r.path.bytes \o p
  BY PathIs, Joined
<1>2. Len(b) = Len(r.path.bytes) + Len(p) /\ Len(b) \in Nat
  BY <1>1, PathIs, Joined
<1>3. PICK n \in 0 .. UriSize + 1 : f = Pathed(r, b, n) /\ n > Len(b)
  <2>1. PICK n : n = Grown(BufferOf(r).buf_size, Len(r.path.bytes) + Len(p))
    OBVIOUS
  <2>2. f = Pathed(r, r.path.bytes \o p, n) /\ n \in 0 .. UriSize + 1
        /\ n > Len(r.path.bytes) + Len(p)
    BY ZenonT(30), <2>1, UriCallback
  <2> QED BY <1>1, <1>2, <2>2
<1>4. RequestOK(f) /\ f.path = [bytes |-> b, buf_size |-> n]
  <2>1. RequestOK(Pathed(r, b, n)) /\ Pathed(r, b, n).path = [bytes |-> b, buf_size |-> n]
    BY PathedIs
  <2> QED BY <1>3, <2>1
<1>5. f.path.bytes = b /\ f.path.buf_size = n /\ n > 0
  BY <1>2, <1>3, <1>4
<1> HIDE DEF f
<1>6. BufferOf(f).buf_size = n
  BY <1>4, <1>5, BufferIs
<1>7. Len(<<>>) = 0 /\ <<>> \in Seq(Byte) /\ b \o <<>> = b
  OBVIOUS
<1>8. Grown(n, Len(b) + 0) = n
  <2>1. Len(b) + 0 = Len(b) /\ Len(b) < n
    BY <1>2, <1>3
  <2>2. Grown(n, Len(b)) = n
    BY <1>2, <2>1, GrownIs
  <2> QED BY <2>1, <2>2
<1>9. ~UriOver(f, <<>>)
  <2>1. ~(Len(b) > UriSize)
    BY <1>2 DEF UriOver
  <2>2. UriOver(f, <<>>) <=> Len(b) + 0 > UriSize
    BY <1>5, <1>7 DEF UriOver
  <2>3. Len(b) + 0 = Len(b)
    BY <1>2
  <2> QED BY <2>1, <2>2, <2>3
<1>10. request_uri_cb(f, <<>>) = Pathed(f, b \o <<>>, Grown(n, Len(b) + 0))
  BY ZenonT(30), <1>4, <1>5, <1>6, <1>7, <1>9, UriCallback
<1>11. Pathed(f, b, n) = f
  BY <1>3, PathedTwice
<1> QED BY <1>7, <1>8, <1>10, <1>11 DEF f

\* What request_uri_cb makes of a URL does not depend on the buffer's size.
LEMMA UriErased ==
  ASSUME NEW r, RequestOK(r), NEW p \in Seq(Byte)
  PROVE  /\ RequestOK(Erased(r))
         /\ request_uri_cb(Erased(r), p).ok = TRUE <=> request_uri_cb(r, p).ok = TRUE
         /\ request_uri_cb(r, p).ok = TRUE =>
              Erased(request_uri_cb(Erased(r), p)) = Erased(request_uri_cb(r, p))
<1>1. PICK b \in Seq(Byte) : b = r.path.bytes
  BY PathIs
<1>2. Erased(r) = Pathed(r, b, 0)
  BY <1>1, PathedTwice
<1>3. 0 \in 0 .. UriSize + 1
  BY LimitsAssumption
<1>4. RequestOK(Erased(r)) /\ Erased(r).path.bytes = b
  <2>1. RequestOK(Pathed(r, b, 0)) /\ Pathed(r, b, 0).path = [bytes |-> b, buf_size |-> 0]
    BY <1>3, PathedIs
  <2>2. Pathed(r, b, 0).path.bytes = b
    BY <2>1
  <2> QED BY <1>2, <2>1, <2>2
<1>5. UriOver(Erased(r), p) <=> UriOver(r, p)
  BY <1>1, <1>4 DEF UriOver
<1>6. request_uri_cb(Erased(r), p).ok = TRUE <=> ~UriOver(Erased(r), p)
  BY <1>4, UriType
<1>7. request_uri_cb(r, p).ok = TRUE <=> ~UriOver(r, p)
  BY UriType
<1>8. ASSUME request_uri_cb(r, p).ok = TRUE
      PROVE  Erased(request_uri_cb(Erased(r), p)) = Erased(request_uri_cb(r, p))
  <2>1. Erased(request_uri_cb(Erased(r), p)) = Pathed(Erased(r), b \o p, 0)
    BY <1>4, <1>5, <1>6, <1>7, <1>8, UriType
  <2>2. Erased(request_uri_cb(r, p)) = Pathed(r, b \o p, 0)
    BY <1>1, <1>8, UriType
  <2>3. Pathed(Pathed(r, b, 0), b \o p, 0) = Pathed(r, b \o p, 0)
    BY PathedTwice
  <2> QED BY <1>2, <2>1, <2>2, <2>3
<1> QED BY <1>4, <1>5, <1>6, <1>7, <1>8

\* An erased request is sound and erased.
LEMMA ErasedTwice ==
  ASSUME NEW r, RequestOK(r)
  PROVE  /\ RequestOK(Erased(r)) /\ Erased(Erased(r)) = Erased(r) /\ Shaped(Erased(r))
<1>1. RequestOK(Erased(r))
  <2>1. <<>> \in Seq(Byte)
    OBVIOUS
  <2> QED BY <2>1, UriErased
<1>2. Erased(Erased(r)) = Erased(r)
  BY RequestIs DEF Erased, Shaped, Fields
<1> QED BY <1>1, <1>2, RequestIs

\* header_field_cb does not look at the URL.
LEMMA FieldErased ==
  ASSUME NEW r, RequestOK(r), NEW p \in Seq(Byte)
  PROVE  /\ header_field_cb(Erased(r), p).ok = TRUE <=> header_field_cb(r, p).ok = TRUE
         /\ header_field_cb(r, p).ok = TRUE =>
              Erased(header_field_cb(Erased(r), p)) = Erased(header_field_cb(r, p))
<1> DEFINE e == Erased(r)
           n == NameOf(Base(r).field, p)
<1>1. RequestOK(e)
  BY ErasedTwice
<1>2. Shaped(r)
  BY RequestIs
<1>3. Base(e) = Erased(Base(r))
  BY <1>2 DEF Base, Committed, Erased, Shaped, Fields
<1>4. RequestOK(Base(r))
  BY BaseIs
<1>5. Base(e).field = Base(r).field
  BY <1>3, <1>4, ErasedIs
<1>6. e.last_header_element = r.last_header_element /\ e.num_headers = r.num_headers
  BY ErasedIs
<1>7. WithName(Erased(Base(r)), n) = Erased(WithName(Base(r), n))
  BY <1>4, RequestIs DEF WithName, Erased, Shaped, Fields
<1>8. RequestOK(WithName(Base(r), n))
  BY <1>4, BaseIs, NameType, NamedIs
<1> HIDE DEF e
<1>9. NameOver(e, p) <=> NameOver(r, p)
  BY <1>5, <1>6 DEF NameOver
<1>10. header_field_cb(e, p).ok = TRUE <=> ~NameOver(e, p)
  BY <1>1, FieldType
<1>11. header_field_cb(r, p).ok = TRUE <=> ~NameOver(r, p)
  BY FieldType
<1>12. ASSUME header_field_cb(r, p).ok = TRUE
       PROVE  Erased(header_field_cb(e, p)) = Erased(header_field_cb(r, p))
  <2>1. header_field_cb(e, p) = WithName(Base(e), NameOf(Base(e).field, p))
    BY <1>1, <1>9, <1>11, <1>12, FieldTaken
  <2>2. header_field_cb(r, p) = WithName(Base(r), n)
    BY <1>11, <1>12, FieldTaken
  <2>3. header_field_cb(e, p) = Erased(WithName(Base(r), n))
    BY <1>3, <1>5, <1>7, <2>1
  <2> QED BY <1>8, <2>2, <2>3, ErasedTwice
<1> QED BY <1>9, <1>10, <1>11, <1>12 DEF e

\* header_value_cb does not look at the URL.
LEMMA ValueErased ==
  ASSUME NEW r, RequestOK(r), NEW p \in Seq(Byte)
  PROVE  /\ header_value_cb(Erased(r), p).ok = TRUE <=> header_value_cb(r, p).ok = TRUE
         /\ header_value_cb(r, p).ok = TRUE =>
              Erased(header_value_cb(Erased(r), p)) = Erased(header_value_cb(r, p))
<1> DEFINE e == Erased(r)
           n == ValueOfPieces(r.value, p)
<1>1. RequestOK(e)
  BY ErasedTwice
<1>2. e.value = r.value
  BY ErasedIs
<1>3. Valued(e, n) = Erased(Valued(r, n))
  BY RequestIs DEF Valued, Erased, Shaped, Fields
<1>4. RequestOK(Valued(r, n))
  BY ValueIs, ValuedIs
<1> HIDE DEF e
<1>5. ValueOver(e, p) <=> ValueOver(r, p)
  BY <1>2 DEF ValueOver
<1>6. header_value_cb(e, p).ok = TRUE <=> ~ValueOver(e, p)
  BY <1>1, ValueType
<1>7. header_value_cb(r, p).ok = TRUE <=> ~ValueOver(r, p)
  BY ValueType
<1>8. ASSUME header_value_cb(r, p).ok = TRUE
      PROVE  Erased(header_value_cb(e, p)) = Erased(header_value_cb(r, p))
  <2>1. header_value_cb(e, p) = Valued(e, ValueOfPieces(e.value, p))
    BY <1>1, <1>5, <1>7, <1>8, ValueTaken
  <2>2. header_value_cb(r, p) = Valued(r, n)
    BY <1>7, <1>8, ValueTaken
  <2>3. header_value_cb(e, p) = Erased(Valued(r, n))
    BY <1>2, <1>3, <2>1
  <2> QED BY <1>4, <2>2, <2>3, ErasedTwice
<1> QED BY <1>5, <1>6, <1>7, <1>8 DEF e

-----------------------------------------------------------------------------
(* Bodies *)

BodyOver(r, p) ==
  MaxContent <= Len(r.body) + Len(p) \/ (r.body_type = "NONE" /\ r.body_length = 0)
TypeOfBody(r) ==
  IF r.body_type # "NONE" THEN r.body_type
  ELSE IF r.body_length > BodyBuffer THEN "TMPFILE" ELSE "BUFFER"
Bodied(r, type, body) == [r EXCEPT !.body_type = type, !.body = body]

\* body_cb by its limits: it fails, or the body goes on.
LEMMA BodyCallback ==
  ASSUME NEW r, RequestOK(r), NEW p
  PROVE  /\ BodyOver(r, p) => /\ body_cb(r, p).ok = FALSE
                              /\ body_cb(r, p).bad_request_code \in {411, 413}
         /\ ~BodyOver(r, p) => body_cb(r, p) = Bodied(r, TypeOfBody(r), r.body \o p)
<1>1. Shaped(r)
  BY RequestIs
<1>2. BodyOver(r, p) => \/ body_cb(r, p) = Fail(r, 413)
                        \/ body_cb(r, p) = Fail(r, 411)
  BY DEF body_cb, BodyOver
<1>3. \A code : Fail(r, code).ok = FALSE /\ Fail(r, code).bad_request_code = code
  BY <1>1 DEF Fail, Shaped, Fields
<1>4. BodyOver(r, p) => /\ body_cb(r, p).ok = FALSE
                        /\ body_cb(r, p).bad_request_code \in {411, 413}
  BY <1>2, <1>3
<1>5. ~BodyOver(r, p) => body_cb(r, p) = Bodied(r, TypeOfBody(r), r.body \o p)
  <2>1. SUFFICES ASSUME ~BodyOver(r, p)
                 PROVE  body_cb(r, p) = Bodied(r, TypeOfBody(r), r.body \o p)
    OBVIOUS
  <2>2. CASE r.body_type # "NONE"
    <3>1. body_cb(r, p) = [r EXCEPT !.body = @ \o p]
      BY <2>1, <2>2 DEF body_cb, BodyOver
    <3>2. TypeOfBody(r) = r.body_type
      BY <2>2 DEF TypeOfBody
    <3>3. [r EXCEPT !.body = @ \o p] = Bodied(r, r.body_type, r.body \o p)
      BY <1>1 DEF Bodied, Shaped, Fields
    <3> QED BY <3>1, <3>2, <3>3
  <2>3. CASE r.body_type = "NONE"
    <3>1. PICK type : type = IF r.body_length > BodyBuffer THEN "TMPFILE" ELSE "BUFFER"
      OBVIOUS
    <3>2. body_cb(r, p) = [[r EXCEPT !.body_type = type] EXCEPT !.body = @ \o p]
      BY <2>1, <2>3, <3>1 DEF body_cb, BodyOver
    <3>3. TypeOfBody(r) = type
      BY <2>3, <3>1 DEF TypeOfBody
    <3>4. [[r EXCEPT !.body_type = type] EXCEPT !.body = @ \o p] = Bodied(r, type, r.body \o p)
      BY <1>1 DEF Bodied, Shaped, Fields
    <3> QED BY <3>2, <3>3, <3>4
  <2> QED BY <2>2, <2>3
<1> QED BY <1>4, <1>5

\* body_cb when no limit stops it
LEMMA BodyTaken ==
  ASSUME NEW r, RequestOK(r), NEW p, ~BodyOver(r, p)
  PROVE  body_cb(r, p) = Bodied(r, TypeOfBody(r), r.body \o p)
  BY BodyCallback

\* A sound request with another body is a sound one.
LEMMA BodiedIs ==
  ASSUME NEW r, RequestOK(r), NEW type, NEW body \in Seq(Byte)
  PROVE  /\ RequestOK(Bodied(r, type, body))
         /\ Bodied(r, type, body).body = body /\ Bodied(r, type, body).body_type = type
         /\ Bodied(r, type, body).body_length = r.body_length
<1> DEFINE c == Bodied(r, type, body)
<1>1. Shaped(r) /\ Sound(r.path, r.field, r.value, r.body, r.bad_request_code, r.ok)
  BY RequestIs
<1>2. /\ Shaped(c) /\ c.path = r.path /\ c.field = r.field
      /\ c.value = r.value /\ c.body_type = type /\ c.body_length = r.body_length
      /\ c.body = body /\ c.bad_request_code = r.bad_request_code /\ c.ok = r.ok
  BY <1>1 DEF Bodied, Shaped, Fields
<1>3. Sound(r.path, r.field, r.value, body, r.bad_request_code, r.ok)
  BY <1>1 DEF Sound
<1> HIDE DEF c
<1>4. RequestOK(c)
  BY <1>2, <1>3, RequestIs
<1> QED BY <1>2, <1>4 DEF c

\* The last body stays.
LEMMA BodiedTwice ==
  ASSUME NEW r, RequestOK(r), NEW a, NEW b, NEW c, NEW d
  PROVE  /\ Bodied(Bodied(r, a, b), c, d) = Bodied(r, c, d)
         /\ Erased(Bodied(r, a, b)) = Bodied(Erased(r), a, b)
  BY RequestIs DEF Shaped, Fields, Bodied, Erased

\* The body of a sound request is one of bytes.
LEMMA BodyIs ==
  ASSUME NEW r, RequestOK(r)
  PROVE  r.body \in Seq(Byte) /\ Len(r.body) \in Nat
<1>1. r.body \in Seq(Byte)
  BY RequestIs DEF Sound
<1> QED BY <1>1, SequenceIs

\* body_cb leaves a sound request, or an error for the client.
LEMMA BodyType ==
  ASSUME NEW r, RequestOK(r), NEW p \in Seq(Byte)
  PROVE  LET f == body_cb(r, p) IN
         /\ f.ok = TRUE <=> ~BodyOver(r, p)
         /\ f.ok = TRUE => RequestOK(f)
         /\ f.ok # TRUE => f.ok = FALSE /\ f.bad_request_code > 0
<1> DEFINE f == body_cb(r, p)
           n == r.body \o p
           type == TypeOfBody(r)
<1>1. n \in Seq(Byte)
  BY BodyIs, Joined
<1>2. RequestOK(Bodied(r, type, n)) /\ Bodied(r, type, n).ok = TRUE
  <2>1. RequestOK(Bodied(r, type, n))
    BY <1>1, BodiedIs
  <2>2. Bodied(r, type, n).ok = TRUE
    BY <2>1, RequestIs DEF Sound
  <2> QED BY <2>1, <2>2
<1>4. /\ BodyOver(r, p) => f.ok = FALSE /\ f.bad_request_code \in {411, 413}
      /\ ~BodyOver(r, p) => f = Bodied(r, type, n)
  BY ZenonT(30), BodyCallback
<1> HIDE DEF f, n, type
<1>5. f.ok = TRUE <=> ~BodyOver(r, p)
  BY <1>2, <1>4
<1>6. f.ok = TRUE => RequestOK(f)
  BY <1>2, <1>4, <1>5
<1>7. f.ok # TRUE => f.ok = FALSE /\ f.bad_request_code > 0
  <2>1. f.ok # TRUE => BodyOver(r, p)
    BY <1>5
  <2>2. BodyOver(r, p) => f.ok = FALSE /\ f.bad_request_code \in {411, 413}
    BY <1>4
  <2>3. f.bad_request_code \in {411, 413} => f.bad_request_code > 0
    OBVIOUS
  <2> QED BY <2>1, <2>2, <2>3
<1> QED BY <1>5, <1>6, <1>7 DEF f

\* A body in two calls of body_cb is the body in one.
LEMMA BodyJoins ==
  ASSUME NEW r, RequestOK(r), NEW p \in Seq(Byte), NEW t \in Seq(Byte),
         ~BodyOver(r, p)
  PROVE  /\ body_cb(body_cb(r, p), t).ok = TRUE <=> body_cb(r, p \o t).ok = TRUE
         /\ body_cb(body_cb(r, p), t).ok = TRUE =>
              body_cb(body_cb(r, p), t) = body_cb(r, p \o t)
<1>1. PICK b \in Seq(Byte) : b = r.body
  BY BodyIs
<1>2. PICK u \in Seq(Byte) : u = p \o t
  BY Joined
<1>3. PICK v \in Seq(Byte) : v = b \o p
  BY Joined
<1>4. v \o t = b \o u /\ Len(u) = Len(p) + Len(t) /\ Len(v) = Len(b) + Len(p)
  BY SMTT(30), <1>2, <1>3, ConcatAssociative, Joined
<1>5. PICK type : type = TypeOfBody(r)
  OBVIOUS
<1>6. type # "NONE"
  BY <1>5 DEF TypeOfBody
<1> DEFINE f == Bodied(r, type, v)
<1>7. body_cb(r, p) = f
  BY ZenonT(30), <1>1, <1>3, <1>5, BodyCallback
<1>8. RequestOK(f) /\ f.body = v /\ f.body_type = type
  BY BodiedIs
<1>9. Bodied(f, type, b \o u) = Bodied(r, type, b \o u)
  BY BodiedTwice
<1> HIDE DEF f
<1>10. TypeOfBody(f) = type
  BY <1>6, <1>8 DEF TypeOfBody
<1>11. BodyOver(f, t) <=> MaxContent <= Len(v) + Len(t)
  BY <1>6, <1>8 DEF BodyOver
<1>12. BodyOver(r, u) <=> MaxContent <= Len(b) + Len(u)
  <2>1. ~(r.body_type = "NONE" /\ r.body_length = 0)
    BY DEF BodyOver
  <2> QED BY <1>1, <2>1 DEF BodyOver
<1>13. Len(v) + Len(t) = Len(b) + Len(u)
  BY <1>4, SequenceIs
<1>14. body_cb(f, t).ok = TRUE <=> ~BodyOver(f, t)
  BY <1>8, BodyType
<1>15. body_cb(r, u).ok = TRUE <=> ~BodyOver(r, u)
  BY BodyType
<1>16. ASSUME ~BodyOver(f, t)
       PROVE  body_cb(f, t) = body_cb(r, u)
  <2>1. body_cb(f, t) = Bodied(f, TypeOfBody(f), f.body \o t)
    BY <1>8, <1>16, BodyTaken
  <2>2. body_cb(r, u) = Bodied(r, TypeOfBody(r), r.body \o u)
    BY <1>11, <1>12, <1>13, <1>16, BodyTaken
  <2> QED BY <1>1, <1>4, <1>5, <1>8, <1>9, <1>10, <2>1, <2>2
<1> QED BY <1>2, <1>7, <1>11, <1>12, <1>13, <1>14, <1>15, <1>16

\* The front of a body that is taken is taken.
LEMMA BodyPrefix ==
  ASSUME NEW r, RequestOK(r), NEW p \in Seq(Byte), NEW t \in Seq(Byte), ~BodyOver(r, p \o t)
  PROVE  ~BodyOver(r, p)
<1>1. PICK k \in Nat : k = Len(r.body)
  BY BodyIs
<1>2. Len(p \o t) = Len(p) + Len(t) /\ Len(p) \in Nat /\ Len(t) \in Nat /\ MaxContent \in Nat
  BY Joined, LimitsAssumption
<1>3. MaxContent <= k + Len(p) => MaxContent <= k + Len(p \o t)
  BY <1>2
<1> QED BY <1>1, <1>3 DEF BodyOver

\* body_cb does not look at the URL.
LEMMA BodyErased ==
  ASSUME NEW r, RequestOK(r), NEW p \in Seq(Byte)
  PROVE  /\ body_cb(Erased(r), p).ok = TRUE <=> body_cb(r, p).ok = TRUE
         /\ body_cb(r, p).ok = TRUE => Erased(body_cb(Erased(r), p)) = Erased(body_cb(r, p))
<1> DEFINE e == Erased(r)
<1>1. RequestOK(e)
  BY ErasedTwice
<1>2. e.body = r.body /\ e.body_type = r.body_type /\ e.body_length = r.body_length
  BY ErasedIs
<1>3. PICK n \in Seq(Byte) : n = r.body \o p
  BY BodyIs, Joined
<1>4. PICK type : type = TypeOfBody(r)
  OBVIOUS
<1>5. Bodied(e, type, n) = Erased(Bodied(r, type, n)) /\ RequestOK(Bodied(r, type, n))
  <2>1. Erased(Bodied(r, type, n)) = Bodied(Erased(r), type, n)
    BY BodiedTwice
  <2>2. RequestOK(Bodied(r, type, n))
    BY BodiedIs
  <2> QED BY <2>1, <2>2
<1> HIDE DEF e
<1>6. (BodyOver(e, p) <=> BodyOver(r, p)) /\ TypeOfBody(e) = type
  BY <1>2, <1>4 DEF BodyOver, TypeOfBody
<1>7. body_cb(e, p).ok = TRUE <=> ~BodyOver(e, p)
  BY <1>1, BodyType
<1>8. body_cb(r, p).ok = TRUE <=> ~BodyOver(r, p)
  BY BodyType
<1>9. ASSUME body_cb(r, p).ok = TRUE
      PROVE  Erased(body_cb(e, p)) = Erased(body_cb(r, p))
  <2>1. body_cb(e, p) = Bodied(e, TypeOfBody(e), e.body \o p)
    BY <1>1, <1>6, <1>8, <1>9, BodyTaken
  <2>2. body_cb(r, p) = Bodied(r, type, n)
    BY <1>3, <1>4, <1>8, <1>9, BodyTaken
  <2>3. body_cb(e, p) = Erased(Bodied(r, type, n))
    BY <1>2, <1>3, <1>5, <1>6, <2>1
  <2> QED BY <1>5, <2>2, <2>3, ErasedTwice
<1> QED BY <1>6, <1>7, <1>8, <1>9 DEF e

-----------------------------------------------------------------------------
(* The callback of a mark, whichever it is                                 *)

Accepted(req) == req.ok = TRUE
Declines(req) == req.ok = FALSE

\* The callback of each state
LEMMA GivenIs ==
  ASSUME NEW r, NEW p
  PROVE  /\ Given("s_header_field", r, p) = header_field_cb(r, p)
         /\ Given("s_header_value", r, p) = header_value_cb(r, p)
         /\ \A s \in UrlStates : Given(s, r, p) = request_uri_cb(r, p)
         /\ \A s : s \notin HeadMarks => Given(s, r, p) = body_cb(r, p)
  BY DEF Given, HeadMarks, UrlStates

Refuses(req) == req.ok = FALSE /\ req.bad_request_code > 0

\* A callback leaves a sound request, or an error for the client.
LEMMA GivenType ==
  ASSUME NEW s, NEW r, RequestOK(r), NEW p \in Seq(Byte)
  PROVE  /\ Accepted(Given(s, r, p)) => RequestOK(Given(s, r, p))
         /\ ~Accepted(Given(s, r, p)) => Refuses(Given(s, r, p))
<1>1. CASE s = "s_header_field"
  <2>1. Given(s, r, p) = header_field_cb(r, p)
    BY <1>1, GivenIs
  <2>2. Accepted(header_field_cb(r, p)) => RequestOK(header_field_cb(r, p))
    BY FieldType DEF Accepted
  <2>3. ~Accepted(header_field_cb(r, p)) => Refuses(header_field_cb(r, p))
    BY FieldType DEF Accepted, Refuses
  <2> QED BY <2>1, <2>2, <2>3
<1>2. CASE s = "s_header_value"
  <2>1. Given(s, r, p) = header_value_cb(r, p)
    BY <1>2, GivenIs
  <2>2. Accepted(header_value_cb(r, p)) => RequestOK(header_value_cb(r, p))
    BY ValueType DEF Accepted
  <2>3. ~Accepted(header_value_cb(r, p)) => Refuses(header_value_cb(r, p))
    BY ValueType DEF Accepted, Refuses
  <2> QED BY <2>1, <2>2, <2>3
<1>3. CASE s \in UrlStates
  <2>1. Given(s, r, p) = request_uri_cb(r, p)
    BY <1>3, GivenIs
  <2>2. Accepted(request_uri_cb(r, p)) => RequestOK(request_uri_cb(r, p))
    BY UriType DEF Accepted
  <2>3. ~Accepted(request_uri_cb(r, p)) => Refuses(request_uri_cb(r, p))
    BY UriType DEF Accepted, Refuses
  <2> QED BY <2>1, <2>2, <2>3
<1>4. CASE s \notin HeadMarks
  <2>1. Given(s, r, p) = body_cb(r, p)
    BY <1>4, GivenIs
  <2>2. Accepted(body_cb(r, p)) => RequestOK(body_cb(r, p))
    BY BodyType DEF Accepted
  <2>3. ~Accepted(body_cb(r, p)) => Refuses(body_cb(r, p))
    BY BodyType DEF Accepted, Refuses
  <2> QED BY <2>1, <2>2, <2>3
<1> QED BY <1>1, <1>2, <1>3, <1>4 DEF HeadMarks, UrlStates

\* When a callback accepts a piece it accepts the front of it.
LEMMA GivenPrefix ==
  ASSUME NEW s, NEW r, RequestOK(r), NEW p \in Seq(Byte), NEW t \in Seq(Byte),
         Accepted(Given(s, r, p \o t))
  PROVE  Accepted(Given(s, r, p))
<1>1. PICK u \in Seq(Byte) : u = p \o t
  BY Joined
<1>2. Accepted(Given(s, r, u))
  BY <1>1
<1>3. CASE s = "s_header_field"
  <2>1. Given(s, r, u) = header_field_cb(r, u) /\ Given(s, r, p) = header_field_cb(r, p)
    BY <1>3, GivenIs
  <2>2. ~NameOver(r, u)
    BY <1>2, <2>1, FieldType DEF Accepted
  <2>3. ~NameOver(r, p)
    BY <1>1, <2>2, FieldPrefix
  <2>4. Accepted(header_field_cb(r, p))
    BY <2>3, FieldType DEF Accepted
  <2> QED BY <2>1, <2>4
<1>4. CASE s = "s_header_value"
  <2>1. Given(s, r, u) = header_value_cb(r, u) /\ Given(s, r, p) = header_value_cb(r, p)
    BY <1>4, GivenIs
  <2>2. ~ValueOver(r, u)
    BY <1>2, <2>1, ValueType DEF Accepted
  <2>3. ~ValueOver(r, p)
    BY <1>1, <2>2, ValuePrefix
  <2>4. Accepted(header_value_cb(r, p))
    BY <2>3, ValueType DEF Accepted
  <2> QED BY <2>1, <2>4
<1>5. CASE s \in UrlStates
  <2>1. Given(s, r, u) = request_uri_cb(r, u) /\ Given(s, r, p) = request_uri_cb(r, p)
    BY <1>5, GivenIs
  <2>2. ~UriOver(r, u)
    BY <1>2, <2>1, UriType DEF Accepted
  <2>3. ~UriOver(r, p)
    BY <1>1, <2>2, UriPrefix
  <2>4. Accepted(request_uri_cb(r, p))
    BY <2>3, UriType DEF Accepted
  <2> QED BY <2>1, <2>4
<1>6. CASE s \notin HeadMarks
  <2>1. Given(s, r, u) = body_cb(r, u) /\ Given(s, r, p) = body_cb(r, p)
    BY <1>6, GivenIs
  <2>2. ~BodyOver(r, u)
    BY <1>2, <2>1, BodyType DEF Accepted
  <2>3. ~BodyOver(r, p)
    BY <1>1, <2>2, BodyPrefix
  <2>4. Accepted(body_cb(r, p))
    BY <2>3, BodyType DEF Accepted
  <2> QED BY <2>1, <2>4
<1> QED BY <1>3, <1>4, <1>5, <1>6 DEF HeadMarks, UrlStates

\* Two pieces are given as one.
LEMMA GivenJoins ==
  ASSUME NEW s, NEW r, RequestOK(r), NEW p \in Seq(Byte), NEW t \in Seq(Byte),
         NEW f, f = Given(s, r, p), Accepted(f)
  PROVE  /\ Accepted(Given(s, f, t)) <=> Accepted(Given(s, r, p \o t))
         /\ Accepted(Given(s, f, t)) => Erased(Given(s, f, t)) = Erased(Given(s, r, p \o t))
<1>1. PICK u : u = p \o t
  OBVIOUS
<1>3. CASE s = "s_header_field"
  <2>1. f = header_field_cb(r, p) /\ Given(s, f, t) = header_field_cb(f, t)
        /\ Given(s, r, u) = header_field_cb(r, u)
    BY <1>3, GivenIs
  <2>2. ~NameOver(r, p)
    BY <2>1, FieldType DEF Accepted
  <2>3. \/ header_field_cb(f, t) = header_field_cb(r, u)
        \/ header_field_cb(f, t).ok = FALSE /\ header_field_cb(r, u).ok = FALSE
    BY <1>1, <2>1, <2>2, FieldJoins DEF Accepted
  <2> QED BY <1>1, <2>1, <2>3 DEF Accepted
<1>4. CASE s = "s_header_value"
  <2>1. f = header_value_cb(r, p) /\ Given(s, f, t) = header_value_cb(f, t)
        /\ Given(s, r, u) = header_value_cb(r, u)
    BY <1>4, GivenIs
  <2>2. ~ValueOver(r, p)
    BY <2>1, ValueType DEF Accepted
  <2>3. \/ header_value_cb(f, t) = header_value_cb(r, u)
        \/ header_value_cb(f, t).ok = FALSE /\ header_value_cb(r, u).ok = FALSE
    BY <1>1, <2>1, <2>2, ValueJoins DEF Accepted
  <2> QED BY <1>1, <2>1, <2>3 DEF Accepted
<1>5. CASE s \in UrlStates
  <2>1. f = request_uri_cb(r, p) /\ Given(s, f, t) = request_uri_cb(f, t)
        /\ Given(s, r, u) = request_uri_cb(r, u)
    BY <1>5, GivenIs
  <2>2. /\ Accepted(request_uri_cb(f, t)) <=> Accepted(request_uri_cb(r, p \o t))
        /\ Accepted(request_uri_cb(f, t)) =>
             Erased(request_uri_cb(f, t)) = Erased(request_uri_cb(r, p \o t))
    BY <2>1, UriJoins DEF Accepted
  <2> QED BY <1>1, <2>1, <2>2 DEF Accepted
<1>6. CASE s \notin HeadMarks
  <2>1. f = body_cb(r, p) /\ Given(s, f, t) = body_cb(f, t) /\ Given(s, r, u) = body_cb(r, u)
    BY <1>6, GivenIs
  <2>2. ~BodyOver(r, p)
    BY <2>1, BodyType DEF Accepted
  <2>3. /\ Accepted(body_cb(f, t)) <=> Accepted(body_cb(r, p \o t))
        /\ Accepted(body_cb(f, t)) => body_cb(f, t) = body_cb(r, p \o t)
    BY <2>1, <2>2, BodyJoins DEF Accepted
  <2> QED BY <1>1, <2>1, <2>3 DEF Accepted
<1> QED BY <1>3, <1>4, <1>5, <1>6 DEF HeadMarks, UrlStates

\* A callback accepts two pieces as it accepts them as one.
LEMMA GivenTwice ==
  ASSUME NEW s, NEW r, RequestOK(r), NEW p \in Seq(Byte), NEW t \in Seq(Byte),
         Accepted(Given(s, r, p))
  PROVE  /\ Accepted(Given(s, Given(s, r, p), t)) <=> Accepted(Given(s, r, p \o t))
         /\ Accepted(Given(s, Given(s, r, p), t)) =>
              Erased(Given(s, Given(s, r, p), t)) = Erased(Given(s, r, p \o t))
  BY GivenJoins

\* A call without bytes changes nothing when bytes were given before.
LEMMA GivenNothing ==
  ASSUME NEW s \in HeadMarks, NEW r, RequestOK(r), NEW p \in Seq(Byte),
         NEW f, f = Given(s, r, p), Accepted(f)
  PROVE  Given(s, f, <<>>) = f
<1>3. CASE s = "s_header_field"
  <2>1. f = header_field_cb(r, p) /\ Given(s, f, <<>>) = header_field_cb(f, <<>>)
    BY <1>3, GivenIs
  <2>2. ~NameOver(r, p)
    BY <2>1, FieldType DEF Accepted
  <2> QED BY <2>1, <2>2, FieldNothing DEF Accepted
<1>4. CASE s = "s_header_value"
  <2>1. f = header_value_cb(r, p) /\ Given(s, f, <<>>) = header_value_cb(f, <<>>)
    BY <1>4, GivenIs
  <2>2. ~ValueOver(r, p)
    BY <2>1, ValueType DEF Accepted
  <2> QED BY <2>1, <2>2, ValueNothing
<1>5. CASE s \in UrlStates
  <2>1. f = request_uri_cb(r, p) /\ Given(s, f, <<>>) = request_uri_cb(f, <<>>)
    BY <1>5, GivenIs
  <2>2. ~UriOver(r, p)
    BY <2>1, UriType DEF Accepted
  <2> QED BY <2>1, <2>2, UriNothing DEF Accepted
<1> QED BY <1>3, <1>4, <1>5 DEF HeadMarks, UrlStates

\* No callback looks at the size of the URL's buffer.
LEMMA GivenErased ==
  ASSUME NEW s, NEW r, RequestOK(r), NEW p \in Seq(Byte)
  PROVE  /\ Accepted(Given(s, Erased(r), p)) <=> Accepted(Given(s, r, p))
         /\ Accepted(Given(s, r, p)) =>
              Erased(Given(s, Erased(r), p)) = Erased(Given(s, r, p))
<1>3. CASE s = "s_header_field"
  <2>1. Given(s, r, p) = header_field_cb(r, p) /\ Given(s, Erased(r), p) = header_field_cb(Erased(r), p)
    BY <1>3, GivenIs
  <2>2. Accepted(header_field_cb(Erased(r), p)) <=> Accepted(header_field_cb(r, p))
    BY FieldErased DEF Accepted
  <2>3. Accepted(header_field_cb(r, p)) => Erased(header_field_cb(Erased(r), p)) = Erased(header_field_cb(r, p))
    BY FieldErased DEF Accepted
  <2> QED BY <2>1, <2>2, <2>3 DEF Accepted
<1>4. CASE s = "s_header_value"
  <2>1. Given(s, r, p) = header_value_cb(r, p) /\ Given(s, Erased(r), p) = header_value_cb(Erased(r), p)
    BY <1>4, GivenIs
  <2>2. Accepted(header_value_cb(Erased(r), p)) <=> Accepted(header_value_cb(r, p))
    BY ValueErased DEF Accepted
  <2>3. Accepted(header_value_cb(r, p)) => Erased(header_value_cb(Erased(r), p)) = Erased(header_value_cb(r, p))
    BY ValueErased DEF Accepted
  <2> QED BY <2>1, <2>2, <2>3 DEF Accepted
<1>5. CASE s \in UrlStates
  <2>1. Given(s, r, p) = request_uri_cb(r, p) /\ Given(s, Erased(r), p) = request_uri_cb(Erased(r), p)
    BY <1>5, GivenIs
  <2>2. Accepted(request_uri_cb(Erased(r), p)) <=> Accepted(request_uri_cb(r, p))
    BY UriErased DEF Accepted
  <2>3. Accepted(request_uri_cb(r, p)) => Erased(request_uri_cb(Erased(r), p)) = Erased(request_uri_cb(r, p))
    BY UriErased DEF Accepted
  <2> QED BY <2>1, <2>2, <2>3 DEF Accepted
<1>6. CASE s \notin HeadMarks
  <2>1. Given(s, r, p) = body_cb(r, p) /\ Given(s, Erased(r), p) = body_cb(Erased(r), p)
    BY <1>6, GivenIs
  <2>2. Accepted(body_cb(Erased(r), p)) <=> Accepted(body_cb(r, p))
    BY BodyErased DEF Accepted
  <2>3. Accepted(body_cb(r, p)) => Erased(body_cb(Erased(r), p)) = Erased(body_cb(r, p))
    BY BodyErased DEF Accepted
  <2> QED BY <2>1, <2>2, <2>3 DEF Accepted
<1> QED BY <1>3, <1>4, <1>5, <1>6 DEF HeadMarks, UrlStates

-----------------------------------------------------------------------------
(* The last request, with what is marked handed over                       *)

AllOK(rs) == IsSequence(rs) /\ \A i \in 1 .. Len(rs) : RequestOK(rs[i])
HandedOf(rs, s, p) == IF p \in {Null, <<>>} THEN rs ELSE Swapped(rs, Given(s, Last(rs), p))
Longer(p, c) == (IF p = Null THEN <<>> ELSE p) \o <<c>>

\* The current request is a sound one.
LEMMA LastOK ==
  ASSUME NEW rs, AllOK(rs), Len(rs) > 0
  PROVE  IsSequence(rs) /\ RequestOK(Last(rs))
<1>1. Len(rs) \in Nat /\ Len(rs) \in 1 .. Len(rs)
  BY DEF AllOK, IsSequence
<1> QED BY <1>1 DEF AllOK, Last

\* Another sound request in its place
LEMMA SwappedOK ==
  ASSUME NEW rs, AllOK(rs), Len(rs) > 0, NEW x, RequestOK(x)
  PROVE  AllOK(Swapped(rs, x)) /\ Len(Swapped(rs, x)) = Len(rs)
  BY SwappedIs DEF AllOK

\* The mark after one byte more
LEMMA LongerIs ==
  ASSUME NEW p \in Seq(Byte) \cup {Null}, NEW c \in Byte
  PROVE  /\ Longer(p, c) \in Seq(Byte) /\ Longer(p, c) \notin {Null, <<>>}
         /\ p \in {Null, <<>>} => Longer(p, c) = <<c>>
         /\ p \notin {Null, <<>>} => p \in Seq(Byte) /\ Longer(p, c) = p \o <<c>>
<1>1. <<c>> \in Seq(Byte) /\ <<c>> # <<>> /\ <<>> \in Seq(Byte) /\ <<>> \o <<c>> = <<c>>
  OBVIOUS
<1>2. <<>> # Null
  BY DEF Null
<1>3. CASE p \in {Null, <<>>}
  <2>1. Longer(p, c) = <<c>>
    BY <1>1, <1>2, <1>3 DEF Longer
  <2>2. <<c>> # Null
    BY <1>1, NotNull
  <2> QED BY <1>1, <1>3, <2>1, <2>2
<1>4. CASE p \notin {Null, <<>>}
  <2>1. PICK w \in Seq(Byte) : w = p
    BY <1>4
  <2>2. Longer(p, c) = w \o <<c>>
    BY <1>4, <2>1 DEF Longer
  <2>3. w \o <<c>> \in Seq(Byte) /\ w \o <<c>> # <<>>
    OBVIOUS
  <2>4. w \o <<c>> # Null
    BY <2>3, NotNull
  <2> QED BY <1>4, <2>1, <2>2, <2>3, <2>4
<1> QED BY <1>3, <1>4

\* One byte more is handed over as one byte alone after the others.
LEMMA OneByteMore ==
  ASSUME NEW rs, AllOK(rs), Len(rs) > 0, NEW s, NEW p \in Seq(Byte) \cup {Null},
         NEW c \in Byte, Accepted(Given(s, Last(rs), Longer(p, c))),
         NEW h, h = HandedOf(rs, s, p), NEW k, k = Kept(h),
         NEW x, x = Given(s, Last(k), <<c>>)
  PROVE  /\ p \notin {Null, <<>>} => Accepted(Given(s, Last(rs), p))
         /\ Accepted(x) /\ RequestOK(x) /\ IsSequence(k) /\ Len(k) > 0
         /\ Kept(Swapped(rs, Given(s, Last(rs), Longer(p, c)))) = Swapped(k, Erased(x))
<1>1. IsSequence(rs) /\ RequestOK(Last(rs))
  BY LastOK
<1>2. PICK r : r = Last(rs)
  OBVIOUS
<1>3. RequestOK(r)
  BY <1>1, <1>2
<1>4. PICK m \in Seq(Byte) : m = Longer(p, c)
  BY LongerIs
<1>5. <<c>> \in Seq(Byte)
  OBVIOUS
<1>6. PICK g : g = Given(s, r, m)
  OBVIOUS
<1>7. Accepted(g) /\ RequestOK(g)
  BY <1>2, <1>3, <1>4, <1>6, GivenType
<1>8. Kept(Swapped(rs, g)) = Swapped(Kept(rs), Erased(g))
  BY <1>1, KeptSwapped
<1>9. IsSequence(Kept(rs)) /\ Len(Kept(rs)) > 0 /\ Last(Kept(rs)) = Erased(r)
  BY <1>1, <1>2, KeptIs
<1>10. CASE p \in {Null, <<>>}
  <2>1. h = rs /\ m = <<c>>
    BY <1>4, <1>10, LongerIs DEF HandedOf
  <2>2. x = Given(s, Erased(r), m)
    BY <1>9, <2>1
  <2>3. Accepted(x) /\ Erased(x) = Erased(g)
    BY <1>3, <1>6, <1>7, <2>2, GivenErased
  <2>4. RequestOK(x)
    BY <1>3, <2>2, <2>3, ErasedTwice, GivenType
  <2> QED BY <1>2, <1>4, <1>6, <1>8, <1>9, <1>10, <2>1, <2>3, <2>4
<1>11. CASE p \notin {Null, <<>>}
  <2>1. p \in Seq(Byte) /\ m = p \o <<c>>
    BY <1>4, <1>11, LongerIs
  <2>2. PICK f : f = Given(s, r, p)
    OBVIOUS
  <2>3. Accepted(f)
    BY <1>3, <1>5, <1>6, <1>7, <2>1, <2>2, GivenPrefix
  <2>4. RequestOK(f)
    BY <1>3, <2>1, <2>2, <2>3, GivenType
  <2>5. h = Swapped(rs, f)
    BY <1>2, <1>11, <2>2 DEF HandedOf
  <2>6. IsSequence(h) /\ Len(h) > 0 /\ Last(h) = f
    BY <1>1, <2>5, SwappedIs
  <2>7. IsSequence(k) /\ Len(k) > 0 /\ Last(k) = Erased(f)
    BY <2>6, KeptIs
  <2>8. x = Given(s, Erased(f), <<c>>)
    BY <2>7
  <2>9. Accepted(Given(s, f, <<c>>)) /\ Erased(Given(s, f, <<c>>)) = Erased(g)
    <3>1. Accepted(Given(s, r, p \o <<c>>))
      BY <1>6, <1>7, <2>1
    <3>2. /\ Accepted(Given(s, f, <<c>>)) <=> Accepted(Given(s, r, p \o <<c>>))
          /\ Accepted(Given(s, f, <<c>>)) =>
               Erased(Given(s, f, <<c>>)) = Erased(Given(s, r, p \o <<c>>))
      <4>1. PICK t \in Seq(Byte) : t = <<c>>
        BY <1>5
      <4>2. p \in Seq(Byte)
        BY <2>1
      <4>3. /\ Accepted(Given(s, f, t)) <=> Accepted(Given(s, r, p \o t))
            /\ Accepted(Given(s, f, t)) =>
                 Erased(Given(s, f, t)) = Erased(Given(s, r, p \o t))
        <5>1. Accepted(Given(s, r, p))
          BY <2>2, <2>3
        <5>2. /\ Accepted(Given(s, Given(s, r, p), t)) <=> Accepted(Given(s, r, p \o t))
              /\ Accepted(Given(s, Given(s, r, p), t)) =>
                   Erased(Given(s, Given(s, r, p), t)) = Erased(Given(s, r, p \o t))
          BY <1>3, <4>2, <5>1, GivenTwice
        <5> QED BY <2>2, <5>2
      <4> QED BY <4>1, <4>3
    <3> QED BY <1>6, <2>1, <3>1, <3>2
  <2>10. Accepted(x) /\ Erased(x) = Erased(g)
    <3>1. /\ Accepted(Given(s, Erased(f), <<c>>)) <=> Accepted(Given(s, f, <<c>>))
          /\ Accepted(Given(s, f, <<c>>)) =>
               Erased(Given(s, Erased(f), <<c>>)) = Erased(Given(s, f, <<c>>))
      BY <1>5, <2>4, GivenErased
    <3> QED BY <2>8, <2>9, <3>1
  <2>11. RequestOK(x)
    BY <1>5, <2>4, <2>8, <2>10, ErasedTwice, GivenType
  <2>12. k = Swapped(Kept(rs), Erased(f))
    BY <1>1, <2>5, KeptSwapped
  <2>13. Swapped(k, Erased(g)) = Swapped(Kept(rs), Erased(g))
    BY <1>9, <2>12, SwapTwice
  <2> QED BY <1>2, <1>4, <1>6, <1>8, <2>2, <2>3, <2>7, <2>10, <2>11, <2>13
<1> QED BY <1>10, <1>11

\* When one byte more is too much, so is this byte alone after the others.
LEMMA OneByteTooMuch ==
  ASSUME NEW rs, AllOK(rs), Len(rs) > 0, NEW s, NEW p \in Seq(Byte) \cup {Null},
         NEW c \in Byte, ~Accepted(Given(s, Last(rs), Longer(p, c))),
         p \notin {Null, <<>>} => Accepted(Given(s, Last(rs), p)),
         NEW h, h = HandedOf(rs, s, p), NEW k, k = Kept(h)
  PROVE  Declines(Given(s, Last(k), <<c>>))
<1>1. IsSequence(rs) /\ RequestOK(Last(rs))
  BY LastOK
<1>2. PICK r : r = Last(rs)
  OBVIOUS
<1>3. RequestOK(r)
  BY <1>1, <1>2
<1>4. PICK m \in Seq(Byte) : m = Longer(p, c)
  BY LongerIs
<1>5. PICK t \in Seq(Byte) : t = <<c>>
  <2>1. <<c>> \in Seq(Byte)
    OBVIOUS
  <2> QED BY <2>1
<1>6. ~Accepted(Given(s, r, m))
  BY <1>2, <1>4
<1>7. ASSUME NEW f, RequestOK(f), ~Accepted(Given(s, f, t))
      PROVE  Declines(Given(s, Erased(f), t))
  <2>1. ~Accepted(Given(s, Erased(f), t))
    BY <1>7, GivenErased
  <2>2. RequestOK(Erased(f))
    BY <1>7, ErasedTwice
  <2>3. Refuses(Given(s, Erased(f), t))
    BY <2>1, <2>2, GivenType
  <2> QED BY <2>3 DEF Refuses, Declines
<1>8. CASE p \in {Null, <<>>}
  <2>1. h = rs /\ m = t
    BY <1>4, <1>5, <1>8, LongerIs DEF HandedOf
  <2>2. Last(k) = Erased(r)
    BY <1>1, <1>2, <2>1, KeptIs
  <2>3. ~Accepted(Given(s, r, t))
    BY <1>6, <2>1
  <2> QED BY <1>3, <1>5, <1>7, <2>2, <2>3
<1>9. CASE p \notin {Null, <<>>}
  <2>1. p \in Seq(Byte) /\ m = p \o t
    BY <1>4, <1>5, <1>9, LongerIs
  <2>2. PICK f : f = Given(s, r, p)
    OBVIOUS
  <2>3. Accepted(f)
    BY <1>2, <1>9, <2>2
  <2>4. RequestOK(f)
    BY <1>3, <2>1, <2>2, <2>3, GivenType
  <2>5. h = Swapped(rs, f)
    BY <1>2, <1>9, <2>2 DEF HandedOf
  <2>6. IsSequence(h) /\ Len(h) > 0 /\ Last(h) = f
    BY <1>1, <2>5, SwappedIs
  <2>7. Last(k) = Erased(f)
    BY <2>6, KeptIs
  <2>8. ~Accepted(Given(s, f, t))
    <3>1. Accepted(Given(s, r, p))
      BY <2>2, <2>3
    <3>2. Accepted(Given(s, Given(s, r, p), t)) <=> Accepted(Given(s, r, p \o t))
      BY <1>3, <2>1, <3>1, GivenTwice
    <3> QED BY <1>6, <2>1, <2>2, <3>2
  <2> QED BY <1>5, <1>7, <2>4, <2>7, <2>8
<1> QED BY <1>8, <1>9

-----------------------------------------------------------------------------
(* Steps of the parser: what they leave of what is known                   *)

\* RequestsOK in the words of the lemmas
LEMMA RequestsAre ==
  RequestsOK <=> /\ AllOK(requests)
                 /\ parser.state \notin {"s_start_req", "s_dead"} => Len(requests) > 0
  BY DEF RequestsOK, AllOK, IsSequence

\* What is known of the requests is what the current mark makes of them.
LEMMA HandedIs ==
  ASSUME RequestsOK, Len(requests) > 0
  PROVE  /\ Handed = HandedOf(requests, parser.state, piece)
         /\ Leftover = Given(parser.state, Last(requests), piece)
<1>1. IsSequence(requests)
  BY RequestsAre DEF AllOK
<1>2. Leftover = Given(parser.state, Last(requests), piece)
  BY DEF Leftover, Current
<1>3. Front(requests) \o <<Leftover>> = Swapped(requests, Leftover)
  BY <1>1, SwapLast
<1> QED BY <1>2, <1>3 DEF Handed, HandedOf, Marked

\* Without a mark all that is known is in the requests.
LEMMA UnmarkedIs ==
  ASSUME piece \in {Null, <<>>}
  PROVE  ~Marked /\ Handed = requests
  BY DEF Handed, Marked

\* The bytes that are left are bytes.
LEMMA ChIs ==
  ASSUME stream.bytes \in Seq(Byte), pos \in 0 .. Len(stream.bytes), pos < Len(stream.bytes)
  PROVE  ch \in Byte /\ pos + 1 \in 1 .. Len(stream.bytes)
<1>1. Len(stream.bytes) \in Nat /\ pos \in Nat
  BY SequenceIs
<1>2. pos + 1 \in 1 .. Len(stream.bytes)
  BY <1>1
<1> QED BY <1>2, SequenceIs DEF ch

\* The reader takes a byte that the callback accepts.
LEMMA TakenIs ==
  ASSUME NEW q, NEW k, k = q.requests, NEW x, NEW c, x = Given(q.state, Last(k), <<c>>),
         Accepted(x), RequestOK(x), IsSequence(k), Len(k) > 0
  PROVE  Taken(q, c) = [q EXCEPT !.requests = Swapped(k, Erased(x))]
<1>2. Front(k) \o <<Erased(x)>> = Swapped(k, Erased(x))
  BY SwapLast
<1>3. Taken(q, c) = Hand(q, x)
  BY DEF Taken
<1>4. Hand(q, x) = [q EXCEPT !.requests = Front(@) \o <<Erased(x)>>]
  BY DEF Hand, Accepted
<1>5. [q EXCEPT !.requests = Front(@) \o <<Erased(x)>>]
      = [q EXCEPT !.requests = Swapped(k, Erased(x))]
  BY <1>2
<1> QED BY <1>3, <1>4, <1>5

\* The fields of a reader
LEMMA ReaderIs ==
  ASSUME NEW p, NEW k, NEW o, NEW rs, NEW q, q = Reader(p, k, o, rs)
  PROVE  /\ q.state = p.state /\ q.header_state = p.header_state /\ q.flags = p.flags
         /\ q.content_length = p.content_length /\ q.method = p.method
         /\ q.version = p.version /\ q.keep_alive = k /\ q.complete = o /\ q.requests = rs
         /\ \A t : [q EXCEPT !.requests = t] = Reader(p, k, o, t)
  BY DEF Reader

\* The callbacks of two states are the same one.
SameMark(s, t) ==
  s = t \/ (s \notin HeadMarks /\ t \notin HeadMarks) \/ (s \in UrlStates /\ t \in UrlStates)

\* Two states with the same callback
LEMMA SameGiven ==
  ASSUME NEW s, NEW t, SameMark(s, t), NEW r, NEW p
  PROVE  Given(s, r, p) = Given(t, r, p)
  BY GivenIs DEF SameMark

\* A byte that is marked is taken by the reader.
LEMMA MarkStep ==
  ASSUME PieceOK, RequestsOK, Len(requests) > 0, ch \in Byte, Mark,
         UNCHANGED <<requests, keep_alive, complete>>,
         piece = Null \/ SameMark(parser'.state, parser.state),
         Accepted(Leftover'),
         NEW q, q = Reader(parser', keep_alive, complete, Kept(Handed))
  PROVE  /\ Marked => Accepted(Leftover)
         /\ Known' = Taken(q, ch)
<1> DEFINE s == parser'.state
           rs == requests
           c == ch
           g == Given(s, Last(rs), Longer(piece, c))
           h == HandedOf(rs, s, piece)
           x == Given(s, Last(Kept(h)), <<c>>)
<1>1. AllOK(rs) /\ piece \in Seq(Byte) \cup {Null}
  BY RequestsAre DEF PieceOK
<1>2. piece' = Longer(piece, c)
  BY DEF Mark, Longer
<1>3. Leftover' = g
  BY <1>2 DEF Leftover, Current
<1>4. piece' \notin {Null, <<>>}
  BY <1>1, <1>2, LongerIs
<1>5. Handed = h /\ (Marked => Leftover = Given(s, Last(rs), piece))
  <2>1. CASE piece = Null
    BY <2>1 DEF Handed, HandedOf, Marked
  <2>2. CASE piece # Null
    <3>1. Given(parser.state, Last(rs), piece) = Given(s, Last(rs), piece)
      BY <2>2, SameGiven
    <3>2. Handed = HandedOf(requests, parser.state, piece)
          /\ Leftover = Given(parser.state, Last(requests), piece)
      BY HandedIs
    <3> QED BY <3>1, <3>2 DEF HandedOf
  <2> QED BY <2>1, <2>2
<1>6. /\ piece \notin {Null, <<>>} => Accepted(Given(s, Last(rs), piece))
      /\ Accepted(x) /\ RequestOK(x) /\ IsSequence(Kept(h)) /\ Len(Kept(h)) > 0
      /\ Kept(Swapped(rs, g)) = Swapped(Kept(h), Erased(x))
  <2>1. Accepted(Given(s, Last(rs), Longer(piece, c)))
    BY <1>3
  <2> QED BY <1>1, <2>1, OneByteMore
<1>7. Handed' = Swapped(rs, g)
  <2>1. Handed' = Front(rs) \o <<g>>
    BY <1>3, <1>4 DEF Handed, Marked
  <2> QED BY <1>1, <2>1, SwapLast DEF AllOK
<1>8. q.requests = Kept(h) /\ q.state = s
  BY <1>5, ReaderIs
<1> HIDE DEF g, h, x, s, c
<1>9. Taken(q, c) = [q EXCEPT !.requests = Swapped(Kept(h), Erased(x))]
  BY <1>6, <1>8, TakenIs DEF x
<1>10. [q EXCEPT !.requests = Swapped(Kept(h), Erased(x))]
       = Reader(parser', keep_alive, complete, Swapped(Kept(h), Erased(x)))
  BY ReaderIs
<1>11. Known' = Reader(parser', keep_alive, complete, Kept(Swapped(rs, g)))
  BY <1>7 DEF Known
<1>12. Marked => Accepted(Leftover)
  BY <1>5, <1>6 DEF Marked
<1> QED BY <1>6, <1>9, <1>10, <1>11, <1>12 DEF c

\* The reader refuses a byte that its callback declines.
LEMMA TakenRefused ==
  ASSUME NEW q, NEW c, NEW k, k = q.requests, NEW s, s = q.state,
         Declines(Given(s, Last(k), <<c>>))
  PROVE  Taken(q, c) = Refused
  BY DEF Taken, Hand, Declines

\* A byte that is marked and is one too many is refused by the reader.
LEMMA MarkRefused ==
  ASSUME PieceOK, RequestsOK, Len(requests) > 0, ch \in Byte, Mark, UNCHANGED requests,
         piece = Null \/ SameMark(parser'.state, parser.state),
         Marked => Accepted(Leftover), ~Accepted(Leftover'),
         NEW q, q = Reader(parser', keep_alive, complete, Kept(Handed))
  PROVE  Taken(q, ch) = Refused
<1> DEFINE s == parser'.state
           rs == requests
           c == ch
           g == Given(s, Last(rs), Longer(piece, c))
           h == HandedOf(rs, s, piece)
<1>1. AllOK(rs) /\ piece \in Seq(Byte) \cup {Null}
  BY RequestsAre DEF PieceOK
<1>2. piece' = Longer(piece, c)
  BY DEF Mark, Longer
<1>3. Leftover' = g
  BY <1>2 DEF Leftover, Current
<1>4. Handed = h /\ (Marked => Leftover = Given(s, Last(rs), piece))
  <2>1. CASE piece = Null
    BY <2>1 DEF Handed, HandedOf, Marked
  <2>2. CASE piece # Null
    <3>1. Given(parser.state, Last(rs), piece) = Given(s, Last(rs), piece)
      BY <2>2, SameGiven
    <3>2. Handed = HandedOf(requests, parser.state, piece)
          /\ Leftover = Given(parser.state, Last(requests), piece)
      BY HandedIs
    <3> QED BY <3>1, <3>2 DEF HandedOf
  <2> QED BY <2>1, <2>2
<1>5. piece \notin {Null, <<>>} => Accepted(Given(s, Last(rs), piece))
  BY <1>4 DEF Marked
<1>6. ~Accepted(Given(s, Last(rs), Longer(piece, c)))
  BY <1>3
<1>7. q.requests = Kept(h) /\ q.state = s
  BY <1>4, ReaderIs
<1> HIDE DEF g, h, s, rs, c
<1>8. PICK k : k = Kept(h)
  OBVIOUS
<1>9. Declines(Given(s, Last(k), <<c>>))
  BY <1>1, <1>5, <1>6, <1>8, OneByteTooMuch DEF h, c, rs
<1> QED BY <1>7, <1>8, <1>9, TakenRefused DEF c

\* A byte that is marked leaves a sound mark.
LEMMA MarkKeeps ==
  ASSUME PieceOK, RequestsOK, Len(requests) > 0, ch \in Byte, Mark,
         UNCHANGED requests, parser'.state \in MarkStates
  PROVE  PieceOK' /\ RequestsOK'
<1>1. piece \in Seq(Byte) \cup {Null} /\ piece' = Longer(piece, ch)
  BY DEF PieceOK, Mark, Longer
<1>2. piece' \in Seq(Byte) /\ piece' \notin {Null, <<>>}
  BY <1>1, LongerIs
<1>3. PieceOK'
  BY <1>2 DEF PieceOK
<1>4. RequestsOK'
  BY DEF RequestsOK
<1> QED BY <1>3, <1>4

\* The callback of what is marked changes nothing that is known.
LEMMA CallStep ==
  ASSUME PieceOK, RequestsOK, Len(requests) > 0, piece # Null,
         Called(Given(parser.state, Current, piece)), Unmark, ~failed',
         parser'.state \notin HeadMarks
  PROVE  /\ PieceOK' /\ RequestsOK'
         /\ Marked => Accepted(Leftover)
         /\ Known' = Reader(parser', keep_alive, complete, Kept(Handed))
<1> DEFINE g == Given(parser.state, Last(requests), piece)
<1>1. /\ AllOK(requests) /\ IsSequence(requests) /\ RequestOK(Last(requests))
      /\ piece \in Seq(Byte)
  BY RequestsAre, LastOK DEF PieceOK
<1>2. /\ requests' = Front(requests) \o <<g>> /\ failed' = ~g.ok
      /\ keep_alive' = keep_alive /\ complete' = complete
  BY DEF Called, Current
<1>3. Accepted(g) /\ RequestOK(g)
  <2>1. ~Accepted(g) => Refuses(g)
    BY <1>1, GivenType
  <2>2. ~Refuses(g)
    BY <1>2 DEF Refuses
  <2> QED BY <1>1, <2>1, <2>2, GivenType
<1>4. Leftover = g
  BY DEF Leftover, Current
<1> HIDE DEF g
<1>5. requests' = Swapped(requests, g)
  BY <1>1, <1>2, SwapLast
<1>6. AllOK(requests') /\ Len(requests') > 0
  BY <1>1, <1>3, <1>5, SwappedOK
<1>7. piece' = Null
  BY DEF Unmark
<1>8. PieceOK' /\ RequestsOK'
  <2>1. PieceOK'
    BY <1>7, NotNull DEF PieceOK, Null
  <2>2. RequestsOK'
    BY <1>6 DEF RequestsOK, AllOK, IsSequence
  <2> QED BY <2>1, <2>2
<1>9. Handed' = requests'
  BY <1>7 DEF Handed, Marked
<1>10. requests' = Handed
  <2>1. CASE Marked
    BY <1>1, <1>4, <1>5, <2>1, SwapLast DEF Handed
  <2>2. CASE ~Marked
    <3>1. piece = <<>>
      BY <2>2 DEF Marked
    <3>2. g = Last(requests)
      BY <1>4, <3>1 DEF PieceOK, Current
    <3>3. Swapped(requests, Last(requests)) = requests
      BY <1>1, SwapSame
    <3>4. Handed = requests
      BY <2>2 DEF Handed
    <3> QED BY <1>5, <3>2, <3>3, <3>4
  <2> QED BY <2>1, <2>2
<1>11. Known' = Reader(parser', keep_alive, complete, Kept(Handed))
  BY <1>2, <1>9, <1>10 DEF Known
<1> QED BY <1>3, <1>4, <1>8, <1>11

\* No mark, no callback
LEMMA QuietStep ==
  ASSUME PieceOK, RequestsOK, piece = Null, UNCHANGED <<piece, requests, keep_alive, complete>>,
         parser'.state \notin HeadMarks,
         parser'.state \notin {"s_start_req", "s_dead"} => Len(requests) > 0
  PROVE  /\ PieceOK' /\ RequestsOK' /\ ~Marked
         /\ Known = Reader(parser, keep_alive, complete, Kept(requests))
         /\ Known' = Reader(parser', keep_alive, complete, Kept(requests))
<1>1. PieceOK'
  BY DEF PieceOK, Null
<1>2. RequestsOK'
  BY DEF RequestsOK
<1>3. ~Marked /\ Handed = requests /\ Handed' = requests
  BY DEF Handed, Marked
<1> QED BY <1>1, <1>2, <1>3 DEF Known

\* A call of the application's callbacks without a mark: the last request is replaced.
LEMMA ReplaceStep ==
  ASSUME PieceOK, RequestsOK, Len(requests) > 0, piece = Null, piece' = Null,
         NEW x, requests' = Front(requests) \o <<x>>, RequestOK(x),
         parser'.state \notin HeadMarks
  PROVE  /\ PieceOK' /\ RequestsOK' /\ ~Marked
         /\ Known = Reader(parser, keep_alive, complete, Kept(requests))
         /\ Known' = Reader(parser', keep_alive', complete', Swapped(Kept(requests), Erased(x)))
         /\ Last(Kept(requests)) = Erased(Current)
         /\ RequestOK(Current) /\ IsSequence(Kept(requests)) /\ Len(Kept(requests)) > 0
<1>1. AllOK(requests) /\ IsSequence(requests) /\ RequestOK(Last(requests))
  BY RequestsAre, LastOK
<1>2. requests' = Swapped(requests, x)
  BY <1>1, SwapLast
<1>3. AllOK(requests') /\ Len(requests') > 0
  BY <1>1, <1>2, SwappedOK
<1>4. RequestsOK'
  BY <1>3 DEF RequestsOK, AllOK, IsSequence
<1>5. PieceOK'
  BY DEF PieceOK, Null
<1>6. ~Marked /\ Handed = requests /\ Handed' = requests'
  BY DEF Handed, Marked
<1>7. Kept(requests') = Swapped(Kept(requests), Erased(x))
  BY <1>1, <1>2, KeptSwapped
<1>8. Known' = Reader(parser', keep_alive', complete', Swapped(Kept(requests), Erased(x)))
  BY <1>6, <1>7 DEF Known
<1>9. /\ Last(Kept(requests)) = Erased(Current) /\ IsSequence(Kept(requests))
      /\ Len(Kept(requests)) > 0
  BY <1>1, KeptIs DEF Current
<1>10. Known = Reader(parser, keep_alive, complete, Kept(requests))
  BY <1>6 DEF Known
<1> QED BY <1>1, <1>4, <1>5, <1>6, <1>8, <1>9, <1>10 DEF Current

-----------------------------------------------------------------------------
(* The reader's step in each state                                         *)

\* The reader over the request line
LEMMA ReadRequestLine ==
  ASSUME NEW q, NEW c
  PROVE  /\ q.state = "s_dead" => Read(q, c) = IF c \in {CR, LF} THEN At(q, "s_dead") ELSE Refused
         /\ q.state = "s_start_req" =>
              Read(q, c) = IF c \in DOMAIN FirstMethod THEN Began(q, c)
                           ELSE IF c \in {CR, LF} THEN At(q, "s_start_req") ELSE Refused
         /\ q.state = "s_req_http_start" =>
              Read(q, c) = IF c \in Versions THEN At([q EXCEPT !.version = c], "s_req_http_minor")
                           ELSE IF c = " " THEN At(q, "s_req_http_start") ELSE Refused
         /\ q.state = "s_req_http_minor" =>
              Read(q, c) = IF c = CR THEN At(q, "s_req_line_almost_done")
                           ELSE IF c = LF THEN At(q, "s_header_field_start") ELSE Refused
         /\ q.state = "s_req_line_almost_done" =>
              Read(q, c) = IF c = LF THEN At(q, "s_header_field_start") ELSE Refused
  BY DEF Read, UrlStarts, UrlEnds, UrlStates

\* The reader over a method
LEMMA ReadMethod ==
  ASSUME NEW q, NEW c, q.state = "s_req_method"
  PROVE  Read(q, c) = MethodByte(q, c)
  BY DEF Read, UrlStarts, UrlEnds, UrlStates
\* The reader before a URL begins
LEMMA ReadBeforeUrl ==
  ASSUME NEW q, NEW c, q.state = "s_req_spaces_before_url"
  PROVE  /\ c = " " => Read(q, c) = q
         /\ c # " " => Read(q, c) = UrlRead(q, UrlBegin(q.method), c)
  BY DEF Read, UrlStarts, UrlEnds, UrlStates
\* The reader where a URL may not end
LEMMA ReadUrlStart ==
  ASSUME NEW q, NEW c, q.state \in UrlStarts
  PROVE  Read(q, c) = UrlRead(q, q.state, c)
  BY DEF Read, UrlStarts, UrlEnds, UrlStates
\* The reader where a URL may end
LEMMA ReadUrl ==
  ASSUME NEW q, NEW c, q.state \in UrlEnds
  PROVE  /\ c \in {" ", CR, LF} => Read(q, c) = UrlOver(q, c)
         /\ c \notin {" ", CR, LF} => Read(q, c) = UrlRead(q, q.state, c)
  BY DEF Read, UrlStarts, UrlEnds, UrlStates

\* The reader over the headers
LEMMA ReadHeaders ==
  ASSUME NEW q, NEW c
  PROVE  /\ q.state = "s_header_field_start" => Read(q, c) = LineStart(q, c)
         /\ q.state = "s_header_field" => Read(q, c) = NameByte(q, c)
         /\ q.state = "s_header_value_start" => Read(q, c) = ValueStart(q, c)
         /\ q.state = "s_header_value" => Read(q, c) = ValueByte(q, c)
         /\ q.state = "s_header_almost_done" => Read(q, c) = IF c = LF THEN LineEnd(q) ELSE Refused
         /\ q.state = "s_header_value_lws" =>
              Read(q, c) = IF c = " " THEN At(q, "s_header_value_start")
                           ELSE LineStart(At(q, "s_header_field_start"), c)
         /\ q.state = "s_headers_almost_done" => Read(q, c) = IF c = LF THEN HeadEnd(q) ELSE Refused
         /\ q.state = "s_headers_done" => Read(q, c) = HeadOver(q)
  BY DEF Read, UrlStarts, UrlEnds, UrlStates

\* The reader over bodies
LEMMA ReadBodies ==
  ASSUME NEW q, NEW c
  PROVE  /\ q.state = "s_body_identity" => Read(q, c) = IdentityByte(q, c)
         /\ q.state = "s_message_done" => Read(q, c) = Completed(q)
         /\ q.state = "s_chunk_size_start" =>
              Read(q, c) = IF IsNum(c)
                           THEN [q EXCEPT !.content_length = ValueOf(c), !.state = "s_chunk_size"]
                           ELSE Refused
         /\ q.state = "s_chunk_size" => Read(q, c) = SizeByte(q, c)
         /\ q.state = "s_chunk_parameters" =>
              Read(q, c) = At(q, IF c = CR THEN "s_chunk_size_almost_done" ELSE "s_chunk_parameters")
         /\ q.state = "s_chunk_size_almost_done" =>
              Read(q, c) = IF c = LF THEN SizeEnd(q) ELSE Refused
         /\ q.state = "s_chunk_data" => Read(q, c) = ChunkByte(q, c)
         /\ q.state = "s_chunk_data_almost_done" =>
              Read(q, c) = IF c = CR THEN At(q, "s_chunk_data_done") ELSE Refused
         /\ q.state = "s_chunk_data_done" =>
              Read(q, c) = IF c = LF THEN At(q, "s_chunk_size_start") ELSE Refused
         /\ q.state = "refused" => Read(q, c) = Refused
  BY DEF Read, UrlStarts, UrlEnds, UrlStates

Settled ==
  /\ ~failed /\ TypeOK /\ stream.bytes \in Seq(Byte) /\ pos \in 0 .. Len(stream.bytes)
  /\ PieceOK /\ RequestsOK
\* A step, and the reader's step over the same byte
Follows ==
  /\ PieceOK' /\ RequestsOK'
  /\ (Marked' => Accepted(Leftover')) =>
       /\ Marked => Accepted(Leftover)
       /\ \/ Advance /\ Known' = Read(Known, ch)
          \/ Reexecute /\ Read(Known', ch) = Read(Known, ch)
          \/ UNCHANGED <<stream, pos, again>> /\ Known' = Known
  /\ Marked' /\ ~Accepted(Leftover') =>
       Advance /\ ((Marked => Accepted(Leftover)) => Read(Known, ch) = Refused)

\* After the first byte of a request there is a request.
LEMMA BegunIs ==
  ASSUME Settled, parser.state \notin {"s_start_req", "s_dead"}
  PROVE  Len(requests) > 0
  BY DEF Settled, RequestsOK

\* What is known, by the fields of the parser
LEMMA KnownIs ==
  ASSUME TypeOK, NEW q, q = Known
  PROVE  /\ q = Reader(parser, keep_alive, complete, Kept(Handed))
         /\ q.state = parser.state /\ q.header_state = parser.header_state
         /\ q.flags = parser.flags /\ q.content_length = parser.content_length
         /\ q.method = parser.method /\ q.version = parser.version
         /\ q.requests = Kept(Handed)
  BY ReaderIs DEF Known

ParserFields == {"state", "header_state", "flags", "content_length", "nread", "method", "version"}
ParserShaped == parser = [x \in ParserFields |-> parser[x]]
\* The parser is a record of its fields.
LEMMA ParserRecord == ASSUME TypeOK PROVE ParserShaped
  BY DEF TypeOK, ParserShaped, ParserFields

\* The loop's head changes nothing that is known.
LEMMA CountedReader ==
  ASSUME TypeOK, NEW k, NEW o, NEW rs, NEW q, q = Reader(parser, k, o, rs), NEW s
  PROVE  /\ [Counted EXCEPT !.state = s].state = s
         /\ Reader([Counted EXCEPT !.state = s], k, o, rs) = At(q, s)
<1>1. PICK n \in Nat : Counted = [parser EXCEPT !.nread = n]
  BY CountedIs
<1> QED BY <1>1, ParserRecord DEF Reader, At, ParserShaped, ParserFields

ReaderFields == {"state", "header_state", "flags", "content_length", "method", "version",
                 "keep_alive", "complete", "requests"}
\* The loop's head and the version's digits
LEMMA CountedVersion ==
  ASSUME TypeOK, NEW q, q = Known, NEW s, NEW v,
         parser' = [Counted EXCEPT !.version = v, !.state = s]
  PROVE  /\ parser'.state = s
         /\ Reader(parser', keep_alive, complete, Kept(Handed)) = At([q EXCEPT !.version = v], s)
<1> DEFINE p == parser'
           k == keep_alive
           o == complete
           rs == Kept(Handed)
<1>1. PICK n \in Nat : Counted = [parser EXCEPT !.nread = n]
  BY CountedIs
<1>2. /\ p.state = s /\ p.header_state = parser.header_state /\ p.flags = parser.flags
      /\ p.content_length = parser.content_length /\ p.method = parser.method /\ p.version = v
  BY <1>1, ParserRecord DEF ParserShaped, ParserFields
<1>3. PICK r : r = [q EXCEPT !.version = v]
  OBVIOUS
<1>4. /\ r = [x \in ReaderFields |-> r[x]]
      /\ r.state = parser.state /\ r.header_state = parser.header_state /\ r.flags = parser.flags
      /\ r.content_length = parser.content_length /\ r.method = parser.method
      /\ r.version = v /\ r.keep_alive = k /\ r.complete = o /\ r.requests = rs
  BY <1>3 DEF Known, Reader, ReaderFields
<1>5. Reader(p, k, o, rs) = At(r, s)
  BY <1>2, <1>4 DEF Reader, At, ReaderFields
<1> QED BY <1>2, <1>3, <1>5

\* No mark before, no mark after
LEMMA Quietly ==
  ASSUME Settled, ~failed', piece = Null, UNCHANGED piece, NoCall,
         parser'.state \notin HeadMarks,
         parser'.state \notin {"s_start_req", "s_dead"} => Len(requests) > 0,
         NEW q, q = Reader(parser', keep_alive, complete, Kept(Handed)),
         \/ Advance /\ q = Read(Known, ch)
         \/ Reexecute /\ Read(q, ch) = Read(Known, ch)
  PROVE  Follows
<1>1. Handed = requests
  BY UnmarkedIs
<1>2. UNCHANGED <<piece, requests, keep_alive, complete>>
  BY DEF NoCall
<1>3. PieceOK /\ RequestsOK
  BY DEF Settled
<1>4. /\ PieceOK' /\ RequestsOK' /\ ~Marked
      /\ Known' = Reader(parser', keep_alive, complete, Kept(requests))
  BY <1>2, <1>3, QuietStep
<1>5. Known' = q
  BY <1>1, <1>4
<1>6. ~Marked'
  BY DEF Marked
<1> QED BY <1>4, <1>5, <1>6 DEF Follows

\* A byte is marked.
LEMMA Marks ==
  ASSUME Settled, ~failed', parser.state \notin {"s_start_req", "s_dead"},
         pos < Len(stream.bytes), Mark, NoCall, Advance, parser'.state \in MarkStates,
         piece = Null \/ SameMark(parser'.state, parser.state),
         NEW q, q = Reader(parser', keep_alive, complete, Kept(Handed)),
         Read(Known, ch) = Taken(q, ch)
  PROVE  Follows
<1>1. /\ PieceOK /\ RequestsOK /\ Len(requests) > 0
      /\ UNCHANGED <<requests, keep_alive, complete>>
  BY BegunIs DEF Settled, NoCall
<1>2. ch \in Byte
  BY ChIs DEF Settled
<1>3. PieceOK' /\ RequestsOK'
  BY <1>1, <1>2, MarkKeeps
<1>4. Marked'
  <2>1. piece \in Seq(Byte) \cup {Null} /\ piece' = Longer(piece, ch)
    BY <1>1 DEF PieceOK, Mark, Longer
  <2> QED BY <1>2, <2>1, LongerIs DEF Marked
<1>5. ASSUME Accepted(Leftover')
      PROVE  (Marked => Accepted(Leftover)) /\ Known' = Read(Known, ch)
  BY <1>1, <1>2, <1>5, MarkStep
<1>6. ASSUME ~Accepted(Leftover'), Marked => Accepted(Leftover)
      PROVE  Read(Known, ch) = Refused
  BY <1>1, <1>2, <1>6, MarkRefused
<1> QED BY <1>3, <1>4, <1>5, <1>6 DEF Follows

\* What is marked is handed over.
LEMMA Calls ==
  ASSUME Settled, ~failed', parser.state \notin {"s_start_req", "s_dead"}, piece # Null,
         Called(Given(parser.state, Current, piece)), Unmark, parser'.state \notin HeadMarks,
         NEW q, q = Reader(parser', keep_alive, complete, Kept(Handed)),
         \/ Advance /\ q = Read(Known, ch)
         \/ Reexecute /\ Read(q, ch) = Read(Known, ch)
  PROVE  Follows
<1>1. PieceOK /\ RequestsOK /\ Len(requests) > 0
  BY BegunIs DEF Settled
<1>2. /\ PieceOK' /\ RequestsOK'
      /\ Marked => Accepted(Leftover)
      /\ Known' = Reader(parser', keep_alive, complete, Kept(Handed))
  BY <1>1, CallStep
<1>3. ~Marked'
  BY DEF Marked, Unmark
<1> QED BY <1>2, <1>3 DEF Follows

\* Outside of the states that a mark is left in there is none.
LEMMA NoMark ==
  ASSUME Settled, parser.state \notin MarkStates
  PROVE  piece = Null
  BY DEF Settled, PieceOK

\* To go to a state is to go there for the reader too.
LEMMA GotoIs ==
  ASSUME TypeOK, NEW s, Goto(s)
  PROVE  /\ parser'.state = s
         /\ Reader(parser', keep_alive, complete, Kept(Handed)) = At(Known, s)
<1>1. Known = Reader(parser, keep_alive, complete, Kept(Handed))
  BY DEF Known
<1> QED BY <1>1, CountedReader DEF Goto

\* A state is gone to.
LEMMA Goes ==
  ASSUME Settled, ~failed', NEW s, Goto(s), piece = Null, UNCHANGED piece, NoCall, Advance,
         s \notin HeadMarks, s \notin {"s_start_req", "s_dead"} => Len(requests) > 0,
         Read(Known, ch) = At(Known, s)
  PROVE  Follows
<1> DEFINE q == Reader(parser', keep_alive, complete, Kept(Handed))
<1>1. Known = Reader(parser, keep_alive, complete, Kept(Handed))
  BY DEF Known
<1>2. TypeOK
  BY DEF Settled
<1>3. parser'.state = s /\ q = At(Known, s)
  BY <1>1, <1>2, CountedReader DEF Goto
<1> HIDE DEF q
<1>4. q = Read(Known, ch)
  BY <1>3
<1> QED BY <1>3, <1>4, Quietly DEF q

\* What is known is a record of the reader's fields.
LEMMA KnownShaped ==
  ASSUME NEW q, q = Known
  PROVE  q = [x \in ReaderFields |-> q[x]] /\ q.keep_alive = keep_alive /\ q.complete = complete
  BY DEF Known, Reader, ReaderFields

\* What is known, field by field
LEMMA KnownParts ==
  ASSUME TypeOK, NEW q, q = Known
  PROVE  /\ q = [x \in ReaderFields |-> q[x]]
         /\ q.state = parser.state /\ q.header_state = parser.header_state
         /\ q.flags = parser.flags /\ q.content_length = parser.content_length
         /\ q.method = parser.method /\ q.version = parser.version
         /\ q.keep_alive = keep_alive /\ q.complete = complete /\ q.requests = Kept(Handed)
  BY KnownIs, KnownShaped

\* The loop's head and a letter of the method
LEMMA CountedMethod ==
  ASSUME TypeOK, NEW q, q = Known, NEW s, NEW m,
         parser' = [Counted EXCEPT !.method = m, !.state = s]
  PROVE  /\ parser'.state = s
         /\ Reader(parser', keep_alive, complete, Kept(Handed))
              = [q EXCEPT !.method = m, !.state = s]
<1> DEFINE p == parser'
           k == keep_alive
           o == complete
           rs == Kept(Handed)
<1>1. PICK n \in Nat : Counted = [parser EXCEPT !.nread = n]
  BY CountedIs
<1>2. /\ p.state = s /\ p.header_state = parser.header_state /\ p.flags = parser.flags
      /\ p.content_length = parser.content_length /\ p.method = m
      /\ p.version = parser.version
  BY <1>1, ParserRecord DEF ParserShaped, ParserFields
<1>3. PICK r : r = [q EXCEPT !.method = m, !.state = s]
  OBVIOUS
<1>4. /\ r = [x \in ReaderFields |-> r[x]]
      /\ r.state = s /\ r.header_state = parser.header_state /\ r.flags = parser.flags
      /\ r.content_length = parser.content_length /\ r.method = m
      /\ r.version = parser.version /\ r.keep_alive = k /\ r.complete = o /\ r.requests = rs
  BY <1>3 DEF Known, Reader, ReaderFields
<1>5. Reader(p, k, o, rs) = r
  BY <1>2, <1>4 DEF Reader, ReaderFields
<1> QED BY <1>2, <1>3, <1>5

\* The reader follows ReqMethod.
LEMMA ReqMethodFollows ==
  ASSUME Settled, ~failed', ReqMethod
  PROVE  Follows
<1> PICK q : q = Known
  OBVIOUS
<1>1. q.state = parser.state /\ q.method = parser.method /\ TypeOK
  BY KnownIs DEF Settled
<1> PICK next : next = NextMethod(parser.method, ch)
  OBVIOUS
<1> PICK s : s = IF MethodOver(parser.method, ch) THEN "s_req_spaces_before_url"
                 ELSE "s_req_method"
  OBVIOUS
<1> PICK m : m = [name |-> next, index |-> parser.method.index + 1]
  OBVIOUS
<1>2. /\ parser.state = "s_req_method" /\ next # "none"
      /\ Advance /\ NoCall /\ UNCHANGED piece
  BY DEF ReqMethod, In, Error
<1>3. parser' = [Counted EXCEPT !.method = m, !.state = s]
  <2>1. parser' = [Counted EXCEPT !.method = [name |-> next, index |-> @.index + 1], !.state = s]
    BY DEF ReqMethod, Error
  <2>2. PICK n \in Nat : Counted = [parser EXCEPT !.nread = n]
    BY <1>1, CountedIs
  <2>3. Counted.method = parser.method
    BY <1>1, <2>2, ParserRecord DEF ParserShaped, ParserFields
  <2> QED BY <2>1, <2>3
<1>4. piece = Null /\ Len(requests) > 0
  BY <1>2, NoMark, BegunIs DEF MarkStates, HeadMarks, UrlStates
<1> PICK t : t = Reader(parser', keep_alive, complete, Kept(Handed))
  OBVIOUS
<1>5. parser'.state = s /\ t = [q EXCEPT !.method = m, !.state = s]
  BY <1>1, <1>3, CountedMethod
<1>6. Read(q, ch) = MethodByte(q, ch)
  BY <1>1, <1>2, ReadMethod
<1>7. MethodByte(q, ch) = t
  <2>1. q = [x \in ReaderFields |-> q[x]]
    BY <1>1, KnownParts
  <2>2. [q EXCEPT !.method = [name |-> next, index |-> @.index + 1], !.state = s]
          = [q EXCEPT !.method = m, !.state = s]
    BY <1>1, <2>1 DEF ReaderFields
  <2>3. NextMethod(q.method, ch) = next
        /\ s = IF MethodOver(q.method, ch) THEN "s_req_spaces_before_url" ELSE "s_req_method"
    BY <1>1
  <2> QED BY <1>2, <1>5, <2>2, <2>3 DEF MethodByte
<1>8. s \notin HeadMarks
  BY DEF HeadMarks, UrlStates
<1> QED BY <1>2, <1>4, <1>5, <1>6, <1>7, <1>8, Quietly

\* The reader follows ReqHttpMinor and ReqLineAlmostDone.
LEMMA ReqMinorFollows ==
  ASSUME Settled, ~failed', ReqHttpMinor \/ ReqLineAlmostDone
  PROVE  Follows
<1>1. Known.state = parser.state
  BY KnownIs DEF Settled
<1> DEFINE q == Known
<1> HIDE DEF q
<1>3. CASE ReqHttpMinor
  <2>1. PICK s \in {"s_req_line_almost_done", "s_header_field_start"} :
          parser.state = "s_req_http_minor" /\ Goto(s) /\ Advance /\ NoCall /\ UNCHANGED piece
          /\ ch = IF s = "s_header_field_start" THEN LF ELSE CR
    BY <1>3 DEF ReqHttpMinor, In, Error
  <2>2. piece = Null /\ Len(requests) > 0
    BY <2>1, NoMark, BegunIs DEF MarkStates, HeadMarks, UrlStates
  <2>3. Read(Known, ch) = At(Known, s)
    BY <1>1, <2>1, ReadRequestLine DEF CR, LF
  <2> QED BY <2>1, <2>2, <2>3, Goes DEF HeadMarks, UrlStates
<1>4. CASE ReqLineAlmostDone
  <2>1. parser.state = "s_req_line_almost_done" /\ ch = LF /\ Goto("s_header_field_start")
        /\ Advance /\ NoCall /\ UNCHANGED piece
    BY <1>4 DEF ReqLineAlmostDone, In, Error
  <2>2. piece = Null /\ Len(requests) > 0
    BY <2>1, NoMark, BegunIs DEF MarkStates, HeadMarks, UrlStates
  <2>3. Read(Known, ch) = At(Known, "s_header_field_start")
    BY <1>1, <2>1, ReadRequestLine
  <2> QED BY <2>1, <2>2, <2>3, Goes DEF HeadMarks, UrlStates
<1> QED BY <1>3, <1>4

\* A new request is a sound one without a URL.
LEMMA NewRequestIs == RequestOK(new_request) /\ Erased(new_request) = new_request
<1>1. Shaped(new_request)
  BY DEF Shaped, Fields, new_request
<1>2. Sound(NoBuffer, Null, Null, <<>>, 0, TRUE)
  <2>1. NoBuffer \in [bytes : Seq(Byte), buf_size : 0 .. UriSize + 1]
    BY LimitsAssumption DEF NoBuffer
  <2> QED BY <2>1, NullIs DEF Sound
<1>3. new_request.path = NoBuffer /\ new_request.field = Null /\ new_request.value = Null
      /\ new_request.body = <<>> /\ new_request.bad_request_code = 0 /\ new_request.ok = TRUE
  BY DEF new_request
<1>4. RequestOK(new_request)
  BY <1>1, <1>2, <1>3, RequestIs
<1>5. Erased(new_request) = new_request
  <2>1. [bytes |-> new_request.path.bytes, buf_size |-> 0] = new_request.path
    BY <1>3 DEF NoBuffer
  <2>2. [new_request EXCEPT !.path = new_request.path] = new_request
    BY <1>1 DEF Shaped, Fields
  <2> QED BY <2>1, <2>2 DEF Erased
<1> QED BY <1>4, <1>5

\* A request more
LEMMA AppendedOK ==
  ASSUME NEW rs, AllOK(rs), NEW x, RequestOK(x)
  PROVE  /\ AllOK(Append(rs, x)) /\ Len(Append(rs, x)) > 0
         /\ Kept(Append(rs, x)) = Append(Kept(rs), Erased(x))
<1> DEFINE n == Len(rs)
           t == Append(rs, x)
<1>1. n \in Nat /\ rs = [i \in 1 .. n |-> rs[i]] /\ \A i \in 1 .. n : RequestOK(rs[i])
  BY DEF AllOK, IsSequence
<1> DEFINE S == {rs[i] : i \in 1 .. n} \cup {x}
<1>2. rs \in Seq(S) /\ x \in S
  BY <1>1
<1> HIDE DEF S
<1>3. t \in Seq(S) /\ Len(t) = n + 1 /\ \A i \in 1 .. n + 1 : t[i] = IF i = n + 1 THEN x ELSE rs[i]
  BY <1>2
<1> HIDE DEF t
<1>4. IsSequence(t)
  BY <1>1, <1>3 DEF IsSequence
<1>5. AllOK(t)
  BY <1>1, <1>3, <1>4 DEF AllOK
<1>6. Kept(t) = [i \in 1 .. n + 1 |-> Erased(t[i])]
  BY <1>3, <1>4, KeptIs
<1>7. Kept(rs) = [i \in 1 .. n |-> Erased(rs[i])]
  BY KeptIs DEF AllOK
<1> DEFINE E == {Erased(rs[i]) : i \in 1 .. n} \cup {Erased(x)}
           k == Kept(rs)
           m == Kept(t)
           e == Erased(x)
           a == Append(k, e)
<1>8. k \in Seq(E) /\ Len(k) = n /\ e \in E
  BY <1>1, <1>7
<1>9. m \in Seq(E) /\ Len(m) = n + 1
  BY <1>1, <1>3, <1>6
<1>10. \A i \in 1 .. n + 1 : m[i] = IF i = n + 1 THEN e ELSE k[i]
  BY <1>1, <1>3, <1>6, <1>7
<1> HIDE DEF E, k, m, e
<1>11. a \in Seq(E) /\ Len(a) = n + 1 /\ \A i \in 1 .. n + 1 : a[i] = IF i = n + 1 THEN e ELSE k[i]
  BY <1>8
<1> HIDE DEF a
<1>12. m = a
  BY <1>9, <1>10, <1>11, SeqEqual
<1> QED BY <1>1, <1>3, <1>5, <1>12 DEF m, a, k, e, t

\* The reader follows Dead.
LEMMA DeadFollows ==
  ASSUME Settled, ~failed', Dead
  PROVE  Follows
<1>1. Known.state = parser.state
  BY KnownIs DEF Settled
<1>2. parser.state = "s_dead" /\ ch \in {CR, LF} /\ Goto("s_dead")
      /\ Advance /\ NoCall /\ UNCHANGED piece
  BY DEF Dead, In, Error
<1>3. piece = Null
  BY <1>2, NoMark DEF MarkStates, HeadMarks, UrlStates
<1>4. Read(Known, ch) = At(Known, "s_dead")
  BY <1>1, <1>2, ReadRequestLine
<1> QED BY <1>2, <1>3, <1>4, Goes DEF HeadMarks, UrlStates

\* The reader follows StartReq.
LEMMA StartReqFollows ==
  ASSUME Settled, ~failed', StartReq
  PROVE  Follows
<1>1. Known.state = parser.state
  BY KnownIs DEF Settled
<1>2. parser.state = "s_start_req" /\ Advance /\ UNCHANGED piece
  BY DEF StartReq, In, Error
<1>3. piece = Null
  BY <1>2, NoMark DEF MarkStates, HeadMarks, UrlStates
<1>4. CASE ch \in {CR, LF} /\ Goto("s_start_req") /\ NoCall
  <2>1. ch \notin DOMAIN FirstMethod
    BY <1>4 DEF CR, LF, FirstMethod
  <2>2. Read(Known, ch) = At(Known, "s_start_req")
    BY <1>1, <1>2, <1>4, <2>1, ReadRequestLine
  <2> QED BY <1>2, <1>3, <1>4, <2>2, Goes DEF HeadMarks, UrlStates
<1>5. CASE ch \in DOMAIN FirstMethod /\ parser' = Started(ch) /\ MessageBegin
  <2>1. AllOK(requests) /\ PieceOK
    BY RequestsAre DEF Settled
  <2>2. requests' = Append(requests, new_request) /\ complete' = FALSE /\ keep_alive' = keep_alive
    BY <1>5 DEF MessageBegin
  <2>3. /\ AllOK(requests') /\ Len(requests') > 0
        /\ Kept(requests') = Append(Kept(requests), new_request)
    <3>1. /\ AllOK(Append(requests, new_request)) /\ Len(Append(requests, new_request)) > 0
          /\ Kept(Append(requests, new_request)) = Append(Kept(requests), Erased(new_request))
      BY <2>1, NewRequestIs, AppendedOK
    <3> QED BY <2>2, <3>1, NewRequestIs
  <2>4. RequestsOK'
    BY <2>3 DEF RequestsOK, AllOK, IsSequence
  <2>5. /\ parser'.state = "s_req_method" /\ parser'.flags = {}
        /\ parser'.content_length = Unlimited /\ parser'.method = FirstLetter(ch)
        /\ parser'.header_state = parser.header_state /\ parser'.version = parser.version
    <3>1. PICK n \in Nat : Counted = [parser EXCEPT !.nread = n]
      BY CountedIs DEF Settled
    <3>2. ParserShaped
      BY ParserRecord DEF Settled
    <3> QED BY <1>5, <3>1, <3>2 DEF ParserShaped, ParserFields, Started
  <2>6. PieceOK'
    BY <1>2, <1>3, <2>5 DEF PieceOK, HeadMarks, UrlStates, Null
  <2>7. ~Marked /\ Handed = requests /\ Handed' = requests'
    BY <1>2, <1>3 DEF Handed, Marked
  <2>8. Known' = Began(Known, ch)
    <3>1. PICK q : q = Known
      OBVIOUS
    <3> PICK m : m = FirstLetter(ch)
      OBVIOUS
    <3>2. /\ q = [x \in ReaderFields |-> q[x]] /\ q.header_state = parser.header_state
          /\ q.version = parser.version /\ q.keep_alive = keep_alive /\ q.requests = Kept(requests)
      BY <2>7, <3>1 DEF Known, Reader, ReaderFields
    <3>3. Known' = Reader(parser', keep_alive, FALSE, Append(q.requests, new_request))
      BY <2>2, <2>3, <2>7, <3>2 DEF Known
    <3>4. Reader(parser', keep_alive, FALSE, Append(q.requests, new_request)) = Began(q, ch)
      <4> DEFINE rs == Append(q.requests, new_request)
      <4>1. Began(q, ch) = [q EXCEPT !.state = "s_req_method", !.flags = {},
                              !.content_length = Unlimited, !.method = m, !.complete = FALSE,
                              !.requests = rs]
        BY DEF Began
      <4> HIDE DEF rs
      <4>2. Reader(parser', keep_alive, FALSE, rs) =
              [q EXCEPT !.state = "s_req_method", !.flags = {},
                        !.content_length = Unlimited, !.method = m, !.complete = FALSE,
                        !.requests = rs]
        <5>1. PICK r : r = [q EXCEPT !.state = "s_req_method", !.flags = {},
                              !.content_length = Unlimited, !.method = m, !.complete = FALSE,
                              !.requests = rs]
          OBVIOUS
        <5>2. /\ r = [x \in ReaderFields |-> r[x]]
              /\ r.state = "s_req_method" /\ r.header_state = q.header_state /\ r.flags = {}
              /\ r.content_length = Unlimited /\ r.method = m /\ r.version = q.version
              /\ r.keep_alive = q.keep_alive /\ r.complete = FALSE /\ r.requests = rs
          BY <3>2, <5>1 DEF ReaderFields
        <5>3. Reader(parser', keep_alive, FALSE, rs) = r
          BY <2>5, <3>2, <5>2 DEF Reader, ReaderFields
        <5> QED BY <5>1, <5>3
      <4> QED BY <4>1, <4>2 DEF rs
    <3> QED BY <3>1, <3>3, <3>4
  <2>9. Read(Known, ch) = Began(Known, ch)
    BY <1>1, <1>2, <1>5, ReadRequestLine
  <2>10. ~Marked'
    BY <1>2, <1>3 DEF Marked
  <2> QED BY <1>2, <2>4, <2>6, <2>7, <2>8, <2>9, <2>10 DEF Follows
<1>6. \/ ch \in {CR, LF} /\ Goto("s_start_req") /\ NoCall
      \/ ch \in DOMAIN FirstMethod /\ parser' = Started(ch) /\ MessageBegin
  BY DEF StartReq, Error
<1> QED BY <1>4, <1>5, <1>6

\* What is known after a step, field by field
LEMMA ReaderBy ==
  ASSUME NEW r, r = [x \in ReaderFields |-> r[x]], NEW p, NEW k, NEW o, NEW rs,
         r.state = p.state, r.header_state = p.header_state, r.flags = p.flags,
         r.content_length = p.content_length, r.method = p.method, r.version = p.version,
         r.keep_alive = k, r.complete = o, r.requests = rs
  PROVE  Reader(p, k, o, rs) = r
  BY DEF Reader, ReaderFields

\* A byte is marked and a state is gone to.
LEMMA GoesMarked ==
  ASSUME Settled, ~failed', parser.state \notin {"s_start_req", "s_dead"}, pos < Len(stream.bytes),
         NEW s \in MarkStates, Goto(s), piece = Null \/ SameMark(s, parser.state),
         Mark, Advance, NoCall, Read(Known, ch) = Taken(At(Known, s), ch)
  PROVE  Follows
<1> DEFINE q == Reader(parser', keep_alive, complete, Kept(Handed))
<1>1. Known = Reader(parser, keep_alive, complete, Kept(Handed)) /\ TypeOK
  BY DEF Known, Settled
<1>2. parser'.state = s /\ q = At(Known, s)
  BY <1>1, CountedReader DEF Goto
<1> HIDE DEF q
<1>3. Read(Known, ch) = Taken(q, ch)
  BY <1>2
<1>4. parser'.state \in MarkStates /\ (piece = Null \/ SameMark(parser'.state, parser.state))
  BY <1>2
<1> QED BY <1>3, <1>4, Marks DEF q

\* What is marked is handed over and a state is gone to.
LEMMA GoesCalled ==
  ASSUME Settled, ~failed', parser.state \notin {"s_start_req", "s_dead"}, piece # Null,
         Called(Given(parser.state, Current, piece)), Unmark,
         NEW s, s \notin HeadMarks, Goto(s),
         \/ Advance /\ Read(Known, ch) = At(Known, s)
         \/ Reexecute /\ Read(Known, ch) = Read(At(Known, s), ch)
  PROVE  Follows
<1> DEFINE q == Reader(parser', keep_alive, complete, Kept(Handed))
<1>1. Known = Reader(parser, keep_alive, complete, Kept(Handed)) /\ TypeOK
  BY DEF Known, Settled
<1>2. parser'.state = s /\ q = At(Known, s)
  BY <1>1, CountedReader DEF Goto
<1> HIDE DEF q
<1>3. parser'.state \notin HeadMarks
  BY <1>2
<1>4. \/ Advance /\ q = Read(Known, ch)
      \/ Reexecute /\ Read(q, ch) = Read(Known, ch)
  BY <1>2
<1> QED BY <1>3, <1>4, Calls DEF q

\* What ends a URL is no part of it.
LEMMA UrlEndIs ==
  ASSUME NEW s, NEW c \in {" ", CR, LF}
  PROVE  parse_url_char(s, c) = "s_dead"
  BY DEF parse_url_char, Letters, UrlChar, ServerChar, CR, LF

\* The reader follows a byte of the URL.
LEMMA UrlByteFollows ==
  ASSUME Settled, ~failed', parser.state \in UrlStates \cup {"s_req_spaces_before_url"},
         pos < Len(stream.bytes), NEW s, UrlByte(s), Read(Known, ch) = UrlRead(Known, s, ch)
  PROVE  Follows
<1> PICK next : next = parse_url_char(s, ch)
  OBVIOUS
<1>1. /\ next \in UrlStates /\ next # "s_dead"
      /\ Goto(next) /\ Mark /\ Advance /\ NoCall
  BY UrlCharGoes DEF UrlByte
<1>2. next \in MarkStates
  BY <1>1 DEF MarkStates, HeadMarks
<1>3. piece = Null \/ SameMark(next, parser.state)
  <2>1. CASE parser.state \in UrlStates
    BY <1>1, <2>1 DEF SameMark
  <2>2. CASE parser.state = "s_req_spaces_before_url"
    BY <2>2, NoMark DEF MarkStates, HeadMarks, UrlStates
  <2> QED BY <2>1, <2>2
<1>4. Read(Known, ch) = Taken(At(Known, next), ch)
  BY <1>1 DEF UrlRead
<1>5. parser.state \notin {"s_start_req", "s_dead"}
  BY DEF UrlStates
<1> QED BY <1>1, <1>2, <1>3, <1>4, <1>5, GoesMarked

\* The reader follows ReqSpacesBeforeUrl.
LEMMA ReqSpacesFollows ==
  ASSUME Settled, ~failed', ReqSpacesBeforeUrl
  PROVE  Follows
<1> PICK q : q = Known
  OBVIOUS
<1> PICK s : s = UrlBegin(parser.method)
  OBVIOUS
<1>1. q.state = parser.state /\ q.method = parser.method /\ q = [x \in ReaderFields |-> q[x]]
  BY KnownParts DEF Settled
<1>2. parser.state = "s_req_spaces_before_url" /\ pos < Len(stream.bytes)
  BY DEF ReqSpacesBeforeUrl, In
<1>3. piece = Null /\ Len(requests) > 0
  BY <1>2, NoMark, BegunIs DEF MarkStates, HeadMarks, UrlStates
<1>4. CASE ch = " " /\ Goto("s_req_spaces_before_url") /\ Advance /\ NoCall /\ UNCHANGED piece
  <2>1. Read(q, ch) = q
    BY <1>1, <1>2, <1>4, ReadBeforeUrl
  <2>2. At(q, "s_req_spaces_before_url") = q
    BY <1>1, <1>2 DEF At, ReaderFields
  <2> QED BY <1>2, <1>3, <1>4, <2>1, <2>2, Goes DEF HeadMarks, UrlStates
<1>5. CASE UrlByte(s)
  <2>1. ch # " "
    BY <1>5, UrlEndIs DEF UrlByte
  <2>2. Read(q, ch) = UrlRead(q, s, ch)
    <3>1. Read(q, ch) = UrlRead(q, UrlBegin(q.method), ch)
      <4>1. q.state = "s_req_spaces_before_url"
        BY <1>1, <1>2
      <4> QED BY <2>1, <4>1, ReadBeforeUrl, ZenonT(40)
    <3>2. UrlBegin(q.method) = s
      BY <1>1
    <3> QED BY <3>1, <3>2
  <2> QED BY <1>2, <1>5, <2>2, UrlByteFollows
<1> QED BY <1>4, <1>5 DEF ReqSpacesBeforeUrl, Error

\* The reader follows ReqSchema.
LEMMA ReqSchemaFollows ==
  ASSUME Settled, ~failed', ReqSchema
  PROVE  Follows
<1> PICK q : q = Known
  OBVIOUS
<1>1. q.state = parser.state
  BY KnownParts DEF Settled
<1>2. parser.state \in UrlStarts /\ pos < Len(stream.bytes) /\ UrlByte(parser.state)
  BY DEF ReqSchema, In, Error
<1>3. parser.state \in UrlStates
  BY <1>2 DEF UrlStarts, UrlStates
<1>4. Read(q, ch) = UrlRead(q, parser.state, ch)
  BY <1>1, <1>2, ReadUrlStart
<1> QED BY <1>2, <1>3, <1>4, UrlByteFollows

\* The reader follows ReqPath.
LEMMA ReqPathFollows ==
  ASSUME Settled, ~failed', ReqPath
  PROVE  Follows
<1> PICK q : q = Known
  OBVIOUS
<1>1. q.state = parser.state /\ q = Reader(parser, keep_alive, complete, Kept(Handed)) /\ TypeOK
  BY KnownIs DEF Settled
<1>2. /\ parser.state \in UrlEnds /\ parser.state \in UrlStates /\ pos < Len(stream.bytes)
      /\ parser.state \notin {"s_start_req", "s_dead"}
  BY DEF ReqPath, In, UrlEnds, UrlStates
<1>3. piece # Null
  BY <1>2 DEF Settled, PieceOK, HeadMarks
<1>4. CASE UrlByte(parser.state)
  <2>1. ch \notin {" ", CR, LF}
    BY <1>4, UrlEndIs DEF UrlByte
  <2>2. Read(q, ch) = UrlRead(q, parser.state, ch)
    BY <1>1, <1>2, <2>1, ReadUrl
  <2> QED BY <1>2, <1>4, <2>2, UrlByteFollows
<1>5. ASSUME Called(request_uri_cb(Current, piece))
      PROVE  Called(Given(parser.state, Current, piece))
  BY <1>2, <1>5, GivenIs
<1>6. CASE /\ ch = " " /\ Goto("s_req_http_start")
           /\ Called(request_uri_cb(Current, piece)) /\ Unmark /\ Advance
  <2>1. Read(q, ch) = UrlOver(q, ch)
    BY <1>1, <1>2, <1>6, ReadUrl
  <2>2. UrlOver(q, ch) = At(q, "s_req_http_start")
    BY <1>6 DEF UrlOver
  <2> QED BY <1>2, <1>3, <1>5, <1>6, <2>1, <2>2, GoesCalled DEF HeadMarks, UrlStates
<1>7. CASE /\ ch \in {CR, LF}
           /\ parser' = [Counted EXCEPT !.version = "0.9",
                        !.state = IF ch = CR THEN "s_req_line_almost_done"
                                  ELSE "s_header_field_start"]
           /\ Called(request_uri_cb(Current, piece)) /\ Unmark /\ Advance
  <2> DEFINE s == IF ch = CR THEN "s_req_line_almost_done" ELSE "s_header_field_start"
             t == Reader(parser', keep_alive, complete, Kept(Handed))
  <2>1. parser'.state = s /\ t = At([q EXCEPT !.version = "0.9"], s)
    BY <1>1, <1>7, CountedVersion
  <2>2. s \notin HeadMarks
    BY DEF HeadMarks, UrlStates
  <2>3. Read(q, ch) = UrlOver(q, ch)
    BY <1>1, <1>2, <1>7, ReadUrl
  <2>4. UrlOver(q, ch) = At([q EXCEPT !.version = "0.9"], s)
    BY <1>7 DEF UrlOver, CR, LF
  <2> HIDE DEF t, s
  <2>5. Read(Known, ch) = t /\ parser'.state \notin HeadMarks
    BY <2>1, <2>2, <2>3, <2>4
  <2> QED BY <1>2, <1>3, <1>5, <1>7, <2>5, Calls DEF t
<1> QED BY <1>4, <1>6, <1>7 DEF ReqPath, Error

\* The reader follows ReqHttpStart.
LEMMA ReqHttpStartFollows ==
  ASSUME Settled, ~failed', ReqHttpStart
  PROVE  Follows
<1> PICK q : q = Known
  OBVIOUS
<1>1. q.state = parser.state /\ q = Reader(parser, keep_alive, complete, Kept(Handed)) /\ TypeOK
  BY KnownIs DEF Settled
<1>2. parser.state = "s_req_http_start" /\ Advance /\ NoCall /\ UNCHANGED piece
  BY DEF ReqHttpStart, In, Error
<1>3. piece = Null /\ Len(requests) > 0
  BY <1>2, NoMark, BegunIs DEF MarkStates, HeadMarks, UrlStates
<1>4. CASE ch = " " /\ Goto("s_req_http_start")
  <2>1. Read(q, ch) = At(q, "s_req_http_start")
    BY <1>1, <1>2, <1>4, ReadRequestLine DEF Versions
  <2> QED BY <1>2, <1>3, <1>4, <2>1, Goes DEF HeadMarks, UrlStates
<1>5. CASE ch \in Versions /\ parser' = [Counted EXCEPT !.version = ch, !.state = "s_req_http_minor"]
  <2> DEFINE t == Reader(parser', keep_alive, complete, Kept(Handed))
  <2>1. parser'.state = "s_req_http_minor"
        /\ t = At([q EXCEPT !.version = ch], "s_req_http_minor")
    BY <1>1, <1>5, CountedVersion
  <2>2. Read(q, ch) = At([q EXCEPT !.version = ch], "s_req_http_minor")
    BY <1>1, <1>2, <1>5, ReadRequestLine
  <2> HIDE DEF t
  <2>3. t = Read(Known, ch) /\ parser'.state \notin HeadMarks
    BY <2>1, <2>2 DEF HeadMarks, UrlStates
  <2> QED BY <1>2, <1>3, <2>3, Quietly DEF t
<1> QED BY <1>4, <1>5 DEF ReqHttpStart, Error

\* What ends a name is no part of it.
LEMMA TokenIs ==
  /\ ~Token(" ") /\ ~Token(":") /\ ~Token(CR) /\ ~Token(LF)
  /\ CR # LF /\ CR # " " /\ LF # " " /\ CR # ":" /\ LF # ":"
  BY DEF Token, CR, LF

\* The reader follows HeaderFieldStart.
LEMMA HeaderFieldStartFollows ==
  ASSUME Settled, ~failed', HeaderFieldStart
  PROVE  Follows
<1> PICK q : q = Known
  OBVIOUS
<1>1. q.state = parser.state /\ TypeOK
  BY KnownIs DEF Settled
<1>2. parser.state = "s_header_field_start" /\ NoCall /\ pos < Len(stream.bytes)
  BY DEF HeaderFieldStart, In, Error, NoCall
<1>3. piece = Null /\ Len(requests) > 0
  BY <1>2, NoMark, BegunIs DEF MarkStates, HeadMarks, UrlStates
<1>4. Read(q, ch) = LineStart(q, ch)
  BY <1>1, <1>2, ReadHeaders
<1>5. CASE ch = CR /\ Goto("s_headers_almost_done") /\ Advance /\ UNCHANGED piece
  <2>1. Read(q, ch) = At(q, "s_headers_almost_done")
    BY <1>4, <1>5 DEF LineStart
  <2> QED BY <1>2, <1>3, <1>5, <2>1, Goes DEF HeadMarks, UrlStates
<1>6. CASE ch = LF /\ Goto("s_headers_almost_done") /\ Reexecute /\ UNCHANGED piece
  <2> DEFINE t == Reader(parser', keep_alive, complete, Kept(Handed))
  <2>1. parser'.state = "s_headers_almost_done" /\ t = At(q, "s_headers_almost_done")
    BY <1>1, <1>6, GotoIs
  <2>2. t.state = "s_headers_almost_done"
    BY <2>1 DEF Reader
  <2> HIDE DEF t
  <2>3. Read(t, ch) = HeadEnd(t)
    BY <1>6, <2>2, ReadHeaders
  <2>4. Read(q, ch) = HeadEnd(At(q, "s_headers_almost_done"))
    BY <1>4, <1>6, TokenIs DEF LineStart
  <2>5. Read(t, ch) = Read(Known, ch) /\ parser'.state \notin HeadMarks
    BY <2>1, <2>3, <2>4 DEF HeadMarks, UrlStates
  <2> QED BY <1>2, <1>3, <1>6, <2>5, Quietly DEF t
<1>7. CASE /\ Token(ch)
           /\ parser' = [Counted EXCEPT !.state = "s_header_field",
                                        !.header_state = NameState(ch)]
           /\ Mark /\ Advance
  <2> DEFINE t == Reader(parser', keep_alive, complete, Kept(Handed))
             r == [q EXCEPT !.state = "s_header_field", !.header_state = NameState(ch)]
  <2>1. /\ parser'.state = "s_header_field" /\ parser'.header_state = NameState(ch)
        /\ parser'.flags = parser.flags /\ parser'.content_length = parser.content_length
        /\ parser'.method = parser.method /\ parser'.version = parser.version
    <3>1. PICK n \in Nat : Counted = [parser EXCEPT !.nread = n]
      BY <1>1, CountedIs
    <3>2. ParserShaped
      BY <1>1, ParserRecord
    <3> QED BY <1>7, <3>1, <3>2 DEF ParserShaped, ParserFields
  <2>2. t = r
    <3>1. PICK u : u = r
      OBVIOUS
    <3>2. /\ u = [x \in ReaderFields |-> u[x]]
          /\ u.state = "s_header_field" /\ u.header_state = NameState(ch)
          /\ u.flags = parser.flags /\ u.content_length = parser.content_length
          /\ u.method = parser.method /\ u.version = parser.version
          /\ u.keep_alive = keep_alive /\ u.complete = complete /\ u.requests = Kept(Handed)
      BY <1>1, <3>1, KnownParts DEF ReaderFields
    <3>3. t = u
      BY <2>1, <3>2, ReaderBy
    <3> QED BY <3>1, <3>3
  <2>3. Read(q, ch) = Taken(r, ch)
    BY <1>4, <1>7, TokenIs DEF LineStart
  <2> HIDE DEF t, r
  <2>4. Read(Known, ch) = Taken(t, ch) /\ parser'.state \in MarkStates
    BY <2>1, <2>2, <2>3 DEF MarkStates, HeadMarks, UrlStates
  <2> QED BY <1>2, <1>3, <1>7, <2>4, Marks DEF t
<1> QED BY <1>5, <1>6, <1>7 DEF HeaderFieldStart, Error

\* The reader follows HeaderField.
LEMMA HeaderFieldFollows ==
  ASSUME Settled, ~failed', HeaderField
  PROVE  Follows
<1> PICK q : q = Known
  OBVIOUS
<1>1. q.state = parser.state /\ TypeOK
  BY KnownIs DEF Settled
<1>2. parser.state = "s_header_field" /\ Advance /\ pos < Len(stream.bytes)
  BY DEF HeaderField, In, Error
<1>3. piece # Null
  BY <1>2 DEF Settled, PieceOK, HeadMarks, UrlStates
<1>4. Read(q, ch) = NameByte(q, ch)
  BY <1>1, <1>2, ReadHeaders
<1>5. CASE /\ Token(ch)
           /\ parser' = [Counted EXCEPT !.header_state = "h_general"]
           /\ Mark /\ NoCall
  <2> DEFINE t == Reader(parser', keep_alive, complete, Kept(Handed))
             r == [q EXCEPT !.header_state = "h_general"]
  <2>1. /\ parser'.state = parser.state /\ parser'.header_state = "h_general"
        /\ parser'.flags = parser.flags /\ parser'.content_length = parser.content_length
        /\ parser'.method = parser.method /\ parser'.version = parser.version
    <3>1. PICK n \in Nat : Counted = [parser EXCEPT !.nread = n]
      BY <1>1, CountedIs
    <3>2. ParserShaped
      BY <1>1, ParserRecord
    <3> QED BY <1>5, <3>1, <3>2 DEF ParserShaped, ParserFields
  <2>2. t = r
    <3>1. PICK u : u = r
      OBVIOUS
    <3>2. /\ u = [x \in ReaderFields |-> u[x]]
          /\ u.state = parser.state /\ u.header_state = "h_general"
          /\ u.flags = parser.flags /\ u.content_length = parser.content_length
          /\ u.method = parser.method /\ u.version = parser.version
          /\ u.keep_alive = keep_alive /\ u.complete = complete /\ u.requests = Kept(Handed)
      BY <1>1, <3>1, KnownParts DEF ReaderFields
    <3>3. t = u
      BY <2>1, <3>2, ReaderBy
    <3> QED BY <3>1, <3>3
  <2>3. Read(q, ch) = Taken(r, ch)
    BY <1>4, <1>5 DEF NameByte
  <2> HIDE DEF t, r
  <2>4. Read(Known, ch) = Taken(t, ch) /\ parser'.state \in MarkStates
        /\ SameMark(parser'.state, parser.state)
    BY <1>2, <2>1, <2>2, <2>3 DEF MarkStates, HeadMarks, UrlStates, SameMark
  <2> QED BY <1>2, <1>3, <1>5, <2>4, Marks DEF t
<1>6. ASSUME NEW s, s = (CASE ch = ":" -> "s_header_value_start" [] ch = CR -> "s_header_almost_done"
                  [] OTHER -> "s_header_field_start"),
             ch \in {":", CR, LF}, Goto(s), Called(header_field_cb(Current, piece)), Unmark
      PROVE  Follows
  <2>1. Called(Given(parser.state, Current, piece))
    BY <1>2, <1>6, GivenIs
  <2>2. s \notin HeadMarks
    BY <1>6 DEF HeadMarks, UrlStates
  <2>3. Read(q, ch) = At(q, s)
    BY <1>4, <1>6, TokenIs DEF NameByte
  <2> QED BY <1>2, <1>3, <1>6, <2>1, <2>2, <2>3, GoesCalled
<1> QED BY <1>5, <1>6, <1>2 DEF HeaderField, Error

\* header_value_cb of a request without its URL's size
LEMMA ValueOfErased ==
  ASSUME NEW r, RequestOK(r), NEW p \in Seq(Byte), Accepted(header_value_cb(r, p))
  PROVE  /\ header_value_cb(Erased(r), p) = Erased(header_value_cb(r, p))
         /\ RequestOK(header_value_cb(r, p))
<1> DEFINE e == Erased(r)
           n == ValueOfPieces(r.value, p)
<1>1. RequestOK(e)
  BY ErasedTwice
<1>2. e.value = r.value
  BY ErasedIs
<1>3. Valued(e, n) = Erased(Valued(r, n))
  BY RequestIs DEF Valued, Erased, Shaped, Fields
<1>4. RequestOK(header_value_cb(r, p)) /\ ~ValueOver(r, p)
  BY ValueType DEF Accepted
<1> HIDE DEF e
<1>5. ~ValueOver(e, p)
  BY <1>2, <1>4 DEF ValueOver
<1>6. header_value_cb(e, p) = Valued(e, ValueOfPieces(e.value, p))
  BY <1>1, <1>5, ValueTaken
<1>7. header_value_cb(r, p) = Valued(r, n)
  BY <1>4, ValueTaken
<1> QED BY <1>2, <1>3, <1>4, <1>6, <1>7 DEF e

\* What a callback that succeeds hands over
LEMMA HandIs ==
  ASSUME NEW q, NEW k, k = q.requests, IsSequence(k), Len(k) > 0, NEW x, Accepted(x)
  PROVE  Hand(q, x) = [q EXCEPT !.requests = Swapped(k, Erased(x))]
<1>1. Front(k) \o <<Erased(x)>> = Swapped(k, Erased(x))
  BY SwapLast
<1>2. Hand(q, x) = [q EXCEPT !.requests = Front(@) \o <<Erased(x)>>]
  BY DEF Hand, Accepted
<1>3. [q EXCEPT !.requests = Front(@) \o <<Erased(x)>>]
      = [q EXCEPT !.requests = Swapped(k, Erased(x))]
  BY <1>1
<1> QED BY <1>2, <1>3

\* A line without a value
LEMMA EmptyCalls ==
  ASSUME Settled, ~failed', parser.state \notin {"s_start_req", "s_dead"}, piece = Null,
         Called(header_value_cb(Current, <<>>)), Unmark, parser'.state \notin HeadMarks, Advance,
         NEW q, q = Reader(parser', keep_alive, complete, Kept(Handed)),
         Read(Known, ch) = EmptyValue(q)
  PROVE  Follows
<1> DEFINE x == header_value_cb(Current, <<>>)
           k == Kept(requests)
<1>1. PieceOK /\ RequestsOK /\ Len(requests) > 0
  BY BegunIs DEF Settled
<1>2. Handed = requests
  BY UnmarkedIs
<1>3. /\ requests' = Front(requests) \o <<x>> /\ failed' = ~x.ok
      /\ keep_alive' = keep_alive /\ complete' = complete /\ piece' = Null
  BY DEF Called, Unmark
<1>4. RequestOK(Current)
  BY <1>1, RequestsAre, LastOK DEF Current
<1>5. /\ Accepted(x) /\ RequestOK(x)
      /\ header_value_cb(Erased(Current), <<>>) = Erased(x)
  <2>0. <<>> \in Seq(Byte)
    OBVIOUS
  <2>1. PICK p \in Seq(Byte) : p = <<>>
    BY <2>0
  <2>2. Accepted(header_value_cb(Current, p))
    <3>1. header_value_cb(Current, p).ok = TRUE \/ header_value_cb(Current, p).ok = FALSE
      BY <1>4, ValueType
    <3> QED BY <1>3, <2>1, <3>1 DEF Accepted
  <2>3. /\ header_value_cb(Erased(Current), p) = Erased(header_value_cb(Current, p))
        /\ RequestOK(header_value_cb(Current, p))
    BY <1>4, <2>2, ValueOfErased
  <2> QED BY <2>1, <2>2, <2>3
<1> HIDE DEF x
<1>6. /\ PieceOK' /\ RequestsOK' /\ ~Marked
      /\ Known' = Reader(parser', keep_alive', complete', Swapped(Kept(requests), Erased(x)))
      /\ Last(Kept(requests)) = Erased(Current)
      /\ IsSequence(Kept(requests)) /\ Len(Kept(requests)) > 0
  BY <1>1, <1>3, <1>5, ReplaceStep
<1>7. q.requests = k /\ [q EXCEPT !.requests = Swapped(k, Erased(x))]
                        = Reader(parser', keep_alive, complete, Swapped(k, Erased(x)))
  BY <1>2, ReaderIs
<1>a. IsSequence(k) /\ Len(k) > 0
  BY <1>6
<1> HIDE DEF k
<1>8. EmptyValue(q) = Hand(q, Erased(x))
  BY <1>5, <1>6, <1>7 DEF EmptyValue, k
<1>9. Accepted(Erased(x))
  BY <1>5, ErasedIs DEF Accepted
<1>10. Hand(q, Erased(x)) = [q EXCEPT !.requests = Swapped(k, Erased(x))]
  <2>1. PICK e : e = Erased(x)
    OBVIOUS
  <2>2. Erased(e) = e
    BY <1>5, <2>1, ErasedTwice
  <2>3. Hand(q, e) = [q EXCEPT !.requests = Swapped(k, Erased(e))]
    BY <1>7, <1>9, <1>a, <2>1, HandIs
  <2> QED BY <2>1, <2>2, <2>3
<1>11. Known' = EmptyValue(q)
  BY <1>3, <1>6, <1>7, <1>8, <1>10 DEF k
<1>12. ~Marked'
  BY <1>3 DEF Marked
<1> QED BY <1>6, <1>11, <1>12 DEF Follows

\* The reader follows HeaderValueLws.
LEMMA HeaderValueLwsFollows ==
  ASSUME Settled, ~failed', HeaderValueLws
  PROVE  Follows
<1> PICK q : q = Known
  OBVIOUS
<1>1. q.state = parser.state /\ TypeOK
  BY KnownIs DEF Settled
<1>2. parser.state = "s_header_value_lws" /\ NoCall /\ UNCHANGED piece
  BY DEF HeaderValueLws, In
<1>3. piece = Null /\ Len(requests) > 0
  BY <1>2, NoMark, BegunIs DEF MarkStates, HeadMarks, UrlStates
<1>4. Read(q, ch) = IF ch = " " THEN At(q, "s_header_value_start")
                    ELSE LineStart(At(q, "s_header_field_start"), ch)
  BY ZenonT(30), <1>1, <1>2, ReadHeaders
<1>5. CASE ch = " " /\ Goto("s_header_value_start") /\ Advance
  <2>1. Read(q, ch) = At(q, "s_header_value_start")
    BY <1>4, <1>5
  <2> QED BY <1>2, <1>3, <1>5, <2>1, Goes DEF HeadMarks, UrlStates
<1>6. CASE ch # " " /\ Goto("s_header_field_start") /\ Reexecute
  <2> DEFINE t == Reader(parser', keep_alive, complete, Kept(Handed))
  <2>1. parser'.state = "s_header_field_start" /\ t = At(q, "s_header_field_start")
    BY <1>1, <1>6, GotoIs
  <2>2. t.state = "s_header_field_start"
    BY <2>1 DEF Reader
  <2> HIDE DEF t
  <2>3. Read(t, ch) = LineStart(t, ch)
    BY <2>2, ReadHeaders
  <2>4. Read(t, ch) = Read(Known, ch) /\ parser'.state \notin HeadMarks
    BY <1>4, <1>6, <2>1, <2>3 DEF HeadMarks, UrlStates
  <2> QED BY <1>2, <1>3, <1>6, <2>4, Quietly DEF t
<1> QED BY <1>5, <1>6 DEF HeaderValueLws

\* The fields of the parser after a step that counts
LEMMA CountedFields ==
  ASSUME TypeOK, NEW p, p = Counted
  PROVE  /\ p = [x \in ParserFields |-> p[x]]
         /\ p.state = parser.state /\ p.header_state = parser.header_state
         /\ p.flags = parser.flags /\ p.content_length = parser.content_length
         /\ p.method = parser.method /\ p.version = parser.version
<1>1. PICK n \in Nat : Counted = [parser EXCEPT !.nread = n]
  BY CountedIs
<1> QED BY <1>1, ParserRecord DEF ParserShaped, ParserFields

\* The reader follows HeaderValueStart.
LEMMA HeaderValueStartFollows ==
  ASSUME Settled, ~failed', HeaderValueStart
  PROVE  Follows
<1> PICK q : q = Known
  OBVIOUS
<1>1. q.state = parser.state /\ TypeOK /\ q.header_state = parser.header_state
      /\ q.content_length = parser.content_length /\ q.flags = parser.flags
  BY KnownIs DEF Settled
<1>2. parser.state = "s_header_value_start" /\ pos < Len(stream.bytes) /\ Advance
  BY DEF HeaderValueStart, In, Error
<1>3. piece = Null /\ Len(requests) > 0
  BY <1>2, NoMark, BegunIs DEF MarkStates, HeadMarks, UrlStates
<1>4. Read(q, ch) = ValueStart(q, ch)
  BY <1>1, <1>2, ReadHeaders
<1> DEFINE t == Reader(parser', keep_alive, complete, Kept(Handed))
           counts == parser.header_state = "h_content_length"
           hs == FirstOfValue(parser.header_state, ch)
           cl == IF counts THEN ValueOf(ch) ELSE parser.content_length
           fl == parser.flags \cup (IF parser.header_state = "h_upgrade" THEN {"UPGRADE"} ELSE {})
<1>5. CASE ch = " " /\ Goto("s_header_value_start") /\ NoCall /\ UNCHANGED piece
  <2>1. Read(q, ch) = q
    BY <1>4, <1>5 DEF ValueStart
  <2>2. At(q, "s_header_value_start") = q
    BY <1>1, <1>2 DEF At, Known, Reader
  <2> QED BY <1>2, <1>3, <1>5, <2>1, <2>2, Goes DEF HeadMarks, UrlStates
<1>6. CASE /\ ch = CR
           /\ parser' = [Counted EXCEPT !.header_state = "h_general",
                                        !.state = "s_header_almost_done"]
           /\ Called(header_value_cb(Current, <<>>)) /\ Unmark
  <2> DEFINE r == [q EXCEPT !.header_state = "h_general", !.state = "s_header_almost_done"]
  <2>1. /\ parser'.state = "s_header_almost_done" /\ parser'.header_state = "h_general"
        /\ parser'.flags = parser.flags /\ parser'.content_length = parser.content_length
        /\ parser'.method = parser.method /\ parser'.version = parser.version
    BY <1>1, <1>6, CountedFields DEF ParserFields
  <2>2. t = r
    <3>1. PICK u : u = r
      OBVIOUS
    <3>2. /\ u = [x \in ReaderFields |-> u[x]]
          /\ u.state = "s_header_almost_done" /\ u.header_state = "h_general"
          /\ u.flags = parser.flags /\ u.content_length = parser.content_length
          /\ u.method = parser.method /\ u.version = parser.version
          /\ u.keep_alive = keep_alive /\ u.complete = complete /\ u.requests = Kept(Handed)
      BY ZenonT(40), <1>1, <3>1, KnownParts DEF ReaderFields
    <3>3. t = u
      BY <2>1, <3>2, ReaderBy
    <3> QED BY <3>1, <3>3
  <2>3. Read(q, ch) = EmptyValue(r)
    BY <1>4, <1>6, TokenIs DEF ValueStart
  <2> HIDE DEF t, r
  <2>4. Read(Known, ch) = EmptyValue(t) /\ parser'.state \notin HeadMarks
    BY <2>1, <2>2, <2>3 DEF HeadMarks, UrlStates
  <2> QED BY <1>2, <1>3, <1>6, <2>4, EmptyCalls DEF t
<1>7. CASE /\ ch = LF
           /\ Goto("s_header_field_start")
           /\ Called(header_value_cb(Current, <<>>)) /\ Unmark
  <2>1. parser'.state = "s_header_field_start" /\ t = At(q, "s_header_field_start")
    BY <1>1, <1>7, GotoIs
  <2>2. Read(q, ch) = EmptyValue(At(q, "s_header_field_start"))
    BY <1>4, <1>7, TokenIs DEF ValueStart
  <2> HIDE DEF t
  <2>3. Read(Known, ch) = EmptyValue(t) /\ parser'.state \notin HeadMarks
    BY <2>1, <2>2 DEF HeadMarks, UrlStates
  <2> QED BY <1>2, <1>3, <1>7, <2>3, EmptyCalls DEF t
<1>8. CASE /\ ch \notin {" ", CR, LF}
           /\ counts => IsNum(ch)
           /\ parser' = [Counted EXCEPT
                        !.state = "s_header_value",
                        !.header_state = FirstOfValue(@, ch),
                        !.content_length = IF counts THEN ValueOf(ch) ELSE @,
                        !.flags = @ \cup (IF parser.header_state = "h_upgrade"
                                          THEN {"UPGRADE"} ELSE {})]
           /\ Mark /\ NoCall
  <2> DEFINE r == [q EXCEPT !.state = "s_header_value", !.header_state = hs,
                            !.content_length = cl, !.flags = fl]
  <2>1. /\ parser'.state = "s_header_value" /\ parser'.header_state = hs
        /\ parser'.flags = fl /\ parser'.content_length = cl
        /\ parser'.method = parser.method /\ parser'.version = parser.version
    <3> PICK p : p = Counted
      OBVIOUS
    <3>1. /\ p = [x \in ParserFields |-> p[x]]
          /\ p.header_state = parser.header_state /\ p.flags = parser.flags
          /\ p.content_length = parser.content_length
          /\ p.method = parser.method /\ p.version = parser.version
      BY <1>1, CountedFields
    <3>2. parser' = [p EXCEPT !.state = "s_header_value",
                        !.header_state = FirstOfValue(p.header_state, ch),
                        !.content_length = IF counts THEN ValueOf(ch) ELSE p.content_length,
                        !.flags = p.flags \cup (IF parser.header_state = "h_upgrade"
                                          THEN {"UPGRADE"} ELSE {})]
      BY <1>8
    <3> QED BY <3>1, <3>2 DEF ParserFields
  <2> HIDE DEF hs, cl, fl
  <2>2. t = r
    <3>1. PICK u : u = r
      OBVIOUS
    <3>2. /\ u = [x \in ReaderFields |-> u[x]]
          /\ u.state = "s_header_value" /\ u.header_state = hs
          /\ u.flags = fl /\ u.content_length = cl
          /\ u.method = parser.method /\ u.version = parser.version
          /\ u.keep_alive = keep_alive /\ u.complete = complete /\ u.requests = Kept(Handed)
      BY ZenonT(40), <1>1, <3>1, KnownParts DEF ReaderFields
    <3>3. t = u
      BY <2>1, <3>2, ReaderBy
    <3> QED BY <3>1, <3>3
  <2>3. Read(q, ch) = Taken(r, ch)
    BY <1>1, <1>4, <1>8 DEF ValueStart, hs, cl, fl
  <2> HIDE DEF t, r
  <2>4. Read(Known, ch) = Taken(t, ch) /\ parser'.state \in MarkStates
    BY <2>1, <2>2, <2>3 DEF MarkStates, HeadMarks, UrlStates
  <2> QED BY <1>2, <1>3, <1>8, <2>4, Marks DEF t
<1> QED BY <1>5, <1>6, <1>7, <1>8 DEF HeaderValueStart, Error

\* The reader follows HeaderValue.
LEMMA HeaderValueFollows ==
  ASSUME Settled, ~failed', HeaderValue
  PROVE  Follows
<1> PICK q : q = Known
  OBVIOUS
<1>1. q.state = parser.state /\ TypeOK /\ q.header_state = parser.header_state
      /\ q.content_length = parser.content_length /\ q.flags = parser.flags
  BY KnownIs DEF Settled
<1>2. parser.state = "s_header_value" /\ pos < Len(stream.bytes)
  BY DEF HeaderValue, In, Error
<1>3. piece # Null
  BY <1>2 DEF Settled, PieceOK, HeadMarks, UrlStates
<1>4. Read(q, ch) = ValueByte(q, ch)
  BY <1>1, <1>2, ReadHeaders
<1> DEFINE t == Reader(parser', keep_alive, complete, Kept(Handed))
           counts == parser.header_state = "h_content_length" /\ ch \notin {" ", CR, LF}
           taken == IsNum(ch) /\ ~Overflows(parser, 10, ch)
           hs == NextOfValue(parser.header_state, ch)
           cl == IF counts THEN Shifted(parser, 10, ch) ELSE parser.content_length
<1>5. ASSUME Called(header_value_cb(Current, piece))
      PROVE  Called(Given(parser.state, Current, piece))
  BY <1>2, <1>5, GivenIs
<1>6. CASE ch = CR /\ Goto("s_header_almost_done")
           /\ Called(header_value_cb(Current, piece)) /\ Unmark /\ Advance
  <2>1. Read(q, ch) = At(q, "s_header_almost_done")
    BY <1>4, <1>6 DEF ValueByte
  <2> QED BY <1>2, <1>3, <1>5, <1>6, <2>1, GoesCalled DEF HeadMarks, UrlStates
<1>7. CASE ch = LF /\ Goto("s_header_almost_done")
           /\ Called(header_value_cb(Current, piece)) /\ Unmark /\ Reexecute
  <2>1. PICK u : u = At(q, "s_header_almost_done")
    OBVIOUS
  <2>2. u.state = "s_header_almost_done"
    BY <2>1 DEF At, Known, Reader
  <2>3. Read(u, ch) = LineEnd(u)
    BY <1>7, <2>2, ReadHeaders
  <2>4. Read(q, ch) = LineEnd(u)
    BY <1>4, <1>7, <2>1, TokenIs DEF ValueByte
  <2> QED BY <1>2, <1>3, <1>5, <1>7, <2>1, <2>3, <2>4, GoesCalled DEF HeadMarks, UrlStates
<1>8. CASE /\ ch \notin {CR, LF} /\ (counts => taken)
           /\ parser' = [Counted EXCEPT
                        !.header_state = NextOfValue(@, ch),
                        !.content_length = IF counts THEN Shifted(parser, 10, ch) ELSE @]
           /\ Mark /\ Advance /\ NoCall
  <2> DEFINE r == [q EXCEPT !.header_state = hs, !.content_length = cl]
  <2>1. /\ parser'.state = parser.state /\ parser'.header_state = hs
        /\ parser'.flags = parser.flags /\ parser'.content_length = cl
        /\ parser'.method = parser.method /\ parser'.version = parser.version
    <3> PICK p : p = Counted
      OBVIOUS
    <3>1. /\ p = [x \in ParserFields |-> p[x]] /\ p.state = parser.state
          /\ p.header_state = parser.header_state /\ p.flags = parser.flags
          /\ p.content_length = parser.content_length
          /\ p.method = parser.method /\ p.version = parser.version
      BY <1>1, CountedFields
    <3>2. parser' = [p EXCEPT
                        !.header_state = NextOfValue(p.header_state, ch),
                        !.content_length = IF counts THEN Shifted(parser, 10, ch)
                                           ELSE p.content_length]
      BY <1>8
    <3> HIDE DEF counts
    <3> QED BY <3>1, <3>2 DEF ParserFields
  <2>2. Read(q, ch) = Taken(r, ch)
    <3>1. Overflows(q, 10, ch) <=> Overflows(parser, 10, ch)
      BY <1>1 DEF Overflows, Shifted
    <3>2. Shifted(q, 10, ch) = Shifted(parser, 10, ch)
      BY <1>1 DEF Shifted
    <3> QED BY <1>1, <1>4, <1>8, <3>1, <3>2 DEF ValueByte
  <2> HIDE DEF hs, cl
  <2>3. t = r
    <3>1. PICK u : u = r
      OBVIOUS
    <3>2. /\ u = [x \in ReaderFields |-> u[x]]
          /\ u.state = parser.state /\ u.header_state = hs
          /\ u.flags = parser.flags /\ u.content_length = cl
          /\ u.method = parser.method /\ u.version = parser.version
          /\ u.keep_alive = keep_alive /\ u.complete = complete /\ u.requests = Kept(Handed)
      BY <1>1, <3>1, KnownParts DEF ReaderFields
    <3>3. t = u
      BY <2>1, <3>2, ReaderBy
    <3> QED BY <3>1, <3>3
  <2> HIDE DEF t, r
  <2>4. Read(Known, ch) = Taken(t, ch) /\ parser'.state \in MarkStates
        /\ SameMark(parser'.state, parser.state)
    BY <1>2, <2>1, <2>2, <2>3 DEF MarkStates, HeadMarks, UrlStates, SameMark
  <2> QED BY <1>2, <1>3, <1>8, <2>4, Marks DEF t
<1> QED BY <1>6, <1>7, <1>8 DEF HeaderValue, Error

\* The reader follows HeaderAlmostDone.
LEMMA HeaderAlmostDoneFollows ==
  ASSUME Settled, ~failed', HeaderAlmostDone
  PROVE  Follows
<1> PICK q : q = Known
  OBVIOUS
<1>1. q.state = parser.state /\ TypeOK /\ q.header_state = parser.header_state
      /\ q.flags = parser.flags
  BY KnownIs DEF Settled
<1>2. /\ parser.state = "s_header_almost_done" /\ ch = LF /\ Advance /\ NoCall /\ UNCHANGED piece
      /\ parser' = [Counted EXCEPT !.state = "s_header_value_lws",
                                   !.flags = @ \cup FlagsOf(parser.header_state)]
  BY DEF HeaderAlmostDone, In, Error
<1>3. piece = Null /\ Len(requests) > 0
  BY <1>2, NoMark, BegunIs DEF MarkStates, HeadMarks, UrlStates
<1>4. Read(q, ch) = LineEnd(q)
  BY <1>1, <1>2, ReadHeaders
<1> DEFINE t == Reader(parser', keep_alive, complete, Kept(Handed))
           fl == parser.flags \cup FlagsOf(parser.header_state)
<1>5. /\ parser'.state = "s_header_value_lws" /\ parser'.header_state = parser.header_state
      /\ parser'.flags = fl /\ parser'.content_length = parser.content_length
      /\ parser'.method = parser.method /\ parser'.version = parser.version
  BY <1>1, <1>2, CountedFields DEF ParserFields
<1> HIDE DEF fl
<1>6. t = LineEnd(q)
  <2>1. PICK u : u = LineEnd(q)
    OBVIOUS
  <2>2. /\ u = [x \in ReaderFields |-> u[x]]
        /\ u.state = "s_header_value_lws" /\ u.header_state = parser.header_state
        /\ u.flags = fl /\ u.content_length = parser.content_length
        /\ u.method = parser.method /\ u.version = parser.version
        /\ u.keep_alive = keep_alive /\ u.complete = complete /\ u.requests = Kept(Handed)
    BY ZenonT(40), <1>1, <2>1, KnownParts DEF ReaderFields, LineEnd, fl
  <2>3. t = u
    BY <1>5, <2>2, ReaderBy
  <2> QED BY <2>1, <2>3
<1> HIDE DEF t
<1>7. t = Read(Known, ch) /\ parser'.state \notin HeadMarks
  BY <1>4, <1>5, <1>6 DEF HeadMarks, UrlStates
<1> QED BY <1>2, <1>3, <1>7, Quietly DEF t

DoneOf(r) == [r EXCEPT !.done = TRUE]
\* A request that is complete is a sound one.
LEMMA DoneIs ==
  ASSUME NEW r, RequestOK(r)
  PROVE  RequestOK(DoneOf(r)) /\ Erased(DoneOf(r)) = DoneOf(Erased(r))
<1> DEFINE d == DoneOf(r)
<1>1. Shaped(r) /\ Sound(r.path, r.field, r.value, r.body, r.bad_request_code, r.ok)
  BY RequestIs
<1>2. /\ Shaped(d) /\ d.path = r.path /\ d.field = r.field /\ d.value = r.value
      /\ d.body = r.body /\ d.bad_request_code = r.bad_request_code /\ d.ok = r.ok
  BY <1>1 DEF DoneOf, Shaped, Fields
<1>3. Erased(d) = DoneOf(Erased(r))
  BY <1>1 DEF DoneOf, Erased, Shaped, Fields
<1> HIDE DEF d
<1>4. RequestOK(d)
  BY <1>1, <1>2, RequestIs
<1> QED BY <1>3, <1>4 DEF d

\* The parser but for its state
SameBut(p, s) ==
  /\ p.state = s /\ p.header_state = parser.header_state /\ p.flags = parser.flags
  /\ p.content_length = parser.content_length
  /\ p.method = parser.method /\ p.version = parser.version

\* A message is complete.
LEMMA Completes ==
  ASSUME Settled, ~failed', parser.state \notin {"s_start_req", "s_dead"}, piece = Null, piece' = Null,
         requests' = Front(requests) \o <<DoneOf(Current)>>, complete' = TRUE,
         keep_alive' = keep_alive, SameBut(parser', NewMessage(parser)), Advance,
         NEW q, q = Known, Read(q, ch) = Completed(q)
  PROVE  Follows
<1> DEFINE x == DoneOf(Current)
           k == Kept(requests)
<1>1. PieceOK /\ RequestsOK /\ Len(requests) > 0 /\ TypeOK
  BY BegunIs DEF Settled
<1>2. Handed = requests
  BY UnmarkedIs
<1>3. RequestOK(Current)
  BY <1>1, RequestsAre, LastOK DEF Current
<1>4. RequestOK(x) /\ Erased(x) = DoneOf(Erased(Current))
  BY <1>3, DoneIs
<1> HIDE DEF x
<1>5. parser'.state \notin HeadMarks
  BY DEF SameBut, NewMessage, HeadMarks, UrlStates
<1>6. requests' = Front(requests) \o <<x>>
  BY DEF x
<1>7. /\ PieceOK' /\ RequestsOK' /\ ~Marked
      /\ Known' = Reader(parser', keep_alive', complete', Swapped(Kept(requests), Erased(x)))
      /\ Last(Kept(requests)) = Erased(Current)
      /\ IsSequence(Kept(requests)) /\ Len(Kept(requests)) > 0
  BY <1>1, <1>4, <1>5, <1>6, ReplaceStep
<1>8. Completed(q) = Reader(parser', keep_alive, TRUE, Swapped(k, Erased(x)))
  <2>0. PICK o : o = TRUE
    OBVIOUS
  <2>1. Front(k) \o <<Erased(x)>> = Swapped(k, Erased(x))
    BY <1>7, SwapLast
  <2>2. PICK u : u = Completed(q)
    OBVIOUS
  <2>3. /\ q = [y \in ReaderFields |-> q[y]]
        /\ q.header_state = parser.header_state
        /\ q.flags = parser.flags /\ q.content_length = parser.content_length
        /\ q.method = parser.method /\ q.version = parser.version
        /\ q.keep_alive = keep_alive /\ q.requests = k
    BY <1>1, <1>2, KnownParts
  <2>4. NewMessage(q) = NewMessage(parser)
    BY <2>3 DEF NewMessage, ShouldKeepAlive
  <2>5. [Last(q.requests) EXCEPT !.done = TRUE] = Erased(x)
    BY <1>4, <1>7, <2>3 DEF DoneOf
  <2> DEFINE rs == Front(q.requests) \o <<[Last(q.requests) EXCEPT !.done = TRUE]>>
             s == NewMessage(parser)
  <2>6. rs = Swapped(k, Erased(x))
    BY <2>1, <2>3, <2>5
  <2>7. u = [q EXCEPT !.state = s, !.complete = TRUE, !.requests = rs]
    BY <2>2, <2>4 DEF Completed
  <2> HIDE DEF k, rs, s
  <2>8. /\ u = [y \in ReaderFields |-> u[y]]
        /\ u.state = s /\ u.header_state = parser.header_state
        /\ u.flags = parser.flags /\ u.content_length = parser.content_length
        /\ u.method = parser.method /\ u.version = parser.version
        /\ u.keep_alive = keep_alive /\ u.complete = o /\ u.requests = rs
    BY <2>0, <2>3, <2>7 DEF ReaderFields
  <2>9. u = Reader(parser', keep_alive, o, rs)
    BY <2>8, ReaderBy DEF SameBut, s
  <2> QED BY <2>0, <2>2, <2>6, <2>9 DEF k
<1>9. Known' = Completed(q)
  BY <1>7, <1>8
<1>10. ~Marked'
  BY DEF Marked
<1> QED BY <1>7, <1>9, <1>10 DEF Follows

\* The reader follows MessageDone.
LEMMA MessageDoneFollows ==
  ASSUME Settled, ~failed', MessageDone
  PROVE  Follows
<1> PICK q : q = Known
  OBVIOUS
<1>1. q.state = parser.state /\ TypeOK
  BY KnownIs DEF Settled
<1>2. /\ parser.state = "s_message_done" /\ Advance /\ UNCHANGED piece
      /\ parser' = [Counted EXCEPT !.state = NewMessage(parser)]
      /\ requests' = Front(requests) \o <<DoneOf(Current)>> /\ complete' = TRUE
      /\ keep_alive' = keep_alive
  BY DEF MessageDone, In, Goto, MessageComplete, DoneOf
<1>3. piece = Null
  BY <1>2, NoMark DEF MarkStates, HeadMarks, UrlStates
<1>4. SameBut(parser', NewMessage(parser))
  BY <1>1, <1>2, CountedFields DEF SameBut, ParserFields
<1>5. Read(q, ch) = Completed(q)
  BY <1>1, <1>2, ReadBodies
<1> QED BY <1>2, <1>3, <1>4, <1>5, Completes

\* The reader follows HeadersDone.
LEMMA HeadersDoneFollows ==
  ASSUME Settled, ~failed', HeadersDone
  PROVE  Follows
<1> PICK q : q = Known
  OBVIOUS
<1>1. q.state = parser.state /\ TypeOK /\ q.flags = parser.flags /\ q.method = parser.method
      /\ q.content_length = parser.content_length
  BY KnownIs DEF Settled
<1> DEFINE upgrade == "UPGRADE" \in parser.flags \/ parser.method.name = "CONNECT"
           chunked == "CHUNKED" \in parser.flags
<1>2. parser.state = "s_headers_done" /\ Advance /\ UNCHANGED piece
  BY DEF HeadersDone, In
<1>3. piece = Null /\ Len(requests) > 0
  BY <1>2, NoMark, BegunIs DEF MarkStates, HeadMarks, UrlStates
<1>4. Read(q, ch) = HeadOver(q)
  BY <1>1, <1>2, ReadHeaders
<1>5. HeadOver(q) = IF upgrade \/ (~chunked /\ NoContent) THEN Completed(q)
                    ELSE At(q, IF chunked THEN "s_chunk_size_start" ELSE "s_body_identity")
  BY <1>1 DEF HeadOver, NoContent
<1>6. ASSUME upgrade \/ (~chunked /\ NoContent),
             parser' = [Counted EXCEPT !.nread = 0, !.state = NewMessage(parser)],
             complete' = TRUE, keep_alive' = keep_alive,
             requests' = Front(requests) \o <<DoneOf(Current)>>
      PROVE  Follows
  <2>1. SameBut(parser', NewMessage(parser))
    BY <1>1, <1>6, CountedFields DEF SameBut, ParserFields
  <2>2. Read(q, ch) = Completed(q)
    BY <1>4, <1>5, <1>6
  <2> QED BY <1>2, <1>3, <1>6, <2>1, <2>2, Completes
<1>7. ASSUME NEW s, ~(upgrade \/ (~chunked /\ NoContent)), s \notin HeadMarks,
             s = (IF chunked THEN "s_chunk_size_start" ELSE "s_body_identity"),
             parser' = [Counted EXCEPT !.nread = 0, !.state = s], NoCall
      PROVE  Follows
  <2> DEFINE t == Reader(parser', keep_alive, complete, Kept(Handed))
  <2>1. SameBut(parser', s)
    BY <1>1, <1>7, CountedFields DEF SameBut, ParserFields
  <2>2. t = At(q, s)
    <3>1. PICK u : u = At(q, s)
      OBVIOUS
    <3>2. /\ u = [x \in ReaderFields |-> u[x]]
          /\ u.state = s /\ u.header_state = parser.header_state
          /\ u.flags = parser.flags /\ u.content_length = parser.content_length
          /\ u.method = parser.method /\ u.version = parser.version
          /\ u.keep_alive = keep_alive /\ u.complete = complete /\ u.requests = Kept(Handed)
      BY <1>1, <3>1, KnownParts DEF ReaderFields, At
    <3>3. t = u
      BY <2>1, <3>2, ReaderBy DEF SameBut
    <3> QED BY <3>1, <3>3
  <2>3. Read(q, ch) = At(q, s)
    BY <1>4, <1>5, <1>7
  <2> HIDE DEF t
  <2>4. t = Read(Known, ch) /\ parser'.state \notin HeadMarks
    BY <1>7, <2>1, <2>2, <2>3 DEF SameBut
  <2> QED BY <1>2, <1>3, <2>4, <1>7, Quietly DEF t
<1>8. "s_chunk_size_start" \notin HeadMarks /\ "s_body_identity" \notin HeadMarks
  BY DEF HeadMarks, UrlStates
<1> QED BY <1>6, <1>7, <1>8 DEF HeadersDone, MessageComplete, DoneOf

\* A request after headers_complete_cb
HeadedWith(r, env, last, length) ==
  [r EXCEPT !.environ = env, !.path = NoBuffer, !.field = IF last THEN Null ELSE @,
            !.value = IF last THEN Null ELSE @, !.body_length = length, !.headed = TRUE]

\* A request with its environ is a sound one.
LEMMA HeadedIs ==
  ASSUME NEW r, RequestOK(r), NEW env, NEW last, NEW length
  PROVE  /\ RequestOK(HeadedWith(r, env, last, length))
         /\ Erased(HeadedWith(r, env, last, length)) = HeadedWith(Erased(r), env, last, length)
<1> DEFINE h == HeadedWith(r, env, last, length)
           field == IF last THEN Null ELSE r.field
           value == IF last THEN Null ELSE r.value
<1>1. Shaped(r) /\ Sound(r.path, r.field, r.value, r.body, r.bad_request_code, r.ok)
  BY RequestIs
<1>2. /\ Shaped(h) /\ h.path = NoBuffer /\ h.field = field /\ h.value = value
      /\ h.body = r.body /\ h.bad_request_code = r.bad_request_code /\ h.ok = r.ok
  BY <1>1 DEF HeadedWith, Shaped, Fields
<1>3. Sound(NoBuffer, field, value, r.body, r.bad_request_code, r.ok)
  <2>1. NoBuffer \in [bytes : Seq(Byte), buf_size : 0 .. UriSize + 1]
    BY LimitsAssumption DEF NoBuffer
  <2>2. CASE last
    BY <1>1, <2>1, <2>2, NullIs DEF Sound
  <2>3. CASE ~last
    BY <1>1, <2>1, <2>3 DEF Sound
  <2> QED BY <2>2, <2>3
<1>4. Erased(h) = HeadedWith(Erased(r), env, last, length)
  <2>1. NoBuffer = [bytes |-> NoBuffer.bytes, buf_size |-> 0]
    BY DEF NoBuffer
  <2>2. PICK e : e = Erased(r)
    OBVIOUS
  <2>3. /\ Shaped(e) /\ e.field = r.field /\ e.value = r.value
        /\ e.last_header_element = r.last_header_element /\ e.num_headers = r.num_headers
        /\ e.body = r.body /\ e.body_type = r.body_type
        /\ e.bad_request_code = r.bad_request_code /\ e.ok = r.ok /\ e.done = r.done
    BY <2>2, ErasedIs, ErasedTwice
  <2>4. PICK f : f = HeadedWith(e, env, last, length)
    OBVIOUS
  <2>5. PICK g : g = Erased(h)
    OBVIOUS
  <2>6. g = [h EXCEPT !.path = NoBuffer]
    BY <1>2, <2>1, <2>5 DEF Erased
  <2>7. Shaped(f) /\ Shaped(g)
    <3>1. Shaped(f)
      BY <2>3, <2>4 DEF HeadedWith, Shaped, Fields
    <3> HIDE DEF h
    <3>2. Shaped(g)
      BY <1>2, <2>6 DEF Shaped, Fields
    <3> QED BY <3>1, <3>2
  <2>a. PICK o : o = TRUE
    OBVIOUS
  <2>8. /\ f.path = NoBuffer /\ f.field = field /\ f.value = value
        /\ f.last_header_element = r.last_header_element /\ f.num_headers = r.num_headers
        /\ f.environ = env /\ f.body = r.body /\ f.body_type = r.body_type
        /\ f.body_length = length /\ f.bad_request_code = r.bad_request_code
        /\ f.ok = r.ok /\ f.headed = o /\ f.done = r.done
    BY <2>3, <2>4, <2>a DEF HeadedWith, Shaped, Fields
  <2>9. /\ h.path = NoBuffer /\ h.field = field /\ h.value = value
        /\ h.last_header_element = r.last_header_element /\ h.num_headers = r.num_headers
        /\ h.environ = env /\ h.body = r.body /\ h.body_type = r.body_type
        /\ h.body_length = length /\ h.bad_request_code = r.bad_request_code
        /\ h.ok = r.ok /\ h.headed = o /\ h.done = r.done
    BY <1>1, <2>a DEF HeadedWith, Shaped, Fields
  <2> HIDE DEF h, field, value
  <2>10. h = f
    BY <1>2, <2>7, <2>8, <2>9 DEF Shaped, Fields
  <2>11. g = h
    BY <1>2, <2>6 DEF Shaped, Fields
  <2> QED BY <2>2, <2>4, <2>5, <2>10, <2>11
<1> HIDE DEF h, field, value
<1>5. RequestOK(h)
  BY <1>2, <1>3, RequestIs
<1> QED BY <1>4, <1>5 DEF h

\* What is declined is not accepted.
LEMMA DeclinedIsNot ==
  ASSUME NEW r, Declines(r)
  PROVE  ~Accepted(r)
  BY DEF Declines, Accepted

\* headers_complete_cb accepts or declines, whatever the URL's size.
LEMMA HeadersCallback ==
  ASSUME NEW r, RequestOK(r), NEW length, NEW unlimited, NEW version, NEW method,
         NEW x, x = headers_complete_cb(r, length, unlimited, version, method)
  PROVE  /\ Accepted(x) \/ Declines(x)
         /\ Accepted(x) =>
              /\ RequestOK(x)
              /\ headers_complete_cb(Erased(r), length, unlimited, version, method) = Erased(x)
         /\ Declines(x) =>
              Declines(headers_complete_cb(Erased(r), length, unlimited, version, method))
<1> DEFINE over == ~unlimited /\ MaxContent < length
           bad == \E i \in DOMAIN r.path.bytes : r.path.bytes[i] = "%"
           last == r.field # Null /\ r.value # Null
           env1 == Put(r.environ, <<"SERVER_PROTOCOL">>,
                       <<IF version = "1.1" THEN "1.1" ELSE "1.0">>)
           env2 == Put(Put(env1, <<"PATH_INFO">>, PathOf(r.path.bytes)),
                       <<"QUERY_STRING">>, QueryOf(r.path.bytes))
           env3 == IF last THEN Put(env2, r.field, r.value) ELSE env2
           env4 == replace_env_key(replace_env_key(env3, <<"HTTP_", "ct">>, <<"CONTENT_TYPE">>),
                                   <<"HTTP_", "cl">>, <<"CONTENT_LENGTH">>)
           env5 == Put(env4, <<"REQUEST_METHOD">>, <<Presented(method)>>)
           len == IF unlimited THEN NoLength ELSE length
           e == Erased(r)
<1>1. Shaped(r) /\ Shaped(e)
  BY RequestIs, ErasedTwice
<1>2. /\ e.environ = r.environ /\ e.path.bytes = r.path.bytes /\ e.field = r.field
      /\ e.value = r.value
  <2>1. e.path = [bytes |-> r.path.bytes, buf_size |-> 0]
    BY ErasedIs
  <2>2. e.environ = r.environ /\ e.field = r.field /\ e.value = r.value
    BY ErasedIs
  <2> HIDE DEF e
  <2>3. e.path.bytes = r.path.bytes
    BY <2>1
  <2> QED BY <2>2, <2>3
<1> PICK y : y = headers_complete_cb(e, length, unlimited, version, method)
  OBVIOUS
<1>3. CASE over \/ bad
  <2> PICK w : w = e
    OBVIOUS
  <2>1. ASSUME over PROVE Declines(x) /\ Declines(y)
    <3>1. x = [r EXCEPT !.bad_request_code = 413, !.ok = FALSE]
      BY <2>1 DEF headers_complete_cb, Fail
    <3>2. y = headers_complete_cb(w, length, unlimited, version, method)
      OBVIOUS
    <3>3. y = [w EXCEPT !.bad_request_code = 413, !.ok = FALSE]
      BY <2>1, <3>2 DEF headers_complete_cb, Fail
    <3>4. Shaped(w)
      BY <1>1
    <3> HIDE DEF e
    <3>5. Declines(x)
      BY <1>1, <3>1 DEF Shaped, Fields, Declines
    <3>6. Declines(y)
      BY <3>3, <3>4 DEF Shaped, Fields, Declines
    <3> QED BY <3>5, <3>6
  <2>2. ASSUME ~over, bad PROVE Declines(x) /\ Declines(y)
    <3>1. x = [r EXCEPT !.environ = env1, !.ok = FALSE]
      BY <2>2 DEF headers_complete_cb
    <3>2. Shaped(w)
      BY <1>1
    <3> HIDE DEF e
    <3>3. /\ y = headers_complete_cb(w, length, unlimited, version, method)
          /\ w.environ = r.environ /\ w.path.bytes = r.path.bytes
      BY <1>2
    <3>4. \E i \in DOMAIN w.path.bytes : w.path.bytes[i] = "%"
      BY <2>2, <3>3
    <3>5. y = [w EXCEPT !.environ = env1, !.ok = FALSE]
      BY <2>2, <3>3, <3>4 DEF headers_complete_cb
    <3> HIDE DEF env1
    <3>6. Declines(x)
      BY <1>1, <3>1 DEF Shaped, Fields, Declines
    <3>7. Declines(y)
      BY <3>2, <3>5 DEF Shaped, Fields, Declines
    <3> QED BY <3>6, <3>7
  <2>3. Declines(x) /\ Declines(y)
    BY <1>3, <2>1, <2>2
  <2>4. ~Accepted(x)
    BY <2>3, DeclinedIsNot
  <2> QED BY <2>3, <2>4
<1>4. CASE ~over /\ ~bad
  <2>1. x = HeadedWith(r, env5, last, len)
    BY <1>4 DEF headers_complete_cb, HeadedWith
  <2>2. headers_complete_cb(e, length, unlimited, version, method) = HeadedWith(e, env5, last, len)
    <3> HIDE DEF e
    <3>1. ~(\E i \in DOMAIN e.path.bytes : e.path.bytes[i] = "%")
      BY <1>2, <1>4
    <3> QED BY <1>2, <1>4, <3>1 DEF headers_complete_cb, HeadedWith
  <2> HIDE DEF env5, last, len
  <2>3. RequestOK(x) /\ HeadedWith(e, env5, last, len) = Erased(x)
    BY <2>1, HeadedIs
  <2>4. Accepted(x)
    BY <2>3, RequestIs DEF Sound, Accepted
  <2>5. ~Declines(x)
    BY <2>4 DEF Accepted, Declines
  <2> QED BY <2>2, <2>3, <2>4, <2>5
<1> QED BY <1>3, <1>4

\* The reader follows HeadersAlmostDone.
LEMMA HeadersAlmostDoneFollows ==
  ASSUME Settled, ~failed', HeadersAlmostDone
  PROVE  Follows
<1> PICK q : q = Known
  OBVIOUS
<1>1. q.state = parser.state /\ TypeOK /\ q.flags = parser.flags
      /\ q.content_length = parser.content_length /\ q.method = parser.method
      /\ q.version = parser.version
  BY KnownIs DEF Settled
<1>2. parser.state = "s_headers_almost_done" /\ ch = LF /\ UNCHANGED piece
  BY DEF HeadersAlmostDone, In, Error
<1>3. piece = Null /\ Len(requests) > 0
  BY <1>2, NoMark, BegunIs DEF MarkStates, HeadMarks, UrlStates
<1>4. Read(q, ch) = HeadEnd(q)
  BY <1>1, <1>2, ReadHeaders
<1>5. CASE "TRAILING" \in parser.flags /\ Goto(NewMessage(parser)) /\ MessageComplete /\ Advance
  <2>1. SameBut(parser', NewMessage(parser))
    BY <1>1, <1>5, CountedFields DEF Goto, SameBut, ParserFields
  <2>2. requests' = Front(requests) \o <<DoneOf(Current)>> /\ complete' = TRUE
        /\ keep_alive' = keep_alive
    BY <1>5 DEF MessageComplete, DoneOf
  <2>3. Read(q, ch) = Completed(q)
    BY <1>1, <1>4, <1>5 DEF HeadEnd
  <2> QED BY <1>2, <1>3, <1>5, <2>1, <2>2, <2>3, Completes
<1> DEFINE x == headers_complete_cb(Current, parser.content_length,
                                    parser.content_length = Unlimited,
                                    parser.version, parser.method.name)
           k == Kept(requests)
<1>6. CASE /\ "TRAILING" \notin parser.flags
           /\ Goto("s_headers_done")
           /\ requests' = Front(requests) \o <<x>> /\ failed' = ~x.ok
           /\ keep_alive' = ShouldKeepAlive(parser)
           /\ Reexecute /\ UNCHANGED <<piece, complete>>
  <2>1. PieceOK /\ RequestsOK
    BY DEF Settled
  <2>2. Handed = requests
    BY <1>3, UnmarkedIs
  <2>3. RequestOK(Current)
    BY <1>3, <2>1, RequestsAre, LastOK DEF Current
  <2>4. /\ Accepted(x) /\ RequestOK(x)
        /\ headers_complete_cb(Erased(Current), parser.content_length,
                               parser.content_length = Unlimited,
                               parser.version, parser.method.name) = Erased(x)
    <3>1. PICK u : u = (parser.content_length = Unlimited)
      OBVIOUS
    <3>2. PICK y : y = headers_complete_cb(Current, parser.content_length, u,
                                           parser.version, parser.method.name)
      OBVIOUS
    <3>3. x = y
      BY <3>1, <3>2
    <3>4. /\ Accepted(y) \/ Declines(y)
          /\ Accepted(y) =>
               /\ RequestOK(y)
               /\ headers_complete_cb(Erased(Current), parser.content_length, u,
                                      parser.version, parser.method.name) = Erased(y)
      BY <2>3, <3>2, HeadersCallback
    <3> HIDE DEF x
    <3>5. Accepted(y)
      BY <1>6, <3>3, <3>4 DEF Declines
    <3>6. headers_complete_cb(Erased(Current), parser.content_length, u,
                                      parser.version, parser.method.name) = Erased(y)
      BY <3>4, <3>5
    <3>7. Accepted(x) /\ RequestOK(x)
      BY <3>3, <3>4, <3>5
    <3> QED BY <3>1, <3>3, <3>6, <3>7
  <2> HIDE DEF x
  <2>5. SameBut(parser', "s_headers_done")
    BY <1>1, <1>6, CountedFields DEF Goto, SameBut, ParserFields
  <2>6. parser'.state \notin HeadMarks
    BY <2>5 DEF SameBut, HeadMarks, UrlStates
  <2>7. /\ PieceOK' /\ RequestsOK' /\ ~Marked
        /\ Known' = Reader(parser', keep_alive', complete', Swapped(Kept(requests), Erased(x)))
        /\ Last(Kept(requests)) = Erased(Current)
        /\ IsSequence(Kept(requests)) /\ Len(Kept(requests)) > 0
    BY <1>3, <1>6, <2>1, <2>4, <2>6, ReplaceStep
  <2> DEFINE r == [q EXCEPT !.state = "s_headers_done", !.keep_alive = ShouldKeepAlive(q)]
             ka == ShouldKeepAlive(parser)
             rs == Swapped(k, Erased(x))
  <2>8. /\ q = [y \in ReaderFields |-> q[y]] /\ q.header_state = parser.header_state
        /\ q.complete = complete /\ q.requests = k
    BY <1>1, <2>2, KnownParts
  <2>9. ShouldKeepAlive(q) = ka
    BY <1>1 DEF ShouldKeepAlive
  <2>10. IsSequence(k) /\ Len(k) > 0 /\ Last(k) = Erased(Current)
    BY <2>7
  <2> HIDE DEF k, ka
  <2>11. r.requests = k /\ Accepted(Erased(x))
    <3>1. r.requests = k
      BY <2>8 DEF ReaderFields
    <3>2. Accepted(Erased(x))
      BY <2>4, ErasedIs DEF Accepted
    <3> QED BY <3>1, <3>2
  <2>12. /\ [r EXCEPT !.requests = rs] = Reader(parser', ka, complete, rs)
         /\ [r EXCEPT !.requests = rs].state = "s_headers_done"
    <3> HIDE DEF rs
    <3>1. PICK u : u = [r EXCEPT !.requests = rs]
      OBVIOUS
    <3>2. /\ u = [y \in ReaderFields |-> u[y]]
          /\ u.state = "s_headers_done" /\ u.header_state = parser.header_state
          /\ u.flags = parser.flags /\ u.content_length = parser.content_length
          /\ u.method = parser.method /\ u.version = parser.version
          /\ u.keep_alive = ka /\ u.complete = complete /\ u.requests = rs
      BY <1>1, <2>8, <2>9, <3>1 DEF ReaderFields
    <3>3. u = Reader(parser', ka, complete, rs)
      BY <2>5, <3>2, ReaderBy DEF SameBut
    <3> QED BY <3>1, <3>2, <3>3
  <2> HIDE DEF r
  <2>13. Hand(r, Erased(x)) = [r EXCEPT !.requests = rs]
    <3>1. PICK e : e = Erased(x)
      OBVIOUS
    <3>2. Erased(e) = e
      BY <2>4, <3>1, ErasedTwice
    <3>3. Hand(r, e) = [r EXCEPT !.requests = Swapped(k, Erased(e))]
      BY <2>10, <2>11, <3>1, HandIs
    <3> QED BY <3>1, <3>2, <3>3
  <2>14. Hand(r, Erased(x)) = Known' /\ Known'.state = "s_headers_done"
    <3>1. Hand(r, Erased(x)) = Reader(parser', ka, complete, rs)
      BY <2>12, <2>13
    <3>2. Known' = Reader(parser', ka, complete, rs)
      BY <1>6, <2>7 DEF k, ka
    <3>3. Reader(parser', ka, complete, rs).state = "s_headers_done"
      BY <2>5 DEF Reader, SameBut
    <3> QED BY <3>1, <3>2, <3>3
  <2>15. HeadEnd(q) = HeadOver(Known')
    <3>1. PICK u : u = Known'
      OBVIOUS
    <3>2. u # Refused
      <4>1. u.state = "s_headers_done"
        BY <2>14, <3>1
      <4>2. Refused.state = "refused"
        BY DEF Refused
      <4> QED BY <4>1, <4>2
    <3>3. Last(q.requests) = Erased(Current)
      BY <2>8, <2>10
    <3>4. headers_complete_cb(Last(q.requests), q.content_length, q.content_length = Unlimited,
                              q.version, q.method.name) = Erased(x)
      BY <1>1, <2>4, <3>3
    <3>5. HeadEnd(q) = IF "TRAILING" \in q.flags THEN Completed(q)
                       ELSE IF Hand(r, Erased(x)) = Refused THEN Refused
                       ELSE HeadOver(Hand(r, Erased(x)))
      BY <3>4 DEF HeadEnd, r
    <3> QED BY <1>1, <1>6, <2>14, <3>1, <3>2, <3>5
  <2>16. Read(Known', ch) = HeadOver(Known')
    <3>1. PICK u : u = Known'
      OBVIOUS
    <3>2. Read(u, ch) = HeadOver(u)
      BY <2>14, <3>1, ReadHeaders
    <3> QED BY <3>1, <3>2
  <2>17. ~Marked'
    BY <1>3, <1>6 DEF Marked
  <2> QED BY <1>4, <1>6, <2>7, <2>15, <2>16, <2>17 DEF Follows
<1> QED BY <1>2, <1>5, <1>6 DEF HeadersAlmostDone, Error

\* The reader follows EndRead.
LEMMA EndReadFollows ==
  ASSUME Settled, ~failed', EndRead
  PROVE  Follows
<1> PICK s : s = parser.state
  OBVIOUS
<1> PICK f : f = Leftover
  OBVIOUS
<1>1. /\ piece \notin {Null, <<>>} /\ requests' = Front(requests) \o <<f>>
      /\ UNCHANGED <<keep_alive, complete, stream, pos, again, parser>>
      /\ piece' = IF s \in HeadMarks THEN <<>> ELSE Null
      /\ ~(f.bad_request_code > 0)
  BY DEF EndRead, HeadMarks, UrlStates
<1>2. PieceOK /\ RequestsOK /\ TypeOK
  BY DEF Settled
<1>3. s \in MarkStates /\ piece \in Seq(Byte) /\ Marked
  BY <1>1, <1>2 DEF PieceOK, Marked
<1>4. Len(requests) > 0
  BY <1>3, BegunIs DEF MarkStates, HeadMarks, UrlStates
<1>5. AllOK(requests) /\ RequestOK(Last(requests)) /\ f = Given(s, Last(requests), piece)
  BY <1>2, <1>4, RequestsAre, LastOK DEF Leftover, Current
<1>6. Accepted(f) /\ RequestOK(f)
  <2>1. ~Refuses(f)
    BY <1>1 DEF Refuses
  <2>2. ~Accepted(f) => Refuses(f)
    BY <1>3, <1>5, GivenType
  <2> QED BY <1>3, <1>5, <2>1, <2>2, GivenType
<1>7. requests' = Swapped(requests, f)
  BY <1>1, <1>4, <1>5, SwapLast DEF AllOK
<1>8. AllOK(requests') /\ Len(requests') > 0 /\ Last(requests') = f
  <2>1. AllOK(Swapped(requests, f)) /\ Len(Swapped(requests, f)) = Len(requests)
    BY <1>4, <1>5, <1>6, SwappedOK
  <2>2. Last(Swapped(requests, f)) = f
    BY <1>4, <1>5, SwappedIs DEF AllOK
  <2> QED BY <1>4, <1>7, <2>1, <2>2
<1>9. RequestsOK'
  BY <1>8 DEF RequestsOK, AllOK, IsSequence
<1>10. s \in HeadMarks => Leftover' = Current'
  <2>1. ASSUME s \in HeadMarks PROVE Given(s, f, <<>>) = f
    BY <1>3, <1>5, <1>6, <2>1, GivenNothing
  <2>2. Current' = f
    BY <1>8 DEF Current
  <2>3. s \in HeadMarks => Leftover' = Given(s, Current', <<>>)
    BY <1>1 DEF Leftover
  <2> QED BY <2>1, <2>2, <2>3
<1>11. PieceOK'
  <2>1. CASE s \in HeadMarks
    <3>1. piece' = <<>>
      BY <1>1, <2>1
    <3>2. <<>> \in Seq(Byte) /\ <<>> # Null
      BY NullIs
    <3>3. parser'.state \in HeadMarks
      BY <1>1, <2>1
    <3> QED BY <1>10, <2>1, <3>1, <3>2, <3>3 DEF PieceOK, MarkStates
  <2>2. CASE s \notin HeadMarks
    <3>1. piece' = Null /\ parser'.state \notin HeadMarks
      BY <1>1, <2>2
    <3>2. <<>> # Null
      BY NullIs
    <3> QED BY <3>1, <3>2 DEF PieceOK
  <2> QED BY <2>1, <2>2
<1>12. ~Marked' /\ Handed' = requests'
  BY <1>1 DEF Marked, Handed
<1>13. Handed = requests'
  BY <1>1, <1>3 DEF Handed
<1>14. Known' = Known
  BY <1>1, <1>12, <1>13 DEF Known
<1> QED BY <1>1, <1>6, <1>9, <1>11, <1>12, <1>14 DEF Follows

\* A step of the chunks' framing: the parser is left with a state, flags and a length.
LEMMA FramingStep ==
  ASSUME Settled, ~failed', parser.state \notin {"s_start_req", "s_dead"}, piece = Null,
         UNCHANGED piece, NoCall, Advance, NEW s, s \notin HeadMarks, NEW fl, NEW cl,
         parser'.state = s, parser'.header_state = parser.header_state, parser'.flags = fl,
         parser'.content_length = cl, parser'.method = parser.method,
         parser'.version = parser.version,
         NEW u, u = Read(Known, ch), u = [x \in ReaderFields |-> u[x]],
         u.state = s, u.header_state = Known.header_state, u.flags = fl, u.content_length = cl,
         u.method = Known.method, u.version = Known.version, u.keep_alive = Known.keep_alive,
         u.complete = Known.complete, u.requests = Known.requests
  PROVE  Follows
<1> DEFINE t == Reader(parser', keep_alive, complete, Kept(Handed))
<1>1. /\ Known.header_state = parser.header_state /\ Known.method = parser.method
      /\ Known.version = parser.version /\ Known.keep_alive = keep_alive
      /\ Known.complete = complete /\ Known.requests = Kept(Handed)
  BY KnownParts DEF Settled
<1>2. Len(requests) > 0
  BY BegunIs
<1>3. t = u
  BY <1>1, ReaderBy
<1> HIDE DEF t
<1>4. t = Read(Known, ch) /\ parser'.state \notin HeadMarks
  BY <1>3
<1> QED BY <1>2, <1>4, Quietly DEF t

\* The reader follows ChunkSizeStart.
LEMMA ChunkSizeStartFollows ==
  ASSUME Settled, ~failed', ChunkSizeStart
  PROVE  Follows
<1> PICK q : q = Known
  OBVIOUS
<1>1. q.state = parser.state /\ TypeOK /\ q.flags = parser.flags
  BY KnownIs DEF Settled
<1>2. /\ parser.state = "s_chunk_size_start" /\ IsNum(ch) /\ Advance /\ NoCall /\ UNCHANGED piece
      /\ parser' = [Counted EXCEPT !.content_length = ValueOf(ch), !.state = "s_chunk_size"]
  BY DEF ChunkSizeStart, In, Error
<1>3. piece = Null
  BY <1>2, NoMark DEF MarkStates, HeadMarks, UrlStates
<1>4. /\ parser'.state = "s_chunk_size" /\ parser'.header_state = parser.header_state
      /\ parser'.flags = parser.flags /\ parser'.content_length = ValueOf(ch)
      /\ parser'.method = parser.method /\ parser'.version = parser.version
  BY <1>1, <1>2, CountedFields DEF ParserFields
<1>5. PICK u : u = [q EXCEPT !.content_length = ValueOf(ch), !.state = "s_chunk_size"]
  OBVIOUS
<1>6. u = Read(q, ch)
  BY <1>1, <1>2, <1>5, ReadBodies
<1>7. /\ u = [x \in ReaderFields |-> u[x]]
      /\ u.state = "s_chunk_size" /\ u.header_state = q.header_state /\ u.flags = parser.flags
      /\ u.content_length = ValueOf(ch) /\ u.method = q.method /\ u.version = q.version
      /\ u.keep_alive = q.keep_alive /\ u.complete = q.complete /\ u.requests = q.requests
  BY <1>1, <1>5, KnownShaped DEF ReaderFields
<1>8. "s_chunk_size" \notin HeadMarks /\ parser.state \notin {"s_start_req", "s_dead"}
  BY <1>2 DEF HeadMarks, UrlStates
<1> QED BY <1>2, <1>3, <1>4, <1>6, <1>7, <1>8, FramingStep

\* What ends a chunk's size is no digit.
LEMMA DigitIs ==
  ASSUME NEW c, IsNum(c)
  PROVE  c \notin {CR, ";", " "}
<1>1. PICK i \in DOMAIN Digits : c = Digits[i]
  BY DEF IsNum, Range
<1>2. DOMAIN Digits = {1, 2, 3, 4, 5, 6, 7, 8, 9, 10}
  BY DEF Digits
<1>3. /\ Digits[1] = "0" /\ Digits[2] = "1" /\ Digits[3] = "2" /\ Digits[4] = "3"
      /\ Digits[5] = "4" /\ Digits[6] = "5" /\ Digits[7] = "6" /\ Digits[8] = "7"
      /\ Digits[9] = "8" /\ Digits[10] = "9"
  BY DEF Digits
<1>4. c \in {"0", "1", "2", "3", "4", "5", "6", "7", "8", "9"}
  BY <1>1, <1>2, <1>3
<1> QED BY <1>4 DEF CR

\* The reader follows ChunkSize.
LEMMA ChunkSizeFollows ==
  ASSUME Settled, ~failed', ChunkSize
  PROVE  Follows
<1> PICK q : q = Known
  OBVIOUS
<1>1. q.state = parser.state /\ TypeOK /\ q.flags = parser.flags
      /\ q.content_length = parser.content_length
  BY KnownIs DEF Settled
<1>2. /\ parser.state = "s_chunk_size" /\ Advance /\ NoCall /\ UNCHANGED piece
  BY DEF ChunkSize, In, Error
<1>3. piece = Null /\ Len(requests) > 0
  BY <1>2, NoMark, BegunIs DEF MarkStates, HeadMarks, UrlStates
<1>4. Read(q, ch) = SizeByte(q, ch)
  BY <1>1, <1>2, ReadBodies
<1>5. CASE ch = CR /\ Goto("s_chunk_size_almost_done")
  <2>1. Read(q, ch) = At(q, "s_chunk_size_almost_done")
    BY <1>4, <1>5 DEF SizeByte
  <2> QED BY <1>2, <1>3, <1>5, <2>1, Goes DEF HeadMarks, UrlStates
<1>6. CASE ch \in {";", " "} /\ Goto("s_chunk_parameters")
  <2>1. Read(q, ch) = At(q, "s_chunk_parameters")
    BY <1>4, <1>6 DEF SizeByte, CR
  <2> QED BY <1>2, <1>3, <1>6, <2>1, Goes DEF HeadMarks, UrlStates
<1>7. CASE /\ IsNum(ch) /\ ~Overflows(parser, 16, ch)
           /\ parser' = [Counted EXCEPT !.content_length = Shifted(parser, 16, ch)]
  <2> DEFINE cl == Shifted(parser, 16, ch)
  <2>1. ch # CR /\ ch \notin {";", " "}
    BY <1>7, DigitIs
  <2>2. (Overflows(q, 16, ch) <=> Overflows(parser, 16, ch)) /\ Shifted(q, 16, ch) = cl
    BY <1>1 DEF Overflows, Shifted
  <2> HIDE DEF cl
  <2>3. Read(q, ch) = [q EXCEPT !.content_length = cl]
    BY <1>4, <1>7, <2>1, <2>2 DEF SizeByte
  <2>4. /\ parser'.state = "s_chunk_size" /\ parser'.header_state = parser.header_state
        /\ parser'.flags = parser.flags /\ parser'.content_length = cl
        /\ parser'.method = parser.method /\ parser'.version = parser.version
    BY <1>1, <1>2, <1>7, CountedFields DEF ParserFields, cl
  <2>5. PICK u : u = Read(q, ch)
    OBVIOUS
  <2>6. /\ u = [x \in ReaderFields |-> u[x]]
        /\ u.state = "s_chunk_size" /\ u.header_state = q.header_state /\ u.flags = parser.flags
        /\ u.content_length = cl /\ u.method = q.method /\ u.version = q.version
        /\ u.keep_alive = q.keep_alive /\ u.complete = q.complete /\ u.requests = q.requests
    BY <1>1, <1>2, <2>3, <2>5, KnownShaped DEF ReaderFields
  <2>7. "s_chunk_size" \notin HeadMarks /\ parser.state \notin {"s_start_req", "s_dead"}
    BY <1>2 DEF HeadMarks, UrlStates
  <2> QED BY <1>2, <1>3, <2>4, <2>5, <2>6, <2>7, FramingStep
<1> QED BY <1>5, <1>6, <1>7 DEF ChunkSize, Error

\* The reader follows ChunkParameters.
LEMMA ChunkParametersFollows ==
  ASSUME Settled, ~failed', ChunkParameters
  PROVE  Follows
<1> PICK q : q = Known
  OBVIOUS
<1> PICK s : s = IF ch = CR THEN "s_chunk_size_almost_done" ELSE "s_chunk_parameters"
  OBVIOUS
<1>1. q.state = parser.state
  BY KnownIs DEF Settled
<1>2. parser.state = "s_chunk_parameters" /\ Goto(s) /\ Advance /\ NoCall /\ UNCHANGED piece
  BY DEF ChunkParameters, In
<1>3. piece = Null /\ Len(requests) > 0
  BY <1>2, NoMark, BegunIs DEF MarkStates, HeadMarks, UrlStates
<1>4. Read(q, ch) = At(q, s)
  BY <1>1, <1>2, ReadBodies
<1> QED BY <1>2, <1>3, <1>4, Goes DEF HeadMarks, UrlStates

\* The reader follows ChunkSizeAlmostDone.
LEMMA ChunkSizeAlmostDoneFollows ==
  ASSUME Settled, ~failed', ChunkSizeAlmostDone
  PROVE  Follows
<1> PICK q : q = Known
  OBVIOUS
<1>1. q.state = parser.state /\ TypeOK /\ q.flags = parser.flags
      /\ q.content_length = parser.content_length
  BY KnownIs DEF Settled
<1> DEFINE s == IF parser.content_length = 0 THEN "s_header_field_start" ELSE "s_chunk_data"
           fl == parser.flags \cup (IF parser.content_length = 0 THEN {"TRAILING"} ELSE {})
<1>2. /\ parser.state = "s_chunk_size_almost_done" /\ ch = LF /\ Advance /\ NoCall
      /\ UNCHANGED piece
      /\ parser' = [parser EXCEPT !.nread = 0, !.flags = fl, !.state = s]
  BY DEF ChunkSizeAlmostDone, In, Error
<1>3. piece = Null
  BY <1>2, NoMark DEF MarkStates, HeadMarks, UrlStates
<1>4. SizeEnd(q) = [q EXCEPT !.flags = fl, !.state = s]
  BY <1>1 DEF SizeEnd
<1>5. s \notin HeadMarks /\ parser.state \notin {"s_start_req", "s_dead"}
  BY <1>2 DEF HeadMarks, UrlStates
<1> HIDE DEF s, fl
<1>6. /\ parser'.state = s /\ parser'.header_state = parser.header_state
      /\ parser'.flags = fl /\ parser'.content_length = parser.content_length
      /\ parser'.method = parser.method /\ parser'.version = parser.version
  BY <1>1, <1>2, ParserRecord DEF ParserShaped, ParserFields
<1>7. PICK u : u = Read(q, ch)
  OBVIOUS
<1>8. u = [q EXCEPT !.flags = fl, !.state = s]
  BY ZenonT(30), <1>1, <1>2, <1>4, <1>7, ReadBodies
<1>9. /\ u = [x \in ReaderFields |-> u[x]]
      /\ u.state = s /\ u.header_state = q.header_state /\ u.flags = fl
      /\ u.content_length = parser.content_length /\ u.method = q.method /\ u.version = q.version
      /\ u.keep_alive = q.keep_alive /\ u.complete = q.complete /\ u.requests = q.requests
  BY <1>1, <1>8, KnownShaped DEF ReaderFields
<1> QED BY <1>2, <1>3, <1>5, <1>6, <1>7, <1>9, FramingStep

\* The reader follows ChunkData.
LEMMA ChunkDataFollows ==
  ASSUME Settled, ~failed', ChunkData
  PROVE  Follows
<1> PICK q : q = Known
  OBVIOUS
<1>1. q.state = parser.state /\ TypeOK /\ q.content_length = parser.content_length
  BY KnownIs DEF Settled
<1> DEFINE left == parser.content_length - 1
           s == IF left = 0 THEN "s_chunk_data_almost_done" ELSE "s_chunk_data"
           t == Reader(parser', keep_alive, complete, Kept(Handed))
           r == [q EXCEPT !.content_length = left, !.state = s]
<1>2. /\ parser.state = "s_chunk_data" /\ Mark /\ Advance /\ NoCall /\ pos < Len(stream.bytes)
      /\ parser' = [parser EXCEPT !.content_length = left,
                      !.state = IF left = 0 THEN "s_chunk_data_almost_done" ELSE parser.state]
  BY DEF ChunkData, In
<1>3. s \in MarkStates /\ s \notin HeadMarks /\ SameMark(s, parser.state)
  BY <1>2 DEF MarkStates, HeadMarks, UrlStates, SameMark
<1>4. ChunkByte(q, ch) = Taken(r, ch)
  BY <1>1, <1>2 DEF ChunkByte
<1>5. parser' = [parser EXCEPT !.content_length = left, !.state = s]
  BY <1>2
<1>6. Read(q, ch) = Taken(r, ch)
  BY <1>1, <1>2, <1>4, ReadBodies
<1> HIDE DEF left, s
<1>7. /\ parser'.state = s /\ parser'.header_state = parser.header_state
      /\ parser'.flags = parser.flags /\ parser'.content_length = left
      /\ parser'.method = parser.method /\ parser'.version = parser.version
  BY <1>1, <1>5, ParserRecord DEF ParserShaped, ParserFields
<1>8. t = r
  <2>1. PICK u : u = r
    OBVIOUS
  <2>2. /\ u = [x \in ReaderFields |-> u[x]]
        /\ u.state = s /\ u.header_state = parser.header_state
        /\ u.flags = parser.flags /\ u.content_length = left
        /\ u.method = parser.method /\ u.version = parser.version
        /\ u.keep_alive = keep_alive /\ u.complete = complete /\ u.requests = Kept(Handed)
    BY <1>1, <2>1, KnownParts DEF ReaderFields
  <2>3. t = u
    BY <1>7, <2>2, ReaderBy
  <2> QED BY <2>1, <2>3
<1> HIDE DEF t, r
<1>9. /\ Read(Known, ch) = Taken(t, ch) /\ parser'.state \in MarkStates
      /\ SameMark(parser'.state, parser.state)
  BY <1>3, <1>6, <1>7, <1>8
<1>10. parser.state \notin {"s_start_req", "s_dead"}
  BY <1>2
<1> QED BY <1>2, <1>9, <1>10, Marks DEF t

\* The reader follows ChunkDataAlmostDone.
LEMMA ChunkDataAlmostDoneFollows ==
  ASSUME Settled, ~failed', ChunkDataAlmostDone
  PROVE  Follows
<1> PICK q : q = Known
  OBVIOUS
<1>1. q.state = parser.state
  BY KnownIs DEF Settled
<1>2. /\ parser.state = "s_chunk_data_almost_done" /\ ch = CR /\ Goto("s_chunk_data_done")
      /\ (IF piece = Null THEN NoCall ELSE Called(body_cb(Current, piece)))
      /\ Unmark /\ Advance
  BY DEF ChunkDataAlmostDone, In, Error
<1>3. Len(requests) > 0
  BY <1>2, BegunIs
<1>4. Read(q, ch) = At(q, "s_chunk_data_done")
  BY <1>1, <1>2, ReadBodies
<1>5. CASE piece = Null
  <2>1. UNCHANGED piece /\ NoCall
    BY <1>2, <1>5 DEF Unmark
  <2> QED BY <1>2, <1>3, <1>4, <1>5, <2>1, Goes DEF HeadMarks, UrlStates
<1>6. CASE piece # Null
  <2>1. Called(Given(parser.state, Current, piece))
    BY <1>2, <1>6, GivenIs DEF HeadMarks, UrlStates
  <2> QED BY <1>2, <1>3, <1>4, <1>6, <2>1, GoesCalled DEF HeadMarks, UrlStates
<1> QED BY <1>5, <1>6

\* The reader follows ChunkDataDone.
LEMMA ChunkDataDoneFollows ==
  ASSUME Settled, ~failed', ChunkDataDone
  PROVE  Follows
<1> PICK q : q = Known
  OBVIOUS
<1>1. q.state = parser.state /\ TypeOK /\ q.content_length = parser.content_length
      /\ q.flags = parser.flags
  BY KnownIs DEF Settled
<1>2. /\ parser.state = "s_chunk_data_done" /\ ch = LF /\ Advance /\ NoCall /\ UNCHANGED piece
      /\ parser' = [parser EXCEPT !.nread = 0, !.state = "s_chunk_size_start"]
  BY DEF ChunkDataDone, In, Error
<1>3. piece = Null
  BY <1>2, NoMark DEF MarkStates, HeadMarks, UrlStates
<1>4. /\ parser'.state = "s_chunk_size_start" /\ parser'.header_state = parser.header_state
      /\ parser'.flags = parser.flags /\ parser'.content_length = parser.content_length
      /\ parser'.method = parser.method /\ parser'.version = parser.version
  BY <1>1, <1>2, ParserRecord DEF ParserShaped, ParserFields
<1>5. PICK u : u = At(q, "s_chunk_size_start")
  OBVIOUS
<1>6. u = Read(q, ch)
  BY <1>1, <1>2, <1>5, ReadBodies
<1>7. /\ u = [x \in ReaderFields |-> u[x]]
      /\ u.state = "s_chunk_size_start" /\ u.header_state = q.header_state
      /\ u.flags = parser.flags /\ u.content_length = parser.content_length
      /\ u.method = q.method /\ u.version = q.version
      /\ u.keep_alive = q.keep_alive /\ u.complete = q.complete /\ u.requests = q.requests
  BY <1>1, <1>5, KnownShaped DEF ReaderFields, At
<1>8. "s_chunk_size_start" \notin HeadMarks /\ parser.state \notin {"s_start_req", "s_dead"}
  BY <1>2 DEF HeadMarks, UrlStates
<1> QED BY <1>2, <1>3, <1>4, <1>6, <1>7, <1>8, FramingStep

\* The last byte of a body: it is handed over and looked at again.
LEMMA LastByte ==
  ASSUME Settled, ~failed', parser.state = "s_body_identity", pos < Len(stream.bytes),
         parser.content_length - 1 = 0,
         parser'.state = "s_message_done", parser'.header_state = parser.header_state,
         parser'.flags = parser.flags, parser'.content_length = 0,
         parser'.method = parser.method, parser'.version = parser.version,
         Called(body_cb(Current, Longer(piece, ch))), Unmark, Reexecute
  PROVE  Follows
<1> PICK q : q = Known
  OBVIOUS
<1> PICK c : c = ch
  OBVIOUS
<1> PICK s : s = "s_message_done"
  OBVIOUS
<1>1. q.state = parser.state /\ TypeOK /\ q.content_length = parser.content_length
  BY KnownIs DEF Settled
<1>2. PieceOK /\ RequestsOK /\ Len(requests) > 0
  BY BegunIs DEF Settled
<1>3. c \in Byte /\ piece \in Seq(Byte) \cup {Null}
  BY <1>2, ChIs DEF Settled, PieceOK
<1>4. s \notin HeadMarks /\ parser.state \notin HeadMarks
  BY DEF HeadMarks, UrlStates
<1> DEFINE g == Given(s, Last(requests), Longer(piece, c))
           h == HandedOf(requests, s, piece)
           k == Kept(h)
           x == Given(s, Last(k), <<c>>)
           r == [q EXCEPT !.content_length = 0, !.state = s]
           rs == Swapped(k, Erased(x))
<1>5. body_cb(Current, Longer(piece, ch)) = g
  BY <1>4, GivenIs DEF Current
<1>6. /\ requests' = Front(requests) \o <<g>> /\ failed' = ~g.ok
      /\ keep_alive' = keep_alive /\ complete' = complete /\ piece' = Null
  BY <1>5 DEF Called, Unmark
<1>7. Longer(piece, c) \in Seq(Byte)
  BY <1>3, LongerIs
<1>8. AllOK(requests) /\ RequestOK(Last(requests))
  BY <1>2, RequestsAre, LastOK
<1>9. Accepted(g) /\ RequestOK(g)
  <2>1. ~Accepted(g) => Refuses(g)
    BY <1>7, <1>8, GivenType
  <2>2. ~Refuses(g)
    BY <1>6 DEF Refuses
  <2> QED BY <1>7, <1>8, <2>1, <2>2, GivenType
<1>10. Handed = h /\ (Marked => Accepted(Leftover))
  <2>1. CASE piece = Null
    BY <2>1 DEF Handed, HandedOf, Marked
  <2>2. CASE piece # Null
    <3>1. /\ Handed = HandedOf(requests, parser.state, piece)
          /\ Leftover = Given(parser.state, Last(requests), piece)
      BY <1>2, HandedIs
    <3>2. SameMark(parser.state, s)
      BY <1>4 DEF SameMark
    <3>3. Given(parser.state, Last(requests), piece) = Given(s, Last(requests), piece)
      BY <3>2, SameGiven
    <3>4. piece \notin {Null, <<>>} => Accepted(Given(s, Last(requests), piece))
      BY <1>2, <1>3, <1>8, <1>9, OneByteMore
    <3> QED BY <3>1, <3>3, <3>4 DEF HandedOf, Marked
  <2> QED BY <2>1, <2>2
<1>11. /\ Accepted(x) /\ RequestOK(x) /\ IsSequence(k) /\ Len(k) > 0
       /\ Kept(Swapped(requests, g)) = rs
  BY <1>2, <1>3, <1>8, <1>9, OneByteMore
<1> HIDE DEF g, h
<1>12. requests' = Swapped(requests, g)
  BY <1>2, <1>6, <1>8, SwapLast DEF AllOK
<1>13. RequestsOK'
  <2>1. AllOK(Swapped(requests, g)) /\ Len(Swapped(requests, g)) = Len(requests)
    BY <1>2, <1>8, <1>9, SwappedOK
  <2>2. AllOK(requests') /\ Len(requests') > 0
    BY <1>2, <1>12, <2>1
  <2> QED BY <2>2 DEF RequestsOK, AllOK, IsSequence
<1>14. parser'.state = s
  OBVIOUS
<1>15. PieceOK'
  BY <1>4, <1>6, <1>14, NullIs DEF PieceOK
<1>16. ~Marked' /\ Handed' = requests'
  BY <1>6 DEF Marked, Handed
<1>17. Known' = Reader(parser', keep_alive, complete, rs)
  BY <1>6, <1>11, <1>12, <1>16 DEF Known
<1> HIDE DEF k
<1>18. q.requests = k /\ r.requests = k /\ r.state = s
  BY <1>1, <1>10, KnownParts DEF ReaderFields, k
<1>19. [r EXCEPT !.requests = rs] = Reader(parser', keep_alive, complete, rs)
  <2> HIDE DEF rs
  <2>1. PICK u : u = [r EXCEPT !.requests = rs]
    OBVIOUS
  <2>2. /\ u = [y \in ReaderFields |-> u[y]]
        /\ u.state = s /\ u.header_state = parser.header_state
        /\ u.flags = parser.flags /\ u.content_length = 0
        /\ u.method = parser.method /\ u.version = parser.version
        /\ u.keep_alive = keep_alive /\ u.complete = complete /\ u.requests = rs
    BY ZenonT(30), <1>1, <2>1, KnownParts DEF ReaderFields
  <2>4. Reader(parser', keep_alive, complete, rs) = u
    BY <2>2, ReaderBy
  <2> QED BY <2>1, <2>4
<1> HIDE DEF r
<1>20. Taken(r, c) = [r EXCEPT !.requests = rs]
  <2>1. x = Given(r.state, Last(k), <<c>>)
    BY <1>18
  <2> HIDE DEF x
  <2>2. Taken(r, c) = [r EXCEPT !.requests = Swapped(k, Erased(x))]
    BY <1>11, <1>18, <2>1, TakenIs
  <2> QED BY <2>2
<1>21. PICK w : w = Known'
  OBVIOUS
<1>22. Taken(r, c) = w /\ w.state = s
  BY <1>14, <1>17, <1>19, <1>20, <1>21 DEF Reader
<1>23. w # Refused
  <2>1. Refused.state = "refused"
    BY DEF Refused
  <2> QED BY <1>22, <2>1
<1>24. IdentityByte(q, c) = Completed(w)
  <2>1. q.content_length - 1 = 0
    BY <1>1
  <2>2. Taken([q EXCEPT !.content_length = q.content_length - 1, !.state = s], c) = w
    BY <1>22, <2>1 DEF r
  <2> QED BY <1>23, <2>1, <2>2 DEF IdentityByte
<1>25. Read(q, c) = Completed(w)
  <2>1. q.state = "s_body_identity"
    BY <1>1
  <2>2. Read(q, c) = IdentityByte(q, c)
    BY <2>1, ReadBodies
  <2> QED BY <1>24, <2>2
<1>26. Read(w, c) = Completed(w)
  <2>1. w.state = "s_message_done"
    BY <1>22
  <2> QED BY <2>1, ReadBodies
<1>27. Read(Known', ch) = Read(Known, ch)
  BY <1>21, <1>25, <1>26
<1> QED BY <1>10, <1>13, <1>15, <1>16, <1>27 DEF Follows

\* The reader follows BodyIdentity.
LEMMA BodyIdentityFollows ==
  ASSUME Settled, ~failed', BodyIdentity
  PROVE  Follows
<1> PICK q : q = Known
  OBVIOUS
<1>1. q.state = parser.state /\ TypeOK /\ q.content_length = parser.content_length
  BY KnownIs DEF Settled
<1> DEFINE left == parser.content_length - 1
           t == Reader(parser', keep_alive, complete, Kept(Handed))
           r == [q EXCEPT !.content_length = left]
<1>2. parser.state = "s_body_identity" /\ pos < Len(stream.bytes)
  BY DEF BodyIdentity, In
<1>3. CASE left > 0 /\ parser' = [parser EXCEPT !.content_length = left] /\ Mark /\ Advance /\ NoCall
  <2>1. left # 0
    BY <1>3
  <2>2. IdentityByte(q, ch) = Taken(r, ch)
    <3>1. q.content_length - 1 = left
      BY <1>1
    <3> HIDE DEF left
    <3>2. [q EXCEPT !.content_length = left, !.state = q.state] = [q EXCEPT !.content_length = left]
      BY KnownShaped DEF ReaderFields
    <3>3. IdentityByte(q, ch) = Taken([q EXCEPT !.content_length = left, !.state = q.state], ch)
      BY <2>1, <3>1 DEF IdentityByte
    <3> QED BY <3>2, <3>3
  <2>3. Read(q, ch) = Taken(r, ch)
    BY <1>1, <1>2, <2>2, ReadBodies
  <2> HIDE DEF left
  <2>4. /\ parser'.state = parser.state /\ parser'.header_state = parser.header_state
        /\ parser'.flags = parser.flags /\ parser'.content_length = left
        /\ parser'.method = parser.method /\ parser'.version = parser.version
    BY <1>1, <1>3, ParserRecord DEF ParserShaped, ParserFields
  <2>5. t = r
    <3>1. PICK u : u = r
      OBVIOUS
    <3>2. /\ u = [x \in ReaderFields |-> u[x]]
          /\ u.state = parser.state /\ u.header_state = parser.header_state
          /\ u.flags = parser.flags /\ u.content_length = left
          /\ u.method = parser.method /\ u.version = parser.version
          /\ u.keep_alive = keep_alive /\ u.complete = complete /\ u.requests = Kept(Handed)
      BY <1>1, <3>1, KnownParts DEF ReaderFields
    <3>3. t = u
      BY <2>4, <3>2, ReaderBy
    <3> QED BY <3>1, <3>3
  <2> HIDE DEF t, r
  <2>6. Read(Known, ch) = Taken(t, ch) /\ parser'.state \in MarkStates
        /\ SameMark(parser'.state, parser.state)
        /\ parser.state \notin {"s_start_req", "s_dead"}
    BY <1>2, <2>3, <2>4, <2>5 DEF MarkStates, HeadMarks, UrlStates, SameMark
  <2> QED BY <1>2, <1>3, <2>6, Marks DEF t
<1>4. CASE /\ left = 0
           /\ parser' = [parser EXCEPT !.content_length = 0, !.state = "s_message_done"]
           /\ Called(body_cb(Current, Longer(piece, ch))) /\ Unmark /\ Reexecute
  <2>1. /\ parser'.state = "s_message_done" /\ parser'.header_state = parser.header_state
        /\ parser'.flags = parser.flags /\ parser'.content_length = 0
        /\ parser'.method = parser.method /\ parser'.version = parser.version
    BY <1>1, <1>4, ParserRecord DEF ParserShaped, ParserFields
  <2> QED BY <1>2, <1>4, <2>1, LastByte
<1> QED BY <1>3, <1>4 DEF BodyIdentity, Longer

\* The parser ends a read or looks at a byte of the stream.
LEMMA LooksAtByte ==
  ASSUME Next, ~EndRead
  PROVE  pos < Len(stream.bytes)
<1>1. CASE HeaderOverflow
  BY <1>1 DEF HeaderOverflow
<1>2. ASSUME NEW s, In(s) PROVE pos < Len(stream.bytes)
  BY <1>2 DEF In
<1>3. CASE Dead \/ StartReq \/ ReqMethod \/ ReqSpacesBeforeUrl \/ ReqSchema
           \/ ReqPath \/ ReqHttpStart \/ ReqHttpMinor \/ ReqLineAlmostDone
  BY <1>2, <1>3 DEF Dead, StartReq, ReqMethod, ReqSpacesBeforeUrl, ReqSchema, ReqPath,
     ReqHttpStart, ReqHttpMinor, ReqLineAlmostDone, UrlByte
<1>4. CASE HeaderFieldStart \/ HeaderField \/ HeaderValueStart \/ HeaderValue
           \/ HeaderAlmostDone \/ HeaderValueLws \/ HeadersAlmostDone \/ HeadersDone
  BY <1>2, <1>4 DEF HeaderFieldStart, HeaderField, HeaderValueStart, HeaderValue,
     HeaderAlmostDone, HeaderValueLws, HeadersAlmostDone, HeadersDone
<1>5. CASE BodyIdentity \/ MessageDone \/ ChunkSizeStart \/ ChunkSize \/ ChunkParameters
           \/ ChunkSizeAlmostDone \/ ChunkData \/ ChunkDataAlmostDone \/ ChunkDataDone
  BY <1>2, <1>5 DEF BodyIdentity, MessageDone, ChunkSizeStart, ChunkSize, ChunkParameters,
     ChunkSizeAlmostDone, ChunkData, ChunkDataAlmostDone, ChunkDataDone
<1> QED BY <1>1, <1>3, <1>4, <1>5 DEF Next

\* A parser that failed does nothing more.
LEMMA OverWhenFailed ==
  ASSUME Next
  PROVE  ~failed
<1>1. ASSUME NEW s, In(s) PROVE ~failed
  BY <1>1 DEF In
<1>2. CASE HeaderOverflow \/ EndRead
  BY <1>2 DEF HeaderOverflow, EndRead
<1>3. CASE Dead \/ StartReq \/ ReqMethod \/ ReqSpacesBeforeUrl \/ ReqSchema
           \/ ReqPath \/ ReqHttpStart \/ ReqHttpMinor \/ ReqLineAlmostDone
  BY <1>1, <1>3 DEF Dead, StartReq, ReqMethod, ReqSpacesBeforeUrl, ReqSchema, ReqPath,
     ReqHttpStart, ReqHttpMinor, ReqLineAlmostDone, UrlByte
<1>4. CASE HeaderFieldStart \/ HeaderField \/ HeaderValueStart \/ HeaderValue
           \/ HeaderAlmostDone \/ HeaderValueLws \/ HeadersAlmostDone \/ HeadersDone
  BY <1>1, <1>4 DEF HeaderFieldStart, HeaderField, HeaderValueStart, HeaderValue,
     HeaderAlmostDone, HeaderValueLws, HeadersAlmostDone, HeadersDone
<1>5. CASE BodyIdentity \/ MessageDone \/ ChunkSizeStart \/ ChunkSize \/ ChunkParameters
           \/ ChunkSizeAlmostDone \/ ChunkData \/ ChunkDataAlmostDone \/ ChunkDataDone
  BY <1>1, <1>5 DEF BodyIdentity, MessageDone, ChunkSizeStart, ChunkSize, ChunkParameters,
     ChunkSizeAlmostDone, ChunkData, ChunkDataAlmostDone, ChunkDataDone
<1> QED BY <1>2, <1>3, <1>4, <1>5 DEF Next

\* Every step of the parser is followed by the reader.
LEMMA StepFollows ==
  ASSUME Settled, ~failed', Next
  PROVE  Follows
<1>1. ~HeaderOverflow
  BY DEF HeaderOverflow, Error
<1>2. CASE Dead \/ StartReq \/ ReqMethod \/ ReqSpacesBeforeUrl \/ ReqSchema
           \/ ReqPath \/ ReqHttpStart \/ ReqHttpMinor \/ ReqLineAlmostDone
  BY <1>2, DeadFollows, StartReqFollows, ReqMethodFollows, ReqMinorFollows, ReqSpacesFollows,
     ReqSchemaFollows, ReqPathFollows, ReqHttpStartFollows
<1>3. CASE HeaderFieldStart \/ HeaderField \/ HeaderValueStart \/ HeaderValue
           \/ HeaderAlmostDone \/ HeaderValueLws \/ HeadersAlmostDone \/ HeadersDone
  BY <1>3, HeaderFieldStartFollows, HeaderFieldFollows, HeaderValueStartFollows,
     HeaderValueFollows, HeaderAlmostDoneFollows, HeaderValueLwsFollows,
     HeadersAlmostDoneFollows, HeadersDoneFollows
<1>4. CASE BodyIdentity \/ MessageDone \/ ChunkSizeStart \/ ChunkSize \/ ChunkParameters
           \/ ChunkSizeAlmostDone \/ ChunkData \/ ChunkDataAlmostDone \/ ChunkDataDone
  BY <1>4, BodyIdentityFollows, MessageDoneFollows, ChunkSizeStartFollows, ChunkSizeFollows,
     ChunkParametersFollows, ChunkSizeAlmostDoneFollows, ChunkDataFollows,
     ChunkDataAlmostDoneFollows, ChunkDataDoneFollows
<1>5. CASE EndRead
  BY <1>5, EndReadFollows
<1> QED BY <1>1, <1>2, <1>3, <1>4, <1>5 DEF Next

-----------------------------------------------------------------------------
(* Steps that fail                                                         *)

\* The parser fails where the reader does, or for one of its own two reasons.
Breaks ==
  \/ Overran' \/ Upgraded'
  \/ Marked /\ ~Accepted(Leftover)
  \/ pos < Len(stream.bytes) /\ Read(Known, ch) = Refused

\* A mark stands for a piece that the reader refuses when its callback fails.
LEMMA CallBreaks ==
  ASSUME Settled, failed', piece # Null, parser.state \in MarkStates,
         Called(Given(parser.state, Current, piece))
  PROVE  Breaks
<1> PICK f : f = Leftover
  OBVIOUS
<1>1. f = Given(parser.state, Current, piece)
  BY DEF Leftover
<1>2. ~f.ok
  BY <1>1 DEF Called
<1>3. ~Accepted(f)
  BY <1>2 DEF Accepted
<1>4. CASE piece = <<>>
  <2>1. f = Current /\ RequestsOK /\ Len(requests) > 0
    BY <1>4, BegunIs DEF Settled, PieceOK, MarkStates, HeadMarks, UrlStates
  <2>2. RequestOK(f)
    BY <2>1, RequestsAre, LastOK DEF Current
  <2>3. Accepted(f)
    BY <2>2, RequestIs DEF Sound, Accepted
  <2> QED BY <1>3, <2>3
<1>5. CASE piece # <<>>
  BY <1>3, <1>5 DEF Breaks, Marked
<1> QED BY <1>4, <1>5

\* The request line breaks where the reader does.
LEMMA RequestLineBreaks ==
  ASSUME Settled, failed',
         \/ Dead \/ StartReq \/ ReqMethod \/ ReqSpacesBeforeUrl \/ ReqSchema
         \/ ReqPath \/ ReqHttpStart \/ ReqHttpMinor \/ ReqLineAlmostDone
  PROVE  Breaks
<1> PICK q : q = Known
  OBVIOUS
<1> PICK c : c = ch
  OBVIOUS
<1>1. q.state = parser.state /\ q.method = parser.method
  BY KnownIs DEF Settled
<1>2. ~NoCall /\ ~MessageBegin
  BY DEF NoCall, MessageBegin, Settled
<1>3. SUFFICES ASSUME ~ (parser.state \in UrlStates /\ Called(request_uri_cb(Current, piece)))
               PROVE  pos < Len(stream.bytes) /\ Read(q, c) = Refused
  <2>1. CASE parser.state \in UrlStates /\ Called(request_uri_cb(Current, piece))
    <3>1. piece # Null /\ parser.state \in MarkStates
      BY <2>1 DEF Settled, PieceOK, MarkStates, HeadMarks
    <3>2. Called(Given(parser.state, Current, piece))
      BY <2>1, GivenIs
    <3> QED BY <3>1, <3>2, CallBreaks
  <2> QED BY <2>1 DEF Breaks
<1>4. CASE Dead
  <2>1. parser.state = "s_dead" /\ c \notin {CR, LF} /\ pos < Len(stream.bytes)
    BY <1>2, <1>4 DEF Dead, In
  <2> QED BY <1>1, <2>1, ReadRequestLine
<1>5. CASE StartReq
  <2>1. /\ parser.state = "s_start_req" /\ c \notin DOMAIN FirstMethod /\ c \notin {CR, LF}
        /\ pos < Len(stream.bytes)
    BY <1>2, <1>5 DEF StartReq, In
  <2> QED BY <1>1, <2>1, ReadRequestLine
<1>6. CASE ReqMethod
  <2>1. /\ parser.state = "s_req_method" /\ NextMethod(parser.method, c) = "none"
        /\ pos < Len(stream.bytes)
    BY <1>2, <1>6 DEF ReqMethod, In
  <2>2. Read(q, c) = MethodByte(q, c)
    BY <1>1, <2>1, ReadMethod
  <2>3. MethodByte(q, c) = Refused
    BY <1>1, <2>1 DEF MethodByte
  <2> QED BY <2>1, <2>2, <2>3
<1>u. ASSUME NEW s, parse_url_char(s, c) = "s_dead", Read(q, c) = UrlRead(q, s, c)
      PROVE  Read(q, c) = Refused
  BY <1>u DEF UrlRead
<1>b. ASSUME NEW s PROVE ~UrlByte(s)
  BY <1>2 DEF UrlByte
<1>7. CASE ReqSpacesBeforeUrl
  <2>1. /\ parser.state = "s_req_spaces_before_url" /\ c # " "
        /\ parse_url_char(UrlBegin(parser.method), c) = "s_dead" /\ pos < Len(stream.bytes)
    BY <1>2, <1>b, <1>7 DEF ReqSpacesBeforeUrl, In
  <2>2. Read(q, c) = UrlRead(q, UrlBegin(parser.method), c)
    <3>0. q.state = "s_req_spaces_before_url" /\ c # " "
      BY <1>1, <2>1
    <3>1. Read(q, c) = UrlRead(q, UrlBegin(q.method), c)
      BY <3>0, ReadBeforeUrl
    <3>2. UrlBegin(q.method) = UrlBegin(parser.method)
      BY <1>1
    <3> QED BY <3>1, <3>2
  <2> QED BY <1>u, <2>1, <2>2
<1>s. CASE ReqSchema
  <2>1. /\ parser.state \in UrlStarts /\ pos < Len(stream.bytes)
        /\ parse_url_char(parser.state, c) = "s_dead"
    BY <1>b, <1>s DEF ReqSchema, In
  <2>2. Read(q, c) = UrlRead(q, parser.state, c)
    BY <1>1, <2>1, ReadUrlStart
  <2> QED BY <1>u, <2>1, <2>2
<1>8. CASE ReqPath
  <2>1. parser.state \in UrlEnds /\ parser.state \in UrlStates /\ pos < Len(stream.bytes)
    BY <1>8 DEF ReqPath, In, UrlEnds
  <2>2. parse_url_char(parser.state, c) = "s_dead" /\ c \notin {" ", CR, LF}
    BY <1>3, <1>b, <1>8, <2>1 DEF ReqPath
  <2>3. Read(q, c) = UrlRead(q, parser.state, c)
    BY <1>1, <2>1, <2>2, ReadUrl
  <2> QED BY <1>u, <2>1, <2>2, <2>3
<1>9. CASE ReqHttpStart
  <2>1. parser.state = "s_req_http_start" /\ c \notin Versions /\ c # " " /\ pos < Len(stream.bytes)
    BY <1>2, <1>9 DEF ReqHttpStart, In
  <2> QED BY <1>1, <2>1, ReadRequestLine
<1>10. CASE ReqHttpMinor
  <2>1. parser.state = "s_req_http_minor" /\ c \notin {CR, LF} /\ pos < Len(stream.bytes)
    BY <1>2, <1>10 DEF ReqHttpMinor, In
  <2> QED BY <1>1, <2>1, ReadRequestLine
<1>11. CASE ReqLineAlmostDone
  <2>1. parser.state = "s_req_line_almost_done" /\ c # LF /\ pos < Len(stream.bytes)
    BY <1>2, <1>11 DEF ReqLineAlmostDone, In
  <2> QED BY <1>1, <2>1, ReadRequestLine
<1> QED BY <1>4, <1>5, <1>6, <1>7, <1>s, <1>8, <1>9, <1>10, <1>11

\* A line without a value breaks where the reader does.
LEMMA EmptyBreaks ==
  ASSUME Settled, failed', parser.state \notin {"s_start_req", "s_dead"}, piece = Null,
         Called(header_value_cb(Current, <<>>)), NEW q, q.requests = Kept(Handed)
  PROVE  EmptyValue(q) = Refused
<1>1. RequestsOK /\ Len(requests) > 0
  BY BegunIs DEF Settled
<1>2. Handed = requests
  BY UnmarkedIs
<1>3. RequestOK(Current) /\ IsSequence(requests)
  BY <1>1, RequestsAre, LastOK DEF Current
<1>4. PICK p \in Seq(Byte) : p = <<>>
  <2>1. <<>> \in Seq(Byte)
    OBVIOUS
  <2> QED BY <2>1
<1>5. PICK s : s = "s_header_value"
  OBVIOUS
<1>6. \A r : Given(s, r, p) = header_value_cb(r, p)
  BY <1>5, GivenIs
<1>7. ~Accepted(Given(s, Current, p))
  BY <1>4, <1>6 DEF Called, Accepted
<1>8. PICK e : e = Erased(Current)
  OBVIOUS
<1>9. RequestOK(e) /\ ~Accepted(Given(s, e, p))
  BY <1>3, <1>7, <1>8, ErasedTwice, GivenErased
<1>10. Refuses(Given(s, e, p))
  BY <1>9, GivenType
<1>11. Last(q.requests) = e
  BY <1>1, <1>2, <1>3, <1>8, KeptIs DEF Current
<1> PICK x : x = header_value_cb(e, <<>>)
  OBVIOUS
<1>12. x.ok = FALSE
  BY <1>4, <1>6, <1>10 DEF Refuses
<1> QED BY <1>11, <1>12 DEF EmptyValue, Hand

\* The headers break where the reader does.
LEMMA HeadersBreak ==
  ASSUME Settled, failed',
         \/ HeaderFieldStart \/ HeaderField \/ HeaderValueStart \/ HeaderValue
         \/ HeaderAlmostDone \/ HeaderValueLws
  PROVE  Breaks
<1> PICK q : q = Known
  OBVIOUS
<1> PICK c : c = ch
  OBVIOUS
<1>1. /\ q.state = parser.state /\ q.header_state = parser.header_state
      /\ q.content_length = parser.content_length /\ q.requests = Kept(Handed)
      /\ q = [x \in ReaderFields |-> q[x]]
  BY KnownParts DEF Settled
<1>2. ~NoCall
  BY DEF NoCall, Settled
<1>3. SUFFICES
        ASSUME ~(parser.state \in HeadMarks /\ Called(Given(parser.state, Current, piece)))
        PROVE  pos < Len(stream.bytes) /\ Read(q, c) = Refused
  <2>1. CASE parser.state \in HeadMarks /\ Called(Given(parser.state, Current, piece))
    <3>1. piece # Null /\ parser.state \in MarkStates
      BY <2>1 DEF Settled, PieceOK, MarkStates
    <3> QED BY <2>1, <3>1, CallBreaks
  <2> QED BY <2>1 DEF Breaks
<1>4. CASE HeaderFieldStart
  <2>1. /\ parser.state = "s_header_field_start" /\ ~Token(c) /\ c \notin {CR, LF}
        /\ pos < Len(stream.bytes)
    BY <1>2, <1>4 DEF HeaderFieldStart, In
  <2>2. Read(q, c) = LineStart(q, c)
    BY <1>1, <2>1, ReadHeaders
  <2> QED BY <2>1, <2>2 DEF LineStart
<1>5. CASE HeaderField
  <2>0. parser.state = "s_header_field"
    BY <1>5 DEF HeaderField, In
  <2>1. ~Called(header_field_cb(Current, piece))
    BY <1>3, <2>0, GivenIs DEF HeadMarks, UrlStates
  <2>2. ~Token(c) /\ c \notin {":", CR, LF} /\ pos < Len(stream.bytes)
    BY <1>2, <1>5, <2>1 DEF HeaderField, In
  <2>3. Read(q, c) = NameByte(q, c)
    BY <1>1, <2>0, ReadHeaders
  <2> QED BY <2>2, <2>3 DEF NameByte
<1>6. CASE HeaderValueStart
  <2>1. parser.state = "s_header_value_start" /\ pos < Len(stream.bytes)
    BY <1>6 DEF HeaderValueStart, In
  <2>2. Read(q, c) = ValueStart(q, c)
    BY <1>1, <2>1, ReadHeaders
  <2>3. CASE Called(header_value_cb(Current, <<>>)) /\ c \in {CR, LF}
    <3>1. piece = Null /\ parser.state \notin {"s_start_req", "s_dead"}
      BY <2>1, NoMark DEF MarkStates, HeadMarks, UrlStates
    <3>2. c = CR \/ (c = LF /\ c # CR)
      BY <2>3 DEF CR, LF
    <3>3. c # " "
      BY <2>3 DEF CR, LF
    <3>4. ASSUME NEW u, u.requests = q.requests PROVE EmptyValue(u) = Refused
      BY <1>1, <2>3, <3>1, <3>4, EmptyBreaks
    <3>5. CASE c = CR
      <4> PICK u : u = [q EXCEPT !.header_state = "h_general", !.state = "s_header_almost_done"]
        OBVIOUS
      <4>1. u.requests = q.requests
        BY <1>1 DEF ReaderFields
      <4>2. ValueStart(q, c) = EmptyValue(u)
        BY <3>3, <3>5 DEF ValueStart
      <4> QED BY <2>1, <2>2, <3>4, <4>1, <4>2
    <3>6. CASE c = LF /\ c # CR
      <4> PICK u : u = At(q, "s_header_field_start")
        OBVIOUS
      <4>1. u.requests = q.requests
        BY <1>1 DEF ReaderFields, At
      <4>2. ValueStart(q, c) = EmptyValue(u)
        BY <3>3, <3>6 DEF ValueStart
      <4> QED BY <2>1, <2>2, <3>4, <4>1, <4>2
    <3> QED BY <3>2, <3>5, <3>6
  <2>4. CASE ~(Called(header_value_cb(Current, <<>>)) /\ c \in {CR, LF})
    <3>1. parser.header_state = "h_content_length" /\ ~IsNum(c) /\ c \notin {" ", CR, LF}
      BY <1>2, <1>6, <2>4 DEF HeaderValueStart
    <3>2. ValueStart(q, c) = Refused
      BY <1>1, <3>1 DEF ValueStart
    <3> QED BY <2>1, <2>2, <3>2
  <2> QED BY <2>3, <2>4
<1>7. CASE HeaderValue
  <2>0. parser.state = "s_header_value" /\ pos < Len(stream.bytes)
    BY <1>7 DEF HeaderValue, In
  <2>1. ~Called(header_value_cb(Current, piece))
    BY <1>3, <2>0, GivenIs DEF HeadMarks, UrlStates
  <2>2. /\ parser.header_state = "h_content_length" /\ c \notin {" ", CR, LF}
        /\ ~(IsNum(c) /\ ~Overflows(parser, 10, c))
    BY <1>2, <1>7, <2>1 DEF HeaderValue
  <2>3. Overflows(q, 10, c) <=> Overflows(parser, 10, c)
    BY <1>1 DEF Overflows, Shifted
  <2>4. ValueByte(q, c) = Refused
    BY <1>1, <2>2, <2>3 DEF ValueByte
  <2>5. Read(q, c) = ValueByte(q, c)
    BY <1>1, <2>0, ReadHeaders
  <2> QED BY <2>0, <2>4, <2>5
<1>8. CASE HeaderAlmostDone
  <2>1. parser.state = "s_header_almost_done" /\ c # LF /\ pos < Len(stream.bytes)
    BY <1>2, <1>8 DEF HeaderAlmostDone, In
  <2> QED BY ZenonT(30), <1>1, <2>1, ReadHeaders
<1>9. CASE HeaderValueLws
  BY <1>2, <1>9 DEF HeaderValueLws
<1> QED BY <1>4, <1>5, <1>6, <1>7, <1>8, <1>9

\* The end of the headers breaks where the reader does.
LEMMA HeadersAlmostDoneBreaks ==
  ASSUME Settled, failed', HeadersAlmostDone
  PROVE  Breaks
<1> PICK q : q = Known
  OBVIOUS
<1>1. /\ q.state = parser.state /\ q.flags = parser.flags
      /\ q.content_length = parser.content_length /\ q.method = parser.method
      /\ q.version = parser.version /\ q.requests = Kept(Handed)
  BY KnownIs DEF Settled
<1>2. parser.state = "s_headers_almost_done" /\ pos < Len(stream.bytes)
  BY DEF HeadersAlmostDone, In
<1>3. Read(q, ch) = IF ch = LF THEN HeadEnd(q) ELSE Refused
  BY <1>1, <1>2, ReadHeaders
<1> SUFFICES ASSUME ch = LF PROVE HeadEnd(q) = Refused
  BY <1>2, <1>3 DEF Breaks
<1> DEFINE x == headers_complete_cb(Current, parser.content_length,
                                    parser.content_length = Unlimited,
                                    parser.version, parser.method.name)
<1>4. ~MessageComplete
  BY DEF MessageComplete, Settled
<1>5. "TRAILING" \notin parser.flags /\ failed' = ~x.ok
  BY <1>4 DEF HeadersAlmostDone, Error
<1>6. piece = Null /\ Len(requests) > 0
  BY <1>2, NoMark, BegunIs DEF MarkStates, HeadMarks, UrlStates
<1>7. RequestOK(Current) /\ IsSequence(requests)
  BY <1>6, RequestsAre, LastOK DEF Current, Settled
<1>8. Last(q.requests) = Erased(Current)
  BY <1>1, <1>6, <1>7, UnmarkedIs, KeptIs DEF Current
<1> PICK u : u = (parser.content_length = Unlimited)
  OBVIOUS
<1> PICK z : z = headers_complete_cb(Erased(Current), parser.content_length, u,
                                     parser.version, parser.method.name)
  OBVIOUS
<1>9. Declines(z)
  <2>1. PICK y : y = headers_complete_cb(Current, parser.content_length, u,
                                         parser.version, parser.method.name)
    OBVIOUS
  <2>2. /\ Accepted(y) \/ Declines(y)
        /\ Declines(y) =>
             Declines(headers_complete_cb(Erased(Current), parser.content_length, u,
                                          parser.version, parser.method.name))
    BY <1>7, <2>1, HeadersCallback
  <2>3. x = y
    BY <2>1
  <2> HIDE DEF x
  <2>4. ~Accepted(y)
    BY <1>5, <2>3 DEF Accepted
  <2> QED BY <2>2, <2>4
<1>10. headers_complete_cb(Last(q.requests), q.content_length, q.content_length = Unlimited,
                           q.version, q.method.name) = z
  BY <1>1, <1>8
<1>11. "TRAILING" \notin q.flags
  BY <1>1, <1>5
<1>12. ASSUME NEW t PROVE Hand(t, z) = Refused
  BY <1>9 DEF Hand, Declines
<1> QED BY <1>10, <1>11, <1>12 DEF HeadEnd

\* What comes in the read that ends an upgrade is an error.
LEMMA HeadersDoneBreaks ==
  ASSUME Settled, failed', HeadersDone
  PROVE  Breaks
<1>1. ~NoCall /\ ~MessageComplete /\ TypeOK
  BY DEF NoCall, MessageComplete, Settled
<1>2. /\ "UPGRADE" \in parser.flags \/ parser.method.name = "CONNECT"
      /\ parser' = [Counted EXCEPT !.nread = 0, !.state = NewMessage(parser)]
      /\ requests' = Front(requests) \o <<DoneOf(Current)>>
      /\ parser.state = "s_headers_done"
  BY <1>1 DEF HeadersDone, In, DoneOf
<1>3. parser'.flags = parser.flags /\ parser'.method = parser.method
  BY <1>1, <1>2, CountedFields DEF ParserFields
<1>4. RequestsOK /\ Len(requests) > 0
  BY <1>2, BegunIs DEF Settled
<1>5. IsSequence(requests) /\ RequestOK(Current)
  BY <1>4, RequestsAre, LastOK DEF Current
<1> PICK d : d = DoneOf(Current)
  OBVIOUS
<1>6. d.done
  BY <1>5, RequestIs DEF DoneOf, Shaped, Fields
<1>7. requests' = Swapped(requests, d)
  BY <1>2, <1>4, <1>5, SwapLast
<1> PICK rs : rs = Swapped(requests, d)
  OBVIOUS
<1>8. Len(rs) > 0 /\ Last(rs) = d
  BY <1>4, <1>5, SwappedIs
<1>9. rs # <<>>
  BY <1>8
<1>10. requests' # <<>> /\ Current'.done
  BY <1>6, <1>7, <1>8, <1>9 DEF Current
<1> QED BY <1>2, <1>3, <1>10 DEF Breaks, Upgraded

\* A body without chunks breaks where the reader does.
LEMMA BodyIdentityBreaks ==
  ASSUME Settled, failed', BodyIdentity
  PROVE  Breaks
<1> PICK q : q = Known
  OBVIOUS
<1> PICK c : c = ch
  OBVIOUS
<1> PICK s : s = "s_message_done"
  OBVIOUS
<1>1. /\ q.state = parser.state /\ q.content_length = parser.content_length
      /\ q.requests = Kept(Handed) /\ q = [x \in ReaderFields |-> q[x]]
  BY KnownParts DEF Settled
<1>2. ~NoCall
  BY DEF NoCall, Settled
<1>3. /\ parser.state = "s_body_identity" /\ pos < Len(stream.bytes)
      /\ parser.content_length - 1 = 0
      /\ Called(body_cb(Current, Longer(piece, c)))
  BY <1>2 DEF BodyIdentity, In, Longer
<1> SUFFICES ASSUME Marked => Accepted(Leftover) PROVE Read(q, c) = Refused
  BY <1>3 DEF Breaks
<1>4. PieceOK /\ RequestsOK /\ Len(requests) > 0
  BY <1>3, BegunIs DEF Settled
<1>5. c \in Byte /\ piece \in Seq(Byte) \cup {Null} /\ AllOK(requests)
  BY <1>3, <1>4, ChIs, RequestsAre DEF Settled, PieceOK
<1>6. s \notin HeadMarks /\ parser.state \notin HeadMarks
  BY <1>3 DEF HeadMarks, UrlStates
<1>7. ~Accepted(Given(s, Last(requests), Longer(piece, c)))
  <2>1. Given(s, Last(requests), Longer(piece, c)) = body_cb(Current, Longer(piece, c))
    BY <1>6, GivenIs DEF Current
  <2>2. PICK y : y = body_cb(Current, Longer(piece, c))
    OBVIOUS
  <2>3. ~y.ok
    BY <1>3, <2>2 DEF Called
  <2> QED BY <2>1, <2>2, <2>3 DEF Accepted
<1> PICK h : h = HandedOf(requests, s, piece)
  OBVIOUS
<1>8. Handed = h /\ (piece \notin {Null, <<>>} => Accepted(Given(s, Last(requests), piece)))
  <2>1. CASE piece = Null
    BY <2>1 DEF Handed, HandedOf, Marked
  <2>2. CASE piece # Null
    <3>1. /\ Handed = HandedOf(requests, parser.state, piece)
          /\ Leftover = Given(parser.state, Last(requests), piece)
      BY <1>4, HandedIs
    <3>2. SameMark(parser.state, s)
      BY <1>6 DEF SameMark
    <3>3. Given(parser.state, Last(requests), piece) = Given(s, Last(requests), piece)
      BY <3>2, SameGiven
    <3> QED BY <3>1, <3>3 DEF HandedOf, Marked
  <2> QED BY <2>1, <2>2
<1> PICK k : k = Kept(h)
  OBVIOUS
<1>9. Declines(Given(s, Last(k), <<c>>))
  BY <1>4, <1>5, <1>7, <1>8, OneByteTooMuch
<1> PICK r : r = [q EXCEPT !.content_length = 0, !.state = s]
  OBVIOUS
<1>10. r.requests = k /\ r.state = s
  BY <1>1, <1>8 DEF ReaderFields
<1>11. Taken(r, c) = Refused
  BY <1>9, <1>10, TakenRefused
<1>12. IdentityByte(q, c) = Refused
  <2>1. q.content_length - 1 = 0
    BY <1>1, <1>3
  <2>2. Taken([q EXCEPT !.content_length = q.content_length - 1, !.state = s], c) = Refused
    BY <1>11, <2>1
  <2> QED BY <2>1, <2>2 DEF IdentityByte
<1> QED BY <1>1, <1>3, <1>12, ReadBodies

\* Chunks break where the reader does.
LEMMA ChunksBreak ==
  ASSUME Settled, failed',
         \/ MessageDone \/ ChunkSizeStart \/ ChunkSize \/ ChunkParameters
         \/ ChunkSizeAlmostDone \/ ChunkData \/ ChunkDataAlmostDone \/ ChunkDataDone
  PROVE  Breaks
<1> PICK q : q = Known
  OBVIOUS
<1> PICK c : c = ch
  OBVIOUS
<1>1. q.state = parser.state /\ q.content_length = parser.content_length
  BY KnownIs DEF Settled
<1>2. ~NoCall /\ ~MessageComplete
  BY DEF NoCall, MessageComplete, Settled
<1>3. ~(MessageDone \/ ChunkParameters \/ ChunkData)
  BY <1>2 DEF MessageDone, ChunkParameters, ChunkData
<1>4. SUFFICES ASSUME ~Called(body_cb(Current, piece))
                      \/ ~(parser.state = "s_chunk_data_almost_done" /\ piece # Null)
               PROVE  pos < Len(stream.bytes) /\ Read(q, c) = Refused
  <2>1. CASE /\ Called(body_cb(Current, piece))
             /\ parser.state = "s_chunk_data_almost_done" /\ piece # Null
    <3>1. Called(Given(parser.state, Current, piece)) /\ parser.state \in MarkStates
      BY <2>1, GivenIs DEF HeadMarks, UrlStates, MarkStates
    <3> QED BY <2>1, <3>1, CallBreaks
  <2> QED BY <2>1 DEF Breaks
<1>5. CASE ChunkSizeStart
  <2>1. parser.state = "s_chunk_size_start" /\ ~IsNum(c) /\ pos < Len(stream.bytes)
    BY <1>2, <1>5 DEF ChunkSizeStart, In
  <2> QED BY <1>1, <2>1, ReadBodies
<1>6. CASE ChunkSize
  <2>1. /\ parser.state = "s_chunk_size" /\ pos < Len(stream.bytes) /\ c \notin {CR, ";", " "}
        /\ ~(IsNum(c) /\ ~Overflows(parser, 16, c))
    BY <1>2, <1>6, DigitIs DEF ChunkSize, In
  <2>2. Overflows(q, 16, c) <=> Overflows(parser, 16, c)
    BY <1>1 DEF Overflows, Shifted
  <2>3. SizeByte(q, c) = Refused
    BY <2>1, <2>2 DEF SizeByte
  <2> QED BY <1>1, <2>1, <2>3, ReadBodies
<1>7. CASE ChunkSizeAlmostDone
  <2>1. parser.state = "s_chunk_size_almost_done" /\ c # LF /\ pos < Len(stream.bytes)
    BY <1>2, <1>7 DEF ChunkSizeAlmostDone, In
  <2> QED BY <1>1, <2>1, ReadBodies
<1>8. CASE ChunkDataAlmostDone
  <2>1. parser.state = "s_chunk_data_almost_done" /\ c # CR /\ pos < Len(stream.bytes)
    BY <1>2, <1>4, <1>8 DEF ChunkDataAlmostDone, In
  <2> QED BY <1>1, <2>1, ReadBodies
<1>9. CASE ChunkDataDone
  <2>1. parser.state = "s_chunk_data_done" /\ c # LF /\ pos < Len(stream.bytes)
    BY <1>2, <1>9 DEF ChunkDataDone, In
  <2> QED BY <1>1, <2>1, ReadBodies
<1> QED BY <1>3, <1>5, <1>6, <1>7, <1>8, <1>9

\* Each step that fails does so where the reader does, or for the two reasons.
LEMMA StepBreaks ==
  ASSUME Settled, failed', Next
  PROVE  Breaks
<1>1. CASE HeaderOverflow
  <2>1. Counted' = Counted /\ Counted.nread > MaxHeader
    BY <1>1 DEF HeaderOverflow, Error, Counted
  <2> QED BY <2>1 DEF Breaks, Overran
<1>2. CASE Dead \/ StartReq \/ ReqMethod \/ ReqSpacesBeforeUrl \/ ReqSchema
           \/ ReqPath \/ ReqHttpStart \/ ReqHttpMinor \/ ReqLineAlmostDone
  BY <1>2, RequestLineBreaks
<1>3. CASE HeaderFieldStart \/ HeaderField \/ HeaderValueStart \/ HeaderValue
           \/ HeaderAlmostDone \/ HeaderValueLws \/ HeadersAlmostDone \/ HeadersDone
  BY <1>3, HeadersBreak, HeadersAlmostDoneBreaks, HeadersDoneBreaks
<1>4. CASE BodyIdentity \/ MessageDone \/ ChunkSizeStart \/ ChunkSize \/ ChunkParameters
           \/ ChunkSizeAlmostDone \/ ChunkData \/ ChunkDataAlmostDone \/ ChunkDataDone
  BY <1>4, BodyIdentityBreaks, ChunksBreak
<1>5. CASE EndRead
  <2>1. piece \notin {Null, <<>>}
    BY <1>5 DEF EndRead
  <2> PICK f : f = Leftover
    OBVIOUS
  <2>2. f.bad_request_code > 0
    BY <1>5 DEF EndRead
  <2>3. piece \in Seq(Byte) /\ parser.state \in MarkStates /\ RequestsOK /\ Len(requests) > 0
    BY <2>1, BegunIs DEF Settled, PieceOK, MarkStates, HeadMarks, UrlStates
  <2>4. RequestOK(Last(requests)) /\ f = Given(parser.state, Last(requests), piece)
    BY <2>3, RequestsAre, LastOK DEF Leftover, Current
  <2>5. Accepted(f) => RequestOK(f)
    BY <2>3, <2>4, GivenType
  <2>6. RequestOK(f) => f.bad_request_code = 0
    BY RequestIs DEF Sound
  <2>7. ~Accepted(f)
    <3> SUFFICES ASSUME Accepted(f) PROVE FALSE
      OBVIOUS
    <3> QED BY <2>2, <2>5, <2>6
  <2> QED BY <2>1, <2>7 DEF Breaks, Marked
<1> QED BY <1>1, <1>2, <1>3, <1>4, <1>5 DEF Next

-----------------------------------------------------------------------------
(* The reader goes byte by byte.                                           *)

\* Induction over a set of numbers
LEMMA FromZeroUp ==
  ASSUME NEW T, 0 \in T, \A n \in Nat : n \in T => n + 1 \in T
  PROVE  \A n \in Nat : n \in T
<1> SUFFICES ASSUME Nat \ T # {} PROVE FALSE
  OBVIOUS
<1>1. PICK n \in Nat \ T : \A m \in Nat \ T : ~(<<m, n>> \in OpToRel(<, Nat))
  BY NatLessThanWellFounded, WFMin
<1>2. n # 0 /\ n - 1 \in Nat
  OBVIOUS
<1>3. <<n - 1, n>> \in OpToRel(<, Nat)
  BY <1>2 DEF OpToRel
<1>4. n - 1 \in T
  BY <1>1, <1>2, <1>3
<1> QED
  BY <1>2, <1>4

\* d stands for what the reader makes of the first n bytes.
IsReading(d, bytes, n) ==
  d = [p \in 0 .. n |-> IF p = 0 THEN Fresh ELSE Read(d[p - 1], bytes[p])]

\* There is one for every stream.
LEMMA ReadingExists ==
  ASSUME NEW bytes, NEW n \in Nat
  PROVE  \E d : IsReading(d, bytes, n)
<1> DEFINE T == {m \in Nat : \E d : IsReading(d, bytes, m)}
<1>1. 0 \in T
  <2> DEFINE g == [p \in 0 .. 0 |-> Fresh]
  <2>1. IsReading(g, bytes, 0)
    BY DEF IsReading
  <2> QED
    BY <2>1
<1>2. ASSUME NEW m \in Nat, m \in T PROVE m + 1 \in T
  <2>1. PICK d : IsReading(d, bytes, m)
    BY <1>2
  <2> DEFINE e == Read(d[m], bytes[m + 1])
             g == [p \in 0 .. m + 1 |-> IF p = m + 1 THEN e ELSE d[p]]
  <2>2. ASSUME NEW p \in 0 .. m + 1
        PROVE  g[p] = IF p = 0 THEN Fresh ELSE Read(g[p - 1], bytes[p])
    <3>1. CASE p = m + 1
      <4>1. g[p - 1] = d[m] /\ g[p] = e /\ p # 0
        BY <3>1
      <4> QED
        BY <3>1, <4>1
    <3>2. CASE p # m + 1
      <4>1. p \in 0 .. m /\ g[p] = d[p]
        BY <3>2
      <4>2. d[p] = IF p = 0 THEN Fresh ELSE Read(d[p - 1], bytes[p])
        BY <2>1, <4>1 DEF IsReading
      <4>3. p # 0 => g[p - 1] = d[p - 1]
        BY <4>1
      <4> QED
        BY <4>1, <4>2, <4>3
    <3> QED
      BY <3>1, <3>2
  <2>3. g = [p \in 0 .. m + 1 |-> g[p]]
    OBVIOUS
  <2> HIDE DEF g, e
  <2>4. g = [p \in 0 .. m + 1 |-> IF p = 0 THEN Fresh ELSE Read(g[p - 1], bytes[p])]
    BY <2>2, <2>3
  <2>5. IsReading(g, bytes, m + 1)
    BY <2>4 DEF IsReading
  <2> QED
    BY <2>5
<1> HIDE DEF T
<1>3. n \in T
  BY <1>1, <1>2, FromZeroUp
<1> QED
  BY <1>3 DEF T

\* Reading is what it says it is.
LEMMA ReadingIs ==
  ASSUME stream.bytes \in Seq(Byte)
  PROVE  /\ Reading[0] = Fresh
         /\ \A p \in 1 .. Len(stream.bytes) :
              Reading[p] = Read(Reading[p - 1], stream.bytes[p])
         /\ DOMAIN Reading = 0 .. Len(stream.bytes)
<1> DEFINE b == stream.bytes
<1>1. Len(b) \in Nat
  OBVIOUS
<1>2. \E d : IsReading(d, b, Len(b))
  BY <1>1, ReadingExists
<1>3. IsReading(CHOOSE d : IsReading(d, b, Len(b)), b, Len(b))
  BY <1>2
<1>4. Reading = CHOOSE d : IsReading(d, b, Len(b))
  BY DEF Reading, IsReading
<1>5. IsReading(Reading, b, Len(b))
  BY <1>3, <1>4
<1>6. \A p \in 0 .. Len(b) :
        Reading[p] = IF p = 0 THEN Fresh ELSE Read(Reading[p - 1], b[p])
  BY <1>5 DEF IsReading
<1>7. DOMAIN Reading = 0 .. Len(b)
  BY <1>5 DEF IsReading
<1> QED
  BY <1>1, <1>6, <1>7

-----------------------------------------------------------------------------
(* The invariant                                                           *)

\* What a callback accepts, and it alone, is known of a mark.
LEMMA GivenAccepted ==
  ASSUME NEW s, NEW r, RequestOK(r), NEW p \in Seq(Byte), Given(s, r, p).ok
  PROVE  Accepted(Given(s, r, p))
<1>1. Accepted(Given(s, r, p)) \/ Refuses(Given(s, r, p))
  BY GivenType
<1> QED BY <1>1 DEF Refuses

\* What is accepted succeeded.
LEMMA AcceptedGiven ==
  ASSUME NEW r, Accepted(r)
  PROVE  r.ok
  BY DEF Accepted

\* What the parser has read, at the byte it is at, when the callbacks accept
Agrees(known, reading) ==
  IF again THEN Read(known, ch) = reading[pos + 1] ELSE known = reading[pos]
\* What it has read, or that the callback of the mark will fail
Agree ==
  IF Marked /\ ~Accepted(Leftover) THEN Reading[pos] = Refused ELSE Agrees(Known, Reading)

\* The next byte
LEMMA ReadOn ==
  ASSUME Settled, pos < Len(stream.bytes)
  PROVE  Reading[pos + 1] = Read(Reading[pos], ch) /\ pos + 1 \in DOMAIN Reading
<1>1. pos + 1 \in 1 .. Len(stream.bytes) /\ (pos + 1) - 1 = pos /\ stream.bytes \in Seq(Byte)
  BY DEF Settled
<1>2. Reading[pos + 1] = Read(Reading[(pos + 1) - 1], stream.bytes[pos + 1])
  BY <1>1, ReadingIs
<1>3. Reading[pos + 1] = Read(Reading[pos], ch)
  BY <1>1, <1>2 DEF ch
<1>4. DOMAIN Reading = 0 .. Len(stream.bytes)
  BY <1>1, ReadingIs
<1>5. pos + 1 \in DOMAIN Reading
  BY <1>1, <1>4
<1> QED BY <1>3, <1>5

\* The reader's step over the byte that the parser is at
LEMMA ReadAtByte ==
  ASSUME Settled, pos < Len(stream.bytes), NEW k, Agrees(k, Reading)
  PROVE  Read(k, ch) = Reading[pos + 1]
  BY ReadOn DEF Agrees

\* What is refused stays so.
LEMMA RefusedOn ==
  ASSUME Settled, pos < Len(stream.bytes), Reading[pos] = Refused
  PROVE  Reading[pos + 1] = Refused
<1>1. Refused.state = "refused"
  BY DEF Refused
<1>2. Read(Refused, ch) = Refused
  BY <1>1, ReadBodies
<1> QED BY <1>2, ReadOn

\* Every step goes on to the next byte, looks at this one again or stays.
Moves == Advance \/ Reexecute \/ UNCHANGED <<stream, pos, again>>
\* Each action ends in one of the three.
LEMMA StepMoves ==
  ASSUME Next
  PROVE  Moves
<1>1. Error => Moves
  BY DEF Error, Moves
<1>2. CASE HeaderOverflow \/ EndRead
  BY <1>1, <1>2 DEF HeaderOverflow, EndRead, Moves
<1>3. CASE Dead \/ StartReq \/ ReqMethod \/ ReqSpacesBeforeUrl \/ ReqSchema
           \/ ReqPath \/ ReqHttpStart \/ ReqHttpMinor \/ ReqLineAlmostDone
  BY <1>1, <1>3 DEF Dead, StartReq, ReqMethod, ReqSpacesBeforeUrl, ReqSchema, ReqPath,
     ReqHttpStart, ReqHttpMinor, ReqLineAlmostDone, UrlByte, Moves
<1>4. CASE HeaderFieldStart \/ HeaderField \/ HeaderValueStart \/ HeaderValue
  BY <1>1, <1>4 DEF HeaderFieldStart, HeaderField, HeaderValueStart, HeaderValue, Moves
<1>5. CASE HeaderAlmostDone \/ HeaderValueLws \/ HeadersAlmostDone \/ HeadersDone
  BY <1>1, <1>5 DEF HeaderAlmostDone, HeaderValueLws, HeadersAlmostDone, HeadersDone, Moves
<1>6. CASE BodyIdentity \/ MessageDone \/ ChunkSizeStart \/ ChunkSize \/ ChunkParameters
           \/ ChunkSizeAlmostDone \/ ChunkData \/ ChunkDataAlmostDone \/ ChunkDataDone
  BY <1>1, <1>6 DEF BodyIdentity, MessageDone, ChunkSizeStart, ChunkSize, ChunkParameters,
     ChunkSizeAlmostDone, ChunkData, ChunkDataAlmostDone, ChunkDataDone, Moves
<1> QED BY <1>2, <1>3, <1>4, <1>5, <1>6 DEF Next

\* The parser stays inside of the stream.
LEMMA StaysInStream ==
  ASSUME Settled, ~failed', Next
  PROVE  stream'.bytes \in Seq(Byte) /\ pos' \in 0 .. Len(stream'.bytes)
<1>1. stream.bytes \in Seq(Byte) /\ pos \in 0 .. Len(stream.bytes)
  BY DEF Settled
<1>2. EndRead => UNCHANGED <<stream, pos>>
  BY DEF EndRead
<1>3. UNCHANGED stream /\ pos' \in {pos, pos + 1}
  BY StepMoves DEF Moves, Advance, Reexecute
<1>4. EndRead \/ pos < Len(stream.bytes)
  BY LooksAtByte
<1> QED BY <1>1, <1>2, <1>3, <1>4

\* What is known after a step agrees with the reader.
LEMMA StepAgrees ==
  ASSUME Settled, ~failed', Next, (Marked => Accepted(Leftover)) => Agrees(Known, Reading),
         Marked' => Accepted(Leftover')
  PROVE  Agrees(Known, Reading)'
<1>1. /\ Marked => Accepted(Leftover)
      /\ \/ Advance /\ Known' = Read(Known, ch)
         \/ Reexecute /\ Read(Known', ch) = Read(Known, ch)
         \/ UNCHANGED <<stream, pos, again>> /\ Known' = Known
  BY StepFollows DEF Follows
<1>2. Agrees(Known, Reading)
  BY <1>1
<1> PICK k : k = Known
  OBVIOUS
<1> PICK l : l = Known'
  OBVIOUS
<1> PICK rd : rd = Reading
  OBVIOUS
<1>3. UNCHANGED stream
  BY StepMoves DEF Moves, Advance, Reexecute
<1>4. Reading' = rd
  BY <1>3 DEF Reading
<1>5. CASE Advance /\ Known' = Read(Known, ch)
  <2>1. ~EndRead /\ pos' = pos + 1 /\ again' = FALSE
    BY <1>5 DEF EndRead, Advance, Settled
  <2>2. Read(k, ch) = rd[pos + 1]
    BY <1>2, <2>1, LooksAtByte, ReadAtByte
  <2> QED BY <1>4, <1>5, <2>1, <2>2 DEF Agrees
<1>6. CASE Reexecute /\ Read(Known', ch) = Read(Known, ch)
  <2>1. ~EndRead /\ pos' = pos /\ again' = TRUE /\ ch' = ch
    BY <1>6 DEF EndRead, Reexecute, ch
  <2>2. Read(k, ch) = rd[pos + 1]
    BY <1>2, <2>1, LooksAtByte, ReadAtByte
  <2> QED BY <1>4, <1>6, <2>1, <2>2 DEF Agrees
<1>7. CASE UNCHANGED <<stream, pos, again>> /\ Known' = Known
  <2>1. pos' = pos /\ again' = again /\ ch' = ch
    BY <1>7 DEF ch
  <2> QED BY <1>2, <1>4, <1>7, <2>1 DEF Agrees
<1> QED BY <1>1, <1>5, <1>6, <1>7

\* A step of a parser that does not fail keeps it in agreement with the reader.
LEMMA StepAgree ==
  ASSUME Settled, ~failed', Next, Agree
  PROVE  Agree'
<1>1. (Marked => Accepted(Leftover)) => Agrees(Known, Reading)
  BY DEF Agree
<1> PICK rd : rd = Reading
  OBVIOUS
<1>2. CASE Marked' /\ ~Accepted(Leftover')
  <2>1. Advance /\ ((Marked => Accepted(Leftover)) => Read(Known, ch) = Refused)
    BY <1>2, StepFollows DEF Follows
  <2>2. ~EndRead /\ pos' = pos + 1 /\ UNCHANGED stream
    BY <2>1 DEF EndRead, Advance, Settled
  <2>3. pos < Len(stream.bytes)
    BY <2>2, LooksAtByte
  <2>4. Reading' = rd
    BY <2>2 DEF Reading
  <2>5. rd[pos + 1] = Refused
    <3>1. CASE Marked => Accepted(Leftover)
      <4>1. Read(Known, ch) = Reading[pos + 1]
        BY <1>1, <2>3, <3>1, ReadAtByte
      <4> QED BY <2>1, <3>1, <4>1
    <3>2. CASE Marked /\ ~Accepted(Leftover)
      <4>1. Reading[pos] = Refused
        BY <3>2 DEF Agree
      <4> QED BY <2>3, <4>1, RefusedOn
    <3> QED BY <3>1, <3>2
  <2> QED BY <1>2, <2>2, <2>4, <2>5 DEF Agree
<1>3. CASE Marked' => Accepted(Leftover')
  <2>1. Agrees(Known, Reading)'
    BY <1>1, <1>3, StepAgrees
  <2> QED BY <1>3, <2>1 DEF Agree
<1> QED BY <1>2, <1>3

\* A parser that fails does so where the reader refuses, or for the two reasons.
LEMMA StepFails ==
  ASSUME Settled, failed', Next, Agree
  PROVE  CutsDoNotMatter'
<1> SUFFICES ASSUME ~Overran', ~Upgraded'
             PROVE  \E p \in {pos', pos' + 1} \cap DOMAIN Reading' : Reading'[p] = Refused
  BY DEF CutsDoNotMatter
<1>1. Breaks
  BY StepBreaks
<1>2. UNCHANGED stream /\ pos' \in {pos, pos + 1}
  BY StepMoves DEF Moves, Advance, Reexecute
<1>3. EndRead => pos' = pos
  BY DEF EndRead
<1>4. EndRead \/ pos < Len(stream.bytes)
  BY LooksAtByte
<1> PICK rd : rd = Reading
  OBVIOUS
<1>5. Reading' = rd
  BY <1>2 DEF Reading
<1> SUFFICES \E p \in {pos', pos' + 1} \cap DOMAIN rd : rd[p] = Refused
  BY <1>5
<1>6. pos \in Nat /\ pos \in DOMAIN rd
  <2>1. DOMAIN rd = 0 .. Len(stream.bytes) /\ Len(stream.bytes) \in Nat
    BY ReadingIs DEF Settled
  <2> QED BY <2>1 DEF Settled
<1>7. CASE Marked /\ ~Accepted(Leftover)
  <2>1. rd[pos] = Refused
    BY <1>7 DEF Agree
  <2>2. CASE pos' = pos
    BY <1>6, <2>1, <2>2
  <2>3. CASE pos' = pos + 1
    <3>1. pos < Len(stream.bytes)
      BY <1>3, <1>4, <1>6, <2>3
    <3>2. rd[pos + 1] = Refused /\ pos + 1 \in DOMAIN rd
      BY <2>1, <3>1, RefusedOn, ReadOn
    <3> QED BY <2>3, <3>2
  <2> QED BY <1>2, <2>2, <2>3
<1>8. CASE ~(Marked /\ ~Accepted(Leftover))
  <2>1. pos < Len(stream.bytes) /\ Read(Known, ch) = Refused /\ Agrees(Known, Reading)
    BY <1>1, <1>8 DEF Breaks, Agree
  <2>2. rd[pos + 1] = Refused /\ pos + 1 \in DOMAIN rd
    BY <2>1, ReadAtByte, ReadOn
  <2>3. pos + 1 \in {pos', pos' + 1}
    BY <1>2
  <2> QED BY <2>2, <2>3
<1> QED BY <1>7, <1>8

\* CutsDoNotMatter in the words of the lemmas
LEMMA CutsAre ==
  ASSUME PieceOK, RequestsOK, ~failed
  PROVE  CutsDoNotMatter <=> Agree
<1>1. CASE ~Marked
  BY <1>1 DEF CutsDoNotMatter, Agrees, Agree
<1>2. CASE Marked
  <2>1. piece \in Seq(Byte) /\ parser.state \in MarkStates
    BY <1>2 DEF Marked, PieceOK
  <2>2. Len(requests) > 0
    BY <2>1 DEF RequestsOK, MarkStates, HeadMarks, UrlStates
  <2>3. RequestOK(Last(requests))
    BY <2>2, RequestsAre, LastOK
  <2> PICK s : s = parser.state
    OBVIOUS
  <2> PICK f : f = Leftover
    OBVIOUS
  <2>4. f = Given(s, Last(requests), piece)
    BY DEF Leftover, Current
  <2>5. f.ok <=> Accepted(f)
    BY <2>1, <2>3, <2>4, GivenAccepted, AcceptedGiven
  <2> QED BY <1>2, <2>5 DEF CutsDoNotMatter, Agrees, Agree
<1> QED BY <1>1, <1>2

\* The parser starts as the reader does.
LEMMA StartsReading ==
  ASSUME Init
  PROVE  ReadingInv
<1>1. /\ stream \in Streams /\ pos = 0 /\ again = FALSE /\ piece = Null /\ requests = <<>>
      /\ keep_alive = FALSE /\ complete = FALSE /\ parser.state = "s_start_req"
  BY DEF Init
<1>2. stream.bytes \in Seq(Byte) /\ pos \in 0 .. Len(stream.bytes)
  BY <1>1, StreamsAssumption
<1>3. PieceOK
  BY <1>1, NullIs DEF PieceOK, HeadMarks, UrlStates
<1>4. RequestsOK
  BY <1>1 DEF RequestsOK
<1>5. ~Marked /\ Handed = <<>>
  BY <1>1 DEF Marked, Handed
<1>6. Kept(Handed) = <<>>
  BY <1>5 DEF Kept
<1>7. Known = Fresh
  BY <1>1, <1>6 DEF Known, Reader, Fresh, Init
<1>8. Reading[0] = Fresh
  BY <1>2, ReadingIs
<1>9. Agree
  BY <1>1, <1>5, <1>7, <1>8 DEF Agree, Agrees
<1>10. ~failed
  BY DEF Init
<1> QED BY <1>2, <1>3, <1>4, <1>9, <1>10, CutsAre DEF ReadingInv

\* A step keeps the invariant.
LEMMA StepReading ==
  ASSUME Settled, CutsDoNotMatter, Next
  PROVE  ReadingInv'
<1>1. Agree
  BY CutsAre DEF Settled
<1>2. CASE failed'
  BY <1>1, <1>2, StepFails DEF ReadingInv
<1>3. CASE ~failed'
  <2>1. PieceOK' /\ RequestsOK'
    BY <1>3, StepFollows DEF Follows
  <2>2. stream'.bytes \in Seq(Byte) /\ pos' \in 0 .. Len(stream'.bytes)
    BY <1>3, StaysInStream
  <2>3. Agree'
    BY <1>1, <1>3, StepAgree
  <2>4. CutsDoNotMatter'
    <3>1. CASE ~Marked'
      BY <1>3, <2>3, <3>1 DEF CutsDoNotMatter, Agrees, Agree
    <3>2. CASE Marked'
      <4>1. piece' \in Seq(Byte) /\ parser'.state \in MarkStates
        BY <2>1, <3>2 DEF Marked, PieceOK
      <4> PICK rs : rs = requests'
        OBVIOUS
      <4>2. AllOK(rs) /\ Len(rs) > 0
        BY <2>1, <4>1 DEF RequestsOK, AllOK, IsSequence, MarkStates, HeadMarks, UrlStates
      <4>3. RequestOK(Last(rs))
        BY <4>2, LastOK
      <4> PICK s : s = parser'.state
        OBVIOUS
      <4> PICK f : f = Leftover'
        OBVIOUS
      <4>4. f = Given(s, Last(rs), piece')
        BY DEF Leftover, Current
      <4>5. f.ok <=> Accepted(f)
        BY <4>1, <4>3, <4>4, GivenAccepted, AcceptedGiven
      <4> QED BY <1>3, <2>3, <3>2, <4>5 DEF CutsDoNotMatter, Agrees, Agree
    <3> QED BY <3>1, <3>2
  <2> QED BY <2>1, <2>2, <2>4 DEF ReadingInv
<1> QED BY <1>2, <1>3

\* ReadingInv is an invariant: while the parser has not failed whatever is marked is a
\* piece of the stream that no call has been given and the requests are sound ones, and
\* what the parser has read is what the bytes so far are read as one at a time.
THEOREM ReadingInvariance == Spec => []ReadingInv
<1>1. Init => ReadingInv
  BY StartsReading
<1>2. ParserInv /\ ReadingInv /\ [Next]_vars => ReadingInv'
  <2> SUFFICES ASSUME ParserInv, ReadingInv, [Next]_vars PROVE ReadingInv'
    OBVIOUS
  <2>1. CASE Next /\ ~failed
    <3>1. Settled /\ CutsDoNotMatter
      BY <2>1 DEF Settled, ReadingInv, ParserInv
    <3> QED BY <2>1, <3>1, StepReading
  <2>2. CASE Next /\ failed
    BY <2>2, OverWhenFailed
  <2>3. CASE UNCHANGED vars
    <3>1. ReadingInv' = ReadingInv
      BY <2>3 DEF vars, ReadingInv, PieceOK, RequestsOK, CutsDoNotMatter, Marked, Leftover,
                  Current, Known, Handed, ch, Reading, Overran, Upgraded, Counted
    <3> QED BY <3>1
  <2> QED BY <2>1, <2>2, <2>3
<1> QED BY <1>1, <1>2, ParserInvariance, PTL DEF Spec

\* Wherever the reads of a connection cut a stream, for every stream and all limits,
\* http_parser_execute and the callbacks make of the bytes what they make of them one
\* at a time: the state, the flags, the length that is left and every request, with its
\* environ, its body and the bytes of its URL. No mark is lost at the end of a read,
\* none is given twice. It fails at the byte at which that is refused, or when the piece
\* is over that this byte is in; the only other reasons are a header that is too long
\* and bytes behind an upgrade in the same read.
THEOREM CutsMatterNot == Spec => []CutsDoNotMatter
<1>1. ReadingInv => CutsDoNotMatter
  BY DEF ReadingInv, CutsDoNotMatter
<1> QED BY <1>1, ReadingInvariance, PTL
=============================================================================
