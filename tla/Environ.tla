------------------------------ MODULE Environ ------------------------------
(***************************************************************************)
(* bossan_ext.c: the callbacks that the parser calls with the pieces of a  *)
(* request, and the request they put together.  A piece is a sequence of   *)
(* bytes; a byte that stands for a whole keyword ("1.1", "chunked", the    *)
(* field name "cl") is one element.  Every callback is an operator from    *)
(* the request to the request; ok is its return value, 0 or -1.            *)
(***************************************************************************)
EXTENDS Integers, SequencesExt

CONSTANTS
  MaxFields,     \* LIMIT_REQUEST_FIELDS
  FieldSize,     \* LIMIT_REQUEST_FIELD_SIZE
  UriBuffer,     \* the size of the buffer that a URL starts with
  UriSize,       \* LIMIT_URI
  MaxContent,    \* max_content_length
  BodyBuffer     \* client_body_buffer_size

ASSUME LimitsAssumption ==
  /\ MaxFields \in Nat /\ FieldSize \in Nat
  /\ UriBuffer \in 1 .. UriSize /\ UriSize \in Nat
  /\ MaxContent \in Nat /\ BodyBuffer \in Nat

Null == <<"NULL">>            \* NULL, which is also the VALUE of Ruby's false
NoLength == -1                \* (int)ULLONG_MAX

\* Upper case, and "-" becomes "_".
key_upper(name) ==
  [i \in DOMAIN name |->
     IF name[i] = "-" THEN "_" ELSE IF name[i] = "x" THEN "X" ELSE name[i]]

get_http_header_key(name) == <<"HTTP_">> \o key_upper(name)

\* rb_hash_aset
Put(env, key, value) ==
  [k \in DOMAIN env \cup {key} |-> IF k = key THEN value ELSE env[k]]

replace_env_key(env, old, new) ==
  IF old \in DOMAIN env
  THEN [k \in (DOMAIN env \ {old}) \cup {new} |-> IF k = new THEN env[old] ELSE env[k]]
  ELSE env

Fail(req, code) == [req EXCEPT !.bad_request_code = code, !.ok = FALSE]

\* buffer.c
NoBuffer == [bytes |-> <<>>, buf_size |-> 0]
new_buffer == [bytes |-> <<>>, buf_size |-> UriBuffer]
Grown(size, needs) ==
  LET doubled == IF 2 * size <= needs THEN needs + 1 ELSE 2 * size IN
  IF needs < size THEN size
  ELSE IF doubled > UriSize THEN UriSize + 1 ELSE doubled
LimitOver(buf, piece) ==
  LET newl == Len(buf.bytes) + Len(piece) IN newl >= Grown(buf.buf_size, newl)
\* What does not fit is cut off.
write2buf(buf, piece) ==
  LET newl == Len(buf.bytes) + Len(piece)
      size == Grown(buf.buf_size, newl)
      l == IF LimitOver(buf, piece) THEN size - Len(buf.bytes) - 1 ELSE Len(piece)
  IN [bytes |-> buf.bytes \o SubSeq(piece, 1, l), buf_size |-> size]

\* headed and done are history: headers_complete_cb and message_complete_cb
\* have been called for the request.
new_request ==
  [path |-> NoBuffer, field |-> Null, value |-> Null, last_header_element |-> "FIELD",
   num_headers |-> 0, environ |-> <<>>, body |-> <<>>, body_type |-> "NONE",
   body_length |-> 0, bad_request_code |-> 0, ok |-> TRUE, headed |-> FALSE, done |-> FALSE]

\* The first piece of a name ends the header before it.
Committed(req) ==
  [req EXCEPT !.environ = Put(@, req.field, req.value), !.field = Null, !.value = Null,
              !.num_headers = @ + 1]
\* Seeded fault: every piece of a name is taken for a name.
FaultyField(req, piece) ==
  LET starts == req.last_header_element # "FIELD"
      base == IF starts THEN Committed(req) ELSE req
  IN IF starts /\ MaxFields <= req.num_headers THEN Fail(req, 400)
     ELSE [base EXCEPT !.field = get_http_header_key(piece), !.last_header_element = "FIELD"]
header_field_cb(req, piece) ==
  LET starts == req.last_header_element # "FIELD"
      base == IF starts THEN Committed(req) ELSE req
      name == IF base.field = Null THEN get_http_header_key(piece)
              ELSE base.field \o key_upper(piece)
  IN IF starts /\ MaxFields <= req.num_headers THEN Fail(req, 400)
     ELSE IF Len(name) > FieldSize THEN Fail(base, 400)
     ELSE [base EXCEPT !.field = name, !.last_header_element = "FIELD"]
header_value_cb(req, piece) ==
  LET value == IF req.value = Null THEN piece ELSE req.value \o piece IN
  IF Len(value) > FieldSize THEN Fail(req, 400)
  ELSE [req EXCEPT !.value = value, !.last_header_element = "VAL"]

request_uri_cb(req, piece) ==
  LET buf == IF req.path = NoBuffer THEN new_buffer ELSE req.path
      written == [req EXCEPT !.path = write2buf(buf, piece)]
  IN IF LimitOver(buf, piece) THEN Fail(written, 400) ELSE written

\* set_path and set_query cut the URL; what set_path makes of an escape is
\* another matter.  Here the byte "%" stands for one that urldecode refuses
\* ("%25zz" in a path, "%zz" after it).
UpTo(url, stops) ==
  LET cuts == {i \in DOMAIN url : url[i] \in stops} IN
  IF cuts = {} THEN url ELSE SubSeq(url, 1, Min(cuts) - 1)
PathOf(url) == UpTo(url, {"?", "#"})
QueryOf(url) ==
  LET rest == SubSeq(url, Len(PathOf(url)) + 1, Len(url)) IN
  IF rest = <<>> \/ rest[1] = "#" THEN <<>> ELSE UpTo(Tail(rest), {"#"})

\* The methods that the switch has no case for, and its default
Nameless == {"SEARCH", "MSEARCH", "NOTIFY", "SUBSCRIBE", "UNSUBSCRIBE", "PATCH", "PURGE"}
Presented(method) == IF method \in Nameless THEN "GET" ELSE method

headers_complete_cb(req, content_length, unlimited, version, method) ==
  LET env1 == Put(req.environ, <<"SERVER_PROTOCOL">>,
                  <<IF version = "1.1" THEN "1.1" ELSE "1.0">>)
      env2 == Put(Put(env1, <<"PATH_INFO">>, PathOf(req.path.bytes)),
                  <<"QUERY_STRING">>, QueryOf(req.path.bytes))
      last == req.field # Null /\ req.value # Null
      env3 == IF last THEN Put(env2, req.field, req.value) ELSE env2
      env4 == replace_env_key(replace_env_key(env3, <<"HTTP_", "ct">>, <<"CONTENT_TYPE">>),
                              <<"HTTP_", "cl">>, <<"CONTENT_LENGTH">>)
  IN IF ~unlimited /\ MaxContent < content_length THEN Fail(req, 413)
     ELSE IF \E i \in DOMAIN req.path.bytes : req.path.bytes[i] = "%"
     THEN [req EXCEPT !.environ = env1, !.ok = FALSE]
     ELSE [req EXCEPT
             !.environ = Put(env4, <<"REQUEST_METHOD">>, <<Presented(method)>>),
             !.path = NoBuffer,
             !.field = IF last THEN Null ELSE @,
             !.value = IF last THEN Null ELSE @,
             !.body_length = IF unlimited THEN NoLength ELSE content_length,
             !.headed = TRUE]

body_cb(req, piece) ==
  LET typed == IF req.body_type # "NONE" THEN req
               ELSE [req EXCEPT !.body_type = IF req.body_length > BodyBuffer THEN "TMPFILE"
                                              ELSE "BUFFER"]
  IN IF MaxContent <= Len(req.body) + Len(piece) THEN Fail(req, 413)
     ELSE IF req.body_type = "NONE" /\ req.body_length = 0 THEN Fail(req, 411)
     ELSE [typed EXCEPT !.body = @ \o piece]
=============================================================================
