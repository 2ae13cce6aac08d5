--------------------------- MODULE MCHttpMessages ---------------------------
(***************************************************************************)
(* The connections that TLC tries.                                         *)
(***************************************************************************)
EXTENDS HttpMessages

Header(name, value) == [name |-> name, value |-> value]
Request == [lead |-> <<>>, gap |-> <<" ">>, eol |-> Crlf, bad |-> 0, method |-> method_strings.GET,
            path |-> <<"/">>, query |-> Null, fragment |-> Null, version |-> "1.1", headers |-> <<>>,
            body |-> <<>>, chunks |-> <<>>, trailers |-> <<>>]
With(headers) == [Request EXCEPT !.headers = headers]
SeqsUpTo(S, n) == UNION {[1 .. k -> S] : k \in 0 .. n}

\* Names that meet in one key, values of no, one and several pieces, a line
\* without a colon
Plain == {Header(<<"x", "-">>, <<"v", "v">>), Header(<<"X", "_">>, <<>>),
          Header(<<"v">>, <<"v", "fold", "1">>), Header(<<"cl">>, <<>>),
          Header(<<"ct">>, <<"v">>), Header(<<"v", "x">>, Null),
          Header(<<"x", "x", "x", "x">>, <<"v">>), Header(<<"v">>, <<"v", "v", "v", "v", "v">>)}
HeaderStreams == {<<With(h)>> : h \in SeqsUpTo(Plain, 3)}
  \cup {<<With([i \in 1 .. n |-> Header(<<"v">>, <<"v">>)])>> : n \in 3 .. MaxFields + 2}

\* Request lines
LineStreams ==
  {<<[Request EXCEPT !.path = p, !.query = q, !.fragment = f, !.version = v]>> :
     p \in {<<"/">>, <<"/", "v", "v">>, <<"/", "%">>, <<"bad">>}, q \in {Null, <<>>, <<"v", "?">>},
     f \in {Null, <<>>, <<"?", "#">>}, v \in {"0.9", "1.0", "1.1", "1.2"}}
  \cup {<<[Request EXCEPT !.path = [i \in 1 .. n |-> IF i = 1 THEN "/" ELSE "v"]]>> :
         n \in 1 .. UriSize + 2}
  \cup {<<[Request EXCEPT !.version = "bad"]>>}

\* Every method, with a letter that is wrong, missing or too much
Words(word) ==
  {word, Front(word), Append(word, "v")} \cup {[word EXCEPT ![i] = "X"] : i \in DOMAIN word}
  \cup {[word EXCEPT ![3] = c] : c \in {" ", "R", "S", "A", "P"}}
Short == [Request EXCEPT !.version = "0.9", !.eol = <<LF>>]
MethodStreams ==
  {<<[Short EXCEPT !.method = w]>> : w \in UNION {Words(word) : word \in Range(method_strings)}}

\* Every URL of up to three bytes, and servers behind a scheme or in a CONNECT
UrlBytes == {"v", ":", "/", "@", "?", "#", "*", "^"}
Urls(n) == SeqsUpTo(UrlBytes, n) \ {<<>>}
Scheme == <<"v", ":", "/", "/">>
Url(m, u) ==
  LET path == UpTo(u, {"?", "#"})
      bare == UpTo(u, {"#"})
  IN [m EXCEPT !.path = path,
               !.query = IF path = bare THEN Null ELSE SubSeq(u, Len(path) + 2, Len(bare)),
               !.fragment = IF bare = u THEN Null ELSE SubSeq(u, Len(bare) + 2, Len(u))]
UrlStreams ==
  {<<Url(Short, u)>> : u \in Urls(3) \cup {<<"v">> \o u : u \in Urls(2)}
                                      \cup {SubSeq(Scheme, 1, n) \o u : n \in 1 .. 4, u \in Urls(2)}
                                      \cup {Scheme, Scheme \o <<"v", "@", "@", "v">>,
                                            Scheme \o <<"@", "v", "@", "/">>}}
  \cup {<<Url([Short EXCEPT !.method = method_strings.CONNECT], u)>> : u \in Urls(3)}

\* Lengths with one to three digits against a width of six bits, and the body sent
Bytes(n) == [i \in 1 .. n |-> "v"]
Lengths == {<<"0">>, <<"2">>, <<"0", "4">>, <<"5">>, <<"6">>, <<"1", "2">>, <<"1", "2", "8">>,
            <<"7", "0">>, <<"6", "4">>, <<"6", "6">>, <<"1", "3", "0">>, <<"1", "v">>, <<"v">>}
LengthStreams ==
  {<<[Request EXCEPT !.headers = <<Header(<<"cl">>, l)>>,
                     !.body = Bytes(IF IsNum(Last(l)) /\ Decimal(l) < 7 THEN Decimal(l) ELSE 2)]>> :
     l \in Lengths}

\* Chunked bodies with and without a length and trailers
Chunk(size, n) == [size |-> size, data |-> Bytes(n)]
Te == Header(<<"te">>, <<"chunked">>)
ChunkStreams ==
  {<<[Request EXCEPT !.headers = h, !.chunks = c, !.trailers = t]>> :
     h \in {<<Te>>, <<Header(<<"cl">>, <<"0">>), Te>>, <<Te, Header(<<"cl">>, <<"3">>)>>},
     c \in {<<>>, <<Chunk(<<"2">>, 2)>>, <<Chunk(<<"1">>, 1), Chunk(<<"0", "2">>, 2)>>,
            <<Chunk(<<"3">>, 3), Chunk(<<"3">>, 3)>>, <<Chunk(<<"2">>, 1)>>,
            <<Chunk(<<"2", ";", "v">>, 2)>>, <<Chunk(<<"6", "6">>, 4)>>, <<Chunk(<<"1", "0", "0">>, 4)>>},
     t \in {<<>>, <<Header(<<"x">>, <<"v">>), Header(<<"co">>, <<"close">>)>>}}

\* Two requests on a connection
Co(v) == Header(<<"co">>, <<v>>)
First ==
  {With(<<>>), With(<<Co("close")>>), With(<<Co("keep-alive"), Co("close")>>),
   [With(<<Co("keep-alive")>>) EXCEPT !.version = "1.0"],
   [With(<<>>) EXCEPT !.version = "1.0"],
   [With(<<Header(<<"co", "x">>, <<"close">>), Header(<<"co">>, <<"v">>)>>) EXCEPT
      !.method = method_strings.PATCH],
   [With(<<Header(<<"cl">>, <<"2">>)>>) EXCEPT !.body = Bytes(2)],
   [With(<<Te>>) EXCEPT !.chunks = <<Chunk(<<"1">>, 1)>>],
   [With(<<Te>>) EXCEPT !.trailers = <<Header(<<"v">>, <<"v">>), Co("close")>>],
   [With(<<Te>>) EXCEPT !.trailers = <<Header(<<"v">>, <<"v", "v", "v", "v">>)>>],
   With(<<Header(<<"up">>, <<"v">>)>>), [With(<<>>) EXCEPT !.method = method_strings.CONNECT,
                                                            !.path = <<"v">>]}
Second ==
  {With(<<>>), With(<<Co("close"), Header(<<"v">>, <<"v">>)>>),
   [With(<<Header(<<"cl">>, <<"1">>)>>) EXCEPT !.body = <<"G">>],
   [Request EXCEPT !.method = <<"bad">>], [Request EXCEPT !.lead = <<CR, LF>>, !.gap = <<" ", " ">>]}
PairStreams == {<<f, s>> : f \in First, s \in First \cup Second}

\* Lines that end in LF alone
LfStreams == {<<[With(h) EXCEPT !.eol = <<LF>>]>> : h \in SeqsUpTo(Plain, 1)}
  \cup {<<[With(<<Te>>) EXCEPT !.eol = <<LF>>, !.chunks = <<Chunk(<<"1">>, 1)>>]>>}

\* A bad byte in every place, but not where it would be taken for a part of the value
\* "chunked"
Spoilt == [With(<<Te, Header(<<"cl">>, <<"0", "2">>)>>) EXCEPT
             !.chunks = <<Chunk(<<"0", "1", " ">>, 1)>>]
BadStreams == {<<[Spoilt EXCEPT !.bad = i]>> : i \in DOMAIN BytesOf(Spoilt) \ 12 .. 14}

MCStreams == {StreamOf(msgs) :
  msgs \in HeaderStreams \cup LineStreams \cup MethodStreams \cup UrlStreams \cup LengthStreams
          \cup ChunkStreams \cup PairStreams \cup LfStreams \cup BadStreams}
=============================================================================
