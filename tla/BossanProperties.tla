-------------------------- MODULE BossanProperties --------------------------
(***************************************************************************)
(* What the server core of bossan_ext.c promises: the type invariant, the  *)
(* safety invariants, the action properties and the liveness properties of *)
(* module Bossan.                                                          *)
(***************************************************************************)
EXTENDS Bossan

Ids == Nat \ {0}
TokenType == [t : {"begin", "body", "junk", "blank"}] \cup [t : {"head"}, h : HeadType]
AnswerType == [id : Nat, kind : {"app", "page", "cont"}, status : Nat, head : BOOLEAN,
               items : Nat, last : Nat, want : Nat, chunked : BOOLEAN, framed : BOOLEAN,
               zero : BOOLEAN]
RequestType == [expect : {"none", "continue", "other"}, bodyCode : Codes, bad : Codes,
                whole : BOOLEAN]
BucketType == [held : BOOLEAN, head : BOOLEAN, len : Nat, ends : Nat]
ClientType ==
  [keep_alive : BOOLEAN, complete : BOOLEAN, parser : {"start", "head", "body", "dead"},
   minor : {0, 1}, current : Nat, queue : Seq(Ids), status : Nat, header_done : BOOLEAN,
   response_closed : BOOLEAN, chunked : BOOLEAN, clset : BOOLEAN, cl : Nat,
   write_bytes : Nat, bucket : BucketType, response : AppType, iter : Seq(Nat)]
RegType == [ev : {"none", "read", "write"}, armed : BOOLEAN, arg : Nat]
ScriptType == [phase : {"start", "head", "body", "wait", "done"}, sent : Nat, blanks : Nat,
               stalled : BOOLEAN, old : BOOLEAN]

\* Every variable has its type: the fields of client_t, picoev's entries, the
\* queue of request numbers and the answers on the wire.
AllocTypes ==
  /\ sock \in [Fds -> {"closed", "pending", "open"}]
  /\ mem \in [Fds -> Nat]
  /\ gens \in [Fds -> Nat]
  /\ reg \in [Fds -> RegType]
ControlTypes ==
  /\ pc \in Places
  /\ cur \in Fds
  /\ me \in Nat
  /\ handler \in {"accept", "read", "write"}
  /\ nested \in Nat
  /\ accepted \in Nat
  /\ loop_done \in BOOLEAN
PeerTypes ==
  /\ peer \in [Fds -> {"up", "eof", "reset"}]
  /\ inbox \in [Fds -> Seq(TokenType)]
  /\ script \in [Fds -> ScriptType]
  /\ window \in [Fds -> BOOLEAN]
  /\ conns \in Nat
HistTypes ==
  /\ wire \in [Fds -> Seq(AnswerType)]
  /\ calls \in [Fds -> Seq(Nat)]
  /\ reqs \in [Fds -> Seq(RequestType)]
DataTypes ==
  /\ cli \in [Fds -> ClientType]
  /\ buf \in Seq(TokenType)
  /\ bad \in BOOLEAN
  /\ fault \in Faults

TypeOK == AllocTypes /\ ControlTypes /\ PeerTypes /\ HistTypes /\ DataTypes

-----------------------------------------------------------------------------
(* The inductive invariants: WatchInv is about the clients and picoev,     *)
(* IInv adds the requests and the types of the data.                       *)

\* Places where a callback works on the client me of descriptor cur; at
\* "start" the client may have been closed by process_rack_app.
Working == {"register", "read", "parse", "finish", "prepare", "app", "body", "wbody",
            "retry", "suspend", "page", "close"}
Nested == pc = "start" \/ (pc = "return" /\ nested > 0)

\* Clients are allocated for open descriptors only, and picoev knows no others;
\* only the descriptor whose timer just fired is registered without a timer.
AllocOK ==
  \A f \in Fds :
    /\ mem[f] <= gens[f]
    /\ mem[f] # 0 => sock[f] = "open"
    /\ reg[f].ev # "none" => mem[f] # 0 /\ reg[f].arg = mem[f] /\ f \in Pollable
    /\ reg[f].armed => reg[f].ev # "none"
    /\ reg[f].ev # "none" /\ ~reg[f].armed /\ Running =>
         f = cur /\ pc \in Working \cup {"start"}

\* The stack holds a live client, registered as the callback found it.
StackOK ==
  /\ pc \in Working \cup {"start", "return"} => me # 0
  /\ pc \in Working => mem[cur] = me
  /\ pc \in {"read", "parse"} /\ handler # "accept" => reg[cur].ev = "read" /\ reg[cur].armed
  /\ pc \in {"retry", "wbody"} => reg[cur].ev = "write" /\ reg[cur].armed
  /\ pc \in {"accept", "register"} => handler = "accept"
  /\ pc \in {"read", "parse", "finish"} /\ handler = "accept" => reg[cur].ev = "none"
  /\ pc = "prepare" => reg[cur].ev = "none"

\* Every open descriptor is watched with its timer running, except the one a
\* callback is working on and one that setup_sock failed for.
WatchOK ==
  Running =>
    \A f \in Pollable :
      sock[f] = "open" /\ (loop_done \/ mem[f] # 0)
      /\ ~(f = cur /\ (pc \in Working \/ Nested)) =>
        reg[f].ev # "none" /\ reg[f].armed

WatchInv == AllocTypes /\ ControlTypes /\ AllocOK /\ StackOK /\ WatchOK

\* current_req and the queue point to requests of the connection, and a queue
\* that is going to be shifted is not empty.
RefsOK ==
  /\ \A f \in Fds : /\ cli[f].current <= Len(reqs[f])
                    /\ \A i \in DOMAIN cli[f].queue : cli[f].queue[i] <= Len(reqs[f])
  /\ \A f \in Fds :
       (cli[f].complete \/ cli[f].parser \in {"head", "body"})
       /\ (reg[f].ev = "read" \/ (f = cur /\ pc \in {"read", "parse", "register"}))
         => cli[f].queue # <<>>
  /\ pc \in {"finish", "prepare"} => cli[cur].queue # <<>>

DataInv == PeerTypes /\ HistTypes /\ DataTypes /\ RefsOK

IInv == WatchInv /\ DataInv

-----------------------------------------------------------------------------
(* The inductive invariant of the order of service: ServeInv.              *)

Increasing(s) == \A i, j \in DOMAIN s : i < j => s[i] < s[j]

\* An answer to a request; a page for a client that has none carries 0.
Answer(r) == r.kind # "cont" /\ r.id # 0
Ordered(w) == \A i, j \in DOMAIN w : i < j /\ Answer(w[i]) /\ Answer(w[j]) => w[i].id < w[j].id
Answers(w) == {w[i].id : i \in {j \in DOMAIN w : Answer(w[j])}}
Pages(w) == {w[i].id : i \in {j \in DOMAIN w : w[j].kind = "page"}}

At(f, places) == f = cur /\ pc \in places
\* The client at "start", unless process_rack_app has closed it.
Started(f) == At(f, {"start"}) /\ mem[f] = me
Reading(f) == reg[f].ev = "read" \/ At(f, {"read", "parse", "register"})
HeaderOut(c) == c.header_done \/ c.response_closed

\* What was called or answered comes before what is queued.
OrderOK(f) ==
  /\ Increasing(cli[f].queue) /\ Increasing(calls[f]) /\ Ordered(wire[f])
  /\ \A id \in Range(calls[f]) \cup Answers(wire[f]) :
       id <= Len(reqs[f]) /\ \A next \in Range(cli[f].queue) : id < next
  /\ sock[f] = "pending" => wire[f] = <<>>

\* current_req comes between the two, where it is going to be called or answered.
CurrentOK(f) ==
  /\ At(f, {"app", "page", "body"}) \/ Started(f) =>
       \A next \in Range(cli[f].queue) : cli[f].current < next
  /\ At(f, {"app"}) => \A id \in Range(calls[f]) : id < cli[f].current
  /\ At(f, {"app"}) \/ Started(f) \/ (At(f, {"page"}) /\ ~HeaderOut(cli[f]) /\ cli[f].current # 0) =>
       \A id \in Answers(wire[f]) : id < cli[f].current
  /\ At(f, {"body"}) => cli[f].header_done

\* A client that reads has the request it parses as the last of its queue, and
\* leaves the parser with a complete one only to serve it.
ReadingOK(f) ==
  /\ Reading(f) =>
       /\ cli[f].queue = <<>> => cli[f].current = 0
       /\ cli[f].queue # <<>> =>
            /\ cli[f].current = Last(cli[f].queue)
            /\ reqs[f][cli[f].current].whole => cli[f].complete
       /\ cli[f].complete => At(f, {"parse", "finish", "page", "close", "crashed"})
       /\ HeaderOut(cli[f]) => At(f, {"finish", "page", "close", "crashed"})
  /\ At(f, {"finish", "prepare", "app"}) /\ HeaderOut(cli[f]) => peer[f] = "reset"
  /\ At(f, {"app", "body", "suspend"}) \/ Started(f) => reg[f].ev # "read"

\* A complete request that waits no more was called or got a page.
CoverOK(f) ==
  mem[f] # 0 /\ peer[f] # "reset" =>
    /\ \A id \in DOMAIN reqs[f] : reqs[f][id].whole =>
         \/ id \in Range(cli[f].queue) \cup Range(calls[f]) \cup Pages(wire[f])
         \/ At(f, {"app", "page"}) /\ id = cli[f].current
    /\ Started(f) \/ At(f, {"body"}) \/ (At(f, {"page"}) /\ HeaderOut(cli[f])) =>
         cli[f].current \in Range(calls[f])

\* The client of a read that met a reset behind two requests, and what is left of it.
Doomed(f) == peer[f] = "reset" /\ ~cli[f].keep_alive /\ Len(reqs[f]) > 1
Buried(f) == sock[f] # "open" /\ Len(reqs[f]) > 1 /\ (sock[f] = "closed" => peer[f] = "reset")

\* process_rack_app closes only such a client, and its callers return to "start".
NestOK ==
  /\ nested > 0 => pc \in {"close", "prepare", "app", "page", "start", "return", "crashed", "raised"}
  /\ nested > 0 /\ (pc \in {"close", "prepare", "app", "page"} \/ Started(cur)) => Doomed(cur)
  /\ (pc = "return" /\ nested > 0) \/ (pc = "start" /\ ~Started(cur)) =>
       mem[cur] # me /\ Buried(cur)
  /\ cli[cur].response_closed =>
       /\ pc = "finish" => ~cli[cur].keep_alive /\ reqs[cur][Last(cli[cur].queue)].bad > 200
       /\ pc \in {"prepare", "app"} => Doomed(cur)
  /\ fault # "none" => pc = "crashed"
  /\ fault = "use_after_free" => Buried(cur)

ServeInv ==
  /\ \A f \in Fds : OrderOK(f) /\ CurrentOK(f) /\ ReadingOK(f) /\ CoverOK(f)
  /\ NestOK

-----------------------------------------------------------------------------
(* The inductive invariants of the faults (FaultInv), and of connections   *)
(* whose peer sends one request at a time (SoloInv).                       *)

Blanks(tokens) == {i \in DOMAIN tokens : tokens[i].t = "blank"}
Begins(tokens) == {i \in DOMAIN tokens : tokens[i].t = "begin"}
AtMostOne(S) == \A i, j \in S : i = j

\* The answer to the current request has begun.
Answering(f) == wire[f] # <<>> /\ Last(wire[f]).kind = "app" /\ Last(wire[f]).id = cli[f].current
Suspended(f) == cli[f].bucket.held /\ Answering(f)

\* An empty line is one that the peer sent, and a buffer that made no request
\* had nothing else.
BlankOK(f) == Blanks(inbox[f]) # {} => script[f].blanks > 0
BufferOK ==
  pc = "parse" =>
    /\ Blanks(buf) # {} => script[cur].blanks > 0
    /\ buf = <<>> /\ ~bad /\ cli[cur].current = 0 => script[cur].blanks > 0

\* A body is written, and a bucket suspended, behind a status line.
AnsweringOK == (pc = "body" => Answering(cur)) /\ (pc = "suspend" => Suspended(cur))

\* The NULL request is dereferenced by the access log, for a client that serves
\* no request, or after an empty line; an assertion fails when a response is
\* suspended, or for a descriptor above picoev's range, which is past the end of
\* its table in a build without assertions; the undefined item comes from a body
\* without items.
CausesOK ==
  /\ fault = "null_deref" => cli[cur].current = 0 /\ (AccessLog \/ script[cur].blanks > 0)
  /\ fault = "assert" => Asserts /\ (cur \notin Pollable \/ Suspended(cur))
  /\ fault = "out_of_bounds" => ~Asserts /\ cur \notin Pollable
  /\ fault = "undef_value" => cli[cur].response.body = <<>> /\ ~cli[cur].response.array

FaultInv == (\A f \in Fds : BlankOK(f)) /\ BufferOK /\ AnsweringOK /\ CausesOK

\* A request was taken from the queue and its answer is not over.
InService(f) ==
  reg[f].ev = "write" \/ Started(f)
  \/ At(f, {"app", "body", "wbody", "retry", "suspend", "page", "close"})

\* What the peer sent is what is queued and what is still to be parsed: one
\* request at most that was not answered.
SoloOK(f) ==
  /\ sock[f] = "pending" =>
       /\ script[f].sent \in {0, 1}
       /\ Begins(inbox[f]) # {} => script[f].sent = 1
       /\ AtMostOne(Begins(inbox[f]))
  /\ mem[f] # 0 =>
       /\ script[f].sent \in {Len(reqs[f]), Len(reqs[f]) + 1}
       /\ Begins(inbox[f]) # {} => script[f].sent = Len(reqs[f]) + 1
       /\ AtMostOne(Begins(inbox[f]))
       /\ cli[f].queue # <<>> =>
            cli[f].queue = <<Len(reqs[f])>> /\ script[f].sent = Len(reqs[f])
       /\ InService(f) => cli[f].queue = <<>>

\* A request is called when it was parsed to its end without an error.
WholeOK(f) ==
  /\ \A id \in DOMAIN reqs[f] :
       /\ reqs[f][id].bodyCode \in Codes
       /\ reqs[f][id].bad = 0 \/ reqs[f][id].bad > 200
       /\ id \in Range(calls[f]) => reqs[f][id].whole
  /\ At(f, {"parse"}) /\ cli[f].complete =>
       cli[f].parser \in {"start", "dead"} /\ reqs[f][Last(cli[f].queue)].whole
  /\ At(f, {"finish"}) =>
       reqs[f][Head(cli[f].queue)].whole \/ reqs[f][Head(cli[f].queue)].bad > 200
  /\ At(f, {"prepare"}) => reqs[f][Head(cli[f].queue)].whole
  /\ At(f, {"app"}) => reqs[f][cli[f].current].whole

\* The buffer has the one request the peer may have sent, and no client is
\* closed under process_rack_app.
ThreadOK ==
  /\ pc = "parse" =>
       /\ AtMostOne(Begins(buf))
       /\ Begins(buf) # {} =>
            Begins(inbox[cur]) = {} /\ script[cur].sent = Len(reqs[cur]) + 1
  /\ nested = 0 /\ fault # "use_after_free"
  /\ pc \in {"prepare", "app"} => ~cli[cur].response_closed
  /\ pc = "start" => mem[cur] = me

SoloInv == (\A f \in Fds : SoloOK(f) /\ WholeOK(f)) /\ ThreadOK

-----------------------------------------------------------------------------
(* The inductive invariant of what stands on the wire: FramingInv.         *)

\* An answer that reached its end, and whose end its framing tells the peer.
Whole(r) == r.kind = "app" =>
              /\ r.head /\ r.items = r.want /\ r.framed
              /\ r.last = (IF r.chunked THEN 1 ELSE 0)

\* The connections and the answers the code does not answer for.
Excused(f) == script[f].stalled \/ script[f].old
Fine(f, r) == Whole(r) \/ r.zero \/ Excused(f)

\* A send buffer is full, and a response waits for it, when the peer stalled;
\* a head of HTTP/1.0 is one the peer sent.
OldIn(tokens) == \E i \in DOMAIN tokens : tokens[i].t = "head" /\ tokens[i].h.minor = 0
StallOK(f) ==
  /\ ~window[f] \/ reg[f].ev = "write" \/ At(f, {"suspend", "retry", "wbody"}) =>
       script[f].stalled
  /\ OldIn(inbox[f]) \/ (At(f, {"parse"}) /\ OldIn(buf)) => script[f].old

\* A client that parsed no head, whose http_minor is still 0, has one request
\* at most and serves none: it is refused or waits for the rest of its head.
HeadOK(f) ==
  mem[f] # 0 /\ cli[f].minor = 0 /\ ~script[f].old =>
    /\ ~cli[f].complete
    /\ cli[f].parser \in {"start", "head"}
    /\ cli[f].queue # <<>> => cli[f].parser = "head" /\ Len(cli[f].queue) = 1
    /\ ~Started(f) /\ reg[f].ev # "write"
    /\ ~At(f, {"prepare", "app", "body", "wbody", "retry", "suspend"})
    /\ At(f, {"page", "close"}) => cli[f].queue = <<>>
    /\ At(f, {"finish"}) => reqs[f][Head(cli[f].queue)].bad > 200

\* What is left of a body, when answer r of it is on the wire so far: its
\* items make up what r lacks, none of them ends it, and it will be framed.
Underway(r, c) ==
  /\ r.head /\ r.framed /\ r.last = 0
  /\ r.chunked = c.chunked
  /\ c.clset => ~c.chunked /\ c.cl = r.want /\ c.write_bytes = r.items
  /\ c.response.array => c.iter = <<>>
  /\ AddUp(c.iter, r.want - r.items, c.response.total)
  /\ c.chunked => \A i \in DOMAIN c.iter : c.iter[i] # 0

\* Only the last answer may be one that did not reach its end, while its body
\* is being written; nothing follows an answer to a peer that is gone.
AnswerOK(f) ==
  /\ \A i \in DOMAIN wire[f] : i < Len(wire[f]) => Fine(f, wire[f][i])
  /\ wire[f] # <<>> /\ peer[f] # "reset" => Fine(f, Last(wire[f])) \/ At(f, {"body"})
  /\ Started(f) => cli[f].response \in Apps
  /\ At(f, {"body"}) /\ peer[f] # "reset" =>
       Excused(f) \/ Last(wire[f]).zero \/ Underway(Last(wire[f]), cli[f])

FramingInv == \A f \in Fds : StallOK(f) /\ HeadOK(f) /\ AnswerOK(f)

-----------------------------------------------------------------------------
\* picoev never holds a callback argument that is not the client_t allocated
\* for an open descriptor: every close_client unregisters before it frees, and
\* a client is registered again only with the pointer that is alive.
NoDanglingCallback ==
  \A f \in Fds : reg[f].ev # "none" =>
    sock[f] = "open" /\ mem[f] # 0 /\ reg[f].arg = mem[f]

\* Between two callbacks every open connection below picoev's max_fd is
\* watched and has a timer running: no path through the callbacks forgets it
\* (accept_callback drops one only when it also stops the loop).
NoLostConnection ==
  pc = "loop" /\ loop_done =>
    \A f \in Pollable : sock[f] = "open" => reg[f].ev # "none" /\ reg[f].armed

\* A connection waits for more input only if its last request is incomplete:
\* a connection with nothing but complete requests is always being served.
NoStrandedRequest ==
  pc = "loop" =>
    \A f \in Fds : reg[f].ev = "read" /\ cli[f].queue # <<>> =>
      ~reqs[f][Last(cli[f].queue)].whole

\* The application is called at most once for each request of a connection,
\* in the order the requests arrived.
CalledOnceInOrder == \A f \in Fds : Increasing(calls[f])

\* No request gets two status lines, and the answers of a connection are in
\* the order of its requests: neither a page nor a resumed response is sent for
\* a request that was answered, whatever the peer, the timers and the socket do.
AnsweredOnceInOrder == \A f \in Fds : Ordered(wire[f])

Paged(f, id) == \E i \in DOMAIN wire[f] : wire[f][i].kind = "page" /\ wire[f][i].id = id
Called(f, id) == \E i \in DOMAIN calls[f] : calls[f][i] = id

\* close_client closes a connection only when every complete request on it
\* went to the application or got an error page (unless the peer reset it).
ClosesAfterAnswers ==
  [][\A f \in Fds : sock[f] = "open" /\ sock'[f] = "closed" /\ peer[f] # "reset" =>
       \A id \in DOMAIN reqs[f] : reqs[f][id].whole => Called(f, id) \/ Paged(f, id)]_vars

\* A request http_parser or the limits rejected does not reach the application.
BadRequestNotCalled ==
  \A f \in Fds : \A id \in DOMAIN reqs[f] :
    reqs[f][id].bad > 200 /\ ~reqs[f][id].whole => ~Called(f, id)

\* The server's undefined behaviour has these causes and no other.  A closed
\* client is used only after a reset met behind a second queued request.
UseAfterFreeCause ==
  fault = "use_after_free" =>
    sock[cur] # "open" /\ Len(reqs[cur]) > 1 /\ (sock[cur] = "closed" => peer[cur] = "reset")

\* The other faults have the causes of CausesOK, and a peer that does not
\* pipeline never makes the server use a closed client.
FaultCauses == CausesOK /\ (fault = "use_after_free" => "pipeline" \in Peers)

\* A status line is only ever sent behind an answer that is complete and whose
\* end the peer can find.  The code breaks this in three ways and no other:
\* when the peer lets the send buffer fill (the last chunk is dropped, a
\* resumed body is cut), when a connection has an HTTP/1.0 request (no chunks,
\* or chunks for the request before it), when a chunk of a body is empty (an
\* item of length 0, or an Array with nothing in it).
NothingAfterCutAnswer ==
  \A f \in Fds : \A i \in DOMAIN wire[f] :
    i < Len(wire[f]) =>
      Whole(wire[f][i]) \/ script[f].stalled \/ script[f].old \/ wire[f][i].zero

-----------------------------------------------------------------------------
\* The only place where the thread waits for a peer: blocking_write of an error
\* page, on a socket whose send buffer is full.
Held == pc = "page" /\ ~SmallRoom

\* Every accepted connection is closed in the end, by its last answer, by a
\* timer, or with the process, whatever the peer does, even if it never reads
\* again: unless an error page holds the thread for ever.
EveryConnectionEnds ==
  []<>~Held => \A f \in Fds : sock[f] = "open" ~> sock[f] = "closed" \/ ~Running

\* Every complete request is answered by the application or an error page,
\* unless an error page holds the thread for ever.
EveryRequestServed ==
  []<>~Held =>
    \A f \in Fds : \A id \in 1..MaxReqs :
      (sock[f] = "open" /\ id \in DOMAIN reqs[f] /\ reqs[f][id].whole)
        ~> (Called(f, id) \/ Paged(f, id) \/ peer[f] = "reset" \/ ~Running)

-----------------------------------------------------------------------------
(* What comments, assertions, tests and the change log say, and the code   *)
(* does not do.                                                            *)

\* picoev_epoll.c: assert(PICOEV_FD_BELONGS_TO_LOOP(...)) holds whenever a
\* descriptor is unregistered.
NoAssertionFails == fault # "assert"
=============================================================================
