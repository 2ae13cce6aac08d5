------------------------------- MODULE Bossan -------------------------------
(***************************************************************************)
(* The server core of bossan_ext.c: one thread that runs the event loop,   *)
(* accepts connections, reads and parses requests, queues the pipelined    *)
(* ones, calls the Rack application, writes the response (or suspends it   *)
(* on a full socket) and closes or keeps the connection.                   *)
(*                                                                         *)
(* pc names the place in the C code the thread is at; "loop" is            *)
(* picoev_loop_once between two callbacks.  Peers act between any two      *)
(* steps.  A request is a number (its position on the connection); a head  *)
(* is what its header block says, a body is a sequence of item lengths.    *)
(***************************************************************************)
EXTENDS Integers, Sequences, SequencesExt

CONSTANTS
  Fds,          \* descriptors accept() hands out
  Pollable,     \* those below picoev's max_fd
  Heads,        \* the header blocks peers send
  Apps,         \* the answers of the Rack application
  Peers,        \* what peers may do besides sending well-formed requests
  MaxReqs,      \* bound: requests a peer sends on one connection
  MaxConns,     \* bound: connections opened in all
  MaxBlanks,    \* bound: empty lines a peer sends on one connection
  AcceptBatch,  \* connections accepted per accept_callback (8 in the code)
  HeadLen,      \* length of a response's header block, in item units
  Asserts,      \* TRUE: built without NDEBUG
  IsKeepAlive,  \* set_keepalive was called with a positive value
  AccessLog,    \* log_fd > 0
  MayStop       \* signals arrive, accepts fail

Codes == {0, 400, 408, 411, 413, 500, 503}
HeadType == [ka : BOOLEAN, minor : {0, 1}, body : BOOLEAN, bodyCode : Codes,
             expect : {"none", "continue", "other"}, code : Codes]
AppType == [kind : {"answer", "malformed", "raise", "badheader"},
            status : Nat, array : BOOLEAN, body : Seq(Nat), total : Nat,
            clset : BOOLEAN, cl : Nat]
Habits == {"eof", "reset", "stall", "junk", "blank", "pipeline", "patient"}

\* What the model's parameters are: descriptors are any values, Pollable some
\* of them, the bounds positive.
ASSUME ParamAssumption ==
  /\ Pollable \subseteq Fds
  /\ Heads \subseteq HeadType
  /\ Apps \subseteq AppType
  /\ Peers \subseteq Habits
  /\ MaxReqs \in Nat /\ MaxConns \in Nat /\ MaxBlanks \in Nat
  /\ AcceptBatch \in Nat \ {0}
  /\ HeadLen \in Nat
  /\ Asserts \in BOOLEAN /\ IsKeepAlive \in BOOLEAN
  /\ AccessLog \in BOOLEAN /\ MayStop \in BOOLEAN

\* The items of a body add up to n <= cap: rest[i] is the length of all items
\* behind the first i.
AddUp(items, n, cap) ==
  \E rest \in [0..Len(items) -> 0..cap] :
    /\ rest[0] = n /\ rest[Len(items)] = 0
    /\ \A i \in 1..Len(items) : rest[i - 1] = rest[i] + items[i]

\* The application's side: total is the length of all items of its body, and a
\* Content-Length it sets is that length.
ASSUME AnswerAssumption ==
  \A a \in Apps : a.kind = "answer" =>
    AddUp(a.body, a.total, a.total) /\ (a.clset => a.cl = a.total)

VARIABLES
  sock,       \* "closed", "pending" (in the listen backlog) or "open", per descriptor
  peer,       \* "up", "eof" (peer shut its sending side down) or "reset"
  inbox,      \* what the peer sent and the server has not read
  script,     \* how far the peer is, and whether it ever stalled or spoke HTTP/1.0
  window,     \* FALSE: the socket's send buffer is full
  conns,      \* connections opened so far
  wire,       \* what the server put on the connection, one record per answer
  calls,      \* requests the application was called with, in order
  reqs,       \* the requests of the connection, in arrival order
  mem,        \* generation of the client_t allocated for the descriptor, 0 if freed
  gens,       \* generations allocated so far
  cli,        \* the fields of that client_t
  reg,        \* picoev's entry: watched event, timer, cb_arg
  loop_done,  \* the loop flag of bossan_run_loop (TRUE: keep running)
  pc,         \* where the thread is
  cur, me,    \* the descriptor handled and the client_t pointer held on the stack
  handler,    \* the callback on the stack: "accept", "read" or "write"
  nested,     \* process_rack_app frames waiting for their close_client to return
  accepted,   \* i of accept_callback's for loop
  buf, bad,   \* unparsed bytes of the buffer just read; did http_parser fail
  fault       \* the undefined behaviour or failed assertion that ended the run

peerVars == <<peer, inbox, script, window, conns>>
histVars == <<wire, calls, reqs>>
memVars  == <<mem, gens, cli>>
parseVars == <<buf, bad>>
stack    == <<cur, me, handler, accepted>>
vars == <<sock, peerVars, histVars, memVars, reg, loop_done, pc, stack, nested,
          parseVars, fault>>

Places == {"loop", "accept", "register", "read", "parse", "finish", "prepare",
           "app", "start", "body", "wbody", "retry", "suspend", "page", "close",
           "return", "stopped", "raised", "crashed"}
Faults == {"none", "assert", "out_of_bounds", "use_after_free", "null_deref", "undef_value"}

NoResponse == [kind |-> "answer", status |-> 0, array |-> TRUE, body |-> <<>>, total |-> 0,
               clset |-> FALSE, cl |-> 0]
NoBucket == [held |-> FALSE, head |-> FALSE, len |-> 0, ends |-> 0]
NoReg    == [ev |-> "none", armed |-> FALSE, arg |-> 0]
NewScript == [phase |-> "start", sent |-> 0, blanks |-> 0, stalled |-> FALSE, old |-> FALSE]
NewReq   == [expect |-> "none", bodyCode |-> 0, bad |-> 0, whole |-> FALSE]

\* new_client_t: memset to 0, then the request queue; init_parser
NewClient(keepAlive) ==
  [keep_alive |-> keepAlive, complete |-> FALSE, parser |-> "start", minor |-> 0,
   current |-> 0, queue |-> <<>>, status |-> 0, header_done |-> FALSE,
   response_closed |-> FALSE, chunked |-> FALSE, clset |-> FALSE, cl |-> 0,
   write_bytes |-> 0, bucket |-> NoBucket, response |-> NoResponse, iter |-> <<>>]

Init ==
  /\ sock = [f \in Fds |-> "closed"]
  /\ peer = [f \in Fds |-> "up"]
  /\ inbox = [f \in Fds |-> <<>>]
  /\ script = [f \in Fds |-> NewScript]
  /\ window = [f \in Fds |-> TRUE]
  /\ conns = 0
  /\ wire = [f \in Fds |-> <<>>]
  /\ calls = [f \in Fds |-> <<>>]
  /\ reqs = [f \in Fds |-> <<>>]
  /\ mem = [f \in Fds |-> 0]
  /\ gens = [f \in Fds |-> 0]
  /\ cli = [f \in Fds |-> NewClient(FALSE)]
  /\ reg = [f \in Fds |-> NoReg]
  /\ loop_done = TRUE
  /\ pc = "loop"
  /\ cur \in Fds
  /\ me = 0
  /\ handler = "read"
  /\ nested = 0
  /\ accepted = 0
  /\ buf = <<>>
  /\ bad = FALSE
  /\ fault = "none"

-----------------------------------------------------------------------------
(* Peers and the kernel's side of the sockets.                             *)

Token(kind) == [t |-> kind]
\* A peer that does not pipeline waits for the answer to its last request.
Waits(f) ==
  /\ "pipeline" \notin Peers /\ script[f].sent # 0
  /\ \A i \in DOMAIN wire[f] : wire[f][i].id = script[f].sent => wire[f][i].kind = "cont"
Invited(f)  == \E i \in DOMAIN wire[f] : wire[f][i].kind = "cont"

\* A new connection reaches the listen backlog.
PeerConnect(f) ==
  /\ sock[f] = "closed" /\ conns < MaxConns
  /\ sock' = [sock EXCEPT ![f] = "pending"]
  /\ peer' = [peer EXCEPT ![f] = "up"]
  /\ inbox' = [inbox EXCEPT ![f] = <<>>]
  /\ script' = [script EXCEPT ![f] = NewScript]
  /\ window' = [window EXCEPT ![f] = TRUE]
  /\ conns' = conns + 1
  /\ wire' = [wire EXCEPT ![f] = <<>>]
  /\ UNCHANGED <<calls, reqs, memVars, reg, loop_done, pc, stack, nested, parseVars, fault>>

Put(f, token, s) ==
  /\ inbox' = [inbox EXCEPT ![f] = Append(@, token)]
  /\ script' = [script EXCEPT ![f] = s]

\* The peer sends the next piece of its request: the request line, the end of
\* the header block, the rest of the body; or bytes that are no request.
PeerSend(f) ==
  /\ sock[f] # "closed" /\ peer[f] = "up"
  /\ LET s == script[f] IN
     \/ /\ s.phase = "start" /\ s.sent < MaxReqs
        /\ ~Waits(f)
        /\ Put(f, Token("begin"), [s EXCEPT !.phase = "head", !.sent = @ + 1])
     \/ /\ s.phase = "head"
        /\ \E h \in Heads :
             Put(f, [t |-> "head", h |-> h],
                 [s EXCEPT !.old = @ \/ h.minor = 0,
                           !.phase = IF ~h.body THEN "start"
                                     ELSE IF h.expect = "continue" /\ "patient" \in Peers
                                          THEN "wait" ELSE "body"])
     \/ /\ s.phase = "body" \/ (s.phase = "wait" /\ Invited(f))
        /\ Put(f, Token("body"), [s EXCEPT !.phase = "start"])
     \/ /\ s.phase \in {"start", "head"} /\ "junk" \in Peers
        /\ Put(f, Token("junk"), [s EXCEPT !.phase = "done"])
     \/ /\ s.phase = "start" /\ s.blanks < MaxBlanks /\ "blank" \in Peers
        /\ Put(f, Token("blank"), [s EXCEPT !.blanks = @ + 1])
  /\ UNCHANGED <<sock, peer, window, conns, histVars, memVars, reg, loop_done, pc, stack,
                 nested, parseVars, fault>>

PeerEof(f) ==
  /\ sock[f] # "closed" /\ peer[f] = "up" /\ "eof" \in Peers
  /\ peer' = [peer EXCEPT ![f] = "eof"]
  /\ UNCHANGED <<sock, inbox, script, window, conns, histVars, memVars, reg, loop_done, pc,
                 stack, nested, parseVars, fault>>

PeerReset(f) ==
  /\ sock[f] # "closed" /\ peer[f] # "reset" /\ "reset" \in Peers
  /\ peer' = [peer EXCEPT ![f] = "reset"]
  /\ UNCHANGED <<sock, inbox, script, window, conns, histVars, memVars, reg, loop_done, pc,
                 stack, nested, parseVars, fault>>

\* The peer stops reading until the socket's send buffer is full.
PeerStall(f) ==
  /\ sock[f] # "closed" /\ window[f] /\ "stall" \in Peers
  /\ window' = [window EXCEPT ![f] = FALSE]
  /\ script' = [script EXCEPT ![f].stalled = TRUE]
  /\ UNCHANGED <<sock, peer, inbox, conns, histVars, memVars, reg, loop_done, pc,
                 stack, nested, parseVars, fault>>

PeerDrain(f) ==
  /\ ~window[f]
  /\ window' = [window EXCEPT ![f] = TRUE]
  /\ UNCHANGED <<sock, peer, inbox, script, conns, histVars, memVars, reg, loop_done, pc,
                 stack, nested, parseVars, fault>>

\* The process has not ended: by the loop flag, by an exception of the
\* application or by a crash.
Running == pc \notin {"stopped", "raised", "crashed"}

\* SIGINT, SIGTERM (sigint_cb) or Bossan.stop
Stop ==
  /\ MayStop /\ loop_done /\ Running
  /\ loop_done' = FALSE
  /\ UNCHANGED <<sock, peerVars, histVars, memVars, reg, pc, stack, nested, parseVars, fault>>

-----------------------------------------------------------------------------
(* picoev's table.  Names that start with Faulty are seeded faults: forms  *)
(* of the next definition with a plausible bug, which a property catches.  *)

\* picoev_add: the event, the timer and the callback argument of a descriptor
FaultyWatch(event, client) == [ev |-> event, armed |-> FALSE, arg |-> client]
Watch(event, client) == [ev |-> event, armed |-> TRUE, arg |-> client]

\* picoev_del of the current descriptor
FaultyUnregistered == reg
Unregistered == [reg EXCEPT ![cur] = NoReg]

-----------------------------------------------------------------------------
(* The event loop: which callback runs next.                               *)

Readable(f) == inbox[f] # <<>> \/ peer[f] # "up"
Writable(f) == window[f] \/ peer[f] = "reset"

Dispatch(f, callback, place) ==
  /\ pc' = place
  /\ cur' = f
  /\ me' = reg[f].arg
  /\ handler' = callback
  /\ UNCHANGED <<sock, peerVars, histVars, loop_done, nested, accepted, parseVars, fault>>

\* r_callback on PICOEV_READ, up to its call of read_request
ReadEvent(f) ==
  /\ pc = "loop" /\ reg[f].ev = "read" /\ Readable(f)
  /\ Dispatch(f, "read", "read")
  /\ UNCHANGED <<memVars, reg>>

\* w_callback on PICOEV_WRITE, up to process_body's retry of the bucket
WriteEvent(f) ==
  /\ pc = "loop" /\ reg[f].ev = "write" /\ Writable(f)
  /\ Dispatch(f, "write", "retry")
  /\ UNCHANGED <<memVars, reg>>

\* bossan_run_loop leaves its while loop
LoopExit ==
  /\ pc = "loop" /\ ~loop_done
  /\ pc' = "stopped"
  /\ UNCHANGED <<sock, peerVars, histVars, memVars, reg, loop_done, stack, nested, parseVars,
                 fault>>

Crash(f) ==
  /\ pc' = "crashed"
  /\ fault' = f
  /\ UNCHANGED <<sock, peerVars, histVars, memVars, reg, loop_done, stack, nested, parseVars>>

-----------------------------------------------------------------------------
(* Accepting: accept_callback.                                             *)

AcceptEvent ==
  /\ pc = "loop" /\ \E f \in Fds : sock[f] = "pending"
  /\ pc' = "accept"
  /\ accepted' = 0
  /\ handler' = "accept"
  /\ UNCHANGED <<sock, peerVars, histVars, memVars, reg, loop_done, cur, me, nested,
                 parseVars, fault>>

\* One turn of the for loop: accept, new_client_t, init_parser.
Accept(f) ==
  /\ pc = "accept" /\ accepted < AcceptBatch /\ sock[f] = "pending"
  /\ sock' = [sock EXCEPT ![f] = "open"]
  /\ gens' = [gens EXCEPT ![f] = @ + 1]
  /\ mem' = [mem EXCEPT ![f] = gens[f] + 1]
  /\ cli' = [cli EXCEPT ![f] = NewClient(FALSE)]
  /\ calls' = [calls EXCEPT ![f] = <<>>]
  /\ reqs' = [reqs EXCEPT ![f] = <<>>]
  /\ cur' = f
  /\ me' = gens[f] + 1
  /\ accepted' = accepted + 1
  /\ pc' = "read"
  /\ UNCHANGED <<peerVars, wire, reg, loop_done, handler, nested, parseVars, fault>>

\* setup_sock fails: the descriptor stays open without a client and the loop ends
AcceptFails(f) ==
  /\ pc = "accept" /\ MayStop /\ accepted < AcceptBatch /\ sock[f] = "pending"
  /\ sock' = [sock EXCEPT ![f] = "open"]
  /\ loop_done' = FALSE
  /\ pc' = "loop"
  /\ UNCHANGED <<peerVars, histVars, memVars, reg, stack, nested, parseVars, fault>>

AcceptDone ==
  /\ pc = "accept"
  /\ accepted = AcceptBatch \/ \A f \in Fds : sock[f] # "pending"
  /\ pc' = "loop"
  /\ UNCHANGED <<sock, peerVars, histVars, memVars, reg, loop_done, stack, nested, parseVars,
                 fault>>

\* read_request returned 0: picoev_add, whose failure nobody looks at
Register ==
  /\ pc = "register"
  /\ reg' = IF cur \in Pollable
            THEN [reg EXCEPT ![cur] = Watch("read", me)]
            ELSE reg
  /\ pc' = "accept"
  /\ UNCHANGED <<sock, peerVars, histVars, memVars, loop_done, stack, nested, parseVars, fault>>

\* The frame of process_rack_app is left on every return.
FaultyReturn ==
  /\ pc = "return"
  /\ pc' = (IF handler = "accept" THEN "accept" ELSE "loop")
  /\ nested' = nested - 1
  /\ UNCHANGED <<sock, peerVars, histVars, memVars, reg, loop_done, stack, parseVars, fault>>

\* A callback, or a nested close_client, returns to its caller.
Return ==
  /\ pc = "return"
  /\ IF nested > 0
     THEN pc' = "start" /\ nested' = nested - 1
     ELSE pc' = (IF handler = "accept" THEN "accept" ELSE "loop") /\ UNCHANGED nested
  /\ UNCHANGED <<sock, peerVars, histVars, memVars, reg, loop_done, stack, parseVars, fault>>

-----------------------------------------------------------------------------
(* Reading and parsing: read_request, parse_http_request and the           *)
(* http_parser callbacks.  c below is the client after the call so far.    *)

Client(c) == cli' = [cli EXCEPT ![cur] = c]

\* set_read_error: a pipelined connection has its last request marked bad and
\* is served; otherwise the error page goes out and the connection closes.
SetReadError(f, c, code) ==
  LET status == IF code = 0 THEN 400 ELSE code
  IN IF c.queue # <<>>
     THEN /\ reqs' = [reqs EXCEPT ![f][Last(c.queue)].bad = status]
          /\ cli' = [cli EXCEPT ![f] = [c EXCEPT !.keep_alive = FALSE]]
          /\ pc' = "finish"
     ELSE /\ cli' = [cli EXCEPT ![f] = [c EXCEPT !.keep_alive = FALSE, !.status = status]]
          /\ pc' = "page"
          /\ UNCHANGED reqs

\* handle_timeout_internal fires the timer of a descriptor: r_callback with
\* PICOEV_TIMEOUT is read_timeout, w_callback gives up the response.
Timeout(f) ==
  /\ pc = "loop" /\ reg[f].armed
  /\ reg' = [reg EXCEPT ![f].armed = FALSE]
  /\ cur' = f
  /\ me' = reg[f].arg
  /\ handler' = reg[f].ev
  /\ \/ /\ reg[f].ev = "read"
        /\ SetReadError(f, cli[f], 408)
     \/ /\ reg[f].ev = "write"
        /\ cli' = [cli EXCEPT ![f].keep_alive = FALSE]
        /\ pc' = "close"
        /\ UNCHANGED reqs
  /\ UNCHANGED <<sock, peerVars, wire, calls, mem, gens, loop_done, accepted, nested,
                 parseVars, fault>>

\* picoev_set_timeout of read_request; on accept it is the listener's timer
Rearm ==
  reg' = IF handler = "read" /\ ~cli[cur].keep_alive
         THEN [reg EXCEPT ![cur].armed = TRUE] ELSE reg

ReadRequest ==
  /\ pc = "read"
  /\ Rearm
  /\ LET c == cli[cur] IN
     \/ \E n \in 1..Len(inbox[cur]) :
          /\ buf' = SubSeq(inbox[cur], 1, n)
          /\ inbox' = [inbox EXCEPT ![cur] = SubSeq(@, n + 1, Len(@))]
          /\ bad' = FALSE
          /\ pc' = "parse"
          /\ UNCHANGED <<cli, reqs>>
     \/ /\ inbox[cur] = <<>> /\ peer[cur] # "up"
        /\ SetReadError(cur, c, 503)
        /\ UNCHANGED <<inbox, parseVars>>
     \/ /\ inbox[cur] = <<>> /\ peer[cur] = "reset"
        /\ SetReadError(cur, [c EXCEPT !.header_done = TRUE, !.response_closed = TRUE], 500)
        /\ UNCHANGED <<inbox, parseVars>>
     \/ /\ inbox[cur] = <<>> /\ peer[cur] = "up"
        /\ pc' = IF handler = "accept" THEN "register" ELSE "return"
        /\ UNCHANGED <<inbox, cli, reqs, parseVars>>
  /\ UNCHANGED <<sock, peer, script, window, conns, wire, calls, mem, gens, loop_done, stack,
                 nested, fault>>

\* A step of http_parser_execute that ends in a callback.  Every one consumes
\* a piece of the buffer; a failing one stops the parser.
Parsing(kind) == pc = "parse" /\ ~bad /\ buf # <<>> /\ Head(buf).t = kind
ParserUnchanged ==
  UNCHANGED <<sock, peerVars, wire, calls, mem, gens, reg, loop_done, pc, stack, nested, fault>>

\* NEW_MESSAGE() under HTTP_PARSER_STRICT
NewMessage(c) == IF c.keep_alive THEN "start" ELSE "dead"

\* message_complete_cb, after which the parser waits for the next message
FaultyMessageDone(c) == [c EXCEPT !.parser = NewMessage(c)]
MessageDone(c) == [c EXCEPT !.parser = NewMessage(c), !.complete = TRUE]

\* message_begin_cb: push_request makes the new request the tail of the queue
MessageBegin ==
  LET c == cli[cur]
      id == Len(reqs[cur]) + 1
  IN /\ Parsing("begin") /\ c.parser = "start"
     /\ reqs' = [reqs EXCEPT ![cur] = Append(@, NewReq)]
     /\ Client([c EXCEPT !.current = id, !.complete = FALSE, !.parser = "head",
                         !.queue = Append(@, id)])
     /\ buf' = Tail(buf)
     /\ UNCHANGED bad
     /\ ParserUnchanged

\* The header callbacks and headers_complete_cb, then message_complete_cb when
\* no body follows.
HeadersComplete ==
  LET h == Head(buf).h
      c == [cli[cur] EXCEPT !.keep_alive = h.ka, !.minor = h.minor]
      Request(code, whole) ==
        reqs' = [reqs EXCEPT ![cur][c.current] =
                   [@ EXCEPT !.expect = h.expect, !.bodyCode = h.bodyCode, !.bad = code,
                             !.whole = whole]]
  IN /\ Parsing("head") /\ c.parser = "head"
     /\ \/ /\ h.code # 0
           /\ Request(h.code, FALSE)
           /\ Client(c)
           /\ bad' = TRUE
           /\ UNCHANGED buf
        \/ /\ h.code = 0 /\ h.body
           /\ Request(0, FALSE)
           /\ Client([c EXCEPT !.parser = "body"])
           /\ buf' = Tail(buf)
           /\ UNCHANGED bad
        \/ /\ h.code = 0 /\ ~h.body
           /\ Request(0, TRUE)
           /\ Client(MessageDone(c))
           /\ buf' = Tail(buf)
           /\ UNCHANGED bad
     /\ ParserUnchanged

\* body_cb with the last piece of the body, then message_complete_cb
BodyComplete ==
  LET c == cli[cur]
      code == reqs[cur][c.current].bodyCode
  IN /\ Parsing("body") /\ c.parser = "body"
     /\ \/ /\ code # 0
           /\ reqs' = [reqs EXCEPT ![cur][c.current].bad = code]
           /\ bad' = TRUE
           /\ UNCHANGED <<cli, buf>>
        \/ /\ code = 0
           /\ reqs' = [reqs EXCEPT ![cur][c.current].whole = TRUE]
           /\ Client(MessageDone(c))
           /\ buf' = Tail(buf)
           /\ UNCHANGED bad
     /\ ParserUnchanged

\* An empty line between requests is skipped.
ParseBlank ==
  /\ Parsing("blank") /\ cli[cur].parser \in {"start", "dead"}
  /\ buf' = Tail(buf)
  /\ UNCHANGED <<cli, reqs, bad>>
  /\ ParserUnchanged

\* Bytes that are no HTTP, and any byte after a request that closes the
\* connection (s_dead), put the parser in its error state.
ParseError ==
  /\ pc = "parse" /\ ~bad /\ buf # <<>>
  /\ Head(buf).t = "junk" \/ (Head(buf).t # "blank" /\ cli[cur].parser = "dead")
  /\ bad' = TRUE
  /\ UNCHANGED <<cli, reqs, buf>>
  /\ ParserUnchanged

\* parse_http_request after http_parser_execute.  A buffer of empty lines
\* leaves current_req NULL, which the test of bad_request_code dereferences.
ParseDone ==
  /\ pc = "parse" /\ (bad \/ buf = <<>>)
  /\ LET c == cli[cur]
         code == IF c.current = 0 THEN 400 ELSE reqs[cur][c.current].bad
     IN \/ /\ bad
           /\ SetReadError(cur, c, code)
        \/ /\ ~bad /\ c.current # 0
           /\ pc' = IF c.complete THEN "finish"
                    ELSE IF handler = "accept" THEN "register" ELSE "return"
           /\ UNCHANGED <<cli, reqs>>
  /\ buf' = <<>>
  /\ bad' = FALSE
  /\ UNCHANGED <<sock, peerVars, wire, calls, mem, gens, reg, loop_done, stack, nested, fault>>

ParseNull ==
  /\ pc = "parse" /\ ~bad /\ buf = <<>> /\ cli[cur].current = 0
  /\ Crash("null_deref")

-----------------------------------------------------------------------------
(* Serving the queue: the end of r_callback and accept_callback,           *)
(* check_status_code, prepare_call_rack, call_rack_app.                    *)

Tell(record) == wire' = [wire EXCEPT ![cur] = Append(@, record)]
\* Small writes (an error page, "100 Continue") fit unless earlier answers
\* filled the send buffer.
SmallRoom == window[cur] \/ wire[cur] = <<>>
Page(status) == IF status \in {400, 408, 411, 413, 417, 503} THEN status ELSE 500
Record(kind, status) ==
  [id |-> cli[cur].current, kind |-> kind, status |-> status, head |-> TRUE, items |-> 0,
   last |-> 0, want |-> 0, chunked |-> FALSE, framed |-> TRUE, zero |-> FALSE]

\* shift_request
FaultyShifted(c) == [c EXCEPT !.current = Head(c.queue)]
LifoShifted(c) == [c EXCEPT !.current = Last(c.queue), !.queue = Front(@)]
Shifted(c) == [c EXCEPT !.current = Head(c.queue), !.queue = Tail(@)]

\* check_status_code is left out.
FaultyFinish ==
  /\ pc = "finish"
  /\ reg' = IF handler = "accept" THEN reg ELSE Unregistered
  /\ pc' = "prepare"
  /\ UNCHANGED <<sock, peerVars, histVars, memVars, loop_done, stack, nested, parseVars, fault>>

\* finish == 1: r_callback unregisters the descriptor (accept_callback never
\* registered it), then check_status_code answers a bad first request.
Finish ==
  /\ pc = "finish"
  /\ reg' = IF handler = "accept" THEN reg ELSE Unregistered
  /\ LET c == cli[cur]
         id == Head(c.queue)
     IN \/ /\ reqs[cur][id].bad > 200
           /\ Client([Shifted(c) EXCEPT !.status = reqs[cur][id].bad])
           /\ pc' = "page"
        \/ /\ reqs[cur][id].bad <= 200
           /\ pc' = "prepare"
           /\ UNCHANGED cli
  /\ UNCHANGED <<sock, peerVars, histVars, mem, gens, loop_done, stack, nested, parseVars,
                 fault>>

\* prepare_call_rack: set_current_request, check_http_expect with the version
\* of the request parsed last, and no keep-alive unless it is configured.
PrepareCallRack ==
  /\ pc = "prepare"
  /\ LET c == Shifted(cli[cur])
         expect == IF c.minor = 1 THEN reqs[cur][c.current].expect ELSE "none"
         Refuse(status) == /\ Client([c EXCEPT !.keep_alive = FALSE, !.status = status])
                           /\ pc' = "page"
         Proceed == /\ Client([c EXCEPT !.keep_alive = @ /\ IsKeepAlive])
                    /\ pc' = "app"
     IN \/ expect = "none" /\ Proceed /\ UNCHANGED wire
        \/ expect = "other" /\ Refuse(417) /\ UNCHANGED wire
        \/ /\ expect = "continue" /\ SmallRoom /\ peer[cur] # "reset"
           /\ Proceed
           /\ Tell([Record("cont", 100) EXCEPT !.id = c.current])
        \/ /\ expect = "continue" /\ (~SmallRoom \/ peer[cur] = "reset")
           /\ Refuse(500)
           /\ UNCHANGED wire
  /\ UNCHANGED <<sock, peerVars, calls, reqs, mem, gens, reg, loop_done, stack, nested,
                 parseVars, fault>>

\* process_rack_app: the call of the application and the checks of its answer.
\* A client whose response_closed is set is closed here, and 1 is returned.
ProcessRackApp ==
  /\ pc = "app"
  /\ calls' = [calls EXCEPT ![cur] = Append(@, cli[cur].current)]
  /\ \E a \in Apps :
       LET c == [cli[cur] EXCEPT !.status = a.status, !.response = a, !.iter = a.body] IN
       \/ /\ a.kind = "raise"
          /\ pc' = "raised"
          /\ UNCHANGED <<cli, reqs, nested>>
       \/ /\ a.kind = "malformed"
          /\ reqs' = [reqs EXCEPT ![cur][cli[cur].current].bad = 500]
          /\ pc' = "page"
          /\ UNCHANGED <<cli, nested>>
       \/ /\ a.kind \in {"answer", "badheader"}
          /\ Client(c)
          /\ IF c.response_closed
             THEN pc' = "close" /\ nested' = nested + 1
             ELSE pc' = "start" /\ UNCHANGED nested
          /\ UNCHANGED reqs
  /\ UNCHANGED <<sock, peerVars, wire, mem, gens, reg, loop_done, stack, parseVars, fault>>

\* send_error_page: nothing once a header went out or the peer is gone;
\* blocking_write retries on a full socket, so the action waits for room.
SendErrorPage ==
  /\ pc = "page"
  /\ LET c == cli[cur]
         closed == [c EXCEPT !.keep_alive = FALSE, !.header_done = TRUE,
                             !.response_closed = TRUE]
     IN \/ /\ c.header_done \/ c.response_closed
           /\ UNCHANGED <<cli, wire>>
        \/ /\ ~(c.header_done \/ c.response_closed) /\ peer[cur] = "reset"
           /\ Client([closed EXCEPT !.status = 500])
           /\ UNCHANGED wire
        \/ /\ ~(c.header_done \/ c.response_closed) /\ peer[cur] # "reset" /\ SmallRoom
           /\ Client(closed)
           /\ Tell(Record("page", Page(c.status)))
  /\ pc' = "close"
  /\ UNCHANGED <<sock, peerVars, calls, reqs, mem, gens, reg, loop_done, stack, nested,
                 parseVars, fault>>

-----------------------------------------------------------------------------
(* Writing the response: response_start, write_headers, processs_write,    *)
(* process_body.  writev_bucket sends all of a bucket, or stops at a full  *)
(* send buffer, or fails on a connection the peer reset.                   *)

CanWrite == window[cur] /\ peer[cur] # "reset"
Full     == ~window[cur] /\ peer[cur] # "reset"
Gone     == peer[cur] = "reset"

Ends(c, len) == IF c.chunked /\ len = 0 THEN 1 ELSE 0   \* an empty chunk is a last chunk
Bucket(c, head, len) == [held |-> TRUE, head |-> head, len |-> len, ends |-> Ends(c, len)]
\* LastCap: two last chunks already say there is one too many
LastCap == 2
AddLast(n, m) == IF n + m > LastCap THEN LastCap ELSE n + m
Extend(r, b) == [r EXCEPT !.head = TRUE, !.items = @ + b.len, !.last = AddLast(@, b.ends)]
Sent(b) == wire' = [wire EXCEPT ![cur][Len(wire[cur])] = Extend(@, b)]

\* call_rack_app on STATUS_ERROR
InternalError(c) == Client([c EXCEPT !.status = 500]) /\ pc' = "page"

ResponseUnchanged ==
  UNCHANGED <<sock, peerVars, calls, reqs, mem, gens, reg, loop_done, stack, nested,
              parseVars, fault>>

\* response_start up to the end of write_headers: the status line, the headers
\* and the first piece of the body leave in one bucket.
WriteHeaders ==
  /\ pc = "start" /\ mem[cur] = me
  /\ LET a == cli[cur].response
         empty == a.status = 304                    \* data is NULL
         first == IF empty THEN 0 ELSE IF a.array THEN a.total ELSE Head(a.body)
         c == [cli[cur] EXCEPT
                 !.iter = IF empty THEN @ ELSE IF a.array THEN <<>> ELSE Tail(a.body),
                 !.clset = a.clset, !.cl = IF a.clset THEN a.cl ELSE 0,
                 !.chunked = ~empty /\ ~a.clset /\ cli[cur].minor = 1]
         b == [Bucket(c, TRUE, first) EXCEPT !.ends = IF empty THEN 0 ELSE @]
         record == [Record("app", a.status) EXCEPT
                      !.head = FALSE, !.want = IF empty THEN 0 ELSE a.total,
                      !.chunked = c.chunked, !.framed = empty \/ c.chunked \/ c.clset,
                      !.zero = c.chunked /\ IF a.array THEN a.total = 0
                                            ELSE \E i \in DOMAIN a.body : a.body[i] = 0]
     IN \/ /\ a.kind = "badheader"
           /\ InternalError(cli[cur])
           /\ UNCHANGED wire
        \/ /\ a.kind = "answer" /\ (empty \/ a.array \/ a.body # <<>>)
           /\ \/ /\ CanWrite
                 /\ Client([c EXCEPT !.header_done = TRUE, !.write_bytes = first,
                                     !.bucket = NoBucket])
                 /\ Tell(Extend(record, b))
                 /\ pc' = IF empty THEN "close" ELSE "body"
              \/ /\ Full
                 /\ Client([c EXCEPT !.bucket = b])
                 /\ Tell(record)
                 /\ pc' = "suspend"
              \/ /\ Gone
                 /\ InternalError([c EXCEPT !.header_done = TRUE, !.bucket = NoBucket])
                 /\ UNCHANGED wire
  /\ ResponseUnchanged

\* An iterator without items yields Qundef, which passes the test of item.
EmptyIterator ==
  /\ pc = "start" /\ mem[cur] = me
  /\ LET a == cli[cur].response
     IN a.kind = "answer" /\ a.status # 304 /\ ~a.array /\ a.body = <<>>
  /\ Crash("undef_value")

\* call_rack_app goes on with the client process_rack_app has closed.
ClosedClient ==
  /\ pc = "start" /\ mem[cur] # me
  /\ Crash("use_after_free")

\* processs_write runs for call_rack_app ("body") and for w_callback ("wbody"):
\* the first closes the client when it is done, the second just returns.
BodyDone(c) == /\ Client([c EXCEPT !.response_closed = TRUE])
               /\ pc' = IF pc = "body" THEN "close" ELSE "return"

\* One turn of processs_write's loop.
WriteItem ==
  /\ pc \in {"body", "wbody"}
  /\ ~cli[cur].response.array /\ cli[cur].iter # <<>>
  /\ LET len == Head(cli[cur].iter)
         c == [cli[cur] EXCEPT !.iter = Tail(@)]
         b == Bucket(c, FALSE, len)
         sent == c.write_bytes + len
     IN \/ /\ CanWrite
           /\ Sent(b)
           /\ IF c.clset /\ c.cl <= sent
              THEN BodyDone([c EXCEPT !.write_bytes = sent])
              ELSE Client([c EXCEPT !.write_bytes = sent]) /\ UNCHANGED pc
        \/ /\ Full
           /\ Client([c EXCEPT !.bucket = b])
           /\ pc' = IF pc = "body" THEN "suspend" ELSE "close"
           /\ UNCHANGED wire
        \/ /\ Gone
           /\ Client([c EXCEPT !.bucket = b, !.status = IF pc = "body" THEN 500 ELSE @])
           /\ pc' = IF pc = "body" THEN "page" ELSE "close"
           /\ UNCHANGED wire
  /\ ResponseUnchanged

\* set_last_chunked_data
FaultyLastPacket == NoBucket
LastPacket == [NoBucket EXCEPT !.ends = 1]

\* No item left: the last chunk is written once and its result dropped, then
\* close_response.
FinishBody ==
  /\ pc \in {"body", "wbody"}
  /\ cli[cur].response.array \/ cli[cur].iter = <<>>
  /\ IF cli[cur].chunked /\ CanWrite
     THEN Sent(LastPacket)
     ELSE UNCHANGED wire
  /\ BodyDone(cli[cur])
  /\ ResponseUnchanged

\* call_rack_app on STATUS_SUSPEND: picoev_del, whose assertion wants a
\* registered descriptor (r_callback has unregistered it), and picoev_add.
SuspendWrite ==
  /\ pc = "suspend" /\ cur \in Pollable /\ (~Asserts \/ reg[cur].ev # "none")
  /\ reg' = [reg EXCEPT ![cur] = Watch("write", me)]
  /\ pc' = "return"
  /\ UNCHANGED <<sock, peerVars, histVars, memVars, loop_done, stack, nested, parseVars, fault>>

SuspendAborts ==
  /\ pc = "suspend"
  /\ \/ Asserts /\ reg[cur].ev = "none" /\ Crash("assert")
     \/ ~Asserts /\ cur \notin Pollable /\ Crash("out_of_bounds")

\* w_callback: process_body retries the suspended bucket.  Only a status other
\* than STATUS_OK closes the client.
RetryBucket ==
  /\ pc = "retry"
  /\ LET c == cli[cur]
         b == c.bucket
         total == b.len + (IF b.head THEN HeadLen ELSE 0)
     IN \/ /\ ~b.held
           /\ pc' = "wbody"
           /\ UNCHANGED <<cli, wire>>
        \/ /\ b.held /\ CanWrite
           /\ Sent(b)
           /\ Client([c EXCEPT !.write_bytes = @ + total, !.bucket = NoBucket])
           /\ pc' = "wbody"
        \/ /\ b.held /\ ~CanWrite
           /\ Client(IF Gone THEN [c EXCEPT !.bucket = NoBucket] ELSE c)
           /\ pc' = "close"
           /\ UNCHANGED wire
  /\ ResponseUnchanged

-----------------------------------------------------------------------------
(* close_client: unregister, clean_client, then the next pipelined request  *)
(* or the end of the connection, or a fresh client_t for a kept one.       *)

\* clean_client logs the request, if there is one; picoev_is_active asserts
\* that the descriptor is in range.
FaultyCloseFaults(f) == f = "assert" /\ Asserts /\ reg[cur].ev = "none"
CloseFaults(f) == \/ f = "null_deref" /\ cur \in Pollable /\ AccessLog /\ cli[cur].current = 0
                  \/ f = "assert" /\ Asserts /\ cur \notin Pollable
                  \/ f = "out_of_bounds" /\ ~Asserts /\ cur \notin Pollable

FaultyCleaned(c) == [c EXCEPT !.current = 0, !.header_done = FALSE, !.chunked = FALSE,
                              !.clset = FALSE, !.cl = 0, !.write_bytes = 0]
Cleaned(c) == [c EXCEPT !.current = 0, !.header_done = FALSE, !.response_closed = FALSE,
                        !.chunked = FALSE, !.clset = FALSE, !.cl = 0, !.write_bytes = 0]

CloseAborts == pc = "close" /\ \E f \in Faults : CloseFaults(f) /\ Crash(f)

Closing == pc = "close" /\ \A f \in Faults : ~CloseFaults(f)

\* request_queue->size > 0
FaultyMoreQueued == cli[cur].queue # <<>> /\ ~cli[cur].keep_alive
MoreQueued == cli[cur].queue # <<>>

\* The check of the next request's bad_request_code is commented out.
CloseToNext ==
  /\ Closing /\ MoreQueued
  /\ reg' = Unregistered
  /\ Client(Cleaned(cli[cur]))
  /\ pc' = "prepare"
  /\ UNCHANGED <<sock, peerVars, histVars, mem, gens, loop_done, stack, nested, parseVars,
                 fault>>

CloseConnection ==
  /\ Closing /\ ~MoreQueued /\ ~cli[cur].keep_alive
  /\ reg' = Unregistered
  /\ sock' = [sock EXCEPT ![cur] = "closed"]
  /\ inbox' = [inbox EXCEPT ![cur] = <<>>]
  /\ mem' = [mem EXCEPT ![cur] = 0]
  /\ Client(NewClient(FALSE))
  /\ pc' = "return"
  /\ UNCHANGED <<peer, script, window, conns, histVars, gens, loop_done, stack, nested,
                 parseVars, fault>>

\* The new client_t is registered with keep_alive_timeout, the old one freed.
KeepConnection ==
  /\ Closing /\ ~MoreQueued /\ cli[cur].keep_alive
  /\ gens' = [gens EXCEPT ![cur] = @ + 1]
  /\ mem' = [mem EXCEPT ![cur] = gens[cur] + 1]
  /\ Client(NewClient(TRUE))
  /\ reg' = [reg EXCEPT ![cur] = Watch("read", gens[cur] + 1)]
  /\ pc' = "return"
  /\ UNCHANGED <<sock, peerVars, histVars, loop_done, stack, nested, parseVars, fault>>

-----------------------------------------------------------------------------
Peer(f) == /\ Running
           /\ \/ PeerConnect(f) \/ PeerSend(f) \/ PeerEof(f) \/ PeerReset(f)
              \/ PeerStall(f) \/ PeerDrain(f)
Event(f) == ReadEvent(f) \/ WriteEvent(f) \/ Timeout(f)
Accepting == AcceptDone \/ Register \/ \E f \in Fds : Accept(f) \/ AcceptFails(f)
Parse == MessageBegin \/ HeadersComplete \/ BodyComplete \/ ParseBlank \/ ParseError
         \/ ParseDone \/ ParseNull
Serve == Finish \/ PrepareCallRack \/ ProcessRackApp \/ SendErrorPage
Respond == WriteHeaders \/ EmptyIterator \/ ClosedClient \/ WriteItem \/ FinishBody
           \/ SuspendWrite \/ SuspendAborts \/ RetryBucket
Close == CloseAborts \/ CloseToNext \/ CloseConnection \/ KeepConnection

\* The thread inside a callback
Callback == Accepting \/ ReadRequest \/ Parse \/ Serve \/ Respond \/ Close \/ Return

Next == \/ \E f \in Fds : Peer(f) \/ Event(f)
        \/ AcceptEvent \/ Callback \/ LoopExit \/ Stop

Spec == Init /\ [][Next]_vars

\* The thread never rests inside a callback, and each turn of picoev_loop_once
\* polls every descriptor and sweeps the timers, so no ready event and no
\* expired timer is passed over for ever.  blocking_write tries again at once,
\* and a send buffer that was drained fills up by the server's writes only.
Fairness ==
  /\ WF_vars(Callback)
  /\ SF_vars(SendErrorPage)
  /\ SF_vars(AcceptEvent)
  /\ \A f \in Fds : SF_vars(ReadEvent(f)) /\ SF_vars(WriteEvent(f)) /\ SF_vars(Timeout(f))

FairSpec == Spec /\ Fairness
=============================================================================
