--------------------------- MODULE BossanProofs ---------------------------
(***************************************************************************)
(* The theorems about the server core, for every number of descriptors,    *)
(* every header, answer and peer behaviour, in four parts, each of which   *)
(* rests on the one before: the pointers (WatchInv), the types (IInv), the *)
(* order of service (ServeInv) and the causes of faults (FaultInv).  Two   *)
(* more parts are in BossanEpollProofs.                                    *)
(***************************************************************************)
EXTENDS BossanProperties, TLAPS

USE DEF vars, peerVars, histVars, memVars, parseVars, stack, Places, Faults, Watch,
        Unregistered, MessageDone, Shifted, LastPacket, MoreQueued

-----------------------------------------------------------------------------
(* 1. WatchInv, the invariant about clients and picoev's table, is         *)
(* inductive; NoDanglingCallback and NoLostConnection follow from it.      *)

\* What WatchInv is about, apart from pc and nested, stays as it is.
Quiet == UNCHANGED <<sock, mem, gens, reg, loop_done, cur, me, handler, accepted>>
\* Places of a callback that has left the reading of a request behind.
Serving == {"app", "start", "body", "suspend", "page", "close"}

-----------------------------------------------------------------------------
(* Steps that leave the clients and picoev alone.                          *)

LEMMA SameWatch ==
  ASSUME WatchInv, Quiet, UNCHANGED <<nested, pc>> PROVE WatchInv'
BY DEF WatchInv, AllocTypes, ControlTypes, Quiet, AllocOK, StackOK, WatchOK, Running, Nested,
       Working

LEMMA EndWatch ==
  ASSUME WatchInv, Quiet, UNCHANGED nested, pc' \in {"stopped", "raised", "crashed"}
  PROVE  WatchInv'
BY DEF WatchInv, AllocTypes, ControlTypes, Quiet, AllocOK, StackOK, WatchOK, Running, Nested,
       Working

LEMMA ServeWatch ==
  ASSUME WatchInv, Quiet, nested' \in Nat, pc \in Working \cup {"start"}, mem[cur] = me,
         pc' \in Serving
  PROVE  WatchInv'
BY DEF WatchInv, AllocTypes, ControlTypes, Quiet, AllocOK, StackOK, WatchOK, Running, Nested,
       Working, Serving

LEMMA RewriteWatch ==
  ASSUME WatchInv, Quiet, UNCHANGED nested, pc \in {"retry", "wbody"},
         pc' \in {"wbody", "return", "close"}
  PROVE  WatchInv'
BY DEF WatchInv, AllocTypes, ControlTypes, Quiet, AllocOK, StackOK, WatchOK, Running, Nested,
       Working

-----------------------------------------------------------------------------
(* Peers, the stop flag and the event loop.                                *)

LEMMA PeerWatch ==
  ASSUME WatchInv, NEW f \in Fds, Peer(f) PROVE WatchInv'
<1>1. CASE PeerConnect(f)
  BY <1>1 DEF WatchInv, AllocTypes, ControlTypes, AllocOK, StackOK, WatchOK, Running, Nested,
              Working, PeerConnect
<1>2. CASE PeerSend(f)
  <2>1. Quiet /\ UNCHANGED <<nested, pc>>
    BY <1>2 DEF PeerSend, Quiet
  <2> QED
    BY <2>1, SameWatch
<1>3. CASE PeerEof(f) \/ PeerReset(f) \/ PeerStall(f) \/ PeerDrain(f)
  <2>1. Quiet /\ UNCHANGED <<nested, pc>>
    BY <1>3 DEF PeerEof, PeerReset, PeerStall, PeerDrain, Quiet
  <2> QED
    BY <2>1, SameWatch
<1> QED
  BY <1>1, <1>2, <1>3 DEF Peer

LEMMA StopWatch ==
  ASSUME WatchInv, Stop PROVE WatchInv'
BY ZenonT(30) DEF WatchInv, AllocTypes, ControlTypes, AllocOK, StackOK, WatchOK, Running, Nested,
                Working, Stop

LEMMA LoopExitWatch ==
  ASSUME WatchInv, LoopExit PROVE WatchInv'
BY EndWatch DEF LoopExit, Quiet

LEMMA EventWatch ==
  ASSUME WatchInv, NEW f \in Fds, ReadEvent(f) \/ WriteEvent(f) PROVE WatchInv'
<1> USE DEF WatchInv, AllocTypes, ControlTypes, ReadEvent, WriteEvent, Dispatch
<1>1. AllocTypes' /\ ControlTypes'
  BY DEF RegType
<1>2. AllocOK'
  BY DEF RegType, AllocOK, Running, Working
<1>3. StackOK'
  BY DEF RegType, AllocOK, StackOK, Running, Working
<1>4. WatchOK'
  BY DEF RegType, WatchOK, Running, Nested, Working
<1> QED
  BY <1>1, <1>2, <1>3, <1>4

LEMMA TimeoutWatch ==
  ASSUME WatchInv, NEW f \in Fds, Timeout(f) PROVE WatchInv'
<1> USE DEF WatchInv, AllocTypes, ControlTypes
<1>1. pc = "loop" /\ reg[f].armed /\ pc' \in {"finish", "page", "close"}
  BY DEF Timeout, SetReadError
<1>2. /\ UNCHANGED <<sock, mem, gens, loop_done, nested, accepted>>
      /\ reg' = [reg EXCEPT ![f].armed = FALSE]
      /\ cur' = f /\ me' = reg[f].arg /\ handler' = reg[f].ev
  BY DEF Timeout
<1>3. reg[f].ev \in {"read", "write"}
  BY <1>1 DEF AllocOK, RegType
<1>4. AllocTypes' /\ ControlTypes'
  BY <1>1, <1>2, <1>3 DEF RegType
<1>5. AllocOK'
  BY <1>1, <1>2 DEF RegType, AllocOK, Running, Working
<1>6. StackOK'
  BY <1>1, <1>2, <1>3 DEF RegType, AllocOK, StackOK, Working
<1>7. WatchOK'
  BY <1>1, <1>2 DEF RegType, WatchOK, Running, Nested, Working
<1> QED
  BY <1>4, <1>5, <1>6, <1>7

-----------------------------------------------------------------------------
(* accept_callback and the returns of the callbacks.                       *)

LEMMA AcceptWatch ==
  ASSUME WatchInv, NEW f \in Fds, Accept(f) PROVE WatchInv'
<1> USE DEF WatchInv, AllocTypes, ControlTypes, Accept
<1>1. AllocTypes' /\ ControlTypes'
  BY DEF RegType
<1>2. AllocOK'
  BY DEF RegType, AllocOK, Running, Working
<1>3. StackOK'
  BY DEF RegType, AllocOK, StackOK, Working
<1>4. WatchOK'
  BY DEF RegType, WatchOK, Running, Nested, Working
<1> QED
  BY <1>1, <1>2, <1>3, <1>4

LEMMA AcceptLoopWatch ==
  ASSUME WatchInv,
         AcceptEvent \/ AcceptDone \/ Register \/ Return \/ (\E f \in Fds : AcceptFails(f))
  PROVE  WatchInv'
<1> USE DEF WatchInv, AllocTypes, ControlTypes, AllocOK, StackOK, WatchOK, Running, Nested,
            Working
<1>1. CASE AcceptEvent \/ AcceptDone
  BY <1>1 DEF AcceptEvent, AcceptDone
<1>2. CASE Register
  BY <1>2 DEF Register, RegType
<1>3. CASE Return
  BY <1>3 DEF Return
<1>4. ASSUME NEW f \in Fds, AcceptFails(f) PROVE WatchInv'
  <2>1. mem[f] = 0 /\ pc = "accept" /\ pc' = "loop"
    BY <1>4 DEF AcceptFails
  <2>2. /\ sock' = [sock EXCEPT ![f] = "open"] /\ loop_done' = FALSE
        /\ UNCHANGED <<mem, gens, reg, cur, me, handler, nested, accepted>>
    BY <1>4 DEF AcceptFails
  <2>3. AllocTypes' /\ ControlTypes' /\ AllocOK' /\ StackOK'
    BY <2>1, <2>2
  <2>4. WatchOK'
    BY <2>1, <2>2
  <2> QED
    BY <2>3, <2>4
<1> QED
  BY <1>1, <1>2, <1>3, <1>4

-----------------------------------------------------------------------------
(* Reading and parsing.                                                    *)

LEMMA ReadRequestWatch ==
  ASSUME WatchInv, ReadRequest PROVE WatchInv'
<1> USE DEF WatchInv, AllocTypes, ControlTypes
<1>1. /\ pc = "read"
      /\ pc' \in {"parse", "finish", "page", IF handler = "accept" THEN "register" ELSE "return"}
  BY DEF ReadRequest, SetReadError
<1>2. /\ UNCHANGED <<sock, mem, gens, loop_done, cur, me, handler, nested, accepted>>
      /\ reg' = reg \/ (handler = "read" /\ reg' = [reg EXCEPT ![cur].armed = TRUE])
  BY DEF ReadRequest, Rearm
<1>3. AllocTypes' /\ ControlTypes'
  <2>1. AllocTypes'
    BY ZenonT(30), <1>2 DEF RegType
  <2>2. ControlTypes'
    BY <1>1, <1>2
  <2> QED
    BY <2>1, <2>2
<1>4. AllocOK'
  BY <1>1, <1>2 DEF RegType, AllocOK, StackOK, Running, Working
<1>5. StackOK'
  BY <1>1, <1>2 DEF RegType, StackOK, Working
<1>6. WatchOK'
  <2>1. CASE reg' = reg
    BY <1>1, <1>2, <2>1 DEF StackOK, WatchOK, Running, Nested, Working
  <2>2. CASE handler = "read" /\ reg' = [reg EXCEPT ![cur].armed = TRUE]
    BY <1>1, <1>2, <2>2 DEF RegType, StackOK, WatchOK, Running, Nested, Working
  <2> QED
    BY <1>2, <2>1, <2>2
<1> QED
  BY <1>3, <1>4, <1>5, <1>6

LEMMA ParseWatch ==
  ASSUME WatchInv, Parse PROVE WatchInv'
<1>1. CASE MessageBegin \/ HeadersComplete \/ BodyComplete \/ ParseBlank \/ ParseError
  <2>1. Quiet /\ UNCHANGED <<nested, pc>>
    BY <1>1 DEF MessageBegin, HeadersComplete, BodyComplete, ParseBlank, ParseError,
                ParserUnchanged, Quiet
  <2> QED
    BY <2>1, SameWatch
<1>2. CASE ParseDone
  <2>1. /\ pc = "parse"
        /\ pc' \in {"finish", "page", IF handler = "accept" THEN "register" ELSE "return"}
    BY <1>2 DEF ParseDone, SetReadError
  <2>2. Quiet /\ UNCHANGED nested
    BY <1>2 DEF ParseDone, Quiet
  <2> QED
    BY <2>1, <2>2 DEF WatchInv, AllocTypes, ControlTypes, AllocOK, StackOK, WatchOK, Running,
                      Nested, Working, Quiet
<1>3. CASE ParseNull
  BY <1>3, EndWatch DEF ParseNull, Crash, Quiet
<1> QED
  BY <1>1, <1>2, <1>3 DEF Parse

-----------------------------------------------------------------------------
(* Serving and responding.                                                 *)

LEMMA ServeStepWatch ==
  ASSUME WatchInv, Serve PROVE WatchInv'
<1>1. CASE Finish
  <2>1. pc = "finish" /\ pc' \in {"page", "prepare"}
    BY <1>1 DEF Finish
  <2>2. /\ UNCHANGED <<sock, mem, gens, loop_done, cur, me, handler, nested, accepted>>
        /\ IF handler = "accept" THEN reg' = reg ELSE reg' = [reg EXCEPT ![cur] = NoReg]
    BY <1>1 DEF Finish
  <2>3. CASE handler = "accept"
    BY <2>1, <2>2, <2>3 DEF WatchInv, AllocTypes, ControlTypes, AllocOK, StackOK, WatchOK,
                            Running, Nested, Working
  <2>4. CASE reg' = [reg EXCEPT ![cur] = NoReg]
    <3> USE <2>1, <2>2, <2>4 DEF WatchInv, AllocTypes, ControlTypes, RegType, NoReg
    <3>1. AllocTypes' /\ ControlTypes'
      OBVIOUS
    <3>2. AllocOK'
      BY DEF AllocOK, Running, Working
    <3>3. StackOK' /\ WatchOK'
      BY DEF StackOK, WatchOK, Running, Nested, Working
    <3> QED
      BY <3>1, <3>2, <3>3
  <2> QED
    BY <2>2, <2>3, <2>4
<1>2. CASE PrepareCallRack \/ SendErrorPage
  <2>1. Quiet /\ UNCHANGED nested /\ pc \in {"prepare", "page"} /\ pc' \in Serving
    BY <1>2 DEF PrepareCallRack, SendErrorPage, Quiet, Serving
  <2>2. mem[cur] = me /\ nested' \in Nat
    BY <2>1 DEF WatchInv, ControlTypes, StackOK, Working
  <2> QED
    BY <2>1, <2>2, ServeWatch DEF Working
<1>3. CASE ProcessRackApp
  <2>1. Quiet /\ pc = "app" /\ pc' \in Serving \cup {"raised"}
    BY <1>3 DEF ProcessRackApp, Quiet, Serving
  <2>2. nested' \in {nested, nested + 1} /\ (pc' = "raised" => nested' = nested)
    BY <1>3 DEF ProcessRackApp
  <2>3. mem[cur] = me /\ nested' \in Nat
    BY <2>1, <2>2 DEF WatchInv, ControlTypes, StackOK, Working
  <2> QED
    BY <2>1, <2>2, <2>3, ServeWatch, EndWatch DEF Working
<1> QED
  BY <1>1, <1>2, <1>3 DEF Serve

LEMMA RespondWatch ==
  ASSUME WatchInv, Respond PROVE WatchInv'
<1>1. CASE WriteHeaders
  <2>1. Quiet /\ UNCHANGED nested
    BY <1>1 DEF WriteHeaders, ResponseUnchanged, Quiet
  <2>2. pc = "start" /\ mem[cur] = me
    BY <1>1 DEF WriteHeaders
  <2>3. pc' \in Serving
    BY <1>1 DEF WriteHeaders, InternalError, Serving
  <2> QED
    BY <2>1, <2>2, <2>3, ServeWatch DEF WatchInv, ControlTypes
<1>2. CASE EmptyIterator \/ ClosedClient \/ SuspendAborts
  <2>1. Quiet /\ UNCHANGED nested /\ pc' = "crashed"
    BY <1>2 DEF EmptyIterator, ClosedClient, SuspendAborts, Crash, Quiet
  <2> QED
    BY <2>1, EndWatch
<1>3. CASE WriteItem \/ FinishBody
  <2>1. Quiet /\ UNCHANGED nested
    BY <1>3 DEF WriteItem, FinishBody, ResponseUnchanged, Quiet
  <2>2. CASE pc = "body"
    <3>1. mem[cur] = me
      BY <2>2 DEF WatchInv, StackOK, Working
    <3>2. pc' \in Serving
      BY <1>3, <2>2 DEF WriteItem, FinishBody, BodyDone, Serving
    <3> QED
      BY <2>1, <2>2, <3>1, <3>2, ServeWatch DEF WatchInv, ControlTypes, Working
  <2>3. CASE pc = "wbody"
    <3>1. pc' \in {"wbody", "return", "close"}
      BY <1>3, <2>3 DEF WriteItem, FinishBody, BodyDone
    <3> QED
      BY <2>1, <2>3, <3>1, RewriteWatch
  <2> QED
    BY <1>3, <2>2, <2>3 DEF WriteItem, FinishBody
<1>4. CASE SuspendWrite
  BY <1>4 DEF SuspendWrite, WatchInv, AllocTypes, ControlTypes, RegType, AllocOK, StackOK,
              WatchOK, Running, Nested, Working
<1>5. CASE RetryBucket
  <2>1. Quiet /\ UNCHANGED nested /\ pc = "retry" /\ pc' \in {"wbody", "close"}
    BY <1>5 DEF RetryBucket, ResponseUnchanged, Quiet
  <2> QED
    BY <2>1, RewriteWatch
<1> QED
  BY <1>1, <1>2, <1>3, <1>4, <1>5 DEF Respond

-----------------------------------------------------------------------------
(* close_client.                                                           *)

LEMMA CloseWatch ==
  ASSUME WatchInv, Close PROVE WatchInv'
<1>1. CASE CloseAborts
  <2>1. Quiet /\ UNCHANGED nested /\ pc' = "crashed"
    BY <1>1 DEF CloseAborts, Crash, Quiet
  <2> QED
    BY <2>1, EndWatch
<1> USE ParamAssumption DEF WatchInv, AllocTypes, ControlTypes, RegType, NoReg
<1>2. CASE CloseToNext
  <2>1. AllocTypes' /\ ControlTypes'
    BY <1>2 DEF CloseToNext, Closing
  <2>2. AllocOK'
    BY <1>2 DEF CloseToNext, Closing, AllocOK, Running, Working
  <2>3. StackOK' /\ WatchOK'
    BY <1>2 DEF CloseToNext, Closing, StackOK, WatchOK, Running, Nested, Working
  <2> QED
    BY <2>1, <2>2, <2>3
<1>3. CASE CloseConnection
  <2>1. AllocTypes' /\ ControlTypes'
    BY <1>3 DEF CloseConnection, Closing
  <2>2. AllocOK'
    BY <1>3 DEF CloseConnection, Closing, AllocOK, Running, Working
  <2>3. StackOK' /\ WatchOK'
    BY <1>3 DEF CloseConnection, Closing, StackOK, WatchOK, Running, Nested, Working
  <2> QED
    BY <2>1, <2>2, <2>3
<1>4. CASE KeepConnection
  <2>1. cur \in Pollable
    BY <1>4 DEF KeepConnection, Closing, CloseFaults
  <2>2. mem[cur] = me /\ mem[cur] # 0
    BY <1>4 DEF KeepConnection, Closing, StackOK, Working
  <2>3. AllocTypes' /\ ControlTypes'
    BY <1>4 DEF KeepConnection, Closing
  <2>4. AllocOK'
    BY <1>4, <2>1, <2>2 DEF KeepConnection, Closing, AllocOK, Running, Working
  <2>5. StackOK' /\ WatchOK'
    BY <1>4 DEF KeepConnection, Closing, StackOK, WatchOK, Running, Nested, Working
  <2> QED
    BY <2>3, <2>4, <2>5
<1> QED
  BY <1>1, <1>2, <1>3, <1>4 DEF Close

-----------------------------------------------------------------------------
(* The theorems.                                                           *)

LEMMA InitWatch == ASSUME Init PROVE WatchInv
BY ParamAssumption
   DEF Init, WatchInv, AllocTypes, ControlTypes, RegType, NoReg, AllocOK, StackOK, WatchOK,
       Running, Nested, Working

LEMMA NextWatch == ASSUME WatchInv, [Next]_vars PROVE WatchInv'
<1>1. CASE UNCHANGED vars
  <2>1. Quiet /\ UNCHANGED <<nested, pc>>
    BY <1>1 DEF Quiet
  <2> QED
    BY <2>1, SameWatch
<1>2. CASE Next
  <2>1. ASSUME NEW f \in Fds, Peer(f) \/ Event(f) PROVE WatchInv'
    BY <2>1, PeerWatch, EventWatch, TimeoutWatch DEF Event
  <2>2. CASE Callback
    <3>1. CASE Accepting
      BY <3>1, AcceptWatch, AcceptLoopWatch DEF Accepting
    <3> QED
      BY <2>2, <3>1, AcceptLoopWatch, ReadRequestWatch, ParseWatch, ServeStepWatch,
         RespondWatch, CloseWatch DEF Callback
  <2> QED
    BY <1>2, <2>1, <2>2, AcceptLoopWatch, LoopExitWatch, StopWatch DEF Next
<1> QED
  BY <1>1, <1>2

\* picoev's table, the allocated clients and the stack of the thread agree in
\* every reachable state of bossan_ext.c's event loop.
THEOREM WatchInvariant == Spec => []WatchInv
BY InitWatch, NextWatch, PTL DEF Spec

\* No callback ever gets a client_t that close_client freed.
THEOREM NoDangling == Spec => []NoDanglingCallback
<1>1. WatchInv => NoDanglingCallback
  BY DEF WatchInv, AllocOK, NoDanglingCallback
<1> QED
  BY <1>1, WatchInvariant, PTL

\* Between two callbacks every open connection is watched with a timer running.
THEOREM NoLost == Spec => []NoLostConnection
<1>1. WatchInv => NoLostConnection
  BY DEF WatchInv, WatchOK, NoLostConnection, Running, Nested, Working
<1> QED
  BY <1>1, WatchInvariant, PTL

-----------------------------------------------------------------------------
(* 2. The types of the requests, the clients and the answers, and RefsOK:  *)
(* a request number held by a client_t is a request of its connection, and *)
(* a queue is never shifted when it is empty.  IInv is inductive.          *)

-----------------------------------------------------------------------------
(* Values.                                                                 *)

LEMMA SeqExcept ==
  ASSUME NEW S, NEW s \in Seq(S), NEW i, NEW v, i \in DOMAIN s => v \in S
  PROVE  [s EXCEPT ![i] = v] \in Seq(S) /\ Len([s EXCEPT ![i] = v]) = Len(s)
<1>1. s \in [1..Len(s) -> S] /\ Len(s) \in Nat
  OBVIOUS
<1>2. [s EXCEPT ![i] = v] \in [1..Len(s) -> S]
  BY <1>1
<1> QED
  BY <1>1, <1>2

LEMMA ClientFields ==
  ASSUME NEW c \in ClientType
  PROVE  /\ c.keep_alive \in BOOLEAN /\ c.complete \in BOOLEAN
         /\ c.parser \in {"start", "head", "body", "dead"} /\ c.minor \in {0, 1}
         /\ c.current \in Nat /\ c.queue \in Seq(Ids) /\ c.status \in Nat
         /\ c.header_done \in BOOLEAN /\ c.response_closed \in BOOLEAN
         /\ c.chunked \in BOOLEAN /\ c.clset \in BOOLEAN /\ c.cl \in Nat
         /\ c.write_bytes \in Nat /\ c.bucket \in BucketType /\ c.response \in AppType
         /\ c.iter \in Seq(Nat)
BY DEF ClientType

LEMMA NewClientType ==
  ASSUME NEW keep \in BOOLEAN
  PROVE  NewClient(keep) \in ClientType
BY DEF NewClient, ClientType, BucketType, NoBucket, NoResponse, AppType

LEMMA RecordType ==
  ASSUME cli \in [Fds -> ClientType], cur \in Fds, NEW kind \in {"app", "page", "cont"},
         NEW status \in Nat
  PROVE  Record(kind, status) \in AnswerType
BY ClientFields DEF Record, AnswerType

LEMMA BucketOK ==
  ASSUME NEW c, NEW head \in BOOLEAN, NEW len \in Nat
  PROVE  Bucket(c, head, len) \in BucketType
BY DEF Bucket, BucketType, Ends

LEMMA ExtendType ==
  ASSUME NEW r \in AnswerType, NEW b \in BucketType
  PROVE  Extend(r, b) \in AnswerType
<1>1. r.last \in Nat /\ r.items \in Nat /\ b.len \in Nat /\ b.ends \in Nat
  BY DEF AnswerType, BucketType
<1>2. AddLast(r.last, b.ends) \in Nat /\ r.items + b.len \in Nat
  BY <1>1 DEF AddLast, LastCap
<1> QED
  BY <1>2 DEF Extend, AnswerType

LEMMA TellType ==
  ASSUME wire \in [Fds -> Seq(AnswerType)], cur \in Fds, NEW r \in AnswerType, Tell(r)
  PROVE  wire' \in [Fds -> Seq(AnswerType)]
BY DEF Tell

LEMMA SentType ==
  ASSUME wire \in [Fds -> Seq(AnswerType)], cur \in Fds, NEW b \in BucketType, Sent(b)
  PROVE  wire' \in [Fds -> Seq(AnswerType)]
<1> DEFINE w == wire[cur]
           i == Len(w)
           v == Extend(w[i], b)
<1>1. w \in Seq(AnswerType)
  OBVIOUS
<1>2. i \in DOMAIN w => v \in AnswerType
  BY <1>1, ExtendType
<1>3. [w EXCEPT ![i] = v] \in Seq(AnswerType)
  BY <1>1, <1>2, SeqExcept
<1>4. wire' = [wire EXCEPT ![cur] = [w EXCEPT ![i] = v]]
  BY DEF Sent
<1> QED
  BY <1>3, <1>4

-----------------------------------------------------------------------------
(* Steps that leave the requests and the parser alone.                     *)

\* c is the client k after a step of the response.
Kept(c, k) == /\ c \in ClientType
              /\ c.current = k.current /\ c.queue = k.queue
              /\ c.complete = k.complete /\ c.parser = k.parser /\ c.minor = k.minor

LEMMA KeptStatus ==
  ASSUME NEW k, NEW c, Kept(c, k), NEW status \in Nat
  PROVE  Kept([c EXCEPT !.status = status], k)
BY DEF Kept, ClientType

LEMMA KeptBucket ==
  ASSUME NEW k, NEW c, Kept(c, k), NEW b \in BucketType, NEW n \in Nat
  PROVE  /\ Kept([c EXCEPT !.bucket = b], k)
         /\ Kept([c EXCEPT !.bucket = b, !.status = n], k)
         /\ Kept([c EXCEPT !.write_bytes = n, !.bucket = b], k)
         /\ Kept([c EXCEPT !.header_done = TRUE, !.bucket = b], k)
         /\ Kept([c EXCEPT !.header_done = TRUE, !.write_bytes = n, !.bucket = b], k)
BY DEF Kept, ClientType

LEMMA KeptSent ==
  ASSUME NEW k, NEW c, Kept(c, k), NEW n \in Nat
  PROVE  /\ Kept([c EXCEPT !.response_closed = TRUE], k)
         /\ Kept([c EXCEPT !.write_bytes = n], k)
         /\ Kept([[c EXCEPT !.write_bytes = n] EXCEPT !.response_closed = TRUE], k)
BY DEF Kept, ClientType

LEMMA KeptPage ==
  ASSUME NEW k, NEW c, Kept(c, k)
  PROVE  Kept([c EXCEPT !.keep_alive = FALSE, !.header_done = TRUE, !.response_closed = TRUE], k)
BY DEF Kept, ClientType

LEMMA KeptHeaders ==
  ASSUME NEW k, NEW c, Kept(c, k), NEW iter \in Seq(Nat), NEW set \in BOOLEAN, NEW n \in Nat,
         NEW chunked \in BOOLEAN
  PROVE  Kept([c EXCEPT !.iter = iter, !.clset = set, !.cl = n, !.chunked = chunked], k)
BY DEF Kept, ClientType

LEMMA KeptAnswer ==
  ASSUME NEW k, NEW c, Kept(c, k), NEW a \in AppType
  PROVE  Kept([c EXCEPT !.status = a.status, !.response = a, !.iter = a.body], k)
BY DEF Kept, ClientType, AppType

LEMMA ResponseData ==
  ASSUME IInv, NEW c, Kept(c, cli[cur]), cli' = [cli EXCEPT ![cur] = c],
         wire' \in [Fds -> Seq(AnswerType)], calls' \in [Fds -> Seq(Nat)],
         UNCHANGED <<peerVars, reqs, parseVars, reg, cur, fault>>,
         pc' \notin {"finish", "prepare", "read", "parse", "register"}
  PROVE  DataInv'
<1>1. PeerTypes' /\ HistTypes'
  BY DEF IInv, DataInv, PeerTypes, HistTypes
<1>2. cli' \in [Fds -> ClientType] /\ cur \in Fds
  BY DEF IInv, DataInv, DataTypes, Kept, WatchInv, ControlTypes
<1>3. DataTypes'
  BY <1>2 DEF IInv, DataInv, DataTypes
<1>4. RefsOK'
  BY <1>2 DEF IInv, DataInv, DataTypes, RefsOK, Kept
<1> QED
  BY <1>1, <1>3, <1>4 DEF DataInv

-----------------------------------------------------------------------------
(* Writing the response.                                                   *)

LEMMA Fetch ==
  ASSUME IInv
  PROVE  /\ cur \in Fds /\ cli[cur] \in ClientType /\ cli \in [Fds -> ClientType]
         /\ cli = [cli EXCEPT ![cur] = cli[cur]]
         /\ Kept(cli[cur], cli[cur])
         /\ wire \in [Fds -> Seq(AnswerType)]
         /\ calls \in [Fds -> Seq(Nat)]
         /\ reqs \in [Fds -> Seq(RequestType)]
BY DEF IInv, DataInv, DataTypes, HistTypes, WatchInv, ControlTypes, Kept

LEMMA WriteItemData ==
  ASSUME IInv, WriteItem PROVE DataInv'
<1> DEFINE k == cli[cur]
           len == Head(k.iter)
           c == [k EXCEPT !.iter = Tail(@)]
           b == Bucket(c, FALSE, len)
           sent == c.write_bytes + len
           status == IF pc = "body" THEN 500 ELSE c.status
           c1 == [c EXCEPT !.write_bytes = sent]
           c2 == [c1 EXCEPT !.response_closed = TRUE]
           c3 == [c EXCEPT !.bucket = b]
           c4 == [c EXCEPT !.bucket = b, !.status = status]
<1>1. len \in Nat /\ Kept(c, k)
  <2>1. k.iter \in Seq(Nat) /\ k.iter # <<>>
    BY Fetch, ClientFields DEF WriteItem
  <2>2. Head(k.iter) \in Nat /\ Tail(k.iter) \in Seq(Nat)
    BY <2>1
  <2> QED
    BY <2>2, Fetch DEF Kept, ClientType
<1>2. b \in BucketType /\ sent \in Nat /\ status \in Nat
  <2>1. c.write_bytes \in Nat /\ c.status \in Nat
    BY <1>1, ClientFields DEF Kept
  <2>2. b \in BucketType
    <3> HIDE DEF c, len
    <3> QED
      BY <1>1, BucketOK
  <2> HIDE DEF c, len, b
  <2> QED
    BY <1>1, <2>1, <2>2
<1>3. Client(c1) \/ Client(c2) \/ Client(c3) \/ Client(c4)
  BY DEF WriteItem, BodyDone
<1>4. UNCHANGED wire \/ Sent(b)
  BY DEF WriteItem
<1>5. UNCHANGED <<peerVars, calls, reqs, parseVars, reg, cur, fault>>
  BY DEF WriteItem, ResponseUnchanged
<1>6. pc' \notin {"finish", "prepare", "read", "parse", "register"}
  <2>1. CASE pc = "body"
    BY ZenonT(30), <2>1 DEF WriteItem, BodyDone
  <2>2. CASE pc = "wbody"
    BY <2>2 DEF WriteItem, BodyDone
  <2> QED
    BY <2>1, <2>2 DEF WriteItem
<1> HIDE DEF k, len, c, b, sent, status
<1>7. Kept(c1, k) /\ Kept(c2, k) /\ Kept(c3, k) /\ Kept(c4, k)
  BY <1>1, <1>2, KeptBucket, KeptSent
<1>8. wire' \in [Fds -> Seq(AnswerType)]
  BY <1>2, <1>4, Fetch, SentType
<1> QED
  BY <1>3, <1>5, <1>6, <1>7, <1>8, Fetch, ResponseData DEF Client, k

LEMMA FinishBodyData ==
  ASSUME IInv, FinishBody PROVE DataInv'
<1> DEFINE c == [cli[cur] EXCEPT !.response_closed = TRUE]
           b == [NoBucket EXCEPT !.ends = 1]
<1>1. Kept(c, cli[cur]) /\ cli' = [cli EXCEPT ![cur] = c]
  BY Fetch, KeptSent DEF FinishBody, BodyDone, Client
<1>2. b \in BucketType
  BY DEF NoBucket, BucketType
<1>3. wire' \in [Fds -> Seq(AnswerType)]
  BY <1>2, Fetch, SentType DEF FinishBody
<1>4. UNCHANGED <<peerVars, calls, reqs, parseVars, reg, cur, fault>>
  BY DEF FinishBody, ResponseUnchanged
<1>5. pc' \notin {"finish", "prepare", "read", "parse", "register"}
  BY DEF FinishBody, BodyDone
<1> QED
  BY <1>1, <1>3, <1>4, <1>5, Fetch, ResponseData

LEMMA RetryBucketData ==
  ASSUME IInv, RetryBucket PROVE DataInv'
<1> DEFINE c == cli[cur]
           b == c.bucket
           total == b.len + (IF b.head THEN HeadLen ELSE 0)
           sent == c.write_bytes + total
           c1 == [c EXCEPT !.write_bytes = sent, !.bucket = NoBucket]
           c2 == [c EXCEPT !.bucket = NoBucket]
<1>1. b \in BucketType /\ NoBucket \in BucketType /\ sent \in Nat
  <2>1. b \in BucketType /\ c.write_bytes \in Nat
    BY Fetch, ClientFields
  <2>2. b.len \in Nat /\ HeadLen \in Nat
    BY <2>1, ParamAssumption DEF BucketType
  <2>3. NoBucket \in BucketType
    BY DEF NoBucket, BucketType
  <2> HIDE DEF b, c
  <2> QED
    BY <2>1, <2>2, <2>3
<1>2. UNCHANGED cli \/ Client(c) \/ Client(c1) \/ Client(c2)
  BY DEF RetryBucket
<1>3. UNCHANGED wire \/ Sent(b)
  BY DEF RetryBucket
<1>4. UNCHANGED <<peerVars, calls, reqs, parseVars, reg, cur, fault>>
  BY DEF RetryBucket, ResponseUnchanged
<1>5. pc' \notin {"finish", "prepare", "read", "parse", "register"}
  BY DEF RetryBucket
<1> HIDE DEF sent, total
<1>6. Kept(c1, c) /\ Kept(c2, c)
  BY <1>1, Fetch, KeptBucket
<1>7. wire' \in [Fds -> Seq(AnswerType)]
  BY <1>1, <1>3, Fetch, SentType
<1> QED
  BY <1>2, <1>4, <1>5, <1>6, <1>7, Fetch, ResponseData DEF Client

LEMMA SendErrorPageData ==
  ASSUME IInv, SendErrorPage PROVE DataInv'
<1> DEFINE c == cli[cur]
           c1 == [c EXCEPT !.keep_alive = FALSE, !.header_done = TRUE, !.response_closed = TRUE]
           c2 == [c1 EXCEPT !.status = 500]
           r == Record("page", Page(c.status))
<1>1. UNCHANGED cli \/ Client(c1) \/ Client(c2)
  BY DEF SendErrorPage
<1>2. UNCHANGED wire \/ Tell(r)
  BY DEF SendErrorPage
<1>3. r \in AnswerType
  <2>1. Page(c.status) \in Nat
    BY Fetch, ClientFields DEF Page
  <2> QED
    BY Fetch, <2>1, RecordType
<1>4. UNCHANGED <<peerVars, calls, reqs, parseVars, reg, cur, fault>> /\ pc' = "close"
  BY DEF SendErrorPage
<1>5. Kept(c1, c)
  BY Fetch, KeptPage
<1> HIDE DEF r, c1
<1>6. Kept(c2, c)
  BY <1>5, KeptStatus
<1>7. wire' \in [Fds -> Seq(AnswerType)]
  BY <1>2, <1>3, Fetch, TellType
<1>8. \E n : Kept(n, c) /\ cli' = [cli EXCEPT ![cur] = n]
  <2> HIDE DEF c2
  <2> QED
    BY <1>1, <1>5, <1>6, Fetch DEF Client
<1> QED
  BY <1>4, <1>7, <1>8, Fetch, ResponseData

\* The status line goes out with the request's number, or an error page follows.
LEMMA WriteHeadersStep ==
  ASSUME IInv, WriteHeaders
  PROVE  \E n : /\ Kept(n, cli[cur]) /\ cli' = [cli EXCEPT ![cur] = n]
                /\ \/ UNCHANGED wire /\ pc' = "page"
                   \/ \E r \in AnswerType :
                        /\ Tell(r) /\ r.id = cli[cur].current /\ r.kind = "app"
                        /\ pc' \in {"close", "body", "suspend"}
                        /\ pc' = "body" => n.header_done
                        /\ pc' = "suspend" => n.bucket.held
<1> DEFINE k == cli[cur]
           a == k.response
           empty == a.status = 304
           first == IF empty THEN 0 ELSE IF a.array THEN a.total ELSE Head(a.body)
           rest == IF empty THEN k.iter ELSE IF a.array THEN <<>> ELSE Tail(a.body)
           length == IF a.clset THEN a.cl ELSE 0
           chunked == ~empty /\ ~a.clset /\ k.minor = 1
           c == [k EXCEPT !.iter = rest, !.clset = a.clset, !.cl = length, !.chunked = chunked]
           b == [Bucket(c, TRUE, first) EXCEPT !.ends = IF empty THEN 0 ELSE @]
           want == IF empty THEN 0 ELSE a.total
           framed == empty \/ c.chunked \/ c.clset
           zero == c.chunked /\ IF a.array THEN a.total = 0
                                ELSE \E i \in DOMAIN a.body : a.body[i] = 0
           record == [Record("app", a.status) EXCEPT
                        !.head = FALSE, !.want = want, !.chunked = c.chunked,
                        !.framed = framed, !.zero = zero]
           c1 == [c EXCEPT !.header_done = TRUE, !.write_bytes = first, !.bucket = NoBucket]
           c2 == [c EXCEPT !.bucket = b]
           c3 == [c EXCEPT !.header_done = TRUE, !.bucket = NoBucket]
           c4 == [c3 EXCEPT !.status = 500]
           k1 == [k EXCEPT !.status = 500]
<1>3. \/ Client(k1) /\ UNCHANGED wire /\ pc' = "page"
      \/ /\ empty \/ a.array \/ a.body # <<>>
         /\ \/ Client(c1) /\ Tell(Extend(record, b)) /\ pc' \in {"close", "body"}
            \/ Client(c2) /\ Tell(record) /\ pc' = "suspend"
            \/ Client(c4) /\ UNCHANGED wire /\ pc' = "page"
  BY ZenonT(30) DEF WriteHeaders, InternalError
<1>4. /\ a.status \in Nat /\ a.array \in BOOLEAN /\ a.body \in Seq(Nat) /\ a.total \in Nat
      /\ a.clset \in BOOLEAN /\ a.cl \in Nat /\ k.iter \in Seq(Nat)
  BY Fetch, ClientFields DEF AppType
<1>5. Kept(k1, k)
  <2>1. Kept(k, k)
    BY Fetch
  <2> HIDE DEF k
  <2> QED
    BY <2>1, KeptStatus
<1>6. ASSUME empty \/ a.array \/ a.body # <<>>
      PROVE  /\ Kept(c1, k) /\ Kept(c2, k) /\ Kept(c4, k)
             /\ record \in AnswerType /\ b \in BucketType /\ c1.header_done /\ c2.bucket.held
             /\ record.id = k.current /\ record.kind = "app"
  <2>1. first \in Nat /\ rest \in Seq(Nat)
    <3> HIDE DEF a, k
    <3>1. CASE a.body # <<>>
      BY <1>4, <3>1
    <3>2. CASE empty \/ a.array
      BY <1>4, <3>2
    <3> QED
      BY <1>6, <3>1, <3>2
  <2>2. length \in Nat /\ chunked \in BOOLEAN /\ want \in Nat
    <3> HIDE DEF a, k
    <3> QED
      BY <1>4
  <2>3. Kept(c, k)
    <3> HIDE DEF rest, length, chunked
    <3> QED
      BY ZenonT(30), <1>4, <2>1, <2>2, Fetch, KeptHeaders DEF k, a
  <2>8. record.id = k.current /\ record.kind = "app"
    <3> HIDE DEF want, framed, zero, c, a
    <3> QED
      BY DEF Record
  <2> HIDE DEF first, rest, length, chunked, c
  <2>9. c1.header_done
    <3> HIDE DEF k
    <3> QED
      BY <2>3 DEF Kept, ClientType
  <2>4. b \in BucketType /\ NoBucket \in BucketType /\ b.held
    <3>1. Bucket(c, TRUE, first) \in BucketType /\ Bucket(c, TRUE, first).held
      BY <2>1, BucketOK DEF Bucket
    <3> HIDE DEF a
    <3> QED
      BY <3>1 DEF NoBucket, BucketType
  <2>5. record \in AnswerType
    <3>1. Record("app", a.status) \in AnswerType
      BY Fetch, <1>4, RecordType
    <3>2. c.chunked \in BOOLEAN /\ framed \in BOOLEAN /\ zero \in BOOLEAN
      BY <2>3, ClientFields DEF Kept
    <3> HIDE DEF want, framed, zero
    <3> QED
      BY <2>2, <3>1, <3>2 DEF AnswerType
  <2> HIDE DEF b, k
  <2>10. c2.bucket.held
    <3>1. c2.bucket = b
      BY <2>3 DEF Kept, ClientType
    <3> QED
      BY <2>4, <3>1
  <2>6. Kept(c1, k) /\ Kept(c2, k) /\ Kept(c3, k)
    BY <2>1, <2>3, <2>4, KeptBucket
  <2>7. Kept(c4, k)
    <3> HIDE DEF c3
    <3> QED
      BY <2>6, KeptStatus
  <2> QED
    BY <2>4, <2>5, <2>6, <2>7, <2>8, <2>9, <2>10
<1>7. /\ record \in AnswerType /\ b \in BucketType =>
           /\ Extend(record, b) \in AnswerType
           /\ Extend(record, b).id = record.id /\ Extend(record, b).kind = record.kind
  <2> HIDE DEF record, b
  <2> QED
    BY ExtendType DEF Extend, AnswerType
<1> HIDE DEF a, c1, c2, c4, k1, record, b, empty
<1>8. CASE Client(k1) /\ UNCHANGED wire /\ pc' = "page"
  BY <1>5, <1>8 DEF Client, k
<1>9. CASE /\ empty \/ a.array \/ a.body # <<>>
           /\ \/ Client(c1) /\ Tell(Extend(record, b)) /\ pc' \in {"close", "body"}
              \/ Client(c2) /\ Tell(record) /\ pc' = "suspend"
              \/ Client(c4) /\ UNCHANGED wire /\ pc' = "page"
  BY <1>6, <1>7, <1>9 DEF Client, k
<1> QED
  BY <1>3, <1>8, <1>9

LEMMA WriteHeadersData ==
  ASSUME IInv, WriteHeaders PROVE DataInv'
<1>1. UNCHANGED <<peerVars, calls, reqs, parseVars, reg, cur, fault>>
  BY DEF WriteHeaders, ResponseUnchanged
<1>2. pc' \notin {"finish", "prepare", "read", "parse", "register"}
  BY ZenonT(30) DEF WriteHeaders, InternalError
<1>3. wire' \in [Fds -> Seq(AnswerType)] /\ \E n : Kept(n, cli[cur]) /\ cli' = [cli EXCEPT ![cur] = n]
  BY WriteHeadersStep, Fetch, TellType
<1> QED
  BY <1>1, <1>2, <1>3, Fetch, ResponseData

-----------------------------------------------------------------------------
(* Steps that change the requests of a connection.                         *)

\* c is a client whose current_req and queue are among n requests.
Points(c, n) == /\ c \in ClientType /\ c.current <= n
                /\ \A i \in DOMAIN c.queue : c.queue[i] <= n
\* A message has begun on the client's connection.
Begun(c) == c.complete \/ c.parser \in {"head", "body"}
\* picoev's entries change for descriptor d only.
OnlyAt(d) == \A f \in Fds \ {d} : reg'[f].ev = reg[f].ev

LEMMA ConnData ==
  ASSUME IInv, NEW d \in Fds, NEW c, NEW rs \in Seq(RequestType), Points(c, Len(rs)),
         cli' = [cli EXCEPT ![d] = c], reqs' = [reqs EXCEPT ![d] = rs], cur' = d, OnlyAt(d),
         Begun(c) /\ (reg'[d].ev = "read" \/ pc' \in {"read", "parse", "register"})
           => c.queue # <<>>,
         pc' \in {"finish", "prepare"} => c.queue # <<>>
  PROVE  RefsOK' /\ cli' \in [Fds -> ClientType] /\ reqs' \in [Fds -> Seq(RequestType)]
BY DEF IInv, DataInv, DataTypes, HistTypes, RefsOK, Points, Begun, OnlyAt

\* The pointers of a client into the requests of its connection.
LEMMA Pointers ==
  ASSUME IInv, NEW f \in Fds
  PROVE  /\ Points(cli[f], Len(reqs[f])) /\ reqs[f] \in Seq(RequestType)
         /\ cli[f] \in ClientType /\ cli[f].queue \in Seq(Ids)
         /\ cli = [cli EXCEPT ![f] = cli[f]] /\ reqs = [reqs EXCEPT ![f] = reqs[f]]
<1>1. cli[f] \in ClientType /\ reqs[f] \in Seq(RequestType)
  BY DEF IInv, DataInv, DataTypes, HistTypes
<1>2. cli = [cli EXCEPT ![f] = cli[f]] /\ reqs = [reqs EXCEPT ![f] = reqs[f]]
  BY DEF IInv, DataInv, DataTypes, HistTypes
<1>3. Points(cli[f], Len(reqs[f]))
  BY <1>1 DEF IInv, DataInv, RefsOK, Points
<1> QED
  BY <1>1, <1>2, <1>3, ClientFields

\* shift_request takes a request of the connection from a non-empty queue.
LEMMA Shift ==
  ASSUME NEW k, NEW n \in Nat, Points(k, n), k.queue # <<>>
  PROVE  /\ Head(k.queue) \in Ids /\ Head(k.queue) \in 1..n
         /\ Tail(k.queue) \in Seq(Ids)
         /\ \A i \in DOMAIN Tail(k.queue) : Tail(k.queue)[i] <= n
<1> DEFINE q == k.queue
<1>1. q \in Seq(Ids) /\ q # <<>> /\ \A i \in DOMAIN q : q[i] <= n
  BY ClientFields DEF Points
<1> HIDE DEF q
<1>2. /\ Head(q) \in Ids /\ Head(q) = q[1] /\ 1 \in DOMAIN q /\ Tail(q) \in Seq(Ids)
      /\ \A i \in DOMAIN Tail(q) : i + 1 \in DOMAIN q /\ Tail(q)[i] = q[i + 1]
  BY <1>1
<1>3. Head(q) \in 1..n /\ \A i \in DOMAIN Tail(q) : Tail(q)[i] <= n
  BY <1>1, <1>2 DEF Ids
<1> QED
  BY <1>2, <1>3 DEF q

LEMMA PointsShift ==
  ASSUME NEW k, NEW n \in Nat, Points(k, n), k.queue # <<>>, NEW s \in Nat
  PROVE  Points([k EXCEPT !.current = Head(k.queue), !.queue = Tail(@), !.status = s], n)
<1> DEFINE h == Head(k.queue)
           t == Tail(k.queue)
           c == [k EXCEPT !.current = h, !.queue = t, !.status = s]
<1>1. h \in Nat /\ h <= n /\ t \in Seq(Ids) /\ \A i \in DOMAIN t : t[i] <= n
  BY Shift DEF Ids
<1>2. c \in ClientType /\ c.current = h /\ c.queue = t
  <2> HIDE DEF h, t
  <2> QED
    BY <1>1 DEF Points, ClientType
<1> HIDE DEF c, h, t
<1>3. Points(c, n)
  BY <1>1, <1>2 DEF Points
<1> QED
  BY <1>3 DEF c, h, t

LEMMA PointsKeep ==
  ASSUME NEW c, NEW n \in Nat, Points(c, n), NEW keep \in BOOLEAN
  PROVE  Points([c EXCEPT !.keep_alive = keep], n)
BY DEF Points, ClientType

LEMMA PointsClose ==
  ASSUME NEW c, NEW n \in Nat, Points(c, n)
  PROVE  /\ Points([c EXCEPT !.keep_alive = FALSE], n)
         /\ [c EXCEPT !.keep_alive = FALSE].queue = c.queue
         /\ Begun([c EXCEPT !.keep_alive = FALSE]) = Begun(c)
BY DEF Points, ClientType, Begun

LEMMA PointsRefuse ==
  ASSUME NEW c, NEW n \in Nat, Points(c, n), NEW s \in Nat
  PROVE  /\ Points([c EXCEPT !.keep_alive = FALSE, !.status = s], n)
         /\ [c EXCEPT !.keep_alive = FALSE, !.status = s].queue = c.queue
         /\ Begun([c EXCEPT !.keep_alive = FALSE, !.status = s]) = Begun(c)
BY DEF Points, ClientType, Begun

LEMMA PrepareCallRackData ==
  ASSUME IInv, PrepareCallRack PROVE DataInv'
<1> DEFINE k == cli[cur]
           n == Len(reqs[cur])
           c == [k EXCEPT !.current = Head(k.queue), !.queue = Tail(@)]
           kept == c.keep_alive /\ IsKeepAlive
           c1 == [c EXCEPT !.keep_alive = FALSE, !.status = 417]
           c2 == [c EXCEPT !.keep_alive = FALSE, !.status = 500]
           c3 == [c EXCEPT !.keep_alive = kept]
           r == [Record("cont", 100) EXCEPT !.id = c.current]
<1>1. cur \in Fds /\ Points(k, n) /\ n \in Nat /\ k \in ClientType /\ k.queue # <<>>
  <2>1. pc = "prepare"
    BY DEF PrepareCallRack
  <2>2. k.queue # <<>>
    BY <2>1 DEF IInv, DataInv, RefsOK
  <2>3. cur \in Fds
    BY Fetch
  <2>4. Points(k, n) /\ reqs[cur] \in Seq(RequestType) /\ k \in ClientType
    BY <2>3, Pointers
  <2> HIDE DEF k
  <2> QED
    BY <2>2, <2>3, <2>4
<1>2. Client(c1) \/ Client(c2) \/ Client(c3)
  BY DEF PrepareCallRack
<1>3. UNCHANGED wire \/ Tell(r)
  BY DEF PrepareCallRack
<1>4. /\ UNCHANGED <<peerVars, calls, reqs, reg, parseVars, cur, fault>>
      /\ pc' \in {"page", "app"} /\ pc = "prepare"
  BY DEF PrepareCallRack
<1>5. Points(c, n)
  <2>1. c = [k EXCEPT !.current = Head(k.queue), !.queue = Tail(@), !.status = k.status]
    BY <1>1 DEF ClientType
  <2>2. k.status \in Nat
    BY <1>1, ClientFields
  <2> HIDE DEF k, n
  <2> QED
    BY <1>1, <2>1, <2>2, PointsShift
<1>6. Points(c1, n) /\ Points(c2, n) /\ Points(c3, n)
  <2> HIDE DEF c, n
  <2>1. kept \in BOOLEAN
    OBVIOUS
  <2>2. Points(c1, n) /\ Points(c2, n)
    <3>1. n \in Nat /\ 417 \in Nat /\ 500 \in Nat
      BY <1>1
    <3>2. \A s \in Nat : Points([c EXCEPT !.keep_alive = FALSE, !.status = s], n)
      BY <1>5, <3>1, PointsRefuse, Zenon
    <3> QED
      BY <3>1, <3>2, ZenonT(30)
  <2> HIDE DEF kept
  <2>3. Points(c3, n)
    BY <1>1, <1>5, <2>1, PointsKeep, Zenon
  <2> QED
    BY <2>2, <2>3
<1>7. r \in AnswerType
  <2>1. Record("cont", 100) \in AnswerType
    BY Fetch, RecordType
  <2>2. c.current \in Nat
    BY <1>5, ClientFields DEF Points
  <2> HIDE DEF c
  <2> QED
    BY <2>1, <2>2 DEF AnswerType
<1> HIDE DEF c, c1, c2, c3, r
<1>8. wire' \in [Fds -> Seq(AnswerType)]
  BY <1>3, <1>7, Fetch, TellType
<1>9. reg'[cur].ev = "none" /\ OnlyAt(cur)
  BY <1>4 DEF IInv, WatchInv, StackOK, OnlyAt
<1>10. RefsOK' /\ cli' \in [Fds -> ClientType]
  BY <1>1, <1>2, <1>4, <1>6, <1>9, Pointers, ConnData DEF Client
<1>11. PeerTypes' /\ HistTypes' /\ DataTypes'
  BY <1>4, <1>8, <1>10 DEF IInv, DataInv, PeerTypes, HistTypes, DataTypes
<1> QED
  BY <1>10, <1>11 DEF DataInv

LEMMA FinishData ==
  ASSUME IInv, Finish PROVE DataInv'
<1> DEFINE k == cli[cur]
           n == Len(reqs[cur])
           id == Head(k.queue)
           code == reqs[cur][id].bad
           c == [k EXCEPT !.current = id, !.queue = Tail(@), !.status = code]
<1>1. cur \in Fds /\ Points(k, n) /\ n \in Nat /\ k.queue # <<>>
  BY SMTT(30), Fetch, Pointers DEF IInv, DataInv, RefsOK, Finish
<1>2. (pc' = "prepare" /\ UNCHANGED cli) \/ (pc' = "page" /\ Client(c))
  BY DEF Finish
<1>3. UNCHANGED <<peerVars, histVars, parseVars, cur, fault>>
  BY DEF Finish
<1>4. reg'[cur].ev = "none" /\ OnlyAt(cur)
  <2>1. pc = "finish"
    BY DEF Finish
  <2>2. reg' = IF handler = "accept" THEN reg ELSE [reg EXCEPT ![cur] = NoReg]
    BY DEF Finish
  <2> QED
    BY <2>1, <2>2, Fetch DEF IInv, WatchInv, AllocTypes, StackOK, NoReg, OnlyAt
<1>5. code \in Nat
  <2>1. id \in 1..n /\ reqs[cur] \in Seq(RequestType)
    BY <1>1, Shift, Pointers
  <2> HIDE DEF id
  <2>2. reqs[cur][id] \in RequestType
    BY <2>1
  <2> QED
    BY <2>2 DEF RequestType, Codes
<1>6. Points(c, n)
  <2> HIDE DEF code, k, n
  <2> QED
    BY <1>1, <1>5, PointsShift
<1> HIDE DEF c
<1>7. RefsOK' /\ cli' \in [Fds -> ClientType]
  <2>1. CASE pc' = "prepare" /\ UNCHANGED cli
    BY <1>1, <1>3, <1>4, <2>1, Pointers, ConnData
  <2>2. CASE pc' = "page" /\ Client(c)
    BY <1>1, <1>3, <1>4, <1>6, <2>2, Pointers, ConnData DEF Client
  <2> QED
    BY <1>2, <2>1, <2>2
<1> QED
  BY <1>3, <1>7 DEF IInv, DataInv, PeerTypes, HistTypes, DataTypes

LEMMA ProcessRackAppData ==
  ASSUME IInv, ProcessRackApp PROVE DataInv'
<1> DEFINE k == cli[cur]
           C(a) == [k EXCEPT !.status = a.status, !.response = a, !.iter = a.body]
           rs == [reqs[cur] EXCEPT ![k.current].bad = 500]
<1>1. cur \in Fds /\ k \in ClientType
  BY Fetch
<1>2. /\ UNCHANGED <<peerVars, wire, reg, parseVars, cur, fault>>
      /\ calls' = [calls EXCEPT ![cur] = Append(@, k.current)]
  BY DEF ProcessRackApp
<1>3. calls' \in [Fds -> Seq(Nat)]
  <2>1. k.current \in Nat
    BY <1>1, ClientFields
  <2> QED
    BY <1>2, <2>1, Fetch
<1>4. pc' \in {"raised", "page", "close", "start"}
  BY DEF ProcessRackApp
<1>5. CASE UNCHANGED <<cli, reqs>>
  BY <1>2, <1>3, <1>4, <1>5, Fetch, ResponseData
<1>6. ASSUME NEW a \in Apps, Client(C(a)), UNCHANGED reqs PROVE DataInv'
  <2>1. Kept(C(a), k)
    BY Fetch, KeptAnswer, ParamAssumption
  <2> HIDE DEF C
  <2> QED
    BY <1>2, <1>3, <1>4, <1>6, <2>1, Fetch, ResponseData DEF Client
<1>7. CASE pc' = "page" /\ UNCHANGED cli /\ reqs' = [reqs EXCEPT ![cur] = rs]
  <2>1. rs \in Seq(RequestType) /\ Len(rs) = Len(reqs[cur])
    <3>1. reqs[cur] \in Seq(RequestType)
      BY <1>1, Pointers
    <3>2. ASSUME k.current \in DOMAIN reqs[cur]
          PROVE  [reqs[cur][k.current] EXCEPT !.bad = 500] \in RequestType
      <4>1. reqs[cur][k.current] \in RequestType
        BY <3>1, <3>2
      <4> QED
        BY <4>1 DEF RequestType, Codes
    <3> QED
      BY SMTT(30), <3>1, <3>2, SeqExcept
  <2> HIDE DEF rs
  <2>2. Begun(k) /\ reg'[cur].ev = "read" => k.queue # <<>>
    BY <1>1, <1>2 DEF IInv, DataInv, RefsOK, Begun
  <2>3. RefsOK' /\ cli' \in [Fds -> ClientType] /\ reqs' \in [Fds -> Seq(RequestType)]
    BY <1>1, <1>2, <1>7, <2>1, <2>2, Pointers, ConnData DEF OnlyAt
  <2> QED
    BY <1>2, <1>3, <2>3 DEF IInv, DataInv, PeerTypes, HistTypes, DataTypes
<1>8. \/ UNCHANGED <<cli, reqs>>
      \/ \E a \in Apps : Client(C(a)) /\ UNCHANGED reqs
      \/ pc' = "page" /\ UNCHANGED cli /\ reqs' = [reqs EXCEPT ![cur] = rs]
  BY DEF ProcessRackApp
<1> QED
  BY <1>5, <1>6, <1>7, <1>8

-----------------------------------------------------------------------------
(* close_client, accept and the control steps.                             *)

LEMMA CloseData ==
  ASSUME IInv, CloseToNext \/ CloseConnection \/ KeepConnection PROVE DataInv'
<1> DEFINE k == cli[cur]
           n == Len(reqs[cur])
           c == Cleaned(k)
<1>1. cur \in Fds /\ Points(k, n) /\ n \in Nat
  BY Fetch, Pointers
<1>2. UNCHANGED <<peer, script, window, conns, histVars, parseVars, cur, fault>>
  BY DEF CloseToNext, CloseConnection, KeepConnection
<1>3. OnlyAt(cur)
  BY Fetch DEF CloseToNext, CloseConnection, KeepConnection, OnlyAt, IInv, WatchInv, AllocTypes
<1>4. inbox' \in [Fds -> Seq(TokenType)]
  <2>1. inbox' = inbox \/ inbox' = [inbox EXCEPT ![cur] = <<>>]
    BY DEF CloseToNext, CloseConnection, KeepConnection
  <2>2. <<>> \in Seq(TokenType)
    OBVIOUS
  <2> QED
    BY <1>1, <2>1, <2>2 DEF IInv, DataInv, PeerTypes
<1>5. RefsOK' /\ cli' \in [Fds -> ClientType]
  <2>1. CASE CloseToNext
    <3>1. Points(c, n) /\ c.queue = k.queue
      <4> HIDE DEF k, n
      <4>1. k \in ClientType
        BY <1>1 DEF Points
      <4>2. c \in ClientType /\ c.queue = k.queue /\ c.current = 0
        BY <4>1 DEF ClientType, Cleaned
      <4> QED
        BY <1>1, <4>2 DEF Points
    <3> HIDE DEF c
    <3>2. k.queue # <<>> /\ Client(c) /\ pc' = "prepare"
      BY <2>1 DEF CloseToNext, c
    <3> QED
      BY <1>1, <1>2, <1>3, <3>1, <3>2, Pointers, ConnData DEF Client
  <2>2. CASE CloseConnection \/ KeepConnection
    <3>1. PICK keep \in BOOLEAN : Client(NewClient(keep)) /\ pc' = "return"
      BY <2>2 DEF CloseConnection, KeepConnection
    <3>2. Points(NewClient(keep), n) /\ ~Begun(NewClient(keep))
      <4>1. NewClient(keep) \in ClientType
        BY NewClientType
      <4> HIDE DEF n
      <4> QED
        BY <1>1, <4>1 DEF Points, NewClient, Begun
    <3> QED
      BY <1>1, <1>2, <1>3, <3>1, <3>2, Pointers, ConnData DEF Client
  <2> QED
    BY <2>1, <2>2
<1> QED
  BY <1>2, <1>4, <1>5 DEF IInv, DataInv, PeerTypes, HistTypes, DataTypes

LEMMA AcceptData ==
  ASSUME IInv, NEW f \in Fds, Accept(f) PROVE DataInv'
<1> DEFINE c == NewClient(FALSE)
<1>1. /\ UNCHANGED <<peerVars, wire, reg, parseVars, fault>> /\ cur' = f
      /\ cli' = [cli EXCEPT ![f] = c] /\ reqs' = [reqs EXCEPT ![f] = <<>>]
      /\ calls' = [calls EXCEPT ![f] = <<>>] /\ pc' = "read"
  BY DEF Accept
<1>2. Points(c, Len(<<>>)) /\ ~Begun(c)
  <2>1. c \in ClientType
    BY NewClientType
  <2>2. c.current = 0 /\ c.queue = <<>> /\ c.complete = FALSE /\ c.parser = "start"
    BY DEF NewClient
  <2>3. Len(<<>>) = 0 /\ DOMAIN <<>> = {}
    OBVIOUS
  <2> HIDE DEF c
  <2> QED
    BY <2>1, <2>2, <2>3 DEF Points, Begun
<1> HIDE DEF c
<1>3. <<>> \in Seq(RequestType)
  OBVIOUS
<1>4. RefsOK' /\ cli' \in [Fds -> ClientType] /\ reqs' \in [Fds -> Seq(RequestType)]
  BY <1>1, <1>2, <1>3, ConnData DEF OnlyAt
<1>5. calls' \in [Fds -> Seq(Nat)]
  <2>1. <<>> \in Seq(Nat)
    OBVIOUS
  <2> QED
    BY <1>1, <2>1, Fetch
<1> QED
  BY <1>1, <1>4, <1>5 DEF IInv, DataInv, PeerTypes, HistTypes, DataTypes

LEMMA ControlData ==
  ASSUME IInv, \/ Stop \/ LoopExit \/ AcceptEvent \/ AcceptDone \/ Register \/ Return
               \/ SuspendWrite \/ (\E f \in Fds : AcceptFails(f) \/ ReadEvent(f) \/ WriteEvent(f))
  PROVE  DataInv'
<1>1. UNCHANGED <<peerVars, histVars, cli, parseVars, fault>>
  BY DEF Stop, LoopExit, AcceptEvent, AcceptDone, Register, Return, SuspendWrite, AcceptFails,
         ReadEvent, WriteEvent, Dispatch
<1>2. PeerTypes' /\ HistTypes' /\ DataTypes'
  BY <1>1 DEF IInv, DataInv, PeerTypes, HistTypes, DataTypes
<1>3. RefsOK'
  <2>1. CASE Stop
    BY <2>1, <1>1 DEF Stop, IInv, DataInv, RefsOK
  <2>2. CASE LoopExit \/ AcceptEvent \/ AcceptDone \/ Return \/ \E f \in Fds : AcceptFails(f)
    BY <2>2, <1>1 DEF LoopExit, AcceptEvent, AcceptDone, Return, AcceptFails, IInv, DataInv, RefsOK
  <2>3. CASE Register
    BY <2>3, <1>1, Fetch DEF Register, IInv, DataInv, RefsOK, WatchInv, AllocTypes
  <2>4. CASE SuspendWrite
    BY <2>4, <1>1, Fetch DEF SuspendWrite, IInv, DataInv, RefsOK, WatchInv, AllocTypes
  <2>5. CASE \E f \in Fds : ReadEvent(f) \/ WriteEvent(f)
    BY <2>5, <1>1 DEF ReadEvent, WriteEvent, Dispatch, IInv, DataInv, RefsOK
  <2> QED
    BY <2>1, <2>2, <2>3, <2>4, <2>5
<1> QED
  BY <1>2, <1>3 DEF DataInv

LEMMA CrashData ==
  ASSUME IInv, \/ ParseNull \/ EmptyIterator \/ ClosedClient \/ SuspendAborts \/ CloseAborts
  PROVE  DataInv'
<1>1. /\ UNCHANGED <<peerVars, histVars, cli, reg, cur, parseVars>>
      /\ pc' = "crashed" /\ fault' \in Faults
  BY DEF ParseNull, EmptyIterator, ClosedClient, SuspendAborts, CloseAborts, Crash
<1> QED
  BY <1>1 DEF IInv, DataInv, PeerTypes, HistTypes, DataTypes, RefsOK

-----------------------------------------------------------------------------
(* Peers.                                                                  *)

LEMMA PeerData ==
  ASSUME IInv, NEW f \in Fds, Peer(f) PROVE DataInv'
<1>1. UNCHANGED <<calls, reqs, cli, reg, cur, pc, parseVars, fault>>
  BY DEF Peer, PeerConnect, PeerSend, PeerEof, PeerReset, PeerStall, PeerDrain
<1>2. RefsOK' /\ DataTypes'
  BY <1>1 DEF IInv, DataInv, DataTypes, RefsOK
<1>3. CASE PeerConnect(f)
  <2>1. NewScript \in ScriptType
    BY DEF ScriptType, NewScript
  <2>2. <<>> \in Seq(TokenType)
    OBVIOUS
  <2>3. <<>> \in Seq(AnswerType)
    OBVIOUS
  <2>4. /\ peer' = [peer EXCEPT ![f] = "up"] /\ window' = [window EXCEPT ![f] = TRUE]
        /\ inbox' = [inbox EXCEPT ![f] = <<>>] /\ script' = [script EXCEPT ![f] = NewScript]
        /\ conns' = conns + 1 /\ wire' = [wire EXCEPT ![f] = <<>>]
    BY <1>3 DEF PeerConnect
  <2>5. inbox' \in [Fds -> Seq(TokenType)]
    BY <2>2, <2>4 DEF IInv, DataInv, PeerTypes
  <2>6. wire' \in [Fds -> Seq(AnswerType)]
    BY <2>3, <2>4 DEF IInv, DataInv, HistTypes
  <2>7. /\ peer' \in [Fds -> {"up", "eof", "reset"}] /\ script' \in [Fds -> ScriptType]
        /\ window' \in [Fds -> BOOLEAN] /\ conns' \in Nat
    BY <2>1, <2>4 DEF IInv, DataInv, PeerTypes
  <2> QED
    BY <1>1, <1>2, <2>5, <2>6, <2>7 DEF IInv, DataInv, PeerTypes, HistTypes
<1>4. CASE PeerSend(f)
  <2>1. script[f] \in ScriptType /\ inbox[f] \in Seq(TokenType)
    BY DEF IInv, DataInv, PeerTypes
  <2>2. \E token \in TokenType, s \in ScriptType : Put(f, token, s)
    <3> DEFINE s == script[f]
               Then(phase) == [s EXCEPT !.phase = phase]
               Told(h, phase) == [s EXCEPT !.old = @ \/ h.minor = 0, !.phase = phase]
    <3>1. /\ [s EXCEPT !.phase = "head", !.sent = @ + 1] \in ScriptType
          /\ [s EXCEPT !.blanks = @ + 1] \in ScriptType
      <4> HIDE DEF s
      <4>1. s.sent + 1 \in Nat /\ s.blanks + 1 \in Nat
        BY <2>1 DEF ScriptType, s
      <4>2. s \in ScriptType
        BY <2>1 DEF s
      <4> QED
        BY <4>1, <4>2 DEF ScriptType
    <3>4. \A phase \in {"start", "body", "wait", "done"} : Then(phase) \in ScriptType
      BY <2>1 DEF ScriptType
    <3>5. \A h \in Heads, phase \in {"start", "body", "wait"} : Told(h, phase) \in ScriptType
      <4>1. s \in ScriptType
        BY <2>1
      <4> HIDE DEF s
      <4> QED
        BY <4>1 DEF ScriptType
    <3>2. /\ \A kind \in {"begin", "body", "junk", "blank"} : Token(kind) \in TokenType
          /\ \A h \in Heads : [t |-> "head", h |-> h] \in TokenType
      BY ParamAssumption DEF Token, TokenType
    <3>3. \/ Put(f, Token("begin"), [s EXCEPT !.phase = "head", !.sent = @ + 1])
          \/ \E h \in Heads, phase \in {"start", "body", "wait"} :
               Put(f, [t |-> "head", h |-> h], Told(h, phase))
          \/ Put(f, Token("body"), Then("start"))
          \/ Put(f, Token("junk"), Then("done"))
          \/ Put(f, Token("blank"), [s EXCEPT !.blanks = @ + 1])
      BY <1>4 DEF PeerSend
    <3> HIDE DEF Then, Told
    <3> QED
      BY <3>1, <3>2, <3>3, <3>4, <3>5
  <2>3. PICK token \in TokenType, s \in ScriptType : Put(f, token, s)
    BY <2>2
  <2>4. inbox' \in [Fds -> Seq(TokenType)]
    <3>1. Append(inbox[f], token) \in Seq(TokenType)
      BY <2>1
    <3> QED
      BY <2>3, <3>1 DEF Put, IInv, DataInv, PeerTypes
  <2>5. script' \in [Fds -> ScriptType]
    BY <2>3 DEF Put, IInv, DataInv, PeerTypes
  <2>6. UNCHANGED <<peer, window, conns, wire>>
    BY <1>4 DEF PeerSend
  <2> QED
    BY <1>1, <1>2, <2>4, <2>5, <2>6 DEF IInv, DataInv, PeerTypes, HistTypes
<1>5. CASE PeerEof(f) \/ PeerReset(f) \/ PeerStall(f) \/ PeerDrain(f)
  <2>1. script' \in [Fds -> ScriptType]
    <3>1. script[f] \in ScriptType /\ script \in [Fds -> ScriptType]
      BY DEF IInv, DataInv, PeerTypes
    <3>2. [script[f] EXCEPT !.stalled = TRUE] \in ScriptType
      BY <3>1 DEF ScriptType
    <3>3. \/ UNCHANGED script
          \/ script' = [script EXCEPT ![f] = [script[f] EXCEPT !.stalled = TRUE]]
      BY <1>5 DEF PeerEof, PeerReset, PeerStall, PeerDrain
    <3> QED
      BY <3>1, <3>2, <3>3
  <2>2. /\ peer' \in [Fds -> {"up", "eof", "reset"}]
        /\ window' \in [Fds -> BOOLEAN]
        /\ UNCHANGED <<inbox, conns, wire>>
    BY <1>5 DEF PeerEof, PeerReset, PeerStall, PeerDrain, IInv, DataInv, PeerTypes
  <2> QED
    BY <1>1, <1>2, <2>1, <2>2 DEF IInv, DataInv, HistTypes, PeerTypes
<1> QED
  BY <1>3, <1>4, <1>5 DEF Peer

-----------------------------------------------------------------------------
(* Reading and parsing.                                                    *)

\* set_read_error: what it does to the client and the requests of d.
LEMMA ReadErrorData ==
  ASSUME IInv, NEW d \in Fds, NEW c, Points(c, Len(reqs[d])), NEW code \in Codes,
         SetReadError(d, c, code), cur' = d, OnlyAt(d),
         Begun(c) /\ reg'[d].ev = "read" => c.queue # <<>>
  PROVE  RefsOK' /\ cli' \in [Fds -> ClientType] /\ reqs' \in [Fds -> Seq(RequestType)]
<1> DEFINE status == IF code = 0 THEN 400 ELSE code
           i == Last(c.queue)
           rs == [reqs[d] EXCEPT ![i].bad = status]
           c1 == [c EXCEPT !.keep_alive = FALSE]
           c2 == [c EXCEPT !.keep_alive = FALSE, !.status = status]
<1>1. status \in Codes /\ status \in Nat
  BY DEF Codes
<1>2. reqs[d] \in Seq(RequestType) /\ reqs = [reqs EXCEPT ![d] = reqs[d]]
  BY Pointers
<1>3. rs \in Seq(RequestType) /\ Len(rs) = Len(reqs[d])
  <2>1. ASSUME i \in DOMAIN reqs[d]
        PROVE  [reqs[d][i] EXCEPT !.bad = status] \in RequestType
    <3> HIDE DEF i, status
    <3>1. reqs[d][i] \in RequestType
      BY <1>2, <2>1
    <3> QED
      BY <1>1, <3>1 DEF RequestType
  <2> HIDE DEF i, status
  <2> QED
    BY <1>2, <2>1, SeqExcept
<1>4. /\ Points(c1, Len(reqs[d])) /\ c1.queue = c.queue /\ (Begun(c1) = Begun(c))
      /\ Points(c2, Len(reqs[d])) /\ c2.queue = c.queue /\ (Begun(c2) = Begun(c))
  <2> HIDE DEF status
  <2>1. Len(reqs[d]) \in Nat
    BY <1>2
  <2> QED
    BY <1>1, <2>1, PointsClose, PointsRefuse
<1>5. \/ /\ c.queue # <<>> /\ pc' = "finish"
         /\ reqs' = [reqs EXCEPT ![d] = rs] /\ cli' = [cli EXCEPT ![d] = c1]
      \/ /\ pc' = "page" /\ reqs' = reqs /\ cli' = [cli EXCEPT ![d] = c2]
  BY DEF SetReadError
<1> HIDE DEF status, i, rs, c1, c2
<1>6. CASE /\ c.queue # <<>> /\ pc' = "finish"
           /\ reqs' = [reqs EXCEPT ![d] = rs] /\ cli' = [cli EXCEPT ![d] = c1]
  BY <1>3, <1>4, <1>6, ConnData
<1>7. CASE pc' = "page" /\ reqs' = reqs /\ cli' = [cli EXCEPT ![d] = c2]
  BY <1>2, <1>4, <1>7, ConnData
<1> QED
  BY <1>5, <1>6, <1>7

LEMMA TimeoutData ==
  ASSUME IInv, NEW f \in Fds, Timeout(f) PROVE DataInv'
<1>1. /\ UNCHANGED <<peerVars, wire, calls, parseVars, fault>> /\ cur' = f
      /\ reg' = [reg EXCEPT ![f].armed = FALSE]
  BY DEF Timeout
<1>2. reg'[f].ev = reg[f].ev /\ OnlyAt(f)
  BY <1>1 DEF IInv, WatchInv, AllocTypes, RegType, OnlyAt
<1>3. Points(cli[f], Len(reqs[f])) /\ (Begun(cli[f]) /\ reg[f].ev = "read" => cli[f].queue # <<>>)
  BY Pointers DEF IInv, DataInv, RefsOK, Begun
<1>4. RefsOK' /\ cli' \in [Fds -> ClientType] /\ reqs' \in [Fds -> Seq(RequestType)]
  <2>1. CASE SetReadError(f, cli[f], 408)
    <3>1. 408 \in Codes /\ (Begun(cli[f]) /\ reg'[f].ev = "read" => cli[f].queue # <<>>)
      BY <1>2, <1>3 DEF Codes
    <3>2. cur' = f /\ OnlyAt(f) /\ Points(cli[f], Len(reqs[f]))
      BY <1>1, <1>2, <1>3
    <3> QED
      BY <2>1, <3>1, <3>2, ReadErrorData, ZenonT(30)
  <2>2. CASE cli' = [cli EXCEPT ![f].keep_alive = FALSE] /\ pc' = "close" /\ UNCHANGED reqs
    <3> DEFINE c == [cli[f] EXCEPT !.keep_alive = FALSE]
    <3>1. Len(reqs[f]) \in Nat
      BY Pointers
    <3>2. Points(c, Len(reqs[f])) /\ c.queue = cli[f].queue /\ Begun(c) = Begun(cli[f])
      BY <1>3, <3>1, PointsClose
    <3>3. cli' = [cli EXCEPT ![f] = c]
      BY <2>2
    <3> HIDE DEF c
    <3> QED
      BY <1>1, <1>2, <1>3, <2>2, <3>1, <3>2, <3>3, Pointers, ConnData
  <2> QED
    BY <2>1, <2>2 DEF Timeout
<1> QED
  BY <1>1, <1>4 DEF IInv, DataInv, PeerTypes, HistTypes, DataTypes

LEMMA ReadRequestData ==
  ASSUME IInv, ReadRequest PROVE DataInv'
<1> DEFINE k == cli[cur]
           c == [k EXCEPT !.header_done = TRUE, !.response_closed = TRUE]
           n == Len(reqs[cur])
<1>1. /\ UNCHANGED <<peer, script, window, conns, wire, calls, cur, fault>> /\ pc = "read"
  BY DEF ReadRequest
<1>2. cur \in Fds /\ Points(k, n) /\ n \in Nat /\ (Begun(k) => k.queue # <<>>)
      /\ inbox[cur] \in Seq(TokenType)
  BY <1>1, Fetch, Pointers DEF IInv, DataInv, PeerTypes, RefsOK, Begun
<1>3. OnlyAt(cur)
  BY <1>2 DEF ReadRequest, Rearm, IInv, WatchInv, AllocTypes, OnlyAt
<1>4. Points(c, n) /\ c.queue = k.queue /\ Begun(c) = Begun(k)
  <2> HIDE DEF k, n
  <2> QED
    BY <1>2 DEF Points, ClientType, Begun
<1>5. \/ UNCHANGED <<cli, reqs>> /\ pc' \in {"parse", "register", "return"}
      \/ SetReadError(cur, k, 503)
      \/ SetReadError(cur, c, 500)
  BY DEF ReadRequest
<1>6. \/ UNCHANGED <<inbox, parseVars>>
      \/ \E m \in 1..Len(inbox[cur]) :
           /\ buf' = SubSeq(inbox[cur], 1, m) /\ bad' = FALSE
           /\ inbox' = [inbox EXCEPT ![cur] = SubSeq(@, m + 1, Len(@))]
  BY DEF ReadRequest
<1> HIDE DEF c
<1>7. RefsOK' /\ cli' \in [Fds -> ClientType] /\ reqs' \in [Fds -> Seq(RequestType)]
  <2>1. CASE UNCHANGED <<cli, reqs>> /\ pc' \in {"parse", "register", "return"}
    BY <1>1, <1>2, <1>3, <2>1, Pointers, ConnData
  <2>2. CASE SetReadError(cur, k, 503)
    <3>1. 503 \in Codes /\ (Begun(k) /\ reg'[cur].ev = "read" => k.queue # <<>>)
      BY <1>2 DEF Codes
    <3>2. cur' = cur /\ cur \in Fds /\ Points(k, Len(reqs[cur]))
      BY <1>1, <1>2
    <3> HIDE DEF k, n
    <3> QED
      BY <1>3, <2>2, <3>1, <3>2, ReadErrorData, ZenonT(30)
  <2>3. CASE SetReadError(cur, c, 500)
    <3>1. 500 \in Codes /\ (Begun(c) /\ reg'[cur].ev = "read" => c.queue # <<>>)
      BY <1>2, <1>4 DEF Codes
    <3>2. cur' = cur /\ cur \in Fds /\ Points(c, Len(reqs[cur]))
      BY <1>1, <1>2, <1>4
    <3> HIDE DEF k, n
    <3> QED
      BY <1>3, <2>3, <3>1, <3>2, ReadErrorData, ZenonT(30)
  <2> QED
    BY <1>5, <2>1, <2>2, <2>3
<1>8. inbox' \in [Fds -> Seq(TokenType)] /\ buf' \in Seq(TokenType) /\ bad' \in BOOLEAN
  <2>1. CASE UNCHANGED <<inbox, parseVars>>
    BY <2>1 DEF IInv, DataInv, PeerTypes, DataTypes
  <2>2. ASSUME NEW m \in 1..Len(inbox[cur]),
               buf' = SubSeq(inbox[cur], 1, m), bad' = FALSE,
               inbox' = [inbox EXCEPT ![cur] = SubSeq(@, m + 1, Len(@))]
        PROVE  inbox' \in [Fds -> Seq(TokenType)] /\ buf' \in Seq(TokenType) /\ bad' \in BOOLEAN
    <3>1. /\ SubSeq(inbox[cur], 1, m) \in Seq(TokenType)
          /\ SubSeq(inbox[cur], m + 1, Len(inbox[cur])) \in Seq(TokenType)
      BY <1>2
    <3>2. inbox \in [Fds -> Seq(TokenType)]
      BY DEF IInv, DataInv, PeerTypes
    <3> QED
      BY <2>2, <3>1, <3>2, <1>2
  <2> QED
    BY <1>6, <2>1, <2>2
<1> QED
  BY <1>1, <1>7, <1>8 DEF IInv, DataInv, PeerTypes, HistTypes, DataTypes

LEMMA ParseSkipData ==
  ASSUME IInv, ParseBlank \/ ParseError PROVE DataInv'
<1>1. /\ UNCHANGED <<peerVars, histVars, cli, reg, pc, cur, fault>>
      /\ (bad' = TRUE /\ UNCHANGED buf) \/ (bad' = bad /\ buf' = Tail(buf) /\ buf # <<>>)
  BY DEF ParseBlank, ParseError, Parsing, ParserUnchanged
<1>2. buf' \in Seq(TokenType) /\ bad' \in BOOLEAN
  <2>1. buf \in Seq(TokenType) /\ bad \in BOOLEAN
    BY DEF IInv, DataInv, DataTypes
  <2>2. buf # <<>> => Tail(buf) \in Seq(TokenType)
    BY <2>1
  <2> QED
    BY <1>1, <2>1, <2>2
<1> QED
  BY <1>1, <1>2 DEF IInv, DataInv, PeerTypes, HistTypes, DataTypes, RefsOK

LEMMA MessageBeginData ==
  ASSUME IInv, MessageBegin PROVE DataInv'
<1> DEFINE k == cli[cur]
           n == Len(reqs[cur])
           id == n + 1
           q == Append(k.queue, id)
           rs == Append(reqs[cur], NewReq)
           c == [k EXCEPT !.current = id, !.complete = FALSE, !.parser = "head", !.queue = q]
<1>1. /\ UNCHANGED <<peerVars, wire, calls, reg, pc, cur, bad, fault>>
      /\ buf' = Tail(buf) /\ buf # <<>> /\ pc = "parse"
      /\ cli' = [cli EXCEPT ![cur] = c] /\ reqs' = [reqs EXCEPT ![cur] = rs]
  BY DEF MessageBegin, Parsing, ParserUnchanged, Client
<1>2. buf' \in Seq(TokenType)
  BY <1>1 DEF IInv, DataInv, DataTypes
<1>3. cur \in Fds /\ Points(k, n) /\ n \in Nat /\ reqs[cur] \in Seq(RequestType)
      /\ k \in ClientType /\ k.queue \in Seq(Ids)
  BY Fetch, Pointers
<1>4. rs \in Seq(RequestType) /\ Len(rs) = n + 1
  <2>1. NewReq \in RequestType
    BY DEF NewReq, RequestType, Codes
  <2> QED
    BY <1>3, <2>1
<1>5. q \in Seq(Ids) /\ q # <<>> /\ \A i \in DOMAIN q : q[i] <= n + 1
  <2> DEFINE old == k.queue
  <2> HIDE DEF n
  <2>1. old \in Seq(Ids) /\ \A i \in DOMAIN old : old[i] <= n
    BY <1>3 DEF Points
  <2>2. id \in Ids /\ id = n + 1
    BY <1>3 DEF Ids
  <2> HIDE DEF old, id
  <2>3. Append(old, id) \in Seq(Ids) /\ Append(old, id) # <<>>
    BY <2>1, <2>2
  <2>4. \A i \in DOMAIN Append(old, id) : Append(old, id)[i] <= n + 1
    BY <1>3, <2>1, <2>2 DEF Ids
  <2> QED
    BY <2>3, <2>4 DEF old
<1>6. Points(c, Len(rs)) /\ c.queue # <<>>
  <2>0. id \in Nat /\ id = n + 1
    BY <1>3
  <2> HIDE DEF q, n, k, rs, id
  <2>1. c \in ClientType /\ c.queue = q /\ c.current = n + 1
    BY <1>3, <1>5, <2>0 DEF ClientType
  <2> HIDE DEF c
  <2> QED
    BY <1>3, <1>4, <1>5, <2>1 DEF Points
<1> HIDE DEF c, rs
<1>7. RefsOK' /\ cli' \in [Fds -> ClientType] /\ reqs' \in [Fds -> Seq(RequestType)]
  BY <1>1, <1>3, <1>4, <1>6, ConnData DEF OnlyAt
<1> QED
  BY <1>1, <1>2, <1>7 DEF IInv, DataInv, PeerTypes, HistTypes, DataTypes

\* The parser's step on the request being parsed: rs and c are the requests and
\* the client after it.
LEMMA RequestData ==
  ASSUME IInv, NEW c, NEW r, cli' = [cli EXCEPT ![cur] = c], c \in ClientType,
         c.current = cli[cur].current, c.queue = cli[cur].queue, Begun(cli[cur]),
         reqs' = [reqs EXCEPT ![cur] = [@ EXCEPT ![c.current] = r]],
         c.current \in DOMAIN reqs[cur] => r \in RequestType,
         UNCHANGED <<peerVars, wire, calls, reg, pc, cur, fault>>, pc = "parse",
         bad' \in BOOLEAN, buf' \in Seq(TokenType)
  PROVE  DataInv'
<1> DEFINE n == Len(reqs[cur])
           rs == [reqs[cur] EXCEPT ![c.current] = r]
<1>1. cur \in Fds /\ Points(cli[cur], n) /\ reqs[cur] \in Seq(RequestType)
  BY Fetch, Pointers
<1>2. rs \in Seq(RequestType) /\ Len(rs) = n
  <2>1. c.current \in DOMAIN reqs[cur] => r \in RequestType
    OBVIOUS
  <2> DEFINE w == reqs[cur]
             i == c.current
  <2>2. w \in Seq(RequestType) /\ (i \in DOMAIN w => r \in RequestType)
    BY <1>1, <2>1
  <2> HIDE DEF w, i
  <2>3. [w EXCEPT ![i] = r] \in Seq(RequestType) /\ Len([w EXCEPT ![i] = r]) = Len(w)
    BY <2>2, SeqExcept
  <2> QED
    BY <2>3 DEF w, i
<1>3. Points(c, n)
  BY <1>1 DEF Points
<1>4. cli[cur].queue # <<>>
  BY <1>1 DEF IInv, DataInv, RefsOK, Begun
<1>5. reqs' = [reqs EXCEPT ![cur] = rs]
  OBVIOUS
<1> HIDE DEF rs, n
<1>6. RefsOK' /\ cli' \in [Fds -> ClientType] /\ reqs' \in [Fds -> Seq(RequestType)]
  BY <1>1, <1>2, <1>3, <1>4, <1>5, ConnData DEF OnlyAt
<1> QED
  BY <1>6 DEF IInv, DataInv, PeerTypes, HistTypes, DataTypes

LEMMA BufferType ==
  ASSUME IInv
  PROVE  /\ buf \in Seq(TokenType) /\ bad \in BOOLEAN
         /\ buf # <<>> => Head(buf) \in TokenType /\ Tail(buf) \in Seq(TokenType)
<1>1. buf \in Seq(TokenType) /\ bad \in BOOLEAN
  BY DEF IInv, DataInv, DataTypes
<1>2. buf # <<>> => Head(buf) \in TokenType /\ Tail(buf) \in Seq(TokenType)
  BY <1>1
<1> QED
  BY <1>1, <1>2

LEMMA HeadersCompleteData ==
  ASSUME IInv, HeadersComplete PROVE DataInv'
<1> DEFINE k == cli[cur]
           h == Head(buf).h
           c == [k EXCEPT !.keep_alive = h.ka, !.minor = h.minor]
           old == reqs[cur][c.current]
           R(code, whole) == [old EXCEPT !.expect = h.expect, !.bodyCode = h.bodyCode,
                                         !.bad = code, !.whole = whole]
           next == NewMessage(c)
           c1 == [c EXCEPT !.parser = "body"]
           c2 == [c EXCEPT !.parser = next, !.complete = TRUE]
<1>1. /\ UNCHANGED <<peerVars, wire, calls, reg, pc, cur, fault>> /\ pc = "parse"
      /\ buf # <<>> /\ Head(buf).t = "head" /\ Begun(k)
  BY DEF HeadersComplete, Parsing, ParserUnchanged, Begun
<1>2. /\ \/ bad' = TRUE /\ UNCHANGED buf
         \/ bad' = bad /\ buf' = Tail(buf)
      /\ \E x \in {c, c1, c2}, code \in {h.code, 0}, whole \in BOOLEAN :
           /\ Client(x)
           /\ reqs' = [reqs EXCEPT ![cur] = [@ EXCEPT ![c.current] = R(code, whole)]]
  BY DEF HeadersComplete
<1>3. bad' \in BOOLEAN /\ buf' \in Seq(TokenType)
  BY <1>1, <1>2, BufferType
<1>4. h \in HeadType
  BY <1>1, BufferType DEF TokenType
<1>5. /\ h.ka \in BOOLEAN /\ h.minor \in {0, 1} /\ h.expect \in {"none", "continue", "other"}
      /\ h.bodyCode \in Codes /\ h.code \in Codes
  <2> HIDE DEF h
  <2> QED
    BY <1>4 DEF HeadType
<1>6. c \in ClientType /\ c.current = k.current /\ c.queue = k.queue
  <2>1. k \in ClientType
    BY Fetch
  <2> HIDE DEF k, h
  <2> QED
    BY <1>5, <2>1 DEF ClientType
<1>7. ASSUME NEW x \in {c, c1, c2}
      PROVE  x \in ClientType /\ x.current = k.current /\ x.queue = k.queue
  <2>1. next \in {"start", "dead"}
    BY DEF NewMessage
  <2> HIDE DEF c, k, next
  <2> QED
    BY <1>6, <1>7, <2>1 DEF ClientType
<1>8. ASSUME NEW code \in {h.code, 0}, NEW whole \in BOOLEAN, k.current \in DOMAIN reqs[cur]
      PROVE  R(code, whole) \in RequestType
  <2>1. old \in RequestType
    BY <1>6, <1>8, Fetch
  <2>2. code \in Codes
    BY <1>5 DEF Codes
  <2> DEFINE expect == h.expect
             bodyCode == h.bodyCode
  <2>3. expect \in {"none", "continue", "other"} /\ bodyCode \in Codes
    BY <1>5
  <2> HIDE DEF old, expect, bodyCode
  <2>4. [old EXCEPT !.expect = expect, !.bodyCode = bodyCode, !.bad = code, !.whole = whole]
          \in RequestType
    BY <2>1, <2>2, <2>3 DEF RequestType
  <2> QED
    BY <2>4 DEF expect, bodyCode
<1>9. PICK x \in {c, c1, c2}, code \in {h.code, 0}, whole \in BOOLEAN :
         /\ Client(x)
         /\ reqs' = [reqs EXCEPT ![cur] = [@ EXCEPT ![c.current] = R(code, whole)]]
  BY <1>2
<1> HIDE DEF R, c, c1, c2, h
<1> QED
  BY <1>1, <1>3, <1>6, <1>7, <1>8, <1>9, RequestData DEF Client

LEMMA BodyCompleteData ==
  ASSUME IInv, BodyComplete PROVE DataInv'
<1> DEFINE k == cli[cur]
           old == reqs[cur][k.current]
           code == old.bodyCode
           next == NewMessage(k)
           c == [k EXCEPT !.parser = next, !.complete = TRUE]
           r1 == [old EXCEPT !.bad = code]
           r2 == [old EXCEPT !.whole = TRUE]
<1>1. /\ UNCHANGED <<peerVars, wire, calls, reg, pc, cur, fault>> /\ pc = "parse"
      /\ buf # <<>> /\ Begun(k)
  BY DEF BodyComplete, Parsing, ParserUnchanged, Begun
<1>2. \/ /\ UNCHANGED <<cli, buf>> /\ bad' = TRUE
         /\ reqs' = [reqs EXCEPT ![cur] = [@ EXCEPT ![k.current] = r1]]
      \/ /\ Client(c) /\ buf' = Tail(buf) /\ bad' = bad
         /\ reqs' = [reqs EXCEPT ![cur] = [@ EXCEPT ![k.current] = r2]]
  BY DEF BodyComplete
<1>3. bad' \in BOOLEAN /\ buf' \in Seq(TokenType)
  BY <1>1, <1>2, BufferType
<1>4. k \in ClientType /\ cli = [cli EXCEPT ![cur] = k]
  BY Fetch
<1>5. c \in ClientType /\ c.current = k.current /\ c.queue = k.queue
  <2>1. next \in {"start", "dead"}
    BY DEF NewMessage
  <2> HIDE DEF k, next
  <2> QED
    BY <1>4, <2>1 DEF ClientType
<1>6. ASSUME k.current \in DOMAIN reqs[cur]
      PROVE  r1 \in RequestType /\ r2 \in RequestType
  <2>1. old \in RequestType
    BY <1>6, Fetch
  <2> HIDE DEF old
  <2> QED
    BY <2>1 DEF RequestType
<1> HIDE DEF c, r1, r2
<1> QED
  BY <1>1, <1>2, <1>3, <1>4, <1>5, <1>6, RequestData DEF Client

LEMMA ParseDoneData ==
  ASSUME IInv, ParseDone PROVE DataInv'
<1> DEFINE k == cli[cur]
           n == Len(reqs[cur])
           code == IF k.current = 0 THEN 400 ELSE reqs[cur][k.current].bad
<1>1. /\ UNCHANGED <<peerVars, wire, calls, reg, cur, fault>>
      /\ pc = "parse" /\ buf' = <<>> /\ bad' = FALSE
  BY DEF ParseDone
<1>2. \/ SetReadError(cur, k, code)
      \/ /\ UNCHANGED <<cli, reqs>>
         /\ (pc' = "finish" /\ k.complete) \/ pc' \in {"register", "return"}
  BY DEF ParseDone
<1>3. /\ cur \in Fds /\ Points(k, n) /\ reqs[cur] \in Seq(RequestType)
      /\ Begun(k) => k.queue # <<>>
  BY <1>1, Fetch, Pointers DEF IInv, DataInv, RefsOK, Begun
<1>4. code \in Codes
  <2>1. k.current \in Nat /\ k.current <= n
    BY <1>3, ClientFields DEF Points
  <2>2. ASSUME k.current # 0 PROVE reqs[cur][k.current] \in RequestType
    <3> HIDE DEF k
    <3> QED
      BY <1>3, <2>1, <2>2
  <2> HIDE DEF k
  <2> QED
    BY <2>2 DEF RequestType, Codes
<1>5. OnlyAt(cur) /\ (Begun(k) /\ reg'[cur].ev = "read" => k.queue # <<>>)
      /\ (k.complete => k.queue # <<>>)
  BY <1>1, <1>3 DEF OnlyAt, Begun
<1> HIDE DEF code
<1>6. RefsOK' /\ cli' \in [Fds -> ClientType] /\ reqs' \in [Fds -> Seq(RequestType)]
  <2>1. CASE SetReadError(cur, k, code)
    BY <1>1, <1>3, <1>4, <1>5, <2>1, ReadErrorData, Zenon
  <2>2. CASE /\ UNCHANGED <<cli, reqs>>
             /\ (pc' = "finish" /\ k.complete) \/ pc' \in {"register", "return"}
    BY <1>1, <1>3, <1>5, <2>2, Pointers, ConnData
  <2> QED
    BY <1>2, <2>1, <2>2
<1>7. <<>> \in Seq(TokenType)
  OBVIOUS
<1> QED
  BY <1>1, <1>6, <1>7 DEF IInv, DataInv, PeerTypes, HistTypes, DataTypes

-----------------------------------------------------------------------------
(* The theorems.                                                           *)

LEMMA InitData == ASSUME Init PROVE DataInv
<1> USE DEF Init
<1>1. NewClient(FALSE) \in ClientType
  BY NewClientType
<1>2. NewScript \in ScriptType
  BY DEF ScriptType, NewScript
<1>3. PeerTypes
  BY <1>2 DEF PeerTypes
<1>4. HistTypes
  BY DEF HistTypes
<1>5. DataTypes
  <2>1. buf \in Seq(TokenType)
    OBVIOUS
  <2> QED
    BY <1>1, <2>1 DEF DataTypes
<1>6. RefsOK
  BY DEF RefsOK, NewClient
<1> QED
  BY <1>3, <1>4, <1>5, <1>6 DEF DataInv

LEMMA NextData == ASSUME IInv, [Next]_vars PROVE DataInv'
<1>1. CASE UNCHANGED vars
  BY <1>1 DEF IInv, DataInv, PeerTypes, HistTypes, DataTypes, RefsOK
<1>2. CASE Stop \/ LoopExit \/ AcceptEvent
  BY <1>2, ControlData
<1>3. ASSUME NEW f \in Fds, Peer(f) \/ Event(f) PROVE DataInv'
  BY <1>3, PeerData, TimeoutData, ControlData DEF Event
<1>4. CASE Accepting
  BY <1>4, AcceptData, ControlData DEF Accepting
<1>5. CASE ReadRequest \/ Parse
  BY <1>5, ReadRequestData, MessageBeginData, HeadersCompleteData, BodyCompleteData,
     ParseSkipData, ParseDoneData, CrashData DEF Parse
<1>6. CASE Serve
  BY <1>6, FinishData, PrepareCallRackData, ProcessRackAppData, SendErrorPageData DEF Serve
<1>7. CASE Respond
  BY <1>7, WriteHeadersData, WriteItemData, FinishBodyData, RetryBucketData, ControlData,
     CrashData DEF Respond
<1>8. CASE Close \/ Return
  BY <1>8, CloseData, CrashData, ControlData DEF Close
<1> QED
  BY <1>1, <1>2, <1>3, <1>4, <1>5, <1>6, <1>7, <1>8 DEF Next, Callback

\* Every reachable state satisfies the inductive invariant: besides WatchInv,
\* current_req and the queue of a client_t are requests of its connection.
THEOREM Invariance == Spec => []IInv
<1>1. Init => IInv
  BY InitWatch, InitData DEF IInv
<1>2. IInv /\ [Next]_vars => IInv'
  BY NextWatch, NextData DEF IInv
<1> QED
  BY <1>1, <1>2, PTL DEF Spec

\* The model is type-correct.
THEOREM TypeCorrect == Spec => []TypeOK
<1>1. IInv => TypeOK
  BY DEF IInv, WatchInv, DataInv, TypeOK
<1> QED
  BY <1>1, Invariance, PTL

-----------------------------------------------------------------------------
(* 3. ServeInv is inductive.  Requests are called and answered once and in *)
(* the order they arrived, none is stranded in a queue or dropped at the   *)
(* end of a connection, and a client is used after it was freed in one     *)
(* situation only.                                                         *)

-----------------------------------------------------------------------------
(* Sequences of requests and answers.                                      *)

LEMMA AppendRange ==
  ASSUME NEW s \in Seq(Nat), NEW x
  PROVE  Range(Append(s, x)) = Range(s) \cup {x}
<1> DEFINE v == Append(s, x)
<1>1. /\ Len(s) \in Nat /\ DOMAIN v = 1 .. Len(s) + 1 /\ DOMAIN s = 1 .. Len(s)
      /\ \A i \in 1 .. Len(s) : v[i] = s[i]
      /\ v[Len(s) + 1] = x
  OBVIOUS
<1> HIDE DEF v
<1>2. Len(s) + 1 \in DOMAIN v /\ \A i \in DOMAIN v : i \in DOMAIN s \/ i = Len(s) + 1
  BY <1>1
<1>3. \A i \in DOMAIN s : i \in DOMAIN v /\ v[i] = s[i]
  BY <1>1
<1> QED
  BY <1>1, <1>2, <1>3 DEF Range, v

LEMMA AppendIncreasing ==
  ASSUME NEW s \in Seq(Nat), NEW x \in Nat, Increasing(s), \A y \in Range(s) : y < x
  PROVE  Increasing(Append(s, x))
<1>1. SUFFICES ASSUME NEW i \in 1 .. Len(s) + 1, NEW j \in 1 .. Len(s) + 1, i < j
               PROVE  Append(s, x)[i] < Append(s, x)[j]
  BY DEF Increasing
<1>2. i \in DOMAIN s /\ Append(s, x)[i] = s[i] /\ s[i] \in Range(s)
  BY <1>1 DEF Range
<1>3. CASE j = Len(s) + 1
  BY <1>2, <1>3
<1>4. CASE j # Len(s) + 1
  <2>1. j \in DOMAIN s /\ Append(s, x)[j] = s[j]
    BY <1>1, <1>4
  <2> QED
    BY <1>1, <1>2, <2>1 DEF Increasing
<1> QED
  BY <1>3, <1>4

LEMMA Shifting ==
  ASSUME NEW q \in Seq(Ids), q # <<>>, Increasing(q)
  PROVE  /\ Increasing(Tail(q)) /\ Head(q) \in Range(q) /\ Head(q) \in Ids
         /\ Range(q) = {Head(q)} \cup Range(Tail(q))
         /\ \A next \in Range(Tail(q)) : Head(q) < next
<1>1. /\ Len(q) \in Nat /\ 1 \in DOMAIN q /\ Head(q) = q[1] /\ Head(q) \in Ids
      /\ Tail(q) \in Seq(Ids) /\ Len(Tail(q)) = Len(q) - 1
      /\ \A i \in DOMAIN Tail(q) : i \in Nat /\ i + 1 \in DOMAIN q /\ Tail(q)[i] = q[i + 1]
  OBVIOUS
<1>2. Head(q) \in Range(q)
  BY <1>1 DEF Range
<1>3. Increasing(Tail(q))
  <2>1. SUFFICES ASSUME NEW i \in DOMAIN Tail(q), NEW j \in DOMAIN Tail(q), i < j
                 PROVE  Tail(q)[i] < Tail(q)[j]
    BY DEF Increasing
  <2>2. i + 1 < j + 1
    BY <1>1, <2>1
  <2> QED
    BY <1>1, <2>1, <2>2 DEF Increasing
<1>4. \A next \in Range(Tail(q)) : Head(q) < next /\ next \in Range(q)
  <2>1. SUFFICES ASSUME NEW i \in DOMAIN Tail(q)
                 PROVE  Head(q) < Tail(q)[i] /\ Tail(q)[i] \in Range(q)
    BY DEF Range
  <2>2. 1 < i + 1
    BY <1>1
  <2> QED
    BY <1>1, <2>1, <2>2 DEF Increasing, Range
<1>5. \A next \in Range(q) : next = Head(q) \/ next \in Range(Tail(q))
  <2>1. SUFFICES ASSUME NEW i \in 1 .. Len(q), i # 1
                 PROVE  q[i] \in Range(Tail(q))
    BY <1>1 DEF Range
  <2>2. i - 1 \in 1 .. Len(q) - 1 /\ i - 1 \in DOMAIN Tail(q)
    BY <1>1, <2>1
  <2>3. Tail(q)[i - 1] = q[i]
    BY <1>1, <2>1, <2>2
  <2> QED
    BY <2>2, <2>3 DEF Range
<1> QED
  BY <1>1, <1>2, <1>3, <1>4, <1>5

\* A second request in the queue is a second request of the connection.
LEMMA LastInRange ==
  ASSUME NEW q \in Seq(Ids), q # <<>>
  PROVE  Last(q) \in Range(q) /\ Last(q) \in Ids
BY DEF Last, Range

LEMMA AppendLast ==
  ASSUME NEW q \in Seq(Ids), NEW x \in Ids
  PROVE  Last(Append(q, x)) = x /\ Append(q, x) # <<>> /\ Append(q, x) \in Seq(Ids)
BY DEF Last

LEMMA AnswersAre ==
  ASSUME NEW w \in Seq(AnswerType)
  PROVE  /\ \A id \in Answers(w) : id \in Nat /\ \E i \in 1 .. Len(w) : Answer(w[i]) /\ w[i].id = id
         /\ \A i \in 1 .. Len(w) : w[i].id \in Nat /\ (Answer(w[i]) => w[i].id \in Answers(w))
<1>1. \A i \in 1 .. Len(w) : w[i] \in AnswerType
  OBVIOUS
<1>2. \A i \in 1 .. Len(w) : w[i].id \in Nat
  BY <1>1 DEF AnswerType
<1> QED
  BY <1>2 DEF Answers

\* A record that goes on the wire: Tell.
LEMMA AppendAnswers ==
  ASSUME NEW w \in Seq(AnswerType), NEW r \in AnswerType, Ordered(w),
         Answer(r) => \A id \in Answers(w) : id < r.id
  PROVE  /\ Ordered(Append(w, r))
         /\ Answers(Append(w, r)) = Answers(w) \cup (IF Answer(r) THEN {r.id} ELSE {})
         /\ Pages(Append(w, r)) = Pages(w) \cup (IF r.kind = "page" THEN {r.id} ELSE {})
<1> DEFINE v == Append(w, r)
<1>1. /\ Len(w) \in Nat /\ DOMAIN v = 1 .. Len(w) + 1 /\ DOMAIN w = 1 .. Len(w)
      /\ \A i \in 1 .. Len(w) : v[i] = w[i]
      /\ v[Len(w) + 1] = r
  OBVIOUS
<1> HIDE DEF v
<1>2. Ordered(v)
  <2>1. SUFFICES ASSUME NEW i \in DOMAIN v, NEW j \in DOMAIN v, i < j, Answer(v[i]), Answer(v[j])
                 PROVE  v[i].id < v[j].id
    BY DEF Ordered
  <2>2. i \in 1 .. Len(w) /\ v[i] = w[i]
    BY <1>1, <2>1
  <2>3. CASE j = Len(w) + 1
    BY <1>1, <2>1, <2>2, <2>3, AnswersAre
  <2>4. CASE j \in 1 .. Len(w)
    BY <1>1, <2>1, <2>2, <2>4 DEF Ordered
  <2> QED
    BY <1>1, <2>3, <2>4
<1>3. Answers(v) = Answers(w) \cup (IF Answer(r) THEN {r.id} ELSE {})
  <2>1. Len(w) + 1 \in DOMAIN v /\ \A i \in DOMAIN v : i \in DOMAIN w \/ i = Len(w) + 1
    BY <1>1
  <2>2. \A i \in DOMAIN w : i \in DOMAIN v /\ v[i] = w[i]
    BY <1>1
  <2> QED
    BY <1>1, <2>1, <2>2 DEF Answers
<1>4. Pages(v) = Pages(w) \cup (IF r.kind = "page" THEN {r.id} ELSE {})
  <2>1. Len(w) + 1 \in DOMAIN v /\ \A i \in DOMAIN v : i \in DOMAIN w \/ i = Len(w) + 1
    BY <1>1
  <2>2. \A i \in DOMAIN w : i \in DOMAIN v /\ v[i] = w[i]
    BY <1>1
  <2> QED
    BY <1>1, <2>1, <2>2 DEF Pages
<1> QED
  BY <1>2, <1>3, <1>4 DEF v

\* More of the answer that was sent last: Sent.
LEMMA ExtendAnswers ==
  ASSUME NEW w \in Seq(AnswerType), NEW n, NEW b
  PROVE  LET v == [w EXCEPT ![n] = Extend(w[n], b)]
         IN (Ordered(v) = Ordered(w)) /\ Answers(v) = Answers(w) /\ Pages(v) = Pages(w)
<1> DEFINE v == [w EXCEPT ![n] = Extend(w[n], b)]
<1>1. DOMAIN v = DOMAIN w
  OBVIOUS
<1>2. \A i \in DOMAIN w : v[i].id = w[i].id /\ v[i].kind = w[i].kind
  <2>1. SUFFICES ASSUME NEW i \in DOMAIN w PROVE v[i].id = w[i].id /\ v[i].kind = w[i].kind
    OBVIOUS
  <2>2. w[i] \in AnswerType
    OBVIOUS
  <2> QED
    BY <2>2 DEF Extend, AnswerType
<1> HIDE DEF v
<1>3. \A i \in DOMAIN w : Answer(v[i]) = Answer(w[i])
  BY <1>2 DEF Answer
<1>4. Answers(v) = Answers(w) /\ Pages(v) = Pages(w)
  BY <1>1, <1>2, <1>3 DEF Answers, Pages
<1>5. Ordered(v) = Ordered(w)
  BY <1>1, <1>2, <1>3 DEF Ordered
<1> QED
  BY <1>4, <1>5 DEF v

-----------------------------------------------------------------------------
(* What holds of each connection.                                          *)

Conn(f) == OrderOK(f) /\ CurrentOK(f) /\ ReadingOK(f) /\ CoverOK(f)

\* A connection that a step leaves alone: not the one the thread works on.
Alone(f) == /\ f # cur' /\ (f # cur \/ pc \in {"loop", "accept"})
            /\ cli'[f] = cli[f] /\ calls'[f] = calls[f] /\ reqs'[f] = reqs[f]
            /\ wire'[f] = wire[f] /\ mem'[f] = mem[f] /\ peer'[f] = peer[f]
            /\ reg'[f].ev = reg[f].ev
            /\ sock'[f] = sock[f]

LEMMA AloneConn ==
  ASSUME NEW f \in Fds, Conn(f), Alone(f)
  PROVE  Conn(f)'
<1>1. \A P : ~At(f, P)' /\ ~Started(f)'
  BY DEF Alone, At, Started
<1>2. ~At(f, {"parse", "finish", "page", "close", "crashed"}) /\ ~At(f, {"finish", "page", "close", "crashed"})
      /\ ~At(f, {"app", "page"}) /\ ~At(f, {"read", "parse", "register"})
  BY DEF Alone, At
<1>3. OrderOK(f)'
  BY DEF Alone, Conn, OrderOK
<1>4. CurrentOK(f)'
  BY <1>1 DEF CurrentOK
<1>5. ReadingOK(f)'
  BY <1>1, <1>2 DEF Alone, Conn, ReadingOK, Reading
<1>6. CoverOK(f)'
  BY <1>1, <1>2 DEF Alone, Conn, CoverOK
<1> QED
  BY <1>3, <1>4, <1>5, <1>6 DEF Conn

\* A step between callbacks, a return or a crash.
Resting(f) == /\ cur' = cur /\ me' = me
              /\ cli'[f] = cli[f] /\ calls'[f] = calls[f] /\ reqs'[f] = reqs[f]
              /\ wire'[f] = wire[f] /\ mem'[f] = mem[f] /\ peer'[f] = peer[f]
              /\ reg'[f].ev = "read" => Reading(f)
              /\ sock'[f] = "pending" => sock[f] = "pending"
              /\ pc' \in {"loop", "accept", "stopped", "return", "start", "crashed"}
              /\ pc' = "start" => mem[cur] # me
              /\ pc \in {"parse", "finish", "close"} => pc' = "crashed"
              /\ pc \notin {"app", "page", "crashed"}

LEMMA RestingConn ==
  ASSUME NEW f \in Fds, Conn(f), Resting(f)
  PROVE  Conn(f)'
<1>1. /\ ~Started(f)' /\ ~At(f, {"app", "page", "body"})' /\ ~At(f, {"app"})' /\ ~At(f, {"page"})'
      /\ ~At(f, {"body"})' /\ ~At(f, {"app", "page"})' /\ ~At(f, {"finish", "prepare", "app"})'
      /\ ~At(f, {"app", "body", "suspend"})' /\ ~At(f, {"read", "parse", "register"})'
  BY DEF Resting, At, Started
<1>2. /\ At(f, {"parse", "finish", "page", "close", "crashed"})
           => At(f, {"parse", "finish", "page", "close", "crashed"})'
      /\ At(f, {"finish", "page", "close", "crashed"}) => At(f, {"finish", "page", "close", "crashed"})'
      /\ ~At(f, {"app", "page"})
  BY DEF Resting, At
<1>3. OrderOK(f)'
  BY DEF Resting, Conn, OrderOK
<1>4. CurrentOK(f)'
  BY <1>1 DEF CurrentOK
<1>5. Reading(f)' => Reading(f)
  BY <1>1 DEF Resting, Reading
<1>6. ReadingOK(f)'
  BY <1>1, <1>2, <1>5 DEF Resting, Conn, ReadingOK
<1>7. CoverOK(f)'
  BY <1>1, <1>2 DEF Resting, Conn, CoverOK
<1> QED
  BY <1>3, <1>4, <1>6, <1>7 DEF Conn

LEMMA ControlConn ==
  ASSUME IInv, ServeInv,
         \/ LoopExit \/ AcceptEvent \/ AcceptDone \/ Register \/ Return \/ SuspendWrite
         \/ (\E f \in Fds : AcceptFails(f))
         \/ ParseNull \/ EmptyIterator \/ ClosedClient \/ SuspendAborts \/ CloseAborts
  PROVE  \A f \in Fds : Conn(f)'
<1>1. UNCHANGED <<cli, calls, reqs, wire, mem, peer, cur, me>>
  BY DEF LoopExit, AcceptEvent, AcceptDone, Register, Return, SuspendWrite, AcceptFails,
         ParseNull, EmptyIterator, ClosedClient, SuspendAborts, CloseAborts, Crash
<1>2. \A f \in Fds : sock'[f] = "pending" => sock[f] = "pending"
  <2>1. UNCHANGED sock \/ \E f \in Fds : sock' = [sock EXCEPT ![f] = "open"]
    BY DEF LoopExit, AcceptEvent, AcceptDone, Register, Return, SuspendWrite, AcceptFails,
           ParseNull, EmptyIterator, ClosedClient, SuspendAborts, CloseAborts, Crash
  <2> QED
    BY <2>1 DEF IInv, WatchInv, AllocTypes
<1>3. \A f \in Fds : reg'[f].ev = "read" => Reading(f)
  <2>1. CASE Register
    BY <2>1, Fetch DEF Register, Reading, At, IInv, WatchInv, AllocTypes
  <2>2. CASE SuspendWrite
    BY <2>2, Fetch DEF SuspendWrite, Reading, IInv, WatchInv, AllocTypes
  <2>3. CASE UNCHANGED reg
    BY <2>3 DEF Reading
  <2> QED
    BY <2>1, <2>2, <2>3 DEF LoopExit, AcceptEvent, AcceptDone, Return, AcceptFails,
           ParseNull, EmptyIterator, ClosedClient, SuspendAborts, CloseAborts, Crash
<1>4. /\ pc' \in {"loop", "accept", "stopped", "return", "start", "crashed"}
      /\ pc \in {"parse", "finish", "close"} => pc' = "crashed"
      /\ pc \notin {"app", "page", "crashed"}
  BY DEF LoopExit, AcceptEvent, AcceptDone, Register, Return, SuspendWrite, AcceptFails,
         ParseNull, EmptyIterator, ClosedClient, SuspendAborts, CloseAborts, Crash
<1>5. pc' = "start" => mem[cur] # me
  <2>1. pc' = "start" => Return
    BY DEF LoopExit, AcceptEvent, AcceptDone, Register, SuspendWrite, AcceptFails,
           ParseNull, EmptyIterator, ClosedClient, SuspendAborts, CloseAborts, Crash
  <2>2. Return /\ pc' = "start" => pc = "return" /\ nested > 0
    BY DEF Return
  <2> QED
    BY <2>1, <2>2 DEF ServeInv, NestOK
<1>6. \A f \in Fds : Resting(f)
  BY <1>1, <1>2, <1>3, <1>4, <1>5 DEF Resting
<1> QED
  BY <1>6, RestingConn DEF ServeInv, Conn

LEMMA EventConn ==
  ASSUME IInv, ServeInv, NEW d \in Fds, ReadEvent(d) \/ WriteEvent(d)
  PROVE  \A f \in Fds : Conn(f)'
<1>1. /\ UNCHANGED <<cli, calls, reqs, wire, mem, peer, sock, reg>> /\ cur' = d /\ pc = "loop"
      /\ (pc' = "read" /\ reg[d].ev = "read") \/ (pc' = "retry" /\ reg[d].ev = "write")
  BY DEF ReadEvent, WriteEvent, Dispatch
<1>2. \A f \in Fds \ {d} : Conn(f)'
  BY <1>1, AloneConn DEF Alone, ServeInv, Conn
<1>3. Conn(d)'
  <2>1. /\ ~Started(d)' /\ ~At(d, {"app", "page", "body"})' /\ ~At(d, {"app"})' /\ ~At(d, {"page"})'
        /\ ~At(d, {"body"})' /\ ~At(d, {"app", "page"})' /\ ~At(d, {"finish", "prepare", "app"})'
        /\ ~At(d, {"app", "body", "suspend"})'
        /\ ~At(d, {"parse", "finish", "page", "close", "crashed"})
        /\ ~At(d, {"finish", "page", "close", "crashed"})
        /\ ~At(d, {"app", "page"})
    BY <1>1 DEF At, Started
  <2>2. Reading(d)' => Reading(d)
    BY <1>1 DEF Reading, At
  <2>3. OrderOK(d)' /\ CurrentOK(d)'
    BY <1>1, <2>1 DEF ServeInv, OrderOK, CurrentOK
  <2>4. ReadingOK(d)'
    BY <1>1, <2>1, <2>2 DEF ServeInv, ReadingOK
  <2>5. CoverOK(d)'
    BY <1>1, <2>1 DEF ServeInv, CoverOK
  <2> QED
    BY <2>3, <2>4, <2>5 DEF Conn
<1> QED
  BY <1>2, <1>3

\* A peer connects, sends, ends or resets its connection, or fills and drains it.
LEMMA PeerConn ==
  ASSUME IInv, ServeInv, NEW d \in Fds, Peer(d)
  PROVE  \A f \in Fds : Conn(f)'
<1>1. UNCHANGED <<cli, calls, reqs, mem, reg, cur, me, pc>>
  BY DEF Peer, PeerConnect, PeerSend, PeerEof, PeerReset, PeerStall, PeerDrain
<1>2. SUFFICES ASSUME NEW f \in Fds PROVE Conn(f)'
  OBVIOUS
<1>3. OrderOK(f) /\ CurrentOK(f) /\ ReadingOK(f) /\ CoverOK(f)
  BY DEF ServeInv
<1>4. CASE /\ wire'[f] = wire[f] /\ sock'[f] = sock[f]
           /\ peer[f] = "reset" => peer'[f] = "reset"
  <2>1. OrderOK(f)' /\ CurrentOK(f)'
    BY <1>1, <1>3, <1>4 DEF OrderOK, CurrentOK, At, Started
  <2>2. ReadingOK(f)'
    BY <1>1, <1>3, <1>4 DEF ReadingOK, Reading, At, Started
  <2>3. CoverOK(f)'
    BY <1>1, <1>3, <1>4 DEF CoverOK, At, Started
  <2> QED
    BY <2>1, <2>2, <2>3 DEF Conn
<1>5. CASE wire'[f] = <<>> /\ sock[f] = "closed"
  <2>1. mem[f] = 0 /\ reg[f].ev = "none" /\ (f = cur => pc \notin Working) /\ ~Started(f)
    BY <1>2, <1>5, Fetch DEF IInv, WatchInv, AllocOK, StackOK, Started, At
  <2>2. Answers(<<>>) = {} /\ Ordered(<<>>)
    BY DEF Answers, Ordered
  <2>3. OrderOK(f)'
    BY <1>1, <1>3, <1>5, <2>2 DEF OrderOK
  <2>4. CurrentOK(f)' /\ CoverOK(f)'
    BY <1>1, <2>1 DEF CurrentOK, CoverOK, At, Started, Working
  <2>5. ReadingOK(f)'
    BY <1>1, <2>1 DEF ReadingOK, Reading, At, Started, Working
  <2> QED
    BY <2>3, <2>4, <2>5 DEF Conn
<1>6. CASE PeerConnect(d)
  <2>1. /\ sock[d] = "closed" /\ sock' = [sock EXCEPT ![d] = "pending"]
        /\ peer' = [peer EXCEPT ![d] = "up"] /\ wire' = [wire EXCEPT ![d] = <<>>]
    BY <1>6 DEF PeerConnect
  <2>2. /\ f # d => wire'[f] = wire[f] /\ sock'[f] = sock[f] /\ peer'[f] = peer[f]
        /\ f = d => wire'[f] = <<>>
    BY <2>1 DEF IInv, WatchInv, DataInv, AllocTypes, PeerTypes, HistTypes
  <2> QED
    BY <1>4, <1>5, <2>1, <2>2
<1>7. CASE PeerSend(d) \/ PeerEof(d) \/ PeerReset(d) \/ PeerStall(d) \/ PeerDrain(d)
  <2>1. UNCHANGED <<wire, sock>> /\ (peer[f] = "reset" => peer'[f] = "reset")
    BY <1>7 DEF PeerSend, PeerEof, PeerReset, PeerStall, PeerDrain, IInv, DataInv, PeerTypes
  <2> QED
    BY <1>4, <2>1
<1> QED
  BY <1>6, <1>7 DEF Peer

LEMMA AcceptConn ==
  ASSUME IInv, ServeInv, NEW d \in Fds, Accept(d)
  PROVE  \A f \in Fds : Conn(f)'
<1>1. /\ UNCHANGED <<wire, peer, reg>> /\ cur' = d /\ me' = gens[d] + 1 /\ pc = "accept"
      /\ pc' = "read" /\ sock[d] = "pending"
      /\ cli' = [cli EXCEPT ![d] = NewClient(FALSE)]
      /\ calls' = [calls EXCEPT ![d] = <<>>] /\ reqs' = [reqs EXCEPT ![d] = <<>>]
      /\ mem' = [mem EXCEPT ![d] = gens[d] + 1] /\ sock' = [sock EXCEPT ![d] = "open"]
  BY DEF Accept
<1>2. /\ cli \in [Fds -> ClientType] /\ calls \in [Fds -> Seq(Nat)]
      /\ reqs \in [Fds -> Seq(RequestType)] /\ mem \in [Fds -> Nat]
      /\ sock \in [Fds -> {"closed", "pending", "open"}]
  BY Fetch DEF IInv, WatchInv, AllocTypes
<1>3. ASSUME NEW f \in Fds, f # d PROVE Conn(f)'
  <2>1. Alone(f)
    BY <1>1, <1>2, <1>3 DEF Alone
  <2> QED
    BY <2>1, AloneConn DEF ServeInv, Conn
<1>4. Conn(d)'
  <2>1. /\ cli'[d] = NewClient(FALSE) /\ calls'[d] = <<>> /\ reqs'[d] = <<>> /\ wire'[d] = <<>>
        /\ sock'[d] = "open"
    BY <1>1, <1>2 DEF ServeInv, OrderOK
  <2>2. /\ cli'[d].queue = <<>> /\ cli'[d].current = 0 /\ cli'[d].complete = FALSE
        /\ cli'[d].header_done = FALSE /\ cli'[d].response_closed = FALSE
    BY <2>1 DEF NewClient
  <2>3. /\ Range(<<>>) = {} /\ Increasing(<<>>) /\ Ordered(<<>>) /\ Answers(<<>>) = {}
        /\ DOMAIN <<>> = {}
    BY DEF Range, Increasing, Ordered, Answers
  <2>4. OrderOK(d)'
    BY <2>1, <2>2, <2>3 DEF OrderOK
  <2>5. /\ ~Started(d)' /\ ~At(d, {"app", "page", "body"})' /\ ~At(d, {"app"})' /\ ~At(d, {"page"})'
        /\ ~At(d, {"body"})' /\ ~At(d, {"app", "page"})' /\ ~At(d, {"finish", "prepare", "app"})'
        /\ ~At(d, {"app", "body", "suspend"})'
    BY <1>1 DEF At, Started
  <2>6. CurrentOK(d)' /\ CoverOK(d)'
    BY <2>1, <2>3, <2>5 DEF CurrentOK, CoverOK
  <2>7. ReadingOK(d)'
    BY <2>2, <2>5 DEF ReadingOK, HeaderOut
  <2> QED
    BY <2>4, <2>6, <2>7 DEF Conn
<1> QED
  BY <1>3, <1>4

\* set_read_error and what comes of it: c is the client it finds.
LEMMA ReadErrorConn ==
  ASSUME IInv, ServeInv, NEW d \in Fds, NEW c \in ClientType, NEW code, SetReadError(d, c, code),
         cur' = d, d = cur \/ pc = "loop", pc \in {"loop", "read", "parse"},
         Reading(d), UNCHANGED <<wire, calls, peer, mem, sock>>,
         \A f \in Fds : reg'[f].ev = reg[f].ev,
         c.queue = cli[d].queue, c.current = cli[d].current, c.complete = cli[d].complete,
         HeaderOut(c) => HeaderOut(cli[d]) \/ peer[d] = "reset"
  PROVE  \A f \in Fds : Conn(f)'
<1> DEFINE status == IF code = 0 THEN 400 ELSE code
           i == Last(c.queue)
           rs == [reqs[d] EXCEPT ![i].bad = status]
           c1 == [c EXCEPT !.keep_alive = FALSE]
           c2 == [c EXCEPT !.keep_alive = FALSE, !.status = status]
<1>1. /\ cli \in [Fds -> ClientType] /\ reqs \in [Fds -> Seq(RequestType)]
  BY Fetch
<1>2. \/ /\ c.queue # <<>> /\ pc' = "finish"
         /\ reqs' = [reqs EXCEPT ![d] = rs] /\ cli' = [cli EXCEPT ![d] = c1]
      \/ /\ c.queue = <<>> /\ pc' = "page" /\ reqs' = reqs /\ cli' = [cli EXCEPT ![d] = c2]
  BY DEF SetReadError
<1>3. /\ Len(rs) = Len(reqs[d]) /\ DOMAIN rs = DOMAIN reqs[d]
      /\ \A id \in DOMAIN rs : rs[id].whole = reqs[d][id].whole
  <2>1. reqs[d] \in Seq(RequestType)
    BY <1>1
  <2> DEFINE old == reqs[d]
             st == status
  <2> HIDE DEF status, i
  <2>2. DOMAIN rs = DOMAIN old
    OBVIOUS
  <2>3. \A id \in DOMAIN old : rs[id].whole = old[id].whole
    <3>1. \A id \in DOMAIN old : old[id] \in RequestType
      BY <2>1
    <3>2. \A r \in RequestType : [r EXCEPT !.bad = status].whole = r.whole
      BY DEF RequestType
    <3>3. \A id \in DOMAIN old : rs[id] = old[id] \/ rs[id] = [old[id] EXCEPT !.bad = status]
      OBVIOUS
    <3> QED
      BY <3>1, <3>2, <3>3
  <2>4. Len(rs) = Len(old)
    BY <2>1, <2>2
  <2> QED
    BY <2>2, <2>3, <2>4
<1>4. /\ c1.queue = c.queue /\ c1.current = c.current /\ c1.complete = c.complete
      /\ HeaderOut(c1) = HeaderOut(c)
      /\ c2.queue = c.queue /\ c2.current = c.current /\ c2.complete = c.complete
      /\ HeaderOut(c2) = HeaderOut(c)
  <2> HIDE DEF status
  <2> QED
    BY DEF ClientType, HeaderOut
<1> HIDE DEF status, i, rs, c1, c2
<1>5. ASSUME NEW f \in Fds, f # d PROVE Conn(f)'
  <2>1. Alone(f)
    BY <1>1, <1>2, <1>5 DEF Alone
  <2> QED
    BY <2>1, AloneConn DEF ServeInv, Conn
<1>6. /\ cli'[d].queue = c.queue /\ cli'[d].current = c.current
      /\ cli'[d].complete = c.complete /\ HeaderOut(cli'[d]) = HeaderOut(c)
      /\ Len(reqs'[d]) = Len(reqs[d]) /\ DOMAIN reqs'[d] = DOMAIN reqs[d]
      /\ \A id \in DOMAIN reqs[d] : reqs'[d][id].whole = reqs[d][id].whole
      /\ (pc' = "finish" /\ c.queue # <<>>) \/ (pc' = "page" /\ c.queue = <<>>)
  <2>1. CASE /\ c.queue # <<>> /\ pc' = "finish"
             /\ reqs' = [reqs EXCEPT ![d] = rs] /\ cli' = [cli EXCEPT ![d] = c1]
    <3>1. reqs'[d] = rs /\ cli'[d] = c1
      BY <1>1, <2>1
    <3> QED
      BY <1>3, <1>4, <2>1, <3>1
  <2>2. CASE c.queue = <<>> /\ pc' = "page" /\ reqs' = reqs /\ cli' = [cli EXCEPT ![d] = c2]
    <3>1. reqs'[d] = reqs[d] /\ cli'[d] = c2
      BY <1>1, <2>2
    <3> QED
      BY <1>4, <2>2, <3>1
  <2> QED
    BY <1>2, <2>1, <2>2
<1>7. /\ OrderOK(d) /\ ReadingOK(d) /\ CoverOK(d)
      /\ ~At(d, {"app", "page"}) /\ ~At(d, {"finish", "page", "close", "crashed"})
  BY DEF ServeInv, At
<1>8. HeaderOut(c) => peer[d] = "reset"
  BY <1>7 DEF ReadingOK
<1>9. Range(<<>>) = {}
  BY DEF Range
<1>10. /\ ~Started(d)' /\ ~At(d, {"app"})' /\ ~At(d, {"body"})'
       /\ ~At(d, {"app", "body", "suspend"})'
       /\ At(d, {"parse", "finish", "page", "close", "crashed"})'
       /\ At(d, {"finish", "page", "close", "crashed"})'
       /\ At(d, {"app", "page", "body"})' => pc' = "page"
       /\ At(d, {"page"})' => pc' = "page"
  BY <1>6 DEF At, Started
<1>11. OrderOK(d)'
  BY <1>6, <1>7 DEF OrderOK
<1>12. CurrentOK(d)'
  <2>1. pc' = "page" => cli'[d].current = 0 /\ Range(cli'[d].queue) = {}
    BY <1>6, <1>7, <1>9 DEF ReadingOK
  <2> QED
    BY <1>10, <2>1 DEF CurrentOK
<1>13. ReadingOK(d)'
  <2>1. peer'[d] = peer[d]
    OBVIOUS
  <2>2. cli'[d].queue = <<>> => cli'[d].current = 0
    BY <1>6, <1>7 DEF ReadingOK
  <2>3. ASSUME cli'[d].queue # <<>>
        PROVE  /\ cli'[d].current = Last(cli'[d].queue)
               /\ reqs'[d][cli'[d].current].whole => cli'[d].complete
    <3>1. /\ c.current = Last(c.queue) /\ c.queue # <<>>
          /\ reqs[d][c.current].whole => c.complete
      BY <1>6, <1>7, <2>3 DEF ReadingOK
    <3>2. c.current \in DOMAIN reqs[d]
      <4>1. Points(c, Len(reqs[d])) /\ reqs[d] \in Seq(RequestType) /\ c.queue \in Seq(Ids)
        BY Pointers DEF Points
      <4>2. Last(c.queue) \in Range(c.queue) /\ Last(c.queue) \in Ids
        BY <3>1, <4>1, LastInRange
      <4>3. c.current <= Len(reqs[d]) /\ c.current \in Nat \ {0}
        BY <3>1, <4>1, <4>2 DEF Points, Ids
      <4> QED
        BY <4>1, <4>3
    <3> QED
      BY <1>6, <3>1, <3>2
  <2> QED
    BY <1>6, <1>8, <1>10, <2>1, <2>2, <2>3 DEF ReadingOK
<1>14. CoverOK(d)'
  BY <1>6, <1>7, <1>8, <1>10 DEF CoverOK
<1> QED
  BY <1>5, <1>11, <1>12, <1>13, <1>14 DEF Conn

\* The connections the thread does not work on.
Elsewhere == \A f \in Fds \ {cur} :
               /\ cli'[f] = cli[f] /\ calls'[f] = calls[f] /\ reqs'[f] = reqs[f]
               /\ wire'[f] = wire[f] /\ mem'[f] = mem[f] /\ peer'[f] = peer[f]
               /\ reg'[f].ev = reg[f].ev /\ sock'[f] = sock[f]

LEMMA LocalConn ==
  ASSUME ServeInv, cur' = cur, Elsewhere, Conn(cur)'
  PROVE  \A f \in Fds : Conn(f)'
<1>1. ASSUME NEW f \in Fds, f # cur PROVE Conn(f)'
  <2>1. Alone(f) /\ Conn(f)
    BY <1>1 DEF Alone, Elsewhere, ServeInv, Conn
  <2> QED
    BY <2>1, AloneConn
<1> QED
  BY <1>1

-----------------------------------------------------------------------------
(* Writing the response.                                                   *)

\* n is the client and w what is on the wire after a step of the response.
Responding(n, w) ==
  /\ cli' = [cli EXCEPT ![cur] = n] /\ wire' = [wire EXCEPT ![cur] = w]
  /\ UNCHANGED <<peer, calls, reqs, mem, reg, sock, cur, me>>
  /\ n.queue = cli[cur].queue /\ n.current = cli[cur].current /\ n.complete = cli[cur].complete
  /\ Ordered(w) /\ Pages(wire[cur]) \subseteq Pages(w)
  /\ \/ Answers(w) = Answers(wire[cur])
     \/ pc \in {"start", "page"} /\ Answers(w) = Answers(wire[cur]) \cup {n.current}
  /\ pc \in {"start", "body", "wbody", "retry", "page"} /\ mem[cur] = me
  /\ pc' \in {"page", "close", "body", "wbody", "suspend", "return"}
  /\ pc' \in {"page", "body", "suspend"} => pc \in {"start", "body"}
  /\ pc = "page" => /\ pc' = "close"
                    /\ HeaderOut(cli[cur]) \/ peer[cur] = "reset" \/ n.current \in Pages(w)
  /\ pc' = "page" /\ ~HeaderOut(n) => pc = "start" /\ w = wire[cur]
  /\ pc' = "body" => n.header_done

LEMMA RespondingConn ==
  ASSUME IInv, ServeInv, NEW n, NEW w, Responding(n, w)
  PROVE  \A f \in Fds : Conn(f)'
<1> DEFINE k == cli[cur]
<1>1. cur \in Fds /\ Elsewhere
  BY Fetch DEF Elsewhere, Responding
<1>2. /\ cli'[cur] = n /\ wire'[cur] = w
      /\ n.queue = k.queue /\ n.current = k.current /\ n.complete = k.complete
  BY Fetch DEF Responding
<1>3. OrderOK(cur) /\ CurrentOK(cur) /\ ReadingOK(cur) /\ CoverOK(cur)
  BY <1>1 DEF ServeInv
<1>4. /\ pc = "start" => Started(cur)
      /\ At(cur, {"app", "page", "body"}) = (pc \in {"app", "page", "body"})
      /\ At(cur, {"app", "page"}) = (pc \in {"app", "page"})
      /\ At(cur, {"page"}) = (pc = "page") /\ At(cur, {"body"}) = (pc = "body")
      /\ At(cur, {"app", "body", "suspend"}) = (pc \in {"app", "body", "suspend"})
      /\ At(cur, {"parse", "finish", "page", "close", "crashed"})
           = (pc \in {"parse", "finish", "page", "close", "crashed"})
      /\ At(cur, {"finish", "page", "close", "crashed"})
           = (pc \in {"finish", "page", "close", "crashed"})
      /\ ~Started(cur)' /\ ~At(cur, {"app"})' /\ ~At(cur, {"finish", "prepare", "app"})'
      /\ ~At(cur, {"read", "parse", "register"})'
      /\ At(cur, {"app", "page", "body"})' => pc' \in {"page", "body"}
      /\ At(cur, {"page"})' => pc' = "page"
      /\ At(cur, {"body"})' => pc' = "body"
      /\ At(cur, {"app", "body", "suspend"})' => pc \in {"start", "body"}
      /\ pc' = "close" => /\ At(cur, {"parse", "finish", "page", "close", "crashed"})'
                          /\ At(cur, {"finish", "page", "close", "crashed"})'
      /\ cur' = cur /\ reqs' = reqs /\ reg' = reg
  BY <1>1 DEF Responding, Started, At
<1>5. me # 0 /\ sock[cur] = "open" /\ (pc \in {"retry", "wbody"} => reg[cur].ev = "write")
      /\ k.current <= Len(reqs[cur])
  <2>1. me # 0 /\ (pc \in {"retry", "wbody"} => reg[cur].ev = "write")
    BY DEF Responding, IInv, WatchInv, StackOK, Working
  <2>2. sock[cur] = "open"
    BY <1>1, <2>1 DEF Responding, IInv, WatchInv, AllocOK
  <2>3. k.current <= Len(reqs[cur])
    BY <1>1 DEF IInv, DataInv, RefsOK
  <2> QED
    BY <2>1, <2>2, <2>3
<1> HIDE DEF k
<1>6. OrderOK(cur)'
  <2>1. \A id \in Answers(w) :
          id <= Len(reqs[cur]) /\ \A next \in Range(n.queue) : id < next
    <3>1. CASE Answers(w) = Answers(wire[cur])
      BY <1>2, <1>3, <3>1 DEF OrderOK, k
    <3>2. CASE pc \in {"start", "page"} /\ Answers(w) = Answers(wire[cur]) \cup {n.current}
      <4>1. \A next \in Range(k.queue) : k.current < next
        BY <1>3, <1>4, <3>2 DEF CurrentOK, k
      <4>2. \A id \in Answers(wire[cur]) :
              id <= Len(reqs[cur]) /\ \A next \in Range(k.queue) : id < next
        BY <1>3 DEF OrderOK, k
      <4> QED
        BY <1>2, <1>5, <3>2, <4>1, <4>2
    <3> QED
      BY <3>1, <3>2 DEF Responding
  <2>2. /\ Ordered(w) /\ calls'[cur] = calls[cur] /\ reqs'[cur] = reqs[cur] /\ sock'[cur] = "open"
    BY <1>5 DEF Responding
  <2> QED
    BY <1>2, <1>3, <2>1, <2>2 DEF OrderOK, Responding, k
<1>7. CurrentOK(cur)'
  <2>1. pc' \in {"page", "body"} => \A next \in Range(k.queue) : k.current < next
    <3>1. pc \in {"start", "body"} => \A next \in Range(k.queue) : k.current < next
      BY <1>3, <1>4 DEF CurrentOK, k
    <3> QED
      BY <3>1 DEF Responding
  <2>2. pc' = "page" /\ ~HeaderOut(n) => \A id \in Answers(w) : id < n.current
    <3>1. pc = "start" => \A id \in Answers(wire[cur]) : id < k.current
      BY <1>3, <1>4 DEF CurrentOK, k
    <3> QED
      BY <1>2, <3>1 DEF Responding
  <2>3. pc' = "body" => n.header_done
    BY DEF Responding
  <2> QED
    BY <1>2, <1>4, <2>1, <2>2, <2>3 DEF CurrentOK
<1>8. ReadingOK(cur)'
  <2>1. Reading(cur)' => Reading(cur) /\ pc = "page" /\ pc' = "close"
    BY <1>3, <1>4, <1>5 DEF Reading, Responding, ReadingOK
  <2>2. pc \in {"start", "body"} => reg[cur].ev # "read"
    BY <1>3, <1>4 DEF ReadingOK
  <2> QED
    BY <1>2, <1>3, <1>4, <2>1, <2>2 DEF ReadingOK, k
<1>9. CoverOK(cur)'
  <2>1. UNCHANGED <<mem, peer, reqs, calls, cur>>
    BY DEF Responding
  <2>2. SUFFICES ASSUME mem[cur] # 0, peer[cur] # "reset" PROVE CoverOK(cur)'
    BY <2>1 DEF CoverOK
  <2>3. pc \in {"start", "body"} \/ (pc = "page" /\ HeaderOut(k)) => k.current \in Range(calls[cur])
    BY <1>3, <1>4, <2>2 DEF CoverOK, k
  <2>4. \A id \in DOMAIN reqs[cur] : reqs[cur][id].whole =>
          id \in Range(k.queue) \cup Range(calls[cur]) \cup Pages(w)
    <3>1. pc = "page" => k.current \in Range(calls[cur]) \cup Pages(w)
      BY <1>2, <2>2, <2>3 DEF Responding, k
    <3>2. pc # "app" /\ Pages(wire[cur]) \subseteq Pages(w)
      BY DEF Responding
    <3> QED
      BY <1>3, <1>4, <2>2, <3>1, <3>2 DEF CoverOK, k
  <2>5. pc' \in {"body", "page"} => k.current \in Range(calls[cur])
    BY <2>3 DEF Responding
  <2> QED
    BY <1>2, <1>4, <2>1, <2>4, <2>5 DEF CoverOK
<1>10. Conn(cur)'
  BY <1>6, <1>7, <1>8, <1>9 DEF Conn
<1> QED
  BY <1>1, <1>10, LocalConn DEF Responding

\* Nothing new on the wire, or more of the last answer.
LEMMA SameOrMore ==
  ASSUME IInv, ServeInv, NEW b, UNCHANGED wire \/ Sent(b)
  PROVE  \E w : /\ wire' = [wire EXCEPT ![cur] = w] /\ Ordered(w)
                /\ Pages(w) = Pages(wire[cur]) /\ Answers(w) = Answers(wire[cur])
                /\ UNCHANGED wire => w = wire[cur]
<1> DEFINE old == wire[cur]
           more == [old EXCEPT ![Len(old)] = Extend(old[Len(old)], b)]
<1>1. old \in Seq(AnswerType) /\ Ordered(old) /\ wire \in [Fds -> Seq(AnswerType)] /\ cur \in Fds
  BY Fetch DEF ServeInv, OrderOK
<1>2. CASE UNCHANGED wire
  <2>1. wire' = [wire EXCEPT ![cur] = old]
    BY <1>1, <1>2
  <2> QED
    BY <1>1, <2>1
<1>3. CASE Sent(b)
  <2>1. wire' = [wire EXCEPT ![cur] = more]
    BY <1>3 DEF Sent
  <2>2. Ordered(more) /\ Pages(more) = Pages(old) /\ Answers(more) = Answers(old)
    BY <1>1, ExtendAnswers
  <2>3. UNCHANGED wire => more = old
    <3>1. wire'[cur] = more
      BY <1>1, <2>1
    <3> QED
      BY <3>1
  <2> QED
    BY <2>1, <2>2, <2>3
<1> QED
  BY <1>2, <1>3

LEMMA WriteItemConn ==
  ASSUME IInv, ServeInv, WriteItem
  PROVE  \A f \in Fds : Conn(f)'
<1> DEFINE k == cli[cur]
           len == Head(k.iter)
           c == [k EXCEPT !.iter = Tail(@)]
           b == Bucket(c, FALSE, len)
           sent == c.write_bytes + len
           status == IF pc = "body" THEN 500 ELSE c.status
           c1 == [c EXCEPT !.write_bytes = sent]
           c2 == [c1 EXCEPT !.response_closed = TRUE]
           c3 == [c EXCEPT !.bucket = b]
           c4 == [c EXCEPT !.bucket = b, !.status = status]
<1>1. k \in ClientType /\ cur \in Fds /\ (pc = "body" => k.header_done)
      /\ mem[cur] = me /\ pc \in {"body", "wbody"}
  <2>1. k \in ClientType /\ cur \in Fds /\ pc \in {"body", "wbody"}
    BY Fetch DEF WriteItem
  <2>2. CurrentOK(cur)
    BY <2>1 DEF ServeInv
  <2>3. pc = "body" => k.header_done
    BY <2>2 DEF CurrentOK, At
  <2>4. mem[cur] = me
    BY <2>1 DEF IInv, WatchInv, StackOK, Working
  <2> QED
    BY <2>1, <2>3, <2>4
<1>2. \E n \in {c1, c2, c3, c4} : Client(n)
  BY DEF WriteItem, BodyDone
<1>3. UNCHANGED wire \/ Sent(b)
  BY DEF WriteItem
<1>4. /\ UNCHANGED <<peer, calls, reqs, mem, reg, sock, cur, me>>
      /\ pc' \in {"page", "close", "body", "wbody", "suspend", "return"}
      /\ pc' \in {"page", "body", "suspend"} => pc = "body"
  <2>1. CASE pc = "body"
    BY <2>1 DEF WriteItem, BodyDone, ResponseUnchanged
  <2>2. CASE pc = "wbody"
    BY <2>2 DEF WriteItem, BodyDone, ResponseUnchanged
  <2> QED
    BY <1>1, <2>1, <2>2
<1> HIDE DEF k
<1>5. c.queue = k.queue /\ c.current = k.current /\ c.complete = k.complete
      /\ c.header_done = k.header_done /\ c = [k EXCEPT !.iter = c.iter]
  BY <1>1 DEF ClientType
<1> HIDE DEF b, sent, status, len
<1>6. \A n \in {c1, c2, c3, c4} : /\ n.queue = k.queue /\ n.current = k.current
                                 /\ n.complete = k.complete /\ n.header_done = k.header_done
  <2> DEFINE t == Tail(k.iter)
  <2> HIDE DEF t
  <2> QED
    BY <1>1 DEF ClientType
<1>7. PICK w : /\ wire' = [wire EXCEPT ![cur] = w] /\ Ordered(w)
               /\ Pages(w) = Pages(wire[cur]) /\ Answers(w) = Answers(wire[cur])
  BY <1>3, SameOrMore
<1> HIDE DEF c1, c2, c3, c4
<1>8. PICK n \in {c1, c2, c3, c4} : Client(n)
  BY <1>2
<1>9. Responding(n, w)
  <2>1. n.queue = k.queue /\ n.current = k.current /\ n.complete = k.complete
        /\ n.header_done = k.header_done
    BY <1>6
  <2> QED
    BY <1>1, <1>4, <1>7, <1>8, <2>1 DEF Responding, Client, HeaderOut, k
<1> QED
  BY <1>9, RespondingConn

LEMMA FinishBodyConn ==
  ASSUME IInv, ServeInv, FinishBody
  PROVE  \A f \in Fds : Conn(f)'
<1> DEFINE k == cli[cur]
           n == [k EXCEPT !.response_closed = TRUE]
<1>1. k \in ClientType /\ cur \in Fds /\ mem[cur] = me /\ pc \in {"body", "wbody"}
  BY Fetch DEF FinishBody, IInv, WatchInv, StackOK, Working
<1>2. /\ UNCHANGED <<peer, calls, reqs, mem, reg, sock, cur, me>>
      /\ cli' = [cli EXCEPT ![cur] = n] /\ pc' \in {"close", "return"}
      /\ UNCHANGED wire \/ Sent(LastPacket)
  BY DEF FinishBody, BodyDone, ResponseUnchanged, Client
<1>3. n.queue = k.queue /\ n.current = k.current /\ n.complete = k.complete
  BY <1>1 DEF ClientType
<1> HIDE DEF n
<1>4. PICK w : /\ wire' = [wire EXCEPT ![cur] = w] /\ Ordered(w)
               /\ Pages(w) = Pages(wire[cur]) /\ Answers(w) = Answers(wire[cur])
  BY <1>2, SameOrMore
<1>5. Responding(n, w)
  BY <1>1, <1>2, <1>3, <1>4 DEF Responding
<1> QED
  BY <1>5, RespondingConn

LEMMA RetryBucketConn ==
  ASSUME IInv, ServeInv, RetryBucket
  PROVE  \A f \in Fds : Conn(f)'
<1> DEFINE k == cli[cur]
           b == k.bucket
           total == b.len + (IF b.head THEN HeadLen ELSE 0)
           c1 == [k EXCEPT !.write_bytes = @ + total, !.bucket = NoBucket]
           c2 == [k EXCEPT !.bucket = NoBucket]
<1>1. k \in ClientType /\ cur \in Fds /\ mem[cur] = me /\ pc = "retry"
      /\ cli = [cli EXCEPT ![cur] = k]
  BY Fetch DEF RetryBucket, IInv, WatchInv, StackOK, Working
<1>2. /\ UNCHANGED <<peer, calls, reqs, mem, reg, sock, cur, me>>
      /\ pc' \in {"close", "wbody"}
      /\ UNCHANGED wire \/ Sent(b)
  BY DEF RetryBucket, ResponseUnchanged
<1>3. UNCHANGED cli \/ Client(k) \/ Client(c1) \/ Client(c2)
  BY DEF RetryBucket
<1> HIDE DEF k, total
<1>4. \A n \in {k, c1, c2} : n.queue = k.queue /\ n.current = k.current /\ n.complete = k.complete
  BY <1>1 DEF ClientType
<1> HIDE DEF c1, c2, b
<1>5. PICK n \in {k, c1, c2} : cli' = [cli EXCEPT ![cur] = n]
  BY <1>1, <1>3 DEF Client
<1>6. PICK w : /\ wire' = [wire EXCEPT ![cur] = w] /\ Ordered(w)
               /\ Pages(w) = Pages(wire[cur]) /\ Answers(w) = Answers(wire[cur])
  BY <1>2, SameOrMore
<1>7. Responding(n, w)
  BY <1>1, <1>2, <1>4, <1>5, <1>6 DEF Responding, k
<1> QED
  BY <1>7, RespondingConn

\* A record behind the others, of the client's request and not yet answered.
LEMMA TellAnswers ==
  ASSUME IInv, ServeInv, NEW r \in AnswerType, Tell(r),
         Answer(r) => \A id \in Answers(wire[cur]) : id < r.id
  PROVE  \E w : /\ wire' = [wire EXCEPT ![cur] = w] /\ Ordered(w)
                /\ Answers(w) = Answers(wire[cur]) \cup (IF Answer(r) THEN {r.id} ELSE {})
                /\ Pages(w) = Pages(wire[cur]) \cup (IF r.kind = "page" THEN {r.id} ELSE {})
<1> DEFINE w == Append(wire[cur], r)
<1>1. wire[cur] \in Seq(AnswerType) /\ Ordered(wire[cur])
  BY Fetch DEF ServeInv, OrderOK
<1>2. wire' = [wire EXCEPT ![cur] = w]
  BY DEF Tell
<1> QED
  BY <1>1, <1>2, AppendAnswers

LEMMA SendErrorPageConn ==
  ASSUME IInv, ServeInv, SendErrorPage
  PROVE  \A f \in Fds : Conn(f)'
<1> DEFINE k == cli[cur]
           c1 == [k EXCEPT !.keep_alive = FALSE, !.header_done = TRUE, !.response_closed = TRUE]
           c2 == [c1 EXCEPT !.status = 500]
           r == Record("page", Page(k.status))
           old == wire[cur]
<1>1. /\ k \in ClientType /\ cur \in Fds /\ mem[cur] = me /\ pc = "page"
      /\ cli = [cli EXCEPT ![cur] = k]
  BY Fetch DEF SendErrorPage, IInv, WatchInv, StackOK, Working
<1>2. /\ UNCHANGED <<peer, calls, reqs, mem, reg, sock, cur, me>> /\ pc' = "close"
  BY DEF SendErrorPage
<1>3. \/ HeaderOut(k) /\ UNCHANGED <<cli, wire>>
      \/ ~HeaderOut(k) /\ peer[cur] = "reset" /\ Client(c2) /\ UNCHANGED wire
      \/ ~HeaderOut(k) /\ Client(c1) /\ Tell(r)
  BY DEF SendErrorPage, HeaderOut
<1>4. r \in AnswerType /\ r.id = k.current /\ r.kind = "page"
  <2>1. Page(k.status) \in Nat
    BY <1>1, ClientFields DEF Page
  <2> QED
    BY Fetch, <2>1, RecordType DEF Record
<1>5. ~HeaderOut(k) /\ Answer(r) => \A id \in Answers(old) : id < r.id
  <2>1. CurrentOK(cur)
    BY <1>1 DEF ServeInv
  <2> HIDE DEF r
  <2> QED
    BY <1>1, <1>4, <2>1 DEF CurrentOK, At, Answer
<1> HIDE DEF r, k
<1>6. \A n \in {k, c1, c2} : n.queue = k.queue /\ n.current = k.current /\ n.complete = k.complete
  <2>1. /\ c1 \in ClientType
        /\ c1.queue = k.queue /\ c1.current = k.current /\ c1.complete = k.complete
    BY <1>1 DEF ClientType
  <2> HIDE DEF c1
  <2>2. c2.queue = c1.queue /\ c2.current = c1.current /\ c2.complete = c1.complete
    BY <2>1 DEF ClientType
  <2> HIDE DEF c2
  <2> QED
    BY <2>1, <2>2
<1> HIDE DEF c1, c2
<1>7. CASE ~HeaderOut(k) /\ Client(c1) /\ Tell(r)
  <2>1. PICK w : /\ wire' = [wire EXCEPT ![cur] = w] /\ Ordered(w)
                 /\ Answers(w) = Answers(old) \cup (IF Answer(r) THEN {r.id} ELSE {})
                 /\ Pages(w) = Pages(old) \cup (IF r.kind = "page" THEN {r.id} ELSE {})
    BY <1>4, <1>5, <1>7, TellAnswers
  <2>2. \/ Answers(w) = Answers(old)
        \/ Answers(w) = Answers(old) \cup {c1.current}
    BY <1>4, <1>6, <2>1
  <2>3. /\ Pages(old) \subseteq Pages(w) /\ c1.current \in Pages(w)
        /\ c1.queue = k.queue /\ c1.current = k.current /\ c1.complete = k.complete
    BY <1>4, <1>6, <2>1
  <2>4. Responding(c1, w)
    BY <1>1, <1>2, <1>7, <2>1, <2>2, <2>3 DEF Responding, Client, k
  <2> QED
    BY <2>4, RespondingConn
<1>8. CASE UNCHANGED wire /\ (HeaderOut(k) \/ peer[cur] = "reset") /\ (UNCHANGED cli \/ Client(c2))
  <2>1. PICK n \in {k, c1, c2} : cli' = [cli EXCEPT ![cur] = n]
    BY <1>1, <1>8 DEF Client
  <2>2. PICK w : /\ wire' = [wire EXCEPT ![cur] = w] /\ Ordered(w)
                 /\ Pages(w) = Pages(wire[cur]) /\ Answers(w) = Answers(wire[cur])
    BY <1>8, SameOrMore
  <2>3. Responding(n, w)
    BY <1>1, <1>2, <1>6, <1>8, <2>1, <2>2 DEF Responding, k
  <2> QED
    BY <2>3, RespondingConn
<1> QED
  BY <1>3, <1>7, <1>8

LEMMA WriteHeadersConn ==
  ASSUME IInv, ServeInv, WriteHeaders
  PROVE  \A f \in Fds : Conn(f)'
<1> DEFINE k == cli[cur]
           old == wire[cur]
<1>1. cur \in Fds /\ mem[cur] = me /\ pc = "start"
  BY Fetch DEF WriteHeaders
<1>2. UNCHANGED <<peer, calls, reqs, mem, reg, sock, cur, me>>
  BY DEF WriteHeaders, ResponseUnchanged
<1>3. PICK n : /\ Kept(n, k) /\ cli' = [cli EXCEPT ![cur] = n]
               /\ \/ UNCHANGED wire /\ pc' = "page"
                  \/ \E r \in AnswerType :
                       /\ Tell(r) /\ r.id = k.current /\ r.kind = "app"
                       /\ pc' \in {"close", "body", "suspend"}
                       /\ pc' = "body" => n.header_done
  BY WriteHeadersStep
<1> HIDE DEF k
<1>4. n.queue = k.queue /\ n.current = k.current /\ n.complete = k.complete
  BY <1>3 DEF Kept
<1>5. CASE UNCHANGED wire /\ pc' = "page"
  <2>1. PICK w : /\ wire' = [wire EXCEPT ![cur] = w] /\ Ordered(w)
                 /\ Pages(w) = Pages(old) /\ Answers(w) = Answers(old)
                 /\ UNCHANGED wire => w = old
    BY <1>5, SameOrMore
  <2>2. Responding(n, w)
    BY <1>1, <1>2, <1>3, <1>4, <1>5, <2>1 DEF Responding, k
  <2> QED
    BY <2>2, RespondingConn
<1>6. ASSUME NEW r \in AnswerType, Tell(r), r.id = k.current, r.kind = "app",
             pc' \in {"close", "body", "suspend"}, pc' = "body" => n.header_done
      PROVE  \A f \in Fds : Conn(f)'
  <2>1. Answer(r) => \A id \in Answers(old) : id < r.id
    <3>1. CurrentOK(cur) /\ Started(cur)
      BY <1>1 DEF ServeInv, Started, At
    <3> QED
      BY <1>6, <3>1 DEF CurrentOK, k
  <2>2. PICK w : /\ wire' = [wire EXCEPT ![cur] = w] /\ Ordered(w)
                 /\ Answers(w) = Answers(old) \cup (IF Answer(r) THEN {r.id} ELSE {})
                 /\ Pages(w) = Pages(old) \cup (IF r.kind = "page" THEN {r.id} ELSE {})
    BY <1>6, <2>1, TellAnswers
  <2>3. \/ Answers(w) = Answers(old)
        \/ Answers(w) = Answers(old) \cup {n.current}
    BY <1>4, <1>6, <2>2
  <2>4. Pages(old) \subseteq Pages(w)
    BY <2>2
  <2>5. Responding(n, w)
    BY <1>1, <1>2, <1>3, <1>4, <1>6, <2>2, <2>3, <2>4 DEF Responding, k
  <2> QED
    BY <2>5, RespondingConn
<1> QED
  BY <1>3, <1>5, <1>6

-----------------------------------------------------------------------------
(* Reading and parsing.                                                    *)

\* A piece of input that completes no request and begins none.
LEMMA IdleReadConn ==
  ASSUME IInv, ServeInv, pc \in {"read", "parse"}, pc' \in {"parse", "register", "return", "finish"},
         UNCHANGED <<cli, calls, reqs, wire, mem, peer, sock, cur, me>>,
         \A f \in Fds : reg'[f].ev = reg[f].ev,
         pc' \in {"register", "return"} => ~cli[cur].complete
  PROVE  \A f \in Fds : Conn(f)'
<1>1. cur \in Fds /\ Elsewhere
  BY Fetch DEF Elsewhere
<1>2. OrderOK(cur) /\ ReadingOK(cur) /\ CoverOK(cur) /\ Reading(cur)
  BY <1>1 DEF ServeInv, Reading, At
<1>3. /\ ~Started(cur)' /\ ~At(cur, {"app", "page", "body"})' /\ ~At(cur, {"app"})'
      /\ ~At(cur, {"page"})' /\ ~At(cur, {"body"})' /\ ~At(cur, {"app", "page"})'
      /\ ~At(cur, {"app", "body", "suspend"})'
      /\ ~At(cur, {"app", "page"}) /\ ~At(cur, {"finish", "page", "close", "crashed"})
      /\ pc' \in {"parse", "finish"} => At(cur, {"parse", "finish", "page", "close", "crashed"})'
  BY <1>1 DEF At, Started
<1>4. OrderOK(cur)' /\ CurrentOK(cur)' /\ CoverOK(cur)'
  BY <1>2, <1>3 DEF OrderOK, CurrentOK, CoverOK
<1>5. ReadingOK(cur)'
  BY <1>2, <1>3 DEF ReadingOK
<1>6. Conn(cur)'
  BY <1>4, <1>5 DEF Conn
<1> QED
  BY <1>1, <1>6, LocalConn

LEMMA ParseIdleConn ==
  ASSUME IInv, ServeInv, ParseBlank \/ ParseError
  PROVE  \A f \in Fds : Conn(f)'
<1>1. /\ UNCHANGED <<cli, calls, reqs, wire, mem, peer, sock, cur, me, reg, pc>> /\ pc = "parse"
  BY DEF ParseBlank, ParseError, ParserUnchanged, Parsing
<1> QED
  BY <1>1, IdleReadConn

LEMMA ReadRequestConn ==
  ASSUME IInv, ServeInv, ReadRequest
  PROVE  \A f \in Fds : Conn(f)'
<1> DEFINE c == cli[cur]
           gone == [c EXCEPT !.header_done = TRUE, !.response_closed = TRUE]
<1>1. /\ UNCHANGED <<calls, wire, mem, peer, sock, cur, me>> /\ pc = "read"
  BY DEF ReadRequest
<1>2. \A f \in Fds : reg'[f].ev = reg[f].ev
  BY Fetch DEF ReadRequest, Rearm, IInv, WatchInv, AllocTypes, RegType
<1>3. \/ pc' \in {"parse", "register", "return"} /\ UNCHANGED <<cli, reqs>>
      \/ SetReadError(cur, c, 503)
      \/ peer[cur] = "reset" /\ SetReadError(cur, gone, 500)
  BY DEF ReadRequest
<1>4. cur \in Fds /\ c \in ClientType /\ Reading(cur) /\ ReadingOK(cur)
  BY <1>1, Fetch DEF ServeInv, Reading, At
<1>5. CASE pc' \in {"parse", "register", "return"} /\ UNCHANGED <<cli, reqs>>
  <2>1. ~c.complete
    BY <1>1, <1>4 DEF ReadingOK, At
  <2> QED
    BY <1>1, <1>2, <1>5, <2>1, IdleReadConn
<1>6. CASE SetReadError(cur, c, 503)
  BY <1>1, <1>2, <1>4, <1>6, ReadErrorConn
<1>7. CASE peer[cur] = "reset" /\ SetReadError(cur, gone, 500)
  <2>1. gone \in ClientType /\ gone.queue = c.queue /\ gone.current = c.current
        /\ gone.complete = c.complete
    <3> HIDE DEF c
    <3> QED
      BY <1>4 DEF ClientType
  <2> HIDE DEF gone
  <2> QED
    BY <1>1, <1>2, <1>4, <1>7, <2>1, ReadErrorConn
<1> QED
  BY <1>3, <1>5, <1>6, <1>7

LEMMA ParseDoneConn ==
  ASSUME IInv, ServeInv, ParseDone
  PROVE  \A f \in Fds : Conn(f)'
<1> DEFINE c == cli[cur]
           code == IF c.current = 0 THEN 400 ELSE reqs[cur][c.current].bad
<1>1. /\ UNCHANGED <<calls, wire, mem, peer, sock, cur, me, reg>> /\ pc = "parse"
  BY DEF ParseDone
<1>2. \/ SetReadError(cur, c, code)
      \/ /\ pc' \in {"finish", "register", "return"} /\ (pc' # "finish" => ~c.complete)
         /\ UNCHANGED <<cli, reqs>>
  BY DEF ParseDone
<1>3. cur \in Fds /\ c \in ClientType /\ Reading(cur)
  BY <1>1, Fetch DEF Reading, At
<1> HIDE DEF code
<1>4. CASE SetReadError(cur, c, code)
  BY <1>1, <1>3, <1>4, ReadErrorConn
<1>5. CASE /\ pc' \in {"finish", "register", "return"} /\ (pc' # "finish" => ~c.complete)
           /\ UNCHANGED <<cli, reqs>>
  BY <1>1, <1>5, IdleReadConn
<1> QED
  BY <1>2, <1>4, <1>5

LEMMA TimeoutConn ==
  ASSUME IInv, ServeInv, NEW d \in Fds, Timeout(d)
  PROVE  \A f \in Fds : Conn(f)'
<1>1. /\ UNCHANGED <<calls, wire, mem, peer, sock>> /\ pc = "loop" /\ cur' = d
      /\ reg' = [reg EXCEPT ![d].armed = FALSE]
  BY DEF Timeout
<1>2. \A f \in Fds : reg'[f].ev = reg[f].ev
  BY <1>1 DEF IInv, WatchInv, AllocTypes, RegType
<1>3. \/ reg[d].ev = "read" /\ SetReadError(d, cli[d], 408)
      \/ /\ reg[d].ev = "write" /\ pc' = "close" /\ UNCHANGED reqs
         /\ cli' = [cli EXCEPT ![d].keep_alive = FALSE]
  BY DEF Timeout
<1>4. CASE reg[d].ev = "read" /\ SetReadError(d, cli[d], 408)
  <2>1. Reading(d) /\ cli[d] \in ClientType
    BY <1>4, Pointers DEF Reading
  <2> QED
    BY <1>1, <1>2, <1>4, <2>1, ReadErrorConn
<1>5. CASE /\ reg[d].ev = "write" /\ pc' = "close" /\ UNCHANGED reqs
           /\ cli' = [cli EXCEPT ![d].keep_alive = FALSE]
  <2>1. ASSUME NEW f \in Fds, f # d PROVE Conn(f)'
    <3>1. Alone(f)
      BY <1>1, <1>2, <1>5, <2>1, Fetch DEF Alone
    <3> QED
      BY <3>1, AloneConn DEF ServeInv, Conn
  <2>2. Conn(d)'
    <3>1. /\ cli'[d].queue = cli[d].queue /\ cli'[d].current = cli[d].current
      <4>1. cli'[d] = [cli[d] EXCEPT !.keep_alive = FALSE] /\ cli[d] \in ClientType
        BY <1>5, Fetch
      <4> QED
        BY <4>1 DEF ClientType
    <3>2. OrderOK(d) /\ CoverOK(d) /\ ReadingOK(d)
      BY DEF ServeInv
    <3>3. /\ ~Started(d)' /\ ~At(d, {"app", "page", "body"})' /\ ~At(d, {"app"})'
          /\ ~At(d, {"page"})' /\ ~At(d, {"body"})' /\ ~At(d, {"app", "page"})'
          /\ ~At(d, {"app", "body", "suspend"})' /\ ~At(d, {"finish", "prepare", "app"})'
          /\ ~Reading(d)' /\ ~At(d, {"app", "page"})
      BY <1>1, <1>2, <1>5 DEF At, Started, Reading
    <3>4. OrderOK(d)' /\ CurrentOK(d)' /\ CoverOK(d)'
      BY <1>1, <1>5, <3>1, <3>2, <3>3 DEF OrderOK, CurrentOK, CoverOK
    <3>5. ReadingOK(d)'
      BY <3>3 DEF ReadingOK
    <3> QED
      BY <3>4, <3>5 DEF Conn
  <2> QED
    BY <2>1, <2>2
<1> QED
  BY <1>3, <1>4, <1>5

\* A callback of http_parser leaves the client n and the requests rs: the
\* request it worked on is the last of the queue.
LEMMA ParsedConn ==
  ASSUME IInv, ServeInv, pc = "parse", pc' = "parse", NEW n, NEW rs,
         cli' = [cli EXCEPT ![cur] = n], reqs' = [reqs EXCEPT ![cur] = rs],
         UNCHANGED <<calls, wire, mem, peer, sock, cur, me, reg>>,
         HeaderOut(n) => HeaderOut(cli[cur]),
         n.queue # <<>>, n.current = Last(n.queue), Increasing(n.queue),
         Range(cli[cur].queue) \subseteq Range(n.queue),
         \A id \in Range(calls[cur]) \cup Answers(wire[cur]) :
           id <= Len(rs) /\ \A next \in Range(n.queue) : id < next,
         \A id \in DOMAIN rs : rs[id].whole =>
           (id \in DOMAIN reqs[cur] /\ reqs[cur][id].whole) \/ id \in Range(n.queue),
         rs[n.current].whole => n.complete
  PROVE  \A f \in Fds : Conn(f)'
<1>1. cur \in Fds /\ Elsewhere
  BY Fetch DEF Elsewhere
<1>2. cli'[cur] = n /\ reqs'[cur] = rs
  BY Fetch
<1>3. OrderOK(cur) /\ ReadingOK(cur) /\ CoverOK(cur) /\ Reading(cur)
  BY <1>1 DEF ServeInv, Reading, At
<1>4. /\ ~Started(cur)' /\ ~At(cur, {"app", "page", "body"})' /\ ~At(cur, {"app"})'
      /\ ~At(cur, {"page"})' /\ ~At(cur, {"body"})' /\ ~At(cur, {"app", "page"})'
      /\ ~At(cur, {"app", "body", "suspend"})' /\ ~At(cur, {"finish", "prepare", "app"})'
      /\ At(cur, {"parse", "finish", "page", "close", "crashed"})'
      /\ ~At(cur, {"app", "page"}) /\ ~At(cur, {"finish", "page", "close", "crashed"})
  BY <1>1 DEF At, Started
<1>5. OrderOK(cur)'
  BY <1>2, <1>3 DEF OrderOK
<1>6. CurrentOK(cur)'
  BY <1>4 DEF CurrentOK
<1>7. ReadingOK(cur)'
  BY <1>2, <1>3, <1>4 DEF ReadingOK
<1>8. CoverOK(cur)'
  BY <1>2, <1>3, <1>4 DEF CoverOK
<1>9. Conn(cur)'
  BY <1>5, <1>6, <1>7, <1>8 DEF Conn
<1> QED
  BY <1>1, <1>9, LocalConn

LEMMA MessageBeginConn ==
  ASSUME IInv, ServeInv, MessageBegin
  PROVE  \A f \in Fds : Conn(f)'
<1> DEFINE k == cli[cur]
           m == Len(reqs[cur])
           id == m + 1
           q == Append(k.queue, id)
           rs == Append(reqs[cur], NewReq)
           n == [k EXCEPT !.current = id, !.complete = FALSE, !.parser = "head", !.queue = q]
<1>1. /\ UNCHANGED <<calls, wire, mem, peer, sock, cur, me, reg, pc>> /\ pc = "parse"
      /\ cli' = [cli EXCEPT ![cur] = n] /\ reqs' = [reqs EXCEPT ![cur] = rs]
  BY DEF MessageBegin, Parsing, ParserUnchanged, Client
<1>2. cur \in Fds /\ Points(k, m) /\ m \in Nat /\ reqs[cur] \in Seq(RequestType)
      /\ k \in ClientType /\ k.queue \in Seq(Ids)
  BY Fetch, Pointers
<1>3. id \in Ids /\ id \in Nat /\ id = m + 1
  BY <1>2 DEF Ids
<1> HIDE DEF id
<1>4. n.queue = q /\ n.current = id /\ HeaderOut(n) = HeaderOut(k)
  <2> HIDE DEF k, q
  <2> QED
    BY <1>2 DEF ClientType, HeaderOut
<1> HIDE DEF n
<1>5. OrderOK(cur)
  BY <1>2 DEF ServeInv
<1>6. \A next \in Range(k.queue) : next \in Nat /\ next <= m
  <2> DEFINE old == k.queue
  <2>1. old \in Seq(Ids) /\ \A i \in DOMAIN old : old[i] <= m
    BY <1>2 DEF Points
  <2> HIDE DEF old
  <2>2. \A i \in DOMAIN old : old[i] \in Nat
    BY <2>1 DEF Ids
  <2> QED
    BY <2>1, <2>2 DEF Range, old
<1>7. q # <<>> /\ Last(q) = id
  BY <1>2, <1>3, AppendLast
<1>8. Range(q) = Range(k.queue) \cup {id} /\ Increasing(q)
  <2>1. k.queue \in Seq(Nat) /\ Increasing(k.queue) /\ \A next \in Range(k.queue) : next < id
    <3>1. Increasing(k.queue)
      BY <1>5 DEF OrderOK
    <3>2. \A next \in Range(k.queue) : next < id
      <4> HIDE DEF k, m
      <4> QED
        BY <1>2, <1>3, <1>6
    <3>3. k.queue \in Seq(Nat)
      BY <1>2 DEF Ids
    <3> QED
      BY <3>1, <3>2, <3>3
  <2> HIDE DEF k
  <2> QED
    BY <1>3, <2>1, AppendRange, AppendIncreasing
<1>9. \A x \in Range(calls[cur]) \cup Answers(wire[cur]) :
        x <= m /\ \A next \in Range(k.queue) : x < next
  BY <1>5 DEF OrderOK
<1>10. \A x \in Range(calls[cur]) \cup Answers(wire[cur]) : x \in Nat
  BY <1>2, Fetch, AnswersAre DEF Range
<1>11. Len(rs) = m + 1 /\ rs[id] = NewReq /\ DOMAIN rs = 1 .. m + 1 /\ DOMAIN reqs[cur] = 1 .. m
       /\ \A i \in 1 .. m : rs[i] = reqs[cur][i]
  BY <1>2, <1>3
<1>12. \A x \in Range(calls[cur]) \cup Answers(wire[cur]) :
         x <= Len(rs) /\ \A next \in Range(q) : x < next
  <2> HIDE DEF q, k, rs, m
  <2> QED
    BY <1>2, <1>3, <1>8, <1>9, <1>10, <1>11
<1>13. ~NewReq.whole
  BY DEF NewReq
<1>14. \A i \in DOMAIN rs : rs[i].whole => i \in DOMAIN reqs[cur] /\ reqs[cur][i].whole
  <2> HIDE DEF rs, m
  <2>1. \A i \in 1 .. m + 1 : i \in 1 .. m \/ i = id
    BY <1>2, <1>3
  <2> QED
    BY <1>11, <1>13, <2>1
<1> HIDE DEF q, rs, m
<1>15. ~rs[n.current].whole
  BY <1>4, <1>11, <1>13
<1> QED
  BY <1>1, <1>4, <1>7, <1>8, <1>12, <1>14, <1>15, ParsedConn

\* The record of the request that is parsed is replaced by r.
LEMMA RequestConn ==
  ASSUME IInv, ServeInv, pc = "parse", pc' = "parse", NEW n, NEW r, Begun(cli[cur]),
         cli' = [cli EXCEPT ![cur] = n],
         reqs' = [reqs EXCEPT ![cur] = [@ EXCEPT ![cli[cur].current] = r]],
         UNCHANGED <<calls, wire, mem, peer, sock, cur, me, reg>>,
         HeaderOut(n) => HeaderOut(cli[cur]),
         n.queue = cli[cur].queue, n.current = cli[cur].current,
         r.whole => n.complete
  PROVE  \A f \in Fds : Conn(f)'
<1> DEFINE k == cli[cur]
           old == reqs[cur]
           rs == [old EXCEPT ![k.current] = r]
<1>1. cur \in Fds /\ old \in Seq(RequestType) /\ k.queue \in Seq(Ids) /\ Points(k, Len(old))
  BY Fetch, Pointers
<1>2. k.queue # <<>>
  BY <1>1 DEF IInv, DataInv, RefsOK, Begun
<1>3. OrderOK(cur) /\ ReadingOK(cur) /\ Reading(cur)
  BY <1>1 DEF ServeInv, Reading, At
<1>4. k.current = Last(k.queue) /\ k.current \in Range(k.queue)
  BY <1>1, <1>2, <1>3, LastInRange DEF ReadingOK
<1>5. k.current \in DOMAIN old
  <2>1. k.current \in Ids /\ k.current <= Len(old)
    BY <1>1, <1>2, <1>4, LastInRange DEF Points
  <2> HIDE DEF k
  <2> QED
    BY <1>1, <2>1 DEF Ids
<1>6. /\ DOMAIN rs = DOMAIN old /\ Len(rs) = Len(old) /\ rs[k.current] = r
      /\ \A id \in DOMAIN old : id # k.current => rs[id] = old[id]
  <2> HIDE DEF k
  <2>1. /\ DOMAIN rs = DOMAIN old /\ rs[k.current] = r
        /\ \A id \in DOMAIN old : id # k.current => rs[id] = old[id]
    BY <1>5
  <2>2. Len(rs) = Len(old)
    BY <1>1, <2>1
  <2> QED
    BY <2>1, <2>2
<1>7. reqs' = [reqs EXCEPT ![cur] = rs]
  OBVIOUS
<1> HIDE DEF rs
<1>8. \A id \in Range(calls[cur]) \cup Answers(wire[cur]) :
        id <= Len(rs) /\ \A next \in Range(n.queue) : id < next
  BY <1>3, <1>6 DEF OrderOK
<1>9. \A id \in DOMAIN rs : rs[id].whole =>
        (id \in DOMAIN reqs[cur] /\ reqs[cur][id].whole) \/ id \in Range(n.queue)
  BY <1>4, <1>6
<1>10. rs[n.current].whole => n.complete
  BY <1>6
<1>11. Increasing(n.queue)
  BY <1>3 DEF OrderOK
<1> QED
  BY <1>2, <1>4, <1>7, <1>8, <1>9, <1>10, <1>11, ParsedConn

LEMMA HeadersCompleteConn ==
  ASSUME IInv, ServeInv, HeadersComplete
  PROVE  \A f \in Fds : Conn(f)'
<1> DEFINE k == cli[cur]
           h == Head(buf).h
           c == [k EXCEPT !.keep_alive = h.ka, !.minor = h.minor]
           old == reqs[cur][c.current]
           R(code, whole) == [old EXCEPT !.expect = h.expect, !.bodyCode = h.bodyCode,
                                         !.bad = code, !.whole = whole]
           next == NewMessage(c)
           c1 == [c EXCEPT !.parser = "body"]
           c2 == [c EXCEPT !.parser = next, !.complete = TRUE]
<1>1. /\ UNCHANGED <<calls, wire, mem, peer, sock, cur, me, reg, pc>> /\ pc = "parse"
      /\ Begun(k)
  BY DEF HeadersComplete, Parsing, ParserUnchanged, Begun
<1>2. \E x \in {c, c1, c2}, code \in {h.code, 0}, whole \in BOOLEAN :
        /\ whole => x = c2
        /\ Client(x)
        /\ reqs' = [reqs EXCEPT ![cur] = [@ EXCEPT ![c.current] = R(code, whole)]]
  BY DEF HeadersComplete
<1>3. k \in ClientType /\ cur \in Fds /\ old \in RequestType
  <2>1. k \in ClientType /\ cur \in Fds /\ ReadingOK(cur) /\ Reading(cur)
    BY <1>1, Fetch DEF ServeInv, Reading, At
  <2>2. k.queue # <<>>
    BY <1>1, <2>1 DEF IInv, DataInv, RefsOK, Begun
  <2>3. k.current = Last(k.queue)
    BY <2>1, <2>2 DEF ReadingOK
  <2>4. k.current \in Ids /\ k.current <= Len(reqs[cur]) /\ reqs[cur] \in Seq(RequestType)
    BY <2>1, <2>2, <2>3, Pointers, LastInRange DEF Points
  <2>5. c.current = k.current
    <3> HIDE DEF k, h
    <3> QED
      BY <2>1 DEF ClientType
  <2> HIDE DEF c, k
  <2>6. c.current \in DOMAIN reqs[cur]
    BY <2>4, <2>5 DEF Ids
  <2> QED
    BY <2>1, <2>4, <2>6
<1>4. c.current = k.current /\ c.queue = k.queue /\ HeaderOut(c) = HeaderOut(k)
      /\ c = [k EXCEPT !.keep_alive = c.keep_alive, !.minor = c.minor]
  <2> HIDE DEF k, h
  <2> QED
    BY <1>3 DEF ClientType, HeaderOut
<1>5. \A x \in {c, c1, c2} : /\ x.current = k.current /\ x.queue = k.queue
                            /\ HeaderOut(x) = HeaderOut(k)
  <2> HIDE DEF k, h, next
  <2>1. c.current = k.current /\ c.queue = k.queue /\ HeaderOut(c) = HeaderOut(k)
    BY <1>4
  <2>2. c1.current = k.current /\ c1.queue = k.queue /\ HeaderOut(c1) = HeaderOut(k)
    BY <1>3 DEF ClientType, HeaderOut
  <2>3. c2.current = k.current /\ c2.queue = k.queue /\ HeaderOut(c2) = HeaderOut(k)
    BY <1>3 DEF ClientType, HeaderOut
  <2> HIDE DEF c, c1, c2
  <2> QED
    BY <2>1, <2>2, <2>3
<1>6. c2.complete = TRUE
  <2> HIDE DEF k, h, next
  <2> QED
    BY <1>3 DEF ClientType
<1>7. \A code, whole : R(code, whole).whole = whole
  <2> HIDE DEF old, h
  <2> QED
    BY <1>3 DEF RequestType
<1> HIDE DEF R, c, c1, c2, h
<1>8. PICK x \in {c, c1, c2}, code \in {h.code, 0}, whole \in BOOLEAN :
        /\ whole => x = c2
        /\ Client(x)
        /\ reqs' = [reqs EXCEPT ![cur] = [@ EXCEPT ![c.current] = R(code, whole)]]
  BY <1>2
<1>9. R(code, whole).whole => x.complete
  BY <1>6, <1>7, <1>8
<1>10. HeaderOut(x) => HeaderOut(k)
  BY <1>5
<1> QED
  BY <1>1, <1>4, <1>5, <1>8, <1>9, <1>10, RequestConn DEF Client

LEMMA BodyCompleteConn ==
  ASSUME IInv, ServeInv, BodyComplete
  PROVE  \A f \in Fds : Conn(f)'
<1> DEFINE k == cli[cur]
           old == reqs[cur][k.current]
           code == old.bodyCode
           next == NewMessage(k)
           c == [k EXCEPT !.parser = next, !.complete = TRUE]
           r1 == [old EXCEPT !.bad = code]
           r2 == [old EXCEPT !.whole = TRUE]
<1>1. /\ UNCHANGED <<calls, wire, mem, peer, sock, cur, me, reg, pc>> /\ pc = "parse"
      /\ Begun(k)
  BY DEF BodyComplete, Parsing, ParserUnchanged, Begun
<1>2. \/ UNCHANGED cli /\ reqs' = [reqs EXCEPT ![cur] = [@ EXCEPT ![k.current] = r1]]
      \/ Client(c) /\ reqs' = [reqs EXCEPT ![cur] = [@ EXCEPT ![k.current] = r2]]
  BY DEF BodyComplete
<1>3. k \in ClientType /\ cur \in Fds /\ ReadingOK(cur) /\ Reading(cur)
      /\ cli = [cli EXCEPT ![cur] = k]
  BY <1>1, Fetch DEF ServeInv, Reading, At
<1>4. k.queue # <<>>
  BY <1>1, <1>3 DEF IInv, DataInv, RefsOK, Begun
<1>5. old \in RequestType /\ (old.whole => k.complete)
  <2>1. k.current = Last(k.queue) /\ (old.whole => k.complete)
    BY <1>3, <1>4 DEF ReadingOK
  <2>2. k.current \in Ids /\ k.current <= Len(reqs[cur]) /\ reqs[cur] \in Seq(RequestType)
    BY <1>3, <1>4, <2>1, Pointers, LastInRange DEF Points
  <2>3. k.current \in DOMAIN reqs[cur]
    <3> HIDE DEF k
    <3> QED
      BY <2>2 DEF Ids
  <2> HIDE DEF k
  <2> QED
    BY <2>1, <2>2, <2>3
<1>6. c.queue = k.queue /\ c.current = k.current /\ c.complete = TRUE
      /\ HeaderOut(c) = HeaderOut(k)
  <2> HIDE DEF k, next
  <2> QED
    BY <1>3 DEF ClientType, HeaderOut
<1>7. r1.whole = old.whole
  <2> HIDE DEF old, code
  <2> QED
    BY <1>5 DEF RequestType
<1> HIDE DEF c, r1, r2, old
<1>8. CASE UNCHANGED cli /\ reqs' = [reqs EXCEPT ![cur] = [@ EXCEPT ![k.current] = r1]]
  <2>1. cli' = [cli EXCEPT ![cur] = k] /\ (r1.whole => k.complete)
    BY <1>3, <1>5, <1>7, <1>8
  <2> QED
    BY <1>1, <1>8, <2>1, RequestConn
<1>9. CASE Client(c) /\ reqs' = [reqs EXCEPT ![cur] = [@ EXCEPT ![k.current] = r2]]
  BY <1>1, <1>6, <1>9, RequestConn DEF Client
<1> QED
  BY <1>2, <1>8, <1>9

-----------------------------------------------------------------------------
(* Serving the queue and closing.                                          *)

\* shift_request: the head of the queue becomes the request that is served.
LEMMA ShiftConn ==
  ASSUME IInv, ServeInv, pc \in {"finish", "prepare"}, pc' \in {"page", "app"}, NEW n, NEW w,
         cli' = [cli EXCEPT ![cur] = n], wire' = [wire EXCEPT ![cur] = w],
         UNCHANGED <<calls, reqs, mem, peer, sock, cur, me>>,
         reg'[cur].ev = "none", \A f \in Fds \ {cur} : reg'[f].ev = reg[f].ev,
         cli[cur].queue # <<>>,
         n.current = Head(cli[cur].queue), n.queue = Tail(cli[cur].queue),
         HeaderOut(n) => HeaderOut(cli[cur]),
         Ordered(w), Answers(w) = Answers(wire[cur]), Pages(w) = Pages(wire[cur])
  PROVE  \A f \in Fds : Conn(f)'
<1> DEFINE k == cli[cur]
           q == k.queue
<1>1. cur \in Fds /\ Elsewhere /\ q \in Seq(Ids) /\ q # <<>>
  BY Fetch, Pointers DEF Elsewhere
<1>2. cli'[cur] = n /\ wire'[cur] = w /\ sock[cur] = "open"
  BY Fetch DEF IInv, WatchInv, AllocOK, StackOK, Working
<1>3. OrderOK(cur) /\ ReadingOK(cur) /\ CoverOK(cur)
  BY <1>1 DEF ServeInv
<1>4. /\ ~Started(cur)' /\ ~At(cur, {"body"})' /\ At(cur, {"app", "page"})' /\ ~At(cur, {"app", "page"})
      /\ At(cur, {"finish", "prepare", "app"}) /\ ~Reading(cur)'
  BY <1>1 DEF At, Started, Reading
<1>5. HeaderOut(n) => peer[cur] = "reset"
  BY <1>3, <1>4 DEF ReadingOK
<1>6. /\ Increasing(Tail(q)) /\ Head(q) \in Range(q) /\ Range(q) = {Head(q)} \cup Range(Tail(q))
      /\ \A next \in Range(Tail(q)) : Head(q) < next
  <2>1. Increasing(q)
    BY <1>3 DEF OrderOK
  <2> HIDE DEF q
  <2> QED
    BY <1>1, <2>1, Shifting
<1> HIDE DEF q
<1>7. \A id \in Range(calls[cur]) \cup Answers(w) :
        id <= Len(reqs[cur]) /\ \A next \in Range(q) : id < next
  BY <1>3 DEF OrderOK, q
<1>8. OrderOK(cur)'
  BY <1>2, <1>3, <1>6, <1>7 DEF OrderOK, q
<1>9. CurrentOK(cur)'
  BY <1>2, <1>4, <1>6, <1>7 DEF CurrentOK, q
<1>10. ReadingOK(cur)'
  BY <1>2, <1>4, <1>5 DEF ReadingOK
<1>11. CoverOK(cur)'
  BY <1>2, <1>3, <1>4, <1>5, <1>6 DEF CoverOK, q
<1>12. Conn(cur)'
  BY <1>8, <1>9, <1>10, <1>11 DEF Conn
<1> QED
  BY <1>1, <1>12, LocalConn

LEMMA FinishConn ==
  ASSUME IInv, ServeInv, Finish
  PROVE  \A f \in Fds : Conn(f)'
<1> DEFINE k == cli[cur]
           code == reqs[cur][Head(k.queue)].bad
           n == [k EXCEPT !.current = Head(k.queue), !.queue = Tail(@), !.status = code]
<1>1. /\ UNCHANGED <<wire, calls, reqs, mem, peer, sock, cur, me>> /\ pc = "finish"
      /\ reg' = (IF handler = "accept" THEN reg ELSE [reg EXCEPT ![cur] = NoReg])
  BY DEF Finish
<1>2. \/ pc' = "page" /\ Client(n)
      \/ pc' = "prepare" /\ UNCHANGED cli
  BY DEF Finish
<1>3. cur \in Fds /\ k \in ClientType /\ k.queue # <<>>
  BY <1>1, Fetch DEF IInv, DataInv, RefsOK
<1>4. reg'[cur].ev = "none" /\ \A f \in Fds \ {cur} : reg'[f].ev = reg[f].ev
  BY <1>1, <1>3 DEF IInv, WatchInv, AllocTypes, StackOK, NoReg
<1>5. OrderOK(cur) /\ ReadingOK(cur) /\ CoverOK(cur)
  BY <1>3 DEF ServeInv
<1>6. CASE pc' = "page" /\ Client(n)
  <2>1. n.current = Head(k.queue) /\ n.queue = Tail(k.queue) /\ HeaderOut(n) = HeaderOut(k)
    <3> HIDE DEF k, code
    <3> QED
      BY <1>3 DEF ClientType, HeaderOut
  <2> HIDE DEF n
  <2>2. PICK w : /\ wire' = [wire EXCEPT ![cur] = w] /\ Ordered(w)
                 /\ Pages(w) = Pages(wire[cur]) /\ Answers(w) = Answers(wire[cur])
    BY <1>1, SameOrMore
  <2> QED
    BY <1>1, <1>3, <1>4, <1>6, <2>1, <2>2, ShiftConn DEF Client
<1>7. CASE pc' = "prepare" /\ UNCHANGED cli
  <2>1. /\ ~Started(cur)' /\ ~At(cur, {"app", "page", "body"})' /\ ~At(cur, {"app"})'
        /\ ~At(cur, {"page"})' /\ ~At(cur, {"body"})' /\ ~At(cur, {"app", "page"})'
        /\ ~At(cur, {"app", "body", "suspend"})' /\ ~Reading(cur)'
        /\ ~At(cur, {"app", "page"}) /\ At(cur, {"finish", "prepare", "app"})
    BY <1>1, <1>3, <1>4, <1>7 DEF At, Started, Reading
  <2>2. OrderOK(cur)' /\ CurrentOK(cur)' /\ CoverOK(cur)'
    BY <1>1, <1>5, <1>7, <2>1 DEF OrderOK, CurrentOK, CoverOK
  <2>3. ReadingOK(cur)'
    BY <1>1, <1>5, <1>7, <2>1 DEF ReadingOK
  <2>4. Conn(cur)' /\ Elsewhere
    BY <1>1, <1>4, <1>7, <2>2, <2>3 DEF Conn, Elsewhere
  <2> QED
    BY <1>1, <2>4, LocalConn
<1> QED
  BY <1>2, <1>6, <1>7

LEMMA PrepareCallRackConn ==
  ASSUME IInv, ServeInv, PrepareCallRack
  PROVE  \A f \in Fds : Conn(f)'
<1> DEFINE k == cli[cur]
           c == [k EXCEPT !.current = Head(k.queue), !.queue = Tail(@)]
           kept == c.keep_alive /\ IsKeepAlive
           c1 == [c EXCEPT !.keep_alive = FALSE, !.status = 417]
           c2 == [c EXCEPT !.keep_alive = FALSE, !.status = 500]
           c3 == [c EXCEPT !.keep_alive = kept]
           r == [Record("cont", 100) EXCEPT !.id = c.current]
<1>1. /\ UNCHANGED <<calls, reqs, mem, peer, sock, cur, me, reg>> /\ pc = "prepare"
      /\ pc' \in {"page", "app"}
  BY DEF PrepareCallRack
<1>2. Client(c1) \/ Client(c2) \/ Client(c3)
  BY DEF PrepareCallRack
<1>3. UNCHANGED wire \/ Tell(r)
  BY DEF PrepareCallRack
<1>4. cur \in Fds /\ k \in ClientType /\ k.queue # <<>> /\ k.queue \in Seq(Ids) /\ reg[cur].ev = "none"
  BY <1>1, Fetch, Pointers DEF IInv, WatchInv, StackOK, DataInv, RefsOK
<1>5. \A n \in {c1, c2, c3} : /\ n.current = Head(k.queue) /\ n.queue = Tail(k.queue)
                             /\ HeaderOut(n) = HeaderOut(k)
  <2> DEFINE h == Head(k.queue)
             t == Tail(k.queue)
  <2>1. h \in Nat /\ t \in Seq(Ids)
    BY <1>4 DEF Ids
  <2>2. c = [k EXCEPT !.current = h, !.queue = t]
    OBVIOUS
  <2> HIDE DEF h, t, c, k, kept
  <2>3. c \in ClientType /\ c.current = h /\ c.queue = t /\ HeaderOut(c) = HeaderOut(k)
    BY <1>4, <2>1, <2>2 DEF ClientType, HeaderOut
  <2>4. c1.current = c.current /\ c1.queue = c.queue /\ HeaderOut(c1) = HeaderOut(c)
    BY <2>3 DEF ClientType, HeaderOut
  <2>5. c2.current = c.current /\ c2.queue = c.queue /\ HeaderOut(c2) = HeaderOut(c)
    BY <2>3 DEF ClientType, HeaderOut
  <2>6. c3.current = c.current /\ c3.queue = c.queue /\ HeaderOut(c3) = HeaderOut(c)
    BY <2>3 DEF ClientType, HeaderOut
  <2> HIDE DEF c1, c2, c3
  <2> QED
    BY <2>3, <2>4, <2>5, <2>6 DEF h, t
<1>6. r \in AnswerType /\ ~Answer(r) /\ r.kind # "page"
  <2>1. c.current \in Nat
    <3>1. Head(k.queue) \in Nat
      BY <1>4 DEF Ids
    <3>2. c.current = Head(k.queue)
      <4> HIDE DEF k
      <4> QED
        BY <1>4 DEF ClientType
    <3> QED
      BY <3>1, <3>2
  <2>2. Record("cont", 100) \in AnswerType /\ Record("cont", 100).kind = "cont"
    BY Fetch, RecordType DEF Record
  <2> HIDE DEF c
  <2> QED
    BY <2>1, <2>2 DEF AnswerType, Answer
<1> HIDE DEF c, c1, c2, c3, r
<1>7. PICK n \in {c1, c2, c3} : Client(n)
  BY <1>2
<1>8. PICK w : /\ wire' = [wire EXCEPT ![cur] = w] /\ Ordered(w)
               /\ Pages(w) = Pages(wire[cur]) /\ Answers(w) = Answers(wire[cur])
  <2>1. CASE UNCHANGED wire
    BY <2>1, SameOrMore
  <2>2. CASE Tell(r)
    BY <1>6, <2>2, TellAnswers
  <2> QED
    BY <1>3, <2>1, <2>2
<1> QED
  BY <1>1, <1>4, <1>5, <1>7, <1>8, ShiftConn DEF Client

LEMMA ProcessRackAppConn ==
  ASSUME IInv, ServeInv, ProcessRackApp
  PROVE  \A f \in Fds : Conn(f)'
<1> DEFINE k == cli[cur]
           s == calls[cur]
           old == reqs[cur]
           C(a) == [k EXCEPT !.status = a.status, !.response = a, !.iter = a.body]
           rs == [old EXCEPT ![k.current].bad = 500]
<1>1. /\ UNCHANGED <<wire, mem, peer, sock, cur, me, reg>> /\ pc = "app"
      /\ calls' = [calls EXCEPT ![cur] = Append(s, k.current)]
  BY DEF ProcessRackApp
<1>2. \/ pc' = "raised" /\ UNCHANGED <<cli, reqs>>
      \/ pc' = "page" /\ UNCHANGED cli /\ reqs' = [reqs EXCEPT ![cur] = rs]
      \/ \E a \in Apps : Client(C(a)) /\ pc' \in {"close", "start"} /\ UNCHANGED reqs
  BY DEF ProcessRackApp
<1>3. /\ cur \in Fds /\ k \in ClientType /\ old \in Seq(RequestType) /\ s \in Seq(Nat)
      /\ cli = [cli EXCEPT ![cur] = k] /\ reqs = [reqs EXCEPT ![cur] = old]
      /\ k.current \in Nat /\ k.current <= Len(old)
  <2>1. /\ cur \in Fds /\ k \in ClientType /\ old \in Seq(RequestType) /\ s \in Seq(Nat)
        /\ cli = [cli EXCEPT ![cur] = k] /\ reqs = [reqs EXCEPT ![cur] = old]
        /\ Points(k, Len(old))
    BY Fetch, Pointers
  <2>2. k.current \in Nat
    BY <2>1, ClientFields
  <2> QED
    BY <2>1, <2>2 DEF Points
<1>4. PICK n : /\ cli' = [cli EXCEPT ![cur] = n]
               /\ n.queue = k.queue /\ n.current = k.current /\ HeaderOut(n) = HeaderOut(k)
  <2>1. \A a : /\ C(a).queue = k.queue /\ C(a).current = k.current
               /\ HeaderOut(C(a)) = HeaderOut(k)
    <3> HIDE DEF k
    <3> QED
      BY <1>3 DEF ClientType, HeaderOut
  <2> HIDE DEF C, k, rs
  <2> QED
    BY <1>2, <1>3, <2>1 DEF Client
<1>5. PICK r : /\ reqs' = [reqs EXCEPT ![cur] = r] /\ Len(r) = Len(old) /\ DOMAIN r = DOMAIN old
               /\ \A id \in DOMAIN old : r[id].whole = old[id].whole
  <2>1. /\ Len(rs) = Len(old) /\ DOMAIN rs = DOMAIN old
        /\ \A id \in DOMAIN old : rs[id].whole = old[id].whole
    <3> HIDE DEF k, old
    <3>1. DOMAIN rs = DOMAIN old
      OBVIOUS
    <3>2. \A id \in DOMAIN old : old[id] \in RequestType
      BY <1>3
    <3>3. \A x \in RequestType : [x EXCEPT !.bad = 500].whole = x.whole
      BY DEF RequestType
    <3>4. \A id \in DOMAIN old : rs[id] = old[id] \/ rs[id] = [old[id] EXCEPT !.bad = 500]
      OBVIOUS
    <3>5. Len(rs) = Len(old)
      BY <1>3, <3>1
    <3> QED
      BY <3>1, <3>2, <3>3, <3>4, <3>5
  <2> HIDE DEF rs, k, C
  <2>2. reqs' = [reqs EXCEPT ![cur] = rs] \/ reqs' = [reqs EXCEPT ![cur] = old]
    BY <1>2, <1>3
  <2> QED
    BY <2>1, <2>2
<1> HIDE DEF k, s, old
<1>6. /\ Elsewhere /\ cli'[cur] = n /\ calls'[cur] = Append(s, k.current) /\ reqs'[cur] = r
      /\ pc' \in {"raised", "page", "close", "start"}
  BY ZenonT(30), <1>1, <1>2, <1>3, <1>4, <1>5, Fetch DEF Elsewhere
<1>7. OrderOK(cur) /\ CurrentOK(cur) /\ ReadingOK(cur) /\ CoverOK(cur)
  BY <1>3 DEF ServeInv
<1>8. /\ At(cur, {"app", "page", "body"}) /\ At(cur, {"app"}) /\ At(cur, {"app", "body", "suspend"})
      /\ At(cur, {"finish", "prepare", "app"})
      /\ ~At(cur, {"app"})' /\ ~At(cur, {"body"})' /\ ~At(cur, {"finish", "prepare", "app"})'
      /\ ~At(cur, {"read", "parse", "register"})'
  BY <1>1, <1>3, <1>6 DEF At
<1>9. /\ \A next \in Range(k.queue) : k.current < next
      /\ \A id \in Range(s) : id < k.current
      /\ \A id \in Answers(wire[cur]) : id < k.current
      /\ reg[cur].ev # "read"
  BY <1>7, <1>8 DEF CurrentOK, ReadingOK, k, s
<1>10. Range(Append(s, k.current)) = Range(s) \cup {k.current} /\ Increasing(Append(s, k.current))
  <2>1. Increasing(s)
    BY <1>7 DEF OrderOK, s
  <2> QED
    BY <1>3, <1>9, <2>1, AppendRange, AppendIncreasing
<1>11. OrderOK(cur)'
  <2>1. \A id \in Range(s) \cup Answers(wire[cur]) :
          id <= Len(old) /\ \A next \in Range(k.queue) : id < next
    BY <1>7 DEF OrderOK, s, old, k
  <2>2. Increasing(k.queue) /\ Ordered(wire[cur]) /\ (sock[cur] = "pending" => wire[cur] = <<>>)
    BY <1>7 DEF OrderOK, k
  <2> QED
    BY <1>1, <1>3, <1>4, <1>5, <1>6, <1>9, <1>10, <2>1, <2>2 DEF OrderOK
<1>12. CurrentOK(cur)'
  BY <1>1, <1>4, <1>6, <1>8, <1>9 DEF CurrentOK
<1>13. ReadingOK(cur)'
  BY <1>1, <1>8, <1>9 DEF ReadingOK, Reading
<1>14. CoverOK(cur)'
  <2>1. mem[cur] # 0 /\ peer[cur] # "reset" =>
          \A id \in DOMAIN old : old[id].whole =>
            id \in Range(k.queue) \cup Range(s) \cup Pages(wire[cur]) \cup {k.current}
    BY <1>7 DEF CoverOK, k, s, old
  <2> QED
    <3>1. cur' = cur /\ mem' = mem /\ peer' = peer /\ wire' = wire
      BY <1>1
    <3>2. cli'[cur] = n /\ calls'[cur] = Append(s, k.current) /\ reqs'[cur] = r
      BY <1>6
    <3>3. n.current \in Range(calls'[cur])
      BY <1>4, <1>10, <3>2
    <3>4. ASSUME mem[cur] # 0, peer[cur] # "reset", NEW id \in DOMAIN r, r[id].whole
          PROVE  id \in Range(n.queue) \cup Range(calls'[cur]) \cup Pages(wire[cur])
      <4>1. id \in Range(k.queue) \cup Range(s) \cup Pages(wire[cur]) \cup {k.current}
        BY <1>5, <2>1, <3>4
      <4> QED
        BY <1>4, <1>10, <3>2, <4>1
    <3> QED
      BY <3>1, <3>2, <3>3, <3>4 DEF CoverOK
<1>15. Conn(cur)'
  BY <1>11, <1>12, <1>13, <1>14 DEF Conn
<1> QED
  BY <1>1, <1>6, <1>15, LocalConn

LEMMA CloseConn ==
  ASSUME IInv, ServeInv, CloseToNext \/ CloseConnection \/ KeepConnection
  PROVE  \A f \in Fds : Conn(f)'
<1> DEFINE k == cli[cur]
<1>1. UNCHANGED <<wire, calls, reqs, peer, cur, me>> /\ pc = "close" /\ pc' \in {"prepare", "return"}
  BY DEF CloseToNext, CloseConnection, KeepConnection, Closing
<1>2. cur \in Fds /\ k \in ClientType
  BY Fetch
<1>3. OrderOK(cur) /\ CoverOK(cur)
  BY <1>2 DEF ServeInv
<1>4. Elsewhere
  <2>1. /\ cli' = [cli EXCEPT ![cur] = cli'[cur]] /\ mem' = [mem EXCEPT ![cur] = mem'[cur]]
        /\ sock' = [sock EXCEPT ![cur] = sock'[cur]] /\ reg' = [reg EXCEPT ![cur] = reg'[cur]]
    BY <1>2, Fetch DEF CloseToNext, CloseConnection, KeepConnection, Client, IInv, WatchInv, AllocTypes
  <2> QED
    BY <1>1, <2>1, Fetch DEF Elsewhere, IInv, WatchInv, AllocTypes
<1>5. /\ ~At(cur, {"app", "page", "body"})' /\ ~At(cur, {"app"})'
      /\ ~At(cur, {"page"})' /\ ~At(cur, {"body"})' /\ ~At(cur, {"app", "page"})'
      /\ ~At(cur, {"app", "body", "suspend"})' /\ ~Started(cur)'
      /\ ~At(cur, {"read", "parse", "register"})' /\ ~At(cur, {"app", "page"})
      /\ pc' = "return" => ~At(cur, {"finish", "prepare", "app"})'
  BY <1>1 DEF At, Started
<1>6. CASE CloseToNext
  <2>1. cli'[cur] = Cleaned(k) /\ reg'[cur] = NoReg /\ UNCHANGED <<mem, sock>>
    BY <1>2, <1>6, Fetch DEF CloseToNext, Client, IInv, WatchInv, AllocTypes
  <2>2. Cleaned(k).queue = k.queue /\ ~HeaderOut(Cleaned(k))
    <3> HIDE DEF k
    <3> QED
      BY <1>2 DEF Cleaned, ClientType, HeaderOut
  <2>3. OrderOK(cur)' /\ CurrentOK(cur)' /\ CoverOK(cur)'
    BY <1>1, <1>3, <1>5, <2>1, <2>2 DEF OrderOK, CurrentOK, CoverOK
  <2>4. ~Reading(cur)'
    BY <1>1, <1>5, <2>1 DEF Reading, NoReg
  <2>5. ReadingOK(cur)'
    BY <1>1, <1>5, <2>1, <2>2, <2>4 DEF ReadingOK
  <2> QED
    BY <1>1, <1>4, <2>3, <2>5, LocalConn DEF Conn
<1>7. CASE CloseConnection \/ KeepConnection
  <2>1. PICK keep \in BOOLEAN : cli'[cur] = NewClient(keep)
    BY <1>2, <1>7, Fetch DEF CloseConnection, KeepConnection, Client
  <2>2. /\ NewClient(keep).queue = <<>> /\ NewClient(keep).current = 0
        /\ ~NewClient(keep).complete /\ ~HeaderOut(NewClient(keep))
    BY DEF NewClient, HeaderOut
  <2>3. k.queue = <<>> /\ pc' = "return" /\ (sock'[cur] = "pending" => sock[cur] = "pending")
    BY <1>2, <1>7, Fetch DEF CloseConnection, KeepConnection, IInv, WatchInv, AllocTypes
  <2>4. Range(<<>>) = {} /\ Increasing(<<>>)
    BY DEF Range, Increasing
  <2>5. mem'[cur] # 0 => mem[cur] # 0
    <3>1. mem[cur] = me /\ me # 0
      BY <1>1 DEF IInv, WatchInv, StackOK, Working
    <3> QED
      BY <3>1
  <2>6. OrderOK(cur)'
    BY <1>1, <1>3, <2>1, <2>2, <2>3, <2>4 DEF OrderOK
  <2>7. CurrentOK(cur)'
    BY <1>5 DEF CurrentOK
  <2>8. ReadingOK(cur)'
    BY <1>1, <1>5, <2>1, <2>2, <2>3 DEF ReadingOK
  <2>9. CoverOK(cur)'
    BY <1>1, <1>3, <1>5, <2>1, <2>2, <2>3, <2>4, <2>5 DEF CoverOK
  <2> QED
    BY <1>1, <1>4, <2>6, <2>7, <2>8, <2>9, LocalConn DEF Conn
<1> QED
  BY <1>6, <1>7

\* A signal, or no step at all.
LEMMA SameConn ==
  ASSUME ServeInv, UNCHANGED <<cli, calls, reqs, wire, mem, peer, sock, reg, cur, me, pc>>
  PROVE  \A f \in Fds : Conn(f)'
<1>1. SUFFICES ASSUME NEW f \in Fds PROVE Conn(f)'
  OBVIOUS
<1>2. OrderOK(f) /\ CurrentOK(f) /\ ReadingOK(f) /\ CoverOK(f)
  BY DEF ServeInv
<1>3. OrderOK(f)' /\ CurrentOK(f)' /\ CoverOK(f)'
  BY <1>2 DEF OrderOK, CurrentOK, CoverOK, At, Started
<1>4. ReadingOK(f)'
  BY <1>2 DEF ReadingOK, Reading, At, Started
<1> QED
  BY <1>3, <1>4 DEF Conn

-----------------------------------------------------------------------------
(* The clients process_rack_app closes.                                    *)

NestedPlaces == {"close", "prepare", "app", "page", "start", "return", "crashed", "raised"}

\* A client whose read met a reset, until its queue is served.
Refused == cli[cur].response_closed =>
             /\ pc = "finish" => ~cli[cur].keep_alive /\ reqs[cur][Last(cli[cur].queue)].bad > 200
             /\ pc \in {"prepare", "app"} => Doomed(cur)

\* A step from a place where no process_rack_app waits.
LEMMA FlatNest ==
  ASSUME IInv, ServeInv, pc \notin NestedPlaces, nested' = nested, pc' # "start",
         fault' = fault \/ (pc' = "crashed" /\ fault' # "use_after_free"),
         Refused'
  PROVE  NestOK'
<1>1. nested = 0
  BY DEF ServeInv, NestOK, NestedPlaces, IInv, WatchInv, ControlTypes
<1>2. fault = "none"
  BY DEF ServeInv, NestOK, NestedPlaces
<1>3. ~(nested > 0)'
  BY <1>1
<1> QED
  BY <1>2, <1>3 DEF NestOK, Refused

LEMMA ControlNest ==
  ASSUME IInv, ServeInv,
         \/ LoopExit \/ AcceptEvent \/ AcceptDone \/ Register \/ SuspendWrite
         \/ (\E f \in Fds : AcceptFails(f) \/ ReadEvent(f) \/ WriteEvent(f) \/ Accept(f))
         \/ ParseNull \/ SuspendAborts
         \/ WriteItem \/ FinishBody \/ RetryBucket
         \/ MessageBegin \/ HeadersComplete \/ BodyComplete \/ ParseBlank \/ ParseError
  PROVE  NestOK'
<1>1. pc \notin NestedPlaces /\ nested' = nested
  BY DEF LoopExit, AcceptEvent, AcceptDone, Register, SuspendWrite, AcceptFails, ReadEvent,
         WriteEvent, Accept, ParseNull, SuspendAborts, WriteItem, FinishBody, RetryBucket,
         MessageBegin, HeadersComplete, BodyComplete, ParseBlank, ParseError, Dispatch, Crash,
         ResponseUnchanged, ParserUnchanged, Parsing, NestedPlaces
<1>2. /\ pc' \notin {"start", "finish", "prepare", "app"}
      /\ fault' = fault \/ (pc' = "crashed" /\ fault' # "use_after_free")
  <2>1. CASE WriteItem \/ FinishBody \/ RetryBucket
    BY ZenonT(30), <2>1 DEF WriteItem, FinishBody, RetryBucket, ResponseUnchanged, BodyDone
  <2>2. CASE MessageBegin \/ HeadersComplete \/ BodyComplete \/ ParseBlank \/ ParseError
    BY <2>2 DEF MessageBegin, HeadersComplete, BodyComplete, ParseBlank, ParseError,
                ParserUnchanged, Parsing
  <2>3. CASE \/ LoopExit \/ AcceptEvent \/ AcceptDone \/ Register \/ SuspendWrite
             \/ (\E f \in Fds : AcceptFails(f) \/ ReadEvent(f) \/ WriteEvent(f) \/ Accept(f))
             \/ ParseNull \/ SuspendAborts
    BY <2>3 DEF LoopExit, AcceptEvent, AcceptDone, Register, SuspendWrite, AcceptFails,
                ReadEvent, WriteEvent, Accept, ParseNull, SuspendAborts, Dispatch, Crash
  <2> QED
    BY <2>1, <2>2, <2>3
<1> QED
  BY <1>1, <1>2, FlatNest DEF Refused

LEMMA ReadErrorNest ==
  ASSUME IInv, NEW d \in Fds, NEW c \in ClientType, NEW code, SetReadError(d, c, code), cur' = d,
         c.queue = cli[d].queue, c.response_closed => code = 500
  PROVE  Refused'
<1> DEFINE status == IF code = 0 THEN 400 ELSE code
           q == c.queue
           i == Last(q)
           r == [reqs[d][i] EXCEPT !.bad = status]
<1>1. CASE q = <<>>
  BY <1>1 DEF SetReadError, Refused
<1>2. CASE q # <<>>
  <2>1. /\ reqs' = [reqs EXCEPT ![d] = [@ EXCEPT ![i] = r]] /\ pc' = "finish"
        /\ cli' = [cli EXCEPT ![d] = [c EXCEPT !.keep_alive = FALSE]]
    BY <1>2 DEF SetReadError
  <2>2. q \in Seq(Ids) /\ reqs[d] \in Seq(RequestType) /\ Points(cli[d], Len(reqs[d]))
        /\ cli \in [Fds -> ClientType] /\ reqs \in [Fds -> Seq(RequestType)]
    BY Pointers, Fetch
  <2>3. i \in Ids /\ i <= Len(reqs[d])
    BY <1>2, <2>2, LastInRange DEF Points, Last
  <2> HIDE DEF i, q, status
  <2>4. i \in DOMAIN reqs[d] /\ reqs[d][i] \in RequestType
    BY <2>2, <2>3 DEF Ids
  <2>5. reqs'[d][i].bad = status
    <3>1. reqs'[d][i] = r
      BY <2>1, <2>2, <2>4
    <3>2. r.bad = status
      BY <2>4 DEF RequestType
    <3> QED
      BY <3>1, <3>2
  <2>6. /\ cli'[d].keep_alive = FALSE /\ cli'[d].queue = q
        /\ cli'[d].response_closed = c.response_closed
    <3>1. cli'[d] = [c EXCEPT !.keep_alive = FALSE]
      BY <2>1, <2>2
    <3> QED
      BY <3>1 DEF ClientType, q
  <2>7. c.response_closed => status = 500
    BY DEF status
  <2> QED
    BY <2>1, <2>5, <2>6, <2>7 DEF Refused, i
<1> QED
  BY <1>1, <1>2

LEMMA ReadNest ==
  ASSUME IInv, ServeInv, ReadRequest \/ ParseDone \/ \E d \in Fds : Timeout(d)
  PROVE  NestOK'
<1>1. pc \notin NestedPlaces /\ nested' = nested /\ fault' = fault
  BY DEF ReadRequest, ParseDone, Timeout, NestedPlaces
<1>2. pc' # "start"
  BY DEF ReadRequest, ParseDone, Timeout, SetReadError
<1>3. ASSUME NEW d \in Fds, Reading(d), pc \in {"loop", "read", "parse"}
      PROVE  ~cli[d].response_closed
  BY <1>3 DEF ServeInv, ReadingOK, HeaderOut, At
<1>4. Refused'
  <2>1. CASE ReadRequest
    <3> DEFINE c == cli[cur]
               gone == [c EXCEPT !.header_done = TRUE, !.response_closed = TRUE]
    <3>1. cur \in Fds /\ cur' = cur /\ c \in ClientType /\ ~c.response_closed
      BY <1>3, <2>1, Fetch DEF ReadRequest, Reading, At
    <3>2. \/ pc' \in {"parse", "register", "return"}
          \/ SetReadError(cur, c, 503)
          \/ SetReadError(cur, gone, 500)
      BY <2>1 DEF ReadRequest
    <3>3. gone \in ClientType /\ gone.queue = c.queue
      <4> HIDE DEF c
      <4> QED
        BY <3>1 DEF ClientType
    <3> HIDE DEF gone
    <3>4. CASE pc' \in {"parse", "register", "return"}
      BY <3>4 DEF Refused
    <3> QED
      BY <3>1, <3>2, <3>3, <3>4, ReadErrorNest
  <2>2. CASE ParseDone
    <3> DEFINE c == cli[cur]
               code == IF c.current = 0 THEN 400 ELSE reqs[cur][c.current].bad
    <3>1. cur \in Fds /\ cur' = cur /\ c \in ClientType /\ ~c.response_closed
      BY <1>3, <2>2, Fetch DEF ParseDone, Reading, At
    <3>2. SetReadError(cur, c, code) \/ UNCHANGED cli
      BY <2>2 DEF ParseDone
    <3> HIDE DEF code
    <3>3. CASE UNCHANGED cli
      BY <3>1, <3>3 DEF Refused
    <3> QED
      BY <3>1, <3>2, <3>3, ReadErrorNest
  <2>3. ASSUME NEW d \in Fds, Timeout(d) PROVE Refused'
    <3>1. CASE reg[d].ev = "read" /\ SetReadError(d, cli[d], 408)
      <4>1. ~cli[d].response_closed /\ cli[d] \in ClientType /\ cur' = d
        BY <1>3, <2>3, <3>1, Fetch DEF Timeout, Reading
      <4> QED
        BY <3>1, <4>1, ReadErrorNest
    <3>2. CASE pc' = "close"
      BY <3>2 DEF Refused
    <3> QED
      BY <2>3, <3>1, <3>2 DEF Timeout
  <2> QED
    BY <2>1, <2>2, <2>3
<1> QED
  BY <1>1, <1>2, <1>4, FlatNest

LEMMA FinishNest ==
  ASSUME IInv, ServeInv, Finish
  PROVE  NestOK'
<1> DEFINE q == cli[cur].queue
<1>1. /\ pc = "finish" /\ nested' = nested /\ fault' = fault /\ UNCHANGED <<peer, cur, reqs>>
      /\ \/ pc' = "page"
         \/ pc' = "prepare" /\ UNCHANGED cli /\ reqs[cur][Head(q)].bad <= 200
  BY DEF Finish
<1>2. ASSUME cli'[cur].response_closed, pc' = "prepare" PROVE Doomed(cur)'
  <2>1. UNCHANGED cli /\ reqs[cur][Head(q)].bad <= 200 /\ cli[cur].response_closed
    BY <1>1, <1>2
  <2>2. ~cli[cur].keep_alive /\ reqs[cur][Last(q)].bad > 200
    BY <1>1, <2>1 DEF ServeInv, NestOK
  <2>3. cur \in Fds /\ q # <<>> /\ q \in Seq(Ids) /\ Points(cli[cur], Len(reqs[cur]))
        /\ reqs[cur] \in Seq(RequestType)
    BY <1>1, Fetch, Pointers DEF IInv, DataInv, RefsOK
  <2>4. peer[cur] = "reset" /\ Increasing(q)
    <3>1. OrderOK(cur) /\ ReadingOK(cur) /\ HeaderOut(cli[cur])
      BY <2>1, <2>3 DEF ServeInv, HeaderOut
    <3> QED
      BY <1>1, <2>3, <3>1 DEF OrderOK, ReadingOK, At
  <2>5. \A i \in DOMAIN q : q[i] <= Len(reqs[cur])
    BY <2>3 DEF Points
  <2> HIDE DEF q
  <2>6. Len(q) \in Nat /\ 1 \in DOMAIN q /\ Len(q) \in DOMAIN q /\ Head(q) = q[1] /\ Last(q) = q[Len(q)]
        /\ q[1] \in Nat /\ q[1] >= 1 /\ q[Len(q)] \in Nat
    BY <2>3 DEF Last, Ids
  <2>7. Head(q) # Last(q)
    <3>1. CASE Head(q) = Last(q)
      <4> DEFINE code == reqs[cur][Last(q)].bad
      <4>1. code <= 200 /\ code > 200
        BY <2>1, <2>2, <3>1
      <4>2. q[Len(q)] \in DOMAIN reqs[cur]
        <5>1. q[Len(q)] <= Len(reqs[cur]) /\ q[Len(q)] >= 1 /\ q[Len(q)] \in Nat
          BY <2>5, <2>6, <3>1
        <5>2. Len(reqs[cur]) \in Nat /\ DOMAIN reqs[cur] = 1 .. Len(reqs[cur])
          BY <2>3
        <5> QED
          BY <5>1, <5>2
      <4>3. code \in Nat
        <5>1. reqs[cur][q[Len(q)]] \in RequestType
          BY <2>3, <4>2
        <5>2. reqs[cur][q[Len(q)]].bad \in Nat
          BY <5>1 DEF RequestType, Codes
        <5> QED
          BY <2>6, <5>2
      <4> HIDE DEF code
      <4> QED
        BY <4>1, <4>3
    <3> QED
      BY <3>1
  <2>8. q[1] < q[Len(q)]
    <3>1. 1 < Len(q)
      BY <2>3, <2>6, <2>7
    <3> QED
      BY <2>4, <2>6, <3>1 DEF Increasing
  <2>9. Len(reqs[cur]) > 1
    BY <2>3, <2>5, <2>6, <2>8
  <2> QED
    BY <1>1, <2>1, <2>2, <2>4, <2>9 DEF Doomed
<1>3. Refused'
  BY <1>1, <1>2 DEF Refused
<1> QED
  BY <1>1, <1>3, FlatNest DEF NestedPlaces

\* What an error page leaves of the client.
LEMMA ServingNest ==
  ASSUME IInv, ServeInv, PrepareCallRack \/ SendErrorPage
  PROVE  NestOK'
<1> DEFINE k == cli[cur]
<1>1. /\ UNCHANGED <<peer, cur, me, reqs, mem, nested, fault, sock>> /\ pc \in {"prepare", "page"}
      /\ pc = "prepare" => pc' \in {"page", "app"}
      /\ pc = "page" => pc' = "close"
  BY DEF PrepareCallRack, SendErrorPage
<1>2. cur \in Fds /\ k \in ClientType /\ mem[cur] = me
  BY <1>1, Fetch DEF IInv, WatchInv, StackOK, Working
<1>3. /\ ~k.keep_alive => ~cli'[cur].keep_alive
      /\ pc = "prepare" => cli'[cur].response_closed = k.response_closed
  <2>1. CASE PrepareCallRack
    <3> DEFINE c == [k EXCEPT !.current = Head(k.queue), !.queue = Tail(@)]
               kept == c.keep_alive /\ IsKeepAlive
               c1 == [c EXCEPT !.keep_alive = FALSE, !.status = 417]
               c2 == [c EXCEPT !.keep_alive = FALSE, !.status = 500]
               c3 == [c EXCEPT !.keep_alive = kept]
    <3>1. cli'[cur] = c1 \/ cli'[cur] = c2 \/ cli'[cur] = c3
      BY <1>2, <2>1, Fetch DEF PrepareCallRack, Client
    <3>2. c.keep_alive = k.keep_alive /\ c.response_closed = k.response_closed
      <4> DEFINE h == Head(k.queue)
                 t == Tail(k.queue)
      <4>1. c = [k EXCEPT !.current = h, !.queue = t]
        OBVIOUS
      <4> HIDE DEF h, t, c, k
      <4> QED
        BY <1>2, <4>1 DEF ClientType
    <3>3. DOMAIN c = DOMAIN k /\ "keep_alive" \in DOMAIN k /\ "response_closed" \in DOMAIN k
          /\ "status" \in DOMAIN k
      <4>1. DOMAIN c = DOMAIN k
        OBVIOUS
      <4> HIDE DEF c, k
      <4> QED
        BY <1>2, <4>1 DEF ClientType
    <3> HIDE DEF c, k, kept
    <3>4. /\ c1.keep_alive = FALSE /\ c1.response_closed = c.response_closed
          /\ c2.keep_alive = FALSE /\ c2.response_closed = c.response_closed
          /\ c3.keep_alive = kept /\ c3.response_closed = c.response_closed
      BY <3>3
    <3>5. ~k.keep_alive => ~kept
      BY <3>2 DEF kept
    <3> HIDE DEF c1, c2, c3
    <3> QED
      BY <3>1, <3>2, <3>4, <3>5
  <2>2. CASE SendErrorPage
    <3> DEFINE c1 == [k EXCEPT !.keep_alive = FALSE, !.header_done = TRUE,
                               !.response_closed = TRUE]
               c2 == [c1 EXCEPT !.status = 500]
    <3>1. cli'[cur] = k \/ cli'[cur] = c1 \/ cli'[cur] = c2
      BY <1>2, <2>2, Fetch DEF SendErrorPage, Client
    <3>2. c1.keep_alive = FALSE /\ c2.keep_alive = FALSE
      <4> HIDE DEF k
      <4> QED
        BY <1>2 DEF ClientType
    <3>3. pc = "page"
      BY <2>2 DEF SendErrorPage
    <3> HIDE DEF c1, c2
    <3> QED
      BY <3>1, <3>2, <3>3
  <2> QED
    BY <2>1, <2>2
<1>4. Doomed(cur) => Doomed(cur)'
  BY <1>1, <1>3 DEF Doomed
<1>5. Started(cur)' <=> (pc' = "start" /\ mem[cur] = me)
  BY <1>1 DEF Started, At
<1>6. NestOK
  BY DEF ServeInv
<1> HIDE DEF k
<1> QED
  BY <1>1, <1>3, <1>4, <1>6 DEF NestOK, Started, At, k

LEMMA ProcessRackAppNest ==
  ASSUME IInv, ServeInv, ProcessRackApp
  PROVE  NestOK'
<1> DEFINE k == cli[cur]
           C(a) == [k EXCEPT !.status = a.status, !.response = a, !.iter = a.body]
<1>1. /\ UNCHANGED <<peer, cur, me, mem, fault, sock>> /\ pc = "app" /\ nested \in Nat
      /\ pc' \in {"raised", "page", "close", "start"}
      /\ nested' = nested \/ (nested' = nested + 1 /\ pc' = "close" /\ cli'[cur].response_closed)
  <2>1. /\ UNCHANGED <<peer, cur, me, mem, fault, sock>> /\ pc = "app"
        /\ pc' \in {"raised", "page", "close", "start"}
    BY DEF ProcessRackApp
  <2>2. nested \in Nat
    BY DEF IInv, WatchInv, ControlTypes
  <2>3. nested' = nested \/ (nested' = nested + 1 /\ pc' = "close" /\ cli'[cur].response_closed)
    BY Fetch DEF ProcessRackApp, Client
  <2> QED
    BY <2>1, <2>2, <2>3
<1>2. cur \in Fds /\ k \in ClientType /\ mem[cur] = me
  BY <1>1, Fetch DEF IInv, WatchInv, StackOK, Working
<1>3. cli'[cur].keep_alive = k.keep_alive /\ cli'[cur].response_closed = k.response_closed
  <2>1. cli'[cur] = k \/ \E a \in Apps : cli'[cur] = C(a)
    BY <1>2, Fetch DEF ProcessRackApp, Client
  <2>2. \A a : C(a).keep_alive = k.keep_alive /\ C(a).response_closed = k.response_closed
    <3> HIDE DEF k
    <3> QED
      BY <1>2 DEF ClientType
  <2> HIDE DEF C, k
  <2> QED
    BY <2>1, <2>2
<1>4. Len(reqs'[cur]) = Len(reqs[cur])
  <2> DEFINE old == reqs[cur]
             rs == [old EXCEPT ![k.current].bad = 500]
  <2>1. old \in Seq(RequestType) /\ reqs \in [Fds -> Seq(RequestType)]
    BY Fetch, <1>2
  <2>2. reqs' = reqs \/ reqs' = [reqs EXCEPT ![cur] = rs]
    BY DEF ProcessRackApp
  <2>3. Len(rs) = Len(old)
    <3> HIDE DEF old, k
    <3>1. DOMAIN rs = DOMAIN old
      OBVIOUS
    <3> QED
      BY <2>1, <3>1
  <2> HIDE DEF rs, k
  <2> QED
    BY <1>2, <2>1, <2>2, <2>3
<1>5. Doomed(cur) => Doomed(cur)'
  BY <1>1, <1>3, <1>4 DEF Doomed
<1>6. NestOK
  BY DEF ServeInv
<1>7. nested' > 0 => Doomed(cur)
  <2>1. nested > 0 => Doomed(cur)
    BY <1>1, <1>6 DEF NestOK
  <2>2. cli[cur].response_closed => Doomed(cur)
    BY <1>1, <1>6 DEF NestOK
  <2> QED
    BY <1>1, <1>3, <2>1, <2>2
<1> QED
  BY <1>1, <1>2, <1>5, <1>6, <1>7 DEF NestOK, Started, At

LEMMA RespondNest ==
  ASSUME IInv, ServeInv, WriteHeaders \/ EmptyIterator \/ ClosedClient
  PROVE  NestOK'
<1>1. /\ UNCHANGED <<peer, cur, me, mem, nested, sock, reqs>> /\ pc = "start" /\ NestOK
  BY DEF WriteHeaders, EmptyIterator, ClosedClient, Crash, ResponseUnchanged, ServeInv
<1>2. fault = "none"
  BY <1>1 DEF NestOK
<1>3. CASE EmptyIterator
  BY <1>1, <1>2, <1>3 DEF EmptyIterator, Crash, NestOK, Started, At
<1>4. CASE ClosedClient
  <2>1. Buried(cur) /\ pc' = "crashed"
    BY <1>1, <1>4 DEF ClosedClient, Crash, NestOK, Started, At
  <2>2. Buried(cur)'
    BY <1>1, <2>1 DEF Buried
  <2> QED
    BY <1>1, <1>4, <2>1, <2>2 DEF NestOK, Started, At
<1>5. CASE WriteHeaders
  <2>1. cur \in Fds /\ Started(cur) /\ fault' = fault
    BY <1>1, <1>5, Fetch DEF WriteHeaders, ResponseUnchanged, Started, At
  <2>2. pc' \in {"page", "close", "body", "suspend"} /\ (peer[cur] = "reset" => pc' = "page")
    BY <1>5 DEF WriteHeaders, InternalError, CanWrite, Full
  <2>3. cli'[cur].keep_alive = cli[cur].keep_alive
    <3> DEFINE k == cli[cur]
               a == k.response
               empty == a.status = 304
               first == IF empty THEN 0 ELSE IF a.array THEN a.total ELSE Head(a.body)
               rest == IF empty THEN k.iter ELSE IF a.array THEN <<>> ELSE Tail(a.body)
               length == IF a.clset THEN a.cl ELSE 0
               chunked == ~empty /\ ~a.clset /\ k.minor = 1
               c == [k EXCEPT !.iter = rest, !.clset = a.clset, !.cl = length, !.chunked = chunked]
               b == [Bucket(c, TRUE, first) EXCEPT !.ends = IF empty THEN 0 ELSE @]
               c1 == [c EXCEPT !.header_done = TRUE, !.write_bytes = first, !.bucket = NoBucket]
               c2 == [c EXCEPT !.bucket = b]
               c3 == [c EXCEPT !.header_done = TRUE, !.bucket = NoBucket]
               c4 == [c3 EXCEPT !.status = 500]
               k1 == [k EXCEPT !.status = 500]
    <3>1. Client(k1) \/ Client(c1) \/ Client(c2) \/ Client(c4)
      BY <1>5 DEF WriteHeaders, InternalError
    <3>2. k \in ClientType /\ cli \in [Fds -> ClientType]
      BY Fetch
    <3>3. DOMAIN c = DOMAIN k /\ c.keep_alive = k.keep_alive /\ k1.keep_alive = k.keep_alive
          /\ "keep_alive" \in DOMAIN k
      <4> DEFINE set == a.clset
      <4>1. c = [k EXCEPT !.iter = rest, !.clset = set, !.cl = length, !.chunked = chunked]
        OBVIOUS
      <4> HIDE DEF k, rest, length, chunked, set, c
      <4> QED
        BY <3>2, <4>1 DEF ClientType
    <3> HIDE DEF k, c, first, b
    <3>4. c1.keep_alive = c.keep_alive /\ c2.keep_alive = c.keep_alive /\ c4.keep_alive = c.keep_alive
      BY <3>3
    <3> HIDE DEF c1, c2, c4, k1
    <3> QED
      BY <2>1, <3>1, <3>2, <3>3, <3>4 DEF Client, k
  <2>4. Doomed(cur) => Doomed(cur)' /\ pc' = "page"
    BY <1>1, <2>2, <2>3 DEF Doomed
  <2>5. nested > 0 => Doomed(cur)
    BY <1>1, <2>1 DEF NestOK
  <2> QED
    BY <1>1, <1>2, <2>1, <2>2, <2>4, <2>5 DEF NestOK, Started, At
<1> QED
  BY <1>3, <1>4, <1>5

LEMMA CloseNest ==
  ASSUME IInv, ServeInv, Close
  PROVE  NestOK'
<1> DEFINE k == cli[cur]
<1>1. UNCHANGED <<peer, cur, me, nested, reqs>> /\ pc = "close" /\ NestOK
  BY DEF Close, CloseAborts, CloseToNext, CloseConnection, KeepConnection, Closing, Crash, ServeInv
<1>2. cur \in Fds /\ k \in ClientType /\ mem[cur] = me /\ me # 0 /\ fault = "none"
  BY <1>1, Fetch DEF IInv, WatchInv, StackOK, Working, NestOK
<1>3. nested > 0 => Doomed(cur)
  BY <1>1 DEF NestOK
<1>4. CASE CloseAborts
  BY <1>1, <1>4 DEF CloseAborts, CloseFaults, Crash, NestOK, Started, At
<1>5. CASE CloseToNext
  <2>1. cli'[cur] = Cleaned(k) /\ pc' = "prepare" /\ fault' = fault
    BY <1>2, <1>5, Fetch DEF CloseToNext, Client
  <2>2. ~Cleaned(k).response_closed /\ Cleaned(k).keep_alive = k.keep_alive
    <3> HIDE DEF k
    <3> QED
      BY <1>2 DEF Cleaned, ClientType
  <2>3. Doomed(cur) => Doomed(cur)'
    BY <1>1, <2>1, <2>2 DEF Doomed
  <2> QED
    BY <1>1, <1>2, <1>3, <2>1, <2>2, <2>3 DEF NestOK, Started, At
<1>6. CASE CloseConnection
  <2>1. pc' = "return" /\ fault' = fault /\ mem'[cur] = 0 /\ sock'[cur] = "closed"
    BY <1>2, <1>6 DEF CloseConnection, IInv, WatchInv, AllocTypes
  <2>2. Doomed(cur) => Buried(cur)'
    BY <1>1, <2>1 DEF Doomed, Buried
  <2> QED
    BY <1>1, <1>2, <1>3, <2>1, <2>2 DEF NestOK, Started, At
<1>7. CASE KeepConnection
  <2>1. pc' = "return" /\ fault' = fault /\ k.keep_alive
    BY <1>7 DEF KeepConnection
  <2> QED
    BY <1>1, <1>2, <1>3, <2>1 DEF NestOK, Started, At, Doomed
<1> QED
  BY <1>4, <1>5, <1>6, <1>7 DEF Close

LEMMA ReturnNest ==
  ASSUME IInv, ServeInv, Return
  PROVE  NestOK'
<1>1. /\ UNCHANGED <<peer, cur, me, mem, sock, reqs, cli, fault>> /\ pc = "return" /\ NestOK
      /\ \/ nested > 0 /\ pc' = "start" /\ nested' = nested - 1
         \/ ~(nested > 0) /\ pc' \in {"accept", "loop"} /\ nested' = nested
  BY DEF Return, ServeInv
<1>2. nested \in Nat
  BY DEF IInv, WatchInv, ControlTypes
<1>3. Buried(cur) => Buried(cur)'
  BY <1>1 DEF Buried
<1> QED
  BY <1>1, <1>2, <1>3 DEF NestOK, Started, At

LEMMA PeerNest ==
  ASSUME IInv, ServeInv, NEW d \in Fds, Peer(d)
  PROVE  NestOK'
<1>1. UNCHANGED <<cli, reqs, mem, cur, me, pc, nested, fault>> /\ NestOK /\ pc # "crashed"
  BY DEF Peer, PeerConnect, PeerSend, PeerEof, PeerReset, PeerStall, PeerDrain, Running, ServeInv
<1>2. /\ sock[cur] = "open" => sock'[cur] = "open"
      /\ sock'[cur] = "closed" => sock[cur] = "closed"
      /\ sock[cur] # "open" => sock'[cur] # "open"
      /\ peer[cur] = "reset" => peer'[cur] = "reset" \/ (sock[cur] # "open" /\ sock'[cur] # "closed")
  <2>0. /\ sock \in [Fds -> {"closed", "pending", "open"}] /\ cur \in Fds
        /\ peer \in [Fds -> {"up", "eof", "reset"}]
    BY Fetch DEF IInv, WatchInv, AllocTypes, DataInv, PeerTypes
  <2>1. CASE PeerConnect(d)
    <3>1. /\ sock[d] = "closed" /\ sock' = [sock EXCEPT ![d] = "pending"]
          /\ peer' = [peer EXCEPT ![d] = "up"]
      BY <2>1 DEF PeerConnect
    <3> QED
      BY <2>0, <3>1
  <2>2. CASE PeerSend(d) \/ PeerEof(d) \/ PeerReset(d) \/ PeerStall(d) \/ PeerDrain(d)
    <3>1. UNCHANGED sock /\ (UNCHANGED peer \/ peer' = [peer EXCEPT ![d] = "reset"]
                            \/ (peer[d] = "up" /\ peer' = [peer EXCEPT ![d] = "eof"]))
      BY <2>2 DEF PeerSend, PeerEof, PeerReset, PeerStall, PeerDrain
    <3> QED
      BY <2>0, <3>1
  <2> QED
    BY <2>1, <2>2 DEF Peer
<1>3. pc \in {"close", "prepare", "app", "page"} \/ Started(cur) => sock[cur] = "open"
  <2>1. pc \in {"close", "prepare", "app", "page"} \/ Started(cur) => mem[cur] = me /\ me # 0
    BY DEF IInv, WatchInv, StackOK, Working, Started, At
  <2>2. mem[cur] # 0 => sock[cur] = "open"
    BY Fetch DEF IInv, WatchInv, AllocOK
  <2> QED
    BY <2>1, <2>2
<1>4. /\ Buried(cur) => Buried(cur)'
      /\ Doomed(cur) /\ sock[cur] = "open" => Doomed(cur)'
  BY <1>1, <1>2 DEF Buried, Doomed
<1> QED
  BY <1>1, <1>3, <1>4 DEF NestOK, Started, At

LEMMA SameNest ==
  ASSUME ServeInv, UNCHANGED <<cli, reqs, mem, peer, sock, cur, me, pc, nested, fault>>
  PROVE  NestOK'
BY DEF ServeInv, NestOK, Started, At, Doomed, Buried

-----------------------------------------------------------------------------
(* The theorems.                                                           *)

LEMMA InitServe == ASSUME Init PROVE ServeInv
<1> USE DEF Init
<1>1. /\ Range(<<>>) = {} /\ Increasing(<<>>) /\ Ordered(<<>>) /\ Answers(<<>>) = {}
      /\ DOMAIN <<>> = {}
  BY DEF Range, Increasing, Ordered, Answers
<1>2. /\ NewClient(FALSE).queue = <<>> /\ NewClient(FALSE).current = 0
      /\ ~NewClient(FALSE).complete /\ ~HeaderOut(NewClient(FALSE))
      /\ ~NewClient(FALSE).response_closed
  BY DEF NewClient, HeaderOut
<1>3. ASSUME NEW f \in Fds PROVE OrderOK(f) /\ CurrentOK(f) /\ ReadingOK(f) /\ CoverOK(f)
  <2>1. OrderOK(f)
    BY <1>1, <1>2 DEF OrderOK
  <2>2. \A P : At(f, P) => "loop" \in P
    BY DEF At
  <2>3. ~Started(f)
    BY DEF Started, At
  <2>4. CurrentOK(f)
    BY <2>3 DEF CurrentOK, At
  <2>5. reg[f].ev = "none"
    BY DEF NoReg
  <2>6. ReadingOK(f)
    BY <2>3, <2>5 DEF ReadingOK, Reading, At
  <2>7. CoverOK(f)
    BY DEF CoverOK
  <2> QED
    BY <2>1, <2>4, <2>6, <2>7
<1>4. NestOK
  BY DEF NestOK, Started, At
<1> QED
  BY <1>3, <1>4 DEF ServeInv

LEMMA NextConn == ASSUME IInv, ServeInv, [Next]_vars PROVE \A f \in Fds : Conn(f)'
<1>1. CASE UNCHANGED vars \/ Stop
  BY <1>1, SameConn DEF Stop
<1>2. CASE LoopExit \/ AcceptEvent \/ Return
  BY <1>2, ControlConn
<1>3. ASSUME NEW d \in Fds, Peer(d) \/ Event(d) PROVE \A f \in Fds : Conn(f)'
  BY <1>3, PeerConn, TimeoutConn, EventConn DEF Event
<1>4. CASE Accepting
  BY <1>4, AcceptConn, ControlConn DEF Accepting
<1>5. CASE ReadRequest \/ Parse
  BY <1>5, ReadRequestConn, MessageBeginConn, HeadersCompleteConn, BodyCompleteConn,
     ParseIdleConn, ParseDoneConn, ControlConn DEF Parse
<1>6. CASE Serve
  BY <1>6, FinishConn, PrepareCallRackConn, ProcessRackAppConn, SendErrorPageConn DEF Serve
<1>7. CASE Respond
  BY <1>7, WriteHeadersConn, WriteItemConn, FinishBodyConn, RetryBucketConn, ControlConn
  DEF Respond
<1>8. CASE Close
  BY <1>8, CloseConn, ControlConn DEF Close
<1> QED
  BY <1>1, <1>2, <1>3, <1>4, <1>5, <1>6, <1>7, <1>8 DEF Next, Callback

LEMMA NextNest == ASSUME IInv, ServeInv, [Next]_vars PROVE NestOK'
<1>1. CASE UNCHANGED vars \/ Stop
  BY <1>1, SameNest DEF Stop
<1>2. CASE LoopExit \/ AcceptEvent
  BY <1>2, ControlNest
<1>3. ASSUME NEW d \in Fds, Peer(d) \/ Event(d) PROVE NestOK'
  BY <1>3, PeerNest, ReadNest, ControlNest DEF Event
<1>4. CASE Accepting
  BY <1>4, ControlNest DEF Accepting
<1>5. CASE ReadRequest \/ Parse
  BY <1>5, ReadNest, ControlNest DEF Parse
<1>6. CASE Serve
  BY <1>6, FinishNest, ServingNest, ProcessRackAppNest DEF Serve
<1>7. CASE Respond
  BY <1>7, RespondNest, ControlNest DEF Respond
<1>8. CASE Close \/ Return
  BY <1>8, CloseNest, ReturnNest
<1> QED
  BY <1>1, <1>2, <1>3, <1>4, <1>5, <1>6, <1>7, <1>8 DEF Next, Callback

LEMMA NextServe == ASSUME IInv, ServeInv, [Next]_vars PROVE ServeInv'
BY NextConn, NextNest DEF ServeInv, Conn

\* Every reachable state satisfies the inductive invariant of the order of
\* service: what was called and answered on a connection comes before
\* current_req, which comes before what is queued; nothing complete is lost.
THEOREM ServeInvariance == Spec => []ServeInv
<1>1. Init => ServeInv
  BY InitServe
<1>2. IInv /\ ServeInv /\ [Next]_vars => ServeInv'
  BY NextServe
<1> QED
  BY <1>1, <1>2, Invariance, PTL DEF Spec

\* process_rack_app calls the application at most once for each request of a
\* connection, in the order message_begin_cb queued them.
THEOREM ServiceCallsInOrder == Spec => []CalledOnceInOrder
<1>1. ServeInv => CalledOnceInOrder
  BY DEF ServeInv, OrderOK, CalledOnceInOrder
<1> QED
  BY <1>1, ServeInvariance, PTL

\* No request gets two status lines, and the status lines of a connection are
\* in the order of its requests, whatever timers, resets and full sockets do.
THEOREM ServiceAnswersInOrder == Spec => []AnsweredOnceInOrder
<1>1. ServeInv => AnsweredOnceInOrder
  BY DEF ServeInv, OrderOK, AnsweredOnceInOrder
<1> QED
  BY <1>1, ServeInvariance, PTL

\* Between two callbacks a connection that is watched for input has an
\* incomplete last request: no complete request waits in its queue.
THEOREM ServiceStrandsNone == Spec => []NoStrandedRequest
<1>1. IInv /\ ServeInv => NoStrandedRequest
  BY DEF ServeInv, ReadingOK, Reading, At, NoStrandedRequest
<1> QED
  BY <1>1, Invariance, ServeInvariance, PTL

\* A client is used after close_client freed it only when a read met a reset
\* behind a second request of the connection.
THEOREM ServiceUseAfterFree == Spec => []UseAfterFreeCause
<1>1. ServeInv => UseAfterFreeCause
  BY DEF ServeInv, NestOK, Buried, UseAfterFreeCause
<1> QED
  BY <1>1, ServeInvariance, PTL

\* close_client closes a connection only when each of its complete requests was
\* passed to the application or got an error page, unless the peer reset it.
THEOREM ServiceClosesAfterAnswers == Spec => ClosesAfterAnswers
<1>1. ASSUME IInv, ServeInv, [Next]_vars, NEW f \in Fds, sock[f] = "open", sock'[f] = "closed",
             peer[f] # "reset", NEW id \in DOMAIN reqs[f], reqs[f][id].whole
      PROVE  Called(f, id) \/ Paged(f, id)
  <2>1. CloseConnection /\ f = cur
    <3>1. sock \in [Fds -> {"closed", "pending", "open"}]
      BY <1>1 DEF IInv, WatchInv, AllocTypes
    <3>2. CASE \E d \in Fds : Accept(d) \/ AcceptFails(d)
      BY <1>1, <3>1, <3>2 DEF Accept, AcceptFails
    <3>3. CASE \E d \in Fds : Peer(d)
      <4>1. UNCHANGED sock \/ \E d \in Fds : sock' = [sock EXCEPT ![d] = "pending"]
        BY <3>3 DEF Peer, PeerConnect, PeerSend, PeerEof, PeerReset, PeerStall, PeerDrain
      <4>2. ASSUME NEW d \in Fds, sock' = [sock EXCEPT ![d] = "pending"] PROVE FALSE
        BY <1>1, <3>1, <4>2
      <4> QED
        BY <1>1, <4>1, <4>2
    <3>4. CASE CloseConnection
      BY <1>1, <3>1, <3>4 DEF CloseConnection
    <3>5. CASE UNCHANGED sock
      BY <1>1, <3>5
    <3>6. \/ UNCHANGED sock \/ CloseConnection
          \/ \E d \in Fds : Peer(d) \/ Accept(d) \/ AcceptFails(d)
      <4>1. (\E d \in Fds : Event(d)) \/ AcceptEvent \/ LoopExit \/ Stop => UNCHANGED sock
        BY DEF Event, ReadEvent, WriteEvent, Dispatch, Timeout, AcceptEvent, LoopExit, Stop
      <4>2. AcceptDone \/ Register \/ ReadRequest \/ Parse \/ Return => UNCHANGED sock
        BY DEF AcceptDone, Register, ReadRequest, Parse, Return, MessageBegin, HeadersComplete,
               BodyComplete, ParseBlank, ParseError, ParseDone, ParseNull, ParserUnchanged, Crash
      <4>3. Serve => UNCHANGED sock
        BY DEF Serve, Finish, PrepareCallRack, ProcessRackApp, SendErrorPage
      <4>4. Respond => UNCHANGED sock
        BY DEF Respond, WriteHeaders, EmptyIterator, ClosedClient, WriteItem, FinishBody,
               SuspendWrite, SuspendAborts, RetryBucket, ResponseUnchanged, Crash
      <4>5. CloseAborts \/ CloseToNext \/ KeepConnection => UNCHANGED sock
        BY DEF CloseAborts, CloseToNext, KeepConnection, Crash
      <4>6. UNCHANGED vars => UNCHANGED sock
        OBVIOUS
      <4> QED
        BY <1>1, <4>1, <4>2, <4>3, <4>4, <4>5, <4>6 DEF Next, Callback, Accepting, Close
    <3> QED
      BY <3>2, <3>3, <3>4, <3>5, <3>6
  <2>2. pc = "close" /\ cli[cur].queue = <<>>
    BY <2>1 DEF CloseConnection, Closing
  <2>3. mem[cur] # 0
    BY <1>1, <2>2 DEF IInv, WatchInv, StackOK, Working
  <2>4. id \in Range(cli[f].queue) \cup Range(calls[f]) \cup Pages(wire[f])
    BY <1>1, <2>1, <2>2, <2>3 DEF ServeInv, CoverOK, At
  <2>5. id \in Range(calls[f]) \cup Pages(wire[f])
    <3>1. cli[f].queue = <<>> /\ Range(<<>>) = {}
      BY <2>1, <2>2 DEF Range
    <3> QED
      BY <2>4, <3>1
  <2> QED
    BY <2>5 DEF Called, Paged, Range, Pages
<1>2. IInv /\ ServeInv /\ [Next]_vars =>
        [\A f \in Fds : sock[f] = "open" /\ sock'[f] = "closed" /\ peer[f] # "reset" =>
           \A id \in DOMAIN reqs[f] : reqs[f][id].whole => Called(f, id) \/ Paged(f, id)]_vars
  BY <1>1
<1> QED
  BY <1>2, Invariance, ServeInvariance, PTL DEF Spec, ClosesAfterAnswers

-----------------------------------------------------------------------------
(* 4. The causes of faults: FaultInv is inductive.                         *)

\* A piece b of the tokens s, k of which come before it.
LEMMA PieceTokens ==
  ASSUME NEW s \in Seq(TokenType), NEW b \in Seq(TokenType), NEW k \in Nat,
         \A i \in DOMAIN b : i + k \in DOMAIN s /\ b[i] = s[i + k]
  PROVE  /\ Blanks(b) # {} => Blanks(s) # {}
         /\ Begins(b) # {} => Begins(s) # {}
         /\ AtMostOne(Begins(s)) => AtMostOne(Begins(b))
         /\ OldIn(b) => OldIn(s)
<1>1. \A i \in Blanks(b) : i + k \in Blanks(s)
  BY DEF Blanks
<1>2. \A i \in Begins(b) : i + k \in Begins(s) /\ i \in Nat
  BY DEF Begins
<1>3. ASSUME AtMostOne(Begins(s)), NEW i \in Begins(b), NEW j \in Begins(b) PROVE i = j
  <2>1. i + k = j + k /\ i \in Nat /\ j \in Nat
    BY <1>2, <1>3 DEF AtMostOne
  <2> QED
    BY <2>1
<1>4. OldIn(b) => OldIn(s)
  BY DEF OldIn
<1> QED
  BY <1>1, <1>2, <1>3, <1>4 DEF AtMostOne

LEMMA AppendTokens ==
  ASSUME NEW s \in Seq(TokenType), NEW x \in TokenType
  PROVE  /\ Blanks(Append(s, x)) # {} => Blanks(s) # {} \/ x.t = "blank"
         /\ Begins(Append(s, x)) # {} => Begins(s) # {} \/ x.t = "begin"
         /\ AtMostOne(Begins(s)) /\ (Begins(s) = {} \/ x.t # "begin")
              => AtMostOne(Begins(Append(s, x)))
         /\ OldIn(Append(s, x)) => OldIn(s) \/ (x.t = "head" /\ x.h.minor = 0)
<1> DEFINE v == Append(s, x)
<1>1. /\ Len(s) \in Nat /\ DOMAIN v = 1 .. Len(s) + 1 /\ DOMAIN s = 1 .. Len(s)
      /\ \A i \in 1 .. Len(s) : v[i] = s[i]
      /\ v[Len(s) + 1] = x
  OBVIOUS
<1> HIDE DEF v
<1>2. \A i \in DOMAIN v : i = Len(s) + 1 \/ (i \in DOMAIN s /\ v[i] = s[i])
  BY <1>1
<1>3. \A i \in Blanks(v) : i \in Blanks(s) \/ x.t = "blank"
  BY <1>1, <1>2 DEF Blanks
<1>4. \A i \in Begins(v) : i \in Begins(s) \/ (i = Len(s) + 1 /\ x.t = "begin")
  BY <1>1, <1>2 DEF Begins
<1>5. OldIn(v) => OldIn(s) \/ (x.t = "head" /\ x.h.minor = 0)
  BY <1>1, <1>2 DEF OldIn
<1> QED
  BY <1>3, <1>4, <1>5 DEF AtMostOne, v

LEMMA TailTokens ==
  ASSUME NEW s \in Seq(TokenType), s # <<>>
  PROVE  /\ Blanks(Tail(s)) # {} => Blanks(s) # {}
         /\ Begins(Tail(s)) # {} => Begins(s) # {}
         /\ AtMostOne(Begins(s)) => AtMostOne(Begins(Tail(s)))
         /\ AtMostOne(Begins(s)) /\ Head(s).t = "begin" => Begins(Tail(s)) = {}
         /\ Head(s).t = "blank" => Blanks(s) # {}
         /\ Head(s).t = "begin" => Begins(s) # {}
         /\ OldIn(Tail(s)) => OldIn(s)
         /\ Head(s).t = "head" /\ Head(s).h.minor = 0 => OldIn(s)
<1> DEFINE b == Tail(s)
<1>1. /\ b \in Seq(TokenType) /\ 1 \in DOMAIN s /\ Head(s) = s[1]
      /\ \A i \in DOMAIN b : i \in Nat /\ i # 0 /\ i + 1 \in DOMAIN s /\ b[i] = s[i + 1]
  OBVIOUS
<1> HIDE DEF b
<1>2. /\ Blanks(b) # {} => Blanks(s) # {}
      /\ Begins(b) # {} => Begins(s) # {}
      /\ AtMostOne(Begins(s)) => AtMostOne(Begins(b))
      /\ OldIn(b) => OldIn(s)
  BY <1>1, PieceTokens
<1>3. /\ Head(s).t = "blank" => Blanks(s) # {}
      /\ Head(s).t = "begin" => 1 \in Begins(s)
  BY <1>1 DEF Blanks, Begins
<1>4. ASSUME AtMostOne(Begins(s)), Head(s).t = "begin", NEW i \in Begins(b) PROVE FALSE
  <2>1. i \in Nat /\ i # 0 /\ i + 1 \in Begins(s)
    BY <1>1 DEF Begins
  <2>2. i + 1 = 1
    BY <1>3, <1>4, <2>1 DEF AtMostOne
  <2> QED
    BY <2>1, <2>2
<1>5. Head(s).t = "head" /\ Head(s).h.minor = 0 => OldIn(s)
  BY <1>1 DEF OldIn
<1> QED
  BY <1>2, <1>3, <1>4, <1>5 DEF b

LEMMA SplitTokens ==
  ASSUME NEW s \in Seq(TokenType), NEW n \in 1 .. Len(s)
  PROVE  LET a == SubSeq(s, 1, n)
             b == SubSeq(s, n + 1, Len(s))
         IN /\ a # <<>>
            /\ Blanks(a) # {} \/ Blanks(b) # {} => Blanks(s) # {}
            /\ Begins(a) # {} \/ Begins(b) # {} => Begins(s) # {}
            /\ AtMostOne(Begins(s)) => /\ AtMostOne(Begins(a)) /\ AtMostOne(Begins(b))
                                       /\ Begins(a) # {} => Begins(b) = {}
            /\ OldIn(a) \/ OldIn(b) => OldIn(s)
<1> DEFINE a == SubSeq(s, 1, n)
           b == SubSeq(s, n + 1, Len(s))
<1>1. /\ a \in Seq(TokenType) /\ Len(a) = n /\ n \in Nat /\ n # 0
      /\ \A i \in DOMAIN a : i \in Nat /\ i <= n /\ i + 0 \in DOMAIN s /\ a[i] = s[i + 0]
  OBVIOUS
<1>2. /\ b \in Seq(TokenType)
      /\ \A i \in DOMAIN b : i \in Nat /\ i # 0 /\ i + n \in DOMAIN s /\ b[i] = s[i + n]
  OBVIOUS
<1> HIDE DEF a, b
<1>3. a # <<>>
  BY <1>1
<1>4. /\ Blanks(a) # {} => Blanks(s) # {}
      /\ Begins(a) # {} => Begins(s) # {}
      /\ AtMostOne(Begins(s)) => AtMostOne(Begins(a))
      /\ OldIn(a) => OldIn(s)
  BY <1>1, PieceTokens
<1>5. /\ Blanks(b) # {} => Blanks(s) # {}
      /\ Begins(b) # {} => Begins(s) # {}
      /\ AtMostOne(Begins(s)) => AtMostOne(Begins(b))
      /\ OldIn(b) => OldIn(s)
  BY <1>1, <1>2, PieceTokens
<1>6. ASSUME AtMostOne(Begins(s)), NEW i \in Begins(a), NEW j \in Begins(b) PROVE FALSE
  <2>1. i \in Nat /\ i <= n /\ j \in Nat /\ j # 0 /\ i \in Begins(s) /\ j + n \in Begins(s)
    <3>1. i \in DOMAIN a /\ a[i].t = "begin" /\ j \in DOMAIN b /\ b[j].t = "begin"
      BY DEF Begins
    <3>2. i + 0 = i
      BY <1>1, <3>1
    <3> QED
      BY <1>1, <1>2, <3>1, <3>2 DEF Begins
  <2>2. i = j + n
    BY <1>6, <2>1 DEF AtMostOne
  <2> QED
    BY <1>1, <2>1, <2>2
<1>7. AtMostOne(Begins(s)) => AtMostOne(Begins(a)) /\ AtMostOne(Begins(b))
                              /\ (Begins(a) # {} => Begins(b) = {})
  BY <1>4, <1>5, <1>6
<1> QED
  BY <1>3, <1>4, <1>5, <1>7 DEF a, b

\* Only peers, reads and the end of a connection change what a peer sent.
LEMMA InputSteps ==
  ASSUME [Next]_vars
  PROVE  UNCHANGED <<inbox, script>> \/ ReadRequest \/ CloseConnection \/ \E d \in Fds : Peer(d)
<1>1. (\E d \in Fds : Event(d)) \/ AcceptEvent \/ LoopExit \/ Stop => UNCHANGED <<inbox, script>>
  BY DEF Event, ReadEvent, WriteEvent, Dispatch, Timeout, AcceptEvent, LoopExit, Stop
<1>2. Accepting \/ Return => UNCHANGED <<inbox, script>>
  BY DEF Accepting, AcceptDone, Register, Accept, AcceptFails, Return
<1>3. Parse => UNCHANGED <<inbox, script>>
  BY DEF Parse, MessageBegin, HeadersComplete, BodyComplete, ParseBlank, ParseError, ParseDone,
         ParseNull, ParserUnchanged, Crash
<1>4. Serve => UNCHANGED <<inbox, script>>
  BY DEF Serve, Finish, PrepareCallRack, ProcessRackApp, SendErrorPage
<1>5. Respond => UNCHANGED <<inbox, script>>
  BY DEF Respond, WriteHeaders, EmptyIterator, ClosedClient, WriteItem, FinishBody,
         SuspendWrite, SuspendAborts, RetryBucket, ResponseUnchanged, Crash
<1>6. CloseAborts \/ CloseToNext \/ KeepConnection => UNCHANGED <<inbox, script>>
  BY DEF CloseAborts, CloseToNext, KeepConnection, Crash
<1> QED
  BY <1>1, <1>2, <1>3, <1>4, <1>5, <1>6 DEF Next, Callback, Close

\* What a peer sends, and what it remembers of it.
Sends(d, token, v) ==
  /\ token \in TokenType /\ v \in ScriptType /\ Put(d, token, v)
  /\ v.blanks >= script[d].blanks /\ (token.t = "blank" => v.blanks > 0)
  /\ \/ token.t # "begin" /\ v.sent = script[d].sent
     \/ token.t = "begin" /\ v.sent = script[d].sent + 1 /\ ~Waits(d)
  /\ v.stalled = script[d].stalled
  /\ script[d].old \/ (token.t = "head" /\ token.h.minor = 0) => v.old

LEMMA SendEffect ==
  ASSUME IInv, NEW d \in Fds, PeerSend(d)
  PROVE  \E token \in TokenType, v \in ScriptType : Sends(d, token, v)
<1> DEFINE s == script[d]
           v1 == [s EXCEPT !.phase = "head", !.sent = @ + 1]
           v2(old, phase) == [s EXCEPT !.old = old, !.phase = phase]
           v3(phase) == [s EXCEPT !.phase = phase]
           v4 == [s EXCEPT !.blanks = @ + 1]
<1>1. s \in ScriptType
  BY DEF IInv, DataInv, PeerTypes
<1>2. \/ Put(d, Token("begin"), v1) /\ ~Waits(d)
      \/ \E h \in Heads, phase \in {"start", "body", "wait"} :
           Put(d, [t |-> "head", h |-> h], v2(s.old \/ h.minor = 0, phase))
      \/ Put(d, Token("body"), v3("start"))
      \/ Put(d, Token("junk"), v3("done"))
      \/ Put(d, Token("blank"), v4)
  BY DEF PeerSend
<1> HIDE DEF s
<1>3. s.blanks \in Nat /\ s.sent \in Nat /\ s.old \in BOOLEAN
  BY <1>1 DEF ScriptType
<1>4. /\ v1 \in ScriptType /\ v1.blanks = s.blanks /\ v1.sent = s.sent + 1
      /\ v1.stalled = s.stalled /\ v1.old = s.old
  <2> DEFINE n == s.sent + 1
  <2>1. n \in Nat /\ v1 = [s EXCEPT !.phase = "head", !.sent = n]
    BY <1>3
  <2> HIDE DEF n, v1
  <2>2. /\ v1 \in ScriptType /\ v1.blanks = s.blanks /\ v1.sent = n
        /\ v1.stalled = s.stalled /\ v1.old = s.old
    BY <1>1, <2>1 DEF ScriptType
  <2> QED
    BY <2>2 DEF n
<1>5. /\ v4 \in ScriptType /\ v4.blanks = s.blanks + 1 /\ v4.sent = s.sent
      /\ v4.stalled = s.stalled /\ v4.old = s.old
  BY <1>1, <1>3 DEF ScriptType
<1>6. \A phase \in {"start", "done"} :
        /\ v3(phase) \in ScriptType /\ v3(phase).blanks = s.blanks /\ v3(phase).sent = s.sent
        /\ v3(phase).stalled = s.stalled /\ v3(phase).old = s.old
  BY <1>1 DEF ScriptType
<1>7. \A old \in BOOLEAN, phase \in {"start", "body", "wait"} :
        /\ v2(old, phase) \in ScriptType
        /\ v2(old, phase).blanks = s.blanks /\ v2(old, phase).sent = s.sent
        /\ v2(old, phase).stalled = s.stalled /\ v2(old, phase).old = old
  BY <1>1 DEF ScriptType
<1>8. /\ \A kind \in {"begin", "body", "junk", "blank"} :
           Token(kind) \in TokenType /\ Token(kind).t = kind
      /\ \A h \in Heads : /\ [t |-> "head", h |-> h] \in TokenType
                          /\ [t |-> "head", h |-> h].t = "head"
                          /\ [t |-> "head", h |-> h].h = h
  BY ParamAssumption DEF Token, TokenType
<1> HIDE DEF v1, v2, v3, v4
<1>9. CASE Put(d, Token("begin"), v1) /\ ~Waits(d)
  <2>1. Sends(d, Token("begin"), v1)
    BY <1>3, <1>4, <1>8, <1>9 DEF Sends, s
  <2> QED
    BY <1>4, <1>8, <2>1
<1>10. ASSUME NEW h \in Heads, NEW phase \in {"start", "body", "wait"},
              Put(d, [t |-> "head", h |-> h], v2(s.old \/ h.minor = 0, phase))
       PROVE  \E token \in TokenType, v \in ScriptType : Sends(d, token, v)
  <2> DEFINE token == [t |-> "head", h |-> h]
             old == s.old \/ h.minor = 0
  <2>1. /\ token \in TokenType /\ token.t = "head" /\ old \in BOOLEAN
        /\ s.old \/ token.h.minor = 0 => old
    BY <1>3, <1>8
  <2>2. Put(d, token, v2(old, phase))
    BY <1>10
  <2> HIDE DEF token, old
  <2>3. /\ v2(old, phase) \in ScriptType
        /\ v2(old, phase).blanks = s.blanks /\ v2(old, phase).sent = s.sent
        /\ v2(old, phase).stalled = s.stalled /\ v2(old, phase).old = old
    BY <1>7, <2>1
  <2>4. Sends(d, token, v2(old, phase))
    BY <1>3, <2>1, <2>2, <2>3 DEF Sends, s
  <2> QED
    BY <2>1, <2>3, <2>4
<1>11. CASE Put(d, Token("body"), v3("start"))
  <2>1. Sends(d, Token("body"), v3("start"))
    BY <1>3, <1>6, <1>8, <1>11 DEF Sends, s
  <2> QED
    BY <1>6, <1>8, <2>1
<1>12. CASE Put(d, Token("junk"), v3("done"))
  <2>1. Sends(d, Token("junk"), v3("done"))
    BY <1>3, <1>6, <1>8, <1>12 DEF Sends, s
  <2> QED
    BY <1>6, <1>8, <2>1
<1>13. CASE Put(d, Token("blank"), v4)
  <2>1. Sends(d, Token("blank"), v4)
    BY <1>3, <1>5, <1>8, <1>13 DEF Sends, s
  <2> QED
    BY <1>5, <1>8, <2>1
<1> QED
  BY <1>2, <1>9, <1>10, <1>11, <1>12, <1>13

LEMMA PutBlank ==
  ASSUME IInv, NEW d \in Fds, PeerSend(d), BlankOK(d)
  PROVE  /\ BlankOK(d)' /\ script'[d].blanks >= script[d].blanks
         /\ \A f \in Fds \ {d} : inbox'[f] = inbox[f] /\ script'[f] = script[f]
<1>1. PICK token \in TokenType, v \in ScriptType : Sends(d, token, v)
  BY SendEffect
<1>2. /\ inbox \in [Fds -> Seq(TokenType)] /\ script \in [Fds -> ScriptType]
      /\ script[d].blanks \in Nat /\ v.blanks \in Nat
  BY DEF IInv, DataInv, PeerTypes, ScriptType
<1>3. /\ inbox'[d] = Append(inbox[d], token) /\ script'[d] = v
      /\ \A f \in Fds \ {d} : inbox'[f] = inbox[f] /\ script'[f] = script[f]
  BY <1>1, <1>2 DEF Sends, Put
<1>4. Blanks(Append(inbox[d], token)) # {} => Blanks(inbox[d]) # {} \/ token.t = "blank"
  BY <1>2, AppendTokens
<1>5. BlankOK(d)'
  <2>1. Blanks(inbox'[d]) # {} => v.blanks > 0
    BY <1>1, <1>2, <1>3, <1>4 DEF BlankOK, Sends
  <2> QED
    BY <1>3, <2>1 DEF BlankOK, Blanks
<1> QED
  BY <1>1, <1>3, <1>5 DEF Sends

\* No step takes a blank back, and a blank that can be read was sent.
LEMMA BlanksKept ==
  ASSUME IInv, FaultInv, [Next]_vars
  PROVE  \A f \in Fds : BlankOK(f)'
<1>1. /\ inbox \in [Fds -> Seq(TokenType)] /\ script \in [Fds -> ScriptType] /\ cur \in Fds
      /\ \A f \in Fds : BlankOK(f)
  BY Fetch DEF IInv, DataInv, PeerTypes, FaultInv
<1>2. Blanks(<<>>) = {}
  BY DEF Blanks
<1>3. CASE UNCHANGED <<inbox, script>>
  BY <1>1, <1>3 DEF BlankOK
<1>4. CASE ReadRequest
  <2>1. CASE UNCHANGED inbox
    BY <1>1, <1>4, <2>1 DEF ReadRequest, BlankOK
  <2>2. ASSUME NEW n \in 1..Len(inbox[cur]),
               inbox' = [inbox EXCEPT ![cur] = SubSeq(@, n + 1, Len(@))]
        PROVE  \A f \in Fds : BlankOK(f)'
    <3>1. inbox'[cur] = SubSeq(inbox[cur], n + 1, Len(inbox[cur])) /\ script' = script
          /\ \A f \in Fds \ {cur} : inbox'[f] = inbox[f]
      BY <1>1, <1>4, <2>2 DEF ReadRequest
    <3>2. Blanks(SubSeq(inbox[cur], n + 1, Len(inbox[cur]))) # {} => Blanks(inbox[cur]) # {}
      BY <1>1, SplitTokens
    <3> QED
      BY <1>1, <3>1, <3>2 DEF BlankOK
  <2> QED
    BY <1>4, <2>1, <2>2 DEF ReadRequest
<1>5. CASE CloseConnection
  <2>1. inbox' = [inbox EXCEPT ![cur] = <<>>] /\ script' = script
    BY <1>5 DEF CloseConnection
  <2> QED
    BY <1>1, <1>2, <2>1 DEF BlankOK
<1>6. ASSUME NEW d \in Fds, Peer(d) PROVE \A f \in Fds : BlankOK(f)'
  <2>1. CASE PeerConnect(d)
    <3>1. inbox' = [inbox EXCEPT ![d] = <<>>] /\ script' = [script EXCEPT ![d] = NewScript]
      BY <2>1 DEF PeerConnect
    <3> QED
      BY <1>1, <1>2, <3>1 DEF BlankOK
  <2>2. CASE PeerSend(d)
    BY <1>1, <2>2, PutBlank DEF BlankOK
  <2>3. CASE PeerEof(d) \/ PeerReset(d) \/ PeerDrain(d)
    BY <1>1, <2>3 DEF PeerEof, PeerReset, PeerDrain, BlankOK
  <2>4. CASE PeerStall(d)
    <3>1. inbox' = inbox /\ script' = [script EXCEPT ![d].stalled = TRUE]
      BY <2>4 DEF PeerStall
    <3>2. \A f \in Fds : script'[f].blanks = script[f].blanks
      BY <1>1, <3>1 DEF ScriptType
    <3> QED
      BY <1>1, <3>1, <3>2 DEF BlankOK
  <2> QED
    BY <1>6, <2>1, <2>2, <2>3, <2>4 DEF Peer
<1> QED
  BY <1>3, <1>4, <1>5, <1>6, InputSteps

\* The thread comes to the parser from a read, and stays there with its callbacks.
LEMMA ParseSteps ==
  ASSUME [Next]_vars, pc' = "parse"
  PROVE  \/ UNCHANGED <<pc, cur, cli, parseVars, inbox, script, reqs>>
         \/ ReadRequest \/ MessageBegin \/ HeadersComplete \/ BodyComplete
         \/ ParseBlank \/ ParseError \/ \E d \in Fds : Peer(d)
<1>1. Stop \/ UNCHANGED vars => UNCHANGED <<pc, cur, cli, parseVars, inbox, script, reqs>>
  BY DEF Stop
<1>2. ~(\E d \in Fds : Event(d)) /\ ~AcceptEvent /\ ~LoopExit /\ ~Accepting /\ ~Return
  BY DEF Event, ReadEvent, WriteEvent, Dispatch, Timeout, SetReadError, AcceptEvent, LoopExit,
         Accepting, AcceptDone, Register, Accept, AcceptFails, Return
<1>3. ~ParseDone /\ ~ParseNull
  BY DEF ParseDone, SetReadError, ParseNull, Crash
<1>4. ~Serve
  BY DEF Serve, Finish, PrepareCallRack, ProcessRackApp, SendErrorPage
<1>5. ~Respond
  BY DEF Respond, WriteHeaders, InternalError, EmptyIterator, ClosedClient, WriteItem, BodyDone,
         FinishBody, SuspendWrite, SuspendAborts, RetryBucket, Crash
<1>6. ~Close
  BY DEF Close, CloseAborts, CloseToNext, CloseConnection, KeepConnection, Crash
<1> QED
  BY <1>1, <1>2, <1>3, <1>4, <1>5, <1>6 DEF Next, Callback, Parse

\* A message that the parser is in is the current request of the client.
LEMMA CurrentParsed ==
  ASSUME IInv, ServeInv, pc = "parse", cli[cur].parser \in {"head", "body"}
  PROVE  /\ cli[cur].queue # <<>> /\ cli[cur].current = Last(cli[cur].queue)
         /\ cli[cur].current \in Ids /\ cli[cur].current \in Range(cli[cur].queue)
         /\ cli[cur].current \in DOMAIN reqs[cur]
<1>1. cur \in Fds /\ Points(cli[cur], Len(reqs[cur])) /\ cli[cur].queue \in Seq(Ids)
      /\ reqs[cur] \in Seq(RequestType)
  BY Fetch, Pointers
<1>2. cli[cur].queue # <<>>
  BY <1>1 DEF IInv, DataInv, RefsOK
<1>3. Reading(cur)
  BY DEF Reading, At
<1>4. cli[cur].current = Last(cli[cur].queue)
  BY <1>1, <1>2, <1>3 DEF ServeInv, ReadingOK
<1>5. Last(cli[cur].queue) \in Ids /\ Last(cli[cur].queue) \in Range(cli[cur].queue)
  BY <1>1, <1>2, LastInRange
<1>6. cli[cur].current \in DOMAIN reqs[cur]
  BY <1>1, <1>4, <1>5 DEF Points, Ids
<1> QED
  BY <1>2, <1>4, <1>5, <1>6

\* What the parser's callbacks do to the buffer and to current_req.
LEMMA ParsedBuffer ==
  ASSUME IInv, ServeInv,
         MessageBegin \/ HeadersComplete \/ BodyComplete \/ ParseBlank \/ ParseError
  PROVE  /\ pc = "parse" /\ pc' = pc /\ cur' = cur /\ UNCHANGED <<inbox, script>>
         /\ ~bad /\ buf # <<>>
         /\ (bad' /\ buf' = buf) \/ (~bad' /\ buf' = Tail(buf))
         /\ \/ bad' \/ cli'[cur].current # 0
            \/ Head(buf).t = "blank"
<1>1. /\ pc = "parse" /\ pc' = pc /\ cur' = cur /\ UNCHANGED <<inbox, script>> /\ ~bad
      /\ buf # <<>>
      /\ (bad' /\ buf' = buf) \/ (~bad' /\ buf' = Tail(buf))
  BY SMTT(30) DEF MessageBegin, HeadersComplete, BodyComplete, ParseBlank, ParseError, Parsing,
         ParserUnchanged
<1>2. cur \in Fds /\ cli[cur] \in ClientType /\ cli \in [Fds -> ClientType]
      /\ Len(reqs[cur]) \in Nat
  BY Fetch, Pointers
<1>3. ASSUME MessageBegin PROVE cli'[cur].current # 0
  <2> DEFINE k == cli[cur]
             id == Len(reqs[cur]) + 1
             q == Append(k.queue, id)
             c == [k EXCEPT !.current = id, !.complete = FALSE, !.parser = "head", !.queue = q]
  <2>1. cli'[cur] = c /\ id # 0
    BY <1>2, <1>3 DEF MessageBegin, Client
  <2>2. c.current = id
    <3> HIDE DEF id, q, k
    <3> QED
      BY <1>2 DEF ClientType, k
  <2> QED
    BY <2>1, <2>2
<1>4. ASSUME HeadersComplete PROVE cli'[cur].current # 0
  <2>1. cli[cur].current # 0
    BY <1>1, <1>4, CurrentParsed DEF HeadersComplete, Ids
  <2>2. cli'[cur].current = cli[cur].current
    <3> DEFINE k == cli[cur]
               h == Head(buf).h
               ka == h.ka
               minor == h.minor
               c == [k EXCEPT !.keep_alive = ka, !.minor = minor]
               c1 == [c EXCEPT !.parser = "body"]
               parser == NewMessage(c)
               c2 == [c EXCEPT !.parser = parser, !.complete = TRUE]
    <3>1. cli'[cur] = c \/ cli'[cur] = c1 \/ cli'[cur] = c2
      BY <1>2, <1>4 DEF HeadersComplete, Client
    <3>2. c.current = k.current /\ DOMAIN c = DOMAIN k /\ "current" \in DOMAIN k
      <4> HIDE DEF k, ka, minor
      <4> QED
        BY <1>2 DEF ClientType, k
    <3>3. c1.current = c.current /\ c2.current = c.current
      <4> HIDE DEF c, parser
      <4> QED
        BY <3>2
    <3> HIDE DEF c, c1, c2
    <3> QED
      BY <3>1, <3>2, <3>3
  <2> QED
    BY <2>1, <2>2
<1>5. ASSUME BodyComplete PROVE cli'[cur].current # 0
  <2>1. cli[cur].current # 0
    BY <1>1, <1>5, CurrentParsed DEF BodyComplete, Ids
  <2>2. cli'[cur].current = cli[cur].current
    <3> DEFINE k == cli[cur]
               parser == NewMessage(k)
               c == [k EXCEPT !.parser = parser, !.complete = TRUE]
    <3>1. cli'[cur] = k \/ cli'[cur] = c
      BY <1>2, <1>5 DEF BodyComplete, Client
    <3>2. c.current = k.current
      <4> HIDE DEF k, parser
      <4> QED
        BY <1>2 DEF ClientType, k
    <3> HIDE DEF c
    <3> QED
      BY <3>1, <3>2
  <2> QED
    BY <2>1, <2>2
<1>6. ParseBlank => Head(buf).t = "blank"
  BY DEF ParseBlank, Parsing
<1>7. ParseError => bad'
  BY DEF ParseError
<1> QED
  BY <1>1, <1>3, <1>4, <1>5, <1>6, <1>7

LEMMA BufferKept ==
  ASSUME IInv, ServeInv, FaultInv, [Next]_vars
  PROVE  BufferOK'
<1>0. SUFFICES ASSUME pc' = "parse" PROVE BufferOK'
  BY DEF BufferOK
<1>1. /\ inbox \in [Fds -> Seq(TokenType)] /\ cur \in Fds /\ buf \in Seq(TokenType)
      /\ script \in [Fds -> ScriptType] /\ BlankOK(cur) /\ BufferOK
  BY Fetch DEF IInv, DataInv, PeerTypes, DataTypes, FaultInv
<1>2. CASE UNCHANGED <<pc, cur, cli, parseVars, inbox, script, reqs>>
  BY <1>1, <1>2 DEF BufferOK
<1>3. CASE ReadRequest
  <2>1. PICK n \in 1..Len(inbox[cur]) :
          buf' = SubSeq(inbox[cur], 1, n) /\ script' = script /\ cur' = cur
    BY <1>0, <1>3 DEF ReadRequest, SetReadError
  <2>2. buf' # <<>> /\ (Blanks(buf') # {} => Blanks(inbox[cur]) # {})
    BY <1>1, <2>1, SplitTokens
  <2> QED
    BY <1>1, <2>1, <2>2 DEF BufferOK, BlankOK, Blanks
<1>4. CASE MessageBegin \/ HeadersComplete \/ BodyComplete \/ ParseBlank \/ ParseError
  <2>1. /\ pc = "parse" /\ cur' = cur /\ script' = script /\ ~bad /\ buf # <<>>
        /\ (bad' /\ buf' = buf) \/ (~bad' /\ buf' = Tail(buf))
        /\ bad' \/ cli'[cur].current # 0 \/ Head(buf).t = "blank"
    BY <1>4, ParsedBuffer
  <2>2. /\ Blanks(Tail(buf)) # {} => Blanks(buf) # {}
        /\ Head(buf).t = "blank" => Blanks(buf) # {}
    BY <1>1, <2>1, TailTokens
  <2>3. Blanks(buf') # {} => Blanks(buf) # {}
    BY <2>1, <2>2
  <2>4. Blanks(buf)' = Blanks(buf')
    BY DEF Blanks
  <2> QED
    BY <1>1, <2>1, <2>2, <2>3, <2>4 DEF BufferOK
<1>5. ASSUME NEW d \in Fds, Peer(d) PROVE BufferOK'
  <2>1. /\ UNCHANGED <<pc, cur, cli, parseVars>>
    BY <1>5 DEF Peer, PeerConnect, PeerSend, PeerEof, PeerReset, PeerStall, PeerDrain
  <2>2. sock[cur] = "open"
    BY <1>0, <1>1, <2>1 DEF IInv, WatchInv, StackOK, Working, AllocOK
  <2>3. script'[cur].blanks >= script[cur].blanks /\ script[cur].blanks \in Nat
        /\ script'[cur].blanks \in Nat
    <3>1. script[cur].blanks \in Nat
      BY <1>1 DEF ScriptType
    <3>2. CASE PeerConnect(d)
      BY <1>1, <2>2, <3>1, <3>2 DEF PeerConnect
    <3>3. CASE PeerSend(d)
      <4>1. script'[cur].blanks >= script[cur].blanks
        BY <1>1, <3>1, <3>3, PutBlank DEF FaultInv
      <4>2. script' \in [Fds -> ScriptType]
        BY <1>5, PeerData DEF DataInv, PeerTypes
      <4> QED
        BY <1>1, <3>1, <4>1, <4>2 DEF ScriptType
    <3>4. CASE PeerEof(d) \/ PeerReset(d) \/ PeerDrain(d)
      BY <3>1, <3>4 DEF PeerEof, PeerReset, PeerDrain
    <3>5. CASE PeerStall(d)
      <4>1. script' = [script EXCEPT ![d].stalled = TRUE]
        BY <3>5 DEF PeerStall
      <4> QED
        BY <1>1, <3>1, <4>1 DEF ScriptType
    <3> QED
      BY <1>5, <3>2, <3>3, <3>4, <3>5 DEF Peer
  <2> QED
    BY <1>1, <2>1, <2>3 DEF BufferOK
<1> QED
  BY <1>0, <1>2, <1>3, <1>4, <1>5, ParseSteps

\* The last answer on the wire: a new one, or more of it.
LEMMA LastTold ==
  ASSUME NEW w \in Seq(AnswerType), NEW r \in AnswerType
  PROVE  Append(w, r) # <<>> /\ Last(Append(w, r)) = r
BY DEF Last

LEMMA LastSent ==
  ASSUME NEW w \in Seq(AnswerType), w # <<>>, NEW b
  PROVE  LET v == [w EXCEPT ![Len(w)] = Extend(w[Len(w)], b)]
         IN v # <<>> /\ Last(v).id = Last(w).id /\ Last(v).kind = Last(w).kind
<1> DEFINE n == Len(w)
           x == Extend(w[n], b)
           v == [w EXCEPT ![n] = x]
<1>1. n \in DOMAIN w /\ w[n] \in AnswerType /\ Last(w) = w[n]
  BY DEF Last
<1>2. x.id = w[n].id /\ x.kind = w[n].kind
  BY <1>1 DEF Extend, AnswerType
<1>3. Len(v) = n /\ v # <<>> /\ v[n] = x
  <2> HIDE DEF x
  <2> QED
    BY <1>1
<1>4. Last(v) = x
  <2> HIDE DEF v, x, n
  <2> QED
    BY <1>3 DEF Last
<1> QED
  BY <1>1, <1>2, <1>3, <1>4

\* The thread comes to a body, or to a suspension, by writing the response.
LEMMA BodySteps ==
  ASSUME [Next]_vars, pc' \in {"body", "suspend"}
  PROVE  \/ UNCHANGED <<pc, cur, cli, wire>>
         \/ WriteHeaders \/ WriteItem \/ \E d \in Fds : Peer(d)
<1>1. Stop \/ UNCHANGED vars => UNCHANGED <<pc, cur, cli, wire>>
  BY DEF Stop
<1>2. ~(\E d \in Fds : Event(d)) /\ ~AcceptEvent /\ ~LoopExit /\ ~Accepting /\ ~Return
  BY DEF Event, ReadEvent, WriteEvent, Dispatch, Timeout, SetReadError, AcceptEvent, LoopExit,
         Accepting, AcceptDone, Register, Accept, AcceptFails, Return
<1>3. ~ReadRequest /\ ~Parse
  BY DEF ReadRequest, Parse, MessageBegin, HeadersComplete, BodyComplete, ParseBlank, ParseError,
         Parsing, ParserUnchanged, ParseDone, SetReadError, ParseNull, Crash
<1>4. ~Serve
  BY DEF Serve, Finish, PrepareCallRack, ProcessRackApp, SendErrorPage
<1>5. Respond => WriteHeaders \/ WriteItem
  BY DEF Respond, EmptyIterator, ClosedClient, BodyDone, FinishBody, SuspendWrite,
         SuspendAborts, RetryBucket, Crash
<1>6. ~Close
  BY DEF Close, CloseAborts, CloseToNext, CloseConnection, KeepConnection, Crash
<1> QED
  BY <1>1, <1>2, <1>3, <1>4, <1>5, <1>6 DEF Next, Callback

LEMMA WriteHeadersAnswers ==
  ASSUME IInv, WriteHeaders
  PROVE  AnsweringOK'
<1>1. cur \in Fds /\ cli \in [Fds -> ClientType] /\ wire \in [Fds -> Seq(AnswerType)] /\ cur' = cur
  BY Fetch DEF WriteHeaders, ResponseUnchanged
<1>2. PICK n : /\ Kept(n, cli[cur]) /\ cli' = [cli EXCEPT ![cur] = n]
               /\ \/ UNCHANGED wire /\ pc' = "page"
                  \/ \E r \in AnswerType :
                       /\ Tell(r) /\ r.id = cli[cur].current /\ r.kind = "app"
                       /\ pc' \in {"close", "body", "suspend"}
                       /\ pc' = "body" => n.header_done
                       /\ pc' = "suspend" => n.bucket.held
  BY WriteHeadersStep
<1>3. SUFFICES ASSUME pc' \in {"body", "suspend"} PROVE AnsweringOK'
  BY DEF AnsweringOK
<1>4. PICK r \in AnswerType :
        /\ Tell(r) /\ r.id = cli[cur].current /\ r.kind = "app"
        /\ pc' = "suspend" => n.bucket.held
  BY <1>2, <1>3
<1>5. wire'[cur] = Append(wire[cur], r) /\ cli'[cur] = n /\ n.current = cli[cur].current
  BY <1>1, <1>2, <1>4 DEF Tell, Kept
<1>6. wire'[cur] # <<>> /\ Last(wire'[cur]) = r
  BY <1>1, <1>5, LastTold
<1>7. Answering(cur)'
  BY <1>1, <1>4, <1>5, <1>6 DEF Answering, Last
<1> QED
  BY <1>1, <1>4, <1>5, <1>7 DEF AnsweringOK, Suspended

LEMMA WriteItemAnswers ==
  ASSUME IInv, WriteItem, AnsweringOK
  PROVE  AnsweringOK'
<1> DEFINE k == cli[cur]
           len == Head(k.iter)
           rest == Tail(k.iter)
           c == [k EXCEPT !.iter = rest]
           b == Bucket(c, FALSE, len)
           sent == c.write_bytes + len
           c1 == [c EXCEPT !.write_bytes = sent]
           c3 == [c EXCEPT !.bucket = b]
<1>1. /\ cur \in Fds /\ cli \in [Fds -> ClientType] /\ wire \in [Fds -> Seq(AnswerType)]
      /\ cur' = cur /\ k \in ClientType
  BY Fetch DEF WriteItem, ResponseUnchanged
<1>2. SUFFICES ASSUME pc' \in {"body", "suspend"} PROVE AnsweringOK'
  BY DEF AnsweringOK
<1>3. /\ pc = "body"
      /\ \/ pc' = "body" /\ Sent(b) /\ Client(c1)
         \/ pc' = "suspend" /\ UNCHANGED wire /\ Client(c3)
  BY ZenonT(30), <1>2 DEF WriteItem, BodyDone
<1>4. c1.current = k.current /\ c3.current = k.current /\ c3.bucket = b
  <2>1. c.current = k.current /\ DOMAIN c = DOMAIN k /\ {"current", "bucket"} \subseteq DOMAIN k
    <3> HIDE DEF k, rest
    <3> QED
      BY <1>1 DEF ClientType
  <2> HIDE DEF c, b, sent
  <2> QED
    BY <2>1
<1>5. b.held
  BY DEF Bucket
<1>6. Answering(cur) /\ wire[cur] \in Seq(AnswerType)
  BY <1>1, <1>3 DEF AnsweringOK
<1> HIDE DEF c1, c3, b, k
<1>7. CASE pc' = "body" /\ Sent(b) /\ Client(c1)
  <2>1. cli'[cur] = c1 /\ wire'[cur] = [wire[cur] EXCEPT ![Len(wire[cur])] = Extend(@, b)]
    BY <1>1, <1>7 DEF Sent, Client
  <2>2. /\ wire'[cur] # <<>> /\ Last(wire'[cur]).id = Last(wire[cur]).id
        /\ Last(wire'[cur]).kind = Last(wire[cur]).kind
    <3> DEFINE w == wire[cur]
               v == [w EXCEPT ![Len(w)] = Extend(w[Len(w)], b)]
    <3>1. w \in Seq(AnswerType) /\ w # <<>> /\ wire'[cur] = v
      BY <1>6, <2>1 DEF Answering
    <3> HIDE DEF w
    <3>2. v # <<>> /\ Last(v).id = Last(w).id /\ Last(v).kind = Last(w).kind
      BY <3>1, LastSent
    <3> QED
      BY <3>1, <3>2 DEF w
  <2>3. Answering(cur)'
    BY <1>1, <1>4, <1>6, <2>1, <2>2 DEF Answering, Last, k
  <2> QED
    BY <1>1, <1>7, <2>3 DEF AnsweringOK
<1>8. CASE pc' = "suspend" /\ UNCHANGED wire /\ Client(c3)
  <2>1. cli'[cur] = c3
    BY <1>1, <1>8 DEF Client
  <2>2. Answering(cur)'
    BY <1>1, <1>4, <1>6, <1>8, <2>1 DEF Answering, k
  <2> QED
    BY <1>1, <1>4, <1>5, <1>8, <2>1, <2>2 DEF AnsweringOK, Suspended
<1> QED
  BY <1>3, <1>7, <1>8

LEMMA AnsweringKept ==
  ASSUME IInv, FaultInv, [Next]_vars
  PROVE  AnsweringOK'
<1>1. SUFFICES ASSUME pc' \in {"body", "suspend"} PROVE AnsweringOK'
  BY DEF AnsweringOK
<1>2. AnsweringOK
  BY DEF FaultInv
<1>3. CASE UNCHANGED <<pc, cur, cli, wire>>
  BY <1>2, <1>3 DEF AnsweringOK, Suspended, Answering
<1>4. ASSUME NEW d \in Fds, Peer(d) PROVE AnsweringOK'
  <2>1. UNCHANGED <<pc, cur, cli>>
    BY <1>4 DEF Peer, PeerConnect, PeerSend, PeerEof, PeerReset, PeerStall, PeerDrain
  <2>2. sock[cur] = "open"
    BY <1>1, <2>1, Fetch DEF IInv, WatchInv, StackOK, Working, AllocOK
  <2>3. wire'[cur] = wire[cur]
    BY <1>4, <2>2, Fetch DEF Peer, PeerConnect, PeerSend, PeerEof, PeerReset, PeerStall, PeerDrain
  <2> QED
    BY <1>2, <2>1, <2>3 DEF AnsweringOK, Suspended, Answering
<1> QED
  BY <1>1, <1>2, <1>3, <1>4, BodySteps, WriteHeadersAnswers, WriteItemAnswers

\* A fault is one of five crashes, and nothing happens after a crash.
LEMMA FaultSteps ==
  ASSUME [Next]_vars
  PROVE  UNCHANGED fault \/ ParseNull \/ SuspendAborts \/ CloseAborts \/ EmptyIterator \/ ClosedClient
<1>1. (\E d \in Fds : Peer(d) \/ Event(d)) \/ AcceptEvent \/ LoopExit \/ Stop => UNCHANGED fault
  BY DEF Event, ReadEvent, WriteEvent, Dispatch, Timeout, AcceptEvent, LoopExit, Stop,
         Peer, PeerConnect, PeerSend, PeerEof, PeerReset, PeerStall, PeerDrain
<1>2. Accepting \/ ReadRequest \/ Return => UNCHANGED fault
  BY DEF Accepting, AcceptDone, Register, Accept, AcceptFails, ReadRequest, Return
<1>3. Parse => UNCHANGED fault \/ ParseNull
  BY DEF Parse, MessageBegin, HeadersComplete, BodyComplete, ParseBlank, ParseError, ParseDone,
         ParserUnchanged
<1>4. Serve => UNCHANGED fault
  BY DEF Serve, Finish, PrepareCallRack, ProcessRackApp, SendErrorPage
<1>5. Respond => UNCHANGED fault \/ EmptyIterator \/ ClosedClient \/ SuspendAborts
  BY DEF Respond, WriteHeaders, WriteItem, FinishBody, SuspendWrite, RetryBucket,
         ResponseUnchanged
<1>6. Close => UNCHANGED fault \/ CloseAborts
  BY DEF Close, CloseToNext, CloseConnection, KeepConnection
<1> QED
  BY <1>1, <1>2, <1>3, <1>4, <1>5, <1>6 DEF Next, Callback

LEMMA CrashedStays ==
  ASSUME [Next]_vars, pc = "crashed"
  PROVE  UNCHANGED vars
<1>1. ~(\E d \in Fds : Peer(d) \/ Event(d)) /\ ~AcceptEvent /\ ~LoopExit /\ ~Stop
  BY DEF Event, ReadEvent, WriteEvent, Timeout, AcceptEvent, LoopExit, Stop, Peer, Running
<1>2. ~Accepting /\ ~ReadRequest /\ ~Return
  BY DEF Accepting, AcceptDone, Register, Accept, AcceptFails, ReadRequest, Return
<1>3. ~Parse
  BY DEF Parse, MessageBegin, HeadersComplete, BodyComplete, ParseBlank, ParseError, ParseDone,
         ParseNull, Parsing
<1>4. ~Serve
  BY DEF Serve, Finish, PrepareCallRack, ProcessRackApp, SendErrorPage
<1>5. ~Respond
  BY DEF Respond, WriteHeaders, EmptyIterator, ClosedClient, WriteItem, FinishBody,
         SuspendWrite, SuspendAborts, RetryBucket
<1>6. ~Close
  BY DEF Close, CloseAborts, CloseToNext, CloseConnection, KeepConnection, Closing
<1> QED
  BY <1>1, <1>2, <1>3, <1>4, <1>5, <1>6 DEF Next, Callback

LEMMA CausesKept ==
  ASSUME ServeInv, FaultInv, [Next]_vars
  PROVE  CausesOK'
<1>1. CausesOK /\ BufferOK /\ AnsweringOK /\ (fault # "none" => pc = "crashed")
  BY DEF FaultInv, ServeInv, NestOK
<1>2. CASE fault' = "none"
  BY <1>2 DEF CausesOK
<1>3. CASE UNCHANGED fault /\ fault # "none"
  <2>1. UNCHANGED vars
    BY <1>1, <1>3, CrashedStays
  <2> QED
    BY <1>1, <2>1 DEF CausesOK, Suspended, Answering
<1>4. CASE ParseNull
  BY <1>1, <1>4 DEF ParseNull, Crash, BufferOK, CausesOK
<1>5. CASE SuspendAborts
  BY <1>1, <1>5 DEF SuspendAborts, Crash, AnsweringOK, CausesOK, Suspended, Answering
<1>6. CASE CloseAborts
  BY <1>6 DEF CloseAborts, CloseFaults, Crash, CausesOK
<1>7. CASE EmptyIterator
  BY <1>7 DEF EmptyIterator, Crash, CausesOK
<1>8. CASE ClosedClient
  BY <1>8 DEF ClosedClient, Crash, CausesOK
<1> QED
  BY <1>2, <1>3, <1>4, <1>5, <1>6, <1>7, <1>8, FaultSteps

LEMMA InitFault == ASSUME Init PROVE FaultInv
<1> USE DEF Init
<1>1. Blanks(<<>>) = {}
  BY DEF Blanks
<1> QED
  BY <1>1 DEF FaultInv, BlankOK, BufferOK, AnsweringOK, CausesOK

LEMMA NextFault == ASSUME IInv, ServeInv, FaultInv, [Next]_vars PROVE FaultInv'
BY BlanksKept, BufferKept, AnsweringKept, CausesKept DEF FaultInv

\* What the faults come from holds for every peer: FaultInv.
THEOREM FaultInvariance == Spec => []FaultInv
<1>1. Init => FaultInv
  BY InitFault
<1>2. IInv /\ ServeInv /\ FaultInv /\ [Next]_vars => FaultInv'
  BY NextFault
<1> QED
  BY <1>1, <1>2, Invariance, ServeInvariance, PTL DEF Spec
=============================================================================
