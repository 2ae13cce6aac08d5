--------------------------- MODULE BossanEpollProofs ---------------------------
(***************************************************************************)
(* The server core on epoll implements the server core, so that what is    *)
(* proved about the second holds of the first.  InterestKept and           *)
(* EventsCurrent follow from the core's invariant WatchInv and from what a *)
(* callback leaves alone: all descriptors but its own.  The module also    *)
(* holds the last two parts of the core's proofs: one request at a time,   *)
(* and what stands on the wire.                                            *)
(***************************************************************************)
EXTENDS BossanEpoll, BossanProofs

USE DEF vars, peerVars, histVars, memVars, parseVars, stack, Watch, Unregistered

LEMMA InitEpoll == EpollInit => Init /\ EpollInv
<1> SUFFICES ASSUME EpollInit PROVE Init /\ EpollInv
  OBVIOUS
<1>1. Init
  BY DEF EpollInit
<1>2. WatchInv
  BY <1>1, InitWatch
<1>3. EpollTypes /\ InterestOpen
  BY DEF EpollInit, EpollTypes, InterestOpen
<1>4. InterestKept
  BY <1>1 DEF Init, InterestKept, NoReg
<1>5. EventsOK
  BY DEF EpollInit, EventsOK
<1> QED
  BY <1>1, <1>2, <1>3, <1>4, <1>5 DEF EpollInv

\* What an event of the array leads to.
Handled(e) ==
  IF e = Listener THEN AcceptEvent /\ UNCHANGED interest
  ELSE IF reg[e.fd].ev # "none"
  THEN (ReadEvent(e.fd) \/ WriteEvent(e.fd)) /\ UNCHANGED interest
  ELSE interest' = [interest EXCEPT ![e.fd] = "none"] /\ UNCHANGED vars

LEMMA HandleOne ==
  ASSUME EpollTypes, HandleEvent
  PROVE  /\ pc = "loop" /\ turn = "poll"
         /\ \E e \in events : /\ Handled(e) /\ (e # Listener => e.fd \in Fds)
                              /\ events' = events \ {e}
                              /\ turn' = IF events' = {} THEN "sweep" ELSE "poll"
BY DEF HandleEvent, Handled, EpollTypes, EventType

\* Every step on epoll is a step of the core or leaves it alone: epoll_wait and
\* the deferred deletions do not show.
LEMMA EpollStep == ASSUME EpollTypes, [EpollNext]_epollVars PROVE [Next]_vars
<1>1. CASE EpollWait
  BY <1>1 DEF EpollWait
<1>2. CASE HandleEvent
  BY <1>2, HandleOne DEF Handled, Next, Event
<1>3. CASE Sweep
  BY <1>3 DEF Sweep, Next, Event
<1>4. CASE InCallback \/ Outside
  BY <1>4 DEF InCallback, Outside, Next
<1> QED
  BY <1>1, <1>2, <1>3, <1>4 DEF EpollNext, epollVars

-----------------------------------------------------------------------------
(* What steps leave alone.                                                 *)

LEMMA PeerAlone ==
  ASSUME NEW f \in Fds, Peer(f) PROVE UNCHANGED <<pc, cur, reg, mem>>
<1>1. PeerSend(f) => UNCHANGED <<pc, cur, reg, mem>>
  BY DEF PeerSend
<1> QED
  BY <1>1 DEF Peer, PeerConnect, PeerEof, PeerReset, PeerStall, PeerDrain

\* A callback touches the registration and the client of cur only, and the
\* client is freed with the descriptor; an accepted connection has a
\* descriptor that was closed.
Near == /\ Busy /\ cur' = cur
        /\ mem'[cur] = mem[cur] \/ mem'[cur] # 0 \/ sock'[cur] = "closed"
        /\ \A f \in Fds \ {cur} : reg'[f] = reg[f] /\ mem'[f] = mem[f]
AcceptsNew == /\ reg' = reg /\ cur' \in Fds /\ sock[cur'] = "pending"
              /\ \A f \in Fds \ {cur'} : mem'[f] = mem[f]
Leaves == UNCHANGED <<reg, mem>> /\ pc' = "loop"

LEMMA SameNear ==
  ASSUME Busy, UNCHANGED <<cur, reg, mem>> PROVE Near
BY DEF Near

LEMMA ServingNear ==
  ASSUME WatchInv, ReadRequest \/ Parse \/ Serve \/ Respond \/ Return PROVE Near
<1> USE DEF Working, Busy
<1>1. CASE ReadRequest
  <2>1. pc = "read" /\ UNCHANGED <<cur, mem>>
    BY <1>1 DEF ReadRequest
  <2>2. reg' = reg \/ reg' = [reg EXCEPT ![cur].armed = TRUE]
    BY <1>1 DEF ReadRequest, Rearm
  <2> QED
    BY <2>1, <2>2 DEF Near, WatchInv, AllocTypes
<1>2. CASE Parse
  <2>1. pc = "parse" /\ UNCHANGED <<cur, reg, mem>>
    BY <1>2 DEF Parse, MessageBegin, HeadersComplete, BodyComplete, ParseBlank, ParseError,
                ParseDone, ParseNull, Parsing, ParserUnchanged, Crash
  <2> QED
    BY <2>1, SameNear
<1>3. CASE Finish
  <2>1. pc = "finish" /\ UNCHANGED <<cur, mem>>
    BY <1>3 DEF Finish
  <2>2. reg' = reg \/ reg' = [reg EXCEPT ![cur] = NoReg]
    BY <1>3 DEF Finish
  <2> QED
    BY <2>1, <2>2 DEF Near, WatchInv, AllocTypes
<1>4. CASE PrepareCallRack \/ ProcessRackApp \/ SendErrorPage \/ Return
  <2>1. pc \in {"prepare", "app", "page", "return"} /\ UNCHANGED <<cur, reg, mem>>
    BY <1>4 DEF PrepareCallRack, ProcessRackApp, SendErrorPage, Return
  <2> QED
    BY <2>1, SameNear
<1>5. CASE WriteHeaders \/ EmptyIterator \/ ClosedClient \/ WriteItem \/ FinishBody
           \/ SuspendAborts \/ RetryBucket
  <2>1. pc \in {"start", "body", "wbody", "suspend", "retry"} /\ UNCHANGED <<cur, reg, mem>>
    BY <1>5 DEF WriteHeaders, EmptyIterator, ClosedClient, WriteItem, FinishBody, SuspendAborts,
                RetryBucket, ResponseUnchanged, Crash
  <2> QED
    BY <2>1, SameNear
<1>6. CASE SuspendWrite
  <2>1. /\ pc = "suspend" /\ UNCHANGED <<cur, mem>>
        /\ reg' = [reg EXCEPT ![cur] = Watch("write", me)]
    BY <1>6 DEF SuspendWrite
  <2> QED
    BY <2>1 DEF Near, WatchInv, AllocTypes
<1> QED
  BY <1>1, <1>2, <1>3, <1>4, <1>5, <1>6 DEF Serve, Respond

LEMMA CloseNear ==
  ASSUME WatchInv, Close PROVE Near
<1>1. pc = "close" /\ cur' = cur
  BY DEF Close, CloseAborts, CloseToNext, CloseConnection, KeepConnection, Closing, Crash
<1>2. reg' = reg \/ \E r : reg' = [reg EXCEPT ![cur] = r]
  BY DEF Close, CloseAborts, CloseToNext, CloseConnection, KeepConnection, Crash
<1>3. CASE CloseConnection
  BY <1>1, <1>2, <1>3 DEF CloseConnection, Near, Busy, Working, WatchInv, AllocTypes, ControlTypes
<1>4. CASE KeepConnection
  <2>1. mem' = [mem EXCEPT ![cur] = gens[cur] + 1] /\ gens[cur] \in Nat
    BY <1>4 DEF KeepConnection, WatchInv, AllocTypes, ControlTypes
  <2> QED
    BY <1>1, <1>2, <2>1 DEF Near, Busy, Working, WatchInv, AllocTypes, ControlTypes
<1>5. CASE CloseAborts \/ CloseToNext
  <2>1. mem' = mem
    BY <1>5 DEF CloseAborts, CloseToNext, Crash
  <2> QED
    BY <1>1, <1>2, <2>1 DEF Near, Busy, Working, WatchInv, AllocTypes, ControlTypes
<1> QED
  BY <1>3, <1>4, <1>5 DEF Close

LEMMA AcceptingNear ==
  ASSUME WatchInv, Accepting PROVE Near \/ AcceptsNew \/ Leaves
<1>1. CASE AcceptDone \/ \E f \in Fds : AcceptFails(f)
  BY <1>1 DEF AcceptDone, AcceptFails, Leaves
<1>2. CASE Register
  <2>1. pc = "register" /\ UNCHANGED <<cur, mem>>
    BY <1>2 DEF Register
  <2>2. reg' = reg \/ reg' = [reg EXCEPT ![cur] = Watch("read", me)]
    BY <1>2 DEF Register
  <2> QED
    BY <2>1, <2>2 DEF Near, Busy, Working, WatchInv, AllocTypes
<1>3. ASSUME NEW f \in Fds, Accept(f) PROVE AcceptsNew
  BY <1>3 DEF Accept, AcceptsNew, WatchInv, AllocTypes
<1> QED
  BY <1>1, <1>2, <1>3 DEF Accepting

LEMMA InAll ==
  ASSUME WatchInv, Callback PROVE Near \/ AcceptsNew \/ Leaves
BY ServingNear, CloseNear, AcceptingNear DEF Callback

-----------------------------------------------------------------------------
(* The kernel's set.                                                       *)

LEMMA InterestsKept ==
  ASSUME EpollInv, WatchInv', Interests,
         \A f \in Fds : mem[f] # 0 => mem'[f] # 0 \/ sock'[f] = "closed"
  PROVE  interest' \in [Fds -> {"none", "read", "write"}] /\ InterestKept' /\ InterestOpen'
<1>1. \A f \in Fds : reg'[f].ev \in {"none", "read", "write"}
  BY DEF WatchInv, AllocTypes, RegType
<1>2. interest' \in [Fds -> {"none", "read", "write"}]
  BY <1>1 DEF Interests, Updated, EpollInv, EpollTypes
<1>3. ASSUME NEW f \in Fds, reg'[f].ev # "none" PROVE interest'[f] = reg'[f].ev
  <2>1. sock'[f] # "closed"
    BY <1>3 DEF WatchInv, AllocOK
  <2>2. CASE reg'[f] # reg[f]
    BY <1>3, <2>1, <2>2 DEF Interests, Updated
  <2>3. CASE reg'[f] = reg[f]
    BY <1>3, <2>1, <2>3 DEF Interests, EpollInv, InterestKept
  <2> QED
    BY <2>2, <2>3
<1>4. ASSUME NEW f \in Fds, interest'[f] # "none" PROVE mem'[f] # 0 /\ f \in Pollable
  <2>1. CASE reg'[f].ev # "none"
    BY <2>1 DEF WatchInv, AllocOK
  <2>2. CASE reg'[f].ev = "none"
    <3>1. sock'[f] # "closed" /\ interest[f] # "none"
      BY <1>4, <2>2 DEF Interests, Updated
    <3> QED
      BY <3>1 DEF EpollInv, InterestOpen
  <2> QED
    BY <2>1, <2>2
<1> QED
  BY <1>2, <1>3, <1>4 DEF InterestKept, InterestOpen

LEMMA NextInterest ==
  ASSUME EpollInv, [EpollNext]_epollVars, WatchInv'
  PROVE  interest' \in [Fds -> {"none", "read", "write"}] /\ InterestKept' /\ InterestOpen'
<1>1. CASE UNCHANGED <<interest, reg, mem>>
  BY <1>1 DEF EpollInv, EpollTypes, InterestKept, InterestOpen
<1>2. CASE Sweep
  <2>1. Interests /\ mem' = mem
    BY <1>2 DEF Sweep, Timeout, LoopExit
  <2> QED
    BY <2>1, InterestsKept
<1>3. CASE InCallback
  <2>1. Near \/ AcceptsNew \/ Leaves
    BY <1>3, InAll DEF InCallback, EpollInv
  <2>2. ASSUME NEW f \in Fds, mem[f] # 0 PROVE mem'[f] # 0 \/ sock'[f] = "closed"
    BY <2>1, <2>2 DEF Near, AcceptsNew, Leaves, EpollInv, WatchInv, AllocOK
  <2> QED
    BY <1>3, <2>2, InterestsKept DEF InCallback
<1>4. CASE HandleEvent
  <2> PICK e \in events : Handled(e) /\ (e # Listener => e.fd \in Fds)
    BY <1>4, HandleOne DEF EpollInv
  <2>1. CASE e = Listener \/ reg[e.fd].ev # "none"
    BY <1>1, <2>1 DEF Handled, AcceptEvent, ReadEvent, WriteEvent
  <2>2. CASE e # Listener /\ reg[e.fd].ev = "none"
    <3>1. /\ interest' = [interest EXCEPT ![e.fd] = "none"]
          /\ UNCHANGED <<reg, mem>>
      BY <2>2 DEF Handled
    <3> QED
      BY <2>2, <3>1 DEF EpollInv, EpollTypes, InterestKept, InterestOpen
  <2> QED
    BY <2>1, <2>2
<1>5. CASE EpollWait \/ Outside \/ UNCHANGED epollVars
  BY <1>1, <1>5, PeerAlone DEF EpollWait, Outside, Stop, epollVars
<1> QED
  BY <1>2, <1>3, <1>4, <1>5 DEF EpollNext

-----------------------------------------------------------------------------
(* The events of a poll.                                                   *)

LEMMA CallbackEvents ==
  ASSUME EpollInv, InCallback PROVE EventsOK'
<1>1. events' = events /\ turn' = turn
  BY DEF InCallback
<1>2. Near \/ AcceptsNew \/ Leaves
  BY InAll DEF InCallback, EpollInv
<1>3. ASSUME NEW e \in events, e # Listener
      PROVE  /\ reg'[e.fd].ev # "none" /\ mem'[e.fd] = e.gen
             /\ Busy' => cur' # e.fd
  <2>1. e.fd \in Fds /\ reg[e.fd].ev # "none" /\ mem[e.fd] = e.gen /\ (Busy => cur # e.fd)
    BY <1>3 DEF EventsOK, EpollInv, EpollTypes, EventType
  <2>2. sock[e.fd] = "open"
    BY <2>1 DEF EpollInv, WatchInv, AllocOK
  <2> QED
    BY <1>2, <2>1, <2>2 DEF Near, AcceptsNew, Leaves, Busy, Working
<1> QED
  BY <1>1, <1>3 DEF EventsOK, EpollInv

\* Between two callbacks every descriptor that the kernel waits for is registered.
LEMMA WaitEvents ==
  ASSUME EpollInv, EpollWait PROVE EventsOK'
<1>1. pc = "loop" /\ UNCHANGED <<pc, reg, mem>> /\ (turn' = "sweep" => events' = {})
  BY DEF EpollWait
<1>2. ASSUME NEW e \in events', e # Listener
      PROVE  reg[e.fd].ev # "none" /\ mem[e.fd] = e.gen
  <2> PICK f \in Fds : interest[f] # "none" /\ e = [fd |-> f, gen |-> mem[f]]
    BY <1>2 DEF EpollWait, Ready
  <2>1. mem[f] # 0 /\ f \in Pollable
    BY DEF EpollInv, InterestOpen
  <2>2. sock[f] = "open"
    BY <2>1 DEF EpollInv, WatchInv, AllocOK
  <2> QED
    BY <1>1, <2>1, <2>2 DEF EpollInv, WatchInv, WatchOK, Running, Nested, Working
<1> QED
  BY <1>1, <1>2 DEF EventsOK, Busy, Working

LEMMA HandleEvents ==
  ASSUME EpollInv, HandleEvent PROVE EventsOK'
<1>1. pc = "loop" /\ EpollTypes /\ ~Busy
  BY HandleOne DEF EpollInv, Busy, Working
<1> PICK e \in events : /\ Handled(e) /\ (e # Listener => e.fd \in Fds)
                       /\ events' = events \ {e}
                       /\ turn' = IF events' = {} THEN "sweep" ELSE "poll"
  BY <1>1, HandleOne
<1>2. UNCHANGED <<reg, mem>> /\ (e # Listener => cur' = e.fd \/ ~Busy')
  <2>1. CASE e = Listener
    BY <2>1 DEF Handled, AcceptEvent
  <2>2. CASE e # Listener /\ reg[e.fd].ev # "none"
    BY <2>2 DEF Handled, ReadEvent, WriteEvent, Dispatch
  <2>3. CASE e # Listener /\ reg[e.fd].ev = "none"
    BY <1>1, <2>3 DEF Handled, Busy
  <2> QED
    BY <2>1, <2>2, <2>3
<1>3. e = Listener => ~Busy'
  BY DEF Handled, AcceptEvent, Busy, Working
<1>4. ASSUME NEW d \in events', d # Listener
      PROVE  reg[d.fd].ev # "none" /\ mem[d.fd] = d.gen /\ (e # Listener => d.fd # e.fd)
  <2>1. reg[d.fd].ev # "none" /\ mem[d.fd] = d.gen
    BY <1>4 DEF EpollInv, EventsOK
  <2>2. ASSUME e # Listener, d.fd = e.fd PROVE FALSE
    <3>1. d.gen = e.gen
      BY <2>1, <2>2 DEF EpollInv, EventsOK
    <3>2. d \in [fd : Fds, gen : Nat] /\ e \in [fd : Fds, gen : Nat]
      BY <1>1, <1>4, <2>2 DEF EpollTypes, EventType
    <3> QED
      BY <1>4, <2>2, <3>1, <3>2
  <2> QED
    BY <2>1, <2>2
<1> QED
  BY <1>2, <1>3, <1>4 DEF EventsOK

LEMMA NextEvents ==
  ASSUME EpollInv, [EpollNext]_epollVars PROVE EventsOK'
<1>1. CASE Sweep
  <2>1. turn = "sweep" /\ events' = events
    BY <1>1 DEF Sweep
  <2> QED
    BY <2>1 DEF EpollInv, EventsOK
<1>2. CASE Outside \/ UNCHANGED epollVars
  <2>1. UNCHANGED <<pc, cur, reg, mem, events, turn>>
    BY <1>2, PeerAlone DEF Outside, Stop, epollVars
  <2> QED
    BY <2>1 DEF EpollInv, EventsOK, Busy
<1> QED
  BY <1>1, <1>2, CallbackEvents, WaitEvents, HandleEvents DEF EpollNext

-----------------------------------------------------------------------------
LEMMA NextEpoll == ASSUME EpollInv, [EpollNext]_epollVars PROVE EpollInv'
<1>1. WatchInv'
  BY EpollStep, NextWatch DEF EpollInv
<1>2. events' \subseteq EventType
  <2>1. CASE EpollWait
    <3>1. \A f \in Fds : [fd |-> f, gen |-> mem[f]] \in EventType
      BY DEF EpollInv, WatchInv, AllocTypes, EventType
    <3> QED
      BY <2>1, <3>1 DEF EpollWait, EventType
  <2>2. CASE HandleEvent
    BY <2>2, HandleOne DEF EpollInv, EpollTypes
  <2>3. CASE Sweep \/ InCallback \/ Outside \/ UNCHANGED epollVars
    BY <2>3 DEF Sweep, InCallback, Outside, epollVars, EpollInv, EpollTypes
  <2> QED
    BY <2>1, <2>2, <2>3 DEF EpollNext
<1> QED
  BY <1>1, <1>2, NextInterest, NextEvents DEF EpollInv, EpollTypes

\* The kernel's set, picoev's table and the events of a poll agree in every
\* reachable state.
THEOREM EpollInvariance == EpollSpec => []EpollInv
BY InitEpoll, NextEpoll, PTL DEF EpollSpec

\* The kernel waits for whatever picoev has registered.
THEOREM InterestIsKept == EpollSpec => []InterestKept
<1>1. EpollInv => InterestKept
  BY DEF EpollInv
<1> QED
  BY <1>1, EpollInvariance, PTL

\* No event is delivered to a connection that took over the number of the one it
\* was collected for.
THEOREM EventsAreCurrent == EpollSpec => []EventsCurrent
<1>1. EpollInv => EventsCurrent
  BY DEF EpollInv, EventsOK, EventsCurrent
<1> QED
  BY <1>1, EpollInvariance, PTL

\* The server core on epoll implements the core of module Bossan, which takes
\* ready descriptors and timers in any order.
THEOREM EpollImplementsCore == EpollSpec => Spec
<1>1. EpollInv => EpollTypes
  BY DEF EpollInv
<1> QED
  BY <1>1, InitEpoll, EpollStep, EpollInvariance, PTL DEF EpollSpec, Spec

-----------------------------------------------------------------------------
(* The fifth part of the proofs about the core: one request at a time.     *)
(* SoloInv is inductive for peers that wait for each answer: the           *)
(* application gets whole requests only.                                   *)

USE DEF Places, Faults, MessageDone, Shifted, LastPacket, MoreQueued

\* A connection that neither the thread nor its peer works on.
Still(f) == Alone(f) /\ inbox'[f] = inbox[f] /\ script'[f] = script[f]
Apart == \A f \in Fds \ {cur'} : Still(f)

LEMMA StillSolo ==
  ASSUME NEW f \in Fds, SoloOK(f), WholeOK(f), Still(f)
  PROVE  SoloOK(f)' /\ WholeOK(f)'
<1>1. \A P : ~At(f, P)' /\ ~Started(f)'
  BY DEF Still, Alone, At, Started
<1>2. InService(f)' => InService(f)
  BY <1>1 DEF Still, Alone, InService
<1>3. SoloOK(f)'
  BY <1>2 DEF Still, Alone, SoloOK
<1>4. WholeOK(f)'
  BY <1>1 DEF Still, Alone, WholeOK
<1> QED
  BY <1>3, <1>4

LEMMA ApartSolo ==
  ASSUME SoloInv, Apart, NEW d \in Fds, cur' = d, SoloOK(d)', WholeOK(d)'
  PROVE  \A f \in Fds : SoloOK(f)' /\ WholeOK(f)'
<1>1. ASSUME NEW f \in Fds, f # d PROVE SoloOK(f)' /\ WholeOK(f)'
  BY <1>1, StillSolo DEF Apart, SoloInv
<1> QED
  BY <1>1

\* Where the functions of the descriptors change at cur only.
LEMMA LocalApart ==
  ASSUME cur' = cur, Elsewhere,
         \A f \in Fds \ {cur} : inbox'[f] = inbox[f] /\ script'[f] = script[f]
  PROVE  Apart
BY DEF Apart, Still, Alone, Elsewhere

LEMMA Shapes ==
  ASSUME IInv
  PROVE  /\ cur \in Fds /\ cli \in [Fds -> ClientType] /\ calls \in [Fds -> Seq(Nat)]
         /\ reqs \in [Fds -> Seq(RequestType)] /\ wire \in [Fds -> Seq(AnswerType)]
         /\ mem \in [Fds -> Nat] /\ reg \in [Fds -> RegType]
         /\ sock \in [Fds -> {"closed", "pending", "open"}]
         /\ peer \in [Fds -> {"up", "eof", "reset"}]
         /\ inbox \in [Fds -> Seq(TokenType)] /\ script \in [Fds -> ScriptType]
BY DEF IInv, WatchInv, AllocTypes, ControlTypes, DataInv, PeerTypes, HistTypes, DataTypes

LEMMA ReadApart ==
  ASSUME IInv, ReadRequest \/ Parse
  PROVE  Apart /\ cur' = cur
<1>1. cur' = cur /\ UNCHANGED <<script, sock, peer, mem, wire, calls>>
  BY DEF ReadRequest, Parse, MessageBegin, HeadersComplete, BodyComplete, ParseBlank, ParseError,
         ParseDone, ParseNull, ParserUnchanged, Crash
<1>2. \A f \in Fds \ {cur} : reg'[f].ev = reg[f].ev
  BY Shapes DEF ReadRequest, Rearm, Parse, MessageBegin, HeadersComplete, BodyComplete, ParseBlank,
         ParseError, ParseDone, ParseNull, ParserUnchanged, Crash
<1>3. \A f \in Fds \ {cur} : inbox'[f] = inbox[f]
  BY Shapes DEF ReadRequest, Parse, MessageBegin, HeadersComplete, BodyComplete, ParseBlank,
         ParseError, ParseDone, ParseNull, ParserUnchanged, Crash
<1>4. \A f \in Fds \ {cur} : cli'[f] = cli[f] /\ reqs'[f] = reqs[f]
  <2>1. ASSUME NEW c, NEW code, SetReadError(cur, c, code)
        PROVE  \A f \in Fds \ {cur} : cli'[f] = cli[f] /\ reqs'[f] = reqs[f]
    BY <2>1, Shapes DEF SetReadError
  <2>2. CASE ReadRequest
    BY <2>1, <2>2 DEF ReadRequest
  <2>3. CASE ParseDone
    BY <2>1, <2>3 DEF ParseDone
  <2>4. CASE MessageBegin
    BY <2>4, Shapes DEF MessageBegin, Client
  <2>5. CASE HeadersComplete
    BY <2>5, Shapes DEF HeadersComplete, Client
  <2>6. CASE BodyComplete
    BY <2>6, Shapes DEF BodyComplete, Client
  <2>7. CASE ParseBlank \/ ParseError \/ ParseNull
    BY <2>7 DEF ParseBlank, ParseError, ParseNull, Crash
  <2> QED
    BY <2>2, <2>3, <2>4, <2>5, <2>6, <2>7 DEF Parse
<1> QED
  BY <1>1, <1>2, <1>3, <1>4, LocalApart DEF Elsewhere

LEMMA ServeApart ==
  ASSUME IInv, Serve
  PROVE  Apart /\ cur' = cur
<1>1. cur' = cur /\ UNCHANGED <<script, inbox, sock, peer, mem>>
  BY DEF Serve, Finish, PrepareCallRack, ProcessRackApp, SendErrorPage
<1>2. \A f \in Fds \ {cur} : reg'[f].ev = reg[f].ev
  BY Shapes DEF Serve, Finish, PrepareCallRack, ProcessRackApp, SendErrorPage
<1>3. \A f \in Fds \ {cur} : wire'[f] = wire[f]
  BY Shapes DEF Serve, Finish, PrepareCallRack, ProcessRackApp, SendErrorPage, Tell
<1>4. \A f \in Fds \ {cur} : calls'[f] = calls[f]
  BY Shapes DEF Serve, Finish, PrepareCallRack, ProcessRackApp, SendErrorPage
<1>5. \A f \in Fds \ {cur} : cli'[f] = cli[f] /\ reqs'[f] = reqs[f]
  <2>1. CASE Finish
    BY <2>1, Shapes DEF Finish, Client
  <2>2. CASE PrepareCallRack
    BY <2>2, Shapes DEF PrepareCallRack, Client
  <2>3. CASE ProcessRackApp
    BY <2>3, Shapes DEF ProcessRackApp, Client
  <2>4. CASE SendErrorPage
    BY <2>4, Shapes DEF SendErrorPage, Client
  <2> QED
    BY <2>1, <2>2, <2>3, <2>4 DEF Serve
<1> QED
  BY <1>1, <1>2, <1>3, <1>4, <1>5, LocalApart DEF Elsewhere

LEMMA RespondApart ==
  ASSUME IInv, Respond
  PROVE  Apart /\ cur' = cur /\ UNCHANGED <<reqs, calls, mem, inbox, script, sock, me>>
<1>1. cur' = cur /\ UNCHANGED <<script, inbox, sock, peer, mem, reqs, calls, me>>
  BY DEF Respond, WriteHeaders, EmptyIterator, ClosedClient, WriteItem, FinishBody,
         SuspendWrite, SuspendAborts, RetryBucket, ResponseUnchanged, Crash
<1>2. \A f \in Fds \ {cur} : reg'[f].ev = reg[f].ev
  BY Shapes DEF Respond, WriteHeaders, EmptyIterator, ClosedClient, WriteItem, FinishBody,
         SuspendWrite, SuspendAborts, RetryBucket, ResponseUnchanged, Crash
<1>3. \A f \in Fds \ {cur} : wire'[f] = wire[f] /\ cli'[f] = cli[f]
  <2>1. CASE WriteHeaders
    BY SMTT(30), <2>1, Shapes DEF WriteHeaders, Tell, Client, InternalError
  <2>2. CASE WriteItem
    BY ZenonT(30), <2>2, Shapes DEF WriteItem, Sent, Client, BodyDone
  <2>3. CASE FinishBody
    BY <2>3, Shapes DEF FinishBody, Sent, Client, BodyDone
  <2>4. CASE RetryBucket
    BY <2>4, Shapes DEF RetryBucket, Sent, Client
  <2>5. CASE EmptyIterator \/ ClosedClient \/ SuspendWrite \/ SuspendAborts
    BY <2>5 DEF EmptyIterator, ClosedClient, SuspendWrite, SuspendAborts, Crash
  <2> QED
    BY <2>1, <2>2, <2>3, <2>4, <2>5 DEF Respond
<1> QED
  BY <1>1, <1>2, <1>3, LocalApart DEF Elsewhere

LEMMA CloseApart ==
  ASSUME IInv, Close
  PROVE  Apart /\ cur' = cur /\ UNCHANGED <<reqs, calls, script>>
<1>1. cur' = cur /\ UNCHANGED <<script, peer, reqs, calls, wire>>
  BY DEF Close, CloseAborts, CloseToNext, CloseConnection, KeepConnection, Crash
<1>2. \A f \in Fds \ {cur} : /\ reg'[f].ev = reg[f].ev /\ inbox'[f] = inbox[f]
                             /\ sock'[f] = sock[f] /\ mem'[f] = mem[f]
  BY Shapes DEF Close, CloseAborts, CloseToNext, CloseConnection, KeepConnection, Crash
<1>3. \A f \in Fds \ {cur} : cli'[f] = cli[f]
  BY Shapes DEF Close, CloseAborts, CloseToNext, CloseConnection, KeepConnection, Crash, Client
<1> QED
  BY <1>1, <1>2, <1>3, LocalApart DEF Elsewhere

LEMMA ControlApart ==
  ASSUME IInv, \/ LoopExit \/ AcceptEvent \/ AcceptDone \/ Register \/ Return
               \/ \E d \in Fds : ReadEvent(d) \/ WriteEvent(d)
  PROVE  Apart /\ UNCHANGED <<cli, calls, reqs, wire, mem, peer, sock, inbox, script>>
<1>1. /\ UNCHANGED <<cli, calls, reqs, wire, mem, peer, sock, inbox, script>>
      /\ cur' = cur \/ pc = "loop"
  BY DEF LoopExit, AcceptEvent, AcceptDone, Register, Return, ReadEvent, WriteEvent, Dispatch
<1>2. \A f \in Fds \ {cur} : reg'[f].ev = reg[f].ev
  BY Shapes DEF LoopExit, AcceptEvent, AcceptDone, Register, Return, ReadEvent, WriteEvent, Dispatch
<1>3. cur' # cur => reg' = reg
  BY DEF LoopExit, AcceptEvent, AcceptDone, Register, Return, ReadEvent, WriteEvent, Dispatch
<1> QED
  BY <1>1, <1>2, <1>3 DEF Apart, Still, Alone

\* A step of the thread on connection f that takes nothing from its peer.
LEMMA QuietSolo ==
  ASSUME NEW f \in Fds, SoloOK(f),
         sock'[f] = "pending" => sock[f] = "pending",
         inbox'[f] = inbox[f], script'[f].sent = script[f].sent,
         mem'[f] # 0 => mem[f] # 0,
         Len(reqs'[f]) = Len(reqs[f]),
         cli'[f].queue = cli[f].queue \/ cli'[f].queue = <<>>,
         InService(f)' => InService(f) \/ cli'[f].queue = <<>>
  PROVE  SoloOK(f)'
BY DEF SoloOK

LEMMA QuietWhole ==
  ASSUME NEW f \in Fds, WholeOK(f), reqs'[f] = reqs[f], calls'[f] = calls[f],
         ~At(f, {"parse"})', ~At(f, {"finish"})', ~At(f, {"prepare"})', ~At(f, {"app"})'
  PROVE  WholeOK(f)'
BY DEF WholeOK

LEMMA ControlSolo ==
  ASSUME IInv, SoloInv, \/ LoopExit \/ AcceptEvent \/ AcceptDone \/ Register \/ Return
                        \/ \E d \in Fds : ReadEvent(d) \/ WriteEvent(d)
  PROVE  \A f \in Fds : SoloOK(f)' /\ WholeOK(f)'
<1>1. Apart /\ UNCHANGED <<cli, calls, reqs, wire, mem, peer, sock, inbox, script>>
  BY ControlApart
<1>2. PICK d \in Fds :
        /\ cur' = d /\ pc' \in {"stopped", "accept", "loop", "read", "retry"}
        /\ reg' = reg \/ (d = cur /\ pc = "register" /\ reg' = [reg EXCEPT ![cur] = Watch("read", me)])
        /\ pc' = "retry" => reg[d].ev = "write"
  BY Shapes DEF LoopExit, AcceptEvent, AcceptDone, Register, Return, ReadEvent, WriteEvent, Dispatch,
     SoloInv, ThreadOK
<1>3. SoloOK(d) /\ WholeOK(d)
  BY DEF SoloInv
<1>4. InService(d)' => InService(d)
  BY <1>2, Shapes DEF InService, Started, At
<1>5. SoloOK(d)'
  BY <1>1, <1>3, <1>4, QuietSolo
<1>6. WholeOK(d)'
  BY <1>1, <1>2, <1>3, QuietWhole DEF At
<1> QED
  BY <1>1, <1>2, <1>5, <1>6, ApartSolo

LEMMA RespondSolo ==
  ASSUME IInv, SoloInv, Respond
  PROVE  \A f \in Fds : SoloOK(f)' /\ WholeOK(f)'
<1>1. Apart /\ cur' = cur /\ UNCHANGED <<reqs, calls, mem, inbox, script, sock, me>> /\ cur \in Fds
  BY RespondApart, Shapes
<1>2. SoloOK(cur) /\ WholeOK(cur) /\ ThreadOK
  BY <1>1 DEF SoloInv
<1>3. /\ pc \in {"start", "body", "wbody", "suspend", "retry"}
      /\ pc' \in {"start", "body", "wbody", "suspend", "retry", "page", "close", "return", "crashed"}
  BY DEF Respond, WriteHeaders, InternalError, EmptyIterator, ClosedClient, WriteItem, BodyDone,
         FinishBody, SuspendWrite, SuspendAborts, RetryBucket, Crash
<1>4. InService(cur)
  BY <1>2, <1>3 DEF InService, At, Started, ThreadOK
<1>5. cli'[cur].queue = cli[cur].queue
  <2>1. CASE WriteHeaders
    BY <2>1, WriteHeadersStep, Shapes DEF Kept
  <2>2. CASE WriteItem
    <3> DEFINE k == cli[cur]
               len == Head(k.iter)
               rest == Tail(k.iter)
               c == [k EXCEPT !.iter = rest]
               b == Bucket(c, FALSE, len)
               sent == c.write_bytes + len
               status == IF pc = "body" THEN 500 ELSE c.status
               c1 == [c EXCEPT !.write_bytes = sent]
               c2 == [c1 EXCEPT !.response_closed = TRUE]
               c3 == [c EXCEPT !.bucket = b]
               c4 == [c EXCEPT !.bucket = b, !.status = status]
    <3>1. Client(c1) \/ Client(c2) \/ Client(c3) \/ Client(c4)
      BY <2>2 DEF WriteItem, BodyDone
    <3>2. c.queue = k.queue /\ DOMAIN c = DOMAIN k /\ "queue" \in DOMAIN k
      <4>1. k \in ClientType
        BY Shapes
      <4> HIDE DEF k, rest
      <4> QED
        BY <4>1 DEF ClientType
    <3> HIDE DEF c, b, sent, status
    <3>3. c1.queue = k.queue /\ c2.queue = k.queue /\ c3.queue = k.queue /\ c4.queue = k.queue
      BY <3>2
    <3> HIDE DEF c1, c2, c3, c4
    <3> QED
      BY <3>1, <3>3, Shapes DEF Client
  <2>3. CASE FinishBody
    <3> DEFINE c == [cli[cur] EXCEPT !.response_closed = TRUE]
    <3>1. cli'[cur] = c
      BY <2>3, Shapes DEF FinishBody, BodyDone, Client
    <3> QED
      BY <3>1, Shapes DEF ClientType
  <2>4. CASE RetryBucket
    <3> DEFINE k == cli[cur]
               b == k.bucket
               total == b.len + (IF b.head THEN HeadLen ELSE 0)
               sent == k.write_bytes + total
               c1 == [k EXCEPT !.write_bytes = sent, !.bucket = NoBucket]
               c2 == [k EXCEPT !.bucket = NoBucket]
    <3>1. UNCHANGED cli \/ Client(k) \/ Client(c1) \/ Client(c2)
      BY <2>4 DEF RetryBucket
    <3>2. c1.queue = k.queue /\ c2.queue = k.queue
      <4>1. k \in ClientType
        BY Shapes
      <4> HIDE DEF k, sent
      <4> QED
        BY <4>1 DEF ClientType
    <3> HIDE DEF c1, c2
    <3> QED
      BY <3>1, <3>2, Shapes DEF Client
  <2>5. CASE EmptyIterator \/ ClosedClient \/ SuspendWrite \/ SuspendAborts
    BY <2>5 DEF EmptyIterator, ClosedClient, SuspendWrite, SuspendAborts, Crash
  <2> QED
    BY <2>1, <2>2, <2>3, <2>4, <2>5 DEF Respond
<1>6. SoloOK(cur)'
  BY <1>1, <1>2, <1>4, <1>5, QuietSolo
<1>7. WholeOK(cur)'
  BY <1>1, <1>2, <1>3, QuietWhole DEF At
<1> QED
  BY <1>1, <1>6, <1>7, ApartSolo

LEMMA CloseSolo ==
  ASSUME IInv, SoloInv, Close
  PROVE  \A f \in Fds : SoloOK(f)' /\ WholeOK(f)'
<1>1. Apart /\ cur' = cur /\ UNCHANGED <<reqs, calls, script>> /\ cur \in Fds
  BY CloseApart, Shapes
<1>2. SoloOK(cur) /\ WholeOK(cur)
  BY <1>1 DEF SoloInv
<1>3. pc = "close" /\ mem[cur] # 0
  BY DEF Close, CloseAborts, CloseToNext, CloseConnection, KeepConnection, Closing,
         IInv, WatchInv, StackOK, Working
<1>4. InService(cur) /\ cli[cur].queue = <<>>
  BY <1>2, <1>3 DEF InService, At, SoloOK
<1>5. CASE CloseAborts
  <2>1. UNCHANGED <<cli, mem, sock, inbox>> /\ pc' = "crashed"
    BY <1>5 DEF CloseAborts, Crash
  <2>2. SoloOK(cur)'
    BY <1>1, <1>2, <1>4, <2>1, QuietSolo
  <2>3. WholeOK(cur)'
    BY <1>1, <1>2, <2>1, QuietWhole DEF At
  <2> QED
    BY <1>1, <2>2, <2>3, ApartSolo
<1>6. CASE CloseToNext
  BY <1>4, <1>6 DEF CloseToNext
<1>7. CASE CloseConnection
  <2>1. mem'[cur] = 0 /\ sock'[cur] = "closed" /\ pc' = "return"
    BY <1>7, Shapes DEF CloseConnection
  <2>2. SoloOK(cur)'
    BY <1>1, <2>1 DEF SoloOK
  <2>3. WholeOK(cur)'
    BY <1>1, <1>2, <2>1, QuietWhole DEF At
  <2> QED
    BY <1>1, <2>2, <2>3, ApartSolo
<1>8. CASE KeepConnection
  <2>1. UNCHANGED <<sock, inbox>> /\ pc' = "return" /\ cli'[cur].queue = <<>>
    BY <1>8, Shapes DEF KeepConnection, Client, NewClient
  <2>2. SoloOK(cur)'
    BY <1>1, <1>2, <1>3, <2>1, QuietSolo
  <2>3. WholeOK(cur)'
    BY <1>1, <1>2, <2>1, QuietWhole DEF At
  <2> QED
    BY <1>1, <2>2, <2>3, ApartSolo
<1> QED
  BY <1>5, <1>6, <1>7, <1>8 DEF Close

LEMMA AcceptSolo ==
  ASSUME IInv, SoloInv, NEW d \in Fds, Accept(d)
  PROVE  \A f \in Fds : SoloOK(f)' /\ WholeOK(f)'
<1>1. /\ UNCHANGED <<wire, peer, reg, inbox, script>> /\ cur' = d /\ pc = "accept"
      /\ pc' = "read" /\ sock[d] = "pending"
      /\ cli' = [cli EXCEPT ![d] = NewClient(FALSE)]
      /\ calls' = [calls EXCEPT ![d] = <<>>] /\ reqs' = [reqs EXCEPT ![d] = <<>>]
      /\ mem' = [mem EXCEPT ![d] = gens[d] + 1] /\ sock' = [sock EXCEPT ![d] = "open"]
  BY DEF Accept
<1>2. Apart
  BY <1>1, Shapes DEF Apart, Still, Alone
<1>3. cli'[d].queue = <<>> /\ reqs'[d] = <<>> /\ sock'[d] = "open"
  BY <1>1, Shapes DEF NewClient
<1>4. SoloOK(d) /\ Len(<<>>) = 0 /\ DOMAIN <<>> = {}
  BY DEF SoloInv
<1>5. SoloOK(d)'
  <2>1. /\ script[d].sent \in {0, 1} /\ (Begins(inbox[d]) # {} => script[d].sent = 1)
        /\ AtMostOne(Begins(inbox[d]))
    BY <1>1, <1>4 DEF SoloOK
  <2>2. Len(reqs'[d]) = 0 /\ Begins(inbox[d])' = Begins(inbox[d]) /\ script'[d].sent = script[d].sent
    BY <1>1, <1>3, <1>4 DEF Begins
  <2>3. AtMostOne(Begins(inbox[d]))'
    BY <2>1, <2>2 DEF AtMostOne
  <2> QED
    BY <1>3, <2>1, <2>2, <2>3 DEF SoloOK
<1>6. WholeOK(d)'
  BY <1>1, <1>3, <1>4 DEF WholeOK, At
<1> QED
  BY <1>1, <1>2, <1>5, <1>6, ApartSolo

LEMMA AcceptFailsSolo ==
  ASSUME IInv, SoloInv, NEW d \in Fds, AcceptFails(d)
  PROVE  \A f \in Fds : SoloOK(f)' /\ WholeOK(f)'
<1>1. /\ UNCHANGED <<cli, calls, reqs, mem, reg, inbox, script, cur>> /\ pc' = "loop"
      /\ sock[d] = "pending" /\ sock' = [sock EXCEPT ![d] = "open"]
  BY DEF AcceptFails
<1>2. SUFFICES ASSUME NEW f \in Fds PROVE SoloOK(f)' /\ WholeOK(f)'
  OBVIOUS
<1>3. SoloOK(f) /\ WholeOK(f)
  BY DEF SoloInv
<1>4. InService(f)' => InService(f)
  BY <1>1 DEF InService, Started, At
<1>5. sock'[f] = "pending" => sock[f] = "pending"
  BY <1>1, Shapes
<1>6. SoloOK(f)'
  BY <1>1, <1>3, <1>4, <1>5, QuietSolo
<1>7. WholeOK(f)'
  BY <1>1, <1>3, QuietWhole DEF At
<1> QED
  BY <1>6, <1>7

\* A peer that does not pipeline begins a request when the one before it was
\* answered: the server has then read all of them and queues none.
LEMMA BeginsAlone ==
  ASSUME "pipeline" \notin Peers, IInv, ServeInv, NEW d \in Fds, SoloOK(d), ~Waits(d)
  PROVE  /\ sock[d] = "pending" => script[d].sent = 0
         /\ mem[d] # 0 => script[d].sent = Len(reqs[d]) /\ cli[d].queue = <<>>
<1> DEFINE n == script[d].sent
<1>1. /\ n \in Nat /\ wire[d] \in Seq(AnswerType) /\ Len(reqs[d]) \in Nat
      /\ cli[d].queue \in Seq(Ids) /\ OrderOK(d)
  BY Shapes, Pointers DEF ScriptType, ServeInv
<1>2. n # 0 => n \in Answers(wire[d])
  <2>1. n # 0 => \E i \in DOMAIN wire[d] : wire[d][i].id = n /\ wire[d][i].kind # "cont"
    BY DEF Waits
  <2> QED
    BY <2>1 DEF Answers, Answer
<1>3. sock[d] = "pending" => n = 0
  <2>1. sock[d] = "pending" => Answers(wire[d]) = {}
    BY <1>1 DEF OrderOK, Answers
  <2> QED
    BY <1>2, <2>1
<1>4. ASSUME mem[d] # 0 PROVE n = Len(reqs[d]) /\ cli[d].queue = <<>>
  <2>1. n \in {Len(reqs[d]), Len(reqs[d]) + 1}
    BY <1>4 DEF SoloOK
  <2>2. n # 0 => n <= Len(reqs[d]) /\ \A next \in Range(cli[d].queue) : n < next
    BY <1>1, <1>2 DEF OrderOK
  <2>3. n = Len(reqs[d])
    BY <1>1, <2>1, <2>2
  <2>4. ASSUME cli[d].queue # <<>> PROVE FALSE
    <3>1. cli[d].queue = <<n>>
      BY <1>4, <2>3, <2>4 DEF SoloOK
    <3>2. n \in Range(cli[d].queue) /\ n \in Ids
      <4>1. Last(cli[d].queue) \in Range(cli[d].queue) /\ Last(cli[d].queue) \in Ids
        BY <1>1, <2>4, LastInRange
      <4>2. Last(<<n>>) = n
        BY DEF Last
      <4> QED
        BY <3>1, <4>1, <4>2
    <3> QED
      BY <1>1, <2>2, <3>2 DEF Ids
  <2> QED
    BY <2>3, <2>4
<1> QED
  BY <1>3, <1>4

LEMMA PeerSendSolo ==
  ASSUME "pipeline" \notin Peers, IInv, ServeInv, NEW d \in Fds, SoloOK(d), PeerSend(d)
  PROVE  SoloOK(d)'
<1>1. PICK token \in TokenType, v \in ScriptType : Sends(d, token, v)
  BY SendEffect
<1>2. /\ inbox[d] \in Seq(TokenType) /\ script[d].sent \in Nat /\ Len(reqs[d]) \in Nat
  BY SMTT(30), Shapes, Pointers DEF ScriptType
<1>3. /\ inbox'[d] = Append(inbox[d], token) /\ script'[d] = v
      /\ UNCHANGED <<sock, mem, reqs, cli, reg, me, cur, pc>>
  BY <1>1, Shapes DEF Sends, Put, PeerSend
<1>4. InService(d)' = InService(d)
  BY <1>3 DEF InService, Started, At
<1> DEFINE old == inbox[d]
           new == Append(inbox[d], token)
<1>5. /\ Begins(new) # {} => Begins(old) # {} \/ token.t = "begin"
      /\ AtMostOne(Begins(old)) /\ (Begins(old) = {} \/ token.t # "begin")
           => AtMostOne(Begins(new))
  BY <1>2, AppendTokens
<1>6. (Begins(inbox[d]) # {})' = (Begins(new) # {}) /\ AtMostOne(Begins(inbox[d]))' = AtMostOne(Begins(new))
  BY <1>3 DEF Begins, AtMostOne
<1> HIDE DEF new
<1>7. CASE token.t # "begin" /\ v.sent = script[d].sent
  <2>1. /\ Begins(new) # {} => Begins(old) # {}
        /\ AtMostOne(Begins(old)) => AtMostOne(Begins(new))
    BY <1>5, <1>7
  <2> QED
    BY <1>3, <1>4, <1>6, <1>7, <2>1 DEF SoloOK
<1>8. CASE token.t = "begin" /\ v.sent = script[d].sent + 1 /\ ~Waits(d)
  <2>1. /\ sock[d] = "pending" => script[d].sent = 0 /\ Begins(old) = {}
        /\ mem[d] # 0 => /\ script[d].sent = Len(reqs[d]) /\ cli[d].queue = <<>>
                         /\ Begins(old) = {}
    BY <1>2, <1>8, BeginsAlone DEF SoloOK
  <2>2. Begins(old) = {} => AtMostOne(Begins(new))
    BY <1>5 DEF AtMostOne
  <2> QED
    BY <1>2, <1>3, <1>4, <1>6, <1>8, <2>1, <2>2 DEF SoloOK
<1> QED
  BY <1>1, <1>7, <1>8 DEF Sends

LEMMA PeerSolo ==
  ASSUME "pipeline" \notin Peers, IInv, ServeInv, SoloInv, NEW d \in Fds, Peer(d)
  PROVE  \A f \in Fds : SoloOK(f)' /\ WholeOK(f)'
<1>1. UNCHANGED <<cli, calls, reqs, mem, reg, cur, me, pc>>
  BY DEF Peer, PeerConnect, PeerSend, PeerEof, PeerReset, PeerStall, PeerDrain
<1>2. SUFFICES ASSUME NEW f \in Fds PROVE SoloOK(f)' /\ WholeOK(f)'
  OBVIOUS
<1>3. SoloOK(f) /\ WholeOK(f)
  BY DEF SoloInv
<1>4. WholeOK(f)'
  BY <1>1, <1>3 DEF WholeOK, At
<1>5. InService(f)' => InService(f)
  BY <1>1 DEF InService, Started, At
<1>6. CASE sock'[f] = sock[f] /\ inbox'[f] = inbox[f] /\ script'[f].sent = script[f].sent
  BY <1>1, <1>3, <1>4, <1>5, <1>6, QuietSolo
<1>7. CASE PeerConnect(d)
  <2>1. /\ sock[d] = "closed" /\ sock' = [sock EXCEPT ![d] = "pending"]
        /\ inbox' = [inbox EXCEPT ![d] = <<>>] /\ script' = [script EXCEPT ![d] = NewScript]
    BY <1>7 DEF PeerConnect
  <2>2. CASE f = d
    <3>1. mem'[d] = 0 /\ inbox'[d] = <<>> /\ script'[d].sent = 0
      BY <1>1, <2>1, Shapes DEF IInv, WatchInv, AllocOK, NewScript
    <3>2. Begins(inbox[d])' = {}
      BY <3>1 DEF Begins
    <3>3. SoloOK(d)'
      BY <3>1, <3>2 DEF SoloOK, AtMostOne
    <3> QED
      BY <1>4, <2>2, <3>3
  <2>3. CASE f # d
    BY <1>6, <2>1, <2>3, Shapes
  <2> QED
    BY <2>2, <2>3
<1>8. CASE PeerSend(d)
  <2>1. CASE f = d
    BY <1>3, <1>4, <1>8, <2>1, PeerSendSolo
  <2>2. CASE f # d
    BY <1>6, <1>8, <2>2, Shapes DEF PeerSend, Put
  <2> QED
    BY <2>1, <2>2
<1>9. CASE PeerEof(d) \/ PeerReset(d) \/ PeerDrain(d)
  BY <1>6, <1>9 DEF PeerEof, PeerReset, PeerDrain
<1>10. CASE PeerStall(d)
  <2>1. sock' = sock /\ inbox' = inbox /\ script' = [script EXCEPT ![d].stalled = TRUE]
    BY <1>10 DEF PeerStall
  <2>2. script'[f].sent = script[f].sent
    BY <2>1, Shapes DEF ScriptType
  <2> QED
    BY <1>6, <2>1, <2>2
<1> QED
  BY <1>7, <1>8, <1>9, <1>10 DEF Peer

\* The queue of such a connection: empty, or its last request.
LEMMA SoloQueue ==
  ASSUME IInv, NEW d \in Fds, SoloOK(d), mem[d] # 0, cli[d].queue # <<>>
  PROVE  /\ Last(cli[d].queue) = Len(reqs[d]) /\ Head(cli[d].queue) = Len(reqs[d])
         /\ Tail(cli[d].queue) = <<>> /\ Len(reqs[d]) \in DOMAIN reqs[d]
         /\ Len(reqs[d]) \in Range(cli[d].queue)
<1> DEFINE n == Len(reqs[d])
           q == cli[d].queue
<1>1. q = <<n>> /\ q \in Seq(Ids) /\ n \in Nat /\ reqs[d] \in Seq(RequestType)
  BY Pointers DEF SoloOK
<1>2. Last(<<n>>) = n /\ Head(<<n>>) = n /\ Tail(<<n>>) = <<>>
  BY DEF Last
<1>3. Last(q) \in Range(q) /\ Last(q) \in Ids
  BY <1>1, LastInRange
<1>4. n \in DOMAIN reqs[d]
  BY <1>1, <1>2, <1>3 DEF Ids
<1> QED
  BY <1>1, <1>2, <1>3, <1>4

LEMMA ReadErrorSolo ==
  ASSUME IInv, SoloInv, NEW d \in Fds, NEW c \in ClientType, NEW code \in Nat,
         code = 0 \/ code > 200, SetReadError(d, c, code), c.queue = cli[d].queue,
         cur' = d, mem[d] # 0, UNCHANGED <<calls, mem, sock, script, inbox>>,
         reg'[d].ev = reg[d].ev
  PROVE  SoloOK(d)' /\ WholeOK(d)'
<1> DEFINE status == IF code = 0 THEN 400 ELSE code
           i == Last(c.queue)
           old == reqs[d]
           r == [old[i] EXCEPT !.bad = status]
           rs == [old EXCEPT ![i] = r]
           c1 == [c EXCEPT !.keep_alive = FALSE]
           c2 == [c EXCEPT !.keep_alive = FALSE, !.status = status]
<1>1. \/ /\ c.queue # <<>> /\ pc' = "finish"
         /\ reqs' = [reqs EXCEPT ![d] = rs] /\ cli' = [cli EXCEPT ![d] = c1]
      \/ /\ c.queue = <<>> /\ pc' = "page" /\ reqs' = reqs /\ cli' = [cli EXCEPT ![d] = c2]
  BY DEF SetReadError
<1>2. status > 200 /\ status \in Nat
  OBVIOUS
<1>3. c1.queue = c.queue /\ c2.queue = c.queue
  <2> HIDE DEF status
  <2> QED
    BY DEF ClientType
<1>4. SoloOK(d) /\ WholeOK(d) /\ old \in Seq(RequestType)
  BY Shapes DEF SoloInv
<1> HIDE DEF status, c1, c2
<1>5. CASE /\ c.queue # <<>> /\ pc' = "finish"
           /\ reqs' = [reqs EXCEPT ![d] = rs] /\ cli' = [cli EXCEPT ![d] = c1]
  <2>1. reqs'[d] = rs /\ cli'[d].queue = c.queue
    BY <1>3, <1>5, Shapes
  <2>2. i \in DOMAIN old /\ Head(c.queue) = i
    BY <1>4, <1>5, SoloQueue
  <2>3. /\ Len(rs) = Len(old) /\ DOMAIN rs = DOMAIN old /\ rs[i] = r
        /\ \A id \in DOMAIN old \ {i} : rs[id] = old[id]
    <3> HIDE DEF r, i
    <3> QED
      BY <1>4, <2>2
  <2>4. /\ r.bad = status /\ r.whole = old[i].whole /\ r.bodyCode = old[i].bodyCode
    <3>1. old[i] \in RequestType
      BY <1>4, <2>2
    <3> HIDE DEF i, old
    <3> QED
      BY <3>1 DEF RequestType
  <2> HIDE DEF r, rs, i
  <2>5. InService(d)' => InService(d)
    BY <1>5 DEF InService, Started, At
  <2>6. SoloOK(d)'
    BY <1>4, <2>1, <2>3, <2>5, QuietSolo
  <2>7. \A id \in DOMAIN rs :
          /\ rs[id].bodyCode \in Codes
          /\ rs[id].bad = 0 \/ rs[id].bad > 200
          /\ id \in Range(calls[d]) => rs[id].whole
    BY <1>2, <1>4, <2>2, <2>3, <2>4 DEF WholeOK
  <2>8. rs[Head(c.queue)].bad > 200
    BY <1>2, <2>2, <2>3, <2>4
  <2>9. WholeOK(d)'
    BY <1>5, <2>1, <2>7, <2>8 DEF WholeOK, At
  <2> QED
    BY <2>6, <2>9
<1>6. CASE c.queue = <<>> /\ pc' = "page" /\ reqs' = reqs /\ cli' = [cli EXCEPT ![d] = c2]
  <2>1. cli'[d].queue = <<>>
    BY <1>3, <1>6, Shapes
  <2>2. SoloOK(d)'
    BY <1>4, <1>6, <2>1, QuietSolo
  <2>3. WholeOK(d)'
    BY <1>4, <1>6, QuietWhole DEF At
  <2> QED
    BY <2>2, <2>3
<1> QED
  BY <1>1, <1>5, <1>6

LEMMA TimeoutSolo ==
  ASSUME IInv, SoloInv, NEW d \in Fds, Timeout(d)
  PROVE  \A f \in Fds : SoloOK(f)' /\ WholeOK(f)'
<1>1. /\ UNCHANGED <<wire, calls, mem, sock, script, inbox, peer>> /\ cur' = d /\ pc = "loop"
      /\ reg' = [reg EXCEPT ![d].armed = FALSE]
      /\ \/ reg[d].ev = "read" /\ SetReadError(d, cli[d], 408)
         \/ /\ reg[d].ev = "write" /\ cli' = [cli EXCEPT ![d].keep_alive = FALSE] /\ pc' = "close"
            /\ UNCHANGED reqs
  BY DEF Timeout
<1>2. \A f \in Fds : reg'[f].ev = reg[f].ev
  BY <1>1, Shapes DEF RegType
<1>3. \A f \in Fds \ {d} : cli'[f] = cli[f] /\ reqs'[f] = reqs[f]
  BY SMTT(30), <1>1, Shapes DEF SetReadError
<1>4. Apart
  BY <1>1, <1>2, <1>3 DEF Apart, Still, Alone
<1>5. SoloOK(d) /\ WholeOK(d) /\ cli[d] \in ClientType
  BY Shapes DEF SoloInv
<1>6. mem[d] # 0
  BY <1>1 DEF IInv, WatchInv, AllocOK
<1>7. CASE reg[d].ev = "read" /\ SetReadError(d, cli[d], 408)
  <2>1. SoloOK(d)' /\ WholeOK(d)'
    BY <1>1, <1>2, <1>5, <1>6, <1>7, ReadErrorSolo
  <2> QED
    BY <1>1, <1>4, <2>1, ApartSolo
<1>8. CASE /\ reg[d].ev = "write" /\ cli' = [cli EXCEPT ![d].keep_alive = FALSE] /\ pc' = "close"
           /\ UNCHANGED reqs
  <2>1. cli'[d].queue = cli[d].queue
    BY <1>5, <1>8, Shapes DEF ClientType
  <2>2. InService(d)
    BY <1>8 DEF InService
  <2>3. SoloOK(d)'
    BY <1>1, <1>5, <1>8, <2>1, <2>2, QuietSolo
  <2>4. WholeOK(d)'
    BY <1>1, <1>5, <1>8, QuietWhole DEF At
  <2> QED
    BY <1>1, <1>4, <2>3, <2>4, ApartSolo
<1> QED
  BY <1>1, <1>7, <1>8

LEMMA ReadRequestSolo ==
  ASSUME IInv, ServeInv, SoloInv, ReadRequest
  PROVE  \A f \in Fds : SoloOK(f)' /\ WholeOK(f)'
<1> DEFINE k == cli[cur]
           c == [k EXCEPT !.header_done = TRUE, !.response_closed = TRUE]
<1>1. /\ Apart /\ cur' = cur /\ cur \in Fds /\ k \in ClientType
      /\ inbox[cur] \in Seq(TokenType)
  BY ReadApart, Shapes
<1>2. /\ pc = "read" /\ UNCHANGED <<calls, mem, sock, script>>
      /\ reg' = reg \/ reg' = [reg EXCEPT ![cur].armed = TRUE]
  BY DEF ReadRequest, Rearm
<1>3. reg'[cur].ev = reg[cur].ev
  BY <1>2, Shapes DEF RegType
<1>4. SoloOK(cur) /\ WholeOK(cur) /\ mem[cur] # 0
  BY <1>1, <1>2 DEF SoloInv, IInv, WatchInv, StackOK, Working
<1> HIDE DEF k
<1>5. ASSUME NEW n \in 1..Len(inbox[cur]),
             inbox' = [inbox EXCEPT ![cur] = SubSeq(@, n + 1, Len(@))], pc' = "parse",
             UNCHANGED <<cli, reqs>>
      PROVE  SoloOK(cur)' /\ WholeOK(cur)'
  <2> DEFINE old == inbox[cur]
             rest == SubSeq(old, n + 1, Len(old))
  <2>1. inbox'[cur] = rest
    BY <1>1, <1>5, Shapes
  <2>2. Begins(inbox[cur])' = Begins(rest) /\ AtMostOne(Begins(inbox[cur]))' = AtMostOne(Begins(rest))
    BY <2>1, <1>1 DEF Begins, AtMostOne
  <2>3. /\ Begins(rest) # {} => Begins(old) # {}
        /\ AtMostOne(Begins(old)) => AtMostOne(Begins(rest))
    BY <1>1, <1>5, SplitTokens
  <2>4. InService(cur)' => InService(cur)
    BY <1>1, <1>2, <1>3, <1>5 DEF InService, Started, At
  <2> HIDE DEF rest
  <2>5. SoloOK(cur)'
    BY <1>1, <1>2, <1>4, <1>5, <2>2, <2>3, <2>4 DEF SoloOK
  <2>6. ~cli[cur].complete
    BY <1>1, <1>2 DEF ServeInv, ReadingOK, Reading, At
  <2>7. WholeOK(cur)'
    BY <1>1, <1>2, <1>4, <1>5, <2>6 DEF WholeOK, At
  <2> QED
    BY <2>5, <2>7
<1>6. ASSUME SetReadError(cur, k, 503) /\ UNCHANGED inbox
      PROVE  SoloOK(cur)' /\ WholeOK(cur)'
  <2>1. SetReadError(cur, k, 503) /\ k.queue = cli[cur].queue
    BY <1>6 DEF k
  <2> QED
    BY <1>1, <1>2, <1>3, <1>4, <1>6, <2>1, ReadErrorSolo
<1>7. ASSUME SetReadError(cur, c, 500) /\ UNCHANGED inbox
      PROVE  SoloOK(cur)' /\ WholeOK(cur)'
  <2>1. c \in ClientType /\ c.queue = k.queue
    BY <1>1 DEF ClientType
  <2>2. c.queue = cli[cur].queue
    BY <2>1 DEF k
  <2> HIDE DEF c
  <2> QED
    BY <1>1, <1>2, <1>3, <1>4, <1>7, <2>1, <2>2, ReadErrorSolo
<1>8. ASSUME UNCHANGED <<inbox, cli, reqs>> /\ pc' \in {"register", "return"}
      PROVE  SoloOK(cur)' /\ WholeOK(cur)'
  <2>1. InService(cur)' => InService(cur)
    BY <1>1, <1>2, <1>3, <1>8 DEF InService, Started, At
  <2>2. SoloOK(cur)'
    BY <1>1, <1>2, <1>4, <1>8, <2>1, QuietSolo
  <2>3. WholeOK(cur)'
    BY <1>1, <1>2, <1>4, <1>8, QuietWhole DEF At
  <2> QED
    BY <2>2, <2>3
<1>9. SoloOK(cur)' /\ WholeOK(cur)'
  BY <1>5, <1>6, <1>7, <1>8 DEF ReadRequest, k
<1> QED
  BY <1>1, <1>9, ApartSolo

\* The steps of the parser that take no request further.
LEMMA QuietParseSolo ==
  ASSUME IInv, SoloInv, ParseBlank \/ ParseError \/ ParseNull
  PROVE  \A f \in Fds : SoloOK(f)' /\ WholeOK(f)'
<1>1. Apart /\ cur' = cur /\ cur \in Fds
  BY ReadApart, Shapes DEF Parse
<1>2. /\ UNCHANGED <<cli, reqs, calls, mem, sock, inbox, script, reg, me>>
      /\ pc = "parse" /\ pc' \in {"parse", "crashed"}
  BY DEF ParseBlank, ParseError, ParseNull, ParserUnchanged, Crash, Parsing
<1>3. SoloOK(cur) /\ WholeOK(cur)
  BY <1>1 DEF SoloInv
<1>4. InService(cur)' => InService(cur)
  BY <1>1, <1>2 DEF InService, Started, At
<1>5. SoloOK(cur)'
  BY <1>1, <1>2, <1>3, <1>4, QuietSolo
<1>6. WholeOK(cur)'
  BY <1>1, <1>2, <1>3 DEF WholeOK, At
<1> QED
  BY <1>1, <1>5, <1>6, ApartSolo

LEMMA ParseDoneSolo ==
  ASSUME IInv, SoloInv, ParseDone
  PROVE  \A f \in Fds : SoloOK(f)' /\ WholeOK(f)'
<1> DEFINE k == cli[cur]
           code == IF k.current = 0 THEN 400 ELSE reqs[cur][k.current].bad
<1>1. Apart /\ cur' = cur /\ cur \in Fds /\ cli[cur] \in ClientType
  BY ReadApart, Shapes DEF Parse
<1>2. /\ pc = "parse" /\ UNCHANGED <<calls, mem, sock, inbox, script, reg, me>>
      /\ \/ SetReadError(cur, k, code)
         \/ /\ UNCHANGED <<cli, reqs>>
            /\ \/ k.complete /\ pc' = "finish"
               \/ pc' \in {"register", "return"}
  BY DEF ParseDone
<1>3. SoloOK(cur) /\ WholeOK(cur) /\ mem[cur] # 0
  BY <1>1, <1>2 DEF SoloInv, IInv, WatchInv, StackOK, Working
<1>4. code \in Nat /\ (code = 0 \/ code > 200)
  <2>1. CASE k.current = 0
    BY <2>1
  <2>2. CASE k.current # 0
    <3>1. k.current \in DOMAIN reqs[cur] /\ reqs[cur] \in Seq(RequestType)
      <4>1. k.current \in Nat /\ k.current <= Len(reqs[cur]) /\ reqs[cur] \in Seq(RequestType)
        BY <1>1, Shapes DEF ClientType, IInv, DataInv, RefsOK
      <4> QED
        BY <2>2, <4>1
    <3>2. reqs[cur][k.current] \in RequestType
      BY <3>1
    <3>3. reqs[cur][k.current].bad \in Nat
      BY <3>2 DEF RequestType, Codes
    <3> QED
      BY <1>3, <2>2, <3>1, <3>3 DEF WholeOK
  <2> QED
    BY <2>1, <2>2
<1> HIDE DEF code
<1>5. ASSUME SetReadError(cur, k, code)
      PROVE  SoloOK(cur)' /\ WholeOK(cur)'
  BY <1>1, <1>2, <1>3, <1>4, <1>5, ReadErrorSolo
<1>6. ASSUME UNCHANGED <<cli, reqs>>, k.complete, pc' = "finish"
      PROVE  SoloOK(cur)' /\ WholeOK(cur)'
  <2>1. InService(cur)' => InService(cur)
    BY <1>1, <1>2, <1>6 DEF InService, Started, At
  <2>2. SoloOK(cur)'
    BY <1>1, <1>2, <1>3, <1>6, <2>1, QuietSolo
  <2>3. k.queue # <<>>
    BY <1>1, <1>2, <1>6 DEF IInv, DataInv, RefsOK
  <2>4. Head(k.queue) = Last(k.queue)
    BY <1>1, <1>3, <2>3, SoloQueue
  <2>5. reqs[cur][Last(k.queue)].whole
    BY <1>1, <1>2, <1>3, <1>6 DEF WholeOK, At
  <2>6. WholeOK(cur)'
    BY <1>1, <1>2, <1>3, <1>6, <2>4, <2>5 DEF WholeOK, At
  <2> QED
    BY <2>2, <2>6
<1>7. ASSUME UNCHANGED <<cli, reqs>>, pc' \in {"register", "return"}
      PROVE  SoloOK(cur)' /\ WholeOK(cur)'
  <2>1. InService(cur)' => InService(cur)
    BY <1>1, <1>2, <1>7 DEF InService, Started, At
  <2>2. SoloOK(cur)'
    BY <1>1, <1>2, <1>3, <1>7, <2>1, QuietSolo
  <2>3. WholeOK(cur)'
    BY <1>1, <1>2, <1>3, <1>7, QuietWhole DEF At
  <2> QED
    BY <2>2, <2>3
<1> QED
  BY <1>1, <1>2, <1>5, <1>6, <1>7, ApartSolo

\* message_begin_cb: the one request of the buffer is the only one of the queue.
LEMMA MessageBeginSolo ==
  ASSUME IInv, ServeInv, SoloInv, MessageBegin
  PROVE  \A f \in Fds : SoloOK(f)' /\ WholeOK(f)'
<1> DEFINE k == cli[cur]
           old == reqs[cur]
           id == Len(old) + 1
           q == Append(k.queue, id)
           rs == Append(old, NewReq)
           n == [k EXCEPT !.current = id, !.complete = FALSE, !.parser = "head", !.queue = q]
<1>1. Apart /\ cur' = cur /\ cur \in Fds /\ k \in ClientType /\ old \in Seq(RequestType)
  BY ReadApart, Shapes DEF Parse
<1>2. /\ UNCHANGED <<calls, mem, sock, inbox, script, reg, me, pc>> /\ pc = "parse"
      /\ buf # <<>> /\ Head(buf).t = "begin"
      /\ cli' = [cli EXCEPT ![cur] = n] /\ reqs' = [reqs EXCEPT ![cur] = rs]
  BY DEF MessageBegin, Parsing, ParserUnchanged, Client
<1>3. SoloOK(cur) /\ WholeOK(cur) /\ ThreadOK /\ mem[cur] # 0 /\ OrderOK(cur)
  BY <1>1, <1>2 DEF SoloInv, IInv, WatchInv, StackOK, Working, ServeInv
<1>4. Begins(inbox[cur]) = {} /\ script[cur].sent = id
  <2>1. Begins(buf) # {}
    BY <1>2 DEF Begins, IInv, DataInv, PeerTypes, DataTypes
  <2> QED
    BY <1>2, <1>3, <2>1 DEF ThreadOK
<1>5. k.queue = <<>>
  BY <1>1, <1>3, <1>4 DEF SoloOK
<1>6. n.queue = <<id>> /\ n.complete = FALSE
  <2> HIDE DEF k, id
  <2> QED
    BY <1>1, <1>5 DEF ClientType
<1>7. cli'[cur] = n /\ reqs'[cur] = rs
  BY <1>2, Shapes
<1> HIDE DEF n, k
<1>8. /\ Len(rs) = id /\ DOMAIN rs = DOMAIN old \cup {id} /\ rs[id] = NewReq
      /\ \A i \in DOMAIN old : rs[i] = old[i]
  BY <1>1
<1> HIDE DEF rs
<1>9. InService(cur)' => InService(cur)
  BY <1>1, <1>2 DEF InService, Started, At
<1>10. ~InService(cur)'
  <2>1. reg[cur].ev # "write"
    BY <1>2 DEF IInv, WatchInv, StackOK
  <2> QED
    BY <1>1, <1>2, <2>1 DEF InService, Started, At
<1>11. Begins(inbox[cur])' = {} /\ sock[cur] = "open"
  BY <1>1, <1>2, <1>3, <1>4 DEF Begins, IInv, WatchInv, AllocOK
<1>12. SoloOK(cur)'
  BY <1>1, <1>2, <1>4, <1>6, <1>7, <1>8, <1>10, <1>11 DEF SoloOK, AtMostOne
<1>13. id \notin Range(calls[cur])
  <2>1. \A i \in Range(calls[cur]) : i <= Len(old)
    BY <1>3 DEF OrderOK
  <2> QED
    BY <1>1, <2>1
<1>14. NewReq.bodyCode \in Codes /\ NewReq.bad = 0
  BY DEF NewReq, Codes
<1>15. WholeOK(cur)'
  BY <1>1, <1>2, <1>3, <1>6, <1>7, <1>8, <1>13, <1>14 DEF WholeOK, At
<1> QED
  BY <1>1, <1>12, <1>15, ApartSolo

\* The client n, of the same queue, and the record r of the request it parses.
Parsed(n, r) ==
  /\ n.queue = cli[cur].queue /\ r.bodyCode \in Codes /\ (r.bad = 0 \/ r.bad > 200)
  /\ n.complete => n.parser \in {"start", "dead"} /\ r.whole
InRequest(c) == c.parser \in {"head", "body"}

LEMMA RequestSolo ==
  ASSUME IInv, ServeInv, SoloInv, Apart, pc = "parse", pc' = "parse", NEW n, NEW r,
         InRequest(cli[cur]), cli' = [cli EXCEPT ![cur] = n],
         reqs' = [reqs EXCEPT ![cur] = [@ EXCEPT ![cli[cur].current] = r]],
         UNCHANGED <<calls, mem, sock, inbox, script, reg, me, cur>>,
         Parsed(n, r)
  PROVE  \A f \in Fds : SoloOK(f)' /\ WholeOK(f)'
<1> DEFINE i == cli[cur].current
           old == reqs[cur]
           rs == [old EXCEPT ![i] = r]
           q == cli[cur].queue
<1>1. cur \in Fds /\ old \in Seq(RequestType)
  BY Shapes
<1>2. /\ q # <<>> /\ i = Last(q) /\ i \in Ids /\ i \in Range(q) /\ i \in DOMAIN old
  BY CurrentParsed DEF InRequest
<1>3. SoloOK(cur) /\ WholeOK(cur) /\ OrderOK(cur)
  BY <1>1 DEF SoloInv, ServeInv
<1>4. reqs'[cur] = rs /\ cli'[cur] = n
  BY Shapes
<1> HIDE DEF i
<1>5. /\ Len(rs) = Len(old) /\ DOMAIN rs = DOMAIN old /\ rs[i] = r
      /\ \A id \in DOMAIN old \ {i} : rs[id] = old[id]
  BY <1>1, <1>2
<1> HIDE DEF rs
<1>6. i \notin Range(calls[cur])
  <2>1. \A id \in Range(calls[cur]) : id < i
    BY <1>2, <1>3 DEF OrderOK
  <2> QED
    BY <1>2, <2>1 DEF Ids
<1>7. InService(cur)' => InService(cur)
  BY DEF InService, Started, At
<1>8. SoloOK(cur)'
  BY <1>1, <1>3, <1>4, <1>5, <1>7, QuietSolo DEF Parsed
<1>9. WholeOK(cur)'
  BY <1>2, <1>3, <1>4, <1>5, <1>6 DEF WholeOK, At, Parsed
<1> QED
  BY <1>1, <1>8, <1>9, ApartSolo

LEMMA HeadersCompleteSolo ==
  ASSUME IInv, ServeInv, SoloInv, HeadersComplete
  PROVE  \A f \in Fds : SoloOK(f)' /\ WholeOK(f)'
<1> DEFINE k == cli[cur]
           h == Head(buf).h
           c == [k EXCEPT !.keep_alive = h.ka, !.minor = h.minor]
           old == reqs[cur][c.current]
           R(code, whole) == [old EXCEPT !.expect = h.expect, !.bodyCode = h.bodyCode,
                                         !.bad = code, !.whole = whole]
           next == NewMessage(c)
           c1 == [c EXCEPT !.parser = "body"]
           c2 == [c EXCEPT !.parser = next, !.complete = TRUE]
<1>1. Apart /\ cur' = cur /\ cur \in Fds /\ k \in ClientType
  BY ReadApart, Shapes DEF Parse
<1>2. /\ UNCHANGED <<calls, mem, sock, inbox, script, reg, me, cur>>
      /\ pc = "parse" /\ pc' = "parse"
      /\ buf # <<>> /\ Head(buf).t = "head" /\ c.parser = "head"
  BY DEF HeadersComplete, Parsing, ParserUnchanged
<1>3. \E x \in {c, c1, c2}, code \in {h.code, 0}, whole \in BOOLEAN :
        /\ (x = c2 /\ whole) \/ x \in {c, c1}
        /\ Client(x)
        /\ reqs' = [reqs EXCEPT ![cur] = [@ EXCEPT ![c.current] = R(code, whole)]]
  BY DEF HeadersComplete
<1>4. h.bodyCode \in Codes /\ h.code \in Codes
  <2>1. Head(buf) \in TokenType
    BY <1>2 DEF IInv, DataInv, DataTypes
  <2> QED
    BY <1>2, <2>1 DEF TokenType, HeadType
<1>5. c.current = k.current /\ c.queue = k.queue /\ c.parser = k.parser /\ c.complete = k.complete
      /\ DOMAIN c = DOMAIN k
  <2> HIDE DEF k, h
  <2> QED
    BY <1>1 DEF ClientType
<1>6. ~k.complete
  BY <1>1, <1>2, <1>5 DEF SoloInv, WholeOK, At
<1>7. old \in RequestType
  <2>1. k.current \in DOMAIN reqs[cur] /\ reqs[cur] \in Seq(RequestType)
    BY <1>1, <1>2, <1>5, CurrentParsed, Shapes
  <2> HIDE DEF k, c
  <2> QED
    BY <1>5, <2>1
<1>8. /\ c1.queue = c.queue /\ c2.queue = c.queue /\ c1.complete = c.complete
      /\ c2.parser = next
  <2>1. {"queue", "complete", "parser"} \subseteq DOMAIN c
    <3> HIDE DEF k, c
    <3> QED
      BY <1>1, <1>5 DEF ClientType
  <2> HIDE DEF c, next
  <2> QED
    BY <2>1
<1>9. \A code, whole : /\ R(code, whole).whole = whole /\ R(code, whole).bad = code
                       /\ R(code, whole).bodyCode = h.bodyCode
  <2> HIDE DEF old, h
  <2> QED
    BY <1>7 DEF RequestType
<1>10. next \in {"start", "dead"}
  BY DEF NewMessage
<1> HIDE DEF R, c, c1, c2, h, next, old
<1>11. PICK x \in {c, c1, c2}, code \in {h.code, 0}, whole \in BOOLEAN :
        /\ (x = c2 /\ whole) \/ x \in {c, c1}
        /\ Client(x)
        /\ reqs' = [reqs EXCEPT ![cur] = [@ EXCEPT ![c.current] = R(code, whole)]]
  BY <1>3
<1> DEFINE r == R(code, whole)
<1>12. r.bodyCode \in Codes /\ (r.bad = 0 \/ r.bad > 200) /\ r.whole = whole
  BY <1>4, <1>9 DEF Codes
<1>13. x.complete => x.parser \in {"start", "dead"} /\ r.whole
  BY <1>5, <1>6, <1>8, <1>10, <1>11, <1>12
<1>14. x.queue = cli[cur].queue
  BY <1>5, <1>8 DEF k
<1>15. cli' = [cli EXCEPT ![cur] = x]
       /\ reqs' = [reqs EXCEPT ![cur] = [@ EXCEPT ![cli[cur].current] = r]]
       /\ InRequest(cli[cur]) /\ pc' = "parse"
  BY <1>2, <1>5, <1>11 DEF Client, k, InRequest
<1> HIDE DEF r
<1>16. Parsed(x, r)
  BY <1>12, <1>13, <1>14 DEF Parsed
<1> QED
  BY <1>1, <1>2, <1>15, <1>16, RequestSolo

LEMMA BodyCompleteSolo ==
  ASSUME IInv, ServeInv, SoloInv, BodyComplete
  PROVE  \A f \in Fds : SoloOK(f)' /\ WholeOK(f)'
<1> DEFINE k == cli[cur]
           old == reqs[cur][k.current]
           code == old.bodyCode
           next == NewMessage(k)
           c == [k EXCEPT !.parser = next, !.complete = TRUE]
           r1 == [old EXCEPT !.bad = code]
           r2 == [old EXCEPT !.whole = TRUE]
<1>1. Apart /\ cur' = cur /\ cur \in Fds /\ k \in ClientType
      /\ cli = [cli EXCEPT ![cur] = k]
  BY ReadApart, Shapes DEF Parse
<1>2. /\ UNCHANGED <<calls, mem, sock, inbox, script, reg, me, cur>>
      /\ pc = "parse" /\ pc' = "parse"
      /\ k.parser = "body" /\ InRequest(k)
  BY DEF BodyComplete, Parsing, ParserUnchanged, InRequest
<1>3. \/ UNCHANGED cli /\ reqs' = [reqs EXCEPT ![cur] = [@ EXCEPT ![k.current] = r1]]
      \/ Client(c) /\ reqs' = [reqs EXCEPT ![cur] = [@ EXCEPT ![k.current] = r2]]
  BY DEF BodyComplete
<1>4. WholeOK(cur) /\ k.current \in DOMAIN reqs[cur] /\ reqs[cur] \in Seq(RequestType)
  BY <1>1, <1>2, CurrentParsed, Shapes DEF SoloInv
<1>5. ~k.complete
  BY <1>1, <1>2, <1>4 DEF WholeOK, At
<1>6. old \in RequestType /\ code \in Codes /\ (old.bad = 0 \/ old.bad > 200)
  <2> HIDE DEF k
  <2> QED
    BY <1>4 DEF WholeOK
<1>7. c.queue = k.queue /\ c.parser = next
  <2> HIDE DEF k, next
  <2> QED
    BY <1>1 DEF ClientType
<1>8. next \in {"start", "dead"}
  BY DEF NewMessage
<1>9. /\ r1.bodyCode \in Codes /\ (r1.bad = 0 \/ r1.bad > 200)
      /\ r2.bodyCode \in Codes /\ (r2.bad = 0 \/ r2.bad > 200) /\ r2.whole
  <2>1. code = 0 \/ code > 200
    BY <1>6 DEF Codes
  <2>2. r1.bad = code /\ r1.bodyCode = code
    <3> HIDE DEF old
    <3> QED
      BY <1>6 DEF RequestType
  <2>3. r2.bad = old.bad /\ r2.bodyCode = code /\ r2.whole = TRUE
    <3> HIDE DEF old
    <3> QED
      BY <1>6 DEF RequestType
  <2> HIDE DEF r1, r2, code, old
  <2> QED
    BY <1>6, <2>1, <2>2, <2>3
<1> HIDE DEF c, r1, r2, next, old
<1>10. Parsed(k, r1) /\ Parsed(c, r2)
  BY <1>5, <1>7, <1>8, <1>9 DEF Parsed
<1>11. CASE UNCHANGED cli /\ reqs' = [reqs EXCEPT ![cur] = [@ EXCEPT ![k.current] = r1]]
  <2>1. cli' = [cli EXCEPT ![cur] = k]
    BY <1>1, <1>11
  <2> QED
    BY <1>1, <1>2, <1>10, <1>11, <2>1, RequestSolo
<1>12. CASE Client(c) /\ reqs' = [reqs EXCEPT ![cur] = [@ EXCEPT ![k.current] = r2]]
  BY <1>1, <1>2, <1>10, <1>12, RequestSolo DEF Client
<1> QED
  BY <1>3, <1>11, <1>12

\* The one queued request is bad, and gets a page, or was parsed to its end.
LEMMA FinishSolo ==
  ASSUME IInv, SoloInv, Finish
  PROVE  \A f \in Fds : SoloOK(f)' /\ WholeOK(f)'
<1> DEFINE k == cli[cur]
           head == Head(k.queue)
           code == reqs[cur][head].bad
           n == [k EXCEPT !.current = head, !.queue = Tail(@), !.status = code]
<1>1. Apart /\ cur' = cur /\ cur \in Fds /\ k \in ClientType
  BY ServeApart, Shapes DEF Serve
<1>2. /\ UNCHANGED <<calls, reqs, mem, sock, inbox, script, me>> /\ pc = "finish"
      /\ reg' = (IF handler = "accept" THEN reg ELSE [reg EXCEPT ![cur] = NoReg])
      /\ \/ pc' = "page" /\ Client(n)
         \/ pc' = "prepare" /\ UNCHANGED cli /\ code <= 200
  BY DEF Finish
<1>3. reg'[cur].ev = "none"
  BY <1>2, Shapes DEF IInv, WatchInv, StackOK, NoReg
<1>4. SoloOK(cur) /\ WholeOK(cur) /\ mem[cur] # 0
  BY <1>1, <1>2 DEF SoloInv, IInv, WatchInv, StackOK, Working
<1>5. k.queue # <<>>
  BY <1>2 DEF IInv, DataInv, RefsOK
<1>6. Tail(k.queue) = <<>> /\ head \in DOMAIN reqs[cur] /\ reqs[cur] \in Seq(RequestType)
  BY <1>1, <1>4, <1>5, SoloQueue, Shapes
<1>7. ASSUME pc' = "page", Client(n)
      PROVE  SoloOK(cur)' /\ WholeOK(cur)'
  <2>1. n.queue = Tail(k.queue)
    <3> HIDE DEF k, head, code
    <3> QED
      BY <1>1 DEF ClientType
  <2> HIDE DEF n
  <2>2. cli'[cur].queue = <<>>
    BY <1>6, <1>7, <2>1, Shapes DEF Client
  <2>3. SoloOK(cur)'
    BY <1>1, <1>2, <1>4, <2>2, QuietSolo
  <2>4. WholeOK(cur)'
    BY <1>1, <1>2, <1>4, <1>7, QuietWhole DEF At
  <2> QED
    BY <2>3, <2>4
<1>8. ASSUME pc' = "prepare", UNCHANGED cli, code <= 200
      PROVE  SoloOK(cur)' /\ WholeOK(cur)'
  <2>1. ~InService(cur)'
    BY <1>1, <1>3, <1>8 DEF InService, Started, At
  <2>2. SoloOK(cur)'
    BY <1>1, <1>2, <1>4, <1>8, <2>1, QuietSolo
  <2>3. code \in Nat
    <3> HIDE DEF head
    <3>1. reqs[cur][head] \in RequestType
      BY <1>6
    <3> QED
      BY <3>1 DEF RequestType, Codes
  <2>4. reqs[cur][head].whole
    BY <1>1, <1>2, <1>4, <1>8, <2>3 DEF WholeOK, At
  <2>5. WholeOK(cur)'
    BY <1>1, <1>2, <1>4, <1>8, <2>4 DEF WholeOK, At
  <2> QED
    BY <2>2, <2>5
<1> QED
  BY <1>1, <1>2, <1>7, <1>8, ApartSolo

LEMMA PrepareCallRackSolo ==
  ASSUME IInv, SoloInv, PrepareCallRack
  PROVE  \A f \in Fds : SoloOK(f)' /\ WholeOK(f)'
<1> DEFINE k == cli[cur]
           c == [k EXCEPT !.current = Head(k.queue), !.queue = Tail(@)]
           kept == c.keep_alive /\ IsKeepAlive
           c1 == [c EXCEPT !.keep_alive = FALSE, !.status = 417]
           c2 == [c EXCEPT !.keep_alive = FALSE, !.status = 500]
           c3 == [c EXCEPT !.keep_alive = kept]
<1>1. Apart /\ cur' = cur /\ cur \in Fds /\ k \in ClientType
  BY ServeApart, Shapes DEF Serve
<1>2. /\ UNCHANGED <<calls, reqs, mem, sock, inbox, script, me>> /\ pc = "prepare"
      /\ pc' \in {"page", "app"}
      /\ Client(c1) \/ Client(c2) \/ Client(c3)
  BY DEF PrepareCallRack
<1>3. SoloOK(cur) /\ WholeOK(cur) /\ mem[cur] # 0
  BY <1>1, <1>2 DEF SoloInv, IInv, WatchInv, StackOK, Working
<1>4. k.queue # <<>>
  BY <1>2 DEF IInv, DataInv, RefsOK
<1>5. Tail(k.queue) = <<>> /\ reqs[cur][Head(k.queue)].whole
  BY <1>1, <1>2, <1>3, <1>4, SoloQueue DEF WholeOK, At
<1>6. \A n \in {c1, c2, c3} : n.current = Head(k.queue) /\ n.queue = Tail(k.queue)
  <2> DEFINE h == Head(k.queue)
             t == Tail(k.queue)
  <2>1. c = [k EXCEPT !.current = h, !.queue = t]
    OBVIOUS
  <2> HIDE DEF h, t, c, k, kept
  <2>2. c.current = h /\ c.queue = t /\ DOMAIN c = DOMAIN k /\ {"current", "queue"} \subseteq DOMAIN k
    BY <1>1, <2>1 DEF ClientType
  <2>3. c1.current = c.current /\ c1.queue = c.queue
    BY <2>2
  <2>4. c2.current = c.current /\ c2.queue = c.queue
    BY <2>2
  <2>5. c3.current = c.current /\ c3.queue = c.queue
    BY <2>2
  <2> HIDE DEF c1, c2, c3
  <2> QED
    BY <2>2, <2>3, <2>4, <2>5 DEF h, t
<1> HIDE DEF c1, c2, c3
<1>7. cli'[cur].queue = <<>> /\ cli'[cur].current = Head(k.queue)
  BY <1>2, <1>5, <1>6, Shapes DEF Client
<1>8. SoloOK(cur)'
  BY <1>1, <1>2, <1>3, <1>7, QuietSolo
<1>9. WholeOK(cur)'
  BY <1>1, <1>2, <1>3, <1>5, <1>7 DEF WholeOK, At
<1> QED
  BY <1>1, <1>8, <1>9, ApartSolo

LEMMA ProcessRackAppSolo ==
  ASSUME IInv, SoloInv, ProcessRackApp
  PROVE  \A f \in Fds : SoloOK(f)' /\ WholeOK(f)'
<1> DEFINE k == cli[cur]
           s == calls[cur]
           old == reqs[cur]
           C(a) == [k EXCEPT !.status = a.status, !.response = a, !.iter = a.body]
           rs == [old EXCEPT ![k.current].bad = 500]
<1>1. Apart /\ cur' = cur /\ cur \in Fds /\ k \in ClientType /\ old \in Seq(RequestType)
      /\ s \in Seq(Nat)
  BY ServeApart, Shapes DEF Serve
<1>2. /\ UNCHANGED <<mem, sock, inbox, script, me, reg>> /\ pc = "app"
      /\ calls' = [calls EXCEPT ![cur] = Append(s, k.current)]
      /\ UNCHANGED cli \/ \E a \in Apps : Client(C(a))
      /\ UNCHANGED reqs \/ reqs' = [reqs EXCEPT ![cur] = rs]
      /\ pc' \in {"raised", "page", "close", "start"}
  BY DEF ProcessRackApp
<1>3. SoloOK(cur) /\ WholeOK(cur)
  BY <1>1 DEF SoloInv
<1>4. cli'[cur].queue = k.queue
  <2>1. \A a : C(a).queue = k.queue
    <3> HIDE DEF k
    <3> QED
      BY <1>1 DEF ClientType
  <2> HIDE DEF C
  <2> QED
    BY <1>2, <2>1, Shapes DEF Client
<1>5. /\ Len(rs) = Len(old) /\ DOMAIN rs = DOMAIN old
      /\ \A id \in DOMAIN old : /\ rs[id].whole = old[id].whole
                                /\ rs[id].bodyCode = old[id].bodyCode
                                /\ rs[id].bad \in {old[id].bad, 500}
  <2> HIDE DEF k, old
  <2>1. DOMAIN rs = DOMAIN old
    OBVIOUS
  <2>2. \A id \in DOMAIN old : old[id] \in RequestType
    BY <1>1
  <2>3. \A x \in RequestType : LET y == [x EXCEPT !.bad = 500]
                               IN  y.whole = x.whole /\ y.bodyCode = x.bodyCode /\ y.bad = 500
    BY DEF RequestType
  <2>4. \A id \in DOMAIN old : rs[id] = old[id] \/ rs[id] = [old[id] EXCEPT !.bad = 500]
    OBVIOUS
  <2>5. Len(rs) = Len(old)
    BY <1>1, <2>1
  <2> QED
    BY <2>1, <2>2, <2>3, <2>4, <2>5
<1> HIDE DEF rs, C
<1>6. /\ Len(reqs'[cur]) = Len(old) /\ DOMAIN reqs'[cur] = DOMAIN old
      /\ \A id \in DOMAIN old : /\ reqs'[cur][id].whole = old[id].whole
                                /\ reqs'[cur][id].bodyCode = old[id].bodyCode
                                /\ reqs'[cur][id].bad \in {old[id].bad, 500}
  BY <1>2, <1>5, Shapes
<1>7. Range(calls'[cur]) = Range(s) \cup {k.current}
  <2>1. calls'[cur] = Append(s, k.current)
    BY <1>2, Shapes
  <2> QED
    BY <1>1, <2>1, AppendRange
<1>8. old[k.current].whole
  BY <1>1, <1>2, <1>3 DEF WholeOK, At
<1>9. InService(cur)
  BY <1>1, <1>2 DEF InService, At
<1>10. SoloOK(cur)'
  BY <1>1, <1>2, <1>3, <1>4, <1>6, <1>9, QuietSolo
<1>11. \A id \in DOMAIN reqs'[cur] :
         /\ reqs'[cur][id].bodyCode \in Codes
         /\ reqs'[cur][id].bad = 0 \/ reqs'[cur][id].bad > 200
         /\ id \in Range(calls'[cur]) => reqs'[cur][id].whole
  BY <1>3, <1>6, <1>7, <1>8 DEF WholeOK
<1>12. WholeOK(cur)'
  BY <1>1, <1>2, <1>11 DEF WholeOK, At
<1> QED
  BY <1>1, <1>10, <1>12, ApartSolo

LEMMA SendErrorPageSolo ==
  ASSUME IInv, SoloInv, SendErrorPage
  PROVE  \A f \in Fds : SoloOK(f)' /\ WholeOK(f)'
<1> DEFINE k == cli[cur]
           c1 == [k EXCEPT !.keep_alive = FALSE, !.header_done = TRUE, !.response_closed = TRUE]
           c2 == [c1 EXCEPT !.status = 500]
<1>1. Apart /\ cur' = cur /\ cur \in Fds /\ k \in ClientType
  BY ServeApart, Shapes DEF Serve
<1>2. /\ UNCHANGED <<calls, reqs, mem, sock, inbox, script, me, reg>> /\ pc = "page"
      /\ pc' = "close"
      /\ UNCHANGED cli \/ Client(c1) \/ Client(c2)
  BY DEF SendErrorPage
<1>3. SoloOK(cur) /\ WholeOK(cur)
  BY <1>1 DEF SoloInv
<1>4. c1.queue = k.queue /\ c2.queue = k.queue
  <2> HIDE DEF k
  <2> QED
    BY <1>1 DEF ClientType
<1> HIDE DEF c1, c2
<1>5. cli'[cur].queue = k.queue
  BY <1>2, <1>4, Shapes DEF Client
<1>6. InService(cur)
  BY <1>1, <1>2 DEF InService, At
<1>7. SoloOK(cur)'
  BY <1>1, <1>2, <1>3, <1>5, <1>6, QuietSolo
<1>8. WholeOK(cur)'
  BY <1>1, <1>2, <1>3, QuietWhole DEF At
<1> QED
  BY <1>1, <1>7, <1>8, ApartSolo

-----------------------------------------------------------------------------
(* One request at a time: the thread.                                      *)

BufferAlone ==
  /\ AtMostOne(Begins(buf))
  /\ Begins(buf) # {} => Begins(inbox[cur]) = {} /\ script[cur].sent = Len(reqs[cur]) + 1

LEMMA ParserLengths ==
  ASSUME IInv, HeadersComplete \/ BodyComplete \/ ParseBlank \/ ParseError
  PROVE  Len(reqs'[cur]) = Len(reqs[cur])
<1>1. PICK i, r : reqs' = reqs \/ reqs' = [reqs EXCEPT ![cur] = [@ EXCEPT ![i] = r]]
  BY DEF HeadersComplete, BodyComplete, ParseBlank, ParseError
<1>2. cur \in Fds /\ reqs[cur] \in Seq(RequestType)
  BY Shapes
<1> DEFINE old == reqs[cur]
           rs == [old EXCEPT ![i] = r]
<1>3. DOMAIN rs = DOMAIN old /\ Len(rs) = Len(old)
  BY <1>2
<1>4. reqs'[cur] = old \/ reqs'[cur] = rs
  BY <1>1, Shapes
<1> HIDE DEF rs, old
<1>5. Len(reqs'[cur]) = Len(old)
  BY <1>3, <1>4
<1> QED
  BY <1>5 DEF old

LEMMA BufferParsed ==
  ASSUME IInv, ServeInv, BufferAlone,
         MessageBegin \/ HeadersComplete \/ BodyComplete \/ ParseBlank \/ ParseError
  PROVE  BufferAlone'
<1>1. /\ cur' = cur /\ UNCHANGED <<inbox, script>> /\ buf # <<>>
      /\ (bad' /\ buf' = buf) \/ (~bad' /\ buf' = Tail(buf))
  BY ParsedBuffer
<1>2. buf \in Seq(TokenType)
  BY DEF IInv, DataInv, DataTypes
<1>3. /\ Begins(Tail(buf)) # {} => Begins(buf) # {}
      /\ AtMostOne(Begins(buf)) => AtMostOne(Begins(Tail(buf)))
      /\ AtMostOne(Begins(buf)) /\ Head(buf).t = "begin" => Begins(Tail(buf)) = {}
  BY <1>1, <1>2, TailTokens
<1>4. /\ Begins(buf)' = Begins(buf') /\ Begins(inbox[cur])' = Begins(inbox[cur])
      /\ AtMostOne(Begins(buf))' = AtMostOne(Begins(buf'))
  BY <1>1 DEF Begins, AtMostOne
<1>5. CASE MessageBegin
  <2>1. buf' = Tail(buf) /\ Head(buf).t = "begin"
    BY <1>5 DEF MessageBegin, Parsing
  <2>2. Begins(buf') = {}
    BY <1>3, <2>1 DEF BufferAlone
  <2>3. AtMostOne({})
    BY DEF AtMostOne
  <2> QED
    BY <1>4, <2>2, <2>3 DEF BufferAlone
<1>6. CASE HeadersComplete \/ BodyComplete \/ ParseBlank \/ ParseError
  <2>1. Len(reqs'[cur]) = Len(reqs[cur])
    BY <1>6, ParserLengths
  <2>2. AtMostOne(Begins(buf')) /\ (Begins(buf') # {} => Begins(buf) # {})
    BY <1>1, <1>3 DEF BufferAlone
  <2> QED
    BY <1>1, <1>4, <2>1, <2>2 DEF BufferAlone
<1> QED
  BY <1>5, <1>6

LEMMA BufferRead ==
  ASSUME IInv, SoloInv, ReadRequest, pc' = "parse"
  PROVE  BufferAlone'
<1>1. /\ cur \in Fds /\ inbox \in [Fds -> Seq(TokenType)]
  BY Shapes
<1>2. /\ pc = "read" /\ UNCHANGED <<script, cur>>
      /\ \E n \in 1..Len(inbox[cur]) :
           /\ buf' = SubSeq(inbox[cur], 1, n)
           /\ inbox' = [inbox EXCEPT ![cur] = SubSeq(@, n + 1, Len(@))]
           /\ UNCHANGED reqs
  BY DEF ReadRequest, SetReadError
<1>3. PICK n \in 1..Len(inbox[cur]) :
        /\ buf' = SubSeq(inbox[cur], 1, n)
        /\ inbox' = [inbox EXCEPT ![cur] = SubSeq(@, n + 1, Len(@))]
        /\ UNCHANGED reqs
  BY <1>2
<1>4. SoloOK(cur) /\ mem[cur] # 0
  BY <1>1, <1>2 DEF SoloInv, IInv, WatchInv, StackOK, Working
<1> DEFINE s == inbox[cur]
           a == SubSeq(s, 1, n)
           b == SubSeq(s, n + 1, Len(s))
<1>5. /\ Begins(a) # {} => Begins(s) # {}
      /\ AtMostOne(Begins(s)) => AtMostOne(Begins(a)) /\ (Begins(a) # {} => Begins(b) = {})
  BY <1>1, <1>3, SplitTokens
<1>6. AtMostOne(Begins(s)) /\ (Begins(s) # {} => script[cur].sent = Len(reqs[cur]) + 1)
  BY <1>4 DEF SoloOK
<1>7. buf' = a /\ inbox'[cur] = b
  BY <1>1, <1>3
<1> HIDE DEF a, b
<1>8. Begins(buf)' = Begins(a) /\ AtMostOne(Begins(buf))' = AtMostOne(Begins(a))
      /\ Begins(inbox[cur])' = Begins(b)
  BY <1>2, <1>7 DEF Begins, AtMostOne
<1> QED
  BY <1>2, <1>3, <1>5, <1>6, <1>8 DEF BufferAlone

LEMMA BufferPeer ==
  ASSUME "pipeline" \notin Peers, IInv, ServeInv, SoloInv, BufferAlone, pc = "parse",
         NEW d \in Fds, Peer(d)
  PROVE  BufferAlone'
<1>1. UNCHANGED <<cur, reqs, buf>>
  BY DEF Peer, PeerConnect, PeerSend, PeerEof, PeerReset, PeerStall, PeerDrain
<1>2. cur \in Fds /\ SoloOK(cur) /\ mem[cur] # 0 /\ sock[cur] = "open" /\ Len(reqs[cur]) \in Nat
      /\ inbox[cur] \in Seq(TokenType)
  BY Shapes, Pointers DEF IInv, WatchInv, StackOK, Working, AllocOK, SoloInv
<1>3. Begins(buf)' = Begins(buf) /\ AtMostOne(Begins(buf))' = AtMostOne(Begins(buf))
  BY <1>1 DEF Begins, AtMostOne
<1>4. CASE inbox'[cur] = inbox[cur] /\ script'[cur].sent = script[cur].sent
  <2>1. Begins(inbox[cur])' = Begins(inbox[cur])
    BY <1>1, <1>4 DEF Begins
  <2> QED
    BY <1>1, <1>3, <1>4, <2>1 DEF BufferAlone
<1>5. CASE PeerSend(d) /\ d = cur
  <2>1. PICK token \in TokenType, v \in ScriptType : Sends(cur, token, v)
    BY <1>2, <1>5, SendEffect
  <2> DEFINE old == inbox[cur]
             new == Append(old, token)
  <2>2. inbox'[cur] = new /\ script'[cur] = v
    BY <1>2, <2>1, Shapes DEF Sends, Put
  <2>3. Begins(new) # {} => Begins(old) # {} \/ token.t = "begin"
    BY <1>2, AppendTokens
  <2>4. Begins(inbox[cur])' = Begins(new)
    BY <1>1, <2>2 DEF Begins
  <2> HIDE DEF new
  <2>5. CASE token.t # "begin" /\ v.sent = script[cur].sent
    BY <1>1, <1>3, <2>2, <2>3, <2>4, <2>5 DEF BufferAlone
  <2>6. CASE token.t = "begin" /\ ~Waits(cur)
    <3>1. script[cur].sent = Len(reqs[cur])
      BY <1>2, <2>6, BeginsAlone
    <3>2. Begins(buf) = {}
      BY <1>2, <3>1 DEF BufferAlone
    <3> QED
      BY <1>3, <3>2 DEF BufferAlone
  <2> QED
    BY <2>1, <2>5, <2>6 DEF Sends
<1>6. CASE PeerSend(d) /\ d # cur
  BY <1>2, <1>4, <1>6, Shapes DEF PeerSend, Put
<1>7. CASE PeerConnect(d)
  BY <1>2, <1>4, <1>7, Shapes DEF PeerConnect
<1>8. CASE PeerEof(d) \/ PeerReset(d) \/ PeerDrain(d)
  BY <1>4, <1>8 DEF PeerEof, PeerReset, PeerDrain
<1>9. CASE PeerStall(d)
  <2>1. inbox' = inbox /\ script' = [script EXCEPT ![d].stalled = TRUE]
    BY <1>9 DEF PeerStall
  <2>2. script'[cur].sent = script[cur].sent
    BY <1>2, <2>1, Shapes DEF ScriptType
  <2> QED
    BY <1>4, <2>1, <2>2
<1> QED
  BY <1>5, <1>6, <1>7, <1>8, <1>9 DEF Peer

LEMMA BufferSolo ==
  ASSUME "pipeline" \notin Peers, IInv, ServeInv, SoloInv, [Next]_vars, pc' = "parse"
  PROVE  BufferAlone'
<1>1. pc = "parse" => BufferAlone
  BY DEF SoloInv, ThreadOK, BufferAlone
<1>2. CASE UNCHANGED <<pc, cur, cli, parseVars, inbox, script, reqs>>
  BY <1>1, <1>2 DEF BufferAlone, AtMostOne, Begins
<1>3. CASE MessageBegin \/ HeadersComplete \/ BodyComplete \/ ParseBlank \/ ParseError
  BY <1>1, <1>3, ParsedBuffer, BufferParsed
<1>4. ASSUME NEW d \in Fds, Peer(d) PROVE BufferAlone'
  <2>1. pc = "parse"
    BY <1>4 DEF Peer, PeerConnect, PeerSend, PeerEof, PeerReset, PeerStall, PeerDrain
  <2> QED
    BY <1>1, <1>4, <2>1, BufferPeer
<1> QED
  BY <1>2, <1>3, <1>4, BufferRead, ParseSteps

\* Where requests are taken from the queue, called and answered.
LEMMA ServeSteps ==
  ASSUME [Next]_vars, pc' \in {"prepare", "app", "start"}
  PROVE  \/ UNCHANGED <<pc, cur, me, mem, cli>>
         \/ Finish \/ PrepareCallRack \/ ProcessRackApp \/ CloseToNext
         \/ Return /\ nested > 0
<1>1. Stop \/ UNCHANGED vars \/ (\E d \in Fds : Peer(d)) => UNCHANGED <<pc, cur, me, mem, cli>>
  BY DEF Stop, Peer, PeerConnect, PeerSend, PeerEof, PeerReset, PeerStall, PeerDrain
<1>2. ~(\E d \in Fds : Event(d)) /\ ~AcceptEvent /\ ~LoopExit /\ ~Accepting
  BY ZenonT(30) DEF Event, ReadEvent, WriteEvent, Dispatch, Timeout, SetReadError, AcceptEvent,
                  LoopExit, Accepting, AcceptDone, Register, Accept, AcceptFails
<1>3. ~ReadRequest /\ ~Parse /\ ~SendErrorPage /\ (Return => nested > 0)
  BY DEF ReadRequest, SetReadError, Parse, MessageBegin, HeadersComplete, BodyComplete,
         ParseBlank, ParseError, ParseDone, ParseNull, Parsing, ParserUnchanged, Crash,
         SendErrorPage, Return
<1>4. ~Respond
  BY ZenonT(30) DEF Respond, WriteHeaders, InternalError, EmptyIterator, ClosedClient, WriteItem,
                  BodyDone, FinishBody, SuspendWrite, SuspendAborts, RetryBucket, Crash
<1>5. Close => CloseToNext
  BY DEF Close, CloseAborts, CloseConnection, KeepConnection, Crash
<1> QED
  BY <1>1, <1>2, <1>3, <1>4, <1>5 DEF Next, Callback, Serve

LEMMA NestedSteps ==
  ASSUME [Next]_vars
  PROVE  UNCHANGED nested \/ (Return /\ nested > 0) \/ (ProcessRackApp /\ pc' = "close")
<1>1. (\E d \in Fds : Peer(d) \/ Event(d)) \/ AcceptEvent \/ LoopExit \/ Stop => UNCHANGED nested
  BY DEF Event, ReadEvent, WriteEvent, Dispatch, Timeout, AcceptEvent, LoopExit, Stop,
         Peer, PeerConnect, PeerSend, PeerEof, PeerReset, PeerStall, PeerDrain
<1>2. Accepting \/ ReadRequest \/ Parse => UNCHANGED nested
  BY DEF Accepting, AcceptDone, Register, Accept, AcceptFails, ReadRequest, Parse, MessageBegin,
         HeadersComplete, BodyComplete, ParseBlank, ParseError, ParseDone, ParseNull,
         ParserUnchanged, Crash
<1>3. Serve => UNCHANGED nested \/ (ProcessRackApp /\ pc' = "close")
  BY DEF Serve, Finish, PrepareCallRack, ProcessRackApp, SendErrorPage
<1>4. Respond \/ Close => UNCHANGED nested
  BY DEF Respond, WriteHeaders, EmptyIterator, ClosedClient, WriteItem, FinishBody, SuspendWrite,
         SuspendAborts, RetryBucket, ResponseUnchanged, Close, CloseAborts, CloseToNext,
         CloseConnection, KeepConnection, Crash
<1>5. Return => UNCHANGED nested \/ nested > 0
  BY DEF Return
<1> QED
  BY <1>1, <1>2, <1>3, <1>4, <1>5 DEF Next, Callback

\* The client that is called has not answered: one that met a reset has a bad
\* request, and gets its page from check_status_code.
LEMMA FinishThread ==
  ASSUME IInv, ServeInv, SoloInv, Finish, pc' = "prepare"
  PROVE  cur' = cur /\ ~cli'[cur].response_closed
<1>1. /\ cur' = cur /\ UNCHANGED cli /\ pc = "finish"
      /\ reqs[cur][Head(cli[cur].queue)].bad <= 200
  BY DEF Finish
<1>2. cur \in Fds /\ SoloOK(cur) /\ mem[cur] # 0 /\ cli[cur].queue # <<>>
  BY <1>1, Shapes DEF SoloInv, IInv, WatchInv, StackOK, Working, DataInv, RefsOK
<1>3. Head(cli[cur].queue) = Last(cli[cur].queue)
  BY <1>2, SoloQueue
<1>4. reqs[cur][Last(cli[cur].queue)].bad \in Nat
  <2>1. Last(cli[cur].queue) \in DOMAIN reqs[cur] /\ reqs[cur] \in Seq(RequestType)
    BY <1>2, SoloQueue, Shapes
  <2>2. reqs[cur][Last(cli[cur].queue)] \in RequestType
    BY <2>1
  <2> QED
    BY <2>2 DEF RequestType, Codes
<1>5. cli[cur].response_closed => reqs[cur][Last(cli[cur].queue)].bad > 200
  BY <1>1 DEF ServeInv, NestOK
<1> QED
  BY <1>1, <1>3, <1>4, <1>5

LEMMA PrepareThread ==
  ASSUME IInv, PrepareCallRack, ~cli[cur].response_closed
  PROVE  cur' = cur /\ ~cli'[cur].response_closed /\ pc' \in {"page", "app"}
<1> DEFINE k == cli[cur]
           h == Head(k.queue)
           t == Tail(k.queue)
           c == [k EXCEPT !.current = h, !.queue = t]
           kept == c.keep_alive /\ IsKeepAlive
           c1 == [c EXCEPT !.keep_alive = FALSE, !.status = 417]
           c2 == [c EXCEPT !.keep_alive = FALSE, !.status = 500]
           c3 == [c EXCEPT !.keep_alive = kept]
<1>1. cur' = cur /\ pc' \in {"page", "app"} /\ (Client(c1) \/ Client(c2) \/ Client(c3))
  BY DEF PrepareCallRack
<1>2. k \in ClientType
  BY Shapes
<1>3. c.response_closed = k.response_closed /\ "response_closed" \in DOMAIN c
  <2> HIDE DEF k, h, t
  <2> QED
    BY <1>2 DEF ClientType
<1>4. /\ c1.response_closed = c.response_closed /\ c2.response_closed = c.response_closed
      /\ c3.response_closed = c.response_closed
  <2> HIDE DEF c, kept
  <2> QED
    BY <1>3
<1> HIDE DEF c, c1, c2, c3
<1>5. cli'[cur].response_closed = k.response_closed
  BY <1>1, <1>3, <1>4, Shapes DEF Client
<1> QED
  BY <1>1, <1>5

LEMMA AppThread ==
  ASSUME IInv, SoloInv, ProcessRackApp
  PROVE  UNCHANGED nested /\ pc' # "prepare" /\ pc' # "app" /\ (pc' = "start" => mem'[cur'] = me')
<1> DEFINE k == cli[cur]
           C(a) == [k EXCEPT !.status = a.status, !.response = a, !.iter = a.body]
<1>1. /\ pc = "app" /\ UNCHANGED <<mem, me, cur>>
      /\ pc' \in {"raised", "page", "close", "start"}
      /\ (UNCHANGED nested \/ \E a \in Apps : C(a).response_closed)
  BY DEF ProcessRackApp
<1>2. k \in ClientType /\ ~k.response_closed /\ mem[cur] = me
  BY <1>1, Shapes DEF SoloInv, ThreadOK, IInv, WatchInv, StackOK, Working
<1>3. \A a : C(a).response_closed = k.response_closed
  <2> HIDE DEF k
  <2> QED
    BY <1>2 DEF ClientType
<1> HIDE DEF C
<1> QED
  BY <1>1, <1>2, <1>3

LEMMA ThreadSolo ==
  ASSUME "pipeline" \notin Peers, IInv, ServeInv, SoloInv, [Next]_vars
  PROVE  ThreadOK'
<1>1. ThreadOK
  BY DEF SoloInv
<1>2. pc' = "parse" => BufferAlone'
  BY BufferSolo
<1>3. nested = 0 /\ ~(nested > 0)
  BY <1>1 DEF ThreadOK
<1>4. nested' = 0
  BY <1>3, NestedSteps, AppThread
<1>5. fault' # "use_after_free"
  <2>1. ClosedClient => FALSE
    BY <1>1 DEF ClosedClient, ThreadOK
  <2>2. ParseNull \/ SuspendAborts \/ CloseAborts \/ EmptyIterator => fault' # "use_after_free"
    BY DEF ParseNull, SuspendAborts, CloseAborts, CloseFaults, EmptyIterator, Crash
  <2> QED
    BY <1>1, <2>1, <2>2, FaultSteps DEF ThreadOK
<1>6. ~CloseToNext
  <2>1. ASSUME CloseToNext PROVE FALSE
    <3>1. pc = "close" /\ cli[cur].queue # <<>>
      BY <2>1 DEF CloseToNext, Closing
    <3>2. cur \in Fds /\ SoloOK(cur) /\ mem[cur] # 0 /\ InService(cur)
      BY <3>1, Shapes DEF SoloInv, IInv, WatchInv, StackOK, Working, InService, At
    <3> QED
      BY <3>1, <3>2 DEF SoloOK
  <2> QED
    BY <2>1
<1>7. pc' \in {"prepare", "app"} => ~cli'[cur'].response_closed
  <2>1. CASE UNCHANGED <<pc, cur, me, mem, cli>>
    BY <1>1, <2>1 DEF ThreadOK
  <2>2. CASE Finish
    BY <2>2, FinishThread DEF Finish
  <2>3. CASE PrepareCallRack
    <3>1. ~cli[cur].response_closed
      BY <1>1, <2>3 DEF PrepareCallRack, ThreadOK
    <3> QED
      BY <2>3, <3>1, PrepareThread
  <2> QED
    BY <1>3, <1>6, <2>1, <2>2, <2>3, ServeSteps, AppThread
<1>8. pc' = "start" => mem'[cur'] = me'
  <2>1. CASE UNCHANGED <<pc, cur, me, mem, cli>>
    BY <1>1, <2>1 DEF ThreadOK
  <2>2. Finish \/ PrepareCallRack => pc' # "start"
    BY DEF Finish, PrepareCallRack
  <2> QED
    BY <1>3, <1>6, <2>1, <2>2, ServeSteps, AppThread
<1> QED
  BY <1>2, <1>4, <1>5, <1>7, <1>8 DEF ThreadOK, BufferAlone

LEMMA SameSolo ==
  ASSUME SoloInv, UNCHANGED <<cli, calls, reqs, mem, sock, inbox, script, reg, me, cur, pc>>
  PROVE  \A f \in Fds : SoloOK(f)' /\ WholeOK(f)'
<1>1. SUFFICES ASSUME NEW f \in Fds PROVE SoloOK(f)' /\ WholeOK(f)'
  OBVIOUS
<1>2. SoloOK(f) /\ WholeOK(f)
  BY DEF SoloInv
<1>3. InService(f)' => InService(f)
  BY DEF InService, Started, At
<1>4. SoloOK(f)'
  BY <1>2, <1>3, QuietSolo
<1>5. WholeOK(f)'
  BY <1>2 DEF WholeOK, At
<1> QED
  BY <1>4, <1>5

LEMMA InitSolo == ASSUME Init PROVE SoloInv
<1>1. /\ \A f \in Fds : sock[f] = "closed" /\ mem[f] = 0 /\ reqs[f] = <<>>
      /\ pc = "loop" /\ nested = 0 /\ fault = "none"
  BY DEF Init
<1>2. DOMAIN <<>> = {}
  OBVIOUS
<1>3. \A f \in Fds : SoloOK(f)
  BY <1>1 DEF SoloOK
<1>4. \A f \in Fds : WholeOK(f)
  BY <1>1, <1>2 DEF WholeOK, At
<1>5. ThreadOK
  BY <1>1 DEF ThreadOK
<1> QED
  BY <1>3, <1>4, <1>5 DEF SoloInv

LEMMA NextSolo ==
  ASSUME "pipeline" \notin Peers, IInv, ServeInv, SoloInv, [Next]_vars
  PROVE  SoloInv'
<1> DEFINE P == \A f \in Fds : SoloOK(f)' /\ WholeOK(f)'
<1>1. Stop \/ UNCHANGED vars => P
  <2>1. Stop \/ UNCHANGED vars =>
          UNCHANGED <<cli, calls, reqs, mem, sock, inbox, script, reg, me, cur, pc>>
    BY DEF Stop
  <2> QED
    BY <2>1, SameSolo
<1>2. (\E d \in Fds : Peer(d) \/ Event(d)) => P
  BY PeerSolo, ControlSolo, TimeoutSolo DEF Event
<1>3. AcceptEvent \/ LoopExit \/ Return => P
  BY ControlSolo
<1>4. Accepting => P
  BY ControlSolo, AcceptSolo, AcceptFailsSolo DEF Accepting
<1>5. ReadRequest \/ Parse => P
  BY ReadRequestSolo, QuietParseSolo, ParseDoneSolo, MessageBeginSolo, HeadersCompleteSolo,
     BodyCompleteSolo DEF Parse
<1>6. Serve => P
  BY FinishSolo, PrepareCallRackSolo, ProcessRackAppSolo, SendErrorPageSolo DEF Serve
<1>7. Respond \/ Close => P
  BY RespondSolo, CloseSolo
<1>8. P
  <2> HIDE DEF P
  <2> QED
    BY <1>1, <1>2, <1>3, <1>4, <1>5, <1>6, <1>7 DEF Next, Callback
<1> QED
  BY <1>8, ThreadSolo DEF SoloInv

-----------------------------------------------------------------------------
(* The sixth part of the proofs about the core: what stands on the wire.   *)
(* FramingInv is inductive; its three parts, each for all connections, are *)
(* proved one after the other.                                             *)

\* First StallOK.  Only peers fill a send buffer, and what a peer did it did.
LEMMA PeersOnly ==
  ASSUME [Next]_vars, ~\E d \in Fds : Peer(d)
  PROVE  UNCHANGED <<window, script, peer>>
<1>1. (\E d \in Fds : Event(d)) \/ AcceptEvent \/ LoopExit \/ Stop =>
        UNCHANGED <<window, script, peer>>
  BY DEF Event, ReadEvent, WriteEvent, Dispatch, Timeout, AcceptEvent, LoopExit, Stop
<1>2. Accepting \/ Return \/ ReadRequest => UNCHANGED <<window, script, peer>>
  BY DEF Accepting, AcceptDone, Register, Accept, AcceptFails, Return, ReadRequest
<1>3. Parse => UNCHANGED <<window, script, peer>>
  BY DEF Parse, MessageBegin, HeadersComplete, BodyComplete, ParseBlank, ParseError, ParseDone,
         ParseNull, ParserUnchanged, Crash
<1>4. Serve => UNCHANGED <<window, script, peer>>
  BY DEF Serve, Finish, PrepareCallRack, ProcessRackApp, SendErrorPage
<1>5. Respond => UNCHANGED <<window, script, peer>>
  BY DEF Respond, WriteHeaders, EmptyIterator, ClosedClient, WriteItem, FinishBody,
         SuspendWrite, SuspendAborts, RetryBucket, ResponseUnchanged, Crash
<1>6. Close => UNCHANGED <<window, script, peer>>
  BY DEF Close, CloseAborts, CloseToNext, CloseConnection, KeepConnection, Crash
<1> QED
  BY <1>1, <1>2, <1>3, <1>4, <1>5, <1>6 DEF Next, Callback

\* What a peer's step leaves alone, but for a new connection, which has no client.
LEMMA PeerLeaves ==
  ASSUME IInv, NEW d \in Fds, Peer(d)
  PROVE  /\ UNCHANGED <<calls, reqs, mem, cli, reg, pc, cur, me, buf, bad>>
         /\ PeerConnect(d) => wire'[d] = <<>> /\ mem[d] = 0 /\ ~At(d, Working)
         /\ \A f \in Fds : ~(f = d /\ PeerConnect(d)) =>
              /\ wire'[f] = wire[f] /\ (peer'[f] # "reset" => peer[f] # "reset")
              /\ script[f].stalled => script'[f].stalled
              /\ script[f].old => script'[f].old
<1>1. UNCHANGED <<calls, reqs, mem, cli, reg, pc, cur, me, buf, bad>>
  BY DEF Peer, PeerConnect, PeerSend, PeerEof, PeerReset, PeerStall, PeerDrain
<1>2. ASSUME PeerConnect(d) PROVE wire'[d] = <<>> /\ mem[d] = 0 /\ ~At(d, Working)
  <2>1. sock[d] = "closed" /\ wire'[d] = <<>>
    BY <1>2, Shapes DEF PeerConnect
  <2> QED
    BY <2>1, Shapes DEF IInv, WatchInv, AllocOK, StackOK, At
<1>3. ASSUME NEW f \in Fds, ~(f = d /\ PeerConnect(d))
      PROVE  /\ wire'[f] = wire[f] /\ (peer'[f] # "reset" => peer[f] # "reset")
             /\ script[f].stalled => script'[f].stalled
             /\ script[f].old => script'[f].old
  <2>1. script \in [Fds -> ScriptType] /\ peer \in [Fds -> {"up", "eof", "reset"}]
        /\ wire \in [Fds -> Seq(AnswerType)]
    BY Shapes
  <2>2. CASE PeerConnect(d)
    BY <1>3, <2>1, <2>2 DEF PeerConnect
  <2>3. CASE PeerSend(d)
    <3>1. PICK token \in TokenType, v \in ScriptType : Sends(d, token, v)
      BY <2>3, SendEffect
    <3>2. script' = [script EXCEPT ![d] = v] /\ v.stalled = script[d].stalled
          /\ (script[d].old => v.old)
      BY <3>1 DEF Sends, Put
    <3> QED
      BY <2>1, <2>3, <3>2 DEF PeerSend
  <2>4. CASE PeerEof(d) \/ PeerReset(d) \/ PeerDrain(d)
    BY <2>1, <2>4 DEF PeerEof, PeerReset, PeerDrain
  <2>5. CASE PeerStall(d)
    <3>1. script' = [script EXCEPT ![d].stalled = TRUE] /\ UNCHANGED <<wire, peer>>
      BY <2>5 DEF PeerStall
    <3> QED
      BY <2>1, <3>1 DEF ScriptType
  <2> QED
    BY <2>2, <2>3, <2>4, <2>5 DEF Peer
<1> QED
  BY <1>1, <1>2, <1>3

\* A descriptor is registered for writing by SuspendWrite alone, and a response
\* waits for its socket behind a full send buffer.
LEMMA WaitSteps ==
  ASSUME IInv, [Next]_vars, ~\E d \in Fds : Peer(d)
  PROVE  \A f \in Fds :
           /\ reg'[f].ev = "write" => reg[f].ev = "write" \/ At(f, {"suspend"})
           /\ At(f, {"suspend", "retry", "wbody"})' =>
                \/ ~window[f] \/ reg[f].ev = "write"
                \/ At(f, {"suspend", "retry", "wbody"})
<1>1. ASSUME NEW f \in Fds, reg'[f].ev = "write"
      PROVE  reg[f].ev = "write" \/ At(f, {"suspend"})
  <2>1. reg \in [Fds -> RegType]
    BY Shapes
  <2>2. (\E d \in Fds : Event(d)) \/ AcceptEvent \/ LoopExit \/ Stop => reg[f].ev = "write"
    BY <1>1, <2>1 DEF Event, ReadEvent, WriteEvent, Dispatch, Timeout, AcceptEvent, LoopExit, Stop,
       RegType
  <2>3. Accepting \/ Return => reg[f].ev = "write"
    <3>1. Accepting \/ Return => \/ reg' = reg
                                 \/ \E arg : reg' = [reg EXCEPT ![cur] = Watch("read", arg)]
      BY DEF Accepting, AcceptDone, Register, Accept, AcceptFails, Return
    <3> QED
      BY <1>1, <2>1, <3>1
  <2>4. ReadRequest => reg[f].ev = "write"
    BY <1>1, <2>1 DEF ReadRequest, Rearm, RegType
  <2>5. Parse => reg[f].ev = "write"
    <3>1. Parse => reg' = reg
      BY DEF Parse, MessageBegin, HeadersComplete, BodyComplete, ParseBlank, ParseError,
         ParseDone, ParseNull, ParserUnchanged, Crash
    <3> QED
      BY <1>1, <3>1
  <2>6. Serve => reg[f].ev = "write"
    <3>1. Serve => reg' = reg \/ reg' = [reg EXCEPT ![cur] = NoReg]
      BY DEF Serve, Finish, PrepareCallRack, ProcessRackApp, SendErrorPage
    <3> QED
      BY <1>1, <2>1, <3>1 DEF NoReg
  <2>7. Respond => reg[f].ev = "write" \/ At(f, {"suspend"})
    BY <1>1, <2>1 DEF Respond, WriteHeaders, EmptyIterator, ClosedClient, WriteItem, FinishBody,
         SuspendWrite, SuspendAborts, RetryBucket, ResponseUnchanged, Crash, At
  <2>8. Close => reg[f].ev = "write"
    <3>1. Close => \/ reg' = reg
                   \/ \E e \in {"none", "read"} : \E armed, arg :
                        reg' = [reg EXCEPT ![cur] = [ev |-> e, armed |-> armed, arg |-> arg]]
      BY DEF Close, CloseAborts, CloseToNext, CloseConnection, KeepConnection, Crash, NoReg
    <3> QED
      BY <1>1, <2>1, <3>1
  <2>9. UNCHANGED vars => reg[f].ev = "write"
    BY <1>1
  <2> QED
    BY <2>2, <2>3, <2>4, <2>5, <2>6, <2>7, <2>8, <2>9 DEF Next, Callback
<1>2. ASSUME pc' \in {"suspend", "retry", "wbody"}
      PROVE  \/ UNCHANGED <<pc, cur>> \/ reg[cur'].ev = "write"
             \/ cur' = cur /\ (~window[cur] \/ pc \in {"retry", "wbody"})
  <2>1. ~AcceptEvent /\ ~LoopExit /\ ~Accepting /\ ~Return /\ ~ReadRequest /\ ~Serve /\ ~Close
    BY <1>2 DEF AcceptEvent, LoopExit, Return, ReadRequest, SetReadError,
         Accepting, AcceptDone, Register, Accept, AcceptFails,
         Serve, Finish, PrepareCallRack, ProcessRackApp, SendErrorPage,
         Close, CloseAborts, CloseToNext, CloseConnection, KeepConnection, Crash
  <2>2. ~Parse
    BY <1>2 DEF Parse, MessageBegin, HeadersComplete, BodyComplete, ParseBlank, ParseError,
         Parsing, ParserUnchanged, ParseDone, SetReadError, ParseNull, Crash
  <2>3. (\E d \in Fds : Event(d)) => reg[cur'].ev = "write"
    BY <1>2 DEF Event, ReadEvent, WriteEvent, Dispatch, Timeout, SetReadError
  <2>4. WriteHeaders \/ WriteItem => cur' = cur /\ (~window[cur] \/ pc \in {"retry", "wbody"})
    BY <1>2 DEF WriteHeaders, WriteItem, Full, InternalError, BodyDone, ResponseUnchanged
  <2>5. RetryBucket => cur' = cur /\ pc \in {"retry", "wbody"}
    BY DEF RetryBucket, ResponseUnchanged
  <2>7. ~FinishBody /\ ~SuspendWrite /\ ~SuspendAborts /\ ~EmptyIterator /\ ~ClosedClient
    BY <1>2 DEF FinishBody, BodyDone, SuspendWrite, SuspendAborts, EmptyIterator,
         ClosedClient, Crash
  <2>6. Stop \/ UNCHANGED vars => UNCHANGED <<pc, cur>>
    BY DEF Stop
  <2> QED
    BY <2>1, <2>2, <2>3, <2>4, <2>5, <2>6, <2>7 DEF Next, Callback, Respond
<1>3. ASSUME NEW f \in Fds, At(f, {"suspend", "retry", "wbody"})'
      PROVE  \/ ~window[f] \/ reg[f].ev = "write"
             \/ At(f, {"suspend", "retry", "wbody"})
  <2>1. pc' \in {"suspend", "retry", "wbody"} /\ cur' = f
    BY <1>3 DEF At
  <2> QED
    BY <1>2, <2>1 DEF At
<1> QED
  BY <1>1, <1>3

LEMMA StallOldKept ==
  ASSUME IInv, [Next]_vars, \A f \in Fds : StallOK(f)
  PROVE  \A f \in Fds : (~window[f] \/ reg[f].ev = "write" \/ At(f, {"suspend", "retry", "wbody"}))'
                          => script'[f].stalled
<1> DEFINE W(f) == ~window[f] \/ reg[f].ev = "write" \/ At(f, {"suspend", "retry", "wbody"})
<1>1. SUFFICES ASSUME NEW f \in Fds, W(f)' PROVE script'[f].stalled
  OBVIOUS
<1>2. W(f) => script[f].stalled
  BY DEF StallOK
<1>3. CASE ~\E d \in Fds : Peer(d)
  <2>1. W(f)
    BY <1>1, <1>3, PeersOnly, WaitSteps DEF At
  <2> QED
    BY <1>2, <1>3, <2>1, PeersOnly
<1>4. ASSUME NEW d \in Fds, Peer(d) PROVE script'[f].stalled
  <2>1. UNCHANGED <<reg, pc, cur, mem>>
    BY <1>4, PeerLeaves
  <2>2. script \in [Fds -> ScriptType] /\ window \in [Fds -> BOOLEAN]
    BY DEF IInv, DataInv, PeerTypes
  <2>3. CASE window'[f] /\ reg'[f].ev # "write"
    <3>1. At(f, Working)
      BY <1>1, <2>1, <2>3 DEF At, Working
    <3>2. W(f)
      BY <1>1, <2>1, <2>3 DEF At
    <3> QED
      BY <1>2, <1>4, <3>1, <3>2, PeerLeaves
  <2>4. CASE reg'[f].ev = "write"
    <3>1. mem[f] # 0
      BY <2>1, <2>4 DEF IInv, WatchInv, AllocOK
    <3> QED
      BY <1>2, <1>4, <2>1, <2>4, <3>1, PeerLeaves
  <2>5. CASE ~window'[f]
    <3>1. CASE PeerConnect(d)
      <4>1. f # d /\ window'[f] = window[f]
        BY <2>2, <2>5, <3>1 DEF PeerConnect
      <4> QED
        BY <1>2, <1>4, <2>5, <4>1, PeerLeaves
    <3>2. CASE PeerStall(d)
      <4>1. script' = [script EXCEPT ![d].stalled = TRUE] /\ window' = [window EXCEPT ![d] = FALSE]
        BY <3>2 DEF PeerStall
      <4> QED
        BY <1>2, <2>2, <2>5, <4>1 DEF ScriptType
    <3>3. CASE PeerSend(d)
      <4>1. PICK token \in TokenType, v \in ScriptType : Sends(d, token, v)
        BY <3>3, SendEffect
      <4>2. script' = [script EXCEPT ![d] = v] /\ v.stalled = script[d].stalled /\ window' = window
        BY <3>3, <4>1 DEF Sends, Put, PeerSend
      <4> QED
        BY <1>2, <2>2, <2>5, <4>2
    <3>4. CASE PeerEof(d) \/ PeerReset(d) \/ PeerDrain(d)
      BY <1>2, <2>2, <2>5, <3>4 DEF PeerEof, PeerReset, PeerDrain
    <3> QED
      BY <1>4, <3>1, <3>2, <3>3, <3>4 DEF Peer
  <2> QED
    BY <2>3, <2>4, <2>5
<1> QED
  BY <1>3, <1>4

LEMMA OldSent ==
  ASSUME IInv, [Next]_vars, \A f \in Fds : StallOK(f)
  PROVE  \A f \in Fds : OldIn(inbox'[f]) => script'[f].old
<1>1. /\ inbox \in [Fds -> Seq(TokenType)] /\ script \in [Fds -> ScriptType] /\ cur \in Fds
      /\ \A f \in Fds : OldIn(inbox[f]) => script[f].old
  BY Shapes DEF StallOK
<1>2. ~OldIn(<<>>)
  BY DEF OldIn
<1>3. CASE UNCHANGED <<inbox, script>>
  BY <1>1, <1>3
<1>4. CASE ReadRequest
  <2>1. CASE UNCHANGED inbox
    BY <1>1, <1>4, <2>1 DEF ReadRequest
  <2>2. ASSUME NEW n \in 1..Len(inbox[cur]),
               inbox' = [inbox EXCEPT ![cur] = SubSeq(@, n + 1, Len(@))]
        PROVE  \A f \in Fds : OldIn(inbox'[f]) => script'[f].old
    <3>1. inbox'[cur] = SubSeq(inbox[cur], n + 1, Len(inbox[cur])) /\ script' = script
          /\ \A f \in Fds \ {cur} : inbox'[f] = inbox[f]
      BY <1>1, <1>4, <2>2 DEF ReadRequest
    <3>2. OldIn(SubSeq(inbox[cur], n + 1, Len(inbox[cur]))) => OldIn(inbox[cur])
      BY <1>1, SplitTokens
    <3> QED
      BY <1>1, <3>1, <3>2
  <2> QED
    BY <1>4, <2>1, <2>2 DEF ReadRequest
<1>5. CASE CloseConnection
  <2>1. inbox' = [inbox EXCEPT ![cur] = <<>>] /\ script' = script
    BY <1>5 DEF CloseConnection
  <2> QED
    BY <1>1, <1>2, <2>1
<1>6. ASSUME NEW d \in Fds, Peer(d) PROVE \A f \in Fds : OldIn(inbox'[f]) => script'[f].old
  <2>1. CASE PeerConnect(d)
    <3>1. inbox' = [inbox EXCEPT ![d] = <<>>] /\ script' = [script EXCEPT ![d] = NewScript]
      BY <2>1 DEF PeerConnect
    <3> QED
      BY <1>1, <1>2, <3>1
  <2>2. CASE PeerSend(d)
    <3>1. PICK token \in TokenType, v \in ScriptType : Sends(d, token, v)
      BY <2>2, SendEffect
    <3>2. /\ inbox'[d] = Append(inbox[d], token) /\ script'[d] = v
          /\ \A f \in Fds \ {d} : inbox'[f] = inbox[f] /\ script'[f] = script[f]
          /\ script[d].old \/ (token.t = "head" /\ token.h.minor = 0) => v.old
      BY <1>1, <3>1 DEF Sends, Put
    <3>3. OldIn(Append(inbox[d], token)) => OldIn(inbox[d]) \/ (token.t = "head" /\ token.h.minor = 0)
      BY <1>1, AppendTokens
    <3> QED
      BY <1>1, <3>2, <3>3
  <2>3. CASE PeerEof(d) \/ PeerReset(d) \/ PeerDrain(d)
    BY <1>1, <2>3 DEF PeerEof, PeerReset, PeerDrain
  <2>4. CASE PeerStall(d)
    <3>1. inbox' = inbox /\ script' = [script EXCEPT ![d].stalled = TRUE]
      BY <2>4 DEF PeerStall
    <3>2. \A f \in Fds : script'[f].old = script[f].old
      BY <1>1, <3>1 DEF ScriptType
    <3> QED
      BY <1>1, <3>1, <3>2
  <2> QED
    BY <1>6, <2>1, <2>2, <2>3, <2>4 DEF Peer
<1> QED
  BY <1>3, <1>4, <1>5, <1>6, InputSteps

LEMMA OldRead ==
  ASSUME IInv, ServeInv, [Next]_vars, \A f \in Fds : StallOK(f), pc' = "parse", OldIn(buf')
  PROVE  script'[cur'].old
<1>1. /\ inbox \in [Fds -> Seq(TokenType)] /\ cur \in Fds /\ buf \in Seq(TokenType)
      /\ OldIn(inbox[cur]) \/ (pc = "parse" /\ OldIn(buf)) => script[cur].old
  BY Fetch, Shapes DEF IInv, DataInv, DataTypes, StallOK, At
<1>2. CASE UNCHANGED <<pc, cur, cli, parseVars, inbox, script, reqs>>
  BY <1>1, <1>2
<1>3. CASE ReadRequest
  <2>1. PICK n \in 1..Len(inbox[cur]) :
          buf' = SubSeq(inbox[cur], 1, n) /\ script' = script /\ cur' = cur
    BY <1>3 DEF ReadRequest, SetReadError
  <2>2. OldIn(buf') => OldIn(inbox[cur])
    BY <1>1, <2>1, SplitTokens
  <2> QED
    BY <1>1, <2>1, <2>2
<1>4. CASE MessageBegin \/ HeadersComplete \/ BodyComplete \/ ParseBlank \/ ParseError
  <2>1. /\ pc = "parse" /\ cur' = cur /\ script' = script /\ buf # <<>>
        /\ buf' = buf \/ buf' = Tail(buf)
    BY <1>4, ParsedBuffer
  <2>2. OldIn(buf') => OldIn(buf)
    BY <1>1, <2>1, TailTokens
  <2> QED
    BY <1>1, <2>1, <2>2
<1>5. ASSUME NEW d \in Fds, Peer(d) PROVE script'[cur'].old
  <2>1. UNCHANGED <<pc, cur, buf>>
    BY <1>5, PeerLeaves
  <2>2. At(cur, Working)
    BY <2>1 DEF At, Working
  <2> QED
    BY <1>1, <1>5, <2>1, <2>2, PeerLeaves
<1> QED
  BY <1>2, <1>3, <1>4, <1>5, ParseSteps

LEMMA NextStall ==
  ASSUME IInv, ServeInv, [Next]_vars, \A f \in Fds : StallOK(f)
  PROVE  \A f \in Fds : StallOK(f)'
<1>1. \A f \in Fds : OldIn(inbox[f])' <=> OldIn(inbox'[f])
  BY DEF OldIn
<1>2. OldIn(buf)' <=> OldIn(buf')
  BY DEF OldIn
<1>3. \A f \in Fds : At(f, {"parse"})' => pc' = "parse" /\ cur' = f
  BY DEF At
<1> QED
  BY <1>1, <1>2, <1>3, StallOldKept, OldSent, OldRead DEF StallOK

-----------------------------------------------------------------------------
(* HeadOK: a client of HTTP/1.1 that serves a request has parsed a head.   *)

\* http_minor is 0 on a connection that never spoke HTTP/1.0.
Headless(f) == mem[f] # 0 /\ cli[f].minor = 0 /\ ~script[f].old

LEMMA StillHead ==
  ASSUME NEW f \in Fds, HeadOK(f), Still(f)
  PROVE  HeadOK(f)'
<1>1. \A P : ~At(f, P)' /\ ~Started(f)'
  BY DEF Still, Alone, At, Started
<1> QED
  BY <1>1 DEF Still, Alone, HeadOK

LEMMA ApartHead ==
  ASSUME \A f \in Fds : HeadOK(f), Apart, NEW d \in Fds, cur' = d, HeadOK(d)'
  PROVE  \A f \in Fds : HeadOK(f)'
<1>1. ASSUME NEW f \in Fds, f # d PROVE HeadOK(f)'
  BY <1>1, StillHead DEF Apart
<1> QED
  BY <1>1

\* A step that goes to a place where a client that parsed no head may be, and
\* changes neither the parser nor the queue.
LEMMA QuietHead ==
  ASSUME NEW d \in Fds, HeadOK(d), cur' = d,
         Headless(d)' => Headless(d),
         cli'[d].complete = cli[d].complete, cli'[d].parser = cli[d].parser,
         cli'[d].queue = cli[d].queue,
         reg'[d].ev = "write" => reg[d].ev = "write",
         pc' \in {"loop", "accept", "register", "read", "parse", "return", "stopped", "raised",
                  "crashed"}
           \/ (pc' = "close" /\ At(d, {"page"}))
  PROVE  HeadOK(d)'
<1>1. SUFFICES ASSUME Headless(d)' PROVE HeadOK(d)'
  BY DEF Headless, HeadOK
<1>2. Headless(d)
  BY <1>1
<1> QED
  BY <1>2 DEF HeadOK, Headless, At, Started

\* A step on a client that has parsed a head, and keeps http_minor.
LEMMA HeadedKept ==
  ASSUME NEW d \in Fds, cur' = d, ~Headless(d), mem'[d] # 0 => mem[d] # 0,
         cli'[d].minor = cli[d].minor, script'[d] = script[d]
  PROVE  HeadOK(d)'
BY DEF Headless, HeadOK

LEMMA PeerHead ==
  ASSUME IInv, NEW d \in Fds, Peer(d), \A f \in Fds : HeadOK(f)
  PROVE  \A f \in Fds : HeadOK(f)'
<1>1. UNCHANGED <<reqs, mem, cli, reg, pc, cur, me>>
  BY PeerLeaves
<1>2. ASSUME NEW f \in Fds, mem[f] # 0, ~script'[f].old PROVE ~script[f].old
  BY <1>2, PeerLeaves
<1> QED
  BY <1>1, <1>2 DEF HeadOK, At, Started

LEMMA ControlHead ==
  ASSUME IInv, ServeInv, \A f \in Fds : HeadOK(f),
         \/ LoopExit \/ AcceptEvent \/ AcceptDone \/ Register \/ Return
         \/ \E d \in Fds : ReadEvent(d) \/ WriteEvent(d)
  PROVE  \A f \in Fds : HeadOK(f)'
<1>1. Apart /\ UNCHANGED <<cli, reqs, mem, script>>
  BY ControlApart
<1>2. PICK d \in Fds :
        /\ cur' = d
        /\ \/ pc' \in {"stopped", "accept", "loop", "read"}
           \/ pc' = "retry" /\ reg[d].ev = "write"
           \/ pc = "return" /\ pc' = "start" /\ nested > 0 /\ d = cur /\ me' = me
        /\ reg' = reg \/ (d = cur /\ pc = "register" /\ reg' = [reg EXCEPT ![cur] = Watch("read", me)])
  BY Shapes DEF LoopExit, AcceptEvent, AcceptDone, Register, Return, ReadEvent, WriteEvent, Dispatch
<1>3. reg'[d].ev = "write" => reg[d].ev = "write"
  BY <1>2, Shapes
<1>4. HeadOK(d)'
  <2>1. CASE pc' \in {"stopped", "accept", "loop", "read"}
    BY <1>1, <1>2, <1>3, <2>1, QuietHead DEF Headless
  <2>2. CASE reg[d].ev = "write"
    <3>1. ~Headless(d)
      BY <2>2 DEF HeadOK, Headless
    <3> QED
      BY <1>1, <1>2, <3>1, HeadedKept
  <2>3. CASE pc = "return" /\ pc' = "start" /\ nested > 0 /\ d = cur /\ me' = me
    <3>1. ~Started(d)'
      BY <1>1, <1>2, <2>3 DEF ServeInv, NestOK, Started
    <3> QED
      BY <1>1, <1>2, <1>3, <2>3, <3>1 DEF HeadOK, At
  <2> QED
    BY <1>2, <2>1, <2>2, <2>3
<1> QED
  BY <1>1, <1>2, <1>4, ApartHead

LEMMA AcceptHead ==
  ASSUME IInv, NEW d \in Fds, Accept(d), \A f \in Fds : HeadOK(f)
  PROVE  \A f \in Fds : HeadOK(f)'
<1>1. cur' = d /\ pc' = "read" /\ UNCHANGED <<reg, script>> /\ pc = "accept"
  BY DEF Accept
<1>2. /\ \A f \in Fds \ {d} : Still(f)
      /\ cli'[d] = NewClient(FALSE)
  BY Shapes DEF Accept, Still, Alone
<1>3. reg[d].ev # "write"
  BY DEF Accept, IInv, WatchInv, AllocOK
<1>4. HeadOK(d)'
  BY <1>1, <1>2, <1>3 DEF HeadOK, NewClient, Started, At
<1> QED
  BY <1>2, <1>4, StillHead

LEMMA AcceptFailsHead ==
  ASSUME NEW d \in Fds, AcceptFails(d), \A f \in Fds : HeadOK(f)
  PROVE  \A f \in Fds : HeadOK(f)'
<1>1. pc' = "loop" /\ UNCHANGED <<cli, reqs, mem, script, reg>>
  BY DEF AcceptFails
<1> QED
  BY <1>1 DEF HeadOK, At, Started

\* set_read_error marks the one request of such a client, or answers it.
LEMMA ReadErrorHead ==
  ASSUME IInv, NEW d \in Fds, NEW c \in ClientType, NEW code \in Codes,
         SetReadError(d, c, code), HeadOK(d), cur' = d,
         c.queue = cli[d].queue, c.complete = cli[d].complete, c.parser = cli[d].parser,
         c.minor = cli[d].minor, UNCHANGED <<mem, script>>,
         reg'[d].ev = "write" => reg[d].ev = "write"
  PROVE  HeadOK(d)'
<1> DEFINE status == IF code = 0 THEN 400 ELSE code
           q == c.queue
           i == Last(q)
           rs == [reqs[d] EXCEPT ![i].bad = status]
           c1 == [c EXCEPT !.keep_alive = FALSE]
           c2 == [c EXCEPT !.keep_alive = FALSE, !.status = status]
<1>1. status > 200
  BY DEF Codes
<1>2. /\ q \in Seq(Ids) /\ reqs[d] \in Seq(RequestType) /\ reqs \in [Fds -> Seq(RequestType)]
      /\ cli \in [Fds -> ClientType]
      /\ \A j \in DOMAIN q : q[j] <= Len(reqs[d])
  BY Pointers, Shapes DEF Points
<1>3. \/ q # <<>> /\ reqs' = [reqs EXCEPT ![d] = rs] /\ cli' = [cli EXCEPT ![d] = c1] /\ pc' = "finish"
      \/ q = <<>> /\ cli' = [cli EXCEPT ![d] = c2] /\ pc' = "page" /\ UNCHANGED reqs
  BY DEF SetReadError
<1>4. \A n \in {c1, c2} : /\ n.queue = q /\ n.complete = c.complete /\ n.parser = c.parser
                          /\ n.minor = c.minor
  <2> HIDE DEF status
  <2> QED
    BY DEF ClientType
<1>5. SUFFICES ASSUME Headless(d)' PROVE HeadOK(d)'
  BY DEF Headless, HeadOK
<1>6. cli'[d] \in {c1, c2}
  BY <1>2, <1>3
<1>7. Headless(d)
  BY <1>4, <1>5, <1>6 DEF Headless
<1>8. /\ ~c.complete /\ c.parser \in {"start", "head"} /\ reg'[d].ev # "write"
      /\ q # <<>> => c.parser = "head" /\ Len(q) = 1
  BY <1>7 DEF HeadOK, Headless
<1>9. CASE q # <<>> /\ reqs' = [reqs EXCEPT ![d] = rs] /\ pc' = "finish"
  <2>1. Head(q) = i /\ i \in DOMAIN reqs[d]
    <3> HIDE DEF q
    <3>1. Len(q) = 1 /\ q[1] \in Ids /\ q[1] <= Len(reqs[d])
      BY <1>2, <1>8, <1>9
    <3> QED
      BY <1>2, <3>1 DEF Last, Ids
  <2>2. reqs'[d][i].bad = status
    <3> HIDE DEF i, status
    <3>1. reqs[d][i] \in RequestType
      BY <1>2, <2>1
    <3>2. [reqs[d][i] EXCEPT !.bad = status].bad = status
      BY <3>1 DEF RequestType
    <3> QED
      BY <1>2, <1>9, <2>1, <3>2
  <2>3. cli'[d].queue = q
    BY <1>4, <1>6
  <2> HIDE DEF c1, c2, status, q, i, rs
  <2>4. reqs'[d][Head(cli'[d].queue)].bad > 200
    BY <1>1, <2>1, <2>2, <2>3
  <2> QED
    BY <1>4, <1>6, <1>8, <1>9, <2>3, <2>4 DEF HeadOK, At, Started
<1>10. CASE q = <<>> /\ pc' = "page"
  <2> HIDE DEF c1, c2, status, q, i, rs
  <2> QED
    BY <1>4, <1>6, <1>8, <1>10 DEF HeadOK, At, Started
<1> QED
  BY <1>3, <1>9, <1>10

LEMMA TimeoutHead ==
  ASSUME IInv, NEW d \in Fds, Timeout(d), \A f \in Fds : HeadOK(f)
  PROVE  \A f \in Fds : HeadOK(f)'
<1>1. /\ cur' = d /\ reg' = [reg EXCEPT ![d].armed = FALSE] /\ pc = "loop"
      /\ UNCHANGED <<mem, script>>
  BY DEF Timeout
<1>2. /\ \A f \in Fds \ {d} : Still(f)
      /\ \/ reg[d].ev = "read" /\ SetReadError(d, cli[d], 408)
         \/ reg[d].ev = "write" /\ cli' = [cli EXCEPT ![d].keep_alive = FALSE]
  <2>1. /\ UNCHANGED <<wire, calls, mem, peer, sock, inbox, script>>
        /\ \A f \in Fds \ {d} : reg'[f].ev = reg[f].ev
    BY Shapes DEF Timeout
  <2>2. CASE reg[d].ev = "read" /\ SetReadError(d, cli[d], 408)
    <3>1. \A f \in Fds \ {d} : cli'[f] = cli[f] /\ reqs'[f] = reqs[f]
      BY <2>2, Shapes DEF SetReadError
    <3> QED
      BY <1>1, <2>1, <2>2, <3>1 DEF Still, Alone
  <2>3. CASE reg[d].ev = "write" /\ cli' = [cli EXCEPT ![d].keep_alive = FALSE] /\ UNCHANGED reqs
    <3>1. \A f \in Fds \ {d} : cli'[f] = cli[f] /\ reqs'[f] = reqs[f]
      BY <2>3, Shapes
    <3> QED
      BY <1>1, <2>1, <2>3, <3>1 DEF Still, Alone
  <2> QED
    BY <2>2, <2>3 DEF Timeout
<1>3. HeadOK(d)'
  <2>1. CASE reg[d].ev = "read" /\ SetReadError(d, cli[d], 408)
    <3>1. reg'[d].ev = reg[d].ev /\ cli[d] \in ClientType /\ 408 \in Codes
      BY <1>1, Shapes DEF RegType, Codes
    <3> QED
      BY <1>1, <2>1, <3>1, ReadErrorHead
  <2>2. CASE reg[d].ev = "write" /\ cli' = [cli EXCEPT ![d].keep_alive = FALSE]
    <3>1. ~Headless(d)
      BY <2>2 DEF HeadOK, Headless
    <3>2. cli'[d].minor = cli[d].minor
      BY <2>2, Shapes DEF ClientType
    <3> QED
      BY <1>1, <3>1, <3>2, HeadedKept
  <2> QED
    BY <1>2, <2>1, <2>2
<1> QED
  BY <1>2, <1>3, StillHead

LEMMA ReadRequestHead ==
  ASSUME IInv, ReadRequest, \A f \in Fds : HeadOK(f)
  PROVE  HeadOK(cur)'
<1> DEFINE k == cli[cur]
           c == [k EXCEPT !.header_done = TRUE, !.response_closed = TRUE]
<1>1. /\ cur \in Fds /\ cur' = cur /\ UNCHANGED <<mem, script>>
      /\ k \in ClientType
  BY Fetch DEF ReadRequest
<1>2. reg'[cur].ev = reg[cur].ev
  BY Shapes DEF ReadRequest, Rearm, RegType
<1>3. /\ c \in ClientType /\ c.queue = k.queue /\ c.complete = k.complete
      /\ c.parser = k.parser /\ c.minor = k.minor
  <2> HIDE DEF k
  <2> QED
    BY <1>1 DEF ClientType
<1>4. \/ UNCHANGED cli /\ pc' \in {"parse", "register", "return"}
      \/ SetReadError(cur, k, 503) \/ SetReadError(cur, c, 500)
  BY DEF ReadRequest
<1>5. 500 \in Codes /\ 503 \in Codes
  BY DEF Codes
<1>6. PICK d \in Fds : d = cur
  BY <1>1
<1>7. HeadOK(d)'
  <2>1. CASE UNCHANGED cli /\ pc' \in {"parse", "register", "return"}
    BY <1>1, <1>2, <1>6, <2>1, QuietHead DEF Headless
  <2>2. CASE SetReadError(cur, k, 503)
    <3>1. SetReadError(d, k, 503) /\ k = cli[d]
      BY <1>6, <2>2
    <3> HIDE DEF k
    <3> QED
      BY <1>1, <1>2, <1>5, <1>6, <3>1, ReadErrorHead
  <2>3. CASE SetReadError(cur, c, 500)
    <3>1. SetReadError(d, c, 500) /\ k = cli[d]
      BY <1>6, <2>3
    <3> HIDE DEF k, c
    <3> QED
      BY <1>1, <1>2, <1>3, <1>5, <1>6, <3>1, ReadErrorHead
  <2> QED
    BY <1>4, <2>1, <2>2, <2>3
<1> QED
  BY <1>1, <1>6, <1>7 DEF HeadOK, At, Started

LEMMA ParseDoneHead ==
  ASSUME IInv, ParseDone, \A f \in Fds : HeadOK(f)
  PROVE  HeadOK(cur)'
<1> DEFINE k == cli[cur]
           code == IF k.current = 0 THEN 400 ELSE reqs[cur][k.current].bad
<1>1. /\ cur \in Fds /\ cur' = cur /\ UNCHANGED <<mem, script, reg>> /\ k \in ClientType
  BY Fetch DEF ParseDone
<1>2. \/ SetReadError(cur, k, code)
      \/ UNCHANGED cli /\ (k.complete \/ pc' \in {"register", "return"})
         /\ pc' \in {"finish", "register", "return"}
  BY DEF ParseDone
<1>3. code \in Codes
  <2>1. k.current \in Nat /\ k.current <= Len(reqs[cur]) /\ reqs[cur] \in Seq(RequestType)
    BY <1>1, Pointers, ClientFields DEF Points
  <2>2. k.current # 0 => reqs[cur][k.current] \in RequestType
    <3> HIDE DEF k
    <3> QED
      BY <2>1
  <2> HIDE DEF k
  <2> QED
    BY <2>2 DEF RequestType, Codes
<1>4. PICK d \in Fds : d = cur
  BY <1>1
<1>5. HeadOK(d)'
  <2>1. CASE SetReadError(cur, k, code)
    <3>1. SetReadError(d, k, code) /\ k = cli[d]
      BY <1>4, <2>1
    <3> HIDE DEF k, code
    <3> QED
      BY <1>1, <1>3, <1>4, <3>1, ReadErrorHead
  <2>2. CASE UNCHANGED cli /\ pc' \in {"register", "return"}
    BY <1>1, <1>4, <2>2, QuietHead DEF Headless
  <2>3. CASE UNCHANGED cli /\ k.complete
    <3>1. ~Headless(d)
      BY <1>4, <2>3 DEF HeadOK, Headless
    <3> QED
      BY <1>1, <1>4, <2>3, <3>1, HeadedKept
  <2> QED
    BY <1>2, <2>1, <2>2, <2>3
<1> QED
  BY <1>1, <1>4, <1>5 DEF HeadOK, At, Started

LEMMA MessageBeginHead ==
  ASSUME IInv, MessageBegin, \A f \in Fds : HeadOK(f)
  PROVE  HeadOK(cur)'
<1> DEFINE k == cli[cur]
           id == Len(reqs[cur]) + 1
           q == Append(k.queue, id)
           c == [k EXCEPT !.current = id, !.complete = FALSE, !.parser = "head", !.queue = q]
<1>1. /\ cur \in Fds /\ k \in ClientType /\ k.queue \in Seq(Ids) /\ cli \in [Fds -> ClientType]
  BY Fetch, Pointers
<1>2. /\ cur' = cur /\ UNCHANGED <<mem, script, reg>> /\ pc' = "parse"
      /\ k.parser = "start" /\ cli' = [cli EXCEPT ![cur] = c]
  BY DEF MessageBegin, ParserUnchanged, Parsing, Client
<1>3. /\ c.minor = k.minor /\ c.complete = FALSE /\ c.parser = "head" /\ c.queue = q
  <2> HIDE DEF k, id, q
  <2> QED
    BY <1>1 DEF ClientType
<1>4. k.queue = <<>> => Len(q) = 1
  BY <1>1
<1>5. Headless(cur) => k.queue = <<>> /\ reg[cur].ev # "write"
  BY <1>1, <1>2 DEF HeadOK, Headless
<1>6. cli'[cur] = c
  BY <1>1, <1>2
<1> HIDE DEF c, k, q
<1> QED
  BY <1>2, <1>3, <1>4, <1>5, <1>6 DEF HeadOK, Headless, At, Started, k

LEMMA HeadersCompleteHead ==
  ASSUME IInv, HeadersComplete, \A f \in Fds : StallOK(f)
  PROVE  HeadOK(cur)'
<1> DEFINE k == cli[cur]
           h == Head(buf).h
           ka == h.ka
           minor == h.minor
           c == [k EXCEPT !.keep_alive = ka, !.minor = minor]
           c1 == [c EXCEPT !.parser = "body"]
           parser == NewMessage(c)
           c2 == [c EXCEPT !.parser = parser, !.complete = TRUE]
<1>1. /\ cur \in Fds /\ k \in ClientType /\ cli \in [Fds -> ClientType] /\ buf \in Seq(TokenType)
  BY Fetch DEF IInv, DataInv, DataTypes
<1>2. /\ cur' = cur /\ UNCHANGED script /\ pc = "parse" /\ buf # <<>> /\ Head(buf).t = "head"
      /\ cli' = [cli EXCEPT ![cur] = c] \/ cli' = [cli EXCEPT ![cur] = c1]
           \/ cli' = [cli EXCEPT ![cur] = c2]
  BY DEF HeadersComplete, ParserUnchanged, Parsing, Client
<1>3. c.minor = minor /\ c1.minor = minor /\ c2.minor = minor
  <2>1. c.minor = minor /\ DOMAIN c = DOMAIN k /\ "minor" \in DOMAIN k
    <3> HIDE DEF k, ka, minor
    <3> QED
      BY <1>1 DEF ClientType
  <2> HIDE DEF c, parser, minor
  <2> QED
    BY <2>1
<1>4. cli'[cur].minor = minor
  <2>1. cli'[cur] \in {c, c1, c2}
    BY <1>1, <1>2
  <2> HIDE DEF c, c1, c2, minor
  <2> QED
    BY <1>3, <2>1
<1>5. minor = 0 => script[cur].old
  <2>1. minor = 0 => OldIn(buf)
    BY <1>1, <1>2, TailTokens
  <2> QED
    BY <1>1, <1>2, <2>1 DEF StallOK, At
<1> HIDE DEF minor
<1> QED
  BY <1>2, <1>4, <1>5 DEF HeadOK

LEMMA ParseHead ==
  ASSUME IInv, Parse, \A f \in Fds : StallOK(f) /\ HeadOK(f)
  PROVE  HeadOK(cur)'
<1>1. PICK d \in Fds : d = cur
  BY Fetch
<1>2. CASE BodyComplete
  <2>1. ~Headless(d)
    BY <1>1, <1>2 DEF BodyComplete, HeadOK, Headless
  <2>2. cli'[d].minor = cli[d].minor
    <3> DEFINE k == cli[d]
               parser == NewMessage(k)
               c == [k EXCEPT !.parser = parser, !.complete = TRUE]
    <3>1. cli' = cli \/ cli' = [cli EXCEPT ![d] = c]
      BY <1>1, <1>2 DEF BodyComplete, Client
    <3>2. k \in ClientType /\ cli \in [Fds -> ClientType]
      BY Shapes
    <3>3. c.minor = k.minor
      <4> HIDE DEF k, parser
      <4> QED
        BY <3>2 DEF ClientType
    <3> HIDE DEF c
    <3> QED
      BY <3>1, <3>2, <3>3
  <2>3. cur' = d /\ UNCHANGED <<mem, script>>
    BY <1>1, <1>2 DEF BodyComplete, ParserUnchanged
  <2>4. HeadOK(d)'
    BY <2>1, <2>2, <2>3, HeadedKept
  <2> QED
    BY <1>1, <2>3, <2>4 DEF HeadOK, At, Started
<1>3. CASE ParseBlank \/ ParseError \/ ParseNull
  <2>1. cur' = d /\ UNCHANGED <<mem, script, cli, reg>> /\ pc' \in {"parse", "crashed"}
    BY <1>1, <1>3 DEF ParseBlank, ParseError, ParseNull, ParserUnchanged, Parsing, Crash
  <2>2. HeadOK(d)'
    BY <2>1, QuietHead DEF Headless
  <2> QED
    BY <1>1, <2>1, <2>2 DEF HeadOK, At, Started
<1> QED
  BY <1>2, <1>3, ParseDoneHead, MessageBeginHead, HeadersCompleteHead DEF Parse

LEMMA FinishHead ==
  ASSUME IInv, Finish, \A f \in Fds : HeadOK(f)
  PROVE  HeadOK(cur)'
<1> DEFINE k == cli[cur]
           q == k.queue
           id == Head(q)
           code == reqs[cur][id].bad
           rest == Tail(q)
           c == [k EXCEPT !.current = id, !.queue = rest, !.status = code]
<1>1. /\ cur \in Fds /\ k \in ClientType /\ q \in Seq(Ids) /\ q # <<>>
      /\ \A i \in DOMAIN q : q[i] <= Len(reqs[cur])
      /\ reqs[cur] \in Seq(RequestType) /\ cli \in [Fds -> ClientType] /\ reg \in [Fds -> RegType]
  BY Fetch, Pointers, Shapes DEF Points, Finish, IInv, DataInv, RefsOK
<1>2. /\ cur' = cur /\ UNCHANGED <<mem, script>> /\ pc = "finish"
      /\ reg' = reg \/ reg' = [reg EXCEPT ![cur] = NoReg]
      /\ \/ Client(c) /\ pc' = "page"
         \/ code <= 200 /\ pc' = "prepare" /\ UNCHANGED cli
  BY DEF Finish
<1>3. code \in Nat
  <2>1. id \in DOMAIN reqs[cur]
    <3> HIDE DEF q
    <3>1. 1 \in DOMAIN q /\ Head(q) = q[1]
      BY <1>1
    <3>2. id \in Ids /\ id <= Len(reqs[cur])
      <4> DEFINE first == q[1]
      <4>1. first \in Ids /\ first <= Len(reqs[cur])
        BY <1>1, <3>1
      <4> QED
        BY <3>1, <4>1
    <3> HIDE DEF id
    <3> QED
      BY <1>1, <3>2 DEF Ids
  <2>2. reqs[cur][id] \in RequestType
    <3> HIDE DEF id
    <3> QED
      BY <1>1, <2>1
  <2> QED
    BY <2>2 DEF RequestType, Codes
<1>4. reg'[cur].ev = "write" => reg[cur].ev = "write"
  BY <1>1, <1>2 DEF NoReg
<1>5. CASE code <= 200 /\ pc' = "prepare" /\ UNCHANGED cli
  <2>1. Headless(cur) => code > 200
    BY <1>1, <1>2 DEF HeadOK, Headless, At
  <2>2. ~Headless(cur)
    <3> HIDE DEF code
    <3> QED
      BY <1>3, <1>5, <2>1
  <2> QED
    BY <1>2, <1>5, <2>2 DEF HeadOK, Headless
<1>6. CASE Client(c) /\ pc' = "page"
  <2>1. /\ c.minor = k.minor /\ c.complete = k.complete /\ c.parser = k.parser
        /\ c.queue = rest
    <3> HIDE DEF k, id, rest, code
    <3> QED
      BY <1>1 DEF ClientType
  <2>2. Headless(cur) => /\ Len(q) = 1 /\ ~k.complete /\ k.parser \in {"start", "head"}
                         /\ reg[cur].ev # "write"
    BY <1>1 DEF HeadOK, Headless
  <2>3. Len(q) = 1 => rest = <<>>
    <3>1. rest \in Seq(Ids) /\ (Len(q) = 1 => Len(rest) = 0)
      <4> HIDE DEF q
      <4> QED
        BY <1>1
    <3> HIDE DEF rest
    <3> QED
      BY <3>1
  <2>4. cli'[cur] = c
    BY <1>1, <1>6 DEF Client
  <2> HIDE DEF c, rest, q
  <2> QED
    BY <1>2, <1>4, <1>6, <2>1, <2>2, <2>3, <2>4 DEF HeadOK, Headless, At, Started, k
<1> QED
  BY <1>2, <1>5, <1>6

\* http_minor is set by the parser alone, for a client that lives.
LEMMA MinorServed ==
  ASSUME IInv, PrepareCallRack \/ ProcessRackApp \/ SendErrorPage \/ CloseToNext
  PROVE  cli'[cur].minor = cli[cur].minor
<1> DEFINE k == cli[cur]
<1>1. k \in ClientType /\ cli \in [Fds -> ClientType] /\ cur \in Fds
  BY Fetch
<1>2. CASE PrepareCallRack
  <2> DEFINE id == Head(k.queue)
             rest == Tail(k.queue)
             c == [k EXCEPT !.current = id, !.queue = rest]
             keep == c.keep_alive /\ IsKeepAlive
             C1(status) == [c EXCEPT !.keep_alive = FALSE, !.status = status]
             c2 == [c EXCEPT !.keep_alive = keep]
  <2>1. cli' = [cli EXCEPT ![cur] = c2] \/ \E status \in {417, 500} :
          cli' = [cli EXCEPT ![cur] = C1(status)]
    BY <1>2 DEF PrepareCallRack, Client
  <2>2. c.minor = k.minor /\ DOMAIN c = DOMAIN k /\ "minor" \in DOMAIN k
    <3> HIDE DEF k, id, rest
    <3> QED
      BY <1>1 DEF ClientType
  <2>3. c2.minor = k.minor /\ \A status : C1(status).minor = k.minor
    <3> HIDE DEF c, keep, k
    <3> QED
      BY <2>2
  <2> HIDE DEF c2, C1
  <2> QED
    BY <1>1, <2>1, <2>3
<1>3. CASE ProcessRackApp
  <2> DEFINE C(a) == [k EXCEPT !.status = a.status, !.response = a, !.iter = a.body]
  <2>1. cli' = cli \/ \E a \in Apps : cli' = [cli EXCEPT ![cur] = C(a)]
    BY <1>3 DEF ProcessRackApp, Client
  <2>2. \A a \in Apps : C(a).minor = k.minor
    <3> HIDE DEF k
    <3> QED
      BY <1>1 DEF ClientType
  <2> HIDE DEF C
  <2> QED
    BY <1>1, <2>1, <2>2
<1>4. CASE SendErrorPage
  <2> DEFINE c1 == [k EXCEPT !.keep_alive = FALSE, !.header_done = TRUE, !.response_closed = TRUE]
             c2 == [c1 EXCEPT !.status = 500]
  <2>1. cli' = cli \/ cli' = [cli EXCEPT ![cur] = c1] \/ cli' = [cli EXCEPT ![cur] = c2]
    BY <1>4 DEF SendErrorPage, Client
  <2>2. c1.minor = k.minor /\ c2.minor = k.minor
    <3> HIDE DEF k
    <3> QED
      BY <1>1 DEF ClientType
  <2> HIDE DEF c1, c2
  <2> QED
    BY <1>1, <2>1, <2>2
<1>5. CASE CloseToNext
  <2> DEFINE c == Cleaned(k)
  <2>1. cli' = [cli EXCEPT ![cur] = c]
    BY <1>5 DEF CloseToNext, Client
  <2>2. c.minor = k.minor
    <3> HIDE DEF k
    <3> QED
      BY <1>1 DEF ClientType, Cleaned
  <2> HIDE DEF c
  <2> QED
    BY <1>1, <2>1, <2>2
<1> QED
  BY <1>2, <1>3, <1>4, <1>5

LEMMA MinorWritten ==
  ASSUME IInv, WriteHeaders \/ WriteItem \/ FinishBody \/ RetryBucket
  PROVE  cli'[cur].minor = cli[cur].minor
<1> DEFINE k == cli[cur]
<1>1. k \in ClientType /\ cli \in [Fds -> ClientType] /\ cur \in Fds /\ k.iter \in Seq(Nat)
  BY Fetch, ClientFields
<1>2. CASE WriteHeaders
  <2>1. PICK n : Kept(n, cli[cur]) /\ cli' = [cli EXCEPT ![cur] = n]
    BY <1>2, WriteHeadersStep
  <2> QED
    BY <1>1, <2>1 DEF Kept
<1>3. CASE WriteItem
  <2> DEFINE len == Head(k.iter)
             rest == Tail(k.iter)
             c == [k EXCEPT !.iter = rest]
             b == Bucket(c, FALSE, len)
             sent == c.write_bytes + len
             status == IF pc = "body" THEN 500 ELSE c.status
             c1 == [c EXCEPT !.write_bytes = sent]
             c2 == [c1 EXCEPT !.response_closed = TRUE]
             c3 == [c EXCEPT !.bucket = b]
             c4 == [c EXCEPT !.bucket = b, !.status = status]
  <2>1. \E n \in {c1, c2, c3, c4} : cli' = [cli EXCEPT ![cur] = n]
    BY <1>3 DEF WriteItem, BodyDone, Client
  <2>2. c.minor = k.minor /\ DOMAIN c = DOMAIN k /\ "minor" \in DOMAIN k
    <3> HIDE DEF k, rest
    <3> QED
      BY <1>1 DEF ClientType
  <2>3. \A n \in {c1, c2, c3, c4} : n.minor = k.minor
    <3> HIDE DEF c, b, sent, status, k
    <3> QED
      BY <2>2
  <2> HIDE DEF c1, c2, c3, c4
  <2> QED
    BY <1>1, <2>1, <2>3
<1>4. CASE FinishBody
  <2> DEFINE c == [k EXCEPT !.response_closed = TRUE]
  <2>1. cli' = [cli EXCEPT ![cur] = c]
    BY <1>4 DEF FinishBody, BodyDone, Client
  <2>2. c.minor = k.minor
    <3> HIDE DEF k
    <3> QED
      BY <1>1 DEF ClientType
  <2> HIDE DEF c
  <2> QED
    BY <1>1, <2>1, <2>2
<1>5. CASE RetryBucket
  <2> DEFINE b == k.bucket
             total == b.len + (IF b.head THEN HeadLen ELSE 0)
             sent == k.write_bytes + total
             c1 == [k EXCEPT !.write_bytes = sent, !.bucket = NoBucket]
             c2 == [k EXCEPT !.bucket = NoBucket]
  <2>1. cli' = cli \/ cli' = [cli EXCEPT ![cur] = k] \/ cli' = [cli EXCEPT ![cur] = c1]
          \/ cli' = [cli EXCEPT ![cur] = c2]
    BY <1>5 DEF RetryBucket, Client
  <2>2. c1.minor = k.minor /\ c2.minor = k.minor
    <3> HIDE DEF k, sent
    <3> QED
      BY <1>1 DEF ClientType
  <2> HIDE DEF c1, c2
  <2> QED
    BY <1>1, <2>1, <2>2
<1> QED
  BY <1>2, <1>3, <1>4, <1>5

LEMMA ServeHead ==
  ASSUME IInv, Serve, \A f \in Fds : HeadOK(f)
  PROVE  HeadOK(cur)'
<1>1. cur \in Fds
  BY Fetch
<1>2. CASE PrepareCallRack \/ ProcessRackApp
  <2>1. cur' = cur /\ UNCHANGED <<mem, script>> /\ pc \in {"prepare", "app"}
    BY <1>2 DEF PrepareCallRack, ProcessRackApp
  <2>2. ~Headless(cur)
    BY <1>1, <2>1 DEF HeadOK, Headless, At
  <2>3. cli'[cur].minor = cli[cur].minor
    BY <1>2, MinorServed
  <2> QED
    BY <2>1, <2>2, <2>3 DEF HeadOK, Headless
<1>3. CASE SendErrorPage
  <2>1. cur' = cur /\ UNCHANGED <<mem, script, reg>> /\ pc = "page" /\ pc' = "close"
    BY <1>3 DEF SendErrorPage
  <2>2. /\ cli'[cur].complete = cli[cur].complete /\ cli'[cur].parser = cli[cur].parser
        /\ cli'[cur].queue = cli[cur].queue
    <3> DEFINE k == cli[cur]
               c1 == [k EXCEPT !.keep_alive = FALSE, !.header_done = TRUE, !.response_closed = TRUE]
               c2 == [c1 EXCEPT !.status = 500]
    <3>1. cli' = cli \/ cli' = [cli EXCEPT ![cur] = c1] \/ cli' = [cli EXCEPT ![cur] = c2]
      BY <1>3 DEF SendErrorPage, Client
    <3>2. \A c \in {c1, c2} : c.complete = k.complete /\ c.parser = k.parser /\ c.queue = k.queue
      <4>1. k \in ClientType
        BY Fetch
      <4>2. /\ c1 \in ClientType
            /\ c1.complete = k.complete /\ c1.parser = k.parser /\ c1.queue = k.queue
        <5> HIDE DEF k
        <5> QED
          BY <4>1 DEF ClientType
      <4> HIDE DEF k, c1
      <4> QED
        BY <4>2 DEF ClientType
    <3> HIDE DEF c1, c2
    <3> QED
      BY <3>1, <3>2, Fetch
  <2>3. cli'[cur].minor = cli[cur].minor
    BY <1>3, MinorServed
  <2>4. PICK d \in Fds : d = cur
    BY <1>1
  <2>5. HeadOK(d)'
    BY <2>1, <2>2, <2>3, <2>4, QuietHead DEF Headless, At
  <2> QED
    BY <2>1, <2>4, <2>5 DEF HeadOK, At, Started
<1> QED
  BY <1>2, <1>3, FinishHead DEF Serve

LEMMA RespondHead ==
  ASSUME IInv, Respond, \A f \in Fds : HeadOK(f)
  PROVE  HeadOK(cur)'
<1>1. cur' = cur /\ UNCHANGED <<mem, script, me>> /\ cur \in Fds
  BY RespondApart, Fetch
<1>2. CASE WriteHeaders \/ WriteItem \/ FinishBody \/ RetryBucket
  <2>1. ~Headless(cur)
    BY <1>1, <1>2 DEF HeadOK, Headless, At, Started, WriteHeaders, WriteItem, FinishBody, RetryBucket
  <2>2. cli'[cur].minor = cli[cur].minor
    BY <1>2, MinorWritten
  <2> QED
    BY <1>1, <2>1, <2>2 DEF HeadOK, Headless
<1>3. CASE SuspendWrite \/ SuspendAborts
  <2>1. ~Headless(cur) /\ cli' = cli
    BY <1>1, <1>3 DEF HeadOK, Headless, At, SuspendWrite, SuspendAborts, Crash
  <2> QED
    BY <1>1, <2>1 DEF HeadOK, Headless
<1>4. CASE EmptyIterator \/ ClosedClient
  <2>1. UNCHANGED <<cli, reg, reqs>> /\ pc' = "crashed"
    BY <1>4 DEF EmptyIterator, ClosedClient, Crash
  <2> QED
    BY <1>1, <2>1 DEF HeadOK, At, Started
<1> QED
  BY <1>2, <1>3, <1>4 DEF Respond

LEMMA CloseHead ==
  ASSUME IInv, Close, \A f \in Fds : HeadOK(f)
  PROVE  HeadOK(cur)'
<1>1. cur' = cur /\ UNCHANGED script /\ cur \in Fds /\ pc = "close"
  BY CloseApart, Fetch DEF Close, CloseAborts, CloseToNext, CloseConnection, KeepConnection, Closing
<1>2. CASE CloseAborts
  <2>1. UNCHANGED <<cli, reg, reqs, mem>> /\ pc' = "crashed"
    BY <1>2 DEF CloseAborts, Crash
  <2> QED
    BY <1>1, <2>1 DEF HeadOK, At, Started
<1>3. CASE CloseToNext
  <2>1. ~Headless(cur) /\ mem' = mem
    BY <1>1, <1>3 DEF HeadOK, Headless, At, CloseToNext
  <2>2. cli'[cur].minor = cli[cur].minor
    BY <1>3, MinorServed
  <2> QED
    BY <1>1, <2>1, <2>2 DEF HeadOK, Headless
<1>4. CASE CloseConnection
  BY <1>1, <1>4, Shapes DEF CloseConnection, HeadOK
<1>5. CASE KeepConnection
  <2>1. cli'[cur] = NewClient(TRUE) /\ reg'[cur].ev = "read" /\ pc' = "return"
    BY <1>1, <1>5, Shapes DEF KeepConnection, Client
  <2> QED
    BY <1>1, <2>1 DEF HeadOK, NewClient, At, Started
<1> QED
  BY <1>2, <1>3, <1>4, <1>5 DEF Close

LEMMA NextHead ==
  ASSUME IInv, ServeInv, [Next]_vars, \A f \in Fds : StallOK(f) /\ HeadOK(f)
  PROVE  \A f \in Fds : HeadOK(f)'
<1> DEFINE P == \A f \in Fds : HeadOK(f)'
<1>1. Stop \/ UNCHANGED vars => P
  BY DEF Stop, HeadOK, At, Started
<1>2. (\E d \in Fds : Peer(d) \/ Event(d)) \/ AcceptEvent \/ LoopExit \/ Return => P
  BY PeerHead, ControlHead, TimeoutHead DEF Event
<1>3. Accepting => P
  BY ControlHead, AcceptHead, AcceptFailsHead DEF Accepting
<1>4. ReadRequest \/ Parse \/ Serve \/ Respond \/ Close => P
  <2>1. SUFFICES ASSUME ReadRequest \/ Parse \/ Serve \/ Respond \/ Close PROVE P
    OBVIOUS
  <2>2. Apart /\ cur' = cur
    BY <2>1, ReadApart, ServeApart, RespondApart, CloseApart
  <2>3. HeadOK(cur)'
    BY <2>1, ReadRequestHead, ParseHead, ServeHead, RespondHead, CloseHead
  <2>4. PICK d \in Fds : d = cur
    BY Fetch
  <2>5. HeadOK(d)'
    BY <2>2, <2>3, <2>4 DEF HeadOK, At, Started
  <2> QED
    BY <2>2, <2>4, <2>5, ApartHead
<1>5. P
  <2> HIDE DEF P
  <2> QED
    BY <1>1, <1>2, <1>3, <1>4 DEF Next, Callback
<1> QED
  BY <1>5

-----------------------------------------------------------------------------
(* AnswerOK: only the last answer is still underway.                       *)

\* What adds up to n: nothing to 0, the first item and the rest of it.
LEMMA AddUpNone ==
  ASSUME NEW cap \in Nat, NEW n
  PROVE  /\ AddUp(<<>>, n, cap) => n = 0
         /\ AddUp(<<>>, 0, cap)
<1>1. Len(<<>>) = 0
  OBVIOUS
<1>2. AddUp(<<>>, n, cap) => n = 0
  BY <1>1 DEF AddUp
<1>3. AddUp(<<>>, 0, cap)
  <2> DEFINE rest == [i \in 0..0 |-> 0]
  <2>1. rest \in [0..0 -> 0..cap] /\ rest[0] = 0
    OBVIOUS
  <2>2. \A i \in 1..0 : rest[i - 1] = rest[i] + <<>>[i]
    OBVIOUS
  <2> HIDE DEF rest
  <2> QED
    BY <1>1, <2>1, <2>2 DEF AddUp
<1> QED
  BY <1>2, <1>3

LEMMA AddUpTail ==
  ASSUME NEW items \in Seq(Nat), items # <<>>, NEW cap \in Nat, NEW n, AddUp(items, n, cap)
  PROVE  /\ n \in 0..cap /\ n - Head(items) \in 0..cap
         /\ AddUp(Tail(items), n - Head(items), cap)
<1>1. PICK rest \in [0..Len(items) -> 0..cap] :
        /\ rest[0] = n /\ rest[Len(items)] = 0
        /\ \A i \in 1..Len(items) : rest[i - 1] = rest[i] + items[i]
  BY DEF AddUp
<1> DEFINE s == Tail(items)
           m == Len(s)
           left == [i \in 0..m |-> rest[i + 1]]
<1>2. /\ m \in Nat /\ Len(items) = m + 1 /\ Head(items) = items[1]
      /\ \A i \in 1..m : s[i] = items[i + 1]
      /\ \A i \in 1..Len(items) : items[i] \in Nat
  OBVIOUS
<1> HIDE DEF s, m
<1>3. left \in [0..m -> 0..cap]
  BY <1>1, <1>2
<1>4. left[0] = n - Head(items) /\ left[m] = 0
  <2>1. 1 \in 1..Len(items) /\ rest[0] = rest[1] + items[1] /\ rest[1] \in 0..cap /\ items[1] \in Nat
    <3>1. 1 \in 1..Len(items) /\ 1 \in 0..Len(items)
      BY <1>2
    <3>2. rest[1 - 1] = rest[1] + items[1]
      BY <1>1, <3>1
    <3> QED
      BY <1>1, <1>2, <3>1, <3>2
  <2>2. left[0] = rest[1] /\ left[m] = rest[m + 1]
    BY <1>2
  <2> QED
    BY <1>1, <1>2, <2>1, <2>2
<1>5. ASSUME NEW i \in 1..m PROVE left[i - 1] = left[i] + s[i]
  <2>1. i + 1 \in 1..Len(items) /\ i \in Int
    BY <1>2
  <2>2. rest[(i + 1) - 1] = rest[i + 1] + items[i + 1]
    BY <1>1, <2>1
  <2>3. left[i - 1] = rest[(i - 1) + 1] /\ left[i] = rest[i + 1]
    BY <1>2
  <2>4. (i - 1) + 1 = (i + 1) - 1
    BY <2>1
  <2> QED
    BY <1>2, <2>2, <2>3, <2>4
<1>6. n \in 0..cap /\ n - Head(items) \in 0..cap
  <2>1. 0 \in 0..Len(items) /\ 0 \in 0..m
    BY <1>2
  <2> QED
    BY <1>1, <1>3, <1>4, <2>1
<1> HIDE DEF left
<1>7. AddUp(s, n - Head(items), cap)
  BY <1>3, <1>4, <1>5 DEF AddUp, m
<1> QED
  BY <1>6, <1>7 DEF s

\* An answer, and a wire all of whose answers but the last are such.
Fair(r) == Whole(r) \/ r.zero
Sound(w) == \A i \in DOMAIN w : i < Len(w) => Fair(w[i])

LEMMA AppendSound ==
  ASSUME NEW w \in Seq(AnswerType), NEW r \in AnswerType, Sound(w), w # <<>> => Fair(Last(w))
  PROVE  Sound(Append(w, r))
<1>1. /\ Len(w) \in Nat /\ Len(Append(w, r)) = Len(w) + 1
      /\ DOMAIN Append(w, r) = 1..Len(w) + 1
      /\ \A i \in 1..Len(w) : Append(w, r)[i] = w[i] /\ i \in DOMAIN w
  OBVIOUS
<1>2. ASSUME NEW i \in 1..Len(w) PROVE Fair(w[i])
  <2>1. CASE i < Len(w)
    BY <1>1, <2>1 DEF Sound
  <2>2. CASE i = Len(w)
    <3>1. w # <<>> /\ Last(w) = w[i]
      BY <1>1, <2>2 DEF Last
    <3> QED
      BY <3>1
  <2> QED
    BY <1>1, <2>1, <2>2
<1>3. ASSUME NEW i \in DOMAIN Append(w, r), i < Len(Append(w, r)) PROVE Fair(Append(w, r)[i])
  <2>1. i \in 1..Len(w)
    BY <1>1, <1>3
  <2>2. Append(w, r)[i] = w[i]
    BY <1>1, <2>1
  <2> QED
    BY <1>2, <2>1, <2>2
<1> QED
  BY <1>3 DEF Sound

LEMMA SentSound ==
  ASSUME NEW w \in Seq(AnswerType), w # <<>>, NEW x, Sound(w)
  PROVE  LET v == [w EXCEPT ![Len(w)] = x]
         IN v # <<>> /\ Last(v) = x /\ Sound(v) /\ w[Len(w)] = Last(w) /\ Last(w) \in AnswerType
<1> DEFINE n == Len(w)
           v == [w EXCEPT ![n] = x]
<1>1. /\ n \in DOMAIN w /\ w[n] \in AnswerType /\ Last(w) = w[n] /\ DOMAIN w = 1..n
  BY DEF Last
<1>2. /\ DOMAIN v = DOMAIN w /\ Len(v) = n /\ v # <<>> /\ v[n] = x
      /\ \A i \in DOMAIN v : i # n => v[i] = w[i]
  BY <1>1
<1>3. Last(v) = x
  <2> HIDE DEF v, n
  <2> QED
    BY <1>2 DEF Last
<1>4. Sound(v)
  <2>1. \A i \in DOMAIN v : i < Len(v) => i # n
    BY <1>1, <1>2
  <2> HIDE DEF v
  <2> QED
    BY <1>1, <1>2, <2>1 DEF Sound
<1> QED
  BY <1>1, <1>2, <1>3, <1>4

\* An answer with more of its body.
LEMMA Extended ==
  ASSUME NEW r \in AnswerType, NEW b
  PROVE  LET x == Extend(r, b)
         IN /\ x.head /\ x.items = r.items + b.len /\ x.last = AddLast(r.last, b.ends)
            /\ x.want = r.want /\ x.chunked = r.chunked /\ x.framed = r.framed
            /\ x.zero = r.zero /\ x.kind = r.kind
BY DEF Extend, AnswerType

\* A connection that is excused, or that writes nothing.
LEMMA ExcusedAnswer ==
  ASSUME NEW f \in Fds, Excused(f)', Started(f)' => cli'[f].response \in Apps
  PROVE  AnswerOK(f)'
BY DEF AnswerOK, Fine, Excused

LEMMA QuietAnswer ==
  ASSUME NEW f \in Fds, AnswerOK(f), wire'[f] = wire[f], Excused(f) => Excused(f)',
         peer'[f] # "reset" => peer[f] # "reset",
         ~At(f, {"body"}) \/ peer[f] = "reset", ~At(f, {"body"})',
         Started(f)' => cli'[f].response \in Apps
  PROVE  AnswerOK(f)'
<1>1. \A r : Fine(f, r) => Whole(r) \/ r.zero \/ Excused(f)'
  BY DEF Fine
<1>2. \A i \in DOMAIN wire'[f] : i < Len(wire'[f]) => Fine(f, wire'[f][i])
  BY DEF AnswerOK
<1>3. wire'[f] # <<>> /\ peer'[f] # "reset" => Fine(f, Last(wire'[f]))
  BY DEF AnswerOK
<1> QED
  BY <1>1, <1>2, <1>3 DEF AnswerOK, Fine

LEMMA StillAnswer ==
  ASSUME NEW f \in Fds, AnswerOK(f), Still(f)
  PROVE  AnswerOK(f)'
<1>1. ~At(f, {"body"}) /\ ~At(f, {"body"})' /\ ~Started(f)' /\ Excused(f)' = Excused(f)
  BY DEF Still, Alone, At, Started, Excused
<1> QED
  BY <1>1, QuietAnswer DEF Still, Alone

LEMMA ApartAnswer ==
  ASSUME \A f \in Fds : AnswerOK(f), Apart, NEW d \in Fds, cur' = d, AnswerOK(d)'
  PROVE  \A f \in Fds : AnswerOK(f)'
<1>1. ASSUME NEW f \in Fds, f # d PROVE AnswerOK(f)'
  BY <1>1, StillAnswer DEF Apart
<1> QED
  BY <1>1

\* What AnswerOK says of a connection that is not excused.
LEMMA FairAnswers ==
  ASSUME NEW f \in Fds, AnswerOK(f), ~Excused(f)
  PROVE  /\ Sound(wire[f])
         /\ wire[f] # <<>> /\ peer[f] # "reset" /\ ~At(f, {"body"}) => Fair(Last(wire[f]))
BY DEF AnswerOK, Fine, Fair, Sound

LEMMA FairKept ==
  ASSUME NEW f \in Fds, Sound(wire'[f]), ~At(f, {"body"})', ~Started(f)',
         wire'[f] # <<>> /\ peer'[f] # "reset" => Fair(Last(wire'[f]))
  PROVE  AnswerOK(f)'
BY DEF AnswerOK, Fine, Fair, Sound

LEMMA UnderwayKept ==
  ASSUME NEW f \in Fds, Sound(wire'[f]), At(f, {"body"})', ~Started(f)',
         Last(wire'[f]).zero \/ Underway(Last(wire'[f]), cli'[f])
  PROVE  AnswerOK(f)'
BY DEF AnswerOK, Fine, Fair, Sound, Underway

LEMMA PeerAnswer ==
  ASSUME IInv, NEW d \in Fds, Peer(d), \A f \in Fds : AnswerOK(f)
  PROVE  \A f \in Fds : AnswerOK(f)'
<1>1. SUFFICES ASSUME NEW f \in Fds PROVE AnswerOK(f)'
  OBVIOUS
<1>2. UNCHANGED <<mem, cli, pc, cur, me>>
  BY PeerLeaves
<1>3. CASE f = d /\ PeerConnect(d)
  <2>1. wire'[f] = <<>> /\ ~At(f, {"body"})' /\ ~Started(f)'
    <3>1. wire'[f] = <<>> /\ mem[f] = 0 /\ ~At(f, Working)
      BY <1>3, PeerLeaves
    <3>2. pc = "start" => me # 0
      BY DEF IInv, WatchInv, StackOK
    <3> QED
      BY <1>2, <3>1, <3>2 DEF At, Working, Started
  <2>2. Sound(<<>>)
    BY DEF Sound
  <2> QED
    BY <2>1, <2>2, FairKept
<1>4. CASE ~(f = d /\ PeerConnect(d))
  <2>1. /\ wire'[f] = wire[f] /\ (peer'[f] # "reset" => peer[f] # "reset")
        /\ Excused(f) => Excused(f)'
    BY <1>4, PeerLeaves DEF Excused
  <2> QED
    BY <1>2, <2>1 DEF AnswerOK, Fine, At, Started
<1> QED
  BY <1>3, <1>4

LEMMA ControlAnswer ==
  ASSUME IInv, ServeInv, \A f \in Fds : AnswerOK(f),
         \/ LoopExit \/ AcceptEvent \/ AcceptDone \/ Register \/ Return
         \/ \E d \in Fds : ReadEvent(d) \/ WriteEvent(d)
  PROVE  \A f \in Fds : AnswerOK(f)'
<1>1. Apart /\ UNCHANGED <<cli, reqs, mem, script, wire, peer>>
  BY ControlApart
<1>2. PICK d \in Fds :
        /\ cur' = d /\ ~At(d, {"body"}) /\ ~At(d, {"body"})'
        /\ pc' # "start" \/ (pc = "return" /\ nested > 0 /\ d = cur /\ me' = me)
  BY Shapes DEF LoopExit, AcceptEvent, AcceptDone, Register, Return, ReadEvent, WriteEvent, Dispatch,
     At
<1>3. ~Started(d)'
  BY <1>1, <1>2 DEF ServeInv, NestOK, Started, At
<1>4. AnswerOK(d)'
  BY <1>1, <1>2, <1>3, QuietAnswer DEF Excused
<1> QED
  BY <1>1, <1>2, <1>4, ApartAnswer

LEMMA EventAnswer ==
  ASSUME IInv, NEW d \in Fds, Timeout(d) \/ Accept(d) \/ AcceptFails(d), \A f \in Fds : AnswerOK(f)
  PROVE  \A f \in Fds : AnswerOK(f)'
<1>1. /\ UNCHANGED <<wire, peer, script>> /\ pc \in {"loop", "accept"}
      /\ pc' \in {"finish", "page", "close", "read", "loop"}
  BY DEF Timeout, SetReadError, Accept, AcceptFails
<1>2. ASSUME NEW f \in Fds PROVE AnswerOK(f)'
  <2>1. ~At(f, {"body"}) /\ ~At(f, {"body"})' /\ ~Started(f)'
    BY <1>1 DEF At, Started
  <2> QED
    BY <1>1, <2>1, QuietAnswer DEF Excused
<1> QED
  BY <1>2

\* A step of the thread that writes nothing, up to the application's answer.
LEMMA SilentAnswer ==
  ASSUME IInv, \A f \in Fds : AnswerOK(f), ReadRequest \/ Parse \/ Finish \/ ProcessRackApp \/ Close
  PROVE  AnswerOK(cur)'
<1>1. cur \in Fds /\ cur' = cur
  BY Fetch DEF ReadRequest, Parse, MessageBegin, HeadersComplete, BodyComplete, ParseBlank,
     ParseError, ParseDone, ParseNull, ParserUnchanged, Finish, ProcessRackApp, Close, CloseAborts,
     CloseToNext, CloseConnection, KeepConnection, Crash
<1>2. UNCHANGED <<wire, peer, script>>
  BY DEF ReadRequest, Parse, MessageBegin, HeadersComplete, BodyComplete, ParseBlank,
     ParseError, ParseDone, ParseNull, ParserUnchanged, Finish, ProcessRackApp, Close, CloseAborts,
     CloseToNext, CloseConnection, KeepConnection, Crash
<1>3. pc # "body" /\ pc' # "body"
  <2>1. ReadRequest \/ Parse => pc # "body" /\ pc' # "body"
    BY DEF ReadRequest, Parse, MessageBegin, HeadersComplete, BodyComplete, ParseBlank, Parsing,
       ParseError, ParseDone, SetReadError, ParseNull, ParserUnchanged, Crash
  <2>2. Finish \/ ProcessRackApp => pc # "body" /\ pc' # "body"
    BY DEF Finish, ProcessRackApp
  <2>3. Close => pc # "body" /\ pc' # "body"
    BY DEF Close, CloseAborts, CloseToNext, CloseConnection, KeepConnection, Crash, Closing
  <2> QED
    BY <2>1, <2>2, <2>3
<1>4. Started(cur)' => cli'[cur].response \in Apps
  <2>1. CASE ProcessRackApp
    <3>1. SUFFICES ASSUME pc' = "start" PROVE cli'[cur].response \in Apps
      BY DEF Started, At
    <3>2. PICK a \in Apps :
            cli' = [cli EXCEPT ![cur] = [cli[cur] EXCEPT !.status = a.status, !.response = a,
                                                         !.iter = a.body]]
      BY <2>1, <3>1 DEF ProcessRackApp, Client
    <3> DEFINE k == cli[cur]
               c == [k EXCEPT !.status = a.status, !.response = a, !.iter = a.body]
    <3>3. k \in ClientType /\ cli \in [Fds -> ClientType]
      BY Fetch
    <3>4. c.response = a
      <4> HIDE DEF k
      <4> QED
        BY <3>3 DEF ClientType
    <3>5. cli'[cur] = c
      BY <1>1, <3>2, <3>3
    <3> QED
      BY <3>4, <3>5
  <2>2. CASE ReadRequest \/ Parse \/ Finish
    <3>1. pc' # "start"
      BY <2>2 DEF ReadRequest, Parse, MessageBegin, HeadersComplete, BodyComplete, ParseBlank, Parsing,
         ParseError, ParseDone, SetReadError, ParseNull, ParserUnchanged, Crash, Finish
    <3> QED
      BY <3>1 DEF Started, At
  <2>3. CASE Close
    <3>1. pc' # "start"
      BY <2>3 DEF Close, CloseAborts, CloseToNext, CloseConnection, KeepConnection, Crash
    <3> QED
      BY <3>1 DEF Started, At
  <2> QED
    BY <2>1, <2>2, <2>3
<1>5. PICK d \in Fds : d = cur
  BY <1>1
<1>6. AnswerOK(d)'
  BY <1>1, <1>2, <1>3, <1>4, <1>5, QuietAnswer DEF Excused, At, Started
<1> QED
  BY <1>1, <1>5, <1>6 DEF AnswerOK, Fine, Excused, At, Started

\* What a new answer, or one more piece of the last answer, makes of the wire.
LEMMA ToldSound ==
  ASSUME IInv, NEW d \in Fds, d = cur, AnswerOK(d), ~Excused(d), peer[d] # "reset", pc # "body",
         NEW r \in AnswerType, Tell(r)
  PROVE  wire'[d] # <<>> /\ Last(wire'[d]) = r /\ Sound(wire'[d])
<1>1. wire \in [Fds -> Seq(AnswerType)]
  BY Shapes
<1>2. wire'[d] = Append(wire[d], r) /\ wire[d] \in Seq(AnswerType)
  BY <1>1 DEF Tell
<1>3. Sound(wire[d]) /\ (wire[d] # <<>> => Fair(Last(wire[d])))
  BY FairAnswers DEF At
<1>4. Sound(Append(wire[d], r))
  BY <1>2, <1>3, AppendSound
<1>5. Last(Append(wire[d], r)) = r /\ Append(wire[d], r) # <<>>
  BY <1>2 DEF Last
<1> QED
  BY <1>2, <1>4, <1>5

LEMMA SentOn ==
  ASSUME IInv, NEW d \in Fds, d = cur, AnswerOK(d), ~Excused(d), wire[d] # <<>>, NEW b, Sent(b)
  PROVE  /\ wire'[d] # <<>> /\ Sound(wire'[d]) /\ Last(wire[d]) \in AnswerType
         /\ Last(wire'[d]) = Extend(Last(wire[d]), b)
<1>1. wire \in [Fds -> Seq(AnswerType)]
  BY Shapes
<1> DEFINE w == wire[d]
           x == Extend(w[Len(w)], b)
<1>2. wire'[d] = [w EXCEPT ![Len(w)] = x] /\ w \in Seq(AnswerType)
  BY <1>1 DEF Sent
<1>3. Sound(w)
  BY FairAnswers
<1> HIDE DEF w, x
<1>4. w # <<>>
  BY DEF w
<1>5. LET v == [w EXCEPT ![Len(w)] = x]
      IN v # <<>> /\ Last(v) = x /\ Sound(v) /\ w[Len(w)] = Last(w) /\ Last(w) \in AnswerType
  BY <1>2, <1>3, <1>4, SentSound
<1>6. x = Extend(Last(w), b)
  BY <1>5 DEF x
<1> QED
  BY <1>2, <1>5, <1>6 DEF w

\* "100 Continue" and an error page are whole.
LEMMA ToldAnswer ==
  ASSUME IInv, NEW d \in Fds, d = cur, cur' = d, AnswerOK(d), peer[d] # "reset", pc # "body",
         pc' # "body", pc' # "start", UNCHANGED script,
         NEW r \in AnswerType, Tell(r), Excused(d) \/ Fair(r)
  PROVE  AnswerOK(d)'
<1>1. Excused(d)' = Excused(d) /\ ~Started(d)' /\ ~At(d, {"body"})'
  BY DEF Excused, Started, At
<1>2. CASE Excused(d)
  BY <1>1, <1>2, ExcusedAnswer
<1>3. CASE ~Excused(d)
  BY <1>1, <1>3, ToldSound, FairKept
<1> QED
  BY <1>2, <1>3

LEMMA PrepareAnswer ==
  ASSUME IInv, \A f \in Fds : AnswerOK(f), PrepareCallRack
  PROVE  AnswerOK(cur)'
<1>1. PICK d \in Fds : d = cur
  BY Fetch
<1>2. /\ cur' = d /\ pc = "prepare" /\ pc' \in {"page", "app"} /\ UNCHANGED <<peer, script>>
  BY <1>1 DEF PrepareCallRack
<1>3. UNCHANGED wire \/ (\E n : Tell([Record("cont", 100) EXCEPT !.id = n]) /\ n \in Nat
                                /\ peer[d] # "reset")
  <2> DEFINE k == cli[cur]
             h == Head(k.queue)
             c == [k EXCEPT !.current = h, !.queue = Tail(@)]
  <2>1. UNCHANGED wire \/ (Tell([Record("cont", 100) EXCEPT !.id = c.current]) /\ peer[cur] # "reset")
    BY DEF PrepareCallRack
  <2>2. c.current \in Nat
    <3>1. k \in ClientType /\ k.queue # <<>> /\ k.queue \in Seq(Ids)
      BY <1>2, Fetch, ClientFields DEF IInv, DataInv, RefsOK
    <3>2. h \in Nat
      <4> HIDE DEF k
      <4> QED
        BY <3>1 DEF Ids
    <3> HIDE DEF k, h
    <3> QED
      BY <3>1, <3>2 DEF ClientType
  <2> HIDE DEF c
  <2> QED
    BY <1>1, <2>1, <2>2
<1>4. CASE UNCHANGED wire
  <2>1. AnswerOK(d)'
    BY <1>2, <1>4, QuietAnswer DEF Excused, At, Started
  <2> QED
    BY <1>1, <1>2, <2>1 DEF AnswerOK, Fine, Excused, At, Started
<1>5. CASE \E n : Tell([Record("cont", 100) EXCEPT !.id = n]) /\ n \in Nat /\ peer[d] # "reset"
  <2>1. PICK n \in Nat : Tell([Record("cont", 100) EXCEPT !.id = n]) /\ peer[d] # "reset"
    BY <1>5
  <2> DEFINE r == [Record("cont", 100) EXCEPT !.id = n]
  <2>2. r \in AnswerType /\ r.kind = "cont"
    <3>1. Record("cont", 100) \in AnswerType /\ Record("cont", 100).kind = "cont"
      BY Fetch, RecordType DEF Record
    <3> QED
      BY <3>1 DEF AnswerType
  <2> HIDE DEF r
  <2>3. Fair(r)
    BY <2>2 DEF Fair, Whole
  <2>4. Tell(r)
    BY <2>1 DEF r
  <2>5. AnswerOK(d)'
    BY <1>1, <1>2, <2>1, <2>2, <2>3, <2>4, ToldAnswer
  <2> QED
    BY <1>1, <1>2, <2>5 DEF AnswerOK, Fine, Excused, At, Started
<1> QED
  BY <1>3, <1>4, <1>5

LEMMA PageAnswer ==
  ASSUME IInv, \A f \in Fds : AnswerOK(f), SendErrorPage
  PROVE  AnswerOK(cur)'
<1>1. PICK d \in Fds : d = cur
  BY Fetch
<1>2. cur' = d /\ pc = "page" /\ pc' = "close" /\ UNCHANGED <<peer, script>>
  BY <1>1 DEF SendErrorPage
<1> DEFINE r == Record("page", Page(cli[cur].status))
<1>3. UNCHANGED wire \/ (Tell(r) /\ peer[d] # "reset")
  BY <1>1 DEF SendErrorPage
<1>4. r \in AnswerType /\ r.kind = "page"
  <2>1. Page(cli[cur].status) \in Nat
    BY Fetch, ClientFields DEF Page
  <2>2. r \in AnswerType
    BY Fetch, <2>1, RecordType
  <2> QED
    BY <2>2 DEF Record
<1> HIDE DEF r
<1>5. Fair(r)
  BY <1>4 DEF Fair, Whole
<1>6. AnswerOK(d)'
  <2>1. CASE UNCHANGED wire
    BY <1>2, <2>1, QuietAnswer DEF Excused, At, Started
  <2>2. CASE Tell(r) /\ peer[d] # "reset"
    BY <1>1, <1>2, <1>4, <1>5, <2>2, ToldAnswer
  <2> QED
    BY <1>3, <2>1, <2>2
<1> QED
  BY <1>1, <1>2, <1>6 DEF AnswerOK, Fine, Excused, At, Started

\* The answer r that write_headers begins, and the client c it leaves, for the
\* application's answer a with a body.
Begun304(r) == r.head /\ r.items = 0 /\ r.want = 0 /\ r.last = 0 /\ ~r.chunked /\ r.framed
Opened(r, c, a, minor) ==
  LET first == IF a.array THEN a.total ELSE Head(a.body)
      chunked == ~a.clset /\ minor = 1
  IN /\ r.head /\ r.items = first /\ r.want = a.total /\ r.chunked = chunked
     /\ r.framed = (chunked \/ a.clset)
     /\ r.last = IF chunked /\ first = 0 THEN 1 ELSE 0
     /\ r.zero = (chunked /\ IF a.array THEN a.total = 0
                             ELSE \E i \in DOMAIN a.body : a.body[i] = 0)
     /\ c.response = a /\ c.iter = (IF a.array THEN <<>> ELSE Tail(a.body))
     /\ c.clset = a.clset /\ c.cl = (IF a.clset THEN a.cl ELSE 0)
     /\ c.chunked = chunked /\ c.write_bytes = first

LEMMA OpenedUnderway ==
  ASSUME NEW a \in Apps, a.kind = "answer", a.array \/ a.body # <<>>, NEW r, NEW c,
         Opened(r, c, a, 1)
  PROVE  r.zero \/ Underway(r, c)
<1> DEFINE first == IF a.array THEN a.total ELSE Head(a.body)
<1>1. /\ a.total \in Nat /\ a.body \in Seq(Nat) /\ a.array \in BOOLEAN /\ a.clset \in BOOLEAN
      /\ AddUp(a.body, a.total, a.total) /\ (a.clset => a.cl = a.total)
  BY ParamAssumption, AnswerAssumption DEF AppType
<1>2. SUFFICES ASSUME ~r.zero PROVE Underway(r, c)
  OBVIOUS
<1>3. AddUp(c.iter, a.total - first, a.total)
  <2>1. CASE a.array
    <3>1. AddUp(<<>>, 0, a.total) /\ a.total - first = 0 /\ c.iter = <<>>
      BY <1>1, <2>1, AddUpNone DEF Opened
    <3> QED
      BY <3>1
  <2>2. CASE ~a.array
    <3>1. AddUp(Tail(a.body), a.total - Head(a.body), a.total)
      BY <1>1, <2>2, AddUpTail
    <3> QED
      BY <2>2, <3>1 DEF Opened
  <2> QED
    BY <2>1, <2>2
<1>4. c.chunked => first # 0 /\ \A i \in DOMAIN c.iter : c.iter[i] # 0
  <2>1. SUFFICES ASSUME c.chunked PROVE first # 0 /\ \A i \in DOMAIN c.iter : c.iter[i] # 0
    OBVIOUS
  <2>2. CASE a.array
    <3>1. a.total # 0 /\ c.iter = <<>>
      BY <1>2, <2>1, <2>2 DEF Opened
    <3>2. DOMAIN <<>> = {}
      OBVIOUS
    <3> QED
      BY <2>2, <3>1, <3>2
  <2>3. CASE ~a.array
    <3>1. c.iter = Tail(a.body) /\ \A i \in DOMAIN a.body : a.body[i] # 0
      BY <1>2, <2>1, <2>3 DEF Opened
    <3> DEFINE s == a.body
    <3>2. s \in Seq(Nat) /\ s # <<>>
      BY <1>1, <2>3
    <3>3. \A i \in DOMAIN s : s[i] # 0
      BY <3>1
    <3> HIDE DEF s
    <3>4. Head(s) # 0 /\ \A i \in DOMAIN Tail(s) : Tail(s)[i] # 0
      <4>1. 1 \in DOMAIN s /\ Head(s) = s[1]
        BY <3>2
      <4>2. \A i \in DOMAIN Tail(s) : i + 1 \in DOMAIN s /\ Tail(s)[i] = s[i + 1]
        BY <3>2
      <4> QED
        BY <3>3, <4>1, <4>2
    <3> QED
      BY <2>3, <3>1, <3>4 DEF s
  <2> QED
    BY <2>2, <2>3
<1>5. /\ r.head /\ r.items = first /\ r.want = a.total /\ r.chunked = c.chunked /\ r.framed
      /\ c.response = a /\ c.write_bytes = first
  BY <1>1 DEF Opened
<1>6. r.last = 0
  BY <1>4 DEF Opened
<1>7. c.clset => ~c.chunked /\ c.cl = a.total
  BY <1>1 DEF Opened
<1>8. a.array => c.iter = <<>>
  BY DEF Opened
<1> HIDE DEF first
<1> QED
  BY <1>3, <1>4, <1>5, <1>6, <1>7, <1>8 DEF Underway

Filled(p, want, chunked, framed, zero) ==
  [p EXCEPT !.head = FALSE, !.want = want, !.chunked = chunked, !.framed = framed, !.zero = zero]
LEMMA FilledType ==
  ASSUME NEW p \in AnswerType, NEW want \in Nat, NEW chunked \in BOOLEAN, NEW framed \in BOOLEAN,
         NEW zero \in BOOLEAN, NEW r, r = Filled(p, want, chunked, framed, zero)
  PROVE  /\ r \in AnswerType /\ r.items = p.items /\ r.last = p.last /\ r.want = want
         /\ r.chunked = chunked /\ r.framed = framed /\ r.zero = zero
BY DEF AnswerType, Filled

\* write_headers with the answer it begins.
LEMMA WriteHeadersOpens ==
  ASSUME IInv, WriteHeaders
  PROVE  \/ UNCHANGED wire /\ pc' = "page"
         \/ Full /\ pc' = "suspend"
         \/ /\ CanWrite
            /\ \E r \in AnswerType :
                 /\ Tell(r)
                 /\ \/ pc' = "close" /\ Begun304(r)
                    \/ /\ pc' = "body"
                       /\ cli[cur].response.kind = "answer"
                       /\ cli[cur].response.array \/ cli[cur].response.body # <<>>
                       /\ Opened(r, cli'[cur], cli[cur].response, cli[cur].minor)
<1> DEFINE k == cli[cur]
           a == k.response
           empty == a.status = 304
           first == IF empty THEN 0 ELSE IF a.array THEN a.total ELSE Head(a.body)
           rest == IF empty THEN k.iter ELSE IF a.array THEN <<>> ELSE Tail(a.body)
           length == IF a.clset THEN a.cl ELSE 0
           chunked == ~empty /\ ~a.clset /\ k.minor = 1
           c == [k EXCEPT !.iter = rest, !.clset = a.clset, !.cl = length, !.chunked = chunked]
           b == [Bucket(c, TRUE, first) EXCEPT !.ends = IF empty THEN 0 ELSE @]
           want == IF empty THEN 0 ELSE a.total
           framed == empty \/ c.chunked \/ c.clset
           zero == c.chunked /\ IF a.array THEN a.total = 0
                                ELSE \E i \in DOMAIN a.body : a.body[i] = 0
           record == [Record("app", a.status) EXCEPT
                        !.head = FALSE, !.want = want, !.chunked = c.chunked,
                        !.framed = framed, !.zero = zero]
           c1 == [c EXCEPT !.header_done = TRUE, !.write_bytes = first, !.bucket = NoBucket]
<1>1. \/ UNCHANGED wire /\ pc' = "page"
      \/ Full /\ pc' = "suspend"
      \/ /\ a.kind = "answer" /\ (empty \/ a.array \/ a.body # <<>>)
         /\ CanWrite /\ Client(c1) /\ Tell(Extend(record, b))
         /\ pc' = IF empty THEN "close" ELSE "body"
  BY ZenonT(30) DEF WriteHeaders, InternalError
<1>2. /\ a.status \in Nat /\ a.array \in BOOLEAN /\ a.body \in Seq(Nat) /\ a.total \in Nat
      /\ a.clset \in BOOLEAN /\ a.cl \in Nat /\ k.iter \in Seq(Nat) /\ k \in ClientType
      /\ cli \in [Fds -> ClientType] /\ cur \in Fds
  BY Fetch, ClientFields DEF AppType
<1>3. SUFFICES ASSUME a.kind = "answer", empty \/ a.array \/ a.body # <<>>,
                      CanWrite, Client(c1), Tell(Extend(record, b)),
                      pc' = IF empty THEN "close" ELSE "body"
      PROVE  \E r \in AnswerType :
               /\ Tell(r)
               /\ \/ pc' = "close" /\ Begun304(r)
                  \/ /\ pc' = "body" /\ a.kind = "answer" /\ (a.array \/ a.body # <<>>)
                     /\ Opened(r, cli'[cur], a, k.minor)
  BY <1>1
<1>4. first \in Nat /\ want \in Nat /\ chunked \in BOOLEAN /\ length \in Nat /\ rest \in Seq(Nat)
  <2> HIDE DEF a, k
  <2>1. CASE a.body # <<>>
    BY <1>2, <2>1
  <2>2. CASE empty \/ a.array
    BY <1>2, <2>2
  <2> QED
    BY <1>3, <2>1, <2>2
<1>5. /\ DOMAIN c = DOMAIN k /\ c.iter = rest /\ c.clset = a.clset /\ c.cl = length
      /\ c.chunked = chunked /\ c.response = a
  <2>1. k \in ClientType
    BY <1>2
  <2> HIDE DEF rest, length, chunked
  <2>2. k.response = a
    OBVIOUS
  <2> HIDE DEF k, a
  <2> QED
    BY <2>1, <2>2 DEF ClientType
<1>6. c \in ClientType
  <2> HIDE DEF rest, length, chunked
  <2>1. Kept(c, k)
    BY ZenonT(30), <1>2, <1>4, Fetch, KeptHeaders DEF k, a
  <2> QED
    BY <2>1 DEF Kept
<1>7. /\ c1.iter = rest /\ c1.clset = a.clset /\ c1.cl = length /\ c1.chunked = chunked
      /\ c1.response = a /\ c1.write_bytes = first
  <2> HIDE DEF c, a, rest, length, chunked, first
  <2> QED
    BY <1>5, <1>6 DEF ClientType
<1>8. cli'[cur] = c1
  <2> HIDE DEF c1
  <2> QED
    BY <1>2, <1>3 DEF Client
<1>9. b.len = first /\ b.ends = (IF empty THEN 0 ELSE IF chunked /\ first = 0 THEN 1 ELSE 0)
      /\ b \in BucketType
  <2> HIDE DEF c, a, first, chunked
  <2>1. Bucket(c, TRUE, first) \in BucketType
    BY <1>4, <1>5, BucketOK
  <2> QED
    BY <1>5, <2>1 DEF Bucket, Ends, BucketType
<1>10. zero \in BOOLEAN /\ framed \in BOOLEAN /\ c.chunked \in BOOLEAN
  <2> HIDE DEF c, chunked
  <2> QED
    BY <1>4, <1>5
<1>11. /\ record \in AnswerType /\ record.items = 0 /\ record.last = 0 /\ record.want = want
       /\ record.chunked = c.chunked /\ record.framed = framed /\ record.zero = zero
  <2>1. Record("app", a.status) \in AnswerType
    BY Fetch, <1>2, RecordType
  <2>2. Record("app", a.status).items = 0 /\ Record("app", a.status).last = 0
    BY DEF Record
  <2> DEFINE p == Record("app", a.status)
             ch == c.chunked
  <2>3. p \in AnswerType /\ p.items = 0 /\ p.last = 0 /\ want \in Nat /\ ch \in BOOLEAN
        /\ framed \in BOOLEAN /\ zero \in BOOLEAN
    BY <1>4, <1>10, <2>1, <2>2
  <2> HIDE DEF want, framed, zero, ch, p
  <2>4. record = Filled(p, want, ch, framed, zero)
    BY DEF Filled, p, ch
  <2> HIDE DEF record
  <2>5. /\ record \in AnswerType /\ record.items = p.items /\ record.last = p.last
        /\ record.want = want /\ record.chunked = ch /\ record.framed = framed
        /\ record.zero = zero
    <3>1. framed \in BOOLEAN /\ zero \in BOOLEAN /\ ch \in BOOLEAN
      BY <2>3
    <3>2. p \in AnswerType /\ want \in Nat
      BY <2>3
    <3>3. PICK g \in BOOLEAN : g = framed
      BY <3>1
    <3>4. PICK z \in BOOLEAN : z = zero
      BY <3>1
    <3>5. PICK h \in BOOLEAN : h = ch
      BY <3>1
    <3>6. record = Filled(p, want, h, g, z)
      BY <2>4, <3>3, <3>4, <3>5, Zenon
    <3>7. /\ record \in AnswerType /\ record.items = p.items /\ record.last = p.last
          /\ record.want = want /\ record.chunked = h /\ record.framed = g /\ record.zero = z
      BY <3>2, <3>6, FilledType
    <3> QED
      BY <3>3, <3>4, <3>5, <3>7
  <2> QED
    BY <2>3, <2>5 DEF ch
<1> DEFINE x == Extend(record, b)
<1>12. /\ x \in AnswerType /\ x.head /\ x.items = record.items + b.len
       /\ x.last = AddLast(record.last, b.ends)
       /\ x.want = record.want /\ x.chunked = record.chunked /\ x.framed = record.framed
       /\ x.zero = record.zero
  <2> HIDE DEF record, b
  <2>1. x \in AnswerType
    BY <1>9, <1>11, ExtendType
  <2>2. record \in AnswerType
    BY <1>11
  <2> QED
    BY <2>1, <2>2, Extended
<1> HIDE DEF record, b, c1, x
<1>13. x.items = first /\ x.last = (IF empty THEN 0 ELSE IF chunked /\ first = 0 THEN 1 ELSE 0)
       /\ x.want = want /\ x.chunked = chunked /\ x.framed = (empty \/ chunked \/ a.clset)
       /\ x.zero = zero
  <2>1. x.items = first
    <3> HIDE DEF first
    <3> QED
      BY <1>4, <1>9, <1>11, <1>12
  <2>2. x.last = (IF empty THEN 0 ELSE IF chunked /\ first = 0 THEN 1 ELSE 0)
    <3> HIDE DEF empty, chunked, first
    <3> QED
      BY <1>9, <1>11, <1>12 DEF AddLast, LastCap
  <2>3. x.want = want /\ x.chunked = chunked /\ x.framed = (empty \/ chunked \/ a.clset)
        /\ x.zero = zero
    <3> HIDE DEF empty, chunked, want, zero, c, a
    <3> QED
      BY <1>5, <1>11, <1>12
  <2> QED
    BY <2>1, <2>2, <2>3
<1>14. CASE empty
  <2>1. Begun304(x)
    BY <1>12, <1>13, <1>14 DEF Begun304
  <2> QED
    BY <1>3, <1>12, <1>14, <2>1 DEF x
<1>15. CASE ~empty
  <2>1. x.zero = (chunked /\ IF a.array THEN a.total = 0
                             ELSE \E i \in DOMAIN a.body : a.body[i] = 0)
    <3> HIDE DEF chunked, a, c
    <3> QED
      BY <1>5, <1>13 DEF zero
  <2>2. Opened(x, c1, a, k.minor)
    <3> HIDE DEF a, k, c, zero
    <3> QED
      BY <1>7, <1>12, <1>13, <1>15, <2>1 DEF Opened
  <2> QED
    BY <1>3, <1>8, <1>12, <1>15, <2>2 DEF x
<1> QED
  BY <1>14, <1>15

LEMMA WriteHeadersAnswer ==
  ASSUME IInv, WriteHeaders, \A f \in Fds : StallOK(f) /\ HeadOK(f) /\ AnswerOK(f)
  PROVE  AnswerOK(cur)'
<1>1. PICK d \in Fds : d = cur
  BY Fetch
<1>2. /\ cur' = d /\ pc = "start" /\ mem[d] = me /\ pc' # "start" /\ UNCHANGED <<peer, script>>
      /\ me # 0 /\ cli[d].response \in Apps
  <2>1. cur' = d /\ pc = "start" /\ mem[d] = me /\ UNCHANGED <<peer, script>>
    BY <1>1 DEF WriteHeaders, ResponseUnchanged
  <2>2. me # 0
    BY <2>1 DEF IInv, WatchInv, StackOK
  <2>3. cli[d].response \in Apps
    BY <1>1, <2>1 DEF AnswerOK, Started, At
  <2>4. pc' # "start"
    BY WriteHeadersOpens
  <2> QED
    BY <2>1, <2>2, <2>3, <2>4
<1>3. AnswerOK(d)'
  <2>1. CASE Excused(d)
    <3>1. Excused(d)' /\ ~Started(d)'
      BY <1>2, <2>1 DEF Excused, Started, At
    <3> QED
      BY <3>1, ExcusedAnswer
  <2>2. CASE UNCHANGED wire /\ pc' = "page"
    BY <1>2, <2>2, QuietAnswer DEF Excused, At, Started
  <2>3. ASSUME ~Excused(d) PROVE window[d] /\ cli[d].minor = 1
    <3>1. window[d]
      BY <2>3, Shapes DEF StallOK, Excused
    <3>2. cli[d].minor \in {0, 1}
      BY Fetch, ClientFields, <1>1 DEF ClientType
    <3>3. Started(d) /\ mem[d] # 0
      BY <1>1, <1>2 DEF Started, At
    <3>4. cli[d].minor # 0
      BY <2>3, <3>3 DEF HeadOK, Excused
    <3> QED
      BY <3>1, <3>2, <3>4
  <2>4. CASE ~Excused(d) /\ ~(UNCHANGED wire /\ pc' = "page")
    <3>1. PICK r \in AnswerType :
            /\ CanWrite /\ Tell(r)
            /\ \/ pc' = "close" /\ Begun304(r)
               \/ /\ pc' = "body" /\ cli[d].response.kind = "answer"
                  /\ cli[d].response.array \/ cli[d].response.body # <<>>
                  /\ Opened(r, cli'[d], cli[d].response, 1)
      <4>1. ~Full
        BY <1>1, <2>3, <2>4 DEF Full
      <4> QED
        BY <1>1, <2>3, <2>4, <4>1, WriteHeadersOpens
    <3>2. wire'[d] # <<>> /\ Last(wire'[d]) = r /\ Sound(wire'[d])
      <4>1. peer[d] # "reset" /\ pc # "body"
        BY <1>1, <1>2, <3>1 DEF CanWrite
      <4> QED
        BY <1>1, <2>4, <3>1, <4>1, ToldSound
    <3>3. CASE pc' = "close" /\ Begun304(r)
      <4>1. Fair(r)
        BY <3>3 DEF Fair, Whole, Begun304
      <4>2. ~At(d, {"body"})' /\ ~Started(d)'
        BY <3>3 DEF At, Started
      <4> QED
        BY <3>2, <4>1, <4>2, FairKept
    <3>4. CASE ~(pc' = "close" /\ Begun304(r))
      <4>1. r.zero \/ Underway(r, cli'[d])
        BY <1>2, <3>1, <3>4, OpenedUnderway
      <4>2. At(d, {"body"})' /\ ~Started(d)'
        BY <1>2, <3>1, <3>4 DEF At, Started
      <4> QED
        BY <3>2, <4>1, <4>2, UnderwayKept
    <3> QED
      BY <3>3, <3>4
  <2> QED
    BY <2>1, <2>2, <2>4
<1> QED
  BY <1>1, <1>2, <1>3 DEF AnswerOK, Fine, Excused, At, Started

\* The client behind one turn of processs_write's loop, and at its end.
LEMMA ItemClient ==
  ASSUME NEW k \in ClientType, k.iter # <<>>, NEW sent \in Nat
  PROVE  LET c == [k EXCEPT !.iter = Tail(@)]
             s == [c EXCEPT !.write_bytes = sent]
         IN /\ Head(k.iter) \in Nat /\ Tail(k.iter) \in Seq(Nat)
            /\ c \in ClientType /\ c.write_bytes = k.write_bytes /\ c.clset = k.clset
            /\ c.cl = k.cl /\ c.chunked = k.chunked
            /\ s \in ClientType /\ s.iter = Tail(k.iter) /\ s.write_bytes = sent
            /\ s.clset = k.clset /\ s.cl = k.cl /\ s.chunked = k.chunked
            /\ s.response = k.response
<1> DEFINE q == k.iter
           t == Tail(q)
           c == [k EXCEPT !.iter = t]
           s == [c EXCEPT !.write_bytes = sent]
<1>1. Head(q) \in Nat /\ t \in Seq(Nat)
  <2>1. q \in Seq(Nat) /\ q # <<>>
    BY DEF ClientType
  <2> HIDE DEF q
  <2> QED
    BY <2>1
<1> HIDE DEF t
<1>2. /\ c \in ClientType /\ c.iter = t /\ c.write_bytes = k.write_bytes /\ c.clset = k.clset
      /\ c.cl = k.cl /\ c.chunked = k.chunked /\ c.response = k.response
  BY <1>1 DEF ClientType
<1> HIDE DEF c
<1>3. /\ s \in ClientType /\ s.iter = c.iter /\ s.write_bytes = sent
      /\ s.clset = c.clset /\ s.cl = c.cl /\ s.chunked = c.chunked /\ s.response = c.response
  BY <1>2 DEF ClientType
<1> HIDE DEF s
<1> QED
  BY <1>1, <1>2, <1>3 DEF s, c, t

\* One turn that writes an item: the loop goes on with the rest, or ends.
LEMMA ItemWritten ==
  ASSUME IInv, WriteItem, pc = "body", CanWrite
  PROVE  LET k == cli[cur]
             n == cli'[cur]
             len == Head(k.iter)
         IN /\ k.iter # <<>> /\ ~k.response.array
            /\ \E b : Sent(b) /\ b.len = len /\ b.ends = (IF k.chunked /\ len = 0 THEN 1 ELSE 0)
            /\ \/ /\ k.clset /\ k.cl <= k.write_bytes + len /\ pc' = "close"
               \/ /\ ~(k.clset /\ k.cl <= k.write_bytes + len) /\ pc' = "body"
                  /\ n.iter = Tail(k.iter) /\ n.write_bytes = k.write_bytes + len
                  /\ n.clset = k.clset /\ n.cl = k.cl /\ n.chunked = k.chunked
                  /\ n.response = k.response
<1> DEFINE k == cli[cur]
           len == Head(k.iter)
           c == [k EXCEPT !.iter = Tail(@)]
           b == Bucket(c, FALSE, len)
           sent == c.write_bytes + len
           s == [c EXCEPT !.write_bytes = sent]
<1>1. /\ k.iter # <<>> /\ ~k.response.array /\ Sent(b)
      /\ \/ c.clset /\ c.cl <= sent /\ pc' = "close"
         \/ ~(c.clset /\ c.cl <= sent) /\ Client(s) /\ pc' = "body"
  BY DEF WriteItem, BodyDone, Full, CanWrite, Gone
<1>2. k \in ClientType /\ cli \in [Fds -> ClientType] /\ cur \in Fds
  BY Fetch
<1>3. /\ len \in Nat /\ c.write_bytes = k.write_bytes /\ c.write_bytes \in Nat
      /\ c.clset = k.clset /\ c.cl = k.cl /\ c.chunked = k.chunked
  <2>1. 0 \in Nat
    OBVIOUS
  <2> HIDE DEF k
  <2>2. k.write_bytes \in Nat
    BY <1>2 DEF ClientType
  <2> QED
    BY <1>1, <1>2, <2>1, <2>2, ItemClient
<1>4. sent \in Nat /\ sent = k.write_bytes + len
  <2> HIDE DEF c, k, len
  <2> QED
    BY <1>3
<1>5. /\ s.iter = Tail(k.iter) /\ s.write_bytes = sent /\ s.clset = k.clset /\ s.cl = k.cl
      /\ s.chunked = k.chunked /\ s.response = k.response
  <2> HIDE DEF k, sent
  <2> QED
    BY <1>1, <1>2, <1>4, ItemClient
<1>6. b.len = len /\ b.ends = (IF k.chunked /\ len = 0 THEN 1 ELSE 0)
  <2> HIDE DEF c, k, len
  <2> QED
    BY <1>3 DEF Bucket, Ends
<1>7. Client(s) => cli'[cur] = s
  <2> HIDE DEF s
  <2> QED
    BY <1>2 DEF Client
<1> HIDE DEF k, c, b, sent, s
<1> QED
  BY <1>1, <1>3, <1>4, <1>5, <1>6, <1>7 DEF k, len

\* An answer that is underway, with its next item.
LEMMA UnderwayItem ==
  ASSUME NEW r \in AnswerType, NEW k \in ClientType, k.iter # <<>>, Underway(r, k), NEW b,
         b.len = Head(k.iter), b.ends = (IF k.chunked /\ b.len = 0 THEN 1 ELSE 0)
  PROVE  LET x == Extend(r, b)
         IN /\ x.head /\ x.framed /\ x.last = 0 /\ x.chunked = r.chunked /\ x.want = r.want
            /\ x.items = r.items + b.len /\ x.want - x.items \in Nat
            /\ x.items \in Nat /\ x.want \in Nat
            /\ AddUp(Tail(k.iter), x.want - x.items, k.response.total)
            /\ k.chunked => \A i \in DOMAIN Tail(k.iter) : Tail(k.iter)[i] # 0
<1> DEFINE q == k.iter
           total == k.response.total
           x == Extend(r, b)
<1>1. q \in Seq(Nat) /\ q # <<>> /\ total \in Nat
  BY DEF ClientType, AppType
<1>2. /\ AddUp(q, r.want - r.items, total) /\ r.last = 0 /\ r.head /\ r.framed
      /\ k.chunked => \A i \in DOMAIN q : q[i] # 0
  BY DEF Underway
<1>3. r.want \in Nat /\ r.items \in Nat
  BY DEF AnswerType
<1> HIDE DEF q, total
<1>4. /\ r.want - r.items - Head(q) \in 0..total
      /\ AddUp(Tail(q), r.want - r.items - Head(q), total)
  <2>1. PICK n : n = r.want - r.items
    OBVIOUS
  <2>2. n - Head(q) \in 0..total /\ AddUp(Tail(q), n - Head(q), total)
    BY <1>1, <1>2, <2>1, AddUpTail
  <2> QED
    BY <2>1, <2>2
<1>5. /\ Head(q) \in Nat /\ Head(q) = q[1] /\ 1 \in DOMAIN q
      /\ \A i \in DOMAIN Tail(q) : i + 1 \in DOMAIN q /\ Tail(q)[i] = q[i + 1]
  BY <1>1
<1>6. k.chunked => b.len # 0 /\ \A i \in DOMAIN Tail(q) : Tail(q)[i] # 0
  BY <1>2, <1>5 DEF q
<1>7. /\ x.head /\ x.items = r.items + b.len /\ x.last = AddLast(r.last, b.ends)
      /\ x.want = r.want /\ x.chunked = r.chunked /\ x.framed = r.framed
  BY Extended
<1>8. x.last = 0
  BY <1>2, <1>6, <1>7 DEF AddLast, LastCap
<1> HIDE DEF x
<1>9. x.want - x.items = r.want - r.items - Head(q) /\ x.items \in Nat
  BY <1>3, <1>5, <1>7 DEF q
<1>10. x.want - x.items \in Nat /\ AddUp(Tail(q), x.want - x.items, total)
  BY <1>1, <1>4, <1>9
<1> QED
  BY <1>2, <1>3, <1>6, <1>7, <1>8, <1>9, <1>10 DEF q, total, x

\* Where a body is written on a connection that is not excused.
LEMMA BodyPlace ==
  ASSUME IInv, FaultInv, NEW d \in Fds, d = cur, pc \in {"body", "wbody"}, StallOK(d), AnswerOK(d),
         ~Excused(d)
  PROVE  /\ pc = "body" /\ window[d] /\ wire[d] # <<>> /\ cli[d] \in ClientType
         /\ peer[d] # "reset" => Last(wire[d]).zero \/ Underway(Last(wire[d]), cli[d])
<1>1. pc = "body"
  BY DEF StallOK, At, Excused
<1>2. window[d]
  BY Shapes DEF StallOK, Excused
<1>3. wire[d] # <<>>
  BY <1>1 DEF FaultInv, AnsweringOK, Answering
<1>4. peer[d] # "reset" => Last(wire[d]).zero \/ Underway(Last(wire[d]), cli[d])
  BY <1>1 DEF AnswerOK, At
<1> QED
  BY <1>1, <1>2, <1>3, <1>4, Fetch

LEMMA WriteItemAnswer ==
  ASSUME IInv, FaultInv, WriteItem, \A f \in Fds : StallOK(f) /\ AnswerOK(f)
  PROVE  AnswerOK(cur)'
<1>1. PICK d \in Fds : d = cur
  BY Fetch
<1>2. cur' = d /\ pc \in {"body", "wbody"} /\ pc' # "start" /\ UNCHANGED <<peer, script>>
  BY <1>1 DEF WriteItem, ResponseUnchanged, BodyDone
<1>3. AnswerOK(d)'
  <2>0. ~Started(d)'
    BY <1>2 DEF Started, At
  <2>1. CASE Excused(d)
    <3>1. Excused(d)'
      BY <1>2, <2>1 DEF Excused
    <3> QED
      BY <2>0, <3>1, ExcusedAnswer
  <2>2. CASE ~Excused(d) /\ peer[d] = "reset"
    <3>1. UNCHANGED wire /\ pc' # "body"
      BY <1>1, <1>2, <2>2 DEF WriteItem, CanWrite, Full, Gone
    <3> QED
      BY <1>2, <2>0, <2>2, <3>1, QuietAnswer DEF Excused, At
  <2>3. CASE ~Excused(d) /\ peer[d] # "reset"
    <3> DEFINE k == cli[d]
               n == cli'[d]
               len == Head(k.iter)
               r == Last(wire[d])
    <3>1. /\ pc = "body" /\ window[d] /\ wire[d] # <<>> /\ k \in ClientType
          /\ r.zero \/ Underway(r, k)
      BY <1>1, <1>2, <2>3, BodyPlace
    <3>2. k.iter # <<>> /\ ~k.response.array
      BY <1>1 DEF WriteItem
    <3>3. PICK b :
            /\ Sent(b) /\ b.len = len /\ b.ends = (IF k.chunked /\ len = 0 THEN 1 ELSE 0)
            /\ \/ /\ k.clset /\ k.cl <= k.write_bytes + len /\ pc' = "close"
               \/ /\ pc' = "body"
                  /\ n.iter = Tail(k.iter) /\ n.write_bytes = k.write_bytes + len
                  /\ n.clset = k.clset /\ n.cl = k.cl /\ n.chunked = k.chunked
                  /\ n.response = k.response
      <4>1. CanWrite
        BY <1>1, <2>3, <3>1 DEF CanWrite
      <4> QED
        BY <1>1, <3>1, <4>1, ItemWritten
    <3> DEFINE x == Extend(r, b)
    <3>4. /\ wire'[d] # <<>> /\ Sound(wire'[d]) /\ r \in AnswerType /\ Last(wire'[d]) = x
      BY <1>1, <2>3, <3>1, <3>3, SentOn
    <3>5. x.zero = r.zero /\ x.kind = r.kind
      BY <3>4, Extended
    <3>6. Underway(r, k) =>
            /\ x.head /\ x.framed /\ x.last = 0 /\ x.chunked = r.chunked /\ x.want = r.want
            /\ x.items = r.items + len /\ x.want - x.items \in Nat
            /\ x.items \in Nat /\ x.want \in Nat
            /\ AddUp(Tail(k.iter), x.want - x.items, k.response.total)
            /\ k.chunked => \A i \in DOMAIN Tail(k.iter) : Tail(k.iter)[i] # 0
      BY <3>1, <3>2, <3>3, <3>4, UnderwayItem
    <3> HIDE DEF k, n, len, r, x
    <3>7. CASE pc' = "close"
      <4>1. k.clset /\ k.cl <= k.write_bytes + len
        BY <3>3, <3>7
      <4>2. ASSUME Underway(r, k) PROVE Whole(x)
        <5>1. /\ ~k.chunked /\ k.cl = r.want /\ k.write_bytes = r.items /\ r.chunked = k.chunked
          BY <4>1, <4>2 DEF Underway
        <5>2. x.want <= x.items
          BY <3>6, <4>1, <4>2, <5>1
        <5>3. x.items = x.want
          BY <3>6, <4>2, <5>2
        <5> QED
          BY <3>6, <4>2, <5>1, <5>3 DEF Whole
      <4>3. Fair(x)
        BY <3>1, <3>5, <4>2 DEF Fair
      <4>4. ~At(d, {"body"})'
        BY <3>7 DEF At
      <4> QED
        BY <2>0, <3>4, <4>3, <4>4, FairKept
    <3>8. CASE pc' = "body"
      <4>1. /\ n.iter = Tail(k.iter) /\ n.write_bytes = k.write_bytes + len
            /\ n.clset = k.clset /\ n.cl = k.cl /\ n.chunked = k.chunked
            /\ n.response = k.response
        BY <3>3, <3>8
      <4>2. ASSUME Underway(r, k) PROVE Underway(x, n)
        <5>1. x.chunked = n.chunked /\ ~n.response.array
          BY <3>2, <3>6, <4>1, <4>2 DEF Underway, k
        <5>2. n.clset => ~n.chunked /\ n.cl = x.want /\ n.write_bytes = x.items
          BY <3>6, <4>1, <4>2 DEF Underway
        <5>3. /\ AddUp(n.iter, x.want - x.items, n.response.total)
              /\ n.chunked => \A i \in DOMAIN n.iter : n.iter[i] # 0
          BY <3>6, <4>1, <4>2
        <5> QED
          BY <3>6, <4>2, <5>1, <5>2, <5>3 DEF Underway
      <4>3. x.zero \/ Underway(x, n)
        BY <3>1, <3>5, <4>2
      <4>4. At(d, {"body"})'
        BY <1>2, <3>8 DEF At
      <4> QED
        BY <2>0, <3>4, <4>3, <4>4, UnderwayKept DEF n
    <3> QED
      BY <3>3, <3>7, <3>8
  <2> QED
    BY <2>1, <2>2, <2>3
<1> QED
  BY <1>1, <1>2, <1>3 DEF AnswerOK, Fine, Excused, At, Started

LEMMA FinishBodyAnswer ==
  ASSUME IInv, FaultInv, FinishBody, \A f \in Fds : StallOK(f) /\ AnswerOK(f)
  PROVE  AnswerOK(cur)'
<1>1. PICK d \in Fds : d = cur
  BY Fetch
<1>2. /\ cur' = d /\ pc \in {"body", "wbody"} /\ pc' \in {"close", "return"}
      /\ UNCHANGED <<peer, script>>
  BY <1>1 DEF FinishBody, ResponseUnchanged, BodyDone
<1>3. AnswerOK(d)'
  <2>0. ~Started(d)' /\ ~At(d, {"body"})'
    BY <1>2 DEF Started, At
  <2>1. CASE Excused(d)
    <3>1. Excused(d)'
      BY <1>2, <2>1 DEF Excused
    <3> QED
      BY <2>0, <3>1, ExcusedAnswer
  <2>2. CASE ~Excused(d) /\ peer[d] = "reset"
    <3>1. UNCHANGED wire
      BY <1>1, <2>2 DEF FinishBody, CanWrite
    <3> QED
      BY <1>2, <2>0, <2>2, <3>1, QuietAnswer DEF Excused, At
  <2>3. CASE ~Excused(d) /\ peer[d] # "reset"
    <3> DEFINE k == cli[d]
               r == Last(wire[d])
               x == Extend(r, LastPacket)
    <3>1. /\ pc = "body" /\ window[d] /\ wire[d] # <<>> /\ k \in ClientType
          /\ r.zero \/ Underway(r, k)
      BY <1>1, <1>2, <2>3, BodyPlace
    <3>2. k.response.array \/ k.iter = <<>>
      BY <1>1 DEF FinishBody
    <3>3. IF k.chunked THEN Sent(LastPacket) ELSE UNCHANGED wire
      BY <1>1, <2>3, <3>1 DEF FinishBody, CanWrite
    <3>4. r \in AnswerType /\ Sound(wire[d])
      <4>1. wire[d] \in Seq(AnswerType)
        BY Shapes
      <4>2. \A w \in Seq(AnswerType) : w # <<>> => Last(w) \in AnswerType
        BY DEF Last
      <4>3. Sound(wire[d])
        BY <2>3, FairAnswers
      <4> QED
        BY <3>1, <4>1, <4>2, <4>3
    <3>5. ASSUME Underway(r, k)
          PROVE  /\ r.items = r.want /\ r.head /\ r.framed /\ r.last = 0 /\ r.chunked = k.chunked
                 /\ r.items \in Nat
      <4>1. AddUp(<<>>, r.want - r.items, k.response.total) /\ k.response.total \in Nat
        <5>1. k.iter = <<>> /\ AddUp(k.iter, r.want - r.items, k.response.total)
          BY <3>2, <3>5 DEF Underway
        <5>2. k.response.total \in Nat
          BY <3>1 DEF ClientType, AppType
        <5> QED
          BY <5>1, <5>2
      <4>2. r.want - r.items = 0
        <5>1. PICK n : n = r.want - r.items
          OBVIOUS
        <5>2. n = 0
          BY <4>1, <5>1, AddUpNone
        <5> QED
          BY <5>1, <5>2
      <4>3. r.want \in Nat /\ r.items \in Nat
        BY <3>4 DEF AnswerType
      <4> QED
        BY <3>5, <4>2, <4>3 DEF Underway
    <3> HIDE DEF k
    <3>6. CASE k.chunked
      <4>1. /\ wire'[d] # <<>> /\ Sound(wire'[d]) /\ Last(wire'[d]) = x
        BY <1>1, <2>3, <3>1, <3>3, <3>6, SentOn
      <4>2. /\ x.head /\ x.items = r.items + LastPacket.len
            /\ x.last = AddLast(r.last, LastPacket.ends)
            /\ x.want = r.want /\ x.chunked = r.chunked /\ x.framed = r.framed
            /\ x.zero = r.zero
        BY <3>4, Extended
      <4>3. LastPacket.len = 0 /\ LastPacket.ends = 1
        BY DEF NoBucket
      <4> HIDE DEF x, r, LastPacket
      <4>4. ASSUME Underway(r, k) PROVE Whole(x)
        <5>1. x.items = x.want
          BY <3>5, <4>2, <4>3, <4>4
        <5>2. x.last = 1
          BY <3>5, <4>2, <4>3, <4>4 DEF AddLast, LastCap
        <5>3. x.head /\ x.framed
          BY <3>5, <4>2, <4>4
        <5> QED
          BY <5>1, <5>2, <5>3, <3>5, <3>6, <4>2, <4>4 DEF Whole
      <4>5. Fair(x)
        BY <3>1, <4>2, <4>4 DEF Fair
      <4> QED
        BY <2>0, <4>1, <4>5, FairKept
    <3>7. CASE ~k.chunked
      <4>1. wire' = wire
        BY <3>3, <3>7
      <4>2. Underway(r, k) => Whole(r)
        BY <3>5, <3>7 DEF Whole
      <4>3. Fair(r)
        BY <3>1, <4>2 DEF Fair
      <4> QED
        BY <2>0, <3>4, <4>1, <4>3, FairKept
    <3> QED
      BY <3>6, <3>7
  <2> QED
    BY <2>1, <2>2, <2>3
<1> QED
  BY <1>1, <1>2, <1>3 DEF AnswerOK, Fine, Excused, At, Started

LEMMA SuspendedAnswer ==
  ASSUME IInv, SuspendWrite \/ SuspendAborts \/ RetryBucket \/ EmptyIterator \/ ClosedClient,
         \A f \in Fds : StallOK(f) /\ AnswerOK(f)
  PROVE  AnswerOK(cur)'
<1>1. PICK d \in Fds : d = cur
  BY Fetch
<1>2. cur' = d /\ pc' # "start" /\ UNCHANGED <<peer, script>>
  BY <1>1 DEF SuspendWrite, SuspendAborts, RetryBucket, EmptyIterator, ClosedClient, Crash,
     ResponseUnchanged
<1>3. ~Started(d)'
  BY <1>2 DEF Started, At
<1>4. AnswerOK(d)'
  <2>1. CASE SuspendWrite \/ SuspendAborts \/ RetryBucket
    <3>1. pc \in {"suspend", "retry"}
      BY <2>1 DEF SuspendWrite, SuspendAborts, RetryBucket
    <3>2. Excused(d)'
      BY <1>1, <1>2, <3>1 DEF StallOK, At, Excused
    <3> QED
      BY <1>3, <3>2, ExcusedAnswer
  <2>2. CASE EmptyIterator \/ ClosedClient
    <3>1. pc = "start" /\ pc' = "crashed" /\ UNCHANGED wire
      BY <2>2 DEF EmptyIterator, ClosedClient, Crash
    <3> QED
      BY <1>2, <1>3, <3>1, QuietAnswer DEF Excused, At
  <2> QED
    BY <2>1, <2>2
<1> QED
  BY <1>1, <1>2, <1>4 DEF AnswerOK, Fine, Excused, At, Started

LEMMA NextAnswer ==
  ASSUME IInv, ServeInv, FaultInv, [Next]_vars,
         \A f \in Fds : StallOK(f) /\ HeadOK(f) /\ AnswerOK(f)
  PROVE  \A f \in Fds : AnswerOK(f)'
<1> DEFINE P == \A f \in Fds : AnswerOK(f)'
<1>1. Stop \/ UNCHANGED vars => P
  BY DEF Stop, AnswerOK, Fine, Excused, At, Started
<1>2. (\E d \in Fds : Peer(d) \/ Event(d)) \/ AcceptEvent \/ LoopExit \/ Return => P
  BY PeerAnswer, ControlAnswer, EventAnswer DEF Event
<1>3. Accepting => P
  BY ControlAnswer, EventAnswer DEF Accepting
<1>4. ReadRequest \/ Parse \/ Serve \/ Respond \/ Close => P
  <2>1. SUFFICES ASSUME ReadRequest \/ Parse \/ Serve \/ Respond \/ Close PROVE P
    OBVIOUS
  <2>2. Apart /\ cur' = cur
    BY <2>1, ReadApart, ServeApart, RespondApart, CloseApart
  <2>3. AnswerOK(cur)'
    <3>1. Serve => AnswerOK(cur)'
      BY SilentAnswer, PrepareAnswer, PageAnswer DEF Serve
    <3>2. Respond => AnswerOK(cur)'
      BY WriteHeadersAnswer, WriteItemAnswer, FinishBodyAnswer, SuspendedAnswer DEF Respond
    <3> QED
      BY <2>1, <3>1, <3>2, SilentAnswer
  <2>4. PICK d \in Fds : d = cur
    BY Fetch
  <2>5. AnswerOK(d)'
    BY <2>2, <2>3, <2>4 DEF AnswerOK, Fine, Excused, At, Started
  <2> QED
    BY <2>2, <2>4, <2>5, ApartAnswer
<1>5. P
  <2> HIDE DEF P
  <2> QED
    BY <1>1, <1>2, <1>3, <1>4 DEF Next, Callback
<1> QED
  BY <1>5

LEMMA InitFraming == ASSUME Init PROVE FramingInv
<1>1. ASSUME NEW f \in Fds PROVE StallOK(f)
  <2>1. inbox[f] = <<>> /\ window[f] /\ reg[f].ev = "none" /\ pc = "loop"
    BY DEF Init, NoReg
  <2>2. ~OldIn(<<>>)
    BY DEF OldIn
  <2> QED
    BY <2>1, <2>2 DEF StallOK, At
<1>2. ASSUME NEW f \in Fds PROVE HeadOK(f)
  BY DEF Init, HeadOK
<1>3. ASSUME NEW f \in Fds PROVE AnswerOK(f)
  <2>1. wire[f] = <<>> /\ pc = "loop"
    BY DEF Init
  <2> QED
    BY <2>1 DEF AnswerOK, At, Started
<1> QED
  BY <1>1, <1>2, <1>3 DEF FramingInv

LEMMA NextFraming ==
  ASSUME IInv, ServeInv, FaultInv, FramingInv, [Next]_vars PROVE FramingInv'
<1>1. \A f \in Fds : StallOK(f) /\ HeadOK(f) /\ AnswerOK(f)
  BY DEF FramingInv
<1>2. \A f \in Fds : StallOK(f)'
  BY <1>1, NextStall
<1>3. \A f \in Fds : HeadOK(f)'
  BY <1>1, NextHead
<1>4. \A f \in Fds : AnswerOK(f)'
  BY <1>1, NextAnswer
<1> QED
  BY <1>2, <1>3, <1>4 DEF FramingInv

-----------------------------------------------------------------------------
(* The theorems.                                                           *)

\* A peer that waits for each answer has one request at most that was not
\* answered, on every connection and at every place of the thread: SoloInv.
THEOREM SoloInvariance ==
  ASSUME "pipeline" \notin Peers
  PROVE  Spec => []SoloInv
<1>1. Init => SoloInv
  BY InitSolo
<1>2. IInv /\ ServeInv /\ SoloInv /\ [Next]_vars => SoloInv'
  BY NextSolo
<1> QED
  BY <1>1, <1>2, Invariance, ServeInvariance, PTL DEF Spec

\* Each crash of the server has one of the named causes, and without pipelining
\* no closed client is used.
THEOREM FaultsHaveCauses == Spec => []FaultCauses
<1>1. FaultInv /\ "pipeline" \in Peers => FaultCauses
  BY DEF FaultInv, FaultCauses
<1>2. FaultInv /\ SoloInv => FaultCauses
  BY DEF FaultInv, SoloInv, ThreadOK, FaultCauses
<1>3. CASE "pipeline" \in Peers
  <2>1. FaultInv => FaultCauses
    BY <1>1, <1>3
  <2> QED
    BY <2>1, FaultInvariance, PTL
<1>4. CASE "pipeline" \notin Peers
  <2>1. Spec => []SoloInv
    BY <1>4, SoloInvariance
  <2> QED
    BY <1>2, <2>1, FaultInvariance, PTL
<1> QED
  BY <1>3, <1>4

\* The application gets whole requests only, unless a peer pipelines: close_client
\* does not look at bad_request_code before it serves the next request.
THEOREM BadRequestsNotCalled ==
  ASSUME "pipeline" \notin Peers
  PROVE  Spec => []BadRequestNotCalled
<1>1. SoloInv => BadRequestNotCalled
  BY DEF SoloInv, WholeOK, BadRequestNotCalled, Called, Range
<1> QED
  BY <1>1, SoloInvariance, PTL

\* Where the thread is, what stands on the wire is complete and framed, or is
\* the one body underway, whose rest adds up to what it lacks: FramingInv.
THEOREM FramingInvariance == Spec => []FramingInv
<1>1. Init => FramingInv
  BY InitFraming
<1>2. IInv /\ ServeInv /\ FaultInv /\ FramingInv /\ [Next]_vars => FramingInv'
  BY NextFraming
<1> QED
  BY <1>1, <1>2, Invariance, ServeInvariance, FaultInvariance, PTL DEF Spec

\* No status line follows an answer that was cut, or whose end the peer cannot
\* find, but for the three named causes.
THEOREM NothingAfterCut == Spec => []NothingAfterCutAnswer
<1>1. FramingInv => NothingAfterCutAnswer
  BY DEF FramingInv, AnswerOK, Fine, Excused, NothingAfterCutAnswer
<1> QED
  BY <1>1, FramingInvariance, PTL

-----------------------------------------------------------------------------
(* The core's theorems on epoll.                                           *)

\* No callback on epoll gets a client_t that close_client freed.
THEOREM EpollNoDangling == EpollSpec => []NoDanglingCallback
BY EpollImplementsCore, NoDangling, PTL

\* On epoll, too, no connection is forgotten between two callbacks.
THEOREM EpollNoLost == EpollSpec => []NoLostConnection
BY EpollImplementsCore, NoLost, PTL

\* On epoll, too, a peer's requests reach the application once and in their order.
THEOREM EpollCallsInOrder == EpollSpec => []CalledOnceInOrder
BY EpollImplementsCore, ServiceCallsInOrder, PTL

\* On epoll, too, its answers come back in that order.
THEOREM EpollAnswersInOrder == EpollSpec => []AnsweredOnceInOrder
BY EpollImplementsCore, ServiceAnswersInOrder, PTL

\* On epoll, too, a crash of the server has one of the named causes.
THEOREM EpollFaultsHaveCauses == EpollSpec => []FaultCauses
BY EpollImplementsCore, FaultsHaveCauses, PTL

\* On epoll, too, no status line follows a cut answer.
THEOREM EpollNothingAfterCut == EpollSpec => []NothingAfterCutAnswer
BY EpollImplementsCore, NothingAfterCut, PTL
=============================================================================
