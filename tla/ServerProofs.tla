---------------------------- MODULE ServerProofs ----------------------------
(***************************************************************************)
(* Proofs about Server, for any number of descriptors and connections:     *)
(* what the globals listen_sock, log_fd and epfd name, that nothing else   *)
(* is closed under their numbers, and that nothing bossan opened is left   *)
(* without a name.                                                         *)
(***************************************************************************)
EXTENDS Server, WellFoundedInduction, TLAPS

USE ServerAssumption DEF vars, globals, loopVars

-----------------------------------------------------------------------------
(* The kernel's table.                                                     *)

\* A set of natural numbers has a least element.
LEMMA LeastNumber ==
  ASSUME NEW S \in SUBSET Nat, S # {}
  PROVE  Min(S) \in S
<1> DEFINE R == {p \in Nat \X Nat : p[1] < p[2]}
<1>1. IsWellFoundedOn(R, Nat)
  BY NatLessThanWellFounded DEF OpToRel
<1>2. PICK x \in S : \A y \in S : ~(<<y, x>> \in R)
  BY <1>1, WFMin
<1>3. ASSUME NEW y \in S PROVE x <= y
  <2>1. y \in Nat /\ x \in Nat /\ ~(<<y, x>> \in R)
    BY <1>2
  <2>2. ~(y < x)
    BY <2>1
  <2> QED
    BY <2>1, <2>2
<1> QED
  BY <1>3 DEF Min

Tables == [0 .. NumFds - 1 -> Objects]

\* A descriptor that is opened was free, and no other changes.
LEMMA Opening ==
  ASSUME NEW table \in Tables, NEW obj \in Objects, \E f \in DOMAIN table : table[f] = Free
  PROVE  /\ Lowest(table) \in 0 .. NumFds - 1 /\ table[Lowest(table)] = Free
         /\ Opened(table, obj) \in Tables /\ DOMAIN Opened(table, obj) = DOMAIN table
         /\ \A f \in DOMAIN table :
              Opened(table, obj)[f] = IF f = Lowest(table) THEN obj ELSE table[f]
<1>1. {f \in DOMAIN table : table[f] = Free} \in SUBSET Nat
  BY DEF Tables
<1>2. Lowest(table) \in {f \in DOMAIN table : table[f] = Free}
  BY <1>1, LeastNumber DEF Lowest
<1> QED
  BY <1>2 DEF Tables, Opened

\* A descriptor that is closed is free, and no other changes.
LEMMA Closing ==
  ASSUME NEW table \in Tables, NEW f
  PROVE  /\ Closed(table, f) \in Tables /\ DOMAIN Closed(table, f) = DOMAIN table
         /\ \A g \in DOMAIN table : Closed(table, f)[g] = IF g = f THEN Free ELSE table[g]
BY DEF Tables, Closed, Free, Obj, Objects

\* The objects that the code opens.
LEMMA ObjectTypes ==
  /\ Free \in Objects /\ Free.is = "free" /\ Free.name = ""
  /\ \A f \in {0, 1, 2} : Stream(f) \in Objects /\ Stream(f).is = "stream"
  /\ Stream(1).name = "stdout" /\ Stream(2).name = "stderr"
  /\ \A name \in {"inet", "unix"} : /\ Obj("listener", name) \in Objects
                                     /\ Obj("listener", name).is = "listener"
                                     /\ Obj("listener", name).name = name
  /\ Obj("epoll", "") \in Objects /\ Obj("epoll", "").is = "epoll"
  /\ Obj("client", "") \in Objects /\ Obj("client", "").is = "client"
  /\ Obj("other", "") \in Objects /\ Obj("other", "").is = "other"
  /\ \A name \in {"", "stdout", "stderr", "app.log"} : /\ Obj("file", name) \in Objects
                                                        /\ Obj("file", name).is = "file"
                                                        /\ Obj("file", name).name = name
BY DEF Free, Obj, Objects, Stream

\* What the invariant says of the numbers.
LEMMA Numbering ==
  ASSUME IInv
  PROVE  /\ fds \in Tables /\ DOMAIN fds = 0 .. NumFds - 1 /\ 0 \in DOMAIN fds
         /\ 1 \in DOMAIN fds /\ 2 \in DOMAIN fds
         /\ listen_sock \in Int /\ log_fd \in Int /\ epfd \in Int /\ watched \in Int
         /\ listen_sock > 0 => listen_sock \in DOMAIN fds
         /\ log_fd > 0 => log_fd \in DOMAIN fds
         /\ epfd # -1 => epfd \in DOMAIN fds
         /\ watched # -1 => watched \in DOMAIN fds
<1>1. fds \in Tables /\ DOMAIN fds = 0 .. NumFds - 1 /\ NumFds \in Nat /\ NumFds > 3
  BY DEF IInv, TypeOK, Tables
<1>2. /\ listen_sock \in Numbers /\ log_fd \in Numbers /\ epfd \in Numbers
      /\ watched \in Numbers
  BY DEF IInv, TypeOK
<1>3. \A n \in Numbers : n # -1 => n \in DOMAIN fds
  BY <1>1 DEF Numbers
<1>4. 0 \in DOMAIN fds /\ 1 \in DOMAIN fds /\ 2 \in DOMAIN fds
  BY <1>1
<1> QED
  BY <1>1, <1>2, <1>3, <1>4 DEF Numbers

\* A listener that listen may forget is descriptor 0.
LEMMA ForgottenListener ==
  ASSUME IInv, listen_sock <= 0, NEW f \in DOMAIN fds, fds[f].is = "listener"
  PROVE  "zero" \in past
<1>1. f = listen_sock \/ "zero" \in past
  BY DEF IInv, OwnedOK, DescriptorsOwned
<1>2. f = listen_sock => f = 0
  BY Numbering
<1> QED
  BY <1>1, <1>2 DEF IInv, OwnedOK

-----------------------------------------------------------------------------
(* Every step keeps the invariant.                                         *)

LEMMA InitInv == ASSUME Init PROVE IInv
<1> DEFINE Table(stdin) == [f \in 0 .. NumFds - 1 |->
                              IF f = 0 THEN stdin ELSE IF f < 3 THEN Stream(f) ELSE Free]
<1>1. PICK stdin \in {Free, Stream(0)} : fds = Table(stdin)
  BY DEF Init
<1>2. stdin \in Objects /\ stdin.is \in {"free", "stream"}
  BY ObjectTypes
<1>3. \A f \in 0 .. NumFds - 1 : /\ Table(stdin)[f] \in Objects
                                 /\ Table(stdin)[f].is \in {"free", "stream"}
  <2>1. SUFFICES ASSUME NEW f \in 0 .. NumFds - 1
                 PROVE  /\ Table(stdin)[f] \in Objects
                        /\ Table(stdin)[f].is \in {"free", "stream"}
    OBVIOUS
  <2>2. \/ f = 0 /\ Table(stdin)[f] = stdin
        \/ f \in {1, 2} /\ Table(stdin)[f] = Stream(f)
        \/ f >= 3 /\ Table(stdin)[f] = Free
    OBVIOUS
  <2>3. f \in {1, 2} => Stream(f) \in Objects /\ Stream(f).is \in {"free", "stream"}
    BY ObjectTypes
  <2>4. Free \in Objects /\ Free.is \in {"free", "stream"}
    BY ObjectTypes
  <2> HIDE DEF Table
  <2> QED
    BY <1>2, <2>2, <2>3, <2>4
<1>4. /\ listen_sock = 0 /\ log_fd = -1 /\ epfd = -1 /\ log_path = "" /\ static_env = FALSE
      /\ main_loop = "none" /\ watched = -1 /\ loop_done = FALSE
      /\ place = "ruby" /\ past = {}
  BY DEF Init
<1>5. TypeOK
  <2>1. 0 \in Numbers /\ -1 \in Numbers
    BY DEF Numbers
  <2> HIDE DEF Table
  <2>2. fds \in [0 .. NumFds - 1 -> Objects]
    BY <1>1, <1>3 DEF Table
  <2> QED
    BY <1>4, <2>1, <2>2 DEF TypeOK
<1> HIDE DEF Table
<1>8. fds[1] = Stream(1) /\ fds[2] = Stream(2)
  BY <1>1 DEF Table
<1>6. LogOK /\ ListenerOK /\ LoopOK
  <2>0. ~(log_fd > 0) /\ ~(listen_sock > 0)
    <3>1. log_fd = -1 /\ listen_sock = 0
      BY <1>4
    <3> QED
      BY <3>1
  <2>1. LogOK
    BY <1>8, <2>0 DEF LogOK
  <2>2. ListenerOK
    BY <2>0 DEF ListenerOK
  <2>3. LoopOK
    BY <1>4 DEF LoopOK
  <2> QED
    BY <2>1, <2>2, <2>3
<1>7. OwnedOK
  <2>1. \A f \in DOMAIN fds : fds[f].is \in {"free", "stream"}
    BY <1>1, <1>3 DEF Table
  <2>2. 0 \in DOMAIN fds
    BY <1>1 DEF Table
  <2> QED
    BY <2>1, <2>2 DEF OwnedOK, DescriptorsOwned
<1> QED
  BY <1>5, <1>6, <1>7 DEF IInv

\* Steps that leave the descriptors alone.
LEMMA PlaceInv ==
  ASSUME IInv, InetFails \/ InetUndefined \/ RunAdd \/ AcceptDies \/ Raise \/ Stop
  PROVE  IInv'
<1>1. /\ UNCHANGED <<fds, log_fd, epfd, log_path, static_env, main_loop, past>>
      /\ listen_sock' = listen_sock \/ (listen_sock <= 0 /\ listen_sock' = -1 /\ place = "ruby")
      /\ watched' = watched \/ watched' = listen_sock
      /\ place' \in {"ruby", "start", "loop", "blocked", "crashed"} /\ loop_done' \in BOOLEAN
      /\ place' \in {"start", "loop", "blocked"} => place \in {"start", "loop", "blocked"}
  BY DEF IInv, TypeOK, InetFails, InetUndefined, RunAdd, AcceptDies, Raise, Stop, MayListen, Flag
<1>2. TypeOK'
  <2>1. -1 \in Numbers
    BY DEF Numbers
  <2> QED
    BY <1>1, <2>1 DEF IInv, TypeOK
<1>3. LogOK' /\ ListenerOK'
  <2>1. LogOK'
    BY <1>1 DEF IInv, LogOK, Straight
  <2>2. ListenerOK'
    <3>1. CASE listen_sock' = listen_sock
      BY <1>1, <3>1 DEF IInv, ListenerOK, Straight
    <3>2. CASE listen_sock' = -1
      BY <3>2 DEF ListenerOK
    <3> QED
      BY <1>1, <3>1, <3>2
  <2> QED
    BY <2>1, <2>2
<1>4. LoopOK'
  <2>1. CASE RunAdd
    <3>1. Straight /\ listen_sock > 0 => fds[listen_sock].is = "listener"
      BY <2>1 DEF RunAdd, IInv, ListenerOK, LoopOK
    <3>2. place' \in {"loop", "crashed"} /\ place = "start"
          /\ (Straight /\ listen_sock > 0 => watched' = listen_sock)
      BY <2>1, <3>1, Numbering DEF RunAdd
    <3> QED
      BY <1>1, <2>1, <3>2 DEF RunAdd, IInv, LoopOK, Straight
  <2>2. CASE InetFails \/ InetUndefined \/ Raise
    BY <1>1, <2>2 DEF IInv, LoopOK, Straight, InetFails, InetUndefined, Raise, MayListen
  <2>3. CASE AcceptDies \/ Stop
    BY <1>1, <2>3 DEF IInv, LoopOK, Straight, AcceptDies, Stop
  <2> QED
    BY <2>1, <2>2, <2>3
<1>5. OwnedOK'
  <2>1. CASE listen_sock' = listen_sock
    BY <1>1, <2>1 DEF IInv, OwnedOK, DescriptorsOwned
  <2>2. CASE listen_sock <= 0 /\ listen_sock' = -1
    <3>1. \A f \in DOMAIN fds : fds[f].is = "listener" => "zero" \in past
      BY <2>2, ForgottenListener
    <3> QED
      BY <1>1, <3>1 DEF IInv, OwnedOK, DescriptorsOwned
  <2> QED
    BY <1>1, <2>1, <2>2
<1> QED
  BY <1>2, <1>3, <1>4, <1>5 DEF IInv

\* Every number that opens a descriptor was free before.
LEMMA ListenInv ==
  ASSUME IInv, InetListen \/ UnixListen PROVE IInv'
<1> DEFINE n == Lowest(fds)
<1>1. PICK name \in {"inet", "unix"} :
         /\ fds' = Opened(fds, Obj("listener", name))
         /\ name = "inet" => static_env' = TRUE
         /\ static_env' \in {static_env, TRUE}
  BY DEF InetListen, UnixListen, SetupStaticEnv
<1>2. /\ UNCHANGED <<log_fd, epfd, log_path, main_loop, watched, loop_done, place>>
      /\ listen_sock' = n /\ past' = (IF n = 0 THEN past \cup {"zero"} ELSE past)
      /\ place = "ruby" /\ listen_sock <= 0 /\ HasRoom
  BY DEF InetListen, UnixListen, MayListen
<1>3. /\ n \in 0 .. NumFds - 1 /\ fds[n] = Free /\ fds' \in Tables /\ DOMAIN fds' = DOMAIN fds
      /\ \A f \in DOMAIN fds : fds'[f] = IF f = n THEN Obj("listener", name) ELSE fds[f]
  BY <1>1, <1>2, Numbering, ObjectTypes, Opening DEF HasRoom
<1> HIDE DEF n
<1>4. /\ Obj("listener", name).is = "listener" /\ Obj("listener", name).name = name
      /\ Free.is = "free"
  BY ObjectTypes
<1>5. TypeOK'
  <2>1. listen_sock' \in Numbers
    BY <1>2, <1>3 DEF Numbers
  <2>2. fds' \in [0 .. NumFds - 1 -> Objects]
    BY <1>3 DEF Tables
  <2>3. static_env' \in BOOLEAN
    BY <1>1 DEF IInv, TypeOK
  <2> QED
    BY <1>2, <2>1, <2>2, <2>3 DEF IInv, TypeOK
<1>6. Straight' = Straight
  BY <1>2 DEF Straight
<1>7. LogOK'
  <2>1. n \notin {1, 2} \/ ~Straight
    <3>1. Stream(1).is = "stream" /\ Stream(2).is = "stream"
      BY ObjectTypes
    <3>2. Straight => fds[1] = Stream(1) /\ fds[2] = Stream(2)
      BY DEF IInv, LogOK
    <3> QED
      BY <1>3, <1>4, <3>1, <3>2
  <2>2. Straight /\ log_fd > 0 => n # log_fd
    BY <1>3, <1>4 DEF IInv, LogOK
  <2> QED
    BY <1>2, <1>3, <1>6, <2>1, <2>2, Numbering DEF IInv, LogOK
<1>8. ListenerOK'
  BY <1>1, <1>2, <1>3, <1>4, Numbering DEF ListenerOK
<1>9. LoopOK'
  <2>1. Straight /\ main_loop = "live" => n # epfd
    BY <1>3, <1>4 DEF IInv, LoopOK
  <2> QED
    BY <1>2, <1>3, <1>6, <2>1, Numbering DEF IInv, LoopOK
<1>10. OwnedOK'
  <2>1. \A f \in DOMAIN fds : fds[f].is = "listener" => "zero" \in past
    BY <1>2, ForgottenListener
  <2>2. DescriptorsOwned'
    BY <1>2, <1>3, <1>4, <2>1 DEF IInv, OwnedOK, DescriptorsOwned
  <2> QED
    BY <1>2, <1>3, <1>4, <2>2, Numbering DEF IInv, OwnedOK
<1> QED
  BY <1>5, <1>7, <1>8, <1>9, <1>10 DEF IInv

LEMMA UnixRaisesInv ==
  ASSUME IInv, UnixRaises PROVE IInv'
<1>1. /\ UNCHANGED <<fds, log_fd, epfd, log_path, static_env, main_loop, watched, loop_done, place>>
      /\ place = "ruby" /\ listen_sock <= 0
      /\ \/ listen_sock' = -1 /\ past' = past
         \/ /\ HasRoom /\ listen_sock' = Lowest(fds)
            /\ past' = past \cup {"listen raised"}
  BY DEF UnixRaises, MayListen
<1>2. listen_sock' \in Numbers
  <2>1. -1 \in Numbers
    BY DEF Numbers
  <2>2. ASSUME HasRoom PROVE Lowest(fds) \in Numbers
    <3>1. Lowest(fds) \in 0 .. NumFds - 1
      BY <2>2, Numbering, ObjectTypes, Opening DEF HasRoom
    <3> QED
      BY <3>1 DEF Numbers
  <2> QED
    BY <1>1, <2>1, <2>2
<1>3. TypeOK'
  BY <1>1, <1>2 DEF IInv, TypeOK
<1>4. Straight' => Straight /\ past' = past /\ ~(listen_sock' > 0)
  <2>1. CASE listen_sock' = -1 /\ past' = past
    <3>1. ~(listen_sock' > 0)
      BY <2>1
    <3> QED
      BY <2>1, <3>1 DEF Straight
  <2>2. CASE past' = past \cup {"listen raised"}
    BY <2>2 DEF Straight
  <2> QED
    BY <1>1, <2>1, <2>2
<1>5. LogOK' /\ ListenerOK' /\ LoopOK'
  BY <1>1, <1>4 DEF IInv, LogOK, ListenerOK, LoopOK
<1>6. \A f \in DOMAIN fds : fds[f].is = "listener" => "zero" \in past
  BY <1>1, ForgottenListener
<1>7. OwnedOK'
  BY <1>1, <1>6, Numbering DEF IInv, OwnedOK, DescriptorsOwned
<1> QED
  BY <1>3, <1>5, <1>7 DEF IInv

\* What bossan opened stays owned while it opens nothing but a log line's file.
OwnedStep ==
  /\ DOMAIN fds' = DOMAIN fds /\ past \subseteq past'
  /\ listen_sock' = listen_sock /\ log_fd' = log_fd
  /\ \A f \in DOMAIN fds :
       /\ fds'[f].is = "listener" => fds[f].is = "listener"
       /\ fds'[f].is = "epoll" => fds[f].is = "epoll" /\ epfd' = epfd /\ main_loop' = main_loop
       /\ fds'[f].is = "file" => fds[f].is = "file" \/ "line reopened" \in past'

LEMMA OwnedKept ==
  ASSUME OwnedOK, 0 \in DOMAIN fds, OwnedStep
  PROVE  OwnedOK'
<1> USE DEF OwnedStep
<1> DEFINE lost == past \cap {"zero", "line reopened"} # {}
<1>1. /\ "zero" \in past => "zero" \in past'
      /\ lost \/ "line reopened" \in past' => lost'
  OBVIOUS
<1>2. \A f \in DOMAIN fds :
         /\ fds[f].is = "listener" => f = listen_sock \/ "zero" \in past
         /\ fds[f].is = "epoll" => f = epfd /\ main_loop = "live"
         /\ fds[f].is = "file" => f = log_fd \/ lost
  BY DEF OwnedOK, DescriptorsOwned
<1>3. (fds[0].is = "listener" => "zero" \in past) /\ (fds[0].is = "file" => lost)
  BY DEF OwnedOK
<1>4. (fds'[0].is = "listener" => "zero" \in past') /\ (fds'[0].is = "file" => lost')
  <2> HIDE DEF lost
  <2> QED
    BY <1>1, <1>3
<1>5. \A f \in DOMAIN fds' :
         /\ fds'[f].is = "listener" => f = listen_sock' \/ "zero" \in past'
         /\ fds'[f].is = "epoll" => f = epfd' /\ main_loop' = "live"
         /\ fds'[f].is = "file" => f = log_fd' \/ lost'
  <2> HIDE DEF lost
  <2> QED
    BY <1>1, <1>2
<1> QED
  BY <1>4, <1>5 DEF OwnedOK, DescriptorsOwned

\* Descriptors that no global names come and go.
Strange == {"free", "client", "other"}

LEMMA StrangersInv ==
  ASSUME IInv, fds' \in Tables,
         past' \in {past, past \cup {"line reopened"}},
         \A f \in DOMAIN fds :
           \/ fds'[f] = fds[f]
           \/ /\ fds[f].is \in Strange
              /\ \/ fds'[f].is \in Strange
                 \/ fds'[f].is = "file" /\ "line reopened" \in past',
         UNCHANGED <<globals, loopVars>>,
         place' = place \/ {place, place'} \subseteq {"loop", "blocked"}
  PROVE  IInv'
<1>1. DOMAIN fds' = DOMAIN fds
  BY Numbering DEF Tables
<1>2. TypeOK'
  BY DEF IInv, TypeOK, Tables
<1>3. Straight' = Straight
  BY DEF Straight
<1>4. \A f \in DOMAIN fds : fds[f].is \notin Strange => fds'[f] = fds[f]
  OBVIOUS
<1>5. LogOK'
  <2>1. Straight => fds'[1] = fds[1] /\ fds'[2] = fds[2]
    BY <1>4, Numbering, ObjectTypes DEF IInv, LogOK, Strange
  <2>2. Straight /\ log_fd > 0 => fds'[log_fd] = fds[log_fd]
    BY <1>4, Numbering DEF IInv, LogOK, Strange
  <2> QED
    BY <1>3, <2>1, <2>2 DEF IInv, LogOK
<1>6. ListenerOK'
  <2>1. Straight /\ main_loop # "destroyed" /\ listen_sock > 0 => fds'[listen_sock] = fds[listen_sock]
    BY <1>4, Numbering DEF IInv, ListenerOK, Strange
  <2> QED
    BY <1>3, <2>1 DEF IInv, ListenerOK
<1>7. LoopOK'
  <2>1. Straight /\ main_loop = "live" => fds'[epfd] = fds[epfd]
    BY <1>4, Numbering DEF IInv, LoopOK, Strange
  <2> QED
    BY <1>3, <2>1 DEF IInv, LoopOK
<1>8. OwnedOK'
  <2>1. \A f \in DOMAIN fds : /\ fds'[f].is = "listener" => fds[f].is = "listener"
                              /\ fds'[f].is = "epoll" =>
                                   fds[f].is = "epoll" /\ epfd' = epfd /\ main_loop' = main_loop
                              /\ fds'[f].is = "file" =>
                                   fds[f].is = "file" \/ "line reopened" \in past'
    BY DEF Strange
  <2>2. past \subseteq past'
    OBVIOUS
  <2>3. OwnedStep
    <3>1. DOMAIN fds' = DOMAIN fds /\ listen_sock' = listen_sock /\ log_fd' = log_fd
      BY <1>1
    <3> QED
      BY <2>1, <2>2, <3>1, Zenon DEF OwnedStep
  <2> QED
    BY <2>3, Numbering, OwnedKept DEF IInv
<1> QED
  BY <1>2, <1>5, <1>6, <1>7, <1>8 DEF IInv

LEMMA AcceptInv ==
  ASSUME IInv, Accept \/ AppOpen PROVE IInv'
<1>1. PICK obj \in {Obj("client", ""), Obj("other", "")} :
         HasRoom /\ fds' = Opened(fds, obj) /\ UNCHANGED <<globals, loopVars, past>>
  BY DEF Accept, AppOpen
<1>2. place' = place \/ {place, place'} \subseteq {"loop", "blocked"}
  BY DEF Accept, AppOpen
<1>3. obj \in Objects /\ obj.is \in Strange /\ Free.is \in Strange
  BY ObjectTypes DEF Strange
<1>4. /\ fds' \in Tables
      /\ \A f \in DOMAIN fds :
           fds'[f] = fds[f] \/ (fds[f].is \in Strange /\ fds'[f].is \in Strange)
  <2> DEFINE g == Lowest(fds)
  <2>1. fds \in Tables /\ \E f \in DOMAIN fds : fds[f] = Free
    BY <1>1, Numbering DEF HasRoom
  <2>2. /\ Opened(fds, obj) \in Tables /\ fds[g] = Free
        /\ \A f \in DOMAIN fds : Opened(fds, obj)[f] = IF f = g THEN obj ELSE fds[f]
    BY <1>3, <2>1, Opening
  <2> HIDE DEF g
  <2>3. fds' = Opened(fds, obj)
    BY <1>1
  <2> QED
    BY <1>3, <2>2, <2>3
<1> QED
  BY <1>1, <1>2, <1>4, StrangersInv

\* What the end of a connection does to the table: its descriptor is closed, and the log
\* may have been opened again.
LEMMA LoggedTable ==
  ASSUME IInv, NEW f, Logged(f)
  PROVE  /\ fds' \in Tables /\ past' \in {past, past \cup {"line reopened"}}
         /\ \A g \in DOMAIN fds :
              \/ fds'[g] = fds[g]
              \/ fds'[g] = Free /\ g = f
              \/ fds[g] = Free /\ fds'[g].is = "file" /\ "line reopened" \in past'
              \/ fds[g] = Free /\ fds'[g] = Free
<1>1. CASE fds' = Closed(fds, f) /\ UNCHANGED past
  <2>1. /\ fds' \in Tables
        /\ \A g \in DOMAIN fds : fds'[g] = IF g = f THEN Free ELSE fds[g]
    BY <1>1, Numbering, Closing
  <2> QED
    BY <1>1, <2>1
<1>2. CASE /\ HasRoom /\ fds' = Closed(Opened(fds, Obj("file", log_path)), f)
           /\ past' = past \cup {"line reopened"}
  <2> DEFINE obj == Obj("file", log_path)
             table == Opened(fds, obj)
  <2>1. obj \in Objects /\ obj.is = "file"
    BY ObjectTypes DEF IInv, TypeOK
  <2> HIDE DEF obj
  <2>2. /\ table \in Tables /\ DOMAIN table = DOMAIN fds
        /\ \A g \in DOMAIN fds : table[g] = fds[g] \/ (fds[g] = Free /\ table[g] = obj)
    <3>1. fds \in Tables /\ \E g \in DOMAIN fds : fds[g] = Free
      BY <1>2, Numbering DEF HasRoom
    <3>2. /\ table \in Tables /\ DOMAIN table = DOMAIN fds /\ fds[Lowest(fds)] = Free
          /\ \A g \in DOMAIN fds : table[g] = IF g = Lowest(fds) THEN obj ELSE fds[g]
      BY <2>1, <3>1, Opening
    <3> QED
      BY <3>2
  <2> HIDE DEF table
  <2>3. fds' = Closed(table, f)
    BY <1>2 DEF table, obj
  <2>4. /\ fds' \in Tables
        /\ \A g \in DOMAIN table : fds'[g] = IF g = f THEN Free ELSE table[g]
    BY <2>2, <2>3, Closing
  <2> QED
    BY <1>2, <2>1, <2>2, <2>4
<1> QED
  BY <1>1, <1>2 DEF Logged

LEMMA CloseInv ==
  ASSUME IInv, NEW f \in DOMAIN fds, CloseClient(f) \/ AppClose(f) PROVE IInv'
<1>1. UNCHANGED <<globals, loopVars, place>> /\ fds[f].is \in Strange /\ Free.is \in Strange
  BY ObjectTypes DEF CloseClient, AppClose, Is, Strange
<1>2. CASE CloseClient(f)
  BY <1>1, <1>2, LoggedTable, StrangersInv DEF CloseClient
<1>3. CASE AppClose(f)
  <2>1. fds' = Closed(fds, f) /\ past' = past
    BY <1>3 DEF AppClose
  <2>2. /\ fds' \in Tables
        /\ \A g \in DOMAIN fds : fds'[g] = fds[g] \/ (g = f /\ fds'[g] = Free)
    BY <2>1, Numbering, Closing
  <2> QED
    BY <1>1, <2>1, <2>2, StrangersInv
<1> QED
  BY <1>2, <1>3

LEMMA RunStartInv ==
  ASSUME IInv, RunStart PROVE IInv'
<1>1. CASE UNCHANGED <<fds, epfd, main_loop>>
  <2>1. /\ UNCHANGED <<fds, listen_sock, log_fd, epfd, log_path, static_env, main_loop, watched, past>>
        /\ loop_done' \in BOOLEAN /\ place' \in {"start", "crashed"}
        /\ place' = "start" => main_loop = "live"
    BY <1>1 DEF RunStart, IInv, TypeOK
  <2>2. TypeOK' /\ LogOK' /\ ListenerOK'
    BY <2>1 DEF IInv, TypeOK, LogOK, ListenerOK, Straight
  <2>3. LoopOK'
    BY <2>1 DEF IInv, LoopOK, Straight
  <2>4. OwnedOK'
    BY <2>1 DEF IInv, OwnedOK, DescriptorsOwned
  <2> QED
    BY <2>2, <2>3, <2>4 DEF IInv
<1>2. CASE main_loop = "none" /\ HasRoom /\ fds' = Opened(fds, Obj("epoll", ""))
  <2> DEFINE n == Lowest(fds)
  <2>1. /\ UNCHANGED <<listen_sock, log_fd, log_path, static_env, watched, past>>
        /\ epfd' = n /\ main_loop' = "live" /\ loop_done' = TRUE /\ place' = "start"
    BY <1>2 DEF RunStart
  <2>2. /\ n \in 0 .. NumFds - 1 /\ fds[n] = Free /\ fds' \in Tables /\ DOMAIN fds' = DOMAIN fds
        /\ \A f \in DOMAIN fds : fds'[f] = IF f = n THEN Obj("epoll", "") ELSE fds[f]
    <3>1. fds \in Tables /\ Obj("epoll", "") \in Objects /\ \E f \in DOMAIN fds : fds[f] = Free
      BY <1>2, Numbering, ObjectTypes DEF HasRoom
    <3> QED
      BY <1>2, <3>1, Opening
  <2> HIDE DEF n
  <2>3. Obj("epoll", "").is = "epoll" /\ Free.is = "free" /\ Stream(1).is = "stream"
        /\ Stream(2).is = "stream"
    BY ObjectTypes
  <2>4. TypeOK'
    <3>3. n \in 0 .. NumFds - 1 /\ epfd' = n
      BY <2>1, <2>2
    <3>1. epfd' \in Numbers
      BY <3>3 DEF Numbers
    <3>2. fds' \in [0 .. NumFds - 1 -> Objects]
      BY <2>2 DEF Tables
    <3> QED
      BY <2>1, <3>1, <3>2 DEF IInv, TypeOK
  <2>5. LogOK'
    <3>1. Straight => n # 1 /\ n # 2 /\ (log_fd > 0 => n # log_fd)
      BY <2>2, <2>3 DEF IInv, LogOK
    <3> QED
      BY <2>1, <2>2, <3>1, Numbering DEF IInv, LogOK, Straight
  <2>6. ListenerOK'
    <3>1. Straight /\ listen_sock > 0 => n # listen_sock
      BY <1>2, <2>2, <2>3 DEF IInv, ListenerOK
    <3> QED
      BY <1>2, <2>1, <2>2, <3>1, Numbering DEF IInv, ListenerOK, Straight
  <2>7. LoopOK'
    <3>3. n \in 0 .. NumFds - 1
      BY <2>2
    <3>1. n # -1 /\ n \in DOMAIN fds
      BY <3>3, Numbering
    <3>2. fds'[n].is = "epoll"
      BY <2>2, <2>3, <3>1
    <3> QED
      BY <2>1, <3>1, <3>2 DEF LoopOK
  <2>8. OwnedOK'
    <3>1. \A f \in DOMAIN fds : fds[f].is # "epoll"
      BY <1>2 DEF IInv, OwnedOK, DescriptorsOwned
    <3>2. \A f \in DOMAIN fds : f = n \/ fds'[f] = fds[f]
      BY <2>2
    <3>3. DescriptorsOwned'
      BY <2>1, <2>2, <2>3, <3>1, <3>2 DEF IInv, OwnedOK, DescriptorsOwned
    <3> QED
      BY <2>1, <2>2, <2>3, <3>2, <3>3, Numbering DEF IInv, OwnedOK
  <2> QED
    BY <2>4, <2>5, <2>6, <2>7, <2>8 DEF IInv
<1> QED
  BY <1>1, <1>2 DEF RunStart

\* The end of a run closes the loop's descriptor and the listener's, and nothing else
\* that has a name.
LEMMA RunEndTable ==
  ASSUME IInv, RunEnd
  PROVE  /\ fds' \in Tables /\ DOMAIN fds' = DOMAIN fds
         /\ \A f \in DOMAIN fds :
              fds'[f] = fds[f] \/ (fds'[f] = Free /\ (Straight => fds[f].is \in {"epoll", "listener"}))
         /\ \A f \in DOMAIN fds : fds[f].is = "epoll" => fds'[f] = Free
<1>1. fds' = [f \in DOMAIN fds |-> IF f = epfd \/ (f = listen_sock /\ f # 0) THEN Free ELSE fds[f]]
  BY DEF RunEnd
<1>2. place = "loop" /\ main_loop = "live"
  BY DEF RunEnd, IInv, LoopOK
<1>3. Free \in Objects
  BY ObjectTypes
<1>4. fds' \in Tables /\ DOMAIN fds' = DOMAIN fds
  BY <1>1, <1>3, Numbering DEF Tables
<1>5. Straight => fds[epfd].is = "epoll"
  BY <1>2 DEF IInv, LoopOK
<1>6. ASSUME NEW f \in DOMAIN fds, Straight, f = listen_sock, f # 0 PROVE fds[f].is = "listener"
  <2>1. listen_sock > 0
    BY <1>6, Numbering
  <2> QED
    BY <1>2, <1>6, <2>1 DEF IInv, ListenerOK
<1>7. \A f \in DOMAIN fds : fds[f].is = "epoll" => f = epfd
  BY DEF IInv, OwnedOK, DescriptorsOwned
<1> QED
  BY <1>1, <1>4, <1>5, <1>6, <1>7

LEMMA RunEndInv ==
  ASSUME IInv, RunEnd PROVE IInv'
<1>1. /\ UNCHANGED <<listen_sock, log_fd, log_path, static_env, loop_done, past>>
      /\ epfd' = -1 /\ main_loop' = "destroyed" /\ watched' = -1 /\ place' = "ruby"
  BY DEF RunEnd
<1>2. TypeOK'
  <2>1. -1 \in Numbers
    BY DEF Numbers
  <2>2. fds' \in [0 .. NumFds - 1 -> Objects]
    BY RunEndTable DEF Tables
  <2> QED
    BY <1>1, <2>1, <2>2 DEF IInv, TypeOK
<1>3. LogOK'
  <2>1. ASSUME Straight
        PROVE  fds'[1] = fds[1] /\ fds'[2] = fds[2] /\ (log_fd > 0 => fds'[log_fd] = fds[log_fd])
    BY <2>1, RunEndTable, Numbering, ObjectTypes DEF IInv, LogOK
  <2> QED
    BY <1>1, <2>1 DEF IInv, LogOK, Straight
<1>4. ListenerOK' /\ LoopOK'
  BY <1>1 DEF ListenerOK, LoopOK
<1>5. OwnedOK'
  <2>1. \A f \in DOMAIN fds : /\ fds'[f].is = "listener" => fds[f].is = "listener"
                              /\ fds'[f].is # "epoll"
                              /\ fds'[f].is = "file" => fds[f].is = "file"
    BY RunEndTable, ObjectTypes
  <2>2. OwnedStep
    <3>1. /\ DOMAIN fds' = DOMAIN fds /\ past \subseteq past'
          /\ listen_sock' = listen_sock /\ log_fd' = log_fd
      BY <1>1, RunEndTable
    <3> QED
      BY <2>1, <3>1, Zenon DEF OwnedStep
  <2> QED
    BY <2>2, Numbering, OwnedKept DEF IInv
<1> QED
  BY <1>2, <1>3, <1>4, <1>5 DEF IInv

\* access_log closes the log so far; where that is not a standard stream, nothing else
\* that has a name is closed.
LEMMA AccessLogTable ==
  ASSUME IInv, NEW name, AccessLog(name)
  PROVE  /\ OldLogClosed(name) \in Tables /\ DOMAIN OldLogClosed(name) = DOMAIN fds
         /\ \A f \in DOMAIN fds :
              \/ OldLogClosed(name)[f] = fds[f] /\ ~(log_fd > 0 /\ f = log_fd)
              \/ OldLogClosed(name)[f] = Free /\ log_fd > 0 /\ f = log_fd
         /\ past \subseteq past' /\ (Straight' => Straight)
         /\ Straight' /\ log_fd > 0 => fds[log_fd].is = "file"
<1>1. fds \in Tables
  BY Numbering
<1>2. /\ Closed(fds, log_fd) \in Tables /\ DOMAIN Closed(fds, log_fd) = DOMAIN fds
      /\ \A g \in DOMAIN fds : Closed(fds, log_fd)[g] = IF g = log_fd THEN Free ELSE fds[g]
  BY <1>1, Closing
<1>3. /\ OldLogClosed(name) \in Tables /\ DOMAIN OldLogClosed(name) = DOMAIN fds
      /\ \A f \in DOMAIN fds :
           \/ OldLogClosed(name)[f] = fds[f] /\ ~(log_fd > 0 /\ f = log_fd)
           \/ OldLogClosed(name)[f] = Free /\ log_fd > 0 /\ f = log_fd
  <2>1. CASE log_fd > 0
    BY <1>2, <2>1 DEF OldLogClosed
  <2>2. CASE ~(log_fd > 0)
    BY <1>1, <2>2 DEF OldLogClosed
  <2> QED
    BY <2>1, <2>2
<1>4. /\ past \subseteq past'
      /\ log_fd > 0 /\ Is(log_fd, "stream") => "stream closed" \in past'
  BY DEF AccessLog
<1>5. Straight' => Straight
  BY <1>4 DEF Straight
<1>6. ASSUME Straight', log_fd > 0 PROVE fds[log_fd].is = "file"
  <2>1. ~Is(log_fd, "stream") /\ log_fd \in DOMAIN fds
    BY <1>4, <1>6, Numbering DEF Straight
  <2> QED
    BY <1>5, <1>6, <2>1 DEF Is, IInv, LogOK
<1> QED
  BY <1>3, <1>4, <1>5, <1>6

LEMMA AccessLogInv ==
  ASSUME IInv, NEW name \in LogNames, AccessLog(name) PROVE IInv'
<1> DEFINE table == OldLogClosed(name)
           n == Lowest(table)
<1>1. /\ UNCHANGED <<listen_sock, static_env, epfd, main_loop, watched, loop_done, place>>
      /\ log_path' = name /\ name \in {"app.log", "stdout", "stderr"}
  BY DEF AccessLog
<1>2. /\ table \in Tables /\ DOMAIN table = DOMAIN fds
      /\ \A f \in DOMAIN fds :
           \/ table[f] = fds[f] /\ ~(log_fd > 0 /\ f = log_fd)
           \/ table[f] = Free /\ log_fd > 0 /\ f = log_fd
      /\ past \subseteq past' /\ (Straight' => Straight)
      /\ Straight' /\ log_fd > 0 => fds[log_fd].is = "file"
  BY AccessLogTable
<1>3. \/ name \in {"stdout", "stderr"} /\ log_fd' = (IF name = "stdout" THEN 1 ELSE 2) /\ fds' = table
      \/ /\ name = "app.log" /\ log_fd' = n /\ fds' = Opened(table, Obj("file", name))
         /\ \E f \in DOMAIN table : table[f] = Free
         /\ n = 0 => "zero" \in past'
      \/ name = "app.log" /\ log_fd' = -1 /\ fds' = table
  BY DEF AccessLog, NoLog
<1> HIDE DEF table, n
<1>4. Free.is = "free" /\ Stream(1).is = "stream" /\ Stream(2).is = "stream"
      /\ Stream(1).name = "stdout" /\ Stream(2).name = "stderr"
      /\ Obj("file", name).is = "file" /\ Obj("file", name).name = name
      /\ Obj("file", name) \in Objects
  BY <1>1, ObjectTypes
\* The new table, and the new number.
<1>5. /\ fds' \in Tables /\ DOMAIN fds' = DOMAIN fds
      /\ \A f \in DOMAIN fds :
           \/ fds'[f] = table[f]
           \/ /\ fds'[f] = Obj("file", name) /\ table[f] = Free /\ f = log_fd'
              /\ f = 0 => "zero" \in past'
      /\ log_fd' \in Numbers
  <2>1. CASE fds' = table /\ log_fd' \in {-1, 1, 2}
    <3>1. log_fd' \in Numbers
      BY <2>1 DEF Numbers
    <3> QED
      BY <1>2, <2>1, <3>1
  <2>2. CASE /\ log_fd' = n /\ fds' = Opened(table, Obj("file", name))
             /\ \E f \in DOMAIN table : table[f] = Free
             /\ n = 0 => "zero" \in past'
    <3>1. /\ n \in 0 .. NumFds - 1 /\ table[n] = Free /\ fds' \in Tables
          /\ DOMAIN fds' = DOMAIN table
          /\ \A f \in DOMAIN table : fds'[f] = IF f = n THEN Obj("file", name) ELSE table[f]
      BY <1>2, <1>4, <2>2, Opening DEF n
    <3>2. n \in Numbers
      BY <3>1 DEF Numbers
    <3> QED
      BY <1>2, <2>2, <3>1, <3>2
  <2> QED
    BY <1>3, <2>1, <2>2
\* What has a name keeps its descriptor.
<1>6. \A f \in DOMAIN fds : Straight' /\ fds[f].is \notin {"free", "file"} => fds'[f] = fds[f]
  BY <1>2, <1>4, <1>5
<1>7. TypeOK'
  <2>1. fds' \in [0 .. NumFds - 1 -> Objects]
    BY <1>5 DEF Tables
  <2> QED
    BY <1>1, <1>5, <2>1 DEF IInv, TypeOK
<1>8. LogOK'
  <2>1. Straight' => fds'[1] = Stream(1) /\ fds'[2] = Stream(2)
    BY <1>2, <1>4, <1>6, Numbering DEF IInv, LogOK
  <2>2. ASSUME Straight', log_fd' > 0
        PROVE  fds'[log_fd'].is \in {"stream", "file"} /\ fds'[log_fd'].name = log_path'
    <3>1. CASE name \in {"stdout", "stderr"} /\ log_fd' = (IF name = "stdout" THEN 1 ELSE 2)
      BY <1>1, <1>4, <2>1, <2>2, <3>1
    <3>2. CASE /\ log_fd' = n /\ fds' = Opened(table, Obj("file", name))
               /\ \E f \in DOMAIN table : table[f] = Free
      <4>1. /\ n \in 0 .. NumFds - 1
            /\ \A f \in DOMAIN table : fds'[f] = IF f = n THEN Obj("file", name) ELSE table[f]
        BY <1>2, <1>4, <3>2, Opening DEF n
      <4>2. n \in DOMAIN table
        BY <1>2, <4>1, Numbering
      <4> QED
        BY <1>1, <1>4, <3>2, <4>1, <4>2
    <3>3. CASE log_fd' = -1
      BY <2>2, <3>3
    <3> QED
      BY <1>3, <3>1, <3>2, <3>3
  <2> QED
    BY <2>1, <2>2 DEF LogOK
<1>9. ListenerOK'
  <2>1. ASSUME Straight', main_loop # "destroyed", listen_sock > 0
        PROVE  /\ fds'[listen_sock] = fds[listen_sock] /\ fds[listen_sock].is = "listener"
               /\ fds[listen_sock].name = "inet" => static_env
    BY <1>2, <1>6, <2>1, Numbering DEF IInv, ListenerOK
  <2> QED
    BY <1>1, <2>1 DEF ListenerOK
<1>10. LoopOK'
  <2>1. ASSUME Straight', main_loop = "live"
        PROVE  epfd # -1 /\ fds'[epfd] = fds[epfd] /\ fds[epfd].is = "epoll"
    BY <1>2, <1>6, <2>1, Numbering DEF IInv, LoopOK
  <2> QED
    BY <1>1, <1>2, <2>1 DEF IInv, LoopOK
<1>11. OwnedOK'
  <2> DEFINE lost == past \cap {"zero", "line reopened"} # {}
  <2>1. (lost => lost') /\ ("zero" \in past => "zero" \in past') /\ ("zero" \in past' => lost')
    BY <1>2
  <2>2. \A f \in DOMAIN fds :
           /\ fds[f].is = "listener" => f = listen_sock \/ "zero" \in past
           /\ fds[f].is = "epoll" => f = epfd /\ main_loop = "live"
           /\ fds[f].is = "file" => lost \/ (f = log_fd /\ log_fd > 0)
    <3>1. \A f \in DOMAIN fds :
             /\ fds[f].is = "listener" => f = listen_sock \/ "zero" \in past
             /\ fds[f].is = "epoll" => f = epfd /\ main_loop = "live"
             /\ fds[f].is = "file" => lost \/ f = log_fd
      BY DEF IInv, OwnedOK, DescriptorsOwned
    <3>2. \A f \in DOMAIN fds : f = log_fd => f = 0 \/ log_fd > 0
      BY Numbering
    <3>3. fds[0].is = "file" => lost
      BY DEF IInv, OwnedOK
    <3> HIDE DEF lost
    <3> QED
      BY <3>1, <3>2, <3>3
  <2>3. (fds[0].is = "listener" => "zero" \in past) /\ (fds[0].is = "file" => lost)
    BY DEF IInv, OwnedOK
  <2> HIDE DEF lost
  <2>4. \A f \in DOMAIN fds :
           /\ table[f].is = "listener" => fds[f].is = "listener"
           /\ table[f].is = "epoll" => fds[f].is = "epoll"
           /\ table[f].is = "file" => lost /\ fds[f].is = "file"
    BY <1>2, <1>4, <2>2
  <2>5. \A f \in DOMAIN fds :
           /\ fds'[f].is = "listener" => fds[f].is = "listener"
           /\ fds'[f].is = "epoll" => fds[f].is = "epoll"
           /\ fds'[f].is = "file" => lost' \/ (f = log_fd' /\ f # 0)
    BY <1>4, <1>5, <2>1, <2>4
  <2>6. DescriptorsOwned'
    <3>1. \A f \in DOMAIN fds :
             /\ fds'[f].is = "listener" => f = listen_sock' \/ "zero" \in past'
             /\ fds'[f].is = "epoll" => f = epfd' /\ main_loop' = "live"
             /\ fds'[f].is = "file" => f = log_fd' \/ lost'
      BY <1>1, <2>1, <2>2, <2>5
    <3> QED
      BY <1>5, <3>1 DEF DescriptorsOwned, lost
  <2>7. (fds'[0].is = "listener" => "zero" \in past') /\ (fds'[0].is = "file" => lost')
    BY <2>1, <2>3, <2>5, Numbering
  <2> QED
    BY <2>6, <2>7 DEF OwnedOK, lost
<1> QED
  BY <1>7, <1>8, <1>9, <1>10, <1>11 DEF IInv

LEMMA NextInv ==
  ASSUME IInv, [Next]_vars PROVE IInv'
<1>1. CASE UNCHANGED vars
  <2>1. TypeOK'
    BY <1>1 DEF IInv, TypeOK
  <2>2. LogOK' /\ ListenerOK'
    BY <1>1 DEF IInv, LogOK, ListenerOK, Straight
  <2>3. LoopOK'
    BY <1>1 DEF IInv, LoopOK, Straight
  <2>4. OwnedOK'
    BY <1>1 DEF IInv, OwnedOK, DescriptorsOwned
  <2> QED
    BY <2>1, <2>2, <2>3, <2>4 DEF IInv
<1>2. CASE Listen
  BY <1>2, PlaceInv, ListenInv, UnixRaisesInv DEF Listen
<1>3. CASE \E name \in LogNames : AccessLog(name)
  BY <1>3, AccessLogInv
<1>4. CASE RunStart \/ RunEnd
  BY <1>4, RunStartInv, RunEndInv
<1>5. CASE RunAdd \/ AcceptDies \/ Raise \/ Stop
  BY <1>5, PlaceInv
<1>6. CASE Accept \/ AppOpen
  BY <1>6, AcceptInv
<1>7. CASE \E f \in DOMAIN fds : CloseClient(f) \/ AppClose(f)
  BY <1>7, CloseInv
<1> QED
  BY <1>1, <1>2, <1>3, <1>4, <1>5, <1>6, <1>7 DEF Next

\* The invariant that the theorems below rest on holds of every state of the server.
THEOREM ServerInvariance == Spec => []IInv
<1>1. Init => IInv
  BY InitInv
<1>2. IInv /\ [Next]_vars => IInv'
  BY NextInv
<1> QED
  BY <1>1, <1>2, PTL DEF Spec

-----------------------------------------------------------------------------
(* What it says of the properties that the run Server checks.              *)

\* A line of the access log goes to what the last access_log named, until access_log
\* closes a standard stream or unix_listen raises.
THEOREM ServerLogReachesTarget == Spec => []LogReachesTarget
<1>1. IInv => LogReachesTarget
  BY DEF IInv, LogOK, LogReachesTarget, Straight
<1> QED
  BY <1>1, ServerInvariance, PTL

\* What bossan opened is named by the global it was opened for, but for descriptor 0
\* and the files of lines whose write failed.
THEOREM ServerDescriptorsOwned == Spec => []DescriptorsOwned
<1>1. IInv => DescriptorsOwned
  BY DEF IInv, OwnedOK
<1> QED
  BY <1>1, ServerInvariance, PTL

\* A loop that runs after a listen that succeeded watches the listener, and an inet
\* listener's requests find their environ, with the same exceptions as for the log.
THEOREM ServerRunWatchesListener == Spec => []RunWatchesListener
<1>1. ASSUME IInv PROVE RunWatchesListener
  <2>1. SUFFICES ASSUME place = "loop", listen_sock > 0, Straight
                 PROVE  /\ watched = listen_sock /\ Is(watched, "listener")
                        /\ fds[watched].name = "inet" => static_env
    BY DEF RunWatchesListener, Straight
  <2>2. watched = listen_sock /\ listen_sock \in DOMAIN fds /\ main_loop = "live"
    BY <1>1, <2>1, Numbering DEF IInv, LoopOK
  <2> QED
    BY <1>1, <2>1, <2>2 DEF IInv, ListenerOK, Is
<1> QED
  BY <1>1, ServerInvariance, PTL

-----------------------------------------------------------------------------
(* Nothing is closed but what bossan opened.                               *)

\* What a step may do to a descriptor that is in use.
Spared(f) ==
  \/ fds'[f] = fds[f] \/ fds[f] = Free
  \/ fds[f].is = "other" /\ AppClose(f)
  \/ fds[f].is = "client" /\ CloseClient(f)
  \/ fds[f].is \in {"listener", "epoll"} /\ RunEnd
  \/ fds[f].is = "file" /\ f = log_fd
  \/ past' \cap {"stream closed", "listen raised"} # {}

\* An open takes a free number.
LEMMA OpensSpare ==
  ASSUME IInv, NEW obj \in Objects, HasRoom, fds' = Opened(fds, obj), NEW f \in DOMAIN fds
  PROVE  fds'[f] = fds[f] \/ fds[f] = Free
BY Numbering, Opening DEF HasRoom

LEMMA ClosesSpare ==
  ASSUME IInv, [Next]_vars, NEW f \in DOMAIN fds PROVE Spared(f)
<1>1. CASE UNCHANGED fds
  BY <1>1 DEF Spared
<1>2. CASE \E obj \in Objects : HasRoom /\ fds' = Opened(fds, obj)
  BY <1>2, OpensSpare DEF Spared
<1>3. ASSUME NEW name \in LogNames, AccessLog(name) PROVE Spared(f)
  <2> DEFINE table == OldLogClosed(name)
  <2>1. /\ table \in Tables /\ DOMAIN table = DOMAIN fds
        /\ \A g \in DOMAIN fds :
             \/ table[g] = fds[g] /\ ~(log_fd > 0 /\ g = log_fd)
             \/ table[g] = Free /\ log_fd > 0 /\ g = log_fd
        /\ Straight' /\ log_fd > 0 => fds[log_fd].is = "file"
    BY <1>3, AccessLogTable
  <2>2. \/ fds' = table
        \/ /\ fds' = Opened(table, Obj("file", name)) /\ name = "app.log"
           /\ \E g \in DOMAIN table : table[g] = Free
    BY <1>3 DEF AccessLog
  <2> HIDE DEF table
  <2>3. fds'[f] = table[f] \/ table[f] = Free
    <3>1. CASE fds' = table
      BY <3>1
    <3>2. CASE /\ fds' = Opened(table, Obj("file", name)) /\ name = "app.log"
               /\ \E g \in DOMAIN table : table[g] = Free
      <4>1. Obj("file", name) \in Objects
        BY <3>2, ObjectTypes
      <4>2. /\ table[Lowest(table)] = Free
            /\ \A g \in DOMAIN table :
                 Opened(table, Obj("file", name))[g] = IF g = Lowest(table) THEN Obj("file", name)
                                                                          ELSE table[g]
        BY <2>1, <3>2, <4>1, Opening
      <4> QED
        BY <2>1, <3>2, <4>2
    <3> QED
      BY <2>2, <3>1, <3>2
  <2>4. Straight' => fds'[f] = fds[f] \/ fds[f] = Free \/ (fds[f].is = "file" /\ f = log_fd)
    BY <2>1, <2>3
  <2> QED
    BY <2>4 DEF Spared, Straight
<1>4. ASSUME NEW g \in DOMAIN fds, CloseClient(g) PROVE Spared(f)
  <2>1. Logged(g) /\ fds[g].is = "client"
    BY <1>4 DEF CloseClient, Is
  <2>2. \A h \in DOMAIN fds :
           \/ fds'[h] = fds[h]
           \/ fds'[h] = Free /\ h = g
           \/ fds[h] = Free /\ fds'[h].is = "file" /\ "line reopened" \in past'
           \/ fds[h] = Free /\ fds'[h] = Free
    BY <2>1, LoggedTable
  <2> QED
    BY <1>4, <2>1, <2>2 DEF Spared
<1>5. ASSUME NEW g \in DOMAIN fds, AppClose(g) PROVE Spared(f)
  <2>1. fds' = Closed(fds, g) /\ fds[g].is = "other"
    BY <1>5 DEF AppClose, Is
  <2>2. fds'[f] = fds[f] \/ f = g
    BY <2>1, Numbering, Closing
  <2> QED
    BY <1>5, <2>1, <2>2 DEF Spared
<1>6. CASE RunEnd
  <2>1. fds'[f] = fds[f] \/ (Straight => fds[f].is \in {"epoll", "listener"})
    BY <1>6, RunEndTable
  <2>2. Straight' = Straight
    BY <1>6 DEF RunEnd, Straight
  <2> QED
    BY <1>6, <2>1, <2>2 DEF Spared, Straight
<1>7. CASE UNCHANGED vars
  BY <1>1, <1>7
<1>8. CASE Listen
  <2>1. CASE InetListen \/ UnixListen
    BY <1>2, <2>1, ObjectTypes DEF InetListen, UnixListen
  <2>2. CASE InetFails \/ InetUndefined \/ UnixRaises
    BY <1>1, <2>2 DEF InetFails, InetUndefined, UnixRaises
  <2> QED
    BY <1>8, <2>1, <2>2 DEF Listen
<1>9. CASE RunStart
  BY <1>1, <1>2, <1>9, ObjectTypes DEF RunStart
<1>10. CASE Accept \/ AppOpen
  BY <1>2, <1>10, ObjectTypes DEF Accept, AppOpen
<1>11. CASE RunAdd \/ AcceptDies \/ Raise \/ Stop
  BY <1>1, <1>11 DEF RunAdd, AcceptDies, Raise, Stop
<1> QED
  BY <1>3, <1>4, <1>5, <1>6, <1>7, <1>8, <1>9, <1>10, <1>11 DEF Next

\* A descriptor of the Ruby program is closed by that program, a connection at its own
\* end, a listener and a loop at the end of a run and a file as the log: no number that
\* was kept after a close is closed again, but for the two exceptions.
THEOREM ServerClosesOwn == Spec => ClosesOwn
<1> DEFINE A == \A f \in DOMAIN fds : fds[f] # Free /\ fds'[f] # fds[f] =>
                  \/ fds[f].is = "other" /\ AppClose(f)
                  \/ fds[f].is = "client" /\ CloseClient(f)
                  \/ fds[f].is \in {"listener", "epoll"} /\ RunEnd
                  \/ fds[f].is = "file" /\ f = log_fd
                  \/ past' \cap {"stream closed", "listen raised"} # {}
<1>1. IInv /\ [Next]_vars => [A]_vars
  <2>1. SUFFICES ASSUME IInv, [Next]_vars, NEW f \in DOMAIN fds PROVE Spared(f)
    BY DEF Spared
  <2> QED
    BY <2>1, ClosesSpare
<1> QED
  BY <1>1, ServerInvariance, PTL DEF Spec, ClosesOwn

=============================================================================
