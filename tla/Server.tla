-------------------------------- MODULE Server --------------------------------
(***************************************************************************)
(* The life of a server process around its event loop: Bossan.listen,      *)
(* access_log, run and stop, and the descriptors that the globals          *)
(* listen_sock, log_fd and the loop's epfd name.  The kernel hands out the *)
(* lowest free number, so a number that is kept after a close comes to     *)
(* name something else.  Connections are opened and closed here without    *)
(* what happens on them (module Bossan).                                   *)
(***************************************************************************)
EXTENDS Integers, FiniteSetsExt

CONSTANTS
  NumFds,     \* bound: the process can have the descriptors 0 .. NumFds - 1
  MaxClients, \* bound: connections open at a time
  LogNames    \* what access_log is called with

ASSUME ServerAssumption == NumFds \in Nat /\ NumFds > 3 /\ MaxClients \in Nat
                           /\ LogNames \subseteq {"app.log", "stdout", "stderr"}

VARIABLES
  fds,            \* what each descriptor of the process is
  listen_sock, log_fd, epfd,
  log_path,       \* the argument of the last access_log
  static_env,     \* whether the keys that every environ has are set up
  main_loop,      \* "none", "live" or "destroyed"
  watched,        \* the descriptor that run gave to picoev, -1: none
  loop_done,      \* the loop flag (TRUE: keep running)
  place,          \* "ruby", "start" and "loop" of bossan_run_loop, "crashed"
  past            \* history: what happened that the descriptors remember

vars == <<fds, listen_sock, log_fd, epfd, log_path, static_env, main_loop, watched, loop_done,
          place, past>>
globals == <<listen_sock, log_fd, log_path, static_env>>
loopVars == <<epfd, main_loop, watched, loop_done>>

Obj(is, name) == [is |-> is, name |-> name]
Free == Obj("free", "")

Stream(f) == Obj("stream", IF f = 1 THEN "stdout" ELSE IF f = 2 THEN "stderr" ELSE "stdin")

\* A daemon may have closed its standard input.
Init ==
  /\ \E stdin \in {Free, Stream(0)} :
       fds = [f \in 0 .. NumFds - 1 |->
                IF f = 0 THEN stdin ELSE IF f < 3 THEN Stream(f) ELSE Free]
  /\ listen_sock = 0 /\ log_fd = -1 /\ epfd = -1 /\ log_path = "" /\ static_env = FALSE
  /\ main_loop = "none" /\ watched = -1 /\ loop_done = FALSE
  /\ place = "ruby" /\ past = {}

HasRoom == \E f \in DOMAIN fds : fds[f] = Free
Lowest(table) == Min({f \in DOMAIN table : table[f] = Free})
Opened(table, obj) == [table EXCEPT ![Lowest(table)] = obj]
Closed(table, f) == [table EXCEPT ![f] = Free]
Is(f, kind) == f \in DOMAIN fds /\ fds[f].is = kind

-----------------------------------------------------------------------------
(* bossan_listen, with a port or a path; "already set" raises at once.     *)

MayListen == place = "ruby" /\ listen_sock <= 0

\* Seeded fault: bossan_listen does not reset listen_sock.
FaultyListenFails ==
  /\ MayListen /\ HasRoom
  /\ listen_sock' = Lowest(fds)
  /\ UNCHANGED <<fds, log_fd, log_path, static_env, loopVars, place, past>>
\* inet_listen closes its socket and returns -1, or raises without one.
InetFails ==
  /\ MayListen
  /\ listen_sock' = -1
  /\ UNCHANGED <<fds, log_fd, log_path, static_env, loopVars, place, past>>

\* setup_static_env makes the keys and the constant values of every environ.
SetupStaticEnv == static_env' = TRUE

\* inet_listen succeeds, setup_server_env included.  bossan_listen takes
\* descriptor 0 for a failure: it stays open, and listen may be called again.
InetListen ==
  /\ MayListen /\ HasRoom
  /\ listen_sock' = Lowest(fds)
  /\ fds' = Opened(fds, Obj("listener", "inet"))
  /\ past' = IF listen_sock' = 0 THEN past \cup {"zero"} ELSE past
  /\ SetupStaticEnv
  /\ UNCHANGED <<log_fd, log_path, loopVars, place>>

\* getaddrinfo fails with other codes than -1, also for a port above 32767, which
\* is negative as a short: the list it did not set is read.
InetUndefined ==
  /\ MayListen
  /\ place' = "crashed"
  /\ UNCHANGED <<fds, globals, loopVars, past>>

\* unix_listen sets up no environ, and leaves the socket blocking.
UnixListen ==
  /\ MayListen /\ HasRoom
  /\ listen_sock' = Lowest(fds)
  /\ fds' = Opened(fds, Obj("listener", "unix"))
  /\ past' = IF listen_sock' = 0 THEN past \cup {"zero"} ELSE past
  /\ UNCHANGED <<log_fd, log_path, static_env, loopVars, place>>

\* unix_listen raises past bossan_listen: listen_sock keeps the number of the
\* closed socket.
UnixRaises ==
  /\ MayListen
  /\ \/ /\ ~HasRoom
        /\ listen_sock' = -1
        /\ UNCHANGED past
     \/ /\ HasRoom
        /\ listen_sock' = Lowest(fds)
        /\ past' = past \cup {"listen raised"}
  /\ UNCHANGED <<fds, log_fd, log_path, static_env, loopVars, place>>

-----------------------------------------------------------------------------
(* bossan_access_log, write_log.                                           *)

\* Seeded fault: the file that was the log stays open behind a standard stream.
FaultyOldLogClosed(name) == IF log_fd > 0 /\ name = "app.log" THEN Closed(fds, log_fd) ELSE fds
\* The log so far is closed, also when it is a standard stream.
OldLogClosed(name) == IF log_fd > 0 THEN Closed(fds, log_fd) ELSE fds

\* Seeded fault: log_fd keeps the number it had.
FaultyNoLog == log_fd
NoLog == -1

AccessLog(name) ==
  /\ place \in {"ruby", "loop"}
  /\ log_path' = name
  /\ LET table == OldLogClosed(name)
         closed == IF log_fd > 0 /\ Is(log_fd, "stream") THEN {"stream closed"} ELSE {}
     IN \/ /\ name \in {"stdout", "stderr"}
           /\ log_fd' = IF name = "stdout" THEN 1 ELSE 2
           /\ fds' = table
           /\ past' = past \cup closed
        \/ /\ name = "app.log"
           /\ \E f \in DOMAIN table : table[f] = Free
           /\ log_fd' = Lowest(table)
           /\ fds' = Opened(table, Obj("file", name))
           /\ past' = past \cup closed \cup (IF log_fd' = 0 THEN {"zero"} ELSE {})
        \/ /\ name = "app.log"                          \* open fails: an exception
           /\ log_fd' = NoLog
           /\ fds' = table
           /\ past' = past \cup closed
  /\ UNCHANGED <<listen_sock, static_env, loopVars, place>>

\* write_access_log: the line is written to log_fd; when that fails, to a file
\* of that name that is opened again, and whose number nobody keeps.
Logged(f) ==
  \/ /\ log_fd > 0 => fds[log_fd].is \notin {"free", "listener", "epoll"}
     /\ fds' = Closed(fds, f)
     /\ UNCHANGED past
  \/ /\ log_fd > 0 /\ HasRoom                           \* opened again
     /\ fds' = Closed(Opened(fds, Obj("file", log_path)), f)
     /\ past' = past \cup {"line reopened"}
  \/ /\ log_fd > 0                                      \* not opened again
     /\ fds' = Closed(fds, f)
     /\ UNCHANGED past

-----------------------------------------------------------------------------
(* bossan_run_loop.                                                        *)

\* init_main_loop creates a loop unless main_loop is set, which the end of a run
\* does not change: the next one uses a loop that is freed.
RunStart ==
  /\ place = "ruby"
  /\ \/ /\ main_loop = "none" /\ HasRoom
        /\ epfd' = Lowest(fds)
        /\ fds' = Opened(fds, Obj("epoll", ""))
        /\ main_loop' = "live" /\ loop_done' = TRUE /\ place' = "start"
     \/ /\ main_loop = "live"
        /\ loop_done' = TRUE /\ place' = "start"
        /\ UNCHANGED <<fds, epfd, main_loop>>
     \/ /\ main_loop = "destroyed" \/ (main_loop = "none" /\ ~HasRoom)
        /\ place' = "crashed"
        /\ UNCHANGED <<fds, epfd, main_loop, loop_done>>
  /\ UNCHANGED <<globals, watched, past>>

\* Seeded fault: bossan_run_loop sets the flag just before its loop.
FaultyFlag == TRUE
\* What the flag is when the loop begins: a signal may have reset it by then.
Flag == loop_done

\* picoev_add of listen_sock, whose result is dropped.  epoll takes any object it
\* can wait for; a build with asserts ends when it does not, or when the
\* listener is registered already.
RunAdd ==
  /\ place = "start"
  /\ \/ /\ listen_sock = -1
        /\ place' = "loop"
        /\ UNCHANGED watched
     \/ /\ listen_sock # -1
        /\ fds[listen_sock].is \in {"listener", "stream", "other"}
        /\ place' = "loop"
        /\ watched' = listen_sock
     \/ /\ listen_sock # -1
        /\ fds[listen_sock].is # "listener" \/ watched = listen_sock
        /\ place' \in {"loop", "crashed"}
        /\ UNCHANGED watched
  /\ loop_done' = Flag
  /\ UNCHANGED <<fds, globals, epfd, main_loop, past>>

Clients == {f \in DOMAIN fds : Is(f, "client")}

\* Only setup_listen_sock, on the way of inet_listen, makes a listener non-blocking.
Blocks(f) == fds[f].name = "unix"

\* One accept of accept_callback's loop.  A unix listener blocks: accept is called
\* again, up to eight times, and the thread waits there.
Accept ==
  /\ place \in {"loop", "blocked"} /\ Is(watched, "listener")
  /\ HasRoom /\ Cardinality(Clients) < MaxClients
  /\ fds' = Opened(fds, Obj("client", ""))
  /\ \/ ~Blocks(watched) /\ place' = "loop"
     \/ Blocks(watched) /\ place' = "blocked"
     \/ Blocks(watched) /\ place = "blocked" /\ place' = "loop"
  /\ UNCHANGED <<globals, loopVars, past>>

\* No descriptor for the connection, or no listener: any error but EAGAIN ends the run.
AcceptDies ==
  /\ place \in {"loop", "blocked"}
  /\ \/ Is(watched, "listener") /\ ~HasRoom
     \/ Is(watched, "stream") \/ Is(watched, "other")
  /\ loop_done' = FALSE /\ place' = "loop"
  /\ UNCHANGED <<fds, globals, epfd, main_loop, watched, past>>

CloseClient(f) ==
  /\ place = "loop" /\ Is(f, "client")
  /\ Logged(f)
  /\ UNCHANGED <<globals, loopVars, place>>

\* An exception of the application leaves bossan_run_loop as it is.
Raise ==
  /\ place = "loop" /\ Clients # {}
  /\ place' = "ruby"
  /\ UNCHANGED <<fds, globals, loopVars, past>>

\* Bossan.stop, or a signal, which also interrupts a blocked accept.
Stop ==
  /\ place # "crashed"
  /\ loop_done' = FALSE
  /\ place' = IF place = "blocked" THEN "loop" ELSE place
  /\ UNCHANGED <<fds, globals, epfd, main_loop, watched, past>>

RunEnd ==
  /\ place = "loop" /\ ~loop_done
  /\ fds' = [f \in DOMAIN fds |-> IF f = epfd \/ (f = listen_sock /\ f # 0) THEN Free ELSE fds[f]]
  /\ epfd' = -1 /\ main_loop' = "destroyed" /\ watched' = -1
  /\ place' = "ruby"
  /\ UNCHANGED <<globals, loop_done, past>>

-----------------------------------------------------------------------------
(* The rest of the Ruby program has descriptors of its own.                *)

AppOpen ==
  /\ place \in {"ruby", "loop"} /\ HasRoom
  /\ \A f \in DOMAIN fds : ~Is(f, "other")
  /\ fds' = Opened(fds, Obj("other", ""))
  /\ UNCHANGED <<globals, loopVars, place, past>>

AppClose(f) ==
  /\ place \in {"ruby", "loop"} /\ Is(f, "other")
  /\ fds' = Closed(fds, f)
  /\ UNCHANGED <<globals, loopVars, place, past>>

Listen == InetFails \/ InetListen \/ InetUndefined \/ UnixListen \/ UnixRaises
Next ==
  \/ Listen \/ \E name \in LogNames : AccessLog(name)
  \/ RunStart \/ RunAdd \/ Accept \/ AcceptDies \/ Raise \/ Stop \/ RunEnd
  \/ AppOpen \/ \E f \in DOMAIN fds : CloseClient(f) \/ AppClose(f)

Spec == Init /\ [][Next]_vars

\* The thread goes on while nothing blocks it, and each turn of the loop ends with
\* the test of the flag.
FairSpec == Spec /\ WF_vars(RunAdd) /\ WF_vars(RunEnd)

-----------------------------------------------------------------------------
\* The next line of the access log goes to what the last access_log named:
\* log_fd and log_path never come apart, and no connection gets the line.  That
\* is not so only after access_log closed a standard stream, whose number it may
\* use again, and when listen_sock names the log after a unix_listen that raised.
LogReachesTarget ==
  log_fd > 0 =>
    \/ fds[log_fd].is \in {"stream", "file"} /\ fds[log_fd].name = log_path
    \/ past \cap {"stream closed", "listen raised"} # {}

\* Whatever bossan closes is its own: no descriptor of the Ruby program, no
\* standard stream and no connection is closed under a number that was kept.
\* The exceptions are a standard stream that was the log, and listen_sock
\* after a unix_listen that raised.
ClosesOwn ==
  [][\A f \in DOMAIN fds : fds[f] # Free /\ fds'[f] # fds[f] =>
       \/ fds[f].is = "other" /\ AppClose(f)
       \/ fds[f].is = "client" /\ CloseClient(f)
       \/ fds[f].is \in {"listener", "epoll"} /\ RunEnd
       \/ fds[f].is = "file" /\ f = log_fd
       \/ past' \cap {"stream closed", "listen raised"} # {}]_vars

\* Every descriptor that bossan opened can still be closed through the variable
\* that names it.  It leaks a file for each line whose write failed, and what it
\* opened as descriptor 0.
DescriptorsOwned ==
  \A f \in DOMAIN fds :
    /\ fds[f].is = "listener" => f = listen_sock \/ "zero" \in past
    /\ fds[f].is = "epoll" => f = epfd /\ main_loop = "live"
    /\ fds[f].is = "file" => f = log_fd \/ past \cap {"zero", "line reopened"} # {}

\* A loop that runs after a successful listen waits for connections, and the
\* requests of an inet listener find the keys of their environ, unless
\* listen_sock was left behind by a unix_listen that raised, or access_log
\* closed the listener for a standard stream.
RunWatchesListener ==
  place = "loop" /\ listen_sock > 0 =>
    \/ /\ watched = listen_sock /\ Is(watched, "listener")
       /\ fds[watched].name = "inet" => static_env
    \/ past \cap {"listen raised", "stream closed"} # {}

\* A stop that comes after bossan_run_loop set the flag ends the run (one that
\* came before it is forgotten), unless a unix listener's accept blocks the
\* thread just after it.
StopEndsRun ==
  place \in {"start", "loop"} /\ ~loop_done ~> place \in {"ruby", "crashed", "blocked"}

-----------------------------------------------------------------------------
(* The inductive invariant: what each global names.                        *)

Objects == [is : {"free", "stream", "listener", "epoll", "file", "client", "other"},
            name : {"", "stdin", "stdout", "stderr", "inet", "unix", "app.log"}]
Numbers == -1 .. NumFds - 1

TypeOK ==
  /\ fds \in [0 .. NumFds - 1 -> Objects]
  /\ listen_sock \in Numbers /\ log_fd \in Numbers /\ epfd \in Numbers /\ watched \in Numbers
  /\ log_path \in {"", "stdout", "stderr", "app.log"}
  /\ static_env \in BOOLEAN /\ loop_done \in BOOLEAN
  /\ main_loop \in {"none", "live", "destroyed"}
  /\ place \in {"ruby", "start", "loop", "blocked", "crashed"}

\* No number was kept past the close of what it named, but for what RunEnd closes.
Straight == past \cap {"stream closed", "listen raised"} = {}

\* The log is what access_log opened, or a standard stream that is still one.
LogOK ==
  Straight =>
    /\ fds[1] = Stream(1) /\ fds[2] = Stream(2)
    /\ log_fd > 0 => fds[log_fd].is \in {"stream", "file"} /\ fds[log_fd].name = log_path

\* listen_sock names a listener until RunEnd closes that, and no run comes after.
ListenerOK ==
  Straight /\ main_loop # "destroyed" /\ listen_sock > 0 =>
    fds[listen_sock].is = "listener" /\ (fds[listen_sock].name = "inet" => static_env)

\* Inside bossan_run_loop there is a loop, with its own descriptor, and
\* picoev was given listen_sock.
LoopOK ==
  /\ place \in {"start", "loop", "blocked"} => main_loop = "live"
  /\ Straight /\ main_loop = "live" => epfd # -1 /\ fds[epfd].is = "epoll"
  /\ Straight /\ place \in {"loop", "blocked"} /\ listen_sock > 0 => watched = listen_sock

\* What bossan opened is known by its number; what is descriptor 0 is not.
OwnedOK ==
  /\ DescriptorsOwned
  /\ fds[0].is = "listener" => "zero" \in past
  /\ fds[0].is = "file" => past \cap {"zero", "line reopened"} # {}

IInv == TypeOK /\ LogOK /\ ListenerOK /\ LoopOK /\ OwnedOK
=============================================================================
