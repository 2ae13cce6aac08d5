---------------------------- MODULE BossanEpoll ----------------------------
(***************************************************************************)
(* The server core on picoev_epoll.c.  Module Bossan lets the loop take    *)
(* any ready descriptor; here the kernel keeps its own set of interests,   *)
(* which picoev_del leaves as it is (PICOEV_EPOLL_DEFER_DELETES), a poll   *)
(* collects the ready ones into loop->events, the callbacks run from that  *)
(* array while the descriptors it names may be closed and handed out       *)
(* again, and timers fire only after it was worked off.                    *)
(***************************************************************************)
EXTENDS BossanProperties

VARIABLES
  interest,   \* the kernel's epoll set: the event waited for, per descriptor
  events,     \* events of the poll not yet handled: descriptor, client they were collected for
  turn        \* place in picoev_loop_once: "poll" (epoll_wait and its events) or "sweep"

epollVars == <<vars, interest, events, turn>>

Listener == [fd |-> "listen", gen |-> 0]
EventType == [fd : Fds, gen : Nat] \cup {Listener}

EpollInit ==
  /\ Init
  /\ interest = [f \in Fds |-> "none"]
  /\ events = {}
  /\ turn = "poll"

-----------------------------------------------------------------------------
\* Seeded fault: EPOLL_CTL_MOD without the EPOLL_CTL_ADD that follows ENOENT.
FaultyUpdated(f) ==
  IF interest[f] # "none" /\ reg'[f].ev # "none" THEN reg'[f].ev ELSE interest[f]
\* picoev_update_events_internal: the entry is modified, or added when the
\* kernel has none; a deletion is left to the poll.
Updated(f) == IF reg'[f].ev # "none" THEN reg'[f].ev ELSE interest[f]

\* The kernel forgets a descriptor that is closed.
Interests ==
  interest' = [f \in Fds |-> IF sock'[f] = "closed" THEN "none"
                             ELSE IF reg'[f] # reg[f] THEN Updated(f) ELSE interest[f]]

Ready(f) == \/ interest[f] = "read" /\ Readable(f)
            \/ interest[f] = "write" /\ Writable(f)

\* Seeded fault: timers fire between the wait and the callbacks of its events.
FaultyEpollWait ==
  /\ pc = "loop" /\ turn = "poll" /\ events = {}
  /\ events' = {[fd |-> f, gen |-> mem[f]] : f \in {g \in Fds : Ready(g)}}
               \cup (IF \E f \in Fds : sock[f] = "pending" THEN {Listener} ELSE {})
  /\ turn' = "sweep"
  /\ UNCHANGED <<vars, interest>>
\* epoll_wait
EpollWait ==
  /\ pc = "loop" /\ turn = "poll" /\ events = {}
  /\ events' = {[fd |-> f, gen |-> mem[f]] : f \in {g \in Fds : Ready(g)}}
               \cup (IF \E f \in Fds : sock[f] = "pending" THEN {Listener} ELSE {})
  /\ turn' = IF events' = {} THEN "sweep" ELSE "poll"
  /\ UNCHANGED <<vars, interest>>

\* One event of the array, in any order: its callback, or for a descriptor that
\* is not registered the deferred EPOLL_CTL_DEL.
HandleEvent ==
  /\ pc = "loop" /\ turn = "poll"
  /\ \E e \in events :
       /\ events' = events \ {e}
       /\ turn' = IF events' = {} THEN "sweep" ELSE "poll"
       /\ IF e = Listener
          THEN AcceptEvent /\ UNCHANGED interest
          ELSE IF reg[e.fd].ev # "none"
          THEN (ReadEvent(e.fd) \/ WriteEvent(e.fd)) /\ UNCHANGED interest
          ELSE /\ interest' = [interest EXCEPT ![e.fd] = "none"]
               /\ UNCHANGED vars

\* picoev_handle_timeout_internal fires timers that are due, and the loop goes
\* round again.
Sweep ==
  /\ pc = "loop" /\ turn = "sweep"
  /\ \/ (\E f \in Fds : Timeout(f)) /\ UNCHANGED turn
     \/ loop_done /\ turn' = "poll" /\ UNCHANGED vars
     \/ LoopExit /\ UNCHANGED turn
  /\ Interests
  /\ UNCHANGED events

\* The callbacks and the peers go on as in Bossan.
InCallback ==
  /\ Callback
  /\ Interests
  /\ UNCHANGED <<events, turn>>

Outside ==
  /\ (\E f \in Fds : Peer(f)) \/ Stop
  /\ UNCHANGED <<interest, events, turn>>

EpollNext == EpollWait \/ HandleEvent \/ Sweep \/ InCallback \/ Outside

EpollSpec == EpollInit /\ [][EpollNext]_epollVars

-----------------------------------------------------------------------------
\* Whatever picoev has registered, the kernel waits for, although deletions
\* are deferred, descriptors are closed without a word to epoll and numbers
\* are handed out again: no event is ever missed.
InterestKept == \A f \in Fds : reg[f].ev # "none" => interest[f] = reg[f].ev

\* An event that is still to be handled belongs to the client its descriptor is
\* registered for: no callback of a poll closes a descriptor the same poll has
\* an event for, so none is delivered to a connection that took the number.
EventsCurrent ==
  pc = "loop" => \A e \in events \ {Listener} :
                   reg[e.fd].ev # "none" /\ mem[e.fd] = e.gen

-----------------------------------------------------------------------------
(* The inductive invariant, on top of the core's.                          *)

EpollTypes == /\ interest \in [Fds -> {"none", "read", "write"}]
              /\ events \subseteq EventType

\* The kernel waits for descriptors of clients only.
InterestOpen == \A f \in Fds : interest[f] # "none" => mem[f] # 0 /\ f \in Pollable

\* A callback, its nested calls included, is under way for cur.
Busy == pc \in Working \cup {"start", "return"}

\* The events that are left are not about the descriptor the callback works on,
\* and there are none when timers fire.
EventsOK ==
  /\ \A e \in events \ {Listener} :
       reg[e.fd].ev # "none" /\ mem[e.fd] = e.gen /\ (Busy => cur # e.fd)
  /\ turn = "sweep" => events = {}

EpollInv == WatchInv /\ EpollTypes /\ InterestKept /\ InterestOpen /\ EventsOK
=============================================================================
