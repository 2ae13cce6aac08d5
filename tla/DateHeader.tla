------------------------------ MODULE DateHeader ------------------------------
(***************************************************************************)
(* The Date header of a suspended response.  write_headers puts a pointer  *)
(* to the time cache's text into the bucket; the cache goes on while the   *)
(* socket is full.  This composes a write_bucket, the time cache, the      *)
(* turns of picoev_loop_once and the write timer: it is the timer that     *)
(* keeps a bucket from outliving the ring of slots.                        *)
(***************************************************************************)
EXTENDS WriteBucket, TimeCache

CONSTANTS
  WriteTimeout, \* WRITE_TIMEOUT_SECS, 5 in the code
  MaxBusy,      \* seconds that the callbacks of one poll, or of one sweep, take
  MaxTime       \* bound: the last second

ASSUME DateAssumption ==
  /\ WriteTimeout \in Nat /\ MaxBusy \in Nat /\ MaxTime \in Nat
  /\ Slots >= WriteTimeout + 2 * MaxBusy + 3

VARIABLES
  clock,   \* the second it is
  now,     \* loop->now
  turn,    \* "wait" in epoll_wait, then the callbacks of the "poll" and of the timers' "sweep"
  busy,    \* seconds that the callbacks of this poll or sweep took
  date,    \* the slot that the second part of the packet, the date, points at
  due,     \* loop->now at which the write timer fires; 0: not suspended, -1: retried
  shown    \* history: the seconds that the bytes of the date showed when they were sent

bucketVars == vars
timeVars == <<cacheVars, clock, now, turn, busy>>
allVars == <<bucketVars, timeVars, date, due, shown>>

DateInit ==
  /\ Init
  /\ clock = 1 /\ now = 1 /\ turn = "wait" /\ busy = 0
  /\ CacheInit(clock)
  /\ date = 0 /\ due = 0 /\ shown = {}

-----------------------------------------------------------------------------
(* picoev_loop_once.                                                       *)

Overdue == turn = "sweep" /\ due > 0 /\ due <= now    \* the timer is about to fire
Idle == phase \in {"new", "suspend"}    \* no callback is inside writev_bucket

\* The time that poll waits, one second at most, and the callbacks take.
Tick ==
  /\ clock < MaxTime
  /\ turn # "wait" /\ busy < MaxBusy
  /\ clock' = clock + 1 /\ busy' = busy + 1
  /\ UNCHANGED <<bucketVars, cacheVars, now, turn, date, due, shown>>

\* The loop's time is that before the wait.
Poll ==
  /\ turn = "wait" /\ clock < MaxTime
  /\ now' = clock
  /\ clock' \in {clock, clock + 1}
  /\ turn' = "poll" /\ busy' = 0
  /\ UNCHANGED <<bucketVars, cacheVars, date, due, shown>>

\* A signal ends the wait: picoev_loop_once returns, without events and without timers.
Interrupted ==
  /\ turn = "wait" /\ clock < MaxTime
  /\ now' = clock
  /\ clock' \in {clock, clock + 1}
  /\ UNCHANGED <<bucketVars, cacheVars, turn, busy, date, due, shown>>

Sweep ==
  /\ turn = "poll" /\ Idle
  /\ now' = clock
  /\ turn' = "sweep" /\ busy' = 0
  /\ UNCHANGED <<bucketVars, cacheVars, clock, date, due, shown>>

\* Every timer that is due has fired.
SweepEnds ==
  /\ turn = "sweep" /\ Idle /\ ~Overdue
  /\ turn' = "wait"
  /\ UNCHANGED <<bucketVars, cacheVars, clock, now, busy, date, due, shown>>

\* A callback accepts a connection or logs a request.
Refresh ==
  /\ turn # "wait" /\ Idle
  /\ Update(clock)
  /\ UNCHANGED <<bucketVars, clock, now, turn, busy, date, due, shown>>

-----------------------------------------------------------------------------
(* The response.                                                           *)

\* write_headers
Respond ==
  /\ turn # "wait" /\ Fill
  /\ date' = http_time
  /\ UNCHANGED <<timeVars, due, shown>>

DateSent == \E k \in Len(out) + 1 .. Len(out') : out'[k][1] = 2

Write ==
  /\ WriteNothing \/ WriteSome
  /\ shown' = IF DateSent THEN shown \cup {text[date]} ELSE shown
  /\ UNCHANGED <<timeVars, date, due>>

\* The first refusal suspends the response, with the timer.
Refuse ==
  /\ WriteFails
  /\ due' = IF phase' = "suspend" /\ due = 0 THEN now + WriteTimeout + 1 ELSE due
  /\ UNCHANGED <<timeVars, date, shown>>

\* w_callback: one retry
RetryDate ==
  /\ turn = "poll" /\ due > 0 /\ Retry
  /\ due' = -1
  /\ UNCHANGED <<timeVars, date, shown>>

Reset == date' = 0 /\ due' = 0 /\ shown' = {} /\ UNCHANGED timeVars

\* The response is over, or its connection is closed with the bucket: by the timer,
\* or after a retry that did not send it all.
Done == Free /\ Reset
Close ==
  /\ due = -1 \/ Overdue
  /\ Abandon
  /\ Reset

DateNext == Tick \/ Poll \/ Interrupted \/ Sweep \/ SweepEnds \/ Refresh
            \/ Respond \/ Write \/ Refuse \/ RetryDate \/ Done \/ Close

\* writev_bucket runs on without waiting for anything.
DateSpec == DateInit /\ [][DateNext]_allVars /\ WF_allVars(Write)

-----------------------------------------------------------------------------
\* The date that a client gets is one second's, also when its bytes were sent
\* before and after a suspension: the timer of the suspended response fires
\* before the ring of slots comes round to its text, also when signals put the
\* timer off, since no callback runs in an interrupted turn.
DateWhole == \A s1, s2 \in shown : s1 = s2

-----------------------------------------------------------------------------
(* The inductive invariant.                                                *)

DateTypes ==
  /\ slot \in 0 .. Slots - 1 /\ http_time = slot /\ date \in 0 .. Slots - 1
  /\ text \in [0 .. Slots - 1 -> Nat]
  /\ cached_sec \in Nat /\ clock \in Nat /\ now \in Nat
  /\ turn \in {"wait", "poll", "sweep"} /\ busy \in 0 .. MaxBusy
  /\ due \in Nat \cup {-1} /\ shown \subseteq Nat
  /\ phase \in {"new", "write", "suspend", "ok", "error"}

\* How late it can be in each part of a turn.
ClockOK ==
  /\ cached_sec <= clock /\ now <= clock
  /\ turn = "wait" => Idle
  /\ turn = "poll" => clock <= now + 1 + busy
  /\ turn = "sweep" => clock <= now + busy

\* Slots that the cache went on since it was at the date's.
Age == IF slot >= date THEN slot - date ELSE slot - date + Slots
Fresh == IF cached_sec = clock THEN 1 ELSE 0
Waiting == phase = "suspend" /\ due > 0 /\ ~Overdue

\* The text of a bucket that may still be written is the one it had, and the
\* cache has not gone further than there were seconds with callbacks since.
AgeOK ==
  /\ phase = "new" => due = 0 /\ shown = {}
  /\ phase = "write" => (due = 0 /\ date = slot) \/ due = -1
  /\ phase = "suspend" => due # 0
  /\ phase = "write" \/ Waiting => shown \subseteq {text[date]}
  /\ Waiting =>
       /\ Age <= clock - (due - WriteTimeout - 1) + Fresh
       /\ turn = "wait" => Age <= WriteTimeout + MaxBusy + 1
       /\ turn = "poll" => Age <= WriteTimeout + MaxBusy + 1 + busy + Fresh

DateInv == DateTypes /\ ClockOK /\ AgeOK /\ DateWhole
=============================================================================
