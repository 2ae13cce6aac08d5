------------------------------- MODULE Picoev -------------------------------
(***************************************************************************)
(* picoev.h: the timing wheel of the event loop.  A timer is a bit of a    *)
(* slot's vec; the bits of vec_of_vec say which words of vec are not zero. *)
(* A resolution of one second is what picoev_create_loop(60) computes      *)
(* (RND_UP(60, 128) / 128), and one word of vec_of_vec is enough for 256   *)
(* descriptors, so the loop over its words is not a step of its own.       *)
(* The events of poll_once and the callbacks are reduced to their calls    *)
(* of picoev; accept_callback does nothing for a timeout, and the other    *)
(* callbacks only touch the descriptor they are called for.                *)
(***************************************************************************)
EXTENDS Integers

CONSTANTS Fds,         \* descriptors below max_fd
          ShortBits,   \* PICOEV_SHORT_BITS, 16
          VecSize,     \* PICOEV_TIMEOUT_VEC_SIZE, 128
          MaxSecs,     \* bound of the timeouts asked for
          MaxTime      \* bound of time(NULL)

ASSUME SizeAssumption ==
  /\ Fds \subseteq Nat
  /\ ShortBits \in Nat \ {0}
  /\ VecSize \in 2 .. 254
  /\ MaxSecs \in Nat \ {0} /\ MaxTime \in Nat

TIMEOUT_IDX_UNUSED == 255
Slots == 0 .. VecSize - 1
Word(fd) == fd \div ShortBits
WordsOf(fds) == {Word(fd) : fd \in fds}

VARIABLES
  registered,            \* the descriptors whose loop_id is the loop's
  timeout_idx,           \* picoev_fd.timeout_idx
  vec, vec_of_vec,       \* slot -> bits set
  base_idx, base_time,   \* loop.timeout
  now,                   \* loop.now
  phase,                 \* "start", "run" (bossan_run_loop, its loop), "poll" (picoev_poll_once_internal), or
                         \* picoev_handle_timeout_internal: "sweep" at its loop over slots,
                         \* "slot" over words, "word" over bits, "callback" in a handler
  vv, v,                 \* its copies: words of the slot, bits of the word left to handle
  word, fd,              \* its j and k
  fault,                 \* an assert failed
  armed                  \* history: for a timer that is set, the time it was asked for (due)
                         \* and how far from base_time that was (delta)

Times == 0 .. MaxTime   \* what time(NULL) returns: a wall clock that may also be set back
NotArmed == [due |-> 0, delta |-> 0]

wheel == <<timeout_idx, vec, vec_of_vec>>
sweep == <<vv, v, word, fd>>
vars == <<registered, wheel, base_idx, base_time, now, phase, sweep, fault, armed>>

\* picoev_init and picoev_create_loop; now is not initialised.
Init ==
  /\ registered = {}
  /\ timeout_idx = [f \in Fds |-> TIMEOUT_IDX_UNUSED]
  /\ vec = [s \in Slots |-> {}] /\ vec_of_vec = [s \in Slots |-> {}]
  /\ base_idx = 0 /\ base_time \in Times
  /\ now \in Times
  /\ phase = "start"
  /\ vv = {} /\ v = {} /\ word = 0 /\ fd = 0
  /\ fault = FALSE
  /\ armed = [f \in Fds |-> NotArmed]

-----------------------------------------------------------------------------
\* The wheel without f's timer: the word's bit goes with the word's last bit.
ClearedVec(f) ==
  IF timeout_idx[f] = TIMEOUT_IDX_UNUSED THEN vec
  ELSE [vec EXCEPT ![timeout_idx[f]] = @ \ {f}]
\* Seeded fault: the word's bit goes with any bit of the word.
FaultyHint(f) ==
  IF timeout_idx[f] # TIMEOUT_IDX_UNUSED
  THEN [vec_of_vec EXCEPT ![timeout_idx[f]] = @ \ {Word(f)}]
  ELSE vec_of_vec
ClearedHint(f) ==
  IF timeout_idx[f] # TIMEOUT_IDX_UNUSED
     /\ Word(f) \notin WordsOf(ClearedVec(f)[timeout_idx[f]])
  THEN [vec_of_vec EXCEPT ![timeout_idx[f]] = @ \ {Word(f)}]
  ELSE vec_of_vec

\* Seeded fault: the time is taken from base_time instead of now.
FaultyDelta(secs) == IF secs \in Slots THEN secs ELSE VecSize - 1
\* delta is a size_t: a negative distance is a huge one.
Delta(secs) ==
  IF now + secs - base_time \in Slots THEN now + secs - base_time ELSE VecSize - 1

picoev_set_timeout(f, secs) ==
  LET s == (base_idx + Delta(secs)) % VecSize IN
  /\ timeout_idx' = [timeout_idx EXCEPT ![f] = s]
  /\ vec' = [ClearedVec(f) EXCEPT ![s] = @ \cup {f}]
  /\ vec_of_vec' = [ClearedHint(f) EXCEPT ![s] = @ \cup {Word(f)}]
  /\ armed' = [armed EXCEPT ![f] = [due |-> now + secs, delta |-> now + secs - base_time]]

\* picoev_set_timeout with secs = 0
ClearTimeout(f) ==
  /\ timeout_idx' = [timeout_idx EXCEPT ![f] = TIMEOUT_IDX_UNUSED]
  /\ vec' = ClearedVec(f)
  /\ vec_of_vec' = ClearedHint(f)
  /\ armed' = [armed EXCEPT ![f] = NotArmed]

\* picoev_add asserts that loop_id is 0; its callers see to it (module Bossan).
picoev_add(f, secs) ==
  /\ f \notin registered
  /\ registered' = registered \cup {f}
  /\ picoev_set_timeout(f, secs)

\* Seeded fault: the timer is left behind.
FaultyDel(f) ==
  /\ f \in registered
  /\ registered' = registered \ {f}
  /\ UNCHANGED <<wheel, armed>>

picoev_del(f) ==
  /\ f \in registered
  /\ registered' = registered \ {f}
  /\ ClearTimeout(f)

\* What a callback called for any descriptor, or for f, does with f.
Call(f) ==
  /\ \/ \E secs \in 1 .. MaxSecs : picoev_add(f, secs)
     \/ picoev_del(f)
     \/ /\ f \in registered
        /\ \E secs \in 1 .. MaxSecs : picoev_set_timeout(f, secs)
        /\ UNCHANGED registered
  /\ UNCHANGED <<base_idx, base_time, now, phase, sweep, fault>>

-----------------------------------------------------------------------------
\* bossan_run_loop adds the listening socket, with ACCEPT_TIMEOUT_SECS.
AddListener ==
  /\ phase = "start" /\ phase' = "run"
  /\ \E f \in Fds : picoev_add(f, 1)
  /\ UNCHANGED <<base_idx, base_time, now, sweep, fault>>

\* picoev_loop_once
LoopOnce ==
  /\ phase = "run"
  /\ now' \in Times /\ phase' = "poll"
  /\ UNCHANGED <<registered, wheel, base_idx, base_time, sweep, fault, armed>>

\* A callback of picoev_poll_once_internal; accept_callback adds another
\* descriptor than the one it is called for.
Event == phase = "poll" /\ \E f \in Fds : Call(f)

PollReturns ==
  /\ phase = "poll"
  /\ now' \in Times /\ phase' = "sweep"
  /\ UNCHANGED <<registered, wheel, base_idx, base_time, sweep, fault, armed>>

\* epoll_wait returns -1 (a signal): no timeouts are handled.
PollFails ==
  /\ phase = "poll"
  /\ phase' = "run"
  /\ UNCHANGED <<registered, wheel, base_idx, base_time, now, sweep, fault, armed>>

-----------------------------------------------------------------------------
\* picoev_handle_timeout_internal: the loop's test
SweepSlot ==
  /\ phase = "sweep" /\ base_time <= now - 1
  /\ vv' = vec_of_vec[base_idx] /\ phase' = "slot"
  /\ UNCHANGED <<registered, wheel, base_idx, base_time, now, v, word, fd, fault, armed>>

SweepEnd ==
  /\ phase = "sweep" /\ base_time > now - 1
  /\ phase' = "run"
  /\ UNCHANGED <<registered, wheel, base_idx, base_time, now, sweep, fault, armed>>

\* The next word of the slot, assert(v != 0)
SweepWord ==
  /\ phase = "slot"
  /\ \E j \in vv :
       /\ \A i \in vv : j <= i
       /\ word' = j /\ vv' = vv \ {j}
       /\ v' = {f \in vec[base_idx] : Word(f) = j}
  /\ fault' = (fault \/ v' = {})
  /\ phase' = "word"
  /\ UNCHANGED <<registered, wheel, base_idx, base_time, now, fd, armed>>

\* The next bit of the word, assert(fd->loop_id == loop->loop_id)
Fire ==
  /\ phase = "word"
  /\ \E k \in v :
       /\ \A i \in v : k <= i
       /\ fd' = k /\ v' = v \ {k}
       /\ fault' = (fault \/ k \notin registered)
  /\ timeout_idx' = [timeout_idx EXCEPT ![fd'] = TIMEOUT_IDX_UNUSED]
  /\ armed' = [armed EXCEPT ![fd'] = NotArmed]
  /\ phase' = "callback"
  /\ UNCHANGED <<registered, vec, vec_of_vec, base_idx, base_time, now, vv, word>>

Callback == phase = "callback" /\ Call(fd)

CallbackReturns ==
  /\ phase = "callback" /\ phase' = "word"
  /\ fd' = 0
  /\ UNCHANGED <<registered, wheel, base_idx, base_time, now, vv, v, word, fault, armed>>

\* vec[j] = 0
WordDone ==
  /\ phase = "word" /\ v = {}
  /\ vec' = [vec EXCEPT ![base_idx] = {f \in @ : Word(f) # word}]
  /\ phase' = "slot" /\ word' = 0
  /\ UNCHANGED <<registered, timeout_idx, vec_of_vec, base_idx, base_time, now, vv, v,
                 fd, fault, armed>>

\* vec_of_vec[i] = 0 and the step to the next slot
SlotDone ==
  /\ phase = "slot" /\ vv = {}
  /\ vec_of_vec' = [vec_of_vec EXCEPT ![base_idx] = {}]
  /\ base_idx' = (base_idx + 1) % VecSize /\ base_time' = base_time + 1
  /\ phase' = "sweep"
  /\ UNCHANGED <<registered, timeout_idx, vec, now, sweep, fault, armed>>

Next == \/ AddListener \/ LoopOnce \/ Event \/ PollReturns \/ PollFails
        \/ SweepSlot \/ SweepEnd \/ SweepWord \/ Fire \/ Callback \/ CallbackReturns
        \/ WordDone \/ SlotDone

Spec == Init /\ [][Next]_vars

\* The loop runs on, its callbacks return, and epoll_wait is not interrupted
\* for ever.
Fairness ==
  /\ SF_vars(PollReturns)
  /\ WF_vars(LoopOnce \/ SweepSlot \/ SweepEnd \/ SweepWord \/ Fire \/ CallbackReturns
               \/ WordDone \/ SlotDone)

FairSpec == Spec /\ Fairness

-----------------------------------------------------------------------------
Sweeping == phase \in {"slot", "word", "callback"}
Armed(f) == timeout_idx[f] # TIMEOUT_IDX_UNUSED
InSlot(s) == {f \in Fds : timeout_idx[f] = s}

\* The time at which slot s is swept.
SlotTime(s) == base_time + (IF s >= base_idx THEN s - base_idx ELSE s - base_idx + VecSize)

\* Every field has its type.
TypeOK ==
  /\ registered \subseteq Fds
  /\ timeout_idx \in [Fds -> Slots \cup {TIMEOUT_IDX_UNUSED}]
  /\ vec \in [Slots -> SUBSET Fds] /\ vec_of_vec \in [Slots -> SUBSET WordsOf(Fds)]
  /\ base_idx \in Slots /\ base_time \in Nat /\ now \in Times
  /\ phase \in {"start", "run", "poll", "sweep", "slot", "word", "callback"}
  /\ vv \subseteq WordsOf(Fds) /\ v \subseteq Fds
  /\ word \in WordsOf(Fds) \cup {0} /\ fd \in Fds \cup {0}
  /\ fault \in BOOLEAN
  /\ armed \in [Fds -> [due : Nat, delta : Int]]

\* A slot that is not being swept holds the timers that name it, and its
\* hint is exactly the words they are in.
SlotsAgree ==
  \A s \in Slots :
    ~(s = base_idx /\ Sweeping) => vec[s] = InSlot(s) /\ vec_of_vec[s] = WordsOf(vec[s])

\* In the slot being swept, the timers still set are those the sweep has
\* before it, and no timer has been added.
SweepAgrees ==
  /\ Sweeping => base_time <= now - 1
  /\ phase = "slot" =>
       /\ InSlot(base_idx) = vec[base_idx]
       /\ vv = WordsOf(vec[base_idx])
  /\ phase \in {"word", "callback"} =>
       /\ InSlot(base_idx) = v \cup {f \in vec[base_idx] : Word(f) \in vv}
       /\ v \subseteq {f \in vec[base_idx] : Word(f) = word}
       /\ word \notin vv
       /\ vv \cup {word} = WordsOf(vec[base_idx])
  /\ phase = "callback" => fd \in Fds /\ timeout_idx[fd] # base_idx

\* Timers belong to registered descriptors.
TimersRegistered == \A f \in Fds : Armed(f) => f \in registered

\* The time a timer fires at: the one it was asked for, or that of the last
\* slot of the turn it was set in when that was outside of the turn.
DueTime(f) == IF armed[f].delta \in Slots THEN armed[f].due
              ELSE armed[f].due - armed[f].delta + VecSize - 1

\* Every timer is in the slot of its time.
DueSlot == \A f \in Fds : Armed(f) => SlotTime(timeout_idx[f]) = DueTime(f)

IInv == TypeOK /\ SlotsAgree /\ SweepAgrees /\ TimersRegistered /\ DueSlot /\ ~fault

\* Neither assert of the sweep fails: vec_of_vec names no empty word, and a
\* timer fires for a registered descriptor only.
NoAssertFails == ~fault

\* A timer fires no earlier than asked for by loop->now, unless the loop was so
\* far behind (VecSize - secs) when it was set that its slot was not in the wheel.
NeverEarly ==
  [][\A f \in Fds : phase = "word" /\ phase' = "callback" /\ fd' = f =>
       base_time >= armed[f].due \/ armed[f].delta >= VecSize]_vars

\* The sweep does not pass a timer that is due, unless the clock was set back
\* before the timer was set.
NeverPassed ==
  \A f \in Fds : Armed(f) /\ armed[f].delta >= 0 => base_time <= armed[f].due

\* A timer does not stay set while loop->now is past its time.
EventuallyFires ==
  \A f \in Fds : ~<>[](Armed(f) /\ armed[f].delta >= 0 /\ now > armed[f].due)

\* The wheel implements a set of timers.
NotSet == -1
Abstract == INSTANCE Timers WITH NONE <- NotSet, time <- base_time,
  at <- [f \in Fds |-> IF Armed(f) THEN SlotTime(timeout_idx[f]) ELSE NotSet]
TimersSpec == Abstract!Spec
=============================================================================
