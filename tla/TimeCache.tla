------------------------------ MODULE TimeCache ------------------------------
(***************************************************************************)
(* time_cache.c: the texts of the current second, for the Date header and  *)
(* the logs.  The texts are kept in a ring of slots, so that a pointer to  *)
(* one stays good while the next seconds are written to other slots; here  *)
(* a text is the second that it shows.                                     *)
(***************************************************************************)
EXTENDS Integers

CONSTANTS Slots    \* TIME_SLOTS, 64 in the code

ASSUME SlotsAssumption == Slots \in Nat \ {0, 1}

VARIABLES
  slot,        \* the slot of the last second
  cached_sec,  \* cached_time[slot].sec, the second that slot was written for
  text,        \* per slot the second its text shows
  http_time    \* the slot that the pointers to the texts name

cacheVars == <<slot, cached_sec, text, http_time>>

\* Seeded fault: the ring is one slot shorter.
FaultyNextSlot == IF slot = Slots - 2 THEN 0 ELSE slot + 1
NextSlot == IF slot = Slots - 1 THEN 0 ELSE slot + 1

\* cache_time_update at the second sec of gettimeofday().  (The text is made from
\* time(), which may lag behind by a tick; here it shows sec.)
Update(sec) ==
  IF cached_sec = sec
  THEN UNCHANGED cacheVars
  ELSE /\ slot' = NextSlot
       /\ cached_sec' = sec
       /\ text' = [text EXCEPT ![NextSlot] = sec]
       /\ http_time' = NextSlot

\* cache_time_init: the slots are empty but for the one it fills.
CacheInit(sec) ==
  /\ slot = 1 /\ http_time = 1 /\ cached_sec = sec
  /\ text = [i \in 0 .. Slots - 1 |-> IF i = 1 THEN sec ELSE 0]
=============================================================================
