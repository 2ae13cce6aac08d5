------------------------------- MODULE Timers -------------------------------
(***************************************************************************)
(* What a timing wheel promises: every timer has one time, less than a     *)
(* turn of the wheel ahead; it fires when the wheel's time is that time,   *)
(* and the wheel's time does not pass it before it fired.                  *)
(***************************************************************************)
EXTENDS Integers

CONSTANTS Fds,       \* a timer each
          VecSize,   \* the turn of the wheel, in seconds
          NONE       \* the time of a timer that is not set

VARIABLES at, time

timerVars == <<at, time>>

Init == time \in Nat /\ at = [fd \in Fds |-> NONE]

\* The time is chosen when the timer is set.
Arm(fd) == /\ \E t \in time .. time + VecSize - 1 : at' = [at EXCEPT ![fd] = t]
           /\ UNCHANGED time
Disarm(fd) == /\ at[fd] # NONE
              /\ at' = [at EXCEPT ![fd] = NONE]
              /\ UNCHANGED time
Advance == /\ \A fd \in Fds : at[fd] # time
           /\ time' = time + 1
           /\ UNCHANGED at

Next == Advance \/ \E fd \in Fds : Arm(fd) \/ Disarm(fd)

Spec == Init /\ [][Next]_timerVars
=============================================================================
