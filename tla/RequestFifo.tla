---------------------------- MODULE RequestFifo ----------------------------
(***************************************************************************)
(* What the request queue of a connection promises: requests are taken one *)
(* at a time, each once, in the order they arrived, and none is lost.      *)
(***************************************************************************)
EXTENDS Sequences

CONSTANTS Requests, NULL

VARIABLES fifo, served    \* served: the request being served, or NULL

fifoVars == <<fifo, served>>

Init == fifo = <<>> /\ served = NULL

Arrive(r) == /\ served = NULL /\ \A i \in DOMAIN fifo : fifo[i] # r
             /\ fifo' = Append(fifo, r)
             /\ UNCHANGED served
Take == /\ served = NULL /\ fifo # <<>>
        /\ served' = Head(fifo)
        /\ fifo' = Tail(fifo)
Finish == /\ served # NULL
          /\ served' = NULL
          /\ UNCHANGED fifo

Next == Take \/ Finish \/ \E r \in Requests : Arrive(r)

Spec == Init /\ [][Next]_fifoVars
=============================================================================
