------------------------- MODULE RequestQueueProofs -------------------------
(***************************************************************************)
(* Proofs about RequestQueue, for any set of addresses: the list is what   *)
(* the history says was queued, no freed request is touched, none leaks,   *)
(* and the list implements RequestFifo.                                    *)
(***************************************************************************)
EXTENDS RequestQueue, TLAPS

USE NullAssumption

\* The first request of a non-empty queue, and what is left without it.
LEMMA Shifting ==
  ASSUME NEW s \in Seq(Requests), s # <<>>,
         \A i, j \in DOMAIN s : s[i] = s[j] => i = j
  PROVE  /\ Tail(s) \in Seq(Requests) /\ Len(Tail(s)) = Len(s) - 1
         /\ \A i \in DOMAIN Tail(s) : Tail(s)[i] = s[i + 1] /\ i + 1 \in DOMAIN s
         /\ s[1] \in Requests
         /\ s[1] \notin Range(Tail(s))
         /\ Range(s) = Range(Tail(s)) \cup {s[1]}
<1>1. /\ Tail(s) \in Seq(Requests) /\ Len(Tail(s)) = Len(s) - 1 /\ Len(s) > 0
      /\ \A i \in DOMAIN Tail(s) : Tail(s)[i] = s[i + 1] /\ i + 1 \in DOMAIN s
      /\ s[1] \in Requests /\ 1 \in DOMAIN s
  OBVIOUS
<1>2. s[1] \notin Range(Tail(s))
  BY <1>1 DEF Range
<1>3. \A i \in DOMAIN s : i = 1 \/ (i - 1 \in DOMAIN Tail(s) /\ Tail(s)[i - 1] = s[i])
  BY <1>1
<1>4. Range(s) = Range(Tail(s)) \cup {s[1]}
  BY <1>1, <1>3 DEF Range
<1> QED
  BY <1>1, <1>2, <1>4

\* A queue with a request that was not on it.
LEMMA Pushing ==
  ASSUME NEW s \in Seq(Requests), NEW r \in Requests, r \notin Range(s)
  PROVE  /\ Append(s, r) \in Seq(Requests) /\ Len(Append(s, r)) = Len(s) + 1
         /\ \A i \in DOMAIN s : Append(s, r)[i] = s[i] /\ s[i] # r /\ i < Len(s) + 1
         /\ Append(s, r)[Len(s) + 1] = r
         /\ \A i \in DOMAIN Append(s, r) : i \in DOMAIN s \/ i = Len(s) + 1
         /\ Range(Append(s, r)) = Range(s) \cup {r}
         /\ Append(s, r) # <<>>
<1>1. /\ Append(s, r) \in Seq(Requests) /\ Len(Append(s, r)) = Len(s) + 1
      /\ \A i \in DOMAIN s : Append(s, r)[i] = s[i] /\ i < Len(s) + 1
      /\ Append(s, r)[Len(s) + 1] = r
      /\ \A i \in DOMAIN Append(s, r) : i \in DOMAIN s \/ i = Len(s) + 1
      /\ \A i \in DOMAIN s : i \in DOMAIN Append(s, r)
      /\ Len(s) + 1 \in DOMAIN Append(s, r)
  OBVIOUS
<1>2. \A i \in DOMAIN s : s[i] # r
  BY DEF Range
<1>3. Range(Append(s, r)) = Range(s) \cup {r}
  BY <1>1 DEF Range
<1> QED
  BY <1>1, <1>2, <1>3

\* Only the empty queue has length 0.
LEMMA EmptyLen == ASSUME NEW s \in Seq(Requests), Len(s) = 0 PROVE s = <<>>
  OBVIOUS

\* The initial state: an empty list.
LEMMA InitInv == Init => IInv
<1>1. SUFFICES ASSUME Init PROVE IInv
  OBVIOUS
<1>2. order = <<>> /\ DOMAIN order = {} /\ Range(order) = {} /\ LastOr(order) = NULL
  BY <1>1 DEF Init, Range, LastOr
<1>3. order \in Seq(Requests)
  BY <1>2
<1>5. /\ next \in [Requests -> Requests \cup {NULL}] /\ bad \in [Requests -> BOOLEAN]
      /\ size = 0 /\ live = {} /\ head = NULL /\ tail = NULL /\ current = NULL
      /\ phase = "reading" /\ fault = FALSE
  BY <1>1 DEF Init
<1>6. TypeOK /\ ~fault
  BY <1>3, <1>5 DEF TypeOK
<1>4. Linked /\ Owned /\ BadIsLast
  BY <1>1, <1>2 DEF Init, Linked, Owned, BadIsLast
<1> QED
  BY <1>6, <1>4 DEF IInv

\* message_begin_cb appends the new request to the list.
LEMMA BeginInv == ASSUME IInv, NEW r \in Requests, MessageBegin(r) PROVE IInv'
<1> USE DEF IInv, TypeOK
<1>1. /\ phase = "reading" /\ phase' = phase /\ order' = Append(order, r) /\ r \notin Range(order)
      /\ live = Range(order) /\ tail = LastOr(order) /\ head' = (IF tail = NULL THEN r ELSE head)
      /\ live' = live \cup {r} /\ current' = r /\ tail' = r /\ size' = size + 1
      /\ next' = [q \in Requests |-> IF q = tail THEN r ELSE IF q = r THEN NULL ELSE next[q]]
      /\ bad' = [bad EXCEPT ![r] = FALSE]
  BY DEF MessageBegin, push_request, Owned
<1>2. /\ order' \in Seq(Requests) /\ Len(order') = Len(order) + 1
      /\ \A i \in DOMAIN order : order'[i] = order[i] /\ order[i] # r /\ i < Len(order) + 1
      /\ order'[Len(order) + 1] = r
      /\ \A i \in DOMAIN order' : i \in DOMAIN order \/ i = Len(order) + 1
      /\ Range(order') = Range(order) \cup {r}
      /\ order' # <<>>
  BY <1>1, Pushing
<1>3. tail # NULL => tail \in live /\ order # <<>> /\ tail = order[Len(order)]
                     /\ Len(order) \in DOMAIN order
  BY <1>1 DEF LastOr, Range
<1>4. tail = NULL => order = <<>>
  BY <1>1 DEF LastOr
<1>5. TypeOK' /\ ~fault'
  BY <1>1, <1>2, <1>3 DEF MessageBegin, Touch
<1>6. Linked'
  <2>1. size' = Len(order') /\ head' = order'[1]
    BY <1>1, <1>2, <1>3, <1>4 DEF Linked
  <2>2. \A i \in DOMAIN order : order[i] = tail <=> i = Len(order)
    BY <1>1, <1>3, <1>4 DEF Linked
  <2>3. ASSUME NEW i \in DOMAIN order'
        PROVE  next'[order'[i]] = IF i = Len(order') THEN NULL ELSE order'[i + 1]
    <3>1. CASE i = Len(order) + 1
      BY <1>1, <1>2, <1>3, <3>1 DEF Range
    <3>2. CASE i \in DOMAIN order /\ i = Len(order)
      BY <1>1, <1>2, <2>2, <3>2
    <3>3. CASE i \in DOMAIN order /\ i # Len(order)
      <4>1. order[i] \in Requests /\ order[i] # tail /\ order[i] # r /\ i + 1 \in DOMAIN order
        BY <1>2, <2>2, <3>3
      <4>2. next[order[i]] = order[i + 1]
        BY <3>3 DEF Linked
      <4> QED
        BY <1>1, <1>2, <3>3, <4>1, <4>2
    <3> QED
      BY <1>2, <3>1, <3>2, <3>3
  <2>4. \A i, j \in DOMAIN order' : order'[i] = order'[j] => i = j
    BY <1>2 DEF Linked
  <2> QED
    BY <1>2, <2>1, <2>3, <2>4 DEF Linked
<1>7. Owned'
  BY <1>1, <1>2 DEF Owned, LastOr
<1>8. BadIsLast'
  BY <1>1, <1>2 DEF BadIsLast
<1> QED
  BY <1>5, <1>6, <1>7, <1>8

\* The end of reading: nothing but the marked request changes.
LEMMA ReadingEndsInv == ASSUME IInv, Complete \/ SetReadError PROVE IInv'
<1> USE DEF IInv, TypeOK
<1>1. /\ phase = "reading" /\ UNCHANGED <<next, live, head, tail, size, current, order>>
      /\ phase' = IF size > 0 THEN "shift" ELSE "clean"
  BY DEF Complete, SetReadError
<1>2. Linked' /\ Range(order') = Range(order) /\ LastOr(order') = LastOr(order)
  BY <1>1 DEF Linked, Range, LastOr
<1>3. size > 0 => order # <<>> /\ tail \in live /\ tail = order[Len(order)]
  BY <1>1 DEF Linked, Owned, LastOr, Range
<1>4. size = 0 => order = <<>>
  BY EmptyLen DEF Linked
<1>5. TypeOK' /\ ~fault'
  BY <1>1, <1>3 DEF Complete, SetReadError, Touch, Marked
<1>6. Owned'
  BY <1>1, <1>2, <1>3, <1>4 DEF Owned, LastOr, Range
<1>7. BadIsLast'
  <2>1. \A i \in DOMAIN order : ~bad[order[i]]
    BY <1>1 DEF BadIsLast
  <2>2. CASE Complete
    BY <1>1, <2>1, <2>2 DEF BadIsLast, Complete
  <2>3. CASE SetReadError /\ size > 0
    BY <1>1, <1>3, <2>1, <2>3 DEF BadIsLast, SetReadError, Linked, Marked
  <2>4. CASE SetReadError /\ size = 0
    BY <1>1, <1>4, <2>1, <2>4 DEF BadIsLast, SetReadError
  <2> QED
    BY <2>2, <2>3, <2>4
<1> QED
  BY <1>2, <1>5, <1>6, <1>7

\* shift_request takes the first request off the list.
LEMMA ShiftInv == ASSUME IInv, Shift PROVE IInv'
<1> USE DEF IInv, TypeOK
<1>1. /\ order # <<>> /\ head = order[1] /\ head \in Requests /\ head \in live
      /\ live = Range(order) /\ 1 \in DOMAIN order
  BY DEF Shift, Owned, Linked, Range
<1>2. /\ current' = head /\ head' = next[head] /\ size' = size - 1 /\ order' = Tail(order)
      /\ phase' = "clean" /\ UNCHANGED <<next, bad, live, tail>> /\ ~fault'
  BY <1>1 DEF Shift, Touch
<1>0. order \in Seq(Requests) /\ \A i, j \in DOMAIN order : order[i] = order[j] => i = j
  BY DEF Linked
<1>3. /\ order' \in Seq(Requests) /\ Len(order') = Len(order) - 1 /\ Len(order) > 0
      /\ \A i \in DOMAIN order' : order'[i] = order[i + 1] /\ i + 1 \in DOMAIN order
      /\ head \notin Range(order') /\ Range(order) = Range(order') \cup {head}
  <2> HIDE DEF IInv, TypeOK
  <2> QED
    BY <1>0, <1>1, <1>2, Shifting
<1>4. TypeOK'
  <2>1. size' \in Nat
    BY <1>2, <1>3 DEF Linked
  <2>2. head' \in Requests \cup {NULL} /\ current' \in Requests \cup {NULL}
    BY <1>1, <1>2
  <2>3. /\ next' \in [Requests -> Requests \cup {NULL}] /\ bad' \in [Requests -> BOOLEAN]
        /\ live' \subseteq Requests /\ tail' \in Requests \cup {NULL}
        /\ phase' \in {"reading", "shift", "clean", "free"} /\ fault' \in BOOLEAN
    BY <1>2 DEF Shift, Touch
  <2>4. order' \in Seq(Requests)
    BY <1>3
  <2> HIDE DEF IInv
  <2> QED
    BY <2>1, <2>2, <2>3, <2>4 DEF TypeOK
<1>5. Linked'
  <2>1. head' = IF order' = <<>> THEN NULL ELSE order'[1]
    <3>1. next[order[1]] = IF 1 = Len(order) THEN NULL ELSE order[2]
      BY <1>1 DEF Linked
    <3>2. CASE Len(order) = 1
      <4>1. order' = <<>>
        BY <1>3, <3>2, EmptyLen
      <4> QED
        BY <1>1, <1>2, <3>1, <3>2, <4>1
    <3>3. CASE Len(order) # 1
      <4>1. 1 \in DOMAIN order' /\ order' # <<>> /\ order'[1] = order[2]
        BY <1>3, <3>3
      <4> QED
        BY <1>1, <1>2, <3>1, <3>3, <4>1
    <3> QED
      BY <3>2, <3>3
  <2>2. size' = Len(order')
    BY <1>2, <1>3 DEF Linked
  <2>3. \A i \in DOMAIN order' :
           next[order'[i]] = IF i = Len(order') THEN NULL ELSE order'[i + 1]
    <3>1. SUFFICES ASSUME NEW i \in DOMAIN order'
                   PROVE  next[order'[i]] = IF i = Len(order') THEN NULL ELSE order'[i + 1]
      OBVIOUS
    <3> DEFINE j == i + 1
    <3>2. i \in Nat /\ j \in DOMAIN order /\ j + 1 = i + 2
      BY <1>3
    <3>3. \A m \in DOMAIN order : next[order[m]] = IF m = Len(order) THEN NULL ELSE order[m + 1]
      BY DEF Linked
    <3>4. next[order[i + 1]] = IF i + 1 = Len(order) THEN NULL ELSE order[i + 2]
      <4> HIDE DEF IInv, TypeOK
      <4> QED
        BY <3>2, <3>3
    <3>5. i # Len(order') => i + 1 \in DOMAIN order'
      BY <1>3
    <3> QED
      BY <1>3, <3>4, <3>5
  <2>4. \A i, j \in DOMAIN order' : order'[i] = order'[j] => i = j
    BY <1>3 DEF Linked
  <2> QED
    BY <1>2, <2>1, <2>2, <2>3, <2>4 DEF Linked
<1>6. Owned'
  BY <1>1, <1>2, <1>3 DEF Owned
<1>7. BadIsLast'
  <2>1. ASSUME NEW i \in DOMAIN order', bad[order'[i]] PROVE i = Len(order')
    <3>1. i + 1 \in DOMAIN order /\ bad[order[i + 1]]
      BY <1>3, <2>1
    <3>2. i + 1 = Len(order)
      BY <3>1 DEF BadIsLast
    <3> QED
      BY <1>3, <3>2
  <2> QED
    BY <1>2, <2>1 DEF BadIsLast
<1> QED
  BY <1>2, <1>4, <1>5, <1>6, <1>7

\* clean_client frees the current request, which is no longer on the list.
LEMMA CleanInv == ASSUME IInv, Clean PROVE IInv'
<1> USE DEF IInv, TypeOK
<1>1. /\ phase = "clean" /\ live' = live \ {current} /\ current' = NULL
      /\ phase' = (IF size > 0 THEN "shift" ELSE "free")
      /\ UNCHANGED <<next, bad, head, tail, size, order>>
  BY DEF Clean, Freed, AfterClean
<1>2. live = Range(order) \cup ({current} \ {NULL}) /\ current \notin Range(order)
  BY <1>1 DEF Owned
<1>3. NULL \notin Range(order)
  BY DEF Range
<1>4. live' = Range(order) /\ Range(order') = Range(order)
  BY <1>1, <1>2, <1>3 DEF Range
<1>5. ~fault' /\ TypeOK'
  BY <1>1, <1>2 DEF Clean, Touch
<1>6. Linked' /\ BadIsLast'
  BY <1>1 DEF Linked, BadIsLast
<1>7. Owned'
  BY <1>1, <1>4 DEF Owned, Linked, Range
<1> QED
  BY <1>5, <1>6, <1>7

\* free_request_queue finds the list empty.
LEMMA FreeInv == ASSUME IInv, FreeQueue PROVE IInv'
<1> USE DEF IInv, TypeOK
<1>1. phase = "free" /\ head = NULL /\ order = <<>> /\ live = {} /\ current = NULL
  BY DEF FreeQueue, Owned, Linked
<1>2. /\ tail' = NULL /\ size' = 0 /\ phase' = "reading"
      /\ UNCHANGED <<next, bad, live, head, current, order, fault>>
  BY <1>1 DEF FreeQueue
<1> QED
  BY <1>1, <1>2 DEF Linked, Owned, BadIsLast, Range, LastOr

\* No step breaks the invariant.
LEMMA NextInv == IInv /\ [Next]_vars => IInv'
<1>1. SUFFICES ASSUME IInv, [Next]_vars PROVE IInv'
  OBVIOUS
<1>2. CASE UNCHANGED vars
  BY <1>1, <1>2 DEF vars, IInv, TypeOK, Linked, Owned, BadIsLast, Range, LastOr
<1> QED
  BY <1>1, <1>2, BeginInv, ReadingEndsInv, ShiftInv, CleanInv, FreeInv DEF Next

\* The list is always the history of requests, owned and marked as IInv says.
THEOREM QueueInvariance == Spec => []IInv
  BY InitInv, NextInv, PTL DEF Spec

\* No freed request and no NULL is ever accessed through the queue.
THEOREM QueueSafe == Spec => []NoFreedAccess
<1>1. IInv => NoFreedAccess
  BY DEF IInv, NoFreedAccess
<1> QED
  BY <1>1, QueueInvariance, PTL

\* A request marked bad is the last that arrived, and nothing is read after it.
THEOREM QueueBadIsLast == Spec => []BadIsLast
<1>1. IInv => BadIsLast
  BY DEF IInv
<1> QED
  BY <1>1, QueueInvariance, PTL

\* All requests of a client are freed before the next one reads.
THEOREM QueueNoLeak == Spec => []NoLeak
<1>1. IInv => NoLeak
  <2>1. SUFFICES ASSUME IInv, phase = "reading", size = 0 PROVE live = {}
    BY DEF NoLeak
  <2>3. order \in Seq(Requests) /\ Len(order) = 0
    BY <2>1 DEF IInv, TypeOK, Linked
  <2>4. order = <<>>
    BY <2>3, EmptyLen
  <2>2. order = <<>> /\ DOMAIN order = {}
    BY <2>4
  <2> QED
    BY <2>1, <2>2 DEF IInv, Owned, Range
<1> QED
  BY <1>1, QueueInvariance, PTL

\* push_request and shift_request implement the FIFO, with the history as its
\* contents: what shift_request finds at head is the oldest request.
THEOREM QueueIsFifo == Spec => FifoSpec
<1>1. Init => Fifo!Init
  BY DEF Init, Fifo!Init
<1>2. IInv /\ [Next]_vars => [Fifo!Next]_Fifo!fifoVars
  <2>1. SUFFICES ASSUME IInv, [Next]_vars PROVE [Fifo!Next]_Fifo!fifoVars
    OBVIOUS
  <2>2. ASSUME NEW r \in Requests, MessageBegin(r) PROVE Fifo!Arrive(r)
    BY <2>1, <2>2 DEF MessageBegin, Fifo!Arrive, IInv, Owned, Range
  <2>3. CASE Complete \/ SetReadError
    <3>1. /\ phase = "reading" /\ UNCHANGED <<order, current>> /\ phase' \in {"shift", "clean"}
          /\ phase' = "clean" => current = NULL
      BY <2>1, <2>3 DEF Complete, SetReadError, IInv, TypeOK, Owned, LastOr, Linked
    <3> QED
      BY <3>1 DEF Fifo!fifoVars
  <2>4. CASE Shift
    <3>1. phase = "shift" /\ order # <<>> /\ head = Head(order) /\ head # NULL
      BY <2>1, <2>4 DEF Shift, IInv, TypeOK, Owned, Linked
    <3> QED
      BY <2>4, <3>1 DEF Shift, Fifo!Next, Fifo!Take
  <2>5. CASE Clean
    <3>1. phase = "clean" /\ phase' \in {"shift", "free"} /\ UNCHANGED order
      BY <2>5 DEF Clean, AfterClean
    <3> QED
      BY <3>1 DEF Fifo!Next, Fifo!Finish, Fifo!fifoVars
  <2>6. CASE FreeQueue
    BY <2>6 DEF FreeQueue, Fifo!fifoVars
  <2>7. CASE UNCHANGED vars
    BY <2>7 DEF vars, Fifo!fifoVars
  <2> QED
    BY <2>1, <2>2, <2>3, <2>4, <2>5, <2>6, <2>7 DEF Next, Fifo!Next
<1> QED
  BY <1>1, <1>2, QueueInvariance, PTL DEF Spec, FifoSpec, Fifo!Spec
=============================================================================
