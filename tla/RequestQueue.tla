---------------------------- MODULE RequestQueue ----------------------------
(***************************************************************************)
(* request.c: the singly linked list of a connection's requests, and how   *)
(* bossan_ext.c uses it.  A request is an address that malloc hands out    *)
(* again after it was freed; next and bad are fields of what lies there,   *)
(* live or not.  Left out is what happens to the queue of a client that is *)
(* used after close_client freed it (module Bossan has that fault).        *)
(***************************************************************************)
EXTENDS Integers, Sequences

CONSTANTS Requests,   \* the addresses
          NULL

ASSUME NullAssumption == NULL \notin Requests

VARIABLES
  next, bad,          \* request.next, request.bad_request_code # 0
  live,               \* the addresses allocated
  head, tail, size,   \* request_queue
  current,            \* client.current_req
  phase,              \* "reading" the connection, or in close_client's cycle: "shift",
                      \* "clean" (clean_client), "free" (free_request_queue)
  fault,              \* freed memory or NULL was accessed
  order               \* history: the requests queued, in the order they arrived

vars == <<next, bad, live, head, tail, size, current, phase, fault, order>>

Init ==
  /\ next = [r \in Requests |-> NULL]
  /\ bad = [r \in Requests |-> FALSE]
  /\ live = {}
  /\ head = NULL /\ tail = NULL /\ size = 0
  /\ current = NULL
  /\ phase = "reading"
  /\ fault = FALSE
  /\ order = <<>>

Touch(r) == fault' = (fault \/ r \notin live)

\* Seeded fault: the request is put in front.
LifoPush(r) ==
  /\ head' = r /\ next' = [next EXCEPT ![r] = head]
  /\ tail' = (IF tail = NULL THEN r ELSE tail) /\ size' = size + 1

push_request(r) ==
  /\ head' = (IF tail = NULL THEN r ELSE head)
  /\ next' = [q \in Requests |-> IF q = tail THEN r ELSE IF q = r THEN NULL ELSE next[q]]
  /\ tail' = r /\ size' = size + 1

\* message_begin_cb: new_request and push_request
MessageBegin(r) ==
  /\ phase = "reading" /\ r \notin live
  /\ push_request(r)
  /\ bad' = [bad EXCEPT ![r] = FALSE]
  /\ live' = live \cup {r}
  /\ current' = r
  /\ order' = Append(order, r)
  /\ IF tail = NULL THEN UNCHANGED fault ELSE Touch(tail)
  /\ UNCHANGED phase

\* parse_http_request found the connection's last request complete.
Complete ==
  /\ phase = "reading" /\ size > 0
  /\ phase' = "shift"
  /\ UNCHANGED <<next, bad, live, head, tail, size, current, fault, order>>

\* Seeded fault: the first request of the queue is marked.
FaultyMarked == head
Marked == tail

\* set_read_error: set_bad_request_code writes to the tail of a non-empty
\* queue, which is then served; an empty one is closed.
SetReadError ==
  /\ phase = "reading"
  /\ IF size > 0
     THEN /\ bad' = [r \in Requests |-> bad[r] \/ r = Marked]
          /\ Touch(Marked)
          /\ phase' = "shift"
     ELSE /\ phase' = "clean"
          /\ UNCHANGED <<bad, fault>>
  /\ UNCHANGED <<next, live, head, tail, size, current, order>>

\* set_current_request: shift_request leaves the tail as it is.
Shift ==
  /\ phase = "shift"
  /\ current' = head
  /\ IF head = NULL
     THEN fault' = TRUE /\ UNCHANGED <<head, size, order>>
     ELSE /\ Touch(head)
          /\ head' = next[head]
          /\ size' = size - 1
          /\ order' = Tail(order)
  /\ phase' = "clean"
  /\ UNCHANGED <<next, bad, live, tail>>

\* Seeded fault: a kept connection goes on reading with the queue it has.
FaultyAfterClean == IF size > 0 THEN "shift" ELSE "reading"
AfterClean == IF size > 0 THEN "shift" ELSE "free"

\* Seeded fault: a request marked bad is not freed.
FaultyFreed == IF current \in Requests /\ bad[current] THEN {} ELSE {current}
Freed == {current}

\* clean_client
Clean ==
  /\ phase = "clean"
  /\ live' = live \ Freed
  /\ IF current = NULL THEN UNCHANGED fault ELSE Touch(current)
  /\ current' = NULL
  /\ phase' = AfterClean
  /\ UNCHANGED <<next, bad, head, tail, size, order>>

\* One turn of free_request_queue's loop, or its end and the new_client_t of
\* the next connection.
FreeQueue ==
  /\ phase = "free"
  /\ \/ /\ head # NULL
        /\ Touch(head)
        /\ live' = live \ {head}
        /\ head' = next[head]
        /\ UNCHANGED <<tail, size, phase>>
     \/ /\ head = NULL
        /\ tail' = NULL /\ size' = 0
        /\ phase' = "reading"
        /\ UNCHANGED <<live, head, fault>>
  /\ UNCHANGED <<next, bad, current, order>>

Next == \/ \E r \in Requests : MessageBegin(r)
        \/ Complete \/ SetReadError \/ Shift \/ Clean \/ FreeQueue

Spec == Init /\ [][Next]_vars

-----------------------------------------------------------------------------
Range(s) == {s[i] : i \in DOMAIN s}
LastOr(s) == IF s = <<>> THEN NULL ELSE s[Len(s)]

\* Every field has its type.
TypeOK ==
  /\ next \in [Requests -> Requests \cup {NULL}]
  /\ bad \in [Requests -> BOOLEAN]
  /\ live \subseteq Requests
  /\ head \in Requests \cup {NULL} /\ tail \in Requests \cup {NULL} /\ size \in Nat
  /\ current \in Requests \cup {NULL}
  /\ phase \in {"reading", "shift", "clean", "free"}
  /\ fault \in BOOLEAN
  /\ order \in Seq(Requests)

\* The list from head along next is exactly the queued requests, in order.
Linked ==
  /\ size = Len(order)
  /\ head = IF order = <<>> THEN NULL ELSE order[1]
  /\ \A i \in DOMAIN order :
       next[order[i]] = IF i = Len(order) THEN NULL ELSE order[i + 1]
  /\ \A i, j \in DOMAIN order : order[i] = order[j] => i = j

\* The requests allocated are the queued ones and the one being served, the
\* tail is right as long as requests can arrive.
Owned ==
  /\ phase = "reading" => live = Range(order) /\ tail = LastOr(order) /\ current = tail
  /\ phase = "shift"   => live = Range(order) /\ order # <<>>
  /\ phase = "clean"   => /\ live = Range(order) \cup ({current} \ {NULL})
                          /\ current \notin Range(order)
  /\ phase = "free"    => live = {} /\ order = <<>> /\ current = NULL

\* An error marks the request that was being read, never one queued before it.
BadIsLast ==
  \A i \in DOMAIN order : bad[order[i]] => i = Len(order) /\ phase # "reading"

IInv == TypeOK /\ Linked /\ Owned /\ BadIsLast /\ ~fault

\* No freed request is touched: the tail that shift_request leaves behind on
\* an empty list is never used again, the current request is freed once.
NoFreedAccess == ~fault

\* A client that starts to read owns no request of the one before it.
NoLeak == phase = "reading" /\ size = 0 => live = {}

\* The list implements a FIFO: requests are served in the order they arrived.
Fifo == INSTANCE RequestFifo WITH fifo <- order,
          served <- IF phase = "clean" THEN current ELSE NULL
FifoSpec == Fifo!Spec
=============================================================================
