---------------------------- MODULE WriteBucket ----------------------------
(***************************************************************************)
(* bossan_ext.c: a write_bucket, the iovec array that a packet of the      *)
(* response is put together in and that writev_bucket resumes after the    *)
(* socket took a part of it.  A byte of the packet is the pair of its      *)
(* entry and its position there.                                           *)
(***************************************************************************)
EXTENDS Integers, SequencesExt

CONSTANTS Packets    \* the packets: sequences of the lengths of their parts

ASSUME PacketsAssumption == Packets \subseteq Seq(Nat)

VARIABLES
  iov,       \* per entry its iov_base, as the bytes already skipped, and iov_len
  total, sended,
  phase,     \* "new"; "write" in writev_bucket; its result "ok", "suspend" or "error"
  out,       \* the bytes that the socket took
  packet     \* history: the parts' lengths

vars == <<iov, total, sended, phase, out, packet>>

Entries(p) == [i \in DOMAIN p |-> [base |-> 0, len |-> p[i]]]

\* The bytes the entries stand for, in the order writev sends them.
BytesOf(entries) ==
  FlattenSeq([i \in DOMAIN entries |->
    [k \in 1 .. entries[i].len |-> <<i, entries[i].base + k>>]])

Init ==
  /\ iov = <<>> /\ total = 0 /\ sended = FALSE
  /\ phase = "new" /\ out = <<>> /\ packet = <<>>

\* new_write_bucket and a set2bucket for each part
Fill ==
  /\ phase = "new"
  /\ packet' \in Packets
  /\ iov' = Entries(packet') /\ total' = Len(BytesOf(Entries(packet')))
  /\ phase' = "write"
  /\ UNCHANGED <<sended, out>>

\* The entry that the socket stopped in, when it took w bytes: entries it
\* took more than are skipped.
Before(i) == Len(BytesOf(SubSeq(iov, 1, i - 1)))
StopsIn(w, i) == /\ w <= Before(i) + iov[i].len
                 /\ \A k \in 1 .. i - 1 : w > Before(k) + iov[k].len

Resumed(w) ==
  LET stop == CHOOSE i \in DOMAIN iov : StopsIn(w, i)
      rest == w - Before(stop)
  IN [i \in DOMAIN iov |->
        CASE i < stop -> [iov[i] EXCEPT !.len = 0]
          [] i = stop -> [base |-> iov[i].base + rest, len |-> iov[i].len - rest]
          [] OTHER    -> iov[i]]

\* Seeded fault: what is skipped is subtracted by the loop, and after it again.
FaultyLeft(w) == total - w - Before(CHOOSE i \in DOMAIN iov : StopsIn(w, i))
\* w was reduced by the loop: total goes down by what was taken of the last
\* entry only.
Left(w) == total - (w - Before(CHOOSE i \in DOMAIN iov : StopsIn(w, i)))

\* Seeded fault: the write of nothing is not taken for the end.
FaultyNothingTaken == FALSE
\* writev of entries that are all empty returns 0.
NothingTaken == BytesOf(iov) = <<>>

WriteNothing ==
  /\ phase = "write" /\ NothingTaken
  /\ sended' = TRUE /\ phase' = "ok"
  /\ UNCHANGED <<iov, total, out, packet>>

WriteSome ==
  /\ phase = "write" /\ ~NothingTaken
  /\ \E w \in 1 .. Len(BytesOf(iov)) :
       /\ out' = out \o SubSeq(BytesOf(iov), 1, w)
       /\ IF total > w
          THEN /\ iov' = Resumed(w) /\ total' = Left(w)
               /\ UNCHANGED <<sended, phase>>
          ELSE /\ sended' = TRUE /\ phase' = "ok"
               /\ UNCHANGED <<iov, total>>
  /\ UNCHANGED packet

\* EAGAIN, or another error
WriteFails ==
  /\ phase = "write" /\ BytesOf(iov) # <<>>
  /\ phase' \in {"suspend", "error"}
  /\ UNCHANGED <<iov, total, sended, out, packet>>

\* process_body, called by w_callback
Retry ==
  /\ phase = "suspend"
  /\ phase' = "write"
  /\ UNCHANGED <<iov, total, sended, out, packet>>

\* free_write_bucket, and the bucket of the next packet
Free ==
  /\ phase \in {"ok", "error"}
  /\ iov' = <<>> /\ total' = 0 /\ sended' = FALSE
  /\ phase' = "new" /\ out' = <<>> /\ packet' = <<>>

\* close_client while the bucket is suspended: nobody frees it.
Abandon ==
  /\ phase = "suspend"
  /\ iov' = <<>> /\ total' = 0 /\ sended' = FALSE
  /\ phase' = "new" /\ out' = <<>> /\ packet' = <<>>

Next == Fill \/ WriteNothing \/ WriteSome \/ WriteFails \/ Retry \/ Free \/ Abandon

Spec == Init /\ [][Next]_vars

-----------------------------------------------------------------------------
\* Whatever the boundaries of its partial writes, a packet is sent once and in
\* order: what writev_bucket resumes is exactly the rest of it, and a bucket
\* that it reports as sent is sent completely.
SendsPacket ==
  /\ phase \in {"write", "suspend"} => out \o BytesOf(iov) = BytesOf(Entries(packet))
  /\ phase = "ok" => sended /\ out = BytesOf(Entries(packet))

\* writev_bucket returns, although total may never come down to 0: the write
\* of nothing ends it.
Returns == phase = "write" ~> phase # "write"

-----------------------------------------------------------------------------
(* The inductive invariant.                                                *)

Byte == Nat \X Nat
EntrySet == [base : Nat, len : Nat]

\* The entries are the rest of the packet, and total is never below its length.
BucketInv ==
  /\ iov \in Seq(EntrySet) /\ total \in Int /\ out \in Seq(Byte)
  /\ phase = "new" => out = <<>> /\ ~sended
  /\ phase \in {"write", "suspend"} =>
       /\ out \o BytesOf(iov) = BytesOf(Entries(packet))
       /\ total >= Len(BytesOf(iov))
  /\ phase = "ok" => sended /\ out = BytesOf(Entries(packet))
=============================================================================
