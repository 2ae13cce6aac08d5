---------------------------- MODULE MCDateHeader ----------------------------
(***************************************************************************)
(* Packets for model checking DateHeader: every sequence of one or two     *)
(* parts of zero to two bytes, of three parts of at most one, and two of   *)
(* four parts, as a chunk has them.  The second part is the date.          *)
(***************************************************************************)
EXTENDS DateHeader

MCPackets ==
  UNION {[1 .. n -> 0 .. 2] : n \in 1 .. 2} \cup [1 .. 3 -> 0 .. 1]
  \cup {<<1, 1, 1, 1>>, <<2, 2, 0, 1>>}
=============================================================================
