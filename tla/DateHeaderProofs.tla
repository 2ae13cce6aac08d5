--------------------------- MODULE DateHeaderProofs ---------------------------
(***************************************************************************)
(* Proofs about WriteBucket and DateHeader.  First, for every packet, that *)
(* writev_bucket sends it once, in order and complete; then, for every     *)
(* ring, timeout and load that DateAssumption allows, that its Date is one *)
(* second's, and that DateHeader implements the bucket.                    *)
(***************************************************************************)
EXTENDS DateHeader, SequenceTheorems, WellFoundedInduction, TLAPS

-----------------------------------------------------------------------------
(* The bytes of a bucket, entry by entry.                                  *)

\* The bytes of the i-th entry, and those of the first n.
Part(e, i) == [k \in 1 .. e[i].len |-> <<i, e[i].base + k>>]
Leading(e, n) == BytesOf(SubSeq(e, 1, n))

\* Induction over a set of numbers.
LEMMA NatSetInduction ==
  ASSUME NEW T, 0 \in T, \A n \in Nat : n \in T => n + 1 \in T
  PROVE  \A n \in Nat : n \in T
  <1> SUFFICES ASSUME Nat \ T # {} PROVE FALSE
    OBVIOUS
  <1>1. PICK n \in Nat \ T : \A m \in Nat \ T : ~(<<m, n>> \in OpToRel(<, Nat))
    BY NatLessThanWellFounded, WFMin
  <1>2. n # 0 /\ n - 1 \in Nat
    OBVIOUS
  <1>3. <<n - 1, n>> \in OpToRel(<, Nat)
    BY <1>2 DEF OpToRel
  <1>4. n - 1 \in T
    BY <1>1, <1>2, <1>3
  <1>5. QED
    BY <1>2, <1>4

\* A set of numbers that is not empty has a least one.
LEMMA LeastOf ==
  ASSUME NEW T, T \subseteq Nat, T # {}
  PROVE  \E n \in T : \A m \in T : n <= m
  <1>1. PICK n \in T : \A m \in T : ~(<<m, n>> \in OpToRel(<, Nat))
    BY NatLessThanWellFounded, WFMin
  <1>2. ASSUME NEW m \in T PROVE n <= m
    <2>1. m \in Nat /\ n \in Nat
      OBVIOUS
    <2>2. m < n => <<m, n>> \in OpToRel(<, Nat)
      BY <2>1 DEF OpToRel
    <2>3. ~(m < n)
      BY <1>1, <2>2
    <2>4. QED
      BY <2>1, <2>3
  <1>3. QED
    BY <1>2

\* FlattenSeq's recursive function, as it is meant to be.
Flattens(f, s, n) ==
  f = [i \in 1 .. n |-> IF i = 1 THEN s[i] ELSE f[i - 1] \o s[i]]

LEMMA FlattensAt ==
  ASSUME NEW s, NEW n \in Nat, NEW f, Flattens(f, s, n), NEW i \in 1 .. n
  PROVE  f[i] = IF i = 1 THEN s[i] ELSE f[i - 1] \o s[i]
  BY DEF Flattens

LEMMA FlattensExists ==
  ASSUME NEW s, NEW n \in Nat
  PROVE  \E f : Flattens(f, s, n)
  <1> DEFINE T == {m \in Nat : \E f : Flattens(f, s, m)}
  <1>1. 0 \in T
    <2>1. Flattens([i \in 1 .. 0 |-> s[i]], s, 0)
      BY DEF Flattens
    <2>2. QED
      BY <2>1
  <1>2. ASSUME NEW m \in Nat, m \in T PROVE m + 1 \in T
    <2>1. PICK f : Flattens(f, s, m)
      BY <1>2
    <2> DEFINE e == IF m = 0 THEN s[1] ELSE f[m] \o s[m + 1]
               g == [i \in 1 .. m + 1 |-> IF i = m + 1 THEN e ELSE f[i]]
    <2>2. ASSUME NEW i \in 1 .. m + 1
          PROVE  g[i] = IF i = 1 THEN s[i] ELSE g[i - 1] \o s[i]
      <3>1. CASE i = m + 1
        BY <3>1
      <3>2. CASE i # m + 1
        <4>1. i \in 1 .. m /\ g[i] = f[i]
          BY <3>2
        <4>2. f[i] = IF i = 1 THEN s[i] ELSE f[i - 1] \o s[i]
          BY <2>1, <4>1 DEF Flattens
        <4>3. i # 1 => g[i - 1] = f[i - 1]
          BY <4>1
        <4>4. QED
          BY <4>1, <4>2, <4>3
      <3>3. QED
        BY <3>1, <3>2
    <2>3. g = [i \in 1 .. m + 1 |-> g[i]]
      OBVIOUS
    <2> HIDE DEF g, e
    <2>4. g = [i \in 1 .. m + 1 |-> IF i = 1 THEN s[i] ELSE g[i - 1] \o s[i]]
      BY <2>2, <2>3
    <2>5. Flattens(g, s, m + 1)
      BY <2>4 DEF Flattens
    <2>6. QED
      BY <2>5
  <1> HIDE DEF T
  <1>3. n \in T
    BY <1>1, <1>2, NatSetInduction
  <1>4. QED
    BY <1>3 DEF T

\* What FlattenSeq returns is the value of such a function.
LEMMA FlattenSeqValue ==
  ASSUME NEW s, Len(s) \in Nat
  PROVE  \E f : /\ Flattens(f, s, Len(s))
                /\ FlattenSeq(s) = IF Len(s) = 0 THEN s ELSE f[Len(s)]
  <1>1. \E f : Flattens(f, s, Len(s))
    BY FlattensExists
  <1>2. Flattens(CHOOSE f : Flattens(f, s, Len(s)), s, Len(s))
    BY <1>1
  <1>3. FlattenSeq(s) =
          IF Len(s) = 0 THEN s ELSE (CHOOSE f : Flattens(f, s, Len(s)))[Len(s)]
    BY DEF FlattenSeq, Flattens
  <1>4. QED
    BY <1>2, <1>3

-----------------------------------------------------------------------------
(* The bytes of the first entries.                                         *)

LEMMA PartType ==
  ASSUME NEW e \in Seq(EntrySet), NEW i \in 1 .. Len(e)
  PROVE  /\ e[i].base \in Nat /\ e[i].len \in Nat
         /\ Part(e, i) \in Seq(Byte)
         /\ Len(Part(e, i)) = e[i].len
         /\ \A k \in 1 .. e[i].len : Part(e, i)[k] = <<i, e[i].base + k>>
  <1>1. e[i] \in EntrySet
    OBVIOUS
  <1>2. e[i].base \in Nat /\ e[i].len \in Nat
    BY <1>1 DEF EntrySet
  <1>3. \A k \in 1 .. e[i].len : <<i, e[i].base + k>> \in Byte
    BY <1>2 DEF Byte
  <1>4. Part(e, i) \in Seq(Byte)
    <2>1. Part(e, i) \in [1 .. e[i].len -> Byte]
      BY <1>3 DEF Part
    <2>2. [1 .. e[i].len -> Byte] \subseteq Seq(Byte)
      BY <1>2, SeqDef
    <2>3. QED
      BY <2>1, <2>2
  <1>5. Len(Part(e, i)) = e[i].len
    BY <1>2 DEF Part
  <1>6. \A k \in 1 .. e[i].len : Part(e, i)[k] = <<i, e[i].base + k>>
    BY DEF Part
  <1>7. QED
    BY <1>2, <1>4, <1>5, <1>6

\* One function gives the bytes of every number of entries in front.
LEMMA LeadingFunction ==
  ASSUME NEW e \in Seq(EntrySet)
  PROVE  \E f : /\ \A i \in 1 .. Len(e) :
                      f[i] = IF i = 1 THEN Part(e, i) ELSE f[i - 1] \o Part(e, i)
                /\ \A n \in 1 .. Len(e) : Leading(e, n) = f[n]
  <1> DEFINE s == [i \in DOMAIN e |-> Part(e, i)]
             N == Len(e)
  <1>1. N \in Nat /\ DOMAIN e = 1 .. N
    OBVIOUS
  <1>2. PICK f : Flattens(f, s, N)
    BY <1>1, FlattensExists
  <1>3. \A i \in 1 .. N : f[i] = IF i = 1 THEN Part(e, i) ELSE f[i - 1] \o Part(e, i)
    BY <1>1, <1>2 DEF Flattens
  <1>4. ASSUME NEW n \in 1 .. N PROVE Leading(e, n) = f[n]
    <2> DEFINE d == SubSeq(e, 1, n)
               t == [i \in DOMAIN d |-> Part(d, i)]
    <2>1. n \in Nat /\ DOMAIN d = 1 .. n /\ \A i \in 1 .. n : d[i] = e[i]
      BY <1>1
    <2>2. \A i \in 1 .. n : t[i] = Part(e, i)
      BY <2>1 DEF Part
    <2>3. Len(t) = n /\ t = [i \in 1 .. n |-> t[i]]
      BY <2>1
    <2>4. Leading(e, n) = FlattenSeq(t)
      BY DEF Leading, BytesOf, Part
    <2> HIDE DEF t, d, s
    <2>5. PICK g : /\ Flattens(g, t, Len(t))
                   /\ FlattenSeq(t) = IF Len(t) = 0 THEN t ELSE g[Len(t)]
      BY <2>1, <2>3, FlattenSeqValue
    <2>6. Leading(e, n) = g[n]
      BY <2>1, <2>3, <2>4, <2>5
    <2> DEFINE T == {i \in Nat : i \in 1 .. n => g[i] = f[i]}
    <2>7. 0 \in T
      OBVIOUS
    <2>8. ASSUME NEW i \in Nat, i \in T PROVE i + 1 \in T
      <3> SUFFICES ASSUME i + 1 \in 1 .. n PROVE g[i + 1] = f[i + 1]
        OBVIOUS
      <3>1. g[i + 1] = IF i + 1 = 1 THEN t[i + 1] ELSE g[i + 1 - 1] \o t[i + 1]
        <4>1. n \in Nat /\ Flattens(g, t, n)
          BY <2>1, <2>3, <2>5
        <4>2. QED
          BY <4>1, FlattensAt
      <3>2. f[i + 1] = IF i + 1 = 1 THEN Part(e, i + 1) ELSE f[i + 1 - 1] \o Part(e, i + 1)
        BY <1>1, <1>3
      <3>3. t[i + 1] = Part(e, i + 1)
        BY <2>2
      <3>4. i + 1 # 1 => g[i + 1 - 1] = f[i + 1 - 1]
        BY <2>8
      <3>5. QED
        BY <3>1, <3>2, <3>3, <3>4
    <2> HIDE DEF T
    <2>9. n \in T
      BY <2>1, <2>7, <2>8, NatSetInduction
    <2>10. QED
      BY <2>6, <2>9 DEF T
  <1>5. QED
    BY <1>3, <1>4

LEMMA LeadingOfNone ==
  ASSUME NEW e \in Seq(EntrySet)
  PROVE  Leading(e, 0) = <<>>
  <1>1. SubSeq(e, 1, 0) = <<>>
    BY SubSeqEmpty
  <1>2. Len([i \in DOMAIN <<>> |-> Part(<<>>, i)]) = 0
    OBVIOUS
  <1>3. [i \in DOMAIN <<>> |-> Part(<<>>, i)] = <<>>
    OBVIOUS
  <1>4. QED
    BY <1>1, <1>2, <1>3 DEF Leading, BytesOf, FlattenSeq, Part

LEMMA LeadingNext ==
  ASSUME NEW e \in Seq(EntrySet), NEW n \in 1 .. Len(e), Leading(e, n - 1) \in Seq(Byte)
  PROVE  Leading(e, n) = Leading(e, n - 1) \o Part(e, n)
  <1>1. PICK f : /\ \A i \in 1 .. Len(e) :
                       f[i] = IF i = 1 THEN Part(e, i) ELSE f[i - 1] \o Part(e, i)
                 /\ \A i \in 1 .. Len(e) : Leading(e, i) = f[i]
    BY LeadingFunction
  <1>2. CASE n = 1
    <2>1. Leading(e, n - 1) = <<>>
      BY <1>2, LeadingOfNone
    <2>2. Leading(e, n) = Part(e, n)
      BY <1>1, <1>2
    <2>3. QED
      BY <2>1, <2>2, PartType, ConcatEmptySeq
  <1>3. CASE n # 1
    <2>1. n - 1 \in 1 .. Len(e)
      BY <1>3
    <2>2. Leading(e, n - 1) = f[n - 1]
      BY <1>1, <2>1
    <2>3. QED
      BY <1>1, <1>3, <2>2
  <1>4. QED
    BY <1>2, <1>3

LEMMA LeadingType ==
  ASSUME NEW e \in Seq(EntrySet), NEW n \in 0 .. Len(e)
  PROVE  Leading(e, n) \in Seq(Byte)
  <1> DEFINE T == {m \in Nat : m <= Len(e) => Leading(e, m) \in Seq(Byte)}
  <1>1. 0 \in T
    <2>1. Leading(e, 0) = <<>>
      BY LeadingOfNone
    <2>2. Leading(e, 0) \in Seq(Byte)
      BY <2>1, EmptySeq
    <2>3. QED
      BY <2>2
  <1>2. ASSUME NEW m \in Nat, m \in T PROVE m + 1 \in T
    <2> SUFFICES ASSUME m + 1 <= Len(e) PROVE Leading(e, m + 1) \in Seq(Byte)
      OBVIOUS
    <2>1. m + 1 \in 1 .. Len(e) /\ m + 1 - 1 = m
      OBVIOUS
    <2>2. Leading(e, m) \in Seq(Byte)
      BY <1>2, <2>1
    <2>3. Leading(e, m + 1) = Leading(e, m) \o Part(e, m + 1)
      BY <2>1, <2>2, LeadingNext
    <2>4. QED
      BY <2>1, <2>2, <2>3, PartType, ConcatProperties
  <1> HIDE DEF T
  <1>3. n \in Nat /\ n \in T
    BY <1>1, <1>2, NatSetInduction
  <1>4. QED
    BY <1>3 DEF T

\* The bytes of the first n entries, the n-th among them.
LEMMA LeadingStep ==
  ASSUME NEW e \in Seq(EntrySet), NEW n \in 1 .. Len(e)
  PROVE  /\ Leading(e, n - 1) \in Seq(Byte) /\ Leading(e, n) \in Seq(Byte)
         /\ Leading(e, n) = Leading(e, n - 1) \o Part(e, n)
         /\ Len(Leading(e, n)) = Len(Leading(e, n - 1)) + e[n].len
  <1>1. Leading(e, n - 1) \in Seq(Byte) /\ Leading(e, n) \in Seq(Byte)
    BY LeadingType
  <1>2. Leading(e, n) = Leading(e, n - 1) \o Part(e, n)
    BY <1>1, LeadingNext
  <1>3. Part(e, n) \in Seq(Byte) /\ Len(Part(e, n)) = e[n].len
    BY PartType
  <1>4. Len(Leading(e, n)) = Len(Leading(e, n - 1)) + Len(Part(e, n))
    BY <1>1, <1>2, <1>3, ConcatProperties
  <1>5. QED
    BY <1>1, <1>2, <1>3, <1>4

LEMMA LeadingAdds ==
  \A e \in Seq(EntrySet) : \A m \in Nat : m < Len(e) =>
    /\ Leading(e, m + 1) = Leading(e, m) \o Part(e, m + 1)
    /\ Leading(e, m) \in Seq(Byte) /\ Part(e, m + 1) \in Seq(Byte)
  <1> SUFFICES ASSUME NEW e \in Seq(EntrySet), NEW m \in Nat, m < Len(e)
               PROVE  /\ Leading(e, m + 1) = Leading(e, m) \o Part(e, m + 1)
                      /\ Leading(e, m) \in Seq(Byte) /\ Part(e, m + 1) \in Seq(Byte)
    OBVIOUS
  <1>1. m + 1 \in 1 .. Len(e) /\ m + 1 - 1 = m
    OBVIOUS
  <1>2. Part(e, m + 1) \in Seq(Byte)
    BY <1>1, PartType
  <1>3. /\ Leading(e, m + 1) = Leading(e, m) \o Part(e, m + 1)
        /\ Leading(e, m) \in Seq(Byte)
    BY <1>1, LeadingStep
  <1>4. QED
    BY <1>2, <1>3

LEMMA ByteConcat ==
  \A a, b, c \in Seq(Byte) : (a \o b) \o c = a \o (b \o c)
  BY ConcatAssociative

LEMMA LeadingOfAll ==
  ASSUME NEW e \in Seq(EntrySet)
  PROVE  BytesOf(e) = Leading(e, Len(e)) /\ BytesOf(e) \in Seq(Byte)
  <1>1. SubSeq(e, 1, Len(e)) = e
    BY SubSeqFull
  <1>2. BytesOf(e) = Leading(e, Len(e))
    BY <1>1 DEF Leading
  <1>3. Len(e) \in 0 .. Len(e)
    OBVIOUS
  <1>4. QED
    BY <1>2, <1>3, LeadingType

-----------------------------------------------------------------------------
(* What writev_bucket resumes.                                             *)

Stop(w) == CHOOSE i \in DOMAIN iov : StopsIn(w, i)
Rest(w) == w - Before(Stop(w))

LEMMA StopExists ==
  ASSUME iov \in Seq(EntrySet), NEW w \in 1 .. Len(BytesOf(iov))
  PROVE  /\ Stop(w) \in 1 .. Len(iov)
         /\ Len(Leading(iov, Stop(w) - 1)) = Before(Stop(w))
         /\ Rest(w) \in 0 .. iov[Stop(w)].len
  <1> DEFINE T == {i \in 1 .. Len(iov) : w <= Len(Leading(iov, i))}
  <1>1. \A i \in 1 .. Len(iov) : Before(i) = Len(Leading(iov, i - 1))
    BY DEF Before, Leading
  <1>2. \A i \in 1 .. Len(iov) : /\ Before(i) + iov[i].len = Len(Leading(iov, i))
                                /\ Before(i) \in Nat /\ iov[i].len \in Nat
    BY <1>1, LeadingStep, PartType, LenProperties
  <1>3. Len(iov) \in Nat /\ BytesOf(iov) = Leading(iov, Len(iov))
    BY LeadingOfAll
  <1>4. Len(iov) # 0
    <2> SUFFICES ASSUME Len(iov) = 0 PROVE FALSE
      OBVIOUS
    <2>1. BytesOf(iov) = <<>>
      BY <1>3, LeadingOfNone
    <2>2. QED
      BY <2>1
  <1>5. Len(iov) \in T
    BY <1>3, <1>4
  <1>6. PICK i \in T : \A j \in T : i <= j
    <2>1. T \subseteq Nat /\ T # {}
      BY <1>5
    <2> HIDE DEF T
    <2>2. QED
      BY <2>1, LeastOf
  <1>7. StopsIn(w, i) /\ i \in DOMAIN iov
    <2>1. i \in 1 .. Len(iov) /\ w <= Before(i) + iov[i].len
      BY <1>2, <1>6
    <2>2. ASSUME NEW k \in 1 .. i - 1 PROVE w > Before(k) + iov[k].len
      <3>1. k \in 1 .. Len(iov) /\ k < i /\ k \notin T
        BY <1>3, <1>6, <2>1
      <3>2. QED
        BY <1>2, <3>1
    <2>3. QED
      BY <2>1, <2>2 DEF StopsIn
  <1>8. Stop(w) \in DOMAIN iov /\ StopsIn(w, Stop(w))
    BY <1>7 DEF Stop
  <1> HIDE DEF T
  <1> DEFINE j == Stop(w)
  <1>9. j \in 1 .. Len(iov)
    BY <1>8
  <1> HIDE DEF j
  <1>10. Before(j) <= w
    <2>1. CASE j = 1
      BY <1>1, <2>1, LeadingOfNone, <1>9
    <2>2. CASE j # 1
      <3>1. j - 1 \in 1 .. j - 1 /\ j - 1 \in 1 .. Len(iov)
        BY <1>9, <2>2
      <3>2. w > Before(j - 1) + iov[j - 1].len
        BY <1>8, <3>1 DEF StopsIn, j
      <3>3. Before(j) = Before(j - 1) + iov[j - 1].len
        BY <1>1, <1>2, <1>9, <3>1
      <3>4. QED
        BY <1>2, <1>9, <3>1, <3>2, <3>3
    <2>3. QED
      BY <2>1, <2>2
  <1>11. w <= Before(j) + iov[j].len
    BY <1>8 DEF StopsIn, j
  <1>12. Before(j) \in Nat /\ iov[j].len \in Nat /\ w \in Nat
    BY <1>2, <1>9
  <1>13. w - Before(j) \in 0 .. iov[j].len
    BY <1>10, <1>11, <1>12
  <1>14. Len(Leading(iov, j - 1)) = Before(j)
    BY <1>1, <1>9
  <1>15. QED
    BY <1>9, <1>13, <1>14 DEF j, Rest

\* The entries after a partial write: those before the stop are empty, the stop
\* has lost its first bytes and the others are as they were.
LEMMA ResumedEntries ==
  ASSUME iov \in Seq(EntrySet), NEW w \in 1 .. Len(BytesOf(iov))
  PROVE  /\ Resumed(w) \in Seq(EntrySet) /\ Len(Resumed(w)) = Len(iov)
         /\ \A i \in 1 .. Len(iov) :
              /\ i < Stop(w) => Resumed(w)[i].len = 0
              /\ i = Stop(w) => /\ Resumed(w)[i].base = iov[i].base + Rest(w)
                                /\ Resumed(w)[i].len = iov[i].len - Rest(w)
              /\ i > Stop(w) => Resumed(w)[i] = iov[i]
  <1> DEFINE j == Stop(w)
             r == Rest(w)
             E(i) == CASE i < j -> [iov[i] EXCEPT !.len = 0]
                       [] i = j -> [base |-> iov[i].base + r, len |-> iov[i].len - r]
                       [] OTHER -> iov[i]
  <1>1. Resumed(w) = [i \in 1 .. Len(iov) |-> E(i)]
    BY DEF Resumed, Stop, Rest
  <1>2. j \in 1 .. Len(iov) /\ r \in 0 .. iov[j].len
    BY StopExists
  <1> HIDE DEF j, r
  <1>3. ASSUME NEW i \in 1 .. Len(iov)
        PROVE  /\ E(i) \in EntrySet
               /\ i < j => E(i).len = 0
               /\ i = j => E(i).base = iov[i].base + r /\ E(i).len = iov[i].len - r
               /\ i > j => E(i) = iov[i]
    <2>1. iov[i] \in EntrySet /\ iov[i].base \in Nat /\ iov[i].len \in Nat
      BY PartType
    <2>2. CASE i < j
      <3>1. E(i) = [iov[i] EXCEPT !.len = 0]
        BY <2>2
      <3>2. [iov[i] EXCEPT !.len = 0] \in EntrySet /\ [iov[i] EXCEPT !.len = 0].len = 0
        BY <2>1 DEF EntrySet
      <3> HIDE DEF E
      <3>3. E(i) \in EntrySet /\ E(i).len = 0
        BY <3>1, <3>2
      <3>4. QED
        BY <1>2, <2>2, <3>3
    <2>3. CASE i = j
      <3>1. E(i) = [base |-> iov[i].base + r, len |-> iov[i].len - r]
        BY <1>2, <2>3
      <3>2. iov[i].base + r \in Nat /\ iov[i].len - r \in Nat
        BY <1>2, <2>1, <2>3
      <3>3. QED
        BY <1>2, <2>3, <3>1, <3>2 DEF EntrySet
    <2>4. CASE i > j
      <3>1. E(i) = iov[i]
        BY <1>2, <2>4
      <3>2. QED
        BY <1>2, <2>1, <2>4, <3>1
    <2>5. QED
      BY <1>2, <2>2, <2>3, <2>4
  <1> HIDE DEF E
  <1>4. Resumed(w) \in Seq(EntrySet) /\ Len(Resumed(w)) = Len(iov)
    BY <1>1, <1>3
  <1>5. \A i \in 1 .. Len(iov) : Resumed(w)[i] = E(i)
    BY <1>1
  <1>6. QED
    BY <1>3, <1>4, <1>5 DEF j, r

LEMMA SplitBytes ==
  ASSUME NEW s \in Seq(Byte), NEW r \in 0 .. Len(s)
  PROVE  /\ SubSeq(s, 1, r) \in Seq(Byte) /\ Len(SubSeq(s, 1, r)) = r
         /\ SubSeq(s, r + 1, Len(s)) \in Seq(Byte)
         /\ Len(SubSeq(s, r + 1, Len(s))) = Len(s) - r
         /\ \A k \in 1 .. Len(s) - r : SubSeq(s, r + 1, Len(s))[k] = s[r + k]
         /\ SubSeq(s, 1, r) \o SubSeq(s, r + 1, Len(s)) = s
  <1>1. Len(s) \in Nat /\ r \in Nat /\ r <= Len(s)
    OBVIOUS
  <1>2. SubSeq(s, 1, r) \in Seq(Byte) /\ Len(SubSeq(s, 1, r)) = r
    BY <1>1
  <1>3. /\ SubSeq(s, r + 1, Len(s)) \in Seq(Byte)
        /\ Len(SubSeq(s, r + 1, Len(s))) = Len(s) - r
    BY <1>1
  <1>4. \A k \in 1 .. Len(s) - r : SubSeq(s, r + 1, Len(s))[k] = s[r + k]
    BY <1>1
  <1>5. SubSeq(s, 1, r) \o SubSeq(s, r + 1, Len(s)) = SubSeq(s, 1, Len(s))
    <2>1. 1 \in 1 .. Len(s) + 1 /\ r \in 1 - 1 .. Len(s) /\ Len(s) \in r .. Len(s)
      BY <1>1
    <2>2. QED
      BY <2>1, ConcatAdjacentSubSeq
  <1>6. QED
    BY <1>2, <1>3, <1>4, <1>5, SubSeqFull

\* The bytes the socket took and those that are left are those there were.
LEMMA ResumedBytes ==
  ASSUME iov \in Seq(EntrySet), NEW w \in 1 .. Len(BytesOf(iov))
  PROVE  /\ BytesOf(Resumed(w)) \in Seq(Byte)
         /\ BytesOf(iov) = SubSeq(BytesOf(iov), 1, w) \o BytesOf(Resumed(w))
  <1> DEFINE j == Stop(w)
             r == Rest(w)
             d == Resumed(w)
             N == Len(iov)
             taken == SubSeq(Part(iov, j), 1, r)
             head == Leading(iov, j - 1) \o taken
  <1>1. /\ j \in 1 .. N /\ r \in 0 .. iov[j].len /\ N \in Nat
        /\ Len(Leading(iov, j - 1)) = w - r /\ w - r \in Nat
    BY StopExists, LeadingType, LenProperties DEF Rest
  <1>2. d \in Seq(EntrySet) /\ Len(d) = N
    BY ResumedEntries
  <1>3. \A i \in 1 .. N : /\ i < j => d[i].len = 0
                          /\ i = j => /\ d[i].base = iov[i].base + r
                                      /\ d[i].len = iov[i].len - r
                          /\ i > j => d[i] = iov[i]
    BY ResumedEntries
  <1> HIDE DEF j, r, d, N
  <1>4. /\ Leading(iov, j - 1) \in Seq(Byte)
        /\ Part(iov, j) \in Seq(Byte) /\ Len(Part(iov, j)) = iov[j].len
    BY <1>1, LeadingStep, PartType DEF N
  <1>5. taken \in Seq(Byte) /\ Len(taken) = r
    BY <1>1, <1>4
  <1> HIDE DEF taken
  <1>6. head \in Seq(Byte) /\ Len(head) = w
    BY <1>1, <1>4, <1>5, ConcatProperties
  <1>7. ASSUME NEW n \in Nat, n < j PROVE Leading(d, n) = <<>>
    <2> DEFINE T == {m \in Nat : m < j => Leading(d, m) = <<>>}
    <2>1. 0 \in T
      BY <1>2, LeadingOfNone
    <2>2. ASSUME NEW m \in Nat, m \in T PROVE m + 1 \in T
      <3> SUFFICES ASSUME m + 1 < j PROVE Leading(d, m + 1) = <<>>
        OBVIOUS
      <3>1. m + 1 \in 1 .. N /\ m + 1 - 1 = m /\ m < j
        BY <1>1
      <3>2. Leading(d, m) = <<>>
        BY <2>2, <3>1
      <3>3. Part(d, m + 1) \in Seq(Byte) /\ Len(Part(d, m + 1)) = 0
        BY <1>2, <1>3, <3>1, PartType
      <3>4. Part(d, m + 1) = <<>>
        BY <3>3, EmptySeq
      <3>5. QED
        BY <1>2, <3>1, <3>2, <3>4, LeadingStep, ConcatEmptySeq, EmptySeq
    <2> HIDE DEF T
    <2>3. n \in T
      BY <2>1, <2>2, NatSetInduction
    <2>4. QED
      BY <1>7, <2>3 DEF T
  <1>8. Part(iov, j) = taken \o Part(d, j)
    <2>1. Part(d, j) \in Seq(Byte) /\ Len(Part(d, j)) = iov[j].len - r
      BY <1>1, <1>2, <1>3, PartType
    <2>2. \A k \in 1 .. iov[j].len - r : Part(d, j)[k] = <<j, iov[j].base + r + k>>
      <3>1. j \in 1 .. Len(d) /\ d[j].base = iov[j].base + r /\ d[j].len = iov[j].len - r
        BY <1>1, <1>2, <1>3
      <3>2. \A k \in 1 .. d[j].len : Part(d, j)[k] = <<j, d[j].base + k>>
        BY <1>2, <3>1, PartType
      <3>3. QED
        BY <3>1, <3>2
    <2>3. \A k \in 1 .. iov[j].len : Part(iov, j)[k] = <<j, iov[j].base + k>>
      BY <1>1, PartType DEF N
    <2>4. iov[j].base \in Nat /\ iov[j].len \in Nat
      BY <1>1, PartType DEF N
    <2> DEFINE p == Part(iov, j)
               tail == SubSeq(p, r + 1, Len(p))
    <2>5. p \in Seq(Byte) /\ r \in 0 .. Len(p) /\ Len(p) = iov[j].len
      BY <1>1, <1>4
    <2> HIDE DEF p
    <2>6. /\ tail \in Seq(Byte) /\ Len(tail) = Len(p) - r
          /\ \A k \in 1 .. Len(p) - r : tail[k] = p[r + k]
          /\ SubSeq(p, 1, r) \o tail = p
      BY <2>5, SplitBytes
    <2> HIDE DEF tail
    <2>7. \A k \in 1 .. iov[j].len - r : p[r + k] = <<j, iov[j].base + r + k>>
      <3> SUFFICES ASSUME NEW k \in 1 .. iov[j].len - r
                   PROVE  p[r + k] = <<j, iov[j].base + r + k>>
        OBVIOUS
      <3>1. r \in Nat /\ k \in Nat /\ iov[j].base \in Nat
        BY <1>1, <2>4
      <3>2. r + k \in 1 .. iov[j].len
        BY <1>1, <2>4
      <3>3. p[r + k] = <<j, iov[j].base + (r + k)>>
        BY <2>3, <3>2 DEF p
      <3>4. iov[j].base + (r + k) = iov[j].base + r + k
        BY <3>1
      <3>5. QED
        BY <3>3, <3>4
    <2>8. tail = Part(d, j)
      <3> DEFINE q == Part(d, j)
      <3>1. q \in Seq(Byte) /\ Len(q) = Len(tail)
        BY <2>1, <2>5, <2>6
      <3> HIDE DEF q
      <3>2. Len(tail) = iov[j].len - r
        BY <2>5, <2>6
      <3>3. \A k \in 1 .. Len(tail) : tail[k] = q[k]
        BY <2>2, <2>5, <2>6, <2>7, <3>2 DEF q
      <3>4. tail = q
        BY <2>6, <3>1, <3>3, SeqEqual
      <3>5. QED
        BY <3>4 DEF q
    <2>9. QED
      BY <2>6, <2>8 DEF p, taken
  <1>9. ASSUME NEW n \in Nat, n >= j, n <= N PROVE Leading(iov, n) = head \o Leading(d, n)
    <2> DEFINE T == {m \in Nat : m >= j /\ m <= N => Leading(iov, m) = head \o Leading(d, m)}
    <2>1. 0 \in T
      BY <1>1
    <2>2. ASSUME NEW m \in Nat, m \in T PROVE m + 1 \in T
      <3> HIDE DEF head
      <3> SUFFICES ASSUME m + 1 >= j, m + 1 <= N
                   PROVE Leading(iov, m + 1) = head \o Leading(d, m + 1)
        OBVIOUS
      <3>1. m + 1 \in 1 .. N /\ m + 1 - 1 = m
        BY <1>1
      <3>2. /\ Leading(iov, m + 1) = Leading(iov, m) \o Part(iov, m + 1)
            /\ Leading(iov, m) \in Seq(Byte)
        BY <3>1, LeadingStep DEF N
      <3>3. /\ Leading(d, m + 1) = Leading(d, m) \o Part(d, m + 1)
            /\ Leading(d, m) \in Seq(Byte) /\ Part(d, m + 1) \in Seq(Byte)
        BY <1>2, <3>1, LeadingAdds
      <3>4. CASE m + 1 = j
        <4>1. Leading(d, m) = <<>>
          BY <1>7, <3>4
        <4>2. Leading(d, m + 1) = Part(d, j)
          BY <3>3, <3>4, <4>1, ConcatEmptySeq
        <4>3. Leading(iov, m) = Leading(iov, j - 1)
          BY <3>1, <3>4
        <4>4. Leading(iov, m + 1) =
                Leading(iov, j - 1) \o (taken \o Part(d, j))
          BY <1>8, <3>2, <3>4, <4>3
        <4>5. QED
          <5> HIDE DEF j, r, d, N
          <5>1. /\ Part(d, j) \in Seq(Byte) /\ taken \in Seq(Byte)
                /\ Leading(iov, j - 1) \in Seq(Byte)
            BY <1>4, <1>5, <3>3, <3>4
          <5>2. (Leading(iov, j - 1) \o taken) \o Part(d, j) =
                  Leading(iov, j - 1) \o (taken \o Part(d, j))
            BY <5>1, ByteConcat
          <5>3. QED
            BY <4>2, <4>4, <5>2, Zenon DEF head
      <3>5. CASE m + 1 # j
        <4>1. m >= j /\ m <= N
          BY <1>1, <3>1, <3>5
        <4>2. Leading(iov, m) = head \o Leading(d, m)
          BY <2>2, <4>1
        <4>3. Part(iov, m + 1) = Part(d, m + 1)
          BY <1>1, <1>3, <3>1, <4>1 DEF Part
        <4>4. (head \o Leading(d, m)) \o Part(d, m + 1) =
                head \o (Leading(d, m) \o Part(d, m + 1))
          BY <1>6, <3>3, ByteConcat
        <4>5. QED
          BY <3>2, <3>3, <4>2, <4>3, <4>4, Zenon
      <3>6. QED
        BY <3>4, <3>5
    <2> HIDE DEF T
    <2>3. n \in T
      BY <2>1, <2>2, NatSetInduction
    <2>4. QED
      BY <1>9, <2>3 DEF T
  <1> HIDE DEF head
  <1>10. /\ BytesOf(iov) = Leading(iov, N) /\ BytesOf(d) = Leading(d, N)
         /\ BytesOf(d) \in Seq(Byte)
    BY <1>2, LeadingOfAll DEF N
  <1>11. BytesOf(iov) = head \o BytesOf(d)
    <2>1. N \in Nat /\ N >= j /\ N <= N
      BY <1>1
    <2>2. Leading(iov, N) = head \o Leading(d, N)
      BY <1>9, <2>1
    <2>3. QED
      BY <1>10, <2>2, Zenon
  <1>12. SubSeq(head \o BytesOf(d), 1, w) = head
    BY <1>6, <1>10
  <1>13. QED
    BY <1>10, <1>11, <1>12 DEF d

-----------------------------------------------------------------------------
(* One lemma for each action of the bucket.                                *)

LEMMA EntriesType ==
  ASSUME NEW p \in Seq(Nat)
  PROVE  Entries(p) \in Seq(EntrySet)
  <1>1. \A i \in 1 .. Len(p) : [base |-> 0, len |-> p[i]] \in EntrySet
    BY DEF EntrySet
  <1>2. QED
    BY <1>1 DEF Entries

LEMMA FillBucket == BucketInv /\ Fill => BucketInv'
  <1> SUFFICES ASSUME BucketInv, Fill PROVE BucketInv'
    OBVIOUS
  <1>1. /\ out' = <<>> /\ phase' = "write" /\ iov' = Entries(packet')
        /\ total' = Len(BytesOf(iov'))
    BY DEF Fill, BucketInv
  <1>2. iov' \in Seq(EntrySet)
    BY <1>1, EntriesType, PacketsAssumption DEF Fill
  <1>3. BytesOf(iov') \in Seq(Byte)
    BY <1>2, LeadingOfAll
  <1>4. out' \o BytesOf(iov') = BytesOf(iov')
    BY <1>1, <1>3, ConcatEmptySeq
  <1>5. total' \in Int /\ total' >= Len(BytesOf(iov'))
    BY <1>1, <1>3
  <1>6. QED
    BY <1>1, <1>2, <1>4, <1>5, EmptySeq DEF BucketInv

LEMMA WriteNothingBucket == BucketInv /\ WriteNothing => BucketInv'
  <1> SUFFICES ASSUME BucketInv, WriteNothing PROVE BucketInv'
    OBVIOUS
  <1>1. /\ phase = "write" /\ phase' = "ok" /\ sended' = TRUE /\ BytesOf(iov) = <<>>
        /\ UNCHANGED <<iov, total, out, packet>>
    BY DEF WriteNothing, NothingTaken
  <1>2. out \in Seq(Byte) /\ out \o <<>> = BytesOf(Entries(packet))
    BY <1>1 DEF BucketInv
  <1>3. out = BytesOf(Entries(packet))
    BY <1>2, ConcatEmptySeq
  <1>4. QED
    BY <1>1, <1>3 DEF BucketInv

LEMMA WriteSomeBucket == BucketInv /\ WriteSome => BucketInv'
  <1> SUFFICES ASSUME BucketInv, WriteSome PROVE BucketInv'
    OBVIOUS
  <1>1. PICK w \in 1 .. Len(BytesOf(iov)) :
          /\ out' = out \o SubSeq(BytesOf(iov), 1, w)
          /\ IF total > w
             THEN /\ iov' = Resumed(w) /\ total' = Left(w)
                  /\ UNCHANGED <<sended, phase>>
             ELSE /\ sended' = TRUE /\ phase' = "ok"
                  /\ UNCHANGED <<iov, total>>
    BY DEF WriteSome
  <1>2. phase = "write" /\ packet' = packet
    BY DEF WriteSome
  <1> DEFINE all == BytesOf(iov)
             first == SubSeq(all, 1, w)
             whole == BytesOf(Entries(packet))
  <1>3. /\ iov \in Seq(EntrySet) /\ out \in Seq(Byte) /\ total \in Int
        /\ out \o all = whole /\ total >= Len(all)
    BY <1>2 DEF BucketInv
  <1>4. all \in Seq(Byte) /\ Len(all) \in Nat
    BY <1>3, LeadingOfAll
  <1>5. first \in Seq(Byte) /\ Len(first) = w /\ (w = Len(all) => first = all)
    BY <1>4, SubSeqFull
  <1>6. out' \in Seq(Byte)
    BY <1>1, <1>3, <1>5, ConcatProperties
  <1>7. whole' = whole
    BY <1>2
  <1>8. CASE total > w
    <2> DEFINE rest == BytesOf(Resumed(w))
    <2>1. iov' = Resumed(w) /\ phase' = "write" /\ total' = Left(w)
      BY <1>1, <1>2, <1>8
    <2>2. Resumed(w) \in Seq(EntrySet)
      BY <1>3, ResumedEntries
    <2>3. rest \in Seq(Byte) /\ all = first \o rest
      BY <1>3, ResumedBytes
    <2>4. Left(w) \in Int /\ Left(w) >= total - w
      <3>1. /\ Stop(w) \in 1 .. Len(iov)
            /\ Len(Leading(iov, Stop(w) - 1)) = Before(Stop(w))
        BY <1>3, StopExists
      <3>2. Before(Stop(w)) \in Nat
        BY <1>3, <3>1, LeadingStep, LenProperties
      <3>3. Left(w) = total - (w - Before(Stop(w)))
        BY DEF Left, Stop
      <3>4. w \in Int /\ total \in Int
        BY <1>3
      <3>5. QED
        BY <3>2, <3>3, <3>4
    <2> HIDE DEF rest, first, all
    <2>5. Len(all) = w + Len(rest) /\ Len(rest) \in Nat
      BY <1>5, <2>3, ConcatProperties
    <2>6. (out \o first) \o rest = out \o (first \o rest)
      BY <1>3, <1>5, <2>3, ByteConcat
    <2>7. out' \o rest = whole
      <3>1. out' = out \o first
        BY <1>1 DEF first, all
      <3>2. QED
        BY <1>3, <2>3, <2>6, <3>1
    <2>8. total' \in Int /\ total' >= Len(rest)
      BY <1>3, <1>4, <2>1, <2>4, <2>5
    <2>9. BytesOf(iov') = rest
      BY <2>1 DEF rest
    <2> HIDE DEF whole
    <2>10. iov' \in Seq(EntrySet) /\ out' \o BytesOf(iov') = whole'
      BY <1>7, <2>1, <2>2, <2>7, <2>9
    <2>11. QED
      BY <1>6, <2>1, <2>8, <2>9, <2>10 DEF BucketInv, whole
  <1>9. CASE ~(total > w)
    <2>1. /\ sended' = TRUE /\ phase' = "ok" /\ iov' = iov /\ total' = total
      BY <1>1, <1>9
    <2>2. w = Len(all)
      BY <1>3, <1>4, <1>9
    <2>3. out' = whole
      BY <1>1, <1>3, <1>5, <2>2
    <2>4. QED
      BY <1>3, <1>6, <1>7, <2>1, <2>3 DEF BucketInv
  <1>10. QED
    BY <1>8, <1>9

LEMMA OtherBucketSteps ==
  BucketInv /\ (WriteFails \/ Retry \/ Free \/ Abandon \/ UNCHANGED vars) => BucketInv'
  <1> SUFFICES ASSUME BucketInv, WriteFails \/ Retry \/ Free \/ Abandon \/ UNCHANGED vars
               PROVE  BucketInv'
    OBVIOUS
  <1>1. CASE WriteFails \/ Retry
    <2>1. /\ phase \in {"write", "suspend"} /\ phase' \in {"write", "suspend", "error"}
          /\ UNCHANGED <<iov, total, sended, out, packet>>
      BY <1>1 DEF WriteFails, Retry
    <2>2. QED
      BY <2>1 DEF BucketInv
  <1>2. CASE Free \/ Abandon
    <2>1. /\ phase' = "new" /\ iov' = <<>> /\ total' = 0 /\ out' = <<>> /\ sended' = FALSE
      BY <1>2 DEF Free, Abandon
    <2>2. QED
      BY <2>1, EmptySeq DEF BucketInv
  <1>3. CASE UNCHANGED vars
    BY <1>3 DEF vars, BucketInv
  <1>4. QED
    BY <1>1, <1>2, <1>3

\* The bytes that the socket took, with those that the entries still name, are the
\* packet, and total is never below what is left of it: writev_bucket, which takes
\* total for the rest, does not end early although it does not count total right.
THEOREM BucketInvariance == Spec => []BucketInv
  <1>1. Init => BucketInv
    BY EmptySeq DEF Init, BucketInv
  <1>2. BucketInv /\ [Next]_vars => BucketInv'
    BY FillBucket, WriteNothingBucket, WriteSomeBucket, OtherBucketSteps DEF Next
  <1>3. QED
    BY <1>1, <1>2, PTL DEF Spec

\* For every packet and every sequence of partial writes and refusals, the bytes
\* arrive once and in order, and a bucket that counts as sent is sent completely.
THEOREM PacketIsSent == Spec => []SendsPacket
  <1>1. BucketInv => SendsPacket
    BY DEF BucketInv, SendsPacket
  <1>2. QED
    BY <1>1, BucketInvariance, PTL

-----------------------------------------------------------------------------
(* The ring of the time cache.                                             *)

USE SlotsAssumption, DateAssumption

\* The next slot of the ring is the date's only when every other slot was
\* written since.
LEMMA NextSlotIsNew ==
  ASSUME slot \in 0 .. Slots - 1, date \in 0 .. Slots - 1
  PROVE  /\ NextSlot \in 0 .. Slots - 1
         /\ Age \in 0 .. Slots - 1
         /\ Age < Slots - 1 => NextSlot # date
  BY DEF NextSlot, Age

\* The ring after an update that is not for the date's slot is one slot older.
LEMMA NextSlotAge ==
  ASSUME slot \in 0 .. Slots - 1, date \in 0 .. Slots - 1, Age < Slots - 1,
         slot' = NextSlot, date' = date
  PROVE  Age' = Age + 1
  BY DEF NextSlot, Age

\* Before its timer, a suspended response is not old enough to lose its slot.
LEMMA AgeBound ==
  ASSUME DateInv, Waiting, turn # "wait", cached_sec # clock
  PROVE  Age < Slots - 1
  <1>1. Fresh = 0 /\ clock \in Nat /\ due \in Int /\ Age \in Int
    BY DEF DateInv, DateTypes, Age, Fresh
  <1>2. CASE turn = "poll"
    <2>1. Age <= WriteTimeout + MaxBusy + 1 + busy /\ busy \in 0 .. MaxBusy
      BY <1>1, <1>2 DEF DateInv, AgeOK, DateTypes
    <2>2. QED
      BY <1>1, <2>1
  <1>3. CASE turn = "sweep"
    <2>1. due > now /\ now \in Nat /\ clock <= now + busy /\ busy \in 0 .. MaxBusy
      BY <1>3 DEF Waiting, Overdue, DateInv, ClockOK, DateTypes
    <2>2. Age <= clock - due + WriteTimeout + 1
      BY <1>1 DEF DateInv, AgeOK
    <2>3. QED
      BY <1>1, <2>1, <2>2
  <1>4. QED
    BY <1>2, <1>3 DEF DateInv, DateTypes

LEMMA DateInitInv == DateInit => DateInv
  <1> SUFFICES ASSUME DateInit PROVE DateInv
    OBVIOUS
  <1>1. DateTypes
    BY DEF DateInit, Init, CacheInit, DateTypes
  <1>2. ClockOK /\ AgeOK /\ DateWhole
    BY DEF DateInit, Init, CacheInit, ClockOK, AgeOK, DateWhole, Idle, Waiting
  <1>3. QED
    BY <1>1, <1>2 DEF DateInv

-----------------------------------------------------------------------------
(* One lemma for each action.                                              *)

LEMMA TickInv == DateInv /\ Tick => DateInv'
  <1> SUFFICES ASSUME DateInv, Tick PROVE DateInv'
    OBVIOUS
  <1> USE DEF DateInv, Tick, bucketVars, vars, cacheVars
  <1>1. DateTypes'
    BY DEF DateTypes
  <1>2. ClockOK'
    BY DEF ClockOK, DateTypes, Idle
  <1>3. Waiting' = Waiting /\ Age' = Age /\ Age \in Int
    BY DEF Waiting, Overdue, Age, DateTypes
  <1>4. /\ cached_sec <= clock /\ cached_sec \in Nat /\ clock \in Nat /\ due \in Int
        /\ clock' \in {clock, clock + 1} /\ Fresh \in {0, 1} /\ Fresh' \in {0, 1}
    BY DEF ClockOK, DateTypes, Fresh
  <1>5. Waiting => Age' <= clock' - (due' - WriteTimeout - 1) + Fresh'
    <2>1. Waiting => Age <= clock - (due - WriteTimeout - 1) + Fresh
      BY DEF AgeOK
    <2>2. due' = due
      OBVIOUS
    <2>3. CASE clock' = clock
      BY <1>3, <1>4, <2>1, <2>2, <2>3 DEF Fresh
    <2>4. CASE clock' = clock + 1
      BY <1>3, <1>4, <2>1, <2>2, <2>4 DEF Fresh
    <2>5. QED
      BY <1>4, <2>3, <2>4
  <1>6. Waiting /\ turn = "poll" => Age' <= WriteTimeout + MaxBusy + 1 + busy' + Fresh'
    BY <1>3, <1>4 DEF AgeOK, Fresh, DateTypes
  <1>7. AgeOK'
    BY <1>3, <1>5, <1>6 DEF AgeOK
  <1>8. QED
    BY <1>1, <1>2, <1>7 DEF DateWhole

LEMMA PollInv == DateInv /\ Poll => DateInv'
  <1> SUFFICES ASSUME DateInv, Poll PROVE DateInv'
    OBVIOUS
  <1> USE DEF DateInv, Poll, bucketVars, vars, cacheVars
  <1>1. DateTypes'
    BY DEF DateTypes
  <1>2. ClockOK'
    BY DEF ClockOK, DateTypes, Idle
  <1>3. Waiting' = Waiting /\ Age' = Age /\ Age \in Int
    BY DEF Waiting, Overdue, Age, DateTypes
  <1>4. /\ cached_sec <= clock /\ cached_sec \in Nat /\ clock \in Nat /\ due \in Int
        /\ clock' \in {clock, clock + 1} /\ Fresh \in {0, 1} /\ Fresh' \in {0, 1}
    BY DEF ClockOK, DateTypes, Fresh
  <1>5. Waiting => Age' <= clock' - (due' - WriteTimeout - 1) + Fresh'
    <2>1. Waiting => Age <= clock - (due - WriteTimeout - 1) + Fresh
      BY DEF AgeOK
    <2>2. due' = due
      OBVIOUS
    <2>3. CASE clock' = clock
      BY <1>3, <1>4, <2>1, <2>2, <2>3 DEF Fresh
    <2>4. CASE clock' = clock + 1
      BY <1>3, <1>4, <2>1, <2>2, <2>4 DEF Fresh
    <2>5. QED
      BY <1>4, <2>3, <2>4
  <1>6. Waiting => Age' <= WriteTimeout + MaxBusy + 1 + busy' + Fresh'
    <2>1. Waiting => Age <= WriteTimeout + MaxBusy + 1
      BY DEF AgeOK
    <2>2. busy' = 0
      OBVIOUS
    <2>3. QED
      BY <1>3, <1>4, <2>1, <2>2 DEF Fresh
  <1>7. AgeOK'
    BY <1>3, <1>5, <1>6 DEF AgeOK
  <1>8. QED
    BY <1>1, <1>2, <1>7 DEF DateWhole

LEMMA InterruptedInv == DateInv /\ Interrupted => DateInv'
  <1> SUFFICES ASSUME DateInv, Interrupted PROVE DateInv'
    OBVIOUS
  <1> USE DEF DateInv, Interrupted, bucketVars, vars, cacheVars
  <1>1. DateTypes'
    BY DEF DateTypes
  <1>2. ClockOK'
    BY DEF ClockOK, DateTypes, Idle
  <1>3. Waiting' = Waiting /\ Age' = Age /\ Age \in Int
    BY DEF Waiting, Overdue, Age, DateTypes
  <1>4. /\ cached_sec <= clock /\ cached_sec \in Nat /\ clock \in Nat /\ due \in Int
        /\ clock' \in {clock, clock + 1} /\ Fresh \in {0, 1} /\ Fresh' \in {0, 1}
    BY DEF ClockOK, DateTypes, Fresh
  <1>5. Waiting => Age' <= clock' - (due' - WriteTimeout - 1) + Fresh'
    <2>1. Waiting => Age <= clock - (due - WriteTimeout - 1) + Fresh
      BY DEF AgeOK
    <2>2. due' = due
      OBVIOUS
    <2>3. CASE clock' = clock
      BY <1>3, <1>4, <2>1, <2>2, <2>3 DEF Fresh
    <2>4. CASE clock' = clock + 1
      BY <1>3, <1>4, <2>1, <2>2, <2>4 DEF Fresh
    <2>5. QED
      BY <1>4, <2>3, <2>4
  <1>6. AgeOK'
    BY <1>3, <1>5 DEF AgeOK, Idle, ClockOK
  <1>7. QED
    BY <1>1, <1>2, <1>6 DEF DateWhole

LEMMA SweepInv == DateInv /\ Sweep => DateInv'
  <1> SUFFICES ASSUME DateInv, Sweep PROVE DateInv'
    OBVIOUS
  <1> USE DEF DateInv, Sweep, bucketVars, vars, cacheVars
  <1>1. DateTypes'
    BY DEF DateTypes
  <1>2. ClockOK'
    BY DEF ClockOK, DateTypes, Idle
  <1>3. (Waiting' => Waiting) /\ Age' = Age /\ Fresh' = Fresh
    BY DEF Waiting, Overdue, Age, Fresh
  <1>4. AgeOK'
    BY <1>3 DEF AgeOK, Idle
  <1>5. QED
    BY <1>1, <1>2, <1>4 DEF DateWhole

LEMMA SweepEndsInv == DateInv /\ SweepEnds => DateInv'
  <1> SUFFICES ASSUME DateInv, SweepEnds PROVE DateInv'
    OBVIOUS
  <1> USE DEF DateInv, SweepEnds, bucketVars, vars, cacheVars
  <1>1. DateTypes'
    BY DEF DateTypes
  <1>2. ClockOK'
    BY DEF ClockOK, DateTypes, Idle
  <1>3. (Waiting' => Waiting) /\ Age' = Age
    BY DEF Waiting, Overdue, Age
  <1>4. Waiting' => clock <= due - 1 + MaxBusy /\ clock \in Nat /\ due \in Int
    BY DEF Waiting, Overdue, ClockOK, DateTypes
  <1>5. Fresh' = Fresh /\ Fresh \in {0, 1} /\ Age \in Int
    BY DEF Fresh, Age, DateTypes
  <1>6. Waiting' => Age <= clock - (due - WriteTimeout - 1) + Fresh
    BY <1>3 DEF AgeOK
  <1>7. Waiting' => Age <= WriteTimeout + MaxBusy + 1
    BY <1>4, <1>5, <1>6
  <1>8. AgeOK'
    BY <1>3, <1>5, <1>7 DEF AgeOK, Idle
  <1>9. QED
    BY <1>1, <1>2, <1>8 DEF DateWhole

\* The step that needs the bound on the age: the cache goes on while a
\* response waits.
LEMMA RefreshInv == DateInv /\ Refresh => DateInv'
  <1> SUFFICES ASSUME DateInv, Refresh PROVE DateInv'
    OBVIOUS
  <1>1. CASE cached_sec = clock
    <2> USE <1>1 DEF Refresh, Update, bucketVars, vars, cacheVars
    <2>1. DateTypes' /\ ClockOK' /\ DateWhole'
      BY DEF DateInv, DateTypes, ClockOK, DateWhole, Idle
    <2>2. Waiting' = Waiting /\ Age' = Age /\ Fresh' = Fresh
      BY DEF Waiting, Overdue, Age, Fresh
    <2>3. AgeOK'
      BY <2>2 DEF DateInv, AgeOK
    <2>4. QED
      BY <2>1, <2>3 DEF DateInv
  <1>2. CASE cached_sec # clock
    <2>1. /\ turn # "wait" /\ Idle
          /\ slot' = NextSlot /\ cached_sec' = clock /\ http_time' = NextSlot
          /\ text' = [text EXCEPT ![NextSlot] = clock]
      BY <1>2 DEF Refresh, Update
    <2>2. /\ clock' = clock /\ now' = now /\ turn' = turn /\ busy' = busy
          /\ date' = date /\ due' = due /\ shown' = shown /\ phase' = phase
      BY DEF Refresh, bucketVars, vars
    <2>3. NextSlot \in 0 .. Slots - 1
      BY NextSlotIsNew DEF DateInv, DateTypes
    <2>4. DateTypes'
      BY <2>1, <2>2, <2>3 DEF DateInv, DateTypes
    <2>5. ClockOK' /\ DateWhole'
      BY <2>1, <2>2 DEF DateInv, ClockOK, DateTypes, DateWhole, Idle
    <2>6. Waiting' = Waiting
      BY <2>2 DEF Waiting, Overdue
    <2>7. phase # "write"
      BY <2>1 DEF Idle
    <2>8. CASE Waiting
      <3>1. Age < Slots - 1
        BY <1>2, <2>1, <2>8, AgeBound
      <3>2. NextSlot # date /\ Age' = Age + 1 /\ Age \in Int
        BY <2>1, <2>2, <3>1, NextSlotIsNew, NextSlotAge DEF DateInv, DateTypes
      <3>3. text'[date'] = text[date]
        BY <2>1, <2>2, <2>3, <3>2 DEF DateInv, DateTypes
      <3>4. Fresh = 0 /\ Fresh' = 1
        BY <1>2, <2>1, <2>2 DEF Fresh
      <3>5. /\ clock \in Nat /\ due \in Int /\ busy \in Nat
            /\ Age <= clock - (due - WriteTimeout - 1) + 0
            /\ turn = "poll" => Age <= WriteTimeout + MaxBusy + 1 + busy + 0
        BY <2>8, <3>4 DEF DateInv, AgeOK, DateTypes
      <3>6. /\ Age' <= clock' - (due' - WriteTimeout - 1) + Fresh'
            /\ turn' = "poll" => Age' <= WriteTimeout + MaxBusy + 1 + busy' + Fresh'
        BY <2>2, <3>2, <3>4, <3>5
      <3>7. QED
        BY <2>1, <2>2, <2>4, <2>5, <2>6, <2>7, <2>8, <3>3, <3>6 DEF DateInv, AgeOK
    <2>9. CASE ~Waiting
      <3>1. AgeOK'
        BY <2>2, <2>6, <2>7, <2>9 DEF DateInv, AgeOK
      <3>2. QED
        BY <2>4, <2>5, <3>1 DEF DateInv
    <2>10. QED
      BY <2>8, <2>9
  <1>3. QED
    BY <1>1, <1>2

LEMMA RespondInv == DateInv /\ Respond => DateInv'
  <1> SUFFICES ASSUME DateInv, Respond PROVE DateInv'
    OBVIOUS
  <1> USE DEF DateInv, Respond, Fill, timeVars, cacheVars
  <1>1. DateTypes'
    BY DEF DateTypes
  <1>2. ClockOK'
    BY DEF ClockOK
  <1>3. AgeOK' /\ DateWhole'
    BY DEF AgeOK, Waiting, DateWhole, DateTypes
  <1>4. QED
    BY <1>1, <1>2, <1>3

LEMMA WriteInv == DateInv /\ Write => DateInv'
  <1> SUFFICES ASSUME DateInv, Write PROVE DateInv'
    OBVIOUS
  <1>1. /\ phase = "write" /\ phase' \in {"write", "ok"}
        /\ (shown' = shown \cup {text[date]} \/ shown' = shown)
    BY DEF Write, WriteNothing, WriteSome
  <1>2. UNCHANGED <<slot, cached_sec, text, http_time, clock, now, turn, busy, date, due>>
    BY DEF Write, timeVars, cacheVars
  <1>3. shown \subseteq {text[date]} /\ turn # "wait"
    BY <1>1 DEF DateInv, AgeOK, ClockOK, Idle
  <1>4. shown' \subseteq {text'[date']}
    BY <1>1, <1>2, <1>3
  <1>5. text[date] \in Nat
    BY DEF DateInv, DateTypes
  <1>6. DateTypes'
    BY <1>1, <1>2, <1>5 DEF DateInv, DateTypes
  <1>7. ClockOK'
    BY <1>2, <1>3 DEF DateInv, ClockOK
  <1>8. AgeOK'
    BY <1>1, <1>2, <1>4 DEF DateInv, AgeOK, Waiting
  <1>9. DateWhole'
    BY <1>4 DEF DateWhole
  <1>10. QED
    BY <1>6, <1>7, <1>8, <1>9 DEF DateInv

LEMMA RefuseInv == DateInv /\ Refuse => DateInv'
  <1> SUFFICES ASSUME DateInv, Refuse PROVE DateInv'
    OBVIOUS
  <1>1. /\ phase = "write" /\ phase' \in {"suspend", "error"}
        /\ due' = IF phase' = "suspend" /\ due = 0 THEN now + WriteTimeout + 1 ELSE due
    BY DEF Refuse, WriteFails
  <1>2. UNCHANGED <<slot, cached_sec, text, http_time, clock, now, turn, busy, date, shown>>
    BY DEF Refuse, timeVars, cacheVars
  <1>3. shown \subseteq {text[date]} /\ turn # "wait"
    BY <1>1 DEF DateInv, AgeOK, ClockOK, Idle
  <1>4. DateTypes'
    BY <1>1, <1>2 DEF DateInv, DateTypes
  <1>5. ClockOK' /\ DateWhole'
    BY <1>2, <1>3 DEF DateInv, ClockOK, DateWhole
  <1>6. phase' = "suspend" => due' # 0
    BY <1>1 DEF DateInv, DateTypes
  <1>7. /\ clock \in Nat /\ now \in Nat /\ busy \in Nat
        /\ now <= clock /\ (turn = "poll" => clock <= now + 1 + busy)
    BY DEF DateInv, DateTypes, ClockOK
  <1>8. CASE due = 0 /\ phase' = "suspend"
    <2>1. Age' = 0
      BY <1>1, <1>2, <1>8 DEF DateInv, AgeOK, Age, DateTypes
    <2>2. due' = now + WriteTimeout + 1
      BY <1>1, <1>8
    <2>3. Fresh' \in {0, 1}
      BY DEF Fresh
    <2>4. /\ Age' <= clock' - (due' - WriteTimeout - 1) + Fresh'
          /\ turn' = "poll" => Age' <= WriteTimeout + MaxBusy + 1 + busy' + Fresh'
      BY <1>2, <1>7, <2>1, <2>2, <2>3 DEF Fresh
    <2>5. AgeOK'
      BY <1>1, <1>2, <1>3, <1>6, <1>8, <2>4 DEF AgeOK
    <2>6. QED
      BY <1>4, <1>5, <2>5 DEF DateInv
  <1>9. CASE ~(due = 0 /\ phase' = "suspend")
    <2>1. ~Waiting' \/ due > 0
      BY <1>1, <1>9 DEF Waiting
    <2>2. QED
      <3>1. CASE due > 0 /\ phase' = "suspend"
        BY <1>1, <3>1 DEF DateInv, AgeOK
      <3>2. CASE ~Waiting'
        <4>1. AgeOK'
          BY <1>1, <1>6, <3>2 DEF AgeOK
        <4>2. QED
          BY <1>4, <1>5, <4>1 DEF DateInv
      <3>3. QED
        BY <2>1, <3>1, <3>2 DEF Waiting
  <1>10. QED
    BY <1>8, <1>9

LEMMA RetryDateInv == DateInv /\ RetryDate => DateInv'
  <1> SUFFICES ASSUME DateInv, RetryDate PROVE DateInv'
    OBVIOUS
  <1>1. /\ turn = "poll" /\ due > 0 /\ due' = -1
        /\ phase = "suspend" /\ phase' = "write"
    BY DEF RetryDate, Retry
  <1>2. UNCHANGED <<slot, cached_sec, text, http_time, clock, now, turn, busy, date, shown>>
    BY DEF RetryDate, timeVars, cacheVars
  <1>3. Waiting
    BY <1>1 DEF Waiting, Overdue
  <1>4. DateTypes'
    BY <1>1, <1>2 DEF DateInv, DateTypes
  <1>5. ClockOK' /\ DateWhole'
    BY <1>1, <1>2 DEF DateInv, ClockOK, DateWhole
  <1>6. AgeOK'
    BY <1>1, <1>2, <1>3 DEF DateInv, AgeOK, Waiting
  <1>7. QED
    BY <1>4, <1>5, <1>6 DEF DateInv

LEMMA EndInv == DateInv /\ (Done \/ Close) => DateInv'
  <1> SUFFICES ASSUME DateInv, Done \/ Close PROVE DateInv'
    OBVIOUS
  <1>1. phase' = "new" /\ date' = 0 /\ due' = 0 /\ shown' = {}
    BY DEF Done, Close, Free, Abandon, Reset
  <1>2. UNCHANGED <<slot, cached_sec, text, http_time, clock, now, turn, busy>>
    BY DEF Done, Close, Reset, timeVars, cacheVars
  <1>3. DateTypes'
    BY <1>1, <1>2 DEF DateInv, DateTypes
  <1>4. ClockOK' /\ AgeOK' /\ DateWhole'
    BY <1>1, <1>2 DEF DateInv, ClockOK, Idle, AgeOK, Waiting, DateWhole
  <1>5. QED
    BY <1>3, <1>4 DEF DateInv

-----------------------------------------------------------------------------
\* The clock, the cache's ring and a suspended response stay in step, however
\* late a turn of picoev_loop_once comes, up to MaxBusy, and however often signals
\* interrupt its wait.
THEOREM DateInvariant == DateSpec => []DateInv
  <1>1. DateInv /\ [DateNext]_allVars => DateInv'
    <2> SUFFICES ASSUME DateInv, [DateNext]_allVars PROVE DateInv'
      OBVIOUS
    <2>1. CASE UNCHANGED allVars
      <3>1. UNCHANGED <<slot, cached_sec, text, http_time, clock, now, turn, busy>>
        BY <2>1 DEF allVars, timeVars, cacheVars
      <3>2. UNCHANGED <<date, due, shown, phase>>
        BY <2>1 DEF allVars, bucketVars, vars
      <3>3. DateTypes' /\ ClockOK' /\ DateWhole'
        BY <3>1, <3>2 DEF DateInv, DateTypes, ClockOK, DateWhole, Idle
      <3>4. AgeOK'
        BY <3>1, <3>2 DEF DateInv, AgeOK, Waiting, Overdue, Age, Fresh
      <3>5. QED
        BY <3>3, <3>4 DEF DateInv
    <2>2. CASE Done \/ Close
      BY <2>2, EndInv
    <2>3. QED
      BY <2>1, <2>2, TickInv, PollInv, InterruptedInv, SweepInv, SweepEndsInv, RefreshInv, RespondInv,
         WriteInv, RefuseInv, RetryDateInv DEF DateNext
  <1>2. QED
    BY <1>1, DateInitInv, PTL DEF DateSpec

\* A suspended response is sent with the Date it was suspended with: the write
\* timer fires before time_cache.c reuses the text that the bucket points at.
THEOREM DateIsWhole == DateSpec => []DateWhole
  <1>1. DateInv => DateWhole
    BY DEF DateInv
  <1>2. QED
    BY <1>1, DateInvariant, PTL

\* Under the loop, the timer and the time cache, a bucket goes through the steps
\* of WriteBucket and no others.
THEOREM ImplementsBucket == DateSpec => Spec
  <1>1. DateInit => Init
    BY DEF DateInit
  <1>2. [DateNext]_allVars => [Next]_vars
    <2> SUFFICES ASSUME [DateNext]_allVars PROVE [Next]_vars
      OBVIOUS
    <2>1. CASE Tick \/ Poll \/ Interrupted \/ Sweep \/ SweepEnds \/ Refresh
      BY <2>1 DEF Tick, Poll, Interrupted, Sweep, SweepEnds, Refresh, bucketVars
    <2>2. CASE Respond \/ Write \/ Refuse \/ RetryDate \/ Done \/ Close
      BY <2>2 DEF Respond, Write, Refuse, RetryDate, Done, Close, Next
    <2>3. CASE UNCHANGED allVars
      BY <2>3 DEF allVars, bucketVars
    <2>4. QED
      BY <2>1, <2>2, <2>3 DEF DateNext
  <1>3. QED
    BY <1>1, <1>2, PTL DEF DateSpec, Spec

\* A response's packet arrives once, in order and complete, under every turn of the
\* loop, interruption, refusal, retry and timeout that DateHeader has.
THEOREM ResponseIsSent == DateSpec => []SendsPacket
  BY ImplementsBucket, PacketIsSent, PTL
=============================================================================
