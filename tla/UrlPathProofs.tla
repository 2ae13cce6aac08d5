--------------------------- MODULE UrlPathProofs ---------------------------
(***************************************************************************)
(* A URL of any length, in front of any memory, is decoded in place: the   *)
(* passes read inside of the memory, and nothing that was overwritten.     *)
(* Then, that the query and the path are what the URL means.               *)
(***************************************************************************)
EXTENDS UrlPath, SequenceTheorems, WellFoundedInduction, TLAPS

USE DEF vars

\* A set of natural numbers has a least element.
LEMMA LeastNumber ==
  ASSUME NEW S \in SUBSET Nat, S # {}
  PROVE  Min(S) \in S /\ \A y \in S : Min(S) <= y
<1> DEFINE R == {p \in Nat \X Nat : p[1] < p[2]}
<1>1. IsWellFoundedOn(R, Nat)
  BY NatLessThanWellFounded DEF OpToRel
<1>2. PICK x \in S : \A y \in S : ~(<<y, x>> \in R)
  BY <1>1, WFMin
<1>3. ASSUME NEW y \in S PROVE x <= y
  <2>1. y \in Nat /\ x \in Nat /\ ~(<<y, x>> \in R)
    BY <1>2
  <2>2. ~(y < x)
    BY <2>1
  <2> QED
    BY <2>1, <2>2
<1> QED
  BY <1>3 DEF Min

\* The string that the memory begins with ends inside of it.
LEMMA StringEnds ==
  ASSUME mem \in Seq(Bytes), mem # <<>>, mem[Len(mem)] = 0
  PROVE  strlen \in Nat /\ strlen < Len(mem)
<1> DEFINE Nuls == {i \in DOMAIN mem : mem[i] = 0}
<1>1. Nuls \in SUBSET Nat /\ Len(mem) \in Nuls
  OBVIOUS
<1>2. Min(Nuls) \in Nuls
  BY <1>1, LeastNumber
<1>3. Min(Nuls) \in 1 .. Len(mem) /\ Len(mem) \in Nat
  BY <1>2
<1> QED
  BY <1>3 DEF strlen

LEMMA EscapedByte ==
  ASSUME NEW c1 \in Bytes, NEW c2 \in Bytes
  PROVE  Byte(c1, c2) \in Bytes
<1>1. hex2int(c1) \in Int /\ hex2int(c2) \in Int
  BY DEF hex2int, toupper, Bytes
<1>2. hex2int(c1) * 16 + hex2int(c2) \in Int
  BY <1>1
<1> QED
  BY <1>2 DEF Byte, Bytes

\* The memory with a byte written
Written(b) == [mem EXCEPT ![wr + 1] = b]

LEMMA WrittenIs ==
  ASSUME NEW b \in Bytes, mem \in Seq(Bytes), wr + 1 \in 1 .. Len(mem)
  PROVE  /\ Written(b) \in Seq(Bytes) /\ Len(Written(b)) = Len(mem)
         /\ Written(b)[wr + 1] = b
         /\ \A i \in 1 .. Len(mem) : i # wr + 1 => Written(b)[i] = mem[i]
  BY DEF Written

\* One byte is written behind the ones read, which are n more afterwards: what was
\* not read, and the NUL at the end, stay.
LEMMA TakeStep ==
  ASSUME UrlInv, NEW n \in Nat \ {0}, n <= len, phase \in {"path", "decode"},
         NEW b \in Bytes, mem' = Written(b), Take(n)
  PROVE  UrlInv'
<1>1. /\ rd' = rd + n /\ wr' = wr + 1 /\ len' = len - n
      /\ phase' = phase /\ slen' = slen /\ url' = url /\ stale' = stale
  BY DEF Take
<1>2. url \in Seq(Bytes) /\ stale \in Seq(Bytes) /\ stale # <<>>
  BY BytesAssumption, StaleAssumption DEF UrlInv, TypeOK
<1>3. Len(url) \in Nat /\ Len(stale) \in Nat \ {0}
  BY <1>2
<1>4. /\ Len(mem) = Len(url) + Len(stale) /\ mem[Len(mem)] = 0
      /\ mem \in Seq(Bytes) /\ wr \in Nat /\ rd \in Nat /\ len \in Nat
      /\ wr <= rd /\ rd <= Len(mem)
  BY DEF UrlInv, TypeOK, EndsWithNul
<1>5. rd + len < Len(mem)
  BY <1>3, <1>4 DEF UrlInv, UnreadOK
<1>6. wr + 1 \in 1 .. Len(mem) - 1 /\ wr + 1 <= rd + n /\ rd + n <= Len(mem)
  BY <1>3, <1>4, <1>5
<1>7. /\ mem' \in Seq(Bytes) /\ Len(mem') = Len(mem)
      /\ \A i \in 1 .. Len(mem) : i # wr + 1 => mem'[i] = mem[i]
  BY <1>4, <1>6, WrittenIs
<1>8. TypeOK'
  BY <1>1, <1>4, <1>7 DEF UrlInv, TypeOK
<1>9. EndsWithNul'
  BY <1>1, <1>3, <1>4, <1>6, <1>7 DEF EndsWithNul
<1>10. UnreadOK'
  <2>1. ASSUME phase = "path", NEW i \in rd' + 1 .. Len(mem)
        PROVE  mem'[i] = (url \o stale)[i]
    <3>1. i \in rd + 1 .. Len(mem) /\ i # wr + 1 /\ i \in 1 .. Len(mem)
      BY <1>1, <1>4, <1>6, <2>1
    <3>2. mem[i] = (url \o stale)[i]
      BY <2>1, <3>1 DEF UrlInv, UnreadOK
    <3> QED
      BY <1>7, <3>1, <3>2
  <2>2. rd' + len' = rd + len
    BY <1>1, <1>4
  <2> QED
    BY <1>1, <1>7, <2>1, <2>2 DEF UrlInv, UnreadOK
<1> QED
  BY <1>1, <1>4, <1>6, <1>7, <1>8, <1>9, <1>10 DEF UrlInv

\* The bytes that a step reads are in the memory.
LEMMA BytesRead ==
  ASSUME UrlInv, NEW n \in Nat \ {0}, n <= len, phase \in {"path", "decode"}
  PROVE  \A k \in 1 .. n : mem[rd + k] \in Bytes
<1>1. url \in Seq(Bytes) /\ stale \in Seq(Bytes)
  BY BytesAssumption DEF UrlInv, TypeOK
<1>2. /\ Len(url) \in Nat /\ Len(stale) \in Nat
      /\ Len(mem) = Len(url) + Len(stale) /\ mem \in Seq(Bytes) /\ rd \in Nat /\ len \in Nat
  BY <1>1 DEF UrlInv, TypeOK, EndsWithNul
<1>3. rd + len <= Len(mem)
  BY <1>2 DEF UrlInv, UnreadOK
<1>4. \A k \in 1 .. n : rd + k \in 1 .. Len(mem)
  BY <1>2, <1>3
<1> QED
  BY <1>2, <1>4

\* UrlInv is an invariant: three bytes at most become one.
THEOREM UrlInvariance == Spec => []UrlInv
<1>1. Init => UrlInv
  <2> SUFFICES ASSUME Init PROVE UrlInv
    OBVIOUS
  <2>1. url \in Seq(Bytes) /\ stale \in Seq(Bytes) /\ stale # <<>> /\ Last(stale) = 0
    BY BytesAssumption, StaleAssumption DEF Init
  <2>2. mem = url \o stale
    BY DEF Init
  <2>3. mem \in Seq(Bytes) /\ Len(mem) = Len(url) + Len(stale)
    BY <2>1, <2>2
  <2>4. Len(url) \in Nat /\ Len(stale) \in Nat \ {0}
    BY <2>1
  <2>5. mem[Len(mem)] = stale[Len(stale)]
    BY <2>1, <2>2, <2>3, <2>4
  <2>6. mem[Len(mem)] = 0
    BY <2>1, <2>5 DEF Last
  <2> QED
    BY <2>2, <2>3, <2>4, <2>6 DEF Init, UrlInv, TypeOK, EndsWithNul, UnreadOK
<1>2. UrlInv /\ [Next]_vars => UrlInv'
  <2> SUFFICES ASSUME UrlInv, [Next]_vars PROVE UrlInv'
    OBVIOUS
  <2>1. len \in Nat /\ rd \in Nat /\ rd + 1 \in Nat /\ rd + 2 \in Nat
    BY DEF UrlInv, TypeOK
  <2>2. ASSUME PathEscape \/ DecodeEscape PROVE UrlInv'
    <3>1. phase \in {"path", "decode"} /\ 3 <= len /\ Take(3)
          /\ mem' = Written(Byte(mem[rd + 2], mem[rd + 3]))
      BY <2>1, <2>2 DEF PathEscape, DecodeEscape, Escape, Written
    <3>2. mem[rd + 2] \in Bytes /\ mem[rd + 3] \in Bytes
      BY <2>1, <3>1, BytesRead
    <3>3. Byte(mem[rd + 2], mem[rd + 3]) \in Bytes
      BY <3>2, EscapedByte
    <3> QED
      BY <3>1, <3>3, TakeStep
  <2>3. ASSUME PathByte \/ DecodeByte PROVE UrlInv'
    <3>1. phase \in {"path", "decode"} /\ 1 <= len /\ Take(1)
          /\ mem' = Written(c)
      BY <2>1, <2>3 DEF PathByte, DecodeByte, Written
    <3>2. c \in Bytes
      BY <2>1, <3>1, BytesRead DEF c
    <3> QED
      BY <3>1, <3>2, TakeStep
  <2>4. ASSUME PathEnd PROVE UrlInv'
    <3>1. /\ slen' = wr /\ rd' = 0 /\ wr' = 0 /\ len' = strlen /\ phase' = "decode"
          /\ UNCHANGED <<mem, url, stale>>
      BY <2>4 DEF PathEnd, urldecode
    <3>2. mem \in Seq(Bytes) /\ mem[Len(mem)] = 0 /\ mem # <<>>
      <4>1. url \in Seq(Bytes) /\ stale \in Seq(Bytes) /\ stale # <<>>
        BY BytesAssumption, StaleAssumption DEF UrlInv, TypeOK
      <4> QED
        BY <4>1 DEF UrlInv, TypeOK, EndsWithNul
    <3>3. strlen \in Nat /\ strlen < Len(mem) /\ Len(mem) \in Nat
      BY <3>2, StringEnds
    <3>4. TypeOK' /\ EndsWithNul'
      BY <3>1, <3>3 DEF UrlInv, TypeOK, EndsWithNul
    <3>5. UnreadOK'
      BY <3>1, <3>3 DEF UnreadOK
    <3> QED
      BY <3>1, <3>3, <3>4, <3>5 DEF UrlInv
  <2>5. CASE DecodeRefuses
    BY <2>5 DEF DecodeRefuses, UrlInv, TypeOK, EndsWithNul, UnreadOK
  <2>6. ASSUME DecodeEnd PROVE UrlInv'
    <3>1. /\ mem' = Written(0) /\ phase' = "done"
          /\ UNCHANGED <<rd, wr, len, slen, url, stale>>
      BY <2>6 DEF DecodeEnd, Written
    <3>2. /\ mem \in Seq(Bytes) /\ wr \in Nat /\ rd \in Nat /\ Len(mem) \in Nat
          /\ wr <= rd /\ rd <= Len(mem) /\ mem[Len(mem)] = 0
      BY DEF UrlInv, TypeOK, EndsWithNul
    <3>3. rd < Len(mem)
      BY <2>6, <3>2 DEF DecodeEnd, UrlInv, UnreadOK, TypeOK
    <3>4. wr + 1 \in 1 .. Len(mem) /\ 0 \in Bytes
      BY <3>2, <3>3 DEF Bytes
    <3>5. mem' \in Seq(Bytes) /\ Len(mem') = Len(mem) /\ mem'[Len(mem')] = 0
      BY <3>1, <3>2, <3>4, WrittenIs
    <3> QED
      BY <3>1, <3>2, <3>5 DEF UrlInv, TypeOK, EndsWithNul, UnreadOK
  <2>7. CASE UNCHANGED vars
    BY <2>7 DEF UrlInv, TypeOK, EndsWithNul, UnreadOK
  <2> QED
    BY <2>2, <2>3, <2>4, <2>5, <2>6, <2>7 DEF Next
<1> QED
  BY <1>1, <1>2, PTL DEF Spec

\* Decoding in place never reads what it has overwritten and stays inside of the
\* memory, for a URL of any length and whatever lies behind it.
THEOREM UrlInPlace == Spec => []InPlace
<1>1. UrlInv => InPlace
  BY DEF UrlInv, UnreadOK, InPlace
<1> QED
  BY <1>1, UrlInvariance, PTL

-----------------------------------------------------------------------------
(* The meaning of a URL, read from its front.                              *)

\* Induction over a set of numbers.
LEMMA UpFromZero ==
  ASSUME NEW T, 0 \in T, \A n \in Nat : n \in T => n + 1 \in T
  PROVE  \A n \in Nat : n \in T
<1> SUFFICES ASSUME Nat \ T # {} PROVE FALSE
  OBVIOUS
<1>1. PICK n \in Nat \ T : \A m \in Nat \ T : ~(<<m, n>> \in OpToRel(<, Nat))
  BY NatLessThanWellFounded, WFMin
<1>2. n # 0 /\ n - 1 \in Nat
  OBVIOUS
<1>3. <<n - 1, n>> \in OpToRel(<, Nat)
  BY <1>2 DEF OpToRel
<1>4. n - 1 \in T
  BY <1>1, <1>2, <1>3
<1> QED
  BY <1>2, <1>4

\* Min is the element that no other is below.
LEMMA LeastIs ==
  ASSUME NEW S \in SUBSET Nat, NEW x \in S, \A y \in S : x <= y
  PROVE  Min(S) = x
<1>1. Min(S) \in S /\ \A y \in S : Min(S) <= y
  BY DEF Min
<1>2. Min(S) <= x /\ x <= Min(S) /\ x \in Nat /\ Min(S) \in Nat
  BY <1>1
<1> QED
  BY <1>2

\* d stands for what Decoding(u) is.
IsDecoding(d, u, n) ==
  d = [i \in 0 .. n |-> IF i = 0 THEN <<>> ELSE Longer(d[i - 1], u, i)]

LEMMA DecodingExists ==
  ASSUME NEW u, NEW n \in Nat
  PROVE  \E d : IsDecoding(d, u, n)
<1> DEFINE T == {m \in Nat : \E d : IsDecoding(d, u, m)}
<1>1. 0 \in T
  <2> DEFINE g == [i \in 0 .. 0 |-> <<>>]
  <2>1. IsDecoding(g, u, 0)
    BY DEF IsDecoding
  <2> QED
    BY <2>1
<1>2. ASSUME NEW m \in Nat, m \in T PROVE m + 1 \in T
  <2>1. PICK d : IsDecoding(d, u, m)
    BY <1>2
  <2> DEFINE e == Longer(d[m], u, m + 1)
             g == [i \in 0 .. m + 1 |-> IF i = m + 1 THEN e ELSE d[i]]
  <2>2. ASSUME NEW i \in 0 .. m + 1
        PROVE  g[i] = IF i = 0 THEN <<>> ELSE Longer(g[i - 1], u, i)
    <3>1. CASE i = m + 1
      <4>1. g[i - 1] = d[m] /\ g[i] = e /\ i # 0
        BY <3>1
      <4> QED
        BY <3>1, <4>1
    <3>2. CASE i # m + 1
      <4>1. i \in 0 .. m /\ g[i] = d[i]
        BY <3>2
      <4>2. d[i] = IF i = 0 THEN <<>> ELSE Longer(d[i - 1], u, i)
        BY <2>1, <4>1 DEF IsDecoding
      <4>3. i # 0 => g[i - 1] = d[i - 1]
        BY <4>1
      <4> QED
        BY <4>1, <4>2, <4>3
    <3> QED
      BY <3>1, <3>2
  <2>3. g = [i \in 0 .. m + 1 |-> g[i]]
    OBVIOUS
  <2> HIDE DEF g, e
  <2>4. g = [i \in 0 .. m + 1 |-> IF i = 0 THEN <<>> ELSE Longer(g[i - 1], u, i)]
    BY <2>2, <2>3
  <2>5. IsDecoding(g, u, m + 1)
    BY <2>4 DEF IsDecoding
  <2> QED
    BY <2>5
<1> HIDE DEF T
<1>3. n \in T
  BY <1>1, <1>2, UpFromZero
<1> QED
  BY <1>3 DEF T

\* Decoding goes byte by byte.
LEMMA DecodingIs ==
  ASSUME NEW u \in Seq(Bytes)
  PROVE  /\ Decoding(u)[0] = <<>>
         /\ \A i \in 1 .. Len(u) : Decoding(u)[i] = Longer(Decoding(u)[i - 1], u, i)
<1>1. Len(u) \in Nat
  OBVIOUS
<1>2. \E d : IsDecoding(d, u, Len(u))
  BY <1>1, DecodingExists
<1>3. IsDecoding(CHOOSE d : IsDecoding(d, u, Len(u)), u, Len(u))
  BY <1>2
<1>4. Decoding(u) = CHOOSE d : IsDecoding(d, u, Len(u))
  BY DEF Decoding, IsDecoding
<1>5. IsDecoding(Decoding(u), u, Len(u))
  BY <1>3, <1>4
<1>6. \A i \in 0 .. Len(u) :
        Decoding(u)[i] = IF i = 0 THEN <<>> ELSE Longer(Decoding(u)[i - 1], u, i)
  BY <1>5 DEF IsDecoding
<1> QED
  BY <1>1, <1>6

LEMMA LongerSame ==
  ASSUME NEW s, NEW u, NEW v, NEW i \in Nat, u[i] = v[i],
         i > 1 => u[i - 1] = v[i - 1], i > 2 => u[i - 2] = v[i - 2]
  PROVE  Longer(s, u, i) = Longer(s, v, i)
<1> QED
  BY DEF Longer

\* What the front of a URL stands for does not depend on the rest.
LEMMA DecodingOfFront ==
  ASSUME NEW u \in Seq(Bytes), NEW n \in 0 .. Len(u)
  PROVE  Decoded(SubSeq(u, 1, n)) = Decoding(u)[n]
<1> DEFINE v == SubSeq(u, 1, n)
           T == {m \in Nat : m <= n => Decoding(v)[m] = Decoding(u)[m]}
<1>1. v \in Seq(Bytes) /\ Len(v) = n /\ n \in Nat /\ \A i \in 1 .. n : v[i] = u[i]
  OBVIOUS
<1> HIDE DEF v
<1>2. 0 \in T
  BY <1>1, DecodingIs
<1>3. ASSUME NEW m \in Nat, m \in T PROVE m + 1 \in T
  <2> SUFFICES ASSUME m + 1 <= n PROVE Decoding(v)[m + 1] = Decoding(u)[m + 1]
    OBVIOUS
  <2>1. m + 1 \in 1 .. Len(u) /\ m + 1 \in 1 .. Len(v) /\ m <= n /\ (m + 1) - 1 = m
    BY <1>1
  <2>2. /\ Decoding(v)[m + 1] = Longer(Decoding(v)[m], v, m + 1)
        /\ Decoding(u)[m + 1] = Longer(Decoding(u)[m], u, m + 1)
    BY <1>1, <2>1, DecodingIs
  <2>3. Decoding(v)[m] = Decoding(u)[m]
    BY <1>3, <2>1
  <2>4. PICK i \in 1 .. n : i = m + 1
    BY <2>1
  <2>5. v[i] = u[i] /\ (i > 1 => v[i - 1] = u[i - 1]) /\ (i > 2 => v[i - 2] = u[i - 2])
    <3>1. (i > 1 => i - 1 \in 1 .. n) /\ (i > 2 => i - 2 \in 1 .. n)
      BY <1>1
    <3> QED
      BY <1>1, <3>1
  <2>6. Longer(Decoding(u)[m], v, i) = Longer(Decoding(u)[m], u, i)
    BY <1>1, <2>5, LongerSame
  <2> QED
    BY <2>2, <2>3, <2>4, <2>6
<1> HIDE DEF T
<1>4. n \in T
  BY <1>1, <1>2, <1>3, UpFromZero
<1>5. Decoding(v)[n] = Decoding(u)[n]
  BY <1>1, <1>4 DEF T
<1> QED
  BY <1>1, <1>5 DEF v, Decoded

-----------------------------------------------------------------------------
(* The digits of an escape.                                                *)

LEMMA DigitIs ==
  ASSUME NEW d \in HexDigits
  PROVE  isxdigit(d) /\ hex2int(d) = Digit(d) /\ Digit(d) \in 0 .. 15
<1> DEFINE P(v) == d \in IF v < 10 THEN {48 + v} ELSE {55 + v, 87 + v}
<1>1. d \in 48 .. 57 \/ d \in 65 .. 70 \/ d \in 97 .. 102
  BY DEF HexDigits
<1>2. isxdigit(d)
  BY <1>1 DEF isxdigit
<1>3. PICK w \in 0 .. 15 : P(w) /\ hex2int(d) = w
  <2>1. CASE d \in 48 .. 57
    <3>1. d - 48 \in 0 .. 15 /\ P(d - 48)
      BY <2>1
    <3>2. hex2int(d) = d - 48
      BY <2>1 DEF hex2int, toupper
    <3> QED
      BY <3>1, <3>2
  <2>2. CASE d \in 65 .. 70
    <3>1. d - 55 \in 0 .. 15 /\ P(d - 55)
      BY <2>2
    <3>2. hex2int(d) = d - 55
      BY <2>2 DEF hex2int, toupper
    <3> QED
      BY <3>1, <3>2
  <2>3. CASE d \in 97 .. 102
    <3>1. d - 87 \in 0 .. 15 /\ P(d - 87)
      BY <2>3
    <3>2. hex2int(d) = d - 87
      BY <2>3 DEF hex2int, toupper
    <3> QED
      BY <3>1, <3>2
  <2> QED
    BY <1>1, <2>1, <2>2, <2>3
<1>4. \A v \in 0 .. 15 : P(v) => v = w
  BY <1>3
<1>5. Digit(d) = CHOOSE v \in 0 .. 15 : P(v)
  BY DEF Digit
<1> HIDE DEF P
<1>6. Digit(d) = w
  BY <1>3, <1>4, <1>5
<1> QED
  BY <1>2, <1>3, <1>6

\* The byte that set_path makes of an escape.
LEMMA EscapeMeans ==
  ASSUME NEW d \in HexDigits, NEW e \in HexDigits
  PROVE  Byte(d, e) = 16 * Digit(d) + Digit(e)
<1>1. /\ hex2int(d) = Digit(d) /\ Digit(d) \in 0 .. 15
      /\ hex2int(e) = Digit(e) /\ Digit(e) \in 0 .. 15
  BY DigitIs
<1>2. PICK v \in 0 .. 15 : v = Digit(d)
  BY <1>1
<1>3. PICK w \in 0 .. 15 : w = Digit(e)
  BY <1>1
<1>4. (v * 16 + w) % 256 = 16 * v + w
  BY <1>2, <1>3
<1>5. Byte(d, e) = (v * 16 + w) % 256
  BY <1>1, <1>2, <1>3 DEF Byte
<1> QED
  BY <1>2, <1>3, <1>4, <1>5

-----------------------------------------------------------------------------
(* Where a URL is cut.                                                     *)

\* n bytes of u are in front of its first mark.
CutAt(u, marks, n) ==
  /\ n \in 0 .. Len(u)
  /\ \A i \in 1 .. n : u[i] \notin marks
  /\ n < Len(u) => u[n + 1] \in marks

LEMMA CutExists ==
  ASSUME NEW u \in Seq(Bytes), NEW marks
  PROVE  \E n : CutAt(u, marks, n)
<1> DEFINE at == {i \in DOMAIN u : u[i] \in marks}
<1>1. at \in SUBSET Nat /\ DOMAIN u = 1 .. Len(u) /\ Len(u) \in Nat
  OBVIOUS
<1>2. CASE at = {}
  <2>1. CutAt(u, marks, Len(u))
    BY <1>1, <1>2 DEF CutAt
  <2> QED
    BY <2>1
<1>3. CASE at # {}
  <2>1. PICK x \in at : \A y \in at : x <= y
    <3> HIDE DEF at
    <3> QED
      BY <1>1, <1>3, LeastNumber
  <2>2. x \in 1 .. Len(u) /\ u[x] \in marks
    BY <1>1, <2>1
  <2>3. \A i \in 1 .. x - 1 : u[i] \notin marks
    BY <1>1, <2>1, <2>2
  <2>4. CutAt(u, marks, x - 1)
    BY <1>1, <2>2, <2>3 DEF CutAt
  <2> QED
    BY <2>4
<1> QED
  BY <1>2, <1>3

\* From and Before cut there.
LEMMA CutIs ==
  ASSUME NEW u \in Seq(Bytes), NEW marks, NEW n, CutAt(u, marks, n)
  PROVE  /\ From(u, marks) = SubSeq(u, n + 1, Len(u))
         /\ Before(u, marks) = SubSeq(u, 1, n)
<1> DEFINE at == {i \in DOMAIN u : u[i] \in marks}
<1>1. at \in SUBSET Nat /\ DOMAIN u = 1 .. Len(u) /\ Len(u) \in Nat /\ n \in 0 .. Len(u)
  BY DEF CutAt
<1>2. From(u, marks) = IF at = {} THEN <<>> ELSE SubSeq(u, Min(at), Len(u))
  BY DEF From
<1>3. CASE n = Len(u)
  <2>1. at = {}
    BY <1>1, <1>3 DEF CutAt
  <2>2. SubSeq(u, n + 1, Len(u)) = <<>>
    BY <1>1, <1>3
  <2>3. From(u, marks) = <<>> /\ Len(u) - Len(<<>>) = n
    BY <1>1, <1>2, <1>3, <2>1
  <2> QED
    BY <2>2, <2>3 DEF Before
<1>4. CASE n < Len(u)
  <2>1. n + 1 \in at /\ \A y \in at : n + 1 <= y
    BY <1>1, <1>4 DEF CutAt
  <2>2. Min(at) = n + 1
    <3> HIDE DEF at
    <3> QED
      BY <1>1, <2>1, LeastIs
  <2>3. From(u, marks) = SubSeq(u, n + 1, Len(u))
    BY <1>2, <2>1, <2>2
  <2>4. Len(SubSeq(u, n + 1, Len(u))) = Len(u) - n
    <3>1. n + 1 \in 1 .. Len(u)
      BY <1>1, <1>4
    <3>2. PICK a \in 1 .. Len(u) : a = n + 1
      BY <3>1
    <3>3. Len(SubSeq(u, a, Len(u))) = Len(u) - a + 1
      BY <1>1
    <3> QED
      BY <1>1, <3>2, <3>3
  <2>5. Len(u) - (Len(u) - n) = n
    BY <1>1
  <2> QED
    BY <2>3, <2>4, <2>5 DEF Before
<1>5. n = Len(u) \/ n < Len(u)
  <2>1. Len(u) \in Nat /\ n \in 0 .. Len(u)
    BY <1>1
  <2> QED
    BY <2>1
<1> QED
  BY <1>3, <1>4, <1>5

-----------------------------------------------------------------------------
(* The first pass: PathOK.                                                 *)

\* What UrlInv says of the sizes.
LEMMA Sizes ==
  ASSUME UrlInv
  PROVE  /\ url \in Seq(Bytes) /\ stale \in Seq(Bytes) /\ mem \in Seq(Bytes)
         /\ Len(url) \in Nat /\ Len(stale) \in Nat \ {0} /\ Len(mem) = Len(url) + Len(stale)
         /\ rd \in Nat /\ wr \in Nat /\ len \in Nat /\ slen \in Nat
         /\ wr <= rd /\ rd <= Len(mem)
         /\ phase = "path" => rd + len = Len(url)
         /\ phase = "decode" => rd + len < Len(mem)
<1>1. url \in Seq(Bytes) /\ stale \in Seq(Bytes) /\ stale # <<>>
  BY BytesAssumption, StaleAssumption DEF UrlInv, TypeOK
<1>2. Len(url) \in Nat /\ Len(stale) \in Nat \ {0}
  BY <1>1
<1> QED
  BY <1>1, <1>2 DEF UrlInv, TypeOK, EndsWithNul, UnreadOK

\* The memory as it was received: the URL, and what lay behind it.
LEMMA Received ==
  ASSUME UrlInv
  PROVE  /\ \A i \in 1 .. Len(url) : (url \o stale)[i] = url[i]
         /\ \A i \in Len(url) + 1 .. Len(mem) : (url \o stale)[i] \in Range(stale)
<1>1. /\ url \in Seq(Bytes) /\ stale \in Seq(Bytes)
      /\ Len(url) \in Nat /\ Len(stale) \in Nat /\ Len(mem) = Len(url) + Len(stale)
  BY Sizes
<1>2. \A i \in 1 .. Len(url) : (url \o stale)[i] = url[i]
  BY <1>1
<1>3. ASSUME NEW i \in Len(url) + 1 .. Len(mem) PROVE (url \o stale)[i] \in Range(stale)
  <2>1. (url \o stale)[i] = stale[i - Len(url)] /\ i - Len(url) \in 1 .. Len(stale)
    BY <1>1
  <2>2. DOMAIN stale = 1 .. Len(stale)
    BY <1>1
  <2> QED
    BY <2>1, <2>2 DEF Range
<1> QED
  BY <1>2, <1>3

\* An escape of a valid URL is whole, and its digits are digits.
LEMMA EscapeWhole ==
  ASSUME UrlInv, Valid(url), NEW i \in 1 .. Len(url), url[i] = Percent
  PROVE  i + 2 <= Len(url) /\ url[i + 1] \in HexDigits /\ url[i + 2] \in HexDigits
<1>1. DOMAIN url = 1 .. Len(url)
  BY Sizes
<1> QED
  BY <1>1 DEF Valid

\* A byte that is written behind a front of the memory makes it longer by one.
LEMMA FrontGrows ==
  ASSUME UrlInv, wr < Len(mem), NEW b \in Bytes
  PROVE  SubSeq(Written(b), 1, wr + 1) = Append(SubSeq(mem, 1, wr), b)
<1>1. mem \in Seq(Bytes) /\ wr \in Nat /\ Len(mem) \in Nat /\ wr + 1 \in 1 .. Len(mem)
  BY Sizes
<1>2. PICK m \in Seq(Bytes) : m = Written(b)
  BY <1>1, WrittenIs
<1>3. Len(m) = Len(mem) /\ m[wr + 1] = b /\ \A i \in 1 .. Len(mem) : i # wr + 1 => m[i] = mem[i]
  BY <1>1, <1>2, WrittenIs
<1>4. SubSeq(m, 1, wr + 1) = Append(SubSeq(mem, 1, wr), b)
  <2> DEFINE f == SubSeq(mem, 1, wr)
             g == SubSeq(m, 1, wr + 1)
  <2>1. f \in Seq(Bytes) /\ Len(f) = wr /\ \A i \in 1 .. wr : f[i] = mem[i]
    BY <1>1
  <2>2. g \in Seq(Bytes) /\ Len(g) = wr + 1 /\ \A i \in 1 .. wr + 1 : g[i] = m[i]
    BY <1>1, <1>3
  <2> HIDE DEF f, g
  <2>3. Append(f, b) \in Seq(Bytes) /\ Len(Append(f, b)) = wr + 1
    BY <1>1, <2>1
  <2>4. \A i \in 1 .. wr + 1 : g[i] = Append(f, b)[i]
    BY <1>1, <1>3, <2>1, <2>2
  <2>5. g = Append(f, b)
    BY <2>2, <2>3, <2>4
  <2> QED
    BY <2>5 DEF f, g
<1> QED
  BY <1>2, <1>4

\* What a step of the first pass must show.
LEMMA PathTakes ==
  ASSUME UrlInv, MeansInv, phase = "path", NEW n \in Nat \ {0}, n <= len,
         NEW b \in Bytes, mem' = Written(b), Take(n),
         Valid(url) => /\ \A i \in rd + 1 .. rd + n : /\ url[i] \notin {Question, Hash}
                                                      /\ url[i] = Percent => i + 2 <= rd + n
                       /\ Decoding(url)[rd + n] = Append(Decoding(url)[rd], b)
  PROVE  MeansInv'
<1>1. /\ rd' = rd + n /\ wr' = wr + 1 /\ phase' = "path"
      /\ url' = url /\ stale' = stale /\ query' = query
  BY DEF Take
<1>2. /\ Len(mem) \in Nat /\ rd \in Nat /\ wr \in Nat /\ wr + 1 \in 1 .. Len(mem) /\ rd + n \in Nat
      /\ mem \in Seq(Bytes)
  BY Sizes
<1>3. /\ Len(mem') = Len(mem)
      /\ \A i \in 1 .. Len(mem) : i # wr + 1 => mem'[i] = mem[i]
  BY <1>2, WrittenIs
<1>4. SecondOK'
  BY <1>1 DEF SecondOK
<1>5. ASSUME Valid(url)
      PROVE  /\ query = <<>>
             /\ \A i \in 1 .. rd + n : url[i] \notin {Question, Hash} /\ (url[i] = Percent => i + 2 <= rd + n)
             /\ SubSeq(mem', 1, wr + 1) = Decoding(url)[rd + n]
             /\ \A i \in wr + 2 .. Len(mem) : mem'[i] = (url \o stale)[i]
  <2>1. /\ query = <<>>
        /\ \A i \in 1 .. rd : url[i] \notin {Question, Hash} /\ (url[i] = Percent => i + 2 <= rd)
        /\ SubSeq(mem, 1, wr) = Decoding(url)[rd]
        /\ \A i \in wr + 1 .. Len(mem) : mem[i] = (url \o stale)[i]
    BY <1>5 DEF MeansInv, PathOK
  <2>2. ASSUME NEW i \in 1 .. rd + n
        PROVE  url[i] \notin {Question, Hash} /\ (url[i] = Percent => i + 2 <= rd + n)
    <3>1. CASE i \in 1 .. rd
      <4>1. i + 2 <= rd => i + 2 <= rd + n
        BY <1>2
      <4> QED
        BY <2>1, <3>1, <4>1
    <3>2. CASE i \in rd + 1 .. rd + n
      BY <1>5, <3>2
    <3> QED
      BY <1>2, <3>1, <3>2
  <2>3. SubSeq(mem', 1, wr + 1) = Append(SubSeq(mem, 1, wr), b)
    BY <1>2, FrontGrows
  <2>4. ASSUME NEW i \in wr + 2 .. Len(mem) PROVE mem'[i] = (url \o stale)[i]
    <3>1. i \in wr + 1 .. Len(mem) /\ i \in 1 .. Len(mem) /\ i # wr + 1
      BY <1>2
    <3> QED
      BY <1>3, <2>1, <3>1
  <2> QED
    BY <1>5, <2>1, <2>2, <2>3, <2>4
<1>6. PathOK'
  <2>1. wr' + 1 = wr + 2
    BY <1>1, <1>2
  <2> QED
    BY <1>1, <1>3, <1>5, <2>1 DEF PathOK
<1> QED
  BY <1>4, <1>6 DEF MeansInv

\* The bytes that the first pass reads are those of the URL.
LEMMA PathReads ==
  ASSUME UrlInv, phase = "path"
  PROVE  \A k \in 1 .. len : rd + k \in 1 .. Len(url) /\ mem[rd + k] = url[rd + k]
<1>1. /\ Len(url) \in Nat /\ Len(stale) \in Nat /\ Len(mem) = Len(url) + Len(stale)
      /\ rd \in Nat /\ len \in Nat /\ rd + len = Len(url)
  BY Sizes
<1>2. \A i \in rd + 1 .. Len(mem) : mem[i] = (url \o stale)[i]
  BY DEF UrlInv, UnreadOK
<1>3. \A i \in 1 .. Len(url) : (url \o stale)[i] = url[i]
  BY Received
<1> QED
  BY <1>1, <1>2, <1>3

\* A digit is neither "%" nor the end of a path.
LEMMA DigitIsNoMark ==
  \A d \in HexDigits : d # Percent /\ d \notin {Question, Hash}
<1> QED
  BY DEF HexDigits, Percent, Question, Hash

\* No escape of a valid URL is half read.
LEMMA NotInEscape ==
  ASSUME UrlInv, PathOK, phase = "path", Valid(url)
  PROVE  /\ rd > 0 => url[rd] # Percent
         /\ rd > 1 => url[rd - 1] # Percent
<1>1. rd \in Nat /\ \A i \in 1 .. rd : url[i] = Percent => i + 2 <= rd
  BY Sizes DEF PathOK
<1> QED
  BY <1>1

LEMMA PathEscapeMeans ==
  ASSUME UrlInv, MeansInv, PathEscape
  PROVE  MeansInv'
<1>1. /\ phase = "path" /\ len > 2 /\ c = Percent /\ Take(3)
      /\ mem' = Written(Byte(mem[rd + 2], mem[rd + 3]))
  BY DEF PathEscape, Escape, Written
<1>2. rd \in Nat /\ len \in Nat /\ 3 <= len
  BY <1>1, Sizes
<1>3. mem[rd + 2] \in Bytes /\ mem[rd + 3] \in Bytes
  BY <1>1, <1>2, BytesRead
<1>4. PICK b \in Bytes : b = Byte(mem[rd + 2], mem[rd + 3])
  BY <1>3, EscapedByte
<1>5. ASSUME Valid(url)
      PROVE  /\ \A i \in rd + 1 .. rd + 3 : /\ url[i] \notin {Question, Hash}
                                            /\ url[i] = Percent => i + 2 <= rd + 3
             /\ Decoding(url)[rd + 3] = Append(Decoding(url)[rd], b)
  <2>1. /\ rd + 1 \in 1 .. Len(url) /\ mem[rd + 1] = url[rd + 1]
        /\ rd + 2 \in 1 .. Len(url) /\ mem[rd + 2] = url[rd + 2]
        /\ rd + 3 \in 1 .. Len(url) /\ mem[rd + 3] = url[rd + 3]
    <3>1. 1 \in 1 .. len /\ 2 \in 1 .. len /\ 3 \in 1 .. len
      BY <1>2
    <3> QED
      BY <1>1, <3>1, PathReads
  <2>2. url[rd + 1] = Percent
    BY <1>1, <2>1 DEF c
  <2>3. url[rd + 2] \in HexDigits /\ url[rd + 3] \in HexDigits
    <3>1. PICK i \in 1 .. Len(url) : i = rd + 1
      BY <2>1
    <3>2. i + 1 = rd + 2 /\ i + 2 = rd + 3
      BY <1>2, <3>1
    <3> QED
      BY <1>5, <2>2, <3>1, <3>2, EscapeWhole
  <2>4. /\ url[rd + 2] # Percent /\ url[rd + 2] \notin {Question, Hash}
        /\ url[rd + 3] # Percent /\ url[rd + 3] \notin {Question, Hash}
    BY <2>3, DigitIsNoMark
  <2>5. \A i \in rd + 1 .. rd + 3 : /\ url[i] \notin {Question, Hash}
                                    /\ url[i] = Percent => i + 2 <= rd + 3
    <3>1. Percent \notin {Question, Hash}
      BY DEF Percent, Question, Hash
    <3>2. \A i \in rd + 1 .. rd + 3 : i = rd + 1 \/ i = rd + 2 \/ i = rd + 3
      BY <1>2
    <3>3. (rd + 1) + 2 <= rd + 3
      BY <1>2
    <3> QED
      BY <2>2, <2>4, <3>1, <3>2, <3>3
  <2>6. Decoding(url)[rd + 3] = Append(Decoding(url)[rd], b)
    <3>1. /\ Decoding(url)[rd + 1] = Longer(Decoding(url)[rd], url, rd + 1)
          /\ Decoding(url)[rd + 2] = Longer(Decoding(url)[rd + 1], url, rd + 2)
          /\ Decoding(url)[rd + 3] = Longer(Decoding(url)[rd + 2], url, rd + 3)
      <4>1. url \in Seq(Bytes)
        BY Sizes
      <4>2. (rd + 1) - 1 = rd /\ (rd + 2) - 1 = rd + 1 /\ (rd + 3) - 1 = rd + 2
        BY <1>2
      <4> QED
        BY <2>1, <4>1, <4>2, DecodingIs
    <3>2. \A s : Longer(s, url, rd + 1) = s
      BY <2>2 DEF Longer
    <3>3. \A s : Longer(s, url, rd + 2) = s
      <4>1. rd + 2 > 1 /\ (rd + 2) - 1 = rd + 1
        BY <1>2
      <4> QED
        BY <2>2, <4>1 DEF Longer
    <3>4. \A s : Longer(s, url, rd + 3)
                   = Append(s, 16 * Digit(url[rd + 2]) + Digit(url[rd + 3]))
      <4>1. rd + 3 > 2 /\ (rd + 3) - 2 = rd + 1 /\ (rd + 3) - 1 = rd + 2
        BY <1>2
      <4> QED
        BY <2>2, <2>4, <4>1 DEF Longer
    <3>5. b = 16 * Digit(url[rd + 2]) + Digit(url[rd + 3])
      BY <1>4, <2>1, <2>3, EscapeMeans
    <3> QED
      BY <3>1, <3>2, <3>3, <3>4, <3>5
  <2> QED
    BY <2>5, <2>6
<1> QED
  BY <1>1, <1>2, <1>4, <1>5, PathTakes

LEMMA PathByteMeans ==
  ASSUME UrlInv, MeansInv, PathByte
  PROVE  MeansInv'
<1>1. /\ phase = "path" /\ len > 0 /\ ~(c = Percent /\ len > 2) /\ c \notin {Question, Hash}
      /\ Take(1) /\ mem' = Written(c)
  BY DEF PathByte, Escape, Written
<1>2. rd \in Nat /\ len \in Nat /\ 1 <= len /\ Len(url) \in Nat /\ rd + len = Len(url)
  BY <1>1, Sizes
<1>3. c \in Bytes
  BY <1>1, <1>2, BytesRead DEF c
<1>4. rd + 1 \in 1 .. Len(url) /\ c = url[rd + 1]
  <2>1. 1 \in 1 .. len
    BY <1>2
  <2> QED
    BY <1>1, <2>1, PathReads DEF c
<1>5. ASSUME Valid(url)
      PROVE  /\ \A i \in rd + 1 .. rd + 1 : /\ url[i] \notin {Question, Hash}
                                            /\ url[i] = Percent => i + 2 <= rd + 1
             /\ Decoding(url)[rd + 1] = Append(Decoding(url)[rd], c)
  <2>1. url[rd + 1] # Percent
    <3>1. SUFFICES ASSUME url[rd + 1] = Percent PROVE FALSE
      OBVIOUS
    <3>2. (rd + 1) + 2 <= Len(url)
      BY <1>4, <1>5, <3>1, EscapeWhole
    <3> QED
      BY <1>1, <1>2, <1>4, <3>1, <3>2
  <2>2. /\ rd > 0 => url[rd] # Percent
        /\ rd > 1 => url[rd - 1] # Percent
    BY <1>1, <1>5, NotInEscape DEF MeansInv
  <2>3. \A s : Longer(s, url, rd + 1) = Append(s, url[rd + 1])
    <3>1. /\ (rd + 1 > 1 <=> rd > 0) /\ (rd + 1) - 1 = rd
          /\ (rd + 1 > 2 <=> rd > 1) /\ (rd + 1) - 2 = rd - 1
      BY <1>2
    <3> QED
      BY <2>1, <2>2, <3>1 DEF Longer
  <2>4. Decoding(url)[rd + 1] = Longer(Decoding(url)[rd], url, rd + 1)
    <3>1. url \in Seq(Bytes) /\ (rd + 1) - 1 = rd
      BY <1>2, Sizes
    <3> QED
      BY <1>4, <3>1, DecodingIs
  <2>5. \A i \in rd + 1 .. rd + 1 : i = rd + 1
    BY <1>2
  <2> QED
    BY <1>1, <1>4, <2>1, <2>3, <2>4, <2>5
<1> QED
  BY <1>1, <1>2, <1>3, <1>5, PathTakes

-----------------------------------------------------------------------------
(* Between the passes: the query.                                          *)

\* n bytes of u behind the first m.
LEMMA PieceIs ==
  ASSUME NEW u \in Seq(Bytes), NEW m \in Nat, NEW n \in Nat, m + n <= Len(u)
  PROVE  /\ SubSeq(u, m + 1, m + n) \in Seq(Bytes) /\ Len(SubSeq(u, m + 1, m + n)) = n
         /\ \A i \in 1 .. n : SubSeq(u, m + 1, m + n)[i] = u[m + i]
<1> PICK a \in Int, z \in Int : a = m + 1 /\ z = m + n
  OBVIOUS
<1>1. a \in Int /\ z \in Int /\ \A i \in a .. z : u[i] \in Bytes
  OBVIOUS
<1>2. /\ SubSeq(u, a, z) \in Seq(Bytes)
      /\ Len(SubSeq(u, a, z)) = IF a <= z THEN z - a + 1 ELSE 0
      /\ \A i \in 1 .. z - a + 1 : SubSeq(u, a, z)[i] = u[a + i - 1]
  BY <1>1, SubSeqProperties
<1>3. (IF a <= z THEN z - a + 1 ELSE 0) = n /\ z - a + 1 = n
  OBVIOUS
<1>4. \A i \in 1 .. n : a + i - 1 = m + i
  OBVIOUS
<1> QED
  BY <1>2, <1>3, <1>4

\* set_query finds what is in front of a "#", whatever byte is behind the URL.
LEMMA QueryIs ==
  ASSUME UrlInv, phase = "path", len > 0, wr <= rd,
         \A i \in rd + 1 .. Len(mem) : mem[i] = (url \o stale)[i]
  PROVE  set_query(rd + 2, len) = Before(SubSeq(url, rd + 2, Len(url)), {Hash})
<1>1. /\ url \in Seq(Bytes) /\ stale \in Seq(Bytes) /\ mem \in Seq(Bytes)
      /\ Len(url) \in Nat /\ Len(stale) \in Nat \ {0} /\ Len(mem) = Len(url) + Len(stale)
      /\ rd \in Nat /\ len \in Nat /\ rd + len = Len(url)
  BY Sizes
<1> DEFINE size == Len(url)
           total == Len(mem)
<1>0. /\ size \in Nat /\ total \in Nat /\ rd \in Nat /\ len \in Nat \ {0}
      /\ rd + len = size /\ size + 1 <= total
  BY <1>1
<1> HIDE DEF size, total
<1>2. PICK t : t = SubSeq(url, rd + 2, Len(url))
  OBVIOUS
<1>3. t \in Seq(Bytes) /\ Len(t) = len - 1 /\ \A i \in 1 .. len - 1 : t[i] = url[rd + 1 + i]
  <2>1. PICK m \in Nat, n \in Nat : m = rd + 1 /\ n = len - 1
    BY <1>0
  <2>2. m + n <= size /\ rd + 2 = m + 1 /\ size = m + n
    BY <1>0, <2>1
  <2>3. /\ SubSeq(url, rd + 2, Len(url)) \in Seq(Bytes)
        /\ Len(SubSeq(url, rd + 2, Len(url))) = n
        /\ \A i \in 1 .. n : SubSeq(url, rd + 2, Len(url))[i] = url[m + i]
    <3>1. /\ SubSeq(url, m + 1, m + n) \in Seq(Bytes) /\ Len(SubSeq(url, m + 1, m + n)) = n
          /\ \A i \in 1 .. n : SubSeq(url, m + 1, m + n)[i] = url[m + i]
      BY <1>1, <2>2, PieceIs DEF size
    <3>2. SubSeq(url, m + 1, m + n) = SubSeq(url, rd + 2, Len(url))
      BY <2>2 DEF size
    <3> QED
      BY <3>1, <3>2
  <2> QED
    BY <1>2, <2>1, <2>3
<1>4. \A i \in 1 .. len - 1 : t[i] = mem[rd + 1 + i]
  <2>1. ASSUME NEW i \in 1 .. len - 1 PROVE t[i] = mem[rd + 1 + i]
    <3>1. PICK k \in 1 .. Len(url) : k = rd + 1 + i
      BY <1>1
    <3>2. k \in rd + 1 .. Len(mem)
      BY <1>1, <3>1
    <3>3. (url \o stale)[k] = url[k]
      BY Received
    <3> QED
      BY <1>3, <3>1, <3>2, <3>3
  <2> QED
    BY <2>1
<1>5. PICK n : CutAt(t, {Hash}, n)
  BY <1>3, CutExists
<1>6. Before(t, {Hash}) = SubSeq(t, 1, n)
  BY <1>3, <1>5, CutIs
<1>7. n \in 0 .. len - 1 /\ (n < len - 1 => t[n + 1] = Hash) /\ \A i \in 1 .. n : t[i] # Hash
  BY <1>3, <1>5 DEF CutAt
<1> DEFINE hashes == {i \in rd + 2 .. rd + 2 + len - 1 : mem[i] = Hash}
           l == IF hashes = {} THEN len ELSE Min(hashes) - (rd + 2) + 1
<1>8. l = n + 1
  <2>1. \A i \in hashes : rd + 2 + n <= i
    <3>1. SUFFICES ASSUME NEW i \in hashes, i < rd + 2 + n PROVE FALSE
      BY <1>1, <1>7
    <3>2. i - rd - 1 \in 1 .. n /\ i - rd - 1 \in 1 .. len - 1 /\ rd + 1 + (i - rd - 1) = i
      BY <1>1, <1>7, <3>1
    <3>3. t[i - rd - 1] = mem[i]
      BY <1>4, <3>2
    <3> QED
      BY <1>7, <3>1, <3>2, <3>3
  <2>2. n < len - 1 => rd + 2 + n \in hashes
    <3>1. SUFFICES ASSUME n < len - 1 PROVE rd + 2 + n \in hashes
      OBVIOUS
    <3>2. n + 1 \in 1 .. len - 1 /\ rd + 1 + (n + 1) = rd + 2 + n
      BY <1>1, <1>7, <3>1
    <3>3. mem[rd + 2 + n] = Hash
      BY <1>4, <1>7, <3>1, <3>2
    <3> QED
      BY <1>1, <1>7, <3>1, <3>3
  <2>3. hashes \in SUBSET Nat /\ \A i \in hashes : i <= rd + 1 + len
    BY <1>1
  <2> HIDE DEF hashes
  <2>4. hashes # {} => rd + 2 + n \in hashes
    <3>1. SUFFICES ASSUME NEW i \in hashes, n = len - 1 PROVE rd + 2 + n \in hashes
      BY <1>1, <1>7, <2>2
    <3>2. i \in Nat /\ rd + 2 + n <= i /\ i <= rd + 1 + len
      BY <2>1, <2>3, <3>1
    <3>3. i = rd + 2 + n
      BY <1>1, <3>1, <3>2
    <3> QED
      BY <3>1, <3>3
  <2>5. hashes # {} => Min(hashes) = rd + 2 + n
    BY <2>1, <2>3, <2>4, LeastIs
  <2>6. hashes = {} => n = len - 1
    BY <1>0, <1>7, <2>2
  <2> QED
    BY <1>1, <1>7, <2>5, <2>6
<1>9. set_query(rd + 2, len) = SubSeq(mem, rd + 2, rd + 2 + l - 2)
  BY DEF set_query
<1> HIDE DEF l
<1>10. SubSeq(mem, rd + 2, rd + 1 + n) = SubSeq(t, 1, n)
  <2>1. PICK f, g : f = SubSeq(mem, rd + 2, rd + 1 + n) /\ g = SubSeq(t, 1, n)
    OBVIOUS
  <2>2. /\ f \in Seq(Bytes) /\ Len(f) = n /\ \A i \in 1 .. n : f[i] = mem[rd + 1 + i]
        /\ g \in Seq(Bytes) /\ Len(g) = n /\ \A i \in 1 .. n : g[i] = t[i]
    <3>1. PICK m \in Nat, k \in Nat : m = rd + 1 /\ k = n
      BY <1>0, <1>7
    <3>2. m + k <= total /\ rd + 2 = m + 1 /\ rd + 1 + n = m + k
      BY <1>0, <1>7, <3>1
    <3>3. /\ SubSeq(mem, rd + 2, rd + 1 + n) \in Seq(Bytes)
          /\ Len(SubSeq(mem, rd + 2, rd + 1 + n)) = k
          /\ \A i \in 1 .. k : SubSeq(mem, rd + 2, rd + 1 + n)[i] = mem[m + i]
      <4>1. /\ SubSeq(mem, m + 1, m + k) \in Seq(Bytes) /\ Len(SubSeq(mem, m + 1, m + k)) = k
            /\ \A i \in 1 .. k : SubSeq(mem, m + 1, m + k)[i] = mem[m + i]
        BY <1>1, <3>2, PieceIs DEF total
      <4>2. SubSeq(mem, m + 1, m + k) = SubSeq(mem, rd + 2, rd + 1 + n)
        BY <3>2
      <4> QED
        BY <4>1, <4>2
    <3>4. k \in 0 .. Len(t)
      BY <1>1, <1>3, <1>7, <3>1
    <3>5. /\ SubSeq(t, 1, k) \in Seq(Bytes) /\ Len(SubSeq(t, 1, k)) = k
          /\ \A i \in 1 .. k : SubSeq(t, 1, k)[i] = t[i]
      BY <1>3, <3>4
    <3> QED
      BY <2>1, <3>1, <3>3, <3>5
  <2>3. ASSUME NEW i \in 1 .. n PROVE f[i] = g[i]
    <3>1. i \in 1 .. len - 1
      BY <1>1, <1>7
    <3> QED
      BY <1>4, <2>2, <3>1
  <2>4. f = g
    BY <2>2, <2>3, SeqEqual
  <2> QED
    BY <2>1, <2>4
<1>11. rd + 2 + l - 2 = rd + 1 + n
  BY <1>1, <1>7, <1>8
<1> QED
  BY <1>2, <1>6, <1>9, <1>10, <1>11

\* The rest of a URL behind a mark.
LEMMA RestIs ==
  ASSUME NEW u \in Seq(Bytes), NEW n \in 0 .. Len(u) - 1
  PROVE  /\ SubSeq(u, n + 1, Len(u)) # <<>>
         /\ SubSeq(u, n + 1, Len(u))[1] = u[n + 1]
         /\ Tail(SubSeq(u, n + 1, Len(u))) = SubSeq(u, n + 2, Len(u))
<1>1. Len(u) \in Nat /\ n \in Nat /\ n < Len(u)
  OBVIOUS
<1>2. PICK a \in 1 .. Len(u) : a = n + 1 /\ a + 1 = n + 2
  BY <1>1
<1>3. Len(SubSeq(u, a, Len(u))) = Len(u) - a + 1 /\ SubSeq(u, a, Len(u)) \in Seq(Bytes)
  <2>1. /\ a - 1 \in Nat /\ Len(u) - a + 1 \in Nat /\ a = (a - 1) + 1
        /\ Len(u) = (a - 1) + (Len(u) - a + 1) /\ (a - 1) + (Len(u) - a + 1) <= Len(u)
    BY <1>1
  <2> QED
    BY <2>1, PieceIs
<1>4. SubSeq(u, a, Len(u)) # <<>>
  <2>1. Len(SubSeq(u, a, Len(u))) # 0
    BY <1>1, <1>3
  <2> QED
    BY <2>1
<1>5. /\ Head(SubSeq(u, a, Len(u))) = u[a]
      /\ Tail(SubSeq(u, a, Len(u))) = SubSeq(u, a + 1, Len(u))
  <2>1. Len(u) \in a .. Len(u)
    BY <1>1
  <2> QED
    BY <2>1, HeadTailOfSubSeq
<1>6. SubSeq(u, a, Len(u))[1] = Head(SubSeq(u, a, Len(u)))
  BY <1>3, <1>4
<1> QED
  BY <1>2, <1>4, <1>5, <1>6

\* The path of a URL that the first pass has read to a mark or to its end, and
\* the query behind.
LEMMA PartsAre ==
  ASSUME UrlInv, MeansInv, PathEnd, Valid(url)
  PROVE  PathPart(url) = SubSeq(url, 1, rd) /\ rd \in 0 .. Len(url) /\ query' = QueryPart(url)
<1>1. phase = "path" /\ url \in Seq(Bytes) /\ Len(url) \in Nat /\ rd \in Nat /\ len \in Nat
      /\ rd + len = Len(url) /\ wr <= rd /\ wr \in Nat
  BY Sizes DEF PathEnd
<1>2. /\ query = <<>>
      /\ \A i \in 1 .. rd : url[i] \notin {Question, Hash}
      /\ \A i \in wr + 1 .. Len(mem) : mem[i] = (url \o stale)[i]
  BY <1>1 DEF MeansInv, PathOK
<1>3. len > 0 => rd + 1 \in 1 .. Len(url) /\ c = url[rd + 1]
  <2>1. len > 0 => 1 \in 1 .. len
    BY <1>1
  <2> QED
    BY <1>1, <2>1, PathReads DEF c
<1>4. CutAt(url, {Question, Hash}, rd)
  <2>1. rd \in 0 .. Len(url) /\ (rd < Len(url) => len > 0)
    BY <1>1
  <2>2. len > 0 => c \in {Question, Hash}
    BY <1>1 DEF PathEnd
  <2> QED
    BY <1>2, <1>3, <2>1, <2>2 DEF CutAt
<1>5. /\ PathPart(url) = SubSeq(url, 1, rd)
      /\ From(url, {Question, Hash}) = SubSeq(url, rd + 1, Len(url))
  BY <1>1, <1>4, CutIs DEF PathPart
<1>6. CASE len = 0
  <2>1. SubSeq(url, rd + 1, Len(url)) = <<>>
    BY <1>1, <1>6, SubSeqEmpty
  <2>2. query' = <<>>
    BY <1>1, <1>2, <1>6 DEF PathEnd
  <2>3. QueryPart(url) = <<>>
    BY <1>5, <2>1 DEF QueryPart
  <2> QED
    BY <1>1, <1>5, <2>2, <2>3
<1>7. CASE len > 0
  <2>1. /\ SubSeq(url, rd + 1, Len(url)) # <<>>
        /\ SubSeq(url, rd + 1, Len(url))[1] = c
        /\ Tail(SubSeq(url, rd + 1, Len(url))) = SubSeq(url, rd + 2, Len(url))
    <3>1. rd \in 0 .. Len(url) - 1
      BY <1>1, <1>7
    <3> QED
      BY <1>1, <1>3, <1>7, <3>1, RestIs
  <2>2. Question # Hash
    BY DEF Question, Hash
  <2>3. QueryPart(url) = IF c = Hash THEN <<>> ELSE Before(SubSeq(url, rd + 2, Len(url)), {Hash})
    BY <1>5, <2>1 DEF QueryPart
  <2>4. CASE c = Hash
    <3>1. query' = <<>>
      BY <1>1, <1>2, <1>7, <2>2, <2>4 DEF PathEnd
    <3> QED
      BY <1>1, <1>5, <2>3, <2>4, <3>1
  <2>5. CASE c = Question
    <3>1. query' = set_query(rd + 2, len)
      BY <1>1, <1>7, <2>2, <2>5 DEF PathEnd
    <3>2. \A i \in rd + 1 .. Len(mem) : mem[i] = (url \o stale)[i]
      <4>1. Len(mem) \in Nat
        BY Sizes
      <4>2. \A i \in rd + 1 .. Len(mem) : i \in wr + 1 .. Len(mem)
        BY <1>1, <4>1
      <4> QED
        BY <1>2, <4>2
    <3>3. query' = QueryPart(url)
      BY <1>1, <1>7, <2>2, <2>3, <2>5, <3>1, <3>2, QueryIs
    <3> QED
      BY <1>1, <1>5, <3>3
  <2>6. c = Hash \/ c = Question
    BY <1>1, <1>7 DEF PathEnd
  <2> QED
    BY <2>4, <2>5, <2>6
<1>8. len = 0 \/ len > 0
  BY <1>1
<1> QED
  BY <1>6, <1>7, <1>8

-----------------------------------------------------------------------------
(* The second pass: SecondOK.                                              *)

\* What the end of the first pass leaves: the decoded path, in front of the rest.
LEMMA PathEndMeans ==
  ASSUME UrlInv, MeansInv, PathEnd
  PROVE  MeansInv'
<1>1. /\ phase = "path" /\ phase' = "decode" /\ slen' = wr /\ rd' = 0 /\ wr' = 0 /\ len' = strlen
      /\ mem' = mem /\ url' = url /\ stale' = stale
  BY DEF PathEnd, urldecode
<1>2. /\ mem \in Seq(Bytes) /\ Len(mem) \in Nat /\ wr \in Nat /\ rd \in Nat /\ wr <= Len(mem)
      /\ url \in Seq(Bytes) /\ mem # <<>>
  <2>1. mem \in Seq(Bytes) /\ url \in Seq(Bytes) /\ wr \in Nat /\ rd \in Nat /\ wr <= rd /\ rd <= Len(mem)
        /\ Len(url) \in Nat /\ Len(stale) \in Nat \ {0} /\ Len(mem) = Len(url) + Len(stale)
    BY Sizes
  <2>2. Len(mem) # 0
    BY <2>1
  <2> QED
    BY <2>1, <2>2
<1>3. strlen + 1 \in DOMAIN mem /\ mem[strlen + 1] = 0 /\ strlen \in Nat
  <2> DEFINE Nuls == {i \in DOMAIN mem : mem[i] = 0}
  <2>1. mem[Len(mem)] = 0
    BY DEF UrlInv, EndsWithNul
  <2>2. Nuls \in SUBSET Nat /\ Len(mem) \in Nuls
    BY <1>2, <2>1
  <2>3. Min(Nuls) \in Nuls
    BY <2>2, LeastNumber
  <2>4. Min(Nuls) \in Nat /\ Min(Nuls) \in DOMAIN mem /\ mem[Min(Nuls)] = 0
    BY <2>2, <2>3
  <2>5. strlen = Min(Nuls) - 1
    BY DEF strlen
  <2>6. strlen \in Nat
    BY <1>2, <2>1, StringEnds
  <2> HIDE DEF Nuls
  <2>7. strlen + 1 = Min(Nuls)
    BY <2>4, <2>5
  <2> QED
    BY <2>4, <2>6, <2>7
<1>4. ASSUME Valid(url)
      PROVE  /\ PathPart(url) = SubSeq(url, 1, rd) /\ query' = QueryPart(url)
             /\ SubSeq(mem, 1, wr) = Decoded(PathPart(url))
             /\ \A i \in wr + 1 .. Len(mem) : mem[i] = (url \o stale)[i]
  <2>1. PathPart(url) = SubSeq(url, 1, rd) /\ rd \in 0 .. Len(url) /\ query' = QueryPart(url)
    BY <1>4, PartsAre
  <2>2. Decoded(SubSeq(url, 1, rd)) = Decoding(url)[rd]
    BY <1>2, <2>1, DecodingOfFront
  <2>3. /\ SubSeq(mem, 1, wr) = Decoding(url)[rd]
        /\ \A i \in wr + 1 .. Len(mem) : mem[i] = (url \o stale)[i]
    BY <1>1, <1>4 DEF MeansInv, PathOK
  <2> QED
    BY <2>1, <2>2, <2>3
<1>5. PathOK'
  BY <1>1 DEF PathOK
<1>6. ASSUME Valid(url) PROVE Kept'
  <2>1. SubSeq(mem', 1, slen') = Decoded(PathPart(url'))
    BY <1>1, <1>4, <1>6
  <2>2. (rd' <= slen' => wr' = rd') /\ (slen' <= rd' => slen' <= wr')
    BY <1>1
  <2>3. \A i \in rd' + 1 .. Len(mem') : slen' < i => mem'[i] = (url' \o stale')[i]
    <3>1. ASSUME NEW i \in 0 + 1 .. Len(mem), wr < i PROVE mem[i] = (url \o stale)[i]
      <4>1. i \in wr + 1 .. Len(mem)
        BY <1>2, <3>1
      <4> QED
        BY <1>4, <1>6, <4>1
    <3> QED
      BY <1>1, <3>1
  <2>4. mem'[rd' + len' + 1] = 0
    <3>1. 0 + strlen + 1 = strlen + 1
      BY <1>3
    <3> QED
      BY <1>1, <1>3, <3>1
  <2> QED
    BY <1>1, <2>1, <2>2, <2>3, <2>4 DEF Kept
<1>7. SecondOK'
  BY <1>1, <1>2, <1>4, <1>6 DEF SecondOK
<1> QED
  BY <1>5, <1>7 DEF MeansInv

\* A path without "%" has none in the buffer either.
LEMMA NoEscapeInPath ==
  ASSUME UrlInv, Kept, Single(url), slen <= Len(mem), NEW i \in 1 .. slen
  PROVE  mem[i] # Percent
<1>1. mem \in Seq(Bytes) /\ slen \in Nat /\ Len(mem) \in Nat
  BY Sizes
<1>2. PICK f : f = SubSeq(mem, 1, slen)
  OBVIOUS
<1>3. DOMAIN f = 1 .. slen /\ f[i] = mem[i]
  BY <1>1, <1>2
<1>4. f = Decoded(PathPart(url))
  BY <1>2 DEF Kept
<1>5. Percent \notin Range(f)
  BY <1>4 DEF Single
<1> QED
  BY <1>3, <1>5 DEF Range

\* What stands in front of a byte that is written stays.
LEMMA FrontStays ==
  ASSUME UrlInv, wr < Len(mem), NEW b \in Bytes, NEW n \in Nat, n <= Len(mem),
         wr < n => mem[wr + 1] = b
  PROVE  SubSeq(Written(b), 1, n) = SubSeq(mem, 1, n)
<1>1. mem \in Seq(Bytes) /\ wr \in Nat /\ Len(mem) \in Nat /\ wr + 1 \in 1 .. Len(mem)
  BY Sizes
<1>2. PICK m \in Seq(Bytes) : m = Written(b)
  BY <1>1, WrittenIs
<1>3. Len(m) = Len(mem) /\ m[wr + 1] = b /\ \A i \in 1 .. Len(mem) : i # wr + 1 => m[i] = mem[i]
  BY <1>1, <1>2, WrittenIs
<1>4. PICK f, g : f = SubSeq(mem, 1, n) /\ g = SubSeq(m, 1, n)
  OBVIOUS
<1>5. /\ f \in Seq(Bytes) /\ Len(f) = n /\ \A i \in 1 .. n : f[i] = mem[i]
      /\ g \in Seq(Bytes) /\ Len(g) = n /\ \A i \in 1 .. n : g[i] = m[i]
  BY <1>1, <1>3, <1>4
<1>6. ASSUME NEW i \in 1 .. n PROVE f[i] = g[i]
  <2>1. i \in 1 .. Len(mem) /\ (i = wr + 1 => wr < n)
    BY <1>1
  <2> QED
    BY <1>3, <1>5, <2>1
<1>7. f = g
  BY <1>5, <1>6, SeqEqual
<1> QED
  BY <1>2, <1>4, <1>7

\* What a step of the second pass must show: inside of the path it writes what
\* it read.
LEMMA DecodeTakes ==
  ASSUME UrlInv, MeansInv, phase = "decode", NEW n \in Nat \ {0}, n <= len,
         NEW b \in Bytes, mem' = Written(b), Take(n),
         Valid(url) /\ Single(url) /\ rd < slen => n = 1 /\ b = mem[rd + 1]
  PROVE  MeansInv'
<1>1. /\ rd' = rd + n /\ wr' = wr + 1 /\ len' = len - n /\ phase' = "decode" /\ slen' = slen
      /\ url' = url /\ stale' = stale /\ query' = query
  BY DEF Take
<1>2. /\ Len(mem) \in Nat /\ rd \in Nat /\ wr \in Nat /\ len \in Nat /\ slen \in Nat
      /\ wr <= rd /\ rd + len < Len(mem)
  BY Sizes
<1>3. mem \in Seq(Bytes) /\ wr + 1 \in 1 .. Len(mem) /\ wr < Len(mem)
  <2>1. mem \in Seq(Bytes)
    BY Sizes
  <2> QED
    BY <1>2, <2>1
<1>4. /\ Len(mem') = Len(mem) /\ mem'[wr + 1] = b
      /\ \A i \in 1 .. Len(mem) : i # wr + 1 => mem'[i] = mem[i]
  BY <1>3, WrittenIs
<1>5. PathOK'
  BY <1>1 DEF PathOK
<1>6. Valid(url) => query = QueryPart(url) /\ slen <= Len(mem) /\ (Single(url) => Kept)
  BY DEF MeansInv, SecondOK
<1>7. ASSUME Valid(url), Single(url) PROVE Kept'
  <2>1. Kept /\ slen <= Len(mem)
    BY <1>6, <1>7
  <2>2. /\ SubSeq(mem, 1, slen) = Decoded(PathPart(url))
        /\ rd <= slen => wr = rd
        /\ slen <= rd => slen <= wr
        /\ \A i \in rd + 1 .. Len(mem) : slen < i => mem[i] = (url \o stale)[i]
        /\ rd + len < slen => mem[rd + len + 1] = 0
    BY <2>1 DEF Kept
  <2>3. rd < slen => n = 1 /\ b = mem[rd + 1] /\ wr = rd
    BY <1>2, <1>7, <2>2
  <2>4. wr < slen => mem[wr + 1] = b
    BY <1>2, <2>2, <2>3
  <2>5. SubSeq(mem', 1, slen) = SubSeq(mem, 1, slen)
    BY <1>2, <1>3, <2>1, <2>4, FrontStays
  <2>6. (rd + n <= slen => wr + 1 = rd + n) /\ (slen <= rd + n => slen <= wr + 1)
    BY <1>2, <2>2, <2>3
  <2>7. ASSUME NEW i \in rd + n + 1 .. Len(mem), slen < i PROVE mem'[i] = (url \o stale)[i]
    <3>1. i \in rd + 1 .. Len(mem) /\ i \in 1 .. Len(mem) /\ i # wr + 1
      BY <1>2
    <3> QED
      BY <1>4, <2>2, <2>7, <3>1
  <2>8. (rd + n) + (len - n) = rd + len
    BY <1>2
  <2>9. rd + len < slen => mem'[rd + len + 1] = 0
    <3>1. rd + len + 1 \in 1 .. Len(mem) /\ rd + len + 1 # wr + 1
      BY <1>2
    <3> QED
      BY <1>4, <2>2, <3>1
  <2>10. /\ rd' <= slen' => wr' = rd'
         /\ slen' <= rd' => slen' <= wr'
    BY <1>1, <2>6
  <2>11. \A i \in rd' + 1 .. Len(mem') : slen' < i => mem'[i] = (url' \o stale')[i]
    BY <1>1, <1>4, <2>7
  <2>12. rd' + len' < slen' => mem'[rd' + len' + 1] = 0
    BY <1>1, <2>8, <2>9
  <2>13. SubSeq(mem', 1, slen') = Decoded(PathPart(url'))
    BY <1>1, <2>2, <2>5
  <2> QED
    BY <1>1, <2>10, <2>11, <2>12, <2>13 DEF Kept
<1>8. SecondOK'
  BY <1>1, <1>4, <1>6, <1>7 DEF SecondOK
<1> QED
  BY <1>5, <1>8 DEF MeansInv

LEMMA DecodeEscapeMeans ==
  ASSUME UrlInv, MeansInv, DecodeEscape
  PROVE  MeansInv'
<1>1. /\ phase = "decode" /\ len > 2 /\ c = Percent /\ Take(3)
      /\ mem' = Written(Byte(mem[rd + 2], mem[rd + 3]))
  BY DEF DecodeEscape, Escape, Written
<1>2. rd \in Nat /\ len \in Nat /\ 3 <= len /\ slen \in Nat
  BY <1>1, Sizes
<1>3. mem[rd + 2] \in Bytes /\ mem[rd + 3] \in Bytes
  BY <1>1, <1>2, BytesRead
<1>4. PICK b \in Bytes : b = Byte(mem[rd + 2], mem[rd + 3])
  BY <1>3, EscapedByte
<1>5. ~(Valid(url) /\ Single(url) /\ rd < slen)
  <2> SUFFICES ASSUME Valid(url), Single(url), rd < slen PROVE FALSE
    OBVIOUS
  <2>1. Kept /\ slen <= Len(mem)
    BY <1>1 DEF MeansInv, SecondOK
  <2>2. rd + 1 \in 1 .. slen
    BY <1>2
  <2> QED
    BY <1>1, <2>1, <2>2, NoEscapeInPath DEF c
<1> QED
  BY <1>1, <1>2, <1>4, <1>5, DecodeTakes

LEMMA DecodeByteMeans ==
  ASSUME UrlInv, MeansInv, DecodeByte
  PROVE  MeansInv'
<1>1. phase = "decode" /\ len > 0 /\ Take(1) /\ mem' = Written(c)
  BY DEF DecodeByte, Written
<1>2. len \in Nat /\ 1 <= len
  BY <1>1, Sizes
<1>3. c \in Bytes
  BY <1>1, <1>2, BytesRead DEF c
<1>4. c = mem[rd + 1]
  BY DEF c
<1> QED
  BY <1>1, <1>2, <1>3, <1>4, DecodeTakes

\* A "%" that is refused lies behind the URL.
LEMMA DecodeRefusesMeans ==
  ASSUME UrlInv, MeansInv, DecodeRefuses
  PROVE  MeansInv'
<1>1. /\ phase = "decode" /\ len > 2 /\ c = Percent
      /\ ~(isxdigit(mem[rd + 2]) /\ isxdigit(mem[rd + 3]))
      /\ phase' = "bad" /\ UNCHANGED <<mem, rd, wr, len, slen, query, path, url, stale>>
  BY DEF DecodeRefuses, Escape
<1>2. /\ Len(mem) \in Nat /\ rd \in Nat /\ len \in Nat /\ slen \in Nat
      /\ Len(url) \in Nat /\ rd + len < Len(mem) /\ 2 < len
  BY <1>1, Sizes
<1>3. PathOK'
  BY <1>1 DEF PathOK
<1>4. Valid(url) => query = QueryPart(url) /\ slen <= Len(mem) /\ (Single(url) => Kept)
  BY <1>1 DEF MeansInv, SecondOK
<1>5. ASSUME Valid(url), Single(url) PROVE Kept'
  <2>1. Kept /\ slen <= Len(mem)
    BY <1>4, <1>5
  <2>2. slen <= rd
    <3> SUFFICES ASSUME rd < slen PROVE FALSE
      BY <1>2
    <3>1. rd + 1 \in 1 .. slen
      BY <1>2
    <3> QED
      BY <1>1, <1>5, <2>1, <3>1, NoEscapeInPath DEF c
  <2>3. \A i \in rd + 1 .. Len(mem) : mem[i] = (url \o stale)[i]
    <3>1. \A i \in rd + 1 .. Len(mem) : slen < i => mem[i] = (url \o stale)[i]
      BY <1>1, <2>1 DEF Kept
    <3>2. \A i \in rd + 1 .. Len(mem) : slen < i
      BY <1>2, <2>2
    <3> QED
      BY <3>1, <3>2
  <2>4. /\ rd + 1 \in rd + 1 .. Len(mem) /\ rd + 2 \in rd + 1 .. Len(mem)
        /\ rd + 3 \in rd + 1 .. Len(mem)
    BY <1>2
  <2>5. Percent \in Range(stale)
    <3>1. CASE rd + 1 \in Len(url) + 1 .. Len(mem)
      BY <1>1, <2>3, <2>4, <3>1, Received DEF c
    <3>2. CASE rd + 1 \in 1 .. Len(url)
      <4>1. url[rd + 1] = Percent
        BY <1>1, <2>3, <2>4, <3>2, Received DEF c
      <4>2. PICK i \in 1 .. Len(url) : i = rd + 1 /\ i + 1 = rd + 2 /\ i + 2 = rd + 3
        BY <1>2, <3>2
      <4>3. i + 2 <= Len(url) /\ url[i + 1] \in HexDigits /\ url[i + 2] \in HexDigits
        BY <1>5, <4>1, <4>2, EscapeWhole
      <4>4. rd + 2 \in 1 .. Len(url) /\ rd + 3 \in 1 .. Len(url)
        BY <1>2, <4>2, <4>3
      <4>5. mem[rd + 2] \in HexDigits /\ mem[rd + 3] \in HexDigits
        BY <2>3, <2>4, <4>2, <4>3, <4>4, Received
      <4>6. isxdigit(mem[rd + 2]) /\ isxdigit(mem[rd + 3])
        BY <4>5, DigitIs
      <4> QED
        BY <1>1, <4>6
    <3> QED
      BY <1>2, <3>1, <3>2
  <2>6. SubSeq(mem', 1, slen') = Decoded(PathPart(url'))
    BY <1>1, <2>1 DEF Kept
  <2> QED
    BY <1>1, <2>5, <2>6 DEF Kept
<1>6. SecondOK'
  BY <1>1, <1>4, <1>5 DEF SecondOK
<1> QED
  BY <1>3, <1>6 DEF MeansInv

\* The NUL is written behind the path, or over a NUL of it.
LEMMA DecodeEndMeans ==
  ASSUME UrlInv, MeansInv, DecodeEnd
  PROVE  MeansInv'
<1>1. /\ phase = "decode" /\ len = 0 /\ mem' = Written(0) /\ path' = SubSeq(mem', 1, slen)
      /\ phase' = "done" /\ UNCHANGED <<rd, wr, len, slen, query, url, stale>>
  BY DEF DecodeEnd, Written
<1>2. /\ Len(mem) \in Nat /\ rd \in Nat /\ wr \in Nat /\ slen \in Nat
      /\ wr <= rd /\ rd < Len(mem) /\ mem \in Seq(Bytes)
  BY <1>1, Sizes
<1>3. 0 \in Bytes /\ wr < Len(mem) /\ wr + 1 \in 1 .. Len(mem)
  BY <1>2 DEF Bytes
<1>4. PathOK'
  BY <1>1 DEF PathOK
<1>5. Valid(url) => query = QueryPart(url) /\ slen <= Len(mem) /\ (Single(url) => Kept)
  BY <1>1 DEF MeansInv, SecondOK
<1>6. ASSUME Valid(url), Single(url) PROVE Kept'
  <2>1. /\ Kept /\ slen <= Len(mem)
        /\ SubSeq(mem, 1, slen) = Decoded(PathPart(url))
        /\ rd <= slen => wr = rd
        /\ slen <= rd => slen <= wr
        /\ rd < slen => mem[rd + 1] = 0
    <3>1. Kept /\ slen <= Len(mem)
      BY <1>5, <1>6
    <3>2. rd + len = rd
      BY <1>1, <1>2
    <3> QED
      BY <1>1, <3>1, <3>2 DEF Kept
  <2>2. wr < slen => mem[wr + 1] = 0
    BY <1>2, <2>1
  <2>3. SubSeq(mem', 1, slen) = SubSeq(mem, 1, slen)
    BY <1>1, <1>2, <1>3, <2>1, <2>2, FrontStays
  <2>4. SubSeq(mem', 1, slen') = Decoded(PathPart(url')) /\ path' = Decoded(PathPart(url'))
    BY <1>1, <2>1, <2>3
  <2> QED
    BY <1>1, <2>4 DEF Kept
<1>7. Len(mem') = Len(mem)
  BY <1>1, <1>2, <1>3, WrittenIs
<1>8. SecondOK'
  BY <1>1, <1>5, <1>6, <1>7 DEF SecondOK
<1> QED
  BY <1>4, <1>8 DEF MeansInv

\* MeansInv is an invariant: the first pass writes what the escapes stand for over
\* them, and the second one leaves a path without "%" as it is.
THEOREM MeansInvariance == Spec => []MeansInv
<1>1. Init => MeansInv
  <2> SUFFICES ASSUME Init PROVE MeansInv
    OBVIOUS
  <2>1. phase = "path" /\ rd = 0 /\ wr = 0 /\ query = <<>> /\ mem = url \o stale
        /\ url \in Seq(Bytes) /\ stale \in Seq(Bytes)
    BY BytesAssumption DEF Init
  <2>2. SubSeq(mem, 1, wr) = Decoding(url)[rd]
    <3>1. SubSeq(mem, 1, 0) = <<>>
      BY SubSeqEmpty
    <3> QED
      BY <2>1, <3>1, DecodingIs
  <2> QED
    BY <2>1, <2>2 DEF MeansInv, PathOK, SecondOK
<1>2. UrlInv /\ MeansInv /\ [Next]_vars => MeansInv'
  <2> SUFFICES ASSUME UrlInv, MeansInv, [Next]_vars PROVE MeansInv'
    OBVIOUS
  <2>1. CASE PathEscape
    BY <2>1, PathEscapeMeans
  <2>2. CASE PathByte
    BY <2>2, PathByteMeans
  <2>3. CASE PathEnd
    BY <2>3, PathEndMeans
  <2>4. CASE DecodeEscape
    BY <2>4, DecodeEscapeMeans
  <2>5. CASE DecodeRefuses
    BY <2>5, DecodeRefusesMeans
  <2>6. CASE DecodeByte
    BY <2>6, DecodeByteMeans
  <2>7. CASE DecodeEnd
    BY <2>7, DecodeEndMeans
  <2>8. CASE UNCHANGED vars
    BY <2>8 DEF MeansInv, PathOK, SecondOK, Kept
  <2> QED
    BY <2>1, <2>2, <2>3, <2>4, <2>5, <2>6, <2>7, <2>8 DEF Next
<1> QED
  BY <1>1, <1>2, UrlInvariance, PTL DEF Spec

\* The application gets the path and the query that the URL means, for a URL of any
\* length and any digits; only a wrong escape, in it, escaped in it or in the memory
\* behind it, makes the server refuse one.
THEOREM UrlIsExact == Spec => []UrlExact
<1>1. MeansInv => UrlExact
  BY DEF MeansInv, SecondOK, Kept, UrlExact
<1> QED
  BY <1>1, MeansInvariance, PTL
=============================================================================
