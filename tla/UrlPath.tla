------------------------------ MODULE UrlPath ------------------------------
(***************************************************************************)
(* bossan_ext.c: set_path, set_query and urldecode, which cut a URL and    *)
(* decode it in the buffer that it was read into.  The buffer is memory    *)
(* from malloc: behind the URL there is whatever was there before, and no  *)
(* NUL need end the URL.  A byte is its code.                              *)
(***************************************************************************)
EXTENDS Integers, SequencesExt

CONSTANTS
  Urls,      \* the URLs received
  Stale      \* what the memory behind a URL holds, up to a first NUL

Bytes == 0 .. 255
ASSUME BytesAssumption == Urls \subseteq Seq(Bytes) /\ Stale \subseteq Seq(Bytes)
ASSUME StaleAssumption == \A s \in Stale : s # <<>> /\ Last(s) = 0

VARIABLES
  mem,          \* the buffer
  rd, wr, len,  \* the bytes read and written, and len of the C functions
  phase,        \* "path" in set_path, "decode" in urldecode, "done" or "bad"
  slen, query, path,
  url, stale    \* history

vars == <<mem, rd, wr, len, phase, slen, query, path, url, stale>>

Percent == 37
Question == 63
Hash == 35
IsUpper(c) == c \in 65 .. 90
isxdigit(c) == c \in 48 .. 57 \/ c \in 65 .. 70 \/ c \in 97 .. 102
toupper(c) == IF c \in 97 .. 122 THEN c - 32 ELSE c
\* Seeded fault: the letters count from zero.
FaultyHex(c) == LET i == toupper(c) - 48 IN IF i > 9 THEN i - 65 + 48 ELSE i
hex2int(c) == LET i == toupper(c) - 48 IN IF i > 9 THEN i - 65 + 57 + 1 ELSE i
\* The byte that two digits make, cut to a char
Byte(c1, c2) == (hex2int(c1) * 16 + hex2int(c2)) % 256

Init ==
  /\ url \in Urls /\ stale \in Stale
  /\ mem = url \o stale
  /\ rd = 0 /\ wr = 0 /\ len = Len(url)
  /\ phase = "path" /\ slen = 0 /\ query = <<>> /\ path = <<>>

c == mem[rd + 1]
Escape == c = Percent /\ len > 2

\* Seeded fault: an escape in the URL counts as one byte.
FaultyTake(n) ==
  /\ rd' = rd + n /\ wr' = wr + 1 /\ len' = len - 1
  /\ UNCHANGED <<phase, slen, query, path, url, stale>>
\* n bytes of the buffer became one.
Take(n) ==
  /\ rd' = rd + n /\ wr' = wr + 1 /\ len' = len - n
  /\ UNCHANGED <<phase, slen, query, path, url, stale>>

\* set_path does not ask whether the digits are digits.
PathEscape ==
  /\ phase = "path" /\ len > 0 /\ Escape
  /\ mem' = [mem EXCEPT ![wr + 1] = Byte(mem[rd + 2], mem[rd + 3])]
  /\ Take(3)
PathByte ==
  /\ phase = "path" /\ len > 0 /\ ~Escape /\ c \notin {Question, Hash}
  /\ mem' = [mem EXCEPT ![wr + 1] = c]
  /\ Take(1)

\* Up to the first NUL
strlen == Min({i \in DOMAIN mem : mem[i] = 0}) - 1
urldecode ==
  /\ slen' = wr /\ rd' = 0 /\ wr' = 0 /\ len' = strlen
  /\ phase' = "decode"
  /\ UNCHANGED <<mem, path, url, stale>>

\* set_query looks at n bytes from first on, one more than are left of the URL:
\* it counts the "#" that ends the query, or the byte behind the URL.
set_query(first, n) ==
  LET hashes == {i \in first .. first + n - 1 : mem[i] = Hash}
      l == IF hashes = {} THEN n ELSE Min(hashes) - first + 1
  IN SubSeq(mem, first, first + l - 2)

PathEnd ==
  /\ phase = "path"
  /\ \/ /\ len > 0 /\ c = Question
        /\ query' = set_query(rd + 2, len)
     \/ /\ len > 0 /\ c = Hash
        /\ UNCHANGED query
     \/ len = 0 /\ UNCHANGED query
  /\ urldecode

DecodeEscape ==
  /\ phase = "decode" /\ len > 0 /\ Escape
  /\ isxdigit(mem[rd + 2]) /\ isxdigit(mem[rd + 3])
  /\ mem' = [mem EXCEPT ![wr + 1] = Byte(mem[rd + 2], mem[rd + 3])]
  /\ Take(3)
DecodeRefuses ==
  /\ phase = "decode" /\ len > 0 /\ Escape
  /\ ~(isxdigit(mem[rd + 2]) /\ isxdigit(mem[rd + 3]))
  /\ phase' = "bad"
  /\ UNCHANGED <<mem, rd, wr, len, slen, query, path, url, stale>>
DecodeByte ==
  /\ phase = "decode" /\ len > 0 /\ ~Escape
  /\ mem' = [mem EXCEPT ![wr + 1] = c]
  /\ Take(1)
\* The length is the one of the first pass.
DecodeEnd ==
  /\ phase = "decode" /\ len = 0
  /\ mem' = [mem EXCEPT ![wr + 1] = 0]
  /\ path' = SubSeq(mem', 1, slen)
  /\ phase' = "done"
  /\ UNCHANGED <<rd, wr, len, slen, query, url, stale>>

Next ==
  \/ PathEscape \/ PathByte \/ PathEnd
  \/ DecodeEscape \/ DecodeRefuses \/ DecodeByte \/ DecodeEnd

Spec == Init /\ [][Next]_vars

(***************************************************************************)
(* What a URL means                                                        *)
(***************************************************************************)
HexDigits == 48 .. 57 \cup 65 .. 70 \cup 97 .. 102
Valid(u) ==
  \A i \in DOMAIN u : u[i] = Percent =>
    i + 2 <= Len(u) /\ {u[i + 1], u[i + 2]} \subseteq HexDigits

\* From the first byte of marks on, or nothing
From(u, marks) ==
  LET at == {i \in DOMAIN u : u[i] \in marks} IN
  IF at = {} THEN <<>> ELSE SubSeq(u, Min(at), Len(u))
Before(u, marks) == SubSeq(u, 1, Len(u) - Len(From(u, marks)))
PathPart(u) == Before(u, {Question, Hash})
QueryPart(u) ==
  LET rest == From(u, {Question, Hash}) IN
  IF rest = <<>> \/ rest[1] = Hash THEN <<>> ELSE Before(Tail(rest), {Hash})

Digit(d) == CHOOSE v \in 0 .. 15 : d \in IF v < 10 THEN {48 + v} ELSE {55 + v, 87 + v}
\* What the first i bytes stand for, if s is what those before stand for: one
\* character for each escape, when it ends, and for each other byte
Longer(s, u, i) ==
  IF u[i] = Percent \/ (i > 1 /\ u[i - 1] = Percent) THEN s
  ELSE Append(s, IF i > 2 /\ u[i - 2] = Percent THEN 16 * Digit(u[i - 1]) + Digit(u[i])
                 ELSE u[i])
Decoding(u) ==
  LET d[i \in 0 .. Len(u)] == IF i = 0 THEN <<>> ELSE Longer(d[i - 1], u, i) IN d
Decoded(u) == Decoding(u)[Len(u)]

\* A path that one decoding finishes
Single(u) == Percent \notin Range(Decoded(PathPart(u)))

(***************************************************************************)
(* Properties                                                              *)
(***************************************************************************)

\* Decoding in place: no byte is overwritten before it was read, none is read
\* outside of the memory, and the first pass stays inside of the URL.
InPlace ==
  /\ wr <= rd /\ rd <= Len(mem)
  /\ phase = "path" => rd + len = Len(url)

\* The application gets the query between "?" and "#", undecoded, and the
\* decoded path, whatever lay behind the URL; a URL is refused only if an escape
\* in it is wrong.  Not meant: a path that has an escaped "%", which is decoded
\* twice, and one that is refused for stale bytes behind it that look like a
\* wrong escape.
UrlExact ==
  /\ phase = "done" /\ Valid(url) =>
       /\ query = QueryPart(url)
       /\ Single(url) => path = Decoded(PathPart(url))
  /\ phase = "bad" => ~Valid(url) \/ ~Single(url) \/ Percent \in Range(stale)

(***************************************************************************)
(* The inductive invariant of InPlace: UrlInv                              *)
(***************************************************************************)

TypeOK ==
  /\ mem \in Seq(Bytes) /\ url \in Urls /\ stale \in Stale
  /\ rd \in Nat /\ wr \in Nat /\ len \in Nat /\ slen \in Nat
  /\ phase \in {"path", "decode", "done", "bad"}

\* The memory ends with a NUL, whatever was written to it.
EndsWithNul == Len(mem) = Len(url) + Len(stale) /\ mem[Len(mem)] = 0

\* What the first pass has still to read is as it was received, and the second
\* one, which goes by a NUL, stays in front of the last.
UnreadOK ==
  /\ phase = "path" =>
       /\ rd + len = Len(url)
       /\ \A i \in rd + 1 .. Len(mem) : mem[i] = (url \o stale)[i]
  /\ phase = "decode" => rd + len < Len(mem)

UrlInv == TypeOK /\ EndsWithNul /\ UnreadOK /\ wr <= rd /\ rd <= Len(mem)

(***************************************************************************)
(* The inductive invariant of UrlExact: UrlInv and MeansInv                *)
(***************************************************************************)

\* The first pass has read whole escapes and no mark, and has written what they
\* stand for over the first of them.
PathOK ==
  phase = "path" /\ Valid(url) =>
    /\ query = <<>>
    /\ \A i \in 1 .. rd : url[i] \notin {Question, Hash} /\ (url[i] = Percent => i + 2 <= rd)
    /\ SubSeq(mem, 1, wr) = Decoding(url)[rd]
    /\ \A i \in wr + 1 .. Len(mem) : mem[i] = (url \o stale)[i]

\* The second pass leaves a path without "%" as it is, and what it has not read
\* behind the path is as it was received.  A NUL may be a part of the path.
Kept ==
  /\ SubSeq(mem, 1, slen) = Decoded(PathPart(url))
  /\ phase = "decode" =>
       /\ rd <= slen => wr = rd
       /\ slen <= rd => slen <= wr
       /\ \A i \in rd + 1 .. Len(mem) : slen < i => mem[i] = (url \o stale)[i]
       /\ rd + len < slen => mem[rd + len + 1] = 0
  /\ phase = "done" => path = Decoded(PathPart(url))
  /\ phase = "bad" => Percent \in Range(stale)
SecondOK ==
  phase # "path" /\ Valid(url) =>
    /\ query = QueryPart(url) /\ slen <= Len(mem)
    /\ Single(url) => Kept

MeansInv == PathOK /\ SecondOK
=============================================================================
