---------------------------- MODULE PicoevProofs ----------------------------
(***************************************************************************)
(* Proofs about Picoev, for any descriptors, word and wheel size: bits and *)
(* timers agree, the asserts hold, no timer is early or passed, and the    *)
(* wheel implements Timers.                                                *)
(***************************************************************************)
EXTENDS Picoev, TLAPS

\* What the sweep has not touched: the slots S of a wheel agree.
Agree(idx, vc, hint, S) ==
  \A s \in S : vc[s] = {f \in Fds : idx[f] = s} /\ hint[s] = WordsOf(vc[s])

WheelType(idx, vc, hint) ==
  /\ idx \in [Fds -> Slots \cup {TIMEOUT_IDX_UNUSED}]
  /\ vc \in [Slots -> SUBSET Fds]
  /\ hint \in [Slots -> SUBSET WordsOf(Fds)]

\* The words of a set, of a set with one more and of a set without one.
LEMMA Words ==
  ASSUME NEW A \in SUBSET Fds, NEW f \in Fds
  PROVE  /\ WordsOf(A \cup {f}) = WordsOf(A) \cup {Word(f)}
         /\ WordsOf(A \cup {f}) \subseteq WordsOf(Fds)
         /\ WordsOf(A \ {f}) \subseteq WordsOf(A)
         /\ Word(f) \notin WordsOf(A \ {f}) /\ f \in A => WordsOf(A \ {f}) = WordsOf(A) \ {Word(f)}
         /\ Word(f) \in WordsOf(A \ {f}) => WordsOf(A \ {f}) = WordsOf(A)
<1> HIDE DEF Word
<1>1. WordsOf(A \cup {f}) = WordsOf(A) \cup {Word(f)}
  BY DEF WordsOf
<1>2. WordsOf(A \cup {f}) \subseteq WordsOf(Fds)
  BY DEF WordsOf
<1>3. WordsOf(A \ {f}) \subseteq WordsOf(A)
  BY DEF WordsOf
<1>4. ASSUME Word(f) \notin WordsOf(A \ {f}), f \in A
      PROVE  WordsOf(A \ {f}) = WordsOf(A) \ {Word(f)}
  BY <1>4 DEF WordsOf
<1>5. ASSUME Word(f) \in WordsOf(A \ {f}) PROVE WordsOf(A \ {f}) = WordsOf(A)
  BY <1>5 DEF WordsOf
<1> QED
  BY <1>1, <1>2, <1>3, <1>4, <1>5

\* Slots and their times: a distance less than a turn is found again.
LEMMA SlotAt ==
  ASSUME TypeOK, NEW d \in Slots
  PROVE  /\ (base_idx + d) % VecSize \in Slots
         /\ SlotTime((base_idx + d) % VecSize) = base_time + d
         /\ d # 0 => (base_idx + d) % VecSize # base_idx
<1>1. /\ VecSize \in Nat \ {0} /\ base_idx \in 0 .. VecSize - 1 /\ d \in 0 .. VecSize - 1
      /\ base_time \in Nat
  BY SizeAssumption DEF TypeOK, Slots
<1>2. CASE base_idx + d < VecSize
  <2>1. (base_idx + d) % VecSize = base_idx + d
    BY <1>1, <1>2
  <2> QED
    BY <1>1, <1>2, <2>1 DEF SlotTime, Slots
<1>3. CASE base_idx + d >= VecSize
  <2>1. (base_idx + d) % VecSize = base_idx + d - VecSize
    BY <1>1, <1>3
  <2> QED
    BY <1>1, <1>3, <2>1 DEF SlotTime, Slots
<1> QED
  BY <1>1, <1>2, <1>3

\* Every slot is swept within one turn, and only base_idx at base_time.
LEMMA SlotTimes ==
  ASSUME TypeOK, NEW s \in Slots
  PROVE  /\ SlotTime(s) \in base_time .. base_time + VecSize - 1
         /\ SlotTime(s) = base_time <=> s = base_idx
  BY SizeAssumption DEF TypeOK, Slots, SlotTime

\* The next slot is the new base, and the other slots keep their time.
LEMMA NextSlot ==
  ASSUME TypeOK, base_idx' = (base_idx + 1) % VecSize, base_time' = base_time + 1
  PROVE  /\ base_idx' \in Slots
         /\ \A s \in Slots \ {base_idx} : SlotTime(s)' = SlotTime(s)
<1>1. /\ VecSize \in Nat \ {0} /\ base_idx \in 0 .. VecSize - 1 /\ base_time \in Nat
  BY SizeAssumption DEF TypeOK, Slots
<1>2. CASE base_idx + 1 < VecSize
  <2>1. base_idx' = base_idx + 1
    BY <1>1, <1>2
  <2> QED
    BY <1>1, <1>2, <2>1 DEF SlotTime, Slots
<1>3. CASE base_idx + 1 >= VecSize
  <2>1. base_idx' = 0 /\ base_idx = VecSize - 1
    BY <1>1, <1>3
  <2> QED
    BY <1>1, <1>3, <2>1 DEF SlotTime, Slots
<1> QED
  BY <1>1, <1>2, <1>3

\* Clearing a timer of S keeps the slots of S in agreement, and the others
\* as they are.
LEMMA Clearing ==
  ASSUME TypeOK, NEW S \in SUBSET Slots, Agree(timeout_idx, vec, vec_of_vec, S),
         NEW f \in Fds, Armed(f) => timeout_idx[f] \in S
  PROVE  LET idx == [timeout_idx EXCEPT ![f] = TIMEOUT_IDX_UNUSED] IN
         /\ Agree(idx, ClearedVec(f), ClearedHint(f), S)
         /\ WheelType(idx, ClearedVec(f), ClearedHint(f))
         /\ \A s \in Slots \ S : ClearedVec(f)[s] = vec[s] /\ ClearedHint(f)[s] = vec_of_vec[s]
<1> DEFINE idx == [timeout_idx EXCEPT ![f] = TIMEOUT_IDX_UNUSED]
           t == timeout_idx[f]
<1>1. /\ timeout_idx \in [Fds -> Slots \cup {TIMEOUT_IDX_UNUSED}] /\ vec \in [Slots -> SUBSET Fds]
      /\ vec_of_vec \in [Slots -> SUBSET WordsOf(Fds)] /\ TIMEOUT_IDX_UNUSED \notin Slots
  BY SizeAssumption DEF TypeOK, Slots, TIMEOUT_IDX_UNUSED
<1>2. idx \in [Fds -> Slots \cup {TIMEOUT_IDX_UNUSED}]
  BY <1>1
<1>3. CASE ~Armed(f)
  <2>1. idx = timeout_idx /\ ClearedVec(f) = vec /\ ClearedHint(f) = vec_of_vec
    BY <1>1, <1>3 DEF Armed, ClearedVec, ClearedHint
  <2> HIDE DEF idx
  <2> QED
    BY <1>1, <2>1 DEF WheelType, idx
<1>4. CASE Armed(f)
  <2>1. t \in S /\ t \in Slots /\ t # TIMEOUT_IDX_UNUSED
    BY <1>1, <1>4 DEF Armed
  <2>2. ClearedVec(f) = [vec EXCEPT ![t] = vec[t] \ {f}]
    BY <1>4 DEF ClearedVec, Armed
  <2>3. f \in vec[t] /\ vec[t] \in SUBSET Fds /\ vec_of_vec[t] = WordsOf(vec[t])
    BY <1>1, <2>1 DEF Agree
  <2>4. ClearedVec(f)[t] = vec[t] \ {f} /\ \A s \in Slots \ {t} : ClearedVec(f)[s] = vec[s]
    BY <1>1, <2>1, <2>2
  <2>5. ClearedHint(f) \in [Slots -> SUBSET WordsOf(Fds)]
    BY <1>1, <2>1 DEF ClearedHint
  <2>6. /\ ClearedHint(f)[t] = WordsOf(vec[t] \ {f})
        /\ \A s \in Slots \ {t} : ClearedHint(f)[s] = vec_of_vec[s]
    <3>1. CASE Word(f) \notin WordsOf(vec[t] \ {f})
      <4>1. ClearedHint(f) = [vec_of_vec EXCEPT ![t] = vec_of_vec[t] \ {Word(f)}]
        BY <1>4, <2>4, <3>1 DEF ClearedHint, Armed
      <4>2. WordsOf(vec[t] \ {f}) = WordsOf(vec[t]) \ {Word(f)}
        BY <2>3, <3>1, Words
      <4> QED
        BY <1>1, <2>1, <2>3, <4>1, <4>2
    <3>2. CASE Word(f) \in WordsOf(vec[t] \ {f})
      <4>1. ClearedHint(f) = vec_of_vec
        BY <1>4, <2>4, <3>2 DEF ClearedHint, Armed
      <4>2. WordsOf(vec[t] \ {f}) = WordsOf(vec[t])
        BY <2>3, <3>2, Words
      <4> QED
        BY <2>3, <4>1, <4>2
    <3> QED
      BY <3>1, <3>2
  <2>7. ASSUME NEW s \in S
        PROVE  ClearedVec(f)[s] = {g \in Fds : idx[g] = s} /\ ClearedHint(f)[s] = WordsOf(ClearedVec(f)[s])
    <3>1. vec[s] = {g \in Fds : timeout_idx[g] = s} /\ vec_of_vec[s] = WordsOf(vec[s]) /\ s \in Slots
      BY <2>7 DEF Agree
    <3>2. \A g \in Fds : idx[g] = s <=> timeout_idx[g] = s /\ g # f
      BY <1>1, <3>1
    <3> HIDE DEF idx
    <3>3. CASE s = t
      <4>1. ClearedVec(f)[s] = vec[s] \ {f} /\ t \in Slots
        BY <2>4, <2>6, <3>1, <3>3
      <4> QED
        BY SMTT(30), <2>4, <2>6, <3>1, <3>2, <3>3, <4>1
    <3>4. CASE s # t
      <4>1. \A g \in Fds : idx[g] = s <=> timeout_idx[g] = s
        BY <3>2, <3>4
      <4> QED
        BY <2>4, <2>6, <3>1, <3>4, <4>1
    <3> QED
      BY <3>3, <3>4
  <2>8. ClearedVec(f) \in [Slots -> SUBSET Fds]
    BY <1>1, <2>1, <2>2
  <2> HIDE DEF idx
  <2> QED
    BY <1>2, <2>1, <2>4, <2>5, <2>6, <2>7, <2>8 DEF Agree, WheelType, idx
<1> QED
  BY <1>3, <1>4

\* Setting a timer that was cleared, to a slot of S.
LEMMA Setting ==
  ASSUME NEW idx, NEW vc, NEW hint, WheelType(idx, vc, hint), NEW S \in SUBSET Slots,
         Agree(idx, vc, hint, S), NEW f \in Fds, idx[f] = TIMEOUT_IDX_UNUSED, NEW s \in S
  PROVE  /\ Agree([idx EXCEPT ![f] = s], [vc EXCEPT ![s] = @ \cup {f}],
                  [hint EXCEPT ![s] = @ \cup {Word(f)}], S)
         /\ WheelType([idx EXCEPT ![f] = s], [vc EXCEPT ![s] = @ \cup {f}],
                      [hint EXCEPT ![s] = @ \cup {Word(f)}])
<1> DEFINE i2 == [idx EXCEPT ![f] = s]
           v2 == [vc EXCEPT ![s] = @ \cup {f}]
           h2 == [hint EXCEPT ![s] = @ \cup {Word(f)}]
<1>1. s \in Slots /\ s # TIMEOUT_IDX_UNUSED
  BY SizeAssumption DEF Slots, TIMEOUT_IDX_UNUSED
<1>2. /\ v2[s] = vc[s] \cup {f} /\ h2[s] = hint[s] \cup {Word(f)}
      /\ \A r \in Slots \ {s} : v2[r] = vc[r] /\ h2[r] = hint[r]
      /\ \A g \in Fds : i2[g] = IF g = f THEN s ELSE idx[g]
  BY <1>1 DEF WheelType
<1>3. WordsOf(vc[s] \cup {f}) = WordsOf(vc[s]) \cup {Word(f)} /\ Word(f) \in WordsOf(Fds)
  <2>1. vc[s] \in SUBSET Fds
    BY <1>1 DEF WheelType
  <2> QED
    BY <2>1, Words DEF WordsOf
<1>4. WheelType(i2, v2, h2)
  <2>1. i2 \in [Fds -> Slots \cup {TIMEOUT_IDX_UNUSED}]
    BY <1>1 DEF WheelType
  <2>2. v2 \in [Slots -> SUBSET Fds]
    BY <1>1 DEF WheelType
  <2>3. h2 \in [Slots -> SUBSET WordsOf(Fds)]
    BY <1>1, <1>3 DEF WheelType
  <2> QED
    BY <2>1, <2>2, <2>3 DEF WheelType
<1> HIDE DEF i2, v2, h2
<1>5. ASSUME NEW r \in S
      PROVE  v2[r] = {g \in Fds : i2[g] = r} /\ h2[r] = WordsOf(v2[r])
  <2>1. vc[r] = {g \in Fds : idx[g] = r} /\ hint[r] = WordsOf(vc[r]) /\ r \in Slots
    BY <1>5 DEF Agree
  <2>2. CASE r = s
    <3>1. v2[r] = {g \in Fds : i2[g] = r}
      BY <1>2, <1>3, <2>1, <2>2
    <3>2. h2[r] = WordsOf(v2[r])
      BY <1>2, <1>3, <2>1, <2>2
    <3> QED
      BY <3>1, <3>2
  <2>3. CASE r # s
    <3>1. r # TIMEOUT_IDX_UNUSED
      BY <2>1, SizeAssumption DEF Slots, TIMEOUT_IDX_UNUSED
    <3>2. \A g \in Fds : i2[g] = r <=> idx[g] = r
      BY <1>2, <2>3, <3>1
    <3>3. v2[r] = vc[r] /\ h2[r] = hint[r]
      BY <1>2, <2>1, <2>3
    <3> QED
      BY <2>1, <3>2, <3>3
  <2> QED
    BY <2>2, <2>3
<1> QED
  BY <1>4, <1>5 DEF Agree, i2, v2, h2

-----------------------------------------------------------------------------
\* The calls of picoev, for a slot set S that is in agreement.

\* picoev_set_timeout puts the timer into the slot of its time.
LEMMA SetTimeout ==
  ASSUME TypeOK, NEW S \in SUBSET Slots, Agree(timeout_idx, vec, vec_of_vec, S),
         NEW f \in Fds, Armed(f) => timeout_idx[f] \in S,
         NEW secs \in 1 .. MaxSecs, (base_idx + Delta(secs)) % VecSize \in S,
         picoev_set_timeout(f, secs)
  PROVE  /\ Agree(timeout_idx', vec', vec_of_vec', S)
         /\ WheelType(timeout_idx', vec', vec_of_vec')
         /\ timeout_idx' = [timeout_idx EXCEPT ![f] = (base_idx + Delta(secs)) % VecSize]
         /\ \A s \in Slots \ S : vec'[s] = vec[s] /\ vec_of_vec'[s] = vec_of_vec[s]
<1> DEFINE idx == [timeout_idx EXCEPT ![f] = TIMEOUT_IDX_UNUSED]
           s == (base_idx + Delta(secs)) % VecSize
<1>1. /\ Agree(idx, ClearedVec(f), ClearedHint(f), S)
      /\ WheelType(idx, ClearedVec(f), ClearedHint(f))
      /\ \A r \in Slots \ S : ClearedVec(f)[r] = vec[r] /\ ClearedHint(f)[r] = vec_of_vec[r]
  BY Clearing
<1>2. /\ idx[f] = TIMEOUT_IDX_UNUSED
      /\ timeout_idx' = [idx EXCEPT ![f] = s] /\ timeout_idx' = [timeout_idx EXCEPT ![f] = s]
  BY DEF TypeOK, picoev_set_timeout
<1>3. /\ vec' = [ClearedVec(f) EXCEPT ![s] = @ \cup {f}]
      /\ vec_of_vec' = [ClearedHint(f) EXCEPT ![s] = @ \cup {Word(f)}]
  BY DEF picoev_set_timeout
<1>4. s \in S
  OBVIOUS
<1> HIDE DEF idx, s
<1>5. Agree(timeout_idx', vec', vec_of_vec', S) /\ WheelType(timeout_idx', vec', vec_of_vec')
  <2>1. /\ Agree([idx EXCEPT ![f] = s], [ClearedVec(f) EXCEPT ![s] = @ \cup {f}],
                 [ClearedHint(f) EXCEPT ![s] = @ \cup {Word(f)}], S)
        /\ WheelType([idx EXCEPT ![f] = s], [ClearedVec(f) EXCEPT ![s] = @ \cup {f}],
                     [ClearedHint(f) EXCEPT ![s] = @ \cup {Word(f)}])
    <3> DEFINE vc == ClearedVec(f)
               hint == ClearedHint(f)
    <3>1. WheelType(idx, vc, hint) /\ Agree(idx, vc, hint, S) /\ idx[f] = TIMEOUT_IDX_UNUSED
      BY <1>1, <1>2
    <3> HIDE DEF vc, hint
    <3>2. /\ Agree([idx EXCEPT ![f] = s], [vc EXCEPT ![s] = @ \cup {f}],
                   [hint EXCEPT ![s] = @ \cup {Word(f)}], S)
          /\ WheelType([idx EXCEPT ![f] = s], [vc EXCEPT ![s] = @ \cup {f}],
                       [hint EXCEPT ![s] = @ \cup {Word(f)}])
      BY <1>4, <3>1, Setting
    <3> QED
      BY <3>2 DEF vc, hint
  <2> QED
    BY <1>2, <1>3, <2>1
<1>6. \A r \in Slots \ S : vec'[r] = vec[r] /\ vec_of_vec'[r] = vec_of_vec[r]
  BY <1>1, <1>3, <1>4 DEF WheelType
<1> QED
  BY <1>2, <1>5, <1>6 DEF s

\* The time of the slot that picoev_set_timeout chooses.
LEMMA DeltaSlot ==
  ASSUME TypeOK, NEW secs \in 1 .. MaxSecs
  PROVE  LET s == (base_idx + Delta(secs)) % VecSize
             delta == now + secs - base_time
         IN /\ Delta(secs) \in Slots /\ s \in Slots
            /\ SlotTime(s) = base_time + Delta(secs)
            /\ delta \in Int /\ now + secs \in Nat
            /\ Delta(secs) = IF delta \in Slots THEN delta ELSE VecSize - 1
            /\ base_time <= now - 1 => s # base_idx
<1> DEFINE delta == now + secs - base_time
<1>1. now \in Nat /\ secs \in Nat /\ secs >= 1 /\ base_time \in Nat /\ VecSize \in Nat /\ VecSize > 1
  BY SizeAssumption DEF TypeOK, Times
<1>2. delta \in Int /\ now + secs \in Nat
  BY <1>1
<1>3. Delta(secs) = IF delta \in Slots THEN delta ELSE VecSize - 1
  BY DEF Delta
<1>4. Delta(secs) \in Slots
  BY <1>1, <1>3 DEF Slots
<1>5. base_time <= now - 1 => Delta(secs) # 0
  BY <1>1, <1>3
<1> HIDE DEF delta
<1> QED
  BY <1>2, <1>3, <1>4, <1>5, SlotAt DEF delta

\* What a callback does to the timer of f.
Calls(f) ==
  \/ \E secs \in 1 .. MaxSecs : picoev_add(f, secs)
  \/ picoev_del(f)
  \/ /\ f \in registered
     /\ \E secs \in 1 .. MaxSecs : picoev_set_timeout(f, secs)
     /\ UNCHANGED registered

\* Calls for f disturb neither the other timers nor the slot being swept.
LEMMA CallKeeps ==
  ASSUME IInv, NEW S \in SUBSET Slots,
         S = Slots \/ (S = Slots \ {base_idx} /\ base_time <= now - 1),
         Agree(timeout_idx, vec, vec_of_vec, S), NEW f \in Fds, Armed(f) => timeout_idx[f] \in S,
         Calls(f), UNCHANGED <<base_idx, base_time>>
  PROVE  /\ registered' \subseteq Fds /\ armed' \in [Fds -> [due : Nat, delta : Int]]
         /\ WheelType(timeout_idx', vec', vec_of_vec')
         /\ Agree(timeout_idx', vec', vec_of_vec', S)
         /\ \A s \in Slots \ S : vec'[s] = vec[s] /\ vec_of_vec'[s] = vec_of_vec[s]
         /\ \E x \in S \cup {TIMEOUT_IDX_UNUSED} : timeout_idx' = [timeout_idx EXCEPT ![f] = x]
         /\ TimersRegistered' /\ DueSlot'
<1>1. TypeOK /\ TimersRegistered /\ DueSlot
  BY DEF IInv
<1>2. ASSUME NEW secs \in 1 .. MaxSecs, picoev_set_timeout(f, secs), registered' = registered \cup {f}
      PROVE  /\ registered' \subseteq Fds /\ armed' \in [Fds -> [due : Nat, delta : Int]]
             /\ WheelType(timeout_idx', vec', vec_of_vec')
             /\ Agree(timeout_idx', vec', vec_of_vec', S)
             /\ \A s \in Slots \ S : vec'[s] = vec[s] /\ vec_of_vec'[s] = vec_of_vec[s]
             /\ \E x \in S \cup {TIMEOUT_IDX_UNUSED} : timeout_idx' = [timeout_idx EXCEPT ![f] = x]
             /\ TimersRegistered' /\ DueSlot'
  <2> DEFINE x == (base_idx + Delta(secs)) % VecSize
             d == now + secs - base_time
  <2>1. /\ Delta(secs) \in Slots /\ x \in Slots /\ SlotTime(x) = base_time + Delta(secs)
        /\ d \in Int /\ now + secs \in Nat
        /\ Delta(secs) = IF d \in Slots THEN d ELSE VecSize - 1
        /\ base_time <= now - 1 => x # base_idx
    BY <1>1, DeltaSlot
  <2>2. x \in S
    BY <2>1
  <2>3. /\ Agree(timeout_idx', vec', vec_of_vec', S)
        /\ WheelType(timeout_idx', vec', vec_of_vec')
        /\ timeout_idx' = [timeout_idx EXCEPT ![f] = x]
        /\ \A s \in Slots \ S : vec'[s] = vec[s] /\ vec_of_vec'[s] = vec_of_vec[s]
    BY <1>1, <1>2, <2>2, SetTimeout
  <2>4. armed' = [armed EXCEPT ![f] = [due |-> now + secs, delta |-> d]]
    BY <1>2 DEF picoev_set_timeout
  <2>5. x # TIMEOUT_IDX_UNUSED /\ base_time \in Nat /\ base_idx' = base_idx /\ base_time' = base_time
    BY <1>1, <2>1, SizeAssumption DEF Slots, TIMEOUT_IDX_UNUSED, TypeOK
  <2>6. armed \in [Fds -> [due : Nat, delta : Int]] /\ registered \subseteq Fds
        /\ timeout_idx \in [Fds -> Slots \cup {TIMEOUT_IDX_UNUSED}]
    BY <1>1 DEF TypeOK
  <2> HIDE DEF x
  <2>7. armed' \in [Fds -> [due : Nat, delta : Int]] /\ registered' \subseteq Fds
    BY <1>2, <2>1, <2>4, <2>6
  <2>8. TimersRegistered'
    BY <1>1, <1>2, <2>3, <2>6 DEF TimersRegistered, Armed
  <2>9. DueSlot'
    <3>1. ASSUME NEW g \in Fds, Armed(g)' PROVE SlotTime(timeout_idx[g])' = DueTime(g)'
      <4>1. CASE g = f
        <5>1. timeout_idx'[g] = x /\ armed'[g].due = now + secs /\ armed'[g].delta = d
          BY <2>3, <2>4, <2>6, <4>1
        <5>2. armed'[g].due - armed'[g].delta = base_time
          <6>1. now \in Nat /\ secs \in Nat /\ base_time \in Nat
            BY <1>1, SizeAssumption DEF TypeOK, Times
          <6>2. armed'[g].delta = now + secs - base_time
            BY <5>1
          <6> QED
            BY <5>1, <6>1, <6>2
        <5>3. SlotTime(timeout_idx[g])' = base_time + Delta(secs)
          BY <2>1, <2>5, <5>1 DEF SlotTime
        <5> HIDE DEF d
        <5>4. DueTime(g)' = IF d \in Slots THEN now + secs ELSE base_time + VecSize - 1
          <6>1. d \in Slots => DueTime(g)' = now + secs
            BY <5>1 DEF DueTime
          <6>2. d \notin Slots =>
                  DueTime(g)' = armed'[g].due - armed'[g].delta + VecSize - 1
            BY <5>1 DEF DueTime
          <6> QED
            BY <5>2, <6>1, <6>2
        <5>5. d \in Slots => base_time + d = now + secs
          BY <2>1, <2>5, <1>1 DEF d, TypeOK, Times
        <5> QED
          BY <2>1, <2>5, <5>3, <5>4, <5>5, SizeAssumption
      <4>2. CASE g # f
        <5>1. timeout_idx'[g] = timeout_idx[g] /\ armed'[g] = armed[g] /\ Armed(g)
          BY <2>3, <2>4, <2>6, <3>1, <4>2 DEF Armed
        <5>2. SlotTime(timeout_idx[g]) = DueTime(g)
          BY <1>1, <5>1 DEF DueSlot
        <5> QED
          BY <2>5, <5>1, <5>2 DEF SlotTime, DueTime
      <4> QED
        BY <4>1, <4>2
    <3> QED
      BY <3>1 DEF DueSlot
  <2> QED
    BY <2>2, <2>3, <2>7, <2>8, <2>9
<1>3. ASSUME picoev_del(f)
      PROVE  /\ registered' \subseteq Fds /\ armed' \in [Fds -> [due : Nat, delta : Int]]
             /\ WheelType(timeout_idx', vec', vec_of_vec')
             /\ Agree(timeout_idx', vec', vec_of_vec', S)
             /\ \A s \in Slots \ S : vec'[s] = vec[s] /\ vec_of_vec'[s] = vec_of_vec[s]
             /\ \E x \in S \cup {TIMEOUT_IDX_UNUSED} : timeout_idx' = [timeout_idx EXCEPT ![f] = x]
             /\ TimersRegistered' /\ DueSlot'
  <2>1. /\ timeout_idx' = [timeout_idx EXCEPT ![f] = TIMEOUT_IDX_UNUSED]
        /\ vec' = ClearedVec(f) /\ vec_of_vec' = ClearedHint(f)
        /\ armed' = [armed EXCEPT ![f] = NotArmed] /\ registered' = registered \ {f}
    BY <1>3 DEF picoev_del, ClearTimeout
  <2>2. /\ Agree(timeout_idx', vec', vec_of_vec', S) /\ WheelType(timeout_idx', vec', vec_of_vec')
        /\ \A s \in Slots \ S : vec'[s] = vec[s] /\ vec_of_vec'[s] = vec_of_vec[s]
    BY <1>1, <2>1, Clearing
  <2>3. armed \in [Fds -> [due : Nat, delta : Int]] /\ registered \subseteq Fds
        /\ timeout_idx \in [Fds -> Slots \cup {TIMEOUT_IDX_UNUSED}]
    BY <1>1 DEF TypeOK
  <2>4. armed' \in [Fds -> [due : Nat, delta : Int]] /\ registered' \subseteq Fds
    BY <2>1, <2>3 DEF NotArmed
  <2>5. \A g \in Fds : Armed(g)' =>
           g # f /\ Armed(g) /\ timeout_idx'[g] = timeout_idx[g] /\ armed'[g] = armed[g]
    BY <2>1, <2>3 DEF Armed
  <2>6. TimersRegistered'
    BY <1>1, <2>1, <2>5 DEF TimersRegistered
  <2>7. DueSlot'
    BY <1>1, <2>5 DEF DueSlot, DueTime, SlotTime
  <2> QED
    BY <2>1, <2>2, <2>4, <2>6, <2>7
<1>4. ASSUME NEW secs \in 1 .. MaxSecs, picoev_add(f, secs)
      PROVE  picoev_set_timeout(f, secs) /\ registered' = registered \cup {f}
  BY <1>4 DEF picoev_add
<1>5. ASSUME f \in registered, UNCHANGED registered PROVE registered' = registered \cup {f}
  BY <1>5
<1> QED
  BY <1>2, <1>3, <1>4, <1>5 DEF Calls

-----------------------------------------------------------------------------
\* The slots in agreement, in and out of a slot's sweep.
Settled == IF Sweeping THEN Slots \ {base_idx} ELSE Slots

LEMMA SettledAgree ==
  SlotsAgree <=> Agree(timeout_idx, vec, vec_of_vec, Settled)
  BY DEF SlotsAgree, Agree, Settled, InSlot

\* The empty wheel.
LEMMA InitInv == Init => IInv
<1>1. SUFFICES ASSUME Init PROVE IInv
  OBVIOUS
<1>2. ~(\E f \in Fds : Armed(f))
  BY <1>1 DEF Init, Armed
<1>3. TIMEOUT_IDX_UNUSED \notin Slots /\ \A s \in Slots : InSlot(s) = {} /\ WordsOf({}) = {}
  BY <1>1, SizeAssumption DEF Init, InSlot, Slots, TIMEOUT_IDX_UNUSED, WordsOf
<1>4. TypeOK
  <2>1. base_idx \in Slots /\ base_time \in Nat /\ now \in Times
    BY <1>1, SizeAssumption DEF Init, Slots, Times
  <2>2. armed \in [Fds -> [due : Nat, delta : Int]]
    BY <1>1 DEF Init, NotArmed
  <2> QED
    BY <1>1, <2>1, <2>2 DEF Init, TypeOK
<1>5. SlotsAgree
  BY <1>1, <1>3 DEF Init, SlotsAgree
<1>6. SweepAgrees
  BY <1>1 DEF Init, SweepAgrees, Sweeping
<1> QED
  BY <1>1, <1>2, <1>4, <1>5, <1>6 DEF Init, IInv, TimersRegistered, DueSlot

\* The first picoev_add and the callbacks of a poll.
LEMMA EventInv ==
  ASSUME IInv, AddListener \/ Event PROVE IInv'
<1> USE DEF IInv
<1>1. /\ ~Sweeping /\ phase \in {"start", "poll"} /\ phase' \in {"run", "poll"}
      /\ UNCHANGED <<base_idx, base_time, now, sweep, fault>>
  BY DEF AddListener, Event, Call, Sweeping
<1>2. PICK f \in Fds : Calls(f)
  BY SizeAssumption DEF AddListener, Event, Call, Calls
<1>3. Agree(timeout_idx, vec, vec_of_vec, Slots)
  BY <1>1, SettledAgree DEF Settled
<1>4. Armed(f) => timeout_idx[f] \in Slots
  BY DEF Armed, TypeOK
<1>5. /\ registered' \subseteq Fds /\ armed' \in [Fds -> [due : Nat, delta : Int]]
      /\ WheelType(timeout_idx', vec', vec_of_vec')
      /\ Agree(timeout_idx', vec', vec_of_vec', Slots)
      /\ TimersRegistered' /\ DueSlot'
  <2>1. IInv /\ UNCHANGED <<base_idx, base_time>>
    BY <1>1
  <2>2. f \in Fds /\ Calls(f)
    BY <1>2
  <2> DEFINE S == Slots
  <2>3. S \in SUBSET Slots /\ (S = Slots \/ (S = Slots \ {base_idx} /\ base_time <= now - 1))
    OBVIOUS
  <2>4. Agree(timeout_idx, vec, vec_of_vec, S) /\ (Armed(f) => timeout_idx[f] \in S)
    BY <1>3, <1>4
  <2> HIDE DEF IInv, S
  <2>5. /\ registered' \subseteq Fds /\ armed' \in [Fds -> [due : Nat, delta : Int]]
        /\ WheelType(timeout_idx', vec', vec_of_vec')
        /\ Agree(timeout_idx', vec', vec_of_vec', S)
        /\ TimersRegistered' /\ DueSlot'
    BY <2>1, <2>2, <2>3, <2>4, CallKeeps
  <2> QED
    BY <2>5 DEF S
<1>6. TypeOK'
  BY <1>1, <1>5 DEF TypeOK, WheelType, sweep
<1>7. SlotsAgree'
  BY <1>5 DEF SlotsAgree, Agree, InSlot
<1>8. SweepAgrees'
  BY <1>1 DEF SweepAgrees, Sweeping
<1> QED
  BY <1>1, <1>5, <1>6, <1>7, <1>8

\* The callback of a timer: it cannot set a timer in the slot being swept.
LEMMA CallbackInv ==
  ASSUME IInv, Callback PROVE IInv'
<1> USE DEF IInv
<1>1. /\ Sweeping /\ phase = "callback" /\ Calls(fd) /\ fd \in Fds /\ timeout_idx[fd] # base_idx
      /\ UNCHANGED <<base_idx, base_time, now, phase, sweep, fault>> /\ base_time <= now - 1
  BY DEF Callback, Call, Calls, Sweeping, SweepAgrees
<1>2. Agree(timeout_idx, vec, vec_of_vec, Slots \ {base_idx})
  BY <1>1, SettledAgree DEF Settled
<1>3. Armed(fd) => timeout_idx[fd] \in Slots \ {base_idx}
  BY <1>1 DEF Armed, TypeOK
<1>4. /\ registered' \subseteq Fds /\ armed' \in [Fds -> [due : Nat, delta : Int]]
      /\ WheelType(timeout_idx', vec', vec_of_vec')
      /\ Agree(timeout_idx', vec', vec_of_vec', Slots \ {base_idx})
      /\ vec'[base_idx] = vec[base_idx] /\ vec_of_vec'[base_idx] = vec_of_vec[base_idx]
      /\ \E x \in (Slots \ {base_idx}) \cup {TIMEOUT_IDX_UNUSED} :
           timeout_idx' = [timeout_idx EXCEPT ![fd] = x]
      /\ TimersRegistered' /\ DueSlot'
  <2>1. base_idx \in Slots
    BY DEF TypeOK
  <2> QED
    BY <1>1, <1>2, <1>3, <2>1, CallKeeps
<1>5. TypeOK'
  BY <1>1, <1>4 DEF TypeOK, WheelType, sweep
<1>6. SlotsAgree'
  <2>1. Sweeping' /\ base_idx' = base_idx
    BY <1>1 DEF Sweeping
  <2>2. \A s \in Slots \ {base_idx} :
           vec'[s] = {f \in Fds : timeout_idx'[f] = s} /\ vec_of_vec'[s] = WordsOf(vec'[s])
    BY <1>4 DEF Agree
  <2> QED
    BY <2>1, <2>2 DEF SlotsAgree, InSlot
<1>7. timeout_idx'[fd] # base_idx /\ InSlot(base_idx)' = InSlot(base_idx)
  <2>1. base_idx # TIMEOUT_IDX_UNUSED
    BY SizeAssumption DEF TypeOK, Slots, TIMEOUT_IDX_UNUSED
  <2>2. \A g \in Fds : timeout_idx'[g] = base_idx <=> timeout_idx[g] = base_idx
    BY <1>1, <1>4, <2>1 DEF TypeOK
  <2> QED
    BY <1>1, <2>2 DEF InSlot
<1>8. SweepAgrees'
  BY <1>1, <1>4, <1>7 DEF SweepAgrees, Sweeping, sweep
<1> QED
  BY <1>1, <1>4, <1>5, <1>6, <1>8

\* The steps between polls and slots touch no timer.
LEMMA LoopInv ==
  ASSUME IInv, LoopOnce \/ PollReturns \/ PollFails \/ SweepEnd PROVE IInv'
<1> USE DEF IInv
<1>1. /\ ~Sweeping /\ ~Sweeping' /\ phase' \in {"run", "poll", "sweep"}
      /\ UNCHANGED <<registered, wheel, base_idx, base_time, sweep, fault, armed>>
      /\ now' \in Times
  BY DEF LoopOnce, PollReturns, PollFails, SweepEnd, Sweeping, TypeOK
<1>2. TypeOK'
  BY <1>1 DEF TypeOK, wheel, sweep
<1>3. SlotsAgree'
  BY <1>1 DEF SlotsAgree, wheel, InSlot
<1>4. SweepAgrees'
  BY <1>1 DEF SweepAgrees, Sweeping
<1>5. TimersRegistered' /\ DueSlot'
  BY <1>1 DEF TimersRegistered, DueSlot, DueTime, SlotTime, Armed, wheel
<1> QED
  BY <1>1, <1>2, <1>3, <1>4, <1>5

\* The sweep enters a slot, or a word of it.
LEMMA EnterInv ==
  ASSUME IInv, SweepSlot \/ SweepWord \/ CallbackReturns PROVE IInv'
<1> USE DEF IInv
<1>1. UNCHANGED <<registered, wheel, base_idx, base_time, now, armed>> /\ base_idx \in Slots
  BY DEF SweepSlot, SweepWord, CallbackReturns, TypeOK
<1>2. TimersRegistered' /\ DueSlot'
  BY <1>1 DEF TimersRegistered, DueSlot, DueTime, SlotTime, Armed, wheel
<1>3. SlotsAgree' /\ InSlot(base_idx)' = InSlot(base_idx)
  <2>1. Sweeping => Sweeping'
    BY DEF SweepSlot, SweepWord, CallbackReturns, Sweeping
  <2> QED
    BY <1>1, <2>1 DEF SlotsAgree, wheel, InSlot
<1>4. CASE SweepSlot
  <2>1. ~Sweeping /\ vec[base_idx] = InSlot(base_idx) /\ vec_of_vec[base_idx] = WordsOf(vec[base_idx])
    BY <1>1, <1>4 DEF SweepSlot, Sweeping, SlotsAgree
  <2>2. TypeOK' /\ ~fault'
    BY <1>1, <1>4 DEF SweepSlot, TypeOK, wheel
  <2>3. SweepAgrees'
    BY <1>1, <1>3, <1>4, <2>1 DEF SweepSlot, SweepAgrees, Sweeping, wheel
  <2> QED
    BY <1>2, <1>3, <2>2, <2>3
<1>5. CASE SweepWord
  <2>1. PICK j \in vv : /\ word' = j /\ vv' = vv \ {j}
                        /\ v' = {f \in vec[base_idx] : Word(f) = j}
    BY <1>5 DEF SweepWord
  <2>2. /\ InSlot(base_idx) = vec[base_idx] /\ vv = WordsOf(vec[base_idx])
        /\ base_time <= now - 1 /\ vec[base_idx] \subseteq Fds
    BY <1>1, <1>5 DEF SweepWord, SweepAgrees, Sweeping, TypeOK
  <2>3. v' # {} /\ j \in WordsOf(Fds)
    <3>1. PICK f \in vec[base_idx] : Word(f) = j
      BY <2>1, <2>2 DEF WordsOf
    <3> QED
      BY <2>1, <2>2, <3>1 DEF WordsOf
  <2>4. TypeOK' /\ ~fault'
    BY <1>1, <1>5, <2>1, <2>2, <2>3 DEF SweepWord, TypeOK, wheel
  <2>5. InSlot(base_idx) = v' \cup {f \in vec[base_idx] : Word(f) \in vv'}
    BY <2>1, <2>2 DEF WordsOf
  <2>7. /\ v' \subseteq {f \in vec[base_idx] : Word(f) = word'} /\ word' \notin vv'
        /\ vv' \cup {word'} = WordsOf(vec[base_idx])
    BY <2>1, <2>2
  <2>8. phase' = "word" /\ base_idx' = base_idx /\ vec' = vec /\ base_time' = base_time /\ now' = now
    BY <1>1, <1>5 DEF SweepWord, wheel
  <2>6. SweepAgrees'
    BY <1>3, <2>2, <2>5, <2>7, <2>8 DEF SweepAgrees, Sweeping
  <2> QED
    BY <1>2, <1>3, <2>4, <2>6
<1>6. CASE CallbackReturns
  <2>1. TypeOK' /\ ~fault'
    BY <1>1, <1>6 DEF CallbackReturns, TypeOK, wheel
  <2>2. SweepAgrees'
    BY <1>1, <1>3, <1>6 DEF CallbackReturns, SweepAgrees, Sweeping, wheel
  <2> QED
    BY <1>2, <1>3, <2>1, <2>2
<1> QED
  BY <1>4, <1>5, <1>6

\* A timer fires: it leaves its slot and the bits left to handle.
LEMMA FireInv ==
  ASSUME IInv, Fire PROVE IInv'
<1> USE DEF IInv
<1>1. PICK k \in v : fd' = k /\ v' = v \ {k} /\ fault' = (fault \/ k \notin registered)
  BY DEF Fire
<1>2. /\ timeout_idx' = [timeout_idx EXCEPT ![k] = TIMEOUT_IDX_UNUSED]
      /\ armed' = [armed EXCEPT ![k] = NotArmed] /\ phase = "word" /\ phase' = "callback"
      /\ UNCHANGED <<registered, vec, vec_of_vec, base_idx, base_time, now, vv, word>>
  BY <1>1 DEF Fire
<1>3. /\ base_time <= now - 1
      /\ InSlot(base_idx) = v \cup {f \in vec[base_idx] : Word(f) \in vv}
      /\ v \subseteq {f \in vec[base_idx] : Word(f) = word} /\ word \notin vv
      /\ vv \cup {word} = WordsOf(vec[base_idx])
  BY <1>2 DEF SweepAgrees, Sweeping
<1>4. k \in Fds /\ timeout_idx[k] = base_idx /\ base_idx \in Slots /\ TIMEOUT_IDX_UNUSED \notin Slots
  BY <1>1, <1>3, SizeAssumption DEF InSlot, TypeOK, Slots, TIMEOUT_IDX_UNUSED
<1>5. k \in registered /\ ~fault'
  BY <1>1, <1>4 DEF TimersRegistered, Armed
<1>6. \A g \in Fds : timeout_idx'[g] = IF g = k THEN TIMEOUT_IDX_UNUSED ELSE timeout_idx[g]
  BY <1>2, <1>4 DEF TypeOK
<1>7. TypeOK'
  <2>1. timeout_idx' \in [Fds -> Slots \cup {TIMEOUT_IDX_UNUSED}]
    BY <1>2 DEF TypeOK
  <2>2. armed' \in [Fds -> [due : Nat, delta : Int]]
    BY <1>2 DEF TypeOK, NotArmed
  <2> QED
    BY <1>1, <1>2, <1>4, <1>5, <2>1, <2>2 DEF TypeOK
<1>8. SlotsAgree'
  <2>1. Sweeping /\ Sweeping'
    BY <1>2 DEF Sweeping
  <2>2. \A s \in Slots \ {base_idx} : InSlot(s)' = InSlot(s)
    BY <1>4, <1>6 DEF InSlot
  <2> QED
    BY <1>2, <2>1, <2>2 DEF SlotsAgree
<1>9. SweepAgrees'
  <2>1. InSlot(base_idx)' = InSlot(base_idx) \ {k}
    BY <1>2, <1>4, <1>6 DEF InSlot
  <2>2. (v \cup {f \in vec[base_idx] : Word(f) \in vv}) \ {k} =
          (v \ {k}) \cup {f \in vec[base_idx] : Word(f) \in vv}
    BY <1>1, <1>3
  <2>3. timeout_idx'[k] # base_idx
    BY <1>4, <1>6
  <2> QED
    BY <1>1, <1>2, <1>3, <1>4, <2>1, <2>2, <2>3 DEF SweepAgrees, Sweeping
<1>10. \A g \in Fds : Armed(g)' =>
          Armed(g) /\ timeout_idx'[g] = timeout_idx[g] /\ armed'[g] = armed[g]
  BY <1>2, <1>6 DEF Armed, TypeOK
<1>11. TimersRegistered' /\ DueSlot'
  BY <1>2, <1>10 DEF TimersRegistered, DueSlot, DueTime, SlotTime
<1> QED
  BY <1>5, <1>7, <1>8, <1>9, <1>11

\* A word is done: the bits cleared belong to no timer that is set.
LEMMA WordDoneInv ==
  ASSUME IInv, WordDone PROVE IInv'
<1> USE DEF IInv
<1>1. /\ phase = "word" /\ v = {} /\ phase' = "slot" /\ word' = 0
      /\ vec' = [vec EXCEPT ![base_idx] = {f \in vec[base_idx] : Word(f) # word}]
      /\ UNCHANGED <<registered, timeout_idx, vec_of_vec, base_idx, base_time, now, vv, v,
                     fd, fault, armed>>
  BY DEF WordDone
<1>2. /\ base_time <= now - 1
      /\ InSlot(base_idx) = {f \in vec[base_idx] : Word(f) \in vv} /\ word \notin vv
      /\ vv \cup {word} = WordsOf(vec[base_idx])
  BY <1>1 DEF SweepAgrees, Sweeping
<1>3. /\ base_idx \in Slots /\ vec'[base_idx] = {f \in vec[base_idx] : Word(f) # word}
      /\ \A s \in Slots \ {base_idx} : vec'[s] = vec[s]
  BY <1>1 DEF TypeOK
<1>4. TypeOK'
  BY <1>1 DEF TypeOK
<1>5. SlotsAgree'
  BY <1>1, <1>3 DEF SlotsAgree, Sweeping, InSlot
<1>6. vec'[base_idx] = InSlot(base_idx) /\ vv = WordsOf(vec'[base_idx])
  BY <1>2, <1>3 DEF WordsOf
<1>7. SweepAgrees'
  BY <1>1, <1>2, <1>6 DEF SweepAgrees, Sweeping, InSlot
<1>8. TimersRegistered' /\ DueSlot'
  BY <1>1 DEF TimersRegistered, DueSlot, DueTime, SlotTime, Armed
<1> QED
  BY <1>1, <1>4, <1>5, <1>7, <1>8

\* A slot is done: it is empty, and the other slots keep their times.
LEMMA SlotDoneInv ==
  ASSUME IInv, SlotDone
  PROVE  IInv' /\ \A g \in Fds : Armed(g) => timeout_idx[g] \in Slots \ {base_idx}
<1> USE DEF IInv
<1>1. /\ phase = "slot" /\ vv = {} /\ phase' = "sweep"
      /\ vec_of_vec' = [vec_of_vec EXCEPT ![base_idx] = {}]
      /\ base_idx' = (base_idx + 1) % VecSize /\ base_time' = base_time + 1
      /\ UNCHANGED <<registered, timeout_idx, vec, now, vv, v, word, fd, fault, armed>>
  BY DEF SlotDone, sweep
<1>2. InSlot(base_idx) = vec[base_idx] /\ WordsOf(vec[base_idx]) = {}
  BY <1>1 DEF SweepAgrees, Sweeping
<1>3. InSlot(base_idx) = {} /\ vec[base_idx] = {}
  BY <1>2 DEF WordsOf
<1>4. base_idx' \in Slots /\ \A s \in Slots \ {base_idx} : SlotTime(s)' = SlotTime(s)
  BY <1>1, NextSlot
<1>5. \A g \in Fds : Armed(g) => timeout_idx[g] \in Slots \ {base_idx}
  BY <1>3 DEF InSlot, Armed, TypeOK
<1>6. TypeOK'
  BY <1>1, <1>4 DEF TypeOK
<1>7. SlotsAgree'
  <2>1. \A s \in Slots \ {base_idx} :
           vec[s] = InSlot(s) /\ vec_of_vec'[s] = vec_of_vec[s] /\ vec_of_vec[s] = WordsOf(vec[s])
    BY <1>1 DEF SlotsAgree, TypeOK
  <2>2. vec_of_vec'[base_idx] = {}
    BY <1>1 DEF TypeOK
  <2>3. \A s \in Slots : InSlot(s)' = InSlot(s)
    BY <1>1 DEF InSlot
  <2>4. \A s \in Slots : vec'[s] = vec[s]
    BY <1>1
  <2>5. \A s \in Slots : vec'[s] = InSlot(s)' /\ vec_of_vec'[s] = WordsOf(vec'[s])
    <3> SUFFICES ASSUME NEW s \in Slots
                 PROVE  vec'[s] = InSlot(s)' /\ vec_of_vec'[s] = WordsOf(vec'[s])
      OBVIOUS
    <3>1. CASE s = base_idx
      BY <1>2, <1>3, <2>2, <2>3, <2>4, <3>1
    <3>2. CASE s # base_idx
      BY <2>1, <2>3, <2>4, <3>2
    <3> QED
      BY <3>1, <3>2
  <2> QED
    BY <2>5 DEF SlotsAgree
<1>8. SweepAgrees'
  BY <1>1 DEF SweepAgrees, Sweeping
<1>9. DueSlot'
  <2>1. ASSUME NEW g \in Fds, Armed(g) PROVE SlotTime(timeout_idx[g])' = DueTime(g)'
    <3>1. SlotTime(timeout_idx[g])' = SlotTime(timeout_idx[g])
      BY <1>1, <1>4, <1>5, <2>1 DEF SlotTime
    <3> QED
      BY <1>1, <2>1, <3>1 DEF DueSlot, DueTime
  <2> QED
    BY <1>1, <2>1 DEF DueSlot, Armed
<1> QED
  BY <1>1, <1>5, <1>6, <1>7, <1>8, <1>9 DEF TimersRegistered, Armed

\* No step breaks the invariant.
LEMMA NextInv == IInv /\ [Next]_vars => IInv'
<1>1. SUFFICES ASSUME IInv, [Next]_vars PROVE IInv'
  OBVIOUS
<1>2. CASE UNCHANGED vars
  BY <1>1, <1>2 DEF vars, wheel, sweep, IInv, TypeOK, SlotsAgree, SweepAgrees, Sweeping,
     InSlot, TimersRegistered, Armed, DueSlot, DueTime, SlotTime
<1> QED
  BY <1>1, <1>2, EventInv, CallbackInv, LoopInv, EnterInv, FireInv, WordDoneInv, SlotDoneInv
     DEF Next

\* The bits, the words and the times of the wheel agree, in and out of a sweep.
THEOREM WheelInvariance == Spec => []IInv
  BY InitInv, NextInv, PTL DEF Spec

\* The asserts of the sweep hold.
THEOREM AssertsHold == Spec => []NoAssertFails
<1>1. IInv => NoAssertFails
  BY DEF IInv, NoAssertFails
<1> QED
  BY <1>1, WheelInvariance, PTL

\* The sweep never passes a timer that is due.
THEOREM NonePassed == Spec => []NeverPassed
<1>1. IInv => NeverPassed
  <2>1. SUFFICES ASSUME IInv, NEW f \in Fds, Armed(f), armed[f].delta >= 0
                 PROVE  base_time <= armed[f].due
    BY DEF NeverPassed
  <2>2. /\ timeout_idx[f] \in Slots /\ TypeOK /\ SlotTime(timeout_idx[f]) = DueTime(f)
    BY <2>1 DEF IInv, DueSlot, TypeOK, Armed
  <2>3. DueTime(f) \in base_time .. base_time + VecSize - 1
    BY <2>2, SlotTimes
  <2>4. armed[f].due \in Nat /\ armed[f].delta \in Int /\ base_time \in Nat /\ VecSize \in Nat
    BY <2>1, <2>2, SizeAssumption DEF TypeOK
  <2>5. CASE armed[f].delta \in Slots
    BY <2>3, <2>4, <2>5 DEF DueTime
  <2>6. CASE armed[f].delta \notin Slots
    <3>1. armed[f].delta >= VecSize
      BY <2>1, <2>4, <2>6 DEF Slots
    <3>2. DueTime(f) = armed[f].due - armed[f].delta + VecSize - 1
      BY <2>6 DEF DueTime
    <3> QED
      BY <2>3, <2>4, <3>1, <3>2
  <2> QED
    BY <2>5, <2>6
<1> QED
  BY <1>1, WheelInvariance, PTL

\* A timer fires early only when its slot was not in the wheel.
THEOREM NoneEarly == Spec => NeverEarly
<1>1. ASSUME IInv, [Next]_vars, NEW f \in Fds,
             phase = "word" /\ phase' = "callback" /\ fd' = f
      PROVE  base_time >= armed[f].due \/ armed[f].delta >= VecSize
  <2>1. f \in v
    BY <1>1 DEF Next, vars, AddListener, LoopOnce, Event, Call, PollReturns, PollFails, SweepSlot,
       SweepEnd, SweepWord, Fire, Callback, CallbackReturns, WordDone, SlotDone
  <2>2. timeout_idx[f] = base_idx /\ base_idx \in Slots /\ TypeOK
    BY <1>1, <2>1 DEF IInv, SweepAgrees, InSlot, TypeOK
  <2>3. Armed(f)
    BY <2>2, SizeAssumption DEF Armed, Slots, TIMEOUT_IDX_UNUSED
  <2>4. DueTime(f) = base_time
    BY <1>1, <2>2, <2>3, SlotTimes DEF IInv, DueSlot
  <2>5. armed[f].due \in Nat /\ armed[f].delta \in Int /\ base_time \in Nat /\ VecSize \in Nat
    BY <1>1, <2>2, SizeAssumption DEF TypeOK
  <2>6. CASE armed[f].delta \in Slots
    BY <2>4, <2>5, <2>6 DEF DueTime
  <2>7. CASE armed[f].delta \notin Slots
    <3>1. armed[f].delta >= VecSize \/ armed[f].delta < 0
      BY <2>5, <2>7 DEF Slots
    <3>2. base_time = armed[f].due - armed[f].delta + VecSize - 1
      BY <2>4, <2>7 DEF DueTime
    <3> QED
      BY <2>5, <3>1, <3>2, SizeAssumption
  <2> QED
    BY <2>6, <2>7
<1>2. IInv /\ [Next]_vars =>
        [\A f \in Fds : phase = "word" /\ phase' = "callback" /\ fd' = f =>
           base_time >= armed[f].due \/ armed[f].delta >= VecSize]_vars
  BY <1>1
<1> QED
  BY <1>2, WheelInvariance, PTL DEF Spec, NeverEarly

-----------------------------------------------------------------------------
\* The abstract timers of the wheel.
At == [f \in Fds |-> IF Armed(f) THEN SlotTime(timeout_idx[f]) ELSE NotSet]

\* A change of one timer is a step of the abstract timers.
LEMMA TimerStep ==
  ASSUME TypeOK, NEW f \in Fds, NEW x \in Slots \cup {TIMEOUT_IDX_UNUSED},
         timeout_idx' = [timeout_idx EXCEPT ![f] = x], UNCHANGED <<base_idx, base_time>>
  PROVE  [Abstract!Next]_<<At, base_time>>
<1>1. \A g \in Fds : timeout_idx'[g] = IF g = f THEN x ELSE timeout_idx[g]
  BY DEF TypeOK
<1>2. \A g \in Fds \ {f} : At'[g] = At[g]
  BY <1>1 DEF At, Armed, SlotTime
<1>3. At = [g \in Fds |-> At[g]] /\ At' = [g \in Fds |-> At'[g]]
  BY DEF At
<1>4. At' = [At EXCEPT ![f] = At'[f]]
  <2> DEFINE a == At
             b == At'
  <2>1. a = [g \in Fds |-> a[g]] /\ b = [g \in Fds |-> b[g]] /\ \A g \in Fds \ {f} : b[g] = a[g]
    BY <1>2, <1>3
  <2> HIDE DEF a, b
  <2>2. b = [a EXCEPT ![f] = b[f]]
    BY <2>1
  <2> QED
    BY <2>2 DEF a, b
<1>5. CASE x \in Slots
  <2>1. At'[f] = SlotTime(x)
    BY <1>1, <1>5, SizeAssumption DEF At, Armed, SlotTime, Slots, TIMEOUT_IDX_UNUSED
  <2>2. SlotTime(x) \in base_time .. base_time + VecSize - 1
    BY <1>5, SlotTimes
  <2> QED
    BY <1>4, <2>1, <2>2 DEF Abstract!Next, Abstract!Arm, At
<1>6. CASE x = TIMEOUT_IDX_UNUSED
  <2>1. At'[f] = NotSet
    BY <1>1, <1>6 DEF At, Armed
  <2>2. CASE At[f] = NotSet
    BY <1>3, <1>4, <2>1, <2>2 DEF At
  <2>3. CASE At[f] # NotSet
    BY <1>4, <2>1, <2>3 DEF Abstract!Next, Abstract!Disarm, At
  <2> QED
    BY <2>2, <2>3
<1> QED
  BY <1>5, <1>6

\* A call of picoev is a step of the abstract timers, or none.
LEMMA CallStep ==
  ASSUME IInv, NEW f \in Fds, Calls(f), UNCHANGED <<base_idx, base_time>>,
         ~Sweeping \/ (Sweeping /\ timeout_idx[f] # base_idx)
  PROVE  [Abstract!Next]_<<At, base_time>>
<1>1. /\ IInv /\ TypeOK /\ Agree(timeout_idx, vec, vec_of_vec, Settled)
  BY SettledAgree DEF IInv
<1> DEFINE S == Settled
<1>2. /\ S \in SUBSET Slots /\ (S = Slots \/ (S = Slots \ {base_idx} /\ base_time <= now - 1))
      /\ (Armed(f) => timeout_idx[f] \in S)
  BY <1>1 DEF Settled, IInv, SweepAgrees, TypeOK, Armed
<1> HIDE DEF S
<1>3. \E x \in S \cup {TIMEOUT_IDX_UNUSED} : timeout_idx' = [timeout_idx EXCEPT ![f] = x]
  <2>1. Agree(timeout_idx, vec, vec_of_vec, S)
    BY <1>1 DEF S
  <2> QED
    BY <1>1, <1>2, <2>1, CallKeeps
<1> QED
  BY <1>1, <1>2, <1>3, TimerStep

\* picoev implements a set of timers: every timer has its time, is not passed
\* before it fired, and the wheel's time moves by one.
THEOREM WheelImplementsTimers == Spec => TimersSpec
<1>1. Init => Abstract!Init
  <2>1. Init => \A f \in Fds : ~Armed(f)
    BY DEF Init, Armed
  <2>2. Init => base_time \in Nat
    BY SizeAssumption DEF Init, Times
  <2> QED
    BY <2>1, <2>2 DEF Abstract!Init
<1>2. IInv /\ [Next]_vars => [Abstract!Next]_Abstract!timerVars
  <2>1. SUFFICES ASSUME IInv, [Next]_vars PROVE [Abstract!Next]_<<At, base_time>>
    BY DEF Abstract!timerVars, At
  <2>2. CASE AddListener \/ Event
    <3>1. /\ ~Sweeping /\ UNCHANGED <<base_idx, base_time>> /\ \E f \in Fds : Calls(f)
      BY <2>2, SizeAssumption DEF AddListener, Event, Call, Calls, Sweeping
    <3> QED
      BY <2>1, <3>1, CallStep
  <2>3. CASE Callback
    <3>1. /\ Sweeping /\ fd \in Fds /\ timeout_idx[fd] # base_idx /\ Calls(fd)
          /\ UNCHANGED <<base_idx, base_time>>
      BY <2>1, <2>3 DEF Callback, Call, Calls, Sweeping, IInv, SweepAgrees
    <3> QED
      BY <2>1, <3>1, CallStep
  <2>4. CASE Fire
    <3>1. PICK k \in v : timeout_idx' = [timeout_idx EXCEPT ![k] = TIMEOUT_IDX_UNUSED]
      BY <2>4 DEF Fire
    <3>2. k \in Fds /\ TypeOK /\ UNCHANGED <<base_idx, base_time>>
      BY <2>1, <2>4 DEF Fire, IInv, TypeOK
    <3> QED
      BY <3>1, <3>2, TimerStep
  <2>5. CASE SlotDone
    <3>1. /\ \A g \in Fds : Armed(g) => timeout_idx[g] \in Slots \ {base_idx}
          /\ base_time' = base_time + 1 /\ base_idx' = (base_idx + 1) % VecSize
          /\ timeout_idx' = timeout_idx /\ TypeOK
      BY <2>1, <2>5, SlotDoneInv DEF SlotDone, IInv
    <3>2. \A g \in Fds : Armed(g) => SlotTime(timeout_idx[g])' = SlotTime(timeout_idx[g])
      BY <3>1, NextSlot DEF SlotTime
    <3>3. \A g \in Fds : Armed(g)' = Armed(g)
      BY <3>1 DEF Armed
    <3>4. At' = At
      <4>1. \A g \in Fds : (IF Armed(g) THEN SlotTime(timeout_idx[g]) ELSE NotSet)' =
                             IF Armed(g) THEN SlotTime(timeout_idx[g]) ELSE NotSet
        BY <3>2, <3>3 DEF NotSet
      <4> QED
        BY <4>1 DEF At
    <3>5. \A g \in Fds : At[g] # base_time
      <4>1. NotSet # base_time
        BY <3>1 DEF NotSet, TypeOK
      <4>2. \A g \in Fds : Armed(g) => SlotTime(timeout_idx[g]) # base_time
        BY <3>1, SlotTimes
      <4> QED
        BY <4>1, <4>2 DEF At
    <3> QED
      BY <3>1, <3>4, <3>5 DEF Abstract!Next, Abstract!Advance, At
  <2>6. CASE \/ LoopOnce \/ PollReturns \/ PollFails \/ SweepSlot \/ SweepEnd \/ SweepWord
             \/ CallbackReturns \/ WordDone \/ UNCHANGED vars
    <3>1. UNCHANGED <<timeout_idx, base_idx, base_time>>
      BY <2>6 DEF LoopOnce, PollReturns, PollFails, SweepSlot, SweepEnd, SweepWord, CallbackReturns,
         WordDone, vars, wheel
    <3> QED
      BY <3>1 DEF At, Armed, SlotTime
  <2> QED
    BY <2>1, <2>2, <2>3, <2>4, <2>5, <2>6 DEF Next
<1> QED
  BY <1>1, <1>2, WheelInvariance, PTL DEF Spec, TimersSpec, Abstract!Spec
=============================================================================
