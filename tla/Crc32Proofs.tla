----------------------------- MODULE Crc32Proofs -----------------------------
(***************************************************************************)
(* Proofs about modules Crc32 and Framing, for all data: the table         *)
(* computes what the shift register defines, piece by piece or at once,    *)
(* and tells every alteration within four bytes.                           *)
(***************************************************************************)
EXTENDS Framing, MessagesProofs, WellFoundedInduction

\* A set of numbers has a least one; the inductions below are about it.
LEMMA LeastOf ==
    ASSUME NEW S, S \subseteq Nat, S # {}
    PROVE  \E n \in S : \A m \in S : n <= m
<1>1. \E n \in S : \A m \in S : <<m, n>> \notin OpToRel(<, Nat)
  BY WFMin, NatLessThanWellFounded, Zenon
<1>2. \A m, n \in S : <<m, n>> \notin OpToRel(<, Nat) => ~(m < n)
  BY DEF OpToRel
<1>3. \E n \in S : \A m \in S : ~(m < n)
  BY <1>1, <1>2, Zenon
<1>4. QED
  BY <1>3

-----------------------------------------------------------------------------
(* Loops over data.                                                        *)

Steps(r, step, c, data, n) ==
    r = [k \in 0..n |-> IF k = 0 THEN c ELSE step[r[k - 1]][data[k]]]

\* A loop may be run for any number of steps.
LEMMA RunsExist ==
    ASSUME NEW step, NEW c, NEW data, NEW n \in Nat
    PROVE  \E r : Steps(r, step, c, data, n)
<1> DEFINE Stuck == {m \in Nat : ~\E r : Steps(r, step, c, data, m)}
<1>1. ASSUME NEW m \in Stuck, \A k \in Stuck : m <= k
      PROVE  FALSE
  <2>1. CASE m = 0
    <3> DEFINE r == [k \in 0..0 |-> c]
    <3>1. Steps(r, step, c, data, 0)
      <4>1. [k \in 0..0 |-> IF k = 0 THEN c ELSE step[r[k - 1]][data[k]]] = r
        OBVIOUS
      <4>2. QED
        BY <4>1 DEF Steps
    <3> HIDE DEF r
    <3>2. QED
      BY <2>1, <3>1
  <2>2. CASE m # 0
    <3>1. m - 1 \in Nat /\ m - 1 \notin Stuck
      BY <1>1, <2>2
    <3>2. PICK q : Steps(q, step, c, data, m - 1)
      BY <3>1
    <3> DEFINE r == [k \in 0..m |-> IF k = m THEN step[q[m - 1]][data[m]] ELSE q[k]]
    <3>3. Steps(r, step, c, data, m)
      <4>1. \A k \in 0..(m - 1) : q[k] = IF k = 0 THEN c ELSE step[q[k - 1]][data[k]]
        BY <3>1, <3>2 DEF Steps
      <4>2. \A k \in 0..m : r[k] = IF k = m THEN step[q[m - 1]][data[m]] ELSE q[k]
        OBVIOUS
      <4>3. r = [k \in 0..m |-> r[k]]
        OBVIOUS
      <4> HIDE DEF r
      <4>4. \A k \in 0..m : r[k] = IF k = 0 THEN c ELSE step[r[k - 1]][data[k]]
        <5>1. TAKE k \in 0..m
        <5>2. CASE k = m
          <6>1. k \in 0..m /\ m - 1 \in 0..m /\ m - 1 # m
            BY <3>1, <5>2
          <6>2. r[k - 1] = q[m - 1] /\ r[k] = step[q[m - 1]][data[m]]
            BY <4>2, <5>2, <6>1
          <6>3. QED
            BY <2>2, <5>2, <6>2
        <5>3. CASE k # m /\ k # 0
          <6>1. k \in 0..(m - 1) /\ k - 1 \in 0..m /\ k - 1 # m
            BY <3>1, <5>3
          <6>2. r[k - 1] = q[k - 1] /\ r[k] = q[k]
            BY <4>2, <5>3, <6>1
          <6>3. QED
            BY <4>1, <5>3, <6>1, <6>2
        <5>4. CASE k = 0
          BY <2>2, <3>1, <4>1, <4>2, <5>4
        <5>5. QED
          BY <5>2, <5>3, <5>4
      <4>5. QED
        BY <4>3, <4>4 DEF Steps
    <3> HIDE DEF r
    <3>4. QED
      BY <3>3
  <2>3. QED
    BY <2>1, <2>2
<1>2. Stuck = {}
  BY <1>1, LeastOf
<1>3. QED
  BY <1>2

\* The sums on the way from c.
Follows(r, step, c, data) ==
    /\ r[0] = c
    /\ \A k \in 1..Len(data) : r[k] = step[r[k - 1]][data[k]]

LEMMA RunIs ==
    ASSUME NEW step, NEW c, NEW data, Len(data) \in Nat
    PROVE  \E r : /\ Follows(r, step, c, data)
                  /\ Run(step, c, data) = r[Len(data)]
<1> DEFINE r == CHOOSE r : r = [k \in 0..Len(data) |->
                                  IF k = 0 THEN c ELSE step[r[k - 1]][data[k]]]
<1>2. r = [k \in 0..Len(data) |-> IF k = 0 THEN c ELSE step[r[k - 1]][data[k]]]
  <2>1. \E q : Steps(q, step, c, data, Len(data))
    BY RunsExist
  <2>2. \E q : q = [k \in 0..Len(data) |->
                      IF k = 0 THEN c ELSE step[q[k - 1]][data[k]]]
    BY <2>1 DEF Steps
  <2>3. QED
    BY <2>2, Zenon
<1>3. Run(step, c, data) = r[Len(data)]
  BY DEF Run
<1> HIDE DEF r
<1>4. Follows(r, step, c, data)
  BY <1>2 DEF Follows
<1>5. QED
  BY <1>3, <1>4

\* Whatever follows the loop's steps has its result at the end.
LEMMA RunFollows ==
    ASSUME NEW step, NEW c, NEW data, Len(data) \in Nat,
           NEW r, Follows(r, step, c, data)
    PROVE  Run(step, c, data) = r[Len(data)]
<1>1. PICK q : /\ Follows(q, step, c, data)
               /\ Run(step, c, data) = q[Len(data)]
  BY RunIs
<1> DEFINE Apart == {k \in 0..Len(data) : q[k] # r[k]}
<1>2. ASSUME NEW k \in Apart, \A j \in Apart : k <= j
      PROVE  FALSE
  <2>1. k # 0
    BY <1>1 DEF Follows
  <2>2. k - 1 \in 0..Len(data) /\ k - 1 \notin Apart /\ k \in 1..Len(data)
    BY <1>2, <2>1
  <2>3. q[k] = r[k]
    BY <1>1, <2>2 DEF Follows
  <2>4. QED
    BY <2>3
<1>3. Apart = {}
  <2>1. Apart \subseteq Nat
    OBVIOUS
  <2> HIDE DEF Apart
  <2>2. QED
    BY <1>2, <2>1, LeastOf
<1>4. QED
  BY <1>1, <1>3

LEMMA RunOfNone ==
    ASSUME NEW step, NEW c
    PROVE  Run(step, c, <<>>) = c
<1>1. Len(<<>>) = 0
  OBVIOUS
<1>2. QED
  BY <1>1, RunIs DEF Follows

\* Two sequences, one behind the other.
LEMMA Joining ==
    ASSUME NEW S, NEW s \in Seq(S), NEW t \in Seq(S)
    PROVE  /\ s \o t \in Seq(S) /\ Len(s \o t) = Len(s) + Len(t)
           /\ Len(s) \in Nat /\ Len(t) \in Nat
           /\ \A k \in 1..Len(s) : (s \o t)[k] = s[k]
           /\ \A k \in 1..Len(t) : (s \o t)[Len(s) + k] = t[k]
OBVIOUS

\* A loop may be interrupted anywhere and go on from where it was.
LEMMA RunGoesOn ==
    ASSUME NEW S, NEW step, NEW c, NEW s \in Seq(S), NEW t \in Seq(S)
    PROVE  Run(step, c, s \o t) = Run(step, Run(step, c, s), t)
<1>1. /\ s \o t \in Seq(S) /\ Len(s \o t) = Len(s) + Len(t)
      /\ Len(s) \in Nat /\ Len(t) \in Nat
      /\ \A k \in 1..Len(s) : (s \o t)[k] = s[k]
      /\ \A k \in 1..Len(t) : (s \o t)[Len(s) + k] = t[k]
  BY Joining
<1>2. PICK r : Follows(r, step, c, s \o t) /\ Run(step, c, s \o t) = r[Len(s \o t)]
  <2> DEFINE st == s \o t
  <2>1. Len(st) \in Nat
    BY <1>1
  <2> HIDE DEF st
  <2>2. \E r : Follows(r, step, c, st) /\ Run(step, c, st) = r[Len(st)]
    BY <2>1, RunIs
  <2>3. QED
    BY <2>2 DEF st
<1>3. Run(step, c, s) = r[Len(s)]
  <2>1. Follows(r, step, c, s)
    BY <1>1, <1>2 DEF Follows
  <2>2. QED
    BY <1>1, <2>1, RunFollows
<1> DEFINE q == [k \in 0..Len(t) |-> r[Len(s) + k]]
<1>4. Run(step, r[Len(s)], t) = q[Len(t)]
  <2>1. q[0] = r[Len(s)]
    BY <1>1
  <2>2. ASSUME NEW k \in 1..Len(t)
        PROVE  q[k] = step[q[k - 1]][t[k]]
    <3>1. /\ Len(s) + k \in 1..Len(s \o t) /\ (Len(s) + k) - 1 = Len(s) + (k - 1)
          /\ k \in 0..Len(t) /\ k - 1 \in 0..Len(t)
      BY <1>1
    <3>2. QED
      BY <1>1, <1>2, <3>1 DEF Follows
  <2> HIDE DEF q
  <2>3. Follows(q, step, r[Len(s)], t)
    BY <2>1, <2>2 DEF Follows
  <2>4. QED
    BY <1>1, <2>3, RunFollows
<1>5. QED
  BY <1>1, <1>2, <1>3, <1>4

\* One step more.
LEMMA RunAppend ==
    ASSUME NEW S, NEW step, NEW c, NEW s \in Seq(S), NEW x \in S
    PROVE  Run(step, c, Append(s, x)) = step[Run(step, c, s)][x]
<1>1. /\ Append(s, x) \in Seq(S) /\ Len(Append(s, x)) = Len(s) + 1 /\ Len(s) \in Nat
      /\ \A k \in 1..Len(s) : Append(s, x)[k] = s[k]
      /\ Append(s, x)[Len(s) + 1] = x
  OBVIOUS
<1>2. PICK r : /\ Follows(r, step, c, Append(s, x))
               /\ Run(step, c, Append(s, x)) = r[Len(Append(s, x))]
  <2> DEFINE sx == Append(s, x)
  <2>1. Len(sx) \in Nat
    BY <1>1
  <2> HIDE DEF sx
  <2>2. \E r : Follows(r, step, c, sx) /\ Run(step, c, sx) = r[Len(sx)]
    BY <2>1, RunIs
  <2>3. QED
    BY <2>2 DEF sx
<1>3. Run(step, c, s) = r[Len(s)]
  <2>1. Follows(r, step, c, s)
    BY <1>1, <1>2 DEF Follows
  <2>2. QED
    BY <1>1, <2>1, RunFollows
<1>4. r[Len(s) + 1] = step[r[Len(s)]][x]
  BY <1>1, <1>2 DEF Follows
<1>5. QED
  BY <1>1, <1>2, <1>3, <1>4

Keeps(step, W, S) == \A w \in W, x \in S : step[w][x] \in W

\* A loop stays among the values its step stays among.
LEMMA RunStays ==
    ASSUME NEW W, NEW S, NEW step, NEW c \in W, NEW data \in Seq(S), Keeps(step, W, S)
    PROVE  \E r : /\ Follows(r, step, c, data)
                  /\ Run(step, c, data) = r[Len(data)]
                  /\ \A k \in 0..Len(data) : r[k] \in W
<1>1. PICK r : /\ Follows(r, step, c, data)
               /\ Run(step, c, data) = r[Len(data)]
  BY RunIs
<1> DEFINE Out == {k \in 0..Len(data) : r[k] \notin W}
<1>2. ASSUME NEW k \in Out, \A j \in Out : k <= j
      PROVE  FALSE
  <2>1. k # 0
    BY <1>1 DEF Follows
  <2>2. k - 1 \in 0..Len(data) /\ k - 1 \notin Out /\ k \in 1..Len(data)
    BY <1>2, <2>1
  <2>3. r[k - 1] \in W /\ data[k] \in S
    BY <2>2
  <2>4. QED
    BY <1>1, <2>2, <2>3 DEF Keeps, Follows
<1>3. Out = {}
  <2>1. Out \subseteq Nat
    OBVIOUS
  <2> HIDE DEF Out
  <2>2. QED
    BY <1>2, <2>1, LeastOf
<1>4. \A k \in 0..Len(data) : r[k] \in W
  BY <1>3
<1>5. QED
  BY <1>1, <1>4

-----------------------------------------------------------------------------
(* Words and turns.                                                        *)

LEMMA XorFacts ==
    ASSUME NEW a, NEW b
    PROVE  /\ Xor(a, b) = Xor(b, a) /\ Xor(a, {}) = a /\ Xor(a, a) = {}
           /\ \A c : Xor(Xor(a, b), c) = Xor(a, Xor(b, c))
           /\ \A i : i \in Xor(a, b) <=> ~(i \in a <=> i \in b)
           /\ Xor(a, b) = {} => a = b
BY DEF Xor

LEMMA WordTypes ==
    ASSUME NEW a \in Word, NEW b \in Word
    PROVE  /\ Xor(a, b) \in Word /\ ShiftRight(a, 1) \in Word
           /\ ShiftRight(a, 8) \in Word /\ Turn(a) \in Word
           /\ AllOnes \in Word
<1>1. \A x \in Word : ShiftRight(x, 1) \in Word /\ ShiftRight(x, 8) \in Word
  BY DEF Word, ShiftRight
<1>2. \A x, y \in Word : Xor(x, y) \in Word
  BY DEF Word, Xor
<1>3. Polynomial \in Word /\ AllOnes \in Word
  BY DEF Word, Polynomial, AllOnes
<1>4. QED
  BY <1>1, <1>2, <1>3 DEF Turn

LEMMA ShiftXor ==
    ASSUME NEW a \in Word, NEW b \in Word
    PROVE  ShiftRight(Xor(a, b), 1) = Xor(ShiftRight(a, 1), ShiftRight(b, 1))
BY DEF ShiftRight, Xor

\* A turn of a difference is the difference of the turns.
LEMMA TurnXor ==
    ASSUME NEW a \in Word, NEW b \in Word
    PROVE  Turn(Xor(a, b)) = Xor(Turn(a), Turn(b))
<1> DEFINE sa == ShiftRight(a, 1)
           sb == ShiftRight(b, 1)
<1>1. ShiftRight(Xor(a, b), 1) = Xor(sa, sb)
  BY ShiftXor
<1>2. 0 \in Xor(a, b) <=> ~(0 \in a <=> 0 \in b)
  BY XorFacts
<1> HIDE DEF sa, sb
<1>3. /\ Xor(Polynomial, Xor(sa, sb)) = Xor(Xor(Polynomial, sa), sb)
      /\ Xor(Polynomial, Xor(sa, sb)) = Xor(sa, Xor(Polynomial, sb))
      /\ Xor(sa, sb) = Xor(Xor(Polynomial, sa), Xor(Polynomial, sb))
  BY DEF Xor
<1>4. /\ Turn(a) = IF 0 \in a THEN Xor(Polynomial, sa) ELSE sa
      /\ Turn(b) = IF 0 \in b THEN Xor(Polynomial, sb) ELSE sb
      /\ Turn(Xor(a, b)) = IF 0 \in Xor(a, b) THEN Xor(Polynomial, Xor(sa, sb))
                           ELSE Xor(sa, sb)
  BY <1>1 DEF Turn, sa, sb
<1>5. QED
  BY <1>2, <1>3, <1>4

LEMMA EightXor ==
    ASSUME NEW a \in Word, NEW b \in Word
    PROVE  /\ EightTurns(a) \in Word
           /\ EightTurns(Xor(a, b)) = Xor(EightTurns(a), EightTurns(b))
<1>1. \A x, y \in Word : /\ Turn(x) \in Word
                         /\ Turn(Xor(x, y)) = Xor(Turn(x), Turn(y))
  BY TurnXor, WordTypes
<1> DEFINE Two(x) == Turn(Turn(x))
           Four(x) == Two(Two(x))
<1>2. \A x, y \in Word : Two(x) \in Word /\ Two(Xor(x, y)) = Xor(Two(x), Two(y))
  BY <1>1
<1>3. EightTurns(a) = Four(Four(a)) /\ EightTurns(Xor(a, b)) = Four(Four(Xor(a, b)))
      /\ EightTurns(b) = Four(Four(b))
  BY DEF EightTurns
<1> HIDE DEF Two
<1>4. \A x, y \in Word : Four(x) \in Word /\ Four(Xor(x, y)) = Xor(Four(x), Four(y))
  BY <1>2
<1> HIDE DEF Four
<1>5. QED
  BY <1>3, <1>4

\* Eight turns only shift a word whose low byte is empty.
LEMMA EightShift ==
    ASSUME NEW a \in Word, a \cap LowByte = {}
    PROVE  EightTurns(a) = ShiftRight(a, 8)
<1> DEFINE s(n) == ShiftRight(a, n)
<1>1. \A n \in 0..7 : Turn(s(n)) = s(n + 1)
  <2>1. TAKE n \in 0..7
  <2>2. 0 \notin s(n)
    BY DEF ShiftRight, LowByte
  <2>3. ShiftRight(s(n), 1) = s(n + 1)
    BY DEF ShiftRight, Word
  <2>4. QED
    BY <2>2, <2>3 DEF Turn
<1>2. s(0) = a
  <2>1. \A i \in 0..31 : i + 0 = i
    OBVIOUS
  <2>2. a \subseteq 0..31
    BY DEF Word
  <2>3. QED
    BY <2>1, <2>2 DEF ShiftRight
<1> HIDE DEF s
<1>3. /\ Turn(s(0)) = s(1) /\ Turn(s(1)) = s(2) /\ Turn(s(2)) = s(3) /\ Turn(s(3)) = s(4)
      /\ Turn(s(4)) = s(5) /\ Turn(s(5)) = s(6) /\ Turn(s(6)) = s(7) /\ Turn(s(7)) = s(8)
  <2>1. \A m, n : m \in 0..7 /\ n = m + 1 => Turn(s(m)) = s(n)
    BY <1>1
  <2>2. QED
    BY <2>1
<1>4. EightTurns(a) = s(8)
  BY <1>2, <1>3 DEF EightTurns
<1>5. QED
  BY <1>4 DEF s

\* A bit shifted into the register is a turn of the register with the bit added.
LEMMA ShiftInTurns ==
    ASSUME NEW r \in Word, NEW b \in SUBSET LowByte
    PROVE  /\ ShiftIn(r, 0 \in b) \in Word
           /\ ShiftRight(b, 1) \in SUBSET LowByte
           /\ Turn(Xor(r, b)) = Xor(ShiftIn(r, 0 \in b), ShiftRight(b, 1))
<1>1. b \in Word
  BY DEF Word, LowByte
<1> DEFINE sr == ShiftRight(r, 1)
           sb == ShiftRight(b, 1)
<1>2. ShiftRight(Xor(r, b), 1) = Xor(sr, sb) /\ sr \in Word /\ sb \in SUBSET LowByte
  <2>1. ShiftRight(Xor(r, b), 1) = Xor(sr, sb) /\ sr \in Word
    BY <1>1, ShiftXor, WordTypes
  <2>2. sb \in SUBSET LowByte
    BY DEF ShiftRight, LowByte
  <2>3. QED
    BY <2>1, <2>2
<1>3. 0 \in Xor(r, b) <=> ~(0 \in r <=> 0 \in b)
  BY XorFacts
<1>4. ShiftIn(r, 0 \in b) = IF 0 \in r <=> 0 \in b THEN sr ELSE Xor(Polynomial, sr)
  BY DEF ShiftIn
<1>5. Turn(Xor(r, b)) = IF 0 \in Xor(r, b) THEN Xor(Polynomial, Xor(sr, sb)) ELSE Xor(sr, sb)
  BY <1>2 DEF Turn
<1> HIDE DEF sr, sb
<1>6. Xor(Polynomial, Xor(sr, sb)) = Xor(Xor(Polynomial, sr), sb)
  BY DEF Xor
<1>7. Xor(Polynomial, sr) \in Word
  <2>1. Polynomial \in Word
    BY DEF Polynomial, Word
  <2>2. QED
    BY <1>2, <2>1, WordTypes
<1>8. QED
  BY <1>2, <1>3, <1>4, <1>5, <1>6, <1>7 DEF sb

\* A byte shifted into the register is eight turns of the two together.
LEMMA ByteTurns ==
    ASSUME NEW r \in Word, NEW b \in SUBSET LowByte
    PROVE  ShiftInByte(r, b) = EightTurns(Xor(r, b))
<1> DEFINE rest(k) == {i \in LowByte : i + k \in b}
<1>1. \A q \in Word, k \in 0..7 :
         /\ ShiftIn(q, k \in b) \in Word
         /\ Turn(Xor(q, rest(k))) = Xor(ShiftIn(q, k \in b), rest(k + 1))
  <2>1. TAKE q \in Word, k \in 0..7
  <2>2. rest(k) \in SUBSET LowByte /\ (0 \in rest(k) <=> k \in b)
    BY DEF LowByte
  <2>3. ShiftRight(rest(k), 1) = rest(k + 1)
    BY DEF ShiftRight, LowByte
  <2> HIDE DEF rest
  <2>4. ShiftIn(q, 0 \in rest(k)) = ShiftIn(q, k \in b)
    BY <2>2 DEF ShiftIn
  <2>5. QED
    BY <2>2, <2>3, <2>4, ShiftInTurns
<1>2. rest(0) = b /\ rest(8) = {}
  <2>1. \A i \in LowByte : i + 0 = i /\ i + 8 \notin LowByte
    BY DEF LowByte
  <2>2. QED
    BY <2>1
<1> HIDE DEF rest
<1> DEFINE r1 == ShiftIn(r, 0 \in b)
           r2 == ShiftIn(r1, 1 \in b)
           r3 == ShiftIn(r2, 2 \in b)
           r4 == ShiftIn(r3, 3 \in b)
           r5 == ShiftIn(r4, 4 \in b)
           r6 == ShiftIn(r5, 5 \in b)
           r7 == ShiftIn(r6, 6 \in b)
           r8 == ShiftIn(r7, 7 \in b)
<1>3. r1 \in Word /\ Turn(Xor(r, b)) = Xor(r1, rest(1))
  BY <1>1, <1>2
<1> HIDE DEF r1
<1>4. r2 \in Word /\ Turn(Xor(r1, rest(1))) = Xor(r2, rest(2))
  BY <1>1, <1>3
<1> HIDE DEF r2
<1>5. r3 \in Word /\ Turn(Xor(r2, rest(2))) = Xor(r3, rest(3))
  BY <1>1, <1>4
<1> HIDE DEF r3
<1>6. r4 \in Word /\ Turn(Xor(r3, rest(3))) = Xor(r4, rest(4))
  BY <1>1, <1>5
<1> HIDE DEF r4
<1>7. r5 \in Word /\ Turn(Xor(r4, rest(4))) = Xor(r5, rest(5))
  BY <1>1, <1>6
<1> HIDE DEF r5
<1>8. r6 \in Word /\ Turn(Xor(r5, rest(5))) = Xor(r6, rest(6))
  BY <1>1, <1>7
<1> HIDE DEF r6
<1>9. r7 \in Word /\ Turn(Xor(r6, rest(6))) = Xor(r7, rest(7))
  BY <1>1, <1>8
<1> HIDE DEF r7
<1>10. Turn(Xor(r7, rest(7))) = Xor(r8, rest(8))
  BY <1>1, <1>9
<1>11. Xor(r8, {}) = r8
  BY XorFacts
<1> HIDE DEF r8
<1>12. EightTurns(Xor(r, b)) = r8
  BY <1>2, <1>3, <1>4, <1>5, <1>6, <1>7, <1>8, <1>9, <1>10, <1>11 DEF EightTurns
<1>13. ShiftInByte(r, b) = r8
  BY DEF ShiftInByte, r1, r2, r3, r4, r5, r6, r7, r8
<1>14. QED
  BY <1>12, <1>13

-----------------------------------------------------------------------------
(* The table.                                                              *)

\* The two ends of a difference.
LEMMA XorNone == \A a, b : Xor(a, b) = {} <=> a = b
<1>1. ASSUME NEW a, NEW b, Xor(a, b) = {}
      PROVE  a = b
  BY <1>1 DEF Xor
<1>2. \A a : Xor(a, a) = {}
  BY DEF Xor
<1>3. QED
  BY <1>1, <1>2

\* A byte through the table is eight turns of the word with the byte added.
LEMMA FeedTurns ==
    ASSUME NEW c \in Word, NEW byte \in Byte
    PROVE  /\ Bits(byte) \in SUBSET LowByte /\ Xor(c, Bits(byte)) \in Word
           /\ Feed[c][byte] = EightTurns(Xor(c, Bits(byte)))
           /\ Feed[c][byte] \in Word
<1> DEFINE b == Bits(byte)
           x == Xor(c, b)
           low == x \cap LowByte
           high == x \ LowByte
<1>1. b \in SUBSET LowByte /\ b \in Word
  BY DEF Bits, Word, LowByte
<1>2. x \in Word
  BY <1>1, WordTypes
<1>3. Feed[c][byte] = Xor(table[low], ShiftRight(c, 8))
  BY DEF Feed
<1>4. table[low] = EightTurns(low)
  BY DEF table
<1>5. ShiftRight(high, 8) = ShiftRight(c, 8)
  <2>1. \A i \in 0..31 : i + 8 \notin LowByte
    BY DEF LowByte
  <2>2. \A i : i \notin LowByte => (i \in high <=> i \in c)
    BY <1>1 DEF Xor
  <2> HIDE DEF b, x, high
  <2>3. QED
    BY <2>1, <2>2 DEF ShiftRight
<1>6. low \in Word /\ high \in Word /\ high \cap LowByte = {} /\ Xor(low, high) = x
  <2> HIDE DEF x
  <2>1. low \in Word /\ high \in Word
    BY <1>2 DEF Word
  <2>2. QED
    BY <2>1 DEF Xor
<1> HIDE DEF b, x, low, high
<1>7. EightTurns(high) = ShiftRight(high, 8)
  BY <1>6, EightShift
<1>8. EightTurns(x) = Xor(EightTurns(low), EightTurns(high)) /\ EightTurns(x) \in Word
  BY <1>2, <1>6, EightXor
<1>9. Feed[c][byte] = EightTurns(x)
  BY <1>3, <1>4, <1>5, <1>7, <1>8
<1>10. QED
  BY <1>1, <1>2, <1>8, <1>9 DEF b, x

LEMMA FeedIsRegister == Feed = Register
<1>1. ASSUME NEW c \in Word, NEW byte \in Byte
      PROVE  Feed[c][byte] = ShiftInByte(c, Bits(byte))
  BY <1>1, FeedTurns, ByteTurns
<1>2. Register = [c \in Word |-> [byte \in Byte |-> ShiftInByte(c, Bits(byte))]]
  BY DEF Register
<1>3. Feed = [c \in Word |-> [byte \in Byte |-> Feed[c][byte]]]
  BY DEF Feed
<1>4. [c \in Word |-> [byte \in Byte |-> Feed[c][byte]]]
        = [c \in Word |-> [byte \in Byte |-> ShiftInByte(c, Bits(byte))]]
  BY <1>1, Zenon
<1>5. QED
  BY <1>2, <1>3, <1>4

\* The table-driven sum is the CRC-32 of the shift register, for all data
\* (makeTable, update, crc32).
THEOREM TableIsRegister == \A data : crc32(data) = CRC32(data)
<1>1. \A data : Run(Feed, AllOnes, data) = Run(Register, AllOnes, data)
  BY FeedIsRegister
<1>2. QED
  BY <1>1, XorFacts DEF crc32, CRC32, Value, Update

-----------------------------------------------------------------------------
(* What the sum tells.                                                     *)

\* The top bit of a turn tells the bit that left at the bottom.
LEMMA TurnBack ==
    ASSUME NEW a \in Word, NEW m \in 0..31, Turn(a) \subseteq 0..(m - 1)
    PROVE  \A i \in a : i \in 1..m
<1>1. \A i \in a : i \in 0..31
  BY DEF Word
<1>2. 0 \notin a
  <2>1. SUFFICES ASSUME 0 \in a PROVE FALSE
    OBVIOUS
  <2>2. 31 \in Polynomial /\ 31 \notin ShiftRight(a, 1)
    BY <1>1 DEF Polynomial, ShiftRight
  <2>3. 31 \in Turn(a)
    BY <2>1, <2>2 DEF Turn, Xor
  <2>4. QED
    BY <2>3
<1>3. \A i \in a : i - 1 \in ShiftRight(a, 1)
  BY <1>1, <1>2 DEF ShiftRight
<1>4. \A i \in a : i - 1 \in 0..(m - 1)
  BY <1>2, <1>3 DEF Turn
<1>5. QED
  BY <1>1, <1>2, <1>4

\* Eight turns tell the byte that left at the bottom.
LEMMA EightBack ==
    ASSUME NEW a \in Word, NEW m \in 0..24, EightTurns(a) \subseteq 0..(m - 1)
    PROVE  a \subseteq 8..(m + 7)
<1> DEFINE Fits(x, lo, hi) == \A i \in x : i \in lo..hi
<1>1. \A x \in Word, n \in 0..31, lo \in 0..7 :
         Fits(Turn(x), lo, n - 1) => Fits(x, lo + 1, n)
  <2>1. TAKE x \in Word, n \in 0..31, lo \in 0..7
  <2>2. HAVE Fits(Turn(x), lo, n - 1)
  <2>3. \A i \in x : i \in 1..n
    <3>1. Turn(x) \subseteq 0..(n - 1)
      BY <2>2
    <3>2. QED
      BY <3>1, TurnBack
  <2>4. \A i \in x : i - 1 \in ShiftRight(x, 1) /\ 0 \notin x
    BY <2>3 DEF ShiftRight, Word
  <2>5. \A i \in x : i - 1 \in lo..(n - 1)
    BY <2>2, <2>4 DEF Turn
  <2>6. QED
    BY <2>3, <2>5
<1> DEFINE t1 == Turn(a)
           t2 == Turn(t1)
           t3 == Turn(t2)
           t4 == Turn(t3)
           t5 == Turn(t4)
           t6 == Turn(t5)
           t7 == Turn(t6)
           t8 == Turn(t7)
<1>2. EightTurns(a) = t8
  BY DEF EightTurns
<1>3. \A x \in Word : Turn(x) \in Word
  BY WordTypes
<1>4. /\ t1 \in Word /\ t2 \in Word /\ t3 \in Word /\ t4 \in Word
      /\ t5 \in Word /\ t6 \in Word /\ t7 \in Word
  BY <1>3
<1>5. /\ \A n \in 0..31, lo \in 0..7 :
            /\ Fits(t1, lo, n - 1) => Fits(a, lo + 1, n)
            /\ Fits(t2, lo, n - 1) => Fits(t1, lo + 1, n)
            /\ Fits(t3, lo, n - 1) => Fits(t2, lo + 1, n)
            /\ Fits(t4, lo, n - 1) => Fits(t3, lo + 1, n)
            /\ Fits(t5, lo, n - 1) => Fits(t4, lo + 1, n)
            /\ Fits(t6, lo, n - 1) => Fits(t5, lo + 1, n)
            /\ Fits(t7, lo, n - 1) => Fits(t6, lo + 1, n)
            /\ Fits(t8, lo, n - 1) => Fits(t7, lo + 1, n)
  <2> HIDE DEF Fits
  <2>1. QED
    BY <1>1, <1>4
<1>6. Fits(t8, 0, m - 1)
  BY <1>2
<1> HIDE DEF Fits, t1, t2, t3, t4, t5, t6, t7, t8
<1>7. \A x : \A lo, hi, lo2, hi2 : Fits(x, lo, hi) /\ lo = lo2 /\ hi = hi2 => Fits(x, lo2, hi2)
  OBVIOUS
<1>8. Fits(t7, 1, m)
  BY <1>5, <1>6
<1>9. Fits(t6, 2, m + 1)
  BY <1>5, <1>7, <1>8
<1>10. Fits(t5, 3, m + 2)
  BY <1>5, <1>7, <1>9
<1>11. Fits(t4, 4, m + 3)
  BY <1>5, <1>7, <1>10
<1>12. Fits(t3, 5, m + 4)
  BY <1>5, <1>7, <1>11
<1>13. Fits(t2, 6, m + 5)
  BY <1>5, <1>7, <1>12
<1>14. Fits(t1, 7, m + 6)
  BY <1>5, <1>7, <1>13
<1>15. Fits(a, 8, m + 7)
  BY <1>5, <1>7, <1>14
<1>16. QED
  BY <1>15 DEF Fits

LEMMA Halves ==
    ASSUME NEW z \in Nat
    PROVE  /\ (z \div 64) \div 2 = z \div 128 /\ z \div 64 \in Nat
           /\ (z \div 32) \div 2 = z \div 64 /\ z \div 32 \in Nat
           /\ (z \div 16) \div 2 = z \div 32 /\ z \div 16 \in Nat
           /\ (z \div 8) \div 2 = z \div 16 /\ z \div 8 \in Nat
           /\ (z \div 4) \div 2 = z \div 8 /\ z \div 4 \in Nat
           /\ (z \div 2) \div 2 = z \div 4 /\ z \div 2 \in Nat
<1>1. (z \div 64) \div 2 = z \div 128 /\ z \div 64 \in Nat
  OBVIOUS
<1>2. (z \div 32) \div 2 = z \div 64 /\ z \div 32 \in Nat
  OBVIOUS
<1>3. (z \div 16) \div 2 = z \div 32 /\ z \div 16 \in Nat
  OBVIOUS
<1>4. (z \div 8) \div 2 = z \div 16 /\ z \div 8 \in Nat
  OBVIOUS
<1>5. (z \div 4) \div 2 = z \div 8 /\ z \div 4 \in Nat
  OBVIOUS
<1>6. (z \div 2) \div 2 = z \div 4 /\ z \div 2 \in Nat
  OBVIOUS
<1>7. QED
  BY <1>1, <1>2, <1>3, <1>4, <1>5, <1>6

LEMMA HalfTells ==
    ASSUME NEW x \in Nat, NEW y \in Nat, x \div 2 = y \div 2, x % 2 = y % 2
    PROVE  x = y
OBVIOUS

\* A byte is told by its bits.
LEMMA BitsTell ==
    ASSUME NEW x \in Byte, NEW y \in Byte, Bits(x) = Bits(y)
    PROVE  x = y
<1>1. \A i \in 0..7 : (x \div Weight[i + 1]) % 2 = (y \div Weight[i + 1]) % 2
  <2>1. \A i \in 0..7 : /\ i \in Bits(x) <=> (x \div Weight[i + 1]) % 2 = 1
                        /\ i \in Bits(y) <=> (y \div Weight[i + 1]) % 2 = 1
    BY DEF Bits, LowByte
  <2>2. \A i \in 0..7 : Weight[i + 1] \in Nat \ {0}
    BY DEF Weight
  <2>3. \A z \in Byte, w \in Nat \ {0} : (z \div w) % 2 \in {0, 1}
    <3>1. TAKE z \in Byte, w \in Nat \ {0}
    <3>2. z \div w \in Nat
      BY DEF Byte
    <3>3. QED
      BY <3>2
  <2>4. QED
    BY <2>1, <2>2, <2>3
<1>2. /\ x % 2 = y % 2 /\ (x \div 2) % 2 = (y \div 2) % 2
      /\ (x \div 4) % 2 = (y \div 4) % 2 /\ (x \div 8) % 2 = (y \div 8) % 2
      /\ (x \div 16) % 2 = (y \div 16) % 2 /\ (x \div 32) % 2 = (y \div 32) % 2
      /\ (x \div 64) % 2 = (y \div 64) % 2 /\ (x \div 128) % 2 = (y \div 128) % 2
  <2>1. \A i \in 0..7 : Weight[i + 1] \in Nat /\ Weight[1] = 1
    BY DEF Weight
  <2>2. x \div 1 = x /\ y \div 1 = y
    BY DEF Byte
  <2>3. QED
    BY <1>1, <2>1, <2>2 DEF Weight
<1>3. x \in Nat /\ y \in Nat
  BY DEF Byte
<1>4. x \div 128 = y \div 128
  <2>1. \A z \in 0..255 : z \div 128 = (z \div 128) % 2
    OBVIOUS
  <2>2. QED
    BY <1>2, <2>1 DEF Byte
<1>5. x \div 64 = y \div 64
  <2> DEFINE p == x \div 64
           q == y \div 64
  <2>1. /\ p \in Nat /\ q \in Nat /\ p \div 2 = x \div 128 /\ q \div 2 = y \div 128
        /\ p % 2 = q % 2
    BY <1>2, <1>3, Halves
  <2> HIDE DEF p, q
  <2>2. QED
    BY <1>4, <2>1, HalfTells DEF p, q
<1>6. x \div 32 = y \div 32
  <2> DEFINE p == x \div 32
           q == y \div 32
  <2>1. /\ p \in Nat /\ q \in Nat /\ p \div 2 = x \div 64 /\ q \div 2 = y \div 64
        /\ p % 2 = q % 2
    BY <1>2, <1>3, Halves
  <2> HIDE DEF p, q
  <2>2. QED
    BY <1>5, <2>1, HalfTells DEF p, q
<1>7. x \div 16 = y \div 16
  <2> DEFINE p == x \div 16
           q == y \div 16
  <2>1. /\ p \in Nat /\ q \in Nat /\ p \div 2 = x \div 32 /\ q \div 2 = y \div 32
        /\ p % 2 = q % 2
    BY <1>2, <1>3, Halves
  <2> HIDE DEF p, q
  <2>2. QED
    BY <1>6, <2>1, HalfTells DEF p, q
<1>8. x \div 8 = y \div 8
  <2> DEFINE p == x \div 8
           q == y \div 8
  <2>1. /\ p \in Nat /\ q \in Nat /\ p \div 2 = x \div 16 /\ q \div 2 = y \div 16
        /\ p % 2 = q % 2
    BY <1>2, <1>3, Halves
  <2> HIDE DEF p, q
  <2>2. QED
    BY <1>7, <2>1, HalfTells DEF p, q
<1>9. x \div 4 = y \div 4
  <2> DEFINE p == x \div 4
           q == y \div 4
  <2>1. /\ p \in Nat /\ q \in Nat /\ p \div 2 = x \div 8 /\ q \div 2 = y \div 8
        /\ p % 2 = q % 2
    BY <1>2, <1>3, Halves
  <2> HIDE DEF p, q
  <2>2. QED
    BY <1>8, <2>1, HalfTells DEF p, q
<1>10. x \div 2 = y \div 2
  <2> DEFINE p == x \div 2
           q == y \div 2
  <2>1. /\ p \in Nat /\ q \in Nat /\ p \div 2 = x \div 4 /\ q \div 2 = y \div 4
        /\ p % 2 = q % 2
    BY <1>2, <1>3, Halves
  <2> HIDE DEF p, q
  <2>2. QED
    BY <1>9, <2>1, HalfTells DEF p, q
<1>11. QED
  BY <1>2, <1>3, <1>10, HalfTells

\* The sums on the way.
LEMMA FeedRun ==
    ASSUME NEW c \in Word, NEW data \in Seq(Byte)
    PROVE  \E r : /\ Follows(r, Feed, c, data)
                  /\ Run(Feed, c, data) = r[Len(data)]
                  /\ \A k \in 0..Len(data) : r[k] \in Word
<1>1. Keeps(Feed, Word, Byte)
  BY FeedTurns DEF Keeps
<1>2. QED
  BY <1>1, RunStays

\* Words that differ only in the m lowest places.
Near(a, b, m) == Xor(a, b) \subseteq 0..(m - 1)

\* One byte back: the difference of two sums before it is at most a byte
\* longer than after it, and equal sums that met took in equal bytes.
LEMMA ByteBack ==
    ASSUME NEW c \in Word, NEW d \in Word, NEW x \in Byte, NEW y \in Byte, NEW m \in 0..24,
           Near(Feed[c][x], Feed[d][y], m)
    PROVE  /\ Near(c, d, m + 8)
           /\ c = d => x = y
<1> DEFINE bx == Bits(x)
           by == Bits(y)
           z == Xor(Xor(c, bx), Xor(d, by))
<1>1. /\ bx \in SUBSET LowByte /\ by \in SUBSET LowByte
      /\ Xor(c, bx) \in Word /\ Xor(d, by) \in Word
      /\ Feed[c][x] = EightTurns(Xor(c, bx)) /\ Feed[d][y] = EightTurns(Xor(d, by))
  BY FeedTurns
<1>2. z \in Word /\ EightTurns(z) = Xor(Feed[c][x], Feed[d][y])
  <2>1. \A p, q \in Word : /\ Xor(p, q) \in Word
                           /\ EightTurns(Xor(p, q)) = Xor(EightTurns(p), EightTurns(q))
    BY EightXor, WordTypes
  <2>2. QED
    BY <1>1, <2>1
<1>3. z \subseteq 8..(m + 7)
  <2> HIDE DEF z
  <2>1. QED
    BY <1>2, EightBack DEF Near
<1>4. z = Xor(Xor(c, d), Xor(bx, by))
  BY DEF Xor
<1>5. Xor(bx, by) \subseteq LowByte
  BY <1>1 DEF Xor
<1> HIDE DEF z, bx, by
<1>6. \A i \in Xor(c, d) : i \in z \/ i \in LowByte
  BY <1>4, <1>5 DEF Xor
<1>7. Xor(c, d) \subseteq 0..(m + 7)
  <2>1. \A i \in Xor(c, d) : i \in 8..(m + 7) \/ i \in 0..7
    BY <1>3, <1>6 DEF LowByte
  <2>2. m + 7 >= 7 /\ m + 7 \in Nat
    OBVIOUS
  <2>3. \A i \in Xor(c, d) : i \in 0..(m + 7)
    BY <2>1, <2>2
  <2>4. QED
    BY <2>3
<1>8. ASSUME c = d
      PROVE  x = y
  <2>1. z = Xor(bx, by)
    BY <1>4, <1>8 DEF Xor
  <2>2. z = {}
    BY <1>3, <1>5, <2>1 DEF LowByte
  <2>3. bx = by
    BY <2>1, <2>2, XorNone
  <2>4. QED
    BY <2>3, BitsTell DEF bx, by
<1>9. (m + 8) - 1 = m + 7
  OBVIOUS
<1>10. QED
  BY <1>7, <1>8, <1>9 DEF Near

\* The same byte tells two sums apart that were apart.
LEMMA SameByte ==
    ASSUME NEW c \in Word, NEW d \in Word, NEW x \in Byte, Feed[c][x] = Feed[d][x]
    PROVE  c = d
<1> DEFINE p == Xor(c, Bits(x))
           q == Xor(d, Bits(x))
<1>1. p \in Word /\ q \in Word /\ EightTurns(p) = EightTurns(q)
  BY FeedTurns
<1>2. Xor(p, q) = Xor(c, d)
  BY DEF Xor
<1> HIDE DEF p, q
<1>3. Xor(p, q) \in Word /\ EightTurns(Xor(p, q)) = {}
  <2>1. EightTurns(Xor(p, q)) = Xor(EightTurns(p), EightTurns(q))
    BY <1>1, EightXor
  <2>2. Xor(p, q) \in Word
    BY <1>1, WordTypes
  <2>3. QED
    BY <1>1, <2>1, <2>2, XorNone
<1>4. Xor(p, q) \subseteq 8..7
  <2>1. 0 \in 0..24 /\ {} \subseteq 0..(0 - 1) /\ 0 + 7 = 7
    OBVIOUS
  <2>2. QED
    BY <1>3, <2>1, EightBack
<1>5. Xor(p, q) = {}
  BY <1>4
<1>6. QED
  BY <1>2, <1>5, XorNone

\* Sums that are apart stay apart over the same data.
LEMMA SameRest ==
    ASSUME NEW c \in Word, NEW d \in Word, NEW data \in Seq(Byte),
           Run(Feed, c, data) = Run(Feed, d, data)
    PROVE  c = d
<1>2. PICK r : /\ Follows(r, Feed, c, data)
               /\ Run(Feed, c, data) = r[Len(data)]
               /\ \A k \in 0..Len(data) : r[k] \in Word
  BY FeedRun
<1>3. PICK q : /\ Follows(q, Feed, d, data)
               /\ Run(Feed, d, data) = q[Len(data)]
               /\ \A k \in 0..Len(data) : q[k] \in Word
  BY FeedRun
<1> DEFINE n == Len(data)
           Apart == {j \in 0..n : r[n - j] # q[n - j]}
<1>4. n \in Nat /\ \A k \in 1..n : data[k] \in Byte
  OBVIOUS
<1>5. ASSUME NEW j \in Apart, \A i \in Apart : j <= i
      PROVE  FALSE
  <2>1. j # 0
    <3>1. r[n] = q[n]
      BY <1>2, <1>3
    <3>2. n - 0 = n
      BY <1>4
    <3> HIDE DEF n
    <3>3. QED
      BY <3>1, <3>2
  <2> DEFINE k == (n - j) + 1
  <2>2. /\ j - 1 \in 0..n /\ j - 1 \notin Apart /\ n - (j - 1) = k
        /\ k \in 1..n /\ k - 1 \in 0..n /\ k - 1 = n - j
    BY <1>4, <1>5, <2>1
  <2> HIDE DEF k
  <2>3. r[k] = q[k]
    BY <2>2
  <2>4. r[k - 1] = q[k - 1]
    <3> DEFINE rk == r[k - 1]
               qk == q[k - 1]
               x == data[k]
    <3>1. rk \in Word /\ qk \in Word /\ x \in Byte /\ Feed[rk][x] = Feed[qk][x]
      BY <1>2, <1>3, <1>4, <2>2, <2>3 DEF Follows
    <3> HIDE DEF rk, qk, x
    <3>2. rk = qk
      BY <3>1, SameByte
    <3>3. QED
      BY <3>2 DEF rk, qk
  <2>5. QED
    BY <2>2, <2>4
<1>6. Apart = {}
  <2>1. Apart \subseteq Nat
    OBVIOUS
  <2> HIDE DEF Apart
  <2>2. QED
    BY <1>5, <2>1, LeastOf
<1>7. n \in 0..n /\ n - n = 0
  BY <1>4
<1>8. QED
  BY <1>2, <1>3, <1>6, <1>7 DEF Follows

\* Four bytes or fewer in one place are told.
LEMMA BurstApart ==
    ASSUME NEW c \in Word, NEW u \in Seq(Byte), NEW v \in Seq(Byte),
           Len(u) = Len(v), Len(u) <= 4, Run(Feed, c, u) = Run(Feed, c, v)
    PROVE  u = v
<1> DEFINE n == Len(u)
<1>2. PICK r : /\ Follows(r, Feed, c, u)
               /\ Run(Feed, c, u) = r[n]
               /\ \A k \in 0..n : r[k] \in Word
  BY FeedRun
<1>3. PICK q : /\ Follows(q, Feed, c, v)
               /\ Run(Feed, c, v) = q[n]
               /\ \A k \in 0..n : q[k] \in Word
  <2>1. PICK q : /\ Follows(q, Feed, c, v)
                 /\ Run(Feed, c, v) = q[Len(v)]
                 /\ \A k \in 0..Len(v) : q[k] \in Word
    BY FeedRun
  <2>2. QED
    BY <2>1 DEF Follows
<1>4. n \in 0..4 /\ \A k \in 1..n : u[k] \in Byte /\ v[k] \in Byte
  OBVIOUS
<1>5. ASSUME NEW k \in 1..n, NEW m \in 0..24, Near(r[k], q[k], m)
      PROVE  /\ Near(r[k - 1], q[k - 1], m + 8)
             /\ r[k - 1] = q[k - 1] => u[k] = v[k] /\ r[k] = q[k]
  <2>1. /\ r[k - 1] \in Word /\ q[k - 1] \in Word /\ u[k] \in Byte /\ v[k] \in Byte
        /\ r[k] = Feed[r[k - 1]][u[k]] /\ q[k] = Feed[q[k - 1]][v[k]]
    BY <1>2, <1>3, <1>4 DEF Follows
  <2>2. Near(Feed[r[k - 1]][u[k]], Feed[q[k - 1]][v[k]], m)
    BY <1>5, <2>1
  <2> DEFINE rk == r[k - 1]
             qk == q[k - 1]
             x == u[k]
             y == v[k]
  <2>3. /\ rk \in Word /\ qk \in Word /\ x \in Byte /\ y \in Byte
        /\ Near(Feed[rk][x], Feed[qk][y], m)
    BY <2>1, <2>2
  <2> HIDE DEF rk, qk, x, y
  <2>4. Near(rk, qk, m + 8) /\ (rk = qk => x = y)
    BY <2>3, ByteBack
  <2>5. QED
    BY <2>1, <2>4 DEF rk, qk, x, y
<1>6. Near(r[n], q[n], 0)
  <2>1. r[n] = q[n]
    BY <1>2, <1>3
  <2>2. QED
    BY <2>1, XorNone DEF Near
<1> HIDE DEF n
<1>7. n >= 1 => Near(r[n - 1], q[n - 1], 8)
  BY <1>4, <1>5, <1>6
<1>8. n >= 2 => Near(r[n - 2], q[n - 2], 16)
  BY <1>4, <1>5, <1>7
<1>9. n >= 3 => Near(r[n - 3], q[n - 3], 24)
  BY <1>4, <1>5, <1>8
<1>10. \A k \in 1..n : r[k - 1] = q[k - 1] => u[k] = v[k] /\ r[k] = q[k]
  <2>1. TAKE k \in 1..n
  <2>2. k = n \/ k = n - 1 \/ k = n - 2 \/ k = n - 3
    BY <1>4
  <2>3. \E m \in 0..24 : Near(r[k], q[k], m)
    <3>1. k = n - 1 => n >= 1
      BY <1>4
    <3>2. k = n - 2 => n >= 2
      BY <1>4
    <3>3. k = n - 3 => n >= 3
      BY <1>4
    <3>4. 0 \in 0..24 /\ 8 \in 0..24 /\ 16 \in 0..24 /\ 24 \in 0..24
      OBVIOUS
    <3>5. QED
      BY <1>6, <1>7, <1>8, <1>9, <2>2, <3>1, <3>2, <3>3, <3>4
  <2>4. QED
    BY <1>5, <2>3
<1>11. r[0] = q[0]
  BY <1>2, <1>3 DEF Follows
<1>12. n >= 1 => u[1] = v[1] /\ r[1] = q[1]
  BY <1>4, <1>10, <1>11
<1>13. n >= 2 => u[2] = v[2] /\ r[2] = q[2]
  BY <1>4, <1>10, <1>12
<1>14. n >= 3 => u[3] = v[3] /\ r[3] = q[3]
  BY <1>4, <1>10, <1>13
<1>15. n >= 4 => u[4] = v[4]
  BY <1>4, <1>10, <1>14
<1>16. \A k \in 1..n : u[k] = v[k]
  BY <1>4, <1>12, <1>13, <1>14, <1>15
<1>17. QED
  BY <1>16 DEF n

\* Whatever stands before and after, and however long it is, data that
\* differ only within four bytes in a row have different sums (update).
THEOREM BurstIsTold ==
    \A before, after, u, v \in Seq(Byte) :
        /\ Len(u) = Len(v) /\ Len(u) <= 4
        /\ crc32(before \o u \o after) = crc32(before \o v \o after)
        => u = v
<1> SUFFICES ASSUME NEW before \in Seq(Byte), NEW after \in Seq(Byte),
                    NEW u \in Seq(Byte), NEW v \in Seq(Byte),
                    Len(u) = Len(v), Len(u) <= 4,
                    crc32(before \o u \o after) = crc32(before \o v \o after)
             PROVE  u = v
  OBVIOUS
<1>2. \A w \in Word, s \in Seq(Byte) : Run(Feed, w, s) \in Word
  <2>1. TAKE w \in Word, s \in Seq(Byte)
  <2>2. PICK r : /\ Follows(r, Feed, w, s)
                 /\ Run(Feed, w, s) = r[Len(s)]
                 /\ \A k \in 0..Len(s) : r[k] \in Word
    BY FeedRun
  <2>3. QED
    BY <2>2
<1>3. AllOnes \in Word
  BY DEF AllOnes, Word
<1> DEFINE c == Run(Feed, AllOnes, before)
<1>4. ASSUME NEW s \in Seq(Byte)
      PROVE  /\ crc32(before \o s \o after) = Xor(Run(Feed, Run(Feed, c, s), after), AllOnes)
             /\ Run(Feed, c, s) \in Word
  <2> DEFINE head == before \o s
  <2>1. head \in Seq(Byte)
    OBVIOUS
  <2> HIDE DEF head
  <2>2. Run(Feed, AllOnes, head \o after) = Run(Feed, Run(Feed, AllOnes, head), after)
    BY <2>1, RunGoesOn
  <2>3. Run(Feed, AllOnes, head) = Run(Feed, c, s)
    BY RunGoesOn DEF head
  <2>4. QED
    BY <1>2, <1>3, <2>2, <2>3 DEF crc32, Value, Update, head
<1>5. c \in Word
  BY <1>2, <1>3
<1> HIDE DEF c
<1>6. \A x, y : Xor(x, AllOnes) = Xor(y, AllOnes) => x = y
  <2>1. \A x : Xor(Xor(x, AllOnes), AllOnes) = x
    BY DEF Xor
  <2>2. QED
    BY <2>1
<1>7. Run(Feed, Run(Feed, c, u), after) = Run(Feed, Run(Feed, c, v), after)
  BY <1>4, <1>6
<1>8. Run(Feed, c, u) = Run(Feed, c, v)
  BY <1>4, <1>7, SameRest
<1>9. QED
  BY <1>5, <1>8, BurstApart

-----------------------------------------------------------------------------
(* The running sum over the frames of a file.                              *)

\* A frame's payload goes behind the bytes before it.
LEMMA JoinedMore ==
    ASSUME NEW bytes \in Seq(Nat), NEW f \in FrameOut
    PROVE  /\ Joined[bytes][f] = IF f.type = 2 THEN bytes \o f.payload ELSE bytes
           /\ Joined[bytes][f] \in Seq(Nat)
<1>1. f.payload \in Seq(Nat)
  BY DEF FrameOut
<1>2. bytes \o f.payload \in Seq(Nat)
  BY <1>1
<1>3. QED
  BY <1>2 DEF Joined

LEMMA BytesType ==
    ASSUME NEW fs \in Seq(FrameOut)
    PROVE  BytesOf(fs) \in Seq(Nat)
<1> DEFINE W == Seq(Nat)
<1>1. Keeps(Joined, W, FrameOut)
  BY JoinedMore DEF Keeps
<1>2. <<>> \in W
  OBVIOUS
<1> HIDE DEF W
<1>3. PICK r : /\ Follows(r, Joined, <<>>, fs)
               /\ Run(Joined, <<>>, fs) = r[Len(fs)]
               /\ \A k \in 0..Len(fs) : r[k] \in W
  BY <1>1, <1>2, RunStays
<1>4. QED
  BY <1>3 DEF BytesOf, W

SumKept == m_crc = Update(AllOnes, BytesOf(frames))

LEMMA SumAtStart == FramingInit => ParserInv /\ SumKept
<1> SUFFICES ASSUME FramingInit PROVE ParserInv /\ SumKept
  OBVIOUS
<1>1. Init /\ frames = <<>> /\ m_crc = AllOnes
  BY DEF FramingInit, MessagesInit, Init
<1>2. BytesOf(frames) = <<>>
  BY <1>1, RunOfNone DEF BytesOf
<1>3. QED
  BY <1>1, <1>2, RunOfNone, Start DEF SumKept, Update

\* The caller counts a payload when it takes the frame, and nothing else.
LEMMA SumAtUse ==
    ASSUME ParserInv, ParserInv', SumKept, Use, Count
    PROVE  SumKept'
<1>1. /\ frames \in Seq(FrameOut) /\ InUse \in FrameOut /\ frames' = Append(frames, InUse)
  <2>1. frames \in Seq(FrameOut) /\ frames' \in Seq(FrameOut)
    BY DEF ParserInv, ParserType, FrameRecord, FrameOut
  <2>2. frames' = Append(frames, InUse)
    BY DEF Use
  <2>3. frames'[Len(frames) + 1] = InUse /\ Len(frames') = Len(frames) + 1
    BY <2>1, <2>2
  <2>4. QED
    BY <2>1, <2>2, <2>3, ElementOfSeq
<1> DEFINE bytes == BytesOf(frames)
           f == InUse
<1>2. bytes \in Seq(Nat) /\ f.payload \in Seq(Nat) /\ f.type = frame.type
  BY <1>1, BytesType DEF FrameOut, InUse
<1>3. BytesOf(frames)' = Joined[bytes][f]
  BY <1>1, RunAppend DEF BytesOf
<1>4. BytesOf(frames)' = IF f.type = 2 THEN bytes \o f.payload ELSE bytes
  BY <1>1, <1>2, <1>3, JoinedMore
<1>5. m_crc' = IF f.type = 2 THEN Update(m_crc, f.payload) ELSE m_crc
  BY <1>2 DEF Use, Count
<1> HIDE DEF bytes, f
<1>6. Update(AllOnes, bytes \o f.payload) = Update(Update(AllOnes, bytes), f.payload)
  BY <1>2, RunGoesOn DEF Update
<1>7. m_crc = Update(AllOnes, bytes)
  BY DEF SumKept, bytes
<1>8. QED
  BY <1>4, <1>5, <1>6, <1>7 DEF SumKept

LEMMA SumStep ==
    ParserInv /\ SumKept /\ [FramingNext]_framingVars => ParserInv' /\ SumKept'
<1> SUFFICES ASSUME ParserInv, SumKept, [FramingNext]_framingVars
             PROVE  ParserInv' /\ SumKept'
  OBVIOUS
<1>1. [Next]_parserVars
  BY DEF FramingNext, MessagesNext, framingVars, messagesVars
<1>2. ParserInv'
  BY <1>1, ParserStep
<1>3. CASE FramingNext /\ Use
  BY <1>2, <1>3, SumAtUse DEF FramingNext
<1>4. CASE FramingNext /\ ~Use
  <2>1. Next /\ Count
    BY <1>4 DEF FramingNext, MessagesNext
  <2>2. caller # "use" /\ UNCHANGED frames
    BY <1>4, <2>1 DEF Next, next, Read, NeedMore, Error, Ready
  <2>3. QED
    BY <1>2, <2>1, <2>2 DEF Count, SumKept
<1>5. CASE UNCHANGED framingVars
  BY <1>2, <1>5 DEF framingVars, messagesVars, parserVars, SumKept
<1>6. QED
  BY <1>3, <1>4, <1>5

\* However the stream of a file is cut into frames and into reads, and whatever
\* else the peer says, the running sum over the payloads is the CRC-32 of the
\* file's bytes (Session::onData, Crc32::update).
THEOREM SumIsOfTheWhole == FramingSpec => []RunningCrc
<1>1. SumKept => RunningCrc
  <2>1. SumKept => Value(m_crc) = crc32(BytesOf(frames))
    BY DEF SumKept, crc32
  <2>2. QED
    BY <2>1, TableIsRegister DEF RunningCrc
<1>2. QED
  BY <1>1, SumAtStart, SumStep, PTL DEF FramingSpec

-----------------------------------------------------------------------------
\* With the program's CRC, one altered byte of a header or of a payload is
\* always told: what Messages assumes of Noise holds of bytes (update).
THEOREM AlteredByteIsDetected ==
    ASSUME \A s, t \in Seq(Byte) : Crc(s) = Crc(t) => crc32(s) = crc32(t),
           Noise \subseteq Byte
    PROVE  \A cells \in Seq(Byte) : Detected(cells)
<1> SUFFICES ASSUME NEW cells \in Seq(Byte), NEW i \in DOMAIN cells,
                    NEW noise \in Noise \ {cells[i]},
                    Crc([cells EXCEPT ![i] = noise]) = Crc(cells)
             PROVE  FALSE
  BY DEF Detected
<1> DEFINE altered == [cells EXCEPT ![i] = noise]
           n == Len(cells)
           before == SubSeq(cells, 1, i - 1)
           after == SubSeq(cells, i + 1, n)
<1>1. /\ n \in Nat /\ i \in 1..n /\ noise \in Byte /\ cells[i] \in Byte
      /\ \A k \in 1..n : cells[k] \in Byte
  OBVIOUS
<1>2. /\ altered \in Seq(Byte) /\ Len(altered) = n
      /\ \A k \in 1..n : altered[k] = IF k = i THEN noise ELSE cells[k]
  BY <1>1
<1>3. /\ before \in Seq(Byte) /\ Len(before) = i - 1
      /\ \A k \in 1..(i - 1) : before[k] = cells[k]
  <2>1. i - 1 \in Int /\ \A k \in 1..(i - 1) : cells[k] \in Byte
    BY <1>1
  <2>2. QED
    BY <1>1, <2>1, SubSeqProperties
<1>4. /\ after \in Seq(Byte) /\ Len(after) = n - i
      /\ \A k \in 1..(n - i) : after[k] = cells[i + k]
  <2>1. i + 1 \in Int /\ n \in Int /\ \A k \in (i + 1)..n : cells[k] \in Byte
    BY <1>1
  <2>2. /\ after \in Seq(Byte)
        /\ Len(after) = IF i + 1 <= n THEN n - (i + 1) + 1 ELSE 0
        /\ \A k \in 1..(n - (i + 1) + 1) : after[k] = cells[(i + 1) + k - 1]
    BY <2>1, SubSeqProperties
  <2>3. QED
    BY <1>1, <2>2
<1> HIDE DEF altered, n, before, after
<1>5. ASSUME NEW s \in Seq(Byte), Len(s) = n, \A k \in 1..n : k # i => s[k] = cells[k]
      PROVE  s = before \o <<s[i]>> \o after
  <2> DEFINE t == before \o <<s[i]>> \o after
  <2>1. s[i] \in Byte
    BY <1>1, <1>5
  <2>2. /\ t \in Seq(Byte) /\ Len(t) = n
        /\ \A k \in 1..(i - 1) : t[k] = before[k]
        /\ t[i] = s[i]
        /\ \A k \in 1..(n - i) : t[i + k] = after[k]
    <3> DEFINE head == before \o <<s[i]>>
    <3>1. /\ head \in Seq(Byte) /\ Len(head) = i /\ head[i] = s[i]
          /\ \A k \in 1..(i - 1) : head[k] = before[k]
      <4> DEFINE one == <<s[i]>>
      <4>1. one \in Seq(Byte) /\ Len(one) = 1 /\ one[1] = s[i]
        BY <2>1
      <4> HIDE DEF one
      <4>2. /\ before \o one \in Seq(Byte) /\ Len(before \o one) = Len(before) + Len(one)
            /\ \A k \in 1..Len(before) : (before \o one)[k] = before[k]
            /\ \A k \in 1..Len(one) : (before \o one)[Len(before) + k] = one[k]
        <5>1. before \in Seq(Byte) /\ one \in Seq(Byte)
          BY <1>3, <4>1
        <5>2. QED
          BY <5>1, Joining
      <4>3. (i - 1) + 1 = i /\ 1 \in 1..1
        BY <1>1
      <4>4. /\ Len(before \o one) = i /\ (before \o one)[i] = s[i]
            /\ \A k \in 1..(i - 1) : (before \o one)[k] = before[k]
        <5>1. Len(before) = i - 1 /\ Len(before) + 1 = i
          BY <1>1, <1>3
        <5>2. (before \o one)[Len(before) + 1] = one[1]
          BY <4>1, <4>2
        <5>3. QED
          BY <4>1, <4>2, <5>1, <5>2
      <4>5. QED
        BY <4>2, <4>4 DEF one
    <3> HIDE DEF head
    <3>2. /\ head \o after \in Seq(Byte) /\ Len(head \o after) = n
          /\ \A k \in 1..i : (head \o after)[k] = head[k]
          /\ \A k \in 1..(n - i) : (head \o after)[i + k] = after[k]
      <4>1. /\ head \o after \in Seq(Byte) /\ Len(head \o after) = Len(head) + Len(after)
            /\ \A k \in 1..Len(head) : (head \o after)[k] = head[k]
            /\ \A k \in 1..Len(after) : (head \o after)[Len(head) + k] = after[k]
        <5>1. head \in Seq(Byte) /\ after \in Seq(Byte)
          BY <1>4, <3>1
        <5>2. QED
          BY <5>1, Joining
      <4>2. i + (n - i) = n
        BY <1>1
      <4>3. QED
        BY <1>4, <3>1, <4>1, <4>2
    <3>3. t = head \o after /\ i \in 1..i /\ \A k \in 1..(i - 1) : k \in 1..i
      BY <1>1 DEF head
    <3> HIDE DEF t
    <3>4. QED
      BY <3>1, <3>2, <3>3
  <2> HIDE DEF t
  <2>3. ASSUME NEW k \in 1..n PROVE s[k] = t[k]
    <3>1. CASE k < i
      <4>1. k \in 1..(i - 1) /\ k # i
        BY <1>1, <3>1
      <4>2. QED
        BY <1>3, <1>5, <2>2, <4>1
    <3>2. CASE k = i
      BY <2>2, <3>2
    <3>3. CASE k > i
      <4>1. k - i \in 1..(n - i) /\ i + (k - i) = k
        BY <1>1, <3>3
      <4>2. QED
        BY <1>4, <1>5, <2>2, <3>3, <4>1
    <3>4. QED
      BY <1>1, <3>1, <3>2, <3>3
  <2>4. QED
    BY <1>5, <2>2, <2>3, SeqEqual DEF t
<1>6. cells = before \o <<cells[i]>> \o after
  BY <1>5 DEF n
<1>7. altered = before \o <<noise>> \o after
  <2>1. altered[i] = noise
    BY <1>1, <1>2
  <2>2. QED
    BY <1>2, <1>5, <2>1
<1>8. crc32(before \o <<noise>> \o after) = crc32(before \o <<cells[i]>> \o after)
  BY <1>2, <1>6, <1>7 DEF altered
<1> DEFINE u == <<noise>>
           v == <<cells[i]>>
<1>9. u \in Seq(Byte) /\ v \in Seq(Byte) /\ Len(u) = Len(v) /\ Len(u) <= 4 /\ u # v
  BY <1>1
<1>10. crc32(before \o u \o after) = crc32(before \o v \o after)
  BY <1>8
<1> HIDE DEF u, v
<1>11. QED
  BY <1>3, <1>4, <1>9, <1>10, BurstIsTold
=============================================================================
