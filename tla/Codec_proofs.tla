----------------------------- MODULE Codec_proofs -----------------------------
(***************************************************************************)
(* What is written is what is read: numbers and strings of the generated   *)
(* code (Varint), and the frames of the senders (Frames). In Wire TLC      *)
(* checks both on numbers below 2^28 and batches of two messages.          *)
(***************************************************************************)
EXTENDS Varint, Frames, SequenceTheorems, WellFoundedInduction, TLAPS

Byte == 0..255

\* int64: every number field, and every length, is of this range.
Two63 == 128 * (128 * (128 * (128 * (128 * (128 * (128 * (128 * 128)))))))
Int64 == {x \in Int : 0 - Two63 <= x /\ x < Two63}

\* The library's induction theorems take an operator; this one takes a set: what
\* holds 0 and with k also k + 1, up to n, holds all numbers up to n.
LEMMA Reaches ==
    ASSUME NEW n \in Nat, NEW T, 0 \in T, \A k \in 0..(n - 1) : k \in T => k + 1 \in T
    PROVE  \A k \in 0..n : k \in T
<1> DEFINE R == {ss \in Nat \X Nat : ss[1] < ss[2]}
           M == {k \in 0..n : k \notin T}
<1> SUFFICES ASSUME M # {} PROVE FALSE
  OBVIOUS
<1>1. IsWellFoundedOn(R, Nat)
  BY NatLessThanWellFounded DEF OpToRel
<1>2. M \subseteq Nat
  OBVIOUS
<1>3. PICK k \in M : \A m \in M : ~(<<m, k>> \in R)
  <2> HIDE DEF R, M
  <2> QED
    BY <1>1, <1>2, WFMin
<1>4. k \in 0..n /\ k \notin T /\ k # 0
  OBVIOUS
<1>5. k - 1 \in 0..(n - 1) /\ k - 1 < k /\ (k - 1) + 1 = k
  BY <1>4
<1>6. k - 1 \notin M
  <2>1. k - 1 \in M => <<k - 1, k>> \in R
    BY <1>4, <1>5
  <2> QED
    BY <1>3, <2>1
<1> QED
  BY <1>4, <1>5, <1>6

\* The least element of a set of numbers.
LEMMA MinIs ==
    ASSUME NEW S, NEW m \in S, S \subseteq Int, \A y \in S : m <= y
    PROVE  Min(S) = m
<1>1. \A z \in S : (\A y \in S : z <= y) => z = m
  <2>1. ASSUME NEW z \in S, \A y \in S : z <= y PROVE z = m
    <3>1. z <= m /\ m <= z /\ z \in Int /\ m \in Int
      BY <2>1
    <3> QED
      BY <3>1
  <2> QED
    BY <2>1
<1> QED
  BY <1>1 DEF Min

LEMMA MinExists ==
    ASSUME NEW S, S \subseteq Nat, S # {}
    PROVE  Min(S) \in S /\ \A y \in S : Min(S) <= y
<1> DEFINE R == {ss \in Nat \X Nat : ss[1] < ss[2]}
<1>1. IsWellFoundedOn(R, Nat)
  BY NatLessThanWellFounded DEF OpToRel
<1>2. PICK m \in S : \A y \in S : ~(<<y, m>> \in R)
  <2> HIDE DEF R
  <2> QED
    BY <1>1, WFMin
<1>3. \A y \in S : m <= y
  <2>1. ASSUME NEW y \in S PROVE m <= y
    <3>1. y \in Nat /\ m \in Nat /\ ~(<<y, m>> \in R)
      BY <1>2
    <3> QED
      BY <3>1
  <2> QED
    BY <2>1
<1>4. S \subseteq Int
  OBVIOUS
<1>5. Min(S) = m
  BY <1>3, <1>4, MinIs
<1> QED
  BY <1>3, <1>5
-----------------------------------------------------------------------------
\* The function that Shifted names exists, so that it is what its rule says.
LEMMA ShiftedRule ==
    ASSUME NEW x \in Int
    PROVE  /\ Shifted(x)[0] = x
           /\ \A k \in 1..9 : Shifted(x)[k] = Shifted(x)[k - 1] \div 128
           /\ \A k \in 0..9 : Shifted(x)[k] \in Int
<1> DEFINE Rule(v) == v = [k \in 0..9 |-> IF k = 0 THEN x ELSE v[k - 1] \div 128]
           t == Shifted(x)
           s1 == x \div 128
           s2 == s1 \div 128
           s3 == s2 \div 128
           s4 == s3 \div 128
           s5 == s4 \div 128
           s6 == s5 \div 128
           s7 == s6 \div 128
           s8 == s7 \div 128
           s9 == s8 \div 128
           g == [k \in 0..9 |-> IF k = 0 THEN x ELSE IF k = 1 THEN s1 ELSE
                                IF k = 2 THEN s2 ELSE IF k = 3 THEN s3 ELSE
                                IF k = 4 THEN s4 ELSE IF k = 5 THEN s5 ELSE
                                IF k = 6 THEN s6 ELSE IF k = 7 THEN s7 ELSE
                                IF k = 8 THEN s8 ELSE s9]
<1>1. Rule(g)
  <2>1. \A k \in 0..9 : g[k] = IF k = 0 THEN x ELSE g[k - 1] \div 128
    <3>1. ASSUME NEW k \in 0..9 PROVE g[k] = IF k = 0 THEN x ELSE g[k - 1] \div 128
      <4>1. \/ k = 0 \/ k = 1 \/ k = 2 \/ k = 3 \/ k = 4
            \/ k = 5 \/ k = 6 \/ k = 7 \/ k = 8 \/ k = 9
        OBVIOUS
      <4> HIDE DEF s1, s2, s3, s4, s5, s6, s7, s8, s9
      <4>2. CASE k \in {0, 1, 2, 3, 4}
        BY <4>2 DEF s1, s2, s3, s4
      <4>3. CASE k \in {5, 6, 7, 8, 9}
        BY <4>3 DEF s5, s6, s7, s8, s9
      <4> QED
        BY <4>1, <4>2, <4>3
    <3> QED
      BY <3>1
  <2> QED
    BY <2>1
<1>2. \E v : Rule(v)
  <2> HIDE DEF Rule, g
  <2> QED
    BY <1>1
<1>3. t = CHOOSE v : Rule(v)
  BY DEF Shifted
<1>4. Rule(t)
  <2> HIDE DEF Rule, t
  <2> QED
    BY <1>2, <1>3
<1>5. t[0] = x /\ \A k \in 1..9 : t[k] = t[k - 1] \div 128
  <2>1. t = [k \in 0..9 |-> IF k = 0 THEN x ELSE t[k - 1] \div 128]
    BY <1>4
  <2> HIDE DEF t
  <2> QED
    BY <2>1
<1>6. \A k \in 0..9 : t[k] \in Int
  <2> DEFINE T == {k \in 0..9 : t[k] \in Int}
  <2> HIDE DEF t
  <2>1. 0 \in T
    BY <1>5
  <2>2. ASSUME NEW k \in 0..8, k \in T PROVE k + 1 \in T
    <3>1. k + 1 \in 1..9 /\ (k + 1) - 1 = k
      BY <2>2
    <3>2. t[k + 1] = t[k] \div 128
      BY <1>5, <3>1
    <3> QED
      BY <2>2, <3>1, <3>2
  <2>3. \A k \in 0..9 : k \in T
    <3> HIDE DEF T
    <3>1. \A k \in 0..(9 - 1) : k \in T => k + 1 \in T
      BY <2>2
    <3> QED
      BY <2>1, <3>1, Reaches
  <2> QED
    BY <2>3
<1> QED
  BY <1>5, <1>6

\* After nine shifts nothing is left of an int64 but its sign.
LEMMA OneShift ==
    ASSUME NEW y \in Int
    PROVE  /\ y \div 128 \in Int
           /\ 128 * (y \div 128) <= y /\ y < 128 * (y \div 128) + 128
  OBVIOUS

LEMMA ThreeShifts ==
    ASSUME NEW y0 \in Int, NEW y1 \in Int, NEW y2 \in Int, NEW y3 \in Int, NEW b \in Int,
           128 * y1 <= y0, y0 < 128 * y1 + 128,
           128 * y2 <= y1, y1 < 128 * y2 + 128,
           128 * y3 <= y2, y2 < 128 * y3 + 128,
           0 - 128 * (128 * (128 * b)) <= y0, y0 < 128 * (128 * (128 * b))
    PROVE  /\ 0 - b <= y3 /\ y3 < b
           /\ y0 >= 0 => y1 >= 0 /\ y2 >= 0 /\ y3 >= 0
           /\ y0 < 0 => y3 < 0
  OBVIOUS

LEMMA SignIsLeft ==
    ASSUME NEW x \in Int64
    PROVE  /\ x >= 0 => Shifted(x)[9] = 0 /\ \A k \in 0..9 : Shifted(x)[k] \in Nat
           /\ x < 0 => Shifted(x)[9] = -1
<1> DEFINE t == Shifted(x)
           b3 == 128 * (128 * (128 * 1))
           b6 == 128 * (128 * (128 * b3))
           b9 == 128 * (128 * (128 * b6))
<1>1. x \in Int /\ 0 - b9 <= x /\ x < b9
  BY DEF Int64, Two63
<1>2. /\ b3 \in Int /\ b6 \in Int
      /\ b3 = 128 * (128 * (128 * 1)) /\ b6 = 128 * (128 * (128 * b3))
      /\ b9 = 128 * (128 * (128 * b6))
  OBVIOUS
<1> HIDE DEF t, b3, b6, b9
<1>3. /\ t[0] = x
      /\ \A k \in 1..9 : t[k] = t[k - 1] \div 128
      /\ \A k \in 0..9 : t[k] \in Int
  BY <1>1, ShiftedRule DEF t
<1>4. /\ t[0] \in Int /\ t[1] \in Int /\ t[2] \in Int /\ t[3] \in Int /\ t[4] \in Int
      /\ t[5] \in Int /\ t[6] \in Int /\ t[7] \in Int /\ t[8] \in Int /\ t[9] \in Int
  BY <1>3
<1>5. \A k \in 1..9 : 128 * t[k] <= t[k - 1] /\ t[k - 1] < 128 * t[k] + 128
  <2>1. ASSUME NEW k \in 1..9
        PROVE  128 * t[k] <= t[k - 1] /\ t[k - 1] < 128 * t[k] + 128
    <3>1. t[k] = t[k - 1] \div 128 /\ t[k - 1] \in Int
      BY <1>3
    <3> QED
      BY <3>1, OneShift
  <2> QED
    BY <2>1
<1>6. \A k \in 0..8 : 128 * t[k + 1] <= t[k] /\ t[k] < 128 * t[k + 1] + 128
  <2>1. \A k \in 0..8 : k + 1 \in 1..9 /\ (k + 1) - 1 = k
    OBVIOUS
  <2> QED
    BY <1>5, <2>1
<1>7. /\ 128 * t[1] <= t[0] /\ t[0] < 128 * t[1] + 128
      /\ 128 * t[2] <= t[1] /\ t[1] < 128 * t[2] + 128
      /\ 128 * t[3] <= t[2] /\ t[2] < 128 * t[3] + 128
      /\ 128 * t[4] <= t[3] /\ t[3] < 128 * t[4] + 128
      /\ 128 * t[5] <= t[4] /\ t[4] < 128 * t[5] + 128
      /\ 128 * t[6] <= t[5] /\ t[5] < 128 * t[6] + 128
      /\ 128 * t[7] <= t[6] /\ t[6] < 128 * t[7] + 128
      /\ 128 * t[8] <= t[7] /\ t[7] < 128 * t[8] + 128
      /\ 128 * t[9] <= t[8] /\ t[8] < 128 * t[9] + 128
  <2>1. /\ 128 * t[0 + 1] <= t[0] /\ t[0] < 128 * t[0 + 1] + 128
        /\ 128 * t[1 + 1] <= t[1] /\ t[1] < 128 * t[1 + 1] + 128
        /\ 128 * t[2 + 1] <= t[2] /\ t[2] < 128 * t[2 + 1] + 128
        /\ 128 * t[3 + 1] <= t[3] /\ t[3] < 128 * t[3 + 1] + 128
        /\ 128 * t[4 + 1] <= t[4] /\ t[4] < 128 * t[4 + 1] + 128
    BY <1>6
  <2>2. /\ 128 * t[5 + 1] <= t[5] /\ t[5] < 128 * t[5 + 1] + 128
        /\ 128 * t[6 + 1] <= t[6] /\ t[6] < 128 * t[6 + 1] + 128
        /\ 128 * t[7 + 1] <= t[7] /\ t[7] < 128 * t[7 + 1] + 128
        /\ 128 * t[8 + 1] <= t[8] /\ t[8] < 128 * t[8 + 1] + 128
    BY <1>6
  <2>3. 0 + 1 = 1 /\ 1 + 1 = 2 /\ 2 + 1 = 3 /\ 3 + 1 = 4 /\ 4 + 1 = 5
    OBVIOUS
  <2>4. 5 + 1 = 6 /\ 6 + 1 = 7 /\ 7 + 1 = 8 /\ 8 + 1 = 9
    OBVIOUS
  <2> QED
    BY <2>1, <2>2, <2>3, <2>4
<1>8. /\ 0 - b6 <= t[3] /\ t[3] < b6
      /\ t[0] >= 0 => t[1] >= 0 /\ t[2] >= 0 /\ t[3] >= 0
      /\ t[0] < 0 => t[3] < 0
  BY <1>1, <1>2, <1>3, <1>4, <1>7, ThreeShifts
<1>9. /\ 0 - b3 <= t[6] /\ t[6] < b3
      /\ t[3] >= 0 => t[4] >= 0 /\ t[5] >= 0 /\ t[6] >= 0
      /\ t[3] < 0 => t[6] < 0
  BY <1>2, <1>4, <1>7, <1>8, ThreeShifts
<1>10. /\ 0 - 1 <= t[9] /\ t[9] < 1
       /\ t[6] >= 0 => t[7] >= 0 /\ t[8] >= 0 /\ t[9] >= 0
       /\ t[6] < 0 => t[9] < 0
  BY <1>2, <1>4, <1>7, <1>9, ThreeShifts
<1>11. CASE x >= 0
  <2>1. /\ t[0] \in Nat /\ t[1] \in Nat /\ t[2] \in Nat /\ t[3] \in Nat /\ t[4] \in Nat
        /\ t[5] \in Nat /\ t[6] \in Nat /\ t[7] \in Nat /\ t[8] \in Nat /\ t[9] = 0
    BY <1>1, <1>3, <1>4, <1>8, <1>9, <1>10, <1>11
  <2>2. \A k \in 0..9 : k = 0 \/ k = 1 \/ k = 2 \/ k = 3 \/ k = 4 \/ k = 5 \/ k = 6
                          \/ k = 7 \/ k = 8 \/ k = 9
    OBVIOUS
  <2>3. \A k \in 0..9 : t[k] \in Nat
    BY <2>1, <2>2
  <2> QED
    BY <1>1, <1>11, <2>1, <2>3 DEF t
<1>12. CASE x < 0
  <2>1. t[9] = -1
    BY <1>1, <1>3, <1>4, <1>8, <1>9, <1>10, <1>12
  <2> QED
    BY <1>1, <1>12, <2>1 DEF t
<1> QED
  BY <1>1, <1>11, <1>12

\* What encodeVarint's loop does, and where it ends.
LEMMA LoopsEnd ==
    ASSUME NEW x \in Int64
    PROVE  /\ Loops(x) \in 0..9
           /\ x >= 0 => /\ Loops(x) <= 8
                        /\ Shifted(x)[Loops(x)] \in 0..127
                        /\ \A k \in 0..(Loops(x) - 1) : Shifted(x)[k] >= 128
           /\ x < 0 => Loops(x) = 9
<1>0. x \in Int
  BY DEF Int64
<1>1. CASE x < 0
  BY <1>0, <1>1 DEF Loops
<1>2. CASE x >= 0
  <2> DEFINE S == {k \in 0..8 : Shifted(x)[k] < 128}
  <2>1. Shifted(x)[9] = Shifted(x)[9 - 1] \div 128 /\ Shifted(x)[9] = 0
        /\ Shifted(x)[8] \in Nat
    BY <1>0, <1>2, ShiftedRule, SignIsLeft
  <2>2. Shifted(x)[8] < 128
    BY <2>1
  <2>3. 8 \in S /\ S \subseteq Nat
    BY <2>2
  <2>4. Min(S) \in S /\ \A y \in S : Min(S) <= y
    <3> HIDE DEF S
    <3> QED
      BY <2>3, MinExists
  <2>5. Loops(x) = Min(S)
    BY <1>0, <1>2 DEF Loops
  <2>6. /\ Loops(x) \in 0..8 /\ Shifted(x)[Loops(x)] < 128
        /\ \A y \in 0..8 : Shifted(x)[y] < 128 => Loops(x) <= y
    BY <2>4, <2>5
  <2>7. \A k \in 0..8 : Shifted(x)[k] \in Nat
    BY <1>2, SignIsLeft
  <2>8. ASSUME NEW k \in 0..(Loops(x) - 1) PROVE Shifted(x)[k] >= 128
    <3>1. k \in 0..8 /\ ~(Loops(x) <= k)
      BY <2>6
    <3> QED
      BY <2>6, <2>7, <3>1
  <2>9. Shifted(x)[Loops(x)] \in 0..127
    <3>1. Loops(x) \in 0..8
      BY <2>6
    <3>2. Shifted(x)[Loops(x)] \in Nat
      BY <2>7, <3>1
    <3>3. Shifted(x)[Loops(x)] < 128
      BY <2>6
    <3> QED
      BY <3>2, <3>3
  <2> QED
    BY <1>0, <1>2, <2>6, <2>8, <2>9
<1> QED
  BY <1>0, <1>1, <1>2

\* Every byte but the last one is marked.
LEMMA EncodedBytes ==
    ASSUME NEW x \in Int64
    PROVE  /\ EncodeVarint(x) \in Seq(Byte)
           /\ Len(EncodeVarint(x)) = Loops(x) + 1
           /\ \A i \in 1..Loops(x) :
                  /\ EncodeVarint(x)[i] = 128 + (Shifted(x)[i - 1] % 128)
                  /\ EncodeVarint(x)[i] >= 128
           /\ EncodeVarint(x)[Loops(x) + 1] =
                  IF x < 0 THEN 1 ELSE Shifted(x)[Loops(x)]
           /\ EncodeVarint(x)[Loops(x) + 1] < 128
<1> DEFINE n == Loops(x)
           E == EncodeVarint(x)
           byte(i) == IF i <= n THEN 128 + (Shifted(x)[i - 1] % 128)
                      ELSE IF x < 0 THEN 1 ELSE Shifted(x)[n]
<1>1. E = [i \in 1..(n + 1) |-> byte(i)]
  BY DEF EncodeVarint
<1>2. x \in Int /\ n \in 0..9
  BY LoopsEnd DEF Int64
<1>3. x >= 0 => Shifted(x)[n] \in 0..127
  BY LoopsEnd
<1> HIDE DEF n, E
<1>4. ASSUME NEW i \in 1..n
      PROVE  byte(i) = 128 + (Shifted(x)[i - 1] % 128) /\ byte(i) \in 128..255
  <2>1. i - 1 \in 0..9 /\ i <= n
    BY <1>2
  <2>2. Shifted(x)[i - 1] \in Int
    BY <1>2, <2>1, ShiftedRule
  <2>3. Shifted(x)[i - 1] % 128 \in 0..127
    BY <2>2
  <2> QED
    BY <2>1, <2>3
<1>5. /\ byte(n + 1) = IF x < 0 THEN 1 ELSE Shifted(x)[n]
      /\ byte(n + 1) \in 0..127
  <2>1. ~(n + 1 <= n)
    BY <1>2
  <2> QED
    BY <1>2, <1>3, <2>1
<1>6. \A i \in 1..(n + 1) : byte(i) \in Byte
  <2>1. \A i \in 1..(n + 1) : i \in 1..n \/ i = n + 1
    BY <1>2
  <2> HIDE DEF byte
  <2> QED
    BY <1>4, <1>5, <2>1 DEF Byte
<1>7. E \in Seq(Byte) /\ Len(E) = n + 1
  <2> HIDE DEF byte
  <2>1. n + 1 \in Nat
    BY <1>2
  <2> QED
    BY <1>1, <1>6, <2>1
<1>8. \A i \in 1..n : E[i] = byte(i)
  <2> HIDE DEF byte
  <2> QED
    BY <1>1, <1>2
<1>9. E[n + 1] = byte(n + 1)
  <2> HIDE DEF byte
  <2> QED
    BY <1>1, <1>2
<1>10. \A i \in 1..n : E[i] = 128 + (Shifted(x)[i - 1] % 128) /\ E[i] >= 128
  <2> HIDE DEF byte
  <2> QED
    BY <1>4, <1>8
<1>11. /\ E[n + 1] = IF x < 0 THEN 1 ELSE Shifted(x)[n]
       /\ E[n + 1] < 128
  <2> HIDE DEF byte
  <2> QED
    BY <1>5, <1>9
<1> QED
  BY <1>7, <1>10, <1>11 DEF n, E

\* sovSettings and encodeVarintSettings count with loops of their own: the size
\* computed before a message is marshalled is the size it takes, for every int64.
THEOREM SizeOfVarint ==
    ASSUME NEW x \in Int64
    PROVE  Sov(x) = Len(EncodeVarint(x))
<1>0. x \in Int
  BY DEF Int64
<1>1. CASE x < 0
  <2>1. Sov(x) = 10
    BY <1>0, <1>1 DEF Sov
  <2>2. Len(EncodeVarint(x)) = 9 + 1
    BY <1>1, LoopsEnd, EncodedBytes
  <2> QED
    BY <2>1, <2>2
<1>2. CASE x >= 0
  <2> DEFINE n == Loops(x)
             t == Shifted(x)
             S == {k \in 1..9 : t[k] = 0}
  <2>1. /\ n \in 0..8 /\ t[n] \in 0..127
        /\ \A k \in 0..(n - 1) : t[k] >= 128
    BY <1>2, LoopsEnd
  <2>2. /\ \A k \in 1..9 : t[k] = t[k - 1] \div 128
        /\ \A k \in 0..9 : t[k] \in Nat
    BY <1>0, <1>2, ShiftedRule, SignIsLeft
  <2> HIDE DEF n, t
  <2>3. n + 1 \in S
    <3>1. n + 1 \in 1..9 /\ (n + 1) - 1 = n
      BY <2>1
    <3>2. t[n + 1] = t[n] \div 128
      BY <2>2, <3>1
    <3>3. t[n] \div 128 = 0
      BY <2>1
    <3> QED
      BY <3>1, <3>2, <3>3
  <2>4. ASSUME NEW y \in S PROVE n + 1 <= y
    <3>1. SUFFICES ASSUME ~(n + 1 <= y) PROVE FALSE
      OBVIOUS
    <3>2. y \in 1..9 /\ y - 1 \in 0..(n - 1)
      BY <2>1, <3>1
    <3>3. t[y - 1] >= 128 /\ t[y] = t[y - 1] \div 128 /\ t[y] = 0 /\ t[y - 1] \in Nat
      BY <2>1, <2>2, <3>2
    <3> QED
      BY <3>3
  <2>5. Min(S) = n + 1
    <3>1. S \subseteq Int
      OBVIOUS
    <3> HIDE DEF S
    <3> QED
      BY <2>3, <2>4, <3>1, MinIs
  <2>6. Sov(x) = Min(S)
    BY <1>0, <1>2 DEF Sov, t
  <2> QED
    BY <2>5, <2>6, EncodedBytes DEF n
<1> QED
  BY <1>0, <1>1, <1>2
-----------------------------------------------------------------------------
LEMMA ByteIsInt == \A z \in Byte : z \in Int
  BY DEF Byte

LEMMA ElementOf ==
    ASSUME NEW S, NEW s \in Seq(S)
    PROVE  Len(s) \in Nat /\ \A i \in 1..Len(s) : s[i] \in S
  OBVIOUS

\* ReadVarint where the first byte that is not marked is the n-th after the one
\* at i: the function w from positions to values obeys the rule of value.
Chain(d, i, n, w) ==
    /\ i + n <= Len(d) /\ d[i + n] < 128
    /\ \A k \in 0..(n - 1) : d[i + k] >= 128
    /\ w[n] = IF n = 9 THEN 0 - (d[i + n] % 2) ELSE d[i + n] % 128
    /\ \A k \in 0..(n - 1) : w[k] = (d[i + k] % 128) + 128 * w[k + 1]

LEMMA ReadAt ==
    ASSUME NEW d \in Seq(Byte), NEW i \in Nat \ {0}, NEW n \in 0..9,
           NEW w \in [0..n -> Int], Chain(d, i, n, w)
    PROVE  ReadVarint(d, i) = Read(w[0], i + n + 1)
<1> DEFINE ends == {j \in i..(i + 9) : j <= Len(d) /\ d[j] < 128}
           e == Min(ends)
           Rule(v) == v = [j \in i..e |->
               IF j = i + 9 THEN 0 - (d[j] % 2)
               ELSE (d[j] % 128) + (IF j = e THEN 0 ELSE 128 * v[j + 1])]
           v == CHOOSE v : Rule(v)
           g == [j \in i..e |-> w[j - i]]
<1>0. /\ i + n <= Len(d) /\ d[i + n] < 128
      /\ \A k \in 0..(n - 1) : d[i + k] >= 128
      /\ w[n] = IF n = 9 THEN 0 - (d[i + n] % 2) ELSE d[i + n] % 128
      /\ \A k \in 0..(n - 1) : w[k] = (d[i + k] % 128) + 128 * w[k + 1]
  BY DEF Chain
<1>1. i + n \in ends
  BY <1>0
<1>2. ASSUME NEW j \in ends PROVE i + n <= j
  <2>1. SUFFICES ASSUME ~(i + n <= j) PROVE FALSE
    OBVIOUS
  <2>2. j \in i..(i + 9) /\ j <= Len(d) /\ d[j] < 128
    OBVIOUS
  <2> HIDE DEF ends
  <2>3. j - i \in 0..(n - 1) /\ i + (j - i) = j /\ j \in 1..Len(d)
    BY <2>1, <2>2
  <2>4. d[i + (j - i)] >= 128
    BY <1>0, <2>3
  <2>5. d[j] \in Int
    <3>1. d[j] \in Byte
      BY <2>3, ElementOf
    <3> QED
      BY <3>1, ByteIsInt
  <2> QED
    BY <2>2, <2>3, <2>4, <2>5
<1>3. e = i + n
  <2>1. ends \subseteq Int
    OBVIOUS
  <2> HIDE DEF ends
  <2> QED
    BY <1>1, <1>2, <2>1, MinIs
<1>4. ReadVarint(d, i) = Read(v[i], e + 1)
  <2>1. ends # {}
    BY <1>1
  <2> QED
    BY <2>1 DEF ReadVarint
<1> HIDE DEF e, ends
<1>5. \A j \in i..(i + n) : /\ j \in 1..Len(d) /\ d[j] \in Int
                            /\ j - i \in 0..n /\ i + (j - i) = j
  <2>1. \A j \in i..(i + n) : j \in 1..Len(d) /\ j - i \in 0..n /\ i + (j - i) = j
    OBVIOUS
  <2>2. \A j \in i..(i + n) : d[j] \in Int
    <3> HIDE DEF ends, e, v, g
    <3> QED
      <4>1. \A j \in i..(i + n) : d[j] \in Byte
        BY <2>1, ElementOf
      <4> QED
        BY <4>1, ByteIsInt
  <2> QED
    BY <2>1, <2>2
<1>6. Rule(g)
  <2>1. ASSUME NEW j \in i..e
        PROVE  g[j] = IF j = i + 9 THEN 0 - (d[j] % 2)
                      ELSE (d[j] % 128) + (IF j = e THEN 0 ELSE 128 * g[j + 1])
    <3>1. g[j] = w[j - i] /\ j - i \in 0..n /\ i + (j - i) = j /\ d[j] \in Int
      BY <1>3, <1>5
    <3>2. CASE j = e
      <4>1. j - i = n /\ (j = i + 9 <=> n = 9) /\ i + n = j
        BY <1>3, <3>2
      <4>2. w[n] = IF j = i + 9 THEN 0 - (d[j] % 2) ELSE d[j] % 128
        BY <1>0, <4>1
      <4> QED
        BY <3>1, <3>2, <4>1, <4>2
    <3>3. CASE j # e
      <4>1. j - i \in 0..(n - 1) /\ j # i + 9 /\ j + 1 \in i..e /\ (j + 1) - i = (j - i) + 1
        BY <1>3, <3>3
      <4>2. w[j - i] = (d[i + (j - i)] % 128) + 128 * w[(j - i) + 1]
        BY <1>0, <4>1
      <4>3. g[j + 1] = w[(j - i) + 1]
        BY <4>1
      <4> QED
        BY <3>1, <3>3, <4>1, <4>2, <4>3
    <3> QED
      BY <3>2, <3>3
  <2>2. g = [j \in i..e |-> g[j]]
    OBVIOUS
  <2> HIDE DEF g
  <2> DEFINE byRule(j) == IF j = i + 9 THEN 0 - (d[j] % 2)
                          ELSE (d[j] % 128) + (IF j = e THEN 0 ELSE 128 * g[j + 1])
  <2>3. \A j \in i..e : g[j] = byRule(j)
    BY <2>1
  <2>4. [j \in i..e |-> g[j]] = [j \in i..e |-> byRule(j)]
    <3> HIDE DEF byRule
    <3> QED
      BY <2>3
  <2> QED
    BY <2>2, <2>4
<1>7. Rule(v)
  <2>1. \E f : Rule(f)
    <3> HIDE DEF Rule, g
    <3> QED
      BY <1>6
  <2> HIDE DEF Rule
  <2> QED
    BY <2>1
<1>8. \A j \in i..(i + n) : v[j] = IF j = i + 9 THEN 0 - (d[j] % 2)
          ELSE (d[j] % 128) + (IF j = i + n THEN 0 ELSE 128 * v[j + 1])
  <2>1. v = [j \in i..e |-> IF j = i + 9 THEN 0 - (d[j] % 2)
             ELSE (d[j] % 128) + (IF j = e THEN 0 ELSE 128 * v[j + 1])]
    BY <1>7
  <2> HIDE DEF v
  <2> QED
    BY <1>3, <2>1
<1> HIDE DEF v
<1> DEFINE T == {m \in 0..n : v[i + (n - m)] = w[n - m]}
<1>9. 0 \in T
  <2>1. i + n \in i..(i + n) /\ n - 0 = n /\ d[i + n] \in Int
    BY <1>5
  <2>2. v[i + n] = IF n = 9 THEN 0 - (d[i + n] % 2) ELSE d[i + n] % 128
    <3>1. i + n = i + 9 <=> n = 9
      OBVIOUS
    <3>2. d[i + n] % 128 \in Int
      <4>1. \A z \in Int : z % 128 \in Int
        OBVIOUS
      <4> QED
        BY <2>1, <4>1
    <3>3. v[i + n] = IF i + n = i + 9 THEN 0 - (d[i + n] % 2) ELSE (d[i + n] % 128) + 0
      BY <1>8, <2>1
    <3> QED
      BY <3>1, <3>2, <3>3
  <2> QED
    BY <1>0, <2>1, <2>2
<1>10. ASSUME NEW m \in 0..(n - 1), m \in T PROVE m + 1 \in T
  <2> DEFINE k == n - (m + 1)
  <2>1. k \in 0..(n - 1) /\ k + 1 = n - m /\ m + 1 \in 0..n
    OBVIOUS
  <2> HIDE DEF k
  <2>2. i + k \in i..(i + n) /\ i + k # i + 9 /\ i + k # i + n /\ (i + k) + 1 = i + (k + 1)
    BY <2>1
  <2>3. v[i + k] = (d[i + k] % 128) + 128 * v[i + (k + 1)]
    <3> DEFINE j == i + k
    <3>1. j \in i..(i + n) /\ j # i + 9 /\ j # i + n /\ j + 1 = i + (k + 1)
      BY <2>2
    <3> HIDE DEF j
    <3>2. v[j] = (d[j] % 128) + 128 * v[j + 1]
      BY <1>8, <3>1
    <3> QED
      BY <3>1, <3>2 DEF j
  <2>4. v[i + (k + 1)] = w[k + 1]
    BY <1>10, <2>1
  <2>5. v[i + k] = w[k]
    BY <1>0, <2>1, <2>3, <2>4
  <2> QED
    BY <2>1, <2>5 DEF k
<1>11. v[i] = w[0]
  <2>1. \A m \in 0..n : m \in T
    <3> HIDE DEF T
    <3>1. n \in Nat
      OBVIOUS
    <3> QED
      BY <1>9, <1>10, <3>1, Reaches
  <2>2. n \in T
    <3> HIDE DEF T
    <3> QED
      BY <2>1
  <2>3. n - n = 0 /\ i + 0 = i
    OBVIOUS
  <2> QED
    BY <2>2, <2>3
<1>12. e + 1 = i + n + 1
  BY <1>3
<1> QED
  BY <1>4, <1>11, <1>12

\* A wire with c between a and b.
LEMMA InMiddle ==
    ASSUME NEW S, NEW a \in Seq(S), NEW b \in Seq(S), NEW c \in Seq(S)
    PROVE  /\ a \o c \o b \in Seq(S)
           /\ Len(a \o c \o b) = Len(a) + Len(c) + Len(b)
           /\ Len(a) \in Nat /\ Len(b) \in Nat /\ Len(c) \in Nat
           /\ \A i \in 1..Len(a) : (a \o c \o b)[i] = a[i]
           /\ \A i \in 1..Len(c) : (a \o c \o b)[Len(a) + i] = c[i]
           /\ \A i \in 1..Len(b) : (a \o c \o b)[Len(a) + Len(c) + i] = b[i]
<1>1. Len(a) \in Nat /\ Len(b) \in Nat /\ Len(c) \in Nat
  BY ElementOf
<1>2. /\ a \o c \in Seq(S) /\ Len(a \o c) = Len(a) + Len(c)
      /\ \A i \in 1..(Len(a) + Len(c)) :
             (a \o c)[i] = IF i <= Len(a) THEN a[i] ELSE c[i - Len(a)]
  BY ConcatProperties
<1> DEFINE ac == a \o c
<1> HIDE DEF ac
<1>3. /\ ac \o b \in Seq(S) /\ Len(ac \o b) = Len(ac) + Len(b)
      /\ \A i \in 1..(Len(ac) + Len(b)) :
             (ac \o b)[i] = IF i <= Len(ac) THEN ac[i] ELSE b[i - Len(ac)]
  BY <1>2, ConcatProperties DEF ac
<1>4. ASSUME NEW i \in 1..Len(a) PROVE (ac \o b)[i] = a[i]
  <2>1. i \in 1..(Len(a) + Len(c)) /\ i <= Len(a) /\ i <= Len(ac) /\ i \in 1..(Len(ac) + Len(b))
    BY <1>1, <1>2 DEF ac
  <2>2. (ac \o b)[i] = ac[i] /\ ac[i] = a[i]
    BY <1>2, <1>3, <2>1 DEF ac
  <2> QED
    BY <2>2
<1>5. ASSUME NEW i \in 1..Len(c) PROVE (ac \o b)[Len(a) + i] = c[i]
  <2> DEFINE j == Len(a) + i
  <2>1. /\ j \in 1..(Len(a) + Len(c)) /\ ~(j <= Len(a)) /\ j <= Len(ac)
        /\ j \in 1..(Len(ac) + Len(b)) /\ j - Len(a) = i
    BY <1>1, <1>2 DEF ac
  <2> HIDE DEF j
  <2>2. (ac \o b)[j] = ac[j] /\ ac[j] = c[j - Len(a)]
    BY <1>2, <1>3, <2>1 DEF ac
  <2> QED
    BY <2>1, <2>2 DEF j
<1>6. ASSUME NEW i \in 1..Len(b) PROVE (ac \o b)[Len(a) + Len(c) + i] = b[i]
  <2> DEFINE j == Len(a) + Len(c) + i
  <2>1. j \in 1..(Len(ac) + Len(b)) /\ ~(j <= Len(ac)) /\ j - Len(ac) = i
    BY <1>1, <1>2 DEF ac
  <2> HIDE DEF j
  <2>2. (ac \o b)[j] = b[j - Len(ac)]
    BY <1>3, <2>1
  <2> QED
    BY <2>1, <2>2 DEF j
<1> QED
  BY <1>1, <1>2, <1>3, <1>4, <1>5, <1>6 DEF ac
-----------------------------------------------------------------------------
\* Every int64 is read as it was written, wherever it stands, and the position
\* behind it is the next to be read.
THEOREM VarintRoundTrip ==
    ASSUME NEW x \in Int64, NEW a \in Seq(Byte), NEW b \in Seq(Byte)
    PROVE  ReadVarint(a \o EncodeVarint(x) \o b, Len(a) + 1)
               = Read(x, Len(a) + 1 + Len(EncodeVarint(x)))
<1> DEFINE E == EncodeVarint(x)
           t == Shifted(x)
           n == Loops(x)
           d == a \o E \o b
           i == Len(a) + 1
           w == [k \in 0..n |-> t[k]]
<1>1. /\ n \in 0..9
      /\ x >= 0 => n <= 8 /\ t[n] \in 0..127
      /\ x < 0 => n = 9
  BY LoopsEnd
<1>2. /\ E \in Seq(Byte) /\ Len(E) = n + 1
      /\ \A k \in 1..n : E[k] = 128 + (t[k - 1] % 128) /\ E[k] >= 128
      /\ E[n + 1] = IF x < 0 THEN 1 ELSE t[n]
      /\ E[n + 1] < 128
  BY EncodedBytes
<1>3. x \in Int
  BY DEF Int64
<1>4. /\ t[0] = x
      /\ \A k \in 1..9 : t[k] = t[k - 1] \div 128
      /\ \A k \in 0..9 : t[k] \in Int
  BY <1>3, ShiftedRule
<1>5. x < 0 => t[9] = -1
  BY SignIsLeft
<1> HIDE DEF E, t, n, d, w, i
<1>6. /\ d \in Seq(Byte) /\ Len(d) = Len(a) + Len(E) + Len(b)
      /\ Len(a) \in Nat /\ Len(b) \in Nat
      /\ \A k \in 1..Len(E) : d[Len(a) + k] = E[k]
  <2>1. E \in Seq(Byte)
    BY <1>2
  <2>2. /\ a \o E \o b \in Seq(Byte)
        /\ Len(a \o E \o b) = Len(a) + Len(E) + Len(b)
        /\ Len(a) \in Nat /\ Len(b) \in Nat
        /\ \A k \in 1..Len(E) : (a \o E \o b)[Len(a) + k] = E[k]
    BY <2>1, InMiddle
  <2> QED
    BY <2>2 DEF d
<1>7. i \in Nat \ {0} /\ i + n <= Len(d)
  BY <1>1, <1>2, <1>6 DEF i
<1>8. \A k \in 0..n : d[i + k] = E[k + 1]
  <2>1. \A k \in 0..n : k + 1 \in 1..Len(E) /\ i + k = Len(a) + (k + 1)
    BY <1>1, <1>2, <1>6 DEF i
  <2> QED
    BY <1>6, <2>1
<1>9. \A k \in 0..(n - 1) : /\ d[i + k] = 128 + (t[k] % 128) /\ d[i + k] >= 128
                            /\ k \in 0..n /\ k \in 0..8 /\ k + 1 \in 0..n
  <2>1. \A k \in 0..(n - 1) : /\ k \in 0..n /\ k \in 0..8 /\ k + 1 \in 0..n
                              /\ k + 1 \in 1..n /\ (k + 1) - 1 = k
    BY <1>1
  <2> QED
    BY <1>2, <1>8, <2>1
<1>10. d[i + n] = (IF x < 0 THEN 1 ELSE t[n]) /\ d[i + n] < 128
  <2>1. n \in 0..n
    BY <1>1
  <2>2. d[i + n] = E[n + 1]
    BY <1>8, <2>1
  <2> QED
    BY <1>2, <2>2
<1>11. /\ w \in [0..n -> Int]
       /\ \A k \in 0..n : w[k] = t[k]
  <2>1. \A k \in 0..n : k \in 0..9
    BY <1>1
  <2> QED
    BY <1>4, <2>1 DEF w
<1>12. w[n] = IF n = 9 THEN 0 - (d[i + n] % 2) ELSE d[i + n] % 128
  <2>1. w[n] = t[n]
    BY <1>1, <1>11
  <2>2. CASE x < 0
    <3>1. n = 9 /\ t[n] = -1 /\ d[i + n] = 1
      BY <1>1, <1>5, <1>10, <2>2
    <3> QED
      BY <2>1, <3>1
  <2>3. CASE x >= 0
    <3>1. n # 9 /\ t[n] \in 0..127 /\ d[i + n] = t[n]
      BY <1>1, <1>3, <1>10, <2>3
    <3>2. \A z \in 0..127 : z % 128 = z
      OBVIOUS
    <3> QED
      BY <2>1, <3>1, <3>2
  <2> QED
    BY <1>3, <2>2, <2>3
<1>13. ASSUME NEW k \in 0..(n - 1) PROVE w[k] = (d[i + k] % 128) + 128 * w[k + 1]
  <2>1. w[k] = t[k] /\ w[k + 1] = t[k + 1]
    BY <1>9, <1>11
  <2>2. t[k] \in Int
    <3>1. k \in 0..9
      BY <1>9
    <3> QED
      BY <1>4, <3>1
  <2>3. t[k + 1] = t[k] \div 128
    <3>1. k + 1 \in 1..9 /\ (k + 1) - 1 = k
      BY <1>9
    <3> QED
      BY <1>4, <3>1
  <2>4. \A y \in Int : y = ((128 + (y % 128)) % 128) + 128 * (y \div 128)
    OBVIOUS
  <2>5. t[k] = ((128 + (t[k] % 128)) % 128) + 128 * (t[k] \div 128)
    BY <2>2, <2>4
  <2>6. d[i + k] = 128 + (t[k] % 128)
    BY <1>9
  <2> QED
    BY <2>1, <2>3, <2>5, <2>6
<1>14. w[0] = x
  <2>1. 0 \in 0..n
    BY <1>1
  <2> QED
    BY <1>4, <1>11, <2>1
<1>15. ReadVarint(d, i) = Read(w[0], i + n + 1)
  <2>1. \A k \in 0..(n - 1) : d[i + k] >= 128
    BY <1>9
  <2>2. \A k \in 0..(n - 1) : w[k] = (d[i + k] % 128) + 128 * w[k + 1]
    BY <1>13
  <2>3. w \in [0..n -> Int]
    BY <1>11
  <2>4. d \in Seq(Byte)
    BY <1>6
  <2>5. d[i + n] < 128
    BY <1>10
  <2>6. n \in 0..9
    BY <1>1
  <2>7. Chain(d, i, n, w)
    BY <1>7, <1>12, <2>1, <2>2, <2>5 DEF Chain
  <2> QED
    BY <1>7, <2>3, <2>4, <2>6, <2>7, ReadAt
<1>16. i + n + 1 = Len(a) + 1 + Len(E)
  BY <1>1, <1>2, <1>6 DEF i
<1> QED
  BY <1>14, <1>15, <1>16 DEF E, d, i

\* Of a number that is cut short nothing is read: the error is noticed.
THEOREM VarintCut ==
    ASSUME NEW x \in Int64, NEW a \in Seq(Byte), NEW m \in 0..(Len(EncodeVarint(x)) - 1)
    PROVE  ReadVarint(a \o SubSeq(EncodeVarint(x), 1, m), Len(a) + 1) = Bad
<1> DEFINE E == EncodeVarint(x)
           c == SubSeq(E, 1, m)
           d == a \o c
           ends == {j \in (Len(a) + 1)..(Len(a) + 1 + 9) : j <= Len(d) /\ d[j] < 128}
<1>1. /\ E \in Seq(Byte) /\ Len(E) = Loops(x) + 1 /\ Loops(x) \in 0..9
      /\ \A k \in 1..Loops(x) : E[k] >= 128
  BY EncodedBytes, LoopsEnd
<1>2. m \in 0..Loops(x)
  BY <1>1
<1> HIDE DEF E
<1>3. c \in Seq(Byte) /\ Len(c) = m /\ \A k \in 1..m : c[k] = E[k]
  BY <1>1, <1>2
<1> HIDE DEF c
<1>4. /\ Len(a) \in Nat /\ Len(d) = Len(a) + m
      /\ \A k \in 1..(Len(a) + m) : d[k] = IF k <= Len(a) THEN a[k] ELSE c[k - Len(a)]
  BY <1>3, ElementOf, ConcatProperties
<1> HIDE DEF d
<1>5. ends = {}
  <2>1. ASSUME NEW j \in ends PROVE FALSE
    <3>1. j \in Int /\ Len(a) + 1 <= j /\ j <= Len(d) /\ d[j] < 128
      BY <1>4
    <3> DEFINE k == j - Len(a)
    <3>2. j \in 1..(Len(a) + m) /\ ~(j <= Len(a)) /\ k \in 1..m /\ k \in 1..Loops(x)
      <4>1. Loops(x) \in Int /\ m \in Int /\ 0 <= m /\ m <= Loops(x) /\ Len(a) \in Int
            /\ 0 <= Len(a) /\ Len(d) = Len(a) + m
        BY <1>1, <1>2, <1>4
      <4> QED
        BY <3>1, <4>1
    <3>3. d[j] = c[k]
      BY <1>4, <3>2
    <3> HIDE DEF k
    <3>4. c[k] = E[k]
      BY <1>3, <3>2
    <3>5. E[k] >= 128
      BY <1>1, <3>2
    <3>6. E[k] \in Byte
      <4>1. k \in 1..Len(E)
        <5>1. k \in Int /\ 1 <= k /\ k <= Loops(x) /\ Loops(x) \in Int
          BY <1>1, <3>2
        <5>2. Len(E) = Loops(x) + 1
          BY <1>1
        <5> QED
          BY <5>1, <5>2
      <4> QED
        BY <1>1, <4>1, ElementOf
    <3> QED
      BY <3>1, <3>3, <3>4, <3>5, <3>6, ByteIsInt
  <2> QED
    BY <2>1
<1>6. ReadVarint(d, Len(a) + 1) = Bad
  BY <1>5 DEF ReadVarint
<1> QED
  BY <1>6 DEF c, d, E

\* Two numbers have the same bytes, or one the bytes with which the other
\* begins, only if they are equal: what compares encodings compares numbers.
THEOREM VarintPrefixFree ==
    ASSUME NEW x \in Int64, NEW y \in Int64, NEW b \in Seq(Byte), NEW c \in Seq(Byte),
           EncodeVarint(x) \o b = EncodeVarint(y) \o c
    PROVE  x = y /\ b = c
<1> DEFINE X == EncodeVarint(x)
           Y == EncodeVarint(y)
<1>1. X \in Seq(Byte) /\ Y \in Seq(Byte) /\ <<>> \in Seq(Byte)
  BY EncodedBytes
<1>2. /\ ReadVarint(<<>> \o X \o b, Len(<<>>) + 1) = Read(x, Len(<<>>) + 1 + Len(X))
      /\ ReadVarint(<<>> \o Y \o c, Len(<<>>) + 1) = Read(y, Len(<<>>) + 1 + Len(Y))
  BY <1>1, VarintRoundTrip
<1>3. X \o b = Y \o c
  OBVIOUS
<1> HIDE DEF X, Y
<1>4. <<>> \o X = X /\ <<>> \o Y = Y
  BY <1>1, ConcatEmptySeq
<1>5. Read(x, Len(<<>>) + 1 + Len(X)) = Read(y, Len(<<>>) + 1 + Len(Y))
  BY <1>2, <1>3, <1>4
<1>6. x = y
  BY <1>5 DEF Read
<1>7. X \o b = X \o c
  BY <1>3, <1>6 DEF X, Y
<1>8. b = c
  BY <1>1, <1>7, ConcatSimplifications
<1> QED
  BY <1>6, <1>8

LEMMA InMiddleLen ==
    ASSUME NEW S, NEW a \in Seq(S), NEW b \in Seq(S), NEW c \in Seq(S)
    PROVE  a \o c \o b \in Seq(S) /\ Len(a \o c \o b) = Len(a) + Len(c) + Len(b)
  BY InMiddle

\* The part of a wire where c stands.
LEMMA PartOf ==
    ASSUME NEW S, NEW d \in Seq(S), NEW c \in Seq(S), NEW p \in Nat, p + Len(c) <= Len(d),
           \A i \in 1..Len(c) : d[p + i] = c[i]
    PROVE  SubSeq(d, p + 1, p + Len(c)) = c
<1> DEFINE s == SubSeq(d, p + 1, p + Len(c))
<1>1. Len(c) \in Nat /\ Len(d) \in Nat
  BY ElementOf
<1>2. \A i \in (p + 1)..(p + Len(c)) : d[i] \in S
  <2>1. \A i \in (p + 1)..(p + Len(c)) : i \in 1..Len(d)
    BY <1>1
  <2> QED
    BY <2>1, ElementOf
<1>3. p + 1 \in Int /\ p + Len(c) \in Int
  BY <1>1
<1>4. /\ s \in Seq(S)
      /\ Len(s) = IF p + 1 <= p + Len(c) THEN (p + Len(c)) - (p + 1) + 1 ELSE 0
      /\ \A i \in 1..((p + Len(c)) - (p + 1) + 1) : s[i] = d[(p + 1) + i - 1]
  BY <1>2, <1>3, SubSeqProperties
<1> HIDE DEF s
<1>5. Len(s) = Len(c)
  BY <1>1, <1>4
<1>6. ASSUME NEW i \in 1..Len(s) PROVE s[i] = c[i]
  <2>1. i \in 1..Len(c) /\ i \in 1..((p + Len(c)) - (p + 1) + 1) /\ (p + 1) + i - 1 = p + i
    BY <1>1, <1>5
  <2> QED
    BY <1>4, <2>1
<1>7. s = c
  BY <1>4, <1>5, <1>6, SeqEqual
<1> QED
  BY <1>7 DEF s

LEMMA Associative ==
    ASSUME NEW s \in Seq(Byte), NEW t \in Seq(Byte), NEW u \in Seq(Byte)
    PROVE  (s \o t) \o u = s \o (t \o u)
BY ConcatAssociative

\* A string, or a message in a message, is read as it was written. The position
\* behind it, postIndex, is an int like every length.
THEOREM BytesRoundTrip ==
    ASSUME NEW v \in Seq(Byte), Len(v) \in Int64, NEW a \in Seq(Byte), NEW b \in Seq(Byte),
           Len(a) + Len(EncodeVarint(Len(v)) \o v) \in Int64
    PROVE  ReadBytes(a \o (EncodeVarint(Len(v)) \o v) \o b, Len(a) + 1)
               = Read(v, Len(a) + 1 + Len(EncodeVarint(Len(v)) \o v))
<1> DEFINE E == EncodeVarint(Len(v))
           d == a \o (E \o v) \o b
           p == Len(a) + Len(E)
           n == Read(Len(v), p + 1)
<1>1. E \in Seq(Byte)
  BY EncodedBytes
<1>2. v \o b \in Seq(Byte)
  BY ConcatProperties
<1>3. ReadVarint(a \o E \o (v \o b), Len(a) + 1) = Read(Len(v), Len(a) + 1 + Len(E))
  BY <1>2, VarintRoundTrip
<1> HIDE DEF E
<1>4. /\ a \o E \in Seq(Byte) /\ Len(a \o E) = Len(a) + Len(E)
      /\ E \o v \in Seq(Byte) /\ Len(E \o v) = Len(E) + Len(v)
      /\ Len(a) \in Nat /\ Len(b) \in Nat /\ Len(E) \in Nat /\ Len(v) \in Nat
  BY <1>1, ConcatProperties, ElementOf
<1>5. d = a \o E \o v \o b /\ a \o E \o (v \o b) = a \o E \o v \o b
  <2>1. (a \o E) \o v = a \o (E \o v)
    BY <1>1, Associative
  <2>2. ((a \o E) \o v) \o b = (a \o E) \o (v \o b)
    <3> DEFINE ae == a \o E
    <3>1. ae \in Seq(Byte)
      BY <1>4
    <3> HIDE DEF ae
    <3>2. (ae \o v) \o b = ae \o (v \o b)
      BY <3>1, Associative
    <3> QED
      BY <3>2 DEF ae
  <2> QED
    BY <2>1, <2>2
<1> HIDE DEF d
<1>6. ReadVarint(d, Len(a) + 1) = n
  <2>1. Len(a) + 1 + Len(E) = p + 1
    BY <1>4
  <2> QED
    BY <1>3, <1>5, <2>1
<1>7. /\ d \in Seq(Byte) /\ Len(d) = p + Len(v) + Len(b)
      /\ \A i \in 1..Len(v) : d[p + i] = v[i]
  <2> DEFINE ae == a \o E
  <2>1. ae \in Seq(Byte) /\ Len(ae) = p
    BY <1>4
  <2>2. d = ae \o v \o b
    BY <1>5
  <2> HIDE DEF ae, p
  <2>3. /\ ae \o v \o b \in Seq(Byte)
        /\ Len(ae \o v \o b) = Len(ae) + Len(v) + Len(b)
        /\ \A i \in 1..Len(v) : (ae \o v \o b)[Len(ae) + i] = v[i]
    <3>1. ae \in Seq(Byte)
      BY <2>1
    <3> HIDE <2>1
    <3> QED
      BY <3>1, InMiddle
  <2> QED
    BY <2>1, <2>2, <2>3
<1>8. SubSeq(d, p + 1, p + Len(v)) = v
  <2>1. p \in Nat /\ p + Len(v) <= Len(d)
    BY <1>4, <1>7
  <2> HIDE DEF p
  <2> QED
    BY <1>7, <2>1, PartOf
<1>9. n.v = Len(v) /\ n.next = p + 1
  BY DEF Read
<1> HIDE DEF n
<1>10. /\ ~IsBad(n) /\ ~(n.v < 0) /\ ~(n.next + n.v - 1 > Len(d))
       /\ n.next + n.v - 1 = p + Len(v) /\ n.next + n.v = Len(a) + 1 + Len(E \o v)
  <2>1. p \in Nat /\ Len(d) = p + Len(v) + Len(b) /\ Len(E \o v) = Len(E) + Len(v)
    BY <1>4, <1>7
  <2>2. n.next + n.v - 1 = p + Len(v) /\ n.next + n.v = p + 1 + Len(v)
    BY <1>4, <1>9, <2>1
  <2>3. p + 1 + Len(v) = Len(a) + 1 + Len(E \o v)
    BY <1>4
  <2>4. ~(p + Len(v) > p + Len(v) + Len(b)) /\ ~(Len(v) < 0) /\ p + 1 # 0
    BY <1>4, <2>1
  <2> QED
    BY <1>9, <2>1, <2>2, <2>3, <2>4 DEF IsBad
<1>11. BytesAfter(d, n) = Read(v, Len(a) + 1 + Len(E \o v))
  <2>1. SubSeq(d, n.next, n.next + n.v - 1) = v
    BY <1>8, <1>9, <1>10
  <2> QED
    BY <1>10, <2>1 DEF BytesAfter
<1> QED
  BY <1>6, <1>11 DEF ReadBytes, d, E

\* The beginning of one sequence behind another.
LEMMA BeginningOf ==
    ASSUME NEW S, NEW s \in Seq(S), NEW t \in Seq(S), NEW m \in 0..(Len(s) + Len(t))
    PROVE  /\ m <= Len(s) => SubSeq(s \o t, 1, m) = SubSeq(s, 1, m)
           /\ m > Len(s) => SubSeq(s \o t, 1, m) = s \o SubSeq(t, 1, m - Len(s))
<1> DEFINE st == s \o t
           u == SubSeq(st, 1, m)
<1>1. Len(s) \in Nat /\ Len(t) \in Nat
  BY ElementOf
<1>2. /\ st \in Seq(S) /\ Len(st) = Len(s) + Len(t)
      /\ \A i \in 1..(Len(s) + Len(t)) : st[i] = IF i <= Len(s) THEN s[i] ELSE t[i - Len(s)]
  BY ConcatProperties
<1> HIDE DEF st
<1>3. /\ u \in Seq(S) /\ Len(u) = m
      /\ \A i \in 1..m : u[i] = st[i]
  <2>1. \A i \in 1..m : i \in 1..Len(st)
    BY <1>1, <1>2
  <2>2. \A i \in 1..m : st[i] \in S
    BY <1>2, <2>1, ElementOf
  <2>3. /\ u \in Seq(S) /\ Len(u) = IF 1 <= m THEN m - 1 + 1 ELSE 0
        /\ \A i \in 1..(m - 1 + 1) : u[i] = st[1 + i - 1]
    <3>1. m \in Int /\ 1 \in Int
      BY <1>1
    <3> QED
      BY <2>2, <3>1, SubSeqProperties
  <2>4. m \in Nat
    BY <1>1
  <2> HIDE DEF u
  <2>5. \A i \in 1..m : i \in 1..(m - 1 + 1) /\ 1 + i - 1 = i
    BY <2>4
  <2> QED
    BY <2>3, <2>4, <2>5
<1> HIDE DEF u
<1>4. CASE m <= Len(s)
  <2> DEFINE w == SubSeq(s, 1, m)
  <2>1. m \in 0..Len(s)
    BY <1>1, <1>4
  <2>2. w \in Seq(S) /\ Len(w) = m /\ \A i \in 1..m : w[i] = s[i]
    BY <1>1, <2>1
  <2> HIDE DEF w
  <2>3. \A i \in 1..m : u[i] = w[i]
    <3>1. \A i \in 1..m : i \in 1..(Len(s) + Len(t)) /\ i <= Len(s)
      BY <1>1, <1>4
    <3> QED
      BY <1>2, <1>3, <2>2, <3>1
  <2>4. u = w
    BY <1>3, <2>2, <2>3, SeqEqual
  <2> QED
    BY <1>1, <1>4, <2>4 DEF u, w, st
<1>5. CASE m > Len(s)
  <2> DEFINE k == m - Len(s)
             w == SubSeq(t, 1, k)
  <2>1. k \in 0..Len(t) /\ m = Len(s) + k /\ k \in Nat
    BY <1>1, <1>5
  <2> HIDE DEF k
  <2>2. w \in Seq(S) /\ Len(w) = k /\ \A i \in 1..k : w[i] = t[i]
    BY <1>1, <2>1
  <2> HIDE DEF w
  <2>3. /\ s \o w \in Seq(S) /\ Len(s \o w) = Len(s) + Len(w)
        /\ \A i \in 1..(Len(s) + Len(w)) :
               (s \o w)[i] = IF i <= Len(s) THEN s[i] ELSE w[i - Len(s)]
    BY <2>2, ConcatProperties
  <2>4. Len(u) = Len(s \o w)
    BY <1>3, <2>1, <2>2, <2>3
  <2>5. ASSUME NEW i \in 1..Len(u) PROVE u[i] = (s \o w)[i]
    <3>1. i \in 1..m /\ i \in 1..(Len(s) + Len(t)) /\ i \in 1..(Len(s) + Len(w))
      BY <1>1, <1>3, <2>1, <2>2
    <3>2. u[i] = IF i <= Len(s) THEN s[i] ELSE t[i - Len(s)]
      BY <1>2, <1>3, <3>1
    <3>3. ~(i <= Len(s)) => i - Len(s) \in 1..k
      BY <1>1, <2>1, <3>1
    <3> QED
      BY <2>2, <2>3, <3>1, <3>2, <3>3
  <2>6. u = s \o w
    BY <1>3, <2>3, <2>4, <2>5, SeqEqual
  <2>7. ~(m <= Len(s))
    BY <1>1, <1>5
  <2> QED
    BY <2>6, <2>7 DEF u, w, st, k
<1> QED
  BY <1>1, <1>4, <1>5

\* A string that is cut short, in its length or behind it, is an error. The
\* position at which the whole string would end is an int, which is why the sum
\* in the test for it does not overflow.
THEOREM BytesCut ==
    ASSUME NEW v \in Seq(Byte), Len(v) \in Int64, NEW a \in Seq(Byte),
           Len(a) + Len(EncodeVarint(Len(v)) \o v) \in Int64,
           NEW m \in 0..(Len(EncodeVarint(Len(v)) \o v) - 1)
    PROVE  ReadBytes(a \o SubSeq(EncodeVarint(Len(v)) \o v, 1, m), Len(a) + 1) = Bad
<1> DEFINE E == EncodeVarint(Len(v))
           cut == SubSeq(E \o v, 1, m)
           n == ReadVarint(a \o cut, Len(a) + 1)
<1>1. E \in Seq(Byte)
  BY EncodedBytes
<1>2. /\ Len(E \o v) = Len(E) + Len(v) /\ Len(a) \in Nat /\ Len(E) \in Nat /\ Len(v) \in Nat
  BY <1>1, ConcatProperties, ElementOf
<1>3. m \in 0..(Len(E) + Len(v) - 1) /\ m \in 0..(Len(E) + Len(v))
  BY <1>2
<1>4. /\ m <= Len(E) => cut = SubSeq(E, 1, m)
      /\ m > Len(E) => cut = E \o SubSeq(v, 1, m - Len(E))
  BY <1>1, <1>3, BeginningOf
<1>5. CASE m < Len(E)
  <2>1. m \in 0..(Len(E) - 1) /\ cut = SubSeq(E, 1, m)
    BY <1>2, <1>3, <1>4, <1>5
  <2>2. n = Bad
    BY <2>1, VarintCut
  <2> HIDE DEF n
  <2>3. IsBad(n)
    BY <2>2 DEF IsBad, Bad, Read
  <2>4. BytesAfter(a \o cut, n) = Bad
    BY <2>3 DEF BytesAfter
  <2> QED
    BY <2>4 DEF ReadBytes, n
<1>6. CASE m >= Len(E)
  <2> DEFINE k == m - Len(E)
             w == SubSeq(v, 1, k)
  <2>1. k \in 0..Len(v) /\ k < Len(v) /\ m = Len(E) + k
    BY <1>2, <1>3, <1>6
  <2>2. w \in Seq(Byte) /\ Len(w) = k
    <3> HIDE DEF k
    <3> QED
      BY <1>2, <2>1
  <2>3. cut = E \o w
    <3>1. CASE m > Len(E)
      BY <1>4, <3>1
    <3>2. CASE m = Len(E)
      <4>1. cut = E /\ w = <<>>
        <5>1. cut = SubSeq(E, 1, Len(E))
          BY <1>2, <1>4, <3>2
        <5>2. cut = E
          BY <1>1, <5>1, SubSeqFull
        <5>3. k = 0
          BY <1>2, <3>2
        <5>4. w = <<>>
          <6>1. 0 < 1 /\ 0 \in Int /\ 1 \in Int
            OBVIOUS
          <6> QED
            BY <5>3, <6>1, SubSeqEmpty
        <5> QED
          BY <5>2, <5>4
      <4> HIDE DEF w, cut
      <4> QED
        BY <1>1, <4>1, ConcatEmptySeq
    <3> QED
      BY <1>2, <1>6, <3>1, <3>2
  <2>4. ReadVarint(a \o E \o w, Len(a) + 1) = Read(Len(v), Len(a) + 1 + Len(E))
    BY <2>2, VarintRoundTrip
  <2> HIDE DEF w, cut, E, k
  <2>5. /\ a \o cut = a \o E \o w /\ a \o cut \in Seq(Byte)
        /\ Len(a \o cut) = Len(a) + Len(E) + Len(w)
    <3>1. (a \o E) \o w = a \o (E \o w)
      <4>1. E \in Seq(Byte) /\ w \in Seq(Byte)
        BY <1>1, <2>2
      <4> QED
        BY <4>1, Associative
    <3>2. /\ a \o E \o w \in Seq(Byte)
          /\ Len(a \o E \o w) = Len(a) + Len(E) + Len(w)
      BY <1>1, <2>2, InMiddleLen
    <3> QED
      BY <2>3, <3>1, <3>2
  <2>6. n.v = Len(v) /\ n.next = Len(a) + 1 + Len(E)
    BY <2>4, <2>5 DEF Read
  <2> HIDE DEF n
  <2>7. n.next + n.v - 1 > Len(a \o cut)
    BY <1>2, <2>1, <2>2, <2>5, <2>6
  <2>8. BytesAfter(a \o cut, n) = Bad
    BY <2>7 DEF BytesAfter
  <2> QED
    BY <2>8 DEF ReadBytes, n, cut, E
<1> QED
  BY <1>2, <1>3, <1>5, <1>6
-----------------------------------------------------------------------------
Two32 == 65536 * 65536

Size32 == {n \in Nat : n < Two32}

LEMMA SizeIs == \A n \in Size32 : n \in Nat /\ n < 65536 * 65536
  BY SMT DEF Size32, Two32

LEMMA SizeWithin == \A m \in Size32 : \A n \in Nat : n <= m => n \in Size32
  BY SMT DEF Size32, Two32

LEMMA FourBytes ==
    ASSUME NEW n \in Nat, n < 65536 * 65536
    PROVE  n = (n % 256) + 256 * ((n \div 256) % 256) + 65536 * ((n \div 65536) % 256)
                   + 16777216 * ((n \div 16777216) % 256)
<1>1. n = (n % 256) + 256 * ((n \div 256) % 256) + 65536 * ((n \div 65536) % 256)
              + 16777216 * (n \div 16777216)
  BY SMT
<1>2. (n \div 16777216) % 256 = n \div 16777216
  BY SMT
<1> QED
  BY <1>1, <1>2, SMT

LEMMA BytesOfLE32 ==
    ASSUME NEW n \in Int
    PROVE  LE32(n) \in Seq(Byte) /\ Len(LE32(n)) = 4
<1>1. n \in Int
  OBVIOUS
<1>2. \A k \in Int : k % 256 \in Byte
  BY DEF Byte
<1>3. /\ n % 256 \in Byte /\ (n \div 256) % 256 \in Byte
      /\ (n \div 65536) % 256 \in Byte /\ (n \div 16777216) % 256 \in Byte
  <2>1. n \div 256 \in Int /\ n \div 65536 \in Int /\ n \div 16777216 \in Int
    BY <1>1, SMT
  <2> QED
    BY <1>1, <1>2, <2>1
<1> QED
  BY <1>3 DEF LE32

\* What PutUint32 writes, UInt32 reads, if it fits 32 bits.
LEMMA ReadLE32 ==
    ASSUME NEW n \in Size32, NEW d, NEW p \in Nat,
           \A j \in 1..4 : d[p + j] = LE32(n)[j]
    PROVE  UInt32(d, p + 1) = n
<1>1. n \in Nat /\ n < 65536 * 65536
  BY SizeIs
<1>2. /\ LE32(n)[1] = n % 256 /\ LE32(n)[2] = (n \div 256) % 256
      /\ LE32(n)[3] = (n \div 65536) % 256 /\ LE32(n)[4] = (n \div 16777216) % 256
  BY SMT DEF LE32
<1>3. /\ d[p + 1] = LE32(n)[1] /\ d[p + 1 + 1] = LE32(n)[2]
      /\ d[p + 1 + 2] = LE32(n)[3] /\ d[p + 1 + 3] = LE32(n)[4]
  <2>1. p + 1 + 1 = p + 2 /\ p + 1 + 2 = p + 3 /\ p + 1 + 3 = p + 4
    OBVIOUS
  <2>2. 1 \in 1..4 /\ 2 \in 1..4 /\ 3 \in 1..4 /\ 4 \in 1..4
    OBVIOUS
  <2> QED
    BY <2>1, <2>2
<1>4. n = (n % 256) + 256 * ((n \div 256) % 256) + 65536 * ((n \div 65536) % 256)
              + 16777216 * ((n \div 16777216) % 256)
  BY <1>1, FourBytes
<1> QED
  BY <1>2, <1>3, <1>4 DEF UInt32

\* In d, c stands behind the first p bytes.
Has(d, p, c) == /\ p + Len(c) <= Len(d)
                /\ \A i \in 1..Len(c) : d[p + i] = c[i]

LEMMA HasAfter ==
    ASSUME NEW S, NEW s \in Seq(S), NEW t \in Seq(S)
    PROVE  /\ s \o t \in Seq(S) /\ Len(s \o t) = Len(s) + Len(t)
           /\ Len(s) \in Nat /\ Len(t) \in Nat
           /\ Has(s \o t, Len(s), t)
           /\ \A p \in Nat : \A c \in Seq(S) : Has(s, p, c) => Has(s \o t, p, c)
<1> DEFINE st == s \o t
<1>1. /\ st \in Seq(S) /\ Len(st) = Len(s) + Len(t)
      /\ \A i \in 1..(Len(s) + Len(t)) : st[i] = IF i <= Len(s) THEN s[i] ELSE t[i - Len(s)]
      /\ Len(s) \in Nat /\ Len(t) \in Nat
  BY ConcatProperties, ElementOf
<1> HIDE DEF st
<1>2. Has(st, Len(s), t)
  <2>1. ASSUME NEW i \in 1..Len(t) PROVE st[Len(s) + i] = t[i]
    <3> DEFINE j == Len(s) + i
    <3>1. j \in 1..(Len(s) + Len(t)) /\ ~(j <= Len(s)) /\ j - Len(s) = i
      BY <1>1
    <3> HIDE DEF j
    <3>2. st[j] = t[i]
      BY <1>1, <3>1
    <3> QED
      BY <3>2 DEF j
  <2>2. Len(s) + Len(t) <= Len(st)
    BY <1>1
  <2> QED
    BY <2>1, <2>2 DEF Has
<1>3. ASSUME NEW p \in Nat, NEW c \in Seq(S), Has(s, p, c) PROVE Has(st, p, c)
  <2>1. Len(c) \in Nat /\ p + Len(c) <= Len(s) /\ \A i \in 1..Len(c) : s[p + i] = c[i]
    BY <1>3, ElementOf DEF Has
  <2>2. ASSUME NEW i \in 1..Len(c) PROVE st[p + i] = c[i]
    <3> DEFINE j == p + i
    <3>1. j \in 1..(Len(s) + Len(t)) /\ j <= Len(s) /\ s[j] = c[i]
      BY <1>1, <2>1
    <3> HIDE DEF j
    <3>2. st[j] = c[i]
      BY <1>1, <3>1
    <3> QED
      BY <3>2 DEF j
  <2>3. p + Len(c) <= Len(st)
    BY <1>1, <2>1
  <2> QED
    BY <2>2, <2>3 DEF Has
<1> QED
  BY <1>1, <1>2, <1>3 DEF st

LEMMA HasLE32 ==
    ASSUME NEW n \in Size32, NEW d, NEW p \in Nat, Has(d, p, LE32(n))
    PROVE  UInt32(d, p + 1) = n
<1>1. \A j \in 1..4 : d[p + j] = LE32(n)[j]
  <2>1. Len(LE32(n)) = 4
    BY SizeIs, BytesOfLE32
  <2> QED
    BY <2>1 DEF Has
<1> QED
  BY <1>1, ReadLE32

LEMMA HasPart ==
    ASSUME NEW S, NEW d \in Seq(S), NEW c \in Seq(S), NEW p \in Nat, Has(d, p, c)
    PROVE  SubSeq(d, p + 1, p + Len(c)) = c
  BY PartOf DEF Has

\* The agent finds in a frame the length after which the next one begins, the
\* header, and the body that the sender put behind the room for the prefix.
THEOREM FrameRoundTrip ==
    ASSUME NEW header \in Seq(Byte), NEW body \in Seq(Byte), NEW room \in Seq(Byte),
           Len(room) = GetPrefixLen(header), Len(room) + Len(body) \in Size32,
           NEW f, f = EncodePreAllocated(room \o body, header)
    PROVE  /\ FrameBody(f) = body
           /\ Len(f) = CommonPrefixLen + UInt32(f, 3)
           /\ SubSeq(f, 20, 19 + UInt32(f, 16)) = header
           /\ f \in Seq(Byte)
<1> DEFINE payload == room \o body
           L1 == LE32(Len(payload) - CommonPrefixLen)
           L2 == LE32(Version1DataPrefixLen + Len(header))
           L3 == LE32(Len(payload) - GetPrefixLen(header))
           L4 == LE32(Len(header))
           d1 == <<99, 124>> \o L1
           d2 == d1 \o <<1>>
           d3 == d2 \o L2
           d4 == d3 \o L3
           d5 == d4 \o L4
           d6 == d5 \o header
           d7 == d6 \o body
           h == Len(header)
           b == Len(body)
<1>1. /\ payload \in Seq(Byte) /\ Len(payload) = Len(room) + b
      /\ h \in Nat /\ b \in Nat
      /\ Len(room) = 19 + h /\ Len(payload) = 19 + h + b
      /\ Len(payload) - GetPrefixLen(header) = b
      /\ Len(payload) - CommonPrefixLen = 13 + h + b
      /\ Version1DataPrefixLen + Len(header) = 13 + h
      /\ GetPrefixLen(header) = 19 + h /\ CommonPrefixLen = 6
  <2>1. /\ payload \in Seq(Byte) /\ Len(payload) = Len(room) + b
        /\ h \in Nat /\ b \in Nat
    BY ConcatProperties, ElementOf
  <2> HIDE DEF payload, h, b
  <2>2. CommonPrefixLen = 6 /\ Version1DataPrefixLen = 13 /\ GetPrefixLen(header) = 19 + h
    BY <2>1 DEF CommonPrefixLen, Version1DataPrefixLen, GetPrefixLen, h
  <2>3. Len(room) = 19 + h /\ Version1DataPrefixLen + Len(header) = 13 + h
    BY <2>2 DEF h
  <2> QED
    BY <2>1, <2>2, <2>3
<1>2. SubSeq(payload, GetPrefixLen(header) + 1, Len(payload)) = body
  <2>1. Has(payload, Len(room), body)
    BY HasAfter
  <2>2. SubSeq(payload, Len(room) + 1, Len(room) + Len(body)) = body
    <3>1. Len(room) \in Nat
      BY ElementOf
    <3> HIDE DEF payload
    <3> QED
      BY <1>1, <2>1, <3>1, HasPart
  <2> HIDE DEF payload
  <2> QED
    BY <1>1, <2>2
<1>3. f = d7
  <2>1. ~(Len(payload) - GetPrefixLen(header) < 0)
    <3> HIDE DEF payload
    <3> QED
      BY <1>1
  <2> QED
    BY <1>2, <2>1 DEF EncodePreAllocated
<1>4. b \in Size32 /\ 13 + h + b \in Size32 /\ 13 + h \in Size32 /\ h \in Size32
  <2>1. 19 + h + b \in Size32
    BY <1>1
  <2>2. /\ b \in Nat /\ 13 + h + b \in Nat /\ 13 + h \in Nat /\ h \in Nat
        /\ b <= 19 + h + b /\ 13 + h + b <= 19 + h + b
        /\ 13 + h <= 19 + h + b /\ h <= 19 + h + b
    BY <1>1
  <2> HIDE DEF h, b
  <2> QED
    BY <2>1, <2>2, SizeWithin
<1> HIDE DEF payload, h, b
<1>5. L1 = LE32(13 + h + b) /\ L2 = LE32(13 + h) /\ L3 = LE32(b) /\ L4 = LE32(h)
  BY <1>1 DEF h
<1> HIDE DEF L1, L2, L3, L4
<1>6. /\ L1 \in Seq(Byte) /\ Len(L1) = 4 /\ L2 \in Seq(Byte) /\ Len(L2) = 4
      /\ L3 \in Seq(Byte) /\ Len(L3) = 4 /\ L4 \in Seq(Byte) /\ Len(L4) = 4
  BY <1>1, <1>5, BytesOfLE32
<1>7. /\ <<99, 124>> \in Seq(Byte) /\ Len(<<99, 124>>) = 2
      /\ <<1>> \in Seq(Byte) /\ Len(<<1>>) = 1
  BY DEF Byte
<1> HIDE DEF d1, d2, d3, d4, d5, d6, d7
<1>8. d1 \in Seq(Byte) /\ Len(d1) = 6 /\ Has(d1, 2, L1)
  <2> DEFINE magic == <<99, 124>>
  <2>1. d1 = magic \o L1
    BY DEF d1
  <2>2. magic \in Seq(Byte) /\ Len(magic) = 2
    BY <1>7
  <2> HIDE DEF magic
  <2>3. d1 \in Seq(Byte) /\ Len(d1) = Len(magic) + Len(L1) /\ Has(d1, Len(magic), L1)
    BY <1>6, <2>1, <2>2, HasAfter
  <2> QED
    BY <1>6, <2>2, <2>3
<1>9. d2 \in Seq(Byte) /\ Len(d2) = 7 /\ Has(d2, 2, L1)
  <2>1. /\ d2 \in Seq(Byte) /\ Len(d2) = Len(d1) + Len(<<1>>) /\ Has(d2, Len(d1), <<1>>)
        /\ \A p \in Nat : \A c \in Seq(Byte) : Has(d1, p, c) => Has(d2, p, c)
    BY <1>7, <1>8, HasAfter DEF d2
  <2> QED
    BY <1>6, <1>7, <1>8, <2>1
<1>10. d3 \in Seq(Byte) /\ Len(d3) = 11 /\ Has(d3, 2, L1) /\ Has(d3, 7, L2)
  <2>1. /\ d3 \in Seq(Byte) /\ Len(d3) = Len(d2) + Len(L2) /\ Has(d3, Len(d2), L2)
        /\ \A p \in Nat : \A c \in Seq(Byte) : Has(d2, p, c) => Has(d3, p, c)
    BY <1>6, <1>9, HasAfter DEF d3
  <2> QED
    BY <1>6, <1>9, <2>1
<1>11. /\ d4 \in Seq(Byte) /\ Len(d4) = 15 /\ Has(d4, 2, L1) /\ Has(d4, 7, L2)
       /\ Has(d4, 11, L3)
  <2>1. /\ d4 \in Seq(Byte) /\ Len(d4) = Len(d3) + Len(L3) /\ Has(d4, Len(d3), L3)
        /\ \A p \in Nat : \A c \in Seq(Byte) : Has(d3, p, c) => Has(d4, p, c)
    BY <1>6, <1>10, HasAfter DEF d4
  <2> QED
    BY <1>6, <1>10, <2>1
<1>12. /\ d5 \in Seq(Byte) /\ Len(d5) = 19 /\ Has(d5, 2, L1) /\ Has(d5, 7, L2)
       /\ Has(d5, 11, L3) /\ Has(d5, 15, L4)
  <2>1. /\ d5 \in Seq(Byte) /\ Len(d5) = Len(d4) + Len(L4) /\ Has(d5, Len(d4), L4)
        /\ \A p \in Nat : \A c \in Seq(Byte) : Has(d4, p, c) => Has(d5, p, c)
    BY <1>6, <1>11, HasAfter DEF d5
  <2> QED
    BY <1>6, <1>11, <2>1
<1>13. /\ d6 \in Seq(Byte) /\ Len(d6) = 19 + h /\ Has(d6, 2, L1) /\ Has(d6, 7, L2)
       /\ Has(d6, 11, L3) /\ Has(d6, 15, L4) /\ Has(d6, 19, header)
  <2>1. /\ d6 \in Seq(Byte) /\ Len(d6) = Len(d5) + Len(header) /\ Has(d6, Len(d5), header)
        /\ \A p \in Nat : \A c \in Seq(Byte) : Has(d5, p, c) => Has(d6, p, c)
    BY <1>12, HasAfter DEF d6
  <2>2. Len(d6) = 19 + h /\ Has(d6, 19, header)
    BY <1>12, <2>1 DEF h
  <2> QED
    BY <1>6, <1>12, <2>1, <2>2
<1>14. /\ d7 \in Seq(Byte) /\ Len(d7) = 19 + h + b /\ Has(d7, 2, L1) /\ Has(d7, 7, L2)
       /\ Has(d7, 11, L3) /\ Has(d7, 15, L4) /\ Has(d7, 19, header) /\ Has(d7, 19 + h, body)
  <2>1. /\ d7 \in Seq(Byte) /\ Len(d7) = Len(d6) + Len(body) /\ Has(d7, Len(d6), body)
        /\ \A p \in Nat : \A c \in Seq(Byte) : Has(d6, p, c) => Has(d7, p, c)
    BY <1>13, HasAfter DEF d7
  <2>2. Len(d7) = 19 + h + b /\ Has(d7, 19 + h, body)
    BY <1>13, <2>1 DEF b
  <2> QED
    BY <1>6, <1>13, <2>1, <2>2
<1>15. UInt32(f, 3) = 13 + h + b /\ UInt32(f, 8) = 13 + h /\ UInt32(f, 12) = b /\ UInt32(f, 16) = h
  <2>1. UInt32(d7, 2 + 1) = 13 + h + b
    BY <1>4, <1>5, <1>14, HasLE32
  <2>2. UInt32(d7, 7 + 1) = 13 + h
    BY <1>4, <1>5, <1>14, HasLE32
  <2>3. UInt32(d7, 11 + 1) = b
    BY <1>4, <1>5, <1>14, HasLE32
  <2>4. UInt32(d7, 15 + 1) = h
    BY <1>4, <1>5, <1>14, HasLE32
  <2>5. 2 + 1 = 3 /\ 7 + 1 = 8 /\ 11 + 1 = 12 /\ 15 + 1 = 16
    OBVIOUS
  <2> QED
    BY <1>3, <2>1, <2>2, <2>3, <2>4, <2>5
<1>16. Len(f) = CommonPrefixLen + UInt32(f, 3)
  BY <1>1, <1>3, <1>14, <1>15
<1>17. SubSeq(f, 20, 19 + UInt32(f, 16)) = header
  <2>1. SubSeq(d7, 19 + 1, 19 + Len(header)) = header
    BY <1>14, HasPart
  <2> QED
    BY <1>3, <1>15, <2>1 DEF h
<1>18. FrameBody(f) = body
  <2>1. SubSeq(d7, (19 + h) + 1, (19 + h) + Len(body)) = body
    <3>1. 19 + h \in Nat
      BY <1>1
    <3> QED
      BY <1>14, <3>1, HasPart
  <2>2. /\ CommonPrefixLen + UInt32(f, 8) + 1 = (19 + h) + 1
        /\ CommonPrefixLen + UInt32(f, 8) + UInt32(f, 12) = (19 + h) + Len(body)
    <3>1. /\ CommonPrefixLen + (13 + h) + 1 = (19 + h) + 1
          /\ CommonPrefixLen + (13 + h) + b = (19 + h) + b
      BY <1>1
    <3> QED
      BY <1>15, <3>1 DEF b
  <2> QED
    BY <1>3, <2>1, <2>2 DEF FrameBody
<1> QED
  BY <1>3, <1>14, <1>16, <1>17, <1>18
-----------------------------------------------------------------------------
\* b[k] is the batch after k appends.
Appends(b, parts) ==
    /\ b \in [0..Len(parts) -> Seq(Byte)]
    /\ b[0] = <<>>
    /\ \A k \in 1..Len(parts) : b[k] = b[k - 1] \o SizePrefixed(parts[k])

LEMMA SizePrefixedBytes ==
    ASSUME NEW c \in Seq(Byte)
    PROVE  /\ SizePrefixed(c) \in Seq(Byte) /\ Len(SizePrefixed(c)) = 4 + Len(c)
           /\ Has(SizePrefixed(c), 0, LE32(Len(c))) /\ Has(SizePrefixed(c), 4, c)
<1>1. Len(c) \in Nat
  BY ElementOf
<1> DEFINE s == LE32(Len(c))
<1>2. s \in Seq(Byte) /\ Len(s) = 4
  BY <1>1, BytesOfLE32
<1> HIDE DEF s
<1>3. /\ s \o c \in Seq(Byte) /\ Len(s \o c) = Len(s) + Len(c) /\ Has(s \o c, Len(s), c)
      /\ \A p \in Nat : \A e \in Seq(Byte) : Has(s, p, e) => Has(s \o c, p, e)
  BY <1>2, HasAfter
<1>4. Has(s, 0, s)
  BY <1>2 DEF Has
<1> QED
  BY <1>2, <1>3, <1>4 DEF SizePrefixed, s

LEMMA AppendsExist ==
    ASSUME NEW parts \in Seq(Seq(Byte))
    PROVE  \E b : Appends(b, parts)
<1> DEFINE N == Len(parts)
           Upto(b, n) == /\ b \in [0..n -> Seq(Byte)] /\ b[0] = <<>>
                         /\ \A k \in 1..n : b[k] = b[k - 1] \o SizePrefixed(parts[k])
           T == {n \in 0..N : \E b : Upto(b, n)}
<1>1. N \in Nat /\ \A k \in 1..N : SizePrefixed(parts[k]) \in Seq(Byte)
  BY ElementOf, SizePrefixedBytes
<1> HIDE DEF N
<1>2. 0 \in T
  <2> DEFINE z == [k \in 0..0 |-> <<>>]
  <2>1. z \in [0..0 -> Seq(Byte)] /\ z[0] = <<>> /\ 1..0 = {}
    OBVIOUS
  <2> HIDE DEF z
  <2>2. Upto(z, 0)
    BY <2>1
  <2> HIDE DEF Upto
  <2> QED
    BY <1>1, <2>2
<1>3. ASSUME NEW n \in 0..(N - 1), n \in T PROVE n + 1 \in T
  <2>1. PICK b : Upto(b, n)
    BY <1>3
  <2> DEFINE c == [k \in 0..(n + 1) |-> IF k <= n THEN b[k] ELSE b[n] \o SizePrefixed(parts[n + 1])]
  <2>2. n \in Nat /\ n + 1 \in 1..N /\ n + 1 \in 0..N /\ n \in 0..n /\ ~(n + 1 <= n)
    BY <1>1
  <2>3. b[n] \o SizePrefixed(parts[n + 1]) \in Seq(Byte)
    BY <1>1, <2>1, <2>2, ConcatProperties
  <2>4. \A k \in 0..(n + 1) : k \in 0..n \/ k = n + 1
    BY <2>2
  <2>5. \A k \in 0..n : c[k] = b[k] /\ b[k] \in Seq(Byte)
    BY <2>1, <2>2
  <2>6. c[n + 1] = b[n] \o SizePrefixed(parts[n + 1])
    <3>1. n + 1 \in 0..(n + 1)
      BY <2>2
    <3> DEFINE m == n + 1
    <3> HIDE DEF m
    <3>2. c[m] = IF m <= n THEN b[m] ELSE b[n] \o SizePrefixed(parts[m])
      BY <3>1 DEF m
    <3> QED
      BY <2>2, <3>2 DEF m
  <2>7. c = [k \in 0..(n + 1) |-> c[k]]
    OBVIOUS
  <2> HIDE DEF c
  <2>8. c \in [0..(n + 1) -> Seq(Byte)]
    <3>1. \A k \in 0..(n + 1) : c[k] \in Seq(Byte)
      BY <2>3, <2>4, <2>5, <2>6
    <3> QED
      BY <2>7, <3>1
  <2>9. c[0] = <<>>
    BY <2>1, <2>2, <2>5
  <2>10. ASSUME NEW k \in 1..(n + 1) PROVE c[k] = c[k - 1] \o SizePrefixed(parts[k])
    <3>1. CASE k = n + 1
      <4>1. k - 1 = n /\ c[n] = b[n]
        BY <2>2, <2>5, <3>1
      <4> QED
        BY <2>6, <3>1, <4>1
    <3>2. CASE k # n + 1
      <4>1. k \in 1..n /\ k \in 0..n /\ k - 1 \in 0..n
        BY <2>2, <3>2
      <4> QED
        BY <2>1, <2>5, <4>1
    <3> QED
      BY <3>1, <3>2
  <2>11. Upto(c, n + 1)
    BY <2>8, <2>9, <2>10
  <2> HIDE DEF Upto
  <2> QED
    BY <2>2, <2>11
<1>4. N \in T
  <2>1. \A n \in 0..N : n \in T
    <3> HIDE DEF T
    <3> QED
      BY <1>1, <1>2, <1>3, Reaches
  <2> HIDE DEF T
  <2> QED
    BY <1>1, <2>1
<1> QED
  BY <1>4 DEF Appends, N

LEMMA BatchAppends ==
    ASSUME NEW parts \in Seq(Seq(Byte))
    PROVE  \E b : Appends(b, parts) /\ Batch(parts) = b[Len(parts)]
<1> DEFINE N == Len(parts)
           Rule(f) == f = [k \in 0..N |-> IF k = 0 THEN <<>> ELSE f[k - 1] \o SizePrefixed(parts[k])]
           v == CHOOSE f : Rule(f)
<1>1. N \in Nat
  BY ElementOf
<1>2. PICK b : Appends(b, parts)
  BY AppendsExist
<1>3. Rule(b)
  <2>1. \A k \in 0..N : b[k] = IF k = 0 THEN <<>> ELSE b[k - 1] \o SizePrefixed(parts[k])
    <3>1. \A k \in 0..N : k = 0 \/ k \in 1..N
      BY <1>1
    <3>2. b[0] = <<>> /\ \A k \in 1..N : b[k] = b[k - 1] \o SizePrefixed(parts[k])
      BY <1>2 DEF Appends
    <3>3. \A k \in 1..N : k # 0
      BY <1>1
    <3> HIDE DEF N
    <3> QED
      BY <3>1, <3>2, <3>3
  <2>2. b = [k \in 0..N |-> b[k]]
    BY <1>2 DEF Appends
  <2> QED
    BY <2>1, <2>2
<1>4. Rule(v)
  <2>1. \E f : Rule(f)
    <3> HIDE DEF Rule
    <3> QED
      BY <1>3
  <2> HIDE DEF Rule
  <2> QED
    BY <2>1
<1>5. Batch(parts) = v[N]
  BY DEF Batch
<1> HIDE DEF v
<1> DEFINE T == {k \in 0..N : v[k] = b[k]}
<1>6. \A k \in 0..N : /\ v[k] = IF k = 0 THEN <<>> ELSE v[k - 1] \o SizePrefixed(parts[k])
                      /\ b[k] = IF k = 0 THEN <<>> ELSE b[k - 1] \o SizePrefixed(parts[k])
  <2>1. \A k \in 0..N : v[k] = IF k = 0 THEN <<>> ELSE v[k - 1] \o SizePrefixed(parts[k])
    BY <1>4
  <2>2. \A k \in 0..N : b[k] = IF k = 0 THEN <<>> ELSE b[k - 1] \o SizePrefixed(parts[k])
    BY <1>3
  <2> QED
    BY <2>1, <2>2
<1> HIDE DEF N
<1>7. 0 \in T
  BY <1>1, <1>6
<1>8. ASSUME NEW k \in 0..(N - 1), k \in T PROVE k + 1 \in T
  <2>1. k + 1 \in 0..N /\ k + 1 # 0 /\ (k + 1) - 1 = k
    BY <1>1
  <2>2. v[k + 1] = v[k] \o SizePrefixed(parts[k + 1]) /\ b[k + 1] = b[k] \o SizePrefixed(parts[k + 1])
    BY <1>6, <2>1
  <2> QED
    BY <1>8, <2>1, <2>2
<1>9. v[N] = b[N]
  <2>1. \A k \in 0..N : k \in T
    <3> HIDE DEF T
    <3> QED
      BY <1>1, <1>7, <1>8, Reaches
  <2> QED
    BY <1>1, <2>1
<1> QED
  BY <1>2, <1>5, <1>9 DEF N

LEMMA HasWithin ==
    ASSUME NEW S, NEW d, NEW s \in Seq(S), NEW c \in Seq(S), NEW p \in Nat,
           Has(d, 0, s), Has(s, p, c), Len(d) \in Nat
    PROVE  Has(d, p, c)
<1>1. Len(s) \in Nat /\ Len(c) \in Nat
  BY ElementOf
<1>2. \A i \in 1..Len(s) : d[i] = s[i]
  <2>1. \A i \in 1..Len(s) : 0 + i = i
    BY <1>1
  <2> QED
    BY <2>1 DEF Has
<1>3. Len(s) <= Len(d) /\ p + Len(c) <= Len(s) /\ \A i \in 1..Len(c) : s[p + i] = c[i]
  BY <1>1 DEF Has
<1>4. ASSUME NEW i \in 1..Len(c) PROVE d[p + i] = c[i]
  <2>1. p + i \in 1..Len(s)
    BY <1>1, <1>3
  <2> QED
    BY <1>2, <1>3, <2>1
<1> QED
  BY <1>1, <1>3, <1>4 DEF Has

\* Where the messages of a batch stand, and their sizes.
LEMMA Borders ==
    ASSUME NEW parts \in Seq(Seq(Byte)), NEW b, Appends(b, parts),
           NEW body, body = b[Len(parts)]
    PROVE  /\ Len(parts) \in Nat /\ body \in Seq(Byte) /\ Len(body) \in Nat
           /\ Len(b[0]) = 0
           /\ \A k \in 0..Len(parts) : Len(b[k]) \in Nat /\ k <= Len(b[k])
           /\ \A k \in 1..Len(parts) :
                  /\ Has(body, Len(b[k - 1]), LE32(Len(parts[k])))
                  /\ Has(body, Len(b[k - 1]) + 4, parts[k])
                  /\ Len(b[k]) = Len(b[k - 1]) + 4 + Len(parts[k])
                  /\ Len(b[k]) <= Len(body)
<1> DEFINE N == Len(parts)
<1>1. N \in Nat /\ \A k \in 1..N : parts[k] \in Seq(Byte) /\ Len(parts[k]) \in Nat
  BY ElementOf
<1>2. /\ \A k \in 0..N : b[k] \in Seq(Byte) /\ Len(b[k]) \in Nat
      /\ b[0] = <<>> /\ Len(b[0]) = 0
  <2>1. b \in [0..N -> Seq(Byte)] /\ b[0] = <<>>
    BY DEF Appends
  <2>2. \A k \in 0..N : b[k] \in Seq(Byte)
    BY <2>1
  <2> QED
    BY <2>1, <2>2, ElementOf
<1>3. body \in Seq(Byte) /\ Len(body) \in Nat
  <2>1. N \in 0..N
    BY <1>1
  <2> QED
    BY <1>2, <2>1
<1>4. \A k \in 1..N : b[k] = b[k - 1] \o SizePrefixed(parts[k]) /\ k - 1 \in 0..N /\ k \in 0..N
  <2>1. \A k \in 1..N : b[k] = b[k - 1] \o SizePrefixed(parts[k])
    BY DEF Appends
  <2>2. \A k \in 1..N : k - 1 \in 0..N /\ k \in 0..N
    BY <1>1
  <2> QED
    BY <2>1, <2>2
<1>5. body = b[N]
  OBVIOUS
<1> HIDE DEF N
<1>6. ASSUME NEW k \in 1..N
      PROVE  /\ Has(b[k], Len(b[k - 1]), LE32(Len(parts[k])))
             /\ Has(b[k], Len(b[k - 1]) + 4, parts[k])
             /\ Len(b[k]) = Len(b[k - 1]) + 4 + Len(parts[k])
             /\ Has(b[k], 0, b[k - 1])
  <2> DEFINE s == b[k - 1]
             c == parts[k]
             t == SizePrefixed(c)
             u == b[k]
  <2>1. /\ s \in Seq(Byte) /\ c \in Seq(Byte) /\ Len(s) \in Nat /\ Len(c) \in Nat /\ u = s \o t
        /\ u \in Seq(Byte)
    BY <1>1, <1>2, <1>4
  <2> HIDE DEF s, c, u
  <2>2. t \in Seq(Byte) /\ Len(t) = 4 + Len(c) /\ Has(t, 0, LE32(Len(c))) /\ Has(t, 4, c)
    BY <2>1, SizePrefixedBytes
  <2> HIDE DEF t
  <2>3. /\ Len(u) = Len(s) + Len(t) /\ Has(u, Len(s), t)
        /\ \A p \in Nat : \A e \in Seq(Byte) : Has(s, p, e) => Has(u, p, e)
    BY <2>1, <2>2, HasAfter
  <2>4. Has(s, 0, s)
    BY <2>1 DEF Has
  <2>5. Has(u, 0, s)
    BY <2>1, <2>3, <2>4
  <2>6. Has(u, Len(s), LE32(Len(c)))
    <3> DEFINE e == LE32(Len(c))
    <3>1. e \in Seq(Byte) /\ Len(e) = 4 /\ Has(t, 0, e)
      BY <2>1, <2>2, BytesOfLE32
    <3> HIDE DEF e
    <3>2. /\ \A i \in 1..4 : i \in 1..Len(t) /\ 0 + i = i
          /\ Len(s) + 4 <= Len(u)
      BY <2>1, <2>2, <2>3
    <3>3. \A i \in 1..4 : u[Len(s) + i] = t[i] /\ t[i] = e[i]
      BY <2>3, <3>1, <3>2 DEF Has
    <3>4. Has(u, Len(s), e)
      BY <3>1, <3>2, <3>3 DEF Has
    <3> QED
      BY <3>4 DEF e
  <2>7. Has(u, Len(s) + 4, c)
    <3>1. \A i \in 1..Len(c) : 4 + i \in 1..Len(t) /\ Len(s) + (4 + i) = Len(s) + 4 + i
      BY <2>1, <2>2
    <3>2. \A i \in 1..Len(c) : u[Len(s) + (4 + i)] = t[4 + i] /\ t[4 + i] = c[i]
      BY <2>2, <2>3, <3>1 DEF Has
    <3>3. Len(s) + 4 + Len(c) <= Len(u)
      BY <2>1, <2>2, <2>3
    <3> QED
      BY <3>1, <3>2, <3>3 DEF Has
  <2>8. Len(u) = Len(s) + 4 + Len(c)
    BY <2>1, <2>2, <2>3
  <2> QED
    BY <2>5, <2>6, <2>7, <2>8 DEF s, c, u
<1>7. \A k \in 0..N : Has(body, 0, b[k])
  <2> DEFINE T == {m \in 0..N : Has(body, 0, b[N - m])}
  <2>1. 0 \in T
    <3>1. 0 \in 0..N /\ N - 0 = N
      BY <1>1
    <3>2. Has(body, 0, body)
      BY <1>3 DEF Has
    <3> QED
      BY <1>5, <3>1, <3>2
  <2>2. ASSUME NEW m \in 0..(N - 1), m \in T PROVE m + 1 \in T
    <3> DEFINE k == N - m
    <3>1. k \in 1..N /\ N - (m + 1) = k - 1 /\ m + 1 \in 0..N
      BY <1>1
    <3>2. Has(body, 0, b[k])
      BY <2>2
    <3> HIDE DEF k
    <3>3. Has(body, 0, b[k - 1])
      <4>1. k - 1 \in 0..N /\ k \in 0..N
        BY <1>4, <3>1
      <4>2. b[k] \in Seq(Byte) /\ b[k - 1] \in Seq(Byte) /\ Has(b[k], 0, b[k - 1])
        BY <1>2, <1>6, <3>1, <4>1
      <4> QED
        BY <1>3, <3>2, <4>2, HasWithin
    <3> QED
      BY <3>1, <3>3
  <2>3. \A m \in 0..N : m \in T
    <3> HIDE DEF T
    <3> QED
      BY <1>1, <2>1, <2>2, Reaches
  <2>4. ASSUME NEW k \in 0..N PROVE Has(body, 0, b[k])
    <3>1. N - k \in 0..N /\ N - (N - k) = k
      BY <1>1
    <3>2. N - k \in T
      <4> HIDE DEF T
      <4> QED
        BY <2>3, <3>1
    <3> QED
      BY <3>1, <3>2
  <2> QED
    BY <2>4
<1>8. ASSUME NEW k \in 1..N
      PROVE  /\ Has(body, Len(b[k - 1]), LE32(Len(parts[k])))
             /\ Has(body, Len(b[k - 1]) + 4, parts[k])
             /\ Len(b[k]) <= Len(body)
  <2>1. /\ b[k] \in Seq(Byte) /\ Has(body, 0, b[k]) /\ k - 1 \in 0..N
        /\ Len(b[k - 1]) \in Nat /\ Len(b[k - 1]) + 4 \in Nat /\ Len(b[k]) \in Nat
    <3>1. k - 1 \in 0..N /\ k \in 0..N
      BY <1>4
    <3>2. Len(b[k - 1]) \in Nat /\ b[k] \in Seq(Byte) /\ Len(b[k]) \in Nat /\ Has(body, 0, b[k])
      BY <1>2, <1>7, <3>1
    <3>3. Len(b[k - 1]) + 4 \in Nat
      BY <3>2
    <3> QED
      BY <3>1, <3>2, <3>3
  <2>2. LE32(Len(parts[k])) \in Seq(Byte) /\ parts[k] \in Seq(Byte)
    BY <1>1, BytesOfLE32
  <2>3. Has(body, Len(b[k - 1]), LE32(Len(parts[k])))
    BY <1>3, <1>6, <2>1, <2>2, HasWithin
  <2>4. Has(body, Len(b[k - 1]) + 4, parts[k])
    BY <1>3, <1>6, <2>1, <2>2, HasWithin
  <2>5. Len(b[k]) <= Len(body)
    BY <2>1 DEF Has
  <2> QED
    BY <2>3, <2>4, <2>5
<1>9. \A k \in 0..N : k <= Len(b[k])
  <2> DEFINE T == {k \in 0..N : k <= Len(b[k])}
  <2>1. 0 \in T
    BY <1>1, <1>2
  <2>2. ASSUME NEW k \in 0..(N - 1), k \in T PROVE k + 1 \in T
    <3>1. k + 1 \in 1..N /\ k + 1 \in 0..N /\ (k + 1) - 1 = k /\ k \in 0..N
      BY <1>1
    <3>2. Len(b[k + 1]) = Len(b[k]) + 4 + Len(parts[k + 1]) /\ Len(parts[k + 1]) \in Nat
          /\ Len(b[k]) \in Nat /\ k <= Len(b[k])
      BY <1>1, <1>2, <1>6, <2>2, <3>1
    <3>3. k + 1 <= Len(b[k + 1])
      <4>1. \A x, y, z \in Nat : x <= y => x + 1 <= y + 4 + z
        OBVIOUS
      <4>2. k \in Nat
        BY <1>1
      <4> QED
        BY <3>2, <4>1, <4>2
    <3> QED
      BY <3>1, <3>3
  <2>3. \A k \in 0..N : k \in T
    <3> HIDE DEF T
    <3> QED
      BY <1>1, <2>1, <2>2, Reaches
  <2> QED
    BY <2>3
<1> QED
  BY <1>1, <1>2, <1>3, <1>6, <1>8, <1>9 DEF N

LEMMA SplitAtBorders ==
    ASSUME NEW parts \in Seq(Seq(Byte)), NEW b, Appends(b, parts),
           NEW body, body = b[Len(parts)], Len(body) \in Size32
    PROVE  Split(body) = parts
<1> DEFINE N == Len(parts)
           L == Len(body)
           next(i) == IF i > L THEN i ELSE i + 4 + UInt32(body, i)
           Rule(f) == f = [k \in 0..L |-> IF k = 0 THEN 1 ELSE next(f[k - 1])]
           v == CHOOSE f : Rule(f)
           g == [k \in 0..L |-> IF k <= N THEN Len(b[k]) + 1 ELSE L + 1]
           First(k) == v[k] > L /\ \A j \in 0..(k - 1) : v[j] <= L
           n == CHOOSE k \in 0..L : First(k)
<1>1. /\ N \in Nat /\ body \in Seq(Byte) /\ L \in Nat /\ Len(b[0]) = 0
      /\ \A k \in 0..N : Len(b[k]) \in Nat /\ k <= Len(b[k])
      /\ \A k \in 1..N :
             /\ Has(body, Len(b[k - 1]), LE32(Len(parts[k])))
             /\ Has(body, Len(b[k - 1]) + 4, parts[k])
             /\ Len(b[k]) = Len(b[k - 1]) + 4 + Len(parts[k])
             /\ Len(b[k]) <= L
  BY Borders
<1>2. \A k \in 1..N : parts[k] \in Seq(Byte) /\ Len(parts[k]) \in Nat
  BY ElementOf
<1>3. Split(body) = [k \in 1..n |-> SubSeq(body, v[k - 1] + 4, v[k] - 1)]
  BY DEF Split
<1>4. body = b[N] /\ L \in Size32 /\ Len(b[N]) = L
  OBVIOUS
<1> HIDE DEF N, L
<1>5. N <= L /\ N \in 0..L
  <2>1. N \in 0..N
    BY <1>1
  <2> QED
    BY <1>1, <1>4, <2>1
<1>6. ASSUME NEW k \in 1..N
      PROVE  /\ Len(b[k - 1]) + 1 <= L
             /\ next(Len(b[k - 1]) + 1) = Len(b[k]) + 1
             /\ SubSeq(body, Len(b[k - 1]) + 1 + 4, Len(b[k]) + 1 - 1) = parts[k]
  <2> DEFINE p == Len(b[k - 1])
             c == parts[k]
             q == Len(b[k])
  <2>1. /\ k - 1 \in 0..N /\ p \in Nat /\ c \in Seq(Byte) /\ Len(c) \in Nat
        /\ Has(body, p, LE32(Len(c))) /\ Has(body, p + 4, c)
        /\ q = p + 4 + Len(c) /\ q <= L
    <3>1. k - 1 \in 0..N
      BY <1>1
    <3> QED
      BY <1>1, <1>2, <3>1
  <2> HIDE DEF p, c, q
  <2>2. Len(c) \in Size32
    <3>1. Len(c) <= L
      BY <1>1, <2>1
    <3> QED
      BY <1>4, <2>1, <3>1, SizeWithin
  <2>3. UInt32(body, p + 1) = Len(c)
    BY <2>1, <2>2, HasLE32
  <2>4. p + 1 <= L /\ ~(p + 1 > L) /\ p + 1 + 4 + Len(c) = q + 1
    BY <1>1, <2>1
  <2>5. next(p + 1) = q + 1
    BY <2>3, <2>4
  <2>6. SubSeq(body, p + 4 + 1, p + 4 + Len(c)) = c
    <3>1. p + 4 \in Nat
      BY <2>1
    <3> QED
      BY <1>1, <2>1, <3>1, HasPart
  <2>7. p + 4 + 1 = p + 1 + 4 /\ p + 4 + Len(c) = q + 1 - 1
    BY <2>1
  <2> QED
    BY <2>4, <2>5, <2>6, <2>7 DEF p, c, q
<1>7. /\ \A k \in 0..N : g[k] = Len(b[k]) + 1
      /\ \A k \in 0..L : k > N => g[k] = L + 1
      /\ g[0] = 1 /\ g[N] = L + 1
  <2>1. \A k \in 0..N : k \in 0..L /\ k <= N
    BY <1>1, <1>5
  <2>2. \A k \in 0..N : g[k] = Len(b[k]) + 1
    BY <2>1
  <2>3. \A k \in 0..L : k > N => g[k] = L + 1
    BY <1>1
  <2>4. 0 \in 0..N /\ N \in 0..N
    BY <1>1
  <2> HIDE DEF g
  <2> QED
    BY <1>1, <1>4, <2>2, <2>3, <2>4
<1>8. \A k \in 0..L : g[k] = IF k = 0 THEN 1 ELSE next(g[k - 1])
  <2> HIDE DEF g
  <2>1. ASSUME NEW k \in 0..L, k # 0 PROVE g[k] = next(g[k - 1])
    <3>1. CASE k <= N
      <4>1. k \in 1..N /\ k \in 0..N /\ k - 1 \in 0..N
        BY <1>1, <2>1, <3>1
      <4>2. g[k] = Len(b[k]) + 1 /\ g[k - 1] = Len(b[k - 1]) + 1
        BY <1>7, <4>1
      <4>3. next(Len(b[k - 1]) + 1) = Len(b[k]) + 1
        BY <1>6, <4>1
      <4> HIDE DEF next
      <4> QED
        BY <4>2, <4>3
    <3>2. CASE k > N
      <4>1. k - 1 \in 0..L /\ (k - 1 = N \/ k - 1 > N)
        BY <1>1, <2>1, <3>2
      <4>2. g[k] = L + 1 /\ g[k - 1] = L + 1
        BY <1>7, <2>1, <3>2, <4>1
      <4>3. next(L + 1) = L + 1
        BY <1>1
      <4> HIDE DEF next
      <4> QED
        BY <4>2, <4>3
    <3> QED
      BY <1>1, <2>1, <3>1, <3>2
  <2> HIDE DEF next
  <2> QED
    BY <1>7, <2>1
<1>9. Rule(g)
  <2>1. g = [k \in 0..L |-> g[k]]
    OBVIOUS
  <2> HIDE DEF g, next
  <2> QED
    BY <1>8, <2>1
<1>10. Rule(v)
  <2>1. \E f : Rule(f)
    <3> HIDE DEF Rule, g
    <3> QED
      BY <1>9
  <2> HIDE DEF Rule
  <2> QED
    BY <2>1
<1> HIDE DEF v, g
<1>11. \A k \in 0..L : v[k] = IF k = 0 THEN 1 ELSE next(v[k - 1])
  <2>1. v = [k \in 0..L |-> IF k = 0 THEN 1 ELSE next(v[k - 1])]
    BY <1>10
  <2> HIDE DEF next
  <2> QED
    BY <2>1
<1>12. \A k \in 0..L : v[k] = g[k]
  <2> DEFINE T == {k \in 0..L : v[k] = g[k]}
  <2> HIDE DEF next
  <2>1. 0 \in T
    <3>1. 0 \in 0..L
      BY <1>1
    <3> QED
      BY <1>8, <1>11, <3>1
  <2>2. ASSUME NEW k \in 0..(L - 1), k \in T PROVE k + 1 \in T
    <3>1. k + 1 \in 0..L /\ k + 1 # 0 /\ (k + 1) - 1 = k
      BY <1>1
    <3>2. v[k + 1] = next(v[k]) /\ g[k + 1] = next(g[k])
      BY <1>8, <1>11, <3>1
    <3> QED
      BY <2>2, <3>1, <3>2
  <2>3. \A k \in 0..L : k \in T
    <3> HIDE DEF T
    <3> QED
      BY <1>1, <2>1, <2>2, Reaches
  <2> QED
    BY <2>3
<1>13. n = N
  <2>1. First(N)
    <3>1. v[N] = L + 1
      BY <1>5, <1>7, <1>12
    <3>2. ASSUME NEW j \in 0..(N - 1) PROVE v[j] <= L
      <4>1. j + 1 \in 1..N /\ (j + 1) - 1 = j /\ j \in 0..N /\ j \in 0..L
        BY <1>1, <1>5
      <4>2. Len(b[j]) + 1 <= L
        BY <1>6, <4>1
      <4>3. v[j] = Len(b[j]) + 1
        BY <1>7, <1>12, <4>1
      <4> QED
        BY <4>2, <4>3
    <3> QED
      BY <1>1, <3>1, <3>2
  <2>2. ASSUME NEW k \in 0..L, First(k) PROVE k = N
    <3>1. \A j \in 0..L : v[j] \in Int
      <4>1. ASSUME NEW j \in 0..L PROVE g[j] \in Int
        <5>1. CASE j <= N
          <6>1. j \in 0..N
            BY <1>1, <5>1
          <6>2. g[j] = Len(b[j]) + 1
            BY <1>7, <6>1
          <6>3. Len(b[j]) \in Nat
            BY <1>1, <6>1
          <6> QED
            BY <6>2, <6>3
        <5>2. CASE j > N
          BY <1>1, <1>7, <5>2
        <5> QED
          BY <1>1, <5>1, <5>2
      <4> QED
        BY <1>12, <4>1
    <3>2. ~(k < N)
      <4>1. k < N => k \in 0..(N - 1)
        BY <1>1
      <4>2. k < N => v[k] <= L
        BY <2>1, <4>1
      <4>3. v[k] > L /\ v[k] \in Int
        BY <2>2, <3>1
      <4> QED
        BY <1>1, <4>2, <4>3
    <3>3. ~(N < k)
      <4>1. N < k => N \in 0..(k - 1)
        BY <1>1
      <4>2. N < k => v[N] <= L
        BY <2>2, <4>1
      <4>3. v[N] > L /\ v[N] \in Int
        BY <1>5, <2>1, <3>1
      <4> QED
        BY <1>1, <4>2, <4>3
    <3> QED
      BY <1>1, <3>2, <3>3
  <2> HIDE DEF First
  <2> QED
    BY <1>5, <2>1, <2>2
<1> HIDE DEF n
<1>14. ASSUME NEW k \in 1..N PROVE SubSeq(body, v[k - 1] + 4, v[k] - 1) = parts[k]
  <2>1. k \in 0..N /\ k - 1 \in 0..N /\ k \in 0..L /\ k - 1 \in 0..L
    BY <1>1, <1>5
  <2>2. v[k] = Len(b[k]) + 1 /\ v[k - 1] = Len(b[k - 1]) + 1
    BY <1>7, <1>12, <2>1
  <2>3. SubSeq(body, Len(b[k - 1]) + 1 + 4, Len(b[k]) + 1 - 1) = parts[k]
    BY <1>6
  <2>4. v[k - 1] + 4 = Len(b[k - 1]) + 1 + 4 /\ v[k] - 1 = Len(b[k]) + 1 - 1
    BY <2>2
  <2> DEFINE from == v[k - 1] + 4
             upTo == v[k] - 1
  <2>5. SubSeq(body, from, upTo) = parts[k]
    <3> HIDE DEF from, upTo
    <3>1. from = Len(b[k - 1]) + 1 + 4 /\ upTo = Len(b[k]) + 1 - 1
      BY <2>4 DEF from, upTo
    <3> QED
      BY <2>3, <3>1, Zenon
  <2> QED
    BY <2>5
<1>15. Split(body) = [k \in 1..N |-> parts[k]]
  BY <1>3, <1>13, <1>14
<1>16. parts = [k \in 1..N |-> parts[k]]
  BY DEF N
<1> QED
  BY <1>15, <1>16

\* Whatever a sender appended to a batch, the agent finds again: as many
\* messages, with the same borders, in the same order, an empty one included.
THEOREM BatchRoundTrip ==
    ASSUME NEW parts \in Seq(Seq(Byte)), Len(Batch(parts)) \in Size32
    PROVE  Split(Batch(parts)) = parts
<1>1. PICK b : Appends(b, parts) /\ Batch(parts) = b[Len(parts)]
  BY BatchAppends
<1> QED
  BY <1>1, SplitAtBorders

\* From the send loop to the agent: behind the room for the prefix, messages are
\* appended, the room is overwritten, and the agent finds the messages in the body.
THEOREM MessagesDelivered ==
    ASSUME NEW parts \in Seq(Seq(Byte)), NEW header \in Seq(Byte), NEW room \in Seq(Byte),
           Len(room) = GetPrefixLen(header), Len(room) + Len(Batch(parts)) \in Size32
    PROVE  Split(FrameBody(EncodePreAllocated(room \o Batch(parts), header))) = parts
<1>1. PICK b : Appends(b, parts) /\ Batch(parts) = b[Len(parts)]
  BY BatchAppends
<1>2. Batch(parts) \in Seq(Byte) /\ Len(Batch(parts)) \in Nat /\ Len(room) \in Nat
  BY <1>1, Borders, ElementOf
<1>3. Len(Batch(parts)) \in Size32
  <2>1. Len(Batch(parts)) <= Len(room) + Len(Batch(parts))
    BY <1>2
  <2> QED
    BY <1>2, <2>1, SizeWithin
<1>4. FrameBody(EncodePreAllocated(room \o Batch(parts), header)) = Batch(parts)
  BY <1>2, FrameRoundTrip
<1> QED
  BY <1>3, <1>4, BatchRoundTrip
=============================================================================
