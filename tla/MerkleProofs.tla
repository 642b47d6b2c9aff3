---------------------------- MODULE MerkleProofs ----------------------------
(***************************************************************************)
(* Theorems about Merkle: the root the verifier computes level by level is   *)
(* the one RFC 6962 defines, and the only proofs that lead to it are the paths *)
(* RFC 6962 defines, for trees of every size.                                *)
(***************************************************************************)
EXTENDS Merkle, FiniteSetTheorems, TLAPS

-----------------------------------------------------------------------------
(* Numbers.                                                                   *)

\* A set of indices has a first one.
LEMMA LeastElement ==
    ASSUME NEW T \in SUBSET Nat, T # {}
    PROVE  \E i \in T : \A j \in T : i <= j
<1> DEFINE Segments == {1..i : i \in T}
<1>1. Segments \subseteq FiniteSubsetsOf(Nat) /\ Segments # {}
  <2>1. \A i \in T : 1..i \subseteq Nat /\ IsFiniteSet(1..i)
    BY FS_Interval
  <2> QED
    BY <2>1 DEF FiniteSubsetsOf
<1>2. PICK S \in Segments : \A R \in Segments : <<R, S>> \notin StrictSubsetOrdering(Nat)
  <2> HIDE DEF Segments
  <2> QED
    BY <1>1, FS_StrictSubsetOrderingWellFounded, WFMin
<1>3. PICK i \in T : S = 1..i
  BY <1>2
<1>4. ASSUME NEW j \in T, j < i PROVE FALSE
  <2>1. 1..j \subseteq 1..i /\ i \in 1..i /\ i \notin 1..j
    BY <1>4
  <2>2. <<1..j, 1..i>> \in StrictSubsetOrdering(Nat)
    BY <2>1 DEF StrictSubsetOrdering
  <2> QED
    BY <1>2, <1>3, <2>2
<1> QED
  BY <1>4

\* What holds of 0, and of n + 1 when of n, holds of every number.
LEMMA EveryNumber ==
    ASSUME NEW T, 0 \in T, \A n \in Nat : n \in T => n + 1 \in T
    PROVE  Nat \subseteq T
<1> SUFFICES ASSUME Nat \ T # {} PROVE FALSE
  OBVIOUS
<1>1. PICK i \in Nat \ T : \A j \in Nat \ T : i <= j
  BY LeastElement
<1>2. i # 0 /\ i - 1 \in Nat /\ i - 1 \in T
  BY <1>1
<1> QED
  BY <1>1, <1>2

\* Doubling, as the recursion of TwoTo does it.
LEMMA Doubling ==
    ASSUME NEW n \in Nat
    PROVE  \E power :
             /\ power[0] = 1 /\ \A i \in 1..n : power[i] = 2 * power[i - 1]
             /\ TwoTo(n) = power[n]
<1> DEFINE Rec(m, f) == f = [i \in 0..m |-> IF i = 0 THEN 1 ELSE 2 * f[i - 1]]
           T == {m \in Nat : \E f : Rec(m, f)}
<1>1. 0 \in T
  <2>1. Rec(0, [i \in 0..0 |-> 1])
    OBVIOUS
  <2> QED
    BY <2>1
<1>2. ASSUME NEW m \in Nat, m \in T PROVE m + 1 \in T
  <2>1. PICK f : Rec(m, f)
    BY <1>2
  <2> DEFINE g == [i \in 0..(m + 1) |-> IF i <= m THEN f[i] ELSE 2 * f[m]]
  <2>2. Rec(m + 1, g)
    BY <2>1
  <2> HIDE DEF Rec, g
  <2> QED
    BY <2>2
<1>3. PICK f : Rec(n, f)
  BY <1>1, <1>2, EveryNumber
<1> DEFINE power == CHOOSE power : Rec(n, power)
<1>4. Rec(n, power)
  <2>1. LET h == CHOOSE h : Rec(n, h) IN Rec(n, h)
    BY <1>3, Zenon
  <2> QED
    BY <2>1
<1>5. TwoTo(n) = power[n]
  BY DEF TwoTo
<1> HIDE DEF power
<1> QED
  BY <1>4, <1>5

LEMMA PowersOfTwo ==
    /\ TwoTo(0) = 1
    /\ \A n \in Nat : TwoTo(n) \in Nat /\ TwoTo(n) > n /\ TwoTo(n + 1) = 2 * TwoTo(n)
<1> DEFINE Doubles(n, f) == f[0] = 1 /\ \A i \in 1..n : f[i] = 2 * f[i - 1]
           Agree == {i \in Nat : \A n \in Nat : i <= n => \A f : Doubles(n, f) => f[i] = TwoTo(i)}
           Grown == {i \in Nat : TwoTo(i) \in Nat /\ TwoTo(i) > i}
<1>1. TwoTo(0) = 1
  BY Doubling
<1>2. ASSUME NEW i \in Nat, i \in Agree
      PROVE  i + 1 \in Agree /\ TwoTo(i + 1) = 2 * TwoTo(i)
  <2>1. PICK power : Doubles(i + 1, power) /\ TwoTo(i + 1) = power[i + 1]
    BY Doubling
  <2>2. power[i] = TwoTo(i) /\ power[i + 1] = 2 * power[i]
    BY <1>2, <2>1
  <2>3. ASSUME NEW n \in Nat, i + 1 <= n, NEW f, Doubles(n, f)
        PROVE  f[i + 1] = TwoTo(i + 1)
    <3>1. f[i + 1] = 2 * f[i] /\ f[i] = TwoTo(i)
      BY <1>2, <2>3
    <3> QED
      BY <2>1, <2>2, <3>1
  <2> QED
    BY <2>1, <2>2, <2>3
<1>3. 0 \in Agree
  BY <1>1
<1>4. Nat \subseteq Agree
  <2> HIDE DEF Agree
  <2> QED
    BY <1>2, <1>3, EveryNumber
<1>5. \A i \in Nat : TwoTo(i + 1) = 2 * TwoTo(i)
  <2> HIDE DEF Agree
  <2> QED
    BY <1>2, <1>4
<1>6. 0 \in Grown /\ \A i \in Nat : i \in Grown => i + 1 \in Grown
  BY <1>1, <1>5
<1>7. Nat \subseteq Grown
  <2> HIDE DEF Grown
  <2> QED
    BY <1>6, EveryNumber
<1> QED
  BY <1>1, <1>5, <1>7

LEMMA PowersGrow ==
    ASSUME NEW r \in Nat, NEW t \in Nat, r <= t
    PROVE  TwoTo(r) <= TwoTo(t)
<1> DEFINE Later == {d \in Nat : TwoTo(r) <= TwoTo(r + d)}
<1>1. 0 \in Later
  BY PowersOfTwo
<1>2. ASSUME NEW d \in Nat, d \in Later PROVE d + 1 \in Later
  <2>1. r + d \in Nat /\ (r + d) + 1 = r + (d + 1)
    OBVIOUS
  <2>2. TwoTo((r + d) + 1) = 2 * TwoTo(r + d) /\ TwoTo(r + d) \in Nat /\ TwoTo(r) \in Nat
    BY <2>1, PowersOfTwo
  <2> QED
    BY <1>2, <2>1, <2>2
<1>3. t - r \in Later
  <2> HIDE DEF Later
  <2> QED
    BY <1>1, <1>2, EveryNumber
<1> QED
  BY <1>3

\* n >> i halves once a round, and what is below 2^i is gone after i rounds.
LEMMA NotShifted == ASSUME NEW n \in Nat PROVE Shifted(n, 0) = n
  BY PowersOfTwo DEF Shifted

LEMMA Shifting ==
    ASSUME NEW n \in Nat, NEW i \in Nat
    PROVE  Shifted(n, i) \in Nat /\ Shifted(n, i + 1) = Shifted(n, i) \div 2
<1>1. ASSUME NEW d \in Nat, d >= 1
      PROVE  n \div d \in Nat /\ (n \div d) \div 2 = n \div (2 * d)
  BY <1>1
<1>2. TwoTo(i) \in Nat /\ TwoTo(i) >= 1 /\ TwoTo(i + 1) = 2 * TwoTo(i)
  BY PowersOfTwo
<1> QED
  BY <1>1, <1>2 DEF Shifted

LEMMA ShiftedOut ==
    ASSUME NEW n \in Nat, NEW i \in Nat
    PROVE  n < TwoTo(i) <=> Shifted(n, i) = 0
<1>1. ASSUME NEW d \in Nat, d >= 1
      PROVE  n < d <=> n \div d = 0
  BY <1>1
<1>2. TwoTo(i) \in Nat /\ TwoTo(i) >= 1
  BY PowersOfTwo
<1> QED
  BY <1>1, <1>2 DEF Shifted

\* Shifting keeps the order.
LEMMA ShiftingInOrder ==
    ASSUME NEW m \in Nat, NEW n \in Nat, m <= n, NEW i \in Nat
    PROVE  Shifted(m, i) <= Shifted(n, i)
<1> DEFINE Kept == {r \in Nat : Shifted(m, r) <= Shifted(n, r)}
<1>1. 0 \in Kept
  BY NotShifted
<1>2. ASSUME NEW r \in Nat, r \in Kept PROVE r + 1 \in Kept
  <2>1. \A a, b \in Nat : a <= b => a \div 2 <= b \div 2
    OBVIOUS
  <2>2. Shifted(m, r) \in Nat /\ Shifted(n, r) \in Nat /\ Shifted(m, r) <= Shifted(n, r)
    BY <1>2, Shifting
  <2>3. Shifted(m, r + 1) = Shifted(m, r) \div 2 /\ Shifted(n, r + 1) = Shifted(n, r) \div 2
    BY Shifting
  <2> QED
    BY <2>1, <2>2, <2>3
<1> QED
  <2> HIDE DEF Kept
  <2>1. i \in Kept
    BY <1>1, <1>2, EveryNumber
  <2> QED
    BY <2>1 DEF Kept

\* Once two paths have met they stay together.
LEMMA PathsStayTogether ==
    ASSUME NEW m \in Nat, NEW n \in Nat, NEW i \in Nat, NEW r \in Nat, i <= r,
           Shifted(m, i) = Shifted(n, i)
    PROVE  Shifted(m, r) = Shifted(n, r)
<1> DEFINE Met == {d \in Nat : Shifted(m, i + d) = Shifted(n, i + d)}
<1>1. 0 \in Met
  OBVIOUS
<1>2. ASSUME NEW d \in Nat, d \in Met PROVE d + 1 \in Met
  <2>1. i + d \in Nat /\ (i + d) + 1 = i + (d + 1)
    OBVIOUS
  <2>2. /\ Shifted(m, (i + d) + 1) = Shifted(m, i + d) \div 2
        /\ Shifted(n, (i + d) + 1) = Shifted(n, i + d) \div 2
    BY <2>1, Shifting
  <2> QED
    BY <1>2, <2>1, <2>2
<1>3. r - i \in Met
  <2> HIDE DEF Met
  <2> QED
    BY <1>1, <1>2, EveryNumber
<1> QED
  BY <1>3

\* The paths of an index and of the last leaf meet exactly from InnerProofSize on.
LEMMA PathsMeet ==
    ASSUME NEW size \in Nat, NEW index \in Nat, index < size
    PROVE  /\ InnerProofSize(index, size) \in 0..size
           /\ \A r \in Nat : Shifted(index, r) = Shifted(size - 1, r)
                            <=> r >= InnerProofSize(index, size)
<1> DEFINE Met == {r \in 0..size : Shifted(index, r) = Shifted(size - 1, r)}
           First(n) == /\ n \in 0..size /\ Shifted(index, n) = Shifted(size - 1, n)
                       /\ \A m \in 0..(n - 1) : Shifted(index, m) # Shifted(size - 1, m)
<1>1. size - 1 \in Nat
  OBVIOUS
<1>2. size - 1 \in Met
  <2>1. size - 1 < TwoTo(size - 1) /\ TwoTo(size - 1) \in Nat
    BY <1>1, PowersOfTwo
  <2>2. Shifted(index, size - 1) = 0 /\ Shifted(size - 1, size - 1) = 0
    BY <1>1, <2>1, ShiftedOut
  <2> QED
    BY <1>1, <2>2
<1>3. PICK n \in Met : \A m \in Met : n <= m
  <2>1. Met \in SUBSET Nat /\ Met # {}
    BY <1>2
  <2> QED
    BY <2>1, LeastElement
<1>4. First(n)
  BY <1>3
<1>5. First(InnerProofSize(index, size))
  BY <1>4 DEF InnerProofSize
<1> QED
  BY <1>1, <1>5, PathsStayTogether

\* Counting ones bit by bit, as the recursion of CountOnes does it.
LEMMA Counting ==
    ASSUME NEW number \in Nat
    PROVE  \E ones :
             /\ ones[0] = 0 /\ \A n \in 1..number : ones[n] = (n % 2) + ones[n \div 2]
             /\ CountOnes(number) = ones[number]
<1> DEFINE Rec(m, f) == f = [n \in 0..m |-> IF n = 0 THEN 0 ELSE (n % 2) + f[n \div 2]]
           T == {m \in Nat : \E f : Rec(m, f)}
<1>1. 0 \in T
  <2>1. Rec(0, [n \in 0..0 |-> 0])
    OBVIOUS
  <2> QED
    BY <2>1
<1>2. ASSUME NEW m \in Nat, m \in T PROVE m + 1 \in T
  <2>1. PICK f : Rec(m, f)
    BY <1>2
  <2> DEFINE g == [n \in 0..(m + 1) |->
                      IF n <= m THEN f[n] ELSE (n % 2) + f[n \div 2]]
  <2>2. \A n \in 1..(m + 1) : n \div 2 \in 0..m
    OBVIOUS
  <2>3. Rec(m + 1, g)
    BY <2>1, <2>2
  <2> HIDE DEF Rec, g
  <2> QED
    BY <2>3
<1>3. PICK f : Rec(number, f)
  BY <1>1, <1>2, EveryNumber
<1> DEFINE ones == CHOOSE ones : Rec(number, ones)
<1>4. Rec(number, ones)
  <2>1. LET h == CHOOSE h : Rec(number, h) IN Rec(number, h)
    BY <1>3, Zenon
  <2> QED
    BY <2>1
<1>5. CountOnes(number) = ones[number]
  BY DEF CountOnes
<1> HIDE DEF ones
<1> QED
  BY <1>4, <1>5

LEMMA OnesOfHalf ==
    /\ CountOnes(0) = 0
    /\ \A n \in Nat : CountOnes(n) \in Nat /\ CountOnes(n) = (n % 2) + CountOnes(n \div 2)
<1> DEFINE Counts(m, f) == f[0] = 0 /\ \A n \in 1..m : f[n] = (n % 2) + f[n \div 2]
           Agree == {i \in Nat : \A j \in 0..i : \A m \in Nat : j <= m =>
                                   \A f : Counts(m, f) => f[j] = CountOnes(j)}
           Natural == {i \in Nat : \A j \in 0..i : CountOnes(j) \in Nat}
<1>1. CountOnes(0) = 0
  BY Counting
<1>2. ASSUME NEW i \in Nat, i \in Agree
      PROVE  i + 1 \in Agree
             /\ CountOnes(i + 1) = ((i + 1) % 2) + CountOnes((i + 1) \div 2)
  <2>1. PICK ones : Counts(i + 1, ones) /\ CountOnes(i + 1) = ones[i + 1]
    BY Counting
  <2>2. (i + 1) \div 2 \in 0..i
    OBVIOUS
  <2>3. ones[(i + 1) \div 2] = CountOnes((i + 1) \div 2)
    BY <1>2, <2>1, <2>2
  <2>4. ones[i + 1] = ((i + 1) % 2) + ones[(i + 1) \div 2]
    BY <2>1
  <2>5. ASSUME NEW m \in Nat, i + 1 <= m, NEW f, Counts(m, f)
        PROVE  f[i + 1] = CountOnes(i + 1)
    <3>1. f[i + 1] = ((i + 1) % 2) + f[(i + 1) \div 2]
      BY <2>5
    <3>2. f[(i + 1) \div 2] = CountOnes((i + 1) \div 2)
      BY <1>2, <2>2, <2>5
    <3> QED
      BY <2>1, <2>3, <2>4, <3>1, <3>2
  <2>6. ASSUME NEW j \in 0..(i + 1), NEW m \in Nat, j <= m, NEW f, Counts(m, f)
        PROVE  f[j] = CountOnes(j)
    <3>1. CASE j \in 0..i
      <4> HIDE DEF Counts
      <4> QED
        BY <1>2, <2>6, <3>1
    <3>2. CASE j = i + 1
      <4> HIDE DEF Counts
      <4> QED
        BY <2>5, <2>6, <3>2
    <3> QED
      BY <3>1, <3>2
  <2>7. i + 1 \in Agree
    <3> HIDE DEF Counts
    <3> QED
      BY <2>6
  <2> QED
    BY <2>1, <2>3, <2>4, <2>7
<1>3. 0 \in Agree
  BY <1>1
<1>4. \A i \in Nat : i \in Agree
  <2> HIDE DEF Agree
  <2> QED
    BY <1>2, <1>3, EveryNumber
<1>5. \A n \in Nat : CountOnes(n) = (n % 2) + CountOnes(n \div 2)
  <2>1. \A i \in Nat : CountOnes(i + 1) = ((i + 1) % 2) + CountOnes((i + 1) \div 2)
    <3> HIDE DEF Agree
    <3> QED
      BY <1>2, <1>4
  <2>2. CountOnes(0) = (0 % 2) + CountOnes(0 \div 2)
    BY <1>1
  <2>3. ASSUME NEW n \in Nat, n # 0 PROVE CountOnes(n) = (n % 2) + CountOnes(n \div 2)
    <3>1. n - 1 \in Nat /\ (n - 1) + 1 = n
      BY <2>3
    <3> QED
      BY <2>1, <3>1
  <2> QED
    BY <2>2, <2>3
<1>6. 0 \in Natural
  BY <1>1
<1>7. ASSUME NEW i \in Nat, i \in Natural PROVE i + 1 \in Natural
  <2>1. (i + 1) \div 2 \in 0..i /\ (i + 1) % 2 \in Nat
    OBVIOUS
  <2>2. CountOnes(i + 1) \in Nat
    BY <1>5, <1>7, <2>1
  <2> QED
    BY <1>7, <2>2
<1>8. \A n \in Nat : n \in Natural
  <2> HIDE DEF Natural
  <2> QED
    BY <1>6, <1>7, EveryNumber
<1>9. \A n \in Nat : CountOnes(n) \in Nat
  BY <1>8
<1> QED
  BY <1>1, <1>5, <1>9

-----------------------------------------------------------------------------
(* Levels: the rounds of merkle_root, and the tree they add up to.            *)

\* level[r] is what r rounds make of the leaves.
LevelsOf(leaves, level) ==
    /\ level[0] = leaves
    /\ \A r \in Nat : level[r + 1] = NextLevel(level[r])

Row(level) == Len(level) \in Nat /\ level = [k \in 1..Len(level) |-> level[k]]

LEMMA NextRow ==
    ASSUME NEW level, Row(level)
    PROVE  /\ Row(NextLevel(level)) /\ Len(NextLevel(level)) = (Len(level) + 1) \div 2
           /\ \A k \in 1..((Len(level) + 1) \div 2) :
                 NextLevel(level)[k] = IF 2 * k > Len(level) THEN level[2 * k - 1]
                                       ELSE <<level[2 * k - 1], level[2 * k]>>
<1>1. (Len(level) + 1) \div 2 \in Nat
  BY DEF Row
<1> QED
  BY <1>1 DEF Row, NextLevel, MerkleInteriorHash

\* A root stays.
LEMMA RootRow ==
    ASSUME NEW level, Row(level), Len(level) = 1
    PROVE  NextLevel(level) = level
<1>1. (1 + 1) \div 2 = 1
  OBVIOUS
<1>2. NextLevel(level) = [k \in 1..1 |-> level[1]]
  BY <1>1 DEF NextLevel
<1>3. level = [k \in 1..1 |-> level[1]]
  BY DEF Row
<1> QED
  BY <1>2, <1>3

\* A row of an index more than the last one's is half as long after a round.
LEMMA NextWidth ==
    ASSUME NEW level, Row(level), NEW last \in Nat, NEW r \in Nat,
           Len(level) = Shifted(last, r) + 1
    PROVE  Row(NextLevel(level)) /\ Len(NextLevel(level)) = Shifted(last, r + 1) + 1
<1>1. Shifted(last, r) \in Nat /\ Shifted(last, r + 1) = Shifted(last, r) \div 2
  BY Shifting
<1>2. \A w \in Nat : ((w + 1) + 1) \div 2 = (w \div 2) + 1
  OBVIOUS
<1>3. Row(NextLevel(level)) /\ Len(NextLevel(level)) = (Len(level) + 1) \div 2
  BY NextRow
<1> QED
  BY <1>1, <1>2, <1>3

LEMMA Widths ==
    ASSUME NEW leaves, Row(leaves), Len(leaves) >= 1, NEW level, LevelsOf(leaves, level),
           NEW r \in Nat
    PROVE  Row(level[r]) /\ Len(level[r]) = Shifted(Len(leaves) - 1, r) + 1
<1> DEFINE Wide == {i \in Nat : Row(level[i]) /\ Len(level[i]) = Shifted(Len(leaves) - 1, i) + 1}
<1>1. Len(leaves) - 1 \in Nat /\ Len(leaves) \in Nat
  BY DEF Row
<1>2. 0 \in Wide
  <2>1. level[0] = leaves /\ Shifted(Len(leaves) - 1, 0) = Len(leaves) - 1
    BY <1>1, NotShifted DEF LevelsOf
  <2>2. \A n \in Nat : (n - 1) + 1 = n
    OBVIOUS
  <2>3. Len(leaves) = (Len(leaves) - 1) + 1
    BY <1>1, <2>2, Zenon
  <2> QED
    BY <2>1, <2>3, Zenon
<1>3. ASSUME NEW i \in Nat, i \in Wide PROVE i + 1 \in Wide
  <2>1. level[i + 1] = NextLevel(level[i])
    BY DEF LevelsOf
  <2>2. Row(level[i]) /\ Len(level[i]) = Shifted(Len(leaves) - 1, i) + 1
    BY <1>3
  <2>3. Row(NextLevel(level[i]))
        /\ Len(NextLevel(level[i])) = Shifted(Len(leaves) - 1, i + 1) + 1
    BY <1>1, <2>2, NextWidth
  <2> QED
    BY <2>1, <2>3
<1>4. r \in Wide
  <2> HIDE DEF Wide
  <2> QED
    BY <1>2, <1>3, EveryNumber
<1> QED
  BY <1>4

\* merkle_root goes through the levels up to the one of a single node.
LEMMA RootOfLevels ==
    ASSUME NEW leaves, Row(leaves), Len(leaves) >= 1
    PROVE  \E level : /\ LevelsOf(leaves, level)
                      /\ MerkleRoot(leaves) = level[Len(leaves)][1]
<1> DEFINE n == Len(leaves)
           Rec(m, f) == f = [round \in 0..m |->
                               IF round = 0 THEN leaves
                               ELSE LET below == f[round - 1]
                                    IN  IF Len(below) = 1 THEN below ELSE NextLevel(below)]
           T == {m \in Nat : \E f : Rec(m, f)}
<1>0. n \in Nat /\ n >= 1 /\ n - 1 \in Nat
  BY DEF Row
<1>1. 0 \in T
  <2>1. Rec(0, [round \in 0..0 |-> leaves])
    OBVIOUS
  <2> QED
    BY <2>1
<1>2. ASSUME NEW m \in Nat, m \in T PROVE m + 1 \in T
  <2>1. PICK f : Rec(m, f)
    BY <1>2
  <2> DEFINE g == [round \in 0..(m + 1) |->
                      IF round <= m THEN f[round]
                      ELSE IF Len(f[m]) = 1 THEN f[m] ELSE NextLevel(f[m])]
  <2>2. Rec(m + 1, g)
    BY <2>1
  <2> HIDE DEF Rec, g
  <2> QED
    BY <2>2
<1>3. PICK f : Rec(n, f)
  BY <1>0, <1>1, <1>2, EveryNumber
<1> DEFINE F == CHOOSE F : Rec(n, F)
<1>4. Rec(n, F)
  <2>1. LET h == CHOOSE h : Rec(n, h) IN Rec(n, h)
    BY <1>3, Zenon
  <2> QED
    BY <2>1
<1>5. MerkleRoot(leaves) = F[n][1]
  <2>1. leaves # <<>>
    BY <1>0
  <2> QED
    BY <2>1 DEF MerkleRoot
<1> HIDE DEF F
<1>6. F[0] = leaves /\ \A r \in Nat : r < n =>
          F[r + 1] = IF Len(F[r]) = 1 THEN F[r] ELSE NextLevel(F[r])
  BY <1>0, <1>4
<1> HIDE DEF Rec
<1> DEFINE Wide == {r \in Nat : r <= n => /\ Row(F[r])
                                          /\ Len(F[r]) = Shifted(n - 1, r) + 1}
<1>7. ASSUME NEW r \in Nat, r < n, Row(F[r]) PROVE F[r + 1] = NextLevel(F[r])
  BY <1>6, <1>7, RootRow
<1>8. \A r \in Nat : r \in Wide
  <2>1. 0 \in Wide
    BY <1>0, <1>6, NotShifted
  <2>2. ASSUME NEW r \in Nat, r \in Wide PROVE r + 1 \in Wide
    <3> SUFFICES ASSUME r + 1 <= n
                 PROVE  Row(F[r + 1]) /\ Len(F[r + 1]) = Shifted(n - 1, r + 1) + 1
      OBVIOUS
    <3>1. r < n /\ Row(F[r]) /\ Len(F[r]) = Shifted(n - 1, r) + 1
      BY <1>0, <2>2
    <3>2. F[r + 1] = NextLevel(F[r])
      BY <1>7, <3>1
    <3>3. Row(NextLevel(F[r])) /\ Len(NextLevel(F[r])) = Shifted(n - 1, r + 1) + 1
      <4> HIDE DEF n
      <4> QED
        BY <1>0, <3>1, NextWidth
    <3> QED
      BY <3>2, <3>3, Zenon
  <2> HIDE DEF Wide
  <2> QED
    BY <2>1, <2>2, EveryNumber
<1>9. Row(F[n]) /\ Len(F[n]) = 1
  <2>1. Shifted(n - 1, n) = 0
    <3>1. n - 1 < TwoTo(n)
      BY <1>0, PowersOfTwo
    <3> QED
      BY <1>0, <3>1, ShiftedOut
  <2>2. n \in Wide
    <3> HIDE DEF Wide, n
    <3> QED
      BY <1>0, <1>8
  <2>3. Row(F[n]) /\ Len(F[n]) = Shifted(n - 1, n) + 1
    <3> HIDE DEF n
    <3> QED
      BY <1>0, <2>2
  <2> QED
    BY <2>1, <2>3
<1> DEFINE level == [r \in Nat |-> IF r <= n THEN F[r] ELSE F[n]]
<1>10. LevelsOf(leaves, level)
  <2>1. level[0] = leaves
    BY <1>0, <1>6
  <2>2. ASSUME NEW r \in Nat PROVE level[r + 1] = NextLevel(level[r])
    <3>1. CASE r < n
      BY <1>0, <1>7, <1>8, <3>1
    <3>2. CASE ~(r < n)
      <4>1. level[r] = F[n] /\ level[r + 1] = F[n]
        BY <1>0, <3>2
      <4> QED
        BY <1>9, <4>1, RootRow
    <3> QED
      BY <3>1, <3>2
  <2> QED
    BY <2>1, <2>2 DEF LevelsOf
<1>11. MerkleRoot(leaves) = level[n][1]
  BY <1>0, <1>5
<1> HIDE DEF level
<1> QED
  BY <1>10, <1>11

-----------------------------------------------------------------------------
(* The tree of RFC 6962.                                                      *)

\* The largest power of two below a number is the one between its neighbours.
LEMMA SplitAt ==
    ASSUME NEW w \in Nat, NEW r \in Nat, TwoTo(r) < w, w <= TwoTo(r + 1)
    PROVE  SplitPoint(w) = TwoTo(r)
<1> DEFINE Below(i) == TwoTo(i) < w /\ w <= TwoTo(i + 1)
           split == CHOOSE i \in 0..w : Below(i)
<1>1. r \in 0..w /\ Below(r)
  <2>1. TwoTo(r) > r /\ TwoTo(r) \in Nat
    BY PowersOfTwo
  <2> QED
    BY <2>1
<1>2. split \in 0..w /\ Below(split)
  <2> HIDE DEF Below
  <2> QED
    BY <1>1
<1>3. SplitPoint(w) = TwoTo(split)
  BY DEF SplitPoint
<1> HIDE DEF split
<1>4. TwoTo(r) \in Nat /\ TwoTo(r + 1) \in Nat /\ TwoTo(split) \in Nat /\ TwoTo(split + 1) \in Nat
  BY <1>2, PowersOfTwo
<1>5. ~(r < split)
  <2> SUFFICES ASSUME r < split PROVE FALSE
    OBVIOUS
  <2>1. r + 1 \in Nat /\ split \in Nat /\ r + 1 <= split
    BY <1>2
  <2>2. TwoTo(r + 1) <= TwoTo(split)
    BY <2>1, PowersGrow
  <2> QED
    BY <1>2, <1>4, <2>2
<1>6. ~(split < r)
  <2> SUFFICES ASSUME split < r PROVE FALSE
    OBVIOUS
  <2>1. split + 1 \in Nat /\ split + 1 <= r
    BY <1>2
  <2>2. TwoTo(split + 1) <= TwoTo(r)
    BY <2>1, PowersGrow
  <2> QED
    BY <1>2, <1>4, <2>2
<1>7. split = r
  BY <1>2, <1>5, <1>6
<1> QED
  BY <1>3, <1>7

LEMMA SplitInside ==
    ASSUME NEW w \in Nat, w > 1
    PROVE  SplitPoint(w) \in 1..(w - 1)
<1> DEFINE Cover == {i \in Nat : w <= TwoTo(i)}
<1>1. w \in Cover
  BY PowersOfTwo
<1>2. PICK t \in Cover : \A j \in Cover : t <= j
  BY <1>1, LeastElement
<1>3. t # 0
  BY <1>2, PowersOfTwo
<1>4. t - 1 \in Nat /\ (t - 1) + 1 = t /\ t - 1 \notin Cover
  BY <1>2, <1>3
<1>5. TwoTo(t - 1) \in Nat /\ TwoTo(t - 1) >= 1
  BY <1>4, PowersOfTwo
<1>6. TwoTo(t - 1) < w /\ w <= TwoTo((t - 1) + 1)
  BY <1>2, <1>4, <1>5
<1>7. SplitPoint(w) = TwoTo(t - 1)
  BY <1>4, <1>6, SplitAt
<1> QED
  BY <1>5, <1>6, <1>7

\* A range of more than one leaf falls into two of at least one.
LEMMA Divided ==
    ASSUME NEW leaves, Len(leaves) \in Nat, NEW r \in Ranges(leaves), ~Single(r)
    PROVE  /\ Middle(r) \in (r[1] + 1)..(r[2] - 1)
           /\ LeftOf(r) = <<r[1], Middle(r)>> /\ RightOf(r) = <<Middle(r), r[2]>>
           /\ LeftOf(r) \in Ranges(leaves) /\ RightOf(r) \in Ranges(leaves)
           /\ \A w \in Nat : r[2] <= r[1] + (w + 1) =>
                 LeftOf(r)[2] <= LeftOf(r)[1] + w /\ RightOf(r)[2] <= RightOf(r)[1] + w
<1>1. r[1] \in 0..Len(leaves) /\ r[2] \in 0..Len(leaves) /\ r[2] > r[1] + 1
  BY DEF Ranges, Single
<1>2. SplitPoint(r[2] - r[1]) \in 1..((r[2] - r[1]) - 1)
  BY <1>1, SplitInside
<1>3. Middle(r) \in (r[1] + 1)..(r[2] - 1)
  BY <1>1, <1>2 DEF Middle
<1> QED
  BY <1>1, <1>3 DEF LeftOf, RightOf, Ranges

LEMMA SubtreeSplits ==
    ASSUME NEW leaves, Len(leaves) \in Nat, NEW range \in Ranges(leaves)
    PROVE  Subtree(leaves, range) =
              IF Single(range) THEN leaves[range[2]]
              ELSE <<Subtree(leaves, LeftOf(range)), Subtree(leaves, RightOf(range))>>
<1> DEFINE R == Ranges(leaves)
           Body(f, r) == IF Single(r) THEN leaves[r[2]]
                         ELSE MerkleInteriorHash(f[LeftOf(r)], f[RightOf(r)])
           Upto(w, f) == /\ f = [r \in R |-> f[r]]
                         /\ \A r \in R : r[2] <= r[1] + w => f[r] = Body(f, r)
           T == {w \in Nat : \E f : Upto(w, f)}
           Rec(f) == f = [r \in R |-> Body(f, r)]
<1>0. \A r \in R : r[1] \in 0..Len(leaves) /\ r[2] \in 0..Len(leaves)
  BY DEF Ranges
<1>1. 0 \in T
  <2> DEFINE g == [r \in R |-> leaves[r[2]]]
  <2>1. Upto(0, g)
    BY <1>0 DEF Single
  <2> HIDE DEF Upto, g
  <2> QED
    BY <2>1
<1>2. ASSUME NEW w \in Nat, w \in T PROVE w + 1 \in T
  <2>1. PICK f : Upto(w, f)
    BY <1>2
  <2> DEFINE g == [r \in R |-> IF r[2] <= r[1] + w THEN f[r] ELSE Body(f, r)]
  <2>2. ASSUME NEW r \in R, r[2] <= r[1] + (w + 1) PROVE g[r] = Body(g, r)
    <3>1. g[r] = Body(f, r)
      BY <2>1
    <3>2. CASE ~Single(r)
      <4>1. /\ LeftOf(r) \in R /\ RightOf(r) \in R
            /\ LeftOf(r)[2] <= LeftOf(r)[1] + w /\ RightOf(r)[2] <= RightOf(r)[1] + w
        BY <2>2, <3>2, Divided
      <4>2. g[LeftOf(r)] = f[LeftOf(r)] /\ g[RightOf(r)] = f[RightOf(r)]
        BY <4>1
      <4> QED
        BY <3>1, <4>2
    <3> QED
      BY <3>1, <3>2
  <2>3. g = [r \in R |-> g[r]]
    OBVIOUS
  <2>4. Upto(w + 1, g)
    <3> HIDE DEF g, Body
    <3> QED
      BY <2>2, <2>3
  <2> HIDE DEF Upto, g
  <2> QED
    BY <2>4
<1>3. PICK f : Upto(Len(leaves), f)
  <2>1. Len(leaves) \in T
    <3> HIDE DEF T
    <3> QED
      BY <1>1, <1>2, EveryNumber
  <2> QED
    BY <2>1
<1>4. Rec(f)
  <2>1. \A r \in R : f[r] = Body(f, r)
    <3> HIDE DEF Body, R
    <3> QED
      BY <1>0, <1>3
  <2> HIDE DEF Body
  <2> QED
    BY <1>3, <2>1
<1> DEFINE hash == CHOOSE hash : Rec(hash)
<1>5. Rec(hash)
  <2>1. LET h == CHOOSE h : Rec(h) IN Rec(h)
    <3> HIDE DEF Rec
    <3> QED
      BY <1>4, Zenon
  <2> QED
    BY <2>1
<1>6. \A r : Subtree(leaves, r) = hash[r]
  BY DEF Subtree
<1> HIDE DEF hash
<1>7. \A r \in R : hash[r] = Body(hash, r)
  <2> HIDE DEF Body
  <2> QED
    BY <1>5
<1> QED
  BY <1>6, <1>7 DEF MerkleInteriorHash

\* The leaves under node j of level r.
Under(n, r, j) ==
    <<j * TwoTo(r), IF (j + 1) * TwoTo(r) <= n THEN (j + 1) * TwoTo(r) ELSE n>>

LEMMA NodesInOrder ==
    ASSUME NEW n \in Nat, n >= 1, NEW r \in Nat, NEW j \in 0..Shifted(n - 1, r)
    PROVE  /\ j * TwoTo(r) \in Nat /\ j * TwoTo(r) <= n - 1
           /\ Under(n, r, j)[2] \in (j * TwoTo(r) + 1)..n
<1>1. ASSUME NEW d \in Nat, d >= 1, NEW i \in 0..((n - 1) \div d)
      PROVE  i * d \in Nat /\ i * d <= n - 1 /\ (i + 1) * d > i * d /\ (i + 1) * d \in Nat
  BY <1>1
<1>2. TwoTo(r) \in Nat /\ TwoTo(r) >= 1
  BY PowersOfTwo
<1> QED
  BY <1>1, <1>2 DEF Under, Shifted

LEMMA NodesHalve ==
    ASSUME NEW n \in Nat, n >= 1, NEW r \in Nat, NEW j \in 0..Shifted(n - 1, r + 1)
    PROVE  /\ 2 * j \in 0..Shifted(n - 1, r)
           /\ 2 * j + 1 > Shifted(n - 1, r) => Under(n, r + 1, j) = Under(n, r, 2 * j)
           /\ 2 * j + 1 <= Shifted(n - 1, r) =>
                 /\ ~Single(Under(n, r + 1, j))
                 /\ Middle(Under(n, r + 1, j)) = (2 * j + 1) * TwoTo(r)
                 /\ LeftOf(Under(n, r + 1, j)) = Under(n, r, 2 * j)
                 /\ RightOf(Under(n, r + 1, j)) = Under(n, r, 2 * j + 1)
<1> DEFINE d == TwoTo(r)
           hi == IF (j + 1) * (2 * d) <= n THEN (j + 1) * (2 * d) ELSE n
<1>1. d \in Nat /\ d >= 1 /\ TwoTo(r + 1) = 2 * d
  BY PowersOfTwo
<1>2. Under(n, r + 1, j) = <<j * (2 * d), hi>>
  BY <1>1 DEF Under
<1>3. n - 1 \in Nat /\ Shifted(n - 1, r) \in Nat /\ Shifted(n - 1, r) = (n - 1) \div d
      /\ Shifted(n - 1, r + 1) = ((n - 1) \div d) \div 2
  <2>1. n - 1 \in Nat
    OBVIOUS
  <2>2. Shifted(n - 1, r) \in Nat /\ Shifted(n - 1, r + 1) = Shifted(n - 1, r) \div 2
    BY <2>1, Shifting
  <2>3. Shifted(n - 1, r) = (n - 1) \div d
    BY DEF Shifted
  <2> QED
    BY <2>1, <2>2, <2>3
<1>4. j \in Nat /\ 2 * j \in 0..Shifted(n - 1, r)
  BY <1>3
<1> HIDE DEF d
<1>5. /\ (j + 1) * (2 * d) = (2 * j + 2) * d /\ (2 * j + 2) * d = (2 * j + 1) * d + d
      /\ j * (2 * d) = (2 * j) * d /\ (2 * j + 1) * d = (2 * j) * d + d
      /\ (2 * j) * d \in Nat /\ (2 * j + 1) * d \in Nat
  BY <1>1, <1>4
<1>6. ASSUME 2 * j + 1 > Shifted(n - 1, r)
      PROVE  Under(n, r + 1, j) = Under(n, r, 2 * j)
  <2>1. n <= (2 * j + 1) * d
    <3>1. \A i \in Nat : i > (n - 1) \div d => i * d > n - 1
      BY <1>1
    <3>2. 2 * j + 1 \in Nat /\ 2 * j + 1 > (n - 1) \div d
      BY <1>3, <1>4, <1>6
    <3>3. (2 * j + 1) * d > n - 1
      BY <3>1, <3>2
    <3> QED
      BY <1>5, <3>3
  <2>2. hi = n
    BY <1>1, <1>5, <2>1
  <2>3. Under(n, r, 2 * j) = <<(2 * j) * d, n>>
    <3>1. Under(n, r, 2 * j)
             = <<(2 * j) * d, IF (2 * j + 1) * d <= n THEN (2 * j + 1) * d ELSE n>>
      BY DEF Under, d
    <3> QED
      BY <1>5, <2>1, <3>1
  <2> QED
    BY <1>2, <1>5, <2>2, <2>3
<1>7. ASSUME 2 * j + 1 <= Shifted(n - 1, r)
      PROVE  /\ ~Single(Under(n, r + 1, j))
             /\ Middle(Under(n, r + 1, j)) = (2 * j + 1) * d
             /\ LeftOf(Under(n, r + 1, j)) = Under(n, r, 2 * j)
             /\ RightOf(Under(n, r + 1, j)) = Under(n, r, 2 * j + 1)
  <2>1. (2 * j + 1) * d <= n - 1
    <3>1. \A i \in Nat : i <= (n - 1) \div d => i * d <= n - 1
      BY <1>1
    <3> QED
      BY <1>3, <1>4, <1>7, <3>1
  <2>2. hi \in Nat /\ hi > (2 * j) * d + d /\ hi <= (2 * j) * d + 2 * d
    BY <1>1, <1>5, <2>1
  <2>3. SplitPoint(hi - (2 * j) * d) = d
    <3>1. hi - (2 * j) * d \in Nat /\ d < hi - (2 * j) * d /\ hi - (2 * j) * d <= 2 * d
      BY <1>1, <1>5, <2>2
    <3> HIDE DEF hi
    <3> QED
      BY <1>1, <3>1, SplitAt DEF d
  <2> HIDE DEF hi
  <2>4. Under(n, r + 1, j) = <<(2 * j) * d, hi>>
    BY <1>2, <1>5
  <2>5. Middle(Under(n, r + 1, j)) = (2 * j + 1) * d
    BY <1>5, <2>3, <2>4 DEF Middle
  <2>6. ~Single(Under(n, r + 1, j))
    BY <1>1, <1>5, <2>2, <2>4 DEF Single
  <2>7. Under(n, r, 2 * j) = <<(2 * j) * d, (2 * j + 1) * d>>
    BY <1>1, <1>5, <2>1 DEF Under, d
  <2>8. Under(n, r, 2 * j + 1) = <<(2 * j + 1) * d, hi>>
    <3>1. (2 * j + 1) + 1 = 2 * j + 2
      BY <1>4
    <3> QED
      BY <1>5, <3>1 DEF Under, d, hi
  <2> QED
    BY <2>4, <2>5, <2>6, <2>7, <2>8 DEF LeftOf, RightOf
<1> QED
  BY <1>4, <1>6, <1>7 DEF d

\* Every node of a level is the hash of the leaves under it.
LEMMA NodesAreSubtrees ==
    ASSUME NEW leaves, Row(leaves), Len(leaves) >= 1, NEW level, LevelsOf(leaves, level),
           NEW r \in Nat
    PROVE  \A j \in 0..Shifted(Len(leaves) - 1, r) :
              level[r][j + 1] = Subtree(leaves, Under(Len(leaves), r, j))
<1> DEFINE n == Len(leaves)
           Hold == {i \in Nat : \A j \in 0..Shifted(n - 1, i) :
                        level[i][j + 1] = Subtree(leaves, Under(n, i, j))}
<1>0. n \in Nat /\ n >= 1 /\ n - 1 \in Nat
  BY DEF Row
<1> HIDE DEF n
<1>1. ASSUME NEW i \in Nat, NEW j \in 0..Shifted(n - 1, i)
      PROVE  Under(n, i, j) \in Ranges(leaves)
  <2>1. /\ j * TwoTo(i) \in Nat /\ j * TwoTo(i) <= n - 1
        /\ Under(n, i, j)[2] \in (j * TwoTo(i) + 1)..n
    BY <1>0, NodesInOrder
  <2> QED
    BY <1>0, <2>1 DEF Ranges, Under, n
<1>2. 0 \in Hold
  <2>1. ASSUME NEW j \in 0..Shifted(n - 1, 0)
        PROVE  level[0][j + 1] = Subtree(leaves, Under(n, 0, j))
    <3>1. j \in 0..(n - 1)
      BY <1>0, NotShifted
    <3>2. Under(n, 0, j) = <<j, j + 1>>
      <4>1. j * 1 = j /\ (j + 1) * 1 = j + 1 /\ j + 1 <= n
        BY <1>0, <3>1
      <4>2. TwoTo(0) = 1
        BY PowersOfTwo
      <4> QED
        BY <4>1, <4>2 DEF Under
    <3>3. Subtree(leaves, <<j, j + 1>>) = leaves[j + 1]
      <4>1. <<j, j + 1>> \in Ranges(leaves) /\ Single(<<j, j + 1>>)
        BY <1>0, <3>1 DEF Ranges, Single, n
      <4> QED
        BY <1>0, <4>1, SubtreeSplits DEF n
    <3> QED
      BY <3>2, <3>3 DEF LevelsOf
  <2> QED
    BY <2>1
<1>3. ASSUME NEW i \in Nat, i \in Hold PROVE i + 1 \in Hold
  <2>1. ASSUME NEW j \in 0..Shifted(n - 1, i + 1)
        PROVE  level[i + 1][j + 1] = Subtree(leaves, Under(n, i + 1, j))
    <3>1. 2 * j \in 0..Shifted(n - 1, i) /\ j \in Nat
      <4>1. Shifted(n - 1, i + 1) \in Nat /\ i + 1 \in Nat
        BY <1>0, Shifting
      <4> QED
        BY <1>0, <4>1, NodesHalve
    <3>2. /\ Row(level[i]) /\ Len(level[i]) = Shifted(n - 1, i) + 1
          /\ level[i + 1] = NextLevel(level[i]) /\ Shifted(n - 1, i) \in Nat
      BY <1>0, Widths, Shifting DEF LevelsOf, n
    <3>3. level[i + 1][j + 1] =
              IF 2 * j + 1 > Shifted(n - 1, i) THEN level[i][2 * j + 1]
              ELSE <<level[i][2 * j + 1], level[i][(2 * j + 1) + 1]>>
      <4>1. j + 1 \in 1..((Len(level[i]) + 1) \div 2)
        BY <3>1, <3>2
      <4>2. /\ 2 * (j + 1) > Len(level[i]) <=> 2 * j + 1 > Shifted(n - 1, i)
            /\ 2 * (j + 1) - 1 = 2 * j + 1 /\ 2 * (j + 1) = (2 * j + 1) + 1
        BY <3>1, <3>2
      <4>3. NextLevel(level[i])[j + 1] =
               IF 2 * (j + 1) > Len(level[i]) THEN level[i][2 * (j + 1) - 1]
               ELSE <<level[i][2 * (j + 1) - 1], level[i][2 * (j + 1)]>>
        BY <3>2, <4>1, NextRow
      <4> QED
        BY <3>2, <4>2, <4>3
    <3>4. level[i][2 * j + 1] = Subtree(leaves, Under(n, i, 2 * j))
      BY <1>3, <3>1
    <3>5. CASE 2 * j + 1 > Shifted(n - 1, i)
      <4>1. Under(n, i + 1, j) = Under(n, i, 2 * j)
        BY <1>0, <3>5, NodesHalve
      <4> QED
        BY <3>3, <3>4, <3>5, <4>1
    <3>6. CASE 2 * j + 1 <= Shifted(n - 1, i)
      <4>1. level[i][(2 * j + 1) + 1] = Subtree(leaves, Under(n, i, 2 * j + 1))
        BY <1>3, <3>1, <3>2, <3>6
      <4>2. /\ ~Single(Under(n, i + 1, j))
            /\ LeftOf(Under(n, i + 1, j)) = Under(n, i, 2 * j)
            /\ RightOf(Under(n, i + 1, j)) = Under(n, i, 2 * j + 1)
        BY <1>0, <3>6, NodesHalve
      <4>3. Under(n, i + 1, j) \in Ranges(leaves)
        BY <1>1
      <4>4. Subtree(leaves, Under(n, i + 1, j))
               = <<Subtree(leaves, Under(n, i, 2 * j)), Subtree(leaves, Under(n, i, 2 * j + 1))>>
        BY <1>0, <4>2, <4>3, SubtreeSplits DEF n
      <4>5. ~(2 * j + 1 > Shifted(n - 1, i))
        BY <3>1, <3>2, <3>6
      <4> QED
        BY <3>3, <3>4, <4>1, <4>4, <4>5
    <3> QED
      BY <3>1, <3>2, <3>5, <3>6
  <2> QED
    BY <2>1
<1>4. r \in Hold
  <2> HIDE DEF Hold
  <2> QED
    BY <1>2, <1>3, EveryNumber
<1> QED
  BY <1>4 DEF n

LEMMA RootIsWhole ==
    ASSUME NEW n \in Nat, n >= 1
    PROVE  Shifted(n - 1, n) = 0 /\ Under(n, n, 0) = <<0, n>>
<1>2. TwoTo(n) \in Nat /\ TwoTo(n) > n /\ n - 1 \in Nat
  BY PowersOfTwo
<1>3. 0 * TwoTo(n) = 0 /\ (0 + 1) * TwoTo(n) = TwoTo(n)
  BY <1>2
<1>4. Shifted(n - 1, n) = 0
  BY <1>2, ShiftedOut
<1> QED
  BY <1>2, <1>3, <1>4 DEF Under

\* merkle_root builds the tree of RFC 6962, whatever the number of leaves.
THEOREM RootIsTreeHash ==
    ASSUME NEW S, NEW leaves \in Seq(S), leaves # <<>>
    PROVE  MerkleRoot(leaves) = TreeHash(leaves)
<1> DEFINE n == Len(leaves)
<1>1. Row(leaves) /\ n \in Nat /\ n >= 1 /\ n - 1 \in Nat
  BY DEF Row
<1>2. PICK level : LevelsOf(leaves, level) /\ MerkleRoot(leaves) = level[n][1]
  BY <1>1, RootOfLevels
<1>3. \A j \in 0..Shifted(n - 1, n) : level[n][j + 1] = Subtree(leaves, Under(n, n, j))
  BY <1>1, <1>2, NodesAreSubtrees
<1>4. Shifted(n - 1, n) = 0 /\ Under(n, n, 0) = <<0, n>>
  BY <1>1, RootIsWhole
<1>5. level[n][0 + 1] = Subtree(leaves, <<0, n>>)
  <2> HIDE DEF n
  <2> QED
    BY <1>3, <1>4
<1> QED
  BY <1>2, <1>5 DEF TreeHash, Whole

-----------------------------------------------------------------------------
(* What the chains fold.                                                      *)

LeftOrRight(number, i, node, sibling) ==
    IF Bit(number, i - 1) = 0 THEN MerkleInteriorHash(node, sibling)
    ELSE MerkleInteriorHash(sibling, node)

OnlyRight(number, i, node, sibling) ==
    IF Bit(number, i - 1) = 1 THEN MerkleInteriorHash(sibling, node) ELSE node

\* The nodes of a chain, from its seed to what it folds to.
InnerNodes(node, seed, proof, index) ==
    /\ node[0] = seed
    /\ \A i \in 1..Len(proof) : node[i] = LeftOrRight(index, i, node[i - 1], proof[i])
    /\ ChainInner(seed, proof, index) = node[Len(proof)]

InnerRightNodes(node, seed, proof, index) ==
    /\ node[0] = seed
    /\ \A i \in 1..Len(proof) : node[i] = OnlyRight(index, i, node[i - 1], proof[i])
    /\ ChainInnerRight(seed, proof, index) = node[Len(proof)]

BorderNodes(node, seed, proof) ==
    /\ node[0] = seed
    /\ \A i \in 1..Len(proof) : node[i] = MerkleInteriorHash(proof[i], node[i - 1])
    /\ ChainBorderRight(seed, proof) = node[Len(proof)]

\* A chain has one node more for every sibling.
LEMMA InnerChain ==
    ASSUME NEW seed, NEW proof, Len(proof) \in Nat, NEW index
    PROVE  \E node : InnerNodes(node, seed, proof, index)
<1> DEFINE Rec(m, f) ==
              f = [i \in 0..m |-> IF i = 0 THEN seed
                                  ELSE LeftOrRight(index, i, f[i - 1], proof[i])]
           T == {m \in Nat : \E f : Rec(m, f)}
<1>1. 0 \in T
  <2>1. Rec(0, [i \in 0..0 |-> seed])
    OBVIOUS
  <2> QED
    BY <2>1
<1>2. ASSUME NEW m \in Nat, m \in T PROVE m + 1 \in T
  <2>1. PICK f : Rec(m, f)
    BY <1>2
  <2> DEFINE g == [i \in 0..(m + 1) |-> IF i <= m THEN f[i]
                                        ELSE LeftOrRight(index, i, f[i - 1], proof[i])]
  <2>2. Rec(m + 1, g)
    BY <2>1
  <2> HIDE DEF Rec, g
  <2> QED
    BY <2>2
<1>3. PICK f : Rec(Len(proof), f)
  BY <1>1, <1>2, EveryNumber
<1> DEFINE node == CHOOSE node : Rec(Len(proof), node)
<1>4. Rec(Len(proof), node)
  <2>1. LET h == CHOOSE h : Rec(Len(proof), h) IN Rec(Len(proof), h)
    <3> HIDE DEF Rec
    <3> QED
      BY <1>3, Zenon
  <2> QED
    BY <2>1
<1>5. ChainInner(seed, proof, index) = node[Len(proof)]
  BY DEF ChainInner, LeftOrRight
<1> HIDE DEF node
<1>6. InnerNodes(node, seed, proof, index)
  BY <1>4, <1>5 DEF InnerNodes
<1> QED
  BY <1>6

\* The chain of the old tree passes over the siblings on the right.
LEMMA InnerRightChain ==
    ASSUME NEW seed, NEW proof, Len(proof) \in Nat, NEW index
    PROVE  \E node : InnerRightNodes(node, seed, proof, index)
<1> DEFINE Rec(m, f) ==
              f = [i \in 0..m |-> IF i = 0 THEN seed
                                  ELSE OnlyRight(index, i, f[i - 1], proof[i])]
           T == {m \in Nat : \E f : Rec(m, f)}
<1>1. 0 \in T
  <2>1. Rec(0, [i \in 0..0 |-> seed])
    OBVIOUS
  <2> QED
    BY <2>1
<1>2. ASSUME NEW m \in Nat, m \in T PROVE m + 1 \in T
  <2>1. PICK f : Rec(m, f)
    BY <1>2
  <2> DEFINE g == [i \in 0..(m + 1) |-> IF i <= m THEN f[i]
                                        ELSE OnlyRight(index, i, f[i - 1], proof[i])]
  <2>2. Rec(m + 1, g)
    BY <2>1
  <2> HIDE DEF Rec, g
  <2> QED
    BY <2>2
<1>3. PICK f : Rec(Len(proof), f)
  BY <1>1, <1>2, EveryNumber
<1> DEFINE node == CHOOSE node : Rec(Len(proof), node)
<1>4. Rec(Len(proof), node)
  <2>1. LET h == CHOOSE h : Rec(Len(proof), h) IN Rec(Len(proof), h)
    <3> HIDE DEF Rec
    <3> QED
      BY <1>3, Zenon
  <2> QED
    BY <2>1
<1>5. ChainInnerRight(seed, proof, index) = node[Len(proof)]
  BY DEF ChainInnerRight, OnlyRight
<1> HIDE DEF node
<1>6. InnerRightNodes(node, seed, proof, index)
  BY <1>4, <1>5 DEF InnerRightNodes
<1> QED
  BY <1>6

\* On the border every sibling is on the left.
LEMMA BorderChain ==
    ASSUME NEW seed, NEW proof, Len(proof) \in Nat
    PROVE  \E node : BorderNodes(node, seed, proof)
<1> DEFINE Rec(m, f) ==
              f = [i \in 0..m |-> IF i = 0 THEN seed
                                  ELSE MerkleInteriorHash(proof[i], f[i - 1])]
           T == {m \in Nat : \E f : Rec(m, f)}
<1>1. 0 \in T
  <2>1. Rec(0, [i \in 0..0 |-> seed])
    OBVIOUS
  <2> QED
    BY <2>1
<1>2. ASSUME NEW m \in Nat, m \in T PROVE m + 1 \in T
  <2>1. PICK f : Rec(m, f)
    BY <1>2
  <2> DEFINE g == [i \in 0..(m + 1) |-> IF i <= m THEN f[i]
                                        ELSE MerkleInteriorHash(proof[i], f[i - 1])]
  <2>2. Rec(m + 1, g)
    BY <2>1
  <2> HIDE DEF Rec, g
  <2> QED
    BY <2>2
<1>3. PICK f : Rec(Len(proof), f)
  BY <1>1, <1>2, EveryNumber
<1> DEFINE node == CHOOSE node : Rec(Len(proof), node)
<1>4. Rec(Len(proof), node)
  <2>1. LET h == CHOOSE h : Rec(Len(proof), h) IN Rec(Len(proof), h)
    <3> HIDE DEF Rec
    <3> QED
      BY <1>3, Zenon
  <2> QED
    BY <2>1
<1>5. ChainBorderRight(seed, proof) = node[Len(proof)]
  BY DEF ChainBorderRight
<1> HIDE DEF node
<1>6. BorderNodes(node, seed, proof)
  BY <1>4, <1>5 DEF BorderNodes
<1> QED
  BY <1>6

-----------------------------------------------------------------------------
(* The way from a node up to the root.                                        *)

\* Whether node m of a level has one beside it, and which.
HasSibling(m, last) == m % 2 = 1 \/ m < last
SiblingOf(m) == IF m % 2 = 1 THEN m - 1 ELSE m + 1

\* path[r], from level start on, is path[start] and the siblings up to level r.
Climbs(level, size, index, start, path) ==
    \A r \in Nat : r >= start =>
        path[r + 1] = IF HasSibling(Shifted(index, r), Shifted(size - 1, r))
                      THEN Append(path[r], level[r][SiblingOf(Shifted(index, r)) + 1])
                      ELSE path[r]

NodesOf(level) == {level[r][k] : r \in Nat, k \in Nat}

\* Below the inner size every node has a sibling, from there on those on the right of
\* their pair have.
LEMMA SiblingsOnTheWay ==
    ASSUME NEW size \in Nat, NEW index \in Nat, index < size, NEW r \in Nat
    PROVE  /\ Shifted(index, r) \in Nat /\ Shifted(size - 1, r) \in Nat
           /\ Shifted(index, r) <= Shifted(size - 1, r)
           /\ r < InnerProofSize(index, size) => Shifted(index, r) < Shifted(size - 1, r)
           /\ r >= InnerProofSize(index, size) => Shifted(index, r) = Shifted(size - 1, r)
<1>1. size - 1 \in Nat /\ index <= size - 1
  OBVIOUS
<1>2. Shifted(index, r) \in Nat /\ Shifted(size - 1, r) \in Nat
  BY <1>1, Shifting
<1>3. Shifted(index, r) <= Shifted(size - 1, r)
  BY <1>1, ShiftingInOrder
<1>4. /\ InnerProofSize(index, size) \in Nat
      /\ Shifted(index, r) = Shifted(size - 1, r) <=> r >= InnerProofSize(index, size)
  BY PathsMeet
<1> QED
  BY <1>2, <1>3, <1>4

\* A path grows, and keeps what it holds.
LEMMA PathsGrow ==
    ASSUME NEW level, NEW size \in Nat, NEW index \in Nat, index < size, NEW start \in Nat,
           NEW path, Climbs(level, size, index, start, path),
           path[start] \in Seq(NodesOf(level)), NEW r \in Nat, r >= start
    PROVE  path[r] \in Seq(NodesOf(level)) /\ Len(path[r]) >= Len(path[start])
<1> DEFINE Longer == {d \in Nat : /\ path[start + d] \in Seq(NodesOf(level))
                                  /\ Len(path[start + d]) >= Len(path[start])}
<1>1. 0 \in Longer
  OBVIOUS
<1>2. ASSUME NEW d \in Nat, d \in Longer PROVE d + 1 \in Longer
  <2> DEFINE i == start + d
  <2>1. i \in Nat /\ i >= start /\ start + (d + 1) = i + 1
    OBVIOUS
  <2>2. path[i] \in Seq(NodesOf(level)) /\ Len(path[i]) >= Len(path[start])
    BY <1>2
  <2> HIDE DEF i
  <2>3. path[i + 1] = IF HasSibling(Shifted(index, i), Shifted(size - 1, i))
                      THEN Append(path[i], level[i][SiblingOf(Shifted(index, i)) + 1])
                      ELSE path[i]
    BY <2>1 DEF Climbs
  <2>4. Shifted(index, i) \in Nat
    BY <2>1, Shifting
  <2>5. SiblingOf(Shifted(index, i)) + 1 \in Nat
    BY <2>4 DEF SiblingOf
  <2>6. level[i][SiblingOf(Shifted(index, i)) + 1] \in NodesOf(level)
    BY <2>1, <2>5 DEF NodesOf
  <2>7. path[i + 1] \in Seq(NodesOf(level)) /\ Len(path[i + 1]) >= Len(path[start])
    BY <2>2, <2>3, <2>6
  <2> QED
    BY <2>1, <2>7
<1>3. r - start \in Longer
  <2> HIDE DEF Longer
  <2> QED
    BY <1>1, <1>2, EveryNumber
<1> QED
  BY <1>3

LEMMA PathStep ==
    ASSUME NEW level, NEW size \in Nat, NEW index \in Nat, index < size, NEW start \in Nat,
           NEW path, Climbs(level, size, index, start, path),
           path[start] \in Seq(NodesOf(level)), NEW r \in Nat, r >= start
    PROVE  /\ Len(path[r]) \in Nat
           /\ HasSibling(Shifted(index, r), Shifted(size - 1, r)) =>
                 /\ Len(path[r + 1]) = Len(path[r]) + 1
                 /\ \A k \in 1..Len(path[r]) : path[r + 1][k] = path[r][k]
                 /\ path[r + 1][Len(path[r]) + 1] = level[r][SiblingOf(Shifted(index, r)) + 1]
           /\ ~HasSibling(Shifted(index, r), Shifted(size - 1, r)) => path[r + 1] = path[r]
<1>1. path[r] \in Seq(NodesOf(level))
  BY PathsGrow
<1>2. path[r + 1] = IF HasSibling(Shifted(index, r), Shifted(size - 1, r))
                    THEN Append(path[r], level[r][SiblingOf(Shifted(index, r)) + 1])
                    ELSE path[r]
  BY DEF Climbs
<1> QED
  BY <1>1, <1>2

\* One level up a path has one sibling more, or is as it was.
StepsUp(level, size, index, path, r) ==
    /\ Len(path[r]) \in Nat
    /\ HasSibling(Shifted(index, r), Shifted(size - 1, r)) =>
          /\ Len(path[r + 1]) = Len(path[r]) + 1
          /\ \A k \in 1..Len(path[r]) : path[r + 1][k] = path[r][k]
          /\ path[r + 1][Len(path[r]) + 1] = level[r][SiblingOf(Shifted(index, r)) + 1]
    /\ ~HasSibling(Shifted(index, r), Shifted(size - 1, r)) => path[r + 1] = path[r]

LEMMA PathStepsUp ==
    ASSUME NEW level, NEW size \in Nat, NEW index \in Nat, index < size, NEW start \in Nat,
           NEW path, Climbs(level, size, index, start, path),
           path[start] \in Seq(NodesOf(level)), NEW r \in Nat, r >= start
    PROVE  StepsUp(level, size, index, path, r)
  BY PathStep DEF StepsUp

\* The lengths decomp_inclusion_proof computes: a sibling a level up to the inner size,
\* and one for every bit that is left.
LEMMA PathLengths ==
    ASSUME NEW level, NEW size \in Nat, NEW index \in Nat, index < size,
           NEW start \in 0..InnerProofSize(index, size),
           NEW path, Climbs(level, size, index, start, path),
           path[start] \in Seq(NodesOf(level))
    PROVE  /\ \A r \in start..InnerProofSize(index, size) :
                 Len(path[r]) = Len(path[start]) + (r - start)
           /\ Len(path[size]) = Len(path[start]) + (InnerProofSize(index, size) - start)
                                + BorderProofSize(index, size)
           /\ \A r \in Nat : r >= InnerProofSize(index, size) =>
                 Len(path[r]) <= Len(path[InnerProofSize(index, size)]) + BorderProofSize(index, size)
           /\ BorderProofSize(index, size) \in Nat
<1> DEFINE inner == InnerProofSize(index, size)
           Inner == {d \in Nat : start + d <= inner => Len(path[start + d]) = Len(path[start]) + d}
           Border == {d \in Nat : Len(path[inner + d]) + CountOnes(Shifted(index, inner + d))
                                    = Len(path[inner]) + CountOnes(Shifted(index, inner))}
<1>0. /\ inner \in 0..size /\ start \in Nat /\ Len(path[start]) \in Nat /\ inner \in Nat
      /\ start <= inner
  BY PathsMeet
<1> HIDE DEF inner
<1>1. 0 \in Inner
  BY <1>0
<1>2. ASSUME NEW d \in Nat, d \in Inner PROVE d + 1 \in Inner
  <2> SUFFICES ASSUME start + (d + 1) <= inner
               PROVE  Len(path[start + (d + 1)]) = Len(path[start]) + (d + 1)
    <3>1. d + 1 \in Nat
      OBVIOUS
    <3> QED
      BY <3>1, Zenon
  <2> DEFINE i == start + d
  <2>1. i \in Nat /\ i >= start /\ start + (d + 1) = i + 1 /\ i < inner
    BY <1>0
  <2>2. Len(path[i]) = Len(path[start]) + d
    BY <1>0, <1>2, <2>1
  <2> HIDE DEF i
  <2>3. HasSibling(Shifted(index, i), Shifted(size - 1, i))
    BY <2>1, SiblingsOnTheWay DEF HasSibling, inner
  <2>4. Len(path[i + 1]) = Len(path[i]) + 1
    BY <1>0, <2>1, <2>3, PathStep
  <2>5. Len(path[i + 1]) = Len(path[start]) + (d + 1)
    <3>1. Len(path[i + 1]) = (Len(path[start]) + d) + 1
      BY <2>2, <2>4, Zenon
    <3>2. \A a \in Nat : (a + d) + 1 = a + (d + 1)
      OBVIOUS
    <3>3. (Len(path[start]) + d) + 1 = Len(path[start]) + (d + 1)
      BY <1>0, <3>2, Zenon
    <3> QED
      BY <3>1, <3>3, Zenon
  <2> QED
    BY <2>1, <2>5
<1>3. \A d \in Nat : d \in Inner
  <2> HIDE DEF Inner
  <2> QED
    BY <1>1, <1>2, EveryNumber
<1>4. ASSUME NEW r \in start..inner PROVE Len(path[r]) = Len(path[start]) + (r - start)
  <2>1. r - start \in Nat /\ start + (r - start) = r
    BY <1>0
  <2>2. r - start \in Inner
    <3> HIDE DEF Inner
    <3> QED
      BY <1>3, <2>1
  <2> QED
    BY <2>1, <2>2
<1>5. 0 \in Border
  BY <1>0
<1>6. ASSUME NEW d \in Nat, d \in Border PROVE d + 1 \in Border
  <2> DEFINE i == inner + d
  <2>1. i \in Nat /\ i >= start /\ i >= inner /\ inner + (d + 1) = i + 1
    BY <1>0
  <2>2. Len(path[i]) + CountOnes(Shifted(index, i))
           = Len(path[inner]) + CountOnes(Shifted(index, inner))
    BY <1>6
  <2> HIDE DEF i
  <2>3. Shifted(index, i) \in Nat /\ Shifted(index, i + 1) = Shifted(index, i) \div 2
    BY <2>1, Shifting
  <2>4. /\ CountOnes(Shifted(index, i)) \in Nat /\ CountOnes(Shifted(index, i + 1)) \in Nat
        /\ CountOnes(Shifted(index, i)) = (Shifted(index, i) % 2) + CountOnes(Shifted(index, i + 1))
    <3>1. \A m \in Nat : /\ CountOnes(m) \in Nat /\ CountOnes(m \div 2) \in Nat
                          /\ CountOnes(m) = (m % 2) + CountOnes(m \div 2)
      <4>1. \A m \in Nat : m \div 2 \in Nat
        OBVIOUS
      <4> QED
        BY <4>1, OnesOfHalf
    <3> QED
      BY <2>3, <3>1
  <2>5. HasSibling(Shifted(index, i), Shifted(size - 1, i)) <=> Shifted(index, i) % 2 = 1
    <3>1. Shifted(index, i) = Shifted(size - 1, i)
      BY <2>1, SiblingsOnTheWay DEF inner
    <3> QED
      BY <2>3, <3>1 DEF HasSibling
  <2>6. Shifted(index, i) % 2 \in {0, 1}
    BY <2>3
  <2>7. Len(path[i + 1]) = Len(path[i]) + (Shifted(index, i) % 2) /\ Len(path[i]) \in Nat
    BY <1>0, <2>1, <2>5, <2>6, PathStep
  <2>8. Len(path[i + 1]) + CountOnes(Shifted(index, i + 1))
           = Len(path[inner]) + CountOnes(Shifted(index, inner))
    BY <2>2, <2>4, <2>6, <2>7
  <2> QED
    BY <2>1, <2>8
<1>7. Len(path[size]) = Len(path[inner]) + CountOnes(Shifted(index, inner))
  <2>1. size - inner \in Nat /\ inner + (size - inner) = size
    BY <1>0
  <2>2. size - inner \in Border
    <3> HIDE DEF Border
    <3> QED
      BY <1>5, <1>6, <2>1, EveryNumber
  <2>3. Shifted(index, size) = 0
    <3>1. index < TwoTo(size)
      BY PowersOfTwo
    <3> QED
      BY <3>1, ShiftedOut
  <2>4. Len(path[size]) \in Nat
    BY <1>0, PathStep
  <2>5. Len(path[size]) + CountOnes(0) = Len(path[inner]) + CountOnes(Shifted(index, inner))
    BY <2>1, <2>2, <2>3
  <2>6. Len(path[size]) + CountOnes(0) = Len(path[size])
    <3>1. CountOnes(0) = 0
      BY OnesOfHalf, Zenon
    <3>2. \A a \in Nat : a + 0 = a
      OBVIOUS
    <3> QED
      BY <2>4, <3>1, <3>2, Zenon
  <2> QED
    BY <2>5, <2>6, Zenon
<1>8. Len(path[inner]) = Len(path[start]) + (inner - start)
  BY <1>0, <1>4
<1>9. BorderProofSize(index, size) = CountOnes(Shifted(index, inner))
  BY DEF BorderProofSize, inner
<1>10. BorderProofSize(index, size) \in Nat
  BY <1>0, <1>9, Shifting, OnesOfHalf
<1>11. ASSUME NEW r \in Nat, r >= inner
       PROVE  Len(path[r]) <= Len(path[inner]) + BorderProofSize(index, size)
  <2>1. r - inner \in Nat /\ inner + (r - inner) = r /\ r >= start
    BY <1>0, <1>11
  <2>2. r - inner \in Border
    <3> HIDE DEF Border
    <3> QED
      BY <1>5, <1>6, <2>1, EveryNumber
  <2>3. Len(path[r]) + CountOnes(Shifted(index, r)) = Len(path[inner]) + BorderProofSize(index, size)
    BY <1>9, <2>1, <2>2
  <2>4. CountOnes(Shifted(index, r)) \in Nat
    BY Shifting, OnesOfHalf
  <2>5. Len(path[r]) \in Nat
    BY <1>0, <2>1, PathStep
  <2>6. \A a, b, c \in Nat : a + b = c => a <= c
    OBVIOUS
  <2>7. Len(path[inner]) + BorderProofSize(index, size) \in Nat
    <3>1. Len(path[inner]) \in Nat
      BY <1>0, PathStep
    <3> QED
      BY <1>10, <3>1
  <2> QED
    BY <2>3, <2>4, <2>5, <2>6, <2>7, Zenon
<1> QED
  BY <1>0, <1>4, <1>7, <1>8, <1>9, <1>10, <1>11 DEF inner

\* The node above a node: of the two, or the node itself when it has no sibling.
LEMMA Parent ==
    ASSUME NEW leaves, Row(leaves), Len(leaves) >= 1, NEW level, LevelsOf(leaves, level),
           NEW index \in Nat, index < Len(leaves), NEW r \in Nat
    PROVE  LET m == Shifted(index, r)
               above == level[r + 1][Shifted(index, r + 1) + 1]
           IN  /\ ~HasSibling(m, Shifted(Len(leaves) - 1, r)) => above = level[r][m + 1]
               /\ HasSibling(m, Shifted(Len(leaves) - 1, r)) =>
                     above = IF m % 2 = 1 THEN <<level[r][SiblingOf(m) + 1], level[r][m + 1]>>
                             ELSE <<level[r][m + 1], level[r][SiblingOf(m) + 1]>>
<1> DEFINE m == Shifted(index, r)
           last == Shifted(Len(leaves) - 1, r)
           half == m \div 2
<1>1. Len(leaves) \in Nat
  BY DEF Row
<1>2. m \in Nat /\ last \in Nat /\ m <= last
  BY <1>1, SiblingsOnTheWay
<1>3. Shifted(index, r + 1) = half
  BY Shifting
<1>4. Row(level[r]) /\ Len(level[r]) = last + 1 /\ level[r + 1] = NextLevel(level[r])
  BY Widths DEF LevelsOf
<1> HIDE DEF m, last
<1>5. half \in Nat /\ ((m = 2 * half /\ m % 2 = 0) \/ (m = 2 * half + 1 /\ m % 2 = 1))
  BY <1>2
<1> HIDE DEF half
<1>6. half + 1 \in 1..((Len(level[r]) + 1) \div 2)
  <2>1. 2 * half <= last
    BY <1>2, <1>5
  <2> QED
    BY <1>2, <1>4, <1>5, <2>1
<1>7. level[r + 1][half + 1] =
          IF 2 * (half + 1) > Len(level[r]) THEN level[r][2 * (half + 1) - 1]
          ELSE <<level[r][2 * (half + 1) - 1], level[r][2 * (half + 1)]>>
  BY <1>4, <1>6, NextRow
<1>8. 2 * (half + 1) - 1 = 2 * half + 1 /\ 2 * (half + 1) = 2 * half + 2
  BY <1>5
<1>9. level[r + 1][half + 1] = IF 2 * half + 1 > last THEN level[r][2 * half + 1]
                               ELSE <<level[r][2 * half + 1], level[r][2 * half + 2]>>
  <2>1. 2 * half + 2 > last + 1 <=> 2 * half + 1 > last
    BY <1>2, <1>5
  <2> QED
    BY <1>4, <1>7, <1>8, <2>1
<1>10. ASSUME ~HasSibling(m, last) PROVE level[r + 1][half + 1] = level[r][m + 1]
  <2>1. m = 2 * half /\ 2 * half + 1 > last
    BY <1>2, <1>5, <1>10 DEF HasSibling
  <2> QED
    BY <1>9, <2>1
<1>11. ASSUME HasSibling(m, last), m % 2 = 1
       PROVE  level[r + 1][half + 1] = <<level[r][SiblingOf(m) + 1], level[r][m + 1]>>
  <2>1. m = 2 * half + 1
    BY <1>5, <1>11
  <2>2. SiblingOf(m) + 1 = 2 * half + 1 /\ m + 1 = 2 * half + 2 /\ ~(2 * half + 1 > last)
    BY <1>2, <1>5, <1>11, <2>1 DEF SiblingOf
  <2> QED
    BY <1>9, <2>2
<1>12. ASSUME HasSibling(m, last), ~(m % 2 = 1)
       PROVE  level[r + 1][half + 1] = <<level[r][m + 1], level[r][SiblingOf(m) + 1]>>
  <2>1. m = 2 * half
    BY <1>5, <1>12
  <2>2. SiblingOf(m) + 1 = 2 * half + 2 /\ m + 1 = 2 * half + 1 /\ ~(2 * half + 1 > last)
    BY <1>2, <1>5, <1>12, <2>1 DEF SiblingOf, HasSibling
  <2> QED
    BY <1>9, <2>2
<1> QED
  BY <1>3, <1>10, <1>11, <1>12 DEF m, last

\* node[r], from level start on, is what a proof makes of node[start] up to level r, when
\* it has its nodes where the path has the siblings.
Rebuilds(node, proof, size, index, start, path) ==
    \A r \in Nat : r >= start =>
        node[r + 1] =
            IF ~HasSibling(Shifted(index, r), Shifted(size - 1, r)) THEN node[r]
            ELSE IF Shifted(index, r) % 2 = 1
            THEN MerkleInteriorHash(proof[Len(path[r]) + 1], node[r])
            ELSE MerkleInteriorHash(node[r], proof[Len(path[r]) + 1])

\* A proof makes the node of the tree at the end of its way exactly when it starts from a
\* node of the tree and holds the siblings.
LEMMA OnlyTheSiblings ==
    ASSUME NEW leaves, Row(leaves), Len(leaves) >= 1, NEW level, LevelsOf(leaves, level),
           NEW index \in Nat, index < Len(leaves), NEW start \in Nat,
           NEW path, Climbs(level, Len(leaves), index, start, path),
           path[start] \in Seq(NodesOf(level)),
           NEW proof, NEW node, Rebuilds(node, proof, Len(leaves), index, start, path),
           NEW r \in Nat, r >= start
    PROVE  node[r] = level[r][Shifted(index, r) + 1]
              <=> /\ node[start] = level[start][Shifted(index, start) + 1]
                  /\ \A k \in (Len(path[start]) + 1)..Len(path[r]) : proof[k] = path[r][k]
<1> DEFINE size == Len(leaves)
           Right(i) == node[i] = level[i][Shifted(index, i) + 1]
           Held(i) == \A k \in (Len(path[start]) + 1)..Len(path[i]) : proof[k] = path[i][k]
           Same == {d \in Nat : Right(start + d) <=> Right(start) /\ Held(start + d)}
<1>0. size \in Nat
  BY DEF Row
<1>1. Held(start)
  <2>1. Len(path[start]) \in Nat
    OBVIOUS
  <2> QED
    BY <2>1
<1>2. 0 \in Same
  <2>1. start + 0 = start
    OBVIOUS
  <2> QED
    BY <1>1, <2>1
<1>3. ASSUME NEW i \in Nat, i >= start, Right(i) <=> Right(start) /\ Held(i)
      PROVE  Right(i + 1) <=> Right(start) /\ Held(i + 1)
  <2> DEFINE m == Shifted(index, i)
             has == HasSibling(m, Shifted(size - 1, i))
             given == proof[Len(path[i]) + 1]
             sibling == level[i][SiblingOf(m) + 1]
  <2>1. node[i + 1] = IF ~has THEN node[i]
                      ELSE IF m % 2 = 1 THEN <<given, node[i]>> ELSE <<node[i], given>>
    BY <1>3 DEF Rebuilds, MerkleInteriorHash
  <2>2. level[i + 1][Shifted(index, i + 1) + 1] =
           IF ~has THEN level[i][m + 1]
           ELSE IF m % 2 = 1 THEN <<sibling, level[i][m + 1]>> ELSE <<level[i][m + 1], sibling>>
    <3>1. /\ ~has => level[i + 1][Shifted(index, i + 1) + 1] = level[i][m + 1]
          /\ has => level[i + 1][Shifted(index, i + 1) + 1] =
                       IF m % 2 = 1 THEN <<sibling, level[i][m + 1]>>
                       ELSE <<level[i][m + 1], sibling>>
      BY <1>0, <1>3, Parent
    <3> HIDE DEF has, m, sibling
    <3> QED
      BY <3>1
  <2>3. /\ Len(path[i]) \in Nat /\ Len(path[start]) \in Nat /\ Len(path[i]) >= Len(path[start])
        /\ ~has => path[i + 1] = path[i]
        /\ has => /\ Len(path[i + 1]) = Len(path[i]) + 1
                  /\ \A k \in 1..Len(path[i]) : path[i + 1][k] = path[i][k]
                  /\ path[i + 1][Len(path[i]) + 1] = sibling
    <3>1. path[i] \in Seq(NodesOf(level)) /\ Len(path[i]) >= Len(path[start])
      <4> HIDE DEF size
      <4> QED
        BY <1>0, <1>3, PathsGrow DEF size
    <3>2. StepsUp(level, Len(leaves), index, path, i)
      BY <1>0, <1>3, PathStepsUp
    <3>3. /\ Len(path[i]) \in Nat
          /\ ~has => path[i + 1] = path[i]
          /\ has => /\ Len(path[i + 1]) = Len(path[i]) + 1
                    /\ \A k \in 1..Len(path[i]) : path[i + 1][k] = path[i][k]
                    /\ path[i + 1][Len(path[i]) + 1] = sibling
      BY ONLY <3>2 DEF StepsUp
    <3>4. Len(path[start]) \in Nat
      OBVIOUS
    <3> HIDE DEF has, sibling, m
    <3> QED
      BY <3>1, <3>3, <3>4, Zenon
  <2> HIDE DEF has, given, sibling
  <2>4. Right(i + 1) <=> Right(i) /\ (has => given = sibling)
    <3> HIDE DEF m
    <3>1. CASE ~has
      BY <2>1, <2>2, <3>1 DEF m
    <3>2. CASE has /\ m % 2 = 1
      BY <2>1, <2>2, <3>2 DEF m
    <3>3. CASE has /\ ~(m % 2 = 1)
      BY <2>1, <2>2, <3>3 DEF m
    <3> QED
      BY <3>1, <3>2, <3>3
  <2>5. Held(i + 1) <=> Held(i) /\ (has => given = sibling)
    <3>1. CASE ~has
      BY <2>3, <3>1
    <3>2. CASE has
      <4>1. ASSUME Held(i + 1) PROVE Held(i) /\ given = sibling
        <5>1. \A k \in (Len(path[start]) + 1)..Len(path[i]) :
                 k \in (Len(path[start]) + 1)..Len(path[i + 1]) /\ k \in 1..Len(path[i])
          BY <2>3, <3>2
        <5>2. Held(i)
          BY <2>3, <3>2, <4>1, <5>1
        <5>3. Len(path[i]) + 1 \in (Len(path[start]) + 1)..Len(path[i + 1])
          BY <2>3, <3>2
        <5>4. proof[Len(path[i]) + 1] = path[i + 1][Len(path[i]) + 1]
          BY <4>1, <5>3
        <5> QED
          BY <2>3, <3>2, <5>2, <5>4 DEF given
      <4>2. ASSUME Held(i), given = sibling,
                   NEW k \in (Len(path[start]) + 1)..Len(path[i + 1])
            PROVE  proof[k] = path[i + 1][k]
        <5>1. CASE k = Len(path[i]) + 1
          <6>1. path[i + 1][Len(path[i]) + 1] = sibling
            BY ONLY <2>3, <3>2
          <6> QED
            BY ONLY <4>2, <5>1, <6>1 DEF given
        <5>2. CASE k # Len(path[i]) + 1
          <6>1. k \in (Len(path[start]) + 1)..Len(path[i]) /\ k \in 1..Len(path[i])
            <7>1. Len(path[i + 1]) = Len(path[i]) + 1
              BY ONLY <2>3, <3>2
            <7>2. \A a, b \in Nat : k \in (a + 1)..(b + 1) /\ k # b + 1 =>
                      k \in (a + 1)..b /\ k \in 1..b
              OBVIOUS
            <7> QED
              BY <2>3, <5>2, <7>1, <7>2, Zenon
          <6> QED
            BY <2>3, <3>2, <4>2, <6>1
        <5> QED
          BY <5>1, <5>2
      <4> QED
        BY <3>2, <4>1, <4>2
    <3> QED
      BY <3>1, <3>2
  <2> HIDE DEF Right, Held
  <2> QED
    BY <1>3, <2>4, <2>5
<1> HIDE DEF Right, Held
<1>4. ASSUME NEW d \in Nat, d \in Same PROVE d + 1 \in Same
  <2>1. start + d \in Nat /\ start + d >= start /\ (start + d) + 1 = start + (d + 1)
    OBVIOUS
  <2>2. Right(start + d) <=> Right(start) /\ Held(start + d)
    BY <1>4
  <2>3. Right((start + d) + 1) <=> Right(start) /\ Held((start + d) + 1)
    BY <1>3, <2>1, <2>2
  <2> QED
    BY <2>1, <2>3
<1>5. r - start \in Nat /\ start + (r - start) = r
  OBVIOUS
<1>6. r - start \in Same
  <2> HIDE DEF Same
  <2> QED
    BY <1>2, <1>4, <1>5, EveryNumber
<1>7. Right(r) <=> Right(start) /\ Held(r)
  BY <1>5, <1>6
<1> QED
  BY <1>7 DEF Right, Held

LEMMA ShiftedTwice ==
    ASSUME NEW n \in Nat, NEW s \in Nat, NEW i \in Nat
    PROVE  Shifted(Shifted(n, s), i) = Shifted(n, s + i)
<1> DEFINE Sum == {d \in Nat : Shifted(Shifted(n, s), d) = Shifted(n, s + d)}
<1>1. Shifted(n, s) \in Nat
  BY Shifting
<1>2. 0 \in Sum
  BY <1>1, NotShifted
<1>3. ASSUME NEW d \in Nat, d \in Sum PROVE d + 1 \in Sum
  <2>1. s + d \in Nat /\ (s + d) + 1 = s + (d + 1)
    OBVIOUS
  <2>2. Shifted(n, (s + d) + 1) = Shifted(n, s + d) \div 2
    BY <2>1, Shifting
  <2>3. Shifted(Shifted(n, s), d + 1) = Shifted(Shifted(n, s), d) \div 2
    BY <1>1, Shifting
  <2> QED
    BY <1>3, <2>1, <2>2, <2>3
<1>4. i \in Sum
  <2> HIDE DEF Sum
  <2> QED
    BY <1>2, <1>3, EveryNumber
<1> QED
  BY <1>4

\* rest is a proof without what the path starts with.
RestOf(rest, proof, path, start) ==
    /\ Len(rest) = Len(proof) - Len(path[start])
    /\ \A k \in 1..Len(rest) : rest[k] = proof[Len(path[start]) + k]

\* Where the chains find the sibling of a level: the inner ones in the first part of the
\* proof, bit by bit of the index, and those of the border in the second.
Located(side, border, proof, path, size, index, start, inner) ==
    /\ Len(side) = inner - start /\ Len(border) \in Nat
    /\ Len(path[size]) - Len(path[inner]) = Len(border)
    /\ \A r \in start..(inner - 1) :
          /\ side[r - start + 1] = proof[Len(path[r]) + 1]
          /\ Bit(Shifted(index, start), r - start) = Shifted(index, r) % 2
    /\ \A r \in Nat : r >= inner /\ Shifted(index, r) % 2 = 1 =>
          /\ Len(path[r]) - Len(path[inner]) + 1 \in 1..Len(border)
          /\ border[Len(path[r]) - Len(path[inner]) + 1] = proof[Len(path[r]) + 1]
          /\ Len(path[r + 1]) = Len(path[r]) + 1
    /\ \A r \in Nat : r >= inner /\ Shifted(index, r) % 2 # 1 => path[r + 1] = path[r]

LEMMA SiblingsInTheProof ==
    ASSUME NEW level, NEW size \in Nat, NEW index \in Nat, index < size,
           NEW start \in 0..InnerProofSize(index, size),
           NEW path, Climbs(level, size, index, start, path),
           path[start] \in Seq(NodesOf(level)),
           NEW S, NEW proof \in Seq(S), Len(proof) = Len(path[size]),
           NEW rest \in Seq(S), RestOf(rest, proof, path, start)
    PROVE  LET inner == InnerProofSize(index, size)
               side == SubSeq(rest, 1, inner - start)
               border == SubSeq(rest, inner - start + 1, Len(rest))
           IN  /\ Len(rest) = (inner - start) + BorderProofSize(index, size)
               /\ Located(side, border, proof, path, size, index, start, inner)
<1> DEFINE inner == InnerProofSize(index, size)
           ones == BorderProofSize(index, size)
           side == SubSeq(rest, 1, inner - start)
           border == SubSeq(rest, inner - start + 1, Len(rest))
           at(r) == Len(path[r])
           first == at(start)
<1>1. /\ inner \in 0..size /\ start \in Nat /\ inner \in Nat /\ start <= inner
      /\ first \in Nat /\ inner - start \in Nat
  BY PathsMeet
<1>2. /\ \A r \in start..inner : at(r) = first + (r - start)
      /\ at(size) = first + (inner - start) + ones
      /\ \A r \in Nat : r >= inner => at(r) <= at(inner) + ones
      /\ ones \in Nat
  BY PathLengths
<1>3. /\ \A r \in Nat : r >= inner =>
            (HasSibling(Shifted(index, r), Shifted(size - 1, r)) <=> Shifted(index, r) % 2 = 1)
  <2>1. ASSUME NEW r \in Nat, r >= inner
        PROVE  HasSibling(Shifted(index, r), Shifted(size - 1, r)) <=> Shifted(index, r) % 2 = 1
    <3>1. Shifted(index, r) = Shifted(size - 1, r) /\ Shifted(index, r) \in Nat
      BY <2>1, SiblingsOnTheWay
    <3> QED
      BY <3>1 DEF HasSibling
  <2> QED
    BY <2>1
<1>3a. ASSUME NEW r \in Nat, r >= start
       PROVE  /\ at(r) \in Nat
              /\ HasSibling(Shifted(index, r), Shifted(size - 1, r)) => at(r + 1) = at(r) + 1
              /\ ~HasSibling(Shifted(index, r), Shifted(size - 1, r)) => path[r + 1] = path[r]
  <2>1. StepsUp(level, size, index, path, r)
    BY <1>1, <1>3a, PathStepsUp
  <2> QED
    BY ONLY <2>1 DEF StepsUp
<1>3b. /\ Len(rest) = at(size) - first
       /\ \A k \in 1..Len(rest) : rest[k] = proof[first + k]
  BY DEF RestOf
<1>3c. ASSUME NEW r \in Nat, r >= inner PROVE at(r) >= at(inner)
  <2>1. Climbs(level, size, index, inner, path)
    BY <1>1 DEF Climbs
  <2>2. path[inner] \in Seq(NodesOf(level))
    BY <1>1, PathsGrow
  <2> QED
    BY <1>1, <1>3c, <2>1, <2>2, PathsGrow
<1> HIDE DEF inner, ones, first, at
<1>4. Len(rest) = (inner - start) + ones
  BY <1>1, <1>2, <1>3b
<1>5. at(inner) = first + (inner - start)
  BY <1>1, <1>2
<1>6. /\ Len(side) = inner - start /\ \A k \in 1..(inner - start) : side[k] = rest[k]
      /\ Len(border) = ones /\ \A k \in 1..ones : border[k] = rest[(inner - start) + k]
  BY <1>1, <1>2, <1>4
<1> HIDE DEF side, border
<1>8. ASSUME NEW r \in start..(inner - 1)
      PROVE  /\ side[r - start + 1] = proof[at(r) + 1]
             /\ Bit(Shifted(index, start), r - start) = Shifted(index, r) % 2
  <2>1. r - start + 1 \in 1..(inner - start) /\ r - start \in Nat /\ r \in start..inner
        /\ start + (r - start) = r /\ r - start + 1 \in 1..Len(rest)
    BY <1>1, <1>2, <1>4
  <2>2. first + (r - start + 1) = at(r) + 1
    <3>1. at(r) = first + (r - start)
      BY <1>2, <2>1
    <3> QED
      BY <1>1, <2>1, <3>1
  <2>3. side[r - start + 1] = proof[at(r) + 1]
    BY <1>3b, <1>6, <2>1, <2>2
  <2>4. Shifted(Shifted(index, start), r - start) = Shifted(index, r)
    BY <1>1, <2>1, ShiftedTwice
  <2> QED
    BY <2>3, <2>4 DEF Bit
<1>9. ASSUME NEW r \in Nat, r >= inner, Shifted(index, r) % 2 = 1
      PROVE  /\ at(r) - at(inner) + 1 \in 1..Len(border)
             /\ border[at(r) - at(inner) + 1] = proof[at(r) + 1]
             /\ at(r + 1) = at(r) + 1
  <2>1. at(r) \in Nat /\ at(r + 1) = at(r) + 1 /\ at(inner) \in Nat /\ at(r) >= at(inner)
    <3>1. r >= start /\ inner >= start
      BY <1>1, <1>9
    <3> QED
      BY <1>1, <1>3, <1>3a, <1>3c, <1>9, <3>1
  <2>2. at(r) + 1 <= at(inner) + ones
    <3>1. r + 1 \in Nat /\ r + 1 >= inner
      BY <1>1, <1>9
    <3> QED
      BY <1>2, <2>1, <3>1
  <2> DEFINE k == at(r) - at(inner) + 1
  <2>3. k \in 1..ones /\ (inner - start) + k \in 1..Len(rest)
        /\ first + ((inner - start) + k) = at(r) + 1
    <3>1. ones \in Nat
      BY <1>2
    <3>2. k \in 1..ones
      BY <2>1, <2>2, <3>1
    <3>3. first + ((inner - start) + k) = at(inner) + k
      <4> HIDE DEF k
      <4> QED
        BY <1>1, <1>5, <3>1, <3>2
    <3>4. at(inner) + k = at(r) + 1
      BY <2>1
    <3>5. (inner - start) + k \in 1..Len(rest)
      <4> HIDE DEF k
      <4> QED
        BY <1>1, <1>4, <3>1, <3>2
    <3> QED
      BY <3>2, <3>3, <3>4, <3>5
  <2> HIDE DEF k
  <2>4. border[k] = proof[at(r) + 1]
    BY <1>3b, <1>6, <2>3
  <2> QED
    BY <1>6, <2>1, <2>3, <2>4 DEF k
<1>10. ASSUME NEW r \in Nat, r >= inner, Shifted(index, r) % 2 # 1 PROVE path[r + 1] = path[r]
  <2>1. r >= start
    BY <1>1, <1>10
  <2> QED
    BY <1>3, <1>3a, <1>10, <2>1
<1>11. at(size) - at(inner) = Len(border) /\ Len(border) \in Nat
  BY <1>1, <1>2, <1>5, <1>6
<1> QED
  <2>1. Located(side, border, proof, path, size, index, start, inner)
    <3>1. Len(side) = inner - start
      BY <1>6
    <3> QED
      BY <1>8, <1>9, <1>10, <1>11, <3>1 DEF Located, at
  <2> QED
    BY <1>4, <2>1 DEF inner, ones, side, border

\* The inner chain and the border make one chain of nodes, one for each level.
Joined(node, low, high, side, border, proof, path, size, index, start, inner) ==
    /\ node[start] = low[0] /\ node[size] = high[Len(border)]
    /\ \A r \in start..(inner - 1) :
          /\ r - start + 1 \in 1..Len(side)
          /\ node[r] = low[(r - start + 1) - 1] /\ node[r + 1] = low[r - start + 1]
    /\ \A r \in Nat : r >= inner =>
          node[r + 1] = IF Shifted(index, r) % 2 = 1
                        THEN MerkleInteriorHash(proof[Len(path[r]) + 1], node[r])
                        ELSE node[r]

LEMMA OneChain ==
    ASSUME NEW level, NEW size \in Nat, NEW index \in Nat, index < size,
           NEW start \in 0..InnerProofSize(index, size),
           NEW path, Climbs(level, size, index, start, path),
           path[start] \in Seq(NodesOf(level)),
           NEW inner, inner = InnerProofSize(index, size),
           NEW proof, NEW side, NEW border,
           Located(side, border, proof, path, size, index, start, inner),
           NEW low, NEW high, BorderNodes(high, low[Len(side)], border)
    PROVE  \E node : Joined(node, low, high, side, border, proof, path, size, index, start, inner)
<1> DEFINE at(r) == Len(path[r])
           node == [r \in Nat |-> IF r <= inner THEN low[r - start] ELSE high[at(r) - at(inner)]]
<1>1. inner \in 0..size /\ start \in Nat /\ inner \in Nat /\ start <= inner /\ inner - start \in Nat
  BY PathsMeet
<1>2. /\ Len(side) = inner - start /\ Len(border) \in Nat
      /\ at(size) - at(inner) = Len(border)
  BY DEF Located
<1>3. /\ \A r \in Nat : r >= inner /\ Shifted(index, r) % 2 = 1 =>
            /\ at(r) - at(inner) + 1 \in 1..Len(border)
            /\ border[at(r) - at(inner) + 1] = proof[at(r) + 1]
            /\ at(r + 1) = at(r) + 1
      /\ \A r \in Nat : r >= inner /\ Shifted(index, r) % 2 # 1 => at(r + 1) = at(r)
  BY DEF Located
<1>3a. /\ high[0] = low[Len(side)]
       /\ \A i \in 1..Len(border) : high[i] = MerkleInteriorHash(border[i], high[i - 1])
  BY DEF BorderNodes
<1>4. \A r \in Nat : r >= inner => at(r) \in Nat
  BY <1>1, PathStep
<1> HIDE DEF at
<1>5. /\ at(inner) - at(inner) = 0
      /\ \A r \in Nat : r >= inner => (at(r) + 1) - at(inner) = at(r) - at(inner) + 1
  BY <1>1, <1>4
<1>6. /\ \A r \in start..inner : node[r] = low[r - start]
      /\ \A r \in Nat : r >= inner => node[r] = high[at(r) - at(inner)]
  <2>1. ASSUME NEW r \in start..inner PROVE node[r] = low[r - start]
    BY <1>1
  <2>2. high[at(inner) - at(inner)] = low[inner - start]
    BY <1>2, <1>3a, <1>5
  <2>3. ASSUME NEW r \in Nat, r >= inner PROVE node[r] = high[at(r) - at(inner)]
    <3>1. CASE r = inner
      BY <1>1, <2>2, <3>1
    <3>2. CASE r # inner
      BY <1>1, <2>3, <3>2
    <3> QED
      BY <3>1, <3>2
  <2> QED
    BY <2>1, <2>3
<1> HIDE DEF node
<1>7. node[start] = low[0]
  <2>1. start \in start..inner /\ start - start = 0
    BY <1>1
  <2> QED
    BY <1>6, <2>1
<1>8. node[size] = high[Len(border)]
  <2>1. size >= inner
    BY <1>1
  <2> QED
    BY <1>2, <1>6, <2>1
<1>9. ASSUME NEW r \in start..(inner - 1)
      PROVE  /\ r - start + 1 \in 1..Len(side)
             /\ node[r] = low[(r - start + 1) - 1] /\ node[r + 1] = low[r - start + 1]
  <2>1. /\ r - start + 1 \in 1..(inner - start) /\ r \in start..inner /\ r + 1 \in start..inner
        /\ (r + 1) - start = r - start + 1 /\ (r - start + 1) - 1 = r - start
    BY <1>1
  <2>2. node[r] = low[r - start] /\ node[r + 1] = low[(r + 1) - start]
    BY <1>6, <2>1
  <2> QED
    BY <1>2, <2>1, <2>2
<1>10. ASSUME NEW r \in Nat, r >= inner
       PROVE  node[r + 1] = IF Shifted(index, r) % 2 = 1
                            THEN MerkleInteriorHash(proof[at(r) + 1], node[r])
                            ELSE node[r]
  <2>1. node[r] = high[at(r) - at(inner)] /\ node[r + 1] = high[at(r + 1) - at(inner)]
    <3>1. r + 1 \in Nat /\ r + 1 >= inner
      BY <1>1, <1>10
    <3> QED
      BY <1>6, <1>10, <3>1
  <2>2. CASE Shifted(index, r) % 2 = 1
    <3>1. /\ at(r) - at(inner) + 1 \in 1..Len(border)
          /\ border[at(r) - at(inner) + 1] = proof[at(r) + 1]
          /\ at(r + 1) = at(r) + 1
      BY <1>3, <1>10, <2>2
    <3>2. at(r + 1) - at(inner) = at(r) - at(inner) + 1
      BY <1>5, <1>10, <3>1
    <3>3. (at(r) - at(inner) + 1) - 1 = at(r) - at(inner)
      BY <1>1, <1>4, <1>10
    <3>4. high[at(r) - at(inner) + 1]
             = MerkleInteriorHash(proof[at(r) + 1], high[at(r) - at(inner)])
      BY <1>3a, <3>1, <3>3
    <3> QED
      BY <2>1, <2>2, <3>2, <3>4
  <2>3. CASE Shifted(index, r) % 2 # 1
    <3>1. at(r + 1) = at(r)
      BY <1>3, <1>10, <2>3
    <3> QED
      BY <2>1, <2>3, <3>1
  <2> QED
    BY <2>2, <2>3
<1> QED
  BY <1>7, <1>8, <1>9, <1>10 DEF at, Joined

\* The chain of the new tree rebuilds a node of every level up to its root.
NewNodes(node, seed, rest, proof, size, index, start, path) ==
    LET inner == InnerProofSize(index, size)
        side == SubSeq(rest, 1, inner - start)
        border == SubSeq(rest, inner - start + 1, Len(rest))
    IN  /\ node[start] = seed /\ Rebuilds(node, proof, size, index, start, path)
        /\ node[size] = ChainBorderRight(ChainInner(seed, side, Shifted(index, start)), border)

LEMMA NewChain ==
    ASSUME NEW level, NEW size \in Nat, NEW index \in Nat, index < size,
           NEW start \in 0..InnerProofSize(index, size),
           NEW path, Climbs(level, size, index, start, path),
           path[start] \in Seq(NodesOf(level)),
           NEW S, NEW proof \in Seq(S), Len(proof) = Len(path[size]),
           NEW rest \in Seq(S), RestOf(rest, proof, path, start), NEW seed
    PROVE  \E node : NewNodes(node, seed, rest, proof, size, index, start, path)
<1> DEFINE inner == InnerProofSize(index, size)
           side == SubSeq(rest, 1, inner - start)
           border == SubSeq(rest, inner - start + 1, Len(rest))
           m(r) == Shifted(index, r)
<1>1. inner \in 0..size /\ start \in Nat /\ inner \in Nat /\ start <= inner /\ inner - start \in Nat
  BY PathsMeet
<1>2. Located(side, border, proof, path, size, index, start, inner)
  BY SiblingsInTheProof
<1>3. \A r \in Nat : /\ m(r) \in Nat
                     /\ r < inner => HasSibling(m(r), Shifted(size - 1, r))
                     /\ r >= inner => (HasSibling(m(r), Shifted(size - 1, r)) <=> m(r) % 2 = 1)
  <2>1. ASSUME NEW r \in Nat, r >= inner
        PROVE  HasSibling(m(r), Shifted(size - 1, r)) <=> m(r) % 2 = 1
    <3>1. m(r) = Shifted(size - 1, r) /\ m(r) \in Nat
      BY <2>1, SiblingsOnTheWay
    <3> QED
      BY <3>1 DEF HasSibling
  <2>2. ASSUME NEW r \in Nat, r < inner
        PROVE  HasSibling(m(r), Shifted(size - 1, r))
    BY <2>2, SiblingsOnTheWay DEF HasSibling
  <2>3. \A r \in Nat : m(r) \in Nat
    BY SiblingsOnTheWay
  <2> QED
    BY <2>1, <2>2, <2>3
<1>4. /\ Len(side) = inner - start /\ Len(side) \in Nat /\ Len(border) \in Nat
      /\ \A r \in start..(inner - 1) :
            /\ side[r - start + 1] = proof[Len(path[r]) + 1]
            /\ Bit(m(start), r - start) = m(r) % 2
  <2> HIDE DEF inner, side, border
  <2> QED
    BY <1>1, <1>2 DEF Located
<1> HIDE DEF side, border
<1>5. PICK low : InnerNodes(low, seed, side, m(start))
  <2> HIDE DEF m, inner
  <2> QED
    BY <1>4, InnerChain
<1>6. PICK high : BorderNodes(high, low[Len(side)], border)
  <2> HIDE DEF inner, m
  <2> QED
    BY <1>4, BorderChain
<1>7. PICK node : Joined(node, low, high, side, border, proof, path, size, index, start, inner)
  BY <1>2, <1>6, OneChain
<1>7a. /\ low[0] = seed
       /\ \A i \in 1..Len(side) : low[i] = LeftOrRight(m(start), i, low[i - 1], side[i])
       /\ ChainInner(seed, side, m(start)) = low[Len(side)]
       /\ ChainBorderRight(low[Len(side)], border) = high[Len(border)]
  BY <1>5, <1>6 DEF InnerNodes, BorderNodes
<1>7b. /\ node[start] = low[0] /\ node[size] = high[Len(border)]
       /\ \A r \in start..(inner - 1) :
             /\ r - start + 1 \in 1..Len(side)
             /\ node[r] = low[(r - start + 1) - 1] /\ node[r + 1] = low[r - start + 1]
       /\ \A r \in Nat : r >= inner =>
             node[r + 1] = IF m(r) % 2 = 1
                           THEN MerkleInteriorHash(proof[Len(path[r]) + 1], node[r])
                           ELSE node[r]
  BY <1>7 DEF Joined
<1> HIDE DEF inner, m
<1>8. ASSUME NEW r \in start..(inner - 1)
      PROVE  node[r + 1] = IF m(r) % 2 = 1 THEN MerkleInteriorHash(proof[Len(path[r]) + 1], node[r])
                           ELSE MerkleInteriorHash(node[r], proof[Len(path[r]) + 1])
  <2>1. /\ r \in Nat /\ r - start \in Nat /\ (r - start + 1) - 1 = r - start
        /\ r - start + 1 \in 1..Len(side)
    <3>1. r \in Nat /\ r - start \in Nat /\ (r - start + 1) - 1 = r - start
      BY <1>1
    <3> QED
      BY <1>7b, <3>1
  <2>2. low[r - start + 1]
           = LeftOrRight(m(start), r - start + 1, low[(r - start + 1) - 1], side[r - start + 1])
    BY <1>7a, <2>1
  <2>3. m(r) % 2 \in {0, 1}
    <3>1. m(r) \in Nat
      BY <1>3, <2>1
    <3> QED
      BY <3>1
  <2>4. node[r] = low[(r - start + 1) - 1] /\ node[r + 1] = low[r - start + 1]
    BY <1>7b
  <2>5. side[r - start + 1] = proof[Len(path[r]) + 1] /\ Bit(m(start), (r - start + 1) - 1) = m(r) % 2
    BY <1>4, <2>1
  <2> QED
    BY <2>2, <2>3, <2>4, <2>5 DEF LeftOrRight
<1>9. Rebuilds(node, proof, size, index, start, path)
  <2>1. ASSUME NEW r \in Nat, r >= start
        PROVE  node[r + 1] =
                  IF ~HasSibling(m(r), Shifted(size - 1, r)) THEN node[r]
                  ELSE IF m(r) % 2 = 1 THEN MerkleInteriorHash(proof[Len(path[r]) + 1], node[r])
                  ELSE MerkleInteriorHash(node[r], proof[Len(path[r]) + 1])
    <3>1. CASE r < inner
      <4>1. r \in start..(inner - 1)
        BY <1>1, <2>1, <3>1
      <4> QED
        BY <1>3, <1>8, <3>1, <4>1
    <3>2. CASE r >= inner
      BY <1>3, <1>7b, <3>2
    <3> QED
      BY <1>1, <3>1, <3>2
  <2> QED
    BY <2>1 DEF Rebuilds, m
<1>10. NewNodes(node, seed, rest, proof, size, index, start, path)
  BY <1>7a, <1>7b, <1>9 DEF NewNodes, inner, side, border, m
<1> QED
  BY <1>10

\* node[r], from level start on, is what a proof makes of node[start] in the old tree, of
\* which the index is the last: only siblings on the left are part of it.
RebuildsOld(node, proof, index, start, path) ==
    \A r \in Nat : r >= start =>
        node[r + 1] = IF Shifted(index, r) % 2 = 1
                      THEN MerkleInteriorHash(proof[Len(path[r]) + 1], node[r])
                      ELSE node[r]

\* The chain of the old tree does the same up to the root of that tree.
OldNodes(node, seed, rest, proof, size, index, start, path) ==
    LET inner == InnerProofSize(index, size)
        side == SubSeq(rest, 1, inner - start)
        border == SubSeq(rest, inner - start + 1, Len(rest))
    IN  /\ node[start] = seed /\ RebuildsOld(node, proof, index, start, path)
        /\ node[size] = ChainBorderRight(ChainInnerRight(seed, side, Shifted(index, start)), border)

LEMMA OldChain ==
    ASSUME NEW level, NEW size \in Nat, NEW index \in Nat, index < size,
           NEW start \in 0..InnerProofSize(index, size),
           NEW path, Climbs(level, size, index, start, path),
           path[start] \in Seq(NodesOf(level)),
           NEW S, NEW proof \in Seq(S), Len(proof) = Len(path[size]),
           NEW rest \in Seq(S), RestOf(rest, proof, path, start), NEW seed
    PROVE  \E node : OldNodes(node, seed, rest, proof, size, index, start, path)
<1> DEFINE inner == InnerProofSize(index, size)
           side == SubSeq(rest, 1, inner - start)
           border == SubSeq(rest, inner - start + 1, Len(rest))
           m(r) == Shifted(index, r)
<1>1. inner \in 0..size /\ start \in Nat /\ inner \in Nat /\ start <= inner /\ inner - start \in Nat
  BY PathsMeet
<1>2. Located(side, border, proof, path, size, index, start, inner)
  BY SiblingsInTheProof
<1>3. \A r \in Nat : /\ m(r) \in Nat
                     /\ r < inner => HasSibling(m(r), Shifted(size - 1, r))
                     /\ r >= inner => (HasSibling(m(r), Shifted(size - 1, r)) <=> m(r) % 2 = 1)
  <2>1. ASSUME NEW r \in Nat, r >= inner
        PROVE  HasSibling(m(r), Shifted(size - 1, r)) <=> m(r) % 2 = 1
    <3>1. m(r) = Shifted(size - 1, r) /\ m(r) \in Nat
      BY <2>1, SiblingsOnTheWay
    <3> QED
      BY <3>1 DEF HasSibling
  <2>2. ASSUME NEW r \in Nat, r < inner
        PROVE  HasSibling(m(r), Shifted(size - 1, r))
    BY <2>2, SiblingsOnTheWay DEF HasSibling
  <2>3. \A r \in Nat : m(r) \in Nat
    BY SiblingsOnTheWay
  <2> QED
    BY <2>1, <2>2, <2>3
<1>4. /\ Len(side) = inner - start /\ Len(side) \in Nat /\ Len(border) \in Nat
      /\ \A r \in start..(inner - 1) :
            /\ side[r - start + 1] = proof[Len(path[r]) + 1]
            /\ Bit(m(start), r - start) = m(r) % 2
  <2> HIDE DEF inner, side, border
  <2> QED
    BY <1>1, <1>2 DEF Located
<1> HIDE DEF side, border
<1>5. PICK low : InnerRightNodes(low, seed, side, m(start))
  <2> HIDE DEF m, inner
  <2> QED
    BY <1>4, InnerRightChain
<1>6. PICK high : BorderNodes(high, low[Len(side)], border)
  <2> HIDE DEF inner, m
  <2> QED
    BY <1>4, BorderChain
<1>7. PICK node : Joined(node, low, high, side, border, proof, path, size, index, start, inner)
  BY <1>2, <1>6, OneChain
<1>7a. /\ low[0] = seed
       /\ \A i \in 1..Len(side) : low[i] = OnlyRight(m(start), i, low[i - 1], side[i])
       /\ ChainInnerRight(seed, side, m(start)) = low[Len(side)]
       /\ ChainBorderRight(low[Len(side)], border) = high[Len(border)]
  BY <1>5, <1>6 DEF InnerRightNodes, BorderNodes
<1>7b. /\ node[start] = low[0] /\ node[size] = high[Len(border)]
       /\ \A r \in start..(inner - 1) :
             /\ r - start + 1 \in 1..Len(side)
             /\ node[r] = low[(r - start + 1) - 1] /\ node[r + 1] = low[r - start + 1]
       /\ \A r \in Nat : r >= inner =>
             node[r + 1] = IF m(r) % 2 = 1
                           THEN MerkleInteriorHash(proof[Len(path[r]) + 1], node[r])
                           ELSE node[r]
  BY <1>7 DEF Joined
<1> HIDE DEF inner, m
<1>8. ASSUME NEW r \in start..(inner - 1)
      PROVE  node[r + 1] = IF m(r) % 2 = 1 THEN MerkleInteriorHash(proof[Len(path[r]) + 1], node[r])
                           ELSE node[r]
  <2>1. /\ r \in Nat /\ r - start \in Nat /\ (r - start + 1) - 1 = r - start
        /\ r - start + 1 \in 1..Len(side)
    <3>1. r \in Nat /\ r - start \in Nat /\ (r - start + 1) - 1 = r - start
      BY <1>1
    <3> QED
      BY <1>7b, <3>1
  <2>2. low[r - start + 1]
           = OnlyRight(m(start), r - start + 1, low[(r - start + 1) - 1], side[r - start + 1])
    BY <1>7a, <2>1
  <2>3. m(r) % 2 \in {0, 1}
    <3>1. m(r) \in Nat
      BY <1>3, <2>1
    <3> QED
      BY <3>1
  <2>4. node[r] = low[(r - start + 1) - 1] /\ node[r + 1] = low[r - start + 1]
    BY <1>7b
  <2>5. side[r - start + 1] = proof[Len(path[r]) + 1] /\ Bit(m(start), (r - start + 1) - 1) = m(r) % 2
    BY <1>4, <2>1
  <2> QED
    BY <2>2, <2>3, <2>4, <2>5 DEF OnlyRight
<1>9. RebuildsOld(node, proof, index, start, path)
  <2>1. ASSUME NEW r \in Nat, r >= start
        PROVE  node[r + 1] = IF m(r) % 2 = 1
                             THEN MerkleInteriorHash(proof[Len(path[r]) + 1], node[r])
                             ELSE node[r]
    <3>1. CASE r < inner
      <4>1. r \in start..(inner - 1)
        BY <1>1, <2>1, <3>1
      <4> QED
        BY <1>8, <4>1
    <3>2. CASE r >= inner
      BY <1>7b, <3>2
    <3> QED
      BY <1>1, <3>1, <3>2
  <2> QED
    BY <2>1 DEF RebuildsOld, m
<1>10. OldNodes(node, seed, rest, proof, size, index, start, path)
  BY <1>7a, <1>7b, <1>9 DEF OldNodes, inner, side, border, m
<1> QED
  BY <1>10

-----------------------------------------------------------------------------
(* The paths of RFC 6962, along the same way.                                 *)

\* A path over the ranges: one of a set of ranges starts it, every other one extends the
\* path of one of its parts by the hash of the other.
PathOver(leaves, path, stop, base, left) ==
    \A r \in Ranges(leaves) :
        path[r] = IF r \in stop THEN base[r]
                  ELSE IF r \in left
                  THEN Append(path[LeftOf(r)], Subtree(leaves, RightOf(r)))
                  ELSE Append(path[RightOf(r)], Subtree(leaves, LeftOf(r)))

LEMMA PathsOverRanges ==
    ASSUME NEW leaves, Len(leaves) \in Nat, NEW stop, NEW base, NEW left,
           \A r \in Ranges(leaves) : Single(r) => r \in stop
    PROVE  \E path : /\ path = [r \in Ranges(leaves) |-> path[r]]
                     /\ PathOver(leaves, path, stop, base, left)
<1> DEFINE R == Ranges(leaves)
           Body(f, r) == IF r \in stop THEN base[r]
                         ELSE IF r \in left
                         THEN Append(f[LeftOf(r)], Subtree(leaves, RightOf(r)))
                         ELSE Append(f[RightOf(r)], Subtree(leaves, LeftOf(r)))
           Upto(w, f) == /\ f = [r \in R |-> f[r]]
                         /\ \A r \in R : r[2] <= r[1] + w => f[r] = Body(f, r)
           T == {w \in Nat : \E f : Upto(w, f)}
<1>0. \A r \in R : r[1] \in 0..Len(leaves) /\ r[2] \in 0..Len(leaves)
  BY DEF Ranges
<1>1. 0 \in T
  <2> DEFINE g == [r \in R |-> base[r]]
  <2>1. \A r \in R : r[2] <= r[1] + 0 => r \in stop
    BY <1>0 DEF Single
  <2>2. Upto(0, g)
    BY <2>1
  <2> HIDE DEF Upto, g
  <2> QED
    BY <2>2
<1>2. ASSUME NEW w \in Nat, w \in T PROVE w + 1 \in T
  <2>1. PICK f : Upto(w, f)
    BY <1>2
  <2> DEFINE g == [r \in R |-> IF r[2] <= r[1] + w THEN f[r] ELSE Body(f, r)]
  <2>2. ASSUME NEW r \in R, r[2] <= r[1] + (w + 1) PROVE g[r] = Body(g, r)
    <3>1. g[r] = Body(f, r)
      <4> HIDE DEF Body
      <4> QED
        BY <2>1
    <3>2. CASE r \notin stop
      <4>1. /\ LeftOf(r) \in R /\ RightOf(r) \in R
            /\ LeftOf(r)[2] <= LeftOf(r)[1] + w /\ RightOf(r)[2] <= RightOf(r)[1] + w
        BY <2>2, <3>2, Divided
      <4>2. g[LeftOf(r)] = f[LeftOf(r)] /\ g[RightOf(r)] = f[RightOf(r)]
        <5> HIDE DEF Body
        <5> QED
          BY <4>1
      <4> HIDE DEF g
      <4> QED
        BY <3>1, <4>2
    <3>3. CASE r \in stop
      <4> HIDE DEF g
      <4> QED
        BY <3>1, <3>3
    <3> QED
      BY <3>2, <3>3
  <2>3. g = [r \in R |-> g[r]]
    <3> HIDE DEF Body
    <3> QED
      OBVIOUS
  <2>4. Upto(w + 1, g)
    <3> HIDE DEF g, Body
    <3> QED
      BY <2>2, <2>3
  <2> HIDE DEF Upto, g
  <2> QED
    BY <2>4
<1>3. PICK f : Upto(Len(leaves), f)
  <2>1. Len(leaves) \in T
    <3> HIDE DEF T
    <3> QED
      BY <1>1, <1>2, EveryNumber
  <2> QED
    BY <2>1
<1>4. \A r \in R : f[r] = Body(f, r)
  <2> HIDE DEF Body, R
  <2> QED
    BY <1>0, <1>3
<1>5. f = [r \in Ranges(leaves) |-> f[r]]
  <2> HIDE DEF Body
  <2> QED
    BY <1>3
<1>6. PathOver(leaves, f, stop, base, left)
  BY <1>4 DEF PathOver
<1> HIDE DEF Upto
<1> QED
  BY <1>5, <1>6

LEMMA PowerPositive == ASSUME NEW r \in Nat PROVE TwoTo(r) \in Nat /\ TwoTo(r) >= 1
  BY PowersOfTwo

\* The range of the node of an index on a level, and of the one above it.
Way(n, index, r) == Under(n, r, Shifted(index, r))

LEMMA Upward ==
    ASSUME NEW leaves, Row(leaves), Len(leaves) >= 1, NEW level, LevelsOf(leaves, level),
           NEW index \in Nat, index < Len(leaves), NEW r \in Nat
    PROVE  LET n == Len(leaves)
               m == Shifted(index, r)
               above == Way(n, index, r + 1)
           IN  /\ Way(n, index, r) \in Ranges(leaves)
               /\ level[r][m + 1] = Subtree(leaves, Way(n, index, r))
               /\ ~HasSibling(m, Shifted(n - 1, r)) => above = Way(n, index, r)
               /\ HasSibling(m, Shifted(n - 1, r)) =>
                     /\ ~Single(above) /\ (index < Middle(above) <=> m % 2 # 1)
                     /\ m % 2 = 1 =>
                           /\ RightOf(above) = Way(n, index, r)
                           /\ Subtree(leaves, LeftOf(above)) = level[r][SiblingOf(m) + 1]
                     /\ m % 2 # 1 =>
                           /\ LeftOf(above) = Way(n, index, r)
                           /\ Subtree(leaves, RightOf(above)) = level[r][SiblingOf(m) + 1]
<1> DEFINE n == Len(leaves)
           m == Shifted(index, r)
           last == Shifted(n - 1, r)
           half == m \div 2
           above == Way(n, index, r + 1)
<1>1. n \in Nat /\ n >= 1
  BY DEF Row
<1>2. m \in Nat /\ last \in Nat /\ m <= last
  BY <1>1, SiblingsOnTheWay
<1>3. Shifted(index, r + 1) = half
  BY Shifting
<1>4. half \in Nat /\ half <= Shifted(n - 1, r + 1) /\ Shifted(n - 1, r + 1) \in Nat
  <2>1. /\ Shifted(index, r + 1) \in Nat /\ Shifted(n - 1, r + 1) \in Nat
        /\ Shifted(index, r + 1) <= Shifted(n - 1, r + 1)
    <3>1. r + 1 \in Nat
      OBVIOUS
    <3> HIDE DEF n
    <3> QED
      BY <1>1, <3>1, SiblingsOnTheWay DEF n
  <2> QED
    BY <1>3, <2>1
<1>5. half \in 0..Shifted(n - 1, r + 1)
  <2> HIDE DEF half
  <2> QED
    BY <1>4
<1>6. /\ 2 * half + 1 > last => Under(n, r + 1, half) = Under(n, r, 2 * half)
      /\ 2 * half + 1 <= last =>
             /\ ~Single(Under(n, r + 1, half))
             /\ Middle(Under(n, r + 1, half)) = (2 * half + 1) * TwoTo(r)
             /\ LeftOf(Under(n, r + 1, half)) = Under(n, r, 2 * half)
             /\ RightOf(Under(n, r + 1, half)) = Under(n, r, 2 * half + 1)
  <2> HIDE DEF half, n
  <2> QED
    BY <1>1, <1>5, NodesHalve
<1>7. \A j \in 0..last : level[r][j + 1] = Subtree(leaves, Under(n, r, j))
  BY NodesAreSubtrees
<1>8. Way(n, index, r) \in Ranges(leaves)
  <2>1. /\ m * TwoTo(r) \in Nat /\ m * TwoTo(r) <= n - 1
        /\ Under(n, r, m)[2] \in (m * TwoTo(r) + 1)..n
    <3> HIDE DEF m, n
    <3>1. m \in 0..Shifted(n - 1, r)
      BY <1>2
    <3> QED
      BY <1>1, <3>1, NodesInOrder
  <2>2. Under(n, r, m) \in Ranges(leaves)
    BY <1>1, <2>1 DEF Ranges, Under
  <2> QED
    BY <2>2 DEF Way
<1>9. index < (m + 1) * TwoTo(r) /\ m * TwoTo(r) <= index
  <2>1. TwoTo(r) \in Nat /\ TwoTo(r) >= 1
    BY PowerPositive
  <2>2. \A d \in Nat : d >= 1 => index < ((index \div d) + 1) * d /\ (index \div d) * d <= index
    OBVIOUS
  <2> QED
    BY <2>1, <2>2 DEF Shifted
<1>10. above = Under(n, r + 1, half) /\ Way(n, index, r) = Under(n, r, m)
  BY <1>3 DEF Way
<1>11. level[r][m + 1] = Subtree(leaves, Way(n, index, r))
  <2> HIDE DEF m, last, n, above, half
  <2> QED
    BY <1>2, <1>7, <1>10
<1> HIDE DEF above, last, n
<1>12. (m = 2 * half /\ m % 2 = 0) \/ (m = 2 * half + 1 /\ m % 2 = 1)
  <2> HIDE DEF m
  <2> QED
    BY <1>2
<1> HIDE DEF m, half
<1>13. ASSUME ~HasSibling(m, last) PROVE above = Way(n, index, r)
  <2>1. m = 2 * half /\ 2 * half + 1 > last
    BY <1>2, <1>4, <1>12, <1>13 DEF HasSibling
  <2> QED
    BY <1>6, <1>10, <2>1
<1>14. ASSUME HasSibling(m, last), m % 2 = 1
       PROVE  /\ ~Single(above) /\ ~(index < Middle(above))
              /\ RightOf(above) = Way(n, index, r)
              /\ Subtree(leaves, LeftOf(above)) = level[r][SiblingOf(m) + 1]
  <2>1. m = 2 * half + 1 /\ SiblingOf(m) = 2 * half /\ 2 * half + 1 <= last /\ 2 * half \in 0..last
    BY <1>2, <1>4, <1>12, <1>14 DEF SiblingOf
  <2>2. /\ ~Single(above) /\ Middle(above) = m * TwoTo(r)
        /\ LeftOf(above) = Under(n, r, 2 * half) /\ RightOf(above) = Under(n, r, m)
    BY <1>6, <1>10, <2>1
  <2>3. ~(index < m * TwoTo(r))
    <3>1. TwoTo(r) \in Nat
      BY PowerPositive
    <3>2. m * TwoTo(r) \in Nat
      BY <1>2, <3>1
    <3> QED
      BY <1>9, <3>2
  <2>4. level[r][2 * half + 1] = Subtree(leaves, Under(n, r, 2 * half))
    BY <1>7, <2>1
  <2> QED
    BY <1>10, <2>1, <2>2, <2>3, <2>4
<1>15. ASSUME HasSibling(m, last), m % 2 # 1
       PROVE  /\ ~Single(above) /\ index < Middle(above)
              /\ LeftOf(above) = Way(n, index, r)
              /\ Subtree(leaves, RightOf(above)) = level[r][SiblingOf(m) + 1]
  <2>1. m = 2 * half /\ SiblingOf(m) = 2 * half + 1 /\ 2 * half + 1 <= last
        /\ 2 * half + 1 \in 0..last
    BY <1>2, <1>4, <1>12, <1>15 DEF SiblingOf, HasSibling
  <2>2. /\ ~Single(above) /\ Middle(above) = (m + 1) * TwoTo(r)
        /\ LeftOf(above) = Under(n, r, m) /\ RightOf(above) = Under(n, r, 2 * half + 1)
    BY <1>6, <1>10, <2>1
  <2>3. level[r][(2 * half + 1) + 1] = Subtree(leaves, Under(n, r, 2 * half + 1))
    BY <1>7, <2>1
  <2> QED
    BY <1>9, <1>10, <2>1, <2>2, <2>3
<1> QED
  BY <1>8, <1>11, <1>13, <1>14, <1>15 DEF n, m, last, above

\* No node that has a sibling, from level start on, is under a range the path starts at.
GoesOn(n, index, start, stop) ==
    \A r \in Nat :
        r >= start /\ HasSibling(Shifted(index, r), Shifted(n - 1, r))
           => Way(n, index, r + 1) \notin stop

\* The siblings on the way of an index are its path over the ranges, from the level where
\* the path starts.
LEMMA PathsClimb ==
    ASSUME NEW leaves, Row(leaves), Len(leaves) >= 1, NEW level, LevelsOf(leaves, level),
           NEW index \in Nat, index < Len(leaves), NEW start \in Nat,
           NEW path, NEW stop, NEW base, NEW left, PathOver(leaves, path, stop, base, left),
           \A r \in Ranges(leaves) : ~Single(r) => (r \in left <=> index < Middle(r)),
           GoesOn(Len(leaves), index, start, stop)
    PROVE  \E climb : /\ Climbs(level, Len(leaves), index, start, climb)
                      /\ \A r \in Nat : climb[r] = path[Way(Len(leaves), index, r)]
<1> DEFINE n == Len(leaves)
           climb == [r \in Nat |-> path[Way(n, index, r)]]
<1>1. ASSUME NEW r \in Nat, r >= start
      PROVE  climb[r + 1] = IF HasSibling(Shifted(index, r), Shifted(n - 1, r))
                            THEN Append(climb[r], level[r][SiblingOf(Shifted(index, r)) + 1])
                            ELSE climb[r]
  <2> DEFINE m == Shifted(index, r)
             has == HasSibling(m, Shifted(n - 1, r))
             above == Way(n, index, r + 1)
  <2>1. climb[r] = path[Way(n, index, r)] /\ climb[r + 1] = path[above]
    OBVIOUS
  <2> HIDE DEF climb
  <2>2. above \in Ranges(leaves)
    <3>1. r + 1 \in Nat
      OBVIOUS
    <3> QED
      BY <3>1, Upward
  <2>3. /\ ~has => above = Way(n, index, r)
        /\ has =>
              /\ ~Single(above) /\ (index < Middle(above) <=> m % 2 # 1)
              /\ m % 2 = 1 =>
                    /\ RightOf(above) = Way(n, index, r)
                    /\ Subtree(leaves, LeftOf(above)) = level[r][SiblingOf(m) + 1]
              /\ m % 2 # 1 =>
                    /\ LeftOf(above) = Way(n, index, r)
                    /\ Subtree(leaves, RightOf(above)) = level[r][SiblingOf(m) + 1]
    BY Upward
  <2>4. has => above \notin stop
    BY <1>1 DEF GoesOn
  <2> HIDE DEF n, m, has, above
  <2>5. path[above] = IF above \in stop THEN base[above]
                      ELSE IF above \in left
                      THEN Append(path[LeftOf(above)], Subtree(leaves, RightOf(above)))
                      ELSE Append(path[RightOf(above)], Subtree(leaves, LeftOf(above)))
    BY <2>2 DEF PathOver
  <2>6. has => (above \in left <=> index < Middle(above))
    BY <2>2, <2>3
  <2>7. CASE ~has
    BY <2>1, <2>3, <2>7 DEF m, has
  <2>8. CASE has
    <3>1. path[above] = IF m % 2 # 1
                        THEN Append(path[LeftOf(above)], Subtree(leaves, RightOf(above)))
                        ELSE Append(path[RightOf(above)], Subtree(leaves, LeftOf(above)))
      BY <2>3, <2>4, <2>5, <2>6, <2>8
    <3>2. path[above] = Append(path[Way(n, index, r)], level[r][SiblingOf(m) + 1])
      BY <2>3, <2>8, <3>1
    <3> QED
      BY <2>1, <2>8, <3>2 DEF m, has
  <2> QED
    BY <2>7, <2>8
<1>2. Climbs(level, n, index, start, climb)
  <2> HIDE DEF climb
  <2> QED
    BY <1>1 DEF Climbs
<1>3. \A r \in Nat : climb[r] = path[Way(n, index, r)]
  OBVIOUS
<1> HIDE DEF climb
<1> QED
  BY <1>2, <1>3

\* At the top of the way is the whole tree.
LEMMA TopOfTheWay ==
    ASSUME NEW n \in Nat, NEW index \in Nat, index < n
    PROVE  Shifted(index, n) = 0 /\ Way(n, index, n) = <<0, n>>
<1>1. Shifted(n - 1, n) = 0 /\ Under(n, n, 0) = <<0, n>>
  BY RootIsWhole
<1>2. Shifted(index, n) \in Nat /\ Shifted(index, n) <= Shifted(n - 1, n)
  BY SiblingsOnTheWay
<1>3. Shifted(index, n) = 0
  BY <1>1, <1>2
<1> QED
  BY <1>1, <1>3 DEF Way

-----------------------------------------------------------------------------
(* What an inclusion proof proves.                                            *)

\* The audit path of a leaf is the siblings on its way.
LEMMA AuditPathClimbs ==
    ASSUME NEW leaves, Row(leaves), Len(leaves) >= 1, NEW level, LevelsOf(leaves, level),
           NEW index \in Nat, index < Len(leaves)
    PROVE  \E climb : /\ Climbs(level, Len(leaves), index, 0, climb)
                      /\ climb[0] = <<>>
                      /\ climb[Len(leaves)] = AuditPath(leaves, index)
<1> DEFINE n == Len(leaves)
           R == Ranges(leaves)
           stop == {r \in R : Single(r)}
           base == [r \in R |-> <<>>]
           left == {r \in R : index < Middle(r)}
           Rec(path) == path = [r \in R |->
                                  IF Single(r) THEN <<>>
                                  ELSE IF index < Middle(r)
                                  THEN Append(path[LeftOf(r)], Subtree(leaves, RightOf(r)))
                                  ELSE Append(path[RightOf(r)], Subtree(leaves, LeftOf(r)))]
<1>0. n \in Nat /\ n >= 1
  BY DEF Row
<1>1. PICK f : f = [r \in R |-> f[r]] /\ PathOver(leaves, f, stop, base, left)
  <2>1. \A r \in R : Single(r) => r \in stop
    OBVIOUS
  <2> HIDE DEF stop, base, left
  <2> QED
    BY <1>0, <2>1, PathsOverRanges
<1>2. Rec(f)
  <2>1. \A r \in R : f[r] = IF Single(r) THEN <<>>
                            ELSE IF index < Middle(r)
                            THEN Append(f[LeftOf(r)], Subtree(leaves, RightOf(r)))
                            ELSE Append(f[RightOf(r)], Subtree(leaves, LeftOf(r)))
    BY <1>1 DEF PathOver
  <2> QED
    BY <1>1, <2>1
<1> DEFINE path == CHOOSE path : Rec(path)
<1>3. Rec(path)
  <2>1. LET h == CHOOSE h : Rec(h) IN Rec(h)
    <3> HIDE DEF Rec
    <3> QED
      BY <1>2, Zenon
  <2> QED
    BY <2>1
<1>4. AuditPath(leaves, index) = path[Whole(leaves)]
  BY DEF AuditPath
<1> HIDE DEF path
<1>5. PathOver(leaves, path, stop, base, left)
  <2>1. \A r \in R : path[r] = IF Single(r) THEN <<>>
                               ELSE IF index < Middle(r)
                               THEN Append(path[LeftOf(r)], Subtree(leaves, RightOf(r)))
                               ELSE Append(path[RightOf(r)], Subtree(leaves, LeftOf(r)))
    BY <1>3
  <2> QED
    BY <2>1 DEF PathOver
<1>6. \A r \in Nat :
         HasSibling(Shifted(index, r), Shifted(n - 1, r)) => Way(n, index, r + 1) \notin stop
  <2>1. ASSUME NEW r \in Nat, HasSibling(Shifted(index, r), Shifted(n - 1, r))
        PROVE  ~Single(Way(n, index, r + 1))
    BY <2>1, Upward
  <2> QED
    BY <2>1
<1>7. PICK climb : /\ Climbs(level, n, index, 0, climb)
                   /\ \A r \in Nat : climb[r] = path[Way(n, index, r)]
  <2>1. \A r \in Ranges(leaves) : ~Single(r) => (r \in left <=> index < Middle(r))
    OBVIOUS
  <2> DEFINE start == 0
  <2>2. start \in Nat /\ start = 0
    OBVIOUS
  <2> HIDE DEF stop, base, left, start
  <2>3. \E climb : /\ Climbs(level, n, index, start, climb)
                   /\ \A r \in Nat : climb[r] = path[Way(n, index, r)]
    <3>1. GoesOn(n, index, start, stop)
      BY <1>6 DEF GoesOn
    <3> QED
      BY <1>5, <2>1, <2>2, <3>1, PathsClimb
  <2> QED
    BY <2>2, <2>3
<1>8. climb[n] = AuditPath(leaves, index)
  <2>1. Way(n, index, n) = Whole(leaves)
    <3> HIDE DEF n
    <3>1. Way(n, index, n) = <<0, n>>
      BY <1>0, TopOfTheWay DEF n
    <3> QED
      BY <3>1 DEF Whole, n
  <2> HIDE DEF n
  <2> QED
    BY <1>0, <1>4, <1>7, <2>1
<1>9. climb[0] = <<>>
  <2>1. Way(n, index, 0) = <<index, index + 1>>
    <3>1. Shifted(index, 0) = index /\ TwoTo(0) = 1
      BY NotShifted, PowersOfTwo
    <3>2. index * 1 = index /\ (index + 1) * 1 = index + 1 /\ index + 1 <= n
      BY <1>0
    <3> QED
      BY <3>1, <3>2 DEF Way, Under
  <2>2. <<index, index + 1>> \in R /\ Single(<<index, index + 1>>)
    BY <1>0 DEF Ranges, Single
  <2>3. path[<<index, index + 1>>] = <<>>
    BY <1>3, <2>2
  <2> QED
    BY <1>7, <2>1, <2>3
<1> QED
  BY <1>7, <1>8, <1>9 DEF n

\* Two sequences are one when nothing tells them apart.
LEMMA SameSequence ==
    ASSUME NEW S, NEW s \in Seq(S), NEW T, NEW t \in Seq(T), Len(s) = Len(t),
           \A k \in 1..Len(t) : s[k] = t[k]
    PROVE  s = t
<1>1. s = [k \in 1..Len(t) |-> s[k]]
  OBVIOUS
<1>2. t = [k \in 1..Len(t) |-> t[k]]
  OBVIOUS
<1>3. [k \in 1..Len(t) |-> s[k]] = [k \in 1..Len(t) |-> t[k]]
  <2> DEFINE w == Len(t)
  <2>1. \A k \in 1..w : s[k] = t[k]
    OBVIOUS
  <2> HIDE DEF w
  <2> QED
    BY <2>1, Zenon
<1> QED
  BY <1>1, <1>2, <1>3, Zenon

\* root_from_inclusion_proof leads to the root of the tree exactly for the leaf that is
\* there, by the audit path of RFC 6962: no other proof, and no other leaf.
THEOREM InclusionIsTheAuditPath ==
    ASSUME NEW S, NEW leaves \in Seq(S), NEW index \in 0..(Len(leaves) - 1), NEW leaf,
           NEW T, NEW proof \in Seq(T)
    PROVE  MerkleRoot(leaves) \in RootFromInclusionProof(index, Len(leaves), leaf, proof)
              <=> leaf = leaves[index + 1] /\ proof = AuditPath(leaves, index)
<1> DEFINE n == Len(leaves)
           inner == InnerProofSize(index, n)
           border == BorderProofSize(index, n)
           root == MerkleRoot(leaves)
           side == SubSeq(proof, 1, inner)
           rest == SubSeq(proof, inner + 1, inner + border)
           value == ChainBorderRight(ChainInner(leaf, side, index), rest)
           audit == AuditPath(leaves, index)
<1>1. /\ Row(leaves) /\ n \in Nat /\ n >= 1 /\ index \in Nat /\ index < n
  BY DEF Row
<1>2. PICK level : LevelsOf(leaves, level) /\ root = level[n][1]
  BY <1>1, RootOfLevels
<1>3. PICK climb : Climbs(level, n, index, 0, climb) /\ climb[0] = <<>> /\ climb[n] = audit
  BY <1>1, <1>2, AuditPathClimbs
<1>4. climb[0] \in Seq(NodesOf(level)) /\ Len(climb[0]) = 0
  BY <1>3
<1>5. inner \in 0..n /\ 0 \in 0..inner /\ inner \in Nat
  <2> HIDE DEF n
  <2> QED
    BY <1>1, PathsMeet
<1>6. audit \in Seq(NodesOf(level)) /\ Len(audit) = inner + border /\ border \in Nat
  <2>1. climb[n] \in Seq(NodesOf(level))
    <3> HIDE DEF n
    <3>1. n >= 0 /\ 0 \in Nat
      BY <1>1
    <3> QED
      BY <1>1, <1>3, <1>4, <3>1, PathsGrow
  <2>2. Len(climb[n]) = Len(climb[0]) + (inner - 0) + border /\ border \in Nat
    <3> DEFINE start == 0
    <3>1. start = 0
      OBVIOUS
    <3> HIDE DEF n, start
    <3>2. /\ Climbs(level, n, index, start, climb) /\ climb[start] \in Seq(NodesOf(level))
          /\ start \in 0..InnerProofSize(index, n)
      BY <1>3, <1>4, <1>5, <3>1
    <3>3. Len(climb[n]) = Len(climb[start]) + (inner - start) + border /\ border \in Nat
      BY <1>1, <3>2, PathLengths
    <3> QED
      BY <3>1, <3>3
  <2> HIDE DEF inner, border, audit
  <2> QED
    BY <1>3, <1>4, <1>5, <2>1, <2>2
<1>7. root \in RootFromInclusionProof(index, n, leaf, proof)
         <=> Len(proof) = inner + border /\ root = value
  <2> HIDE DEF root
  <2> QED
    BY <1>1 DEF RootFromInclusionProof
<1>8. ASSUME Len(proof) = inner + border
      PROVE  root = value <=> leaf = leaves[index + 1] /\ \A k \in 1..Len(audit) : proof[k] = audit[k]
  <2>1. RestOf(proof, proof, climb, 0)
    <3>1. Len(proof) = Len(proof) - 0 /\ \A k \in 1..Len(proof) : 0 + k = k
      OBVIOUS
    <3> QED
      BY <1>4, <3>1 DEF RestOf
  <2>2. Len(proof) = Len(climb[n])
    BY <1>3, <1>6, <1>8
  <2>3. PICK node :
           /\ node[0] = leaf /\ Rebuilds(node, proof, n, index, 0, climb)
           /\ node[n] = ChainBorderRight(
                            ChainInner(leaf, SubSeq(proof, 1, inner - 0), Shifted(index, 0)),
                            SubSeq(proof, inner - 0 + 1, Len(proof)))
    <3> DEFINE start == 0
    <3>1. start = 0
      OBVIOUS
    <3> HIDE DEF n, start
    <3>2. /\ Climbs(level, n, index, start, climb) /\ climb[start] \in Seq(NodesOf(level))
          /\ start \in 0..InnerProofSize(index, n) /\ RestOf(proof, proof, climb, start)
      BY <1>3, <1>4, <1>5, <2>1, <3>1
    <3>3. PICK node : NewNodes(node, leaf, proof, proof, n, index, start, climb)
      BY <1>1, <2>2, <3>2, NewChain
    <3>4. /\ node[start] = leaf /\ Rebuilds(node, proof, n, index, start, climb)
          /\ node[n] = ChainBorderRight(
                           ChainInner(leaf, SubSeq(proof, 1, inner - start), Shifted(index, start)),
                           SubSeq(proof, inner - start + 1, Len(proof)))
      BY <3>3 DEF NewNodes, inner
    <3> QED
      BY <3>1, <3>4
  <2>4. node[n] = value
    <3>1. inner - 0 = inner /\ Shifted(index, 0) = index
      BY <1>1, <1>5, NotShifted
    <3> HIDE DEF inner, border
    <3> QED
      BY <1>8, <2>3, <3>1
  <2>5. node[n] = level[n][Shifted(index, n) + 1]
          <=> /\ node[0] = level[0][Shifted(index, 0) + 1]
              /\ \A k \in (Len(climb[0]) + 1)..Len(climb[n]) : proof[k] = climb[n][k]
    <3> DEFINE start == 0
    <3>1. start = 0 /\ n >= start /\ start \in Nat
      BY <1>1
    <3> HIDE DEF start
    <3>2. /\ Climbs(level, n, index, start, climb) /\ climb[start] \in Seq(NodesOf(level))
          /\ Rebuilds(node, proof, n, index, start, climb)
      BY <1>3, <1>4, <2>3, <3>1
    <3>3. node[n] = level[n][Shifted(index, n) + 1]
            <=> /\ node[start] = level[start][Shifted(index, start) + 1]
                /\ \A k \in (Len(climb[start]) + 1)..Len(climb[n]) : proof[k] = climb[n][k]
      BY <1>1, <1>2, <3>1, <3>2, OnlyTheSiblings
    <3> QED
      BY <3>1, <3>3
  <2>6. level[n][Shifted(index, n) + 1] = root /\ level[0][Shifted(index, 0) + 1] = leaves[index + 1]
    <3>1. Shifted(index, n) = 0 /\ Shifted(index, 0) = index
      BY <1>1, TopOfTheWay, NotShifted
    <3>2. 0 + 1 = 1
      OBVIOUS
    <3> HIDE DEF n, root
    <3> QED
      BY <1>2, <3>1, <3>2 DEF LevelsOf
  <2>7. (Len(climb[0]) + 1)..Len(climb[n]) = 1..Len(audit)
    BY <1>3, <1>4
  <2> HIDE DEF value, root, audit, n
  <2> QED
    BY <1>3, <2>3, <2>4, <2>5, <2>6, <2>7
<1>9. Len(proof) = inner + border /\ (\A k \in 1..Len(audit) : proof[k] = audit[k])
         <=> proof = audit
  <2>1. ASSUME Len(proof) = inner + border, \A k \in 1..Len(audit) : proof[k] = audit[k]
        PROVE  proof = audit
    <3> HIDE DEF audit
    <3> QED
      BY <1>6, <2>1, SameSequence
  <2>2. ASSUME proof = audit
        PROVE  Len(proof) = inner + border /\ \A k \in 1..Len(audit) : proof[k] = audit[k]
    <3> HIDE DEF audit
    <3> QED
      BY <1>6, <2>2
  <2> QED
    BY <2>1, <2>2
<1> HIDE DEF root, value, inner, border, audit
<1> QED
  BY <1>7, <1>8, <1>9 DEF root, audit

-----------------------------------------------------------------------------
(* Where a consistency proof starts.                                          *)

\* While its bits are zero, a number is a multiple of ever larger powers of two.
LEMMA EvenSoFar ==
    ASSUME NEW number \in Nat, NEW i \in Nat, \A j \in 0..(i - 1) : Bit(number, j) = 0,
           NEW r \in 0..i
    PROVE  number = Shifted(number, r) * TwoTo(r)
<1> DEFINE Even == {t \in Nat : t <= i => number = Shifted(number, t) * TwoTo(t)}
<1>1. 0 \in Even
  <2>1. Shifted(number, 0) = number /\ TwoTo(0) = 1 /\ number * 1 = number
    BY NotShifted, PowersOfTwo
  <2> QED
    BY <2>1
<1>2. ASSUME NEW t \in Nat, t \in Even PROVE t + 1 \in Even
  <2> SUFFICES ASSUME t + 1 <= i PROVE number = Shifted(number, t + 1) * TwoTo(t + 1)
    OBVIOUS
  <2> DEFINE a == Shifted(number, t)
             d == TwoTo(t)
  <2>1. number = a * d /\ Bit(number, t) = 0
    BY <1>2
  <2>2. a \in Nat /\ Shifted(number, t + 1) = a \div 2 /\ a % 2 = 0
    BY <2>1, Shifting DEF Bit
  <2>3. d \in Nat /\ TwoTo(t + 1) = 2 * d
    BY PowersOfTwo
  <2> HIDE DEF a, d
  <2>4. \E c \in Nat : a = 2 * c /\ a \div 2 = c
    BY <2>2
  <2>5. PICK c \in Nat : a = 2 * c /\ a \div 2 = c
    BY <2>4
  <2>6. (2 * c) * d = c * (2 * d)
    BY <2>3
  <2> QED
    BY <2>1, <2>2, <2>3, <2>5, <2>6
<1>3. r \in Even
  <2> HIDE DEF Even
  <2> QED
    BY <1>1, <1>2, EveryNumber
<1> QED
  BY <1>3

\* trailing_zeros is the number of zero bits below the first one.
LEMMA ZerosCounted ==
    ASSUME NEW number \in Nat, number >= 1
    PROVE  /\ TrailingZeros(number) \in 0..number
           /\ Shifted(number, TrailingZeros(number)) % 2 = 1
           /\ \A j \in 0..(TrailingZeros(number) - 1) : Bit(number, j) = 0
<1> DEFINE Ones == {i \in Nat : Bit(number, i) = 1}
           First(i) == i \in 0..number /\ Bit(number, i) = 1 /\ \A j \in 0..(i - 1) : Bit(number, j) = 0
<1>0. \A j \in Nat : Bit(number, j) \in {0, 1}
  <2>1. ASSUME NEW j \in Nat PROVE Bit(number, j) \in {0, 1}
    <3>1. Shifted(number, j) \in Nat
      BY Shifting
    <3> QED
      BY <3>1 DEF Bit
  <2> QED
    BY <2>1
<1>1. \E i \in 0..number : Bit(number, i) = 1
  <2> SUFFICES ASSUME \A i \in 0..number : Bit(number, i) # 1 PROVE FALSE
    OBVIOUS
  <2>1. \A j \in 0..(number - 1) : Bit(number, j) = 0
    <3>1. \A j \in 0..(number - 1) : j \in Nat /\ j \in 0..number
      OBVIOUS
    <3> QED
      BY <1>0, <3>1
  <2>2. number = Shifted(number, number) * TwoTo(number)
    <3>1. number \in 0..number
      OBVIOUS
    <3> QED
      BY <2>1, <3>1, EvenSoFar
  <2>3. number < TwoTo(number) /\ TwoTo(number) \in Nat
    BY PowersOfTwo
  <2>4. Shifted(number, number) = 0
    BY <2>3, ShiftedOut
  <2>5. 0 * TwoTo(number) = 0
    BY <2>3
  <2> QED
    BY <2>2, <2>4, <2>5
<1>2. PICK i \in Ones : \A j \in Ones : i <= j
  <2>1. Ones \in SUBSET Nat /\ Ones # {}
    BY <1>1
  <2> QED
    BY <2>1, LeastElement
<1>3. First(i)
  <2>1. i \in 0..number
    BY <1>1, <1>2
  <2>2. ASSUME NEW j \in 0..(i - 1) PROVE Bit(number, j) = 0
    <3>1. j \in Nat /\ j \notin Ones
      BY <1>2
    <3> QED
      BY <1>0, <3>1
  <2> QED
    BY <1>2, <2>1, <2>2
<1>4. First(TrailingZeros(number))
  BY <1>3 DEF TrailingZeros
<1> QED
  BY <1>4 DEF Bit

\* The shift of what comes before a number.
LEMMA OneBelow ==
    ASSUME NEW number \in Nat, number >= 1, NEW r \in Nat
    PROVE  /\ Shifted(number, r) <= Shifted(number - 1, r) + 1
           /\ number = Shifted(number, r) * TwoTo(r) => Shifted(number - 1, r) = Shifted(number, r) - 1
<1>1. ASSUME NEW d \in Nat, d >= 1, NEW a \in Nat, NEW b \in Nat, a * d < b * d PROVE a < b
  <2> SUFFICES ASSUME b <= a PROVE FALSE
    OBVIOUS
  <2>1. PICK e \in Nat : a = b + e
    <3>1. a - b \in Nat /\ a = b + (a - b)
      OBVIOUS
    <3> QED
      BY <3>1
  <2>2. a * d = b * d + e * d /\ e * d \in Nat /\ b * d \in Nat
    BY <2>1
  <2> QED
    BY <1>1, <2>2
<1> DEFINE d == TwoTo(r)
           a == Shifted(number, r)
           b == Shifted(number - 1, r)
<1>2. d \in Nat /\ d >= 1
  BY PowerPositive
<1>3. a \in Nat /\ b \in Nat
  BY Shifting
<1>4. /\ a * d <= number /\ number < (a + 1) * d
      /\ b * d <= number - 1 /\ number - 1 < (b + 1) * d
  <2>1. \A n, e \in Nat : e >= 1 => (n \div e) * e <= n /\ n < ((n \div e) + 1) * e
    OBVIOUS
  <2>2. number - 1 \in Nat
    OBVIOUS
  <2> QED
    BY <1>2, <2>1, <2>2 DEF Shifted
<1> HIDE DEF d, a, b
<1>5. a * d \in Nat /\ b * d \in Nat /\ (b + 1) * d \in Nat /\ ((b + 1) + 1) * d \in Nat
      /\ ((b + 1) + 1) * d = (b + 1) * d + d /\ b + 1 \in Nat /\ (b + 1) + 1 \in Nat
  BY <1>2, <1>3
<1>6. a <= b + 1
  <2>1. a * d < ((b + 1) + 1) * d
    BY <1>2, <1>4, <1>5
  <2>2. a < (b + 1) + 1
    BY <1>1, <1>2, <1>3, <1>5, <2>1
  <2> QED
    BY <1>3, <2>2
<1>7. ASSUME number = a * d PROVE b = a - 1
  <2>1. b * d < a * d
    BY <1>4, <1>5, <1>7
  <2>2. b < a
    BY <1>1, <1>2, <1>3, <2>1
  <2> QED
    BY <1>3, <1>6, <2>2
<1> QED
  BY <1>6, <1>7 DEF a, b, d

\* A consistency proof starts at the largest node the old tree ends with: it is the left
\* one of its pair, and above it the old size is inside a node.
LEMMA WhereItStarts ==
    ASSUME NEW size \in Nat, size >= 1
    PROVE  LET s == TrailingZeros(size)
               q == Shifted(size, s)
           IN  /\ s \in 0..size /\ q \in Nat /\ q % 2 = 1
               /\ size = q * TwoTo(s) /\ Shifted(size - 1, s) = q - 1
               /\ \A r \in Nat : r > s => Shifted(size - 1, r) = Shifted(size, r)
<1> DEFINE s == TrailingZeros(size)
           q == Shifted(size, s)
<1>1. s \in 0..size /\ q % 2 = 1 /\ \A j \in 0..(s - 1) : Bit(size, j) = 0
  BY ZerosCounted
<1>2. s \in Nat /\ q \in Nat
  <2>1. s \in Nat
    BY <1>1
  <2> QED
    BY <2>1, Shifting
<1>3. size = q * TwoTo(s)
  <2> HIDE DEF s
  <2>1. s \in 0..s
    BY <1>2
  <2> QED
    BY <1>1, <1>2, <2>1, EvenSoFar
<1>4. Shifted(size - 1, s) = q - 1
  <2> HIDE DEF s
  <2> QED
    BY <1>2, <1>3, OneBelow
<1>5. Shifted(size - 1, s + 1) = Shifted(size, s + 1)
  <2>1. Shifted(size - 1, s + 1) = (q - 1) \div 2 /\ Shifted(size, s + 1) = q \div 2
    <3> HIDE DEF s
    <3>1. size - 1 \in Nat
      OBVIOUS
    <3>2. Shifted(size - 1, s + 1) = Shifted(size - 1, s) \div 2
      BY <1>2, <3>1, Shifting
    <3>3. Shifted(size, s + 1) = q \div 2
      BY <1>2, Shifting
    <3> QED
      BY <1>4, <3>2, <3>3
  <2>2. \A a \in Nat : a % 2 = 1 => (a - 1) \div 2 = a \div 2
    OBVIOUS
  <2> HIDE DEF q, s
  <2> QED
    BY <1>1, <1>2, <2>1, <2>2
<1> HIDE DEF s, q
<1>6. ASSUME NEW r \in Nat, r > s PROVE Shifted(size - 1, r) = Shifted(size, r)
  <2>1. s + 1 \in Nat /\ s + 1 <= r /\ size - 1 \in Nat
    BY <1>2, <1>6
  <2> QED
    BY <1>5, <2>1, PathsStayTogether
<1> QED
  BY <1>1, <1>2, <1>3, <1>4, <1>6 DEF s, q

\* It starts below the level where the paths meet.
LEMMA StartsInside ==
    ASSUME NEW size \in Nat, NEW old \in Nat, old >= 1, old < size
    PROVE  /\ TrailingZeros(old) \in Nat
           /\ TrailingZeros(old) < InnerProofSize(old - 1, size)
<1> DEFINE s == TrailingZeros(old)
           q == Shifted(old, s)
<1>1. s \in Nat /\ q \in Nat /\ q % 2 = 1 /\ Shifted(old - 1, s) = q - 1
  <2>1. s \in 0..old /\ q \in Nat /\ q % 2 = 1 /\ Shifted(old - 1, s) = q - 1
    BY WhereItStarts
  <2> QED
    BY <2>1
<1> HIDE DEF s
<1>2. q <= Shifted(size - 1, s)
  <2>1. size - 1 \in Nat /\ old <= size - 1
    OBVIOUS
  <2> QED
    BY <1>1, <2>1, ShiftingInOrder
<1> HIDE DEF q
<1>3. Shifted(old - 1, s) # Shifted(size - 1, s)
  <2>1. size - 1 \in Nat
    OBVIOUS
  <2>2. Shifted(size - 1, s) \in Nat
    BY <1>1, <2>1, Shifting
  <2> QED
    BY <1>1, <1>2, <2>2
<1>4. InnerProofSize(old - 1, size) \in Nat /\ ~(s >= InnerProofSize(old - 1, size))
  <2>1. old - 1 \in Nat /\ old - 1 < size
    OBVIOUS
  <2>2. InnerProofSize(old - 1, size) \in 0..size
    BY <2>1, PathsMeet
  <2>3. Shifted(old - 1, s) = Shifted(size - 1, s) <=> s >= InnerProofSize(old - 1, size)
    BY <1>1, <2>1, PathsMeet
  <2> QED
    BY <1>3, <2>2, <2>3
<1> QED
  BY <1>1, <1>4 DEF s

\* A consistency path starts at the ranges that end where the old leaves end; the node of
\* one that is a whole tree is not part of it.
StopsAt(leaves, old) == {r \in Ranges(leaves) : old = r[2] \/ Single(r)}
StartsWith(leaves) == [r \in Ranges(leaves) |-> IF r[1] = 0 THEN <<>> ELSE <<Subtree(leaves, r)>>]
GoesLeft(leaves, old) == {r \in Ranges(leaves) : old <= Middle(r)}

LEMMA ConsistencyPathOver ==
    ASSUME NEW leaves, Len(leaves) \in Nat, NEW old
    PROVE  \E path :
              /\ PathOver(leaves, path, StopsAt(leaves, old), StartsWith(leaves), GoesLeft(leaves, old))
              /\ ConsistencyPath(leaves, old) = path[Whole(leaves)]
<1> DEFINE R == Ranges(leaves)
           stop == StopsAt(leaves, old)
           base == StartsWith(leaves)
           left == GoesLeft(leaves, old)
           Rec(path) == path = [r \in R |->
                                  IF old = r[2] \/ Single(r)
                                  THEN IF r[1] = 0 THEN <<>> ELSE <<Subtree(leaves, r)>>
                                  ELSE IF old <= Middle(r)
                                  THEN Append(path[LeftOf(r)], Subtree(leaves, RightOf(r)))
                                  ELSE Append(path[RightOf(r)], Subtree(leaves, LeftOf(r)))]
<1>2. PICK f : f = [r \in R |-> f[r]] /\ PathOver(leaves, f, stop, base, left)
  <2>1. \A r \in R : Single(r) => r \in stop
    BY DEF StopsAt
  <2> HIDE DEF stop, base, left
  <2> QED
    BY <2>1, PathsOverRanges
<1>3. Rec(f)
  <2>1. \A r \in R : f[r] = IF old = r[2] \/ Single(r)
                            THEN IF r[1] = 0 THEN <<>> ELSE <<Subtree(leaves, r)>>
                            ELSE IF old <= Middle(r)
                            THEN Append(f[LeftOf(r)], Subtree(leaves, RightOf(r)))
                            ELSE Append(f[RightOf(r)], Subtree(leaves, LeftOf(r)))
    BY <1>2 DEF PathOver, StopsAt, StartsWith, GoesLeft
  <2> QED
    BY <1>2, <2>1
<1> DEFINE path == CHOOSE path : Rec(path)
<1>4. Rec(path)
  <2>1. LET h == CHOOSE h : Rec(h) IN Rec(h)
    <3> HIDE DEF Rec
    <3> QED
      BY <1>3, Zenon
  <2> QED
    BY <2>1
<1>5. ConsistencyPath(leaves, old) = path[Whole(leaves)]
  BY DEF ConsistencyPath
<1> HIDE DEF path
<1>6. PathOver(leaves, path, stop, base, left)
  <2>1. \A r \in R : path[r] = IF old = r[2] \/ Single(r)
                               THEN IF r[1] = 0 THEN <<>> ELSE <<Subtree(leaves, r)>>
                               ELSE IF old <= Middle(r)
                               THEN Append(path[LeftOf(r)], Subtree(leaves, RightOf(r)))
                               ELSE Append(path[RightOf(r)], Subtree(leaves, LeftOf(r)))
    BY <1>4
  <2> QED
    BY <2>1 DEF PathOver, StopsAt, StartsWith, GoesLeft
<1> QED
  BY <1>5, <1>6

\* The consistency path is the siblings on the way of the last old leaf, from there on; it
\* starts with the node itself, unless that is the whole old tree.
LEMMA ConsistencyPathClimbs ==
    ASSUME NEW leaves, Row(leaves), Len(leaves) >= 1, NEW level, LevelsOf(leaves, level),
           NEW old \in Nat, old >= 1, old < Len(leaves),
           NEW start, start = TrailingZeros(old), NEW index, index = old - 1
    PROVE  \E climb : /\ Climbs(level, Len(leaves), index, start, climb)
                      /\ climb[start] = IF old = TwoTo(start) THEN <<>>
                                        ELSE <<level[start][Shifted(index, start) + 1]>>
                      /\ climb[Len(leaves)] = ConsistencyPath(leaves, old)
<1> DEFINE n == Len(leaves)
           R == Ranges(leaves)
           stop == {r \in R : old = r[2] \/ Single(r)}
           base == [r \in R |-> IF r[1] = 0 THEN <<>> ELSE <<Subtree(leaves, r)>>]
           left == {r \in R : old <= Middle(r)}
           q == Shifted(old, start)
<1>0. n \in Nat /\ n >= 1 /\ index \in Nat /\ index < n
  BY DEF Row
<1>1. /\ start \in Nat /\ q \in Nat /\ q >= 1 /\ old = q * TwoTo(start)
      /\ Shifted(index, start) = q - 1
      /\ \A r \in Nat : r > start => Shifted(index, r) = Shifted(old, r)
  <2>1. /\ start \in 0..old /\ q \in Nat /\ q % 2 = 1 /\ old = q * TwoTo(start)
        /\ Shifted(index, start) = q - 1
        /\ \A r \in Nat : r > start => Shifted(index, r) = Shifted(old, r)
    BY WhereItStarts
  <2>2. q # 0
    BY <2>1
  <2> HIDE DEF q
  <2> QED
    BY <2>1, <2>2
<1> HIDE DEF q
<1>6. PICK path : /\ PathOver(leaves, path, stop, base, left)
                  /\ ConsistencyPath(leaves, old) = path[Whole(leaves)]
  BY <1>0, ConsistencyPathOver DEF StopsAt, StartsWith, GoesLeft
<1>6a. \A r \in R : r \in stop => path[r] = base[r]
  <2> HIDE DEF stop, base, left
  <2> QED
    BY <1>6 DEF PathOver
<1>7. ASSUME NEW r \in Nat, r >= start, HasSibling(Shifted(index, r), Shifted(n - 1, r))
      PROVE  Way(n, index, r + 1) \notin stop
  <2>1. ~Single(Way(n, index, r + 1))
    BY <1>0, <1>7, Upward
  <2>2. Way(n, index, r + 1)[2] # old
    <3> DEFINE m == Shifted(index, r + 1)
               d == TwoTo(r + 1)
    <3>1. r + 1 \in Nat /\ r + 1 > start
      BY <1>1, <1>7
    <3>2. m = Shifted(old, r + 1) /\ m \in Nat
      BY <1>0, <1>1, <3>1, Shifting
    <3>3. d \in Nat /\ d >= 1
      BY <3>1, PowerPositive
    <3>4. old < (m + 1) * d /\ (m + 1) * d \in Nat
      <4>1. \A a, e \in Nat : e >= 1 => a < ((a \div e) + 1) * e /\ ((a \div e) + 1) * e \in Nat
        OBVIOUS
      <4>2. m = old \div d
        BY <3>2 DEF Shifted
      <4> HIDE DEF m, d
      <4> QED
        BY <3>3, <4>1, <4>2
    <3>5. Way(n, index, r + 1)[2] = IF (m + 1) * d <= n THEN (m + 1) * d ELSE n
      BY DEF Way, Under
    <3> HIDE DEF m, d
    <3> QED
      BY <1>0, <3>4, <3>5
  <2> QED
    BY <2>1, <2>2
<1>8. \A r \in Ranges(leaves) : ~Single(r) => (r \in left <=> index < Middle(r))
  <2>1. ASSUME NEW r \in Ranges(leaves), ~Single(r) PROVE r \in left <=> index < Middle(r)
    <3>1. Middle(r) \in (r[1] + 1)..(r[2] - 1) /\ r[1] \in Nat /\ r[2] \in Nat
      BY <1>0, <2>1, Divided DEF Ranges
    <3>2. Middle(r) \in Nat
      BY <3>1
    <3> QED
      BY <3>2
  <2> QED
    BY <2>1
<1>9. PICK climb : /\ Climbs(level, n, index, start, climb)
                   /\ \A r \in Nat : climb[r] = path[Way(n, index, r)]
  <2>1. GoesOn(n, index, start, stop)
    BY <1>7 DEF GoesOn
  <2> HIDE DEF stop, base, left
  <2> QED
    BY <1>0, <1>1, <1>6, <1>8, <2>1, PathsClimb
<1>10. climb[n] = ConsistencyPath(leaves, old)
  <2>1. Way(n, index, n) = Whole(leaves)
    <3> HIDE DEF n
    <3>1. Way(n, index, n) = <<0, n>>
      BY <1>0, TopOfTheWay DEF n
    <3> QED
      BY <3>1 DEF Whole, n
  <2> HIDE DEF n
  <2> QED
    BY <1>0, <1>6, <1>9, <2>1
<1>11. climb[start] = IF old = TwoTo(start) THEN <<>> ELSE <<level[start][Shifted(index, start) + 1]>>
  <2> DEFINE d == TwoTo(start)
             way == Way(n, index, start)
  <2>1. d \in Nat /\ d >= 1
    BY <1>1, PowerPositive
  <2>2. way = <<(q - 1) * d, old>>
    <3>1. (q - 1) + 1 = q
      BY <1>1
    <3> QED
      BY <1>1, <3>1 DEF Way, Under
  <2>3. (q - 1) * d = 0 <=> old = d
    <3>1. q = (q - 1) + 1 /\ q - 1 \in Nat
      BY <1>1
    <3>2. \A c \in Nat : (c + 1) * d = c * d + d /\ c * d \in Nat
      BY <2>1
    <3>3. old = (q - 1) * d + d /\ (q - 1) * d \in Nat
      BY <1>1, <3>1, <3>2
    <3> QED
      BY <2>1, <3>3
  <2>4. way \in R /\ level[start][Shifted(index, start) + 1] = Subtree(leaves, way)
    BY <1>0, <1>1, Upward
  <2>5. way \in stop
    BY <2>2, <2>4
  <2>6. path[way] = base[way]
    BY <1>6a, <2>5
  <2>7. base[way] = IF way[1] = 0 THEN <<>> ELSE <<Subtree(leaves, way)>>
    BY <2>4
  <2> HIDE DEF way, base, stop, d
  <2>8. climb[start] = base[way]
    BY <1>1, <1>9, <2>6 DEF way
  <2> QED
    BY <2>2, <2>3, <2>4, <2>7, <2>8 DEF d
<1> QED
  BY <1>9, <1>10, <1>11

\* The nodes over old leaves only are in both trees.
LEMMA SharedNodes ==
    ASSUME NEW leaves, Row(leaves), NEW prefix, Row(prefix),
           Len(prefix) >= 1, Len(prefix) <= Len(leaves),
           \A k \in 1..Len(prefix) : prefix[k] = leaves[k],
           NEW level, LevelsOf(leaves, level), NEW before, LevelsOf(prefix, before),
           NEW r \in Nat
    PROVE  \A k \in 1..Shifted(Len(prefix), r) : before[r][k] = level[r][k]
<1> DEFINE n == Len(leaves)
           old == Len(prefix)
           Shared == {i \in Nat : \A k \in 1..Shifted(old, i) : before[i][k] = level[i][k]}
<1>0. n \in Nat /\ old \in Nat /\ n >= 1 /\ n - 1 \in Nat /\ old - 1 \in Nat
  BY DEF Row
<1>1. 0 \in Shared
  BY <1>0, NotShifted DEF LevelsOf
<1>2. ASSUME NEW i \in Nat, i \in Shared PROVE i + 1 \in Shared
  <2>1. /\ Row(level[i]) /\ Len(level[i]) = Shifted(n - 1, i) + 1
        /\ level[i + 1] = NextLevel(level[i])
    BY <1>0, Widths DEF LevelsOf
  <2>2. /\ Row(before[i]) /\ Len(before[i]) = Shifted(old - 1, i) + 1
        /\ before[i + 1] = NextLevel(before[i])
    BY <1>0, Widths DEF LevelsOf
  <2> DEFINE w == Shifted(old, i)
  <2>3. /\ w \in Nat /\ Shifted(old, i + 1) = w \div 2
        /\ Shifted(n - 1, i) \in Nat /\ Shifted(old - 1, i) \in Nat
    BY <1>0, Shifting
  <2>4. w <= Len(before[i]) /\ w <= Len(level[i])
    <3>1. w <= Shifted(old - 1, i) + 1 /\ Shifted(n, i) <= Shifted(n - 1, i) + 1
      BY <1>0, OneBelow
    <3>2. w <= Shifted(n, i) /\ Shifted(n, i) \in Nat
      BY <1>0, ShiftingInOrder, Shifting
    <3> HIDE DEF w
    <3> QED
      BY <2>1, <2>2, <2>3, <3>1, <3>2
  <2> HIDE DEF w, n, old
  <2>5. ASSUME NEW k \in 1..Shifted(old, i + 1) PROVE before[i + 1][k] = level[i + 1][k]
    <3>1. /\ k \in Nat /\ k >= 1 /\ 2 * k <= w /\ 2 * k \in 1..w /\ 2 * k - 1 \in 1..w
      BY <2>3
    <3>2. /\ k \in 1..((Len(before[i]) + 1) \div 2) /\ ~(2 * k > Len(before[i]))
          /\ k \in 1..((Len(level[i]) + 1) \div 2) /\ ~(2 * k > Len(level[i]))
      <4>1. \A a \in Nat : 2 * k <= a => k \in 1..((a + 1) \div 2) /\ ~(2 * k > a)
        BY <3>1
      <4>2. Len(before[i]) \in Nat /\ Len(level[i]) \in Nat
        BY <2>1, <2>2 DEF Row
      <4>3. \A a \in Nat : w <= a => 2 * k <= a
        BY <2>3, <3>1
      <4> QED
        BY <2>4, <4>1, <4>2, <4>3
    <3>3. before[i + 1][k] = <<before[i][2 * k - 1], before[i][2 * k]>>
      BY <2>2, <3>2, NextRow
    <3>4. level[i + 1][k] = <<level[i][2 * k - 1], level[i][2 * k]>>
      BY <2>1, <3>2, NextRow
    <3>5. before[i][2 * k] = level[i][2 * k] /\ before[i][2 * k - 1] = level[i][2 * k - 1]
      BY <1>2, <3>1 DEF w
    <3> QED
      BY <3>3, <3>4, <3>5
  <2> QED
    BY <2>5 DEF old
<1>3. r \in Shared
  <2> HIDE DEF Shared
  <2> QED
    BY <1>1, <1>2, EveryNumber
<1> QED
  BY <1>3

\* Above its root a tree stays what it is.
LEMMA RootStays ==
    ASSUME NEW leaves, Row(leaves), Len(leaves) >= 1, NEW level, LevelsOf(leaves, level),
           NEW r \in Nat, Shifted(Len(leaves) - 1, r) = 0, NEW t \in Nat, t >= r
    PROVE  level[t] = level[r]
<1> DEFINE Still == {d \in Nat : level[r + d] = level[r]}
<1>1. Row(level[r]) /\ Len(level[r]) = 1
  <2>1. Row(level[r]) /\ Len(level[r]) = Shifted(Len(leaves) - 1, r) + 1
    BY Widths
  <2>2. 0 + 1 = 1
    OBVIOUS
  <2> QED
    BY <2>1, <2>2, Zenon
<1>2. 0 \in Still
  OBVIOUS
<1>3. ASSUME NEW d \in Nat, d \in Still PROVE d + 1 \in Still
  <2>1. r + d \in Nat /\ (r + d) + 1 = r + (d + 1)
    OBVIOUS
  <2>2. level[(r + d) + 1] = NextLevel(level[r])
    BY <1>3, <2>1 DEF LevelsOf
  <2>3. NextLevel(level[r]) = level[r]
    BY <1>1, RootRow
  <2> QED
    BY <2>1, <2>2, <2>3
<1>4. t - r \in Nat /\ r + (t - r) = t
  OBVIOUS
<1>5. t - r \in Still
  <2> HIDE DEF Still
  <2> QED
    BY <1>2, <1>3, <1>4, EveryNumber
<1> QED
  BY <1>4, <1>5

\* A path keeps what it holds.
LEMMA PathsKeep ==
    ASSUME NEW level, NEW size \in Nat, NEW index \in Nat, index < size, NEW start \in Nat,
           NEW path, Climbs(level, size, index, start, path),
           path[start] \in Seq(NodesOf(level)),
           NEW r \in Nat, r >= start, NEW t \in Nat, t >= r
    PROVE  Len(path[t]) >= Len(path[r]) /\ \A k \in 1..Len(path[r]) : path[t][k] = path[r][k]
<1> DEFINE at(i) == Len(path[i])
           Kept == {d \in Nat : /\ at(r + d) >= at(r)
                                /\ \A k \in 1..at(r) : path[r + d][k] = path[r][k]}
<1>0. \A i \in Nat : i >= start => at(i) \in Nat
  BY PathStep
<1>1. 0 \in Kept
  BY <1>0
<1>2. ASSUME NEW d \in Nat, d \in Kept PROVE d + 1 \in Kept
  <2> DEFINE i == r + d
  <2>1. i \in Nat /\ i >= start /\ r + (d + 1) = i + 1
    OBVIOUS
  <2>2. at(i) >= at(r) /\ \A k \in 1..at(r) : path[i][k] = path[r][k]
    BY <1>2
  <2> HIDE DEF i
  <2>3. at(i) \in Nat /\ at(r) \in Nat
    BY <1>0, <2>1
  <2>4. \/ at(i + 1) = at(i) + 1 /\ \A k \in 1..at(i) : path[i + 1][k] = path[i][k]
        \/ path[i + 1] = path[i]
    BY <2>1, PathStep
  <2>5. at(i + 1) >= at(r) /\ \A k \in 1..at(r) : path[i + 1][k] = path[r][k]
    <3>1. CASE path[i + 1] = path[i]
      BY <2>2, <3>1
    <3>2. CASE at(i + 1) = at(i) + 1 /\ \A k \in 1..at(i) : path[i + 1][k] = path[i][k]
      <4>1. \A k \in 1..at(r) : k \in 1..at(i)
        <5> HIDE DEF at
        <5> QED
          BY <2>2, <2>3
      <4>2. at(i + 1) >= at(r)
        <5> HIDE DEF at
        <5> QED
          BY <2>2, <2>3, <3>2
      <4> HIDE DEF at
      <4> QED
        BY <2>2, <3>2, <4>1, <4>2
    <3> QED
      BY ONLY <2>4, <3>1, <3>2, Zenon
  <2>6. /\ at(r + (d + 1)) >= at(r)
        /\ \A k \in 1..at(r) : path[r + (d + 1)][k] = path[r][k]
    BY <2>1, <2>5, Zenon
  <2> HIDE DEF at
  <2> QED
    BY <2>6
<1>3. t - r \in Nat /\ r + (t - r) = t
  OBVIOUS
<1>4. t - r \in Kept
  <2> HIDE DEF Kept
  <2> QED
    BY <1>1, <1>2, <1>3, EveryNumber
<1> QED
  BY <1>3, <1>4

\* The siblings a proof has are those of the path.
Continues(proof, path, start, end) ==
    \A k \in (Len(path[start]) + 1)..Len(path[end]) : proof[k] = path[end][k]

\* What a path holds at one level it holds at every later one.
Keeps(path, r, t) ==
    Len(path[t]) >= Len(path[r]) /\ \A k \in 1..Len(path[r]) : path[t][k] = path[r][k]

LEMMA PathKeeps ==
    ASSUME NEW level, NEW size \in Nat, NEW index \in Nat, index < size, NEW start \in Nat,
           NEW path, Climbs(level, size, index, start, path),
           path[start] \in Seq(NodesOf(level)),
           NEW r \in Nat, r >= start, NEW t \in Nat, t >= r
    PROVE  Keeps(path, r, t)
  BY PathsKeep DEF Keeps

\* The tree of the first leaves of another.
Begins(prefix, leaves) ==
    Len(prefix) < Len(leaves) /\ \A k \in 1..Len(prefix) : prefix[k] = leaves[k]

\* The old tree and the new one, where their paths start, and a chain that starts there.
OldAndNew(prefix, leaves, old, n, index, start) ==
    /\ old = Len(prefix) /\ n = Len(leaves) /\ old >= 1
    /\ index = old - 1 /\ start = TrailingZeros(old)
SetsOut(node, level, index, start) == node[start] = level[start][Shifted(index, start) + 1]

\* From the node the path starts at, the siblings of the path rebuild the root of the old
\* tree.
LEMMA OldRoot ==
    ASSUME NEW leaves, Row(leaves), NEW prefix, Row(prefix), Begins(prefix, leaves),
           NEW n, NEW old, NEW index, NEW start, OldAndNew(prefix, leaves, old, n, index, start),
           NEW level, LevelsOf(leaves, level), NEW before, LevelsOf(prefix, before),
           NEW path, Climbs(level, n, index, start, path), path[start] \in Seq(NodesOf(level)),
           NEW proof, Continues(proof, path, start, n),
           NEW node, RebuildsOld(node, proof, index, start, path),
           SetsOut(node, level, index, start)
    PROVE  node[n] = before[old][1]
<1> /\ old = Len(prefix) /\ n = Len(leaves) /\ old >= 1
    /\ index = old - 1 /\ start = TrailingZeros(old)
    /\ node[start] = level[start][Shifted(index, start) + 1]
  BY DEF OldAndNew, SetsOut
<1> old < n /\ \A k \in 1..old : prefix[k] = leaves[k]
  BY DEF Begins
<1> DEFINE m(r) == Shifted(index, r)
           Right(r) == node[r] = before[r][m(r) + 1]
           Rebuilt == {d \in Nat : start + d <= n => Right(start + d)}
<1>0. n \in Nat /\ old \in Nat /\ old >= 1 /\ old < n /\ index \in Nat /\ index < old /\ index < n
      /\ index = old - 1
  BY DEF Row
<1>1. /\ start \in 0..old /\ start \in Nat /\ Shifted(old, start) \in Nat
      /\ Shifted(old, start) % 2 = 1 /\ m(start) = Shifted(old, start) - 1
      /\ \A r \in Nat : r > start => m(r) = Shifted(old, r)
  <2>1. /\ start \in 0..old /\ Shifted(old, start) \in Nat
        /\ Shifted(old, start) % 2 = 1 /\ Shifted(old - 1, start) = Shifted(old, start) - 1
        /\ \A r \in Nat : r > start => Shifted(old - 1, r) = Shifted(old, r)
    BY ONLY <1>0, start = TrailingZeros(old), WhereItStarts
  <2>2. start \in Nat
    BY <1>0, <2>1
  <2>3. \A r : m(r) = Shifted(old - 1, r)
    OBVIOUS
  <2> HIDE DEF m
  <2> QED
    BY ONLY <2>1, <2>2, <2>3, Zenon
<1>2. \A r \in Nat : \A k \in 1..Shifted(old, r) : before[r][k] = level[r][k]
  BY <1>0, SharedNodes
<1>3. Right(start)
  <2>1. m(start) + 1 = Shifted(old, start) /\ m(start) + 1 \in 1..Shifted(old, start)
    <3> DEFINE q == Shifted(old, start)
    <3>1. q \in Nat /\ q % 2 = 1 /\ m(start) = q - 1
      BY <1>1
    <3> HIDE DEF q, m
    <3>2. q # 0
      BY <3>1
    <3>3. m(start) + 1 = q /\ m(start) + 1 \in 1..q
      BY <3>1, <3>2
    <3> QED
      BY <3>3 DEF q
  <2> QED
    BY <1>1, <1>2, <2>1
<1>4. m(start) % 2 # 1
  <2> DEFINE q == Shifted(old, start)
  <2>1. q \in Nat /\ q % 2 = 1 /\ m(start) = q - 1
    BY <1>1
  <2> HIDE DEF q, m
  <2> QED
    BY <2>1
<1>5. ASSUME NEW r \in Nat, r >= start, r + 1 <= n, Right(r) PROVE Right(r + 1)
  <2>1. node[r + 1] = IF m(r) % 2 = 1 THEN MerkleInteriorHash(proof[Len(path[r]) + 1], node[r])
                      ELSE node[r]
    BY <1>5 DEF RebuildsOld
  <2>2. /\ ~HasSibling(m(r), Shifted(old - 1, r)) => before[r + 1][m(r + 1) + 1] = before[r][m(r) + 1]
        /\ HasSibling(m(r), Shifted(old - 1, r)) =>
              before[r + 1][m(r + 1) + 1] =
                 IF m(r) % 2 = 1 THEN <<before[r][SiblingOf(m(r)) + 1], before[r][m(r) + 1]>>
                 ELSE <<before[r][m(r) + 1], before[r][SiblingOf(m(r)) + 1]>>
    BY <1>0, Parent
  <2>3. m(r) \in Nat
    BY <1>0, Shifting
  <2>4. HasSibling(m(r), Shifted(old - 1, r)) <=> m(r) % 2 = 1
    <3>1. m(r) = Shifted(old - 1, r)
      BY <1>0
    <3> QED
      BY <2>3, <3>1 DEF HasSibling
  <2>5. CASE m(r) % 2 # 1
    BY <1>5, <2>1, <2>2, <2>4, <2>5
  <2>6. CASE m(r) % 2 = 1
    <3>1. r > start /\ m(r) = Shifted(old, r)
      <4>1. r # start
        BY <1>4, <2>6
      <4>2. r > start
        BY <1>1, <1>5, <4>1
      <4> QED
        BY <1>1, <4>2
    <3>2. SiblingOf(m(r)) + 1 = m(r) /\ m(r) \in 1..Shifted(old, r)
      <4> HIDE DEF m
      <4>1. SiblingOf(m(r)) + 1 = m(r) /\ m(r) # 0
        <5>1. \A v \in Nat : v % 2 = 1 => (v - 1) + 1 = v /\ v # 0
          OBVIOUS
        <5>2. SiblingOf(m(r)) = m(r) - 1
          BY <2>6 DEF SiblingOf
        <5> QED
          BY <2>3, <2>6, <5>1, <5>2
      <4> QED
        BY <2>3, <3>1, <4>1
    <3>3. before[r][m(r)] = level[r][m(r)]
      BY <1>2, <3>2
    <3>4. HasSibling(m(r), Shifted(n - 1, r))
      BY <2>6 DEF HasSibling
    <3>5. /\ Len(path[r]) \in Nat /\ Len(path[r + 1]) = Len(path[r]) + 1
          /\ path[r + 1][Len(path[r]) + 1] = level[r][SiblingOf(m(r)) + 1]
      <4>1. r \in Nat /\ r >= start /\ start \in Nat /\ n \in Nat /\ index \in Nat /\ index < n
        BY <1>0, <1>1, <1>5
      <4>2. StepsUp(level, n, index, path, r)
        BY <4>1, PathStepsUp
      <4> QED
        BY ONLY <3>4, <4>2 DEF StepsUp
    <3>6. /\ Len(path[n]) >= Len(path[r + 1])
          /\ \A k \in 1..Len(path[r + 1]) : path[n][k] = path[r + 1][k]
      <4>1. r + 1 \in Nat /\ r + 1 >= start /\ n >= r + 1
        BY <1>0, <1>1, <1>5
      <4>2. Keeps(path, r + 1, n)
        BY <1>0, <1>1, <4>1, PathKeeps
      <4> QED
        BY ONLY <4>2 DEF Keeps
    <3>7. Len(path[r]) >= Len(path[start]) /\ Len(path[start]) \in Nat /\ Len(path[n]) \in Nat
      <4>1. start >= start /\ n >= start
        BY <1>0, <1>1
      <4>2. Len(path[r]) >= Len(path[start])
        BY <1>0, <1>1, <1>5, PathsGrow
      <4>3. Len(path[start]) \in Nat /\ Len(path[n]) \in Nat
        BY <1>0, <1>1, <4>1, PathStep
      <4> QED
        BY <4>2, <4>3
    <3>8. proof[Len(path[r]) + 1] = before[r][SiblingOf(m(r)) + 1]
      <4> DEFINE k == Len(path[r]) + 1
      <4>1. k \in (Len(path[start]) + 1)..Len(path[n]) /\ k \in 1..Len(path[r + 1])
        <5>1. \A a, b, c \in Nat : a >= b /\ c >= a + 1 => a + 1 \in (b + 1)..c
          OBVIOUS
        <5>2. Len(path[n]) >= Len(path[r]) + 1
          BY <3>5, <3>6
        <5>3. Len(path[r]) + 1 \in (Len(path[start]) + 1)..Len(path[n])
          BY <3>5, <3>7, <5>1, <5>2
        <5>4. \A a \in Nat : a + 1 \in 1..(a + 1)
          OBVIOUS
        <5>5. Len(path[r]) + 1 \in 1..Len(path[r + 1])
          BY <3>5, <5>4
        <5> QED
          BY <5>3, <5>5
      <4>2. proof[k] = path[n][k] /\ path[n][k] = path[r + 1][k]
        <5> HIDE DEF k
        <5> QED
          BY <3>6, <4>1 DEF Continues
      <4> HIDE DEF m
      <4> QED
        BY <3>2, <3>3, <3>5, <4>2
    <3> HIDE DEF m
    <3>9. node[r + 1] = <<before[r][SiblingOf(m(r)) + 1], before[r][m(r) + 1]>>
      BY <1>5, <2>1, <2>6, <3>8 DEF MerkleInteriorHash
    <3> QED
      BY <2>2, <2>4, <2>6, <3>9
  <2> QED
    BY <2>5, <2>6
<1> HIDE DEF Right
<1>6. 0 \in Rebuilt
  <2>1. start + 0 = start
    BY <1>1
  <2>2. Right(start + 0)
    BY <1>3, <2>1, Zenon
  <2> QED
    BY <2>2
<1>7. ASSUME NEW d \in Nat, d \in Rebuilt PROVE d + 1 \in Rebuilt
  <2> SUFFICES ASSUME start + (d + 1) <= n PROVE Right(start + (d + 1))
    OBVIOUS
  <2>1. /\ start + d \in Nat /\ start + d >= start /\ (start + d) + 1 = start + (d + 1)
        /\ (start + d) + 1 <= n /\ start + d <= n
    BY <1>0, <1>1
  <2>2. Right(start + d)
    BY <1>7, <2>1
  <2>3. Right((start + d) + 1)
    BY <1>5, <2>1, <2>2
  <2> QED
    BY <2>1, <2>3
<1>8. Right(n)
  <2>1. n - start \in Nat /\ start + (n - start) = n /\ n <= n
    BY <1>0, <1>1
  <2>2. n - start \in Rebuilt
    <3> HIDE DEF Rebuilt
    <3> QED
      BY <1>6, <1>7, <2>1, EveryNumber
  <2> QED
    BY <2>1, <2>2
<1>9. m(n) = 0 /\ before[n] = before[old]
  <2>1. m(n) = 0
    BY <1>0, TopOfTheWay
  <2>2. Shifted(old - 1, old) = 0
    BY <1>0, RootIsWhole
  <2>3. n >= old
    BY <1>0
  <2>4. before[n] = before[old]
    BY <1>0, <2>2, <2>3, RootStays
  <2> QED
    BY <2>1, <2>4
<1>10. node[n] = before[n][m(n) + 1]
  BY <1>8 DEF Right
<1>11. 0 + 1 = 1
  OBVIOUS
<1> HIDE DEF m
<1> QED
  BY <1>9, <1>10, <1>11

\* A tree is consistent with itself, and that takes no proof.
LEMMA NothingToProve ==
    ASSUME NEW leaves, Row(leaves), Len(leaves) >= 1
    PROVE  ConsistencyPath(leaves, Len(leaves)) = <<>>
<1> DEFINE n == Len(leaves)
<1>1. n \in Nat
  BY DEF Row
<1>2. PICK path :
         /\ PathOver(leaves, path, StopsAt(leaves, n), StartsWith(leaves), GoesLeft(leaves, n))
         /\ ConsistencyPath(leaves, n) = path[Whole(leaves)]
  BY <1>1, ConsistencyPathOver
<1>3. Whole(leaves) \in Ranges(leaves) /\ Whole(leaves)[1] = 0 /\ Whole(leaves)[2] = n
  BY <1>1 DEF Whole, Ranges
<1>4. Whole(leaves) \in StopsAt(leaves, n) /\ StartsWith(leaves)[Whole(leaves)] = <<>>
  BY <1>3 DEF StopsAt, StartsWith
<1> QED
  BY <1>2, <1>3, <1>4 DEF PathOver

\* A path is empty where it starts when its seed is known, and has the seed when not.
SeedLength(path, start, old) == Len(path[start]) = IF old = TwoTo(start) THEN 0 ELSE 1

\* What a consistency proof is taken apart into, and how long it is.
Taken(given, proof, T, root1, old, start, whole, path) ==
    /\ (proof # <<>> /\ Len(given.rest) = whole) <=> Len(proof) = Len(path[start]) + whole
    /\ Len(proof) = Len(path[start]) + whole =>
          /\ given.rest \in Seq(T) /\ RestOf(given.rest, proof, path, start)
          /\ old # TwoTo(start) => given.node = proof[1]
    /\ old = TwoTo(start) => given.node = root1

LEMMA ProofShape ==
    ASSUME NEW T, NEW proof \in Seq(T), NEW root1, NEW old, NEW N, NEW path, NEW start,
           start = TrailingZeros(old), path[start] \in Seq(N),
           SeedLength(path, start, old),
           NEW whole \in Nat, whole >= 1
    PROVE  Taken(ConsistencySeed(old, root1, proof), proof, T, root1, old, start, whole, path)
<1> DEFINE given == ConsistencySeed(old, root1, proof)
<1>1. CASE old = TwoTo(start)
  <2>1. given.rest = proof /\ given.node = root1 /\ Len(path[start]) = 0
    BY <1>1 DEF ConsistencySeed, SeedLength
  <2>2. Len(proof) = whole => proof # <<>>
    OBVIOUS
  <2>3. /\ Len(proof) = Len(proof) - 0 /\ \A k \in 1..Len(proof) : 0 + k = k
        /\ 0 + whole = whole
    OBVIOUS
  <2>4. RestOf(given.rest, proof, path, start)
    BY <2>1, <2>3 DEF RestOf
  <2> HIDE DEF given
  <2> QED
    BY <1>1, <2>1, <2>2, <2>3, <2>4 DEF given, Taken
<1>2. CASE old # TwoTo(start)
  <2>1. given.rest = Tail(proof) /\ given.node = Head(proof) /\ Len(path[start]) = 1
    BY <1>2 DEF ConsistencySeed, SeedLength
  <2>2. ASSUME proof # <<>>
        PROVE  /\ Tail(proof) \in Seq(T) /\ Len(Tail(proof)) = Len(proof) - 1
               /\ \A k \in 1..Len(Tail(proof)) : Tail(proof)[k] = proof[1 + k]
               /\ Head(proof) = proof[1] /\ Len(proof) \in Nat
    BY <2>2
  <2>3. Len(proof) = 1 + whole => proof # <<>>
    OBVIOUS
  <2>4. ASSUME proof # <<>> PROVE Len(Tail(proof)) = whole <=> Len(proof) = 1 + whole
    <3>1. \A a \in Nat : a - 1 = whole <=> a = 1 + whole
      OBVIOUS
    <3> QED
      BY <2>2, <2>4, <3>1
  <2>5. ASSUME proof # <<>> PROVE RestOf(given.rest, proof, path, start)
    BY <2>1, <2>2, <2>5 DEF RestOf
  <2> HIDE DEF given
  <2> QED
    BY <1>2, <2>1, <2>2, <2>3, <2>4, <2>5 DEF given, Taken
<1> QED
  BY <1>1, <1>2

\* The length of a whole path.
LEMMA PathLength ==
    ASSUME NEW level, NEW size \in Nat, NEW index \in Nat, index < size,
           NEW inner, inner = InnerProofSize(index, size), NEW start \in Nat, start <= inner,
           NEW path, Climbs(level, size, index, start, path),
           path[start] \in Seq(NodesOf(level))
    PROVE  /\ Len(path[size]) = Len(path[start]) + (inner - start) + BorderProofSize(index, size)
           /\ BorderProofSize(index, size) \in Nat
<1>1. inner \in Nat
  BY PathsMeet
<1>2. start \in 0..InnerProofSize(index, size)
  BY <1>1
<1> QED
  BY <1>2, PathLengths

LEMMA FirstKept ==
    ASSUME NEW level, NEW size \in Nat, NEW index \in Nat, index < size, NEW start \in Nat,
           start <= size, NEW path, Climbs(level, size, index, start, path),
           path[start] \in Seq(NodesOf(level)), Len(path[start]) = 1
    PROVE  Len(path[size]) >= 1 /\ path[size][1] = path[start][1]
<1>1. size >= start /\ start >= start
  OBVIOUS
<1>2. Len(path[size]) >= Len(path[start]) /\ \A k \in 1..Len(path[start]) : path[size][k] = path[start][k]
  BY <1>1, PathsKeep
<1>3. 1 \in 1..1
  OBVIOUS
<1> QED
  BY <1>2, <1>3

LEMMA OnlyWhatHolds ==
    ASSUME NEW leaves, Row(leaves), NEW n, n = Len(leaves), n >= 1,
           NEW level, LevelsOf(leaves, level),
           NEW index \in Nat, index < n, NEW start \in Nat, start <= n,
           NEW path, Climbs(level, n, index, start, path), path[start] \in Seq(NodesOf(level)),
           NEW proof, NEW node, Rebuilds(node, proof, n, index, start, path)
    PROVE  node[n] = level[n][1]
              <=> /\ node[start] = level[start][Shifted(index, start) + 1]
                  /\ Continues(proof, path, start, n)
<1>1. n \in Nat /\ n >= start
  BY DEF Row
<1>2. Shifted(index, n) = 0
  BY <1>1, TopOfTheWay
<1>3. 0 + 1 = 1
  OBVIOUS
<1>4. level[n][Shifted(index, n) + 1] = level[n][1]
  BY <1>2, <1>3
<1>5. node[n] = level[n][Shifted(index, n) + 1]
        <=> /\ node[start] = level[start][Shifted(index, start) + 1]
            /\ \A k \in (Len(path[start]) + 1)..Len(path[n]) : proof[k] = path[n][k]
  BY <1>1, OnlyTheSiblings
<1> QED
  BY <1>4, <1>5 DEF Continues

\* The same for an older tree that is smaller.
LEMMA ConsistencyOfOlder ==
    ASSUME NEW S, NEW leaves \in Seq(S), NEW old \in Nat, old >= 1, old < Len(leaves),
           NEW root1, NEW T, NEW proof \in Seq(T)
    PROVE  MerkleRoot(leaves) \in RootFromConsistencyProof(old, Len(leaves), root1, proof)
              <=> /\ root1 = MerkleRoot(SubSeq(leaves, 1, old))
                  /\ proof = ConsistencyPath(leaves, old)
<1> DEFINE n == Len(leaves)
           prefix == SubSeq(leaves, 1, old)
           root == MerkleRoot(leaves)
           oldRoot == MerkleRoot(prefix)
           path == ConsistencyPath(leaves, old)
           start == TrailingZeros(old)
           index == old - 1
           inner == InnerProofSize(index, n)
           whole == (inner - start) + BorderProofSize(index, n)
           given == ConsistencySeed(old, root1, proof)
           side == SubSeq(given.rest, 1, inner - start)
           border == SubSeq(given.rest, inner - start + 1, whole)
           newv == ChainBorderRight(ChainInner(given.node, side, Shifted(index, start)), border)
           oldv == ChainBorderRight(ChainInnerRight(given.node, side, Shifted(index, start)), border)
<1>1. /\ Row(leaves) /\ n \in Nat /\ n >= 1 /\ index \in Nat /\ index < n /\ old < n
  BY DEF Row
<1>2. /\ Row(prefix) /\ Len(prefix) = old /\ \A k \in 1..old : prefix[k] = leaves[k]
  BY DEF Row
<1>3. /\ start \in Nat /\ start < inner /\ inner \in Nat /\ inner <= n /\ start \in 0..inner
  <2>1. start \in Nat /\ start < inner
    <3> HIDE DEF n
    <3> QED
      BY <1>1, StartsInside
  <2>2. inner \in 0..n
    BY <1>1, PathsMeet
  <2> HIDE DEF start, inner, n
  <2> QED
    BY <1>1, <2>1, <2>2
<1>4. PICK level : LevelsOf(leaves, level) /\ root = level[n][1]
  BY <1>1, RootOfLevels
<1>5. PICK before : LevelsOf(prefix, before) /\ oldRoot = before[old][1]
  <2> HIDE DEF prefix
  <2> QED
    BY <1>1, <1>2, RootOfLevels
<1> DEFINE first == level[start][Shifted(index, start) + 1]
<1>6. PICK climb : /\ Climbs(level, n, index, start, climb)
                   /\ climb[start] = IF old = TwoTo(start) THEN <<>> ELSE <<first>>
                   /\ climb[n] = path
  BY <1>1, <1>4, ConsistencyPathClimbs
<1>7. first \in NodesOf(level)
  <2>1. Shifted(index, start) \in Nat
    BY <1>1, <1>3, Shifting
  <2>2. Shifted(index, start) + 1 \in Nat
    BY <2>1
  <2> HIDE DEF start, index
  <2> QED
    BY <1>3, <2>2 DEF NodesOf
<1>8. climb[start] \in Seq(NodesOf(level))
  <2> HIDE DEF start, first
  <2> QED
    BY <1>6, <1>7
<1>17. SeedLength(climb, start, old) /\ Climbs(level, n, index, start, climb) /\ climb[n] = path
  <2> HIDE DEF start, first
  <2> QED
    BY <1>6 DEF SeedLength
<1> HIDE DEF prefix, root, oldRoot, path, first
<1>9. /\ path \in Seq(NodesOf(level)) /\ whole \in Nat /\ whole >= 1
      /\ Len(path) = Len(climb[start]) + whole /\ Len(climb[start]) \in Nat
  <2>1. climb[n] \in Seq(NodesOf(level))
    <3>1. n >= start
      BY <1>1, <1>3
    <3> QED
      BY <1>1, <1>3, <1>17, <1>8, <3>1, PathsGrow
  <2>2. /\ Len(climb[n]) = Len(climb[start]) + (inner - start) + BorderProofSize(index, n)
        /\ BorderProofSize(index, n) \in Nat
    <3>1. start \in Nat /\ start <= inner /\ inner = InnerProofSize(index, n)
      BY <1>3
    <3>2. Climbs(level, n, index, start, climb) /\ n \in Nat /\ index \in Nat /\ index < n
      BY <1>1, <1>17
    <3> HIDE DEF start, index, n, inner
    <3> QED
      BY ONLY <1>8, <3>1, <3>2, PathLength
  <2> DEFINE ones == BorderProofSize(index, n)
             c == Len(climb[start])
  <2>3. c \in Nat
    BY <1>8
  <2>4. whole \in Nat /\ whole >= 1 /\ c + (inner - start) + ones = c + whole
    <3> HIDE DEF ones, c, inner, start
    <3> QED
      BY <1>3, <2>2, <2>3 DEF ones
  <2> QED
    BY <1>6, <2>1, <2>2, <2>3, <2>4
<1>10. /\ (proof # <<>> /\ Len(given.rest) = whole) <=> Len(proof) = Len(path)
       /\ Len(proof) = Len(path) =>
             /\ given.rest \in Seq(T) /\ RestOf(given.rest, proof, climb, start)
             /\ old # TwoTo(start) => given.node = proof[1]
       /\ old = TwoTo(start) => given.node = root1
  <2>1. start = TrailingZeros(old) /\ given = ConsistencySeed(old, root1, proof)
    OBVIOUS
  <2> HIDE DEF whole, start, given
  <2>2. Taken(ConsistencySeed(old, root1, proof), proof, T, root1, old, start, whole, climb)
    BY <1>8, <1>9, <1>17, <2>1, ProofShape
  <2> QED
    BY <1>9, <2>1, <2>2 DEF Taken
<1>11. root \in RootFromConsistencyProof(old, n, root1, proof)
          <=> Len(proof) = Len(path) /\ newv = root /\ oldv = root1
  <2>1. /\ old # n /\ old # 0 /\ ~(n <= old) /\ ~(inner - start < 0)
    BY <1>1, <1>3
  <2>2. RebuiltRoots(old, n, root1, proof) =
           IF proof = <<>> \/ Len(given.rest) # whole THEN {}
           ELSE {[old |-> oldv, new |-> newv]}
    <3> HIDE DEF n
    <3> QED
      BY <2>1 DEF RebuiltRoots
  <2> HIDE DEF newv, oldv, given, whole, n
  <2>3. CASE Len(proof) = Len(path)
    <3>1. RebuiltRoots(old, n, root1, proof) = {[old |-> oldv, new |-> newv]}
      BY <1>10, <2>2, <2>3
    <3>2. root \in RootFromConsistencyProof(old, n, root1, proof)
             <=> \E r \in {[old |-> oldv, new |-> newv]} : r.old = root1 /\ r.new = root
      BY <2>1, <3>1 DEF RootFromConsistencyProof
    <3> QED
      BY <2>3, <3>2
  <2>4. CASE Len(proof) # Len(path)
    <3>1. RebuiltRoots(old, n, root1, proof) = {}
      BY <1>10, <2>2, <2>4
    <3> QED
      BY <2>1, <2>4, <3>1 DEF RootFromConsistencyProof
  <2> QED
    BY <2>3, <2>4
<1>12. ASSUME Len(proof) = Len(path)
       PROVE  newv = root <=> given.node = first /\ Continues(proof, climb, start, n)
  <2>1. /\ given.rest \in Seq(T) /\ RestOf(given.rest, proof, climb, start)
        /\ Len(proof) = Len(climb[n]) /\ Len(given.rest) = whole
    BY <1>6, <1>10, <1>12
  <2>2. PICK node : NewNodes(node, given.node, given.rest, proof, n, index, start, climb)
    <3> HIDE DEF given, start, index, n, whole
    <3> QED
      BY <1>1, <1>3, <1>6, <1>8, <2>1, NewChain DEF n
  <2>3. /\ node[start] = given.node /\ Rebuilds(node, proof, n, index, start, climb)
        /\ node[n] = newv
    <3> HIDE DEF given
    <3> QED
      BY <2>1, <2>2 DEF NewNodes
  <2>4. n = Len(leaves) /\ start <= n /\ first = level[start][Shifted(index, start) + 1]
    <3> HIDE DEF start, inner
    <3> QED
      BY <1>1, <1>3 DEF first
  <2>5. node[n] = level[n][1] <=> node[start] = first /\ Continues(proof, climb, start, n)
    <3> HIDE DEF n, start, index
    <3> QED
      BY <1>1, <1>3, <1>4, <1>17, <1>8, <2>3, <2>4, OnlyWhatHolds
  <2> HIDE DEF newv, given, n, start, index
  <2> QED
    BY <1>4, <2>3, <2>5
<1>13. ASSUME Len(proof) = Len(path), given.node = first, Continues(proof, climb, start, n)
       PROVE  oldv = oldRoot
  <2>1. /\ given.rest \in Seq(T) /\ RestOf(given.rest, proof, climb, start)
        /\ Len(proof) = Len(climb[n]) /\ Len(given.rest) = whole
    BY <1>6, <1>10, <1>13
  <2>2. PICK node : OldNodes(node, given.node, given.rest, proof, n, index, start, climb)
    <3> HIDE DEF given, start, index, n, whole
    <3> QED
      BY <1>1, <1>3, <1>6, <1>8, <2>1, OldChain DEF n
  <2>3. /\ node[start] = first /\ RebuildsOld(node, proof, index, start, climb)
        /\ node[n] = oldv
    <3> HIDE DEF given
    <3> QED
      BY <1>13, <2>1, <2>2 DEF OldNodes
  <2>4. node[n] = before[Len(prefix)][1]
    <3>1. SetsOut(node, level, index, start)
      BY <2>3 DEF first, SetsOut
    <3>2. Begins(prefix, leaves) /\ old = Len(prefix) /\ old >= 1
      BY <1>1, <1>2 DEF Begins
    <3>3. OldAndNew(prefix, leaves, old, n, index, start) /\ Row(prefix) /\ Row(leaves)
      BY <1>1, <1>2, <3>2 DEF OldAndNew
    <3>4. Continues(proof, climb, start, n) /\ RebuildsOld(node, proof, index, start, climb)
      BY <1>13, <2>3
    <3>5. LevelsOf(prefix, before)
      BY <1>5
    <3> HIDE DEF start, index, n
    <3>6. LevelsOf(leaves, level) /\ Climbs(level, n, index, start, climb)
      BY <1>4, <1>17
    <3>7. node[n] = before[old][1]
      BY ONLY <1>8, <3>1, <3>2, <3>3, <3>4, <3>5, <3>6, OldRoot
    <3> QED
      BY <3>2, <3>7
  <2> HIDE DEF oldv
  <2> QED
    BY <1>2, <1>5, <2>3, <2>4
<1>14. old = TwoTo(start) => first = oldRoot
  <2> SUFFICES ASSUME old = TwoTo(start) PROVE first = oldRoot
    OBVIOUS
  <2> DEFINE q == Shifted(old, start)
  <2>1. /\ start \in 0..old /\ q \in Nat /\ q % 2 = 1 /\ old = q * TwoTo(start)
        /\ Shifted(index, start) = q - 1
    BY WhereItStarts
  <2>2. q = 1
    <3> DEFINE d == TwoTo(start)
    <3>1. d \in Nat /\ d >= 1 /\ d = q * d
      BY <1>3, <2>1, PowerPositive
    <3>2. q >= 1
      <4> HIDE DEF q
      <4>1. q # 0
        BY <2>1
      <4> QED
        BY <2>1, <4>1
    <3>3. q - 1 \in Nat
      <4> HIDE DEF q
      <4> QED
        BY <2>1, <3>2
    <3> HIDE DEF q, d
    <3>4. q * d = (q - 1) * d + d
      BY <2>1, <3>1, <3>3
    <3>5. (q - 1) * d = 0
      <4>1. (q - 1) * d \in Nat
        BY <3>1, <3>3
      <4> QED
        BY <3>1, <3>4, <4>1
    <3>6. \A a \in Nat : a >= 1 => a * d >= d
      BY <3>1
    <3> QED
      BY <2>1, <3>1, <3>2, <3>3, <3>5, <3>6
  <2>3. Shifted(index, start) = 0 /\ Shifted(index, start) + 1 = 1
    <3> HIDE DEF q
    <3> QED
      BY <2>1, <2>2
  <2>4. before[start][1] = level[start][1]
    <3>1. 1 \in 1..Shifted(Len(prefix), start)
      BY <1>2, <2>2
    <3> HIDE DEF start, q
    <3> QED
      BY <1>1, <1>2, <1>3, <1>4, <1>5, <3>1, SharedNodes
  <2>5. before[old] = before[start]
    <3>1. Shifted(Len(prefix) - 1, start) = 0 /\ old >= start
      BY <1>2, <2>1, <2>3
    <3> HIDE DEF start
    <3> QED
      BY <1>2, <1>3, <1>5, <3>1, RootStays
  <2> HIDE DEF start, index
  <2> QED
    BY <1>5, <2>3, <2>4, <2>5 DEF first
<1>15. CASE old = TwoTo(start)
  <2>1. given.node = root1 /\ Len(climb[start]) = 0
    BY <1>17, <1>10, <1>15 DEF SeedLength
  <2>2. Len(proof) = Len(path) /\ Continues(proof, climb, start, n) <=> proof = path
    <3>1. Continues(proof, climb, start, n) <=> \A k \in 1..Len(path) : proof[k] = path[k]
      <4>1. (Len(climb[start]) + 1)..Len(climb[n]) = 1..Len(path)
        BY <1>6, <2>1
      <4> HIDE DEF start, n
      <4> QED
        BY <1>6, <4>1 DEF Continues
    <3> QED
      BY <1>9, <3>1, SameSequence
  <2> HIDE DEF newv, oldv, given
  <2> QED
    BY <1>11, <1>12, <1>13, <1>14, <1>15, <2>1, <2>2 DEF root, oldRoot, path, prefix
<1>16. CASE old # TwoTo(start)
  <2>1. /\ Len(climb[start]) = 1 /\ climb[start][1] = first
        /\ Len(proof) = Len(path) => given.node = proof[1]
    <3> HIDE DEF given, start
    <3> QED
      BY <1>6, <1>8, <1>10, <1>16
  <2>2. path[1] = first /\ Len(path) >= 1 /\ Len(path) \in Nat
    <3>1. Len(climb[n]) >= 1 /\ climb[n][1] = climb[start][1]
      <4>1. start <= n
        <5> HIDE DEF start, n, inner
        <5> QED
          BY <1>1, <1>3
      <4> HIDE DEF start, n, index
      <4> QED
        BY <1>1, <1>3, <1>17, <1>8, <2>1, <4>1, FirstKept
    <3> HIDE DEF start, n
    <3> QED
      BY <1>6, <1>9, <2>1, <3>1
  <2>3. Len(proof) = Len(path) /\ proof[1] = first /\ Continues(proof, climb, start, n) <=> proof = path
    <3>1. Continues(proof, climb, start, n) <=> \A k \in 2..Len(path) : proof[k] = path[k]
      <4>1. (Len(climb[start]) + 1)..Len(climb[n]) = 2..Len(path)
        <5>1. 1 + 1 = 2
          OBVIOUS
        <5> HIDE DEF start, n
        <5> QED
          BY <1>6, <2>1, <5>1
      <4> HIDE DEF start, n
      <4> QED
        BY <1>6, <4>1 DEF Continues
    <3>2. \A k \in 1..Len(path) : k = 1 \/ k \in 2..Len(path)
      BY <2>2
    <3>3. ASSUME Len(proof) = Len(path), proof[1] = first, Continues(proof, climb, start, n)
          PROVE  proof = path
      <4>1. \A k \in 1..Len(path) : proof[k] = path[k]
        BY <2>2, <3>1, <3>2, <3>3
      <4> QED
        BY <1>9, <3>3, <4>1, SameSequence
    <3>4. ASSUME proof = path
          PROVE  Len(proof) = Len(path) /\ proof[1] = first /\ Continues(proof, climb, start, n)
      BY <2>2, <3>1, <3>4
    <3> QED
      BY <3>3, <3>4
  <2> HIDE DEF newv, oldv, given
  <2>4. ASSUME Len(proof) = Len(path), newv = root, oldv = root1
        PROVE  root1 = oldRoot /\ proof = path
    BY <1>12, <1>13, <2>1, <2>3, <2>4
  <2>5. ASSUME root1 = oldRoot, proof = path
        PROVE  Len(proof) = Len(path) /\ newv = root /\ oldv = root1
    BY <1>12, <1>13, <2>1, <2>3, <2>5
  <2> QED
    BY <1>11, <2>4, <2>5 DEF root, oldRoot, path, prefix
<1> QED
  BY <1>15, <1>16

\* Two roots are proved consistent exactly when the older is a root of the same history,
\* by the one consistency path RFC 6962 gives; a proof that ends in the newer root but
\* starts from another history is refused (root_from_consistency_proof).
THEOREM ConsistencyIsOneHistory ==
    ASSUME NEW S, NEW leaves \in Seq(S), NEW old \in 1..Len(leaves), NEW root1,
           NEW T, NEW proof \in Seq(T)
    PROVE  MerkleRoot(leaves) \in RootFromConsistencyProof(old, Len(leaves), root1, proof)
              <=> /\ root1 = MerkleRoot(SubSeq(leaves, 1, old))
                  /\ proof = ConsistencyPath(leaves, old)
<1> DEFINE n == Len(leaves)
<1>1. n \in Nat /\ old \in Nat /\ old >= 1 /\ old <= n /\ Row(leaves)
  BY DEF Row
<1>2. CASE old < n
  BY <1>1, <1>2, ConsistencyOfOlder
<1>3. CASE old = n
  <2>1. SubSeq(leaves, 1, n) = leaves
    OBVIOUS
  <2>2. ConsistencyPath(leaves, n) = <<>>
    BY <1>1, <1>3, NothingToProve
  <2>3. RootFromConsistencyProof(old, n, root1, proof) = IF proof = <<>> THEN {root1} ELSE {}
    BY <1>3 DEF RootFromConsistencyProof
  <2> HIDE DEF n
  <2> QED
    BY <1>3, <2>1, <2>2, <2>3 DEF n
<1> QED
  BY <1>1, <1>2, <1>3

-----------------------------------------------------------------------------
(* What any proof at all leads to.                                            *)

\* What a proof makes of a leaf, one sibling after the other.
Folds(node, leaf, proof) ==
    /\ node[0] = leaf
    /\ \A i \in 1..Len(proof) : \/ node[i] = <<node[i - 1], proof[i]>>
                                \/ node[i] = <<proof[i], node[i - 1]>>

\* Whatever index and size a proof is presented with, it folds the leaf into the root.
LEMMA EveryProofFolds ==
    ASSUME NEW T, NEW proof \in Seq(T), NEW index \in Nat, NEW size \in Nat, NEW leaf, NEW root,
           root \in RootFromInclusionProof(index, size, leaf, proof)
    PROVE  \E node : Folds(node, leaf, proof) /\ node[Len(proof)] = root
<1> DEFINE inner == InnerProofSize(index, size)
           border == BorderProofSize(index, size)
           side == SubSeq(proof, 1, inner)
           rest == SubSeq(proof, inner + 1, inner + border)
           P == Len(proof)
<1>1. /\ index < size /\ P = inner + border
      /\ root = ChainBorderRight(ChainInner(leaf, side, index), rest)
  <2>1. ~(size = 0 \/ index >= size) /\ P = inner + border
    BY DEF RootFromInclusionProof
  <2>2. RootFromInclusionProof(index, size, leaf, proof) =
           {ChainBorderRight(ChainInner(leaf, side, index), rest)}
    BY <2>1 DEF RootFromInclusionProof
  <2> HIDE DEF inner, border, side, rest
  <2> QED
    BY <2>1, <2>2
<1>2. inner \in Nat /\ border \in Nat
  <2>1. inner \in Nat
    BY <1>1, PathsMeet
  <2>2. Shifted(index, inner) \in Nat
    BY <2>1, Shifting
  <2>3. border \in Nat
    BY <2>2, OnesOfHalf DEF BorderProofSize
  <2> QED
    BY <2>1, <2>3
<1> HIDE DEF inner, border
<1>3. /\ side \in Seq(T) /\ Len(side) = inner /\ \A i \in 1..inner : side[i] = proof[i]
      /\ rest \in Seq(T) /\ Len(rest) = border /\ \A i \in 1..border : rest[i] = proof[inner + i]
  <2>1. inner <= P /\ (inner + border) - inner = border
    BY <1>1, <1>2
  <2>2. \A i \in 1..border : (inner + 1) + i - 1 = inner + i
    BY <1>2
  <2>3. side \in Seq(T) /\ Len(side) = inner /\ \A i \in 1..inner : side[i] = proof[i]
    BY <1>2, <2>1
  <2>4. rest \in Seq(T) /\ Len(rest) = border
    BY <1>1, <1>2, <2>1
  <2>5. \A i \in 1..border : rest[i] = proof[inner + i]
    BY <1>1, <1>2, <2>1, <2>2
  <2> QED
    BY <2>3, <2>4, <2>5
<1>4. PICK low : InnerNodes(low, leaf, side, index)
  BY <1>2, <1>3, InnerChain
<1>5. PICK high : BorderNodes(high, low[inner], rest)
  BY <1>2, <1>3, BorderChain
<1> HIDE DEF side, rest
<1>6. /\ low[0] = leaf /\ low[inner] = ChainInner(leaf, side, index) /\ high[0] = low[inner]
      /\ high[border] = root
  BY <1>1, <1>3, <1>4, <1>5 DEF InnerNodes, BorderNodes
<1> DEFINE node == [i \in 0..P |-> IF i <= inner THEN low[i] ELSE high[i - inner]]
<1>7. node[0] = leaf /\ node[P] = root
  <2>1. node[0] = leaf
    <3>1. 0 \in 0..P /\ 0 <= inner
      BY <1>1, <1>2
    <3> QED
      BY <1>6, <3>1
  <2>2. CASE border = 0
    <3>1. P \in 0..P /\ P <= inner /\ P = inner
      BY <1>1, <1>2, <2>2
    <3>2. node[P] = low[inner]
      BY <3>1
    <3> QED
      BY <1>6, <2>1, <2>2, <3>2
  <2>3. CASE border # 0
    <3>1. P \in 0..P /\ ~(P <= inner) /\ P - inner = border
      BY <1>1, <1>2, <2>3
    <3>2. node[P] = high[border]
      BY <3>1
    <3> QED
      BY <1>6, <2>1, <3>2
  <2> HIDE DEF node
  <2> QED
    BY <2>1, <2>2, <2>3
<1>8. ASSUME NEW i \in 1..P
      PROVE  node[i] = <<node[i - 1], proof[i]>> \/ node[i] = <<proof[i], node[i - 1]>>
  <2>1. CASE i <= inner
    <3>1. node[i] = low[i] /\ node[i - 1] = low[i - 1] /\ i \in 1..inner
      BY <1>1, <1>2, <2>1
    <3>2. low[i] = LeftOrRight(index, i, low[i - 1], side[i])
      BY <1>3, <1>4, <3>1 DEF InnerNodes
    <3> HIDE DEF node
    <3> QED
      BY <1>3, <3>1, <3>2 DEF LeftOrRight, MerkleInteriorHash
  <2>2. CASE ~(i <= inner)
    <3> DEFINE j == i - inner
    <3>1. j \in 1..border /\ inner + j = i /\ i \in 0..P /\ (i - 1) \in 0..P
      BY <1>1, <1>2, <2>2
    <3>2. high[j] = <<rest[j], high[j - 1]>>
      BY <1>3, <1>5, <3>1 DEF BorderNodes, MerkleInteriorHash
    <3>3. node[i] = high[j]
      BY <2>2, <3>1
    <3>4. node[i - 1] = high[j - 1]
      <4>1. CASE i - 1 <= inner
        <5>1. i - 1 = inner /\ j - 1 = 0
          BY <1>1, <1>2, <2>2, <4>1
        <5> QED
          BY <1>6, <3>1, <5>1
      <4>2. CASE ~(i - 1 <= inner)
        <5>1. (i - 1) - inner = j - 1
          BY <1>1, <1>2
        <5> QED
          BY <3>1, <4>2, <5>1
      <4> QED
        BY <4>1, <4>2
    <3> HIDE DEF node, j
    <3> QED
      BY <1>3, <3>1, <3>2, <3>3, <3>4
  <2> QED
    BY <2>1, <2>2
<1> HIDE DEF node
<1>9. Folds(node, leaf, proof)
  BY <1>7, <1>8 DEF Folds
<1> QED
  BY <1>7, <1>9

\* The audit path of a leaf, over the ranges the leaf is in.
SingleRanges(leaves) == {r \in Ranges(leaves) : Single(r)}
Nothing(leaves) == [r \in Ranges(leaves) |-> <<>>]
GoesLeftTo(leaves, index) == {r \in Ranges(leaves) : index < Middle(r)}
AuditsOver(leaves, index, path) ==
    PathOver(leaves, path, SingleRanges(leaves), Nothing(leaves), GoesLeftTo(leaves, index))

LEMMA AuditPathOver ==
    ASSUME NEW leaves, Len(leaves) \in Nat, NEW index \in Nat
    PROVE  \E path : AuditsOver(leaves, index, path) /\ AuditPath(leaves, index) = path[Whole(leaves)]
<1> DEFINE R == Ranges(leaves)
           stop == SingleRanges(leaves)
           base == Nothing(leaves)
           left == GoesLeftTo(leaves, index)
           Rec(path) == path = [r \in R |->
                                  IF Single(r) THEN <<>>
                                  ELSE IF index < Middle(r)
                                  THEN Append(path[LeftOf(r)], Subtree(leaves, RightOf(r)))
                                  ELSE Append(path[RightOf(r)], Subtree(leaves, LeftOf(r)))]
<1>1. PICK f : f = [r \in R |-> f[r]] /\ PathOver(leaves, f, stop, base, left)
  <2>1. \A r \in R : Single(r) => r \in stop
    BY DEF SingleRanges
  <2> HIDE DEF stop, base, left
  <2> QED
    BY <2>1, PathsOverRanges
<1>2. Rec(f)
  <2>1. \A r \in R : f[r] = IF Single(r) THEN <<>>
                            ELSE IF index < Middle(r)
                            THEN Append(f[LeftOf(r)], Subtree(leaves, RightOf(r)))
                            ELSE Append(f[RightOf(r)], Subtree(leaves, LeftOf(r)))
    BY <1>1 DEF PathOver, SingleRanges, Nothing, GoesLeftTo
  <2> QED
    BY <1>1, <2>1
<1> DEFINE path == CHOOSE path : Rec(path)
<1>3. Rec(path)
  <2>1. LET h == CHOOSE h : Rec(h) IN Rec(h)
    <3> HIDE DEF Rec
    <3> QED
      BY <1>2, Zenon
  <2> QED
    BY <2>1
<1>4. AuditPath(leaves, index) = path[Whole(leaves)]
  BY DEF AuditPath
<1> HIDE DEF path
<1>5. AuditsOver(leaves, index, path)
  <2>1. \A r \in R : path[r] = IF Single(r) THEN <<>>
                               ELSE IF index < Middle(r)
                               THEN Append(path[LeftOf(r)], Subtree(leaves, RightOf(r)))
                               ELSE Append(path[RightOf(r)], Subtree(leaves, LeftOf(r)))
    BY <1>3
  <2> QED
    BY <2>1 DEF PathOver, AuditsOver, SingleRanges, Nothing, GoesLeftTo
<1> QED
  BY <1>4, <1>5

\* The first i siblings of a proof are the audit path of a leaf in a range, and the leaf
\* is that one.
Proves(proof, i, leaves, leaf, r) ==
    \E k \in (r[1] + 1)..r[2] :
        /\ leaf = leaves[k]
        /\ \A path : AuditsOver(leaves, k - 1, path) => path[r] = SubSeq(proof, 1, i)

\* A node of the tree can only be folded from a leaf below it, by the siblings it has
\* there: a leaf is no interior node, and the halves of an interior node are its own.
LEMMA OnlyFromBelow ==
    ASSUME NEW leaves, Len(leaves) \in Nat, \A k \in 1..Len(leaves) : \E x : leaves[k] = MerkleLeafHash(x),
           NEW leaf, \E y : leaf = MerkleLeafHash(y), NEW T, NEW proof \in Seq(T),
           NEW node, Folds(node, leaf, proof)
    PROVE  \A i \in 0..Len(proof) : \A r \in Ranges(leaves) :
              r[1] < r[2] /\ node[i] = Subtree(leaves, r) => Proves(proof, i, leaves, leaf, r)
<1> DEFINE R == Ranges(leaves)
           Below(i) == \A r \in R : r[1] < r[2] /\ node[i] = Subtree(leaves, r)
                                      => Proves(proof, i, leaves, leaf, r)
           Good == {i \in Nat : i <= Len(proof) => Below(i)}
<1>0. \A r \in R : r[1] \in 0..Len(leaves) /\ r[2] \in 0..Len(leaves)
  BY DEF Ranges
<1>t. /\ \A a, b, c : <<a>> # <<b, c>>
      /\ \A a, b, c, d : <<a, b>> = <<c, d>> => a = c /\ b = d
  OBVIOUS
<1>l. ASSUME NEW r \in R, r[1] < r[2], Single(r)
      PROVE  /\ r[2] \in 1..Len(leaves) /\ r[1] + 1 = r[2] /\ r[2] \in (r[1] + 1)..r[2]
             /\ Subtree(leaves, r) = leaves[r[2]] /\ \E x : leaves[r[2]] = <<x>>
  <2>1. r[2] \in 1..Len(leaves) /\ r[1] + 1 = r[2] /\ r[2] \in (r[1] + 1)..r[2]
    BY <1>0, <1>l DEF Single
  <2>2. Subtree(leaves, r) = leaves[r[2]]
    BY <1>l, SubtreeSplits
  <2> QED
    BY <2>1, <2>2 DEF MerkleLeafHash
<1>s. ASSUME NEW r \in R, ~Single(r)
      PROVE  /\ LeftOf(r) \in R /\ RightOf(r) \in R
             /\ LeftOf(r)[1] = r[1] /\ LeftOf(r)[2] = Middle(r) /\ RightOf(r)[1] = Middle(r)
             /\ RightOf(r)[2] = r[2] /\ Middle(r) \in (r[1] + 1)..(r[2] - 1)
             /\ Subtree(leaves, r) = <<Subtree(leaves, LeftOf(r)), Subtree(leaves, RightOf(r))>>
  <2>1. /\ Middle(r) \in (r[1] + 1)..(r[2] - 1)
        /\ LeftOf(r) = <<r[1], Middle(r)>> /\ RightOf(r) = <<Middle(r), r[2]>>
        /\ LeftOf(r) \in Ranges(leaves) /\ RightOf(r) \in Ranges(leaves)
    BY <1>s, Divided
  <2>2. Subtree(leaves, r) = <<Subtree(leaves, LeftOf(r)), Subtree(leaves, RightOf(r))>>
    BY <1>s, SubtreeSplits
  <2> QED
    BY <2>1, <2>2
<1>1. 0 \in Good
  <2> SUFFICES ASSUME NEW r \in R, r[1] < r[2], node[0] = Subtree(leaves, r)
               PROVE  Proves(proof, 0, leaves, leaf, r)
    OBVIOUS
  <2>1. PICK y : Subtree(leaves, r) = <<y>> /\ leaf = Subtree(leaves, r)
    BY DEF Folds, MerkleLeafHash
  <2>2. Single(r)
    BY <1>s, <1>t, <2>1
  <2>3. leaf = leaves[r[2]] /\ r[2] \in (r[1] + 1)..r[2]
    BY <1>l, <2>1, <2>2
  <2>4. SubSeq(proof, 1, 0) = <<>>
    OBVIOUS
  <2>5. ASSUME NEW path, AuditsOver(leaves, r[2] - 1, path) PROVE path[r] = <<>>
    BY <2>2, <2>5 DEF AuditsOver, PathOver, SingleRanges, Nothing
  <2> QED
    BY <2>3, <2>4, <2>5 DEF Proves
<1>2. ASSUME NEW i \in Nat, i \in Good PROVE i + 1 \in Good
  <2> SUFFICES ASSUME i + 1 <= Len(proof), NEW r \in R, r[1] < r[2],
                      node[i + 1] = Subtree(leaves, r)
               PROVE  Proves(proof, i + 1, leaves, leaf, r)
    OBVIOUS
  <2>1. Below(i) /\ i + 1 \in 1..Len(proof) /\ (i + 1) - 1 = i /\ i <= Len(proof)
    BY <1>2
  <2> HIDE DEF Below
  <2>2. node[i + 1] = <<node[i], proof[i + 1]>> \/ node[i + 1] = <<proof[i + 1], node[i]>>
    BY <2>1 DEF Folds
  <2>3. ~Single(r)
    <3> SUFFICES ASSUME Single(r) PROVE FALSE
      OBVIOUS
    <3>1. PICK x : node[i + 1] = <<x>>
      BY <1>l
    <3> QED
      BY <1>t, <2>2, <3>1
  <2> DEFINE l == LeftOf(r)
             h == RightOf(r)
  <2>4. /\ l \in R /\ h \in R /\ l[1] = r[1] /\ l[2] = Middle(r) /\ h[1] = Middle(r) /\ h[2] = r[2]
        /\ Middle(r) \in (r[1] + 1)..(r[2] - 1) /\ l[1] < l[2] /\ h[1] < h[2]
        /\ Subtree(leaves, r) = <<Subtree(leaves, l), Subtree(leaves, h)>>
        /\ r[1] \in Nat /\ r[2] \in Nat /\ Middle(r) \in Nat
    BY <1>0, <1>s, <2>3
  <2> HIDE DEF l, h
  <2>5. SubSeq(proof, 1, i + 1) = Append(SubSeq(proof, 1, i), proof[i + 1])
    BY <2>1
  <2>6. CASE node[i + 1] = <<node[i], proof[i + 1]>>
    <3>1. node[i] = Subtree(leaves, l) /\ proof[i + 1] = Subtree(leaves, h)
      BY <1>t, <2>4, <2>6
    <3>2. Proves(proof, i, leaves, leaf, l)
      BY <2>1, <2>4, <3>1 DEF Below
    <3>3. PICK k \in (l[1] + 1)..l[2] :
             /\ leaf = leaves[k]
             /\ \A path : AuditsOver(leaves, k - 1, path) => path[l] = SubSeq(proof, 1, i)
      BY <3>2 DEF Proves
    <3>4. k \in (r[1] + 1)..r[2] /\ k - 1 < Middle(r)
      BY <2>4
    <3>5. ASSUME NEW path, AuditsOver(leaves, k - 1, path) PROVE path[r] = SubSeq(proof, 1, i + 1)
      <4>1. path[r] = Append(path[l], Subtree(leaves, h))
        BY <2>3, <3>4, <3>5 DEF AuditsOver, PathOver, SingleRanges, GoesLeftTo, l, h
      <4> QED
        BY <2>5, <3>1, <3>3, <3>5, <4>1
    <3> QED
      BY <3>3, <3>4, <3>5 DEF Proves
  <2>7. CASE node[i + 1] = <<proof[i + 1], node[i]>>
    <3>1. node[i] = Subtree(leaves, h) /\ proof[i + 1] = Subtree(leaves, l)
      BY <1>t, <2>4, <2>7
    <3>2. Proves(proof, i, leaves, leaf, h)
      BY <2>1, <2>4, <3>1 DEF Below
    <3>3. PICK k \in (h[1] + 1)..h[2] :
             /\ leaf = leaves[k]
             /\ \A path : AuditsOver(leaves, k - 1, path) => path[h] = SubSeq(proof, 1, i)
      BY <3>2 DEF Proves
    <3>4. k \in (r[1] + 1)..r[2] /\ ~(k - 1 < Middle(r))
      BY <2>4
    <3>5. ASSUME NEW path, AuditsOver(leaves, k - 1, path) PROVE path[r] = SubSeq(proof, 1, i + 1)
      <4>1. path[r] = Append(path[h], Subtree(leaves, l))
        BY <2>3, <3>4, <3>5 DEF AuditsOver, PathOver, SingleRanges, GoesLeftTo, l, h
      <4> QED
        BY <2>5, <3>1, <3>3, <3>5, <4>1
    <3> QED
      BY <3>3, <3>4, <3>5 DEF Proves
  <2> QED
    BY <2>2, <2>6, <2>7
<1>3. \A i \in Nat : i \in Good
  <2> HIDE DEF Good
  <2> QED
    BY <1>1, <1>2, EveryNumber
<1> HIDE DEF Below
<1>4. \A i \in 0..Len(proof) : Below(i)
  BY <1>3
<1> QED
  BY <1>4 DEF Below

\* root_from_inclusion_proof leads to the root of some leaves only for one of those
\* leaves and by its audit path, whatever index and tree size the proof is presented
\* with: a proof for another tree never reaches this root.
THEOREM InclusionIsSound ==
    ASSUME NEW S, NEW leaves \in Seq(S), \A k \in 1..Len(leaves) : \E x : leaves[k] = MerkleLeafHash(x),
           NEW leaf, \E y : leaf = MerkleLeafHash(y), NEW T, NEW proof \in Seq(T),
           NEW index \in Nat, NEW size \in Nat,
           MerkleRoot(leaves) \in RootFromInclusionProof(index, size, leaf, proof)
    PROVE  \E k \in 1..Len(leaves) : leaf = leaves[k] /\ proof = AuditPath(leaves, k - 1)
<1> DEFINE n == Len(leaves)
           P == Len(proof)
<1>1. n \in Nat /\ P \in Nat
  OBVIOUS
<1>2. PICK node : Folds(node, leaf, proof) /\ node[P] = MerkleRoot(leaves)
  BY EveryProofFolds
<1>3. n # 0
  <2>1. node[P] # <<>>
    <3>1. \A a, b : <<a>> # <<>> /\ <<a, b>> # <<>>
      OBVIOUS
    <3>2. CASE P = 0
      BY <1>2, <3>1, <3>2 DEF Folds, MerkleLeafHash
    <3>3. CASE P # 0
      <4>1. P \in 1..P
        BY <1>1, <3>3
      <4> QED
        BY <1>2, <3>1, <4>1 DEF Folds
    <3> QED
      BY <3>2, <3>3
  <2>2. n = 0 => MerkleRoot(leaves) = <<>>
    <3>1. n = 0 => leaves = <<>>
      OBVIOUS
    <3> QED
      BY <3>1 DEF MerkleRoot, NoRoot
  <2> QED
    BY <1>2, <2>1, <2>2
<1>4. leaves # <<>> /\ n >= 1
  BY <1>1, <1>3
<1>5. node[P] = Subtree(leaves, Whole(leaves))
  BY <1>2, <1>4, RootIsTreeHash DEF TreeHash
<1>6. /\ Whole(leaves) \in Ranges(leaves) /\ Whole(leaves)[1] = 0 /\ Whole(leaves)[2] = n
      /\ Whole(leaves)[1] < Whole(leaves)[2] /\ P \in 0..P
  BY <1>1, <1>4 DEF Whole, Ranges
<1>7. Proves(proof, P, leaves, leaf, Whole(leaves))
  BY <1>1, <1>2, <1>5, <1>6, OnlyFromBelow
<1>8. PICK k \in (0 + 1)..n :
         /\ leaf = leaves[k]
         /\ \A path : AuditsOver(leaves, k - 1, path) => path[Whole(leaves)] = SubSeq(proof, 1, P)
  BY <1>6, <1>7 DEF Proves
<1>9. k \in 1..n /\ k - 1 \in Nat
  BY <1>1
<1>10. PICK path : AuditsOver(leaves, k - 1, path) /\ AuditPath(leaves, k - 1) = path[Whole(leaves)]
  BY <1>1, <1>9, AuditPathOver
<1>11. SubSeq(proof, 1, P) = proof
  OBVIOUS
<1>12. leaf = leaves[k] /\ proof = AuditPath(leaves, k - 1)
  BY <1>8, <1>10, <1>11
<1> QED
  BY <1>9, <1>12
=============================================================================
