------------------------------ MODULE CborProofs ------------------------------
(***************************************************************************)
(* What the canonical encodings promise of every value, however deep it nests. *)
(*                                                                         *)
(* Everything a codec computes is a function of the depth, so each proof is an *)
(* induction over the depth with one step: if it holds of what a value is made *)
(* of, it holds of the value.                                              *)
(*   - An encoding starts with what kind of value it is of and how long that   *)
(*     is: no encoding is the beginning of another.                         *)
(*   - Keys of different encodings have one order, so that one list of entries *)
(*     is sorted: a canonical form, where there is one, is of the value's       *)
(*     meaning alone.                                                      *)
(*   - JSON is made into values that are already canonical, and these show the *)
(*     JSON they were made of.                                             *)
(* With them every kind of caller keeps its promises, and so do all of them    *)
(* together, in Primitives.                                                *)
(***************************************************************************)
EXTENDS Primitives, PrimitiveProofs

LEMMA DepthIsNatural == MaxDepth \in Nat /\ MaxDepth # 0
  BY QuestionsAssumption

LEMMA ValuesUnfold ==
    ASSUME NEW d \in 0..MaxDepth
    PROVE  C!Values[d] = IF d = 0 THEN C!Scalars ELSE C!Scalars \cup C!Containers(C!Values[d - 1])
<1> DEFINE Level(k, below) == IF k = 0 THEN C!Scalars ELSE C!Scalars \cup C!Containers(below)
           Grows(f, m) == f = [k \in 0..m |-> Level(k, IF k = 0 THEN <<>> ELSE f[k - 1])]
           soFar == {m \in Nat : \E f : Grows(f, m)}
<1>0. C!Values = CHOOSE f : Grows(f, MaxDepth)
  BY Zenon DEF C!Values
<1> HIDE DEF Level
<1>1. 0 \in soFar
  <2>1. Grows([k \in 0..0 |-> Level(0, <<>>)], 0)
    OBVIOUS
  <2> QED
    BY <2>1
<1>2. ASSUME NEW m \in Nat, m \in soFar PROVE m + 1 \in soFar
  <2>1. PICK f : Grows(f, m)
    BY <1>2
  <2> DEFINE g == [k \in 0..(m + 1) |-> IF k <= m THEN f[k] ELSE Level(k, f[m])]
  <2>2. ASSUME NEW k \in 0..(m + 1)
        PROVE  g[k] = Level(k, IF k = 0 THEN <<>> ELSE g[k - 1])
    <3>1. CASE k <= m
      <4>1. k \in 0..m /\ g[k] = f[k] /\ (k # 0 => g[k - 1] = f[k - 1])
        BY <3>1
      <4>2. f[k] = Level(k, IF k = 0 THEN <<>> ELSE f[k - 1])
        BY <2>1, <4>1
      <4> QED
        BY <4>1, <4>2
    <3>2. CASE ~(k <= m)
      <4>1. k = m + 1 /\ k # 0 /\ k - 1 = m /\ g[m] = f[m] /\ g[k] = Level(k, f[m])
        BY <3>2
      <4> QED
        BY <4>1
    <3> QED
      BY <3>1, <3>2
  <2>3. Grows(g, m + 1)
    BY <2>2
  <2> HIDE DEF Grows, g
  <2> QED
    BY <2>3
<1>3. \E f : Grows(f, MaxDepth)
  <2>1. Nat \subseteq soFar
    <3> HIDE DEF soFar
    <3> QED
      BY <1>1, <1>2, EveryNumber
  <2>2. MaxDepth \in Nat
    BY DepthIsNatural
  <2> QED
    BY <2>1, <2>2
<1>4. Grows(C!Values, MaxDepth)
  <2> HIDE DEF Grows
  <2> QED
    BY <1>0, <1>3, Zenon
<1> QED
  BY <1>4 DEF Level

LEMMA EncodingsUnfold ==
    ASSUME NEW d \in 0..MaxDepth
    PROVE  C!Encodings[d] = [value \in C!Values[d] |->
                        C!EncodeBy(IF d = 0 THEN <<>> ELSE C!Encodings[d - 1], value)]
<1> DEFINE Level(k, below) == [value \in C!Values[k] |-> C!EncodeBy(below, value)]
           Grows(f, m) == f = [k \in 0..m |-> Level(k, IF k = 0 THEN <<>> ELSE f[k - 1])]
           soFar == {m \in Nat : \E f : Grows(f, m)}
<1>0. C!Encodings = CHOOSE f : Grows(f, MaxDepth)
  BY Zenon DEF C!Encodings
<1> HIDE DEF Level
<1>1. 0 \in soFar
  <2>1. Grows([k \in 0..0 |-> Level(0, <<>>)], 0)
    OBVIOUS
  <2> QED
    BY <2>1
<1>2. ASSUME NEW m \in Nat, m \in soFar PROVE m + 1 \in soFar
  <2>1. PICK f : Grows(f, m)
    BY <1>2
  <2> DEFINE g == [k \in 0..(m + 1) |-> IF k <= m THEN f[k] ELSE Level(k, f[m])]
  <2>2. ASSUME NEW k \in 0..(m + 1)
        PROVE  g[k] = Level(k, IF k = 0 THEN <<>> ELSE g[k - 1])
    <3>1. CASE k <= m
      <4>1. k \in 0..m /\ g[k] = f[k] /\ (k # 0 => g[k - 1] = f[k - 1])
        BY <3>1
      <4>2. f[k] = Level(k, IF k = 0 THEN <<>> ELSE f[k - 1])
        BY <2>1, <4>1
      <4> QED
        BY <4>1, <4>2
    <3>2. CASE ~(k <= m)
      <4>1. k = m + 1 /\ k # 0 /\ k - 1 = m /\ g[m] = f[m] /\ g[k] = Level(k, f[m])
        BY <3>2
      <4> QED
        BY <4>1
    <3> QED
      BY <3>1, <3>2
  <2>3. Grows(g, m + 1)
    BY <2>2
  <2> HIDE DEF Grows, g
  <2> QED
    BY <2>3
<1>3. \E f : Grows(f, MaxDepth)
  <2>1. Nat \subseteq soFar
    <3> HIDE DEF soFar
    <3> QED
      BY <1>1, <1>2, EveryNumber
  <2>2. MaxDepth \in Nat
    BY DepthIsNatural
  <2> QED
    BY <2>1, <2>2
<1>4. Grows(C!Encodings, MaxDepth)
  <2> HIDE DEF Grows
  <2> QED
    BY <1>0, <1>3, Zenon
<1> QED
  BY <1>4 DEF Level

LEMMA CanonicalsUnfold ==
    ASSUME NEW d \in 0..MaxDepth
    PROVE  C!Canonicals[d] = [value \in C!Values[d] |->
                        C!CanonicalizeBy(IF d = 0 THEN <<>> ELSE C!Canonicals[d - 1], value)]
<1> DEFINE Level(k, below) == [value \in C!Values[k] |-> C!CanonicalizeBy(below, value)]
           Grows(f, m) == f = [k \in 0..m |-> Level(k, IF k = 0 THEN <<>> ELSE f[k - 1])]
           soFar == {m \in Nat : \E f : Grows(f, m)}
<1>0. C!Canonicals = CHOOSE f : Grows(f, MaxDepth)
  BY Zenon DEF C!Canonicals
<1> HIDE DEF Level
<1>1. 0 \in soFar
  <2>1. Grows([k \in 0..0 |-> Level(0, <<>>)], 0)
    OBVIOUS
  <2> QED
    BY <2>1
<1>2. ASSUME NEW m \in Nat, m \in soFar PROVE m + 1 \in soFar
  <2>1. PICK f : Grows(f, m)
    BY <1>2
  <2> DEFINE g == [k \in 0..(m + 1) |-> IF k <= m THEN f[k] ELSE Level(k, f[m])]
  <2>2. ASSUME NEW k \in 0..(m + 1)
        PROVE  g[k] = Level(k, IF k = 0 THEN <<>> ELSE g[k - 1])
    <3>1. CASE k <= m
      <4>1. k \in 0..m /\ g[k] = f[k] /\ (k # 0 => g[k - 1] = f[k - 1])
        BY <3>1
      <4>2. f[k] = Level(k, IF k = 0 THEN <<>> ELSE f[k - 1])
        BY <2>1, <4>1
      <4> QED
        BY <4>1, <4>2
    <3>2. CASE ~(k <= m)
      <4>1. k = m + 1 /\ k # 0 /\ k - 1 = m /\ g[m] = f[m] /\ g[k] = Level(k, f[m])
        BY <3>2
      <4> QED
        BY <4>1
    <3> QED
      BY <3>1, <3>2
  <2>3. Grows(g, m + 1)
    BY <2>2
  <2> HIDE DEF Grows, g
  <2> QED
    BY <2>3
<1>3. \E f : Grows(f, MaxDepth)
  <2>1. Nat \subseteq soFar
    <3> HIDE DEF soFar
    <3> QED
      BY <1>1, <1>2, EveryNumber
  <2>2. MaxDepth \in Nat
    BY DepthIsNatural
  <2> QED
    BY <2>1, <2>2
<1>4. Grows(C!Canonicals, MaxDepth)
  <2> HIDE DEF Grows
  <2> QED
    BY <1>0, <1>3, Zenon
<1> QED
  BY <1>4 DEF Level

LEMMA ToJsonsUnfold ==
    ASSUME NEW d \in 0..MaxDepth
    PROVE  C!ToJsons[d] = [value \in C!Values[d] |->
                        C!ToJsonBy(IF d = 0 THEN <<>> ELSE C!ToJsons[d - 1], value)]
<1> DEFINE Level(k, below) == [value \in C!Values[k] |-> C!ToJsonBy(below, value)]
           Grows(f, m) == f = [k \in 0..m |-> Level(k, IF k = 0 THEN <<>> ELSE f[k - 1])]
           soFar == {m \in Nat : \E f : Grows(f, m)}
<1>0. C!ToJsons = CHOOSE f : Grows(f, MaxDepth)
  BY Zenon DEF C!ToJsons
<1> HIDE DEF Level
<1>1. 0 \in soFar
  <2>1. Grows([k \in 0..0 |-> Level(0, <<>>)], 0)
    OBVIOUS
  <2> QED
    BY <2>1
<1>2. ASSUME NEW m \in Nat, m \in soFar PROVE m + 1 \in soFar
  <2>1. PICK f : Grows(f, m)
    BY <1>2
  <2> DEFINE g == [k \in 0..(m + 1) |-> IF k <= m THEN f[k] ELSE Level(k, f[m])]
  <2>2. ASSUME NEW k \in 0..(m + 1)
        PROVE  g[k] = Level(k, IF k = 0 THEN <<>> ELSE g[k - 1])
    <3>1. CASE k <= m
      <4>1. k \in 0..m /\ g[k] = f[k] /\ (k # 0 => g[k - 1] = f[k - 1])
        BY <3>1
      <4>2. f[k] = Level(k, IF k = 0 THEN <<>> ELSE f[k - 1])
        BY <2>1, <4>1
      <4> QED
        BY <4>1, <4>2
    <3>2. CASE ~(k <= m)
      <4>1. k = m + 1 /\ k # 0 /\ k - 1 = m /\ g[m] = f[m] /\ g[k] = Level(k, f[m])
        BY <3>2
      <4> QED
        BY <4>1
    <3> QED
      BY <3>1, <3>2
  <2>3. Grows(g, m + 1)
    BY <2>2
  <2> HIDE DEF Grows, g
  <2> QED
    BY <2>3
<1>3. \E f : Grows(f, MaxDepth)
  <2>1. Nat \subseteq soFar
    <3> HIDE DEF soFar
    <3> QED
      BY <1>1, <1>2, EveryNumber
  <2>2. MaxDepth \in Nat
    BY DepthIsNatural
  <2> QED
    BY <2>1, <2>2
<1>4. Grows(C!ToJsons, MaxDepth)
  <2> HIDE DEF Grows
  <2> QED
    BY <1>0, <1>3, Zenon
<1> QED
  BY <1>4 DEF Level

LEMMA MeaningsUnfold ==
    ASSUME NEW d \in 0..MaxDepth
    PROVE  Meanings[d] = [value \in C!Values[d] |->
                        MeaningBy(IF d = 0 THEN <<>> ELSE Meanings[d - 1], value)]
<1> DEFINE Level(k, below) == [value \in C!Values[k] |-> MeaningBy(below, value)]
           Grows(f, m) == f = [k \in 0..m |-> Level(k, IF k = 0 THEN <<>> ELSE f[k - 1])]
           soFar == {m \in Nat : \E f : Grows(f, m)}
<1>0. Meanings = CHOOSE f : Grows(f, MaxDepth)
  BY Zenon DEF Meanings
<1> HIDE DEF Level
<1>1. 0 \in soFar
  <2>1. Grows([k \in 0..0 |-> Level(0, <<>>)], 0)
    OBVIOUS
  <2> QED
    BY <2>1
<1>2. ASSUME NEW m \in Nat, m \in soFar PROVE m + 1 \in soFar
  <2>1. PICK f : Grows(f, m)
    BY <1>2
  <2> DEFINE g == [k \in 0..(m + 1) |-> IF k <= m THEN f[k] ELSE Level(k, f[m])]
  <2>2. ASSUME NEW k \in 0..(m + 1)
        PROVE  g[k] = Level(k, IF k = 0 THEN <<>> ELSE g[k - 1])
    <3>1. CASE k <= m
      <4>1. k \in 0..m /\ g[k] = f[k] /\ (k # 0 => g[k - 1] = f[k - 1])
        BY <3>1
      <4>2. f[k] = Level(k, IF k = 0 THEN <<>> ELSE f[k - 1])
        BY <2>1, <4>1
      <4> QED
        BY <4>1, <4>2
    <3>2. CASE ~(k <= m)
      <4>1. k = m + 1 /\ k # 0 /\ k - 1 = m /\ g[m] = f[m] /\ g[k] = Level(k, f[m])
        BY <3>2
      <4> QED
        BY <4>1
    <3> QED
      BY <3>1, <3>2
  <2>3. Grows(g, m + 1)
    BY <2>2
  <2> HIDE DEF Grows, g
  <2> QED
    BY <2>3
<1>3. \E f : Grows(f, MaxDepth)
  <2>1. Nat \subseteq soFar
    <3> HIDE DEF soFar
    <3> QED
      BY <1>1, <1>2, EveryNumber
  <2>2. MaxDepth \in Nat
    BY DepthIsNatural
  <2> QED
    BY <2>1, <2>2
<1>4. Grows(Meanings, MaxDepth)
  <2> HIDE DEF Grows
  <2> QED
    BY <1>0, <1>3, Zenon
<1> QED
  BY <1>4 DEF Level

LEMMA UnambiguitiesUnfold ==
    ASSUME NEW d \in 0..MaxDepth
    PROVE  Unambiguities[d] = [value \in C!Values[d] |->
                        UnambiguousBy(IF d = 0 THEN <<>> ELSE Unambiguities[d - 1], value)]
<1> DEFINE Level(k, below) == [value \in C!Values[k] |-> UnambiguousBy(below, value)]
           Grows(f, m) == f = [k \in 0..m |-> Level(k, IF k = 0 THEN <<>> ELSE f[k - 1])]
           soFar == {m \in Nat : \E f : Grows(f, m)}
<1>0. Unambiguities = CHOOSE f : Grows(f, MaxDepth)
  BY Zenon DEF Unambiguities
<1> HIDE DEF Level
<1>1. 0 \in soFar
  <2>1. Grows([k \in 0..0 |-> Level(0, <<>>)], 0)
    OBVIOUS
  <2> QED
    BY <2>1
<1>2. ASSUME NEW m \in Nat, m \in soFar PROVE m + 1 \in soFar
  <2>1. PICK f : Grows(f, m)
    BY <1>2
  <2> DEFINE g == [k \in 0..(m + 1) |-> IF k <= m THEN f[k] ELSE Level(k, f[m])]
  <2>2. ASSUME NEW k \in 0..(m + 1)
        PROVE  g[k] = Level(k, IF k = 0 THEN <<>> ELSE g[k - 1])
    <3>1. CASE k <= m
      <4>1. k \in 0..m /\ g[k] = f[k] /\ (k # 0 => g[k - 1] = f[k - 1])
        BY <3>1
      <4>2. f[k] = Level(k, IF k = 0 THEN <<>> ELSE f[k - 1])
        BY <2>1, <4>1
      <4> QED
        BY <4>1, <4>2
    <3>2. CASE ~(k <= m)
      <4>1. k = m + 1 /\ k # 0 /\ k - 1 = m /\ g[m] = f[m] /\ g[k] = Level(k, f[m])
        BY <3>2
      <4> QED
        BY <4>1
    <3> QED
      BY <3>1, <3>2
  <2>3. Grows(g, m + 1)
    BY <2>2
  <2> HIDE DEF Grows, g
  <2> QED
    BY <2>3
<1>3. \E f : Grows(f, MaxDepth)
  <2>1. Nat \subseteq soFar
    <3> HIDE DEF soFar
    <3> QED
      BY <1>1, <1>2, EveryNumber
  <2>2. MaxDepth \in Nat
    BY DepthIsNatural
  <2> QED
    BY <2>1, <2>2
<1>4. Grows(Unambiguities, MaxDepth)
  <2> HIDE DEF Grows
  <2> QED
    BY <1>0, <1>3, Zenon
<1> QED
  BY <1>4 DEF Level

LEMMA JsonsUnfold ==
    ASSUME NEW d \in 0..MaxDepth
    PROVE  C!Jsons[d] = IF d = 0 THEN C!JsonScalars
                        ELSE C!JsonScalars \cup [json : {"array"}, items : C!Lists(C!Jsons[d - 1])]
                             \cup [json : {"object"}, fields : C!Objects(C!Jsons[d - 1])]
<1> DEFINE Level(k, below) == IF k = 0 THEN C!JsonScalars
                              ELSE C!JsonScalars \cup [json : {"array"}, items : C!Lists(below)]
                                   \cup [json : {"object"}, fields : C!Objects(below)]
           Grows(f, m) == f = [k \in 0..m |-> Level(k, IF k = 0 THEN <<>> ELSE f[k - 1])]
           soFar == {m \in Nat : \E f : Grows(f, m)}
<1>0. C!Jsons = CHOOSE f : Grows(f, MaxDepth)
  BY Zenon DEF C!Jsons
<1> HIDE DEF Level
<1>1. 0 \in soFar
  <2>1. Grows([k \in 0..0 |-> Level(0, <<>>)], 0)
    OBVIOUS
  <2> QED
    BY <2>1
<1>2. ASSUME NEW m \in Nat, m \in soFar PROVE m + 1 \in soFar
  <2>1. PICK f : Grows(f, m)
    BY <1>2
  <2> DEFINE g == [k \in 0..(m + 1) |-> IF k <= m THEN f[k] ELSE Level(k, f[m])]
  <2>2. ASSUME NEW k \in 0..(m + 1)
        PROVE  g[k] = Level(k, IF k = 0 THEN <<>> ELSE g[k - 1])
    <3>1. CASE k <= m
      <4>1. k \in 0..m /\ g[k] = f[k] /\ (k # 0 => g[k - 1] = f[k - 1])
        BY <3>1
      <4>2. f[k] = Level(k, IF k = 0 THEN <<>> ELSE f[k - 1])
        BY <2>1, <4>1
      <4> QED
        BY <4>1, <4>2
    <3>2. CASE ~(k <= m)
      <4>1. k = m + 1 /\ k # 0 /\ k - 1 = m /\ g[m] = f[m] /\ g[k] = Level(k, f[m])
        BY <3>2
      <4> QED
        BY <4>1
    <3> QED
      BY <3>1, <3>2
  <2>3. Grows(g, m + 1)
    BY <2>2
  <2> HIDE DEF Grows, g
  <2> QED
    BY <2>3
<1>3. \E f : Grows(f, MaxDepth)
  <2>1. Nat \subseteq soFar
    <3> HIDE DEF soFar
    <3> QED
      BY <1>1, <1>2, EveryNumber
  <2>2. MaxDepth \in Nat
    BY DepthIsNatural
  <2> QED
    BY <2>1, <2>2
<1>4. Grows(C!Jsons, MaxDepth)
  <2> HIDE DEF Grows
  <2> QED
    BY <1>0, <1>3, Zenon
<1> QED
  BY <1>4 DEF Level

LEMMA FromJsonsUnfold ==
    ASSUME NEW tags, NEW d \in 0..MaxDepth
    PROVE  C!FromJsons(tags)[d] =
               [json \in C!Jsons[d] |-> [path \in Seq(C!Strings) |->
                   C!FromJsonBy(IF d = 0 THEN <<>> ELSE C!FromJsons(tags)[d - 1], json, path, tags)]]
<1> DEFINE Level(k, below) == [json \in C!Jsons[k] |-> [path \in Seq(C!Strings) |->
                                   C!FromJsonBy(below, json, path, tags)]]
           Grows(f, m) == f = [k \in 0..m |-> Level(k, IF k = 0 THEN <<>> ELSE f[k - 1])]
           soFar == {m \in Nat : \E f : Grows(f, m)}
<1>0. C!FromJsons(tags) = CHOOSE f : Grows(f, MaxDepth)
  BY Zenon DEF C!FromJsons
<1> HIDE DEF Level
<1>1. 0 \in soFar
  <2>1. Grows([k \in 0..0 |-> Level(0, <<>>)], 0)
    OBVIOUS
  <2> QED
    BY <2>1
<1>2. ASSUME NEW m \in Nat, m \in soFar PROVE m + 1 \in soFar
  <2>1. PICK f : Grows(f, m)
    BY <1>2
  <2> DEFINE g == [k \in 0..(m + 1) |-> IF k <= m THEN f[k] ELSE Level(k, f[m])]
  <2>2. ASSUME NEW k \in 0..(m + 1)
        PROVE  g[k] = Level(k, IF k = 0 THEN <<>> ELSE g[k - 1])
    <3>1. CASE k <= m
      <4>1. k \in 0..m /\ g[k] = f[k] /\ (k # 0 => g[k - 1] = f[k - 1])
        BY <3>1
      <4>2. f[k] = Level(k, IF k = 0 THEN <<>> ELSE f[k - 1])
        BY <2>1, <4>1
      <4> QED
        BY <4>1, <4>2
    <3>2. CASE ~(k <= m)
      <4>1. k = m + 1 /\ k # 0 /\ k - 1 = m /\ g[m] = f[m] /\ g[k] = Level(k, f[m])
        BY <3>2
      <4> QED
        BY <4>1
    <3> QED
      BY <3>1, <3>2
  <2>3. Grows(g, m + 1)
    BY <2>2
  <2> HIDE DEF Grows, g
  <2> QED
    BY <2>3
<1>3. \E f : Grows(f, MaxDepth)
  <2>1. Nat \subseteq soFar
    <3> HIDE DEF soFar
    <3> QED
      BY <1>1, <1>2, EveryNumber
  <2>2. MaxDepth \in Nat
    BY DepthIsNatural
  <2> QED
    BY <2>1, <2>2
<1>4. Grows(C!FromJsons(tags), MaxDepth)
  <2> HIDE DEF Grows
  <2> QED
    BY <1>0, <1>3, Zenon
<1> QED
  BY <1>4 DEF Level

LEMMA ShiftedUnfold ==
    ASSUME NEW n, NEW d \in 0..8
    PROVE  C!Shifted(n)[d] = IF d = 0 THEN n ELSE C!Shifted(n)[d - 1] \div 256
<1> DEFINE Level(k, below) == IF k = 0 THEN n ELSE below \div 256
           Grows(f, m) == f = [k \in 0..m |-> Level(k, IF k = 0 THEN <<>> ELSE f[k - 1])]
           soFar == {m \in Nat : \E f : Grows(f, m)}
<1>0. C!Shifted(n) = CHOOSE f : Grows(f, 8)
  BY DEF C!Shifted
<1> HIDE DEF Level
<1>1. 0 \in soFar
  <2>1. Grows([k \in 0..0 |-> Level(0, <<>>)], 0)
    OBVIOUS
  <2> QED
    BY <2>1
<1>2. ASSUME NEW m \in Nat, m \in soFar PROVE m + 1 \in soFar
  <2>1. PICK f : Grows(f, m)
    BY <1>2
  <2> DEFINE g == [k \in 0..(m + 1) |-> IF k <= m THEN f[k] ELSE Level(k, f[m])]
  <2>2. ASSUME NEW k \in 0..(m + 1)
        PROVE  g[k] = Level(k, IF k = 0 THEN <<>> ELSE g[k - 1])
    <3>1. CASE k <= m
      <4>1. k \in 0..m /\ g[k] = f[k] /\ (k # 0 => g[k - 1] = f[k - 1])
        BY <3>1
      <4>2. f[k] = Level(k, IF k = 0 THEN <<>> ELSE f[k - 1])
        BY <2>1, <4>1
      <4> QED
        BY <4>1, <4>2
    <3>2. CASE ~(k <= m)
      <4>1. k = m + 1 /\ k # 0 /\ k - 1 = m /\ g[m] = f[m] /\ g[k] = Level(k, f[m])
        BY <3>2
      <4> QED
        BY <4>1
    <3> QED
      BY <3>1, <3>2
  <2>3. Grows(g, m + 1)
    BY <2>2
  <2> HIDE DEF Grows, g
  <2> QED
    BY <2>3
<1>3. \E f : Grows(f, 8)
  <2>1. Nat \subseteq soFar
    <3> HIDE DEF soFar
    <3> QED
      BY <1>1, <1>2, EveryNumber
  <2>2. 8 \in Nat
    BY SMT
  <2> QED
    BY <2>1, <2>2
<1>4. Grows(C!Shifted(n), 8)
  <2> HIDE DEF Grows
  <2> QED
    BY <1>0, <1>3, Zenon
<1> QED
  BY <1>4 DEF Level

-----------------------------------------------------------------------------
(* Numbers: the bytes of a number say which it is.                            *)

LEMMA ShiftedNumbers ==
    ASSUME NEW n \in Nat
    PROVE  /\ \A d \in 0..8 : C!Shifted(n)[d] \in Nat
           /\ C!Shifted(n)[0] = n
           /\ \A d \in 1..8 : C!Shifted(n)[d] = C!Shifted(n)[d - 1] \div 256
<1> DEFINE T == {d \in Nat : d \in 0..8 => C!Shifted(n)[d] \in Nat}
<1>0. C!Shifted(n)[0] = n
  BY ShiftedUnfold
<1>1. ASSUME NEW d \in 1..8 PROVE C!Shifted(n)[d] = C!Shifted(n)[d - 1] \div 256
  BY ShiftedUnfold
<1>2. 0 \in T
  BY <1>0
<1>3. ASSUME NEW d \in Nat, d \in T PROVE d + 1 \in T
  <2> SUFFICES ASSUME d + 1 \in 0..8 PROVE C!Shifted(n)[d + 1] \in Nat
    OBVIOUS
  <2>1. d \in 0..8 /\ d + 1 \in 1..8 /\ (d + 1) - 1 = d
    OBVIOUS
  <2>2. C!Shifted(n)[d] \in Nat
    BY <1>3, <2>1
  <2>3. C!Shifted(n)[d + 1] = C!Shifted(n)[d] \div 256
    BY <1>1, <2>1
  <2> DEFINE x == C!Shifted(n)[d]
  <2> HIDE DEF x
  <2>4. x \in Nat => x \div 256 \in Nat
    OBVIOUS
  <2> QED
    BY <2>2, <2>3, <2>4 DEF x
<1>4. Nat \subseteq T
  <2> HIDE DEF T
  <2> QED
    BY <1>2, <1>3, EveryNumber
<1> QED
  BY <1>0, <1>1, <1>4

LEMMA BigEndianBytes ==
    ASSUME NEW n \in Nat, NEW width \in 0..8
    PROVE  /\ C!BigEndian(n, width) \in Seq(C!Byte) /\ Len(C!BigEndian(n, width)) = width
           /\ \A i \in 1..width : C!BigEndian(n, width)[i] = C!Shifted(n)[width - i] % 256
<1>1. ASSUME NEW i \in 1..width PROVE C!Shifted(n)[width - i] % 256 \in C!Byte
  <2> DEFINE d == width - i
             x == C!Shifted(n)[d]
  <2>0. d \in 0..8
    OBVIOUS
  <2> HIDE DEF d
  <2>1. x \in Nat
    BY <2>0, ShiftedNumbers
  <2> HIDE DEF x
  <2>2. x % 256 \in C!Byte
    BY <2>1 DEF C!Byte
  <2> QED
    BY <2>2 DEF x, d
<1>2. C!BigEndian(n, width) = [i \in 1..width |-> C!Shifted(n)[width - i] % 256]
  BY DEF C!BigEndian
<1> QED
  BY <1>1, <1>2

LEMMA NumberOfBytes ==
    ASSUME NEW n \in Nat, NEW q \in Nat, NEW width \in 0..8, C!Fits(n, width), C!Fits(q, width),
           \A i \in 1..width : C!BigEndian(n, width)[i] = C!BigEndian(q, width)[i]
    PROVE  n = q
<1> DEFINE a == C!Shifted(n) b == C!Shifted(q)
           T == {j \in Nat : j <= width => a[width - j] = b[width - j]}
<1>0. /\ \A d \in 0..8 : a[d] \in Nat /\ b[d] \in Nat
      /\ a[0] = n /\ b[0] = q
      /\ \A d \in 1..8 : a[d] = a[d - 1] \div 256 /\ b[d] = b[d - 1] \div 256
  BY ShiftedNumbers
<1>1. a[width] = 0 /\ b[width] = 0
  BY DEF C!Fits
<1>2. \A i \in 1..width : a[width - i] % 256 = b[width - i] % 256
  <2> SUFFICES ASSUME NEW i \in 1..width PROVE a[width - i] % 256 = b[width - i] % 256
    OBVIOUS
  <2>1. C!BigEndian(n, width)[i] = a[width - i] % 256
    BY BigEndianBytes, ZenonT(40)
  <2>2. C!BigEndian(q, width)[i] = b[width - i] % 256
    BY BigEndianBytes, ZenonT(40)
  <2> QED
    BY <2>1, <2>2
<1> HIDE DEF a, b
<1>3. 0 \in T
  BY <1>1
<1>4. ASSUME NEW j \in Nat, j \in T PROVE j + 1 \in T
  <2> SUFFICES ASSUME j + 1 <= width PROVE a[width - (j + 1)] = b[width - (j + 1)]
    OBVIOUS
  <2> DEFINE d == width - j
  <2>1. d \in 1..8 /\ d - 1 = width - (j + 1) /\ d - 1 \in 0..8 /\ j + 1 \in 1..width
    OBVIOUS
  <2>2. a[d] = b[d]
    BY <1>4
  <2>3. a[d - 1] \div 256 = b[d - 1] \div 256
    BY <1>0, <2>1, <2>2
  <2>4. a[d - 1] % 256 = b[d - 1] % 256
    BY <1>2, <2>1
  <2>5. a[d - 1] \in Nat /\ b[d - 1] \in Nat
    BY <1>0, <2>1
  <2>6. \A x, y \in Nat : x \div 256 = y \div 256 /\ x % 256 = y % 256 => x = y
    OBVIOUS
  <2> QED
    BY <2>1, <2>3, <2>4, <2>5, <2>6
<1>5. Nat \subseteq T
  <2> HIDE DEF T
  <2> QED
    BY <1>3, <1>4, EveryNumber
<1>6. a[width - width] = b[width - width]
  <2>1. width \in T
    BY <1>5
  <2> QED
    BY <2>1
<1> QED
  BY <1>0, <1>6

-----------------------------------------------------------------------------
(* Heads.  A first byte says the major type and the width of the number.       *)

\* How many bytes of a number follow a first byte with these low bits.
Follow(low) == CASE low = 24 -> 1 [] low = 25 -> 2 [] low = 26 -> 4 [] low = 27 -> 8 [] OTHER -> 0

Headed(head, major, low, n) ==
    /\ Len(head) = 1 + Follow(low) /\ head[1] = 32 * major + low
    /\ \A i \in 1..Follow(low) : head[1 + i] = C!BigEndian(n, Follow(low))[i]
    /\ IF low < 24 THEN low = n ELSE C!Fits(n, Follow(low))

LEMMA MajorLenIsHeaded ==
    ASSUME NEW major \in 0..6, NEW n \in C!U64
    PROVE  /\ C!MajorLen(major, n) \in Seq(C!Byte)
           /\ \E low \in 0..27 : Headed(C!MajorLen(major, n), major, low, n)
<1> DEFINE head == C!MajorLen(major, n)
<1>0. n \in Nat /\ C!Fits(n, 8)
  BY DEF C!U64
<1>1. CASE n < 24
  <2>1. head = <<32 * major + n>>
    BY <1>1 DEF C!MajorLen
  <2>2. 32 * major + n \in C!Byte /\ n \in 0..27 /\ Follow(n) = 0
    BY <1>0, <1>1 DEF C!Byte, Follow
  <2>3. Headed(head, major, n, n)
    <3> HIDE DEF head
    <3> QED
      BY <1>1, <2>1, <2>2 DEF Headed
  <2> QED
    BY <2>1, <2>2, <2>3
<1>2. ASSUME NEW low \in 24..27, head = <<32 * major + low>> \o C!BigEndian(n, Follow(low)),
             C!Fits(n, Follow(low))
      PROVE  head \in Seq(C!Byte) /\ Headed(head, major, low, n)
  <2> DEFINE w == Follow(low) tail == C!BigEndian(n, w)
  <2>1. w \in 0..8
    BY DEF Follow
  <2>2. tail \in Seq(C!Byte) /\ Len(tail) = w
    BY <1>0, <2>1, BigEndianBytes
  <2>3. 32 * major + low \in C!Byte
    BY DEF C!Byte
  <2>4. head = <<32 * major + low>> \o tail
    BY <1>2
  <2> HIDE DEF w, tail, head
  <2>5. /\ head \in Seq(C!Byte) /\ Len(head) = 1 + w /\ head[1] = 32 * major + low
        /\ \A i \in 1..w : head[1 + i] = tail[i]
    BY <2>1, <2>2, <2>3, <2>4
  <2>6. ~(low < 24) /\ C!Fits(n, w)
    BY <1>2 DEF w
  <2> QED
    BY <2>5, <2>6, Zenon DEF Headed, w, tail
<1>3. CASE ~(n < 24)
  <2>0. Follow(24) = 1 /\ Follow(25) = 2 /\ Follow(26) = 4 /\ Follow(27) = 8
    BY DEF Follow
  <2>1. CASE C!Fits(n, 1)
    BY <1>2, <1>3, <2>0, <2>1 DEF C!MajorLen
  <2>2. CASE ~C!Fits(n, 1) /\ C!Fits(n, 2)
    BY <1>2, <1>3, <2>0, <2>2 DEF C!MajorLen
  <2>3. CASE ~C!Fits(n, 1) /\ ~C!Fits(n, 2) /\ C!Fits(n, 4)
    BY <1>2, <1>3, <2>0, <2>3 DEF C!MajorLen
  <2>4. CASE ~C!Fits(n, 1) /\ ~C!Fits(n, 2) /\ ~C!Fits(n, 4)
    BY <1>0, <1>2, <1>3, <2>0, <2>4 DEF C!MajorLen
  <2> QED
    BY <2>1, <2>2, <2>3, <2>4
<1> QED
  BY <1>1, <1>3

LEMMA PlacesOfBoth ==
    ASSUME NEW T, NEW a \in Seq(T), NEW x \in Seq(T)
    PROVE  /\ \A i \in 1..Len(a) : (a \o x)[i] = a[i]
           /\ \A i \in 1..Len(x) : (a \o x)[Len(a) + i] = x[i]
  OBVIOUS

LEMMA SamePlaces ==
    ASSUME NEW T, NEW x \in Seq(T), NEW y \in Seq(T), Len(x) = Len(y), \A i \in 1..Len(x) : x[i] = y[i]
    PROVE  x = y
  OBVIOUS

LEMMA FrontsAlike ==
    ASSUME NEW T, NEW x \in Seq(T), NEW y \in Seq(T), NEW a \in Seq(T), NEW b \in Seq(T), a \o x = b \o y,
           Len(a) = Len(b)
    PROVE  a = b /\ x = y
<1>1. /\ Len(a \o x) = Len(a) + Len(x) /\ Len(b \o y) = Len(b) + Len(y)
      /\ Len(a) \in Nat /\ Len(x) \in Nat /\ Len(y) \in Nat
  OBVIOUS
<1>2. Len(x) = Len(y)
  BY <1>1
<1>3. ASSUME NEW i \in 1..Len(a) PROVE a[i] = b[i]
  <2>1. (a \o x)[i] = a[i]
    BY PlacesOfBoth
  <2>2. (b \o y)[i] = b[i]
    BY PlacesOfBoth
  <2> QED
    BY <2>1, <2>2
<1>4. ASSUME NEW i \in 1..Len(x) PROVE x[i] = y[i]
  <2>1. (a \o x)[Len(a) + i] = x[i]
    BY ONLY x \in Seq(T), a \in Seq(T), i \in 1..Len(x)
  <2>2. (b \o y)[Len(b) + i] = y[i]
    BY <1>2, PlacesOfBoth
  <2> QED
    BY <2>1, <2>2
<1>5. a = b
  BY <1>3, SamePlaces
<1> QED
  BY <1>2, <1>4, <1>5, SamePlaces

\* The same bytes begin with a and with b.
Meet(a, r, b, s) == a \o r = b \o s

HeadSays(head, major, n) == \E low \in 0..27 : Headed(head, major, low, n)

\* Two heads with numbers and what is behind them.
HeadsMeet(a, major, n, x, b, other, q, y) ==
    /\ major \in Nat /\ n \in Nat /\ other \in Nat /\ q \in Nat
    /\ a \in Seq(C!Byte) /\ b \in Seq(C!Byte) /\ x \in Seq(C!Byte) /\ y \in Seq(C!Byte)
    /\ HeadSays(a, major, n) /\ HeadSays(b, other, q) /\ Meet(a, x, b, y)

LEMMA HeadsAlike ==
    ASSUME NEW a, NEW major, NEW n, NEW x, NEW b, NEW other, NEW q, NEW y,
           HeadsMeet(a, major, n, x, b, other, q, y)
    PROVE  major = other /\ n = q /\ a = b /\ x = y
<1> USE DEF HeadsMeet
<1> PICK low \in 0..27 : Headed(a, major, low, n)
  BY DEF HeadSays
<1> PICK its \in 0..27 : Headed(b, other, its, q)
  BY DEF HeadSays
<1>0. a \o x = b \o y
  BY DEF Meet
<1>1. /\ Len(a) = 1 + Follow(low) /\ Len(b) = 1 + Follow(its)
      /\ a[1] = 32 * major + low /\ b[1] = 32 * other + its
      /\ \A i \in 1..Follow(low) : a[1 + i] = C!BigEndian(n, Follow(low))[i]
      /\ \A i \in 1..Follow(its) : b[1 + i] = C!BigEndian(q, Follow(its))[i]
      /\ IF low < 24 THEN low = n ELSE C!Fits(n, Follow(low))
      /\ IF its < 24 THEN its = q ELSE C!Fits(q, Follow(its))
  BY DEF Headed
<1>2. Follow(low) \in 0..8 /\ Follow(its) \in 0..8
  BY DEF Follow
<1>3. (a \o x)[1] = a[1] /\ (b \o y)[1] = b[1]
  <2>0. \A w \in 0..8 : 1 \in 1..(1 + w)
    OBVIOUS
  <2>1. 1 \in 1..Len(a) /\ 1 \in 1..Len(b)
    BY <1>1, <1>2, <2>0, Zenon
  <2> QED
    BY <2>1, PlacesOfBoth
<1>4. major = other /\ low = its
  <2>1. 32 * major + low = 32 * other + its
    BY ONLY <1>0, <1>1, <1>3, Zenon
  <2> QED
    <3>1. \A m, o \in Nat : \A l, i \in 0..27 : 32 * m + l = 32 * o + i => m = o /\ l = i
      OBVIOUS
    <3> QED
      BY <2>1, <3>1
<1> DEFINE w == Follow(low)
<1>5. Len(a) = 1 + w /\ Len(b) = 1 + w /\ w \in 0..8
  BY <1>1, <1>2, <1>4
<1> HIDE DEF w
<1>6. a = b /\ x = y
  BY <1>0, <1>5, FrontsAlike
<1>7. n = q
  <2>1. CASE low < 24
    BY <1>1, <1>4, <2>1
  <2>2. CASE ~(low < 24)
    <3>1. C!Fits(n, w) /\ C!Fits(q, w)
      BY <1>1, <1>4, <2>2 DEF w
    <3>2. \A i \in 1..w : C!BigEndian(n, w)[i] = C!BigEndian(q, w)[i]
      BY <1>1, <1>4, <1>6 DEF w
    <3> QED
      BY <1>5, <3>1, <3>2, NumberOfBytes
  <2> QED
    BY <2>1, <2>2
<1> QED
  BY <1>4, <1>6, <1>7

-----------------------------------------------------------------------------
(* Parts one after another.                                                   *)

LEMMA JoinedGrows ==
    ASSUME NEW T, NEW parts \in Seq(Seq(T))
    PROVE  \E f : /\ f[0] = <<>> /\ C!Joined(parts) = f[Len(parts)]
                  /\ \A k \in 1..Len(parts) : f[k] = f[k - 1] \o parts[k]
                  /\ \A k \in 0..Len(parts) : f[k] \in Seq(T)
<1> DEFINE Grows(f, m) == f = [k \in 0..m |-> IF k = 0 THEN <<>> ELSE f[k - 1] \o parts[k]]
           soFar == {m \in Nat : \E f : Grows(f, m)}
           joined == CHOOSE f : Grows(f, Len(parts))
<1>1. 0 \in soFar
  <2>1. Grows([k \in 0..0 |-> <<>>], 0)
    OBVIOUS
  <2> QED
    BY <2>1
<1>2. ASSUME NEW m \in Nat, m \in soFar PROVE m + 1 \in soFar
  <2>1. PICK f : Grows(f, m)
    BY <1>2
  <2> DEFINE g == [k \in 0..(m + 1) |-> IF k <= m THEN f[k] ELSE f[m] \o parts[m + 1]]
  <2>2. ASSUME NEW k \in 0..(m + 1)
        PROVE  g[k] = IF k = 0 THEN <<>> ELSE g[k - 1] \o parts[k]
    <3>1. CASE k <= m
      <4>1. k \in 0..m /\ g[k] = f[k] /\ (k # 0 => g[k - 1] = f[k - 1])
        BY <3>1
      <4>2. f[k] = IF k = 0 THEN <<>> ELSE f[k - 1] \o parts[k]
        BY <2>1, <4>1
      <4> QED
        BY <4>1, <4>2
    <3>2. CASE ~(k <= m)
      <4>1. k = m + 1 /\ k # 0 /\ k - 1 = m /\ m \in 0..(m + 1) /\ m <= m
        BY <3>2
      <4>2. g[m] = f[m]
        BY <4>1
      <4>3. g[k] = f[m] \o parts[m + 1]
        BY <3>2, Zenon
      <4> QED
        BY ONLY <4>1, <4>2, <4>3, Zenon
    <3> QED
      BY <3>1, <3>2
  <2>3. Grows(g, m + 1)
    BY <2>2
  <2> HIDE DEF Grows, g
  <2> QED
    BY <2>3
<1>3. Len(parts) \in Nat
  OBVIOUS
<1>4. \E f : Grows(f, Len(parts))
  <2>1. Nat \subseteq soFar
    <3> HIDE DEF soFar
    <3> QED
      BY <1>1, <1>2, EveryNumber
  <2> QED
    BY <1>3, <2>1
<1>5. Grows(joined, Len(parts))
  <2> HIDE DEF Grows
  <2> QED
    BY <1>4, Zenon
<1>6. C!Joined(parts) = joined[Len(parts)]
  BY Zenon DEF C!Joined
<1> HIDE DEF joined
<1>7. ASSUME NEW k \in 0..Len(parts)
      PROVE  joined[k] = IF k = 0 THEN <<>> ELSE joined[k - 1] \o parts[k]
  BY <1>5
<1>8. joined[0] = <<>> /\ \A k \in 1..Len(parts) : joined[k] = joined[k - 1] \o parts[k]
  <2>1. 0 \in 0..Len(parts) /\ \A k \in 1..Len(parts) : k \in 0..Len(parts) /\ k # 0
    BY <1>3
  <2> QED
    BY <1>7, <2>1
<1>9. \A k \in 0..Len(parts) : joined[k] \in Seq(T)
  <2> DEFINE U == {k \in Nat : k <= Len(parts) => joined[k] \in Seq(T)}
  <2>1. 0 \in U
    <3>1. joined[0] \in Seq(T)
      BY <1>8
    <3> QED
      BY <3>1
  <2>2. ASSUME NEW k \in Nat, k \in U PROVE k + 1 \in U
    <3> SUFFICES ASSUME k + 1 <= Len(parts) PROVE joined[k + 1] \in Seq(T)
      OBVIOUS
    <3>1. k + 1 \in 1..Len(parts) /\ (k + 1) - 1 = k /\ joined[k] \in Seq(T)
      BY <1>3, <2>2
    <3>2. joined[k + 1] = joined[k] \o parts[k + 1]
      BY ONLY <1>8, <3>1
    <3>3. parts[k + 1] \in Seq(T)
      BY ONLY <3>1, parts \in Seq(Seq(T))
    <3> QED
      BY ONLY <3>1, <3>2, <3>3
  <2>3. Nat \subseteq U
    <3> HIDE DEF U
    <3> QED
      BY <2>1, <2>2, EveryNumber
  <2> QED
    BY <1>3, <2>3
<1> QED
  BY <1>6, <1>8, <1>9

LEMMA JoinedIsOne ==
    ASSUME NEW T, NEW parts \in Seq(Seq(T))
    PROVE  C!Joined(parts) \in Seq(T)
<1>1. Len(parts) \in 0..Len(parts)
  <2>1. Len(parts) \in Nat
    OBVIOUS
  <2> QED
    BY <2>1
<1> QED
  BY <1>1, JoinedGrows

\* Where each part is told from what follows it, all of them are.
LEMMA JoinedAlike ==
    ASSUME NEW T, NEW p \in Seq(Seq(T)), NEW q \in Seq(Seq(T)), Len(p) = Len(q),
           NEW r \in Seq(T), NEW s \in Seq(T), Meet(C!Joined(p), r, C!Joined(q), s),
           \A k \in 1..Len(p) : \A x, y \in Seq(T) : Meet(p[k], x, q[k], y) => p[k] = q[k]
    PROVE  p = q /\ r = s
<1>00. \A a, b, x, y \in Seq(T) : a \o x = b \o y /\ Len(a) = Len(b) => x = y
  BY FrontsAlike
<1> DEFINE n == Len(p) total == C!Joined(p) \o r
<1>1. PICK f : /\ f[0] = <<>> /\ C!Joined(p) = f[n]
               /\ \A k \in 1..n : f[k] = f[k - 1] \o p[k]
               /\ \A k \in 0..n : f[k] \in Seq(T)
  BY JoinedGrows
<1>2. PICK g : /\ g[0] = <<>> /\ C!Joined(q) = g[n]
               /\ \A k \in 1..n : g[k] = g[k - 1] \o q[k]
               /\ \A k \in 0..n : g[k] \in Seq(T)
  BY JoinedGrows
<1>3. n \in Nat /\ total = f[n] \o r /\ total = g[n] \o s
  <2>1. n \in Nat
    OBVIOUS
  <2> QED
    BY <1>1, <1>2, <2>1, Zenon DEF Meet
<1>4. \A k \in 1..n : p[k] \in Seq(T) /\ q[k] \in Seq(T)
  OBVIOUS
<1>5. Len(p) = n /\ Len(q) = n
  OBVIOUS
<1> DEFINE Rests(k) == \E x, y \in Seq(T) : total = f[k] \o x /\ total = g[k] \o y
           D == {j \in Nat : \A k \in 0..n : k + j = n => Rests(k)}
<1> HIDE DEF n, total
<1>6. 0 \in D
  <2>1. ASSUME NEW k \in 0..n, k + 0 = n PROVE k = n
    BY <1>3, <2>1
  <2>2. Rests(n)
    BY <1>3
  <2> QED
    BY <2>1, <2>2
<1>7. ASSUME NEW j \in Nat, j \in D PROVE j + 1 \in D
  <2>j. j + 1 \in Nat
    OBVIOUS
  <2> SUFFICES ASSUME NEW i \in 0..n, i + (j + 1) = n PROVE Rests(i)
    BY <2>j, Zenon
  <2>0. PICK k \in 1..n : k = i + 1 /\ k - 1 = i /\ k + j = n /\ k \in 0..n
    BY <1>3
  <2>1. Rests(k)
    BY <1>7, <2>0
  <2> PICK x \in Seq(T), y \in Seq(T) : total = f[k] \o x /\ total = g[k] \o y
    BY <2>1
  <2>2. /\ f[k] = f[i] \o p[k] /\ f[i] \in Seq(T) /\ p[k] \in Seq(T)
        /\ g[k] = g[i] \o q[k] /\ g[i] \in Seq(T) /\ q[k] \in Seq(T)
    BY <1>1, <1>2, <1>4, <2>0
  <2>3. p[k] \o x \in Seq(T) /\ total = f[i] \o (p[k] \o x)
    <3>1. total = (f[i] \o p[k]) \o x
      BY <2>2
    <3> QED
      <4>0. PICK a \in Seq(T), b \in Seq(T) : a = f[i] /\ b = p[k]
        BY <2>2
      <4>2. b \o x \in Seq(T) /\ (a \o b) \o x = a \o (b \o x)
        BY ONLY a \in Seq(T), b \in Seq(T), x \in Seq(T), SMTT(40)
      <4>1. p[k] \o x \in Seq(T) /\ (f[i] \o p[k]) \o x = f[i] \o (p[k] \o x)
        BY <4>0, <4>2, Zenon
      <4> QED
        BY ONLY <3>1, <4>1, Zenon
  <2>4. q[k] \o y \in Seq(T) /\ total = g[i] \o (q[k] \o y)
    <3>1. total = (g[i] \o q[k]) \o y
      BY <2>2
    <3> QED
      <4>0. PICK a \in Seq(T), b \in Seq(T) : a = g[i] /\ b = q[k]
        BY <2>2
      <4>2. b \o y \in Seq(T) /\ (a \o b) \o y = a \o (b \o y)
        BY ONLY a \in Seq(T), b \in Seq(T), y \in Seq(T), SMTT(40)
      <4>1. q[k] \o y \in Seq(T) /\ (g[i] \o q[k]) \o y = g[i] \o (q[k] \o y)
        BY <4>0, <4>2, Zenon
      <4> QED
        BY ONLY <3>1, <4>1, Zenon
  <2> QED
    BY <2>3, <2>4
<1>8. Nat \subseteq D
  <2> HIDE DEF D
  <2> QED
    BY <1>6, <1>7, EveryNumber
<1>9. ASSUME NEW k \in 0..n PROVE Rests(k)
  <2>1. n - k \in Nat /\ k + (n - k) = n
    BY <1>3
  <2>2. n - k \in D
    BY <1>8, <2>1
  <2> QED
    BY <2>1, <2>2
<1> HIDE DEF D
<1> DEFINE Same(k) == f[k] = g[k] /\ \A i \in 1..k : p[i] = q[i]
           U == {k \in Nat : k <= n => Same(k)}
<1>10. 0 \in U
  BY <1>1, <1>2
<1> HIDE DEF Same
<1>11. ASSUME NEW k \in Nat, k \in U PROVE k + 1 \in U
  <2> SUFFICES ASSUME k + 1 <= n PROVE Same(k + 1)
    OBVIOUS
  <2>0. PICK m \in 1..n : m = k + 1 /\ m - 1 = k /\ m \in 0..n /\ k \in 0..n
    BY <1>3
  <2>1. f[k] = g[k] /\ \A i \in 1..k : p[i] = q[i]
    BY <1>3, <1>11, <2>0 DEF Same
  <2>2. PICK x \in Seq(T), y \in Seq(T) : total = f[m] \o x /\ total = g[m] \o y
    BY <1>9, <2>0
  <2>3. /\ f[m] = f[k] \o p[m] /\ f[k] \in Seq(T) /\ p[m] \in Seq(T)
        /\ g[m] = g[k] \o q[m] /\ g[k] \in Seq(T) /\ q[m] \in Seq(T)
    BY <1>1, <1>2, <1>4, <2>0
  <2>4. p[m] \o x \in Seq(T) /\ total = f[k] \o (p[m] \o x)
    <3>1. total = (f[k] \o p[m]) \o x
      BY <2>2, <2>3
    <3> QED
      <4>0. PICK a \in Seq(T), b \in Seq(T) : a = f[k] /\ b = p[m]
        BY <2>3
      <4>2. b \o x \in Seq(T) /\ (a \o b) \o x = a \o (b \o x)
        BY ONLY a \in Seq(T), b \in Seq(T), x \in Seq(T), SMTT(40)
      <4>1. p[m] \o x \in Seq(T) /\ (f[k] \o p[m]) \o x = f[k] \o (p[m] \o x)
        BY <4>0, <4>2, Zenon
      <4> QED
        BY ONLY <3>1, <4>1, Zenon
  <2>7. q[m] \o y \in Seq(T) /\ total = g[k] \o (q[m] \o y)
    <3>1. total = (g[k] \o q[m]) \o y
      BY <2>2, <2>3
    <3> QED
      <4>0. PICK a \in Seq(T), b \in Seq(T) : a = g[k] /\ b = q[m]
        BY <2>3
      <4>2. b \o y \in Seq(T) /\ (a \o b) \o y = a \o (b \o y)
        BY ONLY a \in Seq(T), b \in Seq(T), y \in Seq(T), SMTT(40)
      <4>1. q[m] \o y \in Seq(T) /\ (g[k] \o q[m]) \o y = g[k] \o (q[m] \o y)
        BY <4>0, <4>2, Zenon
      <4> QED
        BY ONLY <3>1, <4>1, Zenon
  <2>5. p[m] \o x = q[m] \o y
    <3>1. f[k] \o (p[m] \o x) = g[k] \o (q[m] \o y) /\ Len(f[k]) = Len(g[k])
      BY ONLY <2>1, <2>4, <2>7, ZenonT(40)
    <3> QED
      BY ONLY <2>3, <2>4, <2>7, <3>1, <1>00, ZenonT(40)
  <2>6. p[m] = q[m]
    <3>1. Meet(p[m], x, q[m], y)
      BY <2>5 DEF Meet
    <3>2. m \in 1..Len(p)
      BY <1>5
    <3> QED
      BY <3>1, <3>2, Zenon
  <2>8. \A i \in 1..(k + 1) : i = m \/ i \in 1..k
    BY <2>0
  <2>9. f[m] = g[m]
    BY ONLY <2>1, <2>3, <2>6
  <2>10. \A i \in 1..(k + 1) : p[i] = q[i]
    BY ONLY <2>1, <2>6, <2>8
  <2> QED
    BY ONLY <2>0, <2>9, <2>10 DEF Same
<1>12. Nat \subseteq U
  <2> HIDE DEF U
  <2> QED
    BY <1>10, <1>11, EveryNumber
<1>13. f[n] = g[n] /\ \A i \in 1..n : p[i] = q[i]
  <2>1. Same(n)
    BY <1>3, <1>12
  <2> QED
    BY ONLY <2>1 DEF Same
<1>14. r = s
  <2>1. f[n] \in Seq(T) /\ g[n] \in Seq(T) /\ f[n] \o r = g[n] \o s /\ Len(f[n]) = Len(g[n])
    BY <1>1, <1>2, <1>3, <1>13
  <2> QED
    BY <2>1, FrontsAlike
<1>15. p = q
  BY <1>5, <1>13, SamePlaces
<1> QED
  BY <1>14, <1>15

-----------------------------------------------------------------------------
(* Values by their type.                                                      *)

EntriesAt(depth) == [key : C!Values[depth], value : C!Values[depth]]

\* What a value of a depth is.
IsScalar(v) ==
    \/ v = C!Null
    \/ \E n \in Int : C!Magnitude(n) \in C!U64 /\ v = C!Integer(n)
    \/ \E f \in DOMAIN C!FloatBytes : v = C!Float(f)
    \/ \E units \in C!Strings : v = C!Text(units)
    \/ \E units \in C!Strings : v = C!Bytes(units)

IsContainer(depth, v) ==
    \/ \E items \in C!Lists(C!Values[depth]) : v = C!Array(items)
    \/ \E entries \in C!Lists(EntriesAt(depth)) : v = C!Map(entries)
    \/ \E tag \in C!U64, item \in C!Values[depth] : v = C!Tag(tag, item)

LEMMA ScalarShapes ==
    ASSUME NEW v
    PROVE  v \in C!Scalars <=> IsScalar(v)
<1>1. ASSUME v \in C!Scalars PROVE IsScalar(v)
  <2>1. CASE v = C!Null
    BY <2>1 DEF IsScalar
  <2>2. CASE v \in [type : {"integer"}, n : {n \in Int : C!Magnitude(n) \in C!U64}]
    <3>1. v = C!Integer(v.n) /\ v.n \in Int /\ C!Magnitude(v.n) \in C!U64
      BY <2>2 DEF C!Integer
    <3> QED
      BY <3>1, Zenon DEF IsScalar
  <2>3. CASE v \in [type : {"float"}, f : DOMAIN C!FloatBytes]
    <3>1. v = C!Float(v.f) /\ v.f \in DOMAIN C!FloatBytes
      BY <2>3 DEF C!Float
    <3> QED
      BY <3>1, Zenon DEF IsScalar
  <2>4. CASE v \in [type : {"text", "bytes"}, units : C!Strings]
    <3>1. (v = C!Text(v.units) \/ v = C!Bytes(v.units)) /\ v.units \in C!Strings
      BY <2>4 DEF C!Text, C!Bytes
    <3> QED
      BY <3>1, Zenon DEF IsScalar
  <2> QED
    BY <1>1, <2>1, <2>2, <2>3, <2>4 DEF C!Scalars
<1>2. ASSUME IsScalar(v) PROVE v \in C!Scalars
  <2>1. CASE v = C!Null
    BY <2>1 DEF C!Scalars
  <2>2. ASSUME NEW n \in Int, C!Magnitude(n) \in C!U64, v = C!Integer(n) PROVE v \in C!Scalars
    <3>1. v \in [type : {"integer"}, n : {m \in Int : C!Magnitude(m) \in C!U64}]
      BY <2>2 DEF C!Integer
    <3> QED
      BY <3>1 DEF C!Scalars
  <2>3. ASSUME NEW f \in DOMAIN C!FloatBytes, v = C!Float(f) PROVE v \in C!Scalars
    <3>1. v \in [type : {"float"}, f : DOMAIN C!FloatBytes]
      BY <2>3 DEF C!Float
    <3> QED
      BY <3>1 DEF C!Scalars
  <2>4. ASSUME NEW units \in C!Strings, v = C!Text(units) \/ v = C!Bytes(units) PROVE v \in C!Scalars
    <3>1. v \in [type : {"text", "bytes"}, units : C!Strings]
      BY <2>4 DEF C!Text, C!Bytes
    <3> QED
      BY <3>1 DEF C!Scalars
  <2> QED
    BY <1>2, <2>1, <2>2, <2>3, <2>4, Zenon DEF IsScalar
<1> QED
  BY <1>1, <1>2

LEMMA ContainerShapes ==
    ASSUME NEW depth, NEW v
    PROVE  v \in C!Containers(C!Values[depth]) <=> IsContainer(depth, v)
<1> DEFINE parts == C!Values[depth]
<1>0. EntriesAt(depth) = [key : parts, value : parts]
  BY DEF EntriesAt
<1> HIDE DEF parts
<1>1. ASSUME v \in C!Containers(parts) PROVE IsContainer(depth, v)
  <2>1. CASE v \in [type : {"array"}, items : C!Lists(parts)]
    <3>1. v = C!Array(v.items) /\ v.items \in C!Lists(parts)
      BY <2>1 DEF C!Array
    <3> QED
      BY <3>1, Zenon DEF IsContainer, parts
  <2>2. CASE v \in [type : {"map"}, entries : C!Lists([key : parts, value : parts])]
    <3>1. v = C!Map(v.entries) /\ v.entries \in C!Lists(EntriesAt(depth))
      BY <1>0, <2>2 DEF C!Map
    <3> QED
      BY <3>1, Zenon DEF IsContainer
  <2>3. CASE v \in [type : {"tag"}, tag : C!U64, item : parts]
    <3>1. v = C!Tag(v.tag, v.item) /\ v.tag \in C!U64 /\ v.item \in parts
      BY <2>3 DEF C!Tag
    <3> QED
      BY <3>1, Zenon DEF IsContainer, parts
  <2> QED
    BY <1>1, <2>1, <2>2, <2>3 DEF C!Containers
<1>2. ASSUME IsContainer(depth, v) PROVE v \in C!Containers(parts)
  <2>1. ASSUME NEW items \in C!Lists(parts), v = C!Array(items) PROVE v \in C!Containers(parts)
    <3>1. v \in [type : {"array"}, items : C!Lists(parts)]
      BY <2>1 DEF C!Array
    <3> QED
      BY <3>1 DEF C!Containers
  <2>2. ASSUME NEW entries \in C!Lists(EntriesAt(depth)), v = C!Map(entries) PROVE v \in C!Containers(parts)
    <3>1. v \in [type : {"map"}, entries : C!Lists([key : parts, value : parts])]
      BY <1>0, <2>2 DEF C!Map
    <3> QED
      BY <3>1 DEF C!Containers
  <2>3. ASSUME NEW tag \in C!U64, NEW item \in parts, v = C!Tag(tag, item) PROVE v \in C!Containers(parts)
    <3>1. v \in [type : {"tag"}, tag : C!U64, item : parts]
      BY <2>3 DEF C!Tag
    <3> QED
      BY <3>1 DEF C!Containers
  <2> QED
    BY <1>2, <2>1, <2>2, <2>3, Zenon DEF IsContainer, parts
<1> QED
  BY <1>1, <1>2 DEF parts

LEMMA ValueShapes ==
    ASSUME NEW d \in 0..MaxDepth, NEW v
    PROVE  v \in C!Values[d] <=> IsScalar(v) \/ (d # 0 /\ IsContainer(d - 1, v))
  BY ValuesUnfold, ScalarShapes, ContainerShapes

-----------------------------------------------------------------------------
(* What each operator says of each shape.                                     *)

LEMMA EncodedScalar ==
    ASSUME NEW e
    PROVE  /\ C!EncodeBy(e, C!Null) = <<246>>
           /\ \A n : C!EncodeBy(e, C!Integer(n)) = C!MajorLen(IF n < 0 THEN 1 ELSE 0, C!Magnitude(n))
           /\ \A f : C!EncodeBy(e, C!Float(f)) = <<249>> \o C!FloatBytes[f]
           /\ \A units : C!EncodeBy(e, C!Text(units)) = C!MajorLen(3, Len(units)) \o units
           /\ \A units : C!EncodeBy(e, C!Bytes(units)) = C!MajorLen(2, Len(units)) \o units
<1>1. C!EncodeBy(e, C!Null) = <<246>>
  BY DEF C!EncodeBy, C!Null
<1>2. \A n : C!EncodeBy(e, C!Integer(n)) = C!MajorLen(IF n < 0 THEN 1 ELSE 0, C!Magnitude(n))
  BY DEF C!EncodeBy, C!Integer
<1>3. \A f : C!EncodeBy(e, C!Float(f)) = <<249>> \o C!FloatBytes[f]
  BY DEF C!EncodeBy, C!Float
<1>4. \A units : C!EncodeBy(e, C!Text(units)) = C!MajorLen(3, Len(units)) \o units
  BY DEF C!EncodeBy, C!Text
<1>5. \A units : C!EncodeBy(e, C!Bytes(units)) = C!MajorLen(2, Len(units)) \o units
  BY DEF C!EncodeBy, C!Bytes
<1> QED
  BY <1>1, <1>2, <1>3, <1>4, <1>5

LEMMA EncodedArray ==
    ASSUME NEW e, NEW items
    PROVE  C!EncodeBy(e, C!Array(items)) =
               C!MajorLen(4, Len(items)) \o C!Joined([i \in DOMAIN items |-> e[items[i]]])
  BY DEF C!EncodeBy, C!Array

LEMMA EncodedMap ==
    ASSUME NEW e, NEW entries
    PROVE  C!EncodeBy(e, C!Map(entries)) =
               C!MajorLen(5, Len(entries))
               \o C!Joined([i \in DOMAIN entries |-> e[entries[i].key] \o e[entries[i].value]])
  BY DEF C!EncodeBy, C!Map

LEMMA EncodedTag ==
    ASSUME NEW e, NEW tag, NEW item
    PROVE  C!EncodeBy(e, C!Tag(tag, item)) =
               C!MajorLen(6, tag) \o e[item]
  BY DEF C!EncodeBy, C!Tag

CanonicalEntries(canonicalize, entries) ==
    C!All([i \in DOMAIN entries |->
              {[key |-> key, value |-> v] : key \in canonicalize[entries[i].key],
                                            v \in canonicalize[entries[i].value]}])

LEMMA CanonicalScalar ==
    ASSUME NEW c
    PROVE  /\ C!CanonicalizeBy(c, C!Null) = {C!Null}
           /\ \A n : C!CanonicalizeBy(c, C!Integer(n)) = {C!Integer(n)}
           /\ \A f : C!CanonicalizeBy(c, C!Float(f)) = IF C!FloatIsCanonical(f) THEN {C!Float(f)} ELSE {}
           /\ \A units : C!CanonicalizeBy(c, C!Text(units)) = {C!Text(units)}
           /\ \A units : C!CanonicalizeBy(c, C!Bytes(units)) = {C!Bytes(units)}
<1>1. C!CanonicalizeBy(c, C!Null) = {C!Null}
  BY DEF C!CanonicalizeBy, C!Null
<1>2. \A n : C!CanonicalizeBy(c, C!Integer(n)) = {C!Integer(n)}
  BY DEF C!CanonicalizeBy, C!Integer
<1>3. \A f : C!CanonicalizeBy(c, C!Float(f)) = IF C!FloatIsCanonical(f) THEN {C!Float(f)} ELSE {}
  BY DEF C!CanonicalizeBy, C!Float
<1>4. \A units : C!CanonicalizeBy(c, C!Text(units)) = {C!Text(units)}
  BY DEF C!CanonicalizeBy, C!Text
<1>5. \A units : C!CanonicalizeBy(c, C!Bytes(units)) = {C!Bytes(units)}
  BY DEF C!CanonicalizeBy, C!Bytes
<1> QED
  BY <1>1, <1>2, <1>3, <1>4, <1>5

LEMMA CanonicalArray ==
    ASSUME NEW c, NEW items
    PROVE  C!CanonicalizeBy(c, C!Array(items)) =
               {C!Array(all) : all \in C!All([i \in DOMAIN items |-> c[items[i]]])}
  BY DEF C!CanonicalizeBy, C!Array

LEMMA CanonicalMap ==
    ASSUME NEW c, NEW entries
    PROVE  C!CanonicalizeBy(c, C!Map(entries)) =
               {C!Map(C!SortedByKey(all)) :
                   all \in {its \in CanonicalEntries(c, entries) : C!KeysDistinct(entries, its)}}
  BY DEF C!CanonicalizeBy, C!Map, CanonicalEntries

LEMMA CanonicalTag ==
    ASSUME NEW c, NEW tag, NEW item
    PROVE  C!CanonicalizeBy(c, C!Tag(tag, item)) =
               {C!Tag(tag, its) : its \in c[item]}
  BY DEF C!CanonicalizeBy, C!Tag

LEMMA MeaningScalar ==
    ASSUME NEW m
    PROVE  /\ MeaningBy(m, C!Null) = C!Null
           /\ \A n : MeaningBy(m, C!Integer(n)) = C!Integer(n)
           /\ \A f : MeaningBy(m, C!Float(f)) = C!Float(f)
           /\ \A units : MeaningBy(m, C!Text(units)) = C!Text(units)
           /\ \A units : MeaningBy(m, C!Bytes(units)) = C!Bytes(units)
<1>1. MeaningBy(m, C!Null) = C!Null
  BY DEF MeaningBy, C!Null
<1>2. \A n : MeaningBy(m, C!Integer(n)) = C!Integer(n)
  BY DEF MeaningBy, C!Integer
<1>3. \A f : MeaningBy(m, C!Float(f)) = C!Float(f)
  BY DEF MeaningBy, C!Float
<1>4. \A units : MeaningBy(m, C!Text(units)) = C!Text(units)
  BY DEF MeaningBy, C!Text
<1>5. \A units : MeaningBy(m, C!Bytes(units)) = C!Bytes(units)
  BY DEF MeaningBy, C!Bytes
<1> QED
  BY <1>1, <1>2, <1>3, <1>4, <1>5

LEMMA MeaningArray ==
    ASSUME NEW m, NEW items
    PROVE  MeaningBy(m, C!Array(items)) =
               C!Array([i \in DOMAIN items |-> m[items[i]]])
  BY DEF MeaningBy, C!Array

LEMMA MeaningMap ==
    ASSUME NEW m, NEW entries
    PROVE  MeaningBy(m, C!Map(entries)) =
               C!Map({[key |-> m[entries[i].key], value |-> m[entries[i].value]] : i \in DOMAIN entries})
  BY DEF MeaningBy, C!Map

LEMMA MeaningTag ==
    ASSUME NEW m, NEW tag, NEW item
    PROVE  MeaningBy(m, C!Tag(tag, item)) =
               C!Tag(tag, m[item])
  BY DEF MeaningBy, C!Tag

LEMMA UnambiguousScalar ==
    ASSUME NEW u
    PROVE  /\ UnambiguousBy(u, C!Null) = TRUE
           /\ \A n : UnambiguousBy(u, C!Integer(n)) = TRUE
           /\ \A f : UnambiguousBy(u, C!Float(f)) = (f \in {"zero", "half"})
           /\ \A units : UnambiguousBy(u, C!Text(units)) = TRUE
           /\ \A units : UnambiguousBy(u, C!Bytes(units)) = TRUE
<1>1. UnambiguousBy(u, C!Null) = TRUE
  BY DEF UnambiguousBy, C!Null
<1>2. \A n : UnambiguousBy(u, C!Integer(n)) = TRUE
  BY DEF UnambiguousBy, C!Integer
<1>3. \A f : UnambiguousBy(u, C!Float(f)) = (f \in {"zero", "half"})
  BY DEF UnambiguousBy, C!Float
<1>4. \A units : UnambiguousBy(u, C!Text(units)) = TRUE
  BY DEF UnambiguousBy, C!Text
<1>5. \A units : UnambiguousBy(u, C!Bytes(units)) = TRUE
  BY DEF UnambiguousBy, C!Bytes
<1> QED
  BY <1>1, <1>2, <1>3, <1>4, <1>5

LEMMA UnambiguousArray ==
    ASSUME NEW u, NEW items
    PROVE  UnambiguousBy(u, C!Array(items)) =
               (\A i \in DOMAIN items : u[items[i]])
  BY DEF UnambiguousBy, C!Array

LEMMA UnambiguousMap ==
    ASSUME NEW u, NEW entries
    PROVE  UnambiguousBy(u, C!Map(entries)) =
               (\A i \in DOMAIN entries :
                   /\ u[entries[i].key] /\ u[entries[i].value]
                   /\ \A j \in DOMAIN entries :
                         Meaning(entries[i].key) = Meaning(entries[j].key) => i = j)
  BY DEF UnambiguousBy, C!Map

LEMMA UnambiguousTag ==
    ASSUME NEW u, NEW tag, NEW item
    PROVE  UnambiguousBy(u, C!Tag(tag, item)) =
               u[item]
  BY DEF UnambiguousBy, C!Tag

-----------------------------------------------------------------------------
(* Encodings are told from what follows them.                                 *)

LEMMA OneThenTwo ==
    ASSUME NEW T, NEW one \in Seq(T), NEW two \in Seq(T), Len(one) = 1, Len(two) = 2
    PROVE  /\ one \o two \in Seq(T) /\ Len(one \o two) = 3
           /\ (one \o two)[1] = one[1] /\ (one \o two)[2] = two[1] /\ (one \o two)[3] = two[2]
<1> DEFINE h == one \o two
<1>1. /\ h \in Seq(T) /\ Len(h) = Len(one) + Len(two)
      /\ \A i \in 1..Len(one) : h[i] = one[i]
      /\ \A i \in 1..Len(two) : h[Len(one) + i] = two[i]
  BY ONLY one \in Seq(T), two \in Seq(T)
<1> HIDE DEF h
<1>2. (\A i \in 1..1 : h[i] = one[i]) /\ (\A i \in 1..2 : h[1 + i] = two[i]) /\ Len(h) = 3
  BY <1>1
<1>3. 1 \in 1..1 /\ 1 \in 1..2 /\ 2 \in 1..2 /\ 1 + 1 = 2 /\ 1 + 2 = 3
  OBVIOUS
<1>4. h[1] = one[1] /\ h[2] = two[1] /\ h[3] = two[2]
  BY ONLY <1>2, <1>3, SMTT(40)
<1> QED
  BY <1>1, <1>2, <1>4 DEF h

\* The float as a number behind its first byte.
FloatNumber(f) == 256 * C!FloatBytes[f][1] + C!FloatBytes[f][2]

LEMMA FloatsAreNumbers ==
    /\ \A f \in DOMAIN C!FloatBytes :
          /\ C!FloatBytes[f] \in Seq(C!Byte) /\ FloatNumber(f) \in Nat /\ FloatNumber(f) # 22
          /\ <<249>> \o C!FloatBytes[f] \in Seq(C!Byte)
          /\ Headed(<<249>> \o C!FloatBytes[f], 7, 25, FloatNumber(f))
    /\ \A f, g \in DOMAIN C!FloatBytes : FloatNumber(f) = FloatNumber(g) => f = g
<1>1. ASSUME NEW f \in DOMAIN C!FloatBytes
      PROVE  /\ \E x, y \in 0..255 : C!FloatBytes[f] = <<x, y>>
             /\ FloatNumber(f) # 22
  <2>1. /\ C!FloatBytes["zero"] = <<0, 0>> /\ C!FloatBytes["minusZero"] = <<128, 0>>
        /\ C!FloatBytes["half"] = <<56, 0>> /\ C!FloatBytes["nan"] = <<126, 0>>
        /\ C!FloatBytes["infinity"] = <<124, 0>>
    BY DEF C!FloatBytes
  <2>2. f = "zero" \/ f = "minusZero" \/ f = "half" \/ f = "nan" \/ f = "infinity"
    BY DEF C!FloatBytes
  <2>3. \E x \in {0, 56, 124, 126, 128} : C!FloatBytes[f] = <<x, 0>>
    BY ONLY <2>1, <2>2
  <2>4. PICK x \in {0, 56, 124, 126, 128} : C!FloatBytes[f] = <<x, 0>>
    BY <2>3
  <2>5. x \in 0..255 /\ 0 \in 0..255 /\ 256 * x # 22
    BY ONLY x \in {0, 56, 124, 126, 128}
  <2>6. FloatNumber(f) = 256 * x + 0
    BY ONLY <2>4 DEF FloatNumber
  <2>7. FloatNumber(f) # 22
    BY ONLY <2>5, <2>6, x \in {0, 56, 124, 126, 128}
  <2> QED
    BY <2>4, <2>5, <2>7
<1>2. \A f, g \in DOMAIN C!FloatBytes : FloatNumber(f) = FloatNumber(g) => f = g
  BY DEF C!FloatBytes, FloatNumber
<1>3. ASSUME NEW f \in DOMAIN C!FloatBytes
      PROVE  /\ C!FloatBytes[f] \in Seq(C!Byte) /\ FloatNumber(f) \in Nat
             /\ <<249>> \o C!FloatBytes[f] \in Seq(C!Byte)
             /\ Headed(<<249>> \o C!FloatBytes[f], 7, 25, FloatNumber(f))
  <2>0. PICK x \in 0..255, y \in 0..255 : C!FloatBytes[f] = <<x, y>>
    BY <1>1
  <2> DEFINE n == 256 * x + y
  <2>1. n \in Nat /\ n \div 256 = x /\ n % 256 = y /\ x \div 256 = 0 /\ x % 256 = x
    BY ONLY x \in 0..255, y \in 0..255
  <2>2. FloatNumber(f) = n
    BY <2>0 DEF FloatNumber
  <2> HIDE DEF n
  <2>3. C!Shifted(n)[0] = n /\ C!Shifted(n)[1] = x /\ C!Shifted(n)[2] = 0
    <3>1. C!Shifted(n)[0] = n
      BY <2>1, ShiftedNumbers
    <3>2. \A d \in 1..8 : C!Shifted(n)[d] = C!Shifted(n)[d - 1] \div 256
      BY <2>1, ShiftedNumbers
    <3>3. C!Shifted(n)[1] = C!Shifted(n)[0] \div 256 /\ C!Shifted(n)[2] = C!Shifted(n)[1] \div 256
      <4>1. 1 \in 1..8 /\ 2 \in 1..8 /\ 1 - 1 = 0 /\ 2 - 1 = 1
        OBVIOUS
      <4> QED
        BY ONLY <3>2, <4>1
    <3> QED
      BY ONLY <2>1, <3>1, <3>3
  <2>4. C!BigEndian(n, 2)[1] = x /\ C!BigEndian(n, 2)[2] = y
    <3>0. 2 \in 0..8
      OBVIOUS
    <3>1. \A i \in 1..2 : C!BigEndian(n, 2)[i] = C!Shifted(n)[2 - i] % 256
      BY ONLY <2>1, <3>0, BigEndianBytes, ZenonT(40)
    <3>2. C!BigEndian(n, 2)[1] = C!Shifted(n)[1] % 256 /\ C!BigEndian(n, 2)[2] = C!Shifted(n)[0] % 256
      <4>1. 1 \in 1..2 /\ 2 \in 1..2 /\ 2 - 1 = 1 /\ 2 - 2 = 0
        OBVIOUS
      <4> QED
        BY ONLY <3>1, <4>1
    <3> QED
      BY ONLY <2>1, <2>3, <3>2
  <2> DEFINE head == <<249>> \o <<x, y>>
  <2>5. /\ <<x, y>> \in Seq(C!Byte) /\ head \in Seq(C!Byte)
        /\ Len(head) = 3 /\ head[1] = 249 /\ head[2] = x /\ head[3] = y
    <3>1. 249 \in C!Byte /\ x \in C!Byte /\ y \in C!Byte
      BY DEF C!Byte
    <3>2. <<249>> \in Seq(C!Byte) /\ <<x, y>> \in Seq(C!Byte)
      BY ONLY <3>1
    <3>3. PICK one \in Seq(C!Byte), two \in Seq(C!Byte) : one = <<249>> /\ two = <<x, y>>
      BY <3>2
    <3>4. Len(one) = 1 /\ one[1] = 249 /\ Len(two) = 2 /\ two[1] = x /\ two[2] = y
      BY ONLY <3>3
    <3>5. PICK h : h = one \o two
      OBVIOUS
    <3>6. h \in Seq(C!Byte) /\ Len(h) = 3 /\ h[1] = one[1] /\ h[2] = two[1] /\ h[3] = two[2]
      BY <3>4, <3>5, OneThenTwo
    <3>7. h = head
      BY <3>3, <3>5
    <3> HIDE DEF head
    <3> QED
      BY ONLY <3>2, <3>4, <3>6, <3>7
  <2> HIDE DEF head
  <2>6. Follow(25) = 2 /\ C!Fits(n, 2)
    BY <2>3 DEF Follow, C!Fits
  <2>7. \A i \in 1..2 : head[1 + i] = C!BigEndian(n, 2)[i]
    <3>1. \A i \in 1..2 : (i = 1 /\ 1 + i = 2) \/ (i = 2 /\ 1 + i = 3)
      OBVIOUS
    <3> QED
      BY ONLY <2>4, <2>5, <3>1
  <2>8. Headed(head, 7, 25, n)
    BY ONLY <2>5, <2>6, <2>7 DEF Headed
  <2> QED
    BY <2>0, <2>1, <2>2, <2>5, <2>8 DEF head
<1> QED
  BY <1>1, <1>2, <1>3, ZenonT(40)

Major(v) ==
    CASE v.type = "integer" -> IF v.n < 0 THEN 1 ELSE 0
      [] v.type = "bytes" -> 2
      [] v.type = "text" -> 3
      [] v.type = "array" -> 4
      [] v.type = "map" -> 5
      [] v.type = "tag" -> 6
      [] OTHER -> 7

HeadNumber(v) ==
    CASE v.type = "integer" -> C!Magnitude(v.n)
      [] v.type \in {"bytes", "text"} -> Len(v.units)
      [] v.type = "array" -> Len(v.items)
      [] v.type = "map" -> Len(v.entries)
      [] v.type = "tag" -> v.tag
      [] v.type = "float" -> FloatNumber(v.f)
      [] OTHER -> 22

Body(e, v) ==
    CASE v.type \in {"bytes", "text"} -> v.units
      [] v.type = "array" -> C!Joined([i \in DOMAIN v.items |-> e[v.items[i]]])
      [] v.type = "map" ->
            C!Joined([i \in DOMAIN v.entries |-> e[v.entries[i].key] \o e[v.entries[i].value]])
      [] v.type = "tag" -> e[v.item]
      [] OTHER -> <<>>

LEMMA HeadOfScalar ==
    ASSUME NEW e
    PROVE  /\ Major(C!Null) = 7 /\ HeadNumber(C!Null) = 22 /\ Body(e, C!Null) = <<>>
           /\ \A n : /\ Major(C!Integer(n)) = IF n < 0 THEN 1 ELSE 0
                     /\ HeadNumber(C!Integer(n)) = C!Magnitude(n) /\ Body(e, C!Integer(n)) = <<>>
           /\ \A f : /\ Major(C!Float(f)) = 7 /\ HeadNumber(C!Float(f)) = FloatNumber(f)
                     /\ Body(e, C!Float(f)) = <<>>
           /\ \A units : /\ Major(C!Text(units)) = 3 /\ HeadNumber(C!Text(units)) = Len(units)
                         /\ Body(e, C!Text(units)) = units
           /\ \A units : /\ Major(C!Bytes(units)) = 2 /\ HeadNumber(C!Bytes(units)) = Len(units)
                         /\ Body(e, C!Bytes(units)) = units
<1>1. Major(C!Null) = 7 /\ HeadNumber(C!Null) = 22 /\ Body(e, C!Null) = <<>>
  BY DEF Major, HeadNumber, Body, C!Null
<1>2. ASSUME NEW n
      PROVE  /\ Major(C!Integer(n)) = IF n < 0 THEN 1 ELSE 0
             /\ HeadNumber(C!Integer(n)) = C!Magnitude(n) /\ Body(e, C!Integer(n)) = <<>>
  BY DEF Major, HeadNumber, Body, C!Integer
<1>3. ASSUME NEW f
      PROVE  /\ Major(C!Float(f)) = 7 /\ HeadNumber(C!Float(f)) = FloatNumber(f) /\ Body(e, C!Float(f)) = <<>>
  BY DEF Major, HeadNumber, Body, C!Float
<1>4. ASSUME NEW units
      PROVE  /\ Major(C!Text(units)) = 3 /\ HeadNumber(C!Text(units)) = Len(units)
             /\ Body(e, C!Text(units)) = units
             /\ Major(C!Bytes(units)) = 2 /\ HeadNumber(C!Bytes(units)) = Len(units)
             /\ Body(e, C!Bytes(units)) = units
  BY DEF Major, HeadNumber, Body, C!Text, C!Bytes
<1> QED
  BY <1>1, <1>2, <1>3, <1>4

LEMMA HeadOfArray ==
    ASSUME NEW e, NEW items
    PROVE  /\ Major(C!Array(items)) = 4 /\ HeadNumber(C!Array(items)) = Len(items)
           /\ Body(e, C!Array(items)) = C!Joined([i \in DOMAIN items |-> e[items[i]]])
  BY DEF Major, HeadNumber, Body, C!Array

LEMMA HeadOfMap ==
    ASSUME NEW e, NEW entries
    PROVE  /\ Major(C!Map(entries)) = 5 /\ HeadNumber(C!Map(entries)) = Len(entries)
           /\ Body(e, C!Map(entries)) =
                 C!Joined([i \in DOMAIN entries |-> e[entries[i].key] \o e[entries[i].value]])
  BY DEF Major, HeadNumber, Body, C!Map

LEMMA HeadOfTag ==
    ASSUME NEW e, NEW tag, NEW item
    PROVE  /\ Major(C!Tag(tag, item)) = 6 /\ HeadNumber(C!Tag(tag, item)) = tag
           /\ Body(e, C!Tag(tag, item)) = e[item]
  BY DEF Major, HeadNumber, Body, C!Tag

LEMMA NullIsHeaded ==
    <<246>> \in Seq(C!Byte) /\ Headed(<<246>>, 7, 22, 22)
<1>1. <<246>> \in Seq(C!Byte)
  <2>1. 246 \in C!Byte
    BY DEF C!Byte
  <2> QED
    BY <2>1
<1>2. Follow(22) = 0
  BY DEF Follow
<1> QED
  BY <1>1, <1>2 DEF Headed

LEMMA NoMore ==
    ASSUME NEW T, NEW a \in Seq(T)
    PROVE  a \o <<>> = a
  OBVIOUS

LEMMA LengthsFit ==
    ASSUME NEW S, NEW list \in C!Lists(S)
    PROVE  list \in Seq(S) /\ Len(list) \in C!U64 /\ Len(list) \in Nat
  BY DEF C!Lists

\* Bytes of the parts make bytes of the whole.
Bytewise(e, S) == \A v \in S : e[v] \in Seq(C!Byte)

LEMMA PartsAreBytes ==
    ASSUME NEW e, NEW depth, Bytewise(e, C!Values[depth])
    PROVE  /\ \A items \in Seq(C!Values[depth]) :
                 [i \in DOMAIN items |-> e[items[i]]] \in Seq(Seq(C!Byte))
           /\ \A entries \in Seq(EntriesAt(depth)) :
                 [i \in DOMAIN entries |-> e[entries[i].key] \o e[entries[i].value]]
                     \in Seq(Seq(C!Byte))
<1> DEFINE S == C!Values[depth] B == Seq(C!Byte)
<1>0. \A v \in S : e[v] \in B
  BY DEF Bytewise
<1>1. ASSUME NEW items \in Seq(S)
      PROVE  [i \in DOMAIN items |-> e[items[i]]] \in Seq(B)
  <2> HIDE DEF S, B
  <2>1. \A i \in 1..Len(items) : e[items[i]] \in B
    BY <1>0
  <2> QED
    BY <2>1
<1>2. ASSUME NEW entries \in Seq(EntriesAt(depth))
      PROVE  [i \in DOMAIN entries |-> e[entries[i].key] \o e[entries[i].value]] \in Seq(B)
  <2>1. ASSUME NEW i \in 1..Len(entries)
        PROVE  e[entries[i].key] \o e[entries[i].value] \in B
    <3>1. entries[i] \in EntriesAt(depth)
      OBVIOUS
    <3>2. entries[i].key \in S /\ entries[i].value \in S
      BY <3>1 DEF EntriesAt
    <3>3. PICK x \in Seq(C!Byte), y \in Seq(C!Byte) : x = e[entries[i].key] /\ y = e[entries[i].value]
      BY <1>0, <3>2
    <3>4. x \o y \in Seq(C!Byte)
      BY ONLY x \in Seq(C!Byte), y \in Seq(C!Byte)
    <3> QED
      BY <3>3, <3>4
  <2> HIDE DEF S, B
  <2> DEFINE both(i) == e[entries[i].key] \o e[entries[i].value]
  <2>2. \A i \in 1..Len(entries) : both(i) \in B
    BY <2>1, Zenon
  <2>3. Len(entries) \in Nat /\ DOMAIN entries = 1..Len(entries)
    OBVIOUS
  <2> HIDE DEF both
  <2>4. [i \in DOMAIN entries |-> both(i)] \in Seq(B)
    BY <2>2, <2>3
  <2> QED
    BY <2>4, Zenon DEF both
<1> QED
  BY <1>1, <1>2

LEMMA EncodedByHead ==
    ASSUME NEW d \in 0..MaxDepth, NEW v \in C!Values[d], NEW e,
           d # 0 => Bytewise(e, C!Values[d - 1])
    PROVE  /\ Major(v) \in Nat /\ HeadNumber(v) \in Nat /\ Body(e, v) \in Seq(C!Byte)
           /\ \E head \in Seq(C!Byte) :
                 /\ \E low \in 0..27 : Headed(head, Major(v), low, HeadNumber(v))
                 /\ C!EncodeBy(e, v) = head \o Body(e, v)
<1> DEFINE Goal(w) ==
       /\ Major(w) \in Nat /\ HeadNumber(w) \in Nat /\ Body(e, w) \in Seq(C!Byte)
       /\ \E head \in Seq(C!Byte) :
             /\ \E low \in 0..27 : Headed(head, Major(w), low, HeadNumber(w))
             /\ C!EncodeBy(e, w) = head \o Body(e, w)
<1>1. ASSUME NEW w, NEW major \in 0..6, NEW n \in C!U64, NEW body \in Seq(C!Byte),
             Major(w) = major, HeadNumber(w) = n, Body(e, w) = body,
             C!EncodeBy(e, w) = C!MajorLen(major, n) \o body
      PROVE  Goal(w)
  <2>1. C!MajorLen(major, n) \in Seq(C!Byte) /\ \E low \in 0..27 : Headed(C!MajorLen(major, n), major, low, n)
    BY MajorLenIsHeaded
  <2>2. major \in Nat /\ n \in Nat
    BY DEF C!U64
  <2> QED
    BY <1>1, <2>1, <2>2, Zenon
<1>2. <<>> \in Seq(C!Byte)
  OBVIOUS
<1>3. CASE v = C!Null
  <2>1. Major(v) = 7 /\ HeadNumber(v) = 22 /\ Body(e, v) = <<>> /\ C!EncodeBy(e, v) = <<246>>
    BY <1>3, HeadOfScalar, EncodedScalar
  <2>2. <<246>> \o <<>> = <<246>>
    BY NullIsHeaded, NoMore
  <2>3. 7 \in Nat /\ 22 \in Nat /\ 22 \in 0..27
    OBVIOUS
  <2> QED
    BY <1>2, <2>1, <2>2, <2>3, NullIsHeaded, ZenonT(40)
<1>4. ASSUME NEW n \in Int, C!Magnitude(n) \in C!U64, v = C!Integer(n) PROVE Goal(v)
  <2> DEFINE major == IF n < 0 THEN 1 ELSE 0
  <2>1. major \in 0..6
    OBVIOUS
  <2>20. Major(v) = major /\ HeadNumber(v) = C!Magnitude(n) /\ Body(e, v) = <<>>
    BY <1>4, HeadOfScalar
  <2>21. C!EncodeBy(e, v) = C!MajorLen(major, C!Magnitude(n))
    BY <1>4, EncodedScalar, ZenonT(40)
  <2>2. /\ Major(v) = major /\ HeadNumber(v) = C!Magnitude(n) /\ Body(e, v) = <<>>
        /\ C!EncodeBy(e, v) = C!MajorLen(major, C!Magnitude(n))
    BY <2>20, <2>21
  <2> HIDE DEF major
  <2>3. C!MajorLen(major, C!Magnitude(n)) \in Seq(C!Byte)
    BY <1>4, <2>1, MajorLenIsHeaded
  <2>4. C!MajorLen(major, C!Magnitude(n)) \o <<>> = C!MajorLen(major, C!Magnitude(n))
    BY <2>3, NoMore
  <2> QED
    BY <1>1, <1>2, <1>4, <2>1, <2>2, <2>4, Zenon
<1>5. ASSUME NEW f \in DOMAIN C!FloatBytes, v = C!Float(f) PROVE Goal(v)
  <2> DEFINE head == <<249>> \o C!FloatBytes[f]
  <2>0. Major(v) = 7 /\ HeadNumber(v) = FloatNumber(f) /\ Body(e, v) = <<>>
    BY <1>5, HeadOfScalar
  <2>1. C!EncodeBy(e, v) = head
    BY <1>5, EncodedScalar, Zenon
  <2>2. head \in Seq(C!Byte) /\ FloatNumber(f) \in Nat /\ Headed(head, 7, 25, FloatNumber(f))
    BY FloatsAreNumbers
  <2> HIDE DEF head
  <2>3. head \o <<>> = head
    BY <2>2, NoMore
  <2>4. 7 \in Nat /\ 25 \in 0..27
    OBVIOUS
  <2> QED
    BY <1>2, <2>0, <2>1, <2>2, <2>3, <2>4, Zenon
<1>6. ASSUME NEW units \in C!Strings, v = C!Text(units) PROVE Goal(v)
  <2>1. Len(units) \in C!U64 /\ units \in Seq(C!Byte) /\ 3 \in 0..6
    BY LengthsFit DEF C!Strings
  <2>20. Major(v) = 3 /\ HeadNumber(v) = Len(units) /\ Body(e, v) = units
    BY <1>6, HeadOfScalar
  <2>21. C!EncodeBy(e, v) = C!MajorLen(3, Len(units)) \o units
    BY <1>6, EncodedScalar, Zenon
  <2>2. /\ Major(v) = 3 /\ HeadNumber(v) = Len(units) /\ Body(e, v) = units
        /\ C!EncodeBy(e, v) = C!MajorLen(3, Len(units)) \o units
    BY <2>20, <2>21
  <2> QED
    BY <1>1, <2>1, <2>2, Zenon
<1>7. ASSUME NEW units \in C!Strings, v = C!Bytes(units) PROVE Goal(v)
  <2>1. Len(units) \in C!U64 /\ units \in Seq(C!Byte) /\ 2 \in 0..6
    BY LengthsFit DEF C!Strings
  <2>20. Major(v) = 2 /\ HeadNumber(v) = Len(units) /\ Body(e, v) = units
    BY <1>7, HeadOfScalar
  <2>21. C!EncodeBy(e, v) = C!MajorLen(2, Len(units)) \o units
    BY <1>7, EncodedScalar, Zenon
  <2>2. /\ Major(v) = 2 /\ HeadNumber(v) = Len(units) /\ Body(e, v) = units
        /\ C!EncodeBy(e, v) = C!MajorLen(2, Len(units)) \o units
    BY <2>20, <2>21
  <2> QED
    BY <1>1, <2>1, <2>2, Zenon
<1>8. ASSUME d # 0, NEW items \in C!Lists(C!Values[d - 1]), v = C!Array(items) PROVE Goal(v)
  <2> DEFINE parts == [i \in DOMAIN items |-> e[items[i]]]
  <2>1. Len(items) \in C!U64 /\ items \in Seq(C!Values[d - 1]) /\ 4 \in 0..6
    BY LengthsFit
  <2>2. parts \in Seq(Seq(C!Byte))
    BY <1>8, <2>1, PartsAreBytes
  <2>30. Major(v) = 4 /\ HeadNumber(v) = Len(items) /\ Body(e, v) = C!Joined(parts)
    BY <1>8, HeadOfArray, Zenon
  <2>31. C!EncodeBy(e, v) = C!MajorLen(4, Len(items)) \o C!Joined(parts)
    BY <1>8, EncodedArray, Zenon
  <2>3. /\ Major(v) = 4 /\ HeadNumber(v) = Len(items) /\ Body(e, v) = C!Joined(parts)
        /\ C!EncodeBy(e, v) = C!MajorLen(4, Len(items)) \o C!Joined(parts)
    BY <2>30, <2>31
  <2> HIDE DEF parts
  <2>4. C!Joined(parts) \in Seq(C!Byte)
    BY <2>2, JoinedIsOne
  <2> QED
    BY <1>1, <2>1, <2>3, <2>4, Zenon
<1>9. ASSUME d # 0, NEW entries \in C!Lists(EntriesAt(d - 1)), v = C!Map(entries) PROVE Goal(v)
  <2> DEFINE parts == [i \in DOMAIN entries |-> e[entries[i].key] \o e[entries[i].value]]
  <2>1. Len(entries) \in C!U64 /\ entries \in Seq(EntriesAt(d - 1)) /\ 5 \in 0..6
    BY LengthsFit
  <2>2. parts \in Seq(Seq(C!Byte))
    BY <1>9, <2>1, PartsAreBytes
  <2>30. Major(v) = 5 /\ HeadNumber(v) = Len(entries) /\ Body(e, v) = C!Joined(parts)
    BY <1>9, HeadOfMap, Zenon
  <2>31. C!EncodeBy(e, v) = C!MajorLen(5, Len(entries)) \o C!Joined(parts)
    BY <1>9, EncodedMap, Zenon
  <2>3. /\ Major(v) = 5 /\ HeadNumber(v) = Len(entries) /\ Body(e, v) = C!Joined(parts)
        /\ C!EncodeBy(e, v) = C!MajorLen(5, Len(entries)) \o C!Joined(parts)
    BY <2>30, <2>31
  <2> HIDE DEF parts
  <2>4. C!Joined(parts) \in Seq(C!Byte)
    BY <2>2, JoinedIsOne
  <2> QED
    BY <1>1, <2>1, <2>3, <2>4, Zenon
<1>10. ASSUME d # 0, NEW tag \in C!U64, NEW item \in C!Values[d - 1], v = C!Tag(tag, item) PROVE Goal(v)
  <2>1. 6 \in 0..6 /\ e[item] \in Seq(C!Byte)
    BY <1>10 DEF Bytewise
  <2>20. Major(v) = 6 /\ HeadNumber(v) = tag /\ Body(e, v) = e[item]
    BY <1>10, HeadOfTag, Zenon
  <2>21. C!EncodeBy(e, v) = C!MajorLen(6, tag) \o e[item]
    BY <1>10, EncodedTag, Zenon
  <2>2. /\ Major(v) = 6 /\ HeadNumber(v) = tag /\ Body(e, v) = e[item]
        /\ C!EncodeBy(e, v) = C!MajorLen(6, tag) \o e[item]
    BY <2>20, <2>21
  <2> QED
    BY <1>1, <2>1, <2>2, Zenon
<1>11. IsScalar(v) \/ (d # 0 /\ IsContainer(d - 1, v))
  BY ValueShapes
<1>12. CASE IsScalar(v)
  BY <1>3, <1>4, <1>5, <1>6, <1>7, <1>12, Zenon DEF IsScalar
<1>13. CASE d # 0 /\ IsContainer(d - 1, v)
  BY <1>8, <1>9, <1>10, <1>13, Zenon DEF IsContainer
<1> QED
  BY <1>11, <1>12, <1>13, Zenon

LEMMA EncodingsBytewise ==
    \A d \in 0..MaxDepth : Bytewise(C!Encodings[d], C!Values[d])
<1> DEFINE U == {d \in Nat : d \in 0..MaxDepth => Bytewise(C!Encodings[d], C!Values[d])}
<1>1. ASSUME NEW d \in 0..MaxDepth, d # 0 => Bytewise(C!Encodings[d - 1], C!Values[d - 1])
      PROVE  Bytewise(C!Encodings[d], C!Values[d])
  <2> DEFINE e == IF d = 0 THEN <<>> ELSE C!Encodings[d - 1]
  <2>1. \A v \in C!Values[d] : C!Encodings[d][v] = C!EncodeBy(e, v)
    BY EncodingsUnfold
  <2>2. d # 0 => Bytewise(e, C!Values[d - 1])
    BY <1>1
  <2> HIDE DEF e
  <2>3. ASSUME NEW v \in C!Values[d] PROVE C!EncodeBy(e, v) \in Seq(C!Byte)
    <3>1. Body(e, v) \in Seq(C!Byte)
      BY <2>2, EncodedByHead
    <3>2. PICK head \in Seq(C!Byte) : C!EncodeBy(e, v) = head \o Body(e, v)
      BY <2>2, EncodedByHead
    <3>3. PICK body \in Seq(C!Byte) : body = Body(e, v)
      BY <3>1
    <3>4. head \o body \in Seq(C!Byte)
      BY ONLY head \in Seq(C!Byte), body \in Seq(C!Byte)
    <3> QED
      BY <3>2, <3>3, <3>4
  <2> QED
    BY <2>1, <2>3 DEF Bytewise
<1>2. 0 \in U
  BY <1>1
<1>3. ASSUME NEW k \in Nat, k \in U PROVE k + 1 \in U
  <2> SUFFICES ASSUME k + 1 \in 0..MaxDepth PROVE Bytewise(C!Encodings[k + 1], C!Values[k + 1])
    OBVIOUS
  <2>1. k \in 0..MaxDepth /\ (k + 1) - 1 = k
    BY DepthIsNatural
  <2>2. Bytewise(C!Encodings[(k + 1) - 1], C!Values[(k + 1) - 1])
    BY <1>3, <2>1
  <2> QED
    BY <1>1, <2>2
<1>4. Nat \subseteq U
  <2> HIDE DEF U
  <2> QED
    BY <1>2, <1>3, EveryNumber
<1> QED
  BY <1>4, DepthIsNatural

Tells(e, S) ==
    \A v, w \in S : \A r, s \in Seq(C!Byte) : Meet(e[v], r, e[w], s) => v = w /\ r = s

Both(e, entry) == e[entry.key] \o e[entry.value]

LEMMA TellsEntries ==
    ASSUME NEW e, NEW depth, Bytewise(e, C!Values[depth]), Tells(e, C!Values[depth]),
           NEW f \in EntriesAt(depth), NEW g \in EntriesAt(depth),
           NEW r \in Seq(C!Byte), NEW s \in Seq(C!Byte), Meet(Both(e, f), r, Both(e, g), s)
    PROVE  f = g /\ r = s
<1>1. /\ f.key \in C!Values[depth] /\ f.value \in C!Values[depth]
      /\ g.key \in C!Values[depth] /\ g.value \in C!Values[depth]
      /\ f = [key |-> f.key, value |-> f.value] /\ g = [key |-> g.key, value |-> g.value]
  BY DEF EntriesAt
<1>2. PICK a \in Seq(C!Byte), x \in Seq(C!Byte) : a = e[f.key] /\ x = e[f.value]
  BY <1>1 DEF Bytewise
<1>3. PICK b \in Seq(C!Byte), y \in Seq(C!Byte) : b = e[g.key] /\ y = e[g.value]
  BY <1>1 DEF Bytewise
<1>4. (a \o x) \o r = a \o (x \o r) /\ x \o r \in Seq(C!Byte)
  BY ONLY a \in Seq(C!Byte), x \in Seq(C!Byte), r \in Seq(C!Byte), SMTT(40)
<1>5. (b \o y) \o s = b \o (y \o s) /\ y \o s \in Seq(C!Byte)
  BY ONLY b \in Seq(C!Byte), y \in Seq(C!Byte), s \in Seq(C!Byte), SMTT(40)
<1>6. (a \o x) \o r = (b \o y) \o s
  BY <1>2, <1>3, Zenon DEF Meet, Both
<1>7. a \o (x \o r) = b \o (y \o s)
  BY ONLY <1>4, <1>5, <1>6, Zenon
<1>8. f.key = g.key /\ x \o r = y \o s
  <2>1. Meet(e[f.key], x \o r, e[g.key], y \o s)
    BY ONLY <1>2, <1>3, <1>7, Zenon DEF Meet
  <2>2. PICK t \in Seq(C!Byte), u \in Seq(C!Byte) : t = x \o r /\ u = y \o s
    BY <1>4, <1>5
  <2>3. Meet(e[f.key], t, e[g.key], u)
    BY ONLY <2>1, <2>2, Zenon
  <2>4. f.key = g.key /\ t = u
    BY <1>1, <2>3 DEF Tells
  <2> QED
    BY <2>2, <2>4
<1>9. f.value = g.value /\ r = s
  <2>1. Meet(e[f.value], r, e[g.value], s)
    BY ONLY <1>2, <1>3, <1>8, Zenon DEF Meet
  <2> QED
    BY <1>1, <2>1 DEF Tells
<1> QED
  BY <1>1, <1>8, <1>9

\* What the first byte says.
LEMMA ShapeByMajor ==
    ASSUME NEW d \in 0..MaxDepth, NEW v \in C!Values[d]
    PROVE  /\ Major(v) \in {0, 1} => \E n \in Int : v = C!Integer(n)
           /\ Major(v) = 2 => \E units \in C!Strings : v = C!Bytes(units)
           /\ Major(v) = 3 => \E units \in C!Strings : v = C!Text(units)
           /\ Major(v) = 4 => d # 0 /\ \E items \in C!Lists(C!Values[d - 1]) : v = C!Array(items)
           /\ Major(v) = 5 => d # 0 /\ \E entries \in C!Lists(EntriesAt(d - 1)) : v = C!Map(entries)
           /\ Major(v) = 6 => d # 0 /\ \E tag \in C!U64, item \in C!Values[d - 1] : v = C!Tag(tag, item)
           /\ Major(v) = 7 => v = C!Null \/ \E f \in DOMAIN C!FloatBytes : v = C!Float(f)
           /\ Major(v) \in 0..7
<1>1. IsScalar(v) \/ (d # 0 /\ IsContainer(d - 1, v))
  BY ValueShapes
<1>2. CASE v = C!Null
  <2>1. Major(v) = 7
    BY <1>2, HeadOfScalar
  <2> QED
    BY <1>2, <2>1
<1>3. ASSUME NEW n \in Int, v = C!Integer(n)
      PROVE  Major(v) \in {0, 1} /\ \E m \in Int : v = C!Integer(m)
  <2>1. Major(v) = IF n < 0 THEN 1 ELSE 0
    BY <1>3, HeadOfScalar
  <2> QED
    BY <1>3, <2>1
<1>4. ASSUME NEW f \in DOMAIN C!FloatBytes, v = C!Float(f)
      PROVE  Major(v) = 7 /\ \E g \in DOMAIN C!FloatBytes : v = C!Float(g)
  <2>1. Major(v) = 7
    BY <1>4, HeadOfScalar
  <2> QED
    BY <1>4, <2>1
<1>5. ASSUME NEW units \in C!Strings, v = C!Text(units)
      PROVE  Major(v) = 3 /\ \E its \in C!Strings : v = C!Text(its)
  <2>1. Major(v) = 3
    BY <1>5, HeadOfScalar
  <2> QED
    BY <1>5, <2>1
<1>6. ASSUME NEW units \in C!Strings, v = C!Bytes(units)
      PROVE  Major(v) = 2 /\ \E its \in C!Strings : v = C!Bytes(its)
  <2>1. Major(v) = 2
    BY <1>6, HeadOfScalar
  <2> QED
    BY <1>6, <2>1
<1>7. ASSUME NEW items \in C!Lists(C!Values[d - 1]), v = C!Array(items)
      PROVE  Major(v) = 4 /\ \E its \in C!Lists(C!Values[d - 1]) : v = C!Array(its)
  BY <1>7, HeadOfArray, Zenon
<1>8. ASSUME NEW entries \in C!Lists(EntriesAt(d - 1)), v = C!Map(entries)
      PROVE  Major(v) = 5 /\ \E its \in C!Lists(EntriesAt(d - 1)) : v = C!Map(its)
  BY <1>8, HeadOfMap, Zenon
<1>9. ASSUME NEW tag \in C!U64, NEW item \in C!Values[d - 1], v = C!Tag(tag, item)
      PROVE  Major(v) = 6 /\ \E t \in C!U64, its \in C!Values[d - 1] : v = C!Tag(t, its)
  BY <1>9, HeadOfTag, Zenon
<1>10. CASE IsScalar(v)
  <2>1. \/ v = C!Null
        \/ \E n \in Int : v = C!Integer(n)
        \/ \E f \in DOMAIN C!FloatBytes : v = C!Float(f)
        \/ \E units \in C!Strings : v = C!Text(units)
        \/ \E units \in C!Strings : v = C!Bytes(units)
    BY <1>10, Zenon DEF IsScalar
  <2>2. CASE v = C!Null
    BY <1>2, <2>2
  <2>3. CASE \E n \in Int : v = C!Integer(n)
    <3>1. Major(v) \in {0, 1} /\ \E m \in Int : v = C!Integer(m)
      BY <1>3, <2>3
    <3> QED
      BY ONLY <3>1
  <2>4. CASE \E f \in DOMAIN C!FloatBytes : v = C!Float(f)
    <3>1. Major(v) = 7 /\ \E g \in DOMAIN C!FloatBytes : v = C!Float(g)
      BY <1>4, <2>4
    <3> QED
      BY ONLY <3>1
  <2>5. CASE \E units \in C!Strings : v = C!Text(units)
    <3>1. Major(v) = 3 /\ \E its \in C!Strings : v = C!Text(its)
      BY <1>5, <2>5
    <3> QED
      BY ONLY <3>1
  <2>6. CASE \E units \in C!Strings : v = C!Bytes(units)
    <3>1. Major(v) = 2 /\ \E its \in C!Strings : v = C!Bytes(its)
      BY <1>6, <2>6
    <3> QED
      BY ONLY <3>1
  <2> QED
    BY <2>1, <2>2, <2>3, <2>4, <2>5, <2>6
<1>11. CASE d # 0 /\ IsContainer(d - 1, v)
  <2>1. \/ Major(v) = 4 /\ \E its \in C!Lists(C!Values[d - 1]) : v = C!Array(its)
        \/ Major(v) = 5 /\ \E its \in C!Lists(EntriesAt(d - 1)) : v = C!Map(its)
        \/ Major(v) = 6 /\ \E t \in C!U64, its \in C!Values[d - 1] : v = C!Tag(t, its)
    BY <1>7, <1>8, <1>9, <1>11, Zenon DEF IsContainer
  <2> QED
    BY ONLY <1>11, <2>1
<1> QED
  BY <1>1, <1>10, <1>11

ItemParts(e, items) == [i \in DOMAIN items |-> e[items[i]]]

EntryParts(e, entries) == [i \in DOMAIN entries |-> Both(e, entries[i])]

LEMMA SameArrays ==
    ASSUME NEW e, NEW depth, Bytewise(e, C!Values[depth]), Tells(e, C!Values[depth]),
           NEW a \in Seq(C!Values[depth]), NEW b \in Seq(C!Values[depth]), Len(a) = Len(b),
           NEW r \in Seq(C!Byte), NEW s \in Seq(C!Byte),
           Meet(C!Joined(ItemParts(e, a)), r, C!Joined(ItemParts(e, b)), s)
    PROVE  a = b /\ r = s
<1> DEFINE p == ItemParts(e, a)
           q == ItemParts(e, b)
           S == C!Values[depth]
<1> USE DEF ItemParts
<1>1. p \in Seq(Seq(C!Byte)) /\ q \in Seq(Seq(C!Byte))
  BY PartsAreBytes
<1>2. Len(p) = Len(a) /\ Len(q) = Len(a)
  OBVIOUS
<1>3. \A k \in 1..Len(a) : a[k] \in S /\ b[k] \in S /\ p[k] = e[a[k]] /\ q[k] = e[b[k]]
  OBVIOUS
<1>4. Meet(C!Joined(p), r, C!Joined(q), s)
  OBVIOUS
<1> HIDE DEF p, q
<1>5. ASSUME NEW k \in 1..Len(a), NEW x \in Seq(C!Byte), NEW y \in Seq(C!Byte), Meet(p[k], x, q[k], y)
      PROVE  a[k] = b[k]
  <2>1. PICK f \in S, g \in S : f = a[k] /\ g = b[k] /\ Meet(e[f], x, e[g], y)
    BY <1>3, <1>5
  <2>2. f = g
    BY <2>1 DEF Tells
  <2> QED
    BY <2>1, <2>2
<1>6. ASSUME NEW k \in 1..Len(p), NEW x \in Seq(C!Byte), NEW y \in Seq(C!Byte), Meet(p[k], x, q[k], y)
      PROVE  p[k] = q[k]
  <2>1. k \in 1..Len(a)
    BY <1>2
  <2>2. a[k] = b[k]
    BY <1>5, <1>6, <2>1, Zenon
  <2> QED
    BY ONLY <1>3, <2>1, <2>2, Zenon
<1>7. p = q /\ r = s
  <2>1. Len(p) = Len(q)
    BY <1>2
  <2> QED
    BY <1>1, <1>4, <1>6, <2>1, JoinedAlike
<1>8. ASSUME NEW k \in 1..Len(a) PROVE a[k] = b[k]
  <2>1. <<>> \in Seq(C!Byte)
    OBVIOUS
  <2>2. Meet(p[k], <<>>, q[k], <<>>)
    BY <1>7, Zenon DEF Meet
  <2> QED
    BY <1>5, <2>1, <2>2, Zenon
<1>9. a = b
  BY <1>8, SamePlaces
<1> QED
  BY <1>7, <1>9

LEMMA SameMaps ==
    ASSUME NEW e, NEW depth, Bytewise(e, C!Values[depth]), Tells(e, C!Values[depth]),
           NEW a \in Seq(EntriesAt(depth)), NEW b \in Seq(EntriesAt(depth)), Len(a) = Len(b),
           NEW r \in Seq(C!Byte), NEW s \in Seq(C!Byte),
           Meet(C!Joined(EntryParts(e, a)), r, C!Joined(EntryParts(e, b)), s)
    PROVE  a = b /\ r = s
<1> DEFINE p == EntryParts(e, a)
           q == EntryParts(e, b)
           S == EntriesAt(depth)
<1> USE DEF EntryParts
<1>1. p \in Seq(Seq(C!Byte)) /\ q \in Seq(Seq(C!Byte))
  BY PartsAreBytes DEF Both
<1>2. Len(p) = Len(a) /\ Len(q) = Len(a)
  OBVIOUS
<1>3. \A k \in 1..Len(a) : a[k] \in S /\ b[k] \in S /\ p[k] = Both(e, a[k]) /\ q[k] = Both(e, b[k])
  OBVIOUS
<1>4. Meet(C!Joined(p), r, C!Joined(q), s)
  OBVIOUS
<1> HIDE DEF p, q
<1>5. ASSUME NEW k \in 1..Len(a), NEW x \in Seq(C!Byte), NEW y \in Seq(C!Byte), Meet(p[k], x, q[k], y)
      PROVE  a[k] = b[k]
  <2>1. PICK f \in S, g \in S : f = a[k] /\ g = b[k] /\ Meet(Both(e, f), x, Both(e, g), y)
    BY <1>3, <1>5
  <2>2. f = g
    BY <2>1, TellsEntries
  <2> QED
    BY <2>1, <2>2
<1>6. ASSUME NEW k \in 1..Len(p), NEW x \in Seq(C!Byte), NEW y \in Seq(C!Byte), Meet(p[k], x, q[k], y)
      PROVE  p[k] = q[k]
  <2>1. k \in 1..Len(a)
    BY <1>2
  <2>2. a[k] = b[k]
    BY <1>5, <1>6, <2>1, Zenon
  <2> QED
    BY ONLY <1>3, <2>1, <2>2, Zenon
<1>7. p = q /\ r = s
  <2>1. Len(p) = Len(q)
    BY <1>2
  <2> QED
    BY <1>1, <1>4, <1>6, <2>1, JoinedAlike
<1>8. ASSUME NEW k \in 1..Len(a) PROVE a[k] = b[k]
  <2>1. <<>> \in Seq(C!Byte)
    OBVIOUS
  <2>2. Meet(p[k], <<>>, q[k], <<>>)
    BY <1>7, Zenon DEF Meet
  <2> QED
    BY <1>5, <2>1, <2>2, Zenon
<1>9. a = b
  BY <1>8, SamePlaces
<1> QED
  BY <1>7, <1>9

LEMMA SameBodies ==
    ASSUME NEW d \in 0..MaxDepth, NEW e,
           d # 0 => Bytewise(e, C!Values[d - 1]) /\ Tells(e, C!Values[d - 1]),
           NEW v \in C!Values[d], NEW w \in C!Values[d], Major(v) = Major(w), HeadNumber(v) = HeadNumber(w),
           NEW r \in Seq(C!Byte), NEW s \in Seq(C!Byte), Meet(Body(e, v), r, Body(e, w), s)
    PROVE  v = w /\ r = s
<1>0. \A t \in Seq(C!Byte) : <<>> \o t = t
  OBVIOUS
<1>1. CASE Major(v) \in {0, 1}
  <2>1. PICK n \in Int : v = C!Integer(n)
    BY <1>1, ShapeByMajor
  <2>2. PICK m \in Int : w = C!Integer(m)
    BY <1>1, ShapeByMajor
  <2>3. /\ (IF n < 0 THEN 1 ELSE 0) = (IF m < 0 THEN 1 ELSE 0) /\ C!Magnitude(n) = C!Magnitude(m)
        /\ Body(e, v) = <<>> /\ Body(e, w) = <<>>
    BY <2>1, <2>2, HeadOfScalar
  <2>4. n = m
    BY ONLY <2>3, n \in Int, m \in Int DEF C!Magnitude
  <2>5. r = s
    BY <1>0, <2>3, Zenon DEF Meet
  <2> QED
    BY <2>1, <2>2, <2>4, <2>5
<1>2. CASE Major(v) \in {2, 3}
  <2>1. PICK a \in C!Strings, b \in C!Strings :
           (v = C!Bytes(a) /\ w = C!Bytes(b)) \/ (v = C!Text(a) /\ w = C!Text(b))
    <3>1. CASE Major(v) = 2
      <4>1. PICK a \in C!Strings : v = C!Bytes(a)
        BY <3>1, ShapeByMajor
      <4>2. PICK b \in C!Strings : w = C!Bytes(b)
        BY <3>1, ShapeByMajor
      <4> QED
        BY <4>1, <4>2
    <3>2. CASE Major(v) = 3
      <4>1. PICK a \in C!Strings : v = C!Text(a)
        BY <3>2, ShapeByMajor
      <4>2. PICK b \in C!Strings : w = C!Text(b)
        BY <3>2, ShapeByMajor
      <4> QED
        BY <4>1, <4>2
    <3> QED
      BY <1>2, <3>1, <3>2
  <2>2. Body(e, v) = a /\ Body(e, w) = b /\ Len(a) = Len(b)
    BY <2>1, HeadOfScalar
  <2>3. a \in Seq(C!Byte) /\ b \in Seq(C!Byte)
    BY LengthsFit DEF C!Strings
  <2>4. a \o r = b \o s
    BY <2>2, Zenon DEF Meet
  <2>5. a = b /\ r = s
    BY ONLY <2>2, <2>3, <2>4, r \in Seq(C!Byte), s \in Seq(C!Byte), FrontsAlike
  <2> QED
    BY <2>1, <2>5
<1>3. CASE Major(v) = 4
  <2>1. PICK a \in C!Lists(C!Values[d - 1]) : v = C!Array(a)
    BY <1>3, ShapeByMajor
  <2>2. PICK b \in C!Lists(C!Values[d - 1]) : w = C!Array(b)
    BY <1>3, ShapeByMajor
  <2>3. /\ Bytewise(e, C!Values[d - 1]) /\ Tells(e, C!Values[d - 1])
        /\ a \in Seq(C!Values[d - 1]) /\ b \in Seq(C!Values[d - 1])
    BY <1>3, ShapeByMajor, LengthsFit
  <2>4. /\ HeadNumber(v) = Len(a) /\ Body(e, v) = C!Joined(ItemParts(e, a))
        /\ HeadNumber(w) = Len(b) /\ Body(e, w) = C!Joined(ItemParts(e, b))
    BY <2>1, <2>2, HeadOfArray, Zenon DEF ItemParts
  <2>5. /\ Len(a) = Len(b)
        /\ Meet(C!Joined(ItemParts(e, a)), r, C!Joined(ItemParts(e, b)), s)
    BY <2>4, Zenon
  <2>6. a = b /\ r = s
    <3>1. PICK depth : depth = d - 1
      OBVIOUS
    <3>2. /\ Bytewise(e, C!Values[depth]) /\ Tells(e, C!Values[depth])
          /\ a \in Seq(C!Values[depth]) /\ b \in Seq(C!Values[depth])
      BY ONLY <2>3, <3>1, Zenon
    <3> QED
      BY ONLY <2>5, <3>2, r \in Seq(C!Byte), s \in Seq(C!Byte), SameArrays
  <2> QED
    BY <2>1, <2>2, <2>6
<1>4. CASE Major(v) = 5
  <2>1. PICK a \in C!Lists(EntriesAt(d - 1)) : v = C!Map(a)
    BY <1>4, ShapeByMajor
  <2>2. PICK b \in C!Lists(EntriesAt(d - 1)) : w = C!Map(b)
    BY <1>4, ShapeByMajor
  <2>3. /\ Bytewise(e, C!Values[d - 1]) /\ Tells(e, C!Values[d - 1])
        /\ a \in Seq(EntriesAt(d - 1)) /\ b \in Seq(EntriesAt(d - 1))
    BY <1>4, ShapeByMajor, LengthsFit
  <2>4. /\ HeadNumber(v) = Len(a)
        /\ Body(e, v) = C!Joined(EntryParts(e, a))
        /\ HeadNumber(w) = Len(b)
        /\ Body(e, w) = C!Joined(EntryParts(e, b))
    BY <2>1, <2>2, HeadOfMap, Zenon DEF EntryParts, Both
  <2>5. /\ Len(a) = Len(b)
        /\ Meet(C!Joined(EntryParts(e, a)), r,
                C!Joined(EntryParts(e, b)), s)
    BY <2>4, Zenon
  <2>6. a = b /\ r = s
    <3>1. PICK depth : depth = d - 1
      OBVIOUS
    <3> QED
      BY ONLY <2>3, <2>5, <3>1, r \in Seq(C!Byte), s \in Seq(C!Byte), SameMaps
  <2> QED
    BY <2>1, <2>2, <2>6
<1>5. CASE Major(v) = 6
  <2>1. PICK t \in C!U64, a \in C!Values[d - 1] : v = C!Tag(t, a)
    BY <1>5, ShapeByMajor
  <2>2. PICK u \in C!U64, b \in C!Values[d - 1] : w = C!Tag(u, b)
    BY <1>5, ShapeByMajor
  <2>3. Tells(e, C!Values[d - 1])
    BY <1>5, ShapeByMajor
  <2>4. t = u /\ Body(e, v) = e[a] /\ Body(e, w) = e[b]
    <3>1. HeadNumber(v) = t /\ Body(e, v) = e[a]
      BY <2>1, HeadOfTag, Zenon
    <3>2. HeadNumber(w) = u /\ Body(e, w) = e[b]
      BY <2>2, HeadOfTag, Zenon
    <3> QED
      BY <3>1, <3>2
  <2>5. Meet(e[a], r, e[b], s)
    BY <2>4, Zenon
  <2>6. a = b /\ r = s
    BY ONLY <2>3, <2>5, r \in Seq(C!Byte), s \in Seq(C!Byte), a \in C!Values[d - 1], b \in C!Values[d - 1],
            SMT DEF Tells
  <2> QED
    BY <2>1, <2>2, <2>4, <2>6
<1>6. CASE Major(v) = 7
  <2>1. v = C!Null \/ \E f \in DOMAIN C!FloatBytes : v = C!Float(f)
    BY <1>6, ShapeByMajor
  <2>2. w = C!Null \/ \E f \in DOMAIN C!FloatBytes : w = C!Float(f)
    BY <1>6, ShapeByMajor
  <2>3. HeadNumber(C!Null) = 22 /\ \A f \in DOMAIN C!FloatBytes : HeadNumber(C!Float(f)) = FloatNumber(f)
    BY HeadOfScalar
  <2>4. v = w
    BY <2>1, <2>2, <2>3, FloatsAreNumbers
  <2>7. Body(e, C!Null) = <<>> /\ \A f : Body(e, C!Float(f)) = <<>>
    BY HeadOfScalar
  <2>5. Body(e, v) = <<>> /\ Body(e, w) = <<>>
    BY ONLY <2>1, <2>2, <2>7, Zenon
  <2>6. r = s
    BY <1>0, <2>5, Zenon DEF Meet
  <2> QED
    BY <2>4, <2>6
<1> QED
  BY <1>1, <1>2, <1>3, <1>4, <1>5, <1>6, ShapeByMajor

LEMMA EncodingsTell ==
    \A d \in 0..MaxDepth : Tells(C!Encodings[d], C!Values[d])
<1> DEFINE U == {d \in Nat : d \in 0..MaxDepth => Tells(C!Encodings[d], C!Values[d])}
<1>1. ASSUME NEW d \in 0..MaxDepth, d # 0 => Tells(C!Encodings[d - 1], C!Values[d - 1])
      PROVE  Tells(C!Encodings[d], C!Values[d])
  <2> DEFINE e == IF d = 0 THEN <<>> ELSE C!Encodings[d - 1]
  <2>1. \A v \in C!Values[d] : C!Encodings[d][v] = C!EncodeBy(e, v)
    BY EncodingsUnfold
  <2>2. d # 0 => Bytewise(e, C!Values[d - 1]) /\ Tells(e, C!Values[d - 1])
    <3>1. d # 0 => d - 1 \in 0..MaxDepth
      BY DepthIsNatural
    <3> QED
      BY <1>1, <3>1, EncodingsBytewise
  <2> HIDE DEF e
  <2>3. ASSUME NEW v \in C!Values[d], NEW w \in C!Values[d], NEW r \in Seq(C!Byte), NEW s \in Seq(C!Byte),
               Meet(C!EncodeBy(e, v), r, C!EncodeBy(e, w), s)
        PROVE  v = w /\ r = s
    <3>1. PICK a \in Seq(C!Byte), low \in 0..27 :
             Headed(a, Major(v), low, HeadNumber(v)) /\ C!EncodeBy(e, v) = a \o Body(e, v)
      BY <2>2, EncodedByHead
    <3>2. PICK b \in Seq(C!Byte), its \in 0..27 :
             Headed(b, Major(w), its, HeadNumber(w)) /\ C!EncodeBy(e, w) = b \o Body(e, w)
      BY <2>2, EncodedByHead
    <3>3. /\ Body(e, v) \in Seq(C!Byte) /\ Body(e, w) \in Seq(C!Byte)
          /\ Major(v) \in Nat /\ Major(w) \in Nat /\ HeadNumber(v) \in Nat /\ HeadNumber(w) \in Nat
      BY <2>2, EncodedByHead
    <3>4. PICK x \in Seq(C!Byte), y \in Seq(C!Byte) : x = Body(e, v) /\ y = Body(e, w)
      BY <3>3
    <3>5. (a \o x) \o r = a \o (x \o r) /\ x \o r \in Seq(C!Byte)
      BY ONLY a \in Seq(C!Byte), x \in Seq(C!Byte), r \in Seq(C!Byte), SMTT(40)
    <3>6. (b \o y) \o s = b \o (y \o s) /\ y \o s \in Seq(C!Byte)
      BY ONLY b \in Seq(C!Byte), y \in Seq(C!Byte), s \in Seq(C!Byte), SMTT(40)
    <3>7. (a \o x) \o r = (b \o y) \o s
      BY <2>3, <3>1, <3>2, <3>4, Zenon DEF Meet
    <3>8. PICK t \in Seq(C!Byte), u \in Seq(C!Byte) : t = x \o r /\ u = y \o s
      BY <3>5, <3>6
    <3>9. a \o t = b \o u
      BY ONLY <3>5, <3>6, <3>7, <3>8, Zenon
    <3>10. Major(v) = Major(w) /\ HeadNumber(v) = HeadNumber(w) /\ t = u
      <4>1. HeadSays(a, Major(v), HeadNumber(v)) /\ HeadSays(b, Major(w), HeadNumber(w))
        BY <3>1, <3>2, Zenon DEF HeadSays
      <4>2. Meet(a, t, b, u)
        BY <3>9, Zenon DEF Meet
      <4>3. HeadsMeet(a, Major(v), HeadNumber(v), t, b, Major(w), HeadNumber(w), u)
        BY <3>3, <4>1, <4>2, Zenon DEF HeadsMeet
      <4> QED
        BY <4>3, HeadsAlike, Zenon
    <3>11. Meet(Body(e, v), r, Body(e, w), s)
      BY ONLY <3>4, <3>8, <3>10, Zenon DEF Meet
    <3> QED
      BY <2>2, <3>10, <3>11, SameBodies
  <2> QED
    BY <2>1, <2>3 DEF Tells
<1>2. 0 \in U
  BY <1>1
<1>3. ASSUME NEW k \in Nat, k \in U PROVE k + 1 \in U
  <2> SUFFICES ASSUME k + 1 \in 0..MaxDepth PROVE Tells(C!Encodings[k + 1], C!Values[k + 1])
    OBVIOUS
  <2>1. k \in 0..MaxDepth /\ (k + 1) - 1 = k
    BY DepthIsNatural
  <2>2. Tells(C!Encodings[(k + 1) - 1], C!Values[(k + 1) - 1])
    BY <1>3, <2>1
  <2> QED
    BY <1>1, <2>2
<1>4. Nat \subseteq U
  <2> HIDE DEF U
  <2> QED
    BY <1>2, <1>3, EveryNumber
<1> QED
  BY <1>4, DepthIsNatural

LEMMA ListsGrow ==
    ASSUME NEW S, NEW T, S \subseteq T
    PROVE  C!Lists(S) \subseteq C!Lists(T)
<1> SUFFICES ASSUME NEW list \in C!Lists(S) PROVE list \in C!Lists(T)
  OBVIOUS
<1>1. list \in Seq(S) /\ Len(list) \in C!U64
  BY LengthsFit
<1>2. list \in Seq(T)
  BY <1>1
<1> QED
  BY <1>1, <1>2 DEF C!Lists

LEMMA ValuesGrow ==
    ASSUME NEW d \in 1..MaxDepth
    PROVE  C!Values[d - 1] \subseteq C!Values[d]
<1> DEFINE U == {k \in Nat : k + 1 \in 0..MaxDepth => C!Values[k] \subseteq C!Values[k + 1]}
<1>1. 0 \in U
  <2> SUFFICES ASSUME 0 + 1 \in 0..MaxDepth PROVE C!Values[0] \subseteq C!Values[0 + 1]
    OBVIOUS
  <2>1. 0 \in 0..MaxDepth /\ 0 + 1 # 0
    BY DepthIsNatural
  <2> QED
    BY <2>1, ValueShapes
<1>2. ASSUME NEW k \in Nat, k \in U PROVE k + 1 \in U
  <2> SUFFICES ASSUME (k + 1) + 1 \in 0..MaxDepth PROVE C!Values[k + 1] \subseteq C!Values[(k + 1) + 1]
    OBVIOUS
  <2> DEFINE j == k + 1 m == j + 1
  <2>1. j \in 0..MaxDepth /\ m \in 0..MaxDepth /\ j # 0 /\ m # 0 /\ j - 1 = k /\ m - 1 = j
    BY DepthIsNatural
  <2>2. C!Values[k] \subseteq C!Values[j]
    BY <1>2, <2>1
  <2> HIDE DEF j, m
  <2>3. C!Lists(C!Values[k]) \subseteq C!Lists(C!Values[j]) /\ C!Lists(EntriesAt(k)) \subseteq C!Lists(EntriesAt(j))
    <3>1. EntriesAt(k) \subseteq EntriesAt(j)
      BY <2>2 DEF EntriesAt
    <3> QED
      BY <2>2, <3>1, ListsGrow
  <2>4. ASSUME NEW v, IsContainer(k, v) PROVE IsContainer(j, v)
    <3>1. \/ \E items \in C!Lists(C!Values[j]) : v = C!Array(items)
          \/ \E entries \in C!Lists(EntriesAt(j)) : v = C!Map(entries)
          \/ \E tag \in C!U64, item \in C!Values[j] : v = C!Tag(tag, item)
      BY <2>2, <2>3, <2>4 DEF IsContainer
    <3> QED
      BY <3>1, Zenon DEF IsContainer
  <2>5. ASSUME NEW v \in C!Values[j] PROVE v \in C!Values[m]
    <3>1. IsScalar(v) \/ IsContainer(j - 1, v)
      BY <2>1, ValueShapes
    <3>2. IsScalar(v) \/ IsContainer(m - 1, v)
      BY <2>1, <2>4, <3>1
    <3> QED
      BY <2>1, <3>2, ValueShapes
  <2> QED
    BY <2>5 DEF j, m
<1>3. Nat \subseteq U
  <2> HIDE DEF U
  <2> QED
    BY <1>1, <1>2, EveryNumber
<1>4. d - 1 \in Nat /\ (d - 1) + 1 = d /\ d \in 0..MaxDepth
  BY DepthIsNatural
<1> QED
  BY <1>3, <1>4

LEMMA ValuesWithin ==
    ASSUME NEW d \in 0..MaxDepth
    PROVE  C!Values[d] \subseteq C!Values[MaxDepth]
<1> DEFINE U == {j \in Nat : \A k \in 0..MaxDepth : k + j = MaxDepth => C!Values[k] \subseteq C!Values[MaxDepth]}
<1>1. 0 \in U
  <2>1. \A k \in 0..MaxDepth : k + 0 = MaxDepth => k = MaxDepth
    BY DepthIsNatural
  <2> QED
    BY <2>1
<1>2. ASSUME NEW j \in Nat, j \in U PROVE j + 1 \in U
  <2>1. ASSUME NEW i \in 0..MaxDepth, i + (j + 1) = MaxDepth PROVE C!Values[i] \subseteq C!Values[MaxDepth]
    <3>1. PICK k \in 1..MaxDepth : k = i + 1 /\ k - 1 = i /\ k \in 0..MaxDepth /\ k + j = MaxDepth
      BY <2>1, DepthIsNatural
    <3>2. C!Values[k] \subseteq C!Values[MaxDepth]
      BY <1>2, <3>1
    <3>3. C!Values[i] \subseteq C!Values[k]
      BY <3>1, ValuesGrow
    <3> QED
      BY ONLY <3>2, <3>3
  <2>2. j + 1 \in Nat
    OBVIOUS
  <2> QED
    BY <2>1, <2>2, Zenon
<1>3. Nat \subseteq U
  <2> HIDE DEF U
  <2> QED
    BY <1>1, <1>2, EveryNumber
<1>4. MaxDepth - d \in Nat /\ d + (MaxDepth - d) = MaxDepth
  BY DepthIsNatural
<1> QED
  BY <1>3, <1>4

\* Canonical bytes read forward in one way only: whatever bytes follow them, no value's
\* encoding begins another's, and the same bytes are bytes of the same value, so that a
\* digest of them speaks of one value (encode_canonical_cbor_value, encode_major_len).
THEOREM EncodingsArePrefixFree ==
    \A v, w \in C!Values[MaxDepth] : \A after, others \in Seq(C!Byte) :
        C!Encode(v) \o after = C!Encode(w) \o others => v = w /\ after = others
<1> SUFFICES ASSUME NEW v \in C!Values[MaxDepth], NEW w \in C!Values[MaxDepth],
                    NEW after \in Seq(C!Byte), NEW others \in Seq(C!Byte),
                    C!Encode(v) \o after = C!Encode(w) \o others
             PROVE  v = w /\ after = others
  OBVIOUS
<1>1. Meet(C!Encodings[MaxDepth][v], after, C!Encodings[MaxDepth][w], others)
  BY Zenon DEF Meet, C!Encode
<1>2. Tells(C!Encodings[MaxDepth], C!Values[MaxDepth])
  BY DepthIsNatural, EncodingsTell
<1> QED
  BY <1>1, <1>2, Zenon DEF Tells

\* Equal bytes are bytes of equal values.
LEMMA EncodeIsInjective ==
    ASSUME NEW v \in C!Values[MaxDepth], NEW w \in C!Values[MaxDepth]
    PROVE  /\ C!Encode(v) \in Seq(C!Byte)
           /\ C!Encode(v) = C!Encode(w) => v = w
<1>0. MaxDepth \in 0..MaxDepth
  BY DepthIsNatural
<1>1. C!Encode(v) \in Seq(C!Byte)
  BY <1>0, EncodingsBytewise DEF Bytewise, C!Encode
<1>2. ASSUME C!Encode(v) = C!Encode(w) PROVE v = w
  <2>1. <<>> \in Seq(C!Byte)
    OBVIOUS
  <2>2. Meet(C!Encodings[MaxDepth][v], <<>>, C!Encodings[MaxDepth][w], <<>>)
    BY <1>2, Zenon DEF Meet, C!Encode
  <2>3. Tells(C!Encodings[MaxDepth], C!Values[MaxDepth])
    BY <1>0, EncodingsTell
  <2> QED
    BY <2>1, <2>2, <2>3, Zenon DEF Tells
<1> QED
  BY <1>1, <1>2

-----------------------------------------------------------------------------
(* The order of keys is the order of the paths of an archive.                  *)

LEMMA SeqGrows ==
    ASSUME NEW S, NEW T, S \subseteq T, NEW s \in Seq(S)
    PROVE  s \in Seq(T)
  OBVIOUS

LEMMA OneCount ==
    ASSUME NEW S
    PROVE  C!Cardinality(S) = Cardinality(S) /\ C!IsFiniteSet(S) = IsFiniteSet(S)
<1>1. C!Cardinality(S) = Cardinality(S)
  BY Zenon DEF C!Cardinality, Cardinality
<1>2. C!IsFiniteSet(S) = IsFiniteSet(S)
  BY Zenon DEF C!IsFiniteSet, IsFiniteSet
<1> QED
  BY <1>1, <1>2, Zenon

LEMMA BytesAreCompared ==
    ASSUME NEW l \in Seq(C!Byte), NEW m \in Seq(C!Byte), NEW r \in Seq(C!Byte)
    PROVE  /\ C!BytesBefore(l, r) <=> Before(l, r)
           /\ l \in Seq(Nat)
           /\ l = r \/ C!BytesBefore(l, r) \/ C!BytesBefore(r, l)
           /\ ~C!BytesBefore(l, l)
           /\ C!BytesBefore(l, m) /\ C!BytesBefore(m, r) => C!BytesBefore(l, r)
<1>1. \A x, y : C!BytesBefore(x, y) <=> Before(x, y)
  BY DEF C!BytesBefore, Before
<1>2. l \in Seq(Nat) /\ m \in Seq(Nat) /\ r \in Seq(Nat)
  <2>1. C!Byte \subseteq Nat
    BY DEF C!Byte
  <2> QED
    BY <2>1, SeqGrows
<1>3. l = r \/ Before(l, r) \/ Before(r, l)
  BY <1>2, PathsCompare
<1>4. ~Before(l, l)
  BY <1>2, NoPathBeforeItself
<1>5. Before(l, m) /\ Before(m, r) => Before(l, r)
  BY <1>2, PathsChain
<1> QED
  BY <1>1, <1>2, <1>3, <1>4, <1>5

LEMMA KeysTakePlaces ==
    ASSUME NEW keys \in Seq(Seq(C!Byte))
    PROVE  /\ \A j, k \in DOMAIN keys : C!Position(keys, j) = C!Position(keys, k) => j = k
           /\ \A k \in DOMAIN keys : C!Position(keys, k) \in DOMAIN keys
           /\ \A p \in DOMAIN keys : \E k \in DOMAIN keys : C!Position(keys, k) = p
           /\ \A j, k \in DOMAIN keys :
                 C!BytesBefore(keys[j], keys[k]) => C!Position(keys, j) < C!Position(keys, k)
<1> DEFINE E == [path : Seq(Nat)]
           s == [i \in DOMAIN keys |-> [path |-> keys[i]]]
<1>1. \A i \in DOMAIN keys : keys[i] \in Seq(C!Byte) /\ keys[i] \in Seq(Nat) /\ s[i] = [path |-> keys[i]]
  BY BytesAreCompared
<1>2. Texts(E)
  BY DEF Texts
<1>3. s \in Seq(E) /\ DOMAIN s = DOMAIN keys
  <2>1. \A i \in DOMAIN keys : s[i] \in E
    BY <1>1
  <2>2. DOMAIN keys = 1..Len(keys) /\ Len(keys) \in Nat
    OBVIOUS
  <2>3. s = [i \in 1..Len(keys) |-> s[i]]
    BY <2>2
  <2> HIDE DEF E, s
  <2>4. \A i \in 1..Len(keys) : s[i] \in E
    BY <2>1, <2>2
  <2> QED
    BY ONLY <2>2, <2>3, <2>4
<1>4. \A i \in DOMAIN keys : s[i].path = keys[i]
  BY <1>1
<1> HIDE DEF E, s
<1>5. \A j, k \in DOMAIN keys : C!BytesBefore(keys[j], keys[k]) <=> Before(s[j].path, s[k].path)
  BY <1>1, <1>4, BytesAreCompared
<1>6. ASSUME NEW k \in DOMAIN keys PROVE C!Position(keys, k) = Position(s, k)
  <2>1. {j \in DOMAIN keys : C!BytesBefore(keys[j], keys[k]) \/ (keys[j] = keys[k] /\ j <= k)}
        = {j \in DOMAIN s : Before(s[j].path, s[k].path) \/ (s[j].path = s[k].path /\ j <= k)}
    BY <1>3, <1>4, <1>5
  <2>2. C!Position(keys, k) = Cardinality({j \in DOMAIN keys :
            C!BytesBefore(keys[j], keys[k]) \/ (keys[j] = keys[k] /\ j <= k)})
    BY OneCount, Zenon DEF C!Position
  <2>3. Position(s, k) = Cardinality({j \in DOMAIN s :
            Before(s[j].path, s[k].path) \/ (s[j].path = s[k].path /\ j <= k)})
    BY Zenon DEF Position
  <2> QED
    BY <2>1, <2>2, <2>3, Zenon
<1>7. /\ \A j, k \in DOMAIN s : Position(s, j) = Position(s, k) => j = k
      /\ \A k \in DOMAIN s : Position(s, k) \in DOMAIN s
      /\ \A p \in DOMAIN s : \E k \in DOMAIN s : Position(s, k) = p
      /\ \A j, k \in DOMAIN s : Before(s[j].path, s[k].path) => Position(s, j) < Position(s, k)
  BY <1>2, <1>3, EveryPlaceTaken
<1> QED
  BY <1>3, <1>5, <1>6, <1>7

-----------------------------------------------------------------------------
(* Maps sorted by the bytes of their keys.                                     *)

KeyBefore(e, f) == C!BytesBefore(C!Encode(e.key), C!Encode(f.key))

Ascending(s) == \A p, q \in DOMAIN s : p < q => KeyBefore(s[p], s[q])

KeysApart(s) == \A i, j \in DOMAIN s : s[i].key = s[j].key => i = j

SameEntries(s, t) ==
    /\ \A i \in DOMAIN s : \E j \in DOMAIN t : s[i] = t[j]
    /\ \A j \in DOMAIN t : \E i \in DOMAIN s : s[i] = t[j]

LEMMA KeysAreOrdered ==
    ASSUME NEW d \in 0..MaxDepth, NEW e \in EntriesAt(d), NEW f \in EntriesAt(d), NEW g \in EntriesAt(d)
    PROVE  /\ C!Encode(e.key) \in Seq(C!Byte)
           /\ C!Encode(e.key) = C!Encode(f.key) => e.key = f.key
           /\ e.key = f.key \/ KeyBefore(e, f) \/ KeyBefore(f, e)
           /\ KeyBefore(e, f) => e.key # f.key
           /\ KeyBefore(e, f) /\ KeyBefore(f, g) => KeyBefore(e, g)
<1>1. /\ e.key \in C!Values[MaxDepth] /\ f.key \in C!Values[MaxDepth] /\ g.key \in C!Values[MaxDepth]
  BY ValuesWithin DEF EntriesAt
<1> DEFINE a == C!Encode(e.key) b == C!Encode(f.key) c == C!Encode(g.key)
<1>2. a \in Seq(C!Byte) /\ b \in Seq(C!Byte) /\ c \in Seq(C!Byte) /\ (a = b => e.key = f.key)
  BY <1>1, EncodeIsInjective
<1>3. e.key = f.key => a = b
  OBVIOUS
<1> HIDE DEF a, b, c
<1>4. /\ a = b \/ C!BytesBefore(a, b) \/ C!BytesBefore(b, a)
      /\ ~C!BytesBefore(a, a)
      /\ C!BytesBefore(a, b) /\ C!BytesBefore(b, c) => C!BytesBefore(a, c)
  BY <1>2, BytesAreCompared
<1> QED
  BY <1>2, <1>3, <1>4 DEF KeyBefore, a, b, c

LEMMA DistinctKeys ==
    ASSUME NEW d \in 0..MaxDepth, NEW s \in Seq(EntriesAt(d)), NEW asWritten
    PROVE  C!KeysDistinct(asWritten, s) <=> KeysApart(s)
<1>1. \A i \in DOMAIN s : s[i] \in EntriesAt(d)
  OBVIOUS
<1>2. \A i, j \in DOMAIN s : C!Encode(s[i].key) = C!Encode(s[j].key) <=> s[i].key = s[j].key
  BY <1>1, KeysAreOrdered
<1> QED
  BY <1>2 DEF C!KeysDistinct, KeysApart

LEMMA SortedArranges ==
    ASSUME NEW d \in 0..MaxDepth, NEW s \in Seq(EntriesAt(d))
    PROVE  /\ C!SortedByKey(s) \in Seq(EntriesAt(d)) /\ Len(C!SortedByKey(s)) = Len(s)
           /\ SameEntries(C!SortedByKey(s), s)
           /\ KeysApart(s) => Ascending(C!SortedByKey(s))
<1> DEFINE E == EntriesAt(d)
           keys == [i \in DOMAIN s |-> C!Encode(s[i].key)]
           at(p) == CHOOSE k \in DOMAIN s : C!Position(keys, k) = p
           t == C!SortedByKey(s)
<1>0. Len(s) \in Nat /\ DOMAIN s = 1..Len(s) /\ \A i \in DOMAIN s : s[i] \in E
  OBVIOUS
<1>1. keys \in Seq(Seq(C!Byte)) /\ DOMAIN keys = DOMAIN s
  <2>1. \A i \in 1..Len(s) : C!Encode(s[i].key) \in Seq(C!Byte)
    BY <1>0, KeysAreOrdered
  <2> QED
    BY <1>0, <2>1
<1>2. \A i \in DOMAIN s : keys[i] = C!Encode(s[i].key)
  OBVIOUS
<1>3. t = [p \in DOMAIN s |-> s[at(p)]]
  BY Zenon DEF C!SortedByKey
<1> HIDE DEF E, keys, t
<1>4. /\ \A j, k \in DOMAIN s : C!Position(keys, j) = C!Position(keys, k) => j = k
      /\ \A k \in DOMAIN s : C!Position(keys, k) \in DOMAIN s
      /\ \A p \in DOMAIN s : \E k \in DOMAIN s : C!Position(keys, k) = p
      /\ \A j, k \in DOMAIN s :
            C!BytesBefore(keys[j], keys[k]) => C!Position(keys, j) < C!Position(keys, k)
  <2>1. /\ \A j, k \in DOMAIN keys : C!Position(keys, j) = C!Position(keys, k) => j = k
        /\ \A k \in DOMAIN keys : C!Position(keys, k) \in DOMAIN keys
        /\ \A p \in DOMAIN keys : \E k \in DOMAIN keys : C!Position(keys, k) = p
        /\ \A j, k \in DOMAIN keys :
              C!BytesBefore(keys[j], keys[k]) => C!Position(keys, j) < C!Position(keys, k)
    BY <1>1, KeysTakePlaces
  <2> QED
    BY <1>1, <2>1
<1>5. \A p \in DOMAIN s : at(p) \in DOMAIN s /\ C!Position(keys, at(p)) = p
  BY <1>4
<1>6. \A k \in DOMAIN s : C!Position(keys, k) \in DOMAIN s /\ at(C!Position(keys, k)) = k
  BY <1>4, <1>5
<1> HIDE DEF at
<1>7. t \in Seq(E) /\ Len(t) = Len(s) /\ DOMAIN t = DOMAIN s /\ \A p \in DOMAIN s : t[p] = s[at(p)]
  BY <1>0, <1>3, <1>5
<1>8. SameEntries(t, s)
  <2>1. ASSUME NEW p \in DOMAIN t PROVE \E k \in DOMAIN s : t[p] = s[k]
    BY <1>5, <1>7
  <2>2. ASSUME NEW k \in DOMAIN s PROVE \E p \in DOMAIN t : t[p] = s[k]
    BY <1>6, <1>7
  <2> QED
    BY <2>1, <2>2 DEF SameEntries
<1>9. ASSUME KeysApart(s), NEW p \in DOMAIN t, NEW q \in DOMAIN t, p < q
      PROVE  KeyBefore(t[p], t[q])
  <2>1. /\ at(p) \in DOMAIN s /\ at(q) \in DOMAIN s /\ t[p] = s[at(p)] /\ t[q] = s[at(q)]
        /\ C!Position(keys, at(p)) = p /\ C!Position(keys, at(q)) = q /\ p \in Nat /\ q \in Nat
    BY <1>0, <1>5, <1>7
  <2>2. at(p) # at(q)
    BY <1>9, <2>1
  <2>3. s[at(p)].key # s[at(q)].key
    BY <1>9, <2>1, <2>2 DEF KeysApart
  <2>4. ~C!BytesBefore(keys[at(q)], keys[at(p)])
    <3>1. ~(q < p)
      BY <1>9, <2>1
    <3> QED
      BY <1>4, <2>1, <3>1
  <2>5. ~KeyBefore(s[at(q)], s[at(p)])
    BY <1>2, <2>1, <2>4 DEF KeyBefore
  <2>6. s[at(p)] \in EntriesAt(d) /\ s[at(q)] \in EntriesAt(d)
    BY <1>0, <2>1 DEF E
  <2> QED
    BY <2>1, <2>3, <2>5, <2>6, KeysAreOrdered
<1> QED
  BY <1>7, <1>8, <1>9 DEF Ascending, E, t

LEMMA NextAlike ==
    ASSUME NEW d \in 0..MaxDepth, NEW s \in Seq(EntriesAt(d)), NEW t \in Seq(EntriesAt(d)),
           Ascending(s), Ascending(t), SameEntries(s, t), NEW p \in DOMAIN s,
           \A i \in 1..(p - 1) : i \in DOMAIN t /\ s[i] = t[i]
    PROVE  p \in DOMAIN t /\ s[p] = t[p]
<1>0. /\ Len(s) \in Nat /\ Len(t) \in Nat /\ DOMAIN s = 1..Len(s) /\ DOMAIN t = 1..Len(t) /\ p \in Nat
      /\ \A i \in DOMAIN s : s[i] \in EntriesAt(d)
      /\ \A i \in DOMAIN t : t[i] \in EntriesAt(d)
  OBVIOUS
<1>1. \A e, f \in EntriesAt(d) : ~KeyBefore(e, e) /\ ~(KeyBefore(e, f) /\ KeyBefore(f, e))
  <2>1. \A e, f, g \in EntriesAt(d) :
           (KeyBefore(e, f) => e.key # f.key) /\ (KeyBefore(e, f) /\ KeyBefore(f, g) => KeyBefore(e, g))
    BY KeysAreOrdered
  <2> QED
    BY <2>1
<1>2. PICK j \in DOMAIN t : s[p] = t[j]
  BY DEF SameEntries
<1>3. ~(j < p)
  <2> SUFFICES ASSUME j < p PROVE FALSE
    OBVIOUS
  <2>1. j \in 1..(p - 1) /\ j \in DOMAIN s
    BY <1>0
  <2>2. KeyBefore(s[j], s[p])
    BY <2>1 DEF Ascending
  <2>3. s[j] = s[p]
    BY <1>2, <2>1
  <2> QED
    BY <1>0, <1>1, <2>2, <2>3
<1>4. p \in DOMAIN t
  BY <1>0, <1>3
<1>5. PICK k \in DOMAIN s : s[k] = t[p]
  BY <1>4 DEF SameEntries
<1>6. ~(k < p)
  <2> SUFFICES ASSUME k < p PROVE FALSE
    OBVIOUS
  <2>1. k \in 1..(p - 1) /\ k \in DOMAIN t
    BY <1>0
  <2>2. KeyBefore(t[k], t[p])
    BY <1>4, <2>1 DEF Ascending
  <2>3. t[k] = t[p]
    BY <1>5, <2>1
  <2> QED
    BY <1>0, <1>1, <1>4, <2>2, <2>3
<1>7. ASSUME p < j, p < k PROVE FALSE
  <2>1. KeyBefore(t[p], t[j])
    BY <1>4, <1>7 DEF Ascending
  <2>2. KeyBefore(s[p], s[k])
    BY <1>7 DEF Ascending
  <2> QED
    BY <1>0, <1>1, <1>2, <1>4, <1>5, <2>1, <2>2
<1>8. p = j \/ p = k
  BY <1>0, <1>3, <1>6, <1>7
<1> QED
  BY <1>2, <1>4, <1>5, <1>8

LEMMA OneOrder ==
    ASSUME NEW d \in 0..MaxDepth, NEW s \in Seq(EntriesAt(d)), NEW t \in Seq(EntriesAt(d)),
           Ascending(s), Ascending(t), SameEntries(s, t)
    PROVE  s = t
<1>0. /\ Len(s) \in Nat /\ Len(t) \in Nat /\ DOMAIN s = 1..Len(s) /\ DOMAIN t = 1..Len(t)
      /\ s = [i \in 1..Len(s) |-> s[i]] /\ t = [i \in 1..Len(t) |-> t[i]]
  OBVIOUS
<1>1. SameEntries(t, s)
  BY DEF SameEntries
<1> DEFINE Alike(i) == (i \in DOMAIN s <=> i \in DOMAIN t) /\ (i \in DOMAIN s => s[i] = t[i])
           U == {n \in Nat : \A i \in 1..n : Alike(i)}
<1>2. 0 \in U
  OBVIOUS
<1>3. ASSUME NEW n \in Nat, n \in U PROVE n + 1 \in U
  <2> DEFINE p == n + 1
  <2>0. p \in Nat /\ p - 1 = n /\ \A i \in 1..p : i \in 1..n \/ i = p
    OBVIOUS
  <2>1. \A i \in 1..n : Alike(i)
    BY <1>3
  <2> HIDE DEF p, Alike
  <2>2. ASSUME p \in DOMAIN s PROVE p \in DOMAIN t /\ s[p] = t[p]
    <3>1. \A i \in 1..(p - 1) : i \in DOMAIN t /\ s[i] = t[i]
      BY <1>0, <2>0, <2>1, <2>2 DEF Alike
    <3> QED
      BY <2>2, <3>1, NextAlike
  <2>3. ASSUME p \in DOMAIN t PROVE p \in DOMAIN s /\ t[p] = s[p]
    <3>1. \A i \in 1..(p - 1) : i \in DOMAIN s /\ t[i] = s[i]
      BY <1>0, <2>0, <2>1, <2>3 DEF Alike
    <3> QED
      BY <1>1, <2>3, <3>1, NextAlike
  <2>4. Alike(p)
    BY <2>2, <2>3 DEF Alike
  <2>5. \A i \in 1..p : Alike(i)
    BY <2>0, <2>1, <2>4
  <2>6. p \in U
    BY <2>0, <2>5
  <2> QED
    BY <2>6 DEF p
<1>4. Nat \subseteq U
  <2> HIDE DEF U
  <2> QED
    BY <1>2, <1>3, EveryNumber
<1>5. \A i \in Nat : i # 0 => Alike(i)
  <2>1. ASSUME NEW i \in Nat, i # 0 PROVE Alike(i)
    <3>1. i \in U /\ i \in 1..i
      BY <1>4, <2>1
    <3> HIDE DEF Alike
    <3> QED
      BY <3>1
  <2> QED
    BY <2>1
<1>6. DOMAIN s = DOMAIN t /\ \A i \in DOMAIN s : s[i] = t[i]
  <2>1. /\ \A i \in DOMAIN s : i \in Nat /\ i # 0
        /\ \A i \in DOMAIN t : i \in Nat /\ i # 0
    BY <1>0, SMTT(40)
  <2> QED
    BY ONLY <1>5, <2>1
<1>7. Len(s) = Len(t)
  BY <1>0, <1>6
<1> QED
  BY <1>0, <1>6, <1>7

LEMMA SortedStays ==
    ASSUME NEW d \in 0..MaxDepth, NEW s \in Seq(EntriesAt(d)), Ascending(s)
    PROVE  KeysApart(s) /\ C!SortedByKey(s) = s
<1>0. /\ Len(s) \in Nat /\ DOMAIN s = 1..Len(s)
      /\ \A i \in DOMAIN s : s[i] \in EntriesAt(d)
  OBVIOUS
<1>1. KeysApart(s)
  <2>1. ASSUME NEW i \in DOMAIN s, NEW j \in DOMAIN s, s[i].key = s[j].key PROVE i = j
    <3>1. ~KeyBefore(s[i], s[j]) /\ ~KeyBefore(s[j], s[i])
      BY <1>0, <2>1, KeysAreOrdered
    <3>2. ~(i < j) /\ ~(j < i)
      BY <3>1 DEF Ascending
    <3> QED
      BY <1>0, <3>2
  <2> QED
    BY <2>1 DEF KeysApart
<1>2. /\ C!SortedByKey(s) \in Seq(EntriesAt(d)) /\ Ascending(C!SortedByKey(s))
      /\ SameEntries(C!SortedByKey(s), s)
  BY <1>1, SortedArranges
<1> QED
  BY <1>1, <1>2, OneOrder

-----------------------------------------------------------------------------
(* A result for the whole from one for every part.                             *)

AtMostOne(S) == \A x, y \in S : x = y

LEMMA AllOfParts ==
    ASSUME NEW results
    PROVE  /\ \A f \in C!All(results) :
                 /\ f = [i \in DOMAIN results |-> f[i]]
                 /\ \A i \in DOMAIN results : f[i] \in results[i]
           /\ AtMostOne(C!All(results))
           /\ C!All(results) = {} <=> \E i \in DOMAIN results : results[i] = {}
<1> DEFINE g == [i \in DOMAIN results |-> CHOOSE r \in results[i] : TRUE]
<1>1. C!All(results) = IF \E i \in DOMAIN results : results[i] = {} THEN {} ELSE {g}
  BY DEF C!All
<1>2. ASSUME ~\E i \in DOMAIN results : results[i] = {}
      PROVE  \A i \in DOMAIN results : g[i] \in results[i]
  BY <1>2
<1>3. g = [i \in DOMAIN results |-> g[i]]
  OBVIOUS
<1> HIDE DEF g
<1> QED
  BY <1>1, <1>2, <1>3 DEF AtMostOne

LEMMA AllIsOne ==
    ASSUME NEW results, NEW f, f = [i \in DOMAIN results |-> f[i]],
           \A i \in DOMAIN results : results[i] = {f[i]}
    PROVE  C!All(results) = {f}
<1>1. C!All(results) # {}
  BY AllOfParts
<1>2. PICK g \in C!All(results) : TRUE
  BY <1>1
<1>3. g = [i \in DOMAIN results |-> g[i]] /\ \A i \in DOMAIN results : g[i] = f[i]
  BY <1>2, AllOfParts
<1>4. g = f
  BY <1>3
<1> QED
  BY <1>2, <1>4, AllOfParts DEF AtMostOne

-----------------------------------------------------------------------------
(* What an operator says of a value does not depend on the depth it is asked at. *)

AgreeOn(f, g, S) == \A v \in S : f[v] = g[v]

LEMMA PartsAreIn ==
    ASSUME NEW S, NEW list \in C!Lists(S)
    PROVE  \A i \in DOMAIN list : list[i] \in S
<1>1. list \in Seq(S)
  BY LengthsFit
<1> QED
  BY <1>1

LEMMA LevelsAgree ==
    ASSUME NEW X,
           \A d \in 0..MaxDepth : d # MaxDepth =>
              ((d # 0 => AgreeOn(X[d - 1], X[d], C!Values[d - 1])) => AgreeOn(X[d], X[d + 1], C!Values[d]))
    PROVE  \A d \in 0..MaxDepth : AgreeOn(X[d], X[MaxDepth], C!Values[d])
<1> DEFINE Next1(d) == d \in 0..MaxDepth /\ d # MaxDepth => AgreeOn(X[d], X[d + 1], C!Values[d])
           U == {d \in Nat : Next1(d)}
           W == {j \in Nat : \A k \in 0..MaxDepth : k + j = MaxDepth => AgreeOn(X[k], X[MaxDepth], C!Values[k])}
<1>1. 0 \in U
  <2>1. Next1(0)
    <3> SUFFICES ASSUME 0 \in 0..MaxDepth, 0 # MaxDepth PROVE AgreeOn(X[0], X[0 + 1], C!Values[0])
      OBVIOUS
    <3> QED
      BY Zenon
  <2> QED
    BY <2>1
<1>2. ASSUME NEW k \in Nat, k \in U PROVE k + 1 \in U
  <2> SUFFICES ASSUME k + 1 \in 0..MaxDepth, k + 1 # MaxDepth PROVE AgreeOn(X[k + 1], X[(k + 1) + 1], C!Values[k + 1])
    OBVIOUS
  <2>1. PICK d \in 0..MaxDepth : d = k + 1 /\ d # MaxDepth /\ d - 1 = k
    OBVIOUS
  <2>2. k \in 0..MaxDepth /\ k # MaxDepth
    BY DepthIsNatural, <2>1
  <2>3. AgreeOn(X[k], X[k + 1], C!Values[k])
    BY <1>2, <2>2
  <2>4. AgreeOn(X[d - 1], X[d], C!Values[d - 1])
    BY <2>1, <2>3, Zenon
  <2>5. AgreeOn(X[d], X[d + 1], C!Values[d])
    BY <2>1, <2>4, Zenon
  <2> QED
    BY <2>1, <2>5, Zenon
<1>3. Nat \subseteq U
  <2> HIDE DEF U
  <2> QED
    BY <1>1, <1>2, EveryNumber
<1>4. 0 \in W
  <2>1. \A k \in 0..MaxDepth : k + 0 = MaxDepth => k = MaxDepth
    BY DepthIsNatural
  <2> QED
    BY <2>1 DEF AgreeOn
<1>5. ASSUME NEW j \in Nat, j \in W PROVE j + 1 \in W
  <2>1. ASSUME NEW i \in 0..MaxDepth, i + (j + 1) = MaxDepth PROVE AgreeOn(X[i], X[MaxDepth], C!Values[i])
    <3>1. PICK k \in 1..MaxDepth : k = i + 1 /\ k - 1 = i /\ k \in 0..MaxDepth /\ k + j = MaxDepth
      BY <2>1, DepthIsNatural
    <3>2. AgreeOn(X[k], X[MaxDepth], C!Values[k])
      BY <1>5, <3>1
    <3>3. i \in Nat /\ i # MaxDepth
      BY <2>1, DepthIsNatural
    <3>4. AgreeOn(X[i], X[k], C!Values[i])
      <4>1. i \in U
        BY <1>3, <3>3
      <4> QED
        BY <3>1, <3>3, <4>1
    <3>5. C!Values[i] \subseteq C!Values[k]
      BY <3>1, ValuesGrow
    <3> QED
      BY ONLY <3>2, <3>4, <3>5 DEF AgreeOn
  <2>2. j + 1 \in Nat
    OBVIOUS
  <2> QED
    BY <2>1, <2>2, Zenon
<1>6. Nat \subseteq W
  <2> HIDE DEF W
  <2> QED
    BY <1>4, <1>5, EveryNumber
<1>7. ASSUME NEW d \in 0..MaxDepth PROVE AgreeOn(X[d], X[MaxDepth], C!Values[d])
  <2>1. MaxDepth - d \in Nat /\ d + (MaxDepth - d) = MaxDepth
    BY DepthIsNatural
  <2>2. MaxDepth - d \in W
    BY <1>6, <2>1
  <2> QED
    BY <2>1, <2>2
<1> QED
  BY <1>7

LEMMA MeaningAgree ==
    ASSUME NEW d, NEW f, NEW g, NEW v, IsScalar(v) \/ (d # 0 /\ IsContainer(d - 1, v)),
           d # 0 => AgreeOn(f, g, C!Values[d - 1])
    PROVE  MeaningBy(f, v) = MeaningBy(g, v)
<1>1. CASE IsScalar(v)
  BY <1>1, MeaningScalar, Zenon DEF IsScalar
<1>2. CASE d # 0 /\ IsContainer(d - 1, v)
  <2>1. PICK k : k = d - 1
    OBVIOUS
  <2>2. IsContainer(k, v) /\ \A its \in C!Values[k] : f[its] = g[its]
    BY <1>2, <2>1, Zenon DEF AgreeOn
  <2>3. ASSUME NEW items \in C!Lists(C!Values[k]), v = C!Array(items) PROVE MeaningBy(f, v) = MeaningBy(g, v)
    <3>1. \A i \in DOMAIN items : f[items[i]] = g[items[i]]
      BY <2>2, PartsAreIn
    <3>2. [i \in DOMAIN items |-> f[items[i]]] = [i \in DOMAIN items |-> g[items[i]]]
      BY <3>1
    <3>3. /\ MeaningBy(f, C!Array(items)) = C!Array([i \in DOMAIN items |-> f[items[i]]])
          /\ MeaningBy(g, C!Array(items)) = C!Array([i \in DOMAIN items |-> g[items[i]]])
      BY MeaningArray
    <3> QED
      BY <2>3, <3>2, <3>3
  <2>4. ASSUME NEW entries \in C!Lists(EntriesAt(k)), v = C!Map(entries) PROVE MeaningBy(f, v) = MeaningBy(g, v)
    <3>1. \A i \in DOMAIN entries :
             f[entries[i].key] = g[entries[i].key] /\ f[entries[i].value] = g[entries[i].value]
      <4>1. \A i \in DOMAIN entries : entries[i] \in EntriesAt(k)
        BY PartsAreIn
      <4> QED
        BY <2>2, <4>1 DEF EntriesAt
    <3>2. {[key |-> f[entries[i].key], value |-> f[entries[i].value]] : i \in DOMAIN entries}
         = {[key |-> g[entries[i].key], value |-> g[entries[i].value]] : i \in DOMAIN entries}
      BY <3>1
    <3>3. /\ MeaningBy(f, C!Map(entries)) = C!Map({[key |-> f[entries[i].key], value |-> f[entries[i].value]] :
                                                      i \in DOMAIN entries})
          /\ MeaningBy(g, C!Map(entries)) = C!Map({[key |-> g[entries[i].key], value |-> g[entries[i].value]] :
                                                      i \in DOMAIN entries})
      BY MeaningMap
    <3> QED
      BY <2>4, <3>2, <3>3
  <2>5. ASSUME NEW tag \in C!U64, NEW item \in C!Values[k], v = C!Tag(tag, item) PROVE MeaningBy(f, v) = MeaningBy(g, v)
    <3>1. f[item] = g[item]
      BY <2>2
    <3>2. /\ MeaningBy(f, C!Tag(tag, item)) = C!Tag(tag, f[item])
          /\ MeaningBy(g, C!Tag(tag, item)) = C!Tag(tag, g[item])
      BY MeaningTag
    <3> QED
      BY <2>5, <3>1, <3>2
  <2> QED
    BY <2>2, <2>3, <2>4, <2>5, Zenon DEF IsContainer
<1> QED
  BY <1>1, <1>2

LEMMA MeaningHolds ==
    ASSUME NEW v \in C!Values[MaxDepth]
    PROVE  Meaning(v) = MeaningBy(Meanings[MaxDepth], v)
<1>0. MaxDepth \in 0..MaxDepth /\ MaxDepth # 0
  BY DepthIsNatural
<1>1. ASSUME NEW d \in 0..MaxDepth, d # MaxDepth, d # 0 => AgreeOn(Meanings[d - 1], Meanings[d], C!Values[d - 1])
      PROVE  AgreeOn(Meanings[d], Meanings[d + 1], C!Values[d])
  <2>1. PICK j \in 0..MaxDepth : j = d + 1 /\ j - 1 = d /\ j # 0 /\ j \in 1..MaxDepth
    BY <1>1, DepthIsNatural
  <2> DEFINE f == IF d = 0 THEN <<>> ELSE Meanings[d - 1]
  <2>2. ASSUME NEW w \in C!Values[d] PROVE Meanings[d][w] = Meanings[j][w]
    <3>1. Meanings[d][w] = MeaningBy(f, w)
      BY MeaningsUnfold
    <3>2. w \in C!Values[j]
      BY <2>1, ValuesGrow
    <3>3. Meanings[j][w] = MeaningBy(Meanings[d], w)
      <4>1. Meanings[j][w] = MeaningBy(Meanings[j - 1], w)
        BY <2>1, <3>2, MeaningsUnfold
      <4> QED
        BY <2>1, <4>1
    <3>4. IsScalar(w) \/ (d # 0 /\ IsContainer(d - 1, w))
      BY ValueShapes
    <3>5. d # 0 => AgreeOn(f, Meanings[d], C!Values[d - 1])
      BY <1>1
    <3>6. MeaningBy(f, w) = MeaningBy(Meanings[d], w)
      <4> HIDE DEF f
      <4> QED
        BY <3>4, <3>5, MeaningAgree
    <3> QED
      BY <3>1, <3>3, <3>6
  <2> QED
    BY <2>1, <2>2, Zenon DEF AgreeOn
<1>2. \A d \in 0..MaxDepth : AgreeOn(Meanings[d], Meanings[MaxDepth], C!Values[d])
  BY <1>1, LevelsAgree
<1>3. PICK d \in 0..MaxDepth : d = MaxDepth - 1
  BY DepthIsNatural
<1>4. AgreeOn(Meanings[MaxDepth - 1], Meanings[MaxDepth], C!Values[MaxDepth - 1])
  BY <1>2, <1>3, Zenon
<1>5. Meaning(v) = MeaningBy(Meanings[MaxDepth - 1], v)
  BY <1>0, MeaningsUnfold DEF Meaning
<1>6. IsScalar(v) \/ (MaxDepth # 0 /\ IsContainer(MaxDepth - 1, v))
  BY <1>0, ValueShapes
<1> QED
  BY <1>4, <1>5, <1>6, MeaningAgree

LEMMA UnambiguousAgree ==
    ASSUME NEW d, NEW f, NEW g, NEW v, IsScalar(v) \/ (d # 0 /\ IsContainer(d - 1, v)),
           d # 0 => AgreeOn(f, g, C!Values[d - 1])
    PROVE  UnambiguousBy(f, v) = UnambiguousBy(g, v)
<1>1. CASE IsScalar(v)
  BY <1>1, UnambiguousScalar, Zenon DEF IsScalar
<1>2. CASE d # 0 /\ IsContainer(d - 1, v)
  <2>1. PICK k : k = d - 1
    OBVIOUS
  <2>2. IsContainer(k, v) /\ \A its \in C!Values[k] : f[its] = g[its]
    BY <1>2, <2>1, Zenon DEF AgreeOn
  <2>3. ASSUME NEW items \in C!Lists(C!Values[k]), v = C!Array(items) PROVE UnambiguousBy(f, v) = UnambiguousBy(g, v)
    <3>1. \A i \in DOMAIN items : f[items[i]] = g[items[i]]
      BY <2>2, PartsAreIn
    <3>2. (\A i \in DOMAIN items : f[items[i]]) = (\A i \in DOMAIN items : g[items[i]])
      BY <3>1
    <3> QED
      BY <2>3, <3>2, UnambiguousArray, Zenon
  <2>4. ASSUME NEW entries \in C!Lists(EntriesAt(k)), v = C!Map(entries) PROVE UnambiguousBy(f, v) = UnambiguousBy(g, v)
    <3>1. \A i \in DOMAIN entries :
             f[entries[i].key] = g[entries[i].key] /\ f[entries[i].value] = g[entries[i].value]
      <4>1. \A i \in DOMAIN entries : entries[i] \in EntriesAt(k)
        BY PartsAreIn
      <4> QED
        BY <2>2, <4>1 DEF EntriesAt
    <3>2. (\A i \in DOMAIN entries :
             /\ f[entries[i].key] /\ f[entries[i].value]
             /\ \A j \in DOMAIN entries :
                   Meaning(entries[i].key) = Meaning(entries[j].key) => i = j)
         = (\A i \in DOMAIN entries :
             /\ g[entries[i].key] /\ g[entries[i].value]
             /\ \A j \in DOMAIN entries :
                   Meaning(entries[i].key) = Meaning(entries[j].key) => i = j)
      BY <3>1
    <3> QED
      BY <2>4, <3>2, UnambiguousMap, Zenon
  <2>5. ASSUME NEW tag \in C!U64, NEW item \in C!Values[k], v = C!Tag(tag, item) PROVE UnambiguousBy(f, v) = UnambiguousBy(g, v)
    BY <2>2, <2>5, UnambiguousTag, Zenon
  <2> QED
    BY <2>2, <2>3, <2>4, <2>5, Zenon DEF IsContainer
<1> QED
  BY <1>1, <1>2

LEMMA UnambiguousHolds ==
    ASSUME NEW v \in C!Values[MaxDepth]
    PROVE  Unambiguous(v) = UnambiguousBy(Unambiguities[MaxDepth], v)
<1>0. MaxDepth \in 0..MaxDepth /\ MaxDepth # 0
  BY DepthIsNatural
<1>1. ASSUME NEW d \in 0..MaxDepth, d # MaxDepth, d # 0 => AgreeOn(Unambiguities[d - 1], Unambiguities[d], C!Values[d - 1])
      PROVE  AgreeOn(Unambiguities[d], Unambiguities[d + 1], C!Values[d])
  <2>1. PICK j \in 0..MaxDepth : j = d + 1 /\ j - 1 = d /\ j # 0 /\ j \in 1..MaxDepth
    BY <1>1, DepthIsNatural
  <2> DEFINE f == IF d = 0 THEN <<>> ELSE Unambiguities[d - 1]
  <2>2. ASSUME NEW w \in C!Values[d] PROVE Unambiguities[d][w] = Unambiguities[j][w]
    <3>1. Unambiguities[d][w] = UnambiguousBy(f, w)
      BY UnambiguitiesUnfold
    <3>2. w \in C!Values[j]
      BY <2>1, ValuesGrow
    <3>3. Unambiguities[j][w] = UnambiguousBy(Unambiguities[d], w)
      <4>1. Unambiguities[j][w] = UnambiguousBy(Unambiguities[j - 1], w)
        BY <2>1, <3>2, UnambiguitiesUnfold
      <4> QED
        BY <2>1, <4>1
    <3>4. IsScalar(w) \/ (d # 0 /\ IsContainer(d - 1, w))
      BY ValueShapes
    <3>5. d # 0 => AgreeOn(f, Unambiguities[d], C!Values[d - 1])
      BY <1>1
    <3>6. UnambiguousBy(f, w) = UnambiguousBy(Unambiguities[d], w)
      <4> HIDE DEF f
      <4> QED
        BY <3>4, <3>5, UnambiguousAgree
    <3> QED
      BY <3>1, <3>3, <3>6
  <2> QED
    BY <2>1, <2>2, Zenon DEF AgreeOn
<1>2. \A d \in 0..MaxDepth : AgreeOn(Unambiguities[d], Unambiguities[MaxDepth], C!Values[d])
  BY <1>1, LevelsAgree
<1>3. PICK d \in 0..MaxDepth : d = MaxDepth - 1
  BY DepthIsNatural
<1>4. AgreeOn(Unambiguities[MaxDepth - 1], Unambiguities[MaxDepth], C!Values[MaxDepth - 1])
  BY <1>2, <1>3, Zenon
<1>5. Unambiguous(v) = UnambiguousBy(Unambiguities[MaxDepth - 1], v)
  <2>1. Unambiguities[MaxDepth] =
            [value \in C!Values[MaxDepth] |->
                UnambiguousBy(IF MaxDepth = 0 THEN <<>> ELSE Unambiguities[MaxDepth - 1], value)]
    BY <1>0, UnambiguitiesUnfold
  <2>2. Unambiguities[MaxDepth][v] =
            UnambiguousBy(IF MaxDepth = 0 THEN <<>> ELSE Unambiguities[MaxDepth - 1], v)
    BY ONLY <2>1, v \in C!Values[MaxDepth]
  <2>3. (IF MaxDepth = 0 THEN <<>> ELSE Unambiguities[MaxDepth - 1]) = Unambiguities[MaxDepth - 1]
    BY <1>0
  <2> QED
    BY ONLY <2>2, <2>3, Zenon DEF Unambiguous
<1>6. IsScalar(v) \/ (MaxDepth # 0 /\ IsContainer(MaxDepth - 1, v))
  BY <1>0, ValueShapes
<1> QED
  <2>1. PICK f, g : f = Unambiguities[MaxDepth - 1] /\ g = Unambiguities[MaxDepth]
    OBVIOUS
  <2>2. MaxDepth # 0 => AgreeOn(f, g, C!Values[MaxDepth - 1])
    BY <1>4, <2>1
  <2>3. UnambiguousBy(f, v) = UnambiguousBy(g, v)
    BY ONLY <1>6, <2>2, UnambiguousAgree
  <2> QED
    BY <1>5, <2>1, <2>3

LEMMA CanonicalAgree ==
    ASSUME NEW d, NEW f, NEW g, NEW v, IsScalar(v) \/ (d # 0 /\ IsContainer(d - 1, v)),
           d # 0 => AgreeOn(f, g, C!Values[d - 1])
    PROVE  C!CanonicalizeBy(f, v) = C!CanonicalizeBy(g, v)
<1>1. CASE IsScalar(v)
  BY <1>1, CanonicalScalar, ZenonT(40) DEF IsScalar
<1>2. CASE d # 0 /\ IsContainer(d - 1, v)
  <2>1. PICK k : k = d - 1
    OBVIOUS
  <2>2. IsContainer(k, v) /\ \A its \in C!Values[k] : f[its] = g[its]
    BY <1>2, <2>1, Zenon DEF AgreeOn
  <2>3. ASSUME NEW items \in C!Lists(C!Values[k]), v = C!Array(items) PROVE C!CanonicalizeBy(f, v) = C!CanonicalizeBy(g, v)
    <3>1. \A i \in DOMAIN items : f[items[i]] = g[items[i]]
      BY <2>2, PartsAreIn
    <3>2. [i \in DOMAIN items |-> f[items[i]]] = [i \in DOMAIN items |-> g[items[i]]]
      BY <3>1
    <3> QED
      BY <2>3, <3>2, CanonicalArray, Zenon
  <2>4. ASSUME NEW entries \in C!Lists(EntriesAt(k)), v = C!Map(entries) PROVE C!CanonicalizeBy(f, v) = C!CanonicalizeBy(g, v)
    <3>1. \A i \in DOMAIN entries :
             f[entries[i].key] = g[entries[i].key] /\ f[entries[i].value] = g[entries[i].value]
      <4>1. \A i \in DOMAIN entries : entries[i] \in EntriesAt(k)
        BY PartsAreIn
      <4> QED
        BY <2>2, <4>1 DEF EntriesAt
    <3> DEFINE a(i) == {[key |-> key, value |-> its] :
                           key \in f[entries[i].key], its \in f[entries[i].value]}
               b(i) == {[key |-> key, value |-> its] :
                           key \in g[entries[i].key], its \in g[entries[i].value]}
    <3>3. \A i \in DOMAIN entries : a(i) = b(i)
      BY <3>1
    <3>4. CanonicalEntries(f, entries) = C!All([i \in DOMAIN entries |-> a(i)])
      BY DEF CanonicalEntries
    <3>5. CanonicalEntries(g, entries) = C!All([i \in DOMAIN entries |-> b(i)])
      BY DEF CanonicalEntries
    <3> HIDE DEF a, b
    <3>6. [i \in DOMAIN entries |-> a(i)] = [i \in DOMAIN entries |-> b(i)]
      BY <3>3
    <3>2. CanonicalEntries(f, entries) = CanonicalEntries(g, entries)
      BY <3>4, <3>5, <3>6, Zenon
    <3> QED
      BY <2>4, <3>2, CanonicalMap, Zenon
  <2>5. ASSUME NEW tag \in C!U64, NEW item \in C!Values[k], v = C!Tag(tag, item) PROVE C!CanonicalizeBy(f, v) = C!CanonicalizeBy(g, v)
    <3>1. {C!Tag(tag, its) : its \in f[item]} = {C!Tag(tag, its) : its \in g[item]}
      BY <2>2
    <3>2. /\ C!CanonicalizeBy(f, C!Tag(tag, item)) = {C!Tag(tag, its) : its \in f[item]}
          /\ C!CanonicalizeBy(g, C!Tag(tag, item)) = {C!Tag(tag, its) : its \in g[item]}
      BY CanonicalTag
    <3> QED
      BY <2>5, <3>1, <3>2
  <2> QED
    BY <2>2, <2>3, <2>4, <2>5, Zenon DEF IsContainer
<1> QED
  BY <1>1, <1>2

LEMMA CanonicalHolds ==
    ASSUME NEW v \in C!Values[MaxDepth]
    PROVE  C!Canonicalize(v) = C!CanonicalizeBy(C!Canonicals[MaxDepth], v)
<1>0. MaxDepth \in 0..MaxDepth /\ MaxDepth # 0
  BY DepthIsNatural
<1>1. ASSUME NEW d \in 0..MaxDepth, d # MaxDepth, d # 0 => AgreeOn(C!Canonicals[d - 1], C!Canonicals[d], C!Values[d - 1])
      PROVE  AgreeOn(C!Canonicals[d], C!Canonicals[d + 1], C!Values[d])
  <2>1. PICK j \in 0..MaxDepth : j = d + 1 /\ j - 1 = d /\ j # 0 /\ j \in 1..MaxDepth
    BY <1>1, DepthIsNatural
  <2> DEFINE f == IF d = 0 THEN <<>> ELSE C!Canonicals[d - 1]
  <2>2. ASSUME NEW w \in C!Values[d] PROVE C!Canonicals[d][w] = C!Canonicals[j][w]
    <3>1. C!Canonicals[d][w] = C!CanonicalizeBy(f, w)
      BY CanonicalsUnfold
    <3>2. w \in C!Values[j]
      BY <2>1, ValuesGrow
    <3>3. C!Canonicals[j][w] = C!CanonicalizeBy(C!Canonicals[d], w)
      <4>1. C!Canonicals[j][w] = C!CanonicalizeBy(C!Canonicals[j - 1], w)
        BY <2>1, <3>2, CanonicalsUnfold
      <4> QED
        BY <2>1, <4>1
    <3>4. IsScalar(w) \/ (d # 0 /\ IsContainer(d - 1, w))
      BY ValueShapes
    <3>5. d # 0 => AgreeOn(f, C!Canonicals[d], C!Values[d - 1])
      BY <1>1
    <3>6. C!CanonicalizeBy(f, w) = C!CanonicalizeBy(C!Canonicals[d], w)
      <4> HIDE DEF f
      <4> QED
        BY <3>4, <3>5, CanonicalAgree
    <3> QED
      BY <3>1, <3>3, <3>6
  <2> QED
    BY <2>1, <2>2, Zenon DEF AgreeOn
<1>2. \A d \in 0..MaxDepth : AgreeOn(C!Canonicals[d], C!Canonicals[MaxDepth], C!Values[d])
  BY <1>1, LevelsAgree
<1>3. PICK d \in 0..MaxDepth : d = MaxDepth - 1
  BY DepthIsNatural
<1>4. AgreeOn(C!Canonicals[MaxDepth - 1], C!Canonicals[MaxDepth], C!Values[MaxDepth - 1])
  BY <1>2, <1>3, Zenon
<1>5. C!Canonicalize(v) = C!CanonicalizeBy(C!Canonicals[MaxDepth - 1], v)
  BY <1>0, CanonicalsUnfold DEF C!Canonicalize
<1>6. IsScalar(v) \/ (MaxDepth # 0 /\ IsContainer(MaxDepth - 1, v))
  BY <1>0, ValueShapes
<1> QED
  BY <1>4, <1>5, <1>6, CanonicalAgree

FieldsShown(toJson, entries) ==
    C!All([i \in DOMAIN entries |->
              IF entries[i].key.type # "text" THEN {}
              ELSE {[key |-> entries[i].key.units, value |-> its] : its \in toJson[entries[i].value]}])

\* The last of the fields of each key.
Lasting(fields) ==
    {fields[i] : i \in {k \in DOMAIN fields :
                            \A j \in DOMAIN fields : fields[j].key = fields[k].key => j <= k}}

LEMMA ShownScalar ==
    ASSUME NEW t
    PROVE  /\ C!ToJsonBy(t, C!Null) = {C!JsonNull}
           /\ \A n : C!ToJsonBy(t, C!Integer(n)) = IF n \in C!I64 THEN {C!JsonInteger(n)} ELSE {}
           /\ \A f : C!ToJsonBy(t, C!Float(f)) = IF C!FloatIsCanonical(f) THEN {C!JsonFloat(f)} ELSE {}
           /\ \A units : C!ToJsonBy(t, C!Text(units)) = {C!JsonString(units)}
           /\ \A units : C!ToJsonBy(t, C!Bytes(units)) = {C!JsonString(<<256>> \o units)}
<1>1. C!ToJsonBy(t, C!Null) = {C!JsonNull}
  BY DEF C!ToJsonBy, C!Null
<1>2. \A n : C!ToJsonBy(t, C!Integer(n)) = IF n \in C!I64 THEN {C!JsonInteger(n)} ELSE {}
  BY DEF C!ToJsonBy, C!Integer
<1>3. \A f : C!ToJsonBy(t, C!Float(f)) = IF C!FloatIsCanonical(f) THEN {C!JsonFloat(f)} ELSE {}
  BY DEF C!ToJsonBy, C!Float
<1>4. \A units : C!ToJsonBy(t, C!Text(units)) = {C!JsonString(units)}
  BY DEF C!ToJsonBy, C!Text
<1>5. \A units : C!ToJsonBy(t, C!Bytes(units)) = {C!JsonString(<<256>> \o units)}
  BY DEF C!ToJsonBy, C!Bytes
<1> QED
  BY <1>1, <1>2, <1>3, <1>4, <1>5

LEMMA ShownArray ==
    ASSUME NEW t, NEW items
    PROVE  C!ToJsonBy(t, C!Array(items)) =
               {C!JsonArray(all) : all \in C!All([i \in DOMAIN items |-> t[items[i]]])}
  BY DEF C!ToJsonBy, C!Array

LEMMA ShownMap ==
    ASSUME NEW t, NEW entries
    PROVE  C!ToJsonBy(t, C!Map(entries)) =
               {C!JsonObject(Lasting(fields)) : fields \in FieldsShown(t, entries)}
  BY DEF C!ToJsonBy, C!Map, FieldsShown, Lasting

LEMMA ShownTag ==
    ASSUME NEW t, NEW tag, NEW item
    PROVE  C!ToJsonBy(t, C!Tag(tag, item)) =
               IF tag \in {0, 32} THEN t[item] ELSE {}
  BY DEF C!ToJsonBy, C!Tag

LEMMA ShownAgree ==
    ASSUME NEW d, NEW f, NEW g, NEW v, IsScalar(v) \/ (d # 0 /\ IsContainer(d - 1, v)),
           d # 0 => AgreeOn(f, g, C!Values[d - 1])
    PROVE  C!ToJsonBy(f, v) = C!ToJsonBy(g, v)
<1>1. CASE IsScalar(v)
  <2>1. CASE v = C!Null
    BY <2>1, ShownScalar, Zenon
  <2>2. ASSUME NEW x, v = C!Integer(x) PROVE C!ToJsonBy(f, v) = C!ToJsonBy(g, v)
    <3>1. C!ToJsonBy(f, C!Integer(x)) = (IF x \in C!I64 THEN {C!JsonInteger(x)} ELSE {})
      BY ShownScalar
    <3>2. C!ToJsonBy(g, C!Integer(x)) = (IF x \in C!I64 THEN {C!JsonInteger(x)} ELSE {})
      BY ShownScalar
    <3> QED
      BY <2>2, <3>1, <3>2
  <2>3. ASSUME NEW x, v = C!Float(x) PROVE C!ToJsonBy(f, v) = C!ToJsonBy(g, v)
    <3>1. C!ToJsonBy(f, C!Float(x)) = (IF C!FloatIsCanonical(x) THEN {C!JsonFloat(x)} ELSE {})
      BY ShownScalar
    <3>2. C!ToJsonBy(g, C!Float(x)) = (IF C!FloatIsCanonical(x) THEN {C!JsonFloat(x)} ELSE {})
      BY ShownScalar
    <3> QED
      BY <2>3, <3>1, <3>2
  <2>4. ASSUME NEW x, v = C!Text(x) PROVE C!ToJsonBy(f, v) = C!ToJsonBy(g, v)
    <3>1. C!ToJsonBy(f, C!Text(x)) = {C!JsonString(x)}
      BY ShownScalar
    <3>2. C!ToJsonBy(g, C!Text(x)) = {C!JsonString(x)}
      BY ShownScalar
    <3> QED
      BY <2>4, <3>1, <3>2
  <2>5. ASSUME NEW x, v = C!Bytes(x) PROVE C!ToJsonBy(f, v) = C!ToJsonBy(g, v)
    <3>1. C!ToJsonBy(f, C!Bytes(x)) = {C!JsonString(<<256>> \o x)}
      BY ShownScalar
    <3>2. C!ToJsonBy(g, C!Bytes(x)) = {C!JsonString(<<256>> \o x)}
      BY ShownScalar
    <3> QED
      BY <2>5, <3>1, <3>2
  <2> QED
    BY <1>1, <2>1, <2>2, <2>3, <2>4, <2>5, Zenon DEF IsScalar
<1>2. CASE d # 0 /\ IsContainer(d - 1, v)
  <2>1. PICK k : k = d - 1
    OBVIOUS
  <2>2. IsContainer(k, v) /\ \A its \in C!Values[k] : f[its] = g[its]
    BY <1>2, <2>1, Zenon DEF AgreeOn
  <2>3. ASSUME NEW items \in C!Lists(C!Values[k]), v = C!Array(items) PROVE C!ToJsonBy(f, v) = C!ToJsonBy(g, v)
    <3>1. \A i \in DOMAIN items : f[items[i]] = g[items[i]]
      BY <2>2, PartsAreIn
    <3>2. [i \in DOMAIN items |-> f[items[i]]] = [i \in DOMAIN items |-> g[items[i]]]
      BY <3>1
    <3> QED
      BY <2>3, <3>2, ShownArray, Zenon
  <2>4. ASSUME NEW entries \in C!Lists(EntriesAt(k)), v = C!Map(entries) PROVE C!ToJsonBy(f, v) = C!ToJsonBy(g, v)
    <3>1. \A i \in DOMAIN entries :
             f[entries[i].key] = g[entries[i].key] /\ f[entries[i].value] = g[entries[i].value]
      <4>1. \A i \in DOMAIN entries : entries[i] \in EntriesAt(k)
        BY PartsAreIn
      <4> QED
        BY <2>2, <4>1 DEF EntriesAt
    <3>2. FieldsShown(f, entries) = FieldsShown(g, entries)
      BY <3>1 DEF FieldsShown
    <3> QED
      BY <2>4, <3>2, ShownMap, Zenon
  <2>5. ASSUME NEW tag \in C!U64, NEW item \in C!Values[k], v = C!Tag(tag, item) PROVE C!ToJsonBy(f, v) = C!ToJsonBy(g, v)
    <3>1. f[item] = g[item]
      BY <2>2
    <3>2. /\ C!ToJsonBy(f, v) = IF tag \in {0, 32} THEN f[item] ELSE {}
          /\ C!ToJsonBy(g, v) = IF tag \in {0, 32} THEN g[item] ELSE {}
      BY <2>5, ShownTag, Zenon
    <3> QED
      BY <3>1, <3>2
  <2> QED
    BY <2>2, <2>3, <2>4, <2>5, Zenon DEF IsContainer
<1> QED
  BY <1>1, <1>2

LEMMA ShownHolds ==
    ASSUME NEW v \in C!Values[MaxDepth]
    PROVE  C!ToJson(v) = C!ToJsonBy(C!ToJsons[MaxDepth], v)
<1>0. MaxDepth \in 0..MaxDepth /\ MaxDepth # 0
  BY DepthIsNatural
<1>1. ASSUME NEW d \in 0..MaxDepth, d # MaxDepth, d # 0 => AgreeOn(C!ToJsons[d - 1], C!ToJsons[d], C!Values[d - 1])
      PROVE  AgreeOn(C!ToJsons[d], C!ToJsons[d + 1], C!Values[d])
  <2>1. PICK j \in 0..MaxDepth : j = d + 1 /\ j - 1 = d /\ j # 0 /\ j \in 1..MaxDepth
    BY <1>1, DepthIsNatural
  <2> DEFINE f == IF d = 0 THEN <<>> ELSE C!ToJsons[d - 1]
  <2>2. ASSUME NEW w \in C!Values[d] PROVE C!ToJsons[d][w] = C!ToJsons[j][w]
    <3>1. C!ToJsons[d][w] = C!ToJsonBy(f, w)
      BY ToJsonsUnfold
    <3>2. w \in C!Values[j]
      BY <2>1, ValuesGrow
    <3>3. C!ToJsons[j][w] = C!ToJsonBy(C!ToJsons[d], w)
      <4>1. C!ToJsons[j][w] = C!ToJsonBy(C!ToJsons[j - 1], w)
        BY <2>1, <3>2, ToJsonsUnfold
      <4> QED
        BY <2>1, <4>1
    <3>4. IsScalar(w) \/ (d # 0 /\ IsContainer(d - 1, w))
      BY ValueShapes
    <3>5. d # 0 => AgreeOn(f, C!ToJsons[d], C!Values[d - 1])
      BY <1>1
    <3>6. C!ToJsonBy(f, w) = C!ToJsonBy(C!ToJsons[d], w)
      <4> HIDE DEF f
      <4> QED
        BY <3>4, <3>5, ShownAgree
    <3> QED
      BY <3>1, <3>3, <3>6
  <2> QED
    BY <2>1, <2>2, Zenon DEF AgreeOn
<1>2. \A d \in 0..MaxDepth : AgreeOn(C!ToJsons[d], C!ToJsons[MaxDepth], C!Values[d])
  BY <1>1, LevelsAgree
<1>3. PICK d \in 0..MaxDepth : d = MaxDepth - 1
  BY DepthIsNatural
<1>4. AgreeOn(C!ToJsons[MaxDepth - 1], C!ToJsons[MaxDepth], C!Values[MaxDepth - 1])
  BY <1>2, <1>3, Zenon
<1>5. C!ToJson(v) = C!ToJsonBy(C!ToJsons[MaxDepth - 1], v)
  BY <1>0, ToJsonsUnfold DEF C!ToJson
<1>6. IsScalar(v) \/ (MaxDepth # 0 /\ IsContainer(MaxDepth - 1, v))
  BY <1>0, ValueShapes
<1> QED
  BY <1>4, <1>5, <1>6, ShownAgree

-----------------------------------------------------------------------------
(* A canonical form (F) settles what a value says (N) and that it says it once (U). *)

Settles(S, F, N, U) ==
    /\ \A v \in S : F[v] \subseteq S /\ AtMostOne(F[v]) /\ (F[v] # {} <=> U[v])
    /\ \A v \in S : \A c \in F[v] : F[c] = {c}
    /\ \A v, w \in S : \A c \in F[v], e \in F[w] : c = e <=> N[v] = N[w]

LEMMA ListsSettle ==
    ASSUME NEW S, NEW F, NEW N, NEW U, Settles(S, F, N, U), NEW items \in C!Lists(S)
    PROVE  /\ \A f \in C!All([i \in DOMAIN items |-> F[items[i]]]) :
                 /\ f \in C!Lists(S) /\ DOMAIN f = DOMAIN items /\ Len(f) = Len(items)
                 /\ \A i \in DOMAIN items : f[i] \in F[items[i]] /\ f[i] \in S
                 /\ C!All([i \in DOMAIN f |-> F[f[i]]]) = {f}
           /\ AtMostOne(C!All([i \in DOMAIN items |-> F[items[i]]]))
           /\ C!All([i \in DOMAIN items |-> F[items[i]]]) # {} <=> \A i \in DOMAIN items : U[items[i]]
<1> DEFINE results == [i \in DOMAIN items |-> F[items[i]]]
<1>0. /\ items \in Seq(S) /\ Len(items) \in C!U64 /\ Len(items) \in Nat /\ DOMAIN items = 1..Len(items)
      /\ \A i \in DOMAIN items : items[i] \in S
  BY LengthsFit, PartsAreIn
<1>1. DOMAIN results = DOMAIN items /\ \A i \in DOMAIN items : results[i] = F[items[i]]
  OBVIOUS
<1> HIDE DEF results
<1>2. ASSUME NEW f \in C!All(results)
      PROVE  /\ f \in C!Lists(S) /\ DOMAIN f = DOMAIN items /\ Len(f) = Len(items)
             /\ \A i \in DOMAIN items : f[i] \in F[items[i]] /\ f[i] \in S
             /\ C!All([i \in DOMAIN f |-> F[f[i]]]) = {f}
  <2>1. f = [i \in DOMAIN results |-> f[i]] /\ \A i \in DOMAIN results : f[i] \in results[i]
    BY AllOfParts
  <2>2. f = [i \in 1..Len(items) |-> f[i]] /\ DOMAIN f = DOMAIN items
    BY <1>0, <1>1, <2>1
  <2>3. \A i \in DOMAIN items : f[i] \in F[items[i]] /\ f[i] \in S
    BY <1>0, <1>1, <2>1 DEF Settles
  <2>4. f \in Seq(S) /\ Len(f) = Len(items)
    <3>1. \A i \in 1..Len(items) : f[i] \in S
      BY <1>0, <2>3
    <3> QED
      BY ONLY <1>0, <2>2, <3>1
  <2>5. f \in C!Lists(S)
    BY <1>0, <2>4 DEF C!Lists
  <2>6. C!All([i \in DOMAIN f |-> F[f[i]]]) = {f}
    <3> DEFINE its == [i \in DOMAIN f |-> F[f[i]]]
    <3>1. DOMAIN its = DOMAIN f /\ \A i \in DOMAIN f : its[i] = F[f[i]]
      OBVIOUS
    <3> HIDE DEF its
    <3>2. \A i \in DOMAIN its : its[i] = {f[i]}
      BY <1>0, <2>2, <2>3, <3>1 DEF Settles
    <3>3. f = [i \in DOMAIN its |-> f[i]]
      BY <1>0, <2>2, <3>1
    <3>4. C!All(its) = {f}
      BY <3>2, <3>3, AllIsOne
    <3> QED
      BY <3>4 DEF its
  <2> QED
    BY <2>2, <2>3, <2>4, <2>5, <2>6
<1>3. AtMostOne(C!All(results)) /\ (C!All(results) = {} <=> \E i \in DOMAIN results : results[i] = {})
  BY AllOfParts
<1>4. C!All(results) # {} <=> \A i \in DOMAIN items : U[items[i]]
  <2>1. \A i \in DOMAIN items : results[i] # {} <=> U[items[i]]
    BY <1>0, <1>1 DEF Settles
  <2> QED
    BY <1>1, <1>3, <2>1, Zenon
<1> QED
  BY <1>2, <1>3, <1>4 DEF results

LEMMA ListsAlike ==
    ASSUME NEW S, NEW F, NEW N, NEW U, Settles(S, F, N, U), NEW items \in C!Lists(S), NEW others \in C!Lists(S),
           NEW f \in C!All([i \in DOMAIN items |-> F[items[i]]]),
           NEW g \in C!All([i \in DOMAIN others |-> F[others[i]]])
    PROVE  f = g <=> [i \in DOMAIN items |-> N[items[i]]] = [i \in DOMAIN others |-> N[others[i]]]
<1>0. /\ \A i \in DOMAIN items : items[i] \in S
      /\ \A i \in DOMAIN others : others[i] \in S
  BY PartsAreIn
<1>1. /\ f \in C!Lists(S) /\ DOMAIN f = DOMAIN items
      /\ \A i \in DOMAIN items : f[i] \in F[items[i]]
  BY ListsSettle
<1>2. /\ g \in C!Lists(S) /\ DOMAIN g = DOMAIN others
      /\ \A i \in DOMAIN others : g[i] \in F[others[i]]
  BY ListsSettle
<1>3. f \in Seq(S) /\ g \in Seq(S)
  BY <1>1, <1>2, LengthsFit
<1>4. f = [i \in DOMAIN items |-> f[i]] /\ g = [i \in DOMAIN others |-> g[i]]
  <2>1. f = [i \in DOMAIN f |-> f[i]] /\ g = [i \in DOMAIN g |-> g[i]]
    BY ONLY <1>3
  <2> QED
    BY <1>1, <1>2, <2>1
<1>5. \A i \in DOMAIN items : i \in DOMAIN others => (f[i] = g[i] <=> N[items[i]] = N[others[i]])
  BY <1>0, <1>1, <1>2 DEF Settles
<1>6. ASSUME f = g PROVE [i \in DOMAIN items |-> N[items[i]]] = [i \in DOMAIN others |-> N[others[i]]]
  BY <1>1, <1>2, <1>5, <1>6
<1>7. ASSUME [i \in DOMAIN items |-> N[items[i]]] = [i \in DOMAIN others |-> N[others[i]]] PROVE f = g
  <2> DEFINE a == [i \in DOMAIN items |-> N[items[i]]]
             b == [i \in DOMAIN others |-> N[others[i]]]
  <2>1. DOMAIN items = DOMAIN others
    <3>1. DOMAIN a = DOMAIN items /\ DOMAIN b = DOMAIN others
      OBVIOUS
    <3> QED
      BY <1>7, <3>1
  <2>2. \A i \in DOMAIN items : N[items[i]] = N[others[i]]
    <3>1. \A i \in DOMAIN items : a[i] = N[items[i]] /\ b[i] = N[others[i]]
      BY <2>1
    <3> QED
      BY <1>7, <3>1
  <2>3. \A i \in DOMAIN items : f[i] = g[i]
    BY <1>5, <2>1, <2>2
  <2> QED
    BY <1>4, <2>1, <2>3
<1> QED
  BY <1>6, <1>7

-----------------------------------------------------------------------------
(* The entries of a map.                                                       *)

EntryForms(entry) ==
    {[key |-> key, value |-> its] : key \in C!Canonicalize(entry.key), its \in C!Canonicalize(entry.value)}

EntryMeaning(entry) == [key |-> Meaning(entry.key), value |-> Meaning(entry.value)]

EntryUnambiguous(entry) == Unambiguous(entry.key) /\ Unambiguous(entry.value)

Settled(S) ==
    Settles(S, C!Canonicals[MaxDepth], Meanings[MaxDepth], Unambiguities[MaxDepth])

LEMMA SettledSays ==
    ASSUME NEW S, Settled(S)
    PROVE  /\ \A v \in S : /\ C!Canonicalize(v) \subseteq S /\ AtMostOne(C!Canonicalize(v))
                           /\ C!Canonicalize(v) # {} <=> Unambiguous(v)
           /\ \A v \in S : \A c \in C!Canonicalize(v) : C!Canonicalize(c) = {c}
           /\ \A v, w \in S : \A c \in C!Canonicalize(v), e \in C!Canonicalize(w) :
                 c = e <=> Meaning(v) = Meaning(w)
  BY Zenon DEF Settled, Settles, C!Canonicalize, Meaning, Unambiguous

LEMMA EntriesSettle ==
    ASSUME NEW k, Settled(C!Values[k])
    PROVE  Settles(EntriesAt(k), [x \in EntriesAt(k) |-> EntryForms(x)],
                   [x \in EntriesAt(k) |-> EntryMeaning(x)], [x \in EntriesAt(k) |-> EntryUnambiguous(x)])
<1> DEFINE E == EntriesAt(k) S == C!Values[k]
<1>1. \A x \in E : x.key \in S /\ x.value \in S /\ x = [key |-> x.key, value |-> x.value]
  BY DEF EntriesAt
<1>2. \A a, b \in S : [key |-> a, value |-> b] \in E
  BY DEF EntriesAt
<1>3. /\ \A v \in S : /\ C!Canonicalize(v) \subseteq S /\ AtMostOne(C!Canonicalize(v))
                      /\ C!Canonicalize(v) # {} <=> Unambiguous(v)
      /\ \A v \in S : \A c \in C!Canonicalize(v) : C!Canonicalize(c) = {c}
      /\ \A v, w \in S : \A c \in C!Canonicalize(v), e \in C!Canonicalize(w) :
            c = e <=> Meaning(v) = Meaning(w)
  BY SettledSays
<1>4. ASSUME NEW x, NEW c
      PROVE  c \in EntryForms(x) <=>
                \E key \in C!Canonicalize(x.key), its \in C!Canonicalize(x.value) : c = [key |-> key, value |-> its]
  BY DEF EntryForms
<1>5. ASSUME NEW x, NEW c \in EntryForms(x)
      PROVE  /\ c.key \in C!Canonicalize(x.key) /\ c.value \in C!Canonicalize(x.value)
             /\ c = [key |-> c.key, value |-> c.value]
  <2>1. PICK key \in C!Canonicalize(x.key), its \in C!Canonicalize(x.value) : c = [key |-> key, value |-> its]
    BY <1>4, Zenon
  <2>2. c.key = key /\ c.value = its
    BY <2>1
  <2> QED
    BY <2>1, <2>2
<1> HIDE DEF E, S
<1>6. ASSUME NEW x \in E PROVE EntryForms(x) \subseteq E
  <2>1. ASSUME NEW c \in EntryForms(x) PROVE c \in E
    BY <1>1, <1>2, <1>3, <1>5
  <2> QED
    BY <2>1
<1>7. ASSUME NEW x \in E, NEW y \in E, NEW c \in EntryForms(x), NEW e \in EntryForms(y)
      PROVE  c = e <=> EntryMeaning(x) = EntryMeaning(y)
  <2>1. c.key = e.key <=> Meaning(x.key) = Meaning(y.key)
    BY <1>1, <1>3, <1>5
  <2>2. c.value = e.value <=> Meaning(x.value) = Meaning(y.value)
    BY <1>1, <1>3, <1>5
  <2>3. c = [key |-> c.key, value |-> c.value] /\ e = [key |-> e.key, value |-> e.value]
    BY <1>5
  <2>4. c = e <=> c.key = e.key /\ c.value = e.value
    BY <2>3
  <2>5. EntryMeaning(x) = EntryMeaning(y) <=> Meaning(x.key) = Meaning(y.key) /\ Meaning(x.value) = Meaning(y.value)
    <3>1. /\ EntryMeaning(x).key = Meaning(x.key) /\ EntryMeaning(x).value = Meaning(x.value)
          /\ EntryMeaning(y).key = Meaning(y.key) /\ EntryMeaning(y).value = Meaning(y.value)
      BY DEF EntryMeaning
    <3> QED
      BY <3>1 DEF EntryMeaning
  <2> QED
    BY <2>1, <2>2, <2>4, <2>5
<1>8. ASSUME NEW x \in E PROVE AtMostOne(EntryForms(x))
  <2>1. \A c, e \in EntryForms(x) : c = e
    BY <1>7
  <2> QED
    BY <2>1 DEF AtMostOne
<1>9. ASSUME NEW x \in E PROVE EntryForms(x) # {} <=> EntryUnambiguous(x)
  <2>1. EntryForms(x) # {} <=> C!Canonicalize(x.key) # {} /\ C!Canonicalize(x.value) # {}
    <3>1. ASSUME NEW c \in EntryForms(x) PROVE C!Canonicalize(x.key) # {} /\ C!Canonicalize(x.value) # {}
      BY <1>5
    <3>2. ASSUME NEW a \in C!Canonicalize(x.key), NEW b \in C!Canonicalize(x.value) PROVE EntryForms(x) # {}
      <4>1. [key |-> a, value |-> b] \in EntryForms(x)
        BY <1>4
      <4> QED
        BY <4>1
    <3> QED
      BY <3>1, <3>2
  <2>2. (C!Canonicalize(x.key) # {} <=> Unambiguous(x.key)) /\ (C!Canonicalize(x.value) # {} <=> Unambiguous(x.value))
    BY <1>1, <1>3
  <2> QED
    BY <2>1, <2>2, Zenon DEF EntryUnambiguous
<1>10. ASSUME NEW x \in E, NEW c \in EntryForms(x) PROVE EntryForms(c) = {c}
  <2>1. C!Canonicalize(c.key) = {c.key} /\ C!Canonicalize(c.value) = {c.value}
    BY <1>1, <1>3, <1>5
  <2>2. \A e \in EntryForms(c) : e = c
    <3>1. ASSUME NEW e \in EntryForms(c) PROVE e = c
      <4>1. e = [key |-> e.key, value |-> e.value] /\ e.key = c.key /\ e.value = c.value
        BY <1>5, <2>1
      <4> QED
        BY <1>5, <4>1
    <3> QED
      BY <3>1
  <2>3. c \in EntryForms(c)
    BY <1>4, <1>5, <2>1
  <2> QED
    BY <2>2, <2>3
<1> DEFINE F == [x \in E |-> EntryForms(x)] N == [x \in E |-> EntryMeaning(x)] U == [x \in E |-> EntryUnambiguous(x)]
<1>11. \A x \in E : F[x] = EntryForms(x) /\ N[x] = EntryMeaning(x)
  OBVIOUS
<1>12. \A x \in E : U[x] = EntryUnambiguous(x)
  BY Zenon
<1> HIDE DEF F, N, U
<1>13. \A v \in E : F[v] \subseteq E /\ AtMostOne(F[v])
  BY <1>6, <1>8, <1>11
<1>14. \A v \in E : F[v] # {} <=> U[v]
  BY <1>9, <1>11, <1>12, Zenon
<1>15. \A v \in E : \A c \in F[v] : F[c] = {c}
  BY <1>6, <1>10, <1>11
<1>16. \A v, w \in E : \A c \in F[v], e \in F[w] : c = e <=> N[v] = N[w]
  BY <1>7, <1>11
<1>17. Settles(E, F, N, U)
  BY <1>13, <1>14, <1>15, <1>16, Zenon DEF Settles
<1> QED
  BY <1>17 DEF E, F, N, U

-----------------------------------------------------------------------------
(* The laws of each shape, at any depth.                                       *)

LEMMA ScalarSays ==
    ASSUME NEW v \in C!Values[MaxDepth], IsScalar(v)
    PROVE  /\ Meaning(v) = v
           /\ C!Canonicalize(v) \subseteq {v}
           /\ C!Canonicalize(v) # {} <=> Unambiguous(v)
<1>1. /\ Meaning(v) = MeaningBy(Meanings[MaxDepth], v)
      /\ C!Canonicalize(v) = C!CanonicalizeBy(C!Canonicals[MaxDepth], v)
      /\ Unambiguous(v) = UnambiguousBy(Unambiguities[MaxDepth], v)
  BY MeaningHolds, CanonicalHolds, UnambiguousHolds
<1> DEFINE m == Meanings[MaxDepth] c == C!Canonicals[MaxDepth] u == Unambiguities[MaxDepth]
           Said == /\ MeaningBy(m, v) = v
                   /\ C!CanonicalizeBy(c, v) \subseteq {v}
                   /\ C!CanonicalizeBy(c, v) # {} <=> UnambiguousBy(u, v)
<1> HIDE DEF m, c, u
<1>2. ASSUME v = C!Null PROVE Said
  <2>1. MeaningBy(m, v) = v /\ C!CanonicalizeBy(c, v) = {v} /\ UnambiguousBy(u, v) = TRUE
    BY <1>2, MeaningScalar, CanonicalScalar, UnambiguousScalar, Zenon
  <2> QED
    BY <2>1
<1>3. ASSUME NEW n, v = C!Integer(n) PROVE Said
  <2>1. MeaningBy(m, v) = v /\ C!CanonicalizeBy(c, v) = {v} /\ UnambiguousBy(u, v) = TRUE
    BY <1>3, MeaningScalar, CanonicalScalar, UnambiguousScalar, Zenon
  <2> QED
    BY <2>1
<1>4. ASSUME NEW f \in DOMAIN C!FloatBytes, v = C!Float(f) PROVE Said
  <2>1. MeaningBy(m, v) = v /\ UnambiguousBy(u, v) = (f \in {"zero", "half"})
    BY <1>4, MeaningScalar, UnambiguousScalar, Zenon
  <2>2. C!CanonicalizeBy(c, v) = IF C!FloatIsCanonical(f) THEN {v} ELSE {}
    <3>1. C!CanonicalizeBy(c, C!Float(f)) = IF C!FloatIsCanonical(f) THEN {C!Float(f)} ELSE {}
      BY CanonicalScalar
    <3> QED
      BY <1>4, <3>1
  <2>3. C!FloatIsCanonical(f) <=> f \in {"zero", "half"}
    BY DEF C!FloatIsCanonical, C!FloatBytes
  <2>4. C!CanonicalizeBy(c, v) \subseteq {v}
    BY <2>2
  <2>5. C!CanonicalizeBy(c, v) # {} <=> f \in {"zero", "half"}
    BY <2>2, <2>3
  <2> QED
    BY <2>1, <2>4, <2>5, Zenon
<1>5. ASSUME NEW units, v = C!Text(units) PROVE Said
  <2>1. MeaningBy(m, v) = v /\ C!CanonicalizeBy(c, v) = {v} /\ UnambiguousBy(u, v) = TRUE
    BY <1>5, MeaningScalar, CanonicalScalar, UnambiguousScalar, Zenon
  <2> QED
    BY <2>1
<1>6. ASSUME NEW units, v = C!Bytes(units) PROVE Said
  <2>1. MeaningBy(m, v) = v /\ C!CanonicalizeBy(c, v) = {v} /\ UnambiguousBy(u, v) = TRUE
    BY <1>6, MeaningScalar, CanonicalScalar, UnambiguousScalar, Zenon
  <2> QED
    BY <2>1
<1>7. Said
  BY <1>2, <1>3, <1>4, <1>5, <1>6, Zenon DEF IsScalar
<1> QED
  BY <1>1, <1>7, Zenon DEF m, c, u

LEMMA ArraySays ==
    ASSUME NEW items, C!Array(items) \in C!Values[MaxDepth]
    PROVE  /\ Meaning(C!Array(items)) = C!Array([i \in DOMAIN items |-> Meanings[MaxDepth][items[i]]])
           /\ C!Canonicalize(C!Array(items)) =
                 {C!Array(all) : all \in C!All([i \in DOMAIN items |-> C!Canonicals[MaxDepth][items[i]]])}
           /\ Unambiguous(C!Array(items)) = \A i \in DOMAIN items : Unambiguities[MaxDepth][items[i]]
<1>1. PICK m : m = Meanings[MaxDepth]
  OBVIOUS
<1>2. PICK c : c = C!Canonicals[MaxDepth]
  OBVIOUS
<1>3. PICK u : u = Unambiguities[MaxDepth]
  OBVIOUS
<1>4. Meaning(C!Array(items)) = MeaningBy(m, C!Array(items))
  BY <1>1, MeaningHolds
<1>5. C!Canonicalize(C!Array(items)) = C!CanonicalizeBy(c, C!Array(items))
  BY <1>2, CanonicalHolds
<1>6. Unambiguous(C!Array(items)) = UnambiguousBy(u, C!Array(items))
  BY <1>3, UnambiguousHolds
<1>7. MeaningBy(m, C!Array(items)) = C!Array([i \in DOMAIN items |-> m[items[i]]])
  BY MeaningArray
<1>8. C!CanonicalizeBy(c, C!Array(items)) = {C!Array(all) : all \in C!All([i \in DOMAIN items |-> c[items[i]]])}
  BY CanonicalArray
<1>9. UnambiguousBy(u, C!Array(items)) = \A i \in DOMAIN items : u[items[i]]
  BY UnambiguousArray, Zenon
<1>10. Meaning(C!Array(items)) = C!Array([i \in DOMAIN items |-> Meanings[MaxDepth][items[i]]])
  BY <1>1, <1>4, <1>7
<1>11. C!Canonicalize(C!Array(items)) =
           {C!Array(all) : all \in C!All([i \in DOMAIN items |-> C!Canonicals[MaxDepth][items[i]]])}
  BY <1>2, <1>5, <1>8
<1>12. Unambiguous(C!Array(items)) = \A i \in DOMAIN items : Unambiguities[MaxDepth][items[i]]
  BY <1>3, <1>6, <1>9, Zenon
<1> QED
  BY <1>10, <1>11, <1>12, Zenon

LEMMA TagSays ==
    ASSUME NEW tag, NEW item, C!Tag(tag, item) \in C!Values[MaxDepth]
    PROVE  /\ Meaning(C!Tag(tag, item)) = C!Tag(tag, Meaning(item))
           /\ C!Canonicalize(C!Tag(tag, item)) = {C!Tag(tag, its) : its \in C!Canonicalize(item)}
           /\ Unambiguous(C!Tag(tag, item)) = Unambiguous(item)
<1>1. Meaning(C!Tag(tag, item)) = C!Tag(tag, Meaning(item))
  <2>1. Meaning(C!Tag(tag, item)) = MeaningBy(Meanings[MaxDepth], C!Tag(tag, item))
    BY MeaningHolds
  <2>2. MeaningBy(Meanings[MaxDepth], C!Tag(tag, item)) = C!Tag(tag, Meanings[MaxDepth][item])
    BY MeaningTag
  <2> QED
    BY <2>1, <2>2, Zenon DEF Meaning
<1>2. C!Canonicalize(C!Tag(tag, item)) = {C!Tag(tag, its) : its \in C!Canonicalize(item)}
  <2>1. C!Canonicalize(C!Tag(tag, item)) = C!CanonicalizeBy(C!Canonicals[MaxDepth], C!Tag(tag, item))
    BY CanonicalHolds
  <2>2. C!CanonicalizeBy(C!Canonicals[MaxDepth], C!Tag(tag, item)) = {C!Tag(tag, its) : its \in C!Canonicals[MaxDepth][item]}
    BY CanonicalTag
  <2> QED
    BY <2>1, <2>2, Zenon DEF C!Canonicalize
<1>3. Unambiguous(C!Tag(tag, item)) = Unambiguous(item)
  <2>1. Unambiguous(C!Tag(tag, item)) = UnambiguousBy(Unambiguities[MaxDepth], C!Tag(tag, item))
    BY UnambiguousHolds
  <2>2. UnambiguousBy(Unambiguities[MaxDepth], C!Tag(tag, item)) = Unambiguities[MaxDepth][item]
    BY UnambiguousTag
  <2> QED
    BY <2>1, <2>2, Zenon DEF Unambiguous
<1> QED
  BY <1>1, <1>2, <1>3, Zenon

LEMMA MapSays ==
    ASSUME NEW entries, C!Map(entries) \in C!Values[MaxDepth]
    PROVE  /\ Meaning(C!Map(entries)) = C!Map({EntryMeaning(entries[i]) : i \in DOMAIN entries})
           /\ C!Canonicalize(C!Map(entries)) =
                 {C!Map(C!SortedByKey(all)) :
                     all \in {its \in C!All([i \in DOMAIN entries |-> EntryForms(entries[i])]) :
                                 C!KeysDistinct(entries, its)}}
           /\ Unambiguous(C!Map(entries)) <=>
                 \A i \in DOMAIN entries :
                     /\ EntryUnambiguous(entries[i])
                     /\ \A j \in DOMAIN entries : Meaning(entries[i].key) = Meaning(entries[j].key) => i = j
<1>1. Meaning(C!Map(entries)) = C!Map({EntryMeaning(entries[i]) : i \in DOMAIN entries})
  <2>1. Meaning(C!Map(entries)) = MeaningBy(Meanings[MaxDepth], C!Map(entries))
    BY MeaningHolds
  <2>2. MeaningBy(Meanings[MaxDepth], C!Map(entries)) =
            C!Map({[key |-> Meanings[MaxDepth][entries[i].key], value |-> Meanings[MaxDepth][entries[i].value]] :
                      i \in DOMAIN entries})
    BY MeaningMap
  <2> QED
    BY <2>1, <2>2, Zenon DEF Meaning, EntryMeaning
<1>2. CanonicalEntries(C!Canonicals[MaxDepth], entries) = C!All([i \in DOMAIN entries |-> EntryForms(entries[i])])
  BY DEF CanonicalEntries, EntryForms, C!Canonicalize
<1>3. C!Canonicalize(C!Map(entries)) =
          {C!Map(C!SortedByKey(all)) :
              all \in {its \in C!All([i \in DOMAIN entries |-> EntryForms(entries[i])]) :
                          C!KeysDistinct(entries, its)}}
  <2>1. C!Canonicalize(C!Map(entries)) = C!CanonicalizeBy(C!Canonicals[MaxDepth], C!Map(entries))
    BY CanonicalHolds
  <2>2. C!CanonicalizeBy(C!Canonicals[MaxDepth], C!Map(entries)) =
            {C!Map(C!SortedByKey(all)) :
                all \in {its \in CanonicalEntries(C!Canonicals[MaxDepth], entries) : C!KeysDistinct(entries, its)}}
    BY CanonicalMap
  <2> QED
    BY <1>2, <2>1, <2>2
<1>4. Unambiguous(C!Map(entries)) <=>
          \A i \in DOMAIN entries :
              /\ EntryUnambiguous(entries[i])
              /\ \A j \in DOMAIN entries : Meaning(entries[i].key) = Meaning(entries[j].key) => i = j
  <2>1. Unambiguous(C!Map(entries)) = UnambiguousBy(Unambiguities[MaxDepth], C!Map(entries))
    BY UnambiguousHolds
  <2>2. UnambiguousBy(Unambiguities[MaxDepth], C!Map(entries)) =
            (\A i \in DOMAIN entries :
                /\ Unambiguities[MaxDepth][entries[i].key] /\ Unambiguities[MaxDepth][entries[i].value]
                /\ \A j \in DOMAIN entries :
                      Meaning(entries[i].key) = Meaning(entries[j].key) => i = j)
    BY UnambiguousMap, Zenon
  <2>3. (\A i \in DOMAIN entries :
             /\ Unambiguities[MaxDepth][entries[i].key] /\ Unambiguities[MaxDepth][entries[i].value]
             /\ \A j \in DOMAIN entries :
                   Meaning(entries[i].key) = Meaning(entries[j].key) => i = j)
        <=> \A i \in DOMAIN entries :
                /\ EntryUnambiguous(entries[i])
                /\ \A j \in DOMAIN entries : Meaning(entries[i].key) = Meaning(entries[j].key) => i = j
    BY Zenon DEF EntryUnambiguous, Unambiguous
  <2> QED
    BY <2>1, <2>2, <2>3, Zenon
<1> QED
  BY <1>1, <1>3, <1>4, Zenon

LEMMA ContainersAreValues ==
    ASSUME NEW k \in 0..MaxDepth, k # MaxDepth, NEW v, IsContainer(k, v)
    PROVE  v \in C!Values[k + 1] /\ v \in C!Values[MaxDepth]
<1>1. PICK d \in 0..MaxDepth : d = k + 1 /\ d # 0 /\ d - 1 = k
  BY DepthIsNatural
<1>2. IsContainer(d - 1, v)
  BY <1>1, Zenon
<1>3. v \in C!Values[d]
  BY <1>1, <1>2, ValueShapes
<1> QED
  BY <1>1, <1>3, ValuesWithin

LEMMA EntriesTurn ==
    ASSUME NEW s, NEW t, SameEntries(s, t)
    PROVE  SameEntries(t, s)
  BY DEF SameEntries

LEMMA EntriesChain ==
    ASSUME NEW s, NEW t, NEW w, SameEntries(s, t), SameEntries(t, w)
    PROVE  SameEntries(s, w)
<1>1. \A i \in DOMAIN s : \E j \in DOMAIN w : s[i] = w[j]
  BY DEF SameEntries
<1>2. \A j \in DOMAIN w : \E i \in DOMAIN s : s[i] = w[j]
  BY DEF SameEntries
<1> QED
  BY <1>1, <1>2, Zenon DEF SameEntries

LEMMA EntryFormsSay ==
    ASSUME NEW k, Settled(C!Values[k])
    PROVE  /\ \A x, y \in EntriesAt(k) : \A c \in EntryForms(x), e \in EntryForms(y) :
                 /\ c = e <=> EntryMeaning(x) = EntryMeaning(y)
                 /\ c.key = e.key <=> Meaning(x.key) = Meaning(y.key)
           /\ \A x \in EntriesAt(k) : \A c \in EntryForms(x) : EntryForms(c) = {c}
<1> DEFINE E == EntriesAt(k)
           F == [x \in E |-> EntryForms(x)]
           N == [x \in E |-> EntryMeaning(x)]
           U == [x \in E |-> EntryUnambiguous(x)]
<1>1. Settles(E, F, N, U)
  BY EntriesSettle
<1>2. \A x \in E : F[x] = EntryForms(x) /\ N[x] = EntryMeaning(x)
  OBVIOUS
<1>3. \A x \in E : x.key \in C!Values[k]
  BY DEF EntriesAt
<1> HIDE DEF E, F, N, U
<1>4. \A x, y \in E : \A c \in EntryForms(x), e \in EntryForms(y) : c = e <=> EntryMeaning(x) = EntryMeaning(y)
  BY <1>1, <1>2 DEF Settles
<1>5. \A x, y \in E : \A c \in EntryForms(x), e \in EntryForms(y) : c.key = e.key <=> Meaning(x.key) = Meaning(y.key)
  <2>1. ASSUME NEW x, NEW c \in EntryForms(x) PROVE c.key \in C!Canonicalize(x.key)
    BY DEF EntryForms
  <2> QED
    BY <1>3, <2>1, SettledSays
<1>6. \A x \in E : \A c \in EntryForms(x) : EntryForms(c) = {c}
  <2>1. ASSUME NEW x \in E, NEW c \in EntryForms(x) PROVE EntryForms(c) = {c}
    <3>1. c \in E /\ F[c] = {c}
      BY <1>1, <1>2 DEF Settles
    <3> QED
      BY <1>2, <3>1
  <2> QED
    BY <2>1
<1> QED
  BY <1>4, <1>5, <1>6 DEF E

\* What the entries of a map become.
LEMMA EntriesBecome ==
    ASSUME NEW k, Settled(C!Values[k]), NEW entries \in C!Lists(EntriesAt(k))
    PROVE  /\ \A f \in C!All([i \in DOMAIN entries |-> EntryForms(entries[i])]) :
                 /\ f \in C!Lists(EntriesAt(k)) /\ DOMAIN f = DOMAIN entries /\ Len(f) = Len(entries)
                 /\ \A i \in DOMAIN entries : f[i] \in EntryForms(entries[i]) /\ f[i] \in EntriesAt(k)
           /\ AtMostOne(C!All([i \in DOMAIN entries |-> EntryForms(entries[i])]))
           /\ C!All([i \in DOMAIN entries |-> EntryForms(entries[i])]) # {}
                 <=> \A i \in DOMAIN entries : EntryUnambiguous(entries[i])
<1> DEFINE E == EntriesAt(k)
           F == [x \in E |-> EntryForms(x)]
           N == [x \in E |-> EntryMeaning(x)]
           U == [x \in E |-> EntryUnambiguous(x)]
           R == C!All([i \in DOMAIN entries |-> EntryForms(entries[i])])
<1>1. Settles(E, F, N, U)
  BY EntriesSettle
<1>2. \A x \in E : F[x] = EntryForms(x)
  OBVIOUS
<1>3. \A x \in E : U[x] = EntryUnambiguous(x)
  BY Zenon
<1>4. \A i \in DOMAIN entries : entries[i] \in E
  BY PartsAreIn
<1>5. entries \in C!Lists(E)
  OBVIOUS
<1> HIDE DEF E, F, N, U
<1>6. R = C!All([i \in DOMAIN entries |-> F[entries[i]]])
  <2>1. [i \in DOMAIN entries |-> EntryForms(entries[i])] = [i \in DOMAIN entries |-> F[entries[i]]]
    BY <1>2, <1>4
  <2> QED
    BY <2>1, Zenon
<1> HIDE DEF R
<1>7. \A f \in C!All([i \in DOMAIN entries |-> F[entries[i]]]) :
         /\ f \in C!Lists(E) /\ DOMAIN f = DOMAIN entries /\ Len(f) = Len(entries)
         /\ \A i \in DOMAIN entries : f[i] \in F[entries[i]] /\ f[i] \in E
  BY <1>1, <1>5, ListsSettle
<1>8. AtMostOne(C!All([i \in DOMAIN entries |-> F[entries[i]]]))
  BY <1>1, <1>5, ListsSettle
<1>9. C!All([i \in DOMAIN entries |-> F[entries[i]]]) # {} <=> \A i \in DOMAIN entries : U[entries[i]]
  BY <1>1, <1>5, ListsSettle, Zenon
<1>10. \A f \in R :
          /\ f \in C!Lists(E) /\ DOMAIN f = DOMAIN entries /\ Len(f) = Len(entries)
          /\ \A i \in DOMAIN entries : f[i] \in EntryForms(entries[i]) /\ f[i] \in E
  BY <1>2, <1>4, <1>6, <1>7
<1>11. AtMostOne(R)
  BY <1>6, <1>8, Zenon
<1>12. R # {} <=> \A i \in DOMAIN entries : EntryUnambiguous(entries[i])
  BY <1>3, <1>4, <1>6, <1>9, Zenon
<1> QED
  BY <1>10, <1>11, <1>12, Zenon DEF R, E

\* A canonical map is ascending, with the entries its parts become.
LEMMA MapForms ==
    ASSUME NEW k \in 0..MaxDepth, k # MaxDepth, Settled(C!Values[k]), NEW entries \in C!Lists(EntriesAt(k))
    PROVE  /\ C!Map(entries) \in C!Values[MaxDepth]
           /\ \A c \in C!Canonicalize(C!Map(entries)) :
                 \E f \in C!All([i \in DOMAIN entries |-> EntryForms(entries[i])]) :
                     /\ c = C!Map(C!SortedByKey(f)) /\ C!SortedByKey(f) \in C!Lists(EntriesAt(k))
                     /\ Ascending(C!SortedByKey(f)) /\ SameEntries(C!SortedByKey(f), f)
           /\ AtMostOne(C!Canonicalize(C!Map(entries)))
           /\ C!Canonicalize(C!Map(entries)) # {} <=> Unambiguous(C!Map(entries))
<1> DEFINE R == C!All([i \in DOMAIN entries |-> EntryForms(entries[i])])
<1>1. C!Map(entries) \in C!Values[MaxDepth]
  <2>1. IsContainer(k, C!Map(entries))
    BY Zenon DEF IsContainer
  <2> QED
    BY <2>1, ContainersAreValues
<1>2. /\ C!Canonicalize(C!Map(entries)) =
            {C!Map(C!SortedByKey(all)) : all \in {its \in R : C!KeysDistinct(entries, its)}}
      /\ Unambiguous(C!Map(entries)) <=>
            \A i \in DOMAIN entries :
                /\ EntryUnambiguous(entries[i])
                /\ \A j \in DOMAIN entries : Meaning(entries[i].key) = Meaning(entries[j].key) => i = j
  BY <1>1, MapSays, Zenon
<1>3. /\ \A f \in R :
            /\ f \in C!Lists(EntriesAt(k)) /\ DOMAIN f = DOMAIN entries /\ Len(f) = Len(entries)
            /\ \A i \in DOMAIN entries : f[i] \in EntryForms(entries[i]) /\ f[i] \in EntriesAt(k)
      /\ AtMostOne(R)
      /\ R # {} <=> \A i \in DOMAIN entries : EntryUnambiguous(entries[i])
  BY EntriesBecome, Zenon
<1>4. \A x, y \in EntriesAt(k) : \A c \in EntryForms(x), e \in EntryForms(y) :
         c.key = e.key <=> Meaning(x.key) = Meaning(y.key)
  BY EntryFormsSay
<1>5. \A i \in DOMAIN entries : entries[i] \in EntriesAt(k)
  BY PartsAreIn
<1> HIDE DEF R
<1>6. ASSUME NEW f \in R
      PROVE  /\ f \in Seq(EntriesAt(k)) /\ Len(f) \in C!U64 /\ (C!KeysDistinct(entries, f) <=> KeysApart(f))
             /\ KeysApart(f) <=> \A i, j \in DOMAIN entries : Meaning(entries[i].key) = Meaning(entries[j].key) => i = j
  <2>1. f \in Seq(EntriesAt(k)) /\ Len(f) \in C!U64
    BY <1>3, LengthsFit
  <2>2. C!KeysDistinct(entries, f) <=> KeysApart(f)
    BY <2>1, DistinctKeys
  <2>3. \A i, j \in DOMAIN entries : f[i].key = f[j].key <=> Meaning(entries[i].key) = Meaning(entries[j].key)
    BY <1>3, <1>4, <1>5
  <2>4. DOMAIN f = DOMAIN entries
    BY <1>3
  <2> QED
    BY <2>1, <2>2, <2>3, <2>4 DEF KeysApart
<1>7. ASSUME NEW c \in C!Canonicalize(C!Map(entries))
      PROVE  \E f \in R : /\ c = C!Map(C!SortedByKey(f)) /\ C!SortedByKey(f) \in C!Lists(EntriesAt(k))
                          /\ Ascending(C!SortedByKey(f)) /\ SameEntries(C!SortedByKey(f), f)
  <2>1. PICK f \in R : c = C!Map(C!SortedByKey(f)) /\ C!KeysDistinct(entries, f)
    BY <1>2
  <2>2. f \in Seq(EntriesAt(k)) /\ Len(f) \in C!U64 /\ KeysApart(f)
    BY <1>6, <2>1
  <2>3. /\ C!SortedByKey(f) \in Seq(EntriesAt(k)) /\ Len(C!SortedByKey(f)) = Len(f)
        /\ SameEntries(C!SortedByKey(f), f) /\ Ascending(C!SortedByKey(f))
    BY <2>2, SortedArranges
  <2>4. C!SortedByKey(f) \in C!Lists(EntriesAt(k))
    BY <2>2, <2>3 DEF C!Lists
  <2> QED
    BY <2>1, <2>3, <2>4
<1>8. AtMostOne(C!Canonicalize(C!Map(entries)))
  BY <1>2, <1>3 DEF AtMostOne
<1>9. C!Canonicalize(C!Map(entries)) # {} <=> Unambiguous(C!Map(entries))
  <2>1. C!Canonicalize(C!Map(entries)) # {} <=> \E f \in R : C!KeysDistinct(entries, f)
    BY <1>2
  <2>2. \A f \in R : C!KeysDistinct(entries, f) <=>
           \A i, j \in DOMAIN entries : Meaning(entries[i].key) = Meaning(entries[j].key) => i = j
    BY <1>6
  <2>3. C!Canonicalize(C!Map(entries)) # {} <=>
           R # {} /\ \A i, j \in DOMAIN entries : Meaning(entries[i].key) = Meaning(entries[j].key) => i = j
    BY <2>1, <2>2
  <2> QED
    BY <1>2, <1>3, <2>3, Zenon
<1> QED
  BY <1>1, <1>7, <1>8, <1>9 DEF R

LEMMA MapsAlike ==
    ASSUME NEW k \in 0..MaxDepth, k # MaxDepth, Settled(C!Values[k]),
           NEW a \in C!Lists(EntriesAt(k)), NEW b \in C!Lists(EntriesAt(k)),
           NEW c \in C!Canonicalize(C!Map(a)), NEW e \in C!Canonicalize(C!Map(b))
    PROVE  c = e <=> Meaning(C!Map(a)) = Meaning(C!Map(b))
<1>1. PICK f \in C!All([i \in DOMAIN a |-> EntryForms(a[i])]) :
         /\ c = C!Map(C!SortedByKey(f)) /\ C!SortedByKey(f) \in C!Lists(EntriesAt(k))
         /\ Ascending(C!SortedByKey(f)) /\ SameEntries(C!SortedByKey(f), f)
  BY MapForms
<1>2. PICK g \in C!All([i \in DOMAIN b |-> EntryForms(b[i])]) :
         /\ e = C!Map(C!SortedByKey(g)) /\ C!SortedByKey(g) \in C!Lists(EntriesAt(k))
         /\ Ascending(C!SortedByKey(g)) /\ SameEntries(C!SortedByKey(g), g)
  BY MapForms
<1>3. PICK s, t : s = C!SortedByKey(f) /\ t = C!SortedByKey(g)
  OBVIOUS
<1>4. c = e <=> s = t
  BY <1>1, <1>2, <1>3 DEF C!Map
<1>5. s = t <=> SameEntries(f, g)
  <2>1. ASSUME s = t PROVE SameEntries(f, g)
    <3>1. SameEntries(f, s) /\ SameEntries(s, g)
      BY <1>1, <1>2, <1>3, <2>1, EntriesTurn, Zenon
    <3> QED
      BY <3>1, EntriesChain, Zenon
  <2>2. ASSUME SameEntries(f, g) PROVE s = t
    <3>1. SameEntries(s, g) /\ SameEntries(g, t)
      BY <1>1, <1>2, <1>3, <2>2, EntriesTurn, EntriesChain, Zenon
    <3>2. SameEntries(s, t)
      BY <3>1, EntriesChain, Zenon
    <3>3. s \in Seq(EntriesAt(k)) /\ t \in Seq(EntriesAt(k))
      BY <1>1, <1>2, <1>3, LengthsFit
    <3> QED
      BY <1>1, <1>2, <1>3, <3>2, <3>3, OneOrder
  <2> QED
    BY <2>1, <2>2
<1>6. /\ DOMAIN f = DOMAIN a /\ \A i \in DOMAIN a : f[i] \in EntryForms(a[i])
      /\ DOMAIN g = DOMAIN b /\ \A i \in DOMAIN b : g[i] \in EntryForms(b[i])
  BY EntriesBecome
<1>7. \A i \in DOMAIN a, j \in DOMAIN b : f[i] = g[j] <=> EntryMeaning(a[i]) = EntryMeaning(b[j])
  <2>1. (\A i \in DOMAIN a : a[i] \in EntriesAt(k)) /\ \A j \in DOMAIN b : b[j] \in EntriesAt(k)
    BY PartsAreIn
  <2>2. \A x, y \in EntriesAt(k) : \A l \in EntryForms(x), r \in EntryForms(y) :
           l = r <=> EntryMeaning(x) = EntryMeaning(y)
    BY EntryFormsSay
  <2> QED
    BY <1>6, <2>1, <2>2
<1> DEFINE A == {EntryMeaning(a[i]) : i \in DOMAIN a} B == {EntryMeaning(b[j]) : j \in DOMAIN b}
<1>8. SameEntries(f, g) <=> A = B
  <2>1. \A x : x \in A <=> \E i \in DOMAIN a : x = EntryMeaning(a[i])
    OBVIOUS
  <2>2. \A x : x \in B <=> \E j \in DOMAIN b : x = EntryMeaning(b[j])
    OBVIOUS
  <2> HIDE DEF A, B
  <2>3. ASSUME SameEntries(f, g) PROVE A = B
    <3>1. /\ \A i \in DOMAIN a : \E j \in DOMAIN b : f[i] = g[j]
          /\ \A j \in DOMAIN b : \E i \in DOMAIN a : g[j] = f[i]
      BY ONLY <1>6, <2>3 DEF SameEntries
    <3>2. ASSUME NEW x \in A PROVE x \in B
      <4>1. PICK i \in DOMAIN a : x = EntryMeaning(a[i])
        BY <2>1
      <4>2. PICK j \in DOMAIN b : f[i] = g[j]
        BY <3>1
      <4> QED
        BY ONLY <1>7, <2>2, <4>1, <4>2
    <3>3. ASSUME NEW x \in B PROVE x \in A
      <4>1. PICK j \in DOMAIN b : x = EntryMeaning(b[j])
        BY <2>2
      <4>2. PICK i \in DOMAIN a : g[j] = f[i]
        BY <3>1
      <4> QED
        BY ONLY <1>7, <2>1, <4>1, <4>2
    <3> QED
      BY ONLY <3>2, <3>3
  <2>4. ASSUME A = B PROVE SameEntries(f, g)
    <3>1. ASSUME NEW i \in DOMAIN a PROVE \E j \in DOMAIN b : f[i] = g[j]
      <4>1. PICK j \in DOMAIN b : EntryMeaning(a[i]) = EntryMeaning(b[j])
        BY ONLY <2>1, <2>2, <2>4, i \in DOMAIN a
      <4> QED
        BY ONLY <1>7, <4>1, i \in DOMAIN a
    <3>2. ASSUME NEW j \in DOMAIN b PROVE \E i \in DOMAIN a : g[j] = f[i]
      <4>1. PICK i \in DOMAIN a : EntryMeaning(a[i]) = EntryMeaning(b[j])
        BY ONLY <2>1, <2>2, <2>4, j \in DOMAIN b
      <4> QED
        BY ONLY <1>7, <4>1, j \in DOMAIN b
    <3> QED
      BY ONLY <1>6, <3>1, <3>2 DEF SameEntries
  <2> QED
    BY <2>3, <2>4
<1>9. Meaning(C!Map(a)) = C!Map(A) /\ Meaning(C!Map(b)) = C!Map(B)
  <2>1. C!Map(a) \in C!Values[MaxDepth] /\ C!Map(b) \in C!Values[MaxDepth]
    BY MapForms
  <2> QED
    BY <2>1, MapSays, Zenon
<1>10. C!Map(A) = C!Map(B) <=> A = B
  <2> HIDE DEF A, B
  <2> QED
    BY DEF C!Map
<1> QED
  BY <1>4, <1>5, <1>8, <1>9, <1>10, Zenon

LEMMA AscendingStays ==
    ASSUME NEW k \in 0..MaxDepth, k # MaxDepth, NEW s \in C!Lists(EntriesAt(k)), Ascending(s),
           \A p \in DOMAIN s : EntryForms(s[p]) = {s[p]}
    PROVE  /\ C!Canonicalize(C!Map(s)) = {C!Map(s)}
           /\ C!Map(s) \in C!Values[k + 1] /\ C!Map(s) \in C!Values[MaxDepth]
<1>1. s \in Seq(EntriesAt(k)) /\ s = [p \in DOMAIN s |-> s[p]]
  <2>1. s \in Seq(EntriesAt(k))
    BY LengthsFit
  <2> QED
    BY <2>1
<1>2. KeysApart(s) /\ C!SortedByKey(s) = s
  BY <1>1, SortedStays
<1>3. C!KeysDistinct(s, s)
  BY <1>1, <1>2, DistinctKeys
<1>4. C!All([p \in DOMAIN s |-> EntryForms(s[p])]) = {s}
  <2> DEFINE its == [p \in DOMAIN s |-> EntryForms(s[p])]
  <2>1. DOMAIN its = DOMAIN s /\ \A p \in DOMAIN s : its[p] = {s[p]}
    OBVIOUS
  <2> HIDE DEF its
  <2>2. s = [p \in DOMAIN its |-> s[p]] /\ \A p \in DOMAIN its : its[p] = {s[p]}
    BY <1>1, <2>1
  <2>3. C!All(its) = {s}
    BY <2>2, AllIsOne
  <2> QED
    BY <2>3 DEF its
<1>5. IsContainer(k, C!Map(s))
  BY Zenon DEF IsContainer
<1>6. C!Map(s) \in C!Values[k + 1] /\ C!Map(s) \in C!Values[MaxDepth]
  BY <1>5, ContainersAreValues
<1>7. C!Canonicalize(C!Map(s)) = {C!Map(s)}
  <2>1. C!Canonicalize(C!Map(s)) =
            {C!Map(C!SortedByKey(all)) :
                all \in {its \in C!All([p \in DOMAIN s |-> EntryForms(s[p])]) : C!KeysDistinct(s, its)}}
    BY <1>6, MapSays
  <2> QED
    BY <1>2, <1>3, <1>4, <2>1
<1> QED
  BY <1>6, <1>7

LEMMA MapStays ==
    ASSUME NEW k \in 0..MaxDepth, k # MaxDepth, Settled(C!Values[k]),
           NEW a \in C!Lists(EntriesAt(k)), NEW c \in C!Canonicalize(C!Map(a))
    PROVE  C!Canonicalize(c) = {c} /\ c \in C!Values[k + 1]
<1>1. PICK f \in C!All([i \in DOMAIN a |-> EntryForms(a[i])]) :
         /\ c = C!Map(C!SortedByKey(f)) /\ C!SortedByKey(f) \in C!Lists(EntriesAt(k))
         /\ Ascending(C!SortedByKey(f)) /\ SameEntries(C!SortedByKey(f), f)
  BY MapForms
<1>2. PICK s \in C!Lists(EntriesAt(k)) : s = C!SortedByKey(f)
  BY <1>1
<1>3. \A p \in DOMAIN s : EntryForms(s[p]) = {s[p]}
  <2>1. \A i \in DOMAIN a : a[i] \in EntriesAt(k)
    BY PartsAreIn
  <2>2. DOMAIN f = DOMAIN a /\ \A i \in DOMAIN a : f[i] \in EntryForms(a[i])
    BY EntriesBecome
  <2>3. \A i \in DOMAIN f : EntryForms(f[i]) = {f[i]}
    BY <2>1, <2>2, EntryFormsSay
  <2>4. \A p \in DOMAIN s : \E i \in DOMAIN f : s[p] = f[i]
    BY <1>1, <1>2 DEF SameEntries
  <2> QED
    BY <2>3, <2>4
<1>4. C!Canonicalize(C!Map(s)) = {C!Map(s)} /\ C!Map(s) \in C!Values[k + 1]
  BY <1>1, <1>2, <1>3, AscendingStays
<1> QED
  BY <1>1, <1>2, <1>4

LEMMA ArrayForms ==
    ASSUME NEW k \in 0..MaxDepth, k # MaxDepth, Settled(C!Values[k]), NEW items \in C!Lists(C!Values[k])
    PROVE  /\ C!Array(items) \in C!Values[MaxDepth]
           /\ \A c \in C!Canonicalize(C!Array(items)) :
                 /\ \E f \in C!All([i \in DOMAIN items |-> C!Canonicals[MaxDepth][items[i]]]) : c = C!Array(f)
                 /\ C!Canonicalize(c) = {c} /\ c \in C!Values[k + 1]
           /\ AtMostOne(C!Canonicalize(C!Array(items)))
           /\ C!Canonicalize(C!Array(items)) # {} <=> Unambiguous(C!Array(items))
<1> DEFINE F == C!Canonicals[MaxDepth] N == Meanings[MaxDepth] U == Unambiguities[MaxDepth] S == C!Values[k]
           R == C!All([i \in DOMAIN items |-> F[items[i]]])
<1>0. Settles(S, F, N, U) /\ items \in C!Lists(S)
  BY DEF Settled
<1>1. \A its \in C!Lists(S) : /\ C!Array(its) \in C!Values[k + 1]
                              /\ C!Array(its) \in C!Values[MaxDepth]
  <2>1. \A its \in C!Lists(S) : IsContainer(k, C!Array(its))
    BY Zenon DEF IsContainer
  <2> QED
    BY <2>1, ContainersAreValues
<1>2. \A its \in C!Lists(S) :
         C!Canonicalize(C!Array(its)) = {C!Array(all) : all \in C!All([i \in DOMAIN its |-> F[its[i]]])}
  BY <1>1, ArraySays
<1>3. Unambiguous(C!Array(items)) = \A i \in DOMAIN items : U[items[i]]
  BY <1>1, ArraySays, Zenon
<1> HIDE DEF F, N, U, S
<1>4. \A f \in C!All([i \in DOMAIN items |-> F[items[i]]]) :
         f \in C!Lists(S) /\ C!All([i \in DOMAIN f |-> F[f[i]]]) = {f}
  BY <1>0, ListsSettle
<1>5. C!All([i \in DOMAIN items |-> F[items[i]]]) # {} <=> \A i \in DOMAIN items : U[items[i]]
  BY <1>0, ListsSettle
<1>6. AtMostOne(C!All([i \in DOMAIN items |-> F[items[i]]]))
  BY <1>0, ListsSettle
<1>7. /\ \A f \in R : f \in C!Lists(S) /\ C!All([i \in DOMAIN f |-> F[f[i]]]) = {f}
      /\ AtMostOne(R) /\ (R # {} <=> \A i \in DOMAIN items : U[items[i]])
      /\ C!Canonicalize(C!Array(items)) = {C!Array(all) : all \in R}
  BY <1>0, <1>2, <1>4, <1>5, <1>6, Zenon
<1> HIDE DEF R
<1>8. ASSUME NEW c \in C!Canonicalize(C!Array(items))
      PROVE  /\ \E f \in R : c = C!Array(f)
             /\ C!Canonicalize(c) = {c} /\ c \in C!Values[k + 1]
  <2>1. PICK f \in R : c = C!Array(f)
    BY <1>7
  <2>2. f \in C!Lists(S) /\ C!All([i \in DOMAIN f |-> F[f[i]]]) = {f}
    BY <1>7
  <2>3. C!Canonicalize(C!Array(f)) = {C!Array(f)}
    BY <1>2, <2>2
  <2> QED
    BY <1>1, <2>1, <2>2, <2>3
<1>9. AtMostOne(C!Canonicalize(C!Array(items)))
  BY <1>7 DEF AtMostOne
<1>10. C!Canonicalize(C!Array(items)) # {} <=> Unambiguous(C!Array(items))
  <2>1. C!Canonicalize(C!Array(items)) # {} <=> R # {}
    BY <1>7
  <2> QED
    BY <1>3, <1>7, <2>1, Zenon
<1>11. C!Array(items) \in C!Values[MaxDepth]
  BY <1>0, <1>1
<1> QED
  BY <1>8, <1>9, <1>10, <1>11 DEF R, F

LEMMA ArraysAlike ==
    ASSUME NEW k \in 0..MaxDepth, k # MaxDepth, Settled(C!Values[k]),
           NEW a \in C!Lists(C!Values[k]), NEW b \in C!Lists(C!Values[k]),
           NEW c \in C!Canonicalize(C!Array(a)), NEW e \in C!Canonicalize(C!Array(b))
    PROVE  c = e <=> Meaning(C!Array(a)) = Meaning(C!Array(b))
<1> DEFINE F == C!Canonicals[MaxDepth] N == Meanings[MaxDepth] U == Unambiguities[MaxDepth] S == C!Values[k]
<1>0. Settles(S, F, N, U) /\ a \in C!Lists(S) /\ b \in C!Lists(S)
  BY DEF Settled
<1>1. PICK f \in C!All([i \in DOMAIN a |-> F[a[i]]]) : c = C!Array(f)
  BY ArrayForms
<1>2. PICK g \in C!All([i \in DOMAIN b |-> F[b[i]]]) : e = C!Array(g)
  BY ArrayForms
<1> DEFINE A == [i \in DOMAIN a |-> N[a[i]]] B == [i \in DOMAIN b |-> N[b[i]]]
<1>3. Meaning(C!Array(a)) = C!Array(A) /\ Meaning(C!Array(b)) = C!Array(B)
  <2>1. C!Array(a) \in C!Values[MaxDepth] /\ C!Array(b) \in C!Values[MaxDepth]
    BY ArrayForms
  <2> QED
    BY <2>1, ArraySays, Zenon
<1> HIDE DEF F, N, U, S
<1>4. f = g <=> [i \in DOMAIN a |-> N[a[i]]] = [i \in DOMAIN b |-> N[b[i]]]
  BY <1>0, ListsAlike
<1>5. f = g <=> A = B
  BY <1>4, Zenon
<1> HIDE DEF A, B
<1>6. (c = e <=> f = g) /\ (C!Array(A) = C!Array(B) <=> A = B)
  BY <1>1, <1>2 DEF C!Array
<1> QED
  BY <1>3, <1>5, <1>6, Zenon

LEMMA TagForms ==
    ASSUME NEW k \in 0..MaxDepth, k # MaxDepth, Settled(C!Values[k]), NEW tag \in C!U64, NEW item \in C!Values[k]
    PROVE  /\ C!Tag(tag, item) \in C!Values[MaxDepth]
           /\ \A c \in C!Canonicalize(C!Tag(tag, item)) :
                 /\ \E its \in C!Canonicalize(item) : c = C!Tag(tag, its)
                 /\ C!Canonicalize(c) = {c} /\ c \in C!Values[k + 1]
           /\ AtMostOne(C!Canonicalize(C!Tag(tag, item)))
           /\ C!Canonicalize(C!Tag(tag, item)) # {} <=> Unambiguous(C!Tag(tag, item))
<1>1. \A its \in C!Values[k] : C!Tag(tag, its) \in C!Values[k + 1] /\ C!Tag(tag, its) \in C!Values[MaxDepth]
  <2>1. \A its \in C!Values[k] : IsContainer(k, C!Tag(tag, its))
    BY Zenon DEF IsContainer
  <2> QED
    BY <2>1, ContainersAreValues
<1>2. \A its \in C!Values[k] :
         /\ C!Canonicalize(C!Tag(tag, its)) = {C!Tag(tag, all) : all \in C!Canonicalize(its)}
  BY <1>1, TagSays
<1>3. Unambiguous(C!Tag(tag, item)) = Unambiguous(item)
  BY <1>1, TagSays
<1>4. /\ C!Canonicalize(item) \subseteq C!Values[k] /\ AtMostOne(C!Canonicalize(item))
      /\ C!Canonicalize(item) # {} <=> Unambiguous(item)
      /\ \A c \in C!Canonicalize(item) : C!Canonicalize(c) = {c}
  BY SettledSays, Zenon
<1>5. ASSUME NEW c \in C!Canonicalize(C!Tag(tag, item))
      PROVE  /\ \E its \in C!Canonicalize(item) : c = C!Tag(tag, its)
             /\ C!Canonicalize(c) = {c} /\ c \in C!Values[k + 1]
  <2>1. PICK its \in C!Canonicalize(item) : c = C!Tag(tag, its)
    BY <1>2
  <2>2. its \in C!Values[k] /\ C!Canonicalize(its) = {its}
    BY <1>4
  <2>3. C!Canonicalize(C!Tag(tag, its)) = {C!Tag(tag, its)}
    BY <1>2, <2>2
  <2> QED
    BY <1>1, <2>1, <2>2, <2>3
<1>6. AtMostOne(C!Canonicalize(C!Tag(tag, item)))
  BY <1>2, <1>4 DEF AtMostOne
<1>7. C!Canonicalize(C!Tag(tag, item)) # {} <=> Unambiguous(C!Tag(tag, item))
  <2>1. C!Canonicalize(C!Tag(tag, item)) # {} <=> C!Canonicalize(item) # {}
    BY <1>2
  <2> QED
    BY <1>3, <1>4, <2>1, Zenon
<1> QED
  BY <1>1, <1>5, <1>6, <1>7

LEMMA TagsAlike ==
    ASSUME NEW k \in 0..MaxDepth, k # MaxDepth, Settled(C!Values[k]),
           NEW a \in C!U64, NEW x \in C!Values[k], NEW b \in C!U64, NEW y \in C!Values[k],
           NEW c \in C!Canonicalize(C!Tag(a, x)), NEW e \in C!Canonicalize(C!Tag(b, y))
    PROVE  c = e <=> Meaning(C!Tag(a, x)) = Meaning(C!Tag(b, y))
<1>1. PICK f \in C!Canonicalize(x) : c = C!Tag(a, f)
  BY TagForms
<1>2. PICK g \in C!Canonicalize(y) : e = C!Tag(b, g)
  BY TagForms
<1>3. f = g <=> Meaning(x) = Meaning(y)
  BY SettledSays
<1>4. Meaning(C!Tag(a, x)) = C!Tag(a, Meaning(x)) /\ Meaning(C!Tag(b, y)) = C!Tag(b, Meaning(y))
  BY TagForms, TagSays
<1>5. \A l, m : C!Tag(a, l) = C!Tag(b, m) <=> a = b /\ l = m
  <2> TAKE l, m
  <2>1. C!Tag(a, l).tag = a /\ C!Tag(a, l).item = l /\ C!Tag(b, m).tag = b /\ C!Tag(b, m).item = m
    BY DEF C!Tag
  <2> QED
    BY <2>1
<1> QED
  BY <1>1, <1>2, <1>3, <1>4, <1>5

-----------------------------------------------------------------------------
(* Every value.                                                               *)

LEMMA Kinds ==
    /\ \A v : IsScalar(v) => v.type \notin {"array", "map", "tag"}
    /\ \A items : C!Array(items).type = "array"
    /\ \A entries : C!Map(entries).type = "map"
    /\ \A tag, item : C!Tag(tag, item).type = "tag"
<1>1. ASSUME NEW v, IsScalar(v) PROVE v.type \notin {"array", "map", "tag"}
  BY <1>1 DEF IsScalar, C!Null, C!Integer, C!Float, C!Text, C!Bytes
<1>2. \A items : C!Array(items).type = "array"
  BY DEF C!Array
<1>3. \A entries : C!Map(entries).type = "map"
  BY DEF C!Map
<1>4. \A tag, item : C!Tag(tag, item).type = "tag"
  BY DEF C!Tag
<1> QED
  BY <1>1, <1>2, <1>3, <1>4

LEMMA OneValueSettles ==
    ASSUME NEW d \in 0..MaxDepth, d # 0 => Settled(C!Values[d - 1]), NEW v \in C!Values[d]
    PROVE  /\ C!Canonicalize(v) \subseteq C!Values[d] /\ AtMostOne(C!Canonicalize(v))
           /\ C!Canonicalize(v) # {} <=> Unambiguous(v)
           /\ \A c \in C!Canonicalize(v) : C!Canonicalize(c) = {c}
           /\ Meaning(v).type = v.type
           /\ \A c \in C!Canonicalize(v) : c.type = v.type
<1> DEFINE Goal == /\ C!Canonicalize(v) \subseteq C!Values[d] /\ AtMostOne(C!Canonicalize(v))
                   /\ C!Canonicalize(v) # {} <=> Unambiguous(v)
                   /\ \A c \in C!Canonicalize(v) : C!Canonicalize(c) = {c}
                   /\ Meaning(v).type = v.type
                   /\ \A c \in C!Canonicalize(v) : c.type = v.type
<1>1. v \in C!Values[MaxDepth] /\ (IsScalar(v) \/ (d # 0 /\ IsContainer(d - 1, v)))
  BY ValuesWithin, ValueShapes
<1>2. ASSUME IsScalar(v) PROVE Goal
  <2>1. /\ Meaning(v) = v
        /\ C!Canonicalize(v) \subseteq {v}
        /\ C!Canonicalize(v) # {} <=> Unambiguous(v)
    BY <1>1, <1>2, ScalarSays, Zenon
  <2>2. \A c \in C!Canonicalize(v) : c = v /\ C!Canonicalize(v) = {v}
    BY <2>1
  <2>3. AtMostOne(C!Canonicalize(v)) /\ C!Canonicalize(v) \subseteq C!Values[d]
    BY <2>2 DEF AtMostOne
  <2>4. \A c \in C!Canonicalize(v) : C!Canonicalize(c) = {c} /\ c.type = v.type
    BY <2>2
  <2> QED
    BY <2>1, <2>3, <2>4, Zenon
<1>3. ASSUME d # 0, IsContainer(d - 1, v) PROVE Goal
  <2>1. PICK k \in 0..MaxDepth : k = d - 1 /\ k + 1 = d /\ k # MaxDepth
    BY <1>3, DepthIsNatural
  <2>2. Settled(C!Values[k]) /\ IsContainer(k, v)
    BY <1>3, <2>1, Zenon
  <2>3. ASSUME NEW items \in C!Lists(C!Values[k]), v = C!Array(items) PROVE Goal
    <3>1. /\ \A c \in C!Canonicalize(v) :
                /\ \E f \in C!All([i \in DOMAIN items |-> C!Canonicals[MaxDepth][items[i]]]) : c = C!Array(f)
                /\ C!Canonicalize(c) = {c} /\ c \in C!Values[k + 1]
          /\ AtMostOne(C!Canonicalize(v))
          /\ C!Canonicalize(v) # {} <=> Unambiguous(v)
      BY <2>1, <2>2, <2>3, ArrayForms, Zenon
    <3>2. \A c \in C!Canonicalize(v) : c.type = v.type
      BY <2>3, <3>1, Kinds
    <3>3. Meaning(v).type = v.type
      BY <1>1, <2>3, ArraySays, Kinds
    <3>4. C!Canonicalize(v) \subseteq C!Values[d]
      BY <2>1, <3>1
    <3> QED
      BY <3>1, <3>2, <3>3, <3>4, Zenon
  <2>4. ASSUME NEW entries \in C!Lists(EntriesAt(k)), v = C!Map(entries) PROVE Goal
    <3>0. /\ \A c \in C!Canonicalize(C!Map(entries)) : \E s : c = C!Map(s)
          /\ AtMostOne(C!Canonicalize(C!Map(entries)))
          /\ C!Canonicalize(C!Map(entries)) # {} <=> Unambiguous(C!Map(entries))
      <4>1. ASSUME NEW c \in C!Canonicalize(C!Map(entries)) PROVE \E s : c = C!Map(s)
        <5>1. PICK f \in C!All([i \in DOMAIN entries |-> EntryForms(entries[i])]) : c = C!Map(C!SortedByKey(f))
          BY <2>1, <2>2, MapForms
        <5> QED
          BY <5>1, Zenon
      <4>2. AtMostOne(C!Canonicalize(C!Map(entries)))
        BY <2>1, <2>2, MapForms
      <4>3. C!Canonicalize(C!Map(entries)) # {} <=> Unambiguous(C!Map(entries))
        BY <2>1, <2>2, MapForms
      <4> QED
        BY <4>1, <4>2, <4>3, Zenon
    <3>1. /\ \A c \in C!Canonicalize(v) : \E s : c = C!Map(s)
          /\ AtMostOne(C!Canonicalize(v))
          /\ C!Canonicalize(v) # {} <=> Unambiguous(v)
      BY <2>4, <3>0, Zenon
    <3>2. \A c \in C!Canonicalize(v) : C!Canonicalize(c) = {c} /\ c \in C!Values[k + 1]
      BY <2>1, <2>2, <2>4, MapStays, Zenon
    <3>3. \A c \in C!Canonicalize(v) : c.type = v.type
      BY <2>4, <3>1, Kinds
    <3>4. Meaning(v).type = v.type
      BY <1>1, <2>4, MapSays, Kinds
    <3>5. C!Canonicalize(v) \subseteq C!Values[d]
      BY <2>1, <3>2
    <3> QED
      BY <3>1, <3>2, <3>3, <3>4, <3>5, Zenon
  <2>5. ASSUME NEW tag \in C!U64, NEW item \in C!Values[k], v = C!Tag(tag, item) PROVE Goal
    <3>0. /\ \A c \in C!Canonicalize(C!Tag(tag, item)) :
                /\ \E its \in C!Canonicalize(item) : c = C!Tag(tag, its)
                /\ C!Canonicalize(c) = {c} /\ c \in C!Values[k + 1]
          /\ AtMostOne(C!Canonicalize(C!Tag(tag, item)))
          /\ C!Canonicalize(C!Tag(tag, item)) # {} <=> Unambiguous(C!Tag(tag, item))
      BY <2>1, <2>2, TagForms
    <3>1. /\ \A c \in C!Canonicalize(v) :
                /\ \E its \in C!Canonicalize(item) : c = C!Tag(tag, its)
                /\ C!Canonicalize(c) = {c} /\ c \in C!Values[k + 1]
          /\ AtMostOne(C!Canonicalize(v))
          /\ C!Canonicalize(v) # {} <=> Unambiguous(v)
      BY <2>5, <3>0, Zenon
    <3>2. \A c \in C!Canonicalize(v) : c.type = v.type
      BY <2>5, <3>1, Kinds
    <3>3. Meaning(v).type = v.type
      BY <1>1, <2>5, TagSays, Kinds
    <3>4. C!Canonicalize(v) \subseteq C!Values[d]
      BY <2>1, <3>1
    <3> QED
      BY <3>1, <3>2, <3>3, <3>4, Zenon
  <2> QED
    BY <2>2, <2>3, <2>4, <2>5, Zenon DEF IsContainer
<1>4. Goal
  BY <1>1, <1>2, <1>3, Zenon
<1> QED
  BY <1>4, Zenon

LEMMA TwoValuesSettle ==
    ASSUME NEW d \in 0..MaxDepth, d # 0 => Settled(C!Values[d - 1]),
           NEW v \in C!Values[d], NEW w \in C!Values[d],
           NEW c \in C!Canonicalize(v), NEW e \in C!Canonicalize(w)
    PROVE  c = e <=> Meaning(v) = Meaning(w)
<1> DEFINE Goal == c = e <=> Meaning(v) = Meaning(w)
<1>1. /\ IsScalar(v) \/ (d # 0 /\ IsContainer(d - 1, v))
      /\ IsScalar(w) \/ (d # 0 /\ IsContainer(d - 1, w))
  BY ValueShapes
<1>2. Meaning(v).type = v.type /\ Meaning(w).type = w.type /\ c.type = v.type /\ e.type = w.type
  BY OneValueSettles
<1>3. ASSUME v.type # w.type PROVE Goal
  BY <1>2, <1>3
<1>4. ASSUME v.type = w.type, IsScalar(v) PROVE Goal
  <2>1. IsScalar(w)
    <3>1. ASSUME IsContainer(d - 1, w) PROVE FALSE
      <4>1. w.type \in {"array", "map", "tag"}
        BY <3>1, Kinds DEF IsContainer
      <4> QED
        BY <1>4, <4>1, Kinds
    <3> QED
      BY <1>1, <3>1
  <2>2. v \in C!Values[MaxDepth] /\ w \in C!Values[MaxDepth]
    BY ValuesWithin
  <2>3. c = v /\ e = w /\ Meaning(v) = v /\ Meaning(w) = w
    <3>1. Meaning(v) = v /\ C!Canonicalize(v) \subseteq {v}
      BY <1>4, <2>2, ScalarSays, Zenon
    <3>2. Meaning(w) = w /\ C!Canonicalize(w) \subseteq {w}
      BY <2>1, <2>2, ScalarSays, Zenon
    <3> QED
      BY <3>1, <3>2
  <2> QED
    BY <2>3
<1>5. ASSUME v.type = w.type, d # 0, IsContainer(d - 1, v) PROVE Goal
  <2>1. PICK k \in 0..MaxDepth : k = d - 1 /\ k + 1 = d /\ k # MaxDepth
    BY <1>5, DepthIsNatural
  <2>2. Settled(C!Values[k]) /\ IsContainer(k, v)
    BY <1>5, <2>1, Zenon
  <2>3. IsContainer(k, w)
    <3>1. v.type \in {"array", "map", "tag"}
      BY <2>2, Kinds DEF IsContainer
    <3>2. ~IsScalar(w)
      BY <1>5, <3>1, Kinds
    <3> QED
      BY <1>1, <2>1, <3>2, Zenon
  <2>4. /\ w.type = "array" => \E items \in C!Lists(C!Values[k]) : w = C!Array(items)
        /\ w.type = "map" => \E entries \in C!Lists(EntriesAt(k)) : w = C!Map(entries)
        /\ w.type = "tag" => \E tag \in C!U64, item \in C!Values[k] : w = C!Tag(tag, item)
    BY <2>3, Kinds DEF IsContainer
  <2>5. ASSUME NEW items \in C!Lists(C!Values[k]), v = C!Array(items) PROVE Goal
    <3>1. PICK others \in C!Lists(C!Values[k]) : w = C!Array(others)
      BY <1>5, <2>4, <2>5, Kinds
    <3>2. c \in C!Canonicalize(C!Array(items)) /\ e \in C!Canonicalize(C!Array(others))
      BY <2>5, <3>1
    <3>3. c = e <=> Meaning(C!Array(items)) = Meaning(C!Array(others))
      BY <2>1, <2>2, <3>2, ArraysAlike
    <3> QED
      BY <2>5, <3>1, <3>3
  <2>6. ASSUME NEW entries \in C!Lists(EntriesAt(k)), v = C!Map(entries) PROVE Goal
    <3>1. PICK others \in C!Lists(EntriesAt(k)) : w = C!Map(others)
      BY <1>5, <2>4, <2>6, Kinds
    <3>2. c \in C!Canonicalize(C!Map(entries)) /\ e \in C!Canonicalize(C!Map(others))
      BY <2>6, <3>1
    <3>3. c = e <=> Meaning(C!Map(entries)) = Meaning(C!Map(others))
      BY <2>1, <2>2, <3>2, MapsAlike
    <3> QED
      BY <2>6, <3>1, <3>3
  <2>7. ASSUME NEW tag \in C!U64, NEW item \in C!Values[k], v = C!Tag(tag, item) PROVE Goal
    <3>1. PICK b \in C!U64, y \in C!Values[k] : w = C!Tag(b, y)
      BY <1>5, <2>4, <2>7, Kinds
    <3>2. c \in C!Canonicalize(C!Tag(tag, item)) /\ e \in C!Canonicalize(C!Tag(b, y))
      BY <2>7, <3>1
    <3>3. c = e <=> Meaning(C!Tag(tag, item)) = Meaning(C!Tag(b, y))
      BY <2>1, <2>2, <3>2, TagsAlike
    <3> QED
      BY <2>7, <3>1, <3>3
  <2> QED
    BY <2>2, <2>5, <2>6, <2>7, Zenon DEF IsContainer
<1>6. Goal
  BY <1>1, <1>3, <1>4, <1>5, Zenon
<1> QED
  BY <1>6, Zenon

LEMMA ValuesSettle ==
    \A d \in 0..MaxDepth : Settled(C!Values[d])
<1> DEFINE U == {d \in Nat : d \in 0..MaxDepth => Settled(C!Values[d])}
<1>1. ASSUME NEW d \in 0..MaxDepth, d # 0 => Settled(C!Values[d - 1])
      PROVE  Settled(C!Values[d])
  <2> DEFINE S == C!Values[d]
  <2>1. \A v \in S : /\ C!Canonicalize(v) \subseteq S /\ AtMostOne(C!Canonicalize(v))
                     /\ C!Canonicalize(v) # {} <=> Unambiguous(v)
    BY <1>1, OneValueSettles, Zenon
  <2>2. \A v \in S : \A c \in C!Canonicalize(v) : C!Canonicalize(c) = {c}
    BY <1>1, OneValueSettles, Zenon
  <2>3. \A v, w \in S : \A c \in C!Canonicalize(v), e \in C!Canonicalize(w) :
           c = e <=> Meaning(v) = Meaning(w)
    BY <1>1, TwoValuesSettle, Zenon
  <2> QED
    BY <2>1, <2>2, <2>3, Zenon DEF Settled, Settles, C!Canonicalize, Meaning, Unambiguous
<1>2. 0 \in U
  BY <1>1
<1>3. ASSUME NEW k \in Nat, k \in U PROVE k + 1 \in U
  <2> SUFFICES ASSUME k + 1 \in 0..MaxDepth PROVE Settled(C!Values[k + 1])
    OBVIOUS
  <2>1. k \in 0..MaxDepth /\ (k + 1) - 1 = k
    BY DepthIsNatural
  <2>2. Settled(C!Values[(k + 1) - 1])
    BY <1>3, <2>1
  <2> QED
    BY <1>1, <2>2
<1>4. Nat \subseteq U
  <2> HIDE DEF U
  <2> QED
    BY <1>2, <1>3, EveryNumber
<1> QED
  BY <1>4, DepthIsNatural

-----------------------------------------------------------------------------
(* The questions.                                                             *)

\* What was answered is the answer to what was asked.
Answered == question # None => question \in Questions /\ answer = Answer(question)

LEMMA QuestionsAreAnswered == AskSpec => []Answered
<1>1. AskInit => Answered
  BY DEF AskInit, Answered
<1>2. Answered /\ [Ask]_<<calls, askVars>> => Answered'
  <2> SUFFICES ASSUME Answered, [Ask]_<<calls, askVars>> PROVE Answered'
    OBVIOUS
  <2>1. CASE Ask
    <3>1. PICK q \in Questions : question' = q /\ answer' = Answer(q)
      BY <2>1 DEF Ask
    <3>2. question' \in Questions /\ answer' = Answer(question')
      BY <3>1, Zenon
    <3> QED
      BY <3>2, Zenon DEF Answered, Answer
  <2>2. CASE UNCHANGED <<calls, askVars>>
    <3>1. question' = question /\ answer' = answer
      BY <2>2 DEF askVars
    <3> QED
      BY <3>1, Zenon DEF Answered, Answer
  <2> QED
    BY <2>1, <2>2
<1> QED
  BY <1>1, <1>2, PTL DEF AskSpec

LEMMA EncodingAnswers ==
    ASSUME NEW l \in C!Values[MaxDepth], NEW r \in C!Values[MaxDepth]
    PROVE  /\ \A left \in C!Canonicalize(l), right \in C!Canonicalize(r) :
                 C!Encode(left) = C!Encode(right) <=> Meaning(l) = Meaning(r)
           /\ C!Canonicalize(l) # {} <=> Unambiguous(l)
           /\ \A left \in C!Canonicalize(l) : C!Canonicalize(left) = {left}
<1>1. Settled(C!Values[MaxDepth])
  BY ValuesSettle, DepthIsNatural
<1>2. /\ C!Canonicalize(l) \subseteq C!Values[MaxDepth] /\ C!Canonicalize(r) \subseteq C!Values[MaxDepth]
      /\ C!Canonicalize(l) # {} <=> Unambiguous(l)
      /\ \A left \in C!Canonicalize(l) : C!Canonicalize(left) = {left}
      /\ \A c \in C!Canonicalize(l), e \in C!Canonicalize(r) : c = e <=> Meaning(l) = Meaning(r)
  <2>1. /\ C!Canonicalize(l) \subseteq C!Values[MaxDepth] /\ C!Canonicalize(r) \subseteq C!Values[MaxDepth]
        /\ C!Canonicalize(l) # {} <=> Unambiguous(l)
    BY <1>1, SettledSays, Zenon
  <2>2. \A left \in C!Canonicalize(l) : C!Canonicalize(left) = {left}
    BY <1>1, SettledSays, Zenon
  <2>3. \A c \in C!Canonicalize(l), e \in C!Canonicalize(r) : c = e <=> Meaning(l) = Meaning(r)
    BY <1>1, SettledSays
  <2> QED
    BY <2>1, <2>2, <2>3, Zenon
<1>3. ASSUME NEW left \in C!Canonicalize(l), NEW right \in C!Canonicalize(r)
      PROVE  C!Encode(left) = C!Encode(right) <=> Meaning(l) = Meaning(r)
  <2>1. left \in C!Values[MaxDepth] /\ right \in C!Values[MaxDepth]
    BY <1>2
  <2>2. C!Encode(left) = C!Encode(right) => left = right
    BY <2>1, EncodeIsInjective
  <2>3. left = right => C!Encode(left) = C!Encode(right)
    OBVIOUS
  <2>4. left = right <=> Meaning(l) = Meaning(r)
    BY <1>2
  <2> QED
    BY <2>2, <2>3, <2>4, Zenon
<1> QED
  BY <1>2, <1>3, Zenon

\* However deep values nest and however their maps were written: two have the same
\* canonical bytes exactly when they say the same, a value has a canonical form exactly
\* when it says nothing twice, and that form is its own (canonicalize_cbor_value,
\* encode_canonical_cbor_value).
THEOREM EncodingsMean == AskSpec => []OneMeaningOneEncoding
<1>1. Answered => OneMeaningOneEncoding
  <2> SUFFICES ASSUME Answered, Asked("encoding") PROVE
           /\ \A left \in answer.left, right \in answer.right :
                 C!Encode(left) = C!Encode(right) <=> Meaning(question.left) = Meaning(question.right)
           /\ answer.left # {} <=> Unambiguous(question.left)
           /\ \A left \in answer.left : C!Canonicalize(left) = {left}
    BY DEF OneMeaningOneEncoding
  <2>1. question \in Questions /\ answer = Answer(question) /\ question.kind = "encoding"
    BY DEF Answered, Asked
  <2>2. question.left \in C!Values[MaxDepth] /\ question.right \in C!Values[MaxDepth]
    BY <2>1, QuestionsAssumption
  <2>3. answer = [left |-> C!Canonicalize(question.left), right |-> C!Canonicalize(question.right)]
    BY <2>1 DEF Answer
  <2>4. answer.left = C!Canonicalize(question.left) /\ answer.right = C!Canonicalize(question.right)
    BY <2>3
  <2> QED
    BY <2>2, <2>4, EncodingAnswers
<1> QED
  BY <1>1, QuestionsAreAnswered, PTL

-----------------------------------------------------------------------------
(* JSON: the fields of an object, in the order of their keys.                  *)

\* The fields in front of one.
Ahead(fields, field) == {other \in fields : C!BytesBefore(other.key, field.key)}

FieldsApart(S, fields) ==
    /\ fields \subseteq [key : C!Strings, value : S] /\ IsFiniteSet(fields)
    /\ Cardinality(fields) \in C!U64
    /\ \A f, g \in fields : f.key = g.key => f = g

LEMMA ObjectsAreApart ==
    ASSUME NEW S, NEW fields \in C!Objects(S)
    PROVE  FieldsApart(S, fields)
<1>1. /\ fields \in SUBSET [key : C!Strings, value : S]
      /\ C!IsFiniteSet(fields) /\ C!Cardinality(fields) \in C!U64
      /\ \A f, g \in fields : f.key = g.key => f = g
  BY DEF C!Objects
<1>2. IsFiniteSet(fields) /\ Cardinality(fields) \in C!U64
  <2>1. C!IsFiniteSet(fields) = IsFiniteSet(fields) /\ C!Cardinality(fields) = Cardinality(fields)
    BY OneCount
  <2> QED
    BY <1>1, <2>1, Zenon
<1> QED
  BY <1>1, <1>2 DEF FieldsApart

LEMMA FieldsAhead ==
    ASSUME NEW S, NEW fields, FieldsApart(S, fields)
    PROVE  /\ \A f \in fields : f.key \in Seq(C!Byte)
           /\ \A f \in fields : f \notin Ahead(fields, f) /\ Ahead(fields, f) \subseteq fields
           /\ \A f, g \in fields : f # g =>
                 \/ Ahead(fields, f) \subseteq Ahead(fields, g) /\ f \in Ahead(fields, g)
                 \/ Ahead(fields, g) \subseteq Ahead(fields, f) /\ g \in Ahead(fields, f)
<1>1. ASSUME NEW f \in fields PROVE f.key \in Seq(C!Byte)
  <2>1. f.key \in C!Lists(C!Byte)
    BY DEF FieldsApart, C!Strings
  <2> QED
    BY <2>1, LengthsFit
<1>2. \A f, g, h \in fields :
         /\ f.key = g.key \/ C!BytesBefore(f.key, g.key) \/ C!BytesBefore(g.key, f.key)
         /\ ~C!BytesBefore(f.key, f.key)
         /\ C!BytesBefore(f.key, g.key) /\ C!BytesBefore(g.key, h.key) => C!BytesBefore(f.key, h.key)
  <2> TAKE f, g, h \in fields
  <2>1. f.key \in Seq(C!Byte) /\ g.key \in Seq(C!Byte) /\ h.key \in Seq(C!Byte)
    BY <1>1
  <2> QED
    BY <2>1, BytesAreCompared
<1>3. \A f, g : f \in Ahead(fields, g) <=> f \in fields /\ C!BytesBefore(f.key, g.key)
  BY DEF Ahead
<1>4. \A f, g \in fields : C!BytesBefore(f.key, g.key) => Ahead(fields, f) \subseteq Ahead(fields, g) /\ f \in Ahead(fields, g)
  BY <1>2, <1>3
<1>5. \A f, g \in fields : f # g => f.key # g.key
  BY DEF FieldsApart
<1>6. \A f \in fields : f \notin Ahead(fields, f) /\ Ahead(fields, f) \subseteq fields
  BY <1>2, <1>3
<1> QED
  BY <1>1, <1>2, <1>4, <1>5, <1>6

LEMMA FieldsListed ==
    ASSUME NEW S, NEW fields, FieldsApart(S, fields)
    PROVE  /\ C!InOrderOfKeys(fields) \in Seq(fields) /\ Len(C!InOrderOfKeys(fields)) \in C!U64
           /\ \A p \in DOMAIN C!InOrderOfKeys(fields) : C!InOrderOfKeys(fields)[p] \in fields
           /\ \A field \in fields : \E p \in DOMAIN C!InOrderOfKeys(fields) : C!InOrderOfKeys(fields)[p] = field
           /\ \A p, q \in DOMAIN C!InOrderOfKeys(fields) :
                 C!InOrderOfKeys(fields)[p] = C!InOrderOfKeys(fields)[q] => p = q
<1> DEFINE n == Cardinality(fields)
           rank(f) == Cardinality(Ahead(fields, f))
           at(p) == CHOOSE field \in fields : rank(field) = p - 1
           list == C!InOrderOfKeys(fields)
<1>0. n \in Nat /\ n \in C!U64 /\ IsFiniteSet(fields)
  BY FS_CardinalityType DEF FieldsApart
<1>1. list = [p \in 1..n |-> at(p)]
  <2>1. n = C!Cardinality(fields) /\ \A f : rank(f) = C!Cardinality({other \in fields : C!BytesBefore(other.key, f.key)})
    BY OneCount, Zenon DEF Ahead
  <2>2. list = [p \in 1..C!Cardinality(fields) |->
                   CHOOSE field \in fields :
                       C!Cardinality({other \in fields : C!BytesBefore(other.key, field.key)}) = p - 1]
    BY Zenon DEF C!InOrderOfKeys
  <2>3. \A f : rank(f) = C!Cardinality({other \in fields : C!BytesBefore(other.key, f.key)})
    BY <2>1
  <2> DEFINE count(f) == C!Cardinality({other \in fields : C!BytesBefore(other.key, f.key)})
  <2>4. list = [p \in 1..n |-> CHOOSE field \in fields : count(field) = p - 1]
    BY <2>1, <2>2, Zenon
  <2>5. \A f : rank(f) = count(f)
    BY <2>3, Zenon
  <2> HIDE DEF count, rank, n, list
  <2>6. \A p : (CHOOSE field \in fields : count(field) = p - 1) = (CHOOSE field \in fields : rank(field) = p - 1)
    BY <2>5
  <2>7. [p \in 1..n |-> CHOOSE field \in fields : count(field) = p - 1]
        = [p \in 1..n |-> CHOOSE field \in fields : rank(field) = p - 1]
    BY <2>6
  <2> QED
    BY <2>4, <2>7
<1>2. ASSUME NEW f \in fields PROVE IsFiniteSet(Ahead(fields, f)) /\ rank(f) \in 0..(n - 1) /\ rank(f) \in Nat
  <2>1. Ahead(fields, f) \subseteq fields /\ f \notin Ahead(fields, f)
    BY FieldsAhead
  <2>2. IsFiniteSet(Ahead(fields, f)) /\ rank(f) <= n /\ (n = rank(f) => fields = Ahead(fields, f))
    BY <1>0, <2>1, FS_Subset
  <2>3. rank(f) \in Nat
    BY <2>2, FS_CardinalityType
  <2>4. rank(f) # n
    BY <2>1, <2>2
  <2> HIDE DEF rank, n
  <2> QED
    BY <1>0, <2>2, <2>3, <2>4
<1>3. ASSUME NEW f \in fields, NEW g \in fields, rank(f) = rank(g) PROVE f = g
  <2>1. ASSUME NEW x \in fields, NEW y \in fields, Ahead(fields, x) \subseteq Ahead(fields, y), x \in Ahead(fields, y)
        PROVE  rank(x) # rank(y)
    <3>1. x \notin Ahead(fields, x)
      BY FieldsAhead
    <3>2. Ahead(fields, x) # Ahead(fields, y)
      BY <2>1, <3>1
    <3>3. IsFiniteSet(Ahead(fields, y))
      BY <1>2
    <3> QED
      BY <2>1, <3>2, <3>3, FS_Subset
  <2> SUFFICES ASSUME f # g PROVE FALSE
    OBVIOUS
  <2>2. \/ Ahead(fields, f) \subseteq Ahead(fields, g) /\ f \in Ahead(fields, g)
        \/ Ahead(fields, g) \subseteq Ahead(fields, f) /\ g \in Ahead(fields, f)
    BY FieldsAhead
  <2> HIDE DEF rank
  <2> QED
    BY <1>3, <2>1, <2>2
<1> HIDE DEF n, rank, list
<1>4. ASSUME NEW p \in 1..n PROVE \E field \in fields : rank(field) = p - 1
  <2> DEFINE place == [f \in fields |-> rank(f) + 1]
  <2>1. place \in [fields -> 1..n] /\ \A f, g \in fields : place[f] = place[g] => f = g
    <3>1. \A f \in fields : rank(f) + 1 \in 1..n
      BY <1>0, <1>2
    <3>2. \A f, g \in fields : rank(f) + 1 = rank(g) + 1 => rank(f) = rank(g)
      BY <1>2
    <3> QED
      BY <1>3, <3>1, <3>2
  <2>2. IsFiniteSet(1..n) /\ Cardinality(1..n) = n
    <3>1. IsFiniteSet(1..n) /\ Cardinality(1..n) = IF 1 > n THEN 0 ELSE n - 1 + 1
      BY <1>0, FS_Interval
    <3> QED
      BY <1>0, <3>1
  <2>3. place \in Surjection(fields, 1..n)
    <3> HIDE DEF place
    <3>1. place \in Injection(fields, 1..n)
      BY <2>1 DEF Injection, IsInjective
    <3> QED
      BY <2>2, <3>1, FS_Injection DEF n
  <2>4. PICK f \in fields : place[f] = p
    <3> HIDE DEF place
    <3> QED
      BY <2>3 DEF Surjection
  <2>5. rank(f) + 1 = p /\ rank(f) \in Nat
    BY <1>2, <2>4
  <2> QED
    BY <2>5
<1>5. ASSUME NEW p \in 1..n PROVE at(p) \in fields /\ rank(at(p)) = p - 1
  BY <1>4
<1> HIDE DEF at
<1>6. list \in Seq(fields) /\ Len(list) = n /\ DOMAIN list = 1..n /\ \A p \in 1..n : list[p] = at(p)
  BY <1>0, <1>1, <1>5
<1>7. ASSUME NEW field \in fields PROVE \E p \in 1..n : list[p] = field
  <2>1. rank(field) \in 0..(n - 1) /\ rank(field) \in Nat
    BY <1>2
  <2>2. PICK p \in 1..n : p - 1 = rank(field)
    <3>1. rank(field) + 1 \in 1..n /\ (rank(field) + 1) - 1 = rank(field)
      BY <1>0, <2>1
    <3> QED
      BY <3>1
  <2>3. at(p) \in fields /\ rank(at(p)) = rank(field)
    BY <1>5, <2>2
  <2> QED
    BY <1>3, <1>6, <2>3
<1>8. ASSUME NEW p \in 1..n, NEW q \in 1..n, list[p] = list[q] PROVE p = q
  <2>1. p - 1 = q - 1
    BY <1>5, <1>6, <1>8
  <2> QED
    BY <2>1
<1>9. \A p \in 1..n : list[p] \in fields
  BY <1>5, <1>6
<1>10. /\ list \in Seq(fields) /\ Len(list) \in C!U64 /\ DOMAIN list = 1..n
       /\ \A p \in DOMAIN list : list[p] \in fields
       /\ \A field \in fields : \E p \in DOMAIN list : list[p] = field
       /\ \A p, q \in DOMAIN list : list[p] = list[q] => p = q
  BY <1>0, <1>6, <1>7, <1>8, <1>9
<1> QED
  BY <1>10, Zenon DEF list

-----------------------------------------------------------------------------
(* JSON by its type, and what becomes of each.                                *)

IsJsonScalar(json) ==
    \/ json = C!JsonNull
    \/ json = C!JsonTooLarge
    \/ \E units \in C!Strings : json = C!JsonString(units)
    \/ \E n \in C!I64 : json = C!JsonInteger(n)
    \/ \E f \in DOMAIN C!FloatBytes : json = C!JsonFloat(f)

IsJsonContainer(depth, json) ==
    \/ \E items \in C!Lists(C!Jsons[depth]) : json = C!JsonArray(items)
    \/ \E fields \in C!Objects(C!Jsons[depth]) : json = C!JsonObject(fields)

LEMMA JsonShapes ==
    ASSUME NEW d \in 0..MaxDepth, NEW json \in C!Jsons[d]
    PROVE  IsJsonScalar(json) \/ (d # 0 /\ IsJsonContainer(d - 1, json))
<1>1. ASSUME json \in C!JsonScalars PROVE IsJsonScalar(json)
  <2>1. CASE json \in {C!JsonNull, C!JsonTooLarge}
    BY <2>1, Zenon DEF IsJsonScalar
  <2>2. CASE json \in [json : {"string"}, units : C!Strings]
    <3>1. json = C!JsonString(json.units) /\ json.units \in C!Strings
      BY <2>2 DEF C!JsonString
    <3> QED
      BY <3>1, Zenon DEF IsJsonScalar
  <2>3. CASE json \in [json : {"integer"}, n : C!I64]
    <3>1. json = C!JsonInteger(json.n) /\ json.n \in C!I64
      BY <2>3 DEF C!JsonInteger
    <3> QED
      BY <3>1, Zenon DEF IsJsonScalar
  <2>4. CASE json \in [json : {"float"}, f : DOMAIN C!FloatBytes]
    <3>1. json = C!JsonFloat(json.f) /\ json.f \in DOMAIN C!FloatBytes
      BY <2>4 DEF C!JsonFloat
    <3> QED
      BY <3>1, Zenon DEF IsJsonScalar
  <2> QED
    BY <1>1, <2>1, <2>2, <2>3, <2>4 DEF C!JsonScalars
<1>2. ASSUME NEW k, json \in [json : {"array"}, items : C!Lists(C!Jsons[k])] PROVE IsJsonContainer(k, json)
  <2>1. json = C!JsonArray(json.items) /\ json.items \in C!Lists(C!Jsons[k])
    BY <1>2 DEF C!JsonArray
  <2> QED
    BY <2>1, Zenon DEF IsJsonContainer
<1>3. ASSUME NEW k, json \in [json : {"object"}, fields : C!Objects(C!Jsons[k])] PROVE IsJsonContainer(k, json)
  <2>1. json = C!JsonObject(json.fields) /\ json.fields \in C!Objects(C!Jsons[k])
    BY <1>3 DEF C!JsonObject
  <2> QED
    BY <2>1, Zenon DEF IsJsonContainer
<1> QED
  BY <1>1, <1>2, <1>3, JsonsUnfold

JsonEntry(e, path, field) ==
    {[key |-> C!Text(field.key), value |-> its] : its \in e[field.value][Append(path, field.key)]}

LEMMA FromJsonScalar ==
    ASSUME NEW e, NEW path, NEW tags
    PROVE  /\ C!FromJsonBy(e, C!JsonNull, path, tags) = {C!Null}
           /\ C!FromJsonBy(e, C!JsonTooLarge, path, tags) = {}
           /\ \A n : C!FromJsonBy(e, C!JsonInteger(n), path, tags) = {C!Integer(n)}
           /\ \A f : C!FromJsonBy(e, C!JsonFloat(f), path, tags) =
                        IF C!FloatIsCanonical(f) THEN {C!Float(f)} ELSE {}
           /\ \A units : C!FromJsonBy(e, C!JsonString(units), path, tags) =
                            IF C!TagAt(path, tags) = {} THEN {C!Text(units)}
                            ELSE {C!Tag(tag, C!Text(units)) : tag \in C!TagAt(path, tags)}
<1>1. C!FromJsonBy(e, C!JsonNull, path, tags) = {C!Null}
  BY DEF C!FromJsonBy, C!JsonNull
<1>2. C!FromJsonBy(e, C!JsonTooLarge, path, tags) = {}
  BY DEF C!FromJsonBy, C!JsonTooLarge
<1>3. \A n : C!FromJsonBy(e, C!JsonInteger(n), path, tags) = {C!Integer(n)}
  BY DEF C!FromJsonBy, C!JsonInteger
<1>4. \A f : C!FromJsonBy(e, C!JsonFloat(f), path, tags) =
                IF C!FloatIsCanonical(f) THEN {C!Float(f)} ELSE {}
  BY DEF C!FromJsonBy, C!JsonFloat
<1>5. \A units : C!FromJsonBy(e, C!JsonString(units), path, tags) =
                    IF C!TagAt(path, tags) = {} THEN {C!Text(units)}
                    ELSE {C!Tag(tag, C!Text(units)) : tag \in C!TagAt(path, tags)}
  BY DEF C!FromJsonBy, C!JsonString
<1> QED
  BY <1>1, <1>2, <1>3, <1>4, <1>5

LEMMA FromJsonArray ==
    ASSUME NEW e, NEW path, NEW tags, NEW items
    PROVE  C!FromJsonBy(e, C!JsonArray(items), path, tags) =
               {C!Array(all) : all \in C!All([i \in DOMAIN items |-> e[items[i]][path]])}
  BY DEF C!FromJsonBy, C!JsonArray

LEMMA FromJsonObject ==
    ASSUME NEW e, NEW path, NEW tags, NEW fields
    PROVE  C!FromJsonBy(e, C!JsonObject(fields), path, tags) =
               {C!Map(C!SortedByKey(all)) :
                   all \in C!All([i \in DOMAIN C!InOrderOfKeys(fields) |->
                                     JsonEntry(e, path, C!InOrderOfKeys(fields)[i])])}
  BY DEF C!FromJsonBy, C!JsonObject, C!ByKey, JsonEntry

LEMMA TagsFit ==
    ASSUME NEW path, NEW tags \in Seq([path : Seq(C!Strings), tag : C!U64])
    PROVE  /\ C!TagAt(path, tags) \subseteq C!U64
           /\ (\A i \in DOMAIN tags : tags[i].tag \in {0, 32}) => C!TagAt(path, tags) \subseteq {0, 32}
<1>1. \A tag \in C!TagAt(path, tags) : \E i \in DOMAIN tags : tag = tags[i].tag
  BY DEF C!TagAt
<1>2. \A i \in DOMAIN tags : tags[i].tag \in C!U64
  <2> DEFINE T == [path : Seq(C!Strings), tag : C!U64]
  <2>1. \A rule \in T : rule.tag \in C!U64
    OBVIOUS
  <2>2. tags \in Seq(T)
    OBVIOUS
  <2> HIDE DEF T
  <2> QED
    BY <2>1, <2>2
<1> QED
  BY <1>1, <1>2

-----------------------------------------------------------------------------
(* Values that give their JSON back.                                          *)

KnownTags(tags) == \A i \in DOMAIN tags : tags[i].tag \in {0, 32}

Returns(tags, json, v) ==
    /\ C!Canonicalize(v) = {v}
    /\ C!ToJson(v) \subseteq {json}
    /\ KnownTags(tags) => C!ToJson(v) = {json}

LEMMA ScalarsReturn ==
    ASSUME NEW tags
    PROVE  /\ C!Null \in C!Scalars /\ Returns(tags, C!JsonNull, C!Null)
           /\ \A n \in C!I64 : C!Integer(n) \in C!Scalars /\ Returns(tags, C!JsonInteger(n), C!Integer(n))
           /\ \A f \in DOMAIN C!FloatBytes : C!FloatIsCanonical(f) =>
                 C!Float(f) \in C!Scalars /\ Returns(tags, C!JsonFloat(f), C!Float(f))
           /\ \A units \in C!Strings : C!Text(units) \in C!Scalars /\ Returns(tags, C!JsonString(units), C!Text(units))
<1>1. \A v \in C!Scalars : v \in C!Values[MaxDepth]
  <2>1. 0 \in 0..MaxDepth
    BY DepthIsNatural
  <2>2. C!Values[0] = C!Scalars
    BY <2>1, ValuesUnfold
  <2> QED
    BY <2>1, <2>2, ValuesWithin
<1>2. \A v \in C!Scalars : /\ C!Canonicalize(v) = C!CanonicalizeBy(C!Canonicals[MaxDepth], v)
                           /\ C!ToJson(v) = C!ToJsonBy(C!ToJsons[MaxDepth], v)
  BY <1>1, CanonicalHolds, ShownHolds
<1>3. ASSUME NEW json, NEW v \in C!Scalars,
             C!CanonicalizeBy(C!Canonicals[MaxDepth], v) = {v}, C!ToJsonBy(C!ToJsons[MaxDepth], v) = {json}
      PROVE  Returns(tags, json, v)
  <2>1. C!Canonicalize(v) = {v} /\ C!ToJson(v) = {json}
    BY <1>2, <1>3
  <2> QED
    BY <2>1 DEF Returns
<1>4. C!Null \in C!Scalars /\ Returns(tags, C!JsonNull, C!Null)
  <2>1. C!Null \in C!Scalars
    BY ScalarShapes, Zenon DEF IsScalar
  <2> QED
    BY <1>3, <2>1, CanonicalScalar, ShownScalar
<1>5. ASSUME NEW n \in C!I64 PROVE C!Integer(n) \in C!Scalars /\ Returns(tags, C!JsonInteger(n), C!Integer(n))
  <2>1. n \in Int /\ C!Magnitude(n) \in C!U64
    BY DEF C!I64
  <2>2. C!Integer(n) \in C!Scalars
    BY <2>1, ScalarShapes, Zenon DEF IsScalar
  <2>3. C!CanonicalizeBy(C!Canonicals[MaxDepth], C!Integer(n)) = {C!Integer(n)}
    BY CanonicalScalar, Zenon
  <2>4. C!ToJsonBy(C!ToJsons[MaxDepth], C!Integer(n)) = {C!JsonInteger(n)}
    <3>1. C!ToJsonBy(C!ToJsons[MaxDepth], C!Integer(n)) = IF n \in C!I64 THEN {C!JsonInteger(n)} ELSE {}
      BY ShownScalar
    <3> QED
      BY <3>1
  <2> QED
    BY <1>3, <2>2, <2>3, <2>4
<1>6. ASSUME NEW f \in DOMAIN C!FloatBytes, C!FloatIsCanonical(f)
      PROVE  C!Float(f) \in C!Scalars /\ Returns(tags, C!JsonFloat(f), C!Float(f))
  <2>1. C!Float(f) \in C!Scalars
    BY ScalarShapes, Zenon DEF IsScalar
  <2>2. C!CanonicalizeBy(C!Canonicals[MaxDepth], C!Float(f)) = {C!Float(f)}
    <3>1. C!CanonicalizeBy(C!Canonicals[MaxDepth], C!Float(f)) =
              IF C!FloatIsCanonical(f) THEN {C!Float(f)} ELSE {}
      BY CanonicalScalar
    <3> QED
      BY <1>6, <3>1
  <2>3. C!ToJsonBy(C!ToJsons[MaxDepth], C!Float(f)) = {C!JsonFloat(f)}
    <3>1. C!ToJsonBy(C!ToJsons[MaxDepth], C!Float(f)) =
              IF C!FloatIsCanonical(f) THEN {C!JsonFloat(f)} ELSE {}
      BY ShownScalar
    <3> QED
      BY <1>6, <3>1
  <2> QED
    BY <1>3, <2>1, <2>2, <2>3
<1>7. ASSUME NEW units \in C!Strings
      PROVE  C!Text(units) \in C!Scalars /\ Returns(tags, C!JsonString(units), C!Text(units))
  <2>1. C!Text(units) \in C!Scalars
    BY ScalarShapes, Zenon DEF IsScalar
  <2>2. C!CanonicalizeBy(C!Canonicals[MaxDepth], C!Text(units)) = {C!Text(units)}
    BY CanonicalScalar, ZenonT(40)
  <2>3. C!ToJsonBy(C!ToJsons[MaxDepth], C!Text(units)) = {C!JsonString(units)}
    BY ShownScalar, ZenonT(40)
  <2> QED
    BY <1>3, <2>1, <2>2, <2>3
<1> QED
  BY <1>4, <1>5, <1>6, <1>7

LEMMA TagsReturn ==
    ASSUME NEW tags, NEW tag \in C!U64, KnownTags(tags) => tag \in {0, 32}, NEW units \in C!Strings
    PROVE  C!Tag(tag, C!Text(units)) \in C!Values[1] /\ Returns(tags, C!JsonString(units), C!Tag(tag, C!Text(units)))
<1>1. C!Text(units) \in C!Scalars /\ Returns(tags, C!JsonString(units), C!Text(units))
  BY ScalarsReturn
<1>2. 0 \in 0..MaxDepth /\ 0 # MaxDepth
  BY DepthIsNatural
<1>3. C!Text(units) \in C!Values[0]
  BY <1>1, <1>2, ValuesUnfold
<1>4. IsContainer(0, C!Tag(tag, C!Text(units)))
  BY <1>3, Zenon DEF IsContainer
<1>5. C!Tag(tag, C!Text(units)) \in C!Values[0 + 1] /\ C!Tag(tag, C!Text(units)) \in C!Values[MaxDepth]
  BY <1>2, <1>4, ContainersAreValues
<1>6. C!Canonicalize(C!Tag(tag, C!Text(units))) = {C!Tag(tag, C!Text(units))}
  <2>1. C!Canonicalize(C!Tag(tag, C!Text(units))) = {C!Tag(tag, its) : its \in C!Canonicalize(C!Text(units))}
    BY <1>5, TagSays
  <2>2. C!Canonicalize(C!Text(units)) = {C!Text(units)}
    BY <1>1 DEF Returns
  <2> QED
    BY <2>1, <2>2
<1>7. C!ToJson(C!Tag(tag, C!Text(units))) = IF tag \in {0, 32} THEN C!ToJson(C!Text(units)) ELSE {}
  <2>1. C!ToJson(C!Tag(tag, C!Text(units))) = C!ToJsonBy(C!ToJsons[MaxDepth], C!Tag(tag, C!Text(units)))
    BY <1>5, ShownHolds
  <2>2. C!ToJsonBy(C!ToJsons[MaxDepth], C!Tag(tag, C!Text(units))) =
            IF tag \in {0, 32} THEN C!ToJsons[MaxDepth][C!Text(units)] ELSE {}
    BY ShownTag
  <2>3. C!ToJson(C!Text(units)) = C!ToJsons[MaxDepth][C!Text(units)]
    BY Zenon DEF C!ToJson
  <2> QED
    BY <2>1, <2>2, <2>3
<1>8. /\ C!ToJson(C!Text(units)) \subseteq {C!JsonString(units)}
      /\ KnownTags(tags) => C!ToJson(C!Text(units)) = {C!JsonString(units)}
  BY <1>1 DEF Returns
<1>9. Returns(tags, C!JsonString(units), C!Tag(tag, C!Text(units)))
  BY <1>6, <1>7, <1>8 DEF Returns
<1> QED
  BY <1>5, <1>9

LEMMA ArraysReturn ==
    ASSUME NEW tags, NEW k \in 0..MaxDepth, k # MaxDepth, NEW f \in C!Lists(C!Values[k]),
           NEW items, items = [i \in DOMAIN f |-> items[i]],
           \A i \in DOMAIN f : Returns(tags, items[i], f[i])
    PROVE  C!Array(f) \in C!Values[k + 1] /\ Returns(tags, C!JsonArray(items), C!Array(f))
<1> DEFINE forms == [i \in DOMAIN f |-> C!Canonicals[MaxDepth][f[i]]]
           shown == [i \in DOMAIN f |-> C!ToJsons[MaxDepth][f[i]]]
<1>1. C!Array(f) \in C!Values[k + 1] /\ C!Array(f) \in C!Values[MaxDepth]
  <2>1. IsContainer(k, C!Array(f))
    BY Zenon DEF IsContainer
  <2> QED
    BY <2>1, ContainersAreValues
<1>2. \A i \in DOMAIN f : /\ C!Canonicals[MaxDepth][f[i]] = {f[i]}
                          /\ C!ToJsons[MaxDepth][f[i]] \subseteq {items[i]}
                          /\ KnownTags(tags) => C!ToJsons[MaxDepth][f[i]] = {items[i]}
  BY Zenon DEF Returns, C!Canonicalize, C!ToJson
<1>3. f = [i \in DOMAIN f |-> f[i]]
  <2>1. f \in Seq(C!Values[k])
    BY LengthsFit
  <2> QED
    BY <2>1
<1>4. C!Canonicalize(C!Array(f)) = {C!Array(all) : all \in C!All(forms)}
  BY <1>1, ArraySays, Zenon
<1>5. C!ToJson(C!Array(f)) = {C!JsonArray(all) : all \in C!All(shown)}
  <2>1. C!ToJson(C!Array(f)) = C!ToJsonBy(C!ToJsons[MaxDepth], C!Array(f))
    BY <1>1, ShownHolds
  <2>2. C!ToJsonBy(C!ToJsons[MaxDepth], C!Array(f)) =
            {C!JsonArray(all) : all \in C!All([i \in DOMAIN f |-> C!ToJsons[MaxDepth][f[i]]])}
    BY ShownArray
  <2> QED
    BY <2>1, <2>2
<1>6. /\ DOMAIN forms = DOMAIN f /\ DOMAIN shown = DOMAIN f
      /\ \A i \in DOMAIN f : forms[i] = {f[i]} /\ shown[i] \subseteq {items[i]}
      /\ \A i \in DOMAIN f : KnownTags(tags) => shown[i] = {items[i]}
  BY <1>2
<1> HIDE DEF forms, shown
<1>7. C!All(forms) = {f}
  <2>1. f = [i \in DOMAIN forms |-> f[i]] /\ \A i \in DOMAIN forms : forms[i] = {f[i]}
    BY <1>3, <1>6
  <2> QED
    BY <2>1, AllIsOne
<1>8. C!All(shown) \subseteq {items}
  <2>1. ASSUME NEW g \in C!All(shown) PROVE g = items
    <3>1. g = [i \in DOMAIN f |-> g[i]] /\ \A i \in DOMAIN f : g[i] \in shown[i]
      BY <1>6, AllOfParts
    <3>2. \A i \in DOMAIN f : g[i] = items[i]
      BY <1>6, <3>1
    <3> QED
      BY <3>1, <3>2
  <2> QED
    BY <2>1
<1>9. ASSUME KnownTags(tags) PROVE C!All(shown) = {items}
  <2>1. items = [i \in DOMAIN shown |-> items[i]] /\ \A i \in DOMAIN shown : shown[i] = {items[i]}
    BY <1>6, <1>9
  <2> QED
    BY <2>1, AllIsOne
<1>10. Returns(tags, C!JsonArray(items), C!Array(f))
  BY <1>4, <1>5, <1>7, <1>8, <1>9 DEF Returns
<1> QED
  BY <1>1, <1>10

\* What shows of the entries of a map, one field of an object for each.
EntriesMatch(tags, s, F) ==
    /\ F = [p \in DOMAIN s |-> F[p]]
    /\ \A p \in DOMAIN s : /\ F[p] = [key |-> F[p].key, value |-> F[p].value]
                           /\ s[p].key = C!Text(F[p].key)
                           /\ Returns(tags, F[p].value, s[p].value)

ShowsJust(tags, s, F) ==
    /\ FieldsShown(C!ToJsons[MaxDepth], s) \subseteq {F}
    /\ KnownTags(tags) => FieldsShown(C!ToJsons[MaxDepth], s) = {F}

LEMMA EntriesShow ==
    ASSUME NEW tags, NEW s, NEW F, EntriesMatch(tags, s, F)
    PROVE  ShowsJust(tags, s, F)
<1> DEFINE T == C!ToJsons[MaxDepth]
           r(p) == IF s[p].key.type # "text" THEN {}
                   ELSE {[key |-> s[p].key.units, value |-> its] : its \in T[s[p].value]}
           shown == [p \in DOMAIN s |-> r(p)]
<1>0. /\ F = [p \in DOMAIN s |-> F[p]]
      /\ \A p \in DOMAIN s : /\ F[p] = [key |-> F[p].key, value |-> F[p].value]
                             /\ s[p].key = C!Text(F[p].key)
                             /\ Returns(tags, F[p].value, s[p].value)
  BY DEF EntriesMatch
<1>1. FieldsShown(T, s) = C!All(shown)
  BY DEF FieldsShown
<1>2. \A p \in DOMAIN s : /\ T[s[p].value] \subseteq {F[p].value}
                          /\ KnownTags(tags) => T[s[p].value] = {F[p].value}
  BY <1>0, Zenon DEF Returns, C!ToJson
<1>3. \A p \in DOMAIN s : s[p].key.type = "text" /\ s[p].key.units = F[p].key
  <2>1. \A u : C!Text(u).type = "text" /\ C!Text(u).units = u
    BY DEF C!Text
  <2>2. \A p \in DOMAIN s : s[p].key = C!Text(F[p].key)
    BY <1>0
  <2> QED
    BY ONLY <2>1, <2>2
<1>4. \A p \in DOMAIN s : F[p] = [key |-> F[p].key, value |-> F[p].value]
  BY <1>0
<1> HIDE DEF T
<1>5. ASSUME NEW p \in DOMAIN s PROVE r(p) \subseteq {F[p]} /\ (KnownTags(tags) => r(p) = {F[p]})
  <2>1. r(p) = {[key |-> F[p].key, value |-> its] : its \in T[s[p].value]}
    BY <1>3
  <2> HIDE DEF r
  <2>2. r(p) \subseteq {F[p]}
    BY <1>2, <1>4, <2>1
  <2>3. ASSUME KnownTags(tags) PROVE r(p) = {F[p]}
    <3>1. T[s[p].value] = {F[p].value}
      BY <1>2, <2>3
    <3>2. r(p) = {[key |-> F[p].key, value |-> F[p].value]}
      BY ONLY <2>1, <3>1
    <3> QED
      BY <1>4, <3>2
  <2> QED
    BY <2>2, <2>3
<1>6. DOMAIN shown = DOMAIN s /\ \A p \in DOMAIN s : shown[p] = r(p)
  OBVIOUS
<1>7. F = [p \in DOMAIN s |-> F[p]]
  BY <1>0
<1> HIDE DEF r, shown
<1>8. C!All(shown) \subseteq {F}
  <2>1. ASSUME NEW g \in C!All(shown) PROVE g = F
    <3>1. g = [p \in DOMAIN s |-> g[p]] /\ \A p \in DOMAIN s : g[p] \in shown[p]
      BY <1>6, AllOfParts
    <3>2. \A p \in DOMAIN s : g[p] = F[p]
      BY <1>5, <1>6, <3>1
    <3> QED
      BY <1>7, <3>1, <3>2
  <2> QED
    BY <2>1
<1>9. ASSUME KnownTags(tags) PROVE C!All(shown) = {F}
  <2>1. F = [p \in DOMAIN shown |-> F[p]] /\ \A p \in DOMAIN shown : shown[p] = {F[p]}
    BY <1>5, <1>6, <1>7, <1>9
  <2> QED
    BY <2>1, AllIsOne
<1> QED
  BY <1>1, <1>8, <1>9 DEF T, ShowsJust

\* The map made of an object, sorted, is canonical and shows the object again.
LEMMA ObjectsReturn ==
    ASSUME NEW tags, NEW k \in 0..MaxDepth, k # MaxDepth, NEW S, NEW fields, FieldsApart(S, fields),
           NEW f \in C!Lists(EntriesAt(k)), DOMAIN f = DOMAIN C!InOrderOfKeys(fields),
           \A i \in DOMAIN f : /\ f[i].key = C!Text(C!InOrderOfKeys(fields)[i].key)
                               /\ Returns(tags, C!InOrderOfKeys(fields)[i].value, f[i].value)
    PROVE  /\ C!Map(C!SortedByKey(f)) \in C!Values[k + 1]
           /\ Returns(tags, C!JsonObject(fields), C!Map(C!SortedByKey(f)))
<1>1. PICK list : list = C!InOrderOfKeys(fields)
  OBVIOUS
<1>2. /\ DOMAIN f = DOMAIN list
      /\ \A i \in DOMAIN f : f[i].key = C!Text(list[i].key) /\ Returns(tags, list[i].value, f[i].value)
      /\ \A i \in DOMAIN list : list[i] \in fields
      /\ \A field \in fields : \E i \in DOMAIN list : list[i] = field
      /\ \A i, j \in DOMAIN list : list[i] = list[j] => i = j
  BY <1>1, FieldsListed
<1>3. /\ \A g, h \in fields : g.key = h.key => g = h
      /\ \A field \in fields : /\ field = [key |-> field.key, value |-> field.value]
                               /\ field.key \in C!Strings
  BY DEF FieldsApart
<1>4. /\ f \in Seq(EntriesAt(k)) /\ Len(f) \in C!U64
      /\ \A i \in DOMAIN f : f[i] \in EntriesAt(k)
  BY LengthsFit, PartsAreIn
<1>5. \A u, w : C!Text(u) = C!Text(w) <=> u = w
  BY DEF C!Text
<1>6. KeysApart(f)
  BY <1>2, <1>3, <1>5 DEF KeysApart
<1>7. PICK s : s = C!SortedByKey(f)
  OBVIOUS
<1>8. s \in Seq(EntriesAt(k)) /\ Len(s) = Len(f) /\ SameEntries(s, f) /\ Ascending(s)
  BY <1>4, <1>6, <1>7, SortedArranges
<1>9. s \in C!Lists(EntriesAt(k)) /\ KeysApart(s)
  BY <1>4, <1>8, SortedStays DEF C!Lists
<1>10. ASSUME NEW p \in DOMAIN s
       PROVE  \E field \in fields : s[p].key = C!Text(field.key) /\ Returns(tags, field.value, s[p].value)
  <2>1. PICK i \in DOMAIN f : s[p] = f[i]
    BY <1>8 DEF SameEntries
  <2> QED
    BY <1>2, <2>1
<1>11. ASSUME NEW field \in fields PROVE \E p \in DOMAIN s : s[p].key = C!Text(field.key)
  <2>1. PICK i \in DOMAIN f : list[i] = field
    BY <1>2
  <2>2. PICK p \in DOMAIN s : s[p] = f[i]
    BY <1>8 DEF SameEntries
  <2> QED
    BY <1>2, <2>1, <2>2
<1>12. \A p \in DOMAIN s : EntryForms(s[p]) = {s[p]}
  <2> SUFFICES ASSUME NEW p \in DOMAIN s PROVE EntryForms(s[p]) = {s[p]}
    OBVIOUS
  <2>1. PICK field \in fields : s[p].key = C!Text(field.key) /\ Returns(tags, field.value, s[p].value)
    BY <1>10
  <2>2. C!Canonicalize(s[p].value) = {s[p].value}
    BY <2>1 DEF Returns
  <2>3. C!Canonicalize(s[p].key) = {s[p].key}
    <3>1. Returns(tags, C!JsonString(field.key), C!Text(field.key))
      BY <1>3, ScalarsReturn
    <3> QED
      BY <2>1, <3>1 DEF Returns
  <2>4. s[p] = [key |-> s[p].key, value |-> s[p].value]
    <3>1. s[p] \in EntriesAt(k)
      BY <1>8
    <3> QED
      BY <3>1 DEF EntriesAt
  <2>5. EntryForms(s[p]) = {[key |-> s[p].key, value |-> s[p].value]}
    BY <2>2, <2>3 DEF EntryForms
  <2> QED
    BY <2>4, <2>5
<1>13. /\ C!Canonicalize(C!Map(s)) = {C!Map(s)}
       /\ C!Map(s) \in C!Values[k + 1] /\ C!Map(s) \in C!Values[MaxDepth]
  BY <1>8, <1>9, <1>12, AscendingStays
<1> DEFINE F == [p \in DOMAIN s |-> CHOOSE field \in fields :
                    s[p].key = C!Text(field.key) /\ Returns(tags, field.value, s[p].value)]
<1>14. \A p \in DOMAIN s : /\ F[p] \in fields /\ s[p].key = C!Text(F[p].key)
                           /\ Returns(tags, F[p].value, s[p].value)
  BY <1>10
<1>15. F \in [DOMAIN s -> fields] /\ DOMAIN F = DOMAIN s
  BY <1>14
<1> HIDE DEF F
<1>16. Lasting(F) = fields
  <2>1. \A i, j \in DOMAIN F : F[i].key = F[j].key => i = j
    BY <1>9, <1>14, <1>15 DEF KeysApart
  <2>2. DOMAIN s = 1..Len(s) /\ Len(s) \in Nat
    BY <1>8
  <2>3. {i \in DOMAIN F : \A j \in DOMAIN F : F[j].key = F[i].key => j <= i} = DOMAIN F
    <3>1. \A i \in DOMAIN F : i \in Nat
      BY <1>15, <2>2
    <3> QED
      BY <2>1, <3>1
  <2>4. Lasting(F) = {F[i] : i \in DOMAIN F}
    BY <2>3 DEF Lasting
  <2>5. \A i \in DOMAIN F : F[i] \in fields
    BY <1>14, <1>15
  <2>6. \A field \in fields : \E i \in DOMAIN F : F[i] = field
    BY <1>3, <1>5, <1>11, <1>14, <1>15
  <2> QED
    BY <2>4, <2>5, <2>6
<1>17. /\ FieldsShown(C!ToJsons[MaxDepth], s) \subseteq {F}
       /\ KnownTags(tags) => FieldsShown(C!ToJsons[MaxDepth], s) = {F}
  <2>1. EntriesMatch(tags, s, F)
    <3>1. F = [p \in DOMAIN s |-> F[p]]
      BY <1>15
    <3>2. \A p \in DOMAIN s : F[p] = [key |-> F[p].key, value |-> F[p].value]
      BY <1>3, <1>14
    <3> QED
      BY <1>14, <3>1, <3>2 DEF EntriesMatch
  <2>2. ShowsJust(tags, s, F)
    BY <2>1, EntriesShow
  <2> QED
    BY <2>2 DEF ShowsJust
<1>18. C!ToJson(C!Map(s)) = {C!JsonObject(Lasting(g)) : g \in FieldsShown(C!ToJsons[MaxDepth], s)}
  <2>1. C!ToJson(C!Map(s)) = C!ToJsonBy(C!ToJsons[MaxDepth], C!Map(s))
    BY <1>13, ShownHolds
  <2>2. C!ToJsonBy(C!ToJsons[MaxDepth], C!Map(s)) =
            {C!JsonObject(Lasting(g)) : g \in FieldsShown(C!ToJsons[MaxDepth], s)}
    BY ShownMap
  <2> QED
    BY <2>1, <2>2
<1>19. /\ C!ToJson(C!Map(s)) \subseteq {C!JsonObject(fields)}
       /\ KnownTags(tags) => C!ToJson(C!Map(s)) = {C!JsonObject(fields)}
  BY <1>16, <1>17, <1>18
<1>20. Returns(tags, C!JsonObject(fields), C!Map(s))
  BY <1>13, <1>19 DEF Returns
<1> QED
  BY <1>7, <1>13, <1>20

-----------------------------------------------------------------------------
(* Every JSON.                                                                *)

LEMMA FromJsonText ==
    ASSUME NEW e, NEW path, NEW tags, NEW units
    PROVE  C!FromJsonBy(e, C!JsonString(units), path, tags) =
               IF C!TagAt(path, tags) = {} THEN {C!Text(units)}
               ELSE {C!Tag(tag, C!Text(units)) : tag \in C!TagAt(path, tags)}
  BY DEF C!FromJsonBy, C!JsonString

LEMMA FromJsonNumber ==
    ASSUME NEW e, NEW path, NEW tags, NEW n
    PROVE  C!FromJsonBy(e, C!JsonInteger(n), path, tags) = {C!Integer(n)}
  BY DEF C!FromJsonBy, C!JsonInteger

LEMMA JsonLevelReturns ==
    ASSUME NEW tags \in Seq([path : Seq(C!Strings), tag : C!U64]),
           NEW d \in 0..MaxDepth, d # MaxDepth, NEW e,
           d # 0 => \A json \in C!Jsons[d - 1] : \A path \in Seq(C!Strings) : \A v \in e[json][path] :
                        v \in C!Values[d] /\ Returns(tags, json, v),
           NEW json \in C!Jsons[d], NEW path \in Seq(C!Strings), NEW v \in C!FromJsonBy(e, json, path, tags)
    PROVE  v \in C!Values[d + 1] /\ Returns(tags, json, v)
<1> DEFINE Goal == v \in C!Values[d + 1] /\ Returns(tags, json, v)
<1>1. IsJsonScalar(json) \/ (d # 0 /\ IsJsonContainer(d - 1, json))
  BY JsonShapes
<1>2. \A w \in C!Scalars : w \in C!Values[d + 1]
  <2>1. PICK m \in 0..MaxDepth : m = d + 1
    BY DepthIsNatural
  <2>2. \A w \in C!Scalars : w \in C!Values[m]
    BY ValueShapes, ScalarShapes
  <2> QED
    BY <2>1, <2>2
<1>3. \A w \in C!Values[1] : w \in C!Values[d + 1]
  <2> DEFINE U == {j \in Nat : j + 1 \in 0..MaxDepth => C!Values[1] \subseteq C!Values[j + 1]}
  <2>1. 0 \in U
    OBVIOUS
  <2>2. ASSUME NEW j \in Nat, j \in U PROVE j + 1 \in U
    <3> SUFFICES ASSUME (j + 1) + 1 \in 0..MaxDepth PROVE C!Values[1] \subseteq C!Values[(j + 1) + 1]
      OBVIOUS
    <3>1. PICK m \in 1..MaxDepth : m = (j + 1) + 1 /\ m - 1 = j + 1
      BY DepthIsNatural
    <3>2. C!Values[m - 1] \subseteq C!Values[m]
      BY ValuesGrow
    <3>3. j + 1 \in 0..MaxDepth
      BY DepthIsNatural
    <3>4. C!Values[1] \subseteq C!Values[j + 1]
      BY <2>2, <3>3
    <3> QED
      BY <3>1, <3>2, <3>4
  <2>3. Nat \subseteq U
    <3> HIDE DEF U
    <3> QED
      BY <2>1, <2>2, EveryNumber
  <2>4. d \in Nat /\ d + 1 \in 0..MaxDepth
    BY DepthIsNatural
  <2> QED
    BY <2>3, <2>4
<1>4. ASSUME json = C!JsonNull PROVE Goal
  <2>1. v = C!Null
    BY <1>4, FromJsonScalar
  <2> QED
    BY <1>2, <1>4, <2>1, ScalarsReturn
<1>5. ASSUME json = C!JsonTooLarge PROVE Goal
  BY <1>5, FromJsonScalar
<1>6. ASSUME NEW units \in C!Strings, json = C!JsonString(units) PROVE Goal
  <2>1. C!FromJsonBy(e, json, path, tags) =
            IF C!TagAt(path, tags) = {} THEN {C!Text(units)}
            ELSE {C!Tag(tag, C!Text(units)) : tag \in C!TagAt(path, tags)}
    <3>1. C!FromJsonBy(e, C!JsonString(units), path, tags) =
              IF C!TagAt(path, tags) = {} THEN {C!Text(units)}
              ELSE {C!Tag(tag, C!Text(units)) : tag \in C!TagAt(path, tags)}
      BY FromJsonText, SMTT(40)
    <3> QED
      BY <1>6, <3>1
  <2>2. v = C!Text(units) \/ \E tag \in C!TagAt(path, tags) : v = C!Tag(tag, C!Text(units))
    BY <2>1
  <2>3. ASSUME v = C!Text(units) PROVE Goal
    BY <1>2, <1>6, <2>3, ScalarsReturn
  <2>4. ASSUME NEW tag \in C!TagAt(path, tags), v = C!Tag(tag, C!Text(units)) PROVE Goal
    <3>1. tag \in C!U64 /\ (KnownTags(tags) => tag \in {0, 32})
      BY TagsFit DEF KnownTags
    <3>2. v \in C!Values[1] /\ Returns(tags, C!JsonString(units), v)
      BY <2>4, <3>1, TagsReturn
    <3> QED
      BY <1>3, <1>6, <3>2
  <2> QED
    BY <2>2, <2>3, <2>4
<1>7. ASSUME NEW n \in C!I64, json = C!JsonInteger(n) PROVE Goal
  <2>1. C!FromJsonBy(e, C!JsonInteger(n), path, tags) = {C!Integer(n)}
    BY FromJsonNumber
  <2>2. v = C!Integer(n)
    BY <1>7, <2>1
  <2> QED
    BY <1>2, <1>7, <2>2, ScalarsReturn
<1>8. ASSUME NEW f \in DOMAIN C!FloatBytes, json = C!JsonFloat(f) PROVE Goal
  <2>1. C!FromJsonBy(e, C!JsonFloat(f), path, tags) = IF C!FloatIsCanonical(f) THEN {C!Float(f)} ELSE {}
    BY FromJsonScalar
  <2>2. v = C!Float(f) /\ C!FloatIsCanonical(f)
    BY <1>8, <2>1
  <2> QED
    BY <1>2, <1>8, <2>2, ScalarsReturn
<1>9. ASSUME d # 0, IsJsonContainer(d - 1, json) PROVE Goal
  <2>1. PICK k : k = d - 1
    OBVIOUS
  <2>2. /\ IsJsonContainer(k, json)
        /\ \A its \in C!Jsons[k] : \A at \in Seq(C!Strings) : \A w \in e[its][at] :
              w \in C!Values[d] /\ Returns(tags, its, w)
    BY <1>9, <2>1, Zenon
  <2>3. ASSUME NEW items \in C!Lists(C!Jsons[k]), json = C!JsonArray(items) PROVE Goal
    <3>1. PICK f \in C!All([i \in DOMAIN items |-> e[items[i]][path]]) : v = C!Array(f)
      BY <2>3, FromJsonArray
    <3>2. /\ items \in Seq(C!Jsons[k]) /\ Len(items) \in C!U64 /\ \A i \in DOMAIN items : items[i] \in C!Jsons[k]
      BY LengthsFit, PartsAreIn
    <3>3. /\ f = [i \in DOMAIN items |-> f[i]] /\ \A i \in DOMAIN items : f[i] \in e[items[i]][path]
      BY AllOfParts
    <3>4. \A i \in DOMAIN items : f[i] \in C!Values[d] /\ Returns(tags, items[i], f[i])
      BY <2>2, <3>2, <3>3
    <3>5. DOMAIN items = 1..Len(items) /\ Len(items) \in Nat /\ items = [i \in DOMAIN items |-> items[i]]
      BY <3>2
    <3>6. f \in C!Lists(C!Values[d]) /\ DOMAIN f = DOMAIN items
      <4> DEFINE its == C!Values[d]
      <4>1. \A i \in 1..Len(items) : f[i] \in its
        BY <3>4, <3>5
      <4>2. f = [i \in 1..Len(items) |-> f[i]]
        BY <3>3, <3>5
      <4> HIDE DEF its
      <4>3. f \in Seq(its) /\ Len(f) = Len(items) /\ DOMAIN f = 1..Len(items)
        BY ONLY <3>5, <4>1, <4>2
      <4> QED
        BY <3>2, <3>5, <4>3 DEF C!Lists, its
    <3>7. C!Array(f) \in C!Values[d + 1] /\ Returns(tags, C!JsonArray(items), C!Array(f))
      BY <3>4, <3>5, <3>6, ArraysReturn
    <3> QED
      BY <2>3, <3>1, <3>7
  <2>4. ASSUME NEW fields \in C!Objects(C!Jsons[k]), json = C!JsonObject(fields) PROVE Goal
    <3>1. PICK list : list = C!InOrderOfKeys(fields)
      OBVIOUS
    <3>2. PICK f \in C!All([i \in DOMAIN list |-> JsonEntry(e, path, list[i])]) : v = C!Map(C!SortedByKey(f))
      BY <2>4, <3>1, FromJsonObject
    <3>3. FieldsApart(C!Jsons[k], fields)
      BY ObjectsAreApart
    <3>4. /\ list \in Seq(fields) /\ Len(list) \in C!U64 /\ \A i \in DOMAIN list : list[i] \in fields
      BY <3>1, <3>3, FieldsListed
    <3>5. f = [i \in DOMAIN list |-> f[i]] /\ \A i \in DOMAIN list : f[i] \in JsonEntry(e, path, list[i])
      BY AllOfParts
    <3>6. \A field \in fields : field.key \in C!Strings /\ field.value \in C!Jsons[k]
      BY <3>3 DEF FieldsApart
    <3>7. ASSUME NEW i \in DOMAIN list
          PROVE  /\ f[i] \in EntriesAt(d) /\ f[i].key = C!Text(list[i].key)
                 /\ Returns(tags, list[i].value, f[i].value)
      <4>1. PICK w \in e[list[i].value][Append(path, list[i].key)] :
               f[i] = [key |-> C!Text(list[i].key), value |-> w]
        BY <3>5 DEF JsonEntry
      <4>2. list[i].key \in C!Strings /\ list[i].value \in C!Jsons[k]
        BY <3>4, <3>6
      <4>3. Append(path, list[i].key) \in Seq(C!Strings)
        BY <4>2
      <4>4. w \in C!Values[d] /\ Returns(tags, list[i].value, w)
        BY <2>2, <4>1, <4>2, <4>3
      <4>5. C!Text(list[i].key) \in C!Values[d]
        <5>1. C!Text(list[i].key) \in C!Scalars
          BY <4>2, ScalarsReturn
        <5> QED
          BY <5>1, ScalarShapes, ValueShapes
      <4> QED
        BY <4>1, <4>4, <4>5 DEF EntriesAt
    <3>8. DOMAIN list = 1..Len(list) /\ Len(list) \in Nat
      BY <3>4
    <3>9. f \in C!Lists(EntriesAt(d)) /\ DOMAIN f = DOMAIN list
      <4> DEFINE its == EntriesAt(d)
      <4>1. \A i \in 1..Len(list) : f[i] \in its
        BY <3>7, <3>8
      <4>2. f = [i \in 1..Len(list) |-> f[i]]
        BY <3>5, <3>8
      <4> HIDE DEF its
      <4>3. f \in Seq(its) /\ Len(f) = Len(list) /\ DOMAIN f = 1..Len(list)
        BY ONLY <3>8, <4>1, <4>2
      <4> QED
        BY <3>4, <3>8, <4>3 DEF C!Lists, its
    <3>10. C!Map(C!SortedByKey(f)) \in C!Values[d + 1] /\ Returns(tags, C!JsonObject(fields), C!Map(C!SortedByKey(f)))
      BY <3>1, <3>3, <3>7, <3>9, ObjectsReturn
    <3> QED
      BY <2>4, <3>2, <3>10
  <2> QED
    BY <2>2, <2>3, <2>4, Zenon DEF IsJsonContainer
<1>10. Goal
  BY <1>1, <1>4, <1>5, <1>6, <1>7, <1>8, <1>9, Zenon DEF IsJsonScalar
<1> QED
  BY <1>10, Zenon

LEMMA JsonReturns ==
    ASSUME NEW tags \in Seq([path : Seq(C!Strings), tag : C!U64]),
           NEW json \in C!Jsons[MaxDepth - 1], NEW v \in C!FromJson(json, <<>>, tags)
    PROVE  Returns(tags, json, v)
<1> DEFINE Turned(d) == \A its \in C!Jsons[d] : \A path \in Seq(C!Strings) :
               \A w \in C!FromJsons(tags)[d][its][path] : w \in C!Values[d + 1] /\ Returns(tags, its, w)
           U == {d \in Nat : d \in 0..MaxDepth /\ d # MaxDepth => Turned(d)}
<1>1. ASSUME NEW d \in 0..MaxDepth, d # MaxDepth, d # 0 => Turned(d - 1)
      PROVE  Turned(d)
  <2>1. PICK e : e = IF d = 0 THEN <<>> ELSE C!FromJsons(tags)[d - 1]
    OBVIOUS
  <2>2. d # 0 => \A its \in C!Jsons[d - 1] : \A path \in Seq(C!Strings) : \A w \in e[its][path] :
                    w \in C!Values[d] /\ Returns(tags, its, w)
    <3> SUFFICES ASSUME d # 0, NEW its \in C!Jsons[d - 1], NEW path \in Seq(C!Strings), NEW w \in e[its][path]
                 PROVE  w \in C!Values[d] /\ Returns(tags, its, w)
      OBVIOUS
    <3>1. w \in C!FromJsons(tags)[d - 1][its][path]
      BY <2>1
    <3>2. w \in C!Values[(d - 1) + 1] /\ Returns(tags, its, w)
      BY <1>1, <3>1
    <3>3. (d - 1) + 1 = d
      BY DepthIsNatural
    <3> QED
      BY <3>2, <3>3
  <2> SUFFICES ASSUME NEW its \in C!Jsons[d], NEW path \in Seq(C!Strings),
                      NEW w \in C!FromJsons(tags)[d][its][path]
               PROVE  w \in C!Values[d + 1] /\ Returns(tags, its, w)
    OBVIOUS
  <2>3. C!FromJsons(tags)[d] =
            [other \in C!Jsons[d] |-> [at \in Seq(C!Strings) |-> C!FromJsonBy(e, other, at, tags)]]
    <3>1. C!FromJsons(tags)[d] =
              [other \in C!Jsons[d] |-> [at \in Seq(C!Strings) |->
                  C!FromJsonBy(IF d = 0 THEN <<>> ELSE C!FromJsons(tags)[d - 1], other, at, tags)]]
      BY FromJsonsUnfold
    <3> QED
      BY <2>1, <3>1, Zenon
  <2>4. w \in C!FromJsonBy(e, its, path, tags)
    BY <2>3
  <2> QED
    BY <1>1, <2>2, <2>4, JsonLevelReturns
<1>2. 0 \in U
  BY <1>1
<1>3. ASSUME NEW k \in Nat, k \in U PROVE k + 1 \in U
  <2> SUFFICES ASSUME k + 1 \in 0..MaxDepth, k + 1 # MaxDepth PROVE Turned(k + 1)
    OBVIOUS
  <2>1. k \in 0..MaxDepth /\ k # MaxDepth /\ (k + 1) - 1 = k
    BY DepthIsNatural
  <2>2. Turned((k + 1) - 1)
    BY <1>3, <2>1
  <2> HIDE DEF Turned
  <2> QED
    BY <1>1, <2>2
<1>4. Nat \subseteq U
  <2> HIDE DEF U
  <2> QED
    BY <1>2, <1>3, EveryNumber
<1>5. MaxDepth - 1 \in U /\ MaxDepth - 1 \in 0..MaxDepth /\ MaxDepth - 1 # MaxDepth
  <2>1. MaxDepth - 1 \in Nat /\ MaxDepth - 1 \in 0..MaxDepth /\ MaxDepth - 1 # MaxDepth
    BY QuestionsAssumption
  <2> QED
    BY <1>4, <2>1
<1>6. Turned(MaxDepth - 1)
  BY <1>5
<1>7. v \in C!FromJsons(tags)[MaxDepth - 1][json][<<>>]
  BY DEF C!FromJson
<1>8. <<>> \in Seq(C!Strings)
  OBVIOUS
<1> QED
  BY <1>6, <1>7, <1>8

\* However deep JSON nests and whatever tags its rules give: the CBOR it becomes is
\* canonical, shows that JSON again and nothing else, and does show it when the rules
\* know their tags (json_to_dcbor_bytes, dcbor_bytes_to_json).
THEOREM JsonComesBack == AskSpec => []JsonSurvives
<1>1. Answered => JsonSurvives
  <2> SUFFICES ASSUME Answered, Asked("conversion"), NEW value \in answer.cbor PROVE
           /\ C!Canonicalize(value) = {value}
           /\ C!ToJson(value) \subseteq {question.json}
           /\ (\A i \in DOMAIN question.stringTags : question.stringTags[i].tag \in {0, 32}) =>
                 C!ToJson(value) = {question.json}
    BY DEF JsonSurvives
  <2>1. question \in Questions /\ answer = Answer(question) /\ question.kind = "conversion"
    BY DEF Answered, Asked
  <2>2. /\ question.json \in C!Jsons[MaxDepth - 1]
        /\ question.stringTags \in Seq([path : Seq(C!Strings), tag : C!U64])
    BY <2>1, QuestionsAssumption
  <2>3. answer = [cbor |-> C!FromJson(question.json, <<>>, question.stringTags)]
    BY <2>1 DEF Answer
  <2>4. value \in C!FromJson(question.json, <<>>, question.stringTags)
    BY <2>3
  <2>5. Returns(question.stringTags, question.json, value)
    BY <2>2, <2>4, JsonReturns
  <2> QED
    BY <2>5, Zenon DEF Returns, KnownTags
<1> QED
  BY <1>1, QuestionsAreAnswered, PTL

-----------------------------------------------------------------------------
(* The primitives together: a behaviour of Primitives follows one kind of      *)
(* caller, takes the steps of that kind and leaves the others where they start. *)

LEMMA OneKindSteps ==
    [Next]_vars =>
        /\ scene' = scene
        /\ IF scene = "wrapping" THEN [WrapNext]_<<calls, wrapVars>> ELSE UNCHANGED wrapVars
        /\ IF scene = "sealing" THEN [SealNext]_<<calls, sealVars>> ELSE UNCHANGED sealVars
        /\ IF scene = "co-signing" THEN [CoNext]_<<calls, coVars>> ELSE UNCHANGED coVars
        /\ IF scene = "enveloping" THEN [WireStep]_<<calls, wireVars>> ELSE UNCHANGED wireVars
        /\ IF scene = "bundling" THEN [BundleStep]_<<calls, bundleVars>> ELSE UNCHANGED bundleVars
        /\ IF scene = "proving" THEN [ProofStep]_<<calls, proofVars>> ELSE UNCHANGED proofVars
        /\ IF scene = "asking" THEN [Ask]_<<calls, askVars>> ELSE UNCHANGED askVars
        /\ IF scene = "commanding" THEN [CommandStep]_<<calls, commandVars>> ELSE UNCHANGED commandVars
<1> SUFFICES ASSUME [Next]_vars
             PROVE  /\ scene' = scene
                    /\ IF scene = "wrapping" THEN [WrapNext]_<<calls, wrapVars>> ELSE UNCHANGED wrapVars
                    /\ IF scene = "sealing" THEN [SealNext]_<<calls, sealVars>> ELSE UNCHANGED sealVars
                    /\ IF scene = "co-signing" THEN [CoNext]_<<calls, coVars>> ELSE UNCHANGED coVars
                    /\ IF scene = "enveloping" THEN [WireStep]_<<calls, wireVars>> ELSE UNCHANGED wireVars
                    /\ IF scene = "bundling" THEN [BundleStep]_<<calls, bundleVars>> ELSE UNCHANGED bundleVars
                    /\ IF scene = "proving" THEN [ProofStep]_<<calls, proofVars>> ELSE UNCHANGED proofVars
                    /\ IF scene = "asking" THEN [Ask]_<<calls, askVars>> ELSE UNCHANGED askVars
                    /\ IF scene = "commanding" THEN [CommandStep]_<<calls, commandVars>> ELSE UNCHANGED commandVars
  OBVIOUS
<1>1. ASSUME WrapKeys
      PROVE  scene = "wrapping" /\ WrapNext /\ UNCHANGED <<scene, sealVars, coVars, wireVars, bundleVars, proofVars, askVars, commandVars>>
  BY <1>1, Zenon DEF WrapKeys
<1>2. ASSUME Seal
      PROVE  scene = "sealing" /\ SealNext /\ UNCHANGED <<scene, wrapVars, coVars, wireVars, bundleVars, proofVars, askVars, commandVars>>
  BY <1>2, Zenon DEF Seal
<1>3. ASSUME CoSign
      PROVE  scene = "co-signing" /\ CoNext /\ UNCHANGED <<scene, wrapVars, sealVars, wireVars, bundleVars, proofVars, askVars, commandVars>>
  BY <1>3, Zenon DEF CoSign
<1>4. ASSUME Envelop
      PROVE  scene = "enveloping" /\ WireStep /\ UNCHANGED <<scene, wrapVars, sealVars, coVars, bundleVars, proofVars, askVars, commandVars>>
  BY <1>4, Zenon DEF Envelop
<1>5. ASSUME PackBundle
      PROVE  scene = "bundling" /\ BundleStep /\ UNCHANGED <<scene, wrapVars, sealVars, coVars, wireVars, proofVars, askVars, commandVars>>
  BY <1>5, Zenon DEF PackBundle
<1>6. ASSUME AskForProof
      PROVE  scene = "proving" /\ ProofStep /\ UNCHANGED <<scene, wrapVars, sealVars, coVars, wireVars, bundleVars, askVars, commandVars>>
  BY <1>6, Zenon DEF AskForProof
<1>7. ASSUME AskPrimitive
      PROVE  scene = "asking" /\ Ask /\ UNCHANGED <<scene, wrapVars, sealVars, coVars, wireVars, bundleVars, proofVars, commandVars>>
  BY <1>7, Zenon DEF AskPrimitive
<1>8. ASSUME RunCommandLine
      PROVE  scene = "commanding" /\ CommandStep /\ UNCHANGED <<scene, wrapVars, sealVars, coVars, wireVars, bundleVars, proofVars, askVars>>
  BY <1>8, Zenon DEF RunCommandLine
<1>9. CASE UNCHANGED vars
  BY <1>9 DEF vars
<1> QED
  BY <1>1, <1>2, <1>3, <1>4, <1>5, <1>6, <1>7, <1>8, <1>9 DEF Next

PlainEditsAreCaught == PlainPayloads => EditsAreCaught

LEMMA PlainEdits == BundleSpec => []PlainEditsAreCaught
<1>1. CASE PlainPayloads
  <2>1. BundleSpec => []EditsAreCaught
    BY <1>1, EditsCaught
  <2>2. EditsAreCaught => PlainEditsAreCaught
    BY DEF PlainEditsAreCaught
  <2> QED
    BY <2>1, <2>2, PTL
<1>2. CASE ~PlainPayloads
  <2>1. PlainEditsAreCaught
    BY <1>2 DEF PlainEditsAreCaught
  <2> QED
    BY <2>1, PTL
<1> QED
  BY <1>1, <1>2

LEMMA WrappersKeep == Spec => [](WrapsAreFresh /\ FailuresAreOwn)
<1>1. Init => calls = 0 /\ WrapInit
  BY DEF Init
<1>2. scene = "wrapping" /\ [Next]_vars => (scene = "wrapping")' /\ [WrapNext]_<<calls, wrapVars>>
  BY OneKindSteps
<1>3. WrapInit /\ (~(scene = "wrapping")) /\ [Next]_vars => WrapInit' /\ (~(scene = "wrapping"))'
  <2> SUFFICES ASSUME WrapInit, ~(scene = "wrapping"), [Next]_vars PROVE WrapInit' /\ (~(scene = "wrapping"))'
    OBVIOUS
  <2>1. scene' = scene /\ UNCHANGED wrapVars
    BY OneKindSteps
  <2> QED
    BY <2>1 DEF WrapInit, wrapVars
<1>4. WrapInit => WrapsAreFresh /\ FailuresAreOwn
  BY DEF WrapInit, WrapsAreFresh, FailuresAreOwn
<1> QED
  BY <1>1, <1>2, <1>3, <1>4, FreshWraps, OwnFailures, PTL DEF Spec, WrapSpec

LEMMA SealersKeep == Spec => [](OneHashOneRequest /\ AcceptedUnderRequestedKey)
<1>1. Init => calls = 0 /\ SealInit
  BY DEF Init
<1>2. scene = "sealing" /\ [Next]_vars => (scene = "sealing")' /\ [SealNext]_<<calls, sealVars>>
  BY OneKindSteps
<1>3. SealInit /\ (~(scene = "sealing")) /\ [Next]_vars => SealInit' /\ (~(scene = "sealing"))'
  <2> SUFFICES ASSUME SealInit, ~(scene = "sealing"), [Next]_vars PROVE SealInit' /\ (~(scene = "sealing"))'
    OBVIOUS
  <2>1. scene' = scene /\ UNCHANGED sealVars
    BY OneKindSteps
  <2> QED
    BY <2>1 DEF SealInit, sealVars
<1>4. SealInit => OneHashOneRequest /\ AcceptedUnderRequestedKey
  BY DEF SealInit, OneHashOneRequest, AcceptedUnderRequestedKey
<1> QED
  BY <1>1, <1>2, <1>3, <1>4, HashesPinRequests, RequestedKeySigns, PTL DEF Spec, SealSpec

LEMMA CoSignersKeep == Spec => [](CoSignaturesStand /\ HandoffsPinTheResponse)
<1>1. Init => calls = 0 /\ CoInit
  BY DEF Init
<1>2. scene = "co-signing" /\ [Next]_vars => (scene = "co-signing")' /\ [CoNext]_<<calls, coVars>>
  BY OneKindSteps
<1>3. CoInit /\ (~(scene = "co-signing")) /\ [Next]_vars => CoInit' /\ (~(scene = "co-signing"))'
  <2> SUFFICES ASSUME CoInit, ~(scene = "co-signing"), [Next]_vars PROVE CoInit' /\ (~(scene = "co-signing"))'
    OBVIOUS
  <2>1. scene' = scene /\ UNCHANGED coVars
    BY OneKindSteps
  <2> QED
    BY <2>1 DEF CoInit, coVars
<1>4. CoInit => CoSignaturesStand /\ HandoffsPinTheResponse
  BY DEF CoInit, CoSignaturesStand, HandoffsPinTheResponse
<1> QED
  BY <1>1, <1>2, <1>3, <1>4, SignaturesStand, HandoffsPin, PTL DEF Spec, CoSpec

LEMMA EnvelopesKeep == Spec => [](EncodedIsRead /\ CodecsReadAlike /\ OnlyTheSignedVerifies)
<1>1. Init => calls = 0 /\ WireInit
  BY DEF Init
<1>2. scene = "enveloping" /\ [Next]_vars => (scene = "enveloping")' /\ [WireStep]_<<calls, wireVars>>
  BY OneKindSteps
<1>3. WireInit /\ (~(scene = "enveloping")) /\ [Next]_vars => WireInit' /\ (~(scene = "enveloping"))'
  <2> SUFFICES ASSUME WireInit, ~(scene = "enveloping"), [Next]_vars PROVE WireInit' /\ (~(scene = "enveloping"))'
    OBVIOUS
  <2>1. scene' = scene /\ UNCHANGED wireVars
    BY OneKindSteps
  <2> QED
    BY <2>1 DEF WireInit, wireVars
<1>4. WireInit => EncodedIsRead /\ CodecsReadAlike /\ OnlyTheSignedVerifies
  BY DEF WireInit, EncodedIsRead, CodecsReadAlike, OnlyTheSignedVerifies
<1> QED
  BY <1>1, <1>2, <1>3, <1>4, EncodedReads, CodecsAgree, SignedOnly, PTL DEF Spec, WireSpec

LEMMA BundlesKeep == Spec => [](PackedIsRead /\ PlainEditsAreCaught)
<1>1. Init => calls = 0 /\ BundleInit
  BY DEF Init
<1>2. scene = "bundling" /\ [Next]_vars => (scene = "bundling")' /\ [BundleStep]_<<calls, bundleVars>>
  BY OneKindSteps
<1>3. BundleInit /\ (~(scene = "bundling")) /\ [Next]_vars => BundleInit' /\ (~(scene = "bundling"))'
  <2> SUFFICES ASSUME BundleInit, ~(scene = "bundling"), [Next]_vars PROVE BundleInit' /\ (~(scene = "bundling"))'
    OBVIOUS
  <2>1. scene' = scene /\ UNCHANGED bundleVars
    BY OneKindSteps
  <2> QED
    BY <2>1 DEF BundleInit, bundleVars
<1>4. BundleInit => PackedIsRead /\ PlainEditsAreCaught
  <2>1. BundleInit => PackedIsRead
    BY BundleInductive, PackedIsReadNow
  <2>2. BundleInit => PlainEditsAreCaught
    BY DEF BundleInit, PlainEditsAreCaught, EditsAreCaught
  <2> QED
    BY <2>1, <2>2
<1> QED
  BY <1>1, <1>2, <1>3, <1>4, PackedReads, PlainEdits, PTL DEF Spec, BundleSpec

LEMMA ProversKeep == Spec => [](OnlyTheAuditPathProves /\ OnlyOneHistoryIsConsistent)
<1>1. Init => calls = 0 /\ ProofInit
  BY DEF Init
<1>2. scene = "proving" /\ [Next]_vars => (scene = "proving")' /\ [ProofStep]_<<calls, proofVars>>
  BY OneKindSteps
<1>3. ProofInit /\ (~(scene = "proving")) /\ [Next]_vars => ProofInit' /\ (~(scene = "proving"))'
  <2> SUFFICES ASSUME ProofInit, ~(scene = "proving"), [Next]_vars PROVE ProofInit' /\ (~(scene = "proving"))'
    OBVIOUS
  <2>1. scene' = scene /\ UNCHANGED proofVars
    BY OneKindSteps
  <2> QED
    BY <2>1 DEF ProofInit, proofVars
<1>4. ProofInit => OnlyTheAuditPathProves /\ OnlyOneHistoryIsConsistent
  BY Zenon DEF ProofInit, AskedFor, OnlyTheAuditPathProves, OnlyOneHistoryIsConsistent
<1> QED
  BY <1>1, <1>2, <1>3, <1>4, OnlyAuditPaths, OnlyOneHistory, PTL DEF Spec, ProofSpec

LEMMA AskersKeep == Spec => [](OneMeaningOneEncoding /\ JsonSurvives)
<1>1. Init => calls = 0 /\ AskInit
  BY DEF Init
<1>2. scene = "asking" /\ [Next]_vars => (scene = "asking")' /\ [Ask]_<<calls, askVars>>
  BY OneKindSteps
<1>3. AskInit /\ (~(scene = "asking")) /\ [Next]_vars => AskInit' /\ (~(scene = "asking"))'
  <2> SUFFICES ASSUME AskInit, ~(scene = "asking"), [Next]_vars PROVE AskInit' /\ (~(scene = "asking"))'
    OBVIOUS
  <2>1. scene' = scene /\ UNCHANGED askVars
    BY OneKindSteps
  <2> QED
    BY <2>1 DEF AskInit, askVars
<1>4. AskInit => OneMeaningOneEncoding /\ JsonSurvives
  BY Zenon DEF AskInit, Asked, OneMeaningOneEncoding, JsonSurvives
<1> QED
  BY <1>1, <1>2, <1>3, <1>4, EncodingsMean, JsonComesBack, PTL DEF Spec, AskSpec

LEMMA CommandsKeep == Spec => [](ExitZeroIsTheWholeReport)
<1>1. Init => calls = 0 /\ CommandInit
  BY DEF Init
<1>2. scene = "commanding" /\ [Next]_vars => (scene = "commanding")' /\ [CommandStep]_<<calls, commandVars>>
  BY OneKindSteps
<1>3. CommandInit /\ (~(scene = "commanding")) /\ [Next]_vars => CommandInit' /\ (~(scene = "commanding"))'
  <2> SUFFICES ASSUME CommandInit, ~(scene = "commanding"), [Next]_vars PROVE CommandInit' /\ (~(scene = "commanding"))'
    OBVIOUS
  <2>1. scene' = scene /\ UNCHANGED commandVars
    BY OneKindSteps
  <2> QED
    BY <2>1 DEF CommandInit, commandVars
<1>4. CommandInit => ExitZeroIsTheWholeReport
  BY DEF CommandInit, ExitZeroIsTheWholeReport
<1> QED
  BY <1>1, <1>2, <1>3, <1>4, WholeReports, PTL DEF Spec, CommandSpec

\* Whatever kind of caller a behaviour follows, and whatever the constants are, every
\* promise of every kind holds all along it; edits of archives are caught when payloads
\* are plain.
PrimitivesKeepTheirPromises ==
    /\ WrapsAreFresh
    /\ FailuresAreOwn
    /\ OneHashOneRequest
    /\ AcceptedUnderRequestedKey
    /\ CoSignaturesStand
    /\ HandoffsPinTheResponse
    /\ EncodedIsRead
    /\ CodecsReadAlike
    /\ OnlyTheSignedVerifies
    /\ PackedIsRead
    /\ PlainEditsAreCaught
    /\ OnlyTheAuditPathProves
    /\ OnlyOneHistoryIsConsistent
    /\ OneMeaningOneEncoding
    /\ JsonSurvives
    /\ ExitZeroIsTheWholeReport

\* What each component promises by itself it promises beside the others: the primitives of
\* the suite share nothing that would let a call of one kind break a promise of another
\* (integrity-hpke, integrity-seam, integrity-canonical, integrity-cose, integrity-bundle,
\* integrity-cbor, merkle.rs, cli.rs).
THEOREM PrimitivesKeep == Spec => []PrimitivesKeepTheirPromises
<1>1. WrapsAreFresh /\ FailuresAreOwn /\ OneHashOneRequest /\ AcceptedUnderRequestedKey /\ CoSignaturesStand /\ HandoffsPinTheResponse /\ EncodedIsRead /\ CodecsReadAlike /\ OnlyTheSignedVerifies /\ PackedIsRead /\ PlainEditsAreCaught /\ OnlyTheAuditPathProves /\ OnlyOneHistoryIsConsistent /\ OneMeaningOneEncoding /\ JsonSurvives /\ ExitZeroIsTheWholeReport
      => PrimitivesKeepTheirPromises
  BY Zenon DEF PrimitivesKeepTheirPromises
<1> QED
  BY <1>1, WrappersKeep, SealersKeep, CoSignersKeep, EnvelopesKeep, BundlesKeep, ProversKeep, AskersKeep, CommandsKeep, PTL
=============================================================================
