-------------------------- MODULE OrderedSetsProofs --------------------------
(***************************************************************************)
(* What the operators of OrderedSets return, for sequences of any length.   *)
(* The library's induction theorems cannot be instantiated; the induction   *)
(* here is over membership in a set, from the least element outside it.     *)
(***************************************************************************)
EXTENDS OrderedSets, TLAPS, WellFoundedInduction

(* A set of natural numbers has a least element.                            *)
LEMMA LeastElement ==
  ASSUME NEW T \in SUBSET Nat, T # {}
  PROVE  \E x \in T : \A y \in T : x <= y
<1> DEFINE R == {r \in Nat \X Nat : r[1] < r[2]}
<1>1. IsWellFoundedOn(R, Nat)
  BY NatLessThanWellFounded DEF OpToRel
<1>2. \A x, y \in Nat : x < y => <<x, y>> \in R
  OBVIOUS
<1> HIDE DEF R
<1>3. PICK x \in T : \A y \in T : ~ (<<y, x>> \in R)
  BY <1>1, WFMin, Zenon
<1>4. ASSUME NEW y \in T
      PROVE  x <= y
  <2>1. ~ (<<y, x>> \in R)
    BY <1>3
  <2>2. ~ (y < x)
    BY <1>2, <2>1
  <2> QED
    BY <2>2
<1> QED
  BY <1>4

(* Induction, over membership in S.                                         *)
LEMMA Induction ==
  ASSUME NEW S, 0 \in S, \A i \in Nat : i \in S => i + 1 \in S
  PROVE  Nat \subseteq S
<1> DEFINE T == {i \in Nat : i \notin S}
<1> SUFFICES ASSUME T # {} PROVE FALSE
  OBVIOUS
<1>1. PICK x \in T : \A y \in T : x <= y
  BY LeastElement
<1>2. x # 0
  BY <1>1
<1>3. x - 1 \in Nat /\ x - 1 \notin T
  BY <1>1, <1>2
<1>4. x - 1 \in S
  BY <1>3
<1>5. (x - 1) + 1 \in S
  BY <1>4, <1>3
<1>6. (x - 1) + 1 = x
  BY <1>1
<1> QED
  BY <1>1, <1>5, <1>6

(* What appending does to the elements, and when it keeps them apart.       *)
LEMMA Appending ==
  ASSUME NEW K, NEW s \in Seq(K), NEW k \in K
  PROVE  /\ Append(s, k) \in Seq(K) /\ Len(Append(s, k)) = Len(s) + 1
         /\ ToSet(Append(s, k)) = ToSet(s) \cup {k}
         /\ IsInjective(s) /\ k \notin ToSet(s) => IsInjective(Append(s, k))
<1>1. Append(s, k) \in Seq(K) /\ Len(Append(s, k)) = Len(s) + 1
  OBVIOUS
<1>2. /\ \A i \in 1 .. Len(s) : Append(s, k)[i] = s[i]
      /\ Append(s, k)[Len(s) + 1] = k
  OBVIOUS
<1>3. /\ DOMAIN s = 1 .. Len(s) /\ DOMAIN Append(s, k) = 1 .. Len(s) + 1
      /\ Len(s) \in Nat
  BY <1>1
<1>4. ToSet(Append(s, k)) = ToSet(s) \cup {k}
  BY <1>2, <1>3 DEF ToSet
<1>5. ASSUME IsInjective(s), k \notin ToSet(s)
      PROVE  IsInjective(Append(s, k))
  BY <1>2, <1>3, <1>5 DEF ToSet, IsInjective
<1> QED
  BY <1>1, <1>4, <1>5
-----------------------------------------------------------------------------
(* What applying step n times gives exists as a function.                   *)
LEMMA Iteration ==
  ASSUME NEW X, NEW a \in X, NEW n \in Nat, NEW step \in [1 .. n -> [X -> X]]
  PROVE  \E f \in [0 .. n -> X] : f[0] = a /\ \A i \in 1 .. n : f[i] = step[i][f[i - 1]]
<1> DEFINE Obeys(f, m) == \A i \in 1 .. m : f[i] = step[i][f[i - 1]]
           S == {m \in Nat : m <= n => \E f \in [0 .. m -> X] : f[0] = a /\ Obeys(f, m)}
<1>1. 0 \in S
  <2> DEFINE f == [i \in 0 .. 0 |-> a]
  <2>1. f \in [0 .. 0 -> X] /\ f[0] = a /\ Obeys(f, 0)
    OBVIOUS
  <2> HIDE DEF f
  <2> QED
    BY <2>1
<1>2. ASSUME NEW m \in Nat, m \in S
      PROVE  m + 1 \in S
  <2> SUFFICES ASSUME m + 1 <= n
               PROVE  \E g \in [0 .. m + 1 -> X] : g[0] = a /\ Obeys(g, m + 1)
    OBVIOUS
  <2>1. PICK f \in [0 .. m -> X] : f[0] = a /\ Obeys(f, m)
    BY <1>2
  <2> DEFINE last == step[m + 1][f[m]]
             g == [i \in 0 .. m + 1 |-> IF i = m + 1 THEN last ELSE f[i]]
  <2>2. last \in X
    BY <2>1
  <2>3. g[m + 1] = last /\ \A i \in 0 .. m : g[i] = f[i]
    OBVIOUS
  <2>4. g \in [0 .. m + 1 -> X]
    BY <2>1, <2>2
  <2> HIDE DEF g
  <2>5. g[0] = a
    BY <2>1, <2>3
  <2>6. ASSUME NEW i \in 1 .. m + 1
        PROVE  g[i] = step[i][g[i - 1]]
    <3>1. CASE i = m + 1
      BY <3>1, <2>3
    <3>2. CASE i \in 1 .. m
      <4>1. g[i] = f[i] /\ g[i - 1] = f[i - 1]
        BY <3>2, <2>3
      <4> QED
        BY <4>1, <3>2, <2>1
    <3> QED
      BY <3>1, <3>2
  <2> QED
    BY <2>4, <2>5, <2>6
<1>3. n \in S
  <2> HIDE DEF S
  <2>1. Nat \subseteq S
    BY <1>1, <1>2, Induction
  <2> QED
    BY <2>1
<1> QED
  BY <1>3

(* The recursive function of Only exists, and its values are sequences.     *)
LEMMA OnlyFunction ==
  ASSUME NEW K, NEW s \in Seq(K), NEW keep
  PROVE  \E f : f = [i \in 0 .. Len(s) |->
                       IF i = 0 THEN <<>>
                       ELSE IF s[i] \in keep THEN Append(f[i - 1], s[i]) ELSE f[i - 1]]
<1> DEFINE step == [i \in 1 .. Len(s) |->
                      [p \in Seq(K) |-> IF s[i] \in keep THEN Append(p, s[i]) ELSE p]]
<1>1. step \in [1 .. Len(s) -> [Seq(K) -> Seq(K)]]
  OBVIOUS
<1>2. \A i \in 1 .. Len(s), p \in Seq(K) :
        step[i][p] = IF s[i] \in keep THEN Append(p, s[i]) ELSE p
  OBVIOUS
<1> HIDE DEF step
<1>3. PICK f \in [0 .. Len(s) -> Seq(K)] :
        f[0] = <<>> /\ \A i \in 1 .. Len(s) : f[i] = step[i][f[i - 1]]
  <2> DEFINE X == Seq(K)
             n == Len(s)
             none == <<>>
  <2>1. none \in X /\ n \in Nat /\ step \in [1 .. n -> [X -> X]]
    BY <1>1
  <2> HIDE DEF X, n, none
  <2>2. \E f \in [0 .. n -> X] : f[0] = none /\ \A i \in 1 .. n : f[i] = step[i][f[i - 1]]
    BY <2>1, Iteration
  <2> QED
    BY <2>2 DEF X, n, none
<1>4. ASSUME NEW i \in 0 .. Len(s)
      PROVE  f[i] = IF i = 0 THEN <<>>
                    ELSE IF s[i] \in keep THEN Append(f[i - 1], s[i]) ELSE f[i - 1]
  <2>1. CASE i = 0
    BY <2>1, <1>3
  <2>2. CASE i # 0
    <3>1. i \in 1 .. Len(s) /\ f[i - 1] \in Seq(K)
      BY <2>2
    <3> QED
      BY <3>1, <2>2, <1>2, <1>3
  <2> QED
    BY <2>1, <2>2
<1>5. f = [i \in 0 .. Len(s) |->
             IF i = 0 THEN <<>>
             ELSE IF s[i] \in keep THEN Append(f[i - 1], s[i]) ELSE f[i - 1]]
  BY <1>4
<1> QED
  BY <1>5

(* What Only returns: the elements of s that are in keep, in a sequence no  *)
(* longer than s, shorter if one was left out, without repetitions if s has *)
(* none; and what comes first in s comes first in it.                       *)
LEMMA OnlyKeeps ==
  ASSUME NEW K, NEW s \in Seq(K), NEW keep
  PROVE  /\ Only(s, keep) \in Seq(K)
         /\ ToSet(Only(s, keep)) = ToSet(s) \cap keep
         /\ Len(Only(s, keep)) <= Len(s)
         /\ (\E k \in ToSet(s) : k \notin keep) => Len(Only(s, keep)) < Len(s)
         /\ IsInjective(s) => IsInjective(Only(s, keep))
         /\ s # <<>> /\ s[1] \in keep => Only(s, keep)[1] = s[1]
<1> DEFINE Rec(f) == [i \in 0 .. Len(s) |->
                        IF i = 0 THEN <<>>
                        ELSE IF s[i] \in keep THEN Append(f[i - 1], s[i]) ELSE f[i - 1]]
           kept == CHOOSE f : f = Rec(f)
           Before(i) == {s[j] : j \in 1 .. i}
           Good(i) == /\ kept[i] \in Seq(K)
                      /\ ToSet(kept[i]) = Before(i) \cap keep
                      /\ Len(kept[i]) <= i
                      /\ (\E k \in Before(i) : k \notin keep) => Len(kept[i]) < i
                      /\ IsInjective(s) => IsInjective(kept[i])
                      /\ i > 0 /\ s[1] \in keep => Len(kept[i]) > 0 /\ kept[i][1] = s[1]
           S == {i \in Nat : i <= Len(s) => Good(i)}
<1>1. kept = Rec(kept)
  <2>1. \E f : f = Rec(f)
    BY OnlyFunction
  <2> QED
    BY <2>1
<1>2. Only(s, keep) = kept[Len(s)]
  BY DEF Only
<1> HIDE DEF kept
<1>3. kept[0] = <<>>
  BY <1>1
<1>4. ASSUME NEW i \in Nat, i + 1 <= Len(s)
      PROVE  kept[i + 1] = IF s[i + 1] \in keep THEN Append(kept[i], s[i + 1]) ELSE kept[i]
  <2>1. i + 1 \in 0 .. Len(s) /\ i + 1 # 0 /\ (i + 1) - 1 = i
    BY <1>4
  <2>2. Rec(kept)[i + 1] = IF s[i + 1] \in keep
                             THEN Append(kept[(i + 1) - 1], s[i + 1]) ELSE kept[(i + 1) - 1]
    BY <2>1
  <2> QED
    BY <2>1, <2>2, <1>1
<1>5. 0 \in S
  <2>1. kept[0] \in Seq(K) /\ Len(kept[0]) = 0 /\ DOMAIN kept[0] = {}
    BY <1>3
  <2>2. Before(0) = {}
    OBVIOUS
  <2> HIDE DEF Before
  <2> QED
    BY <2>1, <2>2 DEF ToSet, IsInjective
<1>6. ASSUME NEW i \in Nat, i \in S
      PROVE  i + 1 \in S
  <2> SUFFICES ASSUME i + 1 <= Len(s) PROVE Good(i + 1)
    OBVIOUS
  <2>1. Good(i)
    BY <1>6
  <2>2. s[i + 1] \in K /\ Before(i + 1) = Before(i) \cup {s[i + 1]}
    OBVIOUS
  <2>3. CASE s[i + 1] \in keep
    <3>1. kept[i + 1] = Append(kept[i], s[i + 1])
      BY <1>4, <2>3
    <3>2. IsInjective(s) => s[i + 1] \notin Before(i)
      BY DEF IsInjective
    <3> HIDE DEF Before
    <3> QED
      BY <3>1, <3>2, <2>1, <2>2, <2>3, Appending
  <2>4. CASE s[i + 1] \notin keep
    <3>1. kept[i + 1] = kept[i]
      BY <1>4, <2>4
    <3> HIDE DEF Before
    <3> QED
      BY <3>1, <2>1, <2>2, <2>4
  <2> QED
    BY <2>3, <2>4
<1>7. Good(Len(s))
  <2>1. Len(s) \in S
    <3> HIDE DEF S
    <3>1. Nat \subseteq S
      BY <1>5, <1>6, Induction
    <3> QED
      BY <3>1
  <2> QED
    BY <2>1
<1>8. Before(Len(s)) = ToSet(s)
  BY DEF ToSet
<1> HIDE DEF Before
<1> QED
  BY <1>2, <1>7, <1>8
-----------------------------------------------------------------------------
(* The recursive function of FirstOccurrences exists.                       *)
LEMMA FirstOccurrencesFunction ==
  ASSUME NEW K, NEW s \in Seq(K)
  PROVE  \E f : f = [i \in 0 .. Len(s) |->
                       IF i = 0 THEN <<>>
                       ELSE IF s[i] \in ToSet(f[i - 1]) THEN f[i - 1] ELSE Append(f[i - 1], s[i])]
<1> DEFINE step == [i \in 1 .. Len(s) |->
                      [p \in Seq(K) |-> IF s[i] \in ToSet(p) THEN p ELSE Append(p, s[i])]]
<1>1. step \in [1 .. Len(s) -> [Seq(K) -> Seq(K)]]
  OBVIOUS
<1>2. \A i \in 1 .. Len(s), p \in Seq(K) :
        step[i][p] = IF s[i] \in ToSet(p) THEN p ELSE Append(p, s[i])
  OBVIOUS
<1> HIDE DEF step
<1>3. PICK f \in [0 .. Len(s) -> Seq(K)] :
        f[0] = <<>> /\ \A i \in 1 .. Len(s) : f[i] = step[i][f[i - 1]]
  <2> DEFINE X == Seq(K)
             n == Len(s)
             none == <<>>
  <2>1. none \in X /\ n \in Nat /\ step \in [1 .. n -> [X -> X]]
    BY <1>1
  <2> HIDE DEF X, n, none
  <2>2. \E f \in [0 .. n -> X] : f[0] = none /\ \A i \in 1 .. n : f[i] = step[i][f[i - 1]]
    BY <2>1, Iteration
  <2> QED
    BY <2>2 DEF X, n, none
<1>4. ASSUME NEW i \in 0 .. Len(s)
      PROVE  f[i] = IF i = 0 THEN <<>>
                    ELSE IF s[i] \in ToSet(f[i - 1]) THEN f[i - 1] ELSE Append(f[i - 1], s[i])
  <2>1. CASE i = 0
    BY <2>1, <1>3
  <2>2. CASE i # 0
    <3>1. i \in 1 .. Len(s) /\ f[i - 1] \in Seq(K)
      BY <2>2
    <3> QED
      BY <3>1, <2>2, <1>2, <1>3
  <2> QED
    BY <2>1, <2>2
<1>5. f = [i \in 0 .. Len(s) |->
             IF i = 0 THEN <<>>
             ELSE IF s[i] \in ToSet(f[i - 1]) THEN f[i - 1] ELSE Append(f[i - 1], s[i])]
  BY <1>4
<1> QED
  BY <1>5

(* What FirstOccurrences returns: the elements of s, each of them once, the *)
(* first in its place.                                                      *)
LEMMA FirstOccurrencesKeeps ==
  ASSUME NEW K, NEW s \in Seq(K)
  PROVE  /\ FirstOccurrences(s) \in Seq(K)
         /\ ToSet(FirstOccurrences(s)) = ToSet(s)
         /\ IsInjective(FirstOccurrences(s))
         /\ s # <<>> => FirstOccurrences(s)[1] = s[1]
<1> DEFINE Rec(f) == [i \in 0 .. Len(s) |->
                        IF i = 0 THEN <<>>
                        ELSE IF s[i] \in ToSet(f[i - 1]) THEN f[i - 1]
                             ELSE Append(f[i - 1], s[i])]
           seen == CHOOSE f : f = Rec(f)
           Before(i) == {s[j] : j \in 1 .. i}
           Good(i) == /\ seen[i] \in Seq(K)
                      /\ ToSet(seen[i]) = Before(i)
                      /\ IsInjective(seen[i])
                      /\ i > 0 => Len(seen[i]) > 0 /\ seen[i][1] = s[1]
           S == {i \in Nat : i <= Len(s) => Good(i)}
<1>1. seen = Rec(seen)
  <2>1. \E f : f = Rec(f)
    BY FirstOccurrencesFunction
  <2> QED
    BY <2>1
<1>2. FirstOccurrences(s) = seen[Len(s)]
  BY DEF FirstOccurrences
<1> HIDE DEF seen
<1>3. seen[0] = <<>>
  BY <1>1
<1>4. ASSUME NEW i \in Nat, i + 1 <= Len(s)
      PROVE  seen[i + 1] = IF s[i + 1] \in ToSet(seen[i]) THEN seen[i]
                           ELSE Append(seen[i], s[i + 1])
  <2>1. i + 1 \in 0 .. Len(s) /\ i + 1 # 0 /\ (i + 1) - 1 = i
    BY <1>4
  <2>2. Rec(seen)[i + 1] = IF s[i + 1] \in ToSet(seen[(i + 1) - 1]) THEN seen[(i + 1) - 1]
                           ELSE Append(seen[(i + 1) - 1], s[i + 1])
    BY <2>1
  <2> QED
    BY <2>1, <2>2, <1>1
<1>5. 0 \in S
  <2>1. seen[0] \in Seq(K) /\ Len(seen[0]) = 0 /\ DOMAIN seen[0] = {}
    BY <1>3
  <2>2. Before(0) = {}
    OBVIOUS
  <2> HIDE DEF Before
  <2> QED
    BY <2>1, <2>2 DEF ToSet, IsInjective
<1>6. ASSUME NEW i \in Nat, i \in S
      PROVE  i + 1 \in S
  <2> SUFFICES ASSUME i + 1 <= Len(s) PROVE Good(i + 1)
    OBVIOUS
  <2>1. Good(i)
    BY <1>6
  <2>2. s[i + 1] \in K /\ Before(i + 1) = Before(i) \cup {s[i + 1]}
    OBVIOUS
  <2>3. CASE s[i + 1] \notin ToSet(seen[i])
    <3>1. seen[i + 1] = Append(seen[i], s[i + 1])
      BY <1>4, <2>3
    <3>2. i = 0 => seen[i] = <<>>
      BY <1>3
    <3> HIDE DEF Before
    <3>3. /\ seen[i + 1] \in Seq(K) /\ Len(seen[i + 1]) > 0
          /\ ToSet(seen[i + 1]) = Before(i + 1) /\ IsInjective(seen[i + 1])
      <4> DEFINE q == seen[i]
                 k == s[i + 1]
      <4>1. q \in Seq(K) /\ k \in K
        BY <2>1, <2>2
      <4> HIDE DEF q, k
      <4>2. /\ Append(q, k) \in Seq(K) /\ Len(Append(q, k)) = Len(q) + 1
            /\ ToSet(Append(q, k)) = ToSet(q) \cup {k}
            /\ IsInjective(q) /\ k \notin ToSet(q) => IsInjective(Append(q, k))
        BY <4>1, Appending
      <4>3. Len(Append(q, k)) > 0
        BY <4>1, <4>2
      <4> QED
        BY <4>2, <4>3, <3>1, <2>1, <2>2, <2>3 DEF q, k
    <3>4. seen[i + 1][1] = s[1]
      <4>1. CASE i = 0
        BY <4>1, <3>1, <3>2, <2>2
      <4>2. CASE i > 0
        BY <4>2, <3>1, <2>1, <2>2
      <4> QED
        BY <4>1, <4>2
    <3> QED
      BY <3>3, <3>4
  <2>4. CASE s[i + 1] \in ToSet(seen[i])
    <3>1. seen[i + 1] = seen[i]
      BY <1>4, <2>4
    <3>2. i # 0
      BY <2>1, <2>4
    <3> HIDE DEF Before
    <3>3. Before(i + 1) = Before(i)
      BY <2>1, <2>2, <2>4
    <3>4. i > 0
      BY <3>2
    <3> QED
      BY <3>1, <3>3, <3>4, <2>1
  <2> QED
    BY <2>3, <2>4
<1>7. Good(Len(s))
  <2>1. Len(s) \in S
    <3> HIDE DEF S
    <3>1. Nat \subseteq S
      BY <1>5, <1>6, Induction
    <3> QED
      BY <3>1
  <2> QED
    BY <2>1
<1>8. Before(Len(s)) = ToSet(s)
  BY DEF ToSet
<1> HIDE DEF Before
<1> QED
  BY <1>2, <1>7, <1>8
=============================================================================
