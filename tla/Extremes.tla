------------------------------ MODULE Extremes ------------------------------
(***************************************************************************)
(* Least and greatest elements of sets of naturals, which the proofs of    *)
(* other modules use for what is oldest, newest or largest; and, from the  *)
(* least counterexample, induction over an interval and the loops that it  *)
(* defines: what the code computes in one pass over a list.  Sums over a   *)
(* range of integers, which the library computes as folds, and how far the *)
(* integral of a step function is from the sum that it stands for.  At the *)
(* end, the entries of a history: the newest added, the outdated dropped,  *)
(* the largest count found.                                                *)
(***************************************************************************)
EXTENDS Integers, Sequences, FiniteSetTheorems, WellFoundedInduction, TLAPS

(***************************************************************************)
(* Every non-empty set of natural numbers has a least element.             *)
(***************************************************************************)
LEMMA LeastElement ==
    ASSUME NEW T, T \subseteq Nat, T # {}
    PROVE  \E x \in T : \A y \in T : x <= y
<1> DEFINE R == OpToRel(<, Nat)
<1>1. IsWellFoundedOn(R, Nat)
  BY NatLessThanWellFounded
<1> HIDE DEF R
<1>2. PICK x \in T : \A y \in T : ~ (<<y, x>> \in R)
  BY <1>1, WFMin
<1>3. \A y \in T : <<y, x>> \in R <=> y < x
  BY DEF R, OpToRel
<1>4. ASSUME NEW y \in T PROVE x <= y
  <2>1. x \in Nat /\ y \in Nat
    OBVIOUS
  <2>2. ~ (y < x)
    BY <1>2, <1>3
  <2>3. QED
    BY <2>1, <2>2
<1>5. QED
  BY <1>4

(***************************************************************************)
(* A non-empty set of naturals below a bound has a greatest element.       *)
(***************************************************************************)
LEMMA GreatestElement ==
    ASSUME NEW T, T \subseteq Nat, T # {}, NEW b \in Nat, \A x \in T : x <= b
    PROVE  \E m \in T : \A x \in T : x <= m
<1> DEFINE U == {b - x : x \in T}
<1>1. U \subseteq Nat
  <2>1. ASSUME NEW x \in T PROVE b - x \in Nat
    <3>1. x \in Nat /\ x <= b
      OBVIOUS
    <3>2. QED
      BY <3>1
  <2>2. QED
    BY <2>1
<1>2. U # {}
  OBVIOUS
<1>3. PICK u \in U : \A v \in U : u <= v
  <2> HIDE DEF U
  <2>1. QED
    BY <1>1, <1>2, LeastElement
<1>4. PICK m \in T : u = b - m
  BY <1>3
<1>5. ASSUME NEW x \in T PROVE x <= m
  <2>1. b - m <= b - x
    BY <1>3, <1>4
  <2>2. x \in Nat /\ m \in Nat
    OBVIOUS
  <2>3. QED
    BY <2>1, <2>2
<1>6. QED
  BY <1>5

(***************************************************************************)
(* Induction over an interval, for the set of the numbers that have what   *)
(* is to be shown.                                                         *)
(***************************************************************************)
LEMMA IntervalInduction ==
    ASSUME NEW n \in Nat, NEW T, 0 \in T, \A i \in 1..n : i - 1 \in T => i \in T
    PROVE  0..n \subseteq T
<1> DEFINE B == (0..n) \ T
<1>1. SUFFICES ASSUME B # {} PROVE FALSE
  OBVIOUS
<1>2. B \subseteq Nat
  OBVIOUS
<1>3. PICK m \in B : \A k \in B : m <= k
  <2> HIDE DEF B
  <2>1. QED
    BY <1>1, <1>2, LeastElement
<1>4. m \in 1..n /\ m - 1 \in 0..n /\ m \notin T
  OBVIOUS
<1>5. m - 1 \in T
  BY <1>3, <1>4
<1>6. QED
  BY <1>4, <1>5

(***************************************************************************)
(* A loop over 1..n that computes each state from the one before.          *)
(***************************************************************************)
IsLoop(g, S, n, base, step) ==
    /\ g \in [0..n -> S] /\ g[0] = base
    /\ \A i \in 1..n : g[i] = step[i][g[i - 1]]

(***************************************************************************)
(* Whatever its passes do, a loop computes something.                      *)
(***************************************************************************)
LEMMA LoopExists ==
    ASSUME NEW S, NEW n \in Nat, NEW base \in S, NEW step \in [1..n -> [S -> S]]
    PROVE  \E g : IsLoop(g, S, n, base, step)
<1> DEFINE Done(m) == \E g \in [0..m -> S] :
                         g[0] = base /\ \A i \in 1..m : g[i] = step[i][g[i - 1]]
           T == {m \in 0..n : Done(m)}
<1>1. Done(0)
  <2> DEFINE g == [i \in 0..0 |-> base]
  <2>1. g \in [0..0 -> S] /\ g[0] = base /\ 1..0 = {}
    OBVIOUS
  <2>2. \A i \in 1..0 : g[i] = step[i][g[i - 1]]
    BY <2>1
  <2> HIDE DEF g
  <2>3. QED
    BY <2>1, <2>2
<1>2. ASSUME NEW m \in 1..n, Done(m - 1) PROVE Done(m)
  <2>1. PICK g \in [0..(m - 1) -> S] :
                 g[0] = base /\ \A i \in 1..(m - 1) : g[i] = step[i][g[i - 1]]
    BY <1>2
  <2> DEFINE h == [i \in 0..m |-> IF i = m THEN step[m][g[m - 1]] ELSE g[i]]
  <2>2. h \in [0..m -> S] /\ h[0] = base
    BY <2>1
  <2>3. ASSUME NEW i \in 1..m PROVE h[i] = step[i][h[i - 1]]
    BY <2>1
  <2> HIDE DEF h
  <2>4. QED
    BY <2>2, <2>3
<1>3. 0 \in T /\ \A i \in 1..n : i - 1 \in T => i \in T
  <2> HIDE DEF Done
  <2>1. 0 \in 0..n /\ \A i \in 1..n : i \in 0..n
    OBVIOUS
  <2>2. QED
    BY <1>1, <1>2, <2>1
<1>4. n \in T
  <2> HIDE DEF T
  <2>1. n \in 0..n
    OBVIOUS
  <2>2. 0..n \subseteq T
    BY <1>3, IntervalInduction
  <2>3. QED
    BY <2>1, <2>2
<1>5. QED
  BY <1>4 DEF IsLoop

(***************************************************************************)
(* The beginning of a list.                                                *)
(***************************************************************************)
LEMMA Beginning ==
    ASSUME NEW S, NEW list \in Seq(S), NEW m \in 0..Len(list)
    PROVE  /\ SubSeq(list, 1, m) \in Seq(S) /\ Len(SubSeq(list, 1, m)) = m
           /\ \A i \in 1..m : SubSeq(list, 1, m)[i] = list[i]
<1>1. SubSeq(list, 1, m) \in Seq(S)
  OBVIOUS
<1>2. Len(SubSeq(list, 1, m)) = m
  OBVIOUS
<1>3. \A i \in 1..m : SubSeq(list, 1, m)[i] = list[i]
  OBVIOUS
<1>4. QED
  BY <1>1, <1>2, <1>3

(***************************************************************************)
(* As many as have a property that the first ones have and no others.      *)
(***************************************************************************)
LEMMA CountPrefix ==
    ASSUME NEW n \in Nat, NEW T, T \subseteq 1..n,
           \A i \in T : \A j \in 1..i : j \in T
    PROVE  Cardinality(T) \in 0..n /\ T = 1..Cardinality(T)
<1>1. T \subseteq Nat /\ \A x \in T : x <= n
  OBVIOUS
<1>2. CASE T = {}
  <2>1. Cardinality(T) = 0 /\ 1..0 = {}
    BY <1>2, FS_EmptySet
  <2>2. QED
    BY <1>2, <2>1
<1>3. CASE T # {}
  <2>1. PICK m \in T : \A x \in T : x <= m
    BY <1>1, <1>3, GreatestElement
  <2>2. m \in 1..n /\ T \subseteq 1..m /\ 1..m \subseteq T
    BY <2>1
  <2>3. Cardinality(1..m) = m
    <3>1. m \in Int /\ 1 <= m
      BY <2>2
    <3>2. Cardinality(1..m) = IF 1 > m THEN 0 ELSE m - 1 + 1
      BY <3>1, FS_Interval
    <3>3. QED
      BY <3>1, <3>2
  <2>4. T = 1..m
    BY <2>2
  <2>5. QED
    BY <2>2, <2>3, <2>4
<1>4. QED
  BY <1>2, <1>3

(***************************************************************************)
(* The greatest and the least element that the library chooses.            *)
(***************************************************************************)
LEMMA ChosenGreatest ==
    ASSUME NEW S, S \subseteq Int, NEW m \in S, \A x \in S : x <= m
    PROVE  (CHOOSE x \in S : \A y \in S : x >= y) = m
<1> DEFINE g == CHOOSE x \in S : \A y \in S : x >= y
<1>1. g \in S /\ \A y \in S : g >= y
  <2>1. \A y \in S : m >= y
    OBVIOUS
  <2>2. QED
    BY <2>1
<1> HIDE DEF g
<1>2. g = m
  BY <1>1
<1>3. QED
  BY <1>2 DEF g

\* Likewise.
LEMMA ChosenLeast ==
    ASSUME NEW S, S \subseteq Int, NEW m \in S, \A x \in S : m <= x
    PROVE  (CHOOSE x \in S : \A y \in S : x =< y) = m
<1> DEFINE g == CHOOSE x \in S : \A y \in S : x =< y
<1>1. g \in S /\ \A y \in S : g =< y
  <2>1. \A y \in S : m =< y
    OBVIOUS
  <2>2. QED
    BY <2>1
<1> HIDE DEF g
<1>2. g = m
  BY <1>1
<1>3. QED
  BY <1>2 DEF g

(***************************************************************************)
(* The same induction from any integer on.                                 *)
(***************************************************************************)
LEMMA RangeInduction ==
    ASSUME NEW a \in Int, NEW b \in Int, a - 1 <= b, NEW T, a - 1 \in T,
           \A i \in a..b : i - 1 \in T => i \in T
    PROVE  (a - 1)..b \subseteq T
<1> DEFINE n == b - a + 1
           U == {k \in 0..n : a - 1 + k \in T}
<1>1. n \in Nat
  OBVIOUS
<1>2. 0 \in U
  BY <1>1
<1>3. ASSUME NEW k \in 1..n, k - 1 \in U PROVE k \in U
  <2>1. a - 1 + k \in a..b /\ (a - 1 + k) - 1 = a - 1 + (k - 1)
    BY <1>1
  <2>2. (a - 1 + k) - 1 \in T
    BY <1>3, <2>1
  <2>3. QED
    BY <2>1, <2>2
<1>4. 0..n \subseteq U
  <2> HIDE DEF U, n
  <2>1. QED
    BY <1>1, <1>2, <1>3, IntervalInduction
<1>5. ASSUME NEW i \in (a - 1)..b PROVE i \in T
  <2>1. i - (a - 1) \in 0..n /\ a - 1 + (i - (a - 1)) = i
    BY <1>1
  <2>2. i - (a - 1) \in U
    BY <1>4, <2>1
  <2>3. QED
    BY <2>1, <2>2
<1>6. QED
  BY <1>5

(***************************************************************************)
(* The sum of F[a], ..., F[b], added up from the left.                     *)
(***************************************************************************)
IsTally(g, F, a, b) ==
    /\ g \in [(a - 1)..b -> Int] /\ g[a - 1] = 0
    /\ \A i \in a..b : g[i] = g[i - 1] + F[i]

Tally(F, a, b) == (CHOOSE g : IsTally(g, F, a, b))[b]

(***************************************************************************)
(* Such a sum exists.                                                      *)
(***************************************************************************)
LEMMA TallyExists ==
    ASSUME NEW a \in Int, NEW b \in Int, a - 1 <= b, NEW F, \A i \in a..b : F[i] \in Int
    PROVE  \E g : IsTally(g, F, a, b)
<1> DEFINE n == b - a + 1
           each == [k \in 1..n |-> [x \in Int |-> x + F[a - 1 + k]]]
<1>1. n \in Nat
  OBVIOUS
<1>2. each \in [1..n -> [Int -> Int]]
  <2>1. ASSUME NEW k \in 1..n, NEW x \in Int PROVE x + F[a - 1 + k] \in Int
    <3>1. a - 1 + k \in a..b
      BY <1>1
    <3>2. QED
      BY <3>1
  <2>2. QED
    BY <2>1
<1>3. PICK l : IsLoop(l, Int, n, 0, each)
  <2> HIDE DEF each, n
  <2>1. 0 \in Int
    OBVIOUS
  <2>2. \E l : IsLoop(l, Int, n, 0, each)
    BY <1>1, <1>2, <2>1, LoopExists
  <2>3. QED
    BY <2>2
<1> DEFINE g == [i \in (a - 1)..b |-> l[i - (a - 1)]]
<1>4. l \in [0..n -> Int] /\ l[0] = 0 /\ \A k \in 1..n : l[k] = each[k][l[k - 1]]
  BY <1>3 DEF IsLoop
<1>5. g \in [(a - 1)..b -> Int]
  <2>1. ASSUME NEW i \in (a - 1)..b PROVE l[i - (a - 1)] \in Int
    <3>1. i - (a - 1) \in 0..n
      BY <1>1
    <3>2. QED
      BY <1>4, <3>1
  <2>2. QED
    BY <2>1
<1>6. g[a - 1] = 0
  <2>1. a - 1 \in (a - 1)..b /\ (a - 1) - (a - 1) = 0
    OBVIOUS
  <2>2. g[a - 1] = l[(a - 1) - (a - 1)]
    BY <2>1
  <2>3. QED
    BY <1>4, <2>1, <2>2
<1>7. ASSUME NEW i \in a..b PROVE g[i] = g[i - 1] + F[i]
  <2> DEFINE k == i - (a - 1)
  <2>1. /\ k \in 1..n /\ k - 1 \in 0..n /\ a - 1 + k = i
        /\ i \in (a - 1)..b /\ i - 1 \in (a - 1)..b /\ (i - 1) - (a - 1) = k - 1
    BY <1>1
  <2>2. g[i] = l[k] /\ g[i - 1] = l[k - 1]
    BY <2>1
  <2> HIDE DEF k, n
  <2>3. l[k - 1] \in Int
    BY <1>4, <2>1
  <2>4. each[k][l[k - 1]] = l[k - 1] + F[a - 1 + k]
    BY <2>1, <2>3
  <2> HIDE DEF each, g
  <2>5. QED
    BY <1>4, <2>1, <2>2, <2>4
<1> HIDE DEF g
<1>8. QED
  BY <1>5, <1>6, <1>7 DEF IsTally

(***************************************************************************)
(* Two sums from the same place agree as far as both go.                   *)
(***************************************************************************)
LEMMA TallyUnique ==
    ASSUME NEW a \in Int, NEW b \in Int, NEW c \in Int, a - 1 <= b, b <= c, NEW F, NEW g, NEW h,
           IsTally(g, F, a, b), IsTally(h, F, a, c)
    PROVE  g[b] = h[b]
<1> DEFINE T == {i \in (a - 1)..b : g[i] = h[i]}
<1>1. a - 1 \in T
  BY DEF IsTally
<1>2. ASSUME NEW i \in a..b, i - 1 \in T PROVE i \in T
  <2>1. i \in a..c /\ i \in (a - 1)..b
    OBVIOUS
  <2>2. g[i] = g[i - 1] + F[i] /\ h[i] = h[i - 1] + F[i]
    BY <2>1 DEF IsTally
  <2>3. QED
    BY <1>2, <2>1, <2>2
<1>3. (a - 1)..b \subseteq T
  <2> HIDE DEF T
  <2>1. QED
    BY <1>1, <1>2, RangeInduction
<1>4. b \in (a - 1)..b
  OBVIOUS
<1>5. QED
  BY <1>3, <1>4

(***************************************************************************)
(* How a sum grows with its range.                                         *)
(***************************************************************************)
LEMMA TallyFacts ==
    ASSUME NEW a \in Int, NEW b \in Int, a - 1 <= b, NEW F, \A i \in a..b : F[i] \in Int
    PROVE  /\ Tally(F, a, a - 1) = 0
           /\ \A i \in (a - 1)..b : Tally(F, a, i) \in Int
           /\ \A i \in a..b : Tally(F, a, i) = Tally(F, a, i - 1) + F[i]
<1>1. PICK g : IsTally(g, F, a, b)
  BY TallyExists
<1>2. ASSUME NEW i \in (a - 1)..b PROVE Tally(F, a, i) = g[i]
  <2>1. i \in Int /\ a - 1 <= i /\ i <= b /\ \A j \in a..i : F[j] \in Int
    OBVIOUS
  <2>2. \E h : IsTally(h, F, a, i)
    BY <2>1, TallyExists
  <2> DEFINE h == CHOOSE f : IsTally(f, F, a, i)
  <2>3. IsTally(h, F, a, i)
    BY <2>2
  <2>4. Tally(F, a, i) = h[i]
    BY DEF Tally
  <2> HIDE DEF h
  <2>5. QED
    BY <1>1, <2>1, <2>3, <2>4, TallyUnique
<1>3. /\ g \in [(a - 1)..b -> Int] /\ g[a - 1] = 0
      /\ \A i \in a..b : g[i] = g[i - 1] + F[i]
  BY <1>1 DEF IsTally
<1>4. a - 1 \in (a - 1)..b /\ \A i \in a..b : i \in (a - 1)..b /\ i - 1 \in (a - 1)..b
  OBVIOUS
<1>5. QED
  BY <1>2, <1>3, <1>4

(***************************************************************************)
(* Two sums whose terms differ in one place.                               *)
(***************************************************************************)
DifferAt(x, F, F2, a, b) ==
    \A i \in a..b : F[i] \in Int /\ F2[i] \in Int /\ (i # x => F2[i] = F[i])

(***************************************************************************)
(* They differ by what the terms of that place differ.                     *)
(***************************************************************************)
LEMMA TallyPoint ==
    ASSUME NEW a \in Int, NEW b \in Int, a - 1 <= b, NEW F, NEW F2, NEW x \in a..b,
           DifferAt(x, F, F2, a, b)
    PROVE  Tally(F2, a, b) = Tally(F, a, b) + F2[x] - F[x]
<1> DEFINE G(i) == Tally(F, a, i)
           G2(i) == Tally(F2, a, i)
           T == {i \in (a - 1)..b : G2(i) = G(i) + (IF i < x THEN 0 ELSE F2[x] - F[x])}
<1> \A i \in a..b : F[i] \in Int
  BY DEF DifferAt
<1> \A i \in a..b : F2[i] \in Int
  BY DEF DifferAt
<1> \A i \in a..b : i # x => F2[i] = F[i]
  BY DEF DifferAt
<1>1. /\ G(a - 1) = 0
      /\ \A i \in (a - 1)..b : G(i) \in Int
      /\ \A i \in a..b : G(i) = G(i - 1) + F[i]
  BY TallyFacts
<1>2. /\ G2(a - 1) = 0
      /\ \A i \in (a - 1)..b : G2(i) \in Int
      /\ \A i \in a..b : G2(i) = G2(i - 1) + F2[i]
  BY TallyFacts
<1> HIDE DEF G, G2
<1>3. a - 1 \in T
  BY <1>1, <1>2
<1>4. ASSUME NEW i \in a..b, i - 1 \in T PROVE i \in T
  <2>1. i \in (a - 1)..b /\ i - 1 \in (a - 1)..b /\ x \in Int /\ i \in Int
    OBVIOUS
  <2>2. G2(i - 1) = G(i - 1) + (IF i - 1 < x THEN 0 ELSE F2[x] - F[x])
    BY <1>4
  <2>3. /\ G(i) = G(i - 1) + F[i] /\ G2(i) = G2(i - 1) + F2[i]
        /\ G(i - 1) \in Int /\ G2(i - 1) \in Int
        /\ F[i] \in Int /\ F2[i] \in Int /\ F[x] \in Int /\ F2[x] \in Int
        /\ i # x => F2[i] = F[i]
    BY <1>1, <1>2, <2>1
  <2>4. G2(i) = G(i) + (IF i < x THEN 0 ELSE F2[x] - F[x])
    <3>1. CASE i < x
      BY <2>1, <2>2, <2>3, <3>1
    <3>2. CASE i = x
      BY <2>1, <2>2, <2>3, <3>2
    <3>3. CASE x < i
      BY <2>1, <2>2, <2>3, <3>3
    <3>4. QED
      BY <2>1, <3>1, <3>2, <3>3
  <2>5. QED
    BY <2>1, <2>4
<1>5. (a - 1)..b \subseteq T
  <2> HIDE DEF T
  <2>1. QED
    BY <1>3, <1>4, RangeInduction
<1>6. b \in (a - 1)..b /\ ~ (b < x)
  OBVIOUS
<1>7. G2(b) = G(b) + (F2[x] - F[x])
  BY <1>5, <1>6
<1>8. G(b) \in Int /\ F[x] \in Int /\ F2[x] \in Int
  BY <1>1, <1>6
<1>9. G2(b) = G(b) + F2[x] - F[x]
  BY <1>7, <1>8
<1>10. QED
  BY <1>9 DEF G, G2

(***************************************************************************)
(* The library adds up F over a set, taking one index after the other in   *)
(* no particular order; over a range that computes the sum.                *)
(***************************************************************************)
AnyOf(s) == CHOOSE x \in s : TRUE

IsFold(f, F, S) ==
    f = [s \in SUBSET S |-> IF s = {} THEN 0 ELSE F[AnyOf(s)] + f[s \ {AnyOf(s)}]]

(***************************************************************************)
(* A fold of the library over a range exists, and is the sum.              *)
(***************************************************************************)
LEMMA FoldExists ==
    ASSUME NEW a \in Int, NEW b \in Int, a - 1 <= b, NEW F, \A i \in a..b : F[i] \in Int
    PROVE  \E f : IsFold(f, F, a..b) /\ f[a..b] = Tally(F, a, b)
                  /\ \A s \in SUBSET (a..b) : f[s] \in Int
<1> DEFINE Only(s) == [i \in a..b |-> IF i \in s THEN F[i] ELSE 0]
           f == [s \in SUBSET (a..b) |-> Tally(Only(s), a, b)]
<1>1. ASSUME NEW s \in SUBSET (a..b) PROVE f[s] = Tally(Only(s), a, b) /\ f[s] \in Int
  <2>1. \A i \in a..b : Only(s)[i] \in Int
    OBVIOUS
  <2>2. b \in (a - 1)..b
    OBVIOUS
  <2> HIDE DEF Only
  <2>3. Tally(Only(s), a, b) \in Int
    BY <2>1, <2>2, TallyFacts
  <2>4. QED
    BY <2>3
<1>2. f[{}] = 0
  <2> DEFINE none == Only({})
             T == {i \in (a - 1)..b : Tally(none, a, i) = 0}
  <2>1. \A i \in a..b : none[i] = 0 /\ none[i] \in Int
    OBVIOUS
  <2> HIDE DEF none
  <2>2. /\ Tally(none, a, a - 1) = 0
        /\ \A i \in a..b : Tally(none, a, i) = Tally(none, a, i - 1) + none[i]
    BY <2>1, TallyFacts
  <2>3. a - 1 \in T /\ \A i \in a..b : i - 1 \in T => i \in T
    BY <2>1, <2>2
  <2>4. (a - 1)..b \subseteq T
    <3> HIDE DEF T
    <3>1. QED
      BY <2>3, RangeInduction
  <2>5. b \in (a - 1)..b
    OBVIOUS
  <2>6. Tally(none, a, b) = 0
    BY <2>4, <2>5
  <2>7. {} \in SUBSET (a..b)
    OBVIOUS
  <2>8. f[{}] = Tally(Only({}), a, b)
    BY <1>1, <2>7
  <2>9. QED
    BY <2>6, <2>8 DEF none
<1>3. ASSUME NEW s \in SUBSET (a..b), s # {}
      PROVE  f[s] = F[AnyOf(s)] + f[s \ {AnyOf(s)}]
  <2> DEFINE x == AnyOf(s)
             r == s \ {x}
             G == Only(r)
             G2 == Only(s)
  <2>1. x \in s /\ x \in a..b /\ r \in SUBSET (a..b)
    BY <1>3 DEF AnyOf
  <2> HIDE DEF x
  <2>2. /\ \A i \in a..b : G[i] \in Int /\ G2[i] \in Int
        /\ \A i \in a..b : i # x => G2[i] = G[i]
        /\ G2[x] = F[x] /\ G[x] = 0 /\ F[x] \in Int
    BY <2>1
  <2> HIDE DEF G, G2
  <2>3. Tally(G2, a, b) = Tally(G, a, b) + G2[x] - G[x]
    <3> HIDE DEF Only, f, r
    <3>1. x \in a..b
      BY <2>1
    <3>2. DifferAt(x, G, G2, a, b)
      BY <2>2 DEF DifferAt
    <3>3. QED
      BY <3>1, <3>2, TallyPoint
  <2>4. /\ f[s] = Tally(Only(s), a, b)
        /\ f[r] = Tally(Only(r), a, b) /\ f[r] \in Int
    BY <1>1, <2>1
  <2>5. f[s] = Tally(G2, a, b) /\ f[r] = Tally(G, a, b) /\ f[r] \in Int
    BY <2>4 DEF G, G2
  <2> HIDE DEF f, r
  <2>6. f[s] = F[x] + f[r]
    BY <2>2, <2>3, <2>5
  <2>7. QED
    BY <2>6 DEF x, r
<1>4. f[a..b] = Tally(F, a, b)
  <2> DEFINE G == Only(a..b)
  <2>1. a..b \in SUBSET (a..b)
    OBVIOUS
  <2>2. f[a..b] = Tally(G, a, b)
    BY <1>1, <2>1
  <2>3. \A i \in a..b : G[i] = F[i] /\ G[i] \in Int
    OBVIOUS
  <2> HIDE DEF G
  <2>4. \E g : IsTally(g, G, a, b)
    BY <2>3, TallyExists
  <2>5. \E g : IsTally(g, F, a, b)
    BY TallyExists
  <2> DEFINE g == CHOOSE h : IsTally(h, G, a, b)
             g2 == CHOOSE h : IsTally(h, F, a, b)
  <2>6. IsTally(g, G, a, b) /\ IsTally(g2, F, a, b)
    BY <2>4, <2>5
  <2>7. Tally(G, a, b) = g[b] /\ Tally(F, a, b) = g2[b]
    BY DEF Tally
  <2> HIDE DEF g, g2
  <2>8. IsTally(g, F, a, b)
    BY <2>3, <2>6 DEF IsTally
  <2>9. g[b] = g2[b]
    BY <2>6, <2>8, TallyUnique
  <2>10. QED
    BY <2>2, <2>7, <2>9
<1>5. f = [s \in SUBSET (a..b) |-> IF s = {} THEN 0 ELSE F[AnyOf(s)] + f[s \ {AnyOf(s)}]]
  <2> DEFINE h == [s \in SUBSET (a..b) |-> IF s = {} THEN 0 ELSE F[AnyOf(s)] + f[s \ {AnyOf(s)}]]
  <2>1. \A s \in SUBSET (a..b) : f[s] = h[s]
    <3> HIDE DEF f
    <3>1. QED
      BY <1>2, <1>3
  <2>2. f = [s \in SUBSET (a..b) |-> f[s]] /\ h = [s \in SUBSET (a..b) |-> h[s]]
    OBVIOUS
  <2> HIDE DEF f, h
  <2>3. f = h
    BY <2>1, <2>2
  <2>4. QED
    BY <2>3 DEF h
<1> HIDE DEF f
<1>6. QED
  BY <1>1, <1>4, <1>5 DEF IsFold

(***************************************************************************)
(* There is one fold: one that differs first on a least set cannot.        *)
(***************************************************************************)
LEMMA FoldUnique ==
    ASSUME NEW a \in Int, NEW b \in Int, a - 1 <= b, NEW F,
           NEW f, NEW g, IsFold(f, F, a..b), IsFold(g, F, a..b)
    PROVE  f = g
<1> DEFINE S == SUBSET (a..b)
           bad == {s \in S : f[s] # g[s]}
           sizes == {Cardinality(s) : s \in bad}
<1>1. IsFiniteSet(a..b)
  BY FS_Interval
<1>2. \A s \in S : IsFiniteSet(s) /\ Cardinality(s) \in Nat
  BY <1>1, FS_Subset, FS_CardinalityType
<1>3. \A s \in S : f[s] = IF s = {} THEN 0 ELSE F[AnyOf(s)] + f[s \ {AnyOf(s)}]
  BY DEF IsFold
<1>4. \A s \in S : g[s] = IF s = {} THEN 0 ELSE F[AnyOf(s)] + g[s \ {AnyOf(s)}]
  BY DEF IsFold
<1>5. SUFFICES ASSUME bad # {} PROVE FALSE
  <2>1. bad = {} => \A s \in S : f[s] = g[s]
    OBVIOUS
  <2>2. f = [s \in S |-> f[s]] /\ g = [s \in S |-> g[s]]
    BY DEF IsFold
  <2>3. bad = {} => f = g
    BY <2>1, <2>2
  <2>4. QED
    BY <2>3
<1>6. sizes \subseteq Nat /\ sizes # {}
  BY <1>2, <1>5
<1>7. PICK n \in sizes : \A m \in sizes : n <= m
  <2> HIDE DEF sizes
  <2>1. QED
    BY <1>6, LeastElement
<1>8. PICK s \in bad : n = Cardinality(s)
  BY <1>7
<1>9. s # {}
  BY <1>3, <1>4, <1>8
<1> DEFINE r == s \ {AnyOf(s)}
<1>10. AnyOf(s) \in s /\ r \in S
  BY <1>8, <1>9 DEF AnyOf
<1>11. Cardinality(r) = Cardinality(s) - 1
  BY <1>2, <1>8, <1>10, FS_RemoveElement
<1>12. r \notin bad
  <2>1. r \in bad => n <= Cardinality(r)
    BY <1>7
  <2>2. n \in Nat
    BY <1>2, <1>8
  <2>3. QED
    BY <1>8, <1>11, <2>1, <2>2
<1>13. f[r] = g[r]
  BY <1>10, <1>12
<1>14. f[s] = F[AnyOf(s)] + f[r] /\ g[s] = F[AnyOf(s)] + g[r]
  BY <1>3, <1>4, <1>8, <1>9
<1>15. QED
  BY <1>8, <1>13, <1>14

(***************************************************************************)
(* The fold that the library chooses is the sum.                           *)
(***************************************************************************)
LEMMA FoldIsTally ==
    ASSUME NEW a \in Int, NEW b \in Int, a - 1 <= b, NEW F, \A i \in a..b : F[i] \in Int
    PROVE  (CHOOSE f : IsFold(f, F, a..b))[a..b] = Tally(F, a, b)
<1>1. PICK f : IsFold(f, F, a..b) /\ f[a..b] = Tally(F, a, b)
  BY FoldExists
<1> DEFINE g == CHOOSE h : IsFold(h, F, a..b)
<1>2. IsFold(g, F, a..b)
  BY <1>1
<1> HIDE DEF g
<1>3. g = f
  BY <1>1, <1>2, FoldUnique
<1>4. QED
  BY <1>1, <1>3 DEF g

(***************************************************************************)
(* What is summed is small, so is how much the sum changes when the terms  *)
(* are those of D earlier: what moves is counted D times at most.          *)
(***************************************************************************)
Rising(V, a, b) ==
    /\ \A t \in a..b : V[t] \in Nat
    /\ \A t \in a..b : \A u \in a..t : V[u] <= V[t]

(***************************************************************************)
(* The differences over D places add up to at most D times the last.       *)
(***************************************************************************)
LEMMA SlidingSum ==
    ASSUME NEW a \in Int, NEW b \in Int, a <= b, NEW D \in Nat, NEW V, Rising(V, a - D, b),
           NEW E, \A t \in a..b : E[t] = V[t] - V[t - D]
    PROVE  Tally(E, a, b) \in Int /\ Tally(E, a, b) <= D * V[b]
<1> DEFINE P(t) == Tally(V, a - D, t)
           W(t) == Tally(E, a, t)
<1>1. a - D \in Int /\ (a - D) - 1 <= b /\ a - 1 <= b
  OBVIOUS
<1>2. \A t \in (a - D)..b : V[t] \in Nat /\ V[t] \in Int
  BY DEF Rising
<1>3. /\ P((a - D) - 1) = 0
      /\ \A t \in ((a - D) - 1)..b : P(t) \in Int
      /\ \A t \in (a - D)..b : P(t) = P(t - 1) + V[t]
  <2>1. \A t \in (a - D)..b : V[t] \in Int
    BY <1>2
  <2>2. QED
    BY <1>1, <2>1, TallyFacts
<1>4. \A t \in a..b : E[t] \in Int
  <2>1. ASSUME NEW t \in a..b PROVE E[t] \in Int
    <3>1. t \in (a - D)..b /\ t - D \in (a - D)..b
      OBVIOUS
    <3>2. QED
      BY <1>2, <3>1
  <2>2. QED
    BY <2>1
<1>5. /\ W(a - 1) = 0
      /\ \A t \in (a - 1)..b : W(t) \in Int
      /\ \A t \in a..b : W(t) = W(t - 1) + E[t]
  BY <1>1, <1>4, TallyFacts
<1> HIDE DEF P, W
<1>6. \A t \in ((a - D) - 1)..b : 0 <= P(t)
  <2> DEFINE T == {t \in ((a - D) - 1)..b : 0 <= P(t)}
  <2>1. (a - D) - 1 \in T
    BY <1>1, <1>3
  <2>2. ASSUME NEW t \in (a - D)..b, t - 1 \in T PROVE t \in T
    <3>1. t - 1 \in ((a - D) - 1)..b /\ t \in ((a - D) - 1)..b
      BY <1>1
    <3>2. QED
      BY <1>2, <1>3, <2>2, <3>1
  <2>3. ((a - D) - 1)..b \subseteq T
    <3> HIDE DEF T
    <3>1. QED
      BY <1>1, <2>1, <2>2, RangeInduction
  <2>4. QED
    BY <2>3
<1>7. \A t \in (a - 1)..b : W(t) = (P(t) - P(t - D)) - (P(a - 1) - P((a - 1) - D))
  <2> DEFINE T == {t \in (a - 1)..b :
                      W(t) = (P(t) - P(t - D)) - (P(a - 1) - P((a - 1) - D))}
  <2>1. P(a - 1) \in Int /\ P((a - 1) - D) \in Int
    <3>1. a - 1 \in ((a - D) - 1)..b /\ (a - 1) - D \in ((a - D) - 1)..b
      OBVIOUS
    <3>2. QED
      BY <1>3, <3>1
  <2>2. a - 1 \in T
    BY <1>1, <1>5, <2>1
  <2>3. ASSUME NEW t \in a..b, t - 1 \in T PROVE t \in T
    <3>1. /\ t - 1 \in ((a - D) - 1)..b /\ (t - 1) - D \in ((a - D) - 1)..b
          /\ t \in (a - D)..b /\ t - D \in (a - D)..b /\ (t - 1) - D = (t - D) - 1
          /\ t - 1 \in (a - 1)..b /\ t \in (a - 1)..b
      OBVIOUS
    <3>2. P(t) = P(t - 1) + V[t] /\ P(t - D) = P((t - D) - 1) + V[t - D]
      BY <1>3, <3>1
    <3>3. /\ P(t - 1) \in Int /\ P((t - D) - 1) \in Int /\ V[t] \in Int /\ V[t - D] \in Int
          /\ W(t - 1) \in Int
      BY <1>2, <1>3, <1>5, <3>1
    <3>4. W(t) = W(t - 1) + (V[t] - V[t - D])
      BY <1>5
    <3>5. W(t - 1) = (P(t - 1) - P((t - D) - 1)) - (P(a - 1) - P((a - 1) - D))
      BY <2>3, <3>1
    <3>6. W(t) = (P(t) - P(t - D)) - (P(a - 1) - P((a - 1) - D))
      BY <2>1, <3>2, <3>3, <3>4, <3>5
    <3>7. QED
      BY <3>1, <3>6
  <2>4. (a - 1)..b \subseteq T
    <3> HIDE DEF T
    <3>1. QED
      BY <1>1, <2>2, <2>3, RangeInduction
  <2>5. QED
    BY <2>4
<1>8. \A k \in 0..D : P(b) - P(b - k) <= k * V[b]
  <2> DEFINE T == {k \in 0..D : P(b) - P(b - k) <= k * V[b]}
  <2>1. P(b) \in Int /\ V[b] \in Nat
    <3>1. b \in ((a - D) - 1)..b /\ b \in (a - D)..b
      OBVIOUS
    <3>2. QED
      BY <1>2, <1>3, <3>1
  <2>2. 0 \in T
    BY <2>1
  <2>3. ASSUME NEW k \in 1..D, k - 1 \in T PROVE k \in T
    <3> DEFINE t == b - (k - 1)
    <3>1. t \in (a - D)..b /\ t - 1 = b - k /\ t - 1 \in ((a - D) - 1)..b /\ t \in ((a - D) - 1)..b
          /\ b \in (a - D)..b /\ k \in Int
      OBVIOUS
    <3>2. P(b) - P(t) <= (k - 1) * V[b]
      BY <2>3
    <3> HIDE DEF t
    <3>3. P(t) = P(t - 1) + V[t] /\ P(t - 1) \in Int /\ V[t] \in Int
      BY <1>2, <1>3, <3>1
    <3>4. V[t] <= V[b]
      BY <3>1 DEF Rising
    <3>5. (k - 1) * V[b] + V[b] = k * V[b] /\ (k - 1) * V[b] \in Int
      BY <2>1, <3>1
    <3>6. P(b) - P(t - 1) <= k * V[b]
      BY <2>1, <3>2, <3>3, <3>4, <3>5
    <3>7. QED
      BY <3>1, <3>6
  <2>4. 0..D \subseteq T
    <3> HIDE DEF T
    <3>1. QED
      BY <2>2, <2>3, IntervalInduction
  <2>5. QED
    BY <2>4
<1>9. /\ W(b) = (P(b) - P(b - D)) - (P(a - 1) - P((a - 1) - D)) /\ W(b) \in Int
      /\ P(b) - P(b - D) <= D * V[b]
  <2>1. b \in (a - 1)..b /\ D \in 0..D
    OBVIOUS
  <2>2. QED
    BY <1>5, <1>7, <1>8, <2>1
<1>10. /\ P((a - 1) - D) = 0 /\ 0 <= P(a - 1) /\ P(a - 1) \in Int
       /\ P(b) \in Int /\ P(b - D) \in Int /\ D * V[b] \in Int
  <2>1. /\ (a - 1) - D = (a - D) - 1 /\ a - 1 \in ((a - D) - 1)..b
        /\ b \in ((a - D) - 1)..b /\ b - D \in ((a - D) - 1)..b /\ b \in (a - D)..b
    OBVIOUS
  <2>2. V[b] \in Nat
    BY <1>2, <2>1
  <2>3. QED
    BY <1>3, <1>6, <2>1, <2>2
<1>11. W(b) \in Int /\ W(b) <= D * V[b]
  BY <1>9, <1>10
<1>12. QED
  BY <1>11 DEF W

(***************************************************************************)
(* A level that is held for a while is off by no more than each unit is.   *)
(***************************************************************************)
Off(x, r, e, c, d) ==
    \A t \in c..(d - 1) : -e[t] <= x - r[t] /\ x - r[t] <= e[t]

Summable(r, a, d) == \A t \in a..(d - 1) : r[t] \in Int

(***************************************************************************)
(* If the sums agree up to the errors where the level begins, they do      *)
(* where it ends.                                                          *)
(***************************************************************************)
LEMMA LevelIntegral ==
    ASSUME NEW a \in Int, NEW c \in Int, NEW d \in Int, a <= c, c <= d, NEW x \in Int,
           NEW r, NEW e, Summable(r, a, d), Summable(e, a, d), Off(x, r, e, c, d),
           NEW A \in Int,
           -Tally(e, a, c - 1) <= A - Tally(r, a, c - 1),
           A - Tally(r, a, c - 1) <= Tally(e, a, c - 1),
           NEW B, B = A + x * (d - c)
    PROVE  /\ -Tally(e, a, d - 1) <= B - Tally(r, a, d - 1)
           /\ B - Tally(r, a, d - 1) <= Tally(e, a, d - 1)
<1> DEFINE R(t) == Tally(r, a, t - 1)
           E(t) == Tally(e, a, t - 1)
           Good(t) == /\ -E(t) <= (A + x * (t - c)) - R(t)
                      /\ (A + x * (t - c)) - R(t) <= E(t)
           T == {k \in 0..(d - c) : Good(c + k)}
<1>1. /\ \A t \in a..d : R(t) \in Int /\ E(t) \in Int
      /\ \A t \in a..(d - 1) : R(t + 1) = R(t) + r[t] /\ E(t + 1) = E(t) + e[t]
  <2>1. a - 1 <= d - 1 /\ d - 1 \in Int
    OBVIOUS
  <2>2. \A t \in a..(d - 1) : r[t] \in Int
    BY DEF Summable
  <2>3. /\ \A t \in (a - 1)..(d - 1) : Tally(r, a, t) \in Int
        /\ \A t \in a..(d - 1) : Tally(r, a, t) = Tally(r, a, t - 1) + r[t]
    BY <2>1, <2>2, TallyFacts
  <2>4. \A t \in a..(d - 1) : e[t] \in Int
    BY DEF Summable
  <2>5. /\ \A t \in (a - 1)..(d - 1) : Tally(e, a, t) \in Int
        /\ \A t \in a..(d - 1) : Tally(e, a, t) = Tally(e, a, t - 1) + e[t]
    BY <2>1, <2>4, TallyFacts
  <2>6. \A t \in a..d : t - 1 \in (a - 1)..(d - 1)
    OBVIOUS
  <2>7. \A t \in a..(d - 1) : (t + 1) - 1 = t
    OBVIOUS
  <2>8. \A t \in a..(d - 1) : R(t + 1) = Tally(r, a, t) /\ E(t + 1) = Tally(e, a, t)
    BY <2>7
  <2>9. \A t \in a..d : R(t) \in Int /\ E(t) \in Int
    BY <2>3, <2>5, <2>6
  <2>10. QED
    BY <2>3, <2>5, <2>8, <2>9
<1>2. -E(c) <= A - R(c) /\ A - R(c) <= E(c)
  OBVIOUS
<1> HIDE DEF R, E
<1>3. 0 \in T
  <2>1. c \in a..d /\ c + 0 = c /\ x * (c - c) = 0 /\ 0 \in 0..(d - c)
    OBVIOUS
  <2>2. Good(c)
    BY <1>1, <1>2, <2>1
  <2>3. QED
    BY <2>1, <2>2
<1>4. ASSUME NEW k \in 1..(d - c), k - 1 \in T PROVE k \in T
  <2> DEFINE t == c + (k - 1)
  <2>1. /\ t \in c..(d - 1) /\ t \in a..(d - 1) /\ t \in a..d /\ t + 1 \in a..d /\ t + 1 = c + k
        /\ t \in Int /\ k \in 0..(d - c)
    OBVIOUS
  <2>2. Good(t)
    BY <1>4
  <2> HIDE DEF t
  <2>3. x * ((t + 1) - c) = x * (t - c) + x /\ x * (t - c) \in Int
    BY <2>1
  <2>4. -e[t] <= x - r[t] /\ x - r[t] <= e[t]
    BY <2>1 DEF Off
  <2>5. /\ R(t + 1) = R(t) + r[t] /\ E(t + 1) = E(t) + e[t] /\ R(t) \in Int /\ E(t) \in Int
        /\ r[t] \in Int /\ e[t] \in Int
    BY <1>1, <2>1 DEF Summable
  <2>6. Good(t + 1)
    BY <2>2, <2>3, <2>4, <2>5
  <2>7. QED
    BY <2>1, <2>6
<1>5. 0..(d - c) \subseteq T
  <2>1. d - c \in Nat
    OBVIOUS
  <2> HIDE DEF T
  <2>2. QED
    BY <1>3, <1>4, <2>1, IntervalInduction
<1>6. Good(d)
  <2>1. d - c \in 0..(d - c) /\ c + (d - c) = d
    OBVIOUS
  <2>2. d - c \in T
    BY <1>5, <2>1
  <2>3. QED
    BY <2>1, <2>2
<1>7. -E(d) <= B - R(d) /\ B - R(d) <= E(d)
  BY <1>6
<1>8. QED
  BY <1>7 DEF R, E

(***************************************************************************)
(* The integral of a step function, with levels v between the places c,    *)
(* is off by no more than the function is.                                 *)
(***************************************************************************)
Places(c, n) == c \in [0..n -> Int] /\ \A k \in 1..n : c[k - 1] <= c[k]

\* They lie between the first and the last.
LEMMA PlacesInside ==
    ASSUME NEW n \in Nat, NEW c, Places(c, n)
    PROVE  \A k \in 0..n : c[0] <= c[k] /\ c[k] <= c[n]
<1> DEFINE U == {j \in 0..n : c[0] <= c[j]}
           W == {j \in 0..n : c[n - j] <= c[n]}
<1>1. \A j \in 1..n : j \in 0..n /\ j - 1 \in 0..n /\ c[j - 1] <= c[j]
  BY DEF Places
<1>2. \A j \in 0..n : c[j] \in Int
  BY DEF Places
<1>3. 0 \in U /\ 0 \in W
  BY <1>2
<1>4. ASSUME NEW j \in 1..n, j - 1 \in U PROVE j \in U
  <2>1. c[0] <= c[j - 1] /\ c[j - 1] <= c[j] /\ j \in 0..n
    BY <1>1, <1>4
  <2>2. c[0] \in Int /\ c[j - 1] \in Int /\ c[j] \in Int
    BY <1>1, <1>2
  <2>3. c[0] <= c[j]
    BY <2>1, <2>2
  <2>4. QED
    BY <2>1, <2>3
<1>5. ASSUME NEW j \in 1..n, j - 1 \in W PROVE j \in W
  <2>1. /\ n - (j - 1) \in 1..n /\ (n - (j - 1)) - 1 = n - j /\ n - j \in 0..n
        /\ n - (j - 1) \in 0..n /\ n \in 0..n /\ j \in 0..n
    OBVIOUS
  <2>2. c[n - j] <= c[n - (j - 1)]
    BY <1>1, <2>1
  <2>3. c[n - (j - 1)] <= c[n]
    BY <1>5
  <2>4. c[n - j] \in Int /\ c[n - (j - 1)] \in Int /\ c[n] \in Int
    BY <1>2, <2>1
  <2>5. c[n - j] <= c[n]
    BY <2>2, <2>3, <2>4
  <2>6. QED
    BY <2>1, <2>5
<1>6. 0..n \subseteq U
  <2> HIDE DEF U
  <2>1. QED
    BY <1>3, <1>4, IntervalInduction
<1>7. 0..n \subseteq W
  <2> HIDE DEF W
  <2>1. QED
    BY <1>3, <1>5, IntervalInduction
<1>8. ASSUME NEW k \in 0..n PROVE c[0] <= c[k] /\ c[k] <= c[n]
  <2>1. n - k \in 0..n /\ n - (n - k) = k
    OBVIOUS
  <2>2. n - k \in W
    BY <1>7, <2>1
  <2>3. QED
    BY <1>6, <2>1, <2>2
<1>9. QED
  BY <1>8

Tracks(v, r, e, c, n) == \A k \in 1..n : v[k] \in Int /\ Off(v[k], r, e, c[k - 1], c[k])

(***************************************************************************)
(* The sum over the levels differs from the sum of the function by at most *)
(* that of the errors.                                                     *)
(***************************************************************************)
LEMMA StepIntegral ==
    ASSUME NEW n \in Nat, NEW c, Places(c, n), NEW v, NEW r, NEW e,
           Summable(r, c[0], c[n]), Summable(e, c[0], c[n]), Tracks(v, r, e, c, n),
           NEW S, \A k \in 1..n : S[k] = v[k] * (c[k] - c[k - 1])
    PROVE  /\ Tally(S, 1, n) \in Int
           /\ -Tally(e, c[0], c[n] - 1) <= Tally(S, 1, n) - Tally(r, c[0], c[n] - 1)
           /\ Tally(S, 1, n) - Tally(r, c[0], c[n] - 1) <= Tally(e, c[0], c[n] - 1)
<1> DEFINE A(k) == Tally(S, 1, k)
           R(t) == Tally(r, c[0], t)
           E(t) == Tally(e, c[0], t)
           Good(k) == /\ c[0] <= c[k]
                      /\ -E(c[k] - 1) <= A(k) - R(c[k] - 1)
                      /\ A(k) - R(c[k] - 1) <= E(c[k] - 1)
           T == {k \in 0..n : Good(k)}
<1>1. /\ \A k \in 0..n : c[k] \in Int
      /\ \A k \in 1..n : c[k - 1] <= c[k] /\ k \in 0..n /\ k - 1 \in 0..n
  BY DEF Places
<1>2. \A k \in 0..n : c[k] <= c[n]
  BY PlacesInside
<1>3. \A k \in 1..n : S[k] \in Int /\ v[k] \in Int
  <2>1. ASSUME NEW k \in 1..n PROVE S[k] \in Int /\ v[k] \in Int
    <3>1. v[k] \in Int /\ c[k] \in Int /\ c[k - 1] \in Int
      BY <1>1 DEF Tracks
    <3>2. QED
      BY <3>1
  <2>2. QED
    BY <2>1
<1>4. /\ A(0) = 0
      /\ \A k \in 0..n : A(k) \in Int
      /\ \A k \in 1..n : A(k) = A(k - 1) + S[k]
  <2>1. 1 - 1 <= n /\ 1 \in Int /\ n \in Int /\ 1 - 1 = 0 /\ \A k \in 1..n : S[k] \in Int
    BY <1>3
  <2>2. /\ A(1 - 1) = 0
        /\ \A k \in (1 - 1)..n : A(k) \in Int
        /\ \A k \in 1..n : A(k) = A(k - 1) + S[k]
    BY <2>1, TallyFacts
  <2>3. QED
    BY <2>1, <2>2
<1>5. ASSUME NEW k \in 0..n, c[0] <= c[k]
      PROVE Summable(r, c[0], c[k]) /\ Summable(e, c[0], c[k])
  <2>1. \A t \in c[0]..(c[k] - 1) : t \in c[0]..(c[n] - 1)
    <3>1. c[0] \in Int /\ c[k] \in Int /\ c[n] \in Int /\ c[k] <= c[n]
      BY <1>1, <1>2
    <3>2. QED
      BY <3>1
  <2>2. QED
    BY <2>1 DEF Summable
<1>6. 0 \in T
  <2>1. c[0] \in Int /\ 0 \in 0..n
    BY <1>1
  <2>2. R(c[0] - 1) = 0 /\ E(c[0] - 1) = 0
    <3>1. c[0] - 1 <= c[0] - 1 /\ c[0] - 1 \in Int /\ c[0]..(c[0] - 1) = {}
      BY <2>1
    <3>2. (\A i \in c[0]..(c[0] - 1) : r[i] \in Int) /\ (\A i \in c[0]..(c[0] - 1) : e[i] \in Int)
      BY <3>1
    <3>3. R(c[0] - 1) = 0
      BY <2>1, <3>1, <3>2, TallyFacts
    <3>4. E(c[0] - 1) = 0
      BY <2>1, <3>1, <3>2, TallyFacts
    <3>5. QED
      BY <3>3, <3>4
  <2>3. Good(0)
    <3> HIDE DEF A, R, E
    <3>1. QED
      BY <1>4, <2>1, <2>2
  <2>4. QED
    BY <2>1, <2>3
<1>7. ASSUME NEW k \in 1..n, k - 1 \in T PROVE k \in T
  <2>1. /\ c[0] \in Int /\ c[k] \in Int /\ c[k - 1] \in Int /\ c[k - 1] <= c[k]
        /\ k \in 0..n /\ k - 1 \in 0..n
    BY <1>1
  <2>2. Good(k - 1)
    BY <1>7
  <2>3. c[0] <= c[k - 1] /\ c[0] <= c[k]
    BY <2>1, <2>2
  <2>4. Summable(r, c[0], c[k]) /\ Summable(e, c[0], c[k])
    BY <1>5, <2>1, <2>3
  <2>5. Off(v[k], r, e, c[k - 1], c[k]) /\ v[k] \in Int /\ A(k - 1) \in Int
    BY <1>4, <2>1 DEF Tracks
  <2>6. /\ -Tally(e, c[0], c[k - 1] - 1) <= A(k - 1) - Tally(r, c[0], c[k - 1] - 1)
        /\ A(k - 1) - Tally(r, c[0], c[k - 1] - 1) <= Tally(e, c[0], c[k - 1] - 1)
    BY <2>2
  <2> HIDE DEF A
  <2>7. A(k) = A(k - 1) + v[k] * (c[k] - c[k - 1])
    BY <1>4
  <2>8. /\ -Tally(e, c[0], c[k] - 1) <= A(k) - Tally(r, c[0], c[k] - 1)
        /\ A(k) - Tally(r, c[0], c[k] - 1) <= Tally(e, c[0], c[k] - 1)
    BY <2>1, <2>3, <2>4, <2>5, <2>6, <2>7, LevelIntegral
  <2>9. Good(k)
    BY <2>3, <2>8
  <2> HIDE DEF Good
  <2>10. QED
    BY <2>1, <2>9
<1>8. 0..n \subseteq T
  <2> HIDE DEF T
  <2>1. QED
    BY <1>6, <1>7, IntervalInduction
<1>9. n \in 0..n
  OBVIOUS
<1>10. Good(n) /\ A(n) \in Int
  <2> HIDE DEF Good, A
  <2>1. QED
    BY <1>4, <1>8, <1>9
<1>11. QED
  BY <1>10

(***************************************************************************)
(* How far a count has moved, by moves M that bound each of its steps:     *)
(* two times differ by no more than it moved between them.                 *)
(***************************************************************************)
Shifts(M, A, b) ==
    /\ \A t \in 0..b : A[t] \in Int
    /\ \A t \in 1..b : M[t] \in Nat /\ -M[t] <= A[t - 1] - A[t] /\ A[t - 1] - A[t] <= M[t]

Path(M, t) == IF t < 1 THEN 0 ELSE Tally(M, 1, t)

\* A path never shortens, and bounds how far its ends are apart.
LEMMA PathBounds ==
    ASSUME NEW b \in Nat, NEW A, NEW M, Shifts(M, A, b)
    PROVE  /\ \A t \in Int : t <= b => Path(M, t) \in Nat
           /\ \A t, u \in Int : u <= t /\ t <= b => Path(M, u) <= Path(M, t)
           /\ \A u \in 0..b : \A t \in u..b :
                 /\ -(Path(M, t) - Path(M, u)) <= A[u] - A[t]
                 /\ A[u] - A[t] <= Path(M, t) - Path(M, u)
<1> DEFINE V(t) == Tally(M, 1, t)
<1>1. \A t \in 0..b : A[t] \in Int
  BY DEF Shifts
<1>2. \A t \in 1..b :
         M[t] \in Nat /\ M[t] \in Int /\ -M[t] <= A[t - 1] - A[t] /\ A[t - 1] - A[t] <= M[t]
  BY DEF Shifts
<1>3. /\ V(0) = 0 /\ \A t \in 0..b : V(t) \in Int
      /\ \A t \in 1..b : V(t) = V(t - 1) + M[t]
  <2>1. 1 - 1 <= b /\ 1 - 1 = 0 /\ 1 \in Int /\ b \in Int /\ \A t \in 1..b : M[t] \in Int
    BY <1>2
  <2>2. /\ Tally(M, 1, 1 - 1) = 0
        /\ \A t \in (1 - 1)..b : Tally(M, 1, t) \in Int
        /\ \A t \in 1..b : Tally(M, 1, t) = Tally(M, 1, t - 1) + M[t]
    BY <2>1, TallyFacts
  <2>3. QED
    BY <2>1, <2>2
<1> HIDE DEF V
<1>4. ASSUME NEW u \in 0..b, NEW t \in u..b
      PROVE  /\ -(V(t) - V(u)) <= A[u] - A[t] /\ A[u] - A[t] <= V(t) - V(u) /\ V(u) <= V(t)
  <2> DEFINE T == {x \in u..b : /\ -(V(x) - V(u)) <= A[u] - A[x] /\ A[u] - A[x] <= V(x) - V(u)
                                /\ V(u) <= V(x)}
  <2>1. u \in Int /\ u \in u..b /\ V(u) \in Int /\ A[u] \in Int /\ (u + 1) - 1 = u
    BY <1>1, <1>3
  <2>2. (u + 1) - 1 \in T
    BY <2>1
  <2>3. ASSUME NEW x \in (u + 1)..b, x - 1 \in T PROVE x \in T
    <3>1. x \in 1..b /\ x \in u..b /\ x \in 0..b /\ x - 1 \in 0..b
      OBVIOUS
    <3>2. /\ V(x) = V(x - 1) + M[x] /\ V(x - 1) \in Int /\ M[x] \in Nat
          /\ A[x] \in Int /\ A[x - 1] \in Int
          /\ -M[x] <= A[x - 1] - A[x] /\ A[x - 1] - A[x] <= M[x]
      BY <1>1, <1>2, <1>3, <3>1
    <3>3. /\ -(V(x - 1) - V(u)) <= A[u] - A[x - 1] /\ A[u] - A[x - 1] <= V(x - 1) - V(u)
          /\ V(u) <= V(x - 1)
      BY <2>3
    <3>4. QED
      BY <2>1, <3>1, <3>2, <3>3
  <2>4. ((u + 1) - 1)..b \subseteq T
    <3>1. u + 1 \in Int /\ b \in Int /\ (u + 1) - 1 <= b
      OBVIOUS
    <3> HIDE DEF T
    <3>2. QED
      BY <2>2, <2>3, <3>1, RangeInduction
  <2>5. t \in ((u + 1) - 1)..b
    BY <2>1
  <2>6. QED
    BY <2>4, <2>5
<1>5. \A t \in 0..b : V(t) \in Nat
  <2>1. ASSUME NEW t \in 0..b PROVE V(t) \in Nat
    <3>1. 0 \in 0..b /\ t \in 0..b
      OBVIOUS
    <3>2. V(0) <= V(t) /\ V(t) \in Int
      BY <1>3, <1>4, <3>1
    <3>3. QED
      BY <1>3, <3>2
  <2>2. QED
    BY <2>1
<1>6. \A t \in Int : t <= b => Path(M, t) = IF t < 0 THEN 0 ELSE V(t)
  <2>1. ASSUME NEW t \in Int, t <= b PROVE Path(M, t) = IF t < 0 THEN 0 ELSE V(t)
    <3>1. CASE t < 0
      BY <3>1 DEF Path
    <3>2. CASE t = 0
      BY <1>3, <3>2 DEF Path
    <3>3. CASE t > 0
      BY <3>3 DEF Path, V
    <3>4. QED
      BY <3>1, <3>2, <3>3
  <2>2. QED
    BY <2>1
<1>7. ASSUME NEW t \in Int, t <= b PROVE Path(M, t) \in Nat
  BY <1>5, <1>6, <1>7
<1>8. ASSUME NEW t \in Int, NEW u \in Int, u <= t, t <= b PROVE Path(M, u) <= Path(M, t)
  <2>1. CASE u < 0
    <3>1. Path(M, u) = 0
      BY <1>6, <1>8, <2>1
    <3>2. Path(M, t) \in Nat
      BY <1>7, <1>8
    <3>3. QED
      BY <3>1, <3>2
  <2>2. CASE ~(u < 0)
    <3>1. u \in 0..b /\ t \in u..b /\ u <= b /\ ~(t < 0)
      BY <1>8, <2>2
    <3>2. Path(M, u) = V(u) /\ Path(M, t) = V(t)
      BY <1>6, <1>8, <2>2, <3>1
    <3>3. QED
      BY <1>4, <3>1, <3>2
  <2>3. QED
    BY <2>1, <2>2
<1>9. ASSUME NEW u \in 0..b, NEW t \in u..b
      PROVE  /\ -(Path(M, t) - Path(M, u)) <= A[u] - A[t]
             /\ A[u] - A[t] <= Path(M, t) - Path(M, u)
  <2>1. t \in Int /\ u \in Int /\ t <= b /\ u <= b /\ ~(t < 0) /\ ~(u < 0)
    OBVIOUS
  <2>2. Path(M, u) = V(u) /\ Path(M, t) = V(t)
    BY <1>6, <2>1
  <2>3. QED
    BY <1>4, <2>2
<1>10. QED
  BY <1>7, <1>8, <1>9

(***************************************************************************)
(* A level that was the count at most D units earlier, while it is held:   *)
(* the sum over such levels is off by no more than D times the path.       *)
(***************************************************************************)
Late(v, A, c, n, D) ==
    \A k \in 1..n :
       /\ v[k] \in Int
       /\ \A t \in c[k - 1]..(c[k] - 1) : \E u \in 0..t : t - D <= u /\ v[k] = A[u]

Weighs(S, v, c, n) == \A k \in 1..n : S[k] = v[k] * (c[k] - c[k - 1])

Agrees(r, A, a, b) == \A t \in a..b : r[t] = A[t]

\* The error adds up what the count moved in the D units before each time.
LEMMA LateIntegral ==
    ASSUME NEW a \in Nat, NEW b \in Nat, a <= b, NEW D \in Nat, NEW A, NEW M, Shifts(M, A, b),
           NEW n \in Nat, NEW c, Places(c, n), c[0] = a, c[n] = b + 1,
           NEW v, Late(v, A, c, n, D), NEW S, Weighs(S, v, c, n), NEW r, Agrees(r, A, a, b)
    PROVE  /\ Tally(S, 1, n) \in Int /\ Tally(r, a, b) \in Int /\ D * Path(M, b) \in Nat
           /\ -(D * Path(M, b)) <= Tally(S, 1, n) - Tally(r, a, b)
           /\ Tally(S, 1, n) - Tally(r, a, b) <= D * Path(M, b)
<1> DEFINE P(t) == Path(M, t)
           V == [t \in (a - D)..b |-> P(t)]
           e == [t \in a..b |-> V[t] - V[t - D]]
<1>1. /\ \A t \in Int : t <= b => P(t) \in Nat
      /\ \A t, u \in Int : u <= t /\ t <= b => P(u) <= P(t)
      /\ \A u \in 0..b : \A t \in u..b : -(P(t) - P(u)) <= A[u] - A[t] /\ A[u] - A[t] <= P(t) - P(u)
  BY PathBounds
<1>2. \A t \in 0..b : A[t] \in Int
  BY DEF Shifts
<1> HIDE DEF P
<1>3. ASSUME NEW t \in a..b
      PROVE  /\ t \in (a - D)..b /\ t - D \in (a - D)..b /\ e[t] = P(t) - P(t - D) /\ e[t] \in Int
             /\ r[t] = A[t] /\ r[t] \in Int
  <2>1. /\ t \in (a - D)..b /\ t - D \in (a - D)..b /\ t \in Int /\ t - D \in Int
        /\ t <= b /\ t - D <= b /\ t \in 0..b
    OBVIOUS
  <2>2. e[t] = P(t) - P(t - D)
    BY <2>1
  <2>3. P(t) \in Nat /\ P(t - D) \in Nat
    BY <1>1, <2>1
  <2>4. r[t] = A[t] /\ A[t] \in Int
    BY <1>2, <2>1 DEF Agrees
  <2> HIDE DEF e
  <2>5. QED
    BY <2>1, <2>2, <2>3, <2>4
<1>4. Rising(V, a - D, b)
  <2>1. \A t \in (a - D)..b : t \in Int /\ t <= b /\ V[t] = P(t)
    OBVIOUS
  <2>2. \A t \in (a - D)..b : \A u \in (a - D)..t : u \in (a - D)..b /\ u <= t
    OBVIOUS
  <2> HIDE DEF V
  <2>3. \A t \in (a - D)..b : V[t] \in Nat
    BY <1>1, <2>1
  <2>4. ASSUME NEW t \in (a - D)..b, NEW u \in (a - D)..t PROVE V[u] <= V[t]
    BY <1>1, <2>1, <2>2
  <2>5. QED
    BY <2>3, <2>4 DEF Rising
<1>5. Tally(e, a, b) \in Int /\ Tally(e, a, b) <= D * P(b)
  <2>1. V[b] = P(b)
    OBVIOUS
  <2>2. \A t \in a..b : e[t] = V[t] - V[t - D]
    OBVIOUS
  <2> HIDE DEF e, V
  <2>3. Tally(e, a, b) \in Int /\ Tally(e, a, b) <= D * V[b]
    BY <1>4, <2>2, SlidingSum
  <2>4. QED
    BY <2>1, <2>3
<1> HIDE DEF e, V
<1>6. Tracks(v, r, e, c, n)
  <2>1. ASSUME NEW k \in 1..n, NEW t \in c[k - 1]..(c[k] - 1)
        PROVE  -e[t] <= v[k] - r[t] /\ v[k] - r[t] <= e[t]
    <3>1. t \in a..b
      <4>1. k \in 0..n /\ k - 1 \in 0..n
        OBVIOUS
      <4>2. c[k - 1] \in Int /\ c[k] \in Int /\ c[0] <= c[k - 1] /\ c[k] <= c[n]
        BY <4>1, PlacesInside DEF Places
      <4>3. QED
        BY <4>2
    <3>2. PICK u \in 0..t : t - D <= u /\ v[k] = A[u]
      BY DEF Late
    <3>3. /\ u \in 0..b /\ t \in u..b /\ t \in Int /\ u \in Int /\ t - D \in Int
          /\ t - D <= u /\ u <= b /\ t <= b /\ t - D <= b
      BY <3>1, <3>2
    <3>4. -(P(t) - P(u)) <= A[u] - A[t] /\ A[u] - A[t] <= P(t) - P(u)
      BY <1>1, <3>3
    <3>5. P(t - D) <= P(u)
      BY <1>1, <3>3
    <3>6. P(t) \in Nat /\ P(u) \in Nat /\ P(t - D) \in Nat
      BY <1>1, <3>3
    <3>7. e[t] = P(t) - P(t - D) /\ r[t] = A[t] /\ A[t] \in Int /\ A[u] \in Int
      BY <1>2, <1>3, <3>1, <3>3
    <3>8. QED
      BY <3>2, <3>4, <3>5, <3>6, <3>7
  <2>2. QED
    BY <2>1 DEF Tracks, Off, Late
<1>7. /\ Tally(S, 1, n) \in Int
      /\ -Tally(e, a, b) <= Tally(S, 1, n) - Tally(r, a, b)
      /\ Tally(S, 1, n) - Tally(r, a, b) <= Tally(e, a, b)
  <2>1. Summable(r, c[0], c[n]) /\ Summable(e, c[0], c[n])
    <3>1. c[0]..(c[n] - 1) = a..b
      OBVIOUS
    <3>2. QED
      BY <1>3, <3>1 DEF Summable
  <2>2. /\ -Tally(e, c[0], c[n] - 1) <= Tally(S, 1, n) - Tally(r, c[0], c[n] - 1)
        /\ Tally(S, 1, n) - Tally(r, c[0], c[n] - 1) <= Tally(e, c[0], c[n] - 1)
        /\ Tally(S, 1, n) \in Int
    BY <1>6, <2>1, StepIntegral DEF Weighs
  <2>3. c[n] - 1 = b
    OBVIOUS
  <2>4. QED
    BY <2>2, <2>3
<1>8. Tally(r, a, b) \in Int
  <2>1. a \in Int /\ b \in Int /\ a - 1 <= b /\ b \in (a - 1)..b /\ \A t \in a..b : r[t] \in Int
    BY <1>3
  <2>2. QED
    BY <2>1, TallyFacts
<1>9. P(b) \in Nat /\ D * P(b) \in Nat
  <2>1. P(b) \in Nat
    BY <1>1
  <2>2. QED
    BY <2>1
<1> DEFINE x == Tally(S, 1, n)
           y == Tally(r, a, b)
           z == Tally(e, a, b)
           w == D * P(b)
<1>10. x \in Int /\ y \in Int /\ z \in Int /\ w \in Nat /\ -z <= x - y /\ x - y <= z /\ z <= w
  BY <1>5, <1>7, <1>8, <1>9
<1> HIDE DEF x, y, z, w
<1>11. -w <= x - y /\ x - y <= w
  BY <1>10
<1>12. QED
  BY <1>10, <1>11 DEF x, y, z, w, P

(***************************************************************************)
(* The entries of a history, whatever times and counts they have.          *)
(***************************************************************************)
EntriesOf(moments, counts) == [at : moments, desired : counts]

\* Every entry is still there, with at least its count, or has moved to now.
Represented(entries, after, now) ==
    \A i \in 1..Len(entries) : \E j \in 1..Len(after) :
        /\ after[j].desired >= entries[i].desired
        /\ after[j].at = entries[i].at \/ after[j].at = now

(***************************************************************************)
(* A newest entry that is added, or that takes the place of the newest     *)
(* with at least its count, leaves every entry represented.                *)
(***************************************************************************)
LEMMA NewestRepresents ==
    ASSUME NEW moments, NEW counts, NEW top \in Nat, counts \subseteq 0..top,
           NEW entries \in Seq(EntriesOf(moments, counts)), NEW e \in EntriesOf(moments, counts),
           NEW r,
           \/ r = Append(entries, e)
           \/ /\ Len(entries) > 0 /\ e.desired >= entries[Len(entries)].desired
              /\ r = [entries EXCEPT ![Len(entries)] = e]
    PROVE  /\ r \in Seq(EntriesOf(moments, counts))
           /\ \E j \in 1..Len(r) : r[j] = e
           /\ Represented(entries, r, e.at)
<1> DEFINE n == Len(entries)
           E == EntriesOf(moments, counts)
<1>1. /\ n \in Nat
      /\ \A i \in 1..n : entries[i] \in E /\ entries[i].desired \in Nat
      /\ e.desired \in Nat
  <2> HIDE DEF E
  <2>1. n \in Nat /\ \A i \in 1..n : entries[i] \in E
    BY DEF E
  <2>2. ASSUME NEW x \in E PROVE x.desired \in Nat
    <3>1. x.desired \in counts
      BY DEF E, EntriesOf
    <3>2. \A y \in counts : y \in Nat
      OBVIOUS
    <3>3. QED
      BY <3>1, <3>2
  <2>3. QED
    BY <2>1, <2>2 DEF E
<1> HIDE DEF E
<1>2. CASE r = Append(entries, e)
  <2>1. r \in Seq(E) /\ Len(r) = n + 1 /\ r[n + 1] = e /\ \A i \in 1..n : r[i] = entries[i]
    BY <1>2 DEF E
  <2>2. n + 1 \in 1..Len(r) /\ \A i \in 1..n : i \in 1..Len(r)
    BY <1>1, <2>1
  <2>3. ASSUME NEW i \in 1..n
        PROVE  \E j \in 1..Len(r) : /\ r[j].desired >= entries[i].desired
                                    /\ r[j].at = entries[i].at \/ r[j].at = e.at
    <3>1. i \in 1..Len(r) /\ r[i] = entries[i] /\ entries[i].desired \in Nat
      BY <1>1, <2>1, <2>2
    <3>2. entries[i].desired >= entries[i].desired
      BY <3>1
    <3>3. QED
      BY <3>1, <3>2
  <2>4. QED
    BY <2>1, <2>2, <2>3 DEF Represented, E
<1>3. CASE /\ n > 0 /\ e.desired >= entries[n].desired
           /\ r = [entries EXCEPT ![n] = e]
  <2>1. n \in 1..n
    BY <1>1, <1>3
  <2>2. r \in Seq(E) /\ Len(r) = n /\ r[n] = e /\ \A i \in 1..n : i # n => r[i] = entries[i]
    BY <1>3, <2>1 DEF E
  <2>3. ASSUME NEW i \in 1..n
        PROVE  \E j \in 1..Len(r) : /\ r[j].desired >= entries[i].desired
                                    /\ r[j].at = entries[i].at \/ r[j].at = e.at
    <3>1. CASE i = n
      BY <1>3, <2>1, <2>2, <3>1
    <3>2. CASE i # n
      <4>1. i \in 1..Len(r) /\ r[i] = entries[i] /\ entries[i].desired \in Nat
        BY <1>1, <2>2, <3>2
      <4>2. entries[i].desired >= entries[i].desired
        BY <4>1
      <4>3. QED
        BY <4>1, <4>2
    <3>3. QED
      BY <3>1, <3>2
  <2>4. QED
    BY <2>1, <2>2, <2>3 DEF Represented, E
<1>4. QED
  BY <1>2, <1>3

(***************************************************************************)
(* What the end of a list is.                                              *)
(***************************************************************************)
LEMMA Ending ==
    ASSUME NEW S, NEW list \in Seq(S), NEW k \in 1..Len(list)
    PROVE  /\ SubSeq(list, k, Len(list)) \in Seq(S)
           /\ Len(SubSeq(list, k, Len(list))) = Len(list) - k + 1
           /\ \A j \in 1..(Len(list) - k + 1) : SubSeq(list, k, Len(list))[j] = list[k + j - 1]
<1>1. Len(list) \in Nat /\ \A i \in k..Len(list) : list[i] \in S
  OBVIOUS
<1>2. SubSeq(list, k, Len(list)) \in Seq(S)
  BY <1>1
<1>3. Len(SubSeq(list, k, Len(list))) = Len(list) - k + 1
  BY <1>1
<1>4. \A j \in 1..(Len(list) - k + 1) : SubSeq(list, k, Len(list))[j] = list[k + j - 1]
  BY <1>1
<1>5. QED
  BY <1>2, <1>3, <1>4

FromFirst(list, live) ==
    IF live = {} THEN <<>>
    ELSE SubSeq(list, CHOOSE i \in live : \A j \in live : i <= j, Len(list))

(***************************************************************************)
(* The part of a list from the first place of a set keeps what is at its   *)
(* places.                                                                 *)
(***************************************************************************)
LEMMA SuffixKeeps ==
    ASSUME NEW S, NEW list \in Seq(S), NEW live \in SUBSET (1..Len(list))
    PROVE  /\ FromFirst(list, live) \in Seq(S)
           /\ \A i \in live :
                 \E j \in 1..Len(FromFirst(list, live)) : FromFirst(list, live)[j] = list[i]
<1> DEFINE n == Len(list)
           p == FromFirst(list, live)
<1>1. n \in Nat
  OBVIOUS
<1>2. CASE live = {}
  <2>1. p = <<>>
    BY <1>2 DEF FromFirst
  <2>2. p \in Seq(S)
    BY <2>1
  <2>3. QED
    BY <1>2, <2>2 DEF p
<1>3. CASE live # {}
  <2> DEFINE k == CHOOSE i \in live : \A j \in live : i <= j
  <2>1. k \in live /\ \A j \in live : k <= j
    <3>1. live \subseteq Nat
      BY <1>1
    <3>2. \E i \in live : \A j \in live : i <= j
      BY <1>3, <3>1, LeastElement
    <3>3. QED
      BY <3>2
  <2>2. p = SubSeq(list, k, n)
    BY <1>3 DEF FromFirst
  <2> HIDE DEF k, p
  <2>3. k \in 1..n
    BY <2>1
  <2>4. /\ p \in Seq(S) /\ Len(p) = n - k + 1
        /\ \A j \in 1..(n - k + 1) : p[j] = list[k + j - 1]
    BY <2>2, <2>3, Ending
  <2>5. ASSUME NEW i \in live PROVE \E j \in 1..Len(p) : p[j] = list[i]
    <3>1. k <= i /\ i \in 1..n
      BY <2>1
    <3>2. i - k + 1 \in 1..Len(p) /\ k + (i - k + 1) - 1 = i
      BY <1>1, <2>3, <2>4, <3>1
    <3>3. p[i - k + 1] = list[i]
      BY <2>4, <3>2
    <3>4. QED
      BY <3>2, <3>3
  <2>6. QED
    BY <2>4, <2>5 DEF p
<1>4. QED
  BY <1>2, <1>3

Largest(entries) ==
    LET values == {entries[i].desired : i \in 1..Len(entries)}
    IN  CHOOSE m \in values \cup {0} : \A v \in values : v <= m

(***************************************************************************)
(* The largest count of a history is 0 or that of an entry, and no entry   *)
(* exceeds it.                                                             *)
(***************************************************************************)
LEMMA LargestCount ==
    ASSUME NEW moments, NEW counts, NEW top \in Nat, counts \subseteq 0..top,
           NEW entries \in Seq(EntriesOf(moments, counts))
    PROVE  /\ Largest(entries) \in Nat
           /\ \A i \in 1..Len(entries) : entries[i].desired <= Largest(entries)
           /\ \/ Largest(entries) = 0
              \/ \E i \in 1..Len(entries) : entries[i].desired = Largest(entries)
<1> DEFINE peak == Largest(entries)
           values == {entries[i].desired : i \in 1..Len(entries)}
           all == values \cup {0}
           E == EntriesOf(moments, counts)
<1>1. ASSUME NEW i \in 1..Len(entries) PROVE entries[i].desired \in 0..top
  <2>1. entries \in Seq(E)
    OBVIOUS
  <2> HIDE DEF E
  <2>2. entries[i] \in E
    BY <2>1
  <2>3. QED
    BY <2>2 DEF E, EntriesOf
<1>2. all \subseteq Nat /\ all # {} /\ \A x \in all : x <= top
  BY <1>1
<1>3. PICK m \in all : \A x \in all : x <= m
  <2> HIDE DEF all
  <2>1. QED
    BY <1>2, GreatestElement
<1>4. \E x \in all : \A v \in values : v <= x
  BY <1>3
<1>5. peak \in all /\ \A v \in values : v <= peak
  BY <1>4 DEF Largest
<1>6. QED
  BY <1>5, <1>2
=============================================================================
