--------------------------- MODULE ObservationProofs ---------------------------
(***************************************************************************)
(* What the metrics provider remembers, proved about: the samples that     *)
(* record() keeps and returns, and that nothing puts the warm-up of the    *)
(* predictor off, for any number of callers, targets, gates and windows.   *)
(***************************************************************************)
EXTENDS ObservationHistory, Extremes, FiniteSetTheorems

(***************************************************************************)
(* The pass of record() keeps what is in the window and nothing else, in   *)
(* its order.  Its loop is a recursive function; what it has retained      *)
(* after each sample is shown by induction over the samples.               *)
(***************************************************************************)
Spaced(list) == \A i, j \in 1..Len(list) : i < j => list[j].at - list[i].at >= observationSpacing

RetainedBy(r, samples, i, span, now) ==
    /\ \A j \in 1..Len(r) :
          \E k \in 1..i : r[j] = samples[k] /\ InWindow(samples[k], span, now)
    /\ \A k \in 1..i : InWindow(samples[k], span, now) => \E j \in 1..Len(r) : r[j] = samples[k]
    /\ Spaced(samples) => Spaced(r)

\* The samples retained after each of those stored, as record() goes through them.
IsPass(g, S, samples, span, now) ==
    /\ g \in [0..Len(samples) -> Seq(S)] /\ g[0] = <<>>
    /\ \A i \in 1..Len(samples) :
          g[i] = IF InWindow(samples[i], span, now) THEN Append(g[i - 1], samples[i])
                 ELSE g[i - 1]

\* The pass of record() is a loop over samples of any kind.
LEMMA RetainedPass ==
    ASSUME NEW S, NEW samples \in Seq(S), NEW span, NEW now
    PROVE  \E g : IsPass(g, S, samples, span, now) /\ Retained(samples, span, now) = g[Len(samples)]
<1> DEFINE n == Len(samples)
           After(r, i) == IF InWindow(samples[i], span, now) THEN Append(r, samples[i]) ELSE r
           retained == CHOOSE f : f = [i \in 0..n |-> IF i = 0 THEN <<>>
                                       ELSE IF InWindow(samples[i], span, now)
                                            THEN Append(f[i - 1], samples[i])
                                       ELSE f[i - 1]]
<1>1. Retained(samples, span, now) = retained[n]
  BY DEF Retained
<1>2. PICK g \in [0..n -> Seq(S)] : g[0] = <<>> /\ \A i \in 1..n : g[i] = After(g[i - 1], i)
  <2> DEFINE pass == [i \in 1..n |-> [r \in Seq(S) |-> After(r, i)]]
  <2>1. pass \in [1..n -> [Seq(S) -> Seq(S)]]
    OBVIOUS
  <2>2. <<>> \in Seq(S) /\ n \in Nat
    OBVIOUS
  <2>3. \E g : IsLoop(g, Seq(S), n, <<>>, pass)
    <3> HIDE DEF pass, n
    <3>1. QED
      BY <2>1, <2>2, LoopExists, Zenon
  <2>4. PICK g \in [0..n -> Seq(S)] : g[0] = <<>> /\ \A i \in 1..n : g[i] = pass[i][g[i - 1]]
    <3> HIDE DEF pass, n
    <3>1. QED
      BY <2>3 DEF IsLoop
  <2>5. ASSUME NEW i \in 1..n PROVE g[i] = After(g[i - 1], i)
    <3> HIDE DEF After
    <3>1. g[i - 1] \in Seq(S)
      OBVIOUS
    <3>2. QED
      BY <2>4, <3>1
  <2>6. QED
    BY <2>4, <2>5
<1>3. retained = [i \in 0..n |-> IF i = 0 THEN <<>> ELSE After(retained[i - 1], i)]
  <2>1. g = [i \in 0..n |-> IF i = 0 THEN <<>>
                            ELSE IF InWindow(samples[i], span, now)
                                 THEN Append(g[i - 1], samples[i])
                            ELSE g[i - 1]]
    <3>1. g = [i \in 0..n |-> g[i]]
      BY <1>2
    <3>2. ASSUME NEW i \in 0..n
          PROVE  g[i] = IF i = 0 THEN <<>>
                        ELSE IF InWindow(samples[i], span, now) THEN Append(g[i - 1], samples[i])
                        ELSE g[i - 1]
      <4>1. CASE i = 0
        BY <1>2, <4>1
      <4>2. CASE i # 0
        <5>1. i \in 1..n
          BY <4>2
        <5>2. g[i] = After(g[i - 1], i)
          BY <1>2, <5>1
        <5>3. QED
          BY <4>2, <5>2
      <4>3. QED
        BY <4>1, <4>2
    <3>3. QED
      BY <3>1, <3>2, Zenon
  <2>2. QED
    BY <2>1
<1> HIDE DEF retained
<1>4. retained[0] = <<>> /\ \A i \in 1..n : retained[i] = After(retained[i - 1], i)
  <2> HIDE DEF After
  <2>1. 0 \in 0..n /\ \A i \in 1..n : i \in 0..n /\ i # 0
    OBVIOUS
  <2>2. QED
    BY <1>3, <2>1
<1> DEFINE T == {i \in 0..n : retained[i] \in Seq(S)}
<1>5. 0 \in T /\ \A i \in 1..n : i - 1 \in T => i \in T
  <2>1. 0 \in 0..n /\ <<>> \in Seq(S)
    OBVIOUS
  <2>2. ASSUME NEW i \in 1..n, i - 1 \in T PROVE i \in T
    <3>1. i \in 0..n /\ samples[i] \in S /\ retained[i - 1] \in Seq(S)
      BY <2>2
    <3>2. retained[i] = After(retained[i - 1], i)
      BY <1>4
    <3>3. retained[i] \in Seq(S)
      BY <3>1, <3>2
    <3>4. QED
      BY <3>1, <3>3
  <2>3. QED
    BY <1>4, <2>1, <2>2
<1>6. 0..n \subseteq T
  <2> HIDE DEF T
  <2>1. n \in Nat
    OBVIOUS
  <2>2. QED
    BY <1>5, <2>1, IntervalInduction
<1>7. DOMAIN retained = 0..n /\ retained = [i \in DOMAIN retained |-> retained[i]]
  BY <1>3
<1>8. retained \in [0..n -> Seq(S)]
  BY <1>6, <1>7
<1>9. QED
  BY <1>1, <1>4, <1>8 DEF IsPass

\* What is kept of samples of any kind.
LEMMA RetainedFacts ==
    ASSUME NEW S, NEW samples \in Seq(S), NEW span, NEW now
    PROVE  /\ Retained(samples, span, now) \in Seq(S)
           /\ RetainedBy(Retained(samples, span, now), samples, Len(samples), span, now)
<1> DEFINE n == Len(samples)
           After(r, i) == IF InWindow(samples[i], span, now) THEN Append(r, samples[i]) ELSE r
<1>1. PICK retained : /\ IsPass(retained, S, samples, span, now)
                      /\ Retained(samples, span, now) = retained[n]
  BY RetainedPass
<1>3. /\ retained[0] = <<>> /\ retained \in [0..n -> Seq(S)]
      /\ \A i \in 1..n : retained[i] = After(retained[i - 1], i)
  BY <1>1 DEF IsPass
<1> DEFINE Right(r, i) == r \in Seq(S) /\ RetainedBy(r, samples, i, span, now)
           T == {i \in 0..n : Right(retained[i], i)}
<1>4. 0 \in T
  <2>1. 0 \in 0..n /\ retained[0] = <<>>
    BY <1>3
  <2>2. Right(retained[0], 0)
    BY <2>1 DEF RetainedBy, Spaced
  <2>3. QED
    BY <2>1, <2>2
<1>5. ASSUME NEW i \in 1..n, i - 1 \in T PROVE i \in T
  <2> DEFINE r == retained[i - 1]
             q == retained[i]
  <2>1. i \in 0..n /\ i - 1 \in 0..n /\ q = After(r, i)
    <3> HIDE DEF After
    <3>1. i \in 0..n /\ i - 1 \in 0..n /\ i # 0
      OBVIOUS
    <3>2. QED
      BY <1>3, <3>1
  <2>2. r \in Seq(S) /\ RetainedBy(r, samples, i - 1, span, now)
    BY <1>5
  <2> HIDE DEF r, q
  <2>3. CASE ~InWindow(samples[i], span, now)
    <3>1. q = r
      BY <2>1, <2>3
    <3>2. \A k \in 1..i : k \in 1..(i - 1) \/ k = i
      OBVIOUS
    <3>3. 1..(i - 1) \subseteq 1..i
      OBVIOUS
    <3>4. RetainedBy(r, samples, i, span, now)
      BY <2>2, <2>3, <3>2, <3>3, Zenon DEF RetainedBy
    <3>5. QED
      BY <2>1, <2>2, <3>1, <3>4 DEF q
  <2>4. CASE InWindow(samples[i], span, now)
    <3>1. q = Append(r, samples[i]) /\ samples[i] \in S
      BY <2>1, <2>4
    <3>2. /\ q \in Seq(S) /\ Len(q) = Len(r) + 1 /\ q[Len(r) + 1] = samples[i]
          /\ \A j \in 1..Len(r) : q[j] = r[j]
      BY <2>2, <3>1
    <3>3. ASSUME NEW j \in 1..Len(q)
          PROVE  \E k \in 1..i : q[j] = samples[k] /\ InWindow(samples[k], span, now)
      <4>1. CASE j = Len(r) + 1
        BY <2>4, <3>2, <4>1
      <4>2. CASE j \in 1..Len(r)
        <5>1. PICK k \in 1..(i - 1) : r[j] = samples[k] /\ InWindow(samples[k], span, now)
          BY <2>2, <4>2, Zenon DEF RetainedBy
        <5>2. k \in 1..i /\ q[j] = samples[k]
          BY <3>2, <4>2, <5>1
        <5>3. QED
          BY <5>1, <5>2
      <4>3. QED
        BY <2>2, <3>2, <4>1, <4>2
    <3>4. ASSUME NEW k \in 1..i, InWindow(samples[k], span, now)
          PROVE  \E j \in 1..Len(q) : q[j] = samples[k]
      <4>1. CASE k = i
        BY <2>2, <3>2, <4>1
      <4>2. CASE k \in 1..(i - 1)
        BY <2>2, <3>2, <3>4, <4>2 DEF RetainedBy
      <4>3. QED
        BY <4>1, <4>2
    <3>5. ASSUME Spaced(samples), NEW a \in 1..Len(q), NEW b \in 1..Len(q), a < b
          PROVE  q[b].at - q[a].at >= observationSpacing
      <4>1. CASE b = Len(r) + 1
        <5>1. a \in 1..Len(r)
          BY <2>2, <3>2, <3>5, <4>1
        <5>2. PICK k \in 1..(i - 1) : r[a] = samples[k]
          BY <2>2, <5>1 DEF RetainedBy
        <5>3. samples[i].at - samples[k].at >= observationSpacing
          BY <3>5 DEF Spaced
        <5>4. QED
          BY <3>2, <4>1, <5>1, <5>2, <5>3
      <4>2. CASE b \in 1..Len(r)
        <5>1. a \in 1..Len(r)
          BY <2>2, <3>2, <3>5, <4>2
        <5>2. Spaced(r)
          BY <2>2, <3>5 DEF RetainedBy
        <5>3. r[b].at - r[a].at >= observationSpacing
          BY <3>5, <4>2, <5>1, <5>2 DEF Spaced
        <5>4. QED
          BY <3>2, <4>2, <5>1, <5>3
      <4>3. QED
        BY <2>2, <3>2, <4>1, <4>2
    <3>6. RetainedBy(q, samples, i, span, now)
      BY <3>3, <3>4, <3>5 DEF RetainedBy, Spaced
    <3>7. QED
      BY <2>1, <3>2, <3>6 DEF q
  <2>5. QED
    BY <2>3, <2>4
<1>6. n \in T
  <2> HIDE DEF T
  <2>1. n \in 0..n /\ n \in Nat
    OBVIOUS
  <2>2. QED
    BY <1>4, <1>5, <2>1, IntervalInduction
<1>7. QED
  BY <1>1, <1>6

(***************************************************************************)
(* record(): what it keeps and what it returns are spaced and within the   *)
(* window, the live sample is the last of the answer, an anchor no older   *)
(* than a spacing is kept, and an anchor that is a spacing old makes the   *)
(* answer two samples long.                                                *)
(***************************************************************************)
SampleOf(u) == [at : Int, uid : {u}]

\* The time and the incarnation of a sample in a list.
LEMMA SampleTypes ==
    ASSUME NEW u, NEW list \in Seq(SampleOf(u)), NEW i \in 1..Len(list)
    PROVE  list[i] \in SampleOf(u) /\ list[i].at \in Int /\ list[i].uid = u
<1>1. list[i] \in SampleOf(u)
  OBVIOUS
<1>2. QED
  BY <1>1 DEF SampleOf

\* A list stays spaced when an element replaces what follows those that it is spaced from.
Follows(e, r, m, q) ==
    /\ Len(r) \in Nat /\ m \in 0..Len(r) /\ Len(q) = m + 1 /\ q[m + 1] = e
    /\ \A i \in 1..m : q[i] = r[i] /\ e.at - r[i].at >= observationSpacing

\* Which is so for an anchor that starts a new entry or replaces the last.
LEMMA SpacedAfter ==
    ASSUME NEW r, NEW m, NEW e, NEW q, Spaced(r), Follows(e, r, m, q)
    PROVE  Spaced(q)
<1> USE DEF Follows
<1>1. ASSUME NEW i \in 1..Len(q), NEW j \in 1..Len(q), i < j
      PROVE  q[j].at - q[i].at >= observationSpacing
  <2>1. i \in 1..m
    BY <1>1
  <2>2. CASE j = m + 1
    BY <2>1, <2>2
  <2>3. CASE j \in 1..m
    <3>1. i \in 1..Len(r) /\ j \in 1..Len(r)
      BY <2>1, <2>3
    <3>2. r[j].at - r[i].at >= observationSpacing
      BY <1>1, <3>1 DEF Spaced
    <3>3. QED
      BY <2>1, <2>3, <3>2
  <2>4. QED
    BY <2>2, <2>3
<1>2. QED
  BY <1>1 DEF Spaced

Recorded(u, samples, span, taken, kept, returned) ==
    /\ kept \in Seq(SampleOf(u)) /\ Spaced(kept)
    /\ \A k \in 1..Len(samples) : InWindow(samples[k], span, taken.at) =>
          \E j \in 1..Len(kept) : kept[j] = samples[k]
    /\ \E j \in 1..Len(kept) :
          taken.at - observationSpacing < kept[j].at /\ kept[j].at <= taken.at
    /\ returned \in Seq(SampleOf(u)) /\ Len(returned) > 0 /\ Spaced(returned)
    /\ returned[Len(returned)] = taken
    /\ \A i \in 1..Len(returned) : returned[i].at \in taken.at - span .. taken.at
    /\ (\E k \in 1..Len(samples) :
           /\ InWindow(samples[k], span, taken.at)
           /\ samples[k].at <= taken.at - observationSpacing)
          => Len(returned) >= 2

\* record() does all this for samples of one incarnation that are spaced.
LEMMA RecordFacts ==
    ASSUME observationSpacing \in Nat \ {0}, NEW u, NEW samples \in Seq(SampleOf(u)),
           Spaced(samples), NEW span \in Nat, NEW taken \in SampleOf(u)
    PROVE  Recorded(u, samples, span, taken, Record(samples, span, taken).kept,
                    Record(samples, span, taken).returned)
<1> SUFFICES ASSUME NEW kept, kept = Record(samples, span, taken).kept,
                    NEW returned, returned = Record(samples, span, taken).returned
             PROVE  Recorded(u, samples, span, taken, kept, returned)
  OBVIOUS
<1> DEFINE r == Retained(samples, span, taken.at)
           n == Len(r)
<1>1. r \in Seq(SampleOf(u)) /\ RetainedBy(r, samples, Len(samples), span, taken.at)
  BY RetainedFacts
<1> HIDE DEF r
<1>2. /\ n \in Nat /\ Spaced(r) /\ taken.at \in Int
      /\ \A i \in 1..n : r[i] \in SampleOf(u) /\ r[i].at \in Int
  <2>1. Spaced(r)
    BY <1>1, Zenon DEF RetainedBy
  <2>2. n \in Nat /\ \A i \in 1..n : r[i] \in SampleOf(u)
    BY <1>1
  <2>3. taken.at \in Int /\ \A i \in 1..n : r[i].at \in Int
    BY <2>2 DEF SampleOf
  <2>4. QED
    BY <2>1, <2>2, <2>3
<1>3. \A i \in 1..n : taken.at - span <= r[i].at /\ r[i].at < taken.at
  BY <1>1, Zenon DEF RetainedBy, InWindow
<1>4. \A k \in 1..Len(samples) : InWindow(samples[k], span, taken.at) =>
         \E j \in 1..n : r[j] = samples[k]
  BY <1>1, Zenon DEF RetainedBy
<1>5. CASE n = 0 \/ taken.at - r[n].at >= observationSpacing
  <2> DEFINE q == Append(r, taken)
  <2>1. kept = q /\ returned = q
    <3>1. r = <<>> \/ taken.at - r[n].at >= observationSpacing
      BY <1>1, <1>5
    <3>2. QED
      BY <3>1 DEF Record, r
  <2>2. /\ q \in Seq(SampleOf(u)) /\ Len(q) = n + 1 /\ q[n + 1] = taken
        /\ \A i \in 1..n : q[i] = r[i]
    BY <1>1
  <2> HIDE DEF q
  <2>3. ASSUME NEW i \in 1..n PROVE taken.at - r[i].at >= observationSpacing
    <3>1. n \in 1..n /\ n # 0 /\ taken.at - r[n].at >= observationSpacing
      BY <1>2, <1>5
    <3>2. i # n => r[n].at - r[i].at >= observationSpacing
      BY <1>2, <3>1 DEF Spaced
    <3>3. taken.at \in Int /\ r[n].at \in Int /\ r[i].at \in Int /\ observationSpacing \in Nat
      BY <1>2, <3>1
    <3>4. QED
      BY <3>1, <3>2, <3>3
  <2>4. Spaced(q)
    <3>1. Follows(taken, r, n, q)
      BY <1>2, <2>2, <2>3 DEF Follows
    <3>2. QED
      BY <1>2, <3>1, SpacedAfter
  <2>5. \A k \in 1..Len(samples) : InWindow(samples[k], span, taken.at) =>
           \E j \in 1..Len(q) : q[j] = samples[k]
    BY <1>2, <1>4, <2>2
  <2>6. \A i \in 1..Len(q) : q[i].at \in taken.at - span .. taken.at
    BY <1>2, <1>3, <2>2
  <2>7. (\E k \in 1..Len(samples) :
            /\ InWindow(samples[k], span, taken.at)
            /\ samples[k].at <= taken.at - observationSpacing)
           => Len(q) >= 2
    BY <1>2, <1>4, <2>2
  <2>8. \E j \in 1..Len(q) : taken.at - observationSpacing < q[j].at /\ q[j].at <= taken.at
    <3>1. n + 1 \in 1..Len(q) /\ q[n + 1].at = taken.at
      BY <1>2, <2>2
    <3>2. QED
      BY <1>2, <3>1
  <2>9. QED
    <3>1. Len(q) > 0 /\ q[Len(q)] = taken
      BY <1>2, <2>2
    <3>2. Recorded(u, samples, span, taken, q, q)
      BY <2>2, <2>4, <2>5, <2>6, <2>7, <2>8, <3>1, Zenon DEF Recorded
    <3>3. QED
      BY <2>1, <3>2
<1>6. CASE n # 0 /\ ~(taken.at - r[n].at >= observationSpacing)
  <2> DEFINE q == Append(SubSeq(r, 1, n - 1), taken)
  <2>1. kept = r /\ returned = q
    <3>1. ~(r = <<>> \/ taken.at - r[n].at >= observationSpacing)
      BY <1>1, <1>6
    <3>2. QED
      BY <3>1 DEF Record, r
  <2>2. /\ q \in Seq(SampleOf(u)) /\ Len(q) = n /\ q[n] = taken
        /\ \A i \in 1..(n - 1) : q[i] = r[i]
    <3> DEFINE f == SubSeq(r, 1, n - 1)
    <3>1. n \in Nat /\ n # 0 /\ n - 1 \in 0..n
      BY <1>2, <1>6
    <3>2. f \in Seq(SampleOf(u)) /\ Len(f) = n - 1 /\ \A i \in 1..(n - 1) : f[i] = r[i]
      BY <1>1, <3>1, Beginning
    <3> HIDE DEF f
    <3>3. /\ Append(f, taken) \in Seq(SampleOf(u)) /\ Len(Append(f, taken)) = Len(f) + 1
          /\ Append(f, taken)[Len(f) + 1] = taken
          /\ \A i \in 1..Len(f) : Append(f, taken)[i] = f[i]
      BY <3>2
    <3>4. QED
      BY <3>1, <3>2, <3>3 DEF f
  <2> HIDE DEF q
  <2>3. n \in 1..n /\ \A i \in 1..(n - 1) : i \in 1..n /\ r[n].at - r[i].at >= observationSpacing
    BY <1>2, <1>6 DEF Spaced
  <2>4. ASSUME NEW i \in 1..(n - 1) PROVE taken.at - r[i].at >= observationSpacing
    <3>1. i \in 1..n /\ r[n].at - r[i].at >= observationSpacing /\ r[n].at < taken.at
      BY <1>3, <2>3
    <3>2. r[n].at \in Int /\ r[i].at \in Int /\ taken.at \in Int
      BY <1>2, <2>3, <3>1
    <3>3. QED
      BY <3>1, <3>2
  <2>5. Spaced(q)
    <3>1. Follows(taken, r, n - 1, q)
      <4>1. n - 1 \in 0..Len(r) /\ Len(r) \in Nat
        BY <1>2, <1>6
      <4>2. Len(q) = (n - 1) + 1 /\ q[(n - 1) + 1] = taken
        BY <1>2, <2>2
      <4>3. QED
        BY <2>2, <2>4, <4>1, <4>2 DEF Follows
    <3>2. QED
      BY <1>2, <3>1, SpacedAfter
  <2>6. \A i \in 1..Len(q) : q[i].at \in taken.at - span .. taken.at
    BY <1>2, <1>3, <2>2
  <2>7. (\E k \in 1..Len(samples) :
            /\ InWindow(samples[k], span, taken.at)
            /\ samples[k].at <= taken.at - observationSpacing)
           => Len(q) >= 2
    <3> SUFFICES ASSUME NEW k \in 1..Len(samples), InWindow(samples[k], span, taken.at),
                        samples[k].at <= taken.at - observationSpacing
                 PROVE  n >= 2
      BY <2>2
    <3>1. PICK j \in 1..n : r[j] = samples[k]
      BY <1>4
    <3>2. j # n
      BY <1>2, <1>6, <3>1
    <3>3. QED
      BY <1>2, <3>2
  <2>8. taken.at - observationSpacing < r[n].at /\ r[n].at <= taken.at
    <3>1. /\ taken.at \in Int /\ r[n].at \in Int /\ observationSpacing \in Int
          /\ r[n].at < taken.at
      BY <1>2, <1>3, <2>3
    <3>2. QED
      BY <1>6, <3>1
  <2>9. kept \in Seq(SampleOf(u)) /\ Spaced(kept) /\ n > 0 /\ n \in 1..Len(kept)
    BY <1>1, <1>2, <1>6, <2>1
  <2>10. \E j \in 1..Len(kept) :
            taken.at - observationSpacing < kept[j].at /\ kept[j].at <= taken.at
    BY <2>1, <2>8, <2>9
  <2>11. \A k \in 1..Len(samples) : InWindow(samples[k], span, taken.at) =>
            \E j \in 1..Len(kept) : kept[j] = samples[k]
    BY <1>4, <2>1
  <2>12. QED
    BY <2>1, <2>2, <2>5, <2>6, <2>7, <2>9, <2>10, <2>11 DEF Recorded
<1>7. QED
  BY <1>5, <1>6
-----------------------------------------------------------------------------
(***************************************************************************)
(* The provider's invariant.  A target is remembered just when it is noted *)
(* and as of the same observation; its anchors are spaced, of its          *)
(* incarnation, and one of them is at most a spacing older than each       *)
(* acceptance that is noted.                                               *)
(***************************************************************************)
CallsMade == [phase : {"waiting", "observing"}, target : Targets, uid : Nat \ {0},
              window : Nat, at : Int]

HasAnchor(samples, n) ==
    \E i \in 1..Len(samples) :
        n.at - observationSpacing < samples[i].at /\ samples[i].at <= n.at

Kept(entry, note) ==
    /\ note.uid = entry.uid /\ note.last = entry.lastUsed
    /\ entry.uid \in Nat \ {0} /\ entry.lastUsed \in Int
    /\ entry.samples \in Seq(SampleOf(entry.uid)) /\ Spaced(entry.samples)
    /\ note.accepted \subseteq [at : Int, window : Nat]
    /\ \A n \in note.accepted : HasAnchor(entry.samples, n)

KeptOrNothing(entry, note) == (entry = Forgotten /\ note = Nothing) \/ Kept(entry, note)

ProviderTyped ==
    /\ clock \in Int /\ scenario \in Scenarios /\ live \in [Targets -> Nat]
    /\ calls \in [Callers -> {Idle} \cup CallsMade]
    /\ DOMAIN history = Targets /\ DOMAIN noted = Targets

ProviderInv ==
    /\ ProviderTyped
    /\ \A t \in Targets : KeptOrNothing(history[t], noted[t])
    /\ WarmsUp

\* What is remembered is not nothing.
LEMMA KeptIsSomething ==
    ASSUME NEW entry, NEW note, Kept(entry, note)
    PROVE  entry # Forgotten /\ note # Nothing
  BY DEF Kept, Forgotten, Nothing

\* Before the first call nothing is remembered.
LEMMA ProviderStarts ==
    ASSUME ProviderParameters, ProviderInit
    PROVE  ProviderInv
  BY DEF ProviderParameters, ProviderInit, ProviderInv, ProviderTyped, KeptOrNothing, WarmsUp

\* Steps that neither accept nor fail leave what is remembered alone, and answer nothing.
LEMMA StillPreserves ==
    ASSUME ProviderParameters, ProviderInv,
           \/ \E c \in Callers : Call(c) \/ Acquire(c) \/ GiveUp(c)
           \/ Tick \/ SetBack \/ \E t \in scenario.targets : Replace(t)
           \/ UNCHANGED providerVars
    PROVE  ProviderInv'
<1>1. scenario' = scenario /\ Callers' = Callers
  BY DEF Call, Acquire, GiveUp, Tick, SetBack, Replace, Disturb, providerVars, world, Callers
<1>2. scenario.targets \subseteq Targets /\ scenario.windows \subseteq Nat
  BY DEF ProviderParameters, ProviderInv, ProviderTyped
<1>3. calls' \in [Callers -> {Idle} \cup CallsMade]
  <2>1. CASE \E c \in Callers : Call(c)
    <3>1. PICK c \in Callers : Call(c)
      BY <2>1
    <3>2. PICK t \in scenario.targets, window \in scenario.windows : \E uid \in 1..live[t] :
             calls' = [calls EXCEPT ![c] = [phase |-> "waiting", target |-> t, uid |-> uid,
                                            window |-> window, at |-> 0]]
      BY <3>1 DEF Call
    <3>3. PICK uid \in 1..live[t] :
             calls' = [calls EXCEPT ![c] = [phase |-> "waiting", target |-> t, uid |-> uid,
                                            window |-> window, at |-> 0]]
      BY <3>2
    <3>4. uid \in Nat \ {0}
      BY <1>2, <3>2 DEF ProviderInv, ProviderTyped
    <3>5. [phase |-> "waiting", target |-> t, uid |-> uid, window |-> window, at |-> 0]
             \in CallsMade
      BY <1>2, <3>2, <3>4 DEF CallsMade
    <3>6. QED
      BY <3>3, <3>5 DEF ProviderInv, ProviderTyped
  <2>2. CASE \E c \in Callers : Acquire(c)
    <3>1. PICK c \in Callers : Acquire(c)
      BY <2>2
    <3>2. calls[c] \in CallsMade
      BY <3>1 DEF Acquire, Idle, ProviderInv, ProviderTyped
    <3>3. [calls[c] EXCEPT !.phase = "observing", !.at = clock] \in CallsMade
      BY <3>2 DEF CallsMade, ProviderInv, ProviderTyped
    <3>4. calls' = [calls EXCEPT ![c] = [calls[c] EXCEPT !.phase = "observing", !.at = clock]]
      BY <3>1 DEF Acquire, ProviderInv, ProviderTyped
    <3>5. QED
      BY <3>3, <3>4 DEF ProviderInv, ProviderTyped
  <2>3. CASE \E c \in Callers : GiveUp(c)
    BY <2>3 DEF GiveUp, ProviderInv, ProviderTyped
  <2>4. CASE UNCHANGED calls
    BY <2>4 DEF ProviderInv, ProviderTyped
  <2>5. QED
    BY <2>1, <2>2, <2>3, <2>4 DEF Tick, SetBack, Replace, Disturb, providerVars
<1>4. clock' \in Int
  <2>1. clock' = clock \/ clock' = clock + 1 \/ clock' \in 0 .. clock - 1
    BY Zenon DEF Call, Acquire, GiveUp, Tick, SetBack, Replace, Disturb, providerVars, world
  <2>2. clock \in Int
    BY DEF ProviderInv, ProviderTyped
  <2>3. QED
    BY <2>1, <2>2
<1>5. live' \in [Targets -> Nat]
  <2>1. live' = live \/ \E t \in scenario.targets : live' = [live EXCEPT ![t] = @ + 1]
    BY Zenon DEF Call, Acquire, GiveUp, Tick, SetBack, Replace, Disturb, providerVars, world
  <2>2. live \in [Targets -> Nat]
    BY DEF ProviderInv, ProviderTyped
  <2>3. QED
    BY <1>2, <2>1, <2>2
<1>6. UNCHANGED <<history, noted>>
  BY DEF Call, Acquire, GiveUp, Tick, SetBack, Replace, Disturb, providerVars
<1>7. WarmsUp'
  <2>1. CASE answered' = NoAnswer
    BY <2>1 DEF WarmsUp
  <2>2. CASE UNCHANGED providerVars
    BY <2>2 DEF providerVars, WarmsUp, ProviderInv
  <2>3. QED
    BY <2>1, <2>2 DEF Call, Acquire, GiveUp, Tick, SetBack, Replace, Disturb
<1>8. QED
  BY <1>1, <1>3, <1>4, <1>5, <1>6, <1>7 DEF ProviderInv, ProviderTyped

\* A failure discards the history and the note together, or neither.
LEMMA FailPreserves ==
    ASSUME ProviderParameters, ProviderInv, NEW c \in Callers, Fail(c)
    PROVE  ProviderInv'
<1> DEFINE t == calls[c].target
<1>1. calls[c] \in CallsMade /\ t \in Targets
  BY DEF Fail, GateHeld, Idle, ProviderInv, ProviderTyped, CallsMade
<1>2. \/ UNCHANGED <<history, noted>>
      \/ /\ history' = [history EXCEPT ![t] = Forgotten]
         /\ noted' = [noted EXCEPT ![t] = Nothing]
  BY DEF Fail, invalidatesObservationHistory, PreservingErrors, RestartingErrors
<1>3. \A s \in Targets : \/ history'[s] = history[s] /\ noted'[s] = noted[s]
                         \/ history'[s] = Forgotten /\ noted'[s] = Nothing
  BY <1>1, <1>2 DEF ProviderInv, ProviderTyped
<1>4. \A s \in Targets : KeptOrNothing(history'[s], noted'[s])
  BY <1>3 DEF ProviderInv, KeptOrNothing
<1>5. /\ calls' = [calls EXCEPT ![c] = Idle] /\ UNCHANGED <<clock, scenario, live>>
      /\ answered' = NoAnswer
  BY DEF Fail, world
<1>6. DOMAIN history' = Targets /\ DOMAIN noted' = Targets
  BY <1>2 DEF ProviderInv, ProviderTyped
<1>7. QED
  BY <1>4, <1>5, <1>6 DEF ProviderInv, ProviderTyped, Callers, WarmsUp

\* The notes that an acceptance goes by: each earlier one has its anchor in what is stored.
LEMMA EarlierHasAnchor ==
    ASSUME ProviderInv, NEW t \in Targets, NEW uid \in Nat \ {0}, NEW at,
           NEW n \in Earlier(t, uid, at)
    PROVE  /\ n \in [at : Int, window : Nat] /\ n.at < at
           /\ history[t].uid = uid /\ HasAnchor(history[t].samples, n)
<1>1. noted[t].uid = uid /\ n \in noted[t].accepted /\ n.at < at
  BY DEF Earlier
<1>2. Kept(history[t], noted[t])
  BY <1>1 DEF ProviderInv, KeptOrNothing, Nothing
<1>3. QED
  BY <1>1, <1>2 DEF Kept

\* The shorter of two windows.
LEMMA LesserOfTwo ==
    ASSUME NEW v \in Nat, NEW w \in Nat
    PROVE  Min({v, w}) \in Nat /\ Min({v, w}) <= v /\ Min({v, w}) <= w
<1>1. PICK x \in {v, w} : \A y \in {v, w} : x <= y
  OBVIOUS
<1>2. Min({v, w}) \in {v, w} /\ \A y \in {v, w} : Min({v, w}) <= y
  BY <1>1 DEF Min
<1>3. QED
  BY <1>2

\* Whoever is evicted makes way for maxTargets accepted no earlier: it is evictable.
LEMMA EvictedIsEvictable ==
    ASSUME ProviderParameters, ProviderInv, NEW t \in Targets, history[t] = Forgotten,
           Cardinality(Remembered) >= maxTargets, NEW oldest \in EvictOldest(Remembered)
    PROVE  oldest \in Targets /\ noted[oldest] # Nothing /\ Evictable(oldest, t)
<1> DEFINE others == Remembered \ {oldest}
           standing == {other \in Targets \ {oldest, t} :
                           noted[other] # Nothing /\ noted[oldest].last <= noted[other].last}
<1>1. IsFiniteSet(Targets) /\ maxTargets \in Nat
  BY DEF ProviderParameters
<1>2. IsFiniteSet(Remembered) /\ IsFiniteSet(standing)
  BY <1>1, FS_Subset DEF Remembered
<1>3. /\ oldest \in Remembered
      /\ \A other \in Remembered : history[oldest].lastUsed <= history[other].lastUsed
  BY DEF EvictOldest
<1>4. \A s \in Remembered : s \in Targets /\ s # t /\ Kept(history[s], noted[s])
  BY DEF Remembered, ProviderInv, KeptOrNothing
<1>5. \A s \in Remembered : noted[s] # Nothing /\ noted[s].last = history[s].lastUsed
  BY <1>4, KeptIsSomething DEF Kept
<1>6. others \subseteq standing
  BY <1>3, <1>4, <1>5
<1>7. IsFiniteSet(others) /\ Cardinality(others) = Cardinality(Remembered) - 1
  BY <1>2, <1>3, FS_RemoveElement
<1>8. Cardinality(others) <= Cardinality(standing)
  BY <1>2, <1>6, FS_Subset
<1>9. Cardinality(Remembered) \in Nat /\ Cardinality(standing) \in Nat
  BY <1>2, FS_CardinalityType
<1>10. maxTargets - 1 <= Cardinality(standing)
  BY <1>1, <1>7, <1>8, <1>9
<1>11. QED
  BY <1>3, <1>4, <1>5, <1>10 DEF Evictable

(***************************************************************************)
(* An acceptance.  Its answer is what record() returns of what is stored   *)
(* of this incarnation; what stays noted of the target has its anchors in  *)
(* what record() keeps, for the window has not passed them; and a target   *)
(* that is evicted is no longer noted either.                              *)
(***************************************************************************)
LEMMA AcceptPreserves ==
    ASSUME ProviderParameters, ProviderInv, NEW c \in Callers, Accept(c)
    PROVE  ProviderInv'
<1> DEFINE call == calls[c]
           t == call.target
           stored == IF history[t].uid = call.uid THEN history[t].samples ELSE <<>>
           taken == [at |-> call.at, uid |-> call.uid]
           answer == Record(stored, call.window, taken)
           Old == Earlier(t, call.uid, call.at)
<1>1. /\ call \in CallsMade /\ t \in Targets /\ call.uid \in Nat \ {0} /\ call.window \in Nat
      /\ call.at \in Int
  BY DEF Accept, GateHeld, Idle, ProviderInv, ProviderTyped, CallsMade
<1>2. observationSpacing \in Nat \ {0}
  BY DEF ProviderParameters
<1>3. stored \in Seq(SampleOf(call.uid)) /\ Spaced(stored)
  <2>1. CASE history[t].uid = call.uid
    <3>1. Kept(history[t], noted[t])
      BY <1>1, <2>1 DEF ProviderInv, KeptOrNothing, Forgotten
    <3>2. QED
      BY <2>1, <3>1 DEF Kept
  <2>2. CASE history[t].uid # call.uid
    BY <2>2 DEF Spaced
  <2>3. QED
    BY <2>1, <2>2
<1>4. taken \in SampleOf(call.uid) /\ taken.at = call.at /\ taken.uid = call.uid
  BY <1>1 DEF SampleOf
<1> DEFINE new == [uid |-> call.uid, samples |-> answer.kept, lastUsed |-> call.at]
<1>5. PICK evicted \in IF history[t] = Forgotten /\ Cardinality(Remembered) >= maxTargets
                       THEN {{oldest} : oldest \in EvictOldest(Remembered)} ELSE {{}} :
         history' = [other \in Targets |-> IF other = t THEN new
                                           ELSE IF other \in evicted THEN Forgotten
                                           ELSE history[other]]
  BY DEF Accept
<1>6. /\ Note(t, call.uid, call.window, call.at)
      /\ answered' = [samples |-> answer.returned, call |-> call, earlier |-> Old]
      /\ calls' = [calls EXCEPT ![c] = Idle]
      /\ UNCHANGED <<clock, live, scenario>>
  BY DEF Accept, world
<1>7. \A n \in Old : /\ n \in [at : Int, window : Nat] /\ n.at < call.at
                     /\ HasAnchor(stored, n)
  BY <1>1, EarlierHasAnchor
<1> HIDE DEF stored, taken, Old
<1> DEFINE kept == answer.kept
           returned == answer.returned
<1>8. /\ kept \in Seq(SampleOf(call.uid)) /\ Spaced(kept)
      /\ \A k \in 1..Len(stored) : InWindow(stored[k], call.window, call.at) =>
            \E j \in 1..Len(kept) : kept[j] = stored[k]
      /\ \E j \in 1..Len(kept) :
            call.at - observationSpacing < kept[j].at /\ kept[j].at <= call.at
      /\ returned \in Seq(SampleOf(call.uid)) /\ Len(returned) > 0 /\ Spaced(returned)
      /\ returned[Len(returned)] = taken
      /\ \A i \in 1..Len(returned) : returned[i].at \in call.at - call.window .. call.at
      /\ (\E k \in 1..Len(stored) :
             /\ InWindow(stored[k], call.window, call.at)
             /\ stored[k].at <= call.at - observationSpacing)
            => Len(returned) >= 2
  <2>1. Recorded(call.uid, stored, call.window, taken, kept, returned)
    <3> HIDE DEF call
    <3>1. QED
      BY <1>1, <1>2, <1>3, <1>4, RecordFacts
  <2> HIDE DEF kept, returned, call
  <2>2. QED
    BY <1>4, <2>1 DEF Recorded
<1> HIDE DEF answer
\* The anchor of an earlier acceptance that the window has not passed.
<1>9. ASSUME NEW n \in Old, call.at - n.at <= Min({n.window, call.window}) - observationSpacing
      PROVE  \E k \in 1..Len(stored) :
                /\ InWindow(stored[k], call.window, call.at)
                /\ n.at - observationSpacing < stored[k].at /\ stored[k].at <= n.at
  <2> HIDE DEF call, stored, Old
  <2>1. n.at \in Int /\ n.window \in Nat /\ n.at < call.at
    BY <1>7
  <2>2. PICK k \in 1..Len(stored) :
                n.at - observationSpacing < stored[k].at /\ stored[k].at <= n.at
    BY <1>7 DEF HasAnchor
  <2>3. Min({n.window, call.window}) \in Nat /\ Min({n.window, call.window}) <= call.window
    BY <1>1, <2>1, LesserOfTwo
  <2>4. /\ stored[k].at \in Int /\ call.at \in Int /\ call.window \in Int
        /\ observationSpacing \in Int
    BY <1>1, <1>2, <1>3, SampleTypes
  <2>5. call.at - n.at <= call.window - observationSpacing
    <3> DEFINE lesser == Min({n.window, call.window})
    <3>1. lesser \in Nat /\ lesser <= call.window /\ call.at - n.at <= lesser - observationSpacing
      BY <1>9, <2>3
    <3> HIDE DEF lesser
    <3>2. QED
      BY <2>1, <2>4, <3>1
  <2>6. call.at - call.window <= stored[k].at /\ stored[k].at < call.at
    BY <2>1, <2>2, <2>4, <2>5
  <2>7. QED
    BY <2>2, <2>6 DEF InWindow
<1>10. WarmsUp'
  <2>1. answered'.samples = returned /\ answered'.call = call /\ answered'.earlier = Old
    BY <1>6
  <2>2. \A i \in 1..Len(returned) : returned[i].uid = call.uid
    BY <1>8, SampleTypes
  <2>3. \A i \in 1 .. Len(returned) - 1 :
           returned[i + 1].at - returned[i].at >= observationSpacing
    <3>1. \A i \in 1 .. Len(returned) - 1 :
             i \in 1..Len(returned) /\ i + 1 \in 1..Len(returned) /\ i < i + 1
      BY <1>8
    <3>2. QED
      BY <1>8, <3>1 DEF Spaced
  <2>4. returned[Len(returned)].at = call.at
    BY <1>4, <1>8
  <2>5. ASSUME NEW n \in Old,
               call.at - n.at \in observationSpacing ..
                                  Min({n.window, call.window}) - observationSpacing
        PROVE  Len(returned) >= 2
    <3>1. n.at \in Int /\ n.window \in Nat /\ Min({n.window, call.window}) \in Nat
      BY <1>1, <1>7, LesserOfTwo
    <3>2. /\ observationSpacing <= call.at - n.at
          /\ call.at - n.at <= Min({n.window, call.window}) - observationSpacing
      BY <1>1, <1>2, <2>5, <3>1
    <3>3. PICK k \in 1..Len(stored) :
              /\ InWindow(stored[k], call.window, call.at)
              /\ n.at - observationSpacing < stored[k].at /\ stored[k].at <= n.at
      BY <1>9, <3>2
    <3>4. stored[k].at \in Int /\ call.at \in Int /\ observationSpacing \in Int
      BY <1>1, <1>2, <1>3, SampleTypes
    <3>5. stored[k].at <= call.at - observationSpacing
      BY <3>1, <3>2, <3>3, <3>4
    <3>6. QED
      BY <1>8, <3>3, <3>5
  <2>6. DOMAIN returned = 1..Len(returned)
    BY <1>8
  <2>7. QED
    BY <1>8, <2>1, <2>2, <2>3, <2>4, <2>5, <2>6 DEF WarmsUp
<1> DEFINE shorter == {[n EXCEPT !.window = Min({@, call.window})] : n \in Old}
           since == {n \in shorter : call.at - n.at <= n.window - observationSpacing}
           note == [uid |-> call.uid, last |-> call.at,
                    accepted |-> since \cup {[at |-> call.at, window |-> call.window]}]
<1>11. noted' = [other \in Targets |->
            IF other = t THEN note
            ELSE IF history'[other] = Forgotten /\ history[other] # Forgotten /\ Evictable(other, t)
            THEN Nothing ELSE noted[other]]
  BY <1>6 DEF Note, Old
<1>12. \A m \in note.accepted : m \in [at : Int, window : Nat] /\ HasAnchor(kept, m)
  <2>1. ASSUME NEW m \in since PROVE m \in [at : Int, window : Nat] /\ HasAnchor(kept, m)
    <3>1. PICK n \in Old : m = [n EXCEPT !.window = Min({@, call.window})]
      OBVIOUS
    <3>2. n \in [at : Int, window : Nat] /\ Min({n.window, call.window}) \in Nat
      BY <1>1, <1>7, LesserOfTwo
    <3>3. /\ m \in [at : Int, window : Nat]
          /\ m.at = n.at /\ m.window = Min({n.window, call.window})
      BY <3>1, <3>2
    <3>4. call.at - n.at <= Min({n.window, call.window}) - observationSpacing
      BY <3>3
    <3>5. PICK k \in 1..Len(stored) :
              /\ InWindow(stored[k], call.window, call.at)
              /\ n.at - observationSpacing < stored[k].at /\ stored[k].at <= n.at
      BY <1>9, <3>4
    <3>6. PICK j \in 1..Len(kept) : kept[j] = stored[k]
      BY <1>8, <3>5
    <3>7. QED
      BY <3>3, <3>5, <3>6 DEF HasAnchor
  <2>2. DEFINE m == [at |-> call.at, window |-> call.window]
  <2>3. m \in [at : Int, window : Nat] /\ HasAnchor(kept, m)
    BY <1>1, <1>8 DEF HasAnchor
  <2>4. QED
    BY <2>1, <2>3
<1> HIDE DEF note, kept, returned
<1>13. Kept(history'[t], noted'[t])
  <2>1. history'[t] = new /\ noted'[t] = note
    BY <1>1, <1>5, <1>11
  <2>2. note.uid = call.uid /\ note.last = call.at
    BY DEF note
  <2>3. new.uid = call.uid /\ new.lastUsed = call.at /\ new.samples = kept
    BY DEF kept
  <2>4. QED
    BY <1>1, <1>8, <1>12, <2>1, <2>2, <2>3 DEF Kept
<1>14. ASSUME NEW s \in Targets, s # t PROVE KeptOrNothing(history'[s], noted'[s])
  <2>1. KeptOrNothing(history[s], noted[s])
    BY DEF ProviderInv
  <2>2. CASE s \in evicted
    <3>1. /\ history[t] = Forgotten /\ Cardinality(Remembered) >= maxTargets
          /\ s \in EvictOldest(Remembered)
      BY <1>5, <2>2
    <3>2. noted[s] # Nothing /\ Evictable(s, t)
      BY <1>1, <3>1, EvictedIsEvictable
    <3>3. history'[s] = Forgotten /\ history[s] # Forgotten
      BY <1>5, <1>14, <2>1, <2>2, <3>2 DEF KeptOrNothing, Kept, Forgotten
    <3>4. noted'[s] = Nothing
      BY <1>11, <1>14, <3>2, <3>3
    <3>5. QED
      BY <3>3, <3>4 DEF KeptOrNothing
  <2>3. CASE s \notin evicted
    <3>1. history'[s] = history[s]
      BY <1>5, <1>14, <2>3
    <3>2. noted'[s] = noted[s]
      BY <1>11, <1>14, <3>1
    <3>3. QED
      BY <2>1, <3>1, <3>2
  <2>4. QED
    BY <2>2, <2>3
<1>15. ProviderTyped'
  <2>1. DOMAIN history' = Targets
    BY <1>5
  <2>2. DOMAIN noted' = Targets
    BY <1>11
  <2>3. QED
    BY <1>6, <2>1, <2>2 DEF ProviderInv, ProviderTyped, Callers
<1>16. QED
  BY <1>10, <1>13, <1>14, <1>15 DEF ProviderInv, KeptOrNothing

(***************************************************************************)
(* The samples that the provider hands to the predictor are those that it  *)
(* promises, in every answer, and the warm-up of a target is put off only  *)
(* by a failure that counts as one or a wall clock set back.               *)
(***************************************************************************)
THEOREM WarmsUpHolds ==
    ASSUME ProviderParameters PROVE ProviderSpec => []WarmsUp
<1>1. ProviderInit => ProviderInv
  BY ProviderStarts
<1>2. ProviderInv /\ [ProviderNext]_providerVars => ProviderInv'
  BY StillPreserves, FailPreserves, AcceptPreserves DEF ProviderNext
<1>3. ProviderInv => WarmsUp
  BY DEF ProviderInv
<1>4. QED
  BY <1>1, <1>2, <1>3, PTL DEF ProviderSpec
-----------------------------------------------------------------------------
(***************************************************************************)
(* The type invariant, with the two bounds it holds: no more targets are   *)
(* remembered than maxTargets, and no gate is held twice.  The parts:      *)
(***************************************************************************)
ClockTyped ==
    /\ clock \in 0..MaxTime /\ scenario \in Scenarios /\ live \in [Targets -> Nat]
    /\ left \in [calls : 0..scenario.calls, disturbances : 0..scenario.disturbances]

SamplesUntil(u) == [at : 0..MaxTime, uid : {u}]

HistoryTyped(entry, newest) ==
    entry # Forgotten =>
       /\ entry.uid \in 1..newest /\ entry.lastUsed \in 0..MaxTime
       /\ entry.samples \in Seq(SamplesUntil(entry.uid))

CallTyped(call) ==
    call # Idle => /\ call.target \in Targets /\ call.uid \in 1..live[call.target]
                   /\ call.at \in 0..MaxTime

Bounded == Cardinality(Remembered) <= maxTargets

OnePerGate ==
    \A c, other \in Callers : c # other /\ GateHeld(c) /\ GateHeld(other) =>
       gateOf[calls[c].target] # gateOf[calls[other].target]

TypeInv ==
    /\ ClockTyped /\ Bounded /\ OnePerGate
    /\ DOMAIN history = Targets /\ \A t \in Targets : HistoryTyped(history[t], live[t])
    /\ DOMAIN calls = Callers /\ \A c \in Callers : CallTyped(calls[c])

\* Before the first call the types and the bounds hold.
LEMMA TypesStart ==
    ASSUME ProviderParameters, ProviderInit
    PROVE  TypeInv
<1>1. Remembered = {} /\ Cardinality({}) = 0
  BY FS_EmptySet DEF ProviderInit, Remembered
<1>2. Bounded
  BY <1>1 DEF Bounded, ProviderParameters
<1>3. ClockTyped
  BY DEF ProviderInit, ProviderParameters, ClockTyped
<1>4. OnePerGate
  BY DEF ProviderInit, OnePerGate, GateHeld, Idle
<1>5. QED
  BY <1>2, <1>3, <1>4 DEF TypeInv, ProviderInit, HistoryTyped, CallTyped

\* What the steps that take no observation do to the clock, the targets and the calls left.
LEMMA ClockStays ==
    ASSUME ProviderParameters, ClockTyped, ProviderNext
    PROVE  ClockTyped' /\ \A t \in Targets : live[t] <= live'[t]
<1>1. /\ clock \in 0..MaxTime /\ live \in [Targets -> Nat] /\ MaxTime \in Nat
      /\ scenario.targets \subseteq Targets
      /\ scenario.calls \in Nat /\ scenario.disturbances \in Nat
  BY DEF ClockTyped, ProviderParameters
<1>2. scenario' = scenario
  BY DEF ProviderNext, Call, Acquire, GiveUp, Fail, Accept, Tick, SetBack, Replace, Disturb, world
<1>3. \/ clock' = clock
      \/ clock < MaxTime /\ clock' = clock + 1
      \/ clock' \in 0 .. clock - 1
  BY Zenon DEF ProviderNext, Call, Acquire, GiveUp, Fail, Accept, Tick, SetBack, Replace,
               Disturb, world
<1>4. live' = live \/ \E t \in scenario.targets : live' = [live EXCEPT ![t] = @ + 1]
  BY Zenon DEF ProviderNext, Call, Acquire, GiveUp, Fail, Accept, Tick, SetBack, Replace,
               Disturb, world
<1>5. \/ left' = left
      \/ left.calls > 0 /\ left' = [left EXCEPT !.calls = @ - 1]
      \/ left.disturbances > 0 /\ left' = [left EXCEPT !.disturbances = @ - 1]
  BY Zenon DEF ProviderNext, Call, Acquire, GiveUp, Fail, Accept, Tick, SetBack, Replace,
               Disturb, world
<1>6. clock' \in 0..MaxTime
  BY <1>1, <1>3
<1>7. live' \in [Targets -> Nat] /\ \A t \in Targets : live[t] <= live'[t]
  BY <1>1, <1>4
<1>8. left' \in [calls : 0..scenario.calls, disturbances : 0..scenario.disturbances]
  BY <1>1, <1>5 DEF ClockTyped
<1>9. QED
  BY <1>2, <1>6, <1>7, <1>8 DEF ClockTyped

\* A call is made, passes its gate if nobody else is behind it, or ends.
LEMMA CallsStay ==
    ASSUME ProviderParameters, TypeInv, ProviderNext
    PROVE  /\ DOMAIN calls' = Callers' /\ \A c \in Callers' : CallTyped(calls[c])'
           /\ OnePerGate'
<1>1. /\ Callers' = Callers /\ DOMAIN calls = Callers
      /\ scenario.targets \subseteq Targets /\ \A t \in Targets : live[t] <= live'[t]
      /\ live \in [Targets -> Nat] /\ live' \in [Targets -> Nat] /\ clock \in 0..MaxTime
      /\ MaxTime \in Nat
  <2>1. scenario' = scenario
    BY DEF ProviderNext, Call, Acquire, GiveUp, Fail, Accept, Tick, SetBack, Replace, Disturb, world
  <2>2. QED
    BY <2>1, ClockStays DEF TypeInv, ClockTyped, ProviderParameters, Callers
<1>2. \A c \in Callers : calls'[c] = calls[c] => CallTyped(calls[c])'
  <2>1. ASSUME NEW c \in Callers, calls[c] # Idle
        PROVE  /\ calls[c].target \in Targets /\ calls[c].at \in 0..MaxTime
               /\ calls[c].uid \in 1..live'[calls[c].target]
    BY <1>1, <2>1 DEF TypeInv, CallTyped
  <2>2. QED
    BY <2>1 DEF CallTyped
<1>3. CASE \E c \in Callers : Call(c)
  <2>1. PICK c \in Callers : Call(c)
    BY <1>3
  <2>2. PICK t \in scenario.targets : \E window \in scenario.windows : \E uid \in 1..live[t] :
           calls' = [calls EXCEPT ![c] = [phase |-> "waiting", target |-> t, uid |-> uid,
                                          window |-> window, at |-> 0]]
    BY <2>1 DEF Call
  <2>3. PICK window \in scenario.windows, uid \in 1..live[t] :
           calls' = [calls EXCEPT ![c] = [phase |-> "waiting", target |-> t, uid |-> uid,
                                          window |-> window, at |-> 0]]
    BY <2>2
  <2>4. /\ calls'[c] = [phase |-> "waiting", target |-> t, uid |-> uid, window |-> window, at |-> 0]
        /\ \A other \in Callers \ {c} : calls'[other] = calls[other]
    BY <1>1, <2>3
  <2>5. t \in Targets /\ uid \in 1..live'[t] /\ 0 \in 0..MaxTime
    BY <1>1
  <2>6. CallTyped(calls[c])'
    BY <2>4, <2>5 DEF CallTyped
  <2>7. OnePerGate'
    <3>1. \A other \in Callers : GateHeld(other)' => other # c /\ GateHeld(other)
                                                     /\ calls'[other] = calls[other]
      BY <2>4 DEF GateHeld
    <3>2. QED
      BY <1>1, <3>1 DEF OnePerGate, TypeInv
  <2>8. QED
    BY <1>1, <1>2, <2>3, <2>4, <2>6, <2>7
<1>4. CASE \E c \in Callers : Acquire(c)
  <2>1. PICK c \in Callers : Acquire(c)
    BY <1>4
  <2>2. /\ calls' = [calls EXCEPT ![c] = [calls[c] EXCEPT !.phase = "observing", !.at = clock]]
        /\ GateFree(calls[c].target) /\ calls[c].phase = "waiting" /\ UNCHANGED live
    BY <1>1, <2>1 DEF Acquire, world
  <2>3. /\ calls'[c] = [calls[c] EXCEPT !.phase = "observing", !.at = clock]
        /\ \A other \in Callers \ {c} : calls'[other] = calls[other]
    BY <1>1, <2>2
  <2>4. calls[c] # Idle
    BY <2>2 DEF Idle
  <2>5. /\ calls'[c].target = calls[c].target /\ calls'[c].uid = calls[c].uid
        /\ calls'[c].at = clock \/ calls'[c].at = calls[c].at
    BY <2>3
  <2>6. CallTyped(calls[c])'
    BY <1>1, <2>2, <2>4, <2>5 DEF CallTyped, TypeInv
  <2>7. ASSUME NEW a \in Callers, NEW b \in Callers, a # b, GateHeld(a)', GateHeld(b)'
        PROVE  gateOf[calls'[a].target] # gateOf[calls'[b].target]
    <3>1. CASE a = c
      BY <2>2, <2>3, <2>5, <2>7, <3>1 DEF GateFree, GateHeld
    <3>2. CASE b = c
      BY <2>2, <2>3, <2>5, <2>7, <3>2 DEF GateFree, GateHeld
    <3>3. CASE a # c /\ b # c
      BY <2>3, <2>7, <3>3 DEF GateHeld, OnePerGate, TypeInv
    <3>4. QED
      BY <3>1, <3>2, <3>3
  <2>8. QED
    BY <1>1, <1>2, <2>2, <2>3, <2>6, <2>7 DEF OnePerGate
<1>5. CASE \E c \in Callers : calls' = [calls EXCEPT ![c] = Idle]
  <2>1. PICK c \in Callers : calls' = [calls EXCEPT ![c] = Idle]
    BY <1>5
  <2>2. calls'[c] = Idle /\ \A other \in Callers \ {c} : calls'[other] = calls[other]
    BY <1>1, <2>1
  <2>3. \A other \in Callers : GateHeld(other)' => GateHeld(other) /\ calls'[other] = calls[other]
    BY <2>2 DEF GateHeld, Idle
  <2>4. OnePerGate'
    BY <1>1, <2>3 DEF OnePerGate, TypeInv
  <2>5. CallTyped(calls[c])'
    BY <2>2 DEF CallTyped
  <2>6. QED
    BY <1>1, <1>2, <2>1, <2>2, <2>4, <2>5
<1>6. CASE UNCHANGED calls
  BY <1>1, <1>2, <1>6 DEF OnePerGate, GateHeld, TypeInv
<1>7. QED
  BY <1>3, <1>4, <1>5, <1>6 DEF ProviderNext, GiveUp, Fail, Accept, Tick, SetBack, Replace, Disturb

\* What record() keeps are samples it had and the one it is given.
LEMMA RecordKeepsTypes ==
    ASSUME NEW S, NEW samples \in Seq(S), NEW span, NEW taken \in S
    PROVE  Record(samples, span, taken).kept \in Seq(S)
<1>1. Retained(samples, span, taken.at) \in Seq(S)
  BY RetainedFacts
<1>2. Append(Retained(samples, span, taken.at), taken) \in Seq(S)
  BY <1>1
<1>3. QED
  BY <1>1, <1>2 DEF Record

\* An acceptance remembers its target, and as many others as there is room for.
LEMMA AcceptKeepsHistory ==
    ASSUME ProviderParameters, TypeInv, NEW c \in Callers, Accept(c)
    PROVE  /\ DOMAIN history' = Targets /\ Bounded'
           /\ \A t \in Targets : HistoryTyped(history[t], live[t])'
<1> DEFINE call == calls[c]
           t == call.target
           stored == IF history[t].uid = call.uid THEN history[t].samples ELSE <<>>
           taken == [at |-> call.at, uid |-> call.uid]
           kept == Record(stored, call.window, taken).kept
           new == [uid |-> call.uid, samples |-> kept, lastUsed |-> call.at]
<1>1. /\ t \in Targets /\ call.uid \in 1..live[t] /\ call.at \in 0..MaxTime
      /\ live \in [Targets -> Nat] /\ IsFiniteSet(Targets) /\ maxTargets \in Nat
  BY DEF Accept, GateHeld, Idle, TypeInv, CallTyped, ClockTyped, ProviderParameters
<1>2. PICK evicted \in IF history[t] = Forgotten /\ Cardinality(Remembered) >= maxTargets
                       THEN {{oldest} : oldest \in EvictOldest(Remembered)} ELSE {{}} :
         history' = [other \in Targets |-> IF other = t THEN new
                                           ELSE IF other \in evicted THEN Forgotten
                                           ELSE history[other]]
  BY DEF Accept
<1>3. UNCHANGED live
  BY DEF Accept, world
<1>4. kept \in Seq(SamplesUntil(call.uid))
  <2>1. taken \in SamplesUntil(call.uid)
    BY <1>1 DEF SamplesUntil
  <2>2. stored \in Seq(SamplesUntil(call.uid))
    <3>1. CASE history[t].uid = call.uid
      <4>1. history[t] # Forgotten
        BY <1>1, <3>1 DEF Forgotten
      <4>2. QED
        BY <1>1, <3>1, <4>1 DEF TypeInv, HistoryTyped
    <3>2. CASE history[t].uid # call.uid
      BY <3>2
    <3>3. QED
      BY <3>1, <3>2
  <2> HIDE DEF stored, taken
  <2>3. QED
    BY <2>1, <2>2, RecordKeepsTypes
<1> HIDE DEF kept, stored, taken
<1>5. ASSUME NEW s \in Targets PROVE HistoryTyped(history[s], live[s])'
  <2>1. HistoryTyped(new, live[t])
    BY <1>1, <1>4 DEF HistoryTyped
  <2>2. HistoryTyped(history[s], live[s]) /\ HistoryTyped(Forgotten, live[s])
    BY DEF TypeInv, HistoryTyped
  <2>3. CASE s = t
    <3>1. history'[s] = new /\ live'[s] = live[t]
      BY <1>2, <1>3, <2>3
    <3>2. QED
      BY <2>1, <3>1 DEF HistoryTyped
  <2>4. CASE s # t
    <3>1. history'[s] \in {Forgotten, history[s]} /\ live'[s] = live[s]
      BY <1>2, <1>3, <2>4
    <3>2. QED
      BY <2>2, <3>1 DEF HistoryTyped
  <2>5. QED
    BY <2>3, <2>4
<1>6. IsFiniteSet(Remembered) /\ Cardinality(Remembered) \in Nat
  BY <1>1, FS_Subset, FS_CardinalityType DEF Remembered
<1>7. /\ Remembered \subseteq Targets /\ (history[t] = Forgotten <=> t \notin Remembered)
      /\ Remembered' = {s \in Targets : history'[s] # Forgotten}
  BY <1>1 DEF Remembered
<1>8. Bounded'
  <2>1. CASE history[t] # Forgotten
    <3>1. Remembered' \subseteq Remembered
      BY <1>2, <1>7, <2>1 DEF Remembered
    <3>2. Cardinality(Remembered') <= Cardinality(Remembered)
      BY <1>6, <3>1, FS_Subset
    <3>3. Cardinality(Remembered') \in Nat
      BY <1>6, <3>1, FS_Subset, FS_CardinalityType
    <3>4. QED
      BY <1>1, <1>6, <3>2, <3>3 DEF TypeInv, Bounded
  <2>2. CASE history[t] = Forgotten /\ ~(Cardinality(Remembered) >= maxTargets)
    <3> DEFINE more == Remembered \cup {t}
    <3>1. IsFiniteSet(more) /\ Cardinality(more) = Cardinality(Remembered) + 1
      BY <1>6, <1>7, <2>2, FS_AddElement
    <3>2. Remembered' \subseteq more
      BY <1>2, <1>7, <2>2 DEF Remembered
    <3> HIDE DEF more
    <3>3. Cardinality(Remembered') <= Cardinality(more) /\ Cardinality(Remembered') \in Nat
      BY <3>1, <3>2, FS_Subset, FS_CardinalityType
    <3>4. QED
      BY <1>1, <1>6, <2>2, <3>1, <3>3 DEF Bounded
  <2>3. CASE history[t] = Forgotten /\ Cardinality(Remembered) >= maxTargets
    <3>1. PICK oldest \in EvictOldest(Remembered) : evicted = {oldest}
      BY <1>2, <2>3
    <3>2. oldest \in Remembered
      BY <3>1 DEF EvictOldest
    <3> DEFINE rest == Remembered \ {oldest}
               more == rest \cup {t}
    <3>3. IsFiniteSet(rest) /\ Cardinality(rest) = Cardinality(Remembered) - 1 /\ t \notin rest
      BY <1>6, <1>7, <2>3, <3>2, FS_RemoveElement
    <3>4. IsFiniteSet(more) /\ Cardinality(more) = Cardinality(rest) + 1
      <4> HIDE DEF rest
      <4>1. QED
        BY <3>3, FS_AddElement
    <3>5. Remembered' \subseteq more
      BY <1>2, <1>7, <2>3, <3>1 DEF Remembered
    <3> HIDE DEF more, rest
    <3>6. Cardinality(Remembered') <= Cardinality(more) /\ Cardinality(Remembered') \in Nat
      BY <3>4, <3>5, FS_Subset, FS_CardinalityType
    <3>7. QED
      BY <1>1, <1>6, <3>3, <3>4, <3>6 DEF TypeInv, Bounded
  <2>4. QED
    BY <2>1, <2>2, <2>3
<1>9. QED
  BY <1>2, <1>5, <1>8

\* Every other step remembers no more than before.
LEMMA HistoryStays ==
    ASSUME ProviderParameters, TypeInv, ProviderNext
    PROVE  /\ DOMAIN history' = Targets /\ Bounded'
           /\ \A t \in Targets : HistoryTyped(history[t], live[t])'
<1>1. CASE \E c \in Callers : Accept(c)
  BY <1>1, AcceptKeepsHistory
<1>2. CASE \/ UNCHANGED history
           \/ \E t \in Targets : history' = [history EXCEPT ![t] = Forgotten]
  <2>1. /\ DOMAIN history' = Targets
        /\ \A s \in Targets : history'[s] = history[s] \/ history'[s] = Forgotten
    BY <1>2 DEF TypeInv
  <2>2. /\ live \in [Targets -> Nat] /\ live' \in [Targets -> Nat]
        /\ \A t \in Targets : live[t] <= live'[t]
    BY ClockStays DEF TypeInv, ClockTyped
  <2>3. ASSUME NEW s \in Targets, history'[s] # Forgotten
        PROVE  /\ history'[s].uid \in 1..live'[s] /\ history'[s].lastUsed \in 0..MaxTime
               /\ history'[s].samples \in Seq(SamplesUntil(history'[s].uid))
    <3>1. history'[s] = history[s] /\ HistoryTyped(history[s], live[s])
      BY <2>1, <2>3 DEF TypeInv
    <3>2. QED
      BY <2>2, <2>3, <3>1 DEF HistoryTyped
  <2>4. Remembered' \subseteq Remembered
    BY <2>1 DEF Remembered
  <2>5. IsFiniteSet(Remembered)
    BY FS_Subset DEF Remembered, ProviderParameters
  <2>6. /\ Cardinality(Remembered') <= Cardinality(Remembered)
        /\ Cardinality(Remembered') \in Nat /\ Cardinality(Remembered) \in Nat
    BY <2>4, <2>5, FS_Subset, FS_CardinalityType
  <2>7. Bounded'
    BY <2>6 DEF TypeInv, Bounded, ProviderParameters
  <2>8. QED
    BY <2>1, <2>3, <2>7 DEF HistoryTyped
<1>3. ASSUME NEW c \in Callers, Fail(c)
      PROVE  \/ UNCHANGED history
             \/ \E t \in Targets : history' = [history EXCEPT ![t] = Forgotten]
  <2>1. calls[c] # Idle
    BY <1>3 DEF Fail, GateHeld, Idle
  <2>2. calls[c].target \in Targets
    BY <2>1 DEF TypeInv, CallTyped
  <2>3. UNCHANGED history \/ history' = [history EXCEPT ![calls[c].target] = Forgotten]
    BY <1>3, Zenon DEF Fail
  <2>4. QED
    BY <2>2, <2>3
<1>4. QED
  BY <1>1, <1>2, <1>3 DEF ProviderNext, Call, Acquire, GiveUp, Tick, SetBack, Replace, Disturb

(***************************************************************************)
(* The provider keeps its types: the samples of a history are of its one   *)
(* incarnation, no more than maxTargets targets are remembered however     *)
(* many are observed, and at no time are two calls behind one gate.        *)
(***************************************************************************)
THEOREM ProviderTypeCorrect ==
    ASSUME ProviderParameters PROVE ProviderSpec => []ProviderTypeOK
<1>1. ProviderInit => TypeInv
  BY TypesStart
<1>2. TypeInv /\ [ProviderNext]_providerVars => TypeInv'
  <2> SUFFICES ASSUME TypeInv, [ProviderNext]_providerVars PROVE TypeInv'
    OBVIOUS
  <2>1. CASE ProviderNext
    BY <2>1, ClockStays, CallsStay, HistoryStays DEF TypeInv
  <2>2. CASE UNCHANGED providerVars
    BY <2>2 DEF providerVars, TypeInv, ClockTyped, Bounded, OnePerGate, HistoryTyped,
                CallTyped, Remembered, GateHeld, Callers
  <2>3. QED
    BY <2>1, <2>2
<1>3. TypeInv => ProviderTypeOK
  BY DEF TypeInv, ClockTyped, Bounded, OnePerGate, HistoryTyped, SamplesUntil, Remembered,
         ProviderTypeOK
<1>4. QED
  BY <1>1, <1>2, <1>3, PTL DEF ProviderSpec

(***************************************************************************)
(* Two lists that agree but for their first samples: what is retained of   *)
(* them agrees but for those, if they are retained.                        *)
(***************************************************************************)
SameTail(P, R, a, b) ==
    /\ Len(P) - a = Len(R) - b /\ a <= Len(P)
    /\ \A j \in 1 .. Len(P) - a : P[j + a] = R[j + b]

KeepsFirst(P, p, a) == a = 1 => P[1] = p[1]

First(samples, span, now) == IF InWindow(samples[1], span, now) THEN 1 ELSE 0

\* Of two lists that differ in the first sample alone the same others are retained.
LEMMA RetainsAlike ==
    ASSUME NEW S, NEW p \in Seq(S), NEW r \in Seq(S), NEW span, NEW now,
           Len(p) > 0, Len(r) = Len(p), \A i \in 2..Len(p) : r[i] = p[i]
    PROVE  /\ SameTail(Retained(p, span, now), Retained(r, span, now),
                       First(p, span, now), First(r, span, now))
           /\ KeepsFirst(Retained(p, span, now), p, First(p, span, now))
           /\ KeepsFirst(Retained(r, span, now), r, First(r, span, now))
<1> DEFINE n == Len(p)
           a == First(p, span, now)
           b == First(r, span, now)
<1>1. PICK g : IsPass(g, S, p, span, now) /\ Retained(p, span, now) = g[n]
  BY RetainedPass
<1>2. PICK h : IsPass(h, S, r, span, now) /\ Retained(r, span, now) = h[n]
  BY RetainedPass
<1>3. n \in Nat /\ n > 0 /\ a \in {0, 1} /\ b \in {0, 1}
  BY DEF First
<1> DEFINE Alike(P, R) == SameTail(P, R, a, b) /\ KeepsFirst(P, p, a) /\ KeepsFirst(R, r, b)
           T == {i \in 0..n : i > 0 => Alike(g[i], h[i])}
<1>4. Alike(g[1], h[1])
  <2>1. /\ g[1] = IF InWindow(p[1], span, now) THEN <<p[1]>> ELSE <<>>
        /\ h[1] = IF InWindow(r[1], span, now) THEN <<r[1]>> ELSE <<>>
    <3>1. 1 \in 1..n /\ Append(<<>>, p[1]) = <<p[1]>> /\ Append(<<>>, r[1]) = <<r[1]>>
      BY <1>3
    <3>2. /\ g[0] = <<>>
          /\ g[1] = IF InWindow(p[1], span, now) THEN Append(g[1 - 1], p[1]) ELSE g[1 - 1]
      BY <1>1, <3>1 DEF IsPass
    <3>3. /\ h[0] = <<>>
          /\ h[1] = IF InWindow(r[1], span, now) THEN Append(h[1 - 1], r[1]) ELSE h[1 - 1]
      BY <1>2, <3>1 DEF IsPass
    <3>4. g[1 - 1] = <<>> /\ h[1 - 1] = <<>>
      BY <3>2, <3>3
    <3>5. QED
      BY <3>1, <3>2, <3>3, <3>4, Zenon
  <2>2. QED
    BY <2>1 DEF SameTail, KeepsFirst, First
<1>5. ASSUME NEW i \in 2..n, Alike(g[i - 1], h[i - 1]) PROVE Alike(g[i], h[i])
  <2> DEFINE P == g[i - 1]
             R == h[i - 1]
  <2>1. /\ i \in 1..n /\ p[i] = r[i] /\ p[i] \in S /\ i - 1 \in 0..n
    OBVIOUS
  <2>2. /\ P \in Seq(S) /\ R \in Seq(S)
        /\ g[i] = IF InWindow(p[i], span, now) THEN Append(P, p[i]) ELSE P
        /\ h[i] = IF InWindow(p[i], span, now) THEN Append(R, p[i]) ELSE R
    BY <1>1, <1>2, <2>1 DEF IsPass
  <2>3. Alike(P, R)
    BY <1>5
  <2> HIDE DEF P, R, a, b
  <2>4. CASE ~InWindow(p[i], span, now)
    BY <2>2, <2>3, <2>4
  <2>5. CASE InWindow(p[i], span, now)
    <3> DEFINE Q == Append(P, p[i])
               U == Append(R, p[i])
    <3>1. /\ Len(Q) = Len(P) + 1 /\ Q[Len(P) + 1] = p[i] /\ \A j \in 1..Len(P) : Q[j] = P[j]
          /\ Len(U) = Len(R) + 1 /\ U[Len(R) + 1] = p[i] /\ \A j \in 1..Len(R) : U[j] = R[j]
          /\ Len(P) \in Nat /\ Len(R) \in Nat
      BY <2>1, <2>2
    <3> HIDE DEF Q, U
    <3>2. SameTail(Q, U, a, b)
      <4>1. /\ Len(P) - a = Len(R) - b /\ a <= Len(P)
            /\ \A j \in 1 .. Len(P) - a : P[j + a] = R[j + b]
        BY <2>3 DEF SameTail
      <4>2. Len(Q) - a = Len(U) - b /\ a <= Len(Q)
        BY <1>3, <3>1, <4>1
      <4>3. ASSUME NEW j \in 1 .. Len(Q) - a PROVE Q[j + a] = U[j + b]
        <5>1. CASE j = Len(Q) - a
          <6>1. j + a = Len(P) + 1 /\ j + b = Len(R) + 1
            BY <1>3, <3>1, <4>1, <5>1
          <6>2. QED
            BY <3>1, <6>1
        <5>2. CASE j # Len(Q) - a
          <6>1. j \in Int /\ 1 <= j /\ j <= Len(Q) - a /\ Len(Q) - a \in Int
            BY <1>3, <3>1
          <6>2. j <= Len(P) - a /\ j <= Len(R) - b
            BY <1>3, <3>1, <4>1, <5>2, <6>1
          <6>3. j \in 1 .. Len(P) - a /\ j + a \in 1..Len(P) /\ j + b \in 1..Len(R)
            BY <1>3, <3>1, <6>1, <6>2
          <6>4. QED
            BY <3>1, <4>1, <6>3
        <5>3. QED
          BY <5>1, <5>2
      <4>4. QED
        BY <4>2, <4>3 DEF SameTail
    <3>3. KeepsFirst(Q, p, a) /\ KeepsFirst(U, r, b)
      <4>1. (a = 1 => Len(P) >= 1) /\ (b = 1 => Len(R) >= 1)
        BY <1>3, <2>3, <3>1 DEF SameTail
      <4>2. (a = 1 => Q[1] = P[1]) /\ (b = 1 => U[1] = R[1])
        BY <3>1, <4>1
      <4>3. QED
        BY <2>3, <4>2 DEF KeepsFirst
    <3>4. QED
      BY <2>2, <2>5, <3>2, <3>3 DEF Q, U
  <2>6. QED
    BY <2>4, <2>5
<1>6. 0 \in T /\ \A i \in 1..n : i - 1 \in T => i \in T
  <2> HIDE DEF Alike
  <2>1. 0 \in 0..n /\ 1 \in 0..n /\ \A i \in 1..n : i \in 0..n /\ (i = 1 \/ i \in 2..n)
    BY <1>3
  <2>2. QED
    BY <1>4, <1>5, <2>1
<1>7. 0..n \subseteq T
  <2> HIDE DEF T
  <2>1. QED
    BY <1>3, <1>6, IntervalInduction
<1>8. Alike(g[n], h[n])
  <2> HIDE DEF Alike
  <2>1. n \in 0..n
    BY <1>3
  <2>2. QED
    BY <1>3, <1>7, <2>1
<1>9. QED
  BY <1>1, <1>2, <1>8
=============================================================================
