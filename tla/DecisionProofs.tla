--------------------------- MODULE DecisionProofs ---------------------------
(***************************************************************************)
(* The decision arithmetic for every observation, Scale and configuration: *)
(* the safety properties of DecisionCycle as theorems of its Spec.         *)
(***************************************************************************)
EXTENDS DecisionCycle, TLAPS

(***************************************************************************)
(* Multiplication by a natural number is monotone; the solver needs it     *)
(* spelled out.                                                            *)
(***************************************************************************)
LEMMA TimesMonotone ==
    ASSUME NEW t \in Nat, NEW p \in Int, NEW q \in Int, p <= q
    PROVE  t * p <= t * q
<1>1. PICK d \in Nat : q = p + d
  <2>1. q - p \in Nat /\ q = p + (q - p)
    OBVIOUS
  <2>2. QED
    BY <2>1
<1>2. t * q = t * p + t * d
  BY <1>1
<1>3. t * d \in Nat /\ t * p \in Int
  OBVIOUS
<1>4. QED
  BY <1>2, <1>3

(***************************************************************************)
(* Euclidean quotients by the same divisor are ordered as the dividends.   *)
(***************************************************************************)
LEMMA QuotientMonotone ==
    ASSUME NEW t \in Nat \ {0}, NEW x \in Nat, NEW y \in Nat, x <= y,
           NEW p \in Int, NEW q \in Int, NEW r \in 0..(t - 1), NEW s \in 0..(t - 1),
           x = t * p + r, y = t * q + s
    PROVE  p <= q
<1>1. SUFFICES ASSUME q + 1 <= p PROVE FALSE
  OBVIOUS
<1>2. t * (q + 1) <= t * p
  BY <1>1, q + 1 \in Int, t \in Nat, TimesMonotone
<1>3. t * (q + 1) = t * q + t
  OBVIOUS
<1>4. t * q \in Int /\ t * p \in Int
  OBVIOUS
<1>5. QED
  BY <1>2, <1>3, <1>4

(***************************************************************************)
(* math.Ceil of a quotient is a natural number and monotone in its         *)
(* numerator.                                                              *)
(***************************************************************************)
LEMMA CeilDivMonotone ==
    ASSUME NEW t \in Nat \ {0}, NEW a \in Nat, NEW b \in Nat, a <= b
    PROVE  /\ CeilDiv(a, t) \in Nat
           /\ CeilDiv(b, t) \in Nat
           /\ CeilDiv(a, t) <= CeilDiv(b, t)
<1> DEFINE x == a + t - 1
           y == b + t - 1
<1>1. /\ x \in Nat /\ y \in Nat /\ x <= y
  OBVIOUS
<1> HIDE DEF x, y
<1>2. /\ x \div t \in Int /\ y \div t \in Int
      /\ x = t * (x \div t) + (x % t) /\ y = t * (y \div t) + (y % t)
      /\ x % t \in 0..(t - 1) /\ y % t \in 0..(t - 1)
  BY <1>1
<1>3. x \div t <= y \div t
  BY <1>1, <1>2, QuotientMonotone
<1>4. x \div t >= 0
  BY <1>1
<1>5. y \div t >= 0
  BY <1>1
<1>6. QED
  BY <1>2, <1>3, <1>4, <1>5 DEF CeilDiv, x, y

(***************************************************************************)
(* The clamp lands inside the bounds, is monotone, and leaves a count that *)
(* is already inside alone.                                                *)
(***************************************************************************)
LEMMA ClampFacts ==
    ASSUME NEW x \in Int, NEW y \in Int, NEW lo \in Nat, NEW hi \in Nat \ {0}, lo <= hi
    PROVE  /\ Clamp(x, lo, hi) \in Floor(lo) .. hi
           /\ Floor(lo) \in Nat \ {0}
           /\ x <= y => Clamp(x, lo, hi) <= Clamp(y, lo, hi)
           /\ x \in Floor(lo) .. hi => Clamp(x, lo, hi) = x
           /\ x >= Floor(lo) => Clamp(x, lo, hi) <= x
           /\ x <= hi => Clamp(x, lo, hi) >= x
  BY DEF Clamp, Floor, Larger, Smaller

(***************************************************************************)
(* The formula of computeDesiredReplicas returns a count inside the bounds *)
(* and is monotone in the selected CPU.                                    *)
(***************************************************************************)
LEMMA ComputeMonotone ==
    ASSUME NEW o \in Nat, NEW c \in Int, NEW d \in Int, c <= d, NEW t \in Nat \ {0},
           NEW lo \in Nat, NEW hi \in Nat \ {0}, lo <= hi
    PROVE  /\ computeDesiredReplicas(o, c, t, lo, hi) \in Floor(lo) .. hi
           /\ computeDesiredReplicas(o, d, t, lo, hi) \in Floor(lo) .. hi
           /\ computeDesiredReplicas(o, c, t, lo, hi) <= computeDesiredReplicas(o, d, t, lo, hi)
<1> DEFINE p == Larger(c, 0)
           q == Larger(d, 0)
<1>1. p \in Nat /\ q \in Nat /\ p <= q
  BY DEF Larger
<1> HIDE DEF p, q
<1>2. o * p \in Nat /\ o * q \in Nat
  BY <1>1
<1>3. o * p <= o * q
  BY <1>1, TimesMonotone
<1>4. /\ CeilDiv(o * p, t) \in Nat
      /\ CeilDiv(o * q, t) \in Nat
      /\ CeilDiv(o * p, t) <= CeilDiv(o * q, t)
  BY <1>2, <1>3, CeilDivMonotone
<1> DEFINE a == CeilDiv(o * p, t)
           b == CeilDiv(o * q, t)
<1>5. a \in Int /\ b \in Int /\ a <= b
  BY <1>4
<1> HIDE DEF a, b
<1>6. /\ Clamp(a, lo, hi) \in Floor(lo) .. hi
      /\ Clamp(b, lo, hi) \in Floor(lo) .. hi
      /\ Clamp(a, lo, hi) <= Clamp(b, lo, hi)
  BY <1>5, ClampFacts
<1>7. QED
  BY <1>6 DEF computeDesiredReplicas, a, b, p, q

(***************************************************************************)
(* directedRecommendation stays inside the bounds and is monotone in the   *)
(* signal across its three branches.                                       *)
(***************************************************************************)
LEMMA DirectedMonotone ==
    ASSUME NEW o \in Nat, NEW req \in Nat, NEW c \in Int, NEW d \in Int, c <= d,
           NEW t \in Nat \ {0}, NEW lo \in Nat, NEW hi \in Nat \ {0}, lo <= hi
    PROVE  /\ directedRecommendation(o, req, c, t, lo, hi) \in Floor(lo) .. hi
           /\ directedRecommendation(o, req, d, t, lo, hi) \in Floor(lo) .. hi
           /\ directedRecommendation(o, req, c, t, lo, hi)
                 <= directedRecommendation(o, req, d, t, lo, hi)
<1> DEFINE C == computeDesiredReplicas(o, c, t, lo, hi)
           D == computeDesiredReplicas(o, d, t, lo, hi)
           dirC == IF c < t THEN Smaller(C, req) ELSE IF c > t THEN Larger(C, req) ELSE C
           dirD == IF d < t THEN Smaller(D, req) ELSE IF d > t THEN Larger(D, req) ELSE D
<1>1. C \in Int /\ D \in Int /\ C <= D
  <2>1. Floor(lo) \in Nat
    BY DEF Floor, Larger
  <2>2. /\ C \in Floor(lo) .. hi
        /\ D \in Floor(lo) .. hi
        /\ C <= D
    BY ComputeMonotone
  <2> HIDE DEF C, D
  <2>3. QED
    BY <2>1, <2>2
<1> HIDE DEF C, D
<1>2. dirC \in Int /\ dirD \in Int /\ dirC <= dirD
  BY <1>1 DEF Smaller, Larger
<1>3. /\ Clamp(dirC, lo, hi) \in Floor(lo) .. hi
      /\ Clamp(dirD, lo, hi) \in Floor(lo) .. hi
      /\ Clamp(dirC, lo, hi) <= Clamp(dirD, lo, hi)
  BY <1>2, ClampFacts
<1>4. QED
  BY <1>3 DEF directedRecommendation, C, D
-----------------------------------------------------------------------------
(***************************************************************************)
(* The inductive invariant: an evaluation is well typed, made from a valid *)
(* configuration, and its signal, recommendation and skip reason are the   *)
(* functions of its inputs that the code computes.                         *)
(***************************************************************************)
Consistent ==
    decision.evaluated =>
        /\ decision.minimum <= decision.maximum
        /\ decision.predicted <= Larger(0, (13 * decision.current) \div 10)
        /\ decision.signal = selectDecisionSignal(decision.mode, decision.current,
                                                  decision.predicted, decision.target)
        /\ decision.desired = RecommendFor(decision, decision.signal)
        /\ decision.skip = scalingSkipReason(decision.desired, decision.requested,
                              decision.signal, decision.target,
                              decision.minimum, decision.maximum)

IInv == TypeOK /\ Consistent

(***************************************************************************)
(* The signal is an integer and a bounded forecast stays below its ceiling.*)
(***************************************************************************)
LEMMA SignalFacts ==
    ASSUME NEW mode \in Modes, NEW current \in Nat, NEW raw \in Int, NEW target \in Nat \ {0}
    PROVE  /\ capPrediction(raw, current) \in Int
           /\ capPrediction(raw, current) <= Larger(0, (13 * current) \div 10)
           /\ selectDecisionSignal(mode, current, capPrediction(raw, current), target) \in Int
<1>1. /\ capPrediction(raw, current) \in Int
      /\ capPrediction(raw, current) <= Larger(0, (13 * current) \div 10)
  BY DEF capPrediction, Smaller, Larger
<1> DEFINE predicted == capPrediction(raw, current)
<1> HIDE DEF predicted
<1>2. predicted \in Int
  BY <1>1 DEF predicted
<1>3. selectDecisionSignal(mode, current, predicted, target) \in Int
  <2>1. CASE mode = "Current"
    BY <2>1 DEF selectDecisionSignal
  <2>2. CASE mode = "Hybrid"
    BY <2>2, <1>2 DEF selectDecisionSignal, Smaller, Larger
  <2>3. CASE mode # "Current" /\ mode # "Hybrid"
    BY <2>3, <1>2 DEF selectDecisionSignal
  <2>4. QED
    BY <2>1, <2>2, <2>3
<1>4. QED
  BY <1>1, <1>3 DEF predicted

(***************************************************************************)
(* The skip reason is one of the code's three strings.                     *)
(***************************************************************************)
LEMMA SkipIsReason ==
    ASSUME NEW final, NEW requested, NEW cpu, NEW target, NEW lo, NEW hi
    PROVE  scalingSkipReason(final, requested, cpu, target, lo, hi) \in SkipReasons
  BY DEF scalingSkipReason, SkipReasons

(***************************************************************************)
(* Every evaluation of the policy is consistent, whatever the constants.   *)
(***************************************************************************)
THEOREM DecisionInvariant == Spec => []IInv
<1>1. Init => IInv
  BY DEF Init, IInv, TypeOK, Consistent, NoDecision
<1>2. ASSUME IInv, [Next]_decision
      PROVE  IInv'
  <2>1. CASE UNCHANGED decision
    BY <1>2, <2>1 DEF IInv, TypeOK, Consistent, RecommendFor
  <2>2. ASSUME NEW mode \in Modes, NEW current \in Cpus, NEW raw \in Forecasts,
               NEW target \in Targets, NEW observed \in Replicas, NEW requested \in Replicas,
               NEW bounds \in Bounds,
               Evaluate(mode, current, raw, target, observed, requested, bounds)
        PROVE  IInv'
    <3> DEFINE predicted == capPrediction(raw, current)
               signal == selectDecisionSignal(mode, current, predicted, target)
               desired == Recommend(signal, observed, requested, target, bounds)
               skip == scalingSkipReason(desired, requested, signal, target,
                                         bounds[1], bounds[2])
    <3>1. /\ current \in Nat /\ raw \in Int /\ target \in Nat \ {0}
          /\ observed \in Nat /\ requested \in Nat
          /\ bounds[1] \in Nat /\ bounds[2] \in Nat \ {0} /\ bounds[1] <= bounds[2]
      BY CpusAssumption, ForecastsAssumption, TargetsAssumption, ReplicasAssumption,
         BoundsAssumption
    <3>2. /\ predicted \in Int
          /\ predicted <= Larger(0, (13 * current) \div 10)
          /\ signal \in Int
      BY <3>1, SignalFacts
    <3>3. desired \in Nat \ {0}
      <4> HIDE DEF predicted, signal
      <4>1. directedRecommendation(observed, requested, signal, target, bounds[1], bounds[2])
              \in Floor(bounds[1]) .. bounds[2]
        <5>1. signal \in Int /\ signal <= signal
          BY <3>2
        <5> DEFINE lo == bounds[1]
                   hi == bounds[2]
        <5>2. lo \in Nat /\ hi \in Nat \ {0} /\ lo <= hi
          BY <3>1
        <5> HIDE DEF lo, hi
        <5>3. directedRecommendation(observed, requested, signal, target, lo, hi)
                \in Floor(lo) .. hi
          BY <3>1, <5>1, <5>2, DirectedMonotone
        <5>4. QED
          BY <5>3 DEF lo, hi
      <4>2. QED
        BY <4>1, <3>1 DEF Floor, Larger, Recommend
    <3>4. skip \in SkipReasons
      BY SkipIsReason
    <3>5. decision' = [evaluated |-> TRUE, mode |-> mode, current |-> current,
                       predicted |-> predicted, target |-> target, observed |-> observed,
                       requested |-> requested, minimum |-> bounds[1],
                       maximum |-> bounds[2], signal |-> signal, desired |-> desired,
                       skip |-> skip]
      BY <2>2 DEF Evaluate
    <3> HIDE DEF predicted, skip
    <3>6. TypeOK'
      BY <3>1, <3>2, <3>3, <3>4, <3>5 DEF TypeOK, Decisions
    <3>7. Consistent'
      <4>1. RecommendFor(decision', signal) = desired
        BY <3>5 DEF RecommendFor, Recommend
      <4>2. QED
        BY <3>1, <3>2, <3>5, <4>1 DEF Consistent, RecommendFor, skip
    <3>8. QED
      BY <3>6, <3>7 DEF IInv
  <2>3. QED
    BY <1>2, <2>1, <2>2 DEF Next
<1>3. QED
  BY <1>1, <1>2, PTL DEF Spec

(***************************************************************************)
(* An evaluation has its types: a recommendation is at least 1 and its     *)
(* skip reason is one of the code's (scaling_decision.go).                 *)
(***************************************************************************)
THEOREM DecisionTypeCorrect == Spec => []TypeOK
<1>1. IInv => TypeOK
  BY DEF IInv
<1>2. QED
  BY <1>1, DecisionInvariant, PTL
-----------------------------------------------------------------------------
(***************************************************************************)
(* The typed view of an evaluation that the theorems below start from.     *)
(***************************************************************************)
LEMMA EvaluationFacts ==
    ASSUME IInv, decision.evaluated
    PROVE  /\ decision.mode \in Modes /\ decision.current \in Nat
           /\ decision.predicted \in Int /\ decision.target \in Nat \ {0}
           /\ decision.observed \in Nat /\ decision.requested \in Nat
           /\ decision.minimum \in Nat /\ decision.maximum \in Nat \ {0}
           /\ decision.minimum <= decision.maximum
           /\ decision.signal \in Int /\ decision.desired \in Nat \ {0}
<1>1. decision # NoDecision
  BY DEF NoDecision
<1>2. decision \in Decisions
  BY <1>1 DEF IInv, TypeOK
<1>3. decision.minimum <= decision.maximum
  BY DEF IInv, Consistent
<1>4. QED
  BY <1>2, <1>3 DEF Decisions

(***************************************************************************)
(* RecommendFor, for any signal, lands inside the bounds and is monotone.  *)
(***************************************************************************)
LEMMA RecommendForMonotone ==
    ASSUME IInv, decision.evaluated, NEW c \in Int, NEW d \in Int, c <= d
    PROVE  /\ RecommendFor(decision, c) \in Floor(decision.minimum) .. decision.maximum
           /\ RecommendFor(decision, d) \in Floor(decision.minimum) .. decision.maximum
           /\ RecommendFor(decision, c) <= RecommendFor(decision, d)
<1> DEFINE lo == decision.minimum
           hi == decision.maximum
           o == decision.observed
           q == decision.requested
           t == decision.target
           R(x) == directedRecommendation(o, q, x, t, lo, hi)
<1>1. /\ o \in Nat /\ q \in Nat /\ t \in Nat \ {0}
      /\ lo \in Nat /\ hi \in Nat \ {0} /\ lo <= hi
  BY EvaluationFacts
<1>2. /\ R(c) \in Floor(lo) .. hi /\ R(d) \in Floor(lo) .. hi /\ R(c) <= R(d)
  <2> HIDE DEF lo, hi, o, q, t
  <2>1. QED
    BY <1>1, DirectedMonotone
<1>3. QED
  BY <1>2 DEF RecommendFor, Recommend

(***************************************************************************)
(* directedRecommendation: the recommendation is monotone in the signal,   *)
(* for every set of utilisations.                                          *)
(***************************************************************************)
THEOREM MonotoneTheorem == Spec => []MonotoneInSignal
<1>1. IInv => MonotoneInSignal
  <2>1. SUFFICES ASSUME IInv, decision.evaluated, NEW cpu \in Cpus, cpu >= decision.signal
                 PROVE  RecommendFor(decision, cpu) >= decision.desired
    BY DEF MonotoneInSignal
  <2>2. cpu \in Int /\ decision.signal \in Int /\ decision.signal <= cpu
    BY <2>1, EvaluationFacts, CpusAssumption
  <2>3. /\ RecommendFor(decision, decision.signal) <= RecommendFor(decision, cpu)
        /\ RecommendFor(decision, decision.signal)
              \in Floor(decision.minimum) .. decision.maximum
        /\ RecommendFor(decision, cpu) \in Floor(decision.minimum) .. decision.maximum
    BY <2>1, <2>2, RecommendForMonotone
  <2>4. decision.desired = RecommendFor(decision, decision.signal)
    BY <2>1 DEF IInv, Consistent
  <2>5. Floor(decision.minimum) \in Nat /\ decision.maximum \in Nat
    BY <2>1, EvaluationFacts DEF Floor, Larger
  <2>6. QED
    BY <2>3, <2>4, <2>5
<1>2. QED
  BY <1>1, DecisionInvariant, PTL

(***************************************************************************)
(* directedRecommendation: the request moves with the signal or not at all,*)
(* except into the bounds.                                                 *)
(***************************************************************************)
LEMMA DirectionStep == IInv => DirectionFollowsSignal
<1>1. SUFFICES ASSUME IInv, decision.evaluated
               PROVE  DirectionFollowsSignal
  BY DEF DirectionFollowsSignal
<1> DEFINE lo == decision.minimum
           hi == decision.maximum
           q == decision.requested
           t == decision.target
           c == decision.signal
           o == decision.observed
           C == computeDesiredReplicas(o, c, t, lo, hi)
           dir == IF c < t THEN Smaller(C, q) ELSE IF c > t THEN Larger(C, q) ELSE C
<1>2. /\ q \in Nat /\ t \in Nat \ {0} /\ c \in Int
      /\ lo \in Nat /\ hi \in Nat \ {0} /\ lo <= hi /\ o \in Nat
  BY <1>1, EvaluationFacts
<1>3. C \in Int
  <2> HIDE DEF lo, hi, t, c, o
  <2>1. C \in Floor(lo) .. hi
    BY <1>2, ComputeMonotone
  <2>2. Floor(lo) \in Nat
    BY <1>2 DEF Floor, Larger
  <2> HIDE DEF C
  <2>3. QED
    BY <2>1, <2>2
<1>4. decision.desired = Clamp(dir, lo, hi)
  BY <1>1 DEF IInv, Consistent, RecommendFor, Recommend, directedRecommendation
<1> HIDE DEF lo, hi, q, t, c, C
<1>5. (c < t /\ q >= Floor(lo)) => Clamp(dir, lo, hi) <= q
  BY <1>2, <1>3 DEF Clamp, Floor, Larger, Smaller
<1>6. (c > t /\ q <= hi) => Clamp(dir, lo, hi) >= q
  BY <1>2, <1>3 DEF Clamp, Floor, Larger, Smaller
<1>7. QED
  BY <1>4, <1>5, <1>6 DEF DirectionFollowsSignal, lo, hi, q, t, c

(***************************************************************************)
(* The same for every state of every behaviour.                            *)
(***************************************************************************)
THEOREM DirectionTheorem == Spec => []DirectionFollowsSignal
  BY DirectionStep, DecisionInvariant, PTL

(***************************************************************************)
(* scalingSkipReason: a skipped write leaves a request inside the bounds.  *)
(***************************************************************************)
THEOREM ToleranceTheorem == Spec => []ToleranceNeverHidesBounds
<1>1. IInv => ToleranceNeverHidesBounds
  <2>1. SUFFICES ASSUME IInv, decision.evaluated
                 PROVE  ToleranceNeverHidesBounds
    BY DEF ToleranceNeverHidesBounds
  <2>2. decision.signal \in Int
    BY <2>1, EvaluationFacts
  <2>3. RecommendFor(decision, decision.signal) \in Floor(decision.minimum) .. decision.maximum
    BY <2>1, <2>2, RecommendForMonotone
  <2>4. decision.desired \in Floor(decision.minimum) .. decision.maximum
    BY <2>1, <2>3 DEF IInv, Consistent
  <2>5. decision.skip # "None" =>
            decision.requested \in Floor(decision.minimum) .. decision.maximum
    BY <2>1, <2>4 DEF IInv, Consistent, scalingSkipReason
  <2>6. QED
    BY <2>4, <2>5 DEF ToleranceNeverHidesBounds
<1>2. QED
  BY <1>1, DecisionInvariant, PTL

(***************************************************************************)
(* selectDecisionSignal and the policy after it: in Hybrid mode a forecast *)
(* retains capacity, never initiates an expansion, never undercuts current *)
(* demand.                                                                 *)
(***************************************************************************)
THEOREM HybridTheorem == Spec => []HybridForecastOnlyRetains
<1>1. IInv => HybridForecastOnlyRetains
  <2>1. SUFFICES ASSUME IInv, decision.evaluated, decision.mode = "Hybrid"
                 PROVE  HybridForecastOnlyRetains
    BY DEF HybridForecastOnlyRetains
  <2>2. decision.signal = Larger(decision.current, Smaller(decision.predicted, decision.target))
    BY <2>1 DEF IInv, Consistent, selectDecisionSignal
  <2>3. /\ decision.current \in Nat /\ decision.predicted \in Int
        /\ decision.target \in Nat \ {0} /\ decision.signal \in Int
        /\ decision.requested \in Nat /\ decision.desired \in Nat
        /\ Floor(decision.minimum) \in Nat /\ decision.maximum \in Nat
    BY <2>1, EvaluationFacts DEF Floor, Larger
  <2>4. /\ decision.current <= decision.signal
        /\ decision.current >= decision.target => decision.signal = decision.current
        /\ decision.current <= decision.target => decision.signal <= decision.target
    BY <2>2, <2>3 DEF Larger, Smaller
  <2>5. decision.desired = RecommendFor(decision, decision.signal)
    BY <2>1 DEF IInv, Consistent
  <2>6. decision.desired >= RecommendFor(decision, decision.current)
    <3>1. /\ RecommendFor(decision, decision.current) <= RecommendFor(decision, decision.signal)
          /\ RecommendFor(decision, decision.current)
                \in Floor(decision.minimum) .. decision.maximum
      BY <2>1, <2>3, <2>4, RecommendForMonotone
    <3>2. QED
      BY <3>1, <2>3, <2>5
  <2>7. decision.current >= decision.target =>
            decision.desired = RecommendFor(decision, decision.current)
    BY <2>4, <2>5
  <2>8. ASSUME decision.current <= decision.target,
               decision.requested \in Floor(decision.minimum) .. decision.maximum,
               decision.skip = "None"
        PROVE  decision.desired <= decision.requested
    <3>1. CASE decision.signal = decision.target
      <4>1. withinTolerance(decision.signal, decision.target)
        BY <3>1, <2>3 DEF withinTolerance, Larger
      <4>2. decision.skip # "None"
        BY <2>1, <2>8, <4>1 DEF IInv, Consistent, scalingSkipReason
      <4>3. QED
        BY <4>2, <2>8
    <3>2. CASE decision.signal < decision.target
      <4>1. DirectionFollowsSignal
        BY <2>1, DirectionStep
      <4>2. QED
        BY <4>1, <3>2, <2>1, <2>8, <2>3 DEF DirectionFollowsSignal
    <3>3. QED
      BY <3>1, <3>2, <2>3, <2>4, <2>8
  <2>9. QED
    BY <2>6, <2>7, <2>8 DEF HybridForecastOnlyRetains
<1>2. QED
  BY <1>1, DecisionInvariant, PTL

(***************************************************************************)
(* selectDecisionSignal: no mode looks at more than the current value or   *)
(* the lead that capPrediction grants it.                                  *)
(***************************************************************************)
LEMMA SignalLead ==
    ASSUME IInv, decision.evaluated
    PROVE  LET lead == (13 * decision.current) \div 10
           IN  /\ lead \in Int
               /\ decision.signal <= Larger(decision.current, lead)
<1> DEFINE c == decision.current
           p == decision.predicted
           t == decision.target
           lead == (13 * c) \div 10
<1>1. c \in Nat /\ p \in Int /\ t \in Nat \ {0} /\ decision.mode \in Modes
  BY EvaluationFacts
<1>2. lead \in Int
  BY <1>1
<1>3. p <= Larger(0, lead) /\ decision.signal = selectDecisionSignal(decision.mode, c, p, t)
  BY DEF IInv, Consistent
<1> HIDE DEF c, p, t, lead
<1>4. selectDecisionSignal(decision.mode, c, p, t) <= Larger(c, lead)
  <2>1. CASE decision.mode = "Current"
    BY <1>1, <1>2, <2>1 DEF selectDecisionSignal, Larger
  <2>2. CASE decision.mode = "Hybrid"
    BY <1>1, <1>2, <1>3, <2>2 DEF selectDecisionSignal, Larger, Smaller
  <2>3. CASE decision.mode # "Current" /\ decision.mode # "Hybrid"
    BY <1>1, <1>2, <1>3, <2>3 DEF selectDecisionSignal, Larger
  <2>4. QED
    BY <2>1, <2>2, <2>3
<1>5. QED
  BY <1>2, <1>3, <1>4 DEF c, p, t, lead

(***************************************************************************)
(* directedRecommendation: a forecast, however large, never asks for more  *)
(* than its bounded lead over the current utilisation would, or the live   *)
(* request.                                                                *)
(***************************************************************************)
THEOREM LeadTheorem == Spec => []LeadIsBounded
<1>1. IInv => LeadIsBounded
  <2>1. SUFFICES ASSUME IInv, decision.evaluated
                 PROVE  LeadIsBounded
    BY DEF LeadIsBounded
  <2> DEFINE lo == decision.minimum
             hi == decision.maximum
             q == decision.requested
             t == decision.target
             s == decision.signal
             o == decision.observed
             lead == Larger(decision.current, (13 * decision.current) \div 10)
             C == computeDesiredReplicas(o, s, t, lo, hi)
             L == computeDesiredReplicas(o, lead, t, lo, hi)
             dir == IF s < t THEN Smaller(C, q) ELSE IF s > t THEN Larger(C, q) ELSE C
  <2>2. /\ q \in Nat /\ t \in Nat \ {0} /\ s \in Int /\ o \in Nat
        /\ lo \in Nat /\ hi \in Nat \ {0} /\ lo <= hi
    BY <2>1, EvaluationFacts
  <2>3. s <= lead /\ lead \in Int
    BY <2>1, SignalLead, EvaluationFacts DEF Larger
  <2>4. decision.desired = Clamp(dir, lo, hi)
    BY <2>1 DEF IInv, Consistent, RecommendFor, Recommend, directedRecommendation
  <2> HIDE DEF lo, hi, q, t, s, o, lead
  <2>5. C \in Floor(lo) .. hi /\ L \in Floor(lo) .. hi /\ C <= L
    BY <2>2, <2>3, ComputeMonotone
  <2>6. Floor(lo) \in Nat
    BY <2>2 DEF Floor, Larger
  <2> HIDE DEF C, L
  <2>7. Clamp(dir, lo, hi) <= Larger(L, Clamp(q, lo, hi))
    BY <2>2, <2>5, <2>6 DEF Clamp, Larger, Smaller
  <2>8. QED
    BY <2>4, <2>7 DEF LeadIsBounded, lo, hi, q, t, s, o, lead, L
<1>2. QED
  BY <1>1, DecisionInvariant, PTL
=============================================================================
