------------------------------ MODULE Decision ------------------------------
(***************************************************************************)
(* The replica arithmetic of internal/controller/scaling_decision.go: pure *)
(* functions from one CPU observation and one Scale to a recommendation.   *)
(*                                                                         *)
(* CPU utilisation, the forecast and the target are integers of one common *)
(* fixed-point unit (the code has float64 percentages); replica counts are *)
(* integers.  The code clamps in floating point before it converts to      *)
(* int32, so no operator here wraps.  The two constants of the code that   *)
(* are not integers are fractions: maxLeadFactor = 13/10, tolerance = 1/10.*)
(***************************************************************************)
EXTENDS Integers

\* The decision modes of spec.decisionMode; "Unset" is the legacy empty value.
Modes == {"Unset", "Predictive", "Current", "Hybrid"}

Larger(a, b) == IF a >= b THEN a ELSE b
Smaller(a, b) == IF a <= b THEN a ELSE b

\* a / b rounded up, for a natural a and a positive b (math.Ceil).
CeilDiv(a, b) == (a + b - 1) \div b

\* v1alpha1 has no scale-to-zero: the lower bound is never below one replica.
Floor(minimum) == Larger(minimum, 1)

\* A slip: minReplicas = 0 would scale to zero.
ClampToConfigured(x, minimum, maximum) == Smaller(Larger(x, minimum), maximum)

\* min(max(x, max(minimum, 1)), maximum): the clamp every function ends with.
Clamp(x, minimum, maximum) == Smaller(Larger(x, Floor(minimum)), maximum)

\* A slip: a forecast is not held to its lead over the current value.
UncappedPrediction(predicted, current) == IF predicted < 0 THEN 0 ELSE predicted

capPrediction(predicted, current) ==
    IF predicted < 0 THEN 0 ELSE Smaller(predicted, (13 * current) \div 10)

\* A slip: in Hybrid mode a forecast above the target counts in full.
HybridForecastExpands(mode, current, predicted, target) ==
    CASE mode = "Current" -> current
      [] mode = "Hybrid"  -> Larger(current, predicted)
      [] OTHER            -> predicted

selectDecisionSignal(mode, current, predicted, target) ==
    CASE mode = "Current" -> current
      [] mode = "Hybrid"  -> Larger(current, Smaller(predicted, target))
      [] OTHER            -> predicted

computeDesiredReplicas(observed, cpu, target, minimum, maximum) ==
    Clamp(CeilDiv(observed * Larger(cpu, 0), target), minimum, maximum)

\* |cpu/target - 1| < 1/10, strictly.
withinTolerance(cpu, target) ==
    LET c == Larger(cpu, 0)
    IN  /\ 10 * (c - target) < target
        /\ 10 * (target - c) < target

\* A slip: the live request is not consulted.
Undirected(observed, requested, cpu, target, minimum, maximum) ==
    computeDesiredReplicas(observed, cpu, target, minimum, maximum)

\* A slip: the two branches are swapped.
Misdirected(observed, requested, cpu, target, minimum, maximum) ==
    LET desired == computeDesiredReplicas(observed, cpu, target, minimum, maximum)
    IN  Clamp(IF cpu < target THEN Larger(desired, requested)
              ELSE IF cpu > target THEN Smaller(desired, requested)
              ELSE desired, minimum, maximum)

\* The recommendation may not move against the signal when the observed
\* replicas lag behind an earlier request.
directedRecommendation(observed, requested, cpu, target, minimum, maximum) ==
    LET desired  == computeDesiredReplicas(observed, cpu, target, minimum, maximum)
        directed == IF cpu < target THEN Smaller(desired, requested)
                    ELSE IF cpu > target THEN Larger(desired, requested)
                    ELSE desired
    IN  Clamp(directed, minimum, maximum)

\* A slip: the tolerance band also hides a request outside the bounds.
SkipInBand(final, requested, cpu, target, minimum, maximum) ==
    IF final = requested THEN "DesiredEqualsCurrent"
    ELSE IF withinTolerance(cpu, target) THEN "WithinToleranceBand"
    ELSE "None"

scalingSkipReason(final, requested, cpu, target, minimum, maximum) ==
    IF final = requested THEN "DesiredEqualsCurrent"
    ELSE IF /\ requested \in Floor(minimum) .. maximum
            /\ withinTolerance(cpu, target)
         THEN "WithinToleranceBand"
    ELSE "None"   \* the code's empty string: go on and write the Scale
=============================================================================
