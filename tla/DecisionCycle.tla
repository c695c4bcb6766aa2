---------------------------- MODULE DecisionCycle ----------------------------
(***************************************************************************)
(* Steps 5 to 9 of Reconcile without the stabilisation history: one action *)
(* evaluates the policy for any observation, any Scale and any valid       *)
(* configuration, so that statements about the arithmetic are invariants   *)
(* of every evaluation.                                                    *)
(***************************************************************************)
EXTENDS Decision

CONSTANTS
    Cpus,       \* utilisations a validated observation can carry (never negative)
    Forecasts,  \* raw forecasts the predictor can return (may be negative)
    Targets,    \* spec.targetCPUUtilizationPercentage
    Replicas,   \* observed and requested replica counts
    Bounds      \* <<minReplicas, maxReplicas>> pairs that pass validateConfiguration

ASSUME CpusAssumption      == Cpus \subseteq Nat
ASSUME ForecastsAssumption == Forecasts \subseteq Int
ASSUME TargetsAssumption   == Targets \subseteq Nat \ {0}
ASSUME ReplicasAssumption  == Replicas \subseteq Nat
ASSUME BoundsAssumption    ==
    Bounds \subseteq {b \in Nat \X (Nat \ {0}) : b[1] <= b[2]}

VARIABLE decision   \* the last evaluation: its inputs, signal and outcome

NoDecision == [evaluated |-> FALSE]

\* The recommendation the policy draws from one signal.
Recommend(signal, observed, requested, target, bounds) ==
    directedRecommendation(observed, requested, signal, target, bounds[1], bounds[2])

SkipReasons == {"DesiredEqualsCurrent", "WithinToleranceBand", "None"}

Decisions ==
    [evaluated : {TRUE}, mode : Modes, current : Nat, predicted : Int, target : Nat \ {0},
     observed : Nat, requested : Nat, minimum : Nat, maximum : Nat \ {0},
     signal : Int, desired : Nat \ {0}, skip : SkipReasons]

TypeOK == decision \in Decisions \cup {NoDecision}

Init == decision = NoDecision

Evaluate(mode, current, raw, target, observed, requested, bounds) ==
    LET predicted == capPrediction(raw, current)
        signal    == selectDecisionSignal(mode, current, predicted, target)
        desired   == Recommend(signal, observed, requested, target, bounds)
    IN  /\ ~decision.evaluated   \* stateless: one evaluation per behaviour says it all
        /\ decision' = [evaluated |-> TRUE, mode |-> mode, current |-> current,
                        predicted |-> predicted, target |-> target, observed |-> observed,
                        requested |-> requested, minimum |-> bounds[1], maximum |-> bounds[2],
                        signal |-> signal, desired |-> desired,
                        skip |-> scalingSkipReason(desired, requested, signal, target,
                                                   bounds[1], bounds[2])]

Next ==
    \E mode \in Modes, current \in Cpus, raw \in Forecasts, target \in Targets,
       observed, requested \in Replicas, bounds \in Bounds :
        Evaluate(mode, current, raw, target, observed, requested, bounds)

Spec == Init /\ [][Next]_decision

-----------------------------------------------------------------------------
\* What the policy would recommend for another signal, all else equal.
RecommendFor(d, signal) ==
    Recommend(signal, d.observed, d.requested, d.target, <<d.minimum, d.maximum>>)

(***************************************************************************)
(* A signal below the target never raises the Scale request and one above  *)
(* it never lowers it, whatever the observed replicas are, except where    *)
(* the configured bounds force the request to move.                        *)
(***************************************************************************)
DirectionFollowsSignal ==
    decision.evaluated =>
        /\ (decision.signal < decision.target /\ decision.requested >= Floor(decision.minimum))
              => decision.desired <= decision.requested
        /\ (decision.signal > decision.target /\ decision.requested <= decision.maximum)
              => decision.desired >= decision.requested

(***************************************************************************)
(* Hybrid mode: the forecast can retain capacity but cannot initiate an    *)
(* expansion (while current CPU is at or below target no write raises a    *)
(* request that is within the bounds), nor undercut current demand (the    *)
(* recommendation is at least what current CPU alone would give, and       *)
(* exactly that once current CPU reaches the target).                      *)
(***************************************************************************)
HybridForecastOnlyRetains ==
    decision.evaluated /\ decision.mode = "Hybrid" =>
        LET fromCurrent == RecommendFor(decision, decision.current)
        IN  /\ decision.desired >= fromCurrent
            /\ decision.current >= decision.target => decision.desired = fromCurrent
            /\ (/\ decision.current <= decision.target
                /\ decision.requested \in Floor(decision.minimum) .. decision.maximum
                /\ decision.skip = "None")
                   => decision.desired <= decision.requested

(***************************************************************************)
(* The lead of a forecast is bounded: no mode ever recommends more than    *)
(* 1.3 times the current observation would, the live request or the lower  *)
(* bound, whichever is the largest.                                        *)
(***************************************************************************)
LeadIsBounded ==
    decision.evaluated =>
        decision.desired <=
            Larger(computeDesiredReplicas(decision.observed,
                                          Larger(decision.current, (13 * decision.current) \div 10),
                                          decision.target, decision.minimum, decision.maximum),
                   Clamp(decision.requested, decision.minimum, decision.maximum))

(***************************************************************************)
(* The recommendation is monotone in the signal across the three branches  *)
(* of directedRecommendation: more CPU never yields fewer replicas, even   *)
(* when the observed and the requested counts disagree.                    *)
(***************************************************************************)
MonotoneInSignal ==
    decision.evaluated =>
        \A cpu \in Cpus :
            cpu >= decision.signal => RecommendFor(decision, cpu) >= decision.desired

(***************************************************************************)
(* The tolerance band never hides a bound violation: a request outside     *)
(* [max(minReplicas, 1), maxReplicas] is always written back into it, and  *)
(* a recommendation that is skipped leaves a request inside it.            *)
(***************************************************************************)
ToleranceNeverHidesBounds ==
    decision.evaluated =>
        /\ decision.desired \in Floor(decision.minimum) .. decision.maximum
        /\ decision.skip # "None" =>
              decision.requested \in Floor(decision.minimum) .. decision.maximum
=============================================================================
