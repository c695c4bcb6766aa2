----------------------------- MODULE Stabilizer -----------------------------
(***************************************************************************)
(* One PredictiveHPA key of the reconciler: the history it keeps between   *)
(* calls of stabilizeRecommendation, under every sequence of               *)
(* recommendations, identity and window changes, process restarts and      *)
(* clock movements, a clock that is set back included.                     *)
(*                                                                         *)
(* epoch, recommended and guard are auxiliary: they record, without        *)
(* buckets and from the inputs alone, what was recommended since the last  *)
(* change of identity or window, restart or rollback.  They are the        *)
(* refinement mapping to RollingMaximum.                                   *)
(***************************************************************************)
EXTENDS ScaleHistory, FiniteSets

CONSTANTS
    Identities,  \* [phpa : UIDs, target : UIDs]
    Windows,     \* spec.scaleDownStabilizationWindowSeconds
    Replicas,    \* recommendations and live requests
    MaxInt32,    \* replica counts are int32
    Bounds,      \* <<minReplicas, maxReplicas>>
    WallSteps,   \* how far the wall clock can be set at once
    MaxTime,     \* bound on both readings of the clock
    MaxDistinct, \* bound on the distinct recommendations of one epoch
    MaxEntries   \* bound on the entries a wall clock set to and fro can pile up

ASSUME WindowsAssumption   == Windows \subseteq Nat
ASSUME MaxInt32Assumption  == MaxInt32 \in Nat
ASSUME ReplicasAssumption  == Replicas \subseteq 0..MaxInt32
ASSUME BoundsAssumption    ==
    Bounds \subseteq {b \in Nat \X (Nat \ {0}) : b[1] <= b[2]}
ASSUME WallStepsAssumption == WallSteps \subseteq Int
ASSUME MaxTimeAssumption   == MaxTime \in Nat
ASSUME MaxDistinctAssumption == MaxDistinct \in Nat
ASSUME MaxEntriesAssumption  == MaxEntries \in Nat

VARIABLES
    clock,        \* r.Clock: the reading now() would return
    hist,         \* r.history[key]
    epoch, recommended, guard,   \* auxiliary, see above
    outcome       \* the last decision, for the properties

vars == <<clock, hist, epoch, recommended, guard, outcome>>

NoEpoch   == [exists |-> FALSE]
NoGuard   == [exists |-> FALSE]
NoOutcome == [decided |-> FALSE]

Entries == [at : Times, desired : Replicas]

Histories ==
    [exists : {TRUE}, identity : Identities, window : Windows,
     entries : Seq(Entries),
     lastRecordedAt : Times, protectedAt : Times, protectedReplicas : Replicas]

Epochs == [exists : {TRUE}, identity : Identities, window : Windows, at : Nat]

Guards == [exists : {TRUE}, at : Nat, requested : Replicas]

Recommendations == [at : Nat, desired : Replicas]

Outcomes ==
    [decided : {TRUE}, desired : Replicas, requested : Replicas, bounds : Bounds, final : Nat]

TypeOK ==
    /\ clock \in Times
    /\ hist \in Histories \cup {NoHistory}
    /\ epoch \in Epochs \cup {NoEpoch}
    /\ recommended \subseteq Recommendations
    /\ guard \in Guards \cup {NoGuard}
    /\ outcome \in Outcomes \cup {NoOutcome}
    /\ outcome.decided => outcome.final \in Floor(outcome.bounds[1]) .. outcome.bounds[2]

Init ==
    /\ clock = [mono |-> 0, wall |-> 0]
    /\ hist = NoHistory
    /\ epoch = NoEpoch
    /\ recommended = {}
    /\ guard = NoGuard
    /\ outcome = NoOutcome

\* The auxiliary half of a decision: no history structure is consulted.
Note(identity, window, desired, requested) ==
    LET now  == Instant(clock)
        same == /\ epoch.exists
                /\ epoch.identity = identity
                /\ epoch.window = window
                /\ epoch.at <= now
    IN  /\ epoch' = [exists |-> TRUE, identity |-> identity, window |-> window, at |-> now]
        /\ recommended' = (IF same THEN recommended ELSE {})
                              \cup {[at |-> now, desired |-> desired]}
        /\ guard' = IF same THEN guard
                    ELSE [exists |-> TRUE, at |-> now, requested |-> requested]

\* stabilizeRecommendation, for whatever the caller passes.
Decide(identity, window, desired, requested, bounds) ==
    /\ hist' = Remember(hist, identity, window, clock, desired, requested)
    /\ outcome' = [decided |-> TRUE, desired |-> desired, requested |-> requested,
                   bounds |-> bounds,
                   final |-> finalDesired(hist', desired, requested, bounds)]
    /\ Note(identity, window, desired, requested)
    /\ Cardinality(recommended') <= MaxDistinct
    /\ Len(hist'.entries) <= MaxEntries
    /\ UNCHANGED clock

\* The process restarts or loses the lease, or Reconcile sees NotFound and
\* deletes the key: the history is gone.
Forget ==
    /\ hist' = NoHistory
    /\ epoch' = NoEpoch
    /\ recommended' = {}
    /\ guard' = NoGuard
    /\ outcome' = NoOutcome
    /\ UNCHANGED clock

\* Readings without a monotonic part keep it at zero.
Tick ==
    /\ clock.mono < MaxTime /\ clock.wall < MaxTime
    /\ clock' = [mono |-> IF Monotonic THEN clock.mono + 1 ELSE 0, wall |-> clock.wall + 1]
    /\ UNCHANGED <<hist, epoch, recommended, guard, outcome>>

\* The wall clock is set, forward or back; the monotonic reading is not.
StepWall(step) ==
    /\ clock.wall + step \in 0..MaxTime
    /\ clock' = [clock EXCEPT !.wall = @ + step]
    /\ UNCHANGED <<hist, epoch, recommended, guard, outcome>>

Next ==
    \/ \E identity \in Identities, window \in Windows, desired, requested \in Replicas,
          bounds \in Bounds : Decide(identity, window, desired, requested, bounds)
    \/ Forget
    \/ Tick
    \/ \E step \in WallSteps : StepWall(step)

Spec == Init /\ [][Next]_vars

-----------------------------------------------------------------------------
Settle(replicas) == Clamp(replicas, outcome.bounds[1], outcome.bounds[2])

Reduces == outcome.decided /\ outcome.desired < outcome.requested

(***************************************************************************)
(* A recommendation never expires early: a reduction is held at every      *)
(* recommendation that is still in the window, so far as the live request  *)
(* and maxReplicas allow, however the recommendations fell into buckets.   *)
(***************************************************************************)
NeverExpiresEarly ==
    Reduces /\ epoch.window > 0 =>
        \A r \in recommended :
            r.at >= epoch.at - epoch.window =>
                outcome.final >= Settle(Smaller(outcome.requested, r.desired))

(***************************************************************************)
(* Extra retention is bounded by one bucket width: once the cold-start     *)
(* guard is over, what holds a reduction is a raw recommendation that left *)
(* the window less than one width ago (stabilised output never renews      *)
(* itself, and no peak of an earlier identity or window survives).         *)
(***************************************************************************)
RetainsOneBucketLonger ==
    (/\ Reduces
     /\ epoch.at > guard.at + epoch.window
     /\ outcome.final > Settle(outcome.desired))
        => \E r \in recommended :
               /\ r.at > epoch.at - epoch.window - Width(epoch.window)
               /\ outcome.final <= Settle(r.desired)

(***************************************************************************)
(* Cold start: for one full window after a restart, a lost lease, a new    *)
(* PredictiveHPA or Deployment incarnation, a window change or a rollback, *)
(* no decision goes below the live request found then (unless the live     *)
(* request itself was lowered by someone else, or maxReplicas demands it). *)
(***************************************************************************)
ProtectsColdStart ==
    outcome.decided /\ epoch.window > 0 /\ epoch.at <= guard.at + epoch.window =>
        outcome.final >= Settle(Smaller(outcome.requested, guard.requested))

(***************************************************************************)
(* The maximum may retain capacity but may not initiate expansion: a final *)
(* count above the live request is the raw recommendation itself.          *)
(***************************************************************************)
NeverInitiatesExpansion ==
    outcome.decided /\ outcome.final > Settle(outcome.requested) =>
        outcome.final = Settle(outcome.desired)

(***************************************************************************)
(* At most Divisor + 1 buckets intersect a window, however often events    *)
(* trigger a reconciliation.                                               *)
(***************************************************************************)
BucketsBounded == hist.exists => Len(hist.entries) <= Divisor + 1

\* Neither in time nor in number does the history keep more than it must.
RetainsNoMore == RetainsOneBucketLonger /\ BucketsBounded

(***************************************************************************)
(* A clock rollback rebuilds protection: a recommendation recorded at an   *)
(* earlier wall time than the previous one starts a new guard.             *)
(***************************************************************************)
RollbackRebuildsProtection ==
    [][hist.exists /\ hist'.exists /\ hist'.lastRecordedAt.wall < hist.lastRecordedAt.wall
          => hist'.protectedAt = hist'.lastRecordedAt]_vars

(***************************************************************************)
(* The bucketed history implements the exact rolling maximum, with a slack *)
(* of one bucket width.                                                    *)
(***************************************************************************)
Promise == INSTANCE RollingMaximum WITH Slack <- Width, Instants <- 0..MaxTime

ImplementsRollingMaximum == Promise!Spec
=============================================================================
