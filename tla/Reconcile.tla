----------------------------- MODULE Reconcile -----------------------------
(***************************************************************************)
(* The controller against the API server: Reconcile                        *)
(* (internal/controller/predictivehpa_controller.go, metrics_safety.go,    *)
(* configuration.go) for one PredictiveHPA key and its target Deployment.  *)
(* One step is one call that leaves the process, with the computation up   *)
(* to the next such call; everything else may happen in between.           *)
(*                                                                         *)
(* Procs are the controller processes that are reconciling: one, or two    *)
(* whose leadership overlaps (a lease is no fence).  A resourceVersion is  *)
(* compared for equality with the one just read, so it is modelled by a    *)
(* flag "nothing was written since the read" (scaleFresh, phpaFresh).      *)
(*                                                                         *)
(* The present is always the instant Horizon: Tick makes everything that   *)
(* carries a time one unit older, and what is older than every limit stays *)
(* at 0.  Time is thus unbounded while the state space is finite.          *)
(***************************************************************************)
EXTENDS ScaleHistory, FiniteSets

CONSTANTS
    Procs,
    Policies,      \* specs a user may write, invalid ones included
    Cpus,          \* utilisation of the pods, per cent of their request
    Forecasts,     \* what the predictor may return for any samples
    Counts,        \* replica counts other writers set
    MaxSampleAge,  \* DefaultMaxSampleAge
    Horizon,       \* the present, see above
    Kinds,         \* which disturbances this instance has
    MaxEvents      \* bound on the number of disturbances

ASSUME ProcsAssumption   == IsFiniteSet(Procs) /\ Procs # {}
ASSUME HorizonAssumption ==
    /\ Horizon \in Nat /\ MaxSampleAge \in Nat /\ MaxSampleAge < Horizon
    /\ \A policy \in Policies : policy.window < Horizon
    \* a bucket no wider than a unit of time: ageing commutes with bucketing
    /\ \A policy \in Policies : policy.window >= 0 => Width(policy.window) = 1
MaxInt32 == 2147483647

ASSUME PoliciesAssumption ==   \* int32 fields and seconds of a PredictiveHPASpec
    \A policy \in Policies :
        /\ {policy.target, policy.minimum, policy.maximum, policy.window} \subseteq Int
        /\ policy.maximum <= MaxInt32
ASSUME CountsAssumption    == Cpus \subseteq Nat /\ Forecasts \subseteq Int /\ Counts \subseteq Nat
ASSUME MaxEventsAssumption == MaxEvents \in Nat

VARIABLES
    \* the API server
    phpa,        \* the PredictiveHPA object, status included
    deployment,  \* the Deployment with its Scale: spec.replicas, status.replicas
    cpu,         \* utilisation of the workload's pods
    \* each controller process
    cache,       \* informer caches: the PHPA and Deployment it last saw
    queued,      \* is the key in the work queue (ready, delayed or rate-limited)?
    pc, loc,     \* where Reconcile is, and its local variables
    hist,        \* r.history[key]
    \* auxiliary
    steady,      \* time since the process started, "old" once others scaled
    unrecorded,  \* an adjustment that lastScaleTime does not show
    events       \* disturbances so far

vars == <<phpa, deployment, cpu, cache, queued, pc, loc, hist, steady, unrecorded, events>>
procVars == <<cache, queued, pc, loc, hist>>

-----------------------------------------------------------------------------
NoPolicy == [mode |-> "Unset", target |-> 0, minimum |-> 0, maximum |-> 0, window |-> 0]
NoStatus == [ready |-> "Unknown", gen |-> 0, desired |-> 0]

AbsentPHPA(uid) ==
    [exists |-> FALSE, uid |-> uid, gen |-> 0, deleting |-> FALSE,
     policy |-> NoPolicy, status |-> NoStatus]
AbsentDeployment(uid) ==
    [exists |-> FALSE, uid |-> uid, deleting |-> FALSE, requested |-> 0, observed |-> 0]

NewPHPA(uid, policy) ==
    [exists |-> TRUE, uid |-> uid, gen |-> 1, deleting |-> FALSE,
     policy |-> policy, status |-> NoStatus]
NewDeployment(uid, replicas) ==
    [exists |-> TRUE, uid |-> uid, deleting |-> FALSE, requested |-> replicas, observed |-> 0]

\* What Reconcile uses of the cached objects (never the status).
SeenPHPA == [exists |-> phpa.exists, uid |-> phpa.uid, gen |-> phpa.gen,
             deleting |-> phpa.deleting, policy |-> phpa.policy]
SeenDeployment == [exists |-> deployment.exists, uid |-> deployment.uid]

NoObservation == [value |-> 0, at |-> 0, of |-> 0]
NoSnapshot    == [uid |-> 0, gen |-> 0, policy |-> NoPolicy]

NoWork ==
    [phpa |-> NoSnapshot,      \* the PHPA as read at step 1
     target |-> 0,             \* deploy.UID
     obs |-> NoObservation,    \* cpuHistory: latest value, source time, pods' owner
     requested |-> 0,          \* scale.Spec.Replicas
     scaleFresh |-> FALSE,     \* scale.ResourceVersion is still the live one
     final |-> 0,              \* finalDesired
     evaluated |-> FALSE,      \* a recommendation has been computed (auxiliary)
     scaled |-> FALSE,
     report |-> "None",        \* what step 10 will publish
     phpaFresh |-> FALSE]      \* freshPHPA's resourceVersion is still the live one

\* Every write to an object changes its resourceVersion: what any process read
\* of it before is no longer the live version.
ScaleWritten(locals) == [p \in Procs |-> [locals[p] EXCEPT !.scaleFresh = FALSE]]
PHPAWritten(locals)  == [p \in Procs |-> [locals[p] EXCEPT !.phpaFresh = FALSE]]

validateConfiguration(policy) ==
    /\ policy.target \in 1..100
    /\ policy.minimum \in 0..policy.maximum
    /\ policy.maximum >= 1
    /\ policy.window >= 0

Identity(work) == [phpa |-> work.phpa.uid, target |-> work.target]

Now == [mono |-> Horizon, wall |-> Horizon]

Stale(obs) == Horizon - obs.at > MaxSampleAge

-----------------------------------------------------------------------------
Init ==
    /\ \E policy \in Policies : phpa = NewPHPA(1, policy)
    /\ \E replicas \in Counts : deployment = [NewDeployment(1, replicas) EXCEPT !.observed = replicas]
    /\ cpu \in Cpus
    /\ cache = [p \in Procs |-> [phpa |-> SeenPHPA, deployment |-> SeenDeployment, news |-> FALSE]]
    /\ queued = [p \in Procs |-> TRUE]
    /\ pc = [p \in Procs |-> "idle"]
    /\ loc = [p \in Procs |-> NoWork]
    /\ hist = [p \in Procs |-> NoHistory]
    /\ steady = [p \in Procs |-> 0]
    /\ unrecorded = FALSE
    /\ events = 0

-----------------------------------------------------------------------------
(* How a cycle ends or goes on.                                            *)

\* A slip: what the last cycle worked out is kept for the next one.
RestWithWork(p) ==
    /\ pc' = [pc EXCEPT ![p] = "idle"]
    /\ UNCHANGED loc

\* Reconcile returns without asking to be called again.
Rest(p) ==
    /\ pc' = [pc EXCEPT ![p] = "idle"]
    /\ loc' = [loc EXCEPT ![p] = NoWork]

\* A slip: an error is swallowed and nothing comes back to the key.
GiveUp(p) ==
    /\ Rest(p)
    /\ UNCHANGED queued

\* It returns RequeueAfter, or an error that the rate limiter retries.
Requeue(p) ==
    /\ Rest(p)
    /\ queued' = [queued EXCEPT ![p] = TRUE]

Continue(p, next, work) ==
    /\ pc' = [pc EXCEPT ![p] = next]
    /\ loc' = [loc EXCEPT ![p] = work]

\* metricsUnavailable: publish that there is no usable observation.
Unavailable(p, work) ==
    Continue(p, "publish", [NoWork EXCEPT !.phpa = work.phpa, !.evaluated = work.evaluated,
                                          !.report = "Unavailable"])

api == <<phpa, deployment, cpu>>

-----------------------------------------------------------------------------
(* Reconcile, one outgoing call after the other.                           *)

Dequeue(p) ==
    /\ pc[p] = "idle" /\ queued[p]
    /\ queued' = [queued EXCEPT ![p] = FALSE]
    /\ UNCHANGED <<api, cache, steady, unrecorded, events>>

\* Step 1: NotFound drops the history and asks for nothing more.
DropDeleted(p) ==
    /\ Dequeue(p)
    /\ ~cache[p].phpa.exists
    /\ hist' = [hist EXCEPT ![p] = NoHistory]
    /\ UNCHANGED <<pc, loc>>

\* Step 2: an object being deleted is left alone.
IgnoreDeleting(p) ==
    /\ Dequeue(p)
    /\ cache[p].phpa.exists /\ cache[p].phpa.deleting
    /\ UNCHANGED <<pc, loc, hist>>

\* Steps 2 and 3: an invalid policy or a missing Deployment is reported;
\* otherwise the metrics are queried.
Begin(p) ==
    LET seen == cache[p].phpa
        work == [NoWork EXCEPT !.phpa = [uid |-> seen.uid, gen |-> seen.gen, policy |-> seen.policy],
                               !.target = cache[p].deployment.uid]
    IN  /\ Dequeue(p)
        /\ seen.exists /\ ~seen.deleting
        /\ IF validateConfiguration(seen.policy) /\ cache[p].deployment.exists
           THEN Continue(p, "query", work)
           ELSE Unavailable(p, work)
        /\ UNCHANGED hist

\* Step 4: the provider reads the live target and its pods before and after its
\* queries, so an observation is of one incarnation and not too old.  Without
\* pods there is none; while pods come and go their roster may be incomplete.
LiveTarget(p) ==
    deployment.exists /\ ~deployment.deleting /\ deployment.uid = loc[p].target

Query(p) ==
    /\ pc[p] = "query"
    /\ \/ /\ LiveTarget(p) /\ deployment.observed > 0
          /\ \E age \in 0..MaxSampleAge :
                Continue(p, "decide", [loc[p] EXCEPT
                    !.obs = [value |-> cpu, at |-> Horizon - age, of |-> deployment.uid]])
       \/ /\ ~LiveTarget(p) \/ deployment.observed = 0
             \/ deployment.observed # deployment.requested
          /\ Unavailable(p, loc[p])
    /\ UNCHANGED <<api, cache, queued, hist, steady, unrecorded, events>>

\* Steps 5 to 9, up to the skip reason: the live Scale is read, the policy
\* computed and the recommendation recorded.  (A variable bound to a singleton
\* names a value.)
Recommend(p) ==
    LET work      == loc[p]
        policy    == work.phpa.policy
        minimum   == Floor(policy.minimum)
        current   == work.obs.value
        requested == deployment.requested
    IN  \E predicted \in Forecasts :
        \E signal \in {selectDecisionSignal(policy.mode, current,
                           capPrediction(predicted, current), policy.target)} :
        \E desired \in {directedRecommendation(deployment.observed, requested, signal,
                           policy.target, minimum, policy.maximum)} :
        \E kept \in {Remember(hist[p], Identity(work), policy.window, Now, desired, requested)} :
        \E final \in {finalDesired(kept, desired, requested, <<minimum, policy.maximum>>)} :
            /\ hist' = [hist EXCEPT ![p] = kept]
            /\ Continue(p, IF scalingSkipReason(final, requested, signal, policy.target,
                                               minimum, policy.maximum) = "None"
                           THEN "policy" ELSE "verify",
                   [work EXCEPT !.requested = requested, !.scaleFresh = TRUE,
                                !.final = final, !.evaluated = TRUE, !.report = "Decided"])

Decide(p) ==
    /\ pc[p] = "decide"
    /\ CASE ~deployment.exists -> Requeue(p) /\ UNCHANGED hist
         [] deployment.exists /\ deployment.uid # loc[p].target ->
                Unavailable(p, loc[p]) /\ UNCHANGED <<hist, queued>>
         [] OTHER -> Recommend(p) /\ UNCHANGED queued
    /\ UNCHANGED <<api, cache, steady, unrecorded, events>>

\* A slip: only the incarnation is compared, not its generation.
SameIncarnation(work) ==
    /\ phpa.exists /\ ~phpa.deleting
    /\ phpa.uid = work.phpa.uid

\* freshPHPA's condition, on the live object.
SamePolicy(work) ==
    /\ phpa.exists /\ ~phpa.deleting
    /\ phpa.uid = work.phpa.uid /\ phpa.gen = work.phpa.gen

\* Step 9: freshPHPA before the write.
RecheckPolicy(p) ==
    /\ pc[p] = "policy"
    /\ IF SamePolicy(loc[p])
       THEN Continue(p, "scale", loc[p]) /\ UNCHANGED queued
       ELSE Requeue(p)
    /\ UNCHANGED <<api, cache, hist, steady, unrecorded, events>>

\* A slip: the write carries no resourceVersion.
SameTarget(p) == deployment.exists /\ deployment.uid = loc[p].target

\* The live Scale still has the UID and resourceVersion of the decision.
SameScale(p) == deployment.exists /\ deployment.uid = loc[p].target /\ loc[p].scaleFresh

\* Step 9: the Scale must be the one decided on, the metrics still fresh.
RecheckScale(p) ==
    /\ pc[p] = "scale"
    /\ IF ~ SameScale(p) THEN Requeue(p)
       ELSE /\ IF Stale(loc[p].obs) THEN Unavailable(p, loc[p]) ELSE Continue(p, "write", loc[p])
            /\ UNCHANGED queued
    /\ UNCHANGED <<api, cache, hist, steady, unrecorded, events>>

CommitScale(p) ==
    /\ deployment' = [deployment EXCEPT !.requested = loc[p].final]
    /\ cache' = [q \in Procs |-> [cache[q] EXCEPT !.news = TRUE]]
    /\ unrecorded' = TRUE
    \* for the other processes this is someone else scaling
    /\ steady' = [q \in Procs |-> IF q = p THEN steady[q] ELSE Horizon]

\* Step 9: Update, optimistic on the resourceVersion.  A conflict is an error.
Update(p) ==
    /\ pc[p] = "write"
    /\ \/ /\ SameScale(p)
          /\ CommitScale(p)
          /\ pc' = [pc EXCEPT ![p] = "verify"]
          /\ loc' = ScaleWritten([loc EXCEPT ![p].scaled = TRUE, ![p].obs = NoObservation])
          /\ UNCHANGED queued
       \/ /\ ~SameScale(p)
          /\ Requeue(p)
          /\ UNCHANGED <<deployment, cache, unrecorded, steady>>
    /\ UNCHANGED <<phpa, cpu, hist, events>>

\* Step 10: validateStatusTarget; an absent target counts as a changed one.
VerifyTarget(p) ==
    /\ pc[p] = "verify"
    /\ IF LiveTarget(p)
       THEN Continue(p, "publish", [loc[p] EXCEPT !.obs = NoObservation, !.scaleFresh = FALSE])
       ELSE Unavailable(p, loc[p])
    /\ UNCHANGED <<api, cache, queued, hist, steady, unrecorded, events>>

\* A slip: observedGeneration is set only when a status is first written.
StatusOfFirstGeneration(work) ==
    IF work.report = "Decided"
    THEN [ready |-> "True", gen |-> Larger(phpa.status.gen, 1), desired |-> work.final]
    ELSE [phpa.status EXCEPT !.ready = "False", !.gen = Larger(@, 1)]

Status(work) ==
    IF work.report = "Decided"
    THEN [ready |-> "True", gen |-> work.phpa.gen, desired |-> work.final]
    ELSE [phpa.status EXCEPT !.ready = "False", !.gen = work.phpa.gen]

\* patchStatus, its read: a changed identity or policy is an error, an
\* unchanged status needs no patch (lastScaleTime always changes it).
ReadForStatus(p) ==
    /\ pc[p] = "publish"
    /\ IF SamePolicy(loc[p]) /\ (loc[p].scaled \/ Status(loc[p]) # phpa.status)
       THEN Continue(p, "patch", [loc[p] EXCEPT !.phpaFresh = TRUE]) /\ UNCHANGED queued
       ELSE Requeue(p)
    /\ UNCHANGED <<api, cache, hist, steady, unrecorded, events>>

\* patchStatus, its write: optimistic on what was just read.
Publishes(p) == pc[p] = "patch" /\ loc[p].phpaFresh

PatchStatus(p) ==
    /\ pc[p] = "patch"
    /\ queued' = [queued EXCEPT ![p] = TRUE]
    /\ pc' = [pc EXCEPT ![p] = "idle"]
    /\ IF Publishes(p)
       THEN /\ phpa' = [phpa EXCEPT !.status = Status(loc[p])]
            /\ loc' = PHPAWritten([loc EXCEPT ![p] = NoWork])
            /\ unrecorded' = (unrecorded /\ ~loc[p].scaled)
       ELSE /\ loc' = [loc EXCEPT ![p] = NoWork]
            /\ UNCHANGED <<phpa, unrecorded>>
    /\ UNCHANGED <<deployment, cpu, cache, hist, steady, events>>

Reconciling(p) ==
    \/ DropDeleted(p) \/ IgnoreDeleting(p) \/ Begin(p) \/ Query(p) \/ Decide(p)
    \/ RecheckPolicy(p) \/ RecheckScale(p) \/ Update(p) \/ VerifyTarget(p)
    \/ ReadForStatus(p) \/ PatchStatus(p)

-----------------------------------------------------------------------------
(* What else happens by itself.                                            *)

\* The PHPA informer catches up: the watch delivers every deletion, updates
\* may be skipped.  An update passes the predicates of SetupWithManager only
\* when the generation changed.
PassesPredicates(old, new) == ~ (old.exists /\ new.exists /\ old.gen = new.gen)

Deliver(p, new) ==
    /\ cache' = [cache EXCEPT ![p].phpa = new]
    /\ queued' = [queued EXCEPT ![p] = @ \/ PassesPredicates(cache[p].phpa, new)]
    /\ UNCHANGED <<api, pc, loc, hist, steady, unrecorded>>

SyncPHPA(p) ==
    LET old == cache[p].phpa
    IN  /\ old # SeenPHPA
        /\ Deliver(p, IF old.exists /\ old.uid # phpa.uid
                      THEN [SeenPHPA EXCEPT !.exists = FALSE, !.uid = old.uid, !.gen = 0,
                                            !.deleting = FALSE, !.policy = NoPolicy]
                      ELSE SeenPHPA)
        /\ UNCHANGED events

\* The Deployment informer catches up: requestsForDeployment.
SyncDeployment(p) ==
    /\ cache[p].news
    /\ cache' = [cache EXCEPT ![p].deployment = SeenDeployment, ![p].news = FALSE]
    /\ queued' = [queued EXCEPT ![p] = @ \/ cache[p].phpa.exists]
    /\ UNCHANGED <<api, pc, loc, hist, steady, unrecorded, events>>

\* The deployment controller starts or stops pods, one at a time.
ObserveReplicas ==
    /\ deployment.exists /\ deployment.observed # deployment.requested
    /\ deployment' = [deployment EXCEPT !.observed = IF @ < deployment.requested THEN @ + 1 ELSE @ - 1]
    /\ cache' = [q \in Procs |-> [cache[q] EXCEPT !.news = TRUE]]
    /\ loc' = ScaleWritten(loc)
    /\ UNCHANGED <<phpa, cpu, queued, pc, hist, steady, unrecorded, events>>

Older(t) == IF t > 0 THEN t - 1 ELSE 0
OlderTime(t) == [mono |-> Older(t.mono), wall |-> Older(t.wall)]
OlderHistory(h) ==
    IF ~h.exists THEN h
    ELSE [h EXCEPT !.entries = [i \in DOMAIN @ |-> Entry(OlderTime(@[i].at), @[i].desired)],
                   !.lastRecordedAt = OlderTime(@), !.protectedAt = OlderTime(@)]

Pass ==
    /\ hist' = [p \in Procs |-> OlderHistory(hist[p])]
    /\ loc' = [p \in Procs |-> [loc[p] EXCEPT !.obs.at = Older(@)]]
    /\ steady' = [p \in Procs |-> Smaller(steady[p] + 1, Horizon)]
    /\ UNCHANGED <<api, cache, queued, pc, unrecorded>>

\* Cycles are much shorter than MaxSampleAge: time passes as long as no
\* observation in use becomes stale by it.
InTime == \A p \in Procs :
    pc[p] \in {"decide", "policy", "scale"} => Horizon - loc[p].obs.at < MaxSampleAge

Tick ==
    /\ InTime
    /\ Pass
    /\ UNCHANGED events

-----------------------------------------------------------------------------
(* Disturbances, at most MaxEvents of the kinds in Kinds.                  *)

Disturb(kind) ==
    /\ kind \in Kinds
    /\ events < MaxEvents
    /\ events' = events + 1

PHPAChanges ==
    /\ loc' = PHPAWritten(loc)
    /\ UNCHANGED <<deployment, cpu, cache, queued, pc, hist, steady>>

EditPolicy(policy) ==
    /\ Disturb("edit")
    /\ phpa.exists /\ phpa.policy # policy
    /\ phpa' = [phpa EXCEPT !.policy = policy, !.gen = @ + 1]
    /\ PHPAChanges
    /\ UNCHANGED unrecorded

\* A finalizer of someone else delays the deletion.
BeginDeletePHPA ==
    /\ Disturb("delete")
    /\ phpa.exists /\ ~phpa.deleting
    /\ phpa' = [phpa EXCEPT !.deleting = TRUE, !.gen = @ + 1]
    /\ PHPAChanges
    /\ UNCHANGED unrecorded

DeletePHPA ==
    /\ Disturb("delete")
    /\ phpa.exists
    /\ phpa' = AbsentPHPA(phpa.uid)
    /\ PHPAChanges
    /\ unrecorded' = FALSE

\* A new object of the same name: what existed before it was not its doing.
CreatePHPA(policy) ==
    /\ Disturb("create")
    /\ ~phpa.exists
    /\ phpa' = NewPHPA(phpa.uid + 1, policy)
    /\ PHPAChanges
    /\ unrecorded' = FALSE

DeploymentChanges ==
    /\ loc' = ScaleWritten(loc)
    /\ cache' = [q \in Procs |-> [cache[q] EXCEPT !.news = TRUE]]
    /\ UNCHANGED <<phpa, cpu, queued, pc, hist, unrecorded>>

BeginDeleteDeployment ==
    /\ Disturb("target")
    /\ deployment.exists /\ ~deployment.deleting
    /\ deployment' = [deployment EXCEPT !.deleting = TRUE]
    /\ DeploymentChanges
    /\ UNCHANGED steady

DeleteDeployment ==
    /\ Disturb("target")
    /\ deployment.exists
    /\ deployment' = AbsentDeployment(deployment.uid)
    /\ DeploymentChanges
    /\ UNCHANGED steady

CreateDeployment(replicas) ==
    /\ Disturb("target")
    /\ ~deployment.exists
    /\ deployment' = NewDeployment(deployment.uid + 1, replicas)
    /\ DeploymentChanges
    /\ steady' = [p \in Procs |-> Horizon]

ScaleByOther(replicas) ==
    /\ Disturb("scale")
    /\ deployment.exists /\ deployment.requested # replicas
    /\ deployment' = [deployment EXCEPT !.requested = replicas]
    /\ DeploymentChanges
    /\ steady' = [p \in Procs |-> Horizon]

ChangeCpu(value) ==
    /\ Disturb("cpu")
    /\ cpu' = value /\ value # cpu
    /\ UNCHANGED <<phpa, deployment, procVars, steady, unrecorded>>

\* The process dies and a new one starts, or the lease moves: the caches are
\* listed afresh and every object found is queued.
Restart(p) ==
    /\ Disturb("crash")
    /\ cache' = [cache EXCEPT ![p] = [phpa |-> SeenPHPA, deployment |-> SeenDeployment, news |-> FALSE]]
    /\ queued' = [queued EXCEPT ![p] = phpa.exists]
    /\ pc' = [pc EXCEPT ![p] = "idle"]
    /\ loc' = [loc EXCEPT ![p] = NoWork]
    /\ hist' = [hist EXCEPT ![p] = NoHistory]
    /\ steady' = [steady EXCEPT ![p] = 0]
    /\ UNCHANGED <<api, unrecorded>>

\* Any call fails: most are errors that are retried, the provider's and
\* validateStatusTarget's become an unavailable status.
CallFails(p) ==
    /\ Disturb("fault")
    /\ \/ pc[p] \in {"decide", "policy", "scale", "write", "publish", "patch"} /\ Requeue(p)
       \/ pc[p] \in {"query", "verify"} /\ Unavailable(p, loc[p]) /\ UNCHANGED queued
    /\ UNCHANGED <<api, cache, hist, steady, unrecorded>>

\* The Update is applied but its answer is lost.
LoseAnswer(p) ==
    /\ Disturb("fault")
    /\ pc[p] = "write" /\ SameScale(p)
    /\ CommitScale(p)
    /\ queued' = [queued EXCEPT ![p] = TRUE]
    /\ pc' = [pc EXCEPT ![p] = "idle"]
    /\ loc' = ScaleWritten([loc EXCEPT ![p] = NoWork])
    /\ UNCHANGED <<phpa, cpu, hist>>

\* A cycle is slow: an observation becomes stale while it is in use.
Linger ==
    /\ Disturb("slow")
    /\ ~InTime
    /\ Pass

\* The watch broke and the objects are listed again: a deletion in between is
\* seen as an update to an object with another UID.
RelistPHPA(p) ==
    /\ Disturb("relist")
    /\ cache[p].phpa # SeenPHPA
    /\ Deliver(p, SeenPHPA)

Disturbance ==
    \/ \E policy \in Policies : EditPolicy(policy) \/ CreatePHPA(policy)
    \/ BeginDeletePHPA \/ DeletePHPA
    \/ BeginDeleteDeployment \/ DeleteDeployment
    \/ \E replicas \in Counts : CreateDeployment(replicas) \/ ScaleByOther(replicas)
    \/ \E value \in Cpus : ChangeCpu(value)
    \/ \E p \in Procs : Restart(p) \/ CallFails(p) \/ LoseAnswer(p) \/ RelistPHPA(p)
    \/ Linger

Background == ObserveReplicas \/ \E p \in Procs : SyncPHPA(p) \/ SyncDeployment(p)

Next ==
    \/ \E p \in Procs : Reconciling(p)
    \/ Background
    \/ Tick
    \/ Disturbance

Spec == Init /\ [][Next]_vars

\* The work queue hands out every key; informers and the deployment controller
\* do not all stand still; and time passes between the cycles however often one
\* is in progress (strong fairness: a poll comes 30 s after the last).
FairSpec ==
    /\ Spec
    /\ \A p \in Procs : WF_vars(Reconciling(p))
    /\ WF_vars(Background)
    /\ SF_vars(Tick)

-----------------------------------------------------------------------------
TypeOK ==
    /\ phpa.uid \in Nat \ {0} /\ phpa.gen \in 0..(1 + MaxEvents)
    /\ phpa.exists => phpa.policy \in Policies
    /\ phpa.status.gen <= phpa.gen
    /\ deployment.uid \in Nat \ {0} /\ deployment.requested \in Nat /\ deployment.observed \in Nat
    /\ cpu \in Cpus
    /\ \A p \in Procs :
          /\ queued[p] \in BOOLEAN
          /\ pc[p] \in {"idle", "query", "decide", "policy", "scale", "write",
                       "verify", "publish", "patch"}
          /\ loc[p].report = "None" <=> pc[p] \in {"idle", "query", "decide"}
          /\ loc[p].scaled => pc[p] \in {"verify", "publish", "patch"}
          /\ steady[p] \in 0..Horizon

Writes(p) ==
    /\ pc[p] = "write" /\ pc'[p] # "write"
    /\ deployment' = [deployment EXCEPT !.requested = loc[p].final]
    /\ SameScale(p)

(***************************************************************************)
(* A write replaces the request its decision was based on, on the          *)
(* Deployment it was made for, with observations of that Deployment's own  *)
(* pods: never another writer's newer count, nor a count computed from the *)
(* utilisation of a Deployment that has since been replaced.               *)
(***************************************************************************)
WritesOwnBase ==
    [][\A p \in Procs : Writes(p) =>
          /\ deployment.requested = loc[p].requested
          /\ deployment.uid = loc[p].obs.of]_vars

(***************************************************************************)
(* A status describes the generation it says it does: every patch reaches  *)
(* the incarnation and generation the cycle started from, whatever edits,  *)
(* deletions and re-creations interleave with it.                          *)
(***************************************************************************)
StatusOfLiveGeneration ==
    [][phpa'.status # phpa.status /\ phpa'.uid = phpa.uid /\ phpa'.exists =>
          /\ ~phpa.deleting
          /\ phpa'.status.gen = phpa'.gen
          /\ \E p \in Procs : Publishes(p) /\ loc[p].phpa.uid = phpa.uid]_vars

(***************************************************************************)
(* A live PredictiveHPA is never forgotten: its key is queued or in        *)
(* progress, or an event that queues it is still to be delivered.          *)
(***************************************************************************)
NeverForgotten ==
    phpa.exists /\ ~phpa.deleting =>
        \A p \in Procs : queued[p] \/ pc[p] # "idle" \/ cache[p].phpa # SeenPHPA

(***************************************************************************)
(* A restart does not cost capacity: until a whole window has passed since *)
(* the process started, it does not lower a request that nobody else has   *)
(* changed, except to maxReplicas.                                         *)
(***************************************************************************)
NoReductionSoonAfterRestart ==
    [][\A p \in Procs :
          LET policy == loc[p].phpa.policy
          IN  Writes(p) /\ policy.window > 0 /\ steady[p] <= policy.window =>
                  \/ deployment'.requested >= deployment.requested
                  \/ deployment'.requested = policy.maximum]_vars

(***************************************************************************)
(* "lastScaleTime is the last time the controller adjusted the replica     *)
(* count" (api/v1alpha1/predictivehpa_types.go:155): a published decision  *)
(* never leaves an earlier adjustment of this object out.                  *)
(***************************************************************************)
LastScaleTimeIsLatest ==
    [][\A p \in Procs :
          Publishes(p) /\ pc'[p] = "idle" /\ loc[p].report = "Decided"
             => ~unrecorded']_vars

-----------------------------------------------------------------------------
(* What must come about once the disturbances are over.                    *)

Managed ==
    /\ phpa.exists /\ ~phpa.deleting /\ validateConfiguration(phpa.policy)
    /\ deployment.exists /\ ~deployment.deleting

Hot  == ~ withinTolerance(cpu, phpa.policy.target) /\ cpu > phpa.policy.target
Idle == cpu = 0

(***************************************************************************)
(* Persistent demand above the tolerance band ends at maxReplicas, through *)
(* conflicts, stale caches, failed calls, restarts and lost answers.       *)
(***************************************************************************)
DemandIsMet ==
    <>[](Managed /\ Hot) => <>[](deployment.requested = phpa.policy.maximum)

(***************************************************************************)
(* An idle workload ends at minReplicas: no peak and no guard holds        *)
(* capacity for ever.                                                      *)
(***************************************************************************)
CapacityIsReleased ==
    <>[](Managed /\ Idle) => <>[](deployment.requested = Floor(phpa.policy.minimum))

(***************************************************************************)
(* The status catches up with the object: it ends ready, for the live      *)
(* generation and at the count requested of the Deployment.                *)
(***************************************************************************)
StatusCatchesUp ==
    <>[](Managed /\ (Hot \/ Idle)) =>
        <>[](/\ phpa.status.ready = "True"
             /\ phpa.status.gen = phpa.gen
             /\ phpa.status.desired = deployment.requested)
=============================================================================
