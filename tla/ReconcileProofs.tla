--------------------------- MODULE ReconcileProofs ---------------------------
(***************************************************************************)
(* What Reconcile writes is based on what it read, for any number of       *)
(* processes that believe to lead, any policies, utilisations, forecasts   *)
(* and disturbances; and no live object is forgotten by any of them.       *)
(***************************************************************************)
EXTENDS Reconcile, Extremes, SequenceTheorems

\* A value that is a record with these fields; the actions change them one by one.
Has(r, fields) == r = [f \in fields |-> r[f]]

WorkFields       == {"phpa", "target", "obs", "requested", "scaleFresh", "final", "evaluated",
                     "scaled", "report", "phpaFresh"}
ObsFields        == {"value", "at", "of"}
PHPAFields       == {"exists", "uid", "gen", "deleting", "policy", "status"}
StatusFields     == {"ready", "gen", "desired"}
DeploymentFields == {"exists", "uid", "deleting", "requested", "observed"}

WorkShape(work) == Has(work, WorkFields) /\ Has(work.obs, ObsFields)

\* Where Reconcile is between an observation and the use of it.
Deciding == {"decide", "policy", "scale", "write"}

(***************************************************************************)
(* The local variables of a cycle that is at step at.  A Scale whose       *)
(* resourceVersion is still the live one holds the request that was read;  *)
(* observations are of the target's own pods; an object whose              *)
(* resourceVersion is still the live one has the policy that was read.     *)
(***************************************************************************)
Sound(at, work) ==
    /\ WorkShape(work)
    /\ work.scaleFresh => deployment.requested = work.requested
    /\ at \in Deciding => work.obs.of = work.target
    /\ work.phpaFresh => SamePolicy(work)

Shapes ==
    /\ Has(phpa, PHPAFields) /\ Has(phpa.status, StatusFields)
    /\ Has(deployment, DeploymentFields)
    /\ Has(pc, Procs) /\ Has(loc, Procs)

FInv == Shapes /\ \A p \in Procs : Sound(pc[p], loc[p])

(***************************************************************************)
(* A cycle that is over, or has only its report left, claims nothing.      *)
(***************************************************************************)
LEMMA NoWorkSound ==
    ASSUME NEW at, at \notin Deciding
    PROVE  Sound(at, NoWork) /\ Sound(at, NoWork)'
  BY DEF Sound, WorkShape, Has, WorkFields, ObsFields, NoWork, NoObservation

(***************************************************************************)
(* Before anything runs, every cycle is over.                              *)
(***************************************************************************)
LEMMA InitSound == ASSUME Init PROVE FInv
<1>1. PICK policy \in Policies : phpa = NewPHPA(1, policy)
  BY DEF Init
<1>2. PICK replicas \in Counts :
         deployment = [NewDeployment(1, replicas) EXCEPT !.observed = replicas]
  BY DEF Init
<1>3. pc = [p \in Procs |-> "idle"] /\ loc = [p \in Procs |-> NoWork]
  BY DEF Init
<1>4. Shapes
  BY <1>1, <1>2, <1>3 DEF Shapes, Has, PHPAFields, StatusFields, DeploymentFields,
       NewPHPA, NewDeployment, NoStatus
<1>5. ASSUME NEW p \in Procs PROVE Sound(pc[p], loc[p])
  BY <1>3, NoWorkSound DEF Deciding
<1>6. QED
  BY <1>4, <1>5 DEF FInv
-----------------------------------------------------------------------------
(***************************************************************************)
(* One process goes on, or ends its cycle, and leaves the API server alone.*)
(***************************************************************************)
LEMMA StepKeeps ==
    ASSUME FInv, NEW p \in Procs, NEW next, NEW work,
           pc' = [pc EXCEPT ![p] = next], loc' = [loc EXCEPT ![p] = work],
           UNCHANGED <<phpa, deployment>>,
           Sound(next, work)
    PROVE  FInv'
<1>1. Shapes'
  BY DEF FInv, Shapes, Has
<1>2. ASSUME NEW q \in Procs PROVE Sound(pc[q], loc[q])'
  <2>1. CASE q = p
    <3>1. pc'[q] = next /\ loc'[q] = work
      BY <2>1 DEF FInv, Shapes, Has
    <3>2. QED
      BY <3>1 DEF Sound, SamePolicy
  <2>2. CASE q # p
    <3>1. pc'[q] = pc[q] /\ loc'[q] = loc[q] /\ Sound(pc[q], loc[q])
      BY <2>2 DEF FInv, Shapes, Has
    <3>2. QED
      BY <3>1 DEF Sound, SamePolicy
  <2>3. QED
    BY <2>1, <2>2
<1>3. QED
  BY <1>1, <1>2 DEF FInv

(***************************************************************************)
(* A cycle ends, or goes on to publish that metrics are unavailable.       *)
(***************************************************************************)
LEMMA EndKeeps ==
    ASSUME FInv, NEW p \in Procs, UNCHANGED <<phpa, deployment>>,
           Rest(p) \/ Unavailable(p, loc[p])
    PROVE  FInv'
<1>1. CASE Rest(p)
  BY <1>1, NoWorkSound, StepKeeps DEF Rest, Deciding
<1>2. CASE Unavailable(p, loc[p])
  <2> DEFINE work == [NoWork EXCEPT !.phpa = loc[p].phpa, !.evaluated = loc[p].evaluated,
                                    !.report = "Unavailable"]
  <2>1. pc' = [pc EXCEPT ![p] = "publish"] /\ loc' = [loc EXCEPT ![p] = work]
    BY <1>2 DEF Unavailable, Continue
  <2>2. WorkShape(loc[p])
    BY DEF FInv, Sound
  <2>3. Sound("publish", work)
    BY <2>2 DEF Sound, WorkShape, Has, WorkFields, ObsFields, NoWork, NoObservation, Deciding
  <2> HIDE DEF work
  <2>4. QED
    BY <2>1, <2>3, StepKeeps
<1>3. QED
  BY <1>1, <1>2

(***************************************************************************)
(* A write to the Deployment: whatever was read of its Scale is no longer  *)
(* the live version.  The cycles may have moved on by then.                *)
(***************************************************************************)
LEMMA ScaleWriteKeeps ==
    ASSUME FInv, NEW locals, NEW steps,
           Has(locals, Procs), Has(steps, Procs),
           \A p \in Procs : /\ WorkShape(locals[p])
                            /\ steps[p] \in Deciding => locals[p].obs.of = locals[p].target
                            /\ locals[p].phpaFresh => SamePolicy(locals[p]),
           pc' = steps, loc' = ScaleWritten(locals), phpa' = phpa,
           Has(deployment', DeploymentFields)
    PROVE  FInv'
<1>1. Shapes'
  BY DEF FInv, Shapes, Has, ScaleWritten
<1>2. ASSUME NEW p \in Procs PROVE Sound(pc[p], loc[p])'
  <2>1. loc'[p] = [locals[p] EXCEPT !.scaleFresh = FALSE] /\ pc'[p] = steps[p]
    BY DEF ScaleWritten
  <2>2. WorkShape(locals[p])
    OBVIOUS
  <2>3. /\ WorkShape(loc'[p]) /\ ~loc'[p].scaleFresh
        /\ loc'[p].obs = locals[p].obs /\ loc'[p].target = locals[p].target
        /\ loc'[p].phpa = locals[p].phpa /\ loc'[p].phpaFresh = locals[p].phpaFresh
    BY <2>1, <2>2 DEF WorkShape, Has, WorkFields, ObsFields
  <2>4. QED
    BY <2>1, <2>3 DEF Sound, SamePolicy, WorkShape, Has, WorkFields, ObsFields
<1>3. QED
  BY <1>1, <1>2 DEF FInv

(***************************************************************************)
(* A write to the PredictiveHPA, likewise.                                 *)
(***************************************************************************)
LEMMA PHPAWriteKeeps ==
    ASSUME FInv, NEW locals, NEW steps,
           Has(locals, Procs), Has(steps, Procs),
           \A p \in Procs : Sound(steps[p], locals[p]),
           pc' = steps, loc' = PHPAWritten(locals), deployment' = deployment,
           Has(phpa', PHPAFields), Has(phpa'.status, StatusFields)
    PROVE  FInv'
<1>1. Shapes'
  BY DEF FInv, Shapes, Has, PHPAWritten
<1>2. ASSUME NEW p \in Procs PROVE Sound(pc[p], loc[p])'
  <2>1. loc'[p] = [locals[p] EXCEPT !.phpaFresh = FALSE] /\ pc'[p] = steps[p]
    BY DEF PHPAWritten
  <2>2. Sound(steps[p], locals[p])
    OBVIOUS
  <2>3. /\ WorkShape(loc'[p]) /\ ~loc'[p].phpaFresh
        /\ loc'[p].obs = locals[p].obs /\ loc'[p].target = locals[p].target
        /\ loc'[p].requested = locals[p].requested
        /\ loc'[p].scaleFresh = locals[p].scaleFresh
    BY <2>1, <2>2 DEF WorkShape, Has, WorkFields, ObsFields, Sound
  <2>4. QED
    BY <2>1, <2>2, <2>3 DEF Sound, WorkShape, Has, WorkFields, ObsFields
<1>3. QED
  BY <1>1, <1>2 DEF FInv

(***************************************************************************)
(* Steps that touch neither object nor any cycle.                          *)
(***************************************************************************)
LEMMA ElsewhereKeeps ==
    ASSUME FInv, UNCHANGED <<phpa, deployment, pc, loc>>
    PROVE  FInv'
  BY DEF FInv, Shapes, Sound, SamePolicy
-----------------------------------------------------------------------------
(***************************************************************************)
(* Reconcile's own calls, the writes excepted.                             *)
(***************************************************************************)
LEMMA CallsKeep ==
    ASSUME FInv, NEW p \in Procs,
           \/ DropDeleted(p) \/ IgnoreDeleting(p) \/ Begin(p) \/ Query(p) \/ Decide(p)
           \/ RecheckPolicy(p) \/ RecheckScale(p) \/ VerifyTarget(p) \/ ReadForStatus(p)
           \/ CallFails(p)
    PROVE  FInv'
<1> DEFINE own == loc[p]
<1>1. Sound(pc[p], own) /\ WorkShape(own)
  BY DEF FInv, Sound
<1>2. CASE DropDeleted(p) \/ IgnoreDeleting(p)
  BY <1>2, ElsewhereKeeps DEF DropDeleted, IgnoreDeleting, Dequeue, api
<1>3. CASE Begin(p)
  <2> DEFINE seen == cache[p].phpa
             work == [NoWork EXCEPT !.phpa = [uid |-> seen.uid, gen |-> seen.gen,
                                              policy |-> seen.policy],
                                    !.target = cache[p].deployment.uid]
             report == [NoWork EXCEPT !.phpa = work.phpa, !.evaluated = work.evaluated,
                                      !.report = "Unavailable"]
  <2>1. UNCHANGED <<phpa, deployment>> /\ (Continue(p, "query", work) \/ Unavailable(p, work))
    BY <1>3 DEF Begin, Dequeue, api
  <2>2. Sound("query", work) /\ Sound("publish", report)
    BY DEF Sound, WorkShape, Has, WorkFields, ObsFields, NoWork, NoObservation, Deciding
  <2>3. CASE Continue(p, "query", work)
    <3> HIDE DEF work
    <3>1. QED
      BY <2>1, <2>2, <2>3, StepKeeps DEF Continue
  <2>4. CASE Unavailable(p, work)
    <3>1. pc' = [pc EXCEPT ![p] = "publish"] /\ loc' = [loc EXCEPT ![p] = report]
      BY <2>4 DEF Unavailable, Continue
    <3> HIDE DEF report
    <3>2. QED
      BY <2>1, <2>2, <3>1, StepKeeps
  <2>5. QED
    BY <2>1, <2>3, <2>4
<1>4. CASE Query(p)
  <2>1. UNCHANGED <<phpa, deployment>>
    BY <1>4 DEF Query, api
  <2>2. ASSUME NEW age \in 0..MaxSampleAge, LiveTarget(p),
               Continue(p, "decide", [own EXCEPT
                   !.obs = [value |-> cpu, at |-> Horizon - age, of |-> deployment.uid]])
        PROVE  FInv'
    <3> DEFINE work == [own EXCEPT !.obs = [value |-> cpu, at |-> Horizon - age,
                                            of |-> deployment.uid]]
    <3>1. deployment.uid = own.target
      BY <2>2 DEF LiveTarget
    <3>2. Sound("decide", work)
      BY <1>1, <3>1 DEF Sound, WorkShape, Has, WorkFields, ObsFields, SamePolicy
    <3>3. pc' = [pc EXCEPT ![p] = "decide"] /\ loc' = [loc EXCEPT ![p] = work]
      BY <2>2 DEF Continue
    <3> HIDE DEF work
    <3>4. QED
      BY <2>1, <3>2, <3>3, StepKeeps
  <2>3. CASE Unavailable(p, own)
    BY <2>1, <2>3, EndKeeps
  <2>4. QED
    BY <1>4, <2>2, <2>3 DEF Query
<1>5. CASE Decide(p)
  <2>1. UNCHANGED <<phpa, deployment>> /\ pc[p] = "decide"
    BY <1>5 DEF Decide, api
  <2>2. CASE Recommend(p)
    <3>1. PICK final :
             \E next \in {"policy", "verify"} :
               Continue(p, next, [own EXCEPT !.requested = deployment.requested,
                                             !.scaleFresh = TRUE, !.final = final,
                                             !.evaluated = TRUE, !.report = "Decided"])
      BY <2>2 DEF Recommend
    <3> DEFINE work == [own EXCEPT !.requested = deployment.requested,
                                   !.scaleFresh = TRUE, !.final = final,
                                   !.evaluated = TRUE, !.report = "Decided"]
    <3>2. PICK next \in {"policy", "verify"} : Continue(p, next, work)
      BY <3>1
    <3>3. Sound(next, work)
      BY <1>1, <2>1 DEF Sound, WorkShape, Has, WorkFields, ObsFields, SamePolicy, Deciding
    <3>4. pc' = [pc EXCEPT ![p] = next] /\ loc' = [loc EXCEPT ![p] = work]
      BY <3>2 DEF Continue
    <3> HIDE DEF work
    <3>5. QED
      BY <2>1, <3>3, <3>4, StepKeeps
  <2>3. CASE Rest(p) \/ Unavailable(p, own)
    BY <2>1, <2>3, EndKeeps
  <2>4. QED
    BY <1>5, <2>2, <2>3 DEF Decide, Requeue
<1>6. CASE RecheckPolicy(p) \/ RecheckScale(p)
  <2>1. UNCHANGED <<phpa, deployment>> /\ pc[p] \in Deciding
    BY <1>6 DEF RecheckPolicy, RecheckScale, api, Deciding
  <2>2. CASE Rest(p) \/ Unavailable(p, own)
    BY <2>1, <2>2, EndKeeps
  <2>3. ASSUME NEW next \in {"scale", "write"}, Continue(p, next, own) PROVE FInv'
    <3>1. Sound(next, own)
      BY <1>1, <2>1 DEF Sound
    <3>2. QED
      BY <2>1, <2>3, <3>1, StepKeeps DEF Continue
  <2>4. QED
    BY <1>6, <2>2, <2>3 DEF RecheckPolicy, RecheckScale, Requeue
<1>7. CASE VerifyTarget(p)
  <2>1. UNCHANGED <<phpa, deployment>>
    BY <1>7 DEF VerifyTarget, api
  <2> DEFINE work == [own EXCEPT !.obs = NoObservation, !.scaleFresh = FALSE]
  <2>2. CASE Continue(p, "publish", work)
    <3>1. Sound("publish", work)
      BY <1>1 DEF Sound, WorkShape, Has, WorkFields, ObsFields, SamePolicy, NoObservation, Deciding
    <3> HIDE DEF work
    <3>2. QED
      BY <2>1, <2>2, <3>1, StepKeeps DEF Continue
  <2>3. CASE Unavailable(p, own)
    BY <2>1, <2>3, EndKeeps
  <2>4. QED
    BY <1>7, <2>2, <2>3 DEF VerifyTarget
<1>8. CASE ReadForStatus(p)
  <2>1. UNCHANGED <<phpa, deployment>>
    BY <1>8 DEF ReadForStatus, api
  <2> DEFINE work == [own EXCEPT !.phpaFresh = TRUE]
  <2>2. CASE SamePolicy(own) /\ Continue(p, "patch", work)
    <3>1. Sound("patch", work)
      BY <1>1, <2>2 DEF Sound, WorkShape, Has, WorkFields, ObsFields, SamePolicy, Deciding
    <3>2. pc' = [pc EXCEPT ![p] = "patch"] /\ loc' = [loc EXCEPT ![p] = work]
      BY <2>2 DEF Continue
    <3> HIDE DEF work
    <3>3. QED
      BY <2>1, <3>1, <3>2, StepKeeps
  <2>3. CASE Rest(p)
    BY <2>1, <2>3, EndKeeps
  <2>4. QED
    BY <1>8, <2>2, <2>3 DEF ReadForStatus, Requeue
<1>9. CASE CallFails(p)
  BY <1>9, EndKeeps DEF CallFails, Requeue, api
<1>10. QED
  BY <1>2, <1>3, <1>4, <1>5, <1>6, <1>7, <1>8, <1>9
-----------------------------------------------------------------------------
(***************************************************************************)
(* The writes to the Deployment: by this process, whether it learns of it  *)
(* or not, by other writers and by the deployment controller.              *)
(***************************************************************************)
LEMMA DeploymentWritesKeep ==
    ASSUME FInv,
           \/ \E p \in Procs : Update(p) \/ LoseAnswer(p)
           \/ ObserveReplicas \/ BeginDeleteDeployment \/ DeleteDeployment
           \/ \E replicas \in Counts : CreateDeployment(replicas) \/ ScaleByOther(replicas)
    PROVE  FInv'
<1>1. /\ Has(deployment, DeploymentFields) /\ Has(pc, Procs) /\ Has(loc, Procs)
      /\ \A p \in Procs : /\ WorkShape(loc[p])
                          /\ pc[p] \in Deciding => loc[p].obs.of = loc[p].target
                          /\ loc[p].phpaFresh => SamePolicy(loc[p])
  BY DEF FInv, Shapes, Sound
<1>2. ASSUME NEW p \in Procs, Update(p) PROVE FInv'
  <2>1. CASE CommitScale(p) /\ pc' = [pc EXCEPT ![p] = "verify"]
             /\ loc' = ScaleWritten([loc EXCEPT ![p].scaled = TRUE, ![p].obs = NoObservation])
    <3> DEFINE locals == [loc EXCEPT ![p].scaled = TRUE, ![p].obs = NoObservation]
               steps == [pc EXCEPT ![p] = "verify"]
    <3>1. Has(locals, Procs) /\ Has(steps, Procs)
      BY <1>1 DEF Has
    <3>2. ASSUME NEW q \in Procs
          PROVE  /\ WorkShape(locals[q])
                 /\ steps[q] \in Deciding => locals[q].obs.of = locals[q].target
                 /\ locals[q].phpaFresh => SamePolicy(locals[q])
      <4>1. CASE q # p
        <5>1. locals[q] = loc[q] /\ steps[q] = pc[q]
          BY <1>1, <4>1 DEF Has
        <5>2. QED
          BY <1>1, <5>1
      <4>2. CASE q = p
        <5>1. steps[q] = "verify"
              /\ locals[q] = [loc[p] EXCEPT !.scaled = TRUE, !.obs = NoObservation]
          BY <1>1, <4>2 DEF Has
        <5>2. WorkShape(loc[p]) /\ (loc[p].phpaFresh => SamePolicy(loc[p]))
          BY <1>1
        <5> HIDE DEF locals, steps
        <5> DEFINE work == loc[p]
        <5>3. WorkShape([work EXCEPT !.scaled = TRUE, !.obs = NoObservation])
          BY <5>2 DEF WorkShape, Has, WorkFields, ObsFields, NoObservation
        <5>4. /\ [work EXCEPT !.scaled = TRUE, !.obs = NoObservation].phpa = work.phpa
              /\ [work EXCEPT !.scaled = TRUE, !.obs = NoObservation].phpaFresh = work.phpaFresh
          BY <5>2 DEF WorkShape, Has, WorkFields
        <5>5. QED
          BY <5>1, <5>2, <5>3, <5>4 DEF SamePolicy, Deciding
      <4>3. QED
        BY <4>1, <4>2
    <3>3. pc' = steps /\ loc' = ScaleWritten(locals) /\ phpa' = phpa
      BY <1>2, <2>1 DEF Update
    <3>4. Has(deployment', DeploymentFields)
      BY <1>1, <2>1 DEF CommitScale, Has, DeploymentFields
    <3> HIDE DEF locals, steps
    <3>5. QED
      BY <3>1, <3>2, <3>3, <3>4, ScaleWriteKeeps
  <2>2. CASE Requeue(p) /\ UNCHANGED <<deployment, cache, unrecorded, steady>>
    <3>1. UNCHANGED <<phpa, deployment>> /\ Rest(p)
      BY <1>2, <2>2 DEF Update, Requeue
    <3>2. QED
      BY <3>1, EndKeeps
  <2>3. QED
    BY <1>2, <2>1, <2>2 DEF Update
<1>3. ASSUME NEW p \in Procs, LoseAnswer(p) PROVE FInv'
  <2> DEFINE locals == [loc EXCEPT ![p] = NoWork]
             steps == [pc EXCEPT ![p] = "idle"]
  <2>1. Has(locals, Procs) /\ Has(steps, Procs)
    BY <1>1 DEF Has
  <2>2. ASSUME NEW q \in Procs
        PROVE  /\ WorkShape(locals[q])
               /\ steps[q] \in Deciding => locals[q].obs.of = locals[q].target
               /\ locals[q].phpaFresh => SamePolicy(locals[q])
    <3>1. CASE q # p
      <4>1. locals[q] = loc[q] /\ steps[q] = pc[q]
        BY <1>1, <3>1 DEF Has
      <4>2. QED
        BY <1>1, <4>1
    <3>2. CASE q = p
      <4>1. steps[q] = "idle" /\ locals[q] = NoWork
        BY <1>1, <3>2 DEF Has
      <4> HIDE DEF locals, steps
      <4>2. QED
        BY <4>1 DEF WorkShape, Has, WorkFields, ObsFields, NoObservation, NoWork, Deciding
    <3>3. QED
      BY <3>1, <3>2
  <2>3. pc' = steps /\ loc' = ScaleWritten(locals) /\ phpa' = phpa
    BY <1>3 DEF LoseAnswer
  <2>4. Has(deployment', DeploymentFields)
    BY <1>1, <1>3 DEF LoseAnswer, CommitScale, Has, DeploymentFields
  <2> HIDE DEF locals, steps
  <2>5. QED
    BY <2>1, <2>2, <2>3, <2>4, ScaleWriteKeeps
<1>4. ASSUME pc' = pc, loc' = ScaleWritten(loc), phpa' = phpa, Has(deployment', DeploymentFields)
      PROVE  FInv'
  BY <1>1, <1>4, ScaleWriteKeeps
<1>5. CASE ObserveReplicas \/ BeginDeleteDeployment \/ DeleteDeployment
  BY <1>1, <1>4, <1>5 DEF ObserveReplicas, BeginDeleteDeployment, DeleteDeployment,
       DeploymentChanges, AbsentDeployment, Has, DeploymentFields
<1>6. ASSUME NEW replicas \in Counts, CreateDeployment(replicas) \/ ScaleByOther(replicas)
      PROVE  FInv'
  BY <1>1, <1>4, <1>6 DEF CreateDeployment, ScaleByOther, DeploymentChanges,
       NewDeployment, Has, DeploymentFields
<1>7. QED
  BY <1>2, <1>3, <1>5, <1>6

(***************************************************************************)
(* The writes to the PredictiveHPA: the status patch and the user's.       *)
(***************************************************************************)
LEMMA PHPAWritesKeep ==
    ASSUME FInv,
           \/ \E p \in Procs : PatchStatus(p)
           \/ \E policy \in Policies : EditPolicy(policy) \/ CreatePHPA(policy)
           \/ BeginDeletePHPA \/ DeletePHPA
    PROVE  FInv'
<1>1. /\ Has(phpa, PHPAFields) /\ Has(phpa.status, StatusFields)
      /\ Has(pc, Procs) /\ Has(loc, Procs)
      /\ \A p \in Procs : Sound(pc[p], loc[p])
  BY DEF FInv, Shapes
<1>2. ASSUME NEW p \in Procs, PatchStatus(p) PROVE FInv'
  <2> DEFINE locals == [loc EXCEPT ![p] = NoWork]
             steps == [pc EXCEPT ![p] = "idle"]
  <2>1. pc' = steps /\ deployment' = deployment
    BY <1>2 DEF PatchStatus
  <2>2. CASE Publishes(p)
    <3>1. Has(locals, Procs) /\ Has(steps, Procs)
      BY <1>1 DEF Has
    <3>2. ASSUME NEW q \in Procs PROVE Sound(steps[q], locals[q])
      <4>1. CASE q # p
        <5>1. locals[q] = loc[q] /\ steps[q] = pc[q]
          BY <1>1, <4>1 DEF Has
        <5>2. QED
          BY <1>1, <5>1
      <4>2. CASE q = p
        <5>1. steps[q] = "idle" /\ locals[q] = NoWork
          BY <1>1, <4>2 DEF Has
        <5> HIDE DEF locals, steps
        <5>2. QED
          BY <5>1, NoWorkSound DEF Deciding
      <4>3. QED
        BY <4>1, <4>2
    <3>3. loc' = PHPAWritten(locals) /\ phpa' = [phpa EXCEPT !.status = Status(loc[p])]
      BY <1>2, <2>2 DEF PatchStatus
    <3>4. Has(Status(loc[p]), StatusFields)
      BY <1>1 DEF Status, Has, StatusFields
    <3>5. Has(phpa', PHPAFields) /\ phpa'.status = Status(loc[p])
      BY <1>1, <3>3 DEF Has, PHPAFields
    <3>6. Has(phpa'.status, StatusFields)
      BY <3>4, <3>5
    <3> HIDE DEF locals, steps
    <3>7. QED
      BY <2>1, <3>1, <3>2, <3>3, <3>5, <3>6, PHPAWriteKeeps
  <2>3. CASE ~Publishes(p)
    <3>1. Rest(p) /\ UNCHANGED <<phpa, deployment>>
      BY <1>2, <2>3 DEF PatchStatus, Rest
    <3>2. QED
      BY <3>1, EndKeeps
  <2>4. QED
    BY <2>2, <2>3
<1>3. ASSUME pc' = pc, loc' = PHPAWritten(loc), deployment' = deployment,
             Has(phpa', PHPAFields), Has(phpa'.status, StatusFields)
      PROVE  FInv'
  BY <1>1, <1>3, PHPAWriteKeeps
<1>4. ASSUME NEW policy \in Policies, EditPolicy(policy) \/ CreatePHPA(policy) PROVE FInv'
  <2>1. PHPAChanges
    BY <1>4 DEF EditPolicy, CreatePHPA
  <2>2. \/ phpa' = [phpa EXCEPT !.policy = policy, !.gen = @ + 1]
        \/ phpa' = NewPHPA(phpa.uid + 1, policy)
    BY <1>4 DEF EditPolicy, CreatePHPA
  <2>3. Has(phpa', PHPAFields) /\ Has(phpa'.status, StatusFields)
    <3>1. CASE phpa' = [phpa EXCEPT !.policy = policy, !.gen = @ + 1]
      <4>1. Has(phpa', PHPAFields)
        BY <1>1, <3>1 DEF Has, PHPAFields
      <4>2. phpa'.status = phpa.status
        BY <1>1, <3>1 DEF Has, PHPAFields
      <4>3. QED
        BY <1>1, <4>1, <4>2
    <3>2. CASE phpa' = NewPHPA(phpa.uid + 1, policy)
      BY <3>2 DEF NewPHPA, NoStatus, Has, PHPAFields, StatusFields
    <3>3. QED
      BY <2>2, <3>1, <3>2
  <2>4. QED
    BY <1>3, <2>1, <2>3 DEF PHPAChanges
<1>5. CASE BeginDeletePHPA \/ DeletePHPA
  <2>1. PHPAChanges
    BY <1>5 DEF BeginDeletePHPA, DeletePHPA
  <2>2. \/ phpa' = [phpa EXCEPT !.deleting = TRUE, !.gen = @ + 1]
        \/ phpa' = AbsentPHPA(phpa.uid)
    BY <1>5 DEF BeginDeletePHPA, DeletePHPA
  <2>3. Has(phpa', PHPAFields) /\ Has(phpa'.status, StatusFields)
    <3>1. CASE phpa' = [phpa EXCEPT !.deleting = TRUE, !.gen = @ + 1]
      <4>1. Has(phpa', PHPAFields)
        BY <1>1, <3>1 DEF Has, PHPAFields
      <4>2. phpa'.status = phpa.status
        BY <1>1, <3>1 DEF Has, PHPAFields
      <4>3. QED
        BY <1>1, <4>1, <4>2
    <3>2. CASE phpa' = AbsentPHPA(phpa.uid)
      BY <3>2 DEF AbsentPHPA, NoStatus, Has, PHPAFields, StatusFields
    <3>3. QED
      BY <2>2, <3>1, <3>2
  <2>4. QED
    BY <1>3, <2>1, <2>3 DEF PHPAChanges
<1>6. QED
  BY <1>2, <1>4, <1>5

(***************************************************************************)
(* Time makes observations older; it changes nothing that was read.        *)
(***************************************************************************)
LEMMA PassKeeps == ASSUME FInv, Pass PROVE FInv'
<1>1. /\ phpa' = phpa /\ deployment' = deployment /\ pc' = pc
      /\ loc' = [p \in Procs |-> [loc[p] EXCEPT !.obs.at = Older(@)]]
  BY DEF Pass, api
<1>2. Shapes'
  BY <1>1 DEF FInv, Shapes, Has
<1>3. ASSUME NEW p \in Procs PROVE Sound(pc[p], loc[p])'
  <2>1. loc'[p] = [loc[p] EXCEPT !.obs.at = Older(@)] /\ Sound(pc[p], loc[p])
    BY <1>1 DEF FInv
  <2>2. /\ WorkShape(loc'[p])
        /\ loc'[p].obs.of = loc[p].obs.of /\ loc'[p].target = loc[p].target
        /\ loc'[p].requested = loc[p].requested /\ loc'[p].scaleFresh = loc[p].scaleFresh
        /\ loc'[p].phpa = loc[p].phpa /\ loc'[p].phpaFresh = loc[p].phpaFresh
    BY <2>1 DEF Sound, WorkShape, Has, WorkFields, ObsFields
  <2>3. QED
    BY <1>1, <2>1, <2>2 DEF Sound, SamePolicy
<1>4. QED
  BY <1>2, <1>3 DEF FInv

(***************************************************************************)
(* Every step keeps the invariant.                                         *)
(***************************************************************************)
LEMMA NextKeeps == ASSUME FInv, [Next]_vars PROVE FInv'
<1>1. ASSUME NEW p \in Procs, Reconciling(p) PROVE FInv'
  BY <1>1, CallsKeep, DeploymentWritesKeep, PHPAWritesKeep DEF Reconciling
<1>2. CASE Background
  BY <1>2, DeploymentWritesKeep, ElsewhereKeeps
     DEF Background, SyncPHPA, SyncDeployment, Deliver, api
<1>3. CASE Tick \/ Linger
  BY <1>3, PassKeeps DEF Tick, Linger
<1>4. ASSUME NEW p \in Procs, Restart(p) PROVE FInv'
  <2>1. Rest(p) /\ UNCHANGED <<phpa, deployment>>
    BY <1>4 DEF Restart, Rest, api
  <2>2. QED
    BY <2>1, EndKeeps
<1>5. ASSUME NEW p \in Procs, RelistPHPA(p) PROVE FInv'
  BY <1>5, ElsewhereKeeps DEF RelistPHPA, Deliver, api
<1>6. ASSUME NEW value \in Cpus, ChangeCpu(value) PROVE FInv'
  BY <1>6, ElsewhereKeeps DEF ChangeCpu, procVars
<1>7. CASE Disturbance
  BY <1>3, <1>4, <1>5, <1>6, <1>7, CallsKeep, DeploymentWritesKeep, PHPAWritesKeep DEF Disturbance
<1>8. CASE UNCHANGED vars
  BY <1>8, ElsewhereKeeps DEF vars
<1>9. QED
  BY <1>1, <1>2, <1>3, <1>7, <1>8 DEF Next
-----------------------------------------------------------------------------
(***************************************************************************)
(* What a cycle holds of the API server is sound at every step of it.      *)
(***************************************************************************)
THEOREM FreshnessInvariant == Spec => []FInv
<1>1. Init => FInv
  BY InitSound
<1>2. FInv /\ [Next]_vars => FInv'
  BY NextKeeps
<1>3. QED
  BY <1>1, <1>2, PTL DEF Spec

(***************************************************************************)
(* A write replaces the request its decision was based on, on the          *)
(* Deployment whose pods it observed (RecheckScale, Update).               *)
(***************************************************************************)
THEOREM WritesOwnBaseTheorem == Spec => WritesOwnBase
<1>1. ASSUME FInv, NEW p \in Procs, Writes(p)
      PROVE  deployment.requested = loc[p].requested /\ deployment.uid = loc[p].obs.of
  BY <1>1 DEF FInv, Sound, Writes, SameScale, Deciding
<1>2. FInv /\ [Next]_vars =>
         [\A p \in Procs : Writes(p) =>
              /\ deployment.requested = loc[p].requested
              /\ deployment.uid = loc[p].obs.of]_vars
  BY <1>1
<1>3. QED
  BY <1>2, FreshnessInvariant, PTL DEF Spec, WritesOwnBase
-----------------------------------------------------------------------------
(* Identities only grow, and a cached object is an earlier version.        *)

CacheFields == {"phpa", "deployment", "news"}

(***************************************************************************)
(* What an informer holds is no newer than the live object, and the        *)
(* generation tells the versions of one object apart.                      *)
(***************************************************************************)
Behind(seen) ==
    /\ seen.uid \in 0..phpa.uid
    /\ seen.exists /\ phpa.exists /\ seen.uid = phpa.uid =>
          /\ seen.gen \in 0..phpa.gen
          /\ seen.gen = phpa.gen => seen = SeenPHPA

Numbered == Has(phpa, PHPAFields) /\ phpa.uid \in Nat /\ phpa.gen \in Nat

Versions ==
    /\ Numbered
    /\ Has(cache, Procs) /\ Has(queued, Procs)
    /\ \A p \in Procs : Has(cache[p], CacheFields) /\ Behind(cache[p].phpa)

KInv == Versions /\ Has(pc, Procs) /\ NeverForgotten

(***************************************************************************)
(* The user writes the PredictiveHPA.                                      *)
(***************************************************************************)
UserWrites ==
    \/ \E policy \in Policies : EditPolicy(policy) \/ CreatePHPA(policy)
    \/ BeginDeletePHPA \/ DeletePHPA

(***************************************************************************)
(* Nobody but the user and patchStatus writes the PredictiveHPA, and       *)
(* patchStatus writes nothing of it that Reconcile reads.                  *)
(***************************************************************************)
LEMMA WritersOfPHPA ==
    ASSUME Has(phpa, PHPAFields), [Next]_vars
    PROVE  \/ UNCHANGED phpa
           \/ \E p \in Procs : /\ PatchStatus(p) /\ Publishes(p)
                               /\ phpa' = [phpa EXCEPT !.status = Status(loc[p])]
           \/ UserWrites
<1>1. ASSUME NEW p \in Procs, Reconciling(p)
      PROVE  \/ UNCHANGED phpa
             \/ /\ PatchStatus(p) /\ Publishes(p)
                /\ phpa' = [phpa EXCEPT !.status = Status(loc[p])]
  <2>1. CASE PatchStatus(p)
    BY <2>1 DEF PatchStatus
  <2>2. CASE DropDeleted(p) \/ IgnoreDeleting(p) \/ Begin(p)
    BY <2>2 DEF DropDeleted, IgnoreDeleting, Begin, Dequeue, api
  <2>3. CASE \/ Query(p) \/ Decide(p) \/ RecheckPolicy(p) \/ RecheckScale(p) \/ Update(p)
             \/ VerifyTarget(p) \/ ReadForStatus(p)
    BY <2>3 DEF Query, Decide, RecheckPolicy, RecheckScale, Update, VerifyTarget, ReadForStatus, api
  <2>4. QED
    BY <1>1, <2>1, <2>2, <2>3 DEF Reconciling
<1>2. CASE Background \/ Tick
  BY <1>2 DEF Background, ObserveReplicas, SyncPHPA, SyncDeployment, Deliver, Tick, Pass, api
<1>3. ASSUME Disturbance PROVE UserWrites \/ UNCHANGED phpa
  <2>1. CASE UserWrites
    BY <2>1
  <2>2. CASE BeginDeleteDeployment \/ DeleteDeployment
    BY <2>2 DEF BeginDeleteDeployment, DeleteDeployment, DeploymentChanges
  <2>3. ASSUME NEW replicas \in Counts, CreateDeployment(replicas) \/ ScaleByOther(replicas)
        PROVE  UNCHANGED phpa
    BY <2>3 DEF CreateDeployment, ScaleByOther, DeploymentChanges
  <2>4. ASSUME NEW p \in Procs, Restart(p) \/ CallFails(p) \/ LoseAnswer(p) \/ RelistPHPA(p)
        PROVE  UNCHANGED phpa
    BY <2>4 DEF Restart, CallFails, LoseAnswer, RelistPHPA, Deliver, api
  <2>5. CASE Linger \/ \E value \in Cpus : ChangeCpu(value)
    BY <2>5 DEF Linger, Pass, ChangeCpu, api
  <2>6. QED
    BY <1>3, <2>1, <2>2, <2>3, <2>4, <2>5 DEF Disturbance, UserWrites
<1>4. QED
  BY <1>1, <1>2, <1>3 DEF Next, vars

(***************************************************************************)
(* What a write of the user does to the object.                            *)
(***************************************************************************)
LEMMA UserWrite ==
    ASSUME Numbered, UserWrites
    PROVE  /\ Has(phpa', PHPAFields) /\ phpa'.uid \in Nat /\ phpa'.gen \in Nat
           /\ \/ phpa'.exists /\ phpa.exists /\ phpa'.uid = phpa.uid
                 /\ phpa'.gen = phpa.gen + 1 /\ phpa'.status = phpa.status
              \/ ~phpa'.exists /\ phpa'.uid = phpa.uid
              \/ phpa'.exists /\ ~phpa.exists /\ phpa'.uid = phpa.uid + 1
           /\ UNCHANGED <<cache, queued, pc>>
<1>1. Has(phpa, PHPAFields) /\ phpa.uid \in Nat /\ phpa.gen \in Nat
  BY DEF Numbered
<1>2. UNCHANGED <<cache, queued, pc>>
  BY DEF UserWrites, EditPolicy, CreatePHPA, BeginDeletePHPA, DeletePHPA, PHPAChanges
<1>3. ASSUME NEW policy, phpa.exists, phpa' = [phpa EXCEPT !.policy = policy, !.gen = @ + 1]
      PROVE  /\ Has(phpa', PHPAFields)
             /\ phpa'.exists = phpa.exists /\ phpa'.uid = phpa.uid
             /\ phpa'.gen = phpa.gen + 1 /\ phpa'.status = phpa.status
  BY <1>1, <1>3 DEF Has, PHPAFields
<1>4. ASSUME phpa.exists, phpa' = [phpa EXCEPT !.deleting = TRUE, !.gen = @ + 1]
      PROVE  /\ Has(phpa', PHPAFields)
             /\ phpa'.exists = phpa.exists /\ phpa'.uid = phpa.uid
             /\ phpa'.gen = phpa.gen + 1 /\ phpa'.status = phpa.status
  BY <1>1, <1>4 DEF Has, PHPAFields
<1>5. ASSUME phpa' = AbsentPHPA(phpa.uid)
      PROVE  /\ Has(phpa', PHPAFields) /\ ~phpa'.exists /\ phpa'.uid = phpa.uid /\ phpa'.gen = 0
  BY <1>5 DEF Has, PHPAFields, AbsentPHPA
<1>6. ASSUME NEW policy, phpa' = NewPHPA(phpa.uid + 1, policy)
      PROVE  /\ Has(phpa', PHPAFields) /\ phpa'.exists /\ phpa'.uid = phpa.uid + 1
             /\ phpa'.gen = 1
  BY <1>6 DEF Has, PHPAFields, NewPHPA
<1>7. \/ \E policy \in Policies :
            phpa.exists /\ phpa' = [phpa EXCEPT !.policy = policy, !.gen = @ + 1]
      \/ \E policy \in Policies : ~phpa.exists /\ phpa' = NewPHPA(phpa.uid + 1, policy)
      \/ phpa.exists /\ phpa' = [phpa EXCEPT !.deleting = TRUE, !.gen = @ + 1]
      \/ phpa' = AbsentPHPA(phpa.uid)
  BY DEF UserWrites, EditPolicy, CreatePHPA, BeginDeletePHPA, DeletePHPA
<1>8. CASE \E policy \in Policies :
              phpa.exists /\ phpa' = [phpa EXCEPT !.policy = policy, !.gen = @ + 1]
  <2>1. PICK policy \in Policies :
           phpa.exists /\ phpa' = [phpa EXCEPT !.policy = policy, !.gen = @ + 1]
    BY <1>8
  <2>2. /\ Has(phpa', PHPAFields)
        /\ phpa'.exists = phpa.exists /\ phpa'.uid = phpa.uid
        /\ phpa'.gen = phpa.gen + 1 /\ phpa'.status = phpa.status
    BY <1>3, <2>1
  <2>3. QED
    BY <1>1, <1>2, <2>1, <2>2
<1>9. CASE \E policy \in Policies : ~phpa.exists /\ phpa' = NewPHPA(phpa.uid + 1, policy)
  BY <1>1, <1>2, <1>6, <1>9
<1>10. CASE phpa.exists /\ phpa' = [phpa EXCEPT !.deleting = TRUE, !.gen = @ + 1]
  BY <1>1, <1>2, <1>4, <1>10
<1>11. CASE phpa' = AbsentPHPA(phpa.uid)
  BY <1>1, <1>2, <1>5, <1>11
<1>12. QED
  BY <1>7, <1>8, <1>9, <1>10, <1>11

(***************************************************************************)
(* The versions stay in order when nothing Reconcile reads of the live     *)
(* object changes and no informer does more than catch up.                 *)
(***************************************************************************)
LEMMA VersionsKept ==
    ASSUME Versions, Has(phpa', PHPAFields), SeenPHPA' = SeenPHPA,
           Has(cache', Procs), Has(queued', Procs),
           \A p \in Procs : /\ Has(cache'[p], CacheFields)
                            /\ \/ cache'[p].phpa = cache[p].phpa
                               \/ cache'[p].phpa = SeenPHPA
                               \/ /\ ~cache'[p].phpa.exists
                                  /\ cache'[p].phpa.uid = cache[p].phpa.uid
    PROVE  Versions'
<1>1. phpa'.exists = phpa.exists /\ phpa'.uid = phpa.uid /\ phpa'.gen = phpa.gen
  BY DEF SeenPHPA
<1>2. ASSUME NEW p \in Procs PROVE Behind(cache[p].phpa)'
  <2>1. Behind(cache[p].phpa) /\ phpa.uid \in Nat /\ phpa.gen \in Nat
    BY DEF Versions, Numbered
  <2>2. CASE cache'[p].phpa = cache[p].phpa
    BY <1>1, <2>1, <2>2 DEF Behind
  <2>3. CASE cache'[p].phpa = SeenPHPA
    <3>1. cache'[p].phpa.uid = phpa.uid /\ cache'[p].phpa.gen = phpa.gen
      BY <2>3 DEF SeenPHPA
    <3> HIDE DEF SeenPHPA
    <3>2. QED
      BY <1>1, <2>1, <2>3, <3>1 DEF Behind
  <2>4. CASE ~cache'[p].phpa.exists /\ cache'[p].phpa.uid = cache[p].phpa.uid
    BY <1>1, <2>1, <2>4 DEF Behind
  <2>5. QED
    BY <2>2, <2>3, <2>4
<1>3. QED
  BY <1>1, <1>2 DEF Versions, Numbered

(***************************************************************************)
(* A write of the user puts every cached version further behind, so that   *)
(* an informer has something to deliver unless the object is gone.         *)
(***************************************************************************)
LEMMA UserWriteKeeps == ASSUME KInv, UserWrites PROVE KInv'
<1>1. /\ Versions /\ Has(pc, Procs) /\ NeverForgotten
      /\ phpa.uid \in Nat /\ phpa.gen \in Nat
  BY DEF KInv, Versions, Numbered
<1>2. /\ Has(phpa', PHPAFields) /\ phpa'.uid \in Nat /\ phpa'.gen \in Nat
      /\ \/ phpa'.exists /\ phpa.exists /\ phpa'.uid = phpa.uid
            /\ phpa'.gen = phpa.gen + 1 /\ phpa'.status = phpa.status
         \/ ~phpa'.exists /\ phpa'.uid = phpa.uid
         \/ phpa'.exists /\ ~phpa.exists /\ phpa'.uid = phpa.uid + 1
      /\ UNCHANGED <<cache, queued, pc>>
  BY <1>1, UserWrite DEF Versions
<1>3. ASSUME NEW p \in Procs
      PROVE  Behind(cache[p].phpa)' /\ (phpa'.exists => cache'[p].phpa # SeenPHPA')
  <2>1. Behind(cache[p].phpa) /\ cache'[p].phpa = cache[p].phpa
    BY <1>1, <1>2 DEF Versions, Numbered
  <2> DEFINE seen == cache[p].phpa
  <2>2. seen.uid \in 0..phpa'.uid
    BY <1>1, <1>2, <2>1 DEF Behind
  <2>3. phpa'.exists /\ seen.exists /\ seen.uid = phpa'.uid => seen.gen \in 0..phpa.gen
                                                           /\ phpa'.gen = phpa.gen + 1
    BY <1>1, <1>2, <2>1 DEF Behind
  <2>4. SeenPHPA'.exists = phpa'.exists /\ SeenPHPA'.uid = phpa'.uid /\ SeenPHPA'.gen = phpa'.gen
    BY DEF SeenPHPA
  <2>5. ASSUME phpa'.exists, seen = SeenPHPA' PROVE FALSE
    <3>1. seen.exists /\ seen.uid = phpa'.uid /\ seen.gen = phpa'.gen
      BY <2>4, <2>5
    <3>2. QED
      BY <1>1, <2>3, <2>5, <3>1
  <2>6. Behind(seen)'
    BY <1>1, <1>2, <2>1, <2>2, <2>3 DEF Behind
  <2>7. QED
    BY <2>1, <2>5, <2>6
<1>4. Versions'
  BY <1>1, <1>2, <1>3 DEF Versions, Numbered
<1>5. NeverForgotten'
  BY <1>3 DEF NeverForgotten
<1>6. QED
  BY <1>1, <1>2, <1>4, <1>5 DEF KInv

(***************************************************************************)
(* One process goes on while what it reads of the live object stays, and   *)
(* its key is afterwards queued, in progress, or about to be delivered.    *)
(***************************************************************************)
LEMMA ProcessKeeps ==
    ASSUME KInv, Has(phpa', PHPAFields), SeenPHPA' = SeenPHPA, NEW p \in Procs,
           Has(cache', Procs), Has(queued', Procs), Has(pc', Procs),
           \A q \in Procs : Has(cache'[q], CacheFields),
           \A q \in Procs \ {p} : /\ cache'[q].phpa = cache[q].phpa
                                  /\ queued'[q] = queued[q] /\ pc'[q] = pc[q],
           \/ cache'[p].phpa = cache[p].phpa
           \/ cache'[p].phpa = SeenPHPA
           \/ ~cache'[p].phpa.exists /\ cache'[p].phpa.uid = cache[p].phpa.uid,
           phpa.exists /\ ~phpa.deleting =>
               queued'[p] \/ pc'[p] # "idle" \/ cache'[p].phpa # SeenPHPA
    PROVE  KInv'
<1>1. Versions'
  BY VersionsKept DEF KInv
<1>2. phpa'.exists = phpa.exists /\ phpa'.deleting = phpa.deleting
  BY DEF SeenPHPA
<1>3. NeverForgotten'
  <2> HIDE DEF SeenPHPA
  <2>1. QED
    BY <1>2 DEF KInv, NeverForgotten
<1>4. QED
  BY <1>1, <1>3 DEF KInv

(***************************************************************************)
(* Steps that leave alone what Reconcile reads of the live object, what    *)
(* the informers hold of it, the queues and the progress of the cycles.    *)
(***************************************************************************)
LEMMA BystanderKeeps ==
    ASSUME KInv, Has(phpa', PHPAFields), SeenPHPA' = SeenPHPA,
           Has(cache', Procs),
           \A q \in Procs : Has(cache'[q], CacheFields) /\ cache'[q].phpa = cache[q].phpa,
           UNCHANGED <<queued, pc>>
    PROVE  KInv'
<1>1. Versions'
  BY VersionsKept DEF KInv, Versions, Numbered
<1>2. phpa'.exists = phpa.exists /\ phpa'.deleting = phpa.deleting
  BY DEF SeenPHPA
<1>3. NeverForgotten'
  <2> HIDE DEF SeenPHPA
  <2>1. QED
    BY <1>2 DEF KInv, NeverForgotten
<1>4. QED
  BY <1>1, <1>3 DEF KInv

(***************************************************************************)
(* A cycle goes on to another call, or ends by asking for the next one.    *)
(***************************************************************************)
LEMMA CycleKeeps ==
    ASSUME KInv, Has(phpa', PHPAFields), SeenPHPA' = SeenPHPA, NEW p \in Procs, NEW next,
           Has(cache', Procs),
           \A q \in Procs : Has(cache'[q], CacheFields) /\ cache'[q].phpa = cache[q].phpa,
           pc' = [pc EXCEPT ![p] = next],
           \/ next # "idle" /\ (queued' = queued \/ queued' = [queued EXCEPT ![p] = FALSE])
           \/ queued' = [queued EXCEPT ![p] = TRUE]
    PROVE  KInv'
<1>1. Has(pc, Procs) /\ Has(queued, Procs)
  BY DEF KInv, Versions, Numbered
<1>2. Has(pc', Procs) /\ pc'[p] = next /\ \A q \in Procs \ {p} : pc'[q] = pc[q]
  BY <1>1 DEF Has
<1>3. /\ Has(queued', Procs) /\ (next # "idle" \/ queued'[p])
      /\ \A q \in Procs \ {p} : queued'[q] = queued[q]
  BY <1>1 DEF Has
<1> HIDE DEF SeenPHPA
<1>4. QED
  BY <1>2, <1>3, ProcessKeeps

(***************************************************************************)
(* A write to the Deployment only tells the informers that there is news.  *)
(***************************************************************************)
LEMMA NewsKeepsCaches ==
    ASSUME KInv, cache' = [q \in Procs |-> [cache[q] EXCEPT !.news = TRUE]]
    PROVE  /\ Has(cache', Procs)
           /\ \A q \in Procs : Has(cache'[q], CacheFields) /\ cache'[q].phpa = cache[q].phpa
  BY DEF KInv, Versions, Numbered, Has, CacheFields

(***************************************************************************)
(* No call of Reconcile lets go of the key of a live object.               *)
(***************************************************************************)
LEMMA ReconcilingRemembers ==
    ASSUME KInv, NEW p \in Procs, Reconciling(p)
    PROVE  KInv'
<1>1. /\ Has(phpa, PHPAFields) /\ Has(cache, Procs) /\ Has(queued, Procs)
      /\ \A q \in Procs : Has(cache[q], CacheFields)
      /\ Has(pc, Procs)
  BY DEF KInv, Versions, Numbered
<1>2. CASE DropDeleted(p) \/ IgnoreDeleting(p)
  <2>1. UNCHANGED <<phpa, cache, pc>> /\ queued' = [queued EXCEPT ![p] = FALSE]
    BY <1>2 DEF DropDeleted, IgnoreDeleting, Dequeue, api
  <2>2. Has(queued', Procs) /\ \A q \in Procs \ {p} : queued'[q] = queued[q]
    BY <1>1, <2>1 DEF Has
  <2>3. phpa.exists /\ ~phpa.deleting => cache[p].phpa # SeenPHPA
    BY <1>2 DEF DropDeleted, IgnoreDeleting, SeenPHPA
  <2>4. SeenPHPA' = SeenPHPA
    BY <2>1 DEF SeenPHPA
  <2> HIDE DEF SeenPHPA
  <2>5. QED
    BY <1>1, <2>1, <2>2, <2>3, <2>4, ProcessKeeps
<1>3. ASSUME NEW next, UNCHANGED <<phpa, cache>>, pc' = [pc EXCEPT ![p] = next],
             \/ next # "idle" /\ (queued' = queued \/ queued' = [queued EXCEPT ![p] = FALSE])
             \/ queued' = [queued EXCEPT ![p] = TRUE]
      PROVE  KInv'
  <2>1. SeenPHPA' = SeenPHPA
    BY <1>3 DEF SeenPHPA
  <2> HIDE DEF SeenPHPA
  <2>2. QED
    BY <1>1, <1>3, <2>1, CycleKeeps
<1>4. CASE Begin(p)
  <2>1. /\ UNCHANGED <<phpa, cache>> /\ queued' = [queued EXCEPT ![p] = FALSE]
        /\ pc' = [pc EXCEPT ![p] = "query"] \/ pc' = [pc EXCEPT ![p] = "publish"]
    BY <1>4 DEF Begin, Dequeue, Continue, Unavailable, api
  <2>2. QED
    BY <1>3, <2>1
<1>5. CASE Query(p) \/ VerifyTarget(p)
  <2>1. /\ UNCHANGED <<phpa, cache, queued>>
        /\ pc' = [pc EXCEPT ![p] = "decide"] \/ pc' = [pc EXCEPT ![p] = "publish"]
    BY <1>5 DEF Query, VerifyTarget, Continue, Unavailable, api
  <2>2. QED
    BY <1>3, <2>1
<1>6. CASE Decide(p)
  <2>1. UNCHANGED <<phpa, cache>>
    BY <1>6 DEF Decide, api
  <2>2. CASE Requeue(p)
    BY <1>3, <2>1, <2>2 DEF Requeue, Rest
  <2>3. CASE Recommend(p) /\ UNCHANGED queued
    <3>1. PICK next \in {"policy", "verify"} : pc' = [pc EXCEPT ![p] = next]
      BY <2>3 DEF Recommend, Continue
    <3>2. QED
      BY <1>3, <2>1, <2>3, <3>1
  <2>4. CASE Unavailable(p, loc[p]) /\ UNCHANGED queued
    BY <1>3, <2>1, <2>4 DEF Unavailable, Continue
  <2>5. QED
    BY <1>6, <2>2, <2>3, <2>4 DEF Decide
<1>7. CASE RecheckPolicy(p) \/ RecheckScale(p) \/ ReadForStatus(p)
  <2>1. /\ UNCHANGED <<phpa, cache>>
        /\ \/ Requeue(p)
           \/ /\ UNCHANGED queued
              /\ \E next \in {"scale", "write", "publish", "patch"} : pc' = [pc EXCEPT ![p] = next]
    BY <1>7 DEF RecheckPolicy, RecheckScale, ReadForStatus, Continue, Unavailable, api
  <2>2. QED
    BY <1>3, <2>1 DEF Requeue, Rest
<1>8. CASE Update(p)
  <2>1. UNCHANGED phpa
    BY <1>8 DEF Update
  <2>2. CASE CommitScale(p) /\ pc' = [pc EXCEPT ![p] = "verify"] /\ UNCHANGED queued
    <3>1. /\ Has(cache', Procs)
          /\ \A q \in Procs : Has(cache'[q], CacheFields) /\ cache'[q].phpa = cache[q].phpa
      BY <2>2, NewsKeepsCaches DEF CommitScale
    <3>2. SeenPHPA' = SeenPHPA
      BY <2>1 DEF SeenPHPA
    <3> HIDE DEF SeenPHPA
    <3>3. QED
      BY <1>1, <2>1, <2>2, <3>1, <3>2, CycleKeeps
  <2>3. CASE Requeue(p) /\ UNCHANGED cache
    BY <1>3, <2>1, <2>3 DEF Requeue, Rest
  <2>4. QED
    BY <1>8, <2>2, <2>3 DEF Update
<1>9. CASE PatchStatus(p)
  <2>1. /\ UNCHANGED cache /\ pc' = [pc EXCEPT ![p] = "idle"]
        /\ queued' = [queued EXCEPT ![p] = TRUE]
        /\ phpa' = phpa \/ phpa' = [phpa EXCEPT !.status = Status(loc[p])]
    BY <1>9 DEF PatchStatus
  <2>2. Has(phpa', PHPAFields) /\ SeenPHPA' = SeenPHPA
    BY <1>1, <2>1 DEF SeenPHPA, Has, PHPAFields
  <2> HIDE DEF SeenPHPA
  <2>3. QED
    BY <1>1, <2>1, <2>2, CycleKeeps
<1>10. QED
  BY <1>2, <1>4, <1>5, <1>6, <1>7, <1>8, <1>9 DEF Reconciling

(***************************************************************************)
(* An informer catches up, and queues the key of what is news to it: two   *)
(* versions with the same generation are the same.                         *)
(***************************************************************************)
LEMMA InformersRemember ==
    ASSUME KInv, NEW p \in Procs, SyncPHPA(p) \/ SyncDeployment(p)
    PROVE  KInv'
<1>1. /\ Has(phpa, PHPAFields) /\ Has(cache, Procs) /\ Has(queued, Procs)
      /\ \A q \in Procs : Has(cache[q], CacheFields)
      /\ Has(pc, Procs) /\ Behind(cache[p].phpa)
  BY DEF KInv, Versions, Numbered
<1>2. CASE SyncPHPA(p)
  <2> DEFINE old == cache[p].phpa
             gone == [SeenPHPA EXCEPT !.exists = FALSE, !.uid = old.uid, !.gen = 0,
                                      !.deleting = FALSE, !.policy = NoPolicy]
             new == IF old.exists /\ old.uid # phpa.uid THEN gone ELSE SeenPHPA
  <2>1. /\ UNCHANGED <<phpa, pc>>
        /\ cache' = [cache EXCEPT ![p].phpa = new]
        /\ queued' = [queued EXCEPT ![p] = @ \/ PassesPredicates(old, new)]
        /\ old # SeenPHPA
    BY <1>2 DEF SyncPHPA, Deliver, api
  <2>2. ~gone.exists /\ gone.uid = old.uid
    BY DEF SeenPHPA
  <2>3. SeenPHPA.exists = phpa.exists /\ SeenPHPA.uid = phpa.uid /\ SeenPHPA.gen = phpa.gen
    BY DEF SeenPHPA
  <2>4. SeenPHPA' = SeenPHPA
    BY <2>1 DEF SeenPHPA
  <2> HIDE DEF gone, SeenPHPA
  <2>5. new = SeenPHPA \/ (~new.exists /\ new.uid = old.uid)
    BY <2>2
  <2>6. phpa.exists => PassesPredicates(old, new) \/ new # SeenPHPA
    BY <1>1, <2>1, <2>2, <2>3 DEF PassesPredicates, Behind
  <2> HIDE DEF new
  <2>7. /\ Has(cache', Procs) /\ cache'[p].phpa = new
        /\ \A q \in Procs : Has(cache'[q], CacheFields)
        /\ \A q \in Procs \ {p} : cache'[q].phpa = cache[q].phpa
    BY <1>1, <2>1 DEF Has, CacheFields
  <2>8. /\ Has(queued', Procs) /\ (PassesPredicates(old, new) => queued'[p])
        /\ \A q \in Procs \ {p} : queued'[q] = queued[q]
    BY <1>1, <2>1 DEF Has
  <2>9. QED
    BY <1>1, <2>1, <2>4, <2>5, <2>6, <2>7, <2>8, ProcessKeeps
<1>3. CASE SyncDeployment(p)
  <2>1. /\ UNCHANGED <<phpa, pc>>
        /\ cache' = [cache EXCEPT ![p].deployment = SeenDeployment, ![p].news = FALSE]
        /\ queued' = [queued EXCEPT ![p] = @ \/ cache[p].phpa.exists]
    BY <1>3 DEF SyncDeployment, api
  <2>2. /\ Has(cache', Procs)
        /\ \A q \in Procs : Has(cache'[q], CacheFields) /\ cache'[q].phpa = cache[q].phpa
    BY <1>1, <2>1 DEF Has, CacheFields
  <2>3. /\ Has(queued', Procs) /\ (queued[p] => queued'[p])
        /\ \A q \in Procs \ {p} : queued'[q] = queued[q]
    BY <1>1, <2>1 DEF Has
  <2>4. SeenPHPA' = SeenPHPA
    BY <2>1 DEF SeenPHPA
  <2>5. phpa.exists /\ ~phpa.deleting => queued[p] \/ pc[p] # "idle" \/ cache[p].phpa # SeenPHPA
    BY DEF KInv, NeverForgotten
  <2> HIDE DEF SeenPHPA
  <2>6. QED
    BY <1>1, <2>1, <2>2, <2>3, <2>4, <2>5, ProcessKeeps
<1>4. QED
  BY <1>2, <1>3

\* No watch breaks: an object that is deleted and made again is seen to go.
WatchesHold == "relist" \notin Kinds

(***************************************************************************)
(* Neither does a disturbance make a process forget, as long as no watch   *)
(* misses a deletion: a restart lists and queues afresh, a failed call is  *)
(* retried.                                                                *)
(***************************************************************************)
LEMMA DisturbancesRemember ==
    ASSUME KInv, WatchesHold, Disturbance \/ ObserveReplicas \/ Tick
    PROVE  KInv'
<1>1. /\ Has(phpa, PHPAFields) /\ Has(cache, Procs) /\ Has(queued, Procs)
      /\ \A q \in Procs : Has(cache[q], CacheFields)
      /\ Has(pc, Procs)
  BY DEF KInv, Versions, Numbered
<1>2. ASSUME UNCHANGED <<phpa, queued, pc>>,
             \/ UNCHANGED cache
             \/ cache' = [q \in Procs |-> [cache[q] EXCEPT !.news = TRUE]]
      PROVE  KInv'
  <2>1. /\ Has(cache', Procs)
        /\ \A q \in Procs : Has(cache'[q], CacheFields) /\ cache'[q].phpa = cache[q].phpa
    BY <1>1, <1>2, NewsKeepsCaches
  <2>2. SeenPHPA' = SeenPHPA
    BY <1>2 DEF SeenPHPA
  <2> HIDE DEF SeenPHPA
  <2>3. QED
    BY <1>1, <1>2, <2>1, <2>2, BystanderKeeps
<1>3. CASE ObserveReplicas \/ BeginDeleteDeployment \/ DeleteDeployment
  BY <1>2, <1>3 DEF ObserveReplicas, BeginDeleteDeployment, DeleteDeployment, DeploymentChanges
<1>4. ASSUME NEW replicas \in Counts, CreateDeployment(replicas) \/ ScaleByOther(replicas)
      PROVE  KInv'
  BY <1>2, <1>4 DEF CreateDeployment, ScaleByOther, DeploymentChanges
<1>5. CASE Tick \/ Linger \/ \E value \in Cpus : ChangeCpu(value)
  BY <1>2, <1>5 DEF Tick, Linger, Pass, ChangeCpu, procVars, api
<1>6. CASE UserWrites
  BY <1>6, UserWriteKeeps
<1>7. ASSUME NEW p \in Procs, Restart(p) PROVE KInv'
  <2> DEFINE listed == [phpa |-> SeenPHPA, deployment |-> SeenDeployment, news |-> FALSE]
  <2>1. /\ UNCHANGED phpa
        /\ cache' = [cache EXCEPT ![p] = listed]
        /\ queued' = [queued EXCEPT ![p] = phpa.exists]
        /\ pc' = [pc EXCEPT ![p] = "idle"]
    BY <1>7 DEF Restart, api
  <2>2. SeenPHPA' = SeenPHPA
    BY <2>1 DEF SeenPHPA
  <2> HIDE DEF SeenPHPA
  <2>3. Has(listed, CacheFields) /\ listed.phpa = SeenPHPA
    BY DEF Has, CacheFields
  <2> HIDE DEF listed
  <2>4. /\ Has(cache', Procs) /\ cache'[p].phpa = SeenPHPA
        /\ \A q \in Procs : Has(cache'[q], CacheFields)
        /\ \A q \in Procs \ {p} : cache'[q].phpa = cache[q].phpa
    BY <1>1, <2>1, <2>3 DEF Has
  <2>5. /\ Has(queued', Procs) /\ (phpa.exists => queued'[p])
        /\ \A q \in Procs \ {p} : queued'[q] = queued[q]
    BY <1>1, <2>1 DEF Has
  <2>6. Has(pc', Procs) /\ \A q \in Procs \ {p} : pc'[q] = pc[q]
    BY <1>1, <2>1 DEF Has
  <2>7. QED
    BY <1>1, <2>1, <2>2, <2>4, <2>5, <2>6, ProcessKeeps
<1>8. ASSUME NEW p \in Procs, CallFails(p) \/ LoseAnswer(p) PROVE KInv'
  <2>1. /\ UNCHANGED phpa
        /\ \/ UNCHANGED cache
           \/ cache' = [q \in Procs |-> [cache[q] EXCEPT !.news = TRUE]]
        /\ \/ pc' = [pc EXCEPT ![p] = "idle"] /\ queued' = [queued EXCEPT ![p] = TRUE]
           \/ pc' = [pc EXCEPT ![p] = "publish"] /\ UNCHANGED queued
    BY <1>8 DEF CallFails, LoseAnswer, CommitScale, Requeue, Rest, Unavailable, Continue, api
  <2>2. /\ Has(cache', Procs)
        /\ \A q \in Procs : Has(cache'[q], CacheFields) /\ cache'[q].phpa = cache[q].phpa
    BY <1>1, <2>1, NewsKeepsCaches
  <2>3. SeenPHPA' = SeenPHPA
    BY <2>1 DEF SeenPHPA
  <2> HIDE DEF SeenPHPA
  <2>4. QED
    BY <1>1, <2>1, <2>2, <2>3, CycleKeeps
<1>9. ASSUME NEW p \in Procs, RelistPHPA(p) PROVE FALSE
  BY <1>9 DEF RelistPHPA, Disturb, WatchesHold
<1>10. QED
  BY <1>3, <1>4, <1>5, <1>6, <1>7, <1>8, <1>9 DEF Disturbance, UserWrites
-----------------------------------------------------------------------------
(***************************************************************************)
(* Before anything happens every cache is fresh and every key is queued.   *)
(***************************************************************************)
LEMMA InitRemembers == ASSUME Init PROVE KInv
<1>1. PICK policy \in Policies : phpa = NewPHPA(1, policy)
  BY DEF Init
<1>2. /\ cache = [p \in Procs |->
                     [phpa |-> SeenPHPA, deployment |-> SeenDeployment, news |-> FALSE]]
      /\ queued = [p \in Procs |-> TRUE] /\ pc = [p \in Procs |-> "idle"]
  BY DEF Init
<1>3. Has(phpa, PHPAFields) /\ phpa.uid = 1 /\ phpa.gen = 1
  BY <1>1 DEF NewPHPA, Has, PHPAFields
<1>4. SeenPHPA.uid = phpa.uid /\ SeenPHPA.gen = phpa.gen
  BY DEF SeenPHPA
<1> HIDE DEF SeenPHPA
<1>5. ASSUME NEW p \in Procs
      PROVE  Has(cache[p], CacheFields) /\ cache[p].phpa = SeenPHPA
  BY <1>2 DEF Has, CacheFields
<1>6. ASSUME NEW p \in Procs PROVE Behind(cache[p].phpa)
  BY <1>3, <1>4, <1>5 DEF Behind
<1>7. Has(cache, Procs) /\ Has(queued, Procs)
  BY <1>2 DEF Has
<1>8. Versions
  BY <1>3, <1>5, <1>6, <1>7 DEF Versions, Numbered
<1>9. QED
  BY <1>2, <1>8 DEF KInv, NeverForgotten, Has

(***************************************************************************)
(* A live PredictiveHPA is never forgotten: its key is queued or in        *)
(* progress, or an event that queues it is still to be delivered, provided *)
(* that the watches deliver every deletion (SetupWithManager's predicates).*)
(***************************************************************************)
THEOREM NeverForgottenTheorem == ASSUME WatchesHold PROVE Spec => []NeverForgotten
<1>1. Init => KInv
  BY InitRemembers
<1>2. KInv /\ [Next]_vars => KInv'
  <2>1. ASSUME KInv, Next PROVE KInv'
    <3>1. CASE \E p \in Procs : Reconciling(p)
      BY <2>1, <3>1, ReconcilingRemembers
    <3>2. CASE \E p \in Procs : SyncPHPA(p) \/ SyncDeployment(p)
      BY <2>1, <3>2, InformersRemember
    <3>3. CASE Disturbance \/ ObserveReplicas \/ Tick
      BY <2>1, <3>3, DisturbancesRemember
    <3>4. QED
      BY <2>1, <3>1, <3>2, <3>3 DEF Next, Background
  <2>2. ASSUME KInv, UNCHANGED vars PROVE KInv'
    BY <2>2 DEF vars, KInv, Versions, Numbered, NeverForgotten, Behind, SeenPHPA
  <2>3. QED
    BY <2>1, <2>2
<1>3. KInv => NeverForgotten
  BY DEF KInv
<1>4. QED
  BY <1>1, <1>2, <1>3, PTL DEF Spec

(***************************************************************************)
(* A status describes the generation it says it does: what patchStatus     *)
(* read just before is still the live version when its patch is accepted.  *)
(***************************************************************************)
THEOREM StatusTheorem == Spec => StatusOfLiveGeneration
<1>1. Init => Numbered
  BY DEF Init, Numbered, NewPHPA, Has, PHPAFields
<1>2. Numbered /\ [Next]_vars => Numbered'
  <2>1. ASSUME Numbered, [Next]_vars PROVE Numbered'
    <3>1. CASE UNCHANGED phpa
      BY <2>1, <3>1 DEF Numbered
    <3>2. ASSUME NEW p \in Procs, phpa' = [phpa EXCEPT !.status = Status(loc[p])]
          PROVE  Numbered'
      BY <2>1, <3>2 DEF Numbered, Has, PHPAFields
    <3>3. CASE UserWrites
      BY <2>1, <3>3, UserWrite DEF Numbered
    <3>4. QED
      BY <2>1, <3>1, <3>2, <3>3, WritersOfPHPA DEF Numbered
  <2>2. QED
    BY <2>1
<1>3. ASSUME Numbered, FInv, [Next]_vars,
             phpa'.status # phpa.status, phpa'.uid = phpa.uid, phpa'.exists
      PROVE  /\ ~phpa.deleting
             /\ phpa'.status.gen = phpa'.gen
             /\ \E p \in Procs : Publishes(p) /\ loc[p].phpa.uid = phpa.uid
  <2>1. ~UNCHANGED phpa
    BY <1>3
  <2>2. ~UserWrites
    BY <1>3, UserWrite DEF Numbered
  <2>3. PICK p \in Procs : Publishes(p) /\ phpa' = [phpa EXCEPT !.status = Status(loc[p])]
    BY <1>3, <2>1, <2>2, WritersOfPHPA DEF Numbered
  <2>4. SamePolicy(loc[p])
    BY <1>3, <2>3 DEF FInv, Sound, Publishes
  <2>5. Status(loc[p]).gen = loc[p].phpa.gen
    BY <1>3 DEF FInv, Shapes, Status, Has, StatusFields
  <2>6. phpa'.status = Status(loc[p]) /\ phpa'.gen = phpa.gen
    BY <1>3, <2>3 DEF Numbered, Has, PHPAFields
  <2>7. QED
    BY <2>3, <2>4, <2>5, <2>6 DEF SamePolicy
<1>4. Numbered /\ FInv /\ [Next]_vars =>
         [phpa'.status # phpa.status /\ phpa'.uid = phpa.uid /\ phpa'.exists =>
            /\ ~phpa.deleting
            /\ phpa'.status.gen = phpa'.gen
            /\ \E p \in Procs : Publishes(p) /\ loc[p].phpa.uid = phpa.uid]_vars
  BY <1>3
<1>5. QED
  BY <1>1, <1>2, <1>4, FreshnessInvariant, PTL DEF Spec, StatusOfLiveGeneration
-----------------------------------------------------------------------------
(***************************************************************************)
(* A restart does not cost capacity: why the history of Reconcile, which   *)
(* lives in the memory of its process, protects the live request for a     *)
(* whole window after it was lost, whatever policies, observations, users  *)
(* and other writers do in the meantime.  And, from the same invariants,   *)
(* the types of Reconcile's variables.                                     *)
(***************************************************************************)

\* The instants since the process started; all of them once others have scaled.
Recent(s) == {[mono |-> t, wall |-> t] : t \in (Horizon - s)..Horizon}

RecentEntries(s) == EntriesOf(Recent(s), 0..MaxInt32)

HistoryFields == {"exists", "identity", "window", "entries",
                  "lastRecordedAt", "protectedAt", "protectedReplicas"}

\* A history kept by a process whose clock stands at s: nothing in it is older.
Kept(h, s) ==
    \/ h = NoHistory
    \/ /\ Has(h, HistoryFields) /\ h.exists = TRUE
       /\ h.window \in 0..(Horizon - 1)
       /\ h.entries \in Seq(RecentEntries(s))
       /\ h.lastRecordedAt \in Recent(s) /\ h.protectedAt \in Recent(s)
       /\ h.protectedReplicas \in Nat

\* What the history and the protection vouch for.
Highest(h) == Larger(PeakOf(h.entries), h.protectedReplicas)

\* Is s within the window that h covers?
Guards(h, s) == h.exists /\ h.window > 0 /\ s <= h.window

ValidPolicy(policy) ==
    /\ policy.target \in 1..100
    /\ policy.maximum \in 1..MaxInt32 /\ policy.minimum \in 0..policy.maximum
    /\ policy.window \in 0..(Horizon - 1)

\* Where Reconcile is before, and after, it has settled on a count.
Observing == {"query", "decide"}
Settled   == {"policy", "scale", "write"}

(***************************************************************************)
(* The count settled on is one the history vouches for, and within the     *)
(* window no less than the request it was decided from.                    *)
(***************************************************************************)
Vouched(work, h, s) ==
    /\ work.final \in Nat
    /\ h.exists /\ h.window > 0 => work.final <= Highest(h)
    /\ work.phpa.policy.window > 0 /\ s <= work.phpa.policy.window =>
          work.final >= work.requested \/ work.final = work.phpa.policy.maximum

(***************************************************************************)
(* One process: its history, its clock, its step and its local variables,  *)
(* for a Deployment of which r replicas are requested.                     *)
(***************************************************************************)
Guarded(at, work, h, s, r) ==
    /\ s \in 0..Horizon
    /\ Kept(h, s)
    /\ Guards(h, s) => r <= Highest(h)
    /\ at \in Observing \cup Settled => ValidPolicy(work.phpa.policy)
    /\ at = "decide" => work.obs.value \in Nat
    /\ at \in Settled => Vouched(work, h, s)

Known == Policies \cup {NoPolicy}

Objects ==
    /\ deployment.requested \in Nat /\ deployment.observed \in Nat
    /\ cpu \in Nat
    /\ phpa.policy \in Known
    /\ Has(cache, Procs)
    /\ \A p \in Procs : Has(cache[p], CacheFields) /\ cache[p].phpa.policy \in Known

Guardians ==
    /\ Has(hist, Procs) /\ Has(steady, Procs)
    /\ \A p \in Procs : Guarded(pc[p], loc[p], hist[p], steady[p], deployment.requested)

RInv == Objects /\ Guardians
-----------------------------------------------------------------------------
(* Time, entries and peaks.                                                *)

(***************************************************************************)
(* Replica counts are bounded by the width of int32.                       *)
(***************************************************************************)
LEMMA MaxInt32IsNatural == MaxInt32 \in Nat
  BY SMT DEF MaxInt32

(***************************************************************************)
(* Horizon is a natural number beyond every window.                        *)
(***************************************************************************)
LEMMA HorizonFacts == Horizon \in Nat \ {0} /\ MaxSampleAge \in Nat
  BY HorizonAssumption

(***************************************************************************)
(* Every reading of the clock in this model shows one time, so the         *)
(* comparisons do not depend on which part of it they look at.             *)
(***************************************************************************)
LEMMA RecentFacts ==
    ASSUME NEW s \in 0..Horizon
    PROVE  /\ Now \in Recent(s) /\ Instant(Now) = Horizon
           /\ Recent(s) \subseteq Times
           /\ \A t \in Recent(s) : /\ Instant(t) \in Nat
                                   /\ Instant(t) <= Horizon /\ Instant(t) >= Horizon - s
<1>1. Horizon \in Nat /\ s \in Nat /\ Horizon - s \in Nat
  BY HorizonFacts
<1>2. Now \in Recent(s) /\ Instant(Now) = Horizon
  BY <1>1 DEF Now, Recent, Instant
<1>3. ASSUME NEW t \in Recent(s)
      PROVE  t \in Times /\ Instant(t) \in Nat /\ Instant(t) <= Horizon /\ Instant(t) >= Horizon - s
  <2>1. PICK x \in (Horizon - s)..Horizon : t = [mono |-> x, wall |-> x]
    BY DEF Recent
  <2>2. x \in Nat /\ Instant(t) = x
    BY <1>1, <2>1 DEF Instant
  <2>3. QED
    BY <1>1, <2>1, <2>2 DEF Times
<1>4. QED
  BY <1>2, <1>3

(***************************************************************************)
(* What was recent stays so for a clock that stands further on.            *)
(***************************************************************************)
LEMMA RecentGrows ==
    ASSUME NEW s \in 0..Horizon, NEW u \in s..Horizon
    PROVE  Recent(s) \subseteq Recent(u) /\ Seq(RecentEntries(s)) \subseteq Seq(RecentEntries(u))
<1>1. Recent(s) \subseteq Recent(u)
  BY HorizonFacts DEF Recent
<1>2. RecentEntries(s) \subseteq RecentEntries(u)
  BY <1>1 DEF RecentEntries, EntriesOf
<1>3. ASSUME NEW q \in Seq(RecentEntries(s)) PROVE q \in Seq(RecentEntries(u))
  BY <1>2
<1>4. QED
  BY <1>1, <1>3

(***************************************************************************)
(* A history that is kept vouches for a natural number, no less than any   *)
(* of its entries.                                                         *)
(***************************************************************************)
LEMMA KeptPeak ==
    ASSUME NEW s \in 0..Horizon, NEW entries \in Seq(RecentEntries(s))
    PROVE  /\ PeakOf(entries) \in Nat
           /\ \A i \in 1..Len(entries) :
                 entries[i].desired \in Nat /\ entries[i].desired <= PeakOf(entries)
           /\ PeakOf(entries) = 0 \/ \E i \in 1..Len(entries) : entries[i].desired = PeakOf(entries)
<1>1. MaxInt32 \in Nat /\ 0..MaxInt32 \subseteq 0..MaxInt32
  BY MaxInt32IsNatural
<1>2. entries \in Seq(EntriesOf(Recent(s), 0..MaxInt32))
  BY DEF RecentEntries
<1>3. /\ PeakOf(entries) \in Nat
      /\ \A i \in 1..Len(entries) : entries[i].desired <= PeakOf(entries)
      /\ PeakOf(entries) = 0 \/ \E i \in 1..Len(entries) : entries[i].desired = PeakOf(entries)
  <2>1. PeakOf(entries) = Largest(entries)
    BY DEF PeakOf, Largest
  <2>2. QED
    BY <1>1, <1>2, <2>1, LargestCount
<1>4. ASSUME NEW i \in 1..Len(entries) PROVE entries[i].desired \in Nat
  <2>1. entries[i] \in EntriesOf(Recent(s), 0..MaxInt32)
    BY <1>2, ElementOfSeq
  <2>2. entries[i].desired \in 0..MaxInt32
    BY <2>1 DEF EntriesOf
  <2>3. QED
    BY <1>1, <2>2
<1>5. QED
  BY <1>3, <1>4

(***************************************************************************)
(* What the history and its protection vouch for together.                 *)
(***************************************************************************)
LEMMA KeptHighest ==
    ASSUME NEW s \in 0..Horizon, NEW h, Kept(h, s), h.exists
    PROVE  /\ Highest(h) \in Nat
           /\ PeakOf(h.entries) <= Highest(h) /\ h.protectedReplicas <= Highest(h)
           /\ PeakOf(h.entries) \in Nat /\ h.protectedReplicas \in Nat
           /\ h.window \in 0..(Horizon - 1)
<1>1. /\ h.entries \in Seq(RecentEntries(s)) /\ h.protectedReplicas \in Nat
      /\ h.window \in 0..(Horizon - 1)
  BY DEF Kept, NoHistory
<1>2. PeakOf(h.entries) \in Nat
  BY <1>1, KeptPeak
<1>3. QED
  BY <1>1, <1>2 DEF Highest, Larger
-----------------------------------------------------------------------------
(* Recommending.                                                           *)

(***************************************************************************)
(* stabilizeRecommendation's entries: the new recommendation is among what *)
(* they vouch for, and nothing in the window is lost.                      *)
(***************************************************************************)
LEMMA EntriesRemembered ==
    ASSUME NEW s \in 0..Horizon, NEW entries \in Seq(RecentEntries(s)),
           NEW window \in 0..(Horizon - 1), NEW desired \in 0..MaxInt32
    PROVE  LET kept == prune(record(entries, window, Now, desired), window, Now)
           IN  /\ kept \in Seq(RecentEntries(s))
               /\ desired <= PeakOf(kept)
               /\ s <= window => PeakOf(entries) <= PeakOf(kept)
<1> DEFINE recorded == record(entries, window, Now, desired)
           kept == prune(recorded, window, Now)
<1>1. /\ Horizon \in Nat /\ s \in Nat /\ window \in Nat /\ desired \in Nat
      /\ MaxInt32 \in Nat /\ 0..MaxInt32 \subseteq 0..MaxInt32
  BY HorizonFacts, MaxInt32IsNatural
<1>2. Now \in Recent(s) /\ Instant(Now) = Horizon
  BY RecentFacts
<1>3. entries \in Seq(EntriesOf(Recent(s), 0..MaxInt32))
  BY DEF RecentEntries
<1>4. /\ recorded \in Seq(EntriesOf(Recent(s), 0..MaxInt32))
      /\ \E j \in 1..Len(recorded) : recorded[j].at = Now /\ recorded[j].desired >= desired
      /\ Represented(entries, recorded, Now)
  <2> DEFINE n == Len(entries)
             merges == n > 0 /\ Bucket(entries[n].at, window) = Bucket(Now, window)
             e == Entry(Now, IF merges THEN Larger(entries[n].desired, desired) ELSE desired)
  <2>1. merges => entries[n].desired \in 0..MaxInt32
    <3>1. n > 0 => n \in 1..n
      BY LenProperties
    <3>2. n > 0 => entries[n] \in EntriesOf(Recent(s), 0..MaxInt32)
      BY <1>3, <3>1, ElementOfSeq
    <3>3. QED
      BY <3>2 DEF EntriesOf
  <2>2. /\ e.at = Now
        /\ e.desired = IF merges THEN Larger(entries[n].desired, desired) ELSE desired
        /\ e \in EntriesOf({Now}, {e.desired})
    BY DEF Entry, EntriesOf
  <2>3. recorded = IF merges THEN [entries EXCEPT ![n] = e] ELSE Append(entries, e)
    BY DEF record
  <2> HIDE DEF e, merges, n, recorded
  <2>4. /\ e.desired \in 0..MaxInt32 /\ e.desired >= desired
        /\ merges => e.desired >= entries[n].desired
    BY <1>1, <2>1, <2>2 DEF Larger
  <2>5. e \in EntriesOf(Recent(s), 0..MaxInt32)
    BY <1>2, <2>2, <2>4 DEF EntriesOf
  <2>6. \/ recorded = Append(entries, e)
        \/ /\ n > 0 /\ e.desired >= entries[n].desired
           /\ recorded = [entries EXCEPT ![n] = e]
    BY <2>3, <2>4 DEF merges
  <2>7. /\ recorded \in Seq(EntriesOf(Recent(s), 0..MaxInt32))
        /\ \E j \in 1..Len(recorded) : recorded[j] = e
        /\ Represented(entries, recorded, e.at)
    BY <1>1, <1>3, <2>5, <2>6, NewestRepresents DEF n
  <2>8. QED
    BY <2>2, <2>4, <2>7
<1> HIDE DEF recorded
<1>5. /\ kept \in Seq(EntriesOf(Recent(s), 0..MaxInt32))
      /\ \A i \in 1..Len(recorded) : ~Expired(recorded[i], window, Now) =>
            \E j \in 1..Len(kept) : kept[j] = recorded[i]
  <2> DEFINE unexpired == {i \in 1..Len(recorded) : ~Expired(recorded[i], window, Now)}
  <2>1. kept = FromFirst(recorded, unexpired)
    BY DEF prune, FromFirst
  <2>2. /\ unexpired \in SUBSET (1..Len(recorded))
        /\ \A i \in 1..Len(recorded) : ~Expired(recorded[i], window, Now) => i \in unexpired
    OBVIOUS
  <2> HIDE DEF unexpired, kept
  <2>3. QED
    BY <1>4, <2>1, <2>2, SuffixKeeps
<1> HIDE DEF kept
<1>6. kept \in Seq(RecentEntries(s)) /\ recorded \in Seq(RecentEntries(s))
  BY <1>4, <1>5 DEF RecentEntries
<1>7. ASSUME NEW j \in 1..Len(recorded), recorded[j].at = Now \/ s <= window
      PROVE  recorded[j].desired <= PeakOf(kept) /\ recorded[j].desired \in Nat
  <2>1. recorded[j] \in EntriesOf(Recent(s), 0..MaxInt32)
    BY <1>4, ElementOfSeq
  <2>2. recorded[j].at \in Recent(s)
    BY <2>1 DEF EntriesOf
  <2>3. Instant(recorded[j].at) \in Nat /\ Instant(recorded[j].at) >= Horizon - s
    BY <2>2, RecentFacts
  <2>4. ~Expired(recorded[j], window, Now)
    <3>1. CASE recorded[j].at = Now
      BY <1>1, <1>2, <3>1 DEF Expired
    <3>2. CASE s <= window
      BY <1>1, <1>2, <2>3, <3>2 DEF Expired
    <3>3. QED
      BY <1>7, <3>1, <3>2
  <2>5. PICK i \in 1..Len(kept) : kept[i] = recorded[j]
    BY <1>5, <2>4
  <2>6. QED
    BY <1>6, <2>5, KeptPeak
<1>8. PeakOf(kept) \in Nat /\ PeakOf(entries) \in Nat
  BY <1>6, KeptPeak
<1>9. desired <= PeakOf(kept)
  <2>1. PICK j \in 1..Len(recorded) : recorded[j].at = Now /\ recorded[j].desired >= desired
    BY <1>4
  <2>2. QED
    BY <1>1, <1>7, <1>8, <2>1
<1>10. ASSUME s <= window PROVE PeakOf(entries) <= PeakOf(kept)
  <2>1. CASE PeakOf(entries) = 0
    BY <1>8, <2>1
  <2>2. ASSUME NEW i \in 1..Len(entries), entries[i].desired = PeakOf(entries)
        PROVE  PeakOf(entries) <= PeakOf(kept)
    <3>1. PICK j \in 1..Len(recorded) : recorded[j].desired >= entries[i].desired
      BY <1>4 DEF Represented
    <3>2. recorded[j].desired <= PeakOf(kept) /\ recorded[j].desired \in Nat
      BY <1>7, <1>10
    <3>3. QED
      BY <1>8, <2>2, <3>1, <3>2
  <2>3. QED
    BY <2>1, <2>2, KeptPeak
<1>11. QED
  BY <1>6, <1>9, <1>10 DEF kept, recorded

(***************************************************************************)
(* The history after a recommendation: whether it goes on with the stored  *)
(* one or starts afresh from the live request, it vouches for both; and    *)
(* within the window it is still protected by the cold start.              *)
(***************************************************************************)
LEMMA RememberVouches ==
    ASSUME NEW s \in 0..Horizon, NEW h, Kept(h, s), NEW requested \in Nat,
           Guards(h, s) => requested <= Highest(h),
           NEW identity, NEW window \in 0..(Horizon - 1), NEW desired \in 0..MaxInt32
    PROVE  LET k == Remember(h, identity, window, Now, desired, requested)
           IN  /\ Kept(k, s) /\ k.exists /\ k.window = window
               /\ desired <= PeakOf(k.entries)
               /\ window > 0 /\ s <= window => requested <= Highest(k) /\ coldStart(k)
<1> DEFINE fresh == NewHistory(identity, window, Now, requested)
           base == IF Invalidated(h, identity, window, Now) THEN fresh ELSE h
           entries == IF window = 0 THEN <<>> ELSE base.entries
           kept == prune(record(entries, window, Now, desired), window, Now)
           k == Remember(h, identity, window, Now, desired, requested)
<1>1. /\ Horizon \in Nat /\ s \in Nat /\ window \in Nat /\ desired \in Nat
      /\ Now \in Recent(s) /\ Instant(Now) = Horizon
  BY HorizonFacts, RecentFacts, MaxInt32IsNatural
<1>2. <<>> \in Seq(RecentEntries(s))
  BY EmptySeq
<1>3. Kept(fresh, s) /\ fresh.exists /\ fresh.window = window
      /\ fresh.protectedReplicas = requested /\ fresh.entries = <<>>
  BY <1>1, <1>2 DEF Kept, NewHistory, Has, HistoryFields
<1>5. /\ Kept(base, s) /\ base.exists /\ base.window = window
      /\ Guards(base, s) => requested <= Highest(base)
  <2>1. CASE base = fresh
    BY <1>3, <2>1, KeptHighest
  <2>2. CASE base # fresh
    <3>1. ~Invalidated(h, identity, window, Now) /\ base = h
      BY <2>2
    <3>2. QED
      BY <3>1 DEF Invalidated
  <2>3. QED
    BY <2>1, <2>2
<1> HIDE DEF base
<1>6. /\ Has(base, HistoryFields) /\ base.exists = TRUE
      /\ base.entries \in Seq(RecentEntries(s)) /\ base.protectedAt \in Recent(s)
      /\ base.protectedReplicas \in Nat
  BY <1>5 DEF Kept, NoHistory
<1>7. entries \in Seq(RecentEntries(s))
  BY <1>2, <1>6
<1>8. k = [base EXCEPT !.lastRecordedAt = Now, !.entries = kept]
  BY DEF Remember, base
<1>9. /\ kept \in Seq(RecentEntries(s)) /\ desired <= PeakOf(kept)
      /\ s <= window => PeakOf(entries) <= PeakOf(kept)
  BY <1>7, EntriesRemembered
<1> HIDE DEF kept, k, fresh
<1>10. /\ Has(k, HistoryFields) /\ k.exists = TRUE /\ k.window = window
       /\ k.entries = kept /\ k.lastRecordedAt = Now
       /\ k.protectedAt = base.protectedAt /\ k.protectedReplicas = base.protectedReplicas
  BY <1>5, <1>6, <1>8 DEF Has, HistoryFields
<1>11. Kept(k, s)
  BY <1>1, <1>6, <1>9, <1>10 DEF Kept
<1>12. ASSUME window > 0, s <= window PROVE requested <= Highest(k) /\ coldStart(k)
  <2>1. requested <= Highest(base)
    BY <1>5, <1>12 DEF Guards
  <2>2. PeakOf(base.entries) <= PeakOf(kept)
    BY <1>1, <1>9, <1>12
  <2>3. PeakOf(base.entries) \in Nat /\ PeakOf(kept) \in Nat
    BY <1>6, <1>9, KeptPeak
  <2>4. Highest(base) <= Highest(k)
    BY <1>6, <1>10, <2>2, <2>3 DEF Highest, Larger
  <2>5. Highest(base) \in Nat /\ Highest(k) \in Nat
    BY <1>5, <1>10, <1>11, KeptHighest
  <2>6. Instant(k.protectedAt) \in Nat /\ Instant(k.protectedAt) >= Horizon - s
    BY <1>6, <1>10, RecentFacts
  <2>7. coldStart(k)
    BY <1>1, <1>10, <1>12, <2>6 DEF coldStart
  <2>8. QED
    BY <2>1, <2>4, <2>5, <2>7
<1>13. QED
  BY <1>9, <1>10, <1>11, <1>12 DEF k

(***************************************************************************)
(* A recommendation stays inside the bounds of a valid policy.             *)
(***************************************************************************)
LEMMA RecommendationBounded ==
    ASSUME NEW policy, ValidPolicy(policy), NEW observed \in Nat, NEW requested \in Nat,
           NEW signal \in Int
    PROVE  /\ Floor(policy.minimum) \in 1..policy.maximum
           /\ directedRecommendation(observed, requested, signal, policy.target,
                  Floor(policy.minimum), policy.maximum) \in Floor(policy.minimum)..policy.maximum
<1> DEFINE minimum == Floor(policy.minimum)
           cpu0    == Larger(signal, 0)
           needed  == CeilDiv(observed * cpu0, policy.target)
           desired == computeDesiredReplicas(
                          observed, signal, policy.target, minimum, policy.maximum)
<1>1. /\ policy.target \in Nat \ {0} /\ policy.maximum \in Nat
      /\ minimum \in 1..policy.maximum
  BY MaxInt32IsNatural DEF ValidPolicy, Floor, Larger
<1> HIDE DEF minimum
<1>2. needed \in Int
  <2>1. cpu0 \in Nat
    BY DEF Larger
  <2>2. observed * cpu0 \in Nat
    BY <2>1
  <2> HIDE DEF cpu0
  <2>3. QED
    BY <1>1, <2>2 DEF CeilDiv
<1>3. desired \in Int
  <2>1. desired = Clamp(needed, minimum, policy.maximum)
    BY DEF computeDesiredReplicas
  <2> HIDE DEF needed, desired
  <2>2. QED
    BY <1>1, <1>2, <2>1 DEF Clamp, Floor, Larger, Smaller
<1> HIDE DEF desired
<1>4. directedRecommendation(observed, requested, signal, policy.target, minimum, policy.maximum)
         \in minimum..policy.maximum
  <2> DEFINE directed == IF signal < policy.target THEN Smaller(desired, requested)
                         ELSE IF signal > policy.target THEN Larger(desired, requested)
                         ELSE desired
  <2>1. directed \in Int
    BY <1>3 DEF Smaller, Larger
  <2>2. directedRecommendation(observed, requested, signal, policy.target, minimum, policy.maximum)
           = Clamp(directed, minimum, policy.maximum)
    BY DEF directedRecommendation, desired
  <2> HIDE DEF directed
  <2>3. QED
    BY <1>1, <2>1, <2>2 DEF Clamp, Floor, Larger, Smaller
<1>5. QED
  BY <1>1, <1>4 DEF minimum

(***************************************************************************)
(* The count the policy settles on: no more than what the history vouches  *)
(* for and, while the cold start is protected, no less than a request that *)
(* the history vouches for.                                                *)
(***************************************************************************)
LEMMA FinalVouched ==
    ASSUME NEW s \in 0..Horizon, NEW k, Kept(k, s), k.exists, NEW requested \in Nat,
           NEW maximum \in Nat, NEW minimum \in 1..maximum, NEW desired \in minimum..maximum,
           desired <= PeakOf(k.entries)
    PROVE  LET final == finalDesired(k, desired, requested, <<minimum, maximum>>)
           IN  /\ final \in Nat
               /\ k.window > 0 => final <= Highest(k)
               /\ k.window > 0 /\ requested <= Highest(k) /\ coldStart(k) =>
                     final >= requested \/ final = maximum
<1> DEFINE peak == Larger(PeakOf(k.entries), IF coldStart(k) THEN k.protectedReplicas ELSE 0)
           held == IF k.window > 0 /\ desired < requested THEN Smaller(requested, peak) ELSE desired
           final == finalDesired(k, desired, requested, <<minimum, maximum>>)
<1>1. /\ PeakOf(k.entries) \in Nat /\ k.protectedReplicas \in Nat /\ Highest(k) \in Nat
      /\ k.window \in Nat
  BY KeptHighest, HorizonFacts
<1>2. final = Clamp(held, minimum, maximum)
  BY DEF finalDesired
<1>3. /\ peak \in Nat /\ desired <= peak /\ peak <= Highest(k)
      /\ coldStart(k) => peak = Highest(k)
  BY <1>1 DEF Highest, Larger
<1> HIDE DEF peak, final
<1>4. held \in Nat /\ held >= desired /\ held >= minimum
  BY <1>3 DEF Smaller
<1>5. k.window > 0 => held <= Highest(k)
  BY <1>1, <1>3 DEF Smaller
<1>6. k.window > 0 /\ requested <= Highest(k) /\ coldStart(k) => held >= requested
  BY <1>1, <1>3 DEF Smaller
<1> HIDE DEF held
<1>7. final = Smaller(held, maximum)
  BY <1>2, <1>4 DEF Clamp, Floor, Larger
<1>8. QED
  BY <1>1, <1>4, <1>5, <1>6, <1>7 DEF Smaller, final
-----------------------------------------------------------------------------
(* What happens around one process, on values.                             *)

(***************************************************************************)
(* A cycle that is over, or has only its report left, promises nothing.    *)
(***************************************************************************)
LEMMA Quiet ==
    ASSUME NEW at, NEW work, NEW h, NEW s, NEW r, Guarded(at, work, h, s, r),
           NEW next, next \notin Observing \cup Settled, NEW after
    PROVE  Guarded(next, after, h, s, r)
  BY DEF Guarded, Observing

(***************************************************************************)
(* Which versions were read, and when, is not promised either.             *)
(***************************************************************************)
LEMMA SameCount ==
    ASSUME NEW at, NEW work, NEW h, NEW s, NEW r, Guarded(at, work, h, s, r), NEW after,
           after.phpa = work.phpa, after.obs.value = work.obs.value,
           after.final = work.final, after.requested = work.requested
    PROVE  Guarded(at, after, h, s, r)
  BY DEF Guarded, Vouched

(***************************************************************************)
(* Once others have scaled, or the process is as old as any window, the    *)
(* history protects nothing and may say so of any request.                 *)
(***************************************************************************)
LEMMA OthersScaled ==
    ASSUME NEW at, NEW work, NEW h, NEW s, NEW r, Guarded(at, work, h, s, r), NEW q
    PROVE  Guarded(at, work, h, Horizon, q)
<1>1. Horizon \in Nat /\ s \in 0..Horizon /\ Horizon \in s..Horizon /\ Horizon \in 0..Horizon
  BY HorizonFacts DEF Guarded
<1>2. Kept(h, Horizon)
  BY <1>1, RecentGrows DEF Guarded, Kept
<1>3. ~Guards(h, Horizon)
  <2>1. h.exists => h.window \in 0..(Horizon - 1)
    BY DEF Guarded, Kept, NoHistory
  <2>2. QED
    BY <1>1, <2>1 DEF Guards
<1>4. at \in Settled => Vouched(work, h, Horizon)
  <2>1. at \in Settled => work.phpa.policy.window \in 0..(Horizon - 1)
    BY DEF Guarded, ValidPolicy
  <2>2. QED
    BY <1>1, <2>1 DEF Guarded, Vouched
<1>5. QED
  BY <1>1, <1>2, <1>3, <1>4 DEF Guarded

(***************************************************************************)
(* A Deployment that is deleted requests nothing.                          *)
(***************************************************************************)
LEMMA NothingRequested ==
    ASSUME NEW at, NEW work, NEW h, NEW s, NEW r, Guarded(at, work, h, s, r)
    PROVE  Guarded(at, work, h, s, 0)
<1>1. h.exists => Highest(h) \in Nat
  BY KeptHighest DEF Guarded
<1>2. QED
  BY <1>1 DEF Guarded, Guards

(***************************************************************************)
(* The count that was settled on becomes the request.                      *)
(***************************************************************************)
LEMMA CountWritten ==
    ASSUME NEW work, NEW h, NEW s, NEW r, Guarded("write", work, h, s, r),
           NEW next, next \notin Observing \cup Settled, NEW after
    PROVE  work.final \in Nat /\ Guarded(next, after, h, s, work.final)
  BY DEF Guarded, Vouched, Guards, Settled, Observing

(***************************************************************************)
(* A history that is dropped protects nothing.                             *)
(***************************************************************************)
LEMMA Dropped ==
    ASSUME NEW s \in 0..Horizon, NEW r, NEW next, next \notin Observing \cup Settled, NEW after
    PROVE  Guarded(next, after, NoHistory, s, r)
  BY DEF Guarded, Kept, Guards, NoHistory, Observing

(***************************************************************************)
(* Ageing moves the recent past along with the clock.                      *)
(***************************************************************************)
LEMMA RecentAges ==
    ASSUME NEW s \in 0..Horizon, NEW t \in Recent(s)
    PROVE  OlderTime(t) \in Recent(Smaller(s + 1, Horizon))
<1>1. Horizon \in Nat /\ s \in Nat
  BY HorizonFacts
<1>2. PICK x \in (Horizon - s)..Horizon : t = [mono |-> x, wall |-> x]
  BY DEF Recent
<1>3. Older(x) \in (Horizon - Smaller(s + 1, Horizon))..Horizon
  BY <1>1, <1>2 DEF Older, Smaller
<1>4. OlderTime(t) = [mono |-> Older(x), wall |-> Older(x)]
  BY <1>2 DEF OlderTime
<1>5. QED
  BY <1>3, <1>4 DEF Recent

(***************************************************************************)
(* The promises to one process survive the passing of time: its history    *)
(* ages as its clock advances.                                             *)
(***************************************************************************)
LEMMA Aged ==
    ASSUME NEW at, NEW work, NEW h, NEW s, NEW r, Guarded(at, work, h, s, r)
    PROVE  Guarded(at, work, OlderHistory(h), Smaller(s + 1, Horizon), r)
<1> DEFINE u == Smaller(s + 1, Horizon)
           old == OlderHistory(h)
           aged == [i \in DOMAIN h.entries |->
                      Entry(OlderTime(h.entries[i].at), h.entries[i].desired)]
<1>1. /\ Horizon \in Nat /\ s \in 0..Horizon /\ u \in 0..Horizon /\ s <= Horizon
      /\ u = Horizon \/ s <= u
  BY HorizonFacts DEF Guarded, Smaller
<1>2. CASE h = NoHistory
  <2>1. old = NoHistory
    BY <1>2 DEF OlderHistory, NoHistory
  <2>2. ~NoHistory.exists
    BY DEF NoHistory
  <2> HIDE DEF u, old
  <2>3. Kept(old, u) /\ ~Guards(old, u)
    BY <2>1, <2>2 DEF Kept, Guards
  <2>4. at \in Settled => Vouched(work, old, u)
    <3>1. ASSUME at \in Settled PROVE Vouched(work, old, u)
      <4>1. Vouched(work, h, s) /\ ValidPolicy(work.phpa.policy)
        BY <3>1 DEF Guarded
      <4>2. u <= work.phpa.policy.window => s <= work.phpa.policy.window
        BY <1>1, <4>1 DEF ValidPolicy
      <4>3. QED
        BY <1>2, <2>1, <4>1, <4>2 DEF Vouched
    <3>2. QED
      BY <3>1
  <2>5. QED
    BY <1>1, <2>3, <2>4 DEF Guarded, u, old
<1>3. CASE h # NoHistory
  <2>1. /\ Has(h, HistoryFields) /\ h.exists = TRUE
        /\ h.window \in 0..(Horizon - 1)
        /\ h.entries \in Seq(RecentEntries(s))
        /\ h.lastRecordedAt \in Recent(s) /\ h.protectedAt \in Recent(s)
        /\ h.protectedReplicas \in Nat
    BY <1>3 DEF Guarded, Kept
  <2>2. old = [h EXCEPT !.entries = aged, !.lastRecordedAt = OlderTime(@),
                        !.protectedAt = OlderTime(@)]
    BY <2>1 DEF OlderHistory
  <2>3. /\ Has(old, HistoryFields) /\ old.exists = TRUE /\ old.window = h.window
        /\ old.protectedReplicas = h.protectedReplicas /\ old.entries = aged
        /\ old.lastRecordedAt = OlderTime(h.lastRecordedAt)
        /\ old.protectedAt = OlderTime(h.protectedAt)
    <3> HIDE DEF old, aged
    <3>1. QED
      BY <2>1, <2>2 DEF Has, HistoryFields
  <2>4. Len(h.entries) \in Nat /\ DOMAIN h.entries = 1..Len(h.entries)
    BY <2>1, LenProperties
  <2>5. ASSUME NEW i \in 1..Len(h.entries)
        PROVE  /\ aged[i] \in RecentEntries(u)
               /\ aged[i].desired = h.entries[i].desired
    <3>1. h.entries[i] \in RecentEntries(s)
      BY <2>1, ElementOfSeq
    <3>2. h.entries[i].at \in Recent(s) /\ h.entries[i].desired \in 0..MaxInt32
      BY <3>1 DEF RecentEntries, EntriesOf
    <3>3. OlderTime(h.entries[i].at) \in Recent(u)
      BY <1>1, <3>2, RecentAges
    <3>4. aged[i] = Entry(OlderTime(h.entries[i].at), h.entries[i].desired)
      BY <2>4
    <3> HIDE DEF aged, u
    <3>5. QED
      BY <3>2, <3>3, <3>4 DEF Entry, RecentEntries, EntriesOf
  <2>6. aged \in Seq(RecentEntries(u)) /\ Len(aged) = Len(h.entries)
    <3>1. aged \in [1..Len(h.entries) -> RecentEntries(u)]
      BY <2>4, <2>5
    <3> HIDE DEF aged
    <3>2. aged \in Seq(RecentEntries(u))
      BY <2>4, <3>1, SeqDef
    <3>3. DOMAIN aged = 1..Len(h.entries)
      BY <3>1
    <3>4. QED
      BY <2>4, <3>2, <3>3, LenProperties
  <2>7. PeakOf(aged) = PeakOf(h.entries)
    <3> HIDE DEF aged
    <3>1. {aged[i].desired : i \in 1..Len(aged)}
             = {h.entries[i].desired : i \in 1..Len(h.entries)}
      BY <2>5, <2>6
    <3>2. QED
      BY <3>1 DEF PeakOf
  <2>8. Highest(old) = Highest(h)
    BY <2>3, <2>7 DEF Highest
  <2>9. old.lastRecordedAt \in Recent(u) /\ old.protectedAt \in Recent(u)
    BY <1>1, <2>1, <2>3, RecentAges
  <2> HIDE DEF u, old, aged
  <2>10. Kept(old, u)
    BY <2>1, <2>3, <2>6, <2>9 DEF Kept
  <2>11. Guards(old, u) => r <= Highest(old)
    <3>1. Guards(old, u) => Guards(h, s)
      BY <1>1, <2>1, <2>3 DEF Guards
    <3>2. QED
      BY <2>8, <3>1 DEF Guarded
  <2>12. ASSUME at \in Settled PROVE Vouched(work, old, u)
    <3>1. Vouched(work, h, s) /\ ValidPolicy(work.phpa.policy)
      BY <2>12 DEF Guarded
    <3>2. u <= work.phpa.policy.window => s <= work.phpa.policy.window
      BY <1>1, <3>1 DEF ValidPolicy
    <3>3. QED
      BY <2>1, <2>3, <2>8, <3>1, <3>2 DEF Vouched
  <2>13. QED
    BY <1>1, <2>10, <2>11, <2>12 DEF Guarded, u, old
<1>4. QED
  BY <1>2, <1>3
-----------------------------------------------------------------------------
(* The steps of the specification.                                         *)

(***************************************************************************)
(* A process that has not run yet has recorded nothing.                    *)
(***************************************************************************)
LEMMA InitGuarded == ASSUME Init PROVE RInv
<1>1. PICK policy \in Policies : phpa = NewPHPA(1, policy)
  BY DEF Init
<1>2. PICK replicas \in Counts :
         deployment = [NewDeployment(1, replicas) EXCEPT !.observed = replicas]
  BY DEF Init
<1>3. phpa.policy \in Known /\ SeenPHPA.policy \in Known
  BY <1>1 DEF NewPHPA, SeenPHPA, Known
<1>4. deployment.requested \in Nat /\ deployment.observed \in Nat
  BY <1>2, CountsAssumption DEF NewDeployment
<1>5. /\ cache = [p \in Procs |->
                     [phpa |-> SeenPHPA, deployment |-> SeenDeployment, news |-> FALSE]]
      /\ cpu \in Nat
  BY CountsAssumption DEF Init
<1>6. Objects
  BY <1>3, <1>4, <1>5 DEF Objects, Has, CacheFields
<1>7. /\ pc = [p \in Procs |-> "idle"]
      /\ hist = [p \in Procs |-> NoHistory] /\ steady = [p \in Procs |-> 0]
  BY DEF Init
<1>8. 0 \in 0..Horizon /\ "idle" \notin Observing \cup Settled
  BY HorizonFacts DEF Observing, Settled
<1>9. ASSUME NEW p \in Procs
      PROVE  Guarded(pc[p], loc[p], hist[p], steady[p], deployment.requested)
  BY <1>7, <1>8, Dropped
<1>10. QED
  BY <1>6, <1>7, <1>9 DEF RInv, Guardians, Has

(***************************************************************************)
(* One process moves; the Deployment and the clocks stay.                  *)
(***************************************************************************)
LEMMA OwnStep ==
    ASSUME FInv, Guardians, NEW p \in Procs, NEW next, NEW work, NEW h,
           pc' = [pc EXCEPT ![p] = next], loc' = [loc EXCEPT ![p] = work],
           hist' = [hist EXCEPT ![p] = h], UNCHANGED <<deployment, steady>>,
           Guarded(next, work, h, steady[p], deployment.requested)
    PROVE  Guardians'
<1>1. Has(pc, Procs) /\ Has(loc, Procs) /\ Has(hist, Procs) /\ Has(steady, Procs)
  BY DEF FInv, Shapes, Guardians
<1>2. Has(hist', Procs) /\ Has(steady', Procs)
  BY <1>1 DEF Has
<1>3. ASSUME NEW q \in Procs
      PROVE  Guarded(pc'[q], loc'[q], hist'[q], steady'[q], deployment'.requested)
  <2>1. CASE q = p
    BY <1>1, <2>1 DEF Has
  <2>2. CASE q # p
    <3>1. pc'[q] = pc[q] /\ loc'[q] = loc[q] /\ hist'[q] = hist[q] /\ steady'[q] = steady[q]
      BY <1>1, <2>2 DEF Has
    <3>2. QED
      BY <3>1 DEF Guardians
  <2>3. QED
    BY <2>1, <2>2
<1>4. QED
  BY <1>2, <1>3 DEF Guardians

(***************************************************************************)
(* It goes on with the history it has.                                     *)
(***************************************************************************)
LEMMA GoesOn ==
    ASSUME FInv, Guardians, NEW p \in Procs, NEW next, NEW work,
           Continue(p, next, work), UNCHANGED <<deployment, steady, hist>>,
           Guarded(next, work, hist[p], steady[p], deployment.requested)
    PROVE  Guardians'
<1>1. hist' = [hist EXCEPT ![p] = hist[p]]
  BY DEF Guardians, Has
<1>2. QED
  BY <1>1, OwnStep DEF Continue

(***************************************************************************)
(* It ends its cycle, or has only the report left.                         *)
(***************************************************************************)
LEMMA Ends ==
    ASSUME FInv, Guardians, NEW p \in Procs, NEW work,
           Rest(p) \/ Unavailable(p, work), UNCHANGED <<deployment, steady, hist>>
    PROVE  Guardians'
<1>1. Guarded(pc[p], loc[p], hist[p], steady[p], deployment.requested)
  BY DEF Guardians
<1>2. "idle" \notin Observing \cup Settled /\ "publish" \notin Observing \cup Settled
  BY DEF Observing, Settled
<1>3. CASE Rest(p)
  <2>1. Continue(p, "idle", NoWork)
    BY <1>3 DEF Rest, Continue
  <2>2. Guarded("idle", NoWork, hist[p], steady[p], deployment.requested)
    BY <1>1, <1>2, Quiet
  <2>3. QED
    BY <2>1, <2>2, GoesOn
<1>4. CASE Unavailable(p, work)
  <2> DEFINE after == [NoWork EXCEPT !.phpa = work.phpa, !.evaluated = work.evaluated,
                                     !.report = "Unavailable"]
  <2>1. Continue(p, "publish", after)
    BY <1>4 DEF Unavailable
  <2> HIDE DEF after
  <2>2. Guarded("publish", after, hist[p], steady[p], deployment.requested)
    BY <1>1, <1>2, Quiet
  <2>3. QED
    BY <2>1, <2>2, GoesOn
<1>5. QED
  BY <1>3, <1>4

(***************************************************************************)
(* Nothing of this moves.                                                  *)
(***************************************************************************)
LEMMA Unmoved ==
    ASSUME Guardians, UNCHANGED <<pc, loc, hist, steady, deployment>>
    PROVE  Guardians'
  BY DEF Guardians

(***************************************************************************)
(* Beginning a cycle: only a valid policy gets as far as the metrics.      *)
(***************************************************************************)
LEMMA KnownPolicyValid ==
    ASSUME NEW policy \in Known, validateConfiguration(policy)
    PROVE  ValidPolicy(policy)
<1>1. policy \in Policies
  BY DEF Known, NoPolicy, validateConfiguration
<1>2. policy.maximum \in Int /\ policy.window \in Int /\ policy.maximum <= MaxInt32
  BY <1>1, PoliciesAssumption
<1>3. policy.window < Horizon
  BY <1>1, HorizonAssumption
<1>4. QED
  BY <1>2, <1>3, HorizonFacts, MaxInt32IsNatural DEF ValidPolicy, validateConfiguration

(***************************************************************************)
(* A cycle that gets as far as the metrics works with a valid policy; a    *)
(* deleted object loses its history.                                       *)
(***************************************************************************)
LEMMA BeginGuarded ==
    ASSUME FInv, RInv, NEW p \in Procs, DropDeleted(p) \/ IgnoreDeleting(p) \/ Begin(p)
    PROVE  Guardians'
<1>1. /\ Guardians /\ UNCHANGED <<deployment, steady>> /\ pc[p] = "idle"
      /\ Guarded(pc[p], loc[p], hist[p], steady[p], deployment.requested)
      /\ cache[p].phpa.policy \in Known
  BY DEF RInv, Guardians, Objects, DropDeleted, IgnoreDeleting, Begin, Dequeue, api
<1>2. CASE DropDeleted(p)
  <2>1. /\ pc' = [pc EXCEPT ![p] = pc[p]] /\ loc' = [loc EXCEPT ![p] = loc[p]]
        /\ hist' = [hist EXCEPT ![p] = NoHistory]
    BY <1>2 DEF DropDeleted, FInv, Shapes, Has
  <2>2. Guarded(pc[p], loc[p], NoHistory, steady[p], deployment.requested)
    <3>1. pc[p] \notin Observing \cup Settled /\ steady[p] \in 0..Horizon
      BY <1>1 DEF Guarded, Observing, Settled
    <3>2. QED
      BY <3>1, Dropped
  <2>3. QED
    BY <1>1, <2>1, <2>2, OwnStep
<1>3. CASE IgnoreDeleting(p)
  BY <1>1, <1>3, Unmoved DEF IgnoreDeleting
<1>4. CASE Begin(p)
  <2> DEFINE seen == cache[p].phpa
             work == [NoWork EXCEPT !.phpa = [uid |-> seen.uid, gen |-> seen.gen,
                                              policy |-> seen.policy],
                                    !.target = cache[p].deployment.uid]
  <2>1. hist' = hist
    BY <1>4 DEF Begin
  <2>2. CASE Unavailable(p, work)
    <3> HIDE DEF work
    <3>1. QED
      BY <1>1, <2>1, <2>2, Ends
  <2>3. CASE validateConfiguration(seen.policy) /\ Continue(p, "query", work)
    <3>1. ValidPolicy(seen.policy)
      BY <1>1, <2>3, KnownPolicyValid
    <3>2. work.phpa.policy = seen.policy
      BY DEF NoWork
    <3> HIDE DEF work
    <3>3. Guarded("query", work, hist[p], steady[p], deployment.requested)
      BY <1>1, <3>1, <3>2 DEF Guarded, Settled
    <3>4. QED
      BY <1>1, <2>1, <2>3, <3>3, GoesOn
  <2>4. QED
    BY <1>4, <2>2, <2>3 DEF Begin
<1>5. QED
  BY <1>2, <1>3, <1>4

(***************************************************************************)
(* The calls between a beginning and a report that record nothing.         *)
(***************************************************************************)
LEMMA CallsGuarded ==
    ASSUME FInv, RInv, NEW p \in Procs,
           \/ Query(p) \/ RecheckPolicy(p) \/ RecheckScale(p) \/ VerifyTarget(p)
           \/ ReadForStatus(p) \/ CallFails(p)
    PROVE  Guardians'
<1> DEFINE own == loc[p]
<1>1. /\ Guardians /\ UNCHANGED <<deployment, steady, hist>>
      /\ Guarded(pc[p], own, hist[p], steady[p], deployment.requested)
      /\ WorkShape(own) /\ cpu \in Nat
  BY DEF RInv, Guardians, Objects, FInv, Sound, Query, RecheckPolicy, RecheckScale,
         VerifyTarget, ReadForStatus, CallFails, api
<1>2. CASE Rest(p) \/ Unavailable(p, own)
  BY <1>1, <1>2, Ends
<1>3. ASSUME NEW age \in 0..MaxSampleAge, pc[p] = "query",
             Continue(p, "decide", [own EXCEPT
                 !.obs = [value |-> cpu, at |-> Horizon - age, of |-> deployment.uid]])
      PROVE  Guardians'
  <2> DEFINE work == [own EXCEPT
                 !.obs = [value |-> cpu, at |-> Horizon - age, of |-> deployment.uid]]
  <2>1. work.phpa = own.phpa /\ work.obs.value = cpu
    BY <1>1 DEF WorkShape, Has, WorkFields
  <2> HIDE DEF work
  <2>2. Guarded("decide", work, hist[p], steady[p], deployment.requested)
    BY <1>1, <1>3, <2>1 DEF Guarded, Observing, Settled
  <2>3. QED
    BY <1>1, <1>3, <2>2, GoesOn DEF work
<1>4. ASSUME NEW next \in {"scale", "write"}, pc[p] \in Settled, Continue(p, next, own)
      PROVE  Guardians'
  <2>1. Guarded(next, own, hist[p], steady[p], deployment.requested)
    BY <1>1, <1>4 DEF Guarded, Observing, Settled
  <2>2. QED
    BY <1>1, <1>4, <2>1, GoesOn
<1>5. ASSUME NEW next \in {"publish", "patch"}, NEW work, Continue(p, next, work)
      PROVE  Guardians'
  <2>1. Guarded(next, work, hist[p], steady[p], deployment.requested)
    BY <1>1, <1>5, Quiet DEF Observing, Settled
  <2>2. QED
    BY <1>1, <1>5, <2>1, GoesOn
<1>6. CASE Query(p)
  BY <1>2, <1>3, <1>6 DEF Query
<1>7. CASE RecheckPolicy(p) \/ RecheckScale(p)
  BY <1>2, <1>4, <1>7 DEF RecheckPolicy, RecheckScale, Requeue, Settled
<1>8. CASE VerifyTarget(p) \/ ReadForStatus(p)
  BY <1>2, <1>5, <1>8 DEF VerifyTarget, ReadForStatus, Requeue
<1>9. CASE CallFails(p)
  BY <1>2, <1>9 DEF CallFails, Requeue
<1>10. QED
  BY <1>6, <1>7, <1>8, <1>9

(***************************************************************************)
(* The recommendation: what it settles on is vouched for by the history it *)
(* has just been recorded in.                                              *)
(***************************************************************************)
LEMMA RecommendGuarded ==
    ASSUME FInv, RInv, NEW p \in Procs, pc[p] = "decide", Recommend(p),
           UNCHANGED <<deployment, steady>>
    PROVE  Guardians'
<1> DEFINE own       == loc[p]
           policy    == own.phpa.policy
           minimum   == Floor(policy.minimum)
           current   == own.obs.value
           requested == deployment.requested
           s         == steady[p]
<1>1. /\ Guardians /\ Guarded(pc[p], own, hist[p], s, requested) /\ WorkShape(own)
      /\ requested \in Nat /\ deployment.observed \in Nat
  BY DEF RInv, Guardians, Objects, FInv, Sound
<1>2. /\ ValidPolicy(policy) /\ current \in Nat /\ s \in 0..Horizon /\ Kept(hist[p], s)
      /\ Guards(hist[p], s) => requested <= Highest(hist[p])
  BY <1>1 DEF Guarded, Observing
<1>3. PICK signal, desired, kept, final :
         /\ \E predicted \in Forecasts :
               signal = selectDecisionSignal(policy.mode, current,
                            capPrediction(predicted, current), policy.target)
         /\ desired = directedRecommendation(deployment.observed, requested, signal,
                          policy.target, minimum, policy.maximum)
         /\ kept = Remember(hist[p], Identity(own), policy.window, Now, desired, requested)
         /\ final = finalDesired(kept, desired, requested, <<minimum, policy.maximum>>)
         /\ hist' = [hist EXCEPT ![p] = kept]
         /\ \E next \in {"policy", "verify"} :
               Continue(p, next, [own EXCEPT !.requested = requested, !.scaleFresh = TRUE,
                                             !.final = final, !.evaluated = TRUE,
                                             !.report = "Decided"])
  BY DEF Recommend
<1> DEFINE work == [own EXCEPT !.requested = requested, !.scaleFresh = TRUE, !.final = final,
                               !.evaluated = TRUE, !.report = "Decided"]
<1>4. PICK next \in {"policy", "verify"} : Continue(p, next, work)
  BY <1>3
<1>5. /\ work.phpa = own.phpa /\ work.final = final /\ work.requested = requested
  BY <1>1 DEF WorkShape, Has, WorkFields
<1> HIDE DEF work
<1>6. /\ policy.target \in Nat \ {0} /\ policy.maximum \in Nat /\ policy.maximum <= MaxInt32
      /\ policy.window \in 0..(Horizon - 1)
  BY <1>2, MaxInt32IsNatural, SMTT(30) DEF ValidPolicy
<1>7. signal \in Int
  <2>1. PICK predicted \in Forecasts :
           signal = selectDecisionSignal(policy.mode, current,
                        capPrediction(predicted, current), policy.target)
    BY <1>3
  <2>0. predicted \in Int
    BY CountsAssumption
  <2>2. (13 * current) \div 10 \in Int
    BY <1>2
  <2>3. capPrediction(predicted, current) \in Int
    BY <2>0, <2>2 DEF capPrediction, Smaller
  <2>4. selectDecisionSignal(policy.mode, current, capPrediction(predicted, current), policy.target)
           \in Int
    <3> DEFINE capped == capPrediction(predicted, current)
    <3>1. capped \in Int
      BY <2>3
    <3> HIDE DEF capped, policy, current
    <3>2. selectDecisionSignal(policy.mode, current, capped, policy.target) \in Int
      BY <1>2, <1>6, <3>1 DEF selectDecisionSignal, Larger, Smaller
    <3>3. QED
      BY <3>2 DEF capped
  <2>5. QED
    BY <2>1, <2>4
<1> HIDE DEF policy, requested, s
<1>8. minimum \in 1..policy.maximum /\ desired \in minimum..policy.maximum
  BY <1>1, <1>2, <1>3, <1>7, RecommendationBounded
<1>9. desired \in 0..MaxInt32
  BY <1>6, <1>8, MaxInt32IsNatural
<1> HIDE DEF minimum
<1>10. /\ Kept(kept, s) /\ kept.exists /\ kept.window = policy.window
       /\ desired <= PeakOf(kept.entries)
       /\ policy.window > 0 /\ s <= policy.window => requested <= Highest(kept) /\ coldStart(kept)
  <2> DEFINE h == hist[p]
             identity == Identity(own)
             window == policy.window
  <2>1. kept = Remember(h, identity, window, Now, desired, requested)
    BY <1>3
  <2>2. /\ s \in 0..Horizon /\ Kept(h, s) /\ requested \in Nat
        /\ Guards(h, s) => requested <= Highest(h)
        /\ window \in 0..(Horizon - 1) /\ desired \in 0..MaxInt32
    BY <1>1, <1>2, <1>6, <1>9
  <2> HIDE DEF h, identity, window
  <2>3. /\ Kept(kept, s) /\ kept.exists /\ kept.window = window
        /\ desired <= PeakOf(kept.entries)
        /\ window > 0 /\ s <= window => requested <= Highest(kept) /\ coldStart(kept)
    BY <2>1, <2>2, RememberVouches
  <2>4. QED
    BY <2>3 DEF window
<1>11. /\ final \in Nat
       /\ kept.window > 0 => final <= Highest(kept)
       /\ kept.window > 0 /\ requested <= Highest(kept) /\ coldStart(kept) =>
             final >= requested \/ final = policy.maximum
  <2>1. final = finalDesired(kept, desired, requested, <<minimum, policy.maximum>>)
    BY <1>3
  <2>2. /\ s \in 0..Horizon /\ requested \in Nat /\ policy.maximum \in Nat
        /\ Kept(kept, s) /\ kept.exists /\ desired <= PeakOf(kept.entries)
    BY <1>1, <1>2, <1>6, <1>10 DEF requested
  <2> HIDE DEF current, own
  <2>3. QED
    BY <1>8, <2>1, <2>2, FinalVouched
<1>12. Vouched(work, kept, s)
  BY <1>5, <1>10, <1>11 DEF Vouched, policy
<1>13. Guarded(next, work, kept, s, requested)
  BY <1>2, <1>5, <1>10, <1>12 DEF Guarded, Guards, policy
<1>14. QED
  BY <1>1, <1>3, <1>4, <1>13, OwnStep DEF Continue, s, requested

(***************************************************************************)
(* Step 5, with the errors that end the cycle there.                       *)
(***************************************************************************)
LEMMA DecideGuarded ==
    ASSUME FInv, RInv, NEW p \in Procs, Decide(p)
    PROVE  Guardians'
<1>1. Guardians /\ UNCHANGED <<deployment, steady>> /\ pc[p] = "decide"
  BY DEF RInv, Decide, api
<1>2. CASE Recommend(p)
  BY <1>1, <1>2, RecommendGuarded
<1>3. CASE (Rest(p) \/ Unavailable(p, loc[p])) /\ UNCHANGED hist
  BY <1>1, <1>3, Ends
<1>4. QED
  BY <1>2, <1>3 DEF Decide, Requeue

(***************************************************************************)
(* The Update, whether its answer arrives or not.  To the other processes  *)
(* it is someone else scaling.                                             *)
(***************************************************************************)
LEMMA CommitGuarded ==
    ASSUME FInv, RInv, NEW p \in Procs, pc[p] = "write", CommitScale(p), UNCHANGED hist,
           NEW next, next \notin Observing \cup Settled, NEW after,
           pc' = [pc EXCEPT ![p] = next], loc' = ScaleWritten([loc EXCEPT ![p] = after])
    PROVE  Guardians'
<1>1. /\ Has(pc, Procs) /\ Has(loc, Procs) /\ Has(hist, Procs) /\ Has(steady, Procs)
      /\ Has(deployment, DeploymentFields)
      /\ \A q \in Procs : /\ WorkShape(loc[q])
                          /\ Guarded(pc[q], loc[q], hist[q], steady[q], deployment.requested)
  BY DEF FInv, Shapes, Sound, RInv, Guardians
<1>2. /\ deployment'.requested = loc[p].final
      /\ steady' = [q \in Procs |-> IF q = p THEN steady[q] ELSE Horizon]
  BY <1>1 DEF CommitScale, Has, DeploymentFields
<1>3. ASSUME NEW q \in Procs
      PROVE  Guarded(pc'[q], loc'[q], hist'[q], steady'[q], deployment'.requested)
  <2>1. CASE q = p
    <3>1. pc'[q] = next /\ steady'[q] = steady[p] /\ hist'[q] = hist[p]
      BY <1>1, <1>2, <2>1 DEF Has
    <3>2. Guarded(next, loc'[q], hist[p], steady[p], loc[p].final)
      BY <1>1, CountWritten
    <3>3. QED
      BY <1>2, <3>1, <3>2
  <2>2. CASE q # p
    <3>1. /\ pc'[q] = pc[q] /\ steady'[q] = Horizon /\ hist'[q] = hist[q]
          /\ loc'[q] = [loc[q] EXCEPT !.scaleFresh = FALSE]
      BY <1>1, <1>2, <2>2 DEF ScaleWritten, Has
    <3>2. /\ loc'[q].phpa = loc[q].phpa /\ loc'[q].obs = loc[q].obs
          /\ loc'[q].final = loc[q].final /\ loc'[q].requested = loc[q].requested
      BY <1>1, <3>1 DEF WorkShape, Has, WorkFields
    <3>3. Guarded(pc[q], loc'[q], hist[q], steady[q], deployment.requested)
      BY <1>1, <3>2, SameCount
    <3>4. Guarded(pc[q], loc'[q], hist[q], Horizon, deployment'.requested)
      BY <3>3, OthersScaled
    <3>5. QED
      BY <3>1, <3>4
  <2>3. QED
    BY <2>1, <2>2
<1>4. Has(hist', Procs) /\ Has(steady', Procs)
  BY <1>1, <1>2 DEF Has
<1>5. QED
  BY <1>3, <1>4 DEF Guardians

(***************************************************************************)
(* The two outcomes of the Update and the one whose answer is lost.        *)
(***************************************************************************)
LEMMA UpdateGuarded ==
    ASSUME FInv, RInv, NEW p \in Procs, Update(p) \/ LoseAnswer(p)
    PROVE  Guardians'
<1>1. pc[p] = "write" /\ UNCHANGED hist /\ Guardians /\ Has(loc, Procs)
  BY DEF Update, LoseAnswer, RInv, FInv, Shapes
<1>2. "verify" \notin Observing \cup Settled /\ "idle" \notin Observing \cup Settled
  BY DEF Observing, Settled
<1>3. CASE /\ CommitScale(p) /\ pc' = [pc EXCEPT ![p] = "verify"]
           /\ loc' = ScaleWritten([loc EXCEPT ![p].scaled = TRUE, ![p].obs = NoObservation])
  <2> DEFINE after == [loc[p] EXCEPT !.scaled = TRUE, !.obs = NoObservation]
  <2>1. [loc EXCEPT ![p].scaled = TRUE, ![p].obs = NoObservation] = [loc EXCEPT ![p] = after]
    BY <1>1 DEF Has
  <2> HIDE DEF after
  <2>2. QED
    BY <1>1, <1>2, <1>3, <2>1, CommitGuarded
<1>4. CASE Requeue(p) /\ UNCHANGED <<deployment, steady>>
  BY <1>1, <1>4, Ends DEF Requeue
<1>5. CASE LoseAnswer(p)
  BY <1>1, <1>2, <1>5, CommitGuarded DEF LoseAnswer
<1>6. QED
  BY <1>3, <1>4, <1>5 DEF Update

(***************************************************************************)
(* The Deployment changes at other hands: its request stays, it requests   *)
(* nothing any more, or the clocks say that others have scaled.            *)
(***************************************************************************)
LEMMA OtherWritesGuarded ==
    ASSUME FInv, RInv,
           \/ ObserveReplicas \/ BeginDeleteDeployment \/ DeleteDeployment
           \/ \E replicas \in Counts : CreateDeployment(replicas) \/ ScaleByOther(replicas)
    PROVE  Guardians'
<1>1. /\ Has(loc, Procs) /\ Has(hist, Procs) /\ Has(steady, Procs)
      /\ Has(deployment, DeploymentFields)
      /\ \A q \in Procs : /\ WorkShape(loc[q])
                          /\ Guarded(pc[q], loc[q], hist[q], steady[q], deployment.requested)
  BY DEF FInv, Shapes, Sound, RInv, Guardians
<1>2. UNCHANGED <<pc, hist>> /\ loc' = ScaleWritten(loc)
  BY DEF ObserveReplicas, BeginDeleteDeployment, DeleteDeployment, CreateDeployment,
         ScaleByOther, DeploymentChanges
<1>3. \/ steady' = steady /\ deployment'.requested = deployment.requested
      \/ steady' = steady /\ deployment'.requested = 0
      \/ steady' = [q \in Procs |-> Horizon]
  <2>1. CASE ObserveReplicas \/ BeginDeleteDeployment
    BY <1>1, <2>1 DEF ObserveReplicas, BeginDeleteDeployment, Has, DeploymentFields
  <2>2. CASE DeleteDeployment
    BY <2>2 DEF DeleteDeployment, AbsentDeployment
  <2>3. ASSUME NEW replicas \in Counts, CreateDeployment(replicas) \/ ScaleByOther(replicas)
        PROVE  steady' = [q \in Procs |-> Horizon]
    BY <2>3 DEF CreateDeployment, ScaleByOther
  <2>4. QED
    BY <2>1, <2>2, <2>3
<1>4. ASSUME NEW q \in Procs
      PROVE  Guarded(pc'[q], loc'[q], hist'[q], steady'[q], deployment'.requested)
  <2>1. loc'[q] = [loc[q] EXCEPT !.scaleFresh = FALSE]
    BY <1>2 DEF ScaleWritten
  <2>2. /\ loc'[q].phpa = loc[q].phpa /\ loc'[q].obs = loc[q].obs
        /\ loc'[q].final = loc[q].final /\ loc'[q].requested = loc[q].requested
    BY <1>1, <2>1 DEF WorkShape, Has, WorkFields
  <2>3. Guarded(pc[q], loc'[q], hist[q], steady[q], deployment.requested)
    BY <1>1, <2>2, SameCount
  <2>4. CASE steady' = steady /\ deployment'.requested = deployment.requested
    BY <1>2, <2>3, <2>4
  <2>5. CASE steady' = steady /\ deployment'.requested = 0
    BY <1>2, <2>3, <2>5, NothingRequested
  <2>6. CASE steady' = [x \in Procs |-> Horizon]
    <3>1. Guarded(pc[q], loc'[q], hist[q], Horizon, deployment'.requested)
      BY <2>3, OthersScaled
    <3>2. QED
      BY <1>2, <2>6, <3>1
  <2>7. QED
    BY <1>3, <2>4, <2>5, <2>6
<1>5. Has(hist', Procs) /\ Has(steady', Procs)
  BY <1>1, <1>2, <1>3 DEF Has
<1>6. QED
  BY <1>4, <1>5 DEF Guardians

(***************************************************************************)
(* The PredictiveHPA changes: what a cycle works with is its own copy.     *)
(***************************************************************************)
LEMMA PHPAWritesGuarded ==
    ASSUME FInv, RInv,
           \/ \E p \in Procs : PatchStatus(p)
           \/ UserWrites
    PROVE  Guardians'
<1>1. /\ Guardians /\ Has(pc, Procs) /\ Has(loc, Procs)
      /\ \A q \in Procs : /\ WorkShape(loc[q])
                          /\ Guarded(pc[q], loc[q], hist[q], steady[q], deployment.requested)
  BY DEF FInv, Shapes, Sound, RInv, Guardians
<1>2. UNCHANGED <<deployment, hist, steady>>
  BY DEF PatchStatus, UserWrites, EditPolicy, CreatePHPA, BeginDeletePHPA, DeletePHPA, PHPAChanges
<1>3. ASSUME NEW p \in Procs, PatchStatus(p) PROVE Guardians'
  <2>1. CASE ~Publishes(p)
    <3>1. Rest(p)
      BY <1>3, <2>1 DEF PatchStatus, Rest
    <3>2. QED
      BY <1>1, <1>2, <3>1, Ends
  <2>2. CASE Publishes(p)
    <3>1. pc' = [pc EXCEPT ![p] = "idle"] /\ loc' = PHPAWritten([loc EXCEPT ![p] = NoWork])
      BY <1>3, <2>2 DEF PatchStatus
    <3>2. ASSUME NEW q \in Procs
          PROVE  Guarded(pc'[q], loc'[q], hist'[q], steady'[q], deployment'.requested)
      <4>1. CASE q = p
        <5>1. pc'[q] = "idle" /\ "idle" \notin Observing \cup Settled
          BY <1>1, <3>1, <4>1 DEF Has, Observing, Settled
        <5>2. Guarded("idle", loc'[q], hist[q], steady[q], deployment.requested)
          BY <1>1, <5>1, Quiet
        <5>3. QED
          BY <1>2, <5>1, <5>2
      <4>2. CASE q # p
        <5>1. pc'[q] = pc[q] /\ loc'[q] = [loc[q] EXCEPT !.phpaFresh = FALSE]
          BY <1>1, <3>1, <4>2 DEF Has, PHPAWritten
        <5>2. /\ loc'[q].phpa = loc[q].phpa /\ loc'[q].obs = loc[q].obs
              /\ loc'[q].final = loc[q].final /\ loc'[q].requested = loc[q].requested
          BY <1>1, <5>1 DEF WorkShape, Has, WorkFields
        <5>3. Guarded(pc[q], loc'[q], hist[q], steady[q], deployment.requested)
          BY <1>1, <5>2, SameCount
        <5>4. QED
          BY <1>2, <5>1, <5>3
      <4>3. QED
        BY <4>1, <4>2
    <3>3. QED
      BY <1>1, <1>2, <3>2 DEF Guardians
  <2>3. QED
    BY <2>1, <2>2
<1>4. CASE UserWrites
  <2>1. pc' = pc /\ loc' = PHPAWritten(loc)
    BY <1>4 DEF UserWrites, EditPolicy, CreatePHPA, BeginDeletePHPA, DeletePHPA, PHPAChanges
  <2>2. ASSUME NEW q \in Procs
        PROVE  Guarded(pc'[q], loc'[q], hist'[q], steady'[q], deployment'.requested)
    <3>1. loc'[q] = [loc[q] EXCEPT !.phpaFresh = FALSE]
      BY <2>1 DEF PHPAWritten
    <3>2. /\ loc'[q].phpa = loc[q].phpa /\ loc'[q].obs = loc[q].obs
          /\ loc'[q].final = loc[q].final /\ loc'[q].requested = loc[q].requested
      BY <1>1, <3>1 DEF WorkShape, Has, WorkFields
    <3>3. Guarded(pc[q], loc'[q], hist[q], steady[q], deployment.requested)
      BY <1>1, <3>2, SameCount
    <3>4. QED
      BY <1>2, <2>1, <3>3
  <2>3. QED
    BY <1>1, <1>2, <2>2 DEF Guardians
<1>5. QED
  BY <1>3, <1>4

(***************************************************************************)
(* Time passes, for the histories and for the clocks alike.                *)
(***************************************************************************)
LEMMA PassGuarded == ASSUME FInv, RInv, Pass PROVE Guardians'
<1>1. /\ \A q \in Procs : /\ WorkShape(loc[q])
                          /\ Guarded(pc[q], loc[q], hist[q], steady[q], deployment.requested)
      /\ pc' = pc /\ deployment' = deployment
      /\ hist' = [q \in Procs |-> OlderHistory(hist[q])]
      /\ loc' = [q \in Procs |-> [loc[q] EXCEPT !.obs.at = Older(@)]]
      /\ steady' = [q \in Procs |-> Smaller(steady[q] + 1, Horizon)]
  BY DEF FInv, Sound, RInv, Guardians, Pass, api
<1>2. ASSUME NEW q \in Procs
      PROVE  Guarded(pc'[q], loc'[q], hist'[q], steady'[q], deployment'.requested)
  <2>1. loc'[q] = [loc[q] EXCEPT !.obs.at = Older(@)]
    BY <1>1
  <2>2. /\ loc'[q].phpa = loc[q].phpa /\ loc'[q].obs.value = loc[q].obs.value
        /\ loc'[q].final = loc[q].final /\ loc'[q].requested = loc[q].requested
    BY <1>1, <2>1, ZenonT(60) DEF WorkShape, Has, WorkFields, ObsFields
  <2>3. Guarded(pc[q], loc'[q], hist[q], steady[q], deployment.requested)
    BY <1>1, <2>2, SameCount
  <2>4. Guarded(pc[q], loc'[q], OlderHistory(hist[q]), Smaller(steady[q] + 1, Horizon),
                deployment.requested)
    BY <2>3, Aged
  <2>5. QED
    BY <1>1, <2>4
<1>3. Has(hist', Procs) /\ Has(steady', Procs)
  BY <1>1 DEF Has
<1>4. QED
  BY <1>2, <1>3 DEF Guardians

(***************************************************************************)
(* A process that starts has neither a history nor a cycle in progress.    *)
(***************************************************************************)
LEMMA RestartGuarded == ASSUME FInv, RInv, NEW p \in Procs, Restart(p) PROVE Guardians'
<1>1. /\ Has(pc, Procs) /\ Has(loc, Procs) /\ Has(hist, Procs) /\ Has(steady, Procs)
      /\ \A q \in Procs : Guarded(pc[q], loc[q], hist[q], steady[q], deployment.requested)
  BY DEF FInv, Shapes, RInv, Guardians
<1>2. /\ pc' = [pc EXCEPT ![p] = "idle"] /\ loc' = [loc EXCEPT ![p] = NoWork]
      /\ hist' = [hist EXCEPT ![p] = NoHistory] /\ steady' = [steady EXCEPT ![p] = 0]
      /\ deployment' = deployment
  BY DEF Restart, api
<1>3. ASSUME NEW q \in Procs
      PROVE  Guarded(pc'[q], loc'[q], hist'[q], steady'[q], deployment'.requested)
  <2>1. CASE q = p
    <3>1. pc'[q] = "idle" /\ hist'[q] = NoHistory /\ steady'[q] = 0
      BY <1>1, <1>2, <2>1 DEF Has
    <3>2. "idle" \notin Observing \cup Settled /\ 0 \in 0..Horizon
      BY HorizonFacts DEF Observing, Settled
    <3>3. QED
      BY <3>1, <3>2, Dropped
  <2>2. CASE q # p
    <3>1. pc'[q] = pc[q] /\ loc'[q] = loc[q] /\ hist'[q] = hist[q] /\ steady'[q] = steady[q]
      BY <1>1, <1>2, <2>2 DEF Has
    <3>2. QED
      BY <1>1, <1>2, <3>1
  <2>3. QED
    BY <2>1, <2>2
<1>4. Has(hist', Procs) /\ Has(steady', Procs)
  BY <1>1, <1>2 DEF Has
<1>5. QED
  BY <1>3, <1>4 DEF Guardians

(***************************************************************************)
(* The objects keep their types, and no policy appears that nobody wrote.  *)
(***************************************************************************)
LEMMA DeploymentTyped ==
    ASSUME FInv, RInv, Next
    PROVE  deployment'.requested \in Nat /\ deployment'.observed \in Nat
<1>1. /\ deployment.requested \in Nat /\ deployment.observed \in Nat
      /\ Has(deployment, DeploymentFields)
  BY DEF RInv, Objects, FInv, Shapes
<1>2. ASSUME NEW replicas \in Nat, deployment' = [deployment EXCEPT !.requested = replicas]
      PROVE  deployment'.requested \in Nat /\ deployment'.observed \in Nat
  BY <1>1, <1>2 DEF Has, DeploymentFields
<1>3. ASSUME NEW p \in Procs, Update(p) \/ LoseAnswer(p)
      PROVE  deployment'.requested \in Nat /\ deployment'.observed \in Nat
  <2>1. Guarded("write", loc[p], hist[p], steady[p], deployment.requested)
    BY <1>3 DEF Update, LoseAnswer, RInv, Guardians
  <2>2. loc[p].final \in Nat
    BY <2>1 DEF Guarded, Vouched, Settled
  <2>3. QED
    BY <1>1, <1>2, <1>3, <2>2 DEF Update, LoseAnswer, CommitScale
<1>4. ASSUME NEW p \in Procs, Reconciling(p), ~Update(p) PROVE deployment' = deployment
  BY <1>4 DEF Reconciling, DropDeleted, IgnoreDeleting, Begin, Dequeue, Query, Decide,
       RecheckPolicy, RecheckScale, VerifyTarget, ReadForStatus, PatchStatus, api
<1>5. CASE ObserveReplicas
  <2>1. /\ deployment.observed # deployment.requested
        /\ deployment'.requested = deployment.requested
        /\ deployment'.observed = IF deployment.observed < deployment.requested
                                  THEN deployment.observed + 1 ELSE deployment.observed - 1
    BY <1>1, <1>5 DEF ObserveReplicas, Has, DeploymentFields
  <2>2. QED
    BY <1>1, <2>1
<1>6. CASE BeginDeleteDeployment \/ DeleteDeployment
  BY <1>1, <1>6 DEF BeginDeleteDeployment, DeleteDeployment, AbsentDeployment, Has, DeploymentFields
<1>7. ASSUME NEW replicas \in Counts, CreateDeployment(replicas) \/ ScaleByOther(replicas)
      PROVE  deployment'.requested \in Nat /\ deployment'.observed \in Nat
  <2>1. replicas \in Nat
    BY CountsAssumption
  <2>2. QED
    BY <1>2, <1>7, <2>1 DEF CreateDeployment, ScaleByOther, NewDeployment
<1>8. CASE UserWrites
  BY <1>1, <1>8 DEF UserWrites, EditPolicy, CreatePHPA, BeginDeletePHPA, DeletePHPA, PHPAChanges
<1>9. ASSUME NEW p \in Procs, \/ SyncPHPA(p) \/ SyncDeployment(p) \/ Restart(p) \/ CallFails(p)
                              \/ RelistPHPA(p)
      PROVE  deployment' = deployment
  BY <1>9 DEF SyncPHPA, SyncDeployment, Restart, CallFails, RelistPHPA, Deliver, api
<1>10. ASSUME Tick \/ Linger \/ \E value \in Cpus : ChangeCpu(value)
       PROVE  deployment' = deployment
  BY <1>10 DEF Tick, Linger, Pass, ChangeCpu, api
<1>11. QED
  BY <1>1, <1>3, <1>4, <1>5, <1>6, <1>7, <1>8, <1>9, <1>10
     DEF Next, Background, Disturbance, UserWrites

(***************************************************************************)
(* The utilisation and the policies come from the instance.                *)
(***************************************************************************)
LEMMA PoliciesKnown ==
    ASSUME FInv, RInv, Next
    PROVE  cpu' \in Nat /\ phpa'.policy \in Known
<1>1. Has(phpa, PHPAFields) /\ phpa.policy \in Known /\ cpu \in Nat
  BY DEF RInv, Objects, FInv, Shapes
<1>2. phpa'.policy \in Known
  <2>1. CASE UNCHANGED phpa
    BY <1>1, <2>1
  <2>2. ASSUME NEW p \in Procs, phpa' = [phpa EXCEPT !.status = Status(loc[p])]
        PROVE  phpa'.policy \in Known
    BY <1>1, <2>2 DEF Has, PHPAFields
  <2>3. CASE UserWrites
    <3>1. ASSUME NEW policy \in Policies, EditPolicy(policy) PROVE phpa'.policy \in Known
      <4>1. phpa' = [phpa EXCEPT !.policy = policy, !.gen = @ + 1]
        BY <3>1 DEF EditPolicy
      <4>2. phpa'.policy = policy
        BY <1>1, <4>1 DEF Has, PHPAFields
      <4>3. QED
        BY <4>2 DEF Known
    <3>2. ASSUME NEW policy \in Policies, CreatePHPA(policy) PROVE phpa'.policy \in Known
      BY <3>2 DEF CreatePHPA, NewPHPA, Known
    <3>3. CASE BeginDeletePHPA
      <4>1. phpa' = [phpa EXCEPT !.deleting = TRUE, !.gen = @ + 1]
        BY <3>3 DEF BeginDeletePHPA
      <4>2. phpa'.policy = phpa.policy
        BY <1>1, <4>1 DEF Has, PHPAFields
      <4>3. QED
        BY <1>1, <4>2
    <3>4. CASE DeletePHPA
      BY <3>4 DEF DeletePHPA, AbsentPHPA, Known
    <3>5. QED
      BY <2>3, <3>1, <3>2, <3>3, <3>4 DEF UserWrites
  <2>4. QED
    BY <1>1, <2>1, <2>2, <2>3, WritersOfPHPA
<1>3. cpu' \in Nat
  <2>1. ASSUME NEW p \in Procs, Reconciling(p) PROVE cpu' = cpu
    BY <2>1 DEF Reconciling, DropDeleted, IgnoreDeleting, Begin, Dequeue, Query, Decide,
         RecheckPolicy, RecheckScale, Update, VerifyTarget, ReadForStatus, PatchStatus, api
  <2>2. CASE Background
    <3>1. CASE ObserveReplicas
      BY <1>1, <3>1 DEF ObserveReplicas
    <3>2. ASSUME NEW p \in Procs, SyncPHPA(p) \/ SyncDeployment(p) PROVE cpu' = cpu
      BY <3>2 DEF SyncPHPA, SyncDeployment, Deliver, api
    <3>3. QED
      BY <1>1, <2>2, <3>1, <3>2 DEF Background
  <2>3. CASE Tick \/ Linger
    BY <1>1, <2>3 DEF Tick, Linger, Pass, api
  <2>4. CASE UserWrites
    <3>1. cpu' = cpu
      BY <2>4 DEF UserWrites, EditPolicy, CreatePHPA, BeginDeletePHPA, DeletePHPA, PHPAChanges
    <3>2. QED
      BY <1>1, <3>1
  <2>5. CASE BeginDeleteDeployment \/ DeleteDeployment
    BY <1>1, <2>5 DEF BeginDeleteDeployment, DeleteDeployment, DeploymentChanges
  <2>6. ASSUME NEW replicas \in Counts, CreateDeployment(replicas) \/ ScaleByOther(replicas)
        PROVE  cpu' = cpu
    BY <2>6 DEF CreateDeployment, ScaleByOther, DeploymentChanges
  <2>7. ASSUME NEW p \in Procs, Restart(p) \/ CallFails(p) \/ LoseAnswer(p) \/ RelistPHPA(p)
        PROVE  cpu' = cpu
    BY <2>7 DEF Restart, CallFails, LoseAnswer, RelistPHPA, Deliver, api
  <2>8. ASSUME NEW value \in Cpus, ChangeCpu(value) PROVE cpu' \in Nat
    BY <2>8, CountsAssumption DEF ChangeCpu
  <2>9. QED
    BY <1>1, <2>1, <2>2, <2>3, <2>4, <2>5, <2>6, <2>7, <2>8 DEF Next, Disturbance, UserWrites
<1>4. QED
  BY <1>2, <1>3

CachesKnown ==
    /\ Has(cache, Procs)
    /\ \A p \in Procs : Has(cache[p], CacheFields) /\ cache[p].phpa.policy \in Known

(***************************************************************************)
(* An informer holds what the API server once showed.                      *)
(***************************************************************************)
LEMMA CachesStayKnown == ASSUME FInv, RInv, Next PROVE CachesKnown'
<1>1. /\ Has(cache, Procs)
      /\ \A p \in Procs : Has(cache[p], CacheFields) /\ cache[p].phpa.policy \in Known
      /\ SeenPHPA.policy \in Known
  BY DEF RInv, Objects, SeenPHPA
<1>2. ASSUME UNCHANGED cache PROVE CachesKnown'
  BY <1>1, <1>2 DEF CachesKnown
<1>3. ASSUME cache' = [q \in Procs |-> [cache[q] EXCEPT !.news = TRUE]] PROVE CachesKnown'
  <2>1. ASSUME NEW q \in Procs
        PROVE  Has(cache'[q], CacheFields) /\ cache'[q].phpa = cache[q].phpa
    <3>1. cache'[q] = [cache[q] EXCEPT !.news = TRUE] /\ Has(cache[q], CacheFields)
      BY <1>1, <1>3
    <3>2. QED
      BY <3>1 DEF Has, CacheFields
  <2>2. QED
    BY <1>1, <1>3, <2>1 DEF CachesKnown, Has
<1>4. ASSUME NEW p \in Procs, NEW entry, cache' = [cache EXCEPT ![p] = entry],
             Has(entry, CacheFields), entry.phpa.policy \in Known
      PROVE  CachesKnown'
  <2>1. ASSUME NEW q \in Procs
        PROVE  Has(cache'[q], CacheFields) /\ cache'[q].phpa.policy \in Known
    <3>1. CASE q = p
      BY <1>1, <1>4, <3>1 DEF Has
    <3>2. CASE q # p
      <4>1. cache'[q] = cache[q]
        BY <1>1, <1>4, <3>2 DEF Has
      <4>2. QED
        BY <1>1, <4>1
    <3>3. QED
      BY <3>1, <3>2
  <2>2. Has(cache', Procs)
    BY <1>1, <1>4 DEF Has
  <2>3. QED
    BY <2>1, <2>2 DEF CachesKnown
<1>5. ASSUME NEW p \in Procs, NEW new, new.policy \in Known, Deliver(p, new) PROVE CachesKnown'
  <2> DEFINE entry == [cache[p] EXCEPT !.phpa = new]
  <2>1. cache' = [cache EXCEPT ![p] = entry]
    BY <1>5 DEF Deliver
  <2>2. Has(entry, CacheFields) /\ entry.phpa = new
    BY <1>1 DEF Has, CacheFields
  <2> HIDE DEF entry
  <2>3. QED
    BY <1>4, <1>5, <2>1, <2>2
<1>6. ASSUME NEW p \in Procs, Reconciling(p) PROVE CachesKnown'
  <2>1. CASE Update(p)
    BY <1>2, <1>3, <2>1 DEF Update, CommitScale
  <2>2. CASE ~Update(p)
    <3>1. UNCHANGED cache
      BY <1>6, <2>2 DEF Reconciling, DropDeleted, IgnoreDeleting, Begin, Dequeue, Query, Decide,
           RecheckPolicy, RecheckScale, VerifyTarget, ReadForStatus, PatchStatus
    <3>2. QED
      BY <1>2, <3>1
  <2>3. QED
    BY <2>1, <2>2
<1>7. ASSUME NEW p \in Procs, SyncPHPA(p) PROVE CachesKnown'
  <2> DEFINE gone == [SeenPHPA EXCEPT !.exists = FALSE, !.uid = cache[p].phpa.uid, !.gen = 0,
                                      !.deleting = FALSE, !.policy = NoPolicy]
  <2>1. gone.policy \in Known
    BY DEF SeenPHPA, Known
  <2>2. Deliver(p, gone) \/ Deliver(p, SeenPHPA)
    BY <1>7 DEF SyncPHPA
  <2> HIDE DEF gone
  <2>3. QED
    BY <1>1, <1>5, <2>1, <2>2
<1>8. ASSUME NEW p \in Procs, SyncDeployment(p) PROVE CachesKnown'
  <2> DEFINE entry == [cache[p] EXCEPT !.deployment = SeenDeployment, !.news = FALSE]
  <2>1. cache' = [cache EXCEPT ![p] = entry]
    BY <1>1, <1>8 DEF SyncDeployment, Has
  <2>2. Has(entry, CacheFields) /\ entry.phpa = cache[p].phpa
    BY <1>1 DEF Has, CacheFields
  <2> HIDE DEF entry
  <2>3. QED
    BY <1>1, <1>4, <2>1, <2>2
<1>9. ASSUME NEW p \in Procs, Restart(p) PROVE CachesKnown'
  <2> DEFINE entry == [phpa |-> SeenPHPA, deployment |-> SeenDeployment, news |-> FALSE]
  <2>1. cache' = [cache EXCEPT ![p] = entry]
    BY <1>9 DEF Restart
  <2>2. Has(entry, CacheFields) /\ entry.phpa = SeenPHPA
    BY DEF Has, CacheFields
  <2> HIDE DEF entry
  <2>3. QED
    BY <1>1, <1>4, <2>1, <2>2
<1>10. CASE Tick \/ ObserveReplicas
  BY <1>2, <1>3, <1>10 DEF Tick, Pass, ObserveReplicas
<1>11. CASE Linger \/ UserWrites \/ \E value \in Cpus : ChangeCpu(value)
  BY <1>2, <1>11 DEF Linger, Pass, UserWrites, EditPolicy, CreatePHPA, BeginDeletePHPA,
       DeletePHPA, PHPAChanges, ChangeCpu, procVars
<1>12. CASE BeginDeleteDeployment \/ DeleteDeployment
  BY <1>3, <1>12 DEF BeginDeleteDeployment, DeleteDeployment, DeploymentChanges
<1>13. ASSUME NEW replicas \in Counts, CreateDeployment(replicas) \/ ScaleByOther(replicas)
       PROVE  CachesKnown'
  BY <1>3, <1>13 DEF CreateDeployment, ScaleByOther, DeploymentChanges
<1>14. ASSUME NEW p \in Procs, CallFails(p) \/ LoseAnswer(p) \/ RelistPHPA(p) PROVE CachesKnown'
  <2>1. CASE CallFails(p)
    BY <1>2, <2>1 DEF CallFails
  <2>2. CASE LoseAnswer(p)
    BY <1>3, <2>2 DEF LoseAnswer, CommitScale
  <2>3. CASE RelistPHPA(p)
    BY <1>1, <1>5, <2>3 DEF RelistPHPA
  <2>4. QED
    BY <1>14, <2>1, <2>2, <2>3
<1>15. CASE Disturbance
  BY <1>9, <1>11, <1>12, <1>13, <1>14, <1>15 DEF Disturbance, UserWrites
<1>16. QED
  BY <1>6, <1>7, <1>8, <1>10, <1>15 DEF Next, Background

(***************************************************************************)
(* Every step keeps the invariant.                                         *)
(***************************************************************************)
LEMMA NextGuarded == ASSUME FInv, RInv, [Next]_vars PROVE RInv'
<1>1. ASSUME Next PROVE Objects'
  BY <1>1, DeploymentTyped, PoliciesKnown, CachesStayKnown DEF Objects, CachesKnown
<1>2. ASSUME NEW p \in Procs, Reconciling(p) PROVE Guardians'
  BY <1>2, BeginGuarded, CallsGuarded, DecideGuarded, UpdateGuarded, PHPAWritesGuarded
     DEF Reconciling
<1>3. ASSUME NEW p \in Procs, SyncPHPA(p) \/ SyncDeployment(p) \/ RelistPHPA(p)
      PROVE  Guardians'
  BY <1>3, Unmoved DEF RInv, SyncPHPA, SyncDeployment, RelistPHPA, Deliver, api
<1>4. ASSUME Tick \/ Linger PROVE Guardians'
  BY <1>4, PassGuarded DEF Tick, Linger
<1>5. ASSUME NEW value \in Cpus, ChangeCpu(value) PROVE Guardians'
  BY <1>5, Unmoved DEF RInv, ChangeCpu, procVars
<1>6. ASSUME NEW p \in Procs, Restart(p) \/ CallFails(p) \/ LoseAnswer(p) PROVE Guardians'
  BY <1>6, RestartGuarded, CallsGuarded, UpdateGuarded
<1>7. ASSUME Disturbance PROVE Guardians'
  BY <1>3, <1>4, <1>5, <1>6, <1>7, OtherWritesGuarded, PHPAWritesGuarded
     DEF Disturbance, UserWrites
<1>8. ASSUME Background PROVE Guardians'
  BY <1>3, <1>8, OtherWritesGuarded DEF Background
<1>9. ASSUME Next PROVE Guardians'
  BY <1>2, <1>4, <1>7, <1>8, <1>9 DEF Next
<1>10. CASE UNCHANGED vars
  <2>1. Guardians'
    BY <1>10, Unmoved DEF RInv, vars
  <2>2. Objects'
    BY <1>10 DEF RInv, Objects, vars
  <2>3. QED
    BY <2>1, <2>2 DEF RInv
<1>11. QED
  BY <1>1, <1>9, <1>10 DEF RInv
-----------------------------------------------------------------------------
(***************************************************************************)
(* Every history vouches for the live request as long as nobody else has   *)
(* scaled and no window has passed since its process started.              *)
(***************************************************************************)
THEOREM GuardInvariant == Spec => []RInv
<1>1. Init => RInv
  BY InitGuarded
<1>2. FInv /\ RInv /\ [Next]_vars => RInv'
  BY NextGuarded
<1>3. QED
  BY <1>1, <1>2, FreshnessInvariant, PTL DEF Spec

(***************************************************************************)
(* A restart does not cost capacity (stabilizeRecommendation's cold start):*)
(* until a whole window has passed since the process started, it does not  *)
(* lower a request that nobody else has changed, except to maxReplicas.    *)
(***************************************************************************)
THEOREM NoReductionTheorem == Spec => NoReductionSoonAfterRestart
<1>1. ASSUME FInv, RInv, NEW p \in Procs, Writes(p),
             loc[p].phpa.policy.window > 0, steady[p] <= loc[p].phpa.policy.window
      PROVE  \/ deployment'.requested >= deployment.requested
             \/ deployment'.requested = loc[p].phpa.policy.maximum
  <2>1. /\ pc[p] = "write" /\ loc[p].scaleFresh
        /\ deployment' = [deployment EXCEPT !.requested = loc[p].final]
        /\ Has(deployment, DeploymentFields)
    BY <1>1 DEF Writes, SameScale, FInv, Shapes
  <2>2. deployment'.requested = loc[p].final
    BY <2>1 DEF Has, DeploymentFields
  <2>3. deployment.requested = loc[p].requested
    BY <1>1, <2>1 DEF FInv, Sound
  <2>4. Guarded(pc[p], loc[p], hist[p], steady[p], deployment.requested)
    BY <1>1 DEF RInv, Guardians
  <2>5. loc[p].final >= loc[p].requested \/ loc[p].final = loc[p].phpa.policy.maximum
    BY <1>1, <2>1, <2>4 DEF Guarded, Vouched, Settled
  <2>6. QED
    BY <2>2, <2>3, <2>5
<1>2. FInv /\ RInv /\ [Next]_vars =>
         [\A p \in Procs :
            LET policy == loc[p].phpa.policy
            IN  Writes(p) /\ policy.window > 0 /\ steady[p] <= policy.window =>
                    \/ deployment'.requested >= deployment.requested
                    \/ deployment'.requested = policy.maximum]_vars
  BY <1>1
<1>3. QED
  BY <1>2, FreshnessInvariant, GuardInvariant, PTL DEF Spec, NoReductionSoonAfterRestart
-----------------------------------------------------------------------------
(* Type correctness, with the steps of a cycle that TypeOK names.          *)

Steps == {"idle", "query", "decide", "policy", "scale", "write", "verify", "publish", "patch"}

\* What a cycle at step at has to report, and whether it has scaled.
Stage(at, work) ==
    /\ at \in Steps
    /\ work.report = "None" <=> at \in {"idle", "query", "decide"}
    /\ work.scaled => at \in {"verify", "publish", "patch"}

Stages == \A p \in Procs : Stage(pc[p], loc[p])

(***************************************************************************)
(* One process moves, the others keep their reports.                       *)
(***************************************************************************)
LEMMA StageMoves ==
    ASSUME FInv, Stages, NEW p \in Procs, NEW next, pc' = [pc EXCEPT ![p] = next],
           \A q \in Procs \ {p} : /\ loc'[q].report = loc[q].report
                                  /\ loc'[q].scaled = loc[q].scaled,
           Stage(next, loc'[p])
    PROVE  Stages'
<1>1. ASSUME NEW q \in Procs PROVE Stage(pc'[q], loc'[q])
  <2>1. CASE q = p
    BY <2>1 DEF FInv, Shapes, Has
  <2>2. CASE q # p
    <3>1. pc'[q] = pc[q] /\ Stage(pc[q], loc[q])
      BY <2>2 DEF FInv, Shapes, Has, Stages
    <3>2. QED
      BY <2>2, <3>1 DEF Stage
  <2>3. QED
    BY <2>1, <2>2
<1>2. QED
  BY <1>1 DEF Stages

(***************************************************************************)
(* It goes on with work of its own.                                        *)
(***************************************************************************)
LEMMA StageContinues ==
    ASSUME FInv, Stages, NEW p \in Procs, NEW next, NEW work, Continue(p, next, work),
           Stage(next, work)
    PROVE  Stages'
<1>1. /\ loc'[p] = work /\ pc' = [pc EXCEPT ![p] = next]
      /\ \A q \in Procs \ {p} : loc'[q] = loc[q]
  BY DEF Continue, FInv, Shapes, Has
<1>2. QED
  BY <1>1, StageMoves

(***************************************************************************)
(* It ends its cycle, or has only its report left.                         *)
(***************************************************************************)
LEMMA StageEnds ==
    ASSUME FInv, Stages, NEW p \in Procs, NEW work, Rest(p) \/ Unavailable(p, work)
    PROVE  Stages'
<1>1. CASE Rest(p)
  <2>1. Continue(p, "idle", NoWork) /\ Stage("idle", NoWork)
    BY <1>1 DEF Rest, Continue, Stage, Steps, NoWork
  <2>2. QED
    BY <2>1, StageContinues
<1>2. CASE Unavailable(p, work)
  <2> DEFINE after == [NoWork EXCEPT !.phpa = work.phpa, !.evaluated = work.evaluated,
                                     !.report = "Unavailable"]
  <2>1. Stage("publish", after)
    BY DEF Stage, Steps, NoWork
  <2>2. Continue(p, "publish", after)
    BY <1>2 DEF Unavailable
  <2> HIDE DEF after
  <2>3. QED
    BY <2>1, <2>2, StageContinues
<1>3. QED
  BY <1>1, <1>2

(***************************************************************************)
(* No process moves, and the reports stay.                                 *)
(***************************************************************************)
LEMMA StageStays ==
    ASSUME Stages, pc' = pc,
           \A q \in Procs : loc'[q].report = loc[q].report /\ loc'[q].scaled = loc[q].scaled
    PROVE  Stages'
  BY DEF Stages, Stage

(***************************************************************************)
(* Reconcile's own calls, the writes excepted, report what their step      *)
(* calls for.                                                              *)
(***************************************************************************)
LEMMA StageCalls ==
    ASSUME FInv, Stages, NEW p \in Procs,
           \/ DropDeleted(p) \/ IgnoreDeleting(p) \/ Begin(p) \/ Query(p) \/ Decide(p)
           \/ RecheckPolicy(p) \/ RecheckScale(p) \/ VerifyTarget(p) \/ ReadForStatus(p)
           \/ CallFails(p)
    PROVE  Stages'
<1> DEFINE own == loc[p]
<1>1. Stage(pc[p], own) /\ WorkShape(own)
  BY DEF Stages, FInv, Sound
<1>2. CASE DropDeleted(p) \/ IgnoreDeleting(p)
  BY <1>2, StageStays DEF DropDeleted, IgnoreDeleting
<1>3. CASE Begin(p)
  <2> DEFINE seen == cache[p].phpa
             work == [NoWork EXCEPT !.phpa = [uid |-> seen.uid, gen |-> seen.gen,
                                              policy |-> seen.policy],
                                    !.target = cache[p].deployment.uid]
  <2>1. Continue(p, "query", work) \/ Unavailable(p, work)
    BY <1>3 DEF Begin
  <2>2. Stage("query", work)
    BY DEF Stage, Steps, NoWork
  <2> HIDE DEF work
  <2>3. QED
    BY <2>1, <2>2, StageContinues, StageEnds
<1>4. CASE Query(p)
  <2>1. CASE Unavailable(p, own)
    BY <2>1, StageEnds
  <2>2. ASSUME NEW age \in 0..MaxSampleAge, Continue(p, "decide", [own EXCEPT
                   !.obs = [value |-> cpu, at |-> Horizon - age, of |-> deployment.uid]])
        PROVE  Stages'
    <3> DEFINE work == [own EXCEPT !.obs = [value |-> cpu, at |-> Horizon - age,
                                            of |-> deployment.uid]]
    <3>1. work.report = own.report /\ work.scaled = own.scaled /\ pc[p] = "query"
      BY <1>1, <1>4 DEF WorkShape, Has, WorkFields, Query
    <3>2. Continue(p, "decide", work)
      BY <2>2
    <3> HIDE DEF work
    <3>3. Stage("decide", work)
      BY <1>1, <3>1 DEF Stage, Steps
    <3>4. QED
      BY <3>2, <3>3, StageContinues
  <2>3. QED
    BY <1>4, <2>1, <2>2 DEF Query
<1>5. CASE Decide(p)
  <2>1. CASE Rest(p) \/ Unavailable(p, own)
    BY <2>1, StageEnds
  <2>2. CASE Recommend(p)
    <3>1. PICK final :
             \E next \in {"policy", "verify"} :
               Continue(p, next, [own EXCEPT !.requested = deployment.requested,
                                             !.scaleFresh = TRUE, !.final = final,
                                             !.evaluated = TRUE, !.report = "Decided"])
      BY <2>2 DEF Recommend
    <3> DEFINE work == [own EXCEPT !.requested = deployment.requested,
                                   !.scaleFresh = TRUE, !.final = final,
                                   !.evaluated = TRUE, !.report = "Decided"]
    <3>2. PICK next \in {"policy", "verify"} : Continue(p, next, work)
      BY <3>1
    <3>3. work.report = "Decided" /\ work.scaled = own.scaled /\ pc[p] = "decide"
      BY <1>1, <1>5 DEF WorkShape, Has, WorkFields, Decide
    <3> HIDE DEF work
    <3>4. Stage(next, work)
      BY <1>1, <3>3 DEF Stage, Steps
    <3>5. QED
      BY <3>2, <3>4, StageContinues
  <2>3. QED
    BY <1>5, <2>1, <2>2 DEF Decide, Requeue
<1>6. CASE RecheckPolicy(p) \/ RecheckScale(p)
  <2>1. CASE Rest(p) \/ Unavailable(p, own)
    BY <2>1, StageEnds
  <2>2. ASSUME NEW next \in {"scale", "write"}, Continue(p, next, own) PROVE Stages'
    <3>1. Stage(next, own)
      BY <1>1, <1>6 DEF Stage, Steps, RecheckPolicy, RecheckScale
    <3>2. QED
      BY <2>2, <3>1, StageContinues
  <2>3. QED
    BY <1>6, <2>1, <2>2 DEF RecheckPolicy, RecheckScale, Requeue
<1>7. CASE VerifyTarget(p)
  <2> DEFINE work == [own EXCEPT !.obs = NoObservation, !.scaleFresh = FALSE]
  <2>1. Continue(p, "publish", work) \/ Unavailable(p, own)
    BY <1>7 DEF VerifyTarget
  <2>2. work.report = own.report /\ pc[p] = "verify"
    BY <1>1, <1>7 DEF WorkShape, Has, WorkFields, VerifyTarget
  <2> HIDE DEF work
  <2>3. Stage("publish", work)
    BY <1>1, <2>2 DEF Stage, Steps
  <2>4. QED
    BY <2>1, <2>3, StageContinues, StageEnds
<1>8. CASE ReadForStatus(p)
  <2> DEFINE work == [own EXCEPT !.phpaFresh = TRUE]
  <2>1. Continue(p, "patch", work) \/ Rest(p)
    BY <1>8 DEF ReadForStatus, Requeue
  <2>2. work.report = own.report /\ pc[p] = "publish"
    BY <1>1, <1>8 DEF WorkShape, Has, WorkFields, ReadForStatus
  <2> HIDE DEF work
  <2>3. Stage("patch", work)
    BY <1>1, <2>2 DEF Stage, Steps
  <2>4. QED
    BY <2>1, <2>3, StageContinues, StageEnds
<1>9. CASE CallFails(p)
  BY <1>9, StageEnds DEF CallFails, Requeue
<1>10. QED
  BY <1>2, <1>3, <1>4, <1>5, <1>6, <1>7, <1>8, <1>9

(***************************************************************************)
(* So do the writes and a new start.                                       *)
(***************************************************************************)
LEMMA StageWrites ==
    ASSUME FInv, Stages, NEW p \in Procs,
           Update(p) \/ LoseAnswer(p) \/ PatchStatus(p) \/ Restart(p)
    PROVE  Stages'
<1>1. /\ Has(pc, Procs) /\ Has(loc, Procs)
      /\ \A q \in Procs : WorkShape(loc[q])
      /\ Stage(pc[p], loc[p])
  BY DEF FInv, Shapes, Sound, Stages
<1>2. \A q \in Procs : /\ [loc[q] EXCEPT !.scaleFresh = FALSE].report = loc[q].report
                       /\ [loc[q] EXCEPT !.scaleFresh = FALSE].scaled = loc[q].scaled
                       /\ [loc[q] EXCEPT !.phpaFresh = FALSE].report = loc[q].report
                       /\ [loc[q] EXCEPT !.phpaFresh = FALSE].scaled = loc[q].scaled
  <2>1. ASSUME NEW work, WorkShape(work)
        PROVE  /\ [work EXCEPT !.scaleFresh = FALSE].report = work.report
               /\ [work EXCEPT !.scaleFresh = FALSE].scaled = work.scaled
               /\ [work EXCEPT !.phpaFresh = FALSE].report = work.report
               /\ [work EXCEPT !.phpaFresh = FALSE].scaled = work.scaled
    BY <2>1 DEF WorkShape, Has, WorkFields
  <2>2. QED
    BY <1>1, <2>1
<1>3. ASSUME NEW after, after.report = "None", ~after.scaled, pc' = [pc EXCEPT ![p] = "idle"],
             \/ loc' = [loc EXCEPT ![p] = after]
             \/ loc' = ScaleWritten([loc EXCEPT ![p] = after]) /\ after = NoWork
             \/ loc' = PHPAWritten([loc EXCEPT ![p] = after]) /\ after = NoWork
      PROVE  Stages'
  <2>1. ASSUME NEW q \in Procs \ {p}
        PROVE  loc'[q].report = loc[q].report /\ loc'[q].scaled = loc[q].scaled
    <3>1. \/ loc'[q] = loc[q]
          \/ loc'[q] = [loc[q] EXCEPT !.scaleFresh = FALSE]
          \/ loc'[q] = [loc[q] EXCEPT !.phpaFresh = FALSE]
      BY <1>1, <1>3 DEF ScaleWritten, PHPAWritten, Has
    <3>2. QED
      BY <1>2, <3>1
  <2>2. loc'[p].report = "None" /\ ~loc'[p].scaled
    <3>1. \/ loc'[p] = after
          \/ loc'[p] = [NoWork EXCEPT !.scaleFresh = FALSE]
          \/ loc'[p] = [NoWork EXCEPT !.phpaFresh = FALSE]
      BY <1>1, <1>3 DEF ScaleWritten, PHPAWritten, Has
    <3>2. QED
      BY <1>3, <3>1 DEF NoWork
  <2>3. Stage("idle", loc'[p])
    BY <2>2 DEF Stage, Steps
  <2>4. QED
    BY <1>3, <2>1, <2>3, StageMoves
<1>4. NoWork.report = "None" /\ ~NoWork.scaled
  BY DEF NoWork
<1>5. CASE LoseAnswer(p)
  BY <1>3, <1>4, <1>5 DEF LoseAnswer
<1>6. CASE PatchStatus(p)
  BY <1>3, <1>4, <1>6 DEF PatchStatus
<1>7. CASE Restart(p)
  BY <1>3, <1>4, <1>7 DEF Restart
<1>8. CASE Update(p)
  <2>1. CASE Requeue(p)
    BY <2>1, StageEnds DEF Requeue
  <2>2. CASE /\ pc' = [pc EXCEPT ![p] = "verify"]
             /\ loc' = ScaleWritten([loc EXCEPT ![p].scaled = TRUE, ![p].obs = NoObservation])
    <3> DEFINE after == [loc[p] EXCEPT !.scaled = TRUE, !.obs = NoObservation]
    <3>1. ASSUME NEW q \in Procs \ {p}
          PROVE  loc'[q].report = loc[q].report /\ loc'[q].scaled = loc[q].scaled
      <4>1. loc'[q] = [loc[q] EXCEPT !.scaleFresh = FALSE]
        BY <1>1, <2>2 DEF ScaleWritten, Has
      <4>2. QED
        BY <1>2, <4>1
    <3>2. loc'[p] = [after EXCEPT !.scaleFresh = FALSE]
      BY <1>1, <2>2 DEF ScaleWritten, Has
    <3>3. after.report = loc[p].report /\ [after EXCEPT !.scaleFresh = FALSE].report = after.report
      BY <1>1 DEF WorkShape, Has, WorkFields
    <3>4. pc[p] = "write"
      BY <1>8 DEF Update
    <3> HIDE DEF after
    <3>5. Stage("verify", loc'[p])
      BY <1>1, <3>2, <3>3, <3>4 DEF Stage, Steps
    <3>6. QED
      BY <2>2, <3>1, <3>5, StageMoves
  <2>3. QED
    BY <1>8, <2>1, <2>2 DEF Update
<1>9. QED
  BY <1>5, <1>6, <1>7, <1>8

(***************************************************************************)
(* What others do leaves every cycle at its step, with its report.         *)
(***************************************************************************)
LEMMA StageBystands ==
    ASSUME FInv, Stages,
           \/ Background \/ Tick \/ Linger \/ UserWrites
           \/ BeginDeleteDeployment \/ DeleteDeployment
           \/ \E replicas \in Counts : CreateDeployment(replicas) \/ ScaleByOther(replicas)
           \/ \E value \in Cpus : ChangeCpu(value)
           \/ \E p \in Procs : RelistPHPA(p)
    PROVE  Stages'
<1>1. /\ pc' = pc
      /\ \/ loc' = loc \/ loc' = ScaleWritten(loc) \/ loc' = PHPAWritten(loc)
         \/ loc' = [q \in Procs |-> [loc[q] EXCEPT !.obs.at = Older(@)]]
  <2>1. CASE Background
    BY <2>1 DEF Background, ObserveReplicas, SyncPHPA, SyncDeployment, Deliver
  <2>2. CASE Tick \/ Linger
    BY <2>2 DEF Tick, Linger, Pass
  <2>3. CASE UserWrites
    BY <2>3 DEF UserWrites, EditPolicy, CreatePHPA, BeginDeletePHPA, DeletePHPA, PHPAChanges
  <2>4. CASE BeginDeleteDeployment \/ DeleteDeployment
    BY <2>4 DEF BeginDeleteDeployment, DeleteDeployment, DeploymentChanges
  <2>5. CASE \E replicas \in Counts : CreateDeployment(replicas) \/ ScaleByOther(replicas)
    BY <2>5 DEF CreateDeployment, ScaleByOther, DeploymentChanges
  <2>6. CASE \/ \E value \in Cpus : ChangeCpu(value)
             \/ \E p \in Procs : RelistPHPA(p)
    BY <2>6 DEF ChangeCpu, procVars, RelistPHPA, Deliver
  <2>7. QED
    BY <2>1, <2>2, <2>3, <2>4, <2>5, <2>6
<1>2. ASSUME NEW work, WorkShape(work)
      PROVE  /\ [work EXCEPT !.scaleFresh = FALSE].report = work.report
             /\ [work EXCEPT !.scaleFresh = FALSE].scaled = work.scaled
             /\ [work EXCEPT !.phpaFresh = FALSE].report = work.report
             /\ [work EXCEPT !.phpaFresh = FALSE].scaled = work.scaled
             /\ [work EXCEPT !.obs.at = Older(@)].report = work.report
             /\ [work EXCEPT !.obs.at = Older(@)].scaled = work.scaled
  BY <1>2 DEF WorkShape, Has, WorkFields
<1>3. ASSUME NEW q \in Procs
      PROVE  loc'[q].report = loc[q].report /\ loc'[q].scaled = loc[q].scaled
  <2>1. \/ loc'[q] = loc[q]
        \/ loc'[q] = [loc[q] EXCEPT !.scaleFresh = FALSE]
        \/ loc'[q] = [loc[q] EXCEPT !.phpaFresh = FALSE]
        \/ loc'[q] = [loc[q] EXCEPT !.obs.at = Older(@)]
    BY <1>1 DEF ScaleWritten, PHPAWritten
  <2>2. WorkShape(loc[q])
    BY DEF FInv, Sound
  <2>3. QED
    BY <1>2, <2>1, <2>2
<1>4. QED
  BY <1>1, <1>3, StageStays

(***************************************************************************)
(* Every step leaves every cycle with the report of its step.              *)
(***************************************************************************)
LEMMA StageKeeps == ASSUME FInv, Stages, [Next]_vars PROVE Stages'
<1>1. ASSUME NEW p \in Procs, Reconciling(p) PROVE Stages'
  BY <1>1, StageCalls, StageWrites DEF Reconciling
<1>2. CASE Background \/ Tick
  BY <1>2, StageBystands
<1>3. CASE Disturbance
  BY <1>3, StageBystands, StageCalls, StageWrites DEF Disturbance, UserWrites
<1>4. CASE UNCHANGED vars
  BY <1>4, StageStays DEF vars
<1>5. QED
  BY <1>1, <1>2, <1>3, <1>4 DEF Next

(***************************************************************************)
(* The API server's objects and the work queues.  A generation counts the  *)
(* edits, a status reports one of them.                                    *)
(***************************************************************************)
ServerTyped ==
    /\ cpu \in Cpus
    /\ deployment.uid \in Nat \ {0}
    /\ events \in 0..MaxEvents
    /\ phpa.exists \in BOOLEAN /\ phpa.uid \in Nat \ {0}
    /\ phpa.gen \in 0..(1 + events) /\ phpa.status.gen \in 0..phpa.gen
    /\ phpa.exists => phpa.policy \in Policies
    /\ Has(queued, Procs) /\ \A p \in Procs : queued[p] \in BOOLEAN

(***************************************************************************)
(* The first state has these types.                                        *)
(***************************************************************************)
LEMMA InitServerTyped == ASSUME Init PROVE ServerTyped /\ Stages
<1>1. PICK policy \in Policies : phpa = NewPHPA(1, policy)
  BY DEF Init
<1>2. PICK replicas \in Counts :
         deployment = [NewDeployment(1, replicas) EXCEPT !.observed = replicas]
  BY DEF Init
<1>3. /\ cpu \in Cpus /\ events = 0 /\ queued = [p \in Procs |-> TRUE]
      /\ pc = [p \in Procs |-> "idle"] /\ loc = [p \in Procs |-> NoWork]
  BY DEF Init
<1>4. ServerTyped
  BY <1>1, <1>2, <1>3, MaxEventsAssumption DEF ServerTyped, NewPHPA, NewDeployment, NoStatus, Has
<1>5. Stages
  BY <1>3 DEF Stages, Stage, Steps, NoWork
<1>6. QED
  BY <1>4, <1>5

(***************************************************************************)
(* Only a disturbance counts as one, and each counts once.                 *)
(***************************************************************************)
LEMMA EventsCounted ==
    ASSUME ServerTyped, [Next]_vars
    PROVE  /\ events' \in 0..MaxEvents /\ events <= events'
           /\ UserWrites => events' = events + 1
<1>1. events \in 0..MaxEvents /\ MaxEvents \in Nat
  BY MaxEventsAssumption DEF ServerTyped
<1>2. ASSUME NEW p \in Procs, Reconciling(p) PROVE events' = events
  BY <1>2 DEF Reconciling, DropDeleted, IgnoreDeleting, Begin, Dequeue, Query, Decide,
       RecheckPolicy, RecheckScale, Update, VerifyTarget, ReadForStatus, PatchStatus
<1>3. ASSUME Background \/ Tick PROVE events' = events
  BY <1>3 DEF Background, ObserveReplicas, SyncPHPA, SyncDeployment, Tick
<1>4. ASSUME Disturbance PROVE events < MaxEvents /\ events' = events + 1
  <2>1. CASE UserWrites
    BY <2>1 DEF UserWrites, EditPolicy, CreatePHPA, BeginDeletePHPA, DeletePHPA, Disturb
  <2>2. CASE BeginDeleteDeployment \/ DeleteDeployment \/ Linger
    BY <2>2 DEF BeginDeleteDeployment, DeleteDeployment, Linger, Disturb
  <2>3. ASSUME NEW replicas \in Counts, CreateDeployment(replicas) \/ ScaleByOther(replicas)
        PROVE  events < MaxEvents /\ events' = events + 1
    BY <2>3 DEF CreateDeployment, ScaleByOther, Disturb
  <2>4. ASSUME NEW value \in Cpus, ChangeCpu(value)
        PROVE  events < MaxEvents /\ events' = events + 1
    BY <2>4 DEF ChangeCpu, Disturb
  <2>5. ASSUME NEW p \in Procs, Restart(p) \/ CallFails(p) \/ LoseAnswer(p) \/ RelistPHPA(p)
        PROVE  events < MaxEvents /\ events' = events + 1
    BY <2>5 DEF Restart, CallFails, LoseAnswer, RelistPHPA, Disturb
  <2>6. QED
    BY <1>4, <2>1, <2>2, <2>3, <2>4, <2>5 DEF Disturbance, UserWrites
<1>5. UserWrites => events' = events + 1
  BY DEF UserWrites, EditPolicy, CreatePHPA, BeginDeletePHPA, DeletePHPA, Disturb
<1>6. ASSUME UNCHANGED vars PROVE events' = events
  BY <1>6 DEF vars
<1>7. QED
  BY <1>1, <1>2, <1>3, <1>4, <1>5, <1>6 DEF Next

(***************************************************************************)
(* A write to the PredictiveHPA counts its generation; a status patch      *)
(* reports the generation it was decided for.                              *)
(***************************************************************************)
LEMMA PHPATyped ==
    ASSUME FInv, ServerTyped, [Next]_vars
    PROVE  /\ phpa'.exists \in BOOLEAN /\ phpa'.uid \in Nat \ {0}
           /\ phpa'.gen \in 0..(1 + events') /\ phpa'.status.gen \in 0..phpa'.gen
           /\ phpa'.exists => phpa'.policy \in Policies
<1>1. /\ Has(phpa, PHPAFields) /\ Has(phpa.status, StatusFields)
      /\ phpa.exists \in BOOLEAN /\ phpa.uid \in Nat \ {0}
      /\ phpa.gen \in 0..(1 + events) /\ phpa.status.gen \in 0..phpa.gen
      /\ phpa.exists => phpa.policy \in Policies
      /\ events \in Nat /\ events' \in Nat /\ events <= events'
  BY EventsCounted, MaxEventsAssumption DEF FInv, Shapes, ServerTyped
<1>2. CASE UNCHANGED phpa
  BY <1>1, <1>2
<1>3. ASSUME NEW p \in Procs, Publishes(p), phpa' = [phpa EXCEPT !.status = Status(loc[p])]
      PROVE  /\ phpa'.exists = phpa.exists /\ phpa'.uid = phpa.uid /\ phpa'.gen = phpa.gen
             /\ phpa'.policy = phpa.policy /\ phpa'.status.gen = phpa.gen
  <2>1. loc[p].phpa.gen = phpa.gen
    BY <1>3 DEF FInv, Sound, Publishes, SamePolicy
  <2>2. Status(loc[p]).gen = loc[p].phpa.gen
    BY <1>1 DEF Status, Has, StatusFields
  <2>3. QED
    BY <1>1, <1>3, <2>1, <2>2 DEF Has, PHPAFields
<1>4. CASE UserWrites
  <2>0. /\ phpa.gen + 1 \in 0..(1 + events') /\ phpa.status.gen \in 0..(phpa.gen + 1)
        /\ 1 \in 0..(1 + events') /\ 0 \in 0..(1 + events') /\ 0 \in 0..0 /\ 0 \in 0..1
        /\ phpa.uid + 1 \in Nat \ {0}
    <3>1. events' = events + 1
      BY <1>4, EventsCounted
    <3>2. /\ phpa.gen \in Nat /\ phpa.gen <= 1 + events
          /\ phpa.status.gen \in Nat /\ phpa.status.gen <= phpa.gen
          /\ phpa.uid \in Nat /\ events \in Nat
      BY <1>1
    <3>3. phpa.gen + 1 <= 1 + events' /\ 1 <= 1 + events'
      BY <3>1, <3>2
    <3>4. 1 + events' \in Nat /\ phpa.gen + 1 \in Nat
      BY <3>1, <3>2
    <3>5. phpa.uid + 1 \in Nat \ {0}
      BY <3>2
    <3>6. phpa.status.gen <= phpa.gen + 1
      BY <3>2
    <3>7. QED
      BY <3>2, <3>3, <3>4, <3>5, <3>6
  <2>1. ASSUME NEW policy \in Policies, phpa.exists,
               phpa' = [phpa EXCEPT !.policy = policy, !.gen = @ + 1]
        PROVE  /\ phpa'.exists = phpa.exists /\ phpa'.uid = phpa.uid /\ phpa'.gen = phpa.gen + 1
               /\ phpa'.policy = policy /\ phpa'.status = phpa.status
    BY <1>1, <2>1 DEF Has, PHPAFields
  <2>2. ASSUME phpa' = [phpa EXCEPT !.deleting = TRUE, !.gen = @ + 1]
        PROVE  /\ phpa'.exists = phpa.exists /\ phpa'.uid = phpa.uid /\ phpa'.gen = phpa.gen + 1
               /\ phpa'.policy = phpa.policy /\ phpa'.status = phpa.status
    BY <1>1, <2>2 DEF Has, PHPAFields
  <2>3. ASSUME NEW policy \in Policies, EditPolicy(policy)
        PROVE  /\ phpa'.exists \in BOOLEAN /\ phpa'.uid \in Nat \ {0}
               /\ phpa'.gen \in 0..(1 + events') /\ phpa'.status.gen \in 0..phpa'.gen
               /\ phpa'.policy \in Policies
    <3>1. phpa.exists /\ phpa' = [phpa EXCEPT !.policy = policy, !.gen = @ + 1]
      BY <2>3 DEF EditPolicy
    <3>2. /\ phpa'.exists = phpa.exists /\ phpa'.uid = phpa.uid /\ phpa'.gen = phpa.gen + 1
          /\ phpa'.policy = policy /\ phpa'.status = phpa.status
      BY <2>1, <3>1
    <3>3. QED
      BY <1>1, <2>0, <3>2
  <2>4. ASSUME NEW policy \in Policies, CreatePHPA(policy)
        PROVE  /\ phpa'.exists \in BOOLEAN /\ phpa'.uid \in Nat \ {0}
               /\ phpa'.gen \in 0..(1 + events') /\ phpa'.status.gen \in 0..phpa'.gen
               /\ phpa'.policy \in Policies
    <3>1. phpa' = NewPHPA(phpa.uid + 1, policy)
      BY <2>4 DEF CreatePHPA
    <3>2. /\ phpa'.exists = TRUE /\ phpa'.uid = phpa.uid + 1 /\ phpa'.gen = 1
          /\ phpa'.status.gen = 0 /\ phpa'.policy = policy
      BY <3>1 DEF NewPHPA, NoStatus
    <3>3. QED
      BY <2>0, <3>2
  <2>5. CASE BeginDeletePHPA
    <3>1. phpa' = [phpa EXCEPT !.deleting = TRUE, !.gen = @ + 1]
      BY <2>5 DEF BeginDeletePHPA
    <3>2. /\ phpa'.exists = phpa.exists /\ phpa'.uid = phpa.uid /\ phpa'.gen = phpa.gen + 1
          /\ phpa'.policy = phpa.policy /\ phpa'.status = phpa.status
      BY <2>2, <3>1
    <3>3. QED
      BY <1>1, <2>0, <3>2
  <2>6. CASE DeletePHPA
    <3>1. phpa' = AbsentPHPA(phpa.uid)
      BY <2>6 DEF DeletePHPA
    <3>2. /\ phpa'.exists = FALSE /\ phpa'.uid = phpa.uid /\ phpa'.gen = 0
          /\ phpa'.status.gen = 0
      BY <3>1 DEF AbsentPHPA, NoStatus
    <3>3. QED
      BY <1>1, <2>0, <3>2
  <2>7. QED
    BY <1>4, <2>3, <2>4, <2>5, <2>6 DEF UserWrites
<1>5. QED
  BY <1>1, <1>2, <1>3, <1>4, WritersOfPHPA

(***************************************************************************)
(* The work queue holds the key or does not.                               *)
(***************************************************************************)
LEMMA QueuesTyped ==
    ASSUME ServerTyped, [Next]_vars
    PROVE  Has(queued', Procs) /\ \A p \in Procs : queued'[p] \in BOOLEAN
<1>1. /\ Has(queued, Procs) /\ \A p \in Procs : queued[p] \in BOOLEAN
      /\ phpa.exists \in BOOLEAN
  BY DEF ServerTyped
<1>2. ASSUME UNCHANGED queued PROVE Has(queued', Procs) /\ \A p \in Procs : queued'[p] \in BOOLEAN
  BY <1>1, <1>2
<1>3. ASSUME NEW p \in Procs, NEW b \in BOOLEAN, queued' = [queued EXCEPT ![p] = b]
      PROVE  Has(queued', Procs) /\ \A q \in Procs : queued'[q] \in BOOLEAN
  BY <1>1, <1>3 DEF Has
<1>4. ASSUME NEW p \in Procs, Reconciling(p)
      PROVE  \/ UNCHANGED queued
             \/ \E b \in BOOLEAN : queued' = [queued EXCEPT ![p] = b]
  <2>1. CASE DropDeleted(p) \/ IgnoreDeleting(p) \/ Begin(p)
    BY <2>1 DEF DropDeleted, IgnoreDeleting, Begin, Dequeue
  <2>2. CASE Query(p) \/ Decide(p) \/ RecheckPolicy(p) \/ RecheckScale(p)
    BY <2>2 DEF Query, Decide, RecheckPolicy, RecheckScale, Requeue
  <2>3. CASE Update(p) \/ VerifyTarget(p) \/ ReadForStatus(p) \/ PatchStatus(p)
    BY <2>3 DEF Update, VerifyTarget, ReadForStatus, PatchStatus, Requeue
  <2>4. QED
    BY <1>4, <2>1, <2>2, <2>3 DEF Reconciling
<1>5. ASSUME NEW p \in Procs, SyncPHPA(p) \/ SyncDeployment(p) \/ RelistPHPA(p)
      PROVE  \E b \in BOOLEAN : queued' = [queued EXCEPT ![p] = b]
  <2>1. ASSUME NEW new, Deliver(p, new)
        PROVE  \E b \in BOOLEAN : queued' = [queued EXCEPT ![p] = b]
    BY <2>1 DEF Deliver
  <2>2. CASE SyncPHPA(p)
    BY <2>1, <2>2 DEF SyncPHPA
  <2>3. CASE SyncDeployment(p)
    BY <2>3 DEF SyncDeployment
  <2>4. CASE RelistPHPA(p)
    BY <2>1, <2>4 DEF RelistPHPA
  <2>5. QED
    BY <1>5, <2>2, <2>3, <2>4
<1>6. ASSUME NEW p \in Procs, Restart(p) \/ CallFails(p) \/ LoseAnswer(p)
      PROVE  \/ UNCHANGED queued
             \/ \E b \in BOOLEAN : queued' = [queued EXCEPT ![p] = b]
  BY <1>1, <1>6 DEF Restart, CallFails, LoseAnswer, Requeue
<1>7. ASSUME Tick \/ Linger \/ ObserveReplicas \/ \E value \in Cpus : ChangeCpu(value)
      PROVE  UNCHANGED queued
  BY <1>7 DEF Tick, Linger, Pass, ObserveReplicas, ChangeCpu, procVars
<1>8. ASSUME \/ UserWrites \/ BeginDeleteDeployment \/ DeleteDeployment
             \/ \E replicas \in Counts : CreateDeployment(replicas) \/ ScaleByOther(replicas)
      PROVE  UNCHANGED queued
  BY <1>8 DEF UserWrites, EditPolicy, CreatePHPA, BeginDeletePHPA, DeletePHPA, PHPAChanges,
       BeginDeleteDeployment, DeleteDeployment, CreateDeployment, ScaleByOther, DeploymentChanges
<1>9. ASSUME UNCHANGED vars PROVE UNCHANGED queued
  BY <1>9 DEF vars
<1>10. \/ UNCHANGED queued
       \/ \E p \in Procs, b \in BOOLEAN : queued' = [queued EXCEPT ![p] = b]
  BY <1>4, <1>5, <1>6, <1>7, <1>8, <1>9 DEF Next, Background, Disturbance, UserWrites
<1>11. QED
  BY <1>2, <1>3, <1>10

(***************************************************************************)
(* A Deployment that is created anew is another one.                       *)
(***************************************************************************)
LEMMA DeploymentKnown ==
    ASSUME FInv, ServerTyped, [Next]_vars
    PROVE  deployment'.uid \in Nat \ {0} /\ cpu' \in Cpus
<1>1. /\ Has(deployment, DeploymentFields) /\ deployment.uid \in Nat \ {0} /\ cpu \in Cpus
  BY DEF FInv, Shapes, ServerTyped
<1>2. ASSUME NEW p \in Procs, Reconciling(p)
      PROVE  /\ \/ deployment' = deployment
                \/ deployment' = [deployment EXCEPT !.requested = loc[p].final]
             /\ cpu' = cpu
  BY <1>2 DEF Reconciling, DropDeleted, IgnoreDeleting, Begin, Dequeue, Query, Decide,
       RecheckPolicy, RecheckScale, Update, CommitScale, VerifyTarget, ReadForStatus,
       PatchStatus, api
<1>3. ASSUME NEW replicas, deployment' = [deployment EXCEPT !.requested = replicas]
      PROVE  deployment'.uid = deployment.uid
  BY <1>1, <1>3 DEF Has, DeploymentFields
<1>4. ASSUME ObserveReplicas PROVE deployment'.uid = deployment.uid /\ cpu' = cpu
  BY <1>1, <1>4 DEF ObserveReplicas, Has, DeploymentFields
<1>5. ASSUME NEW p \in Procs, SyncPHPA(p) \/ SyncDeployment(p) \/ RelistPHPA(p)
                              \/ Restart(p) \/ CallFails(p)
      PROVE  UNCHANGED <<deployment, cpu>>
  BY <1>5 DEF SyncPHPA, SyncDeployment, RelistPHPA, Deliver, Restart, CallFails, api
<1>6. ASSUME NEW p \in Procs, LoseAnswer(p)
      PROVE  deployment'.uid = deployment.uid /\ cpu' = cpu
  BY <1>3, <1>6 DEF LoseAnswer, CommitScale
<1>7. ASSUME Tick \/ Linger \/ UserWrites PROVE UNCHANGED <<deployment, cpu>>
  BY <1>7 DEF Tick, Linger, Pass, api, UserWrites, EditPolicy, CreatePHPA, BeginDeletePHPA,
       DeletePHPA, PHPAChanges
<1>8. ASSUME NEW value \in Cpus, ChangeCpu(value)
      PROVE  deployment' = deployment /\ cpu' \in Cpus
  BY <1>8 DEF ChangeCpu
<1>9. ASSUME BeginDeleteDeployment \/ DeleteDeployment
      PROVE  deployment'.uid = deployment.uid /\ cpu' = cpu
  BY <1>1, <1>9 DEF BeginDeleteDeployment, DeleteDeployment, DeploymentChanges,
       AbsentDeployment, Has, DeploymentFields
<1>10. ASSUME NEW replicas \in Counts, CreateDeployment(replicas)
       PROVE  deployment'.uid = deployment.uid + 1 /\ cpu' = cpu
  BY <1>10 DEF CreateDeployment, NewDeployment, DeploymentChanges
<1>11. ASSUME NEW replicas \in Counts, ScaleByOther(replicas)
       PROVE  deployment'.uid = deployment.uid /\ cpu' = cpu
  BY <1>3, <1>11 DEF ScaleByOther, DeploymentChanges
<1>12. ASSUME UNCHANGED vars PROVE UNCHANGED <<deployment, cpu>>
  BY <1>12 DEF vars
<1>13. /\ deployment'.uid = deployment.uid \/ deployment'.uid = deployment.uid + 1
       /\ cpu' \in Cpus
  <2>1. CASE \E p \in Procs : Reconciling(p)
    BY <1>1, <1>2, <1>3, <2>1
  <2>2. CASE Background
    BY <1>1, <1>4, <1>5, <2>2 DEF Background
  <2>3. CASE Tick
    BY <1>1, <1>7, <2>3
  <2>4. CASE Disturbance
    BY <1>1, <1>5, <1>6, <1>7, <1>8, <1>9, <1>10, <1>11, <2>4 DEF Disturbance, UserWrites
  <2>5. CASE UNCHANGED vars
    BY <1>1, <1>12, <2>5
  <2>6. QED
    BY <2>1, <2>2, <2>3, <2>4, <2>5 DEF Next
<1>14. QED
  BY <1>1, <1>13

(***************************************************************************)
(* Every variable keeps its type: the objects, the queues, the step of each*)
(* process and what it has to report there (TypeOK).                       *)
(***************************************************************************)
THEOREM ReconcileTypeCorrect == Spec => []TypeOK
<1> DEFINE TInv == ServerTyped /\ Stages
<1>1. Init => TInv
  BY InitServerTyped
<1>2. FInv /\ TInv /\ [Next]_vars => TInv'
  <2>1. ASSUME FInv, TInv, [Next]_vars PROVE ServerTyped' /\ Stages'
    <3>1. Stages'
      BY <2>1, StageKeeps
    <3>2. events' \in 0..MaxEvents
      BY <2>1, EventsCounted
    <3>3. Has(queued', Procs) /\ \A p \in Procs : queued'[p] \in BOOLEAN
      BY <2>1, QueuesTyped
    <3>4. deployment'.uid \in Nat \ {0} /\ cpu' \in Cpus
      BY <2>1, DeploymentKnown
    <3>5. /\ phpa'.exists \in BOOLEAN /\ phpa'.uid \in Nat \ {0}
          /\ phpa'.gen \in 0..(1 + events') /\ phpa'.status.gen \in 0..phpa'.gen
          /\ phpa'.exists => phpa'.policy \in Policies
      BY <2>1, PHPATyped
    <3>6. QED
      BY <3>1, <3>2, <3>3, <3>4, <3>5 DEF ServerTyped
  <2>2. QED
    BY <2>1
<1>3. RInv /\ TInv => TypeOK
  <2>1. ASSUME RInv, TInv PROVE TypeOK
    <3>1. phpa.gen \in 0..(1 + MaxEvents) /\ phpa.status.gen <= phpa.gen
      <4>1. /\ events \in 0..MaxEvents /\ phpa.gen \in 0..(1 + events)
            /\ phpa.status.gen \in 0..phpa.gen /\ MaxEvents \in Nat
        BY <2>1, MaxEventsAssumption DEF ServerTyped
      <4>2. QED
        BY <4>1
    <3>2. /\ phpa.uid \in Nat \ {0} /\ (phpa.exists => phpa.policy \in Policies)
          /\ deployment.uid \in Nat \ {0} /\ cpu \in Cpus
          /\ \A p \in Procs : queued[p] \in BOOLEAN
      BY <2>1 DEF ServerTyped
    <3>3. /\ deployment.requested \in Nat /\ deployment.observed \in Nat
          /\ \A p \in Procs : steady[p] \in 0..Horizon
      BY <2>1 DEF RInv, Objects, Guardians, Guarded
    <3>4. \A p \in Procs : Stage(pc[p], loc[p])
      BY <2>1 DEF Stages
    <3>5. QED
      BY <3>1, <3>2, <3>3, <3>4 DEF TypeOK, Stage, Steps
  <2>2. QED
    BY <2>1
<1> HIDE DEF TInv
<1>4. QED
  BY <1>1, <1>2, <1>3, FreshnessInvariant, GuardInvariant, PTL DEF Spec
=============================================================================
