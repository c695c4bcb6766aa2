# A verification project for predictive-hpa

TLA+ modules for the PredictiveHPA controller, the TLC configurations that
check them on small instances, and TLAPS proofs of what they promise for every
value of their constants. Line numbers refer to the sources under `src/`.

## The system

predictive-hpa scales a Kubernetes Deployment from its CPU utilisation and a
short forecast of it. A controller polls each `PredictiveHPA` object every 30 s,
and whenever the object or its Deployment changes.

| Part | State it keeps | Operations | Made correct by |
|---|---|---|---|
| Reconciler (`internal/controller/predictivehpa_controller.go`, `metrics_safety.go`, `configuration.go`) | none of its own between cycles but the history map; caches and work queue of controller-runtime | `Reconcile` in ten steps: read, validate, observe, forecast, decide, recheck, write Scale, publish status | a write replaces exactly the request it was computed from; a status is about the live generation; no key is forgotten; demand is met in the end |
| Replica arithmetic (`scaling_decision.go`) | none | signal selection, formula, direction, tolerance | direction and monotonicity, bounds before tolerance, bounded lead |
| Stabilisation history (`scale_history.go`) | per key: bucketed raw recommendations, cold-start guard | `stabilizeRecommendation` | nothing expires early, retention is bounded, a fresh start protects the live request |
| Metrics provider (`internal/metricsprovider/`) | per target: accepted samples; 64 query gates | `AverageCPUUtilizationPercentage`, `ObserveCPU` | an observation counts one set of containers of one incarnation, freshly; failures restart the warm-up only where they must |
| Predictor (`internal/predictor/ewma.go`) | none | `Smooth`, `Predict` | interpolation, damping, no extrapolation past the data |
| Replay (`internal/controller/replay.go`, `cmd/replay`) | none | policy replay of recorded observations | replays exactly the production policy |
| CPU observer (`cmd/observe-cpu`) | counters of a session | poll until stop file, timeout or signal | every observation is written and counted once; one summary |
| Benchmark harness (`hack/run_benchmark.sh`, `hack/lib/k6_runner.sh`) | Pod, ConfigMap, files in a shared volume | launch gate, load, cancel, collect, clean up | load never outlives a cancelled run; artifacts are complete or kept |
| Matrix (`hack/run_matrix.sh`) | directories of runs | plan, skip, run, extract, resume | a measurement is counted once and only when valid |
| Live campaigns (`hack/run_live_campaign.py`, `run_cadence_campaign.py`) | slots, a process group, receipts | run the slots, verify that nothing changed between them | no command outlives its slot or the report; the slots saw one world |
| Observers with a launch gate (`observe_cadence.py`, `run_latency_diagnostic.py`, `observe_live_baseline.py`) | files of the slot, a gate receipt | wait for the right moment, release the load once, watch it | no load runs that no file announces; the moment was the right one |
| Acceptance and end-to-end runners (`run_metrics_safety.py`, `run_e2e.py`, `verify_metrics_safety.py`) | an owned Kind cluster, a stopped source, fixtures | create, guard, mutate, verify, clean up | nothing foreign is touched, nothing of one's own is left unsaid |
| Analysers (`hack/analyze/`) | none | measure a run, pool the runs, replay decisions, judge gates | what is called valid measures what ran |
| Manifests, chart | none | configuration | out of scope, see below |

The parts meet at a few places. The reconciler *calls* the provider, the
predictor and the arithmetic; it *shares* the history map with the calls for
other keys under a mutex; it *reads* its own object and the Deployment from
informer caches, but the Scale, the rechecks and the provider's roster from the
API server; it *writes* the Scale and the status with optimistic concurrency;
watches and `RequeueAfter` *call it back* through the work queue. The provider
asks Prometheus. The harness watches the controller from outside: its log, its
objects and the series Prometheus has of it. Its programs do not call each other
while they run, except that a campaign starts them as child processes; they meet
in the files of a run's directory and in the cluster.

### What is hard to test

* **Interleaving.** Between any two calls of `Reconcile` users edit or delete
  the object, others scale or replace the Deployment, and during a change of
  leader a second process runs the same code.
* **Partial failure.** The Scale write and the status patch are two calls; each
  can fail, and the answer of the first can be lost.
* **Stale state.** Cached objects, an observation, a forecast and a recommendation
  are used seconds after they were obtained.
* **Restart.** The history is process-local.
* **Time.** Buckets follow the wall reading of the clock, expiry and rollback
  detection the monotonic one; both edges of the window are inclusive.
* **Delivery.** Updates are filtered by predicates and may be merged.
* **Sharing.** Calls of the provider for one target, or for two whose names hash
  alike, wait for each other, while all of them share one bounded map.
* **Ambiguity.** A `kubectl` that fails may have done what it was asked; an HTTP
  answer that is lost may belong to a load that started; a signal may arrive
  between a process's start and the note of it.
* **Other hands.** Everything the harness works on goes by a name somebody else may
  use: clusters, namespaces, directories, Deployments.
* **Torn observation.** A snapshot is many reads, a log is read while it is
  written, a series has gaps, and verdicts are drawn from them.

`PROJECT.json` lists these as hazards, each at its line, with the properties
that would catch it.

## The modules

```
Decision ------- DecisionCycle ------- MCDecisionCycle, DecisionProofs
   |
   +-- ScaleHistory -- Stabilizer ---- MCStabilizer, StabilizerProofs
   |        |              |
   |        |              +-- implements RollingMaximum
   |        +---------- Reconcile ---- MCReconcile, ReconcileProofs
   +-- RollingMaximum

SampleHistory -- ObservationHistory (ObservationProofs) --+
   |                                                      |
   +------------ CycleReplay -----------------------------+
Roster (RosterProofs) ------------------------------------+
OwnedCluster ---------------------------------------------+-- MCHarness, HarnessProofs,
Acceptance -----------------------------------------------+              MeasurementProofs
CadenceGate, LatencyGate, LiveBaseline -------------------+
Archive, ReplicaTimeline ---------------------------------+
Campaign -------------------------------------------------+

Extremes: least and greatest elements, induction over an interval, loops, sums, the entries
          of a history; for the proofs
```

**Decision** is `scaling_decision.go`, function by function, over integers:
utilisation, forecast and target share one fixed-point unit, `maxLeadFactor` is
13/10 and `tolerance` 1/10. The code clamps in floating point before it converts
to `int32`, so no operator wraps. **DecisionCycle** evaluates steps 6 to 9 of
`Reconcile` without history in a single action for every combination of inputs.

**ScaleHistory** is `scale_history.go` as operators on values, so that both
modules that keep a history share it. A time is a pair of a monotonic and a wall
reading, and the constant `Monotonic` says whether the clock hands out the first
(`clock.RealClock` does, recorded or decoded times do not). `Divisor` is 128 and
`MinWidth` one second in the code.

**Stabilizer** is one key of the history map: `Decide` is a call of
`stabilizeRecommendation`, `Forget` a restart, a lost lease or a NotFound, `Tick`
and `StepWall` move the clock. `epoch`, `recommended` and `guard` are auxiliary
and record the inputs without buckets. They are the refinement mapping to
**RollingMaximum**, the abstract specification: it remembers every raw
recommendation of the present identity and window and holds a reduction at a
rolling maximum that may be late in forgetting by less than `Slack(window)`,
never early.

**Reconcile** is the controller against the API server, for one key and its
Deployment. An action is one call that leaves the process together with the
computation up to the next such call:

| Action | Code | What follows |
|---|---|---|
| `DropDeleted`, `IgnoreDeleting`, `Begin` | steps 1-3, cached reads | history dropped; nothing; query or an unavailable status |
| `Query` | step 4, the provider | observation of the live incarnation, or unavailable |
| `Decide` | steps 5-9 up to the skip reason, live read of the Scale | recheck the policy, or go straight to the status |
| `RecheckPolicy`, `RecheckScale`, `Update` | step 9 | write or give the cycle up and retry |
| `VerifyTarget`, `ReadForStatus`, `PatchStatus` | step 10, `patchStatus`, `metricsUnavailable` | requeue |
| `SyncPHPA`, `SyncDeployment`, `RelistPHPA` | informers, predicates, `requestsForDeployment` | cache moves on, key queued |
| `Restart`, `CallFails`, `LoseAnswer`, `Linger` | process, network and slowness | |
| the rest | users, other scalers, the deployment controller | |

The work queue holds a key at most once, ready or delayed (the priority queue of
the controller-runtime version in `go.mod`), so `queued` is a Boolean. A
resourceVersion is compared only for equality with the one just read, so it is
a Boolean too: *nothing was written since*. The present is always the instant
`Horizon`, and `Tick` makes everything that carries a time one unit older; what
is older than every limit stays at 0. Time is thus unbounded in a finite state
space, which the liveness properties need.

**ObservationHistory** is what the provider remembers: callers with a deadline,
each call of a target behind the gate its name hashes to (`Acquire`, `GiveUp`),
the three outcomes of an observation (`Accept` with `record` and the eviction of
the least recently used, `Fail` with one of the errors that keep the samples or
one of those that discard them), a wall clock that may be set back. What an
observation is made of is **Roster**: the Deployment and its Pods as read before
and after the two queries (`Begin`, `ListBefore`, `Evaluate`, `QueryRate`,
`QueryTimestamp`, `GetAfter`, `ListAfter`), between which pods are replaced,
containers restart in place and change readiness, and Prometheus scrapes and
remembers those that are gone. In `Reconcile` the two together are the one action
`Query`; they justify that its observations are of one incarnation and fresh.

**SampleHistory** is `record()`: the loop that retains what is in the window, and the
rule by which a sample becomes an anchor. The provider's model and the replay's
reference share it. **CycleReplay** puts
the provider's history beside the reconstruction that
`hack/analyze/decision_replay.py` makes of it from a log that may begin late and
tells a value only when a cycle came to a decision.

**Campaign** is `run_live_campaign.py` and the cadence campaign that inherits it:
one action per step of `command()` (`Spawn`, `Store`, `Collect`, `TimeOut`,
`Stopped`), of the plan (`Completed` with what each command's result decides,
`NextSlot`) and of `finish()` (`Finish`, `Write`), with process groups that fail,
hang, leave descendants or ignore SIGTERM, the two signal handlers, and a world
that others change between the halves of a snapshot. **OwnedCluster** is the frame
that the acceptance and the end-to-end runner share: `run()` as a plan of steps,
`cleanup()` step by step, Docker and Kind behind them with foreign containers of
the same name and a `kind create` that outlives the run. **Acceptance** is the
verifier inside it, which stops the only Prometheus and makes fixtures; every
`kubectl` may fail before or after its effect.

**CadenceGate** and **LatencyGate** are the launch gates: the observation stream
and the selection of its anchor, the one HTTP request that releases k6
(`Attempt`, `Release`), and the observer's thread, the Pod's script and the host
that share a directory of files (`Thread`, `ScriptGate`, `ScriptLoad`,
`HostStep`). **LiveBaseline** is the third gate, judged on a log that the
controller is writing (`ReadState`, `Judge`), and the analysis of what its
observer read (`GrowthInterval`, `PodSeconds`, `CoverageComplete`).

**Archive** is `run_matrix.sh` around `run_benchmark.sh` and the extraction, over
many sessions that may be interrupted softly or killed, with what `aggregate.py`
would pool as a state function (`Loaded`). **ReplicaTimeline** is
what `extract.py` measures of a replica series, against the replicas that really
ran. Its two halves date the end of the load by different clocks. The controlled
measurement adds the schedule to the runner's time stamp `k6-start-time-unix`
(`OfferedEnd`). The historical metrics add it to the time of the earliest Point in
`k6.json`, which k6 writes after its Pod has noted that stamp, or, when the file
is gone (it is not committed), to the start of the whole run and a constant, which
may lie on either side (`k6_stop`; the exact `k6_start_time_utc` that
`extract()` would prefer is written by no runner). `Collect` chooses `k6_stop`
within `MaxSkew` of `OfferedEnd`.

The last eleven are independent programs. **MCHarness** chooses one of them
at the start; a behaviour is that of the chosen program, and the others' variables
stay as they begin. It instantiates every module with its own constants, so that
one run checks them all without a product of their states.

The definitions commented `A slip:` next to an operator are plausible mistakes
in the code it models. Nothing uses them; each property is known to fail when
one of them takes the operator's place (see `mutants` in `PROJECT.json`).

## The runs

| Run | Question | Result and size |
|---|---|---|
| `decision` | Is every evaluation of the policy arithmetic sane? | holds, 7 501 states |
| `stabilizer` | Do the buckets keep what they must, and no longer? | holds, 162 169 states |
| `stabilizer_epochs` | Does every change of identity, window or time direction start a guard? | holds, 14 405 states |
| `stabilizer_rollback` | Does a wall-clock rollback rebuild protection on a real clock? | **violated**, see below |
| `reconcile` | One process, two disturbances of any kind: safety | holds, 3.0 M states |
| `reconcile_leaders` | Two processes whose leadership overlaps | holds, 1.9 M states |
| `reconcile_progress` | After the disturbances: demand, release, status | holds, 0.26 M states |
| `reconcile_scale_time` | Is `lastScaleTime` the last adjustment? | **violated**, see below |
| `reconcile_relist` | Is a live object reconciled even after a relist? | **violated**, see below |
| `harness` | Each program around the controller, and both halves of the provider, under its own faults | holds, 1.35 M states |
| `campaign_signal` | Does a campaign hold a group's handle until its cleanup ends? | **violated**, see below |
| `archive_interrupt` | Does the first Ctrl+C spare the running experiment? | **violated**, see below |

### The properties

* `DirectionFollowsSignal`, `MonotoneInSignal`, `HybridForecastOnlyRetains`,
  `LeadIsBounded`, `ToleranceNeverHidesBounds`: the arithmetic when the observed
  and the requested counts disagree, which is when it is hard to get right.
* `NeverExpiresEarly`, `RetainsNoMore`: merging recommendations neither loses,
  renews nor piles them up.
* `ProtectsColdStart`, `NeverInitiatesExpansion`, `RollbackRebuildsProtection`:
  the guard of ADR 0002 and the one-sidedness of history.
* `ImplementsRollingMaximum`: refinement of the abstract specification.
* `WritesOwnBase`: a write replaces the request it was computed from, with
  observations of that Deployment's own pods, even with two leaders.
* `StatusOfLiveGeneration`: no status of an old policy or incarnation lands on a
  new one.
* `NeverForgotten`: a live object is queued, in progress, or about to be told of.
* `NoReductionSoonAfterRestart`: end to end, a restart does not lower a request
  nobody else changed until a whole window has passed.
* `DemandIsMet`, `CapacityIsReleased`, `StatusCatchesUp`: liveness.
* `MeasuresOneRoster`: an accepted observation counts exactly the Deployment's own
  containers that ran from before its queries until after them, each sampled
  freshly, however slow the answers were.
* `WarmsUp`: what the predictor is given is of one incarnation, inside the window
  and spaced; a second sample is there one spacing after the first, whatever other
  callers, policies, targets and events did meanwhile, unless a failure that discards
  samples, an eviction or a wall clock set back came between.
* `NoOverlap`, `NothingOutlivesReport`, `SlotsSawOneWorld`, `EveryCampaignEnds`:
  a campaign's commands, its report, its snapshots, its end.
* `ForeignClusterSafe`, `NothingLeftSilently`, `LeftAsFound`: what a runner deletes
  is its own, and what it leaves it says.
* `LoadIsAccountedFor`: a load that runs was announced on disk, released once, at
  the first eligible observation, and is stopped by its host wherever a
  cancellation meets it.
* `ReportIsSound`, `CompleteMeansMeasured`: no cell of the matrix is pooled twice, no
  failed attempt counts or blocks the report, "complete" means measured.
* `FaithfulMeasurement`, `ReportsAgree`: costs, peak and scale-down of a window that
  is called valid are those that ran, up to one scrape; the controlled and the
  historical metrics of one run differ by their two ends of the load and by
  nothing else. A historical end that is later by some seconds may miss as many of
  waste, an earlier one may add as many; a scale-down is one instant, timed from
  either end.
* `ReplayMatchesProvider`: the offline replay reconstructs the histories of the
  provider, or refuses a log it cannot reconstruct them from.
* `BaselineIsFaithful`: the gate opens on an unscaled target; growth lies within the
  interval reported; costs are off by no more than a gap and a read.

### Bounds, and why they are enough

* The decision run has utilisations at zero, inside, on the edge of and outside
  the band of a target of 50, forecasts on both sides of the cap, and lagging
  replicas on both sides of the request and the bounds.
* With `Divisor = 2` a window of 4 has buckets of width 2: two recommendations
  can merge, a bucket can straddle the window's edge and three can intersect it.
  `MaxDistinct` and `MaxEntries` bound the recommendations of an epoch and the
  entries a clock set to and fro can pile up.
* `reconcile` has windows of 1 and 0 with a horizon of 2, so an instant can be
  now, exactly one window old, or older. Two disturbances suffice for every
  two-sided race: an edit in each half of a cycle, a delete and a create, a crash
  around a foreign scale, a fault and its retry. Kind `"cpu"` is left to the
  leaders run: a second level is covered by the two initial ones.
* `reconcile_leaders` needs no disturbance beyond one change of utilisation:
  the two processes disturb each other. The processes are interchangeable, so the
  run uses symmetry (it checks an action property and no liveness).
* `MaxEvents` makes disturbances end, as the liveness properties presuppose
  (`<>[]` on the left of each of them is then about what the disturbances left
  behind). `StatusCatchesUp` uses utilisations far outside the tolerance band, as
  inside it a status may rightly report a count other than the request
  (`docs/design.md`).

* `harness` gives every program what its races need and no more: two slots, two
  signals and one foreign change for a campaign; four containers of one name, so
  that one of ours can be followed and preceded by foreign ones; one replacement of
  the cluster and two foreign namespaces for the acceptance; three rows of two
  containers for the cadence gate; two cells, three directories, one edit and one
  hand extraction for the archive. A scrape interval of two units lets a move fall
  between scrapes, and `MaxSkew = 2` puts the two ends of the load up to one such
  interval apart, either way. The provider runs in `Scenarios`: three targets for two places
  of the map; two callers of one target with two windows and one disturbance; two
  callers of two targets behind one gate. Its clock goes to 5, so that two spacings of
  2 and an acceptance behind which the clock is set back fit in. `Roster` has two names for three
  instances, so that a name is used again and a container is left out; two scrapes
  make a sample fresh, stale or absent.
* Bounds whose names begin with `Max` are stated with the constants of each module.

### Fairness

`FairSpec` assumes weak fairness of each process's cycle (the work queue hands
out every key and every call returns: the provider's deadline is 10 s and the
client's calls are bounded), weak fairness of informers and deployment controller
taken together, and strong fairness of `Tick`: an observation in use stops
`Tick` (`InTime`), but cycles end and polls are 30 s apart, so time passes
between them. No fairness is assumed of any disturbance.

`HarnessSpec` assumes weak fairness of a campaign's own steps: `command()` waits
with a timeout, `stop_active()` waits for the group with one and then kills it, so
no step waits for ever on a process that hangs. The exits of processes, signals
and foreign changes have no fairness. `ArchiveSpec` states weak fairness of the
wrapper's session.

### The five disagreements

1. **`stabilizer_rollback`**: `now.Before(hist.lastRecordedAt)` uses monotonic
   readings, so a wall clock that is set back is not noticed, while a comment
   (`scale_history.go:119`) and `docs/metrics-safety-plan.md:53` promise a new
   guard. Buckets then follow the wall reading; the properties that matter
   (`NeverExpiresEarly`, `ProtectsColdStart`) are proved for any such clock.
2. **`reconcile_scale_time`**: only the cycle that wrote the Scale sets
   `lastScaleTime`. When that cycle ends between `Update` and the status patch,
   the adjustment is never entered, although the API calls the field "the last
   time the controller adjusted the replica count". The trace: the write, an edit
   of the spec, a conflict at the status patch, and a next cycle that has nothing
   to write and publishes a ready status.
3. **`reconcile_relist`**: the watch breaks, the object is deleted and re-created
   with the same number of generations, and the relist delivers an update that
   `GenerationChangedPredicate` drops. As a pending deletion is ignored without a
   requeue, nothing polls the new object until its spec, annotations or
   Deployment change. `NeverForgotten` holds in `reconcile`, where watches
   deliver every deletion.
4. **`campaign_signal`**: `stop_active()` clears `self.active` in a `finally`, also
   when a signal's `KeyboardInterrupt` cuts its wait short
   (`run_live_campaign.py:139`). `finish()` calls it again, finds no group, and
   one that ignored SIGTERM goes on beside the report, although the comment
   above says to "retain the group handle until cleanup ends".
   `NothingOutlivesReport` therefore excepts groups lost to a signal, and only
   those.
5. **`archive_interrupt`**: Ctrl+C reaches `run_benchmark.sh` in the foreground
   process group too; its own trap ends it and marks the experiment failed, while
   the header of `run_matrix.sh` says that the wrapper "exits AFTER current
   experiment finishes".

## The proofs

A theorem holds for every value of the constants that satisfies the named
assumptions; each assumption is evaluated by a run.

`DecisionProofs` proves, for any utilisations, forecasts, targets, replicas and
valid bounds, that every evaluation is consistent with its inputs
(`DecisionInvariant`) and from it `MonotoneTheorem`, `DirectionTheorem`,
`ToleranceTheorem`, `HybridTheorem` and `LeadTheorem`. The argument rests on the
monotonicity of the ceiling division and of the clamp, and on a case split over
the three branches of `directedRecommendation`.

`StabilizerProofs` proves `TypeCorrect`, `NeverExpiresEarlyTheorem`,
`ProtectsColdStartTheorem` and `NeverInitiatesExpansionTheorem` for every bucket
geometry, window, sequence of recommendations and clock, monotonic or not, set
forwards or back. None of these is inductive: a decision speaks of
recommendations whose entries may have merged with later ones. The invariant adds

* `Coupled`: the stored history and the inputs' record start afresh at the same
  decisions and agree on identity, window, last decision and guard;
* `Covered`: every recommendation still in the window has an entry that is at
  least as recent and at least as large;
* `Timely`: no recommendation is later than the last decision.

What the three halves of the bucketed maximum preserve is proved once, in
`Extremes` (`NewestRepresents`, `SuffixKeeps`, `LargestCount`, for any set of
times and counts); `RecordFacts`, `PruneFacts` and `PeakFacts` are their instances for
the operators of `Stabilizer`, `KeptPeak` and `EntriesRemembered` for those of
`Reconcile`. `DecideUpdatesHistory` combines them into the step,
`DecideSettles` derives the three promises. Assumed of the constants: replica
counts are `int32` naturals, bounds pass `validateConfiguration`, `Divisor` and
`MinWidth` are positive.

The second part of `StabilizerProofs` proves the other direction, and with it the
refinement (`RetentionInvariant`). It assumes `SteadyClock`: a clock with
monotonic readings does not set its wall reading back. (With a rollback the
direction is false: the buckets follow the wall reading.) Its invariant
strengthens the first one by

* the two readings move together (`ClockInvariant`);
* bucket indices grow by at least one from entry to entry (`Orderly`), so that no
  more than `Divisor + 1` of them fit into a window: the bound on a division is
  `WidthFacts`;
* every entry's count was recommended in the bucket of its time (`Sourced`), so
  that what holds a reduction is never a bucket older than what the exact maximum
  would use.

`RetainsNoMoreTheorem` follows directly. For `RefinementTheorem` the mapping is the
identity on the auxiliary record of inputs; every `Decide` is shown to be a decision
of `RollingMaximum` that settles between the exact maximum and the one with
`Slack(window)` (`SettlesAsPromised`), every other step a step of its clock, a
restart or a stutter.

The third part is about the production clock, whose wall reading may be set under
a monotonic one, and needs no `SteadyClock`. Run `stabilizer_rollback` shows
that a wall clock set back rebuilds no protection there; `SetBackTheorem` says what
the code does instead: for one identity and window no recommendation ever finds an
earlier reading (`NeverBehind` is the invariant) or builds a new guard, however the
wall is set, and the one that follows loses nothing that is in the window by
elapsed time. Every such entry is kept or merged into one that is as large and of
now (`StandingHistory`), and a reduction stops at all of them and, in its time,
at the count of the old guard (`DecideStands`).

`ReconcileProofs` is about the controller against the API server, for any number
of processes that believe to lead. `FreshnessInvariant` ties the two Booleans
that stand for resourceVersions to what was read: a cycle whose Scale is still the
live version has the request that was read, one whose object is still the live
version has its policy, and from `decide` to `write` the observation is of the
cycle's own target. The writes, wherever they come from, clear the flags of all
processes (`ScaleWriteKeeps`, `PHPAWriteKeeps`). From it `WritesOwnBaseTheorem` and
`StatusTheorem` follow; the latter also needs that identities only grow.
`NeverForgottenTheorem` has an invariant of its own: a cached object is an earlier
version of the live one, and two versions of one object with the same generation
are the same (`Behind`), so that what `GenerationChangedPredicate` drops is no news.
It assumes `WatchesHold`, that no watch misses a deletion; without it the property
is false (run `reconcile_relist`).

The second part of `ReconcileProofs` proves `NoReductionTheorem`, the end-to-end
promise of ADR 0002: a request that nobody else changed is not lowered within a
window of the process's start, except to `maxReplicas`, whatever is observed,
forecast, edited, lost or retried meanwhile, and however many processes believe to
lead. The property speaks of one write; why it holds is spread over the cycles
before it. The invariant (`GuardInvariant`) says for each process, with `s` its
`steady` time (since it started, beyond every window once others have scaled):

* `Kept`: nothing in its history is older than `s`, so within the window nothing
  has expired and the protection taken at the cold start is still in force;
* `Guarded`: within the history's window the larger of its peak and of the protected
  count (`Highest`) is at least the live request, because the request found at the
  cold start is recorded and every later request was settled on from what was
  recorded;
* `Vouched`: between settling on a count and writing it, that count is one the
  history vouches for and, within the window, no less than the request it was
  decided from.

A write then needs that what was decided from is what is replaced, which is
`FreshnessInvariant`. A write by somebody else puts `s` beyond every window and so ends the promise.
Assumed of the policies is `PoliciesAssumption`: their fields are integers and
`maxReplicas` is an `int32`. `ReconcileTypeCorrect` uses both invariants: the types
of what a cycle holds depend on the step it is at (`Stages`).

`RosterProofs` proves `MeasuresOneRosterTheorem` for any pods, roll-outs, restarts
in place, scrapes and delays. The accepted observation speaks of what ran at
instants in the past, so its invariant follows a call through its phases:
`Continuous` (an instance of the first list that still runs in its slot has run all
the time: one that ends does not come back), `Attributed` (the rates are those of
the instances listed) and `Fresh` (each of them was scraped between the oldest
source time of the answer and the instant of the query, which the age check at the
end then bounds).
`RosterParameters` is evaluated by the run `harness`; so is `HarnessAssumption`, of the
constants of the harness.

`ObservationProofs` proves `WarmsUpHolds` and `ProviderTypeCorrect` for any callers,
targets, windows, gates and bound of the map, assuming `ProviderParameters`. The first
half is about `record()`: what its pass over the samples retains (`RetainedFacts`), that
what it returns is spaced and in the window, and that of two lists which differ in the
first sample alone the same others are retained (`RetainsAlike`). The pass is a recursive
function over the samples, as the loop in the code; what it computes for every list is
shown by induction over an interval (`IntervalInduction` of `Extremes`, from the least
counterexample). The second half is the invariant `ProviderInv`: a target is remembered
just when the promise still counts an acceptance of it, as of the same observation
(`Kept`), its anchors are spaced and of its incarnation, and each acceptance that still
counts has an anchor at most a spacing older than it (`HasAnchor`). So one that is a
spacing old has an anchor besides the live sample. The gates enter in
`ProviderTypeCorrect`, no two calls are behind one, but not in the warm-up: it needs only
that an acceptance is one step.

The attempt to prove `WarmsUp` refuted an earlier statement of it. A clock that is set
back behind the last acceptance lets that one count no more, and the acceptance before
it, which does, had its anchor dropped when the later one, in a narrow window, was
accepted. A bound of 4 on the time of the run hid this; the property now counts only
acceptances that every later one had in its window, and the run goes to 5.

`HarnessProofs` is about the programs of the harness, each with its own invariant.

* *Campaign*: `CampaignTypeCorrect`, `NothingOutlivesReportHolds`,
  `SlotsSawOneWorldHolds` and `NoOverlapHolds`, for any number of slots, signals, foreign
  changes and descendants. `Held` says when the handle of a process group must be held
  and that what lives is of that group or of one a signal made the campaign lose;
  `Suspects`, that a slot during which the world changed has not succeeded, and that
  while it is under way the checks still to come will find the change (`Detectable`, one
  case for each command of the slot). `Onward` is why a torn snapshot cannot hide it: what
  has changed never looks as it did.
* *Owned cluster*: `NothingLeftSilentlyHolds` and `ForeignClusterSafeHolds`. While `run()`
  goes on it has looked at nothing foreign, and the cleanup deletes only after it has
  recognised a container of its own, no older than any it has looked at (`Recognised`);
  what comes of its own after the last look comes late (`LookedLast`).
* *Acceptance*: `LeftAsFoundHolds`. The source of metrics differs from what the run found
  only while `source_stopped` says so, at every step of the script and of the cleanup
  (`SourceKept`), and what was applied is remembered (`Applied`).
* *Launch gates*: `LaunchIsAccountedForHolds` for streams of any length: the attempt on
  disk precedes the load, and the anchor it names, chosen on what the file showed by then,
  is the first of the whole stream (`GateChosen`, `AnchorOfPrefix`; the selection is a
  loop, proved like the pass of `record()`). `LatencyLoadIsAccountedFor` follows the
  planning of a load, its release and the stop through observer, Pod and host.
* *Replay*: `ReplayMatchesProviderHolds`. `ReplayInv` says that the two lists of samples
  agree but for the first one, whose value the log may not have told (`Tells`), and of a
  whole log also in the time of that one (`SameStart`). Of a log that began late the first
  times may differ, so that one list loses its first sample from the window or takes an
  anchor when the other does not: then the two counts differ and the replay refuses the
  log, or nothing but the first sample is left (`ReplayFollows`).
* *Types*: `HarnessTypeOKHolds`, for any values of the harness's constants, from these
  invariants and those of `MeasurementProofs`, which `HarnessProofs` extends. Most variables
  get no further than their steps say; but the acceptance counts at most eleven results
  because its script has eleven checks (`ChecksBefore`), the runner looks only at containers
  that have been born (`OwnedContainers`), and the replay's lists are of samples that were
  taken (`SeriesAreSamples`). The provider and the roster, whose bounds the harness fixes,
  have their types for any bounds in `ProviderTypeCorrect` and `RosterTypeCorrect` (a change
  makes at most one generation; only what was started is followed or counted).

`LoadIsAccountedForHolds`, `MeasuresOneRosterHolds`, `WarmsUpInHarness`,
`ReplayMatchesProviderHolds` and the theorems of `MeasurementProofs` are about
`HarnessSpec` itself: a behaviour of the harness is one of the program's own specification
(`CadenceRuns`, `RosterRuns`, `ProviderRuns`, `ReplayRuns`, ...). For roster and provider
the theorems are about other instances of the modules, and every step of the harness's is
shown to be one of theirs (`RosterWorld`, `ProviderSteps`).

`MeasurementProofs` is about what the harness reports, in the harness itself
(`HarnessSteps`, of which every behaviour of `HarnessSpec` is one). Each part has an
invariant that every step of the harness keeps.

* *Archive*: `ReportIsSoundHolds` and `CompleteMeansMeasuredHolds`, for any number of
  cells, directories, sessions, edits and extractions by hand. `ArchiveInv` says that the
  session's run is where the session takes it to be (`RunStands`), that a run is extracted
  only once it is over (`ExtractedLate`), that the cells a session has done with are
  measured and those it still has to run are not (`SessionStands`), that no cell of an
  identity is measured twice unless somebody extracted one by hand (`OneMeasurement`), and
  that a run whose extraction failed is about to be marked unless somebody is to blame
  (`FailuresKnown`). The scan over the directories is a loop, proved like the pass
  of `record()`.
* *Timeline*: `ReportsAgreeHolds` and `FaithfulMeasurementHolds`, for any series, scrape
  interval and phase, number of moves and of missing scrapes, and window. `TimelineInv`
  ties the series to what ran: its samples are in the order of time, on the grid
  (`SeriesOrdered`), and each shows the count of one offset before its place
  (`SeriesShown`). The rest is arithmetic of sums. A sum over samples is put as a running
  total (`Tally`); the controlled integral is a step function whose value at any instant
  is one that ran at most `Delay` before; and the error of a value held that long is
  bounded by `Delay` times the path of the count (`StepIntegral`, `LateIntegral`). That the
  reports agree is shown for one end of the load first (`WasteOutside`); a waste that
  begins earlier adds no more than the time between (`EarlierWaste`), which settles the
  two clocks in either order (`WasteAgrees`).
* *Live baseline*: `BaselineIsFaithfulHolds`, for any log, times, reads and number of
  changes. `BaselineInv` says that a target scaled up was scaled by a busy cycle that no
  later decision takes back (`TargetExplained`), so that a receipt cannot rest on an idle
  cycle before it (`GateSound`, from `GateOpensUnscaled`); and that the rows are reads one
  after the other, each with a count at some time of its read (`RowsRead`, `RowsApart`,
  `ReadSound`). From it `GrowthIsFaithful`: between two reads of which only the second
  shows growth there is an instant at which it happened. For the costs the rows cut the
  window into the times for which each is held (`RowsAreCut`), and every change of the
  count is one step of its path (`ChangesArePath`).

The attempt to prove `FaithfulMeasurement` refuted a part of an earlier statement of it:
a return to the minimum exactly `Delay` before the end of the window was claimed to be
seen. If the window ends on a point of the grid, the return is seen only by the sample at
the end itself, which may be missing. In the run's instance the window ends between two
points, which hid this; the property now speaks of returns before that.

`Extremes` has the lemmas that the proofs share: least and greatest elements of sets of
numbers; induction over an interval, and that the recursive function of a loop is what its
equation says (`LoopExists`); the sums of the library, which are folds over a set in an
arbitrary order, as running totals over an interval; the integral of a step function; and
the entries of a history. The folds need no induction over an operator: two functions that
satisfy the same equation on the subsets of an interval are equal, by the smallest subset
on which they are not.

### Only model-checked

* Liveness under fairness is out of the prover's reach: `DemandIsMet`,
  `CapacityIsReleased`, `StatusCatchesUp`, `EveryCampaignEnds`.

## Abstractions

* Floating point: utilisations are exact, so the last bit at the edge of the
  tolerance band and of the lead cap is not modelled.
* The forecast is any of a set of integers, which covers every series of samples
  the predictor may be given.
* In `Reconcile` the provider is one step. Its warm-up, Prometheus faults and rejected samples
  are the failures of `Query`, free while pods come and go, budgeted otherwise.
* A status keeps readiness, generation and desired count; a patch that would only
  change the dropped fields appears as one that is not needed.
* The two cached reads of steps 1 and 3 are one step: what they return can be
  arbitrarily old anyway.
* A watch delivers every deletion except in `RelistPHPA`; updates may be skipped.
* A call that outlives its process and is applied later is not modelled.
* The provider's deadline is the choice to give up or fail at any point. One
  worker reconciles by default; concurrent calls are the contract the provider's
  own comments state. Among several least recently used targets any may be evicted.
  `WarmsUp` promises a second sample only between one spacing and the window less
  one spacing, where the code can keep it.
* In `Roster` the generation check and the first of the two age checks are
  modelled although the other checks imply them.
* A command of `kubectl` takes effect at once, or not at all, whatever it answers;
  an effect that arrives after the answer is modelled only for `kind create`.
* Identities (UIDs, containers, directories) are never used twice.
* In `Campaign` a snapshot is two commands and a command's `Popen` and the note of
  it are two steps, as a signal may fall between. The `except` clause of `run()`
  up to `finalizing = True` is one step.
* An interrupted verifier can write `passed: true` with fewer than its eleven
  checks; its caller counts them, which is what `Acceptance`'s last step stands
  for.
* `Archive` excepts what nobody can judge: a run whose extraction a hard abort cut
  before its verdict (`run_matrix.sh:168`) stays without a mark and blocks the
  report, and a second attempt extracted by hand can be pooled beside the first.
* `ReplicaTimeline` excepts an outage of Prometheus itself: within its lookback of
  five minutes the grid shows the older scrape and no hole. The legacy
  `scaledown_completed` of a series that never leaves a level above the minimum is
  not compared. `MaxSkew` bounds how far the two ends of the load are apart; the code
  checks nothing of it.
* Spacings and ages are compared in whole units; the float arithmetic of the
  analysers is not modelled.
* In `LiveBaseline` the stabilisation window outlasts the wait for the gate, so the
  controller does not reduce meanwhile; conditions on age and readiness only
  refuse. A torn last line of the log is a record that is not yet there. Time is
  explored only after the shortest log, since the log is over when it begins.
* Bucket width is one unit of time in `Reconcile` (an assumption there), so that
  ageing commutes with bucketing; wider buckets are `Stabilizer`'s subject.

### Not modelled

* The collection loop of the k6 runner (`k6_runner.sh` 296-422): its checks are of
  the contents of files. Its launch gate and stop are in `LatencyGate`.
* The loop of `cmd/observe-cpu`: one process whose exits exclude each other. Its
  stream is `CadenceGate`'s.
* `Smooth` and `Predict`: floating-point functions whose result enters every model as
  an arbitrary number. The Go replay: the same functions without interleaving.
* Statistics, plots, the metric pipeline and visibility reports and the calibration
  under `hack/analyze/`: arithmetic over files without state.
* Manager flags, TLS, health endpoints, generated deep copies, CRD schema
  validation, manifests, chart and load profiles.

## Plan

What is left, the most important first.

1. Proofs: in `LiveBaseline`, targets of any size.
2. `ObserveCpu` (`cmd/observe-cpu/main.go` 143-207) and the collection of the k6
   runner with the contents of its files.
3. `Predictor` and `Replay` as pure functions against reference definitions.
