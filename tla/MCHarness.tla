------------------------------ MODULE MCHarness ------------------------------
(***************************************************************************)
(* The programs of the test harness for TLC, one at a time, and the two    *)
(* halves of the metrics provider, which the replay mirrors and the gates  *)
(* rely on: they do not share state, so that a behaviour is that of the    *)
(* program chosen at the start, and the variables of the others stay as    *)
(* they begin.                                                             *)
(***************************************************************************)
EXTENDS Campaign

CONSTANTS
    MaxContainers, MaxTools,          \* of OwnedCluster
    MaxReplaced, MaxRecreated,        \* of Acceptance
    Containers, MaxRows,              \* of CadenceGate
    Cells, MaxDirs, MaxEdits, MaxHands,                                  \* of Archive
    Gap, Onset, OfferedEnd, TailEnd,                                     \* of ReplicaTimeline
    MaxReplicas, MaxMoves, MaxHoles, MaxSkew,
    observationSpacing, window, MaxTime, MaxLost,                        \* of CycleReplay
    MaxCycles, Interval, MaxRead,                                        \* of LiveBaseline
    LoadOnset, LoadEnd, ObservationEnd, MaxReadyChanges

ASSUME HarnessAssumption ==
    /\ {MaxContainers, MaxTools, MaxReplaced, MaxRecreated, MaxRows, Cells, MaxDirs, MaxEdits,
        MaxHands, MaxReplicas, MaxMoves, MaxHoles, MaxSkew, MaxTime, MaxLost, MaxCycles, MaxRead,
        MaxReadyChanges} \subseteq Nat
    /\ MaxContainers > 0  \* the name may be taken
    /\ {Onset, OfferedEnd, TailEnd, observationSpacing, window, Interval,
        LoadOnset, LoadEnd, ObservationEnd} \subseteq Nat
    \* the load begins at a point of the grid
    /\ Gap \in Nat \ {0} /\ Onset < OfferedEnd /\ OfferedEnd < TailEnd /\ Onset % Gap = 0
    /\ 0 < observationSpacing /\ observationSpacing < window
    /\ 0 < Interval /\ LoadOnset < LoadEnd /\ LoadEnd < ObservationEnd

VARIABLES
    program,  \* the program that runs
    suite, stage, at, node, births, mine, escaped, node_id, cluster_uid, created, summary,
    tool, tools, seen, victims, late,
    step, tidy, behind, prometheus, found, fixture, ours, uids, meddled, guarded,
    fixture_uid, fixture_created, source_stopped, results, failed,
    stream, flushed, after, phase, anchor, attempt, receipt, gate_errors, result, starts,
    script, files, gate, load, thread, main, stop, errors, planned, gate_released,
    observer_status, host,
    dirs, source, wrapper, edits, hands, by_hand, unjudged,
    offset, truth, samples, moves, holes, outage, runner, end_time, k6_stop,
    observed_at, kept, returned, decided, lost, begun, anchors, series, seen_decision, accepted,
    inflight, log, doing, target, state, gate_receipt, launched, ready, read, rows, observer_failed,
    provider_clock, incarnations, history, calls, scenario, left, noted, answered,
    roster_clock, deployment, pods, born, scrapes, homes, rollouts, scraped, call, steady, observed

Owned      == INSTANCE OwnedCluster WITH errors <- summary
Accept     == INSTANCE Acceptance
Cadence    == INSTANCE CadenceGate WITH errors <- gate_errors
Latency    == INSTANCE LatencyGate WITH status <- observer_status
Archived   == INSTANCE Archive
Measured   == INSTANCE ReplicaTimeline
Replayed   == INSTANCE CycleReplay WITH at <- observed_at
Observed   == INSTANCE LiveBaseline WITH
                  replicas <- target, seen <- state, receipt <- gate_receipt,
                  failed <- observer_failed, MaxChanges <- MaxReadyChanges

\* Evictions with three targets, calls that race for one target with two windows while it is
\* replaced or the clock is set back, and targets that share a gate.
Scenario(callers, targets, windows, n, disturbances) ==
    [callers |-> callers, targets |-> targets, windows |-> windows, calls |-> n,
     disturbances |-> disturbances]
Scenarios == {Scenario({"p"}, {"a", "b", "c"}, {4}, 4, 0),
              Scenario({"p", "q"}, {"a"}, {2, 4}, 3, 1),
              Scenario({"p", "q"}, {"a", "b"}, {4}, 3, 0)}

Provider   == INSTANCE ObservationHistory WITH
                  clock <- provider_clock, live <- incarnations, observationSpacing <- 2,
                  Targets <- {"a", "b", "c"}, maxTargets <- 2, MaxTime <- 5,
                  gateOf <- [t \in {"a", "b", "c"} |-> IF t = "c" THEN 2 ELSE 1]
Rostered   == INSTANCE Roster WITH
                  clock <- roster_clock, changes <- rollouts, Slots <- {"a", "b"},
                  MaxSampleAge <- 1, MaxTime <- 3, MaxInstances <- 3, MaxChanges <- 3,
                  MaxScrapes <- 2

ASSUME RosterAssumption == Rostered!RosterParameters
ASSUME ProviderAssumption == Provider!ProviderParameters

\* The variables of each program.
owned      == <<suite, stage, at, node, births, mine, escaped, node_id, cluster_uid, created,
                summary, tool, tools, seen, victims, late>>
acceptance == <<step, tidy, behind, prometheus, found, fixture, ours, uids, meddled, guarded,
                fixture_uid, fixture_created, source_stopped, results, failed>>
cadence    == <<stream, flushed, after, phase, anchor, attempt, receipt, gate_errors, result,
                starts>>
latency    == <<script, files, gate, load, thread, main, stop, errors, planned, gate_released,
                observer_status, host>>
archive    == <<dirs, source, wrapper, edits, hands, by_hand, unjudged>>
timeline   == <<offset, truth, samples, moves, holes, outage, runner, end_time, k6_stop>>
replay     == <<observed_at, kept, returned, decided, lost, begun, anchors, series,
                seen_decision, accepted>>
baseline   == <<inflight, log, doing, target, state, gate_receipt, launched, ready, read,
                rows, observer_failed>>
provider   == <<provider_clock, incarnations, history, calls, scenario, left, noted, answered>>
roster     == <<roster_clock, deployment, pods, born, scrapes, homes, rollouts, scraped, call,
                steady, observed>>

gates      == <<cadence, latency>>
observation == <<provider, roster>>
evidence   == <<archive, timeline, replay, baseline>>

harnessVars == <<program, campaignVars, owned, acceptance, gates, evidence, observation>>

HarnessInit ==
    /\ program \in {"campaign", "owned", "acceptance", "cadence", "latency",
                    "archive", "timeline", "replay", "baseline",
                    "provider", "roster"}
    /\ CampaignInit /\ Owned!OwnedInit /\ Accept!AcceptanceInit
    /\ Cadence!CadenceInit /\ Latency!LatencyInit
    /\ Archived!ArchiveInit /\ Measured!TimelineInit /\ Replayed!ReplayInit
    /\ Observed!BaselineInit /\ Provider!ProviderInit /\ Rostered!RosterInit
    /\ program # "campaign" =>
          ~world.rival /\ world.phpa = Nobody /\ notes.receipt = Nobody /\ ~notes.cadence
    /\ program # "owned" => suite = "e2e" /\ node = 0
    /\ program # "acceptance" => prometheus = 1 /\ fixture = 0
    /\ program # "timeline" => offset = 0 /\ truth = <<1>>
    /\ program # "baseline" => ~inflight
    /\ program # "provider" => scenario.targets = {"a"}

HarnessNext ==
    \/ /\ program = "campaign" /\ CampaignNext
       /\ UNCHANGED <<program, owned, acceptance, gates, evidence, observation>>
    \/ /\ program = "owned" /\ Owned!OwnedNext
       /\ UNCHANGED <<program, campaignVars, acceptance, gates, evidence, observation>>
    \/ /\ program = "acceptance" /\ Accept!AcceptanceNext
       /\ UNCHANGED <<program, campaignVars, owned, gates, evidence, observation>>
    \/ /\ program = "cadence" /\ Cadence!CadenceNext
       /\ UNCHANGED <<program, campaignVars, owned, acceptance, latency, evidence, observation>>
    \/ /\ program = "latency" /\ Latency!LatencyNext
       /\ UNCHANGED <<program, campaignVars, owned, acceptance, cadence, evidence, observation>>
    \/ /\ program = "archive" /\ Archived!ArchiveNext
       /\ UNCHANGED <<program, campaignVars, owned, acceptance, gates,
                       timeline, replay, baseline, observation>>
    \/ /\ program = "timeline" /\ Measured!TimelineNext
       /\ UNCHANGED <<program, campaignVars, owned, acceptance, gates,
                       archive, replay, baseline, observation>>
    \/ /\ program = "replay" /\ Replayed!ReplayNext
       /\ UNCHANGED <<program, campaignVars, owned, acceptance, gates,
                       archive, timeline, baseline, observation>>
    \/ /\ program = "baseline" /\ Observed!BaselineNext
       /\ UNCHANGED <<program, campaignVars, owned, acceptance, gates,
                       archive, timeline, replay, observation>>
    \/ /\ program = "provider" /\ Provider!ProviderNext
       /\ UNCHANGED <<program, campaignVars, owned, acceptance, gates, evidence, roster>>
    \/ /\ program = "roster" /\ Rostered!RosterNext
       /\ UNCHANGED <<program, campaignVars, owned, acceptance, gates, evidence, provider>>

\* The steps of the harness, without the fairness.
HarnessSteps == HarnessInit /\ [][HarnessNext]_harnessVars

HarnessSpec ==
    /\ HarnessSteps
    /\ WF_campaignVars(program = "campaign" /\ CampaignStep
          /\ UNCHANGED <<program, owned, acceptance, gates, evidence, observation>>)

\* The variables of the program that runs keep their types.
HarnessTypeOK ==
    /\ program = "campaign"   => CampaignTypeOK
    /\ program = "owned"      => Owned!OwnedTypeOK
    /\ program = "acceptance" => Accept!AcceptanceTypeOK
    /\ program = "cadence"    => Cadence!CadenceTypeOK
    /\ program = "latency"    => Latency!LatencyTypeOK
    /\ program = "archive"    => Archived!ArchiveTypeOK
    /\ program = "timeline"   => Measured!TimelineTypeOK
    /\ program = "replay"     => Replayed!ReplayTypeOK
    /\ program = "baseline"   => Observed!BaselineTypeOK
    /\ program = "provider"   => Provider!ProviderTypeOK
    /\ program = "roster"     => Rostered!RosterTypeOK

\* A campaign comes to an end, whatever hangs, fails or is interrupted (CampaignEnds).
EveryCampaignEnds == program = "campaign" => CampaignEnds

\* What an owned cluster's runner does by name never hits a foreign cluster that its
\* checks could have seen (OwnedCluster).
ForeignClusterSafe == Owned!ForeignClusterSafe

\* What the runner leaves of its own cluster it says in its summary (OwnedCluster).
NothingLeftSilently == Owned!NothingLeftSilently

\* The acceptance leaves the cluster as it found it, or says so (Acceptance).
LeftAsFound == Accept!LeftAsFound

\* No load runs that was not announced on disk, started once and planned for, none outlives
\* the stop of its host, and none counts as a success that was cancelled (CadenceGate and
\* LatencyGate).
LoadIsAccountedFor == Cadence!LaunchIsAccountedFor /\ Latency!LoadIsAccountedFor

\* A report counts no cell of the matrix twice, and a failed attempt neither counts nor
\* blocks it (Archive).
ReportIsSound == Archived!OneRunPerCell /\ Archived!FailedAttemptExcluded

\* A matrix that says it is complete has measured every cell (Archive).
CompleteMeansMeasured == Archived!CompleteMeansMeasured

\* A window that is called valid measures what ran (ReplicaTimeline).
FaithfulMeasurement == Measured!FaithfulMeasurement

\* The controlled and the historical metrics of one run agree (ReplicaTimeline).
ReportsAgree == Measured!ReportsAgree

\* The replay reconstructs the CPU histories of the provider (CycleReplay).
ReplayMatchesProvider == Replayed!ReplayMatchesProvider

\* The gate of the live baseline opens on an unscaled target, and the growth and the costs
\* it reports are those that were, within the gaps between its reads (LiveBaseline).
BaselineIsFaithful == Observed!BaselineIsFaithful

\* The provider's history is of the incarnation asked about, and nothing but a failure that
\* counts as one or a clock set back puts the warm-up off (ObservationHistory).
WarmsUp == Provider!WarmsUp

\* An accepted observation measures one set of containers, freshly (Roster).
MeasuresOneRoster == Rostered!MeasuresOneRoster
=============================================================================
