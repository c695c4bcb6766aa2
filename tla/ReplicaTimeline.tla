--------------------------- MODULE ReplicaTimeline ---------------------------
(***************************************************************************)
(* What a benchmark measures of the replica count (hack/analyze/extract.py *)
(* over the series that hack/run_benchmark.sh collects): the controlled    *)
(* measurement of a fixed window, and the historical scaling and resource  *)
(* metrics of the whole series, against the replicas that really ran.  The *)
(* two date the end of the load by clocks of their own.                    *)
(*                                                                         *)
(* Time passes in units shorter than the scrape interval.  Prometheus is   *)
(* external: it scrapes at a fixed offset from the grid that query_range   *)
(* asks for and answers with the newest scrape; a target that is down      *)
(* leaves a hole in the grid, while a Prometheus that was down itself does *)
(* not, because the older scrape is still within its lookback.             *)
(***************************************************************************)
EXTENDS Integers, Sequences, FiniteSets, FiniteSetsExt

CONSTANTS
    Gap,          \* the 15 seconds: scrape interval, grid step and longest gap
    Onset,        \* the load begins, on the grid
    OfferedEnd,   \* the offered load ends, by the runner's time stamp and the schedule
    TailEnd,      \* the observation ends
    MaxReplicas,  \* bound: replicas
    MaxMoves,     \* bound: changes of the replica count
    MaxHoles,     \* bound: scrapes that fail
    MaxSkew       \* bound: how far the two ends of the load are apart

MIN_REPLICAS == 1

VARIABLES
    offset,   \* how long before its grid point a scrape happens
    truth,    \* the replicas of every unit of time so far
    samples,  \* the series: [at, value], in the order of time
    moves, holes,
    outage,   \* history: Prometheus was down and the grid does not show it
    runner,   \* how the runner and its timestamps ended: "running", "early" or "ended"
    end_time, \* collection ends, -1 before
    k6_stop   \* the load ends for the historical metrics, -1 before

timelineVars == <<offset, truth, samples, moves, holes, outage, runner, end_time, k6_stop>>

Now == Len(truth) - 1
At(t) == truth[t + 1]

\* The samples are in the order of time: as many are not later than this.
Until(time) == Cardinality({i \in DOMAIN samples : samples[i].at <= time})

TimelineInit ==
    /\ offset \in 0 .. Gap - 1
    /\ \E v \in 0..MaxReplicas : truth = <<v>>
    /\ samples = IF offset = 0 THEN <<[at |-> 0, value |-> At(0)]>> ELSE <<>>
    /\ moves = 0 /\ holes = 0 /\ outage = FALSE
    /\ runner = "running" /\ end_time = -1 /\ k6_stop = -1

\* A unit of time with its replicas, and a scrape if one is due.
Pass ==
    /\ runner = "running" /\ Now < TailEnd + 1
    /\ \E v \in 0..MaxReplicas :
          /\ truth' = Append(truth, v)
          /\ moves' = IF v = At(Now) THEN moves ELSE moves + 1
          /\ moves' <= MaxMoves
          /\ LET grid == Now + 1 + offset
                 Show(value) == samples' = Append(samples, [at |-> grid, value |-> value])
             IN  \/ grid % Gap # 0 /\ UNCHANGED <<samples, holes, outage>>
                 \/ grid % Gap = 0 /\ Show(v) /\ UNCHANGED <<holes, outage>>
                 \/ /\ grid % Gap = 0 /\ holes < MaxHoles /\ holes' = holes + 1
                    /\ \/ UNCHANGED <<samples, outage>>
                       \/ /\ samples # <<>> /\ samples[Len(samples)].at = grid - Gap
                          /\ Show(samples[Len(samples)].value) /\ outage' = TRUE
    /\ UNCHANGED <<offset, runner, end_time, k6_stop>>

\* extract() dates the load by the earliest Point of k6.json, which k6 writes after its Pod
\* has noted the runner's time stamp; or, when the file is gone, by the start of the whole
\* run and a constant, which may be on either side.
PointStops    == OfferedEnd .. OfferedEnd + MaxSkew
FallbackStops == OfferedEnd - MaxSkew .. OfferedEnd + MaxSkew

\* The run ends, on time or not, and its series is cut at that time.
Collect ==
    /\ runner = "running" /\ Now >= TailEnd - 1
    /\ runner' \in {"early", "ended"} /\ end_time' = Now
    /\ samples' = SubSeq(samples, 1, Until(Now))
    /\ k6_stop' \in PointStops \/ k6_stop' \in FallbackStops
    /\ UNCHANGED <<offset, truth, moves, holes, outage>>

TimelineNext == Pass \/ Collect

TimelineSpec == TimelineInit /\ [][TimelineNext]_timelineVars
-----------------------------------------------------------------------------
\* A segment of a series: the value of its i-th sample holds until the next, or the end.
Next(series, i, end) == IF i < Len(series) THEN series[i + 1].at ELSE end
Length(series, i, from, end) ==
    Max({0, Min({Next(series, i, end), end}) - Max({series[i].at, from})})

\* The changes of a series: indices of the samples that differ from the one before.
Changes(series) == {i \in 2..Len(series) : series[i].value # series[i - 1].value}
Ups(series)   == {i \in Changes(series) : series[i].value > series[i - 1].value}
Downs(series) == Changes(series) \ Ups(series)

\* compute_controlled_measurement(): the last sample up to the onset and those inside.
Baseline == {i \in DOMAIN samples : samples[i].at <= Onset}
Timeline == SubSeq(samples, Max(Baseline), Until(TailEnd))

\* A slip: the last sample may be older than a gap.
WindowValidWithoutTail ==
    /\ runner = "ended" /\ end_time >= TailEnd
    /\ Baseline # {} /\ Onset - samples[Max(Baseline)].at <= Gap
    /\ \A i \in 2..Len(Timeline) : Timeline[i].at - Timeline[i - 1].at <= Gap
    /\ \A i \in DOMAIN Timeline : Timeline[i].value >= MIN_REPLICAS

\* The runner ended on time and no observation gap is too long.
WindowValid ==
    /\ runner = "ended" /\ end_time >= TailEnd
    /\ Baseline # {} /\ Onset - samples[Max(Baseline)].at <= Gap
    /\ TailEnd - Timeline[Len(Timeline)].at <= Gap
    /\ \A i \in 2..Len(Timeline) : Timeline[i].at - Timeline[i - 1].at <= Gap
    /\ \A i \in DOMAIN Timeline : Timeline[i].value >= MIN_REPLICAS

PodSeconds(from) ==
    SumFunction([i \in DOMAIN Timeline |->
                    Timeline[i].value * Length(Timeline, i, from, TailEnd)])

\* The time of a series above the minimum.
Above(series, from, end) ==
    SumFunction([i \in DOMAIN series |->
                    IF series[i].value > MIN_REPLICAS THEN Length(series, i, from, end) ELSE 0])

AboveMinSeconds == Above(Timeline, OfferedEnd, TailEnd)

PeakReplicas == Max({Timeline[i].value : i \in DOMAIN Timeline})

Completed == Timeline[Len(Timeline)].value = MIN_REPLICAS

\* Of a window that completed: 0 if the count never left its minimum after the load.
FullScaledown ==
    LET returns == {i \in Downs(Timeline) : Timeline[i].at >= OfferedEnd
                                            /\ Timeline[i].value = MIN_REPLICAS}
    IN  IF returns = {} THEN 0 ELSE Timeline[Max(returns)].at - OfferedEnd

\* compute_scaling_metrics() and compute_resource_metrics(): the whole series, no check.
SteadyState == Max({samples[i].value : i \in Changes(samples)})

LegacyTerminal == {i \in Downs(samples) : samples[i].value = MIN_REPLICAS}
LegacyCompleted ==
    IF Downs(samples) # {}
    THEN samples[Len(samples)].value <= MIN_REPLICAS /\ LegacyTerminal # {}
    ELSE Ups(samples) = {} \/ SteadyState <= MIN_REPLICAS
LegacyFullScaledown == samples[Max(LegacyTerminal)].at - k6_stop

\* A slip: the waste begins with the load.
WasteSinceOnset == Above(samples, Onset, end_time)

WasteWindow == Above(samples, k6_stop, end_time)
-----------------------------------------------------------------------------
TimelineTypeOK ==
    /\ offset \in 0 .. Gap - 1 /\ truth \in Seq(0..MaxReplicas)
    /\ \A i \in DOMAIN samples : samples[i].at % Gap = 0 /\ samples[i].value \in 0..MaxReplicas
    /\ moves \in 0..MaxMoves /\ holes \in 0..MaxHoles /\ outage \in BOOLEAN
    /\ runner \in {"running", "early", "ended"} /\ end_time \in -1 .. TailEnd + 1
    /\ k6_stop \in FallbackStops \cup {-1}

\* The historical metrics end with a return to the minimum within the window.
LastReturnInside ==
    /\ LegacyCompleted /\ LegacyTerminal # {}
    /\ Max(LegacyTerminal) = Max(Changes(samples))
    /\ samples[Max(LegacyTerminal)].at <= TailEnd

\* What really ran: Pod-seconds, how much the count moved, how late a move can be seen.
TruePodSeconds(from) == SumFunction([t \in from .. TailEnd - 1 |-> At(t)])
Abs(x) == IF x < 0 THEN -x ELSE x
Variation == SumFunction([t \in 1 .. TailEnd - 1 |-> Abs(At(t) - At(t - 1))])
Delay == Gap - 1 + offset

\* A level held for a whole gap, and the last return to the minimum.
Held(level, from, to) == \A t \in from .. to : At(t) = level
Settled(r) ==
    /\ At(r - 1) > MIN_REPLICAS /\ Held(At(r - 1), r - Gap, r - 1)
    /\ Held(MIN_REPLICAS, r, TailEnd)

\* A window that is called valid measures what ran: no move of the count is seen later than
\* one scrape after it, so that the costs are off by no more than the moves in that time,
\* the peak is one that ran and misses none that lasted, and the return to the minimum is
\* timed as exactly, if there is a scrape between the return and the end of the window: a
\* return seen only at the end itself is one that the window may not show.
\* Only an outage of Prometheus itself goes through unseen.
FaithfulMeasurement ==
    WindowValid /\ ~outage =>
        /\ \A from \in {Onset, OfferedEnd} :
              Abs(PodSeconds(from) - TruePodSeconds(from)) <= Delay * Variation
        /\ \E t \in 0..TailEnd : At(t) = PeakReplicas
        /\ \A t \in Onset .. TailEnd - Gap - 1 :
              Held(At(t), t - offset, t + Gap - 1) => At(t) <= PeakReplicas
        /\ \A r \in Gap .. TailEnd - Delay - 1 :
              r >= Onset /\ Settled(r) =>
                  /\ Completed
                  /\ FullScaledown \in Max({0, r - OfferedEnd}) .. Max({0, r + Delay - OfferedEnd})

\* The two reports of one run differ by their clocks and by nothing else: of a valid window
\* the historical waste is that of the window and what came after it, but for the time
\* between the two ends of the load, which it misses if its own is later and may add if it
\* is earlier; and a scale-down to which nothing was added later is one instant, timed from
\* either end.
ReportsAgree ==
    WindowValid =>
        LET skew == k6_stop - OfferedEnd
        IN  /\ WasteWindow - AboveMinSeconds
                   \in -Max({0, skew}) .. end_time - TailEnd + Max({0, -skew})
            /\ LastReturnInside => Completed /\ FullScaledown = Max({0, LegacyFullScaledown + skew})
=============================================================================
