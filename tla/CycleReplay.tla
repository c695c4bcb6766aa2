----------------------------- MODULE CycleReplay -----------------------------
(***************************************************************************)
(* The offline replay of a controller's decisions                          *)
(* (hack/analyze/decision_replay.py on the cycles that latency.py groups): *)
(* it reconstructs, from one log line per observation, the CPU history     *)
(* that the provider (internal/metricsprovider/prometheus.go) kept in      *)
(* memory and handed to the predictor.  Two programs in two languages keep *)
(* the same anchors; the log shows the newest value only when the cycle    *)
(* came to a decision.                                                     *)
(*                                                                         *)
(* The replay is judged after every cycle, for the log may end at any.     *)
(***************************************************************************)
EXTENDS SampleHistory

CONSTANTS
    window,              \* age of the oldest sample
    MaxTime,             \* bound: time of the last observation
    MaxLost              \* bound: cycles missing at the start of the log

VARIABLES
    at,        \* time of the newest observation, 0 before the first
    kept,      \* the provider's samples: [at, value]
    returned,  \* what it returned for the newest observation, <<>> for an error
    decided,   \* the controller has come to a decision
    lost,      \* cycles before the first of the log
    begun,     \* the log has begun
    anchors,   \* the replay's samples; Unknown where the log had no value
    series,    \* its reconstruction of what was returned
    seen_decision,  \* first_decision has been dealt with
    accepted   \* no error raised yet

replayVars == <<at, kept, returned, decided, lost, begun, anchors, series, seen_decision, accepted>>

Unknown == 0
Values == {1, 2}
Sample == [at : 1..MaxTime, value : Values \cup {Unknown}]

ReplayInit ==
    /\ at = 0 /\ kept = <<>> /\ returned = <<>> /\ decided = FALSE
    /\ lost = 0 /\ begun = FALSE /\ anchors = <<>> /\ series = <<>> /\ seen_decision = FALSE
    /\ accepted = TRUE
-----------------------------------------------------------------------------
\* A slip: the live tail is stored in place of the last anchor.
HistorySeriesStoringTail(points, live, count) ==
    LET inside == Retained(points, window, live.at)
        last     == Len(inside)
        anchored == inside = <<>> \/ live.at - inside[last].at >= observationSpacing
        whole    == Append(IF anchored THEN inside ELSE SubSeq(inside, 1, last - 1), live)
    IN  [anchors |-> whole, series |-> whole, agrees |-> Len(whole) = count]

\* history_series(): the same from what the log tells, and a count that must agree.
HistorySeries(points, live, count) ==
    LET inside == Retained(points, window, live.at)
        last     == Len(inside)
        anchored == inside = <<>> \/ live.at - inside[last].at >= observationSpacing
        whole    == Append(IF anchored THEN inside ELSE SubSeq(inside, 1, last - 1), live)
    IN  [anchors |-> IF anchored THEN whole ELSE inside,
         series  |-> whole,
         agrees  |-> Len(whole) = count]

\* The predictor needs two samples.
Decides(history) == Len(history) >= 2

\* The log may begin late.
Lose   == ~begun /\ lost < MaxLost /\ lost' = lost + 1 /\ UNCHANGED begun
Logged == begun' = TRUE /\ UNCHANGED lost

Observe ==
    /\ at < MaxTime /\ at' \in at + 1 .. MaxTime
    /\ \E value \in Values :
          LET answer == Record(kept, window, [at |-> at', value |-> value])
              shown  == IF Decides(answer.returned) THEN value ELSE Unknown
              replay == HistorySeries(anchors, [at |-> at', value |-> shown], Len(answer.returned))
          IN  /\ kept' = answer.kept /\ returned' = answer.returned
              /\ decided' = (decided \/ Decides(returned'))
              /\ \/ Lose /\ UNCHANGED <<anchors, series, seen_decision, accepted>>
                 \/ /\ Logged
                    /\ anchors' = replay.anchors /\ series' = replay.series
                    /\ seen_decision' = (seen_decision \/ Decides(returned'))
                    /\ accepted' = (/\ accepted /\ replay.agrees
                                    \* the first decision has the whole policy history
                                    /\ Decides(returned') /\ ~seen_decision => ~decided)

\* A rejected observation: some errors keep the history, the others discard it.
PreservingErrors == {"incomplete data", "no data", "target changed"}
Errors == PreservingErrors \cup {"stale source data", "invalid data", "query"}

Reject ==
    /\ at < MaxTime /\ at' \in at + 1 .. MaxTime
    /\ \E error \in Errors :
          /\ kept' = IF error \in PreservingErrors THEN kept ELSE <<>>
          /\ returned' = <<>>
          /\ \/ Lose /\ UNCHANGED <<anchors, series>>
             \/ /\ Logged
                /\ anchors' = IF error \in PreservingErrors THEN anchors ELSE <<>>
                /\ series' = <<>>
    /\ UNCHANGED <<decided, seen_decision, accepted>>

ReplayNext == Observe \/ Reject

ReplaySpec == ReplayInit /\ [][ReplayNext]_replayVars
-----------------------------------------------------------------------------
ReplayTypeOK ==
    /\ at \in 0..MaxTime /\ lost \in 0..MaxLost
    /\ kept \in Seq(Sample) /\ returned \in Seq(Sample)
    /\ anchors \in Seq(Sample) /\ series \in Seq(Sample)
    /\ decided \in BOOLEAN /\ begun \in BOOLEAN
    /\ seen_decision \in BOOLEAN /\ accepted \in BOOLEAN

Complete == \A i \in DOMAIN series : series[i].value # Unknown

\* Of a whole log the replay reconstructs every history that the provider returned, with
\* its times and every value the log told; of a log that began late it does so, or refuses
\* it, wherever it claims to know every value ("computed-history").
ReplayMatchesProvider ==
    /\ lost = 0 =>
          /\ accepted /\ Len(series) = Len(returned)
          /\ \A i \in DOMAIN series :
                /\ series[i].at = returned[i].at
                /\ series[i].value \in {Unknown, returned[i].value}
    /\ accepted /\ Complete /\ series # <<>> => series = returned
=============================================================================
