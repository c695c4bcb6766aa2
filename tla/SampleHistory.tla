---------------------------- MODULE SampleHistory ----------------------------
(***************************************************************************)
(* The samples that the metrics provider keeps of one target and hands to  *)
(* the predictor (record() of internal/metricsprovider/prometheus.go), as  *)
(* operators on sequences of records with a time "at".                     *)
(***************************************************************************)
EXTENDS Integers, Sequences

CONSTANT observationSpacing  \* least time between two anchors

\* What is in the window before an instant, in one pass.
InWindow(sample, span, now) == now - span <= sample.at /\ sample.at < now

Retained(samples, span, now) ==
    LET retained[i \in 0..Len(samples)] ==
            IF i = 0 THEN <<>>
            ELSE IF InWindow(samples[i], span, now) THEN Append(retained[i - 1], samples[i])
            ELSE retained[i - 1]
    IN  retained[Len(samples)]

\* A slip: a live sample that is too early to be an anchor takes the place of the last.
RecordNewest(samples, span, live) ==
    LET retained == Retained(samples, span, live.at)
        last     == Len(retained)
        returned == IF retained = <<>> \/ live.at - retained[last].at >= observationSpacing
                    THEN Append(retained, live) ELSE Append(SubSeq(retained, 1, last - 1), live)
    IN  [kept |-> returned, returned |-> returned]

\* record(): what is in the window before the observation is retained; a live sample
\* becomes an anchor if the last anchor is old enough, and otherwise only takes its place
\* in what is returned.
Record(samples, span, live) ==
    LET retained == Retained(samples, span, live.at)
        last     == Len(retained)
    IN  IF retained = <<>> \/ live.at - retained[last].at >= observationSpacing
        THEN [kept |-> Append(retained, live), returned |-> Append(retained, live)]
        ELSE [kept |-> retained, returned |-> Append(SubSeq(retained, 1, last - 1), live)]
=============================================================================
