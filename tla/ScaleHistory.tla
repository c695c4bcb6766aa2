---------------------------- MODULE ScaleHistory ----------------------------
(***************************************************************************)
(* internal/controller/scale_history.go as operators on values: the        *)
(* bucketed rolling maximum kept for one PredictiveHPA key and the         *)
(* stabilisation decision made with it.  stabilizeRecommendation runs      *)
(* under the reconciler's mutex, so it is one atomic function.             *)
(*                                                                         *)
(* A Go time.Time carries a wall reading and, when it comes from           *)
(* time.Now(), a monotonic one.  Before, After, Add and Sub use the        *)
(* monotonic reading when both operands have it; Truncate always uses the  *)
(* wall reading.  Monotonic says which readings the clock hands out: TRUE  *)
(* for clock.RealClock, FALSE for times without one (decoded recordings).  *)
(***************************************************************************)
EXTENDS Decision, Sequences

CONSTANTS
    Divisor,    \* 128 in the code: buckets per window
    MinWidth,   \* time.Second in the code: the narrowest bucket
    Monotonic   \* do the clock's readings carry a monotonic part?

ASSUME DivisorAssumption   == Divisor \in Nat \ {0}
ASSUME MinWidthAssumption  == MinWidth \in Nat \ {0}
ASSUME MonotonicAssumption == Monotonic \in BOOLEAN

Times == [mono : Nat, wall : Nat]

\* What time.Time comparisons look at.
Instant(t) == IF Monotonic THEN t.mono ELSE t.wall

Before(s, t) == Instant(s) < Instant(t)

Width(window) == Larger(MinWidth, CeilDiv(window, Divisor))

\* now.Truncate(width): compared for equality only, so the quotient will do.
Bucket(t, window) == t.wall \div Width(window)

Entry(at, desired) == [at |-> at, desired |-> desired]

\* A history the key does not have (a missing map entry).
NoHistory == [exists |-> FALSE]

\* &scaleHistory{...}: built for one identity, window and live request.
NewHistory(identity, window, now, requested) ==
    [exists |-> TRUE, identity |-> identity, window |-> window, entries |-> <<>>,
     lastRecordedAt |-> now, protectedAt |-> now, protectedReplicas |-> requested]

\* A slip: the bucket keeps its newest recommendation, not its largest.
RecordNewest(entries, window, now, desired) ==
    LET n == Len(entries)
    IN  IF n > 0 /\ Bucket(entries[n].at, window) = Bucket(now, window)
        THEN [entries EXCEPT ![n] = Entry(now, desired)]
        ELSE Append(entries, Entry(now, desired))

\* A slip: the merged entry keeps the time at which its bucket was opened.
RecordAtOpening(entries, window, now, desired) ==
    LET n == Len(entries)
    IN  IF n > 0 /\ Bucket(entries[n].at, window) = Bucket(now, window)
        THEN [entries EXCEPT ![n].desired = Larger(@, desired)]
        ELSE Append(entries, Entry(now, desired))

\* A slip: every recommendation opens an entry of its own.
RecordAlways(entries, window, now, desired) == Append(entries, Entry(now, desired))

\* record: merge into the last bucket, keeping the maximum and the newest
\* timestamp, or append.
record(entries, window, now, desired) ==
    LET n == Len(entries)
    IN  IF n > 0 /\ Bucket(entries[n].at, window) = Bucket(now, window)
        THEN [entries EXCEPT ![n] = Entry(now, Larger(entries[n].desired, desired))]
        ELSE Append(entries, Entry(now, desired))

\* A slip: an entry expires at the edge of the window, not after it.
ExpiredAtEdge(entry, window, now) == Instant(entry.at) <= Instant(now) - window

Expired(entry, window, now) == Instant(entry.at) < Instant(now) - window

\* A slip: nothing is pruned.
KeepAll(entries, window, now) == entries

\* maxInWindow's slice: the entries from the first one that has not expired.
prune(entries, window, now) ==
    LET live == {i \in 1..Len(entries) : ~Expired(entries[i], window, now)}
    IN  IF live = {} THEN <<>>
        ELSE SubSeq(entries, CHOOSE i \in live : \A j \in live : i <= j, Len(entries))

\* maxInWindow's result: 0 when nothing is left.
PeakOf(entries) ==
    LET values == {entries[i].desired : i \in 1..Len(entries)}
    IN  CHOOSE m \in values \cup {0} : \A v \in values : v <= m

\* A slip: a new Deployment or PredictiveHPA inherits the old one's history.
InvalidatedByWindow(hist, identity, window, now) ==
    ~hist.exists \/ hist.window # window \/ Before(now, hist.lastRecordedAt)

\* A slip: a history from the future is used as it is.
InvalidatedByOwner(hist, identity, window, now) ==
    ~hist.exists \/ hist.identity # identity \/ hist.window # window

\* Is the stored history unusable for this identity, window and time?
Invalidated(hist, identity, window, now) ==
    \/ ~hist.exists
    \/ hist.identity # identity      \* PHPA UID, Deployment UID and name
    \/ hist.window # window
    \/ Before(now, hist.lastRecordedAt)

\* The history after one recommendation has been recorded and pruned.
Remember(hist, identity, window, now, desired, requested) ==
    LET base    == IF Invalidated(hist, identity, window, now)
                   THEN NewHistory(identity, window, now, requested)
                   ELSE hist
        entries == IF window = 0 THEN <<>> ELSE base.entries
    IN  [base EXCEPT !.lastRecordedAt = now,
                     !.entries = prune(record(entries, window, now, desired), window, now)]

\* A slip: the protection ends one instant early.
ColdStartUntilEdge(hist) ==
    /\ hist.window > 0
    /\ Instant(hist.lastRecordedAt) < Instant(hist.protectedAt) + hist.window

\* A slip: the protection never ends.
AlwaysColdStart(hist) == hist.window > 0

coldStart(hist) ==
    /\ hist.window > 0
    /\ Instant(hist.lastRecordedAt) <= Instant(hist.protectedAt) + hist.window

\* A slip: the bounds are not applied after the history.
Unclamped(hist, desired, requested, bounds) ==
    LET peak == Larger(PeakOf(hist.entries),
                       IF coldStart(hist) THEN hist.protectedReplicas ELSE 0)
    IN  IF hist.window > 0 /\ desired < requested THEN Smaller(requested, peak) ELSE desired

\* A slip: a peak above the live request is requested again.
PeakInitiates(hist, desired, requested, bounds) ==
    LET peak == Larger(PeakOf(hist.entries),
                       IF coldStart(hist) THEN hist.protectedReplicas ELSE 0)
    IN  Clamp(IF hist.window > 0 THEN Larger(desired, peak) ELSE desired,
              bounds[1], bounds[2])

\* The replica count the stabilised policy settles on, given the history that
\* Remember returned.  History retains a request; it never initiates one.
finalDesired(hist, desired, requested, bounds) ==
    LET peak == Larger(PeakOf(hist.entries),
                       IF coldStart(hist) THEN hist.protectedReplicas ELSE 0)
        held == IF hist.window > 0 /\ desired < requested
                THEN Smaller(requested, peak) ELSE desired
    IN  Clamp(held, bounds[1], bounds[2])
=============================================================================
