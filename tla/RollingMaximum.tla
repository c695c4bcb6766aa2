--------------------------- MODULE RollingMaximum ---------------------------
(***************************************************************************)
(* What scale-down stabilisation promises, with no buckets and no pruning  *)
(* (docs/adr/0002-cold-start-scale-down-protection.md): it remembers every *)
(* raw recommendation made for the present identity and window, holds a    *)
(* reduction at a rolling maximum of them, and protects the live request   *)
(* for one window after it had to start afresh.  The maximum used may be   *)
(* late in forgetting by less than Slack(window), never early.             *)
(***************************************************************************)
EXTENDS Decision

CONSTANTS
    Instants, Identities, Windows, Replicas, Bounds,
    Slack(_)      \* the longest extra retention allowed for a window

VARIABLES
    epoch,        \* what the present recommendations are for, or NoEpoch
    recommended,  \* raw recommendations of this epoch: [at, desired]
    guard,        \* live request and time at the start of the epoch
    outcome       \* the last decision

vars == <<epoch, recommended, guard, outcome>>

NoEpoch   == [exists |-> FALSE]
NoGuard   == [exists |-> FALSE]
NoOutcome == [decided |-> FALSE]

Init ==
    /\ epoch = NoEpoch
    /\ recommended = {}
    /\ guard = NoGuard
    /\ outcome = NoOutcome

Protected(g, window, now) == window > 0 /\ now <= g.at + window

\* The peaks a decision may use: at least every recommendation still in the
\* window, and itself one that left the window less than Slack ago.
Peaks(recs, window, now) ==
    {p.desired : p \in {r \in recs :
        /\ r.at > now - window - Slack(window)
        /\ \A s \in recs : s.at >= now - window => s.desired <= r.desired}}

Decide(now, identity, window, desired, requested, bounds) ==
    LET same == /\ epoch.exists
                /\ epoch.identity = identity
                /\ epoch.window = window
                /\ epoch.at <= now
    IN  /\ epoch' = [exists |-> TRUE, identity |-> identity, window |-> window, at |-> now]
        /\ recommended' = (IF same THEN recommended ELSE {})
                              \cup {[at |-> now, desired |-> desired]}
        /\ guard' = IF same THEN guard
                    ELSE [exists |-> TRUE, at |-> now, requested |-> requested]
        /\ \E peak \in Peaks(recommended', window, now) :
              LET kept == IF Protected(guard', window, now)
                          THEN Larger(peak, guard'.requested) ELSE peak
                  held == IF window > 0 /\ desired < requested
                          THEN Smaller(requested, kept) ELSE desired
              IN  outcome' = [decided |-> TRUE, desired |-> desired, requested |-> requested,
                              bounds |-> bounds,
                              final |-> Clamp(held, bounds[1], bounds[2])]

\* The process dies, or the object is deleted: everything is forgotten.
Forget ==
    /\ epoch' = NoEpoch
    /\ recommended' = {}
    /\ guard' = NoGuard
    /\ outcome' = NoOutcome

Next ==
    \/ \E now \in Instants, identity \in Identities, window \in Windows,
          desired, requested \in Replicas, bounds \in Bounds :
            Decide(now, identity, window, desired, requested, bounds)
    \/ Forget

Spec == Init /\ [][Next]_vars
=============================================================================
