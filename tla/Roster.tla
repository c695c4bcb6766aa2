------------------------------- MODULE Roster -------------------------------
(***************************************************************************)
(* One observation of the metrics provider (AverageCPUUtilizationPercent-  *)
(* age of internal/metricsprovider/prometheus.go, roster.go, samples.go):  *)
(* two reads of the live roster around two queries at one instant, while   *)
(* the Deployment is scaled or replaced, containers start, restart in      *)
(* place, lose and gain readiness and end, and Prometheus scrapes them and *)
(* keeps what it has of those that are gone.                               *)
(*                                                                         *)
(* A slot is a pod and container name; an instance is a running container  *)
(* with the identity that its series carries (pod UID and container ID).   *)
(***************************************************************************)
EXTENDS Integers, FiniteSets, FiniteSetsExt

CONSTANTS
    Slots,        \* names of pods and containers
    MaxSampleAge, \* of a source sample
    MaxTime,      \* bound: reading of the clock
    MaxInstances, \* bound: containers that ever run
    MaxChanges,   \* bound: changes of the Deployment and its pods
    MaxScrapes    \* bound: scrapes

\* What the constants must be; the code's age is 45 s.
RosterParameters ==
    /\ Slots # {} /\ MaxInstances \in Nat \ {0} /\ MaxTime \in Nat \ {0}
    /\ {MaxSampleAge, MaxChanges, MaxScrapes} \subseteq Nat

VARIABLES
    clock,
    deployment,   \* [uid, generation, deleting]
    pods,         \* of each slot: the instance that runs, whether its pod is ready, its owner
    born,         \* instances so far
    scrapes,      \* scrape times of every instance
    homes,        \* the slot of every instance
    changes, scraped,  \* bounded
    call,         \* the observation under way
    steady,       \* history: instances that have run since the first list of pods
    observed      \* the accepted observation

rosterVars == <<clock, deployment, pods, born, scrapes, homes, changes, scraped, call, steady, observed>>

world == <<deployment, pods, born, homes, changes, steady>>

Empty  == [instance |-> 0, ready |-> FALSE, owner |-> 0]
NoCall == [phase |-> "idle", uid |-> 0, generation |-> 0, roster |-> <<>>, at |-> 0,
           rates |-> <<>>, source |-> 0]
None   == [counted |-> {}, own |-> {}, at |-> 0, accepted |-> 0]

RosterInit ==
    /\ clock = 1
    /\ deployment = [uid |-> 1, generation |-> 1, deleting |-> FALSE]
    /\ LET first == CHOOSE s \in Slots : TRUE
       IN  /\ pods = [s \in Slots |->
                  IF s = first THEN [instance |-> 1, ready |-> TRUE, owner |-> 1] ELSE Empty]
           /\ homes = [i \in 1..MaxInstances |-> first]
    /\ born = 1 /\ scrapes = [i \in 1..MaxInstances |-> IF i = 1 THEN {0, 1} ELSE {}]
    /\ changes = 0 /\ scraped = 0 /\ call = NoCall /\ steady = {} /\ observed = None
-----------------------------------------------------------------------------
\* The world, until an observation has been accepted.
Change ==
    /\ changes < MaxChanges /\ changes' = changes + 1
    /\ observed = None
    /\ steady' = steady \cap {pods'[s].instance : s \in Slots}
    /\ UNCHANGED <<clock, scrapes, scraped, call, observed>>

Edit ==
    /\ deployment' = [deployment EXCEPT !.generation = @ + 1]
    /\ UNCHANGED <<pods, born, homes>> /\ Change

\* The old pods are somebody else's from now on, until they end.
Replace ==
    /\ deployment' = [uid |-> deployment.uid + 1, generation |-> 1, deleting |-> FALSE]
    /\ UNCHANGED <<pods, born, homes>> /\ Change

Delete ==
    /\ ~deployment.deleting /\ deployment' = [deployment EXCEPT !.deleting = TRUE]
    /\ UNCHANGED <<pods, born, homes>> /\ Change

\* A new pod, or a container that is restarted in its pod.
Start(s) ==
    /\ born < MaxInstances /\ born' = born + 1
    /\ pods' = [pods EXCEPT ![s] =
          [instance |-> born', ready |-> FALSE,
           owner |-> IF @ = Empty THEN deployment.uid ELSE @.owner]]
    /\ homes' = [homes EXCEPT ![born'] = s]
    /\ UNCHANGED deployment /\ Change

Readiness(s) ==
    /\ pods[s] # Empty /\ pods' = [pods EXCEPT ![s].ready = ~@]
    /\ UNCHANGED <<deployment, born, homes>> /\ Change

\* A pod that is being deleted, or has succeeded or failed, counts as gone.
End(s) ==
    /\ pods[s] # Empty /\ pods' = [pods EXCEPT ![s] = Empty]
    /\ UNCHANGED <<deployment, born, homes>> /\ Change

\* A pod that ends is scraped for a while.
Scrape(i) ==
    /\ observed = None /\ scraped < MaxScrapes /\ scraped' = scraped + 1
    /\ i <= born /\ clock \notin scrapes[i]
    /\ scrapes' = [scrapes EXCEPT ![i] = @ \cup {clock}]
    /\ UNCHANGED <<clock, world, call, observed>>

Tick ==
    /\ observed = None /\ clock < MaxTime /\ clock' = clock + 1
    /\ UNCHANGED <<world, scrapes, scraped, call, observed>>
-----------------------------------------------------------------------------
\* The observation.  Every read may fail.
Step(next) ==
    /\ call' = next
    /\ UNCHANGED <<clock, deployment, pods, born, homes, scrapes, changes, scraped>>

Fail ==
    /\ call # NoCall /\ Step(NoCall) /\ steady' = {} /\ UNCHANGED observed

Live(uid) == deployment.uid = uid /\ ~deployment.deleting

\* readRoster(): the live Deployment first, then its pods and their owners.
Begin ==
    /\ call = NoCall /\ observed = None
    /\ \E uid \in 1..deployment.uid :
          /\ Live(uid)
          /\ Step([NoCall EXCEPT !.phase = "before", !.uid = uid,
                                 !.generation = deployment.generation])
    /\ UNCHANGED <<steady, observed>>

\* The containers of the pods that are the Deployment's own; all must be ready.
Owned(uid) == {s \in Slots : pods[s] # Empty /\ pods[s].owner = uid}
Complete(uid) == Owned(uid) # {} /\ \A s \in Owned(uid) : pods[s].ready
Running(uid) == [s \in Owned(uid) |-> pods[s].instance]

ListBefore ==
    /\ call.phase = "before" /\ Complete(call.uid)
    /\ Step([call EXCEPT !.phase = "listed", !.roster = Running(call.uid)])
    /\ steady' = {pods[s].instance : s \in Owned(call.uid)}
    /\ UNCHANGED observed

\* evaluatedAt, then rate(...[1m]) and timestamp(...) at that instant.
Visible(i) == {t \in scrapes[i] : t <= call.at}

Evaluate ==
    /\ call.phase = "listed" /\ Step([call EXCEPT !.phase = "evaluated", !.at = clock])
    /\ UNCHANGED <<steady, observed>>

\* A slip: a series is found by the names of its pod and container.
MatchesName(s, i) == homes[i] = s

\* matchesInstance(): and by the identity of the instance in the roster.
Matches(s, i) == homes[i] = s /\ i = call.roster[s]

\* uniqueSample(): exactly one series for each container.
Unique(series) ==
    \A s \in DOMAIN call.roster : Cardinality({i \in series : Matches(s, i)}) = 1
Sample(series) ==
    [s \in DOMAIN call.roster |-> CHOOSE i \in series : Matches(s, i)]

QueryRate ==
    /\ call.phase = "evaluated"
    /\ LET series == {i \in 1..born : Cardinality(Visible(i)) >= 2}
       IN  /\ Unique(series)
           /\ Step([call EXCEPT !.phase = "rated", !.rates = Sample(series)])
    /\ UNCHANGED <<steady, observed>>

\* utilization(): the two answers agree, and the oldest source is fresh.
QueryTimestamp ==
    /\ call.phase = "rated"
    /\ LET series  == {i \in 1..born : Visible(i) # {}}
           sampled == Sample(series)
           oldest  == Min({Max(Visible(sampled[s])) : s \in DOMAIN call.roster})
       IN  /\ Unique(series) /\ sampled = call.rates
           /\ oldest >= call.at - MaxSampleAge
           /\ Step([call EXCEPT !.phase = "sampled", !.source = oldest])
    /\ UNCHANGED <<steady, observed>>

GetAfter ==
    /\ call.phase = "sampled" /\ Live(call.uid) /\ deployment.generation = call.generation
    /\ Step([call EXCEPT !.phase = "after"])
    /\ UNCHANGED <<steady, observed>>

\* A slip: the second roster has the same names.
SameNames(roster) == DOMAIN roster = DOMAIN call.roster

\* reflect.DeepEqual of the two rosters.
SameRoster(roster) == roster = call.roster

\* The second list, and the age once more.
ListAfter ==
    /\ call.phase = "after" /\ Complete(call.uid)
    /\ SameRoster(Running(call.uid))
    /\ clock - call.source <= MaxSampleAge
    /\ Step(NoCall) /\ steady' = {}
    /\ observed' = [counted |-> {call.rates[s] : s \in DOMAIN call.roster},
                    at |-> call.at, accepted |-> clock,
                    own |-> {i \in steady : \E s \in Slots : pods[s].instance = i /\ pods[s].owner = call.uid}]

RosterNext ==
    \/ Edit \/ Replace \/ Delete \/ Tick
    \/ \E s \in Slots : Start(s) \/ Readiness(s) \/ End(s)
    \/ \E i \in 1..MaxInstances : Scrape(i)
    \/ Fail \/ Begin \/ ListBefore \/ Evaluate \/ QueryRate \/ QueryTimestamp \/ GetAfter \/ ListAfter

RosterSpec == RosterInit /\ [][RosterNext]_rosterVars
-----------------------------------------------------------------------------
RosterTypeOK ==
    /\ clock \in 1..MaxTime /\ born \in 1..MaxInstances
    /\ changes \in 0..MaxChanges /\ scraped \in 0..MaxScrapes
    /\ deployment \in [uid : 1..MaxChanges + 1, generation : 1..MaxChanges + 1, deleting : BOOLEAN]
    /\ \A s \in Slots : pods[s] = Empty \/ pods[s].instance \in 1..born
    /\ \A i \in 1..MaxInstances : scrapes[i] \subseteq 0..clock
    /\ call # NoCall => call.uid \in 1..deployment.uid
    /\ steady \subseteq 1..born /\ observed.counted \subseteq 1..born

\* An accepted observation measures one set of containers: each whose usage it counts ran,
\* as the Deployment's own, from before the queries until after them, none that did is left
\* out, and each was sampled no later than the instant of the query and no longer ago than
\* MaxSampleAge when the observation is accepted, however slow the answers were.
MeasuresOneRoster ==
    /\ observed.counted = observed.own
    /\ \A i \in observed.counted :
          \E t \in scrapes[i] : observed.accepted - MaxSampleAge <= t /\ t <= observed.at
=============================================================================
