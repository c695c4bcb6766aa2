---------------------------- MODULE RosterProofs ----------------------------
(***************************************************************************)
(* An observation measures one roster, freshly, for any number of          *)
(* containers, any changes of the Deployment between the reads, any        *)
(* scrapes and any age limit.                                              *)
(***************************************************************************)
EXTENDS Roster, Extremes, FiniteSetTheorems, TLAPS

Listed  == {"listed", "evaluated", "rated", "sampled", "after"}
Rated   == {"rated", "sampled", "after"}
Sampled == {"sampled", "after"}

(***************************************************************************)
(* What the proof needs of the types: the newest instance bounds all, and  *)
(* a slot without an instance is empty.                                    *)
(***************************************************************************)
Typed ==
    /\ clock \in Nat /\ born \in 1..MaxInstances
    /\ deployment \in [uid : Nat \ {0}, generation : Nat, deleting : BOOLEAN]
    /\ pods \in [Slots -> [instance : 0..born, ready : BOOLEAN, owner : Nat]]
    /\ \A s \in Slots : pods[s] # Empty => pods[s].instance # 0
    /\ scrapes \in [1..MaxInstances -> SUBSET Nat]
    /\ call = [phase |-> call.phase, uid |-> call.uid, generation |-> call.generation,
               roster |-> call.roster, at |-> call.at, rates |-> call.rates,
               source |-> call.source]
    /\ call.uid \in Nat /\ call.at \in Nat
    /\ call.phase # "idle" => call.uid # 0
    /\ observed.counted \subseteq 1..MaxInstances

(***************************************************************************)
(* Since the first list, whatever instance of the roster still runs in its *)
(* slot has run all the time: an instance that ends does not come back.    *)
(***************************************************************************)
Continuous ==
    call.phase \in Listed =>
        /\ DOMAIN call.roster \subseteq Slots
        /\ \A s \in DOMAIN call.roster :
              /\ call.roster[s] \in 1..born
              /\ pods[s].instance = call.roster[s] => call.roster[s] \in steady

\* The rates are those of the instances of the roster.
Attributed ==
    call.phase \in Rated =>
        \A s \in DOMAIN call.roster : call.rates[s] = call.roster[s]

\* Each of them was scraped between the source time and the instant of the query.
Fresh ==
    call.phase \in Sampled =>
        \A s \in DOMAIN call.roster :
            /\ call.source \in Nat
            /\ \E t \in scrapes[call.rates[s]] : call.source <= t /\ t <= call.at

IInv == Typed /\ Continuous /\ Attributed /\ Fresh /\ MeasuresOneRoster

(***************************************************************************)
(* Before the first call nothing is under way and nothing is observed.     *)
(***************************************************************************)
LEMMA InitEstablishes == ASSUME RosterParameters, RosterInit PROVE IInv
<1> DEFINE first == CHOOSE s \in Slots : TRUE
<1>1. first \in Slots
  BY DEF RosterParameters
<1>2. Typed
  <2>1. born = 1 /\ clock = 1 /\ MaxInstances \in Nat \ {0}
    BY DEF RosterInit, RosterParameters
  <2>2. pods = [s \in Slots |-> IF s = first THEN [instance |-> 1, ready |-> TRUE, owner |-> 1]
                                ELSE Empty]
    BY DEF RosterInit
  <2>3. /\ pods \in [Slots -> [instance : 0..born, ready : BOOLEAN, owner : Nat]]
        /\ \A s \in Slots : pods[s] # Empty => pods[s].instance # 0
    BY <2>1, <2>2 DEF Empty
  <2>4. scrapes \in [1..MaxInstances -> SUBSET Nat]
    BY DEF RosterInit
  <2>5. QED
    BY <2>1, <2>3, <2>4 DEF Typed, RosterInit, NoCall, None
<1>3. call.phase = "idle"
  BY DEF RosterInit, NoCall
<1>4. MeasuresOneRoster
  BY DEF RosterInit, MeasuresOneRoster, None
<1>5. QED
  BY <1>2, <1>3, <1>4 DEF IInv, Continuous, Attributed, Fresh, Listed, Rated, Sampled

(***************************************************************************)
(* A change of the Deployment or of its pods: an instance that runs after  *)
(* it, and is not new, ran before it in the same slot.                     *)
(***************************************************************************)
LEMMA ChangePreserves ==
    ASSUME IInv, Change,
           born' \in born..MaxInstances,
           deployment' \in [uid : Nat \ {0}, generation : Nat, deleting : BOOLEAN],
           pods' \in [Slots -> [instance : 0..born', ready : BOOLEAN, owner : Nat]],
           \A s \in Slots : pods'[s] # Empty => pods'[s].instance # 0,
           \A s \in Slots : \/ pods'[s].instance = pods[s].instance
                            \/ pods'[s].instance \notin 1..born
    PROVE  IInv'
<1>1. UNCHANGED <<clock, scrapes, call, observed>>
  BY DEF Change
<1>2. born \in Nat /\ born' \in Nat /\ born <= born'
  BY DEF IInv, Typed
<1>3. Typed'
  BY <1>1, <1>2 DEF IInv, Typed
<1>4. ASSUME call.phase \in Listed, NEW s \in DOMAIN call.roster
      PROVE  /\ call.roster[s] \in 1..born'
             /\ pods'[s].instance = call.roster[s] => call.roster[s] \in steady'
  <2>1. s \in Slots /\ call.roster[s] \in 1..born
    BY <1>4 DEF IInv, Continuous
  <2>2. ASSUME pods'[s].instance = call.roster[s] PROVE call.roster[s] \in steady'
    <3>1. pods[s].instance = call.roster[s]
      BY <2>1, <2>2
    <3>2. call.roster[s] \in steady
      BY <1>4, <3>1 DEF IInv, Continuous
    <3>3. QED
      BY <2>1, <2>2, <3>2 DEF Change
  <2>3. QED
    BY <1>2, <2>1, <2>2
<1>5. Continuous'
  BY <1>1, <1>4 DEF IInv, Continuous
<1>6. Attributed' /\ Fresh' /\ MeasuresOneRoster'
  BY <1>1 DEF IInv, Attributed, Fresh, MeasuresOneRoster
<1>7. QED
  BY <1>3, <1>5, <1>6 DEF IInv

(***************************************************************************)
(* Every action of the world is such a change.                             *)
(***************************************************************************)
LEMMA WorldPreserves ==
    ASSUME RosterParameters, IInv,
           \/ Edit \/ Replace \/ Delete
           \/ \E s \in Slots : Start(s) \/ Readiness(s) \/ End(s)
    PROVE  IInv'
<1> DEFINE Pod == [instance : 0..born, ready : BOOLEAN, owner : Nat]
<1>1. /\ born \in Nat /\ MaxInstances \in Nat /\ born \in born..MaxInstances
      /\ pods \in [Slots -> Pod] /\ \A s \in Slots : pods[s] # Empty => pods[s].instance # 0
      /\ deployment \in [uid : Nat \ {0}, generation : Nat, deleting : BOOLEAN]
  BY DEF IInv, Typed, RosterParameters
<1>2. ASSUME Edit \/ Replace \/ Delete PROVE IInv'
  <2>1. Change /\ UNCHANGED <<pods, born>>
    BY <1>2 DEF Edit, Replace, Delete
  <2>2. deployment' \in [uid : Nat \ {0}, generation : Nat, deleting : BOOLEAN]
    <3>1. CASE Edit
      BY <3>1, <1>1 DEF Edit
    <3>2. CASE Replace
      BY <3>2, <1>1 DEF Replace
    <3>3. CASE Delete
      BY <3>3, <1>1 DEF Delete
    <3>4. QED
      BY <1>2, <3>1, <3>2, <3>3
  <2>3. QED
    BY <1>1, <2>1, <2>2, ChangePreserves
<1>3. ASSUME NEW s \in Slots, Start(s) PROVE IInv'
  <2> DEFINE new == [instance |-> born + 1, ready |-> FALSE,
                     owner |-> IF pods[s] = Empty THEN deployment.uid ELSE pods[s].owner]
  <2>1. /\ Change /\ UNCHANGED deployment /\ born' = born + 1 /\ born < MaxInstances
        /\ pods' = [pods EXCEPT ![s] = new]
    BY <1>3 DEF Start
  <2>2. born' \in born..MaxInstances
    BY <1>1, <2>1
  <2>3. new.owner \in Nat
    BY <1>1
  <2>4. new \in [instance : 0..born', ready : BOOLEAN, owner : Nat] /\ new.instance = born + 1
    BY <1>1, <2>1, <2>3
  <2> HIDE DEF new
  <2>5. ASSUME NEW r \in Slots
        PROVE  /\ pods'[r] \in [instance : 0..born', ready : BOOLEAN, owner : Nat]
               /\ pods'[r] # Empty => pods'[r].instance # 0
               /\ pods'[r].instance = pods[r].instance \/ pods'[r].instance \notin 1..born
    <3>1. CASE r = s
      BY <3>1, <1>1, <2>1, <2>4
    <3>2. CASE r # s
      BY <3>2, <1>1, <2>1
    <3>3. QED
      BY <3>1, <3>2
  <2>6. pods' \in [Slots -> [instance : 0..born', ready : BOOLEAN, owner : Nat]]
    BY <1>1, <2>1, <2>5
  <2>7. QED
    BY <1>1, <2>1, <2>2, <2>5, <2>6, ChangePreserves
<1>4. ASSUME NEW s \in Slots, Readiness(s) \/ End(s) PROVE IInv'
  <2>1. /\ Change /\ UNCHANGED <<deployment, born>>
        /\ \/ pods[s] # Empty /\ pods' = [pods EXCEPT ![s].ready = ~pods[s].ready]
           \/ pods' = [pods EXCEPT ![s] = Empty]
    BY <1>4 DEF Readiness, End
  <2>2. ASSUME NEW r \in Slots
        PROVE  /\ pods'[r] \in Pod
               /\ pods'[r] # Empty => pods'[r].instance # 0
               /\ pods'[r].instance = pods[r].instance \/ pods'[r].instance \notin 1..born
    <3>1. CASE r = s
      <4>1. pods[s] \in Pod
        BY <1>1
      <4>2. CASE pods[s] # Empty /\ pods' = [pods EXCEPT ![s].ready = ~pods[s].ready]
        <5>1. pods'[s] = [pods[s] EXCEPT !.ready = ~pods[s].ready]
          BY <4>2, <1>1
        <5>2. pods'[s].instance = pods[s].instance /\ pods'[s] \in Pod
          BY <4>1, <5>1
        <5>3. QED
          BY <3>1, <4>2, <5>2, <1>1
      <4>3. CASE pods' = [pods EXCEPT ![s] = Empty]
        BY <3>1, <4>3, <1>1 DEF Empty
      <4>4. QED
        BY <2>1, <4>2, <4>3
    <3>2. CASE r # s
      BY <3>2, <1>1, <2>1
    <3>3. QED
      BY <3>1, <3>2
  <2>3. pods' \in [Slots -> Pod]
    <3>1. pods' = [r \in Slots |-> pods'[r]]
      BY <1>1, <2>1
    <3>2. QED
      BY <2>2, <3>1
  <2>4. QED
    BY <1>1, <2>1, <2>2, <2>3, ChangePreserves
<1>5. QED
  BY <1>2, <1>3, <1>4

(***************************************************************************)
(* A scrape only adds to what is known of an instance.                     *)
(***************************************************************************)
LEMMA ScrapePreserves ==
    ASSUME RosterParameters, IInv, NEW i \in 1..MaxInstances, Scrape(i)
    PROVE  IInv'
<1>1. /\ UNCHANGED <<clock, deployment, pods, born, steady, call, observed>>
      /\ scrapes' = [scrapes EXCEPT ![i] = @ \cup {clock}]
  BY DEF Scrape, world
<1>2. scrapes \in [1..MaxInstances -> SUBSET Nat] /\ clock \in Nat
  BY DEF IInv, Typed
<1>3. scrapes' \in [1..MaxInstances -> SUBSET Nat]
  BY <1>1, <1>2
<1>4. \A j \in 1..MaxInstances : scrapes[j] \subseteq scrapes'[j]
  BY <1>1, <1>2
<1>5. Typed' /\ Continuous' /\ Attributed'
  BY <1>1, <1>3 DEF IInv, Typed, Continuous, Attributed
<1>6. ASSUME call.phase \in Sampled, NEW s \in DOMAIN call.roster
      PROVE  /\ call.source \in Nat
             /\ \E t \in scrapes'[call.rates[s]] : call.source <= t /\ t <= call.at
  <2>1. call.phase \in Listed /\ call.phase \in Rated
    BY <1>6 DEF Listed, Rated, Sampled
  <2>2. call.rates[s] \in 1..born /\ born \in 1..MaxInstances /\ MaxInstances \in Nat
    BY <2>1 DEF IInv, Typed, Continuous, Attributed, RosterParameters
  <2>3. call.rates[s] \in 1..MaxInstances
    BY <2>2
  <2>4. QED
    BY <1>4, <1>6, <2>3 DEF IInv, Fresh
<1>7. Fresh'
  BY <1>1, <1>6 DEF Fresh
<1>8. MeasuresOneRoster'
  BY <1>1, <1>4 DEF IInv, Typed, MeasuresOneRoster
<1>9. QED
  BY <1>5, <1>7, <1>8 DEF IInv

(***************************************************************************)
(* Time changes neither the roster nor what was scraped.                   *)
(***************************************************************************)
LEMMA TickPreserves == ASSUME IInv, Tick PROVE IInv'
<1>1. UNCHANGED <<deployment, pods, born, steady, scrapes, call, observed>> /\ clock' = clock + 1
  BY DEF Tick, world
<1>2. QED
  BY <1>1 DEF IInv, Typed, Continuous, Attributed, Fresh, MeasuresOneRoster

(***************************************************************************)
(* The reads and queries of the observation change the call only; those    *)
(* before the first list promise nothing yet.                              *)
(***************************************************************************)
LEMMA StartPreserves == ASSUME IInv, Fail \/ Begin PROVE IInv'
<1>1. UNCHANGED <<clock, deployment, pods, born, scrapes, observed>>
  BY DEF Fail, Begin, Step
<1>2. deployment.uid \in Nat /\ deployment.generation \in Nat
  BY DEF IInv, Typed
<1>3. Typed' /\ call'.phase \in {"idle", "before"}
  <2>1. CASE Fail
    <3>1. call' = NoCall
      BY <2>1 DEF Fail, Step
    <3>2. QED
      BY <1>1, <3>1 DEF IInv, Typed, NoCall
  <2>2. CASE Begin
    <3>1. PICK uid \in 1..deployment.uid :
             call' = [NoCall EXCEPT !.phase = "before", !.uid = uid,
                                    !.generation = deployment.generation]
      BY <2>2 DEF Begin, Step
    <3>2. uid \in Nat \ {0}
      BY <1>2, <3>1
    <3>3. QED
      BY <1>1, <3>1, <3>2 DEF IInv, Typed, NoCall
  <2>3. QED
    BY <2>1, <2>2
<1>4. QED
  BY <1>1, <1>3 DEF IInv, Continuous, Attributed, Fresh, MeasuresOneRoster, Listed, Rated, Sampled

(***************************************************************************)
(* The first list: what it shows runs at this moment.                      *)
(***************************************************************************)
LEMMA ListBeforePreserves == ASSUME IInv, ListBefore PROVE IInv'
<1>1. /\ UNCHANGED <<clock, deployment, pods, born, scrapes, observed>>
      /\ call' = [call EXCEPT !.phase = "listed", !.roster = Running(call.uid)]
      /\ steady' = {pods[s].instance : s \in Owned(call.uid)}
      /\ call.phase = "before"
  BY DEF ListBefore, Step
<1>2. call' = [phase |-> "listed", uid |-> call.uid, generation |-> call.generation,
               roster |-> Running(call.uid), at |-> call.at, rates |-> call.rates,
               source |-> call.source]
  BY <1>1 DEF IInv, Typed
<1>3. Typed'
  BY <1>1, <1>2 DEF IInv, Typed
<1>4. /\ DOMAIN call'.roster = Owned(call.uid) /\ Owned(call.uid) \subseteq Slots
      /\ \A s \in Owned(call.uid) : call'.roster[s] = pods[s].instance
  BY <1>2 DEF Running, Owned
<1>5. ASSUME NEW s \in Owned(call.uid)
      PROVE  pods[s].instance \in 1..born /\ pods[s].instance \in steady'
  <2>1. s \in Slots /\ pods[s] # Empty
    BY DEF Owned
  <2>2. pods[s].instance \in 0..born /\ pods[s].instance # 0 /\ born \in 1..MaxInstances
    BY <2>1 DEF IInv, Typed
  <2>3. QED
    BY <2>2, <1>1
<1>6. Continuous'
  BY <1>1, <1>4, <1>5 DEF Continuous
<1>7. Attributed' /\ Fresh' /\ MeasuresOneRoster'
  BY <1>1, <1>2 DEF IInv, Attributed, Fresh, MeasuresOneRoster, Rated, Sampled
<1>8. QED
  BY <1>3, <1>6, <1>7 DEF IInv

(***************************************************************************)
(* The instant of the queries, and the second read of the Deployment.      *)
(***************************************************************************)
LEMMA ReadPreserves == ASSUME IInv, Evaluate \/ GetAfter PROVE IInv'
<1>1. UNCHANGED <<clock, deployment, pods, born, scrapes, observed, steady>>
  BY DEF Evaluate, GetAfter, Step
<1>2. CASE Evaluate
  <2>1. call.phase = "listed" /\ call' = [call EXCEPT !.phase = "evaluated", !.at = clock]
    BY <1>2 DEF Evaluate, Step
  <2>2. call' = [phase |-> "evaluated", uid |-> call.uid, generation |-> call.generation,
                 roster |-> call.roster, at |-> clock, rates |-> call.rates,
                 source |-> call.source]
    BY <2>1 DEF IInv, Typed
  <2>3. Typed' /\ Continuous'
    BY <1>1, <2>1, <2>2 DEF IInv, Typed, Continuous, Listed
  <2>4. Attributed' /\ Fresh' /\ MeasuresOneRoster'
    BY <1>1, <2>2 DEF IInv, Attributed, Fresh, MeasuresOneRoster, Rated, Sampled
  <2>5. QED
    BY <2>3, <2>4 DEF IInv
<1>3. CASE GetAfter
  <2>1. call.phase = "sampled" /\ call' = [call EXCEPT !.phase = "after"]
    BY <1>3 DEF GetAfter, Step
  <2>2. call' = [phase |-> "after", uid |-> call.uid, generation |-> call.generation,
                 roster |-> call.roster, at |-> call.at, rates |-> call.rates,
                 source |-> call.source]
    BY <2>1 DEF IInv, Typed
  <2>3. Typed' /\ Continuous'
    BY <1>1, <2>1, <2>2 DEF IInv, Typed, Continuous, Listed
  <2>4. Attributed' /\ Fresh' /\ MeasuresOneRoster'
    BY <1>1, <2>1, <2>2 DEF IInv, Attributed, Fresh, MeasuresOneRoster, Rated, Sampled
  <2>5. QED
    BY <2>3, <2>4 DEF IInv
<1>4. QED
  BY <1>2, <1>3

(***************************************************************************)
(* Exactly one series matches a container of the roster: that of its own   *)
(* instance.                                                               *)
(***************************************************************************)
LEMMA SampleIsOfRoster ==
    ASSUME NEW series, Unique(series)
    PROVE  /\ DOMAIN Sample(series) = DOMAIN call.roster
           /\ \A s \in DOMAIN call.roster :
                 Sample(series)[s] = call.roster[s] /\ call.roster[s] \in series
<1>1. ASSUME NEW s \in DOMAIN call.roster
      PROVE  Sample(series)[s] = call.roster[s] /\ call.roster[s] \in series
  <2> DEFINE found == {i \in series : Matches(s, i)}
  <2>1. Cardinality(found) = 1
    BY DEF Unique
  <2>2. found # {}
    BY <2>1, FS_EmptySet
  <2>3. PICK i \in series : Matches(s, i)
    BY <2>2
  <2>4. Sample(series)[s] = CHOOSE j \in series : Matches(s, j)
    BY DEF Sample
  <2>5. Sample(series)[s] \in series /\ Matches(s, Sample(series)[s])
    BY <2>3, <2>4
  <2>6. QED
    BY <2>5 DEF Matches
<1>2. QED
  BY <1>1 DEF Sample

(***************************************************************************)
(* The rates are attributed to the instances of the first list.            *)
(***************************************************************************)
LEMMA QueryRatePreserves == ASSUME IInv, QueryRate PROVE IInv'
<1> DEFINE series == {i \in 1..born : Cardinality(Visible(i)) >= 2}
<1>1. /\ UNCHANGED <<clock, deployment, pods, born, scrapes, observed, steady>>
      /\ call.phase = "evaluated" /\ Unique(series)
      /\ call' = [call EXCEPT !.phase = "rated", !.rates = Sample(series)]
  BY DEF QueryRate, Step
<1> HIDE DEF series
<1>2. call' = [phase |-> "rated", uid |-> call.uid, generation |-> call.generation,
               roster |-> call.roster, at |-> call.at, rates |-> Sample(series),
               source |-> call.source]
  BY <1>1 DEF IInv, Typed
<1>3. Typed' /\ Continuous'
  BY <1>1, <1>2 DEF IInv, Typed, Continuous, Listed
<1>4. Attributed'
  BY <1>1, <1>2, SampleIsOfRoster DEF Attributed
<1>5. Fresh' /\ MeasuresOneRoster'
  BY <1>1, <1>2 DEF IInv, Fresh, MeasuresOneRoster, Sampled
<1>6. QED
  BY <1>3, <1>4, <1>5 DEF IInv

(***************************************************************************)
(* The newest sample that the instant of the query can see is one that was *)
(* scraped, and no later than that instant.                                *)
(***************************************************************************)
LEMMA NewestVisible ==
    ASSUME IInv, NEW i \in 1..born, RosterParameters, Visible(i) # {}
    PROVE  /\ Max(Visible(i)) \in scrapes[i] /\ Max(Visible(i)) \in Nat
           /\ Max(Visible(i)) <= call.at
<1>1. i \in 1..MaxInstances /\ call.at \in Nat
  BY DEF IInv, Typed, RosterParameters
<1>2. Visible(i) \subseteq Nat /\ \A t \in Visible(i) : t <= call.at
  BY <1>1 DEF Visible, IInv, Typed
<1>3. PICK m \in Visible(i) : \A t \in Visible(i) : t <= m
  BY <1>1, <1>2, GreatestElement
<1>4. m \in Visible(i) /\ \A t \in Visible(i) : m >= t
  BY <1>2, <1>3
<1>5. Max(Visible(i)) \in Visible(i)
  BY <1>4 DEF Max
<1>6. QED
  BY <1>2, <1>5 DEF Visible

(***************************************************************************)
(* The source time is that of the instance whose newest sample is oldest:  *)
(* every other instance has one at least as recent.                        *)
(***************************************************************************)
LEMMA QueryTimestampPreserves ==
    ASSUME RosterParameters, IInv, QueryTimestamp
    PROVE  IInv'
<1> DEFINE series  == {i \in 1..born : Visible(i) # {}}
           newest  == {Max(Visible(Sample(series)[s])) : s \in DOMAIN call.roster}
<1>1. /\ UNCHANGED <<clock, deployment, pods, born, scrapes, observed, steady>>
      /\ call.phase = "rated" /\ Unique(series)
      /\ call' = [call EXCEPT !.phase = "sampled", !.source = Min(newest)]
  BY DEF QueryTimestamp, Step
<1>2. call' = [phase |-> "sampled", uid |-> call.uid, generation |-> call.generation,
               roster |-> call.roster, at |-> call.at, rates |-> call.rates,
               source |-> Min(newest)]
  BY <1>1 DEF IInv, Typed
<1>3. ASSUME NEW s \in DOMAIN call.roster
      PROVE  LET t == Max(Visible(Sample(series)[s]))
             IN  /\ Sample(series)[s] = call.rates[s]
                 /\ t \in scrapes[call.rates[s]] /\ t \in Nat /\ t <= call.at
  <2>1. Sample(series)[s] = call.roster[s] /\ call.roster[s] \in series
    BY <1>1, SampleIsOfRoster
  <2>2. call.rates[s] = call.roster[s]
    BY <1>1 DEF IInv, Attributed, Rated
  <2>3. call.roster[s] \in 1..born /\ Visible(call.roster[s]) # {}
    BY <2>1
  <2>4. QED
    BY <2>1, <2>2, <2>3, NewestVisible
<1> HIDE DEF series
<1>4. ASSUME NEW s \in DOMAIN call.roster
      PROVE  /\ Min(newest) \in Nat
             /\ \E t \in scrapes[call.rates[s]] : Min(newest) <= t /\ t <= call.at
  <2>1. newest \subseteq Nat /\ newest # {}
    BY <1>3
  <2>2. Max(Visible(Sample(series)[s])) \in newest
    OBVIOUS
  <2> HIDE DEF newest
  <2>3. PICK least \in newest : \A t \in newest : least <= t
    BY <2>1, LeastElement
  <2>4. Min(newest) \in newest /\ \A t \in newest : Min(newest) <= t
    BY <2>3 DEF Min
  <2>5. QED
    BY <1>3, <2>1, <2>2, <2>4
<1> HIDE DEF newest
<1>5. Typed' /\ Continuous' /\ Attributed'
  BY <1>1, <1>2 DEF IInv, Typed, Continuous, Attributed, Listed, Rated
<1>6. Fresh'
  BY <1>1, <1>2, <1>4 DEF Fresh
<1>7. MeasuresOneRoster'
  BY <1>1 DEF IInv, MeasuresOneRoster
<1>8. QED
  BY <1>5, <1>6, <1>7 DEF IInv

(***************************************************************************)
(* The second list shows the same instances in the same slots, so that     *)
(* each of them is one that has run all the time; the age once more bounds *)
(* their samples.                                                          *)
(***************************************************************************)
LEMMA ListAfterPreserves ==
    ASSUME RosterParameters, IInv, ListAfter
    PROVE  IInv'
<1>1. /\ UNCHANGED <<clock, deployment, pods, born, scrapes>>
      /\ call.phase = "after" /\ call' = NoCall
      /\ Running(call.uid) = call.roster /\ clock - call.source <= MaxSampleAge
      /\ observed'.counted = {call.rates[s] : s \in DOMAIN call.roster}
      /\ observed'.at = call.at /\ observed'.accepted = clock
      /\ observed'.own = {i \in steady : \E s \in Slots : pods[s].instance = i
                                                        /\ pods[s].owner = call.uid}
  BY DEF ListAfter, Step, SameRoster
<1>2. /\ call.phase \in Listed /\ call.phase \in Rated /\ call.phase \in Sampled
      /\ call.uid # 0
  BY <1>1 DEF Listed, Rated, Sampled, IInv, Typed
<1>3. DOMAIN call.roster = Owned(call.uid) /\ Owned(call.uid) \subseteq Slots
  BY <1>1 DEF Running, Owned
<1>4. ASSUME NEW s \in Owned(call.uid)
      PROVE  /\ call.rates[s] = pods[s].instance /\ pods[s].owner = call.uid
             /\ call.rates[s] \in steady /\ call.rates[s] \in 1..born
  <2>1. call.roster[s] = pods[s].instance
    BY <1>1 DEF Running
  <2>2. QED
    BY <1>2, <1>3, <2>1 DEF IInv, Continuous, Attributed, Owned
<1>5. observed'.counted = observed'.own
  <2>1. observed'.counted \subseteq observed'.own
    BY <1>1, <1>3, <1>4
  <2>2. ASSUME NEW i \in observed'.own PROVE i \in observed'.counted
    <3>1. PICK s \in Slots : pods[s].instance = i /\ pods[s].owner = call.uid
      BY <1>1
    <3>2. pods[s] # Empty
      BY <3>1, <1>2 DEF Empty
    <3>3. s \in Owned(call.uid)
      BY <3>1, <3>2 DEF Owned
    <3>4. QED
      BY <1>1, <1>3, <1>4, <3>1, <3>3
  <2>3. QED
    BY <2>1, <2>2
<1>6. ASSUME NEW i \in observed'.counted
      PROVE  \E t \in scrapes[i] : clock - MaxSampleAge <= t /\ t <= call.at
  <2>1. PICK s \in DOMAIN call.roster : i = call.rates[s]
    BY <1>1
  <2>2. PICK t \in scrapes[i] : call.source \in Nat /\ call.source <= t /\ t <= call.at
    BY <1>2, <2>1 DEF IInv, Fresh
  <2>3. i \in 1..MaxInstances
    BY <1>3, <1>4, <2>1 DEF IInv, Typed, RosterParameters
  <2>4. t \in Nat /\ clock \in Nat /\ MaxSampleAge \in Nat
    BY <2>3 DEF IInv, Typed, RosterParameters
  <2>5. QED
    BY <1>1, <2>2, <2>4
<1>7. MeasuresOneRoster'
  BY <1>1, <1>5, <1>6 DEF MeasuresOneRoster
<1>8. observed'.counted \subseteq 1..MaxInstances
  BY <1>1, <1>3, <1>4 DEF IInv, Typed, RosterParameters
<1>9. Typed' /\ Continuous' /\ Attributed' /\ Fresh'
  BY <1>1, <1>8 DEF IInv, Typed, Continuous, Attributed, Fresh, NoCall, Listed, Rated, Sampled
<1>10. QED
  BY <1>7, <1>9 DEF IInv

(***************************************************************************)
(* The invariant holds throughout.                                         *)
(***************************************************************************)
LEMMA RosterInvariant == ASSUME RosterParameters PROVE RosterSpec => []IInv
<1>1. RosterInit => IInv
  BY InitEstablishes
<1>2. IInv /\ [RosterNext]_rosterVars => IInv'
  <2> SUFFICES ASSUME IInv, [RosterNext]_rosterVars PROVE IInv'
    OBVIOUS
  <2>1. CASE Edit \/ Replace \/ Delete \/ \E s \in Slots : Start(s) \/ Readiness(s) \/ End(s)
    BY <2>1, WorldPreserves
  <2>2. CASE \E i \in 1..MaxInstances : Scrape(i)
    BY <2>2, ScrapePreserves
  <2>3. CASE Tick
    BY <2>3, TickPreserves
  <2>4. CASE Fail \/ Begin
    BY <2>4, StartPreserves
  <2>5. CASE ListBefore
    BY <2>5, ListBeforePreserves
  <2>6. CASE Evaluate \/ GetAfter
    BY <2>6, ReadPreserves
  <2>7. CASE QueryRate
    BY <2>7, QueryRatePreserves
  <2>8. CASE QueryTimestamp
    BY <2>8, QueryTimestampPreserves
  <2>9. CASE ListAfter
    BY <2>9, ListAfterPreserves
  <2>10. CASE UNCHANGED rosterVars
    BY <2>10 DEF rosterVars, IInv, Typed, Continuous, Attributed, Fresh, MeasuresOneRoster
  <2>11. QED
    BY <2>1, <2>2, <2>3, <2>4, <2>5, <2>6, <2>7, <2>8, <2>9, <2>10 DEF RosterNext
<1>3. QED
  BY <1>1, <1>2, PTL DEF RosterSpec

(***************************************************************************)
(* Whatever happens between the reads of AverageCPUUtilizationPercentage,  *)
(* an observation that it accepts measures the containers that ran         *)
(* throughout as the Deployment's own, all of them, from fresh samples.    *)
(***************************************************************************)
THEOREM MeasuresOneRosterTheorem ==
    ASSUME RosterParameters PROVE RosterSpec => []MeasuresOneRoster
<1>1. IInv => MeasuresOneRoster
  BY DEF IInv
<1>2. QED
  BY <1>1, RosterInvariant, PTL
-----------------------------------------------------------------------------
(***************************************************************************)
(* The types within their bounds: a change makes at most one generation,   *)
(* no scrape is of the future, the call asks about a Deployment that has   *)
(* been, and only containers that were started are followed or counted.    *)
(***************************************************************************)
Counted ==
    /\ clock \in 1..MaxTime /\ changes \in 0..MaxChanges /\ scraped \in 0..MaxScrapes
    /\ deployment.uid <= changes + 1 /\ deployment.generation \in 1 .. changes + 1
    /\ call = NoCall \/ call.uid \in 1..deployment.uid

ScrapedBefore == \A i \in 1..MaxInstances : scrapes[i] \subseteq 0..clock

Started == steady \subseteq 1..born /\ observed.counted \subseteq 1..born

RosterTypes == Counted /\ ScrapedBefore /\ Started

(***************************************************************************)
(* The changes of the world are counted, and only readiness, ends and new  *)
(* containers touch the pods.                                              *)
(***************************************************************************)
LEMMA WorldKeepsTypes ==
    ASSUME RosterParameters, IInv, RosterTypes,
           \/ Edit \/ Replace \/ Delete
           \/ \E s \in Slots : Start(s) \/ Readiness(s) \/ End(s)
    PROVE  RosterTypes'
<1>1. /\ changes < MaxChanges /\ changes' = changes + 1 /\ steady' \subseteq steady
      /\ UNCHANGED <<clock, scrapes, scraped, call, observed>>
  BY DEF Edit, Replace, Delete, Start, Readiness, End, Change
<1>2. born' \in {born, born + 1}
  BY DEF Edit, Replace, Delete, Start, Readiness, End
<1>3. \/ UNCHANGED deployment
      \/ deployment' = [deployment EXCEPT !.generation = @ + 1]
      \/ deployment' = [uid |-> deployment.uid + 1, generation |-> 1, deleting |-> FALSE]
      \/ deployment' = [deployment EXCEPT !.deleting = TRUE]
  BY DEF Edit, Replace, Delete, Start, Readiness, End
<1>4. /\ deployment.uid \in Nat \ {0} /\ deployment.generation \in Nat /\ born \in 1..MaxInstances
      /\ deployment = [uid |-> deployment.uid, generation |-> deployment.generation,
                       deleting |-> deployment.deleting]
  BY DEF IInv, Typed
<1>5. /\ deployment'.uid \in {deployment.uid, deployment.uid + 1}
      /\ deployment'.generation \in {deployment.generation, deployment.generation + 1, 1}
  BY <1>3, <1>4
<1>6. Counted'
  BY <1>1, <1>4, <1>5 DEF Counted, RosterTypes, RosterParameters
<1>7. ScrapedBefore'
  BY <1>1 DEF ScrapedBefore, RosterTypes
<1>8. Started'
  <2>1. 1..born \subseteq 1..born'
    BY <1>2, <1>4
  <2>2. QED
    BY <1>1, <2>1 DEF Started, RosterTypes
<1>9. QED
  BY <1>6, <1>7, <1>8 DEF RosterTypes

(***************************************************************************)
(* A scrape is of now, and time goes on.                                   *)
(***************************************************************************)
LEMMA TimeKeepsTypes ==
    ASSUME RosterParameters, IInv, RosterTypes, Tick \/ \E i \in 1..MaxInstances : Scrape(i)
    PROVE  RosterTypes'
<1>1. UNCHANGED <<deployment, born, changes, steady, call, observed>>
  BY DEF Tick, Scrape, world
<1>2. /\ clock' \in 1..MaxTime /\ clock <= clock'
      /\ scraped' \in 0..MaxScrapes
  BY DEF Tick, Scrape, RosterTypes, Counted, RosterParameters
<1>3. ScrapedBefore'
  <2>1. CASE Tick
    <3>1. scrapes' = scrapes /\ 0..clock \subseteq 0..clock'
      BY <2>1, <1>2 DEF Tick, RosterTypes, Counted, RosterParameters
    <3>2. QED
      BY <3>1 DEF ScrapedBefore, RosterTypes
  <2>2. CASE \E i \in 1..MaxInstances : Scrape(i)
    <3>1. PICK i \in 1..MaxInstances : Scrape(i)
      BY <2>2
    <3>2. /\ clock' = clock /\ clock \in 0..clock
          /\ \A j \in 1..MaxInstances : scrapes'[j] \subseteq scrapes[j] \cup {clock}
      BY <3>1 DEF Scrape, IInv, Typed, RosterTypes, Counted
    <3>3. QED
      BY <3>2 DEF ScrapedBefore, RosterTypes
  <2>3. QED
    BY <2>1, <2>2
<1>4. QED
  BY <1>1, <1>2, <1>3 DEF RosterTypes, Counted, Started

(***************************************************************************)
(* An observation asks about the Deployment that it began with, follows    *)
(* what the first list showed, and counts what it followed.                *)
(***************************************************************************)
LEMMA ObservationKeepsTypes ==
    ASSUME RosterParameters, IInv, RosterTypes,
           \/ Fail \/ Begin \/ ListBefore \/ Evaluate
           \/ QueryRate \/ QueryTimestamp \/ GetAfter \/ ListAfter
    PROVE  RosterTypes'
<1>1. UNCHANGED <<clock, deployment, pods, born, homes, scrapes, changes, scraped>>
  BY DEF Fail, Begin, ListBefore, Evaluate, QueryRate, QueryTimestamp, GetAfter, ListAfter, Step
<1>2. call' = NoCall \/ call'.uid \in 1..deployment.uid
  <2>1. CASE Fail \/ ListAfter
    BY <2>1 DEF Fail, ListAfter, Step
  <2>2. CASE Begin
    BY <2>2 DEF Begin, Step, NoCall
  <2>3. CASE ListBefore \/ Evaluate \/ QueryRate \/ QueryTimestamp \/ GetAfter
    <3>1. call.phase # "idle"
      BY <2>3 DEF ListBefore, Evaluate, QueryRate, QueryTimestamp, GetAfter
    <3>2. call.uid \in 1..deployment.uid
      BY <3>1 DEF RosterTypes, Counted, NoCall
    <3>3. "uid" \in DOMAIN call
      BY DEF IInv, Typed
    <3>4. call'.uid = call.uid
      BY <2>3, <3>3 DEF ListBefore, Evaluate, QueryRate, QueryTimestamp, GetAfter, Step
    <3>5. QED
      BY <3>2, <3>4
  <2>4. QED
    BY <2>1, <2>2, <2>3
<1>3. steady' \subseteq 1..born
  <2>1. CASE Fail \/ ListAfter
    BY <2>1 DEF Fail, ListAfter
  <2>2. CASE ListBefore
    <3>1. steady' = {pods[s].instance : s \in Owned(call.uid)}
      BY <2>2 DEF ListBefore
    <3>2. \A s \in Owned(call.uid) : pods[s].instance \in 1..born
      BY DEF Owned, IInv, Typed
    <3>3. QED
      BY <3>1, <3>2
  <2>3. CASE Begin \/ Evaluate \/ QueryRate \/ QueryTimestamp \/ GetAfter
    BY <2>3 DEF Begin, Evaluate, QueryRate, QueryTimestamp, GetAfter, RosterTypes, Started
  <2>4. QED
    BY <2>1, <2>2, <2>3
<1>4. observed'.counted \subseteq 1..born
  <2>1. CASE ListAfter
    <3>1. call.phase \in Listed \cap Rated
      BY <2>1 DEF ListAfter, Listed, Rated
    <3>2. \A s \in DOMAIN call.roster : call.rates[s] \in 1..born
      BY <3>1 DEF IInv, Attributed, Continuous
    <3>3. observed'.counted = {call.rates[s] : s \in DOMAIN call.roster}
      BY <2>1 DEF ListAfter
    <3>4. QED
      BY <3>2, <3>3
  <2>2. CASE Fail \/ Begin \/ ListBefore \/ Evaluate \/ QueryRate \/ QueryTimestamp \/ GetAfter
    BY <2>2 DEF Fail, Begin, ListBefore, Evaluate, QueryRate, QueryTimestamp, GetAfter,
                RosterTypes, Started
  <2>3. QED
    BY <2>1, <2>2
<1>5. QED
  BY <1>1, <1>2, <1>3, <1>4 DEF RosterTypes, Counted, ScrapedBefore, Started

(***************************************************************************)
(* The variables keep their types.                                         *)
(***************************************************************************)
THEOREM RosterTypeCorrect == ASSUME RosterParameters PROVE RosterSpec => []RosterTypeOK
<1>1. RosterInit => RosterTypes
  <2> SUFFICES ASSUME RosterInit PROVE RosterTypes
    OBVIOUS
  <2>1. Counted
    BY DEF RosterInit, Counted, RosterParameters, NoCall
  <2>2. ScrapedBefore
    BY DEF RosterInit, ScrapedBefore
  <2>3. Started
    BY DEF RosterInit, Started, None
  <2>4. QED
    BY <2>1, <2>2, <2>3 DEF RosterTypes
<1>2. IInv /\ RosterTypes /\ [RosterNext]_rosterVars => RosterTypes'
  <2> SUFFICES ASSUME IInv, RosterTypes, [RosterNext]_rosterVars PROVE RosterTypes'
    OBVIOUS
  <2>1. CASE Edit \/ Replace \/ Delete \/ \E s \in Slots : Start(s) \/ Readiness(s) \/ End(s)
    BY <2>1, WorldKeepsTypes
  <2>2. CASE Tick \/ \E i \in 1..MaxInstances : Scrape(i)
    BY <2>2, TimeKeepsTypes
  <2>3. CASE \/ Fail \/ Begin \/ ListBefore \/ Evaluate
             \/ QueryRate \/ QueryTimestamp \/ GetAfter \/ ListAfter
    BY <2>3, ObservationKeepsTypes
  <2>4. CASE UNCHANGED rosterVars
    BY <2>4 DEF rosterVars, RosterTypes, Counted, ScrapedBefore, Started
  <2>5. QED
    BY <2>1, <2>2, <2>3, <2>4 DEF RosterNext
<1>3. IInv /\ RosterTypes => RosterTypeOK
  <2> SUFFICES ASSUME IInv, RosterTypes PROVE RosterTypeOK
    OBVIOUS
  <2>1. deployment \in [uid : 1..MaxChanges + 1, generation : 1..MaxChanges + 1, deleting : BOOLEAN]
    BY DEF IInv, Typed, RosterTypes, Counted, RosterParameters
  <2>2. \A s \in Slots : pods[s] = Empty \/ pods[s].instance \in 1..born
    BY DEF IInv, Typed
  <2>3. QED
    BY <2>1, <2>2 DEF RosterTypeOK, IInv, Typed, RosterTypes, Counted, ScrapedBefore, Started
<1>4. QED
  BY <1>1, <1>2, <1>3, RosterInvariant, PTL DEF RosterSpec
=============================================================================
