-------------------------- MODULE StabilizerProofs --------------------------
(***************************************************************************)
(* Safety of the stabilisation history for every window, bucket geometry,  *)
(* sequence of recommendations and clock behaviour.                        *)
(***************************************************************************)
EXTENDS Stabilizer, Extremes, SequenceTheorems

(***************************************************************************)
(* Readings of the clock compare as natural numbers.                       *)
(***************************************************************************)
LEMMA InstantType == ASSUME NEW t \in Times PROVE Instant(t) \in Nat
  BY DEF Times, Instant

(***************************************************************************)
(* Replica counts are natural numbers (int32, never negative).             *)
(***************************************************************************)
LEMMA ReplicasAreNaturals == Replicas \subseteq Nat
  BY ReplicasAssumption, MaxInt32Assumption

(***************************************************************************)
(* The entries of this specification are such that Extremes speaks of.     *)
(***************************************************************************)
LEMMA EntriesAreEntries == Entries = EntriesOf(Times, Replicas)
  BY DEF Entries, EntriesOf

(***************************************************************************)
(* record keeps every entry, perhaps larger or moved to now, and adds one. *)
(***************************************************************************)
LEMMA RecordFacts ==
    ASSUME NEW entries \in Seq(Entries), NEW window \in Nat,
           NEW now \in Times, NEW desired \in Replicas
    PROVE  LET r == record(entries, window, now, desired)
           IN  /\ r \in Seq(Entries)
               /\ \E j \in 1..Len(r) : r[j].at = now /\ r[j].desired >= desired
               /\ Represented(entries, r, now)
<1> DEFINE n == Len(entries)
           r == record(entries, window, now, desired)
           merges == n > 0 /\ Bucket(entries[n].at, window) = Bucket(now, window)
           e == Entry(now, IF merges THEN Larger(entries[n].desired, desired) ELSE desired)
<1>1. entries \in Seq(EntriesOf(Times, Replicas)) /\ n \in Nat
  BY EntriesAreEntries
<1>2. Replicas \subseteq 0..MaxInt32 /\ MaxInt32 \in Nat /\ Replicas \subseteq Nat
  BY ReplicasAssumption, MaxInt32Assumption
<1>3. merges => entries[n].desired \in Replicas
  <2>1. n > 0 => n \in 1..n
    BY <1>1
  <2>2. n > 0 => entries[n] \in Entries
    BY <2>1, ElementOfSeq
  <2>3. QED
    BY <2>2 DEF Entries
<1>4. /\ e \in EntriesOf(Times, Replicas) /\ e.at = now /\ e.desired >= desired
      /\ merges => e.desired >= entries[n].desired
  <2>1. /\ e.at = now
        /\ e.desired = IF merges THEN Larger(entries[n].desired, desired) ELSE desired
        /\ e \in EntriesOf({now}, {e.desired})
    BY DEF Entry, EntriesOf
  <2> HIDE DEF e, merges
  <2>2. /\ e.desired \in Replicas /\ e.desired >= desired
        /\ merges => e.desired >= entries[n].desired
    <3>1. \A x \in Replicas : x \in Nat
      BY <1>2
    <3>2. CASE merges
      <4>1. /\ entries[n].desired \in Replicas /\ entries[n].desired \in Nat /\ desired \in Nat
            /\ e.desired = Larger(entries[n].desired, desired)
        BY <1>3, <2>1, <3>1, <3>2
      <4>2. QED
        BY <4>1 DEF Larger
    <3>3. CASE ~merges
      <4>1. e.desired = desired /\ desired \in Nat
        BY <2>1, <3>1, <3>3
      <4>2. QED
        BY <3>3, <4>1
    <3>4. QED
      BY <3>2, <3>3
  <2>3. QED
    BY <2>1, <2>2 DEF EntriesOf
<1>5. \/ r = Append(entries, e)
      \/ /\ n > 0 /\ e.desired >= entries[n].desired
         /\ r = [entries EXCEPT ![n] = e]
  <2>1. r = IF merges THEN [entries EXCEPT ![n] = e] ELSE Append(entries, e)
    BY DEF record
  <2> HIDE DEF e, r
  <2>2. QED
    BY <1>4, <2>1
<1> HIDE DEF e, r
<1>6. /\ r \in Seq(EntriesOf(Times, Replicas)) /\ (\E j \in 1..Len(r) : r[j] = e)
      /\ Represented(entries, r, e.at)
  BY <1>1, <1>2, <1>4, <1>5, NewestRepresents
<1>7. QED
  BY <1>4, <1>6, EntriesAreEntries DEF r

(***************************************************************************)
(* prune keeps every entry that has not expired.                           *)
(***************************************************************************)
LEMMA PruneFacts ==
    ASSUME NEW entries \in Seq(Entries), NEW window \in Nat, NEW now \in Times
    PROVE  LET p == prune(entries, window, now)
           IN  /\ p \in Seq(Entries)
               /\ \A i \in 1..Len(entries) :
                     ~Expired(entries[i], window, now) => \E j \in 1..Len(p) : p[j] = entries[i]
<1> DEFINE live == {i \in 1..Len(entries) : ~Expired(entries[i], window, now)}
           p == prune(entries, window, now)
<1>1. p = FromFirst(entries, live)
  BY DEF prune, FromFirst
<1>2. live \in SUBSET (1..Len(entries))
      /\ \A i \in 1..Len(entries) : ~Expired(entries[i], window, now) => i \in live
  OBVIOUS
<1> HIDE DEF live, p
<1>3. p \in Seq(Entries) /\ \A i \in live : \E j \in 1..Len(p) : p[j] = entries[i]
  BY <1>1, <1>2, SuffixKeeps
<1>4. QED
  BY <1>2, <1>3 DEF p

(***************************************************************************)
(* PeakOf is the largest count of an entry, or 0.                          *)
(***************************************************************************)
LEMMA PeakFacts ==
    ASSUME NEW entries \in Seq(Entries)
    PROVE  /\ PeakOf(entries) \in Nat
           /\ \A i \in 1..Len(entries) : entries[i].desired <= PeakOf(entries)
           /\ PeakOf(entries) = 0 \/ \E i \in 1..Len(entries) : entries[i].desired = PeakOf(entries)
<1>1. entries \in Seq(EntriesOf(Times, Replicas))
  BY EntriesAreEntries
<1>2. Replicas \subseteq 0..MaxInt32 /\ MaxInt32 \in Nat
  BY ReplicasAssumption, MaxInt32Assumption
<1>3. PeakOf(entries) = Largest(entries)
  BY DEF PeakOf, Largest
<1>4. QED
  BY <1>1, <1>2, <1>3, LargestCount
-----------------------------------------------------------------------------
(***************************************************************************)
(* The inductive invariant.  Coupled: the stored history and the auxiliary *)
(* record of the inputs start afresh at the same decisions.  Covered: every*)
(* recommendation still in the window is represented by an entry that is   *)
(* at least as recent and at least as large.  Timely: no recommendation is *)
(* from the future of the last decision.                                   *)
(***************************************************************************)
Coupled ==
    \/ hist = NoHistory /\ epoch = NoEpoch
    \/ /\ hist \in Histories /\ epoch \in Epochs /\ guard \in Guards
       /\ epoch.identity = hist.identity
       /\ epoch.window = hist.window
       /\ epoch.at = Instant(hist.lastRecordedAt)
       /\ guard.at = Instant(hist.protectedAt)
       /\ guard.requested = hist.protectedReplicas

CoveredBy(entries, recs, window, now) ==
    window > 0 =>
        \A r \in recs : r.at >= now - window =>
            \E i \in 1..Len(entries) :
                Instant(entries[i].at) >= r.at /\ entries[i].desired >= r.desired

Covered ==
    hist \in Histories => CoveredBy(hist.entries, recommended, epoch.window, epoch.at)

Timely == epoch \in Epochs => \A r \in recommended : r.at <= epoch.at

IInv ==
    /\ TypeOK
    /\ Coupled
    /\ Covered
    /\ Timely
    /\ NeverExpiresEarly
    /\ ProtectsColdStart
    /\ NeverInitiatesExpansion

(***************************************************************************)
(* One call of stabilizeRecommendation updates the history: what it stores,*)
(* when it rebuilds, and that nothing still in the window is lost.         *)
(***************************************************************************)
LEMMA DecideUpdatesHistory ==
    ASSUME TypeOK, Coupled, Covered, Timely,
           NEW identity \in Identities, NEW window \in Windows,
           NEW desired \in Replicas, NEW requested \in Replicas, NEW bounds \in Bounds,
           Decide(identity, window, desired, requested, bounds)
    PROVE  /\ hist' \in Histories
           /\ epoch' = [exists |-> TRUE, identity |-> identity, window |-> window,
                        at |-> Instant(clock)]
           /\ guard' \in Guards
           /\ recommended' \subseteq Recommendations
           /\ hist'.window = window
           /\ Coupled'
           /\ Covered'
           /\ Timely'
<1> DEFINE now == Instant(clock)
           same == /\ epoch.exists
                   /\ epoch.identity = identity
                   /\ epoch.window = window
                   /\ epoch.at <= now
           fresh == NewHistory(identity, window, clock, requested)
           base == IF Invalidated(hist, identity, window, clock) THEN fresh ELSE hist
           entries == IF window = 0 THEN <<>> ELSE base.entries
           recorded == record(entries, window, clock, desired)
           kept == prune(recorded, window, clock)
<1>1. /\ clock \in Times /\ now \in Nat /\ window \in Nat
      /\ desired \in Nat /\ requested \in Nat
  BY InstantType, WindowsAssumption, ReplicasAreNaturals DEF TypeOK
<1>2. fresh \in Histories
  <2>1. <<>> \in Seq(Entries)
    BY EmptySeq
  <2>2. QED
    BY <1>1, <2>1 DEF NewHistory, Histories
<1>3. /\ epoch' = [exists |-> TRUE, identity |-> identity, window |-> window, at |-> now]
      /\ hist' = [base EXCEPT !.lastRecordedAt = clock, !.entries = kept]
  BY DEF Decide, Note, Remember
<1>4. \/ /\ base = fresh
         /\ recommended' = {[at |-> now, desired |-> desired]}
         /\ guard' = [exists |-> TRUE, at |-> now, requested |-> requested]
      \/ /\ base = hist
         /\ recommended' = recommended \cup {[at |-> now, desired |-> desired]}
         /\ guard' = guard
         /\ hist \in Histories /\ epoch \in Epochs /\ guard \in Guards
         /\ epoch.at = Instant(hist.lastRecordedAt)
         /\ guard.at = Instant(hist.protectedAt)
         /\ guard.requested = hist.protectedReplicas
         /\ hist.identity = identity /\ hist.window = window
         /\ epoch.window = window /\ epoch.at <= now
  <2>1. /\ recommended' = (IF same THEN recommended ELSE {})
                               \cup {[at |-> now, desired |-> desired]}
        /\ guard' = IF same THEN guard
                    ELSE [exists |-> TRUE, at |-> now, requested |-> requested]
    BY DEF Decide, Note
  <2>2. CASE hist = NoHistory /\ epoch = NoEpoch
    BY <2>1, <2>2 DEF Invalidated, NoHistory, NoEpoch
  <2>3. CASE ~ (hist = NoHistory /\ epoch = NoEpoch)
    <3>1. /\ hist \in Histories /\ epoch \in Epochs /\ guard \in Guards
          /\ epoch.identity = hist.identity
          /\ epoch.window = hist.window
          /\ epoch.at = Instant(hist.lastRecordedAt)
          /\ guard.at = Instant(hist.protectedAt)
          /\ guard.requested = hist.protectedReplicas
      BY <2>3 DEF Coupled
    <3>2. epoch.exists /\ hist.exists /\ epoch.at \in Nat
      BY <3>1 DEF Epochs, Histories
    <3>3. same <=> ~Invalidated(hist, identity, window, clock)
      BY <1>1, <3>1, <3>2 DEF Invalidated, Before
    <3>4. CASE same
      BY <2>1, <3>1, <3>3, <3>4
    <3>5. CASE ~same
      BY <2>1, <3>3, <3>5
    <3>6. QED
      BY <3>4, <3>5
  <2>4. QED
    BY <2>2, <2>3
<1>5. base \in Histories /\ base.window = window /\ base.identity = identity
  BY <1>2, <1>4 DEF NewHistory
<1>6. entries \in Seq(Entries)
  <2>1. base.entries \in Seq(Entries)
    BY <1>5 DEF Histories
  <2>2. QED
    BY <2>1, EmptySeq
<1> HIDE DEF entries, base, same, fresh, now
<1>7. /\ recorded \in Seq(Entries)
      /\ \E j \in 1..Len(recorded) :
            recorded[j].at = clock /\ recorded[j].desired >= desired
      /\ Represented(entries, recorded, clock)
  <2>1. recorded \in Seq(Entries)
    BY <1>1, <1>6, RecordFacts
  <2>2. \E j \in 1..Len(recorded) : recorded[j].at = clock /\ recorded[j].desired >= desired
    BY <1>1, <1>6, RecordFacts
  <2>3. Represented(entries, recorded, clock)
    BY <1>1, <1>6, RecordFacts
  <2>4. QED
    BY <2>1, <2>2, <2>3
<1> HIDE DEF recorded
<1>8. /\ kept \in Seq(Entries)
      /\ \A i \in 1..Len(recorded) : ~Expired(recorded[i], window, clock) =>
            \E j \in 1..Len(kept) : kept[j] = recorded[i]
  BY <1>1, <1>7, PruneFacts
<1> HIDE DEF kept
<1>9. /\ hist' \in Histories
      /\ hist'.window = window /\ hist'.identity = identity
      /\ hist'.entries = kept /\ hist'.lastRecordedAt = clock
      /\ hist'.protectedAt = base.protectedAt
      /\ hist'.protectedReplicas = base.protectedReplicas
  BY <1>1, <1>3, <1>5, <1>8 DEF Histories
<1>10. /\ epoch' \in Epochs
       /\ guard' \in Guards
       /\ guard'.at = Instant(base.protectedAt)
       /\ guard'.requested = base.protectedReplicas
  <2>1. epoch' \in Epochs
    BY <1>1, <1>3 DEF Epochs
  <2>2. CASE base = fresh
             /\ guard' = [exists |-> TRUE, at |-> now, requested |-> requested]
    <3>1. base.protectedAt = clock /\ base.protectedReplicas = requested
      BY <2>2 DEF NewHistory, fresh
    <3>2. guard' \in Guards /\ guard'.at = now /\ guard'.requested = requested
      BY <1>1, <2>2 DEF Guards
    <3>3. QED
      BY <2>1, <3>1, <3>2 DEF now, Instant
  <2>3. CASE /\ base = hist /\ guard' = guard /\ guard \in Guards
             /\ guard.at = Instant(hist.protectedAt)
             /\ guard.requested = hist.protectedReplicas
    BY <2>1, <2>3 DEF Instant
  <2>4. QED
    BY <1>4, <2>1, <2>2, <2>3
<1>11. recommended' \subseteq Recommendations
  BY <1>1, <1>4 DEF TypeOK, Recommendations
<1>12. Coupled'
  BY <1>3, <1>9, <1>10 DEF Coupled, now, Instant
<1>13. Covered'
  <2>1. SUFFICES ASSUME window > 0, NEW r \in recommended', r.at >= now - window
                 PROVE  \E i \in 1..Len(kept) :
                            Instant(kept[i].at) >= r.at /\ kept[i].desired >= r.desired
    BY <1>3, <1>9 DEF Covered, CoveredBy
  <2>2. r.at \in Nat /\ r.desired \in Nat
    BY <1>11, ReplicasAreNaturals DEF Recommendations
  <2>3. ASSUME NEW j \in 1..Len(recorded), Instant(recorded[j].at) >= r.at,
               recorded[j].desired >= r.desired
        PROVE  \E i \in 1..Len(kept) :
                   Instant(kept[i].at) >= r.at /\ kept[i].desired >= r.desired
    <3>1. recorded[j] \in Entries
      BY <1>7, ElementOfSeq
    <3>2. Instant(recorded[j].at) \in Nat
      BY <3>1, InstantType DEF Entries
    <3>3. ~Expired(recorded[j], window, clock)
      BY <1>1, <2>1, <2>2, <2>3, <3>2 DEF Expired, now
    <3>4. PICK i \in 1..Len(kept) : kept[i] = recorded[j]
      BY <1>8, <3>3
    <3>5. QED
      BY <2>3, <3>4 DEF Instant
  <2>4. CASE r = [at |-> now, desired |-> desired]
    <3>1. PICK j \in 1..Len(recorded) :
             recorded[j].at = clock /\ recorded[j].desired >= desired
      BY <1>7
    <3>2. r.at = now /\ r.desired = desired
      BY <2>4
    <3>3. QED
      BY <1>1, <2>2, <2>3, <3>1, <3>2 DEF now, Instant
  <2>5. CASE r # [at |-> now, desired |-> desired]
    <3>1. r \in recommended
      BY <1>4, <2>5
    <3>2. /\ base = hist /\ hist \in Histories /\ epoch \in Epochs
          /\ epoch.window = window /\ epoch.at <= now
      BY <1>4, <2>5
    <3>3. entries = hist.entries
      BY <1>1, <2>1, <3>2 DEF entries
    <3>4. epoch.at \in Nat
      BY <3>2 DEF Epochs
    <3>5. PICK i \in 1..Len(entries) :
             Instant(entries[i].at) >= r.at /\ entries[i].desired >= r.desired
      BY <1>1, <2>1, <2>2, <3>1, <3>2, <3>3, <3>4 DEF Covered, CoveredBy
    <3>6. PICK j \in 1..Len(recorded) :
             /\ recorded[j].desired >= entries[i].desired
             /\ recorded[j].at = entries[i].at \/ recorded[j].at = clock
      BY <1>7 DEF Represented
    <3>7. /\ recorded[j] \in Entries /\ entries[i] \in Entries
          /\ recorded[j].desired \in Nat /\ entries[i].desired \in Nat
      <4>1. recorded[j] \in Entries /\ entries[i] \in Entries
        BY <1>6, <1>7, ElementOfSeq
      <4>2. QED
        BY <4>1, ReplicasAreNaturals DEF Entries
    <3>8. recorded[j].desired >= r.desired
      BY <2>2, <3>5, <3>6, <3>7
    <3>9. r.at <= now
      <4>1. r.at <= epoch.at /\ epoch.at \in Nat
        BY <3>1, <3>2 DEF Timely, Epochs
      <4>2. QED
        BY <1>1, <2>2, <3>2, <4>1
    <3>10. Instant(recorded[j].at) >= r.at
      BY <3>5, <3>6, <3>9 DEF now, Instant
    <3>11. QED
      BY <2>3, <3>8, <3>10
  <2>6. QED
    BY <2>4, <2>5
<1>14. Timely'
  <2>1. SUFFICES ASSUME NEW r \in recommended' PROVE r.at <= now
    BY <1>3 DEF Timely
  <2>2. CASE r = [at |-> now, desired |-> desired]
    BY <1>1, <2>2
  <2>3. CASE r # [at |-> now, desired |-> desired]
    <3>1. r \in recommended /\ epoch \in Epochs /\ epoch.at <= now
      BY <1>4, <2>3
    <3>2. r.at \in Nat /\ epoch.at \in Nat /\ r.at <= epoch.at
      BY <1>11, <3>1 DEF Timely, Epochs, Recommendations
    <3>3. QED
      BY <1>1, <3>1, <3>2
  <2>4. QED
    BY <2>2, <2>3
<1>15. QED
  BY <1>3, <1>9, <1>10, <1>11, <1>12, <1>13, <1>14 DEF now

(***************************************************************************)
(* The clamp is monotone and stays between the bounds.                     *)
(***************************************************************************)
LEMMA ClampMonotone ==
    ASSUME NEW x \in Nat, NEW y \in Nat, NEW lo \in Nat, NEW hi \in Nat
    PROVE  /\ Clamp(x, lo, hi) \in Nat
           /\ lo <= hi /\ hi >= 1 => Clamp(x, lo, hi) \in Floor(lo) .. hi
           /\ x <= y => Clamp(x, lo, hi) <= Clamp(y, lo, hi)
  BY DEF Clamp, Floor, Larger, Smaller

(***************************************************************************)
(* finalDesired: between the raw recommendation and the live request it is *)
(* the request, cut at the peak and at the protected count.                *)
(***************************************************************************)
LEMMA FinalDesiredFacts ==
    ASSUME NEW h \in Histories, NEW desired \in Nat, NEW requested \in Nat,
           NEW bounds \in Bounds, NEW floor \in Nat,
           h.window > 0,
           \/ \E i \in 1..Len(h.entries) : h.entries[i].desired >= floor
           \/ coldStart(h) /\ h.protectedReplicas >= floor
    PROVE  desired < requested =>
              finalDesired(h, desired, requested, bounds)
                 >= Clamp(Smaller(requested, floor), bounds[1], bounds[2])
<1> DEFINE top == PeakOf(h.entries)
           cold == IF coldStart(h) THEN h.protectedReplicas ELSE 0
           peak == Larger(top, cold)
<1>1. /\ h.entries \in Seq(Entries) /\ h.window \in Nat
      /\ h.protectedReplicas \in Nat
  BY ReplicasAreNaturals, WindowsAssumption DEF Histories
<1>2. bounds[1] \in Nat /\ bounds[2] \in Nat
  BY BoundsAssumption
<1>3. top \in Nat /\ \A i \in 1..Len(h.entries) : h.entries[i].desired <= top
  BY <1>1, PeakFacts
<1>4. cold \in Nat
  BY <1>1
<1>5. floor <= top \/ floor <= cold
  <2>1. CASE \E i \in 1..Len(h.entries) : h.entries[i].desired >= floor
    <3>1. PICK i \in 1..Len(h.entries) : h.entries[i].desired >= floor
      BY <2>1
    <3>2. h.entries[i] \in Entries
      BY <1>1, ElementOfSeq
    <3>3. h.entries[i].desired \in Nat /\ h.entries[i].desired <= top
      BY <1>3, <3>2, ReplicasAreNaturals DEF Entries
    <3> HIDE DEF top
    <3>4. QED
      BY <1>3, <3>1, <3>3
  <2>2. CASE coldStart(h) /\ h.protectedReplicas >= floor
    BY <2>2, <1>1
  <2>3. QED
    BY <2>1, <2>2
<1> HIDE DEF top, cold
<1>6. peak \in Nat /\ floor <= peak
  BY <1>3, <1>4, <1>5 DEF Larger
<1>7. ASSUME desired < requested
      PROVE  finalDesired(h, desired, requested, bounds)
                = Clamp(Smaller(requested, peak), bounds[1], bounds[2])
  BY <1>7 DEF finalDesired, top, cold
<1> HIDE DEF peak
<1>8. /\ Smaller(requested, floor) \in Nat /\ Smaller(requested, peak) \in Nat
      /\ Smaller(requested, floor) <= Smaller(requested, peak)
  BY <1>6 DEF Smaller
<1>9. Clamp(Smaller(requested, floor), bounds[1], bounds[2])
         <= Clamp(Smaller(requested, peak), bounds[1], bounds[2])
  <2> DEFINE a == Smaller(requested, floor)
             b == Smaller(requested, peak)
             lo == bounds[1]
             hi == bounds[2]
  <2>1. a \in Nat /\ b \in Nat /\ a <= b /\ lo \in Nat /\ hi \in Nat
    BY <1>2, <1>8
  <2> HIDE DEF a, b, lo, hi
  <2>2. Clamp(a, lo, hi) <= Clamp(b, lo, hi)
    BY <2>1, ClampMonotone
  <2>3. QED
    BY <2>2 DEF a, b, lo, hi
<1>10. /\ Clamp(Smaller(requested, floor), bounds[1], bounds[2]) \in Nat
       /\ Clamp(Smaller(requested, peak), bounds[1], bounds[2]) \in Nat
  BY <1>2, <1>8 DEF Clamp, Floor, Larger, Smaller
<1>11. QED
  BY <1>7, <1>9, <1>10

(***************************************************************************)
(* The final count is within the bounds, and either the clamped raw        *)
(* recommendation or at most the clamped live request.                     *)
(***************************************************************************)
LEMMA FinalDesiredRange ==
    ASSUME NEW h \in Histories, NEW desired \in Nat, NEW requested \in Nat,
           NEW bounds \in Bounds
    PROVE  LET f == finalDesired(h, desired, requested, bounds)
           IN  /\ f \in Nat
               /\ f \in Floor(bounds[1]) .. bounds[2]
               /\ \/ f = Clamp(desired, bounds[1], bounds[2])
                  \/ f <= Clamp(requested, bounds[1], bounds[2])
               /\ desired >= requested => f = Clamp(desired, bounds[1], bounds[2])
<1> DEFINE top == PeakOf(h.entries)
           cold == IF coldStart(h) THEN h.protectedReplicas ELSE 0
           peak == Larger(top, cold)
           held == IF h.window > 0 /\ desired < requested
                   THEN Smaller(requested, peak) ELSE desired
<1>1. /\ h.entries \in Seq(Entries) /\ h.protectedReplicas \in Nat
      /\ bounds[1] \in Nat /\ bounds[2] \in Nat
  BY ReplicasAreNaturals, BoundsAssumption DEF Histories
<1>2. top \in Nat /\ cold \in Nat
  BY <1>1, PeakFacts
<1>3. finalDesired(h, desired, requested, bounds) = Clamp(held, bounds[1], bounds[2])
  BY DEF finalDesired
<1> HIDE DEF top, cold
<1>4. peak \in Nat
  BY <1>2 DEF Larger
<1> HIDE DEF peak
<1>5. /\ held \in Nat /\ (held = desired \/ held <= requested)
      /\ desired >= requested => held = desired
  BY <1>4 DEF Smaller
<1> HIDE DEF held
<1> DEFINE lo == bounds[1]
           hi == bounds[2]
<1>6. lo \in Nat /\ hi \in Nat /\ lo <= hi /\ hi >= 1
  BY BoundsAssumption
<1>7. finalDesired(h, desired, requested, bounds) = Clamp(held, lo, hi)
  BY <1>3
<1> HIDE DEF lo, hi
<1>8. Clamp(held, lo, hi) \in Nat /\ Clamp(held, lo, hi) \in Floor(lo) .. hi
  BY <1>5, <1>6, ClampMonotone
<1>9. \/ Clamp(held, lo, hi) = Clamp(desired, lo, hi)
      \/ Clamp(held, lo, hi) <= Clamp(requested, lo, hi)
  BY <1>5, <1>6, ClampMonotone
<1>10. QED
  BY <1>5, <1>7, <1>8, <1>9 DEF lo, hi

(***************************************************************************)
(* The outcome of one call: the three promises hold of it.                 *)
(***************************************************************************)
LEMMA DecideSettles ==
    ASSUME IInv,
           NEW identity \in Identities, NEW window \in Windows,
           NEW desired \in Replicas, NEW requested \in Replicas, NEW bounds \in Bounds,
           Decide(identity, window, desired, requested, bounds)
    PROVE  IInv'
<1> DEFINE final == finalDesired(hist', desired, requested, bounds)
<1>1. /\ hist' \in Histories
      /\ epoch' = [exists |-> TRUE, identity |-> identity, window |-> window,
                   at |-> Instant(clock)]
      /\ guard' \in Guards
      /\ recommended' \subseteq Recommendations
      /\ hist'.window = window
      /\ Coupled' /\ Covered' /\ Timely'
  BY DecideUpdatesHistory DEF IInv
<1>2. /\ desired \in Nat /\ requested \in Nat /\ window \in Nat
      /\ bounds[1] \in Nat /\ bounds[2] \in Nat
      /\ Instant(clock) \in Nat
  BY ReplicasAreNaturals, WindowsAssumption, BoundsAssumption, InstantType DEF IInv, TypeOK
<1>3. outcome' = [decided |-> TRUE, desired |-> desired, requested |-> requested,
                  bounds |-> bounds, final |-> final]
  BY DEF Decide
<1>4. /\ final \in Nat /\ final \in Floor(bounds[1]) .. bounds[2]
      /\ \/ final = Clamp(desired, bounds[1], bounds[2])
         \/ final <= Clamp(requested, bounds[1], bounds[2])
      /\ desired >= requested => final = Clamp(desired, bounds[1], bounds[2])
  <2> DEFINE h == hist'
  <2>1. h \in Histories
    BY <1>1
  <2> HIDE DEF h
  <2>2. /\ finalDesired(h, desired, requested, bounds) \in Nat
        /\ finalDesired(h, desired, requested, bounds) \in Floor(bounds[1]) .. bounds[2]
        /\ \/ finalDesired(h, desired, requested, bounds) = Clamp(desired, bounds[1], bounds[2])
           \/ finalDesired(h, desired, requested, bounds) <= Clamp(requested, bounds[1], bounds[2])
        /\ desired >= requested =>
              finalDesired(h, desired, requested, bounds) = Clamp(desired, bounds[1], bounds[2])
    BY <1>2, <2>1, FinalDesiredRange
  <2>3. QED
    BY <2>2 DEF h
<1>5. ASSUME NEW floor \in Nat, window > 0,
             \/ \E i \in 1..Len(hist'.entries) : hist'.entries[i].desired >= floor
             \/ coldStart(hist') /\ hist'.protectedReplicas >= floor
      PROVE  final >= Clamp(Smaller(requested, floor), bounds[1], bounds[2])
  <2>1. CASE desired < requested
    <3> DEFINE h == hist'
    <3>1. /\ h \in Histories /\ h.window > 0
          /\ \/ \E i \in 1..Len(h.entries) : h.entries[i].desired >= floor
             \/ coldStart(h) /\ h.protectedReplicas >= floor
      BY <1>1, <1>5
    <3> HIDE DEF h
    <3>2. finalDesired(h, desired, requested, bounds)
             >= Clamp(Smaller(requested, floor), bounds[1], bounds[2])
      BY <1>2, <1>5, <2>1, <3>1, FinalDesiredFacts
    <3>3. QED
      BY <3>2 DEF h
  <2>2. CASE desired >= requested
    <3> DEFINE lo == bounds[1]
               hi == bounds[2]
               s == Smaller(requested, floor)
    <3>1. lo \in Nat /\ hi \in Nat /\ s \in Nat /\ s <= desired
      BY <1>2, <1>5, <2>2 DEF Smaller
    <3> HIDE DEF lo, hi, s
    <3>2. Clamp(s, lo, hi) <= Clamp(desired, lo, hi) /\ Clamp(s, lo, hi) \in Nat
      BY <1>2, <3>1, ClampMonotone
    <3>3. QED
      BY <1>4, <2>2, <3>2 DEF lo, hi, s
  <2>3. QED
    BY <1>2, <2>1, <2>2
<1> HIDE DEF final
<1>6. TypeOK'
  <2>1. /\ outcome' \in Outcomes
        /\ outcome'.final \in Floor(outcome'.bounds[1]) .. outcome'.bounds[2]
    BY <1>3, <1>4 DEF Outcomes
  <2>2. epoch' \in Epochs
    BY <1>1, <1>2 DEF Epochs
  <2>3. clock' \in Times
    BY DEF Decide, IInv, TypeOK
  <2>4. QED
    BY <1>1, <2>1, <2>2, <2>3 DEF TypeOK
<1>7. NeverExpiresEarly'
  <2>1. SUFFICES ASSUME window > 0, NEW r \in recommended',
                        r.at >= Instant(clock) - window
                 PROVE  final >= Clamp(Smaller(requested, r.desired), bounds[1], bounds[2])
    BY <1>1, <1>3 DEF NeverExpiresEarly, Reduces, Settle
  <2>2. \E i \in 1..Len(hist'.entries) : hist'.entries[i].desired >= r.desired
    BY <1>1, <2>1 DEF Covered, CoveredBy
  <2>3. r.desired \in Nat
    BY <1>1, ReplicasAreNaturals DEF Recommendations
  <2> DEFINE floor == r.desired
  <2>4. floor \in Nat /\ \E i \in 1..Len(hist'.entries) : hist'.entries[i].desired >= floor
    BY <2>2, <2>3
  <2> HIDE DEF floor
  <2>5. final >= Clamp(Smaller(requested, floor), bounds[1], bounds[2])
    BY <1>5, <2>1, <2>4
  <2>6. QED
    BY <2>5 DEF floor
<1>8. ProtectsColdStart'
  <2>1. SUFFICES ASSUME window > 0, Instant(clock) <= guard'.at + window
                 PROVE  final >= Clamp(Smaller(requested, guard'.requested), bounds[1], bounds[2])
    BY <1>1, <1>3 DEF ProtectsColdStart, Settle
  <2>2. /\ epoch'.at = Instant(hist'.lastRecordedAt)
        /\ guard'.at = Instant(hist'.protectedAt)
        /\ guard'.requested = hist'.protectedReplicas
    <3>1. hist' # NoHistory
      BY <1>1 DEF NoHistory, Histories
    <3>2. QED
      BY <1>1, <3>1 DEF Coupled, Instant
  <2>3. coldStart(hist')
    BY <1>1, <2>1, <2>2 DEF coldStart, Instant
  <2> DEFINE floor == guard'.requested
  <2>4. floor \in Nat /\ coldStart(hist') /\ hist'.protectedReplicas >= floor
    <3>1. floor \in Nat
      BY <1>1, ReplicasAreNaturals DEF Guards
    <3>2. QED
      BY <2>2, <2>3, <3>1
  <2> HIDE DEF floor
  <2>5. final >= Clamp(Smaller(requested, floor), bounds[1], bounds[2])
    BY <1>5, <2>1, <2>4
  <2>6. QED
    BY <2>5 DEF floor
<1>9. NeverInitiatesExpansion'
  <2>1. Clamp(requested, bounds[1], bounds[2]) \in Nat
    BY <1>2 DEF Clamp, Floor, Larger, Smaller
  <2>2. QED
    BY <1>3, <1>4, <2>1 DEF NeverInitiatesExpansion, Settle
<1>10. QED
  BY <1>1, <1>6, <1>7, <1>8, <1>9 DEF IInv

(***************************************************************************)
(* Before the first call there is nothing to promise.                      *)
(***************************************************************************)
LEMMA InitEstablishesHistory == ASSUME Init PROVE IInv
<1>1. TypeOK
  BY DEF Init, TypeOK, Times, NoOutcome
<1>2. Coupled /\ Covered /\ Timely
  BY DEF Init, Coupled, Covered, Timely, NoHistory, NoEpoch, Histories, Epochs
<1>3. NeverExpiresEarly /\ ProtectsColdStart /\ NeverInitiatesExpansion
  BY DEF Init, NeverExpiresEarly, Reduces, ProtectsColdStart, NeverInitiatesExpansion,
         NoOutcome
<1>4. QED
  BY <1>1, <1>2, <1>3 DEF IInv

(***************************************************************************)
(* Nor after a restart, a lost lease or a deletion.                        *)
(***************************************************************************)
LEMMA ForgetKeeps == ASSUME IInv, Forget PROVE IInv'
  BY DEF Forget, IInv, TypeOK, Coupled, Covered, Timely, NeverExpiresEarly, Reduces,
         ProtectsColdStart, NeverInitiatesExpansion, NoHistory, NoEpoch, NoOutcome,
         Histories, Epochs

(***************************************************************************)
(* Every reachable state satisfies the inductive invariant, for every      *)
(* bucket geometry, window, sequence of recommendations and clock.         *)
(***************************************************************************)
THEOREM StabilizerInvariant == Spec => []IInv
<1>1. Init => IInv
  BY InitEstablishesHistory
<1>2. IInv /\ [Next]_vars => IInv'
  <2> SUFFICES ASSUME IInv, [Next]_vars PROVE IInv'
    OBVIOUS
  <2>1. ASSUME NEW identity \in Identities, NEW window \in Windows,
               NEW desired \in Replicas, NEW requested \in Replicas, NEW bounds \in Bounds,
               Decide(identity, window, desired, requested, bounds)
        PROVE  IInv'
    BY <2>1, DecideSettles
  <2>2. CASE Forget
    BY <2>2, ForgetKeeps
  <2>3. CASE UNCHANGED <<hist, epoch, recommended, guard, outcome>> /\ clock' \in Times
    BY <2>3 DEF IInv, TypeOK, Coupled, Covered, Timely, NeverExpiresEarly, Reduces, Settle,
                ProtectsColdStart, NeverInitiatesExpansion
  <2>4. CASE Tick
    <3>1. clock' \in Times
      BY <2>4 DEF Tick, IInv, TypeOK, Times
    <3>2. QED
      BY <2>3, <2>4, <3>1 DEF Tick
  <2>5. ASSUME NEW step \in WallSteps, StepWall(step) PROVE IInv'
    <3>1. clock' \in Times
      BY <2>5, MaxTimeAssumption DEF StepWall, IInv, TypeOK, Times
    <3>2. QED
      BY <2>3, <2>5, <3>1 DEF StepWall
  <2>6. CASE UNCHANGED vars
    BY <2>3, <2>6 DEF vars, IInv, TypeOK
  <2>7. QED
    BY <2>1, <2>2, <2>4, <2>5, <2>6 DEF Next
<1>3. QED
  BY <1>1, <1>2, PTL DEF Spec

(***************************************************************************)
(* The stabiliser's state stays in its declared sets.                      *)
(***************************************************************************)
THEOREM TypeCorrect == Spec => []TypeOK
<1>1. IInv => TypeOK
  BY DEF IInv
<1>2. QED
  BY <1>1, StabilizerInvariant, PTL

(***************************************************************************)
(* No recommendation still in the window is forgotten by the buckets.      *)
(***************************************************************************)
THEOREM NeverExpiresEarlyTheorem == Spec => []NeverExpiresEarly
<1>1. IInv => NeverExpiresEarly
  BY DEF IInv
<1>2. QED
  BY <1>1, StabilizerInvariant, PTL

(***************************************************************************)
(* The live request found at a cold start is protected for a full window.  *)
(***************************************************************************)
THEOREM ProtectsColdStartTheorem == Spec => []ProtectsColdStart
<1>1. IInv => ProtectsColdStart
  BY DEF IInv
<1>2. QED
  BY <1>1, StabilizerInvariant, PTL

(***************************************************************************)
(* History never raises a count above both the request and the new raw     *)
(* recommendation.                                                         *)
(***************************************************************************)
THEOREM NeverInitiatesExpansionTheorem == Spec => []NeverInitiatesExpansion
<1>1. IInv => NeverInitiatesExpansion
  BY DEF IInv
<1>2. QED
  BY <1>1, StabilizerInvariant, PTL
-----------------------------------------------------------------------------
(***************************************************************************)
(* The other half of scale-down stabilisation: the buckets keep no more    *)
(* than they must, and the bucketed history implements the abstract        *)
(* rolling maximum, for every bucket geometry, window and sequence of      *)
(* recommendations.                                                        *)
(***************************************************************************)

(***************************************************************************)
(* Buckets follow the wall reading of a clock and expiry its monotonic     *)
(* one.  The bound on retention presupposes that the two do not part: that *)
(* the clock has only one, or that nobody sets it.                         *)
(***************************************************************************)
SteadyClock == Monotonic => WallSteps = {}

(***************************************************************************)
(* Whole buckets: a later time is in no earlier bucket, two times of one   *)
(* bucket are less than a width apart, and k widths span k more buckets.   *)
(***************************************************************************)
LEMMA BucketFacts ==
    ASSUME NEW w \in Nat \ {0}, NEW x \in Nat, NEW y \in Nat, NEW k \in Nat
    PROVE  /\ x \div w \in Nat
           /\ x <= y => x \div w <= y \div w
           /\ x \div w = y \div w => y < x + w
           /\ y <= x + w * k => y \div w <= (x \div w) + k
<1> DEFINE p == x \div w
           q == y \div w
           r == x % w
           s == y % w
<1>1. /\ p \in Nat /\ q \in Nat /\ r \in 0..(w - 1) /\ s \in 0..(w - 1)
      /\ x = w * p + r /\ y = w * q + s
  OBVIOUS
<1> HIDE DEF p, q, r, s
<1>2. w * p \in Nat /\ w * q \in Nat /\ w * k \in Nat
  BY <1>1
<1>3. p = q => y < x + w
  BY <1>1, <1>2
<1>4. ASSUME NEW d \in Nat, y <= x + w * d PROVE q <= p + d
  <2>1. SUFFICES ASSUME q >= p + d + 1 PROVE FALSE
    BY <1>1
  <2>2. PICK e \in Nat : q = p + d + 1 + e
    <3>1. q - (p + d + 1) \in Nat /\ q = p + d + 1 + (q - (p + d + 1))
      BY <1>1, <2>1
    <3>2. QED
      BY <3>1
  <2>3. w * q = w * p + w * d + w + w * e
    BY <1>1, <2>2
  <2>4. w * d \in Nat /\ w * e \in Nat
    OBVIOUS
  <2>5. QED
    BY <1>1, <1>2, <1>4, <2>3, <2>4
<1>5. x <= y => p <= q
  <2>1. SUFFICES ASSUME x <= y, q + 1 <= p PROVE FALSE
    BY <1>1
  <2>2. PICK e \in Nat : p = q + 1 + e
    <3>1. p - (q + 1) \in Nat /\ p = q + 1 + (p - (q + 1))
      BY <1>1, <2>1
    <3>2. QED
      BY <3>1
  <2>3. w * p = w * q + w + w * e /\ w * e \in Nat
    BY <1>1, <2>2
  <2>4. QED
    BY <1>1, <1>2, <2>1, <2>3
<1>6. QED
  BY <1>1, <1>3, <1>4, <1>5 DEF p, q

(***************************************************************************)
(* bucketWidth: positive, and Divisor of them span the window.             *)
(***************************************************************************)
LEMMA WidthFacts ==
    ASSUME NEW window \in Nat
    PROVE  Width(window) \in Nat \ {0} /\ window <= Width(window) * Divisor
<1> DEFINE x == window + Divisor - 1
           q == x \div Divisor
<1>1. /\ Divisor \in Nat \ {0} /\ MinWidth \in Nat \ {0} /\ x \in Nat
  BY DivisorAssumption, MinWidthAssumption
<1>2. /\ q \in Nat /\ x = Divisor * q + (x % Divisor) /\ x % Divisor \in 0..(Divisor - 1)
  <2> HIDE DEF x
  <2>1. QED
    BY <1>1
<1>3. window <= Divisor * q
  <2>1. Divisor * q \in Nat
    BY <1>1, <1>2
  <2>2. x = window + Divisor - 1
    OBVIOUS
  <2> HIDE DEF x, q
  <2>3. QED
    BY <1>1, <1>2, <2>1, <2>2
<1>4. Width(window) = Larger(MinWidth, q)
  BY DEF Width, CeilDiv
<1> HIDE DEF q
<1>5. CASE MinWidth >= q
  <2>1. Width(window) = MinWidth
    BY <1>4, <1>5 DEF Larger
  <2>2. PICK e \in Nat : MinWidth = q + e
    <3>1. MinWidth - q \in Nat /\ MinWidth = q + (MinWidth - q)
      BY <1>1, <1>2, <1>5
    <3>2. QED
      BY <3>1
  <2>3. MinWidth * Divisor = Divisor * q + Divisor * e /\ Divisor * e \in Nat /\ Divisor * q \in Nat
    BY <1>1, <1>2, <2>2
  <2>4. QED
    BY <1>1, <1>3, <2>1, <2>3
<1>6. CASE MinWidth < q
  <2>1. Width(window) = q /\ q \in Nat \ {0}
    BY <1>1, <1>2, <1>4, <1>6 DEF Larger
  <2>2. Divisor * q = q * Divisor
    BY <1>1, <1>2
  <2>3. QED
    BY <1>3, <2>1, <2>2
<1>7. QED
  BY <1>1, <1>2, <1>5, <1>6
-----------------------------------------------------------------------------
\* Entries are in the order of their buckets, no two share one, none is of the
\* future of the wall time latest.
Orderly(entries, window, latest) ==
    /\ \A i \in 1..Len(entries) :
          Instant(entries[i].at) = entries[i].at.wall /\ entries[i].at.wall <= latest
    /\ \A i, j \in 1..Len(entries) : i < j =>
          Bucket(entries[j].at, window) - Bucket(entries[i].at, window) >= j - i

\* The count of an entry was recommended in the bucket of the entry.
Sourced(entries, recs, window) ==
    \A i \in 1..Len(entries) : \E r \in recs :
        /\ r.desired = entries[i].desired
        /\ r.at \div Width(window) = Bucket(entries[i].at, window)

(***************************************************************************)
(* Entries are typed, their buckets are natural numbers.                   *)
(***************************************************************************)
LEMMA EntryFacts ==
    ASSUME NEW entries \in Seq(Entries), NEW window \in Nat, NEW i \in 1..Len(entries)
    PROVE  /\ entries[i] \in Entries /\ entries[i].at \in Times /\ entries[i].at.wall \in Nat
           /\ entries[i].desired \in Nat
           /\ Bucket(entries[i].at, window) \in Nat
<1>1. entries[i] \in Entries
  BY ElementOfSeq
<1>2. entries[i].at \in Times /\ entries[i].at.wall \in Nat /\ entries[i].desired \in Nat
  BY <1>1, ReplicasAreNaturals DEF Entries, Times
<1>3. Bucket(entries[i].at, window) \in Nat
  BY <1>2, WidthFacts, BucketFacts, 0 \in Nat DEF Bucket
<1>4. QED
  BY <1>1, <1>2, <1>3

(***************************************************************************)
(* record: a merged or an appended entry keeps the order of the buckets,   *)
(* and its count was recommended in its bucket.                            *)
(***************************************************************************)
LEMMA RecordKeeps ==
    ASSUME NEW entries \in Seq(Entries), NEW window \in Nat, NEW now \in Times,
           NEW desired \in Replicas, NEW recs \in SUBSET Recommendations,
           Instant(now) = now.wall, [at |-> Instant(now), desired |-> desired] \in recs,
           Orderly(entries, window, now.wall), Sourced(entries, recs, window)
    PROVE  LET r == record(entries, window, now, desired)
           IN  Orderly(r, window, now.wall) /\ Sourced(r, recs, window)
<1> DEFINE n == Len(entries)
           w == Width(window)
           r == record(entries, window, now, desired)
<1>1. n \in Nat /\ now.wall \in Nat /\ desired \in Nat /\ w \in Nat \ {0}
  BY LenProperties, ReplicasAreNaturals, WidthFacts DEF Times
<1>2. Bucket(now, window) \in Nat /\ Bucket(now, window) = now.wall \div w
  BY <1>1, BucketFacts, 0 \in Nat DEF Bucket
<1>3. ASSUME NEW i \in 1..n
      PROVE  Bucket(entries[i].at, window) <= Bucket(now, window)
  <2>1. entries[i].at.wall <= now.wall /\ entries[i].at.wall \in Nat
    BY EntryFacts DEF Orderly
  <2>2. QED
    BY <1>1, <2>1, BucketFacts, 0 \in Nat DEF Bucket
<1>4. CASE n > 0 /\ Bucket(entries[n].at, window) = Bucket(now, window)
  <2> DEFINE e == Entry(now, Larger(entries[n].desired, desired))
  <2>1. n \in 1..n
    BY <1>1, <1>4
  <2>2. e \in Entries /\ e.at = now /\ (e.desired = desired \/ e.desired = entries[n].desired)
    <3>1. entries[n] \in Entries
      BY <2>1, EntryFacts
    <3>2. QED
      BY <3>1 DEF Entry, Larger, Entries
  <2>3. r = [entries EXCEPT ![n] = e]
    BY <1>4 DEF record
  <2> HIDE DEF e
  <2>4. /\ Len(r) = n
        /\ \A j \in 1..n : r[j] = IF j = n THEN e ELSE entries[j]
    BY <2>1, <2>2, <2>3, ExceptSeq
  <2> HIDE DEF r
  <2>5. \A j \in 1..n : Bucket(r[j].at, window) = Bucket(entries[j].at, window)
    BY <1>4, <2>2, <2>4
  <2>6. Orderly(r, window, now.wall)
    <3>1. \A i \in 1..n : Instant(r[i].at) = r[i].at.wall /\ r[i].at.wall <= now.wall
      BY <1>1, <2>2, <2>4 DEF Orderly
    <3>2. QED
      BY <2>4, <2>5, <3>1 DEF Orderly
  <2>7. ASSUME NEW i \in 1..n
        PROVE  \E x \in recs : /\ x.desired = r[i].desired
                               /\ x.at \div w = Bucket(r[i].at, window)
    <3>1. PICK x \in recs : /\ x.desired = entries[i].desired
                            /\ x.at \div w = Bucket(entries[i].at, window)
      BY DEF Sourced
    <3>2. CASE r[i].desired = entries[i].desired
      BY <2>5, <3>1, <3>2
    <3>3. CASE r[i].desired # entries[i].desired
      <4>1. i = n /\ r[i].desired = desired
        BY <2>2, <2>4, <3>3
      <4>2. Instant(now) \div w = Bucket(r[i].at, window)
        BY <1>2, <1>4, <2>5, <4>1
      <4> DEFINE y == [at |-> Instant(now), desired |-> desired]
      <4>3. y \in recs /\ y.desired = desired /\ y.at = Instant(now)
        OBVIOUS
      <4> HIDE DEF y
      <4>4. QED
        BY <4>1, <4>2, <4>3
    <3>4. QED
      BY <3>2, <3>3
  <2>8. QED
    BY <2>4, <2>6, <2>7 DEF Sourced, r
<1>5. CASE ~ (n > 0 /\ Bucket(entries[n].at, window) = Bucket(now, window))
  <2> DEFINE e == Entry(now, desired)
  <2>1. r = Append(entries, e)
    BY <1>5 DEF record
  <2>2. e \in Entries /\ e.at = now /\ e.desired = desired
    BY DEF Entry, Entries
  <2> HIDE DEF e
  <2>3. /\ Len(r) = n + 1 /\ r[n + 1] = e
        /\ \A j \in 1..n : r[j] = entries[j]
    BY <2>1, <2>2, AppendProperties
  <2> HIDE DEF r
  <2>4. ASSUME NEW i \in 1..(n + 1)
        PROVE  i = n + 1 \/ i \in 1..n
    BY <1>1
  <2>5. ASSUME NEW i \in 1..n
        PROVE  Bucket(now, window) - Bucket(entries[i].at, window) >= n + 1 - i
    <3>1. n \in 1..n
      BY <1>1
    <3>2. Bucket(entries[n].at, window) < Bucket(now, window)
      <4>1. Bucket(entries[n].at, window) # Bucket(now, window)
        BY <1>1, <1>5, <3>1
      <4>2. Bucket(entries[n].at, window) \in Nat
        BY <3>1, EntryFacts
      <4>3. Bucket(entries[n].at, window) <= Bucket(now, window)
        BY <1>3, <3>1
      <4>4. QED
        BY <1>2, <4>1, <4>2, <4>3
    <3>3. i = n \/ Bucket(entries[n].at, window) - Bucket(entries[i].at, window) >= n - i
      BY <1>1, <3>1 DEF Orderly
    <3>4. Bucket(entries[n].at, window) \in Nat /\ Bucket(entries[i].at, window) \in Nat
      BY <3>1, EntryFacts
    <3>5. CASE i = n
      BY <1>1, <1>2, <3>2, <3>4, <3>5
    <3>6. CASE i # n
      BY <1>1, <1>2, <3>2, <3>3, <3>4, <3>6
    <3>7. QED
      BY <3>5, <3>6
  <2>6. Orderly(r, window, now.wall)
    <3>1. ASSUME NEW i \in 1..(n + 1)
          PROVE  Instant(r[i].at) = r[i].at.wall /\ r[i].at.wall <= now.wall
      <4>1. CASE i = n + 1
        <5>1. r[i].at = now
          BY <2>2, <2>3, <4>1
        <5>2. QED
          BY <1>1, <5>1
      <4>2. CASE i \in 1..n
        BY <2>3, <4>2 DEF Orderly
      <4>3. QED
        BY <2>4, <4>1, <4>2
    <3>2. ASSUME NEW i \in 1..(n + 1), NEW j \in 1..(n + 1), i < j
          PROVE  Bucket(r[j].at, window) - Bucket(r[i].at, window) >= j - i
      <4>1. i \in 1..n
        BY <1>1, <3>2
      <4>2. CASE j = n + 1
        BY <2>2, <2>3, <2>5, <4>1, <4>2
      <4>3. CASE j # n + 1
        <5>1. j \in 1..n
          BY <2>4, <4>3
        <5>2. QED
          BY <2>3, <3>2, <4>1, <5>1 DEF Orderly
      <4>4. QED
        BY <4>2, <4>3
    <3>3. QED
      BY <2>3, <3>1, <3>2 DEF Orderly
  <2>7. ASSUME NEW i \in 1..(n + 1)
        PROVE  \E x \in recs : /\ x.desired = r[i].desired
                               /\ x.at \div w = Bucket(r[i].at, window)
    <3>1. CASE i \in 1..n
      BY <2>3, <3>1 DEF Sourced
    <3>2. CASE i = n + 1
      <4> DEFINE y == [at |-> Instant(now), desired |-> desired]
      <4>1. y \in recs /\ y.desired = desired /\ y.at = Instant(now)
        OBVIOUS
      <4> HIDE DEF y
      <4>2. Instant(now) \div w = Bucket(now, window)
        BY <1>2
      <4>3. QED
        BY <2>2, <2>3, <3>2, <4>1, <4>2
    <3>3. QED
      BY <2>4, <3>1, <3>2
  <2>8. QED
    BY <2>3, <2>6, <2>7 DEF Sourced, r
<1>6. QED
  BY <1>4, <1>5

(***************************************************************************)
(* maxInWindow: what it keeps is the unexpired end of an orderly history,  *)
(* one entry per bucket and at most Divisor + 1 of them.                   *)
(***************************************************************************)
LEMMA PruneKeeps ==
    ASSUME NEW entries \in Seq(Entries), NEW window \in Nat, NEW now \in Times,
           NEW recs \in SUBSET Recommendations,
           Instant(now) = now.wall,
           Orderly(entries, window, now.wall), Sourced(entries, recs, window)
    PROVE  LET p == prune(entries, window, now)
           IN  /\ Orderly(p, window, now.wall) /\ Sourced(p, recs, window)
               /\ \A i \in 1..Len(p) : p[i].at.wall >= now.wall - window
               /\ Len(p) <= Divisor + 1
<1> DEFINE n == Len(entries)
           live == {i \in 1..n : ~Expired(entries[i], window, now)}
           p == prune(entries, window, now)
           w == Width(window)
<1>1. /\ n \in Nat /\ now.wall \in Nat /\ w \in Nat \ {0} /\ Divisor \in Nat \ {0}
      /\ window <= w * Divisor
  BY LenProperties, WidthFacts, DivisorAssumption DEF Times
<1>2. CASE live = {}
  <2>1. p = <<>> /\ Len(p) = 0
    BY <1>2 DEF prune
  <2>2. QED
    BY <1>1, <2>1 DEF Orderly, Sourced
<1>3. CASE live # {}
  <2> DEFINE k == CHOOSE i \in live : \A j \in live : i <= j
  <2>1. k \in live
    <3>1. live \subseteq Nat
      OBVIOUS
    <3> HIDE DEF live
    <3>2. \E i \in live : \A j \in live : i <= j
      BY <1>3, <3>1, LeastElement
    <3>3. QED
      BY <3>2
  <2>2. p = SubSeq(entries, k, n)
    BY <1>3 DEF prune
  <2>3. k \in 1..n /\ ~Expired(entries[k], window, now)
    BY <2>1
  <2> HIDE DEF k
  <2>4. /\ Len(p) = n - k + 1
        /\ \A j \in 1..(n - k + 1) : p[j] = entries[k + j - 1]
    <3>1. k \in Int /\ n \in Int /\ k <= n
      BY <1>1, <2>3
    <3>2. \A i \in k..n : entries[i] \in Entries
      BY <1>1, <2>3, EntryFacts
    <3>3. QED
      BY <2>2, <3>1, <3>2, SubSeqProperties
  <2> DEFINE m == n - k + 1
  <2>5. m \in Nat \ {0} /\ Len(p) = m
    BY <1>1, <2>3, <2>4
  <2>6. ASSUME NEW i \in 1..m
        PROVE  k + i - 1 \in 1..n /\ p[i] = entries[k + i - 1]
    BY <1>1, <2>3, <2>4
  <2> HIDE DEF p, live
  <2>7. Orderly(p, window, now.wall)
    <3>1. ASSUME NEW i \in 1..m
          PROVE  Instant(p[i].at) = p[i].at.wall /\ p[i].at.wall <= now.wall
      BY <2>6 DEF Orderly
    <3>2. ASSUME NEW i \in 1..m, NEW j \in 1..m, i < j
          PROVE  Bucket(p[j].at, window) - Bucket(p[i].at, window) >= j - i
      <4>1. k + i - 1 < k + j - 1 /\ (k + j - 1) - (k + i - 1) = j - i
        BY <1>1, <2>3, <3>2
      <4> DEFINE a == k + i - 1
                 b == k + j - 1
      <4>2. a \in 1..n /\ b \in 1..n /\ a < b /\ b - a = j - i
            /\ p[i] = entries[a] /\ p[j] = entries[b]
        BY <2>6, <4>1
      <4> HIDE DEF a, b
      <4>3. Bucket(entries[b].at, window) - Bucket(entries[a].at, window) >= b - a
        BY <4>2 DEF Orderly
      <4>4. QED
        BY <4>2, <4>3
    <3>3. QED
      BY <2>5, <3>1, <3>2 DEF Orderly
  <2>8. Sourced(p, recs, window)
    BY <2>5, <2>6 DEF Sourced
  <2>9. entries[k].at.wall >= now.wall - window
    <3> DEFINE x == entries[k].at.wall
    <3>1. x \in Nat
      BY <2>3, EntryFacts
    <3>2. Instant(entries[k].at) = x
      BY <2>3 DEF Orderly
    <3>3. ~(x < now.wall - window)
      BY <2>3, <3>2 DEF Expired
    <3> HIDE DEF x
    <3>4. x >= now.wall - window
      BY <1>1, <3>1, <3>3
    <3>5. QED
      BY <3>4 DEF x
  <2>10. ASSUME NEW i \in 1..m PROVE p[i].at.wall >= now.wall - window
    <3> DEFINE a == k + i - 1
    <3>1. a \in 1..n /\ p[i] = entries[a] /\ (a = k \/ k < a)
      BY <1>1, <2>3, <2>6
    <3> HIDE DEF a
    <3>2. CASE a = k
      BY <2>9, <3>1, <3>2
    <3>3. CASE k < a
      <4>1. Bucket(entries[a].at, window) - Bucket(entries[k].at, window) >= a - k
        BY <2>3, <3>1, <3>3 DEF Orderly
      <4> DEFINE x == entries[k].at.wall
                 y == entries[a].at.wall
                 c == Bucket(entries[k].at, window)
                 d == Bucket(entries[a].at, window)
      <4>2. /\ x \in Nat /\ y \in Nat /\ c \in Nat /\ d \in Nat
            /\ a \in Nat /\ k \in Nat
        <5>1. x \in Nat /\ c \in Nat /\ k \in Nat
          BY <2>3, EntryFacts, SMTT(30)
        <5>2. y \in Nat /\ d \in Nat /\ a \in Nat
          BY <3>1, EntryFacts, SMTT(30)
        <5>3. QED
          BY <5>1, <5>2
      <4>3. y <= x => d <= c
        BY <1>1, <4>2, BucketFacts, 0 \in Nat DEF Bucket
      <4> HIDE DEF x, y, c, d
      <4>4. d - c >= a - k
        BY <4>1 DEF c, d
      <4>5. y > x
        BY <3>3, <4>2, <4>3, <4>4
      <4>6. x >= now.wall - window
        BY <2>9 DEF x
      <4>7. y >= now.wall - window
        BY <1>1, <4>2, <4>5, <4>6
      <4>8. QED
        BY <3>1, <4>7 DEF y
    <3>4. QED
      BY <3>1, <3>2, <3>3
  <2>11. m <= Divisor + 1
    <3>1. CASE m = 1
      BY <1>1, <3>1
    <3>2. CASE m # 1
      <4>1. k < n /\ n \in 1..n
        BY <1>1, <2>3, <3>2
      <4>2. Bucket(entries[n].at, window) - Bucket(entries[k].at, window) >= n - k
        BY <2>3, <4>1 DEF Orderly
      <4> DEFINE x == entries[k].at.wall
                 y == entries[n].at.wall
                 c == Bucket(entries[k].at, window)
                 d == Bucket(entries[n].at, window)
                 all == w * Divisor
      <4>3. x \in Nat /\ y \in Nat /\ c \in Nat /\ d \in Nat /\ all \in Nat
        <5>1. x \in Nat /\ c \in Nat
          BY <2>3, EntryFacts
        <5>2. y \in Nat /\ d \in Nat
          BY <4>1, EntryFacts
        <5>3. all \in Nat
          BY <1>1
        <5>4. QED
          BY <5>1, <5>2, <5>3
      <4>4. y <= now.wall /\ x >= now.wall - window /\ window <= all /\ d - c >= n - k
        BY <1>1, <2>9, <4>1, <4>2 DEF Orderly
      <4>5. y <= x + all => d <= c + Divisor
        BY <1>1, <4>3, BucketFacts DEF Bucket
      <4> HIDE DEF x, y, c, d, all
      <4>6. y <= x + all
        BY <1>1, <4>3, <4>4
      <4>7. QED
        BY <1>1, <2>3, <4>3, <4>4, <4>5, <4>6
    <3>3. QED
      BY <3>1, <3>2
  <2>12. QED
    BY <2>5, <2>7, <2>8, <2>10, <2>11 DEF p
<1>4. QED
  BY <1>2, <1>3
-----------------------------------------------------------------------------
(***************************************************************************)
(* A count that decides a reduction was recommended less than a bucket     *)
(* before the window began, or later.                                      *)
(***************************************************************************)
LEMMA PeakIsRecent ==
    ASSUME NEW entries \in Seq(Entries), NEW window \in Nat, NEW now \in Times,
           NEW recs \in SUBSET Recommendations, Len(entries) > 0,
           Orderly(entries, window, now.wall), Sourced(entries, recs, window),
           \A i \in 1..Len(entries) : entries[i].at.wall >= now.wall - window
    PROVE  \E r \in recs : /\ r.desired = PeakOf(entries)
                           /\ r.at > now.wall - window - Width(window)
<1>1. Len(entries) \in Nat
  BY LenProperties
<1>2. /\ PeakOf(entries) \in Nat
      /\ \A i \in 1..Len(entries) : entries[i].desired <= PeakOf(entries)
      /\ PeakOf(entries) = 0 \/ \E i \in 1..Len(entries) : entries[i].desired = PeakOf(entries)
  BY PeakFacts
<1>3. PICK i \in 1..Len(entries) : entries[i].desired = PeakOf(entries)
  <2>1. CASE PeakOf(entries) = 0
    <3>1. 1 \in 1..Len(entries)
      BY <1>1
    <3>2. entries[1].desired \in Nat /\ entries[1].desired <= PeakOf(entries)
      BY <1>2, <3>1, EntryFacts
    <3>3. entries[1].desired = PeakOf(entries)
      BY <2>1, <3>2
    <3>4. QED
      BY <3>1, <3>3
  <2>2. QED
    BY <1>2, <2>1
<1>4. PICK r \in recs : /\ r.desired = entries[i].desired
                        /\ r.at \div Width(window) = Bucket(entries[i].at, window)
  BY DEF Sourced
<1> DEFINE x == r.at
           y == entries[i].at.wall
           w == Width(window)
<1>5. x \in Nat /\ y \in Nat /\ w \in Nat \ {0} /\ now.wall \in Nat
  <2>1. x \in Nat
    BY DEF Recommendations
  <2>2. y \in Nat
    BY EntryFacts
  <2>3. QED
    BY <2>1, <2>2, WidthFacts DEF Times
<1>6. x \div w = y \div w
  BY <1>4 DEF Bucket
<1>7. y >= now.wall - window
  OBVIOUS
<1> HIDE DEF x, y, w
<1>8. y < x + w
  BY <1>5, <1>6, BucketFacts, 0 \in Nat
<1>9. x > now.wall - window - w
  BY <1>5, <1>7, <1>8
<1>10. QED
  BY <1>3, <1>4, <1>9 DEF x, w
-----------------------------------------------------------------------------
(***************************************************************************)
(* What these theorems add to the invariant of the first part: the         *)
(* clock has one reading, the stored entries are orderly and sourced in    *)
(* the recommendations, and none has expired.                              *)
(***************************************************************************)
ClockInvariant ==
    /\ Instant(clock) = clock.wall /\ clock.wall <= MaxTime
    /\ hist \in Histories => Instant(hist.lastRecordedAt) = hist.lastRecordedAt.wall

Recent(h, recs) ==
    /\ Orderly(h.entries, h.window, h.lastRecordedAt.wall)
    /\ Sourced(h.entries, recs, h.window)
    /\ \A i \in 1..Len(h.entries) : h.entries[i].at.wall >= h.lastRecordedAt.wall - h.window
    /\ Len(h.entries) \in 1..(Divisor + 1)

RInv ==
    /\ IInv
    /\ ClockInvariant
    /\ hist \in Histories => Recent(hist, recommended)
    /\ RetainsOneBucketLonger

(***************************************************************************)
(* stabilizeRecommendation records into the history it kept, if it is of   *)
(* the same identity and window and not of the future, or into none.       *)
(***************************************************************************)
LEMMA HistoryStep ==
    ASSUME TypeOK, Coupled,
           NEW identity \in Identities, NEW window \in Windows,
           NEW desired \in Replicas, NEW requested \in Replicas, NEW bounds \in Bounds,
           Decide(identity, window, desired, requested, bounds)
    PROVE  /\ hist'.lastRecordedAt = clock
           /\ [at |-> Instant(clock), desired |-> desired] \in recommended'
           /\ \E entries \in Seq(Entries) :
                 /\ hist'.entries = prune(record(entries, window, clock, desired), window, clock)
                 /\ \/ entries = <<>>
                    \/ /\ hist \in Histories
                       /\ entries = hist.entries /\ hist.window = window
                       /\ Instant(hist.lastRecordedAt) <= Instant(clock)
                       /\ recommended \subseteq recommended'
<1> DEFINE now == Instant(clock)
           same == /\ epoch.exists
                   /\ epoch.identity = identity
                   /\ epoch.window = window
                   /\ epoch.at <= now
           fresh == NewHistory(identity, window, clock, requested)
           base == IF Invalidated(hist, identity, window, clock) THEN fresh ELSE hist
           entries == IF window = 0 THEN <<>> ELSE base.entries
           kept == prune(record(entries, window, clock, desired), window, clock)
<1>1. hist' = [base EXCEPT !.lastRecordedAt = clock, !.entries = kept]
  BY DEF Decide, Remember
<1>2. /\ recommended' = (IF same THEN recommended ELSE {})
                            \cup {[at |-> now, desired |-> desired]}
  BY DEF Decide, Note
<1>3. CASE Invalidated(hist, identity, window, clock)
  <2>1. base = fresh /\ entries = <<>>
    BY <1>3 DEF NewHistory
  <2>2. hist'.lastRecordedAt = clock /\ hist'.entries = kept
    BY <1>1, <2>1 DEF NewHistory
  <2>3. entries \in Seq(Entries)
    BY <2>1, EmptySeq
  <2>4. QED
    BY <1>2, <2>1, <2>2, <2>3
<1>4. CASE ~Invalidated(hist, identity, window, clock)
  <2>1. base = hist /\ hist.exists /\ hist.identity = identity /\ hist.window = window
        /\ ~Before(clock, hist.lastRecordedAt)
    BY <1>4 DEF Invalidated
  <2>2. hist # NoHistory
    BY <2>1 DEF NoHistory
  <2>3. /\ hist \in Histories /\ epoch \in Epochs
        /\ epoch.identity = hist.identity /\ epoch.window = hist.window
        /\ epoch.at = Instant(hist.lastRecordedAt)
    BY <2>2 DEF Coupled
  <2>4. now \in Nat /\ Instant(hist.lastRecordedAt) \in Nat
    BY <2>3, InstantType DEF TypeOK, Histories
  <2>5. Instant(hist.lastRecordedAt) <= now
    BY <2>1, <2>4 DEF Before
  <2>6. same
    BY <2>1, <2>3, <2>5 DEF Epochs
  <2>7. hist'.lastRecordedAt = clock /\ hist'.entries = kept
    BY <1>1, <2>1, <2>3 DEF Histories
  <2>8. entries \in Seq(Entries) /\ (entries = <<>> \/ entries = hist.entries)
    BY <2>1, <2>3, EmptySeq DEF Histories
  <2>9. recommended \subseteq recommended'
    BY <1>2, <2>6
  <2> HIDE DEF entries, same, base, now
  <2>10. Instant(hist.lastRecordedAt) <= Instant(clock)
    BY <2>5 DEF now
  <2>11. [at |-> Instant(clock), desired |-> desired] \in recommended'
    BY <1>2 DEF now
  <2>12. QED
    BY <2>1, <2>3, <2>7, <2>8, <2>9, <2>10, <2>11
<1>5. QED
  BY <1>3, <1>4

(***************************************************************************)
(* One call of stabilizeRecommendation keeps the stored entries orderly,   *)
(* sourced, unexpired and few.                                             *)
(***************************************************************************)
LEMMA DecideKeepsRecent ==
    ASSUME RInv,
           NEW identity \in Identities, NEW window \in Windows,
           NEW desired \in Replicas, NEW requested \in Replicas, NEW bounds \in Bounds,
           Decide(identity, window, desired, requested, bounds)
    PROVE  Recent(hist', recommended')
<1>1. /\ window \in Nat /\ clock \in Times /\ clock.wall \in Nat /\ desired \in Nat
      /\ Instant(clock) = clock.wall
  BY WindowsAssumption, ReplicasAreNaturals DEF RInv, IInv, TypeOK, Times, ClockInvariant
<1>2. hist'.window = window /\ recommended' \in SUBSET Recommendations
  BY DecideUpdatesHistory DEF RInv, IInv
<1>3. TypeOK /\ Coupled
  BY DEF RInv, IInv
<1>4. /\ hist'.lastRecordedAt = clock
      /\ [at |-> Instant(clock), desired |-> desired] \in recommended'
  BY <1>3, HistoryStep
<1>5. PICK entries \in Seq(Entries) :
         /\ hist'.entries = prune(record(entries, window, clock, desired), window, clock)
         /\ \/ entries = <<>>
            \/ /\ hist \in Histories
               /\ entries = hist.entries /\ hist.window = window
               /\ Instant(hist.lastRecordedAt) <= Instant(clock)
               /\ recommended \subseteq recommended'
  BY <1>3, HistoryStep
<1> DEFINE recs == recommended'
           recorded == record(entries, window, clock, desired)
           kept == prune(recorded, window, clock)
<1>6. Orderly(entries, window, clock.wall) /\ Sourced(entries, recs, window)
  <2>1. CASE entries = <<>>
    BY <2>1 DEF Orderly, Sourced
  <2>2. CASE /\ hist \in Histories
             /\ entries = hist.entries /\ hist.window = window
             /\ Instant(hist.lastRecordedAt) <= Instant(clock)
             /\ recommended \subseteq recommended'
    <3>1. /\ Orderly(entries, window, hist.lastRecordedAt.wall)
          /\ Sourced(entries, recommended, window)
          /\ hist.lastRecordedAt.wall <= clock.wall /\ hist.lastRecordedAt.wall \in Nat
      BY <1>1, <2>2 DEF RInv, Recent, ClockInvariant, Histories, Times
    <3>2. ASSUME NEW i \in 1..Len(entries) PROVE entries[i].at.wall <= clock.wall
      <4>1. entries[i].at.wall <= hist.lastRecordedAt.wall /\ entries[i].at.wall \in Nat
        BY <1>1, <3>1, EntryFacts DEF Orderly
      <4>2. QED
        BY <1>1, <3>1, <4>1
    <3>3. Orderly(entries, window, clock.wall)
      BY <3>1, <3>2 DEF Orderly
    <3>4. Sourced(entries, recs, window)
      BY <2>2, <3>1 DEF Sourced
    <3>5. QED
      BY <3>3, <3>4
  <2>3. QED
    BY <1>5, <2>1, <2>2
<1>7. recs \in SUBSET Recommendations /\ [at |-> Instant(clock), desired |-> desired] \in recs
  BY <1>2, <1>4
<1> HIDE DEF recs
<1>8. /\ recorded \in Seq(Entries)
      /\ \E j \in 1..Len(recorded) : recorded[j].at = clock
  <2>1. recorded \in Seq(Entries)
    BY <1>1, RecordFacts
  <2>2. \E j \in 1..Len(recorded) : recorded[j].at = clock /\ recorded[j].desired >= desired
    BY <1>1, RecordFacts
  <2> HIDE DEF recorded
  <2>3. QED
    BY <2>1, <2>2
<1>9. Orderly(recorded, window, clock.wall) /\ Sourced(recorded, recs, window)
  BY <1>1, <1>6, <1>7, RecordKeeps
<1> HIDE DEF recorded
<1>10. /\ Orderly(kept, window, clock.wall) /\ Sourced(kept, recs, window)
       /\ \A i \in 1..Len(kept) : kept[i].at.wall >= clock.wall - window
       /\ Len(kept) <= Divisor + 1
  BY <1>1, <1>7, <1>8, <1>9, PruneKeeps
<1>11. kept \in Seq(Entries) /\ \E j \in 1..Len(kept) : TRUE
  <2>1. PICK j \in 1..Len(recorded) : recorded[j].at = clock
    BY <1>8
  <2>2. ~Expired(recorded[j], window, clock)
    BY <1>1, <2>1 DEF Expired
  <2>3. QED
    BY <1>1, <1>8, <2>2, PruneFacts
<1> HIDE DEF kept
<1>12. Len(kept) \in 1..(Divisor + 1)
  BY <1>10, <1>11, LenProperties, DivisorAssumption
<1>13. hist'.entries = kept
  BY <1>5 DEF kept, recorded
<1>14. QED
  BY <1>2, <1>4, <1>10, <1>12, <1>13 DEF Recent, recs

(***************************************************************************)
(* When the guard is over, or there is none, a reduction is held at the    *)
(* peak or at the request.                                                 *)
(***************************************************************************)
LEMMA HeldFacts ==
    ASSUME NEW h \in Histories, NEW desired \in Nat, NEW requested \in Nat,
           NEW bounds \in Bounds,
           finalDesired(h, desired, requested, bounds) > Clamp(desired, bounds[1], bounds[2])
    PROVE  /\ h.window > 0 /\ desired < requested
           /\ ~coldStart(h) => finalDesired(h, desired, requested, bounds)
                                  <= Clamp(PeakOf(h.entries), bounds[1], bounds[2])
<1> DEFINE top == PeakOf(h.entries)
           lo == bounds[1]
           hi == bounds[2]
<1>1. lo \in Nat /\ hi \in Nat /\ Clamp(desired, lo, hi) \in Nat
  BY BoundsAssumption DEF Clamp, Floor, Larger, Smaller
<1>2. top \in Nat
  <2>1. h.entries \in Seq(Entries)
    BY DEF Histories
  <2>2. QED
    BY <2>1, PeakFacts
<1>3. h.window > 0 /\ desired < requested
  <2>1. SUFFICES ASSUME ~(h.window > 0 /\ desired < requested) PROVE FALSE
    OBVIOUS
  <2>2. finalDesired(h, desired, requested, bounds) = Clamp(desired, lo, hi)
    BY <2>1 DEF finalDesired
  <2>3. QED
    BY <1>1, <2>2
<1>4. ASSUME ~coldStart(h)
      PROVE  finalDesired(h, desired, requested, bounds)
                = Clamp(Smaller(requested, Larger(top, 0)), lo, hi)
  BY <1>3, <1>4 DEF finalDesired
<1> HIDE DEF top, lo, hi
<1>5. Smaller(requested, Larger(top, 0)) \in Nat /\ Smaller(requested, Larger(top, 0)) <= top
  BY <1>2 DEF Smaller, Larger
<1>6. Clamp(Smaller(requested, Larger(top, 0)), lo, hi) <= Clamp(top, lo, hi)
  <2> DEFINE a == Smaller(requested, Larger(top, 0))
  <2>1. a \in Nat /\ a <= top
    BY <1>5
  <2> HIDE DEF a
  <2>2. Clamp(a, lo, hi) <= Clamp(top, lo, hi)
    BY <1>1, <1>2, <2>1, ClampMonotone
  <2>3. QED
    BY <2>2 DEF a
<1>7. QED
  BY <1>3, <1>4, <1>6 DEF top, lo, hi

(***************************************************************************)
(* One call of stabilizeRecommendation: what holds a reduction once the    *)
(* guard is over was recommended in the window or less than a bucket       *)
(* before it.                                                              *)
(***************************************************************************)
LEMMA DecideRetains ==
    ASSUME RInv,
           NEW identity \in Identities, NEW window \in Windows,
           NEW desired \in Replicas, NEW requested \in Replicas, NEW bounds \in Bounds,
           Decide(identity, window, desired, requested, bounds)
    PROVE  RInv'
<1> DEFINE h == hist'
           recs == recommended'
           final == finalDesired(h, desired, requested, bounds)
           now == Instant(clock)
<1>1. IInv'
  BY DecideSettles DEF RInv
<1>2. /\ h \in Histories /\ h.window = window /\ recs \in SUBSET Recommendations
      /\ epoch' = [exists |-> TRUE, identity |-> identity, window |-> window, at |-> now]
      /\ guard' \in Guards /\ Coupled'
  BY DecideUpdatesHistory DEF RInv, IInv
<1>3. h.lastRecordedAt = clock /\ Recent(h, recs)
  BY DecideKeepsRecent, HistoryStep DEF RInv, IInv
<1>4. /\ window \in Nat /\ desired \in Nat /\ requested \in Nat
      /\ clock \in Times /\ now \in Nat /\ now = clock.wall
  BY WindowsAssumption, ReplicasAreNaturals, InstantType
     DEF RInv, IInv, TypeOK, ClockInvariant
<1>5. outcome' = [decided |-> TRUE, desired |-> desired, requested |-> requested,
                  bounds |-> bounds, final |-> final]
  BY DEF Decide
<1>6. ClockInvariant'
  <2>1. UNCHANGED clock
    BY DEF Decide
  <2>2. QED
    BY <1>3, <2>1 DEF RInv, ClockInvariant, Instant
<1>7. RetainsOneBucketLonger'
  <2>1. SUFFICES ASSUME now > guard'.at + window,
                        final > Clamp(desired, bounds[1], bounds[2])
                 PROVE  \E r \in recs : /\ r.at > now - window - Width(window)
                                        /\ final <= Clamp(r.desired, bounds[1], bounds[2])
    BY <1>2, <1>5 DEF RetainsOneBucketLonger, Settle, Reduces
  <2>2. guard'.at = Instant(h.protectedAt)
    <3>1. h # NoHistory
      BY <1>2 DEF NoHistory, Histories
    <3>2. QED
      BY <1>2, <3>1 DEF Coupled, Instant
  <2>3. ~coldStart(h)
    <3>1. guard'.at \in Nat
      BY <1>2 DEF Guards
    <3>2. QED
      BY <1>2, <1>3, <1>4, <2>1, <2>2, <3>1 DEF coldStart
  <2> HIDE DEF h, recs, now
  <2>4. final <= Clamp(PeakOf(h.entries), bounds[1], bounds[2])
    BY <1>2, <1>4, <2>1, <2>3, HeldFacts
  <2>5. \E r \in recs : /\ r.desired = PeakOf(h.entries)
                        /\ r.at > clock.wall - window - Width(window)
    <3>1. h.entries \in Seq(Entries)
      BY <1>2 DEF Histories
    <3>2. Len(h.entries) > 0
      BY <1>3, DivisorAssumption DEF Recent
    <3>3. QED
      BY <1>2, <1>3, <1>4, <3>1, <3>2, PeakIsRecent DEF Recent
  <2>6. QED
    BY <1>4, <2>4, <2>5
<1>8. QED
  BY <1>1, <1>3, <1>6, <1>7 DEF RInv

(***************************************************************************)
(* The clock of a steady process has one reading.                          *)
(***************************************************************************)
LEMMA ClockSteps ==
    ASSUME SteadyClock, RInv, Tick \/ \E step \in WallSteps : StepWall(step)
    PROVE  RInv'
<1>1. UNCHANGED <<hist, epoch, recommended, guard, outcome>>
  BY DEF Tick, StepWall
<1>2. clock \in Times /\ clock.mono \in Nat /\ clock.wall \in Nat
  BY DEF RInv, IInv, TypeOK, Times
<1>3. Instant(clock) = clock.wall /\ clock.wall <= MaxTime /\ MaxTime \in Nat
  BY MaxTimeAssumption DEF RInv, ClockInvariant
<1>4. clock' \in Times /\ Instant(clock') = clock'.wall /\ clock'.wall <= MaxTime
  <2>1. CASE Tick
    <3>1. clock' = [mono |-> IF Monotonic THEN clock.mono + 1 ELSE 0, wall |-> clock.wall + 1]
          /\ clock.wall < MaxTime
      BY <2>1 DEF Tick
    <3>2. clock' \in Times /\ clock'.wall = clock.wall + 1 /\ clock'.wall <= MaxTime
      BY <1>2, <1>3, <3>1 DEF Times
    <3>3. CASE Monotonic
      BY <1>3, <3>1, <3>2, <3>3 DEF Instant
    <3>4. CASE ~Monotonic
      BY <3>2, <3>4 DEF Instant
    <3>5. QED
      BY <3>2, <3>3, <3>4
  <2>2. ASSUME NEW step \in WallSteps, StepWall(step)
        PROVE  clock' \in Times /\ Instant(clock') = clock'.wall /\ clock'.wall <= MaxTime
    <3>1. ~Monotonic
      BY <2>2, MonotonicAssumption DEF SteadyClock
    <3>2. clock' = [clock EXCEPT !.wall = @ + step] /\ clock.wall + step \in 0..MaxTime
      BY <2>2 DEF StepWall
    <3>3. clock' \in Times /\ clock'.wall <= MaxTime
      BY <1>2, <1>3, <3>2, WallStepsAssumption DEF Times
    <3>4. QED
      BY <3>1, <3>3 DEF Instant
  <2>3. QED
    BY <2>1, <2>2
<1>5. IInv'
  BY <1>1, <1>4 DEF RInv, IInv, TypeOK, Coupled, Covered, Timely, NeverExpiresEarly, Reduces,
                    Settle, ProtectsColdStart, NeverInitiatesExpansion
<1>6. ClockInvariant' /\ (hist' \in Histories => Recent(hist', recommended'))
  BY <1>1, <1>4 DEF RInv, ClockInvariant, Instant
<1>7. RetainsOneBucketLonger'
  BY <1>1 DEF RInv, RetainsOneBucketLonger, Reduces, Settle
<1>8. QED
  BY <1>5, <1>6, <1>7 DEF RInv

(***************************************************************************)
(* Every reachable state satisfies it, whatever is recommended and when.   *)
(***************************************************************************)
THEOREM RetentionInvariant == ASSUME SteadyClock PROVE Spec => []RInv
<1>1. Init => RInv
  <2> SUFFICES ASSUME Init PROVE RInv
    OBVIOUS
  <2>1. IInv
    BY InitEstablishesHistory
  <2>2. hist \notin Histories /\ ClockInvariant
    <3>1. hist \notin Histories
      BY DEF Init, NoHistory, Histories
    <3>2. Instant(clock) = clock.wall /\ clock.wall = 0
      BY DEF Init, Instant
    <3>3. QED
      BY <3>1, <3>2, MaxTimeAssumption DEF ClockInvariant
  <2>3. RetainsOneBucketLonger
    BY DEF Init, RetainsOneBucketLonger, Reduces, NoOutcome
  <2>4. QED
    BY <2>1, <2>2, <2>3 DEF RInv
<1>2. RInv /\ [Next]_vars => RInv'
  <2> SUFFICES ASSUME RInv, [Next]_vars PROVE RInv'
    OBVIOUS
  <2>1. ASSUME NEW identity \in Identities, NEW window \in Windows,
               NEW desired \in Replicas, NEW requested \in Replicas, NEW bounds \in Bounds,
               Decide(identity, window, desired, requested, bounds)
        PROVE  RInv'
    BY <2>1, DecideRetains
  <2>2. CASE Forget
    <3>1. IInv'
      BY <2>2, ForgetKeeps DEF RInv
    <3>2. hist' \notin Histories /\ UNCHANGED clock /\ outcome' = NoOutcome
      BY <2>2 DEF Forget, NoHistory, Histories
    <3>3. QED
      BY <3>1, <3>2 DEF RInv, ClockInvariant, Instant, RetainsOneBucketLonger, Reduces, NoOutcome
  <2>3. CASE Tick \/ \E step \in WallSteps : StepWall(step)
    BY <2>3, ClockSteps
  <2>4. CASE UNCHANGED vars
    BY <2>4 DEF vars, RInv, IInv, TypeOK, Coupled, Covered, Timely, NeverExpiresEarly, Reduces,
                Settle, ProtectsColdStart, NeverInitiatesExpansion, ClockInvariant, Instant,
                RetainsOneBucketLonger
  <2>5. QED
    BY <2>1, <2>2, <2>3, <2>4 DEF Next
<1>3. QED
  BY <1>1, <1>2, PTL DEF Spec

(***************************************************************************)
(* stabilizeRecommendation keeps nothing more than a bucket width beyond   *)
(* the window, and at most Divisor + 1 buckets, however often events       *)
(* trigger a reconciliation.                                               *)
(***************************************************************************)
THEOREM RetainsNoMoreTheorem == ASSUME SteadyClock PROVE Spec => []RetainsNoMore
<1>1. RInv => RetainsNoMore
  <2> SUFFICES ASSUME RInv PROVE RetainsNoMore
    OBVIOUS
  <2>1. hist = NoHistory \/ hist \in Histories
    BY DEF RInv, IInv, TypeOK
  <2>2. BucketsBounded
    BY <2>1, DivisorAssumption DEF RInv, Recent, BucketsBounded, NoHistory
  <2>3. QED
    BY <2>2 DEF RInv, RetainsNoMore
<1>2. QED
  BY <1>1, RetentionInvariant, PTL
-----------------------------------------------------------------------------
(***************************************************************************)
(* The count the policy settles on is one that the rolling maximum allows. *)
(***************************************************************************)
LEMMA SettlesAsPromised ==
    ASSUME RInv,
           NEW identity \in Identities, NEW window \in Windows,
           NEW desired \in Replicas, NEW requested \in Replicas, NEW bounds \in Bounds,
           Decide(identity, window, desired, requested, bounds)
    PROVE  \E peak \in Promise!Peaks(recommended', window, Instant(clock)) :
              LET kept == IF Promise!Protected(guard', window, Instant(clock))
                          THEN Larger(peak, guard'.requested) ELSE peak
                  held == IF window > 0 /\ desired < requested
                          THEN Smaller(requested, kept) ELSE desired
              IN  outcome' = [decided |-> TRUE, desired |-> desired, requested |-> requested,
                              bounds |-> bounds,
                              final |-> Clamp(held, bounds[1], bounds[2])]
<1> DEFINE h == hist'
           recs == recommended'
           now == Instant(clock)
           top == PeakOf(h.entries)
<1>1. RInv'
  BY DecideRetains
<1>2. /\ h \in Histories /\ h.window = window /\ recs \in SUBSET Recommendations
      /\ epoch' = [exists |-> TRUE, identity |-> identity, window |-> window, at |-> now]
      /\ guard' \in Guards /\ Coupled' /\ Covered' /\ Timely'
  BY DecideUpdatesHistory DEF RInv, IInv
<1>3. /\ h.lastRecordedAt = clock /\ Recent(h, recs)
      /\ [at |-> now, desired |-> desired] \in recs
  BY DecideKeepsRecent, HistoryStep DEF RInv, IInv
<1>4. /\ window \in Nat /\ desired \in Nat /\ requested \in Nat
      /\ clock \in Times /\ now \in Nat /\ now = clock.wall
      /\ Width(window) \in Nat \ {0}
  BY WindowsAssumption, ReplicasAreNaturals, InstantType, WidthFacts
     DEF RInv, IInv, TypeOK, ClockInvariant
<1>5. outcome' = [decided |-> TRUE, desired |-> desired, requested |-> requested,
                  bounds |-> bounds, final |-> finalDesired(h, desired, requested, bounds)]
  BY DEF Decide
<1>6. h.entries \in Seq(Entries) /\ Len(h.entries) > 0
  BY <1>2, <1>3, DivisorAssumption DEF Recent, Histories
<1>7. /\ guard'.at = Instant(h.protectedAt)
      /\ guard'.requested = h.protectedReplicas
      /\ guard'.at \in Nat /\ guard'.requested \in Nat
  <2>1. h # NoHistory
    BY <1>2 DEF NoHistory, Histories
  <2>2. guard'.at = Instant(h.protectedAt) /\ guard'.requested = h.protectedReplicas
    BY <1>2, <2>1 DEF Coupled, Instant
  <2>3. guard'.at \in Nat /\ guard'.requested \in Nat
    BY <1>2, ReplicasAreNaturals DEF Guards
  <2>4. QED
    BY <2>2, <2>3
<1>8. coldStart(h) <=> Promise!Protected(guard', window, now)
  BY <1>2, <1>3, <1>7 DEF coldStart, Promise!Protected
<1>9. epoch'.window = window /\ epoch'.at = now
  BY <1>2
<1> HIDE DEF h, recs, now
<1>10. CASE window > 0
  <2>1. /\ top \in Nat
        /\ \A i \in 1..Len(h.entries) : h.entries[i].desired <= top
    BY <1>6, PeakFacts
  <2>2. PICK r \in recs : /\ r.desired = top
                          /\ r.at > clock.wall - window - Width(window)
    BY <1>2, <1>3, <1>4, <1>6, PeakIsRecent DEF Recent
  <2>3. ASSUME NEW s \in recs, s.at >= now - window PROVE s.desired <= r.desired
    <3>1. PICK i \in 1..Len(h.entries) : h.entries[i].desired >= s.desired
      BY <1>2, <1>9, <1>10, <2>3 DEF Covered, CoveredBy, h, recs
    <3>2. h.entries[i].desired \in Nat /\ s.desired \in Nat
      BY <1>2, <1>4, <1>6, EntryFacts, ReplicasAreNaturals DEF Recommendations
    <3>3. QED
      BY <2>1, <2>2, <3>1, <3>2
  <2>4. top \in Promise!Peaks(recs, window, now)
    BY <1>4, <2>2, <2>3 DEF Promise!Peaks
  <2> HIDE DEF top
  <2> DEFINE kept == IF Promise!Protected(guard', window, now)
                     THEN Larger(top, guard'.requested) ELSE top
             held == IF window > 0 /\ desired < requested
                     THEN Smaller(requested, kept) ELSE desired
  <2>5. kept = Larger(top, IF coldStart(h) THEN h.protectedReplicas ELSE 0)
    <3>1. Larger(top, 0) = top
      BY <2>1 DEF Larger
    <3>2. QED
      BY <1>7, <1>8, <3>1 DEF h
  <2>6. finalDesired(h, desired, requested, bounds) = Clamp(held, bounds[1], bounds[2])
    BY <1>2, <2>5 DEF finalDesired, top
  <2>7. QED
    BY <1>5, <2>4, <2>6 DEF recs, now
<1>11. CASE window = 0
  <2> DEFINE inWindow == {s \in recs : s.at >= now - window}
             counts == {s.desired : s \in inWindow}
  <2>1. counts \subseteq 0..MaxInt32 /\ MaxInt32 \in Nat
    BY <1>2, ReplicasAssumption, MaxInt32Assumption DEF Recommendations
  <2>2. counts # {}
    <3>1. [at |-> now, desired |-> desired] \in inWindow
      BY <1>3, <1>4
    <3>2. QED
      BY <3>1
  <2>3. PICK peak \in counts : \A x \in counts : x <= peak
    <3> HIDE DEF counts
    <3>1. counts \subseteq Nat /\ \A x \in counts : x <= MaxInt32
      BY <2>1
    <3>2. QED
      BY <2>1, <2>2, <3>1, GreatestElement
  <2>4. PICK r \in recs : r.desired = peak /\ r.at >= now - window
    OBVIOUS
  <2>5. r.at \in Nat
    BY <1>2 DEF Recommendations
  <2>6. peak \in Promise!Peaks(recs, window, now)
    BY <1>4, <2>3, <2>4, <2>5 DEF Promise!Peaks
  <2>7. finalDesired(h, desired, requested, bounds) = Clamp(desired, bounds[1], bounds[2])
    BY <1>2, <1>11 DEF finalDesired
  <2>8. QED
    BY <1>5, <1>11, <2>6, <2>7 DEF recs, now
<1>12. QED
  BY <1>4, <1>10, <1>11

(***************************************************************************)
(* The bucketed history implements the exact rolling maximum with a slack  *)
(* of one bucket width: every call is a decision of the abstract policy,   *)
(* every loss of the history its forgetting, and the clock is not seen.    *)
(***************************************************************************)
THEOREM RefinementTheorem == ASSUME SteadyClock PROVE Spec => ImplementsRollingMaximum
<1>1. Init => Promise!Init
  BY DEF Init, Promise!Init, NoEpoch, NoGuard, NoOutcome,
         Promise!NoEpoch, Promise!NoGuard, Promise!NoOutcome
<1>2. RInv /\ [Next]_vars => [Promise!Next]_(Promise!vars)
  <2> SUFFICES ASSUME RInv, [Next]_vars PROVE [Promise!Next]_(Promise!vars)
    OBVIOUS
  <2>1. ASSUME NEW identity \in Identities, NEW window \in Windows,
               NEW desired \in Replicas, NEW requested \in Replicas, NEW bounds \in Bounds,
               Decide(identity, window, desired, requested, bounds)
        PROVE  Promise!Next
    <3>1. Note(identity, window, desired, requested)
      BY <2>1 DEF Decide
    <3>2. \E peak \in Promise!Peaks(recommended', window, Instant(clock)) :
             LET kept == IF Promise!Protected(guard', window, Instant(clock))
                         THEN Larger(peak, guard'.requested) ELSE peak
                 held == IF window > 0 /\ desired < requested
                         THEN Smaller(requested, kept) ELSE desired
             IN  outcome' = [decided |-> TRUE, desired |-> desired, requested |-> requested,
                             bounds |-> bounds,
                             final |-> Clamp(held, bounds[1], bounds[2])]
      BY <2>1, SettlesAsPromised
    <3>3. Promise!Decide(Instant(clock), identity, window, desired, requested, bounds)
      BY <3>1, <3>2 DEF Note, Promise!Decide, Clamp, Floor, Larger, Smaller, Promise!Clamp,
                        Promise!Floor, Promise!Larger, Promise!Smaller
    <3>4. Instant(clock) \in 0..MaxTime
      <4>1. clock.wall \in Nat
        BY DEF RInv, IInv, TypeOK, Times
      <4>2. QED
        BY <4>1, MaxTimeAssumption DEF RInv, ClockInvariant
    <3>5. QED
      BY <3>3, <3>4 DEF Promise!Next
  <2>2. CASE Forget
    BY <2>2 DEF Forget, Promise!Next, Promise!Forget, NoEpoch, NoGuard, NoOutcome,
                Promise!NoEpoch, Promise!NoGuard, Promise!NoOutcome
  <2>3. CASE UNCHANGED <<epoch, recommended, guard, outcome>>
    BY <2>3 DEF Promise!vars
  <2>4. QED
    BY <2>1, <2>2, <2>3 DEF Next, Tick, StepWall, vars
<1>3. QED
  BY <1>1, <1>2, RetentionInvariant, PTL DEF Spec, ImplementsRollingMaximum, Promise!Spec
-----------------------------------------------------------------------------
(***************************************************************************)
(* The history of one identity and window, at a reading that is not before *)
(* the last: the guard stands, prune keeps what has not expired, and       *)
(* record may merge an entry into one that is as large and was seen now.   *)
(***************************************************************************)
LEMMA StandingHistory ==
    ASSUME TypeOK, hist \in Histories,
           NEW identity \in Identities, NEW window \in Windows,
           NEW desired \in Replicas, NEW requested \in Replicas,
           hist.identity = identity, hist.window = window, window > 0,
           ~Before(clock, hist.lastRecordedAt)
    PROVE  LET h == Remember(hist, identity, window, clock, desired, requested)
           IN  /\ h \in Histories /\ h.window = window
               /\ h.lastRecordedAt = clock
               /\ h.protectedAt = hist.protectedAt
               /\ h.protectedReplicas = hist.protectedReplicas
               /\ \A i \in 1..Len(hist.entries) : ~Expired(hist.entries[i], window, clock) =>
                     \E j \in 1..Len(h.entries) :
                        /\ h.entries[j].desired >= hist.entries[i].desired
                        /\ h.entries[j].at \in {hist.entries[i].at, clock}
<1> DEFINE h == Remember(hist, identity, window, clock, desired, requested)
           stored == hist.entries
           recorded == record(stored, window, clock, desired)
           kept == prune(recorded, window, clock)
<1>1. /\ window \in Nat /\ clock \in Times /\ Instant(clock) \in Nat
      /\ stored \in Seq(Entries)
  BY WindowsAssumption, InstantType DEF TypeOK, Histories
<1>2. h = [hist EXCEPT !.lastRecordedAt = clock, !.entries = kept]
  <2>1. hist.exists
    BY DEF Histories
  <2>2. ~Invalidated(hist, identity, window, clock) /\ window # 0
    BY <1>1, <2>1 DEF Invalidated
  <2>3. QED
    BY <2>2 DEF Remember
<1> HIDE DEF h, stored
<1>3. recorded \in Seq(Entries) /\ Represented(stored, recorded, clock)
  BY <1>1, RecordFacts
<1> HIDE DEF recorded
<1>4. /\ kept \in Seq(Entries)
      /\ \A k \in 1..Len(recorded) : ~Expired(recorded[k], window, clock) =>
            \E j \in 1..Len(kept) : kept[j] = recorded[k]
  BY <1>1, <1>3, PruneFacts
<1> HIDE DEF kept
<1>5. /\ h \in Histories /\ h.window = window
      /\ h.lastRecordedAt = clock /\ h.entries = kept
      /\ h.protectedAt = hist.protectedAt
      /\ h.protectedReplicas = hist.protectedReplicas
  BY <1>1, <1>2, <1>4 DEF Histories
<1>6. ASSUME NEW i \in 1..Len(stored), ~Expired(stored[i], window, clock)
      PROVE  \E j \in 1..Len(kept) :
                kept[j].desired >= stored[i].desired /\ kept[j].at \in {stored[i].at, clock}
  <2>1. PICK k \in 1..Len(recorded) :
           /\ recorded[k].desired >= stored[i].desired
           /\ recorded[k].at = stored[i].at \/ recorded[k].at = clock
    BY <1>3 DEF Represented
  <2>2. ~Expired(recorded[k], window, clock)
    BY <1>1, <1>6, <2>1 DEF Expired
  <2>3. PICK j \in 1..Len(kept) : kept[j] = recorded[k]
    BY <1>4, <2>2
  <2>4. QED
    BY <2>1, <2>3
<1>7. QED
  BY <1>5, <1>6 DEF h, stored

(***************************************************************************)
(* What the history h holds a reduction at when it is consulted at now: an *)
(* entry that has not expired, or the count found at its cold start.       *)
(***************************************************************************)
Holds(h, now, replicas) ==
    \/ \E i \in 1..Len(h.entries) :
          ~Expired(h.entries[i], h.window, now) /\ h.entries[i].desired = replicas
    \/ /\ Instant(now) <= Instant(h.protectedAt) + h.window
       /\ h.protectedReplicas = replicas

\* A recommendation for the identity and window of the history there is.
Continues ==
    /\ hist.exists /\ hist'.exists
    /\ hist'.identity = hist.identity
    /\ hist'.window = hist.window /\ hist.window > 0

\* The monotonic reading did not go back, and the guard is the old one.
GuardStands ==
    /\ hist.lastRecordedAt.mono <= hist'.lastRecordedAt.mono
    /\ hist'.protectedAt = hist.protectedAt
    /\ hist'.protectedReplicas = hist.protectedReplicas

\* An entry still in the window keeps its time or is merged into one of now.
EntriesStand ==
    \A i \in 1..Len(hist.entries) :
        ~Expired(hist.entries[i], hist.window, hist'.lastRecordedAt) =>
            \E j \in 1..Len(hist'.entries) :
                /\ hist'.entries[j].desired >= hist.entries[i].desired
                /\ hist'.entries[j].at \in {hist.entries[i].at, hist'.lastRecordedAt}

\* A reduction stops at everything the history held before it.
ReductionHeld ==
    outcome'.desired < outcome'.requested =>
        \A replicas \in Replicas :
            Holds(hist, hist'.lastRecordedAt, replicas) =>
                outcome'.final >= Clamp(Smaller(outcome'.requested, replicas),
                                        outcome'.bounds[1], outcome'.bounds[2])

(***************************************************************************)
(* On the production clock protection is measured in elapsed time: while   *)
(* the identity and the window stand, a recommendation finds no earlier    *)
(* reading than the one before and builds no new guard, however the wall   *)
(* was set in between, back or forth, and nothing that is still in the     *)
(* window is lost to the decision or to the ones after it.                 *)
(***************************************************************************)
SetBackLosesNothing ==
    [][Continues => GuardStands /\ EntriesStand /\ (hist' # hist => ReductionHeld)]_vars

\* The monotonic reading never runs behind what has been recorded.
NeverBehind == hist \in Histories => hist.lastRecordedAt.mono <= clock.mono

(***************************************************************************)
(* One call of stabilizeRecommendation for the stored identity and window, *)
(* at a monotonic reading that is not behind.                              *)
(***************************************************************************)
LEMMA DecideStands ==
    ASSUME Monotonic, TypeOK, NeverBehind, hist \in Histories,
           NEW identity \in Identities, NEW window \in Windows, NEW desired \in Replicas,
           NEW requested \in Replicas, NEW bounds \in Bounds,
           Decide(identity, window, desired, requested, bounds),
           hist.identity = identity, hist.window = window, window > 0
    PROVE  GuardStands /\ EntriesStand /\ ReductionHeld
<1> DEFINE h == Remember(hist, identity, window, clock, desired, requested)
<1>1. /\ hist' = h
      /\ outcome' = [decided |-> TRUE, desired |-> desired, requested |-> requested,
                     bounds |-> bounds,
                     final |-> finalDesired(hist', desired, requested, bounds)]
  BY DEF Decide
<1>2. /\ hist.lastRecordedAt.mono <= clock.mono
      /\ ~Before(clock, hist.lastRecordedAt)
  <2>1. hist.lastRecordedAt.mono <= clock.mono
    BY DEF NeverBehind
  <2>2. hist.lastRecordedAt.mono \in Nat /\ clock.mono \in Nat
    BY DEF TypeOK, Histories, Times
  <2>3. QED
    BY <2>1, <2>2 DEF Before, Instant
<1>3. /\ h \in Histories /\ h.window = window
      /\ h.lastRecordedAt = clock
      /\ h.protectedAt = hist.protectedAt
      /\ h.protectedReplicas = hist.protectedReplicas
  BY <1>2, StandingHistory
<1>4. \A i \in 1..Len(hist.entries) : ~Expired(hist.entries[i], window, clock) =>
         \E j \in 1..Len(h.entries) :
            /\ h.entries[j].desired >= hist.entries[i].desired
            /\ h.entries[j].at \in {hist.entries[i].at, clock}
  BY <1>2, StandingHistory
<1> HIDE DEF h
<1>5. ASSUME NEW replicas \in Replicas, desired < requested, Holds(hist, clock, replicas)
      PROVE  finalDesired(h, desired, requested, bounds)
                >= Clamp(Smaller(requested, replicas), bounds[1], bounds[2])
  <2>1. desired \in Nat /\ requested \in Nat /\ replicas \in Nat
    BY ReplicasAreNaturals
  <2>2. CASE \E i \in 1..Len(hist.entries) :
                ~Expired(hist.entries[i], window, clock) /\ hist.entries[i].desired = replicas
    <3>1. \E j \in 1..Len(h.entries) : h.entries[j].desired >= replicas
      BY <1>4, <2>2
    <3>2. QED
      BY <1>3, <1>5, <2>1, <3>1, FinalDesiredFacts
  <2>3. CASE /\ Instant(clock) <= Instant(hist.protectedAt) + window
             /\ hist.protectedReplicas = replicas
    <3>1. coldStart(h) /\ h.protectedReplicas = replicas
      BY <1>3, <2>3 DEF coldStart
    <3>2. QED
      BY <1>3, <1>5, <2>1, <3>1, FinalDesiredFacts
  <2>4. QED
    BY <1>5, <2>2, <2>3 DEF Holds
<1>6. GuardStands
  BY <1>1, <1>2, <1>3 DEF GuardStands
<1>7. EntriesStand
  BY <1>1, <1>3, <1>4 DEF EntriesStand
<1>8. ReductionHeld
  BY <1>1, <1>3, <1>5 DEF ReductionHeld
<1>9. QED
  BY <1>6, <1>7, <1>8

(***************************************************************************)
(* A wall clock set back under a monotonic reading rebuilds no protection  *)
(* (run stabilizer_rollback shows what docs/metrics-safety-plan.md:53 then *)
(* misses) and costs none: what stabilizeRecommendation protects outlives  *)
(* every setting of the wall by its whole window of elapsed time.          *)
(***************************************************************************)
THEOREM SetBackTheorem == ASSUME Monotonic PROVE Spec => SetBackLosesNothing
<1>1. Init => NeverBehind
  BY DEF Init, NeverBehind, NoHistory, Histories
<1>2. IInv /\ NeverBehind /\ [Next]_vars => NeverBehind'
  <2> SUFFICES ASSUME IInv, NeverBehind, [Next]_vars PROVE NeverBehind'
    OBVIOUS
  <2>1. clock.mono \in Nat /\ TypeOK /\ Coupled
    BY DEF IInv, TypeOK, Times
  <2>2. ASSUME NEW identity \in Identities, NEW window \in Windows, NEW desired \in Replicas,
               NEW requested \in Replicas, NEW bounds \in Bounds,
               Decide(identity, window, desired, requested, bounds)
        PROVE  NeverBehind'
    <3>1. hist'.lastRecordedAt = clock
      BY <2>1, <2>2, HistoryStep
    <3>2. clock' = clock
      BY <2>2 DEF Decide
    <3>3. QED
      BY <2>1, <3>1, <3>2 DEF NeverBehind
  <2>3. CASE Forget
    BY <2>3 DEF Forget, NeverBehind, NoHistory, Histories
  <2>4. CASE hist' = hist /\ clock'.mono >= clock.mono /\ clock'.mono \in Nat
    <3>1. hist \in Histories => hist.lastRecordedAt.mono \in Nat
      BY DEF Histories, Times
    <3>2. QED
      BY <2>1, <2>4, <3>1 DEF NeverBehind
  <2>5. CASE Tick
    BY <2>1, <2>4, <2>5 DEF Tick
  <2>6. ASSUME NEW step \in WallSteps, StepWall(step) PROVE NeverBehind'
    <3>1. clock'.mono = clock.mono /\ hist' = hist
      BY <2>1, <2>6 DEF StepWall, TypeOK, Times
    <3>2. QED
      BY <2>1, <2>4, <3>1
  <2>7. CASE UNCHANGED vars
    BY <2>1, <2>4, <2>7 DEF vars
  <2>8. QED
    BY <2>2, <2>3, <2>5, <2>6, <2>7 DEF Next
<1>3. IInv /\ NeverBehind /\ [Next]_vars
         => [Continues => GuardStands /\ EntriesStand /\ (hist' # hist => ReductionHeld)]_vars
  <2> SUFFICES ASSUME IInv, NeverBehind, [Next]_vars, Continues
               PROVE  GuardStands /\ EntriesStand /\ (hist' # hist => ReductionHeld)
    OBVIOUS
  <2>1. hist \in Histories /\ TypeOK /\ Coupled
    BY DEF IInv, TypeOK, NoHistory, Continues
  <2>2. CASE hist' = hist
    <3>1. hist.lastRecordedAt.mono \in Nat
      BY <2>1 DEF Histories, Times
    <3>2. ASSUME NEW i \in 1..Len(hist.entries)
          PROVE  hist.entries[i].desired >= hist.entries[i].desired
      <4>1. hist.entries[i] \in Entries
        BY <2>1, ElementOfSeq DEF Histories
      <4>2. hist.entries[i].desired \in Nat
        BY <4>1, ReplicasAreNaturals DEF Entries
      <4>3. QED
        BY <4>2
    <3>3. GuardStands
      BY <2>2, <3>1 DEF GuardStands
    <3>4. EntriesStand
      BY <2>2, <3>2 DEF EntriesStand
    <3>5. QED
      BY <2>2, <3>3, <3>4
  <2>3. ASSUME NEW identity \in Identities, NEW window \in Windows, NEW desired \in Replicas,
               NEW requested \in Replicas, NEW bounds \in Bounds,
               Decide(identity, window, desired, requested, bounds)
        PROVE  GuardStands /\ EntriesStand /\ ReductionHeld
    <3>1. hist'.identity = identity /\ hist'.window = window
      <4>1. /\ epoch'.identity = identity /\ hist' \in Histories
            /\ hist'.window = window /\ Coupled'
        BY <2>3, DecideUpdatesHistory DEF IInv
      <4>2. hist' # NoHistory
        BY <4>1 DEF Histories, NoHistory
      <4>3. QED
        BY <4>1, <4>2 DEF Coupled
    <3>2. QED
      BY <2>1, <2>3, <3>1, DecideStands DEF Continues
  <2>4. hist' = hist \/ \E identity \in Identities, window \in Windows,
            desired, requested \in Replicas, bounds \in Bounds :
                Decide(identity, window, desired, requested, bounds)
    <3>1. ~Forget
      BY DEF Forget, NoHistory, Continues
    <3>2. QED
      BY <3>1 DEF Next, vars, Tick, StepWall
  <2>5. QED
    BY <2>2, <2>3, <2>4
<1>4. QED
  BY <1>1, <1>2, <1>3, StabilizerInvariant, PTL DEF Spec, SetBackLosesNothing
=============================================================================
