-------------------------- MODULE MeasurementProofs --------------------------
(***************************************************************************)
(* What the harness reports, proved about: the reports that the archive    *)
(* names, the timeline of replicas that a benchmark run records, and the   *)
(* live baseline.  Each part has its invariant, which every step of the    *)
(* harness keeps, and from it what holds of the measures that the analyses *)
(* compute: that two of them agree, and how far they are from what         *)
(* happened.  These are sums over lists of samples; Extremes has the       *)
(* lemmas about sums.                                                      *)
(***************************************************************************)
EXTENDS MCHarness, Sequences, Extremes, TLAPS

(***************************************************************************)
(* The archive.  A run counts for a cell and an identity as it does for    *)
(* already_succeeded(), and measures them if it has been extracted too.    *)
(***************************************************************************)
Counting(d, c, identity) ==
    /\ dirs[d].cell = c /\ dirs[d].identity = identity
    /\ dirs[d].status = "success" /\ ~dirs[d].incomplete

CellMeasured(c, identity) ==
    \E d \in DOMAIN dirs : Counting(d, c, identity) /\ dirs[d].extract = "valid"

AtTarget == {"extract", "torn", "verdict"}
WithRun  == {"benchmark", "locate"} \cup AtTarget
Sessions == [phase : {"idle", "next"} \cup WithRun, identity : 1..2, pending : SUBSET (1..Cells),
             cell : 0..Cells, target : Nat, interrupted : BOOLEAN,
             outcome : {"none", "running", "stopped", "complete"}]

ArchiveTyped == Archived!ArchiveTypeOK /\ wrapper \in Sessions

\* The run of the session is where the session takes it to be.
RunStands ==
    /\ wrapper.phase \in WithRun => wrapper.cell \in 1..Cells /\ wrapper.cell \notin wrapper.pending
    /\ wrapper.phase = "benchmark" =>
          dirs # <<>> /\ dirs[Len(dirs)].status = "in_progress"
    /\ wrapper.phase = "locate" => dirs # <<>>
    /\ wrapper.phase \in AtTarget =>
          wrapper.target \in DOMAIN dirs /\ Counting(wrapper.target, wrapper.cell, wrapper.identity)
    /\ wrapper.phase = "torn" => dirs[wrapper.target].extract = "torn"

\* Nothing is extracted from a run that is not over.
ExtractedLate == \A d \in DOMAIN dirs : dirs[d].status = "in_progress" => dirs[d].extract = "none"

\* What a session need not run any more is measured, and what it has still to run is not.
Done(c)  == c \notin wrapper.pending /\ (wrapper.phase = "next" \/ c # wrapper.cell)
Owed(c)  == \/ c \in wrapper.pending
            \/ wrapper.phase \in WithRun \ {"verdict"} /\ c = wrapper.cell
SessionStands ==
    wrapper.phase # "idle" =>
        /\ wrapper.outcome = "running"
        /\ \A c \in 1..Cells : Done(c) => CellMeasured(c, wrapper.identity)
        /\ \A c \in 1..Cells : Owed(c) => ~CellMeasured(c, wrapper.identity)

\* Nothing is measured twice, but by hand.
OneMeasurement ==
    \A d, e \in DOMAIN dirs :
        /\ Counting(d, dirs[e].cell, dirs[e].identity) /\ dirs[d].extract = "valid"
        /\ Counting(e, dirs[e].cell, dirs[e].identity) /\ dirs[e].extract = "valid"
        => d = e \/ d \in by_hand \/ e \in by_hand

\* A run whose extraction failed is about to be marked, or somebody is to blame.
FailuresKnown ==
    \A d \in Archived!Loaded :
        dirs[d].extract = "invalid" =>
            d \in by_hand \cup unjudged \/ (wrapper.phase = "verdict" /\ d = wrapper.target)

ArchiveInv ==
    ArchiveTyped /\ RunStands /\ ExtractedLate /\ SessionStands /\ OneMeasurement /\ FailuresKnown


(***************************************************************************)
(* The newest run that counts is one that counts, if there is any.         *)
(***************************************************************************)
LEMMA NewestCounting ==
    ASSUME Len(dirs) \in Nat, DOMAIN dirs = 1..Len(dirs),
           NEW c, NEW identity, NEW asked \in BOOLEAN
    PROVE  /\ Archived!AlreadySucceeded(c, identity, asked) = 0 =>
                 \A d \in DOMAIN dirs :
                    Counting(d, c, identity) => asked /\ dirs[d].extract # "valid"
           /\ Archived!AlreadySucceeded(c, identity, asked) # 0 =>
                 \E d \in DOMAIN dirs :
                    /\ d = Archived!AlreadySucceeded(c, identity, asked)
                    /\ Counting(d, c, identity) /\ (asked => dirs[d].extract = "valid")
<1> DEFINE counts == {d \in DOMAIN dirs : /\ Counting(d, c, identity)
                                          /\ asked => dirs[d].extract = "valid"}
           all == counts \cup {0}
<1>1. Archived!AlreadySucceeded(c, identity, asked) = Archived!Max(all)
  BY DEF Archived!AlreadySucceeded, Counting
<1>2. counts \subseteq 1..Len(dirs)
  OBVIOUS
<1> HIDE DEF counts
<1>3. PICK m \in all : \A x \in all : x <= m
  <2>1. all \subseteq Nat /\ all # {} /\ \A x \in all : x <= Len(dirs)
    BY <1>2
  <2> HIDE DEF all
  <2>2. QED
    BY <2>1, GreatestElement
<1>4. /\ Archived!Max(all) \in all
      /\ \A x \in all : Archived!Max(all) >= x
  <2>1. \A x \in all : m >= x
    BY <1>2, <1>3
  <2> HIDE DEF all
  <2>2. QED
    BY <1>3, <2>1 DEF Archived!Max
<1>5. CASE Archived!Max(all) = 0
  <2>1. ASSUME NEW x \in counts PROVE FALSE
    <3>1. x \in 1..Len(dirs) /\ 0 >= x
      BY <1>2, <1>4, <1>5
    <3>2. QED
      BY <3>1
  <2>2. QED
    BY <1>1, <1>5, <2>1, Zenon DEF counts
<1>6. CASE Archived!Max(all) # 0
  <2>1. Archived!Max(all) \in counts
    BY <1>4, <1>6
  <2>2. QED
    BY <1>1, <1>6, <2>1, Zenon DEF counts
<1>7. QED
  BY <1>5, <1>6

(***************************************************************************)
(* What a change of one field of one directory leaves as it was.           *)
(***************************************************************************)
Kept(d, field) ==
    /\ dirs'[d].cell = dirs[d].cell /\ dirs'[d].identity = dirs[d].identity
    /\ field # "status" => dirs'[d].status = dirs[d].status
    /\ dirs'[d].measurable = dirs[d].measurable
    /\ field # "extract" => dirs'[d].extract = dirs[d].extract
    /\ field # "incomplete" => dirs'[d].incomplete = dirs[d].incomplete

Values(field) == CASE field = "status"  -> {"in_progress", "success", "failed"}
                   [] field = "extract" -> {"none", "torn", "valid", "invalid"}
                   [] OTHER             -> BOOLEAN

(***************************************************************************)
(* A change of one field of one directory keeps the archive well typed,    *)
(* the other directories and the other fields.                             *)
(***************************************************************************)
LEMMA FieldChanges ==
    ASSUME dirs \in Seq(Archived!Directory), NEW n \in DOMAIN dirs,
           NEW field \in {"status", "extract", "incomplete"}, NEW value \in Values(field),
           Archived!Set(n, field, value)
    PROVE  /\ dirs' \in Seq(Archived!Directory) /\ Len(dirs') = Len(dirs)
           /\ DOMAIN dirs' = DOMAIN dirs
           /\ \A d \in DOMAIN dirs : d # n => dirs'[d] = dirs[d]
           /\ Kept(n, field) /\ dirs'[n][field] = value
<1> DEFINE new == [dirs[n] EXCEPT ![field] = value]
<1>1. dirs' = [dirs EXCEPT ![n] = new]
  BY DEF Archived!Set
<1>2. dirs[n] \in Archived!Directory
  OBVIOUS
<1>3. /\ new \in Archived!Directory
      /\ new.cell = dirs[n].cell /\ new.identity = dirs[n].identity
      /\ field # "status" => new.status = dirs[n].status
      /\ new.measurable = dirs[n].measurable
      /\ field # "extract" => new.extract = dirs[n].extract
      /\ field # "incomplete" => new.incomplete = dirs[n].incomplete
      /\ new[field] = value
  <2>1. CASE field = "status"
    BY <1>2, <2>1 DEF Archived!Directory, Values
  <2>2. CASE field = "extract"
    BY <1>2, <2>2 DEF Archived!Directory, Values
  <2>3. CASE field = "incomplete"
    BY <1>2, <2>3 DEF Archived!Directory, Values
  <2>4. QED
    BY <2>1, <2>2, <2>3
<1> HIDE DEF new
<1>4. /\ dirs' \in Seq(Archived!Directory) /\ Len(dirs') = Len(dirs)
      /\ DOMAIN dirs' = DOMAIN dirs
      /\ \A d \in DOMAIN dirs : dirs'[d] = IF d = n THEN new ELSE dirs[d]
  BY <1>1, <1>3
<1>5. dirs'[n] = new
  BY <1>4
<1>6. QED
  BY <1>3, <1>4, <1>5, Zenon DEF Kept

(***************************************************************************)
(* A step pools nothing new if every run that a report would load was one  *)
(* that it would have loaded with the same extraction before.              *)
(***************************************************************************)
PoolsNothingNew ==
    \A d \in Archived!Loaded' :
        /\ d \in Archived!Loaded
        /\ dirs'[d].cell = dirs[d].cell /\ dirs'[d].identity = dirs[d].identity
        /\ dirs'[d].extract = dirs[d].extract

\* A measurement is a run that a report loads, and that its identity and cell tell.
LEMMA MeasurementsAreLoaded ==
    /\ \A d \in DOMAIN dirs : \A c, identity :
          Counting(d, c, identity) /\ dirs[d].extract = "valid"
          <=> /\ d \in Archived!Loaded /\ dirs[d].cell = c /\ dirs[d].identity = identity
              /\ dirs[d].extract = "valid"
    /\ Archived!Loaded \subseteq DOMAIN dirs
BY DEF Counting, Archived!Loaded

(***************************************************************************)
(* A step that pools nothing new measures no further cell, and nothing     *)
(* twice.                                                                  *)
(***************************************************************************)
LEMMA NothingNewFacts ==
    ASSUME PoolsNothingNew
    PROVE  /\ by_hand \subseteq by_hand' /\ OneMeasurement => OneMeasurement'
           /\ \A c, identity : CellMeasured(c, identity)' => CellMeasured(c, identity)
<1>1. ASSUME NEW d \in DOMAIN dirs', NEW c, NEW identity,
             Counting(d, c, identity)', dirs'[d].extract = "valid"
      PROVE  /\ d \in DOMAIN dirs /\ d \in Archived!Loaded /\ Counting(d, c, identity)
             /\ dirs[d].extract = "valid"
             /\ dirs[d].cell = dirs'[d].cell /\ dirs[d].identity = dirs'[d].identity
  <2>1. /\ d \in Archived!Loaded' /\ dirs'[d].cell = c /\ dirs'[d].identity = identity
    BY <1>1 DEF Counting, Archived!Loaded
  <2>2. /\ d \in Archived!Loaded /\ dirs[d].cell = c /\ dirs[d].identity = identity
        /\ dirs[d].extract = "valid"
        /\ dirs[d].cell = dirs'[d].cell /\ dirs[d].identity = dirs'[d].identity
    BY <1>1, <2>1 DEF PoolsNothingNew
  <2>3. QED
    BY <2>2, MeasurementsAreLoaded
<1>2. ASSUME by_hand \subseteq by_hand', OneMeasurement PROVE OneMeasurement'
  <2>1. SUFFICES ASSUME NEW d \in DOMAIN dirs', NEW e \in DOMAIN dirs',
                        Counting(d, dirs[e].cell, dirs[e].identity)', dirs'[d].extract = "valid",
                        Counting(e, dirs[e].cell, dirs[e].identity)', dirs'[e].extract = "valid"
                 PROVE  d = e \/ d \in by_hand' \/ e \in by_hand'
    BY DEF OneMeasurement
  <2>2. /\ d \in DOMAIN dirs /\ Counting(d, dirs'[e].cell, dirs'[e].identity)
        /\ dirs[d].extract = "valid"
    BY <1>1, <2>1
  <2>3. /\ e \in DOMAIN dirs /\ Counting(e, dirs'[e].cell, dirs'[e].identity)
        /\ dirs[e].extract = "valid"
        /\ dirs[e].cell = dirs'[e].cell /\ dirs[e].identity = dirs'[e].identity
    BY <1>1, <2>1
  <2>4. d = e \/ d \in by_hand \/ e \in by_hand
    BY <1>2, <2>2, <2>3 DEF OneMeasurement
  <2>5. QED
    BY <1>2, <2>4
<1>3. ASSUME NEW c, NEW identity, CellMeasured(c, identity)' PROVE CellMeasured(c, identity)
  BY <1>1, <1>3 DEF CellMeasured
<1>4. QED
  BY <1>2, <1>3

(***************************************************************************)
(* What the types of the archive say of its directories and of the         *)
(* session.                                                                *)
(***************************************************************************)
LEMMA ArchiveShape ==
    ASSUME ArchiveTyped
    PROVE  /\ dirs \in Seq(Archived!Directory) /\ Len(dirs) \in Nat /\ DOMAIN dirs = 1..Len(dirs)
           /\ \A d \in DOMAIN dirs : dirs[d] \in Archived!Directory
           /\ wrapper.phase \in {"idle", "next"} \cup WithRun /\ wrapper.identity \in 1..2
           /\ wrapper.pending \subseteq 1..Cells /\ wrapper.cell \in 0..Cells
           /\ wrapper.target \in 0..Len(dirs)
<1>1. dirs \in Seq(Archived!Directory) /\ wrapper.target \in 0..Len(dirs)
  BY DEF ArchiveTyped, Archived!ArchiveTypeOK
<1>2. wrapper \in Sessions
  BY DEF ArchiveTyped
<1>3. /\ wrapper.phase \in {"idle", "next"} \cup WithRun /\ wrapper.identity \in 1..2
      /\ wrapper.pending \subseteq 1..Cells /\ wrapper.cell \in 0..Cells
  BY <1>2 DEF Sessions
<1>4. /\ Len(dirs) \in Nat /\ DOMAIN dirs = 1..Len(dirs)
      /\ \A d \in DOMAIN dirs : dirs[d] \in Archived!Directory
  BY <1>1
<1>5. QED
  BY <1>1, <1>3, <1>4

(***************************************************************************)
(* A new status pools no run, unless a success has an extraction already.  *)
(***************************************************************************)
LEMMA StatusChanges ==
    ASSUME ArchiveInv, NEW n \in DOMAIN dirs, NEW value \in Values("status"),
           Archived!Set(n, "status", value), value # "failed" => dirs[n].extract = "none"
    PROVE  /\ dirs' \in Seq(Archived!Directory) /\ Len(dirs') = Len(dirs)
           /\ DOMAIN dirs' = DOMAIN dirs
           /\ PoolsNothingNew /\ ExtractedLate' /\ n \notin Archived!Loaded'
           /\ \A d \in DOMAIN dirs : d # n => dirs'[d] = dirs[d]
           /\ Kept(n, "status") /\ dirs'[n].status = value
<1>1. /\ dirs' \in Seq(Archived!Directory) /\ Len(dirs') = Len(dirs)
      /\ DOMAIN dirs' = DOMAIN dirs
      /\ \A d \in DOMAIN dirs : d # n => dirs'[d] = dirs[d]
      /\ Kept(n, "status") /\ dirs'[n].status = value
  <2>1. dirs \in Seq(Archived!Directory) /\ "status" \in {"status", "extract", "incomplete"}
    BY ArchiveShape DEF ArchiveInv
  <2>2. QED
    BY <2>1, FieldChanges
<1>2. dirs'[n].extract = dirs[n].extract
  BY <1>1 DEF Kept
<1>3. n \notin Archived!Loaded'
  <2>1. CASE value = "failed"
    BY <1>1, <2>1 DEF Archived!Loaded
  <2>2. CASE value # "failed"
    BY <1>2, <2>2 DEF Archived!Loaded
  <2>3. QED
    BY <2>1, <2>2
<1>4. PoolsNothingNew
  <2>1. ASSUME NEW d \in Archived!Loaded' PROVE d \in Archived!Loaded /\ dirs'[d] = dirs[d]
    <3>1. d \in DOMAIN dirs /\ d # n /\ dirs'[d] = dirs[d]
      BY <1>1, <1>3, <2>1 DEF Archived!Loaded
    <3>2. QED
      BY <2>1, <3>1 DEF Archived!Loaded
  <2>2. QED
    BY <2>1 DEF PoolsNothingNew
<1>5. ExtractedLate'
  <2>1. SUFFICES ASSUME NEW d \in DOMAIN dirs', dirs'[d].status = "in_progress"
                 PROVE  dirs'[d].extract = "none"
    BY DEF ExtractedLate
  <2>2. CASE d = n
    <3>1. value # "failed"
      BY <1>1, <2>1, <2>2
    <3>2. QED
      BY <1>2, <2>2, <3>1
  <2>3. CASE d # n
    BY <1>1, <2>1, <2>3 DEF ArchiveInv, ExtractedLate
  <2>4. QED
    BY <2>2, <2>3
<1>6. QED
  BY <1>1, <1>3, <1>4, <1>5

(***************************************************************************)
(* A session ends well if it pools nothing new and leaves no failed        *)
(* extraction to a report that somebody has not to answer for.             *)
(***************************************************************************)
LEMMA SessionEnds ==
    ASSUME ArchiveInv, PoolsNothingNew, ExtractedLate', UNCHANGED Archived!people,
           dirs' \in Seq(Archived!Directory), Len(dirs') = Len(dirs),
           wrapper' \in Sessions, wrapper'.phase = "idle", wrapper'.target = 0,
           unjudged \subseteq unjudged', unjudged' \subseteq DOMAIN dirs,
           \/ wrapper.phase # "verdict" \/ wrapper.target \in unjudged'
           \/ wrapper.target \notin Archived!Loaded'
           \/ dirs[wrapper.target].extract # "invalid"
    PROVE  ArchiveInv'
<1>1. ArchiveTyped'
  <2>1. /\ wrapper'.pending \subseteq 1..Cells /\ wrapper'.cell \in 0..Cells
        /\ wrapper'.interrupted \in BOOLEAN
    BY DEF Sessions
  <2>2. /\ Len(dirs') \in Nat /\ Len(dirs) \in Nat /\ DOMAIN dirs' = 1..Len(dirs')
        /\ DOMAIN dirs = 1..Len(dirs)
    BY ArchiveShape DEF ArchiveInv
  <2>3. Archived!ArchiveTypeOK
    BY DEF ArchiveInv, ArchiveTyped
  <2>4. /\ dirs' \in Seq(Archived!Directory) /\ Len(dirs') <= MaxDirs
        /\ wrapper'.target \in 0..Len(dirs')
        /\ by_hand' \cup unjudged' \subseteq DOMAIN dirs'
    BY <2>2, <2>3 DEF Archived!ArchiveTypeOK, Archived!people
  <2>5. source' = source /\ edits' = edits /\ hands' = hands
    BY DEF Archived!people
  <2>6. Archived!ArchiveTypeOK'
    BY <2>1, <2>3, <2>4, <2>5, Zenon DEF Archived!ArchiveTypeOK, Archived!Directory
  <2>7. QED
    BY <2>6 DEF ArchiveTyped, Sessions
<1>2. RunStands'
  BY DEF RunStands, WithRun, AtTarget
<1>3. SessionStands'
  BY DEF SessionStands
<1>4. OneMeasurement'
  BY NothingNewFacts DEF ArchiveInv, Archived!people
<1>5. FailuresKnown'
  <2>1. SUFFICES ASSUME NEW d \in Archived!Loaded', dirs'[d].extract = "invalid"
                 PROVE  d \in by_hand' \cup unjudged'
    BY DEF FailuresKnown
  <2>2. d \in Archived!Loaded /\ dirs[d].extract = "invalid"
    BY <2>1 DEF PoolsNothingNew
  <2>3. d \in by_hand \cup unjudged \/ (wrapper.phase = "verdict" /\ d = wrapper.target)
    BY <2>2 DEF ArchiveInv, FailuresKnown
  <2>4. QED
    BY <2>1, <2>2, <2>3 DEF Archived!people
<1>6. QED
  BY <1>1, <1>2, <1>3, <1>4, <1>5 DEF ArchiveInv

(***************************************************************************)
(* A step that leaves the directories alone pools nothing new.             *)
(***************************************************************************)
LEMMA DirectoriesStay ==
    ASSUME ArchiveInv, dirs' = dirs
    PROVE  /\ dirs' \in Seq(Archived!Directory) /\ Len(dirs') = Len(dirs)
           /\ DOMAIN dirs' = DOMAIN dirs
           /\ PoolsNothingNew /\ ExtractedLate' /\ Archived!Loaded' = Archived!Loaded
<1>1. Archived!Loaded' = Archived!Loaded
  BY DEF Archived!Loaded
<1>2. dirs \in Seq(Archived!Directory)
  BY ArchiveShape DEF ArchiveInv
<1>3. ExtractedLate'
  BY DEF ArchiveInv, ExtractedLate
<1>4. QED
  BY <1>1, <1>2, <1>3 DEF PoolsNothingNew

(***************************************************************************)
(* The records that a session leaves when it ends are well typed.          *)
(***************************************************************************)
LEMMA IdleIsSession ==
    ASSUME NEW outcome \in {"none", "running", "stopped", "complete"}
    PROVE  /\ Archived!Idle(outcome) \in Sessions
           /\ Archived!Idle(outcome).phase = "idle" /\ Archived!Idle(outcome).target = 0
           /\ [Archived!Idle(outcome) EXCEPT !.interrupted = TRUE] \in Sessions
           /\ [Archived!Idle(outcome) EXCEPT !.interrupted = TRUE].phase = "idle"
           /\ [Archived!Idle(outcome) EXCEPT !.interrupted = TRUE].target = 0
<1> DEFINE idle == Archived!Idle(outcome)
<1>1. Cells \in Nat
  BY HarnessAssumption
<1>2. idle \in Sessions /\ idle.phase = "idle" /\ idle.target = 0
  BY <1>1 DEF Archived!Idle, Sessions
<1> HIDE DEF idle
<1>3. /\ [idle EXCEPT !.interrupted = TRUE] \in Sessions
      /\ [idle EXCEPT !.interrupted = TRUE].phase = "idle"
      /\ [idle EXCEPT !.interrupted = TRUE].target = 0
  BY <1>2 DEF Sessions
<1>4. QED
  BY <1>2, <1>3 DEF idle

(***************************************************************************)
(* The archive begins with the invariant.                                  *)
(***************************************************************************)
LEMMA ArchiveStarts == Archived!ArchiveInit => ArchiveInv
<1> SUFFICES ASSUME Archived!ArchiveInit PROVE ArchiveInv
  OBVIOUS
<1>1. MaxDirs \in Nat /\ MaxEdits \in Nat /\ MaxHands \in Nat /\ Cells \in Nat
  BY HarnessAssumption
<1>2. wrapper \in Sessions /\ wrapper.phase = "idle" /\ wrapper.target = 0
  BY IdleIsSession DEF Archived!ArchiveInit
<1>3. dirs = <<>> /\ DOMAIN dirs = {} /\ Len(dirs) = 0 /\ dirs \in Seq(Archived!Directory)
  BY DEF Archived!ArchiveInit
<1>4. /\ wrapper.pending \subseteq 1..Cells /\ wrapper.cell \in 0..Cells
      /\ wrapper.interrupted \in BOOLEAN
  BY <1>2 DEF Sessions
<1>5. Archived!ArchiveTypeOK
  BY <1>1, <1>2, <1>3, <1>4 DEF Archived!ArchiveTypeOK, Archived!ArchiveInit
<1>6. Archived!Loaded = {}
  BY <1>3 DEF Archived!Loaded
<1>7. QED
  BY <1>2, <1>3, <1>5, <1>6
     DEF ArchiveInv, ArchiveTyped, RunStands, ExtractedLate, SessionStands, OneMeasurement,
         FailuresKnown, WithRun, AtTarget

(***************************************************************************)
(* A step that only ends the session, wherever it is but at the verdict.   *)
(***************************************************************************)
LEMMA EndPreserves ==
    ASSUME ArchiveInv, UNCHANGED <<dirs, Archived!people, unjudged>>, wrapper.phase # "verdict",
           NEW outcome \in {"none", "running", "stopped", "complete"}, Archived!End(outcome)
    PROVE  ArchiveInv'
<1>1. /\ wrapper' \in Sessions /\ wrapper'.phase = "idle" /\ wrapper'.target = 0
  BY IdleIsSession DEF Archived!End
<1>2. unjudged \subseteq unjudged' /\ unjudged' \subseteq DOMAIN dirs
  BY DEF ArchiveInv, ArchiveTyped, Archived!ArchiveTypeOK
<1>3. UNCHANGED Archived!people
  OBVIOUS
<1>4. QED
  BY <1>1, <1>2, <1>3, DirectoriesStay, SessionEnds

(***************************************************************************)
(* A change of the status of the run at hand that ends the session.        *)
(***************************************************************************)
LEMMA MarkPreserves ==
    ASSUME ArchiveInv, UNCHANGED <<Archived!people, unjudged>>, NEW n \in DOMAIN dirs,
           NEW value \in Values("status"), Archived!Set(n, "status", value),
           value # "failed" => dirs[n].extract = "none",
           wrapper.phase = "verdict" => n = wrapper.target,
           wrapper' \in Sessions, wrapper'.phase = "idle", wrapper'.target = 0
    PROVE  ArchiveInv'
<1>1. /\ dirs' \in Seq(Archived!Directory) /\ Len(dirs') = Len(dirs)
      /\ PoolsNothingNew /\ ExtractedLate' /\ n \notin Archived!Loaded'
  BY StatusChanges
<1>2. unjudged \subseteq unjudged' /\ unjudged' \subseteq DOMAIN dirs
  BY DEF ArchiveInv, ArchiveTyped, Archived!ArchiveTypeOK
<1>3. UNCHANGED Archived!people
  OBVIOUS
<1>4. QED
  BY <1>1, <1>2, <1>3, SessionEnds

\* The directory of a run that is under way, or whose status is about to be looked up.
LEMMA NewestIsThere ==
    ASSUME ArchiveInv, wrapper.phase \in {"benchmark", "locate"}
    PROVE  /\ Archived!Newest \in DOMAIN dirs
           /\ wrapper.phase = "benchmark" =>
                 /\ dirs[Archived!Newest].status = "in_progress"
                 /\ dirs[Archived!Newest].extract = "none"
<1>1. /\ dirs # <<>> /\ Archived!Newest = Len(dirs)
      /\ wrapper.phase = "benchmark" => dirs[Len(dirs)].status = "in_progress"
  BY DEF ArchiveInv, RunStands, Archived!Newest
<1>2. dirs \in Seq(Archived!Directory)
  BY ArchiveShape DEF ArchiveInv
<1>3. Archived!Newest \in DOMAIN dirs
  BY <1>1, <1>2
<1>4. QED
  BY <1>1, <1>3 DEF ArchiveInv, ExtractedLate

(***************************************************************************)
(* A session that extracts or judges has a run that counts for it.         *)
(***************************************************************************)
LEMMA TargetIsThere ==
    ASSUME ArchiveInv, wrapper.phase \in AtTarget
    PROVE  /\ wrapper.target \in DOMAIN dirs
           /\ Counting(wrapper.target, wrapper.cell, wrapper.identity)
BY DEF ArchiveInv, RunStands

(***************************************************************************)
(* A failed benchmark keeps the invariant of the archive.                  *)
(***************************************************************************)
LEMMA BenchmarkFailsPreserves == ArchiveInv /\ Archived!BenchmarkFails => ArchiveInv'
<1> SUFFICES ASSUME ArchiveInv, Archived!BenchmarkFails PROVE ArchiveInv'
  OBVIOUS
<1>1. Archived!Newest \in DOMAIN dirs /\ wrapper.phase # "verdict"
  BY NewestIsThere DEF Archived!BenchmarkFails
<1>2. wrapper' \in Sessions /\ wrapper'.phase = "idle" /\ wrapper'.target = 0
  BY IdleIsSession DEF Archived!BenchmarkFails, Archived!End
<1>3. /\ "failed" \in Values("status") /\ Archived!Set(Archived!Newest, "status", "failed")
      /\ UNCHANGED <<Archived!people, unjudged>>
  BY DEF Values, Archived!BenchmarkFails
<1>4. QED
  BY <1>1, <1>2, <1>3, MarkPreserves

(***************************************************************************)
(* ... and so does whatever kills the wrapper, wherever it is,             *)
(***************************************************************************)
LEMMA HardAbortPreserves == ArchiveInv /\ Archived!HardAbort => ArchiveInv'
<1> SUFFICES ASSUME ArchiveInv, Archived!HardAbort PROVE ArchiveInv'
  OBVIOUS
<1>1. /\ wrapper' \in Sessions /\ wrapper'.phase = "idle" /\ wrapper'.target = 0
      /\ UNCHANGED Archived!people
  BY IdleIsSession DEF Archived!HardAbort, Archived!End
<1>2. CASE wrapper.phase = "benchmark"
  <2>1. PICK value \in {"in_progress", "failed"} : Archived!Set(Archived!Newest, "status", value)
    BY <1>2 DEF Archived!HardAbort
  <2>2. unjudged' = unjudged
    BY <1>2 DEF Archived!HardAbort
  <2>3. value \in Values("status")
    BY DEF Values
  <2>4. Archived!Newest \in DOMAIN dirs /\ dirs[Archived!Newest].extract = "none"
    BY <1>2, NewestIsThere
  <2>5. QED
    BY <1>1, <1>2, <2>1, <2>2, <2>3, <2>4, MarkPreserves
<1>3. CASE wrapper.phase # "benchmark"
  <2>1. dirs' = dirs
    BY <1>3 DEF Archived!HardAbort
  <2>2. unjudged \subseteq DOMAIN dirs
    BY DEF ArchiveInv, ArchiveTyped, Archived!ArchiveTypeOK
  <2>3. unjudged \subseteq unjudged' /\ unjudged' \subseteq DOMAIN dirs
    BY <2>2, TargetIsThere DEF Archived!HardAbort, AtTarget
  <2>4. \/ wrapper.phase # "verdict" \/ wrapper.target \in unjudged'
        \/ dirs[wrapper.target].extract # "invalid"
    BY DEF Archived!HardAbort
  <2>5. QED
    BY <1>1, <2>1, <2>3, <2>4, DirectoriesStay, SessionEnds
<1>4. QED
  BY <1>2, <1>3

(***************************************************************************)
(* ... the first Ctrl+C, which marks the run it hits,                      *)
(***************************************************************************)
LEMMA SoftInterruptPreserves == ArchiveInv /\ Archived!SoftInterrupt => ArchiveInv'
<1> SUFFICES ASSUME ArchiveInv, Archived!SoftInterrupt PROVE ArchiveInv'
  OBVIOUS
<1>1. UNCHANGED Archived!people /\ unjudged' = unjudged
  BY DEF Archived!SoftInterrupt
<1>2. CASE wrapper' = [wrapper EXCEPT !.interrupted = TRUE] /\ UNCHANGED dirs
  <2>1. /\ wrapper' \in Sessions /\ wrapper'.phase = wrapper.phase
        /\ wrapper'.identity = wrapper.identity /\ wrapper'.pending = wrapper.pending
        /\ wrapper'.cell = wrapper.cell /\ wrapper'.target = wrapper.target
        /\ wrapper'.outcome = wrapper.outcome
    BY <1>2 DEF ArchiveInv, ArchiveTyped, Sessions
  <2>2. wrapper'.interrupted \in BOOLEAN
    BY <2>1 DEF Sessions
  <2>3. Archived!ArchiveTypeOK' /\ ArchiveTyped'
    BY <1>1, <1>2, <2>1, <2>2, Zenon
       DEF ArchiveInv, ArchiveTyped, Archived!ArchiveTypeOK, Archived!people, Archived!Directory,
           Sessions
  <2>4. RunStands'
    BY <1>2, <2>1 DEF ArchiveInv, RunStands, Counting
  <2>5. SessionStands'
    <3>1. \A c \in 1..Cells :
             CellMeasured(c, wrapper.identity)' <=> CellMeasured(c, wrapper.identity)
      BY <1>2, <2>1 DEF CellMeasured, Counting
    <3>2. \A c \in 1..Cells : (Done(c)' <=> Done(c)) /\ (Owed(c)' <=> Owed(c))
      BY <2>1, Zenon DEF Done, Owed
    <3>3. QED
      BY <2>1, <3>1, <3>2 DEF ArchiveInv, SessionStands
  <2>6. OneMeasurement'
    BY <1>1, <1>2, DirectoriesStay, NothingNewFacts DEF ArchiveInv, Archived!people
  <2>7. FailuresKnown'
    BY <1>1, <1>2, <2>1, DirectoriesStay DEF ArchiveInv, FailuresKnown, Archived!people
  <2>8. QED
    BY <1>2, <2>3, <2>4, <2>5, <2>6, <2>7, DirectoriesStay DEF ArchiveInv
<1>3. CASE wrapper' = [Archived!Idle("stopped") EXCEPT !.interrupted = TRUE]
  <2>1. wrapper' \in Sessions /\ wrapper'.phase = "idle" /\ wrapper'.target = 0
    BY <1>3, IdleIsSession
  <2>2. "failed" \in Values("status") /\ UNCHANGED <<Archived!people, unjudged>>
    BY <1>1 DEF Values
  <2>3. CASE wrapper.phase = "benchmark" /\ Archived!Set(Archived!Newest, "status", "failed")
    BY <2>1, <2>2, <2>3, NewestIsThere, MarkPreserves
  <2>4. CASE /\ wrapper.phase \in AtTarget
             /\ Archived!Set(wrapper.target, "status", "failed")
    BY <2>1, <2>2, <2>4, TargetIsThere, MarkPreserves
  <2>5. CASE wrapper.phase = "locate" /\ UNCHANGED dirs
    <3>1. unjudged \subseteq unjudged' /\ unjudged' \subseteq DOMAIN dirs
      BY <1>1 DEF ArchiveInv, ArchiveTyped, Archived!ArchiveTypeOK
    <3>2. QED
      BY <1>1, <2>1, <2>5, <3>1, DirectoriesStay, SessionEnds
  <2>6. \/ wrapper.phase = "benchmark" /\ Archived!Set(Archived!Newest, "status", "failed")
        \/ wrapper.phase = "locate" /\ UNCHANGED dirs
        \/ /\ wrapper.phase \in AtTarget
           /\ Archived!Set(wrapper.target, "status", "failed")
        \/ wrapper' = [wrapper EXCEPT !.interrupted = TRUE] /\ UNCHANGED dirs
    BY DEF Archived!SoftInterrupt, AtTarget
  <2>7. QED
    BY <1>2, <2>3, <2>4, <2>5, <2>6
<1>4. QED
  BY <1>2, <1>3 DEF Archived!SoftInterrupt

(***************************************************************************)
(* ... and a new session, which plans what is not yet measured.            *)
(***************************************************************************)
LEMMA BeginPreserves == ArchiveInv /\ Archived!Begin => ArchiveInv'
<1> SUFFICES ASSUME ArchiveInv, Archived!Begin PROVE ArchiveInv'
  OBVIOUS
<1> DEFINE pending == {c \in 1..Cells : Archived!AlreadySucceeded(c, source, TRUE) = 0}
<1>1. /\ wrapper.phase = "idle" /\ UNCHANGED <<dirs, Archived!people, unjudged>>
      /\ \/ Archived!End("complete")
         \/ wrapper' = [Archived!Idle("running") EXCEPT !.phase = "next", !.identity = source,
                                                        !.pending = pending]
  BY DEF Archived!Begin
<1>2. CASE Archived!End("complete")
  BY <1>1, <1>2, EndPreserves
<1>3. CASE wrapper' = [Archived!Idle("running") EXCEPT !.phase = "next", !.identity = source,
                                                       !.pending = pending]
  <2>1. source \in 1..2 /\ source' = source /\ Archived!ArchiveTypeOK
    BY <1>1 DEF ArchiveInv, ArchiveTyped, Archived!ArchiveTypeOK, Archived!people
  <2>2. \A c \in 1..Cells : c \in pending <=> ~CellMeasured(c, source)
    <3>1. ASSUME NEW c \in 1..Cells
          PROVE  Archived!AlreadySucceeded(c, source, TRUE) = 0 <=> ~CellMeasured(c, source)
      <4>1. Len(dirs) \in Nat /\ DOMAIN dirs = 1..Len(dirs) /\ TRUE \in BOOLEAN
        BY ArchiveShape DEF ArchiveInv
      <4>2. QED
        BY <4>1, NewestCounting DEF CellMeasured
    <3>2. QED
      BY <3>1
  <2>3. pending \subseteq 1..Cells
    OBVIOUS
  <2> HIDE DEF pending
  <2>4. /\ wrapper'.phase = "next" /\ wrapper'.identity = source /\ wrapper'.pending = pending
        /\ wrapper'.cell = 0 /\ wrapper'.target = 0 /\ wrapper'.outcome = "running"
    BY <1>3 DEF Archived!Idle
  <2>5. wrapper' \in Sessions
    BY <1>3, <2>1, <2>3, IdleIsSession DEF Sessions
  <2>6. wrapper'.interrupted \in BOOLEAN
    BY <2>5 DEF Sessions
  <2>7. /\ dirs' \in Seq(Archived!Directory) /\ Len(dirs') = Len(dirs) /\ Len(dirs) \in Nat
        /\ wrapper'.target \in 0..Len(dirs') /\ wrapper'.cell \in 0..Cells
    <3>1. Len(dirs) \in Nat /\ Cells \in Nat
      BY ArchiveShape, HarnessAssumption DEF ArchiveInv
    <3>2. QED
      BY <1>1, <2>4, <3>1, DirectoriesStay
  <2>8. Archived!ArchiveTypeOK' /\ ArchiveTyped'
    BY <1>1, <2>1, <2>3, <2>4, <2>5, <2>6, <2>7, Zenon
       DEF ArchiveTyped, Archived!ArchiveTypeOK, Archived!people, Archived!Directory, Sessions
  <2>9. RunStands'
    BY <2>4 DEF RunStands, WithRun, AtTarget
  <2>10. SessionStands'
    <3>1. \A c \in 1..Cells : CellMeasured(c, source)' <=> CellMeasured(c, source)
      BY <1>1, <2>1 DEF CellMeasured, Counting
    <3>2. \A c \in 1..Cells : CellMeasured(c, wrapper.identity)' <=> CellMeasured(c, source)
      BY <1>1, <2>1, <2>4 DEF CellMeasured, Counting
    <3>3. \A c \in 1..Cells : (Done(c)' <=> c \notin pending) /\ (Owed(c)' <=> c \in pending)
      BY <2>4 DEF Done, Owed, WithRun, AtTarget
    <3>4. QED
      BY <2>2, <2>4, <3>2, <3>3 DEF SessionStands
  <2>11. OneMeasurement'
    BY <1>1, DirectoriesStay, NothingNewFacts DEF ArchiveInv, Archived!people
  <2>12. FailuresKnown'
    <3>1. ASSUME NEW d \in Archived!Loaded', dirs'[d].extract = "invalid"
          PROVE  d \in by_hand' \cup unjudged'
      BY <1>1, <3>1, DirectoriesStay DEF ArchiveInv, FailuresKnown, Archived!people
    <3>2. QED
      BY <3>1 DEF FailuresKnown
  <2>13. QED
    BY <1>1, <2>8, <2>9, <2>10, <2>11, <2>12, DirectoriesStay DEF ArchiveInv
<1>4. QED
  BY <1>1, <1>2, <1>3

(***************************************************************************)
(* A session that goes on keeps the types if its own record has its type.  *)
(***************************************************************************)
LEMMA SessionKeepsTypes ==
    ASSUME ArchiveInv, UNCHANGED <<Archived!people, unjudged>>,
           dirs' \in Seq(Archived!Directory), Len(dirs') \in Len(dirs)..MaxDirs,
           wrapper' \in Sessions, wrapper'.target \in 0..Len(dirs')
    PROVE  ArchiveTyped'
<1>1. /\ wrapper'.pending \subseteq 1..Cells /\ wrapper'.cell \in 0..Cells
      /\ wrapper'.interrupted \in BOOLEAN
  BY DEF Sessions
<1>2. /\ Archived!ArchiveTypeOK /\ DOMAIN dirs' = 1..Len(dirs') /\ DOMAIN dirs = 1..Len(dirs)
      /\ Len(dirs) \in Nat /\ Len(dirs') \in Nat
  BY ArchiveShape DEF ArchiveInv, ArchiveTyped
<1>3. /\ Len(dirs') <= MaxDirs
      /\ by_hand' \cup unjudged' \subseteq DOMAIN dirs'
  <2>1. MaxDirs \in Nat
    BY HarnessAssumption
  <2>2. QED
    BY <1>2, <2>1 DEF Archived!ArchiveTypeOK, Archived!people
<1>4. source' = source /\ edits' = edits /\ hands' = hands
  BY DEF Archived!people
<1>5. Archived!ArchiveTypeOK'
  BY <1>1, <1>2, <1>3, <1>4, Zenon DEF Archived!ArchiveTypeOK, Archived!Directory
<1>6. QED
  BY <1>5 DEF ArchiveTyped, Sessions

\* Failures stay known while a session goes on without a verdict.
LEMMA FailuresStayKnown ==
    ASSUME ArchiveInv, PoolsNothingNew, wrapper.phase # "verdict",
           UNCHANGED <<Archived!people, unjudged>>
    PROVE  FailuresKnown'
<1>1. ASSUME NEW d \in Archived!Loaded', dirs'[d].extract = "invalid"
      PROVE  d \in by_hand' \cup unjudged'
  <2>1. d \in Archived!Loaded /\ dirs[d].extract = "invalid"
    BY <1>1 DEF PoolsNothingNew
  <2>2. QED
    BY <2>1 DEF ArchiveInv, FailuresKnown, Archived!people
<1>2. QED
  BY <1>1 DEF FailuresKnown

(***************************************************************************)
(* A measurement stays one if the run that makes it is left alone.         *)
(***************************************************************************)
LEMMA MeasurementStays ==
    ASSUME NEW c, NEW identity, CellMeasured(c, identity), DOMAIN dirs \subseteq DOMAIN dirs',
           \A d \in DOMAIN dirs :
              dirs[d].cell = c /\ dirs[d].status = "success" /\ dirs[d].extract = "valid" =>
                 dirs'[d] = dirs[d]
    PROVE  CellMeasured(c, identity)'
<1>1. PICK d \in DOMAIN dirs : Counting(d, c, identity) /\ dirs[d].extract = "valid"
  BY DEF CellMeasured
<1>2. dirs'[d] = dirs[d]
  BY <1>1 DEF Counting
<1>3. Counting(d, c, identity)' /\ dirs'[d].extract = "valid"
  BY <1>1, <1>2 DEF Counting
<1>4. QED
  BY <1>3 DEF CellMeasured

(***************************************************************************)
(* The next cell of a session, whose run gets a directory, or its end.     *)
(***************************************************************************)
LEMMA NextPreserves == ArchiveInv /\ Archived!Next => ArchiveInv'
<1> SUFFICES ASSUME ArchiveInv, Archived!Next PROVE ArchiveInv'
  OBVIOUS
<1>1. wrapper.phase = "next" /\ UNCHANGED <<Archived!people, unjudged>>
  BY DEF Archived!Next
<1>2. ASSUME NEW outcome \in {"stopped", "complete"}, Archived!End(outcome), UNCHANGED dirs
      PROVE  ArchiveInv'
  BY <1>1, <1>2, EndPreserves
<1> DEFINE cell == Archived!Min(wrapper.pending)
           Fresh(measurable) == [cell |-> cell, identity |-> source, status |-> "in_progress",
                                 measurable |-> measurable, extract |-> "none",
                                 incomplete |-> FALSE]
<1>3. CASE /\ wrapper.pending # {} /\ Len(dirs) < MaxDirs
           /\ \E measurable \in BOOLEAN : dirs' = Append(dirs, Fresh(measurable))
           /\ wrapper' = [wrapper EXCEPT !.phase = "benchmark", !.cell = cell,
                                         !.pending = @ \ {cell}]
  <2>1. PICK measurable \in BOOLEAN : dirs' = Append(dirs, Fresh(measurable))
    BY <1>3
  <2>2. cell \in wrapper.pending /\ wrapper.pending \subseteq 1..Cells
    <3>1. wrapper.pending \subseteq Nat
      BY ArchiveShape DEF ArchiveInv
    <3>2. PICK m \in wrapper.pending : \A x \in wrapper.pending : m <= x
      BY <1>3, <3>1, LeastElement
    <3>3. QED
      BY <3>2, ArchiveShape DEF Archived!Min, ArchiveInv
  <2>3. source \in 1..2
    BY DEF ArchiveInv, ArchiveTyped, Archived!ArchiveTypeOK
  <2> HIDE DEF cell
  <2>4. cell \in 1..Cells
    BY <2>2
  <2>5. /\ Fresh(measurable) \in Archived!Directory /\ Fresh(measurable).extract = "none"
        /\ Fresh(measurable).status = "in_progress"
    BY <2>3, <2>4 DEF Archived!Directory
  <2> HIDE DEF Fresh
  <2>6. /\ dirs' \in Seq(Archived!Directory) /\ Len(dirs') = Len(dirs) + 1
        /\ DOMAIN dirs = 1..Len(dirs) /\ DOMAIN dirs' = 1..Len(dirs) + 1 /\ Len(dirs) \in Nat
        /\ \A d \in DOMAIN dirs : dirs'[d] = dirs[d]
        /\ dirs'[Len(dirs')] = Fresh(measurable)
    BY <2>1, <2>5, ArchiveShape DEF ArchiveInv
  <2>7. /\ wrapper'.phase = "benchmark" /\ wrapper'.identity = wrapper.identity
        /\ wrapper'.pending = wrapper.pending \ {cell} /\ wrapper'.cell = cell
        /\ wrapper'.target = wrapper.target /\ wrapper'.outcome = wrapper.outcome
        /\ wrapper' \in Sessions
    <3>1. /\ wrapper \in Sessions /\ wrapper.pending \ {cell} \subseteq 1..Cells
          /\ cell \in 0..Cells
      BY <2>2, <2>4 DEF ArchiveInv, ArchiveTyped
    <3>2. QED
      BY <1>3, <3>1 DEF Sessions, WithRun
  <2>8. ArchiveTyped'
    <3>1. Len(dirs') \in Len(dirs)..MaxDirs /\ wrapper'.target \in 0..Len(dirs')
      <4>1. MaxDirs \in Nat /\ wrapper.target \in 0..Len(dirs) /\ Len(dirs) < MaxDirs
        BY <1>3, HarnessAssumption, ArchiveShape DEF ArchiveInv
      <4>2. QED
        BY <2>6, <2>7, <4>1
    <3>2. QED
      BY <1>1, <2>6, <2>7, <3>1, SessionKeepsTypes
  <2>9. RunStands'
    BY <2>2, <2>4, <2>5, <2>6, <2>7 DEF RunStands, WithRun, AtTarget
  <2>10. ExtractedLate'
    BY <2>5, <2>6 DEF ArchiveInv, ExtractedLate
  <2>11. PoolsNothingNew
    <3>1. ASSUME NEW d \in Archived!Loaded' PROVE d \in Archived!Loaded /\ dirs'[d] = dirs[d]
      <4>1. d \in DOMAIN dirs' /\ dirs'[d].status = "success"
        BY <3>1 DEF Archived!Loaded
      <4>2. d # Len(dirs')
        BY <2>5, <2>6, <4>1
      <4>3. d \in DOMAIN dirs
        BY <2>6, <4>1, <4>2
      <4>4. QED
        BY <2>6, <3>1, <4>3 DEF Archived!Loaded
    <3>2. QED
      BY <3>1 DEF PoolsNothingNew
  <2>12. SessionStands'
    <3>1. \A c, identity : CellMeasured(c, identity)' <=> CellMeasured(c, identity)
      <4>1. ASSUME NEW c, NEW identity, CellMeasured(c, identity)
            PROVE  CellMeasured(c, identity)'
        <5>1. DOMAIN dirs \subseteq DOMAIN dirs'
          BY <2>6
        <5>2. QED
          BY <2>6, <4>1, <5>1, MeasurementStays
      <4>2. QED
        BY <2>11, <4>1, NothingNewFacts
    <3>4. \A c : CellMeasured(c, wrapper.identity)' <=> CellMeasured(c, wrapper.identity)
      BY <2>7, <3>1
    <3>2. \A c \in 1..Cells : (Done(c)' => Done(c)) /\ (Owed(c)' => Owed(c))
      BY <1>1, <2>2, <2>7 DEF Done, Owed, WithRun, AtTarget
    <3>3. QED
      BY <1>1, <2>7, <3>2, <3>4 DEF ArchiveInv, SessionStands
  <2>13. OneMeasurement'
    BY <1>1, <2>11, NothingNewFacts DEF ArchiveInv, Archived!people
  <2>14. FailuresKnown'
    BY <1>1, <2>11, FailuresStayKnown
  <2>15. QED
    BY <2>8, <2>9, <2>10, <2>12, <2>13, <2>14 DEF ArchiveInv
<1>4. QED
  BY <1>2, <1>3 DEF Archived!Next

\* What a step that only moves the session on changes in its record.
Moves(phase_after, target_after) ==
    /\ wrapper'.phase = phase_after /\ wrapper'.target = target_after
    /\ wrapper'.identity = wrapper.identity /\ wrapper'.pending = wrapper.pending
    /\ wrapper'.cell = wrapper.cell /\ wrapper'.outcome = wrapper.outcome
    /\ wrapper' \in Sessions

(***************************************************************************)
(* A session that moves on keeps all but its phase and its target.         *)
(***************************************************************************)
LEMMA MovesOn ==
    ASSUME wrapper \in Sessions, NEW next_phase \in {"next"} \cup WithRun, NEW next_target \in Nat,
           \/ wrapper' = [wrapper EXCEPT !.phase = next_phase, !.target = next_target]
           \/ /\ wrapper' = [wrapper EXCEPT !.phase = next_phase]
              /\ next_target = wrapper.target
    PROVE  Moves(next_phase, next_target)
BY DEF Moves, Sessions

(***************************************************************************)
(* A benchmark that succeeds is not yet extracted.                         *)
(***************************************************************************)
LEMMA BenchmarkSucceedsPreserves == ArchiveInv /\ Archived!BenchmarkSucceeds => ArchiveInv'
<1> SUFFICES ASSUME ArchiveInv, Archived!BenchmarkSucceeds PROVE ArchiveInv'
  OBVIOUS
<1>1. /\ wrapper.phase = "benchmark" /\ UNCHANGED <<Archived!people, unjudged>>
      /\ Archived!Set(Archived!Newest, "status", "success")
      /\ wrapper' = [wrapper EXCEPT !.phase = "locate"]
  BY DEF Archived!BenchmarkSucceeds
<1>2. /\ Archived!Newest \in DOMAIN dirs /\ dirs[Archived!Newest].status = "in_progress"
      /\ dirs[Archived!Newest].extract = "none"
  BY <1>1, NewestIsThere
<1>3. /\ dirs' \in Seq(Archived!Directory) /\ Len(dirs') = Len(dirs)
      /\ DOMAIN dirs' = DOMAIN dirs /\ PoolsNothingNew /\ ExtractedLate'
      /\ \A d \in DOMAIN dirs : d # Archived!Newest => dirs'[d] = dirs[d]
  <2>1. "success" \in Values("status")
    BY DEF Values
  <2>2. QED
    BY <1>1, <1>2, <2>1, StatusChanges
<1>4. /\ wrapper \in Sessions /\ wrapper.target \in 0..Len(dirs) /\ Len(dirs) \in 0..MaxDirs
      /\ dirs \in Seq(Archived!Directory)
  BY <1>2, ArchiveShape DEF ArchiveInv, ArchiveTyped, Archived!ArchiveTypeOK
<1>5. Moves("locate", wrapper.target)
  <2>1. "locate" \in {"next"} \cup WithRun /\ wrapper.target \in Nat
    BY <1>4 DEF WithRun
  <2>2. QED
    BY <1>1, <1>4, <2>1, MovesOn
<1>6. ArchiveTyped'
  <2>1. Len(dirs') \in Len(dirs)..MaxDirs /\ wrapper'.target \in 0..Len(dirs')
    BY <1>3, <1>4, <1>5, HarnessAssumption DEF Moves
  <2>2. QED
    BY <1>1, <1>3, <1>5, <2>1, SessionKeepsTypes DEF Moves
<1>7. RunStands'
  <2>1. wrapper.cell \in 1..Cells /\ wrapper.cell \notin wrapper.pending
    BY <1>1 DEF ArchiveInv, RunStands, WithRun
  <2>2. dirs' # <<>>
    BY <1>2, <1>3, <1>4
  <2>3. QED
    BY <1>5, <2>1, <2>2 DEF RunStands, Moves, WithRun, AtTarget
<1>8. SessionStands'
  <2>1. \A c, identity : CellMeasured(c, identity)' <=> CellMeasured(c, identity)
    <3>1. ASSUME NEW c, NEW identity, CellMeasured(c, identity)
          PROVE  CellMeasured(c, identity)'
      <4>1. DOMAIN dirs \subseteq DOMAIN dirs'
        BY <1>3
      <4>2. \A d \in DOMAIN dirs :
               dirs[d].cell = c /\ dirs[d].status = "success" /\ dirs[d].extract = "valid" =>
                  dirs'[d] = dirs[d]
        BY <1>2, <1>3
      <4>3. QED
        BY <3>1, <4>1, <4>2, MeasurementStays
    <3>2. QED
      BY <1>3, <3>1, NothingNewFacts
  <2>2. \A c : CellMeasured(c, wrapper.identity)' <=> CellMeasured(c, wrapper.identity)
    BY <1>5, <2>1 DEF Moves
  <2>3. \A c \in 1..Cells : (Done(c)' <=> Done(c)) /\ (Owed(c)' <=> Owed(c))
    BY <1>1, <1>5 DEF Done, Owed, WithRun, AtTarget, Moves
  <2>4. QED
    BY <1>1, <1>5, <2>2, <2>3 DEF ArchiveInv, SessionStands, Moves
<1>9. OneMeasurement'
  BY <1>1, <1>3, NothingNewFacts DEF ArchiveInv, Archived!people
<1>10. FailuresKnown'
  BY <1>1, <1>3, FailuresStayKnown
<1>11. QED
  BY <1>3, <1>6, <1>7, <1>8, <1>9, <1>10 DEF ArchiveInv

\* A session that moves on and leaves the directories alone.
LEMMA MovePreserves ==
    ASSUME ArchiveInv, UNCHANGED <<dirs, Archived!people, unjudged>>,
           wrapper.phase \in WithRun,
           NEW next_phase \in {"next"} \cup WithRun, NEW next_target \in 0..Len(dirs),
           Moves(next_phase, next_target), RunStands',
           wrapper.phase # "verdict" \/ dirs[wrapper.target].extract # "invalid",
           \A c \in 1..Cells : Done(c)' => CellMeasured(c, wrapper.identity),
           \A c \in 1..Cells : Owed(c)' => Owed(c)
    PROVE  ArchiveInv'
<1>1. /\ dirs' \in Seq(Archived!Directory) /\ Len(dirs') = Len(dirs)
      /\ PoolsNothingNew /\ ExtractedLate' /\ Archived!Loaded' = Archived!Loaded
  BY DirectoriesStay
<1>2. ArchiveTyped'
  <2>1. Len(dirs) \in 0..MaxDirs
    BY ArchiveShape, HarnessAssumption DEF ArchiveInv, ArchiveTyped, Archived!ArchiveTypeOK
  <2>2. Len(dirs') \in Len(dirs)..MaxDirs /\ wrapper'.target \in 0..Len(dirs')
    BY <1>1, <2>1, HarnessAssumption DEF Moves
  <2>3. QED
    BY <1>1, <2>2, SessionKeepsTypes DEF Moves
<1>3. SessionStands'
  <2>1. \A c, identity : CellMeasured(c, identity)' <=> CellMeasured(c, identity)
    BY DEF CellMeasured, Counting
  <2>2. \A c : CellMeasured(c, wrapper.identity)' <=> CellMeasured(c, wrapper.identity)
    BY <2>1 DEF Moves
  <2>3. wrapper.phase # "idle" /\ wrapper'.outcome = wrapper.outcome
    BY DEF WithRun, AtTarget, Moves
  <2>4. QED
    BY <2>2, <2>3 DEF ArchiveInv, SessionStands
<1>4. OneMeasurement'
  BY <1>1, NothingNewFacts DEF ArchiveInv, Archived!people
<1>5. FailuresKnown'
  <2>1. ASSUME NEW d \in Archived!Loaded', dirs'[d].extract = "invalid"
        PROVE  d \in by_hand' \cup unjudged'
    BY <1>1, <2>1 DEF ArchiveInv, FailuresKnown, Archived!people
  <2>2. QED
    BY <2>1 DEF FailuresKnown
<1>6. QED
  BY <1>1, <1>2, <1>3, <1>4, <1>5 DEF ArchiveInv

(***************************************************************************)
(* The run that is looked up counts for the cell and the identity of the   *)
(* session, be it the one just made or an older one.                       *)
(***************************************************************************)
LEMMA LocatePreserves == ArchiveInv /\ Archived!Locate => ArchiveInv'
<1> SUFFICES ASSUME ArchiveInv, Archived!Locate PROVE ArchiveInv'
  OBVIOUS
<1> DEFINE newest == Archived!AlreadySucceeded(wrapper.cell, wrapper.identity, FALSE)
<1>1. /\ wrapper.phase = "locate" /\ UNCHANGED <<dirs, Archived!people, unjudged>>
      /\ \/ Archived!End("stopped")
         \/ /\ newest # 0
            /\ wrapper' = [wrapper EXCEPT !.phase = "extract", !.target = newest]
  BY DEF Archived!Locate
<1>2. CASE Archived!End("stopped")
  BY <1>1, <1>2, EndPreserves
<1>3. CASE /\ newest # 0
           /\ wrapper' = [wrapper EXCEPT !.phase = "extract", !.target = newest]
  <2>1. newest \in DOMAIN dirs /\ Counting(newest, wrapper.cell, wrapper.identity)
    <3>1. Len(dirs) \in Nat /\ DOMAIN dirs = 1..Len(dirs) /\ FALSE \in BOOLEAN
      BY ArchiveShape DEF ArchiveInv
    <3>2. QED
      BY <1>3, <3>1, NewestCounting
  <2> HIDE DEF newest
  <2>2. newest \in 0..Len(dirs) /\ newest \in Nat
    BY <2>1, ArchiveShape DEF ArchiveInv
  <2>3. /\ "extract" \in {"next"} \cup WithRun /\ wrapper.phase \in WithRun
        /\ wrapper \in Sessions
    BY <1>1 DEF WithRun, AtTarget, ArchiveInv, ArchiveTyped
  <2>4. Moves("extract", newest)
    BY <1>3, <2>2, <2>3, MovesOn
  <2>5. RunStands'
    <3>1. wrapper.cell \in 1..Cells /\ wrapper.cell \notin wrapper.pending
      BY <2>3 DEF ArchiveInv, RunStands
    <3>2. wrapper'.target \in DOMAIN dirs'
      BY <1>1, <2>1, <2>4 DEF Moves
    <3>3. Counting(wrapper.target, wrapper.cell, wrapper.identity)'
      BY <1>1, <2>1, <2>4 DEF Moves, Counting
    <3>4. QED
      BY <2>4, <3>1, <3>2, <3>3 DEF RunStands, Moves, WithRun, AtTarget
  <2>6. \A c \in 1..Cells : (Done(c)' => Done(c)) /\ (Owed(c)' => Owed(c))
    BY <1>1, <2>4 DEF Done, Owed, WithRun, AtTarget, Moves
  <2>7. \A c \in 1..Cells : Done(c) => CellMeasured(c, wrapper.identity)
    BY <1>1 DEF ArchiveInv, SessionStands
  <2>8. QED
    BY <1>1, <2>2, <2>3, <2>4, <2>5, <2>6, <2>7, MovePreserves
<1>4. QED
  BY <1>1, <1>2, <1>3

(***************************************************************************)
(* A verdict adds the cell to what is measured, or marks its run as        *)
(* failed.                                                                 *)
(***************************************************************************)
LEMMA VerdictPreserves == ArchiveInv /\ Archived!Verdict => ArchiveInv'
<1> SUFFICES ASSUME ArchiveInv, Archived!Verdict PROVE ArchiveInv'
  OBVIOUS
<1>1. wrapper.phase = "verdict" /\ UNCHANGED <<Archived!people, unjudged>>
  BY DEF Archived!Verdict
<1>2. /\ wrapper.target \in DOMAIN dirs
      /\ Counting(wrapper.target, wrapper.cell, wrapper.identity)
  BY <1>1, TargetIsThere DEF AtTarget
<1>3. CASE dirs[wrapper.target].extract = "valid"
  <2>1. wrapper' = [wrapper EXCEPT !.phase = "next", !.target = 0] /\ UNCHANGED dirs
    BY <1>3 DEF Archived!Verdict
  <2>2. "next" \in {"next"} \cup WithRun /\ wrapper.phase \in WithRun /\ wrapper \in Sessions
    BY <1>1 DEF WithRun, AtTarget, ArchiveInv, ArchiveTyped
  <2>3. Moves("next", 0)
    BY <2>1, <2>2, MovesOn
  <2>4. RunStands'
    BY <2>3 DEF RunStands, Moves, WithRun, AtTarget
  <2>5. ASSUME NEW c \in 1..Cells, Done(c)' PROVE CellMeasured(c, wrapper.identity)
    <3>1. c \notin wrapper.pending
      BY <2>3, <2>5 DEF Done, Moves
    <3>2. CASE c = wrapper.cell
      BY <1>2, <1>3, <3>2 DEF CellMeasured
    <3>3. CASE c # wrapper.cell
      <4>1. Done(c)
        BY <3>1, <3>3 DEF Done
      <4>2. QED
        BY <1>1, <4>1 DEF ArchiveInv, SessionStands
    <3>4. QED
      BY <3>2, <3>3
  <2>6. \A c \in 1..Cells : Owed(c)' => Owed(c)
    BY <2>3 DEF Owed, WithRun, AtTarget, Moves
  <2>7. 0 \in 0..Len(dirs)
    BY ArchiveShape DEF ArchiveInv
  <2>8. QED
    BY <1>1, <1>3, <2>1, <2>2, <2>3, <2>4, <2>5, <2>6, <2>7, MovePreserves
<1>4. CASE dirs[wrapper.target].extract # "valid"
  <2>1. /\ Archived!Set(wrapper.target, "status", "failed") /\ Archived!End("stopped")
        /\ "failed" \in Values("status")
    BY <1>4 DEF Archived!Verdict, Values
  <2>2. wrapper' \in Sessions /\ wrapper'.phase = "idle" /\ wrapper'.target = 0
    BY <2>1, IdleIsSession DEF Archived!End
  <2>3. QED
    BY <1>1, <1>2, <2>1, <2>2, MarkPreserves
<1>5. QED
  BY <1>3, <1>4

(***************************************************************************)
(* extract.py at work on the run of the session.                           *)
(***************************************************************************)
LEMMA ExtractionMoves ==
    ASSUME ArchiveInv, wrapper.phase \in {"extract", "torn"},
           UNCHANGED <<Archived!people, unjudged>>,
           NEW value \in Values("extract"), Archived!Set(wrapper.target, "extract", value),
           NEW next_phase \in {"torn", "verdict"}, wrapper' = [wrapper EXCEPT !.phase = next_phase],
           IF next_phase = "torn" THEN value = "torn" ELSE value \in {"valid", "invalid"}
    PROVE  ArchiveInv'
<1> DEFINE n == wrapper.target
<1>1. /\ n \in DOMAIN dirs /\ Counting(n, wrapper.cell, wrapper.identity)
      /\ wrapper.cell \in 1..Cells /\ wrapper.cell \notin wrapper.pending
  BY TargetIsThere DEF AtTarget, WithRun, ArchiveInv, RunStands
<1>2. /\ n \in 0..Len(dirs) /\ Len(dirs) \in 0..MaxDirs /\ wrapper \in Sessions
      /\ dirs \in Seq(Archived!Directory)
  BY ArchiveShape DEF ArchiveInv, ArchiveTyped, Archived!ArchiveTypeOK
<1>3. Moves(next_phase, n)
  <2>1. next_phase \in {"next"} \cup WithRun /\ n \in Nat
    BY <1>2 DEF WithRun, AtTarget
  <2>2. QED
    BY <1>2, <2>1, MovesOn
<1> HIDE DEF n
<1>4. /\ dirs' \in Seq(Archived!Directory) /\ Len(dirs') = Len(dirs)
      /\ DOMAIN dirs' = DOMAIN dirs
      /\ \A d \in DOMAIN dirs : d # n => dirs'[d] = dirs[d]
      /\ Kept(n, "extract") /\ dirs'[n].extract = value
  <2>1. "extract" \in {"status", "extract", "incomplete"} /\ Archived!Set(n, "extract", value)
    BY DEF n
  <2>2. QED
    BY <1>1, <1>2, <2>1, FieldChanges
<1>5. /\ dirs[n].cell = wrapper.cell /\ dirs[n].identity = wrapper.identity
      /\ dirs[n].status = "success"
      /\ dirs'[n].cell = wrapper.cell /\ dirs'[n].identity = wrapper.identity
      /\ dirs'[n].status = "success" /\ ~dirs'[n].incomplete
  BY <1>1, <1>4 DEF Counting, Kept
<1>6. ArchiveTyped'
  <2>1. Len(dirs') \in Len(dirs)..MaxDirs /\ wrapper'.target \in 0..Len(dirs')
    <3>1. MaxDirs \in Nat /\ Len(dirs') = Len(dirs) /\ wrapper'.target = n
      BY <1>3, <1>4, HarnessAssumption DEF Moves
    <3>2. QED
      BY <1>2, <3>1
  <2>2. QED
    BY <1>3, <1>4, <2>1, SessionKeepsTypes DEF Moves
<1>7. RunStands'
  <2>1. wrapper'.target \in DOMAIN dirs'
    BY <1>1, <1>3, <1>4 DEF Moves
  <2>2. Counting(wrapper.target, wrapper.cell, wrapper.identity)'
    BY <1>3, <1>5 DEF Moves, Counting, n
  <2>3. wrapper'.phase = "torn" => dirs'[wrapper'.target].extract = "torn"
    BY <1>3, <1>4 DEF Moves
  <2>4. QED
    BY <1>1, <1>3, <2>1, <2>2, <2>3 DEF RunStands, Moves, WithRun, AtTarget
<1>8. ExtractedLate'
  BY <1>4, <1>5 DEF ArchiveInv, ExtractedLate
\* Another run is as it was; this one was not measured.
<1>9. ASSUME NEW d \in DOMAIN dirs', d # n, NEW c, NEW identity, Counting(d, c, identity)'
      PROVE  d \in DOMAIN dirs /\ Counting(d, c, identity) /\ dirs'[d].extract = dirs[d].extract
             /\ dirs'[d] = dirs[d]
  <2>1. d \in DOMAIN dirs /\ dirs'[d] = dirs[d]
    BY <1>4, <1>9
  <2>2. QED
    BY <1>9, <2>1 DEF Counting
<1>10. ~CellMeasured(wrapper.cell, wrapper.identity)
  <2>1. Owed(wrapper.cell) /\ wrapper.phase # "idle"
    BY DEF Owed, WithRun, AtTarget
  <2>2. QED
    BY <1>1, <2>1 DEF ArchiveInv, SessionStands
<1>11. ASSUME NEW c \in 1..Cells, c # wrapper.cell
       PROVE  CellMeasured(c, wrapper.identity)' <=> CellMeasured(c, wrapper.identity)
  <2>1. ASSUME NEW identity, CellMeasured(c, identity) PROVE CellMeasured(c, identity)'
    <3>1. \A d \in DOMAIN dirs : dirs[d].cell = c => dirs'[d] = dirs[d]
      BY <1>4, <1>5, <1>11
    <3>2. DOMAIN dirs \subseteq DOMAIN dirs'
      BY <1>4
    <3>3. QED
      BY <2>1, <3>1, <3>2, MeasurementStays
  <2>2. ASSUME NEW identity, CellMeasured(c, identity)' PROVE CellMeasured(c, identity)
    <3>1. PICK d \in DOMAIN dirs' : Counting(d, c, identity)' /\ dirs'[d].extract = "valid"
      BY <2>2 DEF CellMeasured
    <3>2. d # n
      BY <1>5, <1>11, <3>1 DEF Counting
    <3>3. QED
      BY <1>9, <3>1, <3>2 DEF CellMeasured
  <2>3. \A identity : CellMeasured(c, identity)' <=> CellMeasured(c, identity)
    BY <2>1, <2>2
  <2>4. QED
    BY <1>3, <2>3 DEF Moves
<1>12. SessionStands'
  <2>1. wrapper'.phase # "idle" /\ wrapper'.outcome = "running"
    BY <1>3 DEF Moves, ArchiveInv, SessionStands
  <2>2. ASSUME NEW c \in 1..Cells, Done(c)' PROVE CellMeasured(c, wrapper.identity)'
    <3>1. Done(c) /\ c # wrapper.cell
      BY <1>3, <2>2 DEF Done, Moves
    <3>2. CellMeasured(c, wrapper.identity)
      BY <3>1 DEF ArchiveInv, SessionStands
    <3>3. QED
      BY <1>11, <3>1, <3>2
  <2>3. ASSUME NEW c \in 1..Cells, Owed(c)' PROVE ~CellMeasured(c, wrapper.identity)'
    <3>1. Owed(c)
      BY <1>3, <2>3 DEF Owed, Moves, WithRun, AtTarget
    <3>2. ~CellMeasured(c, wrapper.identity)
      BY <3>1 DEF ArchiveInv, SessionStands
    <3>3. CASE c # wrapper.cell
      BY <1>11, <3>2, <3>3
    <3>4. CASE c = wrapper.cell
      <4>1. next_phase = "torn" /\ value = "torn"
        BY <1>1, <1>3, <2>3, <3>4 DEF Owed, Moves, WithRun, AtTarget
      <4>2. ASSUME NEW identity, CellMeasured(c, identity)' PROVE CellMeasured(c, identity)
        <5>1. PICK d \in DOMAIN dirs' : Counting(d, c, identity)' /\ dirs'[d].extract = "valid"
          BY <4>2 DEF CellMeasured
        <5>2. d # n
          BY <1>4, <4>1, <5>1
        <5>3. QED
          BY <1>9, <5>1, <5>2 DEF CellMeasured
      <4>3. CellMeasured(c, wrapper.identity)' => CellMeasured(c, wrapper.identity)
        BY <1>3, <4>2 DEF Moves
      <4>4. QED
        BY <3>2, <4>3
    <3>5. QED
      BY <3>3, <3>4
  <2>4. QED
    BY <2>1, <2>2, <2>3 DEF SessionStands
<1>13. OneMeasurement'
  <2>1. ASSUME NEW d \in DOMAIN dirs', NEW e \in DOMAIN dirs', d = n, e # n,
               Counting(d, dirs[e].cell, dirs[e].identity)',
               Counting(e, dirs[e].cell, dirs[e].identity)', dirs'[e].extract = "valid"
        PROVE  FALSE
    <3>1. dirs'[e].cell = wrapper.cell /\ dirs'[e].identity = wrapper.identity
      BY <1>5, <2>1 DEF Counting
    <3>2. /\ e \in DOMAIN dirs /\ Counting(e, wrapper.cell, wrapper.identity)
          /\ dirs[e].extract = "valid"
      BY <1>9, <2>1, <3>1
    <3>3. QED
      BY <1>10, <3>2 DEF CellMeasured
  <2>2. ASSUME NEW d \in DOMAIN dirs', NEW e \in DOMAIN dirs', d # n, e # n,
               Counting(d, dirs[e].cell, dirs[e].identity)', dirs'[d].extract = "valid",
               Counting(e, dirs[e].cell, dirs[e].identity)', dirs'[e].extract = "valid"
        PROVE  d = e \/ d \in by_hand \/ e \in by_hand
    <3>1. /\ d \in DOMAIN dirs /\ Counting(d, dirs'[e].cell, dirs'[e].identity)
          /\ dirs[d].extract = "valid"
      BY <1>9, <2>2
    <3>2. /\ e \in DOMAIN dirs /\ Counting(e, dirs'[e].cell, dirs'[e].identity)
          /\ dirs[e].extract = "valid" /\ dirs'[e] = dirs[e]
      BY <1>9, <2>2
    <3>3. QED
      BY <3>1, <3>2 DEF ArchiveInv, OneMeasurement
  <2>3. by_hand' = by_hand
    BY DEF Archived!people
  <2>4. SUFFICES ASSUME NEW d \in DOMAIN dirs', NEW e \in DOMAIN dirs',
                        Counting(d, dirs[e].cell, dirs[e].identity)', dirs'[d].extract = "valid",
                        Counting(e, dirs[e].cell, dirs[e].identity)', dirs'[e].extract = "valid"
                 PROVE  d = e \/ d \in by_hand \/ e \in by_hand
    BY <2>3 DEF OneMeasurement
  <2>5. CASE d = n /\ e # n
    BY <2>1, <2>4, <2>5
  <2>6. CASE d # n /\ e # n
    BY <2>2, <2>4, <2>6
  <2>7. CASE d # n /\ e = n
    <3>1. /\ dirs'[d].cell = dirs'[e].cell /\ dirs'[d].identity = dirs'[e].identity
      BY <2>4 DEF Counting
    <3>2. /\ Counting(e, dirs[d].cell, dirs[d].identity)'
          /\ Counting(d, dirs[d].cell, dirs[d].identity)'
      BY <2>4, <3>1 DEF Counting
    <3>3. QED
      BY <2>1, <2>4, <2>7, <3>2
  <2>8. QED
    BY <2>5, <2>6, <2>7
<1>14. FailuresKnown'
  <2>1. ASSUME NEW d \in Archived!Loaded', dirs'[d].extract = "invalid"
        PROVE  \/ d \in by_hand' \cup unjudged'
               \/ wrapper'.phase = "verdict" /\ d = wrapper'.target
    <3>1. CASE d = n
      <4>1. next_phase = "verdict"
        BY <1>4, <2>1, <3>1
      <4>2. QED
        BY <1>3, <3>1, <4>1 DEF Moves
    <3>2. CASE d # n
      <4>1. d \in DOMAIN dirs /\ dirs'[d] = dirs[d]
        BY <1>4, <2>1, <3>2 DEF Archived!Loaded
      <4>2. d \in Archived!Loaded /\ dirs[d].extract = "invalid"
        BY <2>1, <4>1 DEF Archived!Loaded
      <4>3. QED
        BY <4>2 DEF ArchiveInv, FailuresKnown, Archived!people
    <3>3. QED
      BY <3>1, <3>2
  <2>2. QED
    BY <2>1 DEF FailuresKnown
<1>15. QED
  BY <1>6, <1>7, <1>8, <1>12, <1>13, <1>14 DEF ArchiveInv

(***************************************************************************)
(* extract.py, which tears, fills or leaves an extraction.                 *)
(***************************************************************************)
LEMMA ExtractPreserves == ArchiveInv /\ Archived!Extract => ArchiveInv'
<1> SUFFICES ASSUME ArchiveInv, Archived!Extract PROVE ArchiveInv'
  OBVIOUS
<1>1. UNCHANGED <<Archived!people, unjudged>>
  BY DEF Archived!Extract
<1>2. CASE /\ wrapper.phase = "extract" /\ Archived!Set(wrapper.target, "extract", "torn")
           /\ wrapper' = [wrapper EXCEPT !.phase = "torn"]
  <2>1. "torn" \in Values("extract") /\ "torn" \in {"torn", "verdict"}
    BY DEF Values
  <2>2. QED
    BY <1>1, <1>2, <2>1, ExtractionMoves
<1>3. CASE /\ wrapper.phase = "torn"
           /\ Archived!Set(wrapper.target, "extract", Archived!Extraction(wrapper.target))
           /\ wrapper' = [wrapper EXCEPT !.phase = "verdict"]
  <2>1. /\ Archived!Extraction(wrapper.target) \in Values("extract")
        /\ Archived!Extraction(wrapper.target) \in {"valid", "invalid"}
        /\ "verdict" \in {"torn", "verdict"} /\ "verdict" # "torn"
    BY DEF Values, Archived!Extraction
  <2>2. QED
    BY <1>1, <1>3, <2>1, ExtractionMoves
<1>4. CASE /\ wrapper.phase = "extract" /\ wrapper' = [wrapper EXCEPT !.phase = "verdict"]
           /\ UNCHANGED dirs
  <2>1. /\ "verdict" \in {"next"} \cup WithRun /\ wrapper.phase \in WithRun
        /\ wrapper.phase \in AtTarget /\ wrapper \in Sessions /\ wrapper.target \in Nat
        /\ wrapper.target \in 0..Len(dirs)
    BY <1>4, ArchiveShape DEF WithRun, AtTarget, ArchiveInv, ArchiveTyped
  <2>2. Moves("verdict", wrapper.target)
    BY <1>4, <2>1, MovesOn
  <2>3. RunStands'
    <3>1. /\ wrapper.cell \in 1..Cells /\ wrapper.cell \notin wrapper.pending
          /\ wrapper.target \in DOMAIN dirs
          /\ Counting(wrapper.target, wrapper.cell, wrapper.identity)
      BY <2>1 DEF ArchiveInv, RunStands
    <3>2. Counting(wrapper.target, wrapper.cell, wrapper.identity)'
      BY <1>4, <2>2, <3>1 DEF Moves, Counting
    <3>3. QED
      BY <1>4, <2>2, <3>1, <3>2 DEF RunStands, Moves, WithRun, AtTarget
  <2>4. \A c \in 1..Cells : (Done(c)' => Done(c)) /\ (Owed(c)' => Owed(c))
    BY <1>4, <2>2 DEF Done, Owed, WithRun, AtTarget, Moves
  <2>5. \A c \in 1..Cells : Done(c) => CellMeasured(c, wrapper.identity)
    BY <1>4 DEF ArchiveInv, SessionStands
  <2>6. QED
    BY <1>1, <1>4, <2>1, <2>2, <2>3, <2>4, <2>5, MovePreserves
<1>5. QED
  BY <1>2, <1>3, <1>4 DEF Archived!Extract

(***************************************************************************)
(* An edit of the source changes neither runs nor the identity of a        *)
(* session.                                                                *)
(***************************************************************************)
LEMMA EditPreserves == ArchiveInv /\ Archived!Edit => ArchiveInv'
<1> SUFFICES ASSUME ArchiveInv, Archived!Edit PROVE ArchiveInv'
  OBVIOUS
<1>1. UNCHANGED <<dirs, wrapper, by_hand, unjudged>>
  BY DEF Archived!Edit
<1>2. ArchiveTyped'
  <2>1. /\ edits \in 0..MaxEdits /\ edits < MaxEdits /\ edits' = edits + 1 /\ hands' = hands
        /\ source \in 1..2 /\ source' = 3 - source
    BY DEF Archived!Edit, ArchiveInv, ArchiveTyped, Archived!ArchiveTypeOK
  <2>2. edits' \in 0..MaxEdits /\ source' \in 1..2
    BY <2>1, HarnessAssumption
  <2>3. QED
    BY <1>1, <2>1, <2>2
       DEF ArchiveInv, ArchiveTyped, Archived!ArchiveTypeOK, Archived!Directory, Sessions
<1>3. RunStands' /\ ExtractedLate' /\ OneMeasurement'
  BY <1>1 DEF ArchiveInv, RunStands, ExtractedLate, OneMeasurement, Counting
<1>4. SessionStands'
  <2>1. \A c : CellMeasured(c, wrapper.identity)' <=> CellMeasured(c, wrapper.identity)
    BY <1>1 DEF CellMeasured, Counting
  <2>2. \A c : (Done(c)' <=> Done(c)) /\ (Owed(c)' <=> Owed(c))
    BY <1>1 DEF Done, Owed
  <2>3. QED
    BY <1>1, <2>1, <2>2 DEF ArchiveInv, SessionStands
<1>5. FailuresKnown'
  BY <1>1 DEF ArchiveInv, FailuresKnown, Archived!Loaded
<1>6. QED
  BY <1>2, <1>3, <1>4, <1>5 DEF ArchiveInv

(***************************************************************************)
(* What people do between sessions: an extraction that they answer for, or *)
(* a directory left out.                                                   *)
(***************************************************************************)
LEMMA ByHandPreserves == ArchiveInv /\ Archived!ByHand => ArchiveInv'
<1> SUFFICES ASSUME ArchiveInv, Archived!ByHand PROVE ArchiveInv'
  OBVIOUS
<1>1. /\ wrapper.phase = "idle" /\ wrapper' = wrapper /\ unjudged' = unjudged
      /\ source' = source /\ edits' = edits /\ hands < MaxHands /\ hands' = hands + 1
  BY DEF Archived!ByHand
<1>2. PICK n \in DOMAIN dirs :
         \/ /\ Archived!Set(n, "extract", Archived!Extraction(n)) /\ dirs[n].status # "in_progress"
            /\ by_hand' = by_hand \cup {n}
         \/ Archived!Set(n, "incomplete", TRUE) /\ by_hand' = by_hand
  BY DEF Archived!ByHand
<1>3. dirs \in Seq(Archived!Directory)
  BY ArchiveShape DEF ArchiveInv
<1>4. PICK field \in {"extract", "incomplete"} :
         \E value \in Values(field) :
            /\ Archived!Set(n, field, value)
            /\ IF field = "extract"
               THEN by_hand' = by_hand \cup {n} /\ dirs[n].status # "in_progress"
               ELSE value = TRUE /\ by_hand' = by_hand
  <2>1. Archived!Extraction(n) \in Values("extract") /\ TRUE \in Values("incomplete")
    BY DEF Values, Archived!Extraction
  <2>2. QED
    BY <1>2, <2>1
<1>5. PICK value \in Values(field) :
            /\ Archived!Set(n, field, value)
            /\ IF field = "extract"
               THEN by_hand' = by_hand \cup {n} /\ dirs[n].status # "in_progress"
               ELSE value = TRUE /\ by_hand' = by_hand
  BY <1>4
<1>6. /\ dirs' \in Seq(Archived!Directory) /\ Len(dirs') = Len(dirs)
      /\ DOMAIN dirs' = DOMAIN dirs
      /\ \A d \in DOMAIN dirs : d # n => dirs'[d] = dirs[d]
      /\ Kept(n, field) /\ dirs'[n][field] = value
  <2>1. field \in {"status", "extract", "incomplete"}
    OBVIOUS
  <2>2. QED
    BY <1>3, <1>5, <2>1, FieldChanges
\* A run that is pooled has been so before, or is known to have been extracted by hand.
<1>7. ASSUME NEW d \in DOMAIN dirs', dirs'[d].status = "success", ~dirs'[d].incomplete,
             d \notin by_hand'
      PROVE  d # n /\ d \in DOMAIN dirs /\ dirs'[d] = dirs[d] /\ d \notin by_hand
  <2>1. field = "incomplete" => dirs'[n].incomplete
    BY <1>5, <1>6, Zenon
  <2>2. field = "extract" => n \in by_hand'
    BY <1>5
  <2>3. d # n
    BY <1>7, <2>1, <2>2
  <2>4. QED
    BY <1>5, <1>6, <1>7, <2>3
<1>8. by_hand \subseteq by_hand' /\ by_hand' \subseteq DOMAIN dirs
  BY <1>5 DEF ArchiveInv, ArchiveTyped, Archived!ArchiveTypeOK
<1>9. ArchiveTyped'
  <2>1. /\ Archived!ArchiveTypeOK /\ wrapper'.target \in 0..Len(dirs') /\ Len(dirs') <= MaxDirs
        /\ by_hand' \cup unjudged' \subseteq DOMAIN dirs' /\ hands' \in 0..MaxHands
    <3>1. Archived!ArchiveTypeOK
      BY DEF ArchiveInv, ArchiveTyped
    <3>2. hands \in 0..MaxHands /\ MaxHands \in Nat
      BY <3>1, HarnessAssumption DEF Archived!ArchiveTypeOK
    <3>3. hands' \in 0..MaxHands
      BY <1>1, <3>2
    <3>4. QED
      BY <1>1, <1>6, <1>8, <3>1, <3>3 DEF Archived!ArchiveTypeOK
  <2>2. Archived!ArchiveTypeOK'
    BY <1>1, <1>6, <2>1, Zenon DEF Archived!ArchiveTypeOK, Archived!Directory
  <2>3. QED
    BY <1>1, <2>2 DEF ArchiveInv, ArchiveTyped, Sessions
<1>10. RunStands' /\ SessionStands'
  BY <1>1 DEF RunStands, SessionStands, WithRun, AtTarget
<1>11. ExtractedLate'
  <2>1. SUFFICES ASSUME NEW d \in DOMAIN dirs', dirs'[d].status = "in_progress"
                 PROVE  dirs'[d].extract = "none"
    BY DEF ExtractedLate
  <2>2. CASE d # n
    BY <1>6, <2>1, <2>2 DEF ArchiveInv, ExtractedLate
  <2>3. CASE d = n
    <3>1. dirs[n].status = "in_progress" /\ dirs[n].extract = "none"
      BY <1>6, <2>1, <2>3 DEF Kept, ArchiveInv, ExtractedLate
    <3>2. field = "incomplete"
      BY <1>5, <3>1
    <3>3. QED
      BY <1>6, <2>3, <3>1, <3>2 DEF Kept
  <2>4. QED
    BY <2>2, <2>3
<1>12. OneMeasurement'
  <2>1. SUFFICES ASSUME NEW d \in DOMAIN dirs', NEW e \in DOMAIN dirs',
                        Counting(d, dirs[e].cell, dirs[e].identity)', dirs'[d].extract = "valid",
                        Counting(e, dirs[e].cell, dirs[e].identity)', dirs'[e].extract = "valid",
                        d \notin by_hand', e \notin by_hand'
                 PROVE  d = e
    BY DEF OneMeasurement
  <2>2. d \in DOMAIN dirs /\ dirs'[d] = dirs[d] /\ d \notin by_hand
    BY <1>7, <2>1 DEF Counting
  <2>3. e \in DOMAIN dirs /\ dirs'[e] = dirs[e] /\ e \notin by_hand
    BY <1>7, <2>1 DEF Counting
  <2>4. /\ Counting(d, dirs[e].cell, dirs[e].identity) /\ dirs[d].extract = "valid"
        /\ Counting(e, dirs[e].cell, dirs[e].identity) /\ dirs[e].extract = "valid"
    BY <2>1, <2>2, <2>3 DEF Counting
  <2>5. QED
    BY <2>2, <2>3, <2>4 DEF ArchiveInv, OneMeasurement
<1>13. FailuresKnown'
  <2>1. SUFFICES ASSUME NEW d \in Archived!Loaded', dirs'[d].extract = "invalid", d \notin by_hand'
                 PROVE  d \in unjudged'
    BY DEF FailuresKnown
  <2>2. d \in DOMAIN dirs /\ dirs'[d] = dirs[d] /\ d \notin by_hand
    BY <1>7, <2>1 DEF Archived!Loaded
  <2>3. d \in Archived!Loaded /\ dirs[d].extract = "invalid"
    BY <2>1, <2>2 DEF Archived!Loaded
  <2>4. QED
    BY <1>1, <2>2, <2>3 DEF ArchiveInv, FailuresKnown
<1>14. QED
  BY <1>9, <1>10, <1>11, <1>12, <1>13 DEF ArchiveInv

(***************************************************************************)
(* Every step of the archive keeps its invariant.                          *)
(***************************************************************************)
LEMMA ArchiveStays == ArchiveInv /\ [Archived!ArchiveNext]_Archived!archiveVars => ArchiveInv'
<1> SUFFICES ASSUME ArchiveInv, [Archived!ArchiveNext]_Archived!archiveVars PROVE ArchiveInv'
  OBVIOUS
<1>1. CASE UNCHANGED Archived!archiveVars
  <2>1. UNCHANGED <<dirs, source, wrapper, edits, hands, by_hand, unjudged>>
    BY <1>1 DEF Archived!archiveVars
  <2>2. \A c, identity : CellMeasured(c, identity)' <=> CellMeasured(c, identity)
    BY <2>1 DEF CellMeasured, Counting
  <2>3. \A c : CellMeasured(c, wrapper.identity)' <=> CellMeasured(c, wrapper.identity)
    BY <2>1, <2>2
  <2>4. SessionStands'
    BY <2>1, <2>3 DEF ArchiveInv, SessionStands, Done, Owed
  <2>5. ArchiveTyped'
    BY <2>1 DEF ArchiveInv, ArchiveTyped, Archived!ArchiveTypeOK, Archived!Directory, Sessions
  <2>6. RunStands' /\ ExtractedLate' /\ OneMeasurement'
    BY <2>1 DEF ArchiveInv, RunStands, ExtractedLate, OneMeasurement, Counting
  <2>7. FailuresKnown'
    BY <2>1 DEF ArchiveInv, FailuresKnown, Archived!Loaded
  <2>8. QED
    BY <2>4, <2>5, <2>6, <2>7 DEF ArchiveInv
<1>2. QED
  BY <1>1, BeginPreserves, NextPreserves, BenchmarkSucceedsPreserves, BenchmarkFailsPreserves,
     LocatePreserves, ExtractPreserves, VerdictPreserves, SoftInterruptPreserves,
     HardAbortPreserves, EditPreserves, ByHandPreserves DEF Archived!ArchiveNext

(***************************************************************************)
(* The invariant of the archive suffices for what a report pools ...       *)
(***************************************************************************)
LEMMA ArchiveInvSuffices ==
    ArchiveInv => Archived!OneRunPerCell /\ Archived!FailedAttemptExcluded
<1> SUFFICES ASSUME ArchiveInv PROVE Archived!OneRunPerCell /\ Archived!FailedAttemptExcluded
  OBVIOUS
<1>1. Archived!OneRunPerCell
  <2>1. SUFFICES ASSUME Archived!Compatible(Archived!Loaded), NEW d \in Archived!Loaded,
                        NEW e \in Archived!Loaded, d # e, dirs[d].cell = dirs[e].cell
                 PROVE  {d, e} \cap by_hand # {}
    BY DEF Archived!OneRunPerCell
  <2>2. /\ dirs[d].extract = "valid" /\ dirs[e].extract = "valid"
        /\ dirs[d].identity = dirs[e].identity
    BY <2>1 DEF Archived!Compatible
  <2>3. d \in DOMAIN dirs /\ e \in DOMAIN dirs
    BY DEF Archived!Loaded
  <2>4. /\ Counting(d, dirs[e].cell, dirs[e].identity)
        /\ Counting(e, dirs[e].cell, dirs[e].identity)
    BY <2>1, <2>2, <2>3, MeasurementsAreLoaded
  <2>5. QED
    BY <2>1, <2>2, <2>3, <2>4 DEF ArchiveInv, OneMeasurement
<1>2. Archived!FailedAttemptExcluded
  <2>1. SUFFICES ASSUME wrapper.phase = "idle", NEW d \in Archived!Loaded
                 PROVE  dirs[d].extract = "valid" \/ d \in by_hand \cup unjudged
    BY DEF Archived!FailedAttemptExcluded
  <2>2. dirs[d].extract \in {"valid", "invalid"}
    BY DEF Archived!Loaded
  <2>3. QED
    BY <2>1, <2>2 DEF ArchiveInv, FailuresKnown
<1>3. QED
  BY <1>1, <1>2

(***************************************************************************)
(* ... and for what a session says of the matrix when it ends.             *)
(***************************************************************************)
LEMMA CompleteSessions ==
    ASSUME ArchiveInv, [Archived!ArchiveNext]_Archived!archiveVars,
           wrapper'.outcome = "complete", wrapper' # wrapper
    PROVE  LET identity == IF wrapper.phase = "idle" THEN source ELSE wrapper.identity
           IN  \A c \in 1..Cells : CellMeasured(c, identity)
<1>1. wrapper \in Sessions
  BY DEF ArchiveInv, ArchiveTyped
<1>2. wrapper.outcome = "running" \/ wrapper.phase = "idle"
  BY DEF ArchiveInv, SessionStands
<1>3. \A outcome : Archived!Idle(outcome).outcome = outcome
  BY DEF Archived!Idle
<1>4. Archived!Begin \/ Archived!Next \/ wrapper'.outcome # "complete"
  <2>1. ASSUME Archived!BenchmarkFails \/ Archived!HardAbort PROVE wrapper'.outcome = "stopped"
    BY <1>3, <2>1 DEF Archived!BenchmarkFails, Archived!HardAbort, Archived!End
  <2>2. ASSUME Archived!BenchmarkSucceeds \/ Archived!Extract
        PROVE  wrapper'.outcome = wrapper.outcome /\ wrapper.phase # "idle"
    BY <1>1, <2>2 DEF Archived!BenchmarkSucceeds, Archived!Extract, Sessions
  <2>3. ASSUME Archived!Locate \/ Archived!Verdict
        PROVE  /\ wrapper'.outcome = wrapper.outcome \/ wrapper'.outcome = "stopped"
               /\ wrapper.phase # "idle"
    BY <1>1, <1>3, <2>3 DEF Archived!Locate, Archived!Verdict, Archived!End, Sessions
  <2>4. ASSUME Archived!SoftInterrupt
        PROVE  /\ wrapper'.outcome = wrapper.outcome \/ wrapper'.outcome = "stopped"
               /\ wrapper.phase # "idle"
    BY <1>1, <2>4 DEF Archived!SoftInterrupt, Archived!Idle, Sessions
  <2>5. ASSUME Archived!Edit \/ Archived!ByHand PROVE wrapper' = wrapper
    BY <2>5 DEF Archived!Edit, Archived!ByHand
  <2>6. UNCHANGED Archived!archiveVars => wrapper' = wrapper
    BY DEF Archived!archiveVars
  <2>7. QED
    BY <1>2, <2>1, <2>2, <2>3, <2>4, <2>5, <2>6 DEF Archived!ArchiveNext
<1>5. CASE Archived!Begin
  <2>1. wrapper.phase = "idle"
    BY <1>5 DEF Archived!Begin
  <2>2. {c \in 1..Cells : Archived!AlreadySucceeded(c, source, TRUE) = 0} = {}
    <3>1. wrapper'.outcome # "running"
      OBVIOUS
    <3>2. QED
      BY <1>5, <3>1 DEF Archived!Begin, Archived!Idle
  <2>3. ASSUME NEW c \in 1..Cells PROVE CellMeasured(c, source)
    <3>1. Len(dirs) \in Nat /\ DOMAIN dirs = 1..Len(dirs) /\ TRUE \in BOOLEAN
      BY ArchiveShape DEF ArchiveInv
    <3>2. Archived!AlreadySucceeded(c, source, TRUE) # 0
      BY <2>2
    <3>3. QED
      BY <3>1, <3>2, NewestCounting DEF CellMeasured
  <2>4. QED
    BY <2>1, <2>3
<1>6. CASE Archived!Next
  <2>1. wrapper.phase = "next" /\ wrapper.outcome = "running"
    BY <1>6 DEF Archived!Next, ArchiveInv, SessionStands
  <2>2. wrapper.pending = {}
    <3>1. ASSUME NEW cell,
                 wrapper' = [wrapper EXCEPT !.phase = "benchmark", !.cell = cell,
                                            !.pending = @ \ {cell}]
          PROVE  FALSE
      BY <1>1, <2>1, <3>1 DEF Sessions
    <3>2. ~ Archived!End("stopped")
      BY <1>3 DEF Archived!End
    <3>3. QED
      BY <1>6, <3>1, <3>2 DEF Archived!Next
  <2>3. \A c \in 1..Cells : Done(c)
    BY <2>1, <2>2 DEF Done
  <2>4. QED
    BY <2>1, <2>3 DEF ArchiveInv, SessionStands
<1>7. QED
  BY <1>4, <1>5, <1>6

(***************************************************************************)
(* In the harness the archive does what Archive says.                      *)
(***************************************************************************)
LEMMA ArchiveRuns ==
    HarnessSteps => Archived!ArchiveInit /\ [][Archived!ArchiveNext]_Archived!archiveVars
<1>1. HarnessInit => Archived!ArchiveInit
  BY DEF HarnessInit
<1>2. [HarnessNext]_harnessVars => [Archived!ArchiveNext]_Archived!archiveVars
  BY DEF HarnessNext, harnessVars, evidence, archive, Archived!archiveVars
<1>3. QED
  BY <1>1, <1>2, PTL DEF HarnessSteps

(***************************************************************************)
(* The invariant of the archive holds throughout.                          *)
(***************************************************************************)
LEMMA ArchiveInvariant ==
    Archived!ArchiveInit /\ [][Archived!ArchiveNext]_Archived!archiveVars => []ArchiveInv
BY ArchiveStarts, ArchiveStays, PTL

(***************************************************************************)
(* A report counts no cell twice, and no failed attempt counts or blocks   *)
(* it, whatever is killed, edited, extracted or renamed between two steps. *)
(***************************************************************************)
THEOREM ReportIsSoundHolds == HarnessSpec => []ReportIsSound
<1>1. HarnessSpec => HarnessSteps
  BY PTL DEF HarnessSpec, HarnessSteps
<1>2. ArchiveInv => ReportIsSound
  BY ArchiveInvSuffices DEF ReportIsSound
<1>3. QED
  BY <1>1, <1>2, ArchiveRuns, ArchiveInvariant, PTL

(***************************************************************************)
(* A session that says that the matrix is complete has a valid run of      *)
(* every cell, of the source that the session began with.                  *)
(***************************************************************************)
THEOREM CompleteMeansMeasuredHolds == HarnessSpec => CompleteMeansMeasured
<1>1. HarnessSpec => HarnessSteps
  BY PTL DEF HarnessSpec, HarnessSteps
<1>2. ArchiveInv /\ [Archived!ArchiveNext]_Archived!archiveVars
      => [wrapper'.outcome = "complete" /\ wrapper' # wrapper =>
             LET identity == IF wrapper.phase = "idle" THEN source ELSE wrapper.identity
             IN  \A c \in 1..Cells : \E d \in Archived!Loaded :
                    dirs[d].cell = c /\ dirs[d].identity = identity
                    /\ dirs[d].extract = "valid"]_Archived!archiveVars
  <2>1. SUFFICES ASSUME ArchiveInv, [Archived!ArchiveNext]_Archived!archiveVars,
                        wrapper'.outcome = "complete", wrapper' # wrapper
                 PROVE  LET identity == IF wrapper.phase = "idle" THEN source ELSE wrapper.identity
                        IN  \A c \in 1..Cells : \E d \in Archived!Loaded :
                               dirs[d].cell = c /\ dirs[d].identity = identity
                               /\ dirs[d].extract = "valid"
    OBVIOUS
  <2>2. QED
    BY <2>1, CompleteSessions, MeasurementsAreLoaded DEF CellMeasured
<1>3. QED
  BY <1>1, <1>2, ArchiveRuns, ArchiveInvariant, PTL
     DEF CompleteMeansMeasured, Archived!CompleteMeansMeasured
-----------------------------------------------------------------------------
(***************************************************************************)
(* The timeline of replicas.  Points of the grid are a gap apart.          *)
(***************************************************************************)
LEMMA GridGap ==
    ASSUME NEW G \in Nat \ {0}, NEW x \in Nat, NEW y \in Nat, x % G = 0, y % G = 0, x < y
    PROVE  x + G <= y
<1> DEFINE p == x \div G
           q == y \div G
<1>1. p \in Int /\ q \in Int /\ x = G * p /\ y = G * q
  OBVIOUS
<1> HIDE DEF p, q
<1>2. p < q
  <2>1. ~ (q <= p)
    BY <1>1
  <2>2. QED
    BY <1>1, <2>1
<1>3. q = p + (q - p) /\ q - p >= 1
  BY <1>1, <1>2
<1>4. G * (q - p) >= G
  BY <1>1, <1>3
<1>5. G * q = G * p + G * (q - p)
  BY <1>1
<1>6. QED
  BY <1>1, <1>4, <1>5

(***************************************************************************)
(* What is assumed of the constants of the timeline.                       *)
(***************************************************************************)
LEMMA TimelineConstants ==
    /\ Gap \in Nat \ {0} /\ Onset \in Nat /\ OfferedEnd \in Nat /\ TailEnd \in Nat
    /\ Onset < OfferedEnd /\ OfferedEnd < TailEnd /\ Onset % Gap = 0
    /\ MaxReplicas \in Nat /\ MaxMoves \in Nat /\ MaxHoles \in Nat /\ MaxSkew \in Nat
  BY HarnessAssumption

(***************************************************************************)
(* The series is in the order of time, on the grid, and each sample shows  *)
(* what ran an offset before its place, unless Prometheus itself was down. *)
(***************************************************************************)
Scraped == [at : Nat, value : 0..MaxReplicas]

SeriesTyped ==
    /\ Measured!TimelineTypeOK
    /\ truth # <<>> /\ Len(truth) - 1 <= TailEnd + 1
    /\ samples \in Seq(Scraped)

SeriesOrdered ==
    /\ \A i \in 1..Len(samples) :
          offset <= samples[i].at /\ samples[i].at - offset <= Len(truth) - 1
    /\ \A i, j \in 1..Len(samples) : i < j => samples[i].at < samples[j].at

SeriesShown ==
    ~outage => \A i \in 1..Len(samples) :
                  samples[i].value = truth[(samples[i].at - offset) + 1]

SeriesEnds ==
    /\ runner = "running" => end_time = -1
    /\ runner # "running" =>
          /\ end_time = Len(truth) - 1 /\ TailEnd - 1 <= end_time
          /\ \A i \in 1..Len(samples) : samples[i].at <= end_time

TimelineInv == SeriesTyped /\ SeriesOrdered /\ SeriesShown /\ SeriesEnds

(***************************************************************************)
(* It holds of a series that begins.                                       *)
(***************************************************************************)
LEMMA TimelineStarts == Measured!TimelineInit => TimelineInv
<1> SUFFICES ASSUME Measured!TimelineInit PROVE TimelineInv
  OBVIOUS
<1>1. PICK v \in 0..MaxReplicas : truth = <<v>>
  BY DEF Measured!TimelineInit
<1>2. /\ offset \in 0 .. Gap - 1
      /\ samples = IF offset = 0 THEN <<[at |-> 0, value |-> Measured!At(0)]>> ELSE <<>>
      /\ moves = 0 /\ holes = 0 /\ outage = FALSE
      /\ runner = "running" /\ end_time = -1 /\ k6_stop = -1
  BY DEF Measured!TimelineInit
<1>3. truth \in Seq(0..MaxReplicas) /\ Len(truth) = 1 /\ truth[1] = v /\ truth # <<>>
  BY <1>1
<1>4. Measured!At(0) = v
  BY <1>3 DEF Measured!At
<1> DEFINE s == [at |-> 0, value |-> v]
<1>5. s \in Scraped /\ s.at = 0 /\ s.value = v /\ 0 % Gap = 0
  BY TimelineConstants DEF Scraped
<1>6. \/ offset = 0 /\ samples = <<s>>
      \/ samples = <<>>
  BY <1>2, <1>4
<1> HIDE DEF s
<1>7. \/ /\ offset = 0 /\ Len(samples) = 1 /\ samples[1] = s
         /\ samples \in Seq(Scraped) /\ DOMAIN samples = {1}
      \/ Len(samples) = 0 /\ samples \in Seq(Scraped) /\ DOMAIN samples = {}
  <2>1. CASE offset = 0 /\ samples = <<s>>
    <3>1. Len(samples) = 1 /\ samples[1] = s /\ samples \in Seq(Scraped)
      BY <1>5, <2>1
    <3>2. DOMAIN samples = {1}
      BY <2>1
    <3>3. QED
      BY <2>1, <3>1, <3>2
  <2>2. CASE samples = <<>>
    BY <2>2
  <2>3. QED
    BY <1>6, <2>1, <2>2
<1>8. Measured!TimelineTypeOK
  <2>1. \A i \in DOMAIN samples : samples[i].at % Gap = 0 /\ samples[i].value \in 0..MaxReplicas
    BY <1>5, <1>7
  <2>2. 0 \in 0..MaxMoves /\ 0 \in 0..MaxHoles /\ -1 \in -1 .. TailEnd + 1
    BY TimelineConstants
  <2>3. QED
    BY <1>2, <1>3, <2>1, <2>2 DEF Measured!TimelineTypeOK
<1>9. SeriesTyped
  BY <1>3, <1>7, <1>8, TimelineConstants DEF SeriesTyped
<1>10. SeriesOrdered
  BY <1>2, <1>3, <1>5, <1>7 DEF SeriesOrdered
<1>11. SeriesShown
  <2>1. (0 - 0) + 1 = 1
    OBVIOUS
  <2>2. ASSUME NEW i \in 1..Len(samples)
        PROVE  samples[i].value = truth[(samples[i].at - offset) + 1]
    <3>1. CASE Len(samples) = 1
      <4>1. i = 1 /\ offset = 0 /\ samples[1] = s
        BY <1>7, <3>1
      <4>2. QED
        BY <1>3, <1>5, <2>1, <4>1
    <3>2. CASE Len(samples) = 0
      <4>1. 1..0 = {}
        OBVIOUS
      <4>2. QED
        BY <3>2, <4>1
    <3>3. QED
      BY <1>7, <3>1, <3>2
  <2>3. QED
    BY <2>2 DEF SeriesShown
<1>12. SeriesEnds
  BY <1>2 DEF SeriesEnds
<1>13. QED
  BY <1>9, <1>10, <1>11, <1>12 DEF TimelineInv

(***************************************************************************)
(* Time passes, and a scrape is shown, fails or is hidden by an older one. *)
(***************************************************************************)
LEMMA PassKeeps == TimelineInv /\ Measured!Pass => TimelineInv'
<1> SUFFICES ASSUME TimelineInv, Measured!Pass PROVE TimelineInv'
  OBVIOUS
<1> DEFINE n == Len(truth)
           grid == n + offset
           Show(value) == samples' = Append(samples, [at |-> grid, value |-> value])
<1>1. /\ runner = "running" /\ n - 1 < TailEnd + 1
      /\ offset' = offset /\ runner' = runner /\ end_time' = end_time /\ k6_stop' = k6_stop
  BY DEF Measured!Pass, Measured!Now
<1>2. PICK v \in 0..MaxReplicas :
          /\ truth' = Append(truth, v)
          /\ moves' = IF v = Measured!At(Measured!Now) THEN moves ELSE moves + 1
          /\ moves' <= MaxMoves
          /\ \/ (Measured!Now + 1 + offset) % Gap # 0 /\ UNCHANGED <<samples, holes, outage>>
             \/ /\ (Measured!Now + 1 + offset) % Gap = 0
                /\ samples' = Append(samples, [at |-> Measured!Now + 1 + offset, value |-> v])
                /\ UNCHANGED <<holes, outage>>
             \/ /\ (Measured!Now + 1 + offset) % Gap = 0 /\ holes < MaxHoles /\ holes' = holes + 1
                /\ \/ UNCHANGED <<samples, outage>>
                   \/ /\ samples # <<>>
                      /\ samples[Len(samples)].at = (Measured!Now + 1 + offset) - Gap
                      /\ samples' = Append(samples, [at |-> Measured!Now + 1 + offset,
                                                     value |-> samples[Len(samples)].value])
                      /\ outage' = TRUE
  BY DEF Measured!Pass
<1>3. /\ truth \in Seq(0..MaxReplicas) /\ n \in Nat /\ n >= 1 /\ offset \in 0 .. Gap - 1
      /\ offset \in Nat /\ grid \in Nat
      /\ samples \in Seq(Scraped) /\ moves \in 0..MaxMoves /\ holes \in 0..MaxHoles
      /\ outage \in BOOLEAN /\ end_time \in -1 .. TailEnd + 1
      /\ k6_stop \in Measured!FallbackStops \cup {-1}
      /\ \A i \in DOMAIN samples : samples[i].at % Gap = 0 /\ samples[i].value \in 0..MaxReplicas
  <2>1. /\ Measured!TimelineTypeOK /\ truth # <<>> /\ samples \in Seq(Scraped)
    BY DEF TimelineInv, SeriesTyped
  <2>2. /\ truth \in Seq(0..MaxReplicas) /\ offset \in 0 .. Gap - 1
        /\ moves \in 0..MaxMoves /\ holes \in 0..MaxHoles
        /\ outage \in BOOLEAN /\ end_time \in -1 .. TailEnd + 1
        /\ k6_stop \in Measured!FallbackStops \cup {-1}
        /\ \A i \in DOMAIN samples :
              samples[i].at % Gap = 0 /\ samples[i].value \in 0..MaxReplicas
    BY <2>1 DEF Measured!TimelineTypeOK
  <2>3. n \in Nat /\ n >= 1
    <3>1. truth \in Seq(0..MaxReplicas) /\ truth # <<>>
      BY <2>1, <2>2
    <3>2. QED
      BY ONLY <3>1 DEF n
  <2>4. offset \in Nat
    <3>1. offset \in 0 .. Gap - 1 /\ Gap \in Nat
      BY <2>2, TimelineConstants
    <3>2. QED
      BY ONLY <3>1
  <2>5. QED
    BY <2>1, <2>2, <2>3, <2>4
<1>4. Measured!Now + 1 + offset = grid
  BY <1>3 DEF Measured!Now
<1>5. /\ truth' \in Seq(0..MaxReplicas) /\ Len(truth') = n + 1 /\ truth' # <<>>
      /\ \A t \in 1..n : truth'[t] = truth[t]
      /\ truth'[n + 1] = v
  <2>1. truth' = Append(truth, v)
    BY <1>2
  <2>2. truth \in Seq(0..MaxReplicas)
    BY <1>3
  <2>3. QED
    BY <2>1, <2>2
<1>6. moves' \in 0..MaxMoves
  <2>1. (moves' = moves \/ moves' = moves + 1) /\ moves' <= MaxMoves
    BY <1>2
  <2>2. moves \in 0..MaxMoves /\ MaxMoves \in Nat
    BY <1>3, TimelineConstants
  <2>3. QED
    BY ONLY <2>1, <2>2
<1>7. \/ UNCHANGED <<samples, outage>>
      \/ grid % Gap = 0 /\ Show(v) /\ UNCHANGED outage
      \/ grid % Gap = 0 /\ (\E w \in 0..MaxReplicas : Show(w)) /\ outage' = TRUE
  <2>1. samples # <<>> => samples[Len(samples)].value \in 0..MaxReplicas
    BY <1>3
  <2>2. QED
    BY <1>2, <1>4, <2>1
<1>8. holes' \in 0..MaxHoles /\ outage' \in BOOLEAN
  <2>1. holes' = holes \/ (holes < MaxHoles /\ holes' = holes + 1)
    BY <1>2
  <2>2. outage' = outage \/ outage' = TRUE
    BY <1>2
  <2>3. holes' \in 0..MaxHoles
    <3>1. holes \in 0..MaxHoles /\ MaxHoles \in Nat
      BY <1>3, TimelineConstants
    <3>2. QED
      BY ONLY <2>1, <3>1
  <2>4. outage' \in BOOLEAN
    <3>1. outage \in BOOLEAN
      BY <1>3
    <3>2. QED
      BY <2>2, <3>1
  <2>5. QED
    BY <2>3, <2>4
<1>9. /\ \A i \in 1..Len(samples) : /\ offset <= samples[i].at /\ samples[i].at - offset <= n - 1
                                    /\ samples[i].at \in Nat
      /\ \A i, j \in 1..Len(samples) : i < j => samples[i].at < samples[j].at
  <2>1. \A i \in 1..Len(samples) : samples[i] \in Scraped
    BY <1>3
  <2>2. \A i \in 1..Len(samples) : samples[i].at \in Nat
    BY <2>1 DEF Scraped
  <2>3. QED
    BY <2>2 DEF TimelineInv, SeriesOrdered
<1>10. CASE UNCHANGED <<samples, outage>>
  <2>1. SeriesTyped'
    <3>1. truth' \in Seq(0..MaxReplicas) /\ Len(truth') - 1 <= TailEnd + 1 /\ truth' # <<>>
      <4>1. /\ n \in Nat /\ n - 1 < TailEnd + 1 /\ TailEnd \in Nat
            /\ truth' \in Seq(0..MaxReplicas) /\ Len(truth') = n + 1 /\ truth' # <<>>
        BY <1>1, <1>3, <1>5, TimelineConstants
      <4> HIDE DEF n
      <4>2. QED
        BY ONLY <4>1
    <3>2. Measured!TimelineTypeOK'
      BY <1>1, <1>3, <1>5, <1>6, <1>8, <1>10
         DEF Measured!TimelineTypeOK, Measured!FallbackStops
    <3>3. QED
      BY <1>3, <3>1, <3>2, <1>10 DEF SeriesTyped
  <2>2. SeriesOrdered'
    <3>1. /\ samples' = samples /\ offset' = offset
          /\ n \in Nat /\ offset \in Nat /\ Len(truth') = n + 1
          /\ \A i \in 1..Len(samples) : /\ offset <= samples[i].at
                                        /\ samples[i].at - offset <= n - 1
                                        /\ samples[i].at \in Nat
      BY <1>1, <1>3, <1>5, <1>9, <1>10
    <3>2. \A i, j \in 1..Len(samples) : i < j => samples[i].at < samples[j].at
      BY <1>9
    <3> HIDE DEF n
    <3>3. \A i \in 1..Len(samples) : samples[i].at - offset <= Len(truth') - 1
      BY ONLY <3>1
    <3>4. QED
      BY <3>1, <3>2, <3>3 DEF SeriesOrdered
  <2>3. SeriesShown'
    <3>1. ASSUME NEW i \in 1..Len(samples), ~outage
          PROVE  samples[i].value = truth'[(samples[i].at - offset) + 1]
      <4>1. (samples[i].at - offset) + 1 \in 1..n
        <5>1. /\ samples[i].at \in Nat /\ offset <= samples[i].at
              /\ samples[i].at - offset <= n - 1 /\ n \in Nat /\ offset \in Nat
          BY <1>3, <1>9
        <5> HIDE DEF n
        <5>2. QED
          BY ONLY <5>1
      <4>2. samples[i].value = truth[(samples[i].at - offset) + 1]
        BY <3>1 DEF TimelineInv, SeriesShown
      <4>3. QED
        BY <1>5, <4>1, <4>2
    <3>2. QED
      BY <1>1, <1>10, <3>1 DEF SeriesShown
  <2>4. SeriesEnds'
    BY <1>1 DEF SeriesEnds, TimelineInv
  <2>5. QED
    BY <2>1, <2>2, <2>3, <2>4 DEF TimelineInv
<1>11. ASSUME NEW w \in 0..MaxReplicas, Show(w), grid % Gap = 0, outage' \/ (w = v /\ ~outage)
       PROVE  TimelineInv'
  <2> DEFINE s == [at |-> grid, value |-> w]
             m == Len(samples)
  <2>1. s \in Scraped /\ s.at = grid /\ s.value = w
    BY <1>3 DEF Scraped
  <2>2. samples' = Append(samples, s)
    BY <1>11
  <2> HIDE DEF s, grid
  <2>3. /\ samples' \in Seq(Scraped) /\ Len(samples') = m + 1 /\ m \in Nat
        /\ \A i \in 1..m : samples'[i] = samples[i]
        /\ samples'[m + 1] = s
        /\ DOMAIN samples' = 1..(m + 1) /\ DOMAIN samples = 1..m
    BY <1>3, <2>1, <2>2
  <2>4. ASSUME NEW i \in 1..(m + 1) PROVE i \in 1..m \/ i = m + 1
    BY <2>3
  <2> HIDE DEF m
  <2>5. \A i \in DOMAIN samples' : samples'[i].at % Gap = 0 /\ samples'[i].value \in 0..MaxReplicas
    BY <1>3, <1>11, <2>1, <2>3, <2>4
  <2>6. SeriesTyped'
    <3>1. truth' \in Seq(0..MaxReplicas) /\ Len(truth') - 1 <= TailEnd + 1 /\ truth' # <<>>
      <4>1. /\ n \in Nat /\ n - 1 < TailEnd + 1 /\ TailEnd \in Nat
            /\ truth' \in Seq(0..MaxReplicas) /\ Len(truth') = n + 1 /\ truth' # <<>>
        BY <1>1, <1>3, <1>5, TimelineConstants
      <4> HIDE DEF n
      <4>2. QED
        BY ONLY <4>1
    <3>2. Measured!TimelineTypeOK'
      BY <1>1, <1>3, <1>5, <1>6, <1>8, <2>3, <2>5
         DEF Measured!TimelineTypeOK, Measured!FallbackStops
    <3>3. QED
      BY <1>3, <3>1, <3>2, <2>3 DEF SeriesTyped
  <2>7. grid - offset = n /\ offset <= grid
    BY <1>3 DEF grid
  <2>8. SeriesOrdered'
    <3>1. ASSUME NEW i \in 1..(m + 1)
          PROVE  offset <= samples'[i].at /\ samples'[i].at - offset <= Len(truth') - 1
      <4>1. CASE i \in 1..m
        <5>1. samples'[i] = samples[i]
          BY <2>3, <4>1
        <5>2. offset <= samples[i].at /\ samples[i].at - offset <= n - 1 /\ samples[i].at \in Nat
          BY <1>9, <4>1 DEF m
        <5>3. Len(truth') = n + 1 /\ n \in Nat /\ offset \in Nat
          BY <1>3, <1>5
        <5> HIDE DEF n
        <5>4. QED
          BY <5>1, <5>2, <5>3
      <4>2. CASE i = m + 1
        <5>1. samples'[i].at = grid
          BY <2>1, <2>3, <4>2
        <5>2. Len(truth') = n + 1 /\ n \in Nat
          BY <1>3, <1>5
        <5> HIDE DEF n
        <5>3. QED
          BY <2>7, <5>1, <5>2
      <4>3. QED
        BY <2>4, <4>1, <4>2
    <3>2. ASSUME NEW i \in 1..(m + 1), NEW j \in 1..(m + 1), i < j
          PROVE  samples'[i].at < samples'[j].at
      <4>1. i \in 1..m /\ samples'[i] = samples[i]
        BY <2>3, <3>2
      <4>2. CASE j \in 1..m
        BY <1>9, <2>3, <3>2, <4>1, <4>2 DEF m
      <4>3. CASE j = m + 1
        <5>1. samples[i].at < grid
          <6>1. /\ samples[i].at \in Nat /\ samples[i].at - offset <= n - 1
                /\ n \in Nat /\ offset \in Nat /\ grid \in Nat
            BY <1>3, <1>9, <4>1 DEF m
          <6> HIDE DEF n
          <6>2. QED
            BY ONLY <2>7, <6>1
        <5>2. QED
          BY <2>1, <2>3, <4>1, <4>3, <5>1
      <4>4. QED
        BY <2>4, <4>2, <4>3
    <3>3. QED
      BY <1>1, <2>3, <3>1, <3>2 DEF SeriesOrdered
  <2>9. SeriesShown'
    <3>1. ASSUME NEW i \in 1..(m + 1), ~outage'
          PROVE  samples'[i].value = truth'[(samples'[i].at - offset) + 1]
      <4>1. CASE i \in 1..m
        <5>1. samples'[i] = samples[i] /\ (samples[i].at - offset) + 1 \in 1..n
          <6>1. /\ samples[i].at \in Nat /\ offset <= samples[i].at
                /\ samples[i].at - offset <= n - 1 /\ n \in Nat /\ offset \in Nat
            BY <1>3, <1>9, <4>1 DEF m
          <6> HIDE DEF n
          <6>2. (samples[i].at - offset) + 1 \in 1..n
            BY ONLY <6>1
          <6>3. QED
            BY <2>3, <4>1, <6>2
        <5>2. samples[i].value = truth[(samples[i].at - offset) + 1]
          BY <1>11, <3>1, <4>1 DEF TimelineInv, SeriesShown, m
        <5>3. QED
          BY <1>5, <5>1, <5>2
      <4>2. CASE i = m + 1
        BY <1>5, <1>11, <2>1, <2>3, <2>7, <3>1, <4>2
      <4>3. QED
        BY <2>4, <4>1, <4>2
    <3>2. QED
      BY <1>1, <2>3, <3>1 DEF SeriesShown
  <2>10. SeriesEnds'
    BY <1>1 DEF SeriesEnds, TimelineInv
  <2>11. QED
    BY <2>6, <2>8, <2>9, <2>10 DEF TimelineInv
<1>12. QED
  <2> HIDE DEF n, grid
  <2>1. CASE grid % Gap = 0 /\ Show(v) /\ UNCHANGED outage
    <3>1. CASE outage
      BY <1>11, <2>1, <3>1
    <3>2. CASE ~outage
      BY <1>11, <2>1, <3>2
    <3>3. QED
      BY <3>1, <3>2
  <2>2. CASE grid % Gap = 0 /\ (\E w \in 0..MaxReplicas : Show(w)) /\ outage' = TRUE
    BY <1>11, <2>2
  <2>3. QED
    BY <1>7, <1>10, <2>1, <2>2

(***************************************************************************)
(* How many samples are not later than a time.                             *)
(***************************************************************************)
LEMMA UntilPrefix ==
    ASSUME TimelineInv, NEW time \in Nat
    PROVE  /\ Measured!Until(time) \in 0..Len(samples)
           /\ \A i \in 1..Len(samples) : samples[i].at <= time <=> i <= Measured!Until(time)
<1> DEFINE T == {i \in DOMAIN samples : samples[i].at <= time}
           n == Len(samples)
<1>1. /\ samples \in Seq(Scraped) /\ n \in Nat /\ DOMAIN samples = 1..n
      /\ \A i \in 1..n : samples[i] \in Scraped
  BY DEF TimelineInv, SeriesTyped
<1>2. \A i \in 1..n : samples[i].at \in Nat
  BY <1>1 DEF Scraped
<1>3. \A i, j \in 1..n : i < j => samples[i].at < samples[j].at
  BY DEF TimelineInv, SeriesOrdered
<1>4. T \subseteq 1..n
  BY <1>1
<1>5. ASSUME NEW i \in T, NEW j \in 1..i PROVE j \in T
  <2>1. i \in 1..n /\ j \in 1..n /\ samples[i].at <= time
    BY <1>1
  <2>2. j = i \/ samples[j].at < samples[i].at
    BY <1>3, <2>1
  <2>3. samples[j].at <= time
    BY <1>2, <2>1, <2>2
  <2>4. QED
    BY <1>1, <2>1, <2>3
<1>6. Measured!Until(time) = Cardinality(T)
  BY DEF Measured!Until, Measured!Cardinality, Cardinality
<1>7. Cardinality(T) \in 0..n /\ T = 1..Cardinality(T)
  <2> HIDE DEF T, n
  <2>1. QED
    BY <1>1, <1>4, <1>5, CountPrefix
<1>8. \A i \in 1..n : samples[i].at <= time <=> i \in T
  BY <1>1
<1> HIDE DEF T, n
<1>9. QED
  BY <1>1, <1>6, <1>7, <1>8 DEF n

(***************************************************************************)
(* The series ends with the run.                                           *)
(***************************************************************************)
LEMMA CollectKeeps == TimelineInv /\ Measured!Collect => TimelineInv'
<1> SUFFICES ASSUME TimelineInv, Measured!Collect PROVE TimelineInv'
  OBVIOUS
<1> DEFINE m == Measured!Until(Measured!Now)
           n == Len(truth)
<1>1. /\ runner = "running" /\ TailEnd - 1 <= n - 1
      /\ runner' \in {"early", "ended"} /\ end_time' = n - 1
      /\ samples' = SubSeq(samples, 1, m)
      /\ offset' = offset /\ truth' = truth /\ moves' = moves /\ holes' = holes
      /\ outage' = outage
      /\ k6_stop' \in Measured!PointStops \/ k6_stop' \in Measured!FallbackStops
  BY DEF Measured!Collect, Measured!Now
<1>2. /\ truth \in Seq(0..MaxReplicas) /\ n \in Nat /\ n >= 1 /\ n - 1 <= TailEnd + 1
      /\ samples \in Seq(Scraped) /\ truth # <<>>
  BY DEF TimelineInv, SeriesTyped, Measured!TimelineTypeOK
<1>3. /\ m \in 0..Len(samples)
      /\ \A i \in 1..Len(samples) : samples[i].at <= n - 1 <=> i <= m
  <2>1. n - 1 \in Nat /\ Measured!Now = n - 1
    BY <1>2 DEF Measured!Now
  <2>2. QED
    BY <2>1, UntilPrefix
<1> HIDE DEF m, n
<1>4. /\ samples' \in Seq(Scraped) /\ Len(samples') = m /\ DOMAIN samples' = 1..m
      /\ \A i \in 1..m : samples'[i] = samples[i] /\ i \in 1..Len(samples)
  <2>1. Len(samples) \in Nat
    BY <1>2
  <2>2. QED
    BY <1>1, <1>2, <1>3, <2>1, Beginning
<1>5. SeriesTyped'
  <2>1. end_time' \in -1 .. TailEnd + 1
    BY <1>1, <1>2, TimelineConstants
  <2>2. /\ \A i \in DOMAIN samples : samples[i].at % Gap = 0 /\ samples[i].value \in 0..MaxReplicas
        /\ DOMAIN samples = 1..Len(samples)
    BY <1>2 DEF TimelineInv, SeriesTyped, Measured!TimelineTypeOK
  <2>3. \A i \in DOMAIN samples' :
           samples'[i].at % Gap = 0 /\ samples'[i].value \in 0..MaxReplicas
    BY <1>4, <2>2
  <2>4. k6_stop' \in Measured!FallbackStops
    BY <1>1, TimelineConstants DEF Measured!PointStops, Measured!FallbackStops
  <2>5. Measured!TimelineTypeOK'
    BY <1>1, <2>1, <2>3, <2>4
       DEF Measured!TimelineTypeOK, Measured!FallbackStops, TimelineInv, SeriesTyped
  <2>6. QED
    BY <1>1, <1>2, <1>4, <2>5 DEF SeriesTyped, n
<1>6. SeriesOrdered'
  BY <1>1, <1>4 DEF TimelineInv, SeriesOrdered
<1>7. SeriesShown'
  BY <1>1, <1>4 DEF TimelineInv, SeriesShown
<1>8. SeriesEnds'
  <2>1. \A i \in 1..m : samples'[i].at <= n - 1
    BY <1>3, <1>4
  <2>2. QED
    BY <1>1, <1>4, <2>1 DEF SeriesEnds, n
<1>9. QED
  BY <1>5, <1>6, <1>7, <1>8 DEF TimelineInv

(***************************************************************************)
(* The invariant of the timeline holds throughout.                         *)
(***************************************************************************)
LEMMA TimelineStays == TimelineInv /\ [Measured!TimelineNext]_Measured!timelineVars => TimelineInv'
<1>1. TimelineInv /\ UNCHANGED Measured!timelineVars => TimelineInv'
  BY DEF Measured!timelineVars, TimelineInv, SeriesTyped, SeriesOrdered, SeriesShown, SeriesEnds,
         Measured!TimelineTypeOK, Measured!FallbackStops
<1>2. QED
  BY <1>1, PassKeeps, CollectKeeps DEF Measured!TimelineNext

(***************************************************************************)
(* The timeline of the harness is that of ReplicaTimeline.                 *)
(***************************************************************************)
LEMMA TimelineRuns ==
    HarnessSteps => Measured!TimelineInit /\ [][Measured!TimelineNext]_Measured!timelineVars
<1>1. HarnessInit => Measured!TimelineInit
  BY DEF HarnessInit
<1>2. [HarnessNext]_harnessVars => [Measured!TimelineNext]_Measured!timelineVars
  BY DEF HarnessNext, harnessVars, evidence, timeline, Measured!timelineVars
<1>3. QED
  BY <1>1, <1>2, PTL DEF HarnessSteps

(***************************************************************************)
(* The series is sound in every behaviour of the harness.                  *)
(***************************************************************************)
LEMMA TimelineInvariant == HarnessSteps => []TimelineInv
  BY TimelineRuns, TimelineStarts, TimelineStays, PTL

(***************************************************************************)
(* The library's greatest element is one.                                  *)
(***************************************************************************)
LEMMA MeasuredMax ==
    ASSUME NEW S, S \subseteq Int, NEW m \in S, \A x \in S : x <= m
    PROVE  Measured!Max(S) = m
  BY ChosenGreatest DEF Measured!Max

\* Likewise the least.
LEMMA MeasuredMin ==
    ASSUME NEW S, S \subseteq Int, NEW m \in S, \A x \in S : m <= x
    PROVE  Measured!Min(S) = m
  BY ChosenLeast DEF Measured!Min

(***************************************************************************)
(* The greater and the lesser of two.                                      *)
(***************************************************************************)
Greater(x, y) == IF x < y THEN y ELSE x
Lesser(x, y)  == IF x < y THEN x ELSE y

(***************************************************************************)
(* They are the library's extremes of a pair.                              *)
(***************************************************************************)
LEMMA OfTwo ==
    ASSUME NEW x \in Int, NEW y \in Int
    PROVE  /\ Measured!Max({x, y}) = Greater(x, y)
           /\ Measured!Min({x, y}) = Lesser(x, y)
<1>1. CASE x < y
  <2>1. Measured!Max({x, y}) = y
    BY <1>1, MeasuredMax
  <2>2. Measured!Min({x, y}) = x
    BY <1>1, MeasuredMin
  <2>3. QED
    BY <1>1, <2>1, <2>2 DEF Greater, Lesser
<1>2. CASE ~(x < y)
  <2>1. Measured!Max({x, y}) = x
    BY <1>2, MeasuredMax
  <2>2. Measured!Min({x, y}) = y
    BY <1>2, MeasuredMin
  <2>3. QED
    BY <1>2, <2>1, <2>2 DEF Greater, Lesser
<1>3. QED
  BY <1>1, <1>2

(***************************************************************************)
(* The window of a run that is called valid: the samples from First to     *)
(* Final, a gap apart, none of them further than that from its ends.       *)
(***************************************************************************)
First == Measured!Until(Onset)
Final == Measured!Until(TailEnd)

WindowPlaced ==
    /\ DOMAIN samples = 1..Len(samples)
    /\ First \in Nat /\ Final \in Nat /\ Len(samples) \in Nat
    /\ 1 <= First /\ First <= Final /\ Final <= Len(samples)
    /\ end_time \in Nat /\ TailEnd <= end_time /\ Len(truth) - 1 = end_time

WindowSpaced ==
    /\ \A i \in 1..Len(samples) : samples[i].at \in Nat /\ samples[i].value \in Nat
    /\ \A i \in 1..First : samples[i].at <= Onset
    /\ \A i \in 1..Final : samples[i].at <= TailEnd
    /\ \A i \in (First + 1)..Len(samples) : Onset < samples[i].at
    /\ \A i \in (Final + 1)..Len(samples) : TailEnd < samples[i].at
    /\ \A i \in 1..Len(samples) : samples[i].at <= end_time
    /\ \A i, j \in 1..Len(samples) : i < j => samples[i].at < samples[j].at
    /\ \A i \in First..Final : samples[i].value >= Measured!MIN_REPLICAS
    /\ \A i \in First + 1 .. Final : samples[i].at = samples[i - 1].at + Gap
    /\ TailEnd - samples[Final].at <= Gap

TimelineShows ==
    /\ Len(Measured!Timeline) = Final - First + 1
    /\ \A k \in 1 .. Final - First + 1 : Measured!Timeline[k] = samples[First + k - 1]
    /\ DOMAIN Measured!Timeline = 1 .. Final - First + 1

(***************************************************************************)
(* A valid window is placed, spaced and shown so.                          *)
(***************************************************************************)
LEMMA WindowShape ==
    ASSUME TimelineInv, Measured!WindowValid
    PROVE  WindowPlaced /\ WindowSpaced /\ TimelineShows
<1> DEFINE n == Len(samples)
           b == First
           m == Final
<1>1. /\ samples \in Seq(Scraped) /\ n \in Nat /\ DOMAIN samples = 1..n
      /\ \A i \in 1..n : samples[i] \in Scraped
      /\ \A i \in 1..n : samples[i].at % Gap = 0
  BY DEF TimelineInv, SeriesTyped, Measured!TimelineTypeOK
<1>2. \A i \in 1..n : samples[i].at \in Nat /\ samples[i].value \in Nat
  BY <1>1, TimelineConstants DEF Scraped
<1>3. \A i, j \in 1..n : i < j => samples[i].at < samples[j].at
  BY DEF TimelineInv, SeriesOrdered
<1>4. /\ b \in 0..n /\ m \in 0..n
      /\ \A i \in 1..n : samples[i].at <= Onset <=> i <= b
      /\ \A i \in 1..n : samples[i].at <= TailEnd <=> i <= m
  BY TimelineConstants, UntilPrefix DEF First, Final
<1>5. /\ runner = "ended" /\ end_time >= TailEnd
      /\ Measured!Baseline # {} /\ Onset - samples[Measured!Max(Measured!Baseline)].at <= Gap
      /\ TailEnd - Measured!Timeline[Len(Measured!Timeline)].at <= Gap
      /\ \A i \in 2..Len(Measured!Timeline) :
            Measured!Timeline[i].at - Measured!Timeline[i - 1].at <= Gap
      /\ \A i \in DOMAIN Measured!Timeline :
            Measured!Timeline[i].value >= Measured!MIN_REPLICAS
  BY DEF Measured!WindowValid
<1>6. end_time = Len(truth) - 1 /\ \A i \in 1..n : samples[i].at <= end_time
  BY <1>5 DEF TimelineInv, SeriesEnds
<1>7. end_time \in Nat
  BY <1>5, <1>6, TimelineConstants DEF TimelineInv, SeriesTyped, Measured!TimelineTypeOK
<1> HIDE DEF n, b, m
<1>8. Measured!Baseline = 1..b
  <2>1. Measured!Baseline = {i \in 1..n : samples[i].at <= Onset}
    BY <1>1 DEF Measured!Baseline
  <2>2. QED
    BY <1>1, <1>4, <2>1
<1>9. b >= 1 /\ Measured!Max(Measured!Baseline) = b
  <2>1. b >= 1
    BY <1>1, <1>4, <1>5, <1>8
  <2>2. 1..b \subseteq Int /\ b \in 1..b /\ \A x \in 1..b : x <= b
    BY <1>1, <1>4, <2>1
  <2>3. QED
    BY <1>8, <2>1, <2>2, MeasuredMax
<1>10. b <= m
  <2>1. b \in 1..n /\ samples[b].at <= Onset
    BY <1>1, <1>4, <1>9
  <2>2. samples[b].at <= TailEnd
    BY <1>2, <2>1, TimelineConstants
  <2>3. QED
    BY <1>4, <2>1, <2>2
<1>11. Measured!Timeline = SubSeq(samples, b, m)
  BY <1>9 DEF Measured!Timeline, m, Final
<1>12. TimelineShows
  <2>1. /\ Len(SubSeq(samples, b, m)) = m - b + 1
        /\ DOMAIN SubSeq(samples, b, m) = 1 .. m - b + 1
    BY <1>1, <1>4, <1>9, <1>10
  <2>2. \A k \in 1 .. m - b + 1 : SubSeq(samples, b, m)[k] = samples[b + k - 1]
    BY <1>1, <1>4, <1>9, <1>10
  <2>3. QED
    BY <1>11, <2>1, <2>2 DEF TimelineShows, b, m
<1>13. /\ Len(Measured!Timeline) = m - b + 1
       /\ \A k \in 1 .. m - b + 1 : Measured!Timeline[k] = samples[b + k - 1]
       /\ DOMAIN Measured!Timeline = 1 .. m - b + 1
  BY <1>12 DEF TimelineShows, b, m
<1>14. ASSUME NEW i \in b..m
       PROVE  /\ Measured!Timeline[i - b + 1] = samples[i]
              /\ i - b + 1 \in 1 .. m - b + 1 /\ i \in 1..n
  <2>1. i - b + 1 \in 1 .. m - b + 1 /\ b + (i - b + 1) - 1 = i /\ i \in 1..n
    BY <1>1, <1>4, <1>9, <1>10
  <2>2. QED
    BY <1>13, <2>1
<1>15. \A i \in b..m : samples[i].value >= Measured!MIN_REPLICAS
  BY <1>5, <1>13, <1>14
<1>16. ASSUME NEW i \in b + 1 .. m PROVE samples[i].at = samples[i - 1].at + Gap
  <2>1. /\ i \in b..m /\ i - 1 \in b..m /\ (i - 1) - b + 1 = (i - b + 1) - 1
        /\ i - b + 1 \in 2 .. m - b + 1
    BY <1>1, <1>4, <1>9, <1>10
  <2>2. samples[i].at - samples[i - 1].at <= Gap
    BY <1>5, <1>13, <1>14, <2>1
  <2>3. /\ samples[i].at \in Nat /\ samples[i - 1].at \in Nat
        /\ samples[i].at % Gap = 0 /\ samples[i - 1].at % Gap = 0
    BY <1>1, <1>2, <1>14, <2>1
  <2>4. samples[i - 1].at < samples[i].at
    BY <1>3, <1>14, <2>1
  <2>5. samples[i - 1].at + Gap <= samples[i].at
    BY <2>3, <2>4, GridGap, TimelineConstants
  <2>6. QED
    BY <2>2, <2>3, <2>5, TimelineConstants
<1>17. TailEnd - samples[m].at <= Gap
  <2>1. m \in b..m
    BY <1>1, <1>4, <1>10
  <2>2. QED
    BY <1>5, <1>13, <1>14, <2>1
<1>18. WindowPlaced
  BY <1>1, <1>4, <1>5, <1>6, <1>7, <1>9, <1>10, TimelineConstants DEF WindowPlaced, n, b, m
<1>19. WindowSpaced
  <2>1. /\ \A i \in 1..b : i \in 1..n /\ i <= b
        /\ \A i \in 1..m : i \in 1..n /\ i <= m
        /\ \A i \in (b + 1)..n : i \in 1..n /\ ~(i <= b)
        /\ \A i \in (m + 1)..n : i \in 1..n /\ ~(i <= m)
    BY <1>1, <1>4
  <2>2. \A i \in 1..b : samples[i].at <= Onset
    BY <1>4, <2>1
  <2>3. \A i \in 1..m : samples[i].at <= TailEnd
    BY <1>4, <2>1
  <2>4. \A i \in (b + 1)..n : Onset < samples[i].at
    BY <1>2, <1>4, <2>1, TimelineConstants
  <2>5. \A i \in (m + 1)..n : TailEnd < samples[i].at
    BY <1>2, <1>4, <2>1, TimelineConstants
  <2>6. QED
    BY <1>2, <1>3, <1>6, <1>15, <1>16, <1>17, <2>2, <2>3, <2>4, <2>5 DEF WindowSpaced, n, b, m
<1>20. QED
  BY <1>12, <1>18, <1>19

(***************************************************************************)
(* What the library adds up over a range is a sum.                         *)
(***************************************************************************)
LEMMA MeasuredSum ==
    ASSUME NEW a \in Int, NEW b \in Int, a - 1 <= b, NEW F, DOMAIN F = a..b,
           \A i \in a..b : F[i] \in Int
    PROVE  Measured!SumFunction(F) = Tally(F, a, b)
<1>1. Measured!SumFunction(F) = (CHOOSE f : IsFold(f, F, a..b))[a..b]
  BY DEF Measured!SumFunction, Measured!SumFunctionOnSet, Measured!FoldFunctionOnSet,
         Measured!MapThenFoldSet, IsFold, AnyOf
<1>2. QED
  BY <1>1, FoldIsTally

(***************************************************************************)
(* The length of a segment, without sets.                                  *)
(***************************************************************************)
LEMMA LengthOf ==
    ASSUME NEW list, NEW i, NEW from \in Int, NEW end \in Int, list[i].at \in Int,
           Measured!Next(list, i, end) \in Int
    PROVE  /\ Measured!Length(list, i, from, end) \in Nat
           /\ Measured!Length(list, i, from, end)
                = Greater(0, Lesser(Measured!Next(list, i, end), end)
                                - Greater(list[i].at, from))
<1> DEFINE x == Measured!Next(list, i, end)
           y == list[i].at
<1>1. Measured!Length(list, i, from, end)
        = Measured!Max({0, Measured!Min({x, end}) - Measured!Max({y, from})})
  BY DEF Measured!Length
<1> HIDE DEF x, y
<1>2. Measured!Min({x, end}) = Lesser(x, end) /\ Measured!Max({y, from}) = Greater(y, from)
  BY OfTwo DEF x, y
<1>3. Lesser(x, end) \in Int /\ Greater(y, from) \in Int
  BY DEF Lesser, Greater, x, y
<1> DEFINE z == Lesser(x, end) - Greater(y, from)
<1>4. z \in Int
  BY <1>3
<1>5. Measured!Length(list, i, from, end) = Measured!Max({0, z})
  BY <1>1, <1>2
<1> HIDE DEF z
<1>6. Measured!Length(list, i, from, end) = Greater(0, z) /\ Greater(0, z) \in Nat
  <2>1. 0 \in Int /\ Measured!Max({0, z}) = Greater(0, z)
    BY <1>4, OfTwo
  <2>2. Greater(0, z) \in Nat
    BY <1>4 DEF Greater
  <2>3. QED
    BY <1>5, <2>1, <2>2
<1>7. QED
  BY <1>6 DEF x, y, z

(***************************************************************************)
(* Where the segments of the window end.                                   *)
(***************************************************************************)
LEMMA SegmentEnds ==
    ASSUME WindowPlaced, WindowSpaced, TimelineShows
    PROVE  /\ \A i \in 1..Len(samples) :
                 /\ Measured!Next(samples, i, end_time) \in Nat
                 /\ samples[i].at <= Measured!Next(samples, i, end_time)
                 /\ Measured!Next(samples, i, end_time) <= end_time
                 /\ i < Len(samples) => Measured!Next(samples, i, end_time) = samples[i + 1].at
                 /\ i >= Final => TailEnd <= Measured!Next(samples, i, end_time)
           /\ Measured!Next(samples, Len(samples), end_time) = end_time
           /\ \A k \in 1 .. Final - First + 1 :
                 Measured!Next(Measured!Timeline, k, TailEnd)
                   = IF First + k - 1 = Final THEN TailEnd ELSE samples[First + k].at
<1> DEFINE n == Len(samples)
           L == Final - First + 1
<1>1. /\ n \in Nat /\ 1 <= First /\ First <= Final /\ Final <= n
      /\ First \in Nat /\ Final \in Nat /\ end_time \in Nat /\ TailEnd <= end_time
  BY DEF WindowPlaced
<1>2. /\ \A i \in 1..n : samples[i].at \in Nat /\ samples[i].at <= end_time
      /\ \A i, j \in 1..n : i < j => samples[i].at < samples[j].at
      /\ \A i \in (Final + 1)..n : TailEnd < samples[i].at
  BY DEF WindowSpaced
<1>3. \A i \in 1..n :
         Measured!Next(samples, i, end_time) = IF i < n THEN samples[i + 1].at ELSE end_time
  BY DEF Measured!Next
<1> HIDE DEF n
<1>4. ASSUME NEW i \in 1..n
      PROVE  /\ Measured!Next(samples, i, end_time) \in Nat
             /\ samples[i].at <= Measured!Next(samples, i, end_time)
             /\ Measured!Next(samples, i, end_time) <= end_time
             /\ i < n => Measured!Next(samples, i, end_time) = samples[i + 1].at
             /\ i >= Final => TailEnd <= Measured!Next(samples, i, end_time)
  <2>1. CASE i < n
    <3>1. i + 1 \in 1..n /\ i < i + 1 /\ (i >= Final => i + 1 \in (Final + 1)..n)
      BY <1>1, <2>1
    <3>2. samples[i].at < samples[i + 1].at /\ samples[i + 1].at \in Nat /\ samples[i].at \in Nat
          /\ samples[i + 1].at <= end_time
      BY <1>2, <3>1
    <3>3. i >= Final => TailEnd < samples[i + 1].at
      BY <1>2, <3>1
    <3>4. QED
      BY <1>1, <1>3, <2>1, <3>2, <3>3, TimelineConstants
  <2>2. CASE ~(i < n)
    BY <1>1, <1>2, <1>3, <2>2
  <2>3. QED
    BY <2>1, <2>2
<1>5. Measured!Next(samples, n, end_time) = end_time
  BY <1>1, <1>3
<1>6. ASSUME NEW k \in 1..L
      PROVE  Measured!Next(Measured!Timeline, k, TailEnd)
               = IF First + k - 1 = Final THEN TailEnd ELSE samples[First + k].at
  <2>1. /\ Len(Measured!Timeline) = L
        /\ \A j \in 1..L : Measured!Timeline[j] = samples[First + j - 1]
    BY DEF TimelineShows
  <2>2. L \in Nat /\ (k < L => k + 1 \in 1..L) /\ First + (k + 1) - 1 = First + k
    BY <1>1
  <2>3. (k < L) <=> (First + k - 1 # Final)
    BY <1>1
  <2>4. Measured!Next(Measured!Timeline, k, TailEnd)
          = IF k < L THEN Measured!Timeline[k + 1].at ELSE TailEnd
    BY <2>1 DEF Measured!Next
  <2> HIDE DEF L
  <2>5. CASE k < L
    BY <2>1, <2>2, <2>3, <2>4, <2>5
  <2>6. CASE ~(k < L)
    BY <2>3, <2>4, <2>6
  <2>7. QED
    BY <2>5, <2>6
<1>7. QED
  BY <1>4, <1>5, <1>6 DEF n

(***************************************************************************)
(* What a waste from the end of the offered load, to the end of the series *)
(* or of the window, counts of a segment: nothing before the window, the   *)
(* same inside, and after it no more than it lasts.                        *)
(***************************************************************************)
Waste(i) == IF samples[i].value > Measured!MIN_REPLICAS
            THEN Measured!Length(samples, i, OfferedEnd, end_time) ELSE 0
AboveMin(k) == IF Measured!Timeline[k].value > Measured!MIN_REPLICAS
               THEN Measured!Length(Measured!Timeline, k, OfferedEnd, TailEnd) ELSE 0

(***************************************************************************)
(* Segment by segment, the two wastes compare so.                          *)
(***************************************************************************)
LEMMA WasteOfSegments ==
    ASSUME WindowPlaced, WindowSpaced, TimelineShows
    PROVE  /\ \A i \in 1..Len(samples) : Waste(i) \in Nat
           /\ \A k \in 1 .. Final - First + 1 : AboveMin(k) \in Nat
           /\ \A i \in 1 .. First - 1 : Waste(i) = 0
           /\ \A i \in First .. Final - 1 : Waste(i) = AboveMin(i - First + 1)
           /\ Waste(Final) - AboveMin(Final - First + 1)
                 \in 0 .. Measured!Next(samples, Final, end_time) - TailEnd
           /\ \A i \in Final + 1 .. Len(samples) :
                 Waste(i) \in 0 .. Measured!Next(samples, i, end_time) - samples[i].at
<1> DEFINE n == Len(samples)
           L == Final - First + 1
           nx(i) == Measured!Next(samples, i, end_time)
           x(i) == Greater(0, Lesser(nx(i), end_time) - Greater(samples[i].at, OfferedEnd))
           nt(k) == Measured!Next(Measured!Timeline, k, TailEnd)
           y(k) == Greater(0, Lesser(nt(k), TailEnd) - Greater(Measured!Timeline[k].at, OfferedEnd))
<1>1. /\ n \in Nat /\ 1 <= First /\ First <= Final /\ Final <= n
      /\ First \in Nat /\ Final \in Nat /\ end_time \in Nat /\ TailEnd <= end_time
  BY DEF WindowPlaced
<1>2. /\ \A i \in 1..n : samples[i].at \in Nat
      /\ \A i \in 1..First : samples[i].at <= Onset
      /\ \A i \in 1..Final : samples[i].at <= TailEnd
      /\ \A i \in (Final + 1)..n : TailEnd < samples[i].at
  BY DEF WindowSpaced
<1>3. /\ \A i \in 1..n : /\ nx(i) \in Nat /\ samples[i].at <= nx(i) /\ nx(i) <= end_time
                         /\ i < n => nx(i) = samples[i + 1].at
                         /\ i >= Final => TailEnd <= nx(i)
      /\ \A k \in 1..L : nt(k) = IF First + k - 1 = Final THEN TailEnd ELSE samples[First + k].at
  BY SegmentEnds
<1>4. \A k \in 1..L : Measured!Timeline[k] = samples[First + k - 1]
  BY DEF TimelineShows
<1>5. Onset < OfferedEnd /\ OfferedEnd < TailEnd /\ OfferedEnd \in Nat /\ Onset \in Nat
      /\ TailEnd \in Nat
  BY TimelineConstants
<1> HIDE DEF n, nx, nt
<1>6. ASSUME NEW i \in 1..n
      PROVE  /\ Waste(i) = IF samples[i].value > Measured!MIN_REPLICAS THEN x(i) ELSE 0
             /\ Waste(i) \in Nat
  <2>1. Measured!Length(samples, i, OfferedEnd, end_time) \in Nat
        /\ Measured!Length(samples, i, OfferedEnd, end_time) = x(i)
    BY <1>1, <1>2, <1>3, <1>5, LengthOf DEF nx
  <2> HIDE DEF x
  <2>2. QED
    BY <2>1 DEF Waste
<1>7. ASSUME NEW k \in 1..L
      PROVE  /\ AboveMin(k) = IF Measured!Timeline[k].value > Measured!MIN_REPLICAS
                              THEN y(k) ELSE 0
             /\ AboveMin(k) \in Nat /\ nt(k) \in Nat /\ Measured!Timeline[k].at \in Nat
  <2>1. /\ First + k - 1 \in 1..n /\ (First + k - 1 # Final => First + k \in 1..n)
    BY <1>1
  <2>2. nt(k) \in Nat /\ Measured!Timeline[k].at \in Nat
    <3>1. Measured!Timeline[k].at \in Nat
      BY <1>2, <1>4, <2>1
    <3>2. nt(k) = TailEnd \/ (First + k - 1 # Final /\ nt(k) = samples[First + k].at)
      BY <1>3
    <3>3. nt(k) \in Nat
      BY <1>2, <1>5, <2>1, <3>2
    <3>4. QED
      BY <3>1, <3>3
  <2>3. Measured!Length(Measured!Timeline, k, OfferedEnd, TailEnd) \in Nat
        /\ Measured!Length(Measured!Timeline, k, OfferedEnd, TailEnd) = y(k)
    BY <1>5, <2>2, LengthOf DEF nt
  <2> HIDE DEF y
  <2>4. QED
    BY <2>2, <2>3 DEF AboveMin
<1>8. ASSUME NEW i \in 1 .. First - 1 PROVE Waste(i) = 0
  <2>1. i \in 1..n /\ i < n /\ i + 1 \in 1..First /\ i + 1 \in 1..n /\ i \in 1..First
    BY <1>1
  <2>2. nx(i) = samples[i + 1].at /\ samples[i + 1].at <= Onset /\ samples[i].at \in Nat
        /\ nx(i) \in Nat
    BY <1>2, <1>3, <2>1
  <2>3. x(i) = 0
    BY <1>1, <1>5, <2>2 DEF Greater, Lesser
  <2>4. QED
    BY <1>6, <2>1, <2>3
<1>9. ASSUME NEW i \in First .. Final - 1 PROVE Waste(i) = AboveMin(i - First + 1)
  <2> DEFINE k == i - First + 1
  <2>1. /\ i \in 1..n /\ i < n /\ i + 1 \in 1..Final /\ i + 1 \in 1..n /\ k \in 1..L
        /\ First + k - 1 = i /\ First + k = i + 1 /\ i # Final
    BY <1>1
  <2> HIDE DEF k, L
  <2>2. /\ nx(i) = samples[i + 1].at /\ nt(k) = samples[i + 1].at
        /\ Measured!Timeline[k] = samples[i] /\ samples[i + 1].at <= TailEnd
        /\ samples[i].at \in Nat /\ samples[i + 1].at \in Nat
    BY <1>2, <1>3, <1>4, <2>1
  <2>3. x(i) = y(k)
    BY <1>1, <1>5, <2>2 DEF Greater, Lesser
  <2>4. QED
    BY <1>6, <1>7, <2>1, <2>2, <2>3 DEF k
<1>10. Waste(Final) - AboveMin(L) \in 0 .. nx(Final) - TailEnd
  <2>1. L \in 1..L /\ First + L - 1 = Final /\ Final \in 1..n /\ Final \in 1..Final
    BY <1>1
  <2> HIDE DEF L
  <2>2. /\ nt(L) = TailEnd /\ Measured!Timeline[L] = samples[Final] /\ samples[Final].at \in Nat
        /\ samples[Final].at <= TailEnd
        /\ nx(Final) \in Nat /\ TailEnd <= nx(Final) /\ nx(Final) <= end_time
    BY <1>1, <1>2, <1>3, <1>4, <2>1
  <2>3. x(Final) - y(L) = nx(Final) - TailEnd /\ x(Final) \in Int /\ y(L) \in Int
    BY <1>1, <1>5, <2>2 DEF Greater, Lesser
  <2>4. Waste(Final) = IF samples[Final].value > Measured!MIN_REPLICAS THEN x(Final) ELSE 0
    BY <1>6, <2>1
  <2>5. AboveMin(L) = IF samples[Final].value > Measured!MIN_REPLICAS THEN y(L) ELSE 0
    BY <1>7, <2>1, <2>2
  <2> HIDE DEF x, y
  <2>6. CASE samples[Final].value > Measured!MIN_REPLICAS
    BY <1>5, <2>2, <2>3, <2>4, <2>5, <2>6
  <2>7. CASE ~(samples[Final].value > Measured!MIN_REPLICAS)
    BY <1>5, <2>2, <2>4, <2>5, <2>7
  <2>8. QED
    BY <2>6, <2>7
<1>11. ASSUME NEW i \in Final + 1 .. n PROVE Waste(i) \in 0 .. nx(i) - samples[i].at
  <2>1. i \in 1..n /\ i >= Final
    BY <1>1
  <2>2. /\ samples[i].at \in Nat /\ TailEnd < samples[i].at
        /\ nx(i) \in Nat /\ samples[i].at <= nx(i) /\ nx(i) <= end_time
    BY <1>2, <1>3, <2>1
  <2>3. x(i) = nx(i) - samples[i].at
    BY <1>1, <1>5, <2>2 DEF Greater, Lesser
  <2>4. QED
    BY <1>6, <2>1, <2>2, <2>3
<1>12. QED
  BY <1>6, <1>7, <1>8, <1>9, <1>10, <1>11 DEF n, nx

(***************************************************************************)
(* From one start, the waste of the whole series exceeds that of the       *)
(* window by what came after it.                                           *)
(***************************************************************************)
LEMMA WasteOutside ==
    ASSUME WindowPlaced, WindowSpaced, TimelineShows
    PROVE  /\ Measured!Above(samples, OfferedEnd, end_time) \in Int
           /\ Measured!AboveMinSeconds \in Int
           /\ Measured!Above(samples, OfferedEnd, end_time) - Measured!AboveMinSeconds
                 \in 0 .. end_time - TailEnd
<1> DEFINE n == Len(samples)
           L == Final - First + 1
           nx(i) == Measured!Next(samples, i, end_time)
           W == [i \in 1..n |-> Waste(i)]
           M == [k \in 1..L |-> AboveMin(k)]
           w(i) == Tally(W, 1, i)
           m(k) == Tally(M, 1, k)
<1>1. /\ n \in Nat /\ 1 <= First /\ First <= Final /\ Final <= n /\ L \in Nat
      /\ First \in Nat /\ Final \in Nat /\ end_time \in Nat /\ TailEnd <= end_time /\ 1 <= L
  BY DEF WindowPlaced
<1>2. /\ \A i \in 1..n : Waste(i) \in Nat
      /\ \A k \in 1..L : AboveMin(k) \in Nat
      /\ \A i \in 1 .. First - 1 : Waste(i) = 0
      /\ \A i \in First .. Final - 1 : Waste(i) = AboveMin(i - First + 1)
      /\ Waste(Final) - AboveMin(L) \in 0 .. nx(Final) - TailEnd
      /\ \A i \in Final + 1 .. n : Waste(i) \in 0 .. nx(i) - samples[i].at
  BY WasteOfSegments
<1>3. /\ \A i \in 1..n : /\ nx(i) \in Nat /\ samples[i].at <= nx(i)
                         /\ i < n => nx(i) = samples[i + 1].at
      /\ nx(n) = end_time
  BY SegmentEnds
<1>4. \A i \in 1..n : samples[i].at \in Nat
  BY DEF WindowSpaced
<1>5. Measured!Above(samples, OfferedEnd, end_time) = w(n)
  <2>1. Measured!Above(samples, OfferedEnd, end_time) = Measured!SumFunction(W)
    <3>1. DOMAIN samples = 1..n
      BY DEF WindowPlaced
    <3>2. QED
      BY <3>1 DEF Measured!Above, Waste
  <2>2. DOMAIN W = 1..n /\ \A i \in 1..n : W[i] \in Int
    BY <1>2
  <2>3. 1 - 1 <= n
    BY <1>1
  <2> HIDE DEF W, n
  <2>4. QED
    BY <1>1, <2>1, <2>2, <2>3, MeasuredSum
<1>6. Measured!AboveMinSeconds = m(L)
  <2>1. Measured!AboveMinSeconds = Measured!SumFunction(M)
    <3>1. DOMAIN Measured!Timeline = 1..L
      BY DEF TimelineShows
    <3>2. QED
      BY <3>1 DEF Measured!AboveMinSeconds, Measured!Above, AboveMin
  <2>2. DOMAIN M = 1..L /\ \A k \in 1..L : M[k] \in Int
    BY <1>2
  <2>3. 1 - 1 <= L
    BY <1>1
  <2> HIDE DEF M, L
  <2>4. QED
    BY <1>1, <2>1, <2>2, <2>3, MeasuredSum
<1>7. /\ w(0) = 0 /\ \A i \in 0..n : w(i) \in Int
      /\ \A i \in 1..n : w(i) = w(i - 1) + Waste(i)
  <2>1. 1 - 1 = 0 /\ 0 <= n /\ \A i \in 1..n : W[i] \in Int /\ W[i] = Waste(i)
    BY <1>1, <1>2
  <2> HIDE DEF W, n
  <2>2. /\ Tally(W, 1, 1 - 1) = 0
        /\ \A i \in (1 - 1)..n : Tally(W, 1, i) \in Int
        /\ \A i \in 1..n : Tally(W, 1, i) = Tally(W, 1, i - 1) + W[i]
    BY <1>1, <2>1, TallyFacts
  <2>3. QED
    BY <2>1, <2>2
<1>8. /\ m(0) = 0 /\ \A k \in 0..L : m(k) \in Int
      /\ \A k \in 1..L : m(k) = m(k - 1) + AboveMin(k)
  <2>1. /\ 1 - 1 = 0 /\ 1 - 1 <= L /\ L \in Int /\ 1 \in Int
        /\ \A k \in 1..L : M[k] \in Int /\ M[k] = AboveMin(k)
    BY <1>1, <1>2
  <2> HIDE DEF M, L
  <2>2. /\ Tally(M, 1, 1 - 1) = 0
        /\ \A k \in (1 - 1)..L : Tally(M, 1, k) \in Int
        /\ \A k \in 1..L : Tally(M, 1, k) = Tally(M, 1, k - 1) + M[k]
    BY <2>1, TallyFacts
  <2>3. QED
    BY <2>1, <2>2
<1> HIDE DEF n, L, nx, w, m, W, M
<1>9. First - 1 \in Nat /\ 0..(First - 1) \subseteq {i \in 0..(First - 1) : w(i) = 0}
  <2> DEFINE T == {i \in 0..(First - 1) : w(i) = 0}
  <2>1. First - 1 \in Nat /\ 0 \in T
    BY <1>1, <1>7
  <2>2. ASSUME NEW i \in 1..(First - 1), i - 1 \in T PROVE i \in T
    <3>1. i \in 1..n /\ i \in 0..(First - 1)
      BY <1>1
    <3>2. w(i - 1) = 0 /\ Waste(i) = 0 /\ w(i) = w(i - 1) + Waste(i)
      BY <1>2, <1>7, <2>2, <3>1
    <3>3. QED
      BY <3>1, <3>2
  <2> HIDE DEF T
  <2>3. 0..(First - 1) \subseteq T
    BY <2>1, <2>2, IntervalInduction
  <2>4. QED
    BY <2>1, <2>3 DEF T
<1>10. Final - First \in Nat /\ 0..(Final - First) \subseteq
           {j \in 0..(Final - First) : w(First - 1 + j) = m(j)}
  <2> DEFINE T == {j \in 0..(Final - First) : w(First - 1 + j) = m(j)}
  <2>1. Final - First \in Nat /\ 0 \in T
    <3>1. First - 1 \in 0..(First - 1) /\ First - 1 + 0 = First - 1
      BY <1>1
    <3>2. w(First - 1) = 0
      BY <1>9, <3>1
    <3>3. QED
      BY <1>1, <1>8, <3>1, <3>2
  <2>2. ASSUME NEW j \in 1..(Final - First), j - 1 \in T PROVE j \in T
    <3> DEFINE i == First - 1 + j
    <3>1. /\ i \in 1..n /\ i \in First .. Final - 1 /\ i - First + 1 = j /\ j \in 1..L
          /\ i - 1 = First - 1 + (j - 1) /\ j \in 0..(Final - First)
      BY <1>1 DEF L
    <3>2. w(i - 1) = m(j - 1)
      BY <2>2, <3>1
    <3> HIDE DEF i
    <3>3. w(i) = w(i - 1) + Waste(i) /\ m(j) = m(j - 1) + AboveMin(j) /\ Waste(i) = AboveMin(j)
      BY <1>2, <1>7, <1>8, <3>1
    <3>4. w(i) = m(j)
      BY <3>2, <3>3
    <3>5. QED
      BY <3>1, <3>4 DEF i
  <2> HIDE DEF T
  <2>3. 0..(Final - First) \subseteq T
    BY <2>1, <2>2, IntervalInduction
  <2>4. QED
    BY <2>1, <2>3 DEF T
<1>11. w(Final) - m(L) \in 0 .. nx(Final) - TailEnd
  <2>1. /\ Final - First \in 0..(Final - First) /\ First - 1 + (Final - First) = Final - 1
        /\ Final \in 1..n /\ L \in 1..L /\ L - 1 = Final - First
        /\ Final - 1 \in 0..n /\ L - 1 \in 0..L
    BY <1>1 DEF L
  <2>2. w(Final - 1) = m(L - 1)
    BY <1>10, <2>1
  <2>3. w(Final) = w(Final - 1) + Waste(Final) /\ m(L) = m(L - 1) + AboveMin(L)
    BY <1>7, <1>8, <2>1
  <2>4. w(Final - 1) \in Int /\ m(L - 1) \in Int /\ Waste(Final) \in Int /\ AboveMin(L) \in Int
    BY <1>2, <1>7, <1>8, <2>1
  <2>5. w(Final) - m(L) = Waste(Final) - AboveMin(L)
    BY <2>2, <2>3, <2>4
  <2>6. QED
    BY <1>2, <2>5
<1>12. n - Final \in Nat /\ 0..(n - Final) \subseteq
           {j \in 0..(n - Final) : w(Final + j) - m(L) \in 0 .. nx(Final + j) - TailEnd}
  <2> DEFINE T == {j \in 0..(n - Final) : w(Final + j) - m(L) \in 0 .. nx(Final + j) - TailEnd}
  <2>1. n - Final \in Nat /\ 0 \in T
    <3>1. Final + 0 = Final
      BY <1>1
    <3>2. QED
      BY <1>1, <1>11, <3>1
  <2>2. ASSUME NEW j \in 1..(n - Final), j - 1 \in T PROVE j \in T
    <3> DEFINE i == Final + j
    <3>1. /\ i \in 1..n /\ i \in Final + 1 .. n /\ i - 1 \in 1..n /\ i - 1 < n /\ (i - 1) + 1 = i
          /\ i - 1 = Final + (j - 1) /\ j \in 0..(n - Final) /\ i - 1 \in 0..n /\ L \in 0..L
      BY <1>1
    <3>2. w(i - 1) - m(L) \in 0 .. nx(i - 1) - TailEnd
      BY <2>2, <3>1
    <3> HIDE DEF i
    <3>3. /\ w(i) = w(i - 1) + Waste(i) /\ Waste(i) \in 0 .. nx(i) - samples[i].at
          /\ nx(i - 1) = samples[i].at /\ nx(i) \in Nat /\ samples[i].at \in Nat
          /\ w(i - 1) \in Int /\ m(L) \in Int
      BY <1>2, <1>3, <1>4, <1>7, <1>8, <3>1
    <3>4. w(i) - m(L) \in 0 .. nx(i) - TailEnd
      BY <3>2, <3>3, TimelineConstants
    <3>5. QED
      BY <3>1, <3>4 DEF i
  <2> HIDE DEF T
  <2>3. 0..(n - Final) \subseteq T
    BY <2>1, <2>2, IntervalInduction
  <2>4. QED
    BY <2>1, <2>3 DEF T
<1>13. w(n) - m(L) \in 0 .. nx(n) - TailEnd
  <2>1. n - Final \in 0..(n - Final) /\ Final + (n - Final) = n
    BY <1>1
  <2>2. QED
    BY <1>12, <2>1
<1>14. w(n) \in Int /\ m(L) \in Int
  BY <1>1, <1>7, <1>8
<1>15. QED
  BY <1>3, <1>5, <1>6, <1>13, <1>14

(***************************************************************************)
(* A sum over the indices of a sequence grows from zero, element by        *)
(* element.                                                                *)
(***************************************************************************)
LEMMA SumsFromOne ==
    ASSUME NEW n \in Nat, NEW F, \A i \in 1..n : F[i] \in Int
    PROVE  /\ Tally(F, 1, 0) = 0
           /\ \A i \in 0..n : Tally(F, 1, i) \in Int
           /\ \A i \in 1..n : Tally(F, 1, i) = Tally(F, 1, i - 1) + F[i]
<1>1. n \in Int /\ 1 \in Int /\ 1 - 1 = 0 /\ 1 - 1 <= n
  OBVIOUS
<1>2. /\ Tally(F, 1, 1 - 1) = 0
      /\ \A i \in (1 - 1)..n : Tally(F, 1, i) \in Int
      /\ \A i \in 1..n : Tally(F, 1, i) = Tally(F, 1, i - 1) + F[i]
  BY <1>1, TallyFacts
<1>3. QED
  BY <1>1, <1>2

(***************************************************************************)
(* A waste that begins earlier, at a, adds what lies above the minimum     *)
(* before it would else begin, at b.  Up to any sample this is no more     *)
(* than the part of the time from a to b that has passed by then.          *)
(***************************************************************************)
LEMMA EarlierWaste ==
    ASSUME WindowPlaced, WindowSpaced, TimelineShows, NEW a \in Int, NEW b \in Int, a <= b
    PROVE  /\ Measured!Above(samples, a, end_time) \in Int
           /\ Measured!Above(samples, b, end_time) \in Int
           /\ Measured!Above(samples, a, end_time) - Measured!Above(samples, b, end_time)
                 \in 0 .. b - a
<1> DEFINE n == Len(samples)
           nx(i) == Measured!Next(samples, i, end_time)
           lasts(i, t) == Measured!Length(samples, i, t, end_time)
           S(t) == [i \in 1..n |-> IF samples[i].value > Measured!MIN_REPLICAS
                                   THEN lasts(i, t) ELSE 0]
           w(t, i) == Tally(S(t), 1, i)
           passed(t) == Greater(a, Lesser(t, b))
           end(i) == IF i = 0 THEN a ELSE passed(nx(i))
<1>1. n \in Nat /\ 1 <= n /\ DOMAIN samples = 1..n /\ end_time \in Nat
  BY DEF WindowPlaced
<1>2. /\ \A i \in 1..n : samples[i].at \in Nat /\ nx(i) \in Nat
      /\ \A i \in 1..n : samples[i].at <= nx(i) /\ nx(i) <= end_time
      /\ \A i \in 1..n : i < n => nx(i) = samples[i + 1].at
  BY SegmentEnds DEF WindowSpaced
<1> HIDE DEF n, nx
<1>3. ASSUME NEW t \in Int, NEW i \in 1..n
      PROVE  /\ lasts(i, t) \in Nat
             /\ lasts(i, t) = Greater(0, nx(i) - Greater(samples[i].at, t))
  <2>1. Lesser(nx(i), end_time) = nx(i)
    BY <1>1, <1>2 DEF Lesser
  <2>2. QED
    BY <1>1, <1>2, <1>3, <2>1, LengthOf DEF nx
<1> HIDE DEF lasts
<1>4. ASSUME NEW t \in Int
      PROVE  /\ Measured!Above(samples, t, end_time) = w(t, n)
             /\ w(t, 0) = 0 /\ \A i \in 0..n : w(t, i) \in Int
             /\ \A i \in 1..n :
                   w(t, i) = w(t, i - 1) + (IF samples[i].value > Measured!MIN_REPLICAS
                                            THEN lasts(i, t) ELSE 0)
  <2> DEFINE F == S(t)
  <2>1. /\ DOMAIN F = 1..n
        /\ \A i \in 1..n : F[i] = IF samples[i].value > Measured!MIN_REPLICAS
                                  THEN lasts(i, t) ELSE 0
    OBVIOUS
  <2>2. Measured!Above(samples, t, end_time) = Measured!SumFunction(F)
    BY <1>1 DEF Measured!Above, lasts
  <2>3. \A i \in 1..n : F[i] \in Int
    BY <1>3, <1>4, <2>1
  <2> HIDE DEF F
  <2>4. 1 - 1 = 0 /\ 1 - 1 <= n /\ n \in Int /\ 1 \in Int
    BY <1>1
  <2>5. Measured!SumFunction(F) = Tally(F, 1, n)
    BY <2>1, <2>3, <2>4, MeasuredSum
  <2>6. /\ Tally(F, 1, 0) = 0
        /\ \A i \in 0..n : Tally(F, 1, i) \in Int
        /\ \A i \in 1..n : Tally(F, 1, i) = Tally(F, 1, i - 1) + F[i]
    BY <1>1, <2>3, SumsFromOne
  <2>7. QED
    BY <2>1, <2>2, <2>4, <2>5, <2>6 DEF F
<1> HIDE DEF w, S
<1>5. ASSUME NEW i \in 1..n
      PROVE  lasts(i, a) - lasts(i, b) \in 0 .. passed(nx(i)) - passed(samples[i].at)
  <2> DEFINE from == samples[i].at
             to == nx(i)
  <2>1. from \in Nat /\ to \in Nat /\ from <= to
    BY <1>2
  <2>2. /\ lasts(i, a) = Greater(0, to - Greater(from, a))
        /\ lasts(i, b) = Greater(0, to - Greater(from, b))
    BY <1>3
  <2> HIDE DEF from, to
  <2>3. Greater(0, to - Greater(from, a)) - Greater(0, to - Greater(from, b))
           \in 0 .. passed(to) - passed(from)
    BY ONLY <2>1, a \in Int, b \in Int, a <= b DEF Greater, Lesser, passed
  <2>4. QED
    BY <2>2, <2>3 DEF from, to
<1>6. ASSUME NEW i \in 1..n
      PROVE  /\ end(i - 1) \in Int /\ end(i - 1) <= passed(samples[i].at)
             /\ end(i) = passed(nx(i)) /\ passed(nx(i)) \in Int /\ passed(samples[i].at) \in Int
  <2>1. /\ passed(nx(i)) \in Int /\ passed(samples[i].at) \in Int /\ a <= passed(samples[i].at)
        /\ end(i) = passed(nx(i))
    BY <1>1, <1>2 DEF Greater, Lesser
  <2>2. CASE i = 1
    BY <2>1, <2>2
  <2>3. CASE i # 1
    <3>1. i - 1 \in 1..n /\ i - 1 < n /\ (i - 1) + 1 = i /\ i - 1 # 0
      BY <1>1, <2>3
    <3>2. nx(i - 1) = samples[i].at
      BY <1>2, <3>1
    <3>3. QED
      BY <2>1, <3>1, <3>2
  <2>4. QED
    BY <2>2, <2>3, <2>1
<1>7. 0..n \subseteq {i \in 0..n : w(a, i) - w(b, i) \in 0 .. end(i) - a}
  <2> DEFINE T == {i \in 0..n : w(a, i) - w(b, i) \in 0 .. end(i) - a}
  <2>1. 0 \in T
    <3>1. w(a, 0) = 0 /\ w(b, 0) = 0
      BY <1>4
    <3>2. end(0) = a /\ 0 \in 0..n
      BY <1>1
    <3> HIDE DEF end
    <3>3. QED
      BY <3>1, <3>2
  <2>2. ASSUME NEW i \in 1..n, i - 1 \in T PROVE i \in T
    <3>1. i \in 0..n /\ i - 1 \in 0..n
      BY <1>1
    <3>2. w(a, i - 1) - w(b, i - 1) \in 0 .. end(i - 1) - a
      BY <2>2
    <3> DEFINE high == samples[i].value > Measured!MIN_REPLICAS
               x == IF high THEN lasts(i, a) ELSE 0
               y == IF high THEN lasts(i, b) ELSE 0
    <3>3. /\ x \in Int /\ y \in Int
          /\ x - y \in 0 .. passed(nx(i)) - passed(samples[i].at)
      <4>1. lasts(i, a) \in Nat /\ lasts(i, b) \in Nat
        BY <1>3
      <4>2. /\ lasts(i, a) - lasts(i, b) \in 0 .. passed(nx(i)) - passed(samples[i].at)
            /\ passed(nx(i)) \in Int /\ passed(samples[i].at) \in Int
        BY <1>5, <1>6
      <4> HIDE DEF passed, high
      <4>3. CASE high
        BY <4>1, <4>2, <4>3
      <4>4. CASE ~high
        BY <4>1, <4>2, <4>4
      <4>5. QED
        BY <4>3, <4>4
    <3>4. /\ w(a, i) = w(a, i - 1) + x /\ w(b, i) = w(b, i - 1) + y
          /\ w(a, i - 1) \in Int /\ w(b, i - 1) \in Int
      BY <1>4, <3>1
    <3> HIDE DEF x, y, high
    <3>5. /\ end(i - 1) \in Int /\ end(i - 1) <= passed(samples[i].at)
          /\ end(i) = passed(nx(i)) /\ passed(nx(i)) \in Int /\ passed(samples[i].at) \in Int
      BY <1>6
    <3> HIDE DEF passed, end
    <3>6. w(a, i) - w(b, i) \in 0 .. end(i) - a
      BY <3>2, <3>3, <3>4, <3>5
    <3>7. QED
      BY <3>1, <3>6
  <2> HIDE DEF T
  <2>3. 0..n \subseteq T
    BY <1>1, <2>1, <2>2, IntervalInduction
  <2>4. QED
    BY <2>3 DEF T
<1>8. w(a, n) - w(b, n) \in 0 .. b - a
  <2>1. n \in 0..n /\ n \in 1..n
    BY <1>1
  <2>2. w(a, n) - w(b, n) \in 0 .. end(n) - a
    BY <1>7, <2>1
  <2>3. end(n) <= b /\ end(n) \in Int
    BY <1>2, <2>1 DEF Greater, Lesser
  <2>4. QED
    BY <2>2, <2>3
<1>9. QED
  BY <1>1, <1>4, <1>8

(***************************************************************************)
(* The historical waste is that of the window and what came after it, but  *)
(* for the time between the two ends of the load.                          *)
(***************************************************************************)
LEMMA WasteAgrees ==
    ASSUME WindowPlaced, WindowSpaced, TimelineShows, k6_stop \in Int
    PROVE  LET skew == k6_stop - OfferedEnd
           IN  Measured!WasteWindow - Measured!AboveMinSeconds
                  \in -Measured!Max({0, skew}) .. end_time - TailEnd + Measured!Max({0, -skew})
<1> DEFINE skew == k6_stop - OfferedEnd
           common == Measured!Above(samples, OfferedEnd, end_time)
           legacy == Measured!Above(samples, k6_stop, end_time)
           inside == Measured!AboveMinSeconds
<1>1. OfferedEnd \in Int /\ TailEnd \in Int /\ end_time \in Int /\ skew \in Int
  BY TimelineConstants DEF WindowPlaced
<1>2. common \in Int /\ inside \in Int /\ common - inside \in 0 .. end_time - TailEnd
  BY WasteOutside
<1>3. Measured!Max({0, skew}) = Greater(0, skew) /\ Measured!Max({0, -skew}) = Greater(0, -skew)
  <2>1. 0 \in Int /\ -skew \in Int
    BY <1>1
  <2> HIDE DEF skew
  <2>2. QED
    BY <1>1, <2>1, OfTwo
<1>4. Measured!WasteWindow = legacy
  BY DEF Measured!WasteWindow
<1>5. legacy \in Int
  BY EarlierWaste
<1>6. OfferedEnd <= k6_stop => common - legacy \in 0 .. skew
  BY <1>1, EarlierWaste
<1>7. k6_stop <= OfferedEnd => legacy - common \in 0 .. -skew
  <2>1. k6_stop <= OfferedEnd => legacy - common \in 0 .. OfferedEnd - k6_stop
    BY <1>1, EarlierWaste
  <2>2. OfferedEnd - k6_stop = -skew
    BY <1>1
  <2>3. QED
    BY <2>1, <2>2
<1>8. (0 <= skew <=> OfferedEnd <= k6_stop) /\ (skew <= 0 <=> k6_stop <= OfferedEnd)
  BY <1>1
<1> HIDE DEF skew, common, legacy, inside
<1>9. legacy - inside \in -Greater(0, skew) .. end_time - TailEnd + Greater(0, -skew)
  BY <1>1, <1>2, <1>5, <1>6, <1>7, <1>8 DEF Greater
<1>10. QED
  BY <1>3, <1>4, <1>9 DEF skew, inside

(***************************************************************************)
(* After its last change a series stays.                                   *)
(***************************************************************************)
LEMMA SameSince ==
    ASSUME NEW n \in Nat, NEW r \in 1..n, NEW f, \A i \in r + 1 .. n : f[i] = f[i - 1]
    PROVE  \A i \in r..n : f[i] = f[r]
<1> DEFINE T == {j \in 0..(n - r) : f[r + j] = f[r]}
<1>1. n - r \in Nat /\ 0 \in T
  OBVIOUS
<1>2. ASSUME NEW j \in 1..(n - r), j - 1 \in T PROVE j \in T
  <2>1. r + j \in r + 1 .. n /\ (r + j) - 1 = r + (j - 1) /\ j \in 0..(n - r)
    OBVIOUS
  <2>2. f[r + j] = f[(r + j) - 1]
    BY <2>1
  <2>3. f[r + (j - 1)] = f[r]
    BY <1>2
  <2>4. QED
    BY <2>1, <2>2, <2>3
<1>3. 0..(n - r) \subseteq T
  <2> HIDE DEF T
  <2>1. QED
    BY <1>1, <1>2, IntervalInduction
<1>4. ASSUME NEW i \in r..n PROVE f[i] = f[r]
  <2>1. i - r \in 0..(n - r) /\ r + (i - r) = i
    OBVIOUS
  <2>2. i - r \in T
    BY <1>3, <2>1
  <2>3. QED
    BY <2>1, <2>2
<1>5. QED
  BY <1>4

(***************************************************************************)
(* The returns to the minimum in the window, as places in the series.      *)
(***************************************************************************)
Returns(i) ==
    /\ i \in First + 1 .. Final
    /\ samples[i].value < samples[i - 1].value /\ samples[i].value = Measured!MIN_REPLICAS
    /\ samples[i].at >= OfferedEnd

(***************************************************************************)
(* The full scale-down is timed by the last of them, or is 0.              *)
(***************************************************************************)
LEMMA FullScaledownIs ==
    ASSUME WindowPlaced, WindowSpaced, TimelineShows
    PROVE  /\ \A i \in Nat : Returns(i) /\ (\A j \in Nat : Returns(j) => j <= i)
                 => Measured!FullScaledown = samples[i].at - OfferedEnd
           /\ (\A i \in Nat : ~Returns(i)) => Measured!FullScaledown = 0
<1> DEFINE L == Final - First + 1
           R == {k \in Measured!Downs(Measured!Timeline) :
                    /\ Measured!Timeline[k].at >= OfferedEnd
                    /\ Measured!Timeline[k].value = Measured!MIN_REPLICAS}
<1>1. Measured!FullScaledown
        = IF R = {} THEN 0 ELSE Measured!Timeline[Measured!Max(R)].at - OfferedEnd
  BY DEF Measured!FullScaledown
<1>2. /\ First \in Nat /\ Final \in Nat /\ 1 <= First /\ First <= Final /\ L \in Nat
      /\ Len(samples) \in Nat /\ Final <= Len(samples)
  BY DEF WindowPlaced
<1>3. /\ Len(Measured!Timeline) = L
      /\ \A k \in 1..L : Measured!Timeline[k] = samples[First + k - 1]
  BY DEF TimelineShows
<1>4. \A i \in 1..Len(samples) : samples[i].value \in Nat /\ samples[i].at \in Nat
  BY DEF WindowSpaced
<1>5. R \subseteq 2..L
  BY <1>3 DEF Measured!Downs, Measured!Changes
<1>6. ASSUME NEW k \in 2..L PROVE k \in R <=> Returns(First + k - 1)
  <2> DEFINE i == First + k - 1
  <2>1. /\ k \in 1..L /\ k - 1 \in 1..L /\ i \in First + 1 .. Final /\ First + (k - 1) - 1 = i - 1
        /\ i \in 1..Len(samples) /\ i - 1 \in 1..Len(samples)
    BY <1>2
  <2> HIDE DEF i
  <2>2. Measured!Timeline[k] = samples[i] /\ Measured!Timeline[k - 1] = samples[i - 1]
    BY <1>3, <2>1 DEF i
  <2>3. samples[i].value \in Nat /\ samples[i - 1].value \in Nat
    BY <1>4, <2>1
  <2>4. k \in Measured!Downs(Measured!Timeline) <=> samples[i].value < samples[i - 1].value
    <3>1. k \in 2..Len(Measured!Timeline)
      BY <1>3
    <3>2. k \in Measured!Downs(Measured!Timeline) <=>
             /\ samples[i].value # samples[i - 1].value
             /\ ~(samples[i].value > samples[i - 1].value)
      BY <2>2, <3>1 DEF Measured!Downs, Measured!Ups, Measured!Changes
    <3>3. QED
      BY <2>3, <3>2
  <2>5. k \in R <=> /\ k \in Measured!Downs(Measured!Timeline)
                    /\ samples[i].at >= OfferedEnd /\ samples[i].value = Measured!MIN_REPLICAS
    BY <2>2
  <2> HIDE DEF R
  <2>6. QED
    BY <2>1, <2>4, <2>5 DEF Returns, i
<1> HIDE DEF R
<1>7. ASSUME NEW i \in Nat, Returns(i), \A j \in Nat : Returns(j) => j <= i
      PROVE  Measured!FullScaledown = samples[i].at - OfferedEnd
  <2> DEFINE k == i - First + 1
  <2>1. k \in 2..L /\ First + k - 1 = i /\ k \in 1..L
    BY <1>2, <1>7 DEF Returns
  <2>2. k \in R
    BY <1>6, <1>7, <2>1
  <2>3. ASSUME NEW x \in R PROVE x <= k
    <3>1. x \in 2..L /\ First + x - 1 \in Nat
      BY <1>2, <1>5
    <3>2. Returns(First + x - 1)
      BY <1>6, <2>3, <3>1
    <3>3. First + x - 1 <= i
      BY <1>7, <3>1, <3>2
    <3>4. QED
      BY <1>2, <3>1, <3>3
  <2>4. R \subseteq Int /\ R # {}
    BY <1>5, <2>2
  <2>5. Measured!Max(R) = k
    BY <2>2, <2>3, <2>4, MeasuredMax
  <2>6. Measured!Timeline[k] = samples[i]
    BY <1>3, <2>1
  <2>7. QED
    BY <1>1, <2>4, <2>5, <2>6
<1>8. ASSUME \A i \in Nat : ~Returns(i) PROVE Measured!FullScaledown = 0
  <2>1. ASSUME NEW x \in R PROVE FALSE
    <3>1. x \in 2..L /\ First + x - 1 \in Nat
      BY <1>2, <1>5
    <3>2. QED
      BY <1>6, <1>8, <2>1, <3>1
  <2>2. QED
    BY <1>1, <2>1
<1>9. QED
  BY <1>7, <1>8

(***************************************************************************)
(* A set of places has a last one.                                         *)
(***************************************************************************)
LEMMA LastPlace ==
    ASSUME NEW n \in Nat, NEW S, S \subseteq 1..n, S # {}
    PROVE  Measured!Max(S) \in S /\ \A x \in S : x <= Measured!Max(S)
<1>1. S \subseteq Nat /\ \A x \in S : x <= n
  OBVIOUS
<1>2. PICK m \in S : \A x \in S : x <= m
  BY <1>1, GreatestElement
<1>3. S \subseteq Int
  OBVIOUS
<1>4. Measured!Max(S) = m
  BY <1>2, <1>3, MeasuredMax
<1>5. QED
  BY <1>2, <1>4

(***************************************************************************)
(* A scale-down to which nothing was added has one time in both reports.   *)
(***************************************************************************)
LEMMA ReturnAgrees ==
    ASSUME WindowPlaced, WindowSpaced, TimelineShows, Measured!LastReturnInside, k6_stop \in Int
    PROVE  /\ Measured!Completed
           /\ Measured!FullScaledown
                = Measured!Max({0, Measured!LegacyFullScaledown + (k6_stop - OfferedEnd)})
<1> DEFINE n == Len(samples)
           C == Measured!Changes(samples)
           D == Measured!LegacyTerminal
           r == Measured!Max(D)
<1>1. /\ n \in Nat /\ 1 <= First /\ First <= Final /\ Final <= n
      /\ First \in Nat /\ Final \in Nat
  BY DEF WindowPlaced
<1>2. /\ \A i \in 1..n : samples[i].at \in Nat /\ samples[i].value \in Nat
      /\ \A i \in 1..First : samples[i].at <= Onset
      /\ \A i \in (Final + 1)..n : TailEnd < samples[i].at
      /\ \A i, j \in 1..n : i < j => samples[i].at < samples[j].at
  BY DEF WindowSpaced
<1>3. /\ D # {} /\ Measured!Max(D) = Measured!Max(C) /\ samples[Measured!Max(D)].at <= TailEnd
  BY DEF Measured!LastReturnInside
<1>4. /\ C = {i \in 2..n : samples[i].value # samples[i - 1].value}
      /\ D = {i \in C : /\ ~(samples[i].value > samples[i - 1].value)
                        /\ samples[i].value = Measured!MIN_REPLICAS}
  BY DEF Measured!Changes, Measured!LegacyTerminal, Measured!Downs, Measured!Ups
<1>5. Measured!LegacyFullScaledown = samples[r].at - k6_stop
  BY DEF Measured!LegacyFullScaledown
<1> HIDE DEF n, C, D
<1>6. r \in D /\ r \in C /\ \A x \in C : x <= r
  <2>1. C \subseteq 1..n /\ D \subseteq C
    BY <1>1, <1>4
  <2>2. D \subseteq 1..n /\ C # {}
    BY <1>3, <2>1
  <2>3. Measured!Max(D) \in D /\ Measured!Max(C) \in C /\ \A x \in C : x <= Measured!Max(C)
    BY <1>1, <1>3, <2>1, <2>2, LastPlace
  <2>4. QED
    BY <1>3, <2>1, <2>3
<1> HIDE DEF r
<1>7. /\ r \in 2..n /\ r \in 1..n /\ r - 1 \in 1..n /\ samples[r].value = Measured!MIN_REPLICAS
      /\ samples[r].value < samples[r - 1].value /\ samples[r].at <= TailEnd
  <2>1. /\ r \in 2..n /\ samples[r].value = Measured!MIN_REPLICAS
        /\ samples[r].value # samples[r - 1].value
        /\ ~(samples[r].value > samples[r - 1].value)
    BY <1>4, <1>6
  <2>2. r \in 1..n /\ r - 1 \in 1..n
    BY <1>1, <2>1
  <2>3. samples[r].value \in Nat /\ samples[r - 1].value \in Nat
    BY <1>2, <2>2
  <2>4. samples[r].at <= TailEnd
    BY <1>3 DEF r
  <2>5. QED
    BY <2>1, <2>2, <2>3, <2>4
<1>8. r <= Final
  <2>1. ~(r \in (Final + 1)..n)
    BY <1>2, <1>7, TimelineConstants
  <2>2. QED
    BY <1>1, <1>7, <2>1
<1>9. \A i \in r..n : samples[i].value = Measured!MIN_REPLICAS
  <2> DEFINE f == [i \in 1..n |-> samples[i].value]
  <2>1. ASSUME NEW i \in r + 1 .. n PROVE f[i] = f[i - 1]
    <3>1. i \in 2..n /\ i \in 1..n /\ i - 1 \in 1..n /\ ~(i <= r)
      BY <1>1, <1>7
    <3>2. i \notin C
      BY <1>6, <3>1
    <3>3. QED
      BY <1>4, <3>1, <3>2
  <2>2. \A i \in r..n : i \in 1..n /\ f[i] = samples[i].value
    BY <1>1, <1>7
  <2>3. f[r] = Measured!MIN_REPLICAS
    BY <1>7
  <2> HIDE DEF f
  <2>4. \A i \in r..n : f[i] = f[r]
    BY <1>1, <1>7, <2>1, SameSince
  <2>5. QED
    BY <2>2, <2>3, <2>4
<1>10. Measured!Completed
  <2>1. /\ Len(Measured!Timeline) = Final - First + 1
        /\ Final - First + 1 \in 1 .. Final - First + 1
        /\ First + (Final - First + 1) - 1 = Final
    BY <1>1 DEF TimelineShows
  <2>2. Measured!Timeline[Len(Measured!Timeline)] = samples[Final]
    BY <2>1 DEF TimelineShows
  <2>3. Final \in r..n
    BY <1>1, <1>7, <1>8
  <2>4. QED
    BY <1>9, <2>2, <2>3 DEF Measured!Completed
<1>11. ASSUME NEW i \in Nat, Returns(i) PROVE i <= r
  <2>1. i \in First + 1 .. Final /\ samples[i].value < samples[i - 1].value
    BY <1>11 DEF Returns
  <2>2. i \in 2..n /\ i \in 1..n /\ i - 1 \in 1..n
    BY <1>1, <2>1
  <2>3. samples[i].value # samples[i - 1].value
    BY <1>2, <2>1, <2>2
  <2>4. i \in C
    BY <1>4, <2>2, <2>3
  <2>5. QED
    BY <1>6, <2>4
<1>12. /\ samples[r].at \in Int /\ OfferedEnd \in Int /\ 0 \in Int
       /\ Onset < OfferedEnd /\ Onset \in Int
  BY <1>2, <1>7, TimelineConstants
<1>13. Measured!Max({0, Measured!LegacyFullScaledown + (k6_stop - OfferedEnd)})
         = Greater(0, samples[r].at - OfferedEnd)
  <2>1. /\ samples[r].at - OfferedEnd \in Int
        /\ Measured!LegacyFullScaledown + (k6_stop - OfferedEnd) = samples[r].at - OfferedEnd
    BY <1>5, <1>12
  <2>2. QED
    BY <1>12, <2>1, OfTwo
<1>14. CASE First < r /\ samples[r].at >= OfferedEnd
  <2>1. Returns(r) /\ r \in Nat
    BY <1>1, <1>7, <1>8, <1>14 DEF Returns
  <2>2. Measured!FullScaledown = samples[r].at - OfferedEnd
    BY <1>11, <2>1, FullScaledownIs
  <2>3. QED
    BY <1>10, <1>12, <1>13, <1>14, <2>2 DEF Greater
<1>15. CASE ~(First < r /\ samples[r].at >= OfferedEnd)
  <2>1. samples[r].at < OfferedEnd
    <3>1. CASE First < r
      BY <1>12, <1>15, <3>1
    <3>2. CASE ~(First < r)
      <4>1. r \in 1..First
        BY <1>1, <1>7, <3>2
      <4>2. samples[r].at <= Onset
        BY <1>2, <4>1
      <4>3. QED
        BY <1>12, <4>2
    <3>3. QED
      BY <3>1, <3>2
  <2>2. ASSUME NEW i \in Nat, Returns(i) PROVE FALSE
    <3>1. i <= r /\ i \in First + 1 .. Final /\ samples[i].at >= OfferedEnd
      BY <1>11, <2>2 DEF Returns
    <3>2. i \in 1..n /\ (i = r \/ i < r)
      BY <1>1, <1>7, <3>1
    <3>3. samples[i].at <= samples[r].at /\ samples[i].at \in Int
      BY <1>2, <1>7, <1>12, <3>2
    <3>4. QED
      BY <1>12, <2>1, <3>1, <3>3
  <2>3. Measured!FullScaledown = 0
    BY <2>2, FullScaledownIs
  <2>4. QED
    BY <1>10, <1>12, <1>13, <2>1, <2>3 DEF Greater
<1>16. QED
  BY <1>14, <1>15

(***************************************************************************)
(* The two reports of one run differ by their clocks and by nothing else:  *)
(* compute_resource_metrics() and compute_scaling_metrics() count from the *)
(* end of the load that extract() dates by k6's Points, and                *)
(* compute_controlled_measurement() from that of the runner's time stamp.  *)
(* However far these are apart, the two wastes differ by no more than that *)
(* and by what came after the window, and a scale-down to which nothing    *)
(* was added is one instant.                                               *)
(***************************************************************************)
THEOREM ReportsAgreeHolds == HarnessSpec => []ReportsAgree
<1>1. ASSUME TimelineInv PROVE ReportsAgree
  <2> DEFINE skew == k6_stop - OfferedEnd
  <2>1. SUFFICES ASSUME Measured!WindowValid
                 PROVE  /\ Measured!WasteWindow - Measured!AboveMinSeconds
                              \in -Measured!Max({0, skew})
                                  .. end_time - TailEnd + Measured!Max({0, -skew})
                        /\ Measured!LastReturnInside =>
                              /\ Measured!Completed
                              /\ Measured!FullScaledown
                                    = Measured!Max({0, Measured!LegacyFullScaledown + skew})
    BY DEF ReportsAgree, Measured!ReportsAgree
  <2>2. WindowPlaced /\ WindowSpaced /\ TimelineShows
    BY <1>1, <2>1, WindowShape
  <2>3. k6_stop \in Int
    BY <1>1, TimelineConstants
       DEF TimelineInv, SeriesTyped, Measured!TimelineTypeOK, Measured!FallbackStops
  <2>4. QED
    BY <2>2, <2>3, WasteAgrees, ReturnAgrees
<1>2. HarnessSpec => HarnessSteps
  BY PTL DEF HarnessSpec, HarnessSteps
<1>3. QED
  BY <1>1, <1>2, TimelineInvariant, PTL

(***************************************************************************)
(* A series that no outage falsified shows what ran an offset earlier.     *)
(***************************************************************************)
SamplesTrue ==
    /\ offset \in Nat /\ offset <= Gap - 1
    /\ \A t \in 0..end_time : Measured!At(t) \in 0..MaxReplicas
    /\ \A i \in 1..Len(samples) :
          offset <= samples[i].at /\ samples[i].value = Measured!At(samples[i].at - offset)

(***************************************************************************)
(* Without an outage the series is true.                                   *)
(***************************************************************************)
LEMMA SamplesAreTrue ==
    ASSUME TimelineInv, WindowPlaced, ~outage
    PROVE  SamplesTrue
<1>1. /\ offset \in 0 .. Gap - 1 /\ truth \in Seq(0..MaxReplicas)
  BY DEF TimelineInv, SeriesTyped, Measured!TimelineTypeOK
<1>2. offset \in Nat /\ offset <= Gap - 1
  BY <1>1, TimelineConstants
<1>3. end_time \in Nat /\ Len(truth) - 1 = end_time /\ Len(truth) \in Nat
  BY <1>1 DEF WindowPlaced
<1>4. ASSUME NEW t \in 0..end_time PROVE Measured!At(t) \in 0..MaxReplicas
  <2>1. t + 1 \in 1..Len(truth)
    BY <1>3
  <2> DEFINE counts == 0..MaxReplicas
  <2>2. truth \in Seq(counts)
    BY <1>1
  <2> HIDE DEF counts
  <2>3. truth[t + 1] \in counts
    BY <2>1, <2>2
  <2>4. QED
    BY <2>3 DEF Measured!At, counts
<1>5. ASSUME NEW i \in 1..Len(samples)
      PROVE  offset <= samples[i].at /\ samples[i].value = Measured!At(samples[i].at - offset)
  BY DEF TimelineInv, SeriesOrdered, SeriesShown, Measured!At
<1>6. QED
  BY <1>2, <1>4, <1>5 DEF SamplesTrue

(***************************************************************************)
(* How the count moves, from one unit of time to the next.                 *)
(***************************************************************************)
Counts  == [t \in 0 .. TailEnd - 1 |-> Measured!At(t)]
Strides == [t \in 1 .. TailEnd - 1 |-> Measured!Abs(Measured!At(t) - Measured!At(t - 1))]

\* The variation is how far the count moved in the whole window.
LEMMA VariationIsPath ==
    ASSUME WindowPlaced, SamplesTrue
    PROVE  /\ TailEnd - 1 \in Nat /\ Shifts(Strides, Counts, TailEnd - 1)
           /\ Measured!Variation = Path(Strides, TailEnd - 1)
<1> DEFINE b == TailEnd - 1
<1>1. TailEnd \in Nat /\ b \in Nat /\ 1 <= b
  BY TimelineConstants
<1>2. \A t \in 0..b : Measured!At(t) \in Int
  BY <1>1, TimelineConstants DEF WindowPlaced, SamplesTrue
<1>3. \A t \in 0..b : Counts[t] = Measured!At(t) /\ Counts[t] \in Int
  BY <1>2 DEF Counts
<1>4. ASSUME NEW t \in 1..b
      PROVE  /\ Strides[t] \in Nat /\ -Strides[t] <= Counts[t - 1] - Counts[t]
             /\ Counts[t - 1] - Counts[t] <= Strides[t]
  <2> DEFINE x == Measured!At(t)
             y == Measured!At(t - 1)
  <2>1. t \in 0..b /\ t - 1 \in 0..b
    BY <1>1
  <2>2. x \in Int /\ y \in Int /\ Counts[t] = x /\ Counts[t - 1] = y
    BY <1>2, <1>3, <2>1
  <2>3. Strides[t] = IF x - y < 0 THEN -(x - y) ELSE x - y
    BY DEF Strides, Measured!Abs
  <2> HIDE DEF x, y
  <2>4. QED
    BY <2>2, <2>3
<1>5. Shifts(Strides, Counts, b)
  BY <1>3, <1>4 DEF Shifts
<1>6. Measured!Variation = Tally(Strides, 1, b)
  <2>1. Measured!Variation = Measured!SumFunction(Strides)
    BY DEF Measured!Variation, Strides
  <2>2. DOMAIN Strides = 1..b
    BY DEF Strides
  <2>3. 1 - 1 <= b /\ 1 \in Int /\ b \in Int /\ \A t \in 1..b : Strides[t] \in Int
    BY <1>1, <1>4
  <2> HIDE DEF b
  <2>4. QED
    BY <2>1, <2>2, <2>3, MeasuredSum
<1>7. Path(Strides, b) = Tally(Strides, 1, b)
  BY <1>1 DEF Path
<1>8. QED
  BY <1>1, <1>5, <1>6, <1>7

(***************************************************************************)
(* Where the segments of the window end, cut to a beginning: the level of  *)
(* one holds from one end to the next, and no longer than a gap.           *)
(***************************************************************************)
EndOf(k) == IF First + k - 1 = Final THEN TailEnd ELSE samples[First + k].at
Cut(from) == [k \in 0 .. Final - First + 1 |-> IF k = 0 THEN from ELSE Greater(from, EndOf(k))]

(***************************************************************************)
(* The cuts are in order, from the beginning to the end of the window.     *)
(***************************************************************************)
LEMMA SegmentsAreCut ==
    ASSUME WindowPlaced, WindowSpaced, TimelineShows,
           NEW from \in Int, Onset <= from, from <= TailEnd
    PROVE  /\ Places(Cut(from), Final - First + 1)
           /\ Cut(from)[0] = from /\ Cut(from)[Final - First + 1] = TailEnd
           /\ \A k \in 1 .. Final - First + 1 :
                 /\ Measured!Length(Measured!Timeline, k, from, TailEnd)
                      = Cut(from)[k] - Cut(from)[k - 1]
                 /\ \A t \in Cut(from)[k - 1] .. Cut(from)[k] - 1 :
                       /\ from <= t /\ t <= TailEnd - 1
                       /\ samples[First + k - 1].at <= t
                       /\ t <= samples[First + k - 1].at + Gap - 1
<1> DEFINE L == Final - First + 1
           c == Cut(from)
<1>1. /\ Len(samples) \in Nat /\ 1 <= First /\ First <= Final /\ Final <= Len(samples)
      /\ First \in Nat /\ Final \in Nat /\ L \in Nat /\ 1 <= L
  BY DEF WindowPlaced
<1>2. /\ Onset \in Nat /\ TailEnd \in Nat /\ Gap \in Nat
  BY TimelineConstants
<1>3. /\ \A i \in 1..Len(samples) : samples[i].at \in Nat
      /\ \A i \in 1..First : samples[i].at <= Onset
      /\ \A i \in 1..Final : samples[i].at <= TailEnd
      /\ \A i \in First + 1 .. Final : samples[i].at = samples[i - 1].at + Gap
      /\ TailEnd - samples[Final].at <= Gap
  BY DEF WindowSpaced
<1>4. ASSUME NEW k \in 1..L
      PROVE  /\ First + k - 1 \in First..Final /\ First + k - 1 \in 1..Len(samples)
             /\ First + k - 1 # Final => /\ First + k \in First + 1 .. Final
                                         /\ (First + k) - 1 = First + k - 1
                                         /\ First + k \in 1..Len(samples)
             /\ First + k - 1 = Final <=> k = L
             /\ k # 1 => /\ k - 1 \in 1..L /\ k - 1 # L /\ First + (k - 1) = First + k - 1
                         /\ First + k - 1 \in First + 1 .. Final
  BY <1>1
<1>5. /\ c[0] = from /\ \A k \in 1..L : c[k] = Greater(from, EndOf(k))
  <2>1. 0 \in 0..L /\ \A k \in 1..L : k \in 0..L /\ k # 0
    BY <1>1
  <2> HIDE DEF L
  <2>2. QED
    BY <2>1 DEF Cut, L
<1>6. ASSUME NEW k \in 1..L
      PROVE  /\ EndOf(k) \in Nat /\ EndOf(k) <= TailEnd
             /\ EndOf(k) <= samples[First + k - 1].at + Gap
             /\ samples[First + k - 1].at <= EndOf(k)
             /\ k = L => EndOf(k) = TailEnd
             /\ k # 1 => EndOf(k - 1) = samples[First + k - 1].at
  <2>1. samples[First + k - 1].at \in Nat
    BY <1>3, <1>4
  <2>2. k # 1 => EndOf(k - 1) = samples[First + k - 1].at
    <3>1. ASSUME k # 1 PROVE EndOf(k - 1) = samples[First + k - 1].at
      <4>1. k - 1 \in 1..L /\ k - 1 # L /\ First + (k - 1) = First + k - 1
        BY <1>4, <3>1
      <4>2. First + (k - 1) - 1 # Final
        BY <1>4, <4>1
      <4>3. QED
        BY <4>1, <4>2 DEF EndOf
    <3>2. QED
      BY <3>1
  <2>3. CASE First + k - 1 = Final
    <3>1. EndOf(k) = TailEnd /\ First + k - 1 \in 1..Final
      BY <1>1, <2>3 DEF EndOf
    <3>2. samples[First + k - 1].at <= TailEnd
      BY <1>3, <3>1
    <3>3. TailEnd - samples[First + k - 1].at <= Gap
      BY <1>3, <2>3
    <3>4. QED
      BY <1>2, <2>1, <2>2, <3>1, <3>2, <3>3
  <2>4. CASE First + k - 1 # Final
    <3>1. /\ EndOf(k) = samples[First + k].at /\ k # L
          /\ First + k \in First + 1 .. Final /\ (First + k) - 1 = First + k - 1
          /\ First + k \in 1..Len(samples)
      BY <1>4, <2>4 DEF EndOf
    <3>2. samples[First + k].at = samples[First + k - 1].at + Gap
      BY <1>3, <3>1
    <3>3. First + k \in 1..Final
      BY <1>1, <3>1
    <3>4. samples[First + k].at <= TailEnd
      BY <1>3, <3>3
    <3>5. QED
      BY <1>2, <2>1, <2>2, <3>1, <3>2, <3>4
  <2>5. QED
    BY <2>3, <2>4
<1>7. c[L] = TailEnd
  <2>1. L \in 1..L
    BY <1>1
  <2>2. c[L] = Greater(from, TailEnd)
    BY <1>5, <1>6, <2>1
  <2>3. QED
    BY <1>2, <2>2 DEF Greater
<1>8. ASSUME NEW k \in 1..L
      PROVE  /\ c[k - 1] \in Int /\ c[k] \in Int /\ c[k - 1] <= c[k] /\ from <= c[k - 1]
             /\ c[k] <= TailEnd
             /\ c[k - 1] = Greater(from, samples[First + k - 1].at)
  <2>1. /\ EndOf(k) \in Nat /\ samples[First + k - 1].at \in Nat
        /\ samples[First + k - 1].at <= EndOf(k) /\ EndOf(k) <= TailEnd
        /\ c[k] = Greater(from, EndOf(k))
    BY <1>3, <1>4, <1>5, <1>6
  <2>2. c[k - 1] = Greater(from, samples[First + k - 1].at)
    <3>1. CASE k = 1
      <4>1. First \in 1..First /\ First + k - 1 = First /\ k - 1 = 0
        BY <1>1, <3>1
      <4>2. samples[First + k - 1].at <= Onset
        BY <1>3, <4>1
      <4>3. c[k - 1] = from
        BY <1>5, <4>1
      <4>4. Greater(from, samples[First + k - 1].at) = from
        BY <1>2, <2>1, <4>2 DEF Greater
      <4>5. QED
        BY <4>3, <4>4
    <3>2. CASE k # 1
      <4>1. k - 1 \in 1..L /\ EndOf(k - 1) = samples[First + k - 1].at
        BY <1>4, <1>6, <3>2
      <4>2. QED
        BY <1>5, <4>1
    <3>3. QED
      BY <3>1, <3>2
  <2> HIDE DEF c
  <2>3. QED
    BY <1>2, <2>1, <2>2 DEF Greater
<1>9. Places(c, L)
  <2>1. ASSUME NEW k \in 0..L PROVE c[k] \in Int
    <3>1. k = 0 \/ k \in 1..L
      BY <1>1
    <3>2. QED
      BY <1>5, <1>8, <3>1
  <2>2. DOMAIN c = 0..L /\ c = [k \in 0..L |-> c[k]]
    BY DEF Cut
  <2> HIDE DEF c, L
  <2>3. c \in [0..L -> Int]
    BY <2>1, <2>2
  <2>4. QED
    BY <1>8, <2>3 DEF Places
<1>10. ASSUME NEW k \in 1..L
       PROVE  /\ Measured!Length(Measured!Timeline, k, from, TailEnd) = c[k] - c[k - 1]
              /\ \A t \in c[k - 1] .. c[k] - 1 :
                    /\ from <= t /\ t <= TailEnd - 1
                    /\ samples[First + k - 1].at <= t
                    /\ t <= samples[First + k - 1].at + Gap - 1
  <2> DEFINE x == EndOf(k)
             y == samples[First + k - 1].at
  <2>1. /\ x \in Nat /\ y \in Nat /\ y <= x /\ x <= TailEnd /\ x <= y + Gap
        /\ c[k] = Greater(from, x) /\ c[k - 1] = Greater(from, y)
    BY <1>3, <1>4, <1>5, <1>6, <1>8
  <2>2. /\ Measured!Timeline[k].at = y
        /\ Measured!Next(Measured!Timeline, k, TailEnd) = x
    <3>1. Measured!Next(Measured!Timeline, k, TailEnd) = x
      BY SegmentEnds DEF EndOf
    <3>2. Measured!Timeline[k].at = y
      BY DEF TimelineShows
    <3>3. QED
      BY <3>1, <3>2
  <2>3. Measured!Length(Measured!Timeline, k, from, TailEnd)
          = Greater(0, Lesser(x, TailEnd) - Greater(y, from))
    <3>1. /\ Measured!Timeline[k].at \in Int /\ TailEnd \in Int
          /\ Measured!Next(Measured!Timeline, k, TailEnd) \in Int
      BY <1>2, <2>1, <2>2
    <3>2. Measured!Length(Measured!Timeline, k, from, TailEnd)
            = Greater(0, Lesser(Measured!Next(Measured!Timeline, k, TailEnd), TailEnd)
                            - Greater(Measured!Timeline[k].at, from))
      BY <3>1, LengthOf
    <3>3. QED
      BY <2>2, <3>2
  <2> HIDE DEF x, y, c
  <2>4. Greater(0, Lesser(x, TailEnd) - Greater(y, from)) = c[k] - c[k - 1]
    BY <1>2, <2>1 DEF Greater, Lesser
  <2>5. ASSUME NEW t \in c[k - 1] .. c[k] - 1
        PROVE  from <= t /\ t <= TailEnd - 1 /\ y <= t /\ t <= y + Gap - 1
    <3>1. t \in Int /\ c[k - 1] <= t /\ t <= c[k] - 1
      BY <1>8
    <3>2. QED
      BY <1>2, <2>1, <3>1 DEF Greater
  <2>6. QED
    BY <2>3, <2>4, <2>5 DEF y
<1>11. QED
  BY <1>5, <1>7, <1>9, <1>10

(***************************************************************************)
(* The Pod-seconds are off by no more than the count moves while a move    *)
(* may go unseen.                                                          *)
(***************************************************************************)
LEMMA CostsAreFaithful ==
    ASSUME WindowPlaced, WindowSpaced, TimelineShows, SamplesTrue,
           NEW from \in {Onset, OfferedEnd}
    PROVE  Measured!Abs(Measured!PodSeconds(from) - Measured!TruePodSeconds(from))
              <= Measured!Delay * Measured!Variation
<1> DEFINE L == Final - First + 1
           c == Cut(from)
           b == TailEnd - 1
           D == Measured!Delay
           v == [k \in 1..L |-> Measured!Timeline[k].value]
           S == [k \in 1..L |-> v[k] * Measured!Length(Measured!Timeline, k, from, TailEnd)]
           r == [t \in from..b |-> Measured!At(t)]
<1>1. /\ Len(samples) \in Nat /\ 1 <= First /\ First <= Final /\ Final <= Len(samples)
      /\ First \in Nat /\ Final \in Nat /\ L \in Nat /\ 1 <= L
      /\ end_time \in Nat /\ TailEnd <= end_time
  BY DEF WindowPlaced
<1>2. /\ TailEnd \in Nat /\ Onset \in Nat /\ OfferedEnd \in Nat /\ Onset < OfferedEnd
      /\ OfferedEnd < TailEnd
  BY TimelineConstants
<1>3. /\ from \in Nat /\ from \in Int /\ Onset <= from /\ from <= TailEnd /\ from <= b
      /\ b \in Int /\ b \in Nat /\ TailEnd = b + 1
  BY <1>2
<1>4. D = Gap - 1 + offset /\ D \in Nat /\ Gap \in Nat /\ offset \in Nat
  <2>1. Gap \in Nat \ {0} /\ offset \in Nat /\ D = Gap - 1 + offset
    BY TimelineConstants DEF SamplesTrue, Measured!Delay
  <2> HIDE DEF D
  <2>2. QED
    BY <2>1
<1>5. /\ Places(c, L) /\ c[0] = from /\ c[L] = TailEnd
      /\ \A k \in 1..L :
            /\ Measured!Length(Measured!Timeline, k, from, TailEnd) = c[k] - c[k - 1]
            /\ \A t \in c[k - 1] .. c[k] - 1 :
                  /\ from <= t /\ t <= TailEnd - 1
                  /\ samples[First + k - 1].at <= t
                  /\ t <= samples[First + k - 1].at + Gap - 1
  BY <1>3, SegmentsAreCut
<1>6. Shifts(Strides, Counts, b) /\ Measured!Variation = Path(Strides, b)
  BY VariationIsPath
<1>7. \A t \in from..b : r[t] = Counts[t] /\ r[t] \in Int
  <2>1. ASSUME NEW t \in from..b PROVE r[t] = Counts[t] /\ r[t] \in Int
    <3>1. t \in 0..b
      BY <1>3
    <3>2. r[t] = Measured!At(t) /\ Counts[t] = Measured!At(t)
      BY <3>1 DEF Counts
    <3>3. Counts[t] \in Int
      BY <1>6, <3>1 DEF Shifts
    <3> HIDE DEF r
    <3>4. QED
      BY <3>2, <3>3
  <2>2. QED
    BY <2>1
<1>8. ASSUME NEW k \in 1..L
      PROVE  /\ v[k] = Measured!At(samples[First + k - 1].at - offset)
             /\ offset <= samples[First + k - 1].at
             /\ samples[First + k - 1].at \in Nat
             /\ v[k] \in Int
  <2> DEFINE i == First + k - 1
  <2>1. i \in 1..Len(samples)
    BY <1>1
  <2>2. v[k] = samples[i].value
    BY DEF TimelineShows
  <2> HIDE DEF i
  <2>3. samples[i].at \in Nat /\ samples[i].value \in Nat
    BY <2>1 DEF WindowSpaced
  <2>4. offset <= samples[i].at /\ samples[i].value = Measured!At(samples[i].at - offset)
    BY <2>1 DEF SamplesTrue
  <2> HIDE DEF v
  <2>5. QED
    BY <2>2, <2>3, <2>4 DEF i
<1> HIDE DEF c, D, b, L, v, r
<1>9. Late(v, Counts, c, L, D)
  <2>1. ASSUME NEW k \in 1..L, NEW t \in c[k - 1]..(c[k] - 1)
        PROVE  \E u \in 0..t : t - D <= u /\ v[k] = Counts[u]
    <3> DEFINE y == samples[First + k - 1].at
    <3>1. /\ from <= t /\ t <= b /\ y <= t /\ t <= y + Gap - 1
          /\ v[k] = Measured!At(y - offset) /\ offset <= y /\ y \in Nat
      BY <1>5, <1>8 DEF b
    <3>2. t \in Int
      <4>1. k - 1 \in 0..L /\ k \in 0..L
        BY <1>1
      <4>2. c[k - 1] \in Int /\ c[k] \in Int
        BY <1>5, <4>1 DEF Places
      <4>3. QED
        BY <4>2
    <3> HIDE DEF y
    <3>3. y - offset \in 0..b /\ y - offset \in 0..t /\ t - D <= y - offset
      BY <1>3, <1>4, <3>1, <3>2
    <3>4. Counts[y - offset] = Measured!At(y - offset)
      BY <3>3 DEF Counts, b
    <3>5. QED
      BY <3>1, <3>3, <3>4
  <2>2. QED
    BY <1>8, <2>1 DEF Late
<1>10. /\ Tally(S, 1, L) \in Int /\ Tally(r, from, b) \in Int /\ D * Path(Strides, b) \in Nat
       /\ -(D * Path(Strides, b)) <= Tally(S, 1, L) - Tally(r, from, b)
       /\ Tally(S, 1, L) - Tally(r, from, b) <= D * Path(Strides, b)
  <2>1. Weighs(S, v, c, L)
    BY <1>5 DEF Weighs
  <2>2. Agrees(r, Counts, from, b)
    BY <1>7 DEF Agrees
  <2> HIDE DEF S
  <2>3. QED
    BY <1>1, <1>3, <1>4, <1>5, <1>6, <1>9, <2>1, <2>2, LateIntegral
<1>11. Measured!PodSeconds(from) = Tally(S, 1, L)
  <2>1. Measured!PodSeconds(from) = Measured!SumFunction(S)
    <3>1. DOMAIN Measured!Timeline = 1..L
      BY DEF TimelineShows, L
    <3>2. QED
      BY <3>1 DEF Measured!PodSeconds, v
  <2>2. DOMAIN S = 1..L
    OBVIOUS
  <2>3. ASSUME NEW k \in 1..L PROVE S[k] \in Int
    <3>1. k - 1 \in 0..L /\ k \in 0..L
      BY <1>1
    <3>2. c[k - 1] \in Int /\ c[k] \in Int
      BY <1>5, <3>1 DEF Places
    <3>3. S[k] = v[k] * (c[k] - c[k - 1]) /\ v[k] \in Int
      BY <1>5, <1>8
    <3> HIDE DEF S
    <3>4. QED
      BY <3>2, <3>3
  <2>4. 1 - 1 <= L /\ 1 \in Int /\ L \in Int
    BY <1>1
  <2> HIDE DEF S
  <2>5. QED
    BY <2>1, <2>2, <2>3, <2>4, MeasuredSum
<1>12. Measured!TruePodSeconds(from) = Tally(r, from, b)
  <2>1. Measured!TruePodSeconds(from) = Measured!SumFunction(r)
    BY DEF Measured!TruePodSeconds, b, r
  <2>2. DOMAIN r = from..b /\ \A t \in from..b : r[t] \in Int
    BY <1>7 DEF r
  <2>3. from - 1 <= b
    BY <1>3
  <2>4. QED
    BY <1>3, <2>1, <2>2, <2>3, MeasuredSum
<1> DEFINE x == Tally(S, 1, L)
           y == Tally(r, from, b)
           w == D * Path(Strides, b)
<1>13. x \in Int /\ y \in Int /\ w \in Nat /\ -w <= x - y /\ x - y <= w
  BY <1>10
<1>14. Measured!Abs(Measured!PodSeconds(from) - Measured!TruePodSeconds(from))
          = IF x - y < 0 THEN -(x - y) ELSE x - y
  BY <1>11, <1>12 DEF Measured!Abs
<1>15. Measured!Delay * Measured!Variation = w
  BY <1>6 DEF D
<1> HIDE DEF x, y, w
<1>16. QED
  BY <1>13, <1>14, <1>15

(***************************************************************************)
(* The peak is the level of a sample and none is above it.                 *)
(***************************************************************************)
LEMMA PeakIs ==
    ASSUME WindowPlaced, WindowSpaced, TimelineShows, SamplesTrue
    PROVE  /\ \E i \in First..Final : Measured!PeakReplicas = samples[i].value
           /\ \A i \in First..Final : samples[i].value <= Measured!PeakReplicas
<1> DEFINE L == Final - First + 1
           levels == {Measured!Timeline[k].value : k \in 1..L}
<1>1. /\ Len(samples) \in Nat /\ 1 <= First /\ First <= Final /\ Final <= Len(samples)
      /\ First \in Nat /\ Final \in Nat /\ end_time \in Nat /\ TailEnd <= end_time
  BY DEF WindowPlaced
<1>2. Measured!PeakReplicas = Measured!Max(levels)
  BY DEF Measured!PeakReplicas, TimelineShows
<1>3. \A k \in 1..L : Measured!Timeline[k].value = samples[First + k - 1].value
  BY DEF TimelineShows
<1>4. \A i \in First..Final : samples[i].value \in Nat /\ samples[i].value <= MaxReplicas
  <2>1. ASSUME NEW i \in First..Final
        PROVE  samples[i].value \in Nat /\ samples[i].value <= MaxReplicas
    <3>1. i \in 1..Len(samples) /\ i \in 1..Final
      BY <1>1
    <3>2. samples[i].at \in Nat /\ samples[i].at <= TailEnd
      BY <3>1 DEF WindowSpaced
    <3>3. offset \in Nat /\ offset <= samples[i].at
          /\ samples[i].value = Measured!At(samples[i].at - offset)
      BY <3>1 DEF SamplesTrue
    <3>4. samples[i].at - offset \in 0..end_time
      BY <1>1, <3>2, <3>3, TimelineConstants
    <3>5. samples[i].value \in 0..MaxReplicas
      BY <3>3, <3>4 DEF SamplesTrue
    <3>6. QED
      BY <3>5, TimelineConstants
  <2>2. QED
    BY <2>1
<1>5. \A i \in First..Final : samples[i].value \in levels
  <2>1. ASSUME NEW i \in First..Final PROVE samples[i].value \in levels
    <3>1. i - First + 1 \in 1..L /\ First + (i - First + 1) - 1 = i
      BY <1>1
    <3>2. Measured!Timeline[i - First + 1].value = samples[i].value
      BY <1>3, <3>1
    <3>3. QED
      BY <3>1, <3>2
  <2>2. QED
    BY <2>1
<1>6. \A x \in levels : \E i \in First..Final : x = samples[i].value
  <2>1. \A k \in 1..L : First + k - 1 \in First..Final
    BY <1>1
  <2>2. QED
    BY <1>3, <2>1
<1> HIDE DEF levels
<1>7. levels \subseteq Nat /\ levels # {} /\ \A x \in levels : x <= MaxReplicas
  <2>1. First \in First..Final
    BY <1>1
  <2>2. QED
    BY <1>4, <1>5, <1>6, <2>1
<1>8. PICK m \in levels : \A x \in levels : x <= m
  <2>1. MaxReplicas \in Nat
    BY TimelineConstants
  <2>2. QED
    BY <1>7, <2>1, GreatestElement
<1>9. Measured!Max(levels) = m
  <2>1. levels \subseteq Int
    BY <1>7
  <2>2. QED
    BY <1>8, <2>1, MeasuredMax
<1>10. QED
  BY <1>2, <1>5, <1>6, <1>8, <1>9

(***************************************************************************)
(* The first sample of the window from a time on comes within a gap.       *)
(***************************************************************************)
LEMMA FirstFrom ==
    ASSUME WindowPlaced, WindowSpaced, NEW time \in Int, Onset <= time, time <= TailEnd - Gap
    PROVE  \E i \in First..Final :
              /\ time <= samples[i].at /\ samples[i].at <= time + Gap - 1
              /\ IF i = First THEN samples[i].at = time /\ time = Onset
                 ELSE samples[i - 1].at = samples[i].at - Gap /\ samples[i - 1].at < time
<1> DEFINE later == {i \in First..Final : time <= samples[i].at}
<1>1. /\ Len(samples) \in Nat /\ 1 <= First /\ First <= Final /\ Final <= Len(samples)
      /\ First \in Nat /\ Final \in Nat
  BY DEF WindowPlaced
<1>2. /\ \A i \in 1..Len(samples) : samples[i].at \in Nat
      /\ \A i \in 1..First : samples[i].at <= Onset
      /\ \A i \in First + 1 .. Final : samples[i].at = samples[i - 1].at + Gap
      /\ TailEnd - samples[Final].at <= Gap
  BY DEF WindowSpaced
<1>3. Gap \in Nat \ {0} /\ TailEnd \in Nat /\ Onset \in Nat
  BY TimelineConstants
<1>4. Final \in later
  <2>1. Final \in 1..Len(samples) /\ Final \in First..Final
    BY <1>1
  <2>2. samples[Final].at \in Nat
    BY <1>2, <2>1
  <2>3. QED
    BY <1>2, <1>3, <2>1, <2>2
<1>5. later \subseteq Nat
  BY <1>1
<1>6. PICK i \in later : \A j \in later : i <= j
  <2> HIDE DEF later
  <2>1. QED
    BY <1>4, <1>5, LeastElement
<1>7. i \in First..Final /\ time <= samples[i].at /\ i \in 1..Len(samples)
  BY <1>1, <1>6
<1>8. CASE i = First
  <2>1. First \in 1..First
    BY <1>1
  <2>2. samples[i].at <= Onset /\ samples[i].at \in Nat
    BY <1>2, <1>7, <1>8, <2>1
  <2>3. samples[i].at = time /\ time = Onset
    BY <1>3, <1>7, <2>2
  <2>4. QED
    BY <1>3, <1>7, <1>8, <2>3
<1>9. CASE i # First
  <2>1. /\ i \in First + 1 .. Final /\ i - 1 \in First..Final
        /\ ~(i <= i - 1) /\ i - 1 \in 1..Len(samples)
    BY <1>1, <1>7, <1>9
  <2>2. ~(time <= samples[i - 1].at)
    BY <1>6, <2>1
  <2>3. /\ samples[i].at = samples[i - 1].at + Gap /\ samples[i].at \in Nat
        /\ samples[i - 1].at \in Nat
    BY <1>2, <1>7, <2>1
  <2>4. /\ samples[i - 1].at = samples[i].at - Gap /\ samples[i - 1].at < time
        /\ samples[i].at <= time + Gap - 1
    BY <1>3, <2>2, <2>3
  <2>5. QED
    BY <1>7, <1>9, <2>4
<1>10. QED
  BY <1>8, <1>9

(***************************************************************************)
(* The peak misses nothing that lasts.                                     *)
(***************************************************************************)
LEMMA PeakIsFaithful ==
    ASSUME WindowPlaced, WindowSpaced, TimelineShows, SamplesTrue
    PROVE  /\ \E t \in 0..TailEnd : Measured!At(t) = Measured!PeakReplicas
           /\ \A t \in Onset .. TailEnd - Gap - 1 :
                 Measured!Held(Measured!At(t), t - offset, t + Gap - 1)
                    => Measured!At(t) <= Measured!PeakReplicas
<1>1. /\ Len(samples) \in Nat /\ 1 <= First /\ First <= Final /\ Final <= Len(samples)
      /\ First \in Nat /\ Final \in Nat
  BY DEF WindowPlaced
<1>2. Gap \in Nat \ {0} /\ TailEnd \in Nat /\ Onset \in Nat /\ offset \in Nat
  BY TimelineConstants DEF SamplesTrue
<1>3. \A i \in First..Final :
         /\ samples[i].at \in Nat /\ samples[i].at <= TailEnd /\ offset <= samples[i].at
         /\ samples[i].value = Measured!At(samples[i].at - offset)
  <2>1. \A i \in First..Final : i \in 1..Len(samples) /\ i \in 1..Final
    BY <1>1
  <2>2. QED
    BY <2>1 DEF WindowSpaced, SamplesTrue
<1>4. \E t \in 0..TailEnd : Measured!At(t) = Measured!PeakReplicas
  <2>1. PICK i \in First..Final : Measured!PeakReplicas = samples[i].value
    BY PeakIs
  <2>2. samples[i].at - offset \in 0..TailEnd
    BY <1>2, <1>3
  <2>3. Measured!At(samples[i].at - offset) = Measured!PeakReplicas
    BY <1>3, <2>1
  <2>4. QED
    BY <2>2, <2>3
<1>5. ASSUME NEW t \in Onset .. TailEnd - Gap - 1,
             Measured!Held(Measured!At(t), t - offset, t + Gap - 1)
      PROVE  Measured!At(t) <= Measured!PeakReplicas
  <2>1. t \in Int /\ Onset <= t /\ t <= TailEnd - Gap
    BY <1>2
  <2>2. PICK i \in First..Final : t <= samples[i].at /\ samples[i].at <= t + Gap - 1
    BY <2>1, FirstFrom
  <2>3. samples[i].at - offset \in t - offset .. t + Gap - 1
    BY <1>2, <1>3, <2>1, <2>2
  <2>4. samples[i].value = Measured!At(t)
    BY <1>3, <1>5, <2>3 DEF Measured!Held
  <2>5. QED
    BY <2>4, PeakIs
<1>6. QED
  BY <1>4, <1>5

(***************************************************************************)
(* The last return to the minimum is seen once, a delay later at most.     *)
(***************************************************************************)
LEMMA ScaledownIsFaithful ==
    ASSUME WindowPlaced, WindowSpaced, TimelineShows, SamplesTrue,
           NEW r \in Gap .. TailEnd - Measured!Delay - 1, r >= Onset, Measured!Settled(r)
    PROVE  /\ Measured!Completed
           /\ Measured!FullScaledown
                \in Measured!Max({0, r - OfferedEnd})
                      .. Measured!Max({0, r + Measured!Delay - OfferedEnd})
<1> DEFINE MIN == Measured!MIN_REPLICAS
           D == Measured!Delay
<1>1. /\ Len(samples) \in Nat /\ 1 <= First /\ First <= Final /\ Final <= Len(samples)
      /\ First \in Nat /\ Final \in Nat /\ end_time \in Nat /\ TailEnd <= end_time
  BY DEF WindowPlaced
<1>2. /\ Gap \in Nat \ {0} /\ TailEnd \in Nat /\ Onset \in Nat /\ OfferedEnd \in Nat
      /\ Onset < OfferedEnd /\ offset \in Nat /\ offset <= Gap - 1
  BY TimelineConstants DEF SamplesTrue
<1>3. D = Gap - 1 + offset /\ D \in Nat
  <2>1. D = Gap - 1 + offset
    BY DEF Measured!Delay
  <2> HIDE DEF D
  <2>2. QED
    BY <1>2, <2>1
<1>4. \A i \in First..Final :
         /\ samples[i].at \in Nat /\ samples[i].at <= TailEnd /\ offset <= samples[i].at
         /\ samples[i].value = Measured!At(samples[i].at - offset) /\ samples[i].value \in Nat
  <2>1. \A i \in First..Final : i \in 1..Len(samples) /\ i \in 1..Final
    BY <1>1
  <2>2. QED
    BY <2>1 DEF WindowSpaced, SamplesTrue
<1>5. \A i, j \in First..Final : i <= j => samples[i].at <= samples[j].at
  <2>1. ASSUME NEW i \in First..Final, NEW j \in First..Final, i <= j
        PROVE  samples[i].at <= samples[j].at
    <3>1. i \in 1..Len(samples) /\ j \in 1..Len(samples) /\ (i = j \/ i < j)
      BY <1>1, <2>1
    <3>2. i < j => samples[i].at < samples[j].at
      BY <3>1 DEF WindowSpaced
    <3>3. QED
      BY <1>4, <3>1, <3>2
  <2>2. QED
    BY <2>1
<1>6. /\ Measured!At(r - 1) > MIN
      /\ \A t \in r - Gap .. r - 1 : Measured!At(t) = Measured!At(r - 1)
      /\ \A t \in r .. TailEnd : Measured!At(t) = MIN
  BY DEF Measured!Settled, Measured!Held
<1> HIDE DEF MIN, D
<1>7. r \in Nat /\ Gap <= r /\ r <= TailEnd - D - 1 /\ r \in Int
  BY <1>2, <1>3 DEF D
<1>8. PICK j \in First..Final :
         /\ r + offset <= samples[j].at /\ samples[j].at <= (r + offset) + Gap - 1
         /\ IF j = First THEN samples[j].at = r + offset /\ r + offset = Onset
            ELSE samples[j - 1].at = samples[j].at - Gap /\ samples[j - 1].at < r + offset
  <2>1. r + offset \in Int /\ Onset <= r + offset /\ r + offset <= TailEnd - Gap
    BY <1>2, <1>3, <1>7
  <2>2. QED
    BY <2>1, FirstFrom
<1>9. r <= samples[j].at /\ samples[j].at <= r + D /\ samples[j].at \in Nat
  BY <1>2, <1>3, <1>4, <1>7, <1>8
<1>10. ASSUME NEW i \in j..Final PROVE i \in First..Final /\ samples[i].value = MIN
  <2>1. i \in First..Final /\ j <= i
    BY <1>1
  <2>2. samples[j].at <= samples[i].at
    BY <1>5, <2>1
  <2>3. samples[i].at - offset \in r..TailEnd
    BY <1>2, <1>4, <1>7, <1>8, <1>9, <2>1, <2>2
  <2>4. QED
    BY <1>4, <1>6, <2>1, <2>3
<1>11. Measured!Completed
  <2>1. /\ Len(Measured!Timeline) = Final - First + 1
        /\ Final - First + 1 \in 1 .. Final - First + 1
        /\ First + (Final - First + 1) - 1 = Final
    BY <1>1 DEF TimelineShows
  <2>2. Measured!Timeline[Len(Measured!Timeline)] = samples[Final]
    BY <2>1 DEF TimelineShows
  <2>3. Final \in j..Final
    BY <1>1
  <2>4. QED
    BY <1>10, <2>2, <2>3 DEF Measured!Completed, MIN
<1>12. ASSUME NEW i \in Nat, Returns(i) PROVE i <= j /\ i \in First..Final /\ i # First
  <2>1. /\ i \in First + 1 .. Final /\ samples[i].value < samples[i - 1].value
    BY <1>12 DEF Returns
  <2>2. i \in First..Final /\ i - 1 \in First..Final /\ i # First
    BY <1>1, <2>1
  <2>3. ASSUME ~(i <= j) PROVE FALSE
    <3>1. i \in j..Final /\ i - 1 \in j..Final
      BY <1>1, <2>2, <2>3
    <3>2. samples[i].value = samples[i - 1].value
      BY <1>10, <3>1
    <3>3. QED
      BY <1>4, <2>1, <2>2, <3>2
  <2>4. QED
    BY <2>2, <2>3
<1> DEFINE x == r - OfferedEnd
           y == r + D - OfferedEnd
<1>13. x \in Int /\ y \in Int /\ 0 \in Int /\ x = r - OfferedEnd /\ y = (r + D) - OfferedEnd
  BY <1>2, <1>3, <1>7
<1>14. /\ Measured!Max({0, r - OfferedEnd}) = Greater(0, x)
       /\ Measured!Max({0, r + Measured!Delay - OfferedEnd}) = Greater(0, y)
  <2>1. y = r + Measured!Delay - OfferedEnd
    BY DEF D
  <2>2. Measured!Max({0, x}) = Greater(0, x) /\ Measured!Max({0, y}) = Greater(0, y)
    BY <1>13, OfTwo
  <2>3. QED
    BY <2>1, <2>2
<1> HIDE DEF x, y
<1>15. CASE samples[j].at < OfferedEnd \/ j = First
  <2>1. ASSUME NEW i \in Nat, Returns(i) PROVE FALSE
    <3>1. i <= j /\ i \in First..Final /\ i # First /\ samples[i].at >= OfferedEnd
      BY <1>12, <2>1 DEF Returns
    <3>2. samples[i].at <= samples[j].at /\ samples[i].at \in Nat
      BY <1>4, <1>5, <3>1
    <3>3. j # First
      BY <1>1, <3>1
    <3>4. QED
      BY <1>2, <1>9, <1>15, <3>1, <3>2, <3>3
  <2>2. Measured!FullScaledown = 0
    BY <2>1, FullScaledownIs
  <2>3. r <= OfferedEnd
    BY <1>2, <1>7, <1>8, <1>9, <1>15
  <2>4. 0 \in Greater(0, x) .. Greater(0, y)
    BY <1>2, <1>7, <1>13, <2>3 DEF Greater
  <2>5. QED
    BY <1>11, <1>14, <2>2, <2>4
<1>16. CASE ~(samples[j].at < OfferedEnd \/ j = First)
  <2>1. j - 1 \in First..Final /\ j \in First + 1 .. Final /\ j \in j..Final /\ j \in Nat
    BY <1>1, <1>16
  <2>2. samples[j - 1].at = samples[j].at - Gap /\ samples[j - 1].at < r + offset
    BY <1>8, <1>16
  <2>3. samples[j - 1].at - offset \in r - Gap .. r - 1
    BY <1>2, <1>4, <1>7, <1>8, <1>9, <2>1, <2>2
  <2>4. samples[j - 1].value = Measured!At(r - 1)
    BY <1>4, <1>6, <2>1, <2>3
  <2>5. samples[j].value = MIN
    BY <1>10, <2>1
  <2>6. samples[j].value < samples[j - 1].value
    BY <1>4, <1>6, <2>1, <2>4, <2>5
  <2>7. samples[j].at >= OfferedEnd
    BY <1>2, <1>9, <1>16
  <2>8. Returns(j)
    BY <2>1, <2>5, <2>6, <2>7 DEF Returns, MIN
  <2>9. Measured!FullScaledown = samples[j].at - OfferedEnd
    BY <1>12, <2>1, <2>8, FullScaledownIs
  <2>10. samples[j].at - OfferedEnd \in Greater(0, x) .. Greater(0, y)
    BY <1>2, <1>3, <1>7, <1>9, <1>13, <2>7 DEF Greater
  <2>11. QED
    BY <1>11, <1>14, <2>9, <2>10
<1>17. QED
  BY <1>15, <1>16

(***************************************************************************)
(* What is measured of a valid window is what ran: the costs are off by no *)
(* more than the moves that may go unseen, the peak is one that ran and    *)
(* misses none that lasted, and the last return is timed within a delay.   *)
(***************************************************************************)
THEOREM FaithfulMeasurementHolds == HarnessSpec => []FaithfulMeasurement
<1>1. ASSUME TimelineInv PROVE FaithfulMeasurement
  <2>1. SUFFICES ASSUME Measured!WindowValid, ~outage
                 PROVE
        /\ \A from \in {Onset, OfferedEnd} :
              Measured!Abs(Measured!PodSeconds(from) - Measured!TruePodSeconds(from))
                 <= Measured!Delay * Measured!Variation
        /\ \E t \in 0..TailEnd : Measured!At(t) = Measured!PeakReplicas
        /\ \A t \in Onset .. TailEnd - Gap - 1 :
              Measured!Held(Measured!At(t), t - offset, t + Gap - 1)
                 => Measured!At(t) <= Measured!PeakReplicas
        /\ \A r \in Gap .. TailEnd - Measured!Delay - 1 :
              r >= Onset /\ Measured!Settled(r) =>
                  /\ Measured!Completed
                  /\ Measured!FullScaledown
                        \in Measured!Max({0, r - OfferedEnd})
                              .. Measured!Max({0, r + Measured!Delay - OfferedEnd})
    BY DEF FaithfulMeasurement, Measured!FaithfulMeasurement
  <2>2. WindowPlaced /\ WindowSpaced /\ TimelineShows
    BY <1>1, <2>1, WindowShape
  <2>3. SamplesTrue
    BY <1>1, <2>1, <2>2, SamplesAreTrue
  <2>4. QED
    BY <2>2, <2>3, CostsAreFaithful, PeakIsFaithful, ScaledownIsFaithful
<1>2. HarnessSpec => HarnessSteps
  BY PTL DEF HarnessSpec, HarnessSteps
<1>3. QED
  BY <1>1, <1>2, TimelineInvariant, PTL
-----------------------------------------------------------------------------
(***************************************************************************)
(* The live baseline.  What is assumed of its constants.                   *)
(***************************************************************************)
LEMMA BaselineConstants ==
    /\ MaxCycles \in Nat /\ Interval \in Nat /\ MaxRead \in Nat /\ 0 < Interval
    /\ LoadOnset \in Nat /\ LoadEnd \in Nat /\ ObservationEnd \in Nat
    /\ LoadOnset < LoadEnd /\ LoadEnd < ObservationEnd
  BY HarnessAssumption

(***************************************************************************)
(* The controller is where its log says, and a target that was scaled up   *)
(* was scaled by a busy cycle that none with a decision for one follows.   *)
(***************************************************************************)
ControlTyped ==
    /\ log \in Seq(Observed!Cycle) /\ Len(log) <= MaxCycles
    /\ doing \in {"between", "queried", "decided", "wrote", "scaled"} /\ target \in 1..2
    /\ doing # "between" => log # <<>>
    /\ doing = "queried" => log[Len(log)].decision = 0
    /\ doing = "decided" => /\ log[Len(log)].decision \in target..2
                            /\ log[Len(log)].decision # target => log[Len(log)].query = "busy"

RaisedBy(i) ==
    /\ log[i].decision = 2 /\ log[i].query = "busy"
    /\ \A k \in i + 1 .. Len(log) : log[k].decision # 1

TargetExplained == target = 2 => \E i \in 1..Len(log) : RaisedBy(i)

\* The gate of a target that was not scaled.
GateSound ==
    /\ inflight \in BOOLEAN /\ state \in 0..2 /\ launched \in {0, 1}
    /\ gate_receipt = Observed!NoGate
          \/ gate_receipt \in [anchor : 1..Len(log), cycle : Observed!Cycle]

(***************************************************************************)
(* The rows are in the order of time, one read after the other, each with  *)
(* the count at some time in its read.                                     *)
(***************************************************************************)
Row == [start : Nat, finish : Nat, value : 1..2]

RowsTyped ==
    /\ ready \in Seq(1..2) /\ ready # <<>> /\ rows \in Seq(Row) /\ observer_failed \in BOOLEAN
    /\ read = Observed!NoRead \/ read \in [start : Nat, value : Int]

RowsRead ==
    \A i \in 1..Len(rows) :
       /\ rows[i].start <= rows[i].finish /\ rows[i].finish <= Len(ready) - 1
       /\ rows[i].finish <= rows[i].start + MaxRead
       /\ \E t \in rows[i].start .. rows[i].finish : rows[i].value = ready[t + 1]

RowsApart ==
    \A i \in 2..Len(rows) :
       rows[i - 1].finish < rows[i].finish /\ rows[i - 1].finish <= rows[i].start

ReadSound ==
    read # Observed!NoRead =>
       /\ read.start <= Len(ready) - 1 /\ Len(ready) - 1 <= read.start + MaxRead
       /\ rows # <<>> => rows[Len(rows)].finish <= read.start
       /\ read.value = -1 \/ \E t \in read.start .. Len(ready) - 1 : read.value = ready[t + 1]

BaselineInv ==
    /\ ControlTyped /\ TargetExplained /\ GateSound
    /\ RowsTyped /\ RowsRead /\ RowsApart /\ ReadSound

ControlInv == ControlTyped /\ TargetExplained
RowsInv    == RowsTyped /\ RowsRead /\ RowsApart /\ ReadSound

(***************************************************************************)
(* It holds before the first cycle and the first row.                      *)
(***************************************************************************)
LEMMA BaselineStarts == Observed!BaselineInit => BaselineInv
<1> SUFFICES ASSUME Observed!BaselineInit PROVE BaselineInv
  OBVIOUS
<1>1. /\ inflight \in BOOLEAN /\ log = <<>> /\ doing = "between" /\ target = 1
      /\ state = 0 /\ gate_receipt = Observed!NoGate /\ launched = 0
      /\ ready = <<1>> /\ read = Observed!NoRead /\ rows = <<>> /\ observer_failed = FALSE
  BY DEF Observed!BaselineInit
<1>2. Len(log) = 0 /\ log \in Seq(Observed!Cycle) /\ Len(rows) = 0 /\ rows \in Seq(Row)
  BY <1>1
<1>3. ready \in Seq(1..2) /\ ready # <<>>
  BY <1>1
<1>4. ControlTyped
  BY <1>1, <1>2, BaselineConstants DEF ControlTyped
<1>5. TargetExplained /\ GateSound
  BY <1>1 DEF TargetExplained, GateSound
<1>6. RowsTyped
  BY <1>1, <1>2, <1>3 DEF RowsTyped
<1>7. RowsRead /\ RowsApart /\ ReadSound
  <2>1. 1..0 = {} /\ 2..0 = {}
    OBVIOUS
  <2>2. QED
    BY <1>1, <1>2, <2>1 DEF RowsRead, RowsApart, ReadSound
<1>8. QED
  BY <1>4, <1>5, <1>6, <1>7 DEF BaselineInv

(***************************************************************************)
(* A record changes the newest cycle only.                                 *)
(***************************************************************************)
LEMMA NewestChanges ==
    ASSUME log \in Seq(Observed!Cycle), log # <<>>, NEW field, NEW value,
           [log[Len(log)] EXCEPT ![field] = value] \in Observed!Cycle,
           Observed!Newest(field, value)
    PROVE  /\ log' \in Seq(Observed!Cycle) /\ Len(log') = Len(log) /\ log' # <<>>
           /\ \A i \in 1..Len(log) : i # Len(log) => log'[i] = log[i]
           /\ log'[Len(log)] = [log[Len(log)] EXCEPT ![field] = value]
<1> DEFINE n == Len(log)
           c == [log[n] EXCEPT ![field] = value]
<1>1. log' = [log EXCEPT ![n] = c]
  BY DEF Observed!Newest
<1>2. n \in 1..n /\ DOMAIN log = 1..n /\ c \in Observed!Cycle /\ n \in Nat
  OBVIOUS
<1> HIDE DEF c
<1>3. log' \in Seq(Observed!Cycle) /\ Len(log') = n
  BY <1>1, <1>2
<1>4. log'[n] = c /\ \A i \in 1..n : i # n => log'[i] = log[i]
  BY <1>1, <1>2
<1>5. log' # <<>>
  BY <1>2, <1>3
<1>6. QED
  BY <1>3, <1>4, <1>5 DEF c

(***************************************************************************)
(* The controller keeps its part.                                          *)
(***************************************************************************)
LEMMA ControllerKeeps ==
    ASSUME ControlInv,
           Observed!LogQuery \/ Observed!LogDecision \/ Observed!Write
             \/ Observed!LogScale \/ Observed!LogFinish
    PROVE  ControlInv' /\ Len(log') >= Len(log)
<1> DEFINE n == Len(log)
<1>1. /\ log \in Seq(Observed!Cycle) /\ n <= MaxCycles /\ n \in Nat /\ target \in 1..2
      /\ doing # "between" => log # <<>>
      /\ doing = "queried" => log[n].decision = 0
      /\ doing = "decided" => /\ log[n].decision \in target..2
                              /\ log[n].decision # target => log[n].query = "busy"
      /\ MaxCycles \in Nat
  BY BaselineConstants DEF ControlInv, ControlTyped
<1>2. target = 2 => \E i \in 1..n : RaisedBy(i)
  BY DEF ControlInv, TargetExplained
<1>3. \A i \in 1..n : log[i] \in Observed!Cycle
  BY <1>1
<1>4. CASE Observed!LogQuery
  <2>1. PICK query \in {"idle", "busy", "error"} :
            log' = Append(log, [query |-> query, decision |-> 0, scale |-> FALSE,
                                finish |-> "none"])
    BY <1>4 DEF Observed!LogQuery
  <2> DEFINE c == [query |-> query, decision |-> 0, scale |-> FALSE, finish |-> "none"]
  <2>2. /\ n < MaxCycles /\ doing' = "queried" /\ target' = target
    BY <1>4 DEF Observed!LogQuery
  <2>3. c \in Observed!Cycle /\ c.decision = 0
    BY DEF Observed!Cycle
  <2>4. log' = Append(log, c)
    BY <2>1
  <2> HIDE DEF c
  <2>5. /\ log' \in Seq(Observed!Cycle) /\ Len(log') = n + 1 /\ log'[n + 1] = c /\ log' # <<>>
        /\ \A i \in 1..n : log'[i] = log[i]
    BY <1>1, <2>3, <2>4
  <2>6. ControlTyped'
    BY <1>1, <2>2, <2>3, <2>5 DEF ControlTyped
  <2>7. TargetExplained'
    <3>1. ASSUME target' = 2 PROVE \E i \in 1..Len(log') : RaisedBy(i)'
      <4>1. PICK i \in 1..n : RaisedBy(i)
        BY <1>2, <2>2, <3>1
      <4>2. i \in 1..(n + 1) /\ i \in Nat
        BY <1>1
      <4>3. ASSUME NEW k \in i + 1 .. n + 1 PROVE log'[k].decision # 1
        <5>1. k \in i + 1 .. n \/ k = n + 1
          BY <1>1, <4>2
        <5>2. k \in i + 1 .. n => k \in 1..n /\ log[k].decision # 1
          BY <1>1, <4>1, <4>2 DEF RaisedBy
        <5>3. QED
          BY <2>3, <2>5, <5>1, <5>2
      <4>4. RaisedBy(i)'
        BY <2>5, <4>1, <4>3 DEF RaisedBy
      <4>5. QED
        BY <2>5, <4>2, <4>4
    <3>2. QED
      BY <3>1 DEF TargetExplained
  <2>8. QED
    BY <1>1, <2>5, <2>6, <2>7 DEF ControlInv
<1>5. CASE Observed!LogDecision
  <2>1. PICK final \in (IF log[n].query = "busy" THEN target..2 ELSE {target}) :
            Observed!Newest("decision", final)
    BY <1>5 DEF Observed!LogDecision
  <2>2. doing = "queried" /\ doing' = "decided" /\ target' = target
    BY <1>5 DEF Observed!LogDecision
  <2>3. /\ final \in target..2 /\ final \in 0..2 /\ (final # target => log[n].query = "busy")
        /\ log # <<>> /\ log[n].decision = 0 /\ n \in 1..n
    BY <1>1, <2>1, <2>2
  <2>4. /\ [log[n] EXCEPT !["decision"] = final] \in Observed!Cycle
        /\ [log[n] EXCEPT !["decision"] = final].decision = final
        /\ [log[n] EXCEPT !["decision"] = final].query = log[n].query
    BY <1>3, <2>3 DEF Observed!Cycle
  <2>5. /\ log' \in Seq(Observed!Cycle) /\ Len(log') = n /\ log' # <<>>
        /\ \A i \in 1..n : i # n => log'[i] = log[i]
        /\ log'[n] = [log[n] EXCEPT !["decision"] = final]
    BY <1>1, <2>1, <2>3, <2>4, NewestChanges
  <2>6. log'[n].decision = final /\ log'[n].query = log[n].query
    BY <2>4, <2>5
  <2>7. ControlTyped'
    BY <1>1, <2>2, <2>3, <2>5, <2>6 DEF ControlTyped
  <2>8. TargetExplained'
    <3>1. ASSUME target' = 2 PROVE \E i \in 1..Len(log') : RaisedBy(i)'
      <4>1. PICK i \in 1..n : RaisedBy(i)
        BY <1>2, <2>2, <3>1
      <4>2. i # n /\ final = 2 /\ i \in Nat
        BY <2>2, <2>3, <3>1, <4>1 DEF RaisedBy
      <4>3. ASSUME NEW k \in i + 1 .. n PROVE log'[k].decision # 1
        <5>1. k \in 1..n /\ log[k].decision # 1
          BY <1>1, <4>1, <4>2 DEF RaisedBy
        <5>2. CASE k = n
          BY <2>6, <4>2, <5>2
        <5>3. CASE k # n
          BY <2>5, <5>1, <5>3
        <5>4. QED
          BY <5>2, <5>3
      <4>4. RaisedBy(i)'
        BY <2>5, <4>1, <4>2, <4>3 DEF RaisedBy
      <4>5. QED
        BY <2>5, <4>4
    <3>2. QED
      BY <3>1 DEF TargetExplained
  <2>9. QED
    BY <1>1, <2>5, <2>7, <2>8 DEF ControlInv
<1>6. CASE Observed!Write
  <2>1. /\ doing = "decided" /\ log[n].decision # target /\ doing' = "wrote"
        /\ target' = log[n].decision /\ log' = log
    BY <1>6 DEF Observed!Write
  <2>2. /\ log[n].decision = 2 /\ log[n].query = "busy" /\ log # <<>> /\ n \in 1..n
        /\ n + 1 .. n = {}
    BY <1>1, <2>1
  <2>3. ControlTyped'
    BY <1>1, <2>1, <2>2 DEF ControlTyped
  <2>4. RaisedBy(n)'
    BY <2>1, <2>2 DEF RaisedBy
  <2>5. QED
    BY <1>1, <2>1, <2>2, <2>3, <2>4 DEF ControlInv, TargetExplained
<1>7. ASSUME NEW field \in {"scale", "finish"}, NEW value, Observed!Newest(field, value),
             field = "scale" => value \in BOOLEAN,
             field = "finish" => value \in {"none", "ok", "error"},
             doing # "between", doing' \in {"scaled", "between"}, target' = target
      PROVE  ControlInv' /\ Len(log') >= Len(log)
  <2>1. n \in 1..n /\ log # <<>>
    BY <1>1, <1>7
  <2>2. /\ [log[n] EXCEPT ![field] = value] \in Observed!Cycle
        /\ [log[n] EXCEPT ![field] = value].decision = log[n].decision
        /\ [log[n] EXCEPT ![field] = value].query = log[n].query
    <3>1. log[n] \in Observed!Cycle
      BY <1>3, <2>1
    <3>2. CASE field = "scale"
      BY <1>7, <3>1, <3>2, ZenonT(30) DEF Observed!Cycle
    <3>3. CASE field = "finish"
      BY <1>7, <3>1, <3>3, ZenonT(30) DEF Observed!Cycle
    <3>4. QED
      BY <3>2, <3>3
  <2>3. /\ log' \in Seq(Observed!Cycle) /\ Len(log') = n /\ log' # <<>>
        /\ \A i \in 1..n : i # n => log'[i] = log[i]
        /\ log'[n] = [log[n] EXCEPT ![field] = value]
    BY <1>1, <1>7, <2>1, <2>2, NewestChanges
  <2>4. \A i \in 1..n : log'[i].decision = log[i].decision /\ log'[i].query = log[i].query
    BY <2>2, <2>3
  <2>5. ControlTyped'
    BY <1>1, <1>7, <2>3 DEF ControlTyped
  <2>6. ASSUME NEW i \in 1..n, RaisedBy(i) PROVE RaisedBy(i)'
    <3>1. ASSUME NEW k \in i + 1 .. n PROVE log'[k].decision # 1
      <4>1. k \in 1..n /\ log[k].decision # 1
        BY <1>1, <2>6 DEF RaisedBy
      <4>2. QED
        BY <2>4, <4>1
    <3>2. QED
      BY <2>3, <2>4, <2>6, <3>1 DEF RaisedBy
  <2>7. QED
    BY <1>1, <1>2, <1>7, <2>3, <2>5, <2>6 DEF ControlInv, TargetExplained
<1>8. CASE Observed!LogScale
  <2>1. doing = "wrote" /\ doing' = "scaled" /\ target' = target /\ Observed!Newest("scale", TRUE)
    BY <1>8 DEF Observed!LogScale
  <2>2. QED
    BY <1>7, <2>1
<1>9. CASE Observed!LogFinish
  <2>1. /\ doing # "between" /\ doing' = "between" /\ target' = target
        /\ \E finish \in {"ok", "error"} : Observed!Newest("finish", finish)
    BY <1>9 DEF Observed!LogFinish
  <2>2. QED
    BY <1>7, <2>1
<1>10. QED
  BY <1>4, <1>5, <1>6, <1>8, <1>9

(***************************************************************************)
(* The newest complete cycle.                                              *)
(***************************************************************************)
LEMMA NewestCompleteIs ==
    ASSUME log \in Seq(Observed!Cycle)
    PROVE  Observed!NewestComplete(log) \in 0..Len(log)
<1> DEFINE n == Len(log)
           T == {0} \cup {i \in DOMAIN log : log[i].finish # "none"}
<1>1. n \in Nat /\ DOMAIN log = 1..n
  OBVIOUS
<1>2. T \subseteq 0..n /\ 0 \in T
  BY <1>1
<1>3. T \subseteq Nat /\ T \subseteq Int /\ T # {} /\ \A x \in T : x <= n
  <2> HIDE DEF T, n
  <2>1. QED
    BY <1>1, <1>2
<1>4. Observed!NewestComplete(log) = CHOOSE x \in T : \A y \in T : x >= y
  BY DEF Observed!NewestComplete, Observed!Max
<1> HIDE DEF T, n
<1>5. PICK m \in T : \A x \in T : x <= m
  BY <1>1, <1>3, GreatestElement
<1>6. Observed!NewestComplete(log) = m
  BY <1>3, <1>4, <1>5, ChosenGreatest
<1>7. QED
  BY <1>2, <1>5, <1>6 DEF n

(***************************************************************************)
(* The gate opens on a target that was not scaled: a busy cycle that       *)
(* raised it would be the newest, or among those that follow the anchor    *)
(* and must be idle, or before it, and then its decision would not be one. *)
(***************************************************************************)
LEMMA GateOpensUnscaled ==
    ASSUME ControlInv, GateSound, Observed!ReadState \/ Observed!Judge
    PROVE  GateSound'
<1> DEFINE n == Len(log)
<1>1. log \in Seq(Observed!Cycle) /\ n \in Nat /\ target \in 1..2
  BY DEF ControlInv, ControlTyped
<1>2. /\ inflight \in BOOLEAN /\ state \in 0..2 /\ launched \in {0, 1}
      /\ gate_receipt = Observed!NoGate
           \/ gate_receipt \in [anchor : 1..n, cycle : Observed!Cycle]
  BY DEF GateSound
<1>3. CASE Observed!ReadState
  <2>1. /\ state' = target /\ inflight' = inflight /\ launched' = launched
        /\ gate_receipt' = gate_receipt /\ log' = log
    BY <1>3 DEF Observed!ReadState, Observed!controller
  <2>2. QED
    BY <1>1, <1>2, <2>1 DEF GateSound
<1>4. CASE Observed!Judge
  <2> DEFINE anchored == Observed!Anchor(log)
  <2>1. /\ state' = 0 /\ inflight' = inflight /\ log' = log
        /\ \/ gate_receipt' = gate_receipt /\ launched' = launched
           \/ /\ anchored # 0 /\ Observed!Warm(log[anchored])
              /\ gate_receipt' = [anchor |-> anchored, cycle |-> log[anchored]]
              /\ launched' = target
    BY <1>4 DEF Observed!Judge, Observed!controller
  <2>2. CASE gate_receipt' = gate_receipt /\ launched' = launched
    BY <1>1, <1>2, <2>1, <2>2 DEF GateSound
  <2>3. CASE /\ anchored # 0 /\ Observed!Warm(log[anchored])
             /\ gate_receipt' = [anchor |-> anchored, cycle |-> log[anchored]]
             /\ launched' = target
    <3>1. /\ anchored \in 0..n
          /\ ~inflight => anchored = n
          /\ inflight => \A i \in anchored + 1 .. n : Observed!StillIdle(log[i])
      <4>1. Observed!NewestComplete(log) \in 0..n
        BY <1>1, NewestCompleteIs
      <4>2. CASE ~inflight
        <5>1. anchored = n
          BY <4>2 DEF Observed!Anchor
        <5>2. QED
          BY <1>1, <4>2, <5>1
      <4>3. CASE inflight
        <5>1. /\ anchored = Observed!NewestComplete(log)
              /\ \A i \in Observed!NewestComplete(log) + 1 .. n : Observed!StillIdle(log[i])
          BY <2>3, <4>3 DEF Observed!Anchor
        <5>2. QED
          BY <4>1, <4>3, <5>1
      <4>4. QED
        BY <4>2, <4>3
    <3> HIDE DEF anchored
    <3>2. anchored \in 1..n /\ log[anchored].decision = 1 /\ log[anchored] \in Observed!Cycle
      BY <1>1, <2>3, <3>1 DEF Observed!Warm
    <3>3. ASSUME target = 2 PROVE FALSE
      <4>1. PICK i \in 1..n : RaisedBy(i)
        BY <3>3 DEF ControlInv, TargetExplained
      <4>2. /\ log[i].decision = 2 /\ log[i].query = "busy"
            /\ \A k \in i + 1 .. n : log[k].decision # 1
        BY <4>1 DEF RaisedBy
      <4>3. i # anchored /\ ~(anchored \in i + 1 .. n)
        BY <3>2, <4>2
      <4>4. i \in anchored + 1 .. n
        BY <1>1, <3>2, <4>3
      <4>5. inflight
        BY <1>1, <3>1, <3>2, <4>4
      <4>6. Observed!StillIdle(log[i])
        BY <3>1, <4>4, <4>5
      <4>7. QED
        BY <4>2, <4>6 DEF Observed!StillIdle
    <3>4. launched' \in {0, 1}
      BY <1>1, <2>3, <3>3
    <3>5. gate_receipt' \in [anchor : 1..n, cycle : Observed!Cycle]
      BY <2>3, <3>2
    <3>6. QED
      BY <1>2, <2>1, <3>4, <3>5 DEF GateSound
  <2>4. QED
    BY <2>1, <2>2, <2>3
<1>5. QED
  BY <1>3, <1>4

(***************************************************************************)
(* Time passes: what was read of the past stays true.                      *)
(***************************************************************************)
LEMMA TickKeeps == RowsInv /\ Observed!Tick => RowsInv'
<1> SUFFICES ASSUME RowsInv, Observed!Tick PROVE RowsInv'
  OBVIOUS
<1> DEFINE n == Len(ready)
           NoR == Observed!NoRead
<1>1. /\ rows' = rows /\ read' = read /\ observer_failed' = observer_failed
      /\ read # NoR => n - 1 < read.start + MaxRead
      /\ \E count \in {1, 2} : ready' = Append(ready, count)
  BY DEF Observed!Tick, Observed!Now
<1>2. /\ ready \in Seq(1..2) /\ ready # <<>> /\ rows \in Seq(Row)
      /\ observer_failed \in BOOLEAN
      /\ read = NoR \/ read \in [start : Nat, value : Int]
      /\ n \in Nat /\ n >= 1
  BY DEF RowsInv, RowsTyped
<1>3. PICK count \in 1..2 : ready' = Append(ready, count)
  BY <1>1
<1>4. /\ ready' \in Seq(1..2) /\ Len(ready') = n + 1 /\ ready' # <<>>
      /\ \A t \in 1..n : ready'[t] = ready[t]
  BY <1>2, <1>3
<1> HIDE DEF n, NoR
<1>5. \A i \in 1..Len(rows) : rows[i].start \in Nat /\ rows[i].finish \in Nat
  <2>1. \A i \in 1..Len(rows) : rows[i] \in Row
    BY <1>2
  <2>2. QED
    BY <2>1 DEF Row
<1>6. RowsTyped'
  BY <1>1, <1>2, <1>4 DEF RowsTyped, NoR
<1>7. RowsRead'
  <2>1. ASSUME NEW i \in 1..Len(rows)
        PROVE  /\ rows[i].start <= rows[i].finish /\ rows[i].finish <= Len(ready') - 1
               /\ rows[i].finish <= rows[i].start + MaxRead
               /\ \E t \in rows[i].start .. rows[i].finish : rows[i].value = ready'[t + 1]
    <3>1. /\ rows[i].start <= rows[i].finish /\ rows[i].finish <= n - 1
          /\ rows[i].finish <= rows[i].start + MaxRead
      BY DEF RowsInv, RowsRead, n
    <3>2. PICK t \in rows[i].start .. rows[i].finish : rows[i].value = ready[t + 1]
      BY DEF RowsInv, RowsRead
    <3>3. t + 1 \in 1..n /\ rows[i].finish <= (n + 1) - 1
      BY <1>2, <1>5, <3>1
    <3>4. rows[i].value = ready'[t + 1]
      BY <1>4, <3>2, <3>3
    <3>5. QED
      BY <1>4, <3>1, <3>3, <3>4
  <2>2. QED
    BY <1>1, <2>1 DEF RowsRead
<1>8. RowsApart'
  BY <1>1 DEF RowsInv, RowsApart
<1>9. ReadSound'
  <2>1. ASSUME read # NoR
        PROVE  /\ read.start <= Len(ready') - 1 /\ Len(ready') - 1 <= read.start + MaxRead
               /\ rows # <<>> => rows[Len(rows)].finish <= read.start
               /\ read.value = -1 \/ \E t \in read.start .. Len(ready') - 1 :
                                        read.value = ready'[t + 1]
    <3>1. /\ read.start <= n - 1
          /\ rows # <<>> => rows[Len(rows)].finish <= read.start
          /\ read.value = -1 \/ \E t \in read.start .. n - 1 : read.value = ready[t + 1]
      BY <2>1 DEF RowsInv, ReadSound, n, NoR
    <3>2. read.start \in Nat /\ n - 1 < read.start + MaxRead
      BY <1>1, <1>2, <2>1
    <3>3. read.start <= (n + 1) - 1 /\ (n + 1) - 1 <= read.start + MaxRead
      BY <1>2, <3>1, <3>2, BaselineConstants
    <3>4. ASSUME NEW t \in read.start .. n - 1
          PROVE  t \in read.start .. (n + 1) - 1 /\ ready'[t + 1] = ready[t + 1]
      <4>1. t + 1 \in 1..n
        BY <1>2, <3>2
      <4>2. QED
        BY <1>2, <1>4, <3>2, <4>1
    <3>5. QED
      BY <1>4, <3>1, <3>3, <3>4
  <2>2. QED
    BY <1>1, <2>1 DEF ReadSound, NoR
<1>10. QED
  BY <1>6, <1>7, <1>8, <1>9 DEF RowsInv

(***************************************************************************)
(* A read begins and is answered.                                          *)
(***************************************************************************)
LEMMA ReadsKeep == RowsInv /\ (Observed!BeginRead \/ Observed!Answer) => RowsInv'
<1> SUFFICES ASSUME RowsInv, Observed!BeginRead \/ Observed!Answer PROVE RowsInv'
  OBVIOUS
<1> DEFINE n == Len(ready)
<1>1. /\ rows' = rows /\ ready' = ready /\ observer_failed' = observer_failed
  BY DEF Observed!BeginRead, Observed!Answer
<1>2. /\ ready \in Seq(1..2) /\ ready # <<>> /\ rows \in Seq(Row)
      /\ observer_failed \in BOOLEAN
      /\ read = Observed!NoRead \/ read \in [start : Nat, value : Int]
      /\ n \in Nat /\ n >= 1
  BY DEF RowsInv, RowsTyped
<1>3. CASE Observed!BeginRead
  <2>1. read' = [start |-> n - 1, value |-> -1]
    BY <1>3 DEF Observed!BeginRead, Observed!Now, Observed!Unknown
  <2>2. read' \in [start : Nat, value : Int] /\ read'.start = n - 1 /\ read'.value = -1
    BY <1>2, <2>1
  <2>3. rows # <<>> => rows[Len(rows)].finish <= n - 1
    <3>1. rows # <<>> => Len(rows) \in 1..Len(rows)
      BY <1>2
    <3>2. QED
      BY <3>1 DEF RowsInv, RowsRead
  <2>4. n - 1 <= n - 1 /\ n - 1 <= (n - 1) + MaxRead
    BY <1>2, BaselineConstants
  <2> HIDE DEF n
  <2>5. RowsTyped' /\ ReadSound'
    BY <1>1, <1>2, <2>2, <2>3, <2>4 DEF RowsTyped, ReadSound, n
  <2>6. RowsRead' /\ RowsApart'
    BY <1>1 DEF RowsInv, RowsRead, RowsApart
  <2>7. QED
    BY <2>5, <2>6 DEF RowsInv
<1>4. CASE Observed!Answer
  <2>1. read # Observed!NoRead /\ read' = [read EXCEPT !.value = ready[n]]
    BY <1>4 DEF Observed!Answer
  <2>2. ready[n] \in Int /\ n - 1 + 1 = n
    BY <1>2
  <2>3. /\ read' \in [start : Nat, value : Int] /\ read'.start = read.start
        /\ read'.value = ready[n] /\ read.start \in Nat
    BY <1>2, <2>1, <2>2
  <2>4. /\ read.start <= n - 1 /\ n - 1 <= read.start + MaxRead
        /\ rows # <<>> => rows[Len(rows)].finish <= read.start
    BY <2>1 DEF RowsInv, ReadSound
  <2>5. n - 1 \in read.start .. n - 1 /\ ready[n] = ready[(n - 1) + 1]
    BY <1>2, <2>3, <2>4
  <2> HIDE DEF n
  <2>6. RowsTyped' /\ ReadSound'
    BY <1>1, <1>2, <2>3, <2>4, <2>5 DEF RowsTyped, ReadSound, n
  <2>7. RowsRead' /\ RowsApart'
    BY <1>1 DEF RowsInv, RowsRead, RowsApart
  <2>8. QED
    BY <2>6, <2>7 DEF RowsInv
<1>5. QED
  BY <1>3, <1>4

(***************************************************************************)
(* A read ends with a row or with the observer.                            *)
(***************************************************************************)
LEMMA EndReadKeeps == RowsInv /\ Observed!EndRead => RowsInv'
<1> SUFFICES ASSUME RowsInv, Observed!EndRead PROVE RowsInv'
  OBVIOUS
<1> DEFINE n == Len(ready)
           m == Len(rows)
           s == [start |-> read.start, finish |-> n - 1, value |-> read.value]
<1>1. /\ read # Observed!NoRead /\ read' = Observed!NoRead /\ ready' = ready
      /\ \/ /\ read.value # -1 /\ observer_failed' = observer_failed
            /\ rows # <<>> => n - 1 > rows[m].finish
            /\ rows' = Append(rows, s)
         \/ observer_failed' = TRUE /\ rows' = rows
  BY DEF Observed!EndRead, Observed!Now, Observed!Unknown
<1>2. /\ ready \in Seq(1..2) /\ ready # <<>> /\ rows \in Seq(Row)
      /\ observer_failed \in BOOLEAN /\ read \in [start : Nat, value : Int]
      /\ n \in Nat /\ n >= 1 /\ m \in Nat /\ read.start \in Nat
  BY <1>1 DEF RowsInv, RowsTyped
<1>3. /\ read.start <= n - 1 /\ n - 1 <= read.start + MaxRead
      /\ rows # <<>> => rows[m].finish <= read.start
      /\ read.value = -1 \/ \E t \in read.start .. n - 1 : read.value = ready[t + 1]
  BY <1>1 DEF RowsInv, ReadSound
<1>4. ReadSound'
  BY <1>1 DEF ReadSound
<1>5. CASE observer_failed' = TRUE /\ rows' = rows
  <2>1. RowsTyped'
    BY <1>1, <1>2, <1>5 DEF RowsTyped
  <2>2. RowsRead' /\ RowsApart'
    BY <1>1, <1>5 DEF RowsInv, RowsRead, RowsApart
  <2>3. QED
    BY <1>4, <2>1, <2>2 DEF RowsInv
<1>6. CASE /\ read.value # -1 /\ observer_failed' = observer_failed
           /\ rows # <<>> => n - 1 > rows[m].finish
           /\ rows' = Append(rows, s)
  <2>1. PICK t \in read.start .. n - 1 : read.value = ready[t + 1]
    BY <1>3, <1>6
  <2>2. t + 1 \in 1..n
    BY <1>2
  <2>3. read.value \in 1..2
    <3> DEFINE counts == 1..2
    <3>1. ready \in Seq(counts)
      BY <1>2
    <3> HIDE DEF counts
    <3>2. ready[t + 1] \in counts
      BY <2>2, <3>1
    <3>3. QED
      BY <2>1, <3>2 DEF counts
  <2>4. s \in Row /\ s.start = read.start /\ s.finish = n - 1 /\ s.value = read.value
    BY <1>2, <2>3 DEF Row
  <2>5. rows' = Append(rows, s)
    BY <1>6
  <2> HIDE DEF s
  <2>6. /\ rows' \in Seq(Row) /\ Len(rows') = m + 1 /\ rows'[m + 1] = s
        /\ \A i \in 1..m : rows'[i] = rows[i]
    BY <1>2, <2>4, <2>5
  <2> HIDE DEF n, m
  <2>7. \A i \in 1..(m + 1) : i \in 1..m \/ i = m + 1
    BY <1>2
  <2>8. RowsTyped'
    BY <1>1, <1>2, <1>6, <2>6 DEF RowsTyped
  <2>9. RowsRead'
    <3>1. ASSUME NEW i \in 1..(m + 1)
          PROVE  /\ rows'[i].start <= rows'[i].finish /\ rows'[i].finish <= n - 1
                 /\ rows'[i].finish <= rows'[i].start + MaxRead
                 /\ \E u \in rows'[i].start .. rows'[i].finish : rows'[i].value = ready[u + 1]
      <4>1. CASE i \in 1..m
        BY <2>6, <4>1 DEF RowsInv, RowsRead, n, m
      <4>2. CASE i = m + 1
        BY <1>2, <1>3, <2>1, <2>4, <2>6, <4>2
      <4>3. QED
        BY <2>7, <4>1, <4>2
    <3>2. QED
      BY <1>1, <2>6, <3>1 DEF RowsRead, n
  <2>10. RowsApart'
    <3>1. ASSUME NEW i \in 2..(m + 1)
          PROVE  rows'[i - 1].finish < rows'[i].finish /\ rows'[i - 1].finish <= rows'[i].start
      <4>1. CASE i \in 2..m
        <5>1. i \in 1..m /\ i - 1 \in 1..m
          BY <1>2, <4>1
        <5>2. rows[i - 1].finish < rows[i].finish /\ rows[i - 1].finish <= rows[i].start
          BY <4>1 DEF RowsInv, RowsApart, m
        <5>3. QED
          BY <2>6, <5>1, <5>2
      <4>2. CASE i = m + 1
        <5>1. i - 1 = m /\ m \in 1..m /\ rows # <<>>
          BY <1>2, <4>2 DEF m
        <5>2. rows'[i - 1] = rows[m] /\ rows'[i] = s
          BY <2>6, <4>2, <5>1
        <5>3. rows[m].finish < n - 1 /\ rows[m].finish <= read.start
          <6>1. rows[m].finish \in Nat
            <7>1. rows[m] \in Row
              BY <1>2, <5>1 DEF m
            <7>2. QED
              BY <7>1 DEF Row
          <6>2. QED
            BY <1>2, <1>3, <1>6, <5>1, <6>1
        <5>4. QED
          BY <2>4, <5>2, <5>3
      <4>3. QED
        BY <1>2, <4>1, <4>2
    <3>2. QED
      BY <2>6, <3>1 DEF RowsApart
  <2>11. QED
    BY <1>4, <2>8, <2>9, <2>10 DEF RowsInv
<1>7. QED
  BY <1>1, <1>5, <1>6

(***************************************************************************)
(* What the other parts do leaves a part as it is.                         *)
(***************************************************************************)
LEMMA BaselineStays ==
    BaselineInv /\ [Observed!BaselineNext]_Observed!baselineVars => BaselineInv'
<1> SUFFICES ASSUME BaselineInv, [Observed!BaselineNext]_Observed!baselineVars
             PROVE  BaselineInv'
  OBVIOUS
<1>1. ControlInv /\ GateSound /\ RowsInv
  BY DEF BaselineInv, ControlInv, RowsInv
<1>2. SUFFICES ControlInv' /\ GateSound' /\ RowsInv'
  BY DEF BaselineInv, ControlInv, RowsInv
<1>3. UNCHANGED <<log, doing, target>> => ControlInv'
  BY <1>1 DEF ControlInv, ControlTyped, TargetExplained, RaisedBy
<1>4. UNCHANGED <<inflight, state, gate_receipt, launched>> /\ Len(log') >= Len(log) => GateSound'
  <2>1. ASSUME UNCHANGED <<inflight, state, gate_receipt, launched>>, Len(log') >= Len(log)
        PROVE  GateSound'
    <3>1. Len(log) \in Nat
      BY <1>1 DEF ControlInv, ControlTyped
    <3>2. 1..Len(log) \subseteq 1..Len(log')
      BY <2>1, <3>1
    <3>3. ASSUME gate_receipt \in [anchor : 1..Len(log), cycle : Observed!Cycle]
          PROVE  gate_receipt \in [anchor : 1..Len(log'), cycle : Observed!Cycle]
      BY <3>2, <3>3
    <3>4. QED
      BY <1>1, <2>1, <3>3 DEF GateSound
  <2>2. QED
    BY <2>1
<1>5. UNCHANGED <<ready, read, rows, observer_failed>> => RowsInv'
  BY <1>1 DEF RowsInv, RowsTyped, RowsRead, RowsApart, ReadSound
<1>6. log' = log => Len(log') >= Len(log)
  <2>1. Len(log) \in Nat
    BY <1>1 DEF ControlInv, ControlTyped
  <2>2. QED
    BY <2>1
<1>7. CASE UNCHANGED Observed!baselineVars
  <2>1. /\ UNCHANGED <<log, doing, target>> /\ UNCHANGED <<inflight, state, gate_receipt, launched>>
        /\ UNCHANGED <<ready, read, rows, observer_failed>>
    BY <1>7 DEF Observed!baselineVars
  <2>2. QED
    BY <1>3, <1>4, <1>5, <1>6, <2>1
<1>8. CASE Observed!LogQuery \/ Observed!LogDecision \/ Observed!Write
             \/ Observed!LogScale \/ Observed!LogFinish
  <2>1. ControlInv' /\ Len(log') >= Len(log)
    BY <1>1, <1>8, ControllerKeeps
  <2>2. /\ UNCHANGED <<inflight, state, gate_receipt, launched>>
        /\ UNCHANGED <<ready, read, rows, observer_failed>>
    BY <1>8 DEF Observed!LogQuery, Observed!LogDecision, Observed!Write, Observed!LogScale,
                Observed!LogFinish, Observed!observer, Observed!load
  <2>3. QED
    BY <1>4, <1>5, <2>1, <2>2
<1>9. CASE Observed!ReadState \/ Observed!Judge
  <2>1. UNCHANGED <<log, doing, target>> /\ UNCHANGED <<ready, read, rows, observer_failed>>
    BY <1>9 DEF Observed!ReadState, Observed!Judge, Observed!controller, Observed!load
  <2>2. QED
    BY <1>1, <1>3, <1>5, <1>9, <2>1, GateOpensUnscaled
<1>10. CASE Observed!Tick \/ Observed!BeginRead \/ Observed!Answer \/ Observed!EndRead
  <2>1. /\ UNCHANGED <<log, doing, target>> /\ UNCHANGED <<inflight, state, gate_receipt, launched>>
    BY <1>10 DEF Observed!Tick, Observed!BeginRead, Observed!Answer, Observed!EndRead,
                 Observed!controller, Observed!observer
  <2>2. RowsInv'
    BY <1>1, <1>10, TickKeeps, ReadsKeep, EndReadKeeps
  <2>3. QED
    BY <1>3, <1>4, <1>6, <2>1, <2>2
<1>11. QED
  BY <1>7, <1>8, <1>9, <1>10 DEF Observed!BaselineNext

\* The live baseline of the harness is that of LiveBaseline.
LEMMA BaselineRuns ==
    HarnessSteps => Observed!BaselineInit /\ [][Observed!BaselineNext]_Observed!baselineVars
<1>1. HarnessInit => Observed!BaselineInit
  BY DEF HarnessInit
<1>2. [HarnessNext]_harnessVars => [Observed!BaselineNext]_Observed!baselineVars
  BY DEF HarnessNext, harnessVars, evidence, baseline, Observed!baselineVars
<1>3. QED
  BY <1>1, <1>2, PTL DEF HarnessSteps

(***************************************************************************)
(* The log, the gate and the rows are sound in every behaviour.            *)
(***************************************************************************)
LEMMA BaselineInvariant == HarnessSteps => []BaselineInv
  BY BaselineRuns, BaselineStarts, BaselineStays, PTL

(***************************************************************************)
(* The rows end one after the other.                                       *)
(***************************************************************************)
LEMMA RowFacts ==
    ASSUME BaselineInv
    PROVE  /\ Len(rows) \in Nat /\ DOMAIN rows = 1..Len(rows) /\ Len(ready) \in Nat
           /\ \A t \in 0 .. Len(ready) - 1 : ready[t + 1] \in 1..2
           /\ \A i \in 1..Len(rows) :
                 /\ rows[i].start \in Nat /\ rows[i].finish \in Nat /\ rows[i].value \in 1..2
                 /\ rows[i].start <= rows[i].finish /\ rows[i].finish <= Len(ready) - 1
                 /\ rows[i].finish <= rows[i].start + MaxRead
                 /\ \E t \in rows[i].start .. rows[i].finish : rows[i].value = ready[t + 1]
           /\ \A i \in 2..Len(rows) : rows[i - 1].finish <= rows[i].start
           /\ \A i, j \in 1..Len(rows) : i < j => rows[i].finish < rows[j].finish
<1> DEFINE n == Len(rows)
<1>1. /\ n \in Nat /\ DOMAIN rows = 1..n /\ rows \in Seq(Row) /\ ready \in Seq(1..2)
      /\ Len(ready) \in Nat
  BY DEF BaselineInv, RowsTyped
<1>2. ASSUME NEW t \in 0 .. Len(ready) - 1 PROVE ready[t + 1] \in 1..2
  <2> DEFINE counts == 1..2
  <2>1. t + 1 \in 1..Len(ready) /\ ready \in Seq(counts)
    BY <1>1
  <2> HIDE DEF counts
  <2>2. ready[t + 1] \in counts
    BY <2>1
  <2>3. QED
    BY <2>2 DEF counts
<1>3. \A i \in 1..n : rows[i].start \in Nat /\ rows[i].finish \in Nat /\ rows[i].value \in 1..2
  <2>1. \A i \in 1..n : rows[i] \in Row
    BY <1>1
  <2>2. QED
    BY <2>1 DEF Row
<1>4. \A i \in 1..n :
         /\ rows[i].start <= rows[i].finish /\ rows[i].finish <= Len(ready) - 1
         /\ rows[i].finish <= rows[i].start + MaxRead
         /\ \E t \in rows[i].start .. rows[i].finish : rows[i].value = ready[t + 1]
  BY DEF BaselineInv, RowsRead
<1>5. \A i \in 2..n :
         rows[i - 1].finish < rows[i].finish /\ rows[i - 1].finish <= rows[i].start
  BY DEF BaselineInv, RowsApart
<1>6. ASSUME NEW i \in 1..n, NEW j \in 1..n, i < j PROVE rows[i].finish < rows[j].finish
  <2> DEFINE T == {x \in i + 1 .. n : rows[i].finish < rows[x].finish} \cup {i}
  <2>1. i \in Int /\ i + 1 \in Int /\ n \in Int /\ (i + 1) - 1 <= n /\ (i + 1) - 1 = i
    BY <1>1
  <2>2. (i + 1) - 1 \in T
    BY <2>1
  <2>3. ASSUME NEW x \in i + 1 .. n, x - 1 \in T PROVE x \in T
    <3>1. x \in 2..n /\ x \in 1..n /\ x - 1 \in 1..n /\ (x - 1 = i \/ x - 1 # i)
      BY <1>1
    <3>2. rows[x - 1].finish < rows[x].finish
      BY <1>5, <3>1
    <3>3. rows[i].finish <= rows[x - 1].finish
      BY <1>3, <2>3, <3>1
    <3>4. rows[i].finish < rows[x].finish
      BY <1>3, <3>1, <3>2, <3>3
    <3>5. QED
      BY <3>4
  <2>4. ((i + 1) - 1)..n \subseteq T
    <3> HIDE DEF T, n
    <3>1. QED
      BY <2>1, <2>2, <2>3, RangeInduction
  <2>5. j \in ((i + 1) - 1)..n /\ j # i
    BY <1>1, <1>6
  <2>6. QED
    BY <2>4, <2>5
<1>7. QED
  BY <1>1, <1>2, <1>3, <1>4, <1>5, <1>6

(***************************************************************************)
(* The growth reported happened in the interval reported: the read before  *)
(* saw no more than the baseline, the read after saw more.                 *)
(***************************************************************************)
LEMMA GrowthIsFaithful ==
    ASSUME BaselineInv, Observed!Validated, Observed!Grown # {}
    PROVE  \E t \in Observed!FirstGrowth.from + 1 .. Observed!FirstGrowth.to :
              /\ ready[t] <= rows[Observed!Baseline].value
              /\ rows[Observed!Baseline].value < ready[t + 1]
<1> DEFINE n == Len(rows)
           B == Observed!Baseline
           quiet == {i \in DOMAIN rows : rows[i].finish <= LoadOnset}
           G == Observed!Grown
<1>1. /\ n \in Nat /\ DOMAIN rows = 1..n /\ Len(ready) \in Nat
      /\ \A t \in 0 .. Len(ready) - 1 : ready[t + 1] \in 1..2
      /\ \A i \in 1..n :
            /\ rows[i].start \in Nat /\ rows[i].finish \in Nat /\ rows[i].value \in 1..2
            /\ rows[i].start <= rows[i].finish /\ rows[i].finish <= Len(ready) - 1
            /\ \E t \in rows[i].start .. rows[i].finish : rows[i].value = ready[t + 1]
      /\ \A i \in 2..n : rows[i - 1].finish <= rows[i].start
  BY RowFacts
<1>2. rows # <<>> /\ rows[1].finish <= LoadOnset
  BY DEF Observed!Validated
<1>3. B \in 1..n
  <2>1. 1 \in 1..n
    BY <1>1, <1>2
  <2>2. quiet \subseteq 1..n /\ 1 \in quiet
    BY <1>1, <1>2, <2>1
  <2>3. B = CHOOSE x \in quiet : \A y \in quiet : x >= y
    BY DEF Observed!Baseline, Observed!Max
  <2> HIDE DEF quiet, B, n
  <2>4. quiet \subseteq Nat /\ quiet \subseteq Int /\ quiet # {} /\ \A x \in quiet : x <= n
    BY <1>1, <2>2
  <2>5. PICK m \in quiet : \A x \in quiet : x <= m
    BY <1>1, <2>4, GreatestElement
  <2>6. B = m
    BY <2>3, <2>4, <2>5, ChosenGreatest
  <2>7. QED
    BY <2>2, <2>5, <2>6
<1>4. G = {i \in B + 1 .. n : rows[i].value > rows[B].value}
  BY DEF Observed!Grown
<1>5. Observed!Min(G) = CHOOSE x \in G : \A y \in G : x =< y
  BY DEF Observed!Min
<1>6. Observed!FirstGrowth = [from |-> rows[Observed!Min(G) - 1].start,
                              to |-> rows[Observed!Min(G)].finish]
  BY DEF Observed!FirstGrowth, Observed!GrowthInterval
<1> HIDE DEF n, B, G, quiet
<1>7. PICK j \in G : \A x \in G : j <= x
  <2>1. G # {}
    BY DEF G
  <2>2. G \subseteq Nat
    BY <1>1, <1>3, <1>4
  <2>3. QED
    BY <2>1, <2>2, LeastElement
<1>8. Observed!Min(G) = j
  <2>1. G \subseteq Int
    BY <1>1, <1>3, <1>4
  <2>2. QED
    BY <1>5, <1>7, <2>1, ChosenLeast
<1> DEFINE base == rows[B].value
<1>9. /\ j \in B + 1 .. n /\ rows[j].value > base /\ base \in 1..2
      /\ j \in 1..n /\ j - 1 \in 1..n /\ j \in 2..n
  BY <1>1, <1>3, <1>4, <1>7
<1>10. rows[j - 1].value <= base
  <2>1. j - 1 = B \/ j - 1 \in B + 1 .. n
    BY <1>1, <1>3, <1>9
  <2>2. j - 1 \notin G
    <3>1. j \in Int /\ ~(j <= j - 1)
      BY <1>9
    <3>2. QED
      BY <1>7, <3>1
  <2>3. rows[j - 1].value \in 1..2
    BY <1>1, <1>9
  <2>4. QED
    BY <1>4, <1>9, <2>1, <2>2, <2>3
<1> HIDE DEF base
<1>11. PICK low \in rows[j - 1].start .. rows[j - 1].finish : rows[j - 1].value = ready[low + 1]
  BY <1>1, <1>9
<1>12. PICK high \in rows[j].start .. rows[j].finish : rows[j].value = ready[high + 1]
  BY <1>1, <1>9
<1> DEFINE p == rows[j - 1].start
           q == rows[j - 1].finish
           r == rows[j].start
           s == rows[j].finish
<1>13. /\ low \in Nat /\ high \in Nat /\ low <= high /\ high <= Len(ready) - 1
       /\ p <= low /\ high <= s /\ p \in Nat /\ s \in Nat
  <2>1. /\ p \in Nat /\ q \in Nat /\ r \in Nat /\ s \in Nat /\ s <= Len(ready) - 1 /\ q <= r
    BY <1>1, <1>9
  <2>2. low \in p..q /\ high \in r..s
    BY <1>11, <1>12
  <2>3. Len(ready) \in Int
    BY <1>1
  <2> HIDE DEF p, q, r, s
  <2>4. QED
    BY <2>1, <2>2, <2>3
<1> DEFINE T == {x \in low..high : ready[x + 1] > base}
<1>14. high \in T /\ T \subseteq Nat /\ low \notin T
  <2>1. rows[j].value \in 1..2 /\ rows[j - 1].value \in 1..2
    BY <1>1, <1>9
  <2>2. high \in low..high /\ ready[high + 1] > base
    BY <1>9, <1>12, <1>13
  <2>3. ~(ready[low + 1] > base)
    BY <1>9, <1>10, <1>11, <2>1
  <2>4. low..high \subseteq Nat
    BY <1>13
  <2>5. QED
    BY <2>2, <2>3, <2>4
<1>15. PICK x \in T : \A y \in T : x <= y
  <2> HIDE DEF T
  <2>1. QED
    BY <1>14, LeastElement
<1>16. /\ x \in low + 1 .. high /\ x - 1 \in low..high /\ (x - 1) + 1 = x /\ base < ready[x + 1]
       /\ x - 1 \in 0 .. Len(ready) - 1 /\ ~(x <= x - 1)
  <2>1. x \in low..high /\ ready[x + 1] > base /\ x # low
    BY <1>14, <1>15
  <2>2. /\ x \in low + 1 .. high /\ x - 1 \in low..high /\ (x - 1) + 1 = x
        /\ x - 1 \in 0 .. Len(ready) - 1 /\ ~(x <= x - 1) /\ x \in 0 .. Len(ready) - 1
    BY <1>1, <1>13, <2>1
  <2>3. ready[x + 1] \in 1..2
    BY <1>1, <2>2
  <2>4. QED
    BY <1>9, <2>1, <2>2, <2>3
<1>17. ready[x] <= base
  <2>1. x - 1 \notin T
    BY <1>15, <1>16
  <2>2. ready[(x - 1) + 1] \in 1..2
    BY <1>1, <1>16
  <2>3. QED
    BY <1>9, <1>16, <2>1, <2>2
<1>18. x \in rows[j - 1].start + 1 .. rows[j].finish
  <2> HIDE DEF p, s
  <2>1. x \in p + 1 .. s
    BY <1>13, <1>16
  <2>2. QED
    BY <2>1 DEF p, s
<1>19. QED
  BY <1>6, <1>8, <1>16, <1>17, <1>18 DEF base, B

(***************************************************************************)
(* How the number of ready replicas went, and where it moved.              *)
(***************************************************************************)
ReadyAt == [t \in 0 .. ObservationEnd - 1 |-> ready[t + 1]]
MovedAt == [t \in 1 .. ObservationEnd - 1 |-> IF ready[t + 1] # ready[t] THEN 1 ELSE 0]

(***************************************************************************)
(* The path of the count up to the end of the observation is no longer     *)
(* than its changes.                                                       *)
(***************************************************************************)
LEMMA ChangesArePath ==
    ASSUME BaselineInv, ObservationEnd <= Len(ready) - 1
    PROVE  /\ ObservationEnd - 1 \in Nat /\ Shifts(MovedAt, ReadyAt, ObservationEnd - 1)
           /\ Path(MovedAt, ObservationEnd - 1) \in Nat
           /\ Observed!Changes(ready) \in Nat
           /\ Path(MovedAt, ObservationEnd - 1) <= Observed!Changes(ready)
<1> DEFINE b == ObservationEnd - 1
           Moved2(t) == {i \in 2 .. t + 1 : ready[i] # ready[i - 1]}
           V(t) == Tally(MovedAt, 1, t)
<1>1. b \in Nat /\ 1 <= b /\ b + 1 <= Len(ready) - 1 /\ Len(ready) \in Nat
  BY BaselineConstants, RowFacts
<1>2. \A t \in 0..b : ReadyAt[t] = ready[t + 1] /\ ReadyAt[t] \in 1..2
  <2>1. ASSUME NEW t \in 0..b PROVE ReadyAt[t] = ready[t + 1] /\ ReadyAt[t] \in 1..2
    <3>1. t \in 0 .. Len(ready) - 1
      BY <1>1
    <3>2. ready[t + 1] \in 1..2
      BY <3>1, RowFacts
    <3>3. QED
      BY <3>2 DEF ReadyAt
  <2>2. QED
    BY <2>1
<1>3. \A t \in 1..b : MovedAt[t] \in 0..1 /\ (MovedAt[t] = 1 <=> ready[t + 1] # ready[t])
  BY DEF MovedAt
<1>4. Shifts(MovedAt, ReadyAt, b)
  <2>1. ASSUME NEW t \in 1..b
        PROVE  /\ MovedAt[t] \in Nat /\ -MovedAt[t] <= ReadyAt[t - 1] - ReadyAt[t]
               /\ ReadyAt[t - 1] - ReadyAt[t] <= MovedAt[t]
    <3>1. t \in 0..b /\ t - 1 \in 0..b /\ (t - 1) + 1 = t
      BY <1>1
    <3>2. /\ ReadyAt[t] = ready[t + 1] /\ ReadyAt[t - 1] = ready[t]
          /\ ReadyAt[t] \in 1..2 /\ ReadyAt[t - 1] \in 1..2
      BY <1>2, <3>1
    <3>3. MovedAt[t] \in 0..1 /\ (MovedAt[t] = 0 => ReadyAt[t] = ReadyAt[t - 1])
      BY <1>3, <3>2
    <3>4. MovedAt[t] = 0 \/ MovedAt[t] = 1
      BY <3>3
    <3>5. QED
      BY <3>2, <3>3, <3>4
  <2>2. \A t \in 0..b : ReadyAt[t] \in Int
    BY <1>2
  <2> HIDE DEF b
  <2>3. QED
    BY <2>1, <2>2 DEF Shifts
<1>5. Path(MovedAt, b) = V(b)
  BY <1>1 DEF Path
<1>6. Path(MovedAt, b) \in Nat
  <2>1. b \in Int /\ b <= b
    BY <1>1
  <2> HIDE DEF b
  <2>2. QED
    BY <1>1, <1>4, <2>1, PathBounds
<1>7. V(0) = 0 /\ \A t \in 1..b : V(t) = V(t - 1) + MovedAt[t] /\ V(t - 1) \in Int
  <2>1. 1 \in Int /\ b \in Int /\ 1 - 1 <= b /\ \A t \in 1..b : MovedAt[t] \in Int
    BY <1>1, <1>3
  <2> HIDE DEF b
  <2>2. /\ Tally(MovedAt, 1, 1 - 1) = 0
        /\ \A t \in (1 - 1)..b : Tally(MovedAt, 1, t) \in Int
        /\ \A t \in 1..b : Tally(MovedAt, 1, t) = Tally(MovedAt, 1, t - 1) + MovedAt[t]
    BY <2>1, TallyFacts
  <2>3. 1 - 1 = 0 /\ \A t \in 1..b : t - 1 \in (1 - 1)..b
    BY <2>1
  <2>4. QED
    BY <2>2, <2>3
<1> DEFINE T == {t \in 0..b : IsFiniteSet(Moved2(t)) /\ V(t) = Cardinality(Moved2(t))}
<1>8. 0 \in T
  <2>1. Moved2(0) = {} /\ 0 \in 0..b
    BY <1>1
  <2> HIDE DEF Moved2, V
  <2>2. QED
    BY <1>7, <2>1, FS_EmptySet
<1>9. ASSUME NEW t \in 1..b, t - 1 \in T PROVE t \in T
  <2>1. t \in 0..b /\ t \in Nat
    BY <1>1
  <2>2. V(t) = V(t - 1) + MovedAt[t] /\ V(t - 1) \in Int
    BY <1>7
  <2>3. IsFiniteSet(Moved2(t - 1)) /\ V(t - 1) = Cardinality(Moved2(t - 1))
    BY <1>9
  <2>4. Moved2(t - 1) \subseteq 2..t
    <3>1. (t - 1) + 1 = t
      BY <2>1
    <3>2. QED
      BY <3>1
  <2>5. t + 1 \notin Moved2(t - 1)
    BY <2>1, <2>4
  <2>6. CASE MovedAt[t] = 1
    <3>1. Moved2(t) = Moved2(t - 1) \cup {t + 1}
      <4>1. ready[t + 1] # ready[t] /\ (t + 1) - 1 = t /\ (t - 1) + 1 = t
        BY <1>3, <2>1, <2>6
      <4>2. 2..(t + 1) = (2..t) \cup {t + 1}
        BY <2>1
      <4>3. QED
        BY <4>1, <4>2
    <3> HIDE DEF Moved2, V
    <3>2. /\ IsFiniteSet(Moved2(t))
          /\ Cardinality(Moved2(t)) = Cardinality(Moved2(t - 1)) + 1
      BY <2>3, <2>5, <3>1, FS_AddElement
    <3>3. V(t) = Cardinality(Moved2(t))
      BY <2>2, <2>3, <2>6, <3>2
    <3>4. QED
      BY <2>1, <3>2, <3>3
  <2>7. CASE MovedAt[t] = 0
    <3>1. Moved2(t) = Moved2(t - 1)
      <4>1. ready[t + 1] = ready[t] /\ (t + 1) - 1 = t /\ (t - 1) + 1 = t
        BY <1>3, <2>1, <2>7
      <4>2. 2..(t + 1) = (2..t) \cup {t + 1}
        BY <2>1
      <4>3. QED
        BY <4>1, <4>2
    <3> HIDE DEF Moved2, V
    <3>2. V(t) = V(t - 1)
      BY <2>2, <2>7
    <3>3. QED
      BY <2>1, <2>3, <3>1, <3>2
  <2>8. MovedAt[t] = 0 \/ MovedAt[t] = 1
    BY <1>3
  <2>9. QED
    BY <2>6, <2>7, <2>8
<1>10. V(b) = Cardinality(Moved2(b))
  <2>1. 1 \in Int /\ b \in Int /\ 1 - 1 <= b /\ 1 - 1 = 0 /\ b \in 0..b
    BY <1>1
  <2> HIDE DEF T, b
  <2>2. (1 - 1)..b \subseteq T
    BY <1>8, <1>9, <2>1, RangeInduction
  <2>3. b \in T
    BY <2>1, <2>2
  <2>4. QED
    BY <2>3 DEF T
<1> DEFINE all == {i \in 2..Len(ready) : ready[i] # ready[i - 1]}
<1>11. Observed!Changes(ready) = Cardinality(all)
  BY DEF Observed!Changes, Observed!Cardinality, Cardinality
<1>12. IsFiniteSet(all)
  <2>1. IsFiniteSet(2..Len(ready)) /\ all \subseteq 2..Len(ready)
    BY <1>1, FS_Interval
  <2> HIDE DEF all
  <2>2. QED
    BY <2>1, FS_Subset
<1>13. Moved2(b) \subseteq all
  <2>1. 2..b + 1 \subseteq 2..Len(ready)
    BY <1>1
  <2>2. QED
    BY <2>1
<1> HIDE DEF Moved2, all, b, V
<1>14. Cardinality(Moved2(b)) <= Cardinality(all)
  BY <1>12, <1>13, FS_Subset
<1>15. Cardinality(all) \in Nat
  BY <1>12, FS_CardinalityType
<1>16. QED
  BY <1>1, <1>4, <1>5, <1>6, <1>10, <1>11, <1>14, <1>15 DEF b

(***************************************************************************)
(* A sum of the analysis is the sum of its terms.                          *)
(***************************************************************************)
LEMMA ObservedSum ==
    ASSUME NEW a \in Int, NEW b \in Int, a - 1 <= b, NEW F, DOMAIN F = a..b,
           \A i \in a..b : F[i] \in Int
    PROVE  Observed!SumFunction(F) = Tally(F, a, b)
<1>1. Observed!SumFunction(F) = (CHOOSE f : IsFold(f, F, a..b))[a..b]
  BY DEF Observed!SumFunction, Observed!SumFunctionOnSet, Observed!FoldFunctionOnSet,
         Observed!MapThenFoldSet, IsFold, AnyOf
<1>2. QED
  BY <1>1, FoldIsTally

(***************************************************************************)
(* Where the rows cut the window that begins at from.                      *)
(***************************************************************************)
Within(from, time) == Greater(from, Lesser(time, ObservationEnd))

RowCut(from) ==
    [k \in 0 .. Len(rows) - 1 |-> IF k = 0 THEN from ELSE Within(from, rows[k + 1].finish)]

(***************************************************************************)
(* In a validated window that is covered, each row but the last holds for  *)
(* one piece, and answered less than a gap and a read before any time in   *)
(* it.                                                                     *)
(***************************************************************************)
LEMMA RowsAreCut ==
    ASSUME BaselineInv, Observed!Validated, Observed!CoverageComplete,
           NEW from \in Int, LoadOnset <= from, from <= ObservationEnd
    PROVE  /\ Len(rows) - 1 \in Nat /\ ObservationEnd <= Len(ready) - 1
           /\ Places(RowCut(from), Len(rows) - 1)
           /\ RowCut(from)[0] = from /\ RowCut(from)[Len(rows) - 1] = ObservationEnd
           /\ \A k \in 1 .. Len(rows) - 1 :
                 /\ Observed!Cardinality({t \in Observed!Held(k) : t >= from})
                      = RowCut(from)[k] - RowCut(from)[k - 1]
                 /\ \A t \in RowCut(from)[k - 1] .. RowCut(from)[k] - 1 :
                       /\ from <= t /\ t <= ObservationEnd - 1
                       /\ rows[k].finish <= t
                       /\ t <= rows[k].finish + 2 * Interval - 1
<1> DEFINE N == Len(rows)
           n == N - 1
           c == RowCut(from)
<1>1. /\ N \in Nat /\ DOMAIN rows = 1..N /\ Len(ready) \in Nat
      /\ \A i \in 1..N : rows[i].finish \in Nat /\ rows[i].finish <= Len(ready) - 1
      /\ \A i, j \in 1..N : i < j => rows[i].finish < rows[j].finish
  BY RowFacts
<1>2. rows # <<>> /\ rows[1].finish <= LoadOnset /\ ObservationEnd <= rows[N].finish
  BY DEF Observed!Validated
<1>3. /\ LoadOnset \in Nat /\ ObservationEnd \in Nat /\ LoadOnset < ObservationEnd
      /\ Interval \in Nat /\ 0 < Interval /\ from \in Nat
  BY BaselineConstants
<1>4. N \in 1..N /\ 1 \in 1..N
  BY <1>1, <1>2
<1>5. ObservationEnd <= Len(ready) - 1
  <2>1. rows[N].finish \in Nat /\ rows[N].finish <= Len(ready) - 1
    BY <1>1, <1>4
  <2>2. QED
    BY <1>1, <1>2, <1>3, <2>1
<1>6. n \in Nat /\ 1 <= n
  <2>1. N # 1
    BY <1>2, <1>3, <1>1, <1>4
  <2>2. QED
    BY <1>1, <1>4, <2>1
<1>7. \A k \in 1..n : k \in 1..N /\ k + 1 \in 1..N /\ k < k + 1
  BY <1>1, <1>6
<1>8. c[0] = from /\ \A k \in 1..n : c[k] = Within(from, rows[k + 1].finish)
  <2>1. 0 \in 0..n /\ \A k \in 1..n : k \in 0..n /\ k # 0
    BY <1>6
  <2> HIDE DEF n
  <2>2. QED
    BY <2>1 DEF RowCut, n
<1>9. ASSUME NEW k \in 1..n
      PROVE  /\ rows[k].finish \in Nat /\ rows[k + 1].finish \in Nat
             /\ rows[k].finish < rows[k + 1].finish
             /\ c[k] = Within(from, rows[k + 1].finish)
             /\ c[k - 1] = Within(from, rows[k].finish)
  <2>1. /\ rows[k].finish \in Nat /\ rows[k + 1].finish \in Nat
        /\ rows[k].finish < rows[k + 1].finish
    BY <1>1, <1>7
  <2>2. c[k - 1] = Within(from, rows[k].finish)
    <3>1. CASE k = 1
      <4>1. c[k - 1] = from
        BY <1>8, <3>1
      <4>2. rows[k].finish <= LoadOnset
        BY <1>2, <3>1
      <4>3. Within(from, rows[k].finish) = from
        BY <1>3, <2>1, <4>2 DEF Within, Greater, Lesser
      <4>4. QED
        BY <4>1, <4>3
    <3>2. CASE k # 1
      <4>1. k - 1 \in 1..n /\ (k - 1) + 1 = k
        BY <1>6, <3>2
      <4>2. QED
        BY <1>8, <4>1
    <3>3. QED
      BY <3>1, <3>2
  <2>3. QED
    BY <1>8, <2>1, <2>2
<1>10. ASSUME NEW k \in 1..n
       PROVE  /\ c[k - 1] \in Int /\ c[k] \in Int /\ c[k - 1] <= c[k] /\ from <= c[k - 1]
              /\ c[k] <= ObservationEnd
              /\ \A t \in c[k - 1] .. c[k] - 1 :
                    /\ from <= t /\ t <= ObservationEnd - 1
                    /\ rows[k].finish <= t /\ t < rows[k + 1].finish /\ t \in Int
              /\ \A t \in Int :
                    (from <= t /\ t <= ObservationEnd - 1 /\ rows[k].finish <= t
                       /\ t < rows[k + 1].finish) => t \in c[k - 1] .. c[k] - 1
  <2> DEFINE x == rows[k].finish
             y == rows[k + 1].finish
             lo == c[k - 1]
             hi == c[k]
  <2>1. x \in Nat /\ y \in Nat /\ x < y /\ lo = Within(from, x) /\ hi = Within(from, y)
    BY <1>9
  <2> HIDE DEF x, y, lo, hi
  <2>2. /\ lo \in Int /\ hi \in Int /\ lo <= hi /\ from <= lo /\ hi <= ObservationEnd
    BY <1>3, <2>1 DEF Within, Greater, Lesser
  <2>3. ASSUME NEW t \in lo .. hi - 1
        PROVE  from <= t /\ t <= ObservationEnd - 1 /\ x <= t /\ t < y /\ t \in Int
    <3>1. t \in Int /\ lo <= t /\ t <= hi - 1
      BY <2>2
    <3>2. QED
      BY <1>3, <2>1, <3>1 DEF Within, Greater, Lesser
  <2>4. ASSUME NEW t \in Int, from <= t, t <= ObservationEnd - 1, x <= t, t < y
        PROVE  t \in lo .. hi - 1
    BY <1>3, <2>1, <2>4 DEF Within, Greater, Lesser
  <2>5. QED
    BY <2>2, <2>3, <2>4 DEF x, y, lo, hi
<1>11. c[n] = ObservationEnd
  <2>1. n \in 1..n /\ n + 1 = N
    BY <1>1, <1>6
  <2>2. c[n] = Within(from, rows[N].finish) /\ rows[N].finish \in Nat
    BY <1>1, <1>4, <1>8, <2>1
  <2>3. QED
    BY <1>2, <1>3, <2>2 DEF Within, Greater, Lesser
<1>12. Places(c, n)
  <2>1. ASSUME NEW k \in 0..n PROVE c[k] \in Int
    <3>1. k = 0 \/ k \in 1..n
      BY <1>6
    <3>2. QED
      BY <1>8, <1>10, <3>1
  <2>2. DOMAIN c = 0..n /\ c = [k \in 0..n |-> c[k]]
    BY DEF RowCut
  <2> HIDE DEF c, n
  <2>3. c \in [0..n -> Int]
    BY <2>1, <2>2
  <2>4. QED
    BY <1>10, <2>3 DEF Places
<1> DEFINE G == 2 * Interval
<1>13. ASSUME NEW k \in 1..n
       PROVE  Observed!Held(k) =
                IF rows[k + 1].finish - rows[k].finish > G THEN {}
                ELSE {t \in LoadOnset .. ObservationEnd - 1 :
                         rows[k].finish <= t /\ t < rows[k + 1].finish}
  BY DEF Observed!Held, Observed!MaxGap
<1>14. G \in Nat /\ 2 <= G
  BY <1>3
<1>15. ASSUME NEW k \in 1..n, NEW t \in c[k - 1] .. c[k] - 1
       PROVE  rows[k + 1].finish - rows[k].finish <= G /\ t \in LoadOnset .. ObservationEnd - 1
  <2>1. /\ from <= t /\ t <= ObservationEnd - 1 /\ t \in Int
        /\ rows[k].finish <= t /\ t < rows[k + 1].finish
    BY <1>10
  <2>2. t \in LoadOnset .. ObservationEnd - 1
    BY <1>3, <2>1
  <2>3. PICK j \in 1..n : t \in Observed!Held(j)
    BY <2>2 DEF Observed!CoverageComplete
  <2>4. /\ ~(rows[j + 1].finish - rows[j].finish > G)
        /\ rows[j].finish <= t /\ t < rows[j + 1].finish
    BY <1>13, <2>3
  <2>5. /\ rows[j].finish \in Nat /\ rows[j + 1].finish \in Nat
        /\ rows[k].finish \in Nat /\ rows[k + 1].finish \in Nat
    BY <1>9
  <2>6. ~(k < j)
    <3>1. ASSUME k < j PROVE FALSE
      <4>1. /\ k + 1 \in 1..N /\ j \in 1..N /\ (k + 1 = j \/ k + 1 < j)
        BY <1>7, <3>1
      <4>2. rows[k + 1].finish <= rows[j].finish
        BY <1>1, <2>5, <4>1
      <4>3. QED
        BY <2>1, <2>4, <2>5, <4>2
    <3>2. QED
      BY <3>1
  <2>7. ~(j < k)
    <3>1. ASSUME j < k PROVE FALSE
      <4>1. /\ j + 1 \in 1..N /\ k \in 1..N /\ (j + 1 = k \/ j + 1 < k)
        BY <1>7, <3>1
      <4>2. rows[j + 1].finish <= rows[k].finish
        BY <1>1, <2>5, <4>1
      <4>3. QED
        BY <2>1, <2>4, <2>5, <4>2
    <3>2. QED
      BY <3>1
  <2>8. j = k
    BY <2>6, <2>7
  <2> HIDE DEF G
  <2>9. QED
    BY <1>14, <2>2, <2>4, <2>5, <2>8
<1>16. ASSUME NEW k \in 1..n
       PROVE  {t \in Observed!Held(k) : t >= from} = c[k - 1] .. c[k] - 1
  <2> DEFINE piece == c[k - 1] .. c[k] - 1
             held == {t \in Observed!Held(k) : t >= from}
  <2>1. ASSUME NEW t \in piece PROVE t \in held
    <3>1. /\ rows[k + 1].finish - rows[k].finish <= G /\ t \in LoadOnset .. ObservationEnd - 1
      BY <1>15
    <3>2. from <= t /\ rows[k].finish <= t /\ t < rows[k + 1].finish /\ t \in Int
      BY <1>10
    <3>3. ~(rows[k + 1].finish - rows[k].finish > G)
      <4> HIDE DEF G
      <4>1. QED
        BY <1>9, <1>14, <3>1
    <3>4. t \in Observed!Held(k)
      BY <1>13, <3>1, <3>2, <3>3
    <3>5. t >= from
      BY <3>2
    <3>6. QED
      BY <3>4, <3>5
  <2>2. ASSUME NEW t \in held PROVE t \in piece
    <3>1. t \in Observed!Held(k) /\ t >= from
      OBVIOUS
    <3>2. t \in LoadOnset .. ObservationEnd - 1 /\ rows[k].finish <= t /\ t < rows[k + 1].finish
      BY <1>13, <3>1
    <3>3. t \in Int /\ t <= ObservationEnd - 1 /\ from <= t
      BY <1>3, <3>1, <3>2
    <3>4. QED
      BY <1>10, <3>2, <3>3
  <2> HIDE DEF piece, held
  <2>3. piece = held
    BY <2>1, <2>2
  <2>4. QED
    BY <2>3 DEF piece, held
<1>17. ASSUME NEW k \in 1..n
       PROVE  /\ Observed!Cardinality({t \in Observed!Held(k) : t >= from}) = c[k] - c[k - 1]
              /\ \A t \in c[k - 1] .. c[k] - 1 :
                    /\ from <= t /\ t <= ObservationEnd - 1
                    /\ rows[k].finish <= t /\ t <= rows[k].finish + 2 * Interval - 1
  <2> DEFINE lo == c[k - 1]
             hi == c[k]
             held == {t \in Observed!Held(k) : t >= from}
  <2>1. Observed!Cardinality(held) = Cardinality(held)
    BY DEF Observed!Cardinality, Cardinality
  <2>2. held = lo .. hi - 1
    BY <1>16
  <2>3. lo \in Int /\ hi \in Int /\ lo <= hi
    BY <1>10
  <2> HIDE DEF held, lo, hi
  <2>4. Cardinality(lo .. hi - 1) = hi - lo
    <3>1. hi - 1 \in Int
      BY <2>3
    <3>2. Cardinality(lo .. hi - 1) = IF lo > hi - 1 THEN 0 ELSE (hi - 1) - lo + 1
      BY <2>3, <3>1, FS_Interval
    <3>3. QED
      BY <2>3, <3>2
  <2>5. ASSUME NEW t \in lo .. hi - 1
        PROVE  /\ from <= t /\ t <= ObservationEnd - 1
               /\ rows[k].finish <= t /\ t <= rows[k].finish + 2 * Interval - 1
    <3>1. /\ from <= t /\ t <= ObservationEnd - 1 /\ t \in Int
          /\ rows[k].finish <= t /\ t < rows[k + 1].finish
      BY <1>10, <2>5 DEF lo, hi
    <3>2. rows[k + 1].finish - rows[k].finish <= 2 * Interval
      BY <1>15, <2>5 DEF lo, hi
    <3>3. rows[k].finish \in Nat /\ rows[k + 1].finish \in Nat /\ 2 * Interval \in Nat
      BY <1>9, <1>14
    <3>4. t <= rows[k].finish + 2 * Interval - 1
      BY <3>1, <3>2, <3>3
    <3>5. QED
      BY <3>1, <3>4
  <2>6. QED
    BY <2>1, <2>2, <2>4, <2>5 DEF held, lo, hi
<1>18. QED
  BY <1>5, <1>6, <1>8, <1>11, <1>12, <1>17

(***************************************************************************)
(* The costs of a window that is covered are off by no more than the moves *)
(* of the count within one gap and one read.                               *)
(***************************************************************************)
LEMMA ObservedCostsAreFaithful ==
    ASSUME BaselineInv, Observed!Validated, Observed!CoverageComplete,
           NEW from \in {LoadOnset, LoadEnd},
           NEW off,
           off = Observed!PodSeconds(from)
                   - Observed!SumFunction([t \in from .. ObservationEnd - 1 |-> ready[t + 1]])
    PROVE  off \in -(Observed!MaxGap + MaxRead) * Observed!Changes(ready)
                     .. (Observed!MaxGap + MaxRead) * Observed!Changes(ready)
<1> DEFINE L == Len(rows) - 1
           c == RowCut(from)
           b == ObservationEnd - 1
           D == (2 * Interval + MaxRead) - 1
           v == [k \in 1..L |-> rows[k].value]
           S == [k \in 1..L |->
                   rows[k].value * Observed!Cardinality({t \in Observed!Held(k) : t >= from})]
           r == [t \in from..b |-> ready[t + 1]]
<1>1. /\ LoadOnset \in Nat /\ LoadEnd \in Nat /\ ObservationEnd \in Nat
      /\ LoadOnset < LoadEnd /\ LoadEnd < ObservationEnd
      /\ Interval \in Nat /\ 0 < Interval /\ MaxRead \in Nat
  BY BaselineConstants
<1>2. /\ from \in Nat /\ from \in Int /\ LoadOnset <= from /\ from <= ObservationEnd
      /\ from <= b /\ b \in Nat /\ b \in Int /\ ObservationEnd = b + 1
  BY <1>1
<1>3. D \in Nat /\ D + 1 = 2 * Interval + MaxRead
  BY <1>1
<1>4. /\ L \in Nat /\ ObservationEnd <= Len(ready) - 1
      /\ Places(c, L) /\ c[0] = from /\ c[L] = ObservationEnd
      /\ \A k \in 1..L :
            /\ Observed!Cardinality({t \in Observed!Held(k) : t >= from}) = c[k] - c[k - 1]
            /\ \A t \in c[k - 1] .. c[k] - 1 :
                  /\ from <= t /\ t <= ObservationEnd - 1
                  /\ rows[k].finish <= t /\ t <= rows[k].finish + 2 * Interval - 1
  BY <1>2, RowsAreCut
<1>5. /\ Shifts(MovedAt, ReadyAt, b) /\ Path(MovedAt, b) \in Nat
      /\ Observed!Changes(ready) \in Nat /\ Path(MovedAt, b) <= Observed!Changes(ready)
  BY <1>4, ChangesArePath
<1>6. \A t \in from..b : r[t] = ReadyAt[t] /\ r[t] \in Int
  <2>1. ASSUME NEW t \in from..b PROVE r[t] = ReadyAt[t] /\ r[t] \in Int
    <3>1. t \in 0..b
      BY <1>2
    <3>2. r[t] = ready[t + 1] /\ ReadyAt[t] = ready[t + 1]
      BY <3>1 DEF ReadyAt
    <3>3. ReadyAt[t] \in Int
      BY <1>5, <3>1 DEF Shifts
    <3> HIDE DEF r
    <3>4. QED
      BY <3>2, <3>3
  <2>2. QED
    BY <2>1
<1>7. ASSUME NEW k \in 1..L
      PROVE  /\ k \in 1..Len(rows) /\ v[k] = rows[k].value /\ v[k] \in Int
             /\ rows[k].start \in Nat /\ rows[k].finish \in Nat
             /\ rows[k].finish <= rows[k].start + MaxRead
             /\ \E u \in rows[k].start .. rows[k].finish : v[k] = ready[u + 1]
  <2>1. k \in 1..Len(rows)
    BY <1>4
  <2>2. /\ rows[k].start \in Nat /\ rows[k].finish \in Nat /\ rows[k].value \in 1..2
        /\ rows[k].finish <= rows[k].start + MaxRead
        /\ \E u \in rows[k].start .. rows[k].finish : rows[k].value = ready[u + 1]
    BY <2>1, RowFacts
  <2>3. v[k] = rows[k].value
    OBVIOUS
  <2> HIDE DEF v
  <2>4. QED
    BY <2>1, <2>2, <2>3
<1> HIDE DEF c, D, b, L, v, r
<1>8. Late(v, ReadyAt, c, L, D)
  <2>1. ASSUME NEW k \in 1..L, NEW t \in c[k - 1]..(c[k] - 1)
        PROVE  \E u \in 0..t : t - D <= u /\ v[k] = ReadyAt[u]
    <3> DEFINE x == rows[k].start
               y == rows[k].finish
    <3>1. /\ from <= t /\ t <= b /\ y <= t /\ t <= y + 2 * Interval - 1
      BY <1>4 DEF b
    <3>2. t \in Int
      <4>1. k - 1 \in 0..L /\ k \in 0..L
        BY <1>4
      <4>2. c[k - 1] \in Int /\ c[k] \in Int
        BY <1>4, <4>1 DEF Places
      <4>3. QED
        BY <4>2
    <3>3. x \in Nat /\ y \in Nat /\ y <= x + MaxRead
      BY <1>7
    <3>4. PICK u \in x..y : v[k] = ready[u + 1]
      BY <1>7
    <3> HIDE DEF x, y
    <3>5. u \in 0..b /\ u \in 0..t /\ t - D <= u
      BY <1>1, <1>2, <1>3, <3>1, <3>2, <3>3
    <3>6. ReadyAt[u] = ready[u + 1]
      BY <3>5 DEF ReadyAt, b
    <3>7. QED
      BY <3>4, <3>5, <3>6
  <2>2. QED
    BY <1>7, <2>1 DEF Late
<1>9. Weighs(S, v, c, L)
  <2>1. ASSUME NEW k \in 1..L PROVE S[k] = v[k] * (c[k] - c[k - 1])
    BY <1>4, <1>7
  <2>2. QED
    BY <2>1 DEF Weighs
<1> HIDE DEF S
<1> DEFINE x == Tally(S, 1, L)
           y == Tally(r, from, b)
           w == D * Path(MovedAt, b)
<1>10. x \in Int /\ y \in Int /\ w \in Nat /\ -w <= x - y /\ x - y <= w
  <2>1. Agrees(r, ReadyAt, from, b)
    BY <1>6 DEF Agrees
  <2>2. QED
    BY <1>2, <1>3, <1>4, <1>5, <1>8, <1>9, <2>1, LateIntegral
<1>11. Observed!PodSeconds(from) = x
  <2>1. Observed!PodSeconds(from) = Observed!SumFunction(S)
    BY DEF Observed!PodSeconds, S, L
  <2>2. DOMAIN S = 1..L
    BY DEF S
  <2>3. ASSUME NEW k \in 1..L PROVE S[k] \in Int
    <3>1. k - 1 \in 0..L /\ k \in 0..L
      BY <1>4
    <3>2. c[k - 1] \in Int /\ c[k] \in Int
      BY <1>4, <3>1 DEF Places
    <3>3. S[k] = v[k] * (c[k] - c[k - 1]) /\ v[k] \in Int
      BY <1>7, <1>9 DEF Weighs
    <3>4. QED
      BY <3>2, <3>3
  <2>4. 1 - 1 <= L /\ 1 \in Int /\ L \in Int
    BY <1>4
  <2>5. QED
    BY <2>1, <2>2, <2>3, <2>4, ObservedSum
<1>12. Observed!SumFunction([t \in from .. ObservationEnd - 1 |-> ready[t + 1]]) = y
  <2>1. [t \in from .. ObservationEnd - 1 |-> ready[t + 1]] = r
    BY DEF r, b
  <2>2. DOMAIN r = from..b /\ \A t \in from..b : r[t] \in Int
    BY <1>6 DEF r
  <2>3. from - 1 <= b
    BY <1>2
  <2>4. QED
    BY <1>2, <2>1, <2>2, <2>3, ObservedSum
<1>13. off = x - y
  BY <1>11, <1>12
<1> DEFINE g == Observed!Changes(ready)
           e == 2 * Interval + MaxRead
<1>14. e \in Nat /\ g \in Nat /\ e * g \in Nat /\ w <= e * g
  <2> DEFINE p == Path(MovedAt, b)
  <2>1. p \in Nat /\ g \in Nat /\ p <= g /\ D \in Nat /\ e = D + 1
    BY <1>3, <1>5
  <2> HIDE DEF p, g, e
  <2>2. D * p <= D * g /\ D * g \in Nat /\ D * p \in Nat
    BY <2>1
  <2>3. e * g = D * g + g /\ e \in Nat
    BY <2>1
  <2>4. QED
    BY <2>1, <2>2, <2>3 DEF p
<1>15. Observed!MaxGap + MaxRead = e
  BY DEF Observed!MaxGap
<1> HIDE DEF x, y, w, g, e
<1>16. off \in -(e * g) .. e * g
  BY <1>10, <1>13, <1>14
<1>17. QED
  BY <1>15, <1>16 DEF g

(***************************************************************************)
(* The gate opens on a target that was not scaled; of a validated run, the *)
(* growth and, where the window is covered, the costs are those that       *)
(* happened, up to one gap and one read (observe_live_baseline.py,         *)
(* live_baseline.py).                                                      *)
(***************************************************************************)
THEOREM BaselineIsFaithfulHolds == HarnessSpec => []BaselineIsFaithful
<1>1. BaselineInv => BaselineIsFaithful
  <2> SUFFICES ASSUME BaselineInv PROVE BaselineIsFaithful
    OBVIOUS
  <2>1. launched \in {0, 1}
    BY DEF BaselineInv, GateSound
  <2>2. ASSUME Observed!Validated, Observed!Grown # {}
        PROVE  \E t \in Observed!FirstGrowth.from + 1 .. Observed!FirstGrowth.to :
                  /\ ready[t] <= rows[Observed!Baseline].value
                  /\ rows[Observed!Baseline].value < ready[t + 1]
    BY <2>2, GrowthIsFaithful
  <2>3. ASSUME Observed!Validated, Observed!CoverageComplete, NEW from \in {LoadOnset, LoadEnd},
               NEW off,
               off = Observed!PodSeconds(from)
                       - Observed!SumFunction([t \in from .. ObservationEnd - 1 |-> ready[t + 1]])
        PROVE  off \in -(Observed!MaxGap + MaxRead) * Observed!Changes(ready)
                         .. (Observed!MaxGap + MaxRead) * Observed!Changes(ready)
    BY <2>3, ObservedCostsAreFaithful
  <2>4. QED
    BY <2>1, <2>2, <2>3 DEF BaselineIsFaithful, Observed!BaselineIsFaithful
<1>2. QED
  BY <1>1, BaselineInvariant, PTL DEF HarnessSpec, HarnessSteps
=============================================================================
