---------------------------- MODULE HarnessProofs ----------------------------
(***************************************************************************)
(* The programs of the benchmark harness, proved about one by one: the     *)
(* campaign, the runner of an owned cluster, the acceptance of metrics     *)
(* safety, and the launch gates of a cadence slot and of the latency       *)
(* diagnostic. Each part has its invariant, one lemma for each group of    *)
(* steps that the program takes, and the theorems. Then these are carried  *)
(* over to the runs of the harness, where one of the programs is at work;  *)
(* so are the theorems about the roster and about the provider, and the    *)
(* replay is proved against the provider's list of samples. The last part  *)
(* is the types, of all the harness.                                       *)
(***************************************************************************)
EXTENDS MeasurementProofs

Snapshot == [cluster : Nat, workload : Nat, phpa : Int]
Notes    == [receipt : Int, cadence : BOOLEAN, applied : Int, frozen : Nat, digest : Nat,
             initial : Snapshot, previous : Snapshot, current : Snapshot]

(***************************************************************************)
(* The type invariant, with what it leaves out: run()'s notes, and that a  *)
(* slot is under way just when run() is at one of its commands.            *)
(***************************************************************************)
InSlot == {"before1", "before2", "benchmark", "analysis", "after1", "after2"}

CampaignTyped ==
    /\ CampaignTypeOK
    /\ notes \in Notes
    /\ job \in Jobs => (job \in InSlot <=> slot # 0)

(***************************************************************************)
(* The handle of a process group.  It is held whenever command() stands    *)
(* between storing it and the end of the group; between two commands       *)
(* nobody lives, and once a group has been lost none is started.           *)
(***************************************************************************)
Held ==
    /\ cmd \in {"stored", "waiting", "stopping"} => active
    /\ job \in Jobs /\ cmd = "idle" => ~active
    /\ job = "closing" => cmd \in {"idle", "stopping"} /\ status # "in_progress"
    /\ job = "ended" => cmd = "idle"
    /\ job \in Jobs => abandoned = {}
    /\ live \subseteq abandoned \cup (IF active \/ cmd = "spawning" THEN {sequence} ELSE {})
    /\ active \/ cmd = "spawning" => sequence # 0
    /\ report # NoReport => job = "ended" /\ ~active

(***************************************************************************)
(* The world only moves on: what a snapshot showed is never seen again     *)
(* once it has changed.                                                    *)
(***************************************************************************)
Onward ==
    /\ notes.current.cluster <= world.cluster
    /\ notes.initial.cluster <= world.cluster /\ notes.initial.workload <= world.workload
    /\ notes.frozen <= world.source

(***************************************************************************)
(* A benchmark that saw another world than the first is the one under way, *)
(* with the change still to be found by one of the checks that follow, or  *)
(* no success.                                                             *)
(***************************************************************************)
WorkloadMoved == notes.initial.workload < world.workload
ClusterMoved  == notes.initial.cluster < world.cluster

Detectable ==
    \/ job = "benchmark" /\ (ClusterMoved \/ WorkloadMoved \/ notes.frozen < world.source)
    \/ job \in {"analysis", "after1"} /\ (ClusterMoved \/ WorkloadMoved)
    \/ job = "after2" /\ (notes.initial.cluster < notes.current.cluster \/ WorkloadMoved)
    \/ job \in {"closing", "ended"}

Suspects ==
    \A s \in mixed : /\ s <= slot /\ slots[s] # "success"
                     /\ s = slot => Detectable

(***************************************************************************)
(* No slot has succeeded before its commands are through.                  *)
(***************************************************************************)
Ahead ==
    \A s \in 1..Slots : s > slot \/ (s = slot /\ job \in Jobs) => slots[s] # "success"

CampaignInv == CampaignTyped /\ Held /\ Onward /\ Suspects /\ Ahead
-----------------------------------------------------------------------------
(***************************************************************************)
(* The campaign starts without a process, a note or a report.              *)
(***************************************************************************)
LEMMA CampaignStarts == CampaignInit => CampaignInv
<1> SUFFICES ASSUME CampaignInit PROVE CampaignInv
  OBVIOUS
<1> USE CampaignAssumption DEF CampaignInit, Nobody, Prior, Foreign
<1>1. notes \in Notes /\ world \in World /\ job \in Jobs
  BY DEF Notes, Snapshot, Seen, World, Jobs
<1>2. CampaignTyped
  <2>1. job \notin InSlot /\ job \in Jobs
    BY DEF InSlot, Jobs
  <2>2. slots \in [1..Slots -> {"not_run", "running", "success", "failed"}]
    OBVIOUS
  <2>3. 0 \in 0..Slots /\ 0 \in 0..MaxSignals /\ 0 \in 0..MaxChanges /\ 0 \in Nat
    OBVIOUS
  <2>4. QED
    BY <1>1, <2>1, <2>2, <2>3 DEF CampaignTyped, CampaignTypeOK
<1>3. Held
  BY DEF Held
<1>4. Onward
  BY <1>1 DEF Onward, Seen, Notes, World
<1>5. Suspects
  BY DEF Suspects
<1>6. Ahead
  BY DEF Ahead
<1>7. QED
  BY <1>2, <1>3, <1>4, <1>5, <1>6 DEF CampaignInv

(***************************************************************************)
(* What run() makes of a command that has ended (Completed, Closing) keeps *)
(* the types, writes no report and leads to the next command or to the     *)
(* finally.                                                                *)
(***************************************************************************)
LEMMA ControlKeepsTypes ==
    ASSUME CampaignTyped, job \in Jobs, Completed \/ Closing
    PROVE  /\ job' \in Jobs \cup {"closing"} /\ job' # "context"
           /\ job' \in Jobs => (job' \in InSlot <=> slot' # 0)
           /\ slot' \in 0..Slots
           /\ slots' \in [1..Slots -> {"not_run", "running", "success", "failed"}]
           /\ status' \in {"in_progress", "success", "failed"}
           /\ job' = "closing" => status' # "in_progress"
           /\ report' = report
           /\ notes' \in Notes
<1> USE CampaignAssumption
<1>1. /\ slot \in 0..Slots /\ notes \in Notes /\ world \in World
      /\ slots \in [1..Slots -> {"not_run", "running", "success", "failed"}]
      /\ status \in {"in_progress", "success", "failed"}
      /\ IF job \in InSlot THEN slot \in 1..Slots ELSE slot = 0
  BY DEF CampaignTyped, CampaignTypeOK
<1>2. /\ world.cluster \in Nat /\ world.workload \in Nat /\ world.source \in Nat
      /\ world.binary \in Nat /\ world.phpa \in Int
  BY <1>1 DEF World, Nobody, Prior, Foreign
<1>3. Whole \in Snapshot
  BY <1>1, <1>2 DEF Whole, Snapshot, Notes
<1>4. ASSUME NEW then \in [1..Slots -> {"not_run", "running", "success", "failed"}], Abort(then)
      PROVE  /\ job' = "closing" /\ status' = "failed" /\ UNCHANGED <<slot, report>>
             /\ slots' \in [1..Slots -> {"not_run", "running", "success", "failed"}]
  BY <1>4 DEF Abort
<1>5. CASE Closing
  BY <1>1, <1>4, <1>5 DEF Closing, InSlot, Jobs
<1>6. CASE /\ Completed /\ ~(job = "build" /\ ~notes.cadence)
           /\ job \in {"context", "initial1", "build", "before1", "analysis", "after1"}
  <2>1. /\ job' \in Jobs \ {"context"} /\ UNCHANGED <<slot, slots, status, report>>
        /\ job' \in InSlot <=> job \in InSlot
        /\ \/ UNCHANGED notes \/ ReadCluster \/ notes' = [notes EXCEPT !.digest = world.binary]
    BY <1>6, Zenon DEF Completed, Proceed, Jobs, InSlot
  <2>2. notes' \in Notes
    <3>1. ASSUME ReadCluster PROVE notes' \in Notes
      <4>1. [notes.current EXCEPT !.cluster = world.cluster] \in Snapshot
        BY <1>1, <1>2 DEF Notes, Snapshot
      <4>2. notes' = [notes EXCEPT !.current = [notes.current EXCEPT !.cluster = world.cluster]]
        BY <1>1, <3>1 DEF ReadCluster, Notes
      <4>3. QED
        BY <1>1, <4>1, <4>2 DEF Notes
    <3>2. QED
      BY <1>1, <1>2, <2>1, <3>1 DEF Notes
  <2>3. QED
    BY <1>1, <2>1, <2>2 DEF Jobs
<1>7. CASE Completed /\ job = "initial2"
  <2>1. CASE Acceptable /\ Authorized
    <3>1. /\ Proceed("build") /\ UNCHANGED <<slot, slots>>
          /\ notes' = [notes EXCEPT !.current = Whole, !.initial = Whole,
                                    !.previous = Whole, !.frozen = world.source]
      BY <1>7, <2>1 DEF Completed
    <3>2. notes' \in Notes
      BY <1>1, <1>2, <1>3, <3>1 DEF Notes
    <3>3. QED
      BY <1>1, <1>7, <3>1, <3>2 DEF Proceed, Jobs, InSlot
  <2>2. CASE ~ (Acceptable /\ Authorized)
    BY <1>5, <1>7, <2>2 DEF Completed
  <2>3. QED
    BY <2>1, <2>2
<1>8. CASE Completed /\ (job = "build-observer" \/ (job = "build" /\ ~notes.cadence))
  <2>1. /\ UNCHANGED notes \/ notes' = [notes EXCEPT !.digest = world.binary]
        /\ \/ Proceed("before1") /\ slot' = 1 /\ UNCHANGED slots
           \/ Abort(slots)
    BY <1>8 DEF Completed
  <2>2. notes' \in Notes
    BY <1>1, <1>2, <2>1 DEF Notes
  <2>3. QED
    BY <1>1, <1>4, <2>1, <2>2 DEF Proceed, Jobs, InSlot
<1>9. CASE Completed /\ job = "before2"
  <2>1. [slots EXCEPT ![slot] = "running"]
          \in [1..Slots -> {"not_run", "running", "success", "failed"}]
    BY <1>1
  <2>2. \/ Closing
        \/ Abort([slots EXCEPT ![slot] = "running"]) /\ UNCHANGED notes
        \/ /\ Proceed("benchmark")
           /\ slots' = [slots EXCEPT ![slot] = "running"]
           /\ UNCHANGED <<slot, notes>>
    BY <1>9 DEF Completed
  <2>3. CASE Abort([slots EXCEPT ![slot] = "running"]) /\ UNCHANGED notes
    BY <1>1, <1>4, <2>1, <2>3 DEF InSlot, Jobs
  <2>4. QED
    BY <1>1, <1>5, <1>9, <2>1, <2>2, <2>3 DEF Proceed, Jobs, InSlot
<1>10. CASE Completed /\ job = "benchmark"
  <2>1. \/ Closing
        \/ Proceed("analysis") /\ UNCHANGED <<slot, notes, slots>>
    BY <1>10 DEF Completed
  <2>2. QED
    BY <1>1, <1>5, <1>10, <2>1 DEF Proceed, Jobs, InSlot
<1>11. CASE Completed /\ job = "after2"
  <2> DEFINE done == [slots EXCEPT ![slot] = "success"]
  <2>1. done \in [1..Slots -> {"not_run", "running", "success", "failed"}]
    BY <1>1
  <2>2. CASE NextSlot(done) /\ notes' = [notes EXCEPT !.current = Whole, !.previous = Whole]
    <3>1. notes' \in Notes
      BY <1>1, <1>3, <2>2 DEF Notes
    <3> HIDE DEF done
    <3>2. \/ job' = "closing" /\ status' = "success" /\ slots' = done /\ UNCHANGED <<slot, report>>
          \/ slot < Slots /\ Proceed("before1") /\ slot' = slot + 1 /\ slots' = done
          \/ Abort(done)
      BY <2>2 DEF NextSlot
    <3>3. QED
      BY <1>1, <1>4, <1>11, <2>1, <3>1, <3>2 DEF Proceed, Jobs, InSlot
  <2>3. CASE Closing
    BY <1>5, <2>3
  <2>4. QED
    BY <1>11, <2>2, <2>3 DEF Completed
<1>12. job \in {"context", "initial1", "initial2", "build", "build-observer", "before1", "before2",
               "benchmark", "analysis", "after1", "after2"}
  BY DEF Jobs
<1>13. QED
  BY <1>5, <1>6, <1>7, <1>8, <1>9, <1>10, <1>11, <1>12

(***************************************************************************)
(* What run() makes of a command that has ended keeps what the checks of   *)
(* the slots rely on, whatever the world has become in between.            *)
(***************************************************************************)
LEMMA ControlKeepsSlots ==
    ASSUME CampaignTyped, Onward, Suspects, Ahead, job \in Jobs, Completed \/ Closing,
           UNCHANGED world, Watch
    PROVE  Onward' /\ Suspects' /\ Ahead' /\ mixed' \subseteq 1..Slots
<1> USE CampaignAssumption
<1>1. /\ slot \in 0..Slots /\ notes \in Notes /\ world \in World
      /\ slots \in [1..Slots -> {"not_run", "running", "success", "failed"}]
      /\ IF job \in InSlot THEN slot \in 1..Slots ELSE slot = 0
      /\ mixed \subseteq 1..Slots
  BY DEF CampaignTyped, CampaignTypeOK
<1>2. /\ world.cluster \in Nat /\ world.workload \in Nat /\ world.source \in Nat
      /\ world.binary \in Nat
  BY <1>1 DEF World
<1>3. /\ notes.current \in Snapshot /\ notes.initial \in Snapshot /\ notes.frozen \in Nat
      /\ Whole.cluster = notes.current.cluster /\ Whole.workload = world.workload
  BY <1>1 DEF Notes, Whole
<1>4. /\ notes.current.cluster \in Nat /\ notes.initial.cluster \in Nat
      /\ notes.initial.workload \in Nat
  BY <1>3 DEF Snapshot
<1>5. notes' \in Notes
  BY ControlKeepsTypes
<1>6. mixed' = mixed \/ (job' = "benchmark" /\ Moved /\ mixed' = mixed \cup {slot'})
  BY DEF Watch
<1>7. job \notin InSlot => mixed = {}
  BY <1>1 DEF Suspects
<1>8. ASSUME NEW then \in [1..Slots -> {"not_run", "running", "success", "failed"}],
             Abort(then),
             \A s \in 1..Slots : then[s] = "success" => slots[s] = "success" /\ s <= slot,
             UNCHANGED notes
      PROVE  Onward' /\ Suspects' /\ Ahead' /\ mixed' \subseteq 1..Slots
  <2>1. /\ job' = "closing" /\ slot' = slot /\ mixed' = mixed
        /\ \A s \in 1..Slots : slots'[s] = "success" => slots[s] = "success" /\ s <= slot
    BY <1>6, <1>8 DEF Abort
  <2>2. Onward'
    BY <1>8 DEF Onward
  <2>3. Suspects'
    BY <1>1, <2>1 DEF Suspects, Detectable
  <2>4. Ahead'
    BY <1>1, <2>1 DEF Ahead, Jobs
  <2>5. QED
    BY <1>1, <2>1, <2>2, <2>3, <2>4
<1>9. \A s \in 1..Slots : slots[s] = "success" => s <= slot
  BY <1>1 DEF Ahead
<1>10. CASE Closing
  BY <1>1, <1>8, <1>9, <1>10 DEF Closing
<1>11. ReadCluster => /\ notes'.current.cluster = world.cluster
                     /\ UNCHANGED <<notes.initial, notes.frozen>>
  <2>1. ASSUME ReadCluster
        PROVE notes' = [notes EXCEPT !.current = [notes.current EXCEPT !.cluster = world.cluster]]
    BY <1>1, <2>1 DEF ReadCluster, Notes
  <2>2. ASSUME ReadCluster
        PROVE notes'.current = [notes.current EXCEPT !.cluster = world.cluster]
    BY <1>1, <2>1, <2>2 DEF Notes
  <2>3. [notes.current EXCEPT !.cluster = world.cluster].cluster = world.cluster
    BY <1>3 DEF Snapshot
  <2>4. QED
    BY <1>1, <2>1, <2>2, <2>3 DEF Notes
<1>12. CASE Completed /\ job \in {"context", "initial1"}
  <2>1. /\ job' \in {"initial1", "initial2"} /\ UNCHANGED <<slot, slots>>
        /\ UNCHANGED notes \/ ReadCluster
    BY <1>12 DEF Completed, Proceed
  <2>2. mixed' = {}
    BY <1>6, <1>7, <1>12, <2>1 DEF InSlot
  <2>3. Onward'
    BY <1>2, <1>11, <2>1 DEF Onward
  <2>4. QED
    BY <1>1, <1>12, <2>1, <2>2, <2>3 DEF Suspects, Ahead, Jobs, InSlot
<1>13. CASE Completed /\ job = "initial2"
  <2>1. CASE Acceptable /\ Authorized
    <3>1. /\ job' = "build" /\ UNCHANGED <<slot, slots>>
          /\ notes' = [notes EXCEPT !.current = Whole, !.initial = Whole,
                                    !.previous = Whole, !.frozen = world.source]
      BY <1>13, <2>1 DEF Completed, Proceed
    <3>2. /\ notes'.current = Whole /\ notes'.initial = Whole /\ notes'.frozen = world.source
      BY <1>1, <3>1 DEF Notes
    <3>3. Onward'
      BY <1>2, <1>3, <3>2 DEF Onward
    <3>4. mixed' = {}
      BY <1>6, <1>7, <1>13, <3>1 DEF InSlot
    <3>5. QED
      BY <1>1, <1>13, <3>1, <3>3, <3>4 DEF Suspects, Ahead, Jobs, InSlot
  <2>2. CASE ~ (Acceptable /\ Authorized)
    BY <1>10, <1>13, <2>2 DEF Completed
  <2>3. QED
    BY <2>1, <2>2
<1>14. CASE Completed /\ job \in {"build", "build-observer"}
  <2>1. /\ UNCHANGED notes \/ notes' = [notes EXCEPT !.digest = world.binary]
        /\ \/ job' = "build-observer" /\ UNCHANGED <<slot, slots>>
           \/ job' = "before1" /\ slot' = 1 /\ UNCHANGED slots
           \/ Abort(slots)
    BY <1>14 DEF Completed, Proceed
  <2>2. job' \in {"build-observer", "before1", "closing"} /\ slot = 0
    BY <1>1, <1>14, <2>1 DEF Abort, InSlot
  <2>3. mixed' = {}
    BY <1>6, <1>7, <1>14, <2>2 DEF InSlot
  <2>4. Onward'
    <3>1. UNCHANGED <<notes.current, notes.initial, notes.frozen>>
      BY <1>1, <2>1 DEF Notes
    <3>2. QED
      BY <3>1 DEF Onward
  <2>5. \A s \in 1..Slots : slots[s] # "success" /\ slots'[s] # "success"
    BY <1>1, <1>9, <2>1, <2>2 DEF Abort
  <2>6. QED
    BY <2>3, <2>4, <2>5 DEF Suspects, Ahead
<1>15. CASE Completed /\ job \in {"before1", "analysis", "after1"}
  <2>1. /\ job' \in {"before2", "after1", "after2"} /\ UNCHANGED <<slot, slots>>
        /\ job = "before1" => job' = "before2" /\ ReadCluster
        /\ job = "analysis" => job' = "after1" /\ UNCHANGED notes
        /\ job = "after1" => job' = "after2" /\ ReadCluster
    BY <1>15 DEF Completed, Proceed
  <2>2. mixed' = mixed
    BY <1>6, <2>1
  <2>4. Onward'
    BY <1>2, <1>11, <1>15, <2>1 DEF Onward
  <2>5. Detectable => Detectable'
    BY <1>2, <1>4, <1>11, <1>15, <2>1 DEF Detectable, ClusterMoved, WorkloadMoved
  <2>6. Suspects'
    BY <2>1, <2>2, <2>5 DEF Suspects
  <2>7. Ahead'
    BY <1>15, <2>1 DEF Ahead, Jobs
  <2>8. QED
    BY <1>1, <2>2, <2>4, <2>6, <2>7
<1>16. CASE Completed /\ job = "before2"
  <2> DEFINE entered == [slots EXCEPT ![slot] = "running"]
  <2>1. /\ entered \in [1..Slots -> {"not_run", "running", "success", "failed"}]
        /\ \A s \in 1..Slots : entered[s] = "success" => slots[s] = "success" /\ s <= slot
        /\ slot \in 1..Slots /\ entered[slot] = "running"
    BY <1>1, <1>9, <1>16 DEF InSlot
  <2> HIDE DEF entered
  <2>2. \/ Closing
        \/ Abort(entered) /\ UNCHANGED notes
        \/ job' = "benchmark" /\ slots' = entered /\ UNCHANGED <<slot, notes>>
    BY <1>16 DEF Completed, Proceed, entered
  <2>3. CASE Abort(entered) /\ UNCHANGED notes
    BY <1>8, <2>1, <2>3
  <2>4. CASE job' = "benchmark" /\ slots' = entered /\ UNCHANGED <<slot, notes>>
    <3>1. Onward'
      BY <2>4 DEF Onward
    <3>2. slot \notin mixed
      BY <1>16 DEF Suspects, Detectable
    <3>3. Moved => Detectable'
      BY <1>2, <1>3, <1>4, <2>4 DEF Moved, Onward, Detectable, ClusterMoved, WorkloadMoved
    <3>4. \A s \in mixed' : s \in mixed \/ (s = slot /\ Moved)
      BY <1>6, <2>4
    <3>5. Suspects'
      <4>1. ASSUME NEW s \in mixed' PROVE s <= slot /\ entered[s] # "success"
        <5>1. s = slot \/ (s \in mixed /\ s \in 1..Slots)
          BY <1>1, <3>4
        <5>2. s \in mixed => s <= slot /\ slots[s] # "success"
          BY DEF Suspects
        <5>3. QED
          BY <1>1, <2>1, <5>1, <5>2
      <4>2. slot \in mixed' => Detectable'
        BY <3>2, <3>3, <3>4
      <4>3. QED
        BY <2>4, <4>1, <4>2 DEF Suspects
    <3>6. Ahead'
      BY <1>1, <2>1, <2>4 DEF Ahead
    <3>7. QED
      BY <1>1, <2>1, <3>1, <3>4, <3>5, <3>6
  <2>5. QED
    BY <1>10, <2>2, <2>3, <2>4
<1>17. CASE Completed /\ job = "benchmark"
  <2>1. CASE notes.applied = slot /\ world.source = notes.frozen
    <3>1. job' = "analysis" /\ UNCHANGED <<slot, notes, slots>>
      BY <1>17, <2>1 DEF Completed, Proceed
    <3>2. mixed' = mixed
      BY <1>6, <3>1
    <3>3. Detectable => Detectable'
      BY <1>2, <1>3, <1>17, <2>1, <3>1 DEF Detectable, ClusterMoved, WorkloadMoved
    <3>4. QED
      BY <1>1, <1>17, <3>1, <3>2, <3>3 DEF Onward, Suspects, Ahead, Jobs
  <2>2. CASE ~ (notes.applied = slot /\ world.source = notes.frozen)
    BY <1>10, <1>17, <2>2 DEF Completed
  <2>3. QED
    BY <2>1, <2>2
<1>18. CASE Completed /\ job = "after2"
  <2> DEFINE done == [slots EXCEPT ![slot] = "success"]
  <2>1. /\ done \in [1..Slots -> {"not_run", "running", "success", "failed"}]
        /\ \A s \in 1..Slots \ {slot} : done[s] = slots[s]
        /\ slot \in 1..Slots
    BY <1>1, <1>18 DEF InSlot
  <2> HIDE DEF done
  <2>2. CASE /\ Identity(Whole) = Identity(notes.initial)
             /\ notes' = [notes EXCEPT !.current = Whole, !.previous = Whole]
             /\ NextSlot(done)
    <3>1. /\ notes.current.cluster = notes.initial.cluster
          /\ world.workload = notes.initial.workload
      BY <1>3, <2>2 DEF Identity
    <3>2. slot \notin mixed
      BY <1>2, <1>4, <1>18, <3>1 DEF Suspects, Detectable, WorkloadMoved
    <3>3. /\ notes'.current = Whole /\ UNCHANGED <<notes.initial, notes.frozen>>
      BY <1>1, <2>2 DEF Notes
    <3>4. Onward'
      BY <1>3, <3>3 DEF Onward
    <3>5. \/ job' = "closing" /\ slots' = done /\ slot' = slot
          \/ job' = "before1" /\ slots' = done /\ slot' = slot + 1
          \/ Abort(done)
      BY <2>2 DEF NextSlot, Proceed
    <3>6. /\ job' \in {"closing", "before1"} /\ slot' \in {slot, slot + 1}
          /\ slot' = slot + 1 <=> job' = "before1"
          /\ \A s \in 1..Slots : slots'[s] = "success" => done[s] = "success"
      BY <1>1, <3>5 DEF Abort
    <3>7. mixed' = mixed /\ \A s \in mixed : s < slot
      BY <1>1, <1>6, <3>2, <3>6 DEF Suspects
    <3>8. \A s \in 1..Slots \ {slot} : slots'[s] = "success" => slots[s] = "success"
      BY <2>1, <3>6
    <3>9. Suspects'
      BY <1>1, <3>6, <3>7, <3>8 DEF Suspects
    <3>10. Ahead'
      BY <1>1, <1>9, <3>6, <3>8 DEF Ahead, Jobs
    <3>11. QED
      BY <1>1, <3>4, <3>7, <3>9, <3>10
  <2>3. QED
    BY <1>10, <1>18, <2>2 DEF Completed, done
<1>19. job \in {"context", "initial1", "initial2", "build", "build-observer", "before1", "before2",
               "benchmark", "analysis", "after1", "after2"}
  BY DEF Jobs
<1>20. QED
  BY <1>10, <1>12, <1>13, <1>14, <1>15, <1>16, <1>17, <1>18, <1>19

(***************************************************************************)
(* The commands: a step that leaves what run() knows, and the world, as    *)
(* they are keeps the types and the checks if it keeps its own variables.  *)
(***************************************************************************)
LEMMA ProcessesKeepSlots ==
    ASSUME CampaignInv, UNCHANGED <<control, world, mixed>>
    PROVE  Onward' /\ Suspects' /\ Ahead'
<1>1. UNCHANGED <<job, slot, notes, slots, world, mixed>>
  BY DEF control
<1>2. Detectable' <=> Detectable
  BY <1>1 DEF Detectable, ClusterMoved, WorkloadMoved
<1>3. QED
  BY <1>1, <1>2 DEF CampaignInv, Onward, Suspects, Ahead

(***************************************************************************)
(* Spawn starts a command only when no earlier one has left anybody, for   *)
(* the handle has been given up and no group has been lost.                *)
(***************************************************************************)
LEMMA SpawnPreserves == CampaignInv /\ Spawn => CampaignInv' /\ live = {}
<1> SUFFICES ASSUME CampaignInv, Spawn PROVE CampaignInv' /\ live = {}
  OBVIOUS
<1> USE CampaignAssumption
<1>1. /\ job \in Jobs /\ cmd = "idle" /\ cmd' = "spawning" /\ sequence' = sequence + 1
      /\ live' = live \cup {sequence + 1} /\ leader' = "running"
      /\ UNCHANGED <<control, active, abandoned, outside>>
  BY DEF Spawn
<1>2. live = {} /\ ~active /\ abandoned = {}
  BY <1>1 DEF CampaignInv, Held
<1>3. CampaignTyped'
  BY <1>1, <1>2 DEF CampaignInv, CampaignTyped, CampaignTypeOK, control, outside
<1>4. Held'
  BY <1>1, <1>2 DEF CampaignInv, Held, CampaignTyped, CampaignTypeOK, control, Jobs
<1>5. QED
  BY <1>1, <1>2, <1>3, <1>4, ProcessesKeepSlots DEF CampaignInv, outside

(***************************************************************************)
(* Store keeps the new group's handle before anything else can fail.       *)
(***************************************************************************)
LEMMA StorePreserves == CampaignInv /\ Store => CampaignInv'
<1> SUFFICES ASSUME CampaignInv, Store PROVE CampaignInv'
  OBVIOUS
<1>1. /\ \/ cmd = "spawning" /\ cmd' = "stored" /\ active' = TRUE
         \/ cmd = "stored" /\ cmd' = "waiting" /\ UNCHANGED active
      /\ UNCHANGED <<control, sequence, live, leader, abandoned, outside>>
  BY DEF Store
<1>2. CampaignTyped'
  BY <1>1, ZenonT(30) DEF CampaignInv, CampaignTyped, CampaignTypeOK, control, outside
<1>3. Held'
  BY <1>1 DEF CampaignInv, Held, control, Jobs
<1>4. QED
  BY <1>1, <1>2, <1>3, ProcessesKeepSlots DEF CampaignInv, outside

(***************************************************************************)
(* Collect gives the handle up only when nobody of the group is left.      *)
(***************************************************************************)
LEMMA CollectPreserves == CampaignInv /\ Collect => CampaignInv'
<1> SUFFICES ASSUME CampaignInv, Collect PROVE CampaignInv'
  OBVIOUS
<1> USE CampaignAssumption
<1>1. /\ cmd = "waiting" /\ leader # "running"
      /\ UNCHANGED <<sequence, live, leader, abandoned, world, sigterm, signals, changes>>
      /\ Watch
  BY DEF Collect
<1>2. job \in Jobs /\ active /\ abandoned = {} /\ report = NoReport
  BY <1>1 DEF CampaignInv, Held, CampaignTyped, CampaignTypeOK
<1>3. CASE sequence \in live
  <2>1. cmd' = "stopping" /\ UNCHANGED <<control, active>>
    BY <1>3 DEF Collect
  <2>2. mixed' = IF job = "benchmark" /\ Moved THEN mixed \cup {slot} ELSE mixed
    BY <1>1, <2>1 DEF Watch, control
  <2>3. Held'
    BY <1>1, <1>2, <2>1 DEF CampaignInv, Held, control, Jobs
  <2>4. Onward'
    BY <1>1, <2>1 DEF CampaignInv, Onward, control
  <2>5. job = "benchmark" /\ Moved => Detectable'
    <3>1. /\ world.cluster \in Nat /\ world.workload \in Nat /\ world.source \in Nat
          /\ notes.initial.cluster \in Nat /\ notes.initial.workload \in Nat
          /\ notes.frozen \in Nat
      BY DEF CampaignInv, CampaignTyped, CampaignTypeOK, World, Notes, Snapshot
    <3>2. QED
      BY <1>1, <2>1, <3>1
      DEF CampaignInv, Onward, Moved, Detectable, ClusterMoved, WorkloadMoved, control
  <2>6. Detectable => Detectable'
    BY <1>1, <2>1 DEF Detectable, ClusterMoved, WorkloadMoved, control
  <2>7. job = "benchmark" => slot \in 1..Slots /\ slots[slot] # "success"
    BY <1>2 DEF CampaignInv, CampaignTyped, CampaignTypeOK, InSlot, Ahead
  <2>8. Suspects'
    <3>1. ASSUME NEW s \in mixed' PROVE /\ s <= slot /\ slots[s] # "success"
                                        /\ s = slot => Detectable'
      <4>1. s \in mixed \/ (s = slot /\ job = "benchmark" /\ Moved)
        BY <2>2
      <4>2. s \in mixed => /\ s <= slot /\ slots[s] # "success"
                           /\ s = slot => Detectable
        BY DEF CampaignInv, Suspects
      <4>3. slot <= slot
        BY DEF CampaignInv, CampaignTyped, CampaignTypeOK
      <4>4. QED
        BY <2>5, <2>6, <2>7, <4>1, <4>2, <4>3
    <3>2. QED
      BY <2>1, <3>1 DEF Suspects, control
  <2>9. Ahead'
    BY <2>1 DEF CampaignInv, Ahead, control
  <2>10. CampaignTyped'
    <3>1. mixed' \subseteq 1..Slots
      BY <2>2, <2>7 DEF CampaignInv, CampaignTyped, CampaignTypeOK
    <3>2. QED
      BY <1>1, <2>1, <3>1 DEF CampaignInv, CampaignTyped, CampaignTypeOK, control
  <2>11. QED
    BY <2>3, <2>4, <2>8, <2>9, <2>10 DEF CampaignInv
<1>4. CASE sequence \notin live
  <2>1. cmd' = "idle" /\ active' = FALSE /\ (Completed \/ Closing)
    BY <1>4 DEF Collect
  <2>2. /\ CampaignTyped /\ Onward /\ Suspects /\ Ahead
    BY DEF CampaignInv
  <2>3. Onward' /\ Suspects' /\ Ahead' /\ mixed' \subseteq 1..Slots
    BY <1>1, <1>2, <2>1, <2>2, ControlKeepsSlots
  <2>4. /\ job' \in Jobs \cup {"closing"}
        /\ job' \in Jobs => (job' \in InSlot <=> slot' # 0)
        /\ slot' \in 0..Slots
        /\ slots' \in [1..Slots -> {"not_run", "running", "success", "failed"}]
        /\ status' \in {"in_progress", "success", "failed"}
        /\ job' = "closing" => status' # "in_progress"
        /\ report' = report
        /\ notes' \in Notes
    BY <1>2, <2>1, <2>2, ControlKeepsTypes
  <2>5. CampaignTyped'
    BY <1>1, <2>1, <2>2, <2>3, <2>4 DEF CampaignTyped, CampaignTypeOK
  <2>6. Held'
    BY <1>1, <1>2, <1>4, <2>1, <2>4 DEF CampaignInv, Held, Jobs
  <2>7. QED
    BY <2>3, <2>5, <2>6 DEF CampaignInv
<1>5. QED
  BY <1>3, <1>4

(***************************************************************************)
(* TimeOut: the group that does not end in time is stopped.                *)
(***************************************************************************)
LEMMA TimeOutPreserves == CampaignInv /\ TimeOut => CampaignInv'
<1> SUFFICES ASSUME CampaignInv, TimeOut PROVE CampaignInv'
  OBVIOUS
<1>1. /\ cmd = "waiting" /\ cmd' = "stopping"
      /\ UNCHANGED <<control, active, sequence, live, leader, abandoned, outside>>
  BY DEF TimeOut
<1>2. CampaignTyped'
  BY <1>1 DEF CampaignInv, CampaignTyped, CampaignTypeOK, control, outside
<1>3. Held'
  BY <1>1 DEF CampaignInv, Held, control, Jobs
<1>4. QED
  BY <1>1, <1>2, <1>3, ProcessesKeepSlots DEF CampaignInv, outside

(***************************************************************************)
(* The end of run(): by the report, or by a signal in its finally.         *)
(***************************************************************************)
LEMMA EndingKeepsSlots ==
    ASSUME CampaignInv, job' \in {"closing", "ended"},
           \/ UNCHANGED <<slot, notes, slots>>
           \/ Closing,
           UNCHANGED <<world, mixed>>
    PROVE  /\ Onward' /\ Suspects' /\ Ahead'
           /\ slot' = slot /\ notes' = notes
           /\ slots' \in [1..Slots -> {"not_run", "running", "success", "failed"}]
<1>1. /\ slot \in 0..Slots /\ mixed \subseteq 1..Slots
      /\ slots \in [1..Slots -> {"not_run", "running", "success", "failed"}]
  BY DEF CampaignInv, CampaignTyped, CampaignTypeOK
<1>2. /\ slot' = slot /\ notes' = notes
      /\ slots' \in [1..Slots -> {"not_run", "running", "success", "failed"}]
      /\ \A s \in 1..Slots : slots'[s] = "success" => slots[s] = "success"
  BY <1>1 DEF Closing, Abort
<1>3. Onward'
  BY <1>2 DEF CampaignInv, Onward
<1>4. Suspects'
  BY <1>1, <1>2 DEF CampaignInv, Suspects, Detectable
<1>5. Ahead'
  BY <1>1, <1>2 DEF CampaignInv, Ahead, Jobs
<1>6. QED
  BY <1>2, <1>3, <1>4, <1>5

(***************************************************************************)
(* Stopped: the group is gone when stop_active() returns, and in the       *)
(* finally the report follows.                                             *)
(***************************************************************************)
LEMMA StoppedPreserves == CampaignInv /\ Stopped => CampaignInv'
<1> SUFFICES ASSUME CampaignInv, Stopped PROVE CampaignInv'
  OBVIOUS
<1>1. /\ cmd = "stopping" /\ live' = live \ {sequence} /\ cmd' = "idle" /\ active' = FALSE
      /\ UNCHANGED <<sequence, leader, abandoned, outside>>
  BY DEF Stopped
<1>2. CampaignTyped /\ Held
  BY DEF CampaignInv
<1>3. active /\ report = NoReport /\ job \in Jobs \cup {"closing"}
  BY <1>1, <1>2 DEF Held, CampaignTyped, CampaignTypeOK
<1>4. live' \subseteq abandoned
  BY <1>1, <1>2, <1>3 DEF Held
<1>5. /\ job' \in {"closing", "ended"} /\ status' \in {"success", "failed"}
      /\ \/ UNCHANGED <<slot, notes, slots>>
         \/ Closing
      /\ \/ report' = report
         \/ /\ job' = "ended"
            /\ report' \in [status : {"success", "failed"}, cleanup_error : BOOLEAN]
  <2>1. CASE job = "closing"
    <3>1. Write(sequence \in live)
      BY <2>1 DEF Stopped
    <3>2. status # "in_progress"
      BY <1>2, <2>1 DEF Held
    <3>3. QED
      BY <1>2, <3>1, <3>2 DEF Write, CampaignTyped, CampaignTypeOK
  <2>2. CASE job # "closing"
    BY <2>2 DEF Stopped, Closing, Abort
  <2>3. QED
    BY <2>1, <2>2
<1>6. /\ Onward' /\ Suspects' /\ Ahead'
      /\ slot' = slot /\ notes' = notes
      /\ slots' \in [1..Slots -> {"not_run", "running", "success", "failed"}]
  BY <1>1, <1>5, EndingKeepsSlots DEF outside
<1>7. CampaignTyped'
  BY <1>1, <1>2, <1>5, <1>6 DEF CampaignTyped, CampaignTypeOK, outside, Jobs
<1>8. Held'
  BY <1>1, <1>2, <1>3, <1>4, <1>5 DEF Held, Jobs
<1>9. QED
  BY <1>6, <1>7, <1>8 DEF CampaignInv

(***************************************************************************)
(* Finish: the report is written with nobody left to hold.                 *)
(***************************************************************************)
LEMMA FinishPreserves == CampaignInv /\ Finish => CampaignInv'
<1> SUFFICES ASSUME CampaignInv, Finish PROVE CampaignInv'
  OBVIOUS
<1>1. /\ job = "closing" /\ cmd = "idle"
      /\ UNCHANGED <<sequence, live, leader, abandoned, outside>>
  BY DEF Finish
<1>2. CampaignTyped /\ Held
  BY DEF CampaignInv
<1>3. CASE active
  <2>1. cmd' = "stopping" /\ UNCHANGED <<control, active>>
    BY <1>3 DEF Finish
  <2>2. CampaignTyped'
    BY <1>1, <1>2, <2>1 DEF CampaignTyped, CampaignTypeOK, control, outside
  <2>3. Held'
    BY <1>1, <1>2, <1>3, <2>1 DEF Held, control, Jobs
  <2>4. QED
    BY <1>1, <2>1, <2>2, <2>3, ProcessesKeepSlots DEF CampaignInv, outside
<1>4. CASE ~active
  <2>1. Write(FALSE) /\ UNCHANGED <<cmd, active>>
    BY <1>4 DEF Finish
  <2>2. /\ job' = "ended" /\ status' = status /\ status \in {"success", "failed"}
        /\ report' = [status |-> status, cleanup_error |-> FALSE]
        /\ UNCHANGED <<slot, notes, slots>>
    BY <1>1, <1>2, <2>1 DEF Write, Held, CampaignTyped, CampaignTypeOK
  <2>3. /\ Onward' /\ Suspects' /\ Ahead'
    BY <1>1, <2>2, EndingKeepsSlots DEF outside
  <2>4. CampaignTyped'
    BY <1>1, <1>2, <2>1, <2>2 DEF CampaignTyped, CampaignTypeOK, outside, Jobs
  <2>5. Held'
    BY <1>1, <1>2, <1>4, <2>1, <2>2 DEF Held, Jobs
  <2>6. QED
    BY <2>3, <2>4, <2>5 DEF CampaignInv
<1>5. QED
  BY <1>3, <1>4

(***************************************************************************)
(* Interrupt: a group whose handle is lost is written down as lost, and    *)
(* run() starts no other command.                                          *)
(***************************************************************************)
LEMMA InterruptPreserves ==
    ASSUME NEW sig \in Signals, CampaignInv, Interrupt(sig)
    PROVE  CampaignInv'
<1> USE CampaignAssumption
<1>1. /\ job # "ended" /\ signals < MaxSignals
      /\ sigterm' = IF sig = "TERM" THEN "ignored" ELSE sigterm
      /\ signals' = signals + 1
      /\ abandoned' = IF cmd \in {"spawning", "stopping"}
                      THEN abandoned \cup {sequence} ELSE abandoned
      /\ UNCHANGED <<sequence, live, leader, world, changes, mixed>>
  BY DEF Interrupt
<1>2. CampaignTyped /\ Held
  BY DEF CampaignInv
<1>3. sequence \in 1..sequence \/ cmd \notin {"spawning", "stopping"}
  BY <1>2 DEF Held, CampaignTyped, CampaignTypeOK
<1>4. CASE cmd = "waiting"
  <2>1. cmd' = "stopping" /\ UNCHANGED <<control, active>>
    BY <1>4 DEF Interrupt
  <2>2. CampaignTyped'
    BY <1>1, <1>2, <1>4, <2>1 DEF CampaignTyped, CampaignTypeOK, control
  <2>3. Held'
    BY <1>1, <1>2, <1>4, <2>1 DEF Held, control, Jobs
  <2>4. QED
    BY <1>1, <2>1, <2>2, <2>3, ProcessesKeepSlots DEF CampaignInv
<1>5. CASE cmd # "waiting"
  <2>1. cmd' = "idle" /\ active' = (active /\ cmd # "stopping")
    BY <1>5 DEF Interrupt
  <2>2. /\ job' \in {"closing", "ended"} /\ status' \in {"success", "failed"}
        /\ \/ UNCHANGED <<slot, notes, slots>>
           \/ Closing
        /\ report' = report
        /\ report = NoReport
    <3>1. report = NoReport
      BY <1>1, <1>2 DEF Held
    <3>2. CASE job = "closing"
      BY <1>2, <1>5, <3>1, <3>2 DEF Interrupt, Held, CampaignTyped, CampaignTypeOK
    <3>3. CASE job # "closing"
      BY <1>5, <3>1, <3>3 DEF Interrupt, Closing, Abort
    <3>4. QED
      BY <3>2, <3>3
  <2>3. /\ Onward' /\ Suspects' /\ Ahead'
        /\ slot' = slot /\ notes' = notes
        /\ slots' \in [1..Slots -> {"not_run", "running", "success", "failed"}]
    BY <1>1, <2>2, EndingKeepsSlots
  <2>4. CampaignTyped'
    <3>1. abandoned' \subseteq 1..sequence
      BY <1>1, <1>2, <1>3 DEF CampaignTyped, CampaignTypeOK
    <3>2. signals' \in 0..MaxSignals
      BY <1>1, <1>2 DEF CampaignTyped, CampaignTypeOK
    <3>3. QED
      BY <1>1, <1>2, <2>1, <2>2, <2>3, <3>1, <3>2 DEF CampaignTyped, CampaignTypeOK, Jobs
  <2>5. Held'
    <3>1. live' \subseteq abandoned' \cup (IF active' \/ cmd' = "spawning" THEN {sequence'} ELSE {})
      BY <1>1, <1>2, <2>1 DEF Held
    <3>2. active' => sequence' # 0
      BY <1>1, <1>2, <2>1 DEF Held
    <3>3. QED
      BY <2>1, <2>2, <3>1, <3>2 DEF Held, Jobs
  <2>6. QED
    BY <2>3, <2>4, <2>5 DEF CampaignInv
<1>6. QED
  BY <1>4, <1>5

(***************************************************************************)
(* The child processes exit, at their time or after it.                    *)
(***************************************************************************)
LEMMA ChildrenPreserve ==
    CampaignInv /\ ((\E code \in {"ok", "bad"} : Exit(code)) \/ DescendantsExit) => CampaignInv'
<1> SUFFICES ASSUME CampaignInv, (\E code \in {"ok", "bad"} : Exit(code)) \/ DescendantsExit
             PROVE  CampaignInv'
  OBVIOUS
<1>1. /\ leader' \in {"running", "ok", "bad"} /\ live' \subseteq live
      /\ UNCHANGED <<control, cmd, active, sequence, abandoned, outside>>
  BY DEF Exit, DescendantsExit, CampaignInv, CampaignTyped, CampaignTypeOK
<1>2. CampaignTyped'
  BY <1>1 DEF CampaignInv, CampaignTyped, CampaignTypeOK, control, outside
<1>3. Held'
  BY <1>1 DEF CampaignInv, Held, control
<1>4. QED
  BY <1>1, <1>2, <1>3, ProcessesKeepSlots DEF CampaignInv, outside

(***************************************************************************)
(* Apply: the benchmark's policy is none of what identifies the world.     *)
(***************************************************************************)
LEMMA ApplyPreserves == CampaignInv /\ Apply => CampaignInv'
<1> SUFFICES ASSUME CampaignInv, Apply PROVE CampaignInv'
  OBVIOUS
<1> USE CampaignAssumption
<1>1. /\ job = "benchmark"
      /\ world' = [world EXCEPT !.phpa = slot]
      /\ notes' = [notes EXCEPT !.applied = slot]
      /\ UNCHANGED <<job, slot, slots, status, report, process, sigterm, signals, changes, mixed>>
  BY DEF Apply
<1>2. CampaignTyped /\ slot \in 1..Slots /\ world \in World /\ notes \in Notes
  BY <1>1 DEF CampaignInv, CampaignTyped, CampaignTypeOK, Jobs, InSlot
<1>3. /\ UNCHANGED <<world.cluster, world.workload, world.source>>
      /\ UNCHANGED <<notes.current, notes.initial, notes.frozen>>
      /\ world' \in World /\ notes' \in Notes
  BY <1>1, <1>2 DEF World, Notes
<1>4. CampaignTyped'
  BY <1>1, <1>2, <1>3 DEF CampaignTyped, CampaignTypeOK, process
<1>5. Held'
  BY <1>1 DEF CampaignInv, Held, process
<1>6. Onward'
  BY <1>3 DEF CampaignInv, Onward
<1>7. Detectable' <=> Detectable
  BY <1>1, <1>3 DEF Detectable, ClusterMoved, WorkloadMoved
<1>8. Suspects' /\ Ahead'
  BY <1>1, <1>7 DEF CampaignInv, Suspects, Ahead
<1>9. QED
  BY <1>4, <1>5, <1>6, <1>8 DEF CampaignInv

(***************************************************************************)
(* Change: whatever moves stays to be found by a check of the slot.        *)
(***************************************************************************)
LEMMA ChangePreserves == CampaignInv /\ Change => CampaignInv'
<1> SUFFICES ASSUME CampaignInv, Change PROVE CampaignInv'
  OBVIOUS
<1> USE CampaignAssumption
<1>1. /\ job \in Jobs /\ changes < MaxChanges /\ changes' = changes + 1
      /\ UNCHANGED <<control, process, sigterm, signals>>
      /\ Watch
  BY DEF Change
<1>2. CampaignTyped /\ world \in World /\ notes \in Notes /\ slot \in 0..Slots
  BY DEF CampaignInv, CampaignTyped, CampaignTypeOK
<1>3. /\ world.cluster \in Nat /\ world.workload \in Nat /\ world.source \in Nat
      /\ world.binary \in Nat /\ world.rival \in BOOLEAN
  BY <1>2 DEF World
<1>4. /\ notes.initial.cluster \in Nat /\ notes.initial.workload \in Nat
      /\ notes.current.cluster \in Nat /\ notes.frozen \in Nat
  BY <1>2 DEF Notes, Snapshot
<1>5. world' \in World
  <2>1. CASE world' = [world EXCEPT !.rival = ~@]
    BY <1>2, <2>1, Zenon DEF World
  <2>2. CASE world' = [world EXCEPT !.phpa = Foreign]
    BY <1>2, <2>2, Zenon DEF World
  <2>3. CASE world' = [world EXCEPT !.cluster = @ + 1]
    BY <1>2, <1>3, <2>3 DEF World
  <2>4. CASE world' = [world EXCEPT !.workload = @ + 1]
    BY <1>2, <1>3, <2>4 DEF World
  <2>5. CASE world' = [world EXCEPT !.source = @ + 1]
    BY <1>2, <1>3, <2>5 DEF World
  <2>6. CASE world' = [world EXCEPT !.binary = @ + 1]
    BY <1>2, <1>3, <2>6 DEF World
  <2>7. QED
    BY <2>1, <2>2, <2>3, <2>4, <2>5, <2>6 DEF Change
<1>6. /\ world.cluster <= world'.cluster /\ world.workload <= world'.workload
      /\ world.source <= world'.source
  BY <1>2, <1>3 DEF Change, World
<1>7. /\ world'.cluster \in Nat /\ world'.workload \in Nat /\ world'.source \in Nat
  BY <1>5 DEF World
<1>8. Onward'
  BY <1>1, <1>3, <1>4, <1>6, <1>7 DEF CampaignInv, Onward, control
<1>9. mixed' = IF job = "benchmark" /\ Moved THEN mixed \cup {slot} ELSE mixed
  BY <1>1 DEF Watch, control
<1>10. job = "benchmark" /\ Moved => Detectable'
  BY <1>1, <1>4, <1>7, <1>8 DEF Onward, Moved, Detectable, ClusterMoved, WorkloadMoved, control
<1>11. Detectable => Detectable'
  BY <1>1, <1>3, <1>4, <1>6, <1>7 DEF Detectable, ClusterMoved, WorkloadMoved, control
<1>12. job = "benchmark" => slot \in 1..Slots /\ slots[slot] # "success"
  BY <1>1, <1>2 DEF CampaignInv, CampaignTyped, InSlot, Ahead
<1>13. Suspects'
  <2>1. ASSUME NEW s \in mixed' PROVE /\ s <= slot /\ slots[s] # "success"
                                      /\ s = slot => Detectable'
    <3>1. s \in mixed \/ (s = slot /\ job = "benchmark" /\ Moved)
      BY <1>9
    <3>2. s \in mixed => /\ s <= slot /\ slots[s] # "success"
                         /\ s = slot => Detectable
      BY DEF CampaignInv, Suspects
    <3>3. slot <= slot
      BY <1>2
    <3>4. QED
      BY <1>10, <1>11, <1>12, <3>1, <3>2, <3>3
  <2>2. QED
    BY <1>1, <2>1 DEF Suspects, control
<1>14. Ahead'
  BY <1>1 DEF CampaignInv, Ahead, control
<1>15. Held'
  BY <1>1 DEF CampaignInv, Held, control, process
<1>16. CampaignTyped'
  <2>1. mixed' \subseteq 1..Slots
    BY <1>2, <1>9, <1>12 DEF CampaignTyped, CampaignTypeOK
  <2>2. changes' \in 0..MaxChanges
    BY <1>1, <1>2 DEF CampaignTyped, CampaignTypeOK
  <2>3. QED
    BY <1>1, <1>2, <1>5, <2>1, <2>2 DEF CampaignTyped, CampaignTypeOK, control, process
<1>17. QED
  BY <1>8, <1>13, <1>14, <1>15, <1>16 DEF CampaignInv

(***************************************************************************)
(* Every step of the campaign, and every other program's, keeps it.        *)
(***************************************************************************)
LEMMA CampaignStays == CampaignInv /\ [CampaignNext]_campaignVars => CampaignInv'
<1> SUFFICES ASSUME CampaignInv, [CampaignNext]_campaignVars PROVE CampaignInv'
  OBVIOUS
<1>1. CASE CampaignStep
  BY <1>1, SpawnPreserves, StorePreserves, CollectPreserves, TimeOutPreserves,
     StoppedPreserves, FinishPreserves DEF CampaignStep
<1>2. CASE \E sig \in Signals : Interrupt(sig)
  BY <1>2, InterruptPreserves
<1>3. CASE (\E code \in {"ok", "bad"} : Exit(code)) \/ DescendantsExit
  BY <1>3, ChildrenPreserve
<1>4. CASE Apply \/ Change
  BY <1>4, ApplyPreserves, ChangePreserves
<1>5. CASE UNCHANGED campaignVars
  <2>1. UNCHANGED <<control, process, outside>>
    BY <1>5 DEF campaignVars, control, process, outside
  <2>2. CampaignTyped' /\ Held'
    BY <2>1 DEF CampaignInv, CampaignTyped, CampaignTypeOK, Held, control, process, outside
  <2>3. QED
    BY <2>1, <2>2, ProcessesKeepSlots DEF CampaignInv, outside
<1>6. QED
  BY <1>1, <1>2, <1>3, <1>4, <1>5 DEF CampaignNext
-----------------------------------------------------------------------------
(***************************************************************************)
(* The invariant holds in every state of every campaign.                   *)
(***************************************************************************)
LEMMA CampaignInvariant == CampaignInit /\ [][CampaignNext]_campaignVars => []CampaignInv
  BY CampaignStarts, CampaignStays, PTL

(***************************************************************************)
(* The variables of a campaign keep their types, run()'s notes excepted,   *)
(* which the invariant types.                                              *)
(***************************************************************************)
THEOREM CampaignTypeCorrect == CampaignSpec => []CampaignTypeOK
<1>1. CampaignInv => CampaignTypeOK
  BY DEF CampaignInv, CampaignTyped
<1>2. QED
  BY <1>1, CampaignInvariant, PTL DEF CampaignSpec

(***************************************************************************)
(* However the commands of a campaign fail, hang, lose descendants or are  *)
(* interrupted: whoever reads its report finds none of their processes     *)
(* running, except those of a group that a signal made it lose             *)
(* (run_cadence_campaign.py, command(), terminate() and run()'s finally).  *)
(***************************************************************************)
THEOREM NothingOutlivesReportHolds == CampaignSpec => []NothingOutlivesReport
<1>1. CampaignInv => NothingOutlivesReport
  BY DEF CampaignInv, Held, NothingOutlivesReport
<1>2. QED
  BY <1>1, CampaignInvariant, PTL DEF CampaignSpec

(***************************************************************************)
(* A slot that succeeds was measured in the world the campaign began with: *)
(* no change of the cluster, the workload or the sources during its        *)
(* benchmark passes the checks that follow, torn snapshots included.       *)
(***************************************************************************)
THEOREM SlotsSawOneWorldHolds == CampaignSpec => []SlotsSawOneWorld
<1>1. CampaignInv => SlotsSawOneWorld
  BY DEF CampaignInv, Suspects, SlotsSawOneWorld
<1>2. QED
  BY <1>1, CampaignInvariant, PTL DEF CampaignSpec

(***************************************************************************)
(* No process group is started while a process of an earlier one lives.    *)
(***************************************************************************)
THEOREM NoOverlapHolds == CampaignSpec => NoOverlap
<1>1. CampaignInv /\ [CampaignNext]_campaignVars
        => [sequence' # sequence => live = {}]_campaignVars
  <2> SUFFICES ASSUME CampaignInv, CampaignNext, sequence' # sequence PROVE live = {}
    OBVIOUS
  <2>1. Spawn
    BY DEF CampaignNext, CampaignStep, Store, Collect, TimeOut, Stopped, Finish, Interrupt,
           Exit, DescendantsExit, Apply, Change, process
  <2>2. QED
    BY <2>1, SpawnPreserves
<1>2. QED
  BY <1>1, CampaignInvariant, PTL DEF CampaignSpec, NoOverlap
-----------------------------------------------------------------------------
(***************************************************************************)
(* The runner of an owned cluster.  The container under the name is always *)
(* the youngest, and those that are ours exist only since self.created.    *)
(***************************************************************************)
OwnedTyped ==
    /\ suite \in {"acceptance", "e2e"} /\ at \in 1..Len(Owned!Plan)
    /\ births \in Nat /\ node \in {0, births}
    /\ mine \subseteq 1..births /\ seen \subseteq 1..births
    /\ node_id \in mine \cup {0}

Remembered ==
    /\ created \/ (mine = {} /\ ~escaped)
    /\ (stage = "run" /\ at > 4) \/ tool => mine # {}

(***************************************************************************)
(* While run() goes on it has looked at nothing foreign, and the cleanup   *)
(* deletes only after it has recognised a container of ours, no older than *)
(* any it has looked at.                                                   *)
(***************************************************************************)
Recognised ==
    /\ stage = "run" => seen \subseteq mine
    /\ stage \in {"identity", "delete"} => node_id \in mine /\ \A c \in seen : c <= node_id

(***************************************************************************)
(* After the last look of the cleanup what comes of ours comes late.       *)
(***************************************************************************)
LookedLast ==
    stage \in {"remove-files", "reported"} /\ "cleanup" \notin summary => node \notin mine \ late

OwnedInv == OwnedTyped /\ Remembered /\ Recognised /\ LookedLast

(***************************************************************************)
(* The plans begin alike, and what comes after create comes after it.      *)
(***************************************************************************)
LEMMA PlanFacts ==
    ASSUME suite \in {"acceptance", "e2e"}, at \in 1..Len(Owned!Plan)
    PROVE  /\ Len(Owned!Plan) > 4 /\ Len(Owned!Plan) \in Nat
           /\ at = 4 <=> Owned!Plan[at] = "create"
           /\ at > 4 <=> Owned!Plan[at] \notin {"clusters", "containers", "prepare", "create"}
           /\ Owned!Plan[at] = "import" /\ suite = "acceptance" => at + 3 <= Len(Owned!Plan)
<1>1. CASE suite = "acceptance"
  <2>1. Owned!Plan = <<"clusters", "containers", "prepare", "create", "node", "uid", "load",
      "image", "node", "uid", "import", "node", "uid", "monitoring", "node", "uid",
      "helm", "suite">>
    BY <1>1 DEF Owned!Plan, Owned!AcceptancePlan
  <2>2. Len(Owned!Plan) = 18
    BY <2>1
  <2>3. QED
    BY <2>1, <2>2
<1>2. CASE suite # "acceptance"
  <2>1. Owned!Plan = <<"clusters", "containers", "prepare", "create", "node", "uid", "import",
      "node", "uid", "suite">>
    BY <1>2 DEF Owned!Plan, Owned!EndToEndPlan
  <2>2. Len(Owned!Plan) = 10
    BY <2>1
  <2>3. QED
    BY <1>2, <2>1, <2>2
<1>3. QED
  BY <1>1, <1>2

(***************************************************************************)
(* The runner starts before create, with nothing of its own.               *)
(***************************************************************************)
LEMMA OwnedStarts == Owned!OwnedInit => OwnedInv
<1> SUFFICES ASSUME Owned!OwnedInit PROVE OwnedInv
  OBVIOUS
<1>1. suite \in {"acceptance", "e2e"} /\ at = 1
  BY DEF Owned!OwnedInit
<1>2. 1 \in 1..Len(Owned!Plan)
  BY <1>1 DEF Owned!Plan, Owned!AcceptancePlan, Owned!EndToEndPlan
<1>3. QED
  BY <1>1, <1>2 DEF Owned!OwnedInit, OwnedInv, OwnedTyped, Remembered, Recognised, LookedLast

(***************************************************************************)
(* A step of run() before or after create: Docker has nothing new, and the *)
(* next step lies on the same side of create.                              *)
(***************************************************************************)
LEMMA RunKeepsOwned ==
    ASSUME OwnedInv, stage = "run", at # 4,
           \/ Owned!Forward /\ UNCHANGED summary
           \/ /\ stage' = "run" /\ at' \in at..Len(Owned!Plan) /\ (at < 4 => at' = at)
              /\ UNCHANGED summary
           \/ Owned!GiveUp(created),
           UNCHANGED <<suite, node, births, mine, escaped, late, created>>,
           seen' \subseteq seen \cup mine, node_id' \in mine \cup {0},
           tool' => tool \/ at > 4
    PROVE  OwnedInv'
<1>1. /\ suite \in {"acceptance", "e2e"} /\ at \in 1..Len(Owned!Plan)
      /\ births \in Nat /\ node \in {0, births}
      /\ mine \subseteq 1..births /\ seen \subseteq 1..births
  BY DEF OwnedInv, OwnedTyped
<1>2. Len(Owned!Plan) > 4 /\ Len(Owned!Plan) \in Nat
  BY <1>1, PlanFacts
<1>3. Owned!Plan' = Owned!Plan
  BY DEF Owned!Plan
<1>4. /\ at' \in 1..Len(Owned!Plan)
      /\ at' > 4 => at > 4
      /\ stage' \in {"run", "diagnose"} \/ (stage' = "remove-files" /\ ~created)
  BY <1>1, <1>2 DEF Owned!Forward, Owned!GiveUp
<1>5. OwnedTyped'
  BY <1>1, <1>3, <1>4 DEF OwnedTyped
<1>6. Remembered'
  BY <1>4 DEF OwnedInv, Remembered
<1>7. Recognised'
  BY <1>4 DEF OwnedInv, Recognised
<1>8. LookedLast'
  BY <1>4 DEF OwnedInv, Remembered, LookedLast
<1>9. QED
  BY <1>5, <1>6, <1>7, <1>8 DEF OwnedInv

(***************************************************************************)
(* The steps of run(), except the creation of the cluster, keep the        *)
(* invariant.                                                              *)
(***************************************************************************)
LEMMA RunPreservesOwned ==
    /\ OwnedInv
    /\ \/ Owned!Fail \/ Owned!NameFree \/ Owned!Prepare \/ Owned!InspectNode
       \/ Owned!ClusterIdentity \/ Owned!Load \/ Owned!VerifyImage \/ Owned!Import \/ Owned!NoImport
       \/ Owned!Monitoring \/ Owned!Helm \/ Owned!RunSuite \/ Owned!ToolGuard \/ Owned!ToolExec
    => OwnedInv'
<1> SUFFICES ASSUME OwnedInv,
                    \/ Owned!Fail \/ Owned!NameFree \/ Owned!Prepare \/ Owned!InspectNode
                    \/ Owned!ClusterIdentity \/ Owned!Load \/ Owned!VerifyImage \/ Owned!Import
                    \/ Owned!NoImport \/ Owned!Monitoring \/ Owned!Helm \/ Owned!RunSuite
                    \/ Owned!ToolGuard \/ Owned!ToolExec
             PROVE  OwnedInv'
  OBVIOUS
<1>1. /\ suite \in {"acceptance", "e2e"} /\ at \in 1..Len(Owned!Plan)
      /\ births \in Nat /\ node \in {0, births}
      /\ mine \subseteq 1..births /\ seen \subseteq 1..births /\ node_id \in mine \cup {0}
  BY DEF OwnedInv, OwnedTyped
<1>2. /\ Len(Owned!Plan) > 4 /\ Len(Owned!Plan) \in Nat
      /\ at = 4 <=> Owned!Plan[at] = "create"
      /\ at > 4 <=> Owned!Plan[at] \notin {"clusters", "containers", "prepare", "create"}
      /\ Owned!Plan[at] = "import" /\ suite = "acceptance" => at + 3 <= Len(Owned!Plan)
  BY <1>1, PlanFacts
<1> DEFINE Rest == /\ UNCHANGED <<suite, node, births, mine, escaped, late, created>>
                   /\ seen' \subseteq seen \cup mine /\ node_id' \in mine \cup {0}
<1>3. CASE Owned!Fail
  <2>1. Rest /\ stage = "run" /\ at # 4 /\ Owned!GiveUp(created) /\ ~tool'
    BY <1>1, <1>2, <1>3 DEF Owned!Fail, Owned!Doing, Owned!docker, Owned!memory, Owned!history
  <2>2. QED
    BY <2>1, RunKeepsOwned
<1>4. CASE \/ Owned!NameFree \/ Owned!Prepare \/ Owned!VerifyImage \/ Owned!Import
           \/ Owned!Monitoring \/ Owned!Helm \/ Owned!RunSuite
  <2>1. /\ stage = "run" /\ Owned!Forward /\ at # 4
        /\ UNCHANGED <<Owned!docker, Owned!memory, summary, Owned!nested, Owned!history>>
    BY <1>2, <1>4 DEF Owned!NameFree, Owned!Prepare, Owned!VerifyImage, Owned!Import,
                      Owned!Monitoring, Owned!Helm, Owned!RunSuite, Owned!Harmless, Owned!Doing
  <2>2. Rest /\ UNCHANGED <<summary, tool>>
    BY <1>1, <2>1 DEF Owned!docker, Owned!memory, Owned!nested, Owned!history
  <2>3. QED
    BY <2>1, <2>2, RunKeepsOwned
<1>5. CASE Owned!NoImport
  <2>1. /\ stage = "run" /\ at # 4 /\ at' = at + 3 /\ at > 4 /\ UNCHANGED stage
        /\ at + 3 <= Len(Owned!Plan)
        /\ UNCHANGED <<Owned!docker, Owned!memory, summary, Owned!nested, Owned!history>>
    BY <1>2, <1>5 DEF Owned!NoImport, Owned!Doing
  <2>2. Rest /\ UNCHANGED <<summary, tool>>
    BY <1>1, <2>1 DEF Owned!docker, Owned!memory, Owned!nested, Owned!history
  <2>3. stage' = "run" /\ at' \in at..Len(Owned!Plan) /\ (at < 4 => at' = at)
    BY <1>1, <1>2, <2>1
  <2>4. QED
    BY <2>1, <2>2, <2>3, RunKeepsOwned
<1>6. CASE Owned!InspectNode \/ Owned!ClusterIdentity
  <2>1. /\ stage = "run" /\ Owned!Forward /\ at # 4
        /\ UNCHANGED <<Owned!docker, suite, created, summary, Owned!nested>>
        /\ \/ Owned!Inspected /\ Owned!Look
           \/ Owned!Identified /\ UNCHANGED <<node_id, seen>>
    BY <1>2, <1>6 DEF Owned!InspectNode, Owned!ClusterIdentity, Owned!Doing, Owned!history
  <2>2. Rest /\ UNCHANGED <<summary, tool>>
    BY <1>1, <2>1 DEF Owned!docker, Owned!nested, Owned!Inspected, Owned!Look
  <2>3. QED
    BY <2>1, <2>2, RunKeepsOwned
<1>7. CASE Owned!Load
  <2>1. /\ stage = "run" /\ Owned!Forward /\ at # 4
        /\ UNCHANGED <<Owned!docker, Owned!memory, summary, Owned!nested, seen>>
    BY <1>2, <1>7 DEF Owned!Load, Owned!Doing
  <2>2. Rest /\ UNCHANGED <<summary, tool>>
    BY <1>1, <2>1 DEF Owned!docker, Owned!memory, Owned!nested
  <2>3. QED
    BY <2>1, <2>2, RunKeepsOwned
<1>8. CASE Owned!ToolGuard
  <2>1. /\ stage = "run" /\ at > 4 /\ at # 4 /\ node \in mine /\ Owned!Look
        /\ UNCHANGED <<stage, at, Owned!docker, Owned!memory, summary>>
    BY <1>1, <1>2, <1>8 DEF Owned!ToolGuard, Owned!Doing, Owned!Guarded
  <2>2. Rest
    BY <1>1, <2>1 DEF Owned!docker, Owned!memory, Owned!Look
  <2>3. at' \in at..Len(Owned!Plan)
    BY <1>1, <1>2, <2>1
  <2>4. QED
    BY <2>1, <2>2, <2>3, RunKeepsOwned
<1>9. CASE Owned!ToolExec
  <2>1. /\ stage = "run" /\ ~tool'
        /\ UNCHANGED <<stage, at, Owned!docker, Owned!memory, summary, seen>>
    BY <1>9 DEF Owned!ToolExec
  <2>2. UNCHANGED <<suite, node, births, mine, escaped, late, created, node_id>>
    BY <2>1 DEF Owned!docker, Owned!memory
  <2>3. QED
    BY <2>1, <2>2 DEF OwnedInv, OwnedTyped, Remembered, Recognised, LookedLast,
                      Owned!Plan
<1>10. QED
  BY <1>3, <1>4, <1>5, <1>6, <1>7, <1>8, <1>9

(***************************************************************************)
(* A container more.                                                       *)
(***************************************************************************)
LEMMA OneMore ==
    ASSUME NEW n \in Nat, NEW S \in SUBSET (1..n)
    PROVE  /\ n + 1 \in Nat
           /\ S \subseteq 1..(n + 1) /\ S \cup {n + 1} \subseteq 1..(n + 1)
  OBVIOUS

(***************************************************************************)
(* Create, the births of others and the late one.                          *)
(***************************************************************************)
LEMMA CreatePreserves == OwnedInv /\ Owned!Create => OwnedInv'
<1> SUFFICES ASSUME OwnedInv, Owned!Create PROVE OwnedInv'
  OBVIOUS
<1>1. /\ suite \in {"acceptance", "e2e"} /\ at \in 1..Len(Owned!Plan)
      /\ births \in Nat /\ node \in {0, births}
      /\ mine \subseteq 1..births /\ seen \subseteq 1..births /\ node_id \in mine \cup {0}
  BY DEF OwnedInv, OwnedTyped
<1>2. /\ Len(Owned!Plan) > 4 /\ Len(Owned!Plan) \in Nat
      /\ at = 4 <=> Owned!Plan[at] = "create"
  BY <1>1, PlanFacts
<1>3. /\ stage = "run" /\ at = 4 /\ created' = TRUE
      /\ UNCHANGED <<suite, node_id, cluster_uid, late, tool, seen>>
      /\ \/ /\ node = 0 /\ births' = births + 1 /\ node' = births' /\ mine' = mine \cup {births'}
            /\ Owned!Forward \/ Owned!GiveUp(TRUE)
         \/ UNCHANGED <<node, births, mine>> /\ Owned!GiveUp(TRUE)
  BY <1>2 DEF Owned!Create, Owned!Doing, Owned!Born, Owned!GiveUp, Owned!nested, Owned!history
<1>9. /\ births' \in Nat /\ node' \in {0, births'} /\ mine \subseteq mine'
      /\ mine' \subseteq 1..births' /\ seen' \subseteq 1..births'
  <2>1. \/ births' = births + 1 /\ node' = births' /\ mine' = mine \cup {births'}
        \/ UNCHANGED <<births, node, mine>>
    BY <1>3
  <2>2. QED
    BY <1>1, <1>3, <2>1, OneMore
<1>10. /\ stage' \in {"run", "diagnose"} /\ at' \in 1..Len(Owned!Plan)
       /\ stage' = "run" => mine' # {}
  <2>1. CASE Owned!GiveUp(TRUE)
    BY <1>1, <1>2, <1>3, <2>1 DEF Owned!GiveUp
  <2>2. CASE Owned!Forward /\ mine' = mine \cup {births'}
    BY <1>1, <1>2, <1>3, <2>2 DEF Owned!Forward
  <2>3. QED
    BY <1>3, <2>1, <2>2
<1>4. /\ births' \in Nat /\ node' \in {0, births'} /\ mine \subseteq mine'
      /\ mine' \subseteq 1..births' /\ seen' \subseteq 1..births'
      /\ stage' \in {"run", "diagnose"} /\ at' \in 1..Len(Owned!Plan)
      /\ stage' = "run" => mine' # {}
  BY <1>9, <1>10
<1>5. Owned!Plan' = Owned!Plan
  BY <1>3 DEF Owned!Plan
<1>6. OwnedTyped'
  BY <1>1, <1>3, <1>4, <1>5 DEF OwnedTyped
<1>7. Remembered'
  BY <1>3, <1>4 DEF OwnedInv, Remembered
<1>8. QED
  BY <1>3, <1>4, <1>6, <1>7 DEF OwnedInv, Recognised, LookedLast

(***************************************************************************)
(* Clusters that others create, or that ours creates late, keep the        *)
(* invariant.                                                              *)
(***************************************************************************)
LEMMA BirthsPreserve == OwnedInv /\ (Owned!SomebodyElse \/ Owned!LateBirth) => OwnedInv'
<1> SUFFICES ASSUME OwnedInv, Owned!SomebodyElse \/ Owned!LateBirth PROVE OwnedInv'
  OBVIOUS
<1>1. /\ suite \in {"acceptance", "e2e"} /\ at \in 1..Len(Owned!Plan)
      /\ births \in Nat /\ node \in {0, births}
      /\ mine \subseteq 1..births /\ seen \subseteq 1..births /\ node_id \in mine \cup {0}
  BY DEF OwnedInv, OwnedTyped
<1>2. /\ UNCHANGED <<stage, at, suite, node_id, created, summary, tool, seen>>
      /\ \/ /\ node' = births' /\ births' = births + 1 /\ UNCHANGED <<mine, escaped, late>>
         \/ node' = 0 /\ UNCHANGED <<births, mine, escaped, late>>
         \/ /\ escaped /\ ~escaped' /\ births' = births + 1 /\ node' = births'
            /\ mine' = mine \cup {births'}
            /\ late' = IF stage \in {"remove-files", "reported"} THEN late \cup {births'} ELSE late
  BY DEF Owned!SomebodyElse, Owned!LateBirth, Owned!Born, Owned!Removed, Owned!memory,
         Owned!nested, Owned!history
<1>3. OwnedTyped'
  <2>1. Owned!Plan' = Owned!Plan
    BY <1>2 DEF Owned!Plan
  <2>2. /\ births' \in Nat /\ node' \in {0, births'} /\ mine \subseteq mine'
        /\ mine' \subseteq 1..births' /\ seen' \subseteq 1..births'
    <3>1. /\ births' \in {births, births + 1} /\ node' \in {0, births'}
          /\ mine' = mine \/ (mine' = mine \cup {births'} /\ births' = births + 1)
      BY <1>2
    <3>2. QED
      BY <1>1, <1>2, <3>1, OneMore
  <2>3. QED
    BY <1>1, <1>2, <2>1, <2>2 DEF OwnedTyped
<1>4. Remembered'
  BY <1>2 DEF OwnedInv, Remembered
<1>5. Recognised'
  BY <1>1, <1>2 DEF OwnedInv, Recognised
<1>6. LookedLast'
  BY <1>1, <1>2 DEF OwnedInv, LookedLast
<1>7. QED
  BY <1>3, <1>4, <1>5, <1>6 DEF OwnedInv

(***************************************************************************)
(* finish(): the diagnosis may look at a foreign container, and the steps  *)
(* of cleanup() that follow do not take it for ours.                       *)
(***************************************************************************)
LEMMA FinishPreservesOwned ==
    /\ OwnedInv
    /\ \/ Owned!DiagnoseNode \/ Owned!DiagnoseCluster \/ Owned!CleanupFailed \/ Owned!LeftContainers
       \/ Owned!LeftClusters \/ Owned!InspectLeft \/ Owned!IdentifyLeft \/ Owned!Delete
       \/ Owned!Gone \/ Owned!Report
    => OwnedInv'
<1> SUFFICES ASSUME OwnedInv,
                    \/ Owned!DiagnoseNode \/ Owned!DiagnoseCluster \/ Owned!CleanupFailed
                    \/ Owned!LeftContainers \/ Owned!LeftClusters \/ Owned!InspectLeft
                    \/ Owned!IdentifyLeft \/ Owned!Delete \/ Owned!Gone \/ Owned!Report
             PROVE  OwnedInv'
  OBVIOUS
<1>1. /\ suite \in {"acceptance", "e2e"} /\ at \in 1..Len(Owned!Plan)
      /\ births \in Nat /\ node \in {0, births}
      /\ mine \subseteq 1..births /\ seen \subseteq 1..births /\ node_id \in mine \cup {0}
  BY DEF OwnedInv, OwnedTyped
<1>2. ASSUME UNCHANGED <<suite, at, births, mine, escaped, late, created, tool>>,
             node' \in {0, node}, stage' # "run",
             node_id' \in mine \cup {0}, seen' \subseteq 1..births,
             stage' \in {"identity", "delete"} =>
                 node_id' \in mine /\ \A c \in seen' : c <= node_id',
             stage' \in {"remove-files", "reported"} /\ "cleanup" \notin summary' =>
                 node' \notin mine \ late
      PROVE  OwnedInv'
  <2>1. Owned!Plan' = Owned!Plan
    BY <1>2 DEF Owned!Plan
  <2>2. OwnedTyped'
    BY <1>1, <1>2, <2>1 DEF OwnedTyped
  <2>3. Remembered'
    BY <1>2 DEF OwnedInv, Remembered
  <2>4. Recognised' /\ LookedLast'
    BY <1>2 DEF Recognised, LookedLast
  <2>5. QED
    BY <2>2, <2>3, <2>4 DEF OwnedInv
<1>3. CASE Owned!DiagnoseNode \/ Owned!DiagnoseCluster
  <2>1. /\ UNCHANGED <<suite, at, births, mine, escaped, late, created, tool, node>>
        /\ stage' \in {"diagnose-uid", "left-containers"}
    BY <1>3 DEF Owned!DiagnoseNode, Owned!DiagnoseCluster, Owned!docker, Owned!nested
  <2>2. node_id' = node_id \/ (node \in mine /\ node_id' = node)
    BY <1>3 DEF Owned!DiagnoseNode, Owned!DiagnoseCluster, Owned!Inspected
  <2>3. seen' = seen \/ seen' = seen \cup ({node} \ {0})
    BY <1>3 DEF Owned!DiagnoseNode, Owned!DiagnoseCluster, Owned!Look, Owned!history
  <2>4. seen' \subseteq 1..births
    <3>1. node # 0 => node \in 1..births
      BY <1>1
    <3>2. \A c \in seen' : c \in seen \/ (c = node /\ node # 0)
      BY <2>3
    <3>3. QED
      BY <1>1, <3>1, <3>2
  <2>5. QED
    BY <1>1, <1>2, <2>1, <2>2, <2>4
<1>4. CASE Owned!CleanupFailed
  <2>1. /\ UNCHANGED <<suite, at, births, mine, escaped, late, created, tool, seen, node_id>>
        /\ node' \in {0, node}
        /\ stage' = "remove-files" /\ "cleanup" \in summary'
    BY <1>4 DEF Owned!CleanupFailed, Owned!docker, Owned!nested, Owned!memory, Owned!Removed,
                Owned!history
  <2>2. QED
    BY <1>1, <1>2, <2>1
<1>5. CASE Owned!LeftContainers \/ Owned!LeftClusters \/ Owned!Gone
  <2>1. /\ UNCHANGED <<suite, at, births, mine, escaped, late, created, tool, seen, node_id, node>>
        /\ stage' \in {"left-clusters", "inspect", "gone-containers", "remove-files"}
        /\ stage' = "remove-files" => node = 0
    BY <1>5 DEF Owned!LeftContainers, Owned!LeftClusters, Owned!Gone, Owned!Step, Owned!docker,
                Owned!nested, Owned!history
  <2>2. QED
    BY <1>1, <1>2, <2>1
<1>6. CASE Owned!InspectLeft
  <2>1. /\ UNCHANGED <<suite, at, births, mine, escaped, late, created, tool, node>>
        /\ stage' \in {"identity", "delete"} /\ node \in mine /\ node_id' = node
        /\ seen' \subseteq 1..births
    BY <1>1, <1>6 DEF Owned!InspectLeft, Owned!Inspected, Owned!Look, Owned!Step, Owned!docker,
                      Owned!nested
  <2>2. node = births
    BY <1>1, <2>1
  <2>3. \A c \in seen' : c <= node
    BY <1>1, <2>1, <2>2
  <2>4. QED
    BY <1>2, <2>1, <2>3
<1>7. CASE Owned!IdentifyLeft
  <2>1. /\ UNCHANGED <<suite, at, births, mine, escaped, late, created, tool, node, node_id, seen>>
        /\ stage = "identity"
        /\ stage' = "delete" \/ (stage' = "remove-files" /\ "cleanup" \in summary')
    BY <1>7 DEF Owned!IdentifyLeft, Owned!Step, Owned!docker, Owned!nested, Owned!history
  <2>2. QED
    BY <1>1, <1>2, <2>1 DEF OwnedInv, Recognised
<1>8. CASE Owned!Delete
  <2>1. /\ UNCHANGED <<suite, at, births, mine, escaped, late, created, tool, node_id, seen>>
        /\ node' = 0 /\ stage' = "gone-clusters"
    BY <1>8 DEF Owned!Delete, Owned!Removed, Owned!Step, Owned!nested
  <2>2. QED
    BY <1>1, <1>2, <2>1
<1>9. CASE Owned!Report
  <2>1. /\ UNCHANGED <<suite, at, births, mine, escaped, late, created, tool, node, node_id, seen>>
        /\ stage = "remove-files" /\ stage' = "reported" /\ summary \subseteq summary'
    BY <1>9 DEF Owned!Report, Owned!docker, Owned!memory, Owned!nested, Owned!history
  <2>2. QED
    BY <1>1, <1>2, <2>1 DEF OwnedInv, LookedLast
<1>10. QED
  BY <1>3, <1>4, <1>5, <1>6, <1>7, <1>8, <1>9

(***************************************************************************)
(* Every step keeps the invariant.                                         *)
(***************************************************************************)
LEMMA OwnedStays == OwnedInv /\ [Owned!OwnedNext]_Owned!ownedVars => OwnedInv'
<1> SUFFICES ASSUME OwnedInv, [Owned!OwnedNext]_Owned!ownedVars PROVE OwnedInv'
  OBVIOUS
<1>1. CASE Owned!OwnedStep
  BY <1>1, RunPreservesOwned, CreatePreserves, FinishPreservesOwned DEF Owned!OwnedStep
<1>2. CASE Owned!SomebodyElse \/ Owned!LateBirth
  BY <1>2, BirthsPreserve
<1>3. CASE UNCHANGED Owned!ownedVars
  BY <1>3 DEF Owned!ownedVars, OwnedInv, OwnedTyped, Remembered, Recognised, LookedLast, Owned!Plan
<1>4. QED
  BY <1>1, <1>2, <1>3 DEF Owned!OwnedNext

(***************************************************************************)
(* The invariant holds in every state of the runner.                       *)
(***************************************************************************)
LEMMA OwnedInvariant == Owned!OwnedSpec => []OwnedInv
  BY OwnedStarts, OwnedStays, PTL DEF Owned!OwnedSpec

(***************************************************************************)
(* What the runner leaves of its own cluster it says in its summary,       *)
(* whatever fails in the run or in its cleanup.                            *)
(***************************************************************************)
THEOREM NothingLeftSilentlyHolds == Owned!OwnedSpec => []NothingLeftSilently
<1>1. OwnedInv => NothingLeftSilently
  BY DEF OwnedInv, LookedLast, NothingLeftSilently, Owned!NothingLeftSilently
<1>2. QED
  BY <1>1, OwnedInvariant, PTL

(***************************************************************************)
(* What is foreign under the name when something goes by name has taken    *)
(* the place of a container of ours and was looked at by no check.         *)
(***************************************************************************)
LEMMA TouchedIsNew ==
    ASSUME OwnedInv, mine # {}, node # 0, node \notin mine,
           \/ stage = "run"
           \/ stage = "delete"
    PROVE  node \notin seen /\ \A m \in mine : m < node
<1>1. /\ births \in Nat /\ node = births /\ mine \subseteq 1..births
  BY DEF OwnedInv, OwnedTyped
<1>2. \A m \in mine : m < node
  BY <1>1
<1>3. node \notin seen
  <2>1. CASE stage = "run"
    BY <2>1 DEF OwnedInv, Recognised
  <2>2. CASE stage = "delete"
    <3>1. node_id \in mine /\ \A c \in seen : c <= node_id
      BY <2>2 DEF OwnedInv, Recognised
    <3>2. node_id < node /\ node_id \in Nat /\ node \in Nat
      BY <1>1, <1>2, <3>1
    <3>3. QED
      BY <3>1, <3>2
  <2>3. QED
    BY <2>1, <2>2
<1>4. QED
  BY <1>2, <1>3

(***************************************************************************)
(* What the runner does by name never hits a foreign cluster that its      *)
(* checks could have seen: what it hits is younger than its own containers *)
(* and than all it has looked at.                                          *)
(***************************************************************************)
THEOREM ForeignClusterSafeHolds == Owned!OwnedSpec => ForeignClusterSafe
<1> DEFINE Safe == \A v \in victims' \ victims : v \notin seen /\ mine # {} /\ \A m \in mine : m < v
<1>1. OwnedInv /\ [Owned!OwnedNext]_Owned!ownedVars => [Safe]_Owned!ownedVars
  <2> SUFFICES ASSUME OwnedInv, Owned!OwnedNext, NEW v \in victims' \ victims
               PROVE  v \notin seen /\ mine # {} /\ \A m \in mine : m < v
    BY DEF Safe
  <2>1. /\ \/ Owned!Load
           \/ Owned!ToolExec
           \/ stage = "delete"
        /\ Owned!Touch
    <3>1. victims' # victims
      OBVIOUS
    <3>2. ~UNCHANGED Owned!history
      BY <3>1 DEF Owned!history
    <3>3. ~(Owned!SomebodyElse \/ Owned!LateBirth \/ Owned!Fail \/ Owned!NameFree \/ Owned!Prepare
            \/ Owned!Create \/ Owned!VerifyImage \/ Owned!Import \/ Owned!NoImport
            \/ Owned!Monitoring \/ Owned!Helm \/ Owned!RunSuite \/ Owned!ClusterIdentity)
      BY <3>2, Zenon
      DEF Owned!SomebodyElse, Owned!LateBirth, Owned!Fail, Owned!NameFree, Owned!Prepare,
          Owned!Create, Owned!VerifyImage, Owned!Import, Owned!NoImport, Owned!Monitoring,
          Owned!Helm, Owned!RunSuite, Owned!ClusterIdentity, Owned!Harmless
    <3>4. ~(Owned!DiagnoseCluster \/ Owned!LeftContainers \/ Owned!LeftClusters
            \/ Owned!IdentifyLeft \/ Owned!Gone \/ Owned!Report)
      BY <3>2, Zenon
      DEF Owned!DiagnoseCluster, Owned!LeftContainers, Owned!LeftClusters, Owned!IdentifyLeft,
          Owned!Gone, Owned!Report
    <3>5. ~(Owned!InspectNode \/ Owned!ToolGuard \/ Owned!DiagnoseNode \/ Owned!InspectLeft)
      BY <3>1 DEF Owned!InspectNode, Owned!ToolGuard, Owned!DiagnoseNode, Owned!InspectLeft
    <3>6. Owned!Load \/ Owned!ToolExec \/ Owned!CleanupFailed \/ Owned!Delete
      BY <3>3, <3>4, <3>5 DEF Owned!OwnedNext, Owned!OwnedStep
    <3>7. Owned!CleanupFailed => stage = "delete" /\ Owned!Touch
      BY <3>2 DEF Owned!CleanupFailed, Owned!docker
    <3>8. QED
      BY <3>6, <3>7 DEF Owned!Load, Owned!ToolExec, Owned!Delete, Owned!Step
  <2>2. v = node /\ node # 0 /\ node \notin mine
    BY <2>1 DEF Owned!Touch
  <2>3. mine # {} /\ stage \in {"run", "delete"}
    <3>1. CASE Owned!Load
      <4>1. suite \in {"acceptance", "e2e"} /\ at \in 1..Len(Owned!Plan)
        BY DEF OwnedInv, OwnedTyped
      <4>2. stage = "run" /\ at > 4
        BY <3>1, <4>1, PlanFacts DEF Owned!Load, Owned!Doing
      <4>3. QED
        BY <4>2 DEF OwnedInv, Remembered
    <3>2. CASE Owned!ToolExec
      BY <3>2 DEF Owned!ToolExec, OwnedInv, Remembered
    <3>3. CASE stage = "delete"
      BY <3>3 DEF OwnedInv, Recognised
    <3>4. QED
      BY <2>1, <3>1, <3>2, <3>3
  <2>4. QED
    BY <2>2, <2>3, TouchedIsNew
<1>2. QED
  BY <1>1, OwnedInvariant, PTL
     DEF Owned!OwnedSpec, ForeignClusterSafe, Owned!ForeignClusterSafe, Safe
-----------------------------------------------------------------------------
(***************************************************************************)
(* The acceptance of metrics safety.  The source differs from what the run *)
(* found only while source_stopped says so, and the run found it running:  *)
(* a run that stops the source has looked at it.                           *)
(***************************************************************************)
SourceKept ==
    /\ tidy = "none" => /\ step \in 1..33
                        /\ step > 4 => found = 1
                        /\ 23 < step /\ step < 33 <=> source_stopped
                        /\ step \in {32, 33} => prometheus = found
    /\ ~source_stopped => prometheus = found
    /\ source_stopped => found = 1
    /\ tidy \in {"guard-source", "source"} => source_stopped
    /\ tidy \in {"identity", "delete"} => prometheus = found

(***************************************************************************)
(* What the run applied is remembered, and an acceptance that ends without *)
(* a cleanup error has left nothing of either.                             *)
(***************************************************************************)
Applied ==
    /\ ours \subseteq Nat \ {0} /\ uids \in Nat
    /\ source_stopped \in BOOLEAN
    /\ ours # {} => fixture_created
    /\ tidy \in {"identity", "delete"} => fixture_created
    /\ LeftAsFound

AcceptInv == SourceKept /\ Applied

(***************************************************************************)
(* Where the steps that touch the source of metrics stand in the script of *)
(* the acceptance.                                                         *)
(***************************************************************************)
LEMMA ScriptFacts ==
    ASSUME step \in 1..33
    PROVE  /\ Len(Accept!Script) = 33
           /\ Accept!Script[step] = "announce" <=> step = 23
           /\ Accept!Script[step] = "source" <=> step = 4
           /\ Accept!Script[step] = "stop" <=> step = 25
           /\ Accept!Script[step] = "start" <=> step = 31
           /\ Accept!Script[step] = "clear" <=> step = 32
  BY DEF Accept!Script

(***************************************************************************)
(* The acceptance begins without having looked at anything.                *)
(***************************************************************************)
LEMMA AcceptStarts == Accept!AcceptanceInit => AcceptInv
<1> SUFFICES ASSUME Accept!AcceptanceInit PROVE AcceptInv
  OBVIOUS
<1>1. /\ step = 1 /\ tidy = "none" /\ prometheus = found /\ ~source_stopped
      /\ source_stopped \in BOOLEAN /\ ours = {}
  BY Zenon DEF Accept!AcceptanceInit
<1>5. uids \in Nat
  BY DEF Accept!AcceptanceInit
<1>2. SourceKept
  BY <1>1 DEF SourceKept
<1>3. Applied
  BY <1>1, <1>5 DEF Applied, LeftAsFound, Accept!LeftAsFound
<1>4. QED
  BY <1>2, <1>3 DEF AcceptInv

(***************************************************************************)
(* A step of run() that leaves the source alone: the next position, the    *)
(* end of the script or a failure.                                         *)
(***************************************************************************)
LEMMA RunKeepsAccept ==
    ASSUME AcceptInv, tidy = "none", step \notin {4, 23, 25, 31, 32},
           Accept!Advance \/ Accept!Raise \/ (tidy' = "guard" /\ UNCHANGED step),
           UNCHANGED <<prometheus, found, source_stopped>>,
           ours' \subseteq Nat \ {0} /\ uids' \in Nat,
           ours' # {} => fixture_created'
    PROVE  AcceptInv'
<1>1. step \in 1..33 /\ Len(Accept!Script) = 33
  BY ScriptFacts DEF AcceptInv, SourceKept
<1>2. \/ tidy' = "none" /\ step' = step + 1 /\ step' \in 1..33
      \/ tidy' = "guard" /\ step' = step
  BY <1>1 DEF Accept!Advance, Accept!Done, Accept!Forward, Accept!Raise
<1>3. SourceKept'
  BY <1>1, <1>2 DEF AcceptInv, SourceKept
<1>4. Applied'
  BY <1>2 DEF AcceptInv, Applied, LeftAsFound, Accept!LeftAsFound
<1>5. QED
  BY <1>3, <1>4 DEF AcceptInv

(***************************************************************************)
(* The steps of the acceptance, its failures included, keep the invariant. *)
(***************************************************************************)
LEMMA RunPreservesAccept ==
    /\ AcceptInv
    /\ \/ Accept!Fail \/ Accept!Interrupted \/ Accept!Guard \/ Accept!Absent \/ Accept!Source
       \/ Accept!Observe \/ Accept!Check \/ Accept!Apply \/ Accept!FixtureUid
       \/ Accept!Announce \/ Accept!StopSource \/ Accept!StartSource \/ Accept!Clear
    => AcceptInv'
<1> SUFFICES ASSUME AcceptInv,
                    \/ Accept!Fail \/ Accept!Interrupted \/ Accept!Guard \/ Accept!Absent
                    \/ Accept!Source \/ Accept!Observe \/ Accept!Check \/ Accept!Apply
                    \/ Accept!FixtureUid \/ Accept!Announce \/ Accept!StopSource
                    \/ Accept!StartSource \/ Accept!Clear
             PROVE  AcceptInv'
  OBVIOUS
<1>1. /\ tidy = "none" /\ step \in 1..33
      /\ ours \subseteq Nat \ {0} /\ uids \in Nat /\ (ours # {} => fixture_created)
  BY DEF Accept!Fail, Accept!Interrupted, Accept!Guard, Accept!Absent, Accept!Source,
         Accept!Observe, Accept!Check, Accept!Apply, Accept!FixtureUid, Accept!Announce,
         Accept!StopSource, Accept!StartSource, Accept!Clear, Accept!Doing, AcceptInv,
         SourceKept, Applied
<1>2. /\ Len(Accept!Script) = 33
      /\ Accept!Script[step] = "announce" <=> step = 23
      /\ Accept!Script[step] = "source" <=> step = 4
      /\ Accept!Script[step] = "stop" <=> step = 25
      /\ Accept!Script[step] = "start" <=> step = 31
      /\ Accept!Script[step] = "clear" <=> step = 32
  BY <1>1, ScriptFacts
<1>3. CASE Accept!Guard \/ Accept!Absent \/ Accept!Observe \/ Accept!Check \/ Accept!FixtureUid
  <2>1. /\ step \notin {4, 23, 25, 31, 32} /\ Accept!Advance
        /\ UNCHANGED <<prometheus, found, source_stopped, ours, uids, fixture_created>>
    BY <1>2, <1>3 DEF Accept!Guard, Accept!Absent, Accept!Observe, Accept!Check, Accept!FixtureUid,
                      Accept!Doing, Accept!cluster, Accept!flags
  <2>2. QED
    BY <1>1, <2>1, RunKeepsAccept
<1>4. CASE Accept!Apply
  <2>1. /\ step \notin {4, 23, 25, 31, 32} /\ (Accept!Advance \/ Accept!Raise)
        /\ UNCHANGED <<prometheus, found, source_stopped>> /\ fixture_created'
        /\ \/ uids' = uids + 1 /\ ours' = ours \cup {uids'}
           \/ UNCHANGED <<ours, uids>>
    BY <1>2, <1>4 DEF Accept!Apply, Accept!Doing
  <2>2. ours' \subseteq Nat \ {0} /\ uids' \in Nat
    <3>1. CASE uids' = uids + 1 /\ ours' = ours \cup {uids'}
      <4>1. uids + 1 \in Nat \ {0}
        BY <1>1
      <4>2. QED
        BY <1>1, <3>1, <4>1
    <3>2. CASE UNCHANGED <<ours, uids>>
      BY <1>1, <3>2
    <3>3. QED
      BY <2>1, <3>1, <3>2
  <2>3. QED
    BY <1>1, <2>1, <2>2, RunKeepsAccept
<1>5. CASE Accept!Fail \/ Accept!Interrupted
  <2>1. /\ tidy' = "guard" /\ step' = step
        /\ UNCHANGED <<prometheus, found, source_stopped, ours, uids>>
        /\ fixture_created => fixture_created'
    BY <1>5 DEF Accept!Fail, Accept!Interrupted, Accept!Raise, Accept!cluster
  <2>2. QED
    BY <1>1, <2>1 DEF AcceptInv, SourceKept, Applied, LeftAsFound, Accept!LeftAsFound
<1>6. CASE Accept!Source \/ Accept!Announce \/ Accept!Clear
  <2>1. /\ step' = step + 1 /\ tidy' = "none"
        /\ UNCHANGED <<prometheus, found, ours, uids, fixture_created>>
        /\ \/ step = 4 /\ prometheus = 1 /\ UNCHANGED source_stopped
           \/ step = 23 /\ source_stopped' = TRUE
           \/ step = 32 /\ source_stopped' = FALSE
    BY <1>1, <1>2, <1>6 DEF Accept!Source, Accept!Announce, Accept!Clear, Accept!Doing,
                                 Accept!Advance, Accept!Done, Accept!Forward,
                                 Accept!cluster, Accept!flags
  <2>2. SourceKept'
    BY <1>1, <2>1 DEF AcceptInv, SourceKept
  <2>3. QED
    BY <1>1, <2>1, <2>2 DEF AcceptInv, Applied, LeftAsFound, Accept!LeftAsFound
<1>7. CASE Accept!StopSource \/ Accept!StartSource
  <2>1. /\ \/ step' = step + 1 /\ tidy' = "none"
           \/ step' = step /\ tidy' = "guard"
        /\ UNCHANGED <<found, ours, uids, fixture_created, source_stopped>>
        /\ \/ step = 25
           \/ step = 31 /\ prometheus' = 1
    BY <1>1, <1>2, <1>7 DEF Accept!StopSource, Accept!StartSource, Accept!Doing, Accept!Advance,
                      Accept!Raise, Accept!Done, Accept!Forward, Accept!Scale, Accept!flags
  <2>2. SourceKept'
    BY <1>1, <2>1 DEF AcceptInv, SourceKept
  <2>3. QED
    BY <1>1, <2>1, <2>2 DEF AcceptInv, Applied, LeftAsFound, Accept!LeftAsFound
<1>8. QED
  BY <1>3, <1>4, <1>5, <1>6, <1>7

(***************************************************************************)
(* cleanup(), and somebody else, who changes neither what the run applied  *)
(* nor the source but with the whole cluster.                              *)
(***************************************************************************)
LEMMA TidyPreservesAccept ==
    /\ AcceptInv
    /\ \/ Accept!CleanupError \/ Accept!TidyGuard \/ Accept!TidySource \/ Accept!TidyIdentity
       \/ Accept!TidyDelete \/ Accept!Replace \/ Accept!Recreate
    => AcceptInv'
<1> SUFFICES ASSUME AcceptInv,
                    \/ Accept!CleanupError \/ Accept!TidyGuard \/ Accept!TidySource
                    \/ Accept!TidyIdentity \/ Accept!TidyDelete \/ Accept!Replace
                    \/ Accept!Recreate
             PROVE  AcceptInv'
  OBVIOUS
<1>1. CASE Accept!CleanupError
  <2>1. /\ tidy' = "ended" /\ "cleanup_error" \in failed'
        /\ UNCHANGED <<prometheus, found, source_stopped, ours, uids, fixture_created>>
    BY <1>1 DEF Accept!CleanupError, Accept!cluster, Accept!flags
  <2>2. QED
    BY <2>1 DEF AcceptInv, SourceKept, Applied, LeftAsFound, Accept!LeftAsFound
<1>2. CASE Accept!TidyGuard \/ Accept!TidySource \/ Accept!TidyIdentity
  <2>1. /\ tidy \in {"guard", "guard-source", "source", "identity"}
        /\ tidy' \in {"guard-source", "source", "identity", "delete", "ended"}
        /\ tidy' \in {"guard-source", "source"} => source_stopped
        /\ tidy' \in {"identity", "delete"} => fixture_created
        /\ tidy' = "ended" => ~fixture_created
        /\ tidy' \in {"identity", "delete", "ended"} =>
              ~source_stopped \/ tidy = "identity" \/ prometheus' = 1
        /\ prometheus' \in {prometheus, 1} /\ (prometheus' # prometheus => source_stopped)
        /\ tidy = "identity" => UNCHANGED prometheus
        /\ UNCHANGED <<found, source_stopped, ours, uids, fixture_created, fixture, failed>>
    BY <1>2 DEF Accept!TidyGuard, Accept!TidySource, Accept!TidyIdentity, Accept!AfterSource,
                Accept!Scale, Accept!cluster, Accept!flags, AcceptInv, SourceKept, Applied
  <2>2. SourceKept' /\ (tidy' = "ended" => prometheus' = found)
    BY <2>1 DEF AcceptInv, SourceKept
  <2>3. QED
    BY <2>1, <2>2 DEF AcceptInv, Applied, LeftAsFound, Accept!LeftAsFound
<1>3. CASE Accept!TidyDelete
  <2>1. /\ tidy = "delete" /\ tidy' = "ended" /\ fixture' = 0
        /\ UNCHANGED <<prometheus, found, source_stopped, ours, uids, fixture_created>>
    BY <1>3 DEF Accept!TidyDelete, Accept!flags
  <2>2. QED
    BY <2>1 DEF AcceptInv, SourceKept, Applied, LeftAsFound, Accept!LeftAsFound
<1>4. CASE Accept!Replace \/ Accept!Recreate
  <2>1. /\ tidy # "ended" /\ uids' \in {uids, uids + 1}
        /\ (prometheus' = 1 /\ found' = 1) \/ UNCHANGED <<prometheus, found>>
        /\ UNCHANGED <<step, tidy, ours, fixture_created, source_stopped>>
    BY <1>4 DEF Accept!Replace, Accept!Recreate, Accept!flags
  <2>2. SourceKept'
    BY <2>1 DEF AcceptInv, SourceKept
  <2>3. QED
    BY <2>1, <2>2 DEF AcceptInv, Applied, LeftAsFound, Accept!LeftAsFound
<1>5. QED
  BY <1>1, <1>2, <1>3, <1>4

(***************************************************************************)
(* Every step of the acceptance keeps the invariant.                       *)
(***************************************************************************)
LEMMA AcceptStays == AcceptInv /\ [Accept!AcceptanceNext]_Accept!acceptanceVars => AcceptInv'
<1> SUFFICES ASSUME AcceptInv, [Accept!AcceptanceNext]_Accept!acceptanceVars PROVE AcceptInv'
  OBVIOUS
<1>1. CASE Accept!AcceptanceNext
  BY <1>1, RunPreservesAccept, TidyPreservesAccept DEF Accept!AcceptanceNext
<1>2. CASE UNCHANGED Accept!acceptanceVars
  BY <1>2 DEF Accept!acceptanceVars, AcceptInv, SourceKept, Applied, LeftAsFound, Accept!LeftAsFound
<1>3. QED
  BY <1>1, <1>2

(***************************************************************************)
(* Wherever the acceptance fails, and whoever interferes with the cluster  *)
(* meanwhile: once it has ended it has left the source of metrics as it    *)
(* found it and nothing it applied, or its errors say so.                  *)
(***************************************************************************)
THEOREM LeftAsFoundHolds == Accept!AcceptanceSpec => []LeftAsFound
<1>1. AcceptInv => LeftAsFound
  BY DEF AcceptInv, Applied
<1>2. QED
  BY <1>1, AcceptStarts, AcceptStays, PTL DEF Accept!AcceptanceSpec
-----------------------------------------------------------------------------
(***************************************************************************)
(* What the gate of a cadence slot selects.  Rows need no type here: one   *)
(* is accepted or not, and the first that its predecessor makes an anchor  *)
(* is found, by the definition of an anchor that select_anchor() states    *)
(* in its comparisons.                                                     *)
(***************************************************************************)
MayAnchor(list, since, i) ==
    /\ i > 1 /\ i > since
    /\ Cadence!Accepted(list[i]) /\ Cadence!Accepted(list[i - 1])
    /\ Cadence!SameRoster(list[i], list[i - 1])
    /\ Cadence!Advanced(list[i], list[i - 1])

FirstAnchor(list, since, i) ==
    MayAnchor(list, since, i) /\ \A j \in 1 .. i - 1 : ~MayAnchor(list, since, j)

(***************************************************************************)
(* select_anchor() returns the first observation that its predecessor      *)
(* makes an anchor, and nothing only if there is none. Its loop is a       *)
(* recursive function; what it has found after each row is shown by        *)
(* induction over the rows.                                                *)
(***************************************************************************)
LEMMA SelectsFirst ==
    ASSUME NEW list, Len(list) \in Nat, NEW since \in Int
    PROVE  \/ /\ Cadence!SelectAnchor(list, since) = 0
              /\ \A j \in 1..Len(list) : ~MayAnchor(list, since, j)
           \/ /\ Cadence!SelectAnchor(list, since) \in 1..Len(list)
              /\ FirstAnchor(list, since, Cadence!SelectAnchor(list, since))
<1> DEFINE n == Len(list)
           After(was, i) ==
               LET row == list[i]
                   previous == list[was.previous]
               IN  IF was.found # 0 THEN was
                   ELSE IF ~Cadence!Accepted(row) THEN [was EXCEPT !.previous = 0]
                   ELSE IF /\ was.previous # 0 /\ i > since
                           /\ Cadence!SameRoster(row, previous) /\ Cadence!Advanced(row, previous)
                        THEN [was EXCEPT !.found = i]
                        ELSE [was EXCEPT !.previous = i]
           start == [previous |-> 0, found |-> 0]
           Looked == [previous : 0..n, found : 0..n]
           looked == CHOOSE f : f = [i \in 0..n |-> IF i = 0 THEN start ELSE After(f[i - 1], i)]
<1>1. Cadence!SelectAnchor(list, since) = looked[n].found
  BY DEF Cadence!SelectAnchor
<1>2. \A was \in Looked, i \in 1..n : After(was, i) \in Looked
  OBVIOUS
<1>3. PICK g \in [0..n -> Looked] :
          g[0] = start /\ \A i \in 1..n : g[i] = After(g[i - 1], i)
  <2> DEFINE pass == [i \in 1..n |-> [was \in Looked |-> After(was, i)]]
  <2>1. pass \in [1..n -> [Looked -> Looked]]
    <3> HIDE DEF After, Looked
    <3>1. QED
      BY <1>2
  <2>2. start \in Looked /\ n \in Nat
    OBVIOUS
  <2>3. \E g : IsLoop(g, Looked, n, start, pass)
    <3> HIDE DEF pass, Looked, n, start
    <3>1. QED
      BY <2>1, <2>2, LoopExists, Zenon
  <2>4. PICK g \in [0..n -> Looked] :
          g[0] = start /\ \A i \in 1..n : g[i] = pass[i][g[i - 1]]
    <3> HIDE DEF pass, Looked, n, start
    <3>1. QED
      BY <2>3 DEF IsLoop
  <2>5. ASSUME NEW i \in 1..n PROVE g[i] = After(g[i - 1], i)
    <3> HIDE DEF After, Looked
    <3>1. g[i - 1] \in Looked
      OBVIOUS
    <3>2. QED
      BY <2>4, <3>1
  <2>6. QED
    BY <2>4, <2>5
<1>4. looked = [i \in 0..n |-> IF i = 0 THEN start ELSE After(looked[i - 1], i)]
  <2> HIDE DEF After, Looked
  <2>1. g = [i \in 0..n |-> IF i = 0 THEN start ELSE After(g[i - 1], i)]
    BY <1>3
  <2>2. QED
    BY <2>1
<1> DEFINE Right(was, i) ==
             /\ was \in Looked
             /\ \/ /\ was.found = 0 /\ \A j \in 1..i : ~MayAnchor(list, since, j)
                   /\ was.previous = IF i > 0 /\ Cadence!Accepted(list[i]) THEN i ELSE 0
                \/ was.found \in 1..i /\ FirstAnchor(list, since, was.found)
           T == {i \in 0..n : Right(looked[i], i)}
<1>5. 0 \in T
  <2>1. looked[0] = start
    <3> HIDE DEF After, looked
    <3>1. 0 \in 0..n
      OBVIOUS
    <3>2. QED
      BY <1>4, <3>1
  <2> HIDE DEF looked
  <2>2. Right(looked[0], 0)
    BY <2>1
  <2>3. QED
    BY <2>2
<1>6. ASSUME NEW i \in 1..n, i - 1 \in T PROVE i \in T
  <2>1. looked[i] = After(looked[i - 1], i)
    <3> HIDE DEF After, looked
    <3>1. QED
      BY <1>4
  <2> HIDE DEF looked
  <2>2. Right(looked[i - 1], i - 1)
    BY <1>6
  <2>3. CASE looked[i - 1].found # 0
    BY <2>1, <2>2, <2>3
  <2>4. CASE looked[i - 1].found = 0
    <3>1. /\ \A j \in 1..(i - 1) : ~MayAnchor(list, since, j)
          /\ looked[i - 1].previous
                = IF i - 1 > 0 /\ Cadence!Accepted(list[i - 1]) THEN i - 1 ELSE 0
      BY <2>2, <2>4
    <3>2. CASE MayAnchor(list, since, i)
      BY <2>1, <2>2, <2>4, <3>1, <3>2 DEF MayAnchor, FirstAnchor
    <3>3. CASE ~MayAnchor(list, since, i)
      BY <2>1, <2>2, <2>4, <3>1, <3>3 DEF MayAnchor
    <3>4. QED
      BY <3>2, <3>3
  <2>5. QED
    BY <2>3, <2>4
<1>7. n \in T
  <2> HIDE DEF T
  <2>1. n \in 0..n
    OBVIOUS
  <2>2. QED
    BY <1>5, <1>6, <2>1, IntervalInduction
<1>8. QED
  <2> HIDE DEF looked
  <2>1. QED
    BY <1>1, <1>7

(***************************************************************************)
(* The gate's invariant: k6 has not been released before the attempt is on *)
(* disk, and the attempt names the first anchor of the whole stream.       *)
(***************************************************************************)
Readings == [status : {"success", "rejected"}, idle : BOOLEAN,
             sources : UNION {[R -> 1..MaxRows] : R \in SUBSET Containers}]

GateTyped == /\ stream \in Seq(Readings) /\ flushed \in 0..Len(stream)
             /\ after \in Int /\ starts \in 0..1

\* What has happened by the phase the observer is in.
GateOrder ==
    /\ phase \in {"starting", "waiting", "phase", "checked"} =>
          starts = 0 /\ attempt = Cadence!NoFile /\ receipt = Cadence!NoFile
    /\ phase = "attempted" =>
          starts = 0 /\ attempt # Cadence!NoFile /\ receipt = Cadence!NoFile
    /\ starts = 1 => attempt # Cadence!NoFile
    /\ receipt # Cadence!NoFile => starts = 1

Anchored(i) == i \in 1..Len(stream) /\ FirstAnchor(stream, after, i)

GateChosen ==
    /\ phase \in {"phase", "checked", "attempted"} => Anchored(anchor)
    /\ attempt # Cadence!NoFile => Anchored(attempt.anchor)

GateInv == GateTyped /\ GateOrder /\ GateChosen

\* An anchor of what the file shows is the same anchor of the stream.
LEMMA AnchorOfPrefix ==
    ASSUME NEW S, NEW list \in Seq(S), NEW since \in Int, NEW k \in 0..Len(list),
           NEW i \in 1..k, FirstAnchor(SubSeq(list, 1, k), since, i)
    PROVE  FirstAnchor(list, since, i)
<1> DEFINE p == SubSeq(list, 1, k)
<1>1. \A j \in 1..k : p[j] = list[j]
  OBVIOUS
<1> HIDE DEF p
<1>2. \A j \in 1..i : MayAnchor(p, since, j) <=> MayAnchor(list, since, j)
  BY <1>1 DEF MayAnchor
<1>3. QED
  BY <1>2 DEF FirstAnchor, p

\* An anchor stays the first one when the stream grows.
LEMMA AnchorStays ==
    ASSUME NEW S, NEW list \in Seq(S), NEW e, NEW since \in Int,
           NEW i \in 1..Len(list), FirstAnchor(list, since, i)
    PROVE  FirstAnchor(Append(list, e), since, i)
<1> DEFINE p == Append(list, e)
<1>1. \A j \in 1..Len(list) : p[j] = list[j]
  OBVIOUS
<1> HIDE DEF p
<1>2. \A j \in 1..i : MayAnchor(p, since, j) <=> MayAnchor(list, since, j)
  BY <1>1 DEF MayAnchor
<1>3. QED
  BY <1>2 DEF FirstAnchor, p

\* The observer's comparisons are those of the definition of an eligible observation.
LEMMA AnchorIsEligible ==
    ASSUME stream \in Seq(Readings), NEW i \in 1..Len(stream)
    PROVE  MayAnchor(stream, after, i) <=> Cadence!Eligible(i)
<1>1. CASE i = 1
  BY <1>1 DEF MayAnchor, Cadence!Eligible
<1>2. CASE i > 1
  <2>1. stream[i] \in Readings /\ stream[i - 1] \in Readings
    BY <1>2
  <2>2. /\ DOMAIN stream[i].sources \subseteq Containers
        /\ DOMAIN stream[i - 1].sources \subseteq Containers
    BY <2>1 DEF Readings
  <2>3. QED
    BY <2>2 DEF MayAnchor, Cadence!Eligible, Cadence!Accepted, Cadence!SameRoster,
                Cadence!Advanced
<1>3. QED
  BY <1>1, <1>2

(***************************************************************************)
(* The observer begins without an attempt, a receipt or a launch.          *)
(***************************************************************************)
LEMMA GateStarts ==
    ASSUME Cadence!CadenceInit
    PROVE  GateInv
BY DEF GateInv, GateTyped, GateOrder, GateChosen, Cadence!CadenceInit, Cadence!NoFile

\* What is observed is a reading, rejected or with a sample time for each container.
LEMMA ObserveAppends ==
    ASSUME Cadence!Observe
    PROVE  \E e \in Readings : stream' = Append(stream, e)
<1>1. <<>> \in [{} -> 1..MaxRows]
  OBVIOUS
<1>2. [status |-> "rejected", sources |-> <<>>, idle |-> FALSE] \in Readings
  BY <1>1 DEF Readings
<1>3. PICK members \in SUBSET Containers \ {{}}, quiet \in BOOLEAN, refused \in BOOLEAN :
         \E sampled \in [members -> 1..MaxRows] : stream' = Append(stream,
            IF refused THEN [status |-> "rejected", sources |-> <<>>, idle |-> FALSE]
            ELSE [status |-> "success", sources |-> sampled, idle |-> quiet])
  BY DEF Cadence!Observe
<1>6. PICK sampled \in [members -> 1..MaxRows] : stream' = Append(stream,
            IF refused THEN [status |-> "rejected", sources |-> <<>>, idle |-> FALSE]
            ELSE [status |-> "success", sources |-> sampled, idle |-> quiet])
  BY <1>3
<1>4. [status |-> "success", sources |-> sampled, idle |-> quiet] \in Readings
  BY DEF Readings
<1>5. QED
  BY <1>2, <1>6, <1>4

(***************************************************************************)
(* Every step of the stream, the file and the observer keeps the gate's    *)
(* invariant.                                                              *)
(***************************************************************************)
LEMMA GateStays ==
    ASSUME GateInv, [Cadence!CadenceNext]_Cadence!cadenceVars
    PROVE  GateInv'
<1> USE DEF GateInv
<1>1. CASE Cadence!Observe
  <2>1. PICK e \in Readings : stream' = Append(stream, e)
    BY <1>1, ObserveAppends
  <2>2. /\ UNCHANGED <<flushed, after, phase, anchor, attempt, receipt, starts>>
        /\ stream' \in Seq(Readings) /\ Len(stream') = Len(stream) + 1
    BY <1>1, <2>1 DEF GateTyped, Cadence!Observe
  <2>3. \A i : Anchored(i) => Anchored(i)'
    BY <2>1, <2>2, AnchorStays DEF GateTyped, Anchored
  <2>4. QED
    BY <2>2, <2>3 DEF GateTyped, GateOrder, GateChosen, Cadence!NoFile
<1>2. CASE Cadence!Flush
  BY <1>2 DEF GateTyped, GateOrder, GateChosen, Anchored, Cadence!Flush, Cadence!NoFile
<1>3. CASE Cadence!Ready
  BY <1>3 DEF GateTyped, GateOrder, GateChosen, Anchored, Cadence!Ready, Cadence!NoFile
<1>4. CASE Cadence!Select
  <2>1. /\ phase = "waiting" /\ phase' = "phase"
        /\ anchor' = Cadence!SelectAnchor(Cadence!Visible, after) /\ anchor' # 0
        /\ UNCHANGED <<stream, flushed, after, attempt, receipt, starts>>
    BY <1>4 DEF Cadence!Select
  <2>2. Len(Cadence!Visible) = flushed
    BY DEF GateTyped, Cadence!Visible
  <2>3. anchor' \in 1..flushed /\ FirstAnchor(Cadence!Visible, after, anchor')
    BY <2>1, <2>2, SelectsFirst DEF GateTyped
  <2>4. FirstAnchor(stream, after, anchor')
    BY <2>3, AnchorOfPrefix DEF GateTyped, Cadence!Visible
  <2>5. Anchored(anchor)'
    BY <2>1, <2>3, <2>4 DEF GateTyped, Anchored
  <2>6. QED
    BY <2>1, <2>5 DEF GateTyped, GateOrder, GateChosen, Cadence!NoFile
<1>5. CASE Cadence!Check
  BY <1>5 DEF GateTyped, GateOrder, GateChosen, Anchored, Cadence!Check, Cadence!NoFile
<1>6. CASE Cadence!Attempt
  <2>1. Anchored(anchor) /\ attempt'.anchor = anchor
    BY <1>6 DEF GateChosen, Cadence!Attempt
  <2>2. attempt' # Cadence!NoFile
    BY <2>1 DEF Anchored, Cadence!NoFile
  <2>3. QED
    BY <1>6, <2>1, <2>2 DEF GateTyped, GateOrder, GateChosen, Anchored, Cadence!Attempt,
                            Cadence!NoFile
<1>7. CASE Cadence!Release
  <2>1. QED
    BY <1>7 DEF GateTyped, GateOrder, GateChosen, Anchored, Cadence!Release, Cadence!NoFile
<1>8. CASE Cadence!Collected
  BY <1>8 DEF GateTyped, GateOrder, GateChosen, Anchored, Cadence!Collected, Cadence!NoFile
<1>9. CASE Cadence!Fail
  BY <1>9 DEF GateTyped, GateOrder, GateChosen, Anchored, Cadence!Fail, Cadence!NoFile
<1>10. CASE Cadence!Finish
  BY <1>10 DEF GateTyped, GateOrder, GateChosen, Anchored, Cadence!Finish, Cadence!NoFile
<1>11. CASE Cadence!Crash
  BY <1>11 DEF GateTyped, GateOrder, GateChosen, Anchored, Cadence!Crash, Cadence!NoFile
<1>12. CASE UNCHANGED Cadence!cadenceVars
  BY <1>12 DEF GateTyped, GateOrder, GateChosen, Anchored, Cadence!cadenceVars, Cadence!NoFile
<1>13. QED
  BY <1>1, <1>2, <1>3, <1>4, <1>5, <1>6, <1>7, <1>8, <1>9, <1>10, <1>11, <1>12
     DEF Cadence!CadenceNext

(***************************************************************************)
(* What the invariant says of the launch is what the analysis relies on.   *)
(***************************************************************************)
LEMMA GateAccounts ==
    ASSUME GateInv
    PROVE  Cadence!LaunchIsAccountedFor
<1>1. ASSUME attempt # Cadence!NoFile
      PROVE  /\ Cadence!Eligible(attempt.anchor)
             /\ \A i \in 2 .. attempt.anchor - 1 : ~Cadence!Eligible(i)
  <2>1. attempt.anchor \in 1..Len(stream) /\ FirstAnchor(stream, after, attempt.anchor)
    BY <1>1 DEF GateInv, GateChosen, Anchored
  <2>2. \A i \in 1..Len(stream) : MayAnchor(stream, after, i) <=> Cadence!Eligible(i)
    BY AnchorIsEligible DEF GateInv, GateTyped
  <2>3. \A i \in 2 .. attempt.anchor - 1 : i \in 1..Len(stream) /\ ~MayAnchor(stream, after, i)
    BY <2>1 DEF FirstAnchor, GateInv, GateTyped
  <2>4. QED
    BY <2>1, <2>2, <2>3 DEF FirstAnchor
<1>2. starts > 0 => starts = 1 /\ attempt # Cadence!NoFile
  BY DEF GateInv, GateTyped, GateOrder
<1>3. Cadence!GateValid => starts = 1
  BY DEF GateInv, GateOrder, Cadence!GateValid
<1>4. QED
  BY <1>1, <1>2, <1>3 DEF Cadence!LaunchIsAccountedFor

(***************************************************************************)
(* Load that runs, even after a lost answer or a crash of the observer,    *)
(* was announced on disk and started once; the announcement names the      *)
(* first eligible observation of the whole stream, though it was chosen on *)
(* what the file showed then.                                              *)
(***************************************************************************)
THEOREM LaunchIsAccountedForHolds == Cadence!CadenceSpec => []Cadence!LaunchIsAccountedFor
<1>1. Cadence!CadenceInit => GateInv
  BY GateStarts
<1>2. GateInv /\ [Cadence!CadenceNext]_Cadence!cadenceVars => GateInv'
  BY GateStays
<1>3. GateInv => Cadence!LaunchIsAccountedFor
  BY GateAccounts
<1>4. QED
  BY <1>1, <1>2, <1>3, PTL DEF Cadence!CadenceSpec
-----------------------------------------------------------------------------
(***************************************************************************)
(* The gate of the latency diagnostic.  The Pod knows a launch time only   *)
(* when it is on disk; its script is past the gate just when the gate is   *)
(* released; the host kills what has a pid after it has cancelled.         *)
(***************************************************************************)
PastGate == {"start", "publish", "recheck", "wait", "over"}

LatencyInv ==
    /\ files \subseteq {"ready", "launch", "cancelled", "pid"}
    /\ thread \in {"schedule", "poll"} \/ "launch" \in files \/ script \in PastGate
          => planned
    /\ gate = "released" => script \in PastGate
    /\ gate_released => gate = "released"
    /\ script \in {"recheck", "wait"} => "pid" \in files
    /\ host \in {"kill", "stopped"} => "cancelled" \in files
    /\ Latency!LoadIsAccountedFor

(***************************************************************************)
(* Before the first step nothing has been written, planned or launched.    *)
(***************************************************************************)
LEMMA LatencyStarts == Latency!LatencyInit => LatencyInv
<1> SUFFICES ASSUME Latency!LatencyInit PROVE LatencyInv
  OBVIOUS
<1>1. /\ script = "begin" /\ files = {} /\ gate = "none" /\ load = "none" /\ thread = "unready"
      /\ host = "polling" /\ observer_status.status = "none"
  BY DEF Latency!LatencyInit, Latency!NoStatus
<1>2. ~gate_released
  BY DEF Latency!LatencyInit
<1>3. QED
  BY <1>1, <1>2 DEF LatencyInv, PastGate, Latency!LoadIsAccountedFor

(***************************************************************************)
(* The Pod: its script and its load.                                       *)
(***************************************************************************)
LEMMA PodPreserves ==
    LatencyInv /\ (Latency!ScriptGate \/ Latency!ScriptLoad \/ Latency!LoadEnds) => LatencyInv'
<1> SUFFICES ASSUME LatencyInv, Latency!ScriptGate \/ Latency!ScriptLoad \/ Latency!LoadEnds
             PROVE  LatencyInv'
  OBVIOUS
<1>1. /\ UNCHANGED <<thread, planned, gate_released, observer_status, host>>
      /\ files \subseteq files' /\ files' \subseteq files \cup {"ready", "pid"}
  BY DEF Latency!ScriptGate, Latency!GateStep, Latency!ScriptLoad, Latency!LoadEnds,
         Latency!observer
<1>2. CASE Latency!ScriptGate
  BY <1>1, <1>2 DEF LatencyInv, PastGate, Latency!LoadIsAccountedFor, Latency!ScriptGate,
                    Latency!GateStep, Latency!observer
<1>3. CASE Latency!ScriptLoad
  BY <1>1, <1>3 DEF LatencyInv, PastGate, Latency!LoadIsAccountedFor, Latency!ScriptLoad,
                    Latency!observer
<1>4. CASE Latency!LoadEnds
  BY <1>1, <1>4 DEF LatencyInv, PastGate, Latency!LoadIsAccountedFor, Latency!LoadEnds,
                    Latency!observer
<1>5. QED
  BY <1>2, <1>3, <1>4

(***************************************************************************)
(* The observer: its gate thread and its main loop.                        *)
(***************************************************************************)
LEMMA ObserverPreserves ==
    /\ LatencyInv
    /\ \/ Latency!ReadReady \/ Latency!Anchor \/ Latency!Schedule \/ Latency!Poll \/ Latency!Quit
       \/ Latency!GiveUp \/ Latency!Cancel \/ Latency!ObserverStop \/ Latency!ObserverEnds
    => LatencyInv'
<1> SUFFICES ASSUME LatencyInv,
                    \/ Latency!ReadReady \/ Latency!Anchor \/ Latency!Schedule \/ Latency!Poll
                    \/ Latency!Quit \/ Latency!GiveUp \/ Latency!Cancel
                    \/ Latency!ObserverStop \/ Latency!ObserverEnds
             PROVE  LatencyInv'
  OBVIOUS
<1>1. /\ UNCHANGED <<script, gate, load, host>>
      /\ files' \in {files, files \cup {"launch"}, files \cup {"cancelled"}}
      /\ files' # files /\ files' = files \cup {"launch"} => planned
      /\ planned => planned'
      /\ thread' \in {"schedule", "poll"} => planned'
  BY DEF Latency!ReadReady, Latency!Anchor, Latency!Schedule, Latency!Poll, Latency!Quit,
         Latency!GiveUp, Latency!Cancel, Latency!ObserverStop, Latency!ObserverEnds,
         Latency!Thread, Latency!Kubectl, Latency!Raise, Latency!pod, LatencyInv
<1>2. gate_released' => gate = "released"
  BY DEF Latency!ReadReady, Latency!Anchor, Latency!Schedule, Latency!Poll, Latency!Quit,
         Latency!GiveUp, Latency!Cancel, Latency!ObserverStop, Latency!ObserverEnds, LatencyInv
<1>3. observer_status'.status = "success" => gate = "released"
  <2>1. CASE UNCHANGED observer_status
    BY <2>1 DEF LatencyInv, Latency!LoadIsAccountedFor
  <2>2. CASE Latency!ObserverEnds
    <3>1. observer_status'.status = "success" => gate_released
      BY <2>2 DEF Latency!ObserverEnds
    <3>2. QED
      BY <3>1 DEF LatencyInv
  <2>3. QED
    BY <2>1, <2>2
    DEF Latency!ReadReady, Latency!Anchor, Latency!Schedule, Latency!Poll, Latency!Quit,
        Latency!GiveUp, Latency!Cancel, Latency!ObserverStop, Latency!Thread
<1>4. QED
  BY <1>1, <1>2, <1>3 DEF LatencyInv, PastGate, Latency!LoadIsAccountedFor

(***************************************************************************)
(* The host: it cancels before it kills.                                   *)
(***************************************************************************)
LEMMA HostPreserves == LatencyInv /\ Latency!HostStep => LatencyInv'
<1> SUFFICES ASSUME LatencyInv, Latency!HostStep PROVE LatencyInv'
  OBVIOUS
<1>1. UNCHANGED <<script, gate, thread, planned, gate_released, observer_status>>
  BY DEF Latency!HostStep, Latency!observer
<1>2. /\ files' \in {files, files \cup {"cancelled"}}
      /\ load' = load \/ (load # "none" /\ load' = "stopping")
      /\ host' \in {"kill", "stopped"} => "cancelled" \in files'
      /\ host' = "stopped" /\ "pid" \in files => load' # "running"
  BY DEF Latency!HostStep, LatencyInv
<1>3. /\ files' \subseteq {"ready", "launch", "cancelled", "pid"}
      /\ "launch" \in files' => "launch" \in files
      /\ "pid" \in files <=> "pid" \in files'
  BY <1>2 DEF LatencyInv
<1>4. Latency!LoadIsAccountedFor'
  BY <1>1, <1>2 DEF LatencyInv, Latency!LoadIsAccountedFor
<1>5. QED
  BY <1>1, <1>2, <1>3, <1>4 DEF LatencyInv, PastGate

(***************************************************************************)
(* Every step of the Pod, the observer and the host keeps the invariant.   *)
(***************************************************************************)
LEMMA LatencyStays == LatencyInv /\ [Latency!LatencyNext]_Latency!latencyVars => LatencyInv'
<1> SUFFICES ASSUME LatencyInv, [Latency!LatencyNext]_Latency!latencyVars PROVE LatencyInv'
  OBVIOUS
<1>1. CASE Latency!LatencyNext
  BY <1>1, PodPreserves, ObserverPreserves, HostPreserves DEF Latency!LatencyNext
<1>2. CASE UNCHANGED Latency!latencyVars
  BY <1>2 DEF Latency!latencyVars, LatencyInv, PastGate, Latency!LoadIsAccountedFor
<1>3. QED
  BY <1>1, <1>2

(***************************************************************************)
(* No load of the latency diagnostic runs that was not planned, none       *)
(* outlives the stop of its host, and none counts as a success that was    *)
(* cancelled.                                                              *)
(***************************************************************************)
THEOREM LatencyLoadIsAccountedFor == Latency!LatencySpec => []Latency!LoadIsAccountedFor
<1>1. LatencyInv => Latency!LoadIsAccountedFor
  BY DEF LatencyInv
<1>2. QED
  BY <1>1, LatencyStarts, LatencyStays, PTL DEF Latency!LatencySpec
-----------------------------------------------------------------------------
(***************************************************************************)
(* In the runs of the harness a campaign does what Campaign says, ...      *)
(***************************************************************************)
LEMMA CampaignRuns == HarnessSteps => CampaignInit /\ [][CampaignNext]_campaignVars
<1>1. HarnessInit => CampaignInit
  BY DEF HarnessInit
<1>2. [HarnessNext]_harnessVars => [CampaignNext]_campaignVars
  BY DEF HarnessNext, harnessVars
<1>3. QED
  BY <1>1, <1>2, PTL DEF HarnessSteps

(***************************************************************************)
(* ... the runner of the owned cluster what OwnedCluster says, ...         *)
(***************************************************************************)
LEMMA OwnedRuns == HarnessSteps => Owned!OwnedSpec
<1>1. HarnessInit => Owned!OwnedInit
  BY DEF HarnessInit
<1>2. [HarnessNext]_harnessVars => [Owned!OwnedNext]_Owned!ownedVars
  BY DEF HarnessNext, harnessVars, owned, Owned!ownedVars
<1>3. QED
  BY <1>1, <1>2, PTL DEF HarnessSteps, Owned!OwnedSpec

(***************************************************************************)
(* ... the acceptance what Acceptance says, ...                            *)
(***************************************************************************)
LEMMA AcceptanceRuns == HarnessSteps => Accept!AcceptanceSpec
<1>1. HarnessInit => Accept!AcceptanceInit
  BY DEF HarnessInit
<1>2. [HarnessNext]_harnessVars => [Accept!AcceptanceNext]_Accept!acceptanceVars
  BY DEF HarnessNext, harnessVars, acceptance, Accept!acceptanceVars
<1>3. QED
  BY <1>1, <1>2, PTL DEF HarnessSteps, Accept!AcceptanceSpec

(***************************************************************************)
(* ... the gate of a slot what CadenceGate says, ...                       *)
(***************************************************************************)
LEMMA CadenceRuns == HarnessSteps => Cadence!CadenceSpec
<1>1. HarnessInit => Cadence!CadenceInit
  BY DEF HarnessInit
<1>2. [HarnessNext]_harnessVars => [Cadence!CadenceNext]_Cadence!cadenceVars
  BY DEF HarnessNext, harnessVars, gates, cadence, Cadence!cadenceVars
<1>3. QED
  BY <1>1, <1>2, PTL DEF HarnessSteps, Cadence!CadenceSpec

(***************************************************************************)
(* ... and the gate of the latency diagnostic what LatencyGate says.       *)
(***************************************************************************)
LEMMA LatencyRuns == HarnessSteps => Latency!LatencySpec
<1>1. HarnessInit => Latency!LatencyInit
  BY DEF HarnessInit
<1>2. [HarnessNext]_harnessVars => [Latency!LatencyNext]_Latency!latencyVars
  BY DEF HarnessNext, harnessVars, gates, latency, Latency!latencyVars
<1>3. QED
  BY <1>1, <1>2, PTL DEF HarnessSteps, Latency!LatencySpec

(***************************************************************************)
(* Whichever gate is at work, every load it starts is accounted for.       *)
(***************************************************************************)
THEOREM LoadIsAccountedForHolds == HarnessSpec => []LoadIsAccountedFor
<1>1. HarnessSpec => HarnessSteps
  BY PTL DEF HarnessSpec, HarnessSteps
<1>2. Cadence!LaunchIsAccountedFor /\ Latency!LoadIsAccountedFor => LoadIsAccountedFor
  BY DEF LoadIsAccountedFor
<1>3. QED
  BY <1>1, <1>2, CadenceRuns, LatencyRuns, LaunchIsAccountedForHolds, LatencyLoadIsAccountedFor, PTL

(***************************************************************************)
(* What is proved of the roster for all its parameters, at those of the    *)
(* harness.                                                                *)
(***************************************************************************)
RosterFacts == INSTANCE RosterProofs WITH
                  clock <- roster_clock, changes <- rollouts, Slots <- {"a", "b"},
                  MaxSampleAge <- 1, MaxTime <- 3, MaxInstances <- 3, MaxChanges <- 3,
                  MaxScrapes <- 2

(***************************************************************************)
(* The two instances of Roster are one: the steps of the world, ...        *)
(***************************************************************************)
LEMMA RosterWorld ==
    /\ Rostered!RosterInit => RosterFacts!RosterInit
    /\ Rostered!Edit \/ Rostered!Replace \/ Rostered!Delete \/ Rostered!Tick
          => RosterFacts!Edit \/ RosterFacts!Replace \/ RosterFacts!Delete \/ RosterFacts!Tick
    /\ \A s : Rostered!Start(s) \/ Rostered!Readiness(s) \/ Rostered!End(s)
          => RosterFacts!Start(s) \/ RosterFacts!Readiness(s) \/ RosterFacts!End(s)
    /\ \A i : Rostered!Scrape(i) => RosterFacts!Scrape(i)
<1>1. Rostered!RosterInit => RosterFacts!RosterInit
  BY DEF Rostered!RosterInit, RosterFacts!RosterInit, Rostered!Empty, RosterFacts!Empty,
         Rostered!NoCall, RosterFacts!NoCall, Rostered!None, RosterFacts!None
<1>2. /\ Rostered!Edit => RosterFacts!Edit
      /\ Rostered!Replace => RosterFacts!Replace
      /\ Rostered!Delete => RosterFacts!Delete
      /\ Rostered!Tick => RosterFacts!Tick
  BY DEF Rostered!Edit, RosterFacts!Edit, Rostered!Replace, RosterFacts!Replace, Rostered!Delete,
         RosterFacts!Delete, Rostered!Tick, RosterFacts!Tick, Rostered!Change, RosterFacts!Change,
         Rostered!None, RosterFacts!None, Rostered!world, RosterFacts!world
<1>3. \A s : /\ Rostered!Start(s) => RosterFacts!Start(s)
             /\ Rostered!Readiness(s) => RosterFacts!Readiness(s)
             /\ Rostered!End(s) => RosterFacts!End(s)
  BY DEF Rostered!Start, RosterFacts!Start, Rostered!Readiness, RosterFacts!Readiness, Rostered!End,
         RosterFacts!End, Rostered!Change, RosterFacts!Change, Rostered!Empty, RosterFacts!Empty,
         Rostered!None, RosterFacts!None
<1>4. \A i : Rostered!Scrape(i) => RosterFacts!Scrape(i)
  BY DEF Rostered!Scrape, RosterFacts!Scrape, Rostered!None, RosterFacts!None, Rostered!world,
         RosterFacts!world
<1>5. QED
  BY <1>1, <1>2, <1>3, <1>4

(***************************************************************************)
(* ... and those of the observation.                                       *)
(***************************************************************************)
LEMMA RosterObservation ==
    Rostered!Fail \/ Rostered!Begin \/ Rostered!ListBefore \/ Rostered!Evaluate
    \/ Rostered!QueryRate \/ Rostered!QueryTimestamp \/ Rostered!GetAfter \/ Rostered!ListAfter
       => RosterFacts!RosterNext
<1>1. Rostered!Fail => RosterFacts!Fail
  BY DEF Rostered!Fail, RosterFacts!Fail, Rostered!Step, RosterFacts!Step, Rostered!NoCall,
         RosterFacts!NoCall
<1>2. Rostered!Begin => RosterFacts!Begin
  BY DEF Rostered!Begin, RosterFacts!Begin, Rostered!Live, RosterFacts!Live, Rostered!Step,
         RosterFacts!Step, Rostered!NoCall, RosterFacts!NoCall, Rostered!None, RosterFacts!None
<1>3. Rostered!ListBefore => RosterFacts!ListBefore
  BY DEF Rostered!ListBefore, RosterFacts!ListBefore, Rostered!Complete, RosterFacts!Complete,
         Rostered!Owned, RosterFacts!Owned, Rostered!Running, RosterFacts!Running, Rostered!Step,
         RosterFacts!Step, Rostered!Empty, RosterFacts!Empty
<1>4. /\ Rostered!Evaluate => RosterFacts!Evaluate
      /\ Rostered!GetAfter => RosterFacts!GetAfter
  BY DEF Rostered!Evaluate, RosterFacts!Evaluate, Rostered!GetAfter, RosterFacts!GetAfter,
         Rostered!Live, RosterFacts!Live, Rostered!Step, RosterFacts!Step
<1>5. Rostered!QueryRate => RosterFacts!QueryRate
  BY DEF Rostered!QueryRate, RosterFacts!QueryRate, Rostered!Unique, RosterFacts!Unique,
         Rostered!Sample, RosterFacts!Sample, Rostered!Matches, RosterFacts!Matches,
         Rostered!Visible, RosterFacts!Visible, Rostered!Step, RosterFacts!Step,
         Rostered!Cardinality, RosterFacts!Cardinality
<1>6. Rostered!QueryTimestamp => RosterFacts!QueryTimestamp
  BY DEF Rostered!QueryTimestamp, RosterFacts!QueryTimestamp, Rostered!Unique, RosterFacts!Unique,
         Rostered!Sample, RosterFacts!Sample, Rostered!Matches, RosterFacts!Matches,
         Rostered!Visible, RosterFacts!Visible, Rostered!Step, RosterFacts!Step,
         Rostered!Cardinality, RosterFacts!Cardinality, Rostered!Min, RosterFacts!Min, Rostered!Max,
         RosterFacts!Max
<1>7. Rostered!ListAfter => RosterFacts!ListAfter
  BY DEF Rostered!ListAfter, RosterFacts!ListAfter, Rostered!Complete, RosterFacts!Complete,
         Rostered!Owned, RosterFacts!Owned, Rostered!Running, RosterFacts!Running,
         Rostered!SameRoster, RosterFacts!SameRoster, Rostered!Step, RosterFacts!Step,
         Rostered!Empty, RosterFacts!Empty, Rostered!NoCall, RosterFacts!NoCall
<1>8. QED
  BY <1>1, <1>2, <1>3, <1>4, <1>5, <1>6, <1>7 DEF RosterFacts!RosterNext

(***************************************************************************)
(* What the harness does of the provider's roster is a run of its          *)
(* specification.                                                          *)
(***************************************************************************)
LEMMA RosterRuns == HarnessSteps => RosterFacts!RosterSpec
<1>1. HarnessInit => RosterFacts!RosterInit
  BY RosterWorld DEF HarnessInit
<1>2. [HarnessNext]_harnessVars => [Rostered!RosterNext]_Rostered!rosterVars
  BY DEF HarnessNext, harnessVars, observation, roster, Rostered!rosterVars
<1>3. Rostered!RosterNext => RosterFacts!RosterNext
  BY RosterWorld, RosterObservation DEF Rostered!RosterNext, RosterFacts!RosterNext
<1>4. Rostered!rosterVars = RosterFacts!rosterVars
  BY DEF Rostered!rosterVars, RosterFacts!rosterVars
<1>5. [HarnessNext]_harnessVars => [RosterFacts!RosterNext]_RosterFacts!rosterVars
  BY <1>2, <1>3 DEF Rostered!rosterVars, RosterFacts!rosterVars
<1>6. QED
  BY <1>1, <1>5, PTL DEF HarnessSteps, RosterFacts!RosterSpec

(***************************************************************************)
(* An observation that the provider accepts measures the containers that   *)
(* ran throughout as the Deployment's own, all of them, freshly.           *)
(***************************************************************************)
THEOREM MeasuresOneRosterHolds == HarnessSpec => []MeasuresOneRoster
<1>1. RosterFacts!RosterParameters
  BY DEF RosterFacts!RosterParameters
<1>2. RosterFacts!MeasuresOneRoster => MeasuresOneRoster
  BY DEF MeasuresOneRoster, Rostered!MeasuresOneRoster, RosterFacts!MeasuresOneRoster
<1>3. RosterFacts!RosterSpec => []RosterFacts!MeasuresOneRoster
  BY <1>1, RosterFacts!MeasuresOneRosterTheorem
<1>4. HarnessSpec => HarnessSteps
  BY PTL DEF HarnessSpec, HarnessSteps
<1>5. QED
  BY <1>2, <1>3, <1>4, RosterRuns, PTL

(***************************************************************************)
(* The same for the provider: its two instances take the same steps.       *)
(***************************************************************************)
ProviderFacts == INSTANCE ObservationProofs WITH
                  clock <- provider_clock, live <- incarnations, observationSpacing <- 2,
                  Targets <- {"a", "b", "c"}, maxTargets <- 2, MaxTime <- 5,
                  gateOf <- [t \in {"a", "b", "c"} |-> IF t = "c" THEN 2 ELSE 1]

(***************************************************************************)
(* Every step of the provider in the harness is one of the provider that   *)
(* the theorems are about.                                                 *)
(***************************************************************************)
LEMMA ProviderSteps ==
    /\ Provider!ProviderInit => ProviderFacts!ProviderInit
    /\ Provider!ProviderNext => ProviderFacts!ProviderNext
<1>1. Provider!ProviderInit => ProviderFacts!ProviderInit
  BY DEF Provider!ProviderInit, ProviderFacts!ProviderInit, Provider!Callers, ProviderFacts!Callers,
         Provider!Forgotten, ProviderFacts!Forgotten, Provider!Idle, ProviderFacts!Idle,
         Provider!Nothing, ProviderFacts!Nothing, Provider!NoAnswer, ProviderFacts!NoAnswer
<1>2. \A c : Provider!Call(c) => ProviderFacts!Call(c)
  BY DEF Provider!Call, ProviderFacts!Call, Provider!Idle, ProviderFacts!Idle, Provider!NoAnswer,
         ProviderFacts!NoAnswer, Provider!world, ProviderFacts!world
<1>3. \A c : Provider!Acquire(c) => ProviderFacts!Acquire(c)
  BY DEF Provider!Acquire, ProviderFacts!Acquire, Provider!GateFree, ProviderFacts!GateFree,
         Provider!GateHeld, ProviderFacts!GateHeld, Provider!Callers, ProviderFacts!Callers,
         Provider!NoAnswer, ProviderFacts!NoAnswer, Provider!world, ProviderFacts!world
<1>4. \A c : Provider!GiveUp(c) => ProviderFacts!GiveUp(c)
  BY DEF Provider!GiveUp, ProviderFacts!GiveUp, Provider!Idle, ProviderFacts!Idle,
         Provider!NoAnswer, ProviderFacts!NoAnswer, Provider!world, ProviderFacts!world
<1>5. \A c : Provider!Fail(c) => ProviderFacts!Fail(c)
  BY DEF Provider!Fail, ProviderFacts!Fail, Provider!GateHeld, ProviderFacts!GateHeld,
         Provider!Idle, ProviderFacts!Idle, Provider!PreservingErrors,
         ProviderFacts!PreservingErrors, Provider!RestartingErrors, ProviderFacts!RestartingErrors,
         Provider!invalidatesObservationHistory, ProviderFacts!invalidatesObservationHistory,
         Provider!Forgotten, ProviderFacts!Forgotten, Provider!Nothing, ProviderFacts!Nothing,
         Provider!NoAnswer, ProviderFacts!NoAnswer, Provider!world, ProviderFacts!world
<1>6. ASSUME NEW c, Provider!Accept(c)
      PROVE  ProviderFacts!Accept(c)
  <2>1. ASSUME NEW stored, NEW span, NEW now
        PROVE  Provider!Retained(stored, span, now) = ProviderFacts!Retained(stored, span, now)
    BY DEF Provider!Retained, ProviderFacts!Retained, Provider!InWindow, ProviderFacts!InWindow
  <2>3. ASSUME NEW stored, NEW span, NEW sample
        PROVE  Provider!Record(stored, span, sample) = ProviderFacts!Record(stored, span, sample)
    <3> DEFINE retained == Provider!Retained(stored, span, sample.at)
    <3>1. retained = ProviderFacts!Retained(stored, span, sample.at)
      BY <2>1
    <3> HIDE DEF retained
    <3>2. QED
      BY <3>1 DEF Provider!Record, ProviderFacts!Record, retained
  <2>4. \A S : Provider!Cardinality(S) = ProviderFacts!Cardinality(S)
    BY DEF Provider!Cardinality, ProviderFacts!Cardinality
  <2>5. /\ Provider!Forgotten = ProviderFacts!Forgotten /\ Provider!Nothing = ProviderFacts!Nothing
        /\ Provider!Idle = ProviderFacts!Idle /\ Provider!Remembered = ProviderFacts!Remembered
        /\ Provider!world = ProviderFacts!world
        /\ Provider!GateHeld(c) = ProviderFacts!GateHeld(c)
    BY DEF Provider!Forgotten, ProviderFacts!Forgotten, Provider!Nothing, ProviderFacts!Nothing,
           Provider!Idle, ProviderFacts!Idle, Provider!Remembered, ProviderFacts!Remembered,
           Provider!world, ProviderFacts!world, Provider!GateHeld, ProviderFacts!GateHeld
  <2>6. \A S : Provider!EvictOldest(S) = ProviderFacts!EvictOldest(S)
    BY DEF Provider!EvictOldest, ProviderFacts!EvictOldest
  <2>7. \A t, uid, now : Provider!Earlier(t, uid, now) = ProviderFacts!Earlier(t, uid, now)
    BY DEF Provider!Earlier, ProviderFacts!Earlier
  <2>8. \A t, newcomer : Provider!Evictable(t, newcomer) = ProviderFacts!Evictable(t, newcomer)
    BY <2>4, <2>5 DEF Provider!Evictable, ProviderFacts!Evictable
  <2>9. \A S : Provider!Min(S) = ProviderFacts!Min(S)
    BY DEF Provider!Min, ProviderFacts!Min
  <2>10. ASSUME NEW t, NEW uid, NEW span, NEW now, Provider!Note(t, uid, span, now)
         PROVE  ProviderFacts!Note(t, uid, span, now)
    BY <2>5, <2>7, <2>8, <2>9, <2>10 DEF Provider!Note, ProviderFacts!Note
  <2> DEFINE asked  == calls[c]
             of     == asked.target
             stored == IF history[of].uid = asked.uid THEN history[of].samples ELSE <<>>
             newest == [at |-> asked.at, uid |-> asked.uid]
  <2>11. /\ ProviderFacts!GateHeld(c) /\ calls' = [calls EXCEPT ![c] = ProviderFacts!Idle]
         /\ UNCHANGED <<ProviderFacts!world, left>>
    <3>1. Provider!GateHeld(c) /\ UNCHANGED <<Provider!world, left>>
      BY <1>6 DEF Provider!Accept
    <3>2. calls' = [calls EXCEPT ![c] = Provider!Idle]
      BY <1>6 DEF Provider!Accept
    <3>3. UNCHANGED <<ProviderFacts!world, left>>
      BY <3>1 DEF Provider!world, ProviderFacts!world
    <3>4. QED
      BY <2>5, <3>1, <3>2, <3>3
  <2>12. \E evicted \in IF /\ history[of] = ProviderFacts!Forgotten
                          /\ ProviderFacts!Cardinality(ProviderFacts!Remembered) >= 2
                       THEN {{oldest} :
                             oldest \in ProviderFacts!EvictOldest(ProviderFacts!Remembered)}
                       ELSE {{}} :
            history' = [other \in {"a", "b", "c"} |->
                          IF other = of
                          THEN [uid |-> asked.uid,
                                samples |-> ProviderFacts!Record(stored, asked.window, newest).kept,
                                lastUsed |-> asked.at]
                          ELSE IF other \in evicted THEN ProviderFacts!Forgotten
                          ELSE history[other]]
    <3>1. Provider!Record(stored, asked.window, newest)
            = ProviderFacts!Record(stored, asked.window, newest)
      BY <2>3
    <3>2. /\ Provider!Cardinality(Provider!Remembered)
               = ProviderFacts!Cardinality(ProviderFacts!Remembered)
          /\ Provider!EvictOldest(Provider!Remembered)
               = ProviderFacts!EvictOldest(ProviderFacts!Remembered)
      BY <2>4, <2>5, <2>6
    <3>3. \E evicted \in IF /\ history[of] = Provider!Forgotten
                           /\ Provider!Cardinality(Provider!Remembered) >= 2
                        THEN {{oldest} : oldest \in Provider!EvictOldest(Provider!Remembered)}
                        ELSE {{}} :
             history' = [other \in {"a", "b", "c"} |->
                           IF other = of
                           THEN [uid |-> asked.uid,
                                 samples |-> Provider!Record(stored, asked.window, newest).kept,
                                 lastUsed |-> asked.at]
                           ELSE IF other \in evicted THEN Provider!Forgotten
                           ELSE history[other]]
      BY <1>6, ZenonT(30) DEF Provider!Accept
    <3> HIDE DEF asked, of, stored, newest
    <3>4. QED
      BY <2>5, <3>1, <3>2, <3>3
  <2>13. ProviderFacts!Note(of, asked.uid, asked.window, asked.at)
    BY <1>6, <2>10 DEF Provider!Accept
  <2>14. answered' = [samples |-> ProviderFacts!Record(stored, asked.window, newest).returned,
                      call |-> asked,
                      earlier |-> ProviderFacts!Earlier(of, asked.uid, asked.at)]
    <3>1. Provider!Record(stored, asked.window, newest)
            = ProviderFacts!Record(stored, asked.window, newest)
      BY <2>3
    <3>2. Provider!Earlier(of, asked.uid, asked.at) = ProviderFacts!Earlier(of, asked.uid, asked.at)
      BY <2>7
    <3>3. QED
      BY <1>6, <3>1, <3>2 DEF Provider!Accept
  <2>15. QED
    BY <2>11, <2>12, <2>13, <2>14, ZenonT(30) DEF ProviderFacts!Accept
<1>7. /\ Provider!Tick => ProviderFacts!Tick
      /\ Provider!SetBack => ProviderFacts!SetBack
      /\ \A t : Provider!Replace(t) => ProviderFacts!Replace(t)
  BY DEF Provider!Tick, ProviderFacts!Tick, Provider!SetBack, ProviderFacts!SetBack,
         Provider!Replace, ProviderFacts!Replace, Provider!Disturb, ProviderFacts!Disturb,
         Provider!NoAnswer, ProviderFacts!NoAnswer
<1>8. Provider!Callers = ProviderFacts!Callers
  BY DEF Provider!Callers, ProviderFacts!Callers
<1>9. QED
  BY <1>1, <1>2, <1>3, <1>4, <1>5, <1>6, <1>7, <1>8
     DEF Provider!ProviderNext, ProviderFacts!ProviderNext

(***************************************************************************)
(* What the harness does of the provider is a run of its specification.    *)
(***************************************************************************)
LEMMA ProviderRuns == HarnessSteps => ProviderFacts!ProviderSpec
<1>1. HarnessInit => ProviderFacts!ProviderInit
  BY ProviderSteps DEF HarnessInit
<1>2. [HarnessNext]_harnessVars => [Provider!ProviderNext]_Provider!providerVars
  BY DEF HarnessNext, harnessVars, observation, provider, Provider!providerVars
<1>3. [HarnessNext]_harnessVars => [ProviderFacts!ProviderNext]_ProviderFacts!providerVars
  BY <1>2, ProviderSteps DEF Provider!providerVars, ProviderFacts!providerVars
<1>4. QED
  BY <1>1, <1>3, PTL DEF HarnessSteps, ProviderFacts!ProviderSpec

(***************************************************************************)
(* What the predictor is given is what the provider promises, and nothing  *)
(* but a failure that counts as one or a clock set back puts the warm-up   *)
(* of a target off.                                                        *)
(***************************************************************************)
THEOREM WarmsUpInHarness == HarnessSpec => []WarmsUp
<1>1. ProviderFacts!ProviderParameters
  BY ProviderAssumption DEF Provider!ProviderParameters, ProviderFacts!ProviderParameters,
                            Provider!IsFiniteSet, ProviderFacts!IsFiniteSet
<1>2. ProviderFacts!WarmsUp => WarmsUp
  BY DEF WarmsUp, Provider!WarmsUp, ProviderFacts!WarmsUp, Provider!NoAnswer,
                  ProviderFacts!NoAnswer, Provider!Min, ProviderFacts!Min
<1>3. ProviderFacts!ProviderSpec => []ProviderFacts!WarmsUp
  BY <1>1, ProviderFacts!WarmsUpHolds
<1>4. HarnessSpec => HarnessSteps
  BY PTL DEF HarnessSpec, HarnessSteps
<1>5. QED
  BY <1>2, <1>3, <1>4, ProviderRuns, PTL

(***************************************************************************)
(* The replay of the CPU histories.  A log that begins late misses what    *)
(* the provider kept before, so that the first sample of the replay may be *)
(* another than the provider's; but then it is one that the log told no    *)
(* value of, and the two lists agree in all that follows.                  *)
(***************************************************************************)
ReplaySample == [at : Int, value : Int]

Tells(R, P) ==
    /\ Len(R) = Len(P)
    /\ \A i \in 2..Len(P) : R[i] = P[i]
    /\ Len(P) > 0 => R[1] = P[1] \/ R[1].value = 0

SameStart(R, P) == Len(P) > 0 => R[1].at = P[1].at

\* The newest sample x follows n samples of P, which are all of them if it is an anchor and
\* is stored.
Shown(P, x, n)  == Append(SubSeq(P, 1, n), x)
Stored(P, x, n) == IF n = Len(P) THEN Append(P, x) ELSE P

\* What is shown ends with the newest sample, before which there is what was kept.
LEMMA ShownFacts ==
    ASSUME NEW P \in Seq(ReplaySample), NEW x \in ReplaySample, NEW n \in 0..Len(P)
    PROVE  /\ Shown(P, x, n) \in Seq(ReplaySample) /\ Stored(P, x, n) \in Seq(ReplaySample)
           /\ Len(Shown(P, x, n)) = n + 1 /\ Shown(P, x, n)[n + 1] = x
           /\ \A i \in 1..n : Shown(P, x, n)[i] = P[i]
           /\ n = Len(P) => Stored(P, x, n) = Shown(P, x, n)
<1> DEFINE F == SubSeq(P, 1, n)
<1>1. F \in Seq(ReplaySample) /\ Len(F) = n /\ \A i \in 1..n : F[i] = P[i]
  BY Beginning
<1>2. n = Len(P) => F = P
  OBVIOUS
<1> HIDE DEF F
<1>3. /\ Append(F, x) \in Seq(ReplaySample) /\ Len(Append(F, x)) = n + 1
      /\ Append(F, x)[n + 1] = x /\ \A i \in 1..n : Append(F, x)[i] = F[i]
  BY <1>1
<1>4. Append(P, x) \in Seq(ReplaySample)
  OBVIOUS
<1>5. QED
  BY <1>1, <1>2, <1>3, <1>4 DEF Shown, Stored, F

\* Lists that tell of each other go on to do so, when both take an anchor or neither does.
LEMMA TellsOn ==
    ASSUME NEW P \in Seq(ReplaySample), NEW R \in Seq(ReplaySample), NEW x \in ReplaySample,
           NEW y \in ReplaySample, NEW n \in 0..Len(P), Tells(R, P), x.at = y.at,
           IF n > 0 THEN y = x ELSE y.value = 0
    PROVE  /\ Tells(Shown(R, y, n), Shown(P, x, n)) /\ Tells(Stored(R, y, n), Stored(P, x, n))
           /\ SameStart(R, P) => /\ SameStart(Shown(R, y, n), Shown(P, x, n))
                                 /\ SameStart(Stored(R, y, n), Stored(P, x, n))
<1> DEFINE p == Shown(P, x, n)
           r == Shown(R, y, n)
<1>1. Len(P) \in Nat /\ Len(R) = Len(P) /\ n \in 0..Len(R) /\ n \in Nat
  BY DEF Tells
<1>2. /\ Len(p) = n + 1 /\ p[n + 1] = x /\ \A i \in 1..n : p[i] = P[i]
      /\ n = Len(P) => Stored(P, x, n) = p
  BY ShownFacts
<1>3. /\ Len(r) = n + 1 /\ r[n + 1] = y /\ \A i \in 1..n : r[i] = R[i]
      /\ n = Len(R) => Stored(R, y, n) = r
  BY <1>1, ShownFacts
<1> HIDE DEF p, r
<1>4. ASSUME NEW i \in 2..Len(p) PROVE r[i] = p[i]
  <2>1. CASE i = n + 1
    BY <1>1, <1>2, <1>3, <2>1
  <2>2. CASE i # n + 1
    <3>1. i \in 1..n /\ i \in 2..Len(P)
      BY <1>1, <1>2, <2>2
    <3>2. QED
      BY <1>2, <1>3, <3>1 DEF Tells
  <2>3. QED
    BY <2>1, <2>2
<1>5. (r[1] = p[1] \/ r[1].value = 0) /\ (SameStart(R, P) => r[1].at = p[1].at)
  <2>1. CASE n = 0
    BY <1>2, <1>3, <2>1
  <2>2. CASE n # 0
    <3>1. 1 \in 1..n /\ Len(P) > 0
      BY <1>1, <2>2
    <3>2. QED
      BY <1>2, <1>3, <3>1 DEF Tells, SameStart
  <2>3. QED
    BY <2>1, <2>2
<1>6. Tells(r, p) /\ (SameStart(R, P) => SameStart(r, p))
  BY <1>2, <1>3, <1>4, <1>5 DEF Tells, SameStart
<1>7. n # Len(P) => Stored(P, x, n) = P /\ Stored(R, y, n) = R
  BY <1>1 DEF Stored
<1>8. QED
  BY <1>1, <1>2, <1>3, <1>6, <1>7 DEF p, r

\* A single sample whose value the log does not tell.
LEMMA TellsOfOne ==
    ASSUME NEW P \in Seq(ReplaySample), NEW R \in Seq(ReplaySample), NEW x \in ReplaySample,
           NEW y \in ReplaySample, Len(P) \in {0, 1}, Len(R) \in {0, 1}, y.value = 0,
           Len(R) = 1 => R[1].value = 0
    PROVE  /\ Tells(Shown(R, y, 0), Shown(P, x, 0)) /\ Tells(Stored(R, y, 0), Stored(P, x, 0))
<1>1. ASSUME NEW n \in 0..Len(P), n = 0
      PROVE  Len(Shown(P, x, n)) = 1 /\ (Len(P) = n => Stored(P, x, n) = Shown(P, x, n))
  <2>1. /\ Len(Shown(P, x, n)) = n + 1 /\ Shown(P, x, n)[n + 1] = x
        /\ n = Len(P) => Stored(P, x, n) = Shown(P, x, n)
    BY ShownFacts
  <2>2. QED
    BY <1>1, <2>1
<1>2. Len(Shown(P, x, 0)) = 1 /\ (Len(P) = 0 => Stored(P, x, 0) = Shown(P, x, 0))
  BY <1>1
<1>3. /\ Len(Shown(R, y, 0)) = 1 /\ Shown(R, y, 0)[1] = y
      /\ Len(R) = 0 => Stored(R, y, 0) = Shown(R, y, 0)
  <2>1. ASSUME NEW n \in 0..Len(R), n = 0
        PROVE  /\ Len(Shown(R, y, n)) = 1 /\ Shown(R, y, n)[1] = y
               /\ Len(R) = n => Stored(R, y, n) = Shown(R, y, n)
    <3>1. /\ Len(Shown(R, y, n)) = n + 1 /\ Shown(R, y, n)[n + 1] = y
          /\ n = Len(R) => Stored(R, y, n) = Shown(R, y, n)
      BY ShownFacts
    <3>2. QED
      BY <2>1, <3>1
  <2>2. QED
    BY <2>1
<1>4. Len(P) = 1 => Stored(P, x, 0) = P
  BY DEF Stored
<1>5. Len(R) = 1 => Stored(R, y, 0) = R
  BY DEF Stored
<1>6. QED
  BY <1>2, <1>3, <1>4, <1>5 DEF Tells

\* How many samples go before the newest in what is shown: it takes the place of an anchor
\* that is not a spacing old.
Anchors(P, now) == P = <<>> \/ now - P[Len(P)].at >= observationSpacing
Before(P, now)  == IF Anchors(P, now) THEN Len(P) ELSE Len(P) - 1

\* The two notions, as numbers: it is one less than there are, or as many.
LEMMA BeforeFacts ==
    ASSUME NEW P \in Seq(ReplaySample), NEW now
    PROVE  /\ Before(P, now) \in 0..Len(P) /\ Len(P) \in Nat
           /\ Len(P) \in {Before(P, now), Before(P, now) + 1}
           /\ Before(P, now) = Len(P) <=> Anchors(P, now)
           /\ P = <<>> <=> Len(P) = 0
  BY DEF Before, Anchors

\* record() and history_series(), both in these terms.
LEMMA BothShow ==
    ASSUME NEW P \in Seq(ReplaySample), NEW x
    PROVE  /\ Anchors(P, x.at) <=> P = <<>> \/ x.at - P[Len(P)].at >= observationSpacing
           /\ Anchors(P, x.at) => /\ Shown(P, x, Before(P, x.at)) = Append(P, x)
                                  /\ Stored(P, x, Before(P, x.at)) = Append(P, x)
           /\ ~Anchors(P, x.at) =>
                 /\ Shown(P, x, Before(P, x.at)) = Append(SubSeq(P, 1, Len(P) - 1), x)
                 /\ Stored(P, x, Before(P, x.at)) = P
<1>1. SubSeq(P, 1, Len(P)) = P /\ Len(P) \in Nat
  OBVIOUS
<1>2. Anchors(P, x.at) <=> P = <<>> \/ x.at - P[Len(P)].at >= observationSpacing
  BY DEF Anchors
<1>3. CASE Anchors(P, x.at)
  BY <1>1, <1>2, <1>3 DEF Before, Shown, Stored
<1>4. CASE ~Anchors(P, x.at)
  <2>1. Before(P, x.at) = Len(P) - 1 /\ Len(P) - 1 # Len(P)
    <3>1. /\ Before(P, x.at) \in 0..Len(P) /\ Before(P, x.at) # Len(P)
          /\ Len(P) \in {Before(P, x.at), Before(P, x.at) + 1}
      BY <1>4, BeforeFacts
    <3>2. \A l \in Nat : \A b \in 0..l : b # l /\ l \in {b, b + 1} => b = l - 1 /\ l - 1 # l
      OBVIOUS
    <3>3. QED
      BY <1>1, <3>1, <3>2, Zenon
  <2>2. QED
    BY <1>2, <1>4, <2>1 DEF Shown, Stored
<1>5. QED
  BY <1>2, <1>3, <1>4

\* record() in these terms ...
LEMMA RecordShows ==
    ASSUME NEW p, NEW x, Replayed!Retained(p, window, x.at) \in Seq(ReplaySample)
    PROVE  LET P == Replayed!Retained(p, window, x.at)
           IN  Replayed!Record(p, window, x) = [kept     |-> Stored(P, x, Before(P, x.at)),
                                                returned |-> Shown(P, x, Before(P, x.at))]
<1> DEFINE P == Replayed!Retained(p, window, x.at)
<1>1. /\ Anchors(P, x.at) <=> P = <<>> \/ x.at - P[Len(P)].at >= observationSpacing
      /\ Anchors(P, x.at) => /\ Shown(P, x, Before(P, x.at)) = Append(P, x)
                             /\ Stored(P, x, Before(P, x.at)) = Append(P, x)
      /\ ~Anchors(P, x.at) =>
            /\ Shown(P, x, Before(P, x.at)) = Append(SubSeq(P, 1, Len(P) - 1), x)
            /\ Stored(P, x, Before(P, x.at)) = P
  <2> HIDE DEF P
  <2>1. P \in Seq(ReplaySample)
    BY DEF P
  <2>2. QED
    BY <2>1, BothShow
<1>2. Replayed!Record(p, window, x)
        = IF P = <<>> \/ x.at - P[Len(P)].at >= observationSpacing
          THEN [kept |-> Append(P, x), returned |-> Append(P, x)]
          ELSE [kept |-> P, returned |-> Append(SubSeq(P, 1, Len(P) - 1), x)]
  BY DEF Replayed!Record
<1> HIDE DEF P
<1>3. Replayed!Record(p, window, x) = [kept     |-> Stored(P, x, Before(P, x.at)),
                                       returned |-> Shown(P, x, Before(P, x.at))]
  BY <1>1, <1>2
<1>4. QED
  BY <1>3 DEF P

\* ... and history_series() on the same list.
LEMMA SeriesShows ==
    ASSUME NEW r, NEW y, NEW count, Replayed!Retained(r, window, y.at) \in Seq(ReplaySample)
    PROVE  LET R == Replayed!Retained(r, window, y.at)
               h == Replayed!HistorySeries(r, y, count)
           IN  /\ h.anchors = Stored(R, y, Before(R, y.at))
               /\ h.series = Shown(R, y, Before(R, y.at))
               /\ h.agrees <=> Len(Shown(R, y, Before(R, y.at))) = count
<1> DEFINE R == Replayed!Retained(r, window, y.at)
           anchored == R = <<>> \/ y.at - R[Len(R)].at >= observationSpacing
           whole == Append(IF anchored THEN R ELSE SubSeq(R, 1, Len(R) - 1), y)
<1>1. /\ Anchors(R, y.at) <=> anchored
      /\ Anchors(R, y.at) => /\ Shown(R, y, Before(R, y.at)) = Append(R, y)
                             /\ Stored(R, y, Before(R, y.at)) = Append(R, y)
      /\ ~Anchors(R, y.at) =>
            /\ Shown(R, y, Before(R, y.at)) = Append(SubSeq(R, 1, Len(R) - 1), y)
            /\ Stored(R, y, Before(R, y.at)) = R
  <2> HIDE DEF R
  <2>1. R \in Seq(ReplaySample)
    BY DEF R
  <2>2. QED
    BY <2>1, BothShow
<1> DEFINE h == Replayed!HistorySeries(r, y, count)
<1>2. /\ h.anchors = IF anchored THEN whole ELSE R
      /\ h.series = whole
      /\ h.agrees <=> Len(whole) = count
  BY DEF Replayed!HistorySeries
<1>3. /\ whole = Shown(R, y, Before(R, y.at))
      /\ (IF anchored THEN whole ELSE R) = Stored(R, y, Before(R, y.at))
  <2> HIDE DEF R
  <2>1. QED
    BY <1>1
<1>4. QED
  BY <1>2, <1>3

\* What is retained of a list is a list, and of nothing nothing.
LEMMA RetainsList ==
    ASSUME NEW p \in Seq(ReplaySample), NEW now
    PROVE  /\ Replayed!Retained(p, window, now) \in Seq(ReplaySample)
           /\ p = <<>> => Replayed!Retained(p, window, now) = <<>>
<1>1. Replayed!Retained(p, window, now) = ProviderFacts!Retained(p, window, now)
  BY DEF Replayed!Retained, ProviderFacts!Retained, Replayed!InWindow, ProviderFacts!InWindow
<1>2. PICK g : /\ ProviderFacts!IsPass(g, ReplaySample, p, window, now)
               /\ ProviderFacts!Retained(p, window, now) = g[Len(p)]
  BY ProviderFacts!RetainedPass
<1>3. /\ g \in [0..Len(p) -> Seq(ReplaySample)] /\ g[0] = <<>>
      /\ Len(p) \in 0..Len(p) /\ (p = <<>> => Len(p) = 0)
  BY <1>2 DEF ProviderFacts!IsPass
<1>4. QED
  BY <1>1, <1>2, <1>3

\* An observation: if the two counts agree, so do the histories; of a whole log they do.
LEMMA ReplayFollows ==
    ASSUME NEW p \in Seq(ReplaySample), NEW r \in Seq(ReplaySample), r = <<>> \/ Tells(r, p),
           NEW x \in ReplaySample, NEW y \in ReplaySample, x.at = y.at,
           NEW P, P = Replayed!Retained(p, window, x.at),
           NEW R, R = Replayed!Retained(r, window, y.at),
           NEW n, n = Before(P, x.at), NEW m, m = Before(R, y.at),
           IF n > 0 THEN y = x ELSE y.value = 0
    PROVE  /\ n = m => /\ Tells(Shown(R, y, m), Shown(P, x, n))
                       /\ Tells(Stored(R, y, m), Stored(P, x, n))
           /\ Tells(r, p) /\ SameStart(r, p) =>
                       /\ n = m
                       /\ SameStart(Shown(R, y, m), Shown(P, x, n))
                       /\ SameStart(Stored(R, y, m), Stored(P, x, n))
<1>1. P \in Seq(ReplaySample) /\ R \in Seq(ReplaySample) /\ (r = <<>> => R = <<>>)
  BY RetainsList
<1>2. /\ n \in 0..Len(P) /\ Len(P) \in Nat /\ Len(P) \in {n, n + 1}
      /\ n = Len(P) <=> Anchors(P, x.at)
      /\ P = <<>> <=> Len(P) = 0
  BY <1>1, BeforeFacts
<1>3. /\ m \in 0..Len(R) /\ Len(R) \in Nat /\ Len(R) \in {m, m + 1}
      /\ m = Len(R) <=> Anchors(R, x.at)
      /\ R = <<>> <=> Len(R) = 0
  BY <1>1, BeforeFacts
<1>4. ASSUME Tells(R, P), n = m
      PROVE  /\ Tells(Shown(R, y, m), Shown(P, x, n)) /\ Tells(Stored(R, y, m), Stored(P, x, n))
             /\ SameStart(R, P) => /\ SameStart(Shown(R, y, m), Shown(P, x, n))
                                   /\ SameStart(Stored(R, y, m), Stored(P, x, n))
  BY <1>1, <1>2, <1>4, TellsOn
<1>5. ASSUME n = 0, m = 0, Len(R) = 1 => R[1].value = 0
      PROVE  Tells(Shown(R, y, m), Shown(P, x, n)) /\ Tells(Stored(R, y, m), Stored(P, x, n))
  <2>1. Len(P) \in {0, 1} /\ Len(R) \in {0, 1} /\ y.value = 0
    BY <1>2, <1>3, <1>5
  <2>2. Tells(Shown(R, y, 0), Shown(P, x, 0)) /\ Tells(Stored(R, y, 0), Stored(P, x, 0))
    BY <1>1, <1>5, <2>1, TellsOfOne
  <2>3. QED
    BY <1>5, <2>2
<1>6. ASSUME Tells(R, P), SameStart(R, P) PROVE n = m
  <2>1. Len(R) = Len(P)
    BY <1>6 DEF Tells
  <2>2. Len(P) > 0 => R[Len(R)].at = P[Len(P)].at
    <3>1. CASE Len(P) = 1
      BY <1>6, <2>1, <3>1 DEF SameStart
    <3>2. CASE Len(P) >= 2
      <4>1. Len(P) \in 2..Len(P)
        BY <1>2, <3>2
      <4>2. QED
        BY <1>6, <2>1, <4>1 DEF Tells
    <3>3. \A l \in Nat : l > 0 => l = 1 \/ l >= 2
      OBVIOUS
    <3>4. Len(P) > 0 => Len(P) = 1 \/ Len(P) >= 2
      BY <1>2, <3>3, Zenon
    <3>5. QED
      BY <3>1, <3>2, <3>4, Zenon
  <2>3. Anchors(R, x.at) <=> Anchors(P, x.at)
    BY <1>2, <1>3, <2>1, <2>2 DEF Anchors
  <2>4. (n = Len(P)) <=> (m = Len(R))
    BY <1>2, <1>3, <2>3
  <2>5. QED
    BY <1>2, <1>3, <2>1, <2>4
<1>7. CASE r = <<>>
  <2>1. Len(R) = 0 /\ m = 0
    BY <1>1, <1>3, <1>7
  <2>2. n = m => /\ Tells(Shown(R, y, m), Shown(P, x, n))
                 /\ Tells(Stored(R, y, m), Stored(P, x, n))
    BY <1>5, <2>1
  <2>3. ASSUME Tells(r, p) PROVE Tells(R, P) /\ SameStart(R, P)
    <3>1. p = <<>>
      BY <1>7, <2>3 DEF Tells
    <3>2. P = <<>>
      BY <3>1, RetainsList
    <3>3. QED
      BY <1>2, <2>1, <3>2 DEF Tells, SameStart
  <2>4. QED
    BY <1>4, <1>6, <2>2, <2>3
<1>8. CASE r # <<>>
  <2>1. Tells(r, p) /\ Len(p) > 0 /\ Len(r) = Len(p) /\ \A i \in 2..Len(p) : r[i] = p[i]
    <3>1. Tells(r, p)
      BY <1>8
    <3>2. Len(r) > 0
      BY <1>8
    <3>3. QED
      BY <3>1, <3>2 DEF Tells
  <2> DEFINE a == ProviderFacts!First(p, window, x.at)
             b == ProviderFacts!First(r, window, x.at)
  <2>2. /\ Len(P) - a = Len(R) - b /\ a <= Len(P)
        /\ \A j \in 1 .. Len(P) - a : P[j + a] = R[j + b]
        /\ (a = 1 => P[1] = p[1]) /\ (b = 1 => R[1] = r[1])
    <3>1. /\ P = ProviderFacts!Retained(p, window, x.at)
          /\ R = ProviderFacts!Retained(r, window, x.at)
      BY DEF Replayed!Retained, ProviderFacts!Retained, Replayed!InWindow, ProviderFacts!InWindow
    <3>2. /\ ProviderFacts!SameTail(P, R, a, b)
          /\ ProviderFacts!KeepsFirst(P, p, a) /\ ProviderFacts!KeepsFirst(R, r, b)
      BY <2>1, <3>1, ProviderFacts!RetainsAlike
    <3>3. QED
      BY <3>2 DEF ProviderFacts!SameTail, ProviderFacts!KeepsFirst
  <2>3. a \in {0, 1} /\ b \in {0, 1} /\ (r[1].at = p[1].at => a = b)
    BY DEF ProviderFacts!First, ProviderFacts!InWindow
  <2> HIDE DEF a, b
  <2>4. CASE a = b
    <3>1. Tells(R, P)
      <4>1. Len(R) = Len(P)
        BY <1>2, <1>3, <2>2, <2>3, <2>4
      <4>2. ASSUME NEW i \in 2..Len(P) PROVE R[i] = P[i]
        <5>1. i - a \in 1 .. Len(P) - a /\ (i - a) + a = i /\ (i - a) + b = i
          BY <1>2, <2>3, <2>4
        <5>2. QED
          BY <2>2, <5>1
      <4>3. ASSUME Len(P) > 0 PROVE R[1] = P[1] \/ R[1].value = 0
        <5>1. CASE a = 0
          <6>1. 1 \in 1 .. Len(P) - a /\ 1 + a = 1 /\ 1 + b = 1
            BY <1>2, <2>4, <4>3, <5>1
          <6>2. QED
            BY <2>2, <6>1
        <5>2. CASE a = 1
          BY <2>1, <2>2, <2>4, <5>2 DEF Tells
        <5>3. QED
          BY <2>3, <5>1, <5>2
      <4>4. QED
        BY <4>1, <4>2, <4>3 DEF Tells
    <3>2. SameStart(r, p) => SameStart(R, P)
      <4>1. CASE a = 0 /\ Len(P) > 0
        <5>1. 1 \in 1 .. Len(P) - a /\ 1 + a = 1 /\ 1 + b = 1
          BY <1>2, <2>4, <4>1
        <5>2. P[1] = R[1]
          BY <2>2, <5>1
        <5>3. QED
          BY <5>2 DEF SameStart
      <4>2. CASE a = 1
        BY <2>1, <2>2, <2>4, <4>2 DEF SameStart
      <4>3. CASE Len(P) = 0
        BY <4>3 DEF SameStart
      <4>4. QED
        BY <1>2, <2>3, <4>1, <4>2, <4>3
    <3>3. QED
      BY <1>4, <1>6, <3>1, <3>2
  <2>5. CASE a # b
    <3>1. ~SameStart(r, p) /\ r[1].value = 0
      BY <2>1, <2>3, <2>5 DEF SameStart, Tells
    <3>2. ASSUME n = m PROVE n = 0 /\ m = 0 /\ (Len(R) = 1 => R[1].value = 0)
      <4>1. Len(P) = a
        <5>1. SUFFICES ASSUME Len(P) - a > 0 PROVE FALSE
          BY <1>2, <2>2, <2>3
        <5>2. P[Len(P)] = R[Len(R)] /\ Len(R) > 0
          <6>1. /\ Len(P) - a \in 1 .. Len(P) - a /\ (Len(P) - a) + a = Len(P)
                /\ (Len(P) - a) + b = Len(R) /\ Len(R) > 0
            BY <1>2, <1>3, <2>2, <2>3, <5>1, SMTT(30)
          <6>2. QED
            BY <2>2, <6>1
        <5>3. Len(P) > 0
          BY <1>2, <2>3, <5>1
        <5>4. Anchors(R, x.at) <=> Anchors(P, x.at)
          BY <1>2, <1>3, <5>2, <5>3 DEF Anchors
        <5>5. (n = Len(P)) <=> (m = Len(R))
          BY <1>2, <1>3, <5>4
        <5>6. Len(P) = Len(R)
          BY <1>2, <1>3, <3>2, <5>5
        <5>7. QED
          BY <1>2, <2>2, <2>3, <2>5, <5>6
      <4>2. Len(R) = b
        BY <1>2, <1>3, <2>2, <2>3, <4>1
      <4>3. n = 0 /\ m = 0
        BY <1>2, <1>3, <2>3, <2>5, <3>2, <4>1, <4>2
      <4>4. Len(R) = 1 => R[1].value = 0
        BY <2>2, <3>1, <4>2
      <4>5. QED
        BY <4>3, <4>4
    <3>3. QED
      BY <1>5, <3>1, <3>2
  <2>6. QED
    BY <2>4, <2>5
<1>9. QED
  BY <1>7, <1>8

\* What the cycles keep: of a whole log the two lists agree to the first sample's time and
\* the replay has refused nothing; of any log it has not refused, they tell of each other.
ReplayLists ==
    /\ kept \in Seq(ReplaySample) /\ returned \in Seq(ReplaySample)
    /\ anchors \in Seq(ReplaySample) /\ series \in Seq(ReplaySample)
    /\ observed_at \in Int /\ lost \in Nat

WholeLog ==
    /\ accepted /\ seen_decision = decided
    /\ Tells(anchors, kept) /\ SameStart(anchors, kept)
    /\ Tells(series, returned) /\ SameStart(series, returned)

LateLog ==
    /\ anchors = <<>> \/ Tells(anchors, kept)
    /\ series = <<>> \/ Tells(series, returned)

ReplayInv ==
    /\ ReplayLists
    /\ ~begun => anchors = <<>> /\ series = <<>>
    /\ lost = 0 => WholeLog
    /\ accepted => LateLog

\* One observation: what the provider and the replay keep and show, and what follows for
\* the two of them.
LEMMA ObservationShown ==
    ASSUME NEW p \in Seq(ReplaySample), NEW r \in Seq(ReplaySample),
           NEW t \in Int, NEW v \in Replayed!Values,
           NEW answer, answer = Replayed!Record(p, window, [at |-> t, value |-> v]),
           NEW w, w = IF Replayed!Decides(answer.returned) THEN v ELSE Replayed!Unknown,
           NEW redone, redone = Replayed!HistorySeries(r, [at |-> t, value |-> w],
                                                       Len(answer.returned))
    PROVE  /\ answer.kept \in Seq(ReplaySample) /\ answer.returned \in Seq(ReplaySample)
           /\ redone.anchors \in Seq(ReplaySample) /\ redone.series \in Seq(ReplaySample)
           /\ (r = <<>> \/ Tells(r, p)) /\ redone.agrees =>
                  /\ Tells(redone.anchors, answer.kept)
                  /\ Tells(redone.series, answer.returned)
           /\ Tells(r, p) /\ SameStart(r, p) =>
                  /\ redone.agrees
                  /\ Tells(redone.anchors, answer.kept)
                  /\ Tells(redone.series, answer.returned)
                  /\ SameStart(redone.anchors, answer.kept)
                  /\ SameStart(redone.series, answer.returned)
<1> DEFINE x == [at |-> t, value |-> v]
           y == [at |-> t, value |-> w]
           P == Replayed!Retained(p, window, x.at)
           R == Replayed!Retained(r, window, y.at)
           n == Before(P, x.at)
           m == Before(R, y.at)
<1>1. v \in Int /\ w \in Int /\ x \in ReplaySample /\ y \in ReplaySample /\ x.at = y.at
  BY DEF Replayed!Values, Replayed!Unknown, ReplaySample
<1>2. P \in Seq(ReplaySample) /\ R \in Seq(ReplaySample)
  BY RetainsList
<1>3. answer = [kept |-> Stored(P, x, n), returned |-> Shown(P, x, n)]
  BY <1>2, RecordShows
<1>4. /\ redone.anchors = Stored(R, y, m) /\ redone.series = Shown(R, y, m)
      /\ redone.agrees <=> Len(Shown(R, y, m)) = Len(answer.returned)
  BY <1>2, SeriesShows
<1> HIDE DEF P, R
<1>5. n \in 0..Len(P) /\ m \in 0..Len(R)
  BY <1>2, BeforeFacts
<1> HIDE DEF n, m
<1>6. /\ Shown(P, x, n) \in Seq(ReplaySample) /\ Stored(P, x, n) \in Seq(ReplaySample)
      /\ Len(Shown(P, x, n)) = n + 1
  BY <1>1, <1>2, <1>5, ShownFacts
<1>7. /\ Shown(R, y, m) \in Seq(ReplaySample) /\ Stored(R, y, m) \in Seq(ReplaySample)
      /\ Len(Shown(R, y, m)) = m + 1
  BY <1>1, <1>2, <1>5, ShownFacts
<1>8. n \in Int /\ m \in Int /\ (n > 0 <=> n + 1 >= 2)
  BY <1>2, <1>5
<1>9. IF n > 0 THEN y = x ELSE y.value = 0
  <2>1. answer.returned = Shown(P, x, n)
    BY <1>3
  <2>2. Replayed!Decides(answer.returned) <=> n > 0
    BY <1>6, <1>8, <2>1 DEF Replayed!Decides
  <2>3. QED
    BY <2>2 DEF Replayed!Unknown
<1>10. redone.agrees <=> n = m
  <2>1. redone.agrees <=> Len(Shown(R, y, m)) = Len(Shown(P, x, n))
    <3> HIDE DEF x, y
    <3>1. answer.returned = Shown(P, x, n)
      BY <1>3
    <3>2. QED
      BY <1>4, <3>1, Zenon
  <2>2. n + 1 = m + 1 <=> n = m
    BY <1>8
  <2>3. QED
    BY <1>6, <1>7, <2>1, <2>2, Zenon
<1>11. r = <<>> \/ Tells(r, p) =>
          /\ n = m => /\ Tells(Shown(R, y, m), Shown(P, x, n))
                      /\ Tells(Stored(R, y, m), Stored(P, x, n))
          /\ Tells(r, p) /\ SameStart(r, p) =>
                      /\ n = m
                      /\ SameStart(Shown(R, y, m), Shown(P, x, n))
                      /\ SameStart(Stored(R, y, m), Stored(P, x, n))
  <2>1. SUFFICES ASSUME r = <<>> \/ Tells(r, p)
                 PROVE  /\ n = m => /\ Tells(Shown(R, y, m), Shown(P, x, n))
                                    /\ Tells(Stored(R, y, m), Stored(P, x, n))
                        /\ Tells(r, p) /\ SameStart(r, p) =>
                                    /\ n = m
                                    /\ SameStart(Shown(R, y, m), Shown(P, x, n))
                                    /\ SameStart(Stored(R, y, m), Stored(P, x, n))
    OBVIOUS
  <2>2. /\ P = Replayed!Retained(p, window, x.at) /\ R = Replayed!Retained(r, window, y.at)
        /\ n = Before(P, x.at) /\ m = Before(R, y.at)
    BY DEF P, R, n, m
  <2> HIDE DEF x, y
  <2>3. QED
    BY <1>1, <1>9, <2>1, <2>2, ReplayFollows
<1>12. /\ answer.kept = Stored(P, x, n) /\ answer.returned = Shown(P, x, n)
       /\ redone.anchors = Stored(R, y, m) /\ redone.series = Shown(R, y, m)
  BY <1>3, <1>4
<1> HIDE DEF x, y
<1>13. QED
  BY <1>6, <1>7, <1>10, <1>11, <1>12

\* An empty list tells of an empty one.
LEMMA NothingTold ==
    ASSUME NEW P, NEW R, R = <<>>, P = <<>>
    PROVE  Tells(R, P) /\ SameStart(R, P)
  BY DEF Tells, SameStart

\* The invariant holds at first.
LEMMA ReplayStarts == Replayed!ReplayInit => ReplayInv
<1> SUFFICES ASSUME Replayed!ReplayInit PROVE ReplayInv
  OBVIOUS
<1>1. /\ observed_at = 0 /\ kept = <<>> /\ returned = <<>> /\ decided = FALSE
      /\ lost = 0 /\ begun = FALSE /\ anchors = <<>> /\ series = <<>>
      /\ seen_decision = FALSE /\ accepted = TRUE
  BY DEF Replayed!ReplayInit
<1>2. <<>> \in Seq(ReplaySample) /\ 0 \in Int /\ 0 \in Nat
  OBVIOUS
<1>3. Tells(anchors, kept) /\ SameStart(anchors, kept)
  BY <1>1, NothingTold
<1>4. Tells(series, returned) /\ SameStart(series, returned)
  BY <1>1, NothingTold
<1>5. ReplayLists
  BY <1>1, <1>2, Zenon DEF ReplayLists
<1>6. WholeLog /\ LateLog
  BY <1>1, <1>3, <1>4, Zenon DEF WholeLog, LateLog
<1>7. QED
  BY <1>1, <1>5, <1>6, Zenon DEF ReplayInv

\* An observation keeps it, whether the log has it or lost it.
LEMMA ObserveKeeps == ReplayInv /\ Replayed!Observe => ReplayInv'
<1> SUFFICES ASSUME ReplayInv, Replayed!Observe PROVE ReplayInv'
  OBVIOUS
<1>1. /\ kept \in Seq(ReplaySample) /\ anchors \in Seq(ReplaySample)
      /\ series \in Seq(ReplaySample) /\ observed_at \in Int /\ lost \in Nat
  BY DEF ReplayInv, ReplayLists
<1>2. observed_at' \in Int
  BY <1>1, HarnessAssumption DEF Replayed!Observe
<1>3. PICK v \in Replayed!Values :
         LET answer == Replayed!Record(kept, window, [at |-> observed_at', value |-> v])
             w  == IF Replayed!Decides(answer.returned) THEN v ELSE Replayed!Unknown
             redone == Replayed!HistorySeries(anchors, [at |-> observed_at', value |-> w],
                                              Len(answer.returned))
         IN  /\ kept' = answer.kept /\ returned' = answer.returned
             /\ decided' = (decided \/ Replayed!Decides(returned'))
             /\ \/ Replayed!Lose /\ UNCHANGED <<anchors, series, seen_decision, accepted>>
                \/ /\ Replayed!Logged
                   /\ anchors' = redone.anchors /\ series' = redone.series
                   /\ seen_decision' = (seen_decision \/ Replayed!Decides(returned'))
                   /\ accepted' = (/\ accepted /\ redone.agrees
                                   /\ Replayed!Decides(returned') /\ ~seen_decision => ~decided)
  BY DEF Replayed!Observe
<1> DEFINE answer == Replayed!Record(kept, window, [at |-> observed_at', value |-> v])
           w == IF Replayed!Decides(answer.returned) THEN v ELSE Replayed!Unknown
           redone == Replayed!HistorySeries(anchors, [at |-> observed_at', value |-> w],
                                            Len(answer.returned))
<1>4. /\ answer.kept \in Seq(ReplaySample) /\ answer.returned \in Seq(ReplaySample)
      /\ redone.anchors \in Seq(ReplaySample) /\ redone.series \in Seq(ReplaySample)
      /\ (anchors = <<>> \/ Tells(anchors, kept)) /\ redone.agrees =>
             /\ Tells(redone.anchors, answer.kept)
             /\ Tells(redone.series, answer.returned)
      /\ Tells(anchors, kept) /\ SameStart(anchors, kept) =>
             /\ redone.agrees
             /\ Tells(redone.anchors, answer.kept)
             /\ Tells(redone.series, answer.returned)
             /\ SameStart(redone.anchors, answer.kept)
             /\ SameStart(redone.series, answer.returned)
  BY <1>1, <1>2, ObservationShown
<1>5. kept' = answer.kept /\ returned' = answer.returned
  BY <1>3
<1>6. \/ Replayed!Lose /\ UNCHANGED <<anchors, series, seen_decision, accepted>>
      \/ /\ Replayed!Logged
         /\ anchors' = redone.anchors /\ series' = redone.series
         /\ decided' = (decided \/ Replayed!Decides(returned'))
         /\ seen_decision' = (seen_decision \/ Replayed!Decides(returned'))
         /\ accepted' = (/\ accepted /\ redone.agrees
                         /\ Replayed!Decides(returned') /\ ~seen_decision => ~decided)
  BY <1>3
<1> HIDE DEF answer, w, redone
<1>7. CASE Replayed!Lose /\ UNCHANGED <<anchors, series, seen_decision, accepted>>
  <2>1. /\ ~begun /\ ~begun' /\ lost' \in Nat /\ lost' # 0
        /\ anchors' = <<>> /\ series' = <<>>
    BY <1>1, <1>7 DEF Replayed!Lose, ReplayInv
  <2>2. anchors' \in Seq(ReplaySample) /\ series' \in Seq(ReplaySample)
    BY <1>1, <1>7
  <2>3. QED
    BY <1>2, <1>4, <1>5, <2>1, <2>2 DEF ReplayInv, ReplayLists, LateLog
<1>8. CASE /\ Replayed!Logged
           /\ anchors' = redone.anchors /\ series' = redone.series
           /\ decided' = (decided \/ Replayed!Decides(returned'))
           /\ seen_decision' = (seen_decision \/ Replayed!Decides(returned'))
           /\ accepted' = (/\ accepted /\ redone.agrees
                           /\ Replayed!Decides(returned') /\ ~seen_decision => ~decided)
  <2>1. begun' /\ lost' = lost /\ lost' \in Nat
    BY <1>1, <1>8 DEF Replayed!Logged
  <2>2. ReplayLists'
    BY <1>2, <1>4, <1>5, <1>8, <2>1 DEF ReplayLists
  <2>3. ASSUME lost = 0 PROVE WholeLog'
    <3>1. /\ accepted /\ seen_decision = decided
          /\ Tells(anchors, kept) /\ SameStart(anchors, kept)
      BY <2>3 DEF ReplayInv, WholeLog
    <3>2. accepted' /\ seen_decision' = decided'
      BY <1>4, <1>8, <3>1
    <3>3. QED
      BY <1>4, <1>5, <1>8, <3>1, <3>2 DEF WholeLog
  <2>4. ASSUME accepted' PROVE LateLog'
    <3>1. redone.agrees /\ (anchors = <<>> \/ Tells(anchors, kept))
      BY <1>8, <2>4 DEF ReplayInv, LateLog
    <3>2. QED
      BY <1>4, <1>5, <1>8, <3>1 DEF LateLog
  <2>5. QED
    BY <2>1, <2>2, <2>3, <2>4 DEF ReplayInv
<1>9. QED
  BY <1>6, <1>7, <1>8

\* A rejection keeps both histories or discards both, and has both show nothing.
LEMMA RejectKeeps == ReplayInv /\ Replayed!Reject => ReplayInv'
<1> SUFFICES ASSUME ReplayInv, Replayed!Reject PROVE ReplayInv'
  OBVIOUS
<1>1. /\ kept \in Seq(ReplaySample) /\ anchors \in Seq(ReplaySample)
      /\ series \in Seq(ReplaySample) /\ observed_at \in Int /\ lost \in Nat
  BY DEF ReplayInv, ReplayLists
<1>2. observed_at' \in Int /\ UNCHANGED <<decided, seen_decision, accepted>>
  BY <1>1, HarnessAssumption DEF Replayed!Reject
<1>3. PICK error \in Replayed!Errors :
         /\ kept' = IF error \in Replayed!PreservingErrors THEN kept ELSE <<>>
         /\ returned' = <<>>
         /\ \/ Replayed!Lose /\ UNCHANGED <<anchors, series>>
            \/ /\ Replayed!Logged
               /\ anchors' = IF error \in Replayed!PreservingErrors THEN anchors ELSE <<>>
               /\ series' = <<>>
  BY DEF Replayed!Reject
<1>4. <<>> \in Seq(ReplaySample)
  OBVIOUS
<1>5. CASE Replayed!Lose /\ UNCHANGED <<anchors, series>>
  <2>1. /\ ~begun /\ ~begun' /\ lost' \in Nat /\ lost' # 0
        /\ anchors' = <<>> /\ series' = <<>>
    BY <1>1, <1>5 DEF Replayed!Lose, ReplayInv
  <2>2. QED
    BY <1>1, <1>2, <1>3, <1>4, <2>1 DEF ReplayInv, ReplayLists, LateLog
<1>6. CASE /\ Replayed!Logged
           /\ anchors' = IF error \in Replayed!PreservingErrors THEN anchors ELSE <<>>
           /\ series' = <<>>
  <2>1. begun' /\ lost' = lost /\ lost' \in Nat
    BY <1>1, <1>6 DEF Replayed!Logged
  <2>2. ReplayLists'
    BY <1>1, <1>2, <1>3, <1>4, <1>6, <2>1 DEF ReplayLists
  <2>3. Tells(series', returned') /\ SameStart(series', returned')
    BY <1>3, <1>6, NothingTold
  <2>4. ASSUME lost = 0 PROVE WholeLog'
    <3>1. Tells(<<>>, <<>>) /\ SameStart(<<>>, <<>>)
      BY NothingTold
    <3>2. /\ accepted /\ seen_decision = decided
          /\ Tells(anchors, kept) /\ SameStart(anchors, kept)
      BY <2>4 DEF ReplayInv, WholeLog
    <3>3. Tells(anchors', kept') /\ SameStart(anchors', kept')
      BY <1>3, <1>6, <3>1, <3>2
    <3>4. QED
      BY <1>2, <2>3, <3>2, <3>3 DEF WholeLog
  <2>5. ASSUME accepted' PROVE LateLog'
    <3>1. anchors = <<>> \/ Tells(anchors, kept)
      BY <1>2, <2>5 DEF ReplayInv, LateLog
    <3>2. QED
      BY <1>3, <1>6, <2>3, <3>1 DEF LateLog
  <2>6. QED
    BY <2>1, <2>2, <2>4, <2>5 DEF ReplayInv
<1>7. QED
  BY <1>3, <1>5, <1>6

\* What the replay claims follows.
LEMMA ReplayInvSuffices == ReplayInv => Replayed!ReplayMatchesProvider
<1> SUFFICES ASSUME ReplayInv PROVE Replayed!ReplayMatchesProvider
  OBVIOUS
<1>1. returned \in Seq(ReplaySample) /\ series \in Seq(ReplaySample)
  BY DEF ReplayInv, ReplayLists
<1>2. ASSUME Tells(series, returned)
      PROVE  \A i \in DOMAIN series :
                series[i] = returned[i] \/ (i = 1 /\ series[1].value = 0)
  <2>1. TAKE i \in DOMAIN series
  <2>2. i \in 1..Len(series) /\ Len(series) = Len(returned)
    BY <1>1, <1>2 DEF Tells
  <2>3. i = 1 \/ i \in 2..Len(returned)
    BY <1>1, <2>2
  <2>4. Len(returned) > 0
    BY <1>1, <2>2
  <2>5. QED
    BY <1>2, <2>3, <2>4 DEF Tells
<1>3. ASSUME lost = 0
      PROVE  /\ accepted /\ Len(series) = Len(returned)
             /\ \A i \in DOMAIN series :
                   /\ series[i].at = returned[i].at
                   /\ series[i].value \in {Replayed!Unknown, returned[i].value}
  <2>1. accepted /\ Tells(series, returned) /\ SameStart(series, returned)
    BY <1>3 DEF ReplayInv, WholeLog
  <2>2. Len(series) = Len(returned) /\ (Len(returned) > 0 => series[1].at = returned[1].at)
    BY <2>1 DEF Tells, SameStart
  <2>3. \A i \in DOMAIN series : Len(returned) > 0
    BY <1>1, <2>2
  <2>4. QED
    BY <1>2, <2>1, <2>2, <2>3 DEF Replayed!Unknown
<1>4. ASSUME accepted, Replayed!Complete, series # <<>> PROVE series = returned
  <2>1. Tells(series, returned)
    BY <1>4 DEF ReplayInv, LateLog
  <2>2. \A i \in DOMAIN series : series[i] = returned[i]
    BY <1>2, <1>4, <2>1 DEF Replayed!Complete, Replayed!Unknown
  <2>3. Len(series) = Len(returned)
    BY <2>1 DEF Tells
  <2>4. QED
    BY <1>1, <2>2, <2>3
<1>5. QED
  BY <1>3, <1>4 DEF Replayed!ReplayMatchesProvider

\* The two together.
LEMMA ReplayHolds == Replayed!ReplaySpec => []Replayed!ReplayMatchesProvider
<1>1. ReplayInv /\ [Replayed!ReplayNext]_(Replayed!replayVars) => ReplayInv'
  <2>1. ReplayInv /\ UNCHANGED Replayed!replayVars => ReplayInv'
    BY DEF ReplayInv, ReplayLists, WholeLog, LateLog, Tells, SameStart, Replayed!replayVars
  <2>2. QED
    BY <2>1, ObserveKeeps, RejectKeeps DEF Replayed!ReplayNext
<1>2. QED
  BY <1>1, ReplayStarts, ReplayInvSuffices, PTL DEF Replayed!ReplaySpec

\* What the harness does of the replay is a run of its specification.
LEMMA ReplayRuns == HarnessSteps => Replayed!ReplaySpec
<1>1. HarnessInit => Replayed!ReplayInit
  BY DEF HarnessInit
<1>2. [HarnessNext]_harnessVars => [Replayed!ReplayNext]_Replayed!replayVars
  BY DEF HarnessNext, harnessVars, evidence, replay, Replayed!replayVars
<1>3. QED
  BY <1>1, <1>2, PTL DEF HarnessSteps, Replayed!ReplaySpec

(***************************************************************************)
(* Of a whole log the offline replay reconstructs every history that the   *)
(* provider returned; of a log that began late it does so or refuses it,   *)
(* wherever it claims to know every value.                                 *)
(***************************************************************************)
THEOREM ReplayMatchesProviderHolds == HarnessSpec => []ReplayMatchesProvider
<1>1. HarnessSpec => HarnessSteps
  BY PTL DEF HarnessSpec, HarnessSteps
<1>2. QED
  BY <1>1, ReplayRuns, ReplayHolds, PTL DEF ReplayMatchesProvider
-----------------------------------------------------------------------------
(***************************************************************************)
(* The steps, files and flags of the latency diagnostic are what they are  *)
(* named.                                                                  *)
(***************************************************************************)
LatencySteps ==
    /\ script \in {"begin", "look", "due", "refused", "start", "publish", "recheck", "wait", "over"}
    /\ gate \in {"none", "waiting", "cancelled", "timed_out", "released"}
    /\ load \in {"none", "running", "stopping", "gone"}
    /\ thread \in {"unready", "anchor", "schedule", "poll", "cancel", "over"}
    /\ main \in {"observing", "joining", "ended"}
    /\ host \in {"polling", "cancel", "kill", "stopped", "collecting"}

LatencyFiles == files \subseteq {"ready", "launch", "cancelled", "pid"}

LatencyFlags ==
    /\ stop \in BOOLEAN /\ errors \in BOOLEAN /\ planned \in BOOLEAN /\ gate_released \in BOOLEAN
    /\ observer_status \in [status : {"none", "success", "failed"}, gate_released : BOOLEAN]

PodStep == Latency!ScriptGate \/ Latency!ScriptLoad \/ Latency!LoadEnds
ThreadStep ==
    \/ Latency!ReadReady \/ Latency!Anchor \/ Latency!Schedule \/ Latency!Poll
    \/ Latency!Quit \/ Latency!GiveUp \/ Latency!Cancel

\* The diagnostic keeps its types.
LEMMA LatencyTypes == HarnessSteps => []Latency!LatencyTypeOK
<1> DEFINE Typed == LatencySteps /\ LatencyFiles /\ LatencyFlags
<1>1. Latency!LatencyInit => Typed
  <2> SUFFICES ASSUME Latency!LatencyInit PROVE Typed
    OBVIOUS
  <2>1. LatencySteps /\ LatencyFiles
    BY DEF Latency!LatencyInit, LatencySteps, LatencyFiles
  <2>2. LatencyFlags
    BY DEF Latency!LatencyInit, Latency!NoStatus, LatencyFlags
  <2>3. QED
    BY <2>1, <2>2
<1>2. LatencySteps /\ [Latency!LatencyNext]_Latency!latencyVars => LatencySteps'
  <2> SUFFICES ASSUME LatencySteps, [Latency!LatencyNext]_Latency!latencyVars
               PROVE  LatencySteps'
    OBVIOUS
  <2>1. CASE PodStep
    BY <2>1 DEF PodStep, LatencySteps, Latency!ScriptGate, Latency!GateStep, Latency!ScriptLoad,
                Latency!LoadEnds, Latency!observer
  <2>2. CASE ThreadStep
    BY <2>2 DEF ThreadStep, LatencySteps, Latency!Thread, Latency!Kubectl, Latency!Raise,
                Latency!ReadReady, Latency!Anchor, Latency!Schedule, Latency!Poll, Latency!Quit,
                Latency!GiveUp, Latency!Cancel
  <2>3. CASE Latency!ObserverStop \/ Latency!ObserverEnds
    BY <2>3 DEF LatencySteps, Latency!ObserverStop, Latency!ObserverEnds, Latency!pod
  <2>4. CASE Latency!HostStep
    BY <2>4 DEF LatencySteps, Latency!HostStep, Latency!observer
  <2>5. CASE UNCHANGED Latency!latencyVars
    BY <2>5 DEF LatencySteps, Latency!latencyVars
  <2>6. QED
    BY <2>1, <2>2, <2>3, <2>4, <2>5 DEF Latency!LatencyNext, PodStep, ThreadStep
<1>3. LatencyFiles /\ [Latency!LatencyNext]_Latency!latencyVars => LatencyFiles'
  <2> SUFFICES ASSUME LatencyFiles, [Latency!LatencyNext]_Latency!latencyVars
               PROVE  LatencyFiles'
    OBVIOUS
  <2>1. CASE PodStep
    BY <2>1 DEF PodStep, LatencyFiles, Latency!ScriptGate, Latency!GateStep, Latency!ScriptLoad,
                Latency!LoadEnds, Latency!observer
  <2>2. CASE ThreadStep
    BY <2>2 DEF ThreadStep, LatencyFiles, Latency!Thread, Latency!Kubectl, Latency!Raise,
                Latency!ReadReady, Latency!Anchor, Latency!Schedule, Latency!Poll, Latency!Quit,
                Latency!GiveUp, Latency!Cancel
  <2>3. CASE Latency!ObserverStop \/ Latency!ObserverEnds
    BY <2>3 DEF LatencyFiles, Latency!ObserverStop, Latency!ObserverEnds, Latency!pod
  <2>4. CASE Latency!HostStep
    BY <2>4 DEF LatencyFiles, Latency!HostStep, Latency!observer
  <2>5. CASE UNCHANGED Latency!latencyVars
    BY <2>5 DEF LatencyFiles, Latency!latencyVars
  <2>6. QED
    BY <2>1, <2>2, <2>3, <2>4, <2>5 DEF Latency!LatencyNext, PodStep, ThreadStep
<1>4. LatencyFlags /\ [Latency!LatencyNext]_Latency!latencyVars => LatencyFlags'
  <2> SUFFICES ASSUME LatencyFlags, [Latency!LatencyNext]_Latency!latencyVars
               PROVE  LatencyFlags'
    OBVIOUS
  <2>1. CASE PodStep
    BY <2>1 DEF PodStep, LatencyFlags, Latency!ScriptGate, Latency!GateStep, Latency!ScriptLoad,
                Latency!LoadEnds, Latency!observer
  <2>2. CASE ThreadStep
    BY <2>2 DEF ThreadStep, LatencyFlags, Latency!Thread, Latency!Kubectl, Latency!Raise,
                Latency!ReadReady, Latency!Anchor, Latency!Schedule, Latency!Poll, Latency!Quit,
                Latency!GiveUp, Latency!Cancel
  <2>3. CASE Latency!ObserverStop \/ Latency!ObserverEnds
    <3>1. CASE Latency!ObserverStop
      BY <3>1 DEF LatencyFlags, Latency!ObserverStop
    <3>2. CASE Latency!ObserverEnds
      BY <3>2 DEF LatencyFlags, Latency!ObserverEnds
    <3>3. QED
      BY <2>3, <3>1, <3>2
  <2>4. CASE Latency!HostStep
    BY <2>4 DEF LatencyFlags, Latency!HostStep, Latency!observer
  <2>5. CASE UNCHANGED Latency!latencyVars
    BY <2>5 DEF LatencyFlags, Latency!latencyVars
  <2>6. QED
    BY <2>1, <2>2, <2>3, <2>4, <2>5 DEF Latency!LatencyNext, PodStep, ThreadStep
<1>5. Typed => Latency!LatencyTypeOK
  BY DEF LatencySteps, LatencyFiles, LatencyFlags, Latency!LatencyTypeOK
<1>6. QED
  BY <1>1, <1>2, <1>3, <1>4, <1>5, LatencyRuns, PTL DEF Latency!LatencySpec

(***************************************************************************)
(* The observer of a slot and its file.                                    *)
(***************************************************************************)
CadenceTyped == GateInv /\ Cadence!CadenceTypeOK

\* The gate of a slot keeps its types.
LEMMA CadenceTypes == HarnessSteps => []Cadence!CadenceTypeOK
<1>1. ASSUME Cadence!CadenceInit PROVE Cadence!CadenceTypeOK
  <2>1. /\ stream = <<>> /\ flushed = 0 /\ anchor = 0 /\ phase = "starting"
        /\ attempt = [anchor |-> 0, at |-> 0] /\ receipt = Cadence!NoFile
        /\ after = -1 /\ gate_errors \in BOOLEAN /\ result = "none" /\ starts = 0
    BY <1>1 DEF Cadence!CadenceInit, Cadence!NoFile
  <2>2. Len(stream) = 0 /\ MaxRows \in Nat
    BY <2>1, HarnessAssumption
  <2>3. QED
    BY <2>1, <2>2 DEF Cadence!CadenceTypeOK
<1>2. ASSUME GateInv, Cadence!CadenceTypeOK, [Cadence!CadenceNext]_Cadence!cadenceVars
      PROVE  Cadence!CadenceTypeOK'
  <2>1. GateTyped
    BY <1>2 DEF GateInv
  <2>2. MaxRows \in Nat /\ Len(stream) \in Nat
    BY <2>1, HarnessAssumption DEF GateTyped
  <2>3. CASE Cadence!Observe
    <3>1. PICK e \in Readings : stream' = Append(stream, e)
      BY <2>3, ObserveAppends
    <3>2. Len(stream') = Len(stream) + 1
      BY <2>1, <3>1 DEF GateTyped
    <3>3. /\ Len(stream) < MaxRows
          /\ UNCHANGED <<flushed, after, phase, anchor, attempt, receipt, gate_errors,
                          result, starts>>
      BY <2>3 DEF Cadence!Observe
    <3>4. QED
      BY <1>2, <2>2, <3>2, <3>3 DEF Cadence!CadenceTypeOK
  <2>4. CASE Cadence!Select
    <3>1. Len(Cadence!Visible) = flushed
      BY <2>1 DEF GateTyped, Cadence!Visible
    <3>2. anchor' \in 1..flushed
      BY <2>1, <2>4, <3>1, SelectsFirst DEF GateTyped, Cadence!Select
    <3>3. QED
      BY <1>2, <2>1, <2>2, <2>4, <3>2 DEF GateTyped, Cadence!CadenceTypeOK, Cadence!Select
  <2>5. CASE Cadence!Attempt
    <3>1. receipt = Cadence!NoFile
      BY <1>2, <2>5 DEF GateInv, GateOrder, Cadence!Attempt
    <3>2. QED
      BY <1>2, <2>2, <2>5, <3>1 DEF Cadence!CadenceTypeOK, Cadence!Attempt
  <2>6. CASE Cadence!Flush \/ Cadence!Ready \/ Cadence!Check
    BY <1>2, <2>2, <2>6
       DEF Cadence!CadenceTypeOK, Cadence!Flush, Cadence!Ready, Cadence!Check
  <2>7. CASE Cadence!Release
    <3>1. /\ receipt' \in {receipt, attempt} /\ phase' \in {"collecting", "cleanup"}
          /\ UNCHANGED <<stream, flushed, after, anchor, attempt, result>>
      BY <2>7 DEF Cadence!Release
    <3>2. starts \in Nat /\ starts' \in {starts, starts + 1}
      BY <1>2, <2>7 DEF Cadence!CadenceTypeOK, Cadence!Release
    <3>3. gate_errors' = gate_errors \/ gate_errors' = TRUE
      BY <2>7 DEF Cadence!Release
    <3>4. gate_errors \in BOOLEAN
      BY <1>2 DEF Cadence!CadenceTypeOK
    <3>5. gate_errors' \in BOOLEAN
      BY <3>3, <3>4, Zenon
    <3>6. starts' \in Nat
      BY <3>2
    <3>7. QED
      BY <1>2, <3>1, <3>5, <3>6 DEF Cadence!CadenceTypeOK
  <2>8. CASE Cadence!Collected \/ Cadence!Fail \/ Cadence!Finish \/ Cadence!Crash
    BY <1>2, <2>2, <2>8
       DEF Cadence!CadenceTypeOK, Cadence!Collected, Cadence!Fail, Cadence!Finish, Cadence!Crash
  <2>9. CASE UNCHANGED Cadence!cadenceVars
    BY <1>2, <2>9 DEF Cadence!CadenceTypeOK, Cadence!cadenceVars
  <2>10. QED
    BY <1>2, <2>3, <2>4, <2>5, <2>6, <2>7, <2>8, <2>9 DEF Cadence!CadenceNext
<1>3. Cadence!CadenceInit => GateInv
  BY GateStarts
<1>4. GateInv /\ [Cadence!CadenceNext]_Cadence!cadenceVars => GateInv'
  BY GateStays
<1>5. QED
  BY <1>1, <1>2, <1>3, <1>4, CadenceRuns, PTL DEF Cadence!CadenceSpec
-----------------------------------------------------------------------------
(***************************************************************************)
(* The acceptance makes eleven checks: as many stand before each step of   *)
(* its script.                                                             *)
(***************************************************************************)
ChecksBefore ==
    <<0, 0, 0, 0, 0, 0, 0, 1, 2, 2, 2, 3, 4, 4, 4, 5, 5, 5, 5, 5, 6, 7, 8, 8, 8, 8, 9, 9, 9,
      10, 10, 10, 10>>

\* A check counts one, and no other step of the script counts.
LEMMA CheckFacts ==
    ASSUME step \in 1..33
    PROVE  /\ Len(Accept!Script) = 33
           /\ Accept!Script[step] = "check" /\ step < 33 =>
                 ChecksBefore[step + 1] = ChecksBefore[step] + 1
           /\ Accept!Script[step] = "check" => ChecksBefore[step] <= 10
           /\ step < 33 => ChecksBefore[step] <= ChecksBefore[step + 1]
           /\ ChecksBefore[step] \in 0..11
<1> USE DEF Accept!Script, ChecksBefore
<1>1. Len(Accept!Script) = 33
  OBVIOUS
<1>2. Accept!Script[step] = "check" =>
         ChecksBefore[step] <= 10 /\ (step < 33 => ChecksBefore[step + 1] = ChecksBefore[step] + 1)
  OBVIOUS
<1>3. step < 33 => ChecksBefore[step] <= ChecksBefore[step + 1]
  OBVIOUS
<1>4. ChecksBefore[step] \in 0..11
  OBVIOUS
<1>5. QED
  BY <1>1, <1>2, <1>3, <1>4

(***************************************************************************)
(* The variables of the acceptance: where it stands, what it has checked,  *)
(* what the cluster is, and what it remembers.                             *)
(***************************************************************************)
AcceptStands ==
    /\ step \in 1..33 /\ failed \subseteq {"error", "cleanup_error"}
    /\ tidy \in {"none", "guard", "guard-source", "source", "identity", "delete", "ended"}

AcceptCounts == results \in 0..11 /\ (tidy = "none" => results <= ChecksBefore[step])

AcceptCluster ==
    /\ behind \in 0..MaxReplaced /\ guarded \in -1..MaxReplaced
    /\ prometheus \in {0, 1} /\ found \in {0, 1}
    /\ uids \in Nat /\ fixture \in 0..uids /\ fixture_uid \in 0..uids /\ ours \subseteq 1..uids
    /\ meddled \in 0..MaxRecreated

AcceptFlags == fixture_created \in BOOLEAN /\ source_stopped \in BOOLEAN

RunReads ==
    \/ Accept!Fail \/ Accept!Interrupted \/ Accept!Guard \/ Accept!Absent \/ Accept!Source
    \/ Accept!Observe
RunWrites ==
    \/ Accept!Apply \/ Accept!FixtureUid \/ Accept!Announce \/ Accept!StopSource
    \/ Accept!StartSource \/ Accept!Clear
Tidying ==
    \/ Accept!CleanupError \/ Accept!TidyGuard \/ Accept!TidySource \/ Accept!TidyIdentity
    \/ Accept!TidyDelete

\* The acceptance keeps its types.
LEMMA AcceptanceTypes == HarnessSteps => []Accept!AcceptanceTypeOK
<1> DEFINE Typed == AcceptStands /\ AcceptCounts /\ AcceptCluster /\ AcceptFlags
<1>1. Accept!AcceptanceInit => Typed
  <2> SUFFICES ASSUME Accept!AcceptanceInit PROVE Typed
    OBVIOUS
  <2>1. AcceptStands /\ AcceptCounts
    BY DEF Accept!AcceptanceInit, AcceptStands, AcceptCounts, ChecksBefore
  <2>2. AcceptCluster
    BY HarnessAssumption DEF Accept!AcceptanceInit, AcceptCluster
  <2>3. AcceptFlags
    BY DEF Accept!AcceptanceInit, AcceptFlags
  <2>4. QED
    BY <2>1, <2>2, <2>3
<1>2. AcceptStands /\ AcceptCounts /\ [Accept!AcceptanceNext]_Accept!acceptanceVars
         => AcceptStands' /\ AcceptCounts'
  <2> SUFFICES ASSUME AcceptStands, AcceptCounts,
                      [Accept!AcceptanceNext]_Accept!acceptanceVars
               PROVE  AcceptStands' /\ AcceptCounts'
    OBVIOUS
  <2>1. /\ step \in 1..33 /\ Len(Accept!Script) = 33 /\ ChecksBefore[step] \in 0..11
        /\ step < 33 => ChecksBefore[step] <= ChecksBefore[step + 1]
        /\ results \in 0..11
    BY CheckFacts DEF AcceptStands, AcceptCounts
  <2>2. ASSUME Accept!Advance \/ Accept!Raise \/ UNCHANGED <<step, tidy, failed>>,
               results' = results
        PROVE  AcceptStands' /\ AcceptCounts'
    <3>1. \/ step < 33 /\ step' = step + 1 /\ UNCHANGED <<tidy, failed>>
          \/ tidy' = "guard" /\ failed' \in {failed, failed \cup {"error"}} /\ UNCHANGED step
          \/ UNCHANGED <<step, tidy, failed>>
      BY <2>1, <2>2 DEF Accept!Advance, Accept!Raise, Accept!Forward, Accept!Done
    <3>2. CASE step < 33 /\ step' = step + 1 /\ UNCHANGED <<tidy, failed>>
      <4>1. step' \in 1..33 /\ ChecksBefore[step] <= ChecksBefore[step']
        BY <2>1, <3>2
      <4>2. tidy = "none" => results <= ChecksBefore[step']
        <5>1. ChecksBefore[step'] \in 0..11
          BY <4>1 DEF ChecksBefore
        <5>2. QED
          BY <2>1, <4>1, <5>1 DEF AcceptCounts
      <4>3. QED
        BY <2>2, <3>2, <4>1, <4>2 DEF AcceptStands, AcceptCounts
    <3>3. CASE /\ tidy' = "guard" /\ failed' \in {failed, failed \cup {"error"}}
               /\ UNCHANGED step
      BY <2>2, <3>3 DEF AcceptStands, AcceptCounts
    <3>4. CASE UNCHANGED <<step, tidy, failed>>
      BY <2>2, <3>4 DEF AcceptStands, AcceptCounts
    <3>5. QED
      BY <3>1, <3>2, <3>3, <3>4
  <2>3. CASE RunReads
    <3>1. /\ results' = results
          /\ \/ Accept!Advance \/ Accept!Raise
             \/ tidy' = "guard" /\ UNCHANGED <<step, failed>>
      BY <2>3 DEF RunReads, Accept!Fail, Accept!Interrupted, Accept!Guard, Accept!Absent,
                  Accept!Source, Accept!Observe
    <3>2. CASE tidy' = "guard" /\ UNCHANGED <<step, failed>>
      BY <2>1, <3>1, <3>2 DEF AcceptStands, AcceptCounts
    <3>3. QED
      BY <2>2, <3>1, <3>2
  <2>4. CASE RunWrites
    <3>1. results' = results /\ (Accept!Advance \/ Accept!Raise)
      BY <2>4 DEF RunWrites, Accept!Apply, Accept!FixtureUid, Accept!Announce, Accept!StopSource,
                  Accept!StartSource, Accept!Clear
    <3>2. QED
      BY <2>2, <3>1
  <2>5. CASE Accept!Check
    <3>1. /\ tidy = "none" /\ Accept!Script[step] = "check" /\ results' = results + 1
          /\ Accept!Advance
      BY <2>5 DEF Accept!Check, Accept!Doing
    <3>2. /\ results <= ChecksBefore[step] /\ ChecksBefore[step] <= 10
          /\ step < 33 => ChecksBefore[step + 1] = ChecksBefore[step] + 1
      BY <2>1, <3>1, CheckFacts DEF AcceptCounts
    <3>3. \/ step < 33 /\ step' = step + 1 /\ UNCHANGED <<tidy, failed>>
          \/ tidy' = "guard" /\ UNCHANGED <<step, failed>>
      BY <2>1, <3>1 DEF Accept!Advance, Accept!Forward, Accept!Done
    <3>4. results' \in 0..11
      BY <2>1, <3>1, <3>2
    <3>5. CASE step < 33 /\ step' = step + 1 /\ UNCHANGED <<tidy, failed>>
      <4>1. step' \in 1..33 /\ results' <= ChecksBefore[step']
        BY <2>1, <3>1, <3>2, <3>5
      <4>2. QED
        BY <3>4, <3>5, <4>1 DEF AcceptStands, AcceptCounts
    <3>6. CASE tidy' = "guard" /\ UNCHANGED <<step, failed>>
      BY <3>4, <3>6 DEF AcceptStands, AcceptCounts
    <3>7. QED
      BY <3>3, <3>5, <3>6
  <2>6. CASE Tidying
    <3>1. /\ results' = results /\ step' = step
          /\ failed' \in {failed, failed \cup {"cleanup_error"}}
          /\ tidy' \in {"guard-source", "source", "identity", "delete", "ended"}
      BY <2>6 DEF Tidying, Accept!CleanupError, Accept!TidyGuard, Accept!TidySource,
                  Accept!TidyIdentity, Accept!TidyDelete, Accept!AfterSource
    <3>2. QED
      BY <2>1, <3>1 DEF AcceptStands, AcceptCounts
  <2>7. CASE Accept!Replace \/ Accept!Recreate
    BY <2>2, <2>7 DEF Accept!Replace, Accept!Recreate
  <2>8. CASE UNCHANGED Accept!acceptanceVars
    BY <2>2, <2>8 DEF Accept!acceptanceVars
  <2>9. QED
    BY <2>3, <2>4, <2>5, <2>6, <2>7, <2>8 DEF Accept!AcceptanceNext, RunReads, RunWrites, Tidying
<1>3. AcceptCluster /\ [Accept!AcceptanceNext]_Accept!acceptanceVars => AcceptCluster'
  <2> SUFFICES ASSUME AcceptCluster, [Accept!AcceptanceNext]_Accept!acceptanceVars
               PROVE  AcceptCluster'
    OBVIOUS
  <2> USE DEF AcceptCluster
  <2>1. CASE RunReads \/ Accept!Check
    <3>1. UNCHANGED <<Accept!cluster, fixture_uid>> /\ guarded' \in {guarded, behind}
      BY <2>1 DEF RunReads, Accept!Fail, Accept!Interrupted, Accept!Guard, Accept!Absent,
                  Accept!Source, Accept!Observe, Accept!Check, Accept!Identity, Accept!flags
    <3>2. QED
      BY <3>1 DEF Accept!cluster
  <2>2. CASE Accept!Apply
    <3>1. \/ /\ fixture = 0 /\ uids' = uids + 1 /\ fixture' = uids'
             /\ ours' = ours \cup {uids'}
          \/ UNCHANGED <<uids, fixture, ours>>
      BY <2>2 DEF Accept!Apply
    <3>2. UNCHANGED <<behind, prometheus, found, meddled, guarded, fixture_uid>>
      BY <2>2 DEF Accept!Apply
    <3>3. CASE /\ fixture = 0 /\ uids' = uids + 1 /\ fixture' = uids'
               /\ ours' = ours \cup {uids'}
      <4>1. uids' \in Nat /\ fixture' \in 0..uids' /\ fixture_uid \in 0..uids'
        BY <3>3
      <4>2. ours' \subseteq 1..uids'
        BY <3>3
      <4>3. QED
        BY <3>2, <4>1, <4>2
    <3>4. QED
      BY <3>1, <3>2, <3>3
  <2>3. CASE \/ Accept!FixtureUid \/ Accept!Announce \/ Accept!StopSource \/ Accept!StartSource
             \/ Accept!Clear
    <3>1. /\ UNCHANGED <<behind, found, fixture, ours, uids, meddled, guarded>>
          /\ fixture_uid' \in {fixture_uid, fixture} /\ prometheus' \in {prometheus, 0, 1}
      BY <2>3 DEF Accept!FixtureUid, Accept!Announce, Accept!StopSource, Accept!StartSource,
                  Accept!Clear, Accept!Scale, Accept!cluster, Accept!flags
    <3>2. QED
      BY <3>1
  <2>4. CASE Tidying
    <3>1. /\ UNCHANGED <<behind, found, ours, uids, meddled, fixture_uid>>
          /\ fixture' \in {fixture, 0} /\ prometheus' \in {prometheus, 1}
          /\ guarded' \in {guarded, behind}
      BY <2>4 DEF Tidying, Accept!CleanupError, Accept!TidyGuard, Accept!TidySource,
                  Accept!TidyIdentity, Accept!TidyDelete, Accept!Scale, Accept!Identity,
                  Accept!cluster, Accept!flags
    <3>2. QED
      BY <3>1
  <2>5. CASE Accept!Replace
    BY <2>5, HarnessAssumption DEF Accept!Replace, Accept!flags
  <2>6. CASE Accept!Recreate
    <3>1. /\ \/ fixture = 0 /\ uids' = uids + 1 /\ fixture' = uids'
             \/ uids' = uids /\ fixture' = 0
          /\ meddled < MaxRecreated /\ meddled' = meddled + 1
          /\ UNCHANGED <<behind, prometheus, found, ours, guarded, fixture_uid>>
      BY <2>6 DEF Accept!Recreate, Accept!flags
    <3>2. QED
      BY <3>1, HarnessAssumption
  <2>7. CASE UNCHANGED Accept!acceptanceVars
    BY <2>7 DEF Accept!acceptanceVars
  <2>8. QED
    BY <2>1, <2>2, <2>3, <2>4, <2>5, <2>6, <2>7
       DEF Accept!AcceptanceNext, RunReads, Tidying
<1>4. AcceptFlags /\ [Accept!AcceptanceNext]_Accept!acceptanceVars => AcceptFlags'
  <2> SUFFICES ASSUME AcceptFlags, [Accept!AcceptanceNext]_Accept!acceptanceVars
               PROVE  AcceptFlags'
    OBVIOUS
  <2> USE DEF AcceptFlags
  <2>1. CASE RunReads \/ Accept!Check
    BY <2>1 DEF RunReads, Accept!Fail, Accept!Interrupted, Accept!Guard, Accept!Absent,
                Accept!Source, Accept!Observe, Accept!Check, Accept!flags
  <2>2. CASE RunWrites
    BY <2>2 DEF RunWrites, Accept!Apply, Accept!FixtureUid, Accept!Announce, Accept!StopSource,
                Accept!StartSource, Accept!Clear, Accept!flags
  <2>3. CASE Tidying \/ Accept!Replace \/ Accept!Recreate
    BY <2>3 DEF Tidying, Accept!CleanupError, Accept!TidyGuard, Accept!TidySource,
                Accept!TidyIdentity, Accept!TidyDelete, Accept!Replace, Accept!Recreate,
                Accept!flags
  <2>4. CASE UNCHANGED Accept!acceptanceVars
    BY <2>4 DEF Accept!acceptanceVars
  <2>5. QED
    BY <2>1, <2>2, <2>3, <2>4 DEF Accept!AcceptanceNext, RunReads, RunWrites, Tidying
<1>5. Typed => Accept!AcceptanceTypeOK
  <2>1. Len(Accept!Script) = 33
    BY DEF Accept!Script
  <2>2. QED
    BY <2>1 DEF AcceptStands, AcceptCounts, AcceptCluster, AcceptFlags, Accept!AcceptanceTypeOK
<1>6. QED
  BY <1>1, <1>2, <1>3, <1>4, <1>5, AcceptanceRuns, PTL DEF Accept!AcceptanceSpec
-----------------------------------------------------------------------------
(***************************************************************************)
(* The runner of the owned cluster: the steps it takes, and what it knows  *)
(* of the containers.                                                      *)
(***************************************************************************)
OwnedStages ==
    /\ stage \in {"run", "diagnose", "diagnose-uid", "left-containers", "left-clusters", "inspect",
                  "identity", "delete", "gone-clusters", "gone-containers", "remove-files",
                  "reported"}
    /\ summary \subseteq {"run", "diagnostic", "cleanup"} /\ tools \in 0..MaxTools

OwnedFlags == created \in BOOLEAN /\ escaped \in BOOLEAN /\ tool \in BOOLEAN

OwnedContainers ==
    /\ births \in 0..MaxContainers /\ node \in {0, births}
    /\ mine \subseteq 1..births /\ late \subseteq mine /\ cluster_uid \in mine \cup {0}
    /\ victims \subseteq (1..births) \ mine

RunStep ==
    \/ Owned!Fail \/ Owned!NameFree \/ Owned!Prepare \/ Owned!VerifyImage \/ Owned!Import
    \/ Owned!NoImport \/ Owned!Monitoring \/ Owned!Helm \/ Owned!RunSuite
GuardStep ==
    \/ Owned!InspectNode \/ Owned!ClusterIdentity \/ Owned!Load
    \/ Owned!ToolGuard \/ Owned!ToolExec
CleanupStep ==
    \/ Owned!DiagnoseNode \/ Owned!DiagnoseCluster
    \/ Owned!LeftContainers \/ Owned!LeftClusters \/ Owned!InspectLeft
    \/ Owned!IdentifyLeft \/ Owned!Gone \/ Owned!Report

\* The runner of the owned cluster keeps its types.
LEMMA OwnedTypes == HarnessSteps => []Owned!OwnedTypeOK
<1> DEFINE Typed == OwnedStages /\ OwnedFlags /\ OwnedContainers
<1>1. Owned!OwnedInit => Typed
  <2> SUFFICES ASSUME Owned!OwnedInit PROVE Typed
    OBVIOUS
  <2>1. OwnedStages
    BY HarnessAssumption DEF Owned!OwnedInit, OwnedStages
  <2>2. OwnedFlags
    BY DEF Owned!OwnedInit, OwnedFlags
  <2>3. OwnedContainers
    BY HarnessAssumption DEF Owned!OwnedInit, OwnedContainers
  <2>4. QED
    BY <2>1, <2>2, <2>3
<1>2. OwnedStages /\ [Owned!OwnedNext]_Owned!ownedVars => OwnedStages'
  <2> SUFFICES ASSUME OwnedStages, [Owned!OwnedNext]_Owned!ownedVars PROVE OwnedStages'
    OBVIOUS
  <2> USE DEF OwnedStages
  <2>1. CASE RunStep \/ Owned!Create
    <3>1. /\ UNCHANGED tools
          /\ \/ UNCHANGED <<stage, summary>>
             \/ /\ stage' \in {"diagnose", "remove-files"}
                /\ summary' \in {summary, summary \cup {"run"}}
      BY <2>1 DEF RunStep, Owned!Fail, Owned!NameFree, Owned!Prepare, Owned!VerifyImage,
                  Owned!Import, Owned!NoImport, Owned!Monitoring, Owned!Helm, Owned!RunSuite,
                  Owned!Harmless, Owned!Create, Owned!Forward, Owned!GiveUp, Owned!nested
    <3>2. QED
      BY <3>1
  <2>2. CASE GuardStep
    <3>1. /\ stage' \in {stage, "diagnose"} /\ UNCHANGED summary
          /\ tools' = tools \/ (tools < MaxTools /\ tools' = tools + 1)
      BY <2>2 DEF GuardStep, Owned!InspectNode, Owned!ClusterIdentity, Owned!Load,
                  Owned!ToolGuard, Owned!ToolExec, Owned!Forward, Owned!nested
    <3>2. QED
      BY <3>1, HarnessAssumption
  <2>3. CASE CleanupStep
    <3>1. /\ stage' \in {"diagnose-uid", "left-containers", "left-clusters", "inspect", "identity",
                         "delete", "gone-containers", "remove-files", "reported"}
          /\ summary' \in {summary, summary \cup {"diagnostic"}, summary \cup {"cleanup"}}
          /\ UNCHANGED tools
      BY <2>3 DEF CleanupStep, Owned!DiagnoseNode, Owned!DiagnoseCluster, Owned!LeftContainers,
                  Owned!LeftClusters, Owned!InspectLeft, Owned!IdentifyLeft, Owned!Gone,
                  Owned!Report, Owned!Step, Owned!nested
    <3>2. QED
      BY <3>1
  <2>4. CASE Owned!CleanupFailed \/ Owned!Delete
    BY <2>4 DEF Owned!CleanupFailed, Owned!Delete, Owned!Step, Owned!nested
  <2>5. CASE Owned!SomebodyElse \/ Owned!LateBirth \/ UNCHANGED Owned!ownedVars
    BY <2>5 DEF Owned!SomebodyElse, Owned!LateBirth, Owned!ownedVars, Owned!nested
  <2>6. QED
    BY <2>1, <2>2, <2>3, <2>4, <2>5
       DEF Owned!OwnedNext, Owned!OwnedStep, RunStep, GuardStep, CleanupStep
<1>3. OwnedFlags /\ [Owned!OwnedNext]_Owned!ownedVars => OwnedFlags'
  <2> SUFFICES ASSUME OwnedFlags, [Owned!OwnedNext]_Owned!ownedVars PROVE OwnedFlags'
    OBVIOUS
  <2> USE DEF OwnedFlags
  <2>1. CASE RunStep
    BY <2>1 DEF RunStep, Owned!Fail, Owned!NameFree, Owned!Prepare, Owned!VerifyImage,
                Owned!Import, Owned!NoImport, Owned!Monitoring, Owned!Helm, Owned!RunSuite,
                Owned!Harmless, Owned!docker, Owned!memory, Owned!nested
  <2>2. CASE Owned!Create
    BY <2>2 DEF Owned!Create, Owned!nested
  <2>3. CASE GuardStep
    BY <2>3 DEF GuardStep, Owned!InspectNode, Owned!ClusterIdentity, Owned!Load,
                Owned!ToolGuard, Owned!ToolExec, Owned!docker, Owned!memory, Owned!nested
  <2>4. CASE CleanupStep
    BY <2>4 DEF CleanupStep, Owned!DiagnoseNode, Owned!DiagnoseCluster, Owned!LeftContainers,
                Owned!LeftClusters, Owned!InspectLeft, Owned!IdentifyLeft, Owned!Gone,
                Owned!Report, Owned!Step, Owned!docker, Owned!memory, Owned!nested
  <2>5. CASE Owned!CleanupFailed \/ Owned!Delete
    BY <2>5 DEF Owned!CleanupFailed, Owned!Delete, Owned!Step, Owned!docker, Owned!memory,
                Owned!nested
  <2>6. CASE Owned!SomebodyElse \/ Owned!LateBirth \/ UNCHANGED Owned!ownedVars
    BY <2>6 DEF Owned!SomebodyElse, Owned!LateBirth, Owned!ownedVars, Owned!memory, Owned!nested
  <2>7. QED
    BY <2>1, <2>2, <2>3, <2>4, <2>5, <2>6
       DEF Owned!OwnedNext, Owned!OwnedStep, RunStep, GuardStep, CleanupStep
<1>4. OwnedContainers /\ [Owned!OwnedNext]_Owned!ownedVars => OwnedContainers'
  <2> SUFFICES ASSUME OwnedContainers, [Owned!OwnedNext]_Owned!ownedVars PROVE OwnedContainers'
    OBVIOUS
  <2> USE DEF OwnedContainers
  <2>1. ASSUME UNCHANGED <<births, node, mine, late>>, cluster_uid' \in {cluster_uid} \cup mine,
               victims' \subseteq victims \cup ({node} \ (mine \cup {0}))
        PROVE  OwnedContainers'
    BY <2>1
  <2>2. ASSUME NEW own \in BOOLEAN, Owned!Born(own), UNCHANGED <<cluster_uid, victims>>,
               late' \subseteq late \cup (IF own THEN {births'} ELSE {})
        PROVE  OwnedContainers'
    <3>1. /\ births < MaxContainers /\ births' = births + 1 /\ node' = births'
          /\ mine' = IF own THEN mine \cup {births'} ELSE mine
      BY <2>2 DEF Owned!Born
    <3>2. births' \in 0..MaxContainers /\ births' \notin 1..births /\ 1..births \subseteq 1..births'
      BY <3>1, HarnessAssumption
    <3>3. QED
      BY <2>2, <3>1, <3>2
  <2>3. CASE RunStep \/ CleanupStep
    BY <2>1, <2>3
       DEF RunStep, Owned!Fail, Owned!NameFree, Owned!Prepare, Owned!VerifyImage,
           Owned!Import, Owned!NoImport, Owned!Monitoring, Owned!Helm, Owned!RunSuite,
           Owned!Harmless, CleanupStep, Owned!DiagnoseNode, Owned!DiagnoseCluster,
           Owned!LeftContainers, Owned!LeftClusters, Owned!InspectLeft, Owned!IdentifyLeft,
           Owned!Gone, Owned!Report, Owned!Step, Owned!Identified, Owned!Answers,
           Owned!docker, Owned!memory, Owned!history
  <2>4. CASE GuardStep
    BY <2>1, <2>4
       DEF GuardStep, Owned!InspectNode, Owned!ClusterIdentity, Owned!Load,
           Owned!ToolGuard, Owned!ToolExec, Owned!Identified, Owned!Answers, Owned!Touch,
           Owned!docker, Owned!memory, Owned!history
  <2>5. CASE Owned!Create
    <3>1. CASE Owned!Born(TRUE)
      BY <2>2, <2>5, <3>1 DEF Owned!Create, Owned!history
    <3>2. CASE UNCHANGED <<node, births, mine>>
      BY <2>1, <2>5, <3>2 DEF Owned!Create, Owned!history
    <3>3. QED
      BY <2>5, <3>1, <3>2 DEF Owned!Create
  <2>6. CASE Owned!SomebodyElse
    <3>1. CASE Owned!Born(FALSE)
      BY <2>2, <2>6, <3>1 DEF Owned!SomebodyElse, Owned!history, Owned!memory
    <3>2. CASE Owned!Removed
      BY <2>6, <3>2 DEF Owned!SomebodyElse, Owned!Removed, Owned!history, Owned!memory
    <3>3. QED
      BY <2>6, <3>1, <3>2 DEF Owned!SomebodyElse
  <2>7. CASE Owned!LateBirth
    BY <2>2, <2>7 DEF Owned!LateBirth, Owned!history, Owned!memory
  <2>8. CASE Owned!CleanupFailed
    <3>1. CASE UNCHANGED Owned!docker
      <4>1. CASE stage = "delete" /\ node' # node
        BY <3>1, <4>1 DEF Owned!docker
      <4>2. CASE UNCHANGED Owned!history
        BY <2>1, <2>8, <3>1, <4>2 DEF Owned!CleanupFailed, Owned!docker, Owned!memory, Owned!history
      <4>3. QED
        BY <2>8, <4>1, <4>2 DEF Owned!CleanupFailed
    <3>2. CASE /\ Owned!Removed /\ Owned!Touch
               /\ UNCHANGED <<escaped, late, cluster_uid>>
      BY <3>2 DEF Owned!Touch, Owned!Removed
    <3>3. QED
      BY <2>8, <3>1, <3>2 DEF Owned!CleanupFailed, Owned!memory
  <2>9. CASE Owned!Delete
    BY <2>9 DEF Owned!Delete, Owned!Touch, Owned!Removed
  <2>10. CASE UNCHANGED Owned!ownedVars
    BY <2>1, <2>10 DEF Owned!ownedVars
  <2>11. QED
    BY <2>3, <2>4, <2>5, <2>6, <2>7, <2>8, <2>9, <2>10
       DEF Owned!OwnedNext, Owned!OwnedStep, RunStep, GuardStep, CleanupStep
<1>5. OwnedInv /\ Typed => Owned!OwnedTypeOK
  BY DEF OwnedInv, OwnedTyped, OwnedStages, OwnedFlags, OwnedContainers, Owned!OwnedTypeOK
<1>6. Owned!OwnedSpec => []OwnedInv
  BY OwnedInvariant, PTL
<1>7. QED
  BY <1>1, <1>2, <1>3, <1>4, <1>5, <1>6, OwnedRuns, PTL DEF Owned!OwnedSpec
-----------------------------------------------------------------------------
(***************************************************************************)
(* The replay: its lists and the provider's are of samples taken so far.   *)
(***************************************************************************)
ReplayFlags ==
    /\ observed_at \in 0..MaxTime /\ lost \in 0..MaxLost
    /\ decided \in BOOLEAN /\ begun \in BOOLEAN
    /\ seen_decision \in BOOLEAN /\ accepted \in BOOLEAN
ReplaySeries ==
    /\ kept \in Seq(Replayed!Sample) /\ returned \in Seq(Replayed!Sample)
    /\ anchors \in Seq(Replayed!Sample) /\ series \in Seq(Replayed!Sample)

\* One sample more, or in place of the last.
LEMMA SeriesGrows ==
    ASSUME NEW S, NEW r \in Seq(S), NEW x \in S
    PROVE  /\ Append(r, x) \in Seq(S)
           /\ r # <<>> => Append(SubSeq(r, 1, Len(r) - 1), x) \in Seq(S)
<1>1. Append(r, x) \in Seq(S)
  OBVIOUS
<1>2. r # <<>> => Len(r) \in Nat \ {0}
  OBVIOUS
<1>3. r # <<>> => SubSeq(r, 1, Len(r) - 1) \in Seq(S)
  BY <1>2
<1>4. QED
  BY <1>1, <1>3

\* What is retained of samples are such samples.
LEMMA RetainsSamples ==
    ASSUME NEW S, NEW p \in Seq(S), NEW now
    PROVE  Replayed!Retained(p, window, now) \in Seq(S)
<1>1. Replayed!Retained(p, window, now) = ProviderFacts!Retained(p, window, now)
  BY DEF Replayed!Retained, ProviderFacts!Retained, Replayed!InWindow, ProviderFacts!InWindow
<1>2. ProviderFacts!Retained(p, window, now) \in Seq(S)
  BY ProviderFacts!RetainedFacts
<1>3. QED
  BY <1>1, <1>2

\* What an observation keeps and shows, and what the replay makes of it.
LEMMA SeriesAreSamples ==
    ASSUME NEW S, NEW p \in Seq(S), NEW x \in S, NEW count
    PROVE  /\ Replayed!Record(p, window, x).kept \in Seq(S)
           /\ Replayed!Record(p, window, x).returned \in Seq(S)
           /\ Replayed!HistorySeries(p, x, count).anchors \in Seq(S)
           /\ Replayed!HistorySeries(p, x, count).series \in Seq(S)
<1> DEFINE r == Replayed!Retained(p, window, x.at)
           whole == Append(r, x)
           shown == Append(SubSeq(r, 1, Len(r) - 1), x)
<1>1. r \in Seq(S)
  BY RetainsSamples
<1>2. whole \in Seq(S) /\ (r # <<>> => shown \in Seq(S))
  <2> HIDE DEF r
  <2>1. QED
    BY <1>1, SeriesGrows
<1>3. \/ r # <<>> /\ Replayed!Record(p, window, x) = [kept |-> r, returned |-> shown]
      \/ Replayed!Record(p, window, x) = [kept |-> whole, returned |-> whole]
  BY DEF Replayed!Record
<1>4. \/ /\ r # <<>> /\ Replayed!HistorySeries(p, x, count).anchors = r
         /\ Replayed!HistorySeries(p, x, count).series = shown
      \/ /\ Replayed!HistorySeries(p, x, count).anchors = whole
         /\ Replayed!HistorySeries(p, x, count).series = whole
  BY DEF Replayed!HistorySeries
<1> HIDE DEF r, whole, shown
<1>5. QED
  BY <1>1, <1>2, <1>3, <1>4

\* The lists stay lists of samples.
LEMMA ReplayTypes == HarnessSteps => []Replayed!ReplayTypeOK
<1> DEFINE Typed == ReplayFlags /\ ReplaySeries
<1>0. MaxTime \in Nat /\ MaxLost \in Nat
  BY HarnessAssumption
<1>1. Replayed!ReplayInit => Typed
  <2>1. Replayed!ReplayInit => ReplayFlags
    <3>1. 0 \in 0..MaxTime /\ 0 \in 0..MaxLost
      BY <1>0
    <3>2. QED
      BY <3>1, Zenon DEF Replayed!ReplayInit, ReplayFlags
  <2>2. <<>> \in Seq(Replayed!Sample)
    OBVIOUS
  <2>3. Replayed!ReplayInit => ReplaySeries
    BY <2>2, Zenon DEF Replayed!ReplayInit, ReplaySeries
  <2>4. QED
    BY <2>1, <2>3
<1>2. ReplayFlags /\ [Replayed!ReplayNext]_(Replayed!replayVars) => ReplayFlags'
  <2> SUFFICES ASSUME ReplayFlags, [Replayed!ReplayNext]_(Replayed!replayVars) PROVE ReplayFlags'
    OBVIOUS
  <2>1. CASE Replayed!ReplayNext
    <3>1. /\ observed_at < MaxTime /\ observed_at' \in observed_at + 1 .. MaxTime
          /\ \/ lost < MaxLost /\ lost' = lost + 1 /\ UNCHANGED begun
             \/ UNCHANGED lost /\ begun' = TRUE
      BY <2>1 DEF Replayed!ReplayNext, Replayed!Observe, Replayed!Reject, Replayed!Lose,
                  Replayed!Logged
    <3>2. decided' \in BOOLEAN /\ seen_decision' \in BOOLEAN /\ accepted' \in BOOLEAN
      BY <2>1 DEF Replayed!ReplayNext, Replayed!Observe, Replayed!Reject, ReplayFlags
    <3>3. observed_at' \in 0..MaxTime /\ lost' \in 0..MaxLost
      BY <1>0, <3>1 DEF ReplayFlags
    <3>4. begun' \in BOOLEAN
      BY <3>1 DEF ReplayFlags
    <3>5. QED
      BY <3>2, <3>3, <3>4 DEF ReplayFlags
  <2>2. CASE UNCHANGED Replayed!replayVars
    BY <2>2 DEF Replayed!replayVars, ReplayFlags
  <2>3. QED
    BY <2>1, <2>2
<1>3. ReplayFlags /\ ReplaySeries /\ [Replayed!ReplayNext]_(Replayed!replayVars) => ReplaySeries'
  <2> SUFFICES ASSUME ReplayFlags, ReplaySeries, [Replayed!ReplayNext]_(Replayed!replayVars)
               PROVE  ReplaySeries'
    OBVIOUS
  <2>1. CASE Replayed!Observe
    <3>1. observed_at' \in 1..MaxTime
      <4>1. observed_at < MaxTime /\ observed_at' \in observed_at + 1 .. MaxTime
        BY <2>1 DEF Replayed!Observe
      <4>2. QED
        BY <1>0, <4>1 DEF ReplayFlags
    <3>2. PICK value \in Replayed!Values :
             LET answer == Replayed!Record(kept, window, [at |-> observed_at', value |-> value])
                 shown  == IF Replayed!Decides(answer.returned) THEN value ELSE Replayed!Unknown
                 redone == Replayed!HistorySeries(anchors, [at |-> observed_at', value |-> shown],
                                                  Len(answer.returned))
             IN  /\ kept' = answer.kept /\ returned' = answer.returned
                 /\ \/ UNCHANGED <<anchors, series>>
                    \/ anchors' = redone.anchors /\ series' = redone.series
      BY <2>1 DEF Replayed!Observe
    <3>3. \A shown \in {value, Replayed!Unknown} :
             [at |-> observed_at', value |-> shown] \in Replayed!Sample
      BY <3>1 DEF Replayed!Sample
    <3>4. kept' \in Seq(Replayed!Sample) /\ returned' \in Seq(Replayed!Sample)
      BY <3>2, <3>3, SeriesAreSamples DEF ReplaySeries
    <3>5. anchors' \in Seq(Replayed!Sample) /\ series' \in Seq(Replayed!Sample)
      BY <3>2, <3>3, SeriesAreSamples DEF ReplaySeries
    <3>6. QED
      BY <3>4, <3>5 DEF ReplaySeries
  <2>2. CASE Replayed!Reject
    <3>1. /\ kept' \in {kept, <<>>} /\ returned' = <<>>
          /\ anchors' \in {anchors, <<>>} /\ series' \in {series, <<>>}
      BY <2>2, Zenon DEF Replayed!Reject
    <3>2. <<>> \in Seq(Replayed!Sample)
      OBVIOUS
    <3>3. QED
      BY <3>1, <3>2 DEF ReplaySeries
  <2>3. CASE UNCHANGED Replayed!replayVars
    BY <2>3 DEF Replayed!replayVars, ReplaySeries
  <2>4. QED
    BY <2>1, <2>2, <2>3 DEF Replayed!ReplayNext
<1>4. Typed => Replayed!ReplayTypeOK
  BY DEF ReplayFlags, ReplaySeries, Replayed!ReplayTypeOK
<1>5. QED
  BY <1>1, <1>2, <1>3, <1>4, ReplayRuns, PTL DEF Replayed!ReplaySpec
-----------------------------------------------------------------------------
(***************************************************************************)
(* The live baseline keeps its types.                                      *)
(***************************************************************************)
LEMMA BaselineTypes == HarnessSteps => []Observed!BaselineTypeOK
<1>1. BaselineInv => Observed!BaselineTypeOK
  <2> SUFFICES ASSUME BaselineInv PROVE Observed!BaselineTypeOK
    OBVIOUS
  <2>1. /\ log \in Seq(Observed!Cycle) /\ Len(log) <= MaxCycles
        /\ doing \in {"between", "queried", "decided", "wrote", "scaled"} /\ target \in 1..2
    BY DEF BaselineInv, ControlTyped
  <2>2. inflight \in BOOLEAN /\ state \in 0..2 /\ launched \in 0..2
    BY DEF BaselineInv, GateSound
  <2>3. \/ gate_receipt = Observed!NoGate
        \/ gate_receipt \in [anchor : DOMAIN log, cycle : Observed!Cycle]
    BY <2>1 DEF BaselineInv, GateSound
  <2>4. ready \in Seq(1..2) /\ observer_failed \in BOOLEAN /\ DOMAIN rows = 1..Len(rows)
    BY DEF BaselineInv, RowsTyped
  <2>5. \A i \in DOMAIN rows : rows[i].start <= rows[i].finish /\ rows[i].finish <= Observed!Now
    BY <2>4 DEF BaselineInv, RowsRead, Observed!Now
  <2>6. QED
    BY <2>1, <2>2, <2>3, <2>4, <2>5 DEF Observed!BaselineTypeOK
<1>2. QED
  BY <1>1, BaselineInvariant, PTL

(***************************************************************************)
(* What is proved of all rosters and all targets holds of the harness's.   *)
(***************************************************************************)
LEMMA ObservationTypes == HarnessSteps => []Provider!ProviderTypeOK /\ []Rostered!RosterTypeOK
<1>1. ProviderFacts!ProviderParameters /\ RosterFacts!RosterParameters
  BY ProviderAssumption, RosterAssumption
     DEF Provider!ProviderParameters, ProviderFacts!ProviderParameters,
         Provider!IsFiniteSet, ProviderFacts!IsFiniteSet,
         Rostered!RosterParameters, RosterFacts!RosterParameters
<1>2. ProviderFacts!ProviderTypeOK => Provider!ProviderTypeOK
  BY DEF ProviderFacts!ProviderTypeOK, Provider!ProviderTypeOK, ProviderFacts!Remembered,
         Provider!Remembered, ProviderFacts!Forgotten, Provider!Forgotten,
         ProviderFacts!Callers, Provider!Callers, ProviderFacts!GateHeld, Provider!GateHeld,
         ProviderFacts!Cardinality, Provider!Cardinality
<1>3. RosterFacts!RosterTypeOK => Rostered!RosterTypeOK
  BY DEF RosterFacts!RosterTypeOK, Rostered!RosterTypeOK, RosterFacts!Empty, Rostered!Empty,
         RosterFacts!NoCall, Rostered!NoCall
<1>4. ProviderFacts!ProviderSpec => []ProviderFacts!ProviderTypeOK
  BY <1>1, ProviderFacts!ProviderTypeCorrect
<1>5. RosterFacts!RosterSpec => []RosterFacts!RosterTypeOK
  BY <1>1, RosterFacts!RosterTypeCorrect
<1>6. QED
  BY <1>2, <1>3, <1>4, <1>5, ProviderRuns, RosterRuns, PTL

(***************************************************************************)
(* Whichever program of the harness runs, its variables keep their types.  *)
(***************************************************************************)
THEOREM HarnessTypeOKHolds == HarnessSpec => []HarnessTypeOK
<1>1. HarnessSpec => HarnessSteps
  BY PTL DEF HarnessSpec, HarnessSteps
<1>2. HarnessSteps => []CampaignTypeOK
  <2>1. CampaignInv => CampaignTypeOK
    BY DEF CampaignInv, CampaignTyped
  <2>2. QED
    BY <2>1, CampaignRuns, CampaignInvariant, PTL
<1>3. HarnessSteps => []Archived!ArchiveTypeOK
  <2>1. ArchiveInv => Archived!ArchiveTypeOK
    BY DEF ArchiveInv, ArchiveTyped
  <2>2. QED
    BY <2>1, ArchiveRuns, ArchiveInvariant, PTL
<1>4. HarnessSteps => []Measured!TimelineTypeOK
  <2>1. TimelineInv => Measured!TimelineTypeOK
    BY DEF TimelineInv, SeriesTyped
  <2>2. QED
    BY <2>1, TimelineInvariant, PTL
<1>5. /\ CampaignTypeOK /\ Owned!OwnedTypeOK /\ Accept!AcceptanceTypeOK
      /\ Cadence!CadenceTypeOK /\ Latency!LatencyTypeOK
      /\ Archived!ArchiveTypeOK /\ Measured!TimelineTypeOK /\ Replayed!ReplayTypeOK
      /\ Observed!BaselineTypeOK /\ Provider!ProviderTypeOK /\ Rostered!RosterTypeOK
      => HarnessTypeOK
  BY DEF HarnessTypeOK
<1>6. QED
  BY <1>1, <1>2, <1>3, <1>4, <1>5, LatencyTypes, CadenceTypes, AcceptanceTypes, OwnedTypes,
     ReplayTypes, BaselineTypes, ObservationTypes, PTL
=============================================================================
