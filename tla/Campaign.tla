------------------------------ MODULE Campaign ------------------------------
(***************************************************************************)
(* A live campaign (hack/run_live_campaign.py, and the cadence campaign    *)
(* that inherits it): a plan of slots, each a benchmark run and its        *)
(* analysis on one dedicated cluster, driven by child processes that may   *)
(* time out, fail, leave descendants behind or ignore SIGTERM, in a world  *)
(* that somebody else may change at any moment, and under signals.         *)
(*                                                                         *)
(* A command is one process group.  A snapshot is two commands, so that    *)
(* the world may change between its reads: the first stands for those up   *)
(* to the node roster, the second for the workload, the policies and the   *)
(* competitors.                                                            *)
(***************************************************************************)
EXTENDS Integers, FiniteSets

CONSTANTS
    Slots,       \* number of slots of the plan
    Signals,     \* signals the operator may send, a subset of {"INT", "TERM"}
    MaxSignals,  \* bound: signals sent
    MaxChanges   \* bound: foreign changes to the world

ASSUME CampaignAssumption ==
    /\ Slots \in Nat \ {0} /\ MaxSignals \in Nat /\ MaxChanges \in Nat
    /\ Signals \subseteq {"INT", "TERM"}

VARIABLES
    job,       \* what run() does now: a command, "closing" its finally, then "ended"
    slot,      \* the slot being run, 0 before the first
    world,     \* the cluster, the workload, the policy and the source tree, as they are
    notes,     \* what run() remembers of them
    slots,     \* the status of every slot
    status,    \* status["status"]
    report,    \* campaign-status.json, or NoReport
    cmd,       \* where command() and stop_active() are
    active,    \* self.active is a process group
    sequence,  \* self.sequence: commands started
    live,      \* the commands of whose process group somebody lives
    leader,    \* the direct process of the newest command: "running", "ok" or "bad"
    sigterm,   \* the handler of SIGTERM: "armed" or "ignored"
    signals, changes,  \* sent and made so far
    abandoned, \* history: groups whose handle a signal lost, in Popen or in stop_active
    mixed      \* history: slots whose benchmark saw another world than the first

campaignVars == <<job, slot, world, notes, slots, status, report, cmd, active, sequence,
                  live, leader, sigterm, signals, changes, abandoned, mixed>>

control  == <<job, slot, notes, slots, status, report>>
process  == <<cmd, active, sequence, live, leader, abandoned>>
outside  == <<world, sigterm, signals, changes, mixed>>

NoReport == [status |-> "none", cleanup_error |-> FALSE]
Jobs == {"context", "initial1", "initial2", "build", "build-observer", "before1", "before2",
         "benchmark", "analysis", "after1", "after2"}
Nobody  == 0    \* no policy; a policy is named for the slot that applied it
Prior   == -1   \* the policy an earlier campaign left, named by its receipt
Foreign == -2
World == [cluster : Nat, workload : Nat, source : Nat, binary : Nat, rival : BOOLEAN,
          phpa : {Nobody, Prior, Foreign} \cup (1..Slots)]

\* What a snapshot has read: nothing yet of the fields it has not reached.
Seen == [cluster |-> world.cluster, workload |-> world.workload, phpa |-> world.phpa]

CampaignInit ==
    /\ job = "context" /\ slot = 0
    /\ world \in [cluster : {0}, workload : {0}, source : {0}, binary : {0},
                  rival : BOOLEAN, phpa : {Nobody, Prior}]
    /\ \E receipt \in {Nobody, Prior}, cadence \in BOOLEAN :
          notes = [receipt |-> receipt, cadence |-> cadence, applied |-> Nobody,
                   frozen |-> 0, digest |-> 0, initial |-> Seen, previous |-> Seen, current |-> Seen]
    /\ slots = [s \in 1..Slots |-> "not_run"]
    /\ status = "in_progress" /\ report = NoReport
    /\ cmd = "idle" /\ active = FALSE /\ sequence = 0 /\ live = {} /\ leader = "ok"
    /\ sigterm = "armed" /\ signals = 0 /\ changes = 0 /\ abandoned = {} /\ mixed = {}
-----------------------------------------------------------------------------
\* except: whatever slot runs has failed, and the finally begins.
Abort(then) ==
    /\ job' = "closing"
    /\ status' = "failed"
    /\ slots' = [s \in 1..Slots |-> IF then[s] = "running" THEN "failed" ELSE then[s]]
    /\ UNCHANGED <<slot, report>>

Closing == Abort(slots) /\ UNCHANGED notes

Proceed(next) == job' = next /\ UNCHANGED <<status, report>>

\* The two halves of a snapshot, and what makes snapshot() refuse it.
ReadCluster == notes' = [notes EXCEPT !.current.cluster = world.cluster]

Whole == [cluster |-> notes.current.cluster, workload |-> world.workload,
          phpa |-> world.phpa]

Acceptable == ~world.rival /\ world.phpa # Foreign

\* The policy found is the one of the receipt, whose cluster and target are still these.
Authorized ==
    /\ Whole.phpa = notes.receipt
    /\ notes.receipt # Nobody => Whole.cluster = 0 /\ Whole.workload = 0

\* A slip: a snapshot is identified by its workload alone.
IdentityOfWorkload(snapshot) == snapshot.workload

\* The identity of a snapshot: everything but the policy, which the slots replace.
Identity(snapshot) == <<snapshot.cluster, snapshot.workload>>

\* The top of the loop: neither the source nor the binary has changed.
Frozen(source, binary) == world.source = source /\ world.binary = binary

\* configure_slot(): the cadence protocol checks its observer's binary.
Configured == notes.cadence => world.binary = notes.digest

\* A slip: the plan has one slot more than it should.
NextSlotBeyondPlan(done) ==
    \/ /\ slot > Slots
       /\ job' = "closing" /\ status' = "success" /\ slots' = done
       /\ UNCHANGED <<slot, report>>
    \/ /\ slot <= Slots /\ Frozen(notes.frozen, notes.digest)
       /\ Proceed("before1") /\ slot' = slot + 1 /\ slots' = done

\* After a slot: the next one, or the end.
NextSlot(done) ==
    \/ /\ slot = Slots
       /\ job' = "closing" /\ status' = "success" /\ slots' = done
       /\ UNCHANGED <<slot, report>>
    \/ /\ slot < Slots /\ Frozen(notes.frozen, notes.digest)
       /\ Proceed("before1") /\ slot' = slot + 1 /\ slots' = done
    \/ /\ slot < Slots /\ ~Frozen(notes.frozen, notes.digest)
       /\ Abort(done)

\* The benchmark of the slot runs in another world than the one first seen.
Moved == <<world'.cluster, world'.workload, world'.source>>
            # <<notes'.initial.cluster, notes'.initial.workload, notes'.frozen>>
Watch == mixed' = IF job' = "benchmark" /\ Moved THEN mixed \cup {slot'} ELSE mixed

\* What run() does with a command that succeeded.
Completed ==
    \/ /\ job = "context" /\ Proceed("initial1") /\ UNCHANGED <<slot, notes, slots>>
    \/ /\ job = "initial1" /\ Proceed("initial2") /\ ReadCluster /\ UNCHANGED <<slot, slots>>
    \/ /\ job = "initial2"
       /\ IF Acceptable /\ Authorized
          THEN /\ Proceed("build")
               /\ notes' = [notes EXCEPT !.current = Whole, !.initial = Whole,
                                         !.previous = Whole, !.frozen = world.source]
               /\ UNCHANGED <<slot, slots>>
          ELSE Closing
    \/ /\ job = "build" /\ notes.cadence /\ Proceed("build-observer")
       /\ notes' = [notes EXCEPT !.digest = world.binary]
       /\ UNCHANGED <<slot, slots>>
    \/ /\ \/ job = "build-observer" /\ UNCHANGED notes
          \/ /\ job = "build" /\ ~notes.cadence
             /\ notes' = [notes EXCEPT !.digest = world.binary]
       /\ IF Frozen(notes'.frozen, notes'.digest)
          THEN Proceed("before1") /\ slot' = 1 /\ UNCHANGED slots
          ELSE Abort(slots)
    \/ /\ job = "before1" /\ Proceed("before2") /\ ReadCluster /\ UNCHANGED <<slot, slots>>
    \/ /\ job = "before2"
       /\ IF ~Acceptable \/ Whole # notes.previous THEN Closing
          ELSE IF ~Configured THEN Abort([slots EXCEPT ![slot] = "running"]) /\ UNCHANGED notes
          ELSE /\ Proceed("benchmark")
               /\ slots' = [slots EXCEPT ![slot] = "running"]
               /\ UNCHANGED <<slot, notes>>
    \/ /\ job = "benchmark"
       /\ IF notes.applied = slot /\ world.source = notes.frozen
          THEN Proceed("analysis") /\ UNCHANGED <<slot, notes, slots>>
          ELSE Closing
    \/ /\ job = "analysis" /\ Proceed("after1") /\ UNCHANGED <<slot, notes, slots>>
    \/ /\ job = "after1" /\ Proceed("after2") /\ ReadCluster /\ UNCHANGED <<slot, slots>>
    \/ /\ job = "after2"
       /\ IF /\ Acceptable
             /\ Identity(Whole) = Identity(notes.initial)
             /\ Whole.phpa = notes.applied
          THEN /\ notes' = [notes EXCEPT !.current = Whole, !.previous = Whole]
               /\ NextSlot([slots EXCEPT ![slot] = "success"])
          ELSE Closing

\* command(): the child exists before its handle is stored, and the handle before
\* the try that stops it.
Spawn ==
    /\ job \in Jobs /\ cmd = "idle"
    /\ cmd' = "spawning"
    /\ sequence' = sequence + 1
    /\ live' = live \cup {sequence + 1}
    /\ leader' = "running"
    /\ UNCHANGED <<control, active, abandoned, outside>>

Store ==
    /\ \/ cmd = "spawning" /\ cmd' = "stored" /\ active' = TRUE
       \/ cmd = "stored" /\ cmd' = "waiting" /\ UNCHANGED active
    /\ UNCHANGED <<control, sequence, live, leader, abandoned, outside>>

\* A slip: the leader's exit is taken for the end of its group.
CollectLeader ==
    /\ cmd = "waiting" /\ leader # "running"
    /\ cmd' = "idle" /\ active' = FALSE
    /\ IF leader = "ok" THEN Completed ELSE Closing
    /\ UNCHANGED <<sequence, live, leader, abandoned, world, sigterm, signals, changes>>
    /\ Watch

\* wait() returns: a group that outlives its leader is stopped and the command fails.
Collect ==
    /\ cmd = "waiting" /\ leader # "running"
    /\ IF sequence \in live
       THEN cmd' = "stopping" /\ UNCHANGED <<control, active>>
       ELSE /\ cmd' = "idle" /\ active' = FALSE
            /\ IF leader = "ok" THEN Completed ELSE Closing
    /\ UNCHANGED <<sequence, live, leader, abandoned, world, sigterm, signals, changes>>
    /\ Watch

\* A slip: a benchmark may take as long as it likes.
TimeOutButBenchmark ==
    /\ cmd = "waiting" /\ leader = "running" /\ job # "benchmark"
    /\ cmd' = "stopping"
    /\ UNCHANGED <<control, active, sequence, live, leader, abandoned, outside>>

\* subprocess.TimeoutExpired.
TimeOut ==
    /\ cmd = "waiting" /\ leader = "running"
    /\ cmd' = "stopping"
    /\ UNCHANGED <<control, active, sequence, live, leader, abandoned, outside>>

\* campaign-status.json is the last thing run() does.
Write(cleanup_error) ==
    /\ job' = "ended"
    /\ status' = IF cleanup_error THEN "failed" ELSE status
    /\ report' = [status |-> status', cleanup_error |-> cleanup_error]
    /\ UNCHANGED <<slot, notes, slots>>

\* stop_active() returns: the group went by itself within its 35 seconds, or is
\* killed and that is an error.
Stopped ==
    /\ cmd = "stopping"
    /\ live' = live \ {sequence}
    /\ cmd' = "idle" /\ active' = FALSE
    /\ IF job = "closing" THEN Write(sequence \in live) ELSE Closing
    /\ UNCHANGED <<sequence, leader, abandoned, outside>>

\* A slip: the finally does not stop what is still active.
FinishWithoutStop ==
    /\ job = "closing" /\ cmd = "idle"
    /\ Write(FALSE)
    /\ UNCHANGED <<process, outside>>

\* The finally: what is still active is stopped first.
Finish ==
    /\ job = "closing" /\ cmd = "idle"
    /\ IF active
       THEN cmd' = "stopping" /\ UNCHANGED <<control, active>>
       ELSE Write(FALSE) /\ UNCHANGED <<cmd, active>>
    /\ UNCHANGED <<sequence, live, leader, abandoned, outside>>

\* A signal whose handler raises KeyboardInterrupt, wherever the program is.  Inside
\* the finally nothing catches it.
Interrupt(sig) ==
    /\ job # "ended" /\ signals < MaxSignals
    /\ sig = "TERM" => sigterm = "armed"
    /\ sigterm' = IF sig = "TERM" THEN "ignored" ELSE sigterm
    /\ signals' = signals + 1
    /\ abandoned' = IF cmd \in {"spawning", "stopping"} THEN abandoned \cup {sequence} ELSE abandoned
    /\ IF cmd = "waiting"
       THEN cmd' = "stopping" /\ UNCHANGED <<control, active>>
       ELSE /\ cmd' = "idle"
            /\ active' = (active /\ cmd # "stopping")
            /\ IF job = "closing"
               THEN job' = "ended" /\ UNCHANGED <<slot, notes, slots, status, report>>
               ELSE Closing
    /\ UNCHANGED <<sequence, live, leader, world, changes, mixed>>
-----------------------------------------------------------------------------
\* The child processes: the leader exits, maybe without its descendants, and those later.
Exit(code) ==
    /\ leader = "running"
    /\ leader' = code
    /\ live' \in {live, live \ {sequence}}
    /\ UNCHANGED <<control, cmd, active, sequence, abandoned, outside>>

DescendantsExit ==
    /\ leader # "running" /\ sequence \in live
    /\ live' = live \ {sequence}
    /\ UNCHANGED <<control, cmd, active, sequence, leader, abandoned, outside>>

\* The benchmark applies its policy and retains what it applied.
Apply ==
    /\ job = "benchmark" /\ sequence \in live /\ notes.applied # slot
    /\ cmd # "idle" /\ leader = "running"
    /\ world' = [world EXCEPT !.phpa = slot]
    /\ notes' = [notes EXCEPT !.applied = slot]
    /\ UNCHANGED <<job, slot, slots, status, report, process, sigterm, signals, changes, mixed>>

\* Somebody else: a recreated object, an edited source, a policy or a competitor.
Change ==
    /\ job \in Jobs /\ changes < MaxChanges
    /\ changes' = changes + 1
    /\ \/ world' = [world EXCEPT !.cluster = @ + 1]
       \/ world' = [world EXCEPT !.workload = @ + 1]
       \/ world' = [world EXCEPT !.source = @ + 1]
       \/ world' = [world EXCEPT !.binary = @ + 1]
       \/ world' = [world EXCEPT !.rival = ~@]
       \/ world' = [world EXCEPT !.phpa = Foreign]
    /\ UNCHANGED <<control, process, sigterm, signals>>
    /\ Watch

CampaignStep == Spawn \/ Store \/ Collect \/ TimeOut \/ Stopped \/ Finish

CampaignNext ==
    \/ CampaignStep
    \/ \E sig \in Signals : Interrupt(sig)
    \/ \E code \in {"ok", "bad"} : Exit(code)
    \/ DescendantsExit
    \/ Apply
    \/ Change

\* Every wait of the program has a deadline, so that its next step always comes.
CampaignSpec == CampaignInit /\ [][CampaignNext]_campaignVars /\ WF_campaignVars(CampaignStep)
-----------------------------------------------------------------------------
CampaignTypeOK ==
    /\ job \in Jobs \cup {"closing", "ended"} /\ slot \in 0..Slots
    /\ world \in World
    /\ slots \in [1..Slots -> {"not_run", "running", "success", "failed"}]
    /\ status \in {"in_progress", "success", "failed"}
    /\ report = NoReport \/ report \in [status : {"success", "failed"}, cleanup_error : BOOLEAN]
    /\ cmd \in {"idle", "spawning", "stored", "waiting", "stopping"}
    /\ active \in BOOLEAN /\ sequence \in Nat /\ leader \in {"running", "ok", "bad"}
    /\ live \subseteq 1..sequence /\ abandoned \subseteq 1..sequence
    /\ sigterm \in {"armed", "ignored"} /\ mixed \subseteq 1..Slots
    /\ signals \in 0..MaxSignals /\ changes \in 0..MaxChanges

\* No command is started while a process of an earlier one lives: a benchmark never
\* shares the cluster with what a failed one left behind.
NoOverlap == [][sequence' # sequence => live = {}]_campaignVars

\* Whoever reads the report finds nothing of the campaign running, whatever failed, hung
\* or left descendants, except a group that a signal made it lose (see below).
NothingOutlivesReport == report # NoReport => live \subseteq abandoned

\* A successful slot was measured in the world the campaign began with, its source
\* included: torn snapshots and changes between the reads do not get through.
SlotsSawOneWorld == \A s \in mixed : slots[s] # "success"

\* The run comes to an end, whatever hangs, fails or is interrupted.
CampaignEnds == <>(job = "ended")

\* "Retain the group handle until cleanup ends" (the comment in command()): the handle
\* of a group is given up only when nobody of the group is left.
HandleKeptUntilCleanupEnds == [][active /\ ~active' => sequence \notin live']_campaignVars
=============================================================================
