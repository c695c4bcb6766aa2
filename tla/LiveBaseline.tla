---------------------------- MODULE LiveBaseline ----------------------------
(***************************************************************************)
(* The live baseline (hack/observe_live_baseline.py and                    *)
(* hack/analyze/live_baseline.py).  While the controller writes its log,   *)
(* an observer reads the target and then the log, and opens the launch     *)
(* gate once they show a warm, idle target.  During the load it goes on    *)
(* reading, and the analysis computes costs and the first growth from      *)
(* reads that take time and may be far apart.                              *)
(*                                                                         *)
(* The gate needs no clock: its age limits only refuse.  Time begins with  *)
(* the launch, in units that a read may begin, answer and end in.          *)
(***************************************************************************)
EXTENDS Integers, Sequences, FiniteSetsExt

CONSTANTS
    MaxCycles,   \* bound: reconciliations before the launch
    Interval,    \* seconds from one read to the next, if the first is quick
    MaxRead,     \* the timeout of a read
    LoadOnset, LoadEnd, ObservationEnd,  \* of the schedule that k6 reports
    MaxChanges   \* bound: changes of the replica count after the launch

VARIABLES
    inflight,    \* allow_inflight: the cadence observer asks, with a cycle under way
    log,         \* the cycles of controller.log
    doing,       \* where the controller is in its newest cycle
    replicas,    \* spec.replicas
    seen,        \* state["deployment"]["spec"]["replicas"], 0 between rows
    receipt,     \* live-baseline-gate.json: the index and the record of the anchor, or NoGate
    launched,    \* history: spec.replicas when the log of the receipt was read
    ready,       \* readyReplicas in every unit of time since the launch
    read,        \* the read under way: its start and what the server answered
    rows,        \* live-observations.ndjson
    failed       \* the observer ended with an error

baselineVars == <<inflight, log, doing, replicas, seen, receipt, launched, ready, read, rows, failed>>

controller == <<log, doing, replicas>>
observer   == <<seen, receipt, launched>>
load       == <<ready, read, rows, failed>>

Cycle  == [query : {"idle", "busy", "error"}, decision : 0..2, scale : BOOLEAN,
           finish : {"none", "ok", "error"}]
NoGate == [anchor |-> 0]
NoRead == [start |-> -1]
Unknown == -1

BaselineInit ==
    /\ inflight \in BOOLEAN
    /\ log = <<>> /\ doing = "between" /\ replicas = 1
    /\ seen = 0 /\ receipt = NoGate /\ launched = 0
    /\ ready = <<1>> /\ read = NoRead /\ rows = <<>> /\ failed = FALSE
-----------------------------------------------------------------------------
Now == Len(ready) - 1

\* Bound: what follows a launch does not depend on the log that led to it, so that time
\* is explored after the shortest such log only.
Explored ==
    /\ receipt # NoGate /\ ~inflight
    /\ log = <<[query |-> "idle", decision |-> 1, scale |-> FALSE, finish |-> "ok"]>>

\* The controller, as its log tells: the query, the decision, then the write and its
\* record.  Nothing is released within the stabilisation window, which outlasts the gate.
Newest(field, value) == log' = [log EXCEPT ![Len(log)][field] = value]

LogQuery ==
    /\ doing = "between" /\ Len(log) < MaxCycles /\ doing' = "queried" /\ Now = 0
    /\ \E query \in {"idle", "busy", "error"} :
          log' = Append(log, [query |-> query, decision |-> 0, scale |-> FALSE, finish |-> "none"])
    /\ UNCHANGED <<inflight, replicas, observer, load>>

LogDecision ==
    /\ doing = "queried" /\ log[Len(log)].query # "error" /\ doing' = "decided"
    /\ \E final \in (IF log[Len(log)].query = "busy" THEN replicas..2 ELSE {replicas}) :
          Newest("decision", final)
    /\ UNCHANGED <<inflight, replicas, observer, load>>

Write ==
    /\ doing = "decided" /\ log[Len(log)].decision # replicas /\ doing' = "wrote"
    /\ replicas' = log[Len(log)].decision
    /\ UNCHANGED <<inflight, log, observer, load>>

LogScale ==
    /\ doing = "wrote" /\ doing' = "scaled"
    /\ Newest("scale", TRUE)
    /\ UNCHANGED <<inflight, replicas, observer, load>>

\* A cycle may end early, with or without an error; a write whose answer was lost is one.
LogFinish ==
    /\ doing # "between" /\ doing' = "between"
    /\ \E finish \in (IF doing = "wrote" THEN {"error"} ELSE {"ok", "error"}) : Newest("finish", finish)
    /\ UNCHANGED <<inflight, replicas, observer, load>>
-----------------------------------------------------------------------------
\* read_state() of a row before the gate is open.
ReadState ==
    /\ receipt = NoGate /\ seen = 0 /\ ~failed
    /\ seen' = replicas
    /\ UNCHANGED <<inflight, controller, receipt, launched, load>>

\* What a pending cycle must not show: a failure, a busy target, a decision to scale.
StillIdle(cycle) == cycle.query = "idle" /\ ~cycle.scale /\ cycle.decision \in {0, 1}

\* The newest complete cycle, 0 for none.
NewestComplete(cycles) == Max({0} \cup {i \in DOMAIN cycles : cycles[i].finish # "none"})

\* A slip: the newest complete cycle will do, whatever follows it.
AnchorOfCompleted(cycles) == NewestComplete(cycles)

\* The cycle a receipt may rest on, 0 for none: the newest of all, or, with a cycle under
\* way, the newest complete one that idle ones follow.
Anchor(cycles) ==
    IF ~inflight THEN Len(cycles)
    ELSE IF \A i \in NewestComplete(cycles) + 1 .. Len(cycles) : StillIdle(cycles[i])
    THEN NewestComplete(cycles) ELSE 0

\* ready_receipt(): a complete cycle that left one idle replica, on a target seen so.
Warm(cycle) ==
    /\ cycle.finish = "ok" /\ cycle.query = "idle" /\ cycle.decision = 1
    /\ seen = 1

\* The log is read after the target.  Age, protection and conditions may refuse as well.
Judge ==
    /\ seen # 0 /\ seen' = 0
    /\ LET anchor == Anchor(log)
       IN  \/ UNCHANGED <<receipt, launched>>
           \/ /\ anchor # 0 /\ Warm(log[anchor])
              /\ receipt' = [anchor |-> anchor, cycle |-> log[anchor]]
              /\ launched' = replicas
    /\ UNCHANGED <<inflight, controller, load>>
-----------------------------------------------------------------------------
\* After the launch: time, and the replicas that become ready or go.
Changes(counts) == Cardinality({i \in 2..Len(counts) : counts[i] # counts[i - 1]})

Tick ==
    /\ Explored /\ Now < ObservationEnd + 1
    /\ read # NoRead => Now < read.start + MaxRead
    /\ \E count \in {1, 2} : ready' = Append(ready, count)
    /\ Changes(ready') <= MaxChanges
    /\ UNCHANGED <<inflight, controller, observer, read, rows, failed>>

BeginRead ==
    /\ Explored /\ ~failed /\ read = NoRead
    /\ rows # <<>> => Now >= rows[Len(rows)].start + Interval
    /\ read' = [start |-> Now, value |-> Unknown]
    /\ UNCHANGED <<inflight, controller, observer, ready, rows, failed>>

Answer ==
    /\ read # NoRead /\ read.value = Unknown
    /\ read' = [read EXCEPT !.value = ready[Len(ready)]]
    /\ UNCHANGED <<inflight, controller, observer, ready, rows, failed>>

\* A row with its interval; an error ends the observer and makes its status a failure.
EndRead ==
    /\ read # NoRead /\ read' = NoRead
    /\ \/ /\ read.value # Unknown /\ UNCHANGED failed
          /\ rows # <<>> => Now > rows[Len(rows)].finish
          /\ rows' = Append(rows, [start |-> read.start, finish |-> Now, value |-> read.value])
       \/ failed' = TRUE /\ UNCHANGED rows
    /\ UNCHANGED <<inflight, controller, observer, ready>>

BaselineNext ==
    \/ LogQuery \/ LogDecision \/ Write \/ LogScale \/ LogFinish
    \/ ReadState \/ Judge
    \/ Tick \/ BeginRead \/ Answer \/ EndRead

BaselineSpec == BaselineInit /\ [][BaselineNext]_baselineVars
-----------------------------------------------------------------------------
\* analyze(): what it demands before it computes.  The anchor must stand in the whole log.
Validated ==
    /\ ~failed /\ receipt # NoGate
    /\ log[receipt.anchor] = receipt.cycle
    /\ rows # <<>> /\ rows[1].finish <= LoadOnset /\ rows[Len(rows)].finish >= ObservationEnd

\* integrate(): an answer holds from the end of its read to the end of the next, unless
\* that is too far.
MaxGap == 2 * Interval
Held(i) == IF rows[i + 1].finish - rows[i].finish > MaxGap THEN {}
           ELSE {t \in LoadOnset .. ObservationEnd - 1 :
                    rows[i].finish <= t /\ t < rows[i + 1].finish}
CoverageComplete ==
    LoadOnset .. ObservationEnd - 1 \subseteq UNION {Held(i) : i \in 1 .. Len(rows) - 1}
PodSeconds(from) ==
    SumFunction([i \in 1 .. Len(rows) - 1 |->
                    rows[i].value * Cardinality({t \in Held(i) : t >= from})])

\* A slip: growth is not before the end of the read that did not show it.
GrowthAfterRead(before, row) == [from |-> before.finish, to |-> row.finish]

\* The first growth lies between the start of the last read without it and the end of the
\* first with it.
GrowthInterval(before, row) == [from |-> before.start, to |-> row.finish]

Baseline == Max({i \in DOMAIN rows : rows[i].finish <= LoadOnset})
Grown == {i \in Baseline + 1 .. Len(rows) : rows[i].value > rows[Baseline].value}
FirstGrowth == GrowthInterval(rows[Min(Grown) - 1], rows[Min(Grown)])

BaselineTypeOK ==
    /\ inflight \in BOOLEAN /\ log \in Seq(Cycle) /\ Len(log) <= MaxCycles
    /\ doing \in {"between", "queried", "decided", "wrote", "scaled"}
    /\ replicas \in 1..2 /\ seen \in 0..2 /\ launched \in 0..2
    /\ receipt = NoGate \/ receipt \in [anchor : DOMAIN log, cycle : Cycle]
    /\ ready \in Seq(1..2) /\ failed \in BOOLEAN
    /\ \A i \in DOMAIN rows : rows[i].start <= rows[i].finish /\ rows[i].finish <= Now

\* The gate opens on a target that the controller has not scaled, although the target and
\* the log are read one after the other while both change.  Of a run that is validated, the
\* growth reported is one that happened in the interval reported, and the costs of a window
\* that is called complete are off by no more than the moves of the count within one gap
\* and one read.
BaselineIsFaithful ==
    /\ launched \in {0, 1}
    /\ Validated =>
          /\ Grown # {} =>
                \E t \in FirstGrowth.from + 1 .. FirstGrowth.to :
                    ready[t] <= rows[Baseline].value /\ rows[Baseline].value < ready[t + 1]
          /\ CoverageComplete => \A from \in {LoadOnset, LoadEnd} :
                LET off == PodSeconds(from)
                              - SumFunction([t \in from .. ObservationEnd - 1 |-> ready[t + 1]])
                    bound == (MaxGap + MaxRead) * Changes(ready)
                IN  off \in -bound .. bound
=============================================================================
