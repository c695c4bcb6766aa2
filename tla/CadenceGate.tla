---------------------------- MODULE CadenceGate ----------------------------
(***************************************************************************)
(* The launch gate of a cadence slot (hack/observe_cadence.py and the gate *)
(* part of hack/analyze/cadence.py).  A separate process streams CPU       *)
(* observations; the observer waits for the first one whose every          *)
(* container has a newer sample, waits for the assigned phase, and         *)
(* releases k6 with one HTTP request whose failure proves nothing.  Later  *)
(* the analysis judges the retained files.                                 *)
(*                                                                         *)
(* Time is the order of events: an instant is the number of observations   *)
(* finished by then.  What the stream has finished and what a reader of    *)
(* its file already sees are two things.                                   *)
(***************************************************************************)
EXTENDS Integers, Sequences

CONSTANTS
    Containers,  \* container identities of the target
    MaxRows      \* bound: observations of the stream

VARIABLES
    stream,   \* the CPU observations so far
    flushed,  \* how many of them the file shows
    after,    \* observations that began before warmth and readiness, -1 while unknown
    phase,    \* what the observer does
    anchor,   \* gate["anchor"]: index of the selected observation, 0 for none
    attempt,  \* cadence-gate-attempt.json: anchor and instant, or NoFile
    receipt,  \* cadence-gate.json
    errors,   \* the observer has an error
    result,   \* cadence-status.json: "none", "success" or "failed"
    starts    \* times that k6 left its paused state

cadenceVars == <<stream, flushed, after, phase, anchor, attempt, receipt, errors, result, starts>>

NoFile == [anchor |-> 0, at |-> 0]

CadenceInit ==
    /\ stream = <<>> /\ flushed = 0 /\ after = -1
    /\ phase = "starting" /\ anchor = 0
    /\ attempt = NoFile /\ receipt = NoFile
    /\ errors = FALSE /\ result = "none" /\ starts = 0
-----------------------------------------------------------------------------
\* source_set(): an accepted observation has one sample time for each container.
Accepted(row) == row.status = "success"
SameRoster(row, other) == DOMAIN row.sources = DOMAIN other.sources

\* A slip: one newer sample will do.
AdvancedSomewhere(row, other) == \E c \in DOMAIN row.sources : row.sources[c] > other.sources[c]

\* Every container has a newer sample.
Advanced(row, other) == \A c \in DOMAIN row.sources : row.sources[c] > other.sources[c]

\* select_anchor(): one pass that keeps the previous observation, if accepted, and stops
\* at the first that may be an anchor.
SelectAnchor(rows, begun) ==
    LET looked[i \in 0..Len(rows)] ==
            IF i = 0 THEN [previous |-> 0, found |-> 0]
            ELSE LET state == looked[i - 1]
                     row == rows[i]
                     previous == rows[state.previous]
                 IN  IF state.found # 0 THEN state
                     ELSE IF ~Accepted(row) THEN [state EXCEPT !.previous = 0]
                     ELSE IF /\ state.previous # 0 /\ i > begun
                             /\ SameRoster(row, previous) /\ Advanced(row, previous)
                          THEN [state EXCEPT !.found = i]
                          ELSE [state EXCEPT !.previous = i]
    IN  looked[Len(rows)].found

\* check(gate): idle and complete from the anchor to the newest observation there is.
StillIdle(rows, chosen) ==
    /\ rows[chosen].idle
    /\ \A i \in chosen + 1 .. Len(rows) :
          Accepted(rows[i]) /\ rows[i].idle /\ SameRoster(rows[i], rows[chosen])

Visible == SubSeq(stream, 1, flushed)
-----------------------------------------------------------------------------
\* The CPU observer (hack/cadence-cpu) and its file.
Observe ==
    /\ Len(stream) < MaxRows /\ phase # "ended"
    /\ \E roster \in SUBSET Containers \ {{}}, idle, rejected \in BOOLEAN :
         \E sources \in [roster -> 1..MaxRows] :
            /\ \A c \in roster :
                  LET before == {i \in DOMAIN stream : c \in DOMAIN stream[i].sources}
                      newest == IF before = {} THEN 0
                                ELSE stream[CHOOSE i \in before : \A j \in before : j <= i].sources[c]
                  IN  sources[c] \in {newest, newest + 1} \ {0}
            /\ stream' = Append(stream,
                  IF rejected THEN [status |-> "rejected", sources |-> <<>>, idle |-> FALSE]
                              ELSE [status |-> "success", sources |-> sources, idle |-> idle])
    /\ UNCHANGED <<flushed, after, phase, anchor, attempt, receipt, errors, result, starts>>

Flush ==
    /\ flushed < Len(stream) /\ flushed' = flushed + 1
    /\ UNCHANGED <<stream, after, phase, anchor, attempt, receipt, errors, result, starts>>

\* observe(): k6 is paused and ready, the target is warm; an observation may be under way.
Ready ==
    /\ phase = "starting" /\ phase' = "waiting"
    /\ after' \in {Len(stream), Len(stream) + 1}
    /\ UNCHANGED <<stream, flushed, anchor, attempt, receipt, errors, result, starts>>

\* release_gate(): the anchor is chosen once.
Select ==
    /\ phase = "waiting"
    /\ anchor' = SelectAnchor(Visible, after) /\ anchor' # 0
    /\ phase' = "phase"
    /\ UNCHANGED <<stream, flushed, after, attempt, receipt, errors, result, starts>>

Check ==
    /\ phase = "phase" /\ StillIdle(Visible, anchor)
    /\ phase' = "checked"
    /\ UNCHANGED <<stream, flushed, after, anchor, attempt, receipt, errors, result, starts>>

Attempt ==
    /\ phase = "checked" /\ phase' = "attempted"
    /\ attempt' = [anchor |-> anchor, at |-> Len(stream)]
    /\ UNCHANGED <<stream, flushed, after, anchor, receipt, errors, result, starts>>

\* PATCH, once: an error may follow a real start.
Release ==
    /\ phase = "attempted"
    /\ \/ /\ starts' = starts + 1 /\ receipt' = attempt
          /\ phase' = "collecting" /\ UNCHANGED errors
       \/ /\ starts' \in {starts, starts + 1} /\ errors' = TRUE
          /\ phase' = "cleanup" /\ UNCHANGED receipt
    /\ UNCHANGED <<stream, flushed, after, anchor, attempt, result>>

Collected ==
    /\ phase = "collecting" /\ phase' = "cleanup"
    /\ UNCHANGED <<stream, flushed, after, anchor, attempt, receipt, errors, result, starts>>

\* A signal, a deadline, a late anchor, a lost process, a target no longer warm or idle,
\* or an attempt that cannot be written.
Fail ==
    /\ phase \in {"starting", "waiting", "phase", "checked", "collecting"}
    /\ phase' = "cleanup" /\ errors' = TRUE
    /\ UNCHANGED <<stream, flushed, after, anchor, attempt, receipt, result, starts>>

Finish ==
    /\ phase = "cleanup" /\ phase' = "ended"
    /\ \E cleaned \in BOOLEAN :
          result' = IF ~errors /\ receipt # NoFile /\ cleaned THEN "success" ELSE "failed"
    /\ UNCHANGED <<stream, flushed, after, anchor, attempt, receipt, errors, starts>>

\* The observer is killed.
Crash ==
    /\ phase # "ended" /\ phase' = "ended"
    /\ UNCHANGED <<stream, flushed, after, anchor, attempt, receipt, errors, result, starts>>

CadenceNext ==
    \/ Observe \/ Flush
    \/ Ready \/ Select \/ Check \/ Attempt \/ Release \/ Collected \/ Fail \/ Finish \/ Crash

CadenceSpec == CadenceInit /\ [][CadenceNext]_cadenceVars
-----------------------------------------------------------------------------
\* analyze_run(): what the analysis demands of the retained files before it speaks of
\* a launch.
GateValid ==
    /\ result = "success" /\ receipt # NoFile
    /\ attempt = receipt
    /\ LET chosen == receipt.anchor
       IN  /\ chosen > 1 /\ Accepted(stream[chosen - 1]) /\ Accepted(stream[chosen])
           /\ SameRoster(stream[chosen], stream[chosen - 1])
           /\ Advanced(stream[chosen], stream[chosen - 1])
           /\ SelectAnchor(stream, after) = chosen
           /\ StillIdle(SubSeq(stream, 1, receipt.at), chosen)

CadenceTypeOK ==
    /\ Len(stream) <= MaxRows /\ flushed \in 0..Len(stream)
    /\ after \in -1..MaxRows + 1 /\ anchor \in 0..Len(stream)
    /\ phase \in {"starting", "waiting", "phase", "checked", "attempted", "collecting",
                  "cleanup", "ended"}
    /\ attempt \in [anchor : 0..Len(stream), at : 0..Len(stream)] /\ receipt \in {NoFile, attempt}
    /\ errors \in BOOLEAN /\ result \in {"none", "success", "failed"} /\ starts \in Nat

\* An observation is eligible if it and its predecessor cover the same containers, each
\* with a newer sample, and it began after warmth and readiness.
Eligible(i) ==
    /\ i > 1 /\ i > after
    /\ Accepted(stream[i]) /\ Accepted(stream[i - 1])
    /\ \A c \in Containers :
          \/ c \notin DOMAIN stream[i].sources \cup DOMAIN stream[i - 1].sources
          \/ /\ c \in DOMAIN stream[i].sources \cap DOMAIN stream[i - 1].sources
             /\ stream[i].sources[c] > stream[i - 1].sources[c]

\* Load that runs, even after a lost answer or a crash of the observer, was announced on
\* disk and started once; the announcement names the first eligible observation of the
\* whole stream, though it was chosen on what the file showed then; and a run that the
\* analysis accepts was launched.
LaunchIsAccountedFor ==
    /\ starts > 0 => starts = 1 /\ attempt # NoFile
    /\ attempt # NoFile =>
          /\ Eligible(attempt.anchor)
          /\ \A i \in 2 .. attempt.anchor - 1 : ~Eligible(i)
    /\ GateValid => starts = 1
=============================================================================
