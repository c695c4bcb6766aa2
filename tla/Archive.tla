------------------------------- MODULE Archive -------------------------------
(***************************************************************************)
(* The archive of a benchmark matrix: the wrapper that fills it over many  *)
(* sessions (hack/run_matrix.sh around hack/run_benchmark.sh), the verdict *)
(* of the extraction (hack/analyze/extract.py) and what the report pools   *)
(* (load_extracts() of hack/analyze/aggregate.py).                         *)
(*                                                                         *)
(* Sessions are interrupted softly or killed between any two steps, the    *)
(* source is edited under them, and between sessions people extract runs   *)
(* by hand and rename what they want left out.  The report may be made at  *)
(* any moment, so that what it would pool is a state function.             *)
(***************************************************************************)
EXTENDS Integers, Sequences, FiniteSets, FiniteSetsExt

CONSTANTS
    Cells,     \* number of cells of the matrix: pattern, controller and repeat
    MaxDirs,   \* bound: experiment directories
    MaxEdits,  \* bound: edits of the source
    MaxHands   \* bound: directories that people extract or rename

VARIABLES
    dirs,     \* the experiment directories, oldest first
    source,   \* identity (source and configuration) of the working tree
    wrapper,  \* the wrapper's session
    edits, hands,
    by_hand,  \* history: runs extracted by hand
    unjudged  \* history: runs whose invalid extraction a hard abort left unmarked

archiveVars == <<dirs, source, wrapper, edits, hands, by_hand, unjudged>>

people == <<source, edits, hands, by_hand>>

Directory == [cell : 1..Cells, identity : 1..2, status : {"in_progress", "success", "failed"},
              measurable : BOOLEAN, extract : {"none", "torn", "valid", "invalid"},
              incomplete : BOOLEAN]

\* phase: "idle", "next", "benchmark", "locate", "extract", "torn", "verdict".
Idle(outcome) == [phase |-> "idle", identity |-> 1, pending |-> {}, cell |-> 0, target |-> 0,
                  interrupted |-> FALSE, outcome |-> outcome]

ArchiveInit ==
    /\ dirs = <<>> /\ source = 1 /\ wrapper = Idle("none")
    /\ edits = 0 /\ hands = 0 /\ by_hand = {} /\ unjudged = {}
-----------------------------------------------------------------------------
\* A slip: an experiment counts without its extraction.
AlreadyRan(cell, identity, require_extraction) ==
    Max({0} \cup {d \in DOMAIN dirs :
                     /\ dirs[d].cell = cell /\ dirs[d].identity = identity
                     /\ dirs[d].status = "success" /\ ~dirs[d].incomplete})

\* already_succeeded(): the newest directory of a cell that counts, 0 if none does.
\* The plan asks for a valid extraction too.
AlreadySucceeded(cell, identity, require_extraction) ==
    LET counts == {d \in DOMAIN dirs :
                      /\ dirs[d].cell = cell /\ dirs[d].identity = identity
                      /\ dirs[d].status = "success" /\ ~dirs[d].incomplete
                      /\ require_extraction => dirs[d].extract = "valid"}
    IN  Max(counts \cup {0})

End(outcome) == wrapper' = Idle(outcome)

\* A new session: what it plans to run stays planned.
Begin ==
    /\ wrapper.phase = "idle"
    /\ LET pending == {c \in 1..Cells : AlreadySucceeded(c, source, TRUE) = 0}
       IN  IF pending = {}
           THEN End("complete") /\ wrapper' # wrapper
           ELSE wrapper' = [Idle("running") EXCEPT !.phase = "next", !.identity = source,
                                                   !.pending = pending]
    /\ UNCHANGED <<dirs, people, unjudged>>

\* run_benchmark.sh takes the identity of the source it runs, or fails before it has a
\* directory.
Next ==
    /\ wrapper.phase = "next"
    /\ IF wrapper.interrupted /\ wrapper.cell # 0 THEN End("stopped") /\ UNCHANGED dirs
       ELSE IF wrapper.pending = {}
       THEN End(IF wrapper.interrupted THEN "stopped" ELSE "complete") /\ UNCHANGED dirs
       ELSE LET cell == Min(wrapper.pending)
            IN  \/ /\ Len(dirs) < MaxDirs
                   /\ \E measurable \in BOOLEAN :
                         dirs' = Append(dirs,
                             [cell |-> cell, identity |-> source, status |-> "in_progress",
                              measurable |-> measurable, extract |-> "none",
                              incomplete |-> FALSE])
                   /\ wrapper' = [wrapper EXCEPT !.phase = "benchmark", !.cell = cell,
                                                 !.pending = @ \ {cell}]
                \/ End("stopped") /\ UNCHANGED dirs
    /\ UNCHANGED <<people, unjudged>>

Newest == Len(dirs)
Set(d, field, value) == dirs' = [dirs EXCEPT ![d][field] = value]

BenchmarkSucceeds ==
    /\ wrapper.phase = "benchmark"
    /\ Set(Newest, "status", "success")
    /\ wrapper' = [wrapper EXCEPT !.phase = "locate"]
    /\ UNCHANGED <<people, unjudged>>

BenchmarkFails ==
    /\ wrapper.phase = "benchmark"
    /\ Set(Newest, "status", "failed")
    /\ End("stopped")
    /\ UNCHANGED <<people, unjudged>>

\* The run just made is looked up by the identity of the session, not of the run.
Locate ==
    /\ wrapper.phase = "locate"
    /\ LET target == AlreadySucceeded(wrapper.cell, wrapper.identity, FALSE)
       IN  IF target = 0 THEN End("stopped")
           ELSE wrapper' = [wrapper EXCEPT !.phase = "extract", !.target = target]
    /\ UNCHANGED <<dirs, people, unjudged>>

\* What extract.py writes for a directory.
Extraction(d) == IF dirs[d].measurable THEN "valid" ELSE "invalid"

\* extract.py opens extract.json, which empties it, and fills it; or it gives up before.
Extract ==
    /\ \/ /\ wrapper.phase = "extract"
          /\ Set(wrapper.target, "extract", "torn")
          /\ wrapper' = [wrapper EXCEPT !.phase = "torn"]
       \/ /\ wrapper.phase = "extract" /\ ~dirs[wrapper.target].measurable
          /\ wrapper' = [wrapper EXCEPT !.phase = "verdict"] /\ UNCHANGED dirs
       \/ /\ wrapper.phase = "torn"
          /\ Set(wrapper.target, "extract", Extraction(wrapper.target))
          /\ wrapper' = [wrapper EXCEPT !.phase = "verdict"]
    /\ UNCHANGED <<people, unjudged>>

\* A slip: the session stops, but the run stays a success.
VerdictWithoutMark ==
    /\ wrapper.phase = "verdict"
    /\ IF dirs[wrapper.target].extract = "valid"
       THEN wrapper' = [wrapper EXCEPT !.phase = "next", !.target = 0]
       ELSE End("stopped")
    /\ UNCHANGED <<dirs, people, unjudged>>

\* run_extract(): a run without a valid extraction has failed after all.
Verdict ==
    /\ wrapper.phase = "verdict"
    /\ IF dirs[wrapper.target].extract = "valid"
       THEN wrapper' = [wrapper EXCEPT !.phase = "next", !.target = 0] /\ UNCHANGED dirs
       ELSE Set(wrapper.target, "status", "failed") /\ End("stopped")
    /\ UNCHANGED <<people, unjudged>>
-----------------------------------------------------------------------------
\* The first Ctrl+C reaches the wrapper and every child in the foreground: the wrapper
\* makes a note, run_benchmark.sh exits and marks its run, and a Python process dies.
SoftInterrupt ==
    /\ wrapper.phase # "idle" /\ ~wrapper.interrupted
    /\ \/ /\ wrapper.phase # "benchmark"
          /\ wrapper' = [wrapper EXCEPT !.interrupted = TRUE] /\ UNCHANGED dirs
       \/ /\ wrapper' = [Idle("stopped") EXCEPT !.interrupted = TRUE]
          /\ \/ wrapper.phase = "benchmark" /\ Set(Newest, "status", "failed")
             \/ wrapper.phase = "locate" /\ UNCHANGED dirs
             \/ /\ wrapper.phase \in {"extract", "torn", "verdict"}
                /\ Set(wrapper.target, "status", "failed")
    /\ UNCHANGED <<people, unjudged>>

\* The second one, or anything else that kills the wrapper.
HardAbort ==
    /\ wrapper.phase # "idle" /\ End("stopped")
    /\ IF wrapper.phase = "benchmark"
       THEN \E status \in {"in_progress", "failed"} : Set(Newest, "status", status)
       ELSE UNCHANGED dirs
    /\ unjudged' = IF wrapper.phase = "verdict" /\ dirs[wrapper.target].extract = "invalid"
                   THEN unjudged \cup {wrapper.target} ELSE unjudged
    /\ UNCHANGED people

Edit ==
    /\ edits < MaxEdits /\ edits' = edits + 1
    /\ source' = 3 - source
    /\ UNCHANGED <<dirs, wrapper, hands, by_hand, unjudged>>

\* Between sessions: "re-run extract.py", and the archival convention _INCOMPLETE_.
ByHand ==
    /\ wrapper.phase = "idle" /\ hands < MaxHands /\ hands' = hands + 1
    /\ \E d \in DOMAIN dirs :
          \/ /\ Set(d, "extract", Extraction(d)) /\ dirs[d].status # "in_progress"
             /\ by_hand' = by_hand \cup {d}
          \/ Set(d, "incomplete", TRUE) /\ UNCHANGED by_hand
    /\ UNCHANGED <<source, wrapper, edits, unjudged>>

\* A slip: whatever has an extraction is loaded.
LoadedByExtract == {d \in DOMAIN dirs : ~dirs[d].incomplete /\ dirs[d].extract \in {"valid", "invalid"}}

\* load_extracts(): what is skipped, and what makes the whole report impossible.
Loaded == {d \in DOMAIN dirs : /\ ~dirs[d].incomplete /\ dirs[d].status = "success"
                               /\ dirs[d].extract \in {"valid", "invalid"}}

Compatible(pool) ==
    /\ \A d \in pool : dirs[d].extract = "valid"
    /\ \A d, e \in pool : dirs[d].identity = dirs[e].identity

ArchiveNext ==
    \/ Begin \/ Next \/ BenchmarkSucceeds \/ BenchmarkFails \/ Locate \/ Extract \/ Verdict
    \/ SoftInterrupt \/ HardAbort
    \/ Edit \/ ByHand

\* A session goes on until it ends, because every wait of its scripts has a deadline.
Session ==
    \/ wrapper.phase # "idle" /\ Next
    \/ BenchmarkSucceeds \/ BenchmarkFails \/ Locate \/ Extract \/ Verdict

ArchiveSpec == ArchiveInit /\ [][ArchiveNext]_archiveVars /\ WF_archiveVars(Session)
-----------------------------------------------------------------------------
ArchiveTypeOK ==
    /\ dirs \in Seq(Directory) /\ Len(dirs) <= MaxDirs
    /\ source \in 1..2 /\ edits \in 0..MaxEdits /\ hands \in 0..MaxHands
    /\ wrapper.pending \subseteq 1..Cells /\ wrapper.cell \in 0..Cells
    /\ wrapper.target \in 0..Len(dirs) /\ wrapper.interrupted \in BOOLEAN
    /\ by_hand \cup unjudged \subseteq DOMAIN dirs

\* A report counts no cell twice, however many attempts the cell took, unless somebody
\* extracted one of them by hand.
OneRunPerCell ==
    Compatible(Loaded) =>
        \A d, e \in Loaded : d # e /\ dirs[d].cell = dirs[e].cell => {d, e} \cap by_hand # {}

\* When a session says that the matrix is complete, every cell has a run of the identity the
\* session began with that a report pools as valid, whatever was killed, edited or run again
\* on the way.
CompleteMeansMeasured ==
    [][wrapper'.outcome = "complete" /\ wrapper' # wrapper =>
          LET identity == IF wrapper.phase = "idle" THEN source ELSE wrapper.identity
          IN  \A c \in 1..Cells : \E d \in Loaded :
                 dirs[d].cell = c /\ dirs[d].identity = identity /\ dirs[d].extract = "valid"]_archiveVars

\* Between sessions no failed attempt stands in the way of the report, except one that
\* somebody extracted by hand or that a hard abort cut before its verdict.
FailedAttemptExcluded ==
    wrapper.phase = "idle" =>
        \A d \in Loaded : dirs[d].extract = "valid" \/ d \in by_hand \cup unjudged

\* "Ctrl+C once: wrapper exits AFTER current experiment finishes" (the header of
\* run_matrix.sh): the first Ctrl+C leaves the experiments alone.
SoftInterruptSparesRun ==
    [][wrapper'.interrupted /\ ~wrapper.interrupted => dirs' = dirs]_archiveVars
=============================================================================
