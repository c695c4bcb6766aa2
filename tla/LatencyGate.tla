---------------------------- MODULE LatencyGate ----------------------------
(***************************************************************************)
(* The launch gate of a latency diagnostic: the observer's gate thread and *)
(* its main loop (hack/run_latency_diagnostic.py), the script of the k6    *)
(* Pod that waits for its launch time, and the host that stops the load    *)
(* when it gives up (both hack/lib/k6_runner.sh).  They share the files of *)
(* the Pod's results directory and nothing else; each may be interrupted   *)
(* between any two of its steps, and any exec of kubectl may fail, before  *)
(* or after it took effect.                                                *)
(***************************************************************************)
EXTENDS Integers

VARIABLES
    script,     \* step of the Pod's script
    files,      \* files of the results directory: ready, launch, cancelled, pid
    gate,       \* latency-gate-status
    load,       \* the k6 process: "none", "running", "stopping", "gone"
    thread,     \* step of coordinate_gate()
    main,       \* the observer: "observing", "joining", "ended"
    stop,       \* self.stop is set
    errors,     \* self.errors is not empty
    planned,    \* latency-plan.json holds the launch time
    gate_released,  \* as in the class
    status,     \* latency-observer-status.json
    host        \* step of k6_runner_run()

latencyVars == <<script, files, gate, load, thread, main, stop, errors, planned, gate_released,
                 status, host>>

pod      == <<script, files, gate, load>>
observer == <<thread, main, stop, errors, planned, gate_released, status>>

NoStatus == [status |-> "none", gate_released |-> FALSE]

LatencyInit ==
    /\ script = "begin" /\ files = {} /\ gate = "none" /\ load = "none"
    /\ thread = "unready" /\ main = "observing" /\ stop = FALSE /\ errors = FALSE
    /\ planned = FALSE /\ gate_released = FALSE /\ status = NoStatus
    /\ host = "polling"
-----------------------------------------------------------------------------
\* latency_wait_for_launch(): one pass of the loop looks for a cancellation, reads the
\* launch time once, and releases when that has come.
GateStep ==
    \/ /\ script = "begin" /\ script' = "look"
       /\ gate' = "waiting" /\ files' = files \cup {"ready"}
    \/ /\ script = "look" /\ UNCHANGED files
       /\ IF "cancelled" \in files
          THEN script' = "refused" /\ gate' = "cancelled"
          ELSE script' = "due" /\ UNCHANGED gate
    \/ /\ script = "due" /\ UNCHANGED files
       /\ \/ script' = "look" /\ UNCHANGED gate
          \/ "launch" \in files /\ script' = "start" /\ gate' = "released"
          \/ script' = "refused" /\ gate' = "timed_out"

ScriptGate == GateStep /\ UNCHANGED <<load, observer, host>>

\* A slip: nobody looks for a cancellation once the pid is published.
ScriptLoadWithoutRecheck ==
    /\ \/ /\ script = "start" /\ script' = "publish" /\ load' = "running" /\ UNCHANGED files
       \/ /\ script = "publish" /\ script' = "wait" /\ UNCHANGED load
          /\ files' = files \cup {"pid"}
       \/ script = "wait" /\ load = "gone" /\ script' = "over" /\ UNCHANGED <<files, load>>
    /\ UNCHANGED <<gate, observer, host>>

\* The load starts, its pid is published, and a cancellation that came between is seen.
ScriptLoad ==
    /\ \/ /\ script = "start" /\ script' = "publish" /\ load' = "running" /\ UNCHANGED files
       \/ /\ script = "publish" /\ script' = "recheck" /\ UNCHANGED load
          /\ files' = files \cup {"pid"}
       \/ /\ script = "recheck" /\ script' = "wait" /\ UNCHANGED files
          /\ load' = IF "cancelled" \in files /\ load = "running" THEN "stopping" ELSE load
       \/ script = "wait" /\ load = "gone" /\ script' = "over" /\ UNCHANGED <<files, load>>
    /\ UNCHANGED <<gate, observer, host>>

\* k6 ends by itself or after TERM.
LoadEnds ==
    /\ load \in {"running", "stopping"} /\ load' = "gone"
    /\ UNCHANGED <<script, files, gate, observer, host>>
-----------------------------------------------------------------------------
\* coordinate_gate(): every exec may fail with its effect or without it.
Raise == thread' = "cancel" /\ errors' = TRUE

Kubectl(next) ==
    \/ thread' = next /\ UNCHANGED errors
    \/ Raise

Thread(now) == thread = now /\ UNCHANGED <<main, status, script, gate, load, host>>

ReadReady ==
    /\ Thread("unready") /\ ~stop /\ "ready" \in files
    /\ Kubectl("anchor")
    /\ UNCHANGED <<files, stop, planned, gate_released>>

\* An idle cycle that is still in time; the plan is on disk before the Pod knows.
Anchor ==
    /\ Thread("anchor") /\ ~stop
    /\ thread' = "schedule" /\ planned' = TRUE
    /\ UNCHANGED <<files, stop, errors, gate_released>>

Schedule ==
    /\ Thread("schedule")
    /\ \/ files' = files \cup {"launch"} /\ Kubectl("poll")
       \/ Raise /\ UNCHANGED files
    /\ UNCHANGED <<stop, planned, gate_released>>

Poll ==
    /\ Thread("poll") /\ ~stop
    /\ \/ /\ gate = "released" /\ gate_released' = TRUE
          /\ thread' = "over" /\ UNCHANGED errors
       \/ gate \in {"cancelled", "timed_out"} /\ Raise /\ UNCHANGED gate_released
       \/ Raise /\ UNCHANGED gate_released
    /\ UNCHANGED <<files, stop, planned>>

\* A stop from outside ends the thread without a word to the Pod.
Quit ==
    /\ stop /\ thread \in {"unready", "anchor", "poll"}
    /\ Thread(thread) /\ thread' = "over"
    /\ UNCHANGED <<files, stop, errors, planned, gate_released>>

\* The 180 seconds of the gate, or an anchor too old for the phase.
GiveUp ==
    /\ ~stop /\ thread \in {"unready", "anchor", "poll"}
    /\ Thread(thread) /\ Raise
    /\ UNCHANGED <<files, stop, planned, gate_released>>

Cancel ==
    /\ Thread("cancel") /\ thread' = "over"
    /\ files' \in {files, files \cup {"cancelled"}}
    /\ stop' = TRUE
    /\ UNCHANGED <<errors, planned, gate_released>>

\* run(): an observation fails, a signal arrives, and the finally.
ObserverStop ==
    /\ main = "observing"
    /\ \/ stop' = TRUE /\ errors' \in {errors, TRUE} /\ main' = "joining"
       \/ errors' = TRUE /\ ~errors /\ UNCHANGED <<stop, main>>
    /\ UNCHANGED <<pod, thread, planned, gate_released, status, host>>

ObserverEnds ==
    /\ main = "joining" /\ main' = "ended"
    /\ status' = [status |-> IF ~errors /\ gate_released /\ thread = "over"
                             THEN "success" ELSE "failed",
                  gate_released |-> gate_released]
    /\ UNCHANGED <<pod, thread, stop, errors, planned, gate_released, host>>
-----------------------------------------------------------------------------
\* k6_runner_run(): the load is over, or it fails, times out or is interrupted, and
\* finish_runner() cancels first and then looks for a pid to kill.
HostStep ==
    /\ \/ /\ host = "polling" /\ host' = "collecting"
          /\ script \in {"over", "refused"} /\ UNCHANGED <<files, load>>
       \/ host = "polling" /\ host' = "cancel" /\ UNCHANGED <<files, load>>
       \/ host = "cancel" /\ host' = "kill" /\ files' = files \cup {"cancelled"} /\ UNCHANGED load
       \/ /\ host = "kill" /\ host' = "stopped" /\ UNCHANGED files
          /\ load' = IF "pid" \in files /\ load = "running" THEN "stopping" ELSE load
       \/ host \in {"cancel", "kill"} /\ host' = "collecting" /\ UNCHANGED <<files, load>>
    /\ UNCHANGED <<script, gate, observer>>

LatencyNext ==
    \/ ScriptGate \/ ScriptLoad \/ LoadEnds
    \/ ReadReady \/ Anchor \/ Schedule \/ Poll \/ Quit \/ GiveUp \/ Cancel
    \/ ObserverStop \/ ObserverEnds
    \/ HostStep

LatencySpec == LatencyInit /\ [][LatencyNext]_latencyVars
-----------------------------------------------------------------------------
LatencyTypeOK ==
    /\ script \in {"begin", "look", "due", "refused", "start", "publish", "recheck", "wait", "over"}
    /\ files \subseteq {"ready", "launch", "cancelled", "pid"}
    /\ gate \in {"none", "waiting", "cancelled", "timed_out", "released"}
    /\ load \in {"none", "running", "stopping", "gone"}
    /\ thread \in {"unready", "anchor", "schedule", "poll", "cancel", "over"}
    /\ main \in {"observing", "joining", "ended"} /\ stop \in BOOLEAN /\ errors \in BOOLEAN
    /\ planned \in BOOLEAN /\ gate_released \in BOOLEAN
    /\ status \in [status : {"none", "success", "failed"}, gate_released : BOOLEAN]
    /\ host \in {"polling", "cancel", "kill", "stopped", "collecting"}

\* No load is unaccounted for: none runs without its launch time on disk; once the host's
\* stop command has run, the script that sits in its wait has a load that was told to
\* stop, wherever between release and pid the command came; and a success is that of a
\* load that was released and not cancelled first.
LoadIsAccountedFor ==
    /\ load # "none" => planned
    /\ host = "stopped" /\ script = "wait" => load # "running"
    /\ status.status = "success" => gate = "released"
=============================================================================
