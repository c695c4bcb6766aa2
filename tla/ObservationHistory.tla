------------------------- MODULE ObservationHistory -------------------------
(***************************************************************************)
(* What the metrics provider remembers (internal/metricsprovider/          *)
(* prometheus.go): callers observe targets, each call of a target behind   *)
(* the gate that its name hashes to, and under a deadline, so that it may  *)
(* give up or fail at any point.  Accepted observations are kept for each  *)
(* target in a map of bounded size that all calls share; some failures     *)
(* discard them.  The clock is the wall clock, which may be set back.      *)
(*                                                                         *)
(* How an observation is made and judged is the subject of Roster; here it *)
(* succeeds or fails in one of the ways the provider names.                *)
(***************************************************************************)
EXTENDS SampleHistory, FiniteSetsExt

CONSTANTS
    Targets,      \* names of Deployments
    gateOf,       \* the gate that each name hashes to
    maxTargets,   \* targets remembered
    MaxTime,      \* bound: reading of the clock
    Scenarios     \* bounds explored together: the callers (goroutines that share the provider),
                  \* the targets and the windows (spec.prediction.window) they ask for, how many
                  \* calls they make, and how many disturbances there are

\* What the constants must be; the code's spacing is 15 s, its windows are positive.
ProviderParameters ==
    /\ observationSpacing \in Nat \ {0} /\ {maxTargets, MaxTime} \subseteq Nat
    /\ IsFiniteSet(Targets)
    /\ \A bounds \in Scenarios : /\ bounds.targets \subseteq Targets /\ bounds.windows \subseteq Nat
                                 /\ {bounds.calls, bounds.disturbances} \subseteq Nat

VARIABLES
    clock,        \* p.now()
    live,         \* the incarnation of each Deployment
    history,      \* p.history
    calls,        \* the call of each caller
    scenario, left,  \* of Scenarios, and what is left of its calls and disturbances
    noted,        \* history: when each target was accepted, see Note
    answered      \* the answer of the last step, if it gave one

providerVars == <<clock, live, history, calls, scenario, left, noted, answered>>

world == <<clock, live, scenario>>
Callers == scenario.callers

Forgotten == [uid |-> 0, samples |-> <<>>]
Idle      == [phase |-> "idle"]
Nothing   == [uid |-> 0, accepted |-> {}, last |-> -1]
NoAnswer  == [samples |-> <<>>]

Remembered == {t \in Targets : history[t] # Forgotten}

ProviderInit ==
    /\ clock = 0
    /\ scenario \in Scenarios
    /\ left = [calls |-> scenario.calls, disturbances |-> scenario.disturbances]
    /\ live = [t \in Targets |-> 1]
    /\ history = [t \in Targets |-> Forgotten]
    /\ calls = [c \in Callers |-> Idle]
    /\ noted = [t \in Targets |-> Nothing] /\ answered = NoAnswer
-----------------------------------------------------------------------------
\* A call for a Deployment as the caller's cache shows it, perhaps one that is gone.
Call(c) ==
    /\ calls[c] = Idle /\ left.calls > 0
    /\ left' = [left EXCEPT !.calls = @ - 1]
    /\ \E t \in scenario.targets, window \in scenario.windows : \E uid \in 1..live[t] :
          calls' = [calls EXCEPT ![c] = [phase |-> "waiting", target |-> t, uid |-> uid,
                                         window |-> window, at |-> 0]]
    /\ answered' = NoAnswer
    /\ UNCHANGED <<world, history, noted>>

GateHeld(c) == calls[c].phase = "observing"
GateFree(t) == \A c \in Callers : GateHeld(c) => gateOf[calls[c].target] # gateOf[t]

\* The gate is free, of all the targets that hash to it; the first roster shows the live
\* Deployment, and evaluatedAt is read.
Acquire(c) ==
    /\ calls[c].phase = "waiting" /\ GateFree(calls[c].target)
    /\ calls[c].uid = live[calls[c].target]
    /\ calls' = [calls EXCEPT ![c].phase = "observing", ![c].at = clock]
    /\ answered' = NoAnswer
    /\ UNCHANGED <<world, history, left, noted>>

\* A slip: whoever fails discards, behind the gate or not.
GiveUpAndDiscard(c) ==
    /\ calls[c].phase = "waiting"
    /\ calls' = [calls EXCEPT ![c] = Idle]
    /\ history' = [history EXCEPT ![calls[c].target] = Forgotten]
    /\ answered' = NoAnswer
    /\ UNCHANGED <<world, left, noted>>

\* The deadline or a cancelled context while waiting, or an earlier incarnation at the
\* first roster: nothing of the target is touched.
GiveUp(c) ==
    /\ calls[c].phase = "waiting"
    /\ calls' = [calls EXCEPT ![c] = Idle]
    /\ answered' = NoAnswer
    /\ UNCHANGED <<world, history, left, noted>>

PreservingErrors == {"incomplete data", "no data", "target changed"}
RestartingErrors == {"stale source data", "invalid data", "query"}

invalidatesObservationHistory(error) == error \notin PreservingErrors

\* A failure behind the gate, the deadline of a query included.
Fail(c) ==
    /\ GateHeld(c) /\ calls' = [calls EXCEPT ![c] = Idle]
    /\ \E error \in PreservingErrors \cup RestartingErrors :
          LET t == calls[c].target
          IN  /\ history' = IF invalidatesObservationHistory(error)
                            THEN [history EXCEPT ![t] = Forgotten] ELSE history
              /\ noted' = IF error \in RestartingErrors
                          THEN [noted EXCEPT ![t] = Nothing] ELSE noted
    /\ answered' = NoAnswer
    /\ UNCHANGED <<world, left>>

\* evictOldest(): which of several as old is up to the order of a map.
EvictOldest(others) ==
    {t \in others : \A other \in others : history[t].lastUsed <= history[other].lastUsed}

\* The auxiliary half of an acceptance.  What is noted of a target since its history began
\* anew: when it was accepted, and the shortest window it has been asked for since, unless
\* that has passed the acceptance.  An eviction ends it only if enough others have been
\* accepted since.
Earlier(t, uid, at) ==
    IF noted[t].uid = uid THEN {n \in noted[t].accepted : n.at < at} ELSE {}

Evictable(t, newcomer) ==
    maxTargets - 1 <= Cardinality(
        {other \in Targets \ {t, newcomer} :
            noted[other] # Nothing /\ noted[t].last <= noted[other].last})

Note(t, uid, window, at) ==
    LET earlier == {[n EXCEPT !.window = Min({@, window})] : n \in Earlier(t, uid, at)}
        since   == {n \in earlier : at - n.at <= n.window - observationSpacing}
    IN  noted' = [other \in Targets |->
            IF other = t
            THEN [uid |-> uid, last |-> at, accepted |-> since \cup {[at |-> at, window |-> window]}]
            ELSE IF history'[other] = Forgotten /\ history[other] # Forgotten /\ Evictable(other, t)
            THEN Nothing ELSE noted[other]]

\* record() and the answer.  The second roster has been read since the gate was entered:
\* the Deployment may be replaced by now.
Accept(c) ==
    /\ GateHeld(c) /\ calls' = [calls EXCEPT ![c] = Idle]
    /\ LET call   == calls[c]
           t      == call.target
           stored == IF history[t].uid = call.uid THEN history[t].samples ELSE <<>>
           answer == Record(stored, call.window, [at |-> call.at, uid |-> call.uid])
           kept   == [uid |-> call.uid, samples |-> answer.kept, lastUsed |-> call.at]
       IN  /\ \E evicted \in IF history[t] = Forgotten /\ Cardinality(Remembered) >= maxTargets
                             THEN {{oldest} : oldest \in EvictOldest(Remembered)} ELSE {{}} :
                 history' = [other \in Targets |-> IF other = t THEN kept
                                                   ELSE IF other \in evicted THEN Forgotten
                                                   ELSE history[other]]
           /\ Note(t, call.uid, call.window, call.at)
           /\ answered' = [samples |-> answer.returned, call |-> call,
                           earlier |-> Earlier(t, call.uid, call.at)]
    /\ UNCHANGED <<world, left>>

Tick ==
    /\ clock < MaxTime /\ clock' = clock + 1 /\ answered' = NoAnswer
    /\ UNCHANGED <<live, history, calls, scenario, left, noted>>

Disturb ==
    /\ left.disturbances > 0 /\ left' = [left EXCEPT !.disturbances = @ - 1]
    /\ answered' = NoAnswer
    /\ UNCHANGED <<history, calls, scenario, noted>>

SetBack == Disturb /\ clock' \in 0 .. clock - 1 /\ UNCHANGED live

Replace(t) == Disturb /\ live' = [live EXCEPT ![t] = @ + 1] /\ UNCHANGED clock

ProviderNext ==
    \/ \E c \in Callers : Call(c) \/ Acquire(c) \/ GiveUp(c) \/ Fail(c) \/ Accept(c)
    \/ Tick \/ SetBack
    \/ \E t \in scenario.targets : Replace(t)

ProviderSpec == ProviderInit /\ [][ProviderNext]_providerVars
-----------------------------------------------------------------------------
ProviderTypeOK ==
    /\ clock \in 0..MaxTime /\ scenario \in Scenarios
    /\ left \in [calls : 0..scenario.calls, disturbances : 0..scenario.disturbances]
    /\ live \in [Targets -> Nat]
    /\ \A t \in Remembered :
          /\ history[t].uid \in 1..live[t] /\ history[t].lastUsed \in 0..MaxTime
          /\ history[t].samples \in Seq([at : 0..MaxTime, uid : {history[t].uid}])
    /\ Cardinality(Remembered) <= maxTargets
    /\ \A c, other \in Callers : c # other /\ GateHeld(c) /\ GateHeld(other) =>
          gateOf[calls[c].target] # gateOf[calls[other].target]

\* What the predictor is given are observations of the one incarnation asked about, within
\* the window, spaced, the live one last.  Two of them there are as soon as the target has
\* been accepted one spacing ago, whoever asked: neither frequent events, nor another
\* policy's window, nor waiting or refused callers, nor other targets, as long as no
\* maxTargets of them have come since, put the warm-up off; only a failure that the
\* provider counts as one does, or a wall clock set back: behind that acceptance, or behind
\* a later one that had dropped it from its window.
WarmsUp ==
    answered # NoAnswer =>
        LET samples == answered.samples
            call    == answered.call
        IN  /\ \A i \in DOMAIN samples :
                  samples[i].uid = call.uid /\ samples[i].at \in call.at - call.window .. call.at
            /\ \A i \in 1 .. Len(samples) - 1 :
                  samples[i + 1].at - samples[i].at >= observationSpacing
            /\ samples[Len(samples)].at = call.at
            /\ \A n \in answered.earlier :
                  call.at - n.at \in observationSpacing .. Min({n.window, call.window}) - observationSpacing
                     => Len(samples) >= 2
=============================================================================
