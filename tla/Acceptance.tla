----------------------------- MODULE Acceptance -----------------------------
(***************************************************************************)
(* The acceptance of metrics safety (hack/verify_metrics_safety.py): it    *)
(* stops the cluster's only Prometheus, creates and changes fixtures, and  *)
(* must put everything back, on a cluster somebody else may change too.    *)
(*                                                                         *)
(* Every kubectl may fail before or after the API server has done what it  *)
(* asked (a timeout tells neither).  A cluster that somebody replaces takes *)
(* its source and its fixtures with it.                                    *)
(***************************************************************************)
EXTENDS Integers, Sequences, FiniteSets

CONSTANTS
    MaxReplaced,  \* bound: replacements of the cluster behind the context
    MaxRecreated  \* bound: namespaces that somebody else creates or deletes

VARIABLES
    step,        \* position of run() in Script, or 0 when it is over
    tidy,        \* step of cleanup(), "none" while run() goes on, then "ended"
    behind,      \* the cluster behind the context, named for how often it was replaced
    prometheus,  \* replicas of its source
    found,       \* the replicas it had before the run
    fixture,     \* the workload namespace's uid, 0 if absent
    ours,        \* uids of the namespaces our apply created
    uids, meddled,  \* namespaces ever created; created or deleted by somebody else
    guarded,        \* self.cluster_uid, -1 for None
    fixture_uid, fixture_created, source_stopped,  \* as in the class; 0 for None
    results,        \* number of self.results
    failed          \* which of "error" and "cleanup_error" the summary will hold

acceptanceVars == <<step, tidy, behind, prometheus, found, fixture, ours, uids, meddled,
                    guarded, fixture_uid, fixture_created, source_stopped, results, failed>>

cluster == <<behind, prometheus, found, fixture, ours, uids, meddled>>
flags   == <<fixture_uid, fixture_created, source_stopped>>

\* run(): "check" adds a result, "observe" and "mutate" stand for reads, and for the
\* writes to the fixtures (load, rollout, scale of web, deletion of the leader) that no
\* property is about.  Every write but the first two follows a guard.
Script ==
    <<"guard", "absent", "managers", "source", "apply", "uid",
      "check", "check",
      "guard", "mutate", "check", "check",
      "guard", "mutate", "check", "guard", "mutate", "guard", "mutate", "check", "check", "check",
      "announce", "guard", "stop", "check", "guard", "mutate", "check", "guard", "start",
      "clear", "check">>
Doing(entry) == tidy = "none" /\ Script[step] = entry

AcceptanceInit ==
    /\ step = 1 /\ tidy = "none" /\ behind = 0
    /\ prometheus \in {0, 1} /\ found = prometheus
    /\ fixture \in {0, 1} /\ uids = fixture
    /\ ours = {} /\ meddled = 0 /\ guarded = -1
    /\ fixture_uid = 0 /\ fixture_created = FALSE /\ source_stopped = FALSE
    /\ results = 0 /\ failed = {}
-----------------------------------------------------------------------------
Forward == step' = step + 1 /\ UNCHANGED <<tidy, failed>>
Done == step = Len(Script)
Advance == IF Done THEN tidy' = "guard" /\ UNCHANGED <<step, failed>> ELSE Forward

\* except Exception: the error is kept and the cleanup begins.
Raise == tidy' = "guard" /\ failed' = failed \cup {"error"} /\ UNCHANGED step

Fail ==
    /\ tidy = "none" /\ ~Doing("announce") /\ ~Doing("clear")
    /\ Raise
    /\ fixture_created' = (fixture_created \/ Doing("apply"))
    /\ UNCHANGED <<cluster, guarded, fixture_uid, source_stopped, results>>

\* KeyboardInterrupt is no Exception: the finally runs with error still None.
Interrupted ==
    /\ tidy = "none"
    /\ tidy' = "guard" /\ UNCHANGED <<step, failed>>
    /\ fixture_created' = (fixture_created \/ Doing("apply"))
    /\ UNCHANGED <<cluster, guarded, fixture_uid, source_stopped, results>>

\* guard(): the first answer becomes the identity, every later one must equal it.
Identity ==
    /\ guarded \in {-1, behind}
    /\ guarded' = behind

Guard ==
    /\ Doing("guard") /\ Identity
    /\ Advance
    /\ UNCHANGED <<cluster, flags, results>>

Absent ==
    /\ Doing("absent") /\ fixture = 0
    /\ Advance
    /\ UNCHANGED <<cluster, guarded, flags, results>>

Source ==
    /\ Doing("source") /\ prometheus = 1
    /\ Advance
    /\ UNCHANGED <<cluster, guarded, flags, results>>

Observe ==
    /\ Doing("managers") \/ Doing("mutate")
    /\ Advance
    /\ UNCHANGED <<cluster, guarded, flags, results>>

Check ==
    /\ Doing("check")
    /\ results' = results + 1
    /\ Advance
    /\ UNCHANGED <<cluster, guarded, flags>>

\* A slip: the fixtures are remembered only when the command has succeeded.
ApplyThenRemember ==
    /\ Doing("apply")
    /\ IF fixture = 0
       THEN /\ uids' = uids + 1
            /\ fixture' = uids'
            /\ ours' = ours \cup {uids'}
       ELSE UNCHANGED <<uids, fixture, ours>>
    /\ \/ Advance /\ fixture_created' = TRUE
       \/ Raise /\ UNCHANGED fixture_created
    /\ UNCHANGED <<behind, prometheus, found, meddled, guarded, fixture_uid, source_stopped, results>>

\* kubectl apply takes an existing namespace for its own.
Apply ==
    /\ Doing("apply")
    /\ fixture_created' = TRUE
    /\ IF fixture = 0
       THEN /\ uids' = uids + 1
            /\ fixture' = uids'
            /\ ours' = ours \cup {uids'}
       ELSE UNCHANGED <<uids, fixture, ours>>
    /\ Advance \/ Raise
    /\ UNCHANGED <<behind, prometheus, found, meddled, guarded, fixture_uid, source_stopped, results>>

FixtureUid ==
    /\ Doing("uid") /\ fixture # 0
    /\ fixture_uid' = fixture
    /\ Advance
    /\ UNCHANGED <<cluster, guarded, fixture_created, source_stopped, results>>

Announce ==
    /\ Doing("announce") /\ source_stopped' = TRUE
    /\ Advance
    /\ UNCHANGED <<cluster, guarded, fixture_uid, fixture_created, results>>

Scale(replicas) ==
    /\ prometheus' = replicas
    /\ UNCHANGED <<behind, found, fixture, ours, uids, meddled>>

StopSource ==
    /\ Doing("stop") /\ Scale(0)
    /\ Advance \/ Raise
    /\ UNCHANGED <<guarded, flags, results>>

StartSource ==
    /\ Doing("start") /\ Scale(1)
    /\ Advance \/ Raise
    /\ UNCHANGED <<guarded, flags, results>>

Clear ==
    /\ Doing("clear") /\ source_stopped' = FALSE
    /\ Advance
    /\ UNCHANGED <<cluster, guarded, fixture_uid, fixture_created, results>>
-----------------------------------------------------------------------------
\* cleanup(): guard, source, identity of the fixtures, their deletion.
CleanupError ==
    /\ tidy \notin {"none", "ended"}
    /\ tidy' = "ended" /\ failed' = failed \cup {"cleanup_error"}
    /\ UNCHANGED <<step, cluster, guarded, flags, results>>

AfterSource == IF fixture_created THEN "identity" ELSE "ended"

TidyGuard ==
    /\ \/ tidy = "guard" /\ tidy' = IF source_stopped THEN "guard-source" ELSE AfterSource
       \/ tidy = "guard-source" /\ tidy' = "source"
    /\ Identity
    /\ UNCHANGED <<step, cluster, flags, results, failed>>

TidySource ==
    /\ tidy = "source" /\ tidy' = AfterSource
    /\ Scale(1)
    /\ UNCHANGED <<step, guarded, flags, results, failed>>

Confirmed == fixture_uid # 0 /\ fixture = fixture_uid

TidyIdentity ==
    /\ tidy = "identity" /\ Confirmed
    /\ tidy' = "delete"
    /\ UNCHANGED <<step, cluster, guarded, flags, results, failed>>

\* Whatever the last reads did, the namespace is deleted, by its name.
TidyDelete ==
    /\ tidy = "delete" /\ tidy' = "ended"
    /\ failed' \in {failed, failed \cup {"cleanup_error"}}
    /\ fixture' = 0
    /\ fixture = 0 => failed' # failed
    /\ UNCHANGED <<step, behind, prometheus, found, ours, uids, meddled, guarded, flags, results>>
-----------------------------------------------------------------------------
Replace ==
    /\ tidy # "ended" /\ behind < MaxReplaced
    /\ behind' = behind + 1 /\ prometheus' = 1 /\ found' = 1 /\ fixture' = 0
    /\ UNCHANGED <<step, tidy, ours, uids, meddled, guarded, flags, results, failed>>

Recreate ==
    /\ tidy # "ended" /\ meddled < MaxRecreated
    /\ meddled' = meddled + 1
    /\ uids' = IF fixture = 0 THEN uids + 1 ELSE uids
    /\ fixture' = IF fixture = 0 THEN uids' ELSE 0
    /\ UNCHANGED <<step, tidy, behind, prometheus, found, ours, guarded, flags, results, failed>>

AcceptanceNext ==
    \/ Fail \/ Interrupted
    \/ Guard \/ Absent \/ Source \/ Observe \/ Check \/ Apply \/ FixtureUid
    \/ Announce \/ StopSource \/ StartSource \/ Clear
    \/ CleanupError \/ TidyGuard \/ TidySource \/ TidyIdentity \/ TidyDelete
    \/ Replace \/ Recreate

AcceptanceSpec == AcceptanceInit /\ [][AcceptanceNext]_acceptanceVars
-----------------------------------------------------------------------------
AcceptanceTypeOK ==
    /\ step \in 1..Len(Script)
    /\ tidy \in {"none", "guard", "guard-source", "source", "identity", "delete", "ended"}
    /\ behind \in 0..MaxReplaced /\ guarded \in -1..MaxReplaced
    /\ prometheus \in {0, 1} /\ found \in {0, 1} /\ fixture \in 0..uids
    /\ fixture_uid \in 0..uids /\ results \in 0..11
    /\ failed \subseteq {"error", "cleanup_error"}
    /\ fixture_created \in BOOLEAN /\ source_stopped \in BOOLEAN
    /\ ours \subseteq 1..uids /\ uids \in Nat /\ meddled \in 0..MaxRecreated

\* Without a cleanup error the cluster has its source as the run found it and nothing of
\* the fixtures, although any call may have failed after it took effect.
LeftAsFound ==
    tidy = "ended" /\ "cleanup_error" \notin failed =>
        prometheus = found /\ fixture \notin ours
=============================================================================
