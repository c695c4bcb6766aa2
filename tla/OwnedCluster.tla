---------------------------- MODULE OwnedCluster ----------------------------
(***************************************************************************)
(* The owned Kind cluster of the acceptance run and of the end-to-end      *)
(* suite (hack/run_metrics_safety.py and hack/run_e2e.py): a runner that   *)
(* creates a cluster under a name anybody may use, mutates it, and removes *)
(* it again, whatever failed on the way, but never somebody else's.        *)
(*                                                                         *)
(* Docker and Kind are external: a container has a fresh identity and is   *)
(* ours when it mounts the owner file of this run.  kubectl and helm use   *)
(* the private kubeconfig, which no other cluster accepts, so that only    *)
(* what goes by NAME can touch a foreign cluster: kind load, kind delete.  *)
(***************************************************************************)
EXTENDS Integers, Sequences, FiniteSets

CONSTANTS
    MaxContainers,  \* bound: containers created under the name
    MaxTools        \* bound: images loaded by the end-to-end suite

VARIABLES
    suite,     \* which runner: "acceptance" or "e2e"
    stage,     \* "run", a step of finish(), or "reported"
    at,        \* position of run() in Plan
    node,      \* the container under the name, 0 if there is none
    births,    \* containers created so far
    mine,      \* those that mount the owner file of this run
    escaped,   \* kind create lives on, though the run has given it up
    node_id, cluster_uid,  \* what the runner remembers, 0 for None
    created,   \* self.created
    errors,    \* summary: a subset of {"run", "diagnostic", "cleanup"}
    tool,      \* a command of the suite stands between its guard and its exec
    tools,     \* such commands so far
    seen,      \* history: containers that an inspection has looked at
    victims,   \* history: foreign containers touched by name
    late       \* history: containers born after the last look of cleanup()

ownedVars == <<suite, stage, at, node, births, mine, escaped, node_id, cluster_uid, created,
               errors, tool, tools, seen, victims, late>>

docker  == <<node, births, mine, escaped, late>>
memory  == <<suite, node_id, cluster_uid, created>>
history == <<seen, victims>>
nested  == <<tool, tools>>

\* run(), one entry for each group of commands that the model tells apart: guard() is "node"
\* and "uid", and reads that nothing is decided by are left out.
AcceptancePlan ==
    <<"clusters", "containers", "prepare", "create", "node", "uid", "load", "image",
      "node", "uid", "import", "node", "uid", "monitoring", "node", "uid", "helm", "suite">>
EndToEndPlan ==
    <<"clusters", "containers", "prepare", "create", "node", "uid", "import",
      "node", "uid", "suite">>
Plan == IF suite = "acceptance" THEN AcceptancePlan ELSE EndToEndPlan
Doing(entry) == stage = "run" /\ Plan[at] = entry

OwnedInit ==
    /\ suite \in {"acceptance", "e2e"} /\ stage = "run" /\ at = 1
    /\ node \in {0, 1} /\ births = node /\ mine = {} /\ escaped = FALSE
    /\ node_id = 0 /\ cluster_uid = 0 /\ created = FALSE
    /\ errors = {} /\ tool = FALSE /\ tools = 0
    /\ seen = {} /\ victims = {} /\ late = {}
-----------------------------------------------------------------------------
\* Docker, and whoever else uses it.
Born(ours) ==
    /\ node = 0 /\ births < MaxContainers
    /\ births' = births + 1 /\ node' = births'
    /\ mine' = IF ours THEN mine \cup {births'} ELSE mine

Removed == node' = 0 /\ UNCHANGED <<births, mine>>

SomebodyElse ==
    /\ stage # "reported"
    /\ Born(FALSE) \/ (node # 0 /\ Removed)
    /\ UNCHANGED <<stage, at, escaped, memory, errors, nested, history, late>>

\* The command that outlived the stop of its process group still makes its container.
LateBirth ==
    /\ escaped /\ Born(TRUE)
    /\ escaped' = FALSE
    /\ late' = IF stage \in {"remove-files", "reported"} THEN late \cup {births'} ELSE late
    /\ UNCHANGED <<stage, at, memory, errors, nested, history>>
-----------------------------------------------------------------------------
Forward ==
    IF at < Len(Plan)
    THEN at' = at + 1 /\ UNCHANGED stage
    ELSE stage' = "diagnose" /\ UNCHANGED at

\* The except of finish(): diagnostics and cleanup only if a cluster may exist.
GiveUp(was_created) ==
    /\ errors' = errors \cup {"run"}
    /\ stage' = IF was_created THEN "diagnose" ELSE "remove-files"
    /\ UNCHANGED at

\* command(): a failure, the deadline of the run, a timeout, descendants left behind or
\* a signal end run() at any step.
Fail ==
    /\ stage = "run" /\ ~Doing("create")
    /\ GiveUp(created)
    /\ tool' = FALSE
    /\ UNCHANGED <<docker, memory, tools, history>>

\* The name must be free, in two looks that others may act between.
NameFree ==
    /\ Doing("clusters") \/ Doing("containers")
    /\ node = 0
    /\ Forward
    /\ UNCHANGED <<docker, memory, errors, nested, history>>

\* A group that leaves no trace here: it succeeds while what it goes through is there.
Harmless(entry, reached) ==
    /\ Doing(entry) /\ reached
    /\ Forward
    /\ UNCHANGED <<docker, memory, errors, nested, history>>

\* Versions, the frozen source and the images, before there is a cluster.
Prepare == Harmless("prepare", TRUE)

\* kubectl and helm, and the script of the acceptance run, go by the private kubeconfig.
Monitoring == Harmless("monitoring", node \in mine)
Helm == Harmless("helm", node \in mine)
RunSuite == Harmless("suite", ~tool /\ (suite = "acceptance" => node \in mine))

\* The loaded image is read by name first, then by the container's identity if at all.
VerifyImage == Harmless("image", node # 0)

\* Fixture images enter the container of the identity, whatever has its name; the
\* acceptance run may be asked for none.
Import == Harmless("import", node = node_id)
NoImport ==
    /\ Doing("import") /\ suite = "acceptance"
    /\ at' = at + 3
    /\ UNCHANGED <<stage, docker, memory, errors, nested, history>>

\* A slip: the cluster is remembered only once kind create has succeeded.
CreateThenRemember ==
    /\ Doing("create")
    /\ \/ created' = TRUE /\ Born(TRUE) /\ Forward /\ UNCHANGED <<escaped, errors>>
       \/ created' = FALSE /\ Born(TRUE) /\ GiveUp(created') /\ UNCHANGED escaped
       \/ /\ created' = FALSE /\ escaped' \in BOOLEAN /\ GiveUp(created')
          /\ UNCHANGED <<node, births, mine>>
    /\ UNCHANGED <<suite, node_id, cluster_uid, late, nested, history>>

\* self.created precedes kind create --retain.  It may fail or be stopped with the
\* container made or not, and live on if nothing stops it or a second signal interrupts
\* the stop.
Create ==
    /\ Doing("create")
    /\ created' = TRUE
    /\ \/ Born(TRUE) /\ Forward /\ UNCHANGED <<escaped, errors>>
       \/ Born(TRUE) /\ GiveUp(created') /\ UNCHANGED escaped
       \/ escaped' \in BOOLEAN /\ GiveUp(created') /\ UNCHANGED <<node, births, mine>>
    /\ UNCHANGED <<suite, node_id, cluster_uid, late, nested, history>>

\* inspect_node(): the label and the name come with the container, the mount tells whose.
Inspected ==
    /\ node \in mine /\ node_id \in {0, node}
    /\ node_id' = node
Look == seen' = seen \cup ({node} \ {0})

InspectNode ==
    /\ Doing("node") /\ Inspected /\ Look
    /\ Forward
    /\ UNCHANGED <<docker, suite, cluster_uid, created, errors, nested, victims>>

\* The API answers through the private kubeconfig only from the cluster it was made for.
Answers == node \in mine
Identified ==
    /\ Answers /\ cluster_uid \in {0, node}
    /\ cluster_uid' = node

ClusterIdentity ==
    /\ Doing("uid") /\ Identified
    /\ Forward
    /\ UNCHANGED <<docker, suite, node_id, created, errors, nested, history>>

\* What goes by name reaches whoever has the name now.
Touch == victims' = victims \cup ({node} \ (mine \cup {0}))

Load ==
    /\ Doing("load") /\ node # 0 /\ Touch
    /\ Forward
    /\ UNCHANGED <<docker, memory, errors, nested, seen>>

\* A slip: it is enough that the name is taken.
GuardedByName == node # 0

\* guarded_command(): the container by its identity, its name, its owner, its cluster.
\* Then the wrapper becomes the command.
Guarded == node = node_id /\ node \in mine /\ Answers /\ node = cluster_uid
ToolGuard ==
    /\ Doing("suite") /\ suite = "e2e" /\ ~tool /\ tools < MaxTools
    /\ Guarded /\ Look
    /\ tool' = TRUE /\ tools' = tools + 1
    /\ UNCHANGED <<stage, at, docker, memory, errors, victims>>

ToolExec ==
    /\ tool /\ stage = "run"
    /\ tool' = FALSE
    /\ Touch
    /\ UNCHANGED <<stage, at, docker, memory, errors, tools, seen>>
-----------------------------------------------------------------------------
\* finish(): signals no longer reach what follows, and one failure does not hide the rest.
DiagnoseNode ==
    /\ stage = "diagnose" /\ Look
    /\ \/ Inspected /\ stage' = "diagnose-uid" /\ UNCHANGED errors
       \/ /\ errors' = errors \cup {"diagnostic"} /\ stage' = "left-containers"
          /\ UNCHANGED node_id
    /\ UNCHANGED <<at, docker, suite, cluster_uid, created, nested, victims>>

DiagnoseCluster ==
    /\ stage = "diagnose-uid"
    /\ stage' = "left-containers"
    /\ \/ Identified /\ errors' \in {errors, errors \cup {"diagnostic"}}
       \/ errors' = errors \cup {"diagnostic"} /\ UNCHANGED cluster_uid
    /\ UNCHANGED <<at, docker, suite, node_id, created, nested, history>>

\* cleanup(): which step follows an answer of Docker.
Step(now, next) ==
    /\ stage = now /\ stage' = next
    /\ UNCHANGED <<at, errors, nested, suite, created>>

CleanupFailed ==
    /\ stage \in {"left-containers", "left-clusters", "inspect", "delete",
                  "gone-clusters", "gone-containers"}
    /\ stage' = "remove-files" /\ errors' = errors \cup {"cleanup"}
    /\ \/ UNCHANGED docker
       \/ stage = "delete" /\ Touch /\ Removed /\ UNCHANGED <<escaped, late>>
    /\ IF stage = "delete" /\ node' # node THEN UNCHANGED seen ELSE UNCHANGED history
    /\ UNCHANGED <<at, memory, nested>>

LeftContainers ==
    /\ Step("left-containers", IF node = 0 /\ node_id = 0 THEN "left-clusters" ELSE "inspect")
    /\ UNCHANGED <<docker, node_id, cluster_uid, history>>

LeftClusters ==
    /\ node = 0
    /\ Step("left-clusters", "remove-files")
    /\ UNCHANGED <<docker, node_id, cluster_uid, history>>

InspectLeft ==
    /\ Inspected /\ Look
    /\ Step("inspect", IF cluster_uid = 0 THEN "delete" ELSE "identity")
    /\ UNCHANGED <<docker, cluster_uid, victims>>

\* An API that does not answer leaves the decision to the container's identity.
IdentifyLeft ==
    /\ \/ Step("identity", "delete") /\ ~(Answers /\ node # cluster_uid)
       \/ /\ stage = "identity" /\ Answers /\ node # cluster_uid
          /\ stage' = "remove-files" /\ errors' = errors \cup {"cleanup"}
          /\ UNCHANGED <<at, nested, suite, created>>
    /\ UNCHANGED <<docker, node_id, cluster_uid, history>>

Delete ==
    /\ Step("delete", "gone-clusters")
    /\ Touch /\ Removed
    /\ UNCHANGED <<escaped, late, node_id, cluster_uid, seen>>

Gone ==
    /\ node = 0
    /\ \/ Step("gone-clusters", "gone-containers")
       \/ Step("gone-containers", "remove-files")
    /\ UNCHANGED <<docker, node_id, cluster_uid, history>>

\* The private files go only after a clean cleanup.
Report ==
    /\ stage = "remove-files" /\ stage' = "reported"
    /\ errors' \in {errors, errors \cup {"cleanup"}}
    /\ UNCHANGED <<at, docker, memory, nested, history>>

OwnedStep ==
    \/ Fail \/ NameFree \/ Prepare \/ Create \/ InspectNode \/ ClusterIdentity \/ Load
    \/ VerifyImage \/ Import \/ NoImport \/ Monitoring \/ Helm \/ RunSuite
    \/ ToolGuard \/ ToolExec
    \/ DiagnoseNode \/ DiagnoseCluster
    \/ CleanupFailed \/ LeftContainers \/ LeftClusters \/ InspectLeft \/ IdentifyLeft
    \/ Delete \/ Gone \/ Report

OwnedNext == OwnedStep \/ SomebodyElse \/ LateBirth

OwnedSpec == OwnedInit /\ [][OwnedNext]_ownedVars
-----------------------------------------------------------------------------
OwnedTypeOK ==
    /\ stage \in {"run", "diagnose", "diagnose-uid", "left-containers", "left-clusters", "inspect",
                  "identity", "delete", "gone-clusters", "gone-containers", "remove-files",
                  "reported"}
    /\ suite \in {"acceptance", "e2e"} /\ at \in 1..Len(Plan)
    /\ births \in 0..MaxContainers /\ node \in 0..births
    /\ mine \subseteq 1..births /\ late \subseteq mine
    /\ node_id \in mine \cup {0} /\ cluster_uid \in mine \cup {0}
    /\ seen \subseteq 1..births /\ victims \subseteq (1..births) \ mine
    /\ errors \subseteq {"run", "diagnostic", "cleanup"}
    /\ created \in BOOLEAN /\ escaped \in BOOLEAN /\ tool \in BOOLEAN /\ tools \in 0..MaxTools

\* A foreign cluster is loaded or deleted only if it took our cluster's place after the
\* last check: never one that a check has looked at, nor one that stood there before ours.
ForeignClusterSafe ==
    [][\A v \in victims' \ victims : v \notin seen /\ mine # {} /\ \A m \in mine : m < v]_ownedVars

\* A summary without a cleanup error means that nothing of ours has the name, however
\* early the run failed, unless a command that escaped its stop made it after the last look.
NothingLeftSilently ==
    stage = "reported" /\ "cleanup" \notin errors => node \notin mine \ late
=============================================================================
