--------------------------- MODULE PodLogCollector ---------------------------
(***************************************************************************)
(* The pod log collector of bddframework/pkg/framework/logging.go, driven  *)
(* by the scenario hooks of bddframework/pkg/steps/data.go and             *)
(* testbdd/executor/bdd_executor.go, on one Kubernetes namespace.          *)
(*                                                                         *)
(* Threads: the scenario thread (pc), which runs the scenarios one after   *)
(* the other; the goroutine BeforeScenario starts for each of them         *)
(* (starter), which becomes the collector loop (col) when it is not        *)
(* refused; one follower goroutine per container (fol).  The map of a      *)
(* namespace is written in two steps, because a Go map that is read while  *)
(* it is written may abort the process.                                    *)
(*                                                                         *)
(* Scenarios > 1 is a run with the configuration's namespace_name set: all *)
(* scenarios then use the same namespace.  Scenarios = 1 stands for every  *)
(* scenario of an ordinary run, whose namespace no other scenario uses.    *)
(***************************************************************************)
EXTENDS Naturals, FiniteSets

CONSTANTS Pods,           \* pods the scenarios may create in the namespace
          Containers,     \* containers of each pod
          Scenarios,      \* number of scenarios that use the namespace
          KeepNamespace,  \* config.IsKeepNamespace()
          ApiFails,       \* may a call to the cluster return an error?
          Nil             \* no pod, no container

ASSUME ConstAssumption ==
    /\ Scenarios \in Nat \ {0}
    /\ KeepNamespace \in BOOLEAN
    /\ ApiFails \in BOOLEAN
    /\ Nil \notin Pods
    /\ Nil \notin Containers
    /\ Nil \notin Pods \X Containers

Logs == Pods \X Containers     \* one log file per container of a pod

VARIABLES
    pc,         \* the scenario thread
    scenario,   \* number of the current scenario
    starter,    \* the goroutine that runs StartPodLogCollector up to its loop
    monitored,  \* is there an entry for the namespace in monitoredNamespaces?
    stopChan,   \* its stopMonitoring channel
    podKeys,    \* keys of its pods map
    conKeys,    \* <<pod, container>> registered in the containers maps
    finished,   \* registered containers with loggingFinished set
    col,        \* the collector loop
    scanTodo,   \* running pods of the current scan not yet handled
    curPod,     \* the pod the scan registers
    conTodo,    \* its containers not yet registered
    curCon,     \* the container the scan registers
    fol,        \* follower goroutine of each container
    storeTodo,  \* containers storeUnfinishedContainersLog has not visited
    curLog,     \* the container it visits
    fetched,    \* what GetContainerLog returned for it
    nsExists,   \* does the namespace exist in the cluster?
    pod,        \* state of each pod in the cluster
    folder,     \* does the namespace's log folder exist?
    disc,       \* content of each log file in that folder
    aborted     \* how the process died, if it did

startVars  == <<starter, monitored>>
mapVars    == <<podKeys, conKeys>>
scanVars   == <<col, scanTodo, curPod, conTodo, curCon>>
storeVars  == <<storeTodo, curLog, fetched>>
clusterVars == <<nsExists, pod>>
discVars   == <<folder, disc>>
vars == <<pc, scenario, startVars, stopChan, mapVars, finished, scanVars, fol,
          storeVars, clusterVars, discVars, aborted>>

PcStates == {"before", "body", "after", "stop", "sending", "close", "store",
             "get", "mark", "write", "rename", "cleanup", "done"}

\* The scenario thread has returned from stopNamespaceMonitoring.
Stopped == pc \in {"store", "get", "mark", "write", "rename", "cleanup"}

(***************************************************************************)
(* Type invariant.                                                         *)
(***************************************************************************)
TypeOK ==
    /\ pc \in PcStates
    /\ scenario \in 0 .. Scenarios
    /\ starter \in {"none", "spawned", "checked", "folder"}
    /\ monitored \in BOOLEAN
    /\ stopChan \in {"none", "open", "closed"}
    /\ podKeys \in SUBSET Pods
    /\ conKeys \in SUBSET Logs
    /\ finished \in SUBSET Logs
    /\ col \in {"none", "select", "scan", "putPod", "containers", "putCon", "exited"}
    /\ scanTodo \in SUBSET Pods
    /\ curPod \in Pods \cup {Nil}
    /\ conTodo \in SUBSET Containers
    /\ curCon \in Containers \cup {Nil}
    /\ fol \in [Logs -> {"none", "following", "got", "unmarked", "claimed",
                         "written", "lost", "ignored", "failed"}]
    /\ storeTodo \in SUBSET Logs
    /\ curLog \in Logs \cup {Nil}
    /\ fetched \in {"none", "partial", "full"}
    /\ nsExists \in BOOLEAN
    /\ pod \in [Pods -> {"absent", "running", "terminated"}]
    /\ folder \in BOOLEAN
    /\ disc \in [Logs -> {"none", "partial", "full"}]
    /\ aborted \in {"no", "mapRace", "panic"}

Init ==
    /\ pc = "before" /\ scenario = 0
    /\ starter = "none" /\ monitored = FALSE /\ stopChan = "none"
    /\ podKeys = {} /\ conKeys = {} /\ finished = {}
    /\ col = "none" /\ scanTodo = {} /\ curPod = Nil /\ conTodo = {} /\ curCon = Nil
    /\ fol = [l \in Logs |-> "none"]
    /\ storeTodo = {} /\ curLog = Nil /\ fetched = "none"
    /\ nsExists = FALSE
    /\ pod = [p \in Pods |-> "absent"]
    /\ folder = FALSE
    /\ disc = [l \in Logs |-> "none"]
    /\ aborted = "no"

(***************************************************************************)
(* The cluster: pods come and go as the steps of a scenario ask for them.  *)
(***************************************************************************)
CreateNamespace ==
    /\ pc = "body" /\ ~nsExists
    /\ nsExists' = TRUE
    /\ UNCHANGED <<pc, scenario, startVars, stopChan, mapVars, finished, scanVars,
                   fol, storeVars, pod, discVars, aborted>>

PodRuns(p) ==
    /\ pc = "body" /\ nsExists /\ pod[p] = "absent"
    /\ pod' = [pod EXCEPT ![p] = "running"]
    /\ UNCHANGED <<pc, scenario, startVars, stopChan, mapVars, finished, scanVars,
                   fol, storeVars, nsExists, discVars, aborted>>

PodTerminates(p) ==
    /\ pod[p] = "running"
    /\ pod' = [pod EXCEPT ![p] = "terminated"]
    /\ UNCHANGED <<pc, scenario, startVars, stopChan, mapVars, finished, scanVars,
                   fol, storeVars, nsExists, discVars, aborted>>

(***************************************************************************)
(* BeforeScenario: the logger creates the log folder the first time it is  *)
(* asked for (its options stay in loggerOpts afterwards, and so does the   *)
(* decision not to create the folder again), then the collector starts in  *)
(* a goroutine nobody waits for.  Bounds: the goroutine of a scenario has  *)
(* left StartPodLogCollector's prologue before the next scenario begins;   *)
(* the logger's own folder and a file in a folder can always be written.   *)
(***************************************************************************)
BeforeScenario ==
    /\ pc = "before" /\ starter = "none"
    /\ scenario < Scenarios
    /\ scenario' = scenario + 1
    /\ folder' = (folder \/ scenario = 0)
    /\ starter' = "spawned"
    /\ pc' = "body"
    /\ UNCHANGED <<monitored, stopChan, mapVars, finished, scanVars, fol,
                   storeVars, clusterVars, disc, aborted>>

\* StartPodLogCollector: isNamespaceMonitored
StartCheck ==
    /\ starter = "spawned"
    /\ starter' = IF monitored THEN "none" ELSE "checked"
    /\ UNCHANGED <<pc, scenario, monitored, stopChan, mapVars, finished, scanVars,
                   fol, storeVars, clusterVars, discVars, aborted>>

\* StartPodLogCollector: createPrefixedLogFolder (MkdirAll)
StartCreateFolder ==
    /\ starter = "checked"
    /\ folder' = TRUE
    /\ starter' = "folder"
    /\ UNCHANGED <<pc, scenario, monitored, stopChan, mapVars, finished, scanVars,
                   fol, storeVars, clusterVars, disc, aborted>>

\* Its error ends the goroutine, which only logs it: the namespace is not monitored.
StartCreateFolderFails ==
    /\ starter = "checked"
    /\ starter' = "none"
    /\ UNCHANGED <<pc, scenario, monitored, stopChan, mapVars, finished, scanVars,
                   fol, storeVars, clusterVars, discVars, aborted>>

\* StartPodLogCollector: monitoredNamespaces.Store, then the loop
StartStore ==
    /\ starter = "folder"
    /\ monitored' = TRUE
    /\ stopChan' = "open"
    /\ podKeys' = {} /\ conKeys' = {} /\ finished' = {}
    /\ col' = "select"
    /\ starter' = "none"
    /\ UNCHANGED <<pc, scenario, scanTodo, curPod, conTodo, curCon, fol, storeVars,
                   clusterVars, discVars, aborted>>

(***************************************************************************)
(* The loop of StartPodLogCollector.                                       *)
(***************************************************************************)
\* A tick: GetPods and the pods isPodMonitored and IsPodRunning select.  Only
\* this goroutine adds pods, so the first test may be done for all at once.
Tick ==
    /\ col = "select"
    /\ col' = "scan"
    /\ scanTodo' = {p \in Pods : pod[p] = "running"} \ podKeys
    /\ UNCHANGED <<pc, scenario, startVars, stopChan, mapVars, finished, curPod,
                   conTodo, curCon, fol, storeVars, clusterVars, discVars, aborted>>

\* Seeded fault: the loop returns once a scan has nothing left to register.
ScanDone_Returns ==
    /\ col = "scan" /\ scanTodo = {}
    /\ col' = "exited"
    /\ UNCHANGED <<pc, scenario, startVars, stopChan, mapVars, finished, scanTodo,
                   curPod, conTodo, curCon, fol, storeVars, clusterVars, discVars, aborted>>

\* All pods of the scan are handled.  (A failed GetPods changes nothing.)
ScanDone ==
    /\ col = "scan" /\ scanTodo = {}
    /\ col' = "select"
    /\ UNCHANGED <<pc, scenario, startVars, stopChan, mapVars, finished, scanTodo,
                   curPod, conTodo, curCon, fol, storeVars, clusterVars, discVars, aborted>>

\* initMonitoredPod begins to write the pods map ...
PutPodBegin(p) ==
    /\ col = "scan" /\ p \in scanTodo
    /\ scanTodo' = scanTodo \ {p}
    /\ curPod' = p
    /\ col' = "putPod"
    /\ UNCHANGED <<pc, scenario, startVars, stopChan, mapVars, finished, conTodo,
                   curCon, fol, storeVars, clusterVars, discVars, aborted>>

\* ... and ends: the pod's object has an empty containers map.
PutPodEnd ==
    /\ col = "putPod"
    /\ podKeys' = podKeys \cup {curPod}
    /\ conTodo' = Containers
    /\ col' = "containers"
    /\ UNCHANGED <<pc, scenario, startVars, stopChan, conKeys, finished, scanTodo,
                   curPod, curCon, fol, storeVars, clusterVars, discVars, aborted>>

\* Seeded fault: the follower is started before its container is registered.
PutConBegin_StartsFollower(c) ==
    /\ col = "containers" /\ c \in conTodo
    /\ conTodo' = conTodo \ {c}
    /\ curCon' = c
    /\ fol' = [fol EXCEPT ![<<curPod, c>>] = "following"]
    /\ col' = "putCon"
    /\ UNCHANGED <<pc, scenario, startVars, stopChan, mapVars, finished, scanTodo,
                   curPod, storeVars, clusterVars, discVars, aborted>>

\* initMonitoredContainer begins to write the pod's containers map ...
PutConBegin(c) ==
    /\ col = "containers" /\ c \in conTodo
    /\ conTodo' = conTodo \ {c}
    /\ curCon' = c
    /\ col' = "putCon"
    /\ UNCHANGED <<pc, scenario, startVars, stopChan, mapVars, finished, scanTodo,
                   curPod, fol, storeVars, clusterVars, discVars, aborted>>

\* Seeded fault: pod and container name are swapped.
PutConEnd_Swapped ==
    /\ col = "putCon"
    /\ conKeys' = conKeys \cup {<<curCon, curPod>>}
    /\ fol' = [fol EXCEPT ![<<curPod, curCon>>] = "following"]
    /\ curCon' = Nil
    /\ col' = "containers"
    /\ UNCHANGED <<pc, scenario, startVars, stopChan, podKeys, finished, scanTodo,
                   curPod, conTodo, storeVars, clusterVars, discVars, aborted>>

\* ... and ends; the follower of the container is started.
PutConEnd ==
    /\ col = "putCon"
    /\ conKeys' = conKeys \cup {<<curPod, curCon>>}
    /\ fol' = [fol EXCEPT ![<<curPod, curCon>>] = "following"]
    /\ curCon' = Nil
    /\ col' = "containers"
    /\ UNCHANGED <<pc, scenario, startVars, stopChan, podKeys, finished, scanTodo,
                   curPod, conTodo, storeVars, clusterVars, discVars, aborted>>

PodDone ==
    /\ col = "containers" /\ conTodo = {}
    /\ curPod' = Nil
    /\ col' = "scan"
    /\ UNCHANGED <<pc, scenario, startVars, stopChan, mapVars, finished, scanTodo,
                   conTodo, curCon, fol, storeVars, clusterVars, discVars, aborted>>

(***************************************************************************)
(* storeContainerLogWithFollow.                                            *)
(***************************************************************************)
\* The scan writes a map the access of container l reads.
WritesMapOf(l) == \/ col = "putPod"
                  \/ col = "putCon" /\ curPod = l[1]

\* The log is returned once the container is terminated.
FollowReturns(l) ==
    /\ fol[l] = "following" /\ pod[l[1]] # "running"
    /\ fol' = [fol EXCEPT ![l] = "got"]
    /\ UNCHANGED <<pc, scenario, startVars, stopChan, mapVars, finished, scanVars,
                   storeVars, clusterVars, discVars, aborted>>

FollowFails(l) ==
    /\ ApiFails /\ fol[l] = "following"
    /\ fol' = [fol EXCEPT ![l] = "failed"]
    /\ UNCHANGED <<pc, scenario, startVars, stopChan, mapVars, finished, scanVars,
                   storeVars, clusterVars, discVars, aborted>>

\* isContainerLoggingFinished: nil dereference when l is not registered.
FollowCheck(l) ==
    /\ fol[l] = "got"
    /\ IF l \in conKeys
       THEN /\ fol' = [fol EXCEPT ![l] = IF l \in finished THEN "ignored" ELSE "unmarked"]
            /\ UNCHANGED aborted
       ELSE /\ aborted' = "panic"
            /\ UNCHANGED fol
    /\ UNCHANGED <<pc, scenario, startVars, stopChan, mapVars, finished, scanVars,
                   storeVars, clusterVars, discVars>>

\* markContainerLoggingAsFinished, before anything is written.
FollowMark(l) ==
    /\ fol[l] = "unmarked"
    /\ finished' = finished \cup {l}
    /\ fol' = [fol EXCEPT ![l] = "claimed"]
    /\ UNCHANGED <<pc, scenario, startVars, stopChan, mapVars, scanVars, storeVars,
                   clusterVars, discVars, aborted>>

\* writeLogIntoTheFile: fails when the folder was renamed meanwhile.
FollowWrite(l) ==
    /\ fol[l] = "claimed"
    /\ fol' = [fol EXCEPT ![l] = IF folder THEN "written" ELSE "lost"]
    /\ disc' = IF folder THEN [disc EXCEPT ![l] = "full"] ELSE disc
    /\ UNCHANGED <<pc, scenario, startVars, stopChan, mapVars, finished, scanVars,
                   storeVars, clusterVars, folder, aborted>>

\* A follower reads the maps while the scan writes them: the runtime may stop
\* the process ("concurrent map read and map write").
MapRace(l) ==
    /\ fol[l] \in {"got", "unmarked"} /\ WritesMapOf(l)
    /\ aborted' = "mapRace"
    /\ UNCHANGED <<pc, scenario, startVars, stopChan, mapVars, finished, scanVars,
                   fol, storeVars, clusterVars, discVars>>

(***************************************************************************)
(* AfterScenario and the executor's After hook.                            *)
(***************************************************************************)
\* The scenario's steps end (or one of them fails).
ScenarioEnds ==
    /\ pc = "body"
    /\ pc' = "after"
    /\ UNCHANGED <<scenario, startVars, stopChan, mapVars, finished, scanVars, fol,
                   storeVars, clusterVars, discVars, aborted>>

\* OperateOnNamespaceIfExists: the collector is only stopped when the namespace
\* exists and the cluster can be asked.
CheckNamespace ==
    /\ pc = "after"
    /\ \/ nsExists /\ pc' = "stop"
       \/ (~nsExists \/ ApiFails) /\ pc' = "rename"
    /\ UNCHANGED <<scenario, startVars, stopChan, mapVars, finished, scanVars, fol,
                   storeVars, clusterVars, discVars, aborted>>

\* StopPodLogCollector: isNamespaceMonitored
StopCheck ==
    /\ pc = "stop"
    /\ pc' = IF monitored THEN "sending" ELSE "rename"
    /\ UNCHANGED <<scenario, startVars, stopChan, mapVars, finished, scanVars, fol,
                   storeVars, clusterVars, discVars, aborted>>

\* Seeded fault: the collector's stop case leaves the select, not the loop.
StopHandshake_BreaksSelect ==
    /\ pc = "sending" /\ stopChan = "open" /\ col = "select"
    /\ pc' = "close"
    /\ UNCHANGED <<scenario, startVars, stopChan, mapVars, finished, scanVars, fol,
                   storeVars, clusterVars, discVars, aborted>>

\* stopMonitoring <- true: the channel has no buffer, so the send is received by
\* the collector's select, which returns.
StopHandshake ==
    /\ pc = "sending" /\ stopChan = "open" /\ col = "select"
    /\ pc' = "close"
    /\ col' = "exited"
    /\ UNCHANGED <<scenario, startVars, stopChan, mapVars, finished, scanTodo, curPod,
                   conTodo, curCon, fol, storeVars, clusterVars, discVars, aborted>>

\* A send on a closed channel panics.
SendOnClosed ==
    /\ pc = "sending" /\ stopChan = "closed"
    /\ aborted' = "panic"
    /\ UNCHANGED <<pc, scenario, startVars, stopChan, mapVars, finished, scanVars,
                   fol, storeVars, clusterVars, discVars>>

\* close(stopMonitoring), then the loops of storeUnfinishedContainersLog begin.
\* The entry stays in monitoredNamespaces.
CloseChannel ==
    /\ pc = "close"
    /\ stopChan' = "closed"
    /\ storeTodo' = conKeys
    /\ pc' = "store"
    /\ UNCHANGED <<scenario, startVars, mapVars, finished, scanVars, fol, curLog,
                   fetched, clusterVars, discVars, aborted>>

\* Seeded fault: a finished container ends the loop instead of being skipped.
StoreVisit_Returns(l) ==
    /\ pc = "store" /\ l \in storeTodo
    /\ storeTodo' = storeTodo \ {l}
    /\ IF l \in finished
       THEN pc' = "rename" /\ UNCHANGED curLog
       ELSE pc' = "get" /\ curLog' = l
    /\ UNCHANGED <<scenario, startVars, stopChan, mapVars, finished, scanVars, fol,
                   fetched, clusterVars, discVars, aborted>>

\* storeUnfinishedContainersLog and storeContainerLog: is l still unfinished?
StoreVisit(l) ==
    /\ pc = "store" /\ l \in storeTodo
    /\ storeTodo' = storeTodo \ {l}
    /\ IF l \in finished
       THEN UNCHANGED <<pc, curLog>>
       ELSE pc' = "get" /\ curLog' = l
    /\ UNCHANGED <<scenario, startVars, stopChan, mapVars, finished, scanVars, fol,
                   fetched, clusterVars, discVars, aborted>>

\* GetContainerLog: what the container has written so far.
StoreGet ==
    /\ pc = "get" /\ pod[curLog[1]] # "absent"
    /\ fetched' = IF pod[curLog[1]] = "running" THEN "partial" ELSE "full"
    /\ pc' = "mark"
    /\ UNCHANGED <<scenario, startVars, stopChan, mapVars, finished, scanVars, fol,
                   storeTodo, curLog, clusterVars, discVars, aborted>>

\* Seeded fault: no return after the error of GetContainerLog.
StoreGetFails_GoesOn ==
    /\ pc = "get" /\ ApiFails
    /\ pc' = "mark"
    /\ UNCHANGED <<scenario, startVars, stopChan, mapVars, finished, scanVars, fol,
                   storeVars, clusterVars, discVars, aborted>>

StoreGetFails ==
    /\ pc = "get" /\ ApiFails
    /\ curLog' = Nil
    /\ pc' = "store"
    /\ UNCHANGED <<scenario, startVars, stopChan, mapVars, finished, scanVars, fol,
                   storeTodo, fetched, clusterVars, discVars, aborted>>

\* markContainerLoggingAsFinished
StoreMark ==
    /\ pc = "mark"
    /\ finished' = finished \cup {curLog}
    /\ pc' = "write"
    /\ UNCHANGED <<scenario, startVars, stopChan, mapVars, scanVars, fol, storeVars,
                   clusterVars, discVars, aborted>>

\* writeLogIntoTheFile
StoreWrite ==
    /\ pc = "write"
    /\ disc' = IF folder THEN [disc EXCEPT ![curLog] = fetched] ELSE disc
    /\ curLog' = Nil /\ fetched' = "none"
    /\ pc' = "store"
    /\ UNCHANGED <<scenario, startVars, stopChan, mapVars, finished, scanVars, fol,
                   storeTodo, clusterVars, folder, aborted>>

\* StopPodLogCollector returns.
StoreDone ==
    /\ pc = "store" /\ storeTodo = {}
    /\ pc' = "rename"
    /\ UNCHANGED <<scenario, startVars, stopChan, mapVars, finished, scanVars, fol,
                   storeVars, clusterVars, discVars, aborted>>

\* handleScenarioResult: RenameLogFolder moves the folder and all its files away.
RenameFolder ==
    /\ pc = "rename"
    /\ folder' = FALSE
    /\ disc' = [l \in Logs |-> "none"]
    /\ pc' = "cleanup"
    /\ UNCHANGED <<scenario, startVars, stopChan, mapVars, finished, scanVars, fol,
                   storeVars, clusterVars, aborted>>

\* os.Rename fails, for instance on the folder that a scenario of the same name has left
\* in the same namespace; the error is logged, and the folder stays with its files.
RenameFails ==
    /\ pc = "rename"
    /\ pc' = "cleanup"
    /\ UNCHANGED <<scenario, startVars, stopChan, mapVars, finished, scanVars, fol,
                   storeVars, clusterVars, discVars, aborted>>

\* deleteNamespaceIfExists, unless the configuration keeps namespaces.
Cleanup ==
    /\ pc = "cleanup"
    /\ \/ /\ KeepNamespace \/ ApiFails
          /\ UNCHANGED clusterVars
       \/ /\ ~KeepNamespace
          /\ nsExists' = FALSE
          /\ pod' = [p \in Pods |-> "absent"]
    /\ pc' = IF scenario = Scenarios THEN "done" ELSE "before"
    /\ UNCHANGED <<scenario, startVars, stopChan, mapVars, finished, scanVars, fol,
                   storeVars, discVars, aborted>>
-----------------------------------------------------------------------------
Collector == \/ Tick \/ ScanDone \/ PutPodEnd \/ PutConEnd \/ PodDone
             \/ \E p \in Pods : PutPodBegin(p)
             \/ \E c \in Containers : PutConBegin(c)

Starter == StartCheck \/ StartCreateFolder \/ StartCreateFolderFails \/ StartStore

Follower(l) == \/ FollowReturns(l) \/ FollowFails(l) \/ FollowCheck(l)
               \/ FollowMark(l) \/ FollowWrite(l)

Stop == \/ StopCheck \/ SendOnClosed \/ CloseChannel
        \/ \E l \in Logs : StoreVisit(l)
        \/ StoreGet \/ StoreGetFails \/ StoreMark \/ StoreWrite \/ StoreDone

Hooks == \/ BeforeScenario \/ CheckNamespace \/ Stop \/ RenameFolder \/ RenameFails \/ Cleanup

Cluster == \/ CreateNamespace
           \/ \E p \in Pods : PodRuns(p) \/ PodTerminates(p)

Step == /\ aborted = "no" /\ pc # "done"
        /\ \/ Hooks \/ ScenarioEnds \/ StopHandshake
           \/ Starter \/ Collector \/ Cluster
           \/ \E l \in Logs : Follower(l) \/ MapRace(l)

\* The process has exited (os.Exit after the suite) or was aborted.
Terminated == /\ aborted # "no" \/ pc = "done"
              /\ UNCHANGED vars

Next == Step \/ Terminated

Spec == Init /\ [][Next]_vars

(***************************************************************************)
(* The scenario thread, the goroutines and the cluster's answers make      *)
(* progress; a scenario's steps end because every step has a timeout.  A   *)
(* select that is offered the stop signal again and again takes it (Go     *)
(* chooses among ready cases at random), hence the strong fairness.        *)
(***************************************************************************)
Alive(A) == aborted = "no" /\ pc # "done" /\ A

FairSpec ==
    /\ Spec
    /\ WF_vars(Alive(Hooks))
    /\ WF_vars(Alive(ScenarioEnds))
    /\ WF_vars(Alive(Collector))
    /\ WF_vars(Alive(Starter))
    /\ SF_vars(Alive(StopHandshake))
    /\ \A l \in Logs : WF_vars(Alive(Follower(l)))

(***************************************************************************)
(* Properties.                                                             *)
(***************************************************************************)

\* No thread sends on or closes a closed channel, and no follower looks up a
\* container that is not registered (stopNamespaceMonitoring,
\* isContainerLoggingFinished).
NoPanic == aborted # "panic"

\* A container is marked as finished only by a thread that has its log in hand
\* and goes on to write it: as long as the log folder is in place, the log of
\* a finished container is on disc or about to be written.
FinishedHasLog ==
    folder => \A l \in finished : \/ disc[l] # "none"
                                  \/ fol[l] = "claimed"
                                  \/ pc = "write" /\ curLog = l

\* When StopPodLogCollector returns and no call to the cluster failed, the log
\* of every container the collector registered is on disc, unless its follower
\* has marked it as finished and is still writing it.
LogsStoredOrClaimed ==
    pc = "rename" /\ stopChan = "closed" /\ ~ApiFails
        => \A l \in conKeys : disc[l] # "none" \/ fol[l] = "claimed"

\* Once the stop signal is received no scan registers a container any more, so
\* storeUnfinishedContainersLog iterates over maps that do not change.
MapsFrozenAfterStop ==
    [][(pc \in {"close", "store", "get", "mark", "write"}) => mapVars' = mapVars]_vars

\* AfterScenario returns: StopPodLogCollector waits for the collector's select,
\* which a scan in progress always comes back to.
AfterScenarioReturns ==
    pc = "after" ~> (pc \in {"before", "done"} \/ aborted # "no")
=============================================================================
