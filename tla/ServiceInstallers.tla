-------------------------- MODULE ServiceInstallers --------------------------
(***************************************************************************)
(* The registries of bddframework/pkg/installers/service_installer.go:     *)
(* installedNamespacedServices (namespace -> slice of installers) and      *)
(* installedClusterWideServices (a set), both sync.Map, used by scenarios  *)
(* that godog may run concurrently.                                        *)
(*                                                                         *)
(* A scenario installs services and creates custom resources, then its     *)
(* After hook runs UninstallServicesFromNamespace; when all scenarios are  *)
(* over, AfterSuite runs UninstallServicesFromCluster.  Each call on a     *)
(* sync.Map is one step; what happens between two calls is not atomic.     *)
(* A deployed service stands for what its YAML files or its subscription   *)
(* put in the cluster, running or not.                                     *)
(*                                                                         *)
(* The run keeps no namespaces (config.IsKeepNamespace() is false), as the *)
(* uninstallation is skipped otherwise.  A YAML cluster wide installer     *)
(* also starts and stops the pod log collector of its installation         *)
(* namespace, as in PodLogCollector, and records that namespace in the     *)
(* history: NamespaceHistory has these steps of Install and                *)
(* uninstallFromCluster.                                                   *)
(*                                                                         *)
(* What the installers do with the cluster differs in two ways that matter *)
(* here: whether an uninstallation that returns nil has removed the        *)
(* service (Reliable), and whether the resources of the service are listed *)
(* and so deleted and waited for (Listed).                                 *)
(***************************************************************************)
EXTENDS Naturals, Sequences, FiniteSets, SequencesExt

CONSTANTS Scenarios,     \* the concurrent scenarios
          Namespaces,
          NsOf,          \* the namespace of each scenario
          NsServices,    \* installers of namespaced services (YAML or OLM)
          CwServices,    \* installers of cluster wide services
          Reliable,      \* those that return an error when something is left; not
                         \* mongodb_installer.go:141, the deployment of the Hyperfoil
                         \* node scraper, the CRDs of Knative, an upgraded operator
          Listed,        \* those that list their resources; not SonataFlow, Postgres,
                         \* the node scraper and the Knative source of Kogito
          MaxInstalls,   \* bound: installations of each scenario
          Nil            \* no service

Services == NsServices \cup CwServices

ASSUME ConstAssumption ==
    /\ NsOf \in [Scenarios -> Namespaces]
    /\ NsServices \cap CwServices = {}
    /\ Nil \notin Services
    /\ Reliable \subseteq Services /\ Listed \subseteq Services
    /\ MaxInstalls \in [Scenarios -> Nat]

VARIABLES
    pc,          \* [Scenarios -> step]
    svc,         \* service the scenario is installing
    loaded,      \* slice its Install has read from the registry
    installs,    \* number of Install calls it made
    todo,        \* services the current loop has not visited
    notDeleted,  \* servicesNotDeleted
    ok,          \* success
    known,       \* namespaces with an entry in installedNamespacedServices
    reg,         \* the slice of each entry
    cwReg,       \* keys of installedClusterWideServices
    deployed,    \* namespaced services in the cluster, by namespace
    cwDeployed,  \* cluster wide services in the cluster
    cwInstalls,  \* how often each cluster wide service was installed
    crs,         \* custom resources of each service, by namespace
    suite,       \* UninstallServicesFromCluster
    suiteTodo, suiteDeleted, suiteOk

threadVars  == <<pc, svc, loaded, installs, todo, notDeleted, ok>>
regVars     == <<known, reg, cwReg>>
clusterVars == <<deployed, cwDeployed, cwInstalls, crs>>
suiteVars   == <<suite, suiteTodo, suiteDeleted, suiteOk>>
vars == <<threadVars, regVars, clusterVars, suiteVars>>

\* The loops of UninstallServicesFromNamespace, in their order.
Loops == {"cleanupCw", "cleanupNs", "waitCw", "waitNs", "uninstall"}

PcStates == {"body", "append", "deploy", "wait", "cwDeploy", "cwWait", "end",
             "store", "done"} \cup Loops

TypeOK ==
    /\ pc \in [Scenarios -> PcStates]
    /\ svc \in [Scenarios -> Services \cup {Nil}]
    /\ loaded \in [Scenarios -> Seq(NsServices)]
    /\ installs \in [Scenarios -> Nat]
    /\ todo \in [Scenarios -> Seq(Services)]
    /\ notDeleted \in [Scenarios -> Seq(NsServices)]
    /\ ok \in [Scenarios -> BOOLEAN]
    /\ known \in SUBSET Namespaces
    /\ reg \in [Namespaces -> Seq(NsServices)]
    /\ cwReg \in SUBSET CwServices
    /\ deployed \in [Namespaces -> SUBSET NsServices]
    /\ cwDeployed \in SUBSET CwServices
    /\ cwInstalls \in [CwServices -> Nat]
    /\ crs \in [Namespaces -> [Services -> {"none", "live", "deleting"}]]
    /\ suite \in {"idle", "uninstall", "remove", "done"}
    /\ suiteTodo \in SUBSET CwServices
    /\ suiteDeleted \in SUBSET CwServices
    /\ suiteOk \in BOOLEAN

Init ==
    /\ pc = [t \in Scenarios |-> "body"]
    /\ svc = [t \in Scenarios |-> Nil]
    /\ loaded = [t \in Scenarios |-> <<>>]
    /\ installs = [t \in Scenarios |-> 0]
    /\ todo = [t \in Scenarios |-> <<>>]
    /\ notDeleted = [t \in Scenarios |-> <<>>]
    /\ ok = [t \in Scenarios |-> TRUE]
    /\ known = {} /\ reg = [n \in Namespaces |-> <<>>] /\ cwReg = {}
    /\ deployed = [n \in Namespaces |-> {}]
    /\ cwDeployed = {} /\ cwInstalls = [c \in CwServices |-> 0]
    /\ crs = [n \in Namespaces |-> [s \in Services |-> "none"]]
    /\ suite = "idle" /\ suiteTodo = {} /\ suiteDeleted = {} /\ suiteOk = TRUE

\* Scenario t goes from one step to another.
Goto(t, from, to) == pc[t] = from /\ pc' = [pc EXCEPT ![t] = to]

(***************************************************************************)
(* Install of a namespaced service (Yaml- and OlmNamespacedServiceInstaller *)
(* do the same with different helpers).                                    *)
(***************************************************************************)
\* LoadOrStore(namespace, {installer})
NsLoadOrStore(t, s) ==
    /\ installs[t] < MaxInstalls[t]
    /\ installs' = [installs EXCEPT ![t] = @ + 1]
    /\ svc' = [svc EXCEPT ![t] = s]
    /\ IF NsOf[t] \in known
       THEN /\ Goto(t, "body", "append")
            /\ loaded' = [loaded EXCEPT ![t] = reg[NsOf[t]]]
            /\ UNCHANGED <<known, reg>>
       ELSE /\ Goto(t, "body", "deploy")
            /\ known' = known \cup {NsOf[t]}
            /\ reg' = [reg EXCEPT ![NsOf[t]] = <<s>>]
            /\ UNCHANGED loaded
    /\ UNCHANGED <<todo, notDeleted, ok, cwReg, clusterVars, suiteVars>>

\* Store(namespace, append(loaded, installer))
NsAppend(t) ==
    /\ Goto(t, "append", "deploy")
    /\ reg' = [reg EXCEPT ![NsOf[t]] = Append(loaded[t], svc[t])]
    /\ loaded' = [loaded EXCEPT ![t] = <<>>]
    /\ UNCHANGED <<svc, installs, todo, notDeleted, ok, known, cwReg, clusterVars, suiteVars>>

\* InstallNamespacedYaml, InstallOperator: an error may leave a part behind, and
\* ends the scenario.
NsDeploy(t) ==
    /\ \/ /\ Goto(t, "deploy", "wait")
          /\ deployed' = [deployed EXCEPT ![NsOf[t]] = @ \cup {svc[t]}]
       \/ /\ Goto(t, "deploy", "end")
          /\ \/ UNCHANGED deployed
             \/ deployed' = [deployed EXCEPT ![NsOf[t]] = @ \cup {svc[t]}]
    /\ UNCHANGED <<svc, loaded, installs, todo, notDeleted, ok, regVars, cwDeployed,
                   cwInstalls, crs, suiteVars>>

\* WaitForNamespacedServiceRunning, WaitForOperatorRunning: up, or a timeout.
NsWaitRunning(t) ==
    /\ \/ svc[t] \in deployed[NsOf[t]] /\ Goto(t, "wait", "body")
       \/ Goto(t, "wait", "end")
    /\ UNCHANGED <<svc, loaded, installs, todo, notDeleted, ok, regVars, clusterVars, suiteVars>>

(***************************************************************************)
(* Install of a cluster wide service.                                      *)
(***************************************************************************)
\* Mutants of CwLoadOrStore: every Install deploys; the slice of the namespace
\* gets the installer.
CwLoadOrStore_AlwaysDeploys(t, c) ==
    /\ installs[t] < MaxInstalls[t]
    /\ installs' = [installs EXCEPT ![t] = @ + 1]
    /\ svc' = [svc EXCEPT ![t] = c]
    /\ Goto(t, "body", "cwDeploy")
    /\ cwReg' = cwReg \cup {c}
    /\ UNCHANGED <<loaded, todo, notDeleted, ok, known, reg, clusterVars, suiteVars>>

CwLoadOrStore_InNamespace(t, c) ==
    /\ installs[t] < MaxInstalls[t]
    /\ installs' = [installs EXCEPT ![t] = @ + 1]
    /\ svc' = [svc EXCEPT ![t] = c]
    /\ Goto(t, "body", "cwDeploy")
    /\ reg' = [reg EXCEPT ![NsOf[t]] = Append(@, c)]
    /\ UNCHANGED <<loaded, todo, notDeleted, ok, known, cwReg, clusterVars, suiteVars>>

\* LoadOrStore(installer, true): whoever finds it stored only waits for it.
CwLoadOrStore(t, c) ==
    /\ installs[t] < MaxInstalls[t]
    /\ installs' = [installs EXCEPT ![t] = @ + 1]
    /\ svc' = [svc EXCEPT ![t] = c]
    /\ Goto(t, "body", IF c \in cwReg THEN "cwWait" ELSE "cwDeploy")
    /\ cwReg' = cwReg \cup {c}
    /\ UNCHANGED <<loaded, todo, notDeleted, ok, known, reg, clusterVars, suiteVars>>

CwDeploy(t) ==
    /\ cwInstalls' = [cwInstalls EXCEPT ![svc[t]] = @ + 1]
    /\ \/ Goto(t, "cwDeploy", "cwWait") /\ cwDeployed' = cwDeployed \cup {svc[t]}
       \/ /\ Goto(t, "cwDeploy", "end")
          /\ \/ UNCHANGED cwDeployed
             \/ cwDeployed' = cwDeployed \cup {svc[t]}
    /\ UNCHANGED <<svc, loaded, installs, todo, notDeleted, ok, regVars, deployed, crs,
                   suiteVars>>

CwWaitRunning(t) ==
    /\ \/ svc[t] \in cwDeployed /\ Goto(t, "cwWait", "body")
       \/ Goto(t, "cwWait", "end")
    /\ UNCHANGED <<svc, loaded, installs, todo, notDeleted, ok, regVars, clusterVars, suiteVars>>

(***************************************************************************)
(* The scenario's own steps: it uses the services, then it ends.           *)
(***************************************************************************)
CreateCr(t, s) ==
    /\ pc[t] = "body"
    /\ s \in deployed[NsOf[t]] \cup cwDeployed
    /\ crs' = [crs EXCEPT ![NsOf[t]][s] = "live"]
    /\ UNCHANGED <<threadVars, regVars, deployed, cwDeployed, cwInstalls, suiteVars>>

EndBody(t) ==
    /\ Goto(t, "body", "end")
    /\ UNCHANGED <<svc, loaded, installs, todo, notDeleted, ok, regVars, clusterVars, suiteVars>>

\* The cluster removes a deleted resource once its finalizers have run.
CrRemoved(n, s) ==
    /\ crs[n][s] = "deleting"
    /\ crs' = [crs EXCEPT ![n][s] = "none"]
    /\ UNCHANGED <<threadVars, regVars, deployed, cwDeployed, cwInstalls, suiteVars>>

(***************************************************************************)
(* UninstallServicesFromNamespace: five loops, then the registry is        *)
(* overwritten.  A loop reads its list when it starts (the order in which  *)
(* sync.Map.Range visits its keys is unspecified).                         *)
(***************************************************************************)
\* The list a loop runs over.
LoopList(t, loop) == IF loop \in {"cleanupCw", "waitCw"} THEN SetToSeqs(cwReg)
                                                         ELSE {reg[NsOf[t]]}

\* Mutant of NextLoop: services are removed before the waits.
NextLoop_UninstallsFirst(loop) == CASE loop = "end"       -> "cleanupCw"
                                    [] loop = "cleanupCw" -> "cleanupNs"
                                    [] loop = "cleanupNs" -> "uninstall"
                                    [] loop = "uninstall" -> "waitCw"
                                    [] loop = "waitCw"    -> "waitNs"
                                    [] loop = "waitNs"    -> "store"

NextLoop(loop) == CASE loop = "end"       -> "cleanupCw"
                    [] loop = "cleanupCw" -> "cleanupNs"
                    [] loop = "cleanupNs" -> "waitCw"
                    [] loop = "waitCw"    -> "waitNs"
                    [] loop = "waitNs"    -> "uninstall"
                    [] loop = "uninstall" -> "store"

\* A loop is over (or the scenario is): the next one reads its list.
EnterLoop(t) ==
    /\ pc[t] \in {"end"} \cup Loops /\ todo[t] = <<>>
    /\ LET next == NextLoop(pc[t]) IN
       /\ Goto(t, pc[t], next)
       /\ \E list \in IF next = "store" THEN {<<>>} ELSE LoopList(t, next) :
             todo' = [todo EXCEPT ![t] = list]
    /\ UNCHANGED <<svc, loaded, installs, notDeleted, ok, regVars, clusterVars, suiteVars>>

\* The service a loop visits.
Visit(t, loops, s) ==
    /\ pc[t] \in loops /\ todo[t] # <<>> /\ s = Head(todo[t])
    /\ todo' = [todo EXCEPT ![t] = Tail(@)]
    /\ UNCHANGED <<pc, svc, loaded, installs, regVars, suiteVars>>

Fails(t) == ok' = [ok EXCEPT ![t] = FALSE]

\* cleanupCrsInNamespace: deletes the resources it lists, or stops at an error.
CleanupCrs(t, s) ==
    /\ Visit(t, {"cleanupCw", "cleanupNs"}, s)
    /\ \/ /\ s \in Listed
          /\ crs' = [crs EXCEPT ![NsOf[t]][s] = IF @ = "live" THEN "deleting" ELSE @]
          /\ UNCHANGED ok
       \/ s \in Listed /\ Fails(t) /\ UNCHANGED crs
       \/ s \notin Listed /\ UNCHANGED <<ok, crs>>
    /\ UNCHANGED <<notDeleted, deployed, cwDeployed, cwInstalls>>

\* Mutants of WaitCrsRemoved: a timeout is no failure; there is no timeout.
WaitCrsRemoved_TimeoutIgnored(t, s) ==
    /\ Visit(t, {"waitCw", "waitNs"}, s)
    /\ UNCHANGED <<ok, notDeleted, clusterVars>>

WaitCrsRemoved_Forever(t, s) ==
    /\ Visit(t, {"waitCw", "waitNs"}, s)
    /\ crs[NsOf[t]][s] = "none"
    /\ UNCHANGED <<ok, notDeleted, clusterVars>>

\* waitForAllCrsRemoval: none is listed, or the timeout elapses while one is (or
\* while they cannot be listed).
WaitCrsRemoved(t, s) ==
    /\ Visit(t, {"waitCw", "waitNs"}, s)
    /\ \/ (s \in Listed => crs[NsOf[t]][s] = "none") /\ UNCHANGED ok
       \/ s \in Listed /\ Fails(t)
    /\ UNCHANGED <<notDeleted, clusterVars>>

\* uninstallFromNamespace: a service that is not there (any more) may or may not
\* be an error, depending on the installer; an error may come after the removal,
\* and some installers report success with the service still there.
UninstallFromNamespace(t, s) ==
    /\ Visit(t, {"uninstall"}, s)
    /\ \/ /\ \/ deployed' = [deployed EXCEPT ![NsOf[t]] = @ \ {s}]
             \/ s \notin Reliable /\ UNCHANGED deployed
          /\ UNCHANGED <<notDeleted, ok>>
       \/ /\ notDeleted' = [notDeleted EXCEPT ![t] = Append(@, s)]
          /\ Fails(t)
          /\ \/ UNCHANGED deployed
             \/ deployed' = [deployed EXCEPT ![NsOf[t]] = @ \ {s}]
    /\ UNCHANGED <<cwDeployed, cwInstalls, crs>>

\* Mutant of StoreNotDeleted: the list is emptied.
StoreNotDeleted_Clears(t) ==
    /\ Goto(t, "store", "done")
    /\ known' = known \cup {NsOf[t]}
    /\ reg' = [reg EXCEPT ![NsOf[t]] = <<>>]
    /\ UNCHANGED <<svc, loaded, installs, todo, notDeleted, ok, cwReg, clusterVars, suiteVars>>

\* "Add not removed services back to the list"
StoreNotDeleted(t) ==
    /\ Goto(t, "store", "done")
    /\ known' = known \cup {NsOf[t]}
    /\ reg' = [reg EXCEPT ![NsOf[t]] = notDeleted[t]]
    /\ UNCHANGED <<svc, loaded, installs, todo, notDeleted, ok, cwReg, clusterVars, suiteVars>>

(***************************************************************************)
(* UninstallServicesFromCluster, in AfterSuite.                            *)
(***************************************************************************)
SuiteBegin ==
    /\ suite = "idle" /\ \A t \in Scenarios : pc[t] = "done"
    /\ suite' = "uninstall"
    /\ suiteTodo' = cwReg
    /\ UNCHANGED <<threadVars, regVars, clusterVars, suiteDeleted, suiteOk>>

\* Mutant of UninstallFromCluster: an error is only logged.
UninstallFromCluster_ErrorIgnored(c) ==
    /\ suite = "uninstall" /\ c \in suiteTodo
    /\ suiteTodo' = suiteTodo \ {c}
    /\ \/ cwDeployed' = cwDeployed \ {c} /\ suiteDeleted' = suiteDeleted \cup {c}
       \/ UNCHANGED <<cwDeployed, suiteDeleted>>
    /\ UNCHANGED <<threadVars, regVars, deployed, cwInstalls, crs, suite, suiteOk>>

UninstallFromCluster(c) ==
    /\ suite = "uninstall" /\ c \in suiteTodo
    /\ suiteTodo' = suiteTodo \ {c}
    /\ \/ /\ \/ cwDeployed' = cwDeployed \ {c}
             \/ c \notin Reliable /\ UNCHANGED cwDeployed
          /\ suiteDeleted' = suiteDeleted \cup {c}
          /\ UNCHANGED suiteOk
       \/ /\ suiteOk' = FALSE
          /\ \/ UNCHANGED cwDeployed
             \/ cwDeployed' = cwDeployed \ {c}   \* an error after the removal
          /\ UNCHANGED suiteDeleted
    /\ UNCHANGED <<threadVars, regVars, deployed, cwInstalls, crs, suite>>

\* "Remove deleted services from list": the loop deletes the positions of the
\* deleted services, which are no keys of the map, so that the map is unchanged.
RemoveDeleted ==
    /\ suite = "uninstall" /\ suiteTodo = {}
    /\ suite' = "done"
    /\ UNCHANGED <<threadVars, regVars, clusterVars, suiteTodo, suiteDeleted, suiteOk>>
-----------------------------------------------------------------------------
Install(t) == \/ \E s \in NsServices : NsLoadOrStore(t, s)
              \/ \E c \in CwServices : CwLoadOrStore(t, c)
              \/ NsAppend(t) \/ NsDeploy(t) \/ NsWaitRunning(t)
              \/ CwDeploy(t) \/ CwWaitRunning(t)

Uninstall(t) == \/ EnterLoop(t) \/ StoreNotDeleted(t)
                \/ \E s \in Services : \/ CleanupCrs(t, s) \/ WaitCrsRemoved(t, s)
                \/ \E s \in NsServices : UninstallFromNamespace(t, s)

UninstallSuite == SuiteBegin \/ RemoveDeleted
                  \/ \E c \in CwServices : UninstallFromCluster(c)

Cluster == \E n \in Namespaces, s \in Services : CrRemoved(n, s)

Terminated == suite = "done" /\ UNCHANGED vars

Next == \/ \E t \in Scenarios : \/ Install(t) \/ EndBody(t) \/ Uninstall(t)
                                \/ \E s \in Services : CreateCr(t, s)
        \/ UninstallSuite
        \/ Cluster
        \/ Terminated

Spec == Init /\ [][Next]_vars

\* Every call returns (the waits have timeouts) and every scenario ends.
FairSpec == /\ Spec
            /\ \A t \in Scenarios : /\ WF_vars(Install(t) \/ Uninstall(t))
                                    /\ WF_vars(EndBody(t))
            /\ WF_vars(UninstallSuite)

(***************************************************************************)
(* Properties.                                                             *)
(***************************************************************************)
\* No two scenarios use the same namespace: the rule unless the configuration
\* sets namespace_name.
OwnNamespaces == \A t, u \in Scenarios : NsOf[t] = NsOf[u] => t = u

\* A namespaced service that is in the cluster is registered for its namespace,
\* so that UninstallServicesFromNamespace tries to remove it; it stays so after
\* a removal that returned an error ("Store service installer for namespace to
\* use for uninstalling purposes", "Add not removed services back to the list").
\* What is forgotten at the end has reported a removal it did not make.
Tracked ==
    \A t \in Scenarios :
        deployed[NsOf[t]] \subseteq ToSet(reg[NsOf[t]])
            \cup (IF pc[t] = "done" THEN Services \ Reliable ELSE {})

\* A cluster wide service is installed at most once, however many scenarios ask
\* for it at the same time (LoadOrStore).
InstalledOnce == \A c \in CwServices : cwInstalls[c] <= 1

\* A namespaced service is uninstalled only when none of the resources it lists
\* is left, or after a cleanup or a wait has failed: its operator runs the
\* finalizers.
OperatorOutlivesResources ==
    [][\A t \in Scenarios : \A s \in Listed \cap (deployed[NsOf[t]] \ deployed'[NsOf[t]]) :
          crs[NsOf[t]][s] = "none" \/ ~ok[t]]_vars

\* UninstallServicesFromNamespace returns true only when the list is empty, the
\* namespace has no service but of installers that report a removal they did not
\* make, and no resource but of installers that list none.
SuccessMeansClean ==
    \A t \in Scenarios : pc[t] = "done" /\ ok[t] =>
        /\ reg[NsOf[t]] = <<>> /\ deployed[NsOf[t]] \cap Reliable = {}
        /\ \A s \in Listed : crs[NsOf[t]][s] = "none"

\* UninstallServicesFromCluster returns true only when no cluster wide service
\* is left, failed installations included, but of such installers.
SuiteSuccessMeansClean == suite = "done" /\ suiteOk => cwDeployed \cap Reliable = {}

\* The suite ends, whatever fails.
SuiteEnds == <>(suite = "done")

(***************************************************************************)
(* What comments of service_installer.go say and the code does not ensure. *)
(***************************************************************************)
\* "Remove deleted services from list"
DeletedServicesForgotten == suite = "done" => cwReg \cap suiteDeleted = {}
=============================================================================
