---------------------------- MODULE OlmOperators ----------------------------
(***************************************************************************)
(* Operators installed through the Operator Lifecycle Manager (OLM):       *)
(* the OLM installers of bddframework/pkg/installers/service_installer.go  *)
(* on pkg/framework/operator.go and subscription.go.  The users, scenarios *)
(* that run concurrently, install one operator                             *)
(*   - in a namespace they share, and uninstall it each at its own end, or *)
(*   - cluster wide, where the registry lets only the first one create the *)
(*     subscription, and the suite uninstalls it when all of them are over.*)
(*                                                                         *)
(* A subscription is fetched, created and deleted by its name, but looked  *)
(* up by package and catalog source.  So there are two places for one: the *)
(* name the tests use, where somebody else's may stand, even of another    *)
(* catalog, and another name.                                              *)
(*                                                                         *)
(* Every call of the API server is a step of its own, and may fail.  What  *)
(* OLM does between them, upgrades included, is external, and so are the   *)
(* subscriptions of others, which come at any time; nobody but the tests   *)
(* deletes one.                                                            *)
(***************************************************************************)
EXTENDS Integers, FiniteSets

CONSTANTS Users,         \* scenarios
          Scopes,        \* subset of {"namespaced", "cluster"}
          MaxVersion     \* versions of the operator in its channel

ASSUME ConstAssumption ==
    /\ IsFiniteSet(Users) /\ Users # {}
    /\ Scopes \subseteq {"namespaced", "cluster"}
    /\ MaxVersion \in Nat \ {0}

Versions == 1 .. MaxVersion
Names    == {"own", "other"}

VARIABLES
    scope,           \* what is installed
    single,          \* the operator has one deployment, not several
    loaded,          \* installedClusterWideServices has the installer
    group,           \* the OperatorGroup
    sub,             \* [Names -> Subscription]
    csv,             \* [Versions -> ClusterServiceVersion, or its InstallPlan]
    workload,        \* the deployments: the CSV in their label, and availability
    pc,              \* [Users -> where the scenario is]
    seen             \* [Users -> CSV its call has read in a subscription, 0 for none]

olm  == <<group, sub, csv, workload>>
user == <<pc, seen>>
vars == <<scope, single, loaded, olm, user>>

Installing   == {"fetchGroup", "createGroup", "waitGroup", "fetchSub", "createSub",
                 "pollSub", "pollDeployments", "pollErrors"}
Uninstalling == {"getSub", "deleteSub", "fetchCsv", "deleteCsv"}
Over         == {"running", "failed", "conflict"}   \* conflict: with another one
Ended        == {"removed", "notRemoved"}

\* "bdd" has our label; "foreign" is for the same package and catalog without it;
\* "elsewhere" only has the name.
Owners == {"nobody", "bdd", "foreign", "elsewhere"}

\* A Subscription; current and installed are CurrentCSV and InstalledCSV.
Subscription(o, c, i) == [owner |-> o, current |-> c, installed |-> i]
NoSubscription == Subscription("nobody", 0, 0)

TypeOK ==
    /\ scope \in Scopes
    /\ single \in BOOLEAN
    /\ loaded \in {"no", "yes"}
    /\ group \in {"absent", "created", "ready"}
    /\ sub \in [Names -> [owner : Owners, current : 0 .. MaxVersion, installed : 0 .. MaxVersion]]
    /\ \A n \in Names : sub[n].owner \in {"nobody", "elsewhere"} => sub[n].current = 0
    /\ sub["other"].owner \in {"nobody", "foreign"}
    /\ csv \in [Versions -> {"absent", "planned", "present"}]
    /\ workload \in [of : 0 .. MaxVersion, available : BOOLEAN]
    /\ workload.available => workload.of # 0
    /\ pc \in [Users -> {"idle"} \cup Installing \cup Over \cup Uninstalling \cup Ended]
    /\ seen \in [Users -> 0 .. MaxVersion]

NoWorkload == [of |-> 0, available |-> FALSE]

\* A CSV may be left from a run whose uninstallation failed.
Init ==
    /\ scope \in Scopes
    /\ single \in BOOLEAN
    /\ loaded = "no"
    /\ group = "absent"
    /\ sub = [n \in Names |-> NoSubscription]
    /\ csv \in [Versions -> {"absent", "present"}]
    /\ \A v, w \in Versions : csv[v] = "present" /\ csv[w] = "present" => v = w
    /\ workload = NoWorkload
    /\ pc = [u \in Users |-> "idle"]
    /\ seen = [u \in Users |-> 0]

Goto(u, from, to) == pc[u] = from /\ pc' = [pc EXCEPT ![u] = to]

\* What it has read is forgotten when the call returns.
Read(u, version) == seen' = [seen EXCEPT ![u] = version]
Forget(u) == Read(u, 0)

\* What getSubscription may return: any subscription of the package and the catalog.
Found == {n \in Names : sub[n].owner \in {"bdd", "foreign"}}

(***************************************************************************)
(* Cluster (external).                                                     *)
(***************************************************************************)

GroupReady ==
    /\ group = "created" /\ group' = "ready"
    /\ UNCHANGED <<scope, single, loaded, sub, csv, workload, user>>

\* Somebody else subscribes, to the same operator or, under our name, to another.
ForeignSubscribes(n) ==
    /\ sub[n].owner = "nobody"
    /\ \E o \in IF n = "own" THEN {"foreign", "elsewhere"} ELSE {"foreign"} :
          sub' = [sub EXCEPT ![n] = Subscription(o, 0, 0)]
    /\ UNCHANGED <<scope, single, loaded, group, csv, workload, user>>

\* The resolver chooses a version, unless another subscription has one or a CSV
\* without a subscription is in the way.
Resolve(n, v) ==
    /\ n \in Found /\ \A m \in Names : sub[m].current = 0
    /\ \A w \in Versions : csv[w] = "absent"
    /\ sub' = [sub EXCEPT ![n].current = v]
    /\ csv' = [csv EXCEPT ![v] = "planned"]
    /\ UNCHANGED <<scope, single, loaded, group, workload, user>>

\* The channel has moved: the subscription names the new CSV before it is there.
Upgrade(n, v) ==
    /\ n \in Found
    /\ sub[n].current # 0 /\ sub[n].installed = sub[n].current /\ v > sub[n].current
    /\ csv[sub[n].current] = "present"
    /\ sub' = [sub EXCEPT ![n].current = v]
    /\ csv' = [csv EXCEPT ![v] = "planned"]
    /\ UNCHANGED <<scope, single, loaded, group, workload, user>>

\* The install plan is executed, also when its subscription is deleted.
InstallCsv(v) ==
    /\ csv[v] = "planned"
    /\ csv' = [csv EXCEPT ![v] = "present"]
    /\ UNCHANGED <<scope, single, loaded, group, sub, workload, user>>

\* A CSV replaces the ones before it.
Replace(v) ==
    /\ csv[v] = "present" /\ \E w \in Versions : w > v /\ csv[w] = "present"
    /\ csv' = [csv EXCEPT ![v] = "absent"]
    /\ UNCHANGED <<scope, single, loaded, group, sub, workload, user>>

\* The status of the subscription gets the InstalledCSV.
SetInstalled(n) ==
    /\ n \in Found /\ sub[n].current # 0 /\ sub[n].installed # sub[n].current
    /\ csv[sub[n].current] = "present"
    /\ sub' = [sub EXCEPT ![n].installed = sub[n].current]
    /\ UNCHANGED <<scope, single, loaded, group, csv, workload, user>>

\* Deployments come with a CSV, which may take over those of an older one, and are
\* collected without it; their pods come and go.
Deploy ==
    /\ \/ \E v \in Versions : /\ v > workload.of /\ csv[v] = "present"
                              /\ workload' = [of |-> v, available |-> FALSE]
       \/ /\ workload.of # 0
          /\ IF csv[workload.of] = "present"
             THEN workload' = [workload EXCEPT !.available = ~@]
             ELSE workload' = NoWorkload
    /\ UNCHANGED <<scope, single, loaded, group, sub, csv, user>>

Olm == \/ GroupReady \/ Deploy
       \/ \E n \in Names : ForeignSubscribes(n) \/ SetInstalled(n)
       \/ \E n \in Names, v \in Versions : Resolve(n, v) \/ Upgrade(n, v)
       \/ \E v \in Versions : InstallCsv(v) \/ Replace(v)

(***************************************************************************)
(* Installation.                                                           *)
(***************************************************************************)

\* Seeded fault: the registry is only told of the installer, not asked.
Start_NotAsked(u) ==
    /\ Goto(u, "idle", IF scope = "namespaced" THEN "fetchGroup" ELSE "fetchSub")
    /\ loaded' = IF scope = "cluster" THEN "yes" ELSE loaded
    /\ UNCHANGED <<scope, single, olm, seen>>

\* Install of the two OLM installers: LoadOrStore, and what comes first.
Start(u) ==
    /\ Goto(u, "idle", IF scope = "namespaced" THEN "fetchGroup"
                       ELSE IF loaded = "yes" THEN "pollSub" ELSE "fetchSub")
    /\ loaded' = IF scope = "cluster" THEN "yes" ELSE loaded
    /\ UNCHANGED <<scope, single, olm, seen>>

\* CreateIfNotExists is two calls; a failure of either ends the installation.
FetchGroup(u) ==
    /\ Goto(u, "fetchGroup", IF group = "absent" THEN "createGroup" ELSE "waitGroup")
    /\ UNCHANGED <<scope, single, loaded, olm, seen>>

CreateGroup(u) ==
    /\ IF group = "absent"
       THEN Goto(u, "createGroup", "waitGroup") /\ group' = "created"
       ELSE Goto(u, "createGroup", "conflict") /\ UNCHANGED group
    /\ UNCHANGED <<scope, single, loaded, sub, csv, workload, seen>>

\* The condition of WaitForOperatorGroup; an error is the same as false.
GroupIsReady(u) ==
    /\ group = "ready"
    /\ Goto(u, "waitGroup", "fetchSub")
    /\ UNCHANGED <<scope, single, loaded, olm, seen>>

\* By name, whoever's it is.
FetchSub(u) ==
    /\ Goto(u, "fetchSub", IF sub["own"].owner = "nobody" THEN "createSub" ELSE "pollSub")
    /\ UNCHANGED <<scope, single, loaded, olm, seen>>

\* The name may have been taken meanwhile, by the tests or by somebody else.
CreateSub(u) ==
    /\ IF sub["own"].owner = "nobody"
       THEN /\ Goto(u, "createSub", "pollSub")
            /\ sub' = [sub EXCEPT !["own"] = Subscription("bdd", 0, 0)]
       ELSE /\ Goto(u, "createSub", IF sub["own"].owner = "bdd" THEN "conflict" ELSE "failed")
            /\ UNCHANGED sub
    /\ UNCHANGED <<scope, single, loaded, group, csv, workload, seen>>

InstallCallFails(u) ==
    /\ \E from \in {"fetchGroup", "createGroup", "fetchSub", "createSub"} : Goto(u, from, "failed")
    /\ UNCHANGED <<scope, single, loaded, olm, seen>>

(***************************************************************************)
(* WaitForOperatorRunning.                                                 *)
(***************************************************************************)

\* The condition, first half: a subscription and its CurrentCSV.
PollSub(u) ==
    /\ \/ \E n \in Found : /\ sub[n].current # 0
                           /\ Goto(u, "pollSub", "pollDeployments")
                           /\ Read(u, sub[n].current)
       \/ /\ Found = {} \/ \E n \in Found : sub[n].current = 0
          /\ Goto(u, "pollSub", "pollErrors")
          /\ UNCHANGED seen
    /\ UNCHANGED <<scope, single, loaded, olm>>

\* Seeded fault: no deployment is as good as several.
DeploymentsAccepted_None(v) == workload.of = v => (workload.available \/ ~single)

\* A single deployment must be available; of several no state is asked.
DeploymentsAccepted(v) == workload.of = v /\ (workload.available \/ ~single)

\* Second half: the deployments labelled with the CSV.
PollDeployments(u) ==
    /\ Goto(u, "pollDeployments",
            IF DeploymentsAccepted(seen[u]) THEN "running" ELSE "pollErrors")
    /\ Forget(u)
    /\ UNCHANGED <<scope, single, loaded, olm>>

\* The error condition, which reads a subscription again: the resolver may have put
\* a failure on it, and takes it away at any time.
PollErrors(u) ==
    /\ \/ Found # {} /\ Goto(u, "pollErrors", "failed")
       \/ Goto(u, "pollErrors", "pollSub")
    /\ UNCHANGED <<scope, single, loaded, olm, seen>>

\* WaitFor logs an error and goes on.
PollCallFails(u) ==
    /\ \/ Goto(u, "pollSub", "pollErrors")
       \/ Goto(u, "pollDeployments", "pollErrors")
       \/ Goto(u, "pollErrors", "pollSub")
    /\ Forget(u)
    /\ UNCHANGED <<scope, single, loaded, olm>>

\* Seeded fault: only the wait for the group is limited.
Timeout_GroupOnly(u) ==
    /\ Goto(u, "waitGroup", "failed")
    /\ UNCHANGED <<scope, single, loaded, olm, seen>>

\* WaitFor's timer
Timeout(u) ==
    /\ Goto(u, "waitGroup", "failed") \/ Goto(u, "pollSub", "failed")
    /\ UNCHANGED <<scope, single, loaded, olm, seen>>

(***************************************************************************)
(* Uninstallation.                                                         *)
(***************************************************************************)

\* Seeded fault: another try goes on with the subscription that the first one read.
Uninstall_StaleSubscription(u) ==
    /\ \/ scope = "namespaced" /\ pc[u] \in Over \cup {"notRemoved"}
       \/ scope = "cluster" /\ \A v \in Users : pc[v] \in Over
    /\ pc' = [pc EXCEPT ![u] = IF @ = "notRemoved" THEN "deleteSub" ELSE "getSub"]
    /\ UNCHANGED <<scope, single, loaded, olm, seen>>

\* UninstallServicesFromNamespace, which keeps the installer for another try if it
\* fails, or UninstallServicesFromCluster, once, when no scenario runs any more.
Uninstall(u) ==
    /\ \/ scope = "namespaced" /\ pc[u] \in Over \cup {"notRemoved"}
       \/ scope = "cluster" /\ \A v \in Users : pc[v] \in Over
    /\ pc' = [pc EXCEPT ![u] = "getSub"]
    /\ UNCHANGED <<scope, single, loaded, olm, seen>>

\* GetSubscription, the InstalledCSV, and the label that DeleteSubscription looks at:
\* a subscription without it is left as it is, and that is no error.
GetSub(u) ==
    /\ \/ Found = {} /\ Goto(u, "getSub", "notRemoved") /\ UNCHANGED seen
       \/ \E n \in Found :
             \/ /\ sub[n].owner = "bdd"
                /\ Goto(u, "getSub", "deleteSub") /\ Read(u, sub[n].installed)
             \/ /\ sub[n].owner # "bdd"
                /\ Goto(u, "getSub", "removed") /\ UNCHANGED seen
    /\ UNCHANGED <<scope, single, loaded, olm>>

\* By name, whoever's it is now.
DeleteSub(u) ==
    /\ \/ /\ sub["own"].owner = "nobody"
          /\ Goto(u, "deleteSub", "notRemoved") /\ Forget(u) /\ UNCHANGED sub
       \/ /\ sub["own"].owner # "nobody"
          /\ Goto(u, "deleteSub", "fetchCsv") /\ UNCHANGED seen
          /\ sub' = [sub EXCEPT !["own"] = NoSubscription]
    /\ UNCHANGED <<scope, single, loaded, group, csv, workload>>

\* Seeded fault: without an InstalledCSV there is nothing to delete.
FetchCsv_NothingInstalled(u) ==
    /\ \/ /\ seen[u] # 0 => csv[seen[u]] # "present"
          /\ Goto(u, "fetchCsv", "removed") /\ Forget(u)
       \/ /\ seen[u] # 0 /\ csv[seen[u]] = "present"
          /\ Goto(u, "fetchCsv", "deleteCsv") /\ UNCHANGED seen
    /\ UNCHANGED <<scope, single, loaded, olm>>

\* The API server refuses a request without a name.
FetchCsv(u) ==
    /\ \/ seen[u] = 0 /\ Goto(u, "fetchCsv", "notRemoved") /\ Forget(u)
       \/ /\ seen[u] # 0 /\ csv[seen[u]] # "present"
          /\ Goto(u, "fetchCsv", "removed") /\ Forget(u)
       \/ /\ seen[u] # 0 /\ csv[seen[u]] = "present"
          /\ Goto(u, "fetchCsv", "deleteCsv") /\ UNCHANGED seen
    /\ UNCHANGED <<scope, single, loaded, olm>>

\* Seeded fault: the deployments go at once, and are still counted as available.
DeleteCsv_Cascade(u) ==
    /\ Goto(u, "deleteCsv", "removed") /\ Forget(u)
    /\ csv[seen[u]] = "present"
    /\ csv' = [csv EXCEPT ![seen[u]] = "absent"]
    /\ workload' = [workload EXCEPT !.of = 0]
    /\ UNCHANGED <<scope, single, loaded, group, sub>>

DeleteCsv(u) ==
    /\ \/ /\ Goto(u, "deleteCsv", "removed")
          /\ csv[seen[u]] = "present" /\ csv' = [csv EXCEPT ![seen[u]] = "absent"]
       \/ /\ Goto(u, "deleteCsv", "notRemoved")
          /\ csv[seen[u]] # "present" /\ UNCHANGED csv
    /\ Forget(u)
    /\ UNCHANGED <<scope, single, loaded, group, sub, workload>>

UninstallCallFails(u) ==
    /\ \E from \in Uninstalling : Goto(u, from, "notRemoved")
    /\ Forget(u)
    /\ UNCHANGED <<scope, single, loaded, olm>>

(***************************************************************************)
(* Specification.                                                          *)
(***************************************************************************)

Install(u) == \/ Start(u) \/ FetchGroup(u) \/ CreateGroup(u) \/ GroupIsReady(u)
              \/ FetchSub(u) \/ CreateSub(u) \/ InstallCallFails(u)

WaitRunning(u) == PollSub(u) \/ PollDeployments(u) \/ PollErrors(u) \/ PollCallFails(u)

Remove(u) == \/ GetSub(u) \/ DeleteSub(u) \/ FetchCsv(u) \/ DeleteCsv(u)
             \/ UninstallCallFails(u)

Terminated == (\A u \in Users : pc[u] \in Over \cup Ended) /\ UNCHANGED vars

Next ==
    \/ Olm
    \/ \E u \in Users : Install(u) \/ WaitRunning(u) \/ Timeout(u) \/ Uninstall(u) \/ Remove(u)
    \/ Terminated

Spec == Init /\ [][Next]_vars

\* Goroutines go on, and a select that is reached again and again does not pass
\* over its timer for ever.  Nothing is assumed of OLM.
FairSpec ==
    /\ Spec
    /\ \A u \in Users : /\ WF_vars(Install(u) \/ WaitRunning(u) \/ Remove(u))
                        /\ SF_vars(Timeout(u))

(***************************************************************************)
(* Properties.                                                             *)
(***************************************************************************)

\* No scenario but this one uses the operator's namespace (until now).
Unshared(u) == scope = "cluster" \/ \A v \in Users \ {u} : pc[v] = "idle"

\* The subscriptions of others, and the CSVs they name, stay as they are.
ForeignsStay ==
    \A n \in Names : sub[n].owner \in {"foreign", "elsewhere"} =>
        /\ sub'[n] = sub[n]
        /\ sub[n].current # 0 => csv'[sub[n].current] = csv[sub[n].current]

\* An uninstallation deletes by name what it has looked up by package and label some
\* calls before: no subscription that somebody else creates meanwhile is deleted, nor
\* its CSV.  (Scenarios that share a namespace can delete one, see the README.)
ForeignUntouched ==
    [][\A u \in Users : Unshared(u) /\ pc[u] \in Uninstalling /\ pc'[u] # pc[u] =>
         ForeignsStay]_vars

\* Cluster wide, the registry keeps the two steps of CreateIfNotExists apart: no
\* installation fails because another one has created the subscription in between.
RegistryPreventsConflict ==
    scope = "cluster" => \A u \in Users : pc[u] # "conflict"

\* Until all scenarios are over, the cluster wide operator that one of them found
\* running is subscribed to, and has a CSV, the current one or the installed one
\* that it is to replace, however often OLM upgrades it.
OperatorOutlivesScenarios ==
    /\ scope = "cluster"
    /\ \E u \in Users : pc[u] = "running"
    /\ \A u \in Users : pc[u] \notin Uninstalling \cup Ended
    => \E n \in Found : \E v \in {sub[n].current, sub[n].installed} \ {0} : csv[v] = "present"

\* An uninstallation that deletes the subscription and reports success knew the
\* installed CSV, and has removed it, whether OLM has replaced it meanwhile or not:
\* what it leaves without a subscription, and what the next installation would fail
\* on, is another version, of an upgrade under way.
SuccessLeavesOnlyUpgrades ==
    [][\A u \in Users : /\ Unshared(u)
                        /\ pc[u] \in {"fetchCsv", "deleteCsv"} /\ pc'[u] = "removed"
         => /\ seen[u] # 0
            /\ \A v \in Versions : csv'[v] # "absent" => v # seen[u]]_vars

\* Every installation ends, whatever OLM does.
InstallationEnds ==
    \A u \in Users : pc[u] \in Installing ~> pc[u] \notin Installing
=============================================================================
