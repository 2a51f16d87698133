------------------------ MODULE ServiceInstallersProofs ------------------------
(***************************************************************************)
(* Proofs about ServiceInstallers, for any scenarios, namespaces, services *)
(* and number of installations: its types, that a cluster wide service is  *)
(* installed once however many scenarios ask for it and none is left by a  *)
(* suite without errors, and, when scenarios use namespaces of their own,  *)
(* that a deployed service is registered, outlives its resources and is    *)
(* gone when the uninstallation reports success.  No scenario takes more   *)
(* steps than its own installations and lists give.  Every statement about *)
(* what is left excepts the installers that report a removal they did not  *)
(* make (outside Reliable) and the resources nobody lists (of services     *)
(* outside Listed).                                                        *)
(***************************************************************************)
EXTENDS ServiceInstallers, FiniteSetTheorems, SequenceTheorems, TLAPS

\* The kind of the service a scenario is installing.
Installing ==
    \A t \in Scenarios :
        /\ pc[t] \in {"append", "deploy", "wait"} => svc[t] \in NsServices
        /\ pc[t] \in {"cwDeploy", "cwWait"} => svc[t] \in CwServices

\* Loops over the namespace's list visit namespaced services only.
Visiting == \A t \in Scenarios : pc[t] = "uninstall" => todo[t] \in Seq(NsServices)

\* A namespace without an entry has no list.
Known ==
    /\ \A n \in Namespaces \ known : reg[n] = <<>>
    /\ \A t \in Scenarios : pc[t] = "append" => NsOf[t] \in known

TypeInv == TypeOK /\ Installing /\ Visiting /\ Known /\ IsFiniteSet(cwReg)

\* Whoever deploys a cluster wide service has registered it first, and nobody has
\* deployed it before.
Deployers ==
    /\ \A t \in Scenarios :
          pc[t] = "cwDeploy" => svc[t] \in cwReg /\ cwInstalls[svc[t]] = 0
    /\ \A t, u \in Scenarios :
          pc[t] = "cwDeploy" /\ pc[u] = "cwDeploy" /\ svc[t] = svc[u] => t = u
    /\ \A c \in CwServices \ cwReg : cwInstalls[c] = 0

\* Services whose installers may report a removal they did not make.
Unreliable == Services \ Reliable

\* Tracked, of one scenario.
TrackedAt(t) ==
    deployed[NsOf[t]] \subseteq ToSet(reg[NsOf[t]])
        \cup (IF pc[t] = "done" THEN Services \ Reliable ELSE {})

\* Where a scenario is tells which of its services may be in its namespace: those
\* it has registered, while it uninstalls them those it has not visited or could not
\* remove, and in the end the latter; the unreliable ones from the first visit on.
RegisteredAt(t) ==
    /\ pc[t] = "append" => loaded[t] = reg[NsOf[t]]
    /\ pc[t] = "deploy" => svc[t] \in ToSet(reg[NsOf[t]])
    /\ pc[t] = "uninstall" =>
          deployed[NsOf[t]] \subseteq ToSet(todo[t]) \cup ToSet(notDeleted[t]) \cup Unreliable
    /\ pc[t] = "store" => deployed[NsOf[t]] \subseteq ToSet(notDeleted[t]) \cup Unreliable

Registered == \A t \in Scenarios : RegisteredAt(t)

-----------------------------------------------------------------------------
(* Facts about lists. *)

\* A list has the elements of its head and its tail.
LEMMA ToSetTail ==
  ASSUME NEW S, NEW list \in Seq(S), list # <<>>
  PROVE  /\ Head(list) \in S /\ Tail(list) \in Seq(S)
         /\ ToSet(list) = {Head(list)} \cup ToSet(Tail(list))
<1>1. Head(list) \in S /\ Tail(list) \in Seq(S)
  BY HeadTailProperties
<1>2. Len(list) \in Nat \ {0} /\ DOMAIN list = 1 .. Len(list) /\ Len(Tail(list)) = Len(list) - 1
  BY HeadTailProperties, EmptySeq, LenProperties
<1>3. DOMAIN Tail(list) = 1 .. Len(list) - 1
  BY <1>1, <1>2, LenProperties
<1>4. \A i \in 1 .. Len(list) - 1 : Tail(list)[i] = list[i + 1]
  BY <1>2, HeadTailProperties
<1>5. Head(list) = list[1]
  BY HeadTailProperties
<1>6. ASSUME NEW i \in DOMAIN list PROVE list[i] \in {Head(list)} \cup ToSet(Tail(list))
  <2>1. CASE i = 1
    BY <2>1, <1>5
  <2>2. CASE i # 1
    <3>1. i - 1 \in 1 .. Len(list) - 1 /\ Tail(list)[i - 1] = list[i]
      BY <2>2, <1>2, <1>4
    <3> QED
      BY <3>1, <1>3 DEF ToSet
  <2> QED
    BY <2>1, <2>2
<1>7. ASSUME NEW i \in DOMAIN Tail(list) PROVE Tail(list)[i] \in ToSet(list)
  BY <1>2, <1>3, <1>4 DEF ToSet
<1>8. Head(list) \in ToSet(list)
  BY <1>2, <1>5 DEF ToSet
<1> QED
  BY <1>1, <1>6, <1>7, <1>8 DEF ToSet

\* Appending adds one element.
LEMMA ToSetAppend ==
  ASSUME NEW S, NEW list \in Seq(S), NEW e \in S
  PROVE  /\ Append(list, e) \in Seq(S)
         /\ ToSet(Append(list, e)) = ToSet(list) \cup {e}
<1>1. /\ Append(list, e) \in Seq(S) /\ Len(Append(list, e)) = Len(list) + 1
      /\ \A i \in 1 .. Len(list) : Append(list, e)[i] = list[i]
      /\ Append(list, e)[Len(list) + 1] = e
  BY AppendProperties
<1>2. /\ Len(list) \in Nat /\ DOMAIN list = 1 .. Len(list)
      /\ DOMAIN Append(list, e) = 1 .. Len(list) + 1
  BY <1>1, LenProperties
<1>3. ASSUME NEW i \in DOMAIN Append(list, e)
      PROVE Append(list, e)[i] \in ToSet(list) \cup {e}
  BY <1>1, <1>2 DEF ToSet
<1>4. ASSUME NEW i \in DOMAIN list PROVE list[i] \in ToSet(Append(list, e))
  <2>1. i \in DOMAIN Append(list, e) /\ Append(list, e)[i] = list[i]
    BY <1>1, <1>2
  <2> QED
    BY <2>1 DEF ToSet
<1>5. e \in ToSet(Append(list, e))
  BY <1>1, <1>2 DEF ToSet
<1> QED
  BY <1>1, <1>3, <1>4, <1>5 DEF ToSet

\* An update with a value of the range keeps the type of a function.
LEMMA ExceptType ==
  ASSUME NEW S, NEW T, NEW f \in [S -> T], NEW x \in S, NEW y \in T
  PROVE  [f EXCEPT ![x] = y] \in [S -> T]
  OBVIOUS

\* The orders in which Range may visit a finite set are lists of its elements.
LEMMA SetToSeqsType ==
  ASSUME NEW S, IsFiniteSet(S), NEW list \in SetToSeqs(S) PROVE list \in Seq(S)
<1>1. Cardinality(S) \in Nat /\ list \in [1 .. Cardinality(S) -> S]
  BY FS_CardinalityType DEF SetToSeqs
<1> QED
  BY <1>1

-----------------------------------------------------------------------------
(* Types. *)

\* The types hold before anything is installed.
LEMMA InitTypeInv == Init => TypeInv
<1> SUFFICES ASSUME Init PROVE TypeInv
  OBVIOUS
<1> USE ConstAssumption DEF Init
<1>1. TypeOK
  BY DEF TypeOK, PcStates, Loops
<1>2. Installing /\ Visiting /\ Known /\ IsFiniteSet(cwReg)
  BY FS_EmptySet DEF Installing, Visiting, Known
<1> QED
  BY <1>1, <1>2 DEF TypeInv

\* Every step keeps them.
LEMMA StepTypeInv == TypeInv /\ [Next]_vars => TypeInv'
<1> SUFFICES ASSUME TypeInv, [Next]_vars PROVE TypeInv'
  OBVIOUS
<1> USE ConstAssumption DEF TypeInv, TypeOK, Goto, threadVars, regVars, clusterVars, suiteVars
<1>1. ASSUME NEW t \in Scenarios, NEW s \in NsServices, NsLoadOrStore(t, s) PROVE TypeInv'
  <2>1. TypeOK'
    <3>1. installs' \in [Scenarios -> Nat] /\ svc' \in [Scenarios -> Services \cup {Nil}]
      BY <1>1 DEF NsLoadOrStore, Services
    <3>2. /\ pc' \in [Scenarios -> PcStates] /\ loaded' \in [Scenarios -> Seq(NsServices)]
          /\ known' \in SUBSET Namespaces /\ reg' \in [Namespaces -> Seq(NsServices)]
      <4>1. CASE NsOf[t] \in known
        <5>1. /\ pc' = [pc EXCEPT ![t] = "append"] /\ UNCHANGED <<known, reg>>
              /\ loaded' = [loaded EXCEPT ![t] = reg[NsOf[t]]]
          BY <1>1, <4>1 DEF NsLoadOrStore
        <5> QED
          BY <5>1 DEF PcStates
      <4>2. CASE NsOf[t] \notin known
        <5>1. <<s>> \in Seq(NsServices) /\ NsOf[t] \in Namespaces
          OBVIOUS
        <5>2. /\ pc' = [pc EXCEPT ![t] = "deploy"] /\ UNCHANGED loaded
              /\ known' = known \cup {NsOf[t]} /\ reg' = [reg EXCEPT ![NsOf[t]] = <<s>>]
          BY <1>1, <4>2 DEF NsLoadOrStore
        <5> QED
          BY <5>1, <5>2 DEF PcStates
      <4> QED
        BY <4>1, <4>2
    <3>3. UNCHANGED <<todo, notDeleted, ok, cwReg, clusterVars, suiteVars>>
      BY <1>1 DEF NsLoadOrStore
    <3> QED
      BY <3>1, <3>2, <3>3
  <2>2. Installing' /\ Visiting' /\ Known' /\ IsFiniteSet(cwReg)'
    BY <1>1 DEF NsLoadOrStore, Installing, Visiting, Known
  <2> QED
    BY <2>1, <2>2
<1>2. ASSUME NEW t \in Scenarios, NEW c \in CwServices, CwLoadOrStore(t, c) PROVE TypeInv'
  <2>1. TypeOK'
    <3>1. installs' \in [Scenarios -> Nat] /\ svc' \in [Scenarios -> Services \cup {Nil}]
      BY <1>2 DEF CwLoadOrStore, Services
    <3>2. pc' \in [Scenarios -> PcStates] /\ cwReg' \in SUBSET CwServices
      BY <1>2 DEF CwLoadOrStore, PcStates
    <3>3. UNCHANGED <<loaded, todo, notDeleted, ok, known, reg, clusterVars, suiteVars>>
      BY <1>2 DEF CwLoadOrStore
    <3> QED
      BY <3>1, <3>2, <3>3
  <2>2. Installing' /\ Visiting' /\ Known'
    BY <1>2 DEF CwLoadOrStore, Installing, Visiting, Known
  <2>3. IsFiniteSet(cwReg)'
    BY <1>2, FS_AddElement DEF CwLoadOrStore
  <2> QED
    BY <2>1, <2>2, <2>3
<1>3. ASSUME NEW t \in Scenarios, NsAppend(t) PROVE TypeInv'
  <2>1. Append(loaded[t], svc[t]) \in Seq(NsServices)
    BY <1>3, AppendProperties DEF NsAppend, Installing
  <2>2. TypeOK'
    BY <1>3, <2>1 DEF NsAppend, PcStates
  <2>3. Installing' /\ Visiting' /\ Known' /\ IsFiniteSet(cwReg)'
    BY <1>3 DEF NsAppend, Installing, Visiting, Known
  <2> QED
    BY <2>2, <2>3
<1>4. ASSUME NEW t \in Scenarios, NsDeploy(t) PROVE TypeInv'
  <2>1. svc[t] \in NsServices
    BY <1>4 DEF NsDeploy, Installing
  <2>2. TypeOK'
    <3>1. pc' \in [Scenarios -> PcStates]
      BY <1>4 DEF NsDeploy, PcStates
    <3>2. deployed' \in [Namespaces -> SUBSET NsServices]
      <4>1. deployed[NsOf[t]] \cup {svc[t]} \in SUBSET NsServices
        BY <2>1
      <4>2. \/ UNCHANGED deployed
            \/ deployed' = [deployed EXCEPT ![NsOf[t]] = deployed[NsOf[t]] \cup {svc[t]}]
        BY <1>4 DEF NsDeploy
      <4>3. NsOf[t] \in Namespaces /\ deployed \in [Namespaces -> SUBSET NsServices]
        OBVIOUS
      <4> HIDE DEF TypeInv, TypeOK
      <4> QED
        BY <4>1, <4>2, <4>3, ExceptType
    <3>3. UNCHANGED <<svc, loaded, installs, todo, notDeleted, ok, regVars, cwDeployed,
                      cwInstalls, crs, suiteVars>>
      BY <1>4 DEF NsDeploy
    <3> QED
      BY <3>1, <3>2, <3>3
  <2>3. Installing' /\ Visiting' /\ Known' /\ IsFiniteSet(cwReg)'
    BY <1>4 DEF NsDeploy, Installing, Visiting, Known
  <2> QED
    BY <2>2, <2>3
<1>5. ASSUME NEW t \in Scenarios, NsWaitRunning(t) \/ CwWaitRunning(t) \/ EndBody(t)
      PROVE TypeInv'
  <2>1. TypeOK'
    BY <1>5 DEF NsWaitRunning, CwWaitRunning, EndBody, PcStates
  <2>2. Installing' /\ Visiting' /\ Known' /\ IsFiniteSet(cwReg)'
    BY <1>5 DEF NsWaitRunning, CwWaitRunning, EndBody, Installing, Visiting, Known
  <2> QED
    BY <2>1, <2>2
<1>6. ASSUME NEW t \in Scenarios, CwDeploy(t) PROVE TypeInv'
  <2>1. svc[t] \in CwServices
    BY <1>6 DEF CwDeploy, Installing
  <2>2. TypeOK'
    <3>1. pc' \in [Scenarios -> PcStates]
      BY <1>6 DEF CwDeploy, PcStates
    <3>2. cwInstalls' \in [CwServices -> Nat] /\ cwDeployed' \in SUBSET CwServices
      BY <1>6, <2>1 DEF CwDeploy
    <3>3. UNCHANGED <<svc, loaded, installs, todo, notDeleted, ok, regVars, deployed, crs,
                      suiteVars>>
      BY <1>6 DEF CwDeploy
    <3> QED
      BY <3>1, <3>2, <3>3
  <2>3. Installing' /\ Visiting' /\ Known' /\ IsFiniteSet(cwReg)'
    BY <1>6 DEF CwDeploy, Installing, Visiting, Known
  <2> QED
    BY <2>2, <2>3
<1>7. ASSUME NEW t \in Scenarios, NEW s \in Services, CreateCr(t, s) PROVE TypeInv'
  <2>1. TypeOK'
    BY <1>7 DEF CreateCr
  <2>2. Installing' /\ Visiting' /\ Known' /\ IsFiniteSet(cwReg)'
    BY <1>7 DEF CreateCr, Installing, Visiting, Known
  <2> QED
    BY <2>1, <2>2
<1>8. ASSUME NEW n \in Namespaces, NEW s \in Services, CrRemoved(n, s) PROVE TypeInv'
  <2>1. TypeOK'
    BY <1>8 DEF CrRemoved
  <2>2. Installing' /\ Visiting' /\ Known' /\ IsFiniteSet(cwReg)'
    BY <1>8 DEF CrRemoved, Installing, Visiting, Known
  <2> QED
    BY <2>1, <2>2
<1>9. ASSUME NEW t \in Scenarios, EnterLoop(t) PROVE TypeInv'
  <2> DEFINE next == NextLoop(pc[t])
  <2>1. next \in Loops \cup {"store"}
    BY <1>9 DEF EnterLoop, NextLoop, Loops
  <2>2. PICK list \in IF next = "store" THEN {<<>>} ELSE LoopList(t, next) :
             todo' = [todo EXCEPT ![t] = list]
    BY <1>9 DEF EnterLoop
  <2>3. list \in Seq(Services) /\ (next \notin {"cleanupCw", "waitCw"} => list \in Seq(NsServices))
    <3>1. CASE next = "store"
      BY <2>2, <3>1
    <3>2. CASE next \in {"cleanupCw", "waitCw"}
      <4>1. list \in Seq(cwReg)
        BY <2>2, <3>2, SetToSeqsType DEF LoopList
      <4> QED
        BY <3>2, <4>1, SeqMonotonic DEF Services
    <3>3. CASE next \notin {"store", "cleanupCw", "waitCw"}
      <4>1. list \in Seq(NsServices)
        BY <2>2, <3>3 DEF LoopList
      <4> QED
        BY <4>1, SeqMonotonic DEF Services
    <3> QED
      BY <3>1, <3>2, <3>3
  <2>4. pc' = [pc EXCEPT ![t] = next]
        /\ UNCHANGED <<svc, loaded, installs, notDeleted, ok, regVars, clusterVars, suiteVars>>
    BY <1>9 DEF EnterLoop
  <2>5. TypeOK'
    BY <2>1, <2>2, <2>3, <2>4 DEF PcStates
  <2>6. Installing' /\ Visiting' /\ Known' /\ IsFiniteSet(cwReg)'
    BY <2>1, <2>2, <2>3, <2>4 DEF Installing, Visiting, Known, Loops
  <2> QED
    BY <2>5, <2>6
<1>10. ASSUME NEW t \in Scenarios, NEW s \in Services,
              CleanupCrs(t, s) \/ WaitCrsRemoved(t, s)
       PROVE TypeInv'
  <2>1. Tail(todo[t]) \in Seq(Services)
    BY <1>10, HeadTailProperties DEF CleanupCrs, WaitCrsRemoved, Visit
  <2>2. TypeOK'
    <3>1. todo' \in [Scenarios -> Seq(Services)] /\ ok' \in [Scenarios -> BOOLEAN]
      <4>1. UNCHANGED ok \/ ok' = [ok EXCEPT ![t] = FALSE]
        BY <1>10 DEF CleanupCrs, WaitCrsRemoved, Fails
      <4>2. todo' = [todo EXCEPT ![t] = Tail(todo[t])]
        BY <1>10 DEF CleanupCrs, WaitCrsRemoved, Visit
      <4> QED
        BY <2>1, <4>1, <4>2
    <3>2. crs' \in [Namespaces -> [Services -> {"none", "live", "deleting"}]]
      <4> DEFINE crsLeft == [crs[NsOf[t]] EXCEPT ![s] = IF @ = "live" THEN "deleting" ELSE @]
      <4>1. NsOf[t] \in Namespaces /\ crsLeft \in [Services -> {"none", "live", "deleting"}]
        OBVIOUS
      <4>2. UNCHANGED crs \/ crs' = [crs EXCEPT ![NsOf[t]] = crsLeft]
        BY <1>10 DEF CleanupCrs, WaitCrsRemoved
      <4> QED
        BY <4>1, <4>2
    <3>3. UNCHANGED <<pc, svc, loaded, installs, regVars, suiteVars, notDeleted, deployed,
                      cwDeployed, cwInstalls>>
      BY <1>10 DEF CleanupCrs, WaitCrsRemoved, Visit
    <3> QED
      BY <3>1, <3>2, <3>3
  <2>3. Installing' /\ Visiting' /\ Known' /\ IsFiniteSet(cwReg)'
    BY <1>10 DEF CleanupCrs, WaitCrsRemoved, Visit, Installing, Visiting, Known
  <2> QED
    BY <2>2, <2>3
<1>11. ASSUME NEW t \in Scenarios, NEW s \in NsServices, UninstallFromNamespace(t, s)
       PROVE TypeInv'
  <2>1. Tail(todo[t]) \in Seq(NsServices) /\ Tail(todo[t]) \in Seq(Services)
    BY <1>11, HeadTailProperties DEF UninstallFromNamespace, Visit, Visiting
  <2>2. Append(notDeleted[t], s) \in Seq(NsServices)
    BY <1>11, AppendProperties
  <2>3. TypeOK'
    <3>1. todo' \in [Scenarios -> Seq(Services)] /\ ok' \in [Scenarios -> BOOLEAN]
      BY <1>11, <2>1 DEF UninstallFromNamespace, Visit, Fails
    <3>2. deployed' \in [Namespaces -> SUBSET NsServices]
      <4>1. \/ UNCHANGED deployed
            \/ deployed' = [deployed EXCEPT ![NsOf[t]] = deployed[NsOf[t]] \ {s}]
        BY <1>11 DEF UninstallFromNamespace
      <4>2. deployed[NsOf[t]] \ {s} \in SUBSET NsServices
        OBVIOUS
      <4>3. NsOf[t] \in Namespaces /\ deployed \in [Namespaces -> SUBSET NsServices]
        OBVIOUS
      <4> HIDE DEF TypeInv, TypeOK
      <4> QED
        BY <4>1, <4>2, <4>3, ExceptType
    <3>3. notDeleted' \in [Scenarios -> Seq(NsServices)]
      <4>1. \/ UNCHANGED notDeleted
            \/ notDeleted' = [notDeleted EXCEPT ![t] = Append(notDeleted[t], s)]
        BY <1>11 DEF UninstallFromNamespace
      <4> QED
        BY <2>2, <4>1
    <3>4. UNCHANGED <<pc, svc, loaded, installs, regVars, suiteVars, cwDeployed, cwInstalls,
                      crs>>
      BY <1>11 DEF UninstallFromNamespace, Visit
    <3> QED
      BY <3>1, <3>2, <3>3, <3>4
  <2>4. Installing' /\ Visiting' /\ Known' /\ IsFiniteSet(cwReg)'
    BY <1>11, <2>1 DEF UninstallFromNamespace, Visit, Installing, Visiting, Known
  <2> QED
    BY <2>3, <2>4
<1>12. ASSUME NEW t \in Scenarios, StoreNotDeleted(t) PROVE TypeInv'
  <2>1. TypeOK'
    BY <1>12 DEF StoreNotDeleted, PcStates
  <2>2. Installing' /\ Visiting' /\ Known' /\ IsFiniteSet(cwReg)'
    BY <1>12 DEF StoreNotDeleted, Installing, Visiting, Known
  <2> QED
    BY <2>1, <2>2
<1>13. ASSUME UninstallSuite PROVE TypeInv'
  <2>1. TypeOK'
    BY <1>13 DEF UninstallSuite, SuiteBegin, RemoveDeleted, UninstallFromCluster
  <2>2. Installing' /\ Visiting' /\ Known' /\ IsFiniteSet(cwReg)'
    BY <1>13 DEF UninstallSuite, SuiteBegin, RemoveDeleted, UninstallFromCluster,
       Installing, Visiting, Known
  <2> QED
    BY <2>1, <2>2
<1>14. CASE UNCHANGED vars
  BY <1>14 DEF vars, Installing, Visiting, Known
<1> QED
  BY <1>1, <1>2, <1>3, <1>4, <1>5, <1>6, <1>7, <1>8, <1>9, <1>10, <1>11, <1>12, <1>13,
     <1>14 DEF Next, Install, Uninstall, Cluster, Terminated

\* The inductive invariant of the types.
THEOREM Types == Spec => []TypeInv
  BY InitTypeInv, StepTypeInv, PTL DEF Spec

\* The registries, the scenarios' places in Install and in
\* UninstallServicesFromNamespace and the cluster have their types.
THEOREM TypeCorrect == Spec => []TypeOK
<1>1. TypeInv => TypeOK
  BY DEF TypeInv
<1> QED
  BY <1>1, Types, PTL

-----------------------------------------------------------------------------
(* A cluster wide service is installed once. *)

\* LoadOrStore lets one scenario deploy a service, and no second one later.
LEMMA StepDeployers ==
  TypeInv /\ Deployers /\ InstalledOnce /\ [Next]_vars => Deployers' /\ InstalledOnce'
<1> SUFFICES ASSUME TypeInv, Deployers, InstalledOnce, [Next]_vars
             PROVE Deployers' /\ InstalledOnce'
  OBVIOUS
<1> USE DEF Goto, Deployers, InstalledOnce, regVars, clusterVars
<1>1. /\ pc \in [Scenarios -> PcStates] /\ svc \in [Scenarios -> Services \cup {Nil}]
      /\ cwReg \in SUBSET CwServices /\ cwInstalls \in [CwServices -> Nat]
  BY DEF TypeInv, TypeOK
<1>2. ASSUME NEW t \in Scenarios, NEW c \in CwServices, CwLoadOrStore(t, c)
      PROVE Deployers' /\ InstalledOnce'
  BY <1>1, <1>2 DEF CwLoadOrStore
<1>3. ASSUME NEW t \in Scenarios, CwDeploy(t) PROVE Deployers' /\ InstalledOnce'
  <2>1. /\ pc[t] = "cwDeploy" /\ svc[t] \in CwServices /\ UNCHANGED <<svc, cwReg>>
        /\ \/ pc' = [pc EXCEPT ![t] = "cwWait"]
           \/ pc' = [pc EXCEPT ![t] = "end"]
        /\ cwInstalls' = [cwInstalls EXCEPT ![svc[t]] = cwInstalls[svc[t]] + 1]
    BY <1>3 DEF CwDeploy, TypeInv, Installing
  <2> QED
    BY <1>1, <2>1
<1>4. ASSUME NEW t \in Scenarios,
             \/ \E s \in NsServices : NsLoadOrStore(t, s) \/ UninstallFromNamespace(t, s)
             \/ NsAppend(t) \/ NsDeploy(t) \/ NsWaitRunning(t) \/ CwWaitRunning(t)
             \/ EndBody(t) \/ StoreNotDeleted(t)
             \/ \E s \in Services : CreateCr(t, s) \/ CleanupCrs(t, s) \/ WaitCrsRemoved(t, s)
      PROVE Deployers' /\ InstalledOnce'
  <2>1. /\ UNCHANGED <<cwReg, cwInstalls>>
        /\ \A u \in Scenarios : pc'[u] = "cwDeploy" => pc[u] = "cwDeploy" /\ svc'[u] = svc[u]
    BY <1>1, <1>4 DEF NsLoadOrStore, UninstallFromNamespace, NsAppend, NsDeploy,
       NsWaitRunning, CwWaitRunning, EndBody, StoreNotDeleted, CreateCr, CleanupCrs,
       WaitCrsRemoved, Visit, threadVars
  <2> QED
    BY <2>1
<1>5. ASSUME NEW t \in Scenarios, EnterLoop(t) PROVE Deployers' /\ InstalledOnce'
  <2>1. NextLoop(pc[t]) \in Loops \cup {"store"}
    BY <1>5 DEF EnterLoop, NextLoop, Loops
  <2> QED
    BY <1>1, <1>5, <2>1 DEF EnterLoop, Loops
<1>6. ASSUME \/ UninstallSuite \/ UNCHANGED vars
             \/ \E n \in Namespaces, s \in Services : CrRemoved(n, s)
      PROVE Deployers' /\ InstalledOnce'
  <2>1. UNCHANGED <<pc, svc, cwReg, cwInstalls>>
    BY <1>6 DEF UninstallSuite, SuiteBegin, RemoveDeleted, UninstallFromCluster, CrRemoved,
       vars, threadVars
  <2> QED
    BY <2>1
<1> QED
  BY <1>2, <1>3, <1>4, <1>5, <1>6 DEF Next, Install, Uninstall, Cluster, Terminated

\* However many scenarios ask for a cluster wide service at the same time, one of
\* them installs it (LoadOrStore on installedClusterWideServices).
THEOREM Once == Spec => []InstalledOnce
<1>1. Init => Deployers /\ InstalledOnce
  BY DEF Init, Deployers, InstalledOnce
<1> QED
  BY <1>1, StepDeployers, Types, PTL DEF Spec

-----------------------------------------------------------------------------
(* What is deployed in a namespace is registered for it. *)

\* A step of a scenario concerns its own place and its own namespace.
OwnStep(t) ==
    /\ \A u \in Scenarios \ {t} :
          /\ pc'[u] = pc[u] /\ svc'[u] = svc[u] /\ loaded'[u] = loaded[u]
          /\ todo'[u] = todo[u] /\ notDeleted'[u] = notDeleted[u]
    /\ \A n \in Namespaces \ {NsOf[t]} : deployed'[n] = deployed[n] /\ reg'[n] = reg[n]

\* While a scenario is not over, what is deployed is in the list.
LEMMA ListedBefore ==
  ASSUME Tracked, NEW t \in Scenarios
  PROVE  /\ TrackedAt(t)
         /\ pc[t] # "done" => deployed[NsOf[t]] \subseteq ToSet(reg[NsOf[t]])
<1>1. TrackedAt(t)
  BY DEF Tracked, TrackedAt
<1> QED
  BY <1>1 DEF TrackedAt

\* So that only the scenario's own part of the invariant is to be shown.
LEMMA OwnStepSuffices ==
  ASSUME OwnNamespaces, Registered, Tracked, NEW t \in Scenarios, OwnStep(t),
         RegisteredAt(t)', TrackedAt(t)'
  PROVE  Registered' /\ Tracked'
<1>1. ASSUME NEW u \in Scenarios, u # t PROVE RegisteredAt(u)'
  <2>1. NsOf[u] \in Namespaces \ {NsOf[t]}
    BY <1>1, ConstAssumption DEF OwnNamespaces
  <2> QED
    BY <1>1, <2>1 DEF OwnStep, Registered, RegisteredAt, Unreliable
<1>2. ASSUME NEW u \in Scenarios, u # t PROVE TrackedAt(u)'
  <2>1. NsOf[u] \in Namespaces \ {NsOf[t]}
    BY <1>2, ConstAssumption DEF OwnNamespaces
  <2>2. TrackedAt(u)
    BY ListedBefore
  <2> QED
    BY <1>2, <2>1, <2>2 DEF OwnStep, TrackedAt
<1>3. Tracked'
  BY <1>2 DEF Tracked, TrackedAt
<1> QED
  BY <1>1, <1>3 DEF Registered

\* Install registers a service before it deploys it, and what the uninstallation could
\* not remove goes back to the list.
LEMMA StepTracked ==
  ASSUME OwnNamespaces
  PROVE  TypeInv /\ Registered /\ Tracked /\ [Next]_vars => Registered' /\ Tracked'
<1> SUFFICES ASSUME TypeInv, Registered, Tracked, [Next]_vars PROVE Registered' /\ Tracked'
  OBVIOUS
<1> USE ConstAssumption DEF Goto, threadVars, regVars, clusterVars
<1>0. /\ pc \in [Scenarios -> PcStates] /\ svc \in [Scenarios -> Services \cup {Nil}]
      /\ loaded \in [Scenarios -> Seq(NsServices)] /\ todo \in [Scenarios -> Seq(Services)]
      /\ notDeleted \in [Scenarios -> Seq(NsServices)]
      /\ reg \in [Namespaces -> Seq(NsServices)]
      /\ deployed \in [Namespaces -> SUBSET NsServices]
  BY DEF TypeInv, TypeOK
<1>1. ASSUME NEW t \in Scenarios, NEW s \in NsServices, NsLoadOrStore(t, s)
      PROVE Registered' /\ Tracked'
  <2>1. OwnStep(t)
    BY <1>0, <1>1 DEF NsLoadOrStore, OwnStep
  <2>2. CASE NsOf[t] \in known
    <3>1. RegisteredAt(t)' /\ pc[t] # "done" /\ UNCHANGED <<deployed, reg>>
      BY <1>0, <1>1, <2>2 DEF NsLoadOrStore, RegisteredAt
    <3>2. TrackedAt(t)'
      BY <3>1, ListedBefore DEF TrackedAt
    <3> QED
      BY <2>1, <3>1, <3>2, OwnStepSuffices
  <2>3. CASE NsOf[t] \notin known
    <3>1. /\ pc'[t] = "deploy" /\ svc'[t] = s /\ reg'[NsOf[t]] = <<s>>
          /\ UNCHANGED deployed
      BY <1>0, <1>1, <2>3 DEF NsLoadOrStore
    <3>2. s \in ToSet(<<s>>)
      BY DEF ToSet
    <3>3. deployed[NsOf[t]] = {}
      <4>1. reg[NsOf[t]] = <<>> /\ pc[t] # "done"
        BY <1>1, <2>3 DEF NsLoadOrStore, TypeInv, Known
      <4> QED
        BY <4>1, ListedBefore DEF ToSet
    <3>4. RegisteredAt(t)' /\ TrackedAt(t)'
      BY <3>1, <3>2, <3>3 DEF RegisteredAt, TrackedAt
    <3> QED
      BY <2>1, <3>4, OwnStepSuffices
  <2> QED
    BY <2>2, <2>3
<1>2. ASSUME NEW t \in Scenarios, NsAppend(t) PROVE Registered' /\ Tracked'
  <2>1. OwnStep(t)
    BY <1>0, <1>2 DEF NsAppend, OwnStep
  <2>2. svc[t] \in NsServices /\ loaded[t] = reg[NsOf[t]]
    BY <1>2 DEF NsAppend, TypeInv, Installing, Registered, RegisteredAt
  <2>3. /\ pc[t] = "append" /\ pc'[t] = "deploy" /\ UNCHANGED <<svc, deployed>>
        /\ ToSet(reg'[NsOf[t]]) = ToSet(reg[NsOf[t]]) \cup {svc[t]}
    BY <1>0, <1>2, <2>2, ToSetAppend DEF NsAppend
  <2>4. RegisteredAt(t)' /\ TrackedAt(t)'
    BY <2>3, ListedBefore DEF RegisteredAt, TrackedAt
  <2> QED
    BY <2>1, <2>4, OwnStepSuffices
<1>3. ASSUME NEW t \in Scenarios, NsDeploy(t) PROVE Registered' /\ Tracked'
  <2>1. OwnStep(t)
    BY <1>0, <1>3 DEF NsDeploy, OwnStep
  <2>2. /\ pc[t] = "deploy" /\ pc'[t] \in {"wait", "end"} /\ UNCHANGED <<svc, reg>>
        /\ deployed'[NsOf[t]] \subseteq deployed[NsOf[t]] \cup {svc[t]}
        /\ svc[t] \in ToSet(reg[NsOf[t]])
    BY <1>0, <1>3 DEF NsDeploy, Registered, RegisteredAt
  <2>3. RegisteredAt(t)' /\ TrackedAt(t)'
    BY <2>2, ListedBefore DEF RegisteredAt, TrackedAt
  <2> QED
    BY <2>1, <2>3, OwnStepSuffices
<1>4. ASSUME NEW t \in Scenarios,
             \/ NsWaitRunning(t) \/ CwDeploy(t) \/ CwWaitRunning(t) \/ EndBody(t)
             \/ \E c \in CwServices : CwLoadOrStore(t, c)
      PROVE Registered' /\ Tracked'
  <2>1. OwnStep(t) /\ UNCHANGED <<deployed, reg>>
    BY <1>0, <1>4 DEF NsWaitRunning, CwDeploy, CwWaitRunning, EndBody, CwLoadOrStore, OwnStep
  <2>2. pc[t] # "done" /\ pc'[t] \in {"body", "end", "cwDeploy", "cwWait"}
    BY <1>0, <1>4 DEF NsWaitRunning, CwDeploy, CwWaitRunning, EndBody, CwLoadOrStore
  <2>3. RegisteredAt(t)' /\ TrackedAt(t)'
    BY <2>1, <2>2, ListedBefore DEF RegisteredAt, TrackedAt
  <2> QED
    BY <2>1, <2>3, OwnStepSuffices
<1>5. ASSUME NEW t \in Scenarios, EnterLoop(t) PROVE Registered' /\ Tracked'
  <2> DEFINE next == NextLoop(pc[t])
  <2>1. /\ next \in Loops \cup {"store"}
        /\ next = "store" => pc[t] = "uninstall"
    BY <1>5 DEF EnterLoop, NextLoop, Loops
  <2>2. PICK list \in IF next = "store" THEN {<<>>} ELSE LoopList(t, next) :
             todo' = [todo EXCEPT ![t] = list]
    BY <1>5 DEF EnterLoop
  <2>3. /\ pc' = [pc EXCEPT ![t] = next] /\ todo[t] = <<>> /\ pc[t] # "done"
        /\ UNCHANGED <<svc, loaded, notDeleted, reg, deployed>>
    BY <1>5 DEF EnterLoop, Loops
  <2>4. OwnStep(t)
    BY <1>0, <2>2, <2>3 DEF OwnStep
  <2>5. ASSUME next = "uninstall"
        PROVE deployed[NsOf[t]] \subseteq ToSet(todo'[t])
    BY <1>0, <2>2, <2>3, <2>5, ListedBefore DEF LoopList
  <2>6. ASSUME next = "store"
        PROVE deployed[NsOf[t]] \subseteq ToSet(notDeleted[t]) \cup Unreliable
    <3>1. ToSet(todo[t]) = {}
      BY <2>3 DEF ToSet
    <3> QED
      BY <2>1, <2>6, <3>1 DEF Registered, RegisteredAt
  <2>7. RegisteredAt(t)'
    BY <1>0, <2>1, <2>3, <2>5, <2>6 DEF RegisteredAt, Loops, Unreliable
  <2>8. TrackedAt(t)'
    BY <2>3, ListedBefore DEF TrackedAt
  <2> QED
    BY <2>4, <2>7, <2>8, OwnStepSuffices
<1>6. ASSUME NEW t \in Scenarios, NEW s \in Services,
             CleanupCrs(t, s) \/ WaitCrsRemoved(t, s)
      PROVE Registered' /\ Tracked'
  <2>1. OwnStep(t) /\ UNCHANGED <<deployed, reg>>
    BY <1>0, <1>6 DEF CleanupCrs, WaitCrsRemoved, Visit, OwnStep
  <2>2. pc[t] # "done" /\ pc'[t] \in {"cleanupCw", "cleanupNs", "waitCw", "waitNs"}
    BY <1>6 DEF CleanupCrs, WaitCrsRemoved, Visit
  <2>3. RegisteredAt(t)' /\ TrackedAt(t)'
    BY <2>1, <2>2, ListedBefore DEF RegisteredAt, TrackedAt
  <2> QED
    BY <2>1, <2>3, OwnStepSuffices
<1>7. ASSUME NEW t \in Scenarios, NEW s \in NsServices, UninstallFromNamespace(t, s)
      PROVE Registered' /\ Tracked'
  <2>1. /\ pc[t] = "uninstall" /\ todo[t] # <<>> /\ s = Head(todo[t])
        /\ todo' = [todo EXCEPT ![t] = Tail(todo[t])]
        /\ UNCHANGED <<pc, svc, loaded, reg>>
    BY <1>7 DEF UninstallFromNamespace, Visit
  <2>2. /\ \/ UNCHANGED deployed
           \/ deployed' = [deployed EXCEPT ![NsOf[t]] = deployed[NsOf[t]] \ {s}]
        /\ \/ notDeleted' = [notDeleted EXCEPT ![t] = Append(notDeleted[t], s)]
           \/ /\ UNCHANGED notDeleted
              /\ \/ deployed' = [deployed EXCEPT ![NsOf[t]] = deployed[NsOf[t]] \ {s}]
                 \/ s \in Unreliable
    BY <1>7 DEF UninstallFromNamespace, Unreliable, Services
  <2>3. OwnStep(t)
    BY <1>0, <2>1, <2>2 DEF OwnStep
  <2>4. ToSet(todo[t]) = {s} \cup ToSet(todo'[t])
    BY <1>0, <2>1, ToSetTail
  <2>5. ToSet(Append(notDeleted[t], s)) = ToSet(notDeleted[t]) \cup {s}
    BY <1>0, ToSetAppend
  <2>6. deployed[NsOf[t]] \subseteq ToSet(todo[t]) \cup ToSet(notDeleted[t]) \cup Unreliable
    BY <2>1 DEF Registered, RegisteredAt
  <2>7. /\ deployed'[NsOf[t]] \subseteq deployed[NsOf[t]]
        /\ ToSet(notDeleted[t]) \subseteq ToSet(notDeleted'[t])
        /\ \/ s \notin deployed'[NsOf[t]]
           \/ s \in Unreliable
           \/ s \in ToSet(notDeleted'[t])
    <3>1. /\ t \in DOMAIN notDeleted /\ NsOf[t] \in DOMAIN deployed
      BY <1>0
    <3> QED
      BY <2>2, <2>5, <3>1
  <2>8. deployed'[NsOf[t]] \subseteq ToSet(todo'[t]) \cup ToSet(notDeleted'[t]) \cup Unreliable
    BY <2>4, <2>6, <2>7
  <2>9. RegisteredAt(t)' /\ TrackedAt(t)'
    BY <2>1, <2>7, <2>8, ListedBefore DEF RegisteredAt, TrackedAt, Unreliable
  <2> QED
    BY <2>3, <2>9, OwnStepSuffices
<1>8. ASSUME NEW t \in Scenarios, StoreNotDeleted(t) PROVE Registered' /\ Tracked'
  <2>1. OwnStep(t)
    BY <1>0, <1>8 DEF StoreNotDeleted, OwnStep
  <2>2. /\ pc'[t] = "done" /\ UNCHANGED deployed /\ reg'[NsOf[t]] = notDeleted[t]
        /\ deployed[NsOf[t]] \subseteq ToSet(notDeleted[t]) \cup Unreliable
    BY <1>0, <1>8 DEF StoreNotDeleted, Registered, RegisteredAt
  <2>3. RegisteredAt(t)' /\ TrackedAt(t)'
    BY <2>2 DEF RegisteredAt, TrackedAt, Unreliable
  <2> QED
    BY <2>1, <2>3, OwnStepSuffices
<1>9. ASSUME \/ UninstallSuite \/ UNCHANGED vars
             \/ \E t \in Scenarios, s \in Services : CreateCr(t, s)
             \/ \E n \in Namespaces, s \in Services : CrRemoved(n, s)
      PROVE Registered' /\ Tracked'
  <2>1. UNCHANGED <<pc, svc, loaded, todo, notDeleted, reg, deployed>>
    BY <1>9 DEF UninstallSuite, SuiteBegin, RemoveDeleted, UninstallFromCluster, CreateCr,
       CrRemoved, vars
  <2> QED
    BY <2>1 DEF Registered, RegisteredAt, Tracked, Unreliable
<1> QED
  BY <1>1, <1>2, <1>3, <1>4, <1>5, <1>6, <1>7, <1>8, <1>9
  DEF Next, Install, Uninstall, Cluster, Terminated

\* When every scenario has a namespace of its own, a namespaced service that is in the
\* cluster is registered for its namespace, also after a failed installation and after
\* a removal that returned an error; in the end all but those whose installers reported
\* a removal they did not make.
THEOREM TrackedInOwnNamespaces == ASSUME OwnNamespaces PROVE Spec => []Tracked
<1>1. Init => Registered /\ Tracked
  BY ConstAssumption DEF Init, Registered, RegisteredAt, Tracked
<1> QED
  BY <1>1, StepTracked, Types, PTL DEF Spec

-----------------------------------------------------------------------------
(* UninstallServicesFromCluster. *)

\* What is deployed in the cluster is registered; the suite is uninstalled when the
\* scenarios are over, and what is left meanwhile is still to visit, or has failed, or
\* is of an unreliable installer.
SuiteTracks ==
    /\ cwDeployed \subseteq cwReg
    /\ suite # "idle" => \A t \in Scenarios : pc[t] = "done"
    /\ suite = "uninstall" /\ suiteOk => cwDeployed \cap Reliable \subseteq suiteTodo
    /\ suite = "done" /\ suiteOk => cwDeployed \cap Reliable = {}

\* A scenario deploys what it has registered, and is over when the suite is
\* uninstalled, which visits all that is registered.
LEMMA StepSuiteTracks ==
  TypeInv /\ Deployers /\ SuiteTracks /\ [Next]_vars => SuiteTracks'
<1> SUFFICES ASSUME TypeInv, Deployers, SuiteTracks, [Next]_vars PROVE SuiteTracks'
  OBVIOUS
<1> USE DEF SuiteTracks
<1>1. pc \in [Scenarios -> PcStates] /\ suite \in {"idle", "uninstall", "remove", "done"}
  BY DEF TypeInv, TypeOK
<1>2. ASSUME NEW t \in Scenarios, NEW c \in CwServices, CwLoadOrStore(t, c)
      PROVE SuiteTracks'
  <2>1. suite = "idle" /\ suite' = suite
    BY <1>2 DEF CwLoadOrStore, Goto, suiteVars
  <2>2. cwReg' = cwReg \cup {c} /\ cwDeployed' = cwDeployed
    BY <1>2 DEF CwLoadOrStore, clusterVars
  <2> QED
    BY <2>1, <2>2
<1>3. ASSUME NEW t \in Scenarios, CwDeploy(t) PROVE SuiteTracks'
  <2>1. suite = "idle" /\ suite' = suite
    BY <1>3 DEF CwDeploy, Goto, suiteVars
  <2>2. cwReg' = cwReg /\ cwDeployed' \subseteq cwDeployed \cup {svc[t]} /\ svc[t] \in cwReg
    BY <1>3 DEF CwDeploy, Goto, Deployers, regVars
  <2> QED
    BY <2>1, <2>2
<1>4. ASSUME NEW t \in Scenarios,
             \/ \E s \in NsServices : NsLoadOrStore(t, s) \/ UninstallFromNamespace(t, s)
             \/ NsAppend(t) \/ NsDeploy(t) \/ NsWaitRunning(t) \/ CwWaitRunning(t)
             \/ EndBody(t) \/ StoreNotDeleted(t) \/ EnterLoop(t)
             \/ \E s \in Services : CreateCr(t, s) \/ CleanupCrs(t, s) \/ WaitCrsRemoved(t, s)
      PROVE SuiteTracks'
  <2>1. pc[t] # "done" /\ suite' = suite
    BY <1>4 DEF NsLoadOrStore, UninstallFromNamespace, NsAppend, NsDeploy, NsWaitRunning,
       CwWaitRunning, EndBody, StoreNotDeleted, EnterLoop, CreateCr, CleanupCrs,
       WaitCrsRemoved, Visit, Goto, Loops, suiteVars
  <2>2. cwReg' = cwReg /\ cwDeployed' = cwDeployed
    BY <1>4 DEF NsLoadOrStore, UninstallFromNamespace, NsAppend, NsDeploy, NsWaitRunning,
       CwWaitRunning, EndBody, StoreNotDeleted, EnterLoop, CreateCr, CleanupCrs,
       WaitCrsRemoved, Visit, regVars, clusterVars
  <2> QED
    BY <2>1, <2>2
<1>5. CASE SuiteBegin
  BY <1>5 DEF SuiteBegin, threadVars, regVars, clusterVars
<1>6. ASSUME NEW c \in CwServices, UninstallFromCluster(c) PROVE SuiteTracks'
  <2>1. suite = "uninstall" /\ UNCHANGED <<pc, suite, cwReg>>
    BY <1>6 DEF UninstallFromCluster, threadVars, regVars
  <2>2. cwDeployed' \subseteq cwDeployed /\ suiteTodo' = suiteTodo \ {c}
    BY <1>6 DEF UninstallFromCluster
  <2>3. suiteOk' => suiteOk /\ (cwDeployed' = cwDeployed \ {c} \/ c \notin Reliable)
    BY <1>6, Zenon DEF UninstallFromCluster
  <2> QED
    BY <2>1, <2>2, <2>3
<1>7. CASE RemoveDeleted
  BY <1>7 DEF RemoveDeleted, threadVars, regVars, clusterVars
<1>8. ASSUME \/ UNCHANGED vars
             \/ \E n \in Namespaces, s \in Services : CrRemoved(n, s)
      PROVE SuiteTracks'
  <2>1. UNCHANGED <<pc, cwReg, cwDeployed, suite, suiteTodo, suiteOk>>
    BY <1>8 DEF CrRemoved, vars, threadVars, regVars, clusterVars, suiteVars
  <2> QED
    BY <2>1
<1> QED
  BY <1>2, <1>3, <1>4, <1>5, <1>6, <1>7, <1>8
     DEF Next, Install, Uninstall, UninstallSuite, Cluster, Terminated

\* UninstallServicesFromCluster returns true only when no cluster wide service of a
\* reliable installer is left, for any scenarios and services.
THEOREM SuiteClean == Spec => []SuiteSuccessMeansClean
<1>1. Init => Deployers /\ InstalledOnce /\ SuiteTracks
  BY DEF Init, Deployers, InstalledOnce, SuiteTracks
<1>2. SuiteTracks => SuiteSuccessMeansClean
  BY DEF SuiteTracks, SuiteSuccessMeansClean
<1> QED
  BY <1>1, <1>2, StepDeployers, StepSuiteTracks, Types, PTL DEF Spec

-----------------------------------------------------------------------------
(* UninstallServicesFromNamespace leaves nothing when it reports success. *)

\* The services a scenario has left resources of, among those that list them.
Left(t) == {s \in Listed : crs[NsOf[t]][s] # "none"}

\* Resources belong to registered services; a scenario without an error has waited
\* for the removal of those whose services it has visited, and removed the services.
CleanedAt(t) ==
    /\ pc[t] \notin {"waitCw", "waitNs", "uninstall", "store", "done"} =>
          Left(t) \subseteq ToSet(reg[NsOf[t]]) \cup cwReg
    /\ pc[t] = "waitCw" /\ ok[t] => Left(t) \subseteq ToSet(reg[NsOf[t]]) \cup ToSet(todo[t])
    /\ pc[t] = "waitNs" /\ ok[t] => Left(t) \subseteq ToSet(todo[t])
    /\ pc[t] \in {"uninstall", "store", "done"} /\ ok[t] => Left(t) = {}
    /\ ok[t] => notDeleted[t] = <<>>
    /\ pc[t] = "done" /\ ok[t] => reg[NsOf[t]] = <<>>

Cleaned == \A t \in Scenarios : CleanedAt(t)

\* What the invariant of one scenario depends on.
LEMMA SameCleaned ==
  ASSUME NEW t \in Scenarios, CleanedAt(t),
         pc'[t] = pc[t], todo'[t] = todo[t], ok'[t] = ok[t], notDeleted'[t] = notDeleted[t],
         reg'[NsOf[t]] = reg[NsOf[t]], cwReg \subseteq cwReg',
         \A s \in Services : crs'[NsOf[t]][s] = crs[NsOf[t]][s] \/ crs'[NsOf[t]][s] = "none"
  PROVE  CleanedAt(t)'
<1>1. Left(t)' \subseteq Left(t)
  BY ConstAssumption DEF Left
<1> QED
  BY <1>1 DEF CleanedAt

\* A step of a scenario concerns no other scenario's part.
LEMMA OwnCleaned ==
  ASSUME OwnNamespaces, Cleaned, NEW t \in Scenarios, CleanedAt(t)', cwReg \subseteq cwReg',
         \A u \in Scenarios \ {t} : /\ pc'[u] = pc[u] /\ todo'[u] = todo[u] /\ ok'[u] = ok[u]
                                    /\ notDeleted'[u] = notDeleted[u],
         \A n \in Namespaces \ {NsOf[t]} : reg'[n] = reg[n] /\ crs'[n] = crs[n]
  PROVE  Cleaned'
<1>1. ASSUME NEW u \in Scenarios, u # t PROVE CleanedAt(u)'
  <2>1. NsOf[u] \in Namespaces \ {NsOf[t]}
    BY <1>1, ConstAssumption DEF OwnNamespaces
  <2>2. CleanedAt(u)
    BY DEF Cleaned
  <2> QED
    BY <1>1, <2>1, <2>2, SameCleaned
<1> QED
  BY <1>1 DEF Cleaned

\* A list Range may produce has all elements of the set.
LEMMA SetToSeqsAll ==
  ASSUME NEW S, IsFiniteSet(S), NEW list \in SetToSeqs(S) PROVE ToSet(list) = S
<1> DEFINE D == 1 .. Cardinality(S)
<1>1. Cardinality(S) \in Nat /\ list \in [D -> S] /\ \A i, j \in D : i # j => list[i] # list[j]
  BY FS_CardinalityType DEF SetToSeqs
<1>2. list \in Injection(D, S)
  BY <1>1 DEF Injection, IsInjective
<1>3. Cardinality(D) = Cardinality(S)
  BY <1>1, FS_Interval
<1>4. list \in Surjection(D, S)
  BY <1>2, <1>3, FS_Injection
<1> QED
  BY <1>1, <1>4 DEF ToSet, Surjection

\* The scenario's own steps: it creates resources of what is deployed; the waits without
\* an error have visited every service; an error or an empty list of failed removals.
LEMMA StepCleaned ==
  ASSUME OwnNamespaces
  PROVE  TypeInv /\ Tracked /\ Registered /\ SuiteTracks /\ Cleaned /\ [Next]_vars => Cleaned'
<1> SUFFICES ASSUME TypeInv, Tracked, Registered, SuiteTracks, Cleaned, [Next]_vars
             PROVE Cleaned'
  OBVIOUS
<1> USE ConstAssumption DEF Goto
<1>0. /\ pc \in [Scenarios -> PcStates] /\ svc \in [Scenarios -> Services \cup {Nil}]
      /\ loaded \in [Scenarios -> Seq(NsServices)] /\ todo \in [Scenarios -> Seq(Services)]
      /\ notDeleted \in [Scenarios -> Seq(NsServices)] /\ ok \in [Scenarios -> BOOLEAN]
      /\ reg \in [Namespaces -> Seq(NsServices)]
      /\ crs \in [Namespaces -> [Services -> {"none", "live", "deleting"}]]
      /\ Listed \subseteq Services /\ \A t \in Scenarios : NsOf[t] \in Namespaces
  BY DEF TypeInv, TypeOK
<1>1. ASSUME NEW t \in Scenarios,
             \/ \E s \in NsServices : NsLoadOrStore(t, s)
             \/ \E c \in CwServices : CwLoadOrStore(t, c)
             \/ NsAppend(t) \/ NsDeploy(t) \/ NsWaitRunning(t)
             \/ CwDeploy(t) \/ CwWaitRunning(t) \/ EndBody(t)
      PROVE Cleaned'
  <2>1. /\ UNCHANGED <<todo, notDeleted, ok, crs>> /\ cwReg \subseteq cwReg'
        /\ \A u \in Scenarios \ {t} : pc'[u] = pc[u]
        /\ pc[t] \in {"body", "append", "deploy", "wait", "cwDeploy", "cwWait"}
        /\ pc'[t] \in {"body", "append", "deploy", "wait", "cwDeploy", "cwWait", "end"}
        /\ \A n \in Namespaces \ {NsOf[t]} : reg'[n] = reg[n]
    BY <1>0, <1>1 DEF NsLoadOrStore, CwLoadOrStore, NsAppend, NsDeploy, NsWaitRunning,
       CwDeploy, CwWaitRunning, EndBody, regVars, clusterVars
  <2>2. ToSet(reg[NsOf[t]]) \subseteq ToSet(reg'[NsOf[t]])
    <3>1. ASSUME NEW s \in NsServices, NsLoadOrStore(t, s)
          PROVE  ToSet(reg[NsOf[t]]) \subseteq ToSet(reg'[NsOf[t]])
      <4>1. CASE NsOf[t] \in known
        BY <3>1, <4>1 DEF NsLoadOrStore
      <4>2. CASE NsOf[t] \notin known
        <5>1. reg[NsOf[t]] = <<>>
          BY <1>0, <4>2 DEF TypeInv, Known
        <5> QED
          BY <5>1 DEF ToSet
      <4> QED
        BY <4>1, <4>2
    <3>2. ASSUME NsAppend(t) PROVE ToSet(reg[NsOf[t]]) \subseteq ToSet(reg'[NsOf[t]])
      <4>1. svc[t] \in NsServices /\ loaded[t] = reg[NsOf[t]]
        BY <3>2 DEF NsAppend, TypeInv, Installing, Registered, RegisteredAt
      <4>2. reg'[NsOf[t]] = Append(reg[NsOf[t]], svc[t])
        BY <1>0, <3>2, <4>1 DEF NsAppend
      <4> QED
        BY <1>0, <4>1, <4>2, ToSetAppend
    <3>3. ASSUME \/ \E c \in CwServices : CwLoadOrStore(t, c)
                 \/ NsDeploy(t) \/ NsWaitRunning(t) \/ CwDeploy(t) \/ CwWaitRunning(t)
                 \/ EndBody(t)
          PROVE  reg' = reg
      BY <3>3 DEF CwLoadOrStore, NsDeploy, NsWaitRunning, CwDeploy, CwWaitRunning, EndBody,
         regVars
    <3> QED
      BY <1>1, <3>1, <3>2, <3>3
  <2>3. CleanedAt(t)' <=> /\ Left(t)' \subseteq ToSet(reg'[NsOf[t]]) \cup cwReg'
                          /\ ok'[t] => notDeleted'[t] = <<>>
    BY <2>1 DEF CleanedAt
  <2>4. CleanedAt(t) /\ Left(t)' = Left(t)
    BY <2>1 DEF Cleaned, Left
  <2>5. CleanedAt(t)'
    BY <2>1, <2>2, <2>3, <2>4 DEF CleanedAt
  <2> QED
    BY <2>1, <2>5, OwnCleaned
<1>2. ASSUME NEW t \in Scenarios, NEW s \in Services, CreateCr(t, s) PROVE Cleaned'
  <2>1. /\ pc[t] = "body" /\ UNCHANGED <<pc, todo, notDeleted, ok, reg, cwReg>>
        /\ s \in ToSet(reg[NsOf[t]]) \cup cwReg
        /\ crs' = [crs EXCEPT ![NsOf[t]][s] = "live"]
    BY <1>0, <1>2, ListedBefore DEF CreateCr, threadVars, regVars, SuiteTracks
  <2>2. Left(t)' \subseteq Left(t) \cup {s} /\ \A n \in Namespaces \ {NsOf[t]} : crs'[n] = crs[n]
    BY <1>0, <2>1 DEF Left
  <2>3. CleanedAt(t)'
    BY <2>1, <2>2 DEF Cleaned, CleanedAt
  <2> QED
    BY <2>1, <2>2, <2>3, OwnCleaned
<1>3. ASSUME NEW t \in Scenarios, EnterLoop(t) PROVE Cleaned'
  <2> DEFINE next == NextLoop(pc[t])
  <2>1. /\ pc[t] = "end" => next = "cleanupCw"
        /\ pc[t] = "cleanupCw" => next = "cleanupNs"
        /\ pc[t] = "cleanupNs" => next = "waitCw"
        /\ pc[t] = "waitCw" => next = "waitNs"
        /\ pc[t] = "waitNs" => next = "uninstall"
        /\ pc[t] = "uninstall" => next = "store"
    BY DEF NextLoop
  <2>2. PICK list \in IF next = "store" THEN {<<>>} ELSE LoopList(t, next) :
             todo' = [todo EXCEPT ![t] = list]
    BY <1>3 DEF EnterLoop
  <2>3. /\ pc' = [pc EXCEPT ![t] = next] /\ todo[t] = <<>> /\ pc[t] \in {"end"} \cup Loops
        /\ UNCHANGED <<notDeleted, ok, reg, cwReg, crs>>
    BY <1>3 DEF EnterLoop, regVars, clusterVars
  <2>4. next = "waitCw" => ToSet(todo'[t]) = cwReg
    BY <1>0, <2>2, SetToSeqsAll DEF LoopList, TypeInv
  <2>5. next = "waitNs" => todo'[t] = reg[NsOf[t]]
    BY <1>0, <2>2 DEF LoopList
  <2>6. ToSet(todo[t]) = {} /\ Left(t)' = Left(t) /\ CleanedAt(t)
    BY <2>3 DEF ToSet, Left, Cleaned
  <2>7. pc'[t] = next
    BY <1>0, <2>3
  <2>8. CleanedAt(t)'
    <3>1. CASE pc[t] \in {"end", "cleanupCw"}
      BY <2>1, <2>3, <2>6, <2>7, <3>1 DEF CleanedAt
    <3>2. CASE pc[t] = "cleanupNs"
      BY <2>1, <2>3, <2>4, <2>6, <2>7, <3>2 DEF CleanedAt
    <3>3. CASE pc[t] = "waitCw"
      BY <2>1, <2>3, <2>5, <2>6, <2>7, <3>3 DEF CleanedAt
    <3>4. CASE pc[t] \in {"waitNs", "uninstall"}
      BY <2>1, <2>3, <2>6, <2>7, <3>4 DEF CleanedAt
    <3> QED
      BY <2>3, <3>1, <3>2, <3>3, <3>4 DEF Loops
  <2> QED
    BY <1>0, <2>2, <2>3, <2>8, OwnCleaned
<1>4. ASSUME NEW t \in Scenarios, NEW s \in Services, CleanupCrs(t, s) PROVE Cleaned'
  <2>1. /\ pc[t] \in {"cleanupCw", "cleanupNs"} /\ UNCHANGED <<pc, reg, cwReg, notDeleted>>
        /\ todo' = [todo EXCEPT ![t] = Tail(todo[t])]
        /\ \/ UNCHANGED ok
           \/ ok' = [ok EXCEPT ![t] = FALSE]
        /\ \/ UNCHANGED crs
           \/ crs' = [crs EXCEPT ![NsOf[t]][s] = IF @ = "live" THEN "deleting" ELSE @]
    BY <1>4 DEF CleanupCrs, Visit, Fails, regVars
  <2>2. Left(t)' = Left(t) /\ \A n \in Namespaces \ {NsOf[t]} : crs'[n] = crs[n]
    <3>1. CASE UNCHANGED crs
      BY <3>1 DEF Left
    <3>2. CASE crs' = [crs EXCEPT ![NsOf[t]][s] = IF @ = "live" THEN "deleting" ELSE @]
      <4>1. /\ \A r \in Services : crs'[NsOf[t]][r] = "none" <=> crs[NsOf[t]][r] = "none"
            /\ \A n \in Namespaces \ {NsOf[t]} : crs'[n] = crs[n]
        BY <1>0, <3>2
      <4> QED
        BY <4>1 DEF Left
    <3> QED
      BY <2>1, <3>1, <3>2
  <2>3. (ok'[t] => ok[t]) /\ \A u \in Scenarios \ {t} : ok'[u] = ok[u]
    BY <1>0, <2>1
  <2>4. CleanedAt(t)'
    BY <2>1, <2>2, <2>3 DEF Cleaned, CleanedAt
  <2> QED
    BY <1>0, <2>1, <2>2, <2>3, <2>4, OwnCleaned
<1>5. ASSUME NEW t \in Scenarios, NEW s \in Services, WaitCrsRemoved(t, s) PROVE Cleaned'
  <2>1. /\ pc[t] \in {"waitCw", "waitNs"} /\ UNCHANGED <<pc, reg, cwReg, notDeleted, crs>>
        /\ todo[t] # <<>> /\ s = Head(todo[t])
        /\ todo' = [todo EXCEPT ![t] = Tail(todo[t])]
        /\ \/ (s \in Listed => crs[NsOf[t]][s] = "none") /\ UNCHANGED ok
           \/ ok' = [ok EXCEPT ![t] = FALSE]
    BY <1>5 DEF WaitCrsRemoved, Visit, Fails, regVars, clusterVars
  <2>2. ToSet(todo[t]) = {s} \cup ToSet(todo'[t])
    BY <1>0, <2>1, ToSetTail
  <2>3. /\ ok'[t] => ok[t] /\ (s \in Listed => crs[NsOf[t]][s] = "none")
        /\ \A u \in Scenarios \ {t} : ok'[u] = ok[u]
    BY <1>0, <2>1
  <2>4. Left(t)' = Left(t) /\ (ok'[t] => s \notin Left(t))
    BY <2>1, <2>3 DEF Left
  <2>5. CleanedAt(t)'
    BY <2>1, <2>2, <2>3, <2>4 DEF Cleaned, CleanedAt
  <2> QED
    BY <1>0, <2>1, <2>3, <2>5, OwnCleaned
<1>6. ASSUME NEW t \in Scenarios, NEW s \in NsServices, UninstallFromNamespace(t, s)
      PROVE Cleaned'
  <2>1. /\ pc[t] = "uninstall" /\ UNCHANGED <<pc, reg, cwReg, crs>>
        /\ todo' = [todo EXCEPT ![t] = Tail(todo[t])]
        /\ \/ UNCHANGED <<ok, notDeleted>>
           \/ /\ ok' = [ok EXCEPT ![t] = FALSE]
              /\ notDeleted' = [notDeleted EXCEPT ![t] = Append(notDeleted[t], s)]
    BY <1>6 DEF UninstallFromNamespace, Visit, Fails, regVars
  <2>2. /\ ok'[t] => ok[t] /\ notDeleted'[t] = notDeleted[t]
        /\ \A u \in Scenarios \ {t} : ok'[u] = ok[u] /\ notDeleted'[u] = notDeleted[u]
    BY <1>0, <2>1
  <2>3. CleanedAt(t)'
    BY <2>1, <2>2 DEF Cleaned, CleanedAt, Left
  <2> QED
    BY <1>0, <2>1, <2>2, <2>3, OwnCleaned
<1>7. ASSUME NEW t \in Scenarios, StoreNotDeleted(t) PROVE Cleaned'
  <2>1. /\ pc[t] = "store" /\ pc' = [pc EXCEPT ![t] = "done"]
        /\ reg' = [reg EXCEPT ![NsOf[t]] = notDeleted[t]]
        /\ UNCHANGED <<todo, ok, notDeleted, cwReg, crs>>
    BY <1>7 DEF StoreNotDeleted, clusterVars
  <2>2. pc'[t] = "done" /\ reg'[NsOf[t]] = notDeleted[t] /\ Left(t)' = Left(t)
    BY <1>0, <2>1 DEF Left
  <2>3. CleanedAt(t)'
    BY <2>1, <2>2 DEF Cleaned, CleanedAt
  <2> QED
    BY <1>0, <2>1, <2>3, OwnCleaned
<1>8. ASSUME \/ UninstallSuite \/ UNCHANGED vars
             \/ \E n \in Namespaces, s \in Services : CrRemoved(n, s)
      PROVE Cleaned'
  <2>1. UNCHANGED <<pc, todo, ok, notDeleted, reg, cwReg>>
    BY <1>8 DEF UninstallSuite, SuiteBegin, RemoveDeleted, UninstallFromCluster, CrRemoved,
       vars, threadVars, regVars
  <2>2. \A n \in Namespaces, s \in Services : crs'[n][s] = crs[n][s] \/ crs'[n][s] = "none"
    <3>1. CASE UninstallSuite \/ UNCHANGED vars
      BY <3>1 DEF UninstallSuite, SuiteBegin, RemoveDeleted, UninstallFromCluster, vars,
         clusterVars
    <3>2. ASSUME NEW n \in Namespaces, NEW s \in Services, CrRemoved(n, s)
          PROVE  \A m \in Namespaces, r \in Services :
                    crs'[m][r] = crs[m][r] \/ crs'[m][r] = "none"
      BY <1>0, <3>2 DEF CrRemoved
    <3> QED
      BY <1>8, <3>1, <3>2
  <2> QED
    BY <1>0, <2>1, <2>2, SameCleaned DEF Cleaned
<1> QED
  BY <1>1, <1>2, <1>3, <1>4, <1>5, <1>6, <1>7, <1>8
  DEF Next, Install, Uninstall, Cluster, Terminated

\* All that is known of scenarios with namespaces of their own.
AloneInv == TypeInv /\ Deployers /\ InstalledOnce /\ Registered /\ Tracked /\ SuiteTracks
            /\ Cleaned

\* It is inductive.
LEMMA Alone == ASSUME OwnNamespaces PROVE Spec => []AloneInv
<1>1. Init => AloneInv
  <2> SUFFICES ASSUME Init PROVE AloneInv
    OBVIOUS
  <2>1. Registered /\ Tracked
    BY ConstAssumption DEF Init, Registered, RegisteredAt, Tracked
  <2>2. Deployers /\ InstalledOnce /\ SuiteTracks
    BY DEF Init, Deployers, InstalledOnce, SuiteTracks
  <2>3. Cleaned
    BY ConstAssumption DEF Init, Cleaned, CleanedAt, Left
  <2> QED
    BY <2>1, <2>2, <2>3, InitTypeInv DEF AloneInv
<1>2. AloneInv /\ [Next]_vars => AloneInv'
  BY StepTypeInv, StepDeployers, StepTracked, StepSuiteTracks, StepCleaned DEF AloneInv
<1> QED
  BY <1>1, <1>2, PTL DEF Spec

\* When every scenario has a namespace of its own, UninstallServicesFromNamespace returns
\* true only when no entry, no service of a reliable installer and no listed resource is
\* left.
THEOREM SuccessClean == ASSUME OwnNamespaces PROVE Spec => []SuccessMeansClean
<1>1. AloneInv => SuccessMeansClean
  <2> SUFFICES ASSUME AloneInv, NEW t \in Scenarios, pc[t] = "done", ok[t]
               PROVE  /\ deployed[NsOf[t]] \cap Reliable = {} /\ reg[NsOf[t]] = <<>>
                      /\ \A s \in Listed : crs[NsOf[t]][s] = "none"
    BY DEF SuccessMeansClean
  <2>1. Left(t) = {} /\ reg[NsOf[t]] = <<>>
    BY DEF AloneInv, Cleaned, CleanedAt
  <2>2. deployed[NsOf[t]] \subseteq ToSet(<<>>) \cup (Services \ Reliable)
    BY <2>1, ListedBefore DEF AloneInv, TrackedAt
  <2> QED
    BY <2>1, <2>2 DEF Left, ToSet
<1> QED
  BY <1>1, Alone, PTL

\* When every scenario has a namespace of its own, a service that lists its resources
\* is removed when none of them is left, or after an error of the same uninstallation.
THEOREM OutlivesResources == ASSUME OwnNamespaces PROVE Spec => OperatorOutlivesResources
<1> DEFINE Allowed == \A t \in Scenarios :
                         \A s \in Listed \cap (deployed[NsOf[t]] \ deployed'[NsOf[t]]) :
                            crs[NsOf[t]][s] = "none" \/ ~ok[t]
<1>1. AloneInv /\ [Next]_vars => [Allowed]_vars
  <2> SUFFICES ASSUME AloneInv, [Next]_vars, NEW t \in Scenarios,
                      NEW s \in Listed \cap (deployed[NsOf[t]] \ deployed'[NsOf[t]]), ok[t]
               PROVE  crs[NsOf[t]][s] = "none"
    OBVIOUS
  <2>1. deployed \in [Namespaces -> SUBSET NsServices] /\ NsOf[t] \in Namespaces
    BY ConstAssumption DEF AloneInv, TypeInv, TypeOK
  <2>2. PICK u \in Scenarios : \E r \in NsServices : UninstallFromNamespace(u, r) /\ NsOf[u] = NsOf[t]
    BY <2>1 DEF Next, Install, Uninstall, UninstallSuite, Cluster, Terminated, NsLoadOrStore,
       CwLoadOrStore, NsAppend, NsDeploy, NsWaitRunning, CwDeploy, CwWaitRunning, EndBody,
       CreateCr, EnterLoop, CleanupCrs, WaitCrsRemoved, StoreNotDeleted, SuiteBegin,
       RemoveDeleted, UninstallFromCluster, CrRemoved, UninstallFromNamespace, clusterVars, vars
  <2>3. u = t /\ pc[t] = "uninstall"
    BY <2>2 DEF OwnNamespaces, UninstallFromNamespace, Visit
  <2>4. Left(t) = {}
    BY <2>3 DEF AloneInv, Cleaned, CleanedAt
  <2> QED
    BY <2>1, <2>4 DEF Left, Services
<1> QED
  BY <1>1, Alone, PTL DEF Spec, OperatorOutlivesResources

-----------------------------------------------------------------------------
(* The part of SuiteEnds that needs no fairness: every scenario descends. *)

\* How far a scenario is from its end, in the order of its steps
Place(t) ==
    CASE pc[t] = "append"    -> 12
      [] pc[t] = "deploy"    -> 11
      [] pc[t] = "cwDeploy"  -> 11
      [] pc[t] = "wait"      -> 10
      [] pc[t] = "cwWait"    -> 10
      [] pc[t] = "body"      -> 9
      [] pc[t] = "end"       -> 8
      [] pc[t] = "cleanupCw" -> 7
      [] pc[t] = "cleanupNs" -> 6
      [] pc[t] = "waitCw"    -> 5
      [] pc[t] = "waitNs"    -> 4
      [] pc[t] = "uninstall" -> 3
      [] pc[t] = "store"     -> 2
      [] pc[t] = "done"      -> 1

\* What goes down: the installations it may still begin, its place, and the services
\* its loop has not visited, in lexicographic order.
Descends(t) ==
    \/ installs[t] < installs'[t] /\ installs'[t] <= MaxInstalls[t]
    \/ installs'[t] = installs[t] /\ Place(t)' < Place(t)
    \/ /\ installs'[t] = installs[t] /\ Place(t)' = Place(t)
       /\ Len(todo'[t]) < Len(todo[t])

\* No part of the order is another scenario's to raise.
Undisturbed(t) ==
    installs'[t] = installs[t] /\ Place(t)' = Place(t) /\ todo'[t] = todo[t]

\* A step of a scenario's hooks or installations brings it down, and everybody else's
\* steps, the suite's and the cluster's leave it where it is: an uninstallation does
\* not go on for ever, however the lists it shares with others change meanwhile.
ScenarioDescends ==
    [][\A t \in Scenarios :
          IF Install(t) \/ EndBody(t) \/ Uninstall(t) THEN Descends(t) ELSE Undisturbed(t)]_vars

\* The own steps of a scenario.
LEMMA OwnDescends ==
    ASSUME TypeOK, NEW t \in Scenarios, Install(t) \/ EndBody(t) \/ Uninstall(t)
    PROVE  Descends(t)
<1>0. /\ pc \in [Scenarios -> PcStates] /\ installs \in [Scenarios -> Nat]
      /\ todo \in [Scenarios -> Seq(Services)] /\ MaxInstalls[t] \in Nat
  BY ConstAssumption DEF TypeOK
<1> USE DEF Goto
<1>1. CASE \/ \E s \in NsServices : NsLoadOrStore(t, s)
           \/ \E c \in CwServices : CwLoadOrStore(t, c)
  <2>1. installs[t] < MaxInstalls[t] /\ installs'[t] = installs[t] + 1
    BY <1>0, <1>1 DEF NsLoadOrStore, CwLoadOrStore
  <2>2. installs[t] \in Nat
    BY <1>0
  <2> QED
    BY <1>0, <2>1, <2>2 DEF Descends
<1>2. CASE \/ NsAppend(t) \/ NsDeploy(t) \/ NsWaitRunning(t) \/ CwDeploy(t)
           \/ CwWaitRunning(t) \/ EndBody(t) \/ StoreNotDeleted(t)
  <2>1. installs' = installs
    BY <1>2 DEF NsAppend, NsDeploy, NsWaitRunning, CwDeploy, CwWaitRunning, EndBody,
       StoreNotDeleted
  <2>2. \/ pc[t] = "append" /\ pc'[t] = "deploy"
        \/ pc[t] = "deploy" /\ pc'[t] \in {"wait", "end"}
        \/ pc[t] = "cwDeploy" /\ pc'[t] \in {"cwWait", "end"}
        \/ pc[t] \in {"wait", "cwWait"} /\ pc'[t] \in {"body", "end"}
        \/ pc[t] = "body" /\ pc'[t] = "end"
        \/ pc[t] = "store" /\ pc'[t] = "done"
    BY <1>0, <1>2 DEF NsAppend, NsDeploy, NsWaitRunning, CwDeploy, CwWaitRunning, EndBody,
       StoreNotDeleted
  <2>3. Place(t)' < Place(t)
    BY <2>2 DEF Place
  <2> QED
    BY <2>1, <2>3 DEF Descends
<1>3. CASE EnterLoop(t)
  <2>1. installs' = installs /\ pc[t] \in {"end"} \cup Loops /\ pc'[t] = NextLoop(pc[t])
    BY <1>0, <1>3 DEF EnterLoop
  <2>2. Place(t)' < Place(t)
    BY <2>1 DEF Loops, NextLoop, Place
  <2> QED
    BY <2>1, <2>2 DEF Descends
<1>4. ASSUME NEW s \in Services, NEW loops \in SUBSET Loops, Visit(t, loops, s)
      PROVE  Descends(t)
  <2>1. /\ installs' = installs /\ pc' = pc
        /\ todo[t] \in Seq(Services) /\ todo[t] # <<>> /\ todo'[t] = Tail(todo[t])
    BY <1>0, <1>4 DEF Visit
  <2>2. Len(todo'[t]) < Len(todo[t])
    BY <2>1, HeadTailProperties
  <2>3. Place(t)' = Place(t)
    BY <2>1 DEF Place
  <2> QED
    BY <2>1, <2>2, <2>3 DEF Descends
<1>5. ASSUME NEW s \in Services, CleanupCrs(t, s) \/ WaitCrsRemoved(t, s) PROVE Descends(t)
  <2>1. Visit(t, {"cleanupCw", "cleanupNs"}, s) \/ Visit(t, {"waitCw", "waitNs"}, s)
    BY <1>5 DEF CleanupCrs, WaitCrsRemoved
  <2>2. {"cleanupCw", "cleanupNs"} \in SUBSET Loops /\ {"waitCw", "waitNs"} \in SUBSET Loops
    BY DEF Loops
  <2> QED
    BY <1>4, <2>1, <2>2
<1>6. ASSUME NEW s \in NsServices, UninstallFromNamespace(t, s) PROVE Descends(t)
  <2>1. Visit(t, {"uninstall"}, s) /\ s \in Services
    BY <1>6 DEF UninstallFromNamespace, Services
  <2>2. {"uninstall"} \in SUBSET Loops
    BY DEF Loops
  <2> QED
    BY <1>4, <2>1, <2>2
<1> QED
  BY <1>1, <1>2, <1>3, <1>5, <1>6 DEF Install, Uninstall

\* The steps of the others.
LEMMA OthersUndisturbed ==
    ASSUME TypeOK, NEW t \in Scenarios, [Next]_vars,
           ~(Install(t) \/ EndBody(t) \/ Uninstall(t))
    PROVE  Undisturbed(t)
<1> SUFFICES installs'[t] = installs[t] /\ pc'[t] = pc[t] /\ todo'[t] = todo[t]
  BY DEF Undisturbed, Place
<1>0. /\ pc \in [Scenarios -> PcStates] /\ installs \in [Scenarios -> Nat]
      /\ todo \in [Scenarios -> Seq(Services)]
  BY DEF TypeOK
<1> USE DEF Goto, threadVars
<1>1. ASSUME NEW u \in Scenarios, Install(u) \/ EndBody(u) \/ Uninstall(u)
      PROVE  installs'[t] = installs[t] /\ pc'[t] = pc[t] /\ todo'[t] = todo[t]
  <2>0. u # t
    BY <1>1
  <2>1. CASE Install(u) \/ EndBody(u)
    BY <1>0, <2>0, <2>1 DEF Install, NsLoadOrStore, NsAppend, NsDeploy, NsWaitRunning,
       CwLoadOrStore, CwDeploy, CwWaitRunning, EndBody
  <2>2. CASE Uninstall(u)
    BY <1>0, <2>0, <2>2 DEF Uninstall, EnterLoop, StoreNotDeleted, CleanupCrs,
       WaitCrsRemoved, UninstallFromNamespace, Visit
  <2> QED
    BY <1>1, <2>1, <2>2
<1>2. CASE \/ \E u \in Scenarios, s \in Services : CreateCr(u, s)
           \/ UninstallSuite \/ Cluster \/ Terminated \/ UNCHANGED vars
  BY <1>2 DEF CreateCr, UninstallSuite, SuiteBegin, UninstallFromCluster, RemoveDeleted,
     Cluster, CrRemoved, Terminated, vars
<1> QED
  BY <1>1, <1>2 DEF Next

\* Scenarios come to their end in their own steps alone, for any number of
\* scenarios, in shared namespaces too, and whatever fails.
THEOREM ScenariosDescend == Spec => ScenarioDescends
<1>1. TypeOK /\ [Next]_vars =>
        [\A t \in Scenarios :
            IF Install(t) \/ EndBody(t) \/ Uninstall(t) THEN Descends(t) ELSE Undisturbed(t)]_vars
  BY OwnDescends, OthersUndisturbed
<1> QED
  BY <1>1, TypeCorrect, PTL DEF Spec, ScenarioDescends
=============================================================================
