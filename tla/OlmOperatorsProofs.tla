------------------------- MODULE OlmOperatorsProofs -------------------------
(***************************************************************************)
(* Proofs about OlmOperators, for any scenarios and any number of versions *)
(* and whatever OLM and others do: what the registry, the label and the    *)
(* reports of the uninstallation are worth.                                *)
(***************************************************************************)
EXTENDS OlmOperators, TLAPS

\* Cluster wide, the one that registers the installer is the only one that looks
\* for the subscription and creates it.
OneCreator ==
    scope = "cluster" =>
        /\ loaded = "no" => \A u \in Users : pc[u] = "idle"
        /\ \A u \in Users : pc[u] \notin {"fetchGroup", "createGroup", "waitGroup", "conflict"}
        /\ \A u, v \in Users : pc[u] \in {"fetchSub", "createSub"}
                               /\ pc[v] \in {"fetchSub", "createSub"} => u = v
        /\ \A u \in Users : pc[u] = "createSub" => sub["own"].owner # "bdd"

\* Cluster wide, one uninstalls when all the others are over.
OneUninstalls ==
    scope = "cluster" =>
        \A u \in Users : pc[u] \in Uninstalling \cup Ended =>
            \A v \in Users \ {u} : pc[v] \in Over

\* At most one subscription is resolved; the CSVs in the cluster are then its current
\* one and older ones, and only the current one may be planned.
Chain ==
    /\ \A m, n \in Names : sub[m].current # 0 /\ sub[n].current # 0 => m = n
    /\ \A n \in Names : sub[n].installed <= sub[n].current
    /\ \A n \in Names : sub[n].current # 0 => \A v \in Versions :
          /\ csv[v] # "absent" => v <= sub[n].installed \/ v = sub[n].current
          /\ csv[v] = "planned" => v = sub[n].current /\ v # sub[n].installed

\* The CSV of a subscription is in the cluster, or planned; then the one it replaces,
\* if there is one, is in the cluster.
HasCsv(n) ==
    sub[n].current # 0 =>
        \/ csv[sub[n].current] = "present"
        \/ /\ csv[sub[n].current] = "planned"
           /\ sub[n].installed # 0 => csv[sub[n].installed] = "present"

\* What an undisturbed uninstallation knows: before it deletes the subscription, that
\* it is still the one it has read; later, that none is resolved as long as a CSV is
\* left, and that the one it has read is not to come (again).
Undisturbed(u) ==
    Unshared(u) =>
        /\ \A n \in Names : HasCsv(n)
        /\ pc[u] = "deleteSub" => sub["own"].owner = "bdd" /\ seen[u] <= sub["own"].installed
        /\ pc[u] \in {"fetchCsv", "deleteCsv"} /\ seen[u] # 0 =>
              /\ \A n \in Names : sub[n].current = 0
              /\ \E v \in Versions : csv[v] # "absent"
              /\ csv[seen[u]] # "planned"
        /\ pc[u] = "deleteCsv" => seen[u] # 0

IInv == /\ TypeOK /\ OneCreator /\ OneUninstalls /\ Chain
        /\ \A u \in Users : Undisturbed(u)

\* The invariant holds before anything is installed by the tests.
LEMMA InitIInv == Init => IInv
<1> SUFFICES ASSUME Init PROVE IInv
  OBVIOUS
<1>0. MaxVersion \in Nat /\ 0 \in 0 .. MaxVersion /\ "other" \in Names
  BY ConstAssumption DEF Names
<1>1. \A n \in Names : sub[n] = [owner |-> "nobody", current |-> 0, installed |-> 0]
  BY DEF Init, NoSubscription, Subscription
<1>2. TypeOK
  BY <1>0, <1>1 DEF Init, TypeOK, NoWorkload, Owners, NoSubscription, Subscription
<1>3. OneCreator /\ OneUninstalls
  BY DEF Init, OneCreator, OneUninstalls, Uninstalling, Ended
<1>4. Chain
  BY <1>1 DEF Init, Chain
<1>5. \A u \in Users : Undisturbed(u)
  BY <1>1 DEF Init, Undisturbed, HasCsv
<1> QED
  BY <1>2, <1>3, <1>4, <1>5 DEF IInv

-----------------------------------------------------------------------------
(* What OLM and others do. *)

\* They concern no scenario.
LEMMA OlmFrame == Olm => UNCHANGED <<scope, single, loaded, pc, seen>>
  BY DEF Olm, GroupReady, Deploy, ForeignSubscribes, SetInstalled, Resolve, Upgrade,
     InstallCsv, Replace, user

\* The cluster keeps its types.
LEMMA OlmTypeOK == TypeOK /\ Olm => TypeOK'
<1> SUFFICES ASSUME TypeOK, Olm PROVE TypeOK'
  OBVIOUS
<1>0. /\ MaxVersion \in Nat /\ Versions \subseteq 0 .. MaxVersion /\ 0 \in 0 .. MaxVersion
      /\ Names = {"own", "other"} /\ "other" \in Names
  BY ConstAssumption DEF Versions, Names
<1>1. UNCHANGED <<scope, single, loaded, pc, seen>>
  BY OlmFrame
<1> USE <1>0 DEF TypeOK
<1>2. CASE GroupReady
  BY <1>1, <1>2 DEF GroupReady
<1>3. CASE Deploy
  <2> DEFINE Typed(w) == w \in [of : 0 .. MaxVersion, available : BOOLEAN]
                         /\ (w.available => w.of # 0)
  <2>1. \A v \in Versions : Typed([of |-> v, available |-> FALSE])
    <3>1. Versions \subseteq 1 .. MaxVersion
      BY DEF Versions
    <3> QED
      BY <3>1
  <2>2. Typed(NoWorkload)
    BY DEF NoWorkload
  <2>3. workload.of # 0 => Typed([workload EXCEPT !.available = ~@])
    <3>1. workload \in [of : 0 .. MaxVersion, available : BOOLEAN]
      OBVIOUS
    <3>2. (~workload.available) \in BOOLEAN
      BY Zenon
    <3>3. /\ [workload EXCEPT !.available = ~@].of = workload.of
          /\ [workload EXCEPT !.available = ~@] \in [of : 0 .. MaxVersion, available : BOOLEAN]
      BY <3>1, <3>2, Zenon
    <3> QED
      BY <3>3
  <2>4. Typed(workload')
    BY <1>3, <2>1, <2>2, <2>3, Zenon DEF Deploy
  <2> QED
    BY <1>1, <1>3, <2>4 DEF Deploy
<1>4. ASSUME NEW n \in Names, ForeignSubscribes(n) PROVE TypeOK'
  <2>1. PICK o \in IF n = "own" THEN {"foreign", "elsewhere"} ELSE {"foreign"} :
            sub' = [sub EXCEPT ![n] = Subscription(o, 0, 0)]
    BY <1>4 DEF ForeignSubscribes
  <2>2. /\ Subscription(o, 0, 0) \in
              [owner : Owners, current : 0 .. MaxVersion, installed : 0 .. MaxVersion]
        /\ Subscription(o, 0, 0).current = 0 /\ Subscription(o, 0, 0).owner = o
    BY DEF Subscription, Owners
  <2>3. \A m \in Names \ {n} : sub'[m] = sub[m]
    BY <2>1
  <2>4. sub'["other"].owner \in {"nobody", "foreign"}
    BY <2>1, <2>2, <2>3
  <2> QED
    BY <1>1, <1>4, <2>1, <2>2, <2>3, <2>4 DEF ForeignSubscribes
<1>5. ASSUME NEW n \in Names, SetInstalled(n) PROVE TypeOK'
  BY <1>1, <1>5 DEF SetInstalled, Found
<1>6. ASSUME NEW n \in Names, NEW v \in Versions, Resolve(n, v) \/ Upgrade(n, v) PROVE TypeOK'
  BY <1>1, <1>6 DEF Resolve, Upgrade, Found
<1>7. ASSUME NEW v \in Versions, InstallCsv(v) \/ Replace(v) PROVE TypeOK'
  BY <1>1, <1>7 DEF InstallCsv, Replace
<1> QED
  BY <1>2, <1>3, <1>4, <1>5, <1>6, <1>7 DEF Olm

\* The numbers in a subscription are natural.
LEMMA Numbers ==
  ASSUME TypeOK
  PROVE  /\ MaxVersion \in Nat /\ Versions \subseteq Nat \ {0}
         /\ \A n \in Names : /\ sub[n].current \in Nat /\ sub[n].installed \in Nat
                             /\ sub[n].current # 0 => sub[n].current \in Versions
                             /\ sub[n].installed # 0 => sub[n].installed \in Versions
         /\ \A u \in Users : seen[u] \in Nat /\ (seen[u] # 0 => seen[u] \in Versions)
<1>1. MaxVersion \in Nat
  BY ConstAssumption
<1>2. \A n \in Names : sub[n].current \in 0 .. MaxVersion /\ sub[n].installed \in 0 .. MaxVersion
  BY DEF TypeOK
<1>3. \A u \in Users : seen[u] \in 0 .. MaxVersion
  BY DEF TypeOK
<1> QED
  BY <1>1, <1>2, <1>3 DEF Versions

\* Resolution, upgrades and their execution keep the chain, and what an undisturbed
\* uninstallation knows.
LEMMA OlmChain == IInv /\ Olm => Chain' /\ \A u \in Users : Undisturbed(u)'
<1> SUFFICES ASSUME IInv, Olm PROVE Chain' /\ \A u \in Users : Undisturbed(u)'
  OBVIOUS
<1>0. TypeOK /\ Chain /\ \A u \in Users : Undisturbed(u)
  BY DEF IInv
<1>1. UNCHANGED <<scope, pc, seen>> /\ \A u \in Users : Unshared(u)' <=> Unshared(u)
  BY OlmFrame DEF Unshared
<1>2. /\ sub \in [Names -> [owner : Owners, current : 0 .. MaxVersion, installed : 0 .. MaxVersion]]
      /\ csv \in [Versions -> {"absent", "planned", "present"}]
  BY <1>0 DEF TypeOK
<1>3. /\ MaxVersion \in Nat /\ Versions \subseteq Nat \ {0}
      /\ \A n \in Names : /\ sub[n].current \in Nat /\ sub[n].installed \in Nat
                          /\ sub[n].current # 0 => sub[n].current \in Versions
                          /\ sub[n].installed # 0 => sub[n].installed \in Versions
      /\ \A u \in Users : seen[u] \in Nat /\ (seen[u] # 0 => seen[u] \in Versions)
  BY <1>0, Numbers
<1>4. CASE UNCHANGED <<sub, csv>>
  BY <1>0, <1>1, <1>4 DEF Chain, Undisturbed, HasCsv
<1>5. ASSUME NEW n \in Names, ForeignSubscribes(n)
      PROVE  Chain' /\ \A u \in Users : Undisturbed(u)'
  <2>1. /\ sub[n].owner = "nobody" /\ sub[n].current = 0 /\ csv' = csv
        /\ \A m \in Names \ {n} : sub'[m] = sub[m]
        /\ sub'[n].current = 0 /\ sub'[n].installed = 0
    BY <1>0, <1>2, <1>5 DEF ForeignSubscribes, Subscription, TypeOK
  <2>2. \A m \in Names : /\ sub'[m].current = sub[m].current
                         /\ sub[m].current # 0 => sub'[m] = sub[m]
                         /\ sub[m].owner # "nobody" => sub'[m] = sub[m]
    BY <2>1
  <2>3. Chain'
    BY <1>0, <2>1, <2>2 DEF Chain
  <2>4. \A m \in Names : HasCsv(m) => HasCsv(m)'
    BY <2>1, <2>2 DEF HasCsv
  <2>5. "own" \in Names
    BY DEF Names
  <2> QED
    BY <1>0, <1>1, <2>1, <2>2, <2>3, <2>4, <2>5 DEF Undisturbed
<1>6. ASSUME NEW n \in Names, SetInstalled(n)
      PROVE  Chain' /\ \A u \in Users : Undisturbed(u)'
  <2>1. /\ sub[n].current # 0 /\ csv[sub[n].current] = "present" /\ csv' = csv
        /\ \A m \in Names \ {n} : sub'[m] = sub[m]
        /\ sub'[n].current = sub[n].current /\ sub'[n].installed = sub[n].current
        /\ sub'[n].owner = sub[n].owner
    BY <1>2, <1>6 DEF SetInstalled
  <2>2. \A v \in Versions : csv[v] # "planned"
    BY <1>0, <2>1 DEF Chain
  <2>3. Chain'
    <3>1. \A m \in Names : sub'[m].installed <= sub'[m].current
      BY <1>0, <1>3, <2>1 DEF Chain
    <3>2. /\ \A m \in Names : sub'[m].current = sub[m].current
          /\ \A m \in Names : sub'[m].current # 0 => m = n
      BY <1>0, <2>1 DEF Chain
    <3>3. ASSUME NEW w \in Versions
          PROVE  /\ csv'[w] # "absent" => w <= sub'[n].installed \/ w = sub'[n].current
                 /\ csv'[w] # "planned"
      <4>1. csv[w] # "absent" => w <= sub[n].installed \/ w = sub[n].current
        BY <1>0, <2>1 DEF Chain
      <4>2. sub[n].installed <= sub[n].current /\ w \in Nat
        BY <1>0, <1>3 DEF Chain
      <4> QED
        BY <1>3, <2>1, <2>2, <4>1, <4>2
    <3> QED
      BY <3>1, <3>2, <3>3 DEF Chain
  <2>4. \A m \in Names : HasCsv(m) => HasCsv(m)'
    BY <2>1 DEF HasCsv
  <2>5. sub["own"].installed <= sub'["own"].installed /\ sub'["own"].owner = sub["own"].owner
    BY <1>0, <1>3, <2>1 DEF Chain, Names
  <2>6. sub'["own"].installed \in Nat /\ sub["own"].installed \in Nat
    BY <1>3, <2>1 DEF Names
  <2> QED
    BY <1>0, <1>1, <1>3, <2>1, <2>3, <2>4, <2>5, <2>6 DEF Undisturbed
<1>7. ASSUME NEW n \in Names, NEW v \in Versions, Resolve(n, v)
      PROVE  Chain' /\ \A u \in Users : Undisturbed(u)'
  <2>1. /\ \A m \in Names : sub[m].current = 0
        /\ \A w \in Versions : csv[w] = "absent"
        /\ \A m \in Names \ {n} : sub'[m] = sub[m]
        /\ sub'[n].current = v /\ sub'[n].installed = sub[n].installed
        /\ sub'[n].owner = sub[n].owner
        /\ csv'[v] = "planned" /\ \A w \in Versions \ {v} : csv'[w] = "absent"
    BY <1>2, <1>7 DEF Resolve
  <2>2. sub[n].installed = 0
    BY <1>0, <1>3, <2>1 DEF Chain
  <2>3. Chain'
    BY <1>0, <1>3, <2>1, <2>2 DEF Chain
  <2>4. \A m \in Names : HasCsv(m)'
    BY <2>1, <2>2 DEF HasCsv
  <2>5. ASSUME NEW u \in Users, Unshared(u), pc[u] \in {"fetchCsv", "deleteCsv"}, seen[u] # 0
        PROVE  FALSE
    BY <1>0, <2>1, <2>5 DEF Undisturbed
  <2>6. sub'["own"].installed = sub["own"].installed /\ sub'["own"].owner = sub["own"].owner
    BY <2>1 DEF Names
  <2> QED
    BY <1>0, <1>1, <2>3, <2>4, <2>5, <2>6 DEF Undisturbed
<1>8. ASSUME NEW n \in Names, NEW v \in Versions, Upgrade(n, v)
      PROVE  Chain' /\ \A u \in Users : Undisturbed(u)'
  <2>1. /\ sub[n].current # 0 /\ sub[n].installed = sub[n].current /\ v > sub[n].current
        /\ csv[sub[n].current] = "present"
        /\ \A m \in Names \ {n} : sub'[m] = sub[m]
        /\ sub'[n].current = v /\ sub'[n].installed = sub[n].installed
        /\ sub'[n].owner = sub[n].owner
        /\ csv'[v] = "planned" /\ \A w \in Versions \ {v} : csv'[w] = csv[w]
    BY <1>2, <1>8 DEF Upgrade
  <2>2. /\ \A m \in Names \ {n} : sub[m].current = 0
        /\ \A w \in Versions : csv[w] # "planned"
    BY <1>0, <2>1 DEF Chain
  <2>3. csv'[sub[n].installed] = "present"
    BY <1>3, <2>1
  <2>4. Chain'
    <3>1. \A m \in Names : sub'[m].installed <= sub'[m].current
      BY <1>0, <1>3, <2>1 DEF Chain
    <3>2. \A m \in Names : sub'[m].current # 0 => m = n
      BY <2>1, <2>2
    <3>3. ASSUME NEW w \in Versions
          PROVE  /\ csv'[w] # "absent" => w <= sub'[n].installed \/ w = sub'[n].current
                 /\ csv'[w] = "planned" => w = sub'[n].current /\ w # sub'[n].installed
      BY <1>0, <1>3, <2>1, <2>2 DEF Chain
    <3> QED
      BY <3>1, <3>2, <3>3 DEF Chain
  <2>5. \A m \in Names : HasCsv(m)'
    BY <2>1, <2>2, <2>3 DEF HasCsv
  <2>6. ASSUME NEW u \in Users, Unshared(u), pc[u] \in {"fetchCsv", "deleteCsv"}, seen[u] # 0
        PROVE  FALSE
    BY <1>0, <2>1, <2>6 DEF Undisturbed
  <2>7. sub'["own"].installed = sub["own"].installed /\ sub'["own"].owner = sub["own"].owner
    BY <2>1 DEF Names
  <2> QED
    BY <1>0, <1>1, <2>4, <2>5, <2>6, <2>7 DEF Undisturbed
<1>9. ASSUME NEW v \in Versions, InstallCsv(v)
      PROVE  Chain' /\ \A u \in Users : Undisturbed(u)'
  <2>1. /\ csv[v] = "planned" /\ csv'[v] = "present" /\ sub' = sub
        /\ \A w \in Versions \ {v} : csv'[w] = csv[w]
    BY <1>2, <1>9 DEF InstallCsv
  <2>2. Chain'
    BY <1>0, <2>1 DEF Chain
  <2>3. \A m \in Names : HasCsv(m) => HasCsv(m)'
    BY <1>3, <2>1 DEF HasCsv
  <2>4. /\ (\E w \in Versions : csv[w] # "absent") => \E w \in Versions : csv'[w] # "absent"
        /\ \A w \in Versions : csv[w] # "planned" => csv'[w] # "planned"
    BY <2>1
  <2> QED
    BY <1>0, <1>1, <1>3, <2>1, <2>2, <2>3, <2>4 DEF Undisturbed
<1>10. ASSUME NEW v \in Versions, Replace(v)
       PROVE  Chain' /\ \A u \in Users : Undisturbed(u)'
  <2>1. /\ csv[v] = "present" /\ csv'[v] = "absent" /\ sub' = sub
        /\ \A w \in Versions \ {v} : csv'[w] = csv[w]
    BY <1>2, <1>10 DEF Replace
  <2>2. PICK w \in Versions : w > v /\ csv[w] = "present"
    BY <1>10 DEF Replace
  <2>3. csv'[w] = "present"
    BY <1>3, <2>1, <2>2
  <2>4. Chain'
    BY <1>0, <2>1 DEF Chain
  <2>5. ASSUME NEW m \in Names, HasCsv(m) PROVE HasCsv(m)'
    <3>1. CASE sub[m].current = 0
      BY <2>1, <3>1 DEF HasCsv
    <3>2. CASE sub[m].current # 0
      <4>1. w <= sub[m].installed \/ w = sub[m].current
        BY <1>0, <2>2, <3>2 DEF Chain
      <4>2. sub[m].installed <= sub[m].current
        BY <1>0 DEF Chain
      <4>3. v # sub[m].current
        BY <1>3, <2>2, <4>1, <4>2
      <4>4. CASE v = sub[m].installed
        <5>1. w = sub[m].current
          <6>1. w \in Nat /\ v \in Nat
            BY <1>3
          <6> QED
            BY <2>2, <4>1, <4>4, <6>1
        <5> QED
          BY <2>1, <2>3, <5>1 DEF HasCsv
      <4>5. CASE v # sub[m].installed
        BY <1>3, <2>1, <2>5, <4>3, <4>5 DEF HasCsv
      <4> QED
        BY <4>4, <4>5
    <3> QED
      BY <3>1, <3>2
  <2>6. /\ \E x \in Versions : csv'[x] # "absent"
        /\ \A x \in Versions : csv[x] # "planned" => csv'[x] # "planned"
    BY <2>1, <2>3
  <2> QED
    BY <1>0, <1>1, <1>3, <2>1, <2>4, <2>5, <2>6 DEF Undisturbed
<1> QED
  BY <1>4, <1>5, <1>6, <1>7, <1>8, <1>9, <1>10 DEF Olm, GroupReady, Deploy

\* OLM keeps the invariant.
LEMMA OlmStep == IInv /\ Olm => IInv'
<1> SUFFICES ASSUME IInv, Olm PROVE IInv'
  OBVIOUS
<1>1. TypeOK' /\ Chain' /\ \A u \in Users : Undisturbed(u)'
  BY OlmTypeOK, OlmChain DEF IInv
<1>2. sub["own"].owner # "bdd" => sub'["own"].owner # "bdd"
  <2>1. /\ "own" \in Names
        /\ sub \in [Names -> [owner : Owners, current : 0 .. MaxVersion, installed : 0 .. MaxVersion]]
    BY DEF IInv, TypeOK, Names
  <2> QED
    BY <2>1 DEF Olm, GroupReady, Deploy, ForeignSubscribes, SetInstalled, Resolve, Upgrade,
       InstallCsv, Replace, Subscription
<1>3. OneCreator' /\ OneUninstalls'
  BY <1>2, OlmFrame DEF IInv, OneCreator, OneUninstalls
<1> QED
  BY <1>1, <1>3 DEF IInv

-----------------------------------------------------------------------------
(* The steps of a scenario. *)

Acts(u) == \/ Install(u) \/ WaitRunning(u) \/ Timeout(u) \/ Uninstall(u) \/ Remove(u)

\* A scenario moves nobody else, and to a place it has.
LEMMA ActTypeOK ==
    ASSUME TypeOK, NEW u \in Users, Acts(u)
    PROVE  /\ TypeOK' /\ UNCHANGED <<scope, single>>
           /\ \A v \in Users \ {u} : pc'[v] = pc[v] /\ seen'[v] = seen[v]
<1>0. MaxVersion \in Nat /\ 0 \in 0 .. MaxVersion /\ "own" \in Names /\ "other" \in Names
  BY ConstAssumption DEF Names
<1> USE <1>0 DEF TypeOK, Goto, Read, Forget, olm, Installing, Over, Uninstalling, Ended
<1>1. CASE Start(u) \/ Uninstall(u)
  BY <1>1 DEF Start, Uninstall
<1>2. CASE FetchGroup(u) \/ CreateGroup(u) \/ GroupIsReady(u) \/ InstallCallFails(u)
  BY <1>2 DEF FetchGroup, CreateGroup, GroupIsReady, InstallCallFails
<1>3. CASE FetchSub(u)
  BY <1>3 DEF FetchSub
<1>4. CASE CreateSub(u)
  <2>1. Subscription("bdd", 0, 0) \in
          [owner : Owners, current : 0 .. MaxVersion, installed : 0 .. MaxVersion]
    BY DEF Subscription, Owners
  <2> QED
    BY <1>4, <2>1 DEF CreateSub, Subscription
<1>5. CASE PollSub(u)
  BY <1>5 DEF PollSub, Found
<1>6. CASE PollDeployments(u) \/ PollErrors(u) \/ PollCallFails(u) \/ Timeout(u)
  BY <1>6 DEF PollDeployments, PollErrors, PollCallFails, Timeout
<1>7. CASE GetSub(u)
  BY <1>7 DEF GetSub, Found
<1>8. CASE DeleteSub(u)
  <2>1. NoSubscription \in
          [owner : Owners, current : 0 .. MaxVersion, installed : 0 .. MaxVersion]
    BY DEF NoSubscription, Subscription, Owners
  <2> QED
    BY <1>8, <2>1 DEF DeleteSub, NoSubscription, Subscription
<1>9. CASE FetchCsv(u)
  BY <1>9 DEF FetchCsv
<1>10. CASE DeleteCsv(u)
  BY <1>10 DEF DeleteCsv
<1>11. CASE UninstallCallFails(u)
  BY <1>11 DEF UninstallCallFails
<1> QED
  BY <1>1, <1>2, <1>3, <1>4, <1>5, <1>6, <1>7, <1>8, <1>9, <1>10, <1>11
     DEF Acts, Install, WaitRunning, Remove

\* Three actions change what is subscribed to and installed.
LEMMA ActFrame ==
    ASSUME NEW u \in Users, Acts(u), ~CreateSub(u), ~DeleteSub(u), ~DeleteCsv(u)
    PROVE  UNCHANGED <<sub, csv, workload>>
  BY DEF Acts, Install, WaitRunning, Remove, Start, FetchGroup, CreateGroup, GroupIsReady,
     FetchSub, InstallCallFails, PollSub, PollDeployments, PollErrors, PollCallFails, Timeout,
     Uninstall, GetSub, FetchCsv, UninstallCallFails, olm

\* Whoever registers the installer is the only one to create.
LEMMA ActOneCreator ==
    ASSUME IInv, NEW u \in Users, Acts(u)
    PROVE  OneCreator'
<1> SUFFICES ASSUME scope = "cluster" PROVE OneCreator'
  BY ActTypeOK DEF IInv, OneCreator
<1>0. /\ \A v \in Users \ {u} : pc'[v] = pc[v]
      /\ pc \in [Users -> {"idle"} \cup Installing \cup Over \cup Uninstalling \cup Ended]
      /\ OneCreator /\ loaded \in {"no", "yes"}
  BY ActTypeOK DEF IInv, TypeOK
<1> USE DEF Goto, Installing, Over, Uninstalling, Ended, OneCreator
<1>1. CASE Start(u)
  BY <1>0, <1>1 DEF Start, olm
<1>2. CASE FetchGroup(u) \/ CreateGroup(u) \/ GroupIsReady(u) \/ InstallCallFails(u)
  BY <1>0, <1>2 DEF FetchGroup, CreateGroup, GroupIsReady, InstallCallFails, olm
<1>3. CASE FetchSub(u)
  BY <1>0, <1>3 DEF FetchSub, olm
<1>4. CASE CreateSub(u)
  <2>1. /\ pc[u] = "createSub" /\ pc'[u] \notin {"createSub", "fetchSub", "fetchGroup",
                                                 "createGroup", "waitGroup", "idle"}
        /\ pc'[u] = "conflict" => sub["own"].owner = "bdd"
        /\ loaded' = loaded
    BY <1>0, <1>4 DEF CreateSub
  <2> QED
    BY <1>0, <2>1
<1>5. CASE PollSub(u) \/ PollDeployments(u) \/ PollErrors(u) \/ PollCallFails(u) \/ Timeout(u)
  BY <1>0, <1>5 DEF PollSub, PollDeployments, PollErrors, PollCallFails, Timeout, olm
<1>6. CASE Uninstall(u) \/ GetSub(u) \/ FetchCsv(u) \/ DeleteCsv(u) \/ UninstallCallFails(u)
  BY <1>0, <1>6 DEF Uninstall, GetSub, FetchCsv, DeleteCsv, UninstallCallFails, olm
<1>7. CASE DeleteSub(u)
  <2>1. /\ pc[u] = "deleteSub" /\ pc'[u] \in {"notRemoved", "fetchCsv"} /\ loaded' = loaded
        /\ \A v \in Users : pc[v] # "createSub"
    BY <1>0, <1>7 DEF DeleteSub, IInv, OneUninstalls
  <2> QED
    BY <1>0, <2>1
<1> QED
  BY <1>1, <1>2, <1>3, <1>4, <1>5, <1>6, <1>7 DEF Acts, Install, WaitRunning, Remove

\* The suite uninstalls when all scenarios are over, once.
LEMMA ActOneUninstalls ==
    ASSUME IInv, NEW u \in Users, Acts(u)
    PROVE  OneUninstalls'
<1> SUFFICES ASSUME scope = "cluster" PROVE OneUninstalls'
  BY ActTypeOK DEF IInv, OneUninstalls
<1>0. /\ \A v \in Users \ {u} : pc'[v] = pc[v]
      /\ pc \in [Users -> {"idle"} \cup Installing \cup Over \cup Uninstalling \cup Ended]
      /\ OneUninstalls
  BY ActTypeOK DEF IInv, TypeOK
<1> USE DEF Goto, Installing, Over, Uninstalling, Ended, OneUninstalls
<1>1. CASE Start(u) \/ FetchGroup(u) \/ CreateGroup(u) \/ GroupIsReady(u)
           \/ FetchSub(u) \/ CreateSub(u) \/ InstallCallFails(u)
  BY <1>0, <1>1 DEF Start, FetchGroup, CreateGroup, GroupIsReady, FetchSub, CreateSub,
     InstallCallFails
<1>2. CASE PollSub(u) \/ PollDeployments(u) \/ PollErrors(u) \/ PollCallFails(u) \/ Timeout(u)
  BY <1>0, <1>2 DEF PollSub, PollDeployments, PollErrors, PollCallFails, Timeout
<1>3. CASE Uninstall(u)
  BY <1>0, <1>3 DEF Uninstall
<1>4. CASE GetSub(u) \/ DeleteSub(u) \/ FetchCsv(u) \/ DeleteCsv(u) \/ UninstallCallFails(u)
  BY <1>0, <1>4 DEF GetSub, DeleteSub, FetchCsv, DeleteCsv, UninstallCallFails
<1> QED
  BY <1>1, <1>2, <1>3, <1>4 DEF Acts, Install, WaitRunning, Remove

\* A subscription is created without a CSV, deleted with what it says of them, and CSVs
\* are deleted, which leaves the chain.
LEMMA ActChain ==
    ASSUME IInv, NEW u \in Users, Acts(u)
    PROVE  Chain'
<1>0. /\ TypeOK /\ Chain /\ "own" \in Names
      /\ sub \in [Names -> [owner : Owners, current : 0 .. MaxVersion, installed : 0 .. MaxVersion]]
      /\ csv \in [Versions -> {"absent", "planned", "present"}]
  BY DEF IInv, TypeOK, Names
<1>1. CASE CreateSub(u) \/ DeleteSub(u)
  <2>1. /\ csv' = csv /\ \A m \in Names \ {"own"} : sub'[m] = sub[m]
        /\ \/ sub'["own"] = sub["own"]
           \/ sub'["own"].current = 0 /\ sub'["own"].installed = 0
    BY <1>0, <1>1 DEF CreateSub, DeleteSub, NoSubscription, Subscription
  <2> QED
    BY <1>0, <2>1 DEF Chain
<1>2. CASE DeleteCsv(u)
  <2>1. sub' = sub /\ \A v \in Versions : csv'[v] = csv[v] \/ csv'[v] = "absent"
    BY <1>0, <1>2 DEF DeleteCsv
  <2> QED
    BY <1>0, <2>1 DEF Chain
<1>3. CASE ~CreateSub(u) /\ ~DeleteSub(u) /\ ~DeleteCsv(u)
  BY <1>0, <1>3, ActFrame DEF Chain
<1> QED
  BY <1>1, <1>2, <1>3

\* In a namespace of its own only the uninstalling scenario acts, and cluster wide it is
\* the only one that is not over.
LEMMA Alone ==
    ASSUME IInv, NEW u \in Users, Acts(u), NEW w \in Users, w # u, Unshared(w)'
    PROVE  /\ Unshared(w) /\ scope = "cluster"
           /\ pc[w] \in {"deleteSub", "fetchCsv", "deleteCsv"} => pc[u] \in Over /\ FALSE
<1>0. /\ \A v \in Users \ {u} : pc'[v] = pc[v]
      /\ pc \in [Users -> {"idle"} \cup Installing \cup Over \cup Uninstalling \cup Ended]
      /\ scope' = scope /\ OneUninstalls
  BY ActTypeOK DEF IInv, TypeOK
<1> USE DEF Goto, Installing, Over, Uninstalling, Ended
<1>1. pc'[u] # "idle"
  BY <1>0 DEF Acts, Install, WaitRunning, Remove, Start, FetchGroup, CreateGroup, GroupIsReady,
     FetchSub, CreateSub, InstallCallFails, PollSub, PollDeployments, PollErrors,
     PollCallFails, Timeout, Uninstall, GetSub, DeleteSub, FetchCsv, DeleteCsv,
     UninstallCallFails
<1>2. scope = "cluster" /\ Unshared(w)
  BY <1>0, <1>1 DEF Unshared
<1>3. ASSUME pc[w] \in {"deleteSub", "fetchCsv", "deleteCsv"} PROVE FALSE
  <2>1. pc[u] \in Over
    BY <1>0, <1>2, <1>3 DEF OneUninstalls
  <2>2. \A v \in Users : pc[v] \in Over
    BY <1>0, <1>2, <2>1 DEF Acts, Install, WaitRunning, Remove, Start, FetchGroup, CreateGroup,
       GroupIsReady, FetchSub, CreateSub, InstallCallFails, PollSub, PollDeployments,
       PollErrors, PollCallFails, Timeout, Uninstall, GetSub, DeleteSub, FetchCsv, DeleteCsv,
       UninstallCallFails
  <2> QED
    BY <1>3, <2>2
<1> QED
  BY <1>2, <1>3

\* Its own steps keep what an undisturbed uninstallation knows.
LEMMA ActUndisturbed ==
    ASSUME IInv, NEW u \in Users, Acts(u), NEW w \in Users
    PROVE  Undisturbed(w)'
<1> SUFFICES ASSUME Unshared(w)' PROVE Undisturbed(w)'
  BY DEF Undisturbed
<1>0. /\ TypeOK /\ TypeOK' /\ Chain /\ Undisturbed(u) /\ Undisturbed(w)
      /\ \A v \in Users \ {u} : pc'[v] = pc[v] /\ seen'[v] = seen[v]
  BY ActTypeOK DEF IInv
<1>1. Unshared(w) /\ Unshared(u)
  <2>1. CASE w # u
    BY <2>1, Alone DEF Unshared
  <2>2. CASE w = u
    BY <1>0, <2>2, ActTypeOK DEF Unshared
  <2> QED
    BY <2>1, <2>2
<1>2. /\ "own" \in Names /\ u \in DOMAIN pc /\ u \in DOMAIN seen
      /\ pc \in [Users -> {"idle"} \cup Installing \cup Over \cup Uninstalling \cup Ended]
      /\ sub \in [Names -> [owner : Owners, current : 0 .. MaxVersion, installed : 0 .. MaxVersion]]
      /\ csv \in [Versions -> {"absent", "planned", "present"}]
      /\ seen \in [Users -> 0 .. MaxVersion]
  BY <1>0 DEF TypeOK, Names
<1>3. /\ MaxVersion \in Nat /\ Versions \subseteq Nat \ {0}
      /\ \A n \in Names : /\ sub[n].current \in Nat /\ sub[n].installed \in Nat
                          /\ sub[n].current # 0 => sub[n].current \in Versions
                          /\ sub[n].installed # 0 => sub[n].installed \in Versions
      /\ \A v \in Users : seen[v] \in Nat /\ (seen[v] # 0 => seen[v] \in Versions)
  BY <1>0, Numbers
<1> DEFINE Places == {"deleteSub", "fetchCsv", "deleteCsv"}
<1>4. \A n \in Names : HasCsv(n)'
  <2>1. CASE CreateSub(u) \/ DeleteSub(u)
    <3>1. /\ csv' = csv /\ \A m \in Names \ {"own"} : sub'[m] = sub[m]
          /\ \/ sub'["own"] = sub["own"]
             \/ sub'["own"].current = 0
      BY <1>2, <2>1 DEF CreateSub, DeleteSub, NoSubscription, Subscription
    <3> QED
      BY <1>0, <1>1, <3>1 DEF Undisturbed, HasCsv
  <2>2. CASE DeleteCsv(u)
    <3>1. sub' = sub /\ \A n \in Names : sub[n].current = 0
      BY <1>0, <1>1, <2>2 DEF DeleteCsv, Undisturbed, Goto
    <3> QED
      BY <3>1 DEF HasCsv
  <2>3. CASE ~CreateSub(u) /\ ~DeleteSub(u) /\ ~DeleteCsv(u)
    BY <1>0, <1>1, <2>3, ActFrame DEF Undisturbed, HasCsv
  <2> QED
    BY <2>1, <2>2, <2>3
<1>5. CASE w # u
  <2>1. pc'[w] \notin Places
    BY <1>0, <1>5, Alone
  <2> QED
    BY <1>4, <2>1 DEF Undisturbed
<1>6. CASE w = u
  <2>1. CASE pc'[u] \notin Places
    BY <1>4, <1>6, <2>1 DEF Undisturbed
  <2>2. CASE pc'[u] = "deleteSub"
    <3>1. GetSub(u)
      BY <1>2, <2>2 DEF Acts, Install, WaitRunning, Remove, Start, FetchGroup, CreateGroup,
         GroupIsReady, FetchSub, CreateSub, InstallCallFails, PollSub, PollDeployments,
         PollErrors, PollCallFails, Timeout, Uninstall, DeleteSub, FetchCsv, DeleteCsv,
         UninstallCallFails, Goto
    <3>2. PICK n \in Names : sub[n].owner = "bdd" /\ seen' = [seen EXCEPT ![u] = sub[n].installed]
      BY <1>2, <2>2, <3>1 DEF GetSub, Goto, Found, Read
    <3>3. n = "own"
      BY <1>0, <3>2 DEF TypeOK, Names
    <3>4. sub' = sub /\ seen'[u] = sub["own"].installed
      BY <1>2, <3>1, <3>2, <3>3 DEF GetSub, olm
    <3> QED
      BY <1>3, <1>4, <1>6, <2>2, <3>2, <3>3, <3>4 DEF Undisturbed
  <2>3. CASE pc'[u] = "fetchCsv"
    <3>1. DeleteSub(u)
      BY <1>2, <2>3 DEF Acts, Install, WaitRunning, Remove, Start, FetchGroup, CreateGroup,
         GroupIsReady, FetchSub, CreateSub, InstallCallFails, PollSub, PollDeployments,
         PollErrors, PollCallFails, Timeout, Uninstall, GetSub, FetchCsv, DeleteCsv,
         UninstallCallFails, Goto
    <3>2. /\ pc[u] = "deleteSub" /\ seen' = seen /\ csv' = csv
          /\ sub'["own"].current = 0 /\ \A m \in Names \ {"own"} : sub'[m] = sub[m]
      BY <1>2, <2>3, <3>1 DEF DeleteSub, Goto, NoSubscription, Subscription
    <3>3. seen[u] <= sub["own"].installed /\ HasCsv("own")
      BY <1>0, <1>1, <1>2, <3>2 DEF Undisturbed
    <3>4. ASSUME seen[u] # 0
          PROVE  /\ \A n \in Names : sub'[n].current = 0
                 /\ \E v \in Versions : csv[v] # "absent"
                 /\ csv[seen[u]] # "planned"
      <4>1. sub["own"].installed <= sub["own"].current /\ sub["own"].current # 0
        BY <1>0, <1>2, <1>3, <3>3, <3>4 DEF Chain
      <4>2. \A n \in Names : sub'[n].current = 0
        BY <1>0, <1>2, <3>2, <4>1 DEF Chain
      <4>3. csv[sub["own"].current] # "absent" /\ sub["own"].current \in Versions
        BY <1>2, <1>3, <3>3, <4>1 DEF HasCsv
      <4>4. csv[seen[u]] # "planned"
        <5>1. csv[seen[u]] = "planned" => seen[u] = sub["own"].current /\ seen[u] # sub["own"].installed
          BY <1>0, <1>2, <1>3, <3>4, <4>1 DEF Chain
        <5> QED
          BY <1>2, <1>3, <3>3, <4>1, <5>1
      <4> QED
        BY <4>2, <4>3, <4>4
    <3> QED
      BY <1>4, <1>6, <2>3, <3>2, <3>4 DEF Undisturbed
  <2>4. CASE pc'[u] = "deleteCsv"
    <3>1. FetchCsv(u)
      BY <1>2, <2>4 DEF Acts, Install, WaitRunning, Remove, Start, FetchGroup, CreateGroup,
         GroupIsReady, FetchSub, CreateSub, InstallCallFails, PollSub, PollDeployments,
         PollErrors, PollCallFails, Timeout, Uninstall, GetSub, DeleteSub, DeleteCsv,
         UninstallCallFails, Goto
    <3>2. pc[u] = "fetchCsv" /\ seen[u] # 0 /\ UNCHANGED <<seen, sub, csv>>
      BY <1>2, <2>4, <3>1 DEF FetchCsv, Goto, olm
    <3> QED
      BY <1>0, <1>1, <1>4, <1>6, <2>4, <3>2 DEF Undisturbed
  <2> QED
    BY <2>1, <2>2, <2>3, <2>4
<1> QED
  BY <1>5, <1>6

\* Every step keeps the invariant.
LEMMA StepIInv == IInv /\ [Next]_vars => IInv'
<1> SUFFICES ASSUME IInv, [Next]_vars PROVE IInv'
  OBVIOUS
<1>1. CASE Olm
  BY <1>1, OlmStep
<1>2. ASSUME NEW u \in Users, Acts(u) PROVE IInv'
  <2>1. TypeOK'
    BY <1>2, ActTypeOK DEF IInv
  <2>2. OneCreator' /\ OneUninstalls' /\ Chain'
    BY <1>2, ActOneCreator, ActOneUninstalls, ActChain
  <2>3. \A w \in Users : Undisturbed(w)'
    BY <1>2, ActUndisturbed
  <2> QED
    BY <2>1, <2>2, <2>3 DEF IInv
<1>3. CASE UNCHANGED vars
  BY <1>3 DEF vars, olm, user, IInv, TypeOK, OneCreator, OneUninstalls, Chain, Undisturbed,
     Unshared, HasCsv
<1> QED
  BY <1>1, <1>2, <1>3 DEF Next, Acts, Terminated

LEMMA AlwaysIInv == Spec => []IInv
  BY InitIInv, StepIInv, PTL DEF Spec

\* Cluster, registry and places of the scenarios keep their types, with any number
\* of scenarios and versions.
THEOREM TypeCorrect == Spec => []TypeOK
<1>1. IInv => TypeOK
  BY DEF IInv
<1> QED
  BY <1>1, AlwaysIInv, PTL

\* With any number of scenarios, the registry of the cluster wide installers keeps
\* fetch and creation of the subscription together.
THEOREM NoClusterConflict == Spec => []RegistryPreventsConflict
<1>1. IInv => RegistryPreventsConflict
  BY DEF IInv, OneCreator, RegistryPreventsConflict
<1> QED
  BY <1>1, AlwaysIInv, PTL

\* An uninstallation that takes a step takes it itself, and is one of these.
LEMMA RemoveStep ==
    ASSUME IInv, Next, NEW u \in Users, pc[u] \in Uninstalling, pc'[u] # pc[u]
    PROVE  Remove(u)
<1>1. ~Olm /\ ~Terminated
  BY OlmFrame DEF Terminated, vars, user
<1>2. PICK w \in Users : Acts(w)
  BY <1>1 DEF Next, Acts
<1>3. w = u
  BY <1>2, ActTypeOK DEF IInv
<1> USE <1>2, <1>3 DEF Goto, Uninstalling, Over, Ended
<1>4. ~Install(u)
  BY DEF Install, Start, FetchGroup, CreateGroup, GroupIsReady, FetchSub, CreateSub,
     InstallCallFails
<1>5. ~WaitRunning(u) /\ ~Timeout(u)
  BY DEF WaitRunning, PollSub, PollDeployments, PollErrors, PollCallFails, Timeout
<1>6. ~Uninstall(u)
  BY DEF Uninstall
<1> QED
  BY <1>4, <1>5, <1>6 DEF Acts

\* Whatever others subscribe to, between the calls of an uninstallation that shares its
\* namespace with no other: it deletes none of their subscriptions, nor their CSVs.
THEOREM ForeignSurvives == Spec => ForeignUntouched
<1>1. ASSUME IInv, [Next]_vars, NEW u \in Users,
             Unshared(u), pc[u] \in Uninstalling, pc'[u] # pc[u]
      PROVE  ForeignsStay
  <2>1. Remove(u)
    BY <1>1, RemoveStep DEF vars, user
  <2>2. Undisturbed(u) /\ "own" \in Names
        /\ sub \in [Names -> [owner : Owners, current : 0 .. MaxVersion, installed : 0 .. MaxVersion]]
    BY <1>1 DEF IInv, TypeOK, Names
  <2>3. CASE DeleteSub(u)
    <3>1. sub["own"].owner = "bdd"
      BY <1>1, <2>2, <2>3 DEF DeleteSub, Goto, Undisturbed
    <3>2. csv' = csv /\ \A n \in Names \ {"own"} : sub'[n] = sub[n]
      BY <2>2, <2>3 DEF DeleteSub
    <3> QED
      BY <3>1, <3>2 DEF ForeignsStay
  <2>4. CASE DeleteCsv(u)
    <3>1. sub' = sub /\ \A n \in Names : sub[n].current = 0
      BY <1>1, <2>2, <2>4 DEF DeleteCsv, Goto, Undisturbed
    <3> QED
      BY <3>1 DEF ForeignsStay
  <2>5. CASE GetSub(u) \/ FetchCsv(u) \/ UninstallCallFails(u)
    BY <2>5 DEF GetSub, FetchCsv, UninstallCallFails, olm, ForeignsStay
  <2> QED
    BY <2>1, <2>3, <2>4, <2>5 DEF Remove
<1>2. IInv /\ [Next]_vars
      => (\A u \in Users : Unshared(u) /\ pc[u] \in Uninstalling /\ pc'[u] # pc[u]
            => ForeignsStay)
  BY <1>1
<1> QED
  BY <1>2, AlwaysIInv, PTL DEF Spec, ForeignUntouched

\* An uninstallation that reports success after it has deleted the subscription.
Succeeds(u) == Unshared(u) /\ pc[u] \in {"fetchCsv", "deleteCsv"} /\ pc'[u] = "removed"

\* It has read a CSV, which is gone.
LEMMA SuccessStep ==
    ASSUME IInv, [Next]_vars, NEW u \in Users, Succeeds(u)
    PROVE  seen[u] \in Versions /\ csv'[seen[u]] = "absent"
<1>1. Remove(u) /\ pc' # pc
  BY RemoveStep DEF vars, user, Succeeds, Uninstalling
<1>2. /\ Undisturbed(u)
      /\ seen[u] # 0 => seen[u] \in Versions
      /\ csv \in [Versions -> {"absent", "planned", "present"}]
      /\ pc \in [Users -> {"idle"} \cup Installing \cup Over \cup Uninstalling \cup Ended]
  BY Numbers DEF IInv, TypeOK
<1>3. CASE FetchCsv(u)
  <2>1. seen[u] # 0 /\ csv[seen[u]] # "present" /\ pc[u] = "fetchCsv" /\ csv' = csv
    BY <1>2, <1>3 DEF FetchCsv, Goto, Succeeds, olm
  <2>2. csv[seen[u]] # "planned"
    BY <1>2, <2>1 DEF Undisturbed, Succeeds
  <2> QED
    BY <1>2, <2>1, <2>2
<1>4. CASE DeleteCsv(u)
  <2>1. pc[u] = "deleteCsv" /\ csv' = [csv EXCEPT ![seen[u]] = "absent"]
    BY <1>2, <1>4 DEF DeleteCsv, Goto, Succeeds
  <2>2. seen[u] # 0
    BY <1>2, <2>1 DEF Undisturbed, Succeeds
  <2> QED
    BY <1>2, <2>1, <2>2
<1>5. ~GetSub(u) /\ ~DeleteSub(u) /\ ~UninstallCallFails(u)
  BY <1>2 DEF GetSub, DeleteSub, UninstallCallFails, Goto, Succeeds, Uninstalling
<1> QED
  BY <1>1, <1>3, <1>4, <1>5 DEF Remove

\* Success means that the installed CSV is gone, whatever upgrades OLM has made or begun
\* since it was read, and whatever runs before left.
THEOREM SuccessLeavesOtherVersions == Spec => SuccessLeavesOnlyUpgrades
<1>1. ASSUME IInv, [Next]_vars, NEW u \in Users, Succeeds(u)
      PROVE  seen[u] # 0 /\ \A v \in Versions : csv'[v] # "absent" => v # seen[u]
  <2>1. seen[u] \in Versions /\ csv'[seen[u]] = "absent"
    BY <1>1, SuccessStep
  <2>2. 0 \notin Versions
    BY ConstAssumption DEF Versions
  <2> QED
    BY <2>1, <2>2
<1>2. IInv /\ [Next]_vars
      => (\A u \in Users : /\ Unshared(u)
                           /\ pc[u] \in {"fetchCsv", "deleteCsv"} /\ pc'[u] = "removed"
            => /\ seen[u] # 0
               /\ \A v \in Versions : csv'[v] # "absent" => v # seen[u])
  BY <1>1 DEF Succeeds
<1> QED
  BY <1>2, AlwaysIInv, PTL DEF Spec, SuccessLeavesOnlyUpgrades

\* An operator whose channel has one version leaves nothing.
FixedVersionLeavesNothing ==
    [][\A u \in Users : Succeeds(u) => \A v \in Versions : csv'[v] = "absent"]_vars

\* Where OLM cannot upgrade, a success after the deletion of the subscription means
\* that neither a CSV nor a plan of one is left for the next installation to fail on.
THEOREM FixedVersionClean == MaxVersion = 1 => (Spec => FixedVersionLeavesNothing)
<1> SUFFICES ASSUME MaxVersion = 1 PROVE Spec => FixedVersionLeavesNothing
  OBVIOUS
<1>1. ASSUME IInv, [Next]_vars, NEW u \in Users, Succeeds(u), NEW v \in Versions
      PROVE  csv'[v] = "absent"
  <2>1. seen[u] \in Versions /\ csv'[seen[u]] = "absent"
    BY <1>1, SuccessStep
  <2>2. seen[u] = v
    BY <2>1 DEF Versions
  <2> QED
    BY <2>1, <2>2
<1>2. IInv /\ [Next]_vars
      => (\A u \in Users : Succeeds(u) => \A v \in Versions : csv'[v] = "absent")
  BY <1>1
<1> QED
  BY <1>2, AlwaysIInv, PTL DEF Spec, FixedVersionLeavesNothing

-----------------------------------------------------------------------------
(* Until the suite uninstalls. *)

NobodyRemoves == scope = "cluster" /\ \A u \in Users : pc[u] \notin Uninstalling \cup Ended

Subscribed == \E n \in Found : sub[n].current # 0
CsvPresent == \E v \in Versions : csv[v] = "present"

\* A scenario that found the operator running has seen a resolved subscription and a
\* deployment, which has come with a CSV.
Kept ==
    NobodyRemoves =>
        /\ workload.of # 0 => CsvPresent
        /\ \A u \in Users : pc[u] = "pollDeployments" => seen[u] # 0 /\ Subscribed
        /\ \A u \in Users : pc[u] = "running" => Subscribed /\ CsvPresent

\* OLM leaves a resolved subscription and one CSV at least.
LEMMA OlmKept == IInv /\ Kept /\ Olm => Kept'
<1> SUFFICES ASSUME IInv, Kept, Olm, NobodyRemoves' PROVE Kept'
  BY DEF Kept
<1>1. UNCHANGED <<scope, pc, seen>> /\ NobodyRemoves
  BY OlmFrame DEF NobodyRemoves
<1>2. /\ sub \in [Names -> [owner : Owners, current : 0 .. MaxVersion, installed : 0 .. MaxVersion]]
      /\ csv \in [Versions -> {"absent", "planned", "present"}]
      /\ \A n \in Names : sub[n].owner = "nobody" => sub[n].current = 0
      /\ 0 \notin Versions
  BY ConstAssumption DEF IInv, TypeOK, Versions
<1>3. Subscribed => Subscribed'
  <2> SUFFICES ASSUME NEW n \in Names, sub[n].owner \in {"bdd", "foreign"}, sub[n].current # 0
               PROVE  sub'[n].owner = sub[n].owner /\ sub'[n].current # 0
    BY DEF Subscribed, Found
  <2>1. CASE UNCHANGED sub
    BY <2>1
  <2>2. ASSUME NEW m \in Names, ForeignSubscribes(m) PROVE sub'[n] = sub[n]
    BY <1>2, <2>2 DEF ForeignSubscribes
  <2>3. ASSUME NEW m \in Names, SetInstalled(m)
        PROVE  sub'[n].owner = sub[n].owner /\ sub'[n].current # 0
    BY <1>2, <2>3 DEF SetInstalled
  <2>4. ASSUME NEW m \in Names, NEW v \in Versions, Resolve(m, v) \/ Upgrade(m, v)
        PROVE  sub'[n].owner = sub[n].owner /\ sub'[n].current # 0
    BY <1>2, <2>4 DEF Resolve, Upgrade
  <2> QED
    BY <2>1, <2>2, <2>3, <2>4 DEF Olm, GroupReady, Deploy, InstallCsv, Replace
<1>4. CsvPresent => CsvPresent'
  <2> SUFFICES ASSUME CsvPresent PROVE CsvPresent'
    OBVIOUS
  <2>1. CASE UNCHANGED csv
    BY <2>1 DEF CsvPresent
  <2>2. ASSUME NEW m \in Names, NEW v \in Versions, Resolve(m, v) PROVE FALSE
    BY <2>2 DEF Resolve, CsvPresent
  <2>3. ASSUME NEW m \in Names, NEW v \in Versions, Upgrade(m, v) PROVE CsvPresent'
    <3>1. sub[m].current \in Versions /\ sub[m].current # v /\ csv[sub[m].current] = "present"
      <4>1. sub[m].current \in Nat /\ (sub[m].current # 0 => sub[m].current \in Versions)
            /\ v \in Nat
        BY <2>3, Numbers DEF IInv
      <4> QED
        BY <2>3, <4>1 DEF Upgrade
    <3> QED
      BY <1>2, <2>3, <3>1 DEF Upgrade, CsvPresent
  <2>4. ASSUME NEW v \in Versions, InstallCsv(v) PROVE CsvPresent'
    BY <1>2, <2>4 DEF InstallCsv, CsvPresent
  <2>5. ASSUME NEW v \in Versions, Replace(v) PROVE CsvPresent'
    <3>1. PICK w \in Versions : w > v /\ csv[w] = "present"
      BY <2>5 DEF Replace
    <3>2. w # v
      BY <3>1 DEF Versions
    <3> QED
      BY <1>2, <2>5, <3>1, <3>2 DEF Replace, CsvPresent
  <2> QED
    BY <2>1, <2>2, <2>3, <2>4, <2>5 DEF Olm, GroupReady, Deploy, ForeignSubscribes, SetInstalled
<1>5. workload'.of # 0 => workload.of # 0 \/ CsvPresent
  BY DEF Olm, GroupReady, Deploy, ForeignSubscribes, SetInstalled, Resolve, Upgrade, InstallCsv,
     Replace, NoWorkload, CsvPresent
<1> QED
  BY <1>1, <1>3, <1>4, <1>5 DEF Kept

\* A scenario that is told that the operator runs has read both.
LEMMA ActKept == ASSUME IInv, Kept, NEW u \in Users, Acts(u) PROVE Kept'
<1> SUFFICES ASSUME NobodyRemoves' PROVE Kept'
  BY DEF Kept
<1>0. /\ \A v \in Users \ {u} : pc'[v] = pc[v] /\ seen'[v] = seen[v]
      /\ pc \in [Users -> {"idle"} \cup Installing \cup Over \cup Uninstalling \cup Ended]
      /\ sub \in [Names -> [owner : Owners, current : 0 .. MaxVersion, installed : 0 .. MaxVersion]]
      /\ seen \in [Users -> 0 .. MaxVersion]
      /\ scope = "cluster" /\ scope' = scope
      /\ \A n \in Names : sub[n].owner = "nobody" => sub[n].current = 0
  BY ActTypeOK DEF IInv, TypeOK, NobodyRemoves
<1>1. pc'[u] \notin Uninstalling \cup Ended
  BY DEF NobodyRemoves
<1>2. ~Uninstall(u) /\ ~Remove(u)
  BY <1>0, <1>1 DEF Uninstall, Remove, GetSub, DeleteSub, FetchCsv, DeleteCsv,
     UninstallCallFails, Goto, Uninstalling, Ended
<1>3. pc[u] \in {"idle"} \cup Installing
  BY <1>0, <1>2 DEF Acts, Install, WaitRunning, Start, FetchGroup, CreateGroup, GroupIsReady,
     FetchSub, CreateSub, InstallCallFails, PollSub, PollDeployments, PollErrors,
     PollCallFails, Timeout, Goto, Installing
<1>4. NobodyRemoves
  BY <1>0, <1>3 DEF NobodyRemoves, Installing, Uninstalling, Ended
<1>5. UNCHANGED <<csv, workload>> /\ (Subscribed => Subscribed')
  <2>1. CASE CreateSub(u)
    <3>1. sub["own"].owner # "nobody" => sub' = sub
      BY <2>1 DEF CreateSub
    <3>2. \A n \in Names \ {"own"} : sub'[n] = sub[n]
      BY <1>0, <2>1 DEF CreateSub
    <3>3. Subscribed => Subscribed'
      BY <1>0, <3>1, <3>2 DEF Subscribed, Found
    <3> QED
      BY <2>1, <3>3 DEF CreateSub
  <2>2. CASE ~CreateSub(u)
    <3>1. UNCHANGED <<sub, csv, workload>>
      BY <1>2, <2>2, ActFrame DEF Remove
    <3> QED
      BY <3>1 DEF Subscribed, Found
  <2> QED
    BY <2>1, <2>2
<1>6. CASE PollSub(u)
  <2>1. pc'[u] = "pollDeployments" => seen'[u] # 0 /\ Subscribed
    BY <1>0, <1>6 DEF PollSub, Goto, Read, Subscribed
  <2>2. pc'[u] # "running"
    BY <1>0, <1>6 DEF PollSub, Goto
  <2> QED
    BY <1>0, <1>4, <1>5, <2>1, <2>2 DEF Kept, CsvPresent
<1>7. CASE PollDeployments(u)
  <2>1. pc[u] = "pollDeployments" /\ pc'[u] \in {"running", "pollErrors"}
        /\ (pc'[u] = "running" => workload.of = seen[u])
    BY <1>0, <1>7 DEF PollDeployments, Goto, DeploymentsAccepted
  <2>2. pc'[u] = "running" => Subscribed /\ CsvPresent
    BY <1>4, <2>1 DEF Kept
  <2> QED
    BY <1>0, <1>4, <1>5, <2>1, <2>2 DEF Kept, CsvPresent
<1>8. CASE ~PollSub(u) /\ ~PollDeployments(u)
  <2>1. pc'[u] \notin {"pollDeployments", "running"}
    BY <1>0, <1>2, <1>8 DEF Acts, Install, WaitRunning, Start, FetchGroup, CreateGroup,
       GroupIsReady, FetchSub, CreateSub, InstallCallFails, PollErrors, PollCallFails, Timeout,
       Goto
  <2> QED
    BY <1>0, <1>4, <1>5, <2>1 DEF Kept, CsvPresent
<1> QED
  BY <1>6, <1>7, <1>8

\* As long as no uninstallation has begun, any number of scenarios that were told of a
\* running cluster wide operator have it, however often OLM upgrades it.
THEOREM OperatorStays == Spec => []OperatorOutlivesScenarios
<1>1. Init => Kept
  BY DEF Init, Kept, NoWorkload
<1>2. IInv /\ Kept /\ [Next]_vars => Kept'
  <2> SUFFICES ASSUME IInv, Kept, [Next]_vars PROVE Kept'
    OBVIOUS
  <2>1. CASE UNCHANGED vars
    BY <2>1 DEF vars, olm, user, Kept, NobodyRemoves, Subscribed, CsvPresent, Found
  <2> QED
    BY <2>1, OlmKept, ActKept DEF Next, Acts, Terminated
<1>3. IInv /\ Kept => OperatorOutlivesScenarios
  <2> SUFFICES ASSUME IInv, Kept, NobodyRemoves, NEW u \in Users, pc[u] = "running"
               PROVE  \E n \in Found :
                        \E v \in {sub[n].current, sub[n].installed} \ {0} : csv[v] = "present"
    BY DEF OperatorOutlivesScenarios, NobodyRemoves
  <2>1. PICK n \in Found : sub[n].current # 0
    BY DEF Kept, Subscribed
  <2>2. PICK v \in Versions : csv[v] = "present"
    BY DEF Kept, CsvPresent
  <2>3. HasCsv(n)
    BY <2>1 DEF IInv, Undisturbed, Unshared, NobodyRemoves, Found
  <2>4. v <= sub[n].installed \/ v = sub[n].current
    BY <2>1, <2>2 DEF IInv, Chain, Found
  <2>5. v \in Nat \ {0}
    BY <2>2, Numbers DEF IInv
  <2>6. csv[sub[n].current] # "present" => v # sub[n].current /\ sub[n].installed # 0
    BY <2>2, <2>4, <2>5
  <2> QED
    BY <2>1, <2>3, <2>6 DEF HasCsv
<1> QED
  BY <1>1, <1>2, <1>3, AlwaysIInv, PTL DEF Spec
=============================================================================
