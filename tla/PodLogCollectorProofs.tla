------------------------ MODULE PodLogCollectorProofs ------------------------
(***************************************************************************)
(* Proofs about PodLogCollector, for any pods and containers: its types,   *)
(* that a finished container has its log, that the maps are frozen while   *)
(* the unfinished logs are stored (for any number of scenarios), and, for  *)
(* a namespace that one scenario uses, that nothing panics and that every  *)
(* registered log is stored or claimed when the stop returns.              *)
(***************************************************************************)
EXTENDS PodLogCollector, TLAPS

\* The part of the scenario thread after stopMonitoring <- true was received.
Storing == pc \in {"close", "store", "get", "mark", "write"}

\* Nothing has happened in a namespace without an entry, and nobody who is about
\* to store an entry finds one.
Unmonitored ==
    /\ scenario = 0 => starter = "none" /\ ~monitored
    /\ starter \in {"checked", "folder"} => ~monitored
    /\ ~monitored => /\ finished = {} /\ conKeys = {} /\ col = "none"
                     /\ stopChan = "none"
                     /\ \A l \in Logs : fol[l] = "none"
                     /\ pc # "sending" /\ ~Storing

\* The stop signal was received: the loop has returned.
LoopEnded == Storing => col = "exited"

\* A container gets its follower once, when it is registered.
Followed ==
    /\ \A l \in Logs : fol[l] # "none" => l \in conKeys
    /\ \A l \in conKeys : l[1] \in podKeys

\* What the scan is registering has no follower yet.
Scanning ==
    /\ col \in {"scan", "putPod", "containers", "putCon"} => scanTodo \cap podKeys = {}
    /\ col = "putPod" => curPod \in Pods /\ curPod \notin podKeys /\ curPod \notin scanTodo
    /\ col \in {"containers", "putCon"} =>
          /\ curPod \in podKeys
          /\ \A c \in conTodo : <<curPod, c>> \notin conKeys
    /\ col = "putCon" => /\ curCon \in Containers
                         /\ curCon \notin conTodo
                         /\ <<curPod, curCon>> \notin conKeys

\* The container the scenario thread is storing.
CurrentLog ==
    /\ pc \in {"get", "mark", "write"} => curLog \in Logs
    /\ pc \in {"mark", "write"} => fetched # "none"
    /\ pc = "write" => curLog \in finished

IInv == /\ TypeOK /\ Unmonitored /\ LoopEnded /\ Followed /\ Scanning /\ CurrentLog
        /\ FinishedHasLog

\* What is left of the containers that storeUnfinishedContainersLog goes through.
Unvisited == storeTodo \cup (IF pc \in {"get", "mark", "write"} THEN {curLog} ELSE {})

\* In a namespace that one scenario uses, the channel is closed once and the log
\* folder is there until it is renamed; without errors of the cluster the
\* containers that were visited are finished.
OneScenario ==
    /\ pc # "before" => scenario = 1
    /\ stopChan = "closed" => pc \notin {"before", "body", "after", "stop", "sending", "close"}
    /\ pc \notin {"before", "cleanup", "done"} => folder
    /\ aborted # "panic"
    /\ ~ApiFails /\ pc \in {"store", "get", "mark", "write", "rename"} /\ stopChan = "closed"
          => /\ col = "exited"
             /\ conKeys \subseteq finished \cup Unvisited
             /\ pc = "rename" => storeTodo = {}
\* Every step keeps the invariant.
LEMMA StepIInv == IInv /\ [Next]_vars => IInv'
<1> SUFFICES ASSUME IInv, [Next]_vars PROVE IInv'
  OBVIOUS
<1> USE ConstAssumption
    DEF IInv, startVars, mapVars, scanVars, storeVars, clusterVars, discVars
<1>1. ASSUME CreateNamespace PROVE IInv'
  <2>1. TypeOK'
    BY <1>1 DEF CreateNamespace, TypeOK
  <2>2. /\ Unmonitored' /\ LoopEnded' /\ Followed'
        /\ Scanning' /\ CurrentLog' /\ FinishedHasLog'
    BY <1>1 DEF CreateNamespace, Unmonitored, Storing, LoopEnded, Followed, Scanning,
       CurrentLog, FinishedHasLog
  <2> QED
    BY <2>1, <2>2
<1>2. ASSUME NEW p \in Pods, PodRuns(p) PROVE IInv'
  <2>1. TypeOK'
    BY <1>2 DEF PodRuns, TypeOK
  <2>2. /\ Unmonitored' /\ LoopEnded' /\ Followed'
        /\ Scanning' /\ CurrentLog' /\ FinishedHasLog'
    BY <1>2 DEF PodRuns, Unmonitored, Storing, LoopEnded, Followed, Scanning,
       CurrentLog, FinishedHasLog
  <2> QED
    BY <2>1, <2>2
<1>3. ASSUME NEW p \in Pods, PodTerminates(p) PROVE IInv'
  <2>1. TypeOK'
    BY <1>3 DEF PodTerminates, TypeOK
  <2>2. /\ Unmonitored' /\ LoopEnded' /\ Followed'
        /\ Scanning' /\ CurrentLog' /\ FinishedHasLog'
    BY <1>3 DEF PodTerminates, Unmonitored, Storing, LoopEnded, Followed, Scanning,
       CurrentLog, FinishedHasLog
  <2> QED
    BY <2>1, <2>2
<1>4. ASSUME BeforeScenario PROVE IInv'
  <2>1. TypeOK'
    <3>1. scenario' \in 0 .. Scenarios
      BY <1>4 DEF BeforeScenario, TypeOK
    <3> QED
      BY <1>4, <3>1 DEF BeforeScenario, TypeOK, PcStates
  <2>2. Unmonitored'
    BY <1>4 DEF BeforeScenario, Unmonitored, Storing, TypeOK
  <2>3. LoopEnded'
    BY <1>4 DEF BeforeScenario, LoopEnded, Storing
  <2>4. CurrentLog'
    BY <1>4 DEF BeforeScenario, CurrentLog
  <2>5. FinishedHasLog'
    BY <1>4 DEF BeforeScenario, FinishedHasLog, Unmonitored
  <2>6. Followed' /\ Scanning'
    BY <1>4 DEF BeforeScenario, Followed, Scanning
  <2> QED
    BY <2>1, <2>2, <2>3, <2>4, <2>5, <2>6
<1>5. ASSUME StartCheck PROVE IInv'
  <2>1. TypeOK'
    BY <1>5 DEF StartCheck, TypeOK
  <2>2. Unmonitored'
    BY <1>5 DEF StartCheck, Unmonitored, Storing
  <2>3. LoopEnded' /\ Followed' /\ Scanning' /\ CurrentLog' /\ FinishedHasLog'
    BY <1>5 DEF StartCheck, LoopEnded, Storing, Followed, Scanning, CurrentLog,
       FinishedHasLog
  <2> QED
    BY <2>1, <2>2, <2>3
<1>6. ASSUME StartCreateFolder PROVE IInv'
  <2>1. TypeOK'
    BY <1>6 DEF StartCreateFolder, TypeOK
  <2>2. Unmonitored'
    BY <1>6 DEF StartCreateFolder, Unmonitored, Storing
  <2>3. FinishedHasLog'
    BY <1>6 DEF StartCreateFolder, FinishedHasLog, Unmonitored
  <2>4. LoopEnded' /\ Followed' /\ Scanning' /\ CurrentLog'
    BY <1>6 DEF StartCreateFolder, LoopEnded, Storing, Followed, Scanning, CurrentLog
  <2> QED
    BY <2>1, <2>2, <2>3, <2>4
<1>7. ASSUME StartStore PROVE IInv'
  <2>1. TypeOK'
    BY <1>7 DEF StartStore, TypeOK
  <2>2. Unmonitored'
    BY <1>7 DEF StartStore, Unmonitored
  <2>3. LoopEnded'
    BY <1>7 DEF StartStore, LoopEnded, Storing, Unmonitored
  <2>4. Followed'
    BY <1>7 DEF StartStore, Followed, Unmonitored
  <2>5. Scanning'
    BY <1>7 DEF StartStore, Scanning
  <2>6. CurrentLog'
    BY <1>7 DEF StartStore, CurrentLog, Unmonitored
  <2>7. FinishedHasLog'
    BY <1>7 DEF StartStore, FinishedHasLog
  <2> QED
    BY <2>1, <2>2, <2>3, <2>4, <2>5, <2>6, <2>7
<1>8. ASSUME Tick PROVE IInv'
  <2>1. TypeOK'
    BY <1>8 DEF Tick, TypeOK
  <2>2. Unmonitored'
    BY <1>8 DEF Tick, Unmonitored
  <2>3. LoopEnded'
    BY <1>8 DEF Tick, LoopEnded, Storing
  <2>4. Scanning'
    BY <1>8 DEF Tick, Scanning
  <2>5. Followed' /\ CurrentLog' /\ FinishedHasLog'
    BY <1>8 DEF Tick, Followed, CurrentLog, FinishedHasLog
  <2> QED
    BY <2>1, <2>2, <2>3, <2>4, <2>5
<1>9. ASSUME ScanDone PROVE IInv'
  <2>1. TypeOK'
    BY <1>9 DEF ScanDone, TypeOK
  <2>2. Unmonitored'
    BY <1>9 DEF ScanDone, Unmonitored
  <2>3. LoopEnded'
    BY <1>9 DEF ScanDone, LoopEnded, Storing
  <2>4. Scanning'
    BY <1>9 DEF ScanDone, Scanning
  <2>5. Followed' /\ CurrentLog' /\ FinishedHasLog'
    BY <1>9 DEF ScanDone, Followed, CurrentLog, FinishedHasLog
  <2> QED
    BY <2>1, <2>2, <2>3, <2>4, <2>5
<1>10. ASSUME NEW p \in Pods, PutPodBegin(p) PROVE IInv'
  <2>1. TypeOK'
    BY <1>10 DEF PutPodBegin, TypeOK
  <2>2. Unmonitored'
    BY <1>10 DEF PutPodBegin, Unmonitored
  <2>3. LoopEnded'
    BY <1>10 DEF PutPodBegin, LoopEnded, Storing
  <2>4. Scanning'
    BY <1>10 DEF PutPodBegin, Scanning
  <2>5. Followed' /\ CurrentLog' /\ FinishedHasLog'
    BY <1>10 DEF PutPodBegin, Followed, CurrentLog, FinishedHasLog
  <2> QED
    BY <2>1, <2>2, <2>3, <2>4, <2>5
<1>11. ASSUME PutPodEnd PROVE IInv'
  <2>1. TypeOK'
    BY <1>11 DEF PutPodEnd, TypeOK, Scanning
  <2>2. Unmonitored'
    BY <1>11 DEF PutPodEnd, Unmonitored
  <2>3. LoopEnded'
    BY <1>11 DEF PutPodEnd, LoopEnded, Storing
  <2>4. Followed'
    BY <1>11 DEF PutPodEnd, Followed
  <2>5. Scanning'
    BY <1>11 DEF PutPodEnd, Scanning, Followed
  <2>6. CurrentLog' /\ FinishedHasLog'
    BY <1>11 DEF PutPodEnd, CurrentLog, FinishedHasLog
  <2> QED
    BY <2>1, <2>2, <2>3, <2>4, <2>5, <2>6
<1>12. ASSUME NEW c \in Containers, PutConBegin(c) PROVE IInv'
  <2>1. TypeOK'
    BY <1>12 DEF PutConBegin, TypeOK
  <2>2. Unmonitored'
    BY <1>12 DEF PutConBegin, Unmonitored
  <2>3. LoopEnded'
    BY <1>12 DEF PutConBegin, LoopEnded, Storing
  <2>4. Scanning'
    BY <1>12 DEF PutConBegin, Scanning
  <2>5. Followed' /\ CurrentLog' /\ FinishedHasLog'
    BY <1>12 DEF PutConBegin, Followed, CurrentLog, FinishedHasLog
  <2> QED
    BY <2>1, <2>2, <2>3, <2>4, <2>5
<1>13. ASSUME PutConEnd PROVE IInv'
  <2>1. TypeOK'
    BY <1>13 DEF PutConEnd, TypeOK, Logs, Scanning
  <2>2. Unmonitored'
    BY <1>13 DEF PutConEnd, Unmonitored
  <2>3. LoopEnded'
    BY <1>13 DEF PutConEnd, LoopEnded, Storing
  <2>4. Followed'
    BY <1>13 DEF PutConEnd, Followed, Scanning
  <2>5. Scanning'
    BY <1>13 DEF PutConEnd, Scanning
  <2>6. FinishedHasLog'
    BY <1>13 DEF PutConEnd, FinishedHasLog, Followed, TypeOK, Scanning
  <2>7. CurrentLog'
    BY <1>13 DEF PutConEnd, CurrentLog
  <2> QED
    BY <2>1, <2>2, <2>3, <2>4, <2>5, <2>6, <2>7
<1>14. ASSUME PodDone PROVE IInv'
  <2>1. TypeOK'
    BY <1>14 DEF PodDone, TypeOK
  <2>2. Unmonitored'
    BY <1>14 DEF PodDone, Unmonitored
  <2>3. LoopEnded'
    BY <1>14 DEF PodDone, LoopEnded, Storing
  <2>4. Scanning'
    BY <1>14 DEF PodDone, Scanning
  <2>5. Followed' /\ CurrentLog' /\ FinishedHasLog'
    BY <1>14 DEF PodDone, Followed, CurrentLog, FinishedHasLog
  <2> QED
    BY <2>1, <2>2, <2>3, <2>4, <2>5
<1>15. ASSUME NEW l \in Logs, FollowReturns(l) PROVE IInv'
  <2>1. TypeOK'
    BY <1>15 DEF FollowReturns, TypeOK
  <2>2. Unmonitored'
    BY <1>15 DEF FollowReturns, Unmonitored
  <2>3. Followed'
    BY <1>15 DEF FollowReturns, Followed
  <2>4. FinishedHasLog'
    BY <1>15 DEF FollowReturns, FinishedHasLog
  <2>5. LoopEnded' /\ Scanning' /\ CurrentLog'
    BY <1>15 DEF FollowReturns, LoopEnded, Storing, Scanning, CurrentLog
  <2> QED
    BY <2>1, <2>2, <2>3, <2>4, <2>5
<1>16. ASSUME NEW l \in Logs, FollowFails(l) PROVE IInv'
  <2>1. TypeOK'
    BY <1>16 DEF FollowFails, TypeOK
  <2>2. Unmonitored'
    BY <1>16 DEF FollowFails, Unmonitored
  <2>3. Followed'
    BY <1>16 DEF FollowFails, Followed
  <2>4. FinishedHasLog'
    BY <1>16 DEF FollowFails, FinishedHasLog
  <2>5. LoopEnded' /\ Scanning' /\ CurrentLog'
    BY <1>16 DEF FollowFails, LoopEnded, Storing, Scanning, CurrentLog
  <2> QED
    BY <2>1, <2>2, <2>3, <2>4, <2>5
<1>17. ASSUME NEW l \in Logs, FollowCheck(l) PROVE IInv'
  <2>1. TypeOK'
    BY <1>17 DEF FollowCheck, TypeOK
  <2>2. Unmonitored'
    BY <1>17 DEF FollowCheck, Unmonitored
  <2>3. Followed'
    <3>1. CASE l \in conKeys
      BY <1>17, <3>1 DEF FollowCheck, Followed, TypeOK
    <3>2. CASE l \notin conKeys
      BY <1>17, <3>2 DEF FollowCheck, Followed
    <3> QED
      BY <3>1, <3>2
  <2>4. FinishedHasLog'
    BY <1>17 DEF FollowCheck, FinishedHasLog, TypeOK
  <2>5. LoopEnded' /\ Scanning' /\ CurrentLog'
    BY <1>17 DEF FollowCheck, LoopEnded, Storing, Scanning, CurrentLog
  <2> QED
    BY <2>1, <2>2, <2>3, <2>4, <2>5
<1>18. ASSUME NEW l \in Logs, FollowMark(l) PROVE IInv'
  <2>1. TypeOK'
    BY <1>18 DEF FollowMark, TypeOK
  <2>2. Unmonitored'
    BY <1>18 DEF FollowMark, Unmonitored
  <2>3. Followed'
    BY <1>18 DEF FollowMark, Followed
  <2>4. CurrentLog'
    BY <1>18 DEF FollowMark, CurrentLog
  <2>5. FinishedHasLog'
    BY <1>18 DEF FollowMark, FinishedHasLog, TypeOK
  <2>6. LoopEnded' /\ Scanning'
    BY <1>18 DEF FollowMark, LoopEnded, Storing, Scanning
  <2> QED
    BY <2>1, <2>2, <2>3, <2>4, <2>5, <2>6
<1>19. ASSUME NEW l \in Logs, FollowWrite(l) PROVE IInv'
  <2>1. TypeOK'
    BY <1>19 DEF FollowWrite, TypeOK
  <2>2. Unmonitored'
    BY <1>19 DEF FollowWrite, Unmonitored
  <2>3. Followed'
    BY <1>19 DEF FollowWrite, Followed
  <2>4. FinishedHasLog'
    BY <1>19 DEF FollowWrite, FinishedHasLog, TypeOK
  <2>5. LoopEnded' /\ Scanning' /\ CurrentLog'
    BY <1>19 DEF FollowWrite, LoopEnded, Storing, Scanning, CurrentLog
  <2> QED
    BY <2>1, <2>2, <2>3, <2>4, <2>5
<1>20. ASSUME NEW l \in Logs, MapRace(l) PROVE IInv'
  <2>1. TypeOK'
    BY <1>20 DEF MapRace, TypeOK
  <2>2. /\ Unmonitored' /\ LoopEnded' /\ Followed'
        /\ Scanning' /\ CurrentLog' /\ FinishedHasLog'
    BY <1>20 DEF MapRace, Unmonitored, Storing, LoopEnded, Followed, Scanning,
       CurrentLog, FinishedHasLog
  <2> QED
    BY <2>1, <2>2
<1>21. ASSUME ScenarioEnds PROVE IInv'
  <2>1. TypeOK'
    BY <1>21 DEF ScenarioEnds, TypeOK, PcStates
  <2>2. Unmonitored'
    BY <1>21 DEF ScenarioEnds, Unmonitored, Storing
  <2>3. LoopEnded'
    BY <1>21 DEF ScenarioEnds, LoopEnded, Storing
  <2>4. CurrentLog'
    BY <1>21 DEF ScenarioEnds, CurrentLog
  <2>5. FinishedHasLog'
    BY <1>21 DEF ScenarioEnds, FinishedHasLog
  <2>6. Followed' /\ Scanning'
    BY <1>21 DEF ScenarioEnds, Followed, Scanning
  <2> QED
    BY <2>1, <2>2, <2>3, <2>4, <2>5, <2>6
<1>22. ASSUME CheckNamespace PROVE IInv'
  <2>1. TypeOK'
    BY <1>22 DEF CheckNamespace, TypeOK, PcStates
  <2>2. Unmonitored'
    BY <1>22 DEF CheckNamespace, Unmonitored, Storing
  <2>3. LoopEnded'
    BY <1>22 DEF CheckNamespace, LoopEnded, Storing
  <2>4. CurrentLog'
    BY <1>22 DEF CheckNamespace, CurrentLog
  <2>5. FinishedHasLog'
    BY <1>22 DEF CheckNamespace, FinishedHasLog
  <2>6. Followed' /\ Scanning'
    BY <1>22 DEF CheckNamespace, Followed, Scanning
  <2> QED
    BY <2>1, <2>2, <2>3, <2>4, <2>5, <2>6
<1>23. ASSUME StopCheck PROVE IInv'
  <2>1. TypeOK'
    BY <1>23 DEF StopCheck, TypeOK, PcStates
  <2>2. Unmonitored'
    BY <1>23 DEF StopCheck, Unmonitored, Storing
  <2>3. LoopEnded'
    BY <1>23 DEF StopCheck, LoopEnded, Storing
  <2>4. CurrentLog'
    BY <1>23 DEF StopCheck, CurrentLog
  <2>5. FinishedHasLog'
    BY <1>23 DEF StopCheck, FinishedHasLog
  <2>6. Followed' /\ Scanning'
    BY <1>23 DEF StopCheck, Followed, Scanning
  <2> QED
    BY <2>1, <2>2, <2>3, <2>4, <2>5, <2>6
<1>24. ASSUME StopHandshake PROVE IInv'
  <2>1. TypeOK'
    BY <1>24 DEF StopHandshake, TypeOK, PcStates
  <2>2. Unmonitored'
    BY <1>24 DEF StopHandshake, Unmonitored
  <2>3. LoopEnded'
    BY <1>24 DEF StopHandshake, LoopEnded
  <2>4. Scanning'
    BY <1>24 DEF StopHandshake, Scanning
  <2>5. CurrentLog'
    BY <1>24 DEF StopHandshake, CurrentLog
  <2>6. FinishedHasLog'
    BY <1>24 DEF StopHandshake, FinishedHasLog
  <2>7. Followed'
    BY <1>24 DEF StopHandshake, Followed
  <2> QED
    BY <2>1, <2>2, <2>3, <2>4, <2>5, <2>6, <2>7
<1>25. ASSUME SendOnClosed PROVE IInv'
  <2>1. TypeOK'
    BY <1>25 DEF SendOnClosed, TypeOK
  <2>2. /\ Unmonitored' /\ LoopEnded' /\ Followed'
        /\ Scanning' /\ CurrentLog' /\ FinishedHasLog'
    BY <1>25 DEF SendOnClosed, Unmonitored, Storing, LoopEnded, Followed, Scanning,
       CurrentLog, FinishedHasLog
  <2> QED
    BY <2>1, <2>2
<1>26. ASSUME CloseChannel PROVE IInv'
  <2>1. TypeOK'
    BY <1>26 DEF CloseChannel, TypeOK, PcStates
  <2>2. Unmonitored'
    BY <1>26 DEF CloseChannel, Unmonitored, Storing
  <2>3. LoopEnded'
    BY <1>26 DEF CloseChannel, LoopEnded, Storing
  <2>4. CurrentLog'
    BY <1>26 DEF CloseChannel, CurrentLog
  <2>5. FinishedHasLog'
    BY <1>26 DEF CloseChannel, FinishedHasLog
  <2>6. Followed' /\ Scanning'
    BY <1>26 DEF CloseChannel, Followed, Scanning
  <2> QED
    BY <2>1, <2>2, <2>3, <2>4, <2>5, <2>6
<1>27. ASSUME NEW l \in Logs, StoreVisit(l) PROVE IInv'
  <2>1. TypeOK'
    BY <1>27 DEF StoreVisit, TypeOK, PcStates
  <2>2. Unmonitored'
    BY <1>27 DEF StoreVisit, Unmonitored, Storing
  <2>3. LoopEnded'
    BY <1>27 DEF StoreVisit, LoopEnded, Storing
  <2>4. CurrentLog'
    BY <1>27 DEF StoreVisit, CurrentLog
  <2>5. FinishedHasLog'
    BY <1>27 DEF StoreVisit, FinishedHasLog
  <2>6. Followed' /\ Scanning'
    BY <1>27 DEF StoreVisit, Followed, Scanning
  <2> QED
    BY <2>1, <2>2, <2>3, <2>4, <2>5, <2>6
<1>28. ASSUME StoreGet PROVE IInv'
  <2>1. TypeOK'
    BY <1>28 DEF StoreGet, TypeOK, PcStates
  <2>2. Unmonitored'
    BY <1>28 DEF StoreGet, Unmonitored, Storing
  <2>3. LoopEnded'
    BY <1>28 DEF StoreGet, LoopEnded, Storing
  <2>4. CurrentLog'
    BY <1>28 DEF StoreGet, CurrentLog
  <2>5. FinishedHasLog'
    BY <1>28 DEF StoreGet, FinishedHasLog
  <2>6. Followed' /\ Scanning'
    BY <1>28 DEF StoreGet, Followed, Scanning
  <2> QED
    BY <2>1, <2>2, <2>3, <2>4, <2>5, <2>6
<1>29. ASSUME StoreGetFails PROVE IInv'
  <2>1. TypeOK'
    BY <1>29 DEF StoreGetFails, TypeOK, PcStates
  <2>2. Unmonitored'
    BY <1>29 DEF StoreGetFails, Unmonitored, Storing
  <2>3. LoopEnded'
    BY <1>29 DEF StoreGetFails, LoopEnded, Storing
  <2>4. CurrentLog'
    BY <1>29 DEF StoreGetFails, CurrentLog
  <2>5. FinishedHasLog'
    BY <1>29 DEF StoreGetFails, FinishedHasLog
  <2>6. Followed' /\ Scanning'
    BY <1>29 DEF StoreGetFails, Followed, Scanning
  <2> QED
    BY <2>1, <2>2, <2>3, <2>4, <2>5, <2>6
<1>30. ASSUME StoreMark PROVE IInv'
  <2>1. TypeOK'
    BY <1>30 DEF StoreMark, TypeOK, PcStates, CurrentLog
  <2>2. Unmonitored'
    BY <1>30 DEF StoreMark, Unmonitored, Storing
  <2>3. LoopEnded'
    BY <1>30 DEF StoreMark, LoopEnded, Storing
  <2>4. CurrentLog'
    BY <1>30 DEF StoreMark, CurrentLog
  <2>5. FinishedHasLog'
    BY <1>30 DEF StoreMark, FinishedHasLog
  <2>6. Followed' /\ Scanning'
    BY <1>30 DEF StoreMark, Followed, Scanning
  <2> QED
    BY <2>1, <2>2, <2>3, <2>4, <2>5, <2>6
<1>31. ASSUME StoreWrite PROVE IInv'
  <2>1. TypeOK'
    BY <1>31 DEF StoreWrite, TypeOK, PcStates, CurrentLog
  <2>2. Unmonitored'
    BY <1>31 DEF StoreWrite, Unmonitored, Storing
  <2>3. LoopEnded'
    BY <1>31 DEF StoreWrite, LoopEnded, Storing
  <2>4. CurrentLog'
    BY <1>31 DEF StoreWrite, CurrentLog
  <2>5. FinishedHasLog'
    BY <1>31 DEF StoreWrite, FinishedHasLog, CurrentLog, TypeOK
  <2>6. Followed' /\ Scanning'
    BY <1>31 DEF StoreWrite, Followed, Scanning
  <2> QED
    BY <2>1, <2>2, <2>3, <2>4, <2>5, <2>6
<1>32. ASSUME StoreDone PROVE IInv'
  <2>1. TypeOK'
    BY <1>32 DEF StoreDone, TypeOK, PcStates
  <2>2. Unmonitored'
    BY <1>32 DEF StoreDone, Unmonitored, Storing
  <2>3. LoopEnded'
    BY <1>32 DEF StoreDone, LoopEnded, Storing
  <2>4. CurrentLog'
    BY <1>32 DEF StoreDone, CurrentLog
  <2>5. FinishedHasLog'
    BY <1>32 DEF StoreDone, FinishedHasLog
  <2>6. Followed' /\ Scanning'
    BY <1>32 DEF StoreDone, Followed, Scanning
  <2> QED
    BY <2>1, <2>2, <2>3, <2>4, <2>5, <2>6
<1>33. ASSUME RenameFolder PROVE IInv'
  <2>1. TypeOK'
    <3>1. disc' \in [Logs -> {"none", "partial", "full"}]
      BY <1>33 DEF RenameFolder
    <3>2. pc' \in PcStates /\ folder' \in BOOLEAN
      BY <1>33 DEF RenameFolder, PcStates
    <3>3. UNCHANGED <<scenario, startVars, stopChan, mapVars, finished, scanVars, fol,
                      storeVars, clusterVars, aborted>>
      BY <1>33 DEF RenameFolder
    <3> QED
      BY <3>1, <3>2, <3>3 DEF TypeOK
  <2>2. Unmonitored'
    BY <1>33 DEF RenameFolder, Unmonitored, Storing
  <2>3. LoopEnded'
    BY <1>33 DEF RenameFolder, LoopEnded, Storing
  <2>4. CurrentLog'
    BY <1>33 DEF RenameFolder, CurrentLog
  <2>5. FinishedHasLog'
    BY <1>33 DEF RenameFolder, FinishedHasLog
  <2>6. Followed' /\ Scanning'
    BY <1>33 DEF RenameFolder, Followed, Scanning
  <2> QED
    BY <2>1, <2>2, <2>3, <2>4, <2>5, <2>6
<1>34. ASSUME Cleanup PROVE IInv'
  <2>1. TypeOK'
    <3>1. nsExists' \in BOOLEAN /\ pod' \in [Pods -> {"absent", "running", "terminated"}]
      BY <1>34 DEF Cleanup, TypeOK
    <3>2. pc' \in PcStates
      BY <1>34 DEF Cleanup, PcStates
    <3> QED
      BY <1>34, <3>1, <3>2 DEF Cleanup, TypeOK
  <2>2. Unmonitored'
    BY <1>34 DEF Cleanup, Unmonitored, Storing
  <2>3. LoopEnded'
    BY <1>34 DEF Cleanup, LoopEnded, Storing
  <2>4. CurrentLog'
    BY <1>34 DEF Cleanup, CurrentLog
  <2>5. FinishedHasLog'
    BY <1>34 DEF Cleanup, FinishedHasLog
  <2>6. Followed' /\ Scanning'
    BY <1>34 DEF Cleanup, Followed, Scanning
  <2> QED
    BY <2>1, <2>2, <2>3, <2>4, <2>5, <2>6
<1>35. CASE UNCHANGED vars
  BY <1>35 DEF vars, TypeOK, Unmonitored, Storing, LoopEnded, Followed, Scanning,
     CurrentLog, FinishedHasLog
<1>36. ASSUME StartCreateFolderFails PROVE IInv'
  <2>1. TypeOK'
    BY <1>36 DEF StartCreateFolderFails, TypeOK
  <2>2. Unmonitored' /\ FinishedHasLog'
    BY <1>36 DEF StartCreateFolderFails, Unmonitored, Storing, FinishedHasLog
  <2>3. LoopEnded' /\ Followed' /\ Scanning' /\ CurrentLog'
    BY <1>36 DEF StartCreateFolderFails, LoopEnded, Storing, Followed, Scanning, CurrentLog
  <2> QED
    BY <2>1, <2>2, <2>3
<1>37. ASSUME RenameFails PROVE IInv'
  <2>1. TypeOK'
    <3>1. pc' \in PcStates
      BY <1>37 DEF RenameFails, PcStates
    <3> QED
      BY <1>37, <3>1 DEF RenameFails, TypeOK
  <2>2. Unmonitored' /\ FinishedHasLog'
    BY <1>37 DEF RenameFails, Unmonitored, Storing, FinishedHasLog
  <2>3. LoopEnded' /\ Followed' /\ Scanning' /\ CurrentLog'
    BY <1>37 DEF RenameFails, LoopEnded, Storing, Followed, Scanning, CurrentLog
  <2> QED
    BY <2>1, <2>2, <2>3
<1> QED
  BY <1>1, <1>2, <1>3, <1>4, <1>5, <1>6, <1>7, <1>8, <1>9, <1>10, <1>11, <1>12,
     <1>13, <1>14, <1>15, <1>16, <1>17, <1>18, <1>19, <1>20, <1>21, <1>22, <1>23,
     <1>24, <1>25, <1>26, <1>27, <1>28, <1>29, <1>30, <1>31, <1>32, <1>33, <1>34,
     <1>35, <1>36, <1>37
     DEF Next, Step, Terminated, Hooks, Starter, Collector, Follower, Stop, Cluster

\* The invariant holds before the first scenario.
LEMMA InitIInv == Init => IInv
<1> SUFFICES ASSUME Init PROVE IInv
  OBVIOUS
<1> USE ConstAssumption DEF Init
<1>1. TypeOK
  <2>1. scenario \in 0 .. Scenarios
    OBVIOUS
  <2>2. pc \in PcStates
    BY DEF PcStates
  <2> QED
    BY <2>1, <2>2 DEF TypeOK
<1>2. Unmonitored /\ LoopEnded /\ Followed /\ Scanning /\ CurrentLog /\ FinishedHasLog
  BY DEF Unmonitored, Storing, LoopEnded, Followed, Scanning, CurrentLog, FinishedHasLog
<1> QED
  BY <1>1, <1>2 DEF IInv

\* The invariant of the collector, its followers and the hooks that drive them.
THEOREM Invariance == Spec => []IInv
  BY InitIInv, StepIInv, PTL DEF Spec

\* The variables have their types, whatever the pods, containers and number of
\* scenarios (the state of logging.go and of the hooks).
THEOREM TypeCorrect == Spec => []TypeOK
<1>1. IInv => TypeOK
  BY DEF IInv
<1> QED
  BY <1>1, Invariance, PTL

\* Whoever marks a container as finished (markContainerLoggingAsFinished) has its
\* log and writes it: while the folder is in place the log is on disc or about to
\* be, for any number of scenarios that share the namespace.
THEOREM FinishedLog == Spec => []FinishedHasLog
<1>1. IInv => FinishedHasLog
  BY DEF IInv
<1> QED
  BY <1>1, Invariance, PTL

\* storeUnfinishedContainersLog ranges over maps that no goroutine writes: neither
\* the loop that was stopped nor a goroutine that would store a new entry.
THEOREM MapsFrozen == Spec => MapsFrozenAfterStop
<1>1. IInv /\ [Next]_vars => [Storing => mapVars' = mapVars]_vars
  <2> SUFFICES ASSUME IInv, Storing, Next PROVE mapVars' = mapVars
    OBVIOUS
  <2>1. col = "exited" /\ starter # "folder"
    BY DEF IInv, LoopEnded, Unmonitored
  <2>2. ASSUME Hooks PROVE mapVars' = mapVars
    BY <2>2 DEF Hooks, BeforeScenario, CheckNamespace, Stop, StopCheck, SendOnClosed,
       CloseChannel, StoreVisit, StoreGet, StoreGetFails, StoreMark, StoreWrite,
       StoreDone, RenameFolder, RenameFails, Cleanup
  <2>3. ASSUME ScenarioEnds \/ StopHandshake \/ Starter PROVE mapVars' = mapVars
    BY <2>1, <2>3 DEF ScenarioEnds, StopHandshake, Starter, StartCheck,
       StartCreateFolder, StartCreateFolderFails, StartStore
  <2>4. ASSUME Collector PROVE FALSE
    BY <2>1, <2>4 DEF Collector, Tick, ScanDone, PutPodEnd, PutConEnd, PodDone,
       PutPodBegin, PutConBegin
  <2>5. ASSUME Cluster PROVE mapVars' = mapVars
    BY <2>5 DEF Cluster, CreateNamespace, PodRuns, PodTerminates
  <2>6. ASSUME NEW l \in Logs, Follower(l) \/ MapRace(l) PROVE mapVars' = mapVars
    BY <2>6 DEF Follower, FollowReturns, FollowFails, FollowCheck, FollowMark,
       FollowWrite, MapRace
  <2>7. ASSUME Terminated PROVE mapVars' = mapVars
    BY <2>7 DEF Terminated, vars
  <2> QED
    BY <2>2, <2>3, <2>4, <2>5, <2>6, <2>7 DEF Next, Step
<1>2. Spec => [][Storing => mapVars' = mapVars]_vars
  BY <1>1, Invariance, PTL DEF Spec
<1> QED
  BY <1>2 DEF MapsFrozenAfterStop, Storing

\* In a namespace of its own, every step of a scenario keeps OneScenario.
LEMMA StepOneScenario ==
  ASSUME Scenarios = 1 PROVE IInv /\ OneScenario /\ [Next]_vars => OneScenario'
<1> SUFFICES ASSUME IInv, OneScenario, [Next]_vars PROVE OneScenario'
  OBVIOUS
<1> USE ConstAssumption
    DEF IInv, startVars, mapVars, scanVars, storeVars, clusterVars, discVars
<1>1. ASSUME BeforeScenario PROVE OneScenario'
  <2>1. scenario = 0 /\ scenario' = 1
    BY <1>1 DEF BeforeScenario, TypeOK
  <2> QED
    BY <1>1, <2>1 DEF BeforeScenario, OneScenario
<1>2. ASSUME StartCreateFolder PROVE OneScenario'
  BY <1>2 DEF StartCreateFolder, OneScenario, Unvisited
<1>3. ASSUME StartStore PROVE OneScenario'
  BY <1>3 DEF StartStore, OneScenario
<1>4. ASSUME Tick PROVE OneScenario'
  BY <1>4 DEF Tick, OneScenario
<1>5. ASSUME ScanDone PROVE OneScenario'
  BY <1>5 DEF ScanDone, OneScenario
<1>6. ASSUME NEW p \in Pods, PutPodBegin(p) PROVE OneScenario'
  BY <1>6 DEF PutPodBegin, OneScenario
<1>7. ASSUME PutPodEnd PROVE OneScenario'
  BY <1>7 DEF PutPodEnd, OneScenario
<1>8. ASSUME NEW c \in Containers, PutConBegin(c) PROVE OneScenario'
  BY <1>8 DEF PutConBegin, OneScenario
<1>9. ASSUME PutConEnd PROVE OneScenario'
  BY <1>9 DEF PutConEnd, OneScenario
<1>10. ASSUME PodDone PROVE OneScenario'
  BY <1>10 DEF PodDone, OneScenario
<1>11. ASSUME NEW l \in Logs, FollowCheck(l) PROVE OneScenario'
  BY <1>11 DEF FollowCheck, OneScenario, Unvisited, Followed
<1>12. ASSUME NEW l \in Logs, FollowMark(l) PROVE OneScenario'
  BY <1>12 DEF FollowMark, OneScenario, Unvisited
<1>13. ASSUME NEW l \in Logs, MapRace(l) PROVE OneScenario'
  BY <1>13 DEF MapRace, OneScenario, Unvisited
<1>14. ASSUME ScenarioEnds PROVE OneScenario'
  BY <1>14 DEF ScenarioEnds, OneScenario
<1>15. ASSUME CheckNamespace PROVE OneScenario'
  BY <1>15 DEF CheckNamespace, OneScenario
<1>16. ASSUME StopCheck PROVE OneScenario'
  BY <1>16 DEF StopCheck, OneScenario
<1>17. ASSUME StopHandshake PROVE OneScenario'
  BY <1>17 DEF StopHandshake, OneScenario
<1>18. ASSUME SendOnClosed PROVE OneScenario'
  BY <1>18 DEF SendOnClosed, OneScenario
<1>19. ASSUME CloseChannel PROVE OneScenario'
  BY <1>19 DEF CloseChannel, OneScenario, Unvisited, Storing, LoopEnded
<1>20. ASSUME NEW l \in Logs, StoreVisit(l) PROVE OneScenario'
  BY <1>20 DEF StoreVisit, OneScenario, Unvisited
<1>21. ASSUME StoreGet PROVE OneScenario'
  BY <1>21 DEF StoreGet, OneScenario, Unvisited
<1>22. ASSUME StoreGetFails PROVE OneScenario'
  BY <1>22 DEF StoreGetFails, OneScenario
<1>23. ASSUME StoreMark PROVE OneScenario'
  BY <1>23 DEF StoreMark, OneScenario, Unvisited
<1>24. ASSUME StoreWrite PROVE OneScenario'
  BY <1>24 DEF StoreWrite, OneScenario, Unvisited, CurrentLog
<1>25. ASSUME StoreDone PROVE OneScenario'
  BY <1>25 DEF StoreDone, OneScenario, Unvisited
<1>26. ASSUME RenameFolder PROVE OneScenario'
  BY <1>26 DEF RenameFolder, OneScenario
<1>27. ASSUME Cleanup PROVE OneScenario'
  BY <1>27 DEF Cleanup, OneScenario
<1>28. ASSUME CreateNamespace PROVE OneScenario'
  BY <1>28 DEF CreateNamespace, OneScenario
<1>29. ASSUME NEW p \in Pods, PodRuns(p) PROVE OneScenario'
  BY <1>29 DEF PodRuns, OneScenario
<1>30. ASSUME NEW p \in Pods, PodTerminates(p) PROVE OneScenario'
  BY <1>30 DEF PodTerminates, OneScenario, Unvisited
<1>31. ASSUME StartCheck PROVE OneScenario'
  BY <1>31 DEF StartCheck, OneScenario, Unvisited
<1>32. ASSUME NEW l \in Logs, FollowReturns(l) PROVE OneScenario'
  BY <1>32 DEF FollowReturns, OneScenario, Unvisited
<1>33. ASSUME NEW l \in Logs, FollowFails(l) PROVE OneScenario'
  BY <1>33 DEF FollowFails, OneScenario
<1>34. ASSUME NEW l \in Logs, FollowWrite(l) PROVE OneScenario'
  BY <1>34 DEF FollowWrite, OneScenario, Unvisited
<1>35. CASE UNCHANGED vars
  BY <1>35 DEF vars, OneScenario, Unvisited
<1>36. ASSUME StartCreateFolderFails PROVE OneScenario'
  BY <1>36 DEF StartCreateFolderFails, OneScenario, Unvisited
<1>37. ASSUME RenameFails PROVE OneScenario'
  BY <1>37 DEF RenameFails, OneScenario
<1> QED
  BY <1>1, <1>2, <1>3, <1>4, <1>5, <1>6, <1>7, <1>8, <1>9, <1>10, <1>11, <1>12,
     <1>13, <1>14, <1>15, <1>16, <1>17, <1>18, <1>19, <1>20, <1>21, <1>22, <1>23,
     <1>24, <1>25, <1>26, <1>27, <1>28, <1>29, <1>30, <1>31, <1>32, <1>33, <1>34,
     <1>35, <1>36, <1>37
     DEF Next, Step, Terminated, Hooks, Starter, Collector, Follower, Stop, Cluster

\* The invariant of a namespace that one scenario uses.
LEMMA Alone == ASSUME Scenarios = 1 PROVE Spec => []OneScenario
<1>1. Init => OneScenario
  BY DEF Init, OneScenario
<1> QED
  BY <1>1, Invariance, StepOneScenario, PTL DEF Spec

\* A scenario with a namespace of its own never sends on or closes a closed channel
\* (stopNamespaceMonitoring), and no follower of it looks up a container that is
\* not registered (isContainerLoggingFinished).
THEOREM NoPanicAlone == ASSUME Scenarios = 1 PROVE Spec => []NoPanic
<1>1. OneScenario => NoPanic
  BY DEF OneScenario, NoPanic
<1> QED
  BY <1>1, Alone, PTL

\* When StopPodLogCollector returns to a scenario with a namespace of its own, the
\* log of every registered container is on disc or being written by its follower.
THEOREM LogsAlone == ASSUME Scenarios = 1 PROVE Spec => []LogsStoredOrClaimed
<1>1. IInv /\ OneScenario => LogsStoredOrClaimed
  <2> SUFFICES ASSUME IInv, OneScenario, pc = "rename", stopChan = "closed", ~ApiFails,
                      NEW l \in conKeys
               PROVE disc[l] # "none" \/ fol[l] = "claimed"
    BY DEF LogsStoredOrClaimed
  <2>1. folder /\ l \in finished
    BY DEF OneScenario, Unvisited
  <2> QED
    BY <2>1 DEF IInv, FinishedHasLog
<1> QED
  BY <1>1, Alone, Invariance, PTL

(***************************************************************************)
(* The stop signal, for any number of scenarios that share the namespace.  *)
(***************************************************************************)

\* The places of the loop of StartPodLogCollector
Looping == {"select", "scan", "putPod", "containers", "putCon"}

\* The channel is open as long as the loop runs, and an entry keeps its channel.
\* Only a stop that follows another one panics.
Handshake ==
    /\ monitored => stopChan # "none"
    /\ pc = "sending" => monitored
    /\ pc = "close" => stopChan = "open"
    /\ stopChan = "open" /\ pc # "close" => col \in Looping
    /\ stopChan = "closed" /\ pc \in {"body", "after", "stop", "sending"} => scenario >= 2
    /\ aborted = "panic" => pc = "sending" /\ stopChan = "closed"

\* Whoever sends the stop signal either panics or is heard: the loop is running,
\* and has not returned before.
StopIsHeard ==
    pc = "sending" => stopChan = "closed" \/ (stopChan = "open" /\ col \in Looping)

\* A panic is always that of a send on the channel an earlier scenario has closed.
PanicOnlyOnSecondStop ==
    aborted = "panic" => pc = "sending" /\ stopChan = "closed" /\ scenario >= 2

\* How far the scan is from the select with the pod in hand
ScanPlace == CASE col = "putCon" -> 3 [] col = "containers" -> 2
               [] col = "scan" -> 1 [] OTHER -> 0

Shrinks(S, T) == S \subseteq T /\ S # T

\* The order in which a scan descends: pods to register, the pod it is about to
\* write, that pod's containers, the place.
ScanDescends ==
    \/ Shrinks(scanTodo', scanTodo)
    \/ scanTodo' = scanTodo /\ col = "putPod" /\ col' # "putPod"
    \/ /\ scanTodo' = scanTodo /\ col' # "putPod"
       /\ \/ Shrinks(conTodo', conTodo)
          \/ conTodo' = conTodo /\ ScanPlace' < ScanPlace

\* The loop comes back to its select: whatever changes its place within a scan
\* brings it nearer, by an order that is well-founded for finitely many pods and
\* containers.
ScanComesBack ==
    [][col \notin {"none", "select", "exited"} /\ col' # col => ScanDescends]_vars

\* Followers, cluster, collector and the goroutine before it stores its entry leave
\* the channel, the entry and the scenario thread alone.
LEMMA OthersKeepHandshake ==
    ASSUME IInv, Handshake,
           \/ \E l \in Logs : Follower(l) \/ MapRace(l)
           \/ Cluster
           \/ Collector
           \/ StartCheck \/ StartCreateFolder \/ StartCreateFolderFails
    PROVE  Handshake'
<1> USE DEF mapVars, scanVars, storeVars, clusterVars, discVars, startVars
<1>1. ASSUME NEW l \in Logs, Follower(l) \/ MapRace(l) PROVE Handshake'
  <2>1. CASE FollowCheck(l)
    <3>1. l \in conKeys
      BY <2>1 DEF FollowCheck, IInv, Followed
    <3> QED
      BY <2>1, <3>1 DEF FollowCheck, Handshake
  <2>2. CASE FollowReturns(l) \/ FollowFails(l) \/ FollowMark(l) \/ FollowWrite(l) \/ MapRace(l)
    BY <2>2 DEF FollowReturns, FollowFails, FollowMark, FollowWrite, MapRace, Handshake
  <2> QED
    BY <1>1, <2>1, <2>2 DEF Follower
<1>2. CASE Cluster
  BY <1>2 DEF Cluster, CreateNamespace, PodRuns, PodTerminates, Handshake
<1>3. CASE Collector
  <2>1. /\ col' \in Looping
        /\ UNCHANGED <<pc, scenario, startVars, stopChan, aborted>>
    BY <1>3 DEF Collector, Tick, ScanDone, PutPodBegin, PutPodEnd, PutConBegin,
       PutConEnd, PodDone, Looping
  <2> QED
    BY <2>1 DEF Handshake
<1>4. CASE StartCheck \/ StartCreateFolder \/ StartCreateFolderFails
  BY <1>4 DEF StartCheck, StartCreateFolder, StartCreateFolderFails, Handshake
<1> QED
  BY <1>1, <1>2, <1>3, <1>4

\* Every step keeps the handshake.
LEMMA StepHandshake == IInv /\ Handshake /\ [Next]_vars => Handshake'
<1> SUFFICES ASSUME IInv, Handshake, [Next]_vars PROVE Handshake'
  OBVIOUS
<1> USE DEF mapVars, scanVars, storeVars, clusterVars, discVars, startVars
<1>1. CASE StartStore
  BY <1>1 DEF StartStore, Handshake, Looping, IInv, Unmonitored, Storing
<1>2. CASE BeforeScenario
  <2>1. scenario \in Nat /\ scenario' = scenario + 1
    BY <1>2, ConstAssumption DEF BeforeScenario, IInv, TypeOK
  <2>2. stopChan = "closed" => scenario # 0
    BY DEF IInv, Unmonitored
  <2>3. stopChan = "closed" => scenario' >= 2
    BY <2>1, <2>2
  <2> QED
    BY <1>2, <2>3 DEF BeforeScenario, Handshake
<1>3. CASE ScenarioEnds \/ CheckNamespace
  BY <1>3 DEF ScenarioEnds, CheckNamespace, Handshake
<1>4. CASE StopCheck \/ StopHandshake \/ SendOnClosed \/ CloseChannel
  BY <1>4 DEF StopCheck, StopHandshake, SendOnClosed, CloseChannel, Handshake
<1>5. CASE \/ StoreGet \/ StoreGetFails \/ StoreMark \/ StoreWrite \/ StoreDone
           \/ \E l \in Logs : StoreVisit(l)
  BY <1>5 DEF StoreVisit, StoreGet, StoreGetFails, StoreMark, StoreWrite, StoreDone,
     Handshake
<1>6. CASE RenameFolder \/ RenameFails
  BY <1>6 DEF RenameFolder, RenameFails, Handshake
<1>7. CASE Cleanup
  BY <1>7 DEF Cleanup, Handshake
<1>8. CASE UNCHANGED vars
  BY <1>8 DEF vars, Handshake
<1> QED
  BY <1>1, <1>2, <1>3, <1>4, <1>5, <1>6, <1>7, <1>8, OthersKeepHandshake
     DEF Next, Step, Terminated, Hooks, Starter, Stop

\* StopPodLogCollector's send never waits for a loop that has returned: either the
\* loop is running, or the channel was closed before and the send panics.
THEOREM StopHeard == Spec => []StopIsHeard
<1>1. Init => Handshake
  BY DEF Init, Handshake
<1>2. IInv /\ Handshake => StopIsHeard
  <2> SUFFICES ASSUME IInv, Handshake, pc = "sending"
               PROVE  stopChan = "closed" \/ (stopChan = "open" /\ col \in Looping)
    BY DEF StopIsHeard
  <2> QED
    BY DEF IInv, TypeOK, Handshake
<1> QED
  BY <1>1, <1>2, StepHandshake, Invariance, PTL DEF Spec

\* Whatever pods and containers the followers look up, and however many scenarios
\* share the namespace: the only panic is that of a second stop.
THEOREM OnlyPanic == Spec => []PanicOnlyOnSecondStop
<1>1. Init => Handshake
  BY DEF Init, Handshake
<1>2. Handshake => PanicOnlyOnSecondStop
  BY DEF Handshake, PanicOnlyOnSecondStop
<1> QED
  BY <1>1, <1>2, StepHandshake, Invariance, PTL DEF Spec

\* A scan, whatever pods it finds, comes back to the select that receives the stop.
THEOREM ScanReturns == Spec => ScanComesBack
<1>1. IInv /\ [Next]_vars =>
        [col \notin {"none", "select", "exited"} /\ col' # col => ScanDescends]_vars
  <2> SUFFICES ASSUME IInv, Next, col \notin {"none", "select", "exited"}, col' # col
               PROVE  ScanDescends
    OBVIOUS
  <2> USE DEF mapVars, scanVars, storeVars, clusterVars, discVars, startVars
  <2>1. Collector
    <3>1. ~(Cluster \/ Hooks \/ ScenarioEnds \/ StopHandshake \/ Terminated)
      BY DEF Cluster, CreateNamespace, PodRuns, PodTerminates, Hooks, BeforeScenario,
         CheckNamespace, Stop, StopCheck, SendOnClosed, CloseChannel, StoreVisit,
         StoreGet, StoreGetFails, StoreMark, StoreWrite, StoreDone, RenameFolder,
         RenameFails, Cleanup, ScenarioEnds, StopHandshake, Terminated, vars
    <3>2. ~Starter
      BY DEF Starter, StartCheck, StartCreateFolder, StartCreateFolderFails, StartStore, IInv, Unmonitored
    <3>3. \A l \in Logs : ~(Follower(l) \/ MapRace(l))
      BY DEF Follower, FollowReturns, FollowFails, FollowCheck, FollowMark, FollowWrite,
         MapRace
    <3> QED
      BY <3>1, <3>2, <3>3 DEF Next, Step
  <2>2. CASE ScanDone \/ PodDone \/ PutConEnd
    BY <2>2 DEF ScanDone, PodDone, PutConEnd, ScanDescends, ScanPlace
  <2>3. CASE PutPodEnd
    BY <2>3 DEF PutPodEnd, ScanDescends
  <2>4. ASSUME NEW p \in Pods, PutPodBegin(p) PROVE ScanDescends
    BY <2>4 DEF PutPodBegin, ScanDescends, Shrinks
  <2>5. ASSUME NEW c \in Containers, PutConBegin(c) PROVE ScanDescends
    BY <2>5 DEF PutConBegin, ScanDescends, Shrinks
  <2>6. ~Tick
    BY DEF Tick
  <2> QED
    BY <2>1, <2>2, <2>3, <2>4, <2>5, <2>6 DEF Collector
<1> QED
  BY <1>1, Invariance, PTL DEF Spec, ScanComesBack
=============================================================================
