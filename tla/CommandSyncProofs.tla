------------------------- MODULE CommandSyncProofs -------------------------
(***************************************************************************)
(* Proofs about CommandSync, for any number of commands, syncIDs and       *)
(* retries: commands of a syncID that has its mutex run one at a time,     *)
(* Execute implements the abstract ExclusiveRuns for them, and the result  *)
(* it returns is that of its retry loop.  No command waits for a mutex     *)
(* nobody releases, and no Execute takes more steps than its retries give. *)
(***************************************************************************)
EXTENDS CommandSync, TLAPS

\* The mutex of a warm syncID stays in the map.
WarmMapped == \A i \in Warm : map[i] = i

\* Where Execute is tells whether the command has a syncID, and which mutex.
MutexKnown ==
    \A t \in Threads :
        /\ pc[t] \in {"load", "store", "lock", "unlock"} => SyncOf[t] \in SyncIDs
        /\ pc[t] = "store" => SyncOf[t] \notin Warm
        /\ pc[t] = "lock" => mutex[t] # Nil
        /\ pc[t] \in {"lock", "run", "unlock"} /\ SyncOf[t] \in Warm => mutex[t] = SyncOf[t]

\* Who runs under a syncID owns the mutex it got.
RunningOwns ==
    \A t \in Threads : Running(t) /\ SyncOf[t] # Nil => /\ mutex[t] # Nil
                                                        /\ owner[mutex[t]] = t

IInv == TypeOK /\ WarmMapped /\ MutexKnown /\ RunningOwns

\* The invariant holds before any command is executed.
LEMMA InitIInv == Init => IInv
<1> SUFFICES ASSUME Init PROVE IInv
  OBVIOUS
<1> USE ConstAssumption DEF Init, Mutexes
<1>1. TypeOK
  BY DEF TypeOK
<1>2. WarmMapped
  BY DEF WarmMapped
<1>3. MutexKnown /\ RunningOwns
  BY DEF MutexKnown, RunningOwns, Running
<1> QED
  BY <1>1, <1>2, <1>3 DEF IInv

\* Every step of Execute keeps it.
LEMMA StepIInv == IInv /\ [Next]_vars => IInv'
<1> SUFFICES ASSUME IInv, [Next]_vars PROVE IInv'
  OBVIOUS
<1> USE ConstAssumption DEF IInv, TypeOK, Mutexes, Goto
<1>1. ASSUME NEW t \in Threads, Execute(t) PROVE IInv'
  <2>1. TypeOK'
    BY <1>1 DEF Execute
  <2>2. WarmMapped' /\ MutexKnown' /\ RunningOwns'
    BY <1>1 DEF Execute, WarmMapped, MutexKnown, RunningOwns, Running
  <2> QED
    BY <2>1, <2>2
<1>2. ASSUME NEW t \in Threads, LoadMutex(t) PROVE IInv'
  <2>0. SyncOf[t] \in SyncIDs /\ map[SyncOf[t]] \in Mutexes \cup {Nil}
    BY <1>2 DEF LoadMutex, MutexKnown
  <2>1. TypeOK'
    BY <1>2, <2>0 DEF LoadMutex
  <2>2. WarmMapped'
    BY <1>2 DEF LoadMutex, WarmMapped
  <2>3. MutexKnown'
    BY <1>2, <2>0 DEF LoadMutex, WarmMapped, MutexKnown
  <2>4. RunningOwns'
    BY <1>2 DEF LoadMutex, RunningOwns, Running
  <2> QED
    BY <2>1, <2>2, <2>3, <2>4
<1>3. ASSUME NEW t \in Threads, StoreMutex(t) PROVE IInv'
  <2>1. TypeOK'
    BY <1>3 DEF StoreMutex
  <2>2. WarmMapped'
    BY <1>3 DEF StoreMutex, WarmMapped, MutexKnown
  <2>3. MutexKnown'
    BY <1>3 DEF StoreMutex, MutexKnown
  <2>4. RunningOwns'
    BY <1>3 DEF StoreMutex, RunningOwns, Running
  <2> QED
    BY <2>1, <2>2, <2>3, <2>4
<1>4. ASSUME NEW t \in Threads, Lock(t) PROVE IInv'
  <2>1. mutex[t] \in Mutexes
    BY <1>4 DEF Lock, MutexKnown
  <2>2. TypeOK'
    BY <1>4, <2>1 DEF Lock
  <2>3. WarmMapped' /\ MutexKnown'
    BY <1>4 DEF Lock, WarmMapped, MutexKnown
  <2>4. RunningOwns'
    BY <1>4, <2>1 DEF Lock, RunningOwns, Running
  <2> QED
    BY <2>2, <2>3, <2>4
<1>5. ASSUME NEW t \in Threads, Run(t) PROVE IInv'
  <2>1. TypeOK'
    BY <1>5 DEF Run
  <2>2. WarmMapped' /\ MutexKnown' /\ RunningOwns'
    BY <1>5 DEF Run, WarmMapped, MutexKnown, RunningOwns, Running
  <2> QED
    BY <2>1, <2>2
<1>6. ASSUME NEW t \in Threads, RunEnds(t) PROVE IInv'
  <2>1. TypeOK'
    BY <1>6 DEF RunEnds
  <2>2. WarmMapped' /\ MutexKnown'
    BY <1>6 DEF RunEnds, WarmMapped, MutexKnown
  <2>3. RunningOwns'
    BY <1>6 DEF RunEnds, RunningOwns, Running
  <2> QED
    BY <2>1, <2>2, <2>3
<1>7. ASSUME NEW t \in Threads, Unlock(t) PROVE IInv'
  <2>1. mutex[t] \in Mutexes /\ owner[mutex[t]] = t
    BY <1>7 DEF Unlock, MutexKnown, RunningOwns, Running
  <2>2. TypeOK'
    BY <1>7, <2>1 DEF Unlock
  <2>3. WarmMapped' /\ MutexKnown'
    BY <1>7 DEF Unlock, WarmMapped, MutexKnown
  <2>4. RunningOwns'
    BY <1>7, <2>1 DEF Unlock, RunningOwns, Running
  <2> QED
    BY <2>2, <2>3, <2>4
<1>8. CASE UNCHANGED vars
  BY <1>8 DEF vars, WarmMapped, MutexKnown, RunningOwns, Running
<1> QED
  BY <1>1, <1>2, <1>3, <1>4, <1>5, <1>6, <1>7, <1>8 DEF Next, Step, Terminated

\* The inductive invariant of Execute.
THEOREM Invariance == Spec => []IInv
<1> QED
  BY InitIInv, StepIInv, PTL DEF Spec

\* Variables keep their types, whatever the commands and their syncIDs are.
THEOREM TypeCorrect == Spec => []TypeOK
<1>1. IInv => TypeOK
  BY DEF IInv
<1> QED
  BY <1>1, Invariance, PTL

\* Owning the one mutex of a warm syncID excludes every other owner.
LEMMA Exclusion == IInv => OneAtATimeWhenWarm
<1> SUFFICES ASSUME IInv,
                    NEW t \in Threads, NEW u \in Threads,
                    Running(t), Running(u), SyncOf[t] = SyncOf[u], SyncOf[t] \in Warm
             PROVE  t = u
  BY DEF OneAtATimeWhenWarm
<1>1. mutex[t] = SyncOf[t] /\ mutex[u] = SyncOf[t]
  BY DEF IInv, MutexKnown, Running
<1>2. owner[mutex[t]] = t /\ owner[mutex[u]] = u
  BY ConstAssumption DEF IInv, RunningOwns
<1> QED
  BY <1>1, <1>2

\* Commands of a syncID whose mutex is in syncMutexMap run one at a time.
THEOREM WarmExclusion == Spec => []OneAtATimeWhenWarm
<1> QED
  BY Exclusion, Invariance, PTL

\* No command runs at first.
LEMMA RefinesInit == Init => Queue!Init
<1> SUFFICES ASSUME Init PROVE Queue!Init
  OBVIOUS
<1>1. ASSUME NEW t \in WarmThreads PROVE RunState(t) = "waiting"
  BY <1>1 DEF Init, RunState, Running, WarmThreads
<1> QED
  BY <1>1 DEF Queue!Init, AbsState

\* Lock enters the group, Unlock leaves it, and the other steps do neither.
LEMMA RefinesStep == IInv /\ [Next]_vars => [Queue!Next]_AbsState
<1> SUFFICES ASSUME IInv, [Next]_vars PROVE Queue!Next \/ AbsState' = AbsState
  OBVIOUS
<1> USE DEF Goto
<1>a. pc \in [Threads -> {"start", "load", "store", "lock", "run", "unlock", "done"}]
  BY DEF IInv, TypeOK
<1>1. ASSUME NEW t \in Threads,
             Execute(t) \/ LoadMutex(t) \/ StoreMutex(t) \/ Run(t) \/ RunEnds(t)
      PROVE  AbsState' = AbsState
  <2> SUFFICES ASSUME NEW u \in WarmThreads PROVE RunState(u)' = RunState(u)
    BY DEF AbsState
  <2>1. u \in Threads /\ SyncOf[u] # Nil
    BY ConstAssumption DEF WarmThreads
  <2> QED
    BY <1>a, <1>1, <2>1
       DEF Execute, LoadMutex, StoreMutex, Run, RunEnds, RunState, Running
<1>2. ASSUME NEW t \in Threads, Lock(t) PROVE Queue!Next \/ AbsState' = AbsState
  <2>1. pc[t] = "lock" /\ pc' = [pc EXCEPT ![t] = "run"] /\ owner[mutex[t]] = Nil
    BY <1>2 DEF Lock
  <2>2. CASE t \notin WarmThreads
    BY <1>a, <2>1, <2>2 DEF AbsState, RunState, Running, WarmThreads
  <2>3. CASE t \in WarmThreads
    <3>1. RunState(t) = "waiting"
      BY <2>1 DEF RunState, Running
    <3>2. ASSUME NEW u \in WarmThreads, SyncOf[u] = SyncOf[t] PROVE RunState(u) # "running"
      <4>1. mutex[t] = SyncOf[t]
        BY <2>1, <2>3 DEF IInv, MutexKnown, WarmThreads
      <4>2. Running(u) => mutex[u] = SyncOf[t] /\ owner[mutex[u]] = u
        BY <2>3, <3>2, ConstAssumption DEF IInv, MutexKnown, RunningOwns, Running, WarmThreads
      <4>3. u # Nil
        BY ConstAssumption DEF WarmThreads
      <4> QED
        BY <2>1, <4>1, <4>2, <4>3 DEF RunState
    <3>3. AbsState' = [AbsState EXCEPT ![t] = "running"]
      BY <1>a, <2>1, <2>3 DEF AbsState, RunState, Running, WarmThreads
    <3>4. Queue!Enter(t)
      BY <2>3, <3>1, <3>2, <3>3 DEF Queue!Enter, AbsState
    <3> QED
      BY <2>3, <3>4 DEF Queue!Next
  <2> QED
    BY <2>2, <2>3
<1>3. ASSUME NEW t \in Threads, Unlock(t) PROVE Queue!Next \/ AbsState' = AbsState
  <2>1. pc[t] = "unlock" /\ pc' = [pc EXCEPT ![t] = "done"]
    BY <1>3 DEF Unlock
  <2>2. CASE t \notin WarmThreads
    BY <1>a, <2>1, <2>2 DEF AbsState, RunState, Running, WarmThreads
  <2>3. CASE t \in WarmThreads
    <3>1. RunState(t) = "running"
      BY <2>1 DEF RunState, Running
    <3>2. AbsState' = [AbsState EXCEPT ![t] = "finished"]
      BY <1>a, <2>1, <2>3 DEF AbsState, RunState, Running, WarmThreads
    <3>3. Queue!Leave(t)
      BY <2>3, <3>1, <3>2 DEF Queue!Leave, AbsState
    <3> QED
      BY <2>3, <3>3 DEF Queue!Next
  <2> QED
    BY <2>2, <2>3
<1>4. CASE UNCHANGED vars
  BY <1>4 DEF vars, AbsState, RunState, Running
<1> QED
  BY <1>1, <1>2, <1>3, <1>4 DEF Next, Step, Terminated

\* Execute implements the abstract queue of the syncIDs that have their mutex.
THEOREM Refinement == Spec => ImplementsExclusiveRuns
<1> QED
  BY RefinesInit, RefinesStep, Invariance, PTL DEF Spec, ImplementsExclusiveRuns, Queue!Spec

\* What the retry loop of a thread has done: nothing before it, no run after a
\* success, at most one run more than there are retries, and no end unearned.
Earning(t) ==
    /\ pc[t] \in {"start", "load", "store", "lock"} => tries[t] = 0 /\ err[t] = "none"
    /\ tries[t] <= Retries[t] + 1
    /\ IF err[t] = "none" THEN tries[t] = 0 ELSE tries[t] >= 1
    /\ pc[t] \in {"unlock", "done"} =>
          \/ err[t] = "nil"
          \/ err[t] = "error" /\ tries[t] = Retries[t] + 1

Earned == \A t \in Threads : Earning(t)

\* No loop has begun at first.
LEMMA InitEarned == Init => Earned
<1> SUFFICES ASSUME Init, NEW t \in Threads PROVE Earning(t)
  BY DEF Earned
<1>1. pc[t] = "start" /\ tries[t] = 0 /\ err[t] = "none" /\ Retries[t] \in Nat
  BY ConstAssumption DEF Init
<1> QED
  BY <1>1 DEF Earning

\* The loop counts its runs up to the retries, and is left for a reason.
LEMMA StepEarned == IInv /\ Earned /\ [Next]_vars => Earned'
<1> SUFFICES ASSUME IInv, Earned, [Next]_vars, NEW u \in Threads PROVE Earning(u)'
  BY DEF Earned
<1>a. /\ pc \in [Threads -> {"start", "load", "store", "lock", "run", "unlock", "done"}]
      /\ tries \in [Threads -> Nat] /\ err \in [Threads -> {"none", "nil", "error"}]
  BY DEF IInv, TypeOK
<1>b. Retries[u] \in Nat /\ tries[u] \in Nat
  BY <1>a, ConstAssumption
<1>c. Earning(u)
  BY DEF Earned
<1>1. ASSUME NEW t \in Threads,
             Execute(t) \/ LoadMutex(t) \/ StoreMutex(t) \/ Lock(t) \/ Unlock(t)
      PROVE  Earning(u)'
  <2>1. tries' = tries /\ err' = err
    BY <1>1 DEF Execute, LoadMutex, StoreMutex, Lock, Unlock
  <2>2. \/ pc'[u] = pc[u]
        \/ pc'[u] \in {"load", "store", "lock", "run"} /\ pc[u] \in {"start", "load", "store", "lock"}
        \/ pc[u] = "unlock" /\ pc'[u] = "done"
    BY <1>a, <1>1 DEF Execute, LoadMutex, StoreMutex, Lock, Unlock, Goto
  <2> QED
    BY <1>c, <2>1, <2>2 DEF Earning
<1>2. ASSUME NEW t \in Threads, Run(t) PROVE Earning(u)'
  <2>1. CASE u # t
    BY <1>a, <1>c, <1>2, <2>1 DEF Run, Earning
  <2>2. CASE u = t
    <3>1. pc[u] = "run" /\ pc' = pc /\ tries[u] <= Retries[u]
      BY <1>2, <2>2 DEF Run, TriesLeft
    <3>2. tries'[u] = tries[u] + 1 /\ err'[u] \in {"nil", "error"}
      BY <1>a, <1>2, <2>2 DEF Run
    <3> QED
      BY <1>b, <3>1, <3>2 DEF Earning
  <2> QED
    BY <2>1, <2>2
<1>3. ASSUME NEW t \in Threads, RunEnds(t) PROVE Earning(u)'
  <2>1. tries' = tries /\ err' = err
    BY <1>3 DEF RunEnds
  <2>2. CASE u # t
    BY <1>a, <1>c, <1>3, <2>1, <2>2 DEF RunEnds, Goto, Earning
  <2>3. CASE u = t
    <3>1. pc'[u] \in {"unlock", "done"} /\ (err[u] = "nil" \/ ~(tries[u] <= Retries[u]))
      BY <1>a, <1>3, <2>3 DEF RunEnds, Goto, TriesLeft
    <3>2. err[u] = "none" => tries[u] <= Retries[u]
      BY <1>b, <1>c DEF Earning
    <3>3. err[u] \in {"none", "nil", "error"}
      BY <1>a
    <3>4. \/ err[u] = "nil"
          \/ err[u] = "error" /\ tries[u] = Retries[u] + 1
      BY <1>b, <1>c, <3>1, <3>2, <3>3 DEF Earning
    <3> QED
      BY <1>c, <2>1, <3>1, <3>4 DEF Earning
  <2> QED
    BY <2>2, <2>3
<1>4. CASE UNCHANGED vars
  BY <1>c, <1>4 DEF vars, Earning
<1> QED
  BY <1>1, <1>2, <1>3, <1>4 DEF Next, Step, Terminated

\* Execute reports success only after a run that succeeded, and gives up only
\* after all retries, whatever their number.
THEOREM EarnedResults == Spec => []ResultIsEarned
<1>1. Earned => ResultIsEarned
  BY DEF Earned, Earning, ResultIsEarned
<1> QED
  BY <1>1, InitEarned, StepEarned, Invariance, PTL DEF Spec

(***************************************************************************)
(* The parts of the return of Execute that need no fairness: who waits     *)
(* waits for somebody who goes on, and everybody's steps are numbered.     *)
(***************************************************************************)

\* A mutex that is held is held by the command that runs with it.
HeldByRunner ==
    \A m \in Mutexes : owner[m] # Nil =>
        Running(owner[m]) /\ SyncOf[owner[m]] # Nil /\ mutex[owner[m]] = m

\* Lock waits.
Waits(t) == pc[t] = "lock" /\ owner[mutex[t]] # Nil

\* A command that waits for a mutex waits for another one, which runs or is
\* about to unlock, and does not wait itself: no chain of waiting commands, and
\* no mutex that stays locked, also when a mutex was created twice.
WaitsForRunner ==
    \A t \in Threads : Waits(t) =>
        LET u == owner[mutex[t]]
        IN  u \in Threads \ {t} /\ Running(u) /\ ~Waits(u)

LEMMA InitHeld == Init => HeldByRunner
  BY DEF Init, HeldByRunner

\* Only Lock takes a mutex, and only its owner's Unlock gives it back.
LEMMA StepHeld == IInv /\ HeldByRunner /\ [Next]_vars => HeldByRunner'
<1> SUFFICES ASSUME IInv, HeldByRunner, [Next]_vars,
                    NEW m \in Mutexes, owner'[m] # Nil
             PROVE  /\ Running(owner[m])' /\ SyncOf[owner'[m]] # Nil
                    /\ mutex'[owner'[m]] = m
  BY DEF HeldByRunner
<1> USE ConstAssumption DEF Goto
<1>a. /\ pc \in [Threads -> {"start", "load", "store", "lock", "run", "unlock", "done"}]
      /\ mutex \in [Threads -> Mutexes \cup {Nil}]
      /\ owner \in [Mutexes -> Threads \cup {Nil}]
  BY DEF IInv, TypeOK
<1>b. owner[m] # Nil => /\ owner[m] \in Threads /\ Running(owner[m])
                        /\ SyncOf[owner[m]] # Nil /\ mutex[owner[m]] = m
  BY <1>a DEF HeldByRunner
<1>1. ASSUME NEW t \in Threads,
             Execute(t) \/ LoadMutex(t) \/ StoreMutex(t) \/ Run(t)
      PROVE  Running(owner[m])' /\ SyncOf[owner'[m]] # Nil /\ mutex'[owner'[m]] = m
  BY <1>a, <1>b, <1>1 DEF Execute, LoadMutex, StoreMutex, Run, Running
<1>2. ASSUME NEW t \in Threads, RunEnds(t)
      PROVE  Running(owner[m])' /\ SyncOf[owner'[m]] # Nil /\ mutex'[owner'[m]] = m
  BY <1>a, <1>b, <1>2 DEF RunEnds, Running
<1>3. ASSUME NEW t \in Threads, Lock(t)
      PROVE  Running(owner[m])' /\ SyncOf[owner'[m]] # Nil /\ mutex'[owner'[m]] = m
  <2>1. pc[t] = "lock" /\ SyncOf[t] # Nil /\ mutex[t] \in Mutexes
    BY <1>a, <1>3 DEF Lock, IInv, MutexKnown
  <2>2. CASE m = mutex[t]
    BY <1>a, <1>3, <2>1, <2>2 DEF Lock, Running
  <2>3. CASE m # mutex[t]
    BY <1>a, <1>b, <1>3, <2>1, <2>3 DEF Lock, Running
  <2> QED
    BY <2>2, <2>3
<1>4. ASSUME NEW t \in Threads, Unlock(t)
      PROVE  Running(owner[m])' /\ SyncOf[owner'[m]] # Nil /\ mutex'[owner'[m]] = m
  <2>1. owner[mutex[t]] = t /\ mutex[t] \in Mutexes
    BY <1>a, <1>4 DEF Unlock, IInv, MutexKnown, RunningOwns, Running
  <2>2. m # mutex[t]
    BY <1>a, <1>4, <2>1 DEF Unlock
  <2>3. owner'[m] = owner[m] /\ owner[m] # t
    BY <1>a, <1>b, <1>4, <2>1, <2>2 DEF Unlock
  <2> QED
    BY <1>a, <1>b, <1>4, <2>3 DEF Unlock, Running
<1>5. CASE UNCHANGED vars
  BY <1>b, <1>5 DEF vars, Running
<1> QED
  BY <1>1, <1>2, <1>3, <1>4, <1>5 DEF Next, Step, Terminated

\* Whoever waits in Lock waits for a command that is running.
THEOREM NoDeadlock == Spec => []WaitsForRunner
<1>1. IInv /\ HeldByRunner => WaitsForRunner
  <2> SUFFICES ASSUME IInv, HeldByRunner, NEW t \in Threads, Waits(t)
               PROVE  /\ owner[mutex[t]] \in Threads \ {t}
                      /\ Running(owner[mutex[t]]) /\ ~Waits(owner[mutex[t]])
    BY DEF WaitsForRunner
  <2>1. mutex[t] \in Mutexes /\ pc[t] = "lock"
    BY DEF Waits, IInv, TypeOK, MutexKnown
  <2>2. owner[mutex[t]] \in Threads
    BY <2>1 DEF Waits, IInv, TypeOK
  <2>3. Running(owner[mutex[t]])
    BY <2>1 DEF Waits, HeldByRunner
  <2> QED
    BY <2>1, <2>2, <2>3 DEF Running, Waits
<1> QED
  BY <1>1, InitHeld, StepHeld, Invariance, PTL DEF Spec

\* How many steps outside the retry loop Execute has still to do, at most
Ahead(t) ==
    CASE pc[t] = "start"  -> 6
      [] pc[t] = "load"   -> 5
      [] pc[t] = "store"  -> 4
      [] pc[t] = "lock"   -> 3
      [] pc[t] = "run"    -> 2
      [] pc[t] = "unlock" -> 1
      [] pc[t] = "done"   -> 0

\* ... and with the runs that are left to the loop
StepsLeft(t) == Ahead(t) + (Retries[t] + 1 - tries[t])

StepsNumbered == \A t \in Threads : StepsLeft(t) \in 0 .. Retries[t] + 7

\* A step of one Execute brings it nearer to its end, and no other further away.
StepsBringNearer ==
    [][\A t \in Threads : Step(t) =>
          /\ StepsLeft(t)' < StepsLeft(t)
          /\ \A u \in Threads \ {t} : StepsLeft(u)' = StepsLeft(u)]_vars

LEMMA AheadType == ASSUME TypeOK, NEW t \in Threads PROVE Ahead(t) \in 0 .. 6
  BY DEF TypeOK, Ahead

\* Every step but those of the loop goes forward, and the loop counts its runs.
LEMMA StepBringsNearer ==
    ASSUME TypeOK, TypeOK', Earned, Earned', NEW t \in Threads, Step(t)
    PROVE  /\ StepsLeft(t)' < StepsLeft(t)
           /\ \A u \in Threads \ {t} : StepsLeft(u)' = StepsLeft(u)
<1> USE DEF Goto
<1>1. /\ pc \in [Threads -> {"start", "load", "store", "lock", "run", "unlock", "done"}]
      /\ tries \in [Threads -> Nat] /\ Retries[t] \in Nat
      /\ Ahead(t) \in 0 .. 6
  BY ConstAssumption, AheadType DEF TypeOK
<1>2. CASE Run(t)
  <2>1. tries'[t] = tries[t] + 1 /\ pc' = pc
    BY <1>1, <1>2 DEF Run
  <2>2. Ahead(t)' = Ahead(t) /\ \A u \in Threads \ {t} : Ahead(u)' = Ahead(u)
    BY <2>1 DEF Ahead
  <2>3. \A u \in Threads \ {t} : tries'[u] = tries[u]
    BY <1>1, <1>2 DEF Run
  <2>4. tries[t] \in Nat
    BY <1>1
  <2> QED
    BY <1>1, <2>1, <2>2, <2>3, <2>4 DEF StepsLeft
<1>3. CASE Execute(t) \/ LoadMutex(t) \/ StoreMutex(t) \/ Lock(t) \/ RunEnds(t) \/ Unlock(t)
  <2>1. tries' = tries /\ \A u \in Threads \ {t} : pc'[u] = pc[u]
    BY <1>1, <1>3 DEF Execute, LoadMutex, StoreMutex, Lock, RunEnds, Unlock
  <2>2. Ahead(t)' \in 0 .. 6 /\ Ahead(t)' < Ahead(t)
    BY <1>1, <1>3 DEF Execute, LoadMutex, StoreMutex, Lock, RunEnds, Unlock, Ahead
  <2>3. \A u \in Threads \ {t} : Ahead(u)' = Ahead(u)
    BY <2>1 DEF Ahead
  <2>4. tries[t] \in Nat
    BY <1>1
  <2> QED
    BY <1>1, <2>1, <2>2, <2>3, <2>4 DEF StepsLeft
<1> QED
  BY <1>2, <1>3 DEF Step

\* Execute takes at most seven steps more than it has retries, whatever the other
\* commands do, apart from the time it waits.
THEOREM BoundedWork == Spec => []StepsNumbered /\ StepsBringNearer
<1>1. IInv /\ Earned => StepsNumbered
  <2> SUFFICES ASSUME IInv, Earned, NEW t \in Threads
               PROVE  StepsLeft(t) \in 0 .. Retries[t] + 7
    BY DEF StepsNumbered
  <2>1. Ahead(t) \in 0 .. 6 /\ tries[t] \in Nat /\ Retries[t] \in Nat
    BY AheadType, ConstAssumption DEF IInv, TypeOK
  <2>2. tries[t] <= Retries[t] + 1
    BY DEF Earned, Earning
  <2> QED
    BY <2>1, <2>2 DEF StepsLeft
<1>2. IInv /\ IInv' /\ Earned /\ Earned' /\ [Next]_vars =>
        [\A t \in Threads : Step(t) =>
            /\ StepsLeft(t)' < StepsLeft(t)
            /\ \A u \in Threads \ {t} : StepsLeft(u)' = StepsLeft(u)]_vars
  BY StepBringsNearer DEF IInv
<1>3. Spec => []Earned
  BY InitEarned, StepEarned, Invariance, PTL DEF Spec
<1> QED
  BY <1>1, <1>2, <1>3, Invariance, PTL DEF Spec, StepsBringNearer
=============================================================================
