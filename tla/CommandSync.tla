---------------------------- MODULE CommandSync ----------------------------
(***************************************************************************)
(* Commands with retries and synchronisation of                            *)
(* bddframework/pkg/framework/command.go: Execute takes the mutex of the   *)
(* command's syncID out of syncMutexMap (and puts one there when there is  *)
(* none), holds it while the command runs and releases it.                 *)
(*                                                                         *)
(* Every thread executes one command.  Load and Store on the sync.Map are  *)
(* separate steps of getMutexOrCreate.  A mutex is named after the thread  *)
(* that created it; the mutexes of Warm syncIDs, of which a command was    *)
(* executed before, are named after the syncID.                            *)
(***************************************************************************)
EXTENDS Integers

CONSTANTS Threads,
          SyncIDs,
          Warm,        \* syncIDs with a mutex in syncMutexMap
          SyncOf,      \* syncID of each thread's command, or Nil
          Retries,     \* number of retries of each thread's command
          Nil

ASSUME ConstAssumption ==
    /\ Warm \subseteq SyncIDs
    /\ Threads \cap SyncIDs = {}
    /\ Nil \notin Threads \cup SyncIDs
    /\ SyncOf \in [Threads -> SyncIDs \cup {Nil}]
    /\ Retries \in [Threads -> Nat]

Mutexes == Threads \cup Warm

VARIABLES
    pc,       \* [Threads -> step of Execute]
    map,      \* syncMutexMap: mutex of each syncID, or Nil
    mutex,    \* mutex each thread got
    owner,    \* thread that holds each mutex, or Nil
    tries,    \* iterations of the retry loop
    err       \* result of the last one, "none" before any

vars == <<pc, map, mutex, owner, tries, err>>

TypeOK ==
    /\ pc \in [Threads -> {"start", "load", "store", "lock", "run", "unlock", "done"}]
    /\ map \in [SyncIDs -> Mutexes \cup {Nil}]
    /\ mutex \in [Threads -> Mutexes \cup {Nil}]
    /\ owner \in [Mutexes -> Threads \cup {Nil}]
    /\ tries \in [Threads -> Nat]
    /\ err \in [Threads -> {"none", "nil", "error"}]

Init ==
    /\ pc = [t \in Threads |-> "start"]
    /\ map = [i \in SyncIDs |-> IF i \in Warm THEN i ELSE Nil]
    /\ mutex = [t \in Threads |-> Nil]
    /\ owner = [m \in Mutexes |-> Nil]
    /\ tries = [t \in Threads |-> 0]
    /\ err = [t \in Threads |-> "none"]

Goto(t, from, to) == pc[t] = from /\ pc' = [pc EXCEPT ![t] = to]

\* Execute: a command without a syncID takes no mutex.
Execute(t) ==
    /\ Goto(t, "start", IF SyncOf[t] = Nil THEN "run" ELSE "load")
    /\ UNCHANGED <<map, mutex, owner, tries, err>>

\* getMutexOrCreate: syncMutexMap.Load
LoadMutex(t) ==
    /\ Goto(t, "load", IF map[SyncOf[t]] = Nil THEN "store" ELSE "lock")
    /\ mutex' = [mutex EXCEPT ![t] = map[SyncOf[t]]]
    /\ UNCHANGED <<map, owner, tries, err>>

\* Seeded fault: the key is stored as the value.
StoreMutex_Key(t) ==
    /\ Goto(t, "store", "lock")
    /\ mutex' = [mutex EXCEPT ![t] = t]
    /\ map' = [map EXCEPT ![SyncOf[t]] = SyncOf[t]]
    /\ UNCHANGED <<owner, tries, err>>

\* getMutexOrCreate: syncMutexMap.Store of a new mutex
StoreMutex(t) ==
    /\ Goto(t, "store", "lock")
    /\ mutex' = [mutex EXCEPT ![t] = t]
    /\ map' = [map EXCEPT ![SyncOf[t]] = t]
    /\ UNCHANGED <<owner, tries, err>>

\* Seeded fault: the command does not wait for the mutex.
Lock_NoWait(t) ==
    /\ Goto(t, "lock", "run")
    /\ owner' = [owner EXCEPT ![mutex[t]] = t]
    /\ UNCHANGED <<map, mutex, tries, err>>

\* mutex.Lock
Lock(t) ==
    /\ Goto(t, "lock", "run")
    /\ owner[mutex[t]] = Nil
    /\ owner' = [owner EXCEPT ![mutex[t]] = t]
    /\ UNCHANGED <<map, mutex, tries, err>>

\* Seeded fault: the retries are counted as the number of runs.
TriesLeft_OffByOne(t) == tries[t] < Retries[t]

\* The condition of the retry loop.
TriesLeft(t) == tries[t] <= Retries[t]

\* executeCommand: one iteration of the loop, left when the command succeeds.
Run(t) ==
    /\ pc[t] = "run" /\ err[t] # "nil" /\ TriesLeft(t)
    /\ tries' = [tries EXCEPT ![t] = @ + 1]
    /\ \E e \in {"nil", "error"} : err' = [err EXCEPT ![t] = e]
    /\ UNCHANGED <<pc, map, mutex, owner>>

\* The loop is left.
RunEnds(t) ==
    /\ err[t] = "nil" \/ ~TriesLeft(t)
    /\ Goto(t, "run", IF SyncOf[t] = Nil THEN "done" ELSE "unlock")
    /\ UNCHANGED <<map, mutex, owner, tries, err>>

\* Seeded fault: the mutex is released only when the command succeeded.
Unlock_OnSuccess(t) ==
    /\ Goto(t, "unlock", "done")
    /\ owner' = IF err[t] = "nil" THEN [owner EXCEPT ![mutex[t]] = Nil] ELSE owner
    /\ UNCHANGED <<map, mutex, tries, err>>

\* The deferred mutex.Unlock
Unlock(t) ==
    /\ Goto(t, "unlock", "done")
    /\ owner' = [owner EXCEPT ![mutex[t]] = Nil]
    /\ UNCHANGED <<map, mutex, tries, err>>

Terminated == (\A t \in Threads : pc[t] = "done") /\ UNCHANGED vars

Step(t) == \/ Execute(t) \/ LoadMutex(t) \/ StoreMutex(t) \/ Lock(t)
           \/ Run(t) \/ RunEnds(t) \/ Unlock(t)

Next == (\E t \in Threads : Step(t)) \/ Terminated

Spec == Init /\ [][Next]_vars

\* Goroutines make progress, and a Go mutex does not starve who waits for it.
FairSpec == Spec /\ \A t \in Threads : SF_vars(Step(t))

(***************************************************************************)
(* Properties.                                                             *)
(***************************************************************************)
Running(t) == pc[t] \in {"run", "unlock"}

\* "Sync method allows to execute only one command at a time based on the
\* syncID."
OneAtATime ==
    \A t, u \in Threads :
        Running(t) /\ Running(u) /\ SyncOf[t] = SyncOf[u] /\ SyncOf[t] # Nil => t = u

\* The part of it the code ensures: no two commands of a syncID that has its
\* mutex already run at the same time.
OneAtATimeWhenWarm ==
    \A t, u \in Threads :
        Running(t) /\ Running(u) /\ SyncOf[t] = SyncOf[u] /\ SyncOf[t] \in Warm => t = u

\* Execute reports success only when the command was run, and its last run
\* succeeded; and it gives up only after all retries.
ResultIsEarned ==
    \A t \in Threads : pc[t] = "done" => \/ err[t] = "nil" /\ tries[t] >= 1
                                         \/ err[t] = "error" /\ tries[t] = Retries[t] + 1

\* Every Execute returns, whatever mutexes and retries it goes through.
ExecuteReturns == \A t \in Threads : <>(pc[t] = "done")

(***************************************************************************)
(* The abstract queue of each warm syncID.                                 *)
(***************************************************************************)
WarmThreads == {t \in Threads : SyncOf[t] \in Warm}

\* Where a command is in the abstract queue.
RunState(t) == IF Running(t) THEN "running"
               ELSE IF pc[t] = "done" THEN "finished" ELSE "waiting"

AbsState == [t \in WarmThreads |-> RunState(t)]

Queue == INSTANCE ExclusiveRuns WITH
    Runners <- WarmThreads,
    GroupOf <- [t \in WarmThreads |-> SyncOf[t]],
    state   <- AbsState

\* Execute implements exclusive runs of the commands of a warm syncID, each of
\* which is run to its end once.
ImplementsExclusiveRuns == Queue!Spec
=============================================================================
