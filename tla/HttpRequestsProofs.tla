------------------------- MODULE HttpRequestsProofs -------------------------
(***************************************************************************)
(* Proofs about HttpRequests, for every retry number, every number of      *)
(* requests and any threads: what a step repeats, what it remembers, and   *)
(* that its threads together send all requests.                            *)
(***************************************************************************)
EXTENDS HttpRequests, FiniteSetTheorems, TLAPS

\* Only a step of kind "threads" has threads, and it does not poll.
ThreadsOnlyThere ==
    /\ running # {} \/ pc = "joining" => kind = "threads"
    /\ kind = "threads" => pc \notin {"sending", "judging"}

\* An answer that is looked at is to a request that the service has processed.
AnswerCounted == pc = "judging" /\ last = "2xx" => answer \in 1 .. served

\* A benchmark step remembers the run that its last answer was about.
RunIsAnswer == kind = "benchmark" /\ pc = "succeeded" => runID = answer

IInv == TypeOK /\ ThreadsOnlyThere /\ AnswerCounted /\ RunIsAnswer /\ RepeatedOnlyAfterLoss

\* One more request is processed.
LEMMA OneMore ==
    ASSUME NEW n \in Nat
    PROVE  1 .. (n + 1) = (1 .. n) \cup {n + 1} /\ n + 1 \notin 1 .. n /\ n + 1 \in Nat
  OBVIOUS

\* The numbers of a state that has its types
LEMMA Numbers ==
    ASSUME TypeOK
    PROVE  /\ MaxServed \in Nat /\ served \in Nat /\ late \in Nat /\ answer \in Nat
           /\ runID \in Nat /\ answer <= served /\ runID <= served
           /\ served + late <= MaxServed
  BY ConstAssumption DEF TypeOK

\* What the service makes of a request.
LEMMA Served ==
    ASSUME NEW outcome \in Outcomes, NEW now \in 0 .. 1, NEW later \in 0 .. 1, TypeOK,
           Serve(outcome, now, later)
    PROVE  /\ served' \in Nat /\ late' \in Nat /\ served' + late' <= MaxServed
           /\ served <= served'
           /\ spoiled' \subseteq 1 .. served'
           /\ outcome # "2xx" /\ spoiled = 1 .. served => spoiled' = 1 .. served'
           /\ outcome = "2xx" => served' = served + 1 /\ spoiled' = spoiled /\ late' = late
<1>1. /\ MaxServed \in Nat /\ served \in Nat /\ late \in Nat
      /\ spoiled \subseteq 1 .. served
  BY Numbers DEF TypeOK
<1>2. /\ served' = served + now /\ late' = late + later /\ served' + late' <= MaxServed
      /\ outcome = "2xx" => now = 1 /\ later = 0
  BY DEF Serve
<1>3. served' \in Nat /\ late' \in Nat /\ served <= served'
  BY <1>1, <1>2
<1>4. CASE now = 0
  <2>1. served' = served /\ spoiled' = spoiled /\ outcome # "2xx"
    BY <1>1, <1>2, <1>4 DEF Serve
  <2>2. 1 .. served' = 1 .. served
    BY <2>1
  <2>3. spoiled' \subseteq 1 .. served' /\ (spoiled = 1 .. served => spoiled' = 1 .. served')
    BY <1>1, <2>1, <2>2
  <2> QED
    BY <1>2, <1>3, <2>1, <2>3
<1>5. CASE now = 1
  <2>1. /\ served' = served + 1
        /\ spoiled' = IF outcome = "2xx" THEN spoiled ELSE spoiled \cup {served + 1}
    BY <1>2, <1>5 DEF Serve
  <2>2. 1 .. served' = (1 .. served) \cup {served + 1}
    BY <1>1, <2>1, OneMore
  <2>3. /\ spoiled' \subseteq 1 .. served'
        /\ outcome # "2xx" /\ spoiled = 1 .. served => spoiled' = 1 .. served'
        /\ outcome = "2xx" => spoiled' = spoiled
    BY <1>1, <2>1, <2>2
  <2>4. outcome = "2xx" => late' = late
    BY <1>1, <1>2
  <2> QED
    BY <1>2, <1>3, <2>1, <2>3, <2>4
<1> QED
  BY <1>4, <1>5

\* The invariant holds when the step starts.
LEMMA InitIInv == Init => IInv
<1> SUFFICES ASSUME Init PROVE IInv
  OBVIOUS
<1>1. MaxServed \in Nat
  BY ConstAssumption
<1>2. TypeOK
  BY <1>1 DEF Init, TypeOK
<1>3. ThreadsOnlyThere /\ AnswerCounted /\ RepeatedOnlyAfterLoss /\ RunIsAnswer
  BY DEF Init, ThreadsOnlyThere, AnswerCounted, RepeatedOnlyAfterLoss, RunIsAnswer
<1> QED
  BY <1>2, <1>3 DEF IInv

\* The types are kept by every step, of the threads and of the service too.
LEMMA StepTypeOK == TypeOK /\ AnswerCounted /\ [Next]_vars => TypeOK'
<1> SUFFICES ASSUME TypeOK, AnswerCounted, [Next]_vars PROVE TypeOK'
  OBVIOUS
<1> USE ConstAssumption DEF TypeOK, Goto, step, threads, attempt, service
<1>1. CASE Tick
  BY <1>1 DEF Tick
<1>2. CASE Send
  <2>1. PICK outcome \in Outcomes, now \in 0 .. 1, later \in 0 .. 1, content \in {"yes", "no"} :
          /\ Serve(outcome, now, later)
          /\ last' = outcome
          /\ answer' = IF outcome = "2xx" THEN served' ELSE answer
          /\ has' = IF outcome = "2xx" THEN content ELSE "no"
          /\ pc' = IF kind \in Retrying /\ Again(outcome) THEN "sending" ELSE "judging"
    BY <1>2 DEF Send
  <2>2. /\ served' \in Nat /\ late' \in Nat /\ served' + late' <= MaxServed
        /\ served <= served' /\ spoiled' \subseteq 1 .. served'
    BY <2>1, Served
  <2>3. answer' \in 0 .. served' /\ runID \in 0 .. served'
    BY <2>1, <2>2, Numbers
  <2>4. sent' \in Nat /\ UNCHANGED <<step, runID, threads>>
    BY <1>2 DEF Send
  <2>5. /\ pc' \in {"sending", "judging"} /\ last' \in Outcomes
        /\ has' \in {"yes", "no"}
    BY <2>1
  <2> QED
    BY <2>2, <2>3, <2>4, <2>5
<1>3. CASE Judge
  BY <1>3 DEF Judge
<1>4. CASE JudgeUnreadable
  BY <1>4 DEF JudgeUnreadable, AnswerCounted
<1>5. CASE StartThreads
  <2>1. /\ todo' \in [Threads -> Nat]
        /\ running' \in SUBSET Threads
    <3>1. NumThreads \in Nat /\ NumThreads # 0
      BY FS_CardinalityType, FS_EmptySet DEF NumThreads
    <3>2. requestCount \in Nat
      OBVIOUS
    <3>3. requestCount \div NumThreads \in Nat
      BY <3>1, <3>2
    <3> QED
      BY <1>5, <3>3 DEF StartThreads
  <2> QED
    BY <1>5, <2>1 DEF StartThreads
<1>6. CASE Join
  BY <1>6 DEF Join
<1>7. CASE Timeout
  BY <1>7 DEF Timeout
<1>8. ASSUME NEW t \in Threads, Thread(t) PROVE TypeOK'
  <2>1. CASE ThreadSend(t)
    <3>1. PICK outcome \in Outcomes, now \in 0 .. 1, later \in 0 .. 1 :
            /\ Serve(outcome, now, later)
            /\ IF outcome = "2xx"
               THEN todo' = [todo EXCEPT ![t] = @ - 1] /\ UNCHANGED result
               ELSE result' = [result EXCEPT ![t] = "error"] /\ UNCHANGED todo
      BY <2>1 DEF ThreadSend
    <3>2. /\ served' \in Nat /\ late' \in Nat /\ served' + late' <= MaxServed
          /\ served <= served' /\ spoiled' \subseteq 1 .. served'
      BY <3>1, Served
    <3>3. todo' \in [Threads -> Nat] /\ result' \in [Threads -> {"none", "success", "error"}]
      BY <2>1, <3>1 DEF ThreadSend
    <3>4. answer \in 0 .. served' /\ runID \in 0 .. served'
      BY <3>2, Numbers
    <3> QED
      BY <2>1, <3>2, <3>3, <3>4 DEF ThreadSend
  <2>2. CASE ThreadSucceeds(t)
    BY <2>2 DEF ThreadSucceeds
  <2>3. CASE ThreadDone(t)
    BY <2>3 DEF ThreadDone
  <2> QED
    BY <1>8, <2>1, <2>2, <2>3 DEF Thread
<1>9. CASE ServeLate
  <2>1. late' = late - 1 /\ served' = served + 1 /\ spoiled' = spoiled \cup {served + 1} /\ late > 0
    BY <1>9 DEF ServeLate
  <2>2. served' \in Nat /\ late' \in Nat /\ served' + late' <= MaxServed
    BY <2>1, Numbers
  <2>3. spoiled' \subseteq 1 .. served'
    BY <2>1, Numbers, OneMore
  <2>4. answer \in 0 .. served' /\ runID \in 0 .. served'
    BY <2>1, Numbers
  <2> QED
    BY <1>9, <2>2, <2>3, <2>4 DEF ServeLate
<1>10. CASE UNCHANGED vars
  BY <1>10 DEF vars
<1> QED
  BY <1>1, <1>2, <1>3, <1>4, <1>5, <1>6, <1>7, <1>8, <1>9, <1>10 DEF Next, Main, Terminated

\* What a posting or benchmark step has to show for what the service has done
Accounted(used) ==
    IF used THEN answer \in 1 .. served /\ spoiled = (1 .. served) \ {answer}
            ELSE spoiled = 1 .. served

\* The rest of the invariant is kept.
LEMMA StepIInv == IInv /\ [Next]_vars => IInv'
<1> SUFFICES ASSUME IInv, [Next]_vars PROVE IInv'
  OBVIOUS
<1>0. TypeOK /\ TypeOK'
  BY StepTypeOK DEF IInv
<1> SUFFICES ThreadsOnlyThere' /\ AnswerCounted' /\ RepeatedOnlyAfterLoss' /\ RunIsAnswer'
  BY <1>0 DEF IInv
<1> USE DEF IInv, ThreadsOnlyThere, AnswerCounted, RepeatedOnlyAfterLoss, RunIsAnswer,
        Goto, step, threads, attempt, service, Retrying
<1>1. CASE Tick
  BY <1>0, <1>1 DEF Tick, TypeOK
<1>2. CASE Send
  <2>1. PICK outcome \in Outcomes, now \in 0 .. 1, later \in 0 .. 1, content \in {"yes", "no"} :
          /\ Serve(outcome, now, later)
          /\ last' = outcome
          /\ answer' = IF outcome = "2xx" THEN served' ELSE answer
          /\ pc' = IF kind \in Retrying /\ Again(outcome) THEN "sending" ELSE "judging"
    BY <1>2 DEF Send
  <2>2. /\ served' \in Nat
        /\ outcome # "2xx" /\ spoiled = 1 .. served => spoiled' = 1 .. served'
        /\ outcome = "2xx" => served' = served + 1 /\ spoiled' = spoiled
    BY <1>0, <2>1, Served
  <2>3. outcome = "2xx" => pc' = "judging"
    BY <2>1 DEF Again
  <2>4. pc = "sending" /\ kind' = kind /\ running' = running /\ runID' = runID
    BY <1>2 DEF Send
  <2>5. pc' \in {"sending", "judging"} /\ last' = outcome
    BY <2>1
  <2>6. ThreadsOnlyThere' /\ RunIsAnswer'
    BY <2>4, <2>5
  <2>7. kind \in {"successful", "benchmark"} => spoiled = 1 .. served
    BY <2>4
  <2>8. CASE outcome = "2xx"
    <3>1. answer' = served + 1 /\ served' = served + 1 /\ spoiled' = spoiled
      BY <2>1, <2>2, <2>8
    <3>2. 1 .. served' = (1 .. served) \cup {answer'} /\ answer' \notin 1 .. served
      BY <1>0, <3>1, Numbers, OneMore
    <3> QED
      BY <2>3, <2>4, <2>5, <2>6, <2>7, <2>8, <3>1, <3>2
  <2>9. CASE outcome # "2xx"
    BY <2>2, <2>4, <2>5, <2>6, <2>7, <2>9
  <2> QED
    BY <2>8, <2>9
<1>3. CASE Judge
  BY <1>0, <1>3 DEF Judge, Holds, TypeOK
<1>4. CASE JudgeUnreadable
  <2>1. /\ pc = "judging" /\ pc' = "waiting" /\ kind # "threads"
        /\ spoiled' = IF last = "2xx" THEN spoiled \cup {answer} ELSE spoiled
        /\ UNCHANGED <<kind, last, served, answer, running, runID>>
    BY <1>4 DEF JudgeUnreadable, Single
  <2> QED
    BY <1>0, <2>1
<1>5. CASE StartThreads
  BY <1>5 DEF StartThreads
<1>6. CASE Join
  BY <1>6 DEF Join
<1>7. CASE Timeout
  BY <1>7 DEF Timeout
<1>8. ASSUME NEW t \in Threads, Thread(t)
      PROVE  ThreadsOnlyThere' /\ AnswerCounted' /\ RepeatedOnlyAfterLoss' /\ RunIsAnswer'
  <2>1. kind = "threads"
    BY <1>8 DEF Thread, ThreadSend, ThreadSucceeds, ThreadDone
  <2>2. UNCHANGED <<kind, pc>>
    BY <1>8 DEF Thread, ThreadSend, ThreadSucceeds, ThreadDone
  <2> QED
    BY <2>1, <2>2
<1>9. CASE ServeLate
  <2>1. /\ served' = served + 1 /\ spoiled' = spoiled \cup {served + 1}
        /\ UNCHANGED <<kind, pc, last, answer, runID, running>>
    BY <1>9 DEF ServeLate
  <2>2. 1 .. served' = (1 .. served) \cup {served + 1} /\ served + 1 \notin 1 .. served
    BY <1>0, <2>1, Numbers, OneMore
  <2>3. AnswerCounted' /\ ThreadsOnlyThere' /\ RunIsAnswer'
    BY <2>1, <2>2
  <2>4. \A used \in BOOLEAN : Accounted(used) => Accounted(used)'
    BY <2>1, <2>2 DEF Accounted
  <2>5. RepeatedOnlyAfterLoss'
    BY <2>1, <2>4 DEF Accounted
  <2> QED
    BY <2>3, <2>5
<1>10. CASE UNCHANGED vars
  BY <1>10 DEF vars
<1> QED
  BY <1>1, <1>2, <1>3, <1>4, <1>5, <1>6, <1>7, <1>8, <1>9, <1>10 DEF Next, Main, Terminated

LEMMA AlwaysIInv == Spec => []IInv
  BY InitIInv, StepIInv, PTL DEF Spec

\* Every variable keeps its type, the results of the threads included.
THEOREM TypeCorrect == Spec => []TypeOK
<1>1. IInv => TypeOK
  BY DEF IInv
<1> QED
  BY <1>1, AlwaysIInv, PTL

\* With any retry number, what a posting or benchmark step makes the service do
\* more than once it does for a request whose answer was lost.
THEOREM NoNeedlessRepetition == Spec => []RepeatedOnlyAfterLoss
<1>1. IInv => RepeatedOnlyAfterLoss
  BY DEF IInv
<1> QED
  BY <1>1, AlwaysIInv, PTL

\* The run that later steps ask for is the only one whose start was answered, however
\* many the service starts again or late.
THEOREM AnsweredRun == Spec => []StoredRunIsAnswered
<1>1. IInv => StoredRunIsAnswered
  BY DEF IInv, RepeatedOnlyAfterLoss, RunIsAnswer, StoredRunIsAnswered
<1> QED
  BY <1>1, AlwaysIInv, PTL

\* A thread that has ended has put its outcome into the results.
Reported == pc = "joining" => \A t \in Threads \ running : result[t] # "none"

\* The WaitGroup lets the step go on when all threads have reported, any number of
\* them and in any order.
THEOREM AllReported == Spec => []ThreadsReported
<1>1. Init => Reported
  BY DEF Init, Reported
<1>2. IInv /\ Reported /\ [Next]_vars => Reported'
  <2> SUFFICES ASSUME IInv, Reported, [Next]_vars PROVE Reported'
    OBVIOUS
  <2> USE DEF Reported, IInv, TypeOK, Goto, threads
  <2>0. CASE ServeLate
    BY <2>0 DEF ServeLate
  <2>1. ASSUME NEW t \in Threads, ThreadSend(t) PROVE Reported'
    BY <2>1 DEF ThreadSend
  <2>2. ASSUME NEW t \in Threads, ThreadSucceeds(t) PROVE Reported'
    BY <2>2 DEF ThreadSucceeds
  <2>3. ASSUME NEW t \in Threads, ThreadDone(t) PROVE Reported'
    BY <2>3 DEF ThreadDone
  <2>4. CASE StartThreads
    BY <2>4 DEF StartThreads
  <2>5. CASE Tick \/ Send \/ Judge \/ JudgeUnreadable \/ Join \/ Timeout
    BY <2>5 DEF Tick, Send, Judge, JudgeUnreadable, Join, Timeout
  <2>6. CASE UNCHANGED vars
    BY <2>6 DEF vars
  <2> QED
    BY <2>0, <2>1, <2>2, <2>3, <2>4, <2>5, <2>6 DEF Next, Main, Thread, Terminated
<1>3. Reported => ThreadsReported
  BY DEF Reported, ThreadsReported
<1> QED
  BY <1>1, <1>2, <1>3, AlwaysIInv, PTL DEF Spec

(***************************************************************************)
(* The requests of all threads together.  The requests still to be sent    *)
(* are counted by the cardinality of a set, which a thread makes smaller   *)
(* by one element with each request.                                       *)
(***************************************************************************)

\* The share of one thread
Share == requestCount \div NumThreads

\* The requests that are left to the threads
Pending == {p \in Threads \X (1 .. Share) : p[2] <= todo[p[1]]}

\* Before the threads start nothing has been sent, and they run only while the
\* step waits for them.
Quiet ==
    /\ running # {} => pc = "joining"
    /\ kind = "threads" /\ pc = "waiting" =>
         served = 0 /\ late = 0 /\ \A t \in Threads : result[t] = "none"

\* Nothing is left to a thread that succeeded, and a request that was given up has made
\* its thread fail.
Reports ==
    kind = "threads" /\ pc \in {"joining", "succeeded"} =>
        /\ \A t \in Threads : todo[t] <= Share /\ (result[t] = "success" => todo[t] = 0)
        /\ late # 0 => \E t \in Threads : result[t] = "error"
        /\ pc = "succeeded" => \A t \in Threads : result[t] = "success"

\* As long as no thread has failed, every request is either served and answered, or
\* pending.
Balance ==
    kind = "threads" /\ pc \in {"joining", "succeeded"} =>
        \/ \E t \in Threads : result[t] = "error"
        \/ served + Cardinality(Pending) = requestCount

\* The inductive invariant of the steps with threads
ThreadsInv == Quiet /\ Reports /\ Balance

\* Threads are counted by a positive natural number.
LEMMA ThreadsCounted == NumThreads \in Nat /\ NumThreads > 0
<1>1. NumThreads \in Nat /\ NumThreads # 0
  BY ConstAssumption, FS_CardinalityType, FS_EmptySet DEF NumThreads
<1> QED
  BY <1>1

LEMMA ShareType == ASSUME TypeOK PROVE Share \in Nat
<1>1. requestCount \in Nat
  BY ConstAssumption DEF TypeOK
<1> QED
  BY <1>1, ThreadsCounted DEF Share

\* When the division leaves nothing over, the shares make up all requests.
LEMMA SharesAddUp ==
    ASSUME TypeOK, requestCount % NumThreads = 0
    PROVE  Cardinality(Threads \X (1 .. Share)) = requestCount
<1>1. requestCount \in Nat
  BY ConstAssumption DEF TypeOK
<1>2. requestCount = NumThreads * Share
  BY <1>1, ThreadsCounted DEF Share
<1>3. IsFiniteSet(1 .. Share) /\ Cardinality(1 .. Share) = Share
  BY ShareType, FS_Interval
<1>4. Cardinality(Threads \X (1 .. Share)) = NumThreads * Share
  BY <1>3, ConstAssumption, FS_Product DEF NumThreads
<1> QED
  BY <1>2, <1>4

LEMMA PendingFinite == ASSUME TypeOK PROVE IsFiniteSet(Pending)
<1>1. IsFiniteSet(1 .. Share)
  BY ShareType, FS_Interval
<1>2. IsFiniteSet(Threads \X (1 .. Share))
  BY <1>1, ConstAssumption, FS_Product
<1> QED
  BY <1>2, FS_Subset DEF Pending

\* A request of one thread takes exactly one element away.
LEMMA OneLess ==
    ASSUME TypeOK, NEW t \in Threads, todo[t] > 0, todo[t] <= Share,
           todo' = [todo EXCEPT ![t] = @ - 1], requestCount' = requestCount
    PROVE  /\ Cardinality(Pending') \in Nat
           /\ Cardinality(Pending') + 1 = Cardinality(Pending)
<1>1. Share' = Share
  BY DEF Share
<1>2. /\ todo[t] \in 1 .. Share
      /\ \A u \in Threads : todo[u] \in Nat
      /\ todo'[t] = todo[t] - 1
      /\ \A u \in Threads \ {t} : todo'[u] = todo[u]
  BY ShareType DEF TypeOK
<1>3. \A p \in Threads \X (1 .. Share) :
        p[2] <= todo'[p[1]] <=> p[2] <= todo[p[1]] /\ p # <<t, todo[t]>>
  <2> TAKE p \in Threads \X (1 .. Share)
  <2>1. PICK u \in Threads, i \in 1 .. Share : p = <<u, i>>
    OBVIOUS
  <2>2. i \in Nat
    BY ShareType
  <2>3. CASE u = t
    BY <1>2, <2>1, <2>2, <2>3
  <2>4. CASE u # t
    BY <1>2, <2>1, <2>2, <2>4
  <2> QED
    BY <2>3, <2>4
<1>4. Pending' = Pending \ {<<t, todo[t]>>}
  BY <1>1, <1>3 DEF Pending
<1>5. <<t, todo[t]>> \in Pending
  BY <1>2 DEF Pending
<1>6. IsFiniteSet(Pending') /\ Cardinality(Pending') = Cardinality(Pending) - 1
  BY <1>4, <1>5, PendingFinite, FS_RemoveElement
<1> QED
  BY <1>6, PendingFinite, FS_CardinalityType

LEMMA InitThreadsInv == Init => ThreadsInv
  BY DEF Init, ThreadsInv, Quiet, Reports, Balance

\* The threads start with all requests pending.
LEMMA StartKeepsInv == IInv /\ ThreadsInv /\ StartThreads => ThreadsInv'
<1> SUFFICES ASSUME IInv, ThreadsInv, StartThreads PROVE ThreadsInv'
  OBVIOUS
<1>1. /\ kind = "threads" /\ kind' = kind /\ requestCount' = requestCount
      /\ served = 0 /\ late = 0 /\ served' = served /\ late' = late
      /\ \A t \in Threads : result[t] = "none"
      /\ result' = result
  BY DEF StartThreads, Goto, ThreadsInv, Quiet, step, service
<1>2. CASE requestCount % NumThreads # 0
  <2>1. pc' = "failed" /\ pc = "waiting" /\ running' = running
    BY <1>2 DEF StartThreads, Goto
  <2> QED
    BY <2>1 DEF ThreadsInv, Quiet, Reports, Balance
<1>3. CASE requestCount % NumThreads = 0
  <2>1. pc' = "joining" /\ todo' = [t \in Threads |-> Share]
    BY <1>3 DEF StartThreads, Goto, Share
  <2>2. TypeOK /\ Share \in Nat /\ Share' = Share
    BY <1>1, ShareType DEF IInv, Share
  <2>3. \A t \in Threads : todo'[t] = Share
    BY <2>1
  <2>4. Pending' = Threads \X (1 .. Share)
    <3>1. \A p \in Threads \X (1 .. Share) : p[2] <= todo'[p[1]]
      BY <2>2, <2>3
    <3> QED
      BY <2>2, <3>1 DEF Pending
  <2>5. Cardinality(Pending') = requestCount /\ requestCount \in Nat
    BY <1>3, <2>2, <2>4, SharesAddUp, ConstAssumption DEF TypeOK
  <2>6. Quiet'
    BY <2>1 DEF Quiet
  <2>7. Reports'
    BY <1>1, <2>1, <2>2, <2>3 DEF Reports
  <2>8. Balance'
    BY <1>1, <2>5 DEF Balance
  <2> QED
    BY <2>6, <2>7, <2>8 DEF ThreadsInv
<1> QED
  BY <1>2, <1>3

\* A thread moves one request from pending to served, or fails.
LEMMA SendKeepsInv ==
    ASSUME IInv, IInv', ThreadsInv, NEW t \in Threads, ThreadSend(t)
    PROVE  ThreadsInv'
<1>0. TypeOK /\ TypeOK'
  BY DEF IInv
<1>1. /\ t \in running /\ result[t] = "none" /\ todo[t] > 0
      /\ kind' = kind /\ requestCount' = requestCount /\ pc' = pc /\ running' = running
  BY DEF ThreadSend, step
<1>2. kind = "threads" /\ pc = "joining"
  BY <1>1 DEF ThreadsInv, Quiet, IInv, ThreadsOnlyThere
<1>3. PICK outcome \in Outcomes, now \in 0 .. 1, later \in 0 .. 1 :
        /\ Serve(outcome, now, later)
        /\ IF outcome = "2xx"
           THEN todo' = [todo EXCEPT ![t] = @ - 1] /\ UNCHANGED result
           ELSE result' = [result EXCEPT ![t] = "error"] /\ UNCHANGED todo
  BY DEF ThreadSend
<1>4. outcome = "2xx" => served' = served + 1 /\ late' = late
  BY <1>0, <1>3, Served
<1>5. /\ served \in Nat /\ requestCount \in Nat /\ Cardinality(Pending) \in Nat
      /\ Share' = Share /\ Share \in Nat
      /\ result \in [Threads -> {"none", "success", "error"}]
      /\ \A u \in Threads : todo[u] \in Nat
  BY <1>0, <1>1, ConstAssumption, PendingFinite, FS_CardinalityType, ShareType DEF TypeOK, Share
<1>6. /\ \A u \in Threads : todo[u] <= Share /\ (result[u] = "success" => todo[u] = 0)
      /\ late # 0 => \E u \in Threads : result[u] = "error"
      /\ \/ \E u \in Threads : result[u] = "error"
         \/ served + Cardinality(Pending) = requestCount
  BY <1>2 DEF ThreadsInv, Reports, Balance
<1>7. Quiet'
  BY <1>1, <1>2 DEF Quiet
<1>8. CASE outcome = "2xx"
  <2>1. todo' = [todo EXCEPT ![t] = @ - 1] /\ result' = result
    BY <1>3, <1>8
  <2>2. Cardinality(Pending') + 1 = Cardinality(Pending) /\ Cardinality(Pending') \in Nat
    BY <1>0, <1>1, <1>6, <2>1, OneLess
  <2>3. Balance'
    <3>1. served + Cardinality(Pending) = requestCount
          => served' + Cardinality(Pending') = requestCount
      BY <1>4, <1>5, <1>8, <2>2
    <3> QED
      BY <1>1, <1>6, <2>1, <3>1 DEF Balance
  <2>4. Reports'
    BY <1>0, <1>1, <1>2, <1>4, <1>5, <1>6, <1>8, <2>1 DEF Reports, TypeOK
  <2> QED
    BY <1>7, <2>3, <2>4 DEF ThreadsInv
<1>9. CASE outcome # "2xx"
  <2>1. result' = [result EXCEPT ![t] = "error"] /\ todo' = todo
    BY <1>3, <1>9
  <2>2. result'[t] = "error" /\ \A u \in Threads \ {t} : result'[u] = result[u]
    BY <1>5, <2>1
  <2>3. Balance'
    BY <2>2 DEF Balance
  <2>4. Reports'
    BY <1>1, <1>2, <1>5, <1>6, <2>1, <2>2 DEF Reports
  <2> QED
    BY <1>7, <2>3, <2>4 DEF ThreadsInv
<1> QED
  BY <1>8, <1>9

\* Nothing else changes what has been sent.
LEMMA StepThreadsInv == IInv /\ IInv' /\ ThreadsInv /\ [Next]_vars => ThreadsInv'
<1> SUFFICES ASSUME IInv, IInv', ThreadsInv, [Next]_vars PROVE ThreadsInv'
  OBVIOUS
<1>1. CASE StartThreads
  BY <1>1, StartKeepsInv
<1>2. ASSUME NEW t \in Threads, Thread(t) PROVE ThreadsInv'
  <2>1. CASE ThreadSend(t)
    BY <2>1, SendKeepsInv
  <2>2. CASE ThreadSucceeds(t)
    <3>1. /\ t \in running /\ result[t] = "none" /\ todo[t] = 0
          /\ result' = [result EXCEPT ![t] = "success"]
          /\ UNCHANGED <<kind, requestCount, pc, served, late, todo, running>>
      BY <2>2 DEF ThreadSucceeds, step, service
    <3>2. pc = "joining" /\ kind = "threads"
      BY <3>1 DEF ThreadsInv, Quiet, IInv, ThreadsOnlyThere
    <3>3. Share' = Share /\ Pending' = Pending
      BY <3>1 DEF Share, Pending
    <3>4. result \in [Threads -> {"none", "success", "error"}]
      BY DEF IInv, TypeOK
    <3>5. Quiet' /\ Balance'
      BY <3>1, <3>2, <3>3 DEF ThreadsInv, Quiet, Balance
    <3>6. Reports'
      BY <3>1, <3>2, <3>3, <3>4 DEF ThreadsInv, Reports
    <3> QED
      BY <3>5, <3>6 DEF ThreadsInv
  <2>3. CASE ThreadDone(t)
    <3>1. /\ t \in running /\ running' \subseteq running
          /\ UNCHANGED <<kind, requestCount, pc, served, late, todo, result>>
      BY <2>3 DEF ThreadDone, step, service
    <3>2. Share' = Share /\ Pending' = Pending
      BY <3>1 DEF Share, Pending
    <3> QED
      BY <3>1, <3>2 DEF ThreadsInv, Quiet, Reports, Balance
  <2> QED
    BY <1>2, <2>1, <2>2, <2>3 DEF Thread
<1>3. CASE Join
  <2>1. /\ pc = "joining" /\ running = {} /\ running' = running
        /\ pc' = IF \A t \in Threads : result[t] = "success" THEN "succeeded" ELSE "failed"
        /\ UNCHANGED <<kind, requestCount, served, late, todo, result>>
    BY <1>3 DEF Join, Goto, step, threads, service
  <2>2. Share' = Share /\ Pending' = Pending
    BY <2>1 DEF Share, Pending
  <2> QED
    BY <2>1, <2>2 DEF ThreadsInv, Quiet, Reports, Balance
<1>4. CASE Tick \/ Send \/ Judge \/ JudgeUnreadable \/ Timeout
  <2>1. kind # "threads" /\ kind' = kind /\ running' = running
    BY <1>4 DEF Tick, Send, Judge, JudgeUnreadable, Timeout, Goto, step, threads,
              IInv, ThreadsOnlyThere
  <2>2. running = {}
    BY <2>1 DEF IInv, ThreadsOnlyThere
  <2> QED
    BY <2>1, <2>2 DEF ThreadsInv, Quiet, Reports, Balance
<1>5. CASE ServeLate
  <2>1. /\ late > 0 /\ UNCHANGED <<kind, requestCount, pc, todo, result, running>>
        /\ Share' = Share /\ Pending' = Pending
    BY <1>5 DEF ServeLate, step, threads, Share, Pending
  <2>2. late # 0
    BY <2>1
  <2> QED
    BY <2>1, <2>2 DEF ThreadsInv, Quiet, Reports, Balance
<1>6. CASE UNCHANGED vars
  <2>1. /\ UNCHANGED <<kind, requestCount, pc, served, late, todo, result, running>>
        /\ Share' = Share /\ Pending' = Pending
    BY <1>6 DEF vars, step, threads, service, Share, Pending
  <2> QED
    BY <2>1 DEF ThreadsInv, Quiet, Reports, Balance
<1> QED
  BY <1>1, <1>2, <1>3, <1>4, <1>5, <1>6 DEF Next, Main, Terminated

\* A step with threads succeeds only when the service has served every request
\* asked for, and all answers have arrived: for any threads, any number of
\* requests and any order in which the threads run.
THEOREM AllServed == Spec => []ThreadsServedAll
<1>1. IInv /\ ThreadsInv => ThreadsServedAll
  <2> SUFFICES ASSUME IInv, ThreadsInv, kind = "threads", pc = "succeeded"
               PROVE  served = requestCount
    BY DEF ThreadsServedAll
  <2>1. \A t \in Threads : result[t] = "success" /\ todo[t] = 0
    BY DEF ThreadsInv, Reports
  <2>2. ~\E t \in Threads : result[t] = "error"
    BY <2>1
  <2>3. Cardinality(Pending) = 0
    <3>1. \A p \in Threads \X (1 .. Share) : ~(p[2] <= todo[p[1]])
      BY <2>1, ShareType DEF IInv
    <3>2. Pending = {}
      BY <3>1 DEF Pending
    <3> QED
      BY <3>2, FS_EmptySet
  <2>4. served \in Nat /\ requestCount \in Nat
    BY ConstAssumption DEF IInv, TypeOK
  <2>5. served + Cardinality(Pending) = requestCount
    BY <2>2 DEF ThreadsInv, Balance
  <2> QED
    BY <2>3, <2>4, <2>5
<1>2. Spec => []ThreadsInv
  BY InitThreadsInv, StepThreadsInv, AlwaysIInv, PTL DEF Spec
<1> QED
  BY <1>1, <1>2, AlwaysIInv, PTL

(***************************************************************************)
(* The attempts of one evaluation of a polled condition.                   *)
(***************************************************************************)

\* How many requests one evaluation may send
Limit == IF kind \in Retrying THEN retryNumber ELSE 1

\* ExecuteHTTPRequest sends at most as many requests as are configured, and the
\* other conditions one.
AttemptsWithinRetries == pc \in {"sending", "judging"} => sent <= Limit

\* A response that does not exist is looked at only when the configuration asks for
\* no request at all.
PanicOnlyWithoutRetries == pc = "panicked" => kind \in Retrying /\ retryNumber = 0

\* Where the loop stands: there is an attempt left while it goes on, and an outcome
\* as soon as one was made.
Attempting ==
    /\ pc = "sending" => sent < Limit
    /\ pc = "judging" => sent <= Limit
    /\ pc = "judging" /\ last = "none" => kind \in Retrying /\ retryNumber = 0
    /\ PanicOnlyWithoutRetries

LEMMA StepAttempting == TypeOK /\ Attempting /\ [Next]_vars => Attempting'
<1> SUFFICES ASSUME TypeOK, Attempting, [Next]_vars PROVE Attempting'
  OBVIOUS
<1> USE DEF Goto, step, threads, attempt, Attempting, PanicOnlyWithoutRetries
<1>0. retryNumber \in Nat /\ sent \in Nat /\ Limit \in Nat
  BY ConstAssumption DEF TypeOK, Limit
<1>1. CASE Tick
  BY <1>0, <1>1 DEF Tick, Limit
<1>2. CASE Send
  <2>1. PICK outcome \in Outcomes, content \in {"yes", "no"} :
          /\ last' = outcome
          /\ pc' = IF kind \in Retrying /\ Again(outcome) THEN "sending" ELSE "judging"
    BY <1>2 DEF Send
  <2>2. /\ pc = "sending" /\ sent' = sent + 1 /\ Limit' = Limit
        /\ last' # "none"
    BY <1>2, <2>1 DEF Send, Limit, Outcomes
  <2>3. sent' <= Limit
    BY <1>0, <2>2
  <2>4. pc' = "sending" => sent' < Limit
    BY <2>1, <2>2 DEF Again, Limit
  <2> QED
    BY <2>1, <2>2, <2>3, <2>4
<1>3. CASE Judge
  BY <1>3 DEF Judge
<1>4. CASE JudgeUnreadable \/ StartThreads \/ Join \/ Timeout \/ ServeLate
  BY <1>4 DEF JudgeUnreadable, StartThreads, Join, Timeout, ServeLate, Limit
<1>5. ASSUME NEW t \in Threads, Thread(t) PROVE Attempting'
  <2>1. UNCHANGED <<step, pc, sent, last>>
    BY <1>5 DEF Thread, ThreadSend, ThreadSucceeds, ThreadDone
  <2> QED
    BY <2>1 DEF Limit
<1>6. CASE UNCHANGED vars
  BY <1>6 DEF vars, Limit
<1> QED
  BY <1>1, <1>2, <1>3, <1>4, <1>5, <1>6 DEF Next, Main, Terminated

LEMMA AlwaysAttempting == Spec => []Attempting
<1>1. Init => Attempting
  BY DEF Init, Attempting, PanicOnlyWithoutRetries
<1> QED
  BY <1>1, StepAttempting, TypeCorrect, PTL DEF Spec

\* One evaluation of a condition never sends more requests than http_retry_nb, for
\* any value of it and any outcomes.
THEOREM RetriesBounded == Spec => []AttemptsWithinRetries
<1>1. TypeOK /\ Attempting => AttemptsWithinRetries
  BY ConstAssumption DEF TypeOK, Attempting, AttemptsWithinRetries, Limit
<1> QED
  BY <1>1, AlwaysAttempting, TypeCorrect, PTL

\* A step dereferences a response it does not have only if http_retry_nb is zero.
THEOREM NilOnlyWithoutRetries == Spec => []PanicOnlyWithoutRetries
<1>1. Attempting => PanicOnlyWithoutRetries
  BY DEF Attempting
<1> QED
  BY <1>1, AlwaysAttempting, PTL
=============================================================================
