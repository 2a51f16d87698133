---------------------------- MODULE HttpRequests ----------------------------
(***************************************************************************)
(* The HTTP steps of bddframework/pkg/steps (http.go, hyperfoil.go) on     *)
(* pkg/framework/http.go.  One step polls its condition with WaitFor; the  *)
(* condition sends one request (ExecuteHTTPRequestC) or several            *)
(* (ExecuteHTTPRequest, with retries), and judges the last answer.  The    *)
(* step of kind "threads" sends its requests from several goroutines.      *)
(*                                                                         *)
(* A request may be served although its answer is lost, and long after the *)
(* client has given it up; a service may answer with any status, whether   *)
(* it has done what was asked or not, and its content changes as it likes. *)
(***************************************************************************)
EXTENDS Integers, FiniteSets

CONSTANTS Threads,         \* goroutines of a "threads" step
          RequestCounts,   \* numbers of requests such a step may ask for
          RetryNumbers,    \* values of the flag http_retry_nb
          MaxServed        \* bound on the requests that reach the service

ASSUME ConstAssumption ==
    /\ IsFiniteSet(Threads) /\ Threads # {}
    /\ RequestCounts \subseteq Nat
    /\ RetryNumbers \subseteq Nat
    /\ MaxServed \in Nat

Single   == {"successful", "forbidden", "failed"}
Retrying == {"contains", "absent", "benchmark"}
Kinds    == Single \cup Retrying \cup {"threads"}

\* What comes of a request: an error, or a status.
Outcomes == {"error", "2xx", "401", "404", "500"}

VARIABLES
    kind, retryNumber, requestCount,    \* the step and the configuration
    pc,         \* where the step is
    sent,       \* attempts since the last tick
    last,       \* outcome of the last one, "none" before any
    has,        \* its body contains the string the step looks for
    answer,     \* the request that the last successful answer was to, 0 before any
    served,     \* requests the service has processed, numbered as they are
    late,       \* requests given up by the client that the service has still to process
    spoiled,    \* the processed ones whose answer did not reach the step (history)
    runID,      \* benchmark run in the scenario context, 0 before any
    todo,       \* [Threads -> requests left]
    result,     \* [Threads -> its entry of results]
    running     \* threads the WaitGroup waits for

step    == <<kind, retryNumber, requestCount>>
attempt == <<sent, last, has, answer>>
service == <<served, late, spoiled>>
threads == <<todo, result, running>>
vars    == <<step, pc, attempt, service, runID, threads>>

TypeOK ==
    /\ kind \in Kinds
    /\ retryNumber \in RetryNumbers
    /\ requestCount \in RequestCounts
    /\ pc \in {"waiting", "sending", "judging", "joining",
               "succeeded", "failed", "timedout", "panicked"}
    /\ sent \in Nat
    /\ last \in Outcomes \cup {"none"}
    /\ has \in {"yes", "no"}
    /\ served \in Nat /\ late \in Nat /\ served + late <= MaxServed
    /\ spoiled \subseteq 1 .. served
    /\ answer \in 0 .. served
    /\ runID \in 0 .. served
    /\ todo \in [Threads -> Nat]
    /\ result \in [Threads -> {"none", "success", "error"}]
    /\ running \in SUBSET Threads

Init ==
    /\ kind \in Kinds
    /\ retryNumber \in RetryNumbers
    /\ requestCount \in RequestCounts
    /\ pc = "waiting"
    /\ sent = 0 /\ last = "none" /\ has = "no"
    /\ served = 0 /\ late = 0 /\ spoiled = {} /\ answer = 0 /\ runID = 0
    /\ todo = [t \in Threads |-> 0]
    /\ result = [t \in Threads |-> "none"]
    /\ running = {}

Goto(from, to) == pc = from /\ pc' = to

(***************************************************************************)
(* The service (external).                                                 *)
(***************************************************************************)

\* The service processes a request now, later or not at all.  The client gives up
\* what it has no answer to in time.
Serve(outcome, now, later) ==
    /\ outcome = "2xx" => now = 1
    /\ outcome # "error" => later = 0
    /\ now + later <= 1
    /\ served' = served + now
    /\ late' = late + later
    /\ served' + late' <= MaxServed
    /\ spoiled' = IF now = 0 \/ outcome = "2xx" THEN spoiled ELSE spoiled \cup {served'}

\* It comes to a request that the client has given up, whatever the step does by then.
ServeLate ==
    /\ late > 0
    /\ late' = late - 1
    /\ served' = served + 1
    /\ spoiled' = spoiled \cup {served'}
    /\ UNCHANGED <<step, pc, attempt, runID, threads>>

(***************************************************************************)
(* The polled steps.                                                       *)
(***************************************************************************)

\* WaitFor's ticker: the condition is evaluated.  With a retry number of zero
\* the loop of ExecuteHTTPRequest is not entered.
Tick ==
    /\ kind # "threads"
    /\ Goto("waiting", IF kind \in Retrying /\ retryNumber = 0 THEN "judging" ELSE "sending")
    /\ sent' = 0 /\ last' = "none" /\ has' = "no"
    /\ UNCHANGED <<step, answer, service, runID, threads>>

\* Seeded fault: the timer starts again with every tick.
Timeout_Restarted ==
    /\ kind # "threads" /\ sent = 0 /\ last = "none"
    /\ Goto("waiting", "timedout")
    /\ UNCHANGED <<step, attempt, service, runID, threads>>

\* WaitFor's timer
Timeout ==
    /\ kind # "threads"
    /\ Goto("waiting", "timedout")
    /\ UNCHANGED <<step, attempt, service, runID, threads>>

\* Seeded fault: every answer is followed by another attempt.
Again_Always(outcome) == sent + 1 < retryNumber

\* The loop of ExecuteHTTPRequest goes on after this outcome.
Again(outcome) == outcome \notin {"2xx", "500"} /\ sent + 1 < retryNumber

\* One attempt.
Send ==
    /\ pc = "sending"
    /\ \E outcome \in Outcomes, now, later \in 0 .. 1, content \in {"yes", "no"} :
         /\ Serve(outcome, now, later)
         /\ last' = outcome
         /\ answer' = IF outcome = "2xx" THEN served' ELSE answer
         /\ has' = IF outcome = "2xx" THEN content ELSE "no"
         /\ pc' = IF kind \in Retrying /\ Again(outcome) THEN "sending" ELSE "judging"
    /\ sent' = sent + 1
    /\ UNCHANGED <<step, runID, threads>>

\* The condition on the answer.  A response that is not successful has the empty
\* body, which contains no string and is no benchmark run.
Holds ==
    /\ last # "error"
    /\ CASE kind \in {"successful", "benchmark"} -> last = "2xx"
         [] kind = "forbidden" -> last = "401"
         [] kind = "failed"    -> last \in {"404", "500"}
         [] kind = "contains"  -> has = "yes"
         [] kind = "absent"    -> has = "no"

\* Seeded fault: the error is ignored, and the run of an earlier answer used.
Judge_ErrorIgnored ==
    /\ pc = "judging"
    /\ LET good == Holds \/ (kind = "benchmark" /\ last = "error") IN
         /\ pc' = IF last = "none" THEN "panicked" ELSE IF good THEN "succeeded" ELSE "waiting"
         /\ runID' = IF kind = "benchmark" /\ good THEN answer ELSE runID
    /\ UNCHANGED <<step, attempt, service, threads>>

\* The condition uses the last answer, which carries the run that it has started;
\* after an error WaitFor only logs it.  No response at all is dereferenced.
Judge ==
    /\ pc = "judging"
    /\ pc' = IF last = "none" THEN "panicked"
             ELSE IF Holds THEN "succeeded" ELSE "waiting"
    /\ runID' = IF kind = "benchmark" /\ Holds THEN answer ELSE runID
    /\ UNCHANGED <<step, attempt, service, threads>>

\* The body cannot be read, or not be parsed.  ExecuteHTTPRequest's callers read
\* the body of a successful response only.
JudgeUnreadable ==
    /\ IF kind \in Single THEN last \notin {"none", "error"} ELSE last = "2xx"
    /\ Goto("judging", "waiting")
    /\ spoiled' = IF last = "2xx" THEN spoiled \cup {answer} ELSE spoiled
    /\ UNCHANGED <<step, attempt, served, late, runID, threads>>

(***************************************************************************)
(* Requests in threads.                                                    *)
(***************************************************************************)

NumThreads == Cardinality(Threads)

\* Seeded fault: the remainder of the division is dropped.
StartThreads_Remainder ==
    /\ kind = "threads"
    /\ Goto("waiting", "joining")
    /\ todo' = [t \in Threads |-> requestCount \div NumThreads]
    /\ running' = Threads
    /\ UNCHANGED <<step, attempt, service, runID, result>>

\* ExecuteHTTPRequestsInThreads up to the WaitGroup
StartThreads ==
    /\ kind = "threads"
    /\ IF requestCount % NumThreads # 0
       THEN Goto("waiting", "failed") /\ UNCHANGED <<todo, running>>
       ELSE /\ Goto("waiting", "joining")
            /\ todo' = [t \in Threads |-> requestCount \div NumThreads]
            /\ running' = Threads
    /\ UNCHANGED <<step, attempt, service, runID, result>>

\* Seeded fault: one request too many.
ThreadSend_OffByOne(t) ==
    /\ t \in running /\ result[t] = "none" /\ todo[t] >= 0
    /\ \E outcome \in Outcomes, now, later \in 0 .. 1 :
         /\ Serve(outcome, now, later)
         /\ IF outcome = "2xx"
            THEN todo' = [todo EXCEPT ![t] = @ - 1] /\ UNCHANGED result
            ELSE result' = [result EXCEPT ![t] = "error"] /\ UNCHANGED todo
    /\ UNCHANGED <<step, pc, attempt, runID, running>>

\* runRequestRoutine: one request; the first that fails ends the thread.
ThreadSend(t) ==
    /\ t \in running /\ result[t] = "none" /\ todo[t] > 0
    /\ \E outcome \in Outcomes, now, later \in 0 .. 1 :
         /\ Serve(outcome, now, later)
         /\ IF outcome = "2xx"
            THEN todo' = [todo EXCEPT ![t] = @ - 1] /\ UNCHANGED result
            ELSE result' = [result EXCEPT ![t] = "error"] /\ UNCHANGED todo
    /\ UNCHANGED <<step, pc, attempt, runID, running>>

\* All requests of the thread were successful.
ThreadSucceeds(t) ==
    /\ t \in running /\ result[t] = "none" /\ todo[t] = 0
    /\ result' = [result EXCEPT ![t] = "success"]
    /\ UNCHANGED <<step, pc, attempt, service, runID, todo, running>>

\* Seeded fault: Done is called at the start, not deferred.
ThreadDone_Early(t) ==
    /\ t \in running
    /\ running' = running \ {t}
    /\ UNCHANGED <<step, pc, attempt, service, runID, todo, result>>

\* The deferred waitGroup.Done
ThreadDone(t) ==
    /\ t \in running /\ result[t] # "none"
    /\ running' = running \ {t}
    /\ UNCHANGED <<step, pc, attempt, service, runID, todo, result>>

\* waitGroup.Wait returns; the step looks at every result.
Join ==
    /\ running = {}
    /\ Goto("joining", IF \A t \in Threads : result[t] = "success" THEN "succeeded" ELSE "failed")
    /\ UNCHANGED <<step, attempt, service, runID, threads>>

Ended == pc \in {"succeeded", "failed", "timedout", "panicked"}

Terminated == Ended /\ UNCHANGED vars

Main == Tick \/ Send \/ Judge \/ JudgeUnreadable \/ StartThreads \/ Join

Thread(t) == ThreadSend(t) \/ ThreadSucceeds(t) \/ ThreadDone(t)

Next == Main \/ Timeout \/ ServeLate \/ (\E t \in Threads : Thread(t)) \/ Terminated

Spec == Init /\ [][Next]_vars

\* Goroutines go on, as every request has a timeout; a Go select does not pass
\* over the timer for ever, as it chooses at random among what is ready.
FairSpec ==
    /\ Spec
    /\ WF_vars(Main)
    /\ SF_vars(Timeout)
    /\ \A t \in Threads : WF_vars(Thread(t))

(***************************************************************************)
(* Properties.                                                             *)
(***************************************************************************)

\* A step that posts something, or starts a benchmark, succeeds with the first
\* answer it can use: whatever else the service has done was done for a request
\* whose answer the step did not get, in this evaluation, an earlier one, or after
\* the client had given it up.
RepeatedOnlyAfterLoss ==
    kind \in {"successful", "benchmark"} =>
        IF pc = "succeeded" \/ (pc = "judging" /\ last = "2xx")
        THEN answer \in 1 .. served /\ spoiled = (1 .. served) \ {answer}
        ELSE spoiled = 1 .. served

\* The benchmark run that later steps ask for has been started for this step, and
\* every other run, before it or after it, is one whose answer was lost: it may not
\* be the last run of the benchmark, but it is the only one the scenario was told of.
StoredRunIsAnswered ==
    kind = "benchmark" /\ pc = "succeeded" =>
        runID \in 1 .. served /\ spoiled = (1 .. served) \ {runID}

\* A step with threads succeeds only when all its requests were served and
\* answered, however the threads interleave.
ThreadsServedAll ==
    kind = "threads" /\ pc = "succeeded" => served = requestCount

\* When the WaitGroup lets the step go on, every thread has reported.
ThreadsReported ==
    kind = "threads" /\ running = {} /\ pc = "joining" => \A t \in Threads : result[t] # "none"

\* Every step ends.
StepEnds == <>Ended
=============================================================================
