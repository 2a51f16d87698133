----------------------------- MODULE PagedQuery -----------------------------
(***************************************************************************)
(* The step "GraphQL request on Data Index service returns N instances of  *)
(* process" of bddframework/pkg/steps/graphql.go, which counts the process *)
(* instances page by page (pkg/framework/graphql.go), again on every tick  *)
(* of WaitFor until the count is right or the time is over.                *)
(*                                                                         *)
(* While the pages are read the Data Index goes on indexing.  The query    *)
(* asks for no order, so that only the number of instances on a page is    *)
(* known, and the code uses nothing else of them.                          *)
(***************************************************************************)
EXTENDS Integers

CONSTANTS PageSize,       \* limit of one query (1000 in the code)
          Expectations,   \* numbers of instances a step may ask for
          MaxIndexed,     \* bound on the instances there will be
          MaxFailures     \* bound on the queries that fail

ASSUME ConstAssumption ==
    /\ PageSize \in Nat \ {0}
    /\ Expectations \subseteq Nat
    /\ MaxIndexed \in Nat
    /\ MaxFailures \in Nat

VARIABLES
    expected,    \* processInstances, the number the step asks for
    indexed,     \* number of instances in the Data Index
    pc,          \* where the step is
    queried,     \* offset of the next page
    collected,   \* length of allQueriedProcessInstances
    leftover,    \* results in it that failed attempts have left (history)
    failures     \* number of queries that failed

vars == <<expected, indexed, pc, queried, collected, leftover, failures>>

TypeOK ==
    /\ expected \in Expectations
    /\ indexed \in 0 .. MaxIndexed
    /\ pc \in {"waiting", "querying", "succeeded", "timedout"}
    /\ queried \in Nat
    /\ collected \in Nat
    /\ leftover \in Nat
    /\ failures \in 0 .. MaxFailures

Init ==
    /\ expected \in Expectations
    /\ indexed = 0
    /\ pc = "waiting"
    /\ queried = 0
    /\ collected = 0
    /\ leftover = 0
    /\ failures = 0

Goto(from, to) == pc = from /\ pc' = to

\* The Data Index learns of another instance.
Index ==
    /\ indexed < MaxIndexed
    /\ indexed' = indexed + 1
    /\ UNCHANGED <<expected, pc, queried, collected, leftover, failures>>

\* Seeded fault: the offset of the attempt before is kept.
Tick_OffsetKept ==
    /\ Goto("waiting", "querying")
    /\ UNCHANGED <<expected, indexed, queried, collected, leftover, failures>>

\* WaitFor's ticker: the condition starts at the first page.
Tick ==
    /\ Goto("waiting", "querying")
    /\ queried' = 0
    /\ UNCHANGED <<expected, indexed, collected, leftover, failures>>

\* WaitFor's timer
Timeout ==
    /\ Goto("waiting", "timedout")
    /\ UNCHANGED <<expected, indexed, queried, collected, leftover, failures>>

\* Seeded fault: the offset is not applied.
PageLength_NoOffset(offset) == IF indexed < PageSize THEN indexed ELSE PageSize

\* What the Data Index answers to a query from this offset on.
PageLength(offset) ==
    IF indexed <= offset THEN 0
    ELSE IF indexed - offset < PageSize THEN indexed - offset ELSE PageSize

MorePages == queried < expected

\* One page is queried, and its results are appended.
Page ==
    /\ pc = "querying" /\ MorePages
    /\ collected' = collected + PageLength(queried)
    /\ queried' = queried + PageSize
    /\ UNCHANGED <<expected, indexed, pc, leftover, failures>>

\* A query fails: the condition returns, and what the earlier pages have
\* appended stays.  WaitFor only logs the error.
PageFails ==
    /\ MorePages /\ failures < MaxFailures
    /\ Goto("querying", "waiting")
    /\ failures' = failures + 1
    /\ leftover' = collected
    /\ UNCHANGED <<expected, indexed, queried, collected>>

\* Seeded fault: the expected number is taken off instead of all results.
FullRequest_Negative ==
    /\ pc = "querying" /\ ~MorePages
    /\ IF collected = expected
       THEN pc' = "succeeded" /\ UNCHANGED <<collected, leftover>>
       ELSE pc' = "waiting" /\ collected' = collected - expected /\ leftover' = 0
    /\ UNCHANGED <<expected, indexed, queried, failures>>

\* afterFullRequest: compare the number of results; start again without any.
FullRequest ==
    /\ pc = "querying" /\ ~MorePages
    /\ IF collected = expected
       THEN pc' = "succeeded" /\ UNCHANGED <<collected, leftover>>
       ELSE pc' = "waiting" /\ collected' = 0 /\ leftover' = 0
    /\ UNCHANGED <<expected, indexed, queried, failures>>

Terminated == pc \in {"succeeded", "timedout"} /\ UNCHANGED vars

Next == \/ Index \/ Tick \/ Timeout \/ Page \/ PageFails \/ FullRequest
        \/ Terminated

Spec == Init /\ [][Next]_vars

\* The step is one goroutine, which goes on; that its time is over, or that a
\* query fails, is not assumed.
FairSpec == Spec /\ WF_vars(Tick \/ Page \/ FullRequest)

(***************************************************************************)
(* Properties.                                                             *)
(***************************************************************************)

\* No more instances are counted than there are, although they arrive while the
\* pages are read, but for the results that failed attempts have left behind.
NeverOvercounts == collected <= indexed + leftover

\* So a step that no failed attempt has preceded succeeds only when there are
\* as many instances as it asks for.
CountedWhenUninterrupted == pc = "succeeded" => expected <= indexed + leftover

\* "delete all results so we can start again": a step that succeeds has seen
\* as many instances as it asks for.
Counted == pc = "succeeded" => expected <= indexed

\* What a failed attempt leaves spoils only the next one: once the Data Index
\* stays with exactly the instances the step asks for, the step finds them or
\* its time is over.
LeftoverIsOvercome ==
    <>[](indexed = expected) => <>(pc \in {"succeeded", "timedout"})
=============================================================================
