-------------------------- MODULE PagedQueryProofs --------------------------
(***************************************************************************)
(* Proofs about PagedQuery, for every page size and every number of        *)
(* instances, arriving at any time: without the results of a failed        *)
(* attempt the step never counts an instance more than there are.          *)
(***************************************************************************)
EXTENDS PagedQuery, TLAPS

\* What is collected: between the attempts what failed ones have left, and in
\* one in addition at most the offset reached, and the instances there are.
Collected ==
    /\ pc \in {"waiting", "timedout"} => collected = leftover
    /\ pc = "querying" => collected <= queried + leftover
    /\ collected <= indexed + leftover

\* The step succeeds with the number it asks for.
Success == pc = "succeeded" => collected = expected

IInv == TypeOK /\ Collected /\ Success

\* A page holds no more than the limit of the query, and reaches no further
\* than the instances there are.
LEMMA PageBounds ==
    ASSUME TypeOK, NEW offset \in Nat
    PROVE  /\ PageLength(offset) \in Nat
           /\ PageLength(offset) <= PageSize
           /\ PageLength(offset) > 0 => offset + PageLength(offset) <= indexed
  BY ConstAssumption DEF TypeOK, PageLength

\* The invariant holds before the first tick.
LEMMA InitIInv == Init => IInv
<1> SUFFICES ASSUME Init PROVE IInv
  OBVIOUS
<1>1. TypeOK
  BY ConstAssumption DEF Init, TypeOK
<1>2. Collected /\ Success
  BY ConstAssumption DEF Init, Collected, Success
<1> QED
  BY <1>1, <1>2 DEF IInv

\* Every step keeps it, those of the Data Index included.
LEMMA StepIInv == IInv /\ [Next]_vars => IInv'
<1> SUFFICES ASSUME IInv, [Next]_vars PROVE IInv'
  OBVIOUS
<1> USE ConstAssumption DEF IInv, TypeOK, Collected, Success, Goto
<1>1. CASE Index
  BY <1>1 DEF Index
<1>2. CASE Tick
  BY <1>2 DEF Tick
<1>3. CASE Timeout
  BY <1>3 DEF Timeout
<1>4. CASE Page
  <2>1. /\ PageLength(queried) \in Nat
        /\ PageLength(queried) <= PageSize
        /\ PageLength(queried) > 0 => queried + PageLength(queried) <= indexed
    BY PageBounds
  <2>2. TypeOK'
    BY <1>4, <2>1 DEF Page
  <2>3. Collected'
    <3>1. collected + PageLength(queried) <= indexed + leftover
      BY <1>4, <2>1 DEF Page
    <3>2. collected + PageLength(queried) <= queried + PageSize + leftover
      BY <1>4, <2>1 DEF Page
    <3> QED
      BY <1>4, <2>1, <3>1, <3>2 DEF Page
  <2> QED
    BY <1>4, <2>2, <2>3 DEF Page
<1>5. CASE PageFails
  BY <1>5 DEF PageFails
<1>6. CASE FullRequest
  BY <1>6 DEF FullRequest
<1>7. CASE Terminated \/ UNCHANGED vars
  BY <1>7 DEF Terminated, vars
<1> QED
  BY <1>1, <1>2, <1>3, <1>4, <1>5, <1>6, <1>7 DEF Next

\* Every variable keeps its type.
THEOREM TypeCorrect == Spec => []TypeOK
<1>1. IInv => TypeOK
  BY DEF IInv
<1> QED
  BY InitIInv, StepIInv, <1>1, PTL DEF Spec

\* Without results of failed attempts no more instances are counted than there
\* are.
THEOREM NoOvercount == Spec => []NeverOvercounts
<1>1. IInv => NeverOvercounts
  BY DEF IInv, Collected, NeverOvercounts
<1> QED
  BY InitIInv, StepIInv, <1>1, PTL DEF Spec

\* Without results of failed attempts the step succeeds only when there are
\* as many instances as it asks for.
THEOREM SuccessCounts == Spec => []CountedWhenUninterrupted
<1>1. IInv => CountedWhenUninterrupted
  BY DEF IInv, Collected, Success, CountedWhenUninterrupted
<1> QED
  BY InitIInv, StepIInv, <1>1, PTL DEF Spec
=============================================================================
