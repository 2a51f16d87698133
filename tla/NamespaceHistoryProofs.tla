----------------------- MODULE NamespaceHistoryProofs -----------------------
(***************************************************************************)
(* Proofs about NamespaceHistory, for any scenarios, installations and     *)
(* histories of earlier runs: a namespace of the run that exists is in the *)
(* history, at whatever point the run is killed, unless its hook or a read *)
(* or write of the file has failed or the file was written between the     *)
(* read and the write of a removal; and but for the last the prune command *)
(* deletes only namespaces that a run has recorded.                        *)
(***************************************************************************)
EXTENDS NamespaceHistory, SequenceTheorems, WellFoundedInduction, TLAPS

\* The namespaces that may be recorded.
Known == created \cup earlier \cup Installed

\* Who removes its line has deleted its namespace; a scenario that is about to append
\* its line has created it.
OwnNamespace ==
    /\ \A u \in Writers : pc[u] \in {"remove", "truncate", "write"} => u \notin exists
    /\ \A s \in Scenarios : pc[s] = "append" => s \in created

\* While no removal was disturbed there is one about to write at most, to an empty file.
Lone ==
    run = "on" /\ ~overlapped =>
        \A u \in Writers : pc[u] = "write" =>
            file = <<>> /\ \A v \in Writers : pc[v] = "write" => v = u

\* What is read and written then are names of known namespaces.
Provenance ==
    ~overlapped =>
        /\ ToSet(file) \subseteq Known /\ ToSet(pruneTodo) \subseteq Known
        /\ \A u \in Writers : ToSet(snap[u]) \subseteq Known

\* A removal's copy misses no other line of the file, unless that was read truncated.
CopyIsWhole ==
    run = "on" /\ ~overlapped /\ ~damaged =>
        \A u \in Writers : pc[u] = "truncate" =>
            \/ ToSet(file) \ {u} \subseteq ToSet(snap[u])
            \/ \E v \in Writers : pc[v] = "write"

\* What a killed run has left is recorded, or excused.
Found(s) == \/ s \in missed \/ pc[s] = "append" \/ s \in ToSet(file)
            \/ \E u \in Writers : pc[u] = "write" /\ s \in ToSet(snap[u])

Coverage ==
    run # "pruned" /\ ~overlapped /\ ~damaged => \A s \in created \cap exists : Found(s)

IInv == TypeOK /\ OwnNamespace /\ Lone /\ Provenance /\ CopyIsWhole /\ Coverage

-----------------------------------------------------------------------------
(* The loop of removeNamespaceFromHistory, by induction over the lines. *)

\* A set of natural numbers has a least element.
LEMMA LeastNatural ==
  ASSUME NEW T, T \subseteq Nat, T # {} PROVE \E x \in T : \A y \in T : x <= y
<1>1. \E R : IsWellFoundedOn(R, Nat) /\ \A x, y \in Nat : <<y, x>> \in R <=> y < x
  <2>1. IsWellFoundedOn(OpToRel(<, Nat), Nat)
    BY NatLessThanWellFounded
  <2>2. \A x, y \in Nat : <<y, x>> \in OpToRel(<, Nat) <=> y < x
    BY DEF OpToRel
  <2> QED
    BY <2>1, <2>2, Zenon
<1>2. PICK R : IsWellFoundedOn(R, Nat) /\ \A x, y \in Nat : <<y, x>> \in R <=> y < x
  BY <1>1
<1>3. \E x \in T : \A y \in T : ~ (<<y, x>> \in R)
  BY <1>2, WFMin
<1>4. \E x \in T : \A y \in T : ~ (y < x)
  BY <1>2, <1>3, Zenon
<1> QED
  BY <1>4

\* Induction up to n: what holds is a set, as the least number outside it is reached
\* from the one before.
LEMMA SetInduction ==
  ASSUME NEW n \in Nat, NEW T, 0 \in T, \A i \in 0 .. n - 1 : i \in T => i + 1 \in T
  PROVE  0 .. n \subseteq T
<1> SUFFICES ASSUME NEW k \in 0 .. n, k \notin T PROVE FALSE
  OBVIOUS
<1> DEFINE Out == {i \in 0 .. n : i \notin T}
<1>0. Out \subseteq Nat /\ k \in Out
  OBVIOUS
<1>1. PICK x \in Out : \A y \in Out : x <= y
  <2> HIDE DEF Out
  <2> QED
    BY <1>0, LeastNatural
<1>2. x # 0 /\ x - 1 \in 0 .. n - 1
  OBVIOUS
<1>3. x - 1 \in T
  BY <1>1, <1>2
<1> QED
  BY <1>2, <1>3

\* A list has the elements of its head and its tail.
LEMMA ToSetTail ==
  ASSUME NEW S, NEW list \in Seq(S), list # <<>>
  PROVE  /\ Head(list) \in S /\ Tail(list) \in Seq(S)
         /\ ToSet(list) = {Head(list)} \cup ToSet(Tail(list))
<1>1. Head(list) \in S /\ Tail(list) \in Seq(S)
  BY HeadTailProperties
<1>2. Len(list) \in Nat \ {0} /\ DOMAIN list = 1 .. Len(list) /\ Len(Tail(list)) = Len(list) - 1
  BY HeadTailProperties, EmptySeq, LenProperties
<1>3. DOMAIN Tail(list) = 1 .. Len(list) - 1
  BY <1>1, <1>2, LenProperties
<1>4. \A i \in 1 .. Len(list) - 1 : Tail(list)[i] = list[i + 1]
  BY <1>2, HeadTailProperties
<1>5. Head(list) = list[1]
  BY HeadTailProperties
<1>6. ASSUME NEW i \in DOMAIN list PROVE list[i] \in {Head(list)} \cup ToSet(Tail(list))
  <2>1. CASE i = 1
    BY <2>1, <1>5
  <2>2. CASE i # 1
    <3>1. i - 1 \in 1 .. Len(list) - 1 /\ Tail(list)[i - 1] = list[i]
      BY <2>2, <1>2, <1>4
    <3> QED
      BY <3>1, <1>3 DEF ToSet
  <2> QED
    BY <2>1, <2>2
<1>7. ASSUME NEW i \in DOMAIN Tail(list) PROVE Tail(list)[i] \in ToSet(list)
  BY <1>2, <1>3, <1>4 DEF ToSet
<1>8. Head(list) \in ToSet(list)
  BY <1>2, <1>5 DEF ToSet
<1> QED
  BY <1>1, <1>6, <1>7, <1>8 DEF ToSet

\* Appending adds one element.
LEMMA ToSetAppend ==
  ASSUME NEW S, NEW list \in Seq(S), NEW e \in S
  PROVE  /\ Append(list, e) \in Seq(S)
         /\ ToSet(Append(list, e)) = ToSet(list) \cup {e}
<1>1. /\ Append(list, e) \in Seq(S) /\ Len(Append(list, e)) = Len(list) + 1
      /\ \A i \in 1 .. Len(list) : Append(list, e)[i] = list[i]
      /\ Append(list, e)[Len(list) + 1] = e
  BY AppendProperties
<1>2. /\ Len(list) \in Nat /\ DOMAIN list = 1 .. Len(list)
      /\ DOMAIN Append(list, e) = 1 .. Len(list) + 1
  BY <1>1, LenProperties
<1>3. ASSUME NEW i \in DOMAIN Append(list, e)
      PROVE Append(list, e)[i] \in ToSet(list) \cup {e}
  BY <1>1, <1>2 DEF ToSet
<1>4. ASSUME NEW i \in DOMAIN list PROVE list[i] \in ToSet(Append(list, e))
  <2>1. i \in DOMAIN Append(list, e) /\ Append(list, e)[i] = list[i]
    BY <1>1, <1>2
  <2> QED
    BY <2>1 DEF ToSet
<1>5. e \in ToSet(Append(list, e))
  BY <1>1, <1>2 DEF ToSet
<1> QED
  BY <1>1, <1>3, <1>4, <1>5 DEF ToSet

\* One step of the loop.
KeptStep(lines, s, g, i) ==
    IF i = 0 THEN <<>> ELSE IF lines[i] = s THEN g[i - 1] ELSE Append(g[i - 1], lines[i])

\* There is a function with the lines kept after each step of the loop: every beginning
\* of it can be continued.
LEMMA KeptExists ==
  ASSUME NEW S, NEW lines \in Seq(S), NEW s
  PROVE  \E g \in [0 .. Len(lines) -> Seq(S)] :
            g = [i \in 0 .. Len(lines) |-> KeptStep(lines, s, g, i)]
<1> DEFINE n == Len(lines)
           Upto(m) == \E g \in [0 .. m -> Seq(S)] :
                         \A i \in 0 .. m : g[i] = KeptStep(lines, s, g, i)
           T == {m \in 0 .. n : Upto(m)}
<1>1. n \in Nat /\ \A i \in 1 .. n : lines[i] \in S
  BY LenProperties, ElementOfSeq
<1>2. Upto(0)
  <2> DEFINE g == [i \in 0 .. 0 |-> <<>>]
  <2>1. g \in [0 .. 0 -> Seq(S)]
    BY EmptySeq
  <2>2. \A i \in 0 .. 0 : g[i] = KeptStep(lines, s, g, i)
    BY DEF KeptStep
  <2> HIDE DEF g
  <2> QED
    BY <2>1, <2>2
<1>3. ASSUME NEW m \in 0 .. n - 1, m \in T PROVE m + 1 \in T
  <2>1. PICK g \in [0 .. m -> Seq(S)] : \A i \in 0 .. m : g[i] = KeptStep(lines, s, g, i)
    BY <1>3
  <2>2. m \in Nat /\ m + 1 \in 0 .. n /\ lines[m + 1] \in S
    BY <1>1
  <2> DEFINE e == IF lines[m + 1] = s THEN g[m] ELSE Append(g[m], lines[m + 1])
             h == [i \in 0 .. m + 1 |-> IF i = m + 1 THEN e ELSE g[i]]
  <2>3. g[m] \in Seq(S)
    BY <2>1, <2>2
  <2>4. e \in Seq(S)
    BY <2>2, <2>3, AppendProperties
  <2>5. h \in [0 .. m + 1 -> Seq(S)]
    <3> HIDE DEF e
    <3> QED
      BY <2>1, <2>2, <2>4
  <2>6. ASSUME NEW i \in 0 .. m + 1 PROVE h[i] = KeptStep(lines, s, h, i)
    <3>1. CASE i = m + 1
      <4>1. h[i] = e /\ h[i - 1] = g[m] /\ i # 0
        BY <2>2, <3>1
      <4> QED
        BY <3>1, <4>1 DEF KeptStep
    <3>2. CASE i \in 1 .. m
      <4>1. h[i] = g[i] /\ h[i - 1] = g[i - 1] /\ i \in 0 .. m
        BY <2>2, <3>2
      <4> QED
        BY <2>1, <4>1 DEF KeptStep
    <3>3. CASE i = 0
      <4>1. h[i] = g[i] /\ i \in 0 .. m
        BY <2>2, <3>3
      <4> QED
        BY <2>1, <3>3, <4>1 DEF KeptStep
    <3> QED
      BY <2>2, <3>1, <3>2, <3>3
  <2> HIDE DEF h
  <2>7. Upto(m + 1)
    BY <2>5, <2>6
  <2> QED
    BY <2>2, <2>7
<1>4. 0 .. n \subseteq T
  <2>1. 0 \in T
    BY <1>1, <1>2
  <2> HIDE DEF T, n
  <2> QED
    BY <1>1, <1>3, <2>1, SetInduction
<1>5. Upto(n)
  <2>1. n \in T
    <3> HIDE DEF T
    <3> QED
      BY <1>1, <1>4
  <2> HIDE DEF Upto
  <2> QED
    BY <2>1
<1>6. PICK g \in [0 .. n -> Seq(S)] : \A i \in 0 .. n : g[i] = KeptStep(lines, s, g, i)
  BY <1>5
<1>7. g = [i \in 0 .. n |-> KeptStep(lines, s, g, i)]
  BY <1>6
<1> QED
  BY <1>7

\* So the recursive definition is what it says.
LEMMA WithoutDef ==
  ASSUME NEW S, NEW lines \in Seq(S), NEW s
  PROVE  \E f : /\ f = [i \in 0 .. Len(lines) |-> KeptStep(lines, s, f, i)]
                /\ Without(lines, s) = f[Len(lines)]
<1> DEFINE f == CHOOSE g : g = [i \in 0 .. Len(lines) |-> KeptStep(lines, s, g, i)]
<1>1. \E g : g = [i \in 0 .. Len(lines) |-> KeptStep(lines, s, g, i)]
  BY KeptExists
<1>2. f = [i \in 0 .. Len(lines) |-> KeptStep(lines, s, f, i)]
  BY <1>1, Zenon
<1>3. Without(lines, s) = f[Len(lines)]
  BY Zenon DEF Without, KeptStep
<1> QED
  BY <1>2, <1>3

\* What removeNamespaceFromHistory keeps are the other lines, of any history.
LEMMA WithoutProperties ==
  ASSUME NEW S, NEW lines \in Seq(S), NEW s
  PROVE  /\ Without(lines, s) \in Seq(S)
         /\ ToSet(Without(lines, s)) = ToSet(lines) \ {s}
<1> DEFINE n == Len(lines)
<1>1. n \in Nat /\ \A i \in 1 .. n : lines[i] \in S
  BY LenProperties, ElementOfSeq
<1>2. PICK f : /\ f = [i \in 0 .. n |-> KeptStep(lines, s, f, i)]
               /\ Without(lines, s) = f[n]
  BY WithoutDef
<1> DEFINE Right(i) == f[i] \in Seq(S) /\ ToSet(f[i]) = {lines[j] : j \in 1 .. i} \ {s}
           T == {i \in 0 .. n : Right(i)}
<1>3. Right(0)
  <2>1. f[0] = <<>>
    BY <1>1, <1>2 DEF KeptStep
  <2> QED
    BY <2>1, EmptySeq DEF ToSet
<1>4. ASSUME NEW m \in 0 .. n - 1, m \in T PROVE m + 1 \in T
  <2>1. m \in Nat /\ m + 1 \in 0 .. n /\ m + 1 # 0 /\ m + 1 - 1 = m /\ lines[m + 1] \in S
    BY <1>1
  <2>2. f[m + 1] = IF lines[m + 1] = s THEN f[m] ELSE Append(f[m], lines[m + 1])
    <3>1. f[m + 1] = KeptStep(lines, s, f, m + 1)
      BY <1>2, <2>1
    <3> QED
      BY <2>1, <3>1 DEF KeptStep
  <2>3. f[m] \in Seq(S) /\ ToSet(f[m]) = {lines[j] : j \in 1 .. m} \ {s}
    BY <1>4
  <2>4. {lines[j] : j \in 1 .. m + 1} = {lines[j] : j \in 1 .. m} \cup {lines[m + 1]}
    BY <2>1
  <2>5. Right(m + 1)
    <3>1. CASE lines[m + 1] = s
      BY <2>2, <2>3, <2>4, <3>1
    <3>2. CASE lines[m + 1] # s
      <4>1. /\ Append(f[m], lines[m + 1]) \in Seq(S)
            /\ ToSet(Append(f[m], lines[m + 1])) = ToSet(f[m]) \cup {lines[m + 1]}
        BY <2>1, <2>3, ToSetAppend
      <4> QED
        BY <2>2, <2>3, <2>4, <3>2, <4>1
    <3> QED
      BY <3>1, <3>2
  <2> HIDE DEF Right
  <2> QED
    BY <2>1, <2>5
<1>5. n \in T
  <2>1. 0 \in T
    BY <1>1, <1>3
  <2> HIDE DEF T, n
  <2>2. 0 .. n \subseteq T
    BY <1>1, <1>4, <2>1, SetInduction
  <2> QED
    BY <1>1, <2>2
<1>6. f[n] \in Seq(S) /\ ToSet(f[n]) = {lines[j] : j \in 1 .. n} \ {s}
  BY <1>5
<1>7. ToSet(lines) = {lines[j] : j \in 1 .. n}
  BY LenProperties DEF ToSet
<1> QED
  BY <1>2, <1>6, <1>7

\* A concatenation has the elements of both lists.
LEMMA ToSetConcat ==
  ASSUME NEW S, NEW l \in Seq(S), NEW r \in Seq(S)
  PROVE  l \o r \in Seq(S) /\ ToSet(l \o r) = ToSet(l) \cup ToSet(r)
<1> DEFINE c == l \o r
<1>1. /\ c \in Seq(S) /\ Len(c) = Len(l) + Len(r)
      /\ \A i \in 1 .. Len(l) + Len(r) : c[i] = IF i <= Len(l) THEN l[i] ELSE r[i - Len(l)]
  BY ConcatProperties
<1> HIDE DEF c
<1>2. /\ Len(l) \in Nat /\ Len(r) \in Nat
      /\ DOMAIN l = 1 .. Len(l) /\ DOMAIN r = 1 .. Len(r) /\ DOMAIN c = 1 .. Len(l) + Len(r)
  BY <1>1, LenProperties
<1>3. ASSUME NEW i \in DOMAIN c PROVE c[i] \in ToSet(l) \cup ToSet(r)
  <2>1. CASE i <= Len(l)
    <3>1. i \in DOMAIN l /\ c[i] = l[i]
      BY <1>1, <1>2, <2>1
    <3> QED
      BY <3>1 DEF ToSet
  <2>2. CASE i > Len(l)
    <3>1. i - Len(l) \in DOMAIN r /\ c[i] = r[i - Len(l)]
      BY <1>1, <1>2, <2>2
    <3> QED
      BY <3>1 DEF ToSet
  <2> QED
    BY <1>2, <2>1, <2>2
<1>4. ASSUME NEW i \in DOMAIN l PROVE l[i] \in ToSet(c)
  <2>1. i \in DOMAIN c /\ c[i] = l[i]
    BY <1>1, <1>2
  <2> QED
    BY <2>1 DEF ToSet
<1>5. ASSUME NEW i \in DOMAIN r PROVE r[i] \in ToSet(c)
  <2>1. i + Len(l) \in DOMAIN c /\ ~ (i + Len(l) <= Len(l)) /\ i + Len(l) - Len(l) = i
    BY <1>2
  <2>2. c[i + Len(l)] = r[i]
    BY <1>1, <1>2, <2>1
  <2> QED
    BY <2>1, <2>2 DEF ToSet
<1>6. ToSet(c) = ToSet(l) \cup ToSet(r)
  BY <1>3, <1>4, <1>5 DEF ToSet
<1> QED
  BY <1>1, <1>6 DEF c

\* A part of a list has elements of the list only.
LEMMA ToSetSubSeq ==
  ASSUME NEW S, NEW l \in Seq(S), NEW m \in Nat \ {0}
  PROVE  SubSeq(l, m, Len(l)) \in Seq(S) /\ ToSet(SubSeq(l, m, Len(l))) \subseteq ToSet(l)
<1> DEFINE n == Len(l)
           p == SubSeq(l, m, n)
<1>1. n \in Nat /\ DOMAIN l = 1 .. n /\ \A i \in m .. n : l[i] \in S
  BY LenProperties, ElementOfSeq
<1>2. /\ p \in Seq(S) /\ Len(p) = IF m <= n THEN n - m + 1 ELSE 0
      /\ \A i \in 1 .. n - m + 1 : p[i] = l[m + i - 1]
  <2> HIDE DEF n
  <2> QED
    BY <1>1, SubSeqProperties
<1>3. DOMAIN p = 1 .. Len(p)
  <2> HIDE DEF p
  <2> QED
    BY <1>2, LenProperties
<1> HIDE DEF p, n
<1>4. ASSUME NEW i \in DOMAIN p PROVE p[i] \in ToSet(l)
  <2>1. m <= n /\ i \in 1 .. n - m + 1 /\ m + i - 1 \in DOMAIN l
    BY <1>1, <1>2, <1>3
  <2>2. p[i] = l[m + i - 1]
    BY <1>2, <2>1
  <2> QED
    BY <2>1, <2>2 DEF ToSet
<1> QED
  BY <1>2, <1>4 DEF ToSet, p, n
\* What a write leaves: lines of the output and of what it was written over; over an empty
\* file those of the output.
LEMMA OverwrittenProperties ==
  ASSUME NEW output \in Seq(Lines), file \in Seq(Lines), NEW f \in Overwritten(output)
  PROVE  f \in Seq(Lines) /\ (file = <<>> => ToSet(f) = ToSet(output))
<1>1. CASE output = <<>> \/ file = <<>>
  <2>1. f = output \o file
    BY <1>1 DEF Overwritten
  <2>2. f \in Seq(Lines) /\ ToSet(f) = ToSet(output) \cup ToSet(file)
    BY <2>1, ToSetConcat
  <2>3. ToSet(<<>>) = {}
    BY DEF ToSet
  <2> QED
    BY <2>2, <2>3
<1>2. CASE ~ (output = <<>> \/ file = <<>>)
  <2>1. PICK k \in 2 .. Len(file) + 1 :
               f \in {output \o SubSeq(file, k, Len(file)),
                      output \o <<Torn>> \o SubSeq(file, k, Len(file))}
    BY <1>2 DEF Overwritten
  <2>2. <<Torn>> \in Seq(Lines)
    <3>1. Torn \in Lines
      BY DEF Lines
    <3> QED
      BY <3>1
  <2>3. output \o <<Torn>> \in Seq(Lines)
    BY <2>2, ToSetConcat
  <2>4. k \in Nat \ {0}
    BY LenProperties
  <2>5. SubSeq(file, k, Len(file)) \in Seq(Lines)
    BY <2>4, ToSetSubSeq
  <2>6. /\ output \o SubSeq(file, k, Len(file)) \in Seq(Lines)
        /\ output \o <<Torn>> \o SubSeq(file, k, Len(file)) \in Seq(Lines)
    BY <2>3, <2>5, ToSetConcat
  <2>7. f \in Seq(Lines)
    BY <2>1, <2>6
  <2> QED
    BY <1>2, <2>7
<1> QED
  BY <1>1, <1>2
-----------------------------------------------------------------------------
(* The invariant, step by step. *)

\* The types of what the steps change.
LEMMA Types ==
  TypeOK => /\ pc \in [Writers -> {"idle", "append", "body", "install", "failed",
                                   "remove", "truncate", "write", "done"}]
            /\ snap \in [Writers -> Seq(Lines)]
            /\ file \in Seq(Lines) /\ pruneTodo \in Seq(Lines)
            /\ exists \subseteq Names /\ created \subseteq Writers
            /\ missed \subseteq Writers /\ earlier \subseteq Names
            /\ run \in {"on", "over", "prune", "pruned"}
            /\ overlapped \in BOOLEAN /\ damaged \in BOOLEAN
  BY DEF TypeOK

\* The sets of names.
LEMMA NameSets ==
  /\ Scenarios \subseteq Writers /\ Installations \subseteq Writers
  /\ Writers \subseteq Names /\ Names \subseteq Lines /\ Torn \notin Names
  /\ Scenarios \cap Installations = {}
  BY ConstAssumption DEF Writers, Names, Lines

\* The empty file.
LEMMA ToSetEmpty == ToSet(<<>>) = {}
  BY DEF ToSet

\* The elements of a list.
LEMMA ToSetType == ASSUME NEW S, NEW l \in Seq(S) PROVE ToSet(l) \subseteq S
  BY LenProperties, ElementOfSeq DEF ToSet

\* Known names are names, not parts of them.
LEMMA KnownNames == TypeOK => Known \subseteq Names
  BY NameSets DEF TypeOK, Known, Installed

\* The invariant holds before the run.
LEMMA InitIInv == Init => IInv
<1> SUFFICES ASSUME Init PROVE IInv
  OBVIOUS
<1>0. file \in Seq(Names)
  BY ConstAssumption DEF Init
<1>1. TypeOK
  <2>1. <<>> \in Seq(Lines)
    BY EmptySeq
  <2>2. file \in Seq(Lines) /\ ToSet(file) \subseteq Names
    <3>1. \A i \in 1 .. Len(file) : file[i] \in Lines
      BY <1>0, ElementOfSeq, NameSets
    <3> QED
      BY <1>0, <3>1, IsASeq, ToSetType, LenProperties, NameSets
  <2> QED
    BY <2>1, <2>2 DEF Init, TypeOK
<1>2. OwnNamespace /\ Lone /\ CopyIsWhole
  BY NameSets DEF Init, OwnNamespace, Lone, CopyIsWhole
<1>3. Provenance
  BY ToSetEmpty DEF Init, Provenance, Known
<1>4. Coverage
  BY DEF Init, Coverage
<1> QED
  BY <1>1, <1>2, <1>3, <1>4 DEF IInv

\* A step that leaves the file and all removals alone keeps the invariant if a namespace it
\* creates is about to be recorded, or its hook missed.
LEMMA QuietStep ==
  ASSUME IInv, TypeOK', OwnNamespace', Known \subseteq Known', missed \subseteq missed',
         UNCHANGED <<snap, file, run, pruneTodo, overlapped, damaged>>,
         \A u \in Writers : \/ pc'[u] = pc[u]
                            \/ {pc[u], pc'[u]} \cap {"truncate", "write"} = {},
         \A s \in created' \cap exists' :
             \/ s \in created \cap exists /\ (pc[s] = "append" => pc'[s] = "append")
             \/ pc'[s] = "append" \/ s \in missed'
  PROVE  IInv'
<1>1. \A u \in Writers : /\ pc'[u] = "truncate" <=> pc[u] = "truncate"
                         /\ pc'[u] = "write" <=> pc[u] = "write"
  OBVIOUS
<1>2. Lone' /\ CopyIsWhole'
  BY <1>1 DEF IInv, Lone, CopyIsWhole
<1>3. Provenance'
  BY DEF IInv, Provenance
<1>4. Coverage'
  <2> SUFFICES ASSUME run # "pruned", ~overlapped, ~damaged, NEW s \in created' \cap exists'
               PROVE  Found(s)'
    BY DEF Coverage
  <2>1. CASE s \in created \cap exists /\ (pc[s] = "append" => pc'[s] = "append")
    <3>1. Found(s)
      BY <2>1 DEF IInv, Coverage
    <3> QED
      BY <1>1, <2>1, <3>1 DEF Found
  <2>2. CASE pc'[s] = "append" \/ s \in missed'
    BY <2>2 DEF Found
  <2> QED
    BY <2>1, <2>2
<1> QED
  BY <1>2, <1>3, <1>4 DEF IInv

\* A scenario creates its namespace.
LEMMA CreateStep == ASSUME NEW s \in Scenarios, IInv, CreateNamespace(s) PROVE IInv'
<1>0. TypeOK /\ OwnNamespace
  BY DEF IInv
<1>1. /\ pc[s] = "idle"
      /\ UNCHANGED <<snap, file, run, pruneTodo, earlier, missed, overlapped, damaged>>
      /\ \/ /\ pc' = [pc EXCEPT ![s] = "append"]
            /\ exists' = exists \cup {s} /\ created' = created \cup {s}
         \/ pc' = [pc EXCEPT ![s] = "body"] /\ UNCHANGED <<exists, created>>
  BY DEF CreateNamespace, Goto, At
<1>2. TypeOK'
  BY <1>0, <1>1, NameSets DEF TypeOK
<1>3. OwnNamespace'
  BY <1>0, <1>1, NameSets, Types DEF OwnNamespace
<1>4. Known \subseteq Known'
  BY <1>0, <1>1, NameSets, Types DEF Known, Installed
<1>5. \A u \in Writers : pc'[u] = pc[u] \/ {pc[u], pc'[u]} \cap {"truncate", "write"} = {}
  BY <1>0, <1>1, Types
<1>6. \A u \in created' \cap exists' :
         (u \in created \cap exists /\ (pc[u] = "append" => pc'[u] = "append")) \/ pc'[u] = "append"
  BY <1>0, <1>1, NameSets, Types
<1> QED
  BY <1>1, <1>2, <1>3, <1>4, <1>5, <1>6, QuietStep

\* A scenario applies the files of an installation.
LEMMA InstallStep ==
  ASSUME NEW s \in Scenarios, NEW i \in Installations, IInv, InstallClusterYaml(s, i)
  PROVE  IInv'
<1>0. TypeOK /\ OwnNamespace
  BY DEF IInv
<1>1. /\ pc[s] = "body" /\ pc[i] = "idle"
      /\ UNCHANGED <<snap, file, run, pruneTodo, earlier, overlapped, damaged>>
      /\ \/ /\ pc' = [pc EXCEPT ![s] = "install", ![i] = "append"]
            /\ exists' = exists \cup {i} /\ created' = created \cup ({i} \ exists)
            /\ UNCHANGED missed
         \/ /\ pc' = [pc EXCEPT ![i] = "failed"]
            /\ \/ /\ exists' = exists \cup {i} /\ created' = created \cup ({i} \ exists)
                  /\ missed' = missed \cup ({i} \ exists)
               \/ UNCHANGED <<exists, created, missed>>
  BY DEF InstallClusterYaml, At
<1>2. s # i /\ s \in Writers /\ i \in Writers /\ i \notin Scenarios
  BY NameSets
<1>3. TypeOK'
  BY <1>0, <1>1, <1>2, NameSets DEF TypeOK
<1>4. \A u \in Writers : pc'[u] = IF u = i THEN pc'[i] ELSE IF u = s THEN pc'[s] ELSE pc[u]
  BY <1>0, <1>1, Types
<1>5. pc'[i] \in {"append", "failed"} /\ pc'[s] \in {"body", "install"}
  BY <1>0, <1>1, <1>2, Types
<1>6. OwnNamespace'
  BY <1>0, <1>1, <1>2, <1>4, <1>5, NameSets, Types DEF OwnNamespace
<1>7. Known \subseteq Known'
  BY <1>0, <1>1, <1>2, <1>4, <1>5, NameSets, Types DEF Known, Installed
<1>8. \A u \in Writers : pc'[u] = pc[u] \/ {pc[u], pc'[u]} \cap {"truncate", "write"} = {}
  BY <1>1, <1>4, <1>5
<1>9. \A u \in created' \cap exists' :
         \/ u \in created \cap exists /\ (pc[u] = "append" => pc'[u] = "append")
         \/ pc'[u] = "append" \/ u \in missed'
  <2> SUFFICES ASSUME NEW u \in created' \cap exists'
               PROVE  \/ u \in created \cap exists /\ (pc[u] = "append" => pc'[u] = "append")
                      \/ pc'[u] = "append" \/ u \in missed'
    OBVIOUS
  <2>1. u \in Writers
    BY <1>3, Types DEF TypeOK
  <2>2. CASE u \in created \cap exists
    BY <1>1, <1>4, <2>1, <2>2
  <2>3. CASE u \notin created \cap exists
    BY <1>0, <1>1, <1>2, <2>3, Types
  <2> QED
    BY <2>2, <2>3
<1>10. missed \subseteq missed'
  BY <1>1
<1> QED
  BY <1>1, <1>3, <1>6, <1>7, <1>8, <1>9, <1>10, QuietStep

\* A line is appended, or its hook fails: what is common to the two kinds of writers.
LEMMA AppendStep ==
  ASSUME IInv, NEW s \in Writers, AppendLine(s), pc[s] = "append",
         TypeOK', OwnNamespace', Known \subseteq Known', s \in Known', run = "on",
         UNCHANGED <<snap, exists, run, pruneTodo, created, damaged>>,
         \A u \in Writers : /\ u # s => pc'[u] = pc[u] \/ {pc[u], pc'[u]} \subseteq {"install", "body"}
                            /\ pc'[s] = "body"
  PROVE  IInv'
<1>0. TypeOK
  BY DEF IInv
<1>1. CASE missed' = missed \cup {s} /\ UNCHANGED <<file, overlapped>>
  <2>1. \A u \in Writers : pc'[u] = pc[u] \/ {pc[u], pc'[u]} \cap {"truncate", "write"} = {}
    OBVIOUS
  <2>2. \A u \in created' \cap exists' :
           (u \in created \cap exists /\ (pc[u] = "append" => pc'[u] = "append")) \/ u \in missed'
    BY <1>0, <1>1, Types
  <2> QED
    BY <1>1, <2>1, <2>2, QuietStep
<1>2. CASE file' = Append(file, s) /\ Overlap(s) /\ UNCHANGED missed
  <2>1. ToSet(file') = ToSet(file) \cup {s}
    BY <1>0, <1>2, ToSetAppend, NameSets, Types
  <2>2. ASSUME ~overlapped' PROVE ~overlapped /\ \A u \in Writers : pc[u] \notin {"truncate", "write"}
    BY <1>2, <2>2 DEF Overlap, Disturbed
  <2>3. ~overlapped' => \A u \in Writers : pc'[u] \notin {"truncate", "write"}
    BY <2>2
  <2>4. Lone' /\ CopyIsWhole'
    BY <2>3 DEF Lone, CopyIsWhole
  <2>5. Provenance'
    BY <2>1, <2>2 DEF IInv, Provenance
  <2>6. Coverage'
    <3> SUFFICES ASSUME ~overlapped', ~damaged, NEW u \in created \cap exists, u # s
                 PROVE  Found(u)'
      BY <1>2, <2>1 DEF Coverage, Found
    <3>1. Found(u) /\ u \in Writers
      BY <1>0, <2>2, Types DEF IInv, Coverage
    <3> QED
      BY <1>2, <2>1, <2>2, <3>1 DEF Found
  <2> QED
    BY <2>4, <2>5, <2>6 DEF IInv
<1> QED
  BY <1>1, <1>2 DEF AppendLine

\* The types of an append.
LEMMA AppendTypes ==
  ASSUME TypeOK, NEW s \in Writers, AppendLine(s)
  PROVE  file' \in Seq(Lines) /\ missed' \subseteq Writers /\ overlapped' \in BOOLEAN
<1>1. s \in Lines
  BY NameSets
<1>2. CASE file' = Append(file, s) /\ Overlap(s) /\ UNCHANGED missed
  <2>1. overlapped' \in BOOLEAN
    BY <1>2, Zenon DEF Overlap
  <2> QED
    BY <1>1, <1>2, <2>1, AppendProperties, Types
<1>3. CASE missed' = missed \cup {s} /\ UNCHANGED <<file, overlapped>>
  BY <1>3, Types
<1> QED
  BY <1>2, <1>3 DEF AppendLine

\* A scenario's line.
LEMMA AddStep == ASSUME NEW s \in Scenarios, IInv, AddToHistory(s) PROVE IInv'
<1>0. TypeOK /\ OwnNamespace /\ s \in Writers
  BY NameSets DEF IInv
<1>1. /\ pc[s] = "append" /\ run = "on" /\ pc' = [pc EXCEPT ![s] = "body"] /\ AppendLine(s)
      /\ UNCHANGED <<snap, exists, run, pruneTodo, earlier, created, damaged>>
  BY DEF AddToHistory, Goto, At
<1>2. TypeOK'
  BY <1>0, <1>1, AppendTypes DEF TypeOK
<1>3. OwnNamespace'
  BY <1>0, <1>1, NameSets, Types DEF OwnNamespace
<1>4. Known \subseteq Known' /\ s \in Known'
  BY <1>0, <1>1, NameSets, Types DEF Known, Installed, OwnNamespace
<1>5. \A u \in Writers : (u # s => pc'[u] = pc[u]) /\ pc'[s] = "body"
  BY <1>0, <1>1, Types
<1> QED
  BY <1>0, <1>1, <1>2, <1>3, <1>4, <1>5, AppendStep

\* An installation's line.
LEMMA RecordStep ==
  ASSUME NEW s \in Scenarios, NEW i \in Installations, IInv, RecordInstallation(s, i)
  PROVE  IInv'
<1>0. TypeOK /\ OwnNamespace /\ s # i /\ s \in Writers /\ i \in Writers /\ i \notin Scenarios
  BY NameSets DEF IInv
<1>1. /\ pc[s] = "install" /\ pc[i] = "append" /\ run = "on"
      /\ pc' = [pc EXCEPT ![s] = "body", ![i] = "body"] /\ AppendLine(i)
      /\ UNCHANGED <<snap, exists, run, pruneTodo, earlier, created, damaged>>
  BY DEF RecordInstallation, At
<1>2. TypeOK'
  BY <1>0, <1>1, AppendTypes DEF TypeOK
<1>3. \A u \in Writers : pc'[u] = IF u = s \/ u = i THEN "body" ELSE pc[u]
  BY <1>0, <1>1, Types
<1>4. OwnNamespace'
  <2>1. exists' = exists /\ created' = created
    BY <1>1
  <2> QED
    BY <1>0, <1>3, <2>1, NameSets DEF OwnNamespace
<1>5. Known \subseteq Known' /\ i \in Known'
  <2>1. created' = created /\ earlier' = earlier
    BY <1>1
  <2>2. \A u \in Installations : u \in Installed => u \in Installed'
    BY <1>0, <1>3, NameSets DEF Installed
  <2>3. i \in Installed'
    BY <1>0, <1>3 DEF Installed
  <2> QED
    BY <2>1, <2>2, <2>3 DEF Known, Installed
<1>6. \A u \in Writers :
         /\ u # i => pc'[u] = pc[u] \/ {pc[u], pc'[u]} \subseteq {"install", "body"}
         /\ pc'[i] = "body"
  BY <1>0, <1>1, <1>3
<1> QED
  BY <1>0, <1>1, <1>2, <1>4, <1>5, <1>6, AppendStep

\* A namespace is deleted, or not: a scenario's, or an installation's.
LEMMA GoneStep ==
  ASSUME IInv, NEW s \in Writers, pc[s] \in {"body", "failed"}, exists' \subseteq exists,
         \/ pc' = [pc EXCEPT ![s] = "remove"] /\ s \notin exists'
         \/ pc' = [pc EXCEPT ![s] = "done"],
         UNCHANGED <<snap, file, run, pruneTodo, observers>>
  PROVE  IInv'
<1>0. TypeOK /\ OwnNamespace
  BY DEF IInv
<1>1. TypeOK'
  BY <1>0 DEF TypeOK, observers
<1>2. \A u \in Writers : pc'[u] = IF u = s THEN pc'[s] ELSE pc[u]
  BY <1>0, Types
<1>3. pc'[s] \in {"remove", "done"} /\ (pc'[s] = "remove" => s \notin exists')
  BY <1>0, Types
<1>4. OwnNamespace'
  BY <1>0, <1>2, <1>3, NameSets DEF OwnNamespace, observers
<1>5. Known \subseteq Known'
  BY <1>2, <1>3, NameSets DEF Known, Installed, observers
<1>6. \A u \in Writers : pc'[u] = pc[u] \/ {pc[u], pc'[u]} \cap {"truncate", "write"} = {}
  BY <1>2, <1>3
<1>7. \A u \in created' \cap exists' :
         u \in created \cap exists /\ (pc[u] = "append" => pc'[u] = "append")
  BY <1>0, <1>2, Types DEF observers
<1> QED
  BY <1>1, <1>4, <1>5, <1>6, <1>7, QuietStep DEF observers

\* A removal reads the file.
LEMMA ReadStep == ASSUME NEW s \in Writers, IInv, RemoveRead(s) PROVE IInv'
<1>0. TypeOK /\ OwnNamespace /\ Lone /\ Provenance /\ CopyIsWhole /\ Coverage
  BY DEF IInv
<1>1. /\ pc[s] = "remove" /\ pc' = [pc EXCEPT ![s] = "truncate"]
      /\ \/ snap' = [snap EXCEPT ![s] = Without(file, s)] /\ UNCHANGED damaged
         \/ snap' = [snap EXCEPT ![s] = <<>>] /\ damaged' = TRUE
      /\ UNCHANGED <<file, exists, run, pruneTodo, earlier, created, missed, overlapped>>
  BY DEF RemoveRead, Goto, At
<1>2. Without(file, s) \in Seq(Lines) /\ ToSet(Without(file, s)) = ToSet(file) \ {s}
  BY <1>0, WithoutProperties, Types
<1>3. TypeOK'
  BY <1>0, <1>1, <1>2, EmptySeq DEF TypeOK
<1>4. /\ \A u \in Writers : pc'[u] = IF u = s THEN "truncate" ELSE pc[u]
      /\ \A u \in Writers \ {s} : snap'[u] = snap[u]
      /\ snap'[s] \in {Without(file, s), <<>>} /\ (damaged' \/ snap'[s] = Without(file, s))
      /\ damaged => damaged'
  BY <1>0, <1>1, Types
<1>5. OwnNamespace' /\ Lone'
  BY <1>0, <1>1, <1>4, NameSets DEF OwnNamespace, Lone
<1>6. Provenance'
  <2>1. Known' = Known
    BY <1>1, <1>4, NameSets DEF Known, Installed
  <2> QED
    BY <1>0, <1>1, <1>2, <1>4, <2>1, ToSetEmpty DEF Provenance
<1>7. CopyIsWhole'
  <2> SUFFICES ASSUME run = "on", ~overlapped, ~damaged', NEW u \in Writers, pc'[u] = "truncate"
               PROVE  \/ ToSet(file) \ {u} \subseteq ToSet(snap'[u])
                      \/ \E v \in Writers : pc'[v] = "write"
    BY <1>1 DEF CopyIsWhole
  <2>1. CASE u = s
    BY <1>2, <1>4, <2>1
  <2>2. CASE u # s
    <3>1. \/ ToSet(file) \ {u} \subseteq ToSet(snap[u])
          \/ \E v \in Writers : pc[v] = "write"
      BY <1>0, <1>4, <2>2 DEF CopyIsWhole
    <3> QED
      BY <1>1, <1>4, <2>2, <3>1
  <2> QED
    BY <2>1, <2>2
<1>8. Coverage'
  <2> SUFFICES ASSUME run # "pruned", ~overlapped, ~damaged', NEW u \in created \cap exists
               PROVE  Found(u)'
    BY <1>1 DEF Coverage
  <2>1. Found(u) /\ u \in Writers
    BY <1>0, <1>4, Types DEF Coverage
  <2> QED
    BY <1>1, <1>4, <2>1 DEF Found
<1> QED
  BY <1>3, <1>5, <1>6, <1>7, <1>8 DEF IInv

\* A removal truncates the file, or cannot open it.
LEMMA TruncateStep == ASSUME NEW s \in Writers, IInv, RemoveTruncate(s) PROVE IInv'
<1>0. TypeOK /\ OwnNamespace /\ Lone /\ Provenance /\ CopyIsWhole /\ Coverage
  BY DEF IInv
<1>1. /\ pc[s] = "truncate" /\ run = "on"
      /\ UNCHANGED <<snap, exists, run, pruneTodo, earlier, created, missed, damaged>>
      /\ \/ pc' = [pc EXCEPT ![s] = "write"] /\ file' = <<>> /\ Overlap(s)
         \/ pc' = [pc EXCEPT ![s] = "done"] /\ UNCHANGED <<file, overlapped>>
  BY DEF RemoveTruncate, Goto, At
<1>2. \A u \in Writers : pc'[u] = IF u = s THEN pc'[s] ELSE pc[u]
  BY <1>0, <1>1, Types
<1>3. pc'[s] \in {"write", "done"}
  BY <1>0, <1>1, Types
<1>4. overlapped' \in BOOLEAN
  BY <1>0, <1>1, Zenon, Types DEF Overlap
<1>5. TypeOK'
  BY <1>0, <1>1, <1>4, EmptySeq DEF TypeOK
<1>6. OwnNamespace'
  <2>1. exists' = exists /\ created' = created
    BY <1>1
  <2> QED
    BY <1>0, <1>1, <1>2, <1>3, <2>1, NameSets DEF OwnNamespace
<1>7. Known' = Known
  <2>1. Installed' = Installed
    BY <1>1, <1>2, <1>3, NameSets DEF Installed
  <2>2. created' = created /\ earlier' = earlier
    BY <1>1
  <2> QED
    BY <2>1, <2>2 DEF Known
<1>8. CASE pc'[s] = "done" /\ UNCHANGED <<file, overlapped>>
  <2>1. UNCHANGED <<snap, exists, run, pruneTodo, created, missed, damaged>>
    BY <1>1
  <2>2. Lone'
    BY <1>0, <1>2, <1>8, <2>1 DEF Lone
  <2>3. CopyIsWhole'
    BY <1>0, <1>1, <1>2, <1>8, <2>1 DEF CopyIsWhole
  <2>4. Provenance'
    BY <1>0, <1>7, <1>8, <2>1 DEF Provenance
  <2>5. Coverage'
    <3> SUFFICES ASSUME run # "pruned", ~overlapped, ~damaged, NEW u \in created \cap exists
                 PROVE  Found(u)'
      BY <1>8, <2>1 DEF Coverage
    <3>1. Found(u) /\ u \in Writers
      BY <1>0, Types DEF Coverage
    <3> QED
      BY <1>1, <1>2, <1>8, <2>1, <3>1 DEF Found
  <2> QED
    BY <1>5, <1>6, <2>2, <2>3, <2>4, <2>5 DEF IInv
<1>9. CASE pc'[s] = "write" /\ file' = <<>> /\ Overlap(s)
  <2>1. UNCHANGED <<snap, exists, run, pruneTodo, created, missed, damaged>>
    BY <1>1
  <2>2. ASSUME ~overlapped'
        PROVE  ~overlapped /\ \A u \in Writers \ {s} : pc[u] \notin {"truncate", "write"}
    BY <1>9, <2>2 DEF Overlap, Disturbed
  <2>3. Lone'
    BY <1>2, <1>9, <2>2 DEF Lone
  <2>4. CopyIsWhole'
    BY <1>9 DEF CopyIsWhole
  <2>5. Provenance'
    BY <1>0, <1>7, <1>9, <2>1, <2>2, ToSetEmpty DEF Provenance
  <2>6. Coverage'
    <3> SUFFICES ASSUME ~overlapped', ~damaged, NEW u \in created \cap exists
                 PROVE  Found(u)'
      BY <2>1 DEF Coverage
    <3>1. Found(u) /\ u \in Writers
      BY <1>0, <1>1, <2>2, Types DEF Coverage
    <3>2. ToSet(file) \ {s} \subseteq ToSet(snap[s])
      BY <1>0, <1>1, <2>2 DEF CopyIsWhole
    <3>3. u # s
      BY <1>0, <1>1 DEF OwnNamespace
    <3> QED
      BY <1>1, <1>2, <1>9, <2>1, <2>2, <3>1, <3>2, <3>3 DEF Found
  <2> QED
    BY <1>5, <1>6, <2>3, <2>4, <2>5, <2>6 DEF IInv
<1> QED
  BY <1>0, <1>1, <1>8, <1>9, Types

\* The copy is written back, or the write fails.
LEMMA WriteStep == ASSUME NEW s \in Writers, IInv, RemoveWrite(s) PROVE IInv'
<1>0. TypeOK /\ OwnNamespace /\ Lone /\ Provenance /\ CopyIsWhole /\ Coverage
  BY DEF IInv
<1>1. /\ pc[s] = "write" /\ run = "on" /\ pc' = [pc EXCEPT ![s] = "done"]
      /\ UNCHANGED <<snap, exists, run, pruneTodo, earlier, created, missed>>
      /\ \/ file' \in Overwritten(snap[s]) /\ Overlap(s) /\ UNCHANGED damaged
         \/ damaged' = TRUE /\ UNCHANGED <<file, overlapped>>
  BY DEF RemoveWrite, Goto, At
<1>2. \A u \in Writers : pc'[u] = IF u = s THEN "done" ELSE pc[u]
  BY <1>0, <1>1, Types
<1>3. UNCHANGED <<snap, exists, run, pruneTodo, earlier, created, missed>>
  BY <1>1
<1>4. OwnNamespace'
  BY <1>0, <1>1, <1>2, <1>3, NameSets DEF OwnNamespace
<1>5. Known' = Known
  <2>1. Installed' = Installed
    BY <1>1, <1>2, NameSets DEF Installed
  <2> QED
    BY <1>3, <2>1 DEF Known
<1>6. CASE file' \in Overwritten(snap[s]) /\ Overlap(s) /\ UNCHANGED damaged
  <2>1. file' \in Seq(Lines) /\ (file = <<>> => ToSet(file') = ToSet(snap[s]))
    BY <1>0, <1>6, OverwrittenProperties, Types
  <2>2. overlapped' \in BOOLEAN
    BY <1>6, Zenon DEF Overlap
  <2>3. TypeOK'
    BY <1>0, <1>1, <1>6, <2>1, <2>2 DEF TypeOK
  <2>4. ASSUME ~overlapped'
        PROVE  /\ ~overlapped /\ file = <<>> /\ ToSet(file') = ToSet(snap[s])
               /\ \A u \in Writers \ {s} : pc[u] \notin {"truncate", "write"}
    <3>1. ~overlapped /\ \A u \in Writers \ {s} : pc[u] \notin {"truncate", "write"}
      BY <1>6, <2>4 DEF Overlap, Disturbed
    <3> QED
      BY <1>0, <1>1, <2>1, <3>1 DEF Lone
  <2>5. ~overlapped' => \A u \in Writers : pc'[u] \notin {"truncate", "write"}
    BY <1>2, <2>4
  <2>6. Lone' /\ CopyIsWhole'
    BY <2>5 DEF Lone, CopyIsWhole
  <2>7. Provenance'
    BY <1>0, <1>3, <1>5, <2>4 DEF Provenance
  <2>8. Coverage'
    <3> SUFFICES ASSUME ~overlapped', ~damaged, NEW u \in created \cap exists
                 PROVE  Found(u)'
      BY <1>3, <1>6 DEF Coverage
    <3>1. Found(u) /\ u \in Writers
      BY <1>0, <1>1, <2>4, Types DEF Coverage
    <3> QED
      BY <1>1, <1>2, <1>3, <2>4, <3>1, ToSetEmpty DEF Found
  <2> QED
    BY <1>4, <2>3, <2>6, <2>7, <2>8 DEF IInv
<1>7. CASE damaged' = TRUE /\ UNCHANGED <<file, overlapped>>
  <2>1. TypeOK'
    BY <1>0, <1>1, <1>7 DEF TypeOK
  <2>2. Lone'
    BY <1>0, <1>2, <1>3, <1>7 DEF Lone
  <2>3. Provenance'
    BY <1>0, <1>3, <1>5, <1>7 DEF Provenance
  <2>4. CopyIsWhole' /\ Coverage'
    BY <1>7 DEF CopyIsWhole, Coverage
  <2> QED
    BY <1>4, <2>1, <2>2, <2>3, <2>4 DEF IInv
<1> QED
  BY <1>1, <1>6, <1>7

\* The run is over, and the prune command deletes what it finds in the history.
LEMMA PruneStep == IInv /\ (RunOver \/ Prune) => IInv'
<1> SUFFICES ASSUME IInv, RunOver \/ Prune PROVE IInv'
  OBVIOUS
<1>0. TypeOK /\ OwnNamespace /\ Provenance /\ Coverage
  BY DEF IInv
<1>1. /\ UNCHANGED <<pc, snap, earlier, created, missed, overlapped>> /\ exists' \subseteq exists
      /\ file' \in Seq(Lines) /\ ToSet(file') \subseteq ToSet(file)
      /\ pruneTodo' \in Seq(Lines) /\ ToSet(pruneTodo') \subseteq ToSet(pruneTodo) \cup ToSet(file)
      /\ run' \in {"over", "prune", "pruned"} /\ damaged' \in BOOLEAN /\ (damaged => damaged')
      /\ run' # "pruned" /\ ~damaged' /\ ~overlapped =>
            run # "pruned" /\ \A u \in exists' : u \in ToSet(file) => u \in ToSet(file')
  <2>1. CASE RunOver \/ PruneRead
    <3>1. /\ UNCHANGED <<pc, snap, file, exists, earlier, created, missed, overlapped, damaged>>
          /\ pruneTodo' \in {pruneTodo, file, <<>>}
          /\ run' \in {"over", "prune"} /\ run # "pruned"
      BY <2>1 DEF RunOver, PruneRead, observers
    <3>2. pruneTodo' \in Seq(Lines) /\ ToSet(pruneTodo') \subseteq ToSet(pruneTodo) \cup ToSet(file)
      BY <1>0, <3>1, EmptySeq, ToSetEmpty, Types
    <3>3. damaged' \in BOOLEAN /\ (damaged => damaged')
      BY <1>0, <3>1, Types
    <3>4. file' \in Seq(Lines)
      BY <1>0, <3>1, Types
    <3> QED
      BY <3>1, <3>2, <3>3, <3>4
  <2>2. CASE PruneDelete
    <3> DEFINE line == Head(pruneTodo)
    <3>1. /\ run = "prune" /\ pruneTodo # <<>> /\ pruneTodo' = Tail(pruneTodo)
          /\ UNCHANGED <<pc, snap, run, earlier, created, missed, overlapped>>
          /\ \/ /\ \E s \in Named(line) : exists' = exists \ {s}
                /\ \/ file' = Without(file, line) /\ UNCHANGED damaged
                   \/ file' = <<>> /\ damaged' = TRUE
                   \/ UNCHANGED <<file, damaged>>
             \/ UNCHANGED <<exists, file, damaged>>
      BY <2>2 DEF PruneDelete
    <3>2. /\ Tail(pruneTodo) \in Seq(Lines) /\ line \in ToSet(pruneTodo)
          /\ ToSet(Tail(pruneTodo)) \subseteq ToSet(pruneTodo)
      BY <1>0, <3>1, ToSetTail, Types
    <3>3. Without(file, line) \in Seq(Lines) /\ ToSet(Without(file, line)) = ToSet(file) \ {line}
      BY <1>0, WithoutProperties, Types
    <3>4. ~overlapped => line # Torn
      BY <1>0, <3>2, KnownNames, NameSets DEF Provenance
    <3> HIDE DEF line
    <3>5. exists' \subseteq exists /\ run' = "prune"
      BY <3>1
    <3>6. /\ file' \in Seq(Lines) /\ ToSet(file') \subseteq ToSet(file)
          /\ damaged' \in BOOLEAN /\ (damaged => damaged')
      <4>1. damaged' \in BOOLEAN /\ (damaged => damaged')
        <5>1. damaged \in BOOLEAN
          BY <1>0, Types
        <5>2. damaged' = damaged \/ damaged' = TRUE
          BY <3>1, Zenon
        <5> QED
          BY <5>1, <5>2, Zenon
      <4>2. file' \in {file, <<>>, Without(file, line)}
        BY <3>1, Zenon
      <4> QED
        BY <1>0, <3>3, <4>1, <4>2, EmptySeq, ToSetEmpty, Types
    <3>7. ASSUME ~damaged', ~overlapped, NEW u \in exists', u \in ToSet(file) PROVE u \in ToSet(file')
      <4>1. CASE UNCHANGED file
        BY <3>7, <4>1
      <4>2. CASE ~UNCHANGED file
        <5>1. file' = Without(file, line) /\ \E s \in Named(line) : exists' = exists \ {s}
          BY <3>1, <3>7, <4>2
        <5>2. u # line
          BY <3>4, <3>7, <5>1 DEF Named
        <5> QED
          BY <3>3, <3>7, <5>1, <5>2
      <4> QED
        BY <4>1, <4>2
    <3> QED
      BY <3>1, <3>2, <3>5, <3>6, <3>7
  <2>3. CASE PruneClear
    BY <1>0, <2>3, EmptySeq, ToSetEmpty, Types DEF PruneClear, observers
  <2> QED
    BY <2>1, <2>2, <2>3 DEF Prune
<1>2. TypeOK'
  BY <1>0, <1>1 DEF TypeOK
<1>3. OwnNamespace'
  BY <1>0, <1>1 DEF OwnNamespace
<1>4. Lone' /\ CopyIsWhole'
  BY <1>1 DEF Lone, CopyIsWhole
<1>5. Provenance'
  BY <1>0, <1>1 DEF Provenance, Known, Installed
<1>6. Coverage'
  <2> SUFFICES ASSUME run' # "pruned", ~overlapped, ~damaged', NEW u \in created \cap exists'
               PROVE  Found(u)'
    BY <1>1 DEF Coverage
  <2>1. Found(u)
    BY <1>0, <1>1, Types DEF Coverage
  <2> QED
    BY <1>1, <2>1 DEF Found
<1> QED
  BY <1>2, <1>3, <1>4, <1>5, <1>6 DEF IInv

\* Every step keeps the invariant.
LEMMA StepIInv == IInv /\ [Next]_vars => IInv'
<1> SUFFICES ASSUME IInv, [Next]_vars PROVE IInv'
  OBVIOUS
<1>1. ASSUME NEW s \in Scenarios, Scenario(s) PROVE IInv'
  <2>1. CASE DeleteNamespace(s)
    <3>1. /\ pc[s] = "body" /\ UNCHANGED <<snap, file, run, pruneTodo, observers>>
          /\ \/ pc' = [pc EXCEPT ![s] = "remove"] /\ exists' = exists \ {s}
             \/ pc' = [pc EXCEPT ![s] = "done"] /\ UNCHANGED exists
      BY <2>1 DEF DeleteNamespace, Goto, At
    <3>2. exists' \subseteq exists /\ (s \notin exists' \/ pc' = [pc EXCEPT ![s] = "done"])
      BY <3>1
    <3> QED
      BY <3>1, <3>2, GoneStep, NameSets
  <2>2. CASE ~DeleteNamespace(s)
    BY <1>1, <2>2, CreateStep, AddStep, InstallStep, RecordStep DEF Scenario
  <2> QED
    BY <2>1, <2>2
<1>2. ASSUME NEW i \in Installations, UninstallClusterYaml(i) PROVE IInv'
  <2>1. PICK from \in {"body", "failed"} :
               \/ Goto(i, from, "remove") /\ exists' = exists \ {i}
               \/ Goto(i, from, "done") /\ exists' \in {exists, exists \ {i}}
    BY <1>2 DEF UninstallClusterYaml
  <2>2. /\ pc[i] \in {"body", "failed"}
        /\ exists' \subseteq exists
        /\ \/ pc' = [pc EXCEPT ![i] = "remove"] /\ i \notin exists'
           \/ pc' = [pc EXCEPT ![i] = "done"]
    BY <2>1 DEF Goto, At
  <2>3. UNCHANGED <<snap, file, run, pruneTodo, observers>>
    BY <1>2 DEF UninstallClusterYaml
  <2> QED
    BY <2>2, <2>3, GoneStep, NameSets
<1>3. ASSUME NEW s \in Writers, RemoveLine(s) PROVE IInv'
  BY <1>3, ReadStep, TruncateStep, WriteStep DEF RemoveLine
<1>4. CASE UNCHANGED vars
  <2>1. UNCHANGED <<pc, snap, file, exists, run, pruneTodo, earlier, created, missed,
                    overlapped, damaged>>
    BY <1>4 DEF vars, observers
  <2>2. TypeOK' /\ OwnNamespace' /\ Known' = Known
    BY <2>1 DEF IInv, TypeOK, OwnNamespace, Known, Installed
  <2>3. Lone' /\ Provenance' /\ CopyIsWhole' /\ Coverage'
    BY <2>1, <2>2 DEF IInv, Lone, Provenance, CopyIsWhole, Coverage, Found
  <2> QED
    BY <2>2, <2>3 DEF IInv
<1> QED
  BY <1>1, <1>2, <1>3, <1>4, PruneStep DEF Next, Terminated

\* The inductive invariant of the history.
THEOREM Invariance == Spec => []IInv
<1> QED
  BY InitIInv, StepIInv, PTL DEF Spec

\* The writers, the file, the cluster and the observers keep their types.
THEOREM TypeCorrect == Spec => []TypeOK
<1>1. IInv => TypeOK
  BY DEF IInv
<1> QED
  BY <1>1, Invariance, PTL

\* A line of a live namespace of the run is missing from the history only when its hook, a
\* read or a write has failed, when it is about to be appended, or when the file was written
\* between the read and the write of a removal; at whatever point the run is killed.
THEOREM LossExplained == Spec => []LostOnlyByOverlap
<1>1. IInv => LostOnlyByOverlap
  <2> SUFFICES ASSUME IInv, run # "pruned", ~overlapped, ~damaged,
                      NEW s \in (created \cap exists) \ missed, pc[s] # "append"
               PROVE  s \in Recorded
    BY DEF LostOnlyByOverlap
  <2>1. Found(s)
    BY DEF IInv, Coverage
  <2> QED
    BY <2>1 DEF Found, Recorded
<1> QED
  BY <1>1, Invariance, PTL

\* While no removal was disturbed, PruneNamespaces deletes only namespaces this run has
\* created or installed into, and those earlier runs have recorded, whatever has failed and
\* wherever the run was killed.
THEOREM SparesForeign == Spec => PruneSparesForeign
<1>1. IInv /\ [Next]_vars =>
         [run = "prune" /\ ~overlapped
             => exists \ exists' \subseteq created \cup earlier \cup Installed]_vars
  <2> SUFFICES ASSUME IInv, Next, run = "prune", ~overlapped
               PROVE  exists \ exists' \subseteq Known
    BY DEF vars, Known
  <2>0. TypeOK /\ ToSet(pruneTodo) \subseteq Known
    BY DEF IInv, Provenance
  <2>1. CASE PruneDelete
    <3>1. pruneTodo # <<>>
      BY <2>1 DEF PruneDelete
    <3>2. Head(pruneTodo) \in Known /\ Head(pruneTodo) # Torn
      BY <2>0, <3>1, ToSetTail, KnownNames, NameSets, Types
    <3>3. \/ exists' = exists
          \/ \E s \in Named(Head(pruneTodo)) : exists' = exists \ {s}
      BY <2>1 DEF PruneDelete
    <3> QED
      BY <3>2, <3>3 DEF Named
  <2>2. CASE RunOver \/ PruneRead \/ PruneClear \/ Terminated
    BY <2>2 DEF RunOver, PruneRead, PruneClear, Terminated, vars, observers
  <2>3. ASSUME NEW s \in Scenarios PROVE ~Scenario(s)
    BY DEF Scenario, CreateNamespace, AddToHistory, DeleteNamespace, InstallClusterYaml,
       RecordInstallation, Goto, At
  <2>4. ASSUME NEW s \in Writers PROVE ~RemoveLine(s)
    BY DEF RemoveLine, RemoveRead, RemoveTruncate, RemoveWrite, Goto, At
  <2>5. ASSUME NEW i \in Installations PROVE ~UninstallClusterYaml(i)
    BY DEF UninstallClusterYaml, Goto, At
  <2> QED
    BY <2>1, <2>2, <2>3, <2>4, <2>5 DEF Next, Prune
<1> QED
  BY <1>1, Invariance, PTL DEF Spec, PruneSparesForeign, Known
=============================================================================
