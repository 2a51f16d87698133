------------------------- MODULE MCNamespaceHistory -------------------------
(***************************************************************************)
(* TLC instances of NamespaceHistory: earlier runs have left nothing, or a *)
(* namespace of their own, or the same installation's.                     *)
(***************************************************************************)
EXTENDS NamespaceHistory, TLC

MCHistories == {<<>>} \cup {<<n>> : n \in Others \cup Installations}

Symmetry == Permutations(Scenarios)
=============================================================================
