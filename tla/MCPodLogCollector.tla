-------------------------- MODULE MCPodLogCollector --------------------------
(***************************************************************************)
(* TLC instances of PodLogCollector.                                       *)
(***************************************************************************)
EXTENDS PodLogCollector, TLC

\* Pods and the containers of a pod are interchangeable.
Symmetry == Permutations(Pods) \cup Permutations(Containers)
=============================================================================
