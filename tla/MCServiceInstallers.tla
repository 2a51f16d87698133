------------------------ MODULE MCServiceInstallers ------------------------
(***************************************************************************)
(* TLC instances of ServiceInstallers: two scenarios, in namespaces of     *)
(* their own.                                                              *)
(***************************************************************************)
EXTENDS ServiceInstallers, TLC

CONSTANTS t1, t2, n1, n2

OwnNs == t1 :> n1 @@ t2 :> n2

Installs == t1 :> 2 @@ t2 :> 1
=============================================================================
