--------------------------- MODULE MCCommandSync ---------------------------
(***************************************************************************)
(* TLC instances of CommandSync: four commands, with syncIDs a and b or    *)
(* without one.                                                            *)
(***************************************************************************)
EXTENDS CommandSync, TLC

CONSTANTS t1, t2, t3, t4, a, b

TwoSyncIDs == t1 :> a @@ t2 :> a @@ t3 :> b @@ t4 :> Nil

SomeRetries == t1 :> 2 @@ t2 :> 0 @@ t3 :> 1 @@ t4 :> 1
=============================================================================
