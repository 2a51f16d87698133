---------------------------- MODULE MCPagedQuery ----------------------------
(***************************************************************************)
(* TLC instances of PagedQuery: pages of two, and from none to five        *)
(* instances, so that the last page is full, is not full, or is missing.   *)
(***************************************************************************)
EXTENDS PagedQuery

UpToFive == 0 .. 5
=============================================================================
