--------------------------- MODULE MCOlmOperators ---------------------------
(***************************************************************************)
(* TLC instance of OlmOperators: two scenarios, which is enough for every  *)
(* race of CreateIfNotExists and of the deletions; a channel with two      *)
(* versions, so that OLM upgrades once between any two calls.              *)
(***************************************************************************)
EXTENDS OlmOperators
=============================================================================
