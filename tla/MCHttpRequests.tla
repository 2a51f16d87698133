--------------------------- MODULE MCHttpRequests ---------------------------
(***************************************************************************)
(* TLC instance of HttpRequests: every kind of step, up to three attempts, *)
(* two threads with one or two requests each, or an odd number of them.    *)
(***************************************************************************)
EXTENDS HttpRequests
=============================================================================
