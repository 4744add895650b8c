----------------------------- MODULE MCKabiGraph -----------------------------
(***************************************************************************)
(* Two sources that make compiles at the same time, and every sequence of  *)
(* runs of kabi-graph.  No action tells one source from another.           *)
(***************************************************************************)
EXTENDS KabiGraph, TLC

AnySource == Permutations(Sources)
=============================================================================
