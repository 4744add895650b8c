----------------------------- MODULE MCKabiScan -----------------------------
(***************************************************************************)
(* KabiScan for TLC: the model values are in scan.cfg.                     *)
(***************************************************************************)
EXTENDS KabiScan
=============================================================================
