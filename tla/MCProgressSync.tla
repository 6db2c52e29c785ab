--------------------------- MODULE MCProgressSync ---------------------------
(***************************************************************************)
(* Instances of ProgressSync for TLC: the configurations name the phones   *)
(* and the server threads as model values.                                 *)
(***************************************************************************)
EXTENDS ProgressSync, TLC

CONSTANTS d1, w1, w2
=============================================================================
