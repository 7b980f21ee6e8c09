----------------------------- MODULE MCScaleBuffer ----------------------------
(***************************************************************************)
(* Small instances of ScaleBuffer for TLC; workers are interchangeable.    *)
(***************************************************************************)
EXTENDS ScaleBuffer, TLC

Symmetry == Permutations(Workers)
=============================================================================
