----------------------------- MODULE MCPortQueue -----------------------------
(***************************************************************************)
(* Small instances of PortQueue for TLC.  Both runs check liveness, so no  *)
(* symmetry is declared.                                                   *)
(***************************************************************************)
EXTENDS PortQueue
=============================================================================
