---------------------------- MODULE MCFrameRound -----------------------------
(* A small instance of FrameRound for TLC.                                 *)
EXTENDS FrameRound
=============================================================================
