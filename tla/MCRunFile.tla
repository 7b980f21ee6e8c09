------------------------------ MODULE MCRunFile ------------------------------
(* Small instances of RunFile for TLC: files of three or four frames.      *)
EXTENDS RunFile
=============================================================================
