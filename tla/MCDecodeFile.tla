----------------------------- MODULE MCDecodeFile ----------------------------
(* Small instances of DecodeFile for TLC: files of three or four packets.  *)
EXTENDS DecodeFile
=============================================================================
