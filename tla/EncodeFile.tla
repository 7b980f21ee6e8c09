----------------------------- MODULE EncodeFile ------------------------------
(***************************************************************************)
(* encode_file_loop (lib/session.c): read raw frames, scale, encode, mux.  *)
(***************************************************************************)
EXTENDS EncodeStage

VARIABLE next      \* the next raw frame of the file, also its pts + 1

vars == <<runVars, encVars, next>>

Init ==
  /\ RunInit
  /\ EncInit
  /\ next = 1

-----------------------------------------------------------------------------
(* The loop condition.                                                     *)
MutStopSeenReturns ==   \* a stop request returns at once
  /\ pc = "head" /\ stop
  /\ Finish("ok")
  /\ UNCHANGED <<stop, port, pulled, encVars, next>>

StopSeen ==
  /\ pc = "head" /\ stop
  /\ pc' = "flush"
  /\ UNCHANGED <<stop, result, port, pulled, encVars, next>>

(* A host frame is allocated, filled from the file and scaled.             *)
MutLoadFramePast ==   \* takes the short read at the end for a frame
  /\ pc = "head" /\ ~stop
  /\ next <= Last + 1
  /\ next' = next + 1
  /\ work' = next
  /\ held' = IF Scaling THEN {"frame", "scaled"} ELSE {"frame"}
  /\ framesIn' = framesIn + 1
  /\ pc' = "send"
  /\ UNCHANGED <<stop, result, port, pulled, backend, enc, blanks, site,
                 answer, fetched, written, missed, framesOut>>

LoadFrame ==
  /\ pc = "head" /\ ~stop
  /\ next <= Last
  /\ next' = next + 1
  /\ work' = next
  /\ held' = IF Scaling THEN {"frame", "scaled"} ELSE {"frame"}
  /\ framesIn' = framesIn + 1
  /\ pc' = "send"
  /\ UNCHANGED <<stop, result, port, pulled, backend, enc, blanks, site,
                 answer, fetched, written, missed, framesOut>>

(* A short read is the end of the file.                                    *)
LoadEof ==
  /\ pc = "head" /\ ~stop
  /\ next > Last
  /\ pc' = "flush"
  /\ UNCHANGED <<stop, result, port, pulled, encVars, next>>

(* Out of memory before or while a frame is loaded: the loop breaks, and   *)
(* since loop_err was not set the run goes on to the flush.                *)
LoadFails ==
  /\ pc = "head" /\ ~stop
  /\ Fails("alloc")
  /\ pc' = "flush"
  /\ UNCHANGED <<stop, result, port, pulled, encVars, next>>

(* The same when the scaler fails, after the frame was counted.            *)
ScaleFails ==
  /\ pc = "head" /\ ~stop
  /\ next <= Last
  /\ Scaling /\ Fails("scale")
  /\ next' = next + 1
  /\ framesIn' = framesIn + 1
  /\ pc' = "flush"
  /\ UNCHANGED <<stop, result, port, pulled, backend, enc, blanks, work, held,
                 site, answer, fetched, written, missed, framesOut>>

-----------------------------------------------------------------------------
LoopStep ==
  \/ StopSeen \/ LoadFrame \/ LoadEof \/ LoadFails \/ ScaleFails
  \/ (EncodeStep /\ UNCHANGED next)

Returned == pc = "done" /\ UNCHANGED vars

Next ==
  \/ LoopStep
  \/ (EncoderWorks \/ EncoderBlank \/ Outside) /\ UNCHANGED next
  \/ Returned

Spec == Init /\ [][Next]_vars

-----------------------------------------------------------------------------
TypeOK ==
  /\ EncTypeOK
  /\ pc \in {"head", "send", "drain", "flush", "tail", "done"}
  /\ next \in 1 .. Last + 1
=============================================================================
