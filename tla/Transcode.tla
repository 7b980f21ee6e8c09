------------------------------ MODULE Transcode ------------------------------
(***************************************************************************)
(* transcode_loop (lib/session.c): demux, decode, scale, encode, mux in    *)
(* one thread.  Each round feeds the decoder at most one packet and reads  *)
(* at most one frame from it.                                              *)
(***************************************************************************)
EXTENDS EncodeStage, DecodeStage

vars == <<runVars, encVars, decVars>>

Init ==
  /\ RunInit
  /\ EncInit
  /\ DecInit

-----------------------------------------------------------------------------
(* The decoder's own threads.                                              *)
DecoderWorks ==
  /\ pc # "done"
  /\ dec.pending # <<>>
  /\ dec' = Made(dec)
  /\ UNCHANGED <<runVars, encVars, next, sent>>

(* The loop condition: a stop request goes straight to the flush.          *)
MutStopSeenReturns ==   \* a stop request returns at once
  /\ pc = "head" /\ stop
  /\ Finish("ok")
  /\ UNCHANGED <<stop, port, pulled, encVars, decVars>>

StopSeen ==
  /\ pc = "head" /\ stop
  /\ pc' = "flush"
  /\ UNCHANGED <<stop, result, port, pulled, encVars, decVars>>

ReceiveFrame ==
  /\ pc = "receive"
  /\ HasFrame
  /\ dec' = Gave(dec)
  /\ work' = Head(dec.ready)
  /\ held' = {"frame"}
  /\ framesIn' = framesIn + 1
  /\ pc' = "scale"
  /\ UNCHANGED <<stop, result, port, pulled, backend, enc, blanks, site,
                 answer, fetched, written, missed, framesOut, next, sent>>

(* No frame yet.  With SVT-AV1 the loop collects packets meanwhile.        *)
ReceiveNothing ==
  /\ pc = "receive"
  /\ NoFrameYet
  /\ dec' = [dec EXCEPT !.settled = TRUE]
  /\ IF backend = "svt" THEN pc' = "drain" /\ site' = "idle"
                        ELSE pc' = "head" /\ UNCHANGED site
  /\ UNCHANGED <<stop, result, port, pulled, backend, enc, blanks, work, held,
                 answer, fetched, written, missed, framesIn, framesOut, next,
                 sent>>

MutReceiveEndReturns ==   \* forgets the encoder's flush
  /\ pc = "receive"
  /\ NoMoreFrames
  /\ Finish("ok")
  /\ UNCHANGED <<stop, port, pulled, encVars, decVars>>

ReceiveEnd ==
  /\ pc = "receive"
  /\ NoMoreFrames
  /\ pc' = "flush"
  /\ UNCHANGED <<stop, result, port, pulled, encVars, decVars>>

(* session_downscale_for_encode.                                           *)
MutScaleKeepsFrame ==   \* the error path forgets the frame
  /\ pc = "scale"
  /\ \/ /\ pc' = "send"
        /\ held' = IF Scaling THEN held \cup {"scaled"} ELSE held
        /\ UNCHANGED <<work, result>>
     \/ /\ Scaling /\ Fails("scale")
        /\ Finish("fail")
        /\ UNCHANGED held
        /\ work' = 0
  /\ UNCHANGED <<stop, port, pulled, backend, enc, blanks, site, answer,
                 fetched, written, missed, framesIn, framesOut, decVars>>

Scale ==
  /\ pc = "scale"
  /\ \/ /\ pc' = "send"
        /\ held' = IF Scaling THEN held \cup {"scaled"} ELSE held
        /\ UNCHANGED <<work, result>>
     \/ /\ Scaling /\ Fails("scale")
        /\ Finish("fail")
        /\ held' = {}
        /\ work' = 0
  /\ UNCHANGED <<stop, port, pulled, backend, enc, blanks, site, answer,
                 fetched, written, missed, framesIn, framesOut, decVars>>

-----------------------------------------------------------------------------
LoopStep ==
  \/ StopSeen \/ ReceiveFrame \/ ReceiveNothing \/ ReceiveEnd \/ Scale
  \/ (FeedStep /\ UNCHANGED encVars)
  \/ (EncodeStep /\ UNCHANGED decVars)

(* run_file has returned and the consumer is gone: the end.                *)
Returned == pc = "done" /\ UNCHANGED vars

Next ==
  \/ LoopStep
  \/ DecoderWorks
  \/ (EncoderWorks \/ EncoderBlank \/ Outside) /\ UNCHANGED decVars
  \/ Returned

Spec == Init /\ [][Next]_vars

-----------------------------------------------------------------------------
TypeOK ==
  /\ EncTypeOK
  /\ pc \in {"head", "receive", "scale", "send", "drain", "flush", "tail", "done"}
  /\ DecTypeOK

(* A run that returns RKVC_OK and that nobody stopped took every frame the *)
(* decoder was given through the encoder, and unless a write failed or     *)
(* SVT-AV1's node lost a packet, the file holds all of them, in order,     *)
(* whatever is refused or retried (session.c:477-527).                     *)
AllSentIsWritten ==
  result = "ok" /\ ~stop =>
    /\ next > Last /\ fetched = Len(sent)
    /\ missed = {} /\ fetched = framesOut => written = sent
=============================================================================
