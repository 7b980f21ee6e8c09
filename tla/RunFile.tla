------------------------------- MODULE RunFile -------------------------------
(***************************************************************************)
(* rkvc_session_run_file (lib/session.c) for the templates that encode: it *)
(* takes the loop of the session's template, transcode_loop or             *)
(* encode_file_loop.  Both share the encoder, the muxer and the port.      *)
(***************************************************************************)
EXTENDS EncodeStage, DecodeStage

VARIABLE template   \* "transcode" (also AV1 storage, live capture) or "encode"

vars == <<runVars, encVars, decVars, template>>

T == INSTANCE Transcode
E == INSTANCE EncodeFile

Init ==
  /\ T!Init
  /\ template \in {"transcode", "encode"}

Transcodes ==
  /\ template = "transcode"
  /\ T!Next
  /\ UNCHANGED template

Encodes ==
  /\ template = "encode"
  /\ E!Next
  /\ UNCHANGED <<dec, sent, template>>

Next == Transcodes \/ Encodes

(* The loop thread of the template runs, and the codecs finish what they   *)
(* hold; nobody is obliged to stop the run or to pull from the port.       *)
Transcoding(A) == template = "transcode" /\ A /\ UNCHANGED template
Encoding(A) == template = "encode" /\ A /\ UNCHANGED <<dec, sent, template>>

FairSpec ==
  /\ Init /\ [][Next]_vars
  /\ WF_vars(Transcoding(Succeeds(T!LoopStep)))
  /\ WF_vars(Transcoding(T!DecoderWorks))
  /\ WF_vars(Transcoding(EncoderWorks /\ UNCHANGED decVars))
  /\ WF_vars(Encoding(Succeeds(E!LoopStep)))
  /\ WF_vars(Encoding(EncoderWorks /\ UNCHANGED next))

-----------------------------------------------------------------------------
TypeOK ==
  /\ template \in {"transcode", "encode"}
  /\ template = "transcode" => T!TypeOK
  /\ template = "encode" => E!TypeOK

(* A transcoding run that returns RKVC_OK and that nobody stopped took     *)
(* every frame the decoder was given through the encoder, and unless a     *)
(* write failed or SVT-AV1's node lost a packet, the file holds all of     *)
(* them, in order, whatever is refused or retried (session.c:477-527).     *)
AllSentIsWritten == template = "transcode" => T!AllSentIsWritten

(* A transcoding run that returns RKVC_OK got a packet for every frame it  *)
(* counted in, also when it was stopped in the middle: the encoder is      *)
(* always drained (session.c:506-527).  And frames_out counts each of      *)
(* these packets, in both templates: a packet that a node took and lost    *)
(* fails the run, except where the loop waits for the decoder and empties  *)
(* SVT-AV1 meanwhile, for it ignores the error there (session.c:480-482).  *)
StatsAgree ==
  result = "ok" =>
    /\ template = "transcode" => fetched = framesIn
    /\ framesOut # fetched => template = "transcode" /\ backend = "svt"

(* A run that returns RKVC_OK, stopped or not, left no hole: as long as    *)
(* every write worked, the file holds one packet for each that was counted *)
(* out, and unless SVT-AV1's node lost one, these are the first frames of  *)
(* the raw input, or of what the decoder took, and nothing is missing in   *)
(* between (session.c:441-453, 511-527, 734-750).                          *)
NoHoles ==
  result = "ok" /\ missed = {} =>
    /\ Len(written) = framesOut
    /\ fetched = framesOut =>
         written = IF template = "transcode" THEN SubSeq(sent, 1, framesOut)
                                             ELSE [i \in 1 .. framesOut |-> i]

(* The encoder was not told the end of its input: the call failed, or      *)
(* SVT-AV1 was full and refused.  Nobody looks at the answer               *)
(* (session.c:506-509, 729-732), and the final loop waits for ever.  That  *)
(* RKMPP refuses is not among the reasons.                                 *)
Untold == answer = "failed" \/ (answer = "refused" /\ backend = "svt")

(* The run ends, whether it is stopped or not and whoever fails, but for   *)
(* the encoder that was not told: no loop asks for ever for a frame or     *)
(* packet that does not come (session.c:460-527, 691-750).                 *)
Terminates == <>(pc = "done" \/ Untold)

-----------------------------------------------------------------------------
(* What the application sees of a run is a transfer: the frames counted in *)
(* are delivered in order and once each to file and port, each delivery    *)
(* goes on where the last one ended, and RKVC_OK comes only when all are   *)
(* over (session.c:406-527, 672-753).  A packet that the encoder's node    *)
(* loses is a delivery that failed (StatsAgree says where the application  *)
(* is not told).  encode_file_loop loses a frame that it cannot scale and  *)
(* ends with RKVC_OK (session.c:700-712).                                  *)
Promise ==
  INSTANCE Transfer WITH
    Frames <- 1 .. Last,
    lossy <- template = "encode" /\ Scaling /\ Fails("scale"),
    accepted <- IF template = "transcode" THEN SubSeq(sent, 1, framesIn)
                                          ELSE [i \in 1 .. framesIn |-> i],
    done <- fetched,
    shown <- pulled \o port,
    outcome <- result

IsTransfer == Promise!Spec

(* Whatever the loops do to the output port and the consumer takes from    *)
(* it, they use it as the bounded queue that PortQueue implements: what    *)
(* is known of that queue holds for the port of a run (session.c:424,      *)
(* port.c:134-146).  Each item is taken by a reader of its own.            *)
Port ==
  INSTANCE BoundedFifo WITH
    Items <- 1 .. Last,
    Readers <- 1 .. Last,
    Bound <- PortDepth,
    None <- 0,
    queue <- port,
    taken <- [r \in 1 .. Last |-> IF r \in DOMAIN pulled THEN pulled[r] ELSE 0],
    closed <- FALSE

PortIsFifo == Port!Spec

(* How much is left to do: each packet, frame, blank and request is worth  *)
(* the steps it can still cause, and each place of the loop the steps to   *)
(* the next read.                                                          *)
StepsFrom ==
  CASE pc = "done" -> 0 [] pc = "tail" -> 1 [] pc = "flush" -> 2
    [] pc = "head" -> IF dec.eos THEN 4 ELSE 3
    [] pc = "receive" -> IF dec.eos THEN 3 ELSE 6
    [] pc = "drain" -> IF site = "retry" THEN 9 ELSE 5
    [] pc = "send" -> 9 [] pc = "scale" -> 10

Feeding ==
  13 * (Last + 1 - next) + 9 * Len(dec.pending) + 8 * Len(dec.ready)
    + (IF dec.eos THEN 0 ELSE 1)

Coding ==
  3 * (MaxBlanks - blanks) + 3 * Len(enc.pending) + 2 * Len(enc.ready)
    + Len(port)

Work == Feeding + Coding + StepsFrom + (IF stop THEN 0 ELSE 1)

(* SVT-AV1 is full: the loop drains it and sends the frame again.          *)
Retrying ==
  /\ backend = "svt"
  /\ \/ pc = "send" /\ Len(enc.pending) >= EncQueue
     \/ pc = "drain" /\ site = "retry"

(* The loop never waits for what cannot come: wherever it asks the         *)
(* encoder, an answer is there or the encoder has work left.               *)
NoStall ==
  /\ pc = "drain" => Nothing \/ enc.ready # <<>>
  /\ pc = "tail" /\ ~Untold => AtEnd \/ enc.ready # <<>> \/ enc.pending # <<>>

(* The safety half of termination.  Every step uses up work, of which      *)
(* there is only so much, so no round of any loop is repeated without      *)
(* progress, but for the retry of a frame SVT-AV1 refuses                  *)
(* (session.c:443-451), which leaves the work as it was, as the final loop *)
(* does for an encoder that was not told; and the loop never stalls        *)
(* (session.c:460-527, 691-750).                                           *)
Progress ==
  /\ [][Work' < Work \/ ((Retrying \/ Untold) /\ Work' = Work)]_vars
  /\ [](Work \in Nat /\ NoStall)
=============================================================================
