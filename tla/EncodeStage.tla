----------------------------- MODULE EncodeStage -----------------------------
(***************************************************************************)
(* The encoding half of transcode_loop and encode_file_loop: one frame in  *)
(* (encode_one_frame), all finished packets out (drain_encoder_packets),   *)
(* and the flush at the end of the file.  The encoder is either RKMPP      *)
(* through FFmpeg (node_mpp_enc.c) or SVT-AV1 (node_svt_enc.c); the muxer  *)
(* is node_mux.c.  A packet has the number of its frame; 0 is an SVT       *)
(* packet without data.                                                    *)
(***************************************************************************)
EXTENDS FileRun

CONSTANTS
  Backends,   \* the encoders a session's route may have: "mpp", "svt"
  Scaling,    \* frames are scaled before they are encoded
  EncQueue,   \* frames SVT-AV1 queues, and packets it queues
  MaxBlanks   \* bound: packets without data in one run

ASSUME EncodeAssumption ==
  /\ Backends \subseteq {"mpp", "svt"}
  /\ Scaling \in BOOLEAN
  /\ EncQueue \in Nat \ {0}
  /\ MaxBlanks \in Nat

VARIABLES
  backend,    \* which of s->enc and s->svt is open
  enc,        \* the encoder
  blanks,     \* packets without data so far
  work,       \* the frame in encode_one_frame, 0 for none
  held,       \* references the loop owns: "frame", "scaled"
  site,       \* who called drain_encoder_packets: "sent", "retry", "idle"
  answer,     \* history: what the encoder said to the flush
  fetched,    \* history: how many packets the node took from the encoder
  written,    \* history: packets the muxer accepted
  missed,     \* history: where a write failed: "loop", "tail"
  framesIn, framesOut   \* stats.frames_in, stats.frames_out

encVars == <<backend, enc, blanks, work, held, site, answer, fetched, written,
             missed, framesIn, framesOut>>

EncInit ==
  /\ backend \in Backends
  /\ enc = NewCodec
  /\ blanks = 0
  /\ work = 0
  /\ held = {}
  /\ site = "sent"
  /\ answer = "none" /\ fetched = 0
  /\ written = <<>> /\ missed = {}
  /\ framesIn = 0 /\ framesOut = 0

-----------------------------------------------------------------------------
(* The encoder's own threads.                                              *)

(* SVT-AV1 has room for so many pictures; FFmpeg takes whatever it may not *)
(* refuse.                                                                 *)
EncRefuses == IF backend = "mpp" THEN MayRefuse(enc) ELSE Len(enc.pending) >= EncQueue
EncAccepts == backend = "mpp" \/ Len(enc.pending) < EncQueue

EncoderWorks ==
  /\ pc # "done"
  /\ enc.pending # <<>> /\ Len(enc.ready) < EncQueue
  /\ enc' = Made(enc)
  /\ UNCHANGED <<runVars, backend, blanks, work, held, site, answer, fetched,
                 written, missed, framesIn, framesOut>>

(* SVT-AV1 hands out a packet without data (n_filled_len = 0).             *)
EncoderBlank ==
  /\ pc # "done"
  /\ backend = "svt" /\ blanks < MaxBlanks
  /\ enc.pending # <<>> /\ Len(enc.ready) < EncQueue
  /\ enc' = [enc EXCEPT !.ready = Append(@, 0)]
  /\ blanks' = blanks + 1
  /\ UNCHANGED <<runVars, backend, work, held, site, answer, fetched,
                 written, missed, framesIn, framesOut>>

-----------------------------------------------------------------------------
(* rkvc_mpp_enc_receive_packet, rkvc_svt_enc_receive_packet: how the       *)
(* encoder answers.                                                        *)
HasBlank  == enc.ready # <<>> /\ Head(enc.ready) = 0
HasPacket == enc.ready # <<>> /\ Head(enc.ready) # 0

(* A call on a drained encoder waits for the next packet or for the end.   *)
Nothing == enc.ready = <<>> /\ ~enc.eos
AtEnd   == Empty(enc) /\ enc.eos

(* RKVC_ERR_AGAIN: nothing there, or a packet without data.                *)
ReceiveAgain ==
  \/ /\ Nothing
     /\ enc' = [enc EXCEPT !.settled = TRUE]
  \/ /\ HasBlank
     /\ enc' = Gave(enc)

(* Another error: of the encoder, which gives nothing, or, when it has     *)
(* given a packet, of the allocation of a buffer for it; then the packet   *)
(* is lost.                                                                *)
ReceiveError ==
  \/ /\ Fails("enc")
     /\ UNCHANGED <<enc, fetched>>
  \/ /\ Fails("packet") /\ HasPacket
     /\ enc' = Gave(enc)
     /\ fetched' = fetched + 1

(* The packet is written, offered to the output port, counted, released.   *)
PacketOut(where, ok) ==
  LET p == Head(enc.ready) IN
  /\ HasPacket
  /\ enc' = Gave(enc)
  /\ fetched' = fetched + 1
  /\ ok \/ Fails("mux")
  /\ written' = IF ok THEN Append(written, p) ELSE written
  /\ missed' = IF ok THEN missed ELSE missed \cup {where}
  /\ PushOutput(p)
  /\ framesOut' = framesOut + 1

NoPacketOut == UNCHANGED <<port, written, missed, framesOut>>

(* encode_one_frame returns to the loop, which releases the frame.         *)
MutEncodeReturnsHeld(r) ==   \* the error path forgets the scaled frame
  /\ work' = 0
  /\ held' = IF r = "ok" THEN {} ELSE held \ {"frame"}
  /\ IF r = "ok" THEN pc' = "head" /\ UNCHANGED result ELSE Finish(r)

EncodeReturns(r) ==
  /\ work' = 0
  /\ held' = {}
  /\ IF r = "ok" THEN pc' = "head" /\ UNCHANGED result ELSE Finish(r)

(* drain_encoder_packets returns to its caller; the one that calls it      *)
(* while it waits for the decoder ignores the result.                      *)
MutDrainReturnsRetry(r) ==   \* the frame is sent again although it was taken
  IF site = "idle"
  THEN pc' = "head" /\ UNCHANGED <<work, held, result>>
  ELSE IF work # 0 /\ backend = "svt" /\ r = "ok" /\ EncAccepts
  THEN pc' = "send" /\ UNCHANGED <<work, held, result>>
  ELSE EncodeReturns(r)

MutDrainReturnsOk(r) ==   \* every caller ignores the result
  CASE site = "idle" -> pc' = "head" /\ UNCHANGED <<work, held, result>>
    [] site = "retry" -> pc' = "send" /\ UNCHANGED <<work, held, result>>
    [] OTHER -> EncodeReturns("ok")

DrainReturns(r) ==
  CASE site = "idle" -> pc' = "head" /\ UNCHANGED <<work, held, result>>
    [] site = "retry" /\ r = "ok" -> pc' = "send" /\ UNCHANGED <<work, held,
                                                                 result>>
    [] OTHER -> EncodeReturns(r)

-----------------------------------------------------------------------------
(* encode_one_frame: send the frame.  A refusing RKMPP encoder is not      *)
(* asked again; SVT-AV1 is, after a drain.                                 *)
SendFrame ==
  /\ pc = "send"
  /\ \/ /\ EncAccepts
        /\ enc' = Took(enc, work)
        /\ pc' = "drain" /\ site' = "sent"
        /\ UNCHANGED <<work, held, result>>
     \/ /\ EncRefuses
        /\ pc' = "drain"
        /\ site' = IF backend = "mpp" THEN "sent" ELSE "retry"
        /\ UNCHANGED <<enc, work, held, result>>
     \/ /\ Fails("enc")
        /\ EncodeReturns("fail")
        /\ UNCHANGED <<enc, site>>
  /\ UNCHANGED <<stop, port, pulled, backend, blanks, answer, fetched, written,
                 missed, framesIn, framesOut>>

(* One round of drain_encoder_packets.                                     *)
MutDrainOneIgnores ==   \* goes on after a failed write
  /\ pc = "drain"
  /\ \/ ReceiveAgain /\ DrainReturns("ok") /\ NoPacketOut /\ UNCHANGED fetched
     \/ \E ok \in BOOLEAN : PacketOut("loop", ok) /\ UNCHANGED <<pc, work, held,
                                                                 result>>
  /\ UNCHANGED <<stop, pulled, backend, blanks, site, answer, framesIn>>

DrainOne ==
  /\ pc = "drain"
  /\ \/ ReceiveAgain /\ DrainReturns("ok") /\ NoPacketOut /\ UNCHANGED fetched
     \/ ReceiveError /\ DrainReturns("fail") /\ NoPacketOut
     \/ PacketOut("loop", TRUE) /\ UNCHANGED <<pc, work, held, result>>
     \/ PacketOut("loop", FALSE) /\ DrainReturns("fail")
  /\ UNCHANGED <<stop, pulled, backend, blanks, site, answer, framesIn>>

(* After the loop: tell the encoder that no more frames come.  It takes    *)
(* this as it takes a frame, and may refuse it or fail.  Nobody looks at   *)
(* the answer, and a node that told once never tells again.                *)
MutFlushEncoder ==   \* an encoder with unread packets refuses
  /\ pc = "flush"
  /\ answer' = IF enc.ready = <<>> THEN "told" ELSE "refused"
  /\ enc' = [enc EXCEPT !.eos = answer' = "told"]
  /\ pc' = "tail"
  /\ UNCHANGED <<stop, result, port, pulled, backend, blanks, work, held, site,
                 fetched, written, missed, framesIn, framesOut>>

FlushEncoder ==
  /\ pc = "flush"
  /\ \/ EncAccepts /\ answer' = "told"
     \/ EncRefuses /\ answer' = "refused"
     \/ Fails("flush") /\ answer' = "failed"
  /\ enc' = [enc EXCEPT !.eos = answer' = "told"]
  /\ pc' = "tail"
  /\ UNCHANGED <<stop, result, port, pulled, backend, blanks, work, held, site,
                 fetched, written, missed, framesIn, framesOut>>

(* One round of the final loop.  A failed write is ignored here.  When an  *)
(* encoder that was not told has nothing, RKMPP's answers AGAIN and the    *)
(* loop asks again; SVT-AV1's, whose node sets pic_done whatever the       *)
(* answer was, waits inside the call, which is the same here.              *)
TailOne ==
  /\ pc = "tail"
  /\ \/ AtEnd /\ Finish("ok") /\ NoPacketOut /\ UNCHANGED <<enc, fetched>>
     \/ ReceiveAgain /\ NoPacketOut /\ UNCHANGED <<pc, result, fetched>>
     \/ ReceiveError /\ Finish("fail") /\ NoPacketOut
     \/ \E ok \in BOOLEAN : PacketOut("tail", ok) /\ UNCHANGED <<pc, result>>
  /\ UNCHANGED <<stop, pulled, backend, blanks, work, held, site, answer,
                 framesIn>>

(* The other threads: whoever stops the run, whoever reads the port.       *)
Outside == (RequestStop \/ PullOutput) /\ UNCHANGED encVars

EncodeStep == SendFrame \/ DrainOne \/ FlushEncoder \/ TailOne

-----------------------------------------------------------------------------
EncTypeOK ==
  /\ backend \in Backends
  /\ stop \in BOOLEAN
  /\ result \in {"none", "ok", "fail"} /\ (result # "none") = (pc = "done")
  /\ port \in Seq(1 .. Last) /\ Len(port) <= PortDepth
  /\ pulled \in Seq(1 .. Last)
  /\ enc \in CodecType(0 .. Last)
  /\ blanks \in 0 .. MaxBlanks
  /\ work \in 0 .. Last /\ held \subseteq {"frame", "scaled"}
  /\ site \in {"sent", "retry", "idle"}
  /\ answer \in {"none", "told", "refused", "failed"}
  /\ fetched \in 0 .. Last
  /\ written \in Seq(1 .. Last) /\ missed \subseteq {"loop", "tail"}
  /\ framesIn \in 0 .. Last /\ framesOut \in 0 .. Last

(* The file holds every frame at most once and in the order of the input,  *)
(* whatever is refused, retried, dropped or failing on the way             *)
(* (session.c:432-453, 406-430).                                           *)
MuxInOrder == IsIncreasing(written)

(* So does what the consumer of the output port sees, and it sees nothing  *)
(* that was not written before, unless the write itself failed             *)
(* (session.c:423-424).                                                    *)
PortInOrder ==
  /\ IsIncreasing(pulled \o port)
  /\ missed = {} => \A i \in DOMAIN (pulled \o port) :
                      \E j \in DOMAIN written : written[j] = (pulled \o port)[i]

(* The loop gives every frame reference back on every path, error paths    *)
(* included (session.c:494, 499-501, 710, 715-717).                        *)
NothingHeld == pc \in {"head", "flush", "tail", "done"} => held = {}

(* With RKMPP, a write that fails while frames are still coming ends the   *)
(* run with an error (session.c:427-428, 502-503, 718-721).                *)
WriteErrorReported == backend = "mpp" /\ result = "ok" => "loop" \notin missed

(* No failed write goes unreported.                                        *)
EveryWriteReported == result = "ok" => missed = {}
=============================================================================
