----------------------------- MODULE DecodeStage -----------------------------
(***************************************************************************)
(* The decoding half of transcode_loop and decode_loop (lib/session.c):    *)
(* every round reads at most one packet from the demuxer (node_demux.c),   *)
(* offers it to the decoder (node_mpp_dec.c), and asks for one frame.      *)
(***************************************************************************)
EXTENDS FileRun

CONSTANT DecoderRefuses   \* the decoder may answer a packet with EAGAIN

ASSUME DecodeAssumption == DecoderRefuses \in BOOLEAN

VARIABLES
  next,     \* the next packet the demuxer returns
  dec,      \* the decoder; dec.eos is also the loop's dec_eof
  sent      \* history: the packets the decoder took

decVars == <<next, dec, sent>>

DecInit ==
  /\ next = 1
  /\ dec = NewCodec
  /\ sent = <<>>

(* Read a packet and send it to the decoder, which may take it, refuse it  *)
(* (the packet is then gone), or fail.                                     *)
MutFeedPacket ==   \* reads one packet too many
  /\ pc = "head" /\ ~stop /\ ~dec.eos
  /\ next <= Last + 1
  /\ next' = next + 1
  /\ dec' = Took(dec, next) /\ sent' = Append(sent, next)
  /\ pc' = "receive"
  /\ UNCHANGED <<result, stop, port, pulled>>

FeedPacket ==
  /\ pc = "head" /\ ~stop /\ ~dec.eos
  /\ next <= Last
  /\ next' = next + 1
  /\ \/ /\ dec' = Took(dec, next) /\ sent' = Append(sent, next)
        /\ pc' = "receive" /\ UNCHANGED result
     \/ /\ DecoderRefuses /\ MayRefuse(dec)
        /\ pc' = "receive" /\ UNCHANGED <<result, dec, sent>>
     \/ /\ Fails("dec")
        /\ Finish("fail") /\ UNCHANGED <<dec, sent>>
  /\ UNCHANGED <<stop, port, pulled>>

(* End of file: drain the decoder.  FFmpeg drains it also where the call   *)
(* that asks for it, whose result the loops ignore, reports an error.      *)
FeedEof ==
  /\ pc = "head" /\ ~stop /\ ~dec.eos
  /\ next > Last
  /\ dec' = [dec EXCEPT !.eos = TRUE]
  /\ pc' = "receive"
  /\ UNCHANGED <<stop, result, port, pulled, next, sent>>

FeedFails ==
  /\ pc = "head" /\ ~stop /\ ~dec.eos
  /\ Fails("demux")
  /\ Finish("fail")
  /\ UNCHANGED <<stop, port, pulled, decVars>>

(* After the end of file there is nothing to feed.                         *)
FeedNothing ==
  /\ pc = "head" /\ ~stop /\ dec.eos
  /\ pc' = "receive"
  /\ UNCHANGED <<stop, result, port, pulled, decVars>>

(* rkvc_mpp_dec_receive_frame fails: the loop returns its error.           *)
ReceiveFails ==
  /\ pc = "receive"
  /\ Fails("dec")
  /\ Finish("fail")
  /\ UNCHANGED <<stop, port, pulled, decVars>>

FeedStep ==
  FeedPacket \/ FeedEof \/ FeedFails \/ FeedNothing \/ ReceiveFails

(* The decoder's answers to a receive: a frame, not yet, no more.          *)
HasFrame == dec.ready # <<>>
NoFrameYet == dec.ready = <<>> /\ ~dec.eos
NoMoreFrames == Empty(dec) /\ dec.eos

DecTypeOK ==
  /\ next \in 1 .. Last + 1
  /\ dec \in CodecType(1 .. Last)
  /\ sent \in Seq(1 .. Last)
=============================================================================
