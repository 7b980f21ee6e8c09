----------------------------- MODULE FrameNodes ------------------------------
(***************************************************************************)
(* A frame inside the codec nodes: rkvc_mpp_dec_receive_frame unpacks and  *)
(* converts it (lib/node_mpp_dec.c), rkvc_dma_to_host copies it            *)
(* (lib/node_dma_to_host.c), and the encoder nodes stamp it and pass it on *)
(* (lib/node_mpp_enc.c, lib/node_svt_enc.c).                               *)
(***************************************************************************)
EXTENDS FrameMemory, Sequences

VARIABLES
  source,    \* what the decoder makes: "drm", "nv12" or "other"
  output,    \* dec->output_format: "nv12" or "other"
  got,       \* the AVFrame in rkvc_mpp_dec_receive_frame: format and pts, and
             \* history: the pts it was told
  clock,     \* the frame's true place in time
  backend,   \* "mpp" or "svt"
  picture,   \* what the encoder reads: the frame, or its host copy
  nextPts,   \* enc->next_pts
  stamps,    \* history: time stamps of the frames the encoder took
  seen       \* history: whether frames came to SVT-AV1 with a time stamp

nodeVars == <<source, output, got, clock, backend, picture, nextPts, stamps,
              seen>>

NodesInit ==
  /\ source \in {"drm", "nv12", "other"} /\ output \in {"nv12", "other"}
  /\ got = [fmt |-> source, pts |-> Missing, told |-> Missing]
  /\ clock = Missing
  /\ backend \in {"mpp", "svt"}
  /\ picture = Null
  /\ nextPts = 0 /\ stamps = <<>> /\ seen = {}

-----------------------------------------------------------------------------
(* rkvc_mpp_dec_receive_frame gets a frame.  Time goes on with every       *)
(* frame, but not every frame is told its time.                            *)
ReceiveFrame ==
  /\ clock < MaxStamp
  /\ \E t \in clock + 1 .. MaxStamp : \E p \in {t, Missing} :
       /\ clock' = t
       /\ got' = [fmt |-> source, pts |-> p, told |-> p]
  /\ live' = Plus({"decoded"})
  /\ pc' = "unpack"
  /\ UNCHANGED <<err, buf, access, badRead, source, output, backend, picture,
                 nextPts, stamps, seen>>

(* The frame becomes the AVFrame of a new buffer.                          *)
MakeBuffer(m) ==
  /\ buf' = With(buf, "frame", m, got.pts, got.pts)
  /\ live' = Minus({"decoded"})
  /\ Return("received", FALSE)
  /\ UNCHANGED got

(* Nothing comes out; the frame is freed, or forgotten.                    *)
Discard(freed) ==
  /\ live' = IF freed THEN Minus({"decoded"}) ELSE live
  /\ Return("received", TRUE)
  /\ UNCHANGED <<buf, got>>

(* A linear NV12 DMA-BUF frame is wrapped as it is.                        *)
WrapDrm ==
  /\ got.fmt = "drm" /\ output = "nv12"
  /\ MakeBuffer("drm")

(* Any other DMA-BUF frame, or one no buffer could be made for, is copied  *)
(* to host memory; the copy has no time stamp.                             *)
TransferDrm ==
  /\ got.fmt = "drm"
  /\ \/ /\ got' = [got EXCEPT !.fmt = "nv12", !.pts = Missing]
        /\ UNCHANGED <<pc, err, buf, live>>
     \/ Discard(TRUE)

(* dec_sws_to_format.  Where no frame can be made for the result, the      *)
(* decoded frame is forgotten; after that it is freed.                     *)
ConvertFrame ==
  /\ got.fmt \notin {"drm", output}
  /\ MakeBuffer("host") \/ \E freed \in BOOLEAN : Discard(freed)

WrapFrame ==
  /\ got.fmt = output
  /\ MakeBuffer("host") \/ Discard(TRUE)

MutUnpack ==   \* a copied DMA-BUF frame is kept
  /\ pc = "unpack"
  /\ \/ WrapDrm \/ ConvertFrame \/ WrapFrame
     \/ /\ got.fmt = "drm"
        /\ got' = [got EXCEPT !.fmt = "nv12", !.pts = Missing]
        /\ live' = Plus({"decoded"})
        /\ UNCHANGED <<pc, err, buf>>
  /\ UNCHANGED <<access, badRead, source, output, clock, backend, picture,
                 nextPts, stamps, seen>>

Unpack ==
  /\ pc = "unpack"
  /\ WrapDrm \/ TransferDrm \/ ConvertFrame \/ WrapFrame
  /\ UNCHANGED <<access, badRead, source, output, clock, backend, picture,
                 nextPts, stamps, seen>>

-----------------------------------------------------------------------------
(* rkvc_dma_to_host: a reference to b itself when the CPU can read it, or  *)
(* a new host buffer with b's time stamp in both places.                   *)
HostOf(b) == IF buf[b].mem = "drm" THEN "host" ELSE b

MutDmaToHost(b) ==   \* hands b out without taking a reference
  IF buf[b].mem = "drm"
  THEN With(buf, "host", "host", buf[b].pts, buf[b].pts)
  ELSE buf

DmaToHost(b) ==
  IF buf[b].mem = "drm"
  THEN With(buf, "host", "host", buf[b].pts, buf[b].pts)
  ELSE Ref(buf, b)

(* The encoder nodes read a DMA-BUF frame through its host copy.  RKMPP    *)
(* clones the AVFrame, SVT-AV1 gets a copy of the planes; then the host    *)
(* copy is released, in RKMPP's node (host_frame_from_buffer) as well as   *)
(* in SVT-AV1's.                                                           *)
ToEncoder(b) ==
  /\ pc = "send"
  /\ picture' = IF IsDma(b) THEN HostOf(b) ELSE b
  /\ buf' = IF IsDma(b) THEN DmaToHost(b) ELSE buf
  /\ pc' = "copy"
  /\ UNCHANGED <<err, live, access, badRead, source, output, got, clock,
                 backend, nextPts, stamps, seen>>

ToEncoderFails ==
  /\ pc = "send"
  /\ Return("release", TRUE)
  /\ UNCHANGED <<memVars, nodeVars>>

(* The encoder takes the frame or fails.  When it refuses, RKMPP's frame   *)
(* is dropped, and SVT-AV1 gets it again; the bound on that counts only    *)
(* where the numbers grow.                                                 *)
Encode(s, n) ==
  /\ nextPts' = n
  /\ \/ stamps' = Append(stamps, s) /\ Return("release", FALSE)
     \/ UNCHANGED stamps /\ Return("release", TRUE)
     \/ /\ nextPts <= MaxStamp
        /\ UNCHANGED <<stamps, err>>
        /\ pc' = IF backend = "mpp" THEN "release" ELSE "send"

(* rkvc_mpp_enc_send_frame: the clone's time stamp, or the next number.    *)
MutMppStamp(a) == IF a = Missing THEN [s |-> nextPts, n |-> nextPts + 1]
                  ELSE [s |-> a, n |-> nextPts]   \* does not follow real stamps

MppStamp(a) == IF a = Missing THEN [s |-> nextPts, n |-> nextPts + 1]
               ELSE [s |-> a, n |-> a + 1]

(* rkvc_svt_enc_send_frame: the buffer's time stamp, or the next number.   *)
SvtStamp(p) == IF p = Missing THEN [s |-> nextPts, n |-> nextPts + 1]
               ELSE [s |-> p, n |-> nextPts]

Released(b) == IF IsDma(b) THEN Unref(buf, picture) ELSE buf

MppSend(b) ==
  /\ pc = "copy" /\ backend = "mpp"
  /\ LET m == MppStamp(buf[picture].av) IN Encode(m.s, m.n)
  /\ badRead' = badRead \cup Freed("pixels", picture)
  /\ buf' = Released(b)
  /\ UNCHANGED <<live, access, source, output, got, clock, backend, picture,
                 seen>>

(* SVT-AV1's node reads the time stamp of the host copy after it released  *)
(* it; when nobody else holds the copy, it reads freed memory.             *)
SvtCopy(b) ==
  /\ pc = "copy" /\ backend = "svt"
  /\ badRead' = badRead \cup Freed("pixels", picture)
  /\ buf' = Released(b)
  /\ pc' = "stamp"
  /\ UNCHANGED <<err, live, access, nodeVars>>

SvtSend ==
  /\ pc = "stamp"
  /\ \E p \in PtsRead(picture) :
       /\ LET m == SvtStamp(p) IN Encode(m.s, m.n)
       /\ seen' = seen \cup {p # Missing}
  /\ badRead' = badRead \cup Freed("stamp", picture)
  /\ UNCHANGED <<buf, live, access, source, output, got, clock, backend,
                 picture>>

NodesTypeOK ==
  /\ got \in [fmt : {"drm", "nv12", "other"}, pts : Stamps, told : Stamps]
  /\ clock \in Stamps
  /\ picture \in Buffers \cup {Null}
  /\ nextPts \in 0 .. 2 * MaxStamp + 2
  /\ stamps \in Seq(0 .. 2 * MaxStamp + 1)
  /\ seen \subseteq BOOLEAN
=============================================================================
