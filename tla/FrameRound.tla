----------------------------- MODULE FrameRound ------------------------------
(***************************************************************************)
(* The way of each frame through the nodes, in one round of each of the    *)
(* three loops of lib/session.c, and in the functions that scale frames    *)
(* outside sessions, with the tool rkvc_yuv_upscale on top of them.        *)
(* Whatever a node calls may fail.                                         *)
(***************************************************************************)
EXTENDS FrameNodes, ScaleNodes, FiniteSets

VARIABLES
  kind,      \* the loop or the function; see Kinds
  scaling,   \* the session scales its frames
  encFrame, host, display   \* the loops' variables

roundVars == <<kind, scaling, encFrame, host, display>>
vars == <<baseVars, nodeVars, scaleVars, roundVars>>

Sessions == {"transcode", "encode", "decode"}
(* rkvc_upscale_nv12; both loops of the tool; rkvc_post_upscale_buffer.    *)
Kinds == Sessions \cup {"nv12", "tool_yuv420p", "tool_nv12", "post"}

Encoding == kind \in {"transcode", "encode"}

Init ==
  /\ MemoryInit /\ NodesInit
  /\ shown = Null /\ lost = FALSE
  /\ kind \in Kinds /\ scaling \in BOOLEAN
  /\ pc = IF kind \in {"tool_yuv420p", "tool_nv12"} THEN "tool" ELSE "idle"
  /\ err = FALSE
  /\ encFrame = Null /\ host = Null /\ display = Null
  \* what a kind does not use has one value
  /\ kind \notin Sessions => ~scaling
  /\ kind \notin {"transcode", "decode"} => source = "nv12"
  /\ kind \in {"nv12", "tool_nv12"} => output = "nv12"
  /\ ~Encoding => backend = "mpp"

-----------------------------------------------------------------------------
(* The beginning of a round.                                               *)
Receive ==
  /\ pc = "idle" /\ kind \in {"transcode", "decode"}
  /\ ReceiveFrame
  /\ UNCHANGED <<scaleVars, roundVars>>

(* encode_file_loop numbers the frames itself, in both places; so does the *)
(* model for the frame that an application has scaled.                     *)
Load ==
  /\ pc = "idle" /\ kind \in {"encode", "post"}
  /\ clock < MaxStamp
  /\ clock' = clock + 1
  /\ buf' = With(buf, "frame", "host", clock', clock')
  /\ Return(IF kind = "post" THEN "post" ELSE "received", FALSE)
  /\ UNCHANGED <<live, access, badRead, source, output, got, backend, picture,
                 nextPts, stamps, seen, scaleVars, roundVars>>

(* rkvc_mpp_dec_receive_frame failed: the run is over.                     *)
ReceiveFailed ==
  /\ pc = "received" /\ err
  /\ Return("over", TRUE)
  /\ UNCHANGED <<memVars, nodeVars, scaleVars, roundVars>>

-----------------------------------------------------------------------------
(* transcode_loop and encode_file_loop: session_downscale_for_encode,      *)
(* encode_one_frame, release.                                              *)
MutDownscale ==   \* the error path forgets the frame
  /\ pc = "received" /\ ~err /\ Encoding
  /\ \/ /\ encFrame' = "frame"
        /\ pc' = "send" /\ UNCHANGED <<err, buf>>
     \/ /\ scaling
        /\ Return("over", TRUE)
        /\ UNCHANGED <<buf, encFrame>>
  /\ UNCHANGED <<live, access, badRead, nodeVars, scaleVars, kind, scaling,
                 host, display>>

Downscale ==
  /\ pc = "received" /\ ~err /\ Encoding
  /\ \/ /\ encFrame' = "frame"
        /\ pc' = "send" /\ UNCHANGED <<err, buf>>
     \/ /\ scaling /\ output = "nv12"
        /\ \E m \in {"mapped", "host"} : buf' = ScaledFrom("frame", m)
        /\ encFrame' = "scaled"
        /\ pc' = "send" /\ UNCHANGED err
     \/ /\ scaling
        /\ buf' = Unref(buf, "frame")
        /\ Return("over", TRUE)
        /\ UNCHANGED encFrame
  /\ UNCHANGED <<live, access, badRead, nodeVars, scaleVars, kind, scaling,
                 host, display>>

EncodeFrame ==
  /\ \/ ToEncoder(encFrame) \/ ToEncoderFails
     \/ MppSend(encFrame) \/ SvtCopy(encFrame) \/ SvtSend
  /\ UNCHANGED <<scaleVars, roundVars>>

ReleaseEncoded ==
  /\ pc = "release" /\ Encoding
  /\ buf' = Unref(IF encFrame # "frame" THEN Unref(buf, encFrame) ELSE buf,
                  "frame")
  /\ encFrame' = Null
  /\ pc' = IF err THEN "over" ELSE "idle"
  /\ UNCHANGED <<err, live, access, badRead, nodeVars, scaleVars, kind, scaling,
                 host, display>>

-----------------------------------------------------------------------------
(* decode_loop: session_frame_to_host.  RGA, being present, can scale a    *)
(* DMA-BUF frame where it is.                                              *)
FrameToHost ==
  /\ pc = "received" /\ ~err /\ kind = "decode"
  /\ LET direct == ~IsDma("frame") \/ scaling IN
     \/ /\ direct
        /\ buf' = Ref(buf, "frame") /\ host' = "frame"
        /\ pc' = "upscale" /\ UNCHANGED err
     \/ /\ ~direct
        /\ buf' = DmaToHost("frame") /\ host' = HostOf("frame")
        /\ pc' = "upscale" /\ UNCHANGED err
     \/ /\ ~direct
        /\ Return("release", TRUE)
        /\ UNCHANGED <<buf, host>>
  /\ display' = host'
  /\ UNCHANGED <<live, access, badRead, nodeVars, scaleVars, kind, scaling,
                 encFrame>>

(* session_apply_post_upscale: the host frame is shown until scaling       *)
(* worked.                                                                 *)
Upscale ==
  /\ \/ scaling /\ ContextCreate
     \/ scaling /\ ProcessCopy(host, output = "nv12")
     \/ ProcessImport \/ ProcessBegin \/ ProcessResize \/ ProcessEnd(host)
     \/ /\ pc = "upscale" /\ ~scaling
        /\ pc' = "write" /\ UNCHANGED <<err, memVars, scaleVars>>
  /\ display' = IF pc' = "write" /\ scaling THEN "target" ELSE display
  /\ UNCHANGED <<nodeVars, kind, scaling, encFrame, host>>

(* Write the frame, mapped memory inside a read bracket.                   *)
WriteBegin ==
  /\ pc = "write"
  /\ \/ /\ access' = IF IsDma(display) THEN access \cup {"read"} ELSE access
        /\ pc' = "writing"
     \/ /\ IsDma(display)
        /\ pc' = "release" /\ UNCHANGED access
  /\ UNCHANGED <<err, buf, live, badRead, nodeVars, scaleVars, roundVars>>

WriteEnd ==
  /\ pc = "writing"
  /\ badRead' = badRead \cup Freed("pixels", display)
  /\ access' = access \ {"read"}
  /\ pc' = "release"
  /\ UNCHANGED <<err, buf, live, nodeVars, scaleVars, roundVars>>

(* Where scaling failed, display is the host frame and not released apart. *)
ReleaseDecoded ==
  /\ pc = "release" /\ kind = "decode"
  /\ buf' = Unref(Unref(IF display # host THEN Unref(buf, display) ELSE buf,
                        host), "frame")
  /\ host' = Null /\ display' = Null
  /\ Return("idle", FALSE)
  /\ UNCHANGED <<live, access, badRead, nodeVars, scaleVars, kind, scaling,
                 encFrame>>

-----------------------------------------------------------------------------
(* Outside sessions.  rkvc_yuv_upscale allocates two blocks, or makes a    *)
(* context that has two, and scales frame by frame.                        *)
ToolBlocks ==
  /\ pc = "tool" /\ kind = "tool_yuv420p"
  /\ \/ /\ live' = Plus({"src_block", "dst_block"})
        /\ Return("idle", FALSE)
     \/ Return("closed", TRUE) /\ UNCHANGED live
  /\ UNCHANGED <<buf, access, badRead, scaleVars>>

CallScale ==
  /\ pc = "idle" /\ kind \in {"nv12", "tool_yuv420p", "tool_nv12"}
  /\ err => kind = "nv12"
  /\ clock < MaxStamp
  /\ clock' = clock + 1
  /\ pc' = CASE kind = "nv12" -> "virtual"
             [] kind = "tool_yuv420p" -> "fallback"
             [] kind = "tool_nv12" -> "tool_process"
  /\ UNCHANGED <<err, memVars, source, output, got, backend, picture, nextPts,
                 stamps, seen, scaleVars>>

(* The application releases what rkvc_post_upscale_buffer gave it, and its *)
(* own frame.                                                              *)
ShownReleased ==
  /\ pc = "shown"
  /\ buf' = Unref(Unref(buf, shown), "frame")
  /\ shown' = Null
  /\ Return("idle", FALSE)
  /\ UNCHANGED <<live, access, badRead, lost>>

Outside ==
  /\ \/ /\ \/ kind = "tool_nv12" /\ ToolCreate
           \/ ToolBlocks \/ VirtualImport \/ VirtualResize
           \/ FallbackAlloc \/ FallbackScale \/ ToolProcess
           \/ PostConvert(output = "nv12") \/ PostScale(output = "nv12")
           \/ PostBack(output = "nv12") \/ ShownReleased
        /\ UNCHANGED nodeVars
     \/ CallScale
  /\ UNCHANGED roundVars

-----------------------------------------------------------------------------
(* The end of the input, an error or a stop request; what the owner still  *)
(* has is freed.                                                           *)
MutEnd ==   \* does not destroy the context
  /\ pc \in {"idle", "over"}
  /\ pc' = "closed"
  /\ UNCHANGED <<err, memVars, nodeVars, scaleVars, roundVars>>

End ==
  /\ pc \in {"idle", "over"}
  /\ pc' = "closed"
  /\ CASE kind \in Sessions /\ live["context"] > 0 -> ContextDestroy
       [] kind = "tool_nv12" -> ToolDestroy /\ UNCHANGED buf
       [] kind = "tool_yuv420p" -> live' = Minus({"src_block", "dst_block"})
                                   /\ UNCHANGED buf
       [] OTHER -> UNCHANGED <<buf, live>>
  /\ UNCHANGED <<err, access, badRead, nodeVars, scaleVars, roundVars>>

Closed == pc = "closed" /\ UNCHANGED vars

Next ==
  \/ Receive \/ Load \/ ReceiveFailed
  \/ Unpack /\ UNCHANGED <<scaleVars, roundVars>>
  \/ Downscale \/ EncodeFrame \/ ReleaseEncoded
  \/ FrameToHost \/ Upscale \/ WriteBegin \/ WriteEnd \/ ReleaseDecoded
  \/ Outside
  \/ End \/ Closed

Spec == Init /\ [][Next]_vars

-----------------------------------------------------------------------------
TypeOK ==
  /\ MemoryTypeOK /\ NodesTypeOK
  /\ kind \in Kinds /\ scaling \in BOOLEAN /\ lost \in BOOLEAN
  /\ {encFrame, host, display, shown} \subseteq Buffers \cup {Null}

(* Between two frames, and at the end, nothing is left of a frame: all     *)
(* buffers, handles and blocks have gone back on every path, but for the   *)
(* scaler's own.  Two defects are exempted: a conversion that fails early  *)
(* forgets the decoded frame and ends the run with an error                *)
(* (node_mpp_dec.c:141-161), and of two imports of plain memory a single   *)
(* success is forgotten (node_rga.c:213-217, 559-562).                     *)
Owned(t) ==
  CASE t = "context" -> kind \in Sessions \cup {"tool_nv12"} /\ pc # "closed"
    [] t = "target_handle" -> kind \in Sessions /\ pc # "closed"
    [] t \in {"src_block", "dst_block"} ->
         kind \in {"tool_nv12", "tool_yuv420p"} /\ pc # "closed"
    [] t \in {"src_handle", "dst_handle"} -> kind = "tool_nv12" /\ pc # "closed"
    [] OTHER -> FALSE

NothingLeft ==
  pc \in {"idle", "over", "closed"} =>
    /\ \A b \in Buffers :
         buf[b].refs = IF b = "target" THEN live["target_handle"] ELSE 0
    /\ \A t \in Things :
         \/ live[t] = 0
         \/ live[t] = 1 /\ Owned(t)
         \/ t = "decoded" /\ live[t] = 1 /\ err
         \/ t \in BothHandles /\ lost

(* Neither the encoder nodes nor decode_loop read a buffer that was freed, *)
(* but for one read: SVT-AV1's node releases the host copy it made of a    *)
(* decoder's DMA-BUF frame and then reads the copy's time stamp            *)
(* (node_svt_enc.c:218-223).  RKMPP's node releases its copy only after it *)
(* cloned the frame (node_mpp_enc.c:123-124), and no pixel is read late.   *)
NoFreedRead ==
  badRead # {} =>
    badRead = {<<"stamp", "host">>} /\ backend = "svt" /\ source = "drm"

(* The time stamps the encoder is given increase strictly, whatever stamps *)
(* the frames lost or never had (node_mpp_enc.c:152-155): the encoder's    *)
(* own numbers do not run ahead of the file.  SVT-AV1's do not know of the *)
(* frames' own stamps (node_svt_enc.c:223), so there all frames must have  *)
(* one, or none, and the stamp must be read in time.                       *)
StampsIncrease ==
  backend = "mpp" \/ (Cardinality(seen) <= 1 /\ badRead = {}) =>
    \A i, j \in DOMAIN stamps : i < j => stamps[i] < stamps[j]

(* The time stamp a frame came with, as far as the decoder's node kept it. *)
CameWith ==
  LET transferred == source = "drm" /\ buf["frame"].mem = "host" IN
  IF kind \in {"encode", "post"} THEN clock
  ELSE IF transferred THEN Missing ELSE got.told

(* The time stamp a frame came with is the one the encoder's node numbers  *)
(* it by, and the one the output file and the application see, over all    *)
(* copies, scalings and failures on the way (session.c:60,                 *)
(* node_dma_to_host.c:42, node_rga.c:754, node_post_upscale.c:75-172).  It *)
(* is lost in two places, and nowhere else: a DMA-BUF frame transferred to *)
(* host memory in the decoder's node comes without one                     *)
(* (node_mpp_dec.c:200-222), and RKMPP's node reads the AVFrame's stamp    *)
(* (node_mpp_enc.c:152), which no scaling sets (node_rga.c:339): it        *)
(* numbers each down-scaled frame anew.  (A copy that SVT-AV1's node reads *)
(* late may show anything; see NoFreedRead.)                               *)
PtsKept ==
  /\ pc = "copy" /\ backend = "mpp" =>
       buf[picture].av = IF picture = "scaled" THEN Missing ELSE CameWith
  /\ pc = "stamp" /\ buf[picture].refs > 0 => buf[picture].pts = CameWith
  /\ pc = "writing" => buf[display].pts = CameWith
  /\ pc = "shown" /\ ~err => buf[shown].pts = CameWith

(* The CPU reads the target only between two writes of the device, though  *)
(* a failed scaling leaves a write open until the next one ends            *)
(* (node_rga.c:734-752, session.c:138-150).                                *)
ReadsBetweenWrites == "read" \in access => "write" \notin access
=============================================================================
