----------------------------- MODULE ScaleNodes ------------------------------
(***************************************************************************)
(* The users of the RGA scaler (lib/node_rga.c): the session's scaling     *)
(* context with its one target, the context of the command line tool, the  *)
(* functions for frames in plain memory, and rkvc_post_upscale_buffer      *)
(* (lib/node_post_upscale.c).  rkvc_rga_scale_buffer itself is one step    *)
(* here; ScaleBuffer shows that it gives everything back.                  *)
(***************************************************************************)
EXTENDS FrameMemory

VARIABLES
  shown,     \* what rkvc_post_upscale_buffer handed out
  lost       \* history: one of two imports of plain memory failed

scaleVars == <<shown, lost>>

MutScaledFrom(b, m) ==   \* the result has no time stamp
  With(buf, "scaled", m, Missing, Missing)

(* rkvc_rga_scale_buffer: a new buffer in memory m with b's time stamp.    *)
ScaledFrom(b, m) == With(buf, "scaled", m, buf[b].pts, Missing)

-----------------------------------------------------------------------------
(* rkvc_rga_scale_ctx_create: the target, and a handle for it.  When one   *)
(* of them cannot be had, the other is given back.                         *)
ContextCreate ==
  /\ pc = "upscale" /\ live["context"] = 0
  /\ \/ /\ \E m \in {"mapped", "host"} :
               buf' = With(buf, "target", m, Missing, Missing)
        /\ live' = Plus({"context", "target_handle"})
        /\ UNCHANGED <<pc, err>>
     \/ /\ Return("release", TRUE)
        /\ UNCHANGED <<buf, live>>
  /\ UNCHANGED <<access, badRead, scaleVars>>

(* rkvc_rga_scale_ctx_process, for an NV12 source of another size: make it *)
(* contiguous in a copy if it is not, import it, begin the device's write, *)
(* scale, end the write.                                                   *)
ProcessCopy(src, nv12) ==
  /\ pc = "upscale" /\ live["context"] > 0
  /\ \/ nv12 /\ pc' = "import" /\ UNCHANGED <<err, buf>>
     \/ /\ nv12 /\ buf[src].mem = "host"
        /\ \E m \in {"mapped", "host"} :
             buf' = With(buf, "work", m, buf[src].pts, Missing)
        /\ pc' = "import" /\ UNCHANGED err
     \/ /\ Return("release", TRUE)
        /\ UNCHANGED buf
  /\ UNCHANGED <<live, access, badRead, scaleVars>>

Work == IF buf["work"].refs > 0 THEN "work" ELSE Null

ProcessImport ==
  /\ pc = "import"
  /\ \/ /\ live' = Plus({"src_handle"})
        /\ pc' = "begin" /\ UNCHANGED <<err, buf>>
     \/ /\ buf' = Unref(buf, Work)
        /\ Return("release", TRUE) /\ UNCHANGED live
  /\ UNCHANGED <<access, badRead, scaleVars>>

ProcessBegin ==
  /\ pc = "begin"
  /\ \/ /\ access' = access \cup {"write"}
        /\ pc' = "resize" /\ UNCHANGED <<err, buf, live>>
     \/ /\ live' = Minus({"src_handle"})
        /\ buf' = Unref(buf, Work)
        /\ Return("release", TRUE) /\ UNCHANGED access
  /\ UNCHANGED <<badRead, scaleVars>>

(* After a scaling that failed, the write is not ended.                    *)
ProcessResize ==
  /\ pc = "resize"
  /\ live' = Minus({"src_handle"})
  /\ buf' = Unref(buf, Work)
  /\ (pc' = "end" /\ UNCHANGED err) \/ Return("release", TRUE)
  /\ UNCHANGED <<access, badRead, scaleVars>>

MutProcessEnd(src) ==   \* forgets to end the write
  /\ pc = "end"
  /\ buf' = Ref([buf EXCEPT !["target"].pts = buf[src].pts], "target")
  /\ Return("write", FALSE)
  /\ UNCHANGED <<live, access, badRead, scaleVars>>

ProcessEnd(src) ==
  /\ pc = "end"
  /\ \/ /\ access' = access \ {"write"}
        /\ buf' = Ref([buf EXCEPT !["target"].pts = buf[src].pts], "target")
        /\ Return("write", FALSE)
     \/ /\ Return("release", TRUE)
        /\ UNCHANGED <<buf, access>>
  /\ UNCHANGED <<live, badRead, scaleVars>>

(* rkvc_rga_scale_ctx_destroy.                                             *)
ContextDestroy ==
  /\ live' = Minus({"context", "target_handle"})
  /\ buf' = Unref(buf, "target")

-----------------------------------------------------------------------------
(* Two imports of plain memory (rga_scale_nv12_virtual and                 *)
(* rkvc_upscale_ctx_create): both are tried before either is looked at,    *)
(* and they are marked as owned only when both worked, so the clean-up     *)
(* forgets a single one.                                                   *)
BothHandles == {"src_handle", "dst_handle"}

(* rga_scale_nv12_virtual.                                                 *)
VirtualImport ==
  /\ pc = "virtual"
  /\ \E H \in SUBSET BothHandles :
       /\ live' = Plus(H)
       /\ lost' = (lost \/ H \notin {{}, BothHandles})
       /\ pc' = IF H = BothHandles THEN "virtual_resize" ELSE "fallback"
  /\ UNCHANGED <<err, buf, access, badRead, shown>>

VirtualResize ==
  /\ pc = "virtual_resize"
  /\ live' = Minus(BothHandles)
  /\ Return("idle", FALSE) \/ (pc' = "fallback" /\ UNCHANGED err)
  /\ UNCHANGED <<buf, access, badRead, scaleVars>>

(* The rest of rkvc_upscale_nv12, and rkvc_upscale_yuv420p: through a host *)
(* buffer and rkvc_rga_scale_buffer.                                       *)
FallbackAlloc ==
  /\ pc = "fallback"
  /\ \/ /\ buf' = With(buf, "work", "host", Missing, Missing)
        /\ pc' = "fallback_scale" /\ UNCHANGED err
     \/ Return("idle", TRUE) /\ UNCHANGED buf
  /\ UNCHANGED <<live, access, badRead, scaleVars>>

FallbackScale ==
  /\ pc = "fallback_scale"
  /\ \/ /\ \E m \in {"mapped", "host"} :
             buf' = Unref(Unref(ScaledFrom("work", m), "scaled"), "work")
        /\ Return("idle", FALSE)
     \/ /\ buf' = Unref(buf, "work")
        /\ Return("idle", TRUE)
  /\ UNCHANGED <<live, access, badRead, scaleVars>>

-----------------------------------------------------------------------------
(* rkvc_upscale_ctx_create: the context with two blocks of memory, and     *)
(* their imports.  On failure everything owned is freed.                   *)
ToolCreate ==
  /\ pc = "tool"
  /\ \/ /\ live' = Plus({"context", "src_block", "dst_block"} \cup BothHandles)
        /\ Return("idle", FALSE) /\ UNCHANGED lost
     \/ /\ Return("closed", TRUE)
        /\ \E H \in SUBSET BothHandles :
             /\ H # BothHandles
             /\ live' = Plus(H)
             /\ lost' = (H # {})
  /\ UNCHANGED <<buf, access, badRead, shown>>

(* rkvc_upscale_ctx_process scales between the two blocks.                 *)
ToolProcess ==
  /\ pc = "tool_process"
  /\ \E e \in BOOLEAN : Return("idle", e)
  /\ UNCHANGED <<memVars, scaleVars>>

ToolDestroy ==
  live' = Minus({"context", "src_block", "dst_block"} \cup BothHandles)

-----------------------------------------------------------------------------
(* rkvc_post_upscale_buffer of the frame: convert it to NV12 unless it is, *)
(* scale it, convert it back.  A frame of the wanted size is the result.   *)
PostSource(nv12) == IF nv12 THEN "frame" ELSE "work"

PostConvert(nv12) ==
  /\ pc = "post"
  /\ \/ /\ buf' = IF nv12 THEN Ref(buf, "frame")
                  ELSE With(buf, "work", "host", buf["frame"].pts, Missing)
        /\ pc' = "post_scale" /\ UNCHANGED <<err, shown>>
     \/ /\ buf' = Ref(buf, "frame") /\ shown' = "frame"
        /\ Return("shown", FALSE)
     \/ Return("shown", TRUE) /\ UNCHANGED <<buf, shown>>
  /\ UNCHANGED <<live, access, badRead, lost>>

PostScale(nv12) ==
  /\ pc = "post_scale"
  /\ \/ /\ \E m \in {"mapped", "host"} :
             buf' = Unref(ScaledFrom(PostSource(nv12), m), PostSource(nv12))
        /\ pc' = "post_back" /\ UNCHANGED err
     \/ /\ buf' = Unref(buf, PostSource(nv12))
        /\ Return("shown", TRUE)
  /\ UNCHANGED <<live, access, badRead, lost, shown>>

PostBack(nv12) ==
  /\ pc = "post_back"
  /\ \/ /\ nv12
        /\ buf' = [buf EXCEPT !["scaled"].pts = buf["frame"].pts]
        /\ shown' = "scaled" /\ Return("shown", FALSE)
     \/ /\ ~nv12
        /\ buf' = Unref(With(buf, "out", "host", buf["scaled"].pts, Missing),
                        "scaled")
        /\ shown' = "out" /\ Return("shown", FALSE)
     \/ /\ ~nv12
        /\ buf' = Unref(buf, "scaled")
        /\ Return("shown", TRUE) /\ UNCHANGED shown
  /\ UNCHANGED <<live, access, badRead, lost>>
=============================================================================
