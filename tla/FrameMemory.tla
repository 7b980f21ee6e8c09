----------------------------- MODULE FrameMemory -----------------------------
(***************************************************************************)
(* What one frame's way through the nodes allocates (lib/buffer_pool.c):   *)
(* buffers with their references and time stamps, AVFrames that belong to  *)
(* no buffer yet, RGA import handles, and the memory of a scaling context. *)
(* A buffer or a thing is named for its role; there is one loop thread.    *)
(***************************************************************************)
EXTENDS Integers

CONSTANT MaxStamp   \* bound: the greatest time stamp

ASSUME StampAssumption == MaxStamp \in Nat

Missing == -1       \* AV_NOPTS_VALUE
Stamps == Missing .. MaxStamp

Null == "null"
Buffers == {"frame", "host", "scaled", "work", "target", "out"}

(* "drm" and "mapped" are RKVC_MEM_DMABUF with a decoder's descriptor and  *)
(* with mapped pages, "host" is RKVC_MEM_HOST.                             *)
Memories == {"drm", "mapped", "host"}

Things == {"decoded", "src_handle", "dst_handle", "target_handle", "context",
           "src_block", "dst_block"}

VARIABLES
  pc,       \* where the thread is; "idle" between two frames or calls
  err,      \* the last call returned an error
  buf,      \* buf[b]: ref_count, mem_type, pts, and the pts of its av_frame
  live,     \* live[t]: how many things of role t exist
  access,   \* CPU or device access to the target begun and not ended
  badRead   \* history: what was read of which freed buffer

memVars == <<buf, live, access, badRead>>
baseVars == <<pc, err, memVars>>

NoBuffer == [refs |-> 0, mem |-> "host", pts |-> Missing, av |-> Missing]

MemoryInit ==
  /\ buf = [b \in Buffers |-> NoBuffer]
  /\ live = [t \in Things |-> 0]
  /\ access = {} /\ badRead = {}

(* A new buffer; its AVFrame has no time stamp unless it came with one.    *)
With(bs, b, m, p, a) ==
  [bs EXCEPT ![b] = [refs |-> @.refs + 1, mem |-> m, pts |-> p, av |-> a]]

Ref(bs, b) == [bs EXCEPT ![b].refs = @ + 1]
MutUnref(bs, b) == IF b \in {Null, "work"} THEN bs   \* forgets the copy
                   ELSE [bs EXCEPT ![b].refs = @ - 1]
Unref(bs, b) == IF b = Null THEN bs ELSE [bs EXCEPT ![b].refs = @ - 1]

IsDma(b) == buf[b].mem \in {"drm", "mapped"}

Plus(T) == [t \in Things |-> IF t \in T THEN live[t] + 1 ELSE live[t]]
Minus(T) == [t \in Things |-> IF t \in T THEN live[t] - 1 ELSE live[t]]

(* Reading the pixels or the stamp of b, and what a read of its stamp      *)
(* yields; a freed buffer may show anything.                               *)
Freed(what, b) == IF buf[b].refs = 0 THEN {<<what, b>>} ELSE {}
PtsRead(b) == IF buf[b].refs > 0 THEN {buf[b].pts} ELSE Stamps

(* The call ends and the thread goes on at l.                              *)
Return(l, e) == pc' = l /\ err' = e

MemoryTypeOK ==
  /\ err \in BOOLEAN /\ badRead \subseteq {"pixels", "stamp"} \X Buffers
  /\ buf \in [Buffers -> [refs : 0 .. 3, mem : Memories, pts : Stamps, av : Stamps]]
  /\ live \in [Things -> Nat]
  /\ access \subseteq {"read", "write"}
=============================================================================
