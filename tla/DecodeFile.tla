----------------------------- MODULE DecodeFile ------------------------------
(***************************************************************************)
(* decode_loop (lib/session.c): demux, decode, bring the frame to host     *)
(* memory or scale it up in hardware (node_dma_to_host.c, node_rga.c),     *)
(* write it to a file and offer it to the output port.  Frames, host       *)
(* copies and the scaler's one target buffer are reference counted; the    *)
(* decoder has a fixed number of surfaces for the frames it hands out.     *)
(***************************************************************************)
EXTENDS DecodeStage, FiniteSets

CONSTANTS
  Modes,      \* the kinds of session; see mode
  SameSize,   \* decoded frames already have the size the scaler makes
  Surfaces    \* decoder surfaces; unused for host frames

ASSUME DecodeFileAssumption ==
  /\ Modes \subseteq {"dma", "upscale", "dma_and_upscale", "host"}
  /\ SameSize \in BOOLEAN
  /\ Surfaces \in Nat \ {0}

VARIABLES
  mode,           \* whether the decoder hands out DMA-BUF frames, not host
                  \* memory, and session_needs_post_upscale, with RGA present
  host, display,  \* the loop's variables of these names
  failed,         \* err # RKVC_OK in this round
  cur,            \* the frame of this round, 0 outside
  refs,           \* ref_count of every buffer, 0 when it does not exist
  target,         \* frame whose picture the scaler's target buffer holds
  written,        \* history: frames written to the file
  skipped         \* history: frames whose round failed

fileVars == <<mode, host, display, failed, cur, refs, target, written,
             skipped>>
vars == <<runVars, decVars, fileVars>>

(* Buffers: decoded frame n is n, its host copy -n, and the scaler's       *)
(* target is Target.  0 is the null pointer.                               *)
Target == Last + 1
Objects == ((0 - Last) .. Target) \ {0}
Frames == 1 .. Last

Dma == mode \in {"dma", "dma_and_upscale"}
Upscale == mode \in {"upscale", "dma_and_upscale"}

(* What one sees in a buffer.                                              *)
Picture(o) == IF o = Target THEN target ELSE IF o < 0 THEN 0 - o ELSE o

Init ==
  /\ RunInit
  /\ DecInit
  /\ mode \in Modes
  /\ host = 0 /\ display = 0 /\ failed = FALSE /\ cur = 0
  /\ refs = [o \in Objects |-> 0]
  /\ target = 0
  /\ written = <<>> /\ skipped = {}

-----------------------------------------------------------------------------
(* The decoder's threads: a frame needs a surface nobody refers to.        *)
SurfacesUsed == Len(dec.ready) + Cardinality({n \in Frames : refs[n] > 0})

DecoderWorks ==
  /\ pc # "done"
  /\ dec.pending # <<>>
  /\ Dma => SurfacesUsed < Surfaces
  /\ dec' = Made(dec)
  /\ UNCHANGED <<runVars, fileVars, next, sent>>

(* The consumer of the output port looks at the buffer when it pulls it,   *)
(* and releases it.                                                        *)
PullDisplay ==
  /\ port # <<>>
  /\ pulled' = Append(pulled, Picture(Head(port)))
  /\ port' = Tail(port)
  /\ refs' = [refs EXCEPT ![Head(port)] = @ - 1]
  /\ UNCHANGED <<pc, stop, result, decVars, mode, host, display, failed, cur,
                 target, written, skipped>>

-----------------------------------------------------------------------------
(* The loop condition, and the end of the stream.                          *)
StopSeen ==
  /\ pc = "head" /\ stop
  /\ Finish("ok")
  /\ UNCHANGED <<stop, port, pulled, decVars, fileVars>>

MutReceiveEnd ==   \* takes the end of the stream for "not_yet"
  /\ pc = "receive"
  /\ NoMoreFrames
  /\ pc' = "head"
  /\ UNCHANGED <<result, stop, port, pulled, decVars, fileVars>>

ReceiveEnd ==
  /\ pc = "receive"
  /\ NoMoreFrames
  /\ Finish("ok")
  /\ UNCHANGED <<stop, port, pulled, decVars, fileVars>>

MutReceiveNothingEnds ==   \* takes "not_yet" for the end
  /\ pc = "receive"
  /\ NoFrameYet
  /\ Finish("ok")
  /\ UNCHANGED <<stop, port, pulled, decVars, fileVars>>

(* decode_loop also ends when there is nothing yet after the end of the    *)
(* input; FFmpeg's decoders then answer with a frame or with the end.      *)
ReceiveNothing ==
  /\ pc = "receive"
  /\ NoFrameYet
  /\ dec' = [dec EXCEPT !.settled = TRUE]
  /\ pc' = "head"
  /\ UNCHANGED <<stop, result, port, pulled, next, sent, fileVars>>

ReceiveFrame ==
  /\ pc = "receive"
  /\ HasFrame
  /\ dec' = Gave(dec)
  /\ cur' = Head(dec.ready)
  /\ refs' = [refs EXCEPT ![Head(dec.ready)] = 1]
  /\ failed' = FALSE
  /\ pc' = "host"
  /\ UNCHANGED <<stop, result, port, pulled, next, sent, mode, host, display,
                 target, written, skipped>>

(* session_frame_to_host: a DMA-BUF frame that RGA will scale, or a frame  *)
(* in host memory, is passed on; any other is copied.                      *)
FrameToHost ==
  /\ pc = "host"
  /\ pc' = "upscale"
  /\ \/ /\ ~Dma \/ Upscale
        /\ host' = cur
        /\ refs' = [refs EXCEPT ![cur] = @ + 1]
        /\ UNCHANGED failed
     \/ /\ Dma /\ ~Upscale
        /\ host' = 0 - cur
        /\ refs' = [refs EXCEPT ![0 - cur] = 1]
        /\ UNCHANGED failed
     \/ /\ Dma /\ ~Upscale /\ Fails("host")
        /\ failed' = TRUE
        /\ UNCHANGED <<host, refs>>
  /\ UNCHANGED <<stop, result, port, pulled, decVars, mode, display, cur,
                 target, written, skipped>>

(* session_apply_post_upscale with rkvc_rga_scale_ctx_process: *out is the *)
(* host frame until scaling worked.  A frame of the right size comes back  *)
(* as a new reference to itself; otherwise the answer is a reference to    *)
(* the target buffer, of which the scaler itself holds one since it was    *)
(* created.  Scaling may fail before or after it drew the picture.         *)
MutScaledTo(o) ==   \* hands out the target before the picture is in it
  /\ display' = o
  /\ refs' = [refs EXCEPT ![o] = IF o = Target /\ @ = 0 THEN 2 ELSE @ + 1]
  /\ target' = IF o = Target /\ target = 0 THEN cur ELSE target

ScaledTo(o) ==
  /\ display' = o
  /\ refs' = [refs EXCEPT ![o] = IF o = Target /\ @ = 0 THEN 2 ELSE @ + 1]
  /\ target' = IF o = Target THEN cur ELSE target

PostUpscale ==
  /\ pc = "upscale"
  /\ pc' = "write"
  /\ \/ /\ failed /\ UNCHANGED <<display, failed, refs, target>>
     \/ /\ ~failed /\ ~Upscale
        /\ display' = host
        /\ UNCHANGED <<failed, refs, target>>
     \/ /\ ~failed /\ Upscale
        /\ ScaledTo(IF SameSize THEN host ELSE Target)
        /\ UNCHANGED failed
     \/ /\ ~failed /\ Upscale /\ Fails("scale")
        /\ display' = host
        /\ failed' = TRUE
        /\ \/ UNCHANGED <<refs, target>>
           \/ /\ ~SameSize
              /\ target' = cur
              /\ refs' = [refs EXCEPT ![Target] = IF @ = 0 THEN 1 ELSE @]
  /\ UNCHANGED <<stop, result, port, pulled, decVars, mode, host, cur,
                 written, skipped>>

(* Write and push the frame, then release display, host and frame.  What   *)
(* goes wrong in a round is forgotten with it.                             *)
Drop(r, o) == IF o = 0 THEN r ELSE [r EXCEPT ![o] = @ - 1]
Released(r) ==
  Drop(Drop(IF display # host THEN Drop(r, display) ELSE r, host), cur)

MutReleasedNoHost(r) ==   \* forgets unref(host)
  Drop(IF display # host THEN Drop(r, display) ELSE r, cur)

MutReleaseRound(r) ==   \* forgets unref(host)
  /\ refs' = MutReleasedNoHost(r)
  /\ host' = 0 /\ display' = 0 /\ cur' = 0
  /\ pc' = "head"

ReleaseRound(r) ==
  /\ refs' = Released(r)
  /\ host' = 0 /\ display' = 0 /\ cur' = 0
  /\ pc' = "head"

WriteDisplay ==
  /\ pc = "write" /\ ~failed
  /\ written' = Append(written, Picture(display))
  /\ PushOutput(display)
  /\ ReleaseRound(IF port' = port THEN refs ELSE [refs EXCEPT ![display] = @ + 1])
  /\ UNCHANGED <<stop, result, pulled, decVars, mode, failed, target, skipped>>

(* The frame could not be read back for the file; it is pushed and counted *)
(* all the same.                                                           *)
WriteFails ==
  /\ pc = "write" /\ ~failed
  /\ Fails("write")
  /\ PushOutput(display)
  /\ ReleaseRound(IF port' = port THEN refs ELSE [refs EXCEPT ![display] = @ + 1])
  /\ skipped' = skipped \cup {cur}
  /\ UNCHANGED <<stop, result, pulled, decVars, mode, failed, target, written>>

SkipFrame ==
  /\ pc = "write" /\ failed
  /\ ReleaseRound(refs)
  /\ skipped' = skipped \cup {cur}
  /\ UNCHANGED <<stop, result, port, pulled, decVars, mode, failed, target,
                 written>>

-----------------------------------------------------------------------------
LoopStep ==
  \/ StopSeen \/ ReceiveFrame \/ ReceiveNothing \/ ReceiveEnd
  \/ FrameToHost \/ PostUpscale \/ WriteDisplay \/ WriteFails \/ SkipFrame
  \/ (FeedStep /\ UNCHANGED fileVars)

Returned == pc = "done" /\ UNCHANGED vars

Next ==
  \/ LoopStep
  \/ DecoderWorks
  \/ PullDisplay
  \/ (RequestStop /\ UNCHANGED <<decVars, fileVars>>)
  \/ Returned

Spec == Init /\ [][Next]_vars

(* The loop thread runs and the decoder works whenever it has a surface;   *)
(* nobody is obliged to pull from the output port.                         *)
FairSpec == Spec /\ WF_vars(Succeeds(LoopStep)) /\ WF_vars(DecoderWorks)

-----------------------------------------------------------------------------
TypeOK ==
  /\ DecTypeOK
  /\ pc \in {"head", "receive", "host", "upscale", "write", "done"}
  /\ stop \in BOOLEAN /\ result \in {"none", "ok", "fail"}
  /\ port \in Seq(Objects) /\ Len(port) <= PortDepth
  /\ host \in Objects \cup {0} /\ display \in Objects \cup {0}
  /\ failed \in BOOLEAN /\ cur \in 0 .. Last /\ mode \in Modes
  /\ refs \in [Objects -> Nat]
  /\ target \in 0 .. Last /\ written \in Seq(1 .. Last)
  /\ skipped \subseteq 1 .. Last

(* Every reference belongs to somebody: between two rounds to the output   *)
(* port, and for the target buffer also to the scaler.  A frame that is    *)
(* done with goes back to the decoder (session.c:610-624).                 *)
Queued(o) == Cardinality({i \in DOMAIN port : port[i] = o})
RefsBalanced ==
  pc \in {"head", "receive", "done"} =>
    \A o \in Objects :
      refs[o] = Queued(o) + (IF o = Target /\ target # 0 THEN 1 ELSE 0)

(* The file holds the frames in order and once each (session.c:594-609).   *)
WrittenInOrder == IsIncreasing(written)

(* A run that returns RKVC_OK and that nobody stopped read the whole file, *)
(* and wrote exactly the frames the decoder was given, except those whose  *)
(* round failed (session.c:549-625).                                       *)
Elements(s) == {s[i] : i \in DOMAIN s}

AllSentIsWritten ==
  result = "ok" /\ ~stop =>
    /\ next > Last
    /\ Elements(written) = Elements(sent) \ skipped

(* The consumer of the output port sees decoded frames in order and no     *)
(* frame twice, unless they are scaled up (session.c:611).                 *)
PortInOrder == ~Upscale => IsIncreasing(pulled)

(* The same for scaled frames: what the port shows stays as it was pushed. *)
PortShowsFrames == IsIncreasing(pulled)

(* The run ends, however few surfaces the decoder has and whether or not   *)
(* somebody reads the output port.                                         *)
Terminates == <>(pc = "done")

-----------------------------------------------------------------------------
(* What the application sees of a run is a transfer, too.  Of scaled       *)
(* frames the port promises nothing (session.c:549-625).                   *)
Received == Len(sent) - Len(dec.ready) - Len(dec.pending)
Accepted == SubSeq(sent, 1, Received)
Out == pulled \o [i \in DOMAIN port |-> Picture(port[i])]

Promise ==
  INSTANCE Transfer WITH
    Frames <- 1 .. Last,
    lossy <- FALSE,
    accepted <- Accepted,
    done <- IF cur = 0 THEN Received ELSE Received - 1,
    shown <- IF Upscale THEN <<>> ELSE Out,
    outcome <- result

IsTransfer == Promise!Spec

(* What is left to do, as in RunFile.                                      *)
StepsFrom ==
  CASE pc = "done" -> 0
    [] pc = "head" -> IF dec.eos THEN 2 ELSE 1
    [] pc = "receive" -> IF dec.eos THEN 1 ELSE 2
    [] pc = "write" -> 4 [] pc = "upscale" -> 5 [] pc = "host" -> 6

Feeding ==
  20 * (Last + 1 - next) + 10 * Len(dec.pending) + 9 * Len(dec.ready)
    + (IF dec.eos THEN 0 ELSE 4)

Work == Feeding + Len(port) + StepsFrom + (IF stop THEN 0 ELSE 1)

(* The loop waits for the decoder only while that has a surface to work    *)
(* with: neither the port nor the loop keeps one for ever.                 *)
NoStall ==
  pc = "receive" =>
    \/ HasFrame \/ NoFrameYet \/ NoMoreFrames
    \/ Dma => SurfacesUsed < Surfaces

(* Every step uses up work, and the loop never stalls, however few         *)
(* surfaces there are and whether or not somebody reads the port           *)
(* (session.c:549-625, node_mpp_dec.c:201-211).                            *)
Progress == [][Work' < Work]_vars /\ [](Work \in Nat /\ NoStall)
=============================================================================
