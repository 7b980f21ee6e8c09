-------------------------- MODULE FrameRoundProofs ---------------------------
(***************************************************************************)
(* Theorems about FrameRound, for streams of any length: whatever fails on *)
(* a frame's way, its references, its time stamp and the memory taken for  *)
(* it are accounted for.                                                   *)
(***************************************************************************)
EXTENDS FrameRound, FiniteSetTheorems, TLAPS

(* No frame is in hand.                                                    *)
Between ==
  \/ pc \in {"idle", "over", "closed", "tool", "unpack", "tool_process",
             "virtual", "virtual_resize", "fallback", "fallback_scale"}
  \/ pc = "received" /\ err

Coding == {"send", "copy", "stamp"}
Scaling == {"import", "begin", "resize", "end"}

(* Where each kind of use can be.                                          *)
PlaceInv ==
  /\ \/ kind = "transcode" /\ pc \in Coding \cup
          {"unpack", "received", "over", "release"}
     \/ kind = "encode" /\ pc \in Coding \cup {"received", "over", "release"}
     \/ kind = "decode" /\ pc \in Scaling \cup
          {"unpack", "received", "over", "upscale", "write", "writing", "release"}
     \/ kind = "nv12" /\ pc \in {"virtual", "virtual_resize", "fallback",
                                 "fallback_scale"}
     \/ kind = "tool_yuv420p" /\ pc \in {"tool", "fallback", "fallback_scale"}
     \/ kind = "tool_nv12" /\ pc \in {"tool", "tool_process"}
     \/ kind = "post" /\ pc \in {"post", "post_scale", "post_back", "shown"}
     \/ kind \in Kinds /\ pc \in {"idle", "closed"}
  /\ pc \in Scaling => scaling
  /\ pc = "received" /\ kind = "encode" => ~err
  /\ pc = "stamp" => backend = "svt"

(* Which buffers the variables of the code refer to.                       *)
HandInv ==
  /\ encFrame \in {Null, "frame", "scaled"}
  /\ encFrame # Null <=> Encoding /\ pc \in Coding \cup {"release"}
  /\ pc \in {"copy", "stamp"} =>
       IF encFrame = "frame" /\ buf["frame"].mem = "drm"
       THEN picture = "host" ELSE picture = encFrame
  /\ host \in {Null, "frame", "host"}
  /\ host # Null =>
       /\ kind = "decode"
       /\ pc \in Scaling \cup {"upscale", "write", "writing", "release"}
  /\ host = Null => pc \notin Scaling \cup {"upscale", "write", "writing"}
  /\ display = host \/ (display = "target" /\ host # Null)
  /\ display = "target" => scaling /\ pc \in {"write", "writing", "release"}
  /\ scaling /\ pc \in {"write", "writing"} => display = "target"
  /\ shown \in {Null, "frame", "scaled", "out"}
  /\ shown # Null => pc = "shown"
  /\ pc = "shown" /\ ~err => shown # Null

(* The memory of the buffers.                                              *)
MemoryInv ==
  /\ got.fmt = "drm" => source = "drm"
  /\ ~Between => \/ buf["frame"].mem = "host"
                 \/ buf["frame"].mem = "drm" /\ source = "drm"
  /\ encFrame = "scaled" => buf["scaled"].mem \in {"mapped", "host"}
  /\ host = "host" => buf["host"].mem = "host"
  /\ host = "frame" /\ ~scaling => buf["frame"].mem = "host"

(* Each reference has a holder.                                            *)
Second ==
  host = "frame" \/ (pc = "post_scale" /\ output = "nv12") \/ shown = "frame"
HostHeld == host = "host" \/ (pc = "copy" /\ picture = "host")
ScaledHeld == encFrame = "scaled" \/ pc = "post_back" \/ shown = "scaled"
ScaledTwice == pc = "copy" /\ picture = "scaled" /\ buf["scaled"].mem = "mapped"

RefsInv ==
  /\ Between => buf["frame"].refs = 0
  /\ ~Between /\ Second => buf["frame"].refs = 2
  /\ ~Between /\ ~Second => buf["frame"].refs = 1
  /\ HostHeld => buf["host"].refs = 1
  /\ ~HostHeld => buf["host"].refs = 0
  /\ ~ScaledHeld => buf["scaled"].refs = 0
  /\ ScaledHeld /\ ScaledTwice => buf["scaled"].refs = 2
  /\ ScaledHeld /\ ~ScaledTwice => buf["scaled"].refs = 1
  /\ buf["work"].refs \in {0, 1}
  /\ buf["work"].refs = 1 => pc \in {"import", "begin", "resize",
                                     "fallback_scale", "post_scale"}
  /\ pc = "fallback_scale" => buf["work"].refs = 1
  /\ pc = "post_scale" => (buf["work"].refs = 1 <=> output # "nv12")
  /\ display = "target" => buf["target"].refs = live["target_handle"] + 1
  /\ display # "target" => buf["target"].refs = live["target_handle"]
  /\ shown = "out" => buf["out"].refs = 1
  /\ shown # "out" => buf["out"].refs = 0

(* What else exists, and who has it.                                       *)
BothImported ==
  pc = "virtual_resize" \/ (kind = "tool_nv12" /\ pc \in {"idle", "tool_process"})

LiveInv ==
  /\ live["decoded"] \in {0, 1}
  /\ live["decoded"] = 1 => \/ pc = "unpack"
                            \/ err /\ pc \in {"received", "over", "closed"}
  /\ pc = "unpack" => live["decoded"] = 1
  /\ kind = "decode" => live["target_handle"] = live["context"]
  /\ kind # "decode" => live["target_handle"] = 0
  /\ live["context"] \in {0, 1}
  /\ live["context"] = 1 => \/ kind = "decode" /\ scaling /\ pc # "closed"
                            \/ kind = "tool_nv12" /\ pc \in {"idle", "tool_process"}
  /\ pc \in Scaling => live["context"] = 1
  /\ kind = "tool_nv12" /\ pc \in {"idle", "tool_process"} => live["context"] = 1
  /\ IF kind \in {"tool_nv12", "tool_yuv420p"} /\ pc \notin {"tool", "closed"}
     THEN live["src_block"] = 1 /\ live["dst_block"] = 1
     ELSE live["src_block"] = 0 /\ live["dst_block"] = 0
  /\ IF BothImported THEN live["src_handle"] >= 1 /\ live["dst_handle"] >= 1
                    ELSE live["src_handle"] >= 0 /\ live["dst_handle"] >= 0
  /\ ~lost /\ BothImported => live["src_handle"] = 1 /\ live["dst_handle"] = 1
  /\ ~lost /\ ~BothImported =>
       /\ live["dst_handle"] = 0
       /\ pc \in {"begin", "resize"} => live["src_handle"] = 1
       /\ pc \notin {"begin", "resize"} => live["src_handle"] = 0
  /\ lost => \/ kind = "nv12"
             \/ kind = "tool_nv12" /\ pc = "closed"

(* Every copy of the frame's time stamp is the one it came with: its true  *)
(* time, if it was told that.                                              *)
TimeInv ==
  LET p == buf["frame"].pts IN
  /\ pc = "unpack" =>
       /\ got.told \in {Missing, clock} /\ clock >= 0
       /\ got.pts = IF source = "drm" /\ got.fmt # "drm" THEN Missing ELSE got.told
  /\ ~Between => /\ p = CameWith /\ p \in {Missing, clock} /\ clock >= 0
                 /\ buf["frame"].av = p
  /\ pc \in Coding => buf[encFrame].pts = p
  /\ encFrame = "scaled" => buf["scaled"].av = Missing
  /\ pc = "copy" => /\ buf[picture].pts = p
                    /\ buf[picture].av = IF picture = "scaled" THEN Missing ELSE p
  /\ host # Null => buf[host].pts = p
  /\ pc \in {"write", "writing"} => buf[display].pts = p
  /\ pc = "post_scale" /\ output # "nv12" => buf["work"].pts = p
  /\ pc = "post_back" => buf["scaled"].pts = p
  /\ shown # Null => buf[shown].pts = p

(* The frame in hand has not been given to the encoder.                    *)
Unsent == pc \in Coding \cup {"unpack", "received"}

(* The encoder's numbers.                                                  *)
StampInv ==
  /\ stamps \in Seq(0 .. 2 * MaxStamp + 1)
  /\ nextPts \in Nat /\ nextPts <= MaxStamp + clock + 2
  /\ Unsent => nextPts <= MaxStamp + clock + 1
  /\ backend = "mpp" => /\ nextPts <= clock + 1
                        /\ Unsent => nextPts <= clock
                        /\ \A i \in DOMAIN stamps : stamps[i] < nextPts
  /\ backend = "svt" /\ seen = {} => stamps = <<>>
  /\ backend = "svt" /\ badRead = {} /\ seen = {TRUE} =>
       \A i \in DOMAIN stamps :
         stamps[i] <= clock /\ (Unsent => stamps[i] < clock)
  /\ backend = "svt" /\ badRead = {} /\ seen = {FALSE} =>
       \A i \in DOMAIN stamps : stamps[i] < nextPts

(* The brackets around accesses to the target.                             *)
AccessInv ==
  /\ "read" \in access => pc = "writing"
  /\ "write" \in access => scaling /\ pc \notin {"write", "writing"}

Bufs == [Buffers -> [refs : Int, mem : Memories, pts : Stamps, av : Stamps]]

(* Types, and what never changes.                                          *)
ScalarInv ==
  /\ err \in BOOLEAN /\ lost \in BOOLEAN
  /\ badRead \subseteq {"pixels", "stamp"} \X Buffers
  /\ access \subseteq {"read", "write"}
  /\ kind \in Kinds /\ scaling \in BOOLEAN
  /\ source \in {"drm", "nv12", "other"} /\ output \in {"nv12", "other"}
  /\ backend \in {"mpp", "svt"}
  /\ got \in [fmt : {"drm", "nv12", "other"}, pts : Stamps, told : Stamps]
  /\ clock \in Stamps
  /\ picture \in Buffers \cup {Null}
  /\ seen \subseteq BOOLEAN

MapInv == buf \in Bufs /\ live \in [Things -> Int]

IInv ==
  /\ ScalarInv /\ MapInv /\ PlaceInv /\ HandInv /\ MemoryInv /\ RefsInv
  /\ LiveInv /\ TimeInv /\ StampInv /\ AccessInv

-----------------------------------------------------------------------------
(* A reference less.                                                       *)
LEMMA UnrefTakes ==
  ASSUME NEW bs \in Bufs, NEW b \in Buffers \cup {Null}
  PROVE  /\ Unref(bs, b) \in Bufs
         /\ \A c \in Buffers : c # b => Unref(bs, b)[c] = bs[c]
         /\ b # Null => Unref(bs, b)[b].refs = bs[b].refs - 1
<1>1. CASE b = Null
  BY <1>1 DEF Buffers, Null, Unref
<1>2. CASE b # Null
  BY <1>2 DEF Bufs, Unref
<1> QED BY <1>1, <1>2

(* The end of decode_loop's round: display, host and frame are released.    *)
LEMMA DecodedReleased ==
  ASSUME MapInv, HandInv, ReleaseDecoded
  PROVE  /\ buf' \in Bufs
         /\ host = "frame" => buf'["frame"].refs = buf["frame"].refs - 2
         /\ host # "frame" => buf'["frame"].refs = buf["frame"].refs - 1
         /\ host = "host" => buf'["host"].refs = buf["host"].refs - 1
         /\ host # "host" => buf'["host"] = buf["host"]
         /\ display = "target" => buf'["target"].refs = buf["target"].refs - 1
         /\ display # "target" => buf'["target"] = buf["target"]
         /\ \A c \in {"scaled", "work", "out"} : buf'[c] = buf[c]
<1> DEFINE hidden == IF display # host THEN Unref(buf, display) ELSE buf
           rest == Unref(hidden, host)
<1>1. /\ {"frame", "host", "target", "scaled", "work", "out"} = Buffers
      /\ display \in Buffers \cup {Null} /\ host \in Buffers \cup {Null}
      /\ host \in {Null, "frame", "host"}
      /\ display = host \/ (display = "target" /\ host # Null)
      /\ buf \in Bufs
  BY DEF HandInv, MapInv, Buffers, Null
<1>2. /\ hidden \in Bufs
      /\ \A c \in Buffers : c # "target" => hidden[c] = buf[c]
      /\ display = "target" => hidden["target"].refs = buf["target"].refs - 1
      /\ display # "target" => hidden = buf
  <2>1. CASE display = host
    BY <1>1, <2>1 DEF Null
  <2>2. CASE display = "target" /\ host # display
    <3>1. hidden = Unref(buf, "target") /\ "target" \in Buffers /\ "target" # Null
      BY <1>1, <2>2 DEF Null
    <3> HIDE DEF hidden
    <3> QED BY <1>1, <2>2, <3>1, UnrefTakes
  <2> QED BY <1>1, <2>1, <2>2 DEF Null
<1> HIDE DEF hidden
<1>3. /\ rest \in Bufs
      /\ \A c \in Buffers : c # host => rest[c] = hidden[c]
      /\ host # Null => rest[host].refs = hidden[host].refs - 1
  BY <1>1, <1>2, UnrefTakes
<1> HIDE DEF rest
<1>4. /\ buf' \in Bufs
      /\ \A c \in Buffers : c # "frame" => buf'[c] = rest[c]
      /\ buf'["frame"].refs = rest["frame"].refs - 1
  <2>1. buf' = Unref(rest, "frame")
    BY DEF ReleaseDecoded, rest, hidden
  <2>2. "frame" \in Buffers \cup {Null} /\ "frame" # Null
    BY <1>1 DEF Null
  <2>3. /\ Unref(rest, "frame") \in Bufs
        /\ \A c \in Buffers : c # "frame" => Unref(rest, "frame")[c] = rest[c]
        /\ Unref(rest, "frame")["frame"].refs = rest["frame"].refs - 1
    BY <1>1, <1>3, <2>2, UnrefTakes
  <2> QED BY <2>1, <2>3
<1>5. /\ host = "frame" => buf'["frame"].refs = buf["frame"].refs - 2
      /\ host # "frame" => buf'["frame"].refs = buf["frame"].refs - 1
  <2>1. buf["frame"].refs \in Int
    BY <1>1 DEF Bufs
  <2> QED BY <1>1, <1>2, <1>3, <1>4, <2>1 DEF Null
<1>6. /\ host = "host" => buf'["host"].refs = buf["host"].refs - 1
      /\ host # "host" => buf'["host"] = buf["host"]
  BY <1>1, <1>2, <1>3, <1>4 DEF Null
<1>7. /\ display = "target" => buf'["target"].refs = buf["target"].refs - 1
      /\ display # "target" => buf'["target"] = buf["target"]
      /\ \A c \in {"scaled", "work", "out"} : buf'[c] = buf[c]
  BY <1>1, <1>2, <1>3, <1>4 DEF Null
<1> QED BY <1>4, <1>5, <1>6, <1>7

(* What the encoders' steps do, whatever the encoder answers.              *)
LEMMA MppSent ==
  ASSUME ScalarInv, MppSend(encFrame)
  PROVE  /\ pc = "copy" /\ pc' = "release" /\ err' \in BOOLEAN
         /\ buf' = Released(encFrame)
         /\ badRead' = badRead \cup Freed("pixels", picture)
         /\ UNCHANGED <<live, access, source, output, got, clock, backend,
                        picture, seen>>
BY DEF MppSend, Encode, Return, ScalarInv

(* The same for SVT-AV1's.                                                 *)
LEMMA SvtSent ==
  ASSUME ScalarInv, SvtSend
  PROVE  /\ pc = "stamp" /\ pc' \in {"release", "send"} /\ err' \in BOOLEAN
         /\ badRead' = badRead \cup Freed("stamp", picture)
         /\ seen' \subseteq BOOLEAN
         /\ UNCHANGED <<buf, live, access, source, output, got, clock,
                        backend, picture>>
<1>1. badRead' = badRead \cup Freed("stamp", picture)
  BY DEF SvtSend
<1>2. seen' \subseteq BOOLEAN
  BY Zenon DEF SvtSend, ScalarInv
<1>3. pc' \in {"release", "send"} /\ err' \in BOOLEAN
  BY DEF SvtSend, Encode, Return, ScalarInv
<1> QED BY <1>1, <1>2, <1>3 DEF SvtSend

(* What a set of import handles can be, and what making them changes.      *)
LEMMA HandleSets ==
  ASSUME NEW H \in SUBSET BothHandles
  PROVE  /\ H = BothHandles <=> "src_handle" \in H /\ "dst_handle" \in H
         /\ H = {} <=> "src_handle" \notin H /\ "dst_handle" \notin H
BY DEF BothHandles

(* What making a set of handles changes.                                   *)
LEMMA HandlesMade ==
  ASSUME MapInv, NEW H \in SUBSET BothHandles, live' = Plus(H)
  PROVE  /\ live'["decoded"] = live["decoded"]
         /\ live'["context"] = live["context"]
         /\ live'["target_handle"] = live["target_handle"]
         /\ live'["src_block"] = live["src_block"]
         /\ live'["dst_block"] = live["dst_block"]
         /\ "src_handle" \in H => live'["src_handle"] = live["src_handle"] + 1
         /\ "src_handle" \notin H => live'["src_handle"] = live["src_handle"]
         /\ "dst_handle" \in H => live'["dst_handle"] = live["dst_handle"] + 1
         /\ "dst_handle" \notin H => live'["dst_handle"] = live["dst_handle"]
<1>1. \A t \in Things : /\ t \in H => live'[t] = live[t] + 1
                        /\ t \notin H => live'[t] = live[t]
  BY DEF Plus
<1> QED BY <1>1 DEF BothHandles, Things

(* The cases of the steps' proofs.                                         *)
LEMMA NextCases ==
  ASSUME Next
  PROVE  \/ Receive
         \/ Load
         \/ ReceiveFailed
         \/ Unpack /\ UNCHANGED <<scaleVars, roundVars>>
         \/ Downscale
         \/ ToEncoder(encFrame) /\ UNCHANGED <<scaleVars, roundVars>>
         \/ ToEncoderFails /\ UNCHANGED <<scaleVars, roundVars>>
         \/ MppSend(encFrame) /\ UNCHANGED <<scaleVars, roundVars>>
         \/ SvtCopy(encFrame) /\ UNCHANGED <<scaleVars, roundVars>>
         \/ SvtSend /\ UNCHANGED <<scaleVars, roundVars>>
         \/ ReleaseEncoded
         \/ FrameToHost
         \/ Upscale /\ pc = "upscale"
         \/ Upscale /\ pc = "import"
         \/ Upscale /\ pc = "begin"
         \/ Upscale /\ pc = "resize"
         \/ Upscale /\ pc = "end"
         \/ WriteBegin
         \/ WriteEnd
         \/ ReleaseDecoded
         \/ kind = "tool_nv12" /\ ToolCreate /\ UNCHANGED <<nodeVars, roundVars>>
         \/ ToolBlocks /\ UNCHANGED <<nodeVars, roundVars>>
         \/ VirtualImport /\ UNCHANGED <<nodeVars, roundVars>>
         \/ VirtualResize /\ UNCHANGED <<nodeVars, roundVars>>
         \/ FallbackAlloc /\ UNCHANGED <<nodeVars, roundVars>>
         \/ FallbackScale /\ UNCHANGED <<nodeVars, roundVars>>
         \/ ToolProcess /\ UNCHANGED <<nodeVars, roundVars>>
         \/ PostConvert(output = "nv12") /\ UNCHANGED <<nodeVars, roundVars>>
         \/ PostScale(output = "nv12") /\ UNCHANGED <<nodeVars, roundVars>>
         \/ PostBack(output = "nv12") /\ UNCHANGED <<nodeVars, roundVars>>
         \/ ShownReleased /\ UNCHANGED <<nodeVars, roundVars>>
         \/ CallScale /\ UNCHANGED roundVars
         \/ End
         \/ Closed
<1>1. CASE EncodeFrame
  BY <1>1 DEF EncodeFrame
<1>2. CASE Upscale
  <2>1. pc \in {"upscale", "import", "begin", "resize", "end"}
    BY <1>2 DEF Upscale, ContextCreate, ProcessCopy, ProcessImport,
                ProcessBegin, ProcessResize, ProcessEnd
  <2> QED BY <1>2, <2>1
<1>3. CASE Outside
  BY <1>3, Zenon DEF Outside
<1> QED BY <1>1, <1>2, <1>3, Zenon DEF Next

-----------------------------------------------------------------------------
(* What a read adds to badRead.                                            *)
LEMMA ReadTypes ==
  ASSUME badRead \subseteq {"pixels", "stamp"} \X Buffers, NEW b \in Buffers,
         NEW what \in {"pixels", "stamp"}, badRead' = badRead \cup Freed(what, b)
  PROVE  badRead' \subseteq {"pixels", "stamp"} \X Buffers
BY DEF Freed

(* The encoder's node reads a buffer.                                      *)
LEMMA PictureIs ==
  ASSUME PlaceInv, HandInv, pc \in {"copy", "stamp"}
  PROVE  picture \in {"frame", "host", "scaled"} /\ encFrame \in {"frame", "scaled"}
BY DEF PlaceInv, HandInv, Encoding, Coding, Scaling, Null

(* The variables that are neither buffers nor counts keep their types.     *)
LEMMA ScalarInvStep ==
  ASSUME ScalarInv, PlaceInv, HandInv, Next
  PROVE  ScalarInv'
<1> USE DEF ScalarInv
<1>1. CASE Receive
  <2>1. clock' \in Stamps
        /\ got' \in [fmt : {"drm", "nv12", "other"}, pts : Stamps, told : Stamps]
    BY <1>1, StampAssumption DEF Receive, ReceiveFrame, Stamps, Missing
  <2> QED BY <1>1, <2>1 DEF Receive, ReceiveFrame, scaleVars, roundVars
<1>2. CASE Load \/ (Outside /\ CallScale)
  <2>1. clock < MaxStamp /\ clock' = clock + 1
    BY <1>2 DEF Load, CallScale
  <2>2. clock' \in Stamps
    BY <2>1, StampAssumption DEF Stamps, Missing
  <2>3. err' \in BOOLEAN
    BY <1>2 DEF Load, CallScale, Return
  <2> QED BY <1>2, <2>2, <2>3 DEF Load, Outside, CallScale, memVars, scaleVars,
                                  roundVars
<1>3. CASE Unpack /\ UNCHANGED <<scaleVars, roundVars>>
  <2> USE DEF Unpack, WrapDrm, TransferDrm, ConvertFrame, WrapFrame, MakeBuffer,
              Discard
  <2>1. err' \in BOOLEAN
    BY <1>3 DEF Return
  <2>2. got' = got \/ got' = [got EXCEPT !.fmt = "nv12", !.pts = Missing]
    BY <1>3
  <2>3. got' \in [fmt : {"drm", "nv12", "other"}, pts : Stamps, told : Stamps]
    <3>1. Missing \in Stamps
      BY StampAssumption DEF Stamps, Missing
    <3> QED BY <2>2, <3>1
  <2> QED BY <1>3, <2>1, <2>3 DEF scaleVars, roundVars
<1>4. CASE ToEncoder(encFrame) /\ UNCHANGED <<scaleVars, roundVars>>
  <2>1. encFrame \in Buffers
    BY <1>4 DEF ToEncoder, PlaceInv, HandInv, Encoding, Coding, Scaling, Buffers,
                Null
  <2>2. picture' \in Buffers
    BY <1>4, <2>1 DEF ToEncoder, IsDma, HostOf, Buffers
  <2> QED BY <1>4, <2>2 DEF ToEncoder, scaleVars, roundVars
<1>5. CASE /\ ToEncoderFails \/ MppSend(encFrame) \/ SvtCopy(encFrame) \/ SvtSend
           /\ UNCHANGED <<scaleVars, roundVars>>
  <2>1. badRead' \subseteq {"pixels", "stamp"} \X Buffers
    <3>1. CASE ToEncoderFails
      BY <3>1 DEF ToEncoderFails, memVars
    <3>2. CASE MppSend(encFrame) \/ SvtCopy(encFrame)
      <4>1. picture \in Buffers /\ badRead' = badRead \cup Freed("pixels", picture)
        BY <3>2, PictureIs DEF MppSend, SvtCopy, Buffers
      <4> QED BY <4>1, ReadTypes
    <3>3. CASE SvtSend
      <4>1. picture \in Buffers /\ badRead' = badRead \cup Freed("stamp", picture)
        BY <3>3, PictureIs DEF SvtSend, Buffers
      <4> QED BY <4>1, ReadTypes
    <3> QED BY <1>5, <3>1, <3>2, <3>3
  <2> QED
    BY <1>5, <2>1, MppSent, SvtSent DEF ToEncoderFails, SvtCopy, Return, memVars,
                                        nodeVars, scaleVars, roundVars
<1>6. CASE ReceiveFailed \/ Downscale \/ ReleaseEncoded \/ FrameToHost
  <2>1. err' \in BOOLEAN
    BY <1>6 DEF ReceiveFailed, Downscale, ReleaseEncoded, FrameToHost, Return
  <2> QED BY <1>6, <2>1 DEF ReceiveFailed, Downscale, ReleaseEncoded, FrameToHost,
                            memVars, nodeVars, scaleVars, roundVars
<1>7. CASE Upscale
  <2> USE DEF Upscale, ContextCreate, ProcessCopy, ProcessImport, ProcessBegin,
              ProcessResize, ProcessEnd
  <2>1. err' \in BOOLEAN
    BY <1>7 DEF Return
  <2>2. UNCHANGED <<badRead, lost>> /\ access' \subseteq {"read", "write"}
    BY <1>7 DEF memVars, scaleVars
  <2> QED BY <1>7, <2>1, <2>2 DEF nodeVars
<1>8. CASE WriteBegin \/ WriteEnd \/ ReleaseDecoded
  <2>1. access' \subseteq {"read", "write"}
    BY <1>8 DEF WriteBegin, WriteEnd, ReleaseDecoded
  <2>2. err' \in BOOLEAN
    BY <1>8 DEF WriteBegin, WriteEnd, ReleaseDecoded, Return
  <2>3. badRead' \subseteq {"pixels", "stamp"} \X Buffers
    <3>1. CASE WriteEnd
      <4>1. display \in Buffers
        BY <3>1 DEF WriteEnd, HandInv, Buffers, Null, Scaling
      <4>2. badRead' = badRead \cup Freed("pixels", display)
        BY <3>1 DEF WriteEnd
      <4> QED BY <4>1, <4>2, ReadTypes
    <3>2. CASE ~WriteEnd
      BY <1>8, <3>2 DEF WriteBegin, ReleaseDecoded
    <3> QED BY <3>1, <3>2
  <2> QED BY <1>8, <2>1, <2>2, <2>3 DEF WriteBegin, WriteEnd, ReleaseDecoded, nodeVars,
                                  scaleVars, roundVars
<1>9. CASE Outside /\ ~CallScale
  <2> USE DEF Outside, ToolCreate, ToolBlocks, VirtualImport, VirtualResize,
              FallbackAlloc, FallbackScale, ToolProcess, PostConvert, PostScale,
              PostBack, ShownReleased
  <2>1. err' \in BOOLEAN
    BY <1>9 DEF Return
  <2>2. UNCHANGED <<badRead, access, nodeVars, roundVars>>
    BY <1>9 DEF memVars
  <2>3. lost' \in BOOLEAN
    BY <1>9 DEF scaleVars
  <2> QED BY <2>1, <2>2, <2>3 DEF nodeVars, roundVars
<1>10. CASE End \/ Closed
  BY <1>10 DEF End, Closed, vars, baseVars, memVars, nodeVars, scaleVars, roundVars
<1> QED
  BY <1>1, <1>2, <1>3, <1>4, <1>5, <1>6, <1>7, <1>8, <1>9, <1>10
     DEF Next, EncodeFrame

(* Buffers and counts keep theirs.                                         *)
LEMMA MapInvStep ==
  ASSUME MapInv, ScalarInv, PlaceInv, HandInv, TimeInv, MemoryInv, Next
  PROVE  MapInv'
<1> USE StampAssumption DEF MapInv, ScalarInv, PlaceInv, HandInv,
        TimeInv, MemoryInv, Bufs, Things, Kinds, Stamps, Buffers, Null,
        Coding, Scaling, Encoding, Missing, Between, Memories, Sessions
<1>1. CASE Receive
  BY <1>1 DEF Receive, ReceiveFrame, scaleVars, roundVars, Plus
<1>2. CASE Load
  BY <1>2 DEF Load, With, Return, scaleVars, roundVars
<1>3. CASE ReceiveFailed
  BY <1>3 DEF ReceiveFailed, Return, memVars, nodeVars, scaleVars,
         roundVars
<1>4. CASE Unpack /\ UNCHANGED <<scaleVars, roundVars>>
  BY <1>4 DEF Unpack, scaleVars, roundVars, WrapDrm, TransferDrm,
         ConvertFrame, WrapFrame, MakeBuffer, Discard, With, Minus, Return
<1>5. CASE Downscale
  BY <1>5 DEF Downscale, ScaledFrom, Unref, Return, nodeVars, scaleVars,
         With
<1>6. CASE ToEncoder(encFrame) /\ UNCHANGED <<scaleVars, roundVars>>
  BY <1>6 DEF ToEncoder, scaleVars, roundVars, IsDma, HostOf, DmaToHost,
         With, Ref
<1>7. CASE ToEncoderFails /\ UNCHANGED <<scaleVars, roundVars>>
  BY <1>7 DEF ToEncoderFails, scaleVars, roundVars, Return, memVars,
         nodeVars
<1>8. CASE MppSend(encFrame) /\ UNCHANGED <<scaleVars, roundVars>>
  BY <1>8, MppSent DEF Released, IsDma, Unref, scaleVars, roundVars
<1>9. CASE SvtCopy(encFrame) /\ UNCHANGED <<scaleVars, roundVars>>
  BY <1>9 DEF SvtCopy, scaleVars, roundVars, Released, nodeVars, IsDma,
         Unref
<1>10. CASE SvtSend /\ UNCHANGED <<scaleVars, roundVars>>
  BY <1>10 DEF SvtSend, scaleVars, roundVars, Encode, Return
<1>11. CASE ReleaseEncoded
  BY <1>11 DEF ReleaseEncoded, Unref, nodeVars, scaleVars
<1>12. CASE FrameToHost
  BY <1>12 DEF FrameToHost, IsDma, Ref, DmaToHost, HostOf, Return,
         nodeVars, scaleVars, With
<1>13. CASE Upscale /\ pc = "upscale"
  BY <1>13 DEF Upscale, ContextCreate, ProcessCopy, ProcessImport,
         ProcessBegin, ProcessResize, ProcessEnd, memVars, scaleVars, nodeVars,
         With, Plus, Return, Unref, Work, Minus, Ref
<1>14. CASE Upscale /\ pc = "import"
  BY <1>14 DEF Upscale, ContextCreate, ProcessCopy, ProcessImport,
         ProcessBegin, ProcessResize, ProcessEnd, memVars, scaleVars, nodeVars,
         With, Plus, Return, Unref, Work, Minus, Ref
<1>15. CASE Upscale /\ pc = "begin"
  BY <1>15 DEF Upscale, ContextCreate, ProcessCopy, ProcessImport,
         ProcessBegin, ProcessResize, ProcessEnd, memVars, scaleVars, nodeVars,
         With, Plus, Return, Unref, Work, Minus, Ref
<1>16. CASE Upscale /\ pc = "resize"
  BY <1>16 DEF Upscale, ContextCreate, ProcessCopy, ProcessImport,
         ProcessBegin, ProcessResize, ProcessEnd, memVars, scaleVars, nodeVars,
         With, Plus, Return, Unref, Work, Minus, Ref
<1>17. CASE Upscale /\ pc = "end"
  BY <1>17 DEF Upscale, ContextCreate, ProcessCopy, ProcessImport,
         ProcessBegin, ProcessResize, ProcessEnd, memVars, scaleVars, nodeVars,
         With, Plus, Return, Unref, Work, Minus, Ref
<1>18. CASE WriteBegin
  BY <1>18 DEF WriteBegin, IsDma, nodeVars, scaleVars, roundVars
<1>19. CASE WriteEnd
  BY <1>19 DEF WriteEnd, nodeVars, scaleVars, roundVars
<1>20. CASE ReleaseDecoded
  <2>1. buf' \in Bufs
    BY <1>20, DecodedReleased
  <2> QED BY <1>20, <2>1 DEF ReleaseDecoded
<1>21. CASE /\ kind = "tool_nv12" /\ ToolCreate
            /\ UNCHANGED <<nodeVars, roundVars>>
  BY <1>21 DEF nodeVars, roundVars, ToolCreate, Plus, BothHandles,
         Return
<1>22. CASE ToolBlocks /\ UNCHANGED <<nodeVars, roundVars>>
  BY <1>22 DEF nodeVars, roundVars, ToolBlocks, Plus, Return, scaleVars
<1>23. CASE VirtualImport /\ UNCHANGED <<nodeVars, roundVars>>
  BY <1>23 DEF nodeVars, roundVars, VirtualImport, BothHandles, Plus
<1>24. CASE VirtualResize /\ UNCHANGED <<nodeVars, roundVars>>
  BY <1>24 DEF nodeVars, roundVars, VirtualResize, Minus, BothHandles,
         Return, scaleVars
<1>25. CASE FallbackAlloc /\ UNCHANGED <<nodeVars, roundVars>>
  BY <1>25 DEF nodeVars, roundVars, FallbackAlloc, With, Return,
         scaleVars
<1>26. CASE FallbackScale /\ UNCHANGED <<nodeVars, roundVars>>
  BY <1>26 DEF nodeVars, roundVars, FallbackScale, Unref, ScaledFrom,
         Return, scaleVars, With
<1>27. CASE ToolProcess /\ UNCHANGED <<nodeVars, roundVars>>
  BY <1>27 DEF nodeVars, roundVars, ToolProcess, Return, memVars,
         scaleVars
<1>28. CASE PostConvert(output = "nv12") /\ UNCHANGED <<nodeVars, roundVars>>
  BY <1>28 DEF nodeVars, roundVars, PostConvert, Ref, With, Return
<1>29. CASE PostScale(output = "nv12") /\ UNCHANGED <<nodeVars, roundVars>>
  BY <1>29 DEF nodeVars, roundVars, PostScale, Unref, ScaledFrom,
         PostSource, Return, With
<1>30. CASE PostBack(output = "nv12") /\ UNCHANGED <<nodeVars, roundVars>>
  BY <1>30 DEF nodeVars, roundVars, PostBack, Return, Unref, With
<1>31. CASE ShownReleased /\ UNCHANGED <<nodeVars, roundVars>>
  BY <1>31 DEF nodeVars, roundVars, ShownReleased, Unref, Return
<1>32. CASE CallScale /\ UNCHANGED roundVars
  BY <1>32 DEF nodeVars, roundVars, CallScale, memVars, scaleVars
<1>33. CASE End
  BY <1>33 DEF End, ContextDestroy, ToolDestroy, Minus, nodeVars,
         scaleVars, roundVars, Unref, BothHandles
<1>34. CASE Closed
  BY <1>34 DEF Closed, vars, baseVars, nodeVars, scaleVars, roundVars,
         memVars
<1> HIDE DEF MapInv, ScalarInv, PlaceInv, HandInv, TimeInv, MemoryInv
<1> QED
  BY <1>1, <1>2, <1>3, <1>4, <1>5, <1>6, <1>7, <1>8, <1>9, <1>10, <1>11,
     <1>12, <1>13, <1>14, <1>15, <1>16, <1>17, <1>18, <1>19, <1>20, <1>21,
     <1>22, <1>23, <1>24, <1>25, <1>26, <1>27, <1>28, <1>29, <1>30, <1>31,
     <1>32, <1>33, <1>34, NextCases

(* Each kind of use stays at its places.                                   *)
LEMMA PlaceInvStep ==
  ASSUME PlaceInv, ScalarInv, Next
  PROVE  PlaceInv'
<1> USE StampAssumption DEF PlaceInv, ScalarInv, Coding, Scaling,
        Kinds, Stamps, Buffers, Null, Sessions, Missing
<1>1. CASE Receive
  BY <1>1 DEF Receive, ReceiveFrame, scaleVars, roundVars
<1>2. CASE Load
  BY <1>2 DEF Load, Return, scaleVars, roundVars
<1>3. CASE ReceiveFailed
  BY <1>3 DEF ReceiveFailed, Return, memVars, nodeVars, scaleVars,
         roundVars
<1>4. CASE Unpack /\ UNCHANGED <<scaleVars, roundVars>>
  BY <1>4 DEF Unpack, scaleVars, roundVars, WrapDrm, TransferDrm,
         ConvertFrame, WrapFrame, MakeBuffer, Discard, Return
<1>5. CASE Downscale
  BY <1>5 DEF Downscale, Encoding, Return, nodeVars, scaleVars
<1>6. CASE ToEncoder(encFrame) /\ UNCHANGED <<scaleVars, roundVars>>
  BY <1>6 DEF ToEncoder, scaleVars, roundVars
<1>7. CASE ToEncoderFails /\ UNCHANGED <<scaleVars, roundVars>>
  BY <1>7 DEF ToEncoderFails, scaleVars, roundVars, Return, memVars,
         nodeVars
<1>8. CASE MppSend(encFrame) /\ UNCHANGED <<scaleVars, roundVars>>
  BY <1>8 DEF MppSend, scaleVars, roundVars, Encode, Return
<1>9. CASE SvtCopy(encFrame) /\ UNCHANGED <<scaleVars, roundVars>>
  BY <1>9 DEF SvtCopy, scaleVars, roundVars, nodeVars
<1>10. CASE SvtSend /\ UNCHANGED <<scaleVars, roundVars>>
  BY <1>10 DEF SvtSend, scaleVars, roundVars, Encode, Return
<1>11. CASE ReleaseEncoded
  BY <1>11 DEF ReleaseEncoded, Encoding, nodeVars, scaleVars
<1>12. CASE FrameToHost
  BY <1>12 DEF FrameToHost, Return, nodeVars, scaleVars
<1>13. CASE Upscale /\ pc = "upscale"
  BY <1>13 DEF Upscale, ContextCreate, ProcessCopy, ProcessImport,
         ProcessBegin, ProcessResize, ProcessEnd, memVars, scaleVars, nodeVars,
         Return
<1>14. CASE Upscale /\ pc = "import"
  BY <1>14 DEF Upscale, ContextCreate, ProcessCopy, ProcessImport,
         ProcessBegin, ProcessResize, ProcessEnd, memVars, scaleVars, nodeVars,
         Return
<1>15. CASE Upscale /\ pc = "begin"
  BY <1>15 DEF Upscale, ContextCreate, ProcessCopy, ProcessImport,
         ProcessBegin, ProcessResize, ProcessEnd, memVars, scaleVars, nodeVars,
         Return
<1>16. CASE Upscale /\ pc = "resize"
  BY <1>16 DEF Upscale, ContextCreate, ProcessCopy, ProcessImport,
         ProcessBegin, ProcessResize, ProcessEnd, memVars, scaleVars, nodeVars,
         Return
<1>17. CASE Upscale /\ pc = "end"
  BY <1>17 DEF Upscale, ContextCreate, ProcessCopy, ProcessImport,
         ProcessBegin, ProcessResize, ProcessEnd, memVars, scaleVars, nodeVars,
         Return
<1>18. CASE WriteBegin
  BY <1>18 DEF WriteBegin, nodeVars, scaleVars, roundVars
<1>19. CASE WriteEnd
  BY <1>19 DEF WriteEnd, nodeVars, scaleVars, roundVars
<1>20. CASE ReleaseDecoded
  BY <1>20 DEF ReleaseDecoded, Return, nodeVars, scaleVars
<1>21. CASE /\ kind = "tool_nv12" /\ ToolCreate
            /\ UNCHANGED <<nodeVars, roundVars>>
  BY <1>21 DEF nodeVars, roundVars, ToolCreate, BothHandles, Return
<1>22. CASE ToolBlocks /\ UNCHANGED <<nodeVars, roundVars>>
  BY <1>22 DEF nodeVars, roundVars, ToolBlocks, Return, scaleVars
<1>23. CASE VirtualImport /\ UNCHANGED <<nodeVars, roundVars>>
  BY <1>23 DEF nodeVars, roundVars, VirtualImport, BothHandles
<1>24. CASE VirtualResize /\ UNCHANGED <<nodeVars, roundVars>>
  BY <1>24 DEF nodeVars, roundVars, VirtualResize, BothHandles, Return,
         scaleVars
<1>25. CASE FallbackAlloc /\ UNCHANGED <<nodeVars, roundVars>>
  BY <1>25 DEF nodeVars, roundVars, FallbackAlloc, Return, scaleVars
<1>26. CASE FallbackScale /\ UNCHANGED <<nodeVars, roundVars>>
  BY <1>26 DEF nodeVars, roundVars, FallbackScale, Return, scaleVars
<1>27. CASE ToolProcess /\ UNCHANGED <<nodeVars, roundVars>>
  BY <1>27 DEF nodeVars, roundVars, ToolProcess, Return, memVars,
         scaleVars
<1>28. CASE PostConvert(output = "nv12") /\ UNCHANGED <<nodeVars, roundVars>>
  BY <1>28 DEF nodeVars, roundVars, PostConvert, Return
<1>29. CASE PostScale(output = "nv12") /\ UNCHANGED <<nodeVars, roundVars>>
  BY <1>29 DEF nodeVars, roundVars, PostScale, PostSource, Return
<1>30. CASE PostBack(output = "nv12") /\ UNCHANGED <<nodeVars, roundVars>>
  BY <1>30 DEF nodeVars, roundVars, PostBack, Return
<1>31. CASE ShownReleased /\ UNCHANGED <<nodeVars, roundVars>>
  BY <1>31 DEF nodeVars, roundVars, ShownReleased, Return
<1>32. CASE CallScale /\ UNCHANGED roundVars
  BY <1>32 DEF nodeVars, roundVars, CallScale, memVars, scaleVars
<1>33. CASE End
  BY <1>33 DEF End, ContextDestroy, ToolDestroy, nodeVars, scaleVars,
         roundVars, BothHandles
<1>34. CASE Closed
  BY <1>34 DEF Closed, vars, baseVars, nodeVars, scaleVars, roundVars,
         memVars
<1> HIDE DEF PlaceInv, ScalarInv
<1> QED
  BY <1>1, <1>2, <1>3, <1>4, <1>5, <1>6, <1>7, <1>8, <1>9, <1>10, <1>11,
     <1>12, <1>13, <1>14, <1>15, <1>16, <1>17, <1>18, <1>19, <1>20, <1>21,
     <1>22, <1>23, <1>24, <1>25, <1>26, <1>27, <1>28, <1>29, <1>30, <1>31,
     <1>32, <1>33, <1>34, NextCases

(* The brackets around accesses to the target are closed in time.          *)
LEMMA AccessInvStep ==
  ASSUME AccessInv, ScalarInv, PlaceInv, HandInv, Next
  PROVE  AccessInv'
<1> USE StampAssumption DEF AccessInv, ScalarInv, PlaceInv, HandInv,
        Kinds, Stamps, Buffers, Null, Coding, Scaling, Encoding, Sessions,
        Missing
<1>1. CASE Receive
  BY <1>1 DEF Receive, ReceiveFrame, scaleVars, roundVars
<1>2. CASE Load
  BY <1>2 DEF Load, Return, scaleVars, roundVars
<1>3. CASE ReceiveFailed
  BY <1>3 DEF ReceiveFailed, Return, memVars, nodeVars, scaleVars,
         roundVars
<1>4. CASE Unpack /\ UNCHANGED <<scaleVars, roundVars>>
  BY <1>4 DEF Unpack, scaleVars, roundVars, WrapDrm, TransferDrm,
         ConvertFrame, WrapFrame, MakeBuffer, Discard, Return
<1>5. CASE Downscale
  BY <1>5 DEF Downscale, Return, nodeVars, scaleVars
<1>6. CASE ToEncoder(encFrame) /\ UNCHANGED <<scaleVars, roundVars>>
  BY <1>6 DEF ToEncoder, scaleVars, roundVars, IsDma
<1>7. CASE ToEncoderFails /\ UNCHANGED <<scaleVars, roundVars>>
  BY <1>7 DEF ToEncoderFails, scaleVars, roundVars, Return, memVars,
         nodeVars
<1>8. CASE MppSend(encFrame) /\ UNCHANGED <<scaleVars, roundVars>>
  BY <1>8 DEF MppSend, scaleVars, roundVars, Encode, Return
<1>9. CASE SvtCopy(encFrame) /\ UNCHANGED <<scaleVars, roundVars>>
  BY <1>9 DEF SvtCopy, scaleVars, roundVars, nodeVars
<1>10. CASE SvtSend /\ UNCHANGED <<scaleVars, roundVars>>
  BY <1>10 DEF SvtSend, scaleVars, roundVars, Encode, Return
<1>11. CASE ReleaseEncoded
  BY <1>11 DEF ReleaseEncoded, nodeVars, scaleVars
<1>12. CASE FrameToHost
  BY <1>12 DEF FrameToHost, IsDma, Return, nodeVars, scaleVars
<1>13. CASE Upscale /\ pc = "upscale"
  BY <1>13 DEF Upscale, ContextCreate, ProcessCopy, ProcessImport,
         ProcessBegin, ProcessResize, ProcessEnd, memVars, scaleVars, nodeVars,
         Return
<1>14. CASE Upscale /\ pc = "import"
  BY <1>14 DEF Upscale, ContextCreate, ProcessCopy, ProcessImport,
         ProcessBegin, ProcessResize, ProcessEnd, memVars, scaleVars, nodeVars,
         Return
<1>15. CASE Upscale /\ pc = "begin"
  BY <1>15 DEF Upscale, ContextCreate, ProcessCopy, ProcessImport,
         ProcessBegin, ProcessResize, ProcessEnd, memVars, scaleVars, nodeVars,
         Return
<1>16. CASE Upscale /\ pc = "resize"
  BY <1>16 DEF Upscale, ContextCreate, ProcessCopy, ProcessImport,
         ProcessBegin, ProcessResize, ProcessEnd, memVars, scaleVars, nodeVars,
         Return
<1>17. CASE Upscale /\ pc = "end"
  BY <1>17 DEF Upscale, ContextCreate, ProcessCopy, ProcessImport,
         ProcessBegin, ProcessResize, ProcessEnd, memVars, scaleVars, nodeVars,
         Return
<1>18. CASE WriteBegin
  BY <1>18 DEF WriteBegin, IsDma, nodeVars, scaleVars, roundVars
<1>19. CASE WriteEnd
  BY <1>19 DEF WriteEnd, nodeVars, scaleVars, roundVars
<1>20. CASE ReleaseDecoded
  BY <1>20 DEF ReleaseDecoded, Return, nodeVars, scaleVars
<1>21. CASE /\ kind = "tool_nv12" /\ ToolCreate
            /\ UNCHANGED <<nodeVars, roundVars>>
  BY <1>21 DEF nodeVars, roundVars, ToolCreate, BothHandles, Return
<1>22. CASE ToolBlocks /\ UNCHANGED <<nodeVars, roundVars>>
  BY <1>22 DEF nodeVars, roundVars, ToolBlocks, Return, scaleVars
<1>23. CASE VirtualImport /\ UNCHANGED <<nodeVars, roundVars>>
  BY <1>23 DEF nodeVars, roundVars, VirtualImport, BothHandles
<1>24. CASE VirtualResize /\ UNCHANGED <<nodeVars, roundVars>>
  BY <1>24 DEF nodeVars, roundVars, VirtualResize, BothHandles, Return,
         scaleVars
<1>25. CASE FallbackAlloc /\ UNCHANGED <<nodeVars, roundVars>>
  BY <1>25 DEF nodeVars, roundVars, FallbackAlloc, Return, scaleVars
<1>26. CASE FallbackScale /\ UNCHANGED <<nodeVars, roundVars>>
  BY <1>26 DEF nodeVars, roundVars, FallbackScale, Return, scaleVars
<1>27. CASE ToolProcess /\ UNCHANGED <<nodeVars, roundVars>>
  BY <1>27 DEF nodeVars, roundVars, ToolProcess, Return, memVars,
         scaleVars
<1>28. CASE PostConvert(output = "nv12") /\ UNCHANGED <<nodeVars, roundVars>>
  BY <1>28 DEF nodeVars, roundVars, PostConvert, Return
<1>29. CASE PostScale(output = "nv12") /\ UNCHANGED <<nodeVars, roundVars>>
  BY <1>29 DEF nodeVars, roundVars, PostScale, PostSource, Return
<1>30. CASE PostBack(output = "nv12") /\ UNCHANGED <<nodeVars, roundVars>>
  BY <1>30 DEF nodeVars, roundVars, PostBack, Return
<1>31. CASE ShownReleased /\ UNCHANGED <<nodeVars, roundVars>>
  BY <1>31 DEF nodeVars, roundVars, ShownReleased, Return
<1>32. CASE CallScale /\ UNCHANGED roundVars
  BY <1>32 DEF nodeVars, roundVars, CallScale, memVars, scaleVars
<1>33. CASE End
  BY <1>33 DEF End, ContextDestroy, ToolDestroy, nodeVars, scaleVars,
         roundVars, BothHandles
<1>34. CASE Closed
  BY <1>34 DEF Closed, vars, baseVars, nodeVars, scaleVars, roundVars,
         memVars
<1> HIDE DEF AccessInv, ScalarInv, PlaceInv, HandInv
<1> QED
  BY <1>1, <1>2, <1>3, <1>4, <1>5, <1>6, <1>7, <1>8, <1>9, <1>10, <1>11,
     <1>12, <1>13, <1>14, <1>15, <1>16, <1>17, <1>18, <1>19, <1>20, <1>21,
     <1>22, <1>23, <1>24, <1>25, <1>26, <1>27, <1>28, <1>29, <1>30, <1>31,
     <1>32, <1>33, <1>34, NextCases

(* The variables of the code refer to what is in hand.                     *)
LEMMA HandInvStep ==
  ASSUME HandInv, ScalarInv, MapInv, PlaceInv, MemoryInv, Next
  PROVE  HandInv'
<1> USE StampAssumption DEF HandInv, ScalarInv, MapInv, PlaceInv,
        MemoryInv, Null, Encoding, Coding, Scaling, Kinds, Stamps, Buffers,
        Bufs, Things, Between, Sessions, Missing, Memories
<1>1. CASE Receive
  BY <1>1 DEF Receive, ReceiveFrame, scaleVars, roundVars
<1>2. CASE Load
  BY <1>2 DEF Load, With, Return, scaleVars, roundVars
<1>3. CASE ReceiveFailed
  BY <1>3 DEF ReceiveFailed, Return, memVars, nodeVars, scaleVars,
         roundVars
<1>4. CASE Unpack /\ UNCHANGED <<scaleVars, roundVars>>
  BY <1>4 DEF Unpack, scaleVars, roundVars, WrapDrm, TransferDrm,
         ConvertFrame, WrapFrame, MakeBuffer, Discard, With, Return
<1>5. CASE Downscale
  BY <1>5 DEF Downscale, ScaledFrom, Unref, Return, nodeVars, scaleVars,
         With
<1>6. CASE ToEncoder(encFrame) /\ UNCHANGED <<scaleVars, roundVars>>
  BY <1>6 DEF ToEncoder, scaleVars, roundVars, IsDma, HostOf, DmaToHost,
         With, Ref
<1>7. CASE ToEncoderFails /\ UNCHANGED <<scaleVars, roundVars>>
  BY <1>7 DEF ToEncoderFails, scaleVars, roundVars, Return, memVars,
         nodeVars
<1>8. CASE MppSend(encFrame) /\ UNCHANGED <<scaleVars, roundVars>>
  BY <1>8 DEF MppSend, scaleVars, roundVars, Encode, Released, Return,
         IsDma, Unref
<1>9. CASE SvtCopy(encFrame) /\ UNCHANGED <<scaleVars, roundVars>>
  BY <1>9 DEF SvtCopy, scaleVars, roundVars, Released, nodeVars, IsDma,
         Unref
<1>10. CASE SvtSend /\ UNCHANGED <<scaleVars, roundVars>>
  BY <1>10 DEF SvtSend, scaleVars, roundVars, Encode, Return
<1>11. CASE ReleaseEncoded
  BY <1>11 DEF ReleaseEncoded, Unref, nodeVars, scaleVars
<1>12. CASE FrameToHost
  BY <1>12 DEF FrameToHost, IsDma, Ref, DmaToHost, HostOf, Return,
         nodeVars, scaleVars, With
<1>13. CASE Upscale /\ pc = "upscale"
  BY <1>13 DEF Upscale, ContextCreate, ProcessCopy, ProcessImport,
         ProcessBegin, ProcessResize, ProcessEnd, memVars, scaleVars, nodeVars,
         With, Return, Unref, Ref
<1>14. CASE Upscale /\ pc = "import"
  BY <1>14 DEF Upscale, ContextCreate, ProcessCopy, ProcessImport,
         ProcessBegin, ProcessResize, ProcessEnd, memVars, scaleVars, nodeVars,
         With, Return, Unref, Ref
<1>15. CASE Upscale /\ pc = "begin"
  BY <1>15 DEF Upscale, ContextCreate, ProcessCopy, ProcessImport,
         ProcessBegin, ProcessResize, ProcessEnd, memVars, scaleVars, nodeVars,
         With, Return, Unref, Ref
<1>16. CASE Upscale /\ pc = "resize"
  BY <1>16 DEF Upscale, ContextCreate, ProcessCopy, ProcessImport,
         ProcessBegin, ProcessResize, ProcessEnd, memVars, scaleVars, nodeVars,
         With, Return, Unref, Ref
<1>17. CASE Upscale /\ pc = "end"
  BY <1>17 DEF Upscale, ContextCreate, ProcessCopy, ProcessImport,
         ProcessBegin, ProcessResize, ProcessEnd, memVars, scaleVars, nodeVars,
         With, Return, Unref, Ref
<1>18. CASE WriteBegin
  BY <1>18 DEF WriteBegin, IsDma, nodeVars, scaleVars, roundVars
<1>19. CASE WriteEnd
  BY <1>19 DEF WriteEnd, nodeVars, scaleVars, roundVars
<1>20. CASE ReleaseDecoded
  BY <1>20 DEF ReleaseDecoded, Unref, Return, nodeVars, scaleVars
<1>21. CASE /\ kind = "tool_nv12" /\ ToolCreate
            /\ UNCHANGED <<nodeVars, roundVars>>
  BY <1>21 DEF nodeVars, roundVars, ToolCreate, BothHandles, Return
<1>22. CASE ToolBlocks /\ UNCHANGED <<nodeVars, roundVars>>
  BY <1>22 DEF nodeVars, roundVars, ToolBlocks, Return, scaleVars
<1>23. CASE VirtualImport /\ UNCHANGED <<nodeVars, roundVars>>
  BY <1>23 DEF nodeVars, roundVars, VirtualImport, BothHandles
<1>24. CASE VirtualResize /\ UNCHANGED <<nodeVars, roundVars>>
  BY <1>24 DEF nodeVars, roundVars, VirtualResize, BothHandles, Return,
         scaleVars
<1>25. CASE FallbackAlloc /\ UNCHANGED <<nodeVars, roundVars>>
  BY <1>25 DEF nodeVars, roundVars, FallbackAlloc, With, Return,
         scaleVars
<1>26. CASE FallbackScale /\ UNCHANGED <<nodeVars, roundVars>>
  BY <1>26 DEF nodeVars, roundVars, FallbackScale, Unref, ScaledFrom,
         Return, scaleVars, With
<1>27. CASE ToolProcess /\ UNCHANGED <<nodeVars, roundVars>>
  BY <1>27 DEF nodeVars, roundVars, ToolProcess, Return, memVars,
         scaleVars
<1>28. CASE PostConvert(output = "nv12") /\ UNCHANGED <<nodeVars, roundVars>>
  BY <1>28 DEF nodeVars, roundVars, PostConvert, Ref, With, Return
<1>29. CASE PostScale(output = "nv12") /\ UNCHANGED <<nodeVars, roundVars>>
  BY <1>29 DEF nodeVars, roundVars, PostScale, Unref, ScaledFrom,
         PostSource, Return, With
<1>30. CASE PostBack(output = "nv12") /\ UNCHANGED <<nodeVars, roundVars>>
  BY <1>30 DEF nodeVars, roundVars, PostBack, Return, Unref, With
<1>31. CASE ShownReleased /\ UNCHANGED <<nodeVars, roundVars>>
  BY <1>31 DEF nodeVars, roundVars, ShownReleased, Unref, Return
<1>32. CASE CallScale /\ UNCHANGED roundVars
  BY <1>32 DEF nodeVars, roundVars, CallScale, memVars, scaleVars
<1>33. CASE End
  BY <1>33 DEF End, ContextDestroy, ToolDestroy, nodeVars, scaleVars,
         roundVars, Unref, BothHandles
<1>34. CASE Closed
  BY <1>34 DEF Closed, vars, baseVars, nodeVars, scaleVars, roundVars,
         memVars
<1> HIDE DEF HandInv, ScalarInv, MapInv, PlaceInv, MemoryInv
<1> QED
  BY <1>1, <1>2, <1>3, <1>4, <1>5, <1>6, <1>7, <1>8, <1>9, <1>10, <1>11,
     <1>12, <1>13, <1>14, <1>15, <1>16, <1>17, <1>18, <1>19, <1>20, <1>21,
     <1>22, <1>23, <1>24, <1>25, <1>26, <1>27, <1>28, <1>29, <1>30, <1>31,
     <1>32, <1>33, <1>34, NextCases

(* The memory of a buffer is what its role allows.                         *)
LEMMA MemoryInvStep ==
  ASSUME MemoryInv, ScalarInv, MapInv, PlaceInv, HandInv, Next
  PROVE  MemoryInv'
<1> USE StampAssumption DEF MemoryInv, ScalarInv, MapInv, PlaceInv,
        HandInv, Between, Kinds, Stamps, Buffers, Null, Bufs, Things, Coding,
        Scaling, Encoding, Sessions, Missing, Memories
<1>1. CASE Receive
  BY <1>1 DEF Receive, ReceiveFrame, scaleVars, roundVars
<1>2. CASE Load
  BY <1>2 DEF Load, With, Return, scaleVars, roundVars
<1>3. CASE ReceiveFailed
  BY <1>3 DEF ReceiveFailed, Return, memVars, nodeVars, scaleVars,
         roundVars
<1>4. CASE Unpack /\ UNCHANGED <<scaleVars, roundVars>>
  BY <1>4 DEF Unpack, scaleVars, roundVars, WrapDrm, TransferDrm,
         ConvertFrame, WrapFrame, MakeBuffer, Discard, With, Return
<1>5. CASE Downscale
  BY <1>5 DEF Downscale, ScaledFrom, Unref, Return, nodeVars, scaleVars,
         With
<1>6. CASE ToEncoder(encFrame) /\ UNCHANGED <<scaleVars, roundVars>>
  BY <1>6 DEF ToEncoder, scaleVars, roundVars, IsDma, HostOf, DmaToHost,
         With, Ref
<1>7. CASE ToEncoderFails /\ UNCHANGED <<scaleVars, roundVars>>
  BY <1>7 DEF ToEncoderFails, scaleVars, roundVars, Return, memVars,
         nodeVars
<1>8. CASE MppSend(encFrame) /\ UNCHANGED <<scaleVars, roundVars>>
  BY <1>8, MppSent DEF Released, IsDma, Unref, scaleVars, roundVars
<1>9. CASE SvtCopy(encFrame) /\ UNCHANGED <<scaleVars, roundVars>>
  BY <1>9 DEF SvtCopy, scaleVars, roundVars, Released, nodeVars, IsDma,
         Unref
<1>10. CASE SvtSend /\ UNCHANGED <<scaleVars, roundVars>>
  BY <1>10 DEF SvtSend, scaleVars, roundVars, Encode, Return
<1>11. CASE ReleaseEncoded
  BY <1>11 DEF ReleaseEncoded, Unref, nodeVars, scaleVars
<1>12. CASE FrameToHost
  BY <1>12 DEF FrameToHost, IsDma, Ref, DmaToHost, HostOf, Return,
         nodeVars, scaleVars, With
<1>13. CASE Upscale /\ pc = "upscale"
  BY <1>13 DEF Upscale, ContextCreate, ProcessCopy, ProcessImport,
         ProcessBegin, ProcessResize, ProcessEnd, memVars, scaleVars, nodeVars,
         With, Return, Unref, Ref
<1>14. CASE Upscale /\ pc = "import"
  BY <1>14 DEF Upscale, ContextCreate, ProcessCopy, ProcessImport,
         ProcessBegin, ProcessResize, ProcessEnd, memVars, scaleVars, nodeVars,
         With, Return, Unref, Ref
<1>15. CASE Upscale /\ pc = "begin"
  BY <1>15 DEF Upscale, ContextCreate, ProcessCopy, ProcessImport,
         ProcessBegin, ProcessResize, ProcessEnd, memVars, scaleVars, nodeVars,
         With, Return, Unref, Ref
<1>16. CASE Upscale /\ pc = "resize"
  BY <1>16 DEF Upscale, ContextCreate, ProcessCopy, ProcessImport,
         ProcessBegin, ProcessResize, ProcessEnd, memVars, scaleVars, nodeVars,
         With, Return, Unref, Ref
<1>17. CASE Upscale /\ pc = "end"
  BY <1>17 DEF Upscale, ContextCreate, ProcessCopy, ProcessImport,
         ProcessBegin, ProcessResize, ProcessEnd, memVars, scaleVars, nodeVars,
         With, Return, Unref, Ref
<1>18. CASE WriteBegin
  BY <1>18 DEF WriteBegin, IsDma, nodeVars, scaleVars, roundVars
<1>19. CASE WriteEnd
  BY <1>19 DEF WriteEnd, nodeVars, scaleVars, roundVars
<1>20. CASE ReleaseDecoded
  BY <1>20 DEF ReleaseDecoded, Unref, Return, nodeVars, scaleVars
<1>21. CASE /\ kind = "tool_nv12" /\ ToolCreate
            /\ UNCHANGED <<nodeVars, roundVars>>
  BY <1>21 DEF nodeVars, roundVars, ToolCreate, BothHandles, Return
<1>22. CASE ToolBlocks /\ UNCHANGED <<nodeVars, roundVars>>
  BY <1>22 DEF nodeVars, roundVars, ToolBlocks, Return, scaleVars
<1>23. CASE VirtualImport /\ UNCHANGED <<nodeVars, roundVars>>
  BY <1>23 DEF nodeVars, roundVars, VirtualImport, BothHandles
<1>24. CASE VirtualResize /\ UNCHANGED <<nodeVars, roundVars>>
  BY <1>24 DEF nodeVars, roundVars, VirtualResize, BothHandles, Return,
         scaleVars
<1>25. CASE FallbackAlloc /\ UNCHANGED <<nodeVars, roundVars>>
  BY <1>25 DEF nodeVars, roundVars, FallbackAlloc, With, Return,
         scaleVars
<1>26. CASE FallbackScale /\ UNCHANGED <<nodeVars, roundVars>>
  BY <1>26 DEF nodeVars, roundVars, FallbackScale, Unref, ScaledFrom,
         Return, scaleVars, With
<1>27. CASE ToolProcess /\ UNCHANGED <<nodeVars, roundVars>>
  BY <1>27 DEF nodeVars, roundVars, ToolProcess, Return, memVars,
         scaleVars
<1>28. CASE PostConvert(output = "nv12") /\ UNCHANGED <<nodeVars, roundVars>>
  BY <1>28 DEF nodeVars, roundVars, PostConvert, Ref, With, Return
<1>29. CASE PostScale(output = "nv12") /\ UNCHANGED <<nodeVars, roundVars>>
  BY <1>29 DEF nodeVars, roundVars, PostScale, Unref, ScaledFrom,
         PostSource, Return, With
<1>30. CASE PostBack(output = "nv12") /\ UNCHANGED <<nodeVars, roundVars>>
  BY <1>30 DEF nodeVars, roundVars, PostBack, Return, Unref, With
<1>31. CASE ShownReleased /\ UNCHANGED <<nodeVars, roundVars>>
  BY <1>31 DEF nodeVars, roundVars, ShownReleased, Unref, Return
<1>32. CASE CallScale /\ UNCHANGED roundVars
  BY <1>32 DEF nodeVars, roundVars, CallScale, memVars, scaleVars
<1>33. CASE End
  BY <1>33 DEF End, ContextDestroy, ToolDestroy, nodeVars, scaleVars,
         roundVars, Unref, BothHandles
<1>34. CASE Closed
  BY <1>34 DEF Closed, vars, baseVars, nodeVars, scaleVars, roundVars,
         memVars
<1> HIDE DEF MemoryInv, ScalarInv, MapInv, PlaceInv, HandInv
<1> QED
  BY <1>1, <1>2, <1>3, <1>4, <1>5, <1>6, <1>7, <1>8, <1>9, <1>10, <1>11,
     <1>12, <1>13, <1>14, <1>15, <1>16, <1>17, <1>18, <1>19, <1>20, <1>21,
     <1>22, <1>23, <1>24, <1>25, <1>26, <1>27, <1>28, <1>29, <1>30, <1>31,
     <1>32, <1>33, <1>34, NextCases

(* What exists besides buffers is known at every place.                    *)
LEMMA LiveInvStep ==
  ASSUME LiveInv, ScalarInv, MapInv, PlaceInv, Next
  PROVE  LiveInv'
<1> USE StampAssumption DEF LiveInv, ScalarInv, MapInv, PlaceInv,
        Scaling, BothImported, Kinds, Stamps, Buffers, Null, Things, Coding,
        Sessions, Missing
<1>1. CASE Receive
  BY <1>1 DEF Receive, ReceiveFrame, scaleVars, roundVars, Plus
<1>2. CASE Load
  BY <1>2 DEF Load, Return, scaleVars, roundVars
<1>3. CASE ReceiveFailed
  BY <1>3 DEF ReceiveFailed, Return, memVars, nodeVars, scaleVars,
         roundVars
<1>4. CASE Unpack /\ UNCHANGED <<scaleVars, roundVars>>
  BY <1>4 DEF Unpack, scaleVars, roundVars, WrapDrm, TransferDrm,
         ConvertFrame, WrapFrame, MakeBuffer, Discard, Minus, Return
<1>5. CASE Downscale
  BY <1>5 DEF Downscale, Encoding, Return, nodeVars, scaleVars
<1>6. CASE ToEncoder(encFrame) /\ UNCHANGED <<scaleVars, roundVars>>
  BY <1>6 DEF ToEncoder, scaleVars, roundVars
<1>7. CASE ToEncoderFails /\ UNCHANGED <<scaleVars, roundVars>>
  BY <1>7 DEF ToEncoderFails, scaleVars, roundVars, Return, memVars,
         nodeVars
<1>8. CASE MppSend(encFrame) /\ UNCHANGED <<scaleVars, roundVars>>
  BY <1>8 DEF MppSend, scaleVars, roundVars, Encode, Return
<1>9. CASE SvtCopy(encFrame) /\ UNCHANGED <<scaleVars, roundVars>>
  BY <1>9 DEF SvtCopy, scaleVars, roundVars, nodeVars
<1>10. CASE SvtSend /\ UNCHANGED <<scaleVars, roundVars>>
  BY <1>10 DEF SvtSend, scaleVars, roundVars, Encode, Return
<1>11. CASE ReleaseEncoded
  BY <1>11 DEF ReleaseEncoded, Encoding, nodeVars, scaleVars
<1>12. CASE FrameToHost
  BY <1>12 DEF FrameToHost, Return, nodeVars, scaleVars
<1>13. CASE Upscale /\ pc = "upscale"
  BY <1>13 DEF Upscale, ContextCreate, ProcessCopy, ProcessImport,
         ProcessBegin, ProcessResize, ProcessEnd, memVars, scaleVars, nodeVars,
         Plus, Return, Minus
<1>14. CASE Upscale /\ pc = "import"
  BY <1>14 DEF Upscale, ContextCreate, ProcessCopy, ProcessImport,
         ProcessBegin, ProcessResize, ProcessEnd, memVars, scaleVars, nodeVars,
         Plus, Return, Minus
<1>15. CASE Upscale /\ pc = "begin"
  BY <1>15 DEF Upscale, ContextCreate, ProcessCopy, ProcessImport,
         ProcessBegin, ProcessResize, ProcessEnd, memVars, scaleVars, nodeVars,
         Plus, Return, Minus
<1>16. CASE Upscale /\ pc = "resize"
  BY <1>16 DEF Upscale, ContextCreate, ProcessCopy, ProcessImport,
         ProcessBegin, ProcessResize, ProcessEnd, memVars, scaleVars, nodeVars,
         Plus, Return, Minus
<1>17. CASE Upscale /\ pc = "end"
  BY <1>17 DEF Upscale, ContextCreate, ProcessCopy, ProcessImport,
         ProcessBegin, ProcessResize, ProcessEnd, memVars, scaleVars, nodeVars,
         Plus, Return, Minus
<1>18. CASE WriteBegin
  BY <1>18 DEF WriteBegin, nodeVars, scaleVars, roundVars
<1>19. CASE WriteEnd
  BY <1>19 DEF WriteEnd, nodeVars, scaleVars, roundVars
<1>20. CASE ReleaseDecoded
  BY <1>20 DEF ReleaseDecoded, Return, nodeVars, scaleVars
<1>21. CASE /\ kind = "tool_nv12" /\ ToolCreate
            /\ UNCHANGED <<nodeVars, roundVars>>
  <2>1. CASE pc' = "idle"
    <3>1. live' = Plus({"context", "src_block", "dst_block"} \cup BothHandles)
      BY <1>21, <2>1 DEF ToolCreate, Return
    <3>2. /\ live'["decoded"] = live["decoded"]
          /\ live'["target_handle"] = live["target_handle"]
          /\ live'["context"] = live["context"] + 1
          /\ live'["src_block"] = live["src_block"] + 1
          /\ live'["dst_block"] = live["dst_block"] + 1
          /\ live'["src_handle"] = live["src_handle"] + 1
          /\ live'["dst_handle"] = live["dst_handle"] + 1
      BY <3>1 DEF Plus, Things, BothHandles
    <3> QED BY <1>21, <2>1, <3>2 DEF ToolCreate, Return, roundVars
  <2>2. CASE pc' = "closed"
    <3>1. PICK H \in SUBSET BothHandles :
            H # BothHandles /\ live' = Plus(H) /\ lost' = (H # {})
      BY <1>21, <2>2 DEF ToolCreate, Return
    <3>2. /\ live'["decoded"] = live["decoded"]
          /\ live'["context"] = live["context"]
          /\ live'["target_handle"] = live["target_handle"]
          /\ live'["src_block"] = live["src_block"]
          /\ live'["dst_block"] = live["dst_block"]
          /\ "src_handle" \in H => live'["src_handle"] = live["src_handle"] + 1
          /\ "src_handle" \notin H => live'["src_handle"] = live["src_handle"]
          /\ "dst_handle" \in H => live'["dst_handle"] = live["dst_handle"] + 1
          /\ "dst_handle" \notin H => live'["dst_handle"] = live["dst_handle"]
      BY <3>1, HandlesMade
    <3>3. pc = "tool" /\ kind = "tool_nv12" /\ UNCHANGED <<kind, scaling>> /\ err'
      BY <1>21, <2>2 DEF ToolCreate, Return, roundVars
    <3>4. ~lost
      BY <3>3
    <3>5. CASE H = {}
      BY <2>2, <3>1, <3>2, <3>3, <3>5
    <3>6. CASE H # {}
      <4>1. /\ live'["src_handle"] >= live["src_handle"]
            /\ live'["dst_handle"] >= live["dst_handle"]
            /\ live'["src_handle"] \in Int /\ live'["dst_handle"] \in Int
        BY <3>2
      <4> QED BY <2>2, <3>1, <3>2, <3>3, <3>6, <4>1
    <3> QED BY <3>5, <3>6
  <2> QED BY <1>21, <2>1, <2>2 DEF ToolCreate, Return
<1>22. CASE ToolBlocks /\ UNCHANGED <<nodeVars, roundVars>>
  BY <1>22 DEF nodeVars, roundVars, ToolBlocks, Plus, Return, scaleVars
<1>23. CASE VirtualImport /\ UNCHANGED <<nodeVars, roundVars>>
  <2>1. PICK H \in SUBSET BothHandles :
          /\ live' = Plus(H)
          /\ lost' = (lost \/ H \notin {{}, BothHandles})
          /\ pc' = IF H = BothHandles THEN "virtual_resize" ELSE "fallback"
    BY <1>23 DEF VirtualImport
  <2>2. /\ live'["decoded"] = live["decoded"]
        /\ live'["context"] = live["context"]
        /\ live'["target_handle"] = live["target_handle"]
        /\ live'["src_block"] = live["src_block"]
        /\ live'["dst_block"] = live["dst_block"]
        /\ "src_handle" \in H => live'["src_handle"] = live["src_handle"] + 1
        /\ "src_handle" \notin H => live'["src_handle"] = live["src_handle"]
        /\ "dst_handle" \in H => live'["dst_handle"] = live["dst_handle"] + 1
        /\ "dst_handle" \notin H => live'["dst_handle"] = live["dst_handle"]
    BY <2>1, HandlesMade
  <2>3. pc = "virtual" /\ UNCHANGED <<kind, scaling, err>>
    BY <1>23 DEF VirtualImport, roundVars
  <2>4. CASE H = BothHandles
    <3>1. pc' = "virtual_resize" /\ lost' = lost
      BY <2>1, <2>4
    <3>2. /\ live'["src_handle"] = live["src_handle"] + 1
          /\ live'["dst_handle"] = live["dst_handle"] + 1
      BY <2>2, <2>4 DEF BothHandles
    <3> QED BY <2>2, <2>3, <3>1, <3>2
  <2>5. CASE H = {}
    <3>1. pc' = "fallback" /\ lost' = lost
      BY <2>1, <2>5, HandleSets
    <3> QED BY <2>2, <2>3, <2>5, <3>1
  <2>6. CASE H # BothHandles /\ H # {}
    <3>1. pc' = "fallback" /\ lost'
      BY <2>1, <2>6
    <3>2. /\ live'["src_handle"] >= live["src_handle"]
          /\ live'["dst_handle"] >= live["dst_handle"]
          /\ live'["src_handle"] \in Int /\ live'["dst_handle"] \in Int
      BY <2>2
    <3> QED BY <2>2, <2>3, <3>1, <3>2
  <2> QED BY <2>4, <2>5, <2>6
<1>24. CASE VirtualResize /\ UNCHANGED <<nodeVars, roundVars>>
  BY <1>24 DEF nodeVars, roundVars, VirtualResize, Minus, BothHandles,
         Return, scaleVars
<1>25. CASE FallbackAlloc /\ UNCHANGED <<nodeVars, roundVars>>
  BY <1>25 DEF nodeVars, roundVars, FallbackAlloc, Return, scaleVars
<1>26. CASE FallbackScale /\ UNCHANGED <<nodeVars, roundVars>>
  BY <1>26 DEF nodeVars, roundVars, FallbackScale, Return, scaleVars
<1>27. CASE ToolProcess /\ UNCHANGED <<nodeVars, roundVars>>
  BY <1>27 DEF nodeVars, roundVars, ToolProcess, Return, memVars,
         scaleVars
<1>28. CASE PostConvert(output = "nv12") /\ UNCHANGED <<nodeVars, roundVars>>
  BY <1>28 DEF nodeVars, roundVars, PostConvert, Return
<1>29. CASE PostScale(output = "nv12") /\ UNCHANGED <<nodeVars, roundVars>>
  BY <1>29 DEF nodeVars, roundVars, PostScale, PostSource, Return
<1>30. CASE PostBack(output = "nv12") /\ UNCHANGED <<nodeVars, roundVars>>
  BY <1>30 DEF nodeVars, roundVars, PostBack, Return
<1>31. CASE ShownReleased /\ UNCHANGED <<nodeVars, roundVars>>
  BY <1>31 DEF nodeVars, roundVars, ShownReleased, Return
<1>32. CASE CallScale /\ UNCHANGED roundVars
  BY <1>32 DEF nodeVars, roundVars, CallScale, memVars, scaleVars
<1>33. CASE End
  BY <1>33 DEF End, ContextDestroy, ToolDestroy, Minus, nodeVars,
         scaleVars, roundVars, BothHandles
<1>34. CASE Closed
  BY <1>34 DEF Closed, vars, baseVars, nodeVars, scaleVars, roundVars,
         memVars
<1> HIDE DEF LiveInv, ScalarInv, MapInv, PlaceInv
<1> QED
  BY <1>1, <1>2, <1>3, <1>4, <1>5, <1>6, <1>7, <1>8, <1>9, <1>10, <1>11,
     <1>12, <1>13, <1>14, <1>15, <1>16, <1>17, <1>18, <1>19, <1>20, <1>21,
     <1>22, <1>23, <1>24, <1>25, <1>26, <1>27, <1>28, <1>29, <1>30, <1>31,
     <1>32, <1>33, <1>34, NextCases

(* The references are as many as their holders.                            *)
LEMMA RefsInvStep ==
  ASSUME RefsInv, ScalarInv, MapInv, PlaceInv, HandInv, MemoryInv, LiveInv,
         Next
  PROVE  RefsInv'
<1> USE StampAssumption DEF RefsInv, ScalarInv, MapInv, PlaceInv,
        HandInv, MemoryInv, LiveInv, Between, Second, HostHeld, ScaledHeld,
        ScaledTwice, Kinds, Stamps, Buffers, Null, Bufs, Things, Coding,
        Scaling, Encoding, BothImported, Sessions, Missing, Memories
<1>1. CASE Receive
  BY <1>1 DEF Receive, ReceiveFrame, scaleVars, roundVars, Plus
<1>2. CASE Load
  BY <1>2 DEF Load, With, Return, scaleVars, roundVars
<1>3. CASE ReceiveFailed
  BY <1>3 DEF ReceiveFailed, Return, memVars, nodeVars, scaleVars,
         roundVars
<1>4. CASE Unpack /\ UNCHANGED <<scaleVars, roundVars>>
  BY <1>4 DEF Unpack, scaleVars, roundVars, WrapDrm, TransferDrm,
         ConvertFrame, WrapFrame, MakeBuffer, Discard, With, Minus, Return
<1>5. CASE Downscale
  BY <1>5 DEF Downscale, ScaledFrom, Unref, Return, nodeVars, scaleVars,
         With
<1>6. CASE ToEncoder(encFrame) /\ UNCHANGED <<scaleVars, roundVars>>
  BY <1>6 DEF ToEncoder, scaleVars, roundVars, IsDma, HostOf, DmaToHost,
         With, Ref
<1>7. CASE ToEncoderFails /\ UNCHANGED <<scaleVars, roundVars>>
  BY <1>7 DEF ToEncoderFails, scaleVars, roundVars, Return, memVars,
         nodeVars
<1>8. CASE MppSend(encFrame) /\ UNCHANGED <<scaleVars, roundVars>>
  BY <1>8, MppSent DEF Released, IsDma, Unref, scaleVars, roundVars
<1>9. CASE SvtCopy(encFrame) /\ UNCHANGED <<scaleVars, roundVars>>
  BY <1>9 DEF SvtCopy, scaleVars, roundVars, Released, nodeVars, IsDma,
         Unref
<1>10. CASE SvtSend /\ UNCHANGED <<scaleVars, roundVars>>
  BY <1>10 DEF SvtSend, scaleVars, roundVars, Encode, Return
<1>11. CASE ReleaseEncoded
  BY <1>11 DEF ReleaseEncoded, Unref, nodeVars, scaleVars
<1>12. CASE FrameToHost
  BY <1>12 DEF FrameToHost, IsDma, Ref, DmaToHost, HostOf, Return,
         nodeVars, scaleVars, With
<1>13. CASE Upscale /\ pc = "upscale"
  BY <1>13 DEF Upscale, ContextCreate, ProcessCopy, ProcessImport,
         ProcessBegin, ProcessResize, ProcessEnd, memVars, scaleVars, nodeVars,
         With, Plus, Return, Unref, Work, Minus, Ref
<1>14. CASE Upscale /\ pc = "import"
  BY <1>14 DEF Upscale, ContextCreate, ProcessCopy, ProcessImport,
         ProcessBegin, ProcessResize, ProcessEnd, memVars, scaleVars, nodeVars,
         With, Plus, Return, Unref, Work, Minus, Ref
<1>15. CASE Upscale /\ pc = "begin"
  BY <1>15 DEF Upscale, ContextCreate, ProcessCopy, ProcessImport,
         ProcessBegin, ProcessResize, ProcessEnd, memVars, scaleVars, nodeVars,
         With, Plus, Return, Unref, Work, Minus, Ref
<1>16. CASE Upscale /\ pc = "resize"
  BY <1>16 DEF Upscale, ContextCreate, ProcessCopy, ProcessImport,
         ProcessBegin, ProcessResize, ProcessEnd, memVars, scaleVars, nodeVars,
         With, Plus, Return, Unref, Work, Minus, Ref
<1>17. CASE Upscale /\ pc = "end"
  BY <1>17 DEF Upscale, ContextCreate, ProcessCopy, ProcessImport,
         ProcessBegin, ProcessResize, ProcessEnd, memVars, scaleVars, nodeVars,
         With, Plus, Return, Unref, Work, Minus, Ref
<1>18. CASE WriteBegin
  BY <1>18 DEF WriteBegin, IsDma, nodeVars, scaleVars, roundVars
<1>19. CASE WriteEnd
  BY <1>19 DEF WriteEnd, nodeVars, scaleVars, roundVars
<1>20. CASE ReleaseDecoded
  <2>1. /\ pc = "release" /\ pc' = "idle" /\ err' = FALSE
        /\ host' = Null /\ display' = Null /\ UNCHANGED <<encFrame, shown, live>>
    BY <1>20 DEF ReleaseDecoded, Return, scaleVars
  <2>2. /\ host = "frame" => buf'["frame"].refs = buf["frame"].refs - 2
        /\ host # "frame" => buf'["frame"].refs = buf["frame"].refs - 1
        /\ host = "host" => buf'["host"].refs = buf["host"].refs - 1
        /\ host # "host" => buf'["host"] = buf["host"]
        /\ display = "target" => buf'["target"].refs = buf["target"].refs - 1
        /\ display # "target" => buf'["target"] = buf["target"]
        /\ \A c \in {"scaled", "work", "out"} : buf'[c] = buf[c]
    BY <1>20, DecodedReleased
  <2> QED BY <1>20, <2>1, <2>2 DEF ReleaseDecoded
<1>21. CASE /\ kind = "tool_nv12" /\ ToolCreate
            /\ UNCHANGED <<nodeVars, roundVars>>
  BY <1>21 DEF nodeVars, roundVars, ToolCreate, Plus, BothHandles,
         Return
<1>22. CASE ToolBlocks /\ UNCHANGED <<nodeVars, roundVars>>
  BY <1>22 DEF nodeVars, roundVars, ToolBlocks, Plus, Return, scaleVars
<1>23. CASE VirtualImport /\ UNCHANGED <<nodeVars, roundVars>>
  BY <1>23 DEF nodeVars, roundVars, VirtualImport, BothHandles, Plus
<1>24. CASE VirtualResize /\ UNCHANGED <<nodeVars, roundVars>>
  BY <1>24 DEF nodeVars, roundVars, VirtualResize, Minus, BothHandles,
         Return, scaleVars
<1>25. CASE FallbackAlloc /\ UNCHANGED <<nodeVars, roundVars>>
  BY <1>25 DEF nodeVars, roundVars, FallbackAlloc, With, Return,
         scaleVars
<1>26. CASE FallbackScale /\ UNCHANGED <<nodeVars, roundVars>>
  BY <1>26 DEF nodeVars, roundVars, FallbackScale, Unref, ScaledFrom,
         Return, scaleVars, With
<1>27. CASE ToolProcess /\ UNCHANGED <<nodeVars, roundVars>>
  BY <1>27 DEF nodeVars, roundVars, ToolProcess, Return, memVars,
         scaleVars
<1>28. CASE PostConvert(output = "nv12") /\ UNCHANGED <<nodeVars, roundVars>>
  BY <1>28 DEF nodeVars, roundVars, PostConvert, Ref, With, Return
<1>29. CASE PostScale(output = "nv12") /\ UNCHANGED <<nodeVars, roundVars>>
  BY <1>29 DEF nodeVars, roundVars, PostScale, Unref, ScaledFrom,
         PostSource, Return, With
<1>30. CASE PostBack(output = "nv12") /\ UNCHANGED <<nodeVars, roundVars>>
  BY <1>30 DEF nodeVars, roundVars, PostBack, Return, Unref, With
<1>31. CASE ShownReleased /\ UNCHANGED <<nodeVars, roundVars>>
  BY <1>31 DEF nodeVars, roundVars, ShownReleased, Unref, Return
<1>32. CASE CallScale /\ UNCHANGED roundVars
  BY <1>32 DEF nodeVars, roundVars, CallScale, memVars, scaleVars
<1>33. CASE End
  <2>1. /\ pc \in {"idle", "over"} /\ pc' = "closed"
        /\ UNCHANGED <<nodeVars, scaleVars, roundVars>>
    BY <1>33 DEF End
  <2>2. /\ \A b \in Buffers : b # "target" => buf'[b] = buf[b]
        /\ buf'["target"].refs - live'["target_handle"] =
             buf["target"].refs - live["target_handle"]
        /\ buf'["target"].refs \in Int /\ live'["target_handle"] \in Int
    <3>1. CASE kind \in Sessions /\ live["context"] > 0
      BY <1>33, <3>1 DEF End, ContextDestroy, Minus, Unref
    <3>2. CASE kind = "tool_nv12"
      BY <1>33, <3>2 DEF End, ToolDestroy, Minus, BothHandles
    <3>3. CASE kind = "tool_yuv420p"
      BY <1>33, <3>3 DEF End, Minus
    <3>4. CASE /\ ~(kind \in Sessions /\ live["context"] > 0)
               /\ kind \notin {"tool_nv12", "tool_yuv420p"}
      BY <1>33, <3>4 DEF End
    <3> QED BY <3>1, <3>2, <3>3, <3>4
  <2>3. encFrame = Null /\ host = Null /\ display = Null /\ shown = Null
    BY <2>1
  <2>4. /\ \A b \in Buffers \ {"target"} : buf'[b].refs = 0
        /\ buf'["target"].refs = live'["target_handle"]
    <3>1. \A b \in Buffers \ {"target"} : buf[b].refs = 0
      BY <2>1, <2>3
    <3>2. buf["target"].refs = live["target_handle"]
      BY <2>3
    <3>3. buf["target"].refs \in Int /\ live["target_handle"] \in Int
      BY DEF MapInv, Bufs, Buffers, Things
    <3> HIDE DEF RefsInv, MapInv, LiveInv, HandInv, PlaceInv, MemoryInv, ScalarInv
    <3> QED BY <2>2, <3>1, <3>2, <3>3
  <2> HIDE DEF RefsInv
  <2> QED BY <2>1, <2>3, <2>4 DEF RefsInv, nodeVars, scaleVars, roundVars
<1>34. CASE Closed
  BY <1>34 DEF Closed, vars, baseVars, nodeVars, scaleVars, roundVars,
         memVars
<1> HIDE DEF RefsInv, ScalarInv, MapInv, PlaceInv, HandInv, MemoryInv, LiveInv
<1> QED
  BY <1>1, <1>2, <1>3, <1>4, <1>5, <1>6, <1>7, <1>8, <1>9, <1>10, <1>11,
     <1>12, <1>13, <1>14, <1>15, <1>16, <1>17, <1>18, <1>19, <1>20, <1>21,
     <1>22, <1>23, <1>24, <1>25, <1>26, <1>27, <1>28, <1>29, <1>30, <1>31,
     <1>32, <1>33, <1>34, NextCases

(* Copies of the frame have its time stamp.                                *)
LEMMA TimeInvStep ==
  ASSUME TimeInv, ScalarInv, MapInv, PlaceInv, HandInv, MemoryInv, RefsInv,
         Next
  PROVE  TimeInv'
<1> USE StampAssumption DEF TimeInv, ScalarInv, MapInv, PlaceInv,
        HandInv, MemoryInv, RefsInv, Missing, Between, Coding, Null, Kinds,
        Stamps, Buffers, Bufs, Things, Scaling, Encoding, Second, HostHeld,
        ScaledHeld, ScaledTwice, Sessions, Memories, CameWith
<1>1. CASE Receive
  BY <1>1 DEF Receive, ReceiveFrame, scaleVars, roundVars
<1>2. CASE Load
  <2>1. /\ clock' = clock + 1 /\ clock' \in Nat
        /\ buf'["frame"].pts = clock' /\ buf'["frame"].av = clock'
    BY <1>2 DEF Load, With
  <2>2. /\ pc = "idle" /\ pc' \in {"post", "received"} /\ err' = FALSE
        /\ kind \in {"encode", "post"}
        /\ UNCHANGED <<kind, encFrame, host, shown, display, source, got>>
    BY <1>2 DEF Load, Return, scaleVars, roundVars
  <2>3. /\ encFrame = Null /\ host = Null /\ shown = Null
    BY <2>2
  <2>4. display = Null /\ "frame" # Null
    BY <2>3
  <2>5. buf'["frame"].pts = CameWith' /\ buf'["frame"].pts >= 0
    <3>1. CameWith' = clock'
      <4>1. kind' \in {"encode", "post"}
        BY <2>2
      <4> QED BY <4>1, Zenon DEF CameWith
    <3> QED BY <2>1, <3>1
  <2> HIDE DEF ScalarInv, MapInv, PlaceInv, HandInv, MemoryInv, RefsInv,
             CameWith
  <2> QED BY <2>1, <2>2, <2>3, <2>4, <2>5
<1>3. CASE ReceiveFailed
  BY <1>3 DEF ReceiveFailed, Return, memVars, nodeVars, scaleVars,
         roundVars
<1>4. CASE Unpack /\ UNCHANGED <<scaleVars, roundVars>>
  <2> USE DEF Unpack, scaleVars, roundVars
  <2>1. /\ pc = "unpack" /\ kind \in {"transcode", "decode"}
        /\ encFrame = Null /\ host = Null /\ shown = Null
        /\ UNCHANGED <<kind, encFrame, host, shown, display, source, clock>>
    BY <1>4
  <2>2. CASE WrapDrm
    BY <2>1, <2>2 DEF WrapDrm, MakeBuffer, With, Return
  <2>3. CASE TransferDrm
    BY <2>1, <2>3 DEF TransferDrm, Discard, Return
  <2>4. CASE ConvertFrame
    BY <2>1, <2>4 DEF ConvertFrame, MakeBuffer, Discard, With, Return
  <2>5. CASE WrapFrame
    BY <2>1, <2>5 DEF WrapFrame, MakeBuffer, Discard, With, Return
  <2> QED BY <1>4, <2>2, <2>3, <2>4, <2>5
<1>5. CASE Downscale
  BY <1>5 DEF Downscale, ScaledFrom, Unref, Return, nodeVars, scaleVars,
         With
<1>6. CASE ToEncoder(encFrame) /\ UNCHANGED <<scaleVars, roundVars>>
  BY <1>6 DEF ToEncoder, scaleVars, roundVars, IsDma, HostOf, DmaToHost,
         With, Ref
<1>7. CASE ToEncoderFails /\ UNCHANGED <<scaleVars, roundVars>>
  BY <1>7 DEF ToEncoderFails, scaleVars, roundVars, Return, memVars,
         nodeVars
<1>8. CASE MppSend(encFrame) /\ UNCHANGED <<scaleVars, roundVars>>
  BY <1>8, MppSent DEF Released, IsDma, Unref, scaleVars, roundVars
<1>9. CASE SvtCopy(encFrame) /\ UNCHANGED <<scaleVars, roundVars>>
  BY <1>9 DEF SvtCopy, scaleVars, roundVars, Released, nodeVars, IsDma,
         Unref
<1>10. CASE SvtSend /\ UNCHANGED <<scaleVars, roundVars>>
  BY <1>10 DEF SvtSend, scaleVars, roundVars, PtsRead, Encode, Return
<1>11. CASE ReleaseEncoded
  BY <1>11 DEF ReleaseEncoded, Unref, nodeVars, scaleVars
<1>12. CASE FrameToHost
  BY <1>12 DEF FrameToHost, IsDma, Ref, DmaToHost, HostOf, Return,
         nodeVars, scaleVars, With
<1>13. CASE Upscale /\ pc = "upscale"
  BY <1>13 DEF Upscale, ContextCreate, ProcessCopy, ProcessImport,
         ProcessBegin, ProcessResize, ProcessEnd, memVars, scaleVars, nodeVars,
         With, Return, Unref, Work, Ref
<1>14. CASE Upscale /\ pc = "import"
  BY <1>14 DEF Upscale, ContextCreate, ProcessCopy, ProcessImport,
         ProcessBegin, ProcessResize, ProcessEnd, memVars, scaleVars, nodeVars,
         With, Return, Unref, Work, Ref
<1>15. CASE Upscale /\ pc = "begin"
  BY <1>15 DEF Upscale, ContextCreate, ProcessCopy, ProcessImport,
         ProcessBegin, ProcessResize, ProcessEnd, memVars, scaleVars, nodeVars,
         With, Return, Unref, Work, Ref
<1>16. CASE Upscale /\ pc = "resize"
  BY <1>16 DEF Upscale, ContextCreate, ProcessCopy, ProcessImport,
         ProcessBegin, ProcessResize, ProcessEnd, memVars, scaleVars, nodeVars,
         With, Return, Unref, Work, Ref
<1>17. CASE Upscale /\ pc = "end"
  BY <1>17 DEF Upscale, ContextCreate, ProcessCopy, ProcessImport,
         ProcessBegin, ProcessResize, ProcessEnd, memVars, scaleVars, nodeVars,
         With, Return, Unref, Work, Ref
<1>18. CASE WriteBegin
  BY <1>18 DEF WriteBegin, IsDma, nodeVars, scaleVars, roundVars
<1>19. CASE WriteEnd
  BY <1>19 DEF WriteEnd, nodeVars, scaleVars, roundVars
<1>20. CASE ReleaseDecoded
  BY <1>20 DEF ReleaseDecoded, Unref, Return, nodeVars, scaleVars
<1>21. CASE /\ kind = "tool_nv12" /\ ToolCreate
            /\ UNCHANGED <<nodeVars, roundVars>>
  BY <1>21 DEF nodeVars, roundVars, ToolCreate, BothHandles, Return
<1>22. CASE ToolBlocks /\ UNCHANGED <<nodeVars, roundVars>>
  BY <1>22 DEF nodeVars, roundVars, ToolBlocks, Return, scaleVars
<1>23. CASE VirtualImport /\ UNCHANGED <<nodeVars, roundVars>>
  BY <1>23 DEF nodeVars, roundVars, VirtualImport, BothHandles
<1>24. CASE VirtualResize /\ UNCHANGED <<nodeVars, roundVars>>
  BY <1>24 DEF nodeVars, roundVars, VirtualResize, BothHandles, Return,
         scaleVars
<1>25. CASE FallbackAlloc /\ UNCHANGED <<nodeVars, roundVars>>
  BY <1>25 DEF nodeVars, roundVars, FallbackAlloc, With, Return,
         scaleVars
<1>26. CASE FallbackScale /\ UNCHANGED <<nodeVars, roundVars>>
  BY <1>26 DEF nodeVars, roundVars, FallbackScale, Unref, ScaledFrom,
         Return, scaleVars, With
<1>27. CASE ToolProcess /\ UNCHANGED <<nodeVars, roundVars>>
  BY <1>27 DEF nodeVars, roundVars, ToolProcess, Return, memVars,
         scaleVars
<1>28. CASE PostConvert(output = "nv12") /\ UNCHANGED <<nodeVars, roundVars>>
  BY <1>28 DEF nodeVars, roundVars, PostConvert, Ref, With, Return
<1>29. CASE PostScale(output = "nv12") /\ UNCHANGED <<nodeVars, roundVars>>
  BY <1>29 DEF nodeVars, roundVars, PostScale, Unref, ScaledFrom,
         PostSource, Return, With
<1>30. CASE PostBack(output = "nv12") /\ UNCHANGED <<nodeVars, roundVars>>
  BY <1>30 DEF nodeVars, roundVars, PostBack, Return, Unref, With
<1>31. CASE ShownReleased /\ UNCHANGED <<nodeVars, roundVars>>
  BY <1>31 DEF nodeVars, roundVars, ShownReleased, Unref, Return
<1>32. CASE CallScale /\ UNCHANGED roundVars
  BY <1>32 DEF nodeVars, roundVars, CallScale, memVars, scaleVars
<1>33. CASE End
  BY <1>33 DEF End, ContextDestroy, ToolDestroy, nodeVars, scaleVars,
         roundVars, Unref, BothHandles
<1>34. CASE Closed
  BY <1>34 DEF Closed, vars, baseVars, nodeVars, scaleVars, roundVars,
         memVars
<1> HIDE DEF TimeInv, ScalarInv, MapInv, PlaceInv, HandInv, MemoryInv, RefsInv
<1> QED
  BY <1>1, <1>2, <1>3, <1>4, <1>5, <1>6, <1>7, <1>8, <1>9, <1>10, <1>11,
     <1>12, <1>13, <1>14, <1>15, <1>16, <1>17, <1>18, <1>19, <1>20, <1>21,
     <1>22, <1>23, <1>24, <1>25, <1>26, <1>27, <1>28, <1>29, <1>30, <1>31,
     <1>32, <1>33, <1>34, NextCases

-----------------------------------------------------------------------------
(* When the clock goes on, bounds relative to it hold with room for a      *)
(* frame.                                                                  *)
LEMMA Later ==
  ASSUME NEW M \in Int, NEW c \in Int, NEW d \in Int, d > c, NEW n \in Int
  PROVE  /\ n <= M + c + 2 => n <= M + d + 1 /\ n <= M + d + 2
         /\ n <= c + 1 => n <= d /\ n <= d + 1
OBVIOUS

(* A new frame only moves the clock.                                       *)
LEMMA TimeGoesOn ==
  ASSUME StampInv, clock \in Int, clock' \in Int, clock' > clock,
         UNCHANGED <<nextPts, stamps, backend, seen, badRead>>
  PROVE  StampInv'
<1>1. MaxStamp \in Int /\ nextPts \in Int
  BY StampAssumption DEF StampInv
<1>2. stamps' \in Seq(0 .. 2 * MaxStamp + 1)
  BY DEF StampInv
<1>3. nextPts' \in Nat /\ nextPts' <= MaxStamp + clock' + 1
      /\ nextPts' <= MaxStamp + clock' + 2
  <2>1. nextPts \in Nat /\ nextPts <= MaxStamp + clock + 2
    BY DEF StampInv
  <2>2. nextPts <= MaxStamp + clock' + 1 /\ nextPts <= MaxStamp + clock' + 2
    BY <1>1, <2>1, Later
  <2> QED BY <2>1, <2>2
<1>4. \A i \in DOMAIN stamps : stamps[i] \in Int
  BY StampAssumption DEF StampInv
<1>5. backend' = "mpp" => /\ nextPts' <= clock' /\ nextPts' <= clock' + 1
                          /\ \A i \in DOMAIN stamps' : stamps'[i] < nextPts'
  BY <1>1, Later DEF StampInv
<1>6. backend' = "svt" /\ badRead' = {} /\ seen' = {TRUE} =>
        \A i \in DOMAIN stamps' : stamps'[i] <= clock' /\ stamps'[i] < clock'
  BY <1>4 DEF StampInv
<1>7. /\ backend' = "svt" /\ seen' = {} => stamps' = <<>>
      /\ backend' = "svt" /\ badRead' = {} /\ seen' = {FALSE} =>
           \A i \in DOMAIN stamps' : stamps'[i] < nextPts'
  BY DEF StampInv
<1> QED
  BY <1>1, <1>2, <1>3, <1>4, <1>5, <1>6, <1>7 DEF StampInv

(* The encoder's answer to a frame with stamp s.                           *)
LEMMA Answered ==
  ASSUME NEW s \in 0 .. 2 * MaxStamp + 1, NEW n \in Nat, Encode(s, n),
         stamps \in Seq(0 .. 2 * MaxStamp + 1)
  PROVE  /\ stamps' \in Seq(0 .. 2 * MaxStamp + 1)
         /\ nextPts' = n
         /\ \/ stamps' = stamps
            \/ /\ pc' = "release" /\ stamps' = Append(stamps, s)
               /\ DOMAIN stamps' = 1 .. Len(stamps) + 1
               /\ \A i \in DOMAIN stamps : stamps'[i] = stamps[i]
               /\ stamps'[Len(stamps) + 1] = s
         /\ pc' = "release" \/ (backend # "mpp" /\ pc' = "send" /\ nextPts <= MaxStamp)
<1>0. MaxStamp \in Nat
  BY StampAssumption
<1>1. CASE stamps' = Append(stamps, s) /\ pc' = "release" /\ nextPts' = n
  BY <1>0, <1>1
<1>2. CASE /\ stamps' = stamps /\ nextPts' = n
           /\ pc' = "release" \/ (backend # "mpp" /\ pc' = "send" /\ nextPts <= MaxStamp)
  BY <1>2
<1> QED BY <1>1, <1>2 DEF Encode, Return

(* MPP's number for a frame is above all it was given, and not ahead of    *)
(* the clock.                                                              *)
LEMMA MppFits ==
  ASSUME ScalarInv, StampInv, TimeInv, MppSend(encFrame), PlaceInv
  PROVE  \E s \in 0 .. 2 * MaxStamp + 1, n \in Nat :
           /\ Encode(s, n) /\ backend = "mpp" /\ s < n /\ n <= clock + 1
           /\ \A i \in DOMAIN stamps : stamps[i] < s
<1> DEFINE m == MppStamp(buf[picture].av)
<1>1. pc = "copy" /\ backend = "mpp" /\ Encode(m.s, m.n)
  BY DEF MppSend
<1>2. buf[picture].av \in {Missing, clock} /\ clock \in 0 .. MaxStamp
  BY <1>1, StampAssumption DEF TimeInv, Between, ScalarInv, Stamps, Missing
<1>3. /\ nextPts <= clock /\ nextPts \in Nat
      /\ \A i \in DOMAIN stamps : stamps[i] < nextPts /\ stamps[i] \in Int
  BY <1>1, StampAssumption DEF StampInv, Unsent, Coding
<1>4. CASE buf[picture].av = Missing
  <2>1. m = [s |-> nextPts, n |-> nextPts + 1]
    BY <1>4 DEF MppStamp
  <2>2. nextPts \in 0 .. 2 * MaxStamp + 1 /\ nextPts + 1 \in Nat
    BY <1>2, <1>3, StampAssumption
  <2> QED BY <1>1, <1>2, <1>3, <2>1, <2>2
<1>5. CASE buf[picture].av # Missing
  <2>1. m = [s |-> clock, n |-> clock + 1]
    BY <1>2, <1>5 DEF MppStamp
  <2>2. clock \in 0 .. 2 * MaxStamp + 1 /\ clock + 1 \in Nat
    BY <1>2, StampAssumption
  <2> QED BY <1>1, <1>2, <1>3, <2>1, <2>2
<1> QED BY <1>4, <1>5

(* The stamp read in time is the frame's own, if it has one.               *)
LEMMA StampRead ==
  ASSUME ScalarInv, MapInv, PlaceInv, HandInv, MemoryInv, RefsInv, TimeInv,
         pc = "stamp", buf[picture].refs # 0
  PROVE  PtsRead(picture) \subseteq {Missing, clock}
<1>1. encFrame \in {"frame", "scaled"}
  BY DEF PlaceInv, HandInv, Encoding, Coding, Scaling
<1>2. picture = "host" \/ picture = encFrame
  BY DEF HandInv
<1>3. picture # "host"
  BY <1>1 DEF RefsInv, HostHeld, HandInv, Null, Scaling
<1>4. buf[picture].refs > 0
  BY <1>1, <1>2, <1>3 DEF RefsInv, Between, ScaledHeld, Second
<1>5. buf[picture].pts \in {Missing, clock}
  BY <1>1, <1>2, <1>3 DEF TimeInv, Coding, Between
<1> QED BY <1>4, <1>5 DEF PtsRead

(* SVT-AV1's number is the frame's own stamp, or the next one.             *)
LEMMA SvtFits ==
  ASSUME ScalarInv, MapInv, PlaceInv, HandInv, MemoryInv, RefsInv, TimeInv,
         StampInv, SvtSend
  PROVE  \E p \in Stamps, s \in 0 .. 2 * MaxStamp + 1, n \in Nat :
           /\ Encode(s, n) /\ pc = "stamp" /\ backend = "svt"
           /\ badRead' = badRead \cup Freed("stamp", picture)
           /\ seen' = seen \cup {p # Missing}
           /\ n <= nextPts + 1
           /\ p = Missing => s = nextPts /\ n = nextPts + 1
           /\ p # Missing /\ badRead' = {} => s = clock
<1>0. pc = "stamp" /\ backend = "svt"
  BY DEF SvtSend, PlaceInv
<1>1. PICK p \in PtsRead(picture) :
         /\ Encode(SvtStamp(p).s, SvtStamp(p).n)
         /\ seen' = seen \cup {p # Missing}
  BY DEF SvtSend
<1>2. badRead' = badRead \cup Freed("stamp", picture)
  BY DEF SvtSend
<1>3. p \in Stamps
  <2>1. picture \in Buffers
    BY <1>0 DEF HandInv, PlaceInv, Coding, Scaling, Encoding, Buffers, Null
  <2> QED BY <2>1 DEF PtsRead, MapInv, Bufs
<1>4. clock \in 0 .. MaxStamp /\ nextPts \in Nat /\ nextPts <= MaxStamp + clock + 1
  BY <1>0, StampAssumption DEF TimeInv, Between, ScalarInv, Stamps, Missing,
         StampInv, Unsent, Coding
<1>5. CASE p = Missing
  <2>1. SvtStamp(p) = [s |-> nextPts, n |-> nextPts + 1]
    BY <1>5 DEF SvtStamp
  <2>2. nextPts \in 0 .. 2 * MaxStamp + 1 /\ nextPts + 1 \in Nat
    BY <1>4, StampAssumption
  <2>3. Encode(nextPts, nextPts + 1)
    BY <1>1, <2>1
  <2> QED BY <1>0, <1>1, <1>2, <1>3, <1>4, <1>5, <2>2, <2>3
<1>6. CASE p # Missing
  <2>1. SvtStamp(p) = [s |-> p, n |-> nextPts]
    BY <1>6 DEF SvtStamp
  <2>2. p \in 0 .. 2 * MaxStamp + 1
    BY <1>3, <1>6, StampAssumption DEF Stamps, Missing
  <2>3. badRead' = {} => p = clock
    <3>1. badRead' = {} => buf[picture].refs # 0
      BY <1>2 DEF Freed
    <3> QED BY <1>0, <1>1, <1>6, <3>1, StampRead
  <2>4. Encode(p, nextPts)
    BY <1>1, <2>1
  <2> QED BY <1>0, <1>1, <1>2, <1>3, <1>4, <1>6, <2>2, <2>3, <2>4
<1> QED BY <1>5, <1>6

(* So the MPP step keeps StampInv,                                         *)
LEMMA StampMpp ==
  ASSUME ScalarInv, StampInv, TimeInv, MppSend(encFrame), PlaceInv
  PROVE  StampInv'
<1>1. PICK s \in 0 .. 2 * MaxStamp + 1, n \in Nat :
        /\ Encode(s, n) /\ backend = "mpp" /\ s < n /\ n <= clock + 1
        /\ \A i \in DOMAIN stamps : stamps[i] < s
  BY MppFits
<1>2. clock' = clock /\ backend' = "mpp" /\ pc' = "release"
  BY <1>1, MppSent
<1>3. stamps \in Seq(0 .. 2 * MaxStamp + 1) /\ clock \in Int /\ MaxStamp \in Nat
  BY StampAssumption DEF StampInv, ScalarInv, Stamps, Missing
<1>4. /\ stamps' \in Seq(0 .. 2 * MaxStamp + 1) /\ nextPts' = n
      /\ \/ stamps' = stamps
         \/ /\ DOMAIN stamps' = 1 .. Len(stamps) + 1
            /\ \A i \in DOMAIN stamps : stamps'[i] = stamps[i]
            /\ stamps'[Len(stamps) + 1] = s
  BY <1>1, <1>3, Answered
<1>5. \A i \in DOMAIN stamps' : stamps'[i] < n
  <2>1. \A i \in DOMAIN stamps : stamps[i] < n
    <3> TAKE i \in DOMAIN stamps
    <3>1. stamps[i] \in Int /\ stamps[i] < s
      BY <1>1, <1>3
    <3> QED BY <1>1, <3>1
  <2>2. DOMAIN stamps = 1 .. Len(stamps) /\ Len(stamps) \in Nat
    BY <1>3
  <2>3. \A i \in 1 .. Len(stamps) + 1 : i \in 1 .. Len(stamps) \/ i = Len(stamps) + 1
    BY <2>2
  <2> QED BY <1>1, <1>4, <2>1, <2>2, <2>3
<1>6. n <= MaxStamp + clock + 2
  BY <1>1, <1>3
<1> QED BY <1>1, <1>2, <1>4, <1>5, <1>6 DEF StampInv, Unsent, Coding

(* and so does the SVT-AV1 step.                                           *)
LEMMA StampSvt ==
  ASSUME ScalarInv, MapInv, PlaceInv, HandInv, MemoryInv, RefsInv, TimeInv,
         StampInv, SvtSend
  PROVE  StampInv'
<1>1. PICK p \in Stamps, s \in 0 .. 2 * MaxStamp + 1, n \in Nat :
        /\ Encode(s, n) /\ pc = "stamp" /\ backend = "svt"
        /\ badRead' = badRead \cup Freed("stamp", picture)
        /\ seen' = seen \cup {p # Missing}
        /\ n <= nextPts + 1
        /\ p = Missing => s = nextPts /\ n = nextPts + 1
        /\ p # Missing /\ badRead' = {} => s = clock
  BY SvtFits
<1>2. clock' = clock /\ backend' = "svt"
  BY <1>1, SvtSent
<1>3. /\ stamps \in Seq(0 .. 2 * MaxStamp + 1) /\ clock \in 0 .. MaxStamp
      /\ MaxStamp \in Nat /\ nextPts \in Nat /\ nextPts <= MaxStamp + clock + 1
  BY <1>1, StampAssumption DEF StampInv, ScalarInv, Stamps, Missing, TimeInv,
                               Between, Unsent, Coding
<1>4. /\ stamps' \in Seq(0 .. 2 * MaxStamp + 1) /\ nextPts' = n
      /\ \/ stamps' = stamps
         \/ /\ pc' = "release"
            /\ DOMAIN stamps' = 1 .. Len(stamps) + 1
            /\ \A i \in DOMAIN stamps : stamps'[i] = stamps[i]
            /\ stamps'[Len(stamps) + 1] = s
      /\ pc' = "release" \/ (pc' = "send" /\ nextPts <= MaxStamp)
  BY <1>1, <1>3, Answered
<1>5. /\ DOMAIN stamps = 1 .. Len(stamps) /\ Len(stamps) \in Nat
      /\ \A i \in DOMAIN stamps : stamps[i] \in Int
      /\ \A i \in 1 .. Len(stamps) + 1 : i \in 1 .. Len(stamps) \/ i = Len(stamps) + 1
  BY <1>3
<1>6. /\ n <= MaxStamp + clock + 2
      /\ nextPts <= MaxStamp => n <= MaxStamp + clock + 1
  BY <1>1, <1>3
<1>7. ASSUME badRead' = {}, seen' = {TRUE}
      PROVE  \A i \in DOMAIN stamps' :
               stamps'[i] <= clock /\ (pc' # "release" => stamps'[i] < clock)
  <2>1. s = clock
    BY <1>1, <1>7
  <2>2. seen = {} \/ seen = {TRUE}
    BY <1>1, <1>7
  <2>3. \A i \in DOMAIN stamps : stamps[i] < clock /\ stamps[i] <= clock
    <3>1. CASE seen = {}
      BY <1>1, <3>1 DEF StampInv
    <3>2. CASE seen = {TRUE}
      BY <1>1, <1>5, <1>7, <3>2 DEF StampInv, Unsent, Coding
    <3> QED BY <2>2, <3>1, <3>2
  <2>4. CASE stamps' = stamps
    BY <2>3, <2>4
  <2>5. CASE stamps' # stamps
    <3>1. /\ pc' = "release"
          /\ DOMAIN stamps' = 1 .. Len(stamps) + 1
          /\ \A i \in DOMAIN stamps : stamps'[i] = stamps[i]
          /\ stamps'[Len(stamps) + 1] = s
      BY <1>4, <2>5
    <3>2. clock <= clock
      BY <1>3
    <3> QED BY <1>5, <2>1, <2>3, <3>1, <3>2
  <2> QED BY <2>4, <2>5
<1>8. ASSUME badRead' = {}, seen' = {FALSE}
      PROVE  \A i \in DOMAIN stamps' : stamps'[i] < n
  <2>1. s = nextPts /\ n = nextPts + 1
    BY <1>1, <1>8
  <2>2. seen = {} \/ seen = {FALSE}
    BY <1>1, <1>8
  <2>3. \A i \in DOMAIN stamps : stamps[i] < nextPts
    <3>1. CASE seen = {}
      BY <1>1, <3>1 DEF StampInv
    <3>2. CASE seen = {FALSE}
      BY <1>1, <1>8, <3>2 DEF StampInv
    <3> QED BY <2>2, <3>1, <3>2
  <2>4. \A i \in DOMAIN stamps : stamps[i] < n
    BY <1>3, <1>5, <2>1, <2>3
  <2>5. CASE stamps' = stamps
    BY <2>4, <2>5
  <2>6. CASE stamps' # stamps
    <3>1. /\ DOMAIN stamps' = 1 .. Len(stamps) + 1
          /\ \A i \in DOMAIN stamps : stamps'[i] = stamps[i]
          /\ stamps'[Len(stamps) + 1] = s
      BY <1>4, <2>6
    <3>2. s < n
      BY <1>3, <2>1
    <3> QED BY <1>5, <2>4, <3>1, <3>2
  <2> QED BY <2>5, <2>6
<1>9. seen' # {}
  BY <1>1
<1> QED
  BY <1>1, <1>2, <1>4, <1>6, <1>7, <1>8, <1>9 DEF StampInv, Unsent, Coding

(* The encoder's numbers stay above what it was given, and below the clock. *)
LEMMA StampInvStep ==
  ASSUME StampInv, ScalarInv, MapInv, PlaceInv, HandInv, MemoryInv, RefsInv,
         TimeInv, Next
  PROVE  StampInv'
<1> USE StampAssumption DEF StampInv, ScalarInv, PlaceInv, HandInv,
        MemoryInv, RefsInv, TimeInv, Unsent, Stamps, Null, Coding, Scaling,
        Encoding, Between, Second, HostHeld, ScaledHeld, ScaledTwice, Missing
<1>1. CASE Receive
  <2>1. /\ clock \in Int /\ clock' \in Int /\ clock' > clock
        /\ UNCHANGED <<nextPts, stamps, backend, seen, badRead>>
    BY <1>1 DEF Receive, ReceiveFrame, memVars
  <2> QED BY <2>1, TimeGoesOn
<1>2. CASE Load
  <2>1. /\ clock \in Int /\ clock' \in Int /\ clock' > clock
        /\ UNCHANGED <<nextPts, stamps, backend, seen, badRead>>
    BY <1>2 DEF Load, memVars
  <2> QED BY <2>1, TimeGoesOn
<1>3. CASE ReceiveFailed
  BY <1>3 DEF ReceiveFailed, Return, memVars, nodeVars, scaleVars,
         roundVars
<1>4. CASE Unpack /\ UNCHANGED <<scaleVars, roundVars>>
  <2>1. /\ pc = "unpack"
        /\ UNCHANGED <<nextPts, stamps, backend, seen, badRead, clock>>
    BY <1>4 DEF Unpack
  <2> QED BY <2>1
<1>5. CASE Downscale
  BY <1>5 DEF Downscale, Return, nodeVars, scaleVars
<1>6. CASE ToEncoder(encFrame) /\ UNCHANGED <<scaleVars, roundVars>>
  BY <1>6 DEF ToEncoder, scaleVars, roundVars, IsDma
<1>7. CASE ToEncoderFails /\ UNCHANGED <<scaleVars, roundVars>>
  BY <1>7 DEF ToEncoderFails, scaleVars, roundVars, Return, memVars,
         nodeVars
<1>8. CASE MppSend(encFrame) /\ UNCHANGED <<scaleVars, roundVars>>
  BY <1>8, StampMpp
<1>9. CASE SvtCopy(encFrame) /\ UNCHANGED <<scaleVars, roundVars>>
  BY <1>9 DEF SvtCopy, scaleVars, roundVars, nodeVars
<1>10. CASE SvtSend /\ UNCHANGED <<scaleVars, roundVars>>
  BY <1>10, StampSvt
<1>11. CASE ReleaseEncoded
  BY <1>11 DEF ReleaseEncoded, nodeVars, scaleVars
<1>12. CASE FrameToHost
  BY <1>12 DEF FrameToHost, IsDma, Return, nodeVars, scaleVars
<1>13. CASE Upscale /\ pc = "upscale"
  BY <1>13 DEF Upscale, ContextCreate, ProcessCopy, ProcessImport,
         ProcessBegin, ProcessResize, ProcessEnd, memVars, scaleVars, nodeVars,
         Return
<1>14. CASE Upscale /\ pc = "import"
  BY <1>14 DEF Upscale, ContextCreate, ProcessCopy, ProcessImport,
         ProcessBegin, ProcessResize, ProcessEnd, memVars, scaleVars, nodeVars,
         Return
<1>15. CASE Upscale /\ pc = "begin"
  BY <1>15 DEF Upscale, ContextCreate, ProcessCopy, ProcessImport,
         ProcessBegin, ProcessResize, ProcessEnd, memVars, scaleVars, nodeVars,
         Return
<1>16. CASE Upscale /\ pc = "resize"
  BY <1>16 DEF Upscale, ContextCreate, ProcessCopy, ProcessImport,
         ProcessBegin, ProcessResize, ProcessEnd, memVars, scaleVars, nodeVars,
         Return
<1>17. CASE Upscale /\ pc = "end"
  BY <1>17 DEF Upscale, ContextCreate, ProcessCopy, ProcessImport,
         ProcessBegin, ProcessResize, ProcessEnd, memVars, scaleVars, nodeVars,
         Return
<1>18. CASE WriteBegin
  BY <1>18 DEF WriteBegin, IsDma, nodeVars, scaleVars, roundVars
<1>19. CASE WriteEnd
  BY <1>19 DEF WriteEnd, nodeVars, scaleVars, roundVars
<1>20. CASE ReleaseDecoded
  BY <1>20 DEF ReleaseDecoded, Return, nodeVars, scaleVars
<1>21. CASE /\ kind = "tool_nv12" /\ ToolCreate
            /\ UNCHANGED <<nodeVars, roundVars>>
  BY <1>21 DEF nodeVars, roundVars, ToolCreate, BothHandles, Return
<1>22. CASE ToolBlocks /\ UNCHANGED <<nodeVars, roundVars>>
  BY <1>22 DEF nodeVars, roundVars, ToolBlocks, Return, scaleVars
<1>23. CASE VirtualImport /\ UNCHANGED <<nodeVars, roundVars>>
  BY <1>23 DEF nodeVars, roundVars, VirtualImport, BothHandles
<1>24. CASE VirtualResize /\ UNCHANGED <<nodeVars, roundVars>>
  BY <1>24 DEF nodeVars, roundVars, VirtualResize, BothHandles, Return,
         scaleVars
<1>25. CASE FallbackAlloc /\ UNCHANGED <<nodeVars, roundVars>>
  BY <1>25 DEF nodeVars, roundVars, FallbackAlloc, Return, scaleVars
<1>26. CASE FallbackScale /\ UNCHANGED <<nodeVars, roundVars>>
  BY <1>26 DEF nodeVars, roundVars, FallbackScale, Return, scaleVars
<1>27. CASE ToolProcess /\ UNCHANGED <<nodeVars, roundVars>>
  BY <1>27 DEF nodeVars, roundVars, ToolProcess, Return, memVars,
         scaleVars
<1>28. CASE PostConvert(output = "nv12") /\ UNCHANGED <<nodeVars, roundVars>>
  BY <1>28 DEF nodeVars, roundVars, PostConvert, Return
<1>29. CASE PostScale(output = "nv12") /\ UNCHANGED <<nodeVars, roundVars>>
  BY <1>29 DEF nodeVars, roundVars, PostScale, PostSource, Return
<1>30. CASE PostBack(output = "nv12") /\ UNCHANGED <<nodeVars, roundVars>>
  BY <1>30 DEF nodeVars, roundVars, PostBack, Return
<1>31. CASE ShownReleased /\ UNCHANGED <<nodeVars, roundVars>>
  BY <1>31 DEF nodeVars, roundVars, ShownReleased, Return
<1>32. CASE CallScale /\ UNCHANGED roundVars
  <2>1. /\ clock \in Int /\ clock' \in Int /\ clock' > clock
        /\ UNCHANGED <<nextPts, stamps, backend, seen, badRead>>
    BY <1>32 DEF CallScale, memVars
  <2> QED BY <2>1, TimeGoesOn
<1>33. CASE End
  BY <1>33 DEF End, Sessions, ContextDestroy, ToolDestroy, nodeVars,
         scaleVars, roundVars, BothHandles
<1>34. CASE Closed
  BY <1>34 DEF Closed, vars, baseVars, nodeVars, scaleVars, roundVars,
         memVars
<1> HIDE DEF StampInv, ScalarInv, MapInv, PlaceInv, HandInv, MemoryInv,
           RefsInv, TimeInv
<1> QED
  BY <1>1, <1>2, <1>3, <1>4, <1>5, <1>6, <1>7, <1>8, <1>9, <1>10, <1>11,
     <1>12, <1>13, <1>14, <1>15, <1>16, <1>17, <1>18, <1>19, <1>20, <1>21,
     <1>22, <1>23, <1>24, <1>25, <1>26, <1>27, <1>28, <1>29, <1>30, <1>31,
     <1>32, <1>33, <1>34, NextCases

-----------------------------------------------------------------------------
(* Nothing else gives frames to the encoder or reads a buffer.             *)
LEMMA EncoderUntouched ==
  ASSUME Next
  PROVE  \/ MppSend(encFrame) \/ SvtSend
         \/ SvtCopy(encFrame) \/ WriteEnd
         \/ UNCHANGED <<backend, source, seen, badRead, stamps>>
<1> USE DEF nodeVars, memVars, vars, baseVars
<1>1. CASE Receive \/ Load \/ ReceiveFailed \/ Unpack \/ Downscale
  BY <1>1 DEF Receive, ReceiveFrame, Load, ReceiveFailed, Unpack, Downscale
<1>2. CASE EncodeFrame
  BY <1>2 DEF EncodeFrame, ToEncoder, ToEncoderFails
<1>3. CASE ReleaseEncoded \/ FrameToHost \/ WriteBegin \/ WriteEnd \/ ReleaseDecoded
  BY <1>3 DEF ReleaseEncoded, FrameToHost, WriteBegin, ReleaseDecoded
<1>4. CASE Upscale
  BY <1>4 DEF Upscale, ContextCreate, ProcessCopy, ProcessImport, ProcessBegin,
              ProcessResize, ProcessEnd
<1>5. CASE Outside
  BY <1>5 DEF Outside, ToolCreate, ToolBlocks, VirtualImport, VirtualResize,
              FallbackAlloc, FallbackScale, ToolProcess, PostConvert, PostScale,
              PostBack, ShownReleased, CallScale
<1>6. CASE End \/ Closed
  BY <1>6 DEF End, Closed
<1> QED BY <1>1, <1>2, <1>3, <1>4, <1>5, <1>6 DEF Next

(* Few kinds of stamps seen: what the condition of StampsIncrease means.   *)
LEMMA OneElement ==
  ASSUME NEW S, IsFiniteSet(S), Cardinality(S) <= 1, NEW x \in S
  PROVE  S = {x}
<1>1. IsFiniteSet(S \ {x}) /\ Cardinality(S \ {x}) = Cardinality(S) - 1
  BY FS_RemoveElement
<1>2. Cardinality(S \ {x}) \in Nat /\ Cardinality(S) \in Nat
  BY <1>1, FS_CardinalityType
<1>3. Cardinality(S \ {x}) = 0
  BY <1>1, <1>2
<1>4. S \ {x} = {}
  BY <1>1, <1>3, FS_EmptySet
<1> QED BY <1>4

(* And conversely.                                                         *)
LEMMA SmallSets ==
  ASSUME NEW x, NEW S \in SUBSET {x}
  PROVE  Cardinality(S) <= 1
<1>1. IsFiniteSet({x}) /\ Cardinality({x}) = 1
  BY FS_Singleton
<1>2. Cardinality(S) <= Cardinality({x})
  BY <1>1, FS_Subset
<1> QED BY <1>1, <1>2

(* StampsIncrease is preserved: the new stamp is above the old ones.       *)
LEMMA IncreaseStep ==
  ASSUME ScalarInv, MapInv, PlaceInv, HandInv, MemoryInv, RefsInv, TimeInv,
         StampInv, StampsIncrease, Next
  PROVE  StampsIncrease'
<1> DEFINE Premise == backend = "mpp" \/ (Cardinality(seen) <= 1 /\ badRead = {})
<1>0. /\ stamps \in Seq(0 .. 2 * MaxStamp + 1)
      /\ MaxStamp \in Nat
      /\ DOMAIN stamps = 1 .. Len(stamps) /\ Len(stamps) \in Nat
  BY StampAssumption DEF StampInv
<1>1. ASSUME NEW s \in 0 .. 2 * MaxStamp + 1, NEW n \in Nat, Encode(s, n),
             Premise' => Premise /\ \A i \in DOMAIN stamps : stamps[i] < s
      PROVE  StampsIncrease'
  <2> SUFFICES ASSUME Premise',
                      NEW i \in DOMAIN stamps', NEW j \in DOMAIN stamps', i < j
               PROVE  stamps'[i] < stamps'[j]
    BY DEF StampsIncrease
  <2>1. \A k, l \in DOMAIN stamps : k < l => stamps[k] < stamps[l]
    BY <1>1 DEF StampsIncrease
  <2>2. \/ stamps' = stamps
        \/ /\ DOMAIN stamps' = 1 .. Len(stamps) + 1
           /\ \A k \in DOMAIN stamps : stamps'[k] = stamps[k]
           /\ stamps'[Len(stamps) + 1] = s
    BY <1>0, <1>1, Answered
  <2>3. CASE stamps' = stamps
    BY <2>1, <2>3
  <2>4. CASE /\ DOMAIN stamps' = 1 .. Len(stamps) + 1
             /\ \A k \in DOMAIN stamps : stamps'[k] = stamps[k]
             /\ stamps'[Len(stamps) + 1] = s
    <3>1. i \in 1 .. Len(stamps) /\ (j \in 1 .. Len(stamps) \/ j = Len(stamps) + 1)
      BY <1>0, <2>4
    <3> QED BY <1>0, <1>1, <2>1, <2>4, <3>1
  <2> QED BY <2>2, <2>3, <2>4
<1>2. CASE MppSend(encFrame)
  <2>1. PICK s \in 0 .. 2 * MaxStamp + 1, n \in Nat :
          /\ Encode(s, n) /\ backend = "mpp" /\ s < n /\ n <= clock + 1
          /\ \A i \in DOMAIN stamps : stamps[i] < s
    BY <1>2, MppFits
  <2> QED BY <1>1, <2>1
<1>3. CASE SvtSend
  <2>1. PICK p \in Stamps, s \in 0 .. 2 * MaxStamp + 1, n \in Nat :
          /\ Encode(s, n) /\ pc = "stamp" /\ backend = "svt"
          /\ badRead' = badRead \cup Freed("stamp", picture)
          /\ seen' = seen \cup {p # Missing}
          /\ n <= nextPts + 1
          /\ p = Missing => s = nextPts /\ n = nextPts + 1
          /\ p # Missing /\ badRead' = {} => s = clock
    BY <1>3, SvtFits
  <2>2. ASSUME Premise'
        PROVE  Premise /\ \A i \in DOMAIN stamps : stamps[i] < s
    <3>1. badRead' = {} /\ badRead = {} /\ backend = "svt" /\ Cardinality(seen') <= 1
      BY <1>3, <2>1, <2>2, SvtSent
    <3>2. seen' = {p # Missing}
      <4>1. IsFiniteSet(BOOLEAN) /\ seen \subseteq BOOLEAN
        <5>1. IsFiniteSet({TRUE}) /\ IsFiniteSet({TRUE} \cup {FALSE})
          BY FS_Singleton, FS_AddElement
        <5>2. BOOLEAN = {TRUE} \cup {FALSE}
          OBVIOUS
        <5> QED BY <5>1, <5>2 DEF ScalarInv
      <4>2. IsFiniteSet(seen')
        BY <2>1, <4>1, FS_Subset, FS_AddElement
      <4> QED BY <2>1, <3>1, <4>2, OneElement
    <3>3. seen \subseteq {p # Missing}
      BY <2>1, <3>2
    <3>4. Cardinality(seen) <= 1
      BY <3>3, SmallSets
    <3>5. seen = {} \/ seen = {p # Missing}
      BY <3>3
    <3>6. \A i \in DOMAIN stamps : stamps[i] < s
      <4>1. CASE seen = {}
        BY <2>1, <4>1 DEF StampInv
      <4>2. CASE p = Missing /\ seen = {FALSE}
        BY <2>1, <3>1, <4>2 DEF StampInv
      <4>3. CASE p # Missing /\ seen = {TRUE}
        BY <2>1, <3>1, <4>3 DEF StampInv, Unsent, Coding
      <4> QED BY <3>5, <4>1, <4>2, <4>3
    <3> QED BY <3>1, <3>4, <3>6
  <2> QED BY <1>1, <2>1, <2>2
<1>4. CASE UNCHANGED <<backend, seen, stamps>> /\ badRead \subseteq badRead'
  BY <1>4 DEF StampsIncrease
<1>5. CASE SvtCopy(encFrame) \/ WriteEnd
  BY <1>4, <1>5 DEF SvtCopy, WriteEnd, nodeVars
<1> QED BY <1>2, <1>3, <1>4, <1>5, EncoderUntouched

(* The picture and what decode_loop writes are referenced while they are   *)
(* read; the copy that SVT-AV1's node released is the decoder frame's.     *)
LEMMA HeldWhenRead ==
  ASSUME MapInv, PlaceInv, HandInv, MemoryInv, RefsInv, LiveInv
  PROVE  /\ pc = "copy" => buf[picture].refs # 0
         /\ pc = "stamp" /\ buf[picture].refs = 0 =>
              picture = "host" /\ source = "drm"
         /\ pc = "writing" => buf[display].refs # 0
<1>1. ASSUME pc = "copy"
      PROVE  buf[picture].refs # 0
  <2>1. picture \in {"frame", "host", "scaled"}
    BY <1>1, PictureIs
  <2>2. picture = "host" => buf["host"].refs = 1
    BY <1>1 DEF RefsInv, HostHeld
  <2>3. picture = "frame" => buf["frame"].refs \in {1, 2}
    BY <1>1 DEF RefsInv, Between
  <2>4. picture = "scaled" => buf["scaled"].refs \in {1, 2}
    BY <1>1, PictureIs DEF RefsInv, ScaledHeld, HandInv
  <2> QED BY <2>1, <2>2, <2>3, <2>4
<1>2. ASSUME pc = "stamp", buf[picture].refs = 0
      PROVE  picture = "host" /\ source = "drm"
  <2>1. encFrame \in {"frame", "scaled"}
    BY <1>2, PictureIs
  <2>2. CASE encFrame = "frame" /\ buf["frame"].mem = "drm"
    BY <1>2, <2>2 DEF MemoryInv, Between, HandInv
  <2>3. CASE picture = encFrame
    BY <1>2, <2>1, <2>3 DEF RefsInv, Between, ScaledHeld, ScaledTwice, Second
  <2> QED BY <1>2, <2>2, <2>3 DEF HandInv
<1>3. ASSUME pc = "writing"
      PROVE  buf[display].refs # 0
  <2>1. host \in {"frame", "host"} /\ (display = host \/ display = "target")
    BY <1>3 DEF HandInv
  <2>2. CASE display = "target"
    <3>1. live["target_handle"] \in {0, 1}
      BY DEF LiveInv
    <3> QED BY <2>2, <3>1 DEF RefsInv
  <2>3. CASE display = "frame" \/ display = "host"
    BY <1>3, <2>1, <2>3 DEF RefsInv, Between, Second, HostHeld
  <2> QED BY <2>1, <2>2, <2>3
<1> QED BY <1>1, <1>2, <1>3

(* So only SVT-AV1's late read of a stamp adds to badRead.                 *)
LEMMA FreedStep ==
  ASSUME ScalarInv, MapInv, PlaceInv, HandInv, MemoryInv, RefsInv, LiveInv,
         NoFreedRead, Next
  PROVE  NoFreedRead'
<1>1. CASE MppSend(encFrame)
  BY <1>1, MppSent, HeldWhenRead DEF NoFreedRead, Freed
<1>2. CASE SvtCopy(encFrame)
  BY <1>2, HeldWhenRead DEF SvtCopy, NoFreedRead, Freed, nodeVars
<1>3. CASE WriteEnd
  BY <1>3, HeldWhenRead DEF WriteEnd, NoFreedRead, Freed, nodeVars
<1>4. CASE SvtSend
  <2>1. pc = "stamp" /\ UNCHANGED <<backend, source>> /\ backend = "svt"
    BY <1>4, SvtSent DEF PlaceInv
  <2>2. badRead' = badRead \cup Freed("stamp", picture)
    BY <1>4 DEF SvtSend
  <2> QED BY <2>1, <2>2, HeldWhenRead DEF NoFreedRead, Freed
<1>5. CASE UNCHANGED <<backend, source, seen, badRead, stamps>>
  BY <1>5 DEF NoFreedRead
<1> QED BY <1>1, <1>2, <1>3, <1>4, <1>5, EncoderUntouched

-----------------------------------------------------------------------------
(* It holds initially,                                                     *)
LEMMA InitCorrect ==
  ASSUME Init
  PROVE  IInv /\ NoFreedRead /\ StampsIncrease
<1> USE StampAssumption DEF Init, MemoryInit, NodesInit
<1> USE DEF Kinds, Sessions, Null, NoBuffer, Missing, Stamps, Coding, Scaling,
            Between
<1>1. ScalarInv
  <2>1. got \in [fmt : {"drm", "nv12", "other"}, pts : Stamps, told : Stamps]
    OBVIOUS
  <2>2. /\ err = FALSE /\ badRead = {} /\ lost = FALSE /\ access = {}
        /\ clock = Missing /\ picture = Null /\ seen = {}
    OBVIOUS
  <2>3. /\ kind \in Kinds /\ scaling \in BOOLEAN /\ backend \in {"mpp", "svt"}
        /\ source \in {"drm", "nv12", "other"} /\ output \in {"nv12", "other"}
    OBVIOUS
  <2> QED BY <2>1, <2>2, <2>3 DEF ScalarInv
<1>2. MapInv
  BY DEF MapInv, Bufs, Memories
<1>3. PlaceInv /\ AccessInv
  BY DEF PlaceInv, AccessInv
<1>4. HandInv /\ MemoryInv
  BY DEF HandInv, MemoryInv, Encoding
<1>5. LiveInv
  BY DEF LiveInv, Things, BothImported
<1>6. RefsInv
  BY DEF RefsInv, Buffers, Things, HostHeld, ScaledHeld
<1>7. TimeInv
  BY DEF TimeInv
<1>8. StampInv /\ NoFreedRead /\ StampsIncrease
  BY DEF StampInv, NoFreedRead, StampsIncrease, Unsent
<1> QED BY <1>1, <1>2, <1>3, <1>4, <1>5, <1>6, <1>7, <1>8 DEF IInv

(* and every step preserves it.                                            *)
LEMMA StepCorrect ==
  ASSUME IInv, NoFreedRead, StampsIncrease, [Next]_vars
  PROVE  (IInv /\ NoFreedRead /\ StampsIncrease)'
<1>1. CASE Next
  BY <1>1, ScalarInvStep, MapInvStep, PlaceInvStep, AccessInvStep, HandInvStep,
     MemoryInvStep, LiveInvStep, RefsInvStep, TimeInvStep, StampInvStep,
     FreedStep, IncreaseStep DEF IInv
<1>2. CASE UNCHANGED vars
  <2> USE <1>2 DEF vars, baseVars, memVars, nodeVars, scaleVars, roundVars
  <2>1. ScalarInv' /\ MapInv'
    BY DEF IInv, ScalarInv, MapInv
  <2>2. PlaceInv' /\ AccessInv' /\ HandInv' /\ MemoryInv'
    BY DEF IInv, PlaceInv, AccessInv, HandInv, Encoding, MemoryInv, Between
  <2>3. LiveInv' /\ RefsInv'
    BY DEF IInv, LiveInv, BothImported, RefsInv, Between, Second, HostHeld,
           ScaledHeld, ScaledTwice
  <2>4. TimeInv'
    BY DEF IInv, TimeInv, Between, CameWith
  <2>5. StampInv'
    BY DEF IInv, StampInv, Unsent
  <2>6. NoFreedRead' /\ StampsIncrease'
    BY DEF NoFreedRead, StampsIncrease
  <2> QED BY <2>1, <2>2, <2>3, <2>4, <2>5, <2>6 DEF IInv
<1> QED BY <1>1, <1>2

(* The invariants of every kind of use together.                           *)
THEOREM FrameInvariance == Spec => [](IInv /\ NoFreedRead /\ StampsIncrease)
BY InitCorrect, StepCorrect, PTL DEF Spec

(* The types, with all reference counts between 0 and 3.                   *)
THEOREM FrameTypes == Spec => []TypeOK
<1>1. IInv => TypeOK
  <2> SUFFICES ASSUME IInv
               PROVE  TypeOK
    OBVIOUS
  <2>1. \A b \in Buffers : buf[b].refs \in 0 .. 3
    <3> USE DEF IInv, MapInv, Bufs, RefsInv, LiveInv, Things
    <3>1. buf["frame"].refs \in 0 .. 3 /\ buf["host"].refs \in 0 .. 3
      OBVIOUS
    <3>2. buf["scaled"].refs \in 0 .. 3 /\ buf["out"].refs \in 0 .. 3
      OBVIOUS
    <3>3. buf["work"].refs \in 0 .. 3
      OBVIOUS
    <3>4. buf["target"].refs \in 0 .. 3
      OBVIOUS
    <3> QED BY <3>1, <3>2, <3>3, <3>4 DEF Buffers
  <2>2. buf \in [Buffers -> [refs : 0 .. 3, mem : Memories, pts : Stamps, av : Stamps]]
    BY <2>1 DEF IInv, MapInv, Bufs
  <2>3. live \in [Things -> Nat]
    <3>1. \A t \in Things : live[t] \in Nat
      BY DEF IInv, MapInv, LiveInv, Things
    <3> QED BY <3>1 DEF IInv, MapInv
  <2>4. MemoryTypeOK
    BY <2>2, <2>3 DEF MemoryTypeOK, IInv, ScalarInv
  <2>5. nextPts \in 0 .. 2 * MaxStamp + 2
    BY StampAssumption DEF IInv, StampInv, ScalarInv, Stamps, Missing
  <2>6. NodesTypeOK
    BY <2>5 DEF NodesTypeOK, IInv, ScalarInv, StampInv
  <2>7. {encFrame, host, display, shown} \subseteq Buffers \cup {Null}
    BY DEF IInv, HandInv, Buffers
  <2> QED BY <2>4, <2>6, <2>7 DEF TypeOK, IInv, ScalarInv
<1> QED BY <1>1, FrameInvariance, PTL

(* Between two frames nothing is left of a frame, on any path.             *)
THEOREM NothingIsLeft == Spec => []NothingLeft
<1>1. IInv => NothingLeft
  <2> SUFFICES ASSUME IInv, pc \in {"idle", "over", "closed"}
               PROVE  /\ \A b \in Buffers :
                           buf[b].refs = IF b = "target" THEN live["target_handle"] ELSE 0
                      /\ \A t \in Things :
                           \/ live[t] = 0
                           \/ live[t] = 1 /\ Owned(t)
                           \/ t = "decoded" /\ live[t] = 1 /\ err
                           \/ t \in BothHandles /\ lost
    BY DEF NothingLeft
  <2>1. encFrame = Null /\ host = Null /\ display = Null /\ shown = Null
    BY DEF IInv, HandInv, Coding, Scaling, Null
  <2>2. \A b \in Buffers :
          buf[b].refs = IF b = "target" THEN live["target_handle"] ELSE 0
    BY <2>1 DEF IInv, RefsInv, Between, HostHeld, ScaledHeld, Buffers, Null
  <2>3. \A t \in {"decoded", "context", "target_handle", "src_block", "dst_block"} :
          \/ live[t] = 0
          \/ live[t] = 1 /\ Owned(t)
          \/ t = "decoded" /\ live[t] = 1 /\ err
    BY DEF IInv, LiveInv, PlaceInv, Owned, Sessions, Kinds, Coding, Scaling
  <2>4. \A t \in BothHandles :
          live[t] = 0 \/ (live[t] = 1 /\ Owned(t)) \/ lost
    <3>1. CASE BothImported
      BY <3>1 DEF IInv, LiveInv, Owned, BothHandles, BothImported
    <3>2. CASE ~BothImported
      BY <3>2 DEF IInv, LiveInv, BothHandles
    <3> QED BY <3>1, <3>2
  <2> QED BY <2>2, <2>3, <2>4 DEF Things, BothHandles
<1> QED BY <1>1, FrameInvariance, PTL

(* The nodes and decode_loop read no freed buffer, but for the time stamp  *)
(* of the host copy that SVT-AV1's node made of a decoder's frame.         *)
THEOREM FreedReads == Spec => []NoFreedRead
BY FrameInvariance, PTL

(* The encoder's time stamps increase strictly.                            *)
THEOREM StampsInOrder == Spec => []StampsIncrease
BY FrameInvariance, PTL

(* The stamp a frame came with reaches the encoder's node, the output and  *)
(* the application, but for frames transferred by the decoder's node and   *)
(* frames down-scaled for RKMPP, which have none there.                    *)
THEOREM PtsCorrect == Spec => []PtsKept
<1>1. ASSUME IInv
      PROVE  PtsKept
  <2>1. pc \in {"copy", "stamp", "writing"} => ~Between
    BY DEF Between
  <2>2. pc = "shown" => ~Between
    BY DEF Between
  <2>3. pc = "stamp" /\ buf[picture].refs > 0 => picture = encFrame
    <3>1. HandInv /\ RefsInv /\ PlaceInv
      BY <1>1 DEF IInv
    <3>2. pc = "stamp" => host # "host"
      BY <3>1 DEF HandInv, Scaling, Null
    <3>3. pc = "stamp" => buf["host"].refs = 0
      BY <3>1, <3>2 DEF RefsInv, HostHeld
    <3> QED BY <3>1, <3>3 DEF HandInv
  <2> QED BY <1>1, <2>1, <2>2, <2>3 DEF IInv, TimeInv, HandInv, PtsKept, Coding
<1> QED BY <1>1, FrameInvariance, PTL

(* The CPU reads the scaler's target only outside the device's writes.     *)
THEOREM BracketsCorrect == Spec => []ReadsBetweenWrites
<1>1. IInv => ReadsBetweenWrites
  BY DEF IInv, AccessInv, ReadsBetweenWrites
<1> QED BY <1>1, FrameInvariance, PTL
=============================================================================
