---------------------------- MODULE SessionSetup -----------------------------
(***************************************************************************)
(* How a session comes by its codecs: from the application's description   *)
(* with the template's defaults (lib/pipeline.c), through the router       *)
(* (lib/router.c), the encoder's size (lib/session.c) and the permission   *)
(* check in front of RKMPP (lib/init.c), to the nodes that                 *)
(* SessionLifecycle opens.  The permissions of the device files may change *)
(* at any time.                                                            *)
(***************************************************************************)
EXTENDS SessionLifecycle

CONSTANTS
  Descriptions,  \* what applications ask for
  Files,         \* the input files
  Grants         \* sets of device files the process may be allowed to use

Codecs == {"h264", "hevc", "av1"}
TemplateIds == {"encode", "decode", "transcode", "live", "av1_storage"}

MaxWidth == 7680    \* the largest picture rkvc_query_caps names
MaxHeight == 4320

Description ==
  [template_id : TemplateIds, policy : {"realtime", "balanced", "quality"},
   codec : Codecs \cup {"auto"}, width : 1 .. MaxWidth,
   height : 1 .. MaxHeight, fps_num : Nat, enc_scale_denom : Nat]
File == [codec : Codecs \cup {"other"}, width : Nat, height : Nat]
Devices == {"codec", "heap_dir", "default_heap", "cma_heap", "drm", "ion"}
MppNodes == {"dec", "enc"}
Unopened == [codec |-> "none", size |-> <<0, 0>>]

ASSUME SetupAssumption ==
  /\ Descriptions \subseteq Description
  /\ Files \subseteq File
  /\ Grants \subseteq SUBSET Devices
  /\ Templates = {"transcode", "decode", "encode", "live"}
  /\ Backends = {"enc", "svt"} /\ MppNodes \subseteq Faults

VARIABLES
  description, file,
  allowed,   \* the device files the process may use now
  checked,   \* the open in progress has passed its permission check
  changed,   \* history: permissions changed since that check
  opened     \* opened[n]: codec and picture size node n was opened with

choiceVars == <<description, file>>
setupVars == <<choiceVars, allowed, checked, changed, opened>>

-----------------------------------------------------------------------------
(* What applications start from.                                           *)
FromTemplate(id) ==
  [template_id |-> id,
   policy |-> CASE id \in {"encode", "live"} -> "realtime"
                [] id = "av1_storage" -> "quality"
                [] OTHER -> "balanced",
   codec |-> IF id = "av1_storage" THEN "av1" ELSE "auto",
   width |-> 1920, height |-> 1080, fps_num |-> 30, enc_scale_denom |-> 1]

(* The route.  AV1 is encoded by SVT-AV1, everything else by RKMPP.        *)
HighRate(d) == d.width * d.height >= 1920 * 1080 /\ d.fps_num >= 50

RouteCodec(d) ==
  IF d.codec # "auto" THEN d.codec
  ELSE CASE d.policy = "realtime" -> "h264"
         [] d.policy = "quality"  -> "av1"
         [] OTHER -> IF HighRate(d) THEN "h264" ELSE "hevc"

RouteBackend(d) == IF RouteCodec(d) = "av1" THEN "svt" ELSE "enc"

TemplateOf(d) ==
  IF d.template_id = "av1_storage" THEN "transcode" ELSE d.template_id

Align2(v) == v - (v % 2)

EncSize(d) ==
  IF d.enc_scale_denom <= 1 THEN <<d.width, d.height>>
  ELSE <<Align2(d.width \div d.enc_scale_denom),
         Align2(d.height \div d.enc_scale_denom)>>

(* The permission check: a codec device, and the memory RKMPP will use.    *)
MutPermitted(a) ==   \* the render node stands in for a closed DMA heap
  /\ "codec" \in a
  /\ \/ "heap_dir" \in a /\ "default_heap" \in a
     \/ {"drm", "ion"} \cap a # {}

Permitted(a) ==
  /\ "codec" \in a
  /\ IF "heap_dir" \in a THEN "default_heap" \in a
     ELSE {"drm", "ion"} \cap a # {}

(* RKMPP takes DMA heaps as soon as their directory is readable, never     *)
(* the CMA heaps, and then tries nothing else.                             *)
MppTries(a) == IF "heap_dir" \in a THEN {"default_heap"} ELSE {"drm", "ion"}
MppStarts(a) == "codec" \in a /\ MppTries(a) \cap a # {}

(* The decoder goes by what is in the file; only a codec it has no RKMPP   *)
(* decoder for falls back to the route's, which FFmpeg then refuses.  An   *)
(* FFmpeg with RKMPP has its decoders for H.264, HEVC and AV1.             *)
DecoderCodec == IF file.codec = "other" THEN RouteCodec(description)
                ELSE file.codec

(* What the nodes are opened with.  The muxer's header is filled in by the *)
(* session, apart from the encoders.                                       *)
MutOpenedAs(n) ==   \* the header is for H.264 unless the route says HEVC
  CASE n = "dec" -> [codec |-> DecoderCodec, size |-> <<file.width, file.height>>]
    [] n = "svt" -> [codec |-> "av1", size |-> EncSize(description)]
    [] n = "mux" -> [codec |-> IF RouteCodec(description) = "hevc" THEN "hevc"
                               ELSE "h264",
                     size |-> EncSize(description)]
    [] OTHER -> [codec |-> RouteCodec(description), size |-> EncSize(description)]

MutOpenedUnscaled(n) ==   \* the header has the description's size
  CASE n = "dec" -> [codec |-> DecoderCodec, size |-> <<file.width, file.height>>]
    [] n = "svt" -> [codec |-> "av1", size |-> EncSize(description)]
    [] n = "mux" -> [codec |-> RouteCodec(description),
                     size |-> <<description.width, description.height>>]
    [] OTHER -> [codec |-> RouteCodec(description), size |-> EncSize(description)]

OpenedAs(n) ==
  CASE n = "dec" -> [codec |-> DecoderCodec, size |-> <<file.width, file.height>>]
    [] n = "svt" -> [codec |-> "av1", size |-> EncSize(description)]
    [] OTHER -> [codec |-> RouteCodec(description), size |-> EncSize(description)]

(* The pictures the loops give to the encoder: the frames as they are, or  *)
(* scaled to the encoder's size.                                           *)
FrameSize ==
  IF template = "encode" THEN <<description.width, description.height>>
  ELSE <<file.width, file.height>>

SentSize ==
  IF description.enc_scale_denom <= 1 THEN FrameSize ELSE EncSize(description)

-----------------------------------------------------------------------------
SetupInit ==
  /\ Init
  /\ description \in Descriptions /\ file \in Files
  /\ template = TemplateOf(description)
  /\ backend = RouteBackend(description)
  /\ allowed \in Grants
  /\ checked = FALSE /\ changed = FALSE
  /\ opened = [n \in Nodes |-> Unopened]

(* The environment: an administrator, udev.                                *)
ChangePermissions ==
  /\ allowed' \in Grants \ {allowed}
  /\ changed' = checked
  /\ UNCHANGED <<vars, choiceVars, checked, opened>>

CheckDevices ==
  /\ todo # <<>> /\ Head(todo) \in MppNodes
  /\ ~checked
  /\ Permitted(allowed)
  /\ checked' = TRUE /\ changed' = FALSE
  /\ UNCHANGED <<vars, choiceVars, allowed, opened>>

(* What avcodec_open2 can open, of the nodes that need RKMPP.              *)
CanOpen(n) ==
  /\ n \in MppNodes => checked /\ MppStarts(allowed)
  /\ n = "dec" => DecoderCodec = file.codec

OpenChecked ==
  /\ OpenNode
  /\ CanOpen(Head(todo))
  /\ opened' = [opened EXCEPT ![Head(todo)] = OpenedAs(Head(todo))]
  /\ checked' = FALSE /\ changed' = FALSE
  /\ UNCHANGED <<choiceVars, allowed>>

(* An open fails for want of permission, before or after the check, or for *)
(* any other reason.                                                       *)
OpenRejected ==
  /\ OpenFails
  /\ checked' = FALSE /\ changed' = FALSE
  /\ UNCHANGED <<choiceVars, allowed, opened>>

(* The other calls are those of SessionLifecycle.                          *)
OtherCalls ==
  \/ CreateFails \/ Create
  \/ \E c \in {"start", "run"} : CallStart(c)
  \/ RunRunning \/ Started
  \/ MakeScaler \/ LoopReturns
  \/ Stop \/ Destroy \/ Gone

SetupNext ==
  \/ ChangePermissions \/ CheckDevices
  \/ OpenChecked \/ OpenRejected
  \/ OtherCalls /\ UNCHANGED setupVars

SetupSpec == SetupInit /\ [][SetupNext]_<<vars, setupVars>>

-----------------------------------------------------------------------------
(* The container's header names the codec that the encoder produces, and   *)
(* the decoder is one for the file (session.c:205-266, router.c:65-110,    *)
(* node_mpp_dec.c:29-53).                                                  *)
CodecsAgree ==
  looping =>
    /\ template # "decode" => opened["mux"].codec = opened[backend].codec
    /\ template \in {"decode", "transcode"} => opened["dec"].codec = file.codec

(* Every picture the loops give to the encoder has the size for which the  *)
(* encoder and the container were opened, an even one when it was scaled.  *)
(* Without scaling the application has to name the size of its file        *)
(* (session.c:22-32, 40-63, 205-242).                                      *)
SizesAgree ==
  /\ looping /\ template \in {"encode", "transcode"}
  /\ \/ description.enc_scale_denom > 1
     \/ FrameSize = <<description.width, description.height>>
  => /\ opened[backend].size = SentSize /\ opened["mux"].size = SentSize
     /\ description.enc_scale_denom > 1 => \A i \in 1 .. 2 : SentSize[i] % 2 = 0

(* When the permissions stay as they are, the check has found out whether  *)
(* RKMPP will have a device and memory (init.c:151-158, 186-199, 224-245). *)
CheckPredictsMpp == checked /\ ~changed => MppStarts(allowed)

=============================================================================
