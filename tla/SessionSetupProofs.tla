------------------------- MODULE SessionSetupProofs --------------------------
(***************************************************************************)
(* Theorems about SessionSetup: it implements SessionLifecycle, so that    *)
(* the theorems about sessions hold whatever the application describes and *)
(* however the permissions change; and what the nodes are opened with fits *)
(* together, for all descriptions, files and permissions.                  *)
(***************************************************************************)
EXTENDS SessionSetup, SessionLifecycleProofs

(* Template and encoder are the description's; a set pointer is to a node  *)
(* that was opened as the description and the file say.                    *)
ChoiceInv ==
  /\ description \in Description
  /\ template = TemplateOf(description)
  /\ backend = RouteBackend(description)
  /\ DOMAIN opened = Nodes
  /\ \A n \in Mine : ptr[n] => opened[n] = OpenedAs(n)
  /\ "dec" \in Mine /\ ptr["dec"] => DecoderCodec = file.codec

SInv == IInv /\ ChoiceInv /\ CheckPredictsMpp

-----------------------------------------------------------------------------
(* Every step of a session with its description is a step of the session,  *)
(* or changes nothing of it.                                               *)
LEMMA StepImplements ==
  [SetupNext]_<<vars, setupVars>> => [Next]_vars
BY DEF SetupNext, ChangePermissions, CheckDevices, OpenChecked, OpenRejected,
       OtherCalls, Next

(* Sessions with descriptions, routes and permissions are sessions as      *)
(* SessionLifecycle describes them.                                        *)
THEOREM SetupImplementsLifecycle == SetupSpec => Spec
<1>1. SetupInit => Init
  BY DEF SetupInit
<1> QED BY <1>1, StepImplements, PTL DEF SetupSpec, Spec

-----------------------------------------------------------------------------
(* The size of a scaled encoder is even.                                   *)
LEMMA AlignedIsEven ==
  ASSUME NEW v \in Nat, NEW k \in Nat \ {0}
  PROVE  Align2(v \div k) % 2 = 0
<1>1. v \div k \in Nat
  OBVIOUS
<1>2. \A q \in Nat : (q - (q % 2)) % 2 = 0
  OBVIOUS
<1> QED BY <1>1, <1>2 DEF Align2

(* The permission check asks for what RKMPP will need.                     *)
LEMMA PermittedStarts ==
  ASSUME NEW a, Permitted(a)
  PROVE  MppStarts(a)
BY DEF Permitted, MppStarts, MppTries

(* The numbers of a description.                                           *)
LEMMA DescriptionNumbers ==
  ASSUME NEW d \in Description
  PROVE  d.enc_scale_denom \in Nat /\ d.width \in Nat /\ d.height \in Nat
<1>1. /\ d.enc_scale_denom \in Nat /\ d.width \in 1 .. MaxWidth
      /\ d.height \in 1 .. MaxHeight
  BY DEF Description
<1>2. \A n : \A i \in 1 .. n : n \in Nat => i \in Nat
  OBVIOUS
<1>3. MaxWidth \in Nat /\ MaxHeight \in Nat
  BY DEF MaxWidth, MaxHeight
<1> QED BY <1>1, <1>2, <1>3

(* The initial states.                                                     *)
LEMMA SetupInitInv == SetupInit => SInv
<1> SUFFICES ASSUME SetupInit PROVE SInv
  OBVIOUS
<1>1. Init
  BY DEF SetupInit
<1>2. IInv
  BY <1>1, InitIInv
<1>3. \A n \in Mine : ~ptr[n]
  <2>1. Mine \subseteq Nodes
    BY <1>2, MineFacts DEF IInv, TypeOK
  <2> QED BY <1>1, <2>1 DEF Init
<1>4. ChoiceInv
  BY <1>3, SetupAssumption DEF SetupInit, ChoiceInv
<1>5. CheckPredictsMpp
  BY DEF SetupInit, CheckPredictsMpp
<1> QED BY <1>2, <1>4, <1>5 DEF SInv

(* Every step keeps the invariant.                                         *)
LEMMA SetupNextInv == SInv /\ [SetupNext]_<<vars, setupVars>> => SInv'
<1> SUFFICES ASSUME SInv, [SetupNext]_<<vars, setupVars>> PROVE SInv'
  OBVIOUS
<1>1. IInv'
  BY StepImplements, NextIInv DEF SInv
<1>m. /\ template \in Templates /\ backend \in Backends
      /\ ptr \in [Nodes -> BOOLEAN] /\ todo \in Seq(Nodes)
  BY DEF SInv, IInv, TypeOK
<1>n. /\ Mine \subseteq Nodes /\ "rga" \notin Mine /\ "pool" \notin Mine
      /\ \A n \in Ports : n \notin Mine
  BY <1>m, MineFacts
<1>d. UNCHANGED <<desc, choiceVars>>
  BY DEF SetupNext, ChangePermissions, CheckDevices, OpenChecked, OpenRejected,
         OtherCalls, setupVars, vars, CreateFails, Create, CallStart, RunRunning,
         Started, MakeScaler, LoopReturns, Stop, Destroy, Gone, OpenNode, OpenFails
<1>s. /\ Mine' = Mine /\ \A n : OpenedAs(n)' = OpenedAs(n)
      /\ DecoderCodec' = DecoderCodec /\ file' = file
      /\ description' = description /\ template' = template /\ backend' = backend
  BY <1>d DEF desc, choiceVars, Mine, MyNodes, OpenedAs, DecoderCodec
<1>2. CheckPredictsMpp'
  <2>1. CASE UNCHANGED <<checked, changed, allowed>>
    BY <2>1 DEF SInv, CheckPredictsMpp, MppStarts, MppTries
  <2>2. CASE ChangePermissions
    BY <2>2 DEF ChangePermissions, CheckPredictsMpp
  <2>3. CASE CheckDevices
    BY <2>3, PermittedStarts DEF CheckDevices, CheckPredictsMpp
  <2>4. CASE OpenChecked \/ OpenRejected
    BY <2>4 DEF OpenChecked, OpenRejected, CheckPredictsMpp
  <2> QED BY <2>1, <2>2, <2>3, <2>4 DEF SetupNext, setupVars
<1>3. ChoiceInv'
  <2>0. ChoiceInv
    BY DEF SInv
  <2>1. CASE /\ opened' = opened
             /\ \A n \in Mine : ptr'[n] => ptr[n]
    BY <2>0, <2>1, <1>s, <1>n DEF ChoiceInv, Nodes
  <2>2. CASE OpenChecked
    <3> DEFINE h == Head(todo)
    <3>1. /\ todo # <<>> /\ CanOpen(h)
          /\ ptr' = [ptr EXCEPT ![h] = TRUE]
          /\ opened' = [opened EXCEPT ![h] = OpenedAs(h)]
      BY <2>2 DEF OpenChecked, OpenNode
    <3>2. h \in Nodes
      BY <1>m, <3>1
    <3> HIDE DEF h
    <3>3. DOMAIN opened' = Nodes
      BY <2>0, <3>1 DEF ChoiceInv
    <3>4. ASSUME NEW n \in Mine, ptr'[n] PROVE opened'[n] = OpenedAs(n)
      <4>1. CASE n = h
        BY <4>1, <3>1, <3>2, <2>0 DEF ChoiceInv
      <4>2. CASE n # h
        BY <4>2, <3>1, <3>4, <2>0, <1>n, <1>m DEF ChoiceInv
      <4> QED BY <4>1, <4>2
    <3>5. "dec" \in Mine /\ ptr'["dec"] => DecoderCodec = file.codec
      <4>1. CASE h = "dec"
        BY <4>1, <3>1 DEF CanOpen
      <4>2. CASE h # "dec"
        BY <4>2, <3>1, <2>0, <1>m DEF ChoiceInv, Nodes
      <4> QED BY <4>1, <4>2
    <3> QED BY <2>0, <3>3, <3>4, <3>5, <1>s DEF ChoiceInv
  <2>3. CASE ~OpenChecked
    <3>1. opened' = opened
      BY <2>3 DEF SetupNext, ChangePermissions, CheckDevices, OpenRejected, setupVars
    <3>2. ASSUME NEW n \in Mine, ptr'[n] PROVE ptr[n]
      <4>1. n \in Nodes /\ n # "rga" /\ n # "pool" /\ n \notin Ports
        BY <1>n
      <4>2. CASE ptr' = ptr
        BY <4>2, <3>2
      <4>3. CASE OpenFails
        BY <4>3, <3>2, <4>1, <1>m DEF OpenFails
      <4>4. CASE Create
        BY <4>4, <3>2, <4>1 DEF Create
      <4>5. CASE MakeScaler
        BY <4>5, <3>2, <4>1, <1>m DEF MakeScaler
      <4>6. CASE Destroy
        BY <4>6, <3>2, <4>1 DEF Destroy
      <4> QED BY <2>3, <4>2, <4>3, <4>4, <4>5, <4>6
               DEF SetupNext, ChangePermissions, CheckDevices, OpenRejected,
                   OtherCalls, setupVars, vars, nodeVars, CreateFails, CallStart,
                   RunRunning, Started, LoopReturns, Stop, Gone
    <3> QED BY <3>1, <3>2, <2>1
  <2> QED BY <2>2, <2>3
<1> QED BY <1>1, <1>2, <1>3 DEF SInv

(* The invariant holds for every description, file and set of permissions. *)
THEOREM SetupInvariance == SetupSpec => []SInv
BY SetupInitInv, SetupNextInv, PTL DEF SetupSpec

(* What RKMPP needs was checked (init.c:224-245).                          *)
THEOREM CheckCorrect == SetupSpec => []CheckPredictsMpp
<1>1. SInv => CheckPredictsMpp
  BY DEF SInv
<1> QED BY <1>1, SetupInvariance, PTL

(* A loop runs on nodes that were opened as described.                     *)
LEMMA LoopOpened ==
  ASSUME SInv, looping
  PROVE  /\ \A n \in Mine : opened[n] = OpenedAs(n)
         /\ "dec" \in Mine => DecoderCodec = file.codec
BY DEF SInv, ChoiceInv, IInv, OpenInv

(* The nodes that the templates use.                                       *)
LEMMA TemplateNodes ==
  /\ template # "decode" => "mux" \in Mine /\ backend \in Mine
  /\ template \in {"decode", "transcode"} => "dec" \in Mine
<1>1. CASE template = "decode"
  <2>1. MyNodes = <<"demux", "dec">>
    BY <1>1 DEF MyNodes, NodesOf
  <2>2. 2 \in DOMAIN MyNodes /\ MyNodes[2] = "dec"
    BY <2>1
  <2> QED BY <1>1, <2>2 DEF Mine
<1>2. CASE template = "transcode"
  <2>1. MyNodes = <<"demux", "dec", backend, "mux">>
    BY <1>2 DEF MyNodes, NodesOf
  <2>2. /\ 2 \in DOMAIN MyNodes /\ 3 \in DOMAIN MyNodes /\ 4 \in DOMAIN MyNodes
        /\ MyNodes[2] = "dec" /\ MyNodes[3] = backend /\ MyNodes[4] = "mux"
    BY <2>1
  <2> QED BY <2>2 DEF Mine
<1>3. CASE template \notin {"decode", "transcode"}
  <2>1. MyNodes = <<backend, "mux">>
    BY <1>3 DEF MyNodes, NodesOf
  <2>2. /\ 1 \in DOMAIN MyNodes /\ 2 \in DOMAIN MyNodes
        /\ MyNodes[1] = backend /\ MyNodes[2] = "mux"
    BY <2>1
  <2> QED BY <1>3, <2>2 DEF Mine
<1> QED BY <1>1, <1>2, <1>3

(* The container, the encoder, the decoder and the file name the same      *)
(* codecs (session.c:205-266, router.c:65-110).                            *)
THEOREM CodecsCorrect == SetupSpec => []CodecsAgree
<1>1. SInv => CodecsAgree
  <2> SUFFICES ASSUME SInv, looping
               PROVE  /\ template # "decode" => opened["mux"].codec = opened[backend].codec
                      /\ template \in {"decode", "transcode"} =>
                           opened["dec"].codec = file.codec
    BY DEF CodecsAgree
  <2>1. ASSUME template # "decode" PROVE opened["mux"].codec = opened[backend].codec
    <3>1. opened["mux"] = OpenedAs("mux") /\ opened[backend] = OpenedAs(backend)
      BY <2>1, LoopOpened, TemplateNodes
    <3>2. backend = RouteBackend(description)
      BY DEF SInv, ChoiceInv
    <3> QED BY <3>1, <3>2 DEF OpenedAs, RouteBackend
  <2>2. ASSUME template \in {"decode", "transcode"}
        PROVE  opened["dec"].codec = file.codec
    <3>1. opened["dec"] = OpenedAs("dec") /\ DecoderCodec = file.codec
      BY <2>2, LoopOpened, TemplateNodes
    <3> QED BY <3>1 DEF OpenedAs
  <2> QED BY <2>1, <2>2
<1> QED BY <1>1, SetupInvariance, PTL

(* The encoder gets pictures of the size it and the container were opened  *)
(* for, whatever the description's scale (session.c:22-63, 205-242).       *)
THEOREM SizesCorrect == SetupSpec => []SizesAgree
<1>1. SInv => SizesAgree
  <2> SUFFICES ASSUME SInv, looping, template \in {"encode", "transcode"},
                      \/ description.enc_scale_denom > 1
                      \/ FrameSize = <<description.width, description.height>>
               PROVE  /\ opened[backend].size = SentSize /\ opened["mux"].size = SentSize
                      /\ description.enc_scale_denom > 1 =>
                           \A i \in 1 .. 2 : SentSize[i] % 2 = 0
    BY DEF SizesAgree
  <2>1. opened["mux"] = OpenedAs("mux") /\ opened[backend] = OpenedAs(backend)
    BY LoopOpened, TemplateNodes
  <2>2. backend = RouteBackend(description) /\ description \in Description
    BY DEF SInv, ChoiceInv
  <2>3. opened["mux"].size = EncSize(description)
        /\ opened[backend].size = EncSize(description)
    BY <2>1, <2>2 DEF OpenedAs, RouteBackend
  <2>4. description.enc_scale_denom \in Nat
        /\ description.width \in Nat /\ description.height \in Nat
    BY <2>2, DescriptionNumbers
  <2>5. SentSize = EncSize(description)
    BY <2>4 DEF SentSize, EncSize
  <2>6. ASSUME description.enc_scale_denom > 1, NEW i \in 1 .. 2
        PROVE  SentSize[i] % 2 = 0
    <3>1. SentSize = <<Align2(description.width \div description.enc_scale_denom),
                       Align2(description.height \div description.enc_scale_denom)>>
      BY <2>4, <2>5, <2>6 DEF EncSize
    <3>2. description.enc_scale_denom \in Nat \ {0}
      BY <2>4, <2>6
    <3>3. /\ Align2(description.width \div description.enc_scale_denom) % 2 = 0
          /\ Align2(description.height \div description.enc_scale_denom) % 2 = 0
      BY <3>2, <2>4, AlignedIsEven
    <3> QED BY <3>1, <3>3
  <2> QED BY <2>3, <2>5, <2>6
<1> QED BY <1>1, SetupInvariance, PTL

=============================================================================
