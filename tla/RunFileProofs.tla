---------------------------- MODULE RunFileProofs -----------------------------
(***************************************************************************)
(* Theorems about RunFile, for files of any length, every port and encoder *)
(* queue, any number of packets without data, and every set of faults.     *)
(***************************************************************************)
EXTENDS RunFile, TLAPS

(* The k-th frame that comes to the encoding half.                         *)
Line(k) == IF template = "transcode" THEN sent[k] ELSE k

(* r[i] is the number of packets with data among the first i of s.         *)
Ranks(s) ==
  {r \in [0 .. Len(s) -> Nat] :
     /\ r[0] = 0
     /\ \A i \in 1 .. Len(s) : r[i] = r[i - 1] + (IF s[i] = 0 THEN 0 ELSE 1)
     /\ \A i, j \in 0 .. Len(s) : i <= j => r[i] <= r[j]}

(* encode_one_frame has a frame that the encoder has not taken.            *)
InHand == pc \in {"scale", "send"} \/ (pc = "drain" /\ site = "retry")

(* How many frames the encoder took: those whose packets were fetched from *)
(* it, and those it still has.                                             *)
Taken(r) == fetched + r[Len(enc.ready)] + Len(enc.pending)
Handed(r) == Taken(r) + (IF InHand THEN 1 ELSE 0)

(* encode_file_loop may lose a frame that it counted but cannot scale.     *)
Lossy == template = "encode" /\ Scaling /\ Fails("scale")

(* The frames in the encoder are the next ones of the line, in order, and  *)
(* every frame counted in has been handed to it, but for the one with      *)
(* which encode_file_loop ended.                                           *)
EncLine(r) ==
  /\ \A i \in DOMAIN enc.ready :
       enc.ready[i] # 0 => enc.ready[i] = Line(fetched + r[i])
  /\ \A i \in DOMAIN enc.pending :
       enc.pending[i] = Line(fetched + r[Len(enc.ready)] + i)
  /\ InHand => work = Line(Taken(r) + 1)
  /\ \/ Handed(r) = framesIn
     \/ Lossy /\ pc \in {"flush", "tail"} /\ Handed(r) + 1 = framesIn

LineInv == pc # "done" => \E r \in Ranks(enc.ready) : EncLine(r)

(* What the decoder took is what the encoding half got, then what is ready *)
(* and what is pending in the decoder.                                     *)
DecLine ==
  /\ \A i \in DOMAIN sent : i <= sent[i] /\ sent[i] < next
  /\ IsIncreasing(sent)
  /\ Len(sent) = framesIn + Len(dec.ready) + Len(dec.pending)
  /\ \A i \in DOMAIN dec.ready : dec.ready[i] = sent[framesIn + i]
  /\ \A i \in DOMAIN dec.pending :
       dec.pending[i] = sent[framesIn + Len(dec.ready) + i]
  /\ dec.eos => next > Last
  /\ (pc \in {"flush", "tail"} \/ result = "ok") /\ ~stop =>
       dec.eos /\ Empty(dec)

SourceInv ==
  IF template = "transcode" THEN DecLine ELSE next = framesIn + 1

(* What came out of the encoder, and what the consumer sees of it.         *)
Out == pulled \o port

OutInv ==
  /\ framesOut <= fetched /\ fetched <= framesIn
  /\ result = "ok" /\ template = "transcode" => fetched = framesIn
  /\ \A i \in DOMAIN written : \E k \in 1 .. fetched : written[i] = Line(k)
  /\ IsIncreasing(written)
  /\ \A i \in DOMAIN Out : \E k \in 1 .. fetched : Out[i] = Line(k)
  /\ IsIncreasing(Out)
  /\ missed = {} =>
       /\ Len(written) = framesOut
       /\ fetched = framesOut =>
            \A i \in 1 .. framesOut : written[i] = Line(i)
       /\ \A i \in DOMAIN Out : \E j \in DOMAIN written : written[j] = Out[i]

(* Where the loop holds frames, where a packet may get lost in a run that  *)
(* goes on, and what is special about RKMPP: it has no packets without     *)
(* data, and since the loop always reads until there is nothing, it never  *)
(* refuses, so that only a failing call leaves it untold.                  *)
Flags ==
  /\ pc \in {"head", "receive", "flush", "tail", "done"}
       \/ (pc = "drain" /\ site = "idle") => held = {}
  /\ site = "idle" => template = "transcode"
  /\ framesOut # fetched /\ result # "fail" =>
       template = "transcode" /\ backend = "svt"
  /\ pc \notin {"tail", "done"} => ~enc.eos
  /\ pc = "tail" => enc.eos \/ Untold
  /\ backend = "mpp" =>
       /\ site = "sent"
       /\ \A i \in DOMAIN enc.ready : enc.ready[i] # 0
       /\ pc \notin {"drain", "tail", "done"} => enc.settled
       /\ answer # "refused"
       /\ result # "fail" => "loop" \notin missed

Types ==
  /\ template \in {"transcode", "encode"}
  /\ EncTypeOK /\ DecTypeOK
  /\ pc \in {"head", "receive", "scale", "send", "drain", "flush", "tail", "done"}
  /\ template = "encode" => pc \notin {"receive", "scale"}

IInv == Types /\ Flags /\ SourceInv /\ LineInv /\ OutInv

-----------------------------------------------------------------------------
(* A further packet, with or without data, leaves the ranks of the others. *)
LEMMA RankAppend ==
  ASSUME NEW s \in Seq(Nat), NEW x \in Nat, NEW r \in Ranks(s)
  PROVE  LET q == [i \in 0 .. Len(s) + 1 |->
                     IF i <= Len(s) THEN r[i]
                     ELSE r[Len(s)] + (IF x = 0 THEN 0 ELSE 1)]
         IN  q \in Ranks(Append(s, x))
<1> DEFINE q == [i \in 0 .. Len(s) + 1 |->
                   IF i <= Len(s) THEN r[i]
                   ELSE r[Len(s)] + (IF x = 0 THEN 0 ELSE 1)]
<1> DEFINE t == Append(s, x)
<1>1. Len(t) = Len(s) + 1 /\ Len(s) \in Nat
  OBVIOUS
<1>2. \A i \in 1 .. Len(s) : t[i] = s[i]
  OBVIOUS
<1>3. t[Len(s) + 1] = x
  OBVIOUS
<1>4. /\ r \in [0 .. Len(s) -> Nat] /\ r[0] = 0
      /\ \A i \in 1 .. Len(s) : r[i] = r[i - 1] + (IF s[i] = 0 THEN 0 ELSE 1)
      /\ \A i, j \in 0 .. Len(s) : i <= j => r[i] <= r[j]
  BY DEF Ranks
<1> HIDE DEF t
<1> DEFINE d == IF x = 0 THEN 0 ELSE 1
<1>d. d \in Nat
  OBVIOUS
<1>q. /\ \A i \in 0 .. Len(s) : q[i] = r[i]
      /\ q[Len(s) + 1] = r[Len(s)] + d
      /\ DOMAIN q = 0 .. Len(s) + 1
  BY <1>1
<1>n. Len(s) \in 0 .. Len(s) /\ \A i \in 0 .. Len(s) : r[i] \in Nat
  <2>1. r \in [0 .. Len(s) -> Nat]
    BY <1>4
  <2> QED BY <2>1, <1>1
<1>g. q = [i \in 0 .. Len(s) + 1 |-> q[i]]
  OBVIOUS
<1> HIDE DEF q, d
<1>e. q \in [0 .. Len(t) -> Nat] /\ q[0] = 0
  <2>1. ASSUME NEW i \in 0 .. Len(s) + 1 PROVE q[i] \in Nat
    <3>1. CASE i \in 0 .. Len(s)
      BY <3>1, <1>n, <1>q
    <3>2. CASE i = Len(s) + 1
      <4>1. r[Len(s)] \in Nat
        BY <1>n
      <4> QED BY <3>2, <4>1, <1>d, <1>q
    <3> QED BY <3>1, <3>2, <1>1
  <2>2. q \in [0 .. Len(s) + 1 -> Nat]
    BY <2>1, <1>g
  <2>3. 0 \in 0 .. Len(s)
    BY <1>1
  <2> QED BY <2>2, <2>3, <1>1, <1>4, <1>q
<1> USE DEF d
<1>f. d = IF t[Len(s) + 1] = 0 THEN 0 ELSE 1
  BY <1>3
<1> HIDE DEF q, d
<1>6. ASSUME NEW i \in 1 .. Len(t)
      PROVE  q[i] = q[i - 1] + (IF t[i] = 0 THEN 0 ELSE 1)
  <2>1. CASE i <= Len(s)
    <3>1. i \in 1 .. Len(s) /\ i \in 0 .. Len(s) /\ i - 1 \in 0 .. Len(s)
      BY <2>1, <1>1
    <3> QED BY <3>1, <1>2, <1>4, <1>q
  <2>2. CASE i = Len(s) + 1
    <3>1. q[i - 1] = r[Len(s)] /\ q[i] = r[Len(s)] + d
      BY <2>2, <1>1, <1>q
    <3> QED BY <3>1, <2>2, <1>f
  <2> QED BY <2>1, <2>2, <1>1
<1>7. ASSUME NEW i \in 0 .. Len(t), NEW j \in 0 .. Len(t), i <= j
      PROVE  q[i] <= q[j]
  <2>1. CASE j <= Len(s)
    BY <2>1, <1>7, <1>1, <1>4, <1>q
  <2>2. CASE j = Len(s) + 1 /\ i <= Len(s)
    <3>1. q[i] = r[i] /\ q[j] = r[Len(s)] + d
      BY <2>2, <1>1, <1>q
    <3>2. i \in 0 .. Len(s)
      BY <2>2, <1>1
    <3>3. r[i] <= r[Len(s)]
      BY <2>2, <3>2, <1>n, <1>4
    <3>4. r[i] \in Nat /\ r[Len(s)] \in Nat
      BY <3>2, <1>n
    <3> QED BY <3>1, <3>3, <3>4, <1>d
  <2>3. CASE j = Len(s) + 1 /\ i = j
    BY <2>3, <1>e, <1>1
  <2> QED BY <2>1, <2>2, <2>3, <1>1, <1>7
<1> QED BY <1>e, <1>6, <1>7 DEF Ranks, t, q, d

(* When the first packet is read, the others move up.                      *)
LEMMA RankTail ==
  ASSUME NEW s \in Seq(Nat), s # <<>>, NEW r \in Ranks(s)
  PROVE  /\ r[1] = IF s[1] = 0 THEN 0 ELSE 1
         /\ [i \in 0 .. Len(s) - 1 |-> r[i + 1] - r[1]] \in Ranks(Tail(s))
<1> DEFINE q == [i \in 0 .. Len(s) - 1 |-> r[i + 1] - r[1]]
<1> DEFINE t == Tail(s)
<1>1. Len(t) = Len(s) - 1 /\ Len(s) \in Nat /\ Len(s) >= 1
  OBVIOUS
<1>2. \A i \in 1 .. Len(t) : t[i] = s[i + 1]
  OBVIOUS
<1>4. /\ r \in [0 .. Len(s) -> Nat] /\ r[0] = 0
      /\ \A i \in 1 .. Len(s) : r[i] = r[i - 1] + (IF s[i] = 0 THEN 0 ELSE 1)
      /\ \A i, j \in 0 .. Len(s) : i <= j => r[i] <= r[j]
  BY DEF Ranks
<1>n. \A i \in 0 .. Len(s) : r[i] \in Nat
  BY <1>4
<1> HIDE DEF t
<1>5. r[1] = IF s[1] = 0 THEN 0 ELSE 1
  BY <1>1, <1>4
<1>q. \A i \in 0 .. Len(t) : q[i] = r[i + 1] - r[1]
  BY <1>1
<1>r. \A i \in 0 .. Len(t) : r[1] <= r[i + 1] /\ r[i + 1] \in Nat /\ r[1] \in Nat
  BY <1>1, <1>4
<1>g. q = [i \in 0 .. Len(t) |-> q[i]]
  BY <1>1
<1> HIDE DEF q
<1>6. q \in [0 .. Len(t) -> Nat] /\ q[0] = 0
  <2>1. ASSUME NEW i \in 0 .. Len(t) PROVE q[i] \in Nat
    <3>1. \A a, b \in Nat : a <= b => b - a \in Nat
      OBVIOUS
    <3>2. r[1] <= r[i + 1] /\ r[i + 1] \in Nat /\ r[1] \in Nat
      BY <1>r
    <3>3. r[i + 1] - r[1] \in Nat
      BY <3>1, <3>2
    <3> QED BY <3>3, <1>q
  <2>2. 0 \in 0 .. Len(t)
    BY <1>1
  <2>3. q[0] = r[1] - r[1] /\ r[1] \in Nat
    BY <2>2, <1>q, <1>r
  <2>4. q[0] = 0
    BY <2>3
  <2> QED BY <2>1, <2>4, <1>g
<1>7. ASSUME NEW i \in 1 .. Len(t)
      PROVE  q[i] = q[i - 1] + (IF t[i] = 0 THEN 0 ELSE 1)
  <2> DEFINE d == IF t[i] = 0 THEN 0 ELSE 1
  <2>0. i + 1 \in 1 .. Len(s) /\ i \in 0 .. Len(t) /\ i - 1 \in 0 .. Len(t)
    BY <1>1
  <2>1. r[i + 1] = r[i] + d
    <3>1. t[i] = s[i + 1]
      BY <1>2
    <3>2. r[i + 1] = r[(i + 1) - 1] + (IF s[i + 1] = 0 THEN 0 ELSE 1)
      BY <2>0, <1>4
    <3>3. (i + 1) - 1 = i
      BY <2>0
    <3> QED BY <3>1, <3>2, <3>3
  <2>2. q[i] = r[i + 1] - r[1] /\ q[i - 1] = r[i] - r[1]
    BY <2>0, <1>q
  <2>3. d \in Nat
    OBVIOUS
  <2> HIDE DEF d
  <2>5. r[i] \in Nat /\ r[1] \in Nat
    <3>1. i \in 0 .. Len(s) /\ 1 \in 0 .. Len(s)
      BY <2>0, <1>1
    <3> QED BY <3>1, <1>n
  <2>4. q[i] = q[i - 1] + d
    BY <2>1, <2>2, <2>3, <2>5
  <2> QED BY <2>4 DEF d
<1>8. ASSUME NEW i \in 0 .. Len(t), NEW j \in 0 .. Len(t), i <= j
      PROVE  q[i] <= q[j]
  <2>1. r[i + 1] <= r[j + 1]
    BY <1>8, <1>1, <1>4
  <2> QED BY <2>1, <1>q, <1>r
<1> QED BY <1>5, <1>6, <1>7, <1>8 DEF Ranks, t, q

(* The line is increasing and its frames are frames of the file.           *)
LEMMA LineFacts ==
  ASSUME Types, SourceInv
  PROVE  /\ \A k \in 1 .. framesIn : Line(k) \in 1 .. Last
         /\ \A k, m \in 1 .. framesIn : k < m => Line(k) < Line(m)
<1> USE RunAssumption DEF Types, EncTypeOK, DecTypeOK, SourceInv, Line
<1>1. CASE template = "transcode"
  <2>1. framesIn <= Len(sent) /\ Len(sent) \in Nat
    BY <1>1 DEF DecLine, CodecType
  <2>2. \A k \in 1 .. framesIn : k \in DOMAIN sent
    BY <2>1
  <2>3. ASSUME NEW k \in 1 .. framesIn PROVE Line(k) \in 1 .. Last
    <3>1. k \in DOMAIN sent /\ sent \in Seq(1 .. Last)
      BY <2>2
    <3>2. sent[k] \in 1 .. Last
      <4>1. \A N : \A t \in Seq(N) : \A i \in DOMAIN t : t[i] \in N
        OBVIOUS
      <4> QED BY <4>1, <3>1
    <3> QED BY <1>1, <3>2
  <2>4. ASSUME NEW k \in 1 .. framesIn, NEW m \in 1 .. framesIn, k < m
        PROVE  Line(k) < Line(m)
    <3>1. k \in DOMAIN sent /\ m \in DOMAIN sent /\ IsIncreasing(sent)
      BY <2>2, <1>1 DEF DecLine
    <3> QED BY <1>1, <2>4, <3>1 DEF IsIncreasing
  <2> QED BY <2>3, <2>4
<1>2. CASE template = "encode"
  BY <1>2
<1> QED BY <1>1, <1>2
-----------------------------------------------------------------------------
(* The steps of RunFile, one by one.                                       *)
EncoderStep ==
  /\ EncodeStep \/ EncoderWorks \/ EncoderBlank \/ Outside
  /\ UNCHANGED <<decVars, template>>

TranscodeStep ==
  /\ template = "transcode"
  /\ \/ T!StopSeen \/ T!ReceiveFrame \/ T!ReceiveNothing \/ T!ReceiveEnd
     \/ T!Scale \/ T!DecoderWorks
     \/ FeedStep /\ UNCHANGED encVars
  /\ UNCHANGED template

EncodeFileStep ==
  /\ template = "encode"
  /\ \/ E!StopSeen \/ E!LoadFrame \/ E!LoadEof \/ E!LoadFails \/ E!ScaleFails
  /\ UNCHANGED <<dec, sent, template>>

LEMMA NextCases ==
  ASSUME [Next]_vars
  PROVE  EncoderStep \/ TranscodeStep \/ EncodeFileStep \/ UNCHANGED vars
<1>1. CASE UNCHANGED vars
  BY <1>1
<1>2. CASE Transcodes
  <2>1. T!EncodeStep <=> EncodeStep
    BY DEF T!EncodeStep, T!SendFrame, T!DrainOne, T!FlushEncoder, T!TailOne,
           T!EncAccepts, T!EncRefuses, T!MayRefuse, T!Took, T!EncodeReturns,
           T!Finish, T!Fails, T!ReceiveAgain, T!ReceiveError, T!NoPacketOut,
           T!DrainReturns, T!PacketOut,
           T!Nothing, T!HasBlank, T!HasPacket, T!AtEnd, T!Empty, T!Gave,
           T!PushOutput, EncodeStep, SendFrame, DrainOne, FlushEncoder,
           TailOne, EncAccepts, EncRefuses, MayRefuse, Took, EncodeReturns,
           Finish, Fails, ReceiveAgain, ReceiveError, NoPacketOut,
           DrainReturns, PacketOut, Nothing,
           HasBlank, HasPacket, AtEnd, Empty, Gave, PushOutput
  <2>2. /\ T!EncoderWorks <=> EncoderWorks
        /\ T!EncoderBlank <=> EncoderBlank
        /\ T!Outside <=> Outside
    BY DEF T!EncoderWorks, T!EncoderBlank, T!Outside, T!RequestStop,
           T!PullOutput, T!Made, T!encVars, T!runVars, EncoderWorks,
           EncoderBlank, Outside, RequestStop, PullOutput, Made, encVars,
           runVars
  <2>3. T!FeedStep <=> FeedStep
    BY DEF T!FeedStep, T!FeedPacket, T!FeedEof, T!FeedFails, T!FeedNothing,
           T!ReceiveFails, T!Took, T!MayRefuse, T!Fails, T!Finish, T!decVars,
           T!runVars, T!encVars, T!Empty, FeedStep, FeedPacket, FeedEof,
           FeedFails, FeedNothing, ReceiveFails, Took, MayRefuse, Fails,
           Finish, decVars, runVars, encVars, Empty
  <2>4. UNCHANGED T!decVars <=> UNCHANGED decVars
    BY DEF T!decVars, decVars
  <2>5. UNCHANGED T!encVars <=> UNCHANGED encVars
    BY DEF T!encVars, encVars
  <2>6. T!Returned /\ UNCHANGED template => UNCHANGED vars
    BY DEF T!Returned, T!vars, vars, T!runVars, runVars, T!encVars, encVars,
           T!decVars, decVars
  <2>7. T!Next /\ template = "transcode" /\ UNCHANGED template
    BY <1>2 DEF Transcodes
  <2>8. CASE T!LoopStep
    BY <2>1, <2>3, <2>4, <2>5, <2>7, <2>8
       DEF T!LoopStep, TranscodeStep, EncoderStep, decVars
  <2>9. CASE T!Next /\ ~T!LoopStep
    BY <2>2, <2>4, <2>6, <2>7, <2>9
       DEF T!Next, TranscodeStep, EncoderStep, decVars
  <2> QED BY <2>7, <2>8, <2>9
<1>3. CASE Encodes
  <2>1. E!EncodeStep <=> EncodeStep
    BY DEF E!EncodeStep, E!SendFrame, E!DrainOne, E!FlushEncoder, E!TailOne,
           E!EncAccepts, E!EncRefuses, E!MayRefuse, E!Took, E!EncodeReturns,
           E!Finish, E!Fails, E!ReceiveAgain, E!ReceiveError, E!NoPacketOut,
           E!DrainReturns, E!PacketOut,
           E!Nothing, E!HasBlank, E!HasPacket, E!AtEnd, E!Empty, E!Gave,
           E!PushOutput, EncodeStep, SendFrame, DrainOne, FlushEncoder,
           TailOne, EncAccepts, EncRefuses, MayRefuse, Took, EncodeReturns,
           Finish, Fails, ReceiveAgain, ReceiveError, NoPacketOut,
           DrainReturns, PacketOut, Nothing,
           HasBlank, HasPacket, AtEnd, Empty, Gave, PushOutput
  <2>2. /\ E!EncoderWorks <=> EncoderWorks
        /\ E!EncoderBlank <=> EncoderBlank
        /\ E!Outside <=> Outside
    BY DEF E!EncoderWorks, E!EncoderBlank, E!Outside, E!RequestStop,
           E!PullOutput, E!Made, E!encVars, E!runVars, EncoderWorks,
           EncoderBlank, Outside, RequestStop, PullOutput, Made, encVars,
           runVars
  <2>3. E!Returned /\ UNCHANGED <<dec, sent, template>> => UNCHANGED vars
    BY DEF E!Returned, E!vars, vars, E!runVars, runVars, E!encVars, encVars,
           decVars
  <2>4. E!Next /\ template = "encode" /\ UNCHANGED <<dec, sent, template>>
    BY <1>3 DEF Encodes
  <2>5. CASE E!LoopStep
    BY <2>1, <2>4, <2>5 DEF E!LoopStep, EncodeFileStep, EncoderStep, decVars
  <2>6. CASE E!Next /\ ~E!LoopStep
    BY <2>2, <2>3, <2>4, <2>6 DEF E!Next, EncodeFileStep, EncoderStep, decVars
  <2> QED BY <2>4, <2>5, <2>6
<1> QED BY <1>1, <1>2, <1>3 DEF Next
-----------------------------------------------------------------------------
(* What a step may do to the line and to what comes before it.             *)
SentGrows == sent' = sent \/ \E x \in 1 .. Last : sent' = Append(sent, x)

LEMMA LineStays ==
  ASSUME Types, SourceInv, SentGrows, UNCHANGED template
  PROVE  \A k \in 1 .. framesIn : Line(k)' = Line(k)
<1> USE DEF Types, DecTypeOK, EncTypeOK, CodecType, SourceInv
<1>1. CASE template = "transcode"
  <2>1. framesIn <= Len(sent) /\ Len(sent) \in Nat /\ framesIn \in Nat
    BY <1>1 DEF DecLine
  <2>2. ASSUME NEW k \in 1 .. framesIn PROVE sent'[k] = sent[k]
    <3>1. sent \in Seq(1 .. Last) /\ k \in 1 .. Len(sent)
      BY <2>1
    <3>2. \A x : Append(sent, x)[k] = sent[k]
      BY <3>1
    <3> HIDE DEF Types, SourceInv
    <3> QED BY <3>2 DEF SentGrows
  <2> QED BY <2>2, <1>1 DEF Line
<1>2. CASE template # "transcode"
  BY <1>2 DEF Line
<1> QED BY <1>1, <1>2

LEMMA OutGoesOn ==
  ASSUME Types, SourceInv, OutInv, SentGrows,
         UNCHANGED <<template, port, pulled, written, missed, framesOut>>,
         fetched' \in Nat, fetched <= fetched', fetched' <= framesIn',
         missed = {} /\ fetched' = framesOut => fetched = framesOut,
         framesIn' \in Nat, framesIn <= framesIn',
         result' = "ok" /\ template = "transcode" => fetched' = framesIn'
  PROVE  OutInv'
<1>1. fetched \in Nat /\ framesIn \in Nat /\ framesOut \in Nat
      /\ framesOut <= fetched /\ fetched <= framesIn
  BY RunAssumption DEF Types, EncTypeOK, OutInv
<1>2. \A k \in 1 .. fetched : k \in 1 .. fetched' /\ Line(k)' = Line(k)
  BY <1>1, LineStays
<1>3. Out' = Out
  BY DEF Out
<1>4. framesOut' <= fetched' /\ fetched' <= framesIn'
  BY <1>1
<1>5. \A i \in DOMAIN written : \E k \in 1 .. fetched' : written[i] = Line(k)'
  BY <1>2 DEF OutInv
<1>6. \A i \in DOMAIN Out : \E k \in 1 .. fetched' : Out[i] = Line(k)'
  BY <1>2 DEF OutInv
<1>7. missed = {} => /\ Len(written) = framesOut
                     /\ fetched' = framesOut =>
                          \A i \in 1 .. framesOut : written[i] = Line(i)'
  BY <1>1, <1>2 DEF OutInv
<1> QED BY <1>3, <1>4, <1>5, <1>6, <1>7 DEF OutInv

LEMMA OutKept ==
  ASSUME Types, SourceInv, OutInv, SentGrows,
         UNCHANGED <<template, port, pulled, fetched, written, missed,
                     framesOut>>,
         framesIn' \in Nat, framesIn <= framesIn',
         result' = "ok" /\ template = "transcode" => fetched = framesIn'
  PROVE  OutInv'
<1>1. /\ fetched \in Nat /\ framesIn \in Nat /\ fetched <= framesIn
  BY RunAssumption DEF Types, EncTypeOK, OutInv
<1>2. fetched' \in Nat /\ fetched <= fetched' /\ fetched' <= framesIn'
  BY <1>1
<1> QED BY <1>2, OutGoesOn

LEMMA RankFacts ==
  ASSUME NEW s \in Seq(Nat), NEW r \in Ranks(s)
  PROVE  /\ Len(s) \in Nat /\ r[Len(s)] \in Nat /\ r[0] = 0
         /\ \A i \in 1 .. Len(s) : r[i] \in Nat /\ r[i] <= r[Len(s)]
         /\ \A i \in 1 .. Len(s) : s[i] # 0 => 1 <= r[i]
<1>1. /\ r \in [0 .. Len(s) -> Nat] /\ r[0] = 0
      /\ \A i \in 1 .. Len(s) : r[i] = r[i - 1] + (IF s[i] = 0 THEN 0 ELSE 1)
      /\ \A i, j \in 0 .. Len(s) : i <= j => r[i] <= r[j]
  BY DEF Ranks
<1>2. Len(s) \in Nat
  OBVIOUS
<1>3. \A i \in 0 .. Len(s) : r[i] \in Nat
  BY <1>1
<1>4. \A i \in 1 .. Len(s) : r[i] <= r[Len(s)]
  BY <1>1, <1>2
<1>5. ASSUME NEW i \in 1 .. Len(s), s[i] # 0 PROVE 1 <= r[i]
  <2>1. r[i] = r[i - 1] + 1
    BY <1>1, <1>5
  <2>2. r[i - 1] \in Nat
    BY <1>2, <1>3
  <2> QED BY <2>1, <2>2
<1> QED BY <1>1, <1>2, <1>3, <1>4, <1>5

(* The frames in the encoder and in hand are frames counted in.            *)
LEMMA InLine ==
  ASSUME Types, NEW r \in Ranks(enc.ready), EncLine(r)
  PROVE  /\ Taken(r) \in Nat /\ Handed(r) \in Nat /\ r[Len(enc.ready)] \in Nat
         /\ fetched + r[Len(enc.ready)] <= Taken(r)
         /\ Taken(r) <= Handed(r) /\ Handed(r) <= framesIn
         /\ \A i \in DOMAIN enc.ready :
              enc.ready[i] # 0 => fetched + r[i] \in 1 .. framesIn
         /\ \A i \in DOMAIN enc.pending :
              fetched + r[Len(enc.ready)] + i \in 1 .. framesIn
         /\ InHand => Taken(r) + 1 \in 1 .. framesIn
<1>1. /\ enc.ready \in Seq(Nat) /\ enc.pending \in Seq(Nat)
      /\ framesIn \in Nat /\ fetched \in Nat
  BY RunAssumption DEF Types, EncTypeOK, CodecType
<1>2. Len(enc.ready) \in Nat /\ Len(enc.pending) \in Nat
  BY <1>1
<1>3. /\ r[Len(enc.ready)] \in Nat
      /\ \A i \in 1 .. Len(enc.ready) : r[i] \in Nat /\ r[i] <= r[Len(enc.ready)]
      /\ \A i \in 1 .. Len(enc.ready) : enc.ready[i] # 0 => 1 <= r[i]
  BY <1>1, RankFacts
<1>4. Taken(r) = fetched + r[Len(enc.ready)] + Len(enc.pending)
  BY DEF Taken
<1>5. Handed(r) = Taken(r) \/ Handed(r) = Taken(r) + 1
  BY <1>1, <1>2, <1>3, <1>4 DEF Handed
<1>6. Handed(r) <= framesIn
  <2>1. Taken(r) \in Nat
    BY <1>1, <1>2, <1>3, <1>4
  <2>2. Handed(r) \in Nat
    BY <2>1, <1>5
  <2> QED BY <2>2, <1>1 DEF EncLine
<1>7. InHand => Handed(r) = Taken(r) + 1
  BY DEF Handed
<1>8. DOMAIN enc.ready = 1 .. Len(enc.ready) /\ DOMAIN enc.pending = 1 .. Len(enc.pending)
  BY <1>1
<1>9. Taken(r) \in Nat
  BY <1>1, <1>2, <1>3, <1>4
<1>10. Taken(r) <= framesIn
  BY <1>5, <1>6, <1>9, <1>1
<1>11. ASSUME NEW i \in DOMAIN enc.ready, enc.ready[i] # 0
       PROVE  fetched + r[i] \in 1 .. framesIn
  <2>1. r[i] \in Nat /\ 1 <= r[i] /\ r[i] <= r[Len(enc.ready)]
    BY <1>11, <1>3, <1>8
  <2>2. r[Len(enc.ready)] \in Nat /\ fetched \in Nat /\ framesIn \in Nat
    BY <1>1, <1>3
  <2>3. fetched + r[i] <= Taken(r)
    BY <2>1, <2>2, <1>2, <1>4
  <2> QED BY <2>1, <2>2, <2>3, <1>9, <1>10
<1>12. ASSUME NEW i \in DOMAIN enc.pending
       PROVE  fetched + r[Len(enc.ready)] + i \in 1 .. framesIn
  <2>1. i \in 1 .. Len(enc.pending)
    BY <1>8
  <2>2. /\ r[Len(enc.ready)] \in Nat /\ fetched \in Nat /\ framesIn \in Nat
        /\ Len(enc.pending) \in Nat
    BY <1>1, <1>2, <1>3
  <2>3. fetched + r[Len(enc.ready)] + Len(enc.pending) <= framesIn
    BY <1>4, <1>10
  <2>4. \A a, b, c, f \in Nat : \A k \in 1 .. c :
          a + b + c <= f => a + b + k \in 1 .. f
    OBVIOUS
  <2> QED BY <2>1, <2>2, <2>3, <2>4
<1>13. fetched + r[Len(enc.ready)] <= Taken(r)
  <2>1. /\ r[Len(enc.ready)] \in Nat /\ fetched \in Nat
        /\ Len(enc.pending) \in Nat
    BY <1>1, <1>2, <1>3
  <2> QED BY <2>1, <1>4
<1>14. Handed(r) \in Nat /\ Taken(r) <= Handed(r)
  BY <1>5, <1>9
<1>15. InHand => Taken(r) + 1 \in 1 .. framesIn
  BY <1>1, <1>6, <1>7, <1>9
<1>16. r[Len(enc.ready)] \in Nat
  BY <1>3
<1> QED BY <1>6, <1>9, <1>11, <1>12, <1>13, <1>14, <1>15, <1>16

(* The encoder's queues and the frame in hand stay.                        *)
LEMMA LineKept ==
  ASSUME Types, SourceInv, LineInv, SentGrows, pc # "done",
         enc'.ready = enc.ready, enc'.pending = enc.pending,
         UNCHANGED <<template, fetched, framesIn>>,
         pc' # "done" =>
           /\ InHand' <=> InHand
           /\ InHand => work' = work
           /\ pc \in {"flush", "tail"} => pc' \in {"flush", "tail"}
  PROVE  LineInv'
<1> SUFFICES ASSUME pc' # "done" PROVE LineInv'
  BY DEF LineInv
<1>1. PICK r \in Ranks(enc.ready) : EncLine(r)
  BY DEF LineInv
<1>2. \A k \in 1 .. framesIn : Line(k)' = Line(k)
  BY LineStays
<1>3. Taken(r)' = Taken(r)
  BY DEF Taken
<1>4. Handed(r)' = Handed(r)
  BY <1>3 DEF Handed
<1>5. ASSUME NEW i \in DOMAIN enc.ready, enc.ready[i] # 0
      PROVE  enc.ready[i] = Line(fetched + r[i])'
  <2>1. fetched + r[i] \in 1 .. framesIn /\ enc.ready[i] = Line(fetched + r[i])
    BY <1>1, <1>5, InLine DEF EncLine
  <2> QED BY <2>1, <1>2
<1>6. ASSUME NEW i \in DOMAIN enc.pending
      PROVE  enc.pending[i] = Line(fetched + r[Len(enc.ready)] + i)'
  <2>1. /\ fetched + r[Len(enc.ready)] + i \in 1 .. framesIn
        /\ enc.pending[i] = Line(fetched + r[Len(enc.ready)] + i)
    BY <1>1, <1>6, InLine DEF EncLine
  <2> QED BY <2>1, <1>2
<1>7. ASSUME InHand PROVE work = Line(Taken(r) + 1)'
  <2>1. Taken(r) + 1 \in 1 .. framesIn /\ work = Line(Taken(r) + 1)
    BY <1>1, <1>7, InLine DEF EncLine
  <2> QED BY <2>1, <1>2, <1>3
<1>8. EncLine(r)'
  BY <1>1, <1>3, <1>4, <1>5, <1>6, <1>7 DEF EncLine, Lossy
<1> QED BY <1>8 DEF LineInv

(* A packet is finished: it is the next one of the line.                   *)
LEMMA LineMade ==
  ASSUME Types, SourceInv, LineInv, EncoderWorks, UNCHANGED <<decVars, template>>
  PROVE  LineInv'
<1> USE DEF EncoderWorks, runVars
<1>0. /\ pc # "done" /\ enc.pending # <<>> /\ enc' = Made(enc)
      /\ UNCHANGED <<pc, site, work, framesIn, fetched, template, sent>>
  BY DEF decVars
<1> HIDE DEF EncoderWorks, runVars
<1>1. PICK r \in Ranks(enc.ready) : EncLine(r)
  BY <1>0 DEF LineInv
<1> DEFINE n == Len(enc.ready)
           x == Head(enc.pending)
<1>2. /\ enc.ready \in Seq(Nat) /\ enc.pending \in Seq(Nat)
      /\ fetched \in Nat /\ framesIn \in Nat
  BY RunAssumption DEF Types, EncTypeOK, CodecType
<1>3. /\ enc'.ready = Append(enc.ready, x) /\ enc'.pending = Tail(enc.pending)
  BY <1>0 DEF Made, Types, EncTypeOK, CodecType
<1>4. n \in Nat /\ r[n] \in Nat /\ x \in Nat /\ Len(enc.pending) \in Nat \ {0}
  BY <1>0, <1>2, RankFacts
<1>5. x = Line(fetched + r[n] + 1) /\ fetched + r[n] + 1 \in 1 .. framesIn
  <2>1. 1 \in DOMAIN enc.pending /\ x = enc.pending[1]
    BY <1>0, <1>2
  <2> QED BY <2>1, <1>1, InLine DEF EncLine
<1>6. \A k \in 1 .. framesIn : Line(k) \in 1 .. Last
  BY LineFacts
<1>7. x # 0
  BY <1>5, <1>6, RunAssumption
<1>8. PICK q \in Ranks(enc'.ready) :
        (\A i \in 0 .. n : q[i] = r[i]) /\ q[n + 1] = r[n] + 1
  <2> DEFINE q == [i \in 0 .. n + 1 |-> IF i <= n THEN r[i]
                                        ELSE r[n] + (IF x = 0 THEN 0 ELSE 1)]
  <2>1. q \in Ranks(Append(enc.ready, x))
    BY <1>2, <1>4, RankAppend
  <2>2. q \in Ranks(enc'.ready)
    BY <2>1, <1>3
  <2>3. n \in Nat
    BY <1>4
  <2>4. \A i \in 0 .. n : q[i] = r[i]
    BY <2>3
  <2>5. q[n + 1] = r[n] + 1
    BY <2>3, <1>7
  <2> HIDE DEF q, n
  <2> QED BY <2>2, <2>4, <2>5
<1>9. /\ Len(enc'.ready) = n + 1 /\ DOMAIN enc'.ready = 1 .. n + 1
      /\ \A i \in 1 .. n : enc'.ready[i] = enc.ready[i]
      /\ enc'.ready[n + 1] = x
  BY <1>2, <1>3, <1>4
<1>10. /\ Len(enc'.pending) = Len(enc.pending) - 1
       /\ DOMAIN enc'.pending = 1 .. Len(enc.pending) - 1
       /\ \A i \in DOMAIN enc'.pending :
            i + 1 \in DOMAIN enc.pending /\ enc'.pending[i] = enc.pending[i + 1]
  BY <1>0, <1>2, <1>3, <1>4
<1>11. Taken(q)' = Taken(r) /\ Handed(q)' = Handed(r)
  <2>1. Taken(q)' = fetched + (r[n] + 1) + (Len(enc.pending) - 1)
    BY <1>0, <1>8, <1>9, <1>10 DEF Taken
  <2>2. Taken(r) = fetched + r[n] + Len(enc.pending)
    BY DEF Taken
  <2>3. fetched \in Int /\ r[n] \in Int /\ Len(enc.pending) \in Int
    BY <1>2, <1>4
  <2>5. \A a, b, c \in Int : a + (b + 1) + (c - 1) = a + b + c
    OBVIOUS
  <2>4. Taken(q)' = Taken(r)
    BY <2>1, <2>2, <2>3, <2>5
  <2> QED BY <2>4, <1>0 DEF Handed, InHand
<1>12. \A k : Line(k)' = Line(k)
  BY <1>0 DEF Line
<1>13. ASSUME NEW i \in DOMAIN enc'.ready, enc'.ready[i] # 0
       PROVE  enc'.ready[i] = Line(fetched + q[i])'
  <2>1. CASE i \in 1 .. n
    <3>0. i \in DOMAIN enc.ready /\ enc.ready[i] # 0
      BY <2>1, <1>2, <1>9, <1>13
    <3>1. enc.ready[i] = Line(fetched + r[i])
      BY <3>0, <1>1 DEF EncLine
    <3>2. q[i] = r[i]
      BY <2>1, <1>4, <1>8
    <3> QED BY <3>1, <3>2, <2>1, <1>0, <1>9, <1>12
  <2>2. CASE i = n + 1
    <3>1. fetched + q[i] = fetched + r[n] + 1
      BY <2>2, <1>2, <1>4, <1>8
    <3> QED BY <3>1, <2>2, <1>0, <1>5, <1>9, <1>12
  <2> QED BY <2>1, <2>2, <1>4, <1>9
<1>14. ASSUME NEW i \in DOMAIN enc'.pending
       PROVE  enc'.pending[i] = Line(fetched + q[Len(enc.ready)] + i)'
  <2>1. i + 1 \in DOMAIN enc.pending /\ enc'.pending[i] = enc.pending[i + 1]
    BY <1>10
  <2>2. enc.pending[i + 1] = Line(fetched + r[n] + (i + 1))
    BY <2>1, <1>1 DEF EncLine
  <2>3. fetched + r[n] + (i + 1) = fetched + q[Len(enc'.ready)] + i
    <3>1. q[Len(enc'.ready)] = r[n] + 1
      BY <1>8, <1>9
    <3>2. fetched \in Int /\ r[n] \in Int /\ i \in Int
      BY <1>2, <1>4, <1>10
    <3>3. \A a, b, c \in Int : a + b + (c + 1) = a + (b + 1) + c
      OBVIOUS
    <3>4. fetched + r[n] + (i + 1) = fetched + (r[n] + 1) + i
      BY <3>2, <3>3
    <3> QED BY <3>1, <3>4
  <2> QED BY <2>1, <2>2, <2>3, <1>0, <1>12
<1>15. InHand' => work' = Line(Taken(q) + 1)'
  <2>1. InHand' <=> InHand
    BY <1>0 DEF InHand
  <2>2. InHand => work = Line(Taken(r) + 1)
    BY <1>1 DEF EncLine
  <2> QED BY <2>1, <2>2, <1>0, <1>11, <1>12
<1>16. EncLine(q)'
  BY <1>0, <1>1, <1>11, <1>13, <1>14, <1>15 DEF EncLine, Lossy
<1> QED BY <1>8, <1>16 DEF LineInv

(* A packet without data is finished: the line does not move.              *)
LEMMA LineBlank ==
  ASSUME Types, SourceInv, LineInv, EncoderBlank, UNCHANGED <<decVars, template>>
  PROVE  LineInv'
<1>0. /\ pc # "done" /\ enc' = [enc EXCEPT !.ready = Append(@, 0)]
      /\ UNCHANGED <<pc, site, work, framesIn, fetched, template, sent>>
  BY DEF EncoderBlank, runVars, decVars
<1>1. PICK r \in Ranks(enc.ready) : EncLine(r)
  BY <1>0 DEF LineInv
<1> DEFINE n == Len(enc.ready)
<1>2. enc.ready \in Seq(Nat) /\ fetched \in Nat
  BY RunAssumption DEF Types, EncTypeOK, CodecType
<1>3. enc'.ready = Append(enc.ready, 0) /\ enc'.pending = enc.pending
  BY <1>0 DEF Types, EncTypeOK, CodecType
<1>4. n \in Nat /\ r[n] \in Nat
  BY <1>2, RankFacts
<1>5. PICK q \in Ranks(enc'.ready) :
        (\A i \in 0 .. n : q[i] = r[i]) /\ q[n + 1] = r[n]
  <2>1. [i \in 0 .. n + 1 |-> IF i <= n THEN r[i] ELSE r[n] + (IF 0 = 0 THEN 0 ELSE 1)]
          \in Ranks(Append(enc.ready, 0))
    BY <1>2, <1>4, RankAppend
  <2> QED BY <2>1, <1>3, <1>4
<1>6. /\ Len(enc'.ready) = n + 1 /\ DOMAIN enc'.ready = 1 .. n + 1
      /\ \A i \in 1 .. n : enc'.ready[i] = enc.ready[i]
      /\ enc'.ready[n + 1] = 0
  BY <1>2, <1>3, <1>4
<1>7. q[Len(enc'.ready)] = r[n]
  BY <1>5, <1>6
<1>8. Taken(q)' = Taken(r) /\ Handed(q)' = Handed(r)
  <2>1. Taken(q)' = Taken(r)
    BY <1>0, <1>3, <1>7 DEF Taken
  <2> QED BY <2>1, <1>0 DEF Handed, InHand
<1>9. \A k : Line(k)' = Line(k)
  BY <1>0 DEF Line
<1>10. ASSUME NEW i \in DOMAIN enc'.ready, enc'.ready[i] # 0
       PROVE  enc'.ready[i] = Line(fetched + q[i])'
  <2>1. i \in 1 .. n
    BY <1>10, <1>4, <1>6
  <2>2. enc.ready[i] = Line(fetched + r[i])
    BY <2>1, <1>1, <1>2, <1>6, <1>10 DEF EncLine
  <2>3. q[i] = r[i]
    BY <2>1, <1>4, <1>5
  <2> QED BY <2>1, <2>2, <2>3, <1>0, <1>6, <1>9
<1>11. ASSUME NEW i \in DOMAIN enc'.pending
       PROVE  enc'.pending[i] = Line(fetched + q[Len(enc.ready)] + i)'
  <2>1. enc.pending[i] = Line(fetched + r[n] + i)
    BY <1>1, <1>3, <1>11 DEF EncLine
  <2> QED BY <2>1, <1>0, <1>3, <1>7, <1>9
<1>12. InHand' => work' = Line(Taken(q) + 1)'
  <2>1. InHand' <=> InHand
    BY <1>0 DEF InHand
  <2>2. InHand => work = Line(Taken(r) + 1)
    BY <1>1 DEF EncLine
  <2> QED BY <2>1, <2>2, <1>0, <1>8, <1>9
<1>13. EncLine(q)'
  BY <1>0, <1>1, <1>8, <1>10, <1>11, <1>12 DEF EncLine, Lossy
<1> QED BY <1>5, <1>13 DEF LineInv

(* The next packet with data is that of the next frame of the line.        *)
LEMMA LineHead ==
  ASSUME Types, LineInv, pc # "done", HasPacket
  PROVE  fetched + 1 \in 1 .. framesIn /\ Head(enc.ready) = Line(fetched + 1)
<1>1. PICK r \in Ranks(enc.ready) : EncLine(r)
  BY DEF LineInv
<1>2. enc.ready \in Seq(Nat) /\ enc.ready # <<>> /\ Head(enc.ready) # 0
  BY RunAssumption DEF Types, EncTypeOK, CodecType, HasPacket
<1>3. 1 \in DOMAIN enc.ready /\ Head(enc.ready) = enc.ready[1]
  BY <1>2
<1>4. r[1] = 1
  BY <1>2, <1>3, RankTail
<1>5. fetched + r[1] \in 1 .. framesIn /\ enc.ready[1] = Line(fetched + r[1])
  BY <1>1, <1>2, <1>3, InLine DEF EncLine
<1> QED BY <1>3, <1>4, <1>5

(* A packet is read; one with data is counted.                             *)
LEMMA LineGave ==
  ASSUME Types, SourceInv, LineInv, pc # "done",
         enc.ready # <<>>, enc' = Gave(enc),
         UNCHANGED <<template, framesIn, sent>>,
         fetched' = fetched + (IF Head(enc.ready) = 0 THEN 0 ELSE 1),
         pc' # "done" =>
           /\ InHand' <=> InHand
           /\ InHand => work' = work
           /\ pc \in {"flush", "tail"} => pc' \in {"flush", "tail"}
  PROVE  LineInv'
<1> SUFFICES ASSUME pc' # "done" PROVE LineInv'
  BY DEF LineInv
<1>1. PICK r \in Ranks(enc.ready) : EncLine(r)
  BY DEF LineInv
<1> DEFINE n == Len(enc.ready)
<1>2. /\ enc.ready \in Seq(Nat) /\ enc.pending \in Seq(Nat)
      /\ fetched \in Nat /\ framesIn \in Nat
  BY RunAssumption DEF Types, EncTypeOK, CodecType
<1>3. enc'.ready = Tail(enc.ready) /\ enc'.pending = enc.pending
  BY DEF Gave, Types, EncTypeOK, CodecType
<1>4. n \in Nat \ {0} /\ r[n] \in Nat /\ r[1] \in Nat
  BY <1>2, RankFacts
<1>5. Head(enc.ready) = enc.ready[1]
  BY <1>2
<1>6. fetched' = fetched + r[1] /\ fetched' \in Nat
  <2>1. r[1] = IF Head(enc.ready) = 0 THEN 0 ELSE 1
    BY <1>2, <1>5, RankTail
  <2>2. fetched' = fetched + r[1]
    BY <2>1
  <2> QED BY <2>2, <1>2, <1>4
<1>7. /\ Len(enc'.ready) = n - 1 /\ DOMAIN enc'.ready = 1 .. n - 1
      /\ \A i \in 1 .. n - 1 : i + 1 \in DOMAIN enc.ready
                             /\ enc'.ready[i] = enc.ready[i + 1]
  BY <1>2, <1>3, <1>4
<1>8. PICK q \in Ranks(enc'.ready) : \A i \in 0 .. n - 1 : q[i] = r[i + 1] - r[1]
  <2>1. [i \in 0 .. n - 1 |-> r[i + 1] - r[1]] \in Ranks(Tail(enc.ready))
    BY <1>2, RankTail
  <2> QED BY <2>1, <1>3
<1>9. \A a, b, c \in Int : (a + b) + (c - b) = a + c
  OBVIOUS
<1>10. fetched' + q[Len(enc'.ready)] = fetched + r[n]
  <2>1. q[n - 1] = r[n] - r[1]
    <3>1. n - 1 \in 0 .. n - 1 /\ (n - 1) + 1 = n
      BY <1>4
    <3> QED BY <3>1, <1>8
  <2>2. fetched \in Int /\ r[n] \in Int /\ r[1] \in Int
    BY <1>2, <1>4
  <2> QED BY <2>1, <2>2, <1>6, <1>7, <1>9
<1>11. Taken(q)' = Taken(r) /\ Handed(q)' = Handed(r)
  <2>1. Taken(q)' = Taken(r)
    BY <1>3, <1>10 DEF Taken
  <2> QED BY <2>1 DEF Handed
<1>12. \A k : Line(k)' = Line(k)
  BY DEF Line
<1>13. ASSUME NEW i \in DOMAIN enc'.ready, enc'.ready[i] # 0
       PROVE  enc'.ready[i] = Line(fetched + q[i])'
  <2>1. i \in 1 .. n - 1 /\ i + 1 \in DOMAIN enc.ready
        /\ enc'.ready[i] = enc.ready[i + 1]
    BY <1>7, <1>13
  <2>2. enc.ready[i + 1] = Line(fetched + r[i + 1])
    BY <2>1, <1>1, <1>13 DEF EncLine
  <2>3. fetched' + q[i] = fetched + r[i + 1]
    <3>1. q[i] = r[i + 1] - r[1]
      BY <2>1, <1>4, <1>8
    <3>2. fetched \in Int /\ r[i + 1] \in Int /\ r[1] \in Int
      <4>1. i + 1 \in 1 .. Len(enc.ready)
        BY <2>1, <1>2
      <4>2. r[i + 1] \in Nat
        BY <4>1, <1>2, RankFacts
      <4> QED BY <4>2, <1>2, <1>4
    <3> QED BY <3>1, <3>2, <1>6, <1>9
  <2> QED BY <2>1, <2>2, <2>3, <1>12
<1>14. ASSUME NEW i \in DOMAIN enc'.pending
       PROVE  enc'.pending[i] = Line(fetched + q[Len(enc.ready)] + i)'
  <2>1. enc.pending[i] = Line(fetched + r[n] + i)
    BY <1>1, <1>3, <1>14 DEF EncLine
  <2> QED BY <2>1, <1>3, <1>10, <1>12
<1>15. InHand' => work' = Line(Taken(q) + 1)'
  BY <1>1, <1>11, <1>12 DEF EncLine
<1>16. EncLine(q)'
  BY <1>1, <1>11, <1>13, <1>14, <1>15 DEF EncLine, Lossy
<1> QED BY <1>8, <1>16 DEF LineInv

(* The encoder takes the frame in hand.                                    *)
LEMMA LineTook ==
  ASSUME Types, SourceInv, LineInv, pc = "send", enc' = Took(enc, work),
         UNCHANGED <<template, framesIn, fetched, sent>>, ~InHand', pc' = "drain"
  PROVE  LineInv'
<1>1. PICK r \in Ranks(enc.ready) : EncLine(r)
  BY DEF LineInv
<1> DEFINE n == Len(enc.ready)
           m == Len(enc.pending)
<1>2. /\ enc.ready \in Seq(Nat) /\ enc.pending \in Seq(Nat) /\ work \in Nat
      /\ fetched \in Nat /\ framesIn \in Nat
  BY RunAssumption DEF Types, EncTypeOK, CodecType
<1>3. enc'.ready = enc.ready /\ enc'.pending = Append(enc.pending, work)
  BY DEF Took, Types, EncTypeOK, CodecType
<1>4. n \in Nat /\ r[n] \in Nat /\ m \in Nat
  BY <1>2, RankFacts
<1>5. /\ Len(enc'.pending) = m + 1 /\ DOMAIN enc'.pending = 1 .. m + 1
      /\ \A i \in 1 .. m : i \in DOMAIN enc.pending /\ enc'.pending[i] = enc.pending[i]
      /\ enc'.pending[m + 1] = work
  BY <1>2, <1>3, <1>4
<1>a. fetched + r[n] + m + 1 = fetched + r[n] + (m + 1)
  <2>1. \A a, b, c \in Int : a + b + c + 1 = a + b + (c + 1)
    OBVIOUS
  <2>2. fetched \in Int /\ r[n] \in Int /\ m \in Int
    BY <1>2, <1>4
  <2> QED BY <2>1, <2>2
<1>6. work = Line(fetched + r[n] + (m + 1))
  <2>1. work = Line(fetched + r[n] + m + 1)
    BY <1>1 DEF EncLine, InHand, Taken
  <2> QED BY <2>1, <1>a
<1>7. Handed(r)' = Handed(r)
  <2>1. Handed(r)' = fetched + r[n] + (m + 1)
    <3>1. Taken(r)' = fetched + r[n] + (m + 1)
      BY <1>3, <1>5 DEF Taken
    <3>2. Taken(r)' \in Nat
      BY <3>1, <1>2, <1>4
    <3> QED BY <3>1, <3>2 DEF Handed
  <2>2. Handed(r) = fetched + r[n] + m + 1
    BY DEF Handed, InHand, Taken
  <2> QED BY <2>1, <2>2, <1>a
<1>8. \A k : Line(k)' = Line(k)
  BY DEF Line
<1>9. ASSUME NEW i \in DOMAIN enc'.ready, enc'.ready[i] # 0
      PROVE  enc'.ready[i] = Line(fetched + r[i])'
  BY <1>1, <1>3, <1>8, <1>9 DEF EncLine
<1>10. ASSUME NEW i \in DOMAIN enc'.pending
       PROVE  enc'.pending[i] = Line(fetched + r[Len(enc.ready)] + i)'
  <2>1. CASE i \in 1 .. m
    BY <2>1, <1>1, <1>3, <1>5, <1>8 DEF EncLine
  <2>2. CASE i = m + 1
    BY <2>2, <1>3, <1>5, <1>6, <1>8
  <2> QED BY <2>1, <2>2, <1>4, <1>5
<1>11. EncLine(r)'
  BY <1>1, <1>7, <1>9, <1>10 DEF EncLine
<1> QED BY <1>3, <1>11 DEF LineInv

(* A frame comes to the encoding half and is counted.                      *)
LEMMA LineLoads ==
  ASSUME Types, SourceInv, LineInv, pc \in {"head", "receive"}, pc' # "done",
         UNCHANGED <<template, enc, fetched, sent>>,
         framesIn' = framesIn + 1,
         \/ InHand' /\ work' = Line(framesIn + 1)
         \/ ~InHand' /\ Lossy /\ pc' = "flush"
  PROVE  LineInv'
<1>1. PICK r \in Ranks(enc.ready) : EncLine(r)
  BY DEF LineInv
<1>2. Taken(r) \in Nat /\ framesIn \in Nat
  BY <1>1, InLine, RunAssumption DEF Types, EncTypeOK
<1>3. Handed(r) = Taken(r) /\ Taken(r) = framesIn
  <2>1. ~InHand
    BY DEF InHand
  <2> QED BY <2>1, <1>1, <1>2 DEF Handed, EncLine
<1>4. Taken(r)' = Taken(r)
  BY DEF Taken
<1>5. \A k : Line(k)' = Line(k)
  BY DEF Line
<1>6. InHand' => work' = Line(Taken(r) + 1)'
  BY <1>3, <1>4, <1>5
<1>7. \/ Handed(r)' = framesIn'
      \/ (Lossy /\ pc \in {"flush", "tail"})' /\ Handed(r)' + 1 = framesIn'
  BY <1>2, <1>3, <1>4 DEF Handed, Lossy
<1>8. /\ \A i \in DOMAIN enc'.ready :
            enc'.ready[i] # 0 => enc'.ready[i] = Line(fetched + r[i])'
      /\ \A i \in DOMAIN enc'.pending :
            enc'.pending[i] = Line(fetched + r[Len(enc.ready)] + i)'
  BY <1>1, <1>5 DEF EncLine
<1>9. EncLine(r)'
  BY <1>6, <1>7, <1>8 DEF EncLine
<1> QED BY <1>9 DEF LineInv

-----------------------------------------------------------------------------
(* What comes out of the encoder.                                          *)
LEMMA AppendIncreasing ==
  ASSUME NEW s \in Seq(Nat), NEW x \in Nat, IsIncreasing(s),
         \A i \in DOMAIN s : s[i] < x
  PROVE  IsIncreasing(Append(s, x))
<1> DEFINE t == Append(s, x)
<1>1. /\ DOMAIN t = 1 .. Len(s) + 1 /\ DOMAIN s = 1 .. Len(s) /\ Len(s) \in Nat
      /\ \A i \in 1 .. Len(s) : t[i] = s[i]
      /\ t[Len(s) + 1] = x
  OBVIOUS
<1> HIDE DEF t
<1>2. ASSUME NEW i \in DOMAIN t, NEW j \in DOMAIN t, i < j PROVE t[i] < t[j]
  <2>1. i \in 1 .. Len(s)
    BY <1>1, <1>2
  <2>2. CASE j \in 1 .. Len(s)
    BY <2>1, <2>2, <1>1, <1>2 DEF IsIncreasing
  <2>3. CASE j = Len(s) + 1
    BY <2>1, <2>3, <1>1
  <2> QED BY <2>2, <2>3, <1>1
<1> QED BY <1>2 DEF IsIncreasing, t

(* Pulling moves an item from the port to the consumer.                    *)
LEMMA PullKeepsOut ==
  ASSUME NEW N, NEW s \in Seq(N), NEW t \in Seq(N), s # <<>>
  PROVE  Append(t, Head(s)) \o Tail(s) = t \o s
<1> DEFINE u == Append(t, Head(s)) \o Tail(s)
           v == t \o s
<1>1. /\ Len(s) \in Nat \ {0} /\ Len(t) \in Nat
      /\ Head(s) = s[1] /\ Head(s) \in N /\ Tail(s) \in Seq(N)
      /\ Len(Tail(s)) = Len(s) - 1
      /\ \A i \in 1 .. Len(s) - 1 : Tail(s)[i] = s[i + 1]
  OBVIOUS
<1>2. /\ Append(t, Head(s)) \in Seq(N) /\ Len(Append(t, Head(s))) = Len(t) + 1
      /\ \A i \in 1 .. Len(t) : Append(t, Head(s))[i] = t[i]
      /\ Append(t, Head(s))[Len(t) + 1] = s[1]
  BY <1>1
<1>3. u \in Seq(N) /\ v \in Seq(N) /\ Len(u) = Len(t) + Len(s) /\ Len(v) = Len(u)
  BY <1>1, <1>2
<1>4. ASSUME NEW i \in 1 .. Len(v) PROVE u[i] = v[i]
  <2>1. CASE i <= Len(t)
    BY <2>1, <1>1, <1>2, <1>3
  <2>2. CASE i = Len(t) + 1
    BY <2>2, <1>1, <1>2, <1>3
  <2>3. CASE i > Len(t) + 1
    <3> DEFINE k == i - (Len(t) + 1)
    <3>1. k \in 1 .. Len(s) - 1 /\ i = Len(t) + 1 + k /\ k + 1 \in 1 .. Len(s)
      BY <2>3, <1>1, <1>3
    <3>2. u[i] = Tail(s)[k]
      BY <3>1, <1>1, <1>2
    <3>3. v[i] = s[k + 1]
      BY <3>1, <1>1
    <3> QED BY <3>1, <3>2, <3>3, <1>1
  <2> QED BY <2>1, <2>2, <2>3, <1>1, <1>3
<1> QED BY <1>3, <1>4

LEMMA AppendToConcat ==
  ASSUME NEW N, NEW s \in Seq(N), NEW t \in Seq(N), NEW x \in N
  PROVE  t \o Append(s, x) = Append(t \o s, x)
<1> DEFINE u == t \o Append(s, x)
           v == Append(t \o s, x)
<1>1. /\ Len(s) \in Nat /\ Len(t) \in Nat /\ t \o s \in Seq(N)
      /\ Len(t \o s) = Len(t) + Len(s) /\ Append(s, x) \in Seq(N)
      /\ Len(Append(s, x)) = Len(s) + 1
  OBVIOUS
<1>2. u \in Seq(N) /\ v \in Seq(N) /\ Len(u) = Len(t) + Len(s) + 1 /\ Len(v) = Len(u)
  BY <1>1
<1>3. ASSUME NEW i \in 1 .. Len(v) PROVE u[i] = v[i]
  <2>1. CASE i <= Len(t)
    BY <2>1, <1>1, <1>2
  <2>2. CASE i > Len(t) /\ i <= Len(t) + Len(s)
    <3>1. i - Len(t) \in 1 .. Len(s)
      BY <2>2, <1>1, <1>2
    <3>2. u[i] = s[i - Len(t)]
      BY <3>1, <2>2, <1>1, <1>2
    <3>3. v[i] = s[i - Len(t)]
      BY <3>1, <2>2, <1>1, <1>2
    <3> QED BY <3>2, <3>3
  <2>3. CASE i = Len(t) + Len(s) + 1
    <3>1. i - Len(t) = Len(s) + 1
      BY <2>3, <1>1
    <3>2. u[i] = Append(s, x)[i - Len(t)]
      BY <2>3, <3>1, <1>1, <1>2
    <3> QED BY <3>1, <3>2, <2>3, <1>1, <1>2
  <2> QED BY <2>1, <2>2, <2>3, <1>1, <1>2
<1> QED BY <1>2, <1>3

(* A list of packets of the line, in order, goes on with the next one.     *)
LEMMA NextInLine ==
  ASSUME Types, SourceInv, fetched + 1 \in 1 .. framesIn,
         NEW s \in Seq(1 .. Last), IsIncreasing(s),
         \A i \in DOMAIN s : \E k \in 1 .. fetched : s[i] = Line(k)
  PROVE  LET t == Append(s, Line(fetched + 1))
         IN  /\ IsIncreasing(t)
             /\ \A i \in DOMAIN t : \E k \in 1 .. fetched + 1 : t[i] = Line(k)
<1> DEFINE x == Line(fetched + 1)
           t == Append(s, x)
<1>1. fetched \in Nat /\ framesIn \in Nat /\ s \in Seq(Nat)
  BY RunAssumption DEF Types, EncTypeOK
<1>2. x \in Nat /\ \A k \in 1 .. fetched : Line(k) < x
  BY <1>1, LineFacts, RunAssumption
<1>3. \A i \in DOMAIN s : s[i] < x
  BY <1>2
<1>4. IsIncreasing(t)
  BY <1>1, <1>2, <1>3, AppendIncreasing
<1>5. ASSUME NEW i \in DOMAIN t
      PROVE  \E k \in 1 .. fetched + 1 : t[i] = Line(k)
  <2>0. DOMAIN t = 1 .. Len(s) + 1 /\ DOMAIN s = 1 .. Len(s) /\ Len(s) \in Nat
    BY <1>1
  <2>1. CASE i \in DOMAIN s
    <3>1. PICK k \in 1 .. fetched : s[i] = Line(k)
      BY <2>1
    <3>2. k \in 1 .. fetched + 1 /\ t[i] = s[i]
      BY <2>0, <2>1, <1>1
    <3> QED BY <3>1, <3>2
  <2>2. CASE i = Len(s) + 1
    <3>1. t[i] = x /\ fetched + 1 \in 1 .. fetched + 1
      BY <2>0, <2>2, <1>1
    <3> QED BY <3>1
  <2> QED BY <2>0, <2>1, <2>2
<1> QED BY <1>4, <1>5

LEMMA OutPacket ==
  ASSUME Types, SourceInv, LineInv, OutInv, pc # "done",
         NEW where \in {"loop", "tail"}, NEW ok \in BOOLEAN, PacketOut(where, ok),
         UNCHANGED <<template, pulled, framesIn, sent>>, result' # "ok"
  PROVE  OutInv'
<1> DEFINE x == Line(fetched + 1)
<1>1. x = Head(enc.ready) /\ fetched + 1 \in 1 .. framesIn
  BY LineHead DEF PacketOut
<1>2. /\ fetched' = fetched + 1 /\ framesOut' = framesOut + 1
      /\ written' = IF ok THEN Append(written, x) ELSE written
      /\ missed' = IF ok THEN missed ELSE missed \cup {where}
      /\ port' = IF Len(port) < PortDepth THEN Append(port, x) ELSE port
  BY <1>1 DEF PacketOut, PushOutput
<1>3. /\ written \in Seq(1 .. Last) /\ port \in Seq(1 .. Last)
      /\ pulled \in Seq(1 .. Last) /\ fetched \in Nat /\ framesIn \in Nat
      /\ x \in 1 .. Last /\ framesOut \in Nat
  BY <1>1, LineFacts, RunAssumption DEF Types, EncTypeOK
<1>4. \A k : Line(k)' = Line(k)
  BY DEF Line
<1>5. framesOut' <= fetched' /\ fetched' <= framesIn'
  BY <1>1, <1>2, <1>3 DEF OutInv
<1>6. /\ IsIncreasing(written')
      /\ \A i \in DOMAIN written' :
           \E k \in 1 .. fetched + 1 : written'[i] = Line(k)
  <2>1. CASE ok
    BY <2>1, <1>1, <1>2, <1>3, NextInLine DEF OutInv
  <2>2. CASE ~ok
    BY <2>2, <1>2, <1>3 DEF OutInv
  <2> QED BY <2>1, <2>2
<1>7. /\ IsIncreasing(Out')
      /\ \A i \in DOMAIN Out' : \E k \in 1 .. fetched + 1 : Out'[i] = Line(k)
  <2>0. Out \in Seq(1 .. Last)
    BY <1>3 DEF Out
  <2>1. CASE Len(port) < PortDepth
    <3>1. Out' = Append(Out, x)
      BY <2>1, <1>2, <1>3, AppendToConcat DEF Out
    <3> QED BY <3>1, <2>0, <1>1, NextInLine DEF OutInv
  <2>2. CASE ~(Len(port) < PortDepth)
    <3>1. Out' = Out
      BY <2>2, <1>2 DEF Out
    <3> QED BY <3>1, <1>3 DEF OutInv
  <2> QED BY <2>1, <2>2
<1>8. ASSUME missed' = {}
      PROVE  /\ Len(written') = framesOut'
             /\ fetched' = framesOut' =>
                  \A i \in 1 .. framesOut' : written'[i] = Line(i)
  <2>1. ok /\ missed = {}
    BY <1>2, <1>8
  <2>2. /\ Len(written) = framesOut
        /\ fetched = framesOut => \A i \in 1 .. framesOut : written[i] = Line(i)
    BY <2>1 DEF OutInv
  <2>3. /\ Len(written') = framesOut + 1 /\ written'[framesOut + 1] = x
        /\ \A i \in 1 .. framesOut : written'[i] = written[i]
    BY <2>1, <2>2, <1>2, <1>3
  <2>4. ASSUME fetched' = framesOut', NEW i \in 1 .. framesOut'
        PROVE  written'[i] = Line(i)
    <3>1. fetched = framesOut
      <4>1. fetched + 1 = framesOut + 1
        BY <2>4, <1>2
      <4>2. \A a, b \in Nat : a + 1 = b + 1 => a = b
        OBVIOUS
      <4> QED BY <4>1, <4>2, <1>3
    <3>2. i \in 1 .. framesOut \/ i = framesOut + 1
      BY <1>2, <1>3
    <3>3. CASE i \in 1 .. framesOut
      BY <3>1, <3>3, <2>2, <2>3
    <3>4. CASE i = framesOut + 1
      BY <3>1, <3>4, <2>3
    <3> QED BY <3>2, <3>3, <3>4
  <2> QED BY <2>3, <2>4, <1>2
<1>9. ASSUME missed' = {}, NEW i \in DOMAIN Out'
      PROVE  \E j \in DOMAIN written' : written'[j] = Out'[i]
  <2>1. ok /\ missed = {}
    BY <1>2, <1>9
  <2>2. /\ Out \in Seq(1 .. Last) /\ DOMAIN Out = 1 .. Len(Out)
        /\ Len(Out) \in Nat /\ DOMAIN written = 1 .. Len(written)
        /\ Len(written) \in Nat
    BY <1>3 DEF Out
  <2>3. /\ DOMAIN written' = 1 .. Len(written) + 1
        /\ written'[Len(written) + 1] = x
        /\ \A j \in DOMAIN written : j \in DOMAIN written'
                                   /\ written'[j] = written[j]
    BY <2>1, <1>2, <1>3
  <2>4. (i \in DOMAIN Out /\ Out'[i] = Out[i]) \/ Out'[i] = x
    <3>1. CASE Len(port) < PortDepth
      <4>1. Out' = Append(Out, x)
        BY <3>1, <1>2, <1>3, AppendToConcat DEF Out
      <4> QED BY <4>1, <2>2, <1>9
    <3>2. CASE ~(Len(port) < PortDepth)
      BY <3>2, <1>2, <1>9 DEF Out
    <3> QED BY <3>1, <3>2
  <2>5. CASE i \in DOMAIN Out /\ Out'[i] = Out[i]
    <3>1. PICK j \in DOMAIN written : written[j] = Out[i]
      BY <2>1, <2>5 DEF OutInv
    <3> QED BY <3>1, <2>3, <2>5
  <2>6. CASE Out'[i] = x
    <3>1. Len(written) + 1 \in DOMAIN written'
      BY <2>2, <2>3
    <3> QED BY <3>1, <2>3, <2>6
  <2> QED BY <2>4, <2>5, <2>6
<1> QED BY <1>2, <1>4, <1>5, <1>6, <1>7, <1>8, <1>9 DEF OutInv

(* A packet is fetched and lost.                                           *)
LEMMA OutLost ==
  ASSUME Types, SourceInv, LineInv, OutInv, pc # "done", HasPacket,
         fetched' = fetched + 1,
         UNCHANGED <<template, framesIn, sent, pulled>>, NoPacketOut,
         result' # "ok"
  PROVE  OutInv'
<1>1. fetched + 1 \in 1 .. framesIn
  BY LineHead
<1>2. fetched \in Nat /\ framesIn \in Nat /\ framesOut \in Nat
      /\ framesOut <= fetched
  BY RunAssumption DEF Types, EncTypeOK, OutInv
<1>3. /\ fetched' \in Nat /\ fetched <= fetched' /\ fetched' <= framesIn
      /\ fetched' # framesOut
  BY <1>1, <1>2
<1> QED BY <1>2, <1>3, OutGoesOn DEF SentGrows, NoPacketOut
-----------------------------------------------------------------------------
(* The steps keep the invariant.                                           *)
LEMMA CodecSteps ==
  ASSUME NEW N, NEW c \in CodecType(N), NEW x \in N, NEW b \in BOOLEAN
  PROVE  /\ Took(c, x) \in CodecType(N)
         /\ c.pending # <<>> => Made(c) \in CodecType(N)
         /\ c.ready # <<>> => Gave(c) \in CodecType(N)
         /\ [c EXCEPT !.settled = b] \in CodecType(N)
         /\ [c EXCEPT !.eos = b] \in CodecType(N)
         /\ [c EXCEPT !.ready = Append(@, x)] \in CodecType(N)
<1>1. /\ c.pending \in Seq(N) /\ c.ready \in Seq(N)
      /\ c \in [pending : Seq(N), ready : Seq(N), settled : BOOLEAN, eos : BOOLEAN]
  BY DEF CodecType
<1>2. ASSUME NEW s \in Seq(N), NEW t \in Seq(N), s # <<>>
      PROVE  /\ Append(t, x) \in Seq(N) /\ Append(t, Head(s)) \in Seq(N)
             /\ Tail(s) \in Seq(N)
  BY <1>2
<1>3. Took(c, x) \in CodecType(N)
  <2>1. Append(c.pending, x) \in Seq(N)
    BY <1>1
  <2> QED BY <2>1, <1>1 DEF CodecType, Took
<1>4. ASSUME c.pending # <<>> PROVE Made(c) \in CodecType(N)
  <2>1. Tail(c.pending) \in Seq(N) /\ Append(c.ready, Head(c.pending)) \in Seq(N)
    BY <1>1, <1>2, <1>4
  <2> QED BY <2>1, <1>1 DEF CodecType, Made
<1>5. ASSUME c.ready # <<>> PROVE Gave(c) \in CodecType(N)
  <2>1. Tail(c.ready) \in Seq(N)
    BY <1>1, <1>5
  <2> QED BY <2>1, <1>1 DEF CodecType, Gave
<1>6. /\ [c EXCEPT !.settled = b] \in CodecType(N)
      /\ [c EXCEPT !.eos = b] \in CodecType(N)
  BY <1>1 DEF CodecType
<1>7. [c EXCEPT !.ready = Append(@, x)] \in CodecType(N)
  <2>1. Append(c.ready, x) \in Seq(N)
    BY <1>1
  <2> QED BY <2>1, <1>1 DEF CodecType
<1> QED BY <1>3, <1>4, <1>5, <1>6, <1>7

LEMMA SourceKept ==
  ASSUME Types, SourceInv, UNCHANGED <<template, next, dec, sent, framesIn>>,
         (pc' \in {"flush", "tail"} \/ result' = "ok") /\ ~stop' =>
           \/ (pc \in {"flush", "tail"} \/ result = "ok") /\ ~stop
           \/ dec.eos /\ Empty(dec)
           \/ template = "encode"
  PROVE  SourceInv'
<1>1. CASE template = "transcode"
  BY <1>1 DEF SourceInv, DecLine
<1>2. CASE template # "transcode"
  BY <1>2 DEF SourceInv
<1> QED BY <1>1, <1>2

LEMMA SendFrameKeeps ==
  ASSUME IInv, SendFrame, UNCHANGED <<decVars, template>>
  PROVE  IInv'
<1>0. /\ pc = "send" /\ pc # "done" /\ Types /\ Flags /\ SourceInv /\ LineInv /\ OutInv
      /\ UNCHANGED <<stop, port, pulled, backend, blanks, answer, fetched, written, missed,
                     framesIn, framesOut, next, dec, sent, template>>
  BY DEF IInv, SendFrame, decVars
<1>1. result = "none" /\ InHand
  BY <1>0 DEF Types, EncTypeOK, InHand
<1>2. SentGrows
  BY <1>0 DEF SentGrows
<1>3. framesIn \in Nat /\ framesOut \in Nat
  BY <1>0, RunAssumption DEF Types, EncTypeOK
<1>4. CASE /\ enc' = Took(enc, work)
           /\ pc' = "drain" /\ site' = "sent"
           /\ UNCHANGED <<work, held, result>>
  <2>1. Types'
    <3>1. enc' \in CodecType(0 .. Last)
      BY <1>0, <1>4, CodecSteps DEF Types, EncTypeOK
    <3> QED BY <3>1, <1>0, <1>4 DEF Types, EncTypeOK, DecTypeOK
  <2>2. Flags'
    <3>1. enc'.ready = enc.ready /\ enc'.eos = enc.eos
      BY <1>0, <1>4 DEF Took, Types, EncTypeOK, CodecType
    <3> QED BY <3>1, <1>0, <1>1, <1>4 DEF Flags
  <2>3. SourceInv'
    BY <1>0, <1>1, <1>4, SourceKept
  <2>4. LineInv'
    BY <1>0, <1>4, LineTook DEF InHand
  <2>5. OutInv'
    BY <1>0, <1>1, <1>2, <1>3, <1>4, OutKept
  <2> QED BY <2>1, <2>2, <2>3, <2>4, <2>5 DEF IInv
<1>5. CASE /\ EncRefuses
           /\ pc' = "drain"
           /\ site' = IF backend = "mpp" THEN "sent" ELSE "retry"
           /\ UNCHANGED <<enc, work, held, result>>
  <2>0. backend # "mpp" /\ site' = "retry"
    BY <1>0, <1>5 DEF EncRefuses, MayRefuse, Flags
  <2>1. Types'
    BY <2>0, <1>0, <1>5 DEF Types, EncTypeOK, DecTypeOK
  <2>2. Flags'
    BY <2>0, <1>0, <1>1, <1>5 DEF Flags
  <2>3. SourceInv'
    BY <1>0, <1>1, <1>5, SourceKept
  <2>4. LineInv'
    <3>1. InHand'
      BY <2>0, <1>5 DEF InHand
    <3> QED BY <3>1, <1>0, <1>1, <1>2, <1>5, LineKept
  <2>5. OutInv'
    BY <1>0, <1>1, <1>2, <1>3, <1>5, OutKept
  <2> QED BY <2>1, <2>2, <2>3, <2>4, <2>5 DEF IInv
<1>6. CASE /\ Fails("enc")
           /\ EncodeReturns("fail")
           /\ UNCHANGED <<enc, site>>
  <2>0. pc' = "done" /\ result' = "fail" /\ work' = 0 /\ held' = {}
    BY <1>6 DEF EncodeReturns, Finish
  <2>1. Types'
    BY <2>0, <1>0, <1>6, RunAssumption DEF Types, EncTypeOK, DecTypeOK
  <2>2. Flags'
    BY <2>0, <1>0, <1>6 DEF Flags
  <2>3. SourceInv'
    BY <2>0, <1>0, SourceKept
  <2>4. LineInv'
    BY <2>0 DEF LineInv
  <2>5. OutInv'
    BY <2>0, <1>0, <1>2, <1>3, OutKept
  <2> QED BY <2>1, <2>2, <2>3, <2>4, <2>5 DEF IInv
<1> QED BY <1>4, <1>5, <1>6 DEF SendFrame

LEMMA EncoderWorksKeeps ==
  ASSUME IInv, EncoderWorks, UNCHANGED <<decVars, template>>
  PROVE  IInv'
<1>0. /\ pc # "done" /\ enc.pending # <<>> /\ enc' = Made(enc)
      /\ Types /\ Flags /\ SourceInv /\ LineInv /\ OutInv
      /\ UNCHANGED <<pc, stop, result, port, pulled, backend, blanks, work, held,
                     site, answer, fetched, written, missed, framesIn, framesOut, next, dec, sent,
                     template>>
  BY DEF IInv, EncoderWorks, decVars, runVars
<1>1. /\ enc'.ready = Append(enc.ready, Head(enc.pending))
      /\ enc'.settled = enc.settled /\ enc'.eos = enc.eos
  BY <1>0 DEF Made, Types, EncTypeOK, CodecType
<1>2. enc.ready \in Seq(Nat) /\ enc.pending \in Seq(Nat)
  BY <1>0, RunAssumption DEF Types, EncTypeOK, CodecType
<1>3. Head(enc.pending) # 0
  <2>1. PICK r \in Ranks(enc.ready) : EncLine(r)
    BY <1>0 DEF LineInv
  <2>2. 1 \in DOMAIN enc.pending /\ Head(enc.pending) = enc.pending[1]
    BY <1>0, <1>2
  <2>3. enc.pending[1] = Line(fetched + r[Len(enc.ready)] + 1)
        /\ fetched + r[Len(enc.ready)] + 1 \in 1 .. framesIn
    BY <2>1, <2>2, <1>0, InLine DEF EncLine
  <2>4. enc.pending[1] \in 1 .. Last
    BY <2>3, <1>0, LineFacts
  <2> QED BY <2>2, <2>4, RunAssumption
<1>4. Types'
  <2>1. enc' \in CodecType(0 .. Last)
    BY <1>0, CodecSteps DEF Types, EncTypeOK
  <2> QED BY <2>1, <1>0 DEF Types, EncTypeOK, DecTypeOK
<1>5. Flags'
  <2>1. ASSUME backend = "mpp", NEW i \in DOMAIN enc'.ready
        PROVE  enc'.ready[i] # 0
    BY <2>1, <1>0, <1>1, <1>2, <1>3 DEF Flags
  <2> QED BY <2>1, <1>0, <1>1 DEF Flags, Untold
<1>6. SourceInv'
  BY <1>0, SourceKept
<1>7. LineInv'
  BY <1>0, LineMade
<1>8. OutInv'
  <2>1. framesIn \in Nat /\ SentGrows
    BY <1>0, RunAssumption DEF Types, EncTypeOK, SentGrows
  <2> QED BY <2>1, <1>0, OutKept DEF OutInv
<1> QED BY <1>4, <1>5, <1>6, <1>7, <1>8 DEF IInv

LEMMA EncoderBlankKeeps ==
  ASSUME IInv, EncoderBlank, UNCHANGED <<decVars, template>>
  PROVE  IInv'
<1>0. /\ pc # "done" /\ enc' = [enc EXCEPT !.ready = Append(@, 0)]
      /\ backend = "svt" /\ blanks < MaxBlanks /\ blanks' = blanks + 1
      /\ Types /\ Flags /\ SourceInv /\ LineInv /\ OutInv
      /\ UNCHANGED <<pc, stop, result, port, pulled, backend, work, held,
                     site, answer, fetched, written, missed, framesIn, framesOut, next, dec, sent,
                     template>>
  BY DEF IInv, EncoderBlank, decVars, runVars
<1>1. Types'
  <2>1. enc' \in CodecType(0 .. Last)
    <3>1. 0 \in 0 .. Last /\ enc \in CodecType(0 .. Last)
      BY <1>0, RunAssumption DEF Types, EncTypeOK
    <3>2. [enc EXCEPT !.ready = Append(@, 0)] \in CodecType(0 .. Last)
      BY <3>1, CodecSteps
    <3> QED BY <3>2, <1>0
  <2>2. blanks' \in 0 .. MaxBlanks
    BY <1>0, EncodeAssumption DEF Types, EncTypeOK
  <2> QED BY <2>1, <2>2, <1>0 DEF Types, EncTypeOK, DecTypeOK
<1>2. Flags'
  <2>1. enc'.settled = enc.settled /\ enc'.eos = enc.eos
    BY <1>0 DEF Types, EncTypeOK, CodecType
  <2> QED BY <2>1, <1>0 DEF Flags, Untold
<1>3. SourceInv'
  BY <1>0, SourceKept
<1>4. LineInv'
  BY <1>0, LineBlank
<1>5. OutInv'
  <2>1. framesIn \in Nat /\ SentGrows
    BY <1>0, RunAssumption DEF Types, EncTypeOK, SentGrows
  <2> QED BY <2>1, <1>0, OutKept DEF OutInv
<1> QED BY <1>1, <1>2, <1>3, <1>4, <1>5 DEF IInv

LEMMA OutsideKeeps ==
  ASSUME IInv, Outside, UNCHANGED <<decVars, template>>
  PROVE  IInv'
<1>0. /\ Types /\ Flags /\ SourceInv /\ LineInv /\ OutInv
      /\ UNCHANGED <<pc, result, backend, enc, blanks, work, held, site, answer, fetched, written,
                     missed, framesIn, framesOut, next, dec, sent, template>>
      /\ stop' \in BOOLEAN /\ (stop => stop')
      /\ Out' = Out /\ port' \in Seq(1 .. Last) /\ pulled' \in Seq(1 .. Last)
      /\ Len(port') <= PortDepth
  <2>1. CASE RequestStop
    BY <2>1 DEF IInv, Outside, RequestStop, encVars, decVars, Types, EncTypeOK, Out
  <2>2. CASE PullOutput
    <3>1. /\ port \in Seq(1 .. Last) /\ pulled \in Seq(1 .. Last) /\ port # <<>>
          /\ Len(port) <= PortDepth /\ PortDepth \in Nat
      BY <2>2, RunAssumption DEF IInv, PullOutput, Types, EncTypeOK
    <3>2. pulled' = Append(pulled, Head(port)) /\ port' = Tail(port)
      BY <2>2 DEF PullOutput
    <3>3. Out' = Out
      BY <3>1, <3>2, PullKeepsOut DEF Out
    <3>4. /\ port' \in Seq(1 .. Last) /\ pulled' \in Seq(1 .. Last)
          /\ Len(port') <= PortDepth
      <4>1. Len(Tail(port)) = Len(port) - 1 /\ Len(port) \in Nat
        BY <3>1
      <4>2. Tail(port) \in Seq(1 .. Last) /\ Head(port) \in 1 .. Last
        <5>1. \A N : \A s \in Seq(N) : s # <<>> => Tail(s) \in Seq(N) /\ Head(s) \in N
          OBVIOUS
        <5> QED BY <5>1, <3>1
      <4>3. Append(pulled, Head(port)) \in Seq(1 .. Last)
        BY <4>2, <3>1
      <4> QED BY <4>1, <4>2, <4>3, <3>1, <3>2
    <3> QED BY <2>2, <3>3, <3>4 DEF IInv, Outside, PullOutput, encVars, decVars,
                                    Types, EncTypeOK
  <2> QED BY <2>1, <2>2 DEF Outside
<1>1. Types'
  BY <1>0 DEF Types, EncTypeOK, DecTypeOK
<1>2. Flags'
  BY <1>0 DEF Flags, Untold
<1>3. SourceInv'
  BY <1>0, SourceKept
<1>4. LineInv'
  <2>1. CASE pc = "done"
    BY <2>1, <1>0 DEF LineInv
  <2>2. CASE pc # "done"
    BY <2>2, <1>0, LineKept DEF SentGrows, InHand
  <2> QED BY <2>1, <2>2
<1>5. OutInv'
  <2>1. \A k : Line(k)' = Line(k)
    BY <1>0 DEF Line
  <2> QED BY <2>1, <1>0 DEF OutInv
<1> QED BY <1>1, <1>2, <1>3, <1>4, <1>5 DEF IInv

LEMMA FlushEncoderKeeps ==
  ASSUME IInv, FlushEncoder, UNCHANGED <<decVars, template>>
  PROVE  IInv'
<1>0. /\ pc = "flush" /\ pc' = "tail"
      /\ enc' = [enc EXCEPT !.eos = answer' = "told"]
      /\ answer' \in {"told", "refused", "failed"}
      /\ answer' = "refused" => EncRefuses
      /\ Types /\ Flags /\ SourceInv /\ LineInv /\ OutInv
      /\ UNCHANGED <<stop, result, port, pulled, backend, blanks, work, held,
                     site, fetched, written, missed, framesIn, framesOut, next, dec, sent,
                     template>>
  BY DEF IInv, FlushEncoder, decVars
<1>1. /\ enc' \in CodecType(0 .. Last) /\ enc'.ready = enc.ready
      /\ enc'.pending = enc.pending /\ enc'.settled = enc.settled
      /\ enc'.eos = (answer' = "told")
  BY <1>0 DEF Types, EncTypeOK, CodecType
<1>2. result = "none" /\ SentGrows
  BY <1>0 DEF Types, EncTypeOK, SentGrows
<1>3. Types'
  BY <1>0, <1>1 DEF Types, EncTypeOK, DecTypeOK
<1>4. Flags'
  <2>1. answer' = "refused" => backend = "svt"
    <3>1. backend \in {"mpp", "svt"}
      BY <1>0, EncodeAssumption DEF Types, EncTypeOK
    <3> QED BY <3>1, <1>0 DEF EncRefuses, MayRefuse, Flags
  <2>2. enc'.eos \/ Untold'
    BY <2>1, <1>0, <1>1 DEF Untold
  <2>3. held' = {} /\ (framesOut' # fetched' /\ result' # "fail" =>
                         template' = "transcode" /\ backend' = "svt")
        /\ (site' = "idle" => template' = "transcode")
    BY <1>0 DEF Flags
  <2>4. backend' = "mpp" =>
          /\ site' = "sent" /\ answer' # "refused"
          /\ \A i \in DOMAIN enc'.ready : enc'.ready[i] # 0
          /\ result' # "fail" => "loop" \notin missed'
    <3> SUFFICES ASSUME backend = "mpp"
                 PROVE  /\ site = "sent" /\ answer' # "refused"
                        /\ \A i \in DOMAIN enc.ready : enc.ready[i] # 0
                        /\ result # "fail" => "loop" \notin missed
      BY <1>0, <1>1
    <3> QED BY <2>1, <1>0 DEF Flags
  <2> QED BY <2>2, <2>3, <2>4, <1>0 DEF Flags
<1>5. SourceInv'
  BY <1>0, SourceKept
<1>6. LineInv'
  BY <1>0, <1>1, <1>2, LineKept DEF InHand
<1>7. OutInv'
  <2>1. framesIn \in Nat
    BY <1>0, RunAssumption DEF Types, EncTypeOK
  <2> QED BY <2>1, <1>0, <1>2, OutKept
<1> QED BY <1>3, <1>4, <1>5, <1>6, <1>7 DEF IInv

LEMMA DrainReturnsCases ==
  ASSUME Types, NEW r \in {"ok", "fail"}, DrainReturns(r)
  PROVE  \/ /\ site = "idle" /\ pc' = "head"
            /\ UNCHANGED <<work, held, result>>
         \/ /\ site = "retry" /\ r = "ok" /\ pc' = "send"
            /\ UNCHANGED <<work, held, result>>
         \/ /\ site = "sent" /\ r = "ok" /\ pc' = "head" /\ work' = 0 /\ held' = {}
            /\ UNCHANGED result
         \/ /\ site # "idle" /\ r = "fail" /\ pc' = "done" /\ work' = 0
            /\ held' = {} /\ result' = "fail"
<1>1. site \in {"sent", "retry", "idle"}
  BY DEF Types, EncTypeOK
<1>2. CASE site = "idle"
  BY <1>2 DEF DrainReturns
<1>3. CASE site = "retry"
  BY <1>3 DEF DrainReturns, EncodeReturns, Finish
<1>4. CASE site = "sent"
  BY <1>4 DEF DrainReturns, EncodeReturns, Finish
<1> QED BY <1>1, <1>2, <1>3, <1>4

(* A packet in the loop or after it: what holds of the new values.         *)
LEMMA PacketTypes ==
  ASSUME Types, Flags, SourceInv, LineInv, OutInv, pc # "done",
         NEW where \in {"loop", "tail"}, NEW ok \in BOOLEAN,
         PacketOut(where, ok)
  PROVE  /\ enc' \in CodecType(0 .. Last) /\ framesOut' \in 0 .. Last
         /\ fetched' \in 0 .. Last
         /\ port' \in Seq(1 .. Last) /\ Len(port') <= PortDepth
         /\ written' \in Seq(1 .. Last) /\ missed' \subseteq {"loop", "tail"}
         /\ backend = "mpp" => \A i \in DOMAIN enc'.ready : enc'.ready[i] # 0
         /\ enc'.settled = enc.settled /\ enc'.eos = enc.eos
         /\ fetched' = fetched + 1 /\ framesOut' = framesOut + 1
<1>1. Head(enc.ready) = Line(fetched + 1) /\ fetched + 1 \in 1 .. framesIn
  BY LineHead DEF PacketOut
<1>2. Head(enc.ready) \in 1 .. Last
  BY <1>1, LineFacts
<1>3. enc' = Gave(enc) /\ enc.ready # <<>>
  BY DEF PacketOut, HasPacket
<1>4. enc' \in CodecType(0 .. Last) /\ enc'.settled = enc.settled
      /\ enc'.eos = enc.eos /\ enc'.ready = Tail(enc.ready)
  <2>1. enc \in CodecType(0 .. Last) /\ 0 \in 0 .. Last
    BY RunAssumption DEF Types, EncTypeOK
  <2>2. Gave(enc) \in CodecType(0 .. Last)
    BY <2>1, <1>3, CodecSteps
  <2> QED BY <2>1, <2>2, <1>3 DEF Gave, CodecType
<1>5. /\ framesOut' \in 0 .. Last /\ fetched' \in 0 .. Last
      /\ fetched' = fetched + 1 /\ framesOut' = framesOut + 1
  <2>1. fetched' = fetched + 1 /\ framesOut' = framesOut + 1
    BY DEF PacketOut
  <2>2. /\ framesOut \in Nat /\ fetched \in Nat /\ framesOut <= fetched
        /\ framesIn \in 0 .. Last
    BY RunAssumption DEF Types, EncTypeOK, OutInv
  <2> QED BY <2>1, <2>2, <1>1, RunAssumption
<1>6. port' \in Seq(1 .. Last) /\ Len(port') <= PortDepth
  <2>1. port' = IF Len(port) < PortDepth THEN Append(port, Head(enc.ready)) ELSE port
    BY DEF PacketOut, PushOutput
  <2>2. port \in Seq(1 .. Last) /\ Len(port) <= PortDepth /\ PortDepth \in Nat
    BY RunAssumption DEF Types, EncTypeOK
  <2>3. /\ Append(port, Head(enc.ready)) \in Seq(1 .. Last)
        /\ Len(Append(port, Head(enc.ready))) = Len(port) + 1 /\ Len(port) \in Nat
    BY <2>2, <1>2
  <2>4. CASE Len(port) < PortDepth
    <3>1. port' = Append(port, Head(enc.ready))
      BY <2>1, <2>4
    <3>2. Len(port) + 1 <= PortDepth
      BY <2>2, <2>3, <2>4
    <3> QED BY <2>3, <3>1, <3>2
  <2>5. CASE ~(Len(port) < PortDepth)
    BY <2>1, <2>2, <2>5
  <2> QED BY <2>4, <2>5
<1>7. written' \in Seq(1 .. Last)
  <2>1. written \in Seq(1 .. Last)
    BY DEF Types, EncTypeOK
  <2>2. Append(written, Head(enc.ready)) \in Seq(1 .. Last)
    BY <2>1, <1>2
  <2>3. written' = IF ok THEN Append(written, Head(enc.ready)) ELSE written
    BY DEF PacketOut
  <2> QED BY <2>1, <2>2, <2>3
<1>8. missed' \subseteq {"loop", "tail"}
  BY DEF PacketOut, Types, EncTypeOK
<1>9. ASSUME backend = "mpp", NEW i \in DOMAIN enc'.ready PROVE enc'.ready[i] # 0
  <2>1. enc.ready \in Seq(Nat)
    BY RunAssumption DEF Types, EncTypeOK, CodecType
  <2>2. i + 1 \in DOMAIN enc.ready /\ enc'.ready[i] = enc.ready[i + 1]
    BY <2>1, <1>3, <1>4
  <2> QED BY <2>2, <1>9 DEF Flags
<1> QED BY <1>4, <1>5, <1>6, <1>7, <1>8, <1>9

LEMMA DrainOneKeeps ==
  ASSUME IInv, DrainOne, UNCHANGED <<decVars, template>>
  PROVE  IInv'
<1>0. /\ pc = "drain" /\ Types /\ Flags /\ SourceInv /\ LineInv /\ OutInv
      /\ UNCHANGED <<stop, pulled, backend, blanks, site, answer, framesIn,
                     next, dec, sent, template>>
  BY DEF IInv, DrainOne, decVars
<1>1. result = "none" /\ SentGrows /\ framesIn \in Nat /\ framesOut \in Nat
      /\ fetched \in Nat
  BY <1>0, RunAssumption DEF Types, EncTypeOK, SentGrows
<1>2. ASSUME NEW r \in {"ok", "fail"}, DrainReturns(r)
      PROVE  /\ work' \in 0 .. Last /\ held' \subseteq {"frame", "scaled"}
             /\ pc' \in {"head", "send", "done"}
             /\ result' = IF pc' = "done" THEN "fail" ELSE "none"
             /\ pc' # "send" => held' = {}
             /\ pc' # "done" => (InHand' <=> InHand) /\ (InHand => work' = work)
             /\ r = "fail" =>
                  pc' = "done" \/ (template = "transcode" /\ backend = "svt")
  <2>1. /\ work \in 0 .. Last /\ held \subseteq {"frame", "scaled"}
        /\ site = "idle" => held = {}
        /\ backend = "mpp" => site = "sent"
        /\ site = "idle" => template = "transcode"
        /\ backend \in {"mpp", "svt"}
    BY <1>0, EncodeAssumption DEF Types, EncTypeOK, Flags
  <2>2. 0 \in 0 .. Last
    BY RunAssumption
  <2> QED BY <2>1, <2>2, <1>0, <1>1, <1>2, DrainReturnsCases DEF InHand
<1>3. /\ enc \in CodecType(0 .. Last) /\ enc.ready \in Seq(Nat)
      /\ enc \in [pending : Seq(0 .. Last), ready : Seq(0 .. Last),
                  settled : BOOLEAN, eos : BOOLEAN]
  BY <1>0, RunAssumption DEF Types, EncTypeOK, CodecType
<1>4. CASE ReceiveAgain /\ DrainReturns("ok")
           /\ UNCHANGED <<port, fetched, written, missed,
                         framesOut>>
  <2>1. CASE Nothing /\ enc' = [enc EXCEPT !.settled = TRUE]
    <3>0. /\ enc' \in CodecType(0 .. Last) /\ enc'.settled = TRUE
          /\ enc'.ready = enc.ready /\ enc'.pending = enc.pending
          /\ enc'.eos = enc.eos
      BY <2>1, <1>3 DEF CodecType
    <3>1. Types'
      BY <3>0, <1>0, <1>1, <1>2, <1>4 DEF Types, EncTypeOK, DecTypeOK
    <3>2. Flags'
      BY <3>0, <1>0, <1>1, <1>2, <1>4 DEF Flags
    <3>3. SourceInv'
      BY <1>0, <1>1, <1>2, <1>4, SourceKept
    <3>4. LineInv'
      BY <3>0, <1>0, <1>1, <1>2, <1>4, LineKept
    <3>5. OutInv'
      BY <1>0, <1>1, <1>2, <1>4, OutKept
    <3> QED BY <3>1, <3>2, <3>3, <3>4, <3>5 DEF IInv
  <2>2. CASE HasBlank /\ enc' = Gave(enc)
    <3>0. /\ enc' \in CodecType(0 .. Last) /\ enc.ready # <<>> /\ Head(enc.ready) = 0
          /\ enc'.eos = enc.eos
      <4>1. enc.ready # <<>> /\ Head(enc.ready) = 0 /\ 0 \in 0 .. Last
        BY <2>2, RunAssumption DEF HasBlank
      <4>2. enc'.eos = enc.eos
        BY <2>2, <1>3 DEF Gave
      <4> QED BY <4>1, <4>2, <2>2, <1>3, CodecSteps
    <3>1. Types'
      BY <3>0, <1>0, <1>1, <1>2, <1>4 DEF Types, EncTypeOK, DecTypeOK
    <3>2. Flags'
      <4>1. 1 \in DOMAIN enc.ready /\ enc.ready[1] = 0
        BY <3>0, <1>3
      <4>2. backend # "mpp"
        BY <4>1, <1>0 DEF Flags
      <4> QED BY <4>2, <3>0, <1>0, <1>1, <1>2, <1>4 DEF Flags
    <3>3. SourceInv'
      BY <1>0, <1>1, <1>2, <1>4, SourceKept
    <3>4. LineInv'
      BY <3>0, <2>2, <1>0, <1>1, <1>2, <1>4, LineGave
    <3>5. OutInv'
      BY <1>0, <1>1, <1>2, <1>4, OutKept
    <3> QED BY <3>1, <3>2, <3>3, <3>4, <3>5 DEF IInv
  <2> QED BY <2>1, <2>2, <1>4 DEF ReceiveAgain
<1>5. CASE /\ Fails("enc") /\ DrainReturns("fail")
           /\ UNCHANGED <<enc, port, fetched, written, missed, framesOut>>
  <2>1. Types'
    BY <1>0, <1>1, <1>2, <1>5 DEF Types, EncTypeOK, DecTypeOK
  <2>2. Flags'
    BY <1>0, <1>1, <1>2, <1>5 DEF Flags
  <2>3. SourceInv'
    BY <1>0, <1>1, <1>2, <1>5, SourceKept
  <2>4. LineInv'
    BY <1>0, <1>1, <1>2, <1>5, LineKept
  <2>5. OutInv'
    BY <1>0, <1>1, <1>2, <1>5, OutKept
  <2> QED BY <2>1, <2>2, <2>3, <2>4, <2>5 DEF IInv
<1>7. CASE /\ HasPacket /\ enc' = Gave(enc) /\ fetched' = fetched + 1
           /\ DrainReturns("fail") /\ NoPacketOut
  <2>0. /\ enc.ready # <<>> /\ Head(enc.ready) # 0
        /\ enc' \in CodecType(0 .. Last) /\ enc'.ready = Tail(enc.ready)
        /\ enc'.settled = enc.settled /\ enc'.eos = enc.eos
    <3>1. enc.ready # <<>> /\ Head(enc.ready) # 0 /\ 0 \in 0 .. Last
      BY <1>7, RunAssumption DEF HasPacket
    <3> QED BY <3>1, <1>3, <1>7, CodecSteps DEF Gave
  <2>1. UNCHANGED <<port, written, missed, framesOut>>
    BY <1>7 DEF NoPacketOut
  <2>2. Types'
    <3>1. fetched' \in 0 .. Last
      BY <1>0, <1>1, <1>7, LineHead, RunAssumption DEF Types, EncTypeOK
    <3> QED BY <3>1, <2>0, <2>1, <1>0, <1>1, <1>2, <1>7
            DEF Types, EncTypeOK, DecTypeOK
  <2>3. Flags'
    <3>1. ASSUME backend = "mpp", NEW i \in DOMAIN enc'.ready
          PROVE  enc'.ready[i] # 0
      <4>1. i + 1 \in DOMAIN enc.ready /\ enc'.ready[i] = enc.ready[i + 1]
        BY <2>0, <1>3
      <4> QED BY <4>1, <3>1, <1>0 DEF Flags
    <3> QED BY <3>1, <2>0, <2>1, <1>0, <1>1, <1>2, <1>7 DEF Flags
  <2>4. SourceInv'
    BY <1>0, <1>1, <1>2, <1>7, SourceKept
  <2>5. LineInv'
    BY <2>0, <1>0, <1>1, <1>2, <1>7, LineGave
  <2>6. OutInv'
    BY <1>0, <1>1, <1>2, <1>7, OutLost
  <2> QED BY <2>2, <2>3, <2>4, <2>5, <2>6 DEF IInv
<1>6. ASSUME NEW ok \in BOOLEAN, PacketOut("loop", ok),
             \/ ok /\ UNCHANGED <<pc, work, held, result>>
             \/ ~ok /\ DrainReturns("fail")
      PROVE  IInv'
  <2>0. /\ enc.ready # <<>> /\ Head(enc.ready) # 0 /\ enc' = Gave(enc)
        /\ framesOut' = framesOut + 1 /\ fetched' = fetched + 1
        /\ missed' = IF ok THEN missed ELSE missed \cup {"loop"}
    BY <1>6 DEF PacketOut, HasPacket
  <2>1. Types'
    BY <1>0, <1>1, <1>2, <1>6, PacketTypes DEF Types, EncTypeOK, DecTypeOK
  <2>2. Flags'
    BY <2>0, <1>0, <1>1, <1>2, <1>6, PacketTypes DEF Flags
  <2>3. SourceInv'
    BY <1>0, <1>1, <1>2, <1>6, SourceKept
  <2>4. LineInv'
    BY <2>0, <1>0, <1>1, <1>2, <1>6, LineGave DEF InHand
  <2>5. OutInv'
    BY <1>0, <1>1, <1>2, <1>6, OutPacket
  <2> QED BY <2>1, <2>2, <2>3, <2>4, <2>5 DEF IInv
<1>8. ReceiveAgain /\ DrainReturns("ok") /\ NoPacketOut /\ UNCHANGED fetched
        => IInv'
  BY <1>4 DEF NoPacketOut
<1>9. ReceiveError /\ DrainReturns("fail") /\ NoPacketOut => IInv'
  BY <1>5, <1>7 DEF NoPacketOut, ReceiveError
<1> QED BY <1>6, <1>8, <1>9 DEF DrainOne

LEMMA TailOneKeeps ==
  ASSUME IInv, TailOne, UNCHANGED <<decVars, template>>
  PROVE  IInv'
<1>0. /\ pc = "tail" /\ Types /\ Flags /\ SourceInv /\ LineInv /\ OutInv
      /\ UNCHANGED <<stop, pulled, backend, blanks, work, held, site, answer,
                     framesIn, next, dec, sent, template>>
  BY DEF IInv, TailOne, decVars
<1>1. /\ result = "none" /\ SentGrows /\ framesIn \in Nat /\ framesOut \in Nat
      /\ fetched \in Nat
      /\ ~InHand /\ held = {}
  BY <1>0, RunAssumption DEF Types, EncTypeOK, SentGrows, InHand, Flags
<1>2. /\ enc \in CodecType(0 .. Last) /\ enc.ready \in Seq(Nat)
      /\ enc \in [pending : Seq(0 .. Last), ready : Seq(0 .. Last),
                  settled : BOOLEAN, eos : BOOLEAN]
  BY <1>0, RunAssumption DEF Types, EncTypeOK, CodecType
<1>3. CASE /\ AtEnd /\ Finish("ok")
           /\ UNCHANGED <<enc, port, fetched, written, missed, framesOut>>
  <2>0. pc' = "done" /\ result' = "ok"
    BY <1>3 DEF Finish
  <2>1. Types'
    BY <2>0, <1>0, <1>3 DEF Types, EncTypeOK, DecTypeOK
  <2>2. Flags'
    BY <2>0, <1>0, <1>1, <1>3 DEF Flags
  <2>3. SourceInv'
    BY <2>0, <1>0, SourceKept
  <2>4. LineInv'
    BY <2>0 DEF LineInv
  <2>5. OutInv'
    <3>1. ASSUME template = "transcode" PROVE fetched = framesIn
      <4>1. PICK r \in Ranks(enc.ready) : EncLine(r)
        BY <1>0 DEF LineInv
      <4>2. Handed(r) = framesIn
        BY <4>1, <3>1 DEF EncLine, Lossy
      <4>3. Len(enc.ready) = 0 /\ Len(enc.pending) = 0 /\ r[0] = 0
        BY <4>1, <1>2, <1>3, RankFacts DEF AtEnd, Empty
      <4>4. Handed(r) = fetched
        BY <4>3, <1>1 DEF Handed, Taken
      <4> QED BY <4>2, <4>4
    <3> QED BY <3>1, <1>0, <1>1, <1>3, OutKept DEF OutInv
  <2> QED BY <2>1, <2>2, <2>3, <2>4, <2>5 DEF IInv
<1>4. CASE HasBlank /\ enc' = Gave(enc)
           /\ UNCHANGED <<pc, result, port, fetched, written, missed, framesOut>>
  <2>0. /\ enc' \in CodecType(0 .. Last) /\ enc.ready # <<>> /\ Head(enc.ready) = 0
        /\ enc'.eos = enc.eos
    <3>1. enc.ready # <<>> /\ Head(enc.ready) = 0 /\ 0 \in 0 .. Last
      BY <1>4, RunAssumption DEF HasBlank
    <3>2. enc'.eos = enc.eos
      BY <1>2, <1>4 DEF Gave
    <3> QED BY <3>1, <3>2, <1>2, <1>4, CodecSteps
  <2>1. Types'
    BY <2>0, <1>0, <1>4 DEF Types, EncTypeOK, DecTypeOK
  <2>2. Flags'
    <3>1. 1 \in DOMAIN enc.ready /\ enc.ready[1] = 0
      BY <2>0, <1>2
    <3>2. backend # "mpp"
      BY <3>1, <1>0 DEF Flags
    <3> QED BY <3>2, <2>0, <1>0, <1>1, <1>4 DEF Flags, Untold
  <2>3. SourceInv'
    BY <1>0, <1>4, SourceKept
  <2>4. LineInv'
    <3>1. fetched' = fetched + (IF Head(enc.ready) = 0 THEN 0 ELSE 1)
      BY <2>0, <1>1, <1>4
    <3> QED BY <3>1, <2>0, <1>0, <1>4, LineGave DEF InHand
  <2>5. OutInv'
    BY <1>0, <1>1, <1>4, OutKept
  <2> QED BY <2>1, <2>2, <2>3, <2>4, <2>5 DEF IInv
<1>5. CASE /\ Fails("enc") /\ Finish("fail")
           /\ UNCHANGED <<enc, port, fetched, written, missed, framesOut>>
  <2>0. pc' = "done" /\ result' = "fail"
    BY <1>5 DEF Finish
  <2>1. Types'
    BY <2>0, <1>0, <1>5 DEF Types, EncTypeOK, DecTypeOK
  <2>2. Flags'
    BY <2>0, <1>0, <1>1, <1>5 DEF Flags
  <2>3. SourceInv'
    BY <2>0, <1>0, SourceKept
  <2>4. LineInv'
    BY <2>0 DEF LineInv
  <2>5. OutInv'
    BY <2>0, <1>0, <1>1, <1>5, OutKept
  <2> QED BY <2>1, <2>2, <2>3, <2>4, <2>5 DEF IInv
<1>6. ASSUME NEW ok \in BOOLEAN, PacketOut("tail", ok), UNCHANGED <<pc, result>>
      PROVE  IInv'
  <2>0. /\ enc.ready # <<>> /\ Head(enc.ready) # 0 /\ enc' = Gave(enc)
        /\ framesOut' = framesOut + 1 /\ fetched' = fetched + 1
        /\ missed' = IF ok THEN missed ELSE missed \cup {"tail"}
    BY <1>6 DEF PacketOut, HasPacket
  <2>1. Types'
    BY <1>0, <1>6, PacketTypes DEF Types, EncTypeOK, DecTypeOK
  <2>2. Flags'
    BY <2>0, <1>0, <1>1, <1>6, PacketTypes DEF Flags, Untold
  <2>3. SourceInv'
    BY <1>0, <1>6, SourceKept
  <2>4. LineInv'
    BY <2>0, <1>0, <1>6, LineGave DEF InHand
  <2>5. OutInv'
    BY <1>0, <1>1, <1>6, OutPacket
  <2> QED BY <2>1, <2>2, <2>3, <2>4, <2>5 DEF IInv
<1>7. CASE /\ Nothing /\ enc' = [enc EXCEPT !.settled = TRUE]
           /\ UNCHANGED <<pc, result, port, fetched, written, missed,
                          framesOut>>
  <2>0. /\ enc' \in CodecType(0 .. Last) /\ enc'.settled = TRUE
        /\ enc'.ready = enc.ready /\ enc'.pending = enc.pending
        /\ enc'.eos = enc.eos
    BY <1>2, <1>7 DEF CodecType
  <2>1. Types'
    BY <2>0, <1>0, <1>7 DEF Types, EncTypeOK, DecTypeOK
  <2>2. Flags'
    BY <2>0, <1>0, <1>1, <1>7 DEF Flags, Untold
  <2>3. SourceInv'
    BY <1>0, <1>7, SourceKept
  <2>4. LineInv'
    BY <2>0, <1>0, <1>1, <1>7, LineKept DEF InHand
  <2>5. OutInv'
    BY <1>0, <1>1, <1>7, OutKept
  <2> QED BY <2>1, <2>2, <2>3, <2>4, <2>5 DEF IInv
<1>8. CASE /\ HasPacket /\ enc' = Gave(enc) /\ fetched' = fetched + 1
           /\ Finish("fail") /\ NoPacketOut
  <2>0. /\ enc' \in CodecType(0 .. Last)
        /\ enc'.ready = Tail(enc.ready) /\ pc' = "done" /\ result' = "fail"
    <3>1. enc.ready # <<>> /\ 0 \in 0 .. Last
      BY <1>8, RunAssumption DEF HasPacket
    <3> QED BY <3>1, <1>2, <1>8, CodecSteps DEF Gave, Finish
  <2>1. UNCHANGED <<port, written, missed, framesOut>>
    BY <1>8 DEF NoPacketOut
  <2>2. Types'
    <3>1. fetched' \in 0 .. Last
      BY <1>0, <1>1, <1>8, LineHead, RunAssumption DEF Types, EncTypeOK
    <3> QED BY <3>1, <2>0, <2>1, <1>0 DEF Types, EncTypeOK, DecTypeOK
  <2>3. Flags'
    <3>1. ASSUME backend = "mpp", NEW i \in DOMAIN enc'.ready
          PROVE  enc'.ready[i] # 0
      <4>1. i + 1 \in DOMAIN enc.ready /\ enc'.ready[i] = enc.ready[i + 1]
        BY <2>0, <1>2, <1>8 DEF HasPacket
      <4> QED BY <4>1, <3>1, <1>0 DEF Flags
    <3> QED BY <3>1, <2>0, <2>1, <1>0, <1>1 DEF Flags
  <2>4. SourceInv'
    BY <2>0, <1>0, SourceKept
  <2>5. LineInv'
    BY <2>0 DEF LineInv
  <2>6. OutInv'
    BY <2>0, <1>0, <1>1, <1>8, OutLost
  <2> QED BY <2>2, <2>3, <2>4, <2>5, <2>6 DEF IInv
<1>9. AtEnd /\ Finish("ok") /\ NoPacketOut /\ UNCHANGED <<enc, fetched>>
        => IInv'
  BY <1>3 DEF NoPacketOut
<1>10. ReceiveAgain /\ NoPacketOut /\ UNCHANGED <<pc, result, fetched>> => IInv'
  BY <1>4, <1>7 DEF NoPacketOut, ReceiveAgain
<1>11. ReceiveError /\ Finish("fail") /\ NoPacketOut => IInv'
  BY <1>5, <1>8 DEF NoPacketOut, ReceiveError
<1> QED BY <1>6, <1>9, <1>10, <1>11 DEF TailOne

-----------------------------------------------------------------------------
(* The decoding half.                                                      *)
LEMMA DecTypes ==
  ASSUME Types
  PROVE  /\ dec.ready \in Seq(1 .. Last) /\ dec.pending \in Seq(1 .. Last)
         /\ dec.eos \in BOOLEAN /\ sent \in Seq(1 .. Last)
         /\ Len(dec.ready) \in Nat /\ Len(dec.pending) \in Nat /\ Len(sent) \in Nat
         /\ next \in Nat /\ framesIn \in Nat /\ framesOut \in Nat
<1>1. /\ dec.ready \in Seq(1 .. Last) /\ dec.pending \in Seq(1 .. Last)
      /\ dec.eos \in BOOLEAN /\ sent \in Seq(1 .. Last)
  BY DEF Types, DecTypeOK, CodecType
<1> QED BY <1>1, RunAssumption DEF Types, EncTypeOK, DecTypeOK

(* The decoder takes a packet.                                             *)
LEMMA DecTook ==
  ASSUME Types, DecLine, next <= Last, ~dec.eos, next' = next + 1,
         dec' = Took(dec, next), sent' = Append(sent, next),
         framesIn' = framesIn, pc' = "receive", result' = "none"
  PROVE  DecLine'
<1> DEFINE k == Len(dec.ready)
           m == Len(dec.pending)
           n == Len(sent)
<1>1. /\ dec.ready \in Seq(1 .. Last) /\ dec.pending \in Seq(1 .. Last)
      /\ sent \in Seq(1 .. Last) /\ sent \in Seq(Nat)
  <2>1. \A t \in Seq(1 .. Last) : t \in Seq(Nat)
    BY RunAssumption
  <2> QED BY <2>1, DecTypes
<1>2. k \in Nat /\ m \in Nat /\ n \in Nat /\ framesIn \in Nat /\ next \in Nat
      /\ 1 <= next
  <2>1. next \in 1 .. Last + 1
    BY DEF Types, DecTypeOK
  <2>2. 1 <= next
    BY <2>1, RunAssumption
  <2> QED BY <2>2, DecTypes
<1>3. /\ dec'.ready = dec.ready /\ dec'.pending = Append(dec.pending, next)
      /\ dec'.eos = dec.eos
  BY DEF Took, Types, DecTypeOK, CodecType
<1>4. /\ DOMAIN sent' = 1 .. n + 1 /\ DOMAIN sent = 1 .. n
      /\ \A i \in 1 .. n : sent'[i] = sent[i]
      /\ sent'[n + 1] = next /\ Len(sent') = n + 1
  BY <1>1
<1>5. /\ DOMAIN dec'.pending = 1 .. m + 1 /\ Len(dec'.pending) = m + 1
      /\ \A i \in 1 .. m : i \in DOMAIN dec.pending /\ dec'.pending[i] = dec.pending[i]
      /\ dec'.pending[m + 1] = next
  BY <1>1, <1>3
<1>6. \A i \in 1 .. n : i <= sent[i] /\ sent[i] < next
  BY <1>4 DEF DecLine
<1>7. \A i \in 1 .. n : sent[i] \in Nat
  BY <1>1
<1>8. n = framesIn + k + m /\ IsIncreasing(sent)
  BY DEF DecLine
<1>9. DOMAIN dec.ready = 1 .. k
  BY <1>1
<1>10. /\ k = Len(dec.ready)
       /\ \A i \in 1 .. k : dec.ready[i] = sent[framesIn + i]
       /\ \A i \in 1 .. m : dec.pending[i] = sent[framesIn + k + i]
  BY <1>5, <1>9 DEF DecLine
<1>11. IsIncreasing(sent')
  BY <1>1, <1>2, <1>4, <1>6, <1>8, AppendIncreasing
<1> HIDE DEF k, m, n
<1>12. n + 1 <= next
  <2>1. CASE n = 0
    BY <2>1, <1>2
  <2>2. CASE n # 0
    <3>1. n \in 1 .. n
      BY <2>2, <1>2
    <3>2. n <= sent[n] /\ sent[n] < next /\ sent[n] \in Nat
      BY <3>1, <1>6, <1>7
    <3> QED BY <3>2, <1>2
  <2> QED BY <2>1, <2>2
<1>13. ASSUME NEW i \in DOMAIN sent' PROVE i <= sent'[i] /\ sent'[i] < next'
  <2>1. CASE i \in 1 .. n
    <3>1. sent'[i] = sent[i] /\ i <= sent[i] /\ sent[i] < next /\ sent[i] \in Nat
      BY <2>1, <1>4, <1>6, <1>7
    <3> QED BY <3>1, <1>2
  <2>2. CASE i = n + 1
    <3>1. sent'[i] = next
      BY <2>2, <1>4
    <3> QED BY <3>1, <2>2, <1>2, <1>12
  <2>3. i \in 1 .. n \/ i = n + 1
    BY <1>2, <1>4
  <2> QED BY <2>1, <2>2, <2>3
<1>14. Len(sent') = framesIn' + Len(dec'.ready) + Len(dec'.pending)
  <2>1. Len(sent') = framesIn + k + m + 1
    BY <1>4, <1>8
  <2>2. Len(dec'.ready) = k /\ Len(dec'.pending) = m + 1
    BY <1>3, <1>5, <1>10
  <2> QED BY <2>1, <2>2, <1>2
<1>15. ASSUME NEW i \in DOMAIN dec'.ready
       PROVE  dec'.ready[i] = sent'[framesIn' + i]
  <2>1. i \in 1 .. k /\ framesIn + i \in 1 .. n
    BY <1>2, <1>3, <1>8, <1>9
  <2> QED BY <2>1, <1>3, <1>4, <1>10
<1>16. ASSUME NEW i \in DOMAIN dec'.pending
       PROVE  dec'.pending[i] = sent'[framesIn' + Len(dec'.ready) + i]
  <2>1. CASE i \in 1 .. m
    <3>1. dec.pending[i] = sent[framesIn + k + i]
      BY <2>1, <1>10
    <3>2. framesIn + k + i \in 1 .. n
      BY <2>1, <1>2, <1>8
    <3> QED BY <3>1, <3>2, <2>1, <1>3, <1>4, <1>5, <1>10
  <2>2. CASE i = m + 1
    <3>1. framesIn + k + i = n + 1
      BY <2>2, <1>2, <1>8
    <3> QED BY <3>1, <2>2, <1>3, <1>4, <1>5, <1>10
  <2>3. i \in 1 .. m \/ i = m + 1
    BY <1>2, <1>5
  <2> QED BY <2>1, <2>2, <2>3
<1> QED BY <1>3, <1>11, <1>13, <1>14, <1>15, <1>16 DEF DecLine

(* The decoder finishes a frame.                                           *)
LEMMA DecMade ==
  ASSUME Types, DecLine, dec.pending # <<>>, dec' = Made(dec),
         UNCHANGED <<pc, stop, result, framesIn, next, sent>>
  PROVE  DecLine'
<1> DEFINE m == Len(dec.pending)
           n == Len(dec.ready)
<1>1. /\ dec.ready \in Seq(1 .. Last) /\ dec.pending \in Seq(1 .. Last)
      /\ n \in Nat /\ m \in Nat \ {0}
  BY DecTypes
<1>n. n \in Nat /\ m \in Nat /\ m # 0 /\ framesIn \in Nat
  BY <1>1, DecTypes
<1>2. /\ dec'.ready = Append(dec.ready, dec.pending[1])
      /\ dec'.pending = Tail(dec.pending) /\ dec'.eos = dec.eos
  <2>1. Head(dec.pending) = dec.pending[1]
    BY <1>1
  <2> QED BY <2>1 DEF Made, Types, DecTypeOK, CodecType
<1>3. /\ Len(dec'.ready) = n + 1 /\ DOMAIN dec'.ready = 1 .. n + 1
      /\ \A i \in 1 .. n : i \in DOMAIN dec.ready /\ dec'.ready[i] = dec.ready[i]
      /\ dec'.ready[n + 1] = dec.pending[1]
  BY <1>1, <1>2
<1>4. /\ Len(dec'.pending) = m - 1
      /\ \A i \in DOMAIN dec'.pending :
           /\ i \in Nat /\ i + 1 \in DOMAIN dec.pending
           /\ dec'.pending[i] = dec.pending[i + 1]
  BY <1>1, <1>2
<1>5. Len(sent') = framesIn' + Len(dec'.ready) + Len(dec'.pending)
  <2>1. Len(sent) = framesIn + n + m
    BY DEF DecLine
  <2>2. framesIn + n + m = framesIn + (n + 1) + (m - 1)
    <3> HIDE DEF n, m
    <3> QED BY <1>n
  <2> QED BY <2>1, <2>2, <1>3, <1>4
<1>6. ASSUME NEW i \in DOMAIN dec'.ready
      PROVE  dec'.ready[i] = sent'[framesIn' + i]
  <2>1. CASE i \in 1 .. n
    BY <2>1, <1>3 DEF DecLine
  <2>2. CASE i = n + 1
    <3>1. dec.pending[1] = sent[framesIn + n + 1]
      <4>1. 1 \in DOMAIN dec.pending
        BY <1>1
      <4> QED BY <4>1 DEF DecLine
    <3>2. framesIn + n + 1 = framesIn + i
      BY <2>2, <1>n
    <3> QED BY <3>1, <3>2, <2>2, <1>3
  <2> QED BY <2>1, <2>2, <1>1, <1>3
<1>7. ASSUME NEW i \in DOMAIN dec'.pending
      PROVE  dec'.pending[i] = sent'[framesIn' + Len(dec'.ready) + i]
  <2>1. i + 1 \in DOMAIN dec.pending /\ dec'.pending[i] = dec.pending[i + 1]
        /\ i \in Nat
    BY <1>4
  <2>2. dec.pending[i + 1] = sent[framesIn + n + (i + 1)]
    BY <2>1 DEF DecLine
  <2>3. \A a, b, c \in Int : a + b + (c + 1) = a + (b + 1) + c
    OBVIOUS
  <2>4. framesIn + n + (i + 1) = framesIn + (n + 1) + i
    BY <2>1, <2>3, <1>n
  <2> QED BY <2>1, <2>2, <2>4, <1>3
<1>8. ~Empty(dec)
  BY DEF Empty
<1> QED BY <1>2, <1>5, <1>6, <1>7, <1>8 DEF DecLine

(* The loop gets a frame: it is the next one of the line.                  *)
LEMMA DecGave ==
  ASSUME Types, DecLine, template = "transcode", dec.ready # <<>>, dec' = Gave(dec),
         framesIn' = framesIn + 1, pc' = "scale", result' = "none",
         UNCHANGED <<stop, next, sent>>
  PROVE  /\ DecLine'
         /\ framesIn + 1 \in 1 .. Last
         /\ Head(dec.ready) = Line(framesIn + 1) /\ Head(dec.ready) \in 1 .. Last
<1> DEFINE n == Len(dec.ready)
           m == Len(dec.pending)
<1>1. dec.ready \in Seq(1 .. Last) /\ sent \in Seq(1 .. Last)
  BY DecTypes
<1>n. n \in Nat /\ n # 0 /\ framesIn \in Nat /\ m \in Nat /\ Len(sent) \in Nat
  BY <1>1, DecTypes
<1>2. /\ dec'.ready = Tail(dec.ready) /\ dec'.pending = dec.pending
      /\ dec'.eos = dec.eos
  BY DEF Gave, Types, DecTypeOK, CodecType
<1>3. /\ Len(dec'.ready) = n - 1
      /\ \A i \in DOMAIN dec'.ready :
           /\ i \in Nat /\ i + 1 \in DOMAIN dec.ready
           /\ dec'.ready[i] = dec.ready[i + 1]
      /\ Head(dec.ready) = dec.ready[1] /\ 1 \in DOMAIN dec.ready
  BY <1>1, <1>2
<1>4. Len(sent) = framesIn + n + m
  BY DEF DecLine
<1>5. Len(sent') = framesIn' + Len(dec'.ready) + Len(dec'.pending)
  <2>1. framesIn + n + m = (framesIn + 1) + (n - 1) + m
    <3> HIDE DEF n, m
    <3> QED BY <1>n
  <2> QED BY <2>1, <1>2, <1>3, <1>4
<1>6. ASSUME NEW i \in DOMAIN dec'.ready
      PROVE  dec'.ready[i] = sent'[framesIn' + i]
  <2>1. dec.ready[i + 1] = sent[framesIn + (i + 1)] /\ i \in Nat
    BY <1>3 DEF DecLine
  <2>2. framesIn + (i + 1) = (framesIn + 1) + i
    BY <2>1, <1>n
  <2> QED BY <2>1, <2>2, <1>3
<1>7. ASSUME NEW i \in DOMAIN dec'.pending
      PROVE  dec'.pending[i] = sent'[framesIn' + Len(dec'.ready) + i]
  <2>1. dec.pending[i] = sent[framesIn + n + i] /\ i \in Int
    <3>1. dec.pending \in Seq(1 .. Last)
      BY DecTypes
    <3> QED BY <3>1, <1>2, <1>7 DEF DecLine
  <2>2. framesIn + n + i = (framesIn + 1) + (n - 1) + i
    <3> HIDE DEF n, m
    <3> QED BY <2>1, <1>n
  <2> QED BY <2>1, <2>2, <1>2, <1>3
<1>8. DecLine'
  BY <1>2, <1>5, <1>6, <1>7 DEF DecLine
<1>9. Head(dec.ready) = sent[framesIn + 1] /\ framesIn + 1 \in DOMAIN sent
  <2>1. framesIn + 1 \in 1 .. Len(sent)
    <3> HIDE DEF n, m
    <3> QED BY <1>n, <1>4
  <2>2. framesIn + 1 \in DOMAIN sent
    BY <2>1, <1>1
  <2> QED BY <2>2, <1>3 DEF DecLine
<1>10. sent[framesIn + 1] \in 1 .. Last /\ framesIn + 1 <= sent[framesIn + 1]
  <2>1. \A N : \A t \in Seq(N) : \A i \in DOMAIN t : t[i] \in N
    OBVIOUS
  <2>2. sent[framesIn + 1] \in 1 .. Last
    BY <2>1, <1>1, <1>9
  <2> QED BY <2>2, <1>9 DEF DecLine
<1>11. framesIn + 1 \in 1 .. Last
  BY <1>n, <1>10, RunAssumption
<1> QED BY <1>8, <1>9, <1>10, <1>11 DEF Line

-----------------------------------------------------------------------------
(* The steps of the two loops.                                             *)

(* A step that leaves the encoder, the muxer and the port alone.           *)
LEMMA QuietKeeps ==
  ASSUME IInv, pc \notin {"tail", "done"}, pc' # "tail",
         Types', SourceInv', LineInv', SentGrows,
         UNCHANGED <<port, pulled, backend, enc, answer, fetched, written, missed, framesOut, template>>,
         framesIn <= framesIn', result' # "ok",
         pc' \notin {"drain", "done"} => pc # "drain",
         site' = site \/ (backend # "mpp" /\ template = "transcode"),
         pc' \in {"head", "receive", "flush", "tail", "done"}
           \/ (pc' = "drain" /\ site' = "idle") => held' = {}
  PROVE  IInv'
<1>1. Types /\ Flags /\ SourceInv /\ OutInv
  BY DEF IInv
<1>2. Flags'
  <2>1. result = "none"
    BY <1>1 DEF Types, EncTypeOK
  <2> QED BY <2>1, <1>1 DEF Flags
<1>3. OutInv'
  <2>1. framesIn' \in Nat
    BY RunAssumption DEF Types, EncTypeOK
  <2> QED BY <2>1, <1>1, OutKept
<1> QED BY <1>2, <1>3 DEF IInv

(* Of these, the ones that only move the program counter.                  *)
LEMMA MoveKeeps ==
  ASSUME IInv, pc \in {"head", "receive"},
         UNCHANGED <<stop, port, pulled, backend, enc, blanks, work, held, answer, fetched, written,
                     missed, framesIn, framesOut, next, dec, sent, template>>,
         \/ pc' = "done" /\ result' = "fail"
         \/ pc' \in {"head", "receive", "drain", "flush"} /\ UNCHANGED result,
         pc' = "receive" => template = "transcode",
         site' = site \/ (backend # "mpp" /\ site' = "idle"
                            /\ template = "transcode"),
         pc' = "drain" => site' = "idle",
         pc' = "flush" => stop \/ (dec.eos /\ Empty(dec)) \/ template = "encode"
  PROVE  IInv'
<1>1. Types /\ Flags /\ SourceInv /\ LineInv /\ pc # "done" /\ SentGrows
  BY DEF IInv, SentGrows
<1>2. result = "none" /\ held = {} /\ framesIn \in Nat
  BY <1>1, RunAssumption DEF Types, EncTypeOK, Flags
<1>3. Types'
  BY <1>1, <1>2 DEF Types, EncTypeOK, DecTypeOK
<1>4. SourceInv'
  BY <1>1, <1>2, SourceKept
<1>5. LineInv'
  BY <1>1, LineKept DEF InHand
<1> QED BY <1>1, <1>2, <1>3, <1>4, <1>5, QuietKeeps

LEMMA FeedKeeps ==
  ASSUME IInv, template = "transcode", FeedStep, UNCHANGED <<encVars, template>>
  PROVE  IInv'
<1>0. /\ Types /\ Flags /\ SourceInv /\ LineInv /\ DecLine
      /\ UNCHANGED <<backend, enc, blanks, work, held, site, answer, fetched, written, missed, framesIn,
                     framesOut, template>>
  BY DEF IInv, encVars, SourceInv
<1>1. CASE FeedFails \/ FeedNothing \/ ReceiveFails
  BY <1>0, <1>1, MoveKeeps DEF FeedFails, FeedNothing, ReceiveFails, Finish, decVars
<1>2. CASE FeedEof
  <2>0. /\ pc = "head" /\ pc' = "receive" /\ next > Last
        /\ dec' = [dec EXCEPT !.eos = TRUE]
        /\ UNCHANGED <<stop, result, port, pulled, next, sent>>
    BY <1>2 DEF FeedEof
  <2>1. /\ dec' \in CodecType(1 .. Last) /\ dec'.ready = dec.ready
        /\ dec'.pending = dec.pending /\ dec'.eos = TRUE
    BY <2>0, <1>0 DEF Types, DecTypeOK, CodecType
  <2>2. result = "none" /\ held = {} /\ SentGrows /\ framesIn \in Nat
    BY <2>0, <1>0, RunAssumption DEF Types, EncTypeOK, Flags, SentGrows
  <2>3. Types'
    BY <2>0, <2>1, <1>0 DEF Types, EncTypeOK, DecTypeOK
  <2>4. SourceInv'
    BY <2>0, <2>1, <2>2, <1>0 DEF SourceInv, DecLine
  <2>5. LineInv'
    BY <2>0, <2>2, <1>0, LineKept DEF InHand
  <2> QED BY <2>0, <2>2, <2>3, <2>4, <2>5, <1>0, QuietKeeps
<1>3. CASE FeedPacket
  <2>0. /\ pc = "head" /\ ~dec.eos /\ next <= Last /\ next' = next + 1
        /\ UNCHANGED <<stop, port, pulled>>
    BY <1>3 DEF FeedPacket
  <2>1. next' \in 1 .. Last + 1 /\ next \in Nat /\ next \in 1 .. Last
    BY <2>0, <1>0, RunAssumption DEF Types, DecTypeOK
  <2>2. result = "none" /\ held = {} /\ framesIn \in Nat
    BY <2>0, <1>0, RunAssumption DEF Types, EncTypeOK, Flags
  <2>3. CASE /\ dec' = Took(dec, next) /\ sent' = Append(sent, next)
             /\ pc' = "receive" /\ UNCHANGED result
    <3>1. dec' \in CodecType(1 .. Last)
      BY <2>1, <2>3, <1>0, CodecSteps DEF Types, DecTypeOK
    <3>2. sent' \in Seq(1 .. Last)
      BY <2>1, <2>3, DecTypes, <1>0
    <3>3. Types'
      BY <3>1, <3>2, <2>0, <2>1, <2>3, <1>0 DEF Types, EncTypeOK, DecTypeOK
    <3>4. SourceInv'
      BY <2>0, <2>2, <2>3, <1>0, DecTook DEF SourceInv
    <3>5. SentGrows
      BY <2>1, <2>3 DEF SentGrows
    <3>6. LineInv'
      BY <3>5, <2>0, <2>3, <1>0, LineKept DEF InHand
    <3> QED BY <3>3, <3>4, <3>5, <3>6, <2>0, <2>2, <2>3, <1>0, QuietKeeps
  <2>4. CASE /\ UNCHANGED <<dec, sent>>
             /\ \/ pc' = "receive" /\ UNCHANGED result
                \/ Finish("fail")
    <3>1. \/ pc' = "receive" /\ result' = "none"
          \/ pc' = "done" /\ result' = "fail"
      BY <2>2, <2>4 DEF Finish
    <3>2. Types'
      BY <3>1, <2>0, <2>1, <2>4, <1>0 DEF Types, EncTypeOK, DecTypeOK
    <3>3. SourceInv'
      <4>1. \A i \in DOMAIN sent : sent[i] < next + 1
        <5>1. \A i \in DOMAIN sent : sent[i] < next /\ sent[i] \in Nat
          <6>1. sent \in Seq(1 .. Last)
            BY <1>0, DecTypes
          <6> QED BY <6>1, <1>0, RunAssumption DEF DecLine
        <5> QED BY <5>1, <2>1
      <4> QED BY <4>1, <3>1, <2>0, <2>4, <1>0 DEF SourceInv, DecLine
    <3>4. SentGrows
      BY <2>4 DEF SentGrows
    <3>5. LineInv'
      BY <3>1, <3>4, <2>0, <1>0, LineKept DEF InHand
    <3> QED BY <3>1, <3>2, <3>3, <3>4, <3>5, <2>0, <2>2, <2>4, <1>0, QuietKeeps
  <2> QED BY <2>3, <2>4, <1>3 DEF FeedPacket
<1> QED BY <1>1, <1>2, <1>3 DEF FeedStep

LEMMA TranscodeKeeps ==
  ASSUME IInv, TranscodeStep
  PROVE  IInv'
<1>0. /\ Types /\ Flags /\ SourceInv /\ LineInv /\ DecLine
      /\ template = "transcode" /\ UNCHANGED template
  BY DEF IInv, SourceInv, TranscodeStep
<1>1. CASE T!StopSeen
  BY <1>0, <1>1, MoveKeeps DEF T!StopSeen, T!encVars, T!decVars
<1>2. CASE T!ReceiveNothing
  <2>0. /\ pc = "receive" /\ dec' = [dec EXCEPT !.settled = TRUE]
        /\ \/ backend = "svt" /\ pc' = "drain" /\ site' = "idle"
           \/ pc' = "head" /\ UNCHANGED site
        /\ UNCHANGED <<stop, result, port, pulled, backend, enc, blanks, work, held,
                       answer, fetched, written, missed, framesIn, framesOut, next, sent>>
    BY <1>2 DEF T!ReceiveNothing
  <2>1. /\ dec' \in CodecType(1 .. Last) /\ dec'.ready = dec.ready
        /\ dec'.pending = dec.pending /\ dec'.eos = dec.eos
    BY <2>0, <1>0 DEF Types, DecTypeOK, CodecType
  <2>2. result = "none" /\ held = {} /\ framesIn \in Nat /\ SentGrows
    BY <2>0, <1>0, RunAssumption DEF Types, EncTypeOK, Flags, SentGrows
  <2>3. Types'
    BY <2>0, <2>1, <1>0 DEF Types, EncTypeOK, DecTypeOK
  <2>4. SourceInv'
    BY <2>0, <2>1, <2>2, <1>0 DEF SourceInv, DecLine
  <2>5. LineInv'
    BY <2>0, <2>2, <1>0, LineKept DEF InHand
  <2> QED BY <2>0, <2>2, <2>3, <2>4, <2>5, <1>0, QuietKeeps
<1>3. CASE T!ReceiveEnd
  <2>1. dec.eos /\ Empty(dec)
    BY <1>3 DEF T!ReceiveEnd, T!NoMoreFrames, T!Empty, Empty
  <2> QED BY <2>1, <1>0, <1>3, MoveKeeps DEF T!ReceiveEnd, T!encVars, T!decVars
<1>4. CASE T!ReceiveFrame
  <2>0. /\ pc = "receive" /\ dec.ready # <<>> /\ dec' = Gave(dec)
        /\ work' = Head(dec.ready) /\ held' = {"frame"}
        /\ framesIn' = framesIn + 1 /\ pc' = "scale"
        /\ UNCHANGED <<stop, result, port, pulled, backend, enc, blanks, site,
                       answer, fetched, written, missed, framesOut, next, sent>>
    BY <1>4 DEF T!ReceiveFrame, T!HasFrame, T!Gave, Gave
  <2>1. result = "none" /\ framesIn \in Nat /\ SentGrows
    BY <2>0, <1>0, RunAssumption DEF Types, EncTypeOK, SentGrows
  <2>2. /\ DecLine' /\ framesIn + 1 \in 1 .. Last
        /\ Head(dec.ready) = Line(framesIn + 1) /\ Head(dec.ready) \in 1 .. Last
    BY <2>0, <2>1, <1>0, DecGave
  <2>3. Types'
    <3>1. dec' \in CodecType(1 .. Last)
      BY <2>0, <2>2, <1>0, CodecSteps DEF Types, DecTypeOK
    <3>2. framesIn' \in 0 .. Last /\ work' \in 0 .. Last
      BY <2>0, <2>1, <2>2
    <3> QED BY <3>1, <3>2, <2>0, <1>0 DEF Types, EncTypeOK, DecTypeOK
  <2>4. SourceInv'
    BY <2>2, <1>0 DEF SourceInv
  <2>5. LineInv'
    BY <2>0, <2>2, <1>0, LineLoads DEF InHand
  <2>6. framesIn <= framesIn'
    BY <2>0, <2>1
  <2> QED BY <2>0, <2>1, <2>3, <2>4, <2>5, <2>6, <1>0, QuietKeeps
<1>5. CASE T!Scale
  <2>0. /\ pc = "scale"
        /\ UNCHANGED <<stop, port, pulled, backend, enc, blanks, site, answer, fetched, written, missed,
                       framesIn, framesOut, next, dec, sent>>
        /\ \/ /\ pc' = "send" /\ UNCHANGED <<work, result>>
              /\ held' = IF Scaling THEN held \cup {"scaled"} ELSE held
           \/ /\ pc' = "done" /\ result' = "fail" /\ held' = {} /\ work' = 0
    BY <1>5 DEF T!Scale, T!Finish, T!decVars
  <2>1. result = "none" /\ framesIn \in Nat /\ SentGrows
    BY <2>0, <1>0, RunAssumption DEF Types, EncTypeOK, SentGrows
  <2>2. Types'
    <3>1. work \in 0 .. Last /\ held \subseteq {"frame", "scaled"} /\ 0 \in 0 .. Last
      BY <1>0, RunAssumption DEF Types, EncTypeOK
    <3>2. work' \in 0 .. Last /\ held' \subseteq {"frame", "scaled"}
      <4>1. work' = work \/ work' = 0
        BY <2>0
      <4>2. held' = held \cup {"scaled"} \/ held' = held \/ held' = {}
        BY <2>0
      <4> QED BY <4>1, <4>2, <3>1
    <3> QED BY <3>2, <2>0, <2>1, <1>0 DEF Types, EncTypeOK, DecTypeOK
  <2>3. SourceInv'
    BY <2>0, <2>1, <1>0, SourceKept
  <2>4. LineInv'
    BY <2>0, <2>1, <1>0, LineKept DEF InHand
  <2> QED BY <2>0, <2>1, <2>2, <2>3, <2>4, <1>0, QuietKeeps
<1>6. CASE T!DecoderWorks
  <2>0. /\ pc # "done" /\ dec.pending # <<>> /\ dec' = Made(dec)
        /\ UNCHANGED <<pc, stop, result, port, pulled, backend, enc, blanks, work,
                       held, site, answer, fetched, written, missed, framesIn, framesOut, next, sent>>
    BY <1>6 DEF T!DecoderWorks, T!Made, Made, T!runVars, T!encVars
  <2>1. result = "none" /\ framesIn \in Nat /\ SentGrows
    BY <2>0, <1>0, RunAssumption DEF Types, EncTypeOK, SentGrows
  <2>2. Types'
    <3>1. dec' \in CodecType(1 .. Last)
      <4>1. dec \in CodecType(1 .. Last) /\ Head(dec.pending) \in 1 .. Last
        <5>1. \A N : \A s \in Seq(N) : s # <<>> => Head(s) \in N
          OBVIOUS
        <5> QED BY <5>1, <2>0, <1>0, DecTypes DEF Types, DecTypeOK
      <4> QED BY <4>1, <2>0, CodecSteps
    <3> QED BY <3>1, <2>0, <1>0 DEF Types, EncTypeOK, DecTypeOK
  <2>3. SourceInv'
    BY <2>0, <1>0, DecMade DEF SourceInv
  <2>4. LineInv'
    BY <2>0, <2>1, <1>0, LineKept DEF InHand
  <2>5. Flags'
    BY <2>0, <1>0 DEF Flags, Untold
  <2>6. OutInv'
    BY <2>0, <2>1, <1>0, OutKept DEF IInv
  <2> QED BY <2>2, <2>3, <2>4, <2>5, <2>6 DEF IInv
<1>7. CASE FeedStep /\ UNCHANGED encVars
  BY <1>0, <1>7, FeedKeeps
<1> QED BY <1>1, <1>2, <1>3, <1>4, <1>5, <1>6, <1>7 DEF TranscodeStep

LEMMA EncodeFileKeeps ==
  ASSUME IInv, EncodeFileStep
  PROVE  IInv'
<1>0. /\ Types /\ Flags /\ SourceInv /\ LineInv
      /\ template = "encode" /\ UNCHANGED <<dec, sent, template>> /\ SentGrows
  BY DEF IInv, EncodeFileStep, SentGrows
<1>1. /\ framesIn \in Nat /\ next = framesIn + 1 /\ next \in Nat /\ next \in 1 .. Last + 1
  BY <1>0, RunAssumption DEF Types, EncTypeOK, DecTypeOK, SourceInv
<1>2. CASE E!StopSeen \/ E!LoadEof \/ E!LoadFails
  BY <1>0, <1>2, MoveKeeps DEF E!StopSeen, E!LoadEof, E!LoadFails, E!encVars
<1>3. CASE E!LoadFrame \/ E!ScaleFails
  <2>0. /\ pc = "head" /\ next <= Last /\ next' = next + 1 /\ framesIn' = framesIn + 1
        /\ UNCHANGED <<stop, result, port, pulled, backend, enc, blanks, site,
                       answer, fetched, written, missed, framesOut>>
        /\ \/ /\ work' = next /\ pc' = "send"
              /\ held' = IF Scaling THEN {"frame", "scaled"} ELSE {"frame"}
           \/ /\ Lossy /\ pc' = "flush" /\ UNCHANGED <<work, held>>
    BY <1>0, <1>3 DEF E!LoadFrame, E!ScaleFails, E!Fails, Fails, Lossy
  <2>1. result = "none" /\ held = {}
    BY <2>0, <1>0 DEF Types, EncTypeOK, Flags
  <2>2. /\ next \in 0 .. Last /\ framesIn + 1 \in 0 .. Last
        /\ next + 1 \in 1 .. Last + 1 /\ next + 1 = (framesIn + 1) + 1
    BY <2>0, <1>1, RunAssumption
  <2>3. Types'
    BY <2>0, <2>1, <2>2, <1>0 DEF Types, EncTypeOK, DecTypeOK
  <2>4. SourceInv'
    BY <2>0, <2>2, <1>0 DEF SourceInv
  <2>5. LineInv'
    BY <2>0, <1>0, <1>1, LineLoads DEF InHand, Line
  <2>6. framesIn <= framesIn'
    BY <2>0, <1>1
  <2> QED BY <2>0, <2>1, <2>3, <2>4, <2>5, <2>6, <1>0, QuietKeeps
<1> QED BY <1>2, <1>3 DEF EncodeFileStep

LEMMA InitHolds ==
  ASSUME Init
  PROVE  IInv
<1>0. /\ pc = "head" /\ stop = FALSE /\ result = "none" /\ port = <<>> /\ pulled = <<>>
      /\ backend \in Backends /\ enc = NewCodec /\ blanks = 0 /\ work = 0 /\ held = {}
      /\ site = "sent" /\ answer = "none" /\ fetched = 0
      /\ written = <<>> /\ missed = {} /\ framesIn = 0 /\ framesOut = 0
      /\ next = 1 /\ dec = NewCodec /\ sent = <<>>
      /\ template \in {"transcode", "encode"}
  BY DEF Init, T!Init, T!RunInit, T!EncInit, T!DecInit, T!NewCodec, NewCodec
<1>1. \A N : <<>> \in Seq(N) /\ NewCodec \in CodecType(N)
  BY DEF NewCodec, CodecType
<1>2. Types
  <2>1. 0 \in 0 .. Last /\ 1 \in 1 .. Last + 1 /\ 0 \in 0 .. MaxBlanks /\ Len(<<>>) <= PortDepth
    BY RunAssumption, EncodeAssumption
  <2> QED BY <2>1, <1>0, <1>1 DEF Types, EncTypeOK, DecTypeOK
<1>3. Flags
  BY <1>0 DEF Flags, NewCodec
<1>4. SourceInv
  <2>1. DecLine
    BY <1>0 DEF DecLine, NewCodec, IsIncreasing
  <2> QED BY <2>1, <1>0 DEF SourceInv
<1>5. LineInv
  <2> DEFINE r == [i \in 0 .. 0 |-> 0]
  <2>1. enc.ready = <<>> /\ enc.pending = <<>> /\ Len(<<>>) = 0
    BY <1>0 DEF NewCodec
  <2>2. r \in Ranks(<<>>)
    BY <2>1 DEF Ranks
  <2>3. Handed(r) = 0
    BY <2>1, <1>0 DEF Handed, Taken, InHand
  <2>4. EncLine(r)
    BY <2>1, <2>3, <1>0 DEF EncLine, InHand
  <2> QED BY <2>1, <2>2, <2>4 DEF LineInv
<1>6. OutInv
  BY <1>0 DEF OutInv, Out, IsIncreasing
<1> QED BY <1>2, <1>3, <1>4, <1>5, <1>6 DEF IInv

LEMMA StepKeeps ==
  ASSUME IInv, [Next]_vars
  PROVE  IInv'
<1>1. CASE UNCHANGED vars
  <2>1. Out' = Out /\ \A k : Line(k)' = Line(k)
    BY <1>1 DEF vars, runVars, encVars, decVars, Out, Line
  <2>2. Types' /\ Flags'
    BY <1>1 DEF vars, runVars, encVars, decVars, IInv, Types, EncTypeOK, DecTypeOK, Flags,
                Untold
  <2>3. SourceInv'
    BY <1>1 DEF vars, runVars, encVars, decVars, IInv, SourceInv, DecLine
  <2>4. OutInv'
    BY <2>1, <1>1 DEF vars, runVars, encVars, decVars, IInv, OutInv
  <2>5. LineInv'
    <3>1. CASE pc = "done"
      BY <3>1, <1>1 DEF vars, runVars, LineInv
    <3>2. CASE pc # "done"
      <4>1. UNCHANGED <<pc, enc, site, work, framesIn, fetched, sent, template>>
        BY <1>1 DEF vars, runVars, encVars, decVars
      <4> QED BY <4>1, <3>2, LineKept DEF IInv, SentGrows, InHand
    <3> QED BY <3>1, <3>2
  <2> QED BY <2>2, <2>3, <2>4, <2>5 DEF IInv
<1>2. CASE EncoderStep
  BY <1>2, SendFrameKeeps, DrainOneKeeps, FlushEncoderKeeps, TailOneKeeps,
     EncoderWorksKeeps, EncoderBlankKeeps, OutsideKeeps DEF EncoderStep, EncodeStep
<1>3. CASE TranscodeStep
  BY <1>3, TranscodeKeeps
<1>4. CASE EncodeFileStep
  BY <1>4, EncodeFileKeeps
<1> QED BY <1>1, <1>2, <1>3, <1>4, NextCases

THEOREM Invariant == FairSpec => []IInv
<1>1. Init => IInv
  BY InitHolds
<1>2. IInv /\ [Next]_vars => IInv'
  BY StepKeeps
<1> QED BY <1>1, <1>2, PTL DEF FairSpec

-----------------------------------------------------------------------------
(* Every variable keeps its type, for files of any length.                 *)
THEOREM RunTypes == FairSpec => []TypeOK
<1>1. IInv => TypeOK
  <2>1. ASSUME Types PROVE T!TypeOK
    BY <2>1 DEF Types, EncTypeOK, DecTypeOK, CodecType, T!TypeOK, T!EncTypeOK,
                T!DecTypeOK, T!CodecType
  <2>2. ASSUME Types, template = "encode" PROVE E!TypeOK
    BY <2>2 DEF Types, EncTypeOK, DecTypeOK, CodecType, E!TypeOK, E!EncTypeOK,
                E!CodecType
  <2> QED BY <2>1, <2>2 DEF IInv, Types, TypeOK
<1> QED BY <1>1, Invariant, PTL

(* The muxer gets every frame at most once and in file order, whatever the *)
(* encoder refuses and whichever call fails.                               *)
THEOREM MuxOrder == FairSpec => []MuxInOrder
<1>1. IInv => MuxInOrder
  BY DEF IInv, OutInv, MuxInOrder
<1> QED BY <1>1, Invariant, PTL

(* So does the consumer of the output port, who sees nothing that was not  *)
(* written unless a write failed.                                          *)
THEOREM PortOrder == FairSpec => []PortInOrder
<1>1. IInv => PortInOrder
  BY DEF IInv, OutInv, Out, PortInOrder
<1> QED BY <1>1, Invariant, PTL

(* A transcoding run that succeeds fetched a packet for every frame it     *)
(* counted in, also after a stop, and it counted each of them out, unless  *)
(* SVT-AV1's node lost one while the loop waited for the decoder.          *)
THEOREM StatsHold == FairSpec => []StatsAgree
<1>1. IInv => StatsAgree
  BY DEF IInv, OutInv, Flags, StatsAgree
<1> QED BY <1>1, Invariant, PTL

LEMMA Prefix ==
  ASSUME NEW S, NEW s \in Seq(S), NEW n \in 0 .. Len(s)
  PROVE  /\ Len(SubSeq(s, 1, n)) = n /\ SubSeq(s, 1, n) \in Seq(S)
         /\ \A i \in 1 .. n : SubSeq(s, 1, n)[i] = s[i]
<1>1. SubSeq(s, 1, n) \in Seq(S)
  OBVIOUS
<1>2. Len(SubSeq(s, 1, n)) = n
  OBVIOUS
<1>3. \A i \in 1 .. n : SubSeq(s, 1, n)[i] = s[i]
  OBVIOUS
<1> QED BY <1>1, <1>2, <1>3

(* A run that succeeds and whose writes all worked left no hole in the     *)
(* file, whether it was stopped or not, unless SVT-AV1's node lost a       *)
(* packet; then the file still holds as many as were counted out.          *)
THEOREM WrittenWithoutHoles == FairSpec => []NoHoles
<1>1. ASSUME IInv PROVE NoHoles
  <2>0. result = "ok" /\ missed = {} => Len(written) = framesOut
    BY <1>1 DEF IInv, OutInv
  <2> SUFFICES ASSUME result = "ok", missed = {}, fetched = framesOut
               PROVE  written = IF template = "transcode"
                                THEN SubSeq(sent, 1, framesOut)
                                ELSE [i \in 1 .. framesOut |-> i]
    BY <2>0 DEF NoHoles
  <2>1. /\ Len(written) = framesOut /\ written \in Seq(1 .. Last)
        /\ \A i \in 1 .. framesOut : written[i] = Line(i)
        /\ framesOut \in Nat /\ framesIn \in Nat /\ framesOut <= framesIn
    BY <1>1, RunAssumption DEF IInv, OutInv, Types, EncTypeOK
  <2>2. CASE template = "transcode"
    <3>1. sent \in Seq(1 .. Last) /\ framesIn <= Len(sent) /\ Len(sent) \in Nat
      BY <2>2, <1>1, DecTypes DEF IInv, SourceInv, DecLine
    <3>2. /\ Len(SubSeq(sent, 1, framesOut)) = framesOut
          /\ SubSeq(sent, 1, framesOut) \in Seq(1 .. Last)
          /\ \A i \in 1 .. framesOut : SubSeq(sent, 1, framesOut)[i] = sent[i]
      <4>1. framesOut \in 0 .. Len(sent)
        BY <3>1, <2>1
      <4> QED BY <4>1, <3>1, Prefix
    <3>3. \A i \in 1 .. framesOut : written[i] = sent[i]
      BY <2>1, <2>2 DEF Line
    <3> QED BY <3>2, <3>3, <2>1, <2>2
  <2>3. CASE template # "transcode"
    BY <2>1, <2>3 DEF Line
  <2> QED BY <2>2, <2>3
<1> QED BY <1>1, Invariant, PTL

(* No frame reference is left with the loop between frames, nor when       *)
(* run_file has returned, whichever way it returned.                       *)
THEOREM NothingLeftHeld == FairSpec => []NothingHeld
<1>1. IInv => NothingHeld
  BY DEF IInv, Flags, NothingHeld
<1> QED BY <1>1, Invariant, PTL

(* With RKMPP, a write that fails while frames are still coming makes      *)
(* run_file fail.                                                          *)
THEOREM WriteErrorsReported == FairSpec => []WriteErrorReported
<1>1. IInv => WriteErrorReported
  BY DEF IInv, Flags, WriteErrorReported
<1> QED BY <1>1, Invariant, PTL

(* A transcoding run that succeeds and was not stopped took all that the   *)
(* decoder was given, from a file read to its end, through the encoder; if *)
(* all writes worked and no packet was lost, the file holds exactly this.  *)
THEOREM NothingLost == FairSpec => []AllSentIsWritten
<1>1. ASSUME IInv PROVE AllSentIsWritten
  <2> SUFFICES ASSUME template = "transcode", result = "ok", ~stop
               PROVE  /\ next > Last /\ fetched = Len(sent)
                      /\ missed = {} /\ fetched = framesOut => written = sent
    BY DEF AllSentIsWritten, T!AllSentIsWritten
  <2>1. /\ DecLine /\ dec.eos /\ Empty(dec) /\ next > Last
        /\ fetched = framesIn
    BY <1>1 DEF IInv, SourceInv, DecLine, OutInv
  <2>2. Len(sent) = framesIn /\ sent \in Seq(1 .. Last)
    <3>1. Len(dec.ready) = 0 /\ Len(dec.pending) = 0
      BY <2>1 DEF Empty
    <3> QED BY <3>1, <2>1, <1>1, DecTypes DEF DecLine, IInv
  <2>3. ASSUME missed = {}, fetched = framesOut PROVE written = sent
    <3>1. /\ Len(written) = framesOut
          /\ \A i \in 1 .. framesOut : written[i] = sent[i]
          /\ written \in Seq(1 .. Last) /\ framesOut \in Nat
      BY <2>3, <1>1, RunAssumption DEF IInv, OutInv, Line, Types, EncTypeOK
    <3> QED BY <3>1, <2>1, <2>2, <2>3
  <2> QED BY <2>1, <2>2, <2>3
<1> QED BY <1>1, Invariant, PTL

-----------------------------------------------------------------------------
(* The frames counted in.                                                  *)
Accepted ==
  IF template = "transcode" THEN SubSeq(sent, 1, framesIn)
                            ELSE [i \in 1 .. framesIn |-> i]

LEMMA PrefixGrows ==
  ASSUME NEW S, NEW s \in Seq(S), NEW n \in Nat, n + 1 <= Len(s)
  PROVE  SubSeq(s, 1, n + 1) = Append(SubSeq(s, 1, n), s[n + 1])
<1> DEFINE u == SubSeq(s, 1, n + 1)
           v == Append(SubSeq(s, 1, n), s[n + 1])
<1>0. s[n + 1] \in S /\ n \in 0 .. Len(s) /\ n + 1 \in 0 .. Len(s)
  OBVIOUS
<1>1. u \in Seq(S) /\ Len(u) = n + 1 /\ \A i \in 1 .. n + 1 : u[i] = s[i]
  BY <1>0, Prefix
<1>2. /\ SubSeq(s, 1, n) \in Seq(S) /\ Len(SubSeq(s, 1, n)) = n
      /\ \A i \in 1 .. n : SubSeq(s, 1, n)[i] = s[i]
  BY <1>0, Prefix
<1>3. v \in Seq(S) /\ Len(v) = n + 1 /\ \A i \in 1 .. n + 1 : v[i] = s[i]
  BY <1>0, <1>2
<1> HIDE DEF u, v
<1>4. u = v
  BY <1>1, <1>3
<1> QED BY <1>4 DEF u, v

LEMMA ListGrows ==
  ASSUME NEW n \in Nat
  PROVE  /\ [i \in 1 .. n |-> i] \in Seq(Nat) /\ Len([i \in 1 .. n |-> i]) = n
         /\ [i \in 1 .. n + 1 |-> i] = Append([i \in 1 .. n |-> i], n + 1)
<1> DEFINE u == [i \in 1 .. n + 1 |-> i]
           t == [i \in 1 .. n |-> i]
           v == Append(t, n + 1)
<1>0. \A k \in Nat : [1 .. k -> Nat] \subseteq Seq(Nat)
  OBVIOUS
<1>1. t \in Seq(Nat) /\ Len(t) = n /\ \A i \in 1 .. n : t[i] = i
  BY <1>0
<1>2. u \in Seq(Nat) /\ Len(u) = n + 1 /\ \A i \in 1 .. n + 1 : u[i] = i
  BY <1>0
<1> HIDE DEF t, u
<1>3. v \in Seq(Nat) /\ Len(v) = n + 1 /\ \A i \in 1 .. n + 1 : v[i] = i
  BY <1>1
<1> HIDE DEF v
<1>4. u = v
  BY <1>2, <1>3
<1> QED BY <1>1, <1>4 DEF t, u, v

LEMMA AcceptedFacts ==
  ASSUME Types, SourceInv
  PROVE  /\ Accepted \in Seq(Nat) /\ Len(Accepted) = framesIn
         /\ \A i \in 1 .. framesIn : Accepted[i] = Line(i)
<1>0. framesIn \in Nat
  BY DecTypes
<1>1. CASE template = "transcode"
  <2>1. sent \in Seq(1 .. Last) /\ framesIn \in 0 .. Len(sent)
    BY <1>1, DecTypes DEF SourceInv, DecLine
  <2>2. sent \in Seq(Nat)
    <3>1. \A t \in Seq(1 .. Last) : t \in Seq(Nat)
      BY RunAssumption
    <3> QED BY <2>1, <3>1
  <2>3. /\ Len(SubSeq(sent, 1, framesIn)) = framesIn
        /\ SubSeq(sent, 1, framesIn) \in Seq(Nat)
        /\ \A i \in 1 .. framesIn : SubSeq(sent, 1, framesIn)[i] = sent[i]
    BY <2>1, <2>2, Prefix
  <2> QED BY <1>1, <2>3 DEF Accepted, Line
<1>2. CASE template # "transcode"
  BY <1>0, <1>2, ListGrows DEF Accepted, Line
<1> QED BY <1>1, <1>2

(* A step that counts no frame in leaves the frames counted in.            *)
LEMMA AcceptedStays ==
  ASSUME Types, SourceInv, SentGrows, UNCHANGED <<template, framesIn>>
  PROVE  Accepted' = Accepted
<1>1. CASE template = "transcode"
  <2>1. /\ sent \in Seq(1 .. Last) /\ framesIn \in 0 .. Len(sent)
        /\ Len(sent) \in Nat
    BY <1>1, DecTypes DEF SourceInv, DecLine
  <2>2. ASSUME NEW x \in 1 .. Last
        PROVE  SubSeq(Append(sent, x), 1, framesIn) = SubSeq(sent, 1, framesIn)
    <3> DEFINE t == Append(sent, x)
               u == SubSeq(t, 1, framesIn)
               v == SubSeq(sent, 1, framesIn)
    <3>1. /\ t \in Seq(1 .. Last) /\ framesIn \in 0 .. Len(t)
          /\ \A i \in 1 .. framesIn : t[i] = sent[i]
      BY <2>1
    <3> HIDE DEF t
    <3>2. /\ u \in Seq(1 .. Last) /\ Len(u) = framesIn
          /\ \A i \in 1 .. framesIn : u[i] = t[i]
      BY <3>1, Prefix
    <3>3. /\ v \in Seq(1 .. Last) /\ Len(v) = framesIn
          /\ \A i \in 1 .. framesIn : v[i] = sent[i]
      BY <2>1, Prefix
    <3> HIDE DEF u, v
    <3>4. u = v
      BY <3>1, <3>2, <3>3
    <3> QED BY <3>4 DEF t, u, v
  <2> QED BY <1>1, <2>2 DEF Accepted, SentGrows
<1>2. CASE template # "transcode"
  BY <1>2 DEF Accepted
<1> QED BY <1>1, <1>2

(* Nothing that the application sees changes.                              *)
LEMMA Stutters ==
  ASSUME IInv, SentGrows,
         UNCHANGED <<template, framesIn, fetched, written, result>>, Out' = Out
  PROVE  UNCHANGED Promise!transferVars
<1>1. Accepted' = Accepted
  BY AcceptedStays DEF IInv
<1> QED BY <1>1 DEF Promise!transferVars, Accepted, Out, Fails

LEMMA Ends ==
  ASSUME IInv, SentGrows, pc # "done", result' = "fail",
         UNCHANGED <<template, framesIn, fetched, written>>, Out' = Out
  PROVE  Promise!Fail
<1>1. Accepted' = Accepted
  BY AcceptedStays DEF IInv
<1>2. result = "none"
  BY DEF IInv, Types, EncTypeOK
<1> QED BY <1>1, <1>2 DEF Promise!Fail, Accepted, Out, Fails

(* A frame is counted in.                                                  *)
LEMMA Accepts ==
  ASSUME IInv, pc # "done", framesIn' = framesIn + 1,
         UNCHANGED <<template, sent, fetched, written, result>>, Out' = Out,
         IF template = "transcode" THEN framesIn + 1 <= Len(sent)
                                   ELSE framesIn + 1 <= Last
  PROVE  \E x \in 1 .. Last : Promise!Accept(x)
<1> DEFINE x == Line(framesIn + 1)
<1>0. /\ Types /\ SourceInv /\ framesIn \in Nat /\ result = "none"
      /\ Last \in Nat /\ sent \in Seq(1 .. Last) /\ Len(sent) \in Nat
  BY DecTypes, RunAssumption DEF IInv, Types, EncTypeOK
<1>3. /\ x \in 1 .. Last /\ Accepted' = Append(Accepted, x)
      /\ \A i \in 1 .. framesIn : Line(i) < x
  <2>1. CASE template = "transcode"
    <3>1. framesIn + 1 \in DOMAIN sent /\ x = sent[framesIn + 1]
      BY <1>0, <2>1 DEF Line
    <3>2. x \in 1 .. Last
      <4>1. \A N : \A t \in Seq(N) : \A i \in DOMAIN t : t[i] \in N
        OBVIOUS
      <4> QED BY <4>1, <1>0, <3>1
    <3>3. Accepted' = Append(Accepted, x)
      BY <1>0, <2>1, <3>1, PrefixGrows DEF Accepted
    <3>4. ASSUME NEW i \in 1 .. framesIn PROVE Line(i) < x
      <4>1. i \in DOMAIN sent /\ i < framesIn + 1
        BY <1>0, <2>1
      <4> QED BY <4>1, <3>1, <1>0, <2>1 DEF SourceInv, DecLine, IsIncreasing, Line
    <3> QED BY <3>2, <3>3, <3>4
  <2>2. CASE template # "transcode"
    BY <1>0, <2>2, ListGrows DEF Accepted, Line
  <2> QED BY <2>1, <2>2
<1>4. \A i \in DOMAIN Accepted : Accepted[i] < x
  BY <1>0, <1>3, AcceptedFacts
<1>5. PICK y \in 1 .. Last : y = x
  BY <1>3
<1>6. Promise!Accept(y)
  BY <1>0, <1>3, <1>4, <1>5 DEF Promise!Accept, Accepted, Out, Fails
<1> QED BY <1>6

(* A packet is delivered.                                                  *)
LEMMA Delivers ==
  ASSUME IInv, pc # "done", NEW where \in {"loop", "tail"}, NEW ok \in BOOLEAN,
         PacketOut(where, ok), UNCHANGED <<template, pulled, framesIn, sent>>,
         result' = result \/ (~ok /\ result' = "fail")
  PROVE  Promise!Next
<1>0. /\ Types /\ SourceInv /\ LineInv /\ fetched \in Nat /\ framesIn \in Nat
      /\ result = "none" /\ port \in Seq(1 .. Last) /\ pulled \in Seq(1 .. Last)
  BY DecTypes, RunAssumption DEF IInv, Types, EncTypeOK
<1>1. /\ fetched + 1 \in 1 .. framesIn
      /\ Head(enc.ready) = Accepted[fetched + 1]
      /\ Head(enc.ready) \in 1 .. Last
  BY <1>0, LineHead, LineFacts, AcceptedFacts DEF PacketOut
<1>2. fetched < Len(Accepted)
  BY <1>0, <1>1, AcceptedFacts
<1>3. /\ fetched' = fetched + 1
      /\ written' = IF ok THEN Append(written, Head(enc.ready)) ELSE written
      /\ port' = IF Len(port) < PortDepth THEN Append(port, Head(enc.ready)) ELSE port
  BY DEF PacketOut, PushOutput
<1>4. Out' = IF Len(port) < PortDepth THEN Append(Out, Head(enc.ready)) ELSE Out
  BY <1>0, <1>1, <1>3, AppendToConcat DEF Out
<1>5. Accepted' = Accepted
  BY DEF Accepted
<1>6. CASE Len(port) < PortDepth
  <2>1. Promise!Deliver(ok, TRUE)
    BY <1>0, <1>1, <1>2, <1>3, <1>4, <1>5, <1>6
       DEF Promise!Deliver, Accepted, Out, Fails
  <2> QED BY <2>1 DEF Promise!Next
<1>7. CASE ~(Len(port) < PortDepth)
  <2>1. Promise!Deliver(ok, FALSE)
    BY <1>0, <1>1, <1>2, <1>3, <1>4, <1>5, <1>7
       DEF Promise!Deliver, Accepted, Out, Fails
  <2> QED BY <2>1 DEF Promise!Next
<1> QED BY <1>6, <1>7

(* A packet is lost: its delivery failed.                                  *)
LEMMA Loses ==
  ASSUME IInv, pc # "done", HasPacket, fetched' = fetched + 1, NoPacketOut,
         UNCHANGED <<template, pulled, framesIn, sent>>,
         result' \in {result, "fail"}
  PROVE  Promise!Next
<1>0. /\ Types /\ SourceInv /\ LineInv /\ fetched \in Nat /\ framesIn \in Nat
      /\ result = "none"
  BY DecTypes, RunAssumption DEF IInv, Types, EncTypeOK
<1>1. fetched < Len(Accepted) /\ Accepted' = Accepted
  <2>1. fetched + 1 \in 1 .. framesIn
    BY <1>0, LineHead
  <2> QED BY <2>1, <1>0, AcceptedFacts DEF Accepted
<1>2. UNCHANGED written /\ Out' = Out
  BY DEF NoPacketOut, Out
<1>3. Promise!Deliver(FALSE, FALSE)
  BY <1>0, <1>1, <1>2 DEF Promise!Deliver, Accepted, Out, Fails
<1> QED BY <1>3 DEF Promise!Next

(* The encoder is drained: all that was counted in has been delivered.     *)
LEMMA Succeeded ==
  ASSUME IInv, pc = "tail", AtEnd, result' = "ok",
         UNCHANGED <<template, sent, framesIn, fetched, written, port, pulled>>
  PROVE  Promise!Succeed
<1>0. /\ Types /\ SourceInv /\ LineInv /\ fetched \in Nat /\ framesIn \in Nat
      /\ result = "none" /\ enc.ready \in Seq(Nat)
  BY DecTypes, RunAssumption DEF IInv, Types, EncTypeOK, CodecType
<1>1. PICK r \in Ranks(enc.ready) : EncLine(r)
  BY <1>0 DEF LineInv
<1>2. Len(enc.ready) = 0 /\ Len(enc.pending) = 0 /\ r[0] = 0
  BY <1>0, <1>1, RankFacts DEF AtEnd, Empty
<1>3. Handed(r) = fetched
  BY <1>0, <1>2 DEF Handed, Taken, InHand
<1>4. fetched = framesIn \/ (Lossy /\ fetched + 1 = framesIn)
  BY <1>1, <1>3 DEF EncLine
<1>5. Len(Accepted) = framesIn /\ Accepted' = Accepted
  BY <1>0, AcceptedFacts DEF Accepted
<1> QED BY <1>0, <1>4, <1>5 DEF Promise!Succeed, Accepted, Lossy, Fails

LEMMA EncoderPromises ==
  ASSUME IInv, EncoderStep
  PROVE  [Promise!Next]_(Promise!transferVars)
<1>0. /\ UNCHANGED <<next, dec, sent, template>> /\ SentGrows
      /\ Types
  BY DEF EncoderStep, decVars, SentGrows, IInv, Types, EncTypeOK
<1>1. CASE SendFrame
  <2>1. /\ pc = "send" /\ result' \in {result, "fail"}
        /\ UNCHANGED <<port, pulled, fetched, written, framesIn>>
    BY <1>1 DEF SendFrame, EncodeReturns, Finish
  <2>2. Out' = Out
    BY <2>1 DEF Out
  <2> QED BY <2>1, <2>2, <1>0, Stutters, Ends DEF Promise!Next
<1>2. CASE DrainOne
  <2>0. pc = "drain" /\ UNCHANGED <<pulled, framesIn>>
    BY <1>2 DEF DrainOne
  <2>1. ASSUME NEW r \in {"ok", "fail"}, DrainReturns(r)
        PROVE  result' = result \/ (r = "fail" /\ result' = "fail")
    BY <1>0, <2>1, DrainReturnsCases
  <2>2. CASE /\ DrainReturns("ok") \/ DrainReturns("fail")
             /\ UNCHANGED fetched /\ NoPacketOut
    <3>1. result' \in {result, "fail"} /\ Out' = Out
      BY <2>0, <2>1, <2>2 DEF Out, NoPacketOut
    <3> QED BY <3>1, <2>0, <2>2, <1>0, Stutters, Ends
            DEF Promise!Next, NoPacketOut
  <2>3. CASE PacketOut("loop", TRUE) /\ UNCHANGED <<pc, work, held, result>>
    BY <2>0, <2>3, <1>0, Delivers
  <2>4. CASE PacketOut("loop", FALSE) /\ DrainReturns("fail")
    BY <2>0, <2>1, <2>4, <1>0, Delivers
  <2>5. CASE /\ HasPacket /\ fetched' = fetched + 1
             /\ DrainReturns("fail") /\ NoPacketOut
    <3>1. result' \in {result, "fail"}
      BY <2>1, <2>5
    <3> QED BY <3>1, <2>0, <2>5, <1>0, Loses
  <2>6. ReceiveError /\ DrainReturns("fail") /\ NoPacketOut
          => [Promise!Next]_(Promise!transferVars)
    BY <2>2, <2>5 DEF ReceiveError
  <2> QED BY <2>2, <2>3, <2>4, <2>6, <1>2 DEF DrainOne
<1>3. CASE FlushEncoder
  <2>1. UNCHANGED <<result, port, pulled, fetched, written, framesIn>>
    BY <1>3 DEF FlushEncoder
  <2>2. Out' = Out
    BY <2>1 DEF Out
  <2> QED BY <2>1, <2>2, <1>0, Stutters
<1>4. CASE TailOne
  <2>0. pc = "tail" /\ UNCHANGED <<pulled, framesIn>>
    BY <1>4 DEF TailOne
  <2>1. CASE AtEnd /\ Finish("ok") /\ NoPacketOut /\ UNCHANGED fetched
    BY <2>0, <2>1, <1>0, Succeeded DEF Finish, Promise!Next, NoPacketOut
  <2>2. CASE /\ UNCHANGED fetched /\ NoPacketOut
             /\ UNCHANGED result \/ Finish("fail")
    <3>1. result' \in {result, "fail"} /\ Out' = Out
      BY <2>0, <2>2 DEF Out, Finish, NoPacketOut
    <3> QED BY <3>1, <2>0, <2>2, <1>0, Stutters, Ends
            DEF Promise!Next, NoPacketOut
  <2>3. ASSUME NEW ok \in BOOLEAN, PacketOut("tail", ok), UNCHANGED <<pc, result>>
        PROVE  Promise!Next
    BY <2>0, <2>3, <1>0, Delivers
  <2>4. CASE /\ HasPacket /\ fetched' = fetched + 1
             /\ Finish("fail") /\ NoPacketOut
    <3>1. result' \in {result, "fail"}
      BY <2>4 DEF Finish
    <3> QED BY <3>1, <2>0, <2>4, <1>0, Loses
  <2>5. ReceiveError /\ Finish("fail") /\ NoPacketOut
          => [Promise!Next]_(Promise!transferVars)
    BY <2>2, <2>4 DEF ReceiveError
  <2> QED BY <2>1, <2>2, <2>3, <2>5, <1>4 DEF TailOne
<1>5. CASE EncoderWorks \/ EncoderBlank
  <2>1. UNCHANGED <<result, port, pulled, fetched, written, framesIn>>
    BY <1>5 DEF EncoderWorks, EncoderBlank, runVars
  <2>2. Out' = Out
    BY <2>1 DEF Out
  <2> QED BY <2>1, <2>2, <1>0, Stutters
<1>6. CASE Outside
  <2>1. UNCHANGED <<result, fetched, written, framesIn>>
    BY <1>6 DEF Outside, RequestStop, PullOutput, encVars
  <2>2. Out' = Out
    <3>1. CASE RequestStop
      BY <3>1 DEF RequestStop, Out
    <3>2. CASE PullOutput
      <4>1. /\ port \in Seq(1 .. Last) /\ pulled \in Seq(1 .. Last) /\ port # <<>>
            /\ pulled' = Append(pulled, Head(port)) /\ port' = Tail(port)
        BY <3>2, <1>0 DEF PullOutput, Types, EncTypeOK
      <4> QED BY <4>1, PullKeepsOut DEF Out
    <3> QED BY <3>1, <3>2, <1>6 DEF Outside
  <2> QED BY <2>1, <2>2, <1>0, Stutters
<1> QED BY <1>1, <1>2, <1>3, <1>4, <1>5, <1>6 DEF EncoderStep, EncodeStep

LEMMA TranscodePromises ==
  ASSUME IInv, TranscodeStep
  PROVE  [Promise!Next]_(Promise!transferVars)
<1>0. /\ template = "transcode" /\ UNCHANGED template /\ Types /\ DecLine
      /\ \A x \in 1 .. Last + 1 : x <= Last => x \in 1 .. Last
  BY RunAssumption DEF TranscodeStep, IInv, SourceInv
<1>1. CASE T!ReceiveFrame
  <2>1. /\ pc = "receive" /\ dec.ready # <<>> /\ framesIn' = framesIn + 1
        /\ UNCHANGED <<result, port, pulled, fetched, written, sent>>
    BY <1>1 DEF T!ReceiveFrame, T!HasFrame
  <2>2. framesIn + 1 <= Len(sent)
    <3>1. /\ Len(dec.ready) \in Nat /\ Len(dec.ready) # 0
          /\ Len(dec.pending) \in Nat /\ framesIn \in Nat
      BY <1>0, <2>1, DecTypes
    <3>2. Len(sent) = framesIn + Len(dec.ready) + Len(dec.pending)
      BY <1>0 DEF DecLine
    <3>3. \A a, b, c \in Nat : b # 0 => a + 1 <= a + b + c
      OBVIOUS
    <3> QED BY <3>1, <3>2, <3>3
  <2>3. Out' = Out
    BY <2>1 DEF Out
  <2> QED BY <2>1, <2>2, <2>3, <1>0, Accepts DEF Promise!Next
<1>2. CASE ~T!ReceiveFrame
  <2>1. /\ result' \in {result, "fail"} /\ pc # "done"
        /\ UNCHANGED <<port, pulled, fetched, written, framesIn>>
        /\ UNCHANGED sent \/ (sent' = Append(sent, next) /\ next <= Last)
    <3>1. CASE FeedStep /\ UNCHANGED encVars
      BY <3>1 DEF FeedStep, FeedPacket, FeedEof, FeedFails, FeedNothing,
         ReceiveFails, Finish, encVars, decVars
    <3>2. CASE T!StopSeen \/ T!ReceiveNothing \/ T!ReceiveEnd
      BY <3>2 DEF T!StopSeen, T!ReceiveNothing, T!ReceiveEnd, T!encVars, T!decVars
    <3>3. CASE T!Scale \/ T!DecoderWorks
      BY <3>3 DEF T!Scale, T!DecoderWorks, T!Finish, T!decVars, T!encVars, T!runVars
    <3> QED BY <3>1, <3>2, <3>3, <1>2 DEF TranscodeStep
  <2>2. SentGrows
    BY <2>1, <1>0 DEF SentGrows, Types, DecTypeOK
  <2>3. Out' = Out
    BY <2>1 DEF Out
  <2> QED BY <2>1, <2>2, <2>3, <1>0, Stutters, Ends DEF Promise!Next
<1> QED BY <1>1, <1>2

LEMMA EncodeFilePromises ==
  ASSUME IInv, EncodeFileStep
  PROVE  [Promise!Next]_(Promise!transferVars)
<1>0. /\ template = "encode" /\ UNCHANGED <<template, sent>> /\ SentGrows
      /\ pc = "head" /\ UNCHANGED <<result, port, pulled, fetched, written>>
      /\ next = framesIn + 1
  BY DEF EncodeFileStep, E!StopSeen, E!LoadEof, E!LoadFails, E!LoadFrame, E!ScaleFails,
     E!encVars, SentGrows, IInv, SourceInv
<1>1. Out' = Out
  BY <1>0 DEF Out
<1>2. \/ UNCHANGED framesIn
      \/ framesIn' = framesIn + 1 /\ next <= Last
  BY DEF EncodeFileStep, E!StopSeen, E!LoadEof, E!LoadFails, E!LoadFrame, E!ScaleFails,
     E!encVars
<1> QED BY <1>0, <1>1, <1>2, Stutters, Accepts DEF Promise!Next

(* A run is a transfer: whatever is refused, retried, lost or failing, and *)
(* whoever stops it, file and port get the frames counted in, in their     *)
(* order and each at most once, and RKVC_OK comes only when the encoder    *)
(* has given a packet for each of them and its delivery was tried; the     *)
(* delivery fails when a write does, and when the encoder's node loses the *)
(* packet (session.c:406-527, 672-753, node_svt_enc.c:254-267).            *)
THEOREM RunIsTransfer == FairSpec => IsTransfer
<1>1. Init => Promise!Init
  <2> SUFFICES ASSUME Init PROVE Promise!Init
    OBVIOUS
  <2>1. /\ written = <<>> /\ fetched = 0 /\ framesIn = 0 /\ result = "none"
        /\ port = <<>> /\ pulled = <<>> /\ sent = <<>>
    BY DEF Init, T!Init, T!RunInit, T!EncInit, T!DecInit
  <2>2. Accepted = <<>> /\ Out = <<>>
    <3>1. Len(Accepted) = 0 /\ Accepted \in Seq(Nat)
      BY <2>1, InitHolds, AcceptedFacts DEF IInv
    <3> QED BY <3>1, <2>1 DEF Out
  <2> QED BY <2>1, <2>2 DEF Promise!Init, Accepted, Out
<1>2. IInv /\ [Next]_vars => [Promise!Next]_(Promise!transferVars)
  <2> SUFFICES ASSUME IInv, [Next]_vars
               PROVE  [Promise!Next]_(Promise!transferVars)
    OBVIOUS
  <2>1. CASE UNCHANGED vars
    BY <2>1 DEF vars, runVars, encVars, decVars, Promise!transferVars
  <2> QED BY <2>1, NextCases, EncoderPromises, TranscodePromises, EncodeFilePromises
<1> QED BY <1>1, <1>2, Invariant, PTL DEF FairSpec, IsTransfer, Promise!Spec

-----------------------------------------------------------------------------
(* The encoder is told the end of its input at the flush, never before;    *)
(* when it could not be told, then because the call failed or because      *)
(* SVT-AV1 was full.                                                       *)
Told ==
  /\ pc \notin {"tail", "done"} => ~enc.eos
  /\ pc = "tail" /\ ~Untold => enc.eos
  /\ backend = "mpp" => answer # "refused"

(* The call whose answer session.c:506-511 and 729-734 ignore is never     *)
(* refused by RKMPP, for the loop has read it empty before; so the final   *)
(* loop waits for an end that does not come only after a call that failed  *)
(* or with an SVT-AV1 that was full.                                       *)
THEOREM EncoderTold == FairSpec => []Told
<1>1. IInv => Told
  BY DEF IInv, Flags, Told
<1> QED BY <1>1, Invariant, PTL

LEMMA EncTypes ==
  ASSUME Types
  PROVE  /\ enc \in [pending : Seq(Nat), ready : Seq(Nat), settled : BOOLEAN,
                     eos : BOOLEAN]
         /\ Len(enc.ready) \in Nat /\ Len(enc.pending) \in Nat
         /\ port \in Seq(1 .. Last) /\ Len(port) \in Nat /\ Len(port) <= PortDepth
         /\ blanks \in Nat /\ MaxBlanks \in Nat /\ Last \in Nat
<1>1. /\ enc \in [pending : Seq(Nat), ready : Seq(Nat), settled : BOOLEAN,
                  eos : BOOLEAN]
      /\ port \in Seq(1 .. Last) /\ Len(port) <= PortDepth
      /\ blanks \in Nat /\ MaxBlanks \in Nat /\ Last \in Nat
  BY RunAssumption, EncodeAssumption DEF Types, EncTypeOK, CodecType
<1> QED BY <1>1

(* The sizes of the parts of Work, as integers.                            *)
LEMMA WorkParts ==
  ASSUME Types
  PROVE  Feeding \in Int /\ Coding \in Int /\ StepsFrom \in 0 .. 10
<1>1. Feeding \in Int
  <2> DEFINE e == IF dec.eos THEN 0 ELSE 1
  <2>1. e \in Int
    OBVIOUS
  <2>2. Feeding = 13 * (Last + 1 - next) + 9 * Len(dec.pending) + 8 * Len(dec.ready) + e
    BY DEF Feeding
  <2> HIDE DEF e
  <2> QED BY <2>1, <2>2, DecTypes, EncTypes
<1>2. Coding \in Int
  BY EncTypes DEF Coding
<1>3. StepsFrom \in 0 .. 10
  BY DEF Types, StepsFrom
<1> QED BY <1>1, <1>2, <1>3

(* There is only so much work.                                             *)
LEMMA WorkIsNat ==
  ASSUME Types
  PROVE  Work \in Nat
<1> DEFINE e == IF dec.eos THEN 0 ELSE 1
           w == IF stop THEN 0 ELSE 1
           p == Len(dec.pending)
           r == Len(dec.ready)
           y == Len(enc.pending)
           z == Len(enc.ready)
           u == Len(port)
<1>1. /\ p \in Nat /\ r \in Nat /\ y \in Nat /\ z \in Nat /\ u \in Nat
      /\ e \in Nat /\ w \in Nat /\ Last \in Nat /\ MaxBlanks \in Nat
      /\ next \in 1 .. Last + 1 /\ blanks \in 0 .. MaxBlanks /\ StepsFrom \in Nat
  <2>1. e \in Nat /\ w \in Nat
    OBVIOUS
  <2>2. next \in 1 .. Last + 1 /\ blanks \in 0 .. MaxBlanks
    BY DEF Types, DecTypeOK, EncTypeOK
  <2>3. StepsFrom \in Nat
    BY WorkParts
  <2> HIDE DEF e, w
  <2> QED BY <2>1, <2>2, <2>3, DecTypes, EncTypes
<1>2. Feeding = 13 * (Last + 1 - next) + 9 * p + 8 * r + e
  BY DEF Feeding
<1>3. Coding = 3 * (MaxBlanks - blanks) + 3 * y + 2 * z + u
  BY DEF Coding
<1>4. Work = Feeding + Coding + StepsFrom + w
  BY DEF Work
<1> HIDE DEF e, w, p, r, y, z, u
<1>5. Feeding \in Nat
  <2>1. Last + 1 - next \in Nat
    BY <1>1
  <2> QED BY <2>1, <1>1, <1>2
<1>6. Coding \in Nat
  <2>1. MaxBlanks - blanks \in Nat
    BY <1>1
  <2> QED BY <2>1, <1>1, <1>3
<1> QED BY <1>1, <1>4, <1>5, <1>6

(* What a codec holds after a step of it.                                  *)
LEMMA CodecSizes ==
  ASSUME NEW c \in [pending : Seq(Nat), ready : Seq(Nat), settled : BOOLEAN,
                    eos : BOOLEAN], NEW x \in Nat
  PROVE  /\ Len(c.pending) \in Nat /\ Len(c.ready) \in Nat
         /\ Len(Took(c, x).pending) = Len(c.pending) + 1
         /\ Took(c, x).ready = c.ready /\ Took(c, x).eos = c.eos
         /\ c.pending # <<>> =>
              /\ Len(Made(c).pending) = Len(c.pending) - 1
              /\ Len(Made(c).ready) = Len(c.ready) + 1 /\ Made(c).eos = c.eos
         /\ c.ready # <<>> =>
              /\ Len(Gave(c).ready) = Len(c.ready) - 1
              /\ Gave(c).pending = c.pending /\ Gave(c).eos = c.eos
<1>1. /\ Took(c, x).pending = Append(c.pending, x)
      /\ Took(c, x).ready = c.ready /\ Took(c, x).eos = c.eos
  BY DEF Took
<1>2. /\ Made(c).pending = Tail(c.pending)
      /\ Made(c).ready = Append(c.ready, Head(c.pending))
      /\ Made(c).eos = c.eos
  BY DEF Made
<1>3. /\ Gave(c).pending = c.pending /\ Gave(c).ready = Tail(c.ready)
      /\ Gave(c).eos = c.eos
  BY DEF Gave
<1> QED BY <1>1, <1>2, <1>3

(* How the parts of Work change with the sizes they count.                 *)
LEMMA FeedingSteps ==
  ASSUME Types
  PROVE  /\ next' = next + 1 /\ dec' = Took(dec, next) => Feeding' = Feeding - 4
         /\ next' = next + 1 /\ UNCHANGED dec => Feeding' = Feeding - 13
         /\ UNCHANGED next /\ ~dec.eos /\ dec' = [dec EXCEPT !.eos = TRUE] =>
              Feeding' = Feeding - 1
         /\ UNCHANGED next /\ dec.ready # <<>> /\ dec' = Gave(dec) =>
              Feeding' = Feeding - 8
         /\ UNCHANGED next /\ dec.pending # <<>> /\ dec' = Made(dec) =>
              Feeding' = Feeding - 1
<1> DEFINE e == IF dec.eos THEN 0 ELSE 1
           n == next
           y == Len(dec.pending)
           z == Len(dec.ready)
           f == Feeding
<1>0. /\ dec \in [pending : Seq(Nat), ready : Seq(Nat), settled : BOOLEAN,
                   eos : BOOLEAN]
      /\ next \in Nat /\ dec.eos \in BOOLEAN
  <2>1. \A t \in Seq(1 .. Last) : t \in Seq(Nat)
    BY RunAssumption
  <2>2. /\ dec \in [pending : Seq(1 .. Last), ready : Seq(1 .. Last),
                     settled : BOOLEAN, eos : BOOLEAN]
        /\ next \in Nat
    BY DecTypes DEF Types, DecTypeOK, CodecType
  <2> QED BY <2>1, <2>2
<1>i. /\ Last \in Int /\ n \in Int /\ y \in Int /\ z \in Int /\ e \in Int
      /\ f = 13 * (Last + 1 - n) + 9 * y + 8 * z + e
  BY <1>0, EncTypes, DecTypes DEF Feeding
<1>1. ASSUME next' = next + 1, dec' = Took(dec, next)
      PROVE  Feeding' = Feeding - 4
  <2>1. Len(dec'.pending) = y + 1 /\ dec'.ready = dec.ready /\ dec'.eos = dec.eos
    BY <1>0, <1>1, CodecSizes
  <2>2. Feeding' = 13 * (Last + 1 - (n + 1)) + 9 * (y + 1) + 8 * z + e
    BY <2>1, <1>1 DEF Feeding
  <2>3. 13 * (Last + 1 - (n + 1)) + 9 * (y + 1) + 8 * z + e = f - 4
    <3> HIDE DEF e, n, y, z, f
    <3> QED BY <1>i
  <2> QED BY <2>2, <2>3
<1>2. ASSUME next' = next + 1, UNCHANGED dec
      PROVE  Feeding' = Feeding - 13
  <2>2. Feeding' = 13 * (Last + 1 - (n + 1)) + 9 * y + 8 * z + e
    BY <1>2 DEF Feeding
  <2>3. 13 * (Last + 1 - (n + 1)) + 9 * y + 8 * z + e = f - 13
    <3> HIDE DEF e, n, y, z, f
    <3> QED BY <1>i
  <2> QED BY <2>2, <2>3
<1>3. ASSUME UNCHANGED next, ~dec.eos, dec' = [dec EXCEPT !.eos = TRUE]
      PROVE  Feeding' = Feeding - 1
  <2>1. dec'.pending = dec.pending /\ dec'.ready = dec.ready /\ dec'.eos = TRUE
    BY <1>0, <1>3
  <2>2. Feeding' = 13 * (Last + 1 - n) + 9 * y + 8 * z + 0
    BY <2>1, <1>3 DEF Feeding
  <2>3. e = 1
    BY <1>3
  <2>4. 13 * (Last + 1 - n) + 9 * y + 8 * z + 0 = f - 1
    <3> HIDE DEF e, n, y, z, f
    <3> QED BY <1>i, <2>3
  <2> QED BY <2>2, <2>4
<1>4. ASSUME UNCHANGED next, dec.ready # <<>>, dec' = Gave(dec)
      PROVE  Feeding' = Feeding - 8
  <2>1. Len(dec'.ready) = z - 1 /\ dec'.pending = dec.pending /\ dec'.eos = dec.eos
    <3>1. /\ Len(Gave(dec).ready) = z - 1 /\ Gave(dec).pending = dec.pending
          /\ Gave(dec).eos = dec.eos
      BY <1>0, <1>4, CodecSizes
    <3> QED BY <3>1, <1>4
  <2>2. Feeding' = 13 * (Last + 1 - n) + 9 * y + 8 * (z - 1) + e
    BY <2>1, <1>4 DEF Feeding
  <2>3. 13 * (Last + 1 - n) + 9 * y + 8 * (z - 1) + e = f - 8
    <3> HIDE DEF e, n, y, z, f
    <3> QED BY <1>i
  <2> QED BY <2>2, <2>3
<1>5. ASSUME UNCHANGED next, dec.pending # <<>>, dec' = Made(dec)
      PROVE  Feeding' = Feeding - 1
  <2>1. /\ Len(dec'.pending) = y - 1 /\ Len(dec'.ready) = z + 1
        /\ dec'.eos = dec.eos
    <3>1. /\ Len(Made(dec).pending) = y - 1 /\ Len(Made(dec).ready) = z + 1
          /\ Made(dec).eos = dec.eos
      BY <1>0, <1>5, CodecSizes
    <3> QED BY <3>1, <1>5
  <2>2. Feeding' = 13 * (Last + 1 - n) + 9 * (y - 1) + 8 * (z + 1) + e
    BY <2>1, <1>5 DEF Feeding
  <2>3. 13 * (Last + 1 - n) + 9 * (y - 1) + 8 * (z + 1) + e = f - 1
    <3> HIDE DEF e, n, y, z, f
    <3> QED BY <1>i
  <2> QED BY <2>2, <2>3
<1> QED BY <1>1, <1>2, <1>3, <1>4, <1>5

LEMMA CodingSteps ==
  ASSUME Types
  PROVE  /\ UNCHANGED <<blanks, port>> /\ enc' = Took(enc, work) =>
              Coding' = Coding + 3
         /\ UNCHANGED <<blanks, port>> /\ enc.pending # <<>> /\ enc' = Made(enc) =>
              Coding' = Coding - 1
         /\ UNCHANGED port /\ blanks' = blanks + 1
              /\ enc' = [enc EXCEPT !.ready = Append(@, 0)] =>
              Coding' = Coding - 1
         /\ enc.ready # <<>> /\ UNCHANGED <<blanks, port>> /\ enc' = Gave(enc) =>
              Coding' = Coding - 2
         /\ enc.ready # <<>> /\ UNCHANGED blanks /\ enc' = Gave(enc)
              /\ Len(port') = Len(port) + 1 =>
              Coding' = Coding - 1
         /\ UNCHANGED <<blanks, enc>> /\ Len(port') = Len(port) - 1 =>
              Coding' = Coding - 1
         /\ UNCHANGED <<blanks, port>> /\ enc'.ready = enc.ready
              /\ enc'.pending = enc.pending =>
              Coding' = Coding
<1>0. /\ enc \in [pending : Seq(Nat), ready : Seq(Nat), settled : BOOLEAN,
                   eos : BOOLEAN]
      /\ work \in Nat /\ Coding \in Int /\ blanks \in Int /\ Len(port) \in Int
  BY EncTypes, WorkParts, RunAssumption DEF Types, EncTypeOK
<1>1. /\ Len(enc.pending) \in Int /\ Len(enc.ready) \in Int
  BY EncTypes
<1> DEFINE m == MaxBlanks
           x == blanks
           y == Len(enc.pending)
           z == Len(enc.ready)
           u == Len(port)
           c == Coding
<1>i. /\ m \in Int /\ x \in Int /\ y \in Int /\ z \in Int /\ u \in Int
      /\ c = 3 * (m - x) + 3 * y + 2 * z + u
  BY <1>0, <1>1, EncTypes DEF Coding
<1>2. ASSUME UNCHANGED <<blanks, port>>, enc' = Took(enc, work)
      PROVE  Coding' = Coding + 3
  <2>1. /\ Len(enc'.pending) = y + 1 /\ enc'.ready = enc.ready
    BY <1>0, <1>2, CodecSizes
  <2>2. Coding' = 3 * (m - x) + 3 * (y + 1) + 2 * z + u
    BY <2>1, <1>2 DEF Coding
  <2>3. 3 * (m - x) + 3 * (y + 1) + 2 * z + u = c + 3
    <3> HIDE DEF m, x, y, z, u, c
    <3> QED BY <1>i
  <2> QED BY <2>2, <2>3
<1>3. ASSUME UNCHANGED <<blanks, port>>, enc.pending # <<>>, enc' = Made(enc)
      PROVE  Coding' = Coding - 1
  <2>1. Len(enc'.pending) = y - 1 /\ Len(enc'.ready) = z + 1
    <3>1. Len(Made(enc).pending) = y - 1 /\ Len(Made(enc).ready) = z + 1
      BY <1>0, <1>3, CodecSizes
    <3> QED BY <3>1, <1>3
  <2>2. Coding' = 3 * (m - x) + 3 * (y - 1) + 2 * (z + 1) + u
    BY <2>1, <1>3 DEF Coding
  <2>3. 3 * (m - x) + 3 * (y - 1) + 2 * (z + 1) + u = c - 1
    <3> HIDE DEF m, x, y, z, u, c
    <3> QED BY <1>i
  <2> QED BY <2>2, <2>3
<1>4. ASSUME UNCHANGED port, blanks' = blanks + 1,
             enc' = [enc EXCEPT !.ready = Append(@, 0)]
      PROVE  Coding' = Coding - 1
  <2>1. enc'.ready = Append(enc.ready, 0) /\ enc'.pending = enc.pending
    BY <1>0, <1>4
  <2>2. Len(enc'.ready) = z + 1
    BY <2>1, <1>0
  <2>3. Coding' = 3 * (m - (x + 1)) + 3 * y + 2 * (z + 1) + u
    BY <2>1, <2>2, <1>4 DEF Coding
  <2>4. 3 * (m - (x + 1)) + 3 * y + 2 * (z + 1) + u = c - 1
    <3> HIDE DEF m, x, y, z, u, c
    <3> QED BY <1>i
  <2> QED BY <2>3, <2>4
<1>5. ASSUME enc.ready # <<>>, enc' = Gave(enc)
      PROVE  Len(enc'.ready) = z - 1 /\ enc'.pending = enc.pending
  <2>1. Len(Gave(enc).ready) = z - 1 /\ Gave(enc).pending = enc.pending
    BY <1>0, <1>5, CodecSizes
  <2> QED BY <2>1, <1>5
<1>6. ASSUME UNCHANGED <<blanks, enc>>, Len(port') = Len(port) - 1
      PROVE  Coding' = Coding - 1
  <2>1. Coding' = 3 * (m - x) + 3 * y + 2 * z + (u - 1)
    BY <1>6 DEF Coding
  <2>2. 3 * (m - x) + 3 * y + 2 * z + (u - 1) = c - 1
    <3> HIDE DEF m, x, y, z, u, c
    <3> QED BY <1>i
  <2> QED BY <2>1, <2>2
<1>7. ASSUME UNCHANGED <<blanks, port>>, enc'.ready = enc.ready,
             enc'.pending = enc.pending
      PROVE  Coding' = Coding
  BY <1>7 DEF Coding
<1>8. ASSUME enc.ready # <<>>, UNCHANGED <<blanks, port>>, enc' = Gave(enc)
      PROVE  Coding' = Coding - 2
  <2>1. Coding' = 3 * (m - x) + 3 * y + 2 * (z - 1) + u
    BY <1>5, <1>8 DEF Coding
  <2>2. 3 * (m - x) + 3 * y + 2 * (z - 1) + u = c - 2
    <3> HIDE DEF m, x, y, z, u, c
    <3> QED BY <1>i
  <2> QED BY <2>1, <2>2
<1>9. ASSUME enc.ready # <<>>, UNCHANGED blanks, enc' = Gave(enc),
             Len(port') = Len(port) + 1
      PROVE  Coding' = Coding - 1
  <2>1. Coding' = 3 * (m - x) + 3 * y + 2 * (z - 1) + (u + 1)
    BY <1>5, <1>9 DEF Coding
  <2>2. 3 * (m - x) + 3 * y + 2 * (z - 1) + (u + 1) = c - 1
    <3> HIDE DEF m, x, y, z, u, c
    <3> QED BY <1>i
  <2> QED BY <2>1, <2>2
<1> QED BY <1>2, <1>3, <1>4, <1>6, <1>7, <1>8, <1>9

(* The work that is left goes down.                                        *)
LEMMA WorkFalls ==
  ASSUME Types, UNCHANGED stop,
         Feeding' \in Int, Coding' \in Int, StepsFrom' \in Int
  PROVE  /\ Feeding' + Coding' + StepsFrom' < Feeding + Coding + StepsFrom =>
              Work' < Work
         /\ Feeding' + Coding' + StepsFrom' = Feeding + Coding + StepsFrom =>
              Work' = Work
<1> DEFINE w == IF stop THEN 0 ELSE 1
           f == Feeding'
           c == Coding'
           t == StepsFrom'
<1>2. /\ Feeding \in Int /\ Coding \in Int /\ StepsFrom \in Int /\ w \in Int
      /\ f \in Int /\ c \in Int /\ t \in Int
  BY WorkParts
<1>3. Work' = f + c + t + w
  BY DEF Work
<1>4. Work = Feeding + Coding + StepsFrom + w
  BY DEF Work
<1>5. /\ f + c + t < Feeding + Coding + StepsFrom => Work' < Work
      /\ f + c + t = Feeding + Coding + StepsFrom => Work' = Work
  <2> HIDE DEF w, f, c, t
  <2> QED BY <1>2, <1>3, <1>4
<1> QED BY <1>5

LEMMA PacketCodes ==
  ASSUME Types, UNCHANGED blanks, NEW where \in {"loop", "tail"},
         NEW ok \in BOOLEAN, PacketOut(where, ok)
  PROVE  Coding' \in {Coding - 2, Coding - 1}
<1>0. /\ enc.ready # <<>> /\ enc' = Gave(enc)
      /\ port' = IF Len(port) < PortDepth THEN Append(port, Head(enc.ready)) ELSE port
  BY DEF PacketOut, PushOutput, HasPacket
<1>1. CASE Len(port) < PortDepth
  <2>1. Len(port') = Len(port) + 1
    BY <1>0, <1>1, EncTypes
  <2>2. Coding' = Coding - 1
    BY <2>1, <1>0, CodingSteps
  <2> QED BY <2>2
<1>2. CASE ~(Len(port) < PortDepth)
  <2>1. Coding' = Coding - 2
    BY <1>0, <1>2, CodingSteps
  <2> QED BY <2>1
<1> QED BY <1>1, <1>2

(* A receive that fails gave nothing, or a packet that is lost.            *)
LEMMA ReceiveErrorCases ==
  ASSUME ReceiveError
  PROVE  UNCHANGED enc \/ (HasPacket /\ enc' = Gave(enc))
<1>1. CASE UNCHANGED <<enc, fetched>>
  BY <1>1
<1>2. CASE HasPacket /\ enc' = Gave(enc)
  BY <1>2
<1> QED BY <1>1, <1>2 DEF ReceiveError

LEMMA EncoderProgress ==
  ASSUME IInv, EncoderStep
  PROVE  Work' < Work \/ ((Retrying \/ Untold) /\ Work' = Work)
<1>0. /\ Types /\ UNCHANGED <<next, dec>> /\ Feeding' = Feeding
      /\ Feeding \in Int /\ Coding \in Int /\ StepsFrom \in Int
  BY WorkParts DEF IInv, EncoderStep, decVars, Feeding
<1>1. CASE SendFrame
  <2>0. pc = "send" /\ StepsFrom = 9 /\ UNCHANGED <<stop, blanks, port>>
    BY <1>1 DEF SendFrame, StepsFrom
  <2>1. CASE EncAccepts /\ enc' = Took(enc, work) /\ pc' = "drain" /\ site' = "sent"
    <3>1. Coding' = Coding + 3
      BY <2>0, <2>1, <1>0, CodingSteps
    <3>2. StepsFrom' = 5
      BY <2>1 DEF StepsFrom
    <3> QED BY <3>1, <3>2, <2>0, <1>0, WorkFalls
  <2>2. CASE /\ EncRefuses /\ pc' = "drain" /\ UNCHANGED enc
             /\ site' = IF backend = "mpp" THEN "sent" ELSE "retry"
    <3>1. Coding' = Coding
      BY <2>0, <2>2 DEF Coding
    <3>2. CASE backend = "mpp"
      <4>1. StepsFrom' = 5
        BY <2>2, <3>2 DEF StepsFrom
      <4> QED BY <4>1, <3>1, <2>0, <1>0, WorkFalls
    <3>3. CASE backend # "mpp"
      <4>1. StepsFrom' = 9
        BY <2>2, <3>3 DEF StepsFrom
      <4>2. Retrying
        BY <2>0, <2>2, <3>3, <1>0, EncodeAssumption
           DEF Retrying, EncRefuses, Types, EncTypeOK
      <4> QED BY <4>1, <4>2, <3>1, <2>0, <1>0, WorkFalls
    <3> QED BY <3>2, <3>3
  <2>3. CASE EncodeReturns("fail") /\ UNCHANGED enc
    <3>1. Coding' = Coding
      BY <2>0, <2>3 DEF Coding
    <3>2. StepsFrom' = 0
      BY <2>3 DEF EncodeReturns, Finish, StepsFrom
    <3> QED BY <3>1, <3>2, <2>0, <1>0, WorkFalls
  <2> QED BY <2>1, <2>2, <2>3, <1>1 DEF SendFrame
<1>2. CASE DrainOne
  <2>0. pc = "drain" /\ UNCHANGED <<stop, blanks, site>>
    BY <1>2 DEF DrainOne
  <2>1. StepsFrom = IF site = "retry" THEN 9 ELSE 5
    BY <2>0 DEF StepsFrom
  <2>2. ASSUME NEW r \in {"ok", "fail"}, DrainReturns(r)
        PROVE  /\ StepsFrom' \in Int
               /\ \/ StepsFrom' < StepsFrom
                  \/ Retrying /\ r = "ok" /\ StepsFrom' = StepsFrom
    <3>1. CASE pc' = "head"
      <4>1. StepsFrom' = IF dec.eos THEN 4 ELSE 3
        BY <3>1, <1>0 DEF StepsFrom
      <4> QED BY <4>1, <2>1
    <3>2. CASE pc' = "done"
      <4>1. StepsFrom' = 0
        BY <3>2 DEF StepsFrom
      <4> QED BY <4>1, <2>1
    <3>3. CASE site = "retry" /\ r = "ok" /\ pc' = "send"
      <4>1. StepsFrom' = 9
        BY <3>3 DEF StepsFrom
      <4>2. Retrying
        BY <3>3, <2>0, <1>0, EncodeAssumption
           DEF Retrying, IInv, Flags, Types, EncTypeOK
      <4> QED BY <4>1, <4>2, <3>3, <2>1
    <3> QED BY <3>1, <3>2, <3>3, <2>2, <1>0, DrainReturnsCases
  <2>3. CASE ReceiveAgain /\ DrainReturns("ok") /\ UNCHANGED port
    <3>1. CASE Nothing /\ enc' = [enc EXCEPT !.settled = TRUE]
      <4>1. enc'.ready = enc.ready /\ enc'.pending = enc.pending
        BY <3>1, <1>0, EncTypes
      <4>2. Coding' = Coding
        BY <4>1, <2>0, <2>3, <1>0, CodingSteps
      <4> QED BY <4>2, <2>0, <2>2, <2>3, <1>0, WorkFalls
    <3>2. CASE HasBlank /\ enc' = Gave(enc)
      <4>1. Coding' = Coding - 2
        BY <3>2, <2>0, <2>3, <1>0, CodingSteps DEF HasBlank
      <4> QED BY <4>1, <2>0, <2>2, <2>3, <1>0, WorkFalls
    <3> QED BY <3>1, <3>2, <2>3 DEF ReceiveAgain
  <2>4. CASE DrainReturns("fail") /\ UNCHANGED <<enc, port>>
    <3>1. Coding' = Coding
      BY <2>0, <2>4 DEF Coding
    <3> QED BY <3>1, <2>0, <2>2, <2>4, <1>0, WorkFalls
  <2>5. ASSUME NEW ok \in BOOLEAN, PacketOut("loop", ok),
               UNCHANGED pc \/ DrainReturns("fail")
        PROVE  Work' < Work
    <3>1. Coding' \in {Coding - 2, Coding - 1}
      BY <2>0, <2>5, <1>0, PacketCodes
    <3>2. StepsFrom' \in Int /\ StepsFrom' <= StepsFrom
      <4>1. CASE UNCHANGED pc
        <5>1. StepsFrom' = StepsFrom
          BY <4>1, <2>0, <1>0 DEF StepsFrom
        <5> QED BY <5>1, <1>0
      <4>2. CASE DrainReturns("fail")
        BY <4>2, <2>2, <1>0
      <4> QED BY <4>1, <4>2, <2>5
    <3>3. ASSUME NEW d \in {1, 2}, Coding' = Coding - d
          PROVE  Work' < Work
      <4> DEFINE t == StepsFrom'
      <4>1. Feeding + (Coding - d) + t < Feeding + Coding + StepsFrom
        <5>1. t \in Int /\ t <= StepsFrom
          BY <3>2
        <5> HIDE DEF t
        <5> QED BY <5>1, <3>3, <1>0
      <4>2. Coding' \in Int
        BY <3>3, <1>0
      <4> QED BY <4>1, <4>2, <3>2, <3>3, <2>0, <1>0, WorkFalls
    <3> QED BY <3>1, <3>3
  <2>6. CASE HasPacket /\ enc' = Gave(enc) /\ DrainReturns("fail") /\ UNCHANGED port
    <3>1. Coding' = Coding - 2
      BY <2>0, <2>6, <1>0, CodingSteps DEF HasPacket
    <3> QED BY <3>1, <2>0, <2>2, <2>6, <1>0, WorkFalls
  <2>7. ASSUME ReceiveError, DrainReturns("fail"), NoPacketOut
        PROVE  Work' < Work \/ ((Retrying \/ Untold) /\ Work' = Work)
    <3>1. UNCHANGED port /\ (UNCHANGED enc \/ (HasPacket /\ enc' = Gave(enc)))
      BY <2>7, ReceiveErrorCases DEF NoPacketOut
    <3> QED BY <3>1, <2>4, <2>6, <2>7
  <2>8. ReceiveAgain /\ DrainReturns("ok") /\ NoPacketOut =>
          Work' < Work \/ ((Retrying \/ Untold) /\ Work' = Work)
    BY <2>3 DEF NoPacketOut
  <2> QED BY <2>5, <2>7, <2>8, <1>2 DEF DrainOne
<1>3. CASE FlushEncoder
  <2>1. /\ StepsFrom = 2 /\ StepsFrom' = 1 /\ UNCHANGED <<stop, blanks, port>>
        /\ enc'.ready = enc.ready /\ enc'.pending = enc.pending
    BY <1>0, <1>3, EncTypes DEF FlushEncoder, StepsFrom
  <2>2. Coding' = Coding
    BY <2>1 DEF Coding
  <2> QED BY <2>1, <2>2, <1>0, WorkFalls
<1>4. CASE TailOne
  <2>0. pc = "tail" /\ StepsFrom = 1 /\ UNCHANGED <<stop, blanks>>
    BY <1>4 DEF TailOne, StepsFrom
  <2>1. ASSUME \E r : Finish(r), UNCHANGED <<enc, port>>
        PROVE  Work' < Work
    <3>1. Coding' = Coding /\ StepsFrom' = 0
      BY <2>0, <2>1 DEF Coding, Finish, StepsFrom
    <3> QED BY <3>1, <2>0, <1>0, WorkFalls
  <2>2. CASE HasBlank /\ enc' = Gave(enc) /\ UNCHANGED <<pc, port>>
    <3>1. Coding' = Coding - 2
      BY <2>0, <2>2, <1>0, CodingSteps DEF HasBlank
    <3>2. StepsFrom' = 1
      BY <2>0, <2>2 DEF StepsFrom
    <3> QED BY <3>1, <3>2, <2>0, <1>0, WorkFalls
  <2>3. ASSUME NEW ok \in BOOLEAN, PacketOut("tail", ok), UNCHANGED pc
        PROVE  Work' < Work
    <3>1. Coding' \in {Coding - 2, Coding - 1}
      BY <2>0, <2>3, <1>0, PacketCodes
    <3>2. StepsFrom' = 1
      BY <2>0, <2>3 DEF StepsFrom
    <3>3. CASE Coding' = Coding - 2
      BY <3>2, <3>3, <2>0, <1>0, WorkFalls
    <3>4. CASE Coding' = Coding - 1
      BY <3>2, <3>4, <2>0, <1>0, WorkFalls
    <3> QED BY <3>1, <3>3, <3>4
  <2>4. CASE HasPacket /\ enc' = Gave(enc) /\ Finish("fail") /\ UNCHANGED port
    <3>1. Coding' = Coding - 2
      BY <2>0, <2>4, <1>0, CodingSteps DEF HasPacket
    <3>2. StepsFrom' = 0
      BY <2>4 DEF StepsFrom, Finish
    <3> QED BY <3>1, <3>2, <2>0, <1>0, WorkFalls
  <2>5. CASE /\ Nothing /\ enc' = [enc EXCEPT !.settled = TRUE]
             /\ UNCHANGED <<pc, port>>
    <3>1. enc'.ready = enc.ready /\ enc'.pending = enc.pending
      BY <2>5, <1>0, EncTypes
    <3>2. Coding' = Coding /\ StepsFrom' = 1
      BY <3>1, <2>0, <2>5, <1>0, CodingSteps DEF StepsFrom
    <3>3. Untold
      BY <2>0, <2>5 DEF Nothing, IInv, Flags
    <3> QED BY <3>2, <3>3, <2>0, <1>0, WorkFalls
  <2>6. AtEnd /\ Finish("ok") /\ NoPacketOut /\ UNCHANGED <<enc, fetched>>
          => Work' < Work
    BY <2>1 DEF NoPacketOut
  <2>7. ReceiveAgain /\ NoPacketOut /\ UNCHANGED <<pc, result, fetched>> =>
          Work' < Work \/ ((Retrying \/ Untold) /\ Work' = Work)
    BY <2>2, <2>5 DEF ReceiveAgain, NoPacketOut
  <2>8. ASSUME ReceiveError, Finish("fail"), NoPacketOut
        PROVE  Work' < Work \/ ((Retrying \/ Untold) /\ Work' = Work)
    <3>1. UNCHANGED port /\ (UNCHANGED enc \/ (HasPacket /\ enc' = Gave(enc)))
      BY <2>8, ReceiveErrorCases DEF NoPacketOut
    <3>2. CASE UNCHANGED enc
      BY <3>1, <3>2, <2>1, <2>8
    <3>3. CASE HasPacket /\ enc' = Gave(enc)
      BY <3>1, <3>3, <2>4, <2>8
    <3> QED BY <3>1, <3>2, <3>3
  <2> QED BY <2>3, <2>6, <2>7, <2>8, <1>4 DEF TailOne
<1>5. CASE EncoderWorks \/ EncoderBlank
  <2>1. UNCHANGED <<pc, site, stop, port>>
    BY <1>5 DEF EncoderWorks, EncoderBlank, runVars
  <2>2. Coding' = Coding - 1
    BY <2>1, <1>0, <1>5, CodingSteps DEF EncoderWorks, EncoderBlank
  <2>3. StepsFrom' = StepsFrom
    BY <2>1, <1>0 DEF StepsFrom
  <2> QED BY <2>1, <2>2, <2>3, <1>0, WorkFalls
<1>6. CASE Outside /\ PullOutput
  <2>1. UNCHANGED <<pc, site, stop, blanks, enc>> /\ port # <<>> /\ port' = Tail(port)
    BY <1>6 DEF Outside, PullOutput, encVars
  <2>2. Len(port') = Len(port) - 1
    BY <2>1, <1>0, EncTypes
  <2>3. Coding' = Coding - 1
    BY <2>1, <2>2, <1>0, CodingSteps
  <2>4. StepsFrom' = StepsFrom
    BY <2>1, <1>0 DEF StepsFrom
  <2> QED BY <2>1, <2>3, <2>4, <1>0, WorkFalls
<1>7. CASE Outside /\ RequestStop
  <2>1. /\ UNCHANGED <<pc, site, blanks, enc, port>> /\ ~stop /\ stop'
    BY <1>7 DEF Outside, RequestStop, encVars
  <2>2. Coding' = Coding /\ StepsFrom' = StepsFrom
    BY <2>1, <1>0 DEF Coding, StepsFrom
  <2>3. Work = Feeding + Coding + StepsFrom + 1 /\ Work' = Feeding + Coding + StepsFrom + 0
    BY <2>1, <2>2, <1>0 DEF Work
  <2> QED BY <2>3, <1>0
<1> QED BY <1>1, <1>2, <1>3, <1>4, <1>5, <1>6, <1>7 DEF EncoderStep, EncodeStep, Outside

LEMMA TranscodeProgress ==
  ASSUME IInv, TranscodeStep
  PROVE  Work' < Work
<1>0. /\ Types /\ UNCHANGED <<blanks, port>> /\ Feeding \in Int /\ Coding \in Int
      /\ StepsFrom \in Int /\ DecLine /\ template = "transcode"
  <2>1. UNCHANGED <<blanks, port>>
    <3>1. CASE FeedStep /\ UNCHANGED encVars
      BY <3>1 DEF FeedStep, FeedPacket, FeedEof, FeedFails, FeedNothing,
         ReceiveFails, encVars
    <3>2. CASE T!StopSeen \/ T!ReceiveFrame \/ T!ReceiveNothing \/ T!ReceiveEnd
      BY <3>2 DEF T!StopSeen, T!ReceiveFrame, T!ReceiveNothing, T!ReceiveEnd, T!encVars
    <3>3. CASE T!Scale \/ T!DecoderWorks
      BY <3>3 DEF T!Scale, T!DecoderWorks, T!encVars, T!runVars
    <3> QED BY <3>1, <3>2, <3>3 DEF TranscodeStep
  <2> QED BY <2>1, WorkParts DEF IInv, SourceInv, TranscodeStep
<1>1. CASE T!StopSeen
  <2>1. /\ pc = "head" /\ pc' = "flush" /\ UNCHANGED <<stop, enc, dec, next>>
    BY <1>1 DEF T!StopSeen, T!encVars, T!decVars
  <2>2. Feeding' = Feeding /\ Coding' = Coding
    BY <2>1, <1>0 DEF Feeding, Coding
  <2>3. StepsFrom' = 2 /\ StepsFrom >= 3
    BY <2>1 DEF StepsFrom
  <2> QED BY <2>1, <2>2, <2>3, <1>0, WorkFalls
<1>2. CASE T!ReceiveFrame
  <2>1. /\ pc = "receive" /\ pc' = "scale" /\ UNCHANGED <<stop, enc, next>>
        /\ dec.ready # <<>> /\ dec' = Gave(dec)
    BY <1>2 DEF T!ReceiveFrame, T!HasFrame, T!Gave, Gave
  <2>2. Feeding' = Feeding - 8 /\ Coding' = Coding
    BY <2>1, <1>0, FeedingSteps DEF Coding
  <2>3. StepsFrom' = 10 /\ StepsFrom >= 3
    BY <2>1 DEF StepsFrom
  <2> QED BY <2>1, <2>2, <2>3, <1>0, WorkFalls
<1>3. CASE T!ReceiveNothing
  <2>1. /\ pc = "receive" /\ ~dec.eos /\ dec' = [dec EXCEPT !.settled = TRUE]
        /\ \/ pc' = "drain" /\ site' = "idle"
           \/ pc' = "head"
        /\ UNCHANGED <<stop, enc, next>>
    BY <1>3 DEF T!ReceiveNothing, T!NoFrameYet
  <2>2. /\ dec'.ready = dec.ready /\ dec'.pending = dec.pending
        /\ dec'.eos = dec.eos
    BY <2>1, <1>0 DEF Types, DecTypeOK, CodecType
  <2>3. Feeding' = Feeding /\ Coding' = Coding
    BY <2>1, <2>2, <1>0 DEF Feeding, Coding
  <2>4. StepsFrom = 6 /\ StepsFrom' \in {3, 5}
    BY <2>1, <2>2 DEF StepsFrom
  <2>5. CASE StepsFrom' = 3
    BY <2>1, <2>3, <2>4, <2>5, <1>0, WorkFalls
  <2>6. CASE StepsFrom' = 5
    BY <2>1, <2>3, <2>4, <2>6, <1>0, WorkFalls
  <2> QED BY <2>4, <2>5, <2>6
<1>4. CASE T!ReceiveEnd
  <2>1. /\ pc = "receive" /\ pc' = "flush" /\ dec.eos
        /\ UNCHANGED <<stop, enc, dec, next>>
    BY <1>4 DEF T!ReceiveEnd, T!NoMoreFrames, T!encVars, T!decVars
  <2>2. Feeding' = Feeding /\ Coding' = Coding
    BY <2>1, <1>0 DEF Feeding, Coding
  <2>3. StepsFrom' = 2 /\ StepsFrom = 3
    BY <2>1 DEF StepsFrom
  <2> QED BY <2>1, <2>2, <2>3, <1>0, WorkFalls
<1>5. CASE T!Scale
  <2>1. /\ pc = "scale" /\ pc' \in {"send", "done"} /\ UNCHANGED <<stop, enc, dec, next>>
    BY <1>5 DEF T!Scale, T!Finish, T!decVars
  <2>2. Feeding' = Feeding /\ Coding' = Coding
    BY <2>1, <1>0 DEF Feeding, Coding
  <2>3. StepsFrom = 10 /\ StepsFrom' \in {0, 9}
    BY <2>1 DEF StepsFrom
  <2>4. CASE StepsFrom' = 0
    BY <2>1, <2>2, <2>3, <2>4, <1>0, WorkFalls
  <2>5. CASE StepsFrom' = 9
    BY <2>1, <2>2, <2>3, <2>5, <1>0, WorkFalls
  <2> QED BY <2>3, <2>4, <2>5
<1>6. CASE T!DecoderWorks
  <2>1. /\ UNCHANGED <<pc, site, stop, enc, next>>
        /\ dec.pending # <<>> /\ dec' = Made(dec)
    BY <1>6 DEF T!DecoderWorks, T!Made, Made, T!runVars, T!encVars
  <2>2. Feeding' = Feeding - 1 /\ Coding' = Coding
    BY <2>1, <1>0, FeedingSteps DEF Coding
  <2>3. dec'.eos = dec.eos
    BY <2>1, <1>0 DEF Made, Types, DecTypeOK, CodecType
  <2>4. StepsFrom' = StepsFrom
    BY <2>1, <2>3 DEF StepsFrom
  <2> QED BY <2>1, <2>2, <2>4, <1>0, WorkFalls
<1>7. CASE FeedStep /\ UNCHANGED encVars
  <2>0. UNCHANGED <<stop, enc>> /\ Coding' = Coding
    <3>1. UNCHANGED <<stop, enc>>
      BY <1>7 DEF FeedStep, FeedPacket, FeedEof, FeedFails, FeedNothing, ReceiveFails,
         encVars
    <3> QED BY <3>1, <1>0 DEF Coding
  <2>1. CASE FeedPacket
    <3>1. pc = "head" /\ ~dec.eos /\ next' = next + 1
      BY <2>1 DEF FeedPacket
    <3>2. StepsFrom = 3
      BY <3>1 DEF StepsFrom
    <3>3. CASE dec' = Took(dec, next) /\ pc' = "receive"
      <4>1. Feeding' = Feeding - 4
        BY <3>1, <3>3, <1>0, FeedingSteps
      <4>2. dec'.eos = dec.eos
        BY <3>3, <1>0 DEF Took, Types, DecTypeOK, CodecType
      <4>3. StepsFrom' = 6
        BY <3>1, <3>3, <4>2 DEF StepsFrom
      <4> QED BY <4>1, <4>3, <3>2, <2>0, <1>0, WorkFalls
    <3>4. CASE UNCHANGED dec /\ pc' = "receive"
      <4>1. Feeding' = Feeding - 13 /\ StepsFrom' = 6
        BY <3>1, <3>4, <1>0, FeedingSteps DEF StepsFrom
      <4> QED BY <4>1, <3>2, <2>0, <1>0, WorkFalls
    <3>5. CASE UNCHANGED dec /\ Finish("fail")
      <4>1. Feeding' = Feeding - 13 /\ StepsFrom' = 0
        BY <3>1, <3>5, <1>0, FeedingSteps DEF StepsFrom, Finish
      <4> QED BY <4>1, <3>2, <2>0, <1>0, WorkFalls
    <3> QED BY <3>3, <3>4, <3>5, <2>1 DEF FeedPacket
  <2>2. CASE FeedEof
    <3>1. /\ pc = "head" /\ ~dec.eos /\ UNCHANGED next /\ pc' = "receive"
          /\ dec' = [dec EXCEPT !.eos = TRUE]
      BY <2>2 DEF FeedEof
    <3>2. Feeding' = Feeding - 1
      BY <3>1, <1>0, FeedingSteps
    <3>3. dec'.eos = TRUE
      BY <3>1, <1>0 DEF Types, DecTypeOK, CodecType
    <3>4. StepsFrom = 3 /\ StepsFrom' = 3
      BY <3>1, <3>3 DEF StepsFrom
    <3> QED BY <3>2, <3>4, <2>0, <1>0, WorkFalls
  <2>3. CASE FeedFails \/ ReceiveFails
    <3>1. pc \in {"head", "receive"} /\ pc' = "done" /\ UNCHANGED <<next, dec>>
      BY <2>3 DEF FeedFails, ReceiveFails, Finish, decVars
    <3>2. Feeding' = Feeding /\ StepsFrom' = 0 /\ StepsFrom >= 3
      BY <3>1 DEF Feeding, StepsFrom
    <3> QED BY <3>2, <2>0, <1>0, WorkFalls
  <2>4. CASE FeedNothing
    <3>1. pc = "head" /\ dec.eos /\ pc' = "receive" /\ UNCHANGED <<next, dec>>
      BY <2>4 DEF FeedNothing, decVars
    <3>2. Feeding' = Feeding /\ StepsFrom' = 3 /\ StepsFrom = 4
      BY <3>1 DEF Feeding, StepsFrom
    <3> QED BY <3>2, <2>0, <1>0, WorkFalls
  <2> QED BY <2>1, <2>2, <2>3, <2>4, <1>7 DEF FeedStep
<1> QED BY <1>1, <1>2, <1>3, <1>4, <1>5, <1>6, <1>7 DEF TranscodeStep

LEMMA EncodeFileProgress ==
  ASSUME IInv, EncodeFileStep
  PROVE  Work' < Work
<1>0. /\ Types /\ UNCHANGED <<blanks, port, enc, dec, stop>> /\ pc = "head"
      /\ Feeding \in Int /\ Coding \in Int /\ Coding' = Coding
      /\ StepsFrom \in Int /\ StepsFrom >= 3
  <2>1. UNCHANGED <<blanks, port, enc, dec, stop>> /\ pc = "head"
    BY DEF EncodeFileStep, E!StopSeen, E!LoadFrame, E!LoadEof, E!LoadFails,
       E!ScaleFails, E!encVars
  <2>2. StepsFrom >= 3 /\ Coding' = Coding
    BY <2>1 DEF StepsFrom, Coding
  <2> QED BY <2>1, <2>2, WorkParts DEF IInv
<1>1. CASE E!StopSeen \/ E!LoadEof \/ E!LoadFails
  <2>1. pc' = "flush" /\ UNCHANGED next
    BY <1>1 DEF E!StopSeen, E!LoadEof, E!LoadFails
  <2>2. StepsFrom' = 2 /\ Feeding' = Feeding
    BY <2>1, <1>0 DEF StepsFrom, Feeding
  <2> QED BY <2>2, <1>0, WorkFalls
<1>2. CASE E!LoadFrame \/ E!ScaleFails
  <2>1. pc' \in {"flush", "send"} /\ next' = next + 1
    BY <1>2 DEF E!LoadFrame, E!ScaleFails
  <2>2. StepsFrom' \in {2, 9} /\ Feeding' = Feeding - 13
    BY <2>1, <1>0, FeedingSteps DEF StepsFrom
  <2>3. CASE StepsFrom' = 2
    BY <2>2, <2>3, <1>0, WorkFalls
  <2>4. CASE StepsFrom' = 9
    BY <2>2, <2>4, <1>0, WorkFalls
  <2> QED BY <2>2, <2>3, <2>4
<1> QED BY <1>1, <1>2 DEF EncodeFileStep

(* Every step of every thread uses up work, of which there is only so      *)
(* much, except the retry of a frame that SVT-AV1 refuses and the final    *)
(* loop over an encoder that was not told the end; and neither loop ever   *)
(* waits for a packet that cannot come (session.c:460-527, 691-750).       *)
THEOREM RunProgress == FairSpec => Progress
<1>1. IInv /\ [Next]_vars => [Work' < Work \/ ((Retrying \/ Untold) /\ Work' = Work)]_vars
  <2> SUFFICES ASSUME IInv, [Next]_vars
               PROVE  \/ Work' < Work \/ UNCHANGED vars
                      \/ (Retrying \/ Untold) /\ Work' = Work
    OBVIOUS
  <2> QED BY NextCases, EncoderProgress, TranscodeProgress, EncodeFileProgress
<1>2. IInv => Work \in Nat /\ NoStall
  <2> SUFFICES ASSUME IInv PROVE Work \in Nat /\ NoStall
    OBVIOUS
  <2>1. NoStall
    BY DEF IInv, Flags, NoStall, Nothing, AtEnd, Empty
  <2> QED BY <2>1, WorkIsNat DEF IInv
<1> QED BY <1>1, <1>2, Invariant, PTL DEF FairSpec, Progress

-----------------------------------------------------------------------------
(* What every transfer delivers, this one does.                            *)
Whole ==
  INSTANCE TransferProofs WITH
    Frames <- 1 .. Last,
    lossy <- template = "encode" /\ Scaling /\ Fails("scale"),
    accepted <- IF template = "transcode" THEN SubSeq(sent, 1, framesIn)
                                          ELSE [i \in 1 .. framesIn |-> i],
    done <- fetched,
    shown <- pulled \o port,
    outcome <- result

(* At every moment of a run, file and port hold frames that were counted   *)
(* in, in their order and none twice, and all whose packets were fetched   *)
(* where none was missed; RKVC_OK comes when all of them are through, but  *)
(* for the one that encode_file_loop cannot scale (session.c:406-527,      *)
(* 672-753).                                                               *)
THEOREM RunDelivers == FairSpec => []Promise!Delivered
<1>1. 1 .. Last \subseteq Int
  BY RunAssumption
<1>2. Promise!Spec => []Promise!Delivered
  <2>1. Promise!Spec => Whole!Spec
    BY PTL
       DEF Promise!Spec, Whole!Spec, Promise!Init, Whole!Init, Promise!Next, Whole!Next,
           Promise!transferVars, Whole!transferVars, Promise!Accept, Whole!Accept,
           Promise!Deliver, Whole!Deliver, Promise!Succeed, Whole!Succeed, Promise!Fail, Whole!Fail
  <2> QED BY <1>1, <2>1, Whole!TransferDelivers, PTL
          DEF Promise!Delivered, Whole!Delivered,
              Promise!Through, Whole!Through, Promise!Increasing, Whole!Increasing
<1> QED BY <1>2, RunIsTransfer, PTL DEF IsTransfer

-----------------------------------------------------------------------------
(* Who was given what.                                                     *)
Got == [r \in 1 .. Last |-> IF r \in DOMAIN pulled THEN pulled[r] ELSE 0]

(* A step of the run puts one packet into the port, takes one out, or      *)
(* leaves the port alone.                                                  *)
LEMMA PortSteps ==
  ASSUME IInv, [Next]_vars
  PROVE  \/ UNCHANGED <<port, pulled>>
         \/ /\ \E x \in 1 .. Last : port' = Append(port, x)
            /\ Len(port) < PortDepth /\ UNCHANGED pulled
         \/ /\ port # <<>> /\ port' = Tail(port)
            /\ pulled' = Append(pulled, Head(port))
<1>0. Types /\ SourceInv /\ LineInv
  BY DEF IInv
<1>1. ASSUME NEW where \in {"loop", "tail"}, NEW ok \in BOOLEAN,
             PacketOut(where, ok), pc # "done"
      PROVE  \/ UNCHANGED port
             \/ /\ \E x \in 1 .. Last : port' = Append(port, x)
                /\ Len(port) < PortDepth
  <2>1. Head(enc.ready) \in 1 .. Last
    BY <1>0, <1>1, LineHead, LineFacts DEF PacketOut
  <2> QED BY <1>1, <2>1 DEF PacketOut, PushOutput
<1>2. CASE UNCHANGED vars
  BY <1>2 DEF vars, runVars
<1>3. CASE EncoderStep
  <2>1. CASE DrainOne
    <3>1. pc = "drain" /\ UNCHANGED pulled
      BY <2>1 DEF DrainOne
    <3> QED BY <2>1, <3>1, <1>1 DEF DrainOne, NoPacketOut
  <2>2. CASE TailOne
    <3>1. pc = "tail" /\ UNCHANGED pulled
      BY <2>2 DEF TailOne
    <3> QED BY <2>2, <3>1, <1>1 DEF TailOne, NoPacketOut
  <2>3. CASE SendFrame \/ FlushEncoder \/ EncoderWorks \/ EncoderBlank
    BY <2>3 DEF SendFrame, FlushEncoder, EncoderWorks, EncoderBlank, runVars
  <2>4. CASE Outside
    BY <2>4 DEF Outside, RequestStop, PullOutput
  <2> QED BY <1>3, <2>1, <2>2, <2>3, <2>4 DEF EncoderStep, EncodeStep
<1>4. CASE TranscodeStep
  <2>1. CASE FeedStep /\ UNCHANGED encVars
    BY <2>1 DEF FeedStep, FeedPacket, FeedEof, FeedFails, FeedNothing,
       ReceiveFails, Finish
  <2>2. CASE T!StopSeen \/ T!ReceiveFrame \/ T!ReceiveNothing \/ T!ReceiveEnd
    BY <2>2 DEF T!StopSeen, T!ReceiveFrame, T!ReceiveNothing, T!ReceiveEnd
  <2>3. CASE T!Scale \/ T!DecoderWorks
    BY <2>3 DEF T!Scale, T!DecoderWorks, T!runVars
  <2> QED BY <1>4, <2>1, <2>2, <2>3 DEF TranscodeStep
<1>5. CASE EncodeFileStep
  BY <1>5 DEF EncodeFileStep, E!StopSeen, E!LoadFrame, E!LoadEof, E!LoadFails,
     E!ScaleFails
<1> QED BY <1>2, <1>3, <1>4, <1>5, NextCases

(* Taking the oldest item gives it to the next reader.                     *)
LEMMA PullTakes ==
  ASSUME Types, Promise!Delivered,
         port # <<>>, port' = Tail(port), pulled' = Append(pulled, Head(port))
  PROVE  \E r \in 1 .. Last : Port!Take(r)
<1> DEFINE r == Len(pulled) + 1
<1>0. /\ port \in Seq(1 .. Last) /\ pulled \in Seq(1 .. Last)
      /\ fetched \in 0 .. Last /\ Last \in Nat
  BY RunAssumption DEF Types, EncTypeOK
<1>1. /\ Len(port) \in Nat \ {0} /\ Len(pulled) \in Nat /\ Head(port) \in 1 .. Last
      /\ Len(pulled \o port) = Len(pulled) + Len(port)
  BY <1>0
<1>2. Len(pulled) + Len(port) <= fetched
  BY <1>1 DEF Promise!Delivered, Promise!Through
<1>3. r \in 1 .. Last /\ r \notin DOMAIN pulled
  BY <1>0, <1>1, <1>2
<1>4. /\ DOMAIN pulled' = 1 .. r /\ pulled'[r] = Head(port)
      /\ \A i \in DOMAIN pulled : pulled'[i] = pulled[i]
      /\ DOMAIN pulled = 1 .. Len(pulled)
  BY <1>0, <1>1
<1>5. Got' = [Got EXCEPT ![r] = Head(port)]
  <2>1. Got' = [i \in 1 .. Last |-> IF i \in DOMAIN pulled' THEN pulled'[i] ELSE 0]
    BY DEF Got
  <2>2. ASSUME NEW i \in 1 .. Last
        PROVE  (IF i \in DOMAIN pulled' THEN pulled'[i] ELSE 0)
                 = IF i = r THEN Head(port) ELSE Got[i]
    <3>1. CASE i = r
      BY <3>1, <1>1, <1>4
    <3>2. CASE i # r
      <4>1. i \in DOMAIN pulled' <=> i \in DOMAIN pulled
        BY <3>2, <1>1, <1>4
      <4> QED BY <3>2, <4>1, <1>4 DEF Got
    <3> QED BY <3>1, <3>2
  <2>3. Got' = [i \in 1 .. Last |-> IF i = r THEN Head(port) ELSE Got[i]]
    BY <2>1, <2>2
  <2>4. [Got EXCEPT ![r] = Head(port)]
          = [i \in 1 .. Last |-> IF i = r THEN Head(port) ELSE Got[i]]
    BY <1>3 DEF Got
  <2> QED BY <2>3, <2>4
<1>6. Got[r] = 0
  BY <1>3 DEF Got
<1> HIDE DEF r
<1> QED BY <1>3, <1>5, <1>6 DEF Port!Take, Got

(* The output port of a run is used as a bounded first-in first-out queue, *)
(* so FifoRefinement speaks of it: pushes that find it full change         *)
(* nothing, and the consumer gets what was pushed, each item once and the  *)
(* oldest first (session.c:424, port.c:134-146).                           *)
THEOREM RunPort == FairSpec => PortIsFifo
<1>1. Init => Port!Init
  BY DEF Init, T!Init, T!RunInit, T!EncInit, T!DecInit, Port!Init
<1>2. IInv /\ Promise!Delivered /\ [Next]_vars => [Port!Next]_(Port!fifoVars)
  <2> SUFFICES ASSUME IInv, Promise!Delivered, [Next]_vars
               PROVE  [Port!Next]_(Port!fifoVars)
    OBVIOUS
  <2>1. CASE UNCHANGED <<port, pulled>>
    BY <2>1 DEF Port!fifoVars
  <2>2. ASSUME NEW x \in 1 .. Last, port' = Append(port, x),
               Len(port) < PortDepth, UNCHANGED pulled
        PROVE  Port!Next
    <3>1. Port!Put(x)
      BY <2>2 DEF Port!Put
    <3> QED BY <3>1 DEF Port!Next
  <2>3. CASE /\ port # <<>> /\ port' = Tail(port)
             /\ pulled' = Append(pulled, Head(port))
    BY <2>3, PullTakes DEF IInv, Port!Next
  <2> QED BY <2>1, <2>2, <2>3, PortSteps
<1> QED BY <1>1, <1>2, Invariant, RunDelivers, PTL
        DEF FairSpec, PortIsFifo, Port!Spec
=============================================================================
