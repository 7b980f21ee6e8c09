--------------------------- MODULE DecodeFileProofs ---------------------------
(***************************************************************************)
(* Theorems about DecodeFile, for files of any length, every port, number  *)
(* of surfaces, kind of session and set of faults.  The reference counts   *)
(* balance unless frames already have the size the scaler makes (SameSize),*)
(* in which case decode_loop does lose references.                         *)
(***************************************************************************)
EXTENDS DecodeFile, FiniteSetTheorems, SequenceTheorems, TLAPS

(* The frames in the decoder and in the loop's hands come in file order.   *)
Below(n, c) == \A m \in Elements(c.ready) \cup Elements(c.pending) : n < m

SourceInv ==
  /\ IsIncreasing(dec.ready) /\ IsIncreasing(dec.pending)
  /\ \A n \in Elements(dec.ready), m \in Elements(dec.pending) : n < m
  /\ \A n \in Elements(dec.ready) \cup Elements(dec.pending) : n < next
  /\ cur # 0 => cur < next /\ Below(cur, dec)
  /\ dec.eos => next > Last

(* Frame n is older than everything still to come.                         *)
Past(n) ==
  n \in Frames /\ n < next /\ Below(n, dec) /\ (cur # 0 => n < cur)

(* Each frame the decoder took is written, skipped, in the loop's hands or *)
(* still in the decoder.                                                   *)
AccountInv ==
  /\ Elements(sent) = Elements(written) \cup skipped \cup ({cur} \ {0})
                        \cup Elements(dec.ready) \cup Elements(dec.pending)
  /\ Elements(written) \cap skipped = {}
  /\ \A n \in Elements(written) \cup skipped : Past(n)
  /\ IsIncreasing(written)

EndInv ==
  /\ result # "none" <=> pc = "done"
  /\ result = "ok" /\ ~stop => next > Last /\ Empty(dec)

(* What the loop's variables hold at each place.                           *)
RoundInv ==
  /\ pc \in {"head", "receive", "done"} => cur = 0 /\ host = 0 /\ display = 0
  /\ pc \in {"host", "upscale", "write"} => cur \in Frames
  /\ pc = "host" => host = 0 /\ display = 0 /\ ~failed
  /\ pc = "upscale" => display = 0
  /\ pc \in {"upscale", "write"} =>
       /\ host = 0 => failed /\ display = 0
       /\ host # 0 => host = cur \/ host = 0 - cur
       /\ host # 0 /\ Upscale => host = cur
  /\ pc = "upscale" /\ ~failed => host # 0
  /\ pc = "write" /\ ~failed =>
       /\ host # 0 /\ Picture(display) = cur /\ display \in {host, Target}
       /\ display = Target <=> Upscale /\ ~SameSize
  /\ failed => display \in {0, host}

(* The port shows earlier frames, in order; scaled frames are all in the   *)
(* scaler's one buffer.                                                    *)
Abs(o) == IF o < 0 THEN 0 - o ELSE o
ShownOf(s) == [i \in DOMAIN s |-> Abs(s[i])]
Shown == ShownOf(port)

PortInv ==
  /\ Upscale /\ ~SameSize => \A o \in Elements(port) : o = Target
  /\ ~Upscale \/ SameSize =>
       /\ Target \notin Elements(port)
       /\ IsIncreasing(Shown)
       /\ \A n \in Elements(Shown) : Past(n)
  /\ ~Upscale =>
       /\ IsIncreasing(pulled)
       /\ \A n \in Elements(pulled) :
            Past(n) /\ \A m \in Elements(Shown) : n < m
  /\ target = 0 => Target \notin Elements(port)
  /\ target # 0 => Upscale /\ ~SameSize

(* Who refers to a buffer: the port, the scaler, and the loop's variables. *)
One(b) == IF b THEN 1 ELSE 0
Owed(o) ==
  Queued(o) + One(o = Target /\ target # 0) + One(o = cur) + One(o = host)
    + One(o = display /\ display # host)

RefsInv == ~SameSize => \A o \in Objects : refs[o] = Owed(o)

(* Types, with reference counts that may yet be negative.                  *)
Types ==
  /\ DecTypeOK
  /\ pc \in {"head", "receive", "host", "upscale", "write", "done"}
  /\ stop \in BOOLEAN /\ result \in {"none", "ok", "fail"}
  /\ port \in Seq(Objects) /\ Len(port) <= PortDepth
  /\ host \in Objects \cup {0} /\ display \in Objects \cup {0}
  /\ failed \in BOOLEAN /\ cur \in 0 .. Last /\ mode \in Modes
  /\ refs \in [Objects -> Int]
  /\ target \in 0 .. Last /\ written \in Seq(1 .. Last)
  /\ skipped \subseteq 1 .. Last
  /\ pulled \in Seq(Int)

IInv == /\ Types /\ SourceInv /\ AccountInv /\ EndInv
        /\ RoundInv /\ PortInv /\ RefsInv

-----------------------------------------------------------------------------
(* Adding to the end of a sequence.                                        *)
LEMMA AppendFacts ==
  ASSUME NEW S, NEW s \in Seq(S), NEW x \in S
  PROVE  /\ Append(s, x) \in Seq(S) /\ Len(Append(s, x)) = Len(s) + 1
         /\ Elements(Append(s, x)) = Elements(s) \cup {x}
<1> DEFINE t == Append(s, x)
<1>1. /\ t \in Seq(S) /\ Len(t) = Len(s) + 1 /\ Len(s) \in Nat
      /\ DOMAIN t = 1 .. Len(s) + 1 /\ DOMAIN s = 1 .. Len(s)
      /\ \A i \in 1 .. Len(s) : t[i] = s[i]
      /\ t[Len(s) + 1] = x
  OBVIOUS
<1> HIDE DEF t
<1>2. ASSUME NEW e \in Elements(t) PROVE e \in Elements(s) \cup {x}
  <2>1. PICK i \in 1 .. Len(s) + 1 : e = t[i]
    BY <1>1 DEF Elements
  <2>2. CASE i = Len(s) + 1
    BY <2>1, <2>2, <1>1
  <2>3. CASE i \in 1 .. Len(s)
    BY <2>1, <2>3, <1>1 DEF Elements
  <2> QED BY <2>2, <2>3, <1>1
<1>3. ASSUME NEW e \in Elements(s) PROVE e \in Elements(t)
  <2>1. PICK i \in 1 .. Len(s) : e = s[i]
    BY <1>1 DEF Elements
  <2>2. i \in DOMAIN t /\ t[i] = e
    BY <2>1, <1>1
  <2> QED BY <2>2 DEF Elements
<1>4. x \in Elements(t)
  <2>1. Len(s) + 1 \in DOMAIN t
    BY <1>1
  <2> QED BY <2>1, <1>1 DEF Elements
<1> QED BY <1>1, <1>2, <1>3, <1>4 DEF t

LEMMA AppendElements ==
  ASSUME NEW s \in Seq(Int), NEW x \in Int
  PROVE  Elements(Append(s, x)) = Elements(s) \cup {x}
BY AppendFacts

(* Taking from the front.                                                  *)
LEMMA TailFacts ==
  ASSUME NEW S, NEW s \in Seq(S), s # <<>>
  PROVE  /\ Tail(s) \in Seq(S) /\ Len(Tail(s)) = Len(s) - 1
         /\ Head(s) \in S /\ Head(s) \in Elements(s)
         /\ Elements(s) = {Head(s)} \cup Elements(Tail(s))
<1> DEFINE t == Tail(s)
<1>1. /\ t \in Seq(S) /\ Len(t) = Len(s) - 1 /\ Len(s) \in Nat \ {0}
      /\ DOMAIN t = 1 .. Len(s) - 1 /\ DOMAIN s = 1 .. Len(s)
      /\ \A i \in 1 .. Len(s) - 1 : t[i] = s[i + 1]
      /\ Head(s) = s[1] /\ Head(s) \in S
  OBVIOUS
<1> HIDE DEF t
<1>2. ASSUME NEW e \in Elements(s) PROVE e \in {Head(s)} \cup Elements(t)
  <2>1. PICK i \in 1 .. Len(s) : e = s[i]
    BY <1>1 DEF Elements
  <2>2. CASE i = 1
    BY <2>1, <2>2, <1>1
  <2>3. CASE i # 1
    <3>1. i - 1 \in 1 .. Len(s) - 1 /\ (i - 1) + 1 = i
      BY <2>1, <2>3, <1>1
    <3>2. e = t[i - 1] /\ i - 1 \in DOMAIN t
      BY <2>1, <3>1, <1>1
    <3> QED BY <3>2 DEF Elements
  <2> QED BY <2>2, <2>3
<1>3. ASSUME NEW e \in Elements(t) PROVE e \in Elements(s)
  <2>1. PICK i \in 1 .. Len(s) - 1 : e = t[i]
    BY <1>1 DEF Elements
  <2>2. i + 1 \in DOMAIN s /\ s[i + 1] = e
    BY <2>1, <1>1
  <2> QED BY <2>2 DEF Elements
<1>4. Head(s) \in Elements(s)
  <2>1. 1 \in DOMAIN s
    BY <1>1
  <2> QED BY <2>1, <1>1 DEF Elements
<1> QED BY <1>1, <1>2, <1>3, <1>4 DEF t

LEMMA EmptyFacts == Elements(<<>>) = {} /\ IsIncreasing(<<>>)
BY DEF Elements, IsIncreasing

(* The elements of a sequence of S are in S.                               *)
LEMMA ElementsIn ==
  ASSUME NEW S, NEW s \in Seq(S)
  PROVE  Elements(s) \subseteq S
BY DEF Elements

(* An increasing sequence stays so when something larger is added,         *)
LEMMA IncreasingAppend ==
  ASSUME NEW s \in Seq(Int), NEW x \in Int, IsIncreasing(s),
         \A e \in Elements(s) : e < x
  PROVE  IsIncreasing(Append(s, x))
<1> DEFINE t == Append(s, x)
<1>1. /\ Len(s) \in Nat
      /\ DOMAIN t = 1 .. Len(s) + 1 /\ DOMAIN s = 1 .. Len(s)
      /\ \A i \in 1 .. Len(s) : t[i] = s[i]
      /\ t[Len(s) + 1] = x
  OBVIOUS
<1> HIDE DEF t
<1> SUFFICES ASSUME NEW i \in 1 .. Len(s) + 1, NEW j \in 1 .. Len(s) + 1, i < j
             PROVE  t[i] < t[j]
  BY <1>1 DEF IsIncreasing, t
<1>2. i \in 1 .. Len(s)
  BY <1>1
<1>3. CASE j \in 1 .. Len(s)
  <2>1. s[i] < s[j]
    BY <1>1, <1>2, <1>3 DEF IsIncreasing
  <2> QED BY <2>1, <1>1, <1>2, <1>3
<1>4. CASE j = Len(s) + 1
  <2>1. s[i] \in Elements(s)
    BY <1>1, <1>2 DEF Elements
  <2> QED BY <2>1, <1>1, <1>2, <1>4
<1> QED BY <1>1, <1>3, <1>4

(* and when its first element is taken, which is the least.                *)
LEMMA IncreasingTail ==
  ASSUME NEW s \in Seq(Int), s # <<>>, IsIncreasing(s)
  PROVE  /\ IsIncreasing(Tail(s))
         /\ \A e \in Elements(Tail(s)) : Head(s) < e
<1> DEFINE t == Tail(s)
<1>1. /\ Len(s) \in Nat \ {0}
      /\ DOMAIN t = 1 .. Len(s) - 1 /\ DOMAIN s = 1 .. Len(s)
      /\ \A i \in 1 .. Len(s) - 1 : t[i] = s[i + 1]
      /\ Head(s) = s[1]
  OBVIOUS
<1> HIDE DEF t
<1>2. ASSUME NEW i \in DOMAIN t
      PROVE  i + 1 \in DOMAIN s /\ t[i] = s[i + 1] /\ i \in Int /\ 1 < i + 1
  BY <1>1
<1>3. ASSUME NEW i \in DOMAIN t, NEW j \in DOMAIN t, i < j PROVE t[i] < t[j]
  <2>1. i + 1 < j + 1
    BY <1>2, <1>3
  <2> QED BY <2>1, <1>2 DEF IsIncreasing
<1>4. ASSUME NEW i \in DOMAIN t PROVE Head(s) < t[i]
  <2>1. 1 \in DOMAIN s
    BY <1>1
  <2> QED BY <2>1, <1>1, <1>2 DEF IsIncreasing
<1> QED BY <1>3, <1>4 DEF IsIncreasing, Elements, t

(* How often o is in s.                                                    *)
Count(s, o) == Cardinality({i \in DOMAIN s : s[i] = o})

LEMMA CountType ==
  ASSUME NEW S, NEW s \in Seq(S), NEW o
  PROVE  /\ IsFiniteSet({i \in DOMAIN s : s[i] = o}) /\ Count(s, o) \in Nat
         /\ o \notin Elements(s) => Count(s, o) = 0
<1>1. DOMAIN s = 1 .. Len(s) /\ Len(s) \in Int
  OBVIOUS
<1>2. IsFiniteSet(1 .. Len(s))
  BY <1>1, FS_Interval
<1>3. IsFiniteSet({i \in DOMAIN s : s[i] = o})
  BY <1>1, <1>2, FS_Subset
<1>4. ASSUME o \notin Elements(s) PROVE {i \in DOMAIN s : s[i] = o} = {}
  BY <1>4 DEF Elements
<1> QED BY <1>3, <1>4, FS_CardinalityType, FS_EmptySet DEF Count

LEMMA CountAppend ==
  ASSUME NEW S, NEW s \in Seq(S), NEW x \in S, NEW o
  PROVE  Count(Append(s, x), o) = Count(s, o) + One(o = x)
<1> DEFINE t == Append(s, x)
           A == {i \in DOMAIN s : s[i] = o}
           B == {i \in DOMAIN t : t[i] = o}
<1>1. /\ Len(s) \in Nat
      /\ DOMAIN t = 1 .. Len(s) + 1 /\ DOMAIN s = 1 .. Len(s)
      /\ \A i \in 1 .. Len(s) : t[i] = s[i]
      /\ t[Len(s) + 1] = x
  OBVIOUS
<1> HIDE DEF t
<1>2. IsFiniteSet(A) /\ Cardinality(A) \in Nat
  BY CountType DEF Count
<1>3. Len(s) + 1 \notin A
  BY <1>1
<1>4. CASE o = x
  <2>1. B = A \cup {Len(s) + 1}
    BY <1>1, <1>4
  <2>2. Cardinality(B) = Cardinality(A) + 1
    BY <2>1, <1>2, <1>3, FS_AddElement
  <2> QED BY <2>2, <1>4 DEF Count, One, t
<1>5. CASE o # x
  <2>1. B = A
    BY <1>1, <1>5
  <2> HIDE DEF A, B
  <2>2. Cardinality(B) = Cardinality(A) + 0
    BY <2>1, <1>2
  <2> QED BY <2>2, <1>5 DEF Count, One, A, B, t
<1> QED BY <1>4, <1>5

LEMMA CountTail ==
  ASSUME NEW S, NEW s \in Seq(S), s # <<>>, NEW o
  PROVE  Count(Tail(s), o) = Count(s, o) - One(o = Head(s))
<1> DEFINE t == Tail(s)
           A == {i \in DOMAIN s : s[i] = o}
           B == {i \in DOMAIN t : t[i] = o}
           f == [i \in B |-> i + 1]
<1>1. /\ Len(s) \in Nat \ {0}
      /\ DOMAIN t = 1 .. Len(s) - 1 /\ DOMAIN s = 1 .. Len(s)
      /\ \A i \in 1 .. Len(s) - 1 : t[i] = s[i + 1]
      /\ Head(s) = s[1] /\ t \in Seq(S)
  OBVIOUS
<1> HIDE DEF t
<1>2. IsFiniteSet(A) /\ Cardinality(A) \in Nat
  BY CountType DEF Count
<1> IsFiniteSet(B)
  <2>1. t \in Seq(S)
    BY <1>1
  <2> QED BY <2>1, CountType
<1>3. ASSUME NEW i \in B PROVE i + 1 \in A \ {1} /\ i \in Int
  BY <1>1
<1>4. ASSUME NEW j \in A \ {1} PROVE j - 1 \in B /\ (j - 1) + 1 = j
  <2>1. j \in 1 .. Len(s) /\ j # 1 /\ s[j] = o
    BY <1>1
  <2>2. j - 1 \in 1 .. Len(s) - 1 /\ (j - 1) + 1 = j
    BY <2>1, <1>1
  <2> QED BY <2>1, <2>2, <1>1
<1>5. f \in Bijection(B, A \ {1})
  <2>1. f \in [B -> A \ {1}]
    BY <1>3
  <2>2. ASSUME NEW i \in B, NEW j \in B, f[i] = f[j] PROVE i = j
    BY <2>2, <1>3
  <2>3. ASSUME NEW j \in A \ {1} PROVE \E i \in B : f[i] = j
    BY <1>4
  <2> HIDE DEF f, A, B
  <2> QED BY <2>1, <2>2, <2>3 DEF Bijection, Injection, Surjection, IsInjective
<1>6. Cardinality(A \ {1}) = Cardinality(B)
  BY <1>2, <1>5, FS_Bijection DEF ExistsBijection
<1>7. Cardinality(A \ {1}) = IF 1 \in A THEN Cardinality(A) - 1 ELSE Cardinality(A)
  BY <1>2, FS_RemoveElement
<1>8. 1 \in A <=> o = Head(s)
  BY <1>1
<1>9. CASE o = Head(s)
  <2>1. Cardinality(B) = Cardinality(A) - 1
    BY <1>6, <1>7, <1>8, <1>9
  <2> QED BY <2>1, <1>9 DEF Count, One, t
<1>10. CASE o # Head(s)
  <2>1. Cardinality(B) = Cardinality(A) - 0
    BY <1>2, <1>6, <1>7, <1>8, <1>10
  <2> QED BY <2>1, <1>10 DEF Count, One, t
<1> QED BY <1>9, <1>10

-----------------------------------------------------------------------------
(* Where the packets and frames are: what a step can do with them.         *)
flowVars == <<next, dec, sent, cur, written, skipped>>

Decodes ==
  /\ dec.pending # <<>>
  /\ dec'.pending = Tail(dec.pending)
  /\ dec'.ready = Append(dec.ready, Head(dec.pending))
  /\ dec'.eos = dec.eos
  /\ UNCHANGED <<next, sent, cur, written, skipped>>

Reads ==
  /\ next <= Last /\ ~dec.eos /\ cur = 0
  /\ next' = next + 1
  /\ \/ /\ dec'.pending = Append(dec.pending, next)
        /\ dec'.ready = dec.ready /\ dec'.eos = dec.eos
        /\ sent' = Append(sent, next)
     \/ UNCHANGED <<dec, sent>>
  /\ UNCHANGED <<cur, written, skipped>>

Marks ==
  /\ dec'.pending = dec.pending /\ dec'.ready = dec.ready
  /\ dec'.eos => dec.eos \/ next > Last
  /\ UNCHANGED <<next, sent, cur, written, skipped>>

Receives ==
  /\ dec.ready # <<>> /\ cur = 0
  /\ cur' = Head(dec.ready)
  /\ dec'.pending = dec.pending /\ dec'.ready = Tail(dec.ready)
  /\ dec'.eos = dec.eos
  /\ UNCHANGED <<next, sent, written, skipped>>

Finishes ==
  /\ cur \in Frames /\ cur' = 0
  /\ \/ written' = Append(written, cur) /\ UNCHANGED skipped
     \/ skipped' = skipped \cup {cur} /\ UNCHANGED written
  /\ UNCHANGED <<next, dec, sent>>

LEMMA FlowCases ==
  ASSUME IInv, [Next]_vars
  PROVE  \/ UNCHANGED flowVars
         \/ Decodes \/ Reads \/ Marks \/ Receives \/ Finishes
<1> dec \in CodecType(1 .. Last)
  BY DEF IInv, Types, DecTypeOK
<1> USE DEF flowVars, runVars, decVars, fileVars, vars, Finish, CodecType
<1>1. CASE StopSeen
  BY <1>1 DEF StopSeen
<1>2. CASE ReceiveFrame
  <2>1. cur = 0
    BY <1>2 DEF ReceiveFrame, IInv, RoundInv
  <2> QED BY <2>1, <1>2 DEF ReceiveFrame, HasFrame, Gave, Receives
<1>3. CASE ReceiveNothing
  BY <1>3 DEF ReceiveNothing, Marks
<1>4. CASE ReceiveEnd
  BY <1>4 DEF ReceiveEnd
<1>5. CASE FrameToHost
  BY <1>5 DEF FrameToHost
<1>6. CASE PostUpscale
  BY <1>6 DEF PostUpscale
<1>7. CASE WriteDisplay
  BY <1>7 DEF WriteDisplay, ReleaseRound, Finishes, IInv, RoundInv
<1>8. CASE WriteFails
  BY <1>8 DEF WriteFails, ReleaseRound, Finishes, IInv, RoundInv
<1>9. CASE SkipFrame
  BY <1>9 DEF SkipFrame, ReleaseRound, Finishes, IInv, RoundInv
<1>10. CASE FeedPacket /\ UNCHANGED fileVars
  <2>1. cur = 0
    BY <1>10 DEF FeedPacket, IInv, RoundInv
  <2> QED BY <2>1, <1>10 DEF FeedPacket, Took, Reads
<1>11. CASE FeedEof /\ UNCHANGED fileVars
  BY <1>11 DEF FeedEof, Marks
<1>12. CASE FeedFails /\ UNCHANGED fileVars
  BY <1>12 DEF FeedFails
<1>13. CASE FeedNothing /\ UNCHANGED fileVars
  BY <1>13 DEF FeedNothing
<1>14. CASE ReceiveFails /\ UNCHANGED fileVars
  BY <1>14 DEF ReceiveFails
<1>15. CASE DecoderWorks
  BY <1>15 DEF DecoderWorks, Made, Decodes
<1>16. CASE PullDisplay
  BY <1>16 DEF PullDisplay
<1>17. CASE RequestStop /\ UNCHANGED <<decVars, fileVars>>
  BY <1>17
<1>18. CASE UNCHANGED vars
  BY <1>18
<1> QED
  BY <1>1, <1>2, <1>3, <1>4, <1>5, <1>6, <1>7, <1>8, <1>9, <1>10, <1>11,
     <1>12, <1>13, <1>14, <1>15, <1>16, <1>17, <1>18
     DEF Next, LoopStep, FeedStep, Returned

(* The types in the form the steps below need.                             *)
LEMMA FlowTypes ==
  ASSUME Types
  PROVE  /\ Last \in Nat /\ next \in Int /\ cur \in Int
         /\ dec.ready \in Seq(1 .. Last) /\ dec.pending \in Seq(1 .. Last)
         /\ dec.ready \in Seq(Int) /\ dec.pending \in Seq(Int)
         /\ sent \in Seq(1 .. Last) /\ sent \in Seq(Int)
         /\ written \in Seq(1 .. Last) /\ written \in Seq(Int)
         /\ Elements(dec.ready) \subseteq 1 .. Last
         /\ Elements(dec.pending) \subseteq 1 .. Last
         /\ Elements(dec.ready) \subseteq Int
         /\ Elements(dec.pending) \subseteq Int
         /\ Elements(written) \subseteq Int
<1>1. /\ dec.ready \in Seq(1 .. Last) /\ dec.pending \in Seq(1 .. Last)
      /\ sent \in Seq(1 .. Last) /\ written \in Seq(1 .. Last)
  BY DEF Types, DecTypeOK, CodecType
<1>2. /\ Last \in Nat /\ next \in Int /\ cur \in Int
      /\ \A n \in 1 .. Last : n \in Int
  BY RunAssumption DEF Types, DecTypeOK
<1>3. /\ dec.ready \in Seq(Int) /\ dec.pending \in Seq(Int)
      /\ sent \in Seq(Int) /\ written \in Seq(Int)
  BY <1>1, <1>2
<1> QED BY <1>1, <1>2, <1>3, ElementsIn

(* Time goes on: what is past stays past, and the frame a round ends with  *)
(* becomes past.                                                           *)
LEMMA PastStays ==
  ASSUME IInv, [Next]_vars
  PROVE  \A n \in Int : Past(n) \/ (n = cur /\ n # 0 /\ cur' = 0) => Past(n)'
<1> DEFINE R == Elements(dec.ready)
           P == Elements(dec.pending)
<1>1. /\ Last \in Nat /\ next \in Int /\ cur \in Int
      /\ dec.ready \in Seq(1 .. Last) /\ dec.pending \in Seq(1 .. Last)
      /\ R \subseteq Int /\ P \subseteq Int
  BY FlowTypes DEF IInv
<1>2. /\ cur # 0 => cur \in Frames /\ cur < next /\ \A m \in R \cup P : cur < m
  BY DEF IInv, SourceInv, Below, Types, Frames
<1> SUFFICES ASSUME NEW n \in Int, Past(n) \/ (n = cur /\ n # 0 /\ cur' = 0)
             PROVE  Past(n)'
  OBVIOUS
<1>3. CASE UNCHANGED flowVars
  BY <1>3 DEF flowVars, Past, Below, Frames, Elements
<1>4. CASE Decodes
  <2>1. Elements(dec'.ready) \cup Elements(dec'.pending) = R \cup P
    BY <1>1, <1>4, AppendFacts, TailFacts DEF Decodes
  <2> QED BY <1>4, <2>1 DEF Decodes, Past, Below, Frames
<1>5. CASE Reads
  <2>1. Elements(dec'.ready) \cup Elements(dec'.pending)
          \subseteq R \cup P \cup {next}
    <3>1. next \in 1 .. Last
      BY <1>5 DEF Reads, IInv, Types, DecTypeOK
    <3>2. Elements(Append(dec.pending, next)) = P \cup {next}
      BY <3>1, <1>1, AppendFacts
    <3> QED BY <3>2, <1>5 DEF Reads
  <2> QED BY <1>1, <1>5, <2>1 DEF Reads, Past, Below, Frames
<1>6. CASE Marks
  BY <1>6 DEF Marks, Past, Below, Frames
<1>7. CASE Receives
  <2>1. /\ cur' \in R /\ cur' # 0 /\ cur = 0
        /\ Elements(dec'.ready) \cup Elements(dec'.pending) \subseteq R \cup P
    BY <1>1, <1>7, TailFacts DEF Receives
  <2> QED BY <1>7, <2>1 DEF Receives, Past, Below, Frames
<1>8. CASE Finishes
  BY <1>2, <1>8 DEF Finishes, Past, Below, Frames
<1> QED BY <1>3, <1>4, <1>5, <1>6, <1>7, <1>8, FlowCases

LEMMA SourceStays ==
  ASSUME IInv, [Next]_vars
  PROVE  SourceInv'
<1> DEFINE R == Elements(dec.ready)
           P == Elements(dec.pending)
<1>1. /\ Last \in Nat /\ next \in Int /\ cur \in Int
      /\ dec.ready \in Seq(1 .. Last) /\ dec.pending \in Seq(1 .. Last)
      /\ dec.ready \in Seq(Int) /\ dec.pending \in Seq(Int)
      /\ R \subseteq Int /\ P \subseteq Int
  BY FlowTypes DEF IInv
<1>2. /\ IsIncreasing(dec.ready) /\ IsIncreasing(dec.pending)
      /\ \A n \in R, m \in P : n < m
      /\ \A n \in R \cup P : n < next
      /\ cur # 0 => cur < next /\ \A m \in R \cup P : cur < m
      /\ dec.eos => next > Last
  BY DEF IInv, SourceInv, Below
<1>3. CASE UNCHANGED flowVars
  BY <1>2, <1>3 DEF flowVars, SourceInv, Below
<1>4. CASE Decodes
  <2> DEFINE h == Head(dec.pending)
             t == Tail(dec.pending)
  <2>1. /\ h \in P /\ h \in 1 .. Last /\ P = {h} \cup Elements(t)
        /\ \A e \in Elements(t) : h < e
        /\ IsIncreasing(t)
        /\ Elements(dec'.ready) = R \cup {h}
    BY <1>1, <1>2, <1>4, AppendFacts, TailFacts, IncreasingTail DEF Decodes
  <2>2. IsIncreasing(dec'.ready)
    <3>1. h \in Int /\ \A e \in R : e < h
      BY <1>1, <1>2, <2>1
    <3> QED BY <3>1, <1>1, <1>2, <1>4, IncreasingAppend DEF Decodes
  <2> HIDE DEF h, t
  <2>3. \A n \in R \cup {h}, m \in Elements(t) : n < m
    BY <1>2, <2>1
  <2>4. /\ dec'.pending = t /\ dec'.eos = dec.eos /\ next' = next /\ cur' = cur
    BY <1>4 DEF Decodes, t
  <2>5. R \cup {h} \cup Elements(t) = R \cup P
    BY <2>1
  <2> QED BY <1>2, <2>1, <2>2, <2>3, <2>4, <2>5 DEF SourceInv, Below
<1>5. CASE Reads /\ UNCHANGED dec
  BY <1>1, <1>2, <1>5 DEF Reads, SourceInv, Below
<1>6. CASE Reads /\ ~UNCHANGED dec
  <2>1. next \in 1 .. Last
    BY <1>6 DEF Reads, IInv, Types, DecTypeOK
  <2>2. /\ Elements(dec'.pending) = P \cup {next}
        /\ dec'.ready = dec.ready /\ dec'.eos = dec.eos /\ ~dec.eos
        /\ next' = next + 1 /\ cur = 0 /\ cur' = cur
    <3>1. Elements(Append(dec.pending, next)) = P \cup {next}
      BY <2>1, <1>1, AppendFacts
    <3> QED BY <3>1, <1>6 DEF Reads
  <2>3. IsIncreasing(dec'.pending)
    BY <1>1, <1>2, <1>6, IncreasingAppend DEF Reads
  <2>4. \A n \in R, m \in P \cup {next} : n < m
    BY <1>2
  <2>5. \A n \in R \cup (P \cup {next}) : n < next + 1
    BY <1>1, <1>2
  <2> QED BY <1>2, <2>2, <2>3, <2>4, <2>5 DEF SourceInv, Below
<1>7. CASE Marks
  BY <1>2, <1>7 DEF Marks, SourceInv, Below
<1>8. CASE Receives
  <2> DEFINE h == Head(dec.ready)
             t == Tail(dec.ready)
  <2>1. /\ h \in R /\ R = {h} \cup Elements(t)
        /\ \A e \in Elements(t) : h < e
        /\ IsIncreasing(t)
    BY <1>1, <1>2, <1>8, TailFacts, IncreasingTail DEF Receives
  <2> HIDE DEF h, t
  <2>2. /\ dec'.ready = t /\ dec'.pending = dec.pending /\ dec'.eos = dec.eos
        /\ next' = next /\ cur' = h
    BY <1>8 DEF Receives, h, t
  <2> QED BY <1>2, <2>1, <2>2 DEF SourceInv, Below
<1>9. CASE Finishes
  BY <1>2, <1>9 DEF Finishes, SourceInv, Below
<1> QED BY <1>3, <1>4, <1>5, <1>6, <1>7, <1>8, <1>9, FlowCases

LEMMA AccountStays ==
  ASSUME IInv, [Next]_vars
  PROVE  AccountInv'
<1> DEFINE R == Elements(dec.ready)
           P == Elements(dec.pending)
           W == Elements(written)
           T == Elements(sent)
<1>1. /\ Last \in Nat /\ next \in Int /\ cur \in 0 .. Last /\ cur \in Int
      /\ dec.ready \in Seq(1 .. Last) /\ dec.pending \in Seq(1 .. Last)
      /\ dec.pending \in Seq(Int) /\ sent \in Seq(Int)
      /\ written \in Seq(1 .. Last) /\ written \in Seq(Int) /\ W \subseteq Int /\ skipped \subseteq Int
  BY FlowTypes DEF IInv, Types
<1>2. /\ T = W \cup skipped \cup ({cur} \ {0}) \cup R \cup P
      /\ W \cap skipped = {}
      /\ \A n \in W \cup skipped : Past(n)
      /\ IsIncreasing(written)
  BY DEF IInv, AccountInv
<1>3. /\ \A n \in W \cup skipped : Past(n)'
      /\ \A n \in {cur} : n # 0 /\ cur' = 0 => Past(n)'
  BY <1>1, <1>2, PastStays
<1>4. CASE UNCHANGED flowVars
  BY <1>2, <1>3, <1>4 DEF flowVars, AccountInv
<1>5. CASE Decodes
  <2>1. Elements(dec'.ready) \cup Elements(dec'.pending) = R \cup P
    BY <1>1, <1>5, AppendFacts, TailFacts DEF Decodes
  <2> QED BY <1>2, <1>3, <1>5, <2>1 DEF Decodes, AccountInv
<1>6. CASE Reads
  <2>1. next \in 1 .. Last
    BY <1>6 DEF Reads, IInv, Types, DecTypeOK
  <2>2. \/ UNCHANGED <<dec, sent>>
        \/ /\ Elements(dec'.ready) = R
           /\ Elements(dec'.pending) = P \cup {next}
           /\ Elements(sent') = T \cup {next}
    <3>1. /\ Elements(Append(dec.pending, next)) = P \cup {next}
          /\ Elements(Append(sent, next)) = T \cup {next}
      BY <1>1, AppendElements
    <3> QED BY <3>1, <1>6 DEF Reads
  <2>3. UNCHANGED <<cur, written, skipped>>
    BY <1>6 DEF Reads
  <2>4. Elements(sent') = W \cup skipped \cup ({cur} \ {0})
                            \cup Elements(dec'.ready) \cup Elements(dec'.pending)
    BY <1>2, <2>2
  <2> QED BY <1>2, <1>3, <2>3, <2>4 DEF AccountInv
<1>7. CASE Marks
  BY <1>2, <1>3, <1>7 DEF Marks, AccountInv
<1>8. CASE Receives
  <2>1. /\ cur = 0 /\ cur' # 0 /\ R = {cur'} \cup Elements(dec'.ready)
        /\ UNCHANGED <<sent, written, skipped>> /\ dec'.pending = dec.pending
    BY <1>1, <1>8, TailFacts DEF Receives
  <2> QED BY <1>2, <1>3, <2>1 DEF AccountInv
<1>9. CASE Finishes /\ written' = Append(written, cur) /\ UNCHANGED skipped
  <2>1. cur # 0 /\ cur \in 1 .. Last /\ cur' = 0 /\ UNCHANGED <<dec, sent>>
    BY <1>1, <1>9 DEF Finishes, Frames
  <2>2. Elements(written') = W \cup {cur}
    <3>1. Elements(Append(written, cur)) = W \cup {cur}
      BY <1>1, <2>1, AppendFacts
    <3> QED BY <3>1, <1>9
  <2>3. \A n \in W \cup skipped : n < cur
    BY <1>2, <2>1 DEF Past
  <2>4. cur \notin W \cup skipped
    BY <1>1, <2>3
  <2>5. IsIncreasing(written')
    BY <1>1, <1>2, <1>9, <2>3, IncreasingAppend
  <2> HIDE DEF R, P, W, T
  <2>6. /\ T = (W \cup {cur}) \cup skipped \cup ({0} \ {0}) \cup R \cup P
        /\ (W \cup {cur}) \cap skipped = {}
        /\ \A n \in (W \cup {cur}) \cup skipped : Past(n)'
    BY <1>2, <1>3, <2>1, <2>4
  <2> QED BY <1>9, <2>1, <2>2, <2>5, <2>6 DEF AccountInv, R, P, W, T
<1>10. CASE Finishes /\ skipped' = skipped \cup {cur} /\ UNCHANGED written
  <2>1. cur # 0 /\ cur' = 0 /\ UNCHANGED <<dec, sent>>
    BY <1>1, <1>10 DEF Finishes, Frames
  <2>2. \A n \in W \cup skipped : n < cur
    BY <1>2, <2>1 DEF Past
  <2>3. cur \notin W
    BY <1>1, <2>2
  <2>4. \A n \in W \cup (skipped \cup {cur}) : Past(n)'
    BY <1>3, <2>1
  <2>5. /\ W \cap (skipped \cup {cur}) = {}
        /\ T = W \cup (skipped \cup {cur}) \cup ({0} \ {0}) \cup R \cup P
    BY <1>2, <2>1, <2>3
  <2> QED BY <1>2, <1>10, <2>1, <2>4, <2>5 DEF AccountInv
<1> QED BY <1>4, <1>5, <1>6, <1>7, <1>8, <1>9, <1>10, FlowCases DEF Finishes

LEMMA EndStays ==
  ASSUME IInv, [Next]_vars
  PROVE  EndInv'
<1>1. /\ result # "none" <=> pc = "done"
      /\ result = "ok" /\ ~stop => next > Last /\ Empty(dec)
      /\ dec.eos => next > Last
  BY DEF IInv, EndInv, SourceInv
<1> USE DEF EndInv, Empty, Finish, runVars, decVars, vars
<1>2. CASE StopSeen
  BY <1>1, <1>2 DEF StopSeen
<1>3. CASE ReceiveFrame
  BY <1>1, <1>3 DEF ReceiveFrame
<1>4. CASE ReceiveNothing
  BY <1>1, <1>4 DEF ReceiveNothing
<1>5. CASE ReceiveEnd
  BY <1>1, <1>5 DEF ReceiveEnd, NoMoreFrames
<1>6. CASE FrameToHost
  BY <1>1, <1>6 DEF FrameToHost
<1>7. CASE PostUpscale
  BY <1>1, <1>7 DEF PostUpscale
<1>8. CASE WriteDisplay
  BY <1>1, <1>8 DEF WriteDisplay, ReleaseRound
<1>9. CASE WriteFails
  BY <1>1, <1>9 DEF WriteFails, ReleaseRound
<1>10. CASE SkipFrame
  BY <1>1, <1>10 DEF SkipFrame, ReleaseRound
<1>11. CASE FeedStep
  BY <1>1, <1>11
     DEF FeedStep, FeedPacket, FeedEof, FeedFails, FeedNothing, ReceiveFails
<1>12. CASE DecoderWorks
  BY <1>1, <1>12 DEF DecoderWorks
<1>13. CASE PullDisplay
  BY <1>1, <1>13 DEF PullDisplay
<1>14. CASE RequestStop /\ UNCHANGED <<decVars, fileVars>>
  BY <1>1, <1>14 DEF RequestStop
<1>15. CASE UNCHANGED vars
  BY <1>1, <1>15
<1> QED
  BY <1>2, <1>3, <1>4, <1>5, <1>6, <1>7, <1>8, <1>9, <1>10, <1>11, <1>12,
     <1>13, <1>14, <1>15 DEF Next, LoopStep, Returned

(* A round goes through its places in order.                               *)
roundVars == <<cur, host, display, failed, target, mode>>
Between == {"head", "receive", "done"}

LEMMA RoundStays ==
  ASSUME IInv, [Next]_vars
  PROVE  RoundInv'
<1>1. Types /\ RoundInv
  BY DEF IInv
<1>2. /\ Last \in Nat /\ Target = Last + 1 /\ cur \in 0 .. Last
      /\ \A n \in Frames : n \in Int /\ n # Target /\ 0 - n # Target
                           /\ n > 0 /\ 0 - n < 0 /\ 0 - n # 0
                           /\ 0 - (0 - n) = n
  BY RunAssumption DEF IInv, Types, Target, Frames
<1>3. ASSUME pc \in Between, pc' \in Between, UNCHANGED roundVars
      PROVE  RoundInv'
  BY <1>1, <1>3 DEF RoundInv, Between, roundVars
<1>4. ASSUME UNCHANGED <<pc, roundVars>>
      PROVE  RoundInv'
  BY <1>1, <1>4 DEF RoundInv, roundVars, Picture, Upscale
<1> USE DEF Finish, runVars, decVars, fileVars, vars, roundVars, Between
<1>5. CASE StopSeen
  BY <1>3, <1>5 DEF StopSeen
<1>6. CASE ReceiveFrame
  <2>1. Head(dec.ready) \in Frames
    BY <1>1, <1>6, FlowTypes, TailFacts DEF ReceiveFrame, HasFrame, Frames
  <2> QED BY <1>1, <1>6, <2>1 DEF ReceiveFrame, RoundInv
<1>7. CASE ReceiveNothing
  BY <1>3, <1>7 DEF ReceiveNothing
<1>8. CASE ReceiveEnd
  BY <1>3, <1>8 DEF ReceiveEnd
<1>9. CASE FrameToHost
  <2>1. /\ pc = "host" /\ pc' = "upscale" /\ cur \in Frames /\ cur' = cur
        /\ host = 0 /\ display = 0 /\ display' = 0 /\ ~failed /\ mode' = mode
        /\ \/ host' = cur /\ failed' = failed
           \/ host' = 0 - cur /\ failed' = failed /\ ~Upscale
           \/ host' = 0 /\ failed'
    BY <1>1, <1>9 DEF FrameToHost, RoundInv
  <2> QED BY <1>2, <2>1 DEF RoundInv, Upscale
<1>10. CASE PostUpscale
  <2>1. /\ pc = "upscale" /\ pc' = "write" /\ cur \in Frames /\ cur' = cur
        /\ display = 0 /\ host' = host /\ mode' = mode
        /\ failed => display \in {0, host}
        /\ host = 0 => failed /\ display = 0
        /\ host # 0 => host = cur \/ host = 0 - cur
        /\ host # 0 /\ Upscale => host = cur
        /\ ~failed => host # 0
    BY <1>1, <1>10 DEF PostUpscale, RoundInv
  <2>2. \/ failed /\ failed' /\ display' = display
        \/ ~failed /\ ~failed' /\ ~Upscale /\ display' = host
        \/ ~failed /\ ~failed' /\ Upscale /\ SameSize /\ display' = host
        \/ /\ ~failed /\ ~failed' /\ Upscale /\ ~SameSize
           /\ display' = Target /\ target' = cur
        \/ ~failed /\ failed' /\ Upscale /\ display' = host
    BY <1>10 DEF PostUpscale, ScaledTo
  <2>3. host # 0 => host # Target /\ Picture(host)' = cur
    BY <1>2, <2>1 DEF Picture, Target
  <2>4. CASE failed'
    BY <2>1, <2>2, <2>4 DEF RoundInv, Upscale
  <2>5. CASE ~failed' /\ display' = Target /\ target' = cur /\ Upscale /\ ~SameSize
    BY <2>1, <2>2, <2>3, <2>5 DEF RoundInv, Upscale, Picture, Target
  <2>6. CASE ~failed' /\ display' = host /\ (~Upscale \/ SameSize)
    BY <2>1, <2>2, <2>3, <2>6 DEF RoundInv, Upscale, Picture, Target
  <2> QED BY <2>2, <2>4, <2>5, <2>6
<1>11. CASE WriteDisplay \/ WriteFails \/ SkipFrame
  BY <1>1, <1>11 DEF WriteDisplay, WriteFails, SkipFrame, ReleaseRound, RoundInv
<1>12. CASE FeedStep /\ UNCHANGED fileVars
  BY <1>3, <1>12
     DEF FeedStep, FeedPacket, FeedEof, FeedFails, FeedNothing, ReceiveFails
<1>13. CASE DecoderWorks
  BY <1>4, <1>13 DEF DecoderWorks
<1>14. CASE PullDisplay
  BY <1>4, <1>14 DEF PullDisplay
<1>15. CASE RequestStop /\ UNCHANGED <<decVars, fileVars>>
  BY <1>4, <1>15 DEF RequestStop
<1>16. CASE UNCHANGED vars
  BY <1>4, <1>16
<1> QED
  BY <1>5, <1>6, <1>7, <1>8, <1>9, <1>10, <1>11, <1>12, <1>13, <1>14,
     <1>15, <1>16 DEF Next, LoopStep, Returned

(* The port and its consumer.                                              *)
LEMMA ShownType ==
  ASSUME NEW s \in Seq(Int)
  PROVE  /\ ShownOf(s) \in Seq(Int) /\ Len(ShownOf(s)) = Len(s)
         /\ \A i \in 1 .. Len(s) : ShownOf(s)[i] = Abs(s[i])
<1>1. \A x \in Int : Abs(x) \in Int
  BY DEF Abs
<1>2. DOMAIN s = 1 .. Len(s) /\ \A i \in 1 .. Len(s) : s[i] \in Int
  OBVIOUS
<1>3. /\ ShownOf(s) \in [1 .. Len(s) -> Int] /\ Len(s) \in Nat
      /\ \A i \in 1 .. Len(s) : ShownOf(s)[i] = Abs(s[i])
  BY <1>1, <1>2 DEF ShownOf
<1>4. \E n \in Nat : ShownOf(s) \in [1 .. n -> Int]
  <2>1. Len(s) \in Nat
    OBVIOUS
  <2> QED BY <1>3, <2>1
<1>5. ShownOf(s) \in Seq(Int)
  <2>1. PICK n \in Nat : ShownOf(s) \in [1 .. n -> Int]
    BY <1>4
  <2>2. ShownOf(s) \in UNION {[1 .. m -> Int] : m \in Nat}
    BY <2>1
  <2> QED BY <2>2, SeqDef
<1>6. Len(ShownOf(s)) = Len(s)
  BY <1>3, <1>5
<1> QED BY <1>3, <1>5, <1>6

LEMMA ShownFacts ==
  ASSUME NEW s \in Seq(Int)
  PROVE  /\ ShownOf(s) \in Seq(Int)
         /\ \A x \in Int : ShownOf(Append(s, x)) = Append(ShownOf(s), Abs(x))
         /\ s # <<>> => /\ ShownOf(s) # <<>>
                        /\ Head(ShownOf(s)) = Abs(Head(s))
                        /\ ShownOf(Tail(s)) = Tail(ShownOf(s))
<1>1. \A x \in Int : Abs(x) \in Int
  BY DEF Abs
<1>2. /\ ShownOf(s) \in Seq(Int) /\ Len(ShownOf(s)) = Len(s)
      /\ \A i \in 1 .. Len(s) : ShownOf(s)[i] = Abs(s[i])
  BY ShownType
<1>3. ASSUME NEW x \in Int
      PROVE  ShownOf(Append(s, x)) = Append(ShownOf(s), Abs(x))
  <2> DEFINE t == Append(s, x)
             u == Append(ShownOf(s), Abs(x))
  <2>1. /\ t \in Seq(Int) /\ Len(t) = Len(s) + 1 /\ Len(s) \in Nat
        /\ \A i \in 1 .. Len(s) : t[i] = s[i]
        /\ t[Len(s) + 1] = x
    OBVIOUS
  <2>2. /\ u \in Seq(Int) /\ Len(u) = Len(s) + 1
        /\ \A i \in 1 .. Len(s) : u[i] = ShownOf(s)[i]
        /\ u[Len(s) + 1] = Abs(x)
    <3>1. ShownOf(s) \in Seq(Int) /\ Abs(x) \in Int /\ Len(ShownOf(s)) = Len(s)
      BY <1>1, <1>2
    <3> QED BY <3>1, AppendProperties
  <2> HIDE DEF t, u
  <2>3. ShownOf(t) \in Seq(Int) /\ Len(ShownOf(t)) = Len(t)
    BY <2>1, ShownType
  <2>4. ASSUME NEW i \in 1 .. Len(t) PROVE ShownOf(t)[i] = u[i]
    <3>1. ShownOf(t)[i] = Abs(t[i])
      BY <2>1, ShownType
    <3>2. i \in 1 .. Len(s) \/ i = Len(s) + 1
      BY <2>1
    <3> QED BY <3>1, <3>2, <1>2, <2>1, <2>2
  <2>5. /\ u \in Seq(Int) /\ ShownOf(t) \in Seq(Int)
        /\ Len(ShownOf(t)) = Len(u)
        /\ \A i \in 1 .. Len(ShownOf(t)) : ShownOf(t)[i] = u[i]
    BY <2>1, <2>2, <2>3, <2>4
  <2>6. ShownOf(t) = u
    BY <2>5, SeqEqual
  <2> QED BY <2>6 DEF t, u
<1>4. ASSUME s # <<>>
      PROVE  /\ ShownOf(s) # <<>> /\ Head(ShownOf(s)) = Abs(Head(s))
             /\ ShownOf(Tail(s)) = Tail(ShownOf(s))
  <2> DEFINE t == Tail(s)
             u == Tail(ShownOf(s))
  <2>1. /\ t \in Seq(Int) /\ Len(t) = Len(s) - 1 /\ Len(s) \in Nat \ {0}
        /\ \A i \in 1 .. Len(s) - 1 : t[i] = s[i + 1]
        /\ Head(s) = s[1]
    BY <1>4
  <2>2. ShownOf(s) # <<>>
    BY <1>2, <2>1
  <2>3. /\ u \in Seq(Int) /\ Len(u) = Len(s) - 1
        /\ \A i \in 1 .. Len(s) - 1 : u[i] = ShownOf(s)[i + 1]
        /\ Head(ShownOf(s)) = ShownOf(s)[1]
    BY <1>2, <2>1, <2>2
  <2> HIDE DEF t, u
  <2>4. ShownOf(t) \in Seq(Int) /\ Len(ShownOf(t)) = Len(t)
    BY <2>1, ShownType
  <2>5. ASSUME NEW i \in 1 .. Len(s) - 1 PROVE ShownOf(t)[i] = u[i]
    <3>1. ShownOf(t)[i] = Abs(t[i])
      BY <2>1, ShownType
    <3>2. i + 1 \in 1 .. Len(s)
      BY <2>1
    <3> QED BY <3>1, <3>2, <1>2, <2>1, <2>3
  <2>6. ShownOf(t) = u
    BY <2>1, <2>3, <2>4, <2>5, SeqEqual
  <2>7. 1 \in 1 .. Len(s)
    BY <2>1
  <2> QED BY <1>2, <2>1, <2>2, <2>3, <2>6, <2>7 DEF t, u
<1> QED BY <1>2, <1>3, <1>4

(* What a step does to the port and the buffers it shows.                  *)
portVars == <<port, pulled, target, mode>>

Pulls ==
  /\ port # <<>>
  /\ port' = Tail(port)
  /\ pulled' = Append(pulled, Picture(Head(port)))
  /\ UNCHANGED <<target, mode>>

Draws ==
  /\ cur # 0 /\ Upscale /\ ~SameSize
  /\ target' = cur
  /\ UNCHANGED <<port, pulled, mode>>

Offers ==
  /\ cur \in Frames /\ cur' = 0
  /\ Upscale /\ ~SameSize => display = Target /\ target # 0
  /\ ~Upscale \/ SameSize => display \in {cur, 0 - cur}
  /\ display \in {host, Target}
  /\ PushOutput(display)
  /\ UNCHANGED <<pulled, target, mode>>

LEMMA PortCases ==
  ASSUME IInv, [Next]_vars
  PROVE  \/ UNCHANGED portVars
         \/ Pulls \/ Draws \/ Offers
<1> USE DEF portVars, runVars, decVars, fileVars, vars, Finish
<1>1. CASE StopSeen
  BY <1>1 DEF StopSeen
<1>2. CASE ReceiveFrame
  BY <1>2 DEF ReceiveFrame
<1>3. CASE ReceiveNothing
  BY <1>3 DEF ReceiveNothing
<1>4. CASE ReceiveEnd
  BY <1>4 DEF ReceiveEnd
<1>5. CASE FrameToHost
  BY <1>5 DEF FrameToHost
<1>6. CASE PostUpscale
  <2>1. cur \in Frames /\ cur # 0
    BY <1>6 DEF PostUpscale, IInv, RoundInv, Frames
  <2> QED BY <1>6, <2>1, RunAssumption
          DEF PostUpscale, ScaledTo, Draws, IInv, RoundInv, Target, Frames
<1>7. ASSUME pc = "write", ~failed
      PROVE  /\ cur \in Frames
             /\ Upscale /\ ~SameSize => display = Target /\ target # 0
             /\ ~Upscale \/ SameSize => display \in {cur, 0 - cur}
             /\ display \in {host, Target}
  <2>1. /\ cur \in Frames /\ host \in {cur, 0 - cur}
        /\ Picture(display) = cur /\ display \in {host, Target}
        /\ display = Target <=> Upscale /\ ~SameSize
    BY <1>7 DEF IInv, RoundInv
  <2>2. cur # 0
    BY <2>1 DEF Frames
  <2> QED BY <2>1, <2>2 DEF Picture
<1>8. CASE WriteDisplay
  BY <1>7, <1>8 DEF WriteDisplay, ReleaseRound, Offers
<1>9. CASE WriteFails
  BY <1>7, <1>9 DEF WriteFails, ReleaseRound, Offers
<1>10. CASE SkipFrame
  BY <1>10 DEF SkipFrame
<1>11. CASE FeedStep /\ UNCHANGED fileVars
  BY <1>11
     DEF FeedStep, FeedPacket, FeedEof, FeedFails, FeedNothing, ReceiveFails
<1>12. CASE DecoderWorks
  BY <1>12 DEF DecoderWorks
<1>13. CASE PullDisplay
  BY <1>13 DEF PullDisplay, Pulls
<1>14. CASE RequestStop /\ UNCHANGED <<decVars, fileVars>>
  BY <1>14 DEF RequestStop
<1>15. CASE UNCHANGED vars
  BY <1>15
<1> QED
  BY <1>1, <1>2, <1>3, <1>4, <1>5, <1>6, <1>8, <1>9, <1>10, <1>11, <1>12,
     <1>13, <1>14, <1>15 DEF Next, LoopStep, Returned

(* Types of the port, and what the port's items are.                       *)
LEMMA PortTypes ==
  ASSUME Types
  PROVE  /\ Last \in Nat /\ Target \in Int /\ Target \in Objects
         /\ \A n \in Frames : /\ n \in Objects /\ 0 - n \in Objects /\ n \in Int
                              /\ n > 0 /\ n # Target /\ 0 - n # Target
                              /\ 0 - n # n /\ Abs(n) = n /\ Abs(0 - n) = n
         /\ \A o \in Objects : o \in Int /\ o # 0
         /\ port \in Seq(Objects) /\ port \in Seq(Int) /\ pulled \in Seq(Int)
         /\ Elements(port) \subseteq Objects
<1>1. Last \in Nat /\ Target = Last + 1 /\ Objects = ((0 - Last) .. Target) \ {0}
  BY RunAssumption DEF Objects, Target
<1>2. \A o \in Objects : o \in Int /\ o # 0
  BY <1>1
<1>3. Target \in Int /\ Target \in Objects
  BY <1>1
<1>4. \A n \in Frames : /\ n \in Objects /\ 0 - n \in Objects /\ n \in Int
                        /\ n > 0 /\ n # Target /\ 0 - n # Target
                        /\ 0 - n # n /\ Abs(n) = n /\ Abs(0 - n) = n
  BY <1>1 DEF Frames, Abs
<1>5. port \in Seq(Objects) /\ pulled \in Seq(Int)
  BY DEF Types
<1>6. port \in Seq(Int)
  BY <1>2, <1>5
<1> QED BY <1>1, <1>2, <1>3, <1>4, <1>5, <1>6, ElementsIn

LEMMA PortStays ==
  ASSUME IInv, [Next]_vars
  PROVE  PortInv'
<1> DEFINE V == Elements(Shown)
<1>1. /\ Target \in Int
      /\ \A n \in Frames : /\ n \in Objects /\ 0 - n \in Objects /\ n \in Int
                           /\ n > 0 /\ n # Target /\ 0 - n # Target
                           /\ 0 - n # n /\ Abs(n) = n /\ Abs(0 - n) = n
      /\ port \in Seq(Objects) /\ port \in Seq(Int) /\ pulled \in Seq(Int)
  BY PortTypes DEF IInv
<1>2. /\ Shown \in Seq(Int) /\ V \subseteq Int /\ Elements(pulled) \subseteq Int
  <2>1. Shown \in Seq(Int)
    BY <1>1, ShownFacts DEF Shown
  <2> QED BY <2>1, <1>1, ElementsIn
<1>3. /\ Upscale /\ ~SameSize => \A o \in Elements(port) : o = Target
      /\ ~Upscale \/ SameSize =>
           /\ Target \notin Elements(port)
           /\ IsIncreasing(Shown)
           /\ \A n \in V : Past(n)
      /\ ~Upscale =>
           /\ IsIncreasing(pulled)
           /\ \A n \in Elements(pulled) : Past(n) /\ \A m \in V : n < m
      /\ target = 0 => Target \notin Elements(port)
      /\ target # 0 => Upscale /\ ~SameSize
  BY DEF IInv, PortInv
<1>4. \A n \in Int : Past(n) \/ (n = cur /\ n # 0 /\ cur' = 0) => Past(n)'
  BY PastStays
<1>5. /\ ~Upscale \/ SameSize => \A n \in V : Past(n)'
      /\ ~Upscale => \A n \in Elements(pulled) : Past(n)'
  BY <1>2, <1>3, <1>4
<1>6. CASE UNCHANGED portVars
  <2>1. Shown' = Shown /\ Upscale' = Upscale
    BY <1>6 DEF portVars, Shown, Upscale
  <2> QED BY <1>3, <1>5, <1>6, <2>1 DEF portVars, PortInv
<1>7. CASE Pulls
  <2> DEFINE h == Head(port)
             t == Tail(port)
  <2>1. /\ Elements(port) = {h} \cup Elements(t) /\ h \in Objects
        /\ port' = t /\ target' = target /\ Upscale' = Upscale
        /\ pulled' = Append(pulled, Picture(h))
    BY <1>1, <1>7, TailFacts DEF Pulls, Upscale
  <2>2. /\ Shown' = Tail(Shown) /\ Shown # <<>> /\ Head(Shown) = Abs(h)
    BY <1>1, <1>7, ShownFacts DEF Pulls, Shown
  <2>3. V = {Abs(h)} \cup Elements(Shown')
    BY <1>2, <2>2, TailFacts
  <2> HIDE DEF h, t, V
  <2>4. ASSUME ~Upscale \/ SameSize
        PROVE  /\ IsIncreasing(Shown') /\ Abs(h) \in Int
               /\ \A n \in {Abs(h)} : Past(n)'
               /\ \A e \in Elements(Shown') : Abs(h) < e /\ Past(e)'
               /\ Target \notin Elements(t) /\ Picture(h) = Abs(h)
    <3>1. /\ IsIncreasing(Shown') /\ \A e \in Elements(Shown') : Abs(h) < e
      BY <1>2, <1>3, <2>2, <2>4, IncreasingTail
    <3>2. h # Target /\ Target \notin Elements(t)
      BY <1>3, <2>1, <2>4
    <3>3. Abs(h) \in Int /\ (\A n \in {Abs(h)} : Past(n)') /\ \A e \in Elements(Shown') : Past(e)'
      BY <1>2, <1>5, <2>3, <2>4
    <3> QED BY <3>1, <3>2, <3>3 DEF Picture, Abs
  <2>5. ASSUME ~Upscale
        PROVE  /\ IsIncreasing(pulled')
               /\ Elements(pulled') = Elements(pulled) \cup {Abs(h)}
    <3>1. \A e \in Elements(pulled) : e < Abs(h)
      BY <1>3, <2>3, <2>5
    <3>2. pulled' = Append(pulled, Abs(h)) /\ Abs(h) \in Int /\ IsIncreasing(pulled)
      BY <1>3, <2>1, <2>4, <2>5
    <3> QED BY <1>1, <3>1, <3>2, IncreasingAppend, AppendElements
  <2>6. ~Upscale => \A n \in Elements(pulled) \cup {Abs(h)} :
                      Past(n)' /\ \A m \in Elements(Shown') : n < m
    BY <1>3, <1>5, <2>3, <2>4
  <2> QED BY <1>3, <2>1, <2>4, <2>5, <2>6 DEF PortInv
<1>8. CASE Draws
  <2>1. Shown' = Shown /\ Upscale' = Upscale /\ port' = port /\ target' # 0
    BY <1>8 DEF Draws, Shown, Upscale
  <2> QED BY <1>3, <1>5, <1>8, <2>1 DEF Draws, PortInv
<1>9. CASE Offers /\ UNCHANGED port
  <2>1. /\ Shown' = Shown /\ Upscale' = Upscale
        /\ UNCHANGED <<port, pulled, target>>
    BY <1>9 DEF Offers, Shown, Upscale
  <2> QED BY <1>3, <1>5, <2>1 DEF PortInv
<1>10. CASE Offers /\ port' = Append(port, display)
  <2>1. /\ cur \in Frames /\ cur' = 0 /\ cur # 0 /\ cur \in Int
        /\ UNCHANGED <<pulled, target>> /\ Upscale' = Upscale
        /\ Upscale /\ ~SameSize => display = Target /\ target # 0
        /\ ~Upscale \/ SameSize => display \in {cur, 0 - cur}
    BY <1>1, <1>10 DEF Offers, Upscale
  <2>2. \A n \in {cur} : Past(n)'
    BY <1>4, <2>1
  <2>3. display \in Int
    BY <1>1, <2>1
  <2>4. Elements(port') = Elements(port) \cup {display}
    BY <1>1, <1>10, <2>3, AppendElements
  <2>5. ASSUME ~Upscale \/ SameSize
        PROVE  /\ IsIncreasing(Shown') /\ Elements(Shown') = V \cup {cur}
               /\ display # Target
    <3>1. Abs(display) = cur /\ display # Target
      BY <1>1, <2>1, <2>5
    <3>2. Shown' = Append(Shown, cur)
      BY <1>1, <1>10, <2>3, <3>1, ShownFacts DEF Shown
    <3>3. \A n \in V : n < cur
      BY <1>3, <2>1, <2>5 DEF Past
    <3> QED BY <1>2, <1>3, <2>1, <2>5, <3>1, <3>2, <3>3, IncreasingAppend,
               AppendElements
  <2>6. ~Upscale => \A n \in Elements(pulled) : n < cur
    BY <1>3, <2>1 DEF Past
  <2> QED BY <1>3, <1>5, <2>1, <2>2, <2>4, <2>5, <2>6 DEF PortInv
<1> QED BY <1>6, <1>7, <1>8, <1>9, <1>10, PortCases DEF Offers, PushOutput

(* What the port holds is neither the frame at hand, nor its host copy, nor *)
(* a frame still in the decoder.                                           *)
LEMMA NotQueued ==
  ASSUME IInv, ~SameSize, NEW n \in Frames,
         n \in Elements(dec.ready) \/ (n = cur /\ ~Upscale)
  PROVE  n \notin Elements(port) /\ (~Upscale => 0 - n \notin Elements(port))
<1>1. /\ n # Target /\ Abs(n) = n /\ Abs(0 - n) = n /\ n \in Int /\ n # 0
      /\ port \in Seq(Int)
  BY PortTypes DEF IInv
<1>2. CASE Upscale
  BY <1>1, <1>2 DEF IInv, PortInv
<1>3. CASE ~Upscale
  <2>1. ASSUME NEW e \in Elements(port) PROVE Past(Abs(e))
    <3>1. PICK i \in DOMAIN port : e = port[i]
      BY DEF Elements
    <3>2. i \in DOMAIN Shown /\ Shown[i] = Abs(e)
      BY <3>1 DEF Shown, ShownOf
    <3>3. Abs(e) \in Elements(Shown)
      BY <3>2 DEF Elements
    <3> QED BY <1>3, <3>3 DEF IInv, PortInv
  <2>2. ~Past(n)
    BY <1>1, <1>3 DEF Past, Below
  <2> QED BY <1>1, <1>3, <2>1, <2>2
<1> QED BY <1>2, <1>3

LEMMA OneFacts ==
  ASSUME NEW o, NEW a, NEW b
  PROVE  /\ o = a => One(o = a) = 1
         /\ o # a => One(o = a) = 0
         /\ o = a /\ b # 0 => One(o = a /\ b # 0) = 1
         /\ o # a \/ b = 0 => One(o = a /\ b # 0) = 0
         /\ o = a /\ a # b => One(o = a /\ a # b) = 1
         /\ o # a \/ a = b => One(o = a /\ a # b) = 0
BY DEF One

LEMMA OneType ==
  ASSUME NEW b
  PROVE  One(b) \in Int
BY DEF One

LEMMA DropFacts ==
  ASSUME NEW r \in [Objects -> Int], NEW x \in Objects \cup {0}
  PROVE  /\ Drop(r, x) \in [Objects -> Int]
         /\ \A o \in Objects : Drop(r, x)[o] = r[o] - One(o = x)
<1>1. CASE x = 0
  <2>1. Drop(r, x) = r
    BY <1>1 DEF Drop
  <2>2. ASSUME NEW o \in Objects PROVE One(o = x) = 0
    <3>1. o # x
      BY <1>1 DEF Objects
    <3> QED BY <3>1, OneFacts
  <2> QED BY <2>1, <2>2
<1>2. CASE x # 0
  <2>1. Drop(r, x) = [r EXCEPT ![x] = @ - 1] /\ x \in Objects
    BY <1>2 DEF Drop
  <2>2. ASSUME NEW o \in Objects PROVE Drop(r, x)[o] = r[o] - One(o = x)
    <3>1. CASE o = x
      BY <2>1, <3>1, OneFacts
    <3>2. CASE o # x
      <4>1. Drop(r, x)[o] = r[o] /\ One(o = x) = 0 /\ r[o] \in Int
        BY <2>1, <3>2, OneFacts
      <4> QED BY <4>1
    <3> QED BY <3>1, <3>2
  <2> QED BY <2>1, <2>2
<1> QED BY <1>1, <1>2

LEMMA RefsStays ==
  ASSUME IInv, [Next]_vars
  PROVE  RefsInv'
<1> SUFFICES ASSUME ~SameSize, NEW o \in Objects
             PROVE  refs'[o] = Owed(o)'
  BY DEF RefsInv
<1> DEFINE q == Count(port, o)
           t == One(o = Target /\ target # 0)
           c == One(o = cur)
           h == One(o = host)
           d == One(o = display /\ display # host)
<1>1. /\ refs[o] = q + t + c + h + d
      /\ refs \in [Objects -> Int] /\ q \in Nat /\ refs[o] \in Int
      /\ t \in Int /\ c \in Int /\ h \in Int /\ d \in Int
  <2>1. refs[o] = Owed(o)
    BY DEF IInv, RefsInv
  <2>2. q \in Nat
    BY PortTypes, CountType DEF IInv
  <2>3. t \in Int /\ c \in Int /\ h \in Int /\ d \in Int
    BY OneType
  <2> QED BY <2>1, <2>2, <2>3 DEF Owed, Queued, Count, IInv, Types
<1>2. /\ o = Target /\ target # 0 => t = 1
      /\ o # Target \/ target = 0 => t = 0
      /\ o = cur => c = 1
      /\ o # cur => c = 0
      /\ o = host => h = 1
      /\ o # host => h = 0
      /\ o = display /\ display # host => d = 1
      /\ o # display \/ display = host => d = 0
  BY OneFacts
<1> DEFINE qn == Count(port', o)
           tn == One(o = Target /\ target' # 0)
           cn == One(o = cur')
           hn == One(o = host')
           dn == One(o = display' /\ display' # host')
<1>3. Owed(o)' = qn + tn + cn + hn + dn
  BY DEF Owed, Queued, Count, Target
<1>4. /\ o = Target /\ target' # 0 => tn = 1
      /\ o # Target \/ target' = 0 => tn = 0
      /\ o = cur' => cn = 1
      /\ o # cur' => cn = 0
      /\ o = host' => hn = 1
      /\ o # host' => hn = 0
      /\ o = display' /\ display' # host' => dn = 1
      /\ o # display' \/ display' = host' => dn = 0
  BY OneFacts
<1>5. /\ port' = port => qn = q
      /\ target' = target => tn = t
      /\ cur' = cur => cn = c
      /\ host' = host => hn = h
      /\ display' = display /\ host' = host => dn = d
  OBVIOUS
<1>6. /\ o # 0 /\ o \in Int /\ Target \in Int /\ Target \in Objects
      /\ \A n \in Frames : /\ n \in Objects /\ 0 - n \in Objects /\ n \in Int
                           /\ n > 0 /\ n # Target /\ 0 - n # Target /\ 0 - n # n
      /\ port \in Seq(Objects)
  BY PortTypes DEF IInv
<1> HIDE DEF q, t, c, h, d, qn, tn, cn, hn, dn
<1>7. ASSUME UNCHANGED <<refs, port, target, cur, host, display>>
      PROVE  refs'[o] = Owed(o)'
  BY <1>1, <1>3, <1>5, <1>7
<1> USE DEF runVars, decVars, fileVars, vars, Finish
<1>8. CASE StopSeen
  BY <1>7, <1>8 DEF StopSeen
<1>9. CASE ReceiveFrame
  <2> DEFINE f == Head(dec.ready)
  <2>1. f \in Frames /\ f \in Elements(dec.ready)
    BY <1>9, FlowTypes, TailFacts DEF IInv, ReceiveFrame, HasFrame, Frames
  <2>2. /\ refs' = [refs EXCEPT ![f] = 1] /\ cur' = f
        /\ UNCHANGED <<port, target, host, display>>
        /\ cur = 0 /\ host = 0 /\ display = 0
    BY <1>9 DEF ReceiveFrame, IInv, RoundInv
  <2> HIDE DEF f
  <2>3. c = 0 /\ hn = h /\ h = 0 /\ dn = d /\ d = 0 /\ qn = q /\ tn = t
    BY <1>2, <1>5, <1>6, <2>2
  <2>4. CASE o = f
    <3>1. q = 0
      BY <2>1, <2>4, NotQueued, CountType, <1>6 DEF q
    <3>2. t = 0 /\ cn = 1 /\ refs'[o] = 1
      BY <1>1, <1>2, <1>4, <1>6, <2>1, <2>2, <2>4
    <3> QED BY <1>3, <2>3, <3>1, <3>2
  <2>5. CASE o # f
    <3>1. cn = 0 /\ refs'[o] = refs[o]
      BY <1>1, <1>4, <2>2, <2>5
    <3> QED BY <1>1, <1>3, <2>3, <3>1
  <2> QED BY <2>4, <2>5
<1>10. CASE ReceiveNothing
  BY <1>7, <1>10 DEF ReceiveNothing
<1>11. CASE ReceiveEnd
  BY <1>7, <1>11 DEF ReceiveEnd
<1>12. CASE FrameToHost
  <2>1. /\ cur \in Frames /\ host = 0 /\ display = 0 /\ display' = 0
        /\ UNCHANGED <<port, target, cur>>
        /\ \/ host' = cur /\ refs' = [refs EXCEPT ![cur] = @ + 1]
           \/ host' = 0 - cur /\ refs' = [refs EXCEPT ![0 - cur] = 1] /\ ~Upscale
           \/ UNCHANGED <<host, refs>>
    BY <1>12 DEF FrameToHost, IInv, RoundInv
  <2>2. h = 0 /\ d = 0 /\ dn = 0 /\ qn = q /\ tn = t /\ cn = c
    BY <1>2, <1>4, <1>5, <1>6, <2>1
  <2>3. CASE UNCHANGED <<host, refs>>
    BY <1>7, <2>1, <2>3
  <2>4. CASE host' = cur /\ refs' = [refs EXCEPT ![cur] = @ + 1]
    <3>1. CASE o = cur
      <4>1. refs'[o] = refs[o] + 1 /\ hn = 1
        BY <1>1, <1>4, <2>4, <3>1
      <4> QED BY <1>1, <1>3, <2>2, <4>1
    <3>2. CASE o # cur
      <4>1. refs'[o] = refs[o] /\ hn = 0
        BY <1>1, <1>4, <2>4, <3>2
      <4> QED BY <1>1, <1>3, <2>2, <4>1
    <3> QED BY <3>1, <3>2
  <2>5. CASE /\ host' = 0 - cur /\ refs' = [refs EXCEPT ![0 - cur] = 1]
             /\ ~Upscale
    <3>1. CASE o = 0 - cur
      <4>1. refs'[o] = 1 /\ hn = 1 /\ t = 0 /\ c = 0
        BY <1>1, <1>2, <1>4, <1>6, <2>1, <2>5, <3>1
      <4>2. q = 0
        BY <1>6, <2>1, <2>5, <3>1, NotQueued, CountType DEF q
      <4> QED BY <1>3, <2>2, <4>1, <4>2
    <3>2. CASE o # 0 - cur
      <4>1. refs'[o] = refs[o] /\ hn = 0
        BY <1>1, <1>4, <2>5, <3>2
      <4> QED BY <1>1, <1>3, <2>2, <4>1
    <3> QED BY <3>1, <3>2
  <2> QED BY <2>1, <2>3, <2>4, <2>5
<1>13. CASE PostUpscale
  <2>1. /\ cur \in Frames /\ cur # 0 /\ display = 0
        /\ UNCHANGED <<port, cur, host>>
        /\ host # 0 /\ Upscale => host = cur
        /\ ~failed => host # 0
    BY <1>6, <1>13 DEF PostUpscale, IInv, RoundInv
  <2>2. \/ UNCHANGED <<display, refs, target>>
        \/ display' = host /\ UNCHANGED <<refs, target>>
        \/ /\ ~failed /\ Upscale
           /\ display' = Target /\ target' = cur
           /\ refs' = [refs EXCEPT ![Target] = IF @ = 0 THEN 2 ELSE @ + 1]
        \/ /\ display' = host /\ target' = cur
           /\ refs' = [refs EXCEPT ![Target] = IF @ = 0 THEN 1 ELSE @]
    BY <1>13 DEF PostUpscale, ScaledTo
  <2>3. d = 0 /\ qn = q /\ cn = c /\ hn = h
    BY <1>2, <1>5, <1>6, <2>1
  <2>4. CASE UNCHANGED <<display, refs, target>>
    BY <1>7, <2>1, <2>4
  <2>5. CASE display' = host /\ UNCHANGED <<refs, target>>
    <3>1. dn = 0 /\ tn = t /\ refs'[o] = refs[o]
      BY <1>4, <1>5, <2>1, <2>5
    <3> QED BY <1>1, <1>3, <2>3, <3>1
  <2>6. ASSUME o = Target, target' = cur
        PROVE  /\ tn = 1 /\ c = 0 /\ t \in {0, 1}
               /\ target = 0 => q = 0 /\ t = 0
               /\ target # 0 => t = 1
    <3>1. target = 0 => Target \notin Elements(port)
      BY DEF IInv, PortInv
    <3>2. target = 0 => q = 0
      BY <1>6, <2>6, <3>1, CountType DEF q
    <3> QED BY <1>2, <1>4, <1>6, <2>1, <2>6, <3>2
  <2>7. CASE /\ ~failed /\ Upscale
             /\ display' = Target /\ target' = cur
             /\ refs' = [refs EXCEPT ![Target] = IF @ = 0 THEN 2 ELSE @ + 1]
    <3>1. host = cur /\ host # Target
      BY <1>6, <2>1, <2>7
    <3>2. CASE o = Target
      <4>1. /\ dn = 1 /\ h = 0
            /\ refs'[o] = IF refs[o] = 0 THEN 2 ELSE refs[o] + 1
        BY <1>1, <1>2, <1>4, <2>1, <2>7, <3>1, <3>2
      <4>2. CASE target = 0
        <5>1. q = 0 /\ t = 0 /\ c = 0 /\ tn = 1
          BY <2>6, <2>7, <3>2, <4>2
        <5>2. refs[o] = 0
          BY <1>1, <2>3, <4>1, <5>1
        <5> QED BY <1>3, <2>3, <4>1, <5>1, <5>2
      <4>3. CASE target # 0
        <5>1. t = 1 /\ c = 0 /\ tn = 1
          BY <2>6, <2>7, <3>2, <4>3
        <5>2. refs[o] = q + 1 /\ refs[o] # 0
          BY <1>1, <2>3, <4>1, <5>1
        <5> QED BY <1>1, <1>3, <2>3, <4>1, <5>1, <5>2
      <4> QED BY <4>2, <4>3
    <3>3. CASE o # Target
      <4>1. dn = 0 /\ tn = 0 /\ t = 0 /\ refs'[o] = refs[o]
        BY <1>1, <1>2, <1>4, <2>7, <3>3
      <4> QED BY <1>1, <1>3, <2>3, <4>1
    <3> QED BY <3>2, <3>3
  <2>8. CASE /\ display' = host /\ target' = cur
             /\ refs' = [refs EXCEPT ![Target] = IF @ = 0 THEN 1 ELSE @]
    <3>1. dn = 0
      BY <1>4, <2>1, <2>8
    <3>2. CASE o = Target
      <4>1. /\ refs'[o] = IF refs[o] = 0 THEN 1 ELSE refs[o]
            /\ h \in {0, 1}
        BY <1>1, <1>2, <2>8, <3>2
      <4>2. h = 0
        <5>1. host \in {0, cur, 0 - cur}
          BY <1>13 DEF PostUpscale, IInv, RoundInv
        <5> QED BY <1>2, <1>6, <2>1, <3>2, <5>1
      <4>3. CASE target = 0
        <5>1. q = 0 /\ t = 0 /\ c = 0 /\ tn = 1
          BY <2>6, <2>8, <3>2, <4>3
        <5>2. refs[o] = 0
          BY <1>1, <2>3, <4>2, <5>1
        <5> QED BY <1>3, <2>3, <3>1, <4>1, <4>2, <5>1, <5>2
      <4>4. CASE target # 0
        <5>1. t = 1 /\ c = 0 /\ tn = 1
          BY <2>6, <2>8, <3>2, <4>4
        <5>2. refs[o] = q + 1 /\ refs[o] # 0
          BY <1>1, <2>3, <4>2, <5>1
        <5> QED BY <1>1, <1>3, <2>3, <3>1, <4>1, <4>2, <5>1, <5>2
      <4> QED BY <4>3, <4>4
    <3>3. CASE o # Target
      <4>1. tn = 0 /\ t = 0 /\ refs'[o] = refs[o]
        BY <1>1, <1>2, <1>4, <2>8, <3>3
      <4> QED BY <1>1, <1>3, <2>3, <3>1, <4>1
    <3> QED BY <3>2, <3>3
  <2> QED BY <2>2, <2>4, <2>5, <2>7, <2>8
<1>14. ASSUME NEW r \in [Objects -> Int], refs' = Released(r),
              cur' = 0, host' = 0, display' = 0, target' = target,
              r[o] = refs[o] + (qn - q), qn \in Int
       PROVE  refs'[o] = Owed(o)'
  <2>1. /\ cur \in Objects \cup {0} /\ host \in Objects \cup {0}
        /\ display \in Objects \cup {0}
    BY <1>6 DEF IInv, Types, Frames
  <2> DEFINE r1 == IF display # host THEN Drop(r, display) ELSE r
             r2 == Drop(r1, host)
  <2>2. r1 \in [Objects -> Int] /\ r1[o] = r[o] - d
    <3>1. CASE display # host
      <4>1. d = One(o = display)
        BY <1>2, <3>1, OneFacts
      <4> QED BY <2>1, <3>1, <4>1, DropFacts
    <3>2. CASE display = host
      <4>1. d = 0 /\ r1 = r /\ r[o] \in Int
        BY <1>2, <3>2
      <4> QED BY <4>1
    <3> QED BY <3>1, <3>2
  <2> HIDE DEF r1
  <2>3. r2 \in [Objects -> Int] /\ r2[o] = r1[o] - h
    BY <2>1, <2>2, DropFacts DEF h
  <2> HIDE DEF r2
  <2>4. refs' = Drop(r2, cur)
    BY <1>14 DEF Released, r1, r2
  <2>5. refs'[o] = r2[o] - c
    BY <2>1, <2>3, <2>4, DropFacts DEF c
  <2>6. cn = 0 /\ hn = 0 /\ dn = 0 /\ tn = t
    BY <1>4, <1>5, <1>6, <1>14
  <2>7. r[o] \in Int /\ r1[o] \in Int /\ r2[o] \in Int
    BY <2>2, <2>3
  <2> QED BY <1>1, <1>3, <1>14, <2>2, <2>3, <2>5, <2>6, <2>7
<1>15. CASE WriteDisplay \/ WriteFails
  <2> DEFINE r == IF port' = port THEN refs
                  ELSE [refs EXCEPT ![display] = @ + 1]
  <2>1. /\ refs' = Released(r) /\ cur' = 0 /\ host' = 0 /\ display' = 0
        /\ target' = target /\ PushOutput(display) /\ pc = "write" /\ ~failed
    BY <1>15 DEF WriteDisplay, WriteFails, ReleaseRound
  <2>2. display \in Objects
    BY <1>6, <2>1 DEF IInv, RoundInv, Types
  <2>3. r \in [Objects -> Int]
    BY <1>1, <2>2
  <2>4. CASE port' = port
    <3>1. r = refs /\ qn = q
      BY <1>5, <2>4
    <3>2. r[o] = refs[o] + (qn - q) /\ qn \in Int
      BY <1>1, <3>1
    <3> HIDE DEF r
    <3> QED BY <1>14, <2>1, <2>3, <3>2
  <2>5. CASE port' # port
    <3>1. port' = Append(port, display)
      BY <2>1, <2>5 DEF PushOutput
    <3>2. qn = q + One(o = display)
      BY <1>6, <2>2, <3>1, CountAppend DEF q, qn
    <3>3. r = [refs EXCEPT ![display] = @ + 1]
      BY <2>5
    <3> HIDE DEF r
    <3>4. r[o] = refs[o] + One(o = display)
      <4>1. CASE o = display
        BY <1>1, <3>3, <4>1, OneFacts
      <4>2. CASE o # display
        <5>1. r[o] = refs[o] /\ One(o = display) = 0
          BY <1>1, <3>3, <4>2, OneFacts
        <5> QED BY <1>1, <5>1
      <4> QED BY <4>1, <4>2
    <3>5. One(o = display) \in Int
      BY OneType
    <3>6. r[o] = refs[o] + (qn - q) /\ qn \in Int
      BY <1>1, <3>2, <3>4, <3>5
    <3> QED BY <1>14, <2>1, <2>3, <3>6
  <2> QED BY <2>4, <2>5
<1>16. CASE SkipFrame
  <2>1. /\ refs' = Released(refs) /\ cur' = 0 /\ host' = 0 /\ display' = 0
        /\ target' = target /\ port' = port
    BY <1>16 DEF SkipFrame, ReleaseRound
  <2>2. refs[o] = refs[o] + (qn - q) /\ qn \in Int
    <3>1. qn = q
      BY <1>5, <2>1
    <3> QED BY <1>1, <3>1
  <2> QED BY <1>1, <1>14, <2>1, <2>2
<1>17. CASE FeedStep /\ UNCHANGED fileVars
  BY <1>7, <1>17
     DEF FeedStep, FeedPacket, FeedEof, FeedFails, FeedNothing, ReceiveFails
<1>18. CASE DecoderWorks
  BY <1>7, <1>18 DEF DecoderWorks
<1>19. CASE PullDisplay
  <2> DEFINE f == Head(port)
  <2>1. /\ f \in Objects /\ port # <<>> /\ port' = Tail(port)
        /\ refs' = [refs EXCEPT ![f] = @ - 1]
        /\ UNCHANGED <<target, cur, host, display>>
    BY <1>6, <1>19, TailFacts DEF PullDisplay
  <2>2. qn = q - One(o = f)
    BY <1>6, <2>1, CountTail DEF q, qn
  <2> HIDE DEF f
  <2>3. refs'[o] = refs[o] - One(o = f)
    <3>1. CASE o = f
      BY <1>1, <2>1, <3>1, OneFacts
    <3>2. CASE o # f
      <4>1. refs'[o] = refs[o] /\ One(o = f) = 0
        BY <1>1, <2>1, <3>2, OneFacts
      <4> QED BY <1>1, <4>1
    <3> QED BY <3>1, <3>2
  <2>4. tn = t /\ cn = c /\ hn = h /\ dn = d /\ One(o = f) \in Int
    BY <1>5, <2>1, OneType
  <2> QED BY <1>1, <1>3, <2>2, <2>3, <2>4
<1>20. CASE RequestStop /\ UNCHANGED <<decVars, fileVars>>
  BY <1>7, <1>20 DEF RequestStop
<1>21. CASE UNCHANGED vars
  BY <1>7, <1>21
<1> QED
  BY <1>8, <1>9, <1>10, <1>11, <1>12, <1>13, <1>15, <1>16, <1>17, <1>18,
     <1>19, <1>20, <1>21 DEF Next, LoopStep, Returned

LEMMA TypesStay ==
  ASSUME IInv, [Next]_vars
  PROVE  Types'
<1> USE DEF Types, DecTypeOK, CodecType, runVars, decVars, fileVars, vars,
            Finish
<1>1. Types
  BY DEF IInv
<1>2. /\ Last \in Nat /\ PortDepth \in Nat /\ Target \in Objects
      /\ \A n \in Frames : n \in Objects /\ 0 - n \in Objects
      /\ Frames = 1 .. Last
      /\ \A o \in Objects : o \in Int
      /\ port \in Seq(Objects)
  BY <1>1, RunAssumption, PortTypes DEF Frames
<1>3. CASE StopSeen
  BY <1>1, <1>3 DEF StopSeen
<1>4. CASE ReceiveFrame
  <2>1. Head(dec.ready) \in 1 .. Last /\ Tail(dec.ready) \in Seq(1 .. Last)
    BY <1>1, <1>4, TailFacts DEF ReceiveFrame, HasFrame
  <2>2. dec' = [dec EXCEPT !.ready = Tail(dec.ready)]
    BY <1>4 DEF ReceiveFrame, Gave
  <2>3. dec' \in [pending : Seq(1 .. Last), ready : Seq(1 .. Last),
                  settled : BOOLEAN, eos : BOOLEAN]
    BY <1>1, <2>1, <2>2
  <2>4. /\ cur' = Head(dec.ready) /\ refs' = [refs EXCEPT ![cur'] = 1]
        /\ failed' = FALSE /\ pc' = "host"
        /\ UNCHANGED <<stop, result, port, pulled, next, sent, mode, host,
                       display, target, written, skipped>>
    BY <1>4 DEF ReceiveFrame
  <2>5. refs' \in [Objects -> Int] /\ cur' \in 0 .. Last
    <3>1. cur' \in Objects /\ cur' \in 0 .. Last
      BY <1>2, <2>1, <2>4
    <3>2. refs \in [Objects -> Int] /\ refs' = [refs EXCEPT ![cur'] = 1]
      BY <1>1, <2>4
    <3> QED BY <3>1, <3>2
  <2> HIDE DEF CodecType
  <2>6. dec' \in CodecType(1 .. Last)
    BY <2>3 DEF CodecType
  <2> QED BY <1>1, <2>4, <2>5, <2>6
<1>5. CASE ReceiveNothing
  BY <1>1, <1>5 DEF ReceiveNothing
<1>6. CASE ReceiveEnd
  BY <1>1, <1>6 DEF ReceiveEnd
<1>7. CASE FrameToHost
  <2>1. /\ cur \in Frames /\ pc' = "upscale"
        /\ \/ host' = cur /\ refs' = [refs EXCEPT ![cur] = @ + 1]
           \/ host' = 0 - cur /\ refs' = [refs EXCEPT ![0 - cur] = 1]
           \/ UNCHANGED <<host, refs>>
        /\ failed' \in {failed, TRUE}
        /\ UNCHANGED <<stop, result, port, pulled, decVars, mode, display, cur,
                       target, written, skipped>>
    BY <1>7 DEF FrameToHost, IInv, RoundInv
  <2>2. host' \in Objects \cup {0} /\ refs' \in [Objects -> Int]
    <3>1. /\ cur \in Objects /\ 0 - cur \in Objects
          /\ host \in Objects \cup {0} /\ refs \in [Objects -> Int]
      BY <1>1, <1>2, <2>1
    <3>2. \A x \in Objects : /\ [refs EXCEPT ![x] = @ + 1] \in [Objects -> Int]
                             /\ [refs EXCEPT ![x] = 1] \in [Objects -> Int]
      BY <3>1
    <3> QED BY <2>1, <3>1, <3>2
  <2> QED BY <1>1, <2>1, <2>2
<1>8. CASE PostUpscale
  <2>1. /\ cur \in Frames /\ pc' = "write"
        /\ display' \in {display, host, Target} /\ target' \in {target, cur}
        /\ failed' \in {failed, TRUE}
        /\ UNCHANGED <<stop, result, port, pulled, decVars, mode, host, cur,
                       written, skipped>>
    BY <1>8 DEF PostUpscale, ScaledTo, IInv, RoundInv
  <2>2. \/ UNCHANGED refs
        \/ \E x \in Objects :
             refs' = [refs EXCEPT ![x] = IF x = Target /\ @ = 0 THEN 2 ELSE @ + 1]
        \/ refs' = [refs EXCEPT ![Target] = IF @ = 0 THEN 1 ELSE @]
    <3>1. ~failed => host \in Objects
      BY <1>1, <1>8 DEF PostUpscale, IInv, RoundInv
    <3> QED BY <1>2, <1>8, <3>1 DEF PostUpscale, ScaledTo
  <2>3. refs' \in [Objects -> Int]
    <3>1. \A x \in Objects : refs[x] \in Int
      BY <1>1
    <3>2. \A x \in Objects :
            /\ (IF x = Target /\ refs[x] = 0 THEN 2 ELSE refs[x] + 1) \in Int
            /\ (IF refs[x] = 0 THEN 1 ELSE refs[x]) \in Int
      BY <3>1
    <3>3. refs \in [Objects -> Int]
      BY <1>1
    <3>4. \A x \in Objects, v \in Int : [refs EXCEPT ![x] = v] \in [Objects -> Int]
      BY <3>3
    <3>5. CASE UNCHANGED refs
      BY <3>3, <3>5
    <3>6. ASSUME NEW x \in Objects,
                 refs' = [refs EXCEPT ![x] = IF x = Target /\ @ = 0 THEN 2 ELSE @ + 1]
          PROVE  refs' \in [Objects -> Int]
      BY <3>2, <3>4, <3>6
    <3>7. CASE refs' = [refs EXCEPT ![Target] = IF @ = 0 THEN 1 ELSE @]
      BY <1>2, <3>2, <3>4, <3>7
    <3> QED BY <2>2, <3>5, <3>6, <3>7
  <2>4. display' \in Objects \cup {0} /\ target' \in 0 .. Last /\ failed' \in BOOLEAN
    BY <1>1, <1>2, <2>1
  <2> QED BY <1>1, <2>1, <2>3, <2>4
<1>9. ASSUME NEW r \in [Objects -> Int], ReleaseRound(r)
      PROVE  /\ refs' \in [Objects -> Int] /\ pc' = "head"
             /\ host' = 0 /\ display' = 0 /\ cur' = 0
  <2>1. /\ cur \in Objects \cup {0} /\ host \in Objects \cup {0}
        /\ display \in Objects \cup {0}
    BY <1>1, <1>2 DEF Frames
  <2> DEFINE r1 == IF display # host THEN Drop(r, display) ELSE r
  <2>2. r1 \in [Objects -> Int]
    BY <2>1, DropFacts
  <2> HIDE DEF r1
  <2>3. Drop(r1, host) \in [Objects -> Int]
    BY <2>1, <2>2, DropFacts
  <2>4. Drop(Drop(r1, host), cur) \in [Objects -> Int]
    BY <2>1, <2>3, DropFacts
  <2> QED BY <1>9, <2>4 DEF ReleaseRound, Released, r1
<1>10. CASE WriteDisplay \/ WriteFails
  <2> DEFINE r == IF port' = port THEN refs
                  ELSE [refs EXCEPT ![display] = @ + 1]
  <2>1. /\ cur \in Frames /\ display \in Objects /\ Picture(display) = cur
    BY <1>1, <1>2, <1>10 DEF WriteDisplay, WriteFails, IInv, RoundInv
  <2>2. r \in [Objects -> Int]
    BY <1>1, <2>1
  <2>3. ReleaseRound(r)
    BY <1>10 DEF WriteDisplay, WriteFails
  <2>4. /\ refs' \in [Objects -> Int] /\ pc' = "head"
        /\ host' = 0 /\ display' = 0 /\ cur' = 0
    BY <1>9, <2>2, <2>3
  <2>5. port' \in Seq(Objects) /\ Len(port') <= PortDepth
    <3>1. PushOutput(display)
      BY <1>10 DEF WriteDisplay, WriteFails
    <3>2. /\ Append(port, display) \in Seq(Objects)
          /\ Len(Append(port, display)) = Len(port) + 1 /\ Len(port) \in Nat
      BY <1>2, <2>1, AppendFacts
    <3> QED BY <1>1, <1>2, <3>1, <3>2 DEF PushOutput
  <2>6. written' \in Seq(1 .. Last) /\ skipped' \subseteq 1 .. Last
    <3>1. \/ written' = Append(written, Picture(display)) /\ skipped' = skipped
          \/ written' = written /\ skipped' = skipped \cup {cur}
      BY <1>10 DEF WriteDisplay, WriteFails
    <3>2. Append(written, cur) \in Seq(1 .. Last)
      BY <1>1, <1>2, <2>1, AppendFacts
    <3> QED BY <1>1, <1>2, <2>1, <3>1, <3>2
  <2>7. UNCHANGED <<stop, result, pulled, decVars, mode, failed, target>>
    BY <1>10 DEF WriteDisplay, WriteFails
  <2>8. DecTypeOK'
    BY <1>1, <2>7
  <2> HIDE DEF DecTypeOK
  <2>9. /\ pc' = "head" /\ stop' \in BOOLEAN /\ result' \in {"none", "ok", "fail"}
        /\ host' = 0 /\ display' = 0 /\ cur' \in 0 .. Last
        /\ failed' \in BOOLEAN /\ mode' \in Modes /\ target' \in 0 .. Last
        /\ pulled' \in Seq(Int)
    BY <1>1, <1>2, <2>4, <2>7
  <2> QED BY <2>4, <2>5, <2>6, <2>8, <2>9
<1>11. CASE SkipFrame
  <2>1. /\ refs' \in [Objects -> Int] /\ pc' = "head"
        /\ host' = 0 /\ display' = 0 /\ cur' = 0
    BY <1>1, <1>9, <1>11 DEF SkipFrame
  <2>2. cur \in Frames
    BY <1>11 DEF SkipFrame, IInv, RoundInv
  <2>3. /\ skipped' = skipped \cup {cur}
        /\ UNCHANGED <<stop, result, port, pulled, decVars, mode, failed, target,
                       written>>
    BY <1>11 DEF SkipFrame
  <2>4. DecTypeOK'
    BY <1>1, <2>3
  <2>5. skipped' \subseteq 1 .. Last
    BY <1>1, <1>2, <2>2, <2>3
  <2> HIDE DEF DecTypeOK
  <2>6. /\ pc' = "head" /\ stop' \in BOOLEAN /\ result' \in {"none", "ok", "fail"}
        /\ host' = 0 /\ display' = 0 /\ cur' \in 0 .. Last
        /\ failed' \in BOOLEAN /\ mode' \in Modes /\ target' \in 0 .. Last
        /\ pulled' \in Seq(Int)
    BY <1>1, <1>2, <2>1, <2>3
  <2>7. /\ port' \in Seq(Objects) /\ Len(port') <= PortDepth
        /\ written' \in Seq(1 .. Last)
    BY <1>1, <2>3
  <2> QED BY <2>1, <2>4, <2>5, <2>6, <2>7
<1>12. CASE FeedPacket /\ UNCHANGED fileVars
  <2>1. next \in 1 .. Last
    BY <1>1, <1>12 DEF FeedPacket
  <2>2. /\ Append(dec.pending, next) \in Seq(1 .. Last)
        /\ Append(sent, next) \in Seq(1 .. Last)
        /\ next' \in 1 .. Last + 1
    BY <1>1, <1>2, <1>12, <2>1, AppendFacts DEF FeedPacket
  <2>3. \/ /\ dec' = [dec EXCEPT !.pending = Append(dec.pending, next),
                                 !.settled = FALSE]
           /\ sent' = Append(sent, next)
        \/ UNCHANGED <<dec, sent>>
    BY <1>12 DEF FeedPacket, Took
  <2>4. dec' \in CodecType(1 .. Last) /\ sent' \in Seq(1 .. Last)
    BY <1>1, <2>2, <2>3
  <2>5. /\ pc' \in {"receive", "done"} /\ result' \in {result, "fail"}
        /\ UNCHANGED <<stop, port, pulled, fileVars>>
    BY <1>12 DEF FeedPacket
  <2> QED BY <1>1, <2>2, <2>4, <2>5
<1>13. CASE (FeedEof \/ FeedFails \/ FeedNothing \/ ReceiveFails)
             /\ UNCHANGED fileVars
  BY <1>1, <1>13 DEF FeedEof, FeedFails, FeedNothing, ReceiveFails
<1>14. CASE DecoderWorks
  <2>1. /\ Head(dec.pending) \in 1 .. Last /\ Tail(dec.pending) \in Seq(1 .. Last)
    BY <1>1, <1>14, TailFacts DEF DecoderWorks
  <2>2. Append(dec.ready, Head(dec.pending)) \in Seq(1 .. Last)
    BY <1>1, <2>1, AppendFacts
  <2>3. dec' \in CodecType(1 .. Last)
    BY <1>1, <1>14, <2>1, <2>2 DEF DecoderWorks, Made
  <2>4. UNCHANGED <<runVars, fileVars, next, sent>>
    BY <1>14 DEF DecoderWorks
  <2> QED BY <1>1, <2>3, <2>4
<1>15. CASE PullDisplay
  <2> DEFINE f == Head(port)
             e == Picture(f)
  <2>1. /\ f \in Objects /\ port' = Tail(port) /\ port' \in Seq(Objects)
        /\ Len(port') = Len(port) - 1 /\ Len(port) \in Nat
    BY <1>2, <1>15, TailFacts DEF PullDisplay
  <2>7. refs' = [refs EXCEPT ![f] = @ - 1]
    BY <1>15 DEF PullDisplay
  <2>8. pulled' = Append(pulled, e)
    BY <1>15 DEF PullDisplay
  <2> HIDE DEF f
  <2>2. e \in Int
    <3>1. f \in Int
      BY <1>2, <2>1
    <3>2. target \in Int
      BY <1>1, <1>2
    <3> QED BY <3>1, <3>2 DEF Picture
  <2> HIDE DEF e
  <2>3. pulled' \in Seq(Int)
    <3>1. pulled \in Seq(Int)
      BY <1>1
    <3> QED BY <2>2, <2>8, <3>1, AppendFacts
  <2>4. Len(port') <= PortDepth
    <3>1. Len(port) <= PortDepth
      BY <1>1
    <3>3. PortDepth \in Int
      BY RunAssumption
    <3>4. Len(port) \in Nat
      BY <2>1, Zenon
    <3>2. Len(port') = Len(port) - 1
      BY <2>1
    <3> QED BY <3>1, <3>2, <3>3, <3>4
  <2>5. refs' \in [Objects -> Int]
    <3>1. refs \in [Objects -> Int] /\ \A x \in Objects : refs[x] - 1 \in Int
      BY <1>1
    <3>2. f \in Objects
      BY <2>1
    <3> QED BY <2>7, <3>1, <3>2
  <2>6. UNCHANGED <<pc, stop, result, decVars, mode, host, display, failed, cur,
                    target, written, skipped>>
    BY <1>15 DEF PullDisplay
  <2>9. port' \in Seq(Objects) /\ pulled' \in Seq(Int)
    BY <2>1, <2>3
  <2> QED BY <1>1, <2>4, <2>5, <2>6, <2>9
<1>16. CASE RequestStop /\ UNCHANGED <<decVars, fileVars>>
  BY <1>1, <1>16 DEF RequestStop
<1>17. CASE UNCHANGED vars
  BY <1>1, <1>17
<1> QED
  BY <1>3, <1>4, <1>5, <1>6, <1>7, <1>8, <1>10, <1>11, <1>12, <1>13, <1>14,
     <1>15, <1>16, <1>17 DEF Next, LoopStep, FeedStep, Returned

LEMMA InitIInv == Init => IInv
<1> SUFFICES ASSUME Init PROVE IInv
  OBVIOUS
<1> USE DEF Init, RunInit, DecInit
<1>1. Last \in Nat /\ PortDepth \in Nat /\ \A o \in Objects : o # 0
  BY RunAssumption DEF Objects
<1>2. Types
  <2>1. dec \in CodecType(1 .. Last)
    BY DEF NewCodec, CodecType
  <2>2. refs \in [Objects -> Int] /\ port \in Seq(Objects)
    OBVIOUS
  <2>3. /\ next \in 1 .. Last + 1 /\ 0 \in 0 .. Last /\ Len(port) <= PortDepth
    BY <1>1
  <2>4. /\ pulled \in Seq(Int) /\ written \in Seq(1 .. Last)
        /\ sent \in Seq(1 .. Last) /\ skipped \subseteq 1 .. Last
    OBVIOUS
  <2>5. DecTypeOK
    BY <2>1, <2>3, <2>4 DEF DecTypeOK
  <2> HIDE DEF DecInit
  <2> QED BY <2>2, <2>3, <2>4, <2>5 DEF Types
<1>3. SourceInv
  BY EmptyFacts DEF SourceInv, NewCodec
<1>4. AccountInv
  BY EmptyFacts DEF AccountInv, NewCodec
<1>5. EndInv /\ RoundInv
  BY DEF EndInv, RoundInv
<1>6. PortInv
  <2>1. Shown = <<>>
    <3>1. port \in Seq(Int) /\ Len(port) = 0
      OBVIOUS
    <3>2. ShownOf(port) \in Seq(Int) /\ Len(ShownOf(port)) = 0
      BY <3>1, ShownType
    <3>3. ShownOf(port) = <<>>
      BY <3>2
    <3> QED BY <3>3 DEF Shown
  <2> QED BY <2>1, EmptyFacts DEF PortInv
<1>7. RefsInv
  <2> SUFFICES ASSUME NEW o \in Objects PROVE refs[o] = Owed(o)
    BY DEF RefsInv
  <2>1. Queued(o) = 0
    <3>1. port \in Seq(Objects) /\ o \notin Elements(port)
      BY EmptyFacts
    <3>2. Count(port, o) = 0
      BY <3>1, CountType
    <3> QED BY <3>2 DEF Queued, Count
  <2>2. /\ One(o = Target /\ target # 0) = 0 /\ One(o = cur) = 0
        /\ One(o = host) = 0 /\ One(o = display /\ display # host) = 0
    BY <1>1, OneFacts
  <2> QED BY <2>1, <2>2 DEF Owed
<1> QED BY <1>2, <1>3, <1>4, <1>5, <1>6, <1>7 DEF IInv

(* Every reachable state satisfies the inductive invariant.                *)
THEOREM DecodeInvariance == FairSpec => []IInv
<1>1. ASSUME IInv, [Next]_vars PROVE IInv'
  BY <1>1, TypesStay, SourceStays, AccountStays, EndStays, RoundStays, PortStays,
     RefsStays DEF IInv
<1> QED BY <1>1, InitIInv, PTL DEF FairSpec, Spec

(* Types, and a reference count is never negative: no buffer is released   *)
(* more often than it was referred to, in sessions whose frames change     *)
(* size (the others leak, which is the other direction, and are checked).  *)
THEOREM DecodeTypes == SameSize = FALSE /\ FairSpec => []TypeOK
<1> SUFFICES ASSUME SameSize = FALSE PROVE FairSpec => []TypeOK
  OBVIOUS
<1>1. ASSUME IInv PROVE TypeOK
  <2>1. Types /\ refs \in [Objects -> Int]
    BY <1>1 DEF IInv, Types
  <2>2. ASSUME NEW o \in Objects PROVE refs[o] \in Nat
    <3>1. refs[o] = Owed(o)
      BY <1>1 DEF IInv, RefsInv
    <3>2. Queued(o) \in Nat
      <4>1. port \in Seq(Objects)
        BY <2>1 DEF Types
      <4> QED BY <4>1, CountType DEF Queued, Count
    <3>3. \A b \in BOOLEAN : One(b) \in Nat
      BY DEF One
    <3>4. /\ One(o = Target /\ target # 0) \in Nat /\ One(o = cur) \in Nat
          /\ One(o = host) \in Nat /\ One(o = display /\ display # host) \in Nat
      BY <3>3
    <3> QED BY <3>1, <3>2, <3>4 DEF Owed
  <2>3. refs \in [Objects -> Nat]
    BY <2>1, <2>2
  <2> QED BY <2>1, <2>3 DEF Types, TypeOK
<1> QED BY <1>1, DecodeInvariance, PTL

(* Between two rounds each reference belongs to the port or to the scaler, *)
(* in sessions whose frames change size when scaled.                       *)
THEOREM RefsBalance == SameSize = FALSE /\ FairSpec => []RefsBalanced
<1> SUFFICES ASSUME SameSize = FALSE PROVE FairSpec => []RefsBalanced
  OBVIOUS
<1>1. ASSUME IInv PROVE RefsBalanced
  <2> SUFFICES ASSUME pc \in {"head", "receive", "done"}, NEW o \in Objects
               PROVE  refs[o] = Queued(o) + (IF o = Target /\ target # 0 THEN 1 ELSE 0)
    BY DEF RefsBalanced
  <2>1. cur = 0 /\ host = 0 /\ display = 0
    BY <1>1 DEF IInv, RoundInv
  <2>2. o # 0
    BY DEF Objects
  <2>3. One(o = cur) = 0 /\ One(o = host) = 0 /\ One(o = display /\ display # host) = 0
    BY <2>1, <2>2, OneFacts
  <2>4. refs[o] = Owed(o)
    BY <1>1 DEF IInv, RefsInv
  <2>5. Queued(o) \in Nat
    <3>1. port \in Seq(Objects)
      BY <1>1 DEF IInv, Types
    <3> QED BY <3>1, CountType DEF Queued, Count
  <2>6. One(o = Target /\ target # 0) \in Int
    BY OneType
  <2>7. refs[o] = Queued(o) + One(o = Target /\ target # 0)
    BY <2>3, <2>4, <2>5, <2>6 DEF Owed
  <2> QED BY <2>7 DEF One
<1> QED BY <1>1, DecodeInvariance, PTL

(* The file holds frames in order, each at most once.                      *)
THEOREM WriteOrder == FairSpec => []WrittenInOrder
<1>1. IInv => WrittenInOrder
  BY DEF IInv, AccountInv, WrittenInOrder
<1> QED BY <1>1, DecodeInvariance, PTL

(* The consumer of the port sees frames in order, unless they are scaled.  *)
THEOREM ShowOrder == FairSpec => []PortInOrder
<1>1. IInv => PortInOrder
  BY DEF IInv, PortInv, PortInOrder
<1> QED BY <1>1, DecodeInvariance, PTL

(* A run that ends well wrote every frame but those whose round failed.    *)
THEOREM NothingDropped == FairSpec => []AllSentIsWritten
<1>1. ASSUME IInv PROVE AllSentIsWritten
  <2> SUFFICES ASSUME result = "ok", ~stop
               PROVE  /\ next > Last
                      /\ Elements(written) = Elements(sent) \ skipped
    BY DEF AllSentIsWritten
  <2>1. /\ pc = "done" /\ next > Last
        /\ dec.pending = <<>> /\ dec.ready = <<>>
    BY <1>1 DEF IInv, EndInv, Empty
  <2>2. cur = 0
    BY <1>1, <2>1 DEF IInv, RoundInv
  <2>3. /\ Elements(sent) = Elements(written) \cup skipped \cup ({cur} \ {0})
                              \cup Elements(dec.ready) \cup Elements(dec.pending)
        /\ Elements(written) \cap skipped = {}
    BY <1>1 DEF IInv, AccountInv
  <2>4. Elements(dec.ready) = {} /\ Elements(dec.pending) = {}
    BY <2>1, EmptyFacts
  <2> QED BY <2>1, <2>2, <2>3, <2>4
<1> QED BY <1>1, DecodeInvariance, PTL

-----------------------------------------------------------------------------
(* DecodeFile implements Transfer.  The decoder works in order: what it    *)
(* took is what the loop received, then what is ready, then what is        *)
(* pending; the frame of this round is the last one received.              *)
Inside == dec.ready \o dec.pending

LineInv ==
  /\ Received \in Nat /\ sent = Accepted \o Inside
  /\ IsIncreasing(sent)
  /\ cur # 0 => Accepted # <<>> /\ cur = Accepted[Len(Accepted)]

LEMMA PullKeepsOut ==
  ASSUME NEW N, NEW s \in Seq(N), NEW t \in Seq(N), s # <<>>
  PROVE  Append(t, Head(s)) \o Tail(s) = t \o s
<1> DEFINE u == Append(t, Head(s)) \o Tail(s)
           v == t \o s
<1>1. /\ Len(s) \in Nat \ {0} /\ Len(t) \in Nat
      /\ Head(s) = s[1] /\ Head(s) \in N /\ Tail(s) \in Seq(N)
      /\ Len(Tail(s)) = Len(s) - 1
      /\ \A i \in 1 .. Len(s) - 1 : Tail(s)[i] = s[i + 1]
  OBVIOUS
<1>2. /\ Append(t, Head(s)) \in Seq(N) /\ Len(Append(t, Head(s))) = Len(t) + 1
      /\ \A i \in 1 .. Len(t) : Append(t, Head(s))[i] = t[i]
      /\ Append(t, Head(s))[Len(t) + 1] = s[1]
  BY <1>1
<1>3. u \in Seq(N) /\ v \in Seq(N) /\ Len(u) = Len(t) + Len(s) /\ Len(v) = Len(u)
  BY <1>1, <1>2
<1>4. ASSUME NEW i \in 1 .. Len(v) PROVE u[i] = v[i]
  <2>1. CASE i <= Len(t)
    BY <2>1, <1>1, <1>2, <1>3
  <2>2. CASE i = Len(t) + 1
    BY <2>2, <1>1, <1>2, <1>3
  <2>3. CASE i > Len(t) + 1
    <3> DEFINE k == i - (Len(t) + 1)
    <3>1. k \in 1 .. Len(s) - 1 /\ i = Len(t) + 1 + k /\ k + 1 \in 1 .. Len(s)
      BY <2>3, <1>1, <1>3
    <3>2. u[i] = Tail(s)[k]
      BY <3>1, <1>1, <1>2
    <3>3. v[i] = s[k + 1]
      BY <3>1, <1>1
    <3> QED BY <3>1, <3>2, <3>3, <1>1
  <2> QED BY <2>1, <2>2, <2>3, <1>1, <1>3
<1> HIDE DEF u, v
<1>5. u = v
  BY <1>3, <1>4, SeqEqual
<1> QED BY <1>5 DEF u, v

LEMMA AppendToConcat ==
  ASSUME NEW N, NEW s \in Seq(N), NEW t \in Seq(N), NEW x \in N
  PROVE  t \o Append(s, x) = Append(t \o s, x)
<1> DEFINE u == t \o Append(s, x)
           v == Append(t \o s, x)
<1>1. /\ Len(s) \in Nat /\ Len(t) \in Nat /\ t \o s \in Seq(N)
      /\ Len(t \o s) = Len(t) + Len(s) /\ Append(s, x) \in Seq(N)
      /\ Len(Append(s, x)) = Len(s) + 1
  OBVIOUS
<1>2. u \in Seq(N) /\ v \in Seq(N) /\ Len(u) = Len(t) + Len(s) + 1 /\ Len(v) = Len(u)
  BY <1>1
<1>3. ASSUME NEW i \in 1 .. Len(v) PROVE u[i] = v[i]
  <2>1. CASE i <= Len(t)
    BY <2>1, <1>1, <1>2
  <2>2. CASE i > Len(t) /\ i <= Len(t) + Len(s)
    <3>1. i - Len(t) \in 1 .. Len(s)
      BY <2>2, <1>1, <1>2
    <3>2. u[i] = s[i - Len(t)]
      BY <3>1, <2>2, <1>1, <1>2
    <3>3. v[i] = s[i - Len(t)]
      BY <3>1, <2>2, <1>1, <1>2
    <3> QED BY <3>2, <3>3
  <2>3. CASE i = Len(t) + Len(s) + 1
    <3>1. i - Len(t) = Len(s) + 1
      BY <2>3, <1>1
    <3>2. u[i] = Append(s, x)[i - Len(t)]
      BY <2>3, <3>1, <1>1, <1>2
    <3> QED BY <3>1, <3>2, <2>3, <1>1, <1>2
  <2> QED BY <2>1, <2>2, <2>3, <1>1, <1>2
<1> QED BY <1>2, <1>3

LEMMA Prefix ==
  ASSUME NEW S, NEW s \in Seq(S), NEW n \in 0 .. Len(s)
  PROVE  /\ Len(SubSeq(s, 1, n)) = n /\ SubSeq(s, 1, n) \in Seq(S)
         /\ \A i \in 1 .. n : SubSeq(s, 1, n)[i] = s[i]
<1>1. SubSeq(s, 1, n) \in Seq(S)
  OBVIOUS
<1>2. Len(SubSeq(s, 1, n)) = n
  OBVIOUS
<1>3. \A i \in 1 .. n : SubSeq(s, 1, n)[i] = s[i]
  OBVIOUS
<1> QED BY <1>1, <1>2, <1>3

LEMMA Front ==
  ASSUME NEW N, NEW s \in Seq(N), NEW t \in Seq(N)
  PROVE  /\ SubSeq(t \o s, 1, Len(t)) = t
         /\ t \o s \in Seq(N) /\ Len(t \o s) = Len(t) + Len(s)
<1> DEFINE v == t \o s
           u == SubSeq(v, 1, Len(t))
<1>1. /\ v \in Seq(N) /\ Len(v) = Len(t) + Len(s)
      /\ Len(t) \in Nat /\ Len(s) \in Nat
      /\ \A i \in 1 .. Len(t) : v[i] = t[i]
  OBVIOUS
<1> HIDE DEF v
<1>2. /\ u \in Seq(N) /\ Len(u) = Len(t)
      /\ \A i \in 1 .. Len(t) : u[i] = v[i]
  BY <1>1
<1> HIDE DEF u
<1>3. u = t
  BY <1>1, <1>2
<1> QED BY <1>1, <1>3 DEF u, v

LEMMA Joined ==
  ASSUME NEW N, NEW t \in Seq(N), NEW s \in Seq(N)
  PROVE  /\ \A i \in 1 .. Len(t) : (t \o s)[i] = t[i]
         /\ \A i \in 1 .. Len(s) : (t \o s)[Len(t) + i] = s[i]
  OBVIOUS

(* The head and the tail of two sequences together.                        *)
LEMMA FrontHead ==
  ASSUME NEW N, NEW s \in Seq(N), NEW t \in Seq(N), t # <<>>
  PROVE  /\ Head(t \o s) = Head(t) /\ Tail(t \o s) = Tail(t) \o s
         /\ t \o s # <<>>
<1> DEFINE v == t \o s
           u == Tail(t)
<1>1. /\ v \in Seq(N) /\ Len(v) = Len(t) + Len(s)
      /\ Len(t) \in Nat \ {0} /\ Len(s) \in Nat
      /\ \A i \in 1 .. Len(t) : v[i] = t[i]
      /\ \A i \in 1 .. Len(s) : v[Len(t) + i] = s[i]
  OBVIOUS
<1>2. /\ u \in Seq(N) /\ Len(u) = Len(t) - 1
      /\ \A i \in 1 .. Len(t) - 1 : u[i] = t[i + 1]
  OBVIOUS
<1>3. v # <<>> /\ Head(v) = v[1] /\ Head(t) = t[1]
  BY <1>1
<1> HIDE DEF v, u
<1>4. /\ Tail(v) \in Seq(N) /\ Len(Tail(v)) = Len(v) - 1
      /\ \A i \in 1 .. Len(v) - 1 : Tail(v)[i] = v[i + 1]
  BY <1>1, <1>3
<1>5. /\ u \o s \in Seq(N) /\ Len(u \o s) = Len(v) - 1
      /\ \A i \in 1 .. Len(u) : (u \o s)[i] = u[i]
      /\ \A i \in 1 .. Len(s) : (u \o s)[Len(u) + i] = s[i]
  <2>1. u \o s \in Seq(N) /\ Len(u \o s) = Len(u) + Len(s)
    BY <1>2, Front
  <2>2. Len(u) + Len(s) = Len(v) - 1
    BY <1>1, <1>2
  <2>3. /\ \A i \in 1 .. Len(u) : (u \o s)[i] = u[i]
        /\ \A i \in 1 .. Len(s) : (u \o s)[Len(u) + i] = s[i]
    BY <1>2, Joined
  <2> QED BY <2>1, <2>2, <2>3
<1>6. ASSUME NEW i \in 1 .. Len(v) - 1 PROVE Tail(v)[i] = (u \o s)[i]
  <2> DEFINE k == i - (Len(t) - 1)
             l == Len(t)
             m == Len(s)
  <2>0. l \in Nat \ {0} /\ m \in Nat /\ i \in 1 .. l + m - 1 /\ k = i - (l - 1)
    BY <1>1
  <2>1. CASE i \in 1 .. l - 1
    <3>1. i + 1 \in 1 .. l
      BY <2>0, <2>1
    <3> QED BY <3>1, <2>1, <1>1, <1>2, <1>4, <1>5
  <2>2. CASE i \notin 1 .. l - 1
    <3>1. k \in 1 .. m /\ i = (l - 1) + k /\ i + 1 = l + k
      <4> HIDE DEF k, l, m
      <4> QED BY <2>0, <2>2
    <3> HIDE DEF k
    <3>2. (u \o s)[i] = s[k] /\ v[i + 1] = s[k]
      BY <3>1, <1>1, <1>2, <1>5
    <3> QED BY <3>2, <1>4
  <2> QED BY <2>1, <2>2
<1>7. Tail(v) = u \o s
  BY <1>1, <1>4, <1>5, <1>6, SeqEqual
<1>8. Head(v) = Head(t)
  BY <1>1, <1>3
<1> QED BY <1>3, <1>7, <1>8 DEF u, v

(* How the sequences of the line are told from the decoder's state.        *)
LEMMA LineTypes ==
  ASSUME Types, LineInv
  PROVE  /\ dec.ready \in Seq(1 .. Last) /\ dec.pending \in Seq(1 .. Last)
         /\ Inside \in Seq(1 .. Last) /\ sent \in Seq(1 .. Last)
         /\ Len(Inside) = Len(dec.ready) + Len(dec.pending)
         /\ Accepted \in Seq(1 .. Last) /\ Len(Accepted) = Received
         /\ Received \in Nat
<1>1. /\ dec.ready \in Seq(1 .. Last) /\ dec.pending \in Seq(1 .. Last)
      /\ sent \in Seq(1 .. Last)
  BY FlowTypes
<1>2. Inside \in Seq(1 .. Last) /\ Len(Inside) = Len(dec.ready) + Len(dec.pending)
  BY <1>1, Front DEF Inside
<1>3. Accepted \in Seq(1 .. Last) /\ Len(Accepted) = Received /\ Received \in Nat
  <2>1. Received \in 0 .. Len(sent)
    <3> DEFINE x == Len(sent)
               y == Len(dec.ready)
               z == Len(dec.pending)
    <3>0. x \in Nat /\ y \in Nat /\ z \in Nat
      BY <1>1
    <3>2. Received = x - y - z
      BY DEF Received
    <3>1. x - y - z \in Nat
      BY <3>2 DEF LineInv
    <3> HIDE DEF x, y, z
    <3>3. x - y - z \in 0 .. x
      BY <3>0, <3>1
    <3> QED BY <3>2, <3>3 DEF x
  <2> QED BY <1>1, <2>1, Prefix DEF Accepted, LineInv
<1> QED BY <1>1, <1>2, <1>3

(* The line is known from where it is cut.                                 *)
LEMMA Cut ==
  ASSUME NEW N, NEW r \in Seq(N), NEW p \in Seq(N), NEW t \in Seq(N)
  PROVE  LET s == t \o (r \o p) IN
         /\ Len(s) - Len(r) - Len(p) = Len(t)
         /\ SubSeq(s, 1, Len(s) - Len(r) - Len(p)) = t
<1> DEFINE s == t \o (r \o p)
           w == Len(s)
           x == Len(t)
           y == Len(r)
           z == Len(p)
<1>1. r \o p \in Seq(N) /\ Len(r \o p) = y + z
  BY Front
<1>2. w = x + (y + z) /\ SubSeq(s, 1, x) = t
  BY <1>1, Front
<1>3. x \in Nat /\ y \in Nat /\ z \in Nat
  OBVIOUS
<1>4. w - y - z = x
  <2> HIDE DEF w, x, y, z
  <2> QED BY <1>2, <1>3
<1> HIDE DEF s
<1> QED BY <1>2, <1>4 DEF s

(* What a step does to the line.                                           *)
LEMMA LineStays ==
  ASSUME IInv, LineInv, [Next]_vars
  PROVE  /\ LineInv'
         /\ Receives => Accepted' = Append(Accepted, cur')
         /\ ~Receives => Accepted' = Accepted
<1> DEFINE N == 1 .. Last
<1>0. /\ dec.ready \in Seq(N) /\ dec.pending \in Seq(N)
      /\ Inside \in Seq(N) /\ sent \in Seq(N)
      /\ Accepted \in Seq(N) /\ Len(Accepted) = Received /\ Received \in Nat
      /\ sent = Accepted \o Inside /\ IsIncreasing(sent)
      /\ cur # 0 => Accepted # <<>> /\ cur = Accepted[Len(Accepted)]
      /\ sent \in Seq(Int) /\ Last \in Nat
  BY LineTypes, FlowTypes DEF IInv, LineInv
<1> HIDE DEF N
<1>r. Receives => cur = 0 /\ cur' # 0
  <2>1. \A n \in N : n # 0
    BY DEF N
  <2> QED BY <2>1, <1>0, TailFacts DEF Receives
<1>1. ASSUME NEW t \in Seq(N), sent' = t \o (dec'.ready \o dec'.pending),
             dec'.ready \in Seq(N), dec'.pending \in Seq(N)
      PROVE  Accepted' = t /\ Received' \in Nat /\ sent' = Accepted' \o Inside'
  <2>1. PICK u \in Seq(N), r \in Seq(N), q \in Seq(N) :
          u = t /\ r = dec'.ready /\ q = dec'.pending
    BY <1>1
  <2>2. sent' = u \o (r \o q)
    BY <1>1, <2>1
  <2>3. /\ Len(sent') - Len(r) - Len(q) = Len(u)
        /\ SubSeq(sent', 1, Len(sent') - Len(r) - Len(q)) = u
    BY <2>2, Cut
  <2>4. Received' = Len(u) /\ Accepted' = u
    BY <2>1, <2>3 DEF Received, Accepted
  <2> QED BY <2>1, <2>2, <2>4 DEF Inside
<1>2. CASE UNCHANGED flowVars
  <2>1. UNCHANGED <<dec, sent, cur>>
    BY <1>2 DEF flowVars
  <2>2. ~Receives
    BY <2>1, <1>r
  <2> QED BY <2>1, <2>2, <1>0 DEF LineInv, Accepted, Received, Inside
<1>3. CASE Marks
  <2>1. /\ UNCHANGED <<sent, cur>> /\ dec'.pending = dec.pending
        /\ dec'.ready = dec.ready
    BY <1>3 DEF Marks
  <2>2. ~Receives
    BY <2>1, <1>r
  <2> QED BY <2>1, <2>2, <1>0 DEF LineInv, Accepted, Received, Inside
<1>4. CASE Finishes
  <2>1. UNCHANGED <<dec, sent>> /\ cur' = 0
    BY <1>4 DEF Finishes
  <2>2. ~Receives
    BY <2>1, <1>r
  <2> QED BY <2>1, <2>2, <1>0 DEF LineInv, Accepted, Received, Inside
<1>5. CASE Decodes
  <2>1. /\ UNCHANGED <<sent, cur>> /\ dec.pending # <<>>
        /\ dec'.ready = Append(dec.ready, Head(dec.pending))
        /\ dec'.pending = Tail(dec.pending)
    BY <1>5 DEF Decodes
  <2>2. dec'.ready \in Seq(N) /\ dec'.pending \in Seq(N)
    BY <2>1, <1>0
  <2>3. dec'.ready \o dec'.pending = Inside
    <3>1. dec.ready \in Seq(N) /\ dec.pending \in Seq(N)
      BY <1>0
    <3>2. Append(dec.ready, Head(dec.pending)) \o Tail(dec.pending)
            = dec.ready \o dec.pending
      BY <3>1, <2>1, PullKeepsOut
    <3> QED BY <3>2, <2>1 DEF Inside
  <2>4. Accepted' = Accepted /\ Received' \in Nat /\ sent' = Accepted' \o Inside'
    BY <2>1, <2>2, <2>3, <1>0, <1>1
  <2>5. ~Receives
    BY <2>1, <1>r
  <2> QED BY <2>1, <2>4, <2>5, <1>0 DEF LineInv
<1>6. CASE Reads /\ UNCHANGED sent
  <2>1. UNCHANGED <<dec, sent, cur>>
    BY <1>6, <1>0 DEF Reads
  <2>2. ~Receives
    BY <2>1, <1>r
  <2> QED BY <2>1, <2>2, <1>0 DEF LineInv, Accepted, Received, Inside
<1>7. CASE Reads /\ ~UNCHANGED sent
  <2>1. /\ UNCHANGED cur /\ dec'.ready = dec.ready
        /\ dec'.pending = Append(dec.pending, next) /\ sent' = Append(sent, next)
        /\ next \in N /\ next \in Int
    <3>1. next \in 1 .. Last + 1 /\ next <= Last
      BY <1>7 DEF Reads, IInv, Types, DecTypeOK
    <3>2. next \in N /\ next \in Int
      BY <3>1, <1>0 DEF N
    <3> QED BY <3>2, <1>7 DEF Reads
  <2>2. dec'.pending \in Seq(N)
    BY <2>1, <1>0
  <2>3. dec'.ready \o dec'.pending = Append(Inside, next)
    <3>1. dec.ready \in Seq(N) /\ dec.pending \in Seq(N) /\ next \in N
      BY <2>1, <1>0
    <3>2. dec.ready \o Append(dec.pending, next)
            = Append(dec.ready \o dec.pending, next)
      BY <3>1, AppendToConcat
    <3> QED BY <3>2, <2>1 DEF Inside
  <2>4. sent' = Accepted \o (dec'.ready \o dec'.pending)
    <3>1. Accepted \in Seq(N) /\ Inside \in Seq(N) /\ next \in N
      BY <2>1, <1>0
    <3>2. Accepted \o Append(Inside, next) = Append(Accepted \o Inside, next)
      BY <3>1, AppendToConcat
    <3> QED BY <3>2, <2>1, <2>3, <1>0
  <2>5. Accepted' = Accepted /\ Received' \in Nat /\ sent' = Accepted' \o Inside'
    BY <2>1, <2>2, <2>4, <1>0, <1>1
  <2>6. IsIncreasing(sent')
    <3>1. \A e \in Elements(sent) : e < next
      BY DEF IInv, AccountInv, SourceInv, Past
    <3> QED BY <3>1, <2>1, <1>0, IncreasingAppend
  <2>7. ~Receives
    BY <2>1, <1>r
  <2> QED BY <2>1, <2>5, <2>6, <2>7, <1>0 DEF LineInv
<1>8. CASE Receives
  <2>1. /\ UNCHANGED sent /\ dec.ready # <<>> /\ cur' = Head(dec.ready)
        /\ dec'.ready = Tail(dec.ready) /\ dec'.pending = dec.pending
    BY <1>8 DEF Receives
  <2>2. dec'.ready \in Seq(N) /\ cur' \in N
    BY <2>1, <1>0, TailFacts
  <2>3. /\ Inside # <<>> /\ cur' = Head(Inside)
        /\ dec'.ready \o dec'.pending = Tail(Inside)
    <3>1. dec.ready \in Seq(N) /\ dec.pending \in Seq(N)
      BY <1>0
    <3>2. /\ Head(dec.ready \o dec.pending) = Head(dec.ready)
          /\ Tail(dec.ready \o dec.pending) = Tail(dec.ready) \o dec.pending
          /\ dec.ready \o dec.pending # <<>>
      BY <3>1, <2>1, FrontHead
    <3> QED BY <3>2, <2>1 DEF Inside
  <2>4. Append(Accepted, cur') \in Seq(N)
    BY <2>2, <1>0
  <2>5. sent' = Append(Accepted, cur') \o (dec'.ready \o dec'.pending)
    BY <2>1, <2>3, <1>0, PullKeepsOut
  <2>6. /\ Accepted' = Append(Accepted, cur') /\ Received' \in Nat
        /\ sent' = Accepted' \o Inside'
    BY <2>1, <2>2, <2>4, <2>5, <1>0, <1>1
  <2>7. Accepted' # <<>> /\ cur' = Accepted'[Len(Accepted')]
    <3>1. PICK x \in N : x = cur'
      BY <2>2
    <3>2. Accepted' = Append(Accepted, x)
      BY <2>6, <3>1
    <3>3. /\ Append(Accepted, x) # <<>>
          /\ Append(Accepted, x)[Len(Append(Accepted, x))] = x
      BY <1>0
    <3> QED BY <3>1, <3>2, <3>3
  <2> QED BY <2>1, <2>6, <2>7, <1>0, <1>8 DEF LineInv
<1> QED BY <1>2, <1>3, <1>4, <1>5, <1>6, <1>7, <1>8, FlowCases

LEMMA FrontIncreasing ==
  ASSUME NEW t \in Seq(Int), NEW s \in Seq(Int), IsIncreasing(t \o s)
  PROVE  IsIncreasing(t)
<1>1. /\ DOMAIN t = 1 .. Len(t) /\ DOMAIN (t \o s) = 1 .. Len(t) + Len(s)
      /\ Len(t) \in Nat /\ Len(s) \in Nat
  BY Front
<1> SUFFICES ASSUME NEW i \in 1 .. Len(t), NEW j \in 1 .. Len(t), i < j
             PROVE  t[i] < t[j]
  BY <1>1 DEF IsIncreasing
<1>2. (t \o s)[i] = t[i] /\ (t \o s)[j] = t[j]
  BY Joined
<1>3. i \in DOMAIN (t \o s) /\ j \in DOMAIN (t \o s)
  BY <1>1
<1>4. (t \o s)[i] < (t \o s)[j]
  BY <1>3 DEF IsIncreasing
<1> QED BY <1>2, <1>4

(* What the port showed and is to show, when nothing is scaled.            *)
LEMMA OutIsShown ==
  ASSUME IInv, ~Upscale
  PROVE  Out = pulled \o Shown
<1>1. \A i \in DOMAIN port : Picture(port[i]) = Abs(port[i])
  <2>1. Target \notin Elements(port)
    BY DEF IInv, PortInv
  <2> QED BY <2>1 DEF Elements, Picture, Abs
<1> QED BY <1>1 DEF Out, Shown, ShownOf

LEMMA OutSteps ==
  ASSUME IInv, IInv', [Next]_vars
  PROVE  /\ Upscale' = Upscale
         /\ \/ Upscale \/ Out' = Out
            \/ cur \in Frames /\ cur' = 0 /\ Out' = Append(Out, cur)
<1>0. /\ Shown \in Seq(Int) /\ port \in Seq(Int) /\ pulled \in Seq(Int)
  BY PortTypes, ShownFacts DEF IInv, Shown
<1>1. Upscale' = Upscale
  BY PortCases DEF portVars, Pulls, Draws, Offers, Upscale
<1> SUFFICES ASSUME ~Upscale
             PROVE  \/ Out' = Out
                    \/ cur \in Frames /\ cur' = 0 /\ Out' = Append(Out, cur)
  BY <1>1
<1>2. Out = pulled \o Shown /\ Out' = pulled' \o Shown'
  <2>1. ~Upscale'
    BY <1>1
  <2>2. Out' = pulled' \o Shown'
    <3>1. \A i \in DOMAIN port' : Picture(port[i])' = Abs(port'[i])
      <4>1. Target \notin Elements(port')
        BY <2>1 DEF IInv, PortInv
      <4> QED BY <4>1 DEF Elements, Picture, Abs
    <3> QED BY <3>1 DEF Out, Shown, ShownOf
  <2> QED BY <2>2, OutIsShown
<1>3. CASE UNCHANGED portVars
  BY <1>2, <1>3 DEF portVars, Shown
<1>4. CASE Pulls
  <2>1. /\ port # <<>> /\ port' = Tail(port) /\ Head(port) \in Elements(port)
        /\ pulled' = Append(pulled, Picture(Head(port)))
    BY <1>0, <1>4, TailFacts DEF Pulls
  <2>2. Picture(Head(port)) = Abs(Head(port))
    BY <2>1 DEF IInv, PortInv, Picture, Abs
  <2>3. Shown # <<>> /\ Head(Shown) = Abs(Head(port)) /\ Shown' = Tail(Shown)
    BY <2>1, <1>0, ShownFacts DEF Shown
  <2> QED BY <2>1, <2>2, <2>3, <1>0, <1>2, PullKeepsOut
<1>5. CASE Draws
  BY <1>5 DEF Draws
<1>6. CASE Offers
  <2>1. /\ cur \in Frames /\ cur' = 0 /\ display \in {cur, 0 - cur}
        /\ UNCHANGED pulled
        /\ port' = port \/ port' = Append(port, display)
    BY <1>6 DEF Offers, PushOutput
  <2>2. display \in Int /\ Abs(display) = cur /\ cur \in Int
    BY <2>1, PortTypes DEF IInv
  <2>3. CASE port' = port
    BY <2>1, <2>3, <1>2 DEF Shown
  <2>4. CASE port' = Append(port, display)
    <3>1. Shown' = Append(Shown, cur)
      BY <2>2, <2>4, <1>0, ShownFacts DEF Shown
    <3>2. pulled \in Seq(Int) /\ Shown \in Seq(Int) /\ cur \in Int
      BY <1>0, <2>2
    <3>3. pulled \o Append(Shown, cur) = Append(pulled \o Shown, cur)
      BY <3>2, AppendToConcat
    <3> QED BY <3>1, <3>3, <2>1, <1>2
  <2> QED BY <2>1, <2>3, <2>4
<1> QED BY <1>3, <1>4, <1>5, <1>6, PortCases

(* When a run ends, and when a round does.                                 *)
LEMMA ResultSteps ==
  ASSUME IInv, [Next]_vars
  PROVE  /\ \/ UNCHANGED result
            \/ /\ pc # "done" /\ cur = 0 /\ cur' = 0
               /\ result' \in {"ok", "fail"}
         /\ cur' # cur => pc # "done"
<1> USE DEF runVars, decVars, fileVars, vars, Finish
<1>0. pc \in {"head", "receive"} => cur = 0
  BY DEF IInv, RoundInv
<1>1. CASE FeedStep /\ UNCHANGED fileVars
  BY <1>0, <1>1
     DEF FeedStep, FeedPacket, FeedEof, FeedFails, FeedNothing, ReceiveFails
<1>2. CASE StopSeen \/ ReceiveFrame \/ ReceiveNothing \/ ReceiveEnd
  BY <1>0, <1>2 DEF StopSeen, ReceiveFrame, ReceiveNothing, ReceiveEnd
<1>3. CASE FrameToHost \/ PostUpscale
  BY <1>3 DEF FrameToHost, PostUpscale
<1>4. CASE WriteDisplay \/ WriteFails \/ SkipFrame
  BY <1>4 DEF WriteDisplay, WriteFails, SkipFrame, ReleaseRound
<1>5. CASE DecoderWorks \/ PullDisplay \/ UNCHANGED vars
           \/ (RequestStop /\ UNCHANGED <<decVars, fileVars>>)
  BY <1>5 DEF DecoderWorks, PullDisplay, RequestStop
<1> QED BY <1>1, <1>2, <1>3, <1>4, <1>5 DEF Next, LoopStep, Returned

LEMMA StepPromises ==
  ASSUME IInv, IInv', LineInv, LineInv', [Next]_vars
  PROVE  [Promise!Next]_(Promise!transferVars)
<1> DEFINE A == Accepted
           n == IF cur = 0 THEN Received ELSE Received - 1
           O == IF Upscale THEN <<>> ELSE Out
<1>0. /\ Accepted \in Seq(1 .. Last) /\ Len(Accepted) = Received
      /\ Received \in Nat /\ pc # "done" => result = "none"
      /\ cur # 0 => Accepted # <<>> /\ cur = Accepted[Len(Accepted)]
  BY LineTypes DEF IInv, EndInv, LineInv
<1>1. CASE Receives
  <2>1. /\ dec.ready # <<>> /\ cur = 0 /\ cur' = Head(dec.ready)
        /\ UNCHANGED <<next, sent, written>>
    BY <1>1 DEF Receives
  <2>2. cur' \in 1 .. Last /\ cur' # 0
    <3>1. dec.ready \in Seq(1 .. Last)
      BY FlowTypes DEF IInv
    <3>2. \A x \in 1 .. Last : x # 0
      OBVIOUS
    <3> QED BY <3>1, <3>2, <2>1, TailFacts
  <2>3. UNCHANGED result /\ result = "none"
    BY <2>1, <2>2, <1>0, ResultSteps
  <2>4. O' = O
    BY <2>1, <2>2, OutSteps
  <2>5. PICK x \in 1 .. Last : x = cur'
    BY <2>2
  <2>6. Accepted' = Append(A, x)
    BY <2>5, <1>1, LineStays
  <2>7. Received' = Received + 1
    <3> DEFINE x1 == Len(sent)
               y == Len(dec.ready)
               z == Len(dec.pending)
    <3>1. x1 \in Nat /\ y \in Nat /\ z \in Nat /\ Received = x1 - y - z
      BY LineTypes DEF IInv, Received
    <3>2. Len(dec'.ready) = y - 1 /\ dec'.pending = dec.pending
      <4>1. dec.ready \in Seq(1 .. Last)
        BY FlowTypes DEF IInv
      <4> QED BY <4>1, <1>1, TailFacts DEF Receives
    <3>3. Received' = x1 - (y - 1) - z
      BY <2>1, <3>2 DEF Received
    <3> HIDE DEF x1, y, z
    <3>4. x1 - (y - 1) - z = (x1 - y - z) + 1
      BY <3>1
    <3> QED BY <3>1, <3>3, <3>4
  <2>8. n' = n
    BY <2>1, <2>2, <2>7, <1>0
  <2>9. \A i \in DOMAIN A : A[i] < x
    <3>1. PICK u \in Seq(1 .. Last), v \in Seq(1 .. Last), w \in Seq(1 .. Last) :
            u = Accepted' /\ v = dec'.ready /\ w = dec'.pending
      <4>1. dec'.ready \in Seq(1 .. Last) /\ dec'.pending \in Seq(1 .. Last)
        BY DEF IInv, Types, DecTypeOK, CodecType
      <4>2. Append(A, x) \in Seq(1 .. Last)
        BY <1>0
      <4> QED BY <4>1, <4>2, <2>6
    <3>2. IsIncreasing(u \o (v \o w))
      BY <3>1 DEF LineInv, Inside
    <3>3. IsIncreasing(u)
      <4>1. \A t \in Seq(1 .. Last) : t \in Seq(Int)
        BY RunAssumption
      <4>2. v \o w \in Seq(Int) /\ u \in Seq(Int)
        BY <4>1, Front
      <4> QED BY <4>2, <3>2, FrontIncreasing
    <3>4. u = Append(A, x)
      BY <3>1, <2>6
    <3> SUFFICES ASSUME NEW i \in DOMAIN A PROVE A[i] < x
      OBVIOUS
    <3>5. /\ i \in DOMAIN u /\ Len(A) + 1 \in DOMAIN u /\ i < Len(A) + 1
          /\ u[i] = A[i] /\ u[Len(A) + 1] = x
      BY <3>4, <1>0
    <3> QED BY <3>3, <3>5 DEF IsIncreasing
  <2> HIDE DEF A, n, O
  <2>10. Promise!Accept(x)
    BY <2>1, <2>3, <2>4, <2>6, <2>8, <2>9 DEF Promise!Accept, A, n, O
  <2> QED BY <2>10 DEF Promise!Next
<1>2. ASSUME ~Receives
      PROVE  Accepted' = A /\ Received' = Received
  <2>1. Accepted' = A
    BY <1>2, LineStays
  <2>2. Received' = Len(Accepted')
    <3>1. PICK u \in Seq(1 .. Last), v \in Seq(1 .. Last), w \in Seq(1 .. Last) :
            u = Accepted' /\ v = dec'.ready /\ w = dec'.pending
      <4>1. dec'.ready \in Seq(1 .. Last) /\ dec'.pending \in Seq(1 .. Last)
        BY DEF IInv, Types, DecTypeOK, CodecType
      <4> QED BY <4>1, <2>1, <1>0
    <3>2. sent' = u \o (v \o w)
      BY <3>1 DEF LineInv, Inside
    <3>3. Len(sent') - Len(v) - Len(w) = Len(u)
      BY <3>2, Cut
    <3> QED BY <3>1, <3>3 DEF Received
  <2> QED BY <2>1, <2>2, <1>0
<1>3. CASE Finishes
  <2>1. /\ cur \in Frames /\ cur' = 0 /\ cur # 0
        /\ written' = Append(written, cur) \/ written' = written
    BY <1>3 DEF Finishes, Frames
  <2>2. UNCHANGED result /\ result = "none"
    BY <2>1, <1>0, ResultSteps
  <2>3. Accepted' = A /\ Received' = Received
    BY <2>1, <1>2 DEF Receives
  <2>4. n < Len(A) /\ n' = n + 1 /\ A[n + 1] = cur
    <3>1. Len(A) = Received /\ A # <<>> /\ cur = A[Received] /\ n = Received - 1
          /\ n' = Received /\ Received \in Nat
      BY <2>1, <2>3, <1>0
    <3> HIDE DEF A, n
    <3>2. n + 1 = Received /\ n < Received
      BY <3>1
    <3> QED BY <3>1, <3>2
  <2>5. O' = O \/ O' = Append(O, cur)
    BY OutSteps
  <2> HIDE DEF A, n, O
  <2>6. ASSUME NEW ok \in BOOLEAN, NEW seen \in BOOLEAN,
               written' = IF ok THEN Append(written, cur) ELSE written,
               O' = IF seen THEN Append(O, cur) ELSE O
        PROVE  Promise!Next
    <3>1. Promise!Deliver(ok, seen)
      BY <2>2, <2>3, <2>4, <2>6 DEF Promise!Deliver, A, n, O
    <3> QED BY <3>1 DEF Promise!Next
  <2>7. CASE written' = Append(written, cur) /\ O' = Append(O, cur)
    BY <2>6, <2>7
  <2>8. CASE written' = Append(written, cur) /\ O' = O
    BY <2>6, <2>8
  <2>9. CASE written' = written /\ O' = Append(O, cur)
    BY <2>6, <2>9
  <2>10. CASE written' = written /\ O' = O
    BY <2>6, <2>10
  <2> QED BY <2>1, <2>5, <2>7, <2>8, <2>9, <2>10
<1>4. CASE ~Receives /\ ~Finishes
  <2>1. UNCHANGED <<cur, written>>
    BY <1>4, FlowCases DEF flowVars, Decodes, Reads, Marks
  <2>2. Accepted' = A /\ Received' = Received
    BY <1>2, <1>4
  <2>3. n' = n
    BY <2>1, <2>2
  <2>4. O' = O
    <3>1. Upscale' = Upscale /\ (Upscale \/ Out' = Out)
      BY <2>1, OutSteps DEF Frames
    <3> QED BY <3>1
  <2>5. CASE UNCHANGED result
    BY <2>1, <2>2, <2>3, <2>4, <2>5 DEF Promise!transferVars
  <2>6. CASE result = "none" /\ cur = 0 /\ result' \in {"ok", "fail"}
    <3>1. n = Len(A)
      BY <2>6, <1>0
    <3> HIDE DEF A, n, O
    <3>2. Promise!Succeed \/ Promise!Fail
      BY <2>1, <2>2, <2>3, <2>4, <2>6, <3>1
         DEF Promise!Succeed, Promise!Fail, A, n, O
    <3> QED BY <3>2 DEF Promise!Next
  <2> QED BY <2>5, <2>6, <1>0, ResultSteps
<1> QED BY <1>1, <1>3, <1>4

(* A decode session is a transfer: the frames the loop received are        *)
(* delivered in order, each at most once, to the file and, unless they are *)
(* scaled, to the port, and the run ends well only between two frames      *)
(* (session.c:549-625).                                                    *)
THEOREM DecodeIsTransfer == FairSpec => IsTransfer
<1>1. Init => LineInv /\ Promise!Init
  <2> SUFFICES ASSUME Init PROVE LineInv /\ Promise!Init
    OBVIOUS
  <2>1. /\ written = <<>> /\ result = "none" /\ port = <<>> /\ pulled = <<>>
        /\ sent = <<>> /\ dec.ready = <<>> /\ dec.pending = <<>> /\ cur = 0
    BY DEF Init, RunInit, DecInit, NewCodec
  <2>2. Received = 0 /\ Accepted = <<>> /\ Inside = <<>> /\ Out = <<>>
    <3>1. Received = 0
      <4> DEFINE e == Len(<<>>)
      <4>1. e = 0
        OBVIOUS
      <4>2. Received = e - e - e
        BY <2>1 DEF Received
      <4> HIDE DEF e
      <4> QED BY <4>1, <4>2
    <3>2. SubSeq(<<>>, 1, 0) = <<>> /\ <<>> \o <<>> = <<>>
      OBVIOUS
    <3>3. [i \in DOMAIN <<>> |-> Picture(<<>>[i])] = <<>>
      OBVIOUS
    <3>4. Inside = <<>> /\ Accepted = <<>>
      BY <2>1, <3>1, <3>2 DEF Inside, Accepted
    <3> QED BY <2>1, <3>1, <3>2, <3>3, <3>4 DEF Out
  <2>3. <<>> \o <<>> = <<>>
    OBVIOUS
  <2> QED BY <2>1, <2>2, <2>3, EmptyFacts DEF LineInv, Promise!Init
<1>2. IInv /\ LineInv /\ [Next]_vars => LineInv'
  BY LineStays
<1>3. /\ IInv /\ IInv' /\ LineInv /\ LineInv' /\ [Next]_vars
        => [Promise!Next]_(Promise!transferVars)
  BY StepPromises
<1> QED BY <1>1, <1>2, <1>3, DecodeInvariance, PTL
        DEF FairSpec, Spec, IsTransfer, Promise!Spec

-----------------------------------------------------------------------------
(* The loop does not stall: a session that copies its frames to host       *)
(* memory never has a decoded frame in the port or as its host frame, so   *)
(* that between two rounds the decoder has all its surfaces.               *)
Unheld ==
  mode = "dma" => \A o \in Elements(port) \cup {host} : o \notin Frames

LEMMA UnheldStays ==
  ASSUME IInv, Unheld, [Next]_vars
  PROVE  Unheld'
<1>0. /\ port \in Seq(Int) /\ Last \in Nat /\ Target = Last + 1
      /\ \A n \in Frames : n \in Int /\ 0 - n \notin Frames
      /\ 0 \notin Frames /\ Target \notin Frames
  BY PortTypes, RunAssumption DEF IInv, Frames, Target
<1>1. mode' = mode
  BY PortCases DEF portVars, Pulls, Draws, Offers
<1> SUFFICES ASSUME mode = "dma"
             PROVE  \A o \in Elements(port') \cup {host'} : o \notin Frames
  BY <1>1 DEF Unheld, Frames
<1>2. \A o \in Elements(port) \cup {host} : o \notin Frames
  BY DEF Unheld
<1>3. Dma /\ ~Upscale
  BY DEF Dma, Upscale
<1>4. host' \notin Frames
  <2>1. host' \in {host, 0} \/ (pc = "host" /\ FrameToHost)
    <3> USE DEF vars, fileVars
    <3>1. CASE StopSeen \/ ReceiveFrame \/ ReceiveNothing \/ ReceiveEnd
      BY <3>1 DEF StopSeen, ReceiveFrame, ReceiveNothing, ReceiveEnd
    <3>2. CASE FrameToHost \/ PostUpscale
      BY <3>2 DEF FrameToHost, PostUpscale
    <3>3. CASE WriteDisplay \/ WriteFails \/ SkipFrame
      BY <3>3 DEF WriteDisplay, WriteFails, SkipFrame, ReleaseRound
    <3>4. CASE DecoderWorks \/ PullDisplay \/ UNCHANGED vars
      BY <3>4 DEF DecoderWorks, PullDisplay
    <3> QED BY <3>1, <3>2, <3>3, <3>4 DEF Next, LoopStep, Returned
  <2>2. CASE pc = "host" /\ FrameToHost
    <3>1. cur \in Frames /\ host' \in {host, 0 - cur}
      BY <2>2, <1>3 DEF FrameToHost, IInv, RoundInv
    <3> QED BY <3>1, <1>0, <1>2
  <2> QED BY <2>1, <2>2, <1>0, <1>2
<1>5. \A o \in Elements(port') : o \notin Frames
  <2>1. CASE UNCHANGED portVars \/ Draws
    BY <2>1, <1>2 DEF portVars, Draws
  <2>2. CASE Pulls
    BY <2>2, <1>0, <1>2, TailFacts DEF Pulls
  <2>3. CASE Offers
    <3>1. port' = port \/ port' = Append(port, display)
      BY <2>3 DEF Offers, PushOutput
    <3>2. display \in Int /\ display \notin Frames
      <4>1. display \in {host, Target} /\ display \in {cur, 0 - cur} /\ cur \in Frames
        BY <2>3, <1>3 DEF Offers
      <4> QED BY <4>1, <1>0, <1>2
    <3>3. Elements(Append(port, display)) = Elements(port) \cup {display}
      BY <3>2, <1>0, AppendElements
    <3>4. CASE port' = port
      BY <3>4, <1>2
    <3>5. CASE port' = Append(port, display)
      <4>1. Elements(port') = Elements(port) \cup {display}
        BY <3>3, <3>5
      <4> QED BY <4>1, <3>2, <1>2
    <3> QED BY <3>1, <3>4, <3>5
  <2> QED BY <2>1, <2>2, <2>3, PortCases
<1> QED BY <1>4, <1>5

(* The parts of Work, as integers.                                         *)
LEMMA WorkTypes ==
  ASSUME Types
  PROVE  /\ dec \in [pending : Seq(Nat), ready : Seq(Nat), settled : BOOLEAN,
                     eos : BOOLEAN]
         /\ Len(dec.pending) \in Nat /\ Len(dec.ready) \in Nat
         /\ next \in Nat /\ next <= Last + 1 /\ Last \in Nat
         /\ Len(port) \in Nat /\ Feeding \in Nat /\ StepsFrom \in 0 .. 6
<1>1. /\ dec \in [pending : Seq(1 .. Last), ready : Seq(1 .. Last),
                  settled : BOOLEAN, eos : BOOLEAN]
      /\ next \in 1 .. Last + 1 /\ Last \in Nat /\ port \in Seq(Objects)
  BY RunAssumption DEF Types, DecTypeOK, CodecType
<1>2. next \in Nat /\ next <= Last + 1
  BY <1>1
<1>3. dec \in [pending : Seq(Nat), ready : Seq(Nat), settled : BOOLEAN, eos : BOOLEAN]
  <2>1. \A t \in Seq(1 .. Last) : t \in Seq(Nat)
    BY RunAssumption
  <2> QED BY <2>1, <1>1
<1>4. Feeding \in Nat
  <2> DEFINE e == IF dec.eos THEN 0 ELSE 4
             p == Len(dec.pending)
             r == Len(dec.ready)
  <2>1. e \in Nat /\ p \in Nat /\ r \in Nat
    BY <1>3
  <2>2. Feeding = 20 * (Last + 1 - next) + 10 * p + 9 * r + e
    BY DEF Feeding
  <2>3. Last + 1 - next \in Nat
    BY <1>1, <1>2
  <2> HIDE DEF e, p, r
  <2> QED BY <2>1, <2>2, <2>3
<1>5. StepsFrom \in 0 .. 6
  BY DEF Types, StepsFrom
<1> QED BY <1>1, <1>2, <1>3, <1>4, <1>5

(* How Feeding changes with what it counts.                                *)
LEMMA FeedingSteps ==
  ASSUME Types
  PROVE  /\ next' = next + 1 /\ dec' = Took(dec, next) => Feeding' = Feeding - 10
         /\ next' = next + 1 /\ UNCHANGED dec => Feeding' = Feeding - 20
         /\ UNCHANGED next /\ ~dec.eos /\ dec' = [dec EXCEPT !.eos = TRUE] =>
              Feeding' = Feeding - 4
         /\ UNCHANGED next /\ dec.ready # <<>> /\ dec' = Gave(dec) =>
              Feeding' = Feeding - 9
         /\ UNCHANGED next /\ dec.pending # <<>> /\ dec' = Made(dec) =>
              Feeding' = Feeding - 1
<1> DEFINE e == IF dec.eos THEN 0 ELSE 4
           n == next
           y == Len(dec.pending)
           z == Len(dec.ready)
           f == Feeding
<1>0. /\ dec \in [pending : Seq(Nat), ready : Seq(Nat), settled : BOOLEAN,
                   eos : BOOLEAN]
      /\ next \in Nat /\ dec.eos \in BOOLEAN
  BY WorkTypes
<1>i. /\ Last \in Int /\ n \in Int /\ y \in Int /\ z \in Int /\ e \in Int
      /\ f = 20 * (Last + 1 - n) + 10 * y + 9 * z + e
  BY WorkTypes DEF Feeding
<1>1. ASSUME next' = next + 1, dec' = Took(dec, next)
      PROVE  Feeding' = Feeding - 10
  <2>1. dec'.pending = Append(dec.pending, next) /\ dec'.ready = dec.ready /\ dec'.eos = dec.eos
    BY <1>0, <1>1 DEF Took
  <2>2. Len(dec'.pending) = y + 1
    BY <2>1, <1>0
  <2>3. Feeding' = 20 * (Last + 1 - (n + 1)) + 10 * (y + 1) + 9 * z + e
    BY <2>1, <2>2, <1>1 DEF Feeding
  <2>4. 20 * (Last + 1 - (n + 1)) + 10 * (y + 1) + 9 * z + e = f - 10
    <3> HIDE DEF e, n, y, z, f
    <3> QED BY <1>i
  <2> QED BY <2>3, <2>4
<1>2. ASSUME next' = next + 1, UNCHANGED dec
      PROVE  Feeding' = Feeding - 20
  <2>1. Feeding' = 20 * (Last + 1 - (n + 1)) + 10 * y + 9 * z + e
    BY <1>2 DEF Feeding
  <2>2. 20 * (Last + 1 - (n + 1)) + 10 * y + 9 * z + e = f - 20
    <3> HIDE DEF e, n, y, z, f
    <3> QED BY <1>i
  <2> QED BY <2>1, <2>2
<1>3. ASSUME UNCHANGED next, ~dec.eos, dec' = [dec EXCEPT !.eos = TRUE]
      PROVE  Feeding' = Feeding - 4
  <2>1. dec'.pending = dec.pending /\ dec'.ready = dec.ready /\ dec'.eos = TRUE
    BY <1>0, <1>3
  <2>2. Feeding' = 20 * (Last + 1 - n) + 10 * y + 9 * z + 0
    BY <2>1, <1>3 DEF Feeding
  <2>3. e = 4
    BY <1>3
  <2>4. 20 * (Last + 1 - n) + 10 * y + 9 * z + 0 = f - 4
    <3> HIDE DEF e, n, y, z, f
    <3> QED BY <1>i, <2>3
  <2> QED BY <2>2, <2>4
<1>4. ASSUME UNCHANGED next, dec.ready # <<>>, dec' = Gave(dec)
      PROVE  Feeding' = Feeding - 9
  <2>1. dec'.ready = Tail(dec.ready) /\ dec'.pending = dec.pending /\ dec'.eos = dec.eos
    BY <1>0, <1>4 DEF Gave
  <2>2. Len(dec'.ready) = z - 1
    BY <2>1, <1>0, <1>4
  <2>3. Feeding' = 20 * (Last + 1 - n) + 10 * y + 9 * (z - 1) + e
    BY <2>1, <2>2, <1>4 DEF Feeding
  <2>4. 20 * (Last + 1 - n) + 10 * y + 9 * (z - 1) + e = f - 9
    <3> HIDE DEF e, n, y, z, f
    <3> QED BY <1>i
  <2> QED BY <2>3, <2>4
<1>5. ASSUME UNCHANGED next, dec.pending # <<>>, dec' = Made(dec)
      PROVE  Feeding' = Feeding - 1
  <2>1. /\ dec'.ready = Append(dec.ready, Head(dec.pending))
        /\ dec'.pending = Tail(dec.pending) /\ dec'.eos = dec.eos
    BY <1>0, <1>5 DEF Made
  <2>2. Len(dec'.pending) = y - 1 /\ Len(dec'.ready) = z + 1
    BY <2>1, <1>0, <1>5
  <2>3. Feeding' = 20 * (Last + 1 - n) + 10 * (y - 1) + 9 * (z + 1) + e
    BY <2>1, <2>2, <1>5 DEF Feeding
  <2>4. 20 * (Last + 1 - n) + 10 * (y - 1) + 9 * (z + 1) + e = f - 1
    <3> HIDE DEF e, n, y, z, f
    <3> QED BY <1>i
  <2> QED BY <2>3, <2>4
<1> QED BY <1>1, <1>2, <1>3, <1>4, <1>5

(* The work that is left goes down when these three together do.           *)
LEMMA WorkFalls ==
  ASSUME Types, UNCHANGED stop, NEW f \in Int, NEW l \in Int, NEW t \in Int,
         f = Feeding', l = Len(port'), t = StepsFrom',
         f + l + t < Feeding + Len(port) + StepsFrom
  PROVE  Work' < Work
<1> DEFINE w == IF stop THEN 0 ELSE 1
           g == Feeding
           m == Len(port)
           u == StepsFrom
<1>1. g \in Int /\ m \in Int /\ u \in Int /\ w \in Int
  <2>1. g \in Int /\ m \in Int /\ u \in 0 .. 6
    BY WorkTypes
  <2>2. w \in Int
    OBVIOUS
  <2> HIDE DEF g, m, u, w
  <2> QED BY <2>1, <2>2
<1>2. Work = g + m + u + w /\ Work' = f + l + t + w
  BY DEF Work
<1>3. f + l + t < g + m + u
  OBVIOUS
<1>4. \A a, b, c, d, e, h, k \in Int :
        a + b + c < d + e + h => a + b + c + k < d + e + h + k
  OBVIOUS
<1> HIDE DEF w, g, m, u
<1>5. f + l + t + w < g + m + u + w
  BY <1>1, <1>3, <1>4
<1> QED BY <1>2, <1>5

LEMMA FeedingFalls ==
  ASSUME IInv, FeedStep, UNCHANGED fileVars
  PROVE  Work' < Work
<1>0. /\ Types /\ Feeding \in Int /\ Len(port) \in Int
      /\ UNCHANGED <<stop, port>> /\ Len(port') = Len(port)
  <2>1. UNCHANGED <<stop, port>>
    BY DEF FeedStep, FeedPacket, FeedEof, FeedFails, FeedNothing, ReceiveFails
  <2> QED BY <2>1, WorkTypes DEF IInv
<1>1. ASSUME NEW d \in Nat, NEW e \in Nat, NEW g \in Nat,
             Feeding' = Feeding - d, StepsFrom = e, StepsFrom' = g, g < e + d
      PROVE  Work' < Work
  <2> DEFINE x == Feeding
             y == Len(port)
  <2>1. (x - d) \in Int /\ (x - d) + y + g < x + y + e
    <3> HIDE DEF x, y
    <3>1. x \in Int /\ y \in Int
      BY <1>0 DEF x, y
    <3> QED BY <3>1, <1>1
  <2> QED BY <2>1, <1>0, <1>1, WorkFalls
<1>2. CASE FeedPacket
  <2>1. pc = "head" /\ ~dec.eos /\ next' = next + 1 /\ StepsFrom = 1
    BY <1>2 DEF FeedPacket, StepsFrom
  <2>2. CASE dec' = Took(dec, next) /\ pc' = "receive"
    <3>1. Feeding' = Feeding - 10 /\ dec'.eos = dec.eos
      BY <2>1, <2>2, <1>0, FeedingSteps, WorkTypes DEF Took
    <3>2. StepsFrom' = 2
      BY <2>1, <2>2, <3>1 DEF StepsFrom
    <3> QED BY <2>1, <3>1, <3>2, <1>1
  <2>3. CASE UNCHANGED dec /\ pc' = "receive"
    <3>1. Feeding' = Feeding - 20 /\ StepsFrom' = 2
      BY <2>1, <2>3, <1>0, FeedingSteps DEF StepsFrom
    <3> QED BY <2>1, <3>1, <1>1
  <2>4. CASE UNCHANGED dec /\ Finish("fail")
    <3>1. Feeding' = Feeding - 20 /\ StepsFrom' = 0
      BY <2>1, <2>4, <1>0, FeedingSteps DEF StepsFrom, Finish
    <3> QED BY <2>1, <3>1, <1>1
  <2> QED BY <2>2, <2>3, <2>4, <1>2 DEF FeedPacket
<1>3. CASE FeedEof
  <2>1. /\ pc = "head" /\ ~dec.eos /\ UNCHANGED next /\ pc' = "receive"
        /\ dec' = [dec EXCEPT !.eos = TRUE]
    BY <1>3 DEF FeedEof
  <2>2. Feeding' = Feeding - 4 /\ dec'.eos = TRUE
    BY <2>1, <1>0, FeedingSteps, WorkTypes
  <2>3. StepsFrom = 1 /\ StepsFrom' = 1
    BY <2>1, <2>2 DEF StepsFrom
  <2> QED BY <2>2, <2>3, <1>1
<1>4. CASE FeedFails \/ ReceiveFails
  <2>1. pc \in {"head", "receive"} /\ pc' = "done" /\ UNCHANGED <<next, dec>>
    BY <1>4 DEF FeedFails, ReceiveFails, Finish, decVars
  <2>2. Feeding' = Feeding - 0 /\ StepsFrom' = 0
    BY <2>1, <1>0 DEF Feeding, StepsFrom
  <2>3. StepsFrom = 1 \/ StepsFrom = 2
    BY <2>1 DEF StepsFrom
  <2>4. CASE StepsFrom = 1
    BY <2>2, <2>4, <1>1
  <2>5. CASE StepsFrom = 2
    BY <2>2, <2>5, <1>1
  <2> QED BY <2>3, <2>4, <2>5
<1>5. CASE FeedNothing
  <2>1. pc = "head" /\ dec.eos /\ pc' = "receive" /\ UNCHANGED <<next, dec>>
    BY <1>5 DEF FeedNothing, decVars
  <2>2. Feeding' = Feeding - 0 /\ StepsFrom' = 1 /\ StepsFrom = 2
    BY <2>1, <1>0 DEF Feeding, StepsFrom
  <2> QED BY <2>2, <1>1
<1> QED BY <1>2, <1>3, <1>4, <1>5 DEF FeedStep

LEMMA OtherFalls ==
  ASSUME IInv, Next, ~(FeedStep /\ UNCHANGED fileVars)
  PROVE  Work' < Work \/ UNCHANGED vars
<1>0. /\ Types /\ Feeding \in Int /\ Len(port) \in Int /\ StepsFrom \in 0 .. 6
      /\ port \in Seq(Int)
  BY WorkTypes, PortTypes DEF IInv
<1>1. ASSUME NEW d \in Nat, NEW e \in Nat, NEW g \in Nat, NEW h \in {-1, 0, 1},
             Feeding' = Feeding - d, StepsFrom = e, StepsFrom' = g,
             Len(port') = Len(port) + h, g + h < e + d, UNCHANGED stop
      PROVE  Work' < Work
  <2> DEFINE x == Feeding
             y == Len(port)
  <2>1. (x - d) \in Int /\ y + h \in Int /\ (x - d) + (y + h) + g < x + y + e
    <3> HIDE DEF x, y
    <3>1. x \in Int /\ y \in Int
      BY <1>0 DEF x, y
    <3> QED BY <3>1, <1>1
  <2> QED BY <2>1, <1>0, <1>1, WorkFalls
<1>2. ASSUME UNCHANGED <<next, dec>>
      PROVE  Feeding' = Feeding - 0
  BY <1>0, <1>2 DEF Feeding
<1>3. ASSUME NEW d \in Nat, NEW e \in Nat, NEW g \in Nat,
             Feeding' = Feeding - d, StepsFrom = e, StepsFrom' = g,
             UNCHANGED <<port, stop>>, g < e + d
      PROVE  Work' < Work
  <2>1. Len(port') = Len(port) + 0 /\ g + 0 < e + d
    BY <1>0, <1>3
  <2> QED BY <2>1, <1>1, <1>3
<1> USE DEF decVars, fileVars, runVars, Finish
<1>4. CASE StopSeen \/ ReceiveEnd
  <2>1. pc \in {"head", "receive"} /\ pc' = "done" /\ UNCHANGED <<next, dec, port, stop>>
    BY <1>4 DEF StopSeen, ReceiveEnd
  <2>2. StepsFrom' = 0 /\ (StepsFrom = 1 \/ StepsFrom = 2)
    BY <2>1 DEF StepsFrom
  <2>3. CASE StepsFrom = 1
    BY <2>1, <2>2, <2>3, <1>2, <1>3
  <2>4. CASE StepsFrom = 2
    BY <2>1, <2>2, <2>4, <1>2, <1>3
  <2> QED BY <2>2, <2>3, <2>4
<1>5. CASE ReceiveFrame
  <2>1. /\ pc = "receive" /\ pc' = "host" /\ UNCHANGED <<next, port, stop>>
        /\ dec.ready # <<>> /\ dec' = Gave(dec)
    BY <1>5 DEF ReceiveFrame, HasFrame
  <2>2. StepsFrom' = 6 /\ (StepsFrom = 1 \/ StepsFrom = 2)
    BY <2>1 DEF StepsFrom
  <2>3. Feeding' = Feeding - 9
    BY <2>1, <1>0, FeedingSteps
  <2>4. CASE StepsFrom = 1
    BY <2>1, <2>2, <2>3, <2>4, <1>3
  <2>5. CASE StepsFrom = 2
    BY <2>1, <2>2, <2>3, <2>5, <1>3
  <2> QED BY <2>2, <2>4, <2>5
<1>6. CASE ReceiveNothing
  <2>1. /\ pc = "receive" /\ pc' = "head" /\ UNCHANGED <<next, port, stop>>
        /\ ~dec.eos /\ dec' = [dec EXCEPT !.settled = TRUE]
    BY <1>6 DEF ReceiveNothing, NoFrameYet
  <2>2. dec'.ready = dec.ready /\ dec'.pending = dec.pending /\ dec'.eos = dec.eos
    BY <2>1, <1>0, WorkTypes
  <2>3. Feeding' = Feeding - 0
    BY <2>1, <2>2, <1>0 DEF Feeding
  <2>4. StepsFrom = 2 /\ StepsFrom' = 1
    BY <2>1, <2>2 DEF StepsFrom
  <2> QED BY <2>1, <2>3, <2>4, <1>3
<1>7. CASE FrameToHost
  <2>1. pc = "host" /\ pc' = "upscale" /\ UNCHANGED <<next, dec, port, stop>>
    BY <1>7 DEF FrameToHost
  <2>2. StepsFrom = 6 /\ StepsFrom' = 5
    BY <2>1 DEF StepsFrom
  <2> QED BY <2>1, <2>2, <1>2, <1>3
<1>8. CASE PostUpscale
  <2>1. pc = "upscale" /\ pc' = "write" /\ UNCHANGED <<next, dec, port, stop>>
    BY <1>8 DEF PostUpscale
  <2>2. StepsFrom = 5 /\ StepsFrom' = 4
    BY <2>1 DEF StepsFrom
  <2> QED BY <2>1, <2>2, <1>2, <1>3
<1>9. CASE WriteDisplay \/ WriteFails \/ SkipFrame
  <2>1. /\ pc = "write" /\ pc' = "head" /\ UNCHANGED <<next, dec, stop>>
        /\ port' = port \/ port' = Append(port, display)
    BY <1>9 DEF WriteDisplay, WriteFails, SkipFrame, ReleaseRound, PushOutput
  <2>2. StepsFrom = 4 /\ (StepsFrom' = 1 \/ StepsFrom' = 2)
    BY <2>1 DEF StepsFrom
  <2>3. Len(port') = Len(port) + 0 \/ Len(port') = Len(port) + 1
    BY <2>1, <1>0
  <2>4. ASSUME NEW g \in {1, 2}, StepsFrom' = g, NEW h \in {0, 1},
               Len(port') = Len(port) + h
        PROVE  Work' < Work
    <3>1. g \in Nat /\ h \in {-1, 0, 1} /\ g + h < 4 + 0
      OBVIOUS
    <3> QED BY <2>1, <2>2, <2>4, <3>1, <1>1, <1>2
  <2> QED BY <2>2, <2>3, <2>4
<1>10. CASE DecoderWorks
  <2>1. /\ UNCHANGED <<pc, next, port, stop>> /\ dec.pending # <<>>
        /\ dec' = Made(dec)
    BY <1>10 DEF DecoderWorks
  <2>2. Feeding' = Feeding - 1
    BY <2>1, <1>0, FeedingSteps
  <2>3. dec'.eos = dec.eos
    BY <2>1, <1>0, WorkTypes DEF Made
  <2>4. StepsFrom' = StepsFrom
    BY <2>1, <2>3 DEF StepsFrom
  <2>5. StepsFrom \in Nat /\ StepsFrom < StepsFrom + 1
    BY <1>0
  <2> QED BY <2>1, <2>2, <2>4, <2>5, <1>3
<1>11. CASE PullDisplay
  <2>1. /\ UNCHANGED <<pc, next, dec, stop>> /\ port # <<>> /\ port' = Tail(port)
    BY <1>11 DEF PullDisplay
  <2>2. Len(port') = Len(port) + (-1)
    BY <2>1, <1>0
  <2>3. StepsFrom' = StepsFrom
    BY <2>1 DEF StepsFrom
  <2>4. StepsFrom \in Nat /\ StepsFrom + (-1) < StepsFrom + 0
    BY <1>0
  <2> QED BY <2>1, <2>2, <2>3, <2>4, <1>1, <1>2
<1>12. CASE RequestStop /\ UNCHANGED <<decVars, fileVars>>
  <2>1. UNCHANGED <<pc, next, dec, port>> /\ stop = FALSE /\ stop' = TRUE
    BY <1>12, <1>0 DEF RequestStop, Types
  <2>2. Feeding' = Feeding /\ StepsFrom' = StepsFrom
    BY <2>1 DEF Feeding, StepsFrom
  <2> DEFINE x == Feeding + Len(port) + StepsFrom
  <2>3. Work = x + 1 /\ Work' = x + 0
    BY <2>1, <2>2 DEF Work
  <2>4. x \in Int
    <3> DEFINE u == StepsFrom
    <3>1. u \in Int
      BY <1>0
    <3> HIDE DEF u
    <3> QED BY <3>1, <1>0 DEF u
  <2> HIDE DEF x
  <2> QED BY <2>3, <2>4
<1> QED BY <1>4, <1>5, <1>6, <1>7, <1>8, <1>9, <1>10, <1>11, <1>12
        DEF Next, LoopStep, Returned

(* At the receive of a session with DMA-BUF frames, nobody holds a frame.  *)
LEMMA SurfacesFree ==
  ASSUME IInv, Unheld, ~SameSize, pc = "receive", Dma
  PROVE  \A n \in Frames : refs[n] = 0
<1> SUFFICES ASSUME NEW n \in Frames PROVE refs[n] = 0
  OBVIOUS
<1>1. /\ n \in Objects /\ n # 0 /\ n # Target /\ port \in Seq(Objects)
  BY PortTypes DEF IInv
<1>2. n \notin Elements(port)
  BY <1>1 DEF Unheld, IInv, PortInv, Dma, Upscale
<1>3. Queued(n) = 0
  BY <1>1, <1>2, CountType DEF Queued, Count
<1>4. cur = 0 /\ host = 0 /\ display = 0
  BY DEF IInv, RoundInv
<1>5. /\ One(n = cur) = 0 /\ One(n = host) = 0
      /\ One(n = display /\ display # host) = 0
      /\ One(n = Target /\ target # 0) = 0
  BY <1>1, <1>4, OneFacts
<1>6. refs[n] = Owed(n)
  BY <1>1 DEF IInv, RefsInv
<1> QED BY <1>3, <1>5, <1>6 DEF Owed

(* The decode loop makes progress: every step of it, of the decoder, of    *)
(* the consumer and of who stops it uses up work, of which there is only   *)
(* so much, and the loop waits for the decoder only while that can work,   *)
(* in sessions whose frames change size (session.c:549-625).               *)
THEOREM DecodeProgress == SameSize = FALSE /\ FairSpec => Progress
<1> SUFFICES ASSUME SameSize = FALSE PROVE FairSpec => Progress
  OBVIOUS
<1>1. IInv /\ [Next]_vars => [Work' < Work]_vars
  <2> SUFFICES ASSUME IInv, Next PROVE Work' < Work \/ UNCHANGED vars
    OBVIOUS
  <2> QED BY FeedingFalls, OtherFalls
<1>2. Init => Unheld
  <2> SUFFICES ASSUME Init PROVE Unheld
    OBVIOUS
  <2>1. port = <<>> /\ host = 0 /\ 0 \notin Frames
    BY DEF Init, RunInit, Frames
  <2> QED BY <2>1, EmptyFacts DEF Unheld
<1>3. IInv /\ Unheld /\ [Next]_vars => Unheld'
  BY UnheldStays
<1>4. IInv /\ Unheld => Work \in Nat /\ NoStall
  <2> SUFFICES ASSUME IInv, Unheld PROVE Work \in Nat /\ NoStall
    OBVIOUS
  <2>1. Work \in Nat
    <3> DEFINE w == IF stop THEN 0 ELSE 1
               f == Feeding
               l == Len(port)
               t == StepsFrom
    <3>1. f \in Nat /\ l \in Nat /\ t \in 0 .. 6
      BY WorkTypes DEF IInv
    <3>2. w \in Nat /\ Work = f + l + t + w
      BY DEF Work
    <3> HIDE DEF w, f, l, t
    <3> QED BY <3>1, <3>2
  <2>2. ASSUME pc = "receive", dec.ready = <<>>, Dma
        PROVE  SurfacesUsed < Surfaces
    <3>1. {n \in Frames : refs[n] > 0} = {}
      BY <2>2, SurfacesFree
    <3>2. Len(dec.ready) = 0
      BY <2>2
    <3>3. SurfacesUsed = 0
      BY <3>1, <3>2, FS_EmptySet DEF SurfacesUsed
    <3> QED BY <3>3, DecodeFileAssumption
  <2> QED BY <2>1, <2>2 DEF NoStall, HasFrame
<1> QED BY <1>1, <1>2, <1>3, <1>4, DecodeInvariance, PTL
        DEF FairSpec, Spec, Progress

-----------------------------------------------------------------------------
(* What every transfer delivers, this one does.                            *)
Whole ==
  INSTANCE TransferProofs WITH
    Frames <- 1 .. Last,
    lossy <- FALSE,
    accepted <- Accepted,
    done <- IF cur = 0 THEN Received ELSE Received - 1,
    shown <- IF Upscale THEN <<>> ELSE Out,
    outcome <- result

(* At every moment of a decode session, the file holds received frames in  *)
(* their order and none twice, all of them if no round failed, and the     *)
(* port likewise unless frames are scaled (session.c:549-625).             *)
THEOREM DecodeDelivers == FairSpec => []Promise!Delivered
<1>1. 1 .. Last \subseteq Int
  BY RunAssumption
<1>2. Promise!Spec => []Promise!Delivered
  <2>1. Promise!Spec => Whole!Spec
    BY PTL
       DEF Promise!Spec, Whole!Spec, Promise!Init, Whole!Init, Promise!Next, Whole!Next,
           Promise!transferVars, Whole!transferVars, Promise!Accept, Whole!Accept,
           Promise!Deliver, Whole!Deliver, Promise!Succeed, Whole!Succeed, Promise!Fail, Whole!Fail
  <2> QED BY <1>1, <2>1, Whole!TransferDelivers, PTL
          DEF Promise!Delivered, Whole!Delivered,
              Promise!Through, Whole!Through, Promise!Increasing, Whole!Increasing
<1> QED BY <1>2, DecodeIsTransfer, PTL DEF IsTransfer
=============================================================================
