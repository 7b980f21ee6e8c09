--------------------------- MODULE TransferProofs ----------------------------
(***************************************************************************)
(* What follows from the abstract specification alone, for any frames that *)
(* are numbers, however many.                                              *)
(***************************************************************************)
EXTENDS Transfer, Integers, TLAPS

Types ==
  /\ accepted \in Seq(Int) /\ written \in Seq(Int) /\ shown \in Seq(Int)
  /\ done \in Nat /\ outcome \in {"none", "ok", "fail"}

TransferInv == Types /\ Delivered

LEMMA AppendFacts ==
  ASSUME NEW s \in Seq(Int), NEW x \in Int
  PROVE  /\ Append(s, x) \in Seq(Int) /\ Len(Append(s, x)) = Len(s) + 1
         /\ Len(s) \in Nat /\ DOMAIN s = 1 .. Len(s)
         /\ DOMAIN Append(s, x) = 1 .. Len(s) + 1
         /\ \A i \in 1 .. Len(s) : Append(s, x)[i] = s[i] /\ s[i] \in Int
         /\ Append(s, x)[Len(s) + 1] = x
  OBVIOUS

(* A larger number at the end keeps a sequence increasing.                 *)
LEMMA IncreasingAppend ==
  ASSUME NEW s \in Seq(Int), NEW x \in Int, Increasing(s),
         \A i \in DOMAIN s : s[i] < x
  PROVE  Increasing(Append(s, x))
<1> DEFINE t == Append(s, x)
<1>1. /\ DOMAIN t = 1 .. Len(s) + 1 /\ DOMAIN s = 1 .. Len(s) /\ Len(s) \in Nat
      /\ \A i \in 1 .. Len(s) : t[i] = s[i]
      /\ t[Len(s) + 1] = x
  BY AppendFacts
<1> HIDE DEF t
<1>2. ASSUME NEW i \in 1 .. Len(s) + 1, NEW j \in 1 .. Len(s) + 1, i < j
      PROVE  t[i] < t[j]
  <2>1. i \in 1 .. Len(s) /\ (j \in 1 .. Len(s) \/ j = Len(s) + 1)
    BY <1>1, <1>2
  <2>2. CASE j \in 1 .. Len(s)
    BY <2>1, <2>2, <1>1, <1>2 DEF Increasing
  <2>3. CASE j = Len(s) + 1
    BY <2>1, <2>3, <1>1
  <2> QED BY <2>1, <2>2, <2>3
<1>3. Increasing(t)
  BY <1>1, <1>2 DEF Increasing
<1> QED BY <1>3 DEF t

(* A receiver that misses the next frame is behind; one that gets it has   *)
(* what it had and this frame.                                             *)
LEMMA ThroughGrows ==
  ASSUME NEW s \in Seq(Int), NEW x \in Int, Types, Increasing(accepted),
         Through(s), done < Len(accepted), x = accepted[done + 1],
         accepted' = accepted, done' = done + 1
  PROVE  Through(s)' /\ Through(Append(s, x))'
<1> DEFINE t == Append(s, x)
           n == Len(s)
<1>1. /\ n \in Nat /\ n <= done /\ done \in Nat /\ Len(accepted) \in Nat
      /\ DOMAIN accepted = 1 .. Len(accepted)
      /\ \A k \in 1 .. done + 1 : k \in DOMAIN accepted /\ accepted[k] \in Int
  BY DEF Types, Through
<1>2. ASSUME NEW k \in 1 .. done PROVE accepted[k] < x
  <2>1. k \in DOMAIN accepted /\ done + 1 \in DOMAIN accepted /\ k < done + 1
    BY <1>1
  <2> QED BY <2>1 DEF Increasing
<1>3. /\ t \in Seq(Int) /\ Len(t) = n + 1 /\ DOMAIN t = 1 .. n + 1
      /\ DOMAIN s = 1 .. n
      /\ \A i \in 1 .. n : t[i] = s[i]
      /\ t[n + 1] = x
  BY AppendFacts
<1> HIDE DEF t, n
<1>4. /\ Increasing(s) /\ \A i \in 1 .. n : \E k \in 1 .. done : s[i] = accepted[k]
      /\ n = done => \A i \in 1 .. done : s[i] = accepted[i]
  BY <1>3 DEF Through, n
<1>5. Through(s)'
  <2>1. n <= done + 1 /\ n # done + 1
    BY <1>1
  <2>2. \A i \in DOMAIN s : \E k \in 1 .. done + 1 : s[i] = accepted[k]
    <3>1. \A k \in 1 .. done : k \in 1 .. done + 1
      BY <1>1
    <3> QED BY <3>1, <1>3, <1>4
  <2> QED BY <2>1, <2>2, <1>4 DEF Through, n
<1>6. Through(t)'
  <2>1. Increasing(t)
    <3>1. \A i \in DOMAIN s : s[i] < x
      BY <1>2, <1>3, <1>4
    <3> QED BY <3>1, <1>2, <1>4, IncreasingAppend DEF t
  <2>2. Len(t) <= done + 1
    BY <1>1, <1>3
  <2>3. ASSUME NEW i \in DOMAIN t
        PROVE  \E k \in 1 .. done + 1 : t[i] = accepted[k]
    <3>1. CASE i \in 1 .. n
      <4>1. PICK k \in 1 .. done : s[i] = accepted[k]
        BY <3>1, <1>4
      <4>2. k \in 1 .. done + 1 /\ t[i] = accepted[k]
        BY <4>1, <3>1, <1>1, <1>3
      <4> QED BY <4>2
    <3>2. CASE i = n + 1
      <4>1. done + 1 \in 1 .. done + 1 /\ t[i] = accepted[done + 1]
        BY <3>2, <1>1, <1>3
      <4> QED BY <4>1
    <3> QED BY <3>1, <3>2, <1>1, <1>3
  <2>4. ASSUME Len(t) = done + 1, NEW i \in 1 .. done + 1
        PROVE  t[i] = accepted[i]
    <3>1. n = done
      BY <2>4, <1>1, <1>3
    <3>2. CASE i \in 1 .. n
      BY <3>1, <3>2, <1>3, <1>4
    <3>3. CASE i = n + 1
      BY <3>1, <3>3, <1>3
    <3> QED BY <3>1, <3>2, <3>3, <1>1
  <2> QED BY <2>1, <2>2, <2>3, <2>4 DEF Through
<1> QED BY <1>3, <1>5, <1>6 DEF t

(* What is accepted later changes nothing for those who got frames.        *)
LEMMA ThroughStays ==
  ASSUME NEW s \in Seq(Int), NEW x \in Int, Types, done <= Len(accepted),
         Through(s), accepted' = Append(accepted, x), done' = done
  PROVE  Through(s)'
<1>1. \A k \in 1 .. done : Append(accepted, x)[k] = accepted[k]
  BY DEF Types
<1>2. ASSUME NEW i \in DOMAIN s
      PROVE  \E k \in 1 .. done : s[i] = Append(accepted, x)[k]
  BY <1>1 DEF Through
<1> QED BY <1>1, <1>2 DEF Through

LEMMA StepDelivers ==
  ASSUME Frames \subseteq Int, TransferInv, [Next]_transferVars
  PROVE  TransferInv'
<1>0. /\ Types /\ Increasing(accepted) /\ done <= Len(accepted)
      /\ Through(written) /\ Through(shown)
      /\ outcome = "ok" /\ ~lossy => done = Len(accepted)
      /\ accepted \in Seq(Int) /\ Len(accepted) \in Nat /\ done \in Nat
      /\ written \in Seq(Int) /\ shown \in Seq(Int)
  BY DEF TransferInv, Types, Delivered
<1>1. ASSUME NEW x \in Frames, Accept(x)
      PROVE  TransferInv'
  <2>1. /\ x \in Int /\ accepted' = Append(accepted, x) /\ outcome = "none"
        /\ UNCHANGED <<lossy, done, written, shown, outcome>>
        /\ \A i \in DOMAIN accepted : accepted[i] < x
    BY <1>1 DEF Accept
  <2>2. /\ accepted' \in Seq(Int) /\ Len(accepted') = Len(accepted) + 1
        /\ Increasing(accepted')
    BY <2>1, <1>0, AppendFacts, IncreasingAppend
  <2>3. Through(written)' /\ Through(shown)'
    <3>1. PICK u \in Seq(Int), v \in Seq(Int) : u = written /\ v = shown
      BY <1>0
    <3>2. Through(u)' /\ Through(v)'
      BY <3>1, <2>1, <1>0, ThroughStays
    <3> QED BY <3>1, <3>2, <2>1 DEF Through
  <2>4. done' <= Len(accepted')
    BY <2>1, <2>2, <1>0
  <2> QED BY <2>1, <2>2, <2>3, <2>4, <1>0 DEF TransferInv, Types, Delivered
<1>2. ASSUME NEW ok \in BOOLEAN, NEW seen \in BOOLEAN, Deliver(ok, seen)
      PROVE  TransferInv'
  <2>1. /\ done < Len(accepted) /\ done' = done + 1 /\ accepted' = accepted
        /\ outcome' \in {"none", "fail"}
        /\ \/ written' = written
           \/ written' = Append(written, accepted[done + 1])
        /\ \/ shown' = shown
           \/ shown' = Append(shown, accepted[done + 1])
    BY <1>2 DEF Deliver
  <2>2. PICK u \in Seq(Int), v \in Seq(Int), x \in Int :
          u = written /\ v = shown /\ x = accepted[done + 1]
    <3>1. accepted[done + 1] \in Int
      BY <2>1, <1>0
    <3> QED BY <3>1, <1>0
  <2>3. PICK y \in Seq(Int), z \in Seq(Int) :
          y = Append(u, x) /\ z = Append(v, x)
    BY AppendFacts
  <2>4. Through(u)' /\ Through(v)' /\ Through(y)' /\ Through(z)'
    BY <2>1, <2>2, <2>3, <1>0, ThroughGrows
  <2>5. PICK f \in {u, y}, g \in {v, z} : written' = f /\ shown' = g
    BY <2>1, <2>2, <2>3
  <2>6. /\ Through(written)' /\ Through(shown)'
        /\ written' \in Seq(Int) /\ shown' \in Seq(Int)
    <3>1. Through(f)' /\ Through(g)'
      BY <2>4
    <3> QED BY <3>1, <2>5 DEF Through
  <2>7. done' \in Nat /\ done' <= Len(accepted')
    BY <2>1, <1>0
  <2> QED BY <2>1, <2>6, <2>7, <1>0 DEF TransferInv, Types, Delivered
<1>3. CASE Succeed
  BY <1>0, <1>3 DEF Succeed, TransferInv, Types, Delivered, Through
<1>4. CASE Fail
  BY <1>0, <1>4 DEF Fail, TransferInv, Types, Delivered, Through
<1>5. CASE UNCHANGED transferVars
  BY <1>0, <1>5 DEF transferVars, TransferInv, Types, Delivered, Through
<1> QED BY <1>1, <1>2, <1>3, <1>4, <1>5 DEF Next

(* Whatever is a transfer delivers its frames: the file and the port get   *)
(* accepted frames in order and none twice, all of them if they missed     *)
(* none, and a run that succeeds is through with all it accepted, but for  *)
(* the last frame of a source that loses it.                               *)
THEOREM TransferDelivers == Frames \subseteq Int /\ Spec => []Delivered
<1> SUFFICES ASSUME Frames \subseteq Int PROVE Spec => []Delivered
  OBVIOUS
<1>1. Init => TransferInv
  <2> SUFFICES ASSUME Init PROVE TransferInv
    OBVIOUS
  <2>1. \A s : s = <<>> => s \in Seq(Int) /\ Len(s) = 0 /\ DOMAIN s = {}
    OBVIOUS
  <2>2. accepted = <<>> /\ written = <<>> /\ shown = <<>> /\ done = 0 /\ outcome = "none"
    BY DEF Init
  <2>3. Types
    BY <2>2 DEF Types
  <2>4. Increasing(<<>>)
    BY DEF Increasing
  <2> QED BY <2>1, <2>2, <2>3, <2>4 DEF TransferInv, Delivered, Through
<1>2. TransferInv /\ [Next]_transferVars => TransferInv'
  BY StepDelivers
<1>3. TransferInv => Delivered
  BY DEF TransferInv
<1> QED BY <1>1, <1>2, <1>3, PTL DEF Spec
=============================================================================
