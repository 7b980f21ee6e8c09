------------------------------ MODULE Transfer -------------------------------
(***************************************************************************)
(* What a run of a session promises about its frames, whatever fails and   *)
(* whoever stops it: the frames it takes from its source are delivered in  *)
(* their order, each at most once, to the file and to the port; delivery   *)
(* goes on from where it was; and the run reports success only when it is  *)
(* through with all it took.  RunFile and DecodeFile implement this.       *)
(***************************************************************************)
EXTENDS Naturals, Sequences

CONSTANT Frames   \* the numbers of the frames in the source

VARIABLES
  lossy,      \* the source may lose the frame with which it ends
  accepted,   \* the frames taken from the source
  done,       \* of so many of them the delivery is over
  written,    \* those the file got
  shown,      \* those the port got
  outcome     \* "none" while the run goes on, then "ok" or "fail"

transferVars == <<lossy, accepted, done, written, shown, outcome>>

Init ==
  /\ lossy \in BOOLEAN
  /\ accepted = <<>> /\ done = 0
  /\ written = <<>> /\ shown = <<>>
  /\ outcome = "none"

Accept(x) ==
  /\ outcome = "none"
  /\ \A i \in DOMAIN accepted : accepted[i] < x
  /\ accepted' = Append(accepted, x)
  /\ UNCHANGED <<lossy, done, written, shown, outcome>>

(* The next frame goes to the file, unless that fails, and to the port,    *)
(* unless that is full; a frame lost on its way goes to neither.  Only a   *)
(* failure may end the run.                                                *)
Deliver(ok, seen) ==
  /\ outcome = "none"
  /\ done < Len(accepted)
  /\ done' = done + 1
  /\ written' = IF ok THEN Append(written, accepted[done + 1]) ELSE written
  /\ shown' = IF seen THEN Append(shown, accepted[done + 1]) ELSE shown
  /\ outcome' = "none" \/ (~ok /\ outcome' = "fail")
  /\ UNCHANGED <<lossy, accepted>>

Succeed ==
  /\ outcome = "none"
  /\ done = Len(accepted) \/ (lossy /\ done + 1 = Len(accepted))
  /\ outcome' = "ok"
  /\ UNCHANGED <<lossy, accepted, done, written, shown>>

Fail ==
  /\ outcome = "none"
  /\ outcome' = "fail"
  /\ UNCHANGED <<lossy, accepted, done, written, shown>>

Next ==
  \/ \E x \in Frames : Accept(x)
  \/ \E ok, seen \in BOOLEAN : Deliver(ok, seen)
  \/ Succeed \/ Fail

Spec == Init /\ [][Next]_transferVars

-----------------------------------------------------------------------------
(* What follows from it.  Each receiver gets frames that were accepted,    *)
(* in their order, none twice, and all of them when it missed none; a run  *)
(* that succeeds is through with them.                                     *)
Increasing(s) == \A i, j \in DOMAIN s : i < j => s[i] < s[j]

Through(s) ==
  /\ Increasing(s) /\ Len(s) <= done
  /\ \A i \in DOMAIN s : \E k \in 1 .. done : s[i] = accepted[k]
  /\ Len(s) = done => \A i \in 1 .. done : s[i] = accepted[i]

Delivered ==
  /\ Increasing(accepted) /\ done <= Len(accepted)
  /\ Through(written) /\ Through(shown)
  /\ outcome = "ok" /\ ~lossy => done = Len(accepted)
=============================================================================
