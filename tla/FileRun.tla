------------------------------- MODULE FileRun -------------------------------
(***************************************************************************)
(* What the three loops of rkvc_session_run_file (lib/session.c) share:    *)
(* the thread that runs the loop, the stop flag another thread may set,    *)
(* and the session's output port with a consumer behind it.  The port is   *)
(* the bounded FIFO that PortQueue implements.                             *)
(*                                                                         *)
(* The frames of the input file are numbered 1 .. Last in file order.      *)
(***************************************************************************)
EXTENDS Integers, Sequences

CONSTANTS
  Last,       \* packets (or raw frames) in the input file
  PortDepth,  \* capacity of the output port
  Faults      \* the calls that may fail in this system

ASSUME RunAssumption ==
  /\ Last \in Nat
  /\ PortDepth \in Nat \ {0}
  /\ Faults \subseteq {"demux", "dec", "host", "scale", "write",
                    "alloc", "enc", "packet", "flush", "mux"}

VARIABLES
  pc,      \* where the loop thread is; "done" when run_file has returned
  stop,    \* s->stop_requested
  result,  \* what run_file returned: "ok" or "fail"
  port,    \* the output port's queue
  pulled   \* history: what the consumer pulled from it

runVars == <<pc, stop, result, port, pulled>>

RunInit ==
  /\ pc = "head"
  /\ stop = FALSE
  /\ result = "none"
  /\ port = <<>> /\ pulled = <<>>

Fails(call) == call \in Faults

MutPushOutput(x) ==   \* queues at the wrong end
  port' = IF Len(port) < PortDepth THEN <<x>> \o port ELSE port

(* rkvc_port_push on the output port; its result is ignored, so a full     *)
(* port just misses the item.                                              *)
PushOutput(x) ==
  port' = IF Len(port) < PortDepth THEN Append(port, x) ELSE port

Finish(r) ==
  /\ pc' = "done"
  /\ result' = r

(* A call that may fail also succeeds now and then: for liveness, the loop *)
(* thread is not obliged to fail.                                          *)
Succeeds(A) == A /\ result' # "fail"

(* Another thread calls rkvc_session_stop.                                 *)
RequestStop ==
  /\ pc # "done" /\ ~stop
  /\ stop' = TRUE
  /\ UNCHANGED <<pc, result, port, pulled>>

(* The consumer of the output port; it may be slow or absent.              *)
PullOutput ==
  /\ port # <<>>
  /\ pulled' = Append(pulled, Head(port))
  /\ port' = Tail(port)
  /\ UNCHANGED <<pc, stop, result>>

-----------------------------------------------------------------------------
(* A codec as the loops see it through send and receive: input it took and *)
(* has not worked off, output nobody read yet, whether the last receive    *)
(* found no output (after which the next send must be taken), and whether  *)
(* it was told that no more input comes.                                   *)
NewCodec == [pending |-> <<>>, ready |-> <<>>, settled |-> TRUE, eos |-> FALSE]

CodecType(N) ==
  [pending : Seq(N), ready : Seq(N), settled : BOOLEAN, eos : BOOLEAN]

Took(c, x) == [c EXCEPT !.pending = Append(@, x), !.settled = FALSE]
Made(c) == [c EXCEPT !.pending = Tail(@), !.ready = Append(@, Head(c.pending))]
Gave(c) == [c EXCEPT !.ready = Tail(@)]
Empty(c) == c.pending = <<>> /\ c.ready = <<>>

(* FFmpeg refuses input only while it has output the caller did not read.  *)
MayRefuse(c) == ~c.settled /\ c.ready # <<>>

IsIncreasing(s) == \A i, j \in DOMAIN s : i < j => s[i] < s[j]
=============================================================================
