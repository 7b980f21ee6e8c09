-------------------------- MODULE SessionLifecycle ---------------------------
(***************************************************************************)
(* The life of one session (lib/session.c): create, start, run_file, stop  *)
(* and destroy, with the nodes the session opens and closes.  The owner    *)
(* thread makes all calls in turn; another thread may call stop at any     *)
(* time, also in the middle of a start or a run.                           *)
(*                                                                         *)
(* Every open function clears the session's pointer before it tries        *)
(* anything, and sets it only on success.                                  *)
(***************************************************************************)
EXTENDS Integers, Sequences

CONSTANTS
  Templates,  \* "transcode" (also AV1 storage), "decode", "encode", "live"
  Backends,   \* the route's encoder: "enc" (RKMPP) or "svt" (SVT-AV1)
  Faults,     \* what can fail: a node's open, "queue", "create", "loop"
  MaxStarts   \* bound: how often the owner starts the session

ASSUME LifecycleAssumption ==
  /\ Templates \subseteq {"transcode", "decode", "encode", "live"}
  /\ Backends \subseteq {"enc", "svt"}
  /\ MaxStarts \in Nat \ {0}

Ports == {"capture", "output", "preview"}   \* their queues, that is
Nodes == {"pool", "demux", "dec", "enc", "svt", "mux", "rga"} \cup Ports

VARIABLES
  template, backend,   \* of the session's description and route
  phase,    \* "none" before create, "alive", "gone" after destroy
  call,     \* the owner's call in progress: "none", "start" or "run"
  todo,     \* nodes this start still has to open
  looping,  \* run_file is inside its loop
  ptr,      \* ptr[n]: the session's pointer to node n is set
  live,     \* live[n]: nodes of kind n that exist
  running, stop_requested,
  starts,   \* calls of start and run_file that opened nodes
  worked,   \* history: the last run entered its loop before any stop request
  ran,      \* what the last run_file returned: "none" until it does
  stopped   \* history: somebody called stop

desc == <<template, backend>>
nodeVars == <<ptr, live>>
vars == <<desc, phase, call, todo, looping, nodeVars, running, stop_requested,
          starts, worked, ran, stopped>>

(* session_open_nodes: which nodes a template opens, in order.             *)
NodesOf(t, b) ==
  CASE t = "decode"    -> <<"demux", "dec">>
    [] t = "transcode" -> <<"demux", "dec", b, "mux">>
    [] OTHER           -> <<b, "mux">>

MyNodes == NodesOf(template, backend)

Init ==
  /\ template \in Templates /\ backend \in Backends
  /\ phase = "none" /\ call = "none" /\ todo = <<>> /\ looping = FALSE
  /\ ptr = [n \in Nodes |-> FALSE]
  /\ live = [n \in Nodes |-> 0]
  /\ running = FALSE /\ stop_requested = FALSE
  /\ starts = 0 /\ worked = FALSE /\ ran = "none" /\ stopped = FALSE

-----------------------------------------------------------------------------
(* rkvc_session_create.  Without memory, route or pool there is no         *)
(* session; a port whose queue cannot be allocated is left without one.    *)
CreateFails ==
  /\ phase = "none"
  /\ "create" \in Faults
  /\ phase' = "gone"
  /\ UNCHANGED <<desc, call, todo, looping, nodeVars, running, stop_requested,
                 starts, worked, ran, stopped>>

Create ==
  /\ phase = "none"
  /\ phase' = "alive"
  /\ \E Q \in SUBSET Ports :
       /\ Q = Ports \/ "queue" \in Faults
       /\ ptr' = [n \in Nodes |-> n \in Q \cup {"pool"}]
       /\ live' = [n \in Nodes |-> IF n \in Q \cup {"pool"} THEN 1 ELSE 0]
  /\ UNCHANGED <<desc, call, todo, looping, running, stop_requested, starts,
                 worked, ran, stopped>>

Idle == phase = "alive" /\ call = "none"

(* rkvc_session_start and the start inside rkvc_session_run_file.          *)
CallStart(c) ==
  /\ Idle /\ ~running
  /\ starts < MaxStarts
  /\ call' = c
  /\ todo' = MyNodes
  /\ starts' = starts + 1
  /\ IF c = "run" THEN worked' = FALSE /\ ran' = "none" ELSE UNCHANGED <<
                                                                         worked,
                                                                         ran>>
  /\ UNCHANGED <<desc, phase, looping, nodeVars, running, stop_requested,
                 stopped>>

(* Starting a running session returns at once; run_file then goes on with  *)
(* the nodes that are open.                                                *)
RunRunning ==
  /\ Idle /\ running
  /\ call' = "run" /\ looping' = TRUE
  /\ worked' = ~stop_requested /\ ran' = "none"
  /\ UNCHANGED <<desc, phase, todo, nodeVars, running, stop_requested, starts,
                 stopped>>

OpenNode ==
  /\ todo # <<>>
  /\ ptr' = [ptr EXCEPT ![Head(todo)] = TRUE]
  /\ live' = [live EXCEPT ![Head(todo)] = @ + 1]
  /\ todo' = Tail(todo)
  /\ UNCHANGED <<desc, phase, call, looping, running, stop_requested, starts,
                 worked, ran, stopped>>

(* The start ends with the error of the open.                              *)
StartFails ==
  /\ todo' = <<>> /\ call' = "none"
  /\ ran' = IF call = "run" THEN "fail" ELSE ran

MutOpenFails ==   \* an open that fails does not end the start
  /\ todo # <<>>
  /\ Head(todo) \in Faults
  /\ ptr' = [ptr EXCEPT ![Head(todo)] = FALSE]
  /\ todo' = Tail(todo)
  /\ UNCHANGED <<desc, phase, call, looping, live, running, stop_requested,
                 starts, worked, ran, stopped>>

(* A failing open leaves the pointer cleared and frees what it made so far.*)
OpenFails ==
  /\ todo # <<>>
  /\ Head(todo) \in Faults
  /\ ptr' = [ptr EXCEPT ![Head(todo)] = FALSE]
  /\ StartFails
  /\ UNCHANGED <<desc, phase, looping, live, running, stop_requested, starts,
                 worked, stopped>>

(* A stop request that came during the open is still there, but running is *)
(* set over it.                                                            *)
Started ==
  /\ call # "none" /\ todo = <<>> /\ ~looping
  /\ running' = TRUE
  /\ IF call = "run"
     THEN looping' = TRUE /\ worked' = ~stop_requested /\ UNCHANGED call
     ELSE call' = "none" /\ UNCHANGED <<looping, worked>>
  /\ UNCHANGED <<desc, phase, todo, nodeVars, stop_requested, starts, ran,
                 stopped>>

-----------------------------------------------------------------------------
(* The loop of run_file, seen from outside.  It makes the scaler on the    *)
(* first frame that needs one, and returns at the end of the file, after a *)
(* stop request, or with an error; then the session is stopped.            *)
MutMakeScaler ==   \* makes a scaler for every frame
  /\ looping /\ template = "decode" /\ worked
  /\ ptr' = [ptr EXCEPT !["rga"] = TRUE]
  /\ live' = [live EXCEPT !["rga"] = @ + 1]
  /\ UNCHANGED <<desc, phase, call, todo, looping, running, stop_requested,
                 starts, worked, ran, stopped>>

MakeScaler ==
  /\ looping /\ template = "decode" /\ worked
  /\ ~ptr["rga"]
  /\ ptr' = [ptr EXCEPT !["rga"] = TRUE]
  /\ live' = [live EXCEPT !["rga"] = @ + 1]
  /\ UNCHANGED <<desc, phase, call, todo, looping, running, stop_requested,
                 starts, worked, ran, stopped>>

(* What the loop returns.  transcode_loop reads from the demuxer, which    *)
(* the live template does not open: that read fails.                       *)
LoopResults ==
  {r \in {"ok", "fail"} :
     /\ r = "fail" => "loop" \in Faults \/ (worked /\ template = "live")
     /\ r = "ok" => ~worked \/ stopped \/ template # "live"}

MutLoopReturns ==   \* leaves the session running after the run
  /\ looping
  /\ ran' \in LoopResults
  /\ looping' = FALSE /\ call' = "none"
  /\ stop_requested' = TRUE
  /\ UNCHANGED <<desc, phase, todo, nodeVars, running, starts, worked, stopped>>

LoopReturns ==
  /\ looping
  /\ ran' \in LoopResults
  /\ looping' = FALSE /\ call' = "none"
  /\ stop_requested' = TRUE /\ running' = FALSE
  /\ UNCHANGED <<desc, phase, todo, nodeVars, starts, worked, stopped>>

(* rkvc_session_stop: from the owner between calls, or from another thread.*)
Stop ==
  /\ phase = "alive"
  /\ stop_requested' = TRUE /\ running' = FALSE
  /\ stopped' = TRUE
  /\ UNCHANGED <<desc, phase, call, todo, looping, nodeVars, starts, worked,
                 ran>>

(* rkvc_session_destroy: close what the pointers point to.                 *)
MutDestroyForgetsSvt ==   \* closes one encoder only
  /\ Idle
  /\ phase' = "gone"
  /\ live' = [n \in Nodes |-> IF ptr[n] /\ n # "svt" THEN live[n] - 1 ELSE live[n]]
  /\ ptr' = [n \in Nodes |-> FALSE]
  /\ stop_requested' = TRUE /\ running' = FALSE
  /\ UNCHANGED <<desc, call, todo, looping, starts, worked, ran, stopped>>

Destroy ==
  /\ Idle
  /\ phase' = "gone"
  /\ live' = [n \in Nodes |-> IF ptr[n] THEN live[n] - 1 ELSE live[n]]
  /\ ptr' = [n \in Nodes |-> FALSE]
  /\ stop_requested' = TRUE /\ running' = FALSE
  /\ UNCHANGED <<desc, call, todo, looping, starts, worked, ran, stopped>>

Gone == phase = "gone" /\ UNCHANGED vars

-----------------------------------------------------------------------------
Next ==
  \/ CreateFails \/ Create
  \/ \E c \in {"start", "run"} : CallStart(c)
  \/ RunRunning
  \/ OpenNode \/ OpenFails \/ Started
  \/ MakeScaler \/ LoopReturns
  \/ Stop \/ Destroy \/ Gone

Spec == Init /\ [][Next]_vars

-----------------------------------------------------------------------------
TypeOK ==
  /\ template \in Templates /\ backend \in Backends
  /\ phase \in {"none", "alive", "gone"} /\ call \in {"none", "start", "run"}
  /\ todo \in Seq(Nodes) /\ looping \in BOOLEAN
  /\ ptr \in [Nodes -> BOOLEAN]
  /\ live \in [Nodes -> 0 .. MaxStarts]
  /\ running \in BOOLEAN /\ stop_requested \in BOOLEAN
  /\ starts \in 0 .. MaxStarts /\ worked \in BOOLEAN
  /\ ran \in {"none", "ok", "fail"} /\ stopped \in BOOLEAN

(* A session that is gone has closed every node it ever opened             *)
(* (session.c:378-404 against 161-276).                                    *)
DestroyFreesAll == phase = "gone" => \A n \in Nodes : live[n] = 0

(* The loops find the nodes they use: a start that failed half-way is      *)
(* never run (session.c:325-327, 760-762).                                 *)
LoopHasNodes ==
  looping => \A i \in DOMAIN MyNodes : ptr[MyNodes[i]]

(* When nobody called stop, a run that returns RKVC_OK has worked on the   *)
(* file (session.c:334-342, 460, 780).                                     *)
OkRunWorked == ran = "ok" /\ ~stopped => worked

=============================================================================
