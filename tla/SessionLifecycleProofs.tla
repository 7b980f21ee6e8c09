----------------------- MODULE SessionLifecycleProofs ------------------------
(***************************************************************************)
(* Theorems about SessionLifecycle, for every set of templates, encoders   *)
(* and faults.  Type correctness and LoopHasNodes hold for any number of   *)
(* starts; DestroyFreesAll and OkRunWorked for sessions that are started   *)
(* once (MaxStarts = 1), which is all the code supports.                   *)
(***************************************************************************)
EXTENDS SessionLifecycle, TLAPS

Mine == {MyNodes[i] : i \in DOMAIN MyNodes}
Todo == {todo[i] : i \in DOMAIN todo}

(* The session's pointers: none before create, none after destroy; a set   *)
(* pointer points to a node; the scaler exists exactly once if at all.     *)
PtrInv ==
  /\ phase # "alive" => \A n \in Nodes : ~ptr[n]
  /\ phase = "none" => (\A n \in Nodes : live[n] = 0) /\ starts = 0
  /\ phase # "alive" => call = "none" /\ ~running
  /\ \A n \in Nodes : ptr[n] => live[n] >= 1
  /\ \A n \in Nodes \ Mine : live[n] = IF ptr[n] THEN 1 ELSE 0

(* A start in progress: the nodes of the template are open or still to be  *)
(* opened, each at most once; a node was opened at most once per start.    *)
OpenInv ==
  /\ todo # <<>> => call # "none" /\ ~looping
  /\ looping => call = "run"
  /\ call # "none" /\ ~looping => ~running
  /\ Todo \subseteq Mine
  /\ \A i, j \in DOMAIN todo : todo[i] = todo[j] => i = j
  /\ call # "none" /\ ~looping => \A n \in Mine : ptr[n] \/ n \in Todo
  /\ running \/ looping => \A n \in Mine : ptr[n]
  /\ \A n \in Mine : live[n] + (IF n \in Todo THEN 1 ELSE 0) <= starts
  /\ call # "none" \/ running => starts >= 1

IInv == TypeOK /\ PtrInv /\ OpenInv

-----------------------------------------------------------------------------
(* What every template opens: at most four different nodes, never the      *)
(* pool, the scaler or a port (session.c:161-276).                         *)
LEMMA MineFacts ==
  ASSUME template \in Templates, backend \in Backends
  PROVE  /\ MyNodes \in Seq(Nodes) /\ MyNodes # <<>>
         /\ \A i, j \in DOMAIN MyNodes : MyNodes[i] = MyNodes[j] => i = j
         /\ Mine \subseteq Nodes /\ "rga" \notin Mine /\ "pool" \notin Mine
         /\ \A n \in Ports : n \notin Mine
<1>1. CASE template = "decode"
  <2>1. MyNodes = <<"demux", "dec">>
    BY <1>1 DEF MyNodes, NodesOf
  <2> QED BY <2>1 DEF Mine, Nodes, Ports
<1>2. CASE template = "transcode"
  <2>1. MyNodes = <<"demux", "dec", backend, "mux">>
    BY <1>2 DEF MyNodes, NodesOf
  <2>2. backend \in {"enc", "svt"}
    BY LifecycleAssumption
  <2> QED BY <2>1, <2>2 DEF Mine, Nodes, Ports
<1>3. CASE template \notin {"decode", "transcode"}
  <2>1. MyNodes = <<backend, "mux">>
    BY <1>3 DEF MyNodes, NodesOf
  <2>2. backend \in {"enc", "svt"}
    BY LifecycleAssumption
  <2> QED BY <2>1, <2>2 DEF Mine, Nodes, Ports
<1> QED BY <1>1, <1>2, <1>3

(* The first element of a list is one of its elements.                     *)
LEMMA HeadFact ==
  ASSUME todo \in Seq(Nodes), todo # <<>>
  PROVE  Head(todo) \in Todo
<1>1. Head(todo) = todo[1] /\ 1 \in DOMAIN todo
  OBVIOUS
<1> QED BY <1>1 DEF Todo

(* Taking the first element off a list without repetitions.                *)
LEMMA TailFacts ==
  ASSUME todo \in Seq(Nodes), todo # <<>>,
         \A i, j \in DOMAIN todo : todo[i] = todo[j] => i = j,
         todo' = Tail(todo)
  PROVE  /\ todo' \in Seq(Nodes)
         /\ Head(todo) \in Todo
         /\ Todo' = Todo \ {Head(todo)}
         /\ \A i, j \in DOMAIN todo' : todo'[i] = todo'[j] => i = j
<1>1. /\ DOMAIN todo = 1 .. Len(todo) /\ Len(todo) \in Nat \ {0}
      /\ DOMAIN Tail(todo) = 1 .. Len(todo) - 1
      /\ \A i \in 1 .. Len(todo) - 1 : Tail(todo)[i] = todo[i + 1]
      /\ Head(todo) = todo[1]
  OBVIOUS
<1>2. Todo' = Todo \ {todo[1]}
  <2>1. ASSUME NEW n \in Todo', n \notin Todo \ {todo[1]} PROVE FALSE
    <3>1. PICK i \in 1 .. Len(todo) - 1 : n = todo[i + 1]
      BY <2>1, <1>1 DEF Todo
    <3> QED BY <2>1, <3>1, <1>1 DEF Todo
  <2>2. ASSUME NEW n \in Todo \ {todo[1]} PROVE n \in Todo'
    <3>1. PICK i \in 1 .. Len(todo) : n = todo[i] /\ i # 1
      BY <2>2, <1>1 DEF Todo
    <3>2. i - 1 \in 1 .. Len(todo) - 1 /\ (i - 1) + 1 = i
      BY <3>1, <1>1
    <3>3. n = todo'[i - 1] /\ i - 1 \in DOMAIN todo'
      BY <3>1, <3>2, <1>1
    <3> QED BY <3>3 DEF Todo
  <2> QED BY <2>1, <2>2
<1>3. Head(todo) \in Todo /\ todo' \in Seq(Nodes)
  BY <1>1 DEF Todo
<1>4. ASSUME NEW i \in DOMAIN todo', NEW j \in DOMAIN todo', todo'[i] = todo'[j]
      PROVE  i = j
  <2>1. i + 1 \in DOMAIN todo /\ j + 1 \in DOMAIN todo /\ i \in Int /\ j \in Int
    BY <1>1, <1>4
  <2>2. todo[i + 1] = todo[j + 1]
    BY <1>1, <1>4
  <2>3. i + 1 = j + 1
    BY <2>1, <2>2
  <2> QED BY <2>1, <2>3
<1> QED BY <1>1, <1>2, <1>3, <1>4
-----------------------------------------------------------------------------
(* The initial states.                                                     *)
LEMMA InitIInv == Init => IInv
<1> SUFFICES ASSUME Init PROVE IInv
  OBVIOUS
<1> USE LifecycleAssumption DEF Init
<1>1. /\ MyNodes \in Seq(Nodes) /\ Mine \subseteq Nodes
  BY MineFacts
<1>2. TypeOK
  <2>1. starts \in 0 .. MaxStarts /\ live \in [Nodes -> 0 .. MaxStarts] /\ todo \in Seq(Nodes)
    OBVIOUS
  <2>2. ptr \in [Nodes -> BOOLEAN]
    BY Zenon
  <2> QED BY <2>1, <2>2, Zenon DEF TypeOK
<1>3. PtrInv
  BY DEF PtrInv
<1>4. OpenInv
  BY <1>1 DEF OpenInv, Todo
<1> QED BY <1>2, <1>3, <1>4 DEF IInv

(* Every step keeps the inductive invariant.                               *)
LEMMA NextIInv == IInv /\ [Next]_vars => IInv'
<1> SUFFICES ASSUME IInv, [Next]_vars PROVE IInv'
  OBVIOUS
<1> USE LifecycleAssumption DEF IInv
<1>0. /\ MyNodes \in Seq(Nodes) /\ MyNodes # <<>>
      /\ \A i, j \in DOMAIN MyNodes : MyNodes[i] = MyNodes[j] => i = j
      /\ Mine \subseteq Nodes /\ "rga" \notin Mine /\ "pool" \notin Mine
      /\ \A n \in Ports : n \notin Mine
  BY MineFacts DEF TypeOK
<1>m. ASSUME UNCHANGED desc PROVE MyNodes' = MyNodes /\ Mine' = Mine
  BY <1>m DEF desc, MyNodes, NodesOf, Mine
<1>t. ASSUME UNCHANGED todo PROVE Todo' = Todo
  BY <1>t DEF Todo
<1>1. CASE CreateFails
  <2> USE <1>1, <1>m, <1>t DEF CreateFails, nodeVars, desc
  <2>1. TypeOK' BY DEF TypeOK
  <2>2. PtrInv' BY DEF PtrInv
  <2>3. OpenInv' BY DEF OpenInv, PtrInv
  <2> QED BY <2>1, <2>2, <2>3
<1>2. CASE Create
  <2>0. /\ phase = "none" /\ phase' = "alive"
        /\ UNCHANGED <<template, backend, call, todo, looping, running,
                       stop_requested, starts, worked, ran, stopped>>
    BY <1>2 DEF Create, desc
  <2>1. PICK Q \in SUBSET Ports :
          /\ ptr' = [n \in Nodes |-> n \in Q \cup {"pool"}]
          /\ live' = [n \in Nodes |-> IF n \in Q \cup {"pool"} THEN 1 ELSE 0]
    BY <1>2 DEF Create
  <2>3. ptr' \in [Nodes -> BOOLEAN] /\ live' \in [Nodes -> 0 .. MaxStarts]
    BY <2>1
  <2>4. TypeOK' BY <2>0, <2>3 DEF TypeOK
  <2>5. Mine' = Mine /\ Todo' = Todo
    BY <1>m, <1>t, <2>0 DEF desc
  <2>6. ASSUME NEW n \in Nodes
        PROVE  /\ live'[n] = IF ptr'[n] THEN 1 ELSE 0
               /\ ptr'[n] => live'[n] >= 1
    <3>1. ptr'[n] <=> n \in Q \cup {"pool"}
      BY <2>1, Zenon
    <3>2. live'[n] = IF n \in Q \cup {"pool"} THEN 1 ELSE 0
      BY <2>1
    <3> QED BY <3>1, <3>2
  <2>7. PtrInv' BY <2>0, <2>5, <2>6 DEF PtrInv
  <2>8. call = "none" /\ ~running /\ starts = 0 /\ todo = <<>>
    BY <2>0 DEF PtrInv, OpenInv
  <2>9. \A n \in Mine : live'[n] = 0
    BY <1>0, <2>1
  <2>10. Todo = {}
    BY <2>8 DEF Todo
  <2>11. OpenInv' BY <2>0, <2>5, <2>8, <2>9, <2>10 DEF OpenInv
  <2> QED BY <2>4, <2>7, <2>11
<1>3. ASSUME NEW c \in {"start", "run"}, CallStart(c) PROVE IInv'
  <2> USE <1>3, <1>m DEF CallStart, Idle, nodeVars, desc
  <2>1. TypeOK'
    <3>1. starts' \in 0 .. MaxStarts
      BY DEF TypeOK
    <3>2. worked' \in BOOLEAN /\ ran' \in {"none", "ok", "fail"}
      BY DEF TypeOK
    <3>3. todo' \in Seq(Nodes)
      BY <1>0
    <3> QED BY <3>1, <3>2, <3>3 DEF TypeOK
  <2>2. PtrInv' BY DEF PtrInv
  <2>3. Todo' = Mine
    BY DEF Todo, Mine
  <2>4. \A n \in Mine : live[n] <= starts /\ live[n] \in Nat /\ starts \in Nat
    <3>1. starts \in Nat
      BY DEF TypeOK
    <3>2. ASSUME NEW n \in Mine PROVE live[n] \in Nat /\ live[n] <= starts
      <4>1. live[n] \in Nat
        BY <1>0 DEF TypeOK
      <4>2. live[n] + (IF n \in Todo THEN 1 ELSE 0) <= starts
        BY DEF OpenInv
      <4> HIDE <1>3, <1>m DEF CallStart, IInv
      <4> QED BY <3>1, <4>1, <4>2
    <3> QED BY <3>1, <3>2
  <2>5. ~looping
    BY DEF OpenInv
  <2>6. OpenInv' BY <1>0, <2>3, <2>4, <2>5 DEF OpenInv, TypeOK
  <2> QED BY <2>1, <2>2, <2>6
<1>4. CASE RunRunning
  <2> USE <1>4, <1>m, <1>t DEF RunRunning, Idle, nodeVars, desc
  <2>1. TypeOK' BY DEF TypeOK
  <2>2. PtrInv' BY DEF PtrInv
  <2>3. OpenInv' BY DEF OpenInv
  <2> QED BY <2>1, <2>2, <2>3
<1>5. CASE OpenNode
  <2> USE <1>5, <1>m DEF OpenNode, desc
  <2> DEFINE h == Head(todo)
  <2>1. /\ todo' \in Seq(Nodes) /\ h \in Todo /\ Todo' = Todo \ {h}
        /\ \A i, j \in DOMAIN todo' : todo'[i] = todo'[j] => i = j
    BY TailFacts DEF TypeOK, OpenInv
  <2>2. /\ h \in Mine /\ h \in Nodes
        /\ call # "none" /\ ~looping /\ ~running /\ phase = "alive"
    BY <1>0, <2>1 DEF OpenInv, PtrInv, TypeOK
  <2>3. live[h] \in Nat /\ live[h] + 1 <= starts /\ starts <= MaxStarts /\ starts \in Nat
    BY <2>1, <2>2 DEF OpenInv, TypeOK
  <2>4. /\ \A n \in Nodes \ {h} : ptr'[n] = ptr[n] /\ live'[n] = live[n]
        /\ ptr'[h] /\ live'[h] = live[h] + 1
    BY <2>2 DEF TypeOK
  <2> HIDE DEF h
  <2>5. TypeOK'
    <3>1. ptr' \in [Nodes -> BOOLEAN] /\ live' \in [Nodes -> 0 .. MaxStarts]
      BY <2>2, <2>3 DEF TypeOK, h
    <3> QED BY <2>1, <3>1 DEF TypeOK
  <2>6. PtrInv'
    <3>1. \A n \in Nodes : ptr'[n] => live'[n] >= 1
      BY <2>2, <2>3, <2>4 DEF PtrInv
    <3>2. \A n \in Nodes \ Mine : live'[n] = IF ptr'[n] THEN 1 ELSE 0
      BY <2>2, <2>4 DEF PtrInv
    <3> QED BY <2>2, <3>1, <3>2 DEF PtrInv
  <2>7. OpenInv'
    <3>1. \A n \in Mine : live'[n] + (IF n \in Todo' THEN 1 ELSE 0) <= starts
      BY <1>0, <2>1, <2>2, <2>3, <2>4 DEF OpenInv
    <3>2. \A n \in Mine : ptr'[n] \/ n \in Todo'
      BY <1>0, <2>1, <2>2, <2>4 DEF OpenInv
    <3> QED BY <2>1, <2>2, <3>1, <3>2 DEF OpenInv
  <2> QED BY <2>5, <2>6, <2>7
<1>6. CASE OpenFails
  <2> USE <1>6, <1>m DEF OpenFails, StartFails, desc
  <2> DEFINE h == Head(todo)
  <2>1. h \in Todo
    BY HeadFact DEF TypeOK
  <2>2. h \in Mine /\ h \in Nodes /\ ~running /\ ~looping /\ phase = "alive"
    BY <1>0, <2>1 DEF OpenInv, PtrInv
  <2>3. /\ \A n \in Nodes \ {h} : ptr'[n] = ptr[n]
        /\ ~ptr'[h] /\ ptr' \in [Nodes -> BOOLEAN]
    BY <2>2 DEF TypeOK
  <2>4. Todo' = {}
    BY DEF Todo
  <2>5. ASSUME NEW n \in Mine PROVE live[n] \in Nat /\ live[n] <= starts
    <3>1. live[n] \in Nat /\ starts \in Nat
      BY <1>0, <2>5 DEF TypeOK
    <3>2. live[n] + (IF n \in Todo THEN 1 ELSE 0) <= starts
      BY <2>5 DEF OpenInv
    <3> QED BY <3>1, <3>2
  <2> HIDE DEF h
  <2>6. TypeOK' BY <2>3 DEF TypeOK
  <2>7. PtrInv' BY <2>2, <2>3 DEF PtrInv
  <2>8. OpenInv' BY <2>2, <2>4, <2>5 DEF OpenInv, TypeOK
  <2> QED BY <2>6, <2>7, <2>8
<1>7. CASE Started
  <2> USE <1>7, <1>m, <1>t DEF Started, nodeVars, desc
  <2>1. TypeOK' BY DEF TypeOK
  <2>2. PtrInv' BY DEF PtrInv
  <2>3. \A n \in Mine : ptr[n]
    BY DEF OpenInv, Todo
  <2>4. OpenInv' BY <2>3 DEF OpenInv, TypeOK
  <2> QED BY <2>1, <2>2, <2>4
<1>8. CASE MakeScaler
  <2> USE <1>8, <1>m, <1>t DEF MakeScaler, desc
  <2>1. "rga" \in Nodes /\ "rga" \notin Mine /\ live["rga"] = 0 /\ phase = "alive"
    BY <1>0 DEF Nodes, PtrInv, OpenInv
  <2>2. /\ \A n \in Nodes \ {"rga"} : ptr'[n] = ptr[n] /\ live'[n] = live[n]
        /\ ptr'["rga"] /\ live'["rga"] = 1
    BY <2>1 DEF TypeOK
  <2>3. TypeOK' BY <2>1 DEF TypeOK
  <2>4. PtrInv' BY <2>1, <2>2 DEF PtrInv
  <2>5. OpenInv' BY <1>0, <2>1, <2>2 DEF OpenInv
  <2> QED BY <2>3, <2>4, <2>5
<1>9. CASE LoopReturns
  <2> USE <1>9, <1>m, <1>t DEF LoopReturns, nodeVars, desc
  <2>1. TypeOK' BY DEF TypeOK, LoopResults
  <2>2. PtrInv' BY DEF PtrInv
  <2>3. OpenInv' BY DEF OpenInv
  <2> QED BY <2>1, <2>2, <2>3
<1>10. CASE Stop
  <2> USE <1>10, <1>m, <1>t DEF Stop, nodeVars, desc
  <2>1. TypeOK' BY DEF TypeOK
  <2>2. PtrInv' BY DEF PtrInv
  <2>3. OpenInv' BY DEF OpenInv
  <2> QED BY <2>1, <2>2, <2>3
<1>11. CASE Destroy
  <2> USE <1>11, <1>m, <1>t DEF Destroy, Idle, desc
  <2>1. \A n \in Nodes : /\ live[n] \in Nat /\ live[n] <= MaxStarts
                         /\ ptr[n] => live[n] >= 1
    BY DEF TypeOK, PtrInv
  <2>2. \A n \in Nodes : /\ ~ptr'[n] /\ live'[n] \in Nat /\ live'[n] <= live[n]
                         /\ live'[n] = IF ptr[n] THEN live[n] - 1 ELSE live[n]
    BY <2>1
  <2>3. live' \in [Nodes -> 0 .. MaxStarts]
    BY <2>1
  <2>4. TypeOK' BY <2>3 DEF TypeOK
  <2>5. PtrInv' BY <2>2 DEF PtrInv
  <2>6. todo = <<>> /\ ~looping
    BY DEF OpenInv
  <2>7. Todo = {}
    BY <2>6 DEF Todo
  <2>8. OpenInv' BY <1>0, <2>1, <2>2, <2>6, <2>7 DEF OpenInv, TypeOK
  <2> QED BY <2>4, <2>5, <2>8
<1>12. CASE UNCHANGED vars
  <2> USE <1>12, <1>m, <1>t DEF vars, nodeVars, desc
  <2>1. TypeOK' BY DEF TypeOK
  <2>2. PtrInv' BY DEF PtrInv
  <2>3. OpenInv' BY DEF OpenInv
  <2> QED BY <2>1, <2>2, <2>3
<1> QED
  BY <1>1, <1>2, <1>3, <1>4, <1>5, <1>6, <1>7, <1>8, <1>9, <1>10, <1>11, <1>12
     DEF Next, Gone
-----------------------------------------------------------------------------
(* The inductive invariant holds in every reachable state.                 *)
THEOREM SessionInvariance == Spec => []IInv
<1>1. Init => IInv
  BY InitIInv
<1>2. IInv /\ [Next]_vars => IInv'
  BY NextIInv
<1> QED BY <1>1, <1>2, PTL DEF Spec

(* The session's flags, pointers and node counts keep their types; above   *)
(* all no kind of node is opened more than once per start or closed twice. *)
THEOREM SessionTypeCorrect == Spec => []TypeOK
<1>1. IInv => TypeOK
  BY DEF IInv
<1> QED BY <1>1, SessionInvariance, PTL

(* A loop runs only with the nodes it uses, however many starts failed     *)
(* before and whoever calls rkvc_session_stop meanwhile.                   *)
THEOREM LoopNodesCorrect == Spec => []LoopHasNodes
<1>1. IInv => LoopHasNodes
  BY DEF IInv, OpenInv, LoopHasNodes, Mine
<1> QED BY <1>1, SessionInvariance, PTL

-----------------------------------------------------------------------------
(* Sessions that are started once.  No pointer is lost: a node exists      *)
(* exactly when the session points to it.  A stop request that nobody made *)
(* comes from the end of the only run or from destroy.                     *)
OnceInv ==
  /\ \A n \in Nodes : live[n] = IF ptr[n] THEN 1 ELSE 0
  /\ ~stopped /\ stop_requested =>
       ~running /\ call = "none" /\ (starts = 1 \/ phase = "gone")
  /\ ~stopped /\ looping => worked
  /\ ~stopped /\ ran = "ok" => worked

(* A new session has nothing and has returned nothing.                     *)
LEMMA OnceInit == Init => OnceInv
BY DEF Init, OnceInv

(* With one start allowed, every step keeps OnceInv.                        *)
LEMMA OnceNext ==
  ASSUME MaxStarts = 1, IInv, OnceInv, [Next]_vars
  PROVE  OnceInv'
<1> USE LifecycleAssumption DEF IInv
<1>0. /\ Mine \subseteq Nodes /\ "rga" \notin Mine /\ starts \in 0 .. 1
      /\ call # "none" \/ running => starts = 1
  BY MineFacts DEF TypeOK, OpenInv
<1>1. CASE CreateFails
  BY <1>1, <1>0 DEF CreateFails, nodeVars, OnceInv, PtrInv, TypeOK
<1>2. CASE Create
  BY <1>2 DEF Create, OnceInv, PtrInv, TypeOK
<1>3. ASSUME NEW c \in {"start", "run"}, CallStart(c) PROVE OnceInv'
  <2>1. starts = 0 /\ phase = "alive" /\ ~looping
    BY <1>3, <1>0 DEF CallStart, Idle, OpenInv
  <2>2. stopped \/ ~stop_requested
    BY <2>1 DEF OnceInv
  <2> QED BY <1>3, <2>1, <2>2 DEF CallStart, nodeVars, OnceInv
<1>4. CASE RunRunning
  BY <1>4, <1>0 DEF RunRunning, Idle, nodeVars, OnceInv
<1>5. CASE OpenNode
  <2> DEFINE h == Head(todo)
  <2>1. h \in Todo
    BY <1>5, HeadFact DEF TypeOK, OpenNode
  <2>2. h \in Mine /\ h \in Nodes /\ live[h] \in Nat /\ live[h] + 1 <= starts
    BY <1>0, <2>1 DEF OpenInv, TypeOK
  <2>3. live[h] = 0
    BY <1>0, <2>2
  <2> ptr \in [Nodes -> BOOLEAN] /\ live \in [Nodes -> 0 .. MaxStarts]
    BY DEF TypeOK
  <2> /\ ptr' = [ptr EXCEPT ![h] = TRUE]
      /\ live' = [live EXCEPT ![h] = @ + 1]
    BY <1>5 DEF OpenNode
  <2> HIDE DEF h
  <2>4. /\ \A n \in Nodes \ {h} : ptr'[n] = ptr[n] /\ live'[n] = live[n]
        /\ ptr'[h] /\ live'[h] = 1
    BY <2>2, <2>3
  <2> QED BY <1>5, <2>4 DEF OpenNode, OnceInv
<1>6. CASE OpenFails
  <2> DEFINE h == Head(todo)
  <2>1. h \in Todo
    BY <1>6, HeadFact DEF TypeOK, OpenFails
  <2>2. h \in Mine /\ h \in Nodes /\ live[h] \in Nat /\ live[h] + 1 <= starts
    BY <1>0, <2>1 DEF OpenInv, TypeOK
  <2>3. live[h] = 0 /\ ~looping
    BY <1>0, <1>6, <2>2 DEF OpenFails, OpenInv
  <2>4. /\ \A n \in Nodes \ {h} : ptr'[n] = ptr[n]
        /\ ~ptr'[h] /\ live' = live
    BY <1>6, <2>2 DEF OpenFails, TypeOK
  <2> HIDE DEF h
  <2>5. \A n \in Nodes : live'[n] = IF ptr'[n] THEN 1 ELSE 0
    BY <2>3, <2>4 DEF OnceInv
  <2>6. /\ ~stopped /\ stop_requested => FALSE
        /\ ~stopped /\ ran' = "ok" => worked
    BY <1>6, <1>0 DEF OpenFails, StartFails, OnceInv, OpenInv
  <2> QED BY <1>6, <2>3, <2>5, <2>6 DEF OpenFails, OnceInv
<1>7. CASE Started
  BY <1>7, <1>0 DEF Started, nodeVars, OnceInv
<1>8. CASE MakeScaler
  <2>1. "rga" \in Nodes /\ live["rga"] = 0
    BY <1>8 DEF Nodes, OnceInv, MakeScaler
  <2>2. /\ \A n \in Nodes \ {"rga"} : ptr'[n] = ptr[n] /\ live'[n] = live[n]
        /\ ptr'["rga"] /\ live'["rga"] = 1
    BY <1>8, <2>1 DEF TypeOK, MakeScaler
  <2> QED BY <1>8, <2>2 DEF MakeScaler, OnceInv
<1>9. CASE LoopReturns
  <2>1. call = "run" /\ starts = 1
    BY <1>9, <1>0 DEF LoopReturns, OpenInv
  <2> QED BY <1>9, <2>1 DEF LoopReturns, nodeVars, OnceInv
<1>10. CASE Stop
  BY <1>10 DEF Stop, nodeVars, OnceInv
<1>11. CASE Destroy
  <2>1. \A n \in Nodes : live'[n] = 0 /\ ~ptr'[n]
    BY <1>11 DEF Destroy, OnceInv
  <2>2. ~looping
    BY <1>11 DEF Destroy, Idle, OpenInv
  <2> QED BY <1>11, <2>1, <2>2 DEF Destroy, Idle, OnceInv
<1>12. CASE UNCHANGED vars
  BY <1>12 DEF vars, nodeVars, OnceInv
<1> QED
  BY <1>1, <1>2, <1>3, <1>4, <1>5, <1>6, <1>7, <1>8, <1>9, <1>10, <1>11, <1>12
     DEF Next, Gone

(* Both invariants hold in every reachable state of such sessions.         *)
THEOREM OnceInvariance == MaxStarts = 1 /\ Spec => [](IInv /\ OnceInv)
<1> SUFFICES ASSUME MaxStarts = 1 PROVE Spec => [](IInv /\ OnceInv)
  OBVIOUS
<1>1. Init => IInv /\ OnceInv
  BY InitIInv, OnceInit
<1>2. (IInv /\ OnceInv) /\ [Next]_vars => (IInv /\ OnceInv)'
  BY NextIInv, OnceNext
<1> QED BY <1>1, <1>2, PTL DEF Spec

(* rkvc_session_destroy frees every node, scaler, pool and port queue of a *)
(* session that was started at most once, whichever opens failed.          *)
THEOREM DestroyCorrect == MaxStarts = 1 /\ Spec => []DestroyFreesAll
<1>1. IInv /\ OnceInv => DestroyFreesAll
  BY DEF IInv, PtrInv, OnceInv, DestroyFreesAll
<1> QED BY <1>1, OnceInvariance, PTL

(* Without a call of rkvc_session_stop, the one run of a session returns   *)
(* RKVC_OK only after it entered its loop with no stop request pending.    *)
THEOREM OkRunCorrect == MaxStarts = 1 /\ Spec => []OkRunWorked
<1>1. IInv /\ OnceInv => OkRunWorked
  BY DEF OnceInv, OkRunWorked
<1> QED BY <1>1, OnceInvariance, PTL
=============================================================================
