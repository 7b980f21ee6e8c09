-------------------------- MODULE ScaleBufferProofs ---------------------------
(***************************************************************************)
(* Theorems about ScaleBuffer, for any number of sessions, descriptors and *)
(* frames and every set of faults.                                         *)
(***************************************************************************)
EXTENDS ScaleBuffer, TLAPS

Making == {"map", "buffer", "frame", "unmap", "close"}
Allocating == {"heap", "host"} \cup Making
Importing == {"import_dst", "resize", "release"}

Types ==
  /\ owner \in [Fds -> Workers \cup {"nobody", "process"}]
  /\ files \subseteq Fds
  /\ pc \in [Workers -> Places] /\ slot \in [Workers -> Slots]
  /\ fd \in [Workers -> Fds \cup {HostFd}]
  /\ buf \in [Workers -> [Slots -> Fds \cup {HostFd, NoBuffer}]]
  /\ failed \in [Workers -> BOOLEAN]
  /\ handles \in [Workers -> Int]
  /\ maps \in [Workers -> Int]
  /\ frames \in [Workers -> 0 .. MaxFrames]

(* Worker v owns exactly the descriptors it has in hand.                   *)
Own(v) ==
  \A n \in Fds :
    owner[n] = v <=> n = fd[v] \/ n = buf[v]["work"] \/ n = buf[v]["out"]

(* Which buffers there are at which place, and that no descriptor is held  *)
(* twice.                                                                  *)
Stage(v) ==
  /\ fd[v] \in Fds <=> pc[v] \in Making
  /\ fd[v] \in Fds => fd[v] # buf[v]["work"] /\ fd[v] # buf[v]["out"]
  /\ buf[v]["work"] \in Fds => buf[v]["work"] # buf[v]["out"]
  /\ pc[v] \in Allocating =>
       /\ buf[v]["out"] = NoBuffer
       /\ slot[v] = "work" => buf[v]["work"] = NoBuffer
  /\ pc[v] \in {"idle", "encode", "unref_out"} => buf[v]["work"] = NoBuffer
  /\ pc[v] = "idle" => buf[v]["out"] = NoBuffer

(* Handles exist only between the first import and the release.            *)
HandlesInUse(v) ==
  /\ handles[v] \in 0 .. 2
  /\ pc[v] \notin Importing => handles[v] = 0
  /\ pc[v] = "import_dst" => handles[v] <= 1

(* Each call makes at most two mappings; what is unmapped was mapped.      *)
Mappings(v) ==
  /\ maps[v] >= 0
  /\ pc[v] \in {"buffer", "frame", "unmap"} => maps[v] >= 1
  /\ pc[v] \in {"buffer", "frame", "unmap"} =>
       maps[v] <= 2 * frames[v] - (IF slot[v] = "work" THEN 1 ELSE 0)
  /\ pc[v] \in {"heap", "map", "close", "host"} =>
       maps[v] <= 2 * frames[v] - (IF slot[v] = "work" THEN 2 ELSE 1)
  /\ maps[v] <= 2 * frames[v]

Local(v) == Own(v) /\ Stage(v) /\ HandlesInUse(v) /\ Mappings(v)

IInv == Types /\ FilesIntact /\ \A v \in Workers : Local(v)

(* What a step of worker w leaves to the others.                           *)
Others(w) ==
  \A v \in Workers \ {w} :
    /\ pc'[v] = pc[v] /\ slot'[v] = slot[v] /\ fd'[v] = fd[v]
    /\ buf'[v] = buf[v] /\ handles'[v] = handles[v]
    /\ maps'[v] = maps[v] /\ frames'[v] = frames[v]
    /\ \A n \in Fds : owner'[n] = v <=> owner[n] = v

-----------------------------------------------------------------------------
LEMMA NotFds == HostFd \notin Fds /\ NoBuffer \notin Fds /\ HostFd # NoBuffer
BY ScaleAssumption DEF HostFd, NoBuffer

LEMMA InitIInv == Init => IInv
<1> SUFFICES ASSUME Init PROVE IInv
  OBVIOUS
<1>1. Types
  BY ScaleAssumption DEF Init, Types, Places, Slots
<1>2. FilesIntact
  BY DEF Init, FilesIntact
<1>3. ASSUME NEW v \in Workers PROVE Local(v)
  <2>1. Own(v)
    BY ScaleAssumption, NotFds DEF Init, Own, Slots
  <2>2. Stage(v) /\ HandlesInUse(v) /\ Mappings(v)
    BY ScaleAssumption, NotFds
    DEF Init, Stage, HandlesInUse, Mappings, Slots, Making, Allocating, Importing
  <2> QED BY <2>1, <2>2 DEF Local
<1> QED BY <1>1, <1>2, <1>3 DEF IInv

(* What holds of worker w after its step, and what it leaves to others,    *)
(* make the invariant.                                                     *)
LEMMA Combine ==
  ASSUME NEW w \in Workers, IInv, Types', FilesIntact', Local(w)', Others(w)
  PROVE  IInv'
<1>1. ASSUME NEW v \in Workers \ {w} PROVE Local(v)'
  <2>1. Local(v)
    BY DEF IInv
  <2>2. /\ pc'[v] = pc[v] /\ slot'[v] = slot[v] /\ fd'[v] = fd[v]
        /\ buf'[v] = buf[v] /\ handles'[v] = handles[v]
        /\ maps'[v] = maps[v] /\ frames'[v] = frames[v]
        /\ \A n \in Fds : owner'[n] = v <=> owner[n] = v
    BY DEF Others
  <2>3. Own(v)'
    BY <2>1, <2>2 DEF Local, Own
  <2>4. Stage(v)'
    BY <2>1, <2>2 DEF Local, Stage, Making, Allocating, HostFd, NoBuffer
  <2>5. HandlesInUse(v)' /\ Mappings(v)'
    BY <2>1, <2>2 DEF Local, HandlesInUse, Mappings, Importing
  <2> QED BY <2>3, <2>4, <2>5 DEF Local
<1> QED BY <1>1 DEF IInv

(* A step that leaves descriptors and buffers alone.                       *)
LEMMA SameOwner ==
  ASSUME NEW w \in Workers, IInv, UNCHANGED <<owner, files>>
  PROVE  FilesIntact'
BY DEF IInv, FilesIntact

(* A worker closes one of its own descriptors, or none.                    *)
LEMMA CloseOwn ==
  ASSUME NEW w \in Workers, IInv, NEW n, n \in Fds => owner[n] = w,
         Close(n), UNCHANGED files
  PROVE  /\ FilesIntact'
         /\ owner' \in [Fds -> Workers \cup {"nobody", "process"}]
         /\ \A i \in Fds : owner'[i] = IF i = n THEN "nobody" ELSE owner[i]
         /\ \A v \in Workers \ {w} : \A i \in Fds : owner'[i] = v <=> owner[i] = v
<1>1. owner \in [Fds -> Workers \cup {"nobody", "process"}]
  BY DEF IInv, Types
<1>2. /\ owner' \in [Fds -> Workers \cup {"nobody", "process"}]
      /\ \A i \in Fds : owner'[i] = IF i = n THEN "nobody" ELSE owner[i]
  BY <1>1 DEF Close
<1>3. \A i \in files : i \in Fds /\ owner[i] = "process" /\ owner[i] # w
  BY ScaleAssumption DEF IInv, Types, FilesIntact
<1>4. FilesIntact'
  BY <1>2, <1>3 DEF FilesIntact
<1> QED BY <1>2, <1>4, ScaleAssumption

-----------------------------------------------------------------------------
(* The steps of a worker, one lemma per action.                            *)
LEMMA BeginStep ==
  ASSUME NEW w \in Workers, IInv, Begin(w)
  PROVE  IInv'
<1> USE NotFds DEF Begin, Goto
<1>1. Types /\ Local(w) /\ FilesIntact
  BY DEF IInv
<1>2. FilesIntact'
  BY SameOwner
<1>3. handles' \in [Workers -> Int] /\ maps' \in [Workers -> Int]
      /\ frames' \in [Workers -> 0 .. MaxFrames]
  BY <1>1, ScaleAssumption DEF Types
<1>4. Types'
  BY <1>1, <1>3 DEF Types, Places, Slots
<1>5. Own(w)'
  BY <1>1, ScaleAssumption DEF Types, Local, Own, Stage, Making, Allocating, Slots
<1>6. Stage(w)'
  BY <1>1 DEF Types, Local, Stage, Making, Allocating, Slots
<1>7. HandlesInUse(w)' /\ Mappings(w)'
  BY <1>1, ScaleAssumption DEF Types, Local, HandlesInUse, Mappings, Importing, Slots
<1>8. Others(w)
  BY <1>1, ScaleAssumption DEF Types, Others
<1> QED BY <1>2, <1>4, <1>5, <1>6, <1>7, <1>8, Combine DEF Local

LEMMA RejectStep ==
  ASSUME NEW w \in Workers, IInv, Reject(w)
  PROVE  IInv'
<1> USE NotFds DEF Reject, Goto
<1>1. Types /\ Local(w) /\ FilesIntact
  BY DEF IInv
<1>2. FilesIntact'
  BY SameOwner
<1>3. handles' \in [Workers -> Int] /\ maps' \in [Workers -> Int]
      /\ frames' \in [Workers -> 0 .. MaxFrames]
  BY <1>1, ScaleAssumption DEF Types
<1>4. Types'
  BY <1>1, <1>3 DEF Types, Places, Slots
<1>5. Own(w)'
  BY <1>1, ScaleAssumption DEF Types, Local, Own, Stage, Making, Allocating, Slots
<1>6. Stage(w)'
  BY <1>1 DEF Types, Local, Stage, Making, Allocating, Slots
<1>7. HandlesInUse(w)' /\ Mappings(w)'
  BY <1>1, ScaleAssumption DEF Types, Local, HandlesInUse, Mappings, Importing, Slots
<1>8. Others(w)
  BY <1>1, ScaleAssumption DEF Types, Others
<1> QED BY <1>2, <1>4, <1>5, <1>6, <1>7, <1>8, Combine DEF Local

LEMMA HeapAllocStep ==
  ASSUME NEW w \in Workers, IInv, HeapAlloc(w)
  PROVE  IInv'
<1> USE NotFds DEF HeapAlloc, Goto
<1>1. Types /\ Local(w) /\ FilesIntact
  BY DEF IInv
<1>2. FilesIntact'
  BY <1>1 DEF Types, FilesIntact
<1>3. handles' \in [Workers -> Int] /\ maps' \in [Workers -> Int]
      /\ frames' \in [Workers -> 0 .. MaxFrames]
  BY <1>1, ScaleAssumption DEF Types
<1>4. Types'
  <2>1. owner' \in [Fds -> Workers \cup {"nobody", "process"}]
    BY <1>1 DEF Types
  <2>2. fd' \in [Workers -> Fds \cup {HostFd}]
    BY <1>1 DEF Types
  <2>3. pc' \in [Workers -> Places]
    BY <1>1 DEF Types, Places
  <2> QED BY <1>1, <1>3, <2>1, <2>2, <2>3 DEF Types
<1>5. Own(w)'
  BY <1>1, ScaleAssumption DEF Types, Local, Own, Stage, Making, Allocating, Slots
<1>6. Stage(w)'
  BY <1>1, ScaleAssumption DEF Types, Local, Own, Stage, Making, Allocating, Slots
<1>7. HandlesInUse(w)' /\ Mappings(w)'
  BY <1>1, ScaleAssumption DEF Types, Local, HandlesInUse, Mappings, Importing, Slots
<1>8. Others(w)
  BY <1>1, ScaleAssumption DEF Types, Others
<1> QED BY <1>2, <1>4, <1>5, <1>6, <1>7, <1>8, Combine DEF Local

LEMMA MapStep ==
  ASSUME NEW w \in Workers, IInv, Map(w)
  PROVE  IInv'
<1> USE NotFds DEF Map, Goto
<1>1. Types /\ Local(w) /\ FilesIntact
  BY DEF IInv
<1>2. FilesIntact'
  BY SameOwner
<1>3. handles' \in [Workers -> Int] /\ maps' \in [Workers -> Int]
      /\ frames' \in [Workers -> 0 .. MaxFrames]
  BY <1>1, ScaleAssumption DEF Types
<1>4. Types'
  BY <1>1, <1>3 DEF Types, Places, Slots
<1>5. Own(w)'
  BY <1>1, ScaleAssumption DEF Types, Local, Own, Stage, Making, Allocating, Slots
<1>6. Stage(w)'
  BY <1>1 DEF Types, Local, Stage, Making, Allocating, Slots
<1>7. HandlesInUse(w)' /\ Mappings(w)'
  BY <1>1, ScaleAssumption DEF Types, Local, HandlesInUse, Mappings, Importing, Slots
<1>8. Others(w)
  BY <1>1, ScaleAssumption DEF Types, Others
<1> QED BY <1>2, <1>4, <1>5, <1>6, <1>7, <1>8, Combine DEF Local

LEMMA NewBufferStep ==
  ASSUME NEW w \in Workers, IInv, NewBuffer(w)
  PROVE  IInv'
<1> USE NotFds DEF NewBuffer, Goto
<1>1. Types /\ Local(w) /\ FilesIntact
  BY DEF IInv
<1>2. FilesIntact'
  BY SameOwner
<1>3. handles' \in [Workers -> Int] /\ maps' \in [Workers -> Int]
      /\ frames' \in [Workers -> 0 .. MaxFrames]
  BY <1>1, ScaleAssumption DEF Types
<1>4. Types'
  BY <1>1, <1>3 DEF Types, Places, Slots
<1>5. Own(w)'
  BY <1>1, ScaleAssumption DEF Types, Local, Own, Stage, Making, Allocating, Slots
<1>6. Stage(w)'
  BY <1>1 DEF Types, Local, Stage, Making, Allocating, Slots
<1>7. HandlesInUse(w)' /\ Mappings(w)'
  BY <1>1, ScaleAssumption DEF Types, Local, HandlesInUse, Mappings, Importing, Slots
<1>8. Others(w)
  BY <1>1, ScaleAssumption DEF Types, Others
<1> QED BY <1>2, <1>4, <1>5, <1>6, <1>7, <1>8, Combine DEF Local

LEMMA NewFrameStep ==
  ASSUME NEW w \in Workers, IInv, NewFrame(w)
  PROVE  IInv'
<1> USE NotFds DEF NewFrame, Allocated, Goto
<1>1. Types /\ Local(w) /\ FilesIntact
  BY DEF IInv
<1>2. FilesIntact'
  BY SameOwner
<1>3. handles' \in [Workers -> Int] /\ maps' \in [Workers -> Int]
      /\ frames' \in [Workers -> 0 .. MaxFrames]
  BY <1>1, ScaleAssumption DEF Types
<1>4. Types'
  <2>1. fd' \in [Workers -> Fds \cup {HostFd}]
    BY <1>1 DEF Types
  <2>2. pc' \in [Workers -> Places] /\ slot' \in [Workers -> Slots]
    BY <1>1 DEF Types, Places, Slots
  <2>3. buf' \in [Workers -> [Slots -> Fds \cup {HostFd, NoBuffer}]]
    <3>1. /\ buf \in [Workers -> [Slots -> Fds \cup {HostFd, NoBuffer}]]
          /\ slot[w] \in Slots /\ fd[w] \in Fds \cup {HostFd}
      BY <1>1 DEF Types
    <3> QED BY <3>1
  <2> QED BY <1>1, <1>3, <2>1, <2>2, <2>3 DEF Types
<1>5. Own(w)'
  BY <1>1, ScaleAssumption DEF Types, Local, Own, Stage, Making, Allocating, Slots
<1>6. Stage(w)'
  BY <1>1 DEF Types, Local, Stage, Making, Allocating, Slots
<1>7. HandlesInUse(w)' /\ Mappings(w)'
  BY <1>1, ScaleAssumption DEF Types, Local, HandlesInUse, Mappings, Importing, Slots
<1>8. Others(w)
  BY <1>1, ScaleAssumption DEF Types, Others
<1> QED BY <1>2, <1>4, <1>5, <1>6, <1>7, <1>8, Combine DEF Local

LEMMA UnmapStep ==
  ASSUME NEW w \in Workers, IInv, Unmap(w)
  PROVE  IInv'
<1> USE NotFds DEF Unmap, Goto
<1>1. Types /\ Local(w) /\ FilesIntact
  BY DEF IInv
<1>2. FilesIntact'
  BY SameOwner
<1>3. handles' \in [Workers -> Int] /\ maps' \in [Workers -> Int]
      /\ frames' \in [Workers -> 0 .. MaxFrames]
  BY <1>1, ScaleAssumption DEF Types
<1>4. Types'
  BY <1>1, <1>3 DEF Types, Places, Slots
<1>5. Own(w)'
  BY <1>1, ScaleAssumption DEF Types, Local, Own, Stage, Making, Allocating, Slots
<1>6. Stage(w)'
  BY <1>1 DEF Types, Local, Stage, Making, Allocating, Slots
<1>7. HandlesInUse(w)' /\ Mappings(w)'
  BY <1>1, ScaleAssumption DEF Types, Local, HandlesInUse, Mappings, Importing, Slots
<1>8. Others(w)
  BY <1>1, ScaleAssumption DEF Types, Others
<1> QED BY <1>2, <1>4, <1>5, <1>6, <1>7, <1>8, Combine DEF Local

LEMMA CloseFdStep ==
  ASSUME NEW w \in Workers, IInv, CloseFd(w)
  PROVE  IInv'
<1> USE NotFds DEF CloseFd, Goto
<1>1. Types /\ Local(w) /\ FilesIntact
  BY DEF IInv
<1>a. fd[w] \in Fds => owner[fd[w]] = w
  BY <1>1 DEF Local, Own
<1>2. /\ FilesIntact'
      /\ owner' \in [Fds -> Workers \cup {"nobody", "process"}]
      /\ \A i \in Fds : owner'[i] = IF i = fd[w] THEN "nobody" ELSE owner[i]
      /\ \A v \in Workers \ {w} : \A i \in Fds : owner'[i] = v <=> owner[i] = v
  BY <1>a, CloseOwn
<1>3. handles' \in [Workers -> Int] /\ maps' \in [Workers -> Int]
      /\ frames' \in [Workers -> 0 .. MaxFrames]
  BY <1>1, ScaleAssumption DEF Types
<1>4. Types'
  BY <1>2, <1>1, <1>3 DEF Types, Places, Slots
<1>5. Own(w)'
  BY <1>2, <1>1, ScaleAssumption DEF Types, Local, Own, Stage, Making, Allocating, Slots
<1>6. Stage(w)'
  BY <1>1 DEF Types, Local, Stage, Making, Allocating, Slots
<1>7. HandlesInUse(w)' /\ Mappings(w)'
  BY <1>1, ScaleAssumption DEF Types, Local, HandlesInUse, Mappings, Importing, Slots
<1>8. Others(w)
  BY <1>2, <1>1, ScaleAssumption DEF Types, Others
<1> QED BY <1>2, <1>4, <1>5, <1>6, <1>7, <1>8, Combine DEF Local

LEMMA HostAllocStep ==
  ASSUME NEW w \in Workers, IInv, HostAlloc(w)
  PROVE  IInv'
<1> USE NotFds DEF HostAlloc, Allocated, Goto
<1>1. Types /\ Local(w) /\ FilesIntact
  BY DEF IInv
<1>2. FilesIntact'
  BY SameOwner
<1>3. handles' \in [Workers -> Int] /\ maps' \in [Workers -> Int]
      /\ frames' \in [Workers -> 0 .. MaxFrames]
  BY <1>1, ScaleAssumption DEF Types
<1>4. Types'
  <2>1. fd' \in [Workers -> Fds \cup {HostFd}]
    BY <1>1 DEF Types
  <2>2. pc' \in [Workers -> Places] /\ slot' \in [Workers -> Slots]
    BY <1>1 DEF Types, Places, Slots
  <2>3. buf' \in [Workers -> [Slots -> Fds \cup {HostFd, NoBuffer}]]
    <3>1. /\ buf \in [Workers -> [Slots -> Fds \cup {HostFd, NoBuffer}]]
          /\ slot[w] \in Slots /\ fd[w] \in Fds \cup {HostFd}
      BY <1>1 DEF Types
    <3> QED BY <3>1
  <2>4. failed' \in [Workers -> BOOLEAN]
    BY <1>1 DEF Types
  <2> QED BY <1>1, <1>3, <2>1, <2>2, <2>3, <2>4 DEF Types
<1>5. Own(w)'
  BY <1>1, ScaleAssumption DEF Types, Local, Own, Stage, Making, Allocating, Slots
<1>6. Stage(w)'
  BY <1>1 DEF Types, Local, Stage, Making, Allocating, Slots
<1>7. HandlesInUse(w)' /\ Mappings(w)'
  BY <1>1, ScaleAssumption DEF Types, Local, HandlesInUse, Mappings, Importing, Slots
<1>8. Others(w)
  BY <1>1, ScaleAssumption DEF Types, Others
<1> QED BY <1>2, <1>4, <1>5, <1>6, <1>7, <1>8, Combine DEF Local

LEMMA ImportSrcStep ==
  ASSUME NEW w \in Workers, IInv, Import(w, "import_src", "import_dst")
  PROVE  IInv'
<1> USE NotFds DEF Import, Goto
<1>1. Types /\ Local(w) /\ FilesIntact
  BY DEF IInv
<1>2. FilesIntact'
  BY SameOwner
<1>3. handles' \in [Workers -> Int] /\ maps' \in [Workers -> Int]
      /\ frames' \in [Workers -> 0 .. MaxFrames]
  BY <1>1, ScaleAssumption DEF Types
<1>4. Types'
  BY <1>1, <1>3 DEF Types, Places, Slots
<1>5. Own(w)'
  BY <1>1, ScaleAssumption DEF Types, Local, Own, Stage, Making, Allocating, Slots
<1>6. Stage(w)'
  BY <1>1 DEF Types, Local, Stage, Making, Allocating, Slots
<1>7. HandlesInUse(w)' /\ Mappings(w)'
  BY <1>1, ScaleAssumption DEF Types, Local, HandlesInUse, Mappings, Importing, Slots
<1>8. Others(w)
  BY <1>1, ScaleAssumption DEF Types, Others
<1> QED BY <1>2, <1>4, <1>5, <1>6, <1>7, <1>8, Combine DEF Local

LEMMA ImportDstStep ==
  ASSUME NEW w \in Workers, IInv, Import(w, "import_dst", "resize")
  PROVE  IInv'
<1> USE NotFds DEF Import, Goto
<1>1. Types /\ Local(w) /\ FilesIntact
  BY DEF IInv
<1>2. FilesIntact'
  BY SameOwner
<1>3. handles' \in [Workers -> Int] /\ maps' \in [Workers -> Int]
      /\ frames' \in [Workers -> 0 .. MaxFrames]
  BY <1>1, ScaleAssumption DEF Types
<1>4. Types'
  BY <1>1, <1>3 DEF Types, Places, Slots
<1>5. Own(w)'
  BY <1>1, ScaleAssumption DEF Types, Local, Own, Stage, Making, Allocating, Slots
<1>6. Stage(w)'
  BY <1>1 DEF Types, Local, Stage, Making, Allocating, Slots
<1>7. HandlesInUse(w)' /\ Mappings(w)'
  BY <1>1, ScaleAssumption DEF Types, Local, HandlesInUse, Mappings, Importing, Slots
<1>8. Others(w)
  BY <1>1, ScaleAssumption DEF Types, Others
<1> QED BY <1>2, <1>4, <1>5, <1>6, <1>7, <1>8, Combine DEF Local

LEMMA ResizeStep ==
  ASSUME NEW w \in Workers, IInv, Resize(w)
  PROVE  IInv'
<1> USE NotFds DEF Resize, Goto
<1>1. Types /\ Local(w) /\ FilesIntact
  BY DEF IInv
<1>2. FilesIntact'
  BY SameOwner
<1>3. handles' \in [Workers -> Int] /\ maps' \in [Workers -> Int]
      /\ frames' \in [Workers -> 0 .. MaxFrames]
  BY <1>1, ScaleAssumption DEF Types
<1>4. Types'
  BY <1>1, <1>3 DEF Types, Places, Slots
<1>5. Own(w)'
  BY <1>1, ScaleAssumption DEF Types, Local, Own, Stage, Making, Allocating, Slots
<1>6. Stage(w)'
  BY <1>1 DEF Types, Local, Stage, Making, Allocating, Slots
<1>7. HandlesInUse(w)' /\ Mappings(w)'
  BY <1>1, ScaleAssumption DEF Types, Local, HandlesInUse, Mappings, Importing, Slots
<1>8. Others(w)
  BY <1>1, ScaleAssumption DEF Types, Others
<1> QED BY <1>2, <1>4, <1>5, <1>6, <1>7, <1>8, Combine DEF Local

LEMMA ReleaseStep ==
  ASSUME NEW w \in Workers, IInv, Release(w)
  PROVE  IInv'
<1> USE NotFds DEF Release, Goto
<1>1. Types /\ Local(w) /\ FilesIntact
  BY DEF IInv
<1>2. FilesIntact'
  BY SameOwner
<1>3. handles' \in [Workers -> Int] /\ maps' \in [Workers -> Int]
      /\ frames' \in [Workers -> 0 .. MaxFrames]
  BY <1>1, ScaleAssumption DEF Types
<1>4. Types'
  BY <1>1, <1>3 DEF Types, Places, Slots
<1>5. Own(w)'
  BY <1>1, ScaleAssumption DEF Types, Local, Own, Stage, Making, Allocating, Slots
<1>6. Stage(w)'
  BY <1>1 DEF Types, Local, Stage, Making, Allocating, Slots
<1>7. HandlesInUse(w)' /\ Mappings(w)'
  BY <1>1, ScaleAssumption DEF Types, Local, HandlesInUse, Mappings, Importing, Slots
<1>8. Others(w)
  BY <1>1, ScaleAssumption DEF Types, Others
<1> QED BY <1>2, <1>4, <1>5, <1>6, <1>7, <1>8, Combine DEF Local

LEMMA UnrefWorkStep ==
  ASSUME NEW w \in Workers, IInv, UnrefWork(w)
  PROVE  IInv'
<1> USE NotFds DEF UnrefWork, Free, Goto
<1>1. Types /\ Local(w) /\ FilesIntact
  BY DEF IInv
<1>a. buf[w]["work"] \in Fds => owner[buf[w]["work"]] = w
  BY <1>1 DEF Local, Own
<1>2. /\ FilesIntact'
      /\ owner' \in [Fds -> Workers \cup {"nobody", "process"}]
      /\ \A i \in Fds : owner'[i] = IF i = buf[w]["work"] THEN "nobody" ELSE owner[i]
      /\ \A v \in Workers \ {w} : \A i \in Fds : owner'[i] = v <=> owner[i] = v
  BY <1>a, CloseOwn
<1>3. handles' \in [Workers -> Int] /\ maps' \in [Workers -> Int]
      /\ frames' \in [Workers -> 0 .. MaxFrames]
  BY <1>1, ScaleAssumption DEF Types
<1>4. Types'
  BY <1>2, <1>1, <1>3 DEF Types, Places, Slots
<1>5. Own(w)'
  BY <1>2, <1>1, ScaleAssumption DEF Types, Local, Own, Stage, Making, Allocating, Slots
<1>6. Stage(w)'
  BY <1>1 DEF Types, Local, Stage, Making, Allocating, Slots
<1>7. HandlesInUse(w)' /\ Mappings(w)'
  BY <1>1, ScaleAssumption DEF Types, Local, HandlesInUse, Mappings, Importing, Slots
<1>8. Others(w)
  BY <1>2, <1>1, ScaleAssumption DEF Types, Others
<1> QED BY <1>2, <1>4, <1>5, <1>6, <1>7, <1>8, Combine DEF Local

LEMMA EncodedStep ==
  ASSUME NEW w \in Workers, IInv, Encoded(w)
  PROVE  IInv'
<1> USE NotFds DEF Encoded, Goto
<1>1. Types /\ Local(w) /\ FilesIntact
  BY DEF IInv
<1>2. FilesIntact'
  BY SameOwner
<1>3. handles' \in [Workers -> Int] /\ maps' \in [Workers -> Int]
      /\ frames' \in [Workers -> 0 .. MaxFrames]
  BY <1>1, ScaleAssumption DEF Types
<1>4. Types'
  BY <1>1, <1>3 DEF Types, Places, Slots
<1>5. Own(w)'
  BY <1>1, ScaleAssumption DEF Types, Local, Own, Stage, Making, Allocating, Slots
<1>6. Stage(w)'
  BY <1>1 DEF Types, Local, Stage, Making, Allocating, Slots
<1>7. HandlesInUse(w)' /\ Mappings(w)'
  BY <1>1, ScaleAssumption DEF Types, Local, HandlesInUse, Mappings, Importing, Slots
<1>8. Others(w)
  BY <1>1, ScaleAssumption DEF Types, Others
<1> QED BY <1>2, <1>4, <1>5, <1>6, <1>7, <1>8, Combine DEF Local

LEMMA UnrefOutStep ==
  ASSUME NEW w \in Workers, IInv, UnrefOut(w)
  PROVE  IInv'
<1> USE NotFds DEF UnrefOut, Free, Goto
<1>1. Types /\ Local(w) /\ FilesIntact
  BY DEF IInv
<1>a. buf[w]["out"] \in Fds => owner[buf[w]["out"]] = w
  BY <1>1 DEF Local, Own
<1>2. /\ FilesIntact'
      /\ owner' \in [Fds -> Workers \cup {"nobody", "process"}]
      /\ \A i \in Fds : owner'[i] = IF i = buf[w]["out"] THEN "nobody" ELSE owner[i]
      /\ \A v \in Workers \ {w} : \A i \in Fds : owner'[i] = v <=> owner[i] = v
  BY <1>a, CloseOwn
<1>3. handles' \in [Workers -> Int] /\ maps' \in [Workers -> Int]
      /\ frames' \in [Workers -> 0 .. MaxFrames]
  BY <1>1, ScaleAssumption DEF Types
<1>4. Types'
  BY <1>2, <1>1, <1>3 DEF Types, Places, Slots
<1>5. Own(w)'
  BY <1>2, <1>1, ScaleAssumption DEF Types, Local, Own, Stage, Making, Allocating, Slots
<1>6. Stage(w)'
  BY <1>1 DEF Types, Local, Stage, Making, Allocating, Slots
<1>7. HandlesInUse(w)' /\ Mappings(w)'
  BY <1>1, ScaleAssumption DEF Types, Local, HandlesInUse, Mappings, Importing, Slots
<1>8. Others(w)
  BY <1>2, <1>1, ScaleAssumption DEF Types, Others
<1> QED BY <1>2, <1>4, <1>5, <1>6, <1>7, <1>8, Combine DEF Local

-----------------------------------------------------------------------------
(* A descriptor the rest of the process opens was nobody's, one that it    *)
(* closes was its own: the workers do not notice.                          *)
LEMMA OtherCodeStep ==
  ASSUME IInv, OpenFile \/ CloseFile
  PROVE  IInv'
<1>1. Types /\ FilesIntact /\ \A v \in Workers : Local(v)
  BY DEF IInv
<1>2. UNCHANGED <<pc, slot, fd, buf, failed, handles, maps, frames>>
  BY DEF OpenFile, CloseFile
<1>3. /\ owner' \in [Fds -> Workers \cup {"nobody", "process"}]
      /\ files' \subseteq Fds /\ FilesIntact'
      /\ \A v \in Workers : \A n \in Fds : owner'[n] = v <=> owner[n] = v
  <2>1. CASE OpenFile
    BY <1>1, <2>1, ScaleAssumption DEF OpenFile, Types, FilesIntact
  <2>2. CASE CloseFile
    BY <1>1, <2>2, ScaleAssumption DEF CloseFile, Types, FilesIntact
  <2> QED BY <2>1, <2>2
<1>4. Types'
  BY <1>1, <1>2, <1>3 DEF Types
<1>5. ASSUME NEW v \in Workers PROVE Local(v)'
  <2>1. Local(v) /\ \A n \in Fds : owner'[n] = v <=> owner[n] = v
    BY <1>1, <1>3
  <2>2. Own(v)'
    BY <1>2, <2>1 DEF Local, Own
  <2>3. Stage(v)' /\ HandlesInUse(v)' /\ Mappings(v)'
    BY <1>2, <2>1
    DEF Local, Stage, HandlesInUse, Mappings, Making, Allocating, Importing
  <2> QED BY <2>2, <2>3 DEF Local
<1> QED BY <1>3, <1>4, <1>5 DEF IInv

LEMMA NextIInv == IInv /\ [Next]_vars => IInv'
<1> SUFFICES ASSUME IInv, [Next]_vars PROVE IInv'
  OBVIOUS
<1>1. ASSUME NEW w \in Workers, WorkerStep(w) PROVE IInv'
  BY <1>1, BeginStep, RejectStep, HeapAllocStep, MapStep, NewBufferStep,
     NewFrameStep, UnmapStep, CloseFdStep, HostAllocStep, ImportSrcStep,
     ImportDstStep, ResizeStep, ReleaseStep, UnrefWorkStep, EncodedStep,
     UnrefOutStep
  DEF WorkerStep
<1>2. CASE UNCHANGED vars
  BY <1>2 DEF vars, IInv, Types, FilesIntact, Local, Own, Stage, HandlesInUse,
     Mappings
<1> QED BY <1>1, <1>2, OtherCodeStep DEF Next

(* The inductive invariant, for any number of sessions and descriptors.    *)
THEOREM ScaleInvariance == Spec => []IInv
<1> QED BY InitIInv, NextIInv, PTL DEF Spec

(* Types, at most two RGA handles per call, and at most two mappings that  *)
(* a call adds (node_rga.c:271-342).                                       *)
THEOREM ScaleTypeCorrect == Spec => []TypeOK
<1>1. IInv => TypeOK
  <2> SUFFICES ASSUME IInv PROVE TypeOK
    OBVIOUS
  <2>1. Types /\ \A v \in Workers : Local(v)
    BY DEF IInv
  <2>2. handles \in [Workers -> 0 .. 2]
    BY <2>1 DEF Types, Local, HandlesInUse
  <2>3. maps \in [Workers -> 0 .. 2 * MaxFrames]
    <3>1. ASSUME NEW v \in Workers PROVE maps[v] \in 0 .. 2 * MaxFrames
      BY <2>1, ScaleAssumption DEF Types, Local, Mappings
    <3> QED BY <2>1, <3>1 DEF Types
  <2> QED BY <2>1, <2>2, <2>3 DEF Types, TypeOK
<1> QED BY <1>1, ScaleInvariance, PTL

(* No clean-up closes a descriptor of the rest of the process              *)
(* (buffer_pool.c:214-219, 351-365).                                       *)
THEOREM FilesCorrect == Spec => []FilesIntact
<1>1. IInv => FilesIntact
  BY DEF IInv
<1> QED BY <1>1, ScaleInvariance, PTL

(* Every descriptor is held by exactly the buffer, or the allocation, that *)
(* opened it, and none is left open (buffer_pool.c:187-232).               *)
THEOREM DescriptorsCorrect == Spec => []DescriptorsHeld
<1>1. IInv => DescriptorsHeld
  <2> SUFFICES ASSUME IInv, NEW w \in Workers
               PROVE  /\ {n \in Fds : owner[n] = w} = Held(w)
                      /\ buf[w]["work"] \in Fds => buf[w]["work"] # buf[w]["out"]
    BY DEF DescriptorsHeld
  <2>1. Own(w) /\ Stage(w)
    BY DEF IInv, Local
  <2>2. Held(w) = {n \in Fds : n = fd[w] \/ n = buf[w]["work"] \/ n = buf[w]["out"]}
    BY DEF Held, Slots
  <2> QED BY <2>1, <2>2 DEF Own, Stage
<1> QED BY <1>1, ScaleInvariance, PTL

(* A call that returned left no buffer and no RGA handle behind, whatever  *)
(* failed (node_rga.c:265-268, 331-336).                                   *)
THEOREM NothingLeftCorrect == Spec => []NothingLeft
<1>1. IInv => NothingLeft
  BY DEF IInv, Local, Stage, HandlesInUse, NothingLeft, Slots, Importing
<1> QED BY <1>1, ScaleInvariance, PTL
=============================================================================
