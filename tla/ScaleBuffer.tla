----------------------------- MODULE ScaleBuffer -----------------------------
(***************************************************************************)
(* What scaling a frame before it is encoded allocates and gives back:     *)
(* rkvc_rga_scale_buffer (lib/node_rga.c) with the DMA-BUF buffers of      *)
(* lib/buffer_pool.c.  A DMA-BUF buffer has a descriptor and a mapping; the *)
(* RGA driver gives out handles for the buffers it works on.               *)
(*                                                                         *)
(* Several sessions run in one process, and so share descriptor numbers:   *)
(* a number that is closed may be in use again at once, by anybody.  Each  *)
(* step ends with a call that can fail or that others can see.             *)
(***************************************************************************)
EXTENDS Integers, FiniteSets

CONSTANTS
  Workers,    \* threads that run a session's loop
  Fds,        \* descriptor numbers of the process
  MaxFrames,  \* bound: calls per worker
  Faults      \* what may fail

ASSUME ScaleAssumption ==
  /\ Fds \subseteq Nat /\ IsFiniteSet(Fds)
  /\ MaxFrames \in Nat
  /\ Faults \subseteq {"heap", "map", "buffer", "frame", "host", "stride",
                       "import", "resize"}
  /\ "process" \notin Workers /\ "nobody" \notin Workers

HostFd == 0 - 1     \* the fd of a buffer in host memory
NoBuffer == 0 - 2   \* a null pointer instead of a buffer
Slots == {"work", "out"}   \* the two buffers a call may allocate

VARIABLES
  owner,    \* owner[n]: who opened descriptor n; "process" for other code
  files,    \* descriptors the other code believes it has
  pc,       \* where worker w is
  slot,     \* the buffer it is allocating
  fd,       \* its descriptor until the buffer has it
  buf,      \* buf[w][s]: the fd of the buffer in slot s
  failed,   \* the call will return an error
  handles,  \* RGA handles of this call
  maps,     \* mappings of DMA-BUF memory that exist
  frames    \* calls made

vars == <<owner, files, pc, slot, fd, buf, failed, handles, maps, frames>>

Init ==
  /\ owner = [n \in Fds |-> "nobody"]
  /\ files = {}
  /\ pc = [w \in Workers |-> "idle"]
  /\ slot = [w \in Workers |-> "out"]
  /\ fd = [w \in Workers |-> HostFd]
  /\ buf = [w \in Workers |-> [s \in Slots |-> NoBuffer]]
  /\ failed = [w \in Workers |-> FALSE]
  /\ handles = [w \in Workers |-> 0]
  /\ maps = [w \in Workers |-> 0]
  /\ frames = [w \in Workers |-> 0]

-----------------------------------------------------------------------------
(* The rest of the process opens and closes files of its own.              *)
OpenFile ==
  /\ \E n \in Fds :
       /\ owner[n] = "nobody"
       /\ owner' = [owner EXCEPT ![n] = "process"]
       /\ files' = files \cup {n}
  /\ UNCHANGED <<pc, slot, fd, buf, failed, handles, maps, frames>>

CloseFile ==
  /\ \E n \in files :
       /\ owner' = [owner EXCEPT ![n] = "nobody"]
       /\ files' = files \ {n}
  /\ UNCHANGED <<pc, slot, fd, buf, failed, handles, maps, frames>>

-----------------------------------------------------------------------------
Goto(w, l) == pc' = [pc EXCEPT ![w] = l]

(* close(n): whoever has the number now.                                   *)
Close(n) == owner' = IF n \in Fds THEN [owner EXCEPT ![n] = "nobody"] ELSE owner

(* A call for a frame with padded lines first makes a copy without         *)
(* padding.                                                                *)
Begin(w) ==
  /\ pc[w] = "idle" /\ frames[w] < MaxFrames
  /\ \E s \in Slots : slot' = [slot EXCEPT ![w] = s]
  /\ failed' = [failed EXCEPT ![w] = FALSE]
  /\ frames' = [frames EXCEPT ![w] = @ + 1]
  /\ Goto(w, "heap")
  /\ UNCHANGED <<owner, files, fd, buf, handles, maps>>

(* The strides do not suit RGA.                                            *)
Reject(w) ==
  /\ pc[w] = "heap" /\ slot[w] = "out"
  /\ "stride" \in Faults
  /\ failed' = [failed EXCEPT ![w] = TRUE]
  /\ Goto(w, "unref_work")
  /\ UNCHANGED <<owner, files, slot, fd, buf, handles, maps, frames>>

(* rkvc_buffer_pool_alloc_video: a descriptor from the DMA heap, a mapping *)
(* of it, a buffer, a frame.  Whatever fails, what was made is undone, and *)
(* a buffer in host memory is made instead, here or by the caller.  That   *)
(* av_image_fill_arrays fails for sizes for which                          *)
(* av_image_get_buffer_size worked is left out: both check the same.       *)
(* dma_heap_alloc holds the heap's device open, by a number of its own,    *)
(* until it has the descriptor; others can only fail to get that number.   *)
HeapAlloc(w) ==
  /\ pc[w] = "heap"
  /\ LET free == {n \in Fds : owner[n] = "nobody"} IN
     \/ \E n \in free :
          /\ free # {n}
          /\ owner' = [owner EXCEPT ![n] = w]
          /\ fd' = [fd EXCEPT ![w] = n]
          /\ Goto(w, "map")
     \/ /\ "heap" \in Faults \/ Cardinality(free) <= 1
        /\ Goto(w, "host")
        /\ UNCHANGED <<owner, fd>>
  /\ UNCHANGED <<files, slot, buf, failed, handles, maps, frames>>

MutMap(w) ==   \* unmaps also what could not be mapped
  /\ pc[w] = "map"
  /\ \/ maps' = [maps EXCEPT ![w] = @ + 1] /\ Goto(w, "buffer")
     \/ "map" \in Faults /\ Goto(w, "unmap") /\ UNCHANGED maps
  /\ UNCHANGED <<owner, files, slot, fd, buf, failed, handles, frames>>

Map(w) ==
  /\ pc[w] = "map"
  /\ \/ maps' = [maps EXCEPT ![w] = @ + 1] /\ Goto(w, "buffer")
     \/ "map" \in Faults /\ Goto(w, "close") /\ UNCHANGED maps
  /\ UNCHANGED <<owner, files, slot, fd, buf, failed, handles, frames>>

NewBuffer(w) ==
  /\ pc[w] = "buffer"
  /\ \/ Goto(w, "frame")
     \/ "buffer" \in Faults /\ Goto(w, "unmap")
  /\ UNCHANGED <<owner, files, slot, fd, buf, failed, handles, maps, frames>>

(* The copy is followed by the target, the target by the import.           *)
Allocated(w, f) ==
  /\ buf' = [buf EXCEPT ![w][slot[w]] = f]
  /\ slot' = [slot EXCEPT ![w] = "out"]
  /\ Goto(w, IF slot[w] = "work" THEN "heap" ELSE "import_src")

(* Without a frame the new buffer is dropped; its descriptor is not its    *)
(* own yet (buffer_free closes it only together with a frame).             *)
MutNewFrame(w) ==   \* the dropped buffer closes the descriptor
  /\ pc[w] = "frame"
  /\ \/ Allocated(w, fd[w]) /\ fd' = [fd EXCEPT ![w] = HostFd] /\ UNCHANGED owner
     \/ /\ "frame" \in Faults
        /\ Close(fd[w])
        /\ Goto(w, "unmap") /\ UNCHANGED <<slot, fd, buf>>
  /\ UNCHANGED <<files, failed, handles, maps, frames>>

NewFrame(w) ==
  /\ pc[w] = "frame"
  /\ \/ Allocated(w, fd[w]) /\ fd' = [fd EXCEPT ![w] = HostFd]
     \/ "frame" \in Faults /\ Goto(w, "unmap") /\ UNCHANGED <<slot, fd, buf>>
  /\ UNCHANGED <<owner, files, failed, handles, maps, frames>>

Unmap(w) ==
  /\ pc[w] = "unmap"
  /\ maps' = [maps EXCEPT ![w] = @ - 1]
  /\ Goto(w, "close")
  /\ UNCHANGED <<owner, files, slot, fd, buf, failed, handles, frames>>

CloseFd(w) ==
  /\ pc[w] = "close"
  /\ Close(fd[w])
  /\ fd' = [fd EXCEPT ![w] = HostFd]
  /\ Goto(w, "host")
  /\ UNCHANGED <<files, slot, buf, failed, handles, maps, frames>>

(* rkvc_buffer_alloc_video_host.  The second attempt that the caller makes *)
(* when pool_alloc_video's own one failed is one more chance to succeed.   *)
HostAlloc(w) ==
  /\ pc[w] = "host"
  /\ \/ Allocated(w, HostFd) /\ UNCHANGED failed
     \/ /\ "host" \in Faults
        /\ failed' = [failed EXCEPT ![w] = TRUE]
        /\ Goto(w, "unref_work") /\ UNCHANGED <<slot, buf>>
  /\ UNCHANGED <<owner, files, fd, handles, maps, frames>>

-----------------------------------------------------------------------------
(* rga_scale_nv12_buffers: import both buffers, scale, release what was    *)
(* imported.                                                               *)
Import(w, here, there) ==
  /\ pc[w] = here
  /\ \/ /\ handles' = [handles EXCEPT ![w] = @ + 1]
        /\ Goto(w, there) /\ UNCHANGED failed
     \/ /\ "import" \in Faults
        /\ failed' = [failed EXCEPT ![w] = TRUE]
        /\ Goto(w, "release") /\ UNCHANGED handles
  /\ UNCHANGED <<owner, files, slot, fd, buf, maps, frames>>

Resize(w) ==
  /\ pc[w] = "resize"
  /\ \E f \in {FALSE} \cup (IF "resize" \in Faults THEN {TRUE} ELSE {}) :
       failed' = [failed EXCEPT ![w] = f]
  /\ Goto(w, "release")
  /\ UNCHANGED <<owner, files, slot, fd, buf, handles, maps, frames>>

MutRelease(w) ==   \* releases handles only when both imports worked
  /\ pc[w] = "release"
  /\ handles' = [handles EXCEPT ![w] = IF @ = 2 THEN 0 ELSE @]
  /\ Goto(w, "unref_work")
  /\ UNCHANGED <<owner, files, slot, fd, buf, failed, maps, frames>>

Release(w) ==
  /\ pc[w] = "release"
  /\ handles' = [handles EXCEPT ![w] = 0]
  /\ Goto(w, "unref_work")
  /\ UNCHANGED <<owner, files, slot, fd, buf, failed, maps, frames>>

(* rkvc_buffer_unref of the only reference: buffer_free closes the         *)
(* descriptor of a DMA-BUF buffer.  The mapping stays.                     *)
Free(w, s) ==
  /\ Close(buf[w][s])
  /\ buf' = [buf EXCEPT ![w][s] = NoBuffer]

UnrefWork(w) ==
  /\ pc[w] = "unref_work"
  /\ Free(w, "work")
  /\ Goto(w, IF failed[w] THEN "unref_out" ELSE "encode")
  /\ UNCHANGED <<files, slot, fd, failed, handles, maps, frames>>

(* The caller encodes the scaled frame and releases it.                    *)
Encoded(w) ==
  /\ pc[w] = "encode"
  /\ Goto(w, "unref_out")
  /\ UNCHANGED <<owner, files, slot, fd, buf, failed, handles, maps, frames>>

MutUnrefOut(w) ==   \* the error path forgets the target
  /\ pc[w] = "unref_out"
  /\ IF failed[w] THEN UNCHANGED <<owner, buf>> ELSE Free(w, "out")
  /\ Goto(w, "idle")
  /\ UNCHANGED <<files, slot, fd, failed, handles, maps, frames>>

UnrefOut(w) ==
  /\ pc[w] = "unref_out"
  /\ Free(w, "out")
  /\ Goto(w, "idle")
  /\ UNCHANGED <<files, slot, fd, failed, handles, maps, frames>>

-----------------------------------------------------------------------------
WorkerStep(w) ==
  \/ Begin(w) \/ Reject(w)
  \/ HeapAlloc(w) \/ Map(w) \/ NewBuffer(w) \/ NewFrame(w)
  \/ Unmap(w) \/ CloseFd(w) \/ HostAlloc(w)
  \/ Import(w, "import_src", "import_dst") \/ Import(w, "import_dst", "resize")
  \/ Resize(w) \/ Release(w) \/ UnrefWork(w) \/ Encoded(w) \/ UnrefOut(w)

Next ==
  \/ \E w \in Workers : WorkerStep(w)
  \/ OpenFile \/ CloseFile

Spec == Init /\ [][Next]_vars

-----------------------------------------------------------------------------
Places == {"idle", "heap", "map", "buffer", "frame", "unmap", "close", "host",
           "import_src", "import_dst", "resize", "release", "unref_work",
           "encode", "unref_out"}

TypeOK ==
  /\ owner \in [Fds -> Workers \cup {"nobody", "process"}]
  /\ files \subseteq Fds
  /\ pc \in [Workers -> Places] /\ slot \in [Workers -> Slots]
  /\ fd \in [Workers -> Fds \cup {HostFd}]
  /\ buf \in [Workers -> [Slots -> Fds \cup {HostFd, NoBuffer}]]
  /\ failed \in [Workers -> BOOLEAN]
  /\ handles \in [Workers -> 0 .. 2]
  /\ maps \in [Workers -> 0 .. 2 * MaxFrames]
  /\ frames \in [Workers -> 0 .. MaxFrames]

(* The descriptors worker w holds: in a local variable or in a buffer.     *)
Held(w) == ({fd[w]} \cup {buf[w][s] : s \in Slots}) \cap Fds

(* No clean-up closes a descriptor that others have opened: those of the   *)
(* rest of the process stay open until it closes them                      *)
(* (buffer_pool.c:214-219, 351-365).                                       *)
FilesIntact == \A n \in files : owner[n] = "process"

(* The descriptor of a buffer that is in use is the buffer's: nobody else  *)
(* closed it, and no two buffers share it; and a descriptor that no buffer *)
(* holds any more was closed, after every failure (buffer_pool.c:187-232,  *)
(* node_rga.c:296-341).                                                    *)
DescriptorsHeld ==
  \A w \in Workers :
    /\ {n \in Fds : owner[n] = w} = Held(w)
    /\ buf[w]["work"] \in Fds => buf[w]["work"] # buf[w]["out"]

(* A call that returned gave back every buffer and every RGA handle,       *)
(* whichever of its steps failed (node_rga.c:265-268, 331-336).            *)
NothingLeft ==
  \A w \in Workers :
    /\ pc[w] = "idle" => \A s \in Slots : buf[w][s] = NoBuffer
    /\ pc[w] \in {"idle", "encode", "unref_work"} => handles[w] = 0

(* So are the mappings of buffers that are gone (buffer_pool.c:351-373).   *)
MappingsReturned == \A w \in Workers : pc[w] = "idle" => maps[w] = 0
=============================================================================
