# A TLA+ model of the RK3588 video codec library (RKVC)

RKVC is a C library (`lib/`, headers in `include/rkvc/`) that encodes, decodes
and transcodes video with the RK3588's hardware: FFmpeg with its RKMPP codecs,
the SVT-AV1 software encoder and the RGA scaler.  An application describes a
pipeline, creates a *session* for it, and runs the session on a file; other
threads may pull frames or packets from the session's ports and may stop it.
This directory holds a model of the parts with control flow worth checking, TLC
runs on small instances, and proofs that hold for every instance.

All paths below are relative to the repository's root.

## 1. Inventory

| component | code | state it keeps | operations |
|---|---|---|---|
| port queue | `lib/port.c` | ring of buffer pointers, head, tail, count, a lock, two condition variables | create, destroy, push, pull (time-out 0, > 0, < 0) |
| buffers | `lib/buffer_pool.c` | `ref_count`, kind, planes or data, DMA-BUF descriptor | allocate (host, DMA-BUF, bitstream), wrap, ref, unref, CPU/device access brackets |
| session | `lib/session.c` | `running`, `stop_requested`, pointers to the nodes, statistics, three ports | create, start, stop, run_file, port, get_route, get_stats, destroy |
| three loops | `lib/session.c` | local: the frame, its host copy, its scaled copy, end-of-stream flag, error code | `transcode_loop`, `encode_file_loop`, `decode_loop`, helpers `encode_one_frame`, `drain_encoder_packets` |
| codec nodes | `lib/node_mpp_dec.c`, `node_mpp_enc.c`, `node_svt_enc.c` | codec context, draining flags, frame counter | open, send, receive, drain, close |
| demuxer, muxer | `lib/node_demux.c`, `node_mux.c` | format context, time bases | open, read / write packet, close (trailer) |
| scaler, host copy | `lib/node_rga.c`, `node_dma_to_host.c` | scale context: target size, one target buffer | scale a buffer, scale with a context, copy to host |
| statistics | `lib/scheduler.c` | counters and averages under a lock | frame in, tick, drop |
| router, templates | `lib/router.c`, `pipeline.c` | none | pure functions of the description |
| initialisation | `lib/init.c` | a once flag | init, permission check, capability query |
| offline scaling | `lib/node_post_upscale.c`, `tools/rkvc_yuv_upscale.c` | the tool: two blocks of memory, their import handles | scale a buffer and convert it back; scale raw files |
| utilities | `lib/utils.c` | shared hardware device context; fault injection counters | allocation, probe, error mapping, validity |
| tools, examples, tests, scripts | `tools/`, `examples/`, `tests/`, `scripts/`, `bench/` | - | callers of the library |

**How they interact.**  `rkvc_session_run_file` opens the nodes of the
template and calls one of three loops *in the caller's thread*.  A loop calls
its nodes one after the other: demuxer -> decoder -> (host copy, scaler) ->
encoder -> muxer.  Results also go to the port `output`, from which an
application thread may pull; the push never waits, and its result is ignored.
The codecs have threads of their own behind send/receive.  The only state that
crosses threads is the port queue, the reference counts, the statistics, and
the flags `running` and `stop_requested`.

**What is hard in it.**

* Wake-ups in the port queue: one `pthread_cond_signal` per push, pulls with
  and without time-outs, spurious wake-ups, destroy.
* Reference counts held by producers, queue slots, consumers, loops and the
  scale context at the same time.
* The send/receive protocol of the codecs: answers AGAIN and EOF, refused input
  that must be sent again (or must not), the flush at the end, packets without
  data; a wrong reaction loses frames, repeats frames or spins.
* Errors in the middle of a round: everything must be released, some errors end
  the run and some only the frame.
* Stopping from another thread at any time, starting again, opens that fail
  half-way.
* Decoder surfaces are few; whoever keeps a frame stalls the decoder.
* A frame passes through copies, conversions, imports and CPU or device access
  brackets; each of these may fail, and each early return has its own clean-up.
* Time stamps come, get lost on the way, and must still increase at the encoder.
* Device permissions are checked before RKMPP opens the devices itself.

**What makes each component correct.**

* *Port queue*: a bounded FIFO with one reference per slot; no sleeping consumer
  beside a queued buffer; timed pulls return.
* *Session*: loops run only with the nodes they use; destroy frees everything
  that was opened; OK means that the file was worked on.
* *Loops*: packets are written in order, without holes and duplicates; what the
  decoder took is written; failures are reported; references are given back; the
  run ends.
* *Buffers*: freed exactly when the last reference goes.
* *Scaler*: what it hands out keeps its picture as long as somebody refers to it.
* *Nodes*: nothing of a frame is left after its round, on any path; its time
  stamp goes with it; no freed memory is read.
* *Routing*: container, encoder and decoder agree about codec and size; the
  permission check predicts what RKMPP will find.

`PROJECT.json` lists every component with its status and, under `hazards`,
each place where this is at risk.

## 2. Modules

```
BoundedFifo            what a port promises (abstract)
  ^ implemented by
PortQueue              port.c with reference counts
PortQueueProofs        its theorems
FileRun                what the three loops share; the port is the bounded FIFO
  ^ EXTENDS      ^ EXTENDS
EncodeStage      DecodeStage
  ^    ^          ^      ^
  |    +Transcode-+      |
  |        |             |
EncodeFile |          DecodeFile
  |        |          DecodeFileProofs   its theorems
  +-RunFile+           the two encoding templates of run_file (INSTANCE)
RunFileProofs          its theorems
Transfer               what a run promises about its frames (abstract);
                       RunFile and DecodeFile implement it
TransferProofs         what every transfer delivers
SessionLifecycle       create / start / run / stop / destroy
SessionLifecycleProofs its theorems
  ^ EXTENDS, implements
SessionSetup           descriptions, router, encoder size, permission check
SessionSetupProofs     its theorems, and the refinement
ScaleBuffer            rkvc_rga_scale_buffer and the DMA-BUF buffers it makes
ScaleBufferProofs      its theorems
FrameMemory            buffers, time stamps, handles and blocks of one frame
  ^ EXTENDS     ^ EXTENDS
FrameNodes    ScaleNodes       the codec nodes; the users of the scaler
  ^-- FrameRound --^           a frame's way through all of them
FrameRoundProofs       its theorems
MC*                    instances for TLC, with the .cfg files
```

Names that begin with `Mut` are wrong variants of the definition after them;
no specification uses them.  `PROJECT.json` names, for each property, one that
breaks it.

### PortQueue, BoundedFifo

One action per critical section of `port.c`.  Every function holds `q->lock`
from its first to its last access, so a push is one step.  A pull that finds
the queue empty is two steps or more: `PullWait` (the caller is inside
`pthread_cond_wait`), then `WakeTake`, `WakeSleep` or `GiveUp` when it has the
lock again.  In between, `st[c]` says whether the consumer sleeps, was
signalled, or ran into its time-out.  `SignalNotEmpty` is one
`pthread_cond_signal`: it reaches any one sleeper, and, as POSIX allows, it may
be consumed by a consumer that is already timing out.  `SpuriousWake` may
happen at any time.  `kind[c]` is the time-out of the pull: `poll` (0),
`timed` (> 0), `forever` (< 0).

`refs`, `own` and `got` are the reference counts and who holds references: the
producer that allocated the buffer, the slots of the ring, the consumer that
pulled it.  `Drop` is the producer's unref, also after a push that answered
AGAIN, which by itself changes nothing.  `Destroy` unrefs the queued buffers.
It needs that no consumer is inside a pull: destroying a condition variable in
use is undefined behaviour, and avoiding it is the application's duty.

`BoundedFifo` is the promise: put at the end if there is room, take the oldest,
close.  `Fifo == INSTANCE BoundedFifo WITH queue <- Contents, ...` reads the
ring from `head` on.

### FileRun, EncodeStage, DecodeStage

The loops are sequential programs among concurrent codecs, so `pc` says where
the loop thread is, one action is the code between two calls whose outcome
depends on somebody else, and the codecs work in actions of their own.  Frames
are the numbers 1 .. `Last`; a packet has its frame's number.

A codec is what send and receive show of it: `pending` (taken, not worked
off), `ready` (output nobody read), `settled` (the last receive found nothing,
after which the next send must be accepted), `eos`.  This contract is FFmpeg's
and SVT-AV1's; it is external to the repository.  SVT-AV1 has a bounded input
queue and refuses when it is full (`EncQueue`), and can return packets without
data (number 0), which `node_svt_enc.c` answers with AGAIN.

`EncodeStage` is `encode_one_frame` (`SendFrame`), `drain_encoder_packets`
(`DrainOne` per packet; `site` is its call site), the flush (`FlushEncoder`)
and the final loop (`TailOne`). A receive can fail in two ways
(`ReceiveError`): the encoder gives nothing, or it has given a packet for which
no buffer can be allocated, and the packet is lost. `fetched` counts the
packets with data that left the encoder, `framesOut` those that got as far as
the muxer. The flush is a call like any other: `answer` says whether the encoder
was told, refused because it was full, or failed. Both nodes remember in
`flushed` that they told it, whatever it answered, and nobody looks at the
answer. `DecodeStage` is the head of a round: read a packet, send it, or drain
the decoder at the end of the file.

Any call named in `Faults` may fail at any time.  `written` is what the muxer
accepted, `missed` where a write failed, `sent` which packets the decoder took;
`written`, `missed`, `sent`, `pulled` and `skipped` are history variables.

### Transcode, EncodeFile, RunFile, DecodeFile

`Transcode` joins both stages with `session_downscale_for_encode`.
`EncodeFile` reads raw frames instead of decoding.  `RunFile` is
`rkvc_session_run_file` for the two: it instantiates both modules on one set of
variables, and `template` chooses.

`DecodeFile` follows the reference counts: `frame`, `host` and `display` of
`decode_loop` can be one, two or three buffers; the scale context has one target
buffer, and `target` says which frame's picture is in it.  A DMA-BUF frame
occupies a decoder surface until its last reference goes.  `mode` is the kind of
session: with DMA-BUF frames or not, with post-upscale or not.

### Transfer

What the application may rely on, whichever loop runs: frames are accepted from
a source in rising order (`Accept`), the delivery of the next one, to the file
unless that fails and to the port unless that is full, is over (`Deliver`), and
the run ends, with success only when nothing accepted is left (`Succeed`) or
without (`Fail`).  `Delivered` says what follows for file and port at every
moment.  `RunFile` and `DecodeFile` each instantiate it as `Promise`.  For the
encoding loops the accepted frames are those counted in `frames_in`, and `done`
is `fetched`: decoder, retries, packets without data and refusals disappear, and
a packet that an encoder's node loses is a delivery that failed.
For `decode_loop` the accepted frames are those the loop received, and a round
is one delivery.  Two places in the code weaken the promise, and the mappings
name them: `encode_file_loop` counts a frame before it scales it, and ends with
RKVC_OK when that fails (`lossy`), and the port of a session with post-upscale
shows pictures that change (finding 2; `shown` stays empty).  `RunFile` also
maps its port and its consumer to `BoundedFifo` (`PortIsFifo`).

### SessionLifecycle, SessionSetup

The owner's calls and `rkvc_session_stop` from another thread.  `ptr[n]` says
that the session's pointer to node `n` is set, `live[n]` how many such nodes
exist, so that a node that is lost shows as `live` without `ptr`.  The nodes of
a template are opened one action at a time (`OpenNode`, `OpenFails`), so that a
stop can come between any two.  The loops are seen from outside: they need
their nodes, may create the scaler, and return OK or an error.

`SessionSetup` adds what is decided before a node is opened: the application's
description, which starts from the defaults of a template (`FromTemplate`), the
route (`RouteCodec`, `RouteBackend`), the size the encoder is opened for
(`EncSize`), and the permission check (`CheckDevices`) in front of the two RKMPP
nodes.  `allowed` is the set of device files the process may use;
`ChangePermissions` may come between the check and the open, which then fails
in `avcodec_open2` (`MppStarts`, external).  `opened` remembers with which codec
and size each node was opened.  Every step of it is a step of
`SessionLifecycle` or changes nothing there.

### ScaleBuffer

Several sessions scale frames in one process and share its descriptor numbers:
`owner[n]` says who opened number `n`, and a closed number may be given to
anybody at once.  A worker goes through `rkvc_buffer_pool_alloc_video`
(`HeapAlloc`, `Map`, `NewBuffer`, `NewFrame`, and on failure `Unmap`,
`CloseFd`, then `HostAlloc` as the way out), first for the copy that a frame
with padded lines needs (slot `work`), then for the target (slot `out`); it
imports both into the RGA driver (`Import`), scales, releases what it imported,
and drops its buffers.  `Free` is what `buffer_free` does: it closes the
descriptor of a DMA-BUF buffer that has a frame.  `fd[w]` is the descriptor
while no complete buffer has it, `maps` counts mappings, `handles` the RGA
handles of the call.

### FrameMemory, FrameNodes, ScaleNodes, FrameRound

The loops above see a node as one call.  These modules look into the calls, one
action per library call that may fail, for one thread.  `buf[b]` is a buffer,
named for its role (the frame, its host copy, its scaled copy, the contiguous
copy for RGA, the context's target, a converted result), with its reference
count, its memory, and its two time stamps: the buffer's own and that of the
AVFrame in it, which the two encoder nodes read differently.  `live[t]` counts
what is not a buffer: a decoded AVFrame that belongs to no buffer yet, import
handles, contexts, blocks of memory.  `access` is the set of brackets that are
open on the context's target.  `badRead` collects what was read, pixels or
stamp, of which freed buffer, by either encoder's node or by `decode_loop`.

`FrameNodes` is `rkvc_mpp_dec_receive_frame` (`ReceiveFrame`, then `Unpack`
with its cases: wrap a DMA-BUF frame, transfer it to host memory, convert it,
wrap it), `rkvc_dma_to_host` (`DmaToHost`), and the two encoders' send
functions (`ToEncoder`, `MppSend`, `SvtCopy`, `SvtSend`). `clock` is the true
time of the frame, and `got.told` the stamp it came with; the stream may leave
stamps out. `ScaleNodes` is the scale
context (`ContextCreate`, `ProcessCopy`, `ProcessImport`, `ProcessBegin`,
`ProcessResize`, `ProcessEnd`), the virtual-address path with its fallback, the
context of the upscale tool, and `rkvc_post_upscale_buffer`. `FrameRound`
strings them together as the three loops, `rkvc_upscale_nv12`, the two loops of
the tool and an application around `rkvc_post_upscale_buffer` do; `kind`
chooses.

## 3. Runs

Each run finishes within two minutes, most within seconds.

| run | system | shows |
|---|---|---|
| `port_untimed` | 2 slots, 3 buffers, 2 producers, 2 consumers, pulls `poll` and `forever` | `RingConsistent`, `RefsMatchHolders`, `NoLostWakeup`, and with fairness `QueuedBufferIsTaken` |
| `port_timed` | default depth (3 slots), 2 buffers, 2 + 2 threads, all pulls | `RefinesFifo`; `TimedPullReturns` |
| `run_file` | both encoding templates, 4 packets or raw frames, both encoders, encoder queue of 2, a packet without data, all failures (a lost packet and a failed flush among them), refusals, a stop at any time | `IsTransfer`, `PortInOrder`, `StatsAgree`, `NoHoles`, `NothingHeld`, `WriteErrorReported`, `AllSentIsWritten`, `Progress`, `Terminates` |
| `decode` | 3 packets, all four kinds of session, one decoder surface, all failures | `RefsBalanced`, `IsTransfer`, `AllSentIsWritten`, `Progress`, `Terminates` |
| `frame_round` | all three loops, the upscale functions and the tool, every kind of frame and memory, every call may fail, time stamps up to 3 | `NothingLeft`, `NoFreedRead`, `StampsIncrease`, `PtsKept`, `ReadsBetweenWrites` |
| `session_once` | 8 descriptions, 3 files, 4 sets of permissions that change at any time; one start, every open may fail, a stop at any time | `DestroyFreesAll`, `LoopHasNodes`, `OkRunWorked`, `CodecsAgree`, `SizesAgree`, `CheckPredictsMpp` |
| `scale_buffer` | two workers and other code on four descriptors, one frame each, everything may fail | `FilesIntact`, `DescriptorsHeld`, `NothingLeft` |
| `lostwrite` | a full disk | violated: `EveryWriteReported` (finding 1) |
| `decode_alias` | post-upscale with a consumer on the port | violated: `PortShowsFrames` (finding 2) |
| `decode_leak` | post-upscale of frames that have the size already | violated: `RefsBalanced` (finding 3) |
| `session_restart` | two starts | violated: `DestroyFreesAll` (finding 4) |
| `scale_mappings` | one scaled frame, no failure | violated: `MappingsReturned` (finding 5) |

**Bounds and why they are enough.** Two slots and three buffers let the ring
wrap around, be full with a buffer in hand, and hold one buffer twice; two
producers and two consumers are the least at which a signal can go to the wrong
thread. The port's behaviour depends on threads only through who sleeps, and
the theorems of section 4 cover all sizes. Three or four frames are enough for
one in the decoder, one in the loop and one in the encoder or at the muxer
while a refusal is repeated. An encoder queue of two makes both the "full,
drain, full again" and the "one free" case occur. `MaxBlanks` bounds SVT-AV1's
packets without data: with infinitely many, no run need end. `PortDepth` 2 lets
the consumer be late, and more than two frames let pushes be refused. One
decoder surface is the tightest case: a frame that is kept for one step too
long stops the decoder for ever. `MaxStarts` is 1 for what holds and 2 for what
does not. In `scale_buffer` a call holds at most two descriptors and opens a
third, the heap device, for a moment; with four numbers the other worker and
other code can take one between two steps of a clean-up, and with two calls and
other code can also find none; the calls of a worker leave
nothing to the next but what `NothingLeft` and `DescriptorsHeld` look at, so
one each is enough. In `frame_round`, `MaxStamp` bounds time, and with it the
number of frames: four stamps (0 to 3) give up to four frames, of which any may
have lost its stamp, and a gap in time besides; nothing but the stamps, the
scale context and what was leaked goes from one frame to the next. The eight
descriptions of `session_once` contain every template, policy and codec choice,
both sides of the rate limit and scaled sizes that are odd before they are
rounded; the theorems cover all descriptions.

**Fairness.** `WF` on the loop thread (the scheduler runs a thread that can
run), on the codecs' threads (they finish what they hold; `DecoderWorks` needs
a free surface), on consumers that were woken or whose time-out passed, and on
consumers that hold a buffer. A call that may fail is never obliged to: the
loop's fairness is on `Succeeds(LoopStep)`, the steps that do not end the run
with an error, so `Terminates` says that the run ends even if nothing ever
fails. It excepts one case, `Untold`: an encoder whose flush failed, or an
SVT-AV1 that refused it; RKMPP's refusal is no exception, and the proofs show
that it never happens (`EncoderTold`). `Progress` is what of this needs no
fairness: each step uses up `Work`, a count of the steps that packets, frames,
queued items and requests can still cause, and a loop waits only for what can
come. Two steps may leave `Work` as it was: the retry of a frame that SVT-AV1
refuses, a busy wait for the encoder's threads (`lib/session.c:443-451`), and
the final loop's question to an encoder that was not told the end. Nothing
obliges anybody to push, to pull, to stop or to destroy. `QueuedBufferIsTaken`
and `TimedPullReturns` therefore speak of behaviours in which pushes (and
spurious wake-ups, which restart the deadline at `lib/port.c:115`) cease.

## 4. Proofs

The proofs are in eight modules.  Besides the invariants of the runs they show
four refinements: the port queue is a bounded FIFO (`FifoRefinement`), the
encoding loops use their port as one (`RunPort`), a session with its description
and permissions is a session of the life-cycle model
(`SetupImplementsLifecycle`), and the runs of all three loops are transfers
(`RunIsTransfer`, `DecodeIsTransfer`).

`PortQueueProofs` proves, for every capacity and all finite sets of buffers,
producers and consumers (`PortAssumption`):

* `Invariance`: `Spec => []IInv`;
* `TypeCorrect`, `RingCorrect`, `RefsCorrect`: the invariants of run
  `port_untimed`;
* `WakeupCorrect`: `NoLostWakeup`;
* `FifoRefinement`: `Spec => RefinesFifo`, the refinement of run `port_timed`.

`RingConsistent` alone is not inductive: a push into the window needs that the
window never covers all of a ring with room, which is arithmetic modulo the
capacity (lemmas about `Wrap` and `Arc`), and destroy needs that a closed queue
is empty and nobody sleeps in it.  So `IInv` adds `PullState` (a consumer holds
a buffer exactly in state `holding`; time-outs occur only where the system has
them) and `ClosedIsQuiet`.  For `RefsMatchHolders` each action changes one of
the three sets of holders by one element, or moves an element between two of
them; lemmas about cardinality say so once.  `NoLostWakeup` is inductive with
`IInv`: a push wakes one sleeper for its buffer, and a pull that takes a buffer
either was woken for it or leaves fewer buffers to take.

`RunFileProofs` proves every invariant of run `run_file`, for files of any
length, every port and encoder queue, any number of packets without data, both
templates and encoders, and every set of faults (`RunTypes`, `MuxOrder`,
`PortOrder`, `StatsHold`, `WrittenWithoutHoles`, `NothingLeftHeld`,
`WriteErrorsReported`, `NothingLost`). The idea is one *line* of frames:
`Line(k)` is the k-th frame that the encoding half gets, the k-th packet the
decoder took or the k-th raw frame. Decoder, loop, encoder and what was fetched
from it are adjacent pieces of the line, and `framesIn` and `fetched` say where
the pieces begin: `DecLine` for the decoder, `EncLine` for the encoder and the
frame in the loop's hands, `OutInv` for file and port, which hold a part of
what was fetched, and all of it where no write failed and no packet was lost
(`framesOut = fetched`). Packets without data make positions in the encoder's
output differ from positions in the line, so `EncLine` carries a rank function
that counts the packets with data. `Flags` holds what order alone does not
tell: RKMPP never refuses, neither a frame nor the flush, because the loop
reads until it finds nothing; and a run that goes on after a packet was lost is
a transcoding run with SVT-AV1. `NextCases` states each step of the two
instances once in terms of `RunFile`'s variables.

From the same invariant follow three results about the steps.

* `RunIsTransfer`: `FairSpec => IsTransfer`, the refinement of `Transfer`.  Each
  step of the encoder, the loops, the codecs and the application is a step of
  `Transfer` or changes nothing in it.  The line tells which frame a packet is
  (`LineHead`), so a packet put out or lost is the next accepted one; `LineInv`
  at the moment the encoder is empty gives `Succeed`.  With
  `TransferDelivers`, proved for `Transfer` alone in `TransferProofs`, this gives
  `RunDelivers`: order, no duplicates and no holes at every moment, not only
  when the run has ended.
* `RunPort`: `FairSpec => PortIsFifo`.  The loops' short model of the port, a
  sequence, is used only as a `BoundedFifo`, which is what `FifoRefinement`
  proves `PortQueue` to be; so the two models fit together.  The consumer who
  took the n-th item counts as the n-th reader; that there are no more readers
  than frames follows from `RunDelivers`.
* `RunProgress`: `FairSpec => Progress`.  `Work` is a weighted sum, and a step
  moves its frame one stage on, where it weighs less; the lemmas about `Feeding`,
  `Coding` and `StepsFrom` give each part's change by itself.  A lost packet
  weighs what a written one does.
* `EncoderTold`: when the final loop starts, the encoder was told the end of its
  input, or the flush failed, or it was an SVT-AV1 and refused.  So an answer of
  RKMPP, which the code ignores, can only be a failure, and the final loop waits
  for what does not come in the two remaining cases only.

`DecodeFileProofs` proves the invariants of run `decode`, for files of any
length, every port, number of surfaces, kind of session and set of faults
(`DecodeTypes`, `RefsBalance`, `WriteOrder`, `ShowOrder`, `NothingDropped`).
`DecodeTypes` and `RefsBalance` have the premise `SameSize = FALSE`; finding 3
shows that it cannot be dropped. `RefsInv` is the balance at *every* place of
the round: a count is what the port, the scaler and the loop's three variables
refer to, each buffer once for `display` only where it differs from `host`. It
is inductive only with `RoundInv` (which variable holds what, where), and with
an argument from order: a new frame and a new host copy start with the count
one, so the port must not hold them any more, which is so because everything in
the port is `Past`, older than the frame at hand and everything in the decoder.
`AccountInv` says where each packet the decoder took has gone.

`DecodeIsTransfer` needs more than `AccountInv`, which speaks of sets:
`LineInv`, proved inductive on top of `IInv`, says that the packets taken are
the frames received, then those ready, then those pending, as sequences.  What
the port shows is `ShownOf` its numbers, where a host copy counts as its frame
(`OutIsShown`).  `DecodeDelivers` is the consequence, as above.
`DecodeProgress` says that `Work` falls with *every* step and that the loop asks
the decoder only while it can answer or work.  For the second part a frame that
neither the port nor the loop refers to must hold no surface (`Unheld`,
`SurfacesFree`), which is the balance of references again, and so has the
premise `SameSize = FALSE` again: with finding 3 the loop does wait for ever.

`FrameRoundProofs` proves all six invariants of run `frame_round` for streams
of any length (`StampAssumption`): `FrameTypes`, `NothingIsLeft`, `FreedReads`,
`StampsInOrder`, `PtsCorrect`, `BracketsCorrect`. None is inductive alone,
since each speaks of a few places only, while the failures in between decide.
`PlaceInv` says where each kind of use can be, `HandInv` and `MemoryInv` which
buffers are then in hand and what their memory is, and `RefsInv` that every
reference has a holder, counted place by place; `LiveInv` does so for handles,
blocks and contexts. `TimeInv` follows both stamps of every buffer, the buffer's
own, which every copy and scaling takes over, and the AVFrame's, which a
down-scaled frame does not have; `PtsKept` is what each reader finds of them.
For the
order of the stamps `StampInv` adds that the number an encoder node would give
next is above all it gave and, with RKMPP, not ahead of the clock, so a frame's
own stamp never falls behind it; with SVT-AV1 this needs all frames stamped or
none.

`SessionLifecycleProofs` proves, for all templates, encoders and faults
(`LifecycleAssumption`):

* `SessionTypeCorrect` and `LoopNodesCorrect` for any number of starts;
* `DestroyCorrect` (`DestroyFreesAll`) and `OkRunCorrect` (`OkRunWorked`) for
  sessions that are started once, the premise `MaxStarts = 1`; finding 4 and
  section 5 show that it cannot be dropped.

Its `IInv` relates the list of nodes still to be opened to the pointers: during
a start each node of the template is open or on the list, each at most once,
and a running session or a loop has all of them.  `OnceInv` adds that no pointer
is lost and where a stop request nobody made can come from.

`SessionSetupProofs` proves, for all descriptions, files and sets of permissions
(`SetupAssumption`):

* `SetupImplementsLifecycle`: `SetupSpec => Spec`, so that the theorems about
  `SessionLifecycle` hold for sessions with descriptions and permissions;
* `CodecsCorrect`, `SizesCorrect`, `CheckCorrect`: the three invariants of run
  `session_once` that are `SessionSetup`'s own.

`ChoiceInv` says that every node whose pointer is set was opened as the
description and the file say, and that a decoder is open only for a codec that
RKMPP decodes; `LoopHasNodes` gives the rest.

`ScaleBufferProofs` proves all four invariants of run `scale_buffer` for any
number of sessions and frames and any finite set of descriptors
(`ScaleAssumption`): `ScaleTypeCorrect`, `FilesCorrect`, `DescriptorsCorrect`,
`NothingLeftCorrect`.  That a worker owns exactly what it holds (`Own`) is not
inductive by itself: closing a descriptor gives it up once, so nothing else of
the worker's may have the same number, which in turn needs to know which of the
two buffers exist at which place (`Stage`).  What a step does to one worker
leaves the others alone (`Others`), so `Combine` reduces each action to its own
worker.

Out of the provers' reach, and checked by TLC only: liveness
(`QueuedBufferIsTaken`, `TimedPullReturns`, `Terminates`).  Of `Terminates` the
part that needs no fairness is proved: `Work` is a natural number that no step
raises, and no loop waits for what cannot come.  What remains is that a thread
that can run does run, and that SVT-AV1's threads end the busy wait.  Whether a
run ends whose encoder was not told is not claimed: it does not (section 5).

## 5. What does not hold

Five runs end in a violation, each a place where the code does something else
than its documentation says (`findings` in `PROJECT.json`):

1. **Write errors at the end are ignored** (`lib/session.c:523`, `:746`).  The
   final loop drops the result of `rkvc_mux_write_packet`; a truncated file is
   reported as RKVC_OK.
2. **Upscaled frames on the port share one buffer** (`lib/session.c:611`,
   `lib/node_rga.c:756`).  The next frame overwrites what the consumer has not
   read.
3. **A frame that needs no scaling leaks** (`lib/session.c:621`,
   `lib/node_rga.c:706-708`), and with it its decoder surface.
4. **A second start loses the nodes of the first** (`lib/session.c:174`).
5. **DMA-BUF buffers are never unmapped** (`lib/buffer_pool.c:351`): the mapping
   made at line 193 is kept by nobody, so the memory of every down-scaled frame
   stays with the process.

Further behaviour worth knowing, which the models contain:

* A packet that the decoder answers with AGAIN is dropped
  (`lib/session.c:472`; in the model `sent` misses it), although
  `docs/release/USAGE.md:121` asks for a retry or a drain.  `AllSentIsWritten`
  says that nothing is lost *after* the decoder took it.
* With SVT-AV1 a failed write is also ignored when it happens while the loop
  waits for the decoder (`lib/session.c:480-482`).  Therefore
  `WriteErrorReported` speaks of RKMPP only; without that restriction run
  `run_file` violates it.
* A packet is lost when no buffer can be allocated for it: both encoder nodes
  have taken it from the encoder by then (`lib/node_svt_enc.c:254-267`,
  `lib/node_mpp_enc.c:164-190`).  The receive fails, and so does the run, except
  where SVT-AV1 is emptied while the loop waits for the decoder: that error is
  ignored (`lib/session.c:480-482`), and the run returns RKVC_OK with a hole in
  the file and `frames_out` below `frames_in`.  `StatsAgree`, `NoHoles` and
  `AllSentIsWritten` say that this can happen in transcoding runs with SVT-AV1
  only, and what holds of them in spite of it.
* The answer to the encoder's flush is ignored (`lib/session.c:506-509`,
  `:729-732`), and both nodes count as flushed whatever it was
  (`lib/node_mpp_enc.c:209-210`, `lib/node_svt_enc.c:290-292`).  If SVT-AV1 was
  full and refused, or the call failed, the final loop never sees an end of
  stream: RKMPP's node answers AGAIN for ever, SVT-AV1's waits inside
  `svt_av1_enc_get_packet`.  `Terminates` and `Progress` except this case
  (`Untold`) and no other.  A failing flush of RKMPP is in part more than
  FFmpeg does, whose `avcodec_send_frame(NULL)` refuses only while a frame is
  buffered; the model lets it fail like any call.
* `encode_file_loop` turns failures of allocation and scaling into the end of
  the input and returns OK (`lib/session.c:690-712`), and `decode_loop` forgets
  a failed round (`lib/session.c:594-625`, `skipped` in the model).
* `stop_requested` is never reset: a second `run_file` returns OK without
  working (`lib/session.c:338`).  With `MaxStarts = 2` and no faults,
  `OkRunWorked` is violated.
* `rkvc_session_create` succeeds even if a port has no queue
  (`lib/session.c:309-311`), and `running` is set over a stop that came during
  the start (`lib/session.c:329`).
* With finite time-outs a signal can be lost to a consumer that is giving up
  (`lib/port.c:118`): it returns AGAIN without looking at the queue again, so
  another one sleeps beside a queued buffer.  `NoLostWakeup` excludes such
  systems.
* `rkvc_svt_enc_send_frame` releases the host copy and then reads its time stamp
  (`lib/node_svt_enc.c:218-223`); `NoFreedRead` exempts this read of this buffer
  and nothing else of SVT-AV1's or RKMPP's.
* A conversion that fails early forgets the decoded frame
  (`lib/node_mpp_dec.c:141-161`), and of two imports of plain memory a single
  success is forgotten (`lib/node_rga.c:213-217`, `559-562`); in
  `rkvc_upscale_nv12` the fallback then answers OK.  `NothingLeft` of
  `FrameRound` exempts these two.
* A scaling that fails leaves the device's write access to the target open until
  the next one ends (`lib/node_rga.c:744-752`).  No reader is inside it
  (`ReadsBetweenWrites`).
* A DMA-BUF frame that is transferred to host memory loses its time stamp
  (`lib/node_mpp_dec.c:213-225`).  RKMPP's node reads the stamp of the AVFrame
  (`lib/node_mpp_enc.c:152`), which `rkvc_rga_scale_buffer` never sets
  (`lib/node_rga.c:339` sets the buffer's, as does `lib/session.c:60`): it
  numbers every down-scaled frame anew, from 0 in steps of 1, whatever stamp the
  frame came with.  `PtsKept` says so, and that the stamp is lost nowhere else.
  SVT-AV1's own numbers do not take the stamps
  of other frames into account (`lib/node_svt_enc.c:223`), so a stream of which
  only some frames have stamps can come out of order; `StampsIncrease` says so
  in its premise.
* The router compares `fps_num` alone with 50 (`lib/router.c:87-88`), where
  `docs/architecture.md:73` speaks of 50 frames per second: 30000/1001 counts as
  a high rate.
* A file in a codec that RKMPP does not decode is opened with the route's codec
  (`lib/node_mpp_dec.c:43-53`); FFmpeg refuses it.
* Without scaling nothing compares the description's size with the file's; the
  second premise of `SizesAgree` says what the application has to see to.
* If `av_image_fill_arrays` failed after `av_image_get_buffer_size` had
  succeeded, the descriptor would be closed twice
  (`lib/buffer_pool.c:229-231`).  Both check the same, so the model leaves the
  path out.
* The muxer writes its trailer on paths where no header was written
  (`lib/node_mux.c:105-111`); FFmpeg's muxer is not modelled.

## 6. Not modelled

* Planes, strides and pixels.  Sizes occur in `SessionSetup` only, within what
  `rkvc_query_caps` names, so that `width * height` in the router does not
  overflow.
* Codec parameters and rate control; the rescaling of time stamps by FFmpeg.
* The CPU's reads of a mapped scaler output outside brackets
  (`lib/node_rga.c:404`, `:493`): only the context's shared target has its
  brackets modelled.
* In `FrameRound`, a session whose frames have the scaler's size already; that
  passage is in `DecodeFile` (`SameSize`).
* The time averages of the statistics, and the copy `get_stats` takes while a
  loop writes them without the lock (a torn read would be a wrong number, which
  nothing else depends on).
* Probe, error mapping, validity tables, allocation wrappers and the fault
  counters of the tests: stateless, or not part of a normal build's behaviour.
  The shared hardware context and the once-only initialisation: made once under
  a lock and kept.  `rkvc_query_caps`: repeats the permission check.
* FFmpeg, RKMPP, librga and SVT-AV1, beyond the contract their callers rely on.
* Answers that FFmpeg's contract rules out: an AGAIN of the decoder after it was
  drained, with which `decode_loop` would end (`lib/session.c:573-574`).  The
  result of the decoder's own drain is ignored as well
  (`lib/session.c:463-466`); FFmpeg notes the end of the input before anything
  in that call can fail, so in the model the drain always works.
* RKMPP decoders that are not registered in the FFmpeg at hand: the node then
  tries another one (`lib/node_mpp_dec.c:42-51`); `DecoderCodec` assumes that
  every codec it names has its RKMPP decoder.
* The other tools, the examples, tests, scripts and benchmarks.
* Data races on `running` and `stop_requested` (plain ints written and read by
  two threads): the models read and write them atomically, in the order of the
  code.
* `PROJECT.json` lists four hazards without a property, each with its reason:
  the trailer without header and destroying a queue in use concern code outside
  the repository; torn statistics have no effect on control; that later runs of
  a stopped session do nothing takes a second run, which `OkRunWorked` leaves
  out (section 5).

## 7. What could come next

1. The shared scale target joined with the port: how long a consumer of
   upscaled frames may take before it sees the next picture (finding 2).
2. The snapshot of `get_stats` field by field.
3. The bitstream buffers of the encoders' packets, from `av_packet_unref` to the
   consumer of the port.
