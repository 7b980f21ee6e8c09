------------------------------ MODULE PortQueue ------------------------------
(***************************************************************************)
(* The bounded buffer queue behind a session port (lib/port.c) with the    *)
(* reference counts of the buffers that travel through it                  *)
(* (lib/buffer_pool.c).                                                    *)
(*                                                                         *)
(* Every function body of port.c runs under q->lock, so one critical       *)
(* section is one step.  pthread_cond_wait and pthread_cond_timedwait      *)
(* split a pull in two: the caller sleeps, and later takes the lock again. *)
(* Between a wake-up (or a time-out) and that moment other threads run, so *)
(* the two halves are different actions.                                   *)
(***************************************************************************)
EXTENDS Integers, FiniteSets, Sequences

CONSTANTS
  Depth,         \* the queue_depth asked for; 0 or less asks for the default
  DefaultDepth,  \* RKVC_PORT_QUEUE_DEFAULT
  Buffers,       \* buffer addresses; a freed one can be allocated again
  Producers,     \* threads that push
  Consumers,     \* threads that pull
  Kinds,         \* the kinds of time-out the pulls of this system use
  NULL

ASSUME PortAssumption ==
  /\ Depth \in Int
  /\ DefaultDepth \in Nat \ {0}
  /\ NULL \notin Buffers
  /\ Kinds \subseteq {"poll", "timed", "forever"}
  /\ IsFiniteSet(Buffers) /\ IsFiniteSet(Producers) /\ IsFiniteSet(Consumers)

Capacity == IF Depth <= 0 THEN DefaultDepth ELSE Depth
Slots == 0 .. Capacity - 1

VARIABLES
  open,    \* the queue exists: created and not yet destroyed
  items, head, tail, count,    \* struct rkvc_port_queue
  refs,    \* refs[b]: ref_count of buffer b; 0 when it is not allocated
  own,     \* own[p]: the buffer producer p holds a reference to
  st,      \* st[c]: where consumer c is in rkvc_port_queue_pull
  kind,    \* kind[c]: the time-out of c's pull, "poll" outside a pull
  got      \* got[c]: the buffer the last pull handed to c, until it unrefs it

ring == <<items, head, tail, count>>
vars == <<open, items, head, tail, count, refs, own, st, kind, got>>

Sleeping == {c \in Consumers : st[c] = "blocked"}   \* inside pthread_cond_*wait
Woken    == {c \in Consumers : st[c] = "woken"}     \* signalled, lock not yet retaken
Expired  == {c \in Consumers : st[c] = "expired"}   \* timed out, lock not yet retaken
Inside   == Sleeping \cup Woken \cup Expired

Wrap(i) == i % Capacity

(* The n slots from slot h on; those that hold a queued buffer; and the    *)
(* queue read oldest first.                                                *)
Arc(h, n) == {Wrap(h + k) : k \in 0 .. n - 1}
Window   == Arc(head, count)
Contents == [k \in 1 .. count |-> items[Wrap(head + k - 1)]]

(* Who may still touch a buffer: queue slots, producers and consumers,     *)
(* each with a reference of its own.                                       *)
SlotsOf(b) == {i \in Window : items[i] = b}
OwnersOf(b) == {p \in Producers : own[p] = b}
GettersOf(b) == {c \in Consumers : got[c] = b}
HolderCount(b) ==
  Cardinality(SlotsOf(b)) + Cardinality(OwnersOf(b)) + Cardinality(GettersOf(b))

Init ==
  /\ open = TRUE
  /\ items = [i \in Slots |-> NULL]
  /\ head = 0 /\ tail = 0 /\ count = 0
  /\ refs = [b \in Buffers |-> 0]
  /\ own = [p \in Producers |-> NULL]
  /\ st = [c \in Consumers |-> "idle"]
  /\ kind = [c \in Consumers |-> "poll"]
  /\ got = [c \in Consumers |-> NULL]

-----------------------------------------------------------------------------
(* Reference counting: ref and unref are atomic under the buffer's lock.   *)

Ref(b) == refs' = [refs EXCEPT ![b] = @ + 1]
Unref(b) == refs' = [refs EXCEPT ![b] = @ - 1]

(* pthread_cond_signal(&q->not_empty): wakes one sleeper, if there is one. *)
(* POSIX lets a timed wait that is running into its time-out consume a     *)
(* signal that is sent at the same moment, so the one chosen may be a      *)
(* consumer that returns ETIMEDOUT all the same.                           *)
MutSignalOnlyWhenEmpty ==   \* signals only on the empty-to-non-empty edge
  IF count # 0 \/ Sleeping \cup Expired = {}
  THEN UNCHANGED st
  ELSE \E c \in Sleeping \cup Expired :
         st' = IF c \in Sleeping THEN [st EXCEPT ![c] = "woken"] ELSE st

SignalNotEmpty ==
  IF Sleeping \cup Expired = {}
  THEN UNCHANGED st
  ELSE \E c \in Sleeping \cup Expired :
         st' = IF c \in Sleeping THEN [st EXCEPT ![c] = "woken"] ELSE st

-----------------------------------------------------------------------------
(* Producers: allocate a buffer (ref_count 1), push it any number of       *)
(* times, drop the reference.                                              *)

Alloc(p) ==
  /\ own[p] = NULL
  /\ \E b \in Buffers :
       /\ refs[b] = 0
       /\ own' = [own EXCEPT ![p] = b]
       /\ refs' = [refs EXCEPT ![b] = 1]
  /\ UNCHANGED <<open, ring, st, kind, got>>

(* rkvc_port_queue_push with room: the queue takes a reference of its own. *)
MutPushAtNoRef(b) ==   \* stores the pointer without a reference
  /\ items' = [items EXCEPT ![tail] = b]
  /\ tail' = Wrap(tail + 1)
  /\ count' = count + 1
  /\ UNCHANGED <<head, refs>>

MutPushAtHead(b) ==   \* queues at the front
  /\ items' = [items EXCEPT ![Wrap(head + Capacity - 1)] = b]
  /\ head' = Wrap(head + Capacity - 1)
  /\ count' = count + 1
  /\ Ref(b)
  /\ UNCHANGED tail

PushAt(b) ==
  /\ items' = [items EXCEPT ![tail] = b]
  /\ tail' = Wrap(tail + 1)
  /\ count' = count + 1
  /\ Ref(b)
  /\ UNCHANGED head

Push(p) ==
  /\ open /\ own[p] # NULL
  /\ count < Capacity
  /\ PushAt(own[p])
  /\ SignalNotEmpty
  /\ UNCHANGED <<open, own, kind, got>>

(* A full queue answers RKVC_ERR_AGAIN and changes nothing; the caller     *)
(* still owns its reference and drops the buffer (as the session loops     *)
(* do) or tries again.                                                     *)
Drop(p) ==
  /\ own[p] # NULL
  /\ Unref(own[p])
  /\ own' = [own EXCEPT ![p] = NULL]
  /\ UNCHANGED <<open, ring, st, kind, got>>

-----------------------------------------------------------------------------
(* Consumers.                                                              *)

(* Lines 125-131: take the oldest buffer, with the queue's reference.      *)
MutTakeHeadKeepSlot(c) ==   \* forgets to clear the slot
  /\ count > 0
  /\ got' = [got EXCEPT ![c] = items[head]]
  /\ head' = Wrap(head + 1)
  /\ count' = count - 1
  /\ st' = [st EXCEPT ![c] = "holding"]
  /\ kind' = [kind EXCEPT ![c] = "poll"]
  /\ UNCHANGED <<open, items, tail, refs, own>>

TakeHead(c) ==
  /\ count > 0
  /\ got' = [got EXCEPT ![c] = items[head]]
  /\ items' = [items EXCEPT ![head] = NULL]
  /\ head' = Wrap(head + 1)
  /\ count' = count - 1
  /\ st' = [st EXCEPT ![c] = "holding"]
  /\ kind' = [kind EXCEPT ![c] = "poll"]
  /\ UNCHANGED <<open, tail, refs, own>>

Return(c) ==
  /\ st' = [st EXCEPT ![c] = "idle"]
  /\ kind' = [kind EXCEPT ![c] = "poll"]
  /\ UNCHANGED <<open, ring, refs, own, got>>

(* A pull that finds a buffer at once.                                     *)
PullNow(c) ==
  /\ open /\ st[c] = "idle"
  /\ TakeHead(c)

(* A pull that finds the queue empty and may sleep.  With time-out 0 it    *)
(* answers RKVC_ERR_AGAIN instead, which changes nothing.                  *)
PullWait(c) ==
  /\ open /\ st[c] = "idle" /\ count = 0
  /\ \E t \in Kinds \ {"poll"} :
       /\ kind' = [kind EXCEPT ![c] = t]
       /\ st' = [st EXCEPT ![c] = "blocked"]
  /\ UNCHANGED <<open, ring, refs, own, got>>

SpuriousWake(c) ==
  /\ st[c] = "blocked"
  /\ st' = [st EXCEPT ![c] = "woken"]
  /\ UNCHANGED <<open, ring, refs, own, kind, got>>

(* The deadline of a timed wait passes while the caller sleeps.            *)
Expire(c) ==
  /\ st[c] = "blocked" /\ kind[c] = "timed"
  /\ st' = [st EXCEPT ![c] = "expired"]
  /\ UNCHANGED <<open, ring, refs, own, kind, got>>

(* A woken caller has the lock again and tests the loop condition: it      *)
(* takes a buffer, or goes back to sleep with a fresh deadline.            *)
WakeTake(c) ==
  /\ st[c] = "woken"
  /\ TakeHead(c)

WakeSleep(c) ==
  /\ st[c] = "woken" /\ count = 0
  /\ st' = [st EXCEPT ![c] = "blocked"]
  /\ UNCHANGED <<open, ring, refs, own, kind, got>>

(* ETIMEDOUT: RKVC_ERR_AGAIN without a second look at q->count.            *)
MutGiveUpRetry(c) ==   \* treats ETIMEDOUT like any other wake-up
  /\ st[c] = "expired"
  /\ st' = [st EXCEPT ![c] = "woken"]
  /\ UNCHANGED <<open, ring, refs, own, kind, got>>

GiveUp(c) ==
  /\ st[c] = "expired"
  /\ Return(c)

(* The consumer is done with the buffer.                                   *)
Release(c) ==
  /\ st[c] = "holding"
  /\ Unref(got[c])
  /\ got' = [got EXCEPT ![c] = NULL]
  /\ st' = [st EXCEPT ![c] = "idle"]
  /\ UNCHANGED <<open, ring, own, kind>>

-----------------------------------------------------------------------------
(* rkvc_port_queue_destroy: drop every queued reference, then free the     *)
(* queue.  That no thread is inside a pull is the caller's part: the       *)
(* function destroys the lock and the conditions right after.              *)
Destroy ==
  /\ open
  /\ Inside = {}
  /\ refs' = [b \in Buffers |->
                refs[b] - Cardinality(SlotsOf(b))]
  /\ head' = Wrap(head + count)
  /\ count' = 0
  /\ open' = FALSE
  /\ UNCHANGED <<items, tail, own, st, kind, got>>

-----------------------------------------------------------------------------
ProducerStep(p) == Alloc(p) \/ Push(p) \/ Drop(p)

ConsumerStep(c) ==
  \/ PullNow(c) \/ PullWait(c) \/ SpuriousWake(c) \/ Expire(c)
  \/ WakeTake(c) \/ WakeSleep(c) \/ GiveUp(c) \/ Release(c)

Next ==
  \/ \E p \in Producers : ProducerStep(p)
  \/ \E c \in Consumers : ConsumerStep(c)
  \/ Destroy

Spec == Init /\ [][Next]_vars

(* The scheduler runs a thread that can take the lock, the clock runs, and *)
(* a consumer that was handed a buffer gives it back.  Nobody is obliged   *)
(* to push, to pull or to destroy.                                         *)
Fairness ==
  \A c \in Consumers :
    /\ WF_vars(Expire(c))
    /\ WF_vars(WakeTake(c) \/ WakeSleep(c) \/ GiveUp(c))
    /\ WF_vars(Release(c))

FairSpec == Spec /\ Fairness
-----------------------------------------------------------------------------
(* Type invariant.                                                         *)
TypeOK ==
  /\ open \in BOOLEAN
  /\ items \in [Slots -> Buffers \cup {NULL}]
  /\ head \in Slots /\ tail \in Slots /\ count \in 0 .. Capacity
  /\ refs \in [Buffers -> Nat]
  /\ own \in [Producers -> Buffers \cup {NULL}]
  /\ st \in [Consumers -> {"idle", "blocked", "woken", "expired", "holding"}]
  /\ kind \in [Consumers -> {"poll", "timed", "forever"}]
  /\ got \in [Consumers -> Buffers \cup {NULL}]

(* head, tail and count of the ring describe one and the same window, and  *)
(* the slots with a pointer are exactly that window: pull never returns    *)
(* NULL and push never overwrites a queued buffer (port.c:76-78, 125-128). *)
RingConsistent ==
  open => /\ tail = Wrap(head + count)
          /\ \A i \in Slots : (items[i] # NULL) <=> (i \in Window)

(* ref_count is the number of holders, through pushes, pulls, drops and    *)
(* the drain of destroy: no buffer is freed while somebody can reach it,   *)
(* and none outlives its last holder (buffer_pool.c:341-386, port.c:76).   *)
RefsMatchHolders == \A b \in Buffers : refs[b] = HolderCount(b)

(* A wake-up is never lost while it is needed: when buffers are queued and *)
(* a consumer sleeps, every queued buffer has a woken consumer on its way. *)
(* It holds for systems whose pulls do not use finite time-outs; with them *)
(* a consumer that is timing out can swallow the signal (port.c:79, 118).  *)
NoLostWakeup ==
  "timed" \notin Kinds =>
    (count > 0 /\ Sleeping # {} => count <= Cardinality(Woken))

(* What the proofs add to make the invariants inductive: a consumer is in  *)
(* state "holding" exactly when it has a buffer, a destroyed queue is      *)
(* empty and nobody sleeps in it, and finite time-outs occur only where    *)
(* the system uses them.                                                   *)
PullState ==
  /\ \A c \in Consumers : (st[c] = "holding") <=> (got[c] # NULL)
  /\ \A c \in Consumers :
       (kind[c] = "timed" \/ st[c] = "expired") => "timed" \in Kinds

ClosedIsQuiet == ~open => Inside = {} /\ count = 0

IInv ==
  /\ TypeOK /\ RingConsistent /\ PullState /\ ClosedIsQuiet
  /\ RefsMatchHolders

(* The queue implements the abstract bounded FIFO.                         *)
Fifo == INSTANCE BoundedFifo WITH
  Items <- Buffers, Readers <- Consumers, Bound <- Capacity, None <- NULL,
  queue <- Contents, taken <- got, closed <- ~open

RefinesFifo == Fifo!Spec

(* A pull with a finite time-out returns, provided wake-ups cease: the     *)
(* deadline starts anew after every wake-up that finds the queue empty     *)
(* (port.c:115-117), so a caller that is woken for nothing again and again *)
(* is allowed to wait for longer than it asked.                            *)
Wakes(c) == SpuriousWake(c) \/ \E p \in Producers : Push(p)
TimedPullReturns ==
  \A c \in Consumers :
    <>[][~Wakes(c)]_vars =>
      (st[c] = "blocked" /\ kind[c] = "timed" ~> st[c] \in {"idle", "holding"})

(* When producers stop, sleeping consumers and queued buffers do not       *)
(* coexist for ever.                                                       *)
QueuedBufferIsTaken ==
  <>[][\A p \in Producers : ~Push(p)]_vars =>
    (count > 0 /\ Sleeping \cup Woken # {}
       ~> count = 0 \/ Sleeping \cup Woken = {})
=============================================================================
