----------------------------- MODULE BoundedFifo -----------------------------
(***************************************************************************)
(* What a session port promises: a bounded first-in first-out queue of     *)
(* buffers.  A full queue refuses, an accepted item is handed out exactly  *)
(* once and in the order it was accepted, and closing the queue throws     *)
(* away what nobody took.  PortQueue implements this specification.        *)
(***************************************************************************)
EXTENDS Naturals, Sequences

CONSTANTS
  Items,     \* what can be queued
  Readers,   \* who takes items out
  Bound,     \* the most items the queue holds, at least one
  None       \* not in Items: the reader holds nothing

VARIABLES
  queue,     \* accepted and not yet taken, oldest first
  taken,     \* taken[r]: the item reader r was handed and still works on
  closed     \* the queue is gone

fifoVars == <<queue, taken, closed>>

Init ==
  /\ queue = <<>>
  /\ taken = [r \in Readers |-> None]
  /\ closed = FALSE

Put(x) ==
  /\ ~closed
  /\ Len(queue) < Bound
  /\ queue' = Append(queue, x)
  /\ UNCHANGED <<taken, closed>>

Take(r) ==
  /\ ~closed
  /\ taken[r] = None
  /\ queue # <<>>
  /\ taken' = [taken EXCEPT ![r] = Head(queue)]
  /\ queue' = Tail(queue)
  /\ UNCHANGED closed

Finish(r) ==
  /\ taken[r] # None
  /\ taken' = [taken EXCEPT ![r] = None]
  /\ UNCHANGED <<queue, closed>>

Close ==
  /\ ~closed
  /\ closed' = TRUE
  /\ queue' = <<>>
  /\ UNCHANGED taken

Next ==
  \/ \E x \in Items : Put(x)
  \/ \E r \in Readers : Take(r) \/ Finish(r)
  \/ Close

Spec == Init /\ [][Next]_fifoVars
=============================================================================
