---------------------------- MODULE BoundedFifo ----------------------------
(***************************************************************************)
(* What Middleware/ring_buffer.h promises of a ring_buf_t: a queue of at   *)
(* most Capacity bytes.  A byte that is accepted is delivered once, in the *)
(* order of acceptance, unless rb_flush discards it.                       *)
(***************************************************************************)
EXTENDS Naturals, Sequences

CONSTANTS
  Byte,      (* the values a byte can take                     *)
  Capacity   (* the most bytes the queue can hold at a time    *)

VARIABLES
  in,        (* the byte of the last rb_push that was not refused *)
  offered,   (* that rb_push has not returned yet                *)
  queue,     (* bytes accepted and neither delivered nor flushed *)
  out        (* the byte the last successful rb_pop returned     *)

vars == <<in, offered, queue, out>>

Init ==
  /\ in \in Byte
  /\ offered = FALSE
  /\ queue = <<>>
  /\ out \in Byte

\* rb_push(b) is called and finds room.
Offer(b) ==
  /\ ~offered
  /\ offered' = TRUE
  /\ in' = b
  /\ UNCHANGED <<queue, out>>

\* The byte offered is accepted (rb_push returns 1).
Accept ==
  /\ offered
  /\ offered' = FALSE
  /\ Len(queue) < Capacity
  /\ queue' = Append(queue, in)
  /\ UNCHANGED <<in, out>>

\* The oldest byte is delivered (rb_pop returns 1).
Deliver ==
  /\ queue # <<>>
  /\ out' = Head(queue)
  /\ queue' = Tail(queue)
  /\ UNCHANGED <<in, offered>>

\* rb_flush discards the bytes it found, which may be fewer than there are
\* by the time it completes.
Discard(k) ==
  /\ queue' = SubSeq(queue, k + 1, Len(queue))
  /\ UNCHANGED <<in, offered, out>>

Next ==
  \/ \E b \in Byte : Offer(b)
  \/ Accept
  \/ Deliver
  \/ \E k \in 0 .. Len(queue) : Discard(k)

Spec == Init /\ [][Next]_vars
=============================================================================
