----------------------------- MODULE RingBuffer -----------------------------
(***************************************************************************)
(* Middleware/ring_buffer.c: the lock-free queue between a producer and a  *)
(* consumer that share no lock and never mask interrupts.  g_usb_rx is     *)
(* pushed by the USB interrupt (usb_rx_isr_cb) and popped by the main loop *)
(* (usb_port_poll); the other two rings live wholly in the main loop.      *)
(*                                                                         *)
(* Every access to a shared field is a step of its own, so the producer    *)
(* may run between any two accesses of the consumer and conversely.  On    *)
(* the device the interrupt runs to completion: its schedules are the ones *)
(* in which the steps of a push, or of a whole rb_push_blk, are adjacent.  *)
(*                                                                         *)
(* `& RB_MASK' is `% Size': the two agree because Size is a power of two.  *)
(***************************************************************************)
EXTENDS Integers, Sequences

CONSTANTS
  Size,   (* RB_SIZE, 256 on the device         *)
  Byte    (* the values a byte can take         *)

\* "Ring buffer (power of 2)", common_types.h:38, with 16-bit indices.
ASSUME SizeAssumption ==
  Size \in {2, 4, 8, 16, 32, 64, 128, 256, 512, 1024, 2048, 4096, 8192,
            16384, 32768, 65536}

ASSUME ByteAssumption == Byte # {}

VARIABLES
  head,   (* rb->head: next slot to write, written by the producer only  *)
  tail,   (* rb->tail: next slot to read, written by the consumer only   *)
  buf,    (* rb->buf                                                     *)
  prod,   (* the producer: where it is in rb_push, the byte b and its n  *)
  cons,   (* the consumer: where it is, the byte it read, the head it    *)
          (* read in rb_flush, and `avail', how many of the bytes that   *)
          (* its last rb_avail reported it has not popped yet            *)
  out     (* the byte the consumer's last completed rb_pop returned      *)

vars == <<head, tail, buf, prod, cons, out>>

Index == 0 .. Size - 1

\* rb_avail, line 55; also the number of occupied slots.
Count(h, t) == (h - t) % Size

TypeOK ==
  /\ head \in Index
  /\ tail \in Index
  /\ buf \in [Index -> Byte]
  /\ prod \in [pc : {"idle", "write", "publish"}, b : Byte, n : Index]
  /\ cons \in [pc : {"idle", "read", "advance", "flush"}, b : Byte,
               n : Index, avail : Index]
  /\ out \in Byte

\* rb_init empties the ring; the rings are static objects, so whatever the
\* slots hold at that point is a byte.
rb_init ==
  /\ head = 0
  /\ tail = 0
  /\ buf \in [Index -> Byte]

Init ==
  /\ rb_init
  /\ prod \in [pc : {"idle"}, b : Byte, n : {0}]
  /\ cons \in [pc : {"idle"}, b : Byte, n : {0}, avail : {0}]
  /\ out \in Byte

-----------------------------------------------------------------------------
(* The producer: rb_push, which rb_push_blk calls for each byte until it   *)
(* returns 0.                                                              *)

\* Mutants: the next index is not masked; the test for a full ring is missing.
PushTest_Unmasked(b) ==
  /\ prod.pc = "idle"
  /\ head + 1 # tail
  /\ prod' = [pc |-> "write", b |-> b, n |-> head + 1]
  /\ UNCHANGED <<head, tail, buf, cons, out>>

PushTest_NeverFull(b) ==
  /\ prod.pc = "idle"
  /\ prod' = [pc |-> "write", b |-> b, n |-> (head + 1) % Size]
  /\ UNCHANGED <<head, tail, buf, cons, out>>

\* Lines 15-16: the test for a free slot, on the tail as it is now.
PushTest(b) ==
  /\ prod.pc = "idle"
  /\ LET n == (head + 1) % Size
     IN  /\ n # tail
         /\ prod' = [pc |-> "write", b |-> b, n |-> n]
  /\ UNCHANGED <<head, tail, buf, cons, out>>

\* Mutant: stored one slot too far.
PushWrite_NextSlot ==
  /\ prod.pc = "write"
  /\ buf' = [buf EXCEPT ![prod.n] = prod.b]
  /\ prod' = [prod EXCEPT !.pc = "publish"]
  /\ UNCHANGED <<head, tail, cons, out>>

\* Line 17: the byte is stored.
PushWrite ==
  /\ prod.pc = "write"
  /\ buf' = [buf EXCEPT ![head] = prod.b]
  /\ prod' = [prod EXCEPT !.pc = "publish"]
  /\ UNCHANGED <<head, tail, cons, out>>

\* Line 18: only now does the consumer see it.
PushPublish ==
  /\ prod.pc = "publish"
  /\ head' = prod.n
  /\ prod' = [prod EXCEPT !.pc = "idle"]
  /\ UNCHANGED <<tail, buf, cons, out>>

-----------------------------------------------------------------------------
(* The consumer: rb_avail, rb_pop (which rb_pop_blk calls until it returns *)
(* 0) and rb_flush.                                                        *)

\* rb_avail.
Avail ==
  /\ cons.pc = "idle"
  /\ cons' = [cons EXCEPT !.avail = Count(head, tail)]
  /\ UNCHANGED <<head, tail, buf, prod, out>>

\* Mutant: the test for an empty ring is missing.
PopTest_NeverEmpty ==
  /\ cons.pc = "idle"
  /\ cons' = [cons EXCEPT !.pc = "read"]
  /\ UNCHANGED <<head, tail, buf, prod, out>>

\* Line 24: rb_pop returns 0, a step that changes nothing, when empty.
PopTest ==
  /\ cons.pc = "idle"
  /\ head # tail
  /\ cons' = [cons EXCEPT !.pc = "read"]
  /\ UNCHANGED <<head, tail, buf, prod, out>>

\* Line 25.
PopRead ==
  /\ cons.pc = "read"
  /\ cons' = [cons EXCEPT !.pc = "advance", !.b = buf[tail]]
  /\ UNCHANGED <<head, tail, buf, prod, out>>

\* Lines 26-27: the slot goes back to the producer, the byte to the caller.
PopAdvance ==
  /\ cons.pc = "advance"
  /\ tail' = (tail + 1) % Size
  /\ out' = cons.b
  /\ cons' = [cons EXCEPT !.pc = "idle",
                          !.avail = IF @ = 0 THEN 0 ELSE @ - 1]
  /\ UNCHANGED <<head, buf, prod>>

\* rb_flush, line 59: the head is read ...
FlushRead ==
  /\ cons.pc = "idle"
  /\ cons' = [cons EXCEPT !.pc = "flush", !.n = head, !.avail = 0]
  /\ UNCHANGED <<head, tail, buf, prod, out>>

\* ... and, after any number of pushes, becomes the tail.
FlushWrite ==
  /\ cons.pc = "flush"
  /\ tail' = cons.n
  /\ cons' = [cons EXCEPT !.pc = "idle"]
  /\ UNCHANGED <<head, buf, prod, out>>

-----------------------------------------------------------------------------
Producer ==
  \/ \E b \in Byte : PushTest(b)
  \/ PushWrite
  \/ PushPublish

Consumer ==
  \/ Avail
  \/ PopTest
  \/ PopRead
  \/ PopAdvance
  \/ FlushRead
  \/ FlushWrite

Next == Producer \/ Consumer

Spec == Init /\ [][Next]_vars

-----------------------------------------------------------------------------
(* Properties.                                                             *)

\* Callers pop what rb_avail reported without testing the result
\* (usb_midi_bridge.c:38-39, uart_midi_bridge.c:38-42): the bytes reported
\* and not yet popped are still there, whatever the producer did since.
AvailIsHonoured == cons.avail <= Count(head, tail)

\* The producer never stores into a slot the consumer is reading: the two
\* contexts need no lock for the slots (ring_buffer.c:16-18 and 24-26).
NoSlotRace ==
  /\ prod.pc \in {"write", "publish"}
  /\ cons.pc \in {"read", "advance"}
  => head # tail

\* The strengthening of the above that the steps preserve.
\*   - the slot a push is filling stays free until the push publishes it;
\*   - the slot a pop is reading stays full until the pop advances;
\*   - the head that a flush read still lies within the occupied slots.
Inv ==
  /\ prod.pc \in {"write", "publish"} =>
       /\ prod.n = (head + 1) % Size
       /\ prod.n # tail
  /\ prod.pc = "publish" => buf[head] = prod.b
  /\ cons.pc \in {"read", "advance"} => head # tail
  /\ cons.pc = "advance" => cons.b = buf[tail]
  /\ cons.pc = "flush" =>
       /\ Count(cons.n, tail) <= Count(head, tail)
       /\ cons.avail = 0
  /\ AvailIsHonoured

\* The bytes in the occupied slots, oldest first.
Occupied(h, t, bytes) ==
  [i \in 1 .. Count(h, t) |-> bytes[(t + (i - 1)) % Size]]

Contents == Occupied(head, tail, buf)

\* A push is under way from its test to its publication.
Fifo == INSTANCE BoundedFifo WITH
          Capacity <- Size - 1, queue <- Contents,
          in <- prod.b, offered <- prod.pc # "idle"

\* The ring implements the bounded queue under every interleaving of the
\* two contexts: nothing accepted is lost, duplicated, reordered or altered
\* (ring_buffer.c:13-60), and it never holds more than RB_SIZE - 1 bytes.
ImplementsFifo == Fifo!Spec
=============================================================================
