------------------------------- MODULE UsbRx -------------------------------
(***************************************************************************)
(* Reception from USB (Application/usb_midi_bridge.c): the interrupt pushes*)
(* the transfers of the host into g_usb_rx, byte by byte as far as there is*)
(* room; the main loop's usb_port_poll pops them in packets of four bytes  *)
(* and decodes each (Middleware/usb_midi_codec.c).                         *)
(*                                                                         *)
(* The ring is the bounded queue that RingBuffer implements.  The interrupt*)
(* comes between any two pops.  A byte is known by the packet it comes from*)
(* and its position there.  The callback is registered: UsbDevice is about *)
(* that.                                                                   *)
(***************************************************************************)
EXTENDS Integers, Sequences

CONSTANTS
  RingSize,       (* RING_SIZE, 256                                        *)
  MaxOut,         (* the poll buffer of router_poll_all, 64                *)
  Cin,            (* the kinds of packets the host sends                   *)
  TransferPackets (* the most packets in a transfer, 16                    *)

(* Packets by what their code index number (CIN) makes of them: "start" is *)
(* CIN 4, "end3" 7, "end2" 6, "end1" 5 with F7, "tune" 5 with F6; and, for *)
(* usb_midi_dec, "single" F, "two" 2, C or D, "three" the others.          *)
Length == [start |-> 3, end3 |-> 3, end2 |-> 2, end1 |-> 1, tune |-> 0,
           single |-> 1, two |-> 2, three |-> 3]

ASSUME UsbRxAssumption ==
  /\ RingSize \in Nat /\ RingSize >= 5
  /\ MaxOut \in Nat /\ MaxOut >= 3
  /\ Cin \subseteq DOMAIN Length
  /\ TransferPackets \in Nat

Byte == [cin : Cin, pos : 0 .. 3]

VARIABLES
  ring,    (* g_usb_rx                                                     *)
  pkt,     (* pkt, as far as it has been popped                            *)
  pc,      (* "idle", or inside usb_port_poll: "test", "pop", "decode"     *)
  out,     (* out: how many bytes are in buf                               *)
  cut,     (* a packet has been pushed in part                             *)
  line     (* history: what was decoded last                               *)

vars == <<ring, pkt, pc, out, cut, line>>

TypeOK ==
  /\ ring \in Seq(Byte) /\ Len(ring) < RingSize
  /\ pkt \in Seq(Byte) /\ Len(pkt) <= 4
  /\ pc \in {"idle", "test", "pop", "decode"}
  /\ out \in Nat
  /\ cut \in BOOLEAN
  /\ line \in Seq(Byte) /\ Len(line) <= 4

Init ==
  /\ ring = <<>> /\ pkt = <<>> /\ pc = "idle"
  /\ out = 0 /\ cut = FALSE /\ line = <<>>

-----------------------------------------------------------------------------
Transfer == UNION {[1 .. n -> Cin] : n \in 1 .. TransferPackets}

Bytes(t) ==
  [i \in 1 .. 4 * Len(t) |-> [cin |-> t[((i - 1) \div 4) + 1],
                              pos |-> (i - 1) % 4]]

\* Mutant: rb_push_blk does not stop when the ring is full.
Accepted_NoLimit(n) == n

\* How many of n bytes rb_push_blk takes.
Accepted(n) ==
  LET room == RingSize - 1 - Len(ring) IN IF n <= room THEN n ELSE room

\* Mutant: a ring that is full gives up its oldest packets for new ones.
usb_rx_isr_cb_DropsOldest(t) ==
  LET all == ring \o Bytes(t)
      excess == Len(all) - (RingSize - 1)
      drop == IF excess <= 0 THEN 0 ELSE 4 * ((excess + 3) \div 4)
  IN  /\ ring' = SubSeq(all, drop + 1, Len(all))
      /\ UNCHANGED <<pkt, pc, out, cut, line>>

\* The number taken is not looked at: the rest of the transfer is gone.
\* Bound: that happens inside a packet at most once.
usb_rx_isr_cb(t) ==
  LET n == Accepted(4 * Len(t))
  IN  /\ cut => n % 4 = 0
      /\ ring' = ring \o SubSeq(Bytes(t), 1, n)
      /\ cut' = (cut \/ n % 4 # 0)
      /\ UNCHANGED <<pkt, pc, out, line>>

-----------------------------------------------------------------------------
(* usb_port_poll.                                                          *)

PollCall ==
  /\ pc = "idle"
  /\ pc' = "test"
  /\ out' = 0
  /\ UNCHANGED <<ring, pkt, cut, line>>

\* Mutants of PollTest: one byte too few of room, or of data, is enough.
PollTest_Room ==
  /\ pc = "test"
  /\ pc' = IF out + 2 <= MaxOut /\ Len(ring) >= 4 THEN "pop" ELSE "idle"
  /\ UNCHANGED <<ring, pkt, out, cut, line>>

PollTest_Data ==
  /\ pc = "test"
  /\ pc' = IF out + 3 <= MaxOut /\ Len(ring) >= 3 THEN "pop" ELSE "idle"
  /\ UNCHANGED <<ring, pkt, out, cut, line>>

\* Line 38.
PollTest ==
  /\ pc = "test"
  /\ pc' = IF out + 3 <= MaxOut /\ Len(ring) >= 4 THEN "pop" ELSE "idle"
  /\ UNCHANGED <<ring, pkt, out, cut, line>>

\* Mutant of PacketLength: the padding of a packet is left in the ring.
PacketLength_Used == IF pkt = <<>> THEN 4 ELSE 1 + Length[pkt[1].cin]

PacketLength == 4

\* Line 39: rb_pop_blk stops early if the ring is empty; the result is not
\* looked at.
PopByte ==
  /\ pc = "pop"
  /\ Len(pkt) < PacketLength /\ ring # <<>>
  /\ pkt' = Append(pkt, Head(ring))
  /\ ring' = Tail(ring)
  /\ UNCHANGED <<pc, out, cut, line>>

PopDone ==
  /\ pc = "pop"
  /\ Len(pkt) >= PacketLength \/ ring = <<>>
  /\ pc' = "decode"
  /\ UNCHANGED <<ring, pkt, out, cut, line>>

IsPacket(p) == Len(p) = 4 /\ \A i \in 1 .. 4 : p[i].pos = i - 1

\* Lines 40-81.  What is no packet has any CIN.  The values of the bytes are
\* left out, those that usb_midi_dec never sets included.
Decode ==
  /\ pc = "decode"
  /\ \E cin \in IF IsPacket(pkt) THEN {pkt[1].cin} ELSE DOMAIN Length :
       out' = out + Length[cin]
  /\ line' = pkt
  /\ pkt' = <<>>
  /\ pc' = "test"
  /\ UNCHANGED <<ring, cut>>

-----------------------------------------------------------------------------
Main == PollCall \/ PollTest \/ PopByte \/ PopDone \/ Decode

Next == Main \/ \E t \in Transfer : usb_rx_isr_cb(t)

Spec == Init /\ [][Next]_vars

-----------------------------------------------------------------------------
(* Properties.                                                             *)

\* As long as no packet was pushed in part, what is popped and what is still
\* in the ring are whole packets one after the other, wherever the interrupt
\* comes between two pops (usb_midi_bridge.c:24, 38-39).
FramedUnlessCut ==
  ~cut => /\ \A i \in 1 .. Len(pkt) : pkt[i].pos = i - 1
          /\ \A i \in 1 .. Len(ring) : ring[i].pos = (Len(pkt) + i - 1) % 4
          /\ (Len(pkt) + Len(ring)) % 4 = 0

\* The whole packets in a sequence of bytes.
Packets(b) ==
  [j \in 1 .. Len(b) \div 4 |->
     <<b[4 * j - 3], b[4 * j - 2], b[4 * j - 1], b[4 * j]>>]

Stream == INSTANCE ByteStream WITH
            Byte <- Seq(Byte),
            pending <- Packets(pkt \o ring)

\* Until a packet is pushed in part, the packets that were pushed are decoded
\* in order, each once and with its own four bytes, however the pops and the
\* interrupts fall (usb_midi_bridge.c:24, 36-45).
DecodesInOrder ==
  Stream!Init /\ [][~cut' => [Stream!Next]_(Stream!vars)]_vars

\* The four bytes that rb_avail promised are there for rb_pop_blk, whose
\* result is not looked at (usb_midi_bridge.c:38-39).
PopsFour ==
  /\ pc = "pop" => Len(pkt) + Len(ring) >= 4
  /\ pc = "decode" => Len(pkt) = 4

\* A packet never becomes more than the poll buffer has room for
\* (usb_midi_bridge.c:38).
OutFits == out <= MaxOut
=============================================================================
