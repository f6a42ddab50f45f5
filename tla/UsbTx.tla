------------------------------- MODULE UsbTx -------------------------------
(***************************************************************************)
(* Transmission to USB in the main loop (Application/usb_midi_bridge.c):   *)
(* the application's messages go through router_process and, as bytes,     *)
(* into g_usb_tx; usb_bridge_drain_tx parses them again and packs them     *)
(* into frames for the MIDI class.  SysEx bypasses the queue: usb_port_send*)
(* waits for the class, counting down, and hands it a frame at once.       *)
(*                                                                         *)
(* g_usb_tx is only used by the main loop: it is the bounded queue that    *)
(* RingBuffer implements.  Of the device there is what the loop sees:      *)
(* UsbDevice is about the rest.                                            *)
(***************************************************************************)
EXTENDS MidiMessage

CONSTANTS
  RingCap,      (* bytes g_usb_tx can hold: RING_SIZE - 1, 255             *)
  FramePackets, (* packets in a frame: MIDI_EP_MAX_PKT / 4, 16             *)
  Patience,     (* how often usb_port_send looks for the class, 50000      *)
  Message,      (* the messages the application sends                      *)
  Sysex,        (* the SysEx messages that the router forwards             *)
  RuleInput     (* the rules for PORT_INT -> PORT_USB                      *)

\* What router_process can hand on: a status that matches some mask, not F0.
ChannelStatus == 128 .. 159 \cup 176 .. 207 \cup 224 .. 239 \cup 248 .. 255

ASSUME UsbTxAssumption ==
  /\ RingCap \in Nat
  /\ FramePackets \in Nat \ {0}
  /\ Patience \in Nat \ {0}
  /\ Message \subseteq ChannelStatus \X Data \X Data
  /\ Sysex \subseteq Seq(Byte) \ {<<>>}
  /\ RuleInput \subseteq Rule

VARIABLES
  rule,    (* s_rules[PORT_INT][PORT_USB]                                  *)
  queue,   (* g_usb_tx                                                     *)
  parser,  (* s_tx_parser                                                  *)
  pc,      (* "loop"; in usb_bridge_drain_tx: "drain"; in usb_port_send:   *)
           (* "wait", "hand"                                               *)
  frame,   (* the packets of the frame being built                         *)
  patience,(* timeout                                                      *)
  device,  (* what the class shows: configured, tx_busy                    *)
  owed,    (* history: the messages of which enough was queued for the     *)
           (* parser to notice them, and that it has not come to           *)
  line     (* history: Shown of the packet that was built last             *)

vars == <<rule, queue, parser, pc, frame, patience, device, owed, line>>

\* Status and first data byte: what the second parser gets right.
Shown(m) == <<m[1], m[2]>>

TypeOK ==
  /\ rule \in Rule
  /\ queue \in Seq(Byte) /\ Len(queue) <= RingCap
  /\ parser \in [state : ParserState, running : Byte, msg : Byte \X Byte \X Byte]
  /\ pc \in {"loop", "drain", "wait", "hand"}
  /\ frame \in Seq(Seq(Byte)) /\ Len(frame) <= FramePackets
  /\ patience \in 0 .. Patience
  /\ device \in [configured : BOOLEAN, tx_busy : BOOLEAN]
  /\ owed \in Seq(Byte \X Byte \X Byte)
  /\ line \in Byte \X Byte

\* usb_bridge_init; router_init leaves PORT_INT without rules.
Init ==
  /\ rule = [enabled |-> FALSE, ch_mask |-> {}, msg_mask |-> {}]
  /\ queue = <<>>
  /\ parser = midi_parser_init
  /\ pc = "loop"
  /\ frame = <<>>
  /\ patience = 0
  /\ device = [configured |-> FALSE, tx_busy |-> FALSE]
  /\ owed = <<>>
  /\ line = <<0, 0>>

tx_ready == device.configured /\ ~device.tx_busy

-----------------------------------------------------------------------------
(* The application, between two turns of the loop.                         *)

router_set_rule(r) ==
  /\ pc = "loop"
  /\ rule' = r
  /\ UNCHANGED <<queue, parser, pc, frame, patience, device, owed, line>>

\* Mutant: rb_push_blk does not stop at a full ring.
Accepted_NoLimit(bytes) == bytes

Accepted(bytes) ==
  LET room == RingCap - Len(queue)
  IN  SubSeq(bytes, 1, IF Len(bytes) <= room THEN Len(bytes) ELSE room)

\* The message that its bytes are; a real-time message has no data.
Meaning(m) == IF midi_data_len(m[1]) = 0 THEN <<m[1], 0, 0>> ELSE m

\* midi_send_msg: router_process for PORT_INT, usb_port_send for PORT_USB.
\* How much of the message was queued is not looked at.
midi_send_msg(m) ==
  /\ pc = "loop"
  /\ msg_matches(m, rule)
  /\ LET bytes == midi_encode_msg(m)
         n == Len(Accepted(bytes))
     IN  /\ queue' = queue \o Accepted(bytes)
         /\ owed' = IF n = Len(bytes) \/ n >= 2 THEN Append(owed, Meaning(m))
                                               ELSE owed
  /\ UNCHANGED <<rule, parser, pc, frame, patience, device, line>>

-----------------------------------------------------------------------------
(* usb_bridge_drain_tx.                                                    *)

DrainStart ==
  /\ pc = "loop"
  /\ tx_ready
  /\ queue # <<>>
  /\ pc' = "drain"
  /\ frame' = <<>>
  /\ UNCHANGED <<rule, queue, parser, patience, device, owed, line>>

\* One byte from the ring through the parser, and a packet of what it
\* completes.
PopAndParse ==
  LET m == Parsed(parser, Head(queue))
  IN  /\ queue' = Tail(queue)
      /\ parser' = ParserAfter(parser, Head(queue))
      /\ IF m = <<>>
         THEN UNCHANGED <<frame, line, owed>>
         ELSE /\ frame' = Append(frame, usb_midi_enc(m))
              /\ line' = Shown(m)
              /\ owed' = IF owed = <<>> THEN owed ELSE Tail(owed)

\* Mutant: nothing more is popped once there is a packet.
DrainByte_OnePacket ==
  /\ pc = "drain"
  /\ frame = <<>> /\ queue # <<>>
  /\ PopAndParse
  /\ UNCHANGED <<rule, pc, patience, device>>

DrainByte ==
  /\ pc = "drain"
  /\ Len(frame) < FramePackets /\ queue # <<>>
  /\ PopAndParse
  /\ UNCHANGED <<rule, pc, patience, device>>

\* bsp_usb_send.  What it returns is not looked at.
Offer == device' = [device EXCEPT !.tx_busy = tx_ready \/ @]

\* Lines 164-166.
DrainSend ==
  /\ pc = "drain"
  /\ Len(frame) = FramePackets \/ queue = <<>>
  /\ IF frame # <<>> THEN Offer ELSE UNCHANGED device
  /\ frame' = <<>>
  /\ pc' = "loop"
  /\ UNCHANGED <<rule, queue, parser, patience, owed, line>>

-----------------------------------------------------------------------------
(* usb_port_send with a SysEx message.                                     *)

\* Lines 99-107: one packet, as FirstSysexPacket says.
SysexStart(s) ==
  /\ pc = "loop"
  /\ device.configured
  /\ frame' = <<FirstSysexPacket(s)>>
  /\ patience' = Patience
  /\ pc' = "wait"
  /\ UNCHANGED <<rule, queue, parser, device, owed, line>>

\* Mutant: the wait is not counted.
SysexWait_Uncounted ==
  /\ pc = "wait"
  /\ IF tx_ready THEN pc' = "hand" ELSE UNCHANGED pc
  /\ UNCHANGED <<rule, queue, parser, frame, patience, device, owed, line>>

\* Lines 108-109: one look at the class.  At 0 the message is given up.
SysexWait ==
  /\ pc = "wait"
  /\ IF tx_ready
     THEN pc' = "hand" /\ UNCHANGED <<patience, frame>>
     ELSE /\ patience' = patience - 1
          /\ pc' = IF patience = 1 THEN "loop" ELSE "wait"
          /\ frame' = IF patience = 1 THEN <<>> ELSE frame
  /\ UNCHANGED <<rule, queue, parser, device, owed, line>>

\* Line 119.  The length handed over is that of the message.
SysexHand ==
  /\ pc = "hand"
  /\ Offer
  /\ frame' = <<>>
  /\ pc' = "loop"
  /\ UNCHANGED <<rule, queue, parser, patience, owed, line>>

-----------------------------------------------------------------------------
(* The device, at any time: a transfer ends, the configuration begins (and *)
(* clears tx_busy), goes, or is resumed after a suspension (and does not). *)

TransferDone ==
  /\ device.configured /\ device.tx_busy
  /\ device' = [device EXCEPT !.tx_busy = FALSE]
  /\ UNCHANGED <<rule, queue, parser, pc, frame, patience, owed, line>>

Configured ==
  /\ ~device.configured
  /\ device' = [configured |-> TRUE, tx_busy |-> FALSE]
  /\ UNCHANGED <<rule, queue, parser, pc, frame, patience, owed, line>>

Resumed ==
  /\ ~device.configured
  /\ device' = [device EXCEPT !.configured = TRUE]
  /\ UNCHANGED <<rule, queue, parser, pc, frame, patience, owed, line>>

Gone ==
  /\ device.configured
  /\ device' = [device EXCEPT !.configured = FALSE]
  /\ UNCHANGED <<rule, queue, parser, pc, frame, patience, owed, line>>

-----------------------------------------------------------------------------
Drain == DrainByte \/ DrainSend

SysexStep == SysexWait \/ SysexHand

Next ==
  \/ \E r \in RuleInput : router_set_rule(r)
  \/ \E m \in Message : midi_send_msg(m)
  \/ DrainStart
  \/ Drain
  \/ \E s \in Sysex : SysexStart(s)
  \/ SysexStep
  \/ TransferDone
  \/ Configured
  \/ Resumed
  \/ Gone

Spec == Init /\ [][Next]_vars

\* The main loop calls usb_bridge_drain_tx on every turn and goes on inside
\* both functions.  That the host takes what it is offered is left open.
FairSpec ==
  Spec /\ WF_vars(DrainStart) /\ WF_vars(Drain) /\ WF_vars(SysexStep)

-----------------------------------------------------------------------------
(* Properties.                                                             *)

Stream == INSTANCE ByteStream WITH
            Byte <- Byte \X Byte,
            pending <- [i \in 1 .. Len(owed) |-> Shown(owed[i])]

\* The messages queued in g_usb_tx leave the second parser as one packet each,
\* in order, with their status and first data byte, also if the ring was full
\* and cut some of them short (usb_midi_bridge.c:125, 153-162).  The second
\* data byte is another matter (README).
ImplementsStream == Stream!Spec

\* Nothing is left behind: once g_usb_tx has been drained, every message of which
\* enough was queued is in a packet, none of them half in the parser, where it
\* would wait for a byte that no one owes (midi_parser.c:92-96,
\* usb_midi_bridge.c:148-153).
DrainedMeansSent == queue = <<>> => owed = <<>>

\* No packet carries data of an earlier message: its last byte is 0 or the
\* message's own, although the parser never clears what it has stored
\* (midi_parser.c:78-101).
NoForeignData ==
  [][DrainByte /\ frame' # frame =>
       frame'[Len(frame')][4] \in {0, Head(owed)[3]}]_vars

\* The wait for the class ends even if the host never comes back: the main
\* loop is not hung (usb_midi_bridge.c:107-109).
SysexReturns == pc = "wait" ~> pc = "loop"

\* A queue that is not empty goes on being drained as long as the device stays
\* configured, the host takes what it is offered and SysEx does not get there
\* first (main.c:148-153).
DrainGoesOn ==
  /\ <>[](queue # <<>> /\ device.configured /\ pc \notin {"wait", "hand"})
  /\ []<>(~device.tx_busy)
  => []<><<DrainByte>>_vars
=============================================================================
