---------------------------- MODULE MidiMessage ----------------------------
(***************************************************************************)
(* Channel and real-time messages, as the functions without state of their *)
(* own treat them: Application/midi_api.c makes them, the router's         *)
(* msg_matches (midi_router.c) selects them, Middleware/midi_parser.c      *)
(* writes them as bytes and reads them back, Middleware/usb_midi_codec.c   *)
(* packs them.                                                             *)
(*                                                                         *)
(* A message is <<status, data[0], data[1]>>.  The channel is the low half *)
(* of a channel message's status wherever msg->channel is read, and nobody *)
(* on the way out reads msg->length.                                       *)
(***************************************************************************)
EXTENDS Integers, Sequences

Byte == 0 .. 255
Data == 0 .. 127

-----------------------------------------------------------------------------
(* midi_api.c: the messages an application can send.                       *)

midi_send_note_on(ch, note, vel) == <<144 + (ch % 16), note % 128, vel % 128>>
midi_send_note_off(ch, note) == <<128 + (ch % 16), note % 128, 0>>
midi_send_cc(ch, cc, val) == <<176 + (ch % 16), cc % 128, val % 128>>
midi_send_all_notes_off(ch) == midi_send_cc(ch, 123, 0)
midi_send_pc(ch, prog) == <<192 + (ch % 16), prog % 128, 0>>
midi_send_pitchbend(ch, value) ==
  LET raw == (value + 8192) % 65536
  IN  <<224 + (ch % 16), raw % 128, (raw \div 128) % 128>>
midi_send_start == <<250, 0, 0>>
midi_send_continue == <<251, 0, 0>>
midi_send_stop == <<252, 0, 0>>

-----------------------------------------------------------------------------
(* The router's filter.                                                    *)

\* type_bit of msg_matches; "none" where no bit is set: polyphonic and channel
\* aftertouch and system common messages match no mask, MASK_ALL included.
TypeBit(status) ==
  CASE status \in 128 .. 159 -> "MASK_NOTE"
    [] status \in 176 .. 191 -> "MASK_CC"
    [] status \in 192 .. 207 -> "MASK_PC"
    [] status \in 224 .. 239 -> "MASK_PB"
    [] status = 240          -> "MASK_SX"
    [] status \in 248 .. 255 -> "MASK_RT"
    [] OTHER                 -> "none"

MaskBit == {"MASK_NOTE", "MASK_CC", "MASK_PC", "MASK_PB", "MASK_SX", "MASK_RT"}

Rule == [enabled : BOOLEAN, ch_mask : SUBSET (0 .. 15), msg_mask : SUBSET MaskBit]

msg_matches(m, r) ==
  /\ r.enabled
  /\ m[1] < 240 => m[1] % 16 \in r.ch_mask
  /\ TypeBit(m[1]) \in r.msg_mask

-----------------------------------------------------------------------------
(* Bytes of a message.                                                     *)

midi_data_len(status) ==
  CASE status \in 128 .. 191 -> 2
    [] status \in 192 .. 223 -> 1
    [] status \in 224 .. 239 -> 2
    [] status \in {241, 243} -> 1
    [] status = 242          -> 2
    [] OTHER                 -> 0

\* Mutant: the status byte is not counted.
midi_encode_msg_Short(m) == SubSeq(m, 1, midi_data_len(m[1]))

\* Into a buffer of three bytes.
midi_encode_msg(m) == SubSeq(m, 1, 1 + midi_data_len(m[1]))

-----------------------------------------------------------------------------
(* The parser.  Its msg is written <<status, data[0], data[1]>> too.       *)

ParserState == {"PS_IDLE", "PS_D1", "PS_D2", "PS_SYSEX"}

midi_parser_init == [state |-> "PS_IDLE", running |-> 0, msg |-> <<0, 0, 0>>]

\* The message that parsing byte b completes, <<>> if none.  A status without
\* data is put into *out, but the function returns 0 for it.
Parsed(p, b) ==
  CASE b >= 248 -> <<b, 0, 0>>
    [] b < 128 /\ p.state = "PS_IDLE" /\ p.running # 0
               /\ midi_data_len(p.running) <= 1 ->
         <<p.running, b, p.msg[3]>>
    [] b < 128 /\ p.state = "PS_D1" -> <<p.msg[1], b, p.msg[3]>>
    [] b < 128 /\ p.state = "PS_D2" -> <<p.msg[1], p.msg[2], b>>
    [] OTHER -> <<>>

\* Mutant: a status byte does not end the message under way.
OnStatus_Unnoticed(p, b) == [p EXCEPT !.running = b, !.msg[1] = b]

OnStatus(p, b) ==
  [state |-> "PS_D1", running |-> b, msg |-> [p.msg EXCEPT ![1] = b]]

\* Running status: a data byte after a complete message.
OnRunning(p, b) ==
  [p EXCEPT !.msg = <<p.running, b, p.msg[3]>>,
            !.state = IF midi_data_len(p.running) <= 1 THEN "PS_IDLE"
                                                        ELSE "PS_D2"]

\* The parser after byte b.  F0 stores PS_SYSEX, which is 4, as the status.
ParserAfter(p, b) ==
  CASE b = 240 -> [state |-> "PS_SYSEX", running |-> 0,
                   msg |-> [p.msg EXCEPT ![1] = 4]]
    [] b = 247 -> [p EXCEPT !.state = "PS_IDLE"]
    [] b \in 128 .. 246 /\ b # 240 -> OnStatus(p, b)
    [] b < 128 /\ p.state = "PS_IDLE" /\ p.running # 0 -> OnRunning(p, b)
    [] b < 128 /\ p.state = "PS_D1" ->
         [p EXCEPT !.msg = [p.msg EXCEPT ![2] = b], !.state = "PS_IDLE"]
    [] b < 128 /\ p.state = "PS_D2" ->
         [p EXCEPT !.msg = [p.msg EXCEPT ![3] = b], !.state = "PS_IDLE"]
    [] OTHER -> p     \* real time; data without a status, or of a SysEx

-----------------------------------------------------------------------------
(* USB-MIDI packets of cable 0: the code index number and three bytes.     *)

status_to_cin(status) ==
  CASE status < 128 -> 0
    [] status \in 128 .. 239 -> status \div 16
    [] status \in {241, 243} -> 2
    [] status = 242          -> 3
    [] status = 246          -> 5
    [] OTHER                 -> 15

usb_midi_enc(m) == <<status_to_cin(m[1])>> \o m

\* usb_midi_enc_sysex with room for one packet, as usb_port_send calls it
\* (sizeof(pkts) / sizeof(pkts)): the first three bytes, whatever follows.
FirstSysexPacket(s) ==
  CASE Len(s) = 1 -> <<5, s[1], 0, 0>>
    [] Len(s) = 2 -> <<6, s[1], s[2], 0>>
    [] Len(s) = 3 /\ s[3] = 247 -> <<7, s[1], s[2], s[3]>>
    [] OTHER -> <<4, s[1], s[2], s[3]>>
=============================================================================
