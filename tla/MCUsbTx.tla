------------------------------ MODULE MCUsbTx ------------------------------
(* Messages of each length, two of them with two data bytes, on two         *)
(* channels: the other functions of midi_api.c make messages of the same    *)
(* forms.  A SysEx of two packets.  Rules that let everything pass, and     *)
(* only one channel, without real-time messages.                            *)
EXTENDS UsbTx

MCMessage == {midi_send_note_on(0, 1, 2), midi_send_pitchbend(1, 133),
              midi_send_pc(1, 3), midi_send_start}

MCSysex == {<<240, 125, 1, 247>>}

MCRuleInput ==
  {[enabled |-> TRUE, ch_mask |-> 0 .. 15, msg_mask |-> MaskBit],
   [enabled |-> TRUE, ch_mask |-> {0}, msg_mask |-> MaskBit \ {"MASK_RT"}]}
=============================================================================
