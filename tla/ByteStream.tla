----------------------------- MODULE ByteStream -----------------------------
(***************************************************************************)
(* What a path promises that loses nothing of what it accepts: the bytes   *)
(* leave it in the order of acceptance, each once and unaltered.  UartTx   *)
(* sends bytes; for UsbTx a "byte" is a message, for UsbRx a packet.       *)
(***************************************************************************)
EXTENDS Naturals, Sequences

CONSTANT Byte    \* the values a byte can take

VARIABLES
  pending,   (* bytes accepted that have not left the device yet      *)
  line       (* the byte that left the device last                    *)

vars == <<pending, line>>

Init ==
  /\ pending = <<>>
  /\ line \in Byte

\* Bytes are accepted: what was pending stays so, ahead of them.
Accept ==
  /\ Len(pending') >= Len(pending)
  /\ SubSeq(pending', 1, Len(pending)) = pending
  /\ UNCHANGED line

\* The oldest pending byte leaves the device.
Emit ==
  /\ pending # <<>>
  /\ line' = Head(pending)
  /\ pending' = Tail(pending)

Next == Accept \/ Emit

Spec == Init /\ [][Next]_vars
=============================================================================
