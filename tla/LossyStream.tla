---------------------------- MODULE LossyStream ----------------------------
(***************************************************************************)
(* What the DIN input promises (bsp_uart_midi.c:94-105): bytes come out in *)
(* the order of arrival, once and unaltered, as long as no more than Lap   *)
(* of them wait.  A reader that finds Lap or more waiting misses whole     *)
(* laps of the oldest ones, and reads on in step with what is left.        *)
(***************************************************************************)
EXTENDS Naturals, Sequences

CONSTANTS
  Byte,    \* the values a byte can take
  Lap      \* the bytes the buffer holds

VARIABLES
  pending,   (* bytes that have arrived and not been read nor missed      *)
  line       (* the byte that was read last                               *)

vars == <<pending, line>>

Init ==
  /\ pending = <<>>
  /\ line \in Byte

Arrive ==
  /\ \E b \in Byte : pending' = Append(pending, b)
  /\ UNCHANGED line

\* Nothing is promised of the value if the writer has lapped the reader.
Read ==
  /\ pending # <<>>
  /\ Len(pending) <= Lap => line' = Head(pending)
  /\ line' \in Byte
  /\ pending' = Tail(pending)

Miss ==
  /\ \E laps \in 1 .. Len(pending) :
       /\ laps * Lap <= Len(pending)
       /\ pending' = SubSeq(pending, laps * Lap + 1, Len(pending))
  /\ UNCHANGED line

Next == Arrive \/ Read \/ Miss

Spec == Init /\ [][Next]_vars
=============================================================================
