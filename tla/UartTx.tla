------------------------------- MODULE UartTx -------------------------------
(***************************************************************************)
(* The UART transmit path: Application/uart_midi_bridge.c on top of        *)
(* Driver/bsp_uart_midi.c, the DMA channel and its interrupt.              *)
(*                                                                         *)
(* The main loop queues bytes in s_uart_tx and, when s_tx_busy is clear,   *)
(* moves all of them through the stack buffer tmp into s_tx_buf, which the *)
(* DMA channel then reads while the main loop goes on.  The DMA interrupt  *)
(* is what clears s_tx_busy.  s_uart_tx is only used by the main loop, so  *)
(* it is the bounded queue that RingBuffer is shown to implement.          *)
(***************************************************************************)
EXTENDS Naturals, Sequences

CONSTANTS
  Byte,       (* the values a byte can take                                *)
  Message,    (* the byte sequences the router hands to uart_port_send     *)
  RingCap,    (* bytes s_uart_tx can hold: RING_SIZE - 1, 255              *)
  TxBufSize   (* UART_TX_BUF_SIZE, 256: size of tmp and of s_tx_buf        *)

ASSUME RingFitsBuffer ==
  /\ RingCap \in Nat \ {0}
  /\ TxBufSize \in Nat
  /\ RingCap <= TxBufSize

ASSUME MessageAssumption == Message \subseteq Seq(Byte)

VARIABLES
  pc,      (* where the main loop is                                       *)
  ring,    (* contents of s_uart_tx, oldest first                          *)
  tmp,     (* the bytes uart_bridge_drain_tx popped; <<>> once copied      *)
  txbuf,   (* the part of s_tx_buf that the last transfer was given        *)
  busy,    (* s_tx_busy                                                    *)
  dma,     (* the channel: enabled or not, `left', its count register, the *)
           (* number of bytes of txbuf still to move, and the full         *)
           (* transfer flag ftf                                            *)
  line     (* the byte that was last written to the UART                   *)

vars == <<pc, ring, tmp, txbuf, busy, dma, line>>

MainPC == {"loop", "send", "copy", "mark", "arm"}

TypeOK ==
  /\ pc \in MainPC
  /\ ring \in Seq(Byte) /\ Len(ring) <= RingCap
  /\ tmp \in Seq(Byte) /\ Len(tmp) <= TxBufSize
  /\ txbuf \in Seq(Byte) /\ Len(txbuf) <= TxBufSize
  /\ busy \in BOOLEAN
  /\ dma \in [on : BOOLEAN, left : 0 .. TxBufSize, ftf : BOOLEAN]
  /\ line \in Byte

\* bsp_uart_midi_init and uart_bridge_init: an empty ring, an idle channel
\* with a transfer count of 0 and the transfer interrupt enabled.
Init ==
  /\ pc = "loop"
  /\ ring = <<>>
  /\ tmp = <<>>
  /\ txbuf = <<>>
  /\ busy = FALSE
  /\ dma = [on |-> FALSE, left |-> 0, ftf |-> FALSE]
  /\ line \in Byte

-----------------------------------------------------------------------------
(* The main loop.                                                          *)

\* Mutant: rb_push_blk does not stop at a full ring.
Accepted_NoLimit(m) == m

\* The bytes of m that rb_push_blk accepts: it stops at the first that does
\* not fit, and uart_port_send ignores how many that were.
Accepted(m) ==
  LET room == RingCap - Len(ring)
  IN  SubSeq(m, 1, IF Len(m) <= room THEN Len(m) ELSE room)

uart_port_send(m) ==
  /\ pc = "loop"
  /\ ring' = ring \o Accepted(m)
  /\ UNCHANGED <<pc, tmp, txbuf, busy, dma, line>>

\* Lines 36-42: nothing to do while a transfer runs or the ring is empty,
\* else everything queued is popped.
uart_bridge_drain_tx ==
  /\ pc = "loop"
  /\ ~busy
  /\ ring # <<>>
  /\ tmp' = ring
  /\ ring' = <<>>
  /\ pc' = "send"
  /\ UNCHANGED <<txbuf, busy, dma, line>>

\* bsp_uart_midi_send_dma, lines 79-81: a length the buffer cannot hold is
\* refused and its bytes are dropped; else wait for s_tx_busy to clear.
SendWait ==
  /\ pc = "send"
  /\ IF Len(tmp) > TxBufSize
     THEN tmp' = <<>> /\ pc' = "loop"
     ELSE ~busy /\ pc' = "copy" /\ UNCHANGED tmp
  /\ UNCHANGED <<ring, txbuf, busy, dma, line>>

\* Line 82.  From here on tmp is dead.
SendCopy ==
  /\ pc = "copy"
  /\ txbuf' = tmp
  /\ tmp' = <<>>
  /\ pc' = "mark"
  /\ UNCHANGED <<ring, busy, dma, line>>

\* Mutant: s_tx_busy is not set.
SendMark_Missing ==
  /\ pc = "mark"
  /\ pc' = "arm"
  /\ UNCHANGED <<ring, tmp, txbuf, busy, dma, line>>

\* Line 83.
SendMark ==
  /\ pc = "mark"
  /\ busy' = TRUE
  /\ pc' = "arm"
  /\ UNCHANGED <<ring, tmp, txbuf, dma, line>>

\* Mutants: the transfer is one byte short; the channel is not enabled.
SendArm_Short ==
  /\ pc = "arm"
  /\ dma' = [dma EXCEPT !.on = TRUE, !.left = Len(txbuf) - 1]
  /\ pc' = "loop"
  /\ UNCHANGED <<ring, tmp, txbuf, busy, line>>

SendArm_NotEnabled ==
  /\ pc = "arm"
  /\ dma' = [dma EXCEPT !.left = Len(txbuf)]
  /\ pc' = "loop"
  /\ UNCHANGED <<ring, tmp, txbuf, busy, line>>

\* Lines 85-88.
SendArm ==
  /\ pc = "arm"
  /\ dma' = [dma EXCEPT !.on = TRUE, !.left = Len(txbuf)]
  /\ pc' = "loop"
  /\ UNCHANGED <<ring, tmp, txbuf, busy, line>>

-----------------------------------------------------------------------------
(* The hardware and its interrupt, at any point of the main loop.          *)

\* The channel moves the next byte to the UART; the last one raises FTF.
DmaMove ==
  /\ dma.on
  /\ dma.left > 0
  /\ line' = txbuf[Len(txbuf) - dma.left + 1]
  /\ dma' = [dma EXCEPT !.left = @ - 1, !.ftf = (dma.left = 1)]
  /\ UNCHANGED <<pc, ring, tmp, txbuf, busy>>

\* Mutants: the channel stays enabled; s_tx_busy is not cleared.
IRQHandler_StillEnabled ==
  /\ dma.ftf
  /\ dma' = [dma EXCEPT !.ftf = FALSE]
  /\ busy' = FALSE
  /\ UNCHANGED <<pc, ring, tmp, txbuf, line>>

IRQHandler_StillBusy ==
  /\ dma.ftf
  /\ dma' = [dma EXCEPT !.ftf = FALSE, !.on = FALSE]
  /\ UNCHANGED <<pc, ring, tmp, txbuf, busy, line>>

\* Lines 118-126.
DMA_Channel1_2_IRQHandler ==
  /\ dma.ftf
  /\ dma' = [dma EXCEPT !.ftf = FALSE, !.on = FALSE]
  /\ busy' = FALSE
  /\ UNCHANGED <<pc, ring, tmp, txbuf, line>>

-----------------------------------------------------------------------------
Send == SendWait \/ SendCopy \/ SendMark \/ SendArm

Next ==
  \/ \E m \in Message : uart_port_send(m)
  \/ uart_bridge_drain_tx
  \/ Send
  \/ DmaMove
  \/ DMA_Channel1_2_IRQHandler

\* The main loop calls uart_bridge_drain_tx on every turn and does not stop
\* inside it, the channel moves bytes at the line's rate and its interrupt
\* is enabled at the highest priority.  Nothing obliges a message to come.
Fairness ==
  /\ WF_vars(uart_bridge_drain_tx)
  /\ WF_vars(Send)
  /\ WF_vars(DmaMove)
  /\ WF_vars(DMA_Channel1_2_IRQHandler)

Spec == Init /\ [][Next]_vars

FairSpec == Spec /\ Fairness

-----------------------------------------------------------------------------
(* Properties.                                                             *)

\* While the channel is enabled nobody writes s_tx_buf under it
\* (bsp_uart_midi.c:81-88 against the interrupt at 118-126).
BufferStable == [][dma.on => txbuf' = txbuf]_vars

\* The bytes of s_tx_buf that have not been moved, while a transfer of them
\* is due or under way.
InFlight ==
  IF pc \in {"mark", "arm"} THEN txbuf
  ELSE SubSeq(txbuf, Len(txbuf) - dma.left + 1, Len(txbuf))

Pending == InFlight \o tmp \o ring

Stream == INSTANCE ByteStream WITH pending <- Pending

\* What uart_port_send accepted goes out in order, once and unaltered; in
\* particular no transfer is refused for its length (line 79).
ImplementsStream == Stream!Spec

\* s_tx_busy covers the whole transfer: it is clear only if the channel is
\* disabled and nothing of s_tx_buf is left to send.
Inv ==
  /\ Len(tmp) <= RingCap
  /\ dma.left <= Len(txbuf)
  /\ dma.on => busy /\ pc \notin {"copy", "mark", "arm"}
  /\ pc = "arm" => busy
  /\ pc \in {"copy", "mark"} => ~busy
  /\ busy => dma.on \/ pc = "arm"
  /\ ~dma.on => dma.left = 0 /\ ~dma.ftf
  /\ dma.on => (dma.ftf <=> dma.left = 0)
  /\ pc \notin {"send", "copy"} => tmp = <<>>
  /\ pc \in {"mark", "arm"} => txbuf # <<>>
  /\ pc \in {"send", "copy"} => tmp # <<>>

\* Whatever is queued is handed to the UART (the loop of main.c:148-153).
QueueDrains == ring # <<>> ~> ring = <<>>

\* A transfer ends and its end is noticed: the main loop never waits for
\* ever at line 81.
TransferEnds == busy ~> ~busy
=============================================================================
