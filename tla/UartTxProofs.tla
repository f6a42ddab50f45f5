---------------------------- MODULE UartTxProofs ----------------------------
(***************************************************************************)
(* Proofs about UartTx, for every set of messages and every pair of buffer *)
(* sizes in which the ring fits the transmit buffer.                       *)
(***************************************************************************)
EXTENDS UartTx, SequenceTheorems, TLAPS

\* What rb_push_blk accepts is a prefix of the message that fits the ring.
LEMMA AcceptedFits ==
  ASSUME TypeOK, NEW m \in Message
  PROVE  /\ Accepted(m) \in Seq(Byte)
         /\ Len(ring \o Accepted(m)) <= RingCap
         /\ ring \o Accepted(m) \in Seq(Byte)
<1> DEFINE room == RingCap - Len(ring)
           k == IF Len(m) <= room THEN Len(m) ELSE room
<1>1. m \in Seq(Byte) /\ Len(m) \in Nat
  BY MessageAssumption
<1>2. room \in Nat
  BY RingFitsBuffer DEF TypeOK
<1> HIDE DEF room
<1>3. k \in Nat /\ k <= Len(m) /\ k <= room
  BY <1>1, <1>2
<1> HIDE DEF k
<1>4. SubSeq(m, 1, k) \in Seq(Byte) /\ Len(SubSeq(m, 1, k)) = k
  BY <1>1, <1>3
<1>5. Accepted(m) = SubSeq(m, 1, k)
  BY DEF Accepted, k, room
<1>6. Len(ring \o Accepted(m)) = Len(ring) + k
  BY <1>4, <1>5, ConcatProperties DEF TypeOK
<1> QED BY <1>3, <1>4, <1>5, <1>6, ConcatProperties, RingFitsBuffer
        DEF TypeOK, room

\* Concatenation of byte sequences is associative.
LEMMA BytesAssociative ==
  ASSUME NEW r \in Seq(Byte), NEW s \in Seq(Byte), NEW t \in Seq(Byte)
  PROVE  (r \o s) \o t = r \o (s \o t)
BY ConcatAssociative

LEMMA InitInductive == Init => TypeOK /\ Inv
<1> SUFFICES ASSUME Init
             PROVE  TypeOK /\ Inv
  OBVIOUS
<1>1. dma \in [on : BOOLEAN, left : 0 .. TxBufSize, ftf : BOOLEAN]
  BY RingFitsBuffer DEF Init
<1>2. dma.on = FALSE /\ dma.left = 0 /\ dma.ftf = FALSE
  BY DEF Init
<1>3. TypeOK
  <2>1. <<>> \in Seq(Byte) /\ Len(<<>>) = 0
    BY EmptySeq
  <2>2. /\ ring = <<>> /\ tmp = <<>> /\ txbuf = <<>>
        /\ pc = "loop" /\ busy = FALSE /\ line \in Byte
    BY DEF Init
  <2>3. 0 <= RingCap /\ 0 <= TxBufSize
    BY RingFitsBuffer
  <2>4. pc \in MainPC /\ busy \in BOOLEAN
    BY <2>2 DEF MainPC
  <2> QED BY <1>1, <2>1, <2>2, <2>3, <2>4 DEF TypeOK
<1>4. ~dma.on /\ ~dma.ftf /\ ~busy
  BY <1>2 DEF Init
<1>5. Inv
  BY <1>2, <1>4, RingFitsBuffer DEF Init, Inv
<1> QED BY <1>3, <1>5

LEMMA NextInductive == TypeOK /\ Inv /\ [Next]_vars => TypeOK' /\ Inv'
<1> SUFFICES ASSUME TypeOK, Inv, [Next]_vars
             PROVE  TypeOK' /\ Inv'
  OBVIOUS
<1> USE RingFitsBuffer DEF TypeOK, Inv, MainPC
<1>1. ASSUME NEW m \in Message, uart_port_send(m)
      PROVE  TypeOK' /\ Inv'
  <2>1. ring' \in Seq(Byte) /\ Len(ring') <= RingCap
    BY <1>1, AcceptedFits DEF uart_port_send
  <2> QED BY <1>1, <2>1 DEF uart_port_send
<1>2. CASE uart_bridge_drain_tx
  BY <1>2 DEF uart_bridge_drain_tx
<1>3. CASE SendWait
  BY <1>3 DEF SendWait
<1>4. CASE SendCopy
  BY <1>4 DEF SendCopy
<1>5. CASE SendMark
  BY <1>5 DEF SendMark
<1>6. CASE SendArm
  <2>1. Len(txbuf) \in 0 .. TxBufSize /\ Len(txbuf) # 0
    BY <1>6, EmptySeq DEF SendArm
  <2>2. /\ dma'.on /\ dma'.left = Len(txbuf) /\ dma'.ftf = dma.ftf
        /\ dma' \in [on : BOOLEAN, left : 0 .. TxBufSize, ftf : BOOLEAN]
    BY <1>6, <2>1 DEF SendArm
  <2>3. ~dma.ftf
    BY <1>6 DEF SendArm
  <2> QED BY <1>6, <2>1, <2>2, <2>3 DEF SendArm
<1>7. CASE DmaMove
  <2>1. dma.left \in 1 .. Len(txbuf) /\ dma.left - 1 \in 0 .. TxBufSize
    BY <1>7 DEF DmaMove
  <2>2. line' \in Byte
    BY <1>7, <2>1, ElementOfSeq DEF DmaMove
  <2>3. /\ dma'.on /\ dma'.left = dma.left - 1
        /\ dma'.ftf <=> dma.left = 1
        /\ dma' \in [on : BOOLEAN, left : 0 .. TxBufSize, ftf : BOOLEAN]
    BY <1>7, <2>1 DEF DmaMove
  <2> QED BY <1>7, <2>1, <2>2, <2>3 DEF DmaMove
<1>8. CASE DMA_Channel1_2_IRQHandler
  BY <1>8 DEF DMA_Channel1_2_IRQHandler
<1>9. CASE UNCHANGED vars
  BY <1>9 DEF vars
<1> QED
  BY <1>1, <1>2, <1>3, <1>4, <1>5, <1>6, <1>7, <1>8, <1>9 DEF Next, Send

\* The busy flag, the channel, its interrupt and the main loop agree
\* (bsp_uart_midi.c:77-89, 118-126).
THEOREM Invariance == Spec => [](TypeOK /\ Inv)
BY InitInductive, NextInductive, PTL DEF Spec

\* The queue never holds more than the ring, nor a transfer more than the buffer
\* (uart_midi_bridge.c:28-46).
THEOREM TypeCorrect == Spec => []TypeOK
BY Invariance, PTL

-----------------------------------------------------------------------------
\* No store into s_tx_buf while the channel reads it.
THEOREM BufferNotTorn == Spec => BufferStable
<1>1. TypeOK /\ Inv /\ [Next]_vars => [dma.on => txbuf' = txbuf]_vars
  BY DEF Inv, Next, Send, uart_port_send, uart_bridge_drain_tx, SendWait,
         SendCopy, SendMark, SendArm, DmaMove, DMA_Channel1_2_IRQHandler, vars
<1> QED BY <1>1, Invariance, PTL DEF Spec, BufferStable

-----------------------------------------------------------------------------
(* The refinement of ByteStream.                                           *)

LEMMA PendingIsSeq ==
  ASSUME TypeOK, Inv
  PROVE  InFlight \in Seq(Byte) /\ InFlight \o tmp \in Seq(Byte)
         /\ Pending \in Seq(Byte)
<1>1. dma.left \in Nat /\ Len(txbuf) \in Nat /\ dma.left <= Len(txbuf)
  BY DEF TypeOK, Inv
<1>2. SubSeq(txbuf, Len(txbuf) - dma.left + 1, Len(txbuf)) \in Seq(Byte)
  BY <1>1, SubSeqProperties, ElementOfSeq DEF TypeOK
<1>3. InFlight \in Seq(Byte)
  BY <1>2 DEF InFlight, TypeOK
<1> QED BY <1>3, ConcatProperties DEF Pending, TypeOK

\* Between transfers nothing of s_tx_buf is in flight.
LEMMA NothingInFlight ==
  ASSUME TypeOK, Inv, ~dma.on, pc \notin {"mark", "arm"}
  PROVE  InFlight = <<>>
<1>1. dma.left = 0 /\ Len(txbuf) \in Nat
  BY DEF Inv, TypeOK
<1>2. SubSeq(txbuf, Len(txbuf) - 0 + 1, Len(txbuf)) = <<>>
  BY <1>1, SubSeqEmpty
<1> QED BY <1>1, <1>2 DEF InFlight

LEMMA InitStream == Init => Stream!Init
<1> SUFFICES ASSUME Init
             PROVE  Stream!Init
  OBVIOUS
<1>1. InFlight = <<>>
  BY InitInductive, NothingInFlight DEF Init
<1>2. Pending = <<>> \o <<>> \o <<>>
  BY <1>1 DEF Pending, Init
<1>3. Pending = <<>>
  BY <1>2
<1> QED BY <1>3 DEF Stream!Init, Init

LEMMA NextStream ==
  TypeOK /\ Inv /\ [Next]_vars => [Stream!Next]_(Stream!vars)
<1> SUFFICES ASSUME TypeOK, Inv, [Next]_vars
             PROVE  [Stream!Next]_(Stream!vars)
  OBVIOUS
<1>0. /\ ring \in Seq(Byte) /\ tmp \in Seq(Byte) /\ txbuf \in Seq(Byte)
      /\ InFlight \in Seq(Byte) /\ InFlight \o tmp \in Seq(Byte)
      /\ Pending \in Seq(Byte)
      /\ dma.left \in Nat /\ Len(txbuf) \in Nat /\ dma.left <= Len(txbuf)
  BY PendingIsSeq DEF TypeOK, Inv
<1>1. ASSUME NEW m \in Message, uart_port_send(m)
      PROVE  Stream!Next
  <2> DEFINE new == Accepted(m)
             old == InFlight \o tmp
  <2>1. new \in Seq(Byte)
    BY AcceptedFits
  <2>2. Pending = old \o ring /\ Pending' = old \o (ring \o new)
        /\ line' = line
    BY <1>1 DEF uart_port_send, Pending, InFlight
  <2> HIDE DEF new, old
  <2>3. old \in Seq(Byte)
    BY <1>0 DEF old
  <2>4. Pending' = Pending \o new
    <3>1. (old \o ring) \o new = old \o (ring \o new)
      BY <1>0, <2>1, <2>3, BytesAssociative
    <3> QED BY <2>2, <3>1
  <2>5. Len(Pending') = Len(Pending) + Len(new)
    BY <1>0, <2>1, <2>4, ConcatProperties
  <2>6. SubSeq(Pending', 1, Len(Pending)) = Pending
    BY <1>0, <2>1, <2>4
  <2>7. Len(Pending') >= Len(Pending)
    BY <1>0, <2>1, <2>5
  <2> QED BY <2>2, <2>6, <2>7 DEF Stream!Next, Stream!Accept
<1>2. CASE uart_bridge_drain_tx
  <2>1. /\ ~dma.on /\ pc \notin {"mark", "arm"} /\ tmp = <<>>
        /\ InFlight' = InFlight /\ tmp' = ring /\ ring' = <<>> /\ line' = line
    BY <1>2 DEF uart_bridge_drain_tx, Inv, InFlight
  <2>2. InFlight = <<>>
    BY <2>1, NothingInFlight
  <2>3. Pending = <<>> \o <<>> \o ring /\ Pending' = <<>> \o ring \o <<>>
    BY <2>1, <2>2 DEF Pending
  <2>4. Pending' = Pending
    BY <1>0, <2>3, ConcatEmptySeq
  <2> QED BY <2>1, <2>4 DEF Stream!vars
<1>3. CASE SendWait
  <2>1. Len(tmp) <= TxBufSize
    BY DEF TypeOK
  <2>2. ~(Len(tmp) > TxBufSize)
    BY <1>0, <2>1, RingFitsBuffer
  <2>3. /\ tmp' = tmp /\ ring' = ring /\ txbuf' = txbuf /\ dma' = dma
        /\ line' = line /\ pc = "send" /\ pc' = "copy"
    BY <1>3, <2>2 DEF SendWait
  <2>4. InFlight' = InFlight
    BY <2>3 DEF InFlight
  <2>5. Pending' = Pending
    BY <2>3, <2>4 DEF Pending
  <2> QED BY <2>3, <2>5 DEF Stream!vars
<1>4. CASE SendCopy
  <2>1. ~dma.on /\ pc \notin {"mark", "arm"}
    BY <1>4 DEF SendCopy, Inv
  <2>2. InFlight = <<>>
    BY <2>1, NothingInFlight
  <2>3. /\ InFlight' = tmp /\ tmp' = <<>> /\ ring' = ring /\ line' = line
    BY <1>4 DEF SendCopy, InFlight
  <2>4. Pending = <<>> \o tmp \o ring /\ Pending' = tmp \o <<>> \o ring
    BY <2>2, <2>3 DEF Pending
  <2>5. Pending' = Pending
    BY <1>0, <2>4, ConcatEmptySeq
  <2> QED BY <2>3, <2>5 DEF Stream!vars
<1>5. CASE SendMark
  BY <1>5 DEF SendMark, Pending, InFlight, Stream!vars
<1>6. CASE SendArm
  <2>1. dma'.left = Len(txbuf) /\ txbuf' = txbuf /\ pc = "arm" /\ pc' = "loop"
        /\ tmp' = tmp /\ ring' = ring /\ line' = line
    BY <1>6 DEF SendArm, TypeOK
  <2>2. SubSeq(txbuf, Len(txbuf) - Len(txbuf) + 1, Len(txbuf)) = txbuf
    BY <1>0, SubSeqFull
  <2>3. InFlight' = InFlight
    BY <2>1, <2>2 DEF InFlight
  <2> QED BY <2>1, <2>3 DEF Pending, Stream!vars
<1>7. CASE DmaMove
  <2> DEFINE i == Len(txbuf) - dma.left + 1
             n == Len(txbuf)
             rest == tmp \o ring
  <2>1. /\ line' = txbuf[i] /\ dma'.left = dma.left - 1 /\ dma.left > 0
        /\ txbuf' = txbuf /\ tmp' = tmp /\ ring' = ring /\ pc' = pc
        /\ pc \notin {"mark", "arm"}
    BY <1>7 DEF DmaMove, TypeOK, Inv
  <2>2. i \in 1 .. n /\ n \in i .. n /\ n - (dma.left - 1) + 1 = i + 1
    BY <1>0, <2>1
  <2>3. InFlight = SubSeq(txbuf, i, n) /\ InFlight' = SubSeq(txbuf, i + 1, n)
    BY <2>1, <2>2 DEF InFlight
  <2>4. Head(InFlight) = line' /\ Tail(InFlight) = InFlight'
    BY <1>0, <2>1, <2>2, <2>3, HeadTailOfSubSeq
  <2>5. InFlight # <<>>
    <3>1. Len(InFlight) = n - i + 1
      BY <1>0, <2>2, <2>3, SubSeqProperties, ElementOfSeq
    <3> QED BY <2>2, <3>1, EmptySeq
  <2>6. InFlight' \in Seq(Byte) /\ rest \in Seq(Byte)
    BY <1>0, <2>4, <2>5, HeadTailProperties, ConcatProperties
  <2>7. /\ Pending = InFlight \o rest
        /\ Pending' = InFlight' \o rest
    <3>1. (InFlight \o tmp) \o ring = InFlight \o (tmp \o ring)
      BY <1>0, BytesAssociative
    <3>2. (InFlight' \o tmp) \o ring = InFlight' \o (tmp \o ring)
      <4> DEFINE later == InFlight'
      <4>1. later \in Seq(Byte)
        BY <2>6
      <4> HIDE DEF later
      <4>2. (later \o tmp) \o ring = later \o (tmp \o ring)
        BY <1>0, <4>1, BytesAssociative
      <4> QED BY <4>2 DEF later
    <3>3. Pending' = (InFlight' \o tmp) \o ring
      BY <2>1 DEF Pending
    <3> QED BY <3>1, <3>2, <3>3 DEF Pending
  <2> HIDE DEF rest, i, n
  <2>8. Pending # <<>>
    BY <1>0, <2>5, <2>6, <2>7, ConcatEqualIffEmpty
  <2>9. Head(Pending) = Head(InFlight)
    BY <1>0, <2>5, <2>6, <2>7
  <2>10. Tail(Pending) = Pending'
    <3>1. Tail(InFlight \o rest) = Tail(InFlight) \o rest
      BY <1>0, <2>5, <2>6
    <3> QED BY <2>4, <2>7, <3>1
  <2> QED BY <2>4, <2>8, <2>9, <2>10 DEF Stream!Next, Stream!Emit
<1>8. CASE DMA_Channel1_2_IRQHandler
  <2>1. dma'.left = dma.left /\ txbuf' = txbuf /\ pc' = pc /\ tmp' = tmp
        /\ ring' = ring /\ line' = line
    BY <1>8 DEF DMA_Channel1_2_IRQHandler, TypeOK
  <2> QED BY <2>1 DEF Pending, InFlight, Stream!vars
<1>9. CASE UNCHANGED vars
  BY <1>9 DEF vars, Pending, InFlight, Stream!vars
<1> QED
  BY <1>1, <1>2, <1>3, <1>4, <1>5, <1>6, <1>7, <1>8, <1>9 DEF Next, Send

\* Everything uart_port_send accepts leaves the device once, unaltered and
\* in order, whenever the transfers and their interrupts happen.
THEOREM TransmitsInOrder == Spec => ImplementsStream
<1>1. ImplementsStream <=> Stream!Init /\ [][Stream!Next]_(Stream!vars)
  BY DEF ImplementsStream, Stream!Spec
<1> QED BY <1>1, InitStream, NextStream, Invariance, PTL DEF Spec
=============================================================================
