---------------------------- MODULE UsbRxProofs ----------------------------
(***************************************************************************)
(* Reception from USB, for every ring and poll buffer and every set of     *)
(* transfers: the interrupt may push between any two pops, yet packets     *)
(* stay whole until one is pushed in part.                                 *)
(***************************************************************************)
EXTENDS UsbRx, SequenceTheorems, TLAPS

\* No packet is held between two of them, and while one is popped or decoded
\* there is room for what comes of it.
Control ==
  /\ pc \in {"idle", "test"} => pkt = <<>>
  /\ pc \in {"pop", "decode"} => out + 3 <= MaxOut

IInv == TypeOK /\ Control /\ FramedUnlessCut /\ PopsFour /\ OutFits

-----------------------------------------------------------------------------
\* The bytes of a transfer are whole packets.
LEMMA TransferFramed ==
  ASSUME NEW t \in Transfer
  PROVE  /\ 4 * Len(t) \in Nat
         /\ Bytes(t) \in Seq(Byte)
         /\ Len(Bytes(t)) = 4 * Len(t)
         /\ \A i \in 1 .. 4 * Len(t) : Bytes(t)[i].pos = (i - 1) % 4
<1>1. PICK n \in 1 .. TransferPackets : t \in [1 .. n -> Cin]
  BY DEF Transfer
<1>2. n \in Nat /\ Len(t) = n
  BY <1>1, UsbRxAssumption
<1>3. \A i \in 1 .. 4 * n : ((i - 1) \div 4) + 1 \in 1 .. n /\ (i - 1) % 4 \in 0 .. 3
  BY <1>2
<1>4. Bytes(t) = [i \in 1 .. 4 * n |-> [cin |-> t[((i - 1) \div 4) + 1],
                                        pos |-> (i - 1) % 4]]
  BY <1>2 DEF Bytes
<1>5. Bytes(t) \in [1 .. 4 * n -> Byte]
  BY <1>1, <1>3, <1>4 DEF Byte
<1>6. 4 * n \in Nat
  BY <1>2
<1>. QED  BY <1>2, <1>4, <1>5, <1>6

\* A push takes a beginning of the transfer that fits the ring.
LEMMA AcceptedFits ==
  ASSUME TypeOK, NEW n \in Nat
  PROVE  Accepted(n) \in 0 .. n /\ Len(ring) + Accepted(n) < RingSize
BY UsbRxAssumption DEF TypeOK, Accepted

LEMMA InitInductive == Init => IInv
<1>. SUFFICES ASSUME Init
              PROVE  IInv
  OBVIOUS
<1>1. <<>> \in Seq(Byte) /\ Len(<<>>) = 0
  BY EmptySeq
<1>2. ring = <<>> /\ pkt = <<>> /\ pc = "idle" /\ out = 0 /\ cut = FALSE /\ line = <<>>
  BY DEF Init
<1>3. TypeOK
  <2>1. Len(ring) < RingSize /\ Len(pkt) <= 4 /\ Len(line) <= 4
    BY <1>1, <1>2, UsbRxAssumption
  <2>. QED  BY <1>1, <1>2, <2>1 DEF TypeOK
<1>. QED  BY <1>1, <1>2, <1>3, UsbRxAssumption
          DEF IInv, Control, FramedUnlessCut, PopsFour, OutFits

-----------------------------------------------------------------------------
LEMMA PushInductive ==
  ASSUME IInv, NEW t \in Transfer, usb_rx_isr_cb(t)
  PROVE  IInv'
<1>. DEFINE n == Accepted(4 * Len(t))
            new == SubSeq(Bytes(t), 1, n)
            R == Len(ring)
            P == Len(pkt)
<1>1. /\ TypeOK /\ Control /\ FramedUnlessCut /\ PopsFour /\ OutFits
      /\ ring \in Seq(Byte) /\ pkt \in Seq(Byte) /\ R \in Nat /\ P \in Nat
  BY DEF IInv, TypeOK
<1>2. n \in 0 .. 4 * Len(t) /\ R + n < RingSize /\ 4 * Len(t) \in Nat
  BY <1>1, TransferFramed, AcceptedFits
<1>3. /\ cut' = (cut \/ n % 4 # 0)
      /\ ring' = ring \o new
      /\ pkt' = pkt /\ pc' = pc /\ out' = out /\ line' = line
  BY DEF usb_rx_isr_cb
<1>2a. n \in Nat
  BY <1>2
<1>. HIDE DEF n
<1>4. /\ new \in Seq(Byte) /\ Len(new) = n
      /\ \A i \in 1 .. n : new[i] = Bytes(t)[i]
  <2>1. \A i \in 1 .. n : Bytes(t)[i] \in Byte
    BY <1>2, TransferFramed, ElementOfSeq
  <2>2. 1 \in Int /\ n \in Int
    BY <1>2
  <2>3. /\ new \in Seq(Byte) /\ Len(new) = IF 1 <= n THEN n - 1 + 1 ELSE 0
        /\ \A i \in 1 .. n - 1 + 1 : new[i] = Bytes(t)[1 + i - 1]
    BY <2>1, <2>2, SubSeqProperties
  <2>. QED  BY <1>2, <2>3
<1>5. \A i \in 1 .. n : new[i].pos = (i - 1) % 4
  BY <1>2, <1>4, TransferFramed
<1>. HIDE DEF new, R, P
<1>6. /\ ring' \in Seq(Byte) /\ Len(ring') = R + n
      /\ \A i \in 1 .. R + n : ring'[i] = IF i <= R THEN ring[i] ELSE new[i - R]
  BY <1>1, <1>3, <1>4, ConcatProperties DEF R
<1>7. TypeOK'
  <2>1. cut' \in BOOLEAN
    BY <1>1, <1>3 DEF TypeOK
  <2>. QED  BY <1>1, <1>2, <1>3, <1>6, <2>1 DEF TypeOK
<1>8. FramedUnlessCut'
  <2>. SUFFICES ASSUME ~cut, n % 4 = 0
                PROVE  /\ \A i \in 1 .. P : pkt[i].pos = i - 1
                       /\ \A i \in 1 .. R + n : ring'[i].pos = (P + i - 1) % 4
                       /\ (P + (R + n)) % 4 = 0
    BY <1>3, <1>6 DEF FramedUnlessCut, P
  <2>1. /\ \A i \in 1 .. P : pkt[i].pos = i - 1
        /\ \A i \in 1 .. R : ring[i].pos = (P + i - 1) % 4
        /\ (P + R) % 4 = 0
    BY <1>1 DEF FramedUnlessCut, P, R
  <2>2. ASSUME NEW i \in 1 .. R + n
        PROVE  ring'[i].pos = (P + i - 1) % 4
    <3>1. CASE i <= R
      BY <1>1, <1>2, <1>6, <2>1, <3>1
    <3>2. CASE i > R
      <4>0. i \in Int /\ i - R \in 1 .. n
        BY <1>1, <1>2a, <3>2
      <4>1. i - R \in 1 .. n /\ ring'[i] = new[i - R]
        BY <1>1, <1>6, <3>2, <4>0
      <4>2. ring'[i].pos = ((i - R) - 1) % 4
        BY <1>5, <4>1
      <4>3. ((i - R) - 1) % 4 = (P + i - 1) % 4
        <5>1. P \in Int /\ R \in Int /\ i \in Int /\ (P + R) % 4 = 0
          BY <1>1, <2>1, <4>0
        <5>. QED  BY <5>1
      <4>. QED  BY <4>2, <4>3
    <3>. QED  BY <1>1, <1>2, <3>1, <3>2
  <2>3. (P + (R + n)) % 4 = 0
    BY <1>1, <1>2, <2>1
  <2>. QED  BY <2>1, <2>2, <2>3
<1>9. PopsFour'
  BY <1>1, <1>2, <1>3, <1>6 DEF PopsFour, P, R
<1>. QED  BY <1>1, <1>3, <1>7, <1>8, <1>9 DEF IInv, Control, OutFits

LEMMA PopInductive ==
  ASSUME IInv, PopByte
  PROVE  IInv'
<1>. DEFINE R == Len(ring)
            P == Len(pkt)
<1>1. /\ TypeOK /\ Control /\ FramedUnlessCut /\ PopsFour /\ OutFits
      /\ ring \in Seq(Byte) /\ pkt \in Seq(Byte) /\ R \in Nat /\ P \in Nat
  BY DEF IInv, TypeOK
<1>2. /\ pc = "pop" /\ P < 4 /\ ring # <<>>
      /\ pkt' = Append(pkt, Head(ring)) /\ ring' = Tail(ring)
      /\ pc' = pc /\ out' = out /\ cut' = cut /\ line' = line
  BY DEF PopByte, PacketLength
<1>3. R # 0 /\ Head(ring) = ring[1] /\ Head(ring) \in Byte
  BY <1>1, <1>2, HeadTailProperties, EmptySeq
<1>4. /\ ring' \in Seq(Byte) /\ Len(ring') = R - 1
      /\ \A i \in 1 .. R - 1 : ring'[i] = ring[i + 1]
  BY <1>1, <1>2, HeadTailProperties
<1>5. /\ pkt' \in Seq(Byte) /\ Len(pkt') = P + 1
      /\ \A i \in 1 .. P : pkt'[i] = pkt[i]
      /\ pkt'[P + 1] = ring[1]
  BY <1>1, <1>2, <1>3, AppendProperties
<1>. HIDE DEF R, P
<1>6. TypeOK'
  <2>1. R < RingSize
    BY <1>1 DEF TypeOK, R
  <2>2. R - 1 < RingSize /\ P + 1 <= 4
    BY <1>1, <1>2, <2>1, UsbRxAssumption
  <2>. QED  BY <1>1, <1>2, <1>4, <1>5, <2>2 DEF TypeOK
<1>7. FramedUnlessCut'
  <2>. SUFFICES ASSUME ~cut
                PROVE  /\ \A i \in 1 .. P + 1 : pkt'[i].pos = i - 1
                       /\ \A i \in 1 .. R - 1 : ring'[i].pos = (P + 1 + i - 1) % 4
                       /\ (P + 1 + (R - 1)) % 4 = 0
    BY <1>2, <1>4, <1>5 DEF FramedUnlessCut
  <2>1. /\ \A i \in 1 .. P : pkt[i].pos = i - 1
        /\ \A i \in 1 .. R : ring[i].pos = (P + i - 1) % 4
        /\ (P + R) % 4 = 0
    BY <1>1 DEF FramedUnlessCut, P, R
  <2>2. ASSUME NEW i \in 1 .. P + 1
        PROVE  pkt'[i].pos = i - 1
    <3>1. CASE i = P + 1
      <4>1. ring[1].pos = (P + 1 - 1) % 4
        BY <1>1, <1>3, <2>1
      <4>2. P \in 0 .. 3 /\ P + 1 - 1 = P /\ i - 1 = P
        BY <1>1, <1>2, <3>1
      <4>3. P % 4 = P
        BY <4>2
      <4>. QED  BY <1>5, <3>1, <4>1, <4>2, <4>3
    <3>2. CASE i # P + 1
      <4>1. i \in 1 .. P
        BY <1>1, <3>2
      <4>. QED  BY <1>5, <2>1, <4>1
    <3>. QED  BY <3>1, <3>2
  <2>3. ASSUME NEW i \in 1 .. R - 1
        PROVE  ring'[i].pos = (P + 1 + i - 1) % 4
    <3>1. i + 1 \in 1 .. R /\ P + (i + 1) - 1 = P + 1 + i - 1
      BY <1>1
    <3>. QED  BY <1>4, <2>1, <3>1
  <2>4. P + 1 + (R - 1) = P + R
    BY <1>1
  <2>. QED  BY <2>1, <2>2, <2>3, <2>4
<1>8. PopsFour'
  <2>1. P + R >= 4
    BY <1>1, <1>2 DEF PopsFour, P, R
  <2>2. P + 1 + (R - 1) >= 4
    BY <1>1, <2>1
  <2>. QED  BY <1>2, <1>4, <1>5, <2>2 DEF PopsFour
<1>. QED  BY <1>1, <1>2, <1>6, <1>7, <1>8 DEF IInv, Control, OutFits

\* What a packet decodes to has room where the test was passed.
LEMMA DecodeInductive ==
  ASSUME IInv, Decode
  PROVE  IInv'
<1>1. /\ TypeOK /\ Control /\ FramedUnlessCut /\ PopsFour /\ OutFits
      /\ ring \in Seq(Byte) /\ pkt \in Seq(Byte) /\ out \in Nat
      /\ Len(ring) \in Nat
  BY DEF IInv, TypeOK
<1>2. /\ pc = "decode" /\ pkt' = <<>> /\ pc' = "test"
      /\ ring' = ring /\ cut' = cut /\ line' = pkt
  BY DEF Decode
<1>3. PICK cin \in IF IsPacket(pkt) THEN {pkt[1].cin} ELSE DOMAIN Length :
        out' = out + Length[cin]
  BY DEF Decode
<1>4. cin \in DOMAIN Length
  <2>1. CASE IsPacket(pkt)
    <3>0. Len(pkt) = 4 /\ 1 \in 1 .. 4
      BY <2>1 DEF IsPacket
    <3>1. pkt[1] \in Byte
      BY <1>1, <3>0, ElementOfSeq
    <3>. QED  BY <1>3, <2>1, <3>1, UsbRxAssumption DEF Byte
  <2>. QED  BY <1>3, <2>1
<1>5. Length[cin] \in 0 .. 3
  BY <1>4 DEF Length
<1>6. out' \in Nat /\ out' <= MaxOut
  BY <1>1, <1>2, <1>3, <1>5, UsbRxAssumption DEF Control
<1>7. <<>> \in Seq(Byte) /\ Len(<<>>) = 0
  BY EmptySeq
<1>8. TypeOK'
  BY <1>1, <1>2, <1>6, <1>7 DEF TypeOK
<1>9. FramedUnlessCut'
  <2>. SUFFICES ASSUME ~cut
                PROVE  /\ \A i \in 1 .. Len(ring) : ring[i].pos = (0 + i - 1) % 4
                       /\ (0 + Len(ring)) % 4 = 0
    BY <1>2, <1>7 DEF FramedUnlessCut
  <2>1. Len(pkt) = 4
    BY <1>1, <1>2 DEF PopsFour
  <2>2. /\ \A i \in 1 .. Len(ring) : ring[i].pos = (4 + i - 1) % 4
        /\ (4 + Len(ring)) % 4 = 0
    BY <1>1, <2>1 DEF FramedUnlessCut
  <2>3. (0 + Len(ring)) % 4 = 0
    BY <1>1, <2>2
  <2>4. \A i \in 1 .. Len(ring) : (4 + i - 1) % 4 = (0 + i - 1) % 4
    BY <1>1
  <2>. QED  BY <2>2, <2>3, <2>4
<1>. QED  BY <1>2, <1>6, <1>8, <1>9 DEF IInv, Control, PopsFour, OutFits

LEMMA NextInductive == IInv /\ [Next]_vars => IInv'
<1>. SUFFICES ASSUME IInv, [Next]_vars
              PROVE  IInv'
  OBVIOUS
<1>1. /\ TypeOK /\ Control /\ FramedUnlessCut /\ PopsFour /\ OutFits
      /\ Len(ring) \in Nat /\ Len(pkt) \in Nat /\ out \in Nat
  BY DEF IInv, TypeOK
<1>2. ASSUME PollCall
      PROVE  IInv'
  <2>1. pc = "idle" /\ pc' = "test" /\ out' = 0
        /\ ring' = ring /\ pkt' = pkt /\ cut' = cut /\ line' = line
    BY <1>2 DEF PollCall
  <2>. QED  BY <1>1, <2>1, UsbRxAssumption
            DEF IInv, TypeOK, Control, FramedUnlessCut, PopsFour, OutFits
<1>3. ASSUME PollTest
      PROVE  IInv'
  <2>1. /\ pc = "test"
        /\ pc' = IF out + 3 <= MaxOut /\ Len(ring) >= 4 THEN "pop" ELSE "idle"
        /\ out' = out /\ ring' = ring /\ pkt' = pkt /\ cut' = cut
        /\ line' = line
    BY <1>3 DEF PollTest
  <2>2. pkt = <<>> /\ Len(pkt) = 0
    BY <1>1, <2>1, EmptySeq DEF Control
  <2>3. Control' /\ PopsFour'
    BY <1>1, <2>1, <2>2 DEF Control, PopsFour
  <2>4. TypeOK'
    BY <1>1, <2>1 DEF TypeOK
  <2>. QED  BY <1>1, <2>1, <2>3, <2>4 DEF IInv, FramedUnlessCut, OutFits
<1>4. ASSUME PopDone
      PROVE  IInv'
  <2>1. /\ pc = "pop" /\ pc' = "decode"
        /\ Len(pkt) >= 4 \/ ring = <<>>
        /\ out' = out /\ ring' = ring /\ pkt' = pkt /\ cut' = cut
        /\ line' = line
    BY <1>4 DEF PopDone, PacketLength
  <2>2. Len(pkt) = 4
    <3>1. Len(pkt) + Len(ring) >= 4 /\ Len(pkt) <= 4
      BY <1>1, <2>1 DEF PopsFour, TypeOK
    <3>2. ring = <<>> => Len(ring) = 0
      BY EmptySeq
    <3>3. Len(pkt) \in Nat /\ Len(ring) \in Nat
      BY <1>1
    <3>4. Len(pkt) >= 4
      <4>1. CASE ring = <<>>
        BY <3>1, <3>2, <3>3, <4>1
      <4>. QED  BY <2>1, <4>1
    <3>5. \A n \in Nat : n >= 4 /\ n <= 4 => n = 4
      OBVIOUS
    <3>. QED  BY <3>1, <3>3, <3>4, <3>5
  <2>3. TypeOK'
    BY <1>1, <2>1 DEF TypeOK
  <2>4. Control' /\ PopsFour'
    BY <1>1, <2>1, <2>2 DEF Control, PopsFour
  <2>. QED  BY <1>1, <2>1, <2>3, <2>4 DEF IInv, FramedUnlessCut, OutFits
<1>5. ASSUME UNCHANGED vars
      PROVE  IInv'
  BY <1>1, <1>5
     DEF vars, IInv, TypeOK, Control, FramedUnlessCut, PopsFour, OutFits
<1>. QED  BY <1>2, <1>3, <1>4, <1>5, PushInductive, PopInductive, DecodeInductive
          DEF Next, Main

LEMMA Invariance == Spec => []IInv
BY InitInductive, NextInductive, PTL DEF Spec

-----------------------------------------------------------------------------
(* Packets are decoded in order.                                           *)

\* The packets of a sequence of bytes.
LEMMA PacketsIs ==
  ASSUME NEW b \in Seq(Byte)
  PROVE  /\ Len(b) \div 4 \in Nat /\ 4 * (Len(b) \div 4) <= Len(b)
         /\ Packets(b) \in Seq(Seq(Byte))
         /\ Len(Packets(b)) = Len(b) \div 4
         /\ \A j \in 1 .. Len(b) \div 4 :
              Packets(b)[j] = <<b[4 * j - 3], b[4 * j - 2], b[4 * j - 1], b[4 * j]>>
<1>. DEFINE n == Len(b) \div 4
<1>1. n \in Nat /\ 4 * n <= Len(b) /\ Len(b) \in Nat
  BY LenProperties
<1>. HIDE DEF n
<1>2. ASSUME NEW j \in 1 .. n
      PROVE  <<b[4 * j - 3], b[4 * j - 2], b[4 * j - 1], b[4 * j]>> \in Seq(Byte)
  <2>1. \A i \in {4 * j - 3, 4 * j - 2, 4 * j - 1, 4 * j} : i \in 1 .. Len(b)
    BY <1>1
  <2>2. \A i \in {4 * j - 3, 4 * j - 2, 4 * j - 1, 4 * j} : b[i] \in Byte
    BY <2>1, ElementOfSeq
  <2>. QED  BY <2>2
<1>3. Packets(b) =
        [j \in 1 .. n |-> <<b[4 * j - 3], b[4 * j - 2], b[4 * j - 1], b[4 * j]>>]
  BY DEF Packets, n
<1>4. Packets(b) \in Seq(Seq(Byte)) /\ Len(Packets(b)) = n
  BY <1>1, <1>2, <1>3, IsASeq
<1>. QED  BY <1>1, <1>3, <1>4 DEF n

\* More bytes leave the packets before them as they were.
LEMMA PacketsGrow ==
  ASSUME NEW b \in Seq(Byte), NEW c \in Seq(Byte)
  PROVE  /\ Len(Packets(b \o c)) >= Len(Packets(b))
         /\ SubSeq(Packets(b \o c), 1, Len(Packets(b))) = Packets(b)
<1>. DEFINE u == Packets(b)
            v == Packets(b \o c)
            m == Len(b) \div 4
            n == Len(b \o c) \div 4
<1>1. /\ Len(b) \in Nat /\ Len(c) \in Nat
      /\ b \o c \in Seq(Byte) /\ Len(b \o c) = Len(b) + Len(c)
      /\ \A i \in 1 .. Len(b) : (b \o c)[i] = b[i]
  BY LenProperties, ConcatProperties
<1>2. m \in Nat /\ n \in Nat /\ m <= n /\ 4 * m <= Len(b)
  <2>1. \A x, y \in Nat : /\ x \div 4 \in Nat /\ (x + y) \div 4 \in Nat
                          /\ x \div 4 <= (x + y) \div 4 /\ 4 * (x \div 4) <= x
    OBVIOUS
  <2>. QED  BY <1>1, <2>1
<1>3. /\ u \in Seq(Seq(Byte)) /\ Len(u) = m
      /\ \A j \in 1 .. m : u[j] = <<b[4 * j - 3], b[4 * j - 2], b[4 * j - 1], b[4 * j]>>
  BY PacketsIs
<1>4. /\ v \in Seq(Seq(Byte)) /\ Len(v) = n
      /\ \A j \in 1 .. n :
           v[j] = <<(b \o c)[4 * j - 3], (b \o c)[4 * j - 2],
                    (b \o c)[4 * j - 1], (b \o c)[4 * j]>>
  BY <1>1, PacketsIs
<1>. HIDE DEF u, v, m, n
<1>5. ASSUME NEW j \in 1 .. m
      PROVE  v[j] = u[j] /\ v[j] \in Seq(Byte)
  <2>1. j \in 1 .. n
    BY <1>2
  <2>2. \A i \in {4 * j - 3, 4 * j - 2, 4 * j - 1, 4 * j} : i \in 1 .. Len(b)
    BY <1>1, <1>2
  <2>3. v[j] = <<b[4 * j - 3], b[4 * j - 2], b[4 * j - 1], b[4 * j]>>
    BY <1>1, <1>4, <2>1, <2>2
  <2>4. v[j] \in Seq(Byte)
    BY <1>4, <2>1, ElementOfSeq
  <2>. QED  BY <1>3, <2>3, <2>4
<1>6. SubSeq(v, 1, m) = u
  <2>1. /\ SubSeq(v, 1, m) \in Seq(Seq(Byte))
        /\ Len(SubSeq(v, 1, m)) = IF 1 <= m THEN m - 1 + 1 ELSE 0
        /\ \A j \in 1 .. m - 1 + 1 : SubSeq(v, 1, m)[j] = v[1 + j - 1]
    BY <1>2, <1>5, SubSeqProperties
  <2>2. /\ m - 1 + 1 = m /\ \A j \in 1 .. m : 1 + j - 1 = j
        /\ (IF 1 <= m THEN m - 1 + 1 ELSE 0) = m
    BY <1>2
  <2>3. Len(SubSeq(v, 1, m)) = m /\ \A j \in 1 .. m : SubSeq(v, 1, m)[j] = u[j]
    BY <1>5, <2>1, <2>2
  <2>. QED  BY <1>3, <2>1, <2>3, SeqEqual
<1>. QED  BY <1>2, <1>3, <1>4, <1>6 DEF u, v

\* A packet in front of the others is the first of them.
LEMMA PacketsHead ==
  ASSUME NEW p \in Seq(Byte), Len(p) = 4, NEW b \in Seq(Byte)
  PROVE  /\ Packets(p \o b) # <<>>
         /\ Head(Packets(p \o b)) = p
         /\ Tail(Packets(p \o b)) = Packets(b)
<1>. DEFINE u == Packets(b)
            v == Packets(p \o b)
            c == p \o b
            n == Len(b) \div 4
<1>1. /\ Len(b) \in Nat /\ c \in Seq(Byte) /\ Len(c) = 4 + Len(b)
      /\ \A i \in 1 .. 4 : c[i] = p[i]
      /\ \A i \in 1 .. Len(b) : c[4 + i] = b[i]
  <2>0. /\ Len(b) \in Nat /\ c \in Seq(Byte) /\ Len(c) = Len(p) + Len(b)
        /\ \A i \in 1 .. Len(p) + Len(b) :
             c[i] = IF i <= Len(p) THEN p[i] ELSE b[i - Len(p)]
    BY LenProperties, ConcatProperties
  <2>. HIDE DEF c
  <2>1. Len(b) \in Nat /\ c \in Seq(Byte) /\ Len(c) = 4 + Len(b)
    BY <2>0
  <2>2. \A i \in 1 .. 4 + Len(b) : c[i] = IF i <= 4 THEN p[i] ELSE b[i - 4]
    BY <2>0
  <2>3. \A i \in 1 .. 4 : c[i] = p[i]
    BY <2>1, <2>2
  <2>4. \A i \in 1 .. Len(b) : c[4 + i] = b[i]
    <3>1. \A i \in 1 .. Len(b) : /\ 4 + i \in 1 .. 4 + Len(b) /\ ~(4 + i <= 4)
                                /\ 4 + i - 4 = i
      BY <2>1
    <3>. QED  BY <2>2, <3>1
  <2>. QED  BY <2>1, <2>3, <2>4
<1>2. n \in Nat /\ 4 * n <= Len(b) /\ (4 + Len(b)) \div 4 = n + 1
  BY <1>1
<1>3. /\ u \in Seq(Seq(Byte)) /\ Len(u) = n
      /\ \A j \in 1 .. n : u[j] = <<b[4 * j - 3], b[4 * j - 2], b[4 * j - 1], b[4 * j]>>
  BY PacketsIs
<1>4. /\ v \in Seq(Seq(Byte)) /\ Len(v) = n + 1
      /\ \A j \in 1 .. n + 1 : v[j] = <<c[4 * j - 3], c[4 * j - 2], c[4 * j - 1], c[4 * j]>>
  <2>. HIDE DEF c, n
  <2>1. /\ Packets(c) \in Seq(Seq(Byte)) /\ Len(Packets(c)) = Len(c) \div 4
        /\ \A j \in 1 .. Len(c) \div 4 :
             Packets(c)[j] = <<c[4 * j - 3], c[4 * j - 2], c[4 * j - 1], c[4 * j]>>
    BY <1>1, PacketsIs
  <2>2. Len(c) \div 4 = n + 1
    BY <1>1, <1>2
  <2>. QED  BY <2>1, <2>2 DEF c
<1>. HIDE DEF u, v, c, n
<1>5. v # <<>> /\ Head(v) = v[1]
  <2>1. v # <<>>
    BY <1>2, <1>4, EmptySeq
  <2>. QED  BY <1>4, <2>1
<1>6. v[1] = p
  <2>1. v[1] = <<c[1], c[2], c[3], c[4]>>
    <3>1. 1 \in 1 .. n + 1 /\ 4 * 1 - 3 = 1 /\ 4 * 1 - 2 = 2 /\ 4 * 1 - 1 = 3 /\ 4 * 1 = 4
      BY <1>2
    <3>. QED  BY <1>4, <3>1
  <2>2. v[1] = <<p[1], p[2], p[3], p[4]>>
    BY <1>1, <2>1
  <2>3. \A i \in 1 .. 4 : p[i] \in Byte
    BY ElementOfSeq
  <2>. QED  BY <2>2, <2>3, SeqEqual
<1>7. /\ Tail(v) \in Seq(Seq(Byte)) /\ Len(Tail(v)) = n
      /\ \A j \in 1 .. n : Tail(v)[j] = v[j + 1]
  <2>1. /\ Tail(v) \in Seq(Seq(Byte)) /\ Len(Tail(v)) = Len(v) - 1
        /\ \A j \in 1 .. Len(Tail(v)) : Tail(v)[j] = v[j + 1]
    BY <1>4, <1>5, HeadTailProperties
  <2>2. Len(v) - 1 = n
    <3>1. \A i \in Nat : (i + 1) - 1 = i
      OBVIOUS
    <3>. QED  BY <1>2, <1>4, <3>1
  <2>3. Len(Tail(v)) = n
    BY <2>1, <2>2
  <2>. QED  BY <2>1, <2>3
<1>8. ASSUME NEW j \in 1 .. n
      PROVE  v[j + 1] = u[j]
  <2>1. /\ j + 1 \in 1 .. n + 1
        /\ 4 * (j + 1) - 3 = 4 + (4 * j - 3) /\ 4 * (j + 1) - 2 = 4 + (4 * j - 2)
        /\ 4 * (j + 1) - 1 = 4 + (4 * j - 1) /\ 4 * (j + 1) = 4 + 4 * j
        /\ \A i \in {4 * j - 3, 4 * j - 2, 4 * j - 1, 4 * j} : i \in 1 .. Len(b)
    BY <1>1, <1>2
  <2>2. v[j + 1] = <<c[4 + (4 * j - 3)], c[4 + (4 * j - 2)],
                     c[4 + (4 * j - 1)], c[4 + 4 * j]>>
    BY <1>4, <2>1
  <2>. QED  BY <1>1, <1>3, <2>1, <2>2
<1>9. Tail(v) = u
  <2>1. Len(Tail(v)) = Len(u) /\ \A i \in 1 .. Len(Tail(v)) : Tail(v)[i] = u[i]
    BY <1>3, <1>7, <1>8
  <2>. QED  BY <1>3, <1>7, <2>1, SeqEqual
<1>. QED  BY <1>5, <1>6, <1>9 DEF u, v, c

LEMMA NextDecodes ==
  ASSUME IInv, [Next]_vars, ~cut'
  PROVE  [Stream!Next]_(Stream!vars)
<1>1. ring \in Seq(Byte) /\ pkt \in Seq(Byte) /\ pkt \o ring \in Seq(Byte)
  BY ConcatProperties DEF IInv, TypeOK
<1>2. ASSUME NEW t \in Transfer, usb_rx_isr_cb(t)
      PROVE  Stream!Accept
  <2>. DEFINE n == Accepted(4 * Len(t))
              new == SubSeq(Bytes(t), 1, n)
  <2>1. ring' = ring \o new /\ pkt' = pkt /\ line' = line
    BY <1>2 DEF usb_rx_isr_cb
  <2>2. n \in 0 .. 4 * Len(t) /\ 4 * Len(t) \in Nat
    BY TransferFramed, AcceptedFits DEF IInv
  <2>3. new \in Seq(Byte)
    <3>. HIDE DEF n
    <3>1. \A i \in 1 .. n : Bytes(t)[i] \in Byte
      BY <2>2, TransferFramed, ElementOfSeq
    <3>2. 1 \in Int /\ n \in Int
      BY <2>2
    <3>. QED  BY <3>1, <3>2, SubSeqProperties
  <2>. HIDE DEF new
  <2>4. pkt' \o ring' = (pkt \o ring) \o new
    BY <1>1, <2>1, <2>3, ConcatAssociative
  <2>5. /\ Len(Packets(pkt' \o ring')) >= Len(Packets(pkt \o ring))
        /\ SubSeq(Packets(pkt' \o ring'), 1, Len(Packets(pkt \o ring)))
             = Packets(pkt \o ring)
    BY <1>1, <2>3, <2>4, PacketsGrow
  <2>. QED  BY <2>1, <2>5 DEF Stream!Accept
<1>3. ASSUME PopByte
      PROVE  UNCHANGED Stream!vars
  <2>1. /\ ring # <<>> /\ pkt' = Append(pkt, Head(ring)) /\ ring' = Tail(ring)
        /\ line' = line
    BY <1>3 DEF PopByte
  <2>2. pkt' \o ring' = pkt \o ring
    <3>1. Head(ring) \in Byte /\ Tail(ring) \in Seq(Byte)
          /\ ring = <<Head(ring)>> \o Tail(ring)
      BY <1>1, <2>1, HeadTailProperties
    <3>2. Append(pkt, Head(ring)) = pkt \o <<Head(ring)>>
      BY <1>1, <3>1, AppendIsConcat
    <3>3. <<Head(ring)>> \in Seq(Byte)
      BY <3>1
    <3>. QED  BY <1>1, <2>1, <3>1, <3>2, <3>3, ConcatAssociative
  <2>. QED  BY <2>1, <2>2 DEF Stream!vars
<1>4. ASSUME Decode
      PROVE  Stream!Emit
  <2>1. pkt' = <<>> /\ ring' = ring /\ line' = pkt /\ Len(pkt) = 4
    BY <1>4 DEF Decode, IInv, PopsFour
  <2>2. pkt' \o ring' = ring
    BY <1>1, <2>1, ConcatEmptySeq
  <2>3. /\ Packets(pkt \o ring) # <<>>
        /\ Head(Packets(pkt \o ring)) = pkt
        /\ Tail(Packets(pkt \o ring)) = Packets(ring)
    BY <1>1, <2>1, PacketsHead
  <2>. QED  BY <2>1, <2>2, <2>3 DEF Stream!Emit
<1>5. ASSUME PollCall \/ PollTest \/ PopDone \/ UNCHANGED vars
      PROVE  UNCHANGED Stream!vars
  BY <1>5 DEF PollCall, PollTest, PopDone, vars, Stream!vars
<1>. QED  BY <1>2, <1>3, <1>4, <1>5 DEF Next, Main, Stream!Next

\* Until a packet is pushed in part, what the interrupt pushed is decoded packet
\* by packet, in order, each once and with its own four bytes, whatever the
\* ring, the poll buffer and the transfers are (usb_midi_bridge.c:24, 36-45).
THEOREM DecodesPacketsInOrder == Spec => DecodesInOrder
<1>1. Init => Stream!Init
  <2>. SUFFICES ASSUME Init
                PROVE  Stream!Init
    OBVIOUS
  <2>1. pkt = <<>> /\ ring = <<>> /\ line = <<>>
    BY DEF Init
  <2>2. <<>> \in Seq(Byte) /\ Len(<<>>) = 0 /\ <<>> \o <<>> = <<>>
    BY EmptySeq, ConcatEmptySeq
  <2>3. Len(Packets(<<>>)) = 0 /\ Packets(<<>>) \in Seq(Seq(Byte))
    <3>1. /\ Packets(<<>>) \in Seq(Seq(Byte))
          /\ Len(Packets(<<>>)) = Len(<<>>) \div 4
      BY <2>2, PacketsIs
    <3>2. Len(<<>>) \div 4 = 0
      BY <2>2
    <3>. QED  BY <3>1, <3>2
  <2>4. Packets(pkt \o ring) = <<>>
    BY <2>1, <2>2, <2>3, EmptySeq
  <2>. QED  BY <2>1, <2>2, <2>4 DEF Stream!Init
<1>2. IInv /\ [Next]_vars => [~cut' => [Stream!Next]_(Stream!vars)]_vars
  BY NextDecodes
<1>. QED  BY <1>1, <1>2, Invariance, PTL DEF Spec, DecodesInOrder

-----------------------------------------------------------------------------
\* The ring is never overfilled and no more than a packet is popped at a time
\* (ring_buffer.c:30-39, usb_midi_bridge.c:39).
THEOREM TypeCorrect == Spec => []TypeOK
BY Invariance, PTL DEF IInv

\* Interrupts between two pops leave the packets whole, until a transfer is
\* pushed in part (usb_midi_bridge.c:24, 38-39).
THEOREM StaysFramed == Spec => []FramedUnlessCut
BY Invariance, PTL DEF IInv

\* The bytes rb_avail promised are there for the pops whose result is ignored
\* (usb_midi_bridge.c:38-39).
THEOREM PopsWholePackets == Spec => []PopsFour
BY Invariance, PTL DEF IInv

\* Even after a cut, whatever the bytes then mean, the poll buffer is not
\* overrun (usb_midi_bridge.c:38).
THEOREM PollBufferSafe == Spec => []OutFits
BY Invariance, PTL DEF IInv
=============================================================================
