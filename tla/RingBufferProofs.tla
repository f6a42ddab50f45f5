-------------------------- MODULE RingBufferProofs --------------------------
(***************************************************************************)
(* Proofs about RingBuffer, for every ring size and every set of bytes.    *)
(*                                                                         *)
(* Index arithmetic modulo Size is dealt with once, in the lemmas; after   *)
(* them Inv is inductive by cases on the steps, and the refinement of      *)
(* BoundedFifo follows from what each step does to Contents.               *)
(***************************************************************************)
EXTENDS RingBuffer, SequenceTheorems, TLAPS

LEMMA SizeIsNat == Size \in Nat /\ Size >= 2
BY SizeAssumption

\* What `& RB_MASK' computes on an index that moved by at most one lap.
LEMMA NextIndex ==
  ASSUME NEW i \in Index
  PROVE  /\ (i + 1) % Size \in Index
         /\ (i + 1) % Size = IF i = Size - 1 THEN 0 ELSE i + 1
BY SizeIsNat DEF Index

LEMMA CountValue ==
  ASSUME NEW h \in Index, NEW t \in Index
  PROVE  /\ Count(h, t) \in Index
         /\ Count(h, t) = IF h >= t THEN h - t ELSE h - t + Size
BY SizeIsNat DEF Index, Count

LEMMA OffsetValue ==
  ASSUME NEW t \in Index, NEW k \in 0 .. Size
  PROVE  /\ (t + k) % Size \in Index
         /\ (t + k) % Size = IF t + k < Size THEN t + k ELSE t + k - Size
<1>1. CASE t + k < Size
  BY <1>1, SizeIsNat DEF Index
<1>2. CASE t + k >= Size
  BY <1>2, SizeIsNat DEF Index
<1> QED BY <1>1, <1>2, SizeIsNat DEF Index

\* Publishing a byte makes the occupied region one slot longer.
LEMMA CountAfterPush ==
  ASSUME NEW h \in Index, NEW t \in Index, (h + 1) % Size # t
  PROVE  Count((h + 1) % Size, t) = Count(h, t) + 1
<1> DEFINE n == (h + 1) % Size
<1>1. n \in Index /\ n = IF h = Size - 1 THEN 0 ELSE h + 1
  BY NextIndex
<1> HIDE DEF n
<1>2. Count(n, t) = IF n >= t THEN n - t ELSE n - t + Size
  BY <1>1, CountValue
<1>3. Count(h, t) = IF h >= t THEN h - t ELSE h - t + Size
  BY CountValue
<1>4. n # t
  BY DEF n
<1>5. Count(n, t) = Count(h, t) + 1
  BY <1>1, <1>2, <1>3, <1>4, SizeIsNat DEF Index
<1> QED BY <1>5 DEF n

\* Advancing the tail makes it one slot shorter.
LEMMA CountAfterPop ==
  ASSUME NEW h \in Index, NEW t \in Index, h # t
  PROVE  Count(h, (t + 1) % Size) = Count(h, t) - 1
<1> DEFINE n == (t + 1) % Size
<1>1. n \in Index /\ n = IF t = Size - 1 THEN 0 ELSE t + 1
  BY NextIndex
<1> HIDE DEF n
<1>2. Count(h, n) = IF h >= n THEN h - n ELSE h - n + Size
  BY <1>1, CountValue
<1>3. Count(h, t) = IF h >= t THEN h - t ELSE h - t + Size
  BY CountValue
<1>4. Count(h, n) = Count(h, t) - 1
  BY <1>1, <1>2, <1>3, SizeIsNat DEF Index
<1> QED BY <1>4 DEF n

LEMMA CountZero ==
  ASSUME NEW h \in Index, NEW t \in Index
  PROVE  Count(h, t) = 0 <=> h = t
<1>1. Count(h, t) = IF h >= t THEN h - t ELSE h - t + Size
  BY CountValue
<1> QED BY <1>1, SizeIsNat DEF Index

-----------------------------------------------------------------------------
LEMMA InitTypeOK == Init => TypeOK
BY SizeIsNat DEF Init, rb_init, TypeOK, Index

LEMMA NextTypeOK == TypeOK /\ [Next]_vars => TypeOK'
<1> SUFFICES ASSUME TypeOK, [Next]_vars
             PROVE  TypeOK'
  OBVIOUS
<1> USE SizeIsNat DEF TypeOK
<1>1. ASSUME NEW b \in Byte, PushTest(b)
      PROVE  TypeOK'
  BY <1>1, NextIndex DEF PushTest
<1>2. CASE PushWrite
  BY <1>2 DEF PushWrite
<1>3. CASE PushPublish
  BY <1>3 DEF PushPublish
<1>4. CASE Avail
  BY <1>4, CountValue DEF Avail
<1>5. CASE PopTest
  BY <1>5 DEF PopTest
<1>6. CASE PopRead
  BY <1>6 DEF PopRead
<1>7. CASE PopAdvance
  <2>1. (IF cons.avail = 0 THEN 0 ELSE cons.avail - 1) \in Index
    BY DEF Index
  <2>2. tail' \in Index
    BY <1>7, NextIndex DEF PopAdvance
  <2> QED BY <1>7, <2>1, <2>2 DEF PopAdvance
<1>8. CASE FlushRead
  <2>1. 0 \in Index
    BY DEF Index
  <2> QED BY <1>8, <2>1 DEF FlushRead
<1>9. CASE FlushWrite
  BY <1>9 DEF FlushWrite
<1>10. CASE UNCHANGED vars
  BY <1>10 DEF vars
<1> QED
  BY <1>1, <1>2, <1>3, <1>4, <1>5, <1>6, <1>7, <1>8, <1>9, <1>10
  DEF Next, Producer, Consumer

\* Every field keeps to its C type and every index stays within the buffer
\* (ring_buffer.h:11-15).
THEOREM TypeCorrect == Spec => []TypeOK
BY InitTypeOK, NextTypeOK, PTL DEF Spec
-----------------------------------------------------------------------------
LEMMA InitInv == Init => Inv
<1> SUFFICES ASSUME Init
             PROVE  Inv
  OBVIOUS
<1>1. head \in Index /\ tail \in Index /\ head = tail
  BY SizeIsNat DEF Init, rb_init, Index
<1>2. Count(head, tail) = 0
  BY <1>1, CountZero
<1> QED BY <1>2 DEF Init, Inv, AvailIsHonoured

\* Which conjuncts of Inv a step can disturb: those of the producer when it
\* moves or the tail does, those of the consumer when it moves or the head
\* does, and `avail' when either end moves.
LEMMA NextInv == TypeOK /\ Inv /\ [Next]_vars => Inv'
<1> SUFFICES ASSUME TypeOK, Inv, [Next]_vars
             PROVE  Inv'
  OBVIOUS
<1>0. /\ head \in Index /\ tail \in Index
      /\ cons.avail \in Index /\ cons.n \in Index /\ prod.n \in Index
      /\ Count(head, tail) \in Index
  BY CountValue DEF TypeOK
<1>1. ASSUME NEW b \in Byte, PushTest(b)
      PROVE  Inv'
  BY <1>1 DEF TypeOK, Inv, AvailIsHonoured, PushTest
<1>2. CASE PushWrite
  \* The slot written is the free one: a pop in progress reads another.
  BY <1>2 DEF TypeOK, Inv, AvailIsHonoured, PushWrite
<1>3. CASE PushPublish
  <2>1. /\ head' = (head + 1) % Size /\ head' # tail
        /\ tail' = tail /\ buf' = buf /\ cons' = cons
        /\ prod'.pc = "idle"
    BY <1>3 DEF PushPublish, Inv, TypeOK
  <2>2. Count(head', tail) = Count(head, tail) + 1
    BY <1>0, <2>1, CountAfterPush
  <2>3. AvailIsHonoured'
    BY <1>0, <2>1, <2>2, SizeIsNat DEF Inv, AvailIsHonoured, Index
  <2>4. cons.pc = "flush" => Count(cons.n, tail) <= Count(head', tail)
    <3>1. Count(cons.n, tail) \in Index
      BY <1>0, CountValue
    <3> QED BY <1>0, <2>2, <3>1, SizeIsNat DEF Inv, Index
  <2> QED BY <2>1, <2>3, <2>4 DEF Inv
<1>4. CASE Avail
  <2>1. /\ head' = head /\ tail' = tail /\ buf' = buf /\ prod' = prod
        /\ cons'.avail = Count(head, tail) /\ cons'.pc = "idle"
    BY <1>4 DEF Avail, TypeOK
  <2> QED BY <1>0, <2>1, SizeIsNat DEF Inv, AvailIsHonoured, Index
<1>5. CASE PopTest
  BY <1>5 DEF TypeOK, Inv, AvailIsHonoured, PopTest
<1>6. CASE PopRead
  BY <1>6 DEF TypeOK, Inv, AvailIsHonoured, PopRead
<1>7. CASE PopAdvance
  <2>1. /\ tail' = (tail + 1) % Size /\ head' = head /\ buf' = buf
        /\ prod' = prod /\ cons'.pc = "idle" /\ head # tail
        /\ cons'.avail = IF cons.avail = 0 THEN 0 ELSE cons.avail - 1
    BY <1>7 DEF PopAdvance, TypeOK, Inv
  <2>2. Count(head, tail') = Count(head, tail) - 1
    BY <1>0, <2>1, CountAfterPop
  <2>3. Count(head, tail) # 0
    BY <1>0, <2>1, CountZero
  <2>4. AvailIsHonoured'
    BY <1>0, <2>1, <2>2, <2>3, SizeIsNat DEF Inv, AvailIsHonoured, Index
  \* The free slot a push reserved is not the one the tail moves to,
  \* because the tail moves within the occupied slots.
  <2>5. prod.pc \in {"write", "publish"} => prod.n # tail'
    <3> SUFFICES ASSUME prod.n = (head + 1) % Size, prod.n # tail
                 PROVE  prod.n # tail'
      BY DEF Inv
    <3>1. (head + 1) % Size = IF head = Size - 1 THEN 0 ELSE head + 1
      BY <1>0, NextIndex
    <3>2. (tail + 1) % Size = IF tail = Size - 1 THEN 0 ELSE tail + 1
      BY <1>0, NextIndex
    <3> QED BY <1>0, <2>1, <3>1, <3>2, SizeIsNat DEF Index
  <2> QED BY <2>1, <2>4, <2>5 DEF Inv
<1>8. CASE FlushRead
  <2>1. /\ head' = head /\ tail' = tail /\ buf' = buf /\ prod' = prod
        /\ cons'.avail = 0 /\ cons'.pc = "flush" /\ cons'.n = head
    BY <1>8 DEF FlushRead, TypeOK
  <2> QED BY <1>0, <2>1, SizeIsNat DEF Inv, AvailIsHonoured, Index
<1>9. CASE FlushWrite
  <2>1. /\ head' = head /\ tail' = cons.n /\ buf' = buf /\ prod' = prod
        /\ cons'.pc = "idle" /\ cons'.avail = 0
        /\ Count(cons.n, tail) <= Count(head, tail)
    BY <1>9 DEF FlushWrite, TypeOK, Inv
  <2>2. Count(head, cons.n) \in Index
    BY <1>0, CountValue
  <2>3. AvailIsHonoured'
    BY <2>1, <2>2, SizeIsNat DEF AvailIsHonoured, Index
  <2>4. prod.pc \in {"write", "publish"} => prod.n # cons.n
    <3> SUFFICES ASSUME prod.n = (head + 1) % Size, prod.n # tail
                 PROVE  prod.n # cons.n
      BY DEF Inv
    <3>1. (head + 1) % Size = IF head = Size - 1 THEN 0 ELSE head + 1
      BY <1>0, NextIndex
    <3>2. Count(cons.n, tail) = IF cons.n >= tail THEN cons.n - tail
                                ELSE cons.n - tail + Size
      BY <1>0, CountValue
    <3>3. Count(head, tail) = IF head >= tail THEN head - tail
                              ELSE head - tail + Size
      BY <1>0, CountValue
    <3> QED BY <1>0, <2>1, <3>1, <3>2, <3>3, SizeIsNat DEF Index
  <2> QED BY <2>1, <2>3, <2>4 DEF Inv
<1>10. CASE UNCHANGED vars
  BY <1>10 DEF vars, Inv, AvailIsHonoured, Count
<1> QED
  BY <1>1, <1>2, <1>3, <1>4, <1>5, <1>6, <1>7, <1>8, <1>9, <1>10
  DEF Next, Producer, Consumer

\* Indices, local copies and program counters of the two contexts agree in every
\* interleaving (ring_buffer.c:13-28, 53-60).
THEOREM Invariance == Spec => [](TypeOK /\ Inv)
BY InitTypeOK, NextTypeOK, InitInv, NextInv, PTL DEF Spec

\* What rb_avail reported can be popped, whatever the producer does in
\* between (usb_midi_bridge.c:38-39).
THEOREM AvailHonoured == Spec => []AvailIsHonoured
<1>1. Inv => AvailIsHonoured
  BY DEF Inv
<1> QED BY <1>1, Invariance, PTL

\* No slot is written by the producer while the consumer reads it.
THEOREM SlotsNeedNoLock == Spec => []NoSlotRace
<1>1. Inv => NoSlotRace
  BY DEF Inv, NoSlotRace
<1> QED BY <1>1, Invariance, PTL

-----------------------------------------------------------------------------
(* The refinement of BoundedFifo.                                          *)

LEMMA OccupiedIsSeq ==
  ASSUME NEW h \in Index, NEW t \in Index, NEW bytes \in [Index -> Byte]
  PROVE  /\ Occupied(h, t, bytes) \in Seq(Byte)
         /\ Len(Occupied(h, t, bytes)) = Count(h, t)
         /\ \A i \in 1 .. Count(h, t) :
              /\ (t + (i - 1)) % Size \in Index
              /\ Occupied(h, t, bytes)[i] = bytes[(t + (i - 1)) % Size]
<1> DEFINE n == Count(h, t)
<1>0. n \in Index
  BY CountValue
<1> HIDE DEF n
<1>1. n \in Nat /\ n <= Size - 1
  BY <1>0, SizeIsNat DEF Index
<1>2. ASSUME NEW i \in 1 .. n
      PROVE  (t + (i - 1)) % Size \in Index
  <2>1. i - 1 \in 0 .. Size
    BY <1>1, SizeIsNat
  <2> QED BY <2>1, OffsetValue
<1>3. Occupied(h, t, bytes) = [i \in 1 .. n |-> bytes[(t + (i - 1)) % Size]]
  BY DEF Occupied, n
<1>4. \A i \in 1 .. n : bytes[(t + (i - 1)) % Size] \in Byte
  BY <1>2
<1>5. Occupied(h, t, bytes) \in [1 .. n -> Byte]
  BY <1>3, <1>4
<1>6. /\ Occupied(h, t, bytes) \in Seq(Byte)
      /\ Len(Occupied(h, t, bytes)) = n
  BY <1>1, <1>5
<1> QED BY <1>2, <1>3, <1>6 DEF n

\* Storing a byte in the free slot and publishing it appends it.
LEMMA OccupiedPush ==
  ASSUME NEW h \in Index, NEW t \in Index, NEW bytes \in [Index -> Byte],
         (h + 1) % Size # t
  PROVE  Occupied((h + 1) % Size, t, bytes)
           = Append(Occupied(h, t, bytes), bytes[h])
<1> DEFINE n == (h + 1) % Size
           old == Occupied(h, t, bytes)
           new == Occupied(n, t, bytes)
           k == Count(h, t)
<1>1. n \in Index
  BY NextIndex
<1>2. k \in Index /\ k = IF h >= t THEN h - t ELSE h - t + Size
  BY CountValue
<1>3. Count(n, t) = k + 1
  BY CountAfterPush
<1>4. /\ old \in Seq(Byte) /\ Len(old) = k
      /\ \A i \in 1 .. k : old[i] = bytes[(t + (i - 1)) % Size]
  BY OccupiedIsSeq
<1>5. /\ new \in Seq(Byte) /\ Len(new) = k + 1
      /\ \A i \in 1 .. k + 1 : new[i] = bytes[(t + (i - 1)) % Size]
  BY <1>1, <1>3, OccupiedIsSeq
<1>6. (t + k) % Size = h
  <2>1. k \in 0 .. Size
    BY <1>2, SizeIsNat DEF Index
  <2>2. (t + k) % Size = IF t + k < Size THEN t + k ELSE t + k - Size
    BY <2>1, OffsetValue
  <2> HIDE DEF k
  <2> QED BY <1>2, <2>2, SizeIsNat DEF Index
<1>7. k \in Nat
  BY <1>2, SizeIsNat DEF Index
<1>8. bytes[h] \in Byte
  OBVIOUS
<1> HIDE DEF n, old, new, k
<1> DEFINE app == Append(old, bytes[h])
<1>9. /\ app \in Seq(Byte)
      /\ Len(app) = k + 1
      /\ \A i \in 1 .. k : app[i] = old[i]
      /\ app[k + 1] = bytes[h]
  BY <1>4, <1>7, <1>8
<1> HIDE DEF app
<1>10. ASSUME NEW i \in 1 .. k + 1
       PROVE  new[i] = app[i]
  <2>1. CASE i \in 1 .. k
    BY <2>1, <1>4, <1>5, <1>9
  <2>2. CASE i = k + 1
    <3>1. new[i] = bytes[(t + (i - 1)) % Size]
      BY <1>5
    <3>2. i - 1 = k
      BY <2>2, <1>7
    <3> QED BY <2>2, <3>1, <3>2, <1>6, <1>9
  <2> QED BY <2>1, <2>2, <1>7
<1>11. new = app
  BY <1>5, <1>9, <1>10, SeqEqual
<1> QED BY <1>11 DEF n, old, new, app

\* Moving the tail over the k oldest slots drops their bytes.
LEMMA OccupiedDrop ==
  ASSUME NEW h \in Index, NEW t \in Index, NEW m \in Index,
         NEW bytes \in [Index -> Byte],
         Count(m, t) <= Count(h, t)
  PROVE  /\ Count(h, m) = Count(h, t) - Count(m, t)
         /\ Occupied(h, m, bytes)
              = SubSeq(Occupied(h, t, bytes), Count(m, t) + 1,
                       Len(Occupied(h, t, bytes)))
<1> DEFINE old == Occupied(h, t, bytes)
           new == Occupied(h, m, bytes)
           n == Count(h, t)
           k == Count(m, t)
<1>1. n \in Index /\ n = IF h >= t THEN h - t ELSE h - t + Size
  BY CountValue
<1>2. k \in Index /\ k = IF m >= t THEN m - t ELSE m - t + Size
  BY CountValue
<1>3. Count(h, m) = n - k
  <2>1. Count(h, m) = IF h >= m THEN h - m ELSE h - m + Size
    BY CountValue
  <2> HIDE DEF n, k
  <2>2. k <= n
    BY DEF n, k
  <2> QED BY <1>1, <1>2, <2>1, <2>2, SizeIsNat DEF Index
<1>4. n \in Nat /\ k \in Nat /\ k <= n /\ n <= Size - 1
  BY <1>1, <1>2, SizeIsNat DEF Index
<1>5. /\ old \in Seq(Byte) /\ Len(old) = n
      /\ \A i \in 1 .. n : old[i] = bytes[(t + (i - 1)) % Size]
  BY OccupiedIsSeq
<1>6. /\ new \in Seq(Byte) /\ Len(new) = n - k
      /\ \A i \in 1 .. n - k : new[i] = bytes[(m + (i - 1)) % Size]
  BY <1>3, OccupiedIsSeq
<1>7. ASSUME NEW i \in 1 .. n - k
      PROVE  (m + (i - 1)) % Size = (t + (i + k - 1)) % Size
  <2> HIDE DEF n, k
  <2>1. i - 1 \in 0 .. Size /\ i + k - 1 \in 0 .. Size
    BY <1>4, SizeIsNat
  <2>2. (m + (i - 1)) % Size = IF m + (i - 1) < Size THEN m + (i - 1)
                               ELSE m + (i - 1) - Size
    BY <2>1, OffsetValue
  <2>3. (t + (i + k - 1)) % Size
          = IF t + (i + k - 1) < Size THEN t + (i + k - 1)
            ELSE t + (i + k - 1) - Size
    BY <2>1, OffsetValue
  <2> QED BY <1>2, <1>4, <2>2, <2>3, SizeIsNat DEF Index
<1> DEFINE rest == SubSeq(old, k + 1, n)
<1> HIDE DEF old, new, n, k
<1>8. /\ rest \in Seq(Byte) /\ Len(rest) = n - k
      /\ \A i \in 1 .. n - k : rest[i] = old[i + k]
  BY <1>4, <1>5
<1> HIDE DEF rest
<1>9. ASSUME NEW i \in 1 .. n - k
      PROVE  new[i] = rest[i]
  <2>1. i + k \in 1 .. n
    BY <1>4
  <2>2. old[i + k] = bytes[(t + (i + k - 1)) % Size]
    <3>1. PICK j \in 1 .. n : j = i + k
      BY <2>1
    <3>2. old[j] = bytes[(t + (j - 1)) % Size]
      BY <1>5
    <3> QED BY <3>1, <3>2, <1>4
  <2>3. rest[i] = old[i + k]
    BY <1>8
  <2> QED BY <1>6, <1>7, <2>2, <2>3
<1>10. new = rest
  BY <1>6, <1>8, <1>9, SeqEqual
<1> QED BY <1>3, <1>5, <1>10 DEF old, new, n, k, rest

LEMMA InitRefines == Init => Fifo!Init
<1> SUFFICES ASSUME Init
             PROVE  Fifo!Init
  OBVIOUS
<1>1. /\ head \in Index /\ tail \in Index /\ head = tail
      /\ buf \in [Index -> Byte] /\ out \in Byte
  BY SizeIsNat DEF Init, rb_init, Index
<1>2. Contents \in Seq(Byte) /\ Len(Contents) = 0
  BY <1>1, OccupiedIsSeq, CountZero DEF Contents
<1>3. Contents = <<>>
  BY <1>2, EmptySeq
<1>4. prod.b \in Byte /\ ~(prod.pc # "idle")
  BY DEF Init
<1> QED BY <1>1, <1>3, <1>4 DEF Fifo!Init

\* A push begins with its test and takes effect when it publishes, a pop when it advances, a flush
\* when it stores the tail; every other step leaves the queue alone.
LEMMA NextRefines ==
  TypeOK /\ Inv /\ [Next]_vars => [Fifo!Next]_(Fifo!vars)
<1> SUFFICES ASSUME TypeOK, Inv, [Next]_vars
             PROVE  [Fifo!Next]_(Fifo!vars)
  OBVIOUS
<1> USE DEF Contents
<1>0. /\ head \in Index /\ tail \in Index /\ buf \in [Index -> Byte]
      /\ cons.n \in Index /\ prod.b \in Byte /\ Count(head, tail) \in Index
  BY CountValue DEF TypeOK
<1>a. /\ Contents \in Seq(Byte) /\ Len(Contents) = Count(head, tail)
      /\ \A i \in 1 .. Count(head, tail) :
           Contents[i] = buf[(tail + (i - 1)) % Size]
  BY <1>0, OccupiedIsSeq
<1>1. ASSUME head' = head, tail' = tail, buf' = buf, out' = out, prod' = prod
      PROVE  UNCHANGED Fifo!vars
  BY <1>1 DEF Fifo!vars
<1>b. ASSUME NEW b \in Byte, PushTest(b)
      PROVE  Fifo!Next
  <2>1. /\ prod.pc = "idle" /\ prod'.pc = "write" /\ prod'.b = b
        /\ head' = head /\ tail' = tail /\ buf' = buf /\ out' = out
    BY <1>b DEF PushTest
  <2>2. Contents' = Contents
    BY <2>1
  <2>3. Fifo!Offer(b)
    BY <2>1, <2>2 DEF Fifo!Offer
  <2> QED BY <2>3 DEF Fifo!Next
<1>2. CASE PushWrite
  \* The slot written is not one of the occupied ones.
  <2>1. /\ buf' = [buf EXCEPT ![head] = prod.b]
        /\ head' = head /\ tail' = tail /\ out' = out
    BY <1>2 DEF PushWrite
  <2>2. prod.pc # "idle" /\ prod'.pc # "idle" /\ prod'.b = prod.b
    BY <1>2 DEF PushWrite, TypeOK
  <2>3. ASSUME NEW i \in 1 .. Count(head, tail)
        PROVE  (tail + (i - 1)) % Size # head
    <3>1. i - 1 \in 0 .. Size
      BY <1>0, SizeIsNat DEF Index
    <3>2. (tail + (i - 1)) % Size
            = IF tail + (i - 1) < Size THEN tail + (i - 1)
              ELSE tail + (i - 1) - Size
      BY <1>0, <3>1, OffsetValue
    <3>3. Count(head, tail) = IF head >= tail THEN head - tail
                              ELSE head - tail + Size
      BY <1>0, CountValue
    <3> QED BY <1>0, <3>2, <3>3, SizeIsNat DEF Index
  <2> DEFINE stored == [buf EXCEPT ![head] = prod.b]
             new == Occupied(head, tail, stored)
  <2>4. stored \in [Index -> Byte]
    BY <1>0
  <2>5. \A i \in Index : i # head => stored[i] = buf[i]
    BY <1>0
  <2> HIDE DEF stored
  <2>6. /\ new \in Seq(Byte) /\ Len(new) = Count(head, tail)
        /\ \A i \in 1 .. Count(head, tail) :
             /\ (tail + (i - 1)) % Size \in Index
             /\ new[i] = stored[(tail + (i - 1)) % Size]
    BY <1>0, <2>4, OccupiedIsSeq
  <2>7. \A i \in 1 .. Count(head, tail) : new[i] = Contents[i]
    BY <1>a, <2>3, <2>5, <2>6
  <2>8. new = Contents
    BY <1>a, <2>6, <2>7, SeqEqual
  <2> QED BY <2>1, <2>2, <2>8 DEF Fifo!vars, stored
<1>3. CASE PushPublish
  <2>1. /\ head' = (head + 1) % Size /\ (head + 1) % Size # tail
        /\ tail' = tail /\ buf' = buf /\ out' = out /\ buf[head] = prod.b
    BY <1>3 DEF PushPublish, Inv
  <2>2. Contents' = Append(Contents, prod.b)
    BY <1>0, <2>1, OccupiedPush
  <2>3. Count(head, tail) < Size - 1
    <3>1. Count((head + 1) % Size, tail) \in Index
      BY <1>0, <2>1, NextIndex, CountValue
    <3>2. Count((head + 1) % Size, tail) = Count(head, tail) + 1
      BY <1>0, <2>1, CountAfterPush
    <3> QED BY <1>0, <3>1, <3>2, SizeIsNat DEF Index
  <2>4. prod.pc # "idle" /\ prod'.pc = "idle" /\ prod'.b = prod.b
    BY <1>3 DEF PushPublish, TypeOK
  <2>5. Fifo!Accept
    BY <1>a, <2>1, <2>2, <2>3, <2>4 DEF Fifo!Accept
  <2> QED BY <2>5 DEF Fifo!Next
<1>4. CASE PopAdvance
  <2>1. /\ tail' = (tail + 1) % Size /\ head # tail /\ out' = buf[tail]
        /\ head' = head /\ buf' = buf /\ prod' = prod
    BY <1>4 DEF PopAdvance, Inv
  <2>2. tail' \in Index /\ tail' = IF tail = Size - 1 THEN 0 ELSE tail + 1
    BY <1>0, <2>1, NextIndex
  <2>3. Count(tail', tail) = 1
    <3>1. Count(tail', tail) = IF tail' >= tail THEN tail' - tail
                               ELSE tail' - tail + Size
      BY <1>0, <2>2, CountValue
    <3> QED BY <1>0, <2>2, <3>1, SizeIsNat DEF Index
  <2>4. Count(head, tail) \in Nat /\ Count(head, tail) # 0
    BY <1>0, <2>1, CountZero DEF Index
  <2>5. Contents' = SubSeq(Contents, 2, Len(Contents))
    <3>1. Count(tail', tail) <= Count(head, tail)
      BY <2>3, <2>4
    <3>2. Occupied(head, tail', buf)
            = SubSeq(Occupied(head, tail, buf), Count(tail', tail) + 1,
                     Len(Occupied(head, tail, buf)))
      BY <1>0, <2>2, <3>1, OccupiedDrop
    <3> QED BY <2>1, <2>3, <3>2
  <2>6. Contents # <<>>
    BY <1>a, <2>4, EmptySeq
  <2>7. Contents' = Tail(Contents)
    BY <1>a, <2>5, <2>6, TailIsSubSeq
  <2>8. out' = Head(Contents)
    <3>1. Contents[1] = buf[(tail + (1 - 1)) % Size]
      BY <1>a, <2>4
    <3>2. (tail + (1 - 1)) % Size = tail
      BY <1>0, SizeIsNat DEF Index
    <3> QED BY <2>1, <3>1, <3>2
  <2> QED BY <2>1, <2>6, <2>7, <2>8 DEF Fifo!Deliver, Fifo!Next
<1>5. CASE FlushWrite
  <2>1. /\ tail' = cons.n /\ head' = head /\ buf' = buf /\ out' = out
        /\ prod' = prod
        /\ Count(cons.n, tail) <= Count(head, tail)
    BY <1>5 DEF FlushWrite, Inv
  <2>2. Contents' = SubSeq(Contents, Count(cons.n, tail) + 1, Len(Contents))
    BY <1>0, <2>1, OccupiedDrop
  <2>3. Count(cons.n, tail) \in 0 .. Len(Contents)
    <3>1. Count(cons.n, tail) \in Index
      BY <1>0, CountValue
    <3> QED BY <1>0, <1>a, <2>1, <3>1, SizeIsNat DEF Index
  <2>4. Fifo!Discard(Count(cons.n, tail))
    BY <2>1, <2>2 DEF Fifo!Discard
  <2> QED BY <2>3, <2>4 DEF Fifo!Next
<1> QED
  BY <1>1, <1>b, <1>2, <1>3, <1>4, <1>5
  DEF Next, Producer, Consumer, Avail, PopTest, PopRead,
      FlushRead, vars

\* The ring, with a producer and a consumer interleaved at every access to
\* its fields, behaves as a bounded FIFO queue of RB_SIZE - 1 bytes.
THEOREM RingIsFifo == Spec => ImplementsFifo
<1>1. ImplementsFifo <=> Fifo!Init /\ [][Fifo!Next]_(Fifo!vars)
  BY DEF ImplementsFifo, Fifo!Spec
<1> QED BY <1>1, InitRefines, NextRefines, Invariance, PTL DEF Spec
=============================================================================
