---------------------------- MODULE UartRxProofs ----------------------------
(***************************************************************************)
(* Reception from DIN, for every size of the buffers and every set of byte *)
(* values: the reader, which only ever sees the channel's position modulo  *)
(* the buffer's size, stays in step with the writer.                       *)
(***************************************************************************)
EXTENDS UartRx, SequenceTheorems, TLAPS

WriteIndex == Size - count

\* The channel's position is the reader's, moved on by what is unread.
InStep == WriteIndex = (tail + Len(unread)) % Size

\* The buffer still holds the last Size unread bytes.
Holds ==
  \A i \in 1 .. Len(unread) :
    i > Len(unread) - Size => buf[(tail + i - 1) % Size] = unread[i]

\* What rx_available reported is still unread; how many have come since.
Promise ==
  poll.running =>
    /\ poll.avail - poll.n + burst <= Len(unread)
    /\ burst <= 1 => Len(unread) = poll.avail - poll.n + burst

IInv == TypeOK /\ InStep /\ Holds /\ Promise

-----------------------------------------------------------------------------
(* Positions in a circle of N.                                             *)

LEMMA Quotient ==
  ASSUME NEW a \in Nat, NEW N \in Nat \ {0}
  PROVE  /\ a \div N \in Nat
         /\ a % N \in 0 .. N - 1
         /\ a = N * (a \div N) + (a % N)
OBVIOUS

\* The remainder is the only one in its range.
LEMMA Remainder ==
  ASSUME NEW q \in Int, NEW r \in Int, NEW N \in Nat \ {0}, r \in 0 .. N - 1
  PROVE  (N * q + r) % N = r
OBVIOUS

\* A whole number of laps makes no difference.
LEMMA LapsApart ==
  ASSUME NEW b \in Nat, NEW q \in Int, NEW N \in Nat \ {0}
  PROVE  (N * q + b) % N = b % N
<1>. DEFINE p == b \div N
            r == b % N
<1>1. p \in Int /\ r \in 0 .. N - 1 /\ b = N * p + r
  BY Quotient
<1>. HIDE DEF p, r
<1>2. N * q + b = N * (q + p) + r
  BY <1>1
<1>3. (N * (q + p) + r) % N = r
  BY <1>1, Remainder
<1>. QED  BY <1>2, <1>3 DEF r

LEMMA ModSmall ==
  ASSUME NEW N \in Nat \ {0}, NEW r \in 0 .. N - 1
  PROVE  r % N = r
OBVIOUS

LEMMA ModSuccessor ==
  ASSUME NEW a \in Nat, NEW N \in Nat \ {0}
  PROVE  (a + 1) % N = IF a % N = N - 1 THEN 0 ELSE (a % N) + 1
<1>. DEFINE q == a \div N
            r == a % N
<1>1. q \in Nat /\ r \in 0 .. N - 1 /\ a = N * q + r
  BY Quotient
<1>. HIDE DEF q, r
<1>2. CASE r = N - 1
  <2>1. a + 1 = N * (q + 1) + 0
    BY <1>1, <1>2
  <2>2. (N * (q + 1) + 0) % N = 0
    BY <1>1, Remainder
  <2>. QED  BY <1>2, <2>1, <2>2 DEF r
<1>3. CASE r # N - 1
  <2>1. a + 1 = N * q + (r + 1) /\ r + 1 \in 0 .. N - 1
    BY <1>1, <1>3
  <2>2. (N * q + (r + 1)) % N = r + 1
    BY <1>1, <2>1, Remainder
  <2>. QED  BY <1>3, <2>1, <2>2 DEF r
<1>. QED  BY <1>2, <1>3

\* Laps do not matter.
LEMMA ModLap ==
  ASSUME NEW a \in Nat, NEW b \in Nat, NEW N \in Nat \ {0}
  PROVE  (a + (b % N)) % N = (a + b) % N
<1>. DEFINE q == b \div N
            r == b % N
<1>1. q \in Nat /\ r \in 0 .. N - 1 /\ b = N * q + r
  BY Quotient
<1>. HIDE DEF q, r
<1>2. a + b = N * q + (a + r) /\ a + r \in Nat /\ a + b \in Int /\ q \in Int
  BY <1>1
<1>3. (N * q + (a + r)) % N = (a + r) % N
  BY <1>2, LapsApart
<1>. QED  BY <1>2, <1>3 DEF r

LEMMA WholeLaps ==
  ASSUME NEW a \in Nat, NEW N \in Nat \ {0}
  PROVE  /\ a - (a % N) \in 0 .. a
         /\ a - (a % N) = (a \div N) * N
         /\ (a - (a % N)) % N = 0
<1>. DEFINE q == a \div N
            r == a % N
<1>1. q \in Nat /\ r \in 0 .. N - 1 /\ a = N * q + r
  BY Quotient
<1>. HIDE DEF q, r
<1>2. a - r = N * q + 0 /\ N * q = q * N /\ N * q \in Nat
  BY <1>1
<1>3. (N * q + 0) % N = 0
  BY <1>1, Remainder
<1>4. a - r \in 0 .. a /\ a - r = q * N /\ (a - r) % N = 0
  BY <1>1, <1>2, <1>3
<1>. QED  BY <1>4 DEF q, r

\* The way from t on to the position l further.
LEMMA ModDifference ==
  ASSUME NEW N \in Nat \ {0}, NEW t \in 0 .. N - 1, NEW l \in Nat
  PROVE  (((t + l) % N) - t) % N = l % N
<1>. DEFINE q == (t + l) \div N
            r == (t + l) % N
<1>0. t + l \in Nat
  OBVIOUS
<1>1. q \in Nat /\ r \in 0 .. N - 1 /\ t + l = N * q + r
  BY <1>0, Quotient
<1>. HIDE DEF q, r
<1>2. r - t = N * (0 - q) + l
  BY <1>1
<1>3. r - t \in Int /\ 0 - q \in Int
  BY <1>1
<1>4. (N * (0 - q) + l) % N = l % N
  BY <1>3, LapsApart
<1>. QED  BY <1>2, <1>4 DEF r

\* Less than a lap apart is not in the same place.
LEMMA ModDistinct ==
  ASSUME NEW a \in Nat, NEW b \in Nat, NEW N \in Nat \ {0}, a < b, b < a + N
  PROVE  a % N # b % N
<1>. DEFINE d == b - a
            q == a \div N
            r == a % N
<1>1. q \in Nat /\ r \in 0 .. N - 1 /\ a = N * q + r
  BY Quotient
<1>2. d \in 1 .. N - 1 /\ b = a + d
  OBVIOUS
<1>. HIDE DEF d, q, r
<1>3. CASE r + d < N
  <2>1. b = N * q + (r + d) /\ r + d \in 0 .. N - 1
    BY <1>1, <1>2, <1>3
  <2>2. r + d \in Int /\ q \in Int
    BY <1>1, <1>2
  <2>3. (N * q + (r + d)) % N = r + d
    BY <2>1, <2>2, Remainder
  <2>. QED  BY <1>1, <1>2, <2>1, <2>3 DEF r
<1>4. CASE r + d >= N
  <2>1. b = N * (q + 1) + (r + d - N) /\ r + d - N \in 0 .. N - 1
    BY <1>1, <1>2, <1>4
  <2>2. r + d - N \in Int /\ q + 1 \in Int
    BY <1>1, <1>2
  <2>3. (N * (q + 1) + (r + d - N)) % N = r + d - N
    BY <2>1, <2>2, Remainder
  <2>. QED  BY <1>1, <1>2, <2>1, <2>3 DEF r
<1>. QED  BY <1>1, <1>2, <1>3, <1>4
-----------------------------------------------------------------------------
(* The invariant.                                                          *)

LEMMA SizeIsNat == Size \in Nat \ {0}
BY UartRxAssumption

\* rx_available sees what is unread, less whole laps.
LEMMA AvailableIsUnread ==
  ASSUME TypeOK, InStep
  PROVE  /\ rx_available = Len(unread) % Size
         /\ rx_available \in Index
<1>1. tail \in 0 .. Size - 1 /\ Len(unread) \in Nat
  BY DEF TypeOK, Index
<1>2. (((tail + Len(unread)) % Size) - tail) % Size = Len(unread) % Size
  BY <1>1, SizeIsNat, ModDifference
<1>3. Len(unread) % Size \in 0 .. Size - 1
  BY <1>1, SizeIsNat, Quotient
<1>. QED  BY <1>2, <1>3 DEF rx_available, InStep, WriteIndex, Index

\* What uart_port_poll can still read when it is called: the last bytes.
LEMMA SeenIsSuffix ==
  ASSUME TypeOK
  PROVE  LET missed == Len(unread) - (Len(unread) % Size)
         IN  /\ missed \in 0 .. Len(unread)
             /\ Seen \in Seq(Byte)
             /\ Len(Seen) = Len(unread) % Size
             /\ \A i \in 1 .. Len(Seen) : Seen[i] = unread[missed + i]
<1>. DEFINE L == Len(unread)
            missed == L - (L % Size)
<1>1. L \in Nat /\ unread \in Seq(Byte)
  BY DEF TypeOK
<1>a. L - (L % Size) \in 0 .. L /\ L % Size \in 0 .. Size - 1
  BY <1>1, SizeIsNat, WholeLaps, Quotient
<1>2. missed \in 0 .. L /\ L % Size \in 0 .. Size - 1 /\ L % Size = L - missed
  BY <1>1, <1>a, SizeIsNat
<1>3. Seen = SubSeq(unread, missed + 1, L)
  BY DEF Seen
<1>. HIDE DEF missed
<1>4. \A i \in missed + 1 .. L : unread[i] \in Byte
  BY <1>1, <1>2, ElementOfSeq
<1>. HIDE DEF L
<1>5. missed + 1 \in Int /\ L \in Int
  BY <1>1, <1>2
<1>6. /\ Seen \in Seq(Byte)
      /\ Len(Seen) = IF missed + 1 <= L THEN L - (missed + 1) + 1 ELSE 0
      /\ \A i \in 1 .. L - (missed + 1) + 1 : Seen[i] = unread[missed + 1 + i - 1]
  BY <1>3, <1>4, <1>5, SubSeqProperties
<1>7. Len(Seen) = L - missed
  BY <1>1, <1>2, <1>6
<1>8. \A i \in 1 .. Len(Seen) : Seen[i] = unread[missed + i]
  <2>. SUFFICES ASSUME NEW i \in 1 .. Len(Seen)
                PROVE  Seen[i] = unread[missed + i]
    OBVIOUS
  <2>1. i \in 1 .. L - (missed + 1) + 1 /\ missed + 1 + i - 1 = missed + i
    BY <1>1, <1>2, <1>7
  <2>. QED  BY <1>6, <2>1
<1>9. Len(Seen) = L % Size
  BY <1>2, <1>7
<1>. QED  BY <1>2, <1>6, <1>8, <1>9 DEF L, missed

\* The byte that rx_read takes is gone, the others move up.
LEMMA ReadDrops ==
  ASSUME TypeOK, unread # <<>>
  PROVE  LET rest == SubSeq(unread, 2, Len(unread))
         IN  /\ Len(unread) \in Nat \ {0}
             /\ rest = Tail(unread)
             /\ rest \in Seq(Byte)
             /\ Len(rest) = Len(unread) - 1
             /\ \A i \in 1 .. Len(rest) : rest[i] = unread[i + 1]
<1>1. unread \in Seq(Byte)
  BY DEF TypeOK
<1>2. SubSeq(unread, 2, Len(unread)) = Tail(unread)
  BY <1>1, TailIsSubSeq
<1>. QED  BY <1>1, <1>2, HeadTailProperties, EmptySeq

LEMMA InitInductive == Init => IInv
<1>. SUFFICES ASSUME Init
              PROVE  IInv
  OBVIOUS
<1>1. /\ unread = <<>> /\ Len(unread) = 0 /\ unread \in Seq(Byte)
      /\ count = Size /\ tail = 0
  BY EmptySeq DEF Init
<1>2. TypeOK
  <2>1. 0 \in Index
    BY SizeIsNat DEF Index
  <2>2. poll \in [running : BOOLEAN, avail : Index, n : Index]
    BY <2>1 DEF Init
  <2>3. count \in 1 .. Size /\ tail \in Index
    BY <1>1, <2>1, SizeIsNat
  <2>4. poll.n <= poll.avail /\ poll.n <= MaxOut /\ burst \in 0 .. 2
    BY UartRxAssumption DEF Init
  <2>. QED  BY <1>1, <2>2, <2>3, <2>4 DEF Init, TypeOK
<1>3. InStep
  BY <1>1, SizeIsNat DEF InStep, WriteIndex
<1>4. Holds /\ Promise
  BY <1>1 DEF Init, Holds, Promise
<1>. QED  BY <1>2, <1>3, <1>4 DEF IInv

\* One byte more.
LEMMA StoreInductive ==
  ASSUME IInv, NEW b \in Byte, DmaStore(b)
  PROVE  IInv'
<1>. DEFINE L == Len(unread)
            head == WriteIndex
<1>1. /\ buf \in [Index -> Byte] /\ count \in 1 .. Size /\ tail \in 0 .. Size - 1
      /\ unread \in Seq(Byte) /\ L \in Nat /\ burst \in 0 .. 2
  BY DEF IInv, TypeOK, Index
<1>2. head \in 0 .. Size - 1 /\ head \in Index
  BY <1>1, SizeIsNat DEF WriteIndex, Index
<1>3. /\ buf' = [buf EXCEPT ![head] = b]
      /\ unread' = Append(unread, b)
      /\ tail' = tail /\ poll' = poll /\ line' = line
      /\ burst' = IF burst < 2 THEN burst + 1 ELSE 2
  BY DEF DmaStore, WriteIndex
<1>4. /\ unread' \in Seq(Byte) /\ Len(unread') = L + 1
      /\ \A i \in 1 .. L : unread'[i] = unread[i]
      /\ unread'[L + 1] = b
  BY <1>1, <1>3, AppendProperties
<1>5. count' \in 1 .. Size /\ WriteIndex' = IF head = Size - 1 THEN 0 ELSE head + 1
  BY <1>1, SizeIsNat DEF DmaStore, Reload, WriteIndex
<1>6. TypeOK'
  <2>1. buf' \in [Index -> Byte]
    BY <1>1, <1>3
  <2>2. burst' \in 0 .. 2
    BY <1>1, <1>3
  <2>. QED  BY <1>3, <1>4, <1>5, <2>1, <2>2 DEF IInv, TypeOK
<1>7. head = (tail + L) % Size
  BY DEF IInv, InStep
<1>. HIDE DEF L, head
<1>8. InStep'
  <2>1. tail + L \in Nat /\ tail + L + 1 = tail' + Len(unread')
    BY <1>1, <1>3, <1>4
  <2>2. (tail + L + 1) % Size = IF head = Size - 1 THEN 0 ELSE head + 1
    BY <1>7, <2>1, SizeIsNat, ModSuccessor
  <2>. QED  BY <1>5, <2>1, <2>2 DEF InStep
<1>9. Holds'
  <2>0. tail' = tail /\ Len(unread') = L + 1
    BY <1>3, <1>4
  <2>. SUFFICES ASSUME NEW i \in 1 .. Len(unread'), i > Len(unread') - Size
                PROVE  buf'[(tail' + i - 1) % Size] = unread'[i]
    BY DEF Holds
  <2>5. i \in 1 .. L + 1 /\ i > L + 1 - Size
    BY <1>1, <2>0, SizeIsNat
  <2>1. tail + i - 1 \in Nat /\ tail + L \in Nat
    BY <1>1, <2>5
  <2>2. (tail + i - 1) % Size \in Index
    BY <2>1, SizeIsNat, Quotient DEF Index
  <2>3. CASE i = L + 1
    <3>1. tail + i - 1 = tail + L
      BY <1>1, <2>3
    <3>. QED  BY <1>1, <1>2, <1>3, <1>4, <1>7, <2>0, <2>3, <3>1
  <2>4. CASE i # L + 1
    <3>1. /\ i \in 1 .. L /\ i > L - Size
          /\ tail + i - 1 < tail + L /\ tail + L < tail + i - 1 + Size
      BY <1>1, <2>5, <2>4, SizeIsNat
    <3>2. (tail + i - 1) % Size # head
      BY <1>7, <2>1, <3>1, SizeIsNat, ModDistinct
    <3>3. buf[(tail + i - 1) % Size] = unread[i]
      BY <3>1 DEF IInv, Holds, L
    <3>4. buf'[(tail + i - 1) % Size] = buf[(tail + i - 1) % Size]
      BY <1>1, <1>3, <2>2, <3>2
    <3>. QED  BY <1>4, <2>0, <3>1, <3>3, <3>4
  <2>. QED  BY <2>3, <2>4
<1>10. Promise'
  <2>. SUFFICES ASSUME poll.running
                PROVE  /\ poll.avail - poll.n + burst' <= L + 1
                       /\ burst' <= 1 => L + 1 = poll.avail - poll.n + burst'
    BY <1>3, <1>4 DEF Promise
  <2>1. /\ poll.avail - poll.n + burst <= L
        /\ burst <= 1 => L = poll.avail - poll.n + burst
    BY DEF IInv, Promise, L
  <2>2. poll.avail \in Int /\ poll.n \in Int
    BY SizeIsNat DEF IInv, TypeOK, Index
  <2>. QED  BY <1>1, <1>3, <2>1, <2>2
<1>. QED  BY <1>6, <1>8, <1>9, <1>10 DEF IInv

\* A poll begins, whole laps behind or not.
LEMMA PollInductive ==
  ASSUME IInv, PollCall
  PROVE  IInv'
<1>. DEFINE L == Len(unread)
            missed == L - (L % Size)
<1>1. /\ TypeOK /\ InStep /\ Holds
      /\ tail \in 0 .. Size - 1 /\ L \in Nat
  BY DEF IInv, TypeOK, Index
<1>2. /\ missed \in 0 .. L /\ Seen \in Seq(Byte) /\ Len(Seen) = L % Size
      /\ \A i \in 1 .. Len(Seen) : Seen[i] = unread[missed + i]
  BY <1>1, SeenIsSuffix
<1>3. rx_available = L % Size /\ rx_available \in Index
  BY <1>1, AvailableIsUnread
<1>4. /\ poll' = [running |-> TRUE, avail |-> rx_available, n |-> 0]
      /\ unread' = Seen /\ burst' = 0
      /\ UNCHANGED <<buf, count, tail, line>>
  BY DEF PollCall
<1>5. TypeOK'
  <2>1. 0 \in Index /\ rx_available >= 0
    BY <1>3, SizeIsNat DEF Index
  <2>2. /\ poll' \in [running : BOOLEAN, avail : Index, n : Index]
        /\ poll'.n <= poll'.avail /\ poll'.n <= MaxOut
    BY <1>3, <1>4, <2>1, UartRxAssumption
  <2>. QED  BY <1>1, <1>2, <1>4, <2>2 DEF TypeOK
<1>6. L % Size \in 0 .. Size - 1 /\ missed % Size = 0
  BY <1>1, SizeIsNat, Quotient, WholeLaps
<1>6a. L = missed + (L % Size)
  BY <1>1, <1>6, SizeIsNat
<1>. HIDE DEF L, missed
<1>7. InStep'
  <2>1. WriteIndex = (tail + L) % Size
    BY <1>1 DEF InStep, L
  <2>0. tail \in Nat /\ L \in Nat
    BY <1>1
  <2>2. (tail + (L % Size)) % Size = (tail + L) % Size
    BY <2>0, SizeIsNat, ModLap
  <2>. QED  BY <1>2, <1>4, <2>1, <2>2 DEF InStep, WriteIndex
<1>8. Holds'
  <2>. SUFFICES ASSUME NEW i \in 1 .. Len(Seen)
                PROVE  buf[(tail + i - 1) % Size] = Seen[i]
    BY <1>4 DEF Holds
  <2>1. /\ tail + i - 1 \in Nat /\ missed \in Nat
        /\ missed + i \in 1 .. L /\ missed + i > L - Size
        /\ tail + i - 1 + missed = tail + (missed + i) - 1
        /\ tail + i - 1 + 0 = tail + i - 1
    BY <1>1, <1>2, <1>6, <1>6a, SizeIsNat
  <2>2. buf[(tail + (missed + i) - 1) % Size] = unread[missed + i]
    BY <1>1, <2>1 DEF Holds, L
  <2>3. (tail + i - 1 + (missed % Size)) % Size = (tail + i - 1 + missed) % Size
    BY <2>1, SizeIsNat, ModLap
  <2>. QED  BY <1>2, <1>6, <2>1, <2>2, <2>3
<1>9. Promise'
  BY <1>2, <1>3, <1>4, <1>6 DEF Promise
<1>. QED  BY <1>5, <1>7, <1>8, <1>9 DEF IInv

\* There is something to read wherever uart_port_poll reads.
LEMMA ReadFindsByte ==
  ASSUME IInv, rx_read
  PROVE  unread # <<>>
<1>1. poll.running /\ poll.n < poll.avail /\ poll.n \in Int /\ poll.avail \in Int
  BY SizeIsNat DEF IInv, TypeOK, rx_read, Index
<1>2. poll.avail - poll.n + burst <= Len(unread) /\ burst \in 0 .. 2
  BY <1>1 DEF IInv, Promise, TypeOK
<1>3. Len(unread) # 0
  BY <1>1, <1>2
<1>. QED  BY <1>3, EmptySeq

LEMMA ReadInductive ==
  ASSUME IInv, rx_read
  PROVE  IInv'
<1>. DEFINE L == Len(unread)
            rest == SubSeq(unread, 2, L)
<1>1. /\ TypeOK /\ InStep /\ Holds /\ Promise
      /\ tail \in 0 .. Size - 1 /\ unread # <<>>
      /\ poll \in [running : BOOLEAN, avail : Index, n : Index]
  BY ReadFindsByte DEF IInv, TypeOK, Index
<1>2. /\ L \in Nat \ {0} /\ rest \in Seq(Byte) /\ Len(rest) = L - 1
      /\ \A i \in 1 .. Len(rest) : rest[i] = unread[i + 1]
  BY <1>1, ReadDrops
<1>3. /\ unread' = rest /\ tail' = (tail + 1) % Size /\ line' = buf[tail]
      /\ poll' = [poll EXCEPT !.n = poll.n + 1]
      /\ poll.running /\ poll.n < MaxOut /\ poll.n < poll.avail
      /\ UNCHANGED <<buf, count, burst>>
  BY DEF rx_read
<1>. HIDE DEF rest, L
<1>4. tail' \in 0 .. Size - 1
  <2>1. tail + 1 \in Nat
    BY <1>1
  <2>. QED  BY <1>3, <2>1, SizeIsNat, Quotient
<1>5. TypeOK'
  <2>1. poll.avail \in 0 .. Size - 1 /\ poll.n \in 0 .. Size - 1
    BY <1>1 DEF Index
  <2>2. poll.n + 1 \in Index /\ poll.n + 1 <= poll.avail /\ poll.n + 1 <= MaxOut
    BY <1>3, <2>1, SizeIsNat, UartRxAssumption DEF Index
  <2>3. /\ poll' \in [running : BOOLEAN, avail : Index, n : Index]
        /\ poll'.n <= poll'.avail /\ poll'.n <= MaxOut
    BY <1>1, <1>3, <2>2
  <2>4. line' \in Byte
    BY <1>1, <1>3 DEF TypeOK, Index
  <2>. QED  BY <1>1, <1>2, <1>3, <1>4, <2>3, <2>4 DEF TypeOK, Index
\* A position counted from the new tail is one further from the old one.
<1>6. ASSUME NEW i \in Nat
      PROVE  (tail' + i) % Size = (tail + 1 + i) % Size
  <2>1. i + 1 + tail \in Nat /\ tail + 1 \in Nat
    BY <1>1
  <2>2. (i + ((tail + 1) % Size)) % Size = (i + (tail + 1)) % Size
    BY <2>1, SizeIsNat, ModLap
  <2>3. i + (tail + 1) = tail + 1 + i /\ i + tail' = tail' + i
    BY <1>1, <1>4
  <2>. QED  BY <1>3, <2>2, <2>3
<1>7. InStep'
  <2>1. L - 1 \in Nat /\ tail + 1 + (L - 1) = tail + L
    BY <1>1, <1>2
  <2>2. WriteIndex' = (tail + L) % Size
    BY <1>1, <1>3 DEF InStep, WriteIndex, L
  <2>3. (tail' + (L - 1)) % Size = (tail + 1 + (L - 1)) % Size
    BY <1>6, <2>1
  <2>. QED  BY <1>2, <1>3, <2>1, <2>2, <2>3 DEF InStep
<1>8. Holds'
  <2>. SUFFICES ASSUME NEW i \in 1 .. L - 1, i > L - 1 - Size
                PROVE  buf[(tail' + i - 1) % Size] = rest[i]
    BY <1>2, <1>3 DEF Holds
  <2>1. /\ i + 1 \in 1 .. L /\ i + 1 > L - Size /\ i - 1 \in Nat
        /\ tail' + (i - 1) = tail' + i - 1
        /\ tail + 1 + (i - 1) = tail + (i + 1) - 1
    BY <1>1, <1>2, <1>4, SizeIsNat
  <2>2. buf[(tail + (i + 1) - 1) % Size] = unread[i + 1]
    BY <1>1, <2>1 DEF Holds, L
  <2>3. (tail' + (i - 1)) % Size = (tail + 1 + (i - 1)) % Size
    BY <1>6, <2>1
  <2>. QED  BY <1>2, <2>1, <2>2, <2>3
<1>9. Promise'
  <2>1. poll.avail \in Int /\ poll.n \in Int /\ burst \in Int
    BY <1>1, SizeIsNat DEF TypeOK, Index
  <2>2. poll'.n = poll.n + 1 /\ poll'.avail = poll.avail
    BY <1>1, <1>3
  <2>3. /\ poll.avail - poll.n + burst <= L
        /\ burst <= 1 => L = poll.avail - poll.n + burst
    BY <1>1, <1>3 DEF Promise, L
  <2>. QED  BY <1>2, <1>3, <2>1, <2>2, <2>3 DEF Promise
<1>. QED  BY <1>5, <1>7, <1>8, <1>9 DEF IInv

LEMMA NextInductive == IInv /\ [Next]_vars => IInv'
<1>. SUFFICES ASSUME IInv, [Next]_vars
              PROVE  IInv'
  OBVIOUS
<1>1. ASSUME PollReturn
      PROVE  IInv'
  <2>1. 0 \in Index /\ 0 <= MaxOut
    BY SizeIsNat, UartRxAssumption DEF Index
  <2>2. /\ poll' = [running |-> FALSE, avail |-> 0, n |-> 0]
        /\ UNCHANGED <<buf, count, tail, line, unread, burst>>
    BY <1>1 DEF PollReturn
  <2>3. /\ poll' \in [running : BOOLEAN, avail : Index, n : Index]
        /\ poll'.n <= poll'.avail /\ poll'.n <= MaxOut
    BY <2>1, <2>2
  <2>. QED  BY <2>2, <2>3
            DEF IInv, TypeOK, InStep, WriteIndex, Holds, Promise
<1>2. ASSUME UNCHANGED vars
      PROVE  IInv'
  BY <1>2 DEF vars, IInv, TypeOK, InStep, WriteIndex, Holds, Promise
<1>. QED  BY <1>1, <1>2, StoreInductive, PollInductive, ReadInductive
          DEF Next, Main

LEMMA Invariance == Spec => []IInv
BY InitInductive, NextInductive, PTL DEF Spec

\* Indices stay in the buffer, a poll never reads more than it may
\* (uart_midi_bridge.c:21, bsp_uart_midi.c:103).
THEOREM TypeCorrect == Spec => []TypeOK
BY Invariance, PTL DEF IInv

-----------------------------------------------------------------------------
(* What is read.                                                           *)

\* Not lapped, the reader finds the oldest unread byte.
LEMMA ReadOldest ==
  ASSUME IInv, rx_read, Len(unread) <= Size
  PROVE  unread # <<>> /\ line' = Head(unread)
<1>1. unread # <<>> /\ unread \in Seq(Byte) /\ tail \in 0 .. Size - 1
  BY ReadFindsByte DEF IInv, TypeOK, Index
<1>2. Len(unread) \in Nat \ {0}
  BY <1>1, EmptySeq
<1>3. 1 \in 1 .. Len(unread) /\ 1 > Len(unread) - Size
  BY <1>2, SizeIsNat
<1>4. buf[(tail + 1 - 1) % Size] = unread[1]
  BY <1>3 DEF IInv, Holds
<1>5. tail + 1 - 1 = tail /\ tail % Size = tail
  BY <1>1, SizeIsNat, ModSmall
<1>6. Head(unread) = unread[1]
  BY <1>1
<1>. QED  BY <1>1, <1>4, <1>5, <1>6 DEF rx_read

\* With at most one arrival since rx_available there is no lapping.
LEMMA PromptIsNotLapped ==
  ASSUME IInv, rx_read, burst <= 1
  PROVE  Len(unread) <= Size
<1>1. poll.running /\ poll.avail \in 0 .. Size - 1 /\ poll.n \in 0 .. Size - 1
  BY DEF rx_read, IInv, TypeOK, Index
<1>2. Len(unread) = poll.avail - poll.n + burst /\ burst \in 0 .. 2
  BY <1>1 DEF IInv, Promise, TypeOK
<1>. QED  BY <1>1, <1>2, SizeIsNat

\* Whatever the channel does meanwhile: with at most one arrival in the poll
\* every byte read is the oldest unread one (uart_midi_bridge.c:19-23).
THEOREM PromptReadExact == Spec => PromptReadIsExact
<1>1. IInv /\ [Next]_vars =>
        [rx_read /\ burst <= 1 => unread # <<>> /\ line' = Head(unread)]_vars
  BY ReadOldest, PromptIsNotLapped
<1>. QED  BY <1>1, Invariance, PTL DEF Spec, PromptReadIsExact

-----------------------------------------------------------------------------
(* The refinement of LossyStream.                                          *)

LEMMA NextRefines ==
  IInv /\ [Next]_vars => [Stream!Next]_(Stream!vars)
<1>. SUFFICES ASSUME IInv, [Next]_vars
              PROVE  [Stream!Next]_(Stream!vars)
  OBVIOUS
<1>0. TypeOK
  BY DEF IInv
<1>1. ASSUME NEW b \in Byte, DmaStore(b)
      PROVE  Stream!Next
  BY <1>1 DEF DmaStore, Stream!Next, Stream!Arrive
<1>2. ASSUME PollCall
      PROVE  [Stream!Next]_(Stream!vars)
  <2>. DEFINE L == Len(unread)
              laps == L \div Size
              missed == L - (L % Size)
  <2>1. L \in Nat /\ unread \in Seq(Byte)
    BY <1>0 DEF TypeOK
  <2>2. laps \in Nat /\ missed = laps * Size /\ missed \in 0 .. L
    BY <2>1, SizeIsNat, Quotient, WholeLaps
  <2>3. unread' = SubSeq(unread, missed + 1, L) /\ line' = line
    BY <1>2 DEF PollCall, Seen
  <2>. HIDE DEF L, laps, missed
  <2>4. CASE laps = 0
    <3>1. missed + 1 = 1
      BY <2>2, <2>4, SizeIsNat
    <3>2. unread' = unread
      BY <2>1, <2>3, <3>1, SubSeqFull DEF L
    <3>. QED  BY <2>3, <3>2 DEF Stream!vars
  <2>5. CASE laps # 0
    <3>1. laps \in 1 .. L /\ laps * Size <= L
      BY <2>1, <2>2, <2>5, SizeIsNat
    <3>2. unread' = SubSeq(unread, laps * Size + 1, L)
      BY <2>2, <2>3
    <3>3. Stream!Miss
      BY <2>3, <3>1, <3>2 DEF Stream!Miss, L
    <3>. QED  BY <3>3 DEF Stream!Next
  <2>. QED  BY <2>4, <2>5
<1>3. ASSUME rx_read
      PROVE  Stream!Next
  <2>1. unread # <<>> /\ line' \in Byte
    BY <1>0, <1>3, ReadFindsByte DEF rx_read, TypeOK
  <2>2. Len(unread) <= Size => line' = Head(unread)
    BY <1>3, ReadOldest
  <2>3. unread' = Tail(unread)
    BY <1>0, <1>3, <2>1, ReadDrops DEF rx_read
  <2>. QED  BY <2>1, <2>2, <2>3 DEF Stream!Next, Stream!Read
<1>4. ASSUME PollReturn
      PROVE  UNCHANGED Stream!vars
  BY <1>4 DEF PollReturn, Stream!vars
<1>5. ASSUME UNCHANGED vars
      PROVE  UNCHANGED Stream!vars
  BY <1>5 DEF vars, Stream!vars
<1>. QED  BY <1>1, <1>2, <1>3, <1>4, <1>5 DEF Next, Main

\* Reception from DIN implements the lossy stream: in order, once, unaltered,
\* and if the channel has lapped the reader, whole buffers are missed and no
\* byte is ever out of step (bsp_uart_midi.c:94-105).
THEOREM ReceivesInStep == Spec => ImplementsLossyStream
<1>1. Init => Stream!Init
  BY DEF Init, Stream!Init
<1>. QED  BY <1>1, Invariance, NextRefines, PTL
          DEF Spec, ImplementsLossyStream, Stream!Spec
=============================================================================
