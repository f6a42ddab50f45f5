------------------------- MODULE SysexRouterProofs -------------------------
(***************************************************************************)
(* SysEx reception, for every number of ports, buffer length and timeout:  *)
(* what is delivered is what arrived, and what arrives well is delivered.  *)
(*                                                                         *)
(* The invariant ties each assembler to the record of the bytes that came  *)
(* on its port, and its timestamp, which wraps, to the age in that record, *)
(* which does not.                                                         *)
(***************************************************************************)
EXTENDS SysexRouter, SequenceTheorems, TLAPS

Ctx == [state : {"SX_IDLE", "SX_RECEIVING"}, buf : Seq(Byte),
        timestamp : 0 .. Wrap - 1]

Hist == [bytes : Seq(Byte), idle : BOOLEAN, late : BOOLEAN, age : Nat]

\* Addition on the tick.
Plus(a, b) == IF a + b < Wrap THEN a + b ELSE a + b - Wrap

\* An assembler that is receiving holds what is recorded, in time so far.
Match(c, h) ==
  c.state = "SX_RECEIVING" =>
    /\ Clean(h.bytes) /\ c.buf = h.bytes
    /\ ~h.late
    /\ h.age + since < Wrap
    /\ now = Plus(c.timestamp, h.age)

\* What was begun well and is in time is being received.
Alive(c, h) ==
  h.idle /\ Clean(h.bytes) /\ Len(h.bytes) <= MaxLen /\ ~h.late
    => c.state = "SX_RECEIVING"

Fits(c) == Len(c.buf) <= MaxLen

Agree(c, h) == c \in Ctx /\ Fits(c) /\ h \in Hist /\ Match(c, h) /\ Alive(c, h)

Clock == since \in 0 .. Wrap - 1 /\ tick = Plus(now, since)

IInv ==
  /\ TypeOK
  /\ Clock
  /\ hist \in [Port -> Hist]
  /\ \A p \in Port : Agree(ctx[p], hist[p])
  /\ last.from # NPorts => port # NPorts
  /\ DeliveredAsReceived

-----------------------------------------------------------------------------
(* The tick.                                                               *)

LEMMA Remainder ==
  ASSUME NEW W \in Nat \ {0}, NEW q \in Int, NEW r \in 0 .. W - 1
  PROVE  (W * q + r) % W = r
OBVIOUS

\* The two remainders that occur.
LEMMA TickMod ==
  ASSUME NEW x \in 0 .. Wrap - 1
  PROVE  x % Wrap = x /\ (x - Wrap) % Wrap = x /\ (x + 1) % Wrap = Plus(x, 1)
<1>1. Wrap \in Nat \ {0} /\ Wrap \in Int /\ x \in Int /\ Wrap > 1
  BY SysexAssumption
<1>2. 0 \in Int /\ -1 \in Int /\ 1 \in Int
  OBVIOUS
<1>3. (Wrap * 0 + x) % Wrap = x /\ (Wrap * (-1) + x) % Wrap = x
  BY <1>1, <1>2, Remainder
<1>4. Wrap * 0 + x = x /\ Wrap * (-1) + x = x - Wrap
  BY <1>1
<1>5. (x + 1) % Wrap = Plus(x, 1)
  <2>1. CASE x + 1 < Wrap
    <3>1. x + 1 \in 0 .. Wrap - 1
      BY <1>1, <2>1
    <3>2. (Wrap * 0 + (x + 1)) % Wrap = x + 1
      BY <1>1, <1>2, <3>1, Remainder
    <3>3. Wrap * 0 + (x + 1) = x + 1
      BY <1>1
    <3>. QED  BY <2>1, <3>2, <3>3 DEF Plus
  <2>2. CASE x + 1 = Wrap
    <3>1. 0 \in 0 .. Wrap - 1
      BY <1>1
    <3>2. (Wrap * 1 + 0) % Wrap = 0
      BY <1>1, <1>2, <3>1, Remainder
    <3>3. Wrap * 1 + 0 = x + 1
      BY <1>1, <2>2
    <3>4. (x + 1) % Wrap = 0
      BY <3>2, <3>3
    <3>. QED  BY <1>1, <2>2, <3>4 DEF Plus
  <2>. QED  BY <1>1, <2>1, <2>2
<1>. QED  BY <1>3, <1>4, <1>5

\* The 32-bit difference is the age, also when the tick has wrapped.
LEMMA ExpiredIsAge ==
  ASSUME NEW c, NEW a \in Nat, a < Wrap, c.timestamp \in 0 .. Wrap - 1,
         now = Plus(c.timestamp, a)
  PROVE  Expired(c) <=> a > Timeout
<1>1. a \in 0 .. Wrap - 1 /\ Wrap \in Int
  BY SysexAssumption
<1>2. now - c.timestamp = a \/ now - c.timestamp = a - Wrap
  BY <1>1 DEF Plus
<1>3. (now - c.timestamp) % Wrap = a
  BY <1>1, <1>2, TickMod
<1>. QED  BY <1>3 DEF Expired

LEMMA PlusPlus ==
  ASSUME NEW t \in 0 .. Wrap - 1, NEW a \in Nat, NEW s \in Nat, a + s < Wrap
  PROVE  Plus(Plus(t, a), s) = Plus(t, a + s)
<1>1. Wrap \in Nat /\ t \in Int
  BY SysexAssumption
<1>. QED  BY <1>1 DEF Plus

-----------------------------------------------------------------------------
(* Sequences that are clean.                                               *)

LEMMA DataIsData == \A b \in Data : b \notin {"F0", "F7", "status", "realtime"}
BY SysexAssumption DEF Status

LEMMA CleanStart == <<"F0">> \in Seq(Byte) /\ Len(<<"F0">>) = 1 /\ Clean(<<"F0">>)
BY DEF Clean, Byte, Status

LEMMA CleanAppend ==
  ASSUME NEW s \in Seq(Byte), Clean(s), NEW b \in Byte
  PROVE  /\ Append(s, b) \in Seq(Byte) /\ Len(Append(s, b)) = Len(s) + 1
         /\ Clean(Append(s, b)) <=> b \in Data
<1>1. /\ Append(s, b) \in Seq(Byte) /\ Len(Append(s, b)) = Len(s) + 1
      /\ \A i \in 1 .. Len(s) : Append(s, b)[i] = s[i]
      /\ Append(s, b)[Len(s) + 1] = b
  BY AppendProperties
<1>2. Len(s) \in Nat /\ Len(s) # 0
  BY EmptySeq DEF Clean
<1>3. Append(s, b) # <<>>
  BY <1>1, <1>2, EmptySeq
<1>4. 1 \in 1 .. Len(s) /\ Len(s) + 1 \in 2 .. Len(s) + 1
  BY <1>2
<1>5. Clean(Append(s, b)) => b \in Data
  BY <1>1, <1>4 DEF Clean
<1>6. ASSUME b \in Data
      PROVE  Clean(Append(s, b))
  <2>1. Append(s, b)[1] = "F0"
    BY <1>1, <1>4 DEF Clean
  <2>2. ASSUME NEW i \in 2 .. Len(s) + 1
        PROVE  Append(s, b)[i] \in Data
    <3>1. CASE i = Len(s) + 1
      BY <1>1, <1>6, <3>1
    <3>2. CASE i # Len(s) + 1
      <4>1. i \in 2 .. Len(s) /\ i \in 1 .. Len(s)
        BY <1>2, <3>2
      <4>. QED  BY <1>1, <4>1 DEF Clean
    <3>. QED  BY <3>1, <3>2
  <2>. QED  BY <1>1, <1>3, <2>1, <2>2 DEF Clean
<1>. QED  BY <1>1, <1>5, <1>6

LEMMA NotClean == ~Clean(<<>>)
BY DEF Clean

-----------------------------------------------------------------------------
(* One byte, through the assembler and into the record.                    *)

LEMMA UpdateHist ==
  ASSUME NEW h \in Hist
  PROVE  /\ \A x \in Seq(Byte) : [h EXCEPT !.bytes = x] \in Hist
         /\ \A x \in BOOLEAN : [h EXCEPT !.idle = x] \in Hist
         /\ \A x \in BOOLEAN : [h EXCEPT !.late = x] \in Hist
         /\ \A x \in Nat : [h EXCEPT !.age = x] \in Hist
BY DEF Hist

LEMMA UpdateCtx ==
  ASSUME NEW c \in Ctx
  PROVE  /\ \A x \in Seq(Byte) : [c EXCEPT !.buf = x] \in Ctx
         /\ \A x \in 0 .. Wrap - 1 : [c EXCEPT !.timestamp = x] \in Ctx
BY DEF Ctx

LEMMA NothingIs ==
  /\ Nothing \in Hist /\ Nothing.bytes = <<>> /\ Nothing.idle /\ ~Nothing.late
  /\ Nothing.age = 0
<1>1. PICK n \in Nat : n = 0
  OBVIOUS
<1>2. Nothing = [bytes |-> <<>>, idle |-> TRUE, late |-> FALSE, age |-> n]
  BY <1>1 DEF Nothing
<1>3. <<>> \in Seq(Byte)
  BY EmptySeq
<1>4. Nothing \in Hist
  BY <1>2, <1>3 DEF Hist
<1>. QED  BY <1>4 DEF Nothing

LEMMA IdleIs ==
  ASSUME NEW c
  PROVE  Idle(c) \in Ctx /\ Fits(Idle(c)) /\ Idle(c).state = "SX_IDLE"
<1>1. PICK n \in 0 .. Wrap - 1 : n = 0
  BY SysexAssumption
<1>2. Idle(c) = [state |-> "SX_IDLE", buf |-> <<>>, timestamp |-> n]
  BY <1>1 DEF Idle
<1>3. <<>> \in Seq(Byte) /\ Len(<<>>) = 0
  BY EmptySeq
<1>4. Idle(c) \in Ctx
  BY <1>2, <1>3 DEF Ctx
<1>5. Idle(c).buf = <<>> /\ Idle(c).state = "SX_IDLE"
  BY DEF Idle
<1>. QED  BY <1>3, <1>4, <1>5, SysexAssumption DEF Fits

\* An idle assembler agrees with a record that is not clean, or late.
LEMMA IdleAgrees ==
  ASSUME NEW c \in Ctx, Fits(c), c.state = "SX_IDLE", NEW h \in Hist,
         ~Clean(h.bytes) \/ h.late
  PROVE  Agree(c, h)
<1>1. Len(h.bytes) \in Nat /\ MaxLen \in Nat
  BY SysexAssumption DEF Hist
<1>2. Alive(c, h)
  BY <1>1 DEF Alive
<1>3. Match(c, h)
  BY DEF Match
<1>. QED  BY <1>2, <1>3 DEF Agree

\* While it is receiving, too late and expired are the same.
LEMMA ExpiredIsLate ==
  ASSUME IInv, NEW p \in Port, ctx[p].state = "SX_RECEIVING"
  PROVE  Expired(ctx[p]) <=> hist[p].age > Timeout
<1>1. Agree(ctx[p], hist[p]) /\ since \in 0 .. Wrap - 1
  BY DEF IInv, Clock
<1>2. hist[p].age \in Nat /\ ctx[p].timestamp \in 0 .. Wrap - 1
  BY <1>1 DEF Agree, Hist, Ctx
<1>3. /\ hist[p].age + since < Wrap
      /\ now = Plus(ctx[p].timestamp, hist[p].age)
  BY <1>1 DEF Agree, Match
<1>4. hist[p].age < Wrap
  BY <1>1, <1>2, <1>3, SysexAssumption
<1>. QED  BY <1>2, <1>3, <1>4, ExpiredIsAge

LEMMA StartAgrees ==
  ASSUME IInv, NEW p \in Port
  PROVE  Agree(sx_feed(ctx[p], "F0"), Record(p, "F0"))
<1>. DEFINE c == ctx[p]
            e == sx_feed(c, "F0")
            g == Record(p, "F0")
<1>1. /\ c \in Ctx /\ c.state \in {"SX_IDLE", "SX_RECEIVING"}
      /\ now \in 0 .. Wrap - 1 /\ since \in 0 .. Wrap - 1
  BY DEF IInv, Agree, TypeOK, Clock, Ctx
<1>2. /\ g \in Hist /\ g.bytes = <<"F0">> /\ ~g.late /\ g.age = 0
      /\ g.idle <=> c.state = "SX_IDLE"
  <2>1. g = [Nothing EXCEPT !.bytes = <<"F0">>, !.idle = (c.state = "SX_IDLE")]
    BY DataIsData DEF Record
  <2>2. [Nothing EXCEPT !.bytes = <<"F0">>] \in Hist
    BY NothingIs, CleanStart, UpdateHist
  <2>3. (c.state = "SX_IDLE") \in BOOLEAN
    OBVIOUS
  <2>4. g \in Hist
    BY <2>1, <2>2, <2>3, UpdateHist
  <2>. QED  BY <2>1, <2>4, NothingIs DEF Hist
<1>. HIDE DEF g
<1>3. CASE c.state = "SX_IDLE"
  <2>1. e = [state |-> "SX_RECEIVING", buf |-> <<"F0">>, timestamp |-> now]
    BY <1>3, DataIsData DEF sx_feed, Started, Completes
  <2>2. e \in Ctx
    <3>1. [state |-> "SX_RECEIVING", buf |-> <<"F0">>, timestamp |-> now] \in Ctx
      BY <1>1, CleanStart DEF Ctx
    <3>. QED  BY <2>1, <3>1
  <2>3. e.buf = <<"F0">> /\ e.timestamp = now /\ e.state = "SX_RECEIVING"
    BY <2>1
  <2>. HIDE DEF e
  <2>4. g.age + since < Wrap /\ now = Plus(e.timestamp, g.age)
    BY <1>1, <1>2, <2>3, SysexAssumption DEF Plus
  <2>5. Match(e, g)
    BY <1>2, <2>3, <2>4, CleanStart DEF Match
  <2>6. Fits(e)
    BY <2>3, CleanStart, SysexAssumption DEF Fits
  <2>7. Alive(e, g)
    BY <2>3 DEF Alive
  <2>8. Agree(e, g)
    BY <1>2, <2>2, <2>5, <2>6, <2>7 DEF Agree
  <2>. QED  BY <2>8 DEF e, g
<1>4. CASE c.state = "SX_RECEIVING"
  <2>1. e = Idle(c)
    BY <1>4, DataIsData DEF sx_feed, Completes
  <2>2. e \in Ctx /\ Fits(e) /\ e.state = "SX_IDLE"
    BY <2>1, IdleIs
  <2>. HIDE DEF e
  <2>3. Match(e, g) /\ Alive(e, g)
    BY <1>2, <1>4, <2>2 DEF Match, Alive
  <2>4. Agree(e, g)
    BY <1>2, <2>2, <2>3 DEF Agree
  <2>. QED  BY <2>4 DEF e, g
<1>. QED  BY <1>1, <1>3, <1>4

LEMMA RealtimeAgrees ==
  ASSUME IInv, NEW p \in Port
  PROVE  Agree(sx_feed(ctx[p], "realtime"), Record(p, "realtime"))
<1>. DEFINE c == ctx[p]
            h == hist[p]
            e == sx_feed(c, "realtime")
            g == Record(p, "realtime")
<1>1. /\ c \in Ctx /\ Fits(c) /\ h \in Hist /\ Match(c, h) /\ Alive(c, h)
      /\ c.state \in {"SX_IDLE", "SX_RECEIVING"}
  BY DEF IInv, Agree, Ctx
<1>2. /\ g \in Hist /\ g.bytes = h.bytes /\ g.idle = h.idle /\ g.age = h.age
      /\ g.late <=> h.late \/ h.age > Timeout
  <2>1. g = [h EXCEPT !.late = h.late \/ h.age > Timeout]
    BY DataIsData DEF Record
  <2>2. (h.late \/ h.age > Timeout) \in BOOLEAN
    OBVIOUS
  <2>3. g \in Hist
    BY <1>1, <2>1, <2>2, UpdateHist
  <2>. QED  BY <1>1, <2>1, <2>3 DEF Hist
<1>. HIDE DEF g
<1>3. CASE c.state = "SX_RECEIVING" /\ Expired(c)
  <2>1. e = Idle(c)
    BY <1>3, DataIsData DEF sx_feed, Completes
  <2>2. g.late
    BY <1>2, <1>3, ExpiredIsLate
  <2>3. Agree(e, g)
    BY <1>2, <2>1, <2>2, IdleIs, IdleAgrees
  <2>. QED  BY <2>3 DEF g
<1>4. CASE ~(c.state = "SX_RECEIVING" /\ Expired(c))
  <2>1. e = c
    BY <1>1, <1>4, DataIsData DEF sx_feed, Completes
  <2>2. c.state = "SX_RECEIVING" => ~(h.age > Timeout)
    BY <1>4, ExpiredIsLate
  <2>3. Match(e, g)
    BY <1>1, <1>2, <2>1, <2>2 DEF Match
  <2>4. Alive(e, g)
    BY <1>1, <1>2, <2>1 DEF Alive
  <2>5. Agree(e, g)
    BY <1>1, <1>2, <2>1, <2>3, <2>4 DEF Agree
  <2>. QED  BY <2>5 DEF g
<1>. QED  BY <1>3, <1>4

LEMMA DataAgrees ==
  ASSUME IInv, NEW p \in Port, NEW b \in Data
  PROVE  Agree(sx_feed(ctx[p], b), Record(p, b))
<1>. DEFINE c == ctx[p]
            h == hist[p]
            e == sx_feed(c, b)
            g == Record(p, b)
            s == Append(h.bytes, b)
<1>1. /\ c \in Ctx /\ Fits(c) /\ h \in Hist /\ Match(c, h) /\ Alive(c, h)
      /\ c.state \in {"SX_IDLE", "SX_RECEIVING"} /\ c.buf \in Seq(Byte)
      /\ h.bytes \in Seq(Byte) /\ h.age \in Nat
      /\ now \in 0 .. Wrap - 1 /\ since \in 0 .. Wrap - 1
  BY DEF IInv, Agree, Ctx, Hist, TypeOK, Clock
<1>2. b \in Byte /\ b \notin {"F0", "F7", "status", "realtime"}
  BY DataIsData DEF Byte, Status
<1>3. Len(h.bytes) \in Nat /\ MaxLen \in Nat /\ Wrap \in Nat
  BY <1>1, SysexAssumption
<1>4. CASE ~Clean(h.bytes)
  <2>1. g = Nothing
    BY <1>2, <1>4 DEF Record
  <2>2. c.state = "SX_IDLE"
    BY <1>1, <1>4 DEF Match
  <2>3. e = c
    BY <1>2, <2>2 DEF sx_feed, Completes
  <2>4. Agree(e, g)
    BY <1>1, <2>1, <2>2, <2>3, NothingIs, NotClean, IdleAgrees
  <2>. QED  BY <2>4 DEF e, g
<1>5. CASE Clean(h.bytes) /\ ~(Len(h.bytes) < MaxLen)
  <2>1. g = Nothing
    BY <1>2, <1>5 DEF Record
  <2>2. c.state = "SX_RECEIVING" => c.buf = h.bytes
    BY <1>1 DEF Match
  <2>3. e.state = "SX_IDLE" /\ e \in Ctx /\ Fits(e)
    <3>1. CASE c.state = "SX_IDLE"
      BY <1>1, <1>2, <3>1 DEF sx_feed, Completes
    <3>2. CASE c.state = "SX_RECEIVING"
      <4>1. e = Idle(c)
        BY <1>2, <1>5, <2>2, <3>2 DEF sx_feed, Completes, Extended
      <4>. QED  BY <4>1, IdleIs
    <3>. QED  BY <1>1, <3>1, <3>2
  <2>. HIDE DEF e
  <2>4. Agree(e, g)
    BY <2>1, <2>3, NothingIs, NotClean, IdleAgrees
  <2>. QED  BY <2>4 DEF e, g
<1>6. CASE Clean(h.bytes) /\ Len(h.bytes) < MaxLen
  <2>1. s \in Seq(Byte) /\ Len(s) = Len(h.bytes) + 1 /\ Clean(s)
    BY <1>1, <1>2, <1>6, CleanAppend
  <2>2. /\ g \in Hist /\ g.bytes = s /\ g.idle = h.idle /\ g.age = 0
        /\ g.late <=> h.late \/ h.age > Timeout
    <3>1. g = [h EXCEPT !.bytes = s, !.late = h.late \/ h.age > Timeout, !.age = 0]
      BY <1>2, <1>6 DEF Record
    <3>2. [h EXCEPT !.bytes = s] \in Hist
      BY <1>1, <2>1, UpdateHist
    <3>3. (h.late \/ h.age > Timeout) \in BOOLEAN /\ 0 \in Nat
      OBVIOUS
    <3>4. [[h EXCEPT !.bytes = s] EXCEPT !.late = h.late \/ h.age > Timeout] \in Hist
      BY <3>2, <3>3, UpdateHist
    <3>5. g \in Hist
      BY <3>1, <3>3, <3>4, UpdateHist
    <3>. QED  BY <1>1, <3>1, <3>5 DEF Hist
  <2>. HIDE DEF g, s
  <2>3. CASE c.state = "SX_IDLE"
    <3>1. e = c
      BY <1>2, <2>3 DEF sx_feed, Completes
    <3>2. Alive(c, g) /\ Match(c, g)
      BY <1>1, <1>3, <1>6, <2>1, <2>2, <2>3 DEF Alive, Match
    <3>3. Agree(e, g)
      BY <1>1, <2>2, <3>1, <3>2 DEF Agree
    <3>. QED  BY <3>3 DEF g
  <2>4. CASE c.state = "SX_RECEIVING" /\ Expired(c)
    <3>1. e = Idle(c)
      BY <1>2, <2>4 DEF sx_feed, Completes
    <3>2. g.late
      BY <2>2, <2>4, ExpiredIsLate
    <3>3. Agree(e, g)
      BY <2>2, <3>1, <3>2, IdleIs, IdleAgrees
    <3>. QED  BY <3>3 DEF g
  <2>5. CASE c.state = "SX_RECEIVING" /\ ~Expired(c) /\ Len(c.buf) < MaxLen
    <3>. DEFINE u == [c EXCEPT !.buf = Append(c.buf, b)]
    <3>1. e = [u EXCEPT !.timestamp = now]
      BY <1>2, <2>5 DEF sx_feed, Completes, Extended
    <3>2. c.buf = h.bytes /\ ~h.late
      BY <1>1, <2>5 DEF Match
    <3>3. u \in Ctx
      BY <1>1, <2>1, <3>2, UpdateCtx DEF s
    <3>4. e \in Ctx
      BY <1>1, <3>1, <3>3, UpdateCtx
    <3>5. e.buf = s /\ e.timestamp = now /\ e.state = "SX_RECEIVING"
      BY <1>1, <2>5, <3>1, <3>2 DEF Ctx, s
    <3>. HIDE DEF e
    <3>6. ~(h.age > Timeout)
      BY <2>5, ExpiredIsLate
    <3>7. g.age + since < Wrap /\ now = Plus(e.timestamp, g.age)
      BY <1>1, <1>3, <2>2, <3>5 DEF Plus
    <3>8. Match(e, g) /\ Alive(e, g)
      BY <2>1, <2>2, <3>2, <3>5, <3>6, <3>7 DEF Match, Alive
    <3>9. Fits(e)
      BY <1>3, <2>1, <2>5, <3>2, <3>5 DEF Fits
    <3>10. Agree(e, g)
      BY <2>2, <3>4, <3>8, <3>9 DEF Agree
    <3>. QED  BY <3>10 DEF e, g
  <2>6. c.state = "SX_RECEIVING" => Len(c.buf) < MaxLen
    BY <1>1, <1>6 DEF Match
  <2>. QED  BY <1>1, <2>3, <2>4, <2>5, <2>6
<1>. QED  BY <1>4, <1>5, <1>6

\* Any other status, and F7: the assembler is idle afterwards.
LEMMA StatusAgrees ==
  ASSUME IInv, NEW p \in Port, NEW b \in {"status", "F7"}
  PROVE  Agree(sx_feed(ctx[p], b), Record(p, b))
<1>. DEFINE c == ctx[p]
            h == hist[p]
            e == sx_feed(c, b)
            g == Record(p, b)
            s == Append(h.bytes, b)
<1>1. /\ c \in Ctx /\ Fits(c) /\ h \in Hist
      /\ c.state \in {"SX_IDLE", "SX_RECEIVING"}
      /\ h.bytes \in Seq(Byte) /\ h.age \in Nat
  BY DEF IInv, Agree, Ctx, Hist
<1>2. b \in Byte /\ b \notin Data /\ b # "F0" /\ b # "realtime"
  BY DataIsData DEF Byte, Status
<1>3. e \in Ctx /\ Fits(e) /\ e.state = "SX_IDLE"
  <2>1. (e = c /\ c.state = "SX_IDLE") \/ e = Idle(c)
    <3>1. CASE c.state = "SX_IDLE"
      BY <1>2, <3>1 DEF sx_feed
    <3>2. CASE c.state = "SX_RECEIVING" /\ Expired(c)
      BY <1>2, <3>2 DEF sx_feed, Completes
    <3>3. CASE c.state = "SX_RECEIVING" /\ ~Expired(c)
      BY <1>2, <3>3 DEF sx_feed, Completes
    <3>. QED  BY <1>1, <3>1, <3>2, <3>3
  <2>. QED  BY <1>1, <2>1, IdleIs
<1>4. g \in Hist /\ ~Clean(g.bytes)
  <2>1. CASE b = "status" \/ ~Clean(h.bytes)
    <3>1. g = Nothing
      BY <1>2, <2>1 DEF Record
    <3>. QED  BY <3>1, NothingIs, NotClean
  <2>2. CASE b = "F7" /\ Clean(h.bytes)
    <3>1. g = [h EXCEPT !.bytes = s, !.late = h.late \/ h.age > Timeout]
      BY <1>2, <2>2 DEF Record
    <3>2. s \in Seq(Byte) /\ ~Clean(s)
      BY <1>1, <1>2, <2>2, CleanAppend
    <3>3. (h.late \/ h.age > Timeout) \in BOOLEAN
      OBVIOUS
    <3>4. [h EXCEPT !.bytes = s] \in Hist
      BY <1>1, <3>2, UpdateHist
    <3>5. [[h EXCEPT !.bytes = s] EXCEPT !.late = h.late \/ h.age > Timeout] \in Hist
      BY <3>3, <3>4, UpdateHist
    <3>6. g \in Hist
      BY <1>1, <3>1, <3>5, UpdateHist
    <3>7. g.bytes = s
      BY <1>1, <3>1 DEF Hist
    <3>. QED  BY <3>2, <3>6, <3>7
  <2>. QED  BY <2>1, <2>2
<1>. HIDE DEF e, g
<1>5. Agree(e, g)
  BY <1>3, <1>4, IdleAgrees
<1>. QED  BY <1>5 DEF e, g

LEMMA FeedAgrees ==
  ASSUME IInv, NEW p \in Port, NEW b \in Byte
  PROVE  Agree(sx_feed(ctx[p], b), Record(p, b))
BY StartAgrees, RealtimeAgrees, DataAgrees, StatusAgrees DEF Byte, Status

-----------------------------------------------------------------------------
(* The invariant.                                                          *)

LEMMA NoMessageIs ==
  NoMessage.from = NPorts /\ NoMessage.to = {} /\ NPorts \notin Port
BY SysexAssumption DEF NoMessage, Port

LEMMA InitInductive == Init => IInv
<1>. SUFFICES ASSUME Init
              PROVE  IInv
  OBVIOUS
<1>. DEFINE c == [state |-> "SX_IDLE", buf |-> <<>>, timestamp |-> 0]
<1>1. /\ tick = 0 /\ now = 0 /\ port = NPorts /\ last = NoMessage /\ since = 0
      /\ ctx = [p \in Port |-> Idle(c)]
      /\ hist = [p \in Port |-> Nothing]
      /\ rules \in [Port \X Port -> Rule]
  <2>1. \A r \in Port \X Port :
          [enabled |-> r \in {<<0, 1>>, <<1, 0>>}, sx |-> r \in {<<0, 1>>, <<1, 0>>}]
            \in Rule
    BY DEF Rule
  <2>2. rules \in [Port \X Port -> Rule]
    BY <2>1 DEF Init
  <2>. QED  BY <2>2 DEF Init, Idle, Nothing
<1>2. 0 \in 0 .. Wrap - 1 /\ NPorts \in 0 .. NPorts
  BY SysexAssumption
<1>3. hist \in [Port -> Hist] /\ ctx \in [Port -> Ctx]
  BY <1>1, NothingIs, IdleIs
<1>4. ASSUME NEW p \in Port
      PROVE  Agree(ctx[p], hist[p])
  BY <1>1, <1>4, IdleIs, NothingIs, NotClean, IdleAgrees
<1>5. TypeOK
  BY <1>1, <1>2, <1>3, <1>4, NoMessageIs DEF TypeOK, Ctx, Agree, Fits
<1>6. Clock
  BY <1>1, <1>2, SysexAssumption DEF Clock, Plus
<1>. QED  BY <1>1, <1>3, <1>4, <1>5, <1>6, NoMessageIs DEF IInv, DeliveredAsReceived

\* What is delivered is what is recorded.
LEMMA Delivers ==
  ASSUME IInv, NEW p \in Port, NEW b \in Byte, Completes(ctx[p], b)
  PROVE  LET h == Record(p, b)
             n == Len(h.bytes)
         IN  /\ n > 0 /\ ~h.late
             /\ h.bytes[n] = "F7" /\ Clean(SubSeq(h.bytes, 1, n - 1))
             /\ Message(ctx[p]) = SubSeq(h.bytes, 1, IF n < MaxLen THEN n ELSE MaxLen)
<1>. DEFINE c == ctx[p]
            h == hist[p]
            g == Record(p, b)
            s == Append(h.bytes, "F7")
            L == Len(h.bytes)
<1>1. /\ c.state = "SX_RECEIVING" /\ ~Expired(c) /\ b = "F7"
      /\ c \in Ctx /\ Fits(c) /\ h \in Hist /\ Match(c, h)
  BY DEF Completes, IInv, Agree
<1>2. /\ Clean(h.bytes) /\ c.buf = h.bytes /\ ~h.late /\ h.bytes \in Seq(Byte)
      /\ ~(h.age > Timeout)
  BY <1>1, ExpiredIsLate DEF Match, Hist
<1>3. L \in Nat /\ L <= MaxLen /\ MaxLen \in Nat /\ "F7" \in Byte
  BY <1>1, <1>2, SysexAssumption DEF Fits, Byte, Status
<1>4. /\ s \in Seq(Byte) /\ Len(s) = L + 1 /\ s[L + 1] = "F7"
      /\ \A i \in 1 .. L : s[i] = h.bytes[i]
  BY <1>2, <1>3, AppendProperties
<1>5. g.bytes = s /\ ~g.late
  <2>1. g = [h EXCEPT !.bytes = s, !.late = h.late \/ h.age > Timeout]
    BY <1>1, <1>2, DataIsData DEF Record
  <2>. QED  BY <1>1, <1>2, <2>1 DEF Hist
<1>. HIDE DEF s, L, g
<1>6. SubSeq(s, 1, L) = h.bytes
  <2>1. \A i \in 1 .. L : s[i] \in Byte
    BY <1>3, <1>4, ElementOfSeq
  <2>2. 1 \in Int /\ L \in Int
    BY <1>3
  <2>3. /\ SubSeq(s, 1, L) \in Seq(Byte)
        /\ Len(SubSeq(s, 1, L)) = IF 1 <= L THEN L - 1 + 1 ELSE 0
        /\ \A i \in 1 .. L - 1 + 1 : SubSeq(s, 1, L)[i] = s[1 + i - 1]
    BY <2>1, <2>2, SubSeqProperties
  <2>4. Len(SubSeq(s, 1, L)) = L
    BY <1>3, <2>3
  <2>5. \A i \in 1 .. L : SubSeq(s, 1, L)[i] = h.bytes[i]
    BY <1>3, <1>4, <2>3
  <2>. QED  BY <1>2, <2>3, <2>4, <2>5, SeqEqual DEF L
<1>7. SubSeq(s, 1, L + 1) = s
  BY <1>4, SubSeqFull
<1>8. Message(c) = SubSeq(s, 1, IF L + 1 < MaxLen THEN L + 1 ELSE MaxLen)
  <2>1. Message(c) = IF L < MaxLen THEN s ELSE h.bytes
    BY <1>2 DEF Message, s, L
  <2>2. CASE L < MaxLen
    <3>1. (IF L + 1 < MaxLen THEN L + 1 ELSE MaxLen) = L + 1
      BY <1>3, <2>2
    <3>. QED  BY <1>7, <2>1, <2>2, <3>1
  <2>3. CASE ~(L < MaxLen)
    <3>1. (IF L + 1 < MaxLen THEN L + 1 ELSE MaxLen) = L
      BY <1>3, <2>3
    <3>. QED  BY <1>6, <2>1, <2>3, <3>1
  <2>. QED  BY <2>2, <2>3
<1>9. L + 1 > 0 /\ (L + 1) - 1 = L
  BY <1>3
<1>10. /\ Len(g.bytes) = L + 1 /\ g.bytes[L + 1] = "F7"
       /\ SubSeq(g.bytes, 1, (L + 1) - 1) = h.bytes
  BY <1>4, <1>5, <1>6, <1>9
<1>11. /\ Len(g.bytes) > 0 /\ ~g.late
       /\ g.bytes[Len(g.bytes)] = "F7"
       /\ Clean(SubSeq(g.bytes, 1, Len(g.bytes) - 1))
       /\ Message(c) = SubSeq(g.bytes, 1, IF Len(g.bytes) < MaxLen
                                         THEN Len(g.bytes) ELSE MaxLen)
  BY <1>2, <1>5, <1>8, <1>9, <1>10
<1>. QED  BY <1>11 DEF g

LEMMA PollByteInductive ==
  ASSUME IInv, NEW b \in Byte, PollByte(b)
  PROVE  IInv'
<1>1. /\ port \in Port /\ port # NPorts
      /\ ctx' = [ctx EXCEPT ![port] = sx_feed(ctx[port], b)]
      /\ last' = IF Completes(ctx[port], b)
                 THEN [from |-> port, buf |-> Message(ctx[port]),
                       to |-> Destinations(port)]
                 ELSE NoMessage
      /\ hist' = [hist EXCEPT ![port] = Record(port, b)]
      /\ tick' = tick /\ now' = now /\ port' = port /\ rules' = rules
      /\ since' = since
  BY SysexAssumption DEF PollByte, Port
<1>2. /\ TypeOK /\ Clock /\ hist \in [Port -> Hist]
      /\ \A p \in Port : Agree(ctx[p], hist[p])
      /\ ctx \in [Port -> Ctx]
  BY DEF IInv, TypeOK, Ctx
<1>3. Agree(sx_feed(ctx[port], b), Record(port, b))
  BY <1>1, FeedAgrees
<1>4. ctx' \in [Port -> Ctx] /\ hist' \in [Port -> Hist]
  BY <1>1, <1>2, <1>3 DEF Agree
<1>5. \A p \in Port : Agree(ctx'[p], hist'[p])
  BY <1>1, <1>2, <1>3
<1>6. (\A p \in Port : Agree(ctx[p], hist[p]))'
  BY <1>1, <1>5 DEF Agree, Match, Alive, Fits, Ctx, Hist, Plus, Clean
<1>7. /\ last'.from \in Port \cup {NPorts} /\ last'.to \subseteq Port
      /\ last'.from # NPorts => /\ Completes(ctx[port], b) /\ last'.from = port
                                /\ last'.buf = Message(ctx[port])
  BY <1>1, NoMessageIs, SysexAssumption DEF Destinations
<1>8. TypeOK'
  BY <1>1, <1>2, <1>4, <1>6, <1>7 DEF TypeOK, Ctx, Agree, Fits
<1>9. DeliveredAsReceived'
  <2>. SUFFICES ASSUME last'.from # NPorts
                PROVE  DeliveredAsReceived'
    BY DEF DeliveredAsReceived
  <2>1. Completes(ctx[port], b) /\ last'.from = port /\ last'.buf = Message(ctx[port])
    BY <1>7
  <2>2. hist'[last'.from] = Record(port, b)
    BY <1>1, <1>2, <2>1
  <2>3. LET h == Record(port, b)
            n == Len(h.bytes)
        IN  /\ n > 0 /\ ~h.late
            /\ h.bytes[n] = "F7" /\ Clean(SubSeq(h.bytes, 1, n - 1))
            /\ Message(ctx[port]) = SubSeq(h.bytes, 1, IF n < MaxLen THEN n ELSE MaxLen)
    BY <1>1, <2>1, Delivers
  <2>. QED  BY <2>1, <2>2, <2>3 DEF DeliveredAsReceived, Clean
<1>10. Clock'
  BY <1>1, <1>2 DEF Clock, Plus
<1>. QED  BY <1>1, <1>4, <1>6, <1>8, <1>9, <1>10 DEF IInv

LEMMA TickInductive ==
  ASSUME IInv, SysTick_Handler
  PROVE  IInv'
<1>1. /\ tick' = (tick + 1) % Wrap /\ since' = since + 1 /\ since < Wrap - 1
      /\ \A p \in Port :
           ctx[p].state = "SX_RECEIVING" => hist[p].age + since < Wrap - 1
      /\ now' = now /\ port' = port /\ ctx' = ctx /\ rules' = rules
      /\ last' = last /\ hist' = hist
  BY DEF SysTick_Handler, NoLongSilence
<1>2. /\ TypeOK /\ Clock /\ hist \in [Port -> Hist]
      /\ \A p \in Port : Agree(ctx[p], hist[p])
      /\ tick \in 0 .. Wrap - 1 /\ now \in 0 .. Wrap - 1 /\ since \in 0 .. Wrap - 1
  BY DEF IInv, TypeOK, Clock
<1>3. tick' = Plus(tick, 1)
  BY <1>1, <1>2, TickMod
<1>4. Wrap \in Nat /\ Wrap > 1
  BY SysexAssumption
<1>5. Clock' /\ tick' \in 0 .. Wrap - 1
  BY <1>1, <1>2, <1>3, <1>4 DEF Clock, Plus
<1>6. ASSUME NEW p \in Port
      PROVE  Agree(ctx[p], hist[p])'
  <2>1. hist[p].age \in Nat
    BY <1>2 DEF Hist
  <2>2. ctx[p].state = "SX_RECEIVING" => hist[p].age + (since + 1) < Wrap
    BY <1>1, <1>2, <1>4, <2>1
  <2>3. Match(ctx[p], hist[p])'
    BY <1>1, <1>2, <2>2 DEF Agree, Match, Plus, Clean
  <2>. QED  BY <1>1, <1>2, <2>3 DEF Agree, Alive, Fits, Ctx, Hist, Clean
<1>7. TypeOK'
  BY <1>1, <1>2, <1>5 DEF TypeOK
<1>8. DeliveredAsReceived'
  BY <1>1 DEF IInv, DeliveredAsReceived, Clean
<1>. QED  BY <1>1, <1>2, <1>5, <1>6, <1>7, <1>8 DEF IInv

LEMMA PollStartInductive ==
  ASSUME IInv, PollStart
  PROVE  IInv'
<1>1. /\ port = NPorts /\ port' = 0 /\ now' = tick /\ since' = 0
      /\ hist' = [p \in Port |-> Older(hist[p])]
      /\ tick' = tick /\ ctx' = ctx /\ rules' = rules /\ last' = last
  BY DEF PollStart
<1>2. /\ TypeOK /\ Clock /\ hist \in [Port -> Hist]
      /\ \A p \in Port : Agree(ctx[p], hist[p])
      /\ tick \in 0 .. Wrap - 1 /\ now \in 0 .. Wrap - 1 /\ since \in 0 .. Wrap - 1
      /\ last.from = NPorts
  BY <1>1 DEF IInv, TypeOK, Clock
<1>3. Wrap \in Nat /\ Wrap > 1 /\ NPorts \in Nat
  BY SysexAssumption
<1>4. ASSUME NEW p \in Port
      PROVE  /\ Older(hist[p]) \in Hist
             /\ Agree(ctx[p], hist[p])'
  <2>. DEFINE h == hist[p]
              n == IF h.age + since < Wrap THEN h.age + since ELSE Wrap
              g == Older(h)
              c == ctx[p]
  <2>1. /\ h \in Hist /\ h.age \in Nat /\ c \in Ctx
        /\ c.timestamp \in 0 .. Wrap - 1 /\ Agree(c, h)
    BY <1>2 DEF Hist, Agree, Ctx
  <2>2. n \in Nat
    BY <1>2, <1>3, <2>1
  <2>3. g = IF h.bytes = <<>> THEN h ELSE [h EXCEPT !.age = n]
    BY DEF Older
  <2>. HIDE DEF g
  <2>4. /\ g \in Hist /\ g.bytes = h.bytes /\ g.idle = h.idle /\ g.late = h.late
        /\ h.bytes # <<>> => g.age = n
    BY <2>1, <2>2, <2>3, UpdateHist DEF Hist
  <2>5. ASSUME c.state = "SX_RECEIVING"
        PROVE  g.age + 0 < Wrap /\ tick = Plus(c.timestamp, g.age)
    <3>1. /\ h.bytes # <<>> /\ h.age + since < Wrap
          /\ now = Plus(c.timestamp, h.age) /\ tick = Plus(now, since)
      BY <1>2, <2>1, <2>5 DEF Agree, Match, Clean, Clock
    <3>2. g.age = h.age + since
      BY <2>4, <3>1
    <3>3. since \in Nat
      BY <1>2
    <3>4. Plus(Plus(c.timestamp, h.age), since) = Plus(c.timestamp, h.age + since)
      BY <2>1, <3>1, <3>3, PlusPlus
    <3>5. g.age + 0 = g.age
      BY <2>1, <3>2, <3>3
    <3>. QED  BY <3>1, <3>2, <3>4, <3>5
  <2>6. hist'[p] = g
    BY <1>1 DEF g
  <2>7. Match(ctx[p], hist[p])'
    <3>. SUFFICES ASSUME c.state = "SX_RECEIVING"
                  PROVE  /\ Clean(g.bytes) /\ c.buf = g.bytes /\ ~g.late
                         /\ g.age + 0 < Wrap /\ tick = Plus(c.timestamp, g.age)
      BY <1>1, <2>6 DEF Match, Plus, Clean
    <3>. QED  BY <2>1, <2>4, <2>5 DEF Agree, Match
  <2>8. Alive(ctx[p], hist[p])'
    <3>. SUFFICES Alive(c, g)
      BY <1>1, <2>6 DEF Alive, Clean
    <3>. QED  BY <2>1, <2>4 DEF Agree, Alive
  <2>9. Older(hist[p]) \in Hist
    BY <2>4 DEF g
  <2>. QED  BY <1>1, <2>1, <2>4, <2>6, <2>7, <2>8, <2>9 DEF Agree, Fits, Ctx, Hist
<1>5. hist' \in [Port -> Hist]
  BY <1>1, <1>4
<1>6. Clock' /\ 0 \in 0 .. NPorts
  BY <1>1, <1>2, <1>3 DEF Clock, Plus
<1>7. TypeOK'
  BY <1>1, <1>2, <1>6 DEF TypeOK
<1>8. last'.from = NPorts /\ DeliveredAsReceived'
  BY <1>1, <1>2 DEF DeliveredAsReceived
<1>9. \A p \in Port : Agree(ctx[p], hist[p])'
  BY <1>4
<1>. QED  BY <1>5, <1>6, <1>7, <1>8, <1>9 DEF IInv, Hist

\* The other steps leave the assemblers, the record and the clock alone.
LEMMA StayInductive ==
  ASSUME IInv, TypeOK', UNCHANGED <<tick, now, ctx, hist, since>>,
         last'.from = NPorts \/ (last' = last /\ port' = port)
  PROVE  IInv'
<1>1. (\A p \in Port : Agree(ctx[p], hist[p]))'
  BY DEF IInv, Agree, Match, Alive, Fits, Ctx, Hist, Plus, Clean
<1>2. DeliveredAsReceived' /\ (last.from # NPorts => port # NPorts)'
  BY DEF IInv, DeliveredAsReceived, Clean
<1>3. Clock' /\ (hist \in [Port -> Hist])'
  BY DEF IInv, Clock, Plus, Hist
<1>. QED  BY <1>1, <1>2, <1>3 DEF IInv

LEMMA NextInductive == IInv /\ [Next]_vars => IInv'
<1>. SUFFICES ASSUME IInv, [Next]_vars
              PROVE  IInv'
  OBVIOUS
<1>1. ASSUME PollNext
      PROVE  IInv'
  <2>1. /\ port < NPorts /\ port' = port + 1 /\ last' = NoMessage
        /\ UNCHANGED <<tick, now, ctx, rules, hist, since>>
    BY <1>1 DEF PollNext
  <2>2. port' \in 0 .. NPorts
    BY <2>1, SysexAssumption DEF IInv, TypeOK
  <2>3. TypeOK'
    BY <2>1, <2>2, NoMessageIs DEF IInv, TypeOK
  <2>. QED  BY <2>1, <2>3, NoMessageIs, StayInductive
<1>2. ASSUME NEW src \in Registered, NEW dst \in Registered \ {src},
             NEW rule \in RuleInput, router_set_rule(src, dst, rule)
      PROVE  IInv'
  <2>1. /\ rules' = [rules EXCEPT ![<<src, dst>>] = rule]
        /\ UNCHANGED <<tick, now, port, ctx, last, hist, since>>
    BY <1>2 DEF router_set_rule
  <2>2. rules' \in [Port \X Port -> Rule]
    BY <2>1, SysexAssumption DEF IInv, TypeOK
  <2>3. TypeOK'
    BY <2>1, <2>2 DEF IInv, TypeOK
  <2>. QED  BY <2>1, <2>3, StayInductive
<1>3. ASSUME UNCHANGED vars
      PROVE  IInv'
  <2>1. TypeOK'
    BY <1>3 DEF vars, IInv, TypeOK
  <2>. QED  BY <1>3, <2>1, StayInductive DEF vars
<1>. QED  BY <1>1, <1>2, <1>3, TickInductive, PollStartInductive, PollByteInductive
          DEF Next

LEMMA Invariance == Spec => []IInv
BY InitInductive, NextInductive, PTL DEF Spec

-----------------------------------------------------------------------------
\* Buffers stay within SX_MAX_LEN and timestamps within the tick's width, for
\* every port (sysex_assembler.c:44-60).
THEOREM TypeCorrect == Spec => []TypeOK
BY Invariance, PTL DEF IInv

\* The application is given exactly what arrived, in time, on that port; the
\* timeout is right although the tick wraps (sysex_assembler.c:19-69,
\* midi_router.c:109-133).
THEOREM DeliversWhatArrived == Spec => []DeliveredAsReceived
BY Invariance, PTL DEF IInv

\* Conversely, a message that is begun well, comes in time and fits is not
\* lost (sysex_assembler.c:19-69).
THEOREM DeliversCleanStart == Spec => CleanStartIsDelivered
<1>1. IInv /\ [Next]_vars =>
        [PollByte("F7") /\ hist[port].idle /\ Whole(hist[port])
           => last'.from = port]_vars
  <2>. SUFFICES ASSUME IInv, PollByte("F7"), hist[port].idle, Whole(hist[port])
                PROVE  last'.from = port
    BY DEF vars
  <2>. DEFINE c == ctx[port]
              h == hist[port]
  <2>1. /\ port \in Port
        /\ last' = IF Completes(c, "F7")
                   THEN [from |-> port, buf |-> Message(c), to |-> Destinations(port)]
                   ELSE NoMessage
    BY SysexAssumption DEF PollByte
  <2>2. Alive(c, h) /\ h.age \in Nat
    BY <2>1 DEF IInv, Agree, Hist
  <2>3. c.state = "SX_RECEIVING"
    BY <2>2 DEF Alive, Whole
  <2>4. ~Expired(c)
    <3>1. h.age <= Timeout
      BY DEF Whole
    <3>2. ~(h.age > Timeout)
      BY <2>2, <3>1, SysexAssumption
    <3>. QED  BY <2>1, <2>3, <3>2, ExpiredIsLate
  <2>. QED  BY <2>1, <2>3, <2>4 DEF Completes
<1>. QED  BY <1>1, Invariance, PTL DEF Spec, CleanStartIsDelivered
=============================================================================
