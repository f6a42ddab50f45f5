---------------------------- MODULE UsbTxProofs ----------------------------
(***************************************************************************)
(* Transmission to USB, for every ring, frame and patience and every set   *)
(* of messages: the bytes in g_usb_tx, however they were cut by a full     *)
(* ring, are read by the second parser as the messages that are owed.      *)
(***************************************************************************)
EXTENDS UsbTx, SequenceTheorems, TLAPS

Msg == Byte \X Byte \X Byte

Parser == [state : ParserState, running : Byte, msg : Msg]

\* The statuses with data bytes.
Channel == 128 .. 159 \cup 176 .. 207 \cup 224 .. 239

Realtime == 248 .. 255

-----------------------------------------------------------------------------
(* Tuples and the parser's record.                                         *)

LEMMA MsgIs ==
  ASSUME NEW m \in Msg
  PROVE  m[1] \in Byte /\ m[2] \in Byte /\ m[3] \in Byte /\ m = <<m[1], m[2], m[3]>>
BY DEF Msg

LEMMA MsgExcept ==
  ASSUME NEW m \in Msg, NEW b \in Byte
  PROVE  /\ [m EXCEPT ![1] = b] = <<b, m[2], m[3]>>
         /\ [m EXCEPT ![2] = b] = <<m[1], b, m[3]>>
BY DEF Msg

LEMMA ParserExcept ==
  ASSUME NEW p \in Parser, NEW x \in Msg, NEW y \in ParserState
  PROVE  [p EXCEPT !.msg = x, !.state = y]
           = [state |-> y, running |-> p.running, msg |-> x]
<1>. DEFINE f == [p EXCEPT !.msg = x, !.state = y]
            g == [state |-> y, running |-> p.running, msg |-> x]
<1>1. f \in Parser /\ g \in Parser
  BY DEF Parser
<1>2. f.state = g.state /\ f.running = g.running /\ f.msg = g.msg
  BY DEF Parser
<1>. HIDE DEF f, g
<1>3. \A r \in Parser : r = [state |-> r.state, running |-> r.running, msg |-> r.msg]
  BY DEF Parser
<1>4. f = g
  BY <1>1, <1>2, <1>3
<1>. QED  BY <1>4 DEF f, g

LEMMA DataLength ==
  /\ \A b \in Channel : midi_data_len(b) \in {1, 2} /\ b \in Byte /\ b # 0
  /\ \A b \in Realtime : midi_data_len(b) = 0 /\ b \in Byte
  /\ ChannelStatus = Channel \cup Realtime
  /\ Data \subseteq Byte
BY DEF Channel, Realtime, ChannelStatus, midi_data_len, Byte, Data

LEMMA StatusParsed ==
  ASSUME NEW p \in Parser, NEW b \in Channel
  PROVE  /\ Parsed(p, b) = <<>>
         /\ ParserAfter(p, b) \in Parser
         /\ ParserAfter(p, b).state = "PS_D1"
         /\ ParserAfter(p, b).running = b
         /\ ParserAfter(p, b).msg = <<b, p.msg[2], p.msg[3]>>
<1>. DEFINE e == OnStatus(p, b)
<1>1. b \in Byte /\ b \in 128 .. 246 /\ b # 240
  BY DEF Channel, Byte
<1>2. Parsed(p, b) = <<>>
  BY <1>1 DEF Parsed
<1>3. ParserAfter(p, b) = e
  BY <1>1 DEF ParserAfter
<1>4. p.msg \in Msg /\ [p.msg EXCEPT ![1] = b] = <<b, p.msg[2], p.msg[3]>>
  BY <1>1, MsgExcept DEF Parser
<1>5. <<b, p.msg[2], p.msg[3]>> \in Msg
  BY <1>1, <1>4, MsgIs DEF Msg
<1>6. e = [state |-> "PS_D1", running |-> b, msg |-> <<b, p.msg[2], p.msg[3]>>]
  BY <1>4 DEF OnStatus, Parser
<1>. QED  BY <1>1, <1>2, <1>3, <1>5, <1>6 DEF Parser, ParserState

LEMMA RealtimeParsed ==
  ASSUME NEW p \in Parser, NEW b \in Realtime
  PROVE  Parsed(p, b) = <<b, 0, 0>> /\ ParserAfter(p, b) = p
<1>1. b >= 248 /\ b <= 255 /\ b \in Int
  BY DEF Realtime
<1>2. Parsed(p, b) = <<b, 0, 0>>
  BY <1>1 DEF Parsed
<1>3. ParserAfter(p, b) = p
  BY <1>1 DEF ParserAfter
<1>. QED  BY <1>2, <1>3

LEMMA FirstDataParsed ==
  ASSUME NEW p \in Parser, NEW b \in Data, p.state = "PS_D1"
  PROVE  /\ Parsed(p, b) = <<p.msg[1], b, p.msg[3]>>
         /\ ParserAfter(p, b) \in Parser
         /\ ParserAfter(p, b).state = "PS_IDLE"
         /\ ParserAfter(p, b).running = p.running
         /\ ParserAfter(p, b).msg = <<p.msg[1], b, p.msg[3]>>
<1>. DEFINE e == [p EXCEPT !.msg = [p.msg EXCEPT ![2] = b], !.state = "PS_IDLE"]
<1>1. b \in Byte /\ b < 128 /\ b \in Nat
  BY DEF Data, Byte
<1>2. Parsed(p, b) = <<p.msg[1], b, p.msg[3]>>
  BY <1>1 DEF Parsed
<1>3. ParserAfter(p, b) = e
  BY <1>1 DEF ParserAfter
<1>4. p.msg \in Msg /\ [p.msg EXCEPT ![2] = b] = <<p.msg[1], b, p.msg[3]>>
  BY <1>1, MsgExcept DEF Parser
<1>5. <<p.msg[1], b, p.msg[3]>> \in Msg
  BY <1>1, <1>4, MsgIs DEF Msg
<1>6. e = [state |-> "PS_IDLE", running |-> p.running, msg |-> <<p.msg[1], b, p.msg[3]>>]
  <2>1. e = [p EXCEPT !.msg = <<p.msg[1], b, p.msg[3]>>, !.state = "PS_IDLE"]
    BY <1>4
  <2>2. "PS_IDLE" \in ParserState
    BY DEF ParserState
  <2>. HIDE DEF e
  <2>. QED  BY <1>5, <2>1, <2>2, ParserExcept
<1>. QED  BY <1>1, <1>2, <1>3, <1>5, <1>6 DEF Parser, ParserState

LEMMA SecondDataParsed ==
  ASSUME NEW p \in Parser, NEW b \in Data, p.state = "PS_IDLE", p.running # 0,
         midi_data_len(p.running) = 2
  PROVE  /\ Parsed(p, b) = <<>>
         /\ ParserAfter(p, b) \in Parser
         /\ ParserAfter(p, b).msg = <<p.running, b, p.msg[3]>>
<1>. DEFINE e == OnRunning(p, b)
<1>1. b \in Byte /\ b < 128 /\ b \in Nat
  BY DEF Data, Byte
<1>2. Parsed(p, b) = <<>>
  BY <1>1 DEF Parsed
<1>3. ParserAfter(p, b) = e
  BY <1>1 DEF ParserAfter
<1>4. p.msg \in Msg /\ p.running \in Byte
  BY DEF Parser
<1>5. <<p.running, b, p.msg[3]>> \in Msg
  BY <1>1, <1>4, MsgIs DEF Msg
<1>6. e = [state |-> "PS_D2", running |-> p.running, msg |-> <<p.running, b, p.msg[3]>>]
  <2>1. e = [p EXCEPT !.msg = <<p.running, b, p.msg[3]>>, !.state = "PS_D2"]
    BY DEF OnRunning
  <2>2. "PS_D2" \in ParserState
    BY DEF ParserState
  <2>. HIDE DEF e
  <2>. QED  BY <1>5, <2>1, <2>2, ParserExcept
<1>. QED  BY <1>1, <1>2, <1>3, <1>5, <1>6 DEF Parser, ParserState

-----------------------------------------------------------------------------
(* The queue, read from its head: after j bytes the parser expects what    *)
(* k[j] says - the first data byte of a message with "one" or "two" of     *)
(* them and the status s[j], one "more", or, at the "end" of a message, a  *)
(* status - and has produced n[j] messages.                                *)

Kind == {"one", "two", "more", "end"}

Reads(k, s, n, q, o, j) ==
  \/ /\ q[j] \in Channel
     /\ k[j] = IF midi_data_len(q[j]) = 2 THEN "two" ELSE "one"
     /\ s[j] = q[j]
     /\ n[j] = n[j - 1]
  \/ /\ q[j] \in Realtime
     /\ k[j] = "end"
     /\ n[j] = n[j - 1] + 1
     /\ Shown(o[n[j]]) = <<q[j], 0>>
  \/ /\ q[j] \in Data /\ k[j - 1] \in {"one", "two"}
     /\ k[j] = IF k[j - 1] = "two" THEN "more" ELSE "end"
     /\ n[j] = n[j - 1] + 1
     /\ Shown(o[n[j]]) = <<s[j - 1], q[j]>>
  \/ /\ q[j] \in Data /\ k[j - 1] = "more"
     /\ k[j] = "end"
     /\ n[j] = n[j - 1]

Track(k, s, n, q, o) ==
  /\ k \in [0 .. Len(q) -> Kind]
  /\ s \in [0 .. Len(q) -> Byte]
  /\ n \in [0 .. Len(q) -> 0 .. Len(o)]
  /\ n[0] = 0 /\ n[Len(q)] = Len(o)
  /\ \A i, j \in 0 .. Len(q) : i <= j => n[i] <= n[j]
  /\ \A j \in 1 .. Len(q) : Reads(k, s, n, q, o, j)

\* The parser in such a situation.  It has never stored a third byte.
At(p, kind, status) ==
  /\ p.msg[3] = 0
  /\ kind \in {"one", "two"} => /\ p.state = "PS_D1"
                                /\ p.msg[1] = status /\ p.running = status
                                /\ status \in Channel
  /\ kind = "two" => midi_data_len(p.running) = 2
  /\ kind = "more" => /\ p.state = "PS_IDLE" /\ p.running # 0
                      /\ midi_data_len(p.running) = 2

\* Reading queue q with parser p yields the messages o, and ends with kind.
Ends(q, o, p, kind, status) ==
  \E k, s, n : /\ Track(k, s, n, q, o) /\ At(p, k[0], s[0])
               /\ k[Len(q)] = kind /\ s[Len(q)] = status

Yields(q, o, p) == \E kind \in Kind, status \in Byte : Ends(q, o, p, kind, status)

\* The byte at the head and the parser agree on what it means.
LEMMA HeadParsed ==
  ASSUME NEW p \in Parser, NEW q \in Seq(Byte), q # <<>>, NEW o \in Seq(Msg),
         NEW k, NEW s, NEW n, Track(k, s, n, q, o), At(p, k[0], s[0])
  PROVE  /\ ParserAfter(p, q[1]) \in Parser
         /\ At(ParserAfter(p, q[1]), k[1], s[1])
         /\ \/ n[1] = 0 /\ Parsed(p, q[1]) = <<>>
            \/ /\ n[1] = 1
               /\ \E b \in Byte, c \in Byte :
                    Parsed(p, q[1]) = <<b, c, 0>> /\ Shown(o[1]) = <<b, c>>
<1>. DEFINE b == q[1]
            e == ParserAfter(p, b)
<1>1. Len(q) \in Nat /\ Len(q) >= 1 /\ b \in Byte
  BY EmptySeq, LenProperties
<1>2. Reads(k, s, n, q, o, 1) /\ n[0] = 0 /\ s[0] \in Byte
  BY <1>1 DEF Track
<1>3. p.msg[3] = 0 /\ p.msg \in Msg /\ p.msg[2] \in Byte
  BY MsgIs DEF At, Parser
<1>4. CASE /\ b \in Channel /\ s[1] = b /\ n[1] = n[1 - 1]
           /\ k[1] = IF midi_data_len(b) = 2 THEN "two" ELSE "one"
  <2>1. /\ Parsed(p, b) = <<>> /\ e \in Parser /\ e.state = "PS_D1"
        /\ e.running = b /\ e.msg = <<b, p.msg[2], p.msg[3]>>
    BY <1>4, StatusParsed
  <2>. HIDE DEF e
  <2>2. At(e, k[1], s[1])
    BY <1>3, <1>4, <2>1 DEF At
  <2>. QED  BY <1>2, <1>4, <2>1, <2>2 DEF e
<1>5. CASE /\ b \in Realtime /\ k[1] = "end" /\ n[1] = n[1 - 1] + 1
           /\ Shown(o[n[1]]) = <<b, 0>>
  <2>1. Parsed(p, b) = <<b, 0, 0>> /\ e = p
    BY <1>5, RealtimeParsed
  <2>2. n[1] = 1 /\ 0 \in Byte
    BY <1>2, <1>5 DEF Byte
  <2>. HIDE DEF e
  <2>3. At(e, k[1], s[1])
    BY <1>3, <1>5, <2>1 DEF At
  <2>. QED  BY <1>1, <1>5, <2>1, <2>2, <2>3 DEF e
<1>6. CASE /\ b \in Data /\ k[1 - 1] \in {"one", "two"} /\ n[1] = n[1 - 1] + 1
           /\ k[1] = IF k[1 - 1] = "two" THEN "more" ELSE "end"
           /\ Shown(o[n[1]]) = <<s[1 - 1], b>>
  <2>1. /\ p.state = "PS_D1" /\ p.msg[1] = s[0] /\ p.running = s[0]
        /\ s[0] \in Channel
        /\ k[0] = "two" => midi_data_len(p.running) = 2
    BY <1>6 DEF At
  <2>2. /\ Parsed(p, b) = <<p.msg[1], b, p.msg[3]>> /\ e \in Parser
        /\ e.state = "PS_IDLE" /\ e.running = p.running
        /\ e.msg = <<p.msg[1], b, p.msg[3]>>
    BY <1>6, <2>1, FirstDataParsed
  <2>3. n[1] = 1 /\ p.running # 0
    <3>1. n[1] = 1
      BY <1>2, <1>6
    <3>2. p.running # 0
      BY <2>1, DataLength
    <3>. QED  BY <3>1, <3>2
  <2>. HIDE DEF e
  <2>4. At(e, k[1], s[1])
    BY <1>3, <1>6, <2>1, <2>2, <2>3 DEF At
  <2>5. Parsed(p, b) = <<s[0], b, 0>> /\ Shown(o[1]) = <<s[0], b>>
    BY <1>3, <1>6, <2>1, <2>2, <2>3
  <2>. QED  BY <1>1, <1>2, <2>2, <2>3, <2>4, <2>5 DEF e
<1>7. CASE b \in Data /\ k[1 - 1] = "more" /\ k[1] = "end" /\ n[1] = n[1 - 1]
  <2>1. /\ p.state = "PS_IDLE" /\ p.running # 0
        /\ midi_data_len(p.running) = 2
    BY <1>7 DEF At
  <2>2. Parsed(p, b) = <<>> /\ e \in Parser /\ e.msg = <<p.running, b, p.msg[3]>>
    BY <1>7, <2>1, SecondDataParsed
  <2>. HIDE DEF e
  <2>3. At(e, k[1], s[1])
    BY <1>3, <1>7, <2>2 DEF At
  <2>. QED  BY <1>2, <1>7, <2>2, <2>3 DEF e
<1>. QED  BY <1>2, <1>4, <1>5, <1>6, <1>7 DEF Reads

\* Without the head, and without the message it completes.
LEMMA Shift ==
  ASSUME NEW q \in Seq(Byte), q # <<>>, NEW o \in Seq(Msg),
         NEW k, NEW s, NEW n, Track(k, s, n, q, o), n[1] \in {0, 1},
         NEW r \in Seq(Msg), n[1] = 0 => r = o, n[1] = 1 => r = Tail(o)
  PROVE  \E k2, s2, n2 : /\ Track(k2, s2, n2, Tail(q), r)
                         /\ k2[0] = k[1] /\ s2[0] = s[1]
                         /\ k2[Len(Tail(q))] = k[Len(q)]
                         /\ s2[Len(Tail(q))] = s[Len(q)]
<1>. DEFINE t == Tail(q)
            k2 == [j \in 0 .. Len(t) |-> k[j + 1]]
            s2 == [j \in 0 .. Len(t) |-> s[j + 1]]
            n2 == [j \in 0 .. Len(t) |-> n[j + 1] - n[1]]
<1>1. /\ t \in Seq(Byte) /\ Len(q) \in Nat /\ Len(t) \in Nat /\ Len(q) = Len(t) + 1
      /\ \A j \in 1 .. Len(t) : t[j] = q[j + 1]
  BY EmptySeq, LenProperties, HeadTailProperties
<1>2. /\ n \in [0 .. Len(q) -> 0 .. Len(o)] /\ n[Len(q)] = Len(o) /\ Len(o) \in Nat
      /\ \A i, j \in 0 .. Len(q) : i <= j => n[i] <= n[j]
      /\ \A j \in 1 .. Len(q) : Reads(k, s, n, q, o, j)
      /\ \A j \in 0 .. Len(q) : n[j] \in 0 .. Len(o) /\ n[j] \in Nat
  <2>1. Len(o) \in Nat
    BY LenProperties
  <2>. QED  BY <2>1 DEF Track
<1>3. n[1] \in 0 .. Len(o) /\ Len(r) = Len(o) - n[1]
      /\ \A i \in 1 .. Len(r) : r[i] = o[i + n[1]]
  <2>1. n[1] \in 0 .. Len(o)
    BY <1>1, <1>2
  <2>2. CASE n[1] = 0
    BY <1>2, <2>1, <2>2
  <2>3. CASE n[1] = 1
    <3>1. o # <<>>
      BY <1>2, <2>1, <2>3, EmptySeq
    <3>2. Len(Tail(o)) = Len(o) - 1 /\ \A i \in 1 .. Len(Tail(o)) : Tail(o)[i] = o[i + 1]
      BY <3>1, HeadTailProperties
    <3>. QED  BY <2>1, <2>3, <3>2
  <2>. QED  BY <2>2, <2>3
<1>. HIDE DEF t
<1>4. k2 \in [0 .. Len(t) -> Kind] /\ s2 \in [0 .. Len(t) -> Byte]
  BY <1>1 DEF Track
<1>5. /\ n2 \in [0 .. Len(t) -> 0 .. Len(r)] /\ n2[0] = 0 /\ n2[Len(t)] = Len(r)
      /\ \A i, j \in 0 .. Len(t) : i <= j => n2[i] <= n2[j]
  <2>1. \A j \in 0 .. Len(t) : n[j + 1] - n[1] \in 0 .. Len(r)
    <3>. SUFFICES ASSUME NEW j \in 0 .. Len(t)
                  PROVE  n[j + 1] - n[1] \in 0 .. Len(r)
      OBVIOUS
    <3>1. j + 1 \in 0 .. Len(q) /\ 1 \in 0 .. Len(q) /\ 1 <= j + 1
      BY <1>1
    <3>2. n[1] <= n[j + 1] /\ n[j + 1] \in 0 .. Len(o)
      BY <1>2, <3>1
    <3>. QED  BY <1>2, <1>3, <3>2
  <2>2. n2[0] = 0 /\ n2[Len(t)] = Len(r)
    BY <1>1, <1>2, <1>3
  <2>3. \A i, j \in 0 .. Len(t) : i <= j => n2[i] <= n2[j]
    <3>. SUFFICES ASSUME NEW i \in 0 .. Len(t), NEW j \in 0 .. Len(t), i <= j
                  PROVE  n2[i] <= n2[j]
      OBVIOUS
    <3>1. i + 1 \in 0 .. Len(q) /\ j + 1 \in 0 .. Len(q) /\ i + 1 <= j + 1
      BY <1>1
    <3>2. n[i + 1] <= n[j + 1]
      BY <1>2, <3>1
    <3>3. n[i + 1] \in Nat /\ n[j + 1] \in Nat /\ n[1] \in Nat
      BY <1>1, <1>2, <3>1
    <3>. QED  BY <3>2, <3>3
  <2>. QED  BY <2>1, <2>2, <2>3
<1>6. ASSUME NEW j \in 1 .. Len(t)
      PROVE  Reads(k2, s2, n2, t, r, j)
  <2>1. /\ j \in 0 .. Len(t) /\ j - 1 \in 0 .. Len(t) /\ (j - 1) + 1 = j
        /\ (j + 1) - 1 = j /\ j + 1 \in 1 .. Len(q) /\ t[j] = q[j + 1]
        /\ j \in 0 .. Len(q) /\ j + 1 \in 0 .. Len(q)
    BY <1>1, <1>6
  <2>2. /\ k2[j] = k[j + 1] /\ s2[j] = s[j + 1] /\ n2[j] = n[j + 1] - n[1]
        /\ k2[j - 1] = k[j] /\ s2[j - 1] = s[j] /\ n2[j - 1] = n[j] - n[1]
    BY <2>1
  <2>3. n[j] \in Nat /\ n[j + 1] \in Nat /\ n[1] \in Nat
    BY <1>1, <1>2, <2>1
  <2>7. n2 \in [0 .. Len(t) -> 0 .. Len(r)]
    BY <1>5
  <2>. HIDE DEF k2, s2, n2
  <2>4. Reads(k, s, n, q, o, j + 1)
    BY <1>2, <2>1
  <2>5. n2[j] = n2[j - 1] + 1 => r[n2[j]] = o[n[j + 1]]
    <3>. SUFFICES ASSUME n2[j] = n2[j - 1] + 1
                  PROVE  r[n2[j]] = o[n[j + 1]]
      OBVIOUS
    <3>1. n2[j] \in 0 .. Len(r) /\ n2[j - 1] \in 0 .. Len(r)
      BY <2>1, <2>7
    <3>2. n2[j] + n[1] = n[j + 1]
      BY <2>2, <2>3
    <3>3. \A a \in 0 .. Len(r), b \in 0 .. Len(r) : a = b + 1 => a \in 1 .. Len(r)
      BY LenProperties
    <3>4. n2[j] \in 1 .. Len(r)
      BY <3>1, <3>3
    <3>. QED  BY <1>3, <3>2, <3>4
  <2>6. /\ n[j + 1] = n[j] => n2[j] = n2[j - 1]
        /\ n[j + 1] = n[j] + 1 => n2[j] = n2[j - 1] + 1
    <3>1. PICK x \in Nat, y \in Nat, z \in Nat :
             x = n[j + 1] /\ y = n[j] /\ z = n[1]
      BY <2>3
    <3>2. n2[j] = x - z /\ n2[j - 1] = y - z
      BY <2>2, <3>1
    <3>3. (x = y => x - z = y - z) /\ (x = y + 1 => x - z = (y - z) + 1)
      OBVIOUS
    <3>. QED  BY <3>1, <3>2, <3>3
  <2>. QED  BY <2>1, <2>2, <2>4, <2>5, <2>6 DEF Reads
<1>7. Track(k2, s2, n2, t, r)
  BY <1>4, <1>5, <1>6 DEF Track
<1>8. /\ k2[0] = k[1] /\ s2[0] = s[1]
      /\ k2[Len(t)] = k[Len(q)] /\ s2[Len(t)] = s[Len(q)]
  BY <1>1
<1>. QED  BY <1>7, <1>8 DEF t

\* One byte more at the end, and the message that it completes.
LEMMA Extend ==
  ASSUME NEW q \in Seq(Byte), NEW o \in Seq(Msg), NEW p,
         NEW kind, NEW status, Ends(q, o, p, kind, status),
         NEW b \in Byte, NEW kind2 \in Kind, NEW status2 \in Byte,
         NEW c \in {0, 1}, NEW o2 \in Seq(Msg), Len(o2) = Len(o) + c,
         \A i \in 1 .. Len(o) : o2[i] = o[i],
         \/ /\ b \in Channel /\ status2 = b /\ c = 0
            /\ kind2 = IF midi_data_len(b) = 2 THEN "two" ELSE "one"
         \/ /\ b \in Realtime /\ kind2 = "end" /\ c = 1
            /\ Shown(o2[Len(o) + 1]) = <<b, 0>>
         \/ /\ b \in Data /\ kind \in {"one", "two"} /\ c = 1
            /\ kind2 = IF kind = "two" THEN "more" ELSE "end"
            /\ Shown(o2[Len(o) + 1]) = <<status, b>>
         \/ b \in Data /\ kind = "more" /\ kind2 = "end" /\ c = 0
  PROVE  Ends(Append(q, b), o2, p, kind2, status2)
<1>1. PICK k, s, n : /\ Track(k, s, n, q, o) /\ At(p, k[0], s[0])
                     /\ k[Len(q)] = kind /\ s[Len(q)] = status
  BY DEF Ends
<1>. DEFINE t == Append(q, b)
            L == Len(q)
            k2 == [j \in 0 .. Len(t) |-> IF j <= L THEN k[j] ELSE kind2]
            s2 == [j \in 0 .. Len(t) |-> IF j <= L THEN s[j] ELSE status2]
            n2 == [j \in 0 .. Len(t) |-> IF j <= L THEN n[j] ELSE Len(o2)]
<1>2. /\ L \in Nat /\ Len(t) = L + 1 /\ Len(o) \in Nat /\ Len(o2) \in Nat
      /\ \A j \in 1 .. L : t[j] = q[j]
      /\ t[L + 1] = b
  BY LenProperties, AppendProperties
<1>3. /\ k \in [0 .. L -> Kind] /\ s \in [0 .. L -> Byte]
      /\ n \in [0 .. L -> 0 .. Len(o)] /\ n[0] = 0 /\ n[L] = Len(o)
      /\ \A i, j \in 0 .. L : i <= j => n[i] <= n[j]
      /\ \A j \in 1 .. L : Reads(k, s, n, q, o, j)
  BY <1>1 DEF Track
<1>. HIDE DEF t, L
<1>4. \A j \in 0 .. L : n[j] \in 0 .. Len(o) /\ n[j] \in Nat
  BY <1>2, <1>3
<1>5. /\ \A j \in 0 .. L : k2[j] = k[j] /\ s2[j] = s[j] /\ n2[j] = n[j]
      /\ k2[L + 1] = kind2 /\ s2[L + 1] = status2 /\ n2[L + 1] = Len(o2)
  BY <1>2
<1>6. k2 \in [0 .. Len(t) -> Kind] /\ s2 \in [0 .. Len(t) -> Byte]
  BY <1>2, <1>3
<1>7. n2 \in [0 .. Len(t) -> 0 .. Len(o2)]
  <2>1. \A j \in 0 .. Len(t) :
          (IF j <= L THEN n[j] ELSE Len(o2)) \in 0 .. Len(o2)
    BY <1>2, <1>4
  <2>. QED  BY <2>1
<1>8. n2[0] = 0 /\ n2[Len(t)] = Len(o2)
  BY <1>2, <1>3, <1>5
<1>. HIDE DEF k2, s2, n2
<1>9. ASSUME NEW i \in 0 .. Len(t), NEW j \in 0 .. Len(t), i <= j
      PROVE  n2[i] <= n2[j]
  <2>1. CASE j \in 0 .. L
    <3>1. i \in 0 .. L
      BY <1>2, <1>9, <2>1
    <3>. QED  BY <1>3, <1>5, <1>9, <2>1, <3>1
  <2>2. CASE j \notin 0 .. L
    <3>1. j = L + 1
      BY <1>2, <2>2
    <3>2. n2[i] \in 0 .. Len(o2)
      BY <1>7
    <3>. QED  BY <1>2, <1>5, <3>1, <3>2
  <2>. QED  BY <2>1, <2>2
<1>10. ASSUME NEW j \in 1 .. Len(t)
       PROVE  Reads(k2, s2, n2, t, o2, j)
  <2>1. CASE j \in 1 .. L
    <3>1. j \in 0 .. L /\ j - 1 \in 0 .. L
      BY <1>2, <2>1
    <3>2. /\ k2[j] = k[j] /\ s2[j] = s[j] /\ n2[j] = n[j] /\ t[j] = q[j]
          /\ k2[j - 1] = k[j - 1] /\ s2[j - 1] = s[j - 1] /\ n2[j - 1] = n[j - 1]
      BY <1>2, <1>5, <2>1, <3>1
    <3>3. n[j] = n[j - 1] + 1 => o2[n[j]] = o[n[j]]
      <4>. SUFFICES ASSUME n[j] = n[j - 1] + 1
                    PROVE  n[j] \in 1 .. Len(o)
        OBVIOUS
      <4>1. n[j] \in 0 .. Len(o) /\ n[j - 1] \in 0 .. Len(o)
        BY <1>4, <3>1
      <4>2. \A x \in 0 .. Len(o), y \in 0 .. Len(o) : x = y + 1 => x \in 1 .. Len(o)
        BY <1>2
      <4>. QED  BY <4>1, <4>2
    <3>4. Reads(k, s, n, q, o, j)
      BY <1>3, <2>1
    <3>. QED  BY <3>2, <3>3, <3>4 DEF Reads
  <2>2. CASE j \notin 1 .. L
    <3>1. j = L + 1 /\ j - 1 = L /\ L \in 0 .. L
      BY <1>2, <2>2
    <3>2. /\ k2[j] = kind2 /\ s2[j] = status2 /\ n2[j] = Len(o2) /\ t[j] = b
          /\ k2[j - 1] = kind /\ s2[j - 1] = status /\ n2[j - 1] = Len(o)
      BY <1>1, <1>2, <1>3, <1>5, <3>1 DEF L
    <3>3. /\ c = 0 => n2[j] = n2[j - 1]
          /\ c = 1 => n2[j] = n2[j - 1] + 1 /\ n2[j] = Len(o) + 1
      BY <1>2, <3>2
    <3>. QED  BY <3>2, <3>3 DEF Reads
  <2>. QED  BY <2>1, <2>2
<1>11. Track(k2, s2, n2, t, o2)
  BY <1>6, <1>7, <1>8, <1>9, <1>10 DEF Track
<1>12. At(p, k2[0], s2[0])
  BY <1>1, <1>2, <1>5
<1>13. k2[Len(t)] = kind2 /\ s2[Len(t)] = status2
  BY <1>2, <1>5
<1>. QED  BY <1>11, <1>12, <1>13 DEF Ends, t

\* The same for the data byte that ends a message for the parser.
LEMMA ExtendFirst ==
  ASSUME NEW q \in Seq(Byte), NEW o \in Seq(Msg), NEW p,
         NEW kind \in {"one", "two"}, NEW status \in Byte, Ends(q, o, p, kind, status),
         NEW b \in Data, NEW m \in Msg, Shown(m) = <<status, b>>,
         NEW kind2 \in Kind, kind2 = IF kind = "two" THEN "more" ELSE "end"
  PROVE  Ends(Append(q, b), Append(o, m), p, kind2, status)
<1>1. b \in Byte
  BY DataLength
<1>2. PICK c \in {0, 1} : c = 1
  OBVIOUS
<1>3. PICK o2 \in Seq(Msg) : o2 = Append(o, m)
  BY AppendProperties
<1>4. /\ Len(o2) = Len(o) + c
      /\ \A i \in 1 .. Len(o) : o2[i] = o[i]
      /\ o2[Len(o) + 1] = m
  BY <1>2, <1>3, AppendProperties, LenProperties
<1>5. /\ b \in Data /\ kind \in {"one", "two"} /\ c = 1
      /\ kind2 = IF kind = "two" THEN "more" ELSE "end"
      /\ Shown(o2[Len(o) + 1]) = <<status, b>>
  BY <1>2, <1>4
<1>6. Ends(Append(q, b), o2, p, kind2, status)
  BY <1>1, <1>4, <1>5, Extend
<1>. QED  BY <1>3, <1>6

LEMMA Prefixes ==
  ASSUME NEW x \in Byte, NEW y \in Byte, NEW z \in Byte, NEW m, m = <<x, y, z>>
  PROVE  /\ SubSeq(m, 1, 0) = <<>> /\ SubSeq(m, 1, 1) = <<x>>
         /\ SubSeq(m, 1, 2) = <<x, y>> /\ SubSeq(m, 1, 3) = <<x, y, z>>
<1>1. m[1] = x /\ m[2] = y /\ m[3] = z
  OBVIOUS
<1>2. ASSUME NEW n \in {1, 2, 3}
      PROVE  /\ SubSeq(m, 1, n) \in Seq(Byte) /\ Len(SubSeq(m, 1, n)) = n
             /\ \A i \in 1 .. n : SubSeq(m, 1, n)[i] = m[i]
  <2>1. \A i \in 1 .. n : m[i] \in Byte
    BY <1>1
  <2>2. /\ SubSeq(m, 1, n) \in Seq(Byte)
        /\ Len(SubSeq(m, 1, n)) = IF 1 <= n THEN n - 1 + 1 ELSE 0
        /\ \A i \in 1 .. n - 1 + 1 : SubSeq(m, 1, n)[i] = m[1 + i - 1]
    BY <2>1, SubSeqProperties
  <2>. QED  BY <2>2
<1>3. SubSeq(m, 1, 0) = <<>>
  BY SubSeqEmpty
<1>4. SubSeq(m, 1, 1) = <<x>>
  <2>1. /\ SubSeq(m, 1, 1) \in Seq(Byte) /\ Len(SubSeq(m, 1, 1)) = 1
        /\ SubSeq(m, 1, 1)[1] = x
    BY <1>1, <1>2
  <2>2. <<x>> \in Seq(Byte) /\ Len(<<x>>) = 1 /\ <<x>>[1] = x
    OBVIOUS
  <2>3. \A i \in 1 .. 1 : SubSeq(m, 1, 1)[i] = <<x>>[i]
    BY <2>1, <2>2
  <2>. QED  BY <2>1, <2>2, <2>3, SeqEqual
<1>5. SubSeq(m, 1, 2) = <<x, y>>
  <2>1. /\ SubSeq(m, 1, 2) \in Seq(Byte) /\ Len(SubSeq(m, 1, 2)) = 2
        /\ SubSeq(m, 1, 2)[1] = x /\ SubSeq(m, 1, 2)[2] = y
    BY <1>1, <1>2
  <2>2. /\ <<x, y>> \in Seq(Byte) /\ Len(<<x, y>>) = 2
        /\ <<x, y>>[1] = x /\ <<x, y>>[2] = y
    OBVIOUS
  <2>3. \A i \in 1 .. 2 : SubSeq(m, 1, 2)[i] = <<x, y>>[i]
    BY <2>1, <2>2
  <2>. QED  BY <2>1, <2>2, <2>3, SeqEqual
<1>6. SubSeq(m, 1, 3) = <<x, y, z>>
  <2>1. /\ SubSeq(m, 1, 3) \in Seq(Byte) /\ Len(SubSeq(m, 1, 3)) = 3
        /\ SubSeq(m, 1, 3)[1] = x /\ SubSeq(m, 1, 3)[2] = y /\ SubSeq(m, 1, 3)[3] = z
    BY <1>1, <1>2
  <2>2. /\ <<x, y, z>> \in Seq(Byte) /\ Len(<<x, y, z>>) = 3
        /\ <<x, y, z>>[1] = x /\ <<x, y, z>>[2] = y /\ <<x, y, z>>[3] = z
    OBVIOUS
  <2>3. \A i \in 1 .. 3 : SubSeq(m, 1, 3)[i] = <<x, y, z>>[i]
    BY <2>1, <2>2
  <2>. QED  BY <2>1, <2>2, <2>3, SeqEqual
<1>. QED  BY <1>3, <1>4, <1>5, <1>6

\* A message of which c bytes are queued.
LEMMA MessageYields ==
  ASSUME NEW q \in Seq(Byte), NEW o \in Seq(Msg), NEW p, Yields(q, o, p),
         NEW m \in ChannelStatus \X Data \X Data,
         NEW c \in 0 .. 1 + midi_data_len(m[1]),
         NEW r, r = IF c = 1 + midi_data_len(m[1]) \/ c >= 2
                    THEN Append(o, Meaning(m)) ELSE o
  PROVE  /\ r \in Seq(Msg)
         /\ Yields(q \o SubSeq(m, 1, c), r, p)
<1>. DEFINE q1 == Append(q, m[1])
            q2 == Append(q1, m[2])
            q3 == Append(q2, m[3])
<1>1. /\ m = <<m[1], m[2], m[3]>> /\ m[1] \in ChannelStatus
      /\ m[2] \in Data /\ m[3] \in Data
  OBVIOUS
<1>2. /\ m[1] \in Byte /\ m[2] \in Byte /\ m[3] \in Byte
      /\ m \in Msg /\ Meaning(m) \in Msg
  <2>1. m[1] \in Byte
    BY <1>1, DataLength
  <2>2. m[2] \in Byte /\ m[3] \in Byte
    BY <1>1, DataLength
  <2>3. 0 \in Byte
    BY DEF Byte
  <2>4. \A x, y, z \in Byte : <<x, y, z>> \in Msg
    BY DEF Msg
  <2>5. m \in Msg /\ <<m[1], 0, 0>> \in Msg
    <3>1. <<m[1], m[2], m[3]>> \in Msg /\ <<m[1], 0, 0>> \in Msg
      BY <2>1, <2>2, <2>3, <2>4
    <3>. QED  BY <1>1, <3>1
  <2>. QED  BY <2>1, <2>2, <2>5 DEF Meaning
<1>3. r \in Seq(Msg)
  BY <1>2, AppendProperties
<1>4. q1 \in Seq(Byte) /\ q2 \in Seq(Byte) /\ q3 \in Seq(Byte)
  <2>1. q1 \in Seq(Byte)
    BY <1>2, AppendProperties
  <2>. HIDE DEF q1
  <2>2. q2 \in Seq(Byte)
    BY <1>2, <2>1, AppendProperties
  <2>. HIDE DEF q2
  <2>3. q3 \in Seq(Byte)
    BY <1>2, <2>2, AppendProperties
  <2>. QED  BY <2>1, <2>2, <2>3
<1>5. /\ q \o SubSeq(m, 1, 0) = q /\ q \o SubSeq(m, 1, 1) = q1
      /\ q \o SubSeq(m, 1, 2) = q2 /\ q \o SubSeq(m, 1, 3) = q3
  <2>1. /\ SubSeq(m, 1, 0) = <<>> /\ SubSeq(m, 1, 1) = <<m[1]>>
        /\ SubSeq(m, 1, 2) = <<m[1], m[2]>> /\ SubSeq(m, 1, 3) = <<m[1], m[2], m[3]>>
    BY <1>1, <1>2, Prefixes
  <2>. QED  BY <1>2, <2>1
<1>6. PICK kind \in Kind, status \in Byte : Ends(q, o, p, kind, status)
  BY DEF Yields
<1>7. /\ Append(o, Meaning(m)) \in Seq(Msg)
      /\ Len(Append(o, Meaning(m))) = Len(o) + 1 /\ Len(o) \in Nat
      /\ \A i \in 1 .. Len(o) : Append(o, Meaning(m))[i] = o[i]
      /\ Append(o, Meaning(m))[Len(o) + 1] = Meaning(m)
  BY <1>2, AppendProperties, LenProperties
<1>8. {"one", "two", "more", "end"} \subseteq Kind
  BY DEF Kind
<1>. HIDE DEF q1, q2, q3
<1>9. CASE m[1] \in Realtime
  <2>1. midi_data_len(m[1]) = 0 /\ Meaning(m) = <<m[1], 0, 0>>
    BY <1>9, DataLength DEF Meaning
  <2>2. Shown(Meaning(m)) = <<m[1], 0>>
    BY <2>1 DEF Shown
  <2>3. CASE c = 0
    <3>1. r = o
      BY <2>1, <2>3
    <3>. QED  BY <1>3, <1>5, <2>3, <3>1
  <2>4. CASE c = 1
    <3>1. r = Append(o, Meaning(m))
      BY <2>1, <2>4
    <3>2. Ends(q1, Append(o, Meaning(m)), p, "end", status)
      BY <1>2, <1>6, <1>7, <1>8, <1>9, <2>2, Extend DEF q1
    <3>. QED  BY <1>3, <1>5, <1>6, <1>8, <2>4, <3>1, <3>2 DEF Yields
  <2>. QED  BY <2>1, <2>3, <2>4
<1>10. CASE m[1] \in Channel
  <2>. DEFINE len == midi_data_len(m[1])
              kind1 == IF len = 2 THEN "two" ELSE "one"
              kind2 == IF kind1 = "two" THEN "more" ELSE "end"
              o2 == Append(o, m)
  <2>1. len \in {1, 2} /\ Meaning(m) = m
    BY <1>10, DataLength DEF Meaning
  <2>2. Shown(m) = <<m[1], m[2]>> /\ kind1 \in Kind /\ kind2 \in Kind
    BY <1>8 DEF Shown
  <2>3. Ends(q1, o, p, kind1, m[1])
    BY <1>2, <1>6, <1>7, <1>10, <2>2, Extend DEF q1
  <2>4. Ends(q2, o2, p, kind2, m[1])
    <3>1. kind1 \in {"one", "two"}
      OBVIOUS
    <3>4. kind2 \in Kind /\ kind2 = IF kind1 = "two" THEN "more" ELSE "end"
      BY <2>2
    <3>. HIDE DEF len, kind1, kind2
    <3>5. Ends(Append(q1, m[2]), o2, p, kind2, m[1])
      BY <1>1, <1>2, <1>4, <2>2, <2>3, <3>1, <3>4, ExtendFirst
    <3>. QED  BY <3>5 DEF q2
  <2>5. len = 2 => Ends(q3, o2, p, "end", m[1])
    <3>1. len = 2 => kind2 = "more"
      OBVIOUS
    <3>. HIDE DEF kind2, o2
    <3>2. o2 \in Seq(Msg) /\ Len(o2) = Len(o2) + 0
      BY <1>7, <2>1, LenProperties DEF o2
    <3>. QED  BY <1>1, <1>2, <1>4, <1>8, <2>4, <3>1, <3>2, Extend DEF q3
  <2>6. CASE c = 0
    <3>1. r = o
      BY <2>1, <2>6
    <3>. QED  BY <1>3, <1>5, <2>6, <3>1
  <2>7. CASE c = 1
    <3>1. r = o
      BY <2>1, <2>7
    <3>. QED  BY <1>2, <1>3, <1>5, <2>2, <2>3, <2>7, <3>1 DEF Yields
  <2>8. CASE c = 2
    <3>1. r = o2
      BY <2>1, <2>8
    <3>. QED  BY <1>2, <1>3, <1>5, <2>2, <2>4, <2>8, <3>1 DEF Yields
  <2>9. CASE c = 3
    <3>1. r = o2 /\ len = 2
      BY <2>1, <2>9
    <3>. QED  BY <1>2, <1>3, <1>5, <1>8, <2>5, <2>9, <3>1 DEF Yields
  <2>10. c \in {0, 1, 2, 3}
    BY <2>1
  <2>. QED  BY <2>6, <2>7, <2>8, <2>9, <2>10
<1>. QED  BY <1>1, <1>9, <1>10, DataLength
-----------------------------------------------------------------------------
(* Packets.                                                                *)

LEMMA PacketOf ==
  ASSUME NEW b \in Byte, NEW c \in Byte
  PROVE  /\ usb_midi_enc(<<b, c, 0>>) \in Seq(Byte)
         /\ usb_midi_enc(<<b, c, 0>>)[4] = 0
<1>1. status_to_cin(b) \in Byte
  BY DEF status_to_cin, Byte
<1>2. 0 \in Byte
  BY DEF Byte
<1>. DEFINE u == <<status_to_cin(b)>>
            v == <<b, c, 0>>
<1>3. /\ u \in Seq(Byte) /\ Len(u) = 1
      /\ v \in Seq(Byte) /\ Len(v) = 3 /\ v[3] = 0
  BY <1>1, <1>2
<1>4. usb_midi_enc(v) = u \o v
  BY DEF usb_midi_enc
<1>. HIDE DEF u, v
<1>5. /\ u \o v \in Seq(Byte)
      /\ \A i \in 1 .. Len(u) + Len(v) :
           (u \o v)[i] = IF i <= Len(u) THEN u[i] ELSE v[i - Len(u)]
  BY <1>3, ConcatProperties
<1>6. (u \o v)[4] = v[3]
  <2>1. /\ 4 \in 1 .. Len(u) + Len(v)
        /\ ~(4 <= Len(u)) /\ 4 - Len(u) = 3
    BY <1>3
  <2>. QED  BY <1>5, <2>1
<1>. QED  BY <1>3, <1>4, <1>5, <1>6 DEF v

LEMMA SysexPacket ==
  ASSUME NEW s \in Seq(Byte), s # <<>>
  PROVE  FirstSysexPacket(s) \in Seq(Byte)
<1>1. Len(s) \in Nat /\ Len(s) >= 1
  BY EmptySeq, LenProperties
<1>2. {0, 4, 5, 6, 7} \subseteq Byte
  BY DEF Byte
<1>3. \A w, x, y, z \in Byte : <<w, x, y, z>> \in Seq(Byte)
  OBVIOUS
<1>4. \A i \in 1 .. Len(s) : s[i] \in Byte
  OBVIOUS
<1>5. CASE Len(s) = 1
  <2>1. s[1] \in Byte
    BY <1>4, <1>5
  <2>. QED  BY <1>2, <1>3, <1>5, <2>1 DEF FirstSysexPacket
<1>6. CASE Len(s) = 2
  <2>1. s[1] \in Byte /\ s[2] \in Byte
    BY <1>4, <1>6
  <2>. QED  BY <1>2, <1>3, <1>6, <2>1 DEF FirstSysexPacket
<1>7. CASE Len(s) >= 3
  <2>1. s[1] \in Byte /\ s[2] \in Byte /\ s[3] \in Byte
    BY <1>1, <1>4, <1>7
  <2>2. Len(s) # 1 /\ Len(s) # 2
    <3>1. \A n \in Nat : n >= 3 => n # 1 /\ n # 2
      OBVIOUS
    <3>. QED  BY <1>1, <1>7, <3>1
  <2>. QED  BY <1>2, <1>3, <2>1, <2>2 DEF FirstSysexPacket
<1>8. Len(s) = 1 \/ Len(s) = 2 \/ Len(s) >= 3
  <2>1. \A n \in Nat : n >= 1 => n = 1 \/ n = 2 \/ n >= 3
    OBVIOUS
  <2>. QED  BY <1>1, <2>1
<1>. QED  BY <1>5, <1>6, <1>7, <1>8

\* A prefix of a prefix.
LEMMA PrefixOfPrefix ==
  ASSUME NEW S, NEW m, NEW l \in Nat, \A i \in 1 .. l : m[i] \in S, NEW c \in 0 .. l
  PROVE  /\ SubSeq(m, 1, c) \in Seq(S) /\ Len(SubSeq(m, 1, c)) = c
         /\ SubSeq(SubSeq(m, 1, l), 1, c) = SubSeq(m, 1, c)
<1>1. CASE c = 0
  <2>1. \A t : SubSeq(t, 1, 0) = <<>>
    BY SubSeqEmpty
  <2>2. <<>> \in Seq(S) /\ Len(<<>>) = 0
    OBVIOUS
  <2>. QED  BY <1>1, <2>1, <2>2
<1>2. ASSUME NEW t, NEW n \in Nat, n >= 1, \A i \in 1 .. n : t[i] \in S
      PROVE  /\ SubSeq(t, 1, n) \in Seq(S) /\ Len(SubSeq(t, 1, n)) = n
             /\ \A i \in 1 .. n : SubSeq(t, 1, n)[i] = t[i]
  <2>1. /\ SubSeq(t, 1, n) \in Seq(S)
        /\ Len(SubSeq(t, 1, n)) = IF 1 <= n THEN n - 1 + 1 ELSE 0
        /\ \A i \in 1 .. n - 1 + 1 : SubSeq(t, 1, n)[i] = t[1 + i - 1]
    BY <1>2, SubSeqProperties
  <2>2. n - 1 + 1 = n /\ \A i \in 1 .. n : 1 + i - 1 = i
    OBVIOUS
  <2>. QED  BY <1>2, <2>1, <2>2
<1>3. CASE c >= 1
  <2>. DEFINE t == SubSeq(m, 1, l)
              u == SubSeq(m, 1, c)
              v == SubSeq(t, 1, c)
  <2>1. c \in Nat /\ l >= 1 /\ \A i \in 1 .. c : i \in 1 .. l
    BY <1>3
  <2>2. \A i \in 1 .. l : t[i] = m[i]
    BY <1>2, <2>1
  <2>3. u \in Seq(S) /\ Len(u) = c /\ \A i \in 1 .. c : u[i] = m[i]
    BY <1>2, <1>3, <2>1
  <2>. HIDE DEF t
  <2>4. v \in Seq(S) /\ Len(v) = c /\ \A i \in 1 .. c : v[i] = t[i]
    BY <1>2, <1>3, <2>1, <2>2
  <2>. HIDE DEF u, v
  <2>5. v = u
    BY <2>1, <2>2, <2>3, <2>4, SeqEqual
  <2>. QED  BY <2>3, <2>5 DEF t, u, v
<1>. QED  BY <1>1, <1>3

\* What the ring accepts of a message.
LEMMA AcceptedIs ==
  ASSUME NEW m \in ChannelStatus \X Data \X Data,
         queue \in Seq(Byte), Len(queue) <= RingCap
  PROVE  \E c \in 0 .. 1 + midi_data_len(m[1]) :
           /\ c <= RingCap - Len(queue)
           /\ Accepted(midi_encode_msg(m)) = SubSeq(m, 1, c)
           /\ Accepted(midi_encode_msg(m)) \in Seq(Byte)
           /\ Len(Accepted(midi_encode_msg(m))) = c
           /\ Len(midi_encode_msg(m)) = 1 + midi_data_len(m[1])
<1>. DEFINE l == 1 + midi_data_len(m[1])
            room == RingCap - Len(queue)
            e == SubSeq(m, 1, l)
<1>1. m[1] \in ChannelStatus /\ m[2] \in Data /\ m[3] \in Data
  OBVIOUS
<1>2. l \in {1, 2, 3}
  BY <1>1, DataLength
<1>3. room \in Nat
  <2>1. Len(queue) \in Nat /\ RingCap \in Nat
    BY LenProperties, UsbTxAssumption
  <2>. QED  BY <2>1
<1>4. midi_encode_msg(m) = e
  BY DEF midi_encode_msg
<1>5. \A i \in 1 .. l : m[i] \in Byte
  <2>1. m[1] \in Byte /\ m[2] \in Byte /\ m[3] \in Byte
    BY <1>1, DataLength
  <2>2. \A i \in 1 .. l : i = 1 \/ i = 2 \/ i = 3
    BY <1>2
  <2>. QED  BY <2>1, <2>2
<1>. HIDE DEF l, room
<1>6. l \in Nat /\ l \in 0 .. l
  BY <1>2
<1>7. Len(e) = l
  BY <1>5, <1>6, PrefixOfPrefix
<1>8. PICK c \in 0 .. l : c <= room /\ c = IF l <= room THEN l ELSE room
  BY <1>3, <1>6
<1>9. Accepted(e) = SubSeq(e, 1, c)
  BY <1>7, <1>8 DEF Accepted, room
<1>10. /\ SubSeq(e, 1, c) = SubSeq(m, 1, c)
       /\ SubSeq(m, 1, c) \in Seq(Byte) /\ Len(SubSeq(m, 1, c)) = c
  BY <1>5, <1>6, PrefixOfPrefix
<1>. QED  BY <1>4, <1>7, <1>8, <1>9, <1>10 DEF l, room

-----------------------------------------------------------------------------
(* The invariant: the parser reads what is queued as what is owed.  The    *)
(* wait is never entered with nothing left to count down.                  *)

Inv ==
  /\ TypeOK
  /\ pc = "wait" => patience >= 1
  /\ Yields(queue, owed, parser)

LEMMA InitInv == ASSUME Init PROVE Inv
<1>1. /\ queue = <<>> /\ owed = <<>> /\ parser = midi_parser_init
      /\ pc = "loop" /\ patience = 0 /\ frame = <<>> /\ line = <<0, 0>>
      /\ device = [configured |-> FALSE, tx_busy |-> FALSE]
      /\ rule = [enabled |-> FALSE, ch_mask |-> {}, msg_mask |-> {}]
  BY DEF Init
<1>2. RingCap \in Nat /\ FramePackets \in Nat /\ Patience \in Nat
  BY UsbTxAssumption
<1>3. 0 \in Byte
  BY DEF Byte
<1>4. parser \in Parser /\ parser.msg[3] = 0
  BY <1>1, <1>3 DEF midi_parser_init, Parser, ParserState, Msg
<1>5. TypeOK
  <2>1. rule \in Rule
    BY <1>1 DEF Rule
  <2>2. queue \in Seq(Byte) /\ Len(queue) <= RingCap
    BY <1>1, <1>2
  <2>3. frame \in Seq(Seq(Byte)) /\ Len(frame) <= FramePackets
    BY <1>1, <1>2
  <2>4. owed \in Seq(Msg) /\ line \in Byte \X Byte
    BY <1>1, <1>3
  <2>5. device \in [configured : BOOLEAN, tx_busy : BOOLEAN]
    BY <1>1
  <2>6. pc \in {"loop", "drain", "wait", "hand"} /\ patience \in 0 .. Patience
    BY <1>1, <1>2
  <2>. QED  BY <1>4, <2>1, <2>2, <2>3, <2>4, <2>5, <2>6 DEF TypeOK, Parser, Msg
<1>6. Yields(queue, owed, parser)
  <2>. DEFINE k == [j \in 0 .. 0 |-> "end"]
              s == [j \in 0 .. 0 |-> 0]
              n == [j \in 0 .. 0 |-> 0]
  <2>1. Len(queue) = 0 /\ Len(owed) = 0
    BY <1>1
  <2>2. k \in [0 .. 0 -> Kind] /\ s \in [0 .. 0 -> Byte] /\ n \in [0 .. 0 -> 0 .. 0]
    BY <1>3 DEF Kind
  <2>3. k[0] = "end" /\ s[0] = 0 /\ n[0] = 0
    OBVIOUS
  <2>. HIDE DEF k, s, n
  <2>4. \A i, j \in 0 .. 0 : n[i] <= n[j]
    BY <2>3
  <2>5. Track(k, s, n, queue, owed)
    BY <2>1, <2>2, <2>3, <2>4 DEF Track
  <2>6. At(parser, k[0], s[0])
    BY <1>4, <2>3 DEF At
  <2>7. Ends(queue, owed, parser, "end", 0)
    BY <2>1, <2>3, <2>5, <2>6 DEF Ends
  <2>. QED  BY <1>3, <2>7 DEF Yields, Kind
<1>. QED  BY <1>1, <1>5, <1>6 DEF Inv

\* A message is queued, as far as there is room for it.
LEMMA SendStep ==
  ASSUME Inv, NEW m \in Message, midi_send_msg(m)
  PROVE  /\ queue' \in Seq(Byte) /\ Len(queue') <= RingCap
         /\ owed' = owed \/ \E x \in Msg : owed' = Append(owed, x)
         /\ Yields(queue', owed', parser')
<1>. DEFINE bytes == midi_encode_msg(m)
            len == midi_data_len(m[1])
<1>1. queue \in Seq(Byte) /\ Len(queue) <= RingCap /\ owed \in Seq(Msg)
  BY DEF Inv, TypeOK, Msg
<1>2. m \in ChannelStatus \X Data \X Data
  BY UsbTxAssumption
<1>3. PICK c \in 0 .. 1 + len :
        /\ c <= RingCap - Len(queue)
        /\ Accepted(bytes) = SubSeq(m, 1, c)
        /\ Accepted(bytes) \in Seq(Byte)
        /\ Len(Accepted(bytes)) = c
        /\ Len(bytes) = 1 + len
  BY <1>1, <1>2, AcceptedIs
<1>4. /\ queue' = queue \o Accepted(bytes) /\ parser' = parser
      /\ owed' = IF \/ Len(Accepted(bytes)) = Len(bytes)
                    \/ Len(Accepted(bytes)) >= 2
                 THEN Append(owed, Meaning(m)) ELSE owed
  BY DEF midi_send_msg
<1>5. Meaning(m) \in Msg
  <2>1. m[1] \in ChannelStatus /\ m[2] \in Data /\ m[3] \in Data
    BY <1>2
  <2>2. m[1] \in Byte /\ m[2] \in Byte /\ m[3] \in Byte
    BY <2>1, DataLength
  <2>3. 0 \in Byte
    BY DEF Byte
  <2>4. m = <<m[1], m[2], m[3]>>
    BY <1>2
  <2>5. \A x, y, z \in Byte : <<x, y, z>> \in Msg
    BY DEF Msg
  <2>6. <<m[1], m[2], m[3]>> \in Msg /\ <<m[1], 0, 0>> \in Msg
    BY <2>2, <2>3, <2>5
  <2>. QED  BY <2>4, <2>6 DEF Meaning
<1>. DEFINE r == IF c = 1 + midi_data_len(m[1]) \/ c >= 2
                 THEN Append(owed, Meaning(m)) ELSE owed
<1>6. owed' = r
  BY <1>3, <1>4
<1>7. Yields(queue \o SubSeq(m, 1, c), r, parser)
  <2>1. Yields(queue, owed, parser)
    BY DEF Inv
  <2>. QED  BY <1>1, <1>2, <2>1, MessageYields
<1>8. queue' \in Seq(Byte) /\ Len(queue') = Len(queue) + c
  BY <1>1, <1>3, <1>4, ConcatProperties
<1>9. Len(queue') <= RingCap
  <2>1. RingCap \in Nat /\ Len(queue) \in Nat /\ c \in Int
    BY <1>1, UsbTxAssumption, LenProperties
  <2>. QED  BY <1>3, <1>8, <2>1
<1>10. owed' = owed \/ owed' = Append(owed, Meaning(m))
  BY <1>4
<1>. QED  BY <1>3, <1>4, <1>5, <1>6, <1>7, <1>8, <1>9, <1>10

\* A byte is popped: nothing to be seen, or the message owed first.
LEMMA DrainByteStep ==
  ASSUME Inv, DrainByte
  PROVE  /\ queue' \in Seq(Byte) /\ Len(queue') <= RingCap
         /\ parser' \in Parser
         /\ owed' \in Seq(Msg)
         /\ Yields(queue', owed', parser')
         /\ \/ UNCHANGED <<frame, line, owed>>
            \/ /\ owed # <<>> /\ owed' = Tail(owed)
               /\ \E b, c \in Byte : /\ line' = <<b, c>>
                                     /\ Shown(owed[1]) = <<b, c>>
                                     /\ frame' = Append(frame, usb_midi_enc(<<b, c, 0>>))
<1>. DEFINE b == queue[1]
<1>1. /\ queue \in Seq(Byte) /\ Len(queue) <= RingCap /\ owed \in Seq(Msg)
      /\ parser \in Parser
  BY DEF Inv, TypeOK, Msg, Parser
<1>2. queue # <<>> /\ Head(queue) = b
  BY DEF DrainByte
<1>3. /\ queue' = Tail(queue) /\ parser' = ParserAfter(parser, b)
      /\ Parsed(parser, b) = <<>> => UNCHANGED <<frame, line, owed>>
      /\ Parsed(parser, b) # <<>> =>
           /\ frame' = Append(frame, usb_midi_enc(Parsed(parser, b)))
           /\ line' = Shown(Parsed(parser, b))
           /\ owed' = IF owed = <<>> THEN owed ELSE Tail(owed)
  BY <1>2 DEF DrainByte, PopAndParse
<1>4. queue' \in Seq(Byte) /\ Len(queue') <= RingCap
  <2>1. queue' \in Seq(Byte) /\ Len(queue') = Len(queue) - 1 /\ Len(queue) \in Nat
    BY <1>1, <1>2, <1>3, HeadTailProperties, LenProperties
  <2>2. RingCap \in Nat
    BY UsbTxAssumption
  <2>. QED  BY <1>1, <2>1, <2>2
<1>5. PICK k, s, n : Track(k, s, n, queue, owed) /\ At(parser, k[0], s[0])
  BY DEF Inv, Yields, Ends
<1>6. /\ ParserAfter(parser, b) \in Parser
      /\ At(ParserAfter(parser, b), k[1], s[1])
      /\ \/ n[1] = 0 /\ Parsed(parser, b) = <<>>
         \/ /\ n[1] = 1
            /\ \E x \in Byte, y \in Byte :
                 Parsed(parser, b) = <<x, y, 0>> /\ Shown(owed[1]) = <<x, y>>
  BY <1>1, <1>2, <1>5, HeadParsed
<1>7. Len(queue) \in Nat /\ Len(queue) >= 1
  BY <1>1, <1>2, EmptySeq, LenProperties
<1>8. /\ k \in [0 .. Len(queue) -> Kind] /\ s \in [0 .. Len(queue) -> Byte]
      /\ n[1] \in 0 .. Len(owed)
  <2>1. 1 \in 0 .. Len(queue)
    BY <1>7
  <2>. QED  BY <1>5, <2>1 DEF Track
<1>9. k[Len(queue)] \in Kind /\ s[Len(queue)] \in Byte
  <2>1. Len(queue) \in 0 .. Len(queue)
    BY <1>7
  <2>. QED  BY <1>8, <2>1
<1>10. ASSUME NEW r \in Seq(Msg), n[1] \in {0, 1}, n[1] = 0 => r = owed,
              n[1] = 1 => r = Tail(owed)
       PROVE  Yields(queue', r, parser')
  <2>1. PICK k2, s2, n2 : /\ Track(k2, s2, n2, Tail(queue), r)
                          /\ k2[0] = k[1] /\ s2[0] = s[1]
                          /\ k2[Len(Tail(queue))] = k[Len(queue)]
                          /\ s2[Len(Tail(queue))] = s[Len(queue)]
    BY <1>1, <1>2, <1>5, <1>10, Shift
  <2>2. At(parser', k2[0], s2[0])
    BY <1>3, <1>6, <2>1
  <2>3. Ends(queue', r, parser', k[Len(queue)], s[Len(queue)])
    BY <1>3, <2>1, <2>2 DEF Ends
  <2>. QED  BY <1>9, <2>3 DEF Yields
<1>11. CASE n[1] = 0 /\ Parsed(parser, b) = <<>>
  <2>1. UNCHANGED <<frame, line, owed>>
    BY <1>3, <1>11
  <2>2. Yields(queue', owed', parser')
    BY <1>1, <1>10, <1>11, <2>1
  <2>. QED  BY <1>1, <1>3, <1>4, <1>6, <2>1, <2>2
<1>12. ASSUME NEW x \in Byte, NEW y \in Byte, n[1] = 1,
              Parsed(parser, b) = <<x, y, 0>>, Shown(owed[1]) = <<x, y>>
       PROVE  /\ owed # <<>> /\ owed' = Tail(owed) /\ owed' \in Seq(Msg)
              /\ line' = <<x, y>>
              /\ frame' = Append(frame, usb_midi_enc(<<x, y, 0>>))
              /\ Yields(queue', owed', parser')
  <2>1. owed # <<>>
    <3>1. CASE owed = <<>>
      <4>1. Len(owed) = 0
        BY <3>1
      <4>. QED  BY <1>8, <1>12, <4>1
    <3>. QED  BY <3>1
  <2>2. Parsed(parser, b) # <<>>
    BY <1>12
  <2>3. owed' = Tail(owed) /\ owed' \in Seq(Msg)
    BY <1>1, <1>3, <2>1, <2>2, HeadTailProperties
  <2>4. line' = <<x, y>>
    BY <1>3, <1>12, <2>2 DEF Shown
  <2>5. Yields(queue', owed', parser')
    <3>1. n[1] \in {0, 1} /\ n[1] # 0
      BY <1>12
    <3>2. PICK r \in Seq(Msg) : r = owed'
      BY <2>3
    <3>3. Yields(queue', r, parser')
      BY <1>10, <2>3, <3>1, <3>2
    <3>. QED  BY <3>2, <3>3
  <2>. QED  BY <1>3, <1>12, <2>1, <2>2, <2>3, <2>4, <2>5
<1>. QED  BY <1>3, <1>4, <1>6, <1>11, <1>12

\* What the actions that leave the queue alone do to the rest.
LEMMA OtherStep ==
  ASSUME Inv,
         \/ \E r \in RuleInput : router_set_rule(r)
         \/ DrainStart \/ DrainSend \/ \E s \in Sysex : SysexStart(s)
         \/ SysexStep \/ TransferDone \/ Configured \/ Resumed \/ Gone
  PROVE  /\ UNCHANGED <<queue, parser, owed, line>>
         /\ rule' \in Rule /\ pc' \in {"loop", "drain", "wait", "hand"}
         /\ frame' \in Seq(Seq(Byte)) /\ Len(frame') <= FramePackets
         /\ patience' \in 0 .. Patience
         /\ pc' = "wait" => patience' >= 1
         /\ device' \in [configured : BOOLEAN, tx_busy : BOOLEAN]
<1>. DEFINE Seen == [configured : BOOLEAN, tx_busy : BOOLEAN]
<1>1. /\ rule \in Rule /\ pc \in {"loop", "drain", "wait", "hand"}
      /\ frame \in Seq(Seq(Byte)) /\ Len(frame) <= FramePackets
      /\ device \in Seen
  BY DEF Inv, TypeOK
<1>2. patience \in 0 .. Patience /\ (pc = "wait" => patience >= 1)
  BY DEF Inv, TypeOK
<1>3. Patience \in Nat \ {0} /\ FramePackets \in Nat \ {0}
  BY UsbTxAssumption
<1>4. <<>> \in Seq(Seq(Byte)) /\ Len(<<>>) <= FramePackets
  BY <1>3
<1>5. /\ device.configured \in BOOLEAN /\ device.tx_busy \in BOOLEAN
      /\ \A b \in BOOLEAN : [device EXCEPT !.tx_busy = b] \in Seen
      /\ \A b \in BOOLEAN : [device EXCEPT !.configured = b] \in Seen
  BY <1>1
<1>6. ASSUME Offer
      PROVE  device' \in Seen
  <2>1. (tx_ready \/ device.tx_busy) \in BOOLEAN
    OBVIOUS
  <2>2. device' = [device EXCEPT !.tx_busy = (tx_ready \/ device.tx_busy)]
    BY <1>6 DEF Offer
  <2>. QED  BY <1>5, <2>1, <2>2
<1>7. ASSUME NEW r \in RuleInput, router_set_rule(r)
      PROVE  /\ UNCHANGED <<queue, parser, owed, line, pc, frame, patience, device>>
             /\ rule' \in Rule
  BY <1>7, UsbTxAssumption DEF router_set_rule
<1>8. CASE DrainStart
  BY <1>1, <1>2, <1>4, <1>8 DEF DrainStart
<1>9. CASE DrainSend
  <2>1. device' \in Seen
    BY <1>1, <1>6, <1>9 DEF DrainSend
  <2>2. /\ UNCHANGED <<rule, queue, parser, patience, owed, line>>
        /\ frame' = <<>> /\ pc' = "loop"
    BY <1>9 DEF DrainSend
  <2>. QED  BY <1>1, <1>2, <1>4, <2>1, <2>2
<1>10. ASSUME NEW s \in Sysex, SysexStart(s)
       PROVE  /\ UNCHANGED <<queue, parser, owed, line, rule, device>>
              /\ pc' = "wait" /\ patience' \in 0 .. Patience /\ patience' >= 1
              /\ frame' \in Seq(Seq(Byte)) /\ Len(frame') <= FramePackets
  <2>1. s \in Seq(Byte) /\ s # <<>>
    BY UsbTxAssumption
  <2>2. PICK x \in Seq(Byte) : x = FirstSysexPacket(s)
    BY <2>1, SysexPacket
  <2>3. frame' = <<x>>
    BY <1>10, <2>2 DEF SysexStart
  <2>4. <<x>> \in Seq(Seq(Byte)) /\ Len(<<x>>) = 1
    OBVIOUS
  <2>5. Len(frame') <= FramePackets
    BY <1>3, <2>3, <2>4
  <2>6. Patience \in 0 .. Patience /\ Patience >= 1
    BY <1>3
  <2>. QED  BY <1>10, <2>3, <2>4, <2>5, <2>6 DEF SysexStart
<1>11. CASE SysexWait
  <2>1. /\ UNCHANGED <<rule, queue, parser, device, owed, line>>
        /\ pc = "wait"
        /\ \/ pc' = "hand" /\ UNCHANGED <<patience, frame>>
           \/ /\ patience' = patience - 1
              /\ pc' = IF patience = 1 THEN "loop" ELSE "wait"
              /\ frame' = <<>> \/ frame' = frame
    BY <1>11 DEF SysexWait
  <2>2. CASE pc' = "hand" /\ UNCHANGED <<patience, frame>>
    BY <1>1, <1>2, <2>1, <2>2
  <2>3. CASE /\ patience' = patience - 1
             /\ pc' = IF patience = 1 THEN "loop" ELSE "wait"
             /\ frame' = <<>> \/ frame' = frame
    <3>1. patience \in 0 .. Patience /\ patience >= 1
      BY <1>2, <2>1
    <3>2. patience' \in 0 .. Patience
      BY <1>3, <2>3, <3>1
    <3>3. pc' = "wait" => patience' >= 1
      BY <1>3, <2>3, <3>1
    <3>4. frame' \in Seq(Seq(Byte)) /\ Len(frame') <= FramePackets
      BY <1>1, <1>4, <2>3
    <3>5. pc' \in {"loop", "drain", "wait", "hand"}
      BY <2>3
    <3>. QED  BY <1>1, <2>1, <3>2, <3>3, <3>4, <3>5
  <2>. QED  BY <2>1, <2>2, <2>3
<1>12. CASE SysexHand
  <2>1. device' \in Seen
    BY <1>6, <1>12 DEF SysexHand
  <2>2. /\ UNCHANGED <<rule, queue, parser, patience, owed, line>>
        /\ frame' = <<>> /\ pc' = "loop"
    BY <1>12 DEF SysexHand
  <2>. QED  BY <1>1, <1>2, <1>4, <2>1, <2>2
<1>13. CASE TransferDone
  <2>1. device' \in Seen
    BY <1>5, <1>13 DEF TransferDone
  <2>2. UNCHANGED <<rule, queue, parser, pc, frame, patience, owed, line>>
    BY <1>13 DEF TransferDone
  <2>. QED  BY <1>1, <1>2, <2>1, <2>2
<1>14. CASE Configured
  <2>1. device' \in Seen
    BY <1>14 DEF Configured
  <2>2. UNCHANGED <<rule, queue, parser, pc, frame, patience, owed, line>>
    BY <1>14 DEF Configured
  <2>. QED  BY <1>1, <1>2, <2>1, <2>2
<1>15. CASE Gone
  <2>1. device' \in Seen
    BY <1>5, <1>15 DEF Gone
  <2>2. UNCHANGED <<rule, queue, parser, pc, frame, patience, owed, line>>
    BY <1>15 DEF Gone
  <2>. QED  BY <1>1, <1>2, <2>1, <2>2
<1>16. CASE Resumed
  <2>1. device' \in Seen
    BY <1>5, <1>16 DEF Resumed
  <2>2. UNCHANGED <<rule, queue, parser, pc, frame, patience, owed, line>>
    BY <1>16 DEF Resumed
  <2>. QED  BY <1>1, <1>2, <2>1, <2>2
<1>17. CASE \E r \in RuleInput : router_set_rule(r)
  BY <1>1, <1>2, <1>7, <1>17
<1>18. CASE \E s \in Sysex : SysexStart(s)
  BY <1>1, <1>10, <1>18
<1>. QED
  BY <1>8, <1>9, <1>11, <1>12, <1>13, <1>14, <1>15, <1>16, <1>17, <1>18
     DEF SysexStep

LEMMA NextInv == ASSUME Inv, [Next]_vars PROVE Inv'
<1>. DEFINE Seen == [configured : BOOLEAN, tx_busy : BOOLEAN]
<1>1. /\ rule \in Rule /\ queue \in Seq(Byte) /\ Len(queue) <= RingCap
      /\ parser \in Parser /\ pc \in {"loop", "drain", "wait", "hand"}
      /\ frame \in Seq(Seq(Byte)) /\ Len(frame) <= FramePackets
      /\ patience \in 0 .. Patience /\ device \in Seen
      /\ owed \in Seq(Msg) /\ line \in Byte \X Byte
      /\ pc = "wait" => patience >= 1
      /\ Yields(queue, owed, parser)
  BY DEF Inv, TypeOK, Parser, Msg
<1>2. SUFFICES /\ rule' \in Rule /\ queue' \in Seq(Byte) /\ Len(queue') <= RingCap
               /\ parser' \in Parser /\ pc' \in {"loop", "drain", "wait", "hand"}
               /\ frame' \in Seq(Seq(Byte)) /\ Len(frame') <= FramePackets
               /\ patience' \in 0 .. Patience /\ device' \in Seen
               /\ owed' \in Seq(Msg) /\ line' \in Byte \X Byte
               /\ pc' = "wait" => patience' >= 1
               /\ Yields(queue', owed', parser')
  BY DEF Inv, TypeOK, Parser, Msg
<1>3. ASSUME NEW m \in Message, midi_send_msg(m)
      PROVE  /\ UNCHANGED <<rule, parser, pc, frame, patience, device, line>>
             /\ queue' \in Seq(Byte) /\ Len(queue') <= RingCap
             /\ owed' \in Seq(Msg)
             /\ Yields(queue', owed', parser')
  <2>1. UNCHANGED <<rule, parser, pc, frame, patience, device, line>>
    BY <1>3 DEF midi_send_msg
  <2>2. /\ queue' \in Seq(Byte) /\ Len(queue') <= RingCap
        /\ owed' = owed \/ \E x \in Msg : owed' = Append(owed, x)
        /\ Yields(queue', owed', parser')
    BY <1>3, SendStep
  <2>3. owed' \in Seq(Msg)
    <3>1. \A x \in Msg : Append(owed, x) \in Seq(Msg)
      BY <1>1, AppendProperties
    <3>. QED  BY <1>1, <2>2, <3>1
  <2>. QED  BY <2>1, <2>2, <2>3
<1>4. CASE DrainByte
  <2>1. /\ UNCHANGED <<rule, pc, patience, device>>
        /\ pc = "drain" /\ Len(frame) < FramePackets
    BY <1>4 DEF DrainByte
  <2>2. /\ queue' \in Seq(Byte) /\ Len(queue') <= RingCap /\ parser' \in Parser
        /\ owed' \in Seq(Msg) /\ Yields(queue', owed', parser')
        /\ \/ UNCHANGED <<frame, line, owed>>
           \/ \E b, c \in Byte : /\ line' = <<b, c>>
                                 /\ frame' = Append(frame, usb_midi_enc(<<b, c, 0>>))
    BY <1>4, DrainByteStep
  <2>3. frame' \in Seq(Seq(Byte)) /\ Len(frame') <= FramePackets /\ line' \in Byte \X Byte
    <3>1. CASE UNCHANGED <<frame, line, owed>>
      BY <1>1, <3>1
    <3>2. ASSUME NEW b \in Byte, NEW c \in Byte, line' = <<b, c>>,
                 frame' = Append(frame, usb_midi_enc(<<b, c, 0>>))
          PROVE  /\ frame' \in Seq(Seq(Byte)) /\ Len(frame') <= FramePackets
                 /\ line' \in Byte \X Byte
      <4>1. PICK x \in Seq(Byte) : x = usb_midi_enc(<<b, c, 0>>)
        BY PacketOf
      <4>2. frame' = Append(frame, x)
        BY <3>2, <4>1
      <4>3. frame' \in Seq(Seq(Byte)) /\ Len(frame') = Len(frame) + 1
        BY <1>1, <4>2, AppendProperties
      <4>4. Len(frame) \in Nat /\ FramePackets \in Nat
        BY <1>1, UsbTxAssumption, LenProperties
      <4>5. Len(frame') <= FramePackets
        BY <2>1, <4>3, <4>4
      <4>. QED  BY <3>2, <4>3, <4>5
    <3>. QED  BY <2>2, <3>1, <3>2
  <2>. QED  BY <1>1, <2>1, <2>2, <2>3
<1>5. CASE \/ \E r \in RuleInput : router_set_rule(r)
           \/ DrainStart \/ DrainSend \/ \E s \in Sysex : SysexStart(s)
           \/ SysexStep \/ TransferDone \/ Configured \/ Resumed \/ Gone
  BY <1>1, <1>5, OtherStep
<1>6. CASE UNCHANGED vars
  BY <1>1, <1>6 DEF vars
<1>7. CASE \E m \in Message : midi_send_msg(m)
  BY <1>1, <1>3, <1>7
<1>. QED
  BY <1>4, <1>5, <1>6, <1>7 DEF Next, Drain

LEMMA Invariance == Spec => []Inv
BY InitInv, NextInv, PTL DEF Spec

-----------------------------------------------------------------------------
(* Theorems.                                                               *)

\* The queue never holds more than the ring, nor the frame more than a packet
\* of the endpoint (usb_midi_bridge.c:125, 153), and the wait for the class
\* never counts below 0 (107).
THEOREM TypeCorrect == Spec => []TypeOK
<1>1. Inv => TypeOK
  BY DEF Inv
<1>. QED  BY <1>1, Invariance, PTL

\* A drained ring leaves no message unsent: the parser completes every message
\* with the last byte it needs, and needs no more of it than was queued
\* (midi_parser.c:92-96, usb_midi_bridge.c:148-153).
THEOREM NothingLeftBehind == Spec => []DrainedMeansSent
<1>1. ASSUME Inv, queue = <<>>
      PROVE  owed = <<>>
  <2>1. Len(queue) = 0 /\ owed \in Seq(Msg)
    BY <1>1 DEF Inv, TypeOK, Msg
  <2>2. PICK k, s, n : Track(k, s, n, queue, owed)
    BY <1>1 DEF Inv, Yields, Ends
  <2>3. Len(owed) = 0
    BY <2>1, <2>2 DEF Track
  <2>. QED  BY <2>1, <2>3, EmptySeq
<1>2. Inv => DrainedMeansSent
  BY <1>1 DEF DrainedMeansSent
<1>. QED  BY <1>2, Invariance, PTL

\* No packet shows the third byte of another message (midi_parser.c:78-101):
\* it is always 0.
THEOREM NoForeignDataEver == Spec => NoForeignData
<1>1. ASSUME Inv, [Next]_vars
      PROVE  [DrainByte /\ frame' # frame =>
                frame'[Len(frame')][4] \in {0, Head(owed)[3]}]_vars
  <2>. SUFFICES ASSUME DrainByte, frame' # frame
                PROVE  frame'[Len(frame')][4] = 0
    OBVIOUS
  <2>1. PICK b \in Byte, c \in Byte :
           frame' = Append(frame, usb_midi_enc(<<b, c, 0>>))
    BY <1>1, DrainByteStep
  <2>2. PICK x \in Seq(Byte) : x = usb_midi_enc(<<b, c, 0>>) /\ x[4] = 0
    BY PacketOf
  <2>3. frame \in Seq(Seq(Byte))
    BY <1>1 DEF Inv, TypeOK
  <2>4. Len(frame') = Len(frame) + 1 /\ frame'[Len(frame) + 1] = x
    BY <2>1, <2>2, <2>3, AppendProperties
  <2>. QED  BY <2>2, <2>4
<1>. QED  BY <1>1, Invariance, PTL DEF Spec, NoForeignData

-----------------------------------------------------------------------------
(* Messages leave in order.                                                *)

Pending(o) == [i \in 1 .. Len(o) |-> Shown(o[i])]

LEMMA PendingIs ==
  ASSUME NEW o \in Seq(Msg)
  PROVE  /\ Pending(o) \in Seq(Byte \X Byte) /\ Len(Pending(o)) = Len(o)
         /\ \A i \in 1 .. Len(o) : Pending(o)[i] = Shown(o[i])
<1>1. Len(o) \in Nat
  BY LenProperties
<1>2. \A i \in 1 .. Len(o) : Shown(o[i]) \in Byte \X Byte
  <2>. SUFFICES ASSUME NEW i \in 1 .. Len(o)
                PROVE  Shown(o[i]) \in Byte \X Byte
    OBVIOUS
  <2>1. o[i] \in Msg
    BY ElementOfSeq
  <2>. QED  BY <2>1, MsgIs DEF Shown
<1>. QED  BY <1>1, <1>2, IsASeq DEF Pending

LEMMA PendingTail ==
  ASSUME NEW o \in Seq(Msg), o # <<>>
  PROVE  /\ Pending(o) # <<>> /\ Head(Pending(o)) = Shown(o[1])
         /\ Tail(Pending(o)) = Pending(Tail(o))
<1>. DEFINE u == Pending(o)
            v == Pending(Tail(o))
<1>1. /\ Len(o) \in Nat /\ Len(o) >= 1 /\ Tail(o) \in Seq(Msg)
      /\ Len(Tail(o)) = Len(o) - 1
      /\ \A i \in 1 .. Len(Tail(o)) : Tail(o)[i] = o[i + 1]
  BY EmptySeq, LenProperties, HeadTailProperties
<1>2. /\ u \in Seq(Byte \X Byte) /\ Len(u) = Len(o)
      /\ \A i \in 1 .. Len(o) : u[i] = Shown(o[i])
  BY PendingIs
<1>3. /\ v \in Seq(Byte \X Byte) /\ Len(v) = Len(Tail(o))
      /\ \A i \in 1 .. Len(Tail(o)) : v[i] = Shown(Tail(o)[i])
  BY <1>1, PendingIs
<1>. HIDE DEF u, v
<1>4. u # <<>> /\ Head(u) = Shown(o[1])
  <2>1. u # <<>>
    BY <1>1, <1>2, EmptySeq
  <2>2. 1 \in 1 .. Len(o)
    BY <1>1
  <2>3. Head(u) = u[1]
    BY <1>2, <2>1
  <2>. QED  BY <1>2, <2>1, <2>2, <2>3
<1>5. /\ Tail(u) \in Seq(Byte \X Byte) /\ Len(Tail(u)) = Len(o) - 1
      /\ \A i \in 1 .. Len(Tail(u)) : Tail(u)[i] = u[i + 1]
  BY <1>2, <1>4, HeadTailProperties
<1>6. ASSUME NEW i \in 1 .. Len(v)
      PROVE  Tail(u)[i] = v[i]
  <2>1. i \in 1 .. Len(Tail(o)) /\ i + 1 \in 1 .. Len(o) /\ i \in 1 .. Len(Tail(u))
    BY <1>1, <1>3, <1>5
  <2>. QED  BY <1>1, <1>2, <1>3, <1>5, <2>1
<1>7. Tail(u) = v
  <2>1. Len(Tail(u)) = Len(v) /\ \A i \in 1 .. Len(Tail(u)) : Tail(u)[i] = v[i]
    BY <1>1, <1>3, <1>5, <1>6
  <2>. QED  BY <1>3, <1>5, <2>1, SeqEqual
<1>. QED  BY <1>4, <1>7 DEF u, v

LEMMA PendingAppend ==
  ASSUME NEW o \in Seq(Msg), NEW x \in Msg, NEW r, r = Append(o, x)
  PROVE  /\ Len(Pending(r)) >= Len(Pending(o))
         /\ SubSeq(Pending(r), 1, Len(Pending(o))) = Pending(o)
<1>. DEFINE u == Pending(o)
            v == Pending(r)
            n == Len(o)
<1>1. /\ n \in Nat /\ r \in Seq(Msg) /\ Len(r) = n + 1
      /\ \A i \in 1 .. n : r[i] = o[i]
  BY AppendProperties, LenProperties
<1>2. /\ u \in Seq(Byte \X Byte) /\ Len(u) = n
      /\ \A i \in 1 .. n : u[i] = Shown(o[i])
  BY PendingIs
<1>3. /\ v \in Seq(Byte \X Byte) /\ Len(v) = n + 1
      /\ \A i \in 1 .. n + 1 : v[i] = Shown(r[i])
  BY <1>1, PendingIs
<1>. HIDE DEF u, v, n
<1>4. \A i \in 1 .. n : v[i] = u[i] /\ v[i] \in Byte \X Byte
  <2>. SUFFICES ASSUME NEW i \in 1 .. n
                PROVE  v[i] = u[i] /\ v[i] \in Byte \X Byte
    OBVIOUS
  <2>1. i \in 1 .. n + 1
    BY <1>1
  <2>2. v[i] = u[i]
    BY <1>1, <1>2, <1>3, <2>1
  <2>3. v[i] \in Byte \X Byte
    BY <1>3, <2>1, ElementOfSeq
  <2>. QED  BY <2>2, <2>3
<1>5. SubSeq(v, 1, n) = u
  <2>1. CASE n = 0
    <3>1. SubSeq(v, 1, 0) = <<>> /\ u = <<>>
      BY <1>2, <2>1, SubSeqEmpty, EmptySeq
    <3>. QED  BY <2>1, <3>1
  <2>2. CASE n >= 1
    <3>1. /\ SubSeq(v, 1, n) \in Seq(Byte \X Byte)
          /\ Len(SubSeq(v, 1, n)) = IF 1 <= n THEN n - 1 + 1 ELSE 0
          /\ \A i \in 1 .. n - 1 + 1 : SubSeq(v, 1, n)[i] = v[1 + i - 1]
      BY <1>1, <1>4, SubSeqProperties
    <3>2. n - 1 + 1 = n /\ \A i \in 1 .. n : 1 + i - 1 = i
      BY <1>1
    <3>3. Len(SubSeq(v, 1, n)) = n /\ \A i \in 1 .. n : SubSeq(v, 1, n)[i] = u[i]
      BY <1>4, <2>2, <3>1, <3>2
    <3>. QED  BY <1>2, <3>1, <3>3, SeqEqual
  <2>. QED  BY <1>1, <2>1, <2>2
<1>. QED  BY <1>1, <1>2, <1>3, <1>5 DEF u, v, n

LEMMA InitStream == ASSUME Init PROVE Stream!Init
<1>1. owed = <<>> /\ line = <<0, 0>>
  BY DEF Init
<1>2. <<>> \in Seq(Msg) /\ Len(<<>>) = 0
  OBVIOUS
<1>3. Pending(<<>>) = <<>>
  BY <1>2, PendingIs, EmptySeq
<1>4. line \in Byte \X Byte
  BY <1>1 DEF Byte
<1>. QED  BY <1>1, <1>3, <1>4 DEF Stream!Init, Pending

LEMMA NextStream ==
  ASSUME Inv, [Next]_vars
  PROVE  [Stream!Next]_(Stream!vars)
<1>. DEFINE P == [i \in 1 .. Len(owed) |-> Shown(owed[i])]
<1>1. owed \in Seq(Msg) /\ P = Pending(owed) /\ P' = Pending(owed')
  BY DEF Inv, TypeOK, Msg, Pending
<1>2. ASSUME UNCHANGED <<owed, line>>
      PROVE  UNCHANGED Stream!vars
  BY <1>2 DEF Stream!vars
<1>3. CASE \E m \in Message : midi_send_msg(m)
  <2>1. UNCHANGED line
    BY <1>3 DEF midi_send_msg
  <2>2. owed' = owed \/ \E x \in Msg : owed' = Append(owed, x)
    BY <1>3, SendStep
  <2>3. ASSUME NEW x \in Msg, owed' = Append(owed, x)
        PROVE  Stream!Accept
    <3>1. /\ Len(Pending(owed')) >= Len(Pending(owed))
          /\ SubSeq(Pending(owed'), 1, Len(Pending(owed))) = Pending(owed)
      BY <1>1, <2>3, PendingAppend
    <3>. QED  BY <1>1, <2>1, <3>1 DEF Stream!Accept
  <2>. QED  BY <1>2, <2>1, <2>2, <2>3 DEF Stream!Next
<1>4. CASE DrainByte
  <2>1. \/ UNCHANGED <<frame, line, owed>>
        \/ /\ owed # <<>> /\ owed' = Tail(owed)
           /\ line' = Shown(owed[1])
    BY <1>4, DrainByteStep
  <2>2. CASE owed # <<>> /\ owed' = Tail(owed) /\ line' = Shown(owed[1])
    <3>1. /\ Pending(owed) # <<>> /\ Head(Pending(owed)) = Shown(owed[1])
          /\ Tail(Pending(owed)) = Pending(owed')
      BY <1>1, <2>2, PendingTail
    <3>2. Stream!Emit
      BY <1>1, <2>2, <3>1 DEF Stream!Emit
    <3>. QED  BY <3>2 DEF Stream!Next
  <2>. QED  BY <1>2, <2>1, <2>2
<1>5. CASE \/ \E r \in RuleInput : router_set_rule(r)
           \/ DrainStart \/ DrainSend \/ \E s \in Sysex : SysexStart(s)
           \/ SysexStep \/ TransferDone \/ Configured \/ Resumed \/ Gone
  BY <1>2, <1>5, OtherStep
<1>6. CASE UNCHANGED vars
  BY <1>2, <1>6 DEF vars
<1>. QED
  BY <1>3, <1>4, <1>5, <1>6 DEF Next, Drain

\* The messages of which enough was queued leave the second parser once and in
\* order, with their status and first data byte, however a full ring cut them
\* (usb_midi_bridge.c:125, 153-162).
THEOREM TransmitsInOrder == Spec => ImplementsStream
<1>1. ImplementsStream <=> Stream!Init /\ [][Stream!Next]_(Stream!vars)
  BY DEF ImplementsStream, Stream!Spec
<1>. QED  BY <1>1, InitStream, NextStream, Invariance, PTL DEF Spec

-----------------------------------------------------------------------------
(* What the assumption about Message rests on: the makers of midi_api.c.   *)
(* Arithmetic with large literals is kept in lemmas of its own.            *)

\* The arguments of midi_api.c: uint8_t, and uint16_t for a pitch bend, which
\* MIDI sends as 14 bits, the centre added.
Uint8 == 0 .. 255
Uint16 == 0 .. 65535
Uint14 == 0 .. 16383
Bend == -8192 .. 8191
Word == 65536
Centre == 8192

LEMMA Low7 == \A x \in Nat : x % 128 \in 0 .. 127
OBVIOUS

LEMMA Low4 == \A x \in Nat : x % 16 \in 0 .. 15
OBVIOUS

LEMMA Remainder == \A x \in Int : x % Word \in Nat
BY SMT DEF Word

LEMMA High == \A x \in Nat : x \div 128 \in Nat
OBVIOUS

LEMMA LowOfSmall == \A x \in 0 .. 127 : x % 128 = x
OBVIOUS

LEMMA Halves ==
  \A x \in Uint14 : (x % 128) + 128 * (x \div 128) = x /\ x \div 128 \in 0 .. 127
<1>1. TAKE x \in Uint14
<1>. DEFINE hi == x \div 128
<1>2. x \in Int /\ x <= 16383
  BY SMT DEF Uint14
<1>3. (x % 128) + 128 * hi = x /\ hi \in Nat /\ x % 128 \in 0 .. 127
  BY SMT DEF Uint14
<1>. HIDE DEF hi
<1>. DEFINE lo == x % 128
<1>. HIDE DEF lo
<1>4. lo + 128 * hi = x /\ lo \in 0 .. 127
  BY <1>3, Zenon DEF lo
<1>5. hi \in 0 .. 127
  BY <1>2, <1>3, <1>4, SMT
<1>. QED  BY <1>3, <1>5, Zenon DEF hi

LEMMA Centred ==
  \A v \in Bend : v + Centre \in Uint14 /\ ((v % Word) + Centre) % Word = v + Centre
<1>1. ASSUME NEW v \in Bend
      PROVE  v \in Int /\ v + Centre \in Uint14
  BY SMT DEF Centre, Bend, Uint14
<1>2. \A v \in Int : ((v % Word) + Centre) % Word = (v + Centre) % Word
  BY SMT DEF Word, Centre
<1>3. \A x \in Uint14 : x % Word = x
  BY SMT DEF Word, Uint14
<1>. QED  BY <1>1, <1>2, <1>3, Zenon

LEMMA CentreIs == Centre \in Int
BY SMT DEF Centre

LEMMA PitchbendIs ==
  \A ch, value : midi_send_pitchbend(ch, value)
     = LET raw == (value + Centre) % Word
       IN  <<224 + (ch % 16), raw % 128, (raw \div 128) % 128>>
BY SMT DEF midi_send_pitchbend, Word, Centre

\* Whatever an application passes, what it sends is a channel or real-time
\* message with 7-bit data: no argument reaches the status byte or makes a data
\* byte look like one (midi_api.c:14-89).
THEOREM SendsMessages ==
  LET All == ChannelStatus \X Data \X Data
  IN  /\ \A ch, x, y \in Uint8 : /\ midi_send_note_on(ch, x, y) \in All
                                /\ midi_send_note_off(ch, x) \in All
                                /\ midi_send_cc(ch, x, y) \in All
                                /\ midi_send_all_notes_off(ch) \in All
                                /\ midi_send_pc(ch, x) \in All
      /\ \A ch \in Uint8, v \in Uint16 : midi_send_pitchbend(ch, v) \in All
      /\ {midi_send_start, midi_send_continue, midi_send_stop} \subseteq All
<1>. DEFINE All == ChannelStatus \X Data \X Data
<1>1. \A s \in ChannelStatus, x \in Data, y \in Data : <<s, x, y>> \in All
  OBVIOUS
<1>. HIDE DEF All
<1>2. ASSUME NEW c \in 0 .. 15
      PROVE  /\ 144 + c \in ChannelStatus
             /\ 128 + c \in ChannelStatus
             /\ 176 + c \in ChannelStatus
             /\ 192 + c \in ChannelStatus
             /\ 224 + c \in ChannelStatus
  BY DEF ChannelStatus
<1>3. 0 \in Data /\ 123 \in Data /\ 123 % 128 = 123 /\ 0 % 128 = 0
  BY DEF Data
<1>4. \A x \in Nat : x % 128 \in Data
  BY Low7 DEF Data
<1>5. Uint8 \subseteq Nat /\ Uint16 \subseteq Int
  BY DEF Uint8, Uint16
<1>6. ASSUME NEW ch \in Uint8, NEW x \in Uint8, NEW y \in Uint8
      PROVE  /\ midi_send_note_on(ch, x, y) \in All
             /\ midi_send_note_off(ch, x) \in All
             /\ midi_send_cc(ch, x, y) \in All
             /\ midi_send_all_notes_off(ch) \in All
             /\ midi_send_pc(ch, x) \in All
  <2>1. PICK c \in 0 .. 15 : c = ch % 16
    BY <1>5, Low4
  <2>2. PICK d \in Data : d = x % 128
    BY <1>4, <1>5
  <2>3. PICK e \in Data : e = y % 128
    BY <1>4, <1>5
  <2>4. midi_send_note_on(ch, x, y) = <<144 + c, d, e>>
    BY <2>1, <2>2, <2>3 DEF midi_send_note_on
  <2>5. midi_send_note_off(ch, x) = <<128 + c, d, 0>>
    BY <2>1, <2>2 DEF midi_send_note_off
  <2>6. midi_send_cc(ch, x, y) = <<176 + c, d, e>>
    BY <2>1, <2>2, <2>3 DEF midi_send_cc
  <2>7. midi_send_pc(ch, x) = <<192 + c, d, 0>>
    BY <2>1, <2>2 DEF midi_send_pc
  <2>8. midi_send_all_notes_off(ch) = <<176 + c, 123, 0>>
    BY <1>3, <2>1 DEF midi_send_all_notes_off, midi_send_cc
  <2>. QED  BY <1>1, <1>2, <1>3, <2>4, <2>5, <2>6, <2>7, <2>8
<1>7. ASSUME NEW ch \in Uint8, NEW v \in Uint16
      PROVE  midi_send_pitchbend(ch, v) \in All
  <2>. DEFINE raw == (v + Centre) % Word
  <2>1. midi_send_pitchbend(ch, v) = <<224 + (ch % 16), raw % 128, (raw \div 128) % 128>>
    BY PitchbendIs, Zenon
  <2>2. v + Centre \in Int
    BY <1>5, CentreIs, SMT
  <2>3. raw \in Nat
    BY <2>2, Remainder, Zenon
  <2>. HIDE DEF raw
  <2>4. raw % 128 \in Data /\ (raw \div 128) % 128 \in Data
    BY <1>4, <2>3, High, Zenon
  <2>5. PICK c \in 0 .. 15 : c = ch % 16
    BY <1>5, Low4, Zenon
  <2>6. 224 + (ch % 16) \in ChannelStatus
    BY <1>2, <2>5, Zenon
  <2>. QED  BY <1>1, <2>1, <2>4, <2>6
<1>8. midi_send_start \in All /\ midi_send_continue \in All /\ midi_send_stop \in All
  <2>1. 250 \in ChannelStatus /\ 251 \in ChannelStatus /\ 252 \in ChannelStatus
    BY DEF ChannelStatus
  <2>2. <<250, 0, 0>> \in All /\ <<251, 0, 0>> \in All /\ <<252, 0, 0>> \in All
    BY <1>1, <1>3, <2>1
  <2>. QED  BY <2>2 DEF midi_send_start, midi_send_continue, midi_send_stop
<1>. QED  BY <1>6, <1>7, <1>8 DEF All

\* A signed bend within the range of MIDI is sent exactly, although
\* midi_send_pitchbend takes it as uint16_t (v % Word): the two data bytes are the
\* bend from the centre, low seven bits first (midi_api.c:54-63).
THEOREM PitchbendExact ==
  ASSUME NEW ch \in Uint8, NEW v \in Bend
  PROVE  LET m == midi_send_pitchbend(ch, v % Word)
         IN  m[2] + 128 * m[3] = v + Centre
<1>. DEFINE raw == v + Centre
            lo == raw % 128
            hi == raw \div 128
            m  == midi_send_pitchbend(ch, v % Word)
<1>1. raw \in Uint14 /\ ((v % Word) + Centre) % Word = raw
  BY Centred, Zenon
<1>2. m = <<224 + (ch % 16), lo, hi % 128>>
  BY <1>1, PitchbendIs, Zenon
<1>. HIDE DEF raw, m
<1>3. hi \in 0 .. 127 /\ lo + 128 * hi = raw
  BY <1>1, Halves, Zenon
<1>. HIDE DEF lo, hi
<1>4. hi % 128 = hi
  BY <1>3, LowOfSmall, Zenon
<1>5. m = <<224 + (ch % 16), lo, hi>>
  BY <1>2, <1>4, Zenon
<1>6. m[2] = lo /\ m[3] = hi
  BY <1>5
<1>7. m[2] + 128 * m[3] = raw
  BY <1>3, <1>6, Zenon
<1>. QED  BY <1>7, Zenon DEF raw, m

\* No rule selects a message outside ChannelStatus but SysEx: aftertouch and
\* system common messages are forwarded by none, MASK_ALL included
\* (midi_router.c:53-71).
THEOREM OnlyMaskedStatusesRouted ==
  ASSUME NEW m \in Byte \X Byte \X Byte, NEW r \in Rule, msg_matches(m, r)
  PROVE  m[1] \in ChannelStatus \cup {240}
<1>1. m[1] \in Byte
  BY MsgIs DEF Msg
<1>2. TypeBit(m[1]) # "none"
  <2>1. r.msg_mask \subseteq MaskBit
    BY DEF Rule
  <2>2. TypeBit(m[1]) \in MaskBit
    BY <2>1 DEF msg_matches
  <2>. QED  BY <2>2 DEF MaskBit
<1>3. ASSUME NEW b \in Byte, b \notin ChannelStatus \cup {240}
      PROVE  TypeBit(b) = "none"
  <2>1. /\ b \notin 128 .. 159 /\ b \notin 176 .. 191 /\ b \notin 192 .. 207
        /\ b \notin 224 .. 239 /\ b # 240 /\ b \notin 248 .. 255
    BY <1>3 DEF ChannelStatus
  <2>. QED  BY <2>1 DEF TypeBit
<1>. QED  BY <1>1, <1>2, <1>3
=============================================================================
