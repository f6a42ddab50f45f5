---------------------------- MODULE SysexRouter ----------------------------
(***************************************************************************)
(* SysEx reception: router_poll_all (Middleware/midi_router.c) and the     *)
(* assembler it feeds (Middleware/sysex_assembler.c), one context a port.  *)
(*                                                                         *)
(* A poll reads the tick once and then, port after port, feeds each byte   *)
(* that the port's poll returned to the port's assembler; the tick goes on *)
(* meanwhile.  A complete message goes to the application and, by the      *)
(* rules, to the other ports.  router_set_rule is called between polls.    *)
(***************************************************************************)
EXTENDS Integers, Sequences

CONSTANTS
  NPorts,     (* PORT_COUNT, 3                                             *)
  Registered, (* the ports that have poll and send functions: USB and UART *)
  RuleInput,  (* the rules router_set_rule is called with                  *)
  Data,       (* the data bytes, below 80 hex                              *)
  MaxLen,     (* SX_MAX_LEN, 512                                           *)
  Timeout,    (* SX_TIMEOUT, 300                                           *)
  Wrap        (* the tick counts modulo Wrap: 2^32                         *)

Port == 0 .. NPorts - 1

Rule == [enabled : BOOLEAN, sx : BOOLEAN]

Status == {"F0", "F7", "status", "realtime"}

ASSUME SysexAssumption ==
  /\ NPorts \in Nat
  /\ Registered \subseteq Port
  /\ RuleInput \subseteq Rule
  /\ Data \cap Status = {}
  /\ MaxLen \in Nat /\ MaxLen >= 2
  /\ Timeout \in Nat
  /\ Wrap \in Nat /\ Wrap > Timeout + 1

(* The bytes, by what sx_feed tells apart: F0, F7, any other status below  *)
(* F8, a real-time status (F8 and above), the data bytes.                  *)
Byte == Status \cup Data

VARIABLES
  tick,      (* the millisecond counter of the SysTick interrupt           *)
  now,       (* the tick as router_poll_all read it                        *)
  port,      (* the port being polled; NPorts between polls                *)
  ctx,       (* s_sx_ctx                                                   *)
  rules,     (* s_rules, as far as they are about SysEx: for each source   *)
             (* and destination, is it enabled, is MASK_SX in msg_mask     *)
  last,      (* the last message handed to s_sx_cb, and where it went      *)
  hist,      (* of each port: what arrived on it since its last F0, see    *)
             (* Record; like since, only to state the properties with      *)
  since      (* milliseconds since the last poll began                     *)

vars == <<tick, now, port, ctx, rules, last, hist, since>>


NoMessage == [from |-> NPorts, buf |-> <<>>, to |-> {}]

TypeOK ==
  /\ tick \in 0 .. Wrap - 1
  /\ now \in 0 .. Wrap - 1
  /\ port \in 0 .. NPorts
  /\ ctx \in [Port -> [state : {"SX_IDLE", "SX_RECEIVING"},
                       buf : Seq(Byte), timestamp : 0 .. Wrap - 1]]
  /\ \A p \in Port : Len(ctx[p].buf) <= MaxLen
  /\ rules \in [Port \X Port -> Rule]
  /\ last.from \in Port \cup {NPorts} /\ last.to \subseteq Port

\* router_init: USB (0) and UART (1) are connected both ways, all types.
\* The assembler contexts are zeroed statics: SX_IDLE.
Init ==
  /\ tick = 0 /\ now = 0 /\ port = NPorts
  /\ ctx = [p \in Port |-> [state |-> "SX_IDLE", buf |-> <<>>, timestamp |-> 0]]
  /\ rules = [r \in Port \X Port |->
                LET on == r \in {<<0, 1>>, <<1, 0>>}
                IN  [enabled |-> on, sx |-> on]]
  /\ last = NoMessage
  /\ hist = [p \in Port |-> [bytes |-> <<>>, idle |-> TRUE, late |-> FALSE,
                             age |-> 0]]
  /\ since = 0

-----------------------------------------------------------------------------
(* sx_feed, and the sx_reset that router_poll_all calls after SX_COMPLETE, *)
(* SX_ERR_TIMEOUT and SX_ERR_OVERFLOW: those states do not outlive the     *)
(* byte that caused them.                                                  *)

\* The old length and timestamp are dead: F0 overwrites both.
Idle(c) == [state |-> "SX_IDLE", buf |-> <<>>, timestamp |-> 0]

\* Mutant: the message in the buffer never gets too old.
Expired_Never(c) == FALSE

\* 32-bit subtraction.
Expired(c) == (now - c.timestamp) % Wrap > Timeout

Started(c, b) == [state |-> "SX_RECEIVING", buf |-> <<b>>, timestamp |-> now]

\* Mutants: the buffer may overflow; a data byte does not restart the timeout.
Extended_Unbounded(c, b) == [c EXCEPT !.buf = Append(@, b), !.timestamp = now]

Extended_NoRefresh(c, b) ==
  IF Len(c.buf) < MaxLen THEN [c EXCEPT !.buf = Append(@, b)] ELSE Idle(c)

Extended(c, b) ==
  IF Len(c.buf) < MaxLen
  THEN [c EXCEPT !.buf = Append(@, b), !.timestamp = now]
  ELSE Idle(c)                                       \* SX_ERR_OVERFLOW

Completes(c, b) == c.state = "SX_RECEIVING" /\ ~Expired(c) /\ b = "F7"

\* The message a completing F7 makes of the buffer.
Message(c) == IF Len(c.buf) < MaxLen THEN Append(c.buf, "F7") ELSE c.buf

sx_feed(c, b) ==
  CASE c.state = "SX_IDLE" -> IF b = "F0" THEN Started(c, b) ELSE c
    [] c.state = "SX_RECEIVING" /\ Expired(c) -> Idle(c)
    [] Completes(c, b) -> Idle(c)
    [] c.state = "SX_RECEIVING" /\ ~Expired(c) /\ b = "realtime" -> c
    [] c.state = "SX_RECEIVING" /\ ~Expired(c) /\ b \in {"F0", "status"} ->
         Idle(c)
    [] c.state = "SX_RECEIVING" /\ ~Expired(c) /\ b \in Data -> Extended(c, b)

\* Lines 119-126.  `!s_rules[i][dst].msg_mask & MASK_SX' negates first, and
\* 0 or 1 has no bit in common with MASK_SX: the rule's mask excludes nothing.
Destinations(p) ==
  {dst \in Registered \ {p} : rules[<<p, dst>>].enabled}

-----------------------------------------------------------------------------
(* What is recorded of the bytes themselves, without the real-time ones:   *)
(* an F0, the data bytes after it and the F7 that ends them, forgotten at  *)
(* any other byte and when there are more than fit; whether the assembler  *)
(* was idle when that F0 came; how long before the running poll the last   *)
(* F0 or data byte came, and whether any byte came later than Timeout      *)
(* after the one before.                                                   *)

\* The F0 and data bytes that follow it, nothing else.
Clean(bytes) ==
  /\ bytes # <<>>
  /\ bytes[1] = "F0"
  /\ \A i \in 2 .. Len(bytes) : bytes[i] \in Data

Nothing == [bytes |-> <<>>, idle |-> TRUE, late |-> FALSE, age |-> 0]

Record(p, b) ==
  LET h == hist[p]
      late == h.late \/ h.age > Timeout
  IN CASE b = "F0" ->
            [Nothing EXCEPT !.bytes = <<b>>, !.idle = ctx[p].state = "SX_IDLE"]
       [] b = "realtime" -> [h EXCEPT !.late = late]
       [] b \in Data /\ Clean(h.bytes) /\ Len(h.bytes) < MaxLen ->
            [h EXCEPT !.bytes = Append(@, b), !.late = late, !.age = 0]
       [] b = "F7" /\ Clean(h.bytes) ->
            [h EXCEPT !.bytes = Append(@, b), !.late = late]
       [] OTHER -> Nothing

Older(h) ==
  IF h.bytes = <<>> THEN h
  ELSE [h EXCEPT !.age = IF @ + since < Wrap THEN @ + since ELSE Wrap]

\* Bound: no poll, and no silence within a message, lasts 2^32 ms; the tick
\* would come round and the silence would look short.
NoLongSilence ==
  /\ since < Wrap - 1
  /\ \A p \in Port :
       ctx[p].state = "SX_RECEIVING" => hist[p].age + since < Wrap - 1

-----------------------------------------------------------------------------
SysTick_Handler ==
  /\ NoLongSilence
  /\ tick' = (tick + 1) % Wrap
  /\ since' = since + 1
  /\ UNCHANGED <<now, port, ctx, rules, last, hist>>

\* router_poll_all, lines 101-104.
PollStart ==
  /\ port = NPorts
  /\ port' = 0
  /\ now' = tick
  /\ hist' = [p \in Port |-> Older(hist[p])]
  /\ since' = 0
  /\ UNCHANGED <<tick, ctx, rules, last>>

\* Lines 112-132, for one byte of the polled port.
PollByte(b) ==
  /\ port \in Registered
  /\ ctx' = [ctx EXCEPT ![port] = sx_feed(@, b)]
  /\ last' = IF Completes(ctx[port], b)
             THEN [from |-> port, buf |-> Message(ctx[port]),
                   to |-> Destinations(port)]
             ELSE NoMessage
  /\ hist' = [hist EXCEPT ![port] = Record(port, b)]
  /\ UNCHANGED <<tick, now, port, rules, since>>

\* Nothing is left of what this port's poll returned, or it has no poll.
PollNext ==
  /\ port < NPorts
  /\ port' = port + 1
  /\ last' = NoMessage
  /\ UNCHANGED <<tick, now, ctx, rules, hist, since>>

\* Called by the application, between polls.
router_set_rule(src, dst, rule) ==
  /\ port = NPorts
  /\ rules' = [rules EXCEPT ![<<src, dst>>] = rule]
  /\ UNCHANGED <<tick, now, port, ctx, last, hist, since>>

Next ==
  \/ SysTick_Handler
  \/ PollStart
  \/ \E b \in Byte : PollByte(b)
  \/ PollNext
  \/ \E src \in Registered : \E dst \in Registered \ {src} :
       \E rule \in RuleInput : router_set_rule(src, dst, rule)

Spec == Init /\ [][Next]_vars

-----------------------------------------------------------------------------
(* Properties.                                                             *)

\* What the application is given is what arrived on that port from an F0 to
\* the next F7, in time and without gap, cut at SX_MAX_LEN bytes: nothing of
\* another port, of an aborted or of a timed out message is in it
\* (sysex_assembler.c:19-69, midi_router.c:109-133).
DeliveredAsReceived ==
  last.from # NPorts =>
    LET h == hist[last.from]
        n == Len(h.bytes)
    IN  /\ n > 0 /\ ~h.late
        /\ h.bytes[n] = "F7" /\ Clean(SubSeq(h.bytes, 1, n - 1))
        /\ last.buf = SubSeq(h.bytes, 1, IF n < MaxLen THEN n ELSE MaxLen)

\* A message in time that fits the buffer, F0 and data bytes, mixed with
\* any real-time bytes.
Whole(h) == Clean(h.bytes) /\ Len(h.bytes) <= MaxLen /\ ~h.late /\ h.age <= Timeout

\* Its F7 delivers it, if its F0 found the assembler idle.
CleanStartIsDelivered ==
  [][PollByte("F7") /\ hist[port].idle /\ Whole(hist[port])
     => last'.from = port]_vars
=============================================================================
