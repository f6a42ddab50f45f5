------------------------------- MODULE UartRx -------------------------------
(***************************************************************************)
(* Reception from DIN: a circular DMA channel writes the bytes of the UART *)
(* into s_rx_buf and never looks back; uart_port_poll of                   *)
(* Application/uart_midi_bridge.c takes them out through rx_available and  *)
(* rx_read of Driver/bsp_uart_midi.c.  The only thing the reader ever      *)
(* learns of the writer is the channel's count register.  (s_rx_head is    *)
(* written just before it is used: the handler that would also write it is *)
(* in no vector, Startup.)                                                 *)
(***************************************************************************)
EXTENDS Integers, Sequences

CONSTANTS
  Size,     (* UART_RX_BUF_SIZE, 256                                       *)
  Byte,     (* the values a byte can take                                  *)
  MaxOut,   (* the poll buffer of router_poll_all, 64                      *)
  MaxUnread (* bound: so many bytes arrive without being read or missed    *)

ASSUME UartRxAssumption ==
  /\ Size \in {2, 4, 8, 16, 32, 64, 128, 256, 512, 1024, 2048, 4096, 8192,
               16384, 32768}
  /\ Byte # {}
  /\ MaxOut \in Nat
  /\ MaxUnread \in Nat

VARIABLES
  buf,     (* s_rx_buf                                                     *)
  count,   (* the channel's count register: bytes to the end of the buffer *)
  tail,    (* s_rx_tail                                                    *)
  poll,    (* uart_port_poll: does it run, its avail and n                 *)
  line,    (* the byte rx_read returned last                               *)
  unread,  (* what has arrived and was neither read nor missed: a history  *)
           (* variable, like                                               *)
  burst    (* how many bytes arrived since rx_available, up to 2           *)

vars == <<buf, count, tail, poll, line, unread, burst>>

Index == 0 .. Size - 1

TypeOK ==
  /\ buf \in [Index -> Byte]
  /\ count \in 1 .. Size
  /\ tail \in Index
  /\ poll \in [running : BOOLEAN, avail : Index, n : Index]
  /\ poll.n <= poll.avail /\ poll.n <= MaxOut
  /\ line \in Byte
  /\ unread \in Seq(Byte)
  /\ burst \in 0 .. 2

\* bsp_uart_midi_init: the channel runs, from the start of the buffer, which is
\* static: one and the same byte, whichever of Byte is 0, everywhere.
Init ==
  /\ \E zero \in Byte : buf = [i \in Index |-> zero] /\ line = zero
  /\ count = Size
  /\ tail = 0
  /\ poll = [running |-> FALSE, avail |-> 0, n |-> 0]
  /\ unread = <<>>
  /\ burst = 0

-----------------------------------------------------------------------------
(* The channel: at any moment, whatever the main loop does.                *)

\* Mutant: the channel stops at the end of the buffer, as without
\* dma_circulation_enable.
Reload_Never(c) == IF c = 1 THEN 1 ELSE c - 1

Reload(c) == IF c = 1 THEN Size ELSE c - 1

DmaStore(b) ==
  /\ Len(unread) < MaxUnread
  /\ buf' = [buf EXCEPT ![Size - count] = b]
  /\ count' = Reload(count)
  /\ unread' = Append(unread, b)
  /\ burst' = IF burst < 2 THEN burst + 1 ELSE 2
  /\ UNCHANGED <<tail, poll, line>>

-----------------------------------------------------------------------------
(* The main loop.                                                          *)

\* Mutant: the difference is not taken around the end of the buffer.
rx_available_NoWrap ==
  LET head == Size - count IN IF head >= tail THEN head - tail ELSE 0

rx_available == ((Size - count) - tail) % Size

\* Of Size unread bytes or more the oldest are lost, whole buffers of them.
Seen == SubSeq(unread, Len(unread) - (Len(unread) % Size) + 1, Len(unread))

\* uart_port_poll, line 19.
PollCall ==
  /\ ~poll.running
  /\ poll' = [running |-> TRUE, avail |-> rx_available, n |-> 0]
  /\ unread' = Seen
  /\ burst' = 0
  /\ UNCHANGED <<buf, count, tail, line>>

\* Mutants of rx_read: the index stays at the last slot; one byte more than
\* the poll buffer holds is read.
rx_read_Stuck ==
  /\ poll.running
  /\ poll.n < MaxOut /\ poll.n < poll.avail
  /\ line' = buf[tail]
  /\ tail' = IF tail = Size - 1 THEN tail ELSE tail + 1
  /\ poll' = [poll EXCEPT !.n = @ + 1]
  /\ unread' = SubSeq(unread, 2, Len(unread))
  /\ UNCHANGED <<buf, count, burst>>

rx_read_Limit ==
  /\ poll.running
  /\ poll.n <= MaxOut /\ poll.n < poll.avail
  /\ line' = buf[tail]
  /\ tail' = (tail + 1) % Size
  /\ poll' = [poll EXCEPT !.n = @ + 1]
  /\ unread' = SubSeq(unread, 2, Len(unread))
  /\ UNCHANGED <<buf, count, burst>>

\* The loop of uart_port_poll, with rx_read.
rx_read ==
  /\ poll.running
  /\ poll.n < MaxOut /\ poll.n < poll.avail
  /\ line' = buf[tail]
  /\ tail' = (tail + 1) % Size
  /\ poll' = [poll EXCEPT !.n = @ + 1]
  /\ unread' = SubSeq(unread, 2, Len(unread))
  /\ UNCHANGED <<buf, count, burst>>

PollReturn ==
  /\ poll.running
  /\ poll.n = MaxOut \/ poll.n = poll.avail
  /\ poll' = [running |-> FALSE, avail |-> 0, n |-> 0]
  /\ UNCHANGED <<buf, count, tail, line, unread, burst>>

-----------------------------------------------------------------------------
Main == PollCall \/ rx_read \/ PollReturn

Next == Main \/ \E b \in Byte : DmaStore(b)

Spec == Init /\ [][Next]_vars

\* The main loop polls again and again; nothing obliges a byte to arrive.
FairSpec == Spec /\ WF_vars(Main)

-----------------------------------------------------------------------------
(* Properties.                                                             *)

Stream == INSTANCE LossyStream WITH pending <- unread, Lap <- Size

\* uart_port_poll delivers what arrived, in order, once and unaltered, unless
\* the channel laps it; and however far it falls behind, it misses only
\* whole buffers and goes on in step (bsp_uart_midi.c:94-105).
ImplementsLossyStream == Stream!Spec

\* What rx_available reported may be read even though the channel goes on
\* writing: if at most one byte arrives in that time, every byte read is the
\* oldest unread one, however full the buffer is and however late the poll
\* comes (uart_midi_bridge.c:19-23).
PromptReadIsExact ==
  [][rx_read /\ burst <= 1 => unread # <<>> /\ line' = Head(unread)]_vars

\* Reading goes on as long as something is unread (main.c:148-153).
ReadingGoesOn == <>[](unread # <<>>) => []<><<rx_read>>_vars
=============================================================================
