----------------------------- MODULE UsbDevice -----------------------------
(***************************************************************************)
(* The USB device: the interrupt handler of the device stack (drv_usbd_int *)
(* and usbd_enum), the MIDI class (usb_midi_class.c) and the main loop's   *)
(* use of it to transmit: usb_bridge_drain_tx for channel messages,        *)
(* usb_port_send for SysEx, both through usb_midi_send.                    *)
(*                                                                         *)
(* The handler runs to completion at any point of the main loop, possibly  *)
(* late, with several causes latched: everything the interrupt side owns   *)
(* is one record dev, and one call of usbd_isr applies the handlers of the *)
(* latched causes to it in the order of the code.                          *)
(***************************************************************************)
EXTENDS Naturals

CONSTANT
  Prompt    (* TRUE: the interrupt is taken before the state of the bus    *)
            (* changes again and before traffic resumes after a wakeup,    *)
            (* and a call of usb_midi_send is over before another request  *)
            (* is made.  FALSE: either may be held off for longer, as by   *)
            (* an erase of flash or by an interrupt that stays latched     *)

ASSUME PromptAssumption == Prompt \in BOOLEAN

VARIABLES
  dev,      (* what the interrupt side reads and writes, see TypeOK        *)
  bus,      (* what the host has made of the bus: "active" or "suspended"  *)
  known,    (* the host has given the device an address since the reset    *)
  pc,       (* where the main loop is                                      *)
  txbuf,    (* s_midi_data.tx_buf: one of two frames, or 0, all zeros      *)
  calm,     (* history: no handler has changed cur_status since the main   *)
            (* loop last found the device configured in usb_midi_tx_ready  *)
  renewed   (* history: this configuration began while usb_midi_send was   *)
            (* between marking tx_buf as busy and starting the transfer    *)

vars == <<dev, bus, known, pc, txbuf, calm, renewed>>

Status == {"DEFAULT", "ADDRESSED", "CONFIGURED", "SUSPENDED"}

\* SET_ADDRESS with a non-zero address, SET_CONFIGURATION(1) and (0).
Request == {"address", "config1", "config0"}

\* The latched causes, in the order in which usbd_isr looks at them: STPF of
\* endpoint 0 and the OUT and IN completions of endpoint 1, then the bits of
\* GINTF.
Cause == {"STPF", "OUT", "IN", "SP", "WKUP", "SOF", "RXFNE", "RST"}

\* The main loop inside usb_midi_send, and all its places.
InCall == {"send", "test", "copy", "mark", "arm"}

MainPC == {"init", "loop", "ready", "busy", "wait", "look"} \cup InCall

TypeOK ==
  /\ dev \in [status : Status,          \* dev.cur_status
              backup : Status,          \* dev.backup_status
              setupc_flag : 0 .. 2,
              req : Request,            \* dev.control.req
              rx_cb : BOOLEAN,          \* s_midi_data.rx_cb is set
              tx_busy : BOOLEAN,        \* s_midi_data.tx_busy
              in : BOOLEAN,             \* IN endpoint: transfer under way
              out : BOOLEAN,            \* OUT endpoint: armed to receive
              active : BOOLEAN,         \* endpoint 1 is active
              fifo : Request \cup {"none"},  \* a SETUP packet to be read
              due : BOOLEAN,            \* its STPF has still to be raised
              intr : SUBSET Cause]
  /\ bus \in {"active", "suspended"}
  /\ known \in BOOLEAN
  /\ pc \in MainPC
  /\ txbuf \in 0 .. 2
  /\ calm \in BOOLEAN
  /\ renewed \in BOOLEAN

\* bsp_usb_init has connected the device; usb_bridge_init is about to run.
Init ==
  /\ dev = [status |-> "DEFAULT", backup |-> "DEFAULT", setupc_flag |-> 0,
            req |-> "config0", rx_cb |-> FALSE, tx_busy |-> FALSE,
            in |-> FALSE, out |-> FALSE, active |-> FALSE,
            fifo |-> "none", due |-> FALSE, intr |-> {}]
  /\ bus = "active"
  /\ known = FALSE
  /\ pc = "init"
  /\ txbuf = 0
  /\ calm = TRUE
  /\ renewed = FALSE

-----------------------------------------------------------------------------
(* The MIDI class.                                                         *)

\* Mutant: tx_busy survives a new configuration.
midi_init_StillBusy(d) ==
  [d EXCEPT !.rx_cb = FALSE, !.active = TRUE, !.out = TRUE]

\* The memset takes the callback with it, and what is in tx_buf: see usbd_isr.
midi_init(d) ==
  [d EXCEPT !.rx_cb = FALSE, !.tx_busy = FALSE, !.active = TRUE, !.out = TRUE]

midi_deinit(d) ==
  [d EXCEPT !.active = FALSE, !.in = FALSE, !.out = FALSE, !.tx_busy = FALSE]

\* Mutant: tx_busy is not cleared.
midi_in_StillBusy(d) == d

midi_in(d) == [d EXCEPT !.tx_busy = FALSE]

\* Mutant: the OUT endpoint is not armed again.
midi_out_NotRearmed(d) == d

\* The callback, if any, copies the data to g_usb_rx; then re-arm.
midi_out(d) == [d EXCEPT !.out = TRUE]

-----------------------------------------------------------------------------
(* Standard requests.                                                      *)

_usb_std_setaddress(d) ==
  IF d.status = "CONFIGURED" THEN d ELSE [d EXCEPT !.status = "ADDRESSED"]

\* Mutant: setting the current configuration again initialises the class.
setconfiguration_Again(d, config) ==
  CASE d.status \in {"ADDRESSED", "CONFIGURED"} /\ config = 1 ->
         [midi_init(d) EXCEPT !.status = "CONFIGURED"]
    [] d.status = "CONFIGURED" /\ config = 0 ->
         [midi_deinit(d) EXCEPT !.status = "ADDRESSED"]
    [] OTHER -> d

_usb_std_setconfiguration(d, config) ==
  CASE d.status = "ADDRESSED" /\ config = 1 ->
         [midi_init(d) EXCEPT !.status = "CONFIGURED"]
    [] d.status = "CONFIGURED" /\ config = 0 ->
         [midi_deinit(d) EXCEPT !.status = "ADDRESSED"]
    [] OTHER -> d

usbd_setup_transc(d) ==
  CASE d.req = "address" -> _usb_std_setaddress(d)
    [] d.req = "config1" -> _usb_std_setconfiguration(d, 1)
    [] d.req = "config0" -> _usb_std_setconfiguration(d, 0)

-----------------------------------------------------------------------------
(* The handlers usbd_isr calls, each on what the ones before it left.      *)

usbd_out_transc(d) == IF d.status = "CONFIGURED" THEN midi_out(d) ELSE d

usbd_in_transc(d) == IF d.status = "CONFIGURED" THEN midi_in(d) ELSE d

\* Endpoint 0 comes first.  The end of a SETUP phase is acknowledged only if
\* its request has not been executed yet.
usbd_int_epout(d) ==
  LET ep0 == IF "STPF" \in d.intr /\ d.setupc_flag # 0
             THEN [usbd_setup_transc(d) EXCEPT !.setupc_flag = 0,
                                               !.intr = @ \ {"STPF"}]
             ELSE d
  IN  IF "OUT" \in d.intr THEN usbd_out_transc(ep0) ELSE ep0

usbd_int_epin(d) == IF "IN" \in d.intr THEN usbd_in_transc(d) ELSE d

usbd_int_suspend(d) ==
  IF "SP" \in d.intr
  THEN [d EXCEPT !.backup = d.status, !.status = "SUSPENDED"]
  ELSE d

\* usbd_isr, lines 89-97.
Wakeup(d) ==
  IF "WKUP" \in d.intr /\ d.status = "SUSPENDED"
  THEN [d EXCEPT !.status = d.backup]
  ELSE d

\* Mutant: the frames are counted on after the request has been executed.
StartOfFrame_NoReset(d) ==
  IF "SOF" \in d.intr /\ d.setupc_flag # 0
  THEN [d EXCEPT !.setupc_flag = @ + 1]
  ELSE d

\* usbd_isr, lines 100-117: a request whose SETUP phase does not finish is
\* executed at the second start of frame.
StartOfFrame(d) ==
  CASE "SOF" \in d.intr /\ d.setupc_flag = 1 -> [d EXCEPT !.setupc_flag = 2]
    [] "SOF" \in d.intr /\ d.setupc_flag = 2 ->
         [usbd_setup_transc(d) EXCEPT !.setupc_flag = 0]
    [] OTHER -> d

usbd_int_rxfifo(d) ==
  IF "RXFNE" \in d.intr
  THEN [d EXCEPT !.req = d.fifo, !.setupc_flag = 1,
                 !.fifo = "none", !.due = TRUE]
  ELSE d

\* Clears the latched endpoint interrupts and disables endpoint 1's, but
\* calls nothing of the class and leaves setupc_flag alone.
usbd_int_reset(d) ==
  IF "RST" \in d.intr
  THEN [d EXCEPT !.status = "DEFAULT", !.active = FALSE, !.in = FALSE,
                 !.out = FALSE, !.due = FALSE, !.intr = @ \ {"STPF"}]
  ELSE d

\* Endpoint 1 becomes active where midi_init is called, and nowhere else.
Began(d) == d.active /\ ~dev.active

\* Every cause is cleared by its handler, but STPF may stay.
usbd_isr ==
  /\ dev.intr # {}
  /\ LET r == usbd_int_rxfifo(StartOfFrame(Wakeup(
                usbd_int_suspend(usbd_int_epin(usbd_int_epout(dev))))))
         d == usbd_int_reset(r)
     IN  /\ dev' = [d EXCEPT !.intr = @ \cap {"STPF"}]
         /\ calm' = (calm /\ d.status = dev.status)
         /\ txbuf' = IF Began(r) THEN 0 ELSE txbuf
         /\ renewed' = IF Began(r) THEN pc = "arm" ELSE renewed
  /\ UNCHANGED <<bus, known, pc>>

-----------------------------------------------------------------------------
(* The main loop.  It takes no lock and masks no interrupt.                *)

usb_bridge_init ==
  /\ pc = "init"
  /\ dev' = [dev EXCEPT !.rx_cb = TRUE]
  /\ pc' = "loop"
  /\ UNCHANGED <<bus, known, txbuf, calm, renewed>>

\* usb_bridge_drain_tx, line 138.
DrainConfigured ==
  /\ pc = "loop"
  /\ dev.status = "CONFIGURED"
  /\ pc' = "ready"
  /\ UNCHANGED <<dev, bus, known, txbuf, calm, renewed>>

\* usb_midi_tx_ready, line 174: a device that is not configured is not ready.
DrainReady ==
  /\ pc = "ready"
  /\ IF dev.status = "CONFIGURED"
     THEN pc' = "busy" /\ calm' = TRUE
     ELSE pc' = "loop" /\ UNCHANGED calm
  /\ UNCHANGED <<dev, bus, known, txbuf, renewed>>

\* Mutant: the device's state is tested, but not tx_busy.
DrainBusy_NotTested ==
  /\ pc = "busy"
  /\ pc' = "send"
  /\ UNCHANGED <<dev, bus, known, txbuf, calm, renewed>>

\* Line 175, and if the device is ready a frame is taken out of g_usb_tx
\* (usb_bridge_drain_tx, lines 139-164).
DrainBusy ==
  /\ pc = "busy"
  /\ pc' = IF dev.tx_busy THEN "loop" ELSE "send"
  /\ UNCHANGED <<dev, bus, known, txbuf, calm, renewed>>

\* The SysEx branch of usb_port_send, line 100.
SysexConfigured ==
  /\ pc = "loop"
  /\ dev.status = "CONFIGURED"
  /\ pc' = "wait"
  /\ UNCHANGED <<dev, bus, known, txbuf, calm, renewed>>

\* Lines 107-109: the wait for usb_midi_tx_ready, given up with the rest of
\* the message after 50000 times.  Here the device is not configured, ...
SysexWait ==
  /\ pc = "wait"
  /\ IF dev.status = "CONFIGURED"
     THEN pc' = "look" /\ calm' = TRUE
     ELSE pc' = "loop" /\ UNCHANGED calm
  /\ UNCHANGED <<dev, bus, known, txbuf, renewed>>

\* ... or it is busy, and else the wait is over and a frame made.
SysexLook ==
  /\ pc = "look"
  /\ IF dev.tx_busy THEN pc' \in {"wait", "loop"} ELSE pc' = "send"
  /\ UNCHANGED <<dev, bus, known, txbuf, calm, renewed>>

\* usb_midi_send, line 160.  The callers ignore that it returns 0.
SendConfigured ==
  /\ pc = "send"
  /\ pc' = IF dev.status = "CONFIGURED" THEN "test" ELSE "loop"
  /\ UNCHANGED <<dev, bus, known, txbuf, calm, renewed>>

\* Line 161.
SendTest ==
  /\ pc = "test"
  /\ pc' = IF dev.tx_busy THEN "loop" ELSE "copy"
  /\ UNCHANGED <<dev, bus, known, txbuf, calm, renewed>>

\* Line 164.
SendCopy ==
  /\ pc = "copy"
  /\ txbuf' = IF txbuf = 1 THEN 2 ELSE 1
  /\ pc' = "mark"
  /\ UNCHANGED <<dev, bus, known, calm, renewed>>

\* Mutant: tx_busy is not set.
SendMark_Missing ==
  /\ pc = "mark"
  /\ pc' = "arm"
  /\ UNCHANGED <<dev, bus, known, txbuf, calm, renewed>>

\* Line 165.
SendMark ==
  /\ pc = "mark"
  /\ dev' = [dev EXCEPT !.tx_busy = TRUE]
  /\ pc' = "arm"
  /\ UNCHANGED <<bus, known, txbuf, calm, renewed>>

\* Line 167.  A transfer on an endpoint that is not active is void.
SendArm ==
  /\ pc = "arm"
  /\ dev' = [dev EXCEPT !.in = dev.active]
  /\ pc' = "loop"
  /\ UNCHANGED <<bus, known, txbuf, calm, renewed>>

-----------------------------------------------------------------------------
(* The host and the core: what they do to the latched causes.              *)

\* The bus events whose handling may still be outstanding.
Settled(causes) == Prompt => dev.intr \cap causes = {}

Latch(cause) == dev' = [dev EXCEPT !.intr = @ \cup {cause}]

\* The host takes the frame out of the IN endpoint.
HostIn ==
  /\ Settled({"WKUP"})
  /\ bus = "active" /\ dev.in
  /\ dev' = [dev EXCEPT !.in = FALSE, !.intr = @ \cup {"IN"}]
  /\ UNCHANGED <<bus, known, pc, txbuf, calm, renewed>>

\* The host sends a packet to the OUT endpoint.
HostOut ==
  /\ Settled({"WKUP"})
  /\ bus = "active" /\ dev.out
  /\ dev' = [dev EXCEPT !.out = FALSE, !.intr = @ \cup {"OUT"}]
  /\ UNCHANGED <<bus, known, pc, txbuf, calm, renewed>>

\* After a reset the host first gives the device an address; then it may
\* configure it and undo that, one request after the other.  If interrupts are
\* prompt, none arrives within usb_midi_send: the call then takes a few
\* microseconds and a control transfer at least a frame, so that the request
\* before it may be executed during the call, but no second one.  If not, the
\* interrupt may be taken again and again (an STPF left standing does that,
\* see usbd_int_epout) while the main loop is anywhere, usb_midi_send too.
HostSetup ==
  /\ Settled({"WKUP"})
  /\ bus = "active" /\ dev.fifo = "none" /\ ~dev.due
  /\ dev.setupc_flag = 0
  /\ "RST" \notin dev.intr
  /\ Prompt => pc \notin InCall
  /\ \E r \in IF known THEN Request \ {"address"} ELSE {"address"} :
       dev' = [dev EXCEPT !.fifo = r, !.intr = @ \cup {"RXFNE"}]
  /\ known' = TRUE
  /\ UNCHANGED <<bus, pc, txbuf, calm, renewed>>

\* The core reports the end of the SETUP phase it has delivered.
CoreSetupDone ==
  /\ dev.due
  /\ dev' = [dev EXCEPT !.due = FALSE, !.intr = @ \cup {"STPF"}]
  /\ UNCHANGED <<bus, known, pc, txbuf, calm, renewed>>

\* If interrupts are prompt, at most one frame starts before the end of the
\* SETUP phase is handled.
HostFrame ==
  /\ bus = "active" /\ dev.setupc_flag # 0
  /\ Prompt => dev.setupc_flag = 1
  /\ Latch("SOF")
  /\ UNCHANGED <<bus, known, pc, txbuf, calm, renewed>>

HostSuspend ==
  /\ bus = "active"
  /\ Settled(Cause)
  /\ bus' = "suspended"
  /\ Latch("SP")
  /\ UNCHANGED <<known, pc, txbuf, calm, renewed>>

HostResume ==
  /\ bus = "suspended"
  /\ Settled({"SP"})
  /\ bus' = "active"
  /\ Latch("WKUP")
  /\ UNCHANGED <<known, pc, txbuf, calm, renewed>>

\* A reset also ends a suspension, without a wakeup.
HostReset ==
  /\ bus' = "active"
  /\ known' = FALSE
  /\ Latch("RST")
  /\ UNCHANGED <<pc, txbuf, calm, renewed>>

-----------------------------------------------------------------------------
Main ==
  \/ usb_bridge_init
  \/ DrainConfigured
  \/ DrainReady
  \/ DrainBusy
  \/ SysexConfigured
  \/ SysexWait
  \/ SysexLook
  \/ SendConfigured
  \/ SendTest
  \/ SendCopy
  \/ SendMark
  \/ SendArm

Host ==
  \/ HostIn
  \/ HostOut
  \/ HostSetup
  \/ CoreSetupDone
  \/ HostFrame
  \/ HostSuspend
  \/ HostResume
  \/ HostReset

Next == usbd_isr \/ Main \/ Host

Spec == Init /\ [][Next]_vars

\* The interrupt is taken, the main loop goes on, and the host takes what is
\* offered and ends what it begins.  It need not suspend, reset or request.
Fairness ==
  /\ WF_vars(usbd_isr)
  /\ WF_vars(Main)
  /\ SF_vars(HostIn)
  /\ WF_vars(CoreSetupDone)
  /\ WF_vars(HostFrame)
  /\ WF_vars(HostResume)

FairSpec == Spec /\ Fairness

-----------------------------------------------------------------------------
(* Properties.                                                             *)

\* usb_bridge_drain_tx pops a frame, and usb_port_send counts its packets as
\* sent, before the class has taken it, and neither looks at the result
\* (usb_midi_bridge.c:117-119, 164-166): a frame is refused only if an
\* interrupt changed the device's status meanwhile.
LostOnlyByBusEvent ==
  [][pc' = "loop" /\ pc \in {"send", "test"} => ~calm]_vars

\* A SET_CONFIGURATION executed between lines 165 and 167 of usb_midi_send takes
\* the mark of the transfer that is about to start; then the next frame, or the
\* completion of this one, may disturb its successor, and so on until the next
\* configuration.  It takes two requests within the call, so it does not happen
\* if interrupts are prompt.  The next two properties hold but for this.
Undisturbed == Prompt \/ ~renewed

\* usb_midi_send copies into tx_buf without masking the interrupt, which may
\* itself clear it (usb_midi_class.c:46, 160-167): the buffer of a transfer
\* under way, and of one whose completion has still to be noticed, is never
\* overwritten.
TxBufStable ==
  [][/\ Undisturbed
     /\ dev.in \/ (dev.status = "CONFIGURED" /\ "IN" \in dev.intr)
     => txbuf' = txbuf]_vars

\* tx_busy covers the transfer, from before the endpoint is armed until its
\* completion is handled.
BusyCoversTransfer ==
  Undisturbed =>
    /\ dev.in => dev.tx_busy /\ pc # "arm"
    /\ pc = "arm" /\ dev.status = "CONFIGURED" => dev.tx_busy

\* Conversely the class is busy for a reason as long as the device is, or after
\* a wakeup will be, configured: a transfer is under way, its completion has
\* still to be noticed, or the transfer is about to start.  Otherwise nothing
\* would clear tx_busy (usb_midi_class.c:123, 161-167), and nothing be sent
\* again - if interrupts are prompt.
BusyHasReason ==
  /\ dev.tx_busy
  /\ \/ dev.status = "CONFIGURED"
     \/ dev.status = "SUSPENDED" /\ dev.backup = "CONFIGURED"
  => dev.in \/ "IN" \in dev.intr \/ pc = "arm"

\* Data endpoints live exactly as long as the configuration, through every
\* mixture of suspend, resume, reset and repeated requests
\* (usbd_enum.c:627-677, drv_usbd_int.c:325-383, 423-444), and a packet can
\* always be received (usb_midi_class.c:145-146) - if interrupts are prompt.
ReceivesWhenConfigured ==
  /\ dev.active <=> \/ dev.status = "CONFIGURED"
                    \/ dev.status = "SUSPENDED" /\ dev.backup = "CONFIGURED"
  /\ dev.active => dev.out \/ "OUT" \in dev.intr

\* A transmission of a configured device ends, and the main loop learns of
\* it - if interrupts are prompt.
TransmissionEnds ==
  dev.tx_busy /\ dev.status = "CONFIGURED"
    ~> ~dev.tx_busy \/ dev.status \in {"DEFAULT", "ADDRESSED"}

\* "RX: USB ISR -> rb_push(g_usb_rx) -> poll decodes CIN -> raw bytes ->
\* router", usb_midi_bridge.c:4: a packet the class takes
\* after usb_bridge_init has registered the callback is pushed.
ReceivedIsPushed ==
  [][/\ usbd_isr /\ "OUT" \in dev.intr /\ dev.status = "CONFIGURED"
     /\ pc # "init"
     => dev.rx_cb]_vars
=============================================================================
