# TLA+ verification of the USB-Controller firmware

The firmware is a USB-MIDI to DIN-MIDI interface on a GD32F3x0 (Cortex-M): one
main loop, a few interrupts and DMA channels, no operating system. This
directory holds TLA+ models of it, the TLC configurations that check them, and
proofs that TLAPS checks. Line numbers refer to the repository's source.

    tlc -workers 2 -config MCDfu.cfg Dfu      # a run: module and cfg as in the table below
    tlapm DfuProofs.tla                       # the proofs of a module

## 1. The system

    USB host --OUT--> USB ISR --push--> g_usb_rx --pop--> usb_port_poll --+
                                                                          v
                                       router_poll_all: sx_feed per port, SysEx to
                                       on_sysex_rx (-> dfu_engine -> bsp_fmc) and, by
                                       the rules, to the other port's send
                                                                          |
    USB host <--IN--- usb_midi_send <--- usb_port_send / drain_tx <-------+
    DIN out  <--DMA-- s_tx_buf <- tmp <- s_uart_tx <-- uart_port_send <---+
    DIN in   --DMA (circular)--> uart_port_poll --> router_poll_all

    application: midi_send_* --> router_process --> uart_port_send, g_usb_tx

The main loop (`main.c:148-153`) calls `router_poll_all`, `usb_bridge_drain_tx`
and `uart_bridge_drain_tx` for ever. It never masks an interrupt.

| Component | State | Operations | What is hard | What makes it correct |
|---|---|---|---|---|
| Ring buffer (`Middleware/ring_buffer.c`) | head, tail, 256 slots | push, pop, push_blk, pop_blk, avail, flush | producer in the USB interrupt, consumer in the main loop, no lock | it is a bounded FIFO queue |
| UART transmission (`uart_midi_bridge.c`, `bsp_uart_midi.c`) | s_uart_tx, s_tx_buf, s_tx_busy, DMA channel | port_send, drain_tx, send_dma, DMA interrupt | the DMA reads the buffer while the loop goes on | bytes leave in order; the buffer is never torn; transfers end |
| UART reception (`bsp_uart_midi.c`, `uart_midi_bridge.c`) | circular buffer, the channel's count, read index | rx_available, rx_read, port_poll | the DMA laps the reader, who has nothing but a count register to notice it by | bytes in order and exact; after a lap, still in step |
| USB device and MIDI class (`drv_usbd_int.c`, `usbd_enum.c`, `usb_midi_class.c`) | cur_status, backup_status, setupc_flag, tx_busy, rx_cb, endpoints | usbd_isr and its handlers, usb_midi_send | delayed interrupts with several causes latched; suspend, resume and reset in the middle of a transmission | the endpoints live as long as the configuration; no torn buffer; no transmission is stuck |
| USB reception (`usb_midi_bridge.c`, `usb_midi_codec.c`) | g_usb_rx, the poll buffer | rx callback, usb_port_poll, usb_midi_dec | pushes between pops, a full ring | packets stay framed, each decoded once and in order |
| Channel messages and USB transmission (`midi_api.c`, `midi_router.c`, `midi_parser.c`, `usb_midi_codec.c`, `usb_midi_bridge.c`) | rules, g_usb_tx, the second parser, the frame, the wait for the class | midi_send_*, router_process, drain_tx, port_send | messages cut by a full ring; a parser that keeps old data; SysEx in between, with a counted wait | each message leaves once, in order; nothing hangs |
| SysEx assembly and routing (`sysex_assembler.c`, `midi_router.c`) | a context per port, rules, the tick | sx_feed, router_poll_all, router_set_rule | interleaved ports, aborts, overflow, timeout over a wrapping clock | what is delivered is what arrived |
| Firmware update (`dfu_engine.c`, `bsp_fmc.c`, `boot_main.c`) | engine context, flash | START, DATA, VERIFY, REBOOT, erase, program, boot | lost or stale blocks, flash errors, loss of power at any step | complete means flashed; nothing else is touched |
| Start-up (`main.c`, `bsp_system.c`, `drv_usb_hw.c`) | which interrupts are enabled, the delay counter | initialisation | waiting for an interrupt that is off | the main loop is reached |

All of them are modelled, the USB device and start-up in part (section 8).

## 2. Modules

| Module | Models | Correspondence |
|---|---|---|
| `BoundedFifo` | what `ring_buffer.h` promises | `Offer`, `Accept`, `Deliver`, `Discard` |
| `RingBuffer` | `ring_buffer.c` | every access to a shared field is a step: `PushTest`/`PushWrite`/`PushPublish`, `PopTest`/`PopRead`/`PopAdvance`, `Avail`, `FlushRead`/`FlushWrite`. Refines `BoundedFifo` |
| `ByteStream` | what a path without losses promises | `Accept`, `Emit`; its bytes are bytes for `UartTx`, messages for `UsbTx`, packets for `UsbRx` |
| `UartTx` | `uart_midi_bridge.c` on `bsp_uart_midi.c` | `uart_port_send`, `uart_bridge_drain_tx`, the three steps of `bsp_uart_midi_send_dma`, one step per byte of the DMA channel, its interrupt. Refines `ByteStream` |
| `LossyStream` | what reception from DIN promises | `Arrive`, `Read`, `Miss` (whole laps) |
| `UartRx` | the receive half of `bsp_uart_midi.c`, `uart_port_poll` | one step per byte of the circular channel, one for `rx_available`, one per `rx_read`. Refines `LossyStream` |
| `UsbDevice` | interrupt side and transmission of the USB device | one operator per handler on a record `dev`; `usbd_isr` composes them in the order of the code on the latched causes; the main loop's steps, one per read or write of what the interrupt also uses (`usb_midi_tx_ready` is two, `usb_midi_send` five), the counted wait of SysEx among them; the host |
| `UsbRx` | reception from USB | the callback is one step (an interrupt is not interrupted by the loop), each pop is one. Refines `ByteStream` as long as no packet is cut |
| `MidiMessage` | the functions on messages without state of their own | the message makers of `midi_api.c`, `msg_matches`, `midi_encode_msg`, `midi_parse` (as `Parsed` and `ParserAfter`), the encoders |
| `UsbTx` | channel messages and SysEx to USB in the main loop | `midi_send_msg` is `router_process` with `usb_port_send`; `usb_bridge_drain_tx` one step per byte; the SysEx branch of `usb_port_send` one step per look at the class. Refines `ByteStream` |
| `SysexRouter` | SysEx through the poll loop | one step per byte; the tick goes on between any two |
| `Dfu` | firmware update and boot loader | one step per command, per page-sized piece of a payload, per erase, per programming of a page; loss of power between any two and inside an erase |
| `Startup` | `main` up to its loop | one step per call, with the interrupts it enables; the waits of the USB library; TIMER2 and the handlers that exist |
| `*Proofs` | theorems of the module of that name | section 5 |
| `MCUartTx`, `MCUsbTx`, `MCSysexRouter` | values of constants that a cfg cannot write | |

The modules compose by refinement and by assumption: `UartTx`, `UsbRx` and
`UsbTx` use the queue that `RingBuffer` is proved to implement (in the two
transmission modules producer and consumer are both the main loop; in `UsbRx` a
whole push is one step because the interrupt runs to completion); `UsbRx`
assumes the registered callback that `UsbDevice` is about, and `UsbTx` of the
device only what `usb_midi_tx_ready` shows, changing at any moment; `Dfu`
receives the messages `SysexRouter` delivers, any of which a host may lose,
repeat or send late.

Names ending in an underscore and a word (`PushTest_NeverFull`), each called a
mutant in its comment, are altered versions of an action of the model. No
specification uses them: they record what the properties are sensitive to.

Abstractions that matter:

* `UsbDevice`: `tx_buf` holds one of two frames, or the zeros of the `memset` in
  `midi_init`; of the requests there are only those that change the device's
  state; endpoint 0's data stages and the core's registers are left out. A
  transfer on an inactive endpoint is void. History variables are `calm` (no
  handler has changed the device's status since the main loop last found it
  configured) and `renewed` (the present configuration began while `usb_midi_send`
  was between marking the buffer and starting the transfer).
* `UsbRx`: a byte is the kind of its packet and its position in it. Four bytes
  that are no packet decode as any kind. The values of the bytes are left out.
* `UsbTx`: messages are bytes, as the parser sees them. Of a SysEx message there
  is the first packet, since the encoder is given room for one. The frame handed
  to the class is not followed further: `UsbDevice` is about that.
* `UartRx`: `unread` and `burst` are history variables, and so are `owed` and `line` in
  `UsbTx`, and `line` in `UsbRx`: what a correct implementation owes its user, and
  what left it last. The receive buffer is static memory, all 0 at first; that is
  one of the two byte values of the run, and either is tried.
* `SysexRouter`: of the status bytes four kinds, as `sx_feed` distinguishes them;
  data bytes are what they are (`Data`). Rules are two bits, the ones the SysEx
  path looks at. `hist` and `since` are history variables.
* `Dfu`: a cell of flash is where its content comes from. The CRC is a perfect
  fingerprint, of content and length. The flag of the boot loader is never
  set: nothing in the repository sets it and `DFU_CMD_REBOOT`'s writes are
  refused by the driver. `size` is the host's knowledge of the image that
  belongs to `expected_crc`; it survives a reset as a history variable. Another is
  `erred`: has the flash controller reported an error in this session. The
  running program lies in the region that is being erased (in the built image
  `router_poll_all` is at 0x0800238c, inside the first page of the region);
  `Derail` lets the processor run into it at any moment, but does not force it
  to, so that the engine's own properties are checked whatever happens then.
* `Startup`: of the peripherals only what can request an interrupt. The loop of
  `bsp_nvic_config` also hands SysTick's negative number to the NVIC; the write
  goes beside the enable registers and is taken to have no effect.

## 3. Runs

| Run | Module, cfg | Checks | Bounds |
|---|---|---|---|
| `ring` | `RingBuffer`, `MCRingBuffer` | types; a promised byte can be popped; no slot shared; the invariant; refinement of `BoundedFifo` | 4 slots, 2 byte values: full, empty and wrapped at every index |
| `uart_tx` | `MCUartTx` | types; invariant; the buffer under transfer is stable; refinement of `ByteStream`; the queue drains; transfers end | ring of 3, messages of 1 to 3 bytes, so that they are cut |
| `uart_rx` | `UartRx`, `MCUartRx` | a prompt read is exact; refinement of `LossyStream`; reading goes on | buffer of 4, 2 byte values, polls of at most 2 bytes, 9 bytes unread: two laps and one byte |
| `usb_device` | `UsbDevice`, `MCUsbDevice` | `tx_busy` covers the transfer and the buffer is not torn, but for one kind of reconfiguration (section 3.2); frames refused only by a bus event; interrupts delayed arbitrarily, requests at any point of the main loop | two frames; one request after the other |
| `usb_device_prompt` | `UsbDevice`, `MCUsbDevicePrompt` | a configured device can receive; `tx_busy` is set only with something there to clear it; transmissions end; prompt interrupts | the same, and no request arrives inside `usb_midi_send`, the bus is not suspended or resumed, and no traffic follows a wakeup, before the interrupt has been taken |
| `usb_rx` | `UsbRx`, `MCUsbRx` | framing, availability, room in the poll buffer; packets are decoded in order (refinement of `ByteStream`) | ring of 16 bytes, transfers of 1 or 2 packets of 3 kinds (0, 2 and 3 bytes), poll buffer of 5; at most one transfer is cut inside a packet |
| `usb_tx` | `MCUsbTx` | messages leave in order (refinement of `ByteStream`); an empty ring means that all have left; no data of an earlier message; the SysEx wait returns; the draining goes on | ring of 5 (so that messages are cut after 1 and 2 bytes), frames of 2 packets, a wait of 2 looks, four messages of 1 to 3 bytes, one SysEx, two rules |
| `sysex` | `MCSysexRouter` | what is delivered is what arrived; a message begun in the idle state is delivered | 2 ports, 2 data bytes (interchangeable, hence symmetry), messages of 3 bytes, timeout 1, clock modulo 3 |
| `dfu` | `Dfu`, `MCDfu` | configuration pages untouched; the page buffer has room; complete means flashed, unless the flash reported an error | words of 2 bytes, 2 pages of 4, blocks of 3 in payloads of 0 to 4, images of 3, 5 (odd) and 9 (too large), 10 bytes a session; flash errors and loss of power at any step |

All the sizes keep the relations of the real ones: a ring of capacity 2^n - 1;
a packet that does not divide that capacity; blocks that do not divide a page;
images that end inside a word, and one larger than the region; a poll shorter
than the buffer; a clock that wraps within a timeout. The bounds in actions are:
`NoLongSilence` of `SysexRouter` (no silence inside a message lasts 2^32 ms;
beyond that the subtraction wraps and an expired message would be continued),
`MaxReceived` of `Dfu` (the bytes of a session), `MaxUnread` of `UartRx`, in `UsbRx`
one cut, and in the host's actions of `UsbDevice`:

* the host first gives the device an address, and sends a request when the one
  before has been executed and its SETUP phase reported (`HostSetup`); start of
  frame is modelled only while a request waits, since it does nothing else
  (`HostFrame`);
* with `Prompt` only: no request arrives inside `usb_midi_send` (`HostSetup`; the call
  takes microseconds, a control transfer at least a frame), at most one frame
  starts before the end of the SETUP phase is handled (`HostFrame`), a suspension
  finds no interrupt waiting, a resume finds the suspension handled, and traffic
  follows a wakeup that has been handled (`Settled`).

### 3.1 Disagreements between code and comments

These runs each check one property that a comment or document states, and TLC
shows a behaviour of the code that violates it.

| Run | Property | What happens |
|---|---|---|
| `startup` | `MainLoopReached` | `hw_delay` waits for the interrupt of TIMER2, which nothing enables: the initialisation of USB does not return. An idle UART line stops the processor even earlier, its handler's name being misspelt |
| `usb_callback` | `ReceivedIsPushed` | SET_CONFIGURATION clears `rx_cb` together with the class data; a packet received after that is dropped, although `usb_bridge_init` had registered its callback |
| `dfu_boot` | `BootedIsWhole` | after a loss of power a partial image is started |

The first two stop the device from working at all. The other models describe
what comes after they are repaired: they start in the main loop, and `UsbRx` with
a registered callback.

### 3.2 What the models do that a reader of the comments may not expect

No run of their own is about these; they are in the models' definitions or in
the preconditions of the properties named.

USB:

* A wakeup and a second suspend latched together save SUSPENDED as the status to
  return to (`drv_usbd_int.c:436`); the device then never resumes
  (`usbd_int_suspend`; excluded in run `usb_device_prompt` by `Prompt`).
* A bus reset does not call the class's `deinit`, whatever `usb_midi_class.c:85`
  says; `tx_busy` survives it until the next configuration (`usbd_int_reset`).
* A SET_CONFIGURATION executed while `usb_midi_send` is between marking the
  buffer and starting the transfer (`usb_midi_class.c:165-167`) takes the mark away:
  the transfer then runs with `tx_busy` clear, and the next frame is copied over
  the one being sent. It takes two requests within one call, the first to leave the
  configuration, the second to enter it again. The call takes a few microseconds
  of the main loop's, but an STPF that stays latched (`drv_usbd_int.c:195-206`) keeps
  the processor in the interrupt until the next SETUP. `TxBufStable` and
  `BusyCoversTransfer` hold in every configuration that did not begin like that
  (`Undisturbed`, by the history variable `renewed`), and in all of them if
  interrupts are prompt. Without the premise both are violated in run `usb_device`.
* The same `memset` clears `tx_buf` between the copy and the transfer: zeros are sent
  (`txbuf` 0 in `usbd_isr`).
* A request that waits at a bus reset is executed after it: the reset leaves
  `setupc_flag` alone (`usbd_int_reset`).
* A transfer cut by the full receive ring inside a packet shifts the framing of
  everything that follows (`cut` in `FramedUnlessCut` and `DecodesInOrder`).
* `usb_midi_dec` never sets the status byte of what it decodes; the values of
  bytes are left out of `UsbRx`.

Messages:

* `midi_parse` completes a message after its first data byte. A message with two
  of them leaves USB with a second one of 0 (a Note On with velocity 0), and its
  real second byte is parsed as the beginning of another under running status
  (`Parsed`; `Shown` and `NoForeignData` say what is left).
* `usb_midi_enc_sysex` is given room for one packet (`sizeof(pkts) / sizeof(pkts)`),
  so that of a SysEx message only the first packet is made, while the frame is
  handed over with the length of the message (`FirstSysexPacket`).
* A SysEx to USB overtakes the messages waiting in `g_usb_tx`, and SysEx
  after SysEx keeps them waiting (the first premise of `DrainGoesOn`).
* Polyphonic and channel aftertouch and system common messages match no rule,
  `MASK_ALL` included (`TypeBit`).
* `router_poll_all` feeds the SysEx assemblers only: channel messages that
  arrive from USB or DIN are not routed anywhere. What `router_process` gets
  comes from `midi_api.c`.

SysEx:

* An F0 that aborts a message is swallowed with the message it begins (the
  premise `idle` of `CleanStartIsDelivered`).
* `!mask & MASK_SX` is always 0: rules cannot exclude SysEx (`Destinations`).
* A message that fills the SysEx buffer is delivered without its F7 (`Message`,
  and the cut in `DeliveredAsReceived`).

Firmware update:

* Flash errors are ignored and the CRC is that of what was received, so that an
  image which the flash does not hold can be reported complete (`erred` in
  `CompleteIsFlashed`). So can one that is larger than the region and was announced
  as smaller (`size <= Region` there).
* The old application is erased page by page before the CRC is known
  (`ErasePage`), against `readme-md.md:241`.
* Block 128 cannot be written in two 7-bit bytes (`Sendable`), so an image of more
  than 16 KiB cannot be completed, although START accepts 48.

## 4. Fairness

`UartTx`: weak fairness of the main loop, of the DMA channel and of its
interrupt. The loop of `main.c` never ends and blocks nowhere but at the
modelled wait; the channel and its interrupt have the processor's word.

`UartRx`: weak fairness of the main loop's poll. Nothing obliges a byte to arrive.

`UsbTx`: weak fairness of the beginning of a drain, of its steps and of those of
the SysEx wait, all of them the main loop's. The host is left open: `SysexReturns`
holds if it never comes back, and `DrainGoesOn` says in its premises what it
needs of the host (the configuration stays, offers are taken) and of the rest of
the loop (no SysEx comes first).

`UsbDevice` (`FairSpec`): weak fairness of the interrupt and the main loop, of
the core's report of a SETUP phase, of frames and of the end of a suspension;
strong fairness of the host's IN transactions, since a reset or a suspension
may interrupt its polling again and again. The liveness run assumes prompt
interrupts: the handler runs before the bus changes its state again, the
end of a SETUP phase is handled before a second frame starts, and no request
arrives inside `usb_midi_send`. Without that, a
completion that is latched together with a wakeup is handled while the device
still counts as suspended, and dropped; and a SETUP phase whose request was
executed by the frame counter leaves an interrupt that is never acknowledged
(`drv_usbd_int.c:195-206`), under which the fairness of the main loop would not
be justified. The safety run assumes neither fairness nor promptness.

`Startup`: weak fairness of the processor, of the interrupts that are enabled and
of the timer; the violation is not for want of any of them.

`RingBuffer`, `UsbRx`, `SysexRouter` and `Dfu` state safety only.

## 5. Theorems

Proved for every value of the constants that satisfies the modules' `ASSUME`s.
Every invariant, and every safety property of a step, that a passing run checks
is among them, and so are the five refinements.

* `RingBufferProofs`: `RingIsFifo` (the ring implements `BoundedFifo`),
  `AvailHonoured`, `SlotsNeedNoLock`, `TypeCorrect`, `Invariance`, for every power
  of two up to 65536. `Inv` relates each side's program counter and local copies to
  head and tail: the producer's `n` is the slot after `head` and not `tail`, what
  `rb_avail` returned never exceeds what is there, because only the consumer moves
  `tail`. The queue of the refinement is `Occupied`, the slots from tail to head; the
  lemmas `OccupiedPush` and `OccupiedDrop` say what a push and a pop make of it.
* `UartTxProofs`: `Invariance` of `TypeOK /\ Inv`, from it `TypeCorrect`,
  `BufferNotTorn` (`BufferStable`) and `TransmitsInOrder` (`ImplementsStream`). `Inv`
  ties `busy` to the channel and the loop's position: the buffer is written only
  where the channel is off, because `busy` was seen clear and only the loop sets it.
* `UartRxProofs`: `ReceivesInStep` (`ImplementsLossyStream`), `PromptReadExact`,
  `TypeCorrect`, for every power of two up to 32768. The inductive invariant says
  that the channel's position is the reader's moved on by what is unread, modulo
  the size (`InStep`), that the buffer holds the last `Size` unread bytes (`Holds`),
  and how many of the unread ones `rx_available` reported (`Promise`). `InStep` is why
  a lapped reader misses whole buffers only.
* `UsbDeviceProofs`: `BufferNotTorn` (`TxBufStable`), `BusyIsSound`
  (`BusyCoversTransfer`), `LosesOnlyByBusEvent`, `TypeCorrect`, with or without prompt
  interrupts; with them `AlwaysReceives` (`ReceivesWhenConfigured`) and `BusyEnds`
  (`BusyHasReason`). The first two are unconditional under prompt interrupts, and
  otherwise hold in every configuration that is not `renewed`: that promptness excludes
  `renewed` is a conjunct of the invariant (`Prompt => ~renewed`), not an assumption.
  `Good` says of the record `dev`, and of how far the main loop has
  come with a transmission (`Mode`), what every handler preserves; there is a lemma
  for each handler, and `usbd_isr` is their composition. `AlwaysReceives` adds that the
  endpoints live as long as the configuration (`Steady`), that the OUT endpoint is
  armed or its completion latched (`Receiving`), and what promptness keeps apart
  (`Apart`). `BusyHasReason` is not inductive: a completion latched while the device is
  suspended would be cleared by the next interrupt without the class being told. `ReasonInv` adds that a completion
  waits in a suspended device only together with a reset. It is the safety half of
  `TransmissionEnds`: what clears `tx_busy` is there; that it comes is the fairness of
  the host, and is model-checked.
* `UsbRxProofs`: `StaysFramed` (`FramedUnlessCut`), `PopsWholePackets` (`PopsFour`),
  `PollBufferSafe` (`OutFits`), `TypeCorrect`, and `DecodesPacketsInOrder`
  (`DecodesInOrder`): until a packet is cut, the module implements `ByteStream` with
  packets for bytes. The first three properties are inductive together, with the
  room that is left while a packet is held (`Control`). What is pending in the
  refinement are the packets of the bytes popped and of those in the ring
  (`Packets`); `PacketsGrow` and `PacketsHead` say what a push and a decoding make of
  them.
* `UsbTxProofs`: `TransmitsInOrder` (`ImplementsStream`), `NothingLeftBehind`
  (`DrainedMeansSent`), `NoForeignDataEver`, `TypeCorrect`. The invariant (`Yields`) says
  that the parser, reading the queue from its head, will produce the messages owed
  and no others: there is an assignment to every position in the queue of what the
  parser expects there, of the status it runs under and of how many messages it has
  produced (`Track`), of which the parser's state is the first (`At`). `Extend` and
  `MessageYields` add the bytes of a message, cut anywhere; `HeadParsed` and `Shift` take
  away the head. `NothingLeftBehind` is `Yields` with an empty queue: the track has no
  position left in which a message could be produced.

  Its last section is about `MidiMessage`. `SendsMessages`: whatever bytes `midi_api.c` is
  called with, what it makes has a status with a route and 7-bit data. It is what the
  module's `ASSUME` demands of `Message`, and so justifies it for the functions
  that make messages (`midi_send_msg` takes one as it is). `PitchbendExact`: a signed
  bend comes through the `uint16_t` parameter and its wrap as the exact 14-bit value.
  `OnlyMaskedStatusesRouted`: the router selects no status but those in
  `ChannelStatus`, and F0.
* `SysexRouterProofs`: `DeliversWhatArrived` (`DeliveredAsReceived`), `DeliversCleanStart`
  (`CleanStartIsDelivered`), `TypeCorrect`, for every number of ports, set of data bytes,
  length, timeout and width of the tick. An assembler that is receiving holds what the history
  records, its timestamp is the record's age before `now` (`Match`), and one that was
  begun well is receiving (`Alive`). `Plus` replaces addition modulo the width.
* `DfuProofs`: `ConfigSafe`, `PageBufferSafe`, `TypeCorrect` and
  `CompleteMeansFlashed`, all with flash errors and loss of power. `ConfigUntouched`
  and `CompleteIsFlashed` are not inductive by themselves. `IInv` adds: addresses are
  multiples of the page, so that the driver's range check of the first byte covers
  the page (`PageInRegion`); how full the page buffer is at each point (`Fill`); and, as
  long as every byte received belongs to the image and the flash has reported no
  error, that the flash holds the image up to `addr` and the page buffer from there
  (`Transfer`), the page at `addr` being erased when it is programmed. The lemmas on
  multiples (`RoundUp`, `RoundDown`) replace arithmetic with `%` and two variables,
  which the solver does not do. `IInv` has been checked by TLC with the bounds of run
  `dfu`.

Only model-checked: all liveness (`QueueDrains`, `TransferEnds`, `ReadingGoesOn`,
`TransmissionEnds`, `SysexReturns`, `DrainGoesOn`), because the prover has no rules for
fairness. Of what the functions of `MidiMessage` compute, `UsbTx` needs the bytes and
the parser; the packing into packets (`usb_midi_enc`, `FirstSysexPacket`) is not
otherwise stated.

## 6. Hazards without a property

`PROJECT.json` lists them with the others and says why. The mask test that is
always false (`midi_router.c:123`); block numbers that cannot be sent
(`dfu_engine.c:67`); the dispatcher's 6-byte VERIFY and REBOOT, which the engine
ignores (`main.c:60`); the status that is never set (`usb_midi_codec.c:36`); the
interrupt that is never acknowledged (`drv_usbd_int.c:195`); completions that are
dropped because a wakeup latched with them is handled later (`drv_usbd_int.c:77`); the
flush in the reset handler, which waits inside the USB interrupt for one of lower
priority (`drv_usbd_int.c:333`). In each of them the code always does the same, whatever
the order of events: the models have it as it is, or leave out what it touches.

## 7. What could follow

* A composition of `UsbRx`, `SysexRouter` and `UartTx` at the level of messages: a
  SysEx message from the host leaves on the DIN port, whole or cut at the ring.
  Each of the three has its own theorem; what is missing is the packing of SysEx
  into packets on the host's side.
* An abstract installer (old image, then new image, nothing between), and under
  which assumptions `Dfu` implements it. As the code is it does not: `BootedIsWhole`.
* Control transfers with a data stage and endpoint halt in `UsbDevice`.

## 8. Not modelled

* USB device: descriptors (constant tables), string and status requests, endpoint
  halt, control transfers with a data stage, and the registers of the core. Only
  the states, requests and interrupts that reach the MIDI class are modelled.
* Start-up: what the calls write into the peripherals' registers. The clock is
  one of them: the PLL's code is commented out and the processor runs at 8 MHz.
* The CRC: a pure function over bits, taken to be a perfect fingerprint.
* The user interface: empty files.
* `Fwlib`, `CMSIS` and `JLinkPrintf`, which are most of the repository's lines: the
  vendor's register access, USB host library and device classes that this firmware
  does not build or does not call, and a debug channel. What the firmware uses of
  them with a state of its own (the device core's handlers, the flash controller,
  the delay timer) is in `UsbDevice`, `Dfu` and `Startup`; the rest sets registers
  once. This is why the share of mapped lines is small although the firmware's own
  `Application`, `Middleware`, `Driver` and `Bootloader` are covered.
