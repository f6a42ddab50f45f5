------------------------------- MODULE Startup -------------------------------
(***************************************************************************)
(* From reset to the main loop (main of Application/main.c): the calls in  *)
(* their order, the interrupts each of them enables, and the waits of the  *)
(* USB library, which end when the interrupt of TIMER2 has counted         *)
(* delay_time down (Driver/drv_usb_hw.c).                                  *)
(***************************************************************************)
EXTENDS Integers, Sequences

VARIABLES
  todo,       (* the calls main has still to make, the one it is in first  *)
  waiting,    (* is it in hw_delay                                         *)
  delay_time, (* of hw_delay                                               *)
  timer,      (* does TIMER2 count, its update interrupt enabled           *)
  uart,       (* has the UART been set up, with its idle-line interrupt    *)
  enabled,    (* the interrupts enabled in the NVIC                        *)
  pending,    (* the interrupts requested and not served                   *)
  hung        (* is the processor in Default_Handler                       *)

vars == <<todo, waiting, delay_time, timer, uart, enabled, pending, hung>>

-----------------------------------------------------------------------------
(* Main's calls; of usbd_init those that wait, and how long: milliseconds, *)
(* or microseconds for the core reset and the flushes.                     *)

usbd_init == <<"usb_core_reset", "usb_core_init", "usbd_disconnect",
               "usb_txfifo_flush", "usb_rxfifo_flush", "usbd_connect">>

bsp_usb_init == <<"usb_irq_init">> \o usbd_init \o <<"usbd_connect">>

main == <<"bsp_system_init", "router_init", "dfu_init", "bsp_uart_midi_init">>
        \o bsp_usb_init
        \o <<"uart_bridge_init", "usb_bridge_init", "router_set_sysex_cb">>

Waits ==
  [usb_core_reset |-> 3, usb_core_init |-> 20, usbd_disconnect |-> 3,
   usb_txfifo_flush |-> 3, usb_rxfifo_flush |-> 3, usbd_connect |-> 3]

bsp_nvic_config == {"USBFS", "DMA_Channel1_2", "USART0", "EXTI4_15",
                    "ADC_CMP", "DMA_Channel3_4"}

Enables(call) ==
  CASE call = "bsp_system_init" -> bsp_nvic_config
    [] call = "usb_irq_init"    -> {"USBFS"}
    [] OTHER                    -> {}

\* The vectors the repository has a handler for.  USART0_IRQHander is not
\* one: no vector has that name.
Handled == {"USBFS", "DMA_Channel1_2", "TIMER2"}

TypeOK ==
  /\ todo \in Seq({main[i] : i \in DOMAIN main})
  /\ delay_time \in 0 .. 20
  /\ {waiting, timer, uart, hung} \subseteq BOOLEAN
  /\ enabled \subseteq bsp_nvic_config
  /\ pending \subseteq {"TIMER2", "USART0"}

Init ==
  /\ todo = main
  /\ delay_time = 0
  /\ waiting = FALSE /\ timer = FALSE /\ uart = FALSE /\ hung = FALSE
  /\ enabled = {} /\ pending = {}

-----------------------------------------------------------------------------
(* Main.                                                                   *)

Running == ~hung /\ todo # <<>>

Call ==
  /\ Running
  /\ Head(todo) \notin DOMAIN Waits
  /\ enabled' = enabled \cup Enables(Head(todo))
  /\ uart' = (uart \/ Head(todo) = "bsp_uart_midi_init")
  /\ todo' = Tail(todo)
  /\ UNCHANGED <<waiting, delay_time, timer, pending, hung>>

hw_delay ==
  /\ Running /\ ~waiting
  /\ Head(todo) \in DOMAIN Waits
  /\ delay_time' = Waits[Head(todo)]
  /\ waiting' = TRUE /\ timer' = TRUE
  /\ pending' = pending \ {"TIMER2"}
  /\ UNCHANGED <<todo, uart, enabled, hung>>

DelayOver ==
  /\ Running /\ waiting
  /\ delay_time = 0
  /\ waiting' = FALSE /\ timer' = FALSE
  /\ todo' = Tail(todo)
  /\ UNCHANGED <<delay_time, uart, enabled, pending, hung>>

-----------------------------------------------------------------------------
(* The peripherals and the processor's answer to them.                     *)

TimerUpdate ==
  /\ timer
  /\ pending' = pending \cup {"TIMER2"}
  /\ UNCHANGED <<todo, waiting, delay_time, timer, uart, enabled, hung>>

\* A byte has come in and nothing follows it.
LineIdle ==
  /\ uart
  /\ pending' = pending \cup {"USART0"}
  /\ UNCHANGED <<todo, waiting, delay_time, timer, uart, enabled, hung>>

usb_timer_irq ==
  /\ ~hung
  /\ "TIMER2" \in pending \cap enabled
  /\ pending' = pending \ {"TIMER2"}
  /\ delay_time' = IF delay_time > 0 THEN delay_time - 1 ELSE 0
  /\ timer' = (timer /\ delay_time > 0)
  /\ UNCHANGED <<todo, waiting, uart, enabled, hung>>

Default_Handler ==
  /\ ~hung
  /\ (pending \cap enabled) \ Handled # {}
  /\ hung' = TRUE
  /\ UNCHANGED <<todo, waiting, delay_time, timer, uart, enabled, pending>>

Main == Call \/ hw_delay \/ DelayOver
Interrupt == usb_timer_irq \/ Default_Handler

Next == Main \/ Interrupt \/ TimerUpdate \/ LineIdle

Spec == Init /\ [][Next]_vars

FairSpec == Spec /\ WF_vars(Main) /\ WF_vars(Interrupt) /\ WF_vars(TimerUpdate)

-----------------------------------------------------------------------------

\* The initialisation ends and the main loop of main.c runs.
MainLoopReached == <>(todo = <<>>)
=============================================================================
