-------------------------- MODULE UsbDeviceProofs --------------------------
(***************************************************************************)
(* The transmit buffer of the MIDI class: usb_midi_send masks no           *)
(* interrupt, yet the buffer of a transfer is never overwritten - always,  *)
(* if interrupts are prompt, and if they are not, unless a configuration   *)
(* began just before the transfer was started.                             *)
(*                                                                         *)
(* One call of usbd_isr is a chain of handlers.  The part of the invariant *)
(* that is about dev, Good, is kept by each of them: one lemma a handler.  *)
(***************************************************************************)
EXTENDS UsbDevice, TLAPS

Dev == [status : Status, backup : Status, setupc_flag : 0 .. 2, req : Request,
        rx_cb : BOOLEAN, tx_busy : BOOLEAN, in : BOOLEAN, out : BOOLEAN,
        active : BOOLEAN, fifo : Request \cup {"none"}, due : BOOLEAN,
        intr : SUBSET Cause]

\* The status that a wakeup would leave.
Effective(d) == IF d.status = "SUSPENDED" THEN d.backup ELSE d.status

\* A request has been received or is about to be, and not been executed.
Pending(d) == d.setupc_flag # 0 \/ "RXFNE" \in d.intr

\* There is one request at a time, and an address is only given while the data
\* endpoints are down.
OneRequest(d) ==
  /\ "RXFNE" \in d.intr => d.setupc_flag = 0 /\ d.fifo \in Request
  /\ "RXFNE" \in d.intr /\ d.fifo = "address" => ~d.active
  /\ d.setupc_flag # 0 /\ d.req = "address" => ~d.active

\* Endpoint 1 is active as long as the device is configured, and a transfer is
\* only under way on an active endpoint.
Covered(d) ==
  /\ d.active => Effective(d) # "ADDRESSED"
  /\ Effective(d) = "CONFIGURED" => d.active
  /\ d.in => d.active

\* What Good says more of dev, by where the main loop and the host are.  m may
\* hold
\*   "fresh"    between a reset and the address that follows it,
\*   "call"     inside usb_midi_send, which under prompt interrupts no request
\*              can be that would configure the device,
\*   "up"       endpoint 1 was active when the interrupt was taken,
\*   "whole"    the configuration did not begin within usb_midi_send,
\*   "sending"  so, and past the test of tx_busy,
\*   "arming"   so, and about to start the transfer.
\* One call of usbd_isr executes at most one request: if it takes the endpoint
\* down, there is none left to bring it up.
Quiet(d, m) ==
  /\ "fresh" \in m \/ "call" \in m =>
       (Effective(d) = "ADDRESSED" => ~Pending(d))
  /\ "fresh" \in m => ~d.active
  /\ "call" \in m /\ "up" \notin m => ~d.active
  /\ "up" \notin m => ~d.in
  /\ "up" \in m /\ ~d.active => d.setupc_flag = 0
  /\ "whole" \in m /\ d.in => d.tx_busy /\ "IN" \notin d.intr
  /\ "sending" \in m => ~d.in /\ "IN" \notin d.intr
  /\ "arming" \in m => "sending" \in m
  /\ "arming" \in m /\ "up" \in m /\ d.active => d.tx_busy

Good(d, m) == d \in Dev /\ OneRequest(d) /\ Covered(d) /\ Quiet(d, m)

Mode ==
  {m \in {"fresh", "call", "up", "whole", "sending", "arming"} :
     \/ m = "fresh" /\ ~known /\ "RST" \notin dev.intr
     \/ m = "call" /\ Prompt /\ pc \in {"test", "copy", "mark", "arm"}
     \/ m = "up" /\ dev.active
     \/ m = "whole" /\ ~renewed
     \/ m = "sending" /\ ~renewed /\ pc \in {"copy", "mark", "arm"}
     \/ m = "arming" /\ ~renewed /\ pc = "arm"}

IInv ==
  /\ TypeOK
  /\ Good(dev, Mode)
  /\ "IN" \in dev.intr /\ ~renewed => dev.tx_busy
  /\ Prompt => ~renewed

-----------------------------------------------------------------------------
(* Records.                                                                *)

LEMMA Update ==
  ASSUME NEW d \in Dev
  PROVE  /\ \A x \in Status : [d EXCEPT !.status = x] \in Dev
         /\ \A x \in Status : [d EXCEPT !.backup = x] \in Dev
         /\ \A x \in 0 .. 2 : [d EXCEPT !.setupc_flag = x] \in Dev
         /\ \A x \in Request : [d EXCEPT !.req = x] \in Dev
         /\ \A x \in BOOLEAN : [d EXCEPT !.rx_cb = x] \in Dev
         /\ \A x \in BOOLEAN : [d EXCEPT !.tx_busy = x] \in Dev
         /\ \A x \in BOOLEAN : [d EXCEPT !.in = x] \in Dev
         /\ \A x \in BOOLEAN : [d EXCEPT !.out = x] \in Dev
         /\ \A x \in BOOLEAN : [d EXCEPT !.active = x] \in Dev
         /\ \A x \in Request \cup {"none"} : [d EXCEPT !.fifo = x] \in Dev
         /\ \A x \in BOOLEAN : [d EXCEPT !.due = x] \in Dev
         /\ \A x \in SUBSET Cause : [d EXCEPT !.intr = x] \in Dev
BY DEF Dev

\* What a request leaves: it has been executed, in one of four ways.
LEMMA RequestFields ==
  ASSUME NEW d \in Dev, NEW t, t = usbd_setup_transc(d)
  PROVE  /\ t \in Dev
         /\ t.setupc_flag = d.setupc_flag /\ t.intr = d.intr
         /\ t.fifo = d.fifo /\ t.backup = d.backup /\ t.req = d.req
         /\ t.active => t.out \/ (d.active /\ t.out = d.out)
         /\ \/ t = d
            \/ /\ d.req = "address" /\ t.status = "ADDRESSED"
               /\ t.active = d.active /\ t.in = d.in /\ t.tx_busy = d.tx_busy
            \/ /\ d.status = "ADDRESSED" /\ t.status = "CONFIGURED"
               /\ t.active /\ t.in = d.in /\ ~t.tx_busy
            \/ /\ d.status = "CONFIGURED" /\ t.status = "ADDRESSED"
               /\ ~t.active /\ ~t.in /\ ~t.tx_busy
<1>1. CASE d.req = "address"
  <2>1. t = IF d.status = "CONFIGURED" THEN d
            ELSE [d EXCEPT !.status = "ADDRESSED"]
    BY <1>1 DEF usbd_setup_transc, _usb_std_setaddress
  <2>2. t \in Dev
    BY <2>1, Update DEF Status
  <2>. QED  BY <1>1, <2>1, <2>2 DEF Dev
<1>2. CASE d.req = "config1"
  <2>1. t = _usb_std_setconfiguration(d, 1)
    BY <1>2 DEF usbd_setup_transc
  <2>2. CASE d.status = "ADDRESSED"
    <3>1. t = [midi_init(d) EXCEPT !.status = "CONFIGURED"]
      BY <2>1, <2>2 DEF _usb_std_setconfiguration
    <3>2. midi_init(d) \in Dev
      BY Update DEF midi_init
    <3>3. [midi_init(d) EXCEPT !.status = "CONFIGURED"] \in Dev
      BY <3>2, Update DEF Status
    <3>. QED  BY <2>2, <3>1, <3>3 DEF Dev, midi_init
  <2>3. CASE d.status # "ADDRESSED"
    BY <2>1, <2>3 DEF _usb_std_setconfiguration
  <2>. QED  BY <2>2, <2>3
<1>3. CASE d.req = "config0"
  <2>1. t = _usb_std_setconfiguration(d, 0)
    BY <1>3 DEF usbd_setup_transc
  <2>2. CASE d.status = "CONFIGURED"
    <3>1. t = [midi_deinit(d) EXCEPT !.status = "ADDRESSED"]
      BY <2>1, <2>2 DEF _usb_std_setconfiguration
    <3>2. midi_deinit(d) \in Dev
      BY Update DEF midi_deinit
    <3>3. [midi_deinit(d) EXCEPT !.status = "ADDRESSED"] \in Dev
      BY <3>2, Update DEF Status
    <3>. QED  BY <2>2, <3>1, <3>3 DEF Dev, midi_deinit
  <2>3. CASE d.status # "CONFIGURED"
    BY <2>1, <2>3 DEF _usb_std_setconfiguration
  <2>. QED  BY <2>2, <2>3
<1>. QED  BY <1>1, <1>2, <1>3 DEF Dev, Request

LEMMA RequestGood ==
  ASSUME NEW d, NEW m, Good(d, m), d.setupc_flag # 0,
         NEW i \in SUBSET d.intr
  PROVE  Good([usbd_setup_transc(d) EXCEPT !.setupc_flag = 0, !.intr = i], m)
<1>. DEFINE t == usbd_setup_transc(d)
            u == [t EXCEPT !.setupc_flag = 0]
            e == [u EXCEPT !.intr = i]
<1>1. d \in Dev /\ OneRequest(d) /\ Covered(d) /\ Quiet(d, m)
  BY DEF Good
<1>2. t \in Dev
  BY <1>1, RequestFields
<1>3. 0 \in 0 .. 2 /\ i \in SUBSET Cause
  BY <1>1 DEF Dev
<1>4. u \in Dev
  BY <1>2, <1>3, Update
<1>5. e \in Dev
  BY <1>3, <1>4, Update
<1>6. /\ t.setupc_flag = d.setupc_flag /\ t.intr = d.intr
      /\ t.fifo = d.fifo /\ t.backup = d.backup /\ t.req = d.req
      /\ \/ t = d
         \/ /\ d.req = "address" /\ t.status = "ADDRESSED"
            /\ t.active = d.active /\ t.in = d.in /\ t.tx_busy = d.tx_busy
         \/ /\ d.status = "ADDRESSED" /\ t.status = "CONFIGURED"
            /\ t.active /\ t.in = d.in /\ ~t.tx_busy
         \/ /\ d.status = "CONFIGURED" /\ t.status = "ADDRESSED"
            /\ ~t.active /\ ~t.in /\ ~t.tx_busy
  BY <1>1, RequestFields
<1>. HIDE DEF t
<1>7. /\ e.status = t.status /\ e.backup = t.backup /\ e.active = t.active
      /\ e.in = t.in /\ e.tx_busy = t.tx_busy
      /\ e.setupc_flag = 0 /\ e.intr = i
  BY <1>2 DEF Dev
<1>. HIDE DEF e
<1>8. "RXFNE" \notin e.intr /\ ("IN" \in e.intr => "IN" \in d.intr)
  BY <1>1, <1>7 DEF OneRequest
<1>9. OneRequest(e) /\ ~Pending(e)
  BY <1>7, <1>8 DEF OneRequest, Pending
<1>10. Covered(e)
  <2>1. CASE t = d
    BY <1>1, <1>7, <1>8, <2>1 DEF Covered, Effective
  <2>2. CASE t.status = "ADDRESSED" /\ d.req = "address"
             /\ t.active = d.active /\ t.in = d.in /\ t.tx_busy = d.tx_busy
    BY <1>1, <1>7, <1>8, <2>2 DEF Covered, OneRequest, Effective
  <2>3. CASE d.status = "ADDRESSED" /\ t.status = "CONFIGURED"
             /\ t.active /\ t.in = d.in /\ ~t.tx_busy
    BY <1>1, <1>7, <1>8, <2>3 DEF Covered, Effective
  <2>4. CASE t.status = "ADDRESSED" /\ ~t.active /\ ~t.in
    BY <1>7, <2>4 DEF Covered, Effective
  <2>. QED  BY <1>6, <2>1, <2>2, <2>3, <2>4
<1>11. Quiet(e, m)
  <2>1. e.setupc_flag = 0 /\ ("IN" \in e.intr => "IN" \in d.intr)
    BY <1>7, <1>8
  <2>2. CASE /\ t.active = d.active /\ t.in = d.in /\ t.tx_busy = d.tx_busy
    BY <1>1, <1>7, <1>9, <2>1, <2>2 DEF Quiet
  <2>3. CASE d.status = "ADDRESSED" /\ t.status = "CONFIGURED"
             /\ t.active /\ t.in = d.in /\ ~t.tx_busy
    <3>1. ~d.active /\ "fresh" \notin m /\ "call" \notin m
      BY <1>1, <2>3 DEF Quiet, Covered, Pending, Effective
    <3>2. "up" \notin m /\ ~e.in
      BY <1>1, <1>7, <2>3, <3>1 DEF Quiet
    <3>. QED  BY <1>1, <1>7, <1>9, <2>1, <3>1, <3>2 DEF Quiet
  <2>4. CASE ~t.active /\ ~t.in
    BY <1>1, <1>7, <1>9, <2>1, <2>4 DEF Quiet
  <2>. QED  BY <1>6, <2>2, <2>3, <2>4
<1>12. Good(e, m)
  BY <1>5, <1>9, <1>10, <1>11 DEF Good
<1>. QED  BY <1>12 DEF e, t

-----------------------------------------------------------------------------
(* The handlers before usbd_int_rxfifo, one after the other.               *)

\* A handler that changes nothing Good looks at, and keeps the record's type.
LEMMA SameGood ==
  ASSUME NEW d, NEW m, Good(d, m), NEW e \in Dev,
         e.status = d.status, e.backup = d.backup, e.req = d.req,
         e.setupc_flag = d.setupc_flag, e.tx_busy = d.tx_busy, e.in = d.in,
         e.active = d.active, e.fifo = d.fifo, e.intr = d.intr
  PROVE  Good(e, m)
BY DEF Good, OneRequest, Covered, Quiet, Effective, Pending

LEMMA EpoutGood ==
  ASSUME NEW d, NEW m, Good(d, m)
  PROVE  Good(usbd_int_epout(d), m)
<1>. DEFINE ep0 == IF "STPF" \in d.intr /\ d.setupc_flag # 0
                   THEN [usbd_setup_transc(d) EXCEPT !.setupc_flag = 0,
                                                     !.intr = d.intr \ {"STPF"}]
                   ELSE d
<1>1. d \in Dev /\ usbd_setup_transc(d).intr = d.intr
  BY RequestFields DEF Good
<1>2. Good(ep0, m)
  BY RequestGood
<1>3. usbd_int_epout(d) = IF "OUT" \in d.intr THEN usbd_out_transc(ep0) ELSE ep0
  BY <1>1 DEF usbd_int_epout
<1>. HIDE DEF ep0
<1>4. Good(usbd_out_transc(ep0), m)
  <2>1. ep0 \in Dev
    BY <1>2 DEF Good
  <2>2. midi_out(ep0) \in Dev
    BY <2>1, Update DEF midi_out
  <2>3. Good(midi_out(ep0), m)
    BY <1>2, <2>1, <2>2, SameGood DEF Dev, midi_out
  <2>. QED  BY <1>2, <2>3 DEF usbd_out_transc
<1>. QED  BY <1>2, <1>3, <1>4

LEMMA EpinGood ==
  ASSUME NEW d, NEW m, Good(d, m)
  PROVE  Good(usbd_int_epin(d), m)
<1>. DEFINE e == midi_in(d)
<1>1. d \in Dev /\ OneRequest(d) /\ Covered(d) /\ Quiet(d, m)
  BY DEF Good
<1>2. e \in Dev
  BY <1>1, Update DEF midi_in
<1>3. /\ e.status = d.status /\ e.backup = d.backup /\ e.req = d.req
      /\ e.setupc_flag = d.setupc_flag /\ e.in = d.in
      /\ e.active = d.active /\ e.fifo = d.fifo /\ e.intr = d.intr
  BY <1>1 DEF Dev, midi_in
<1>. HIDE DEF e
<1>4. ASSUME "IN" \in d.intr
      PROVE  Good(e, m)
  <2>1. OneRequest(e)
    BY <1>1, <1>3 DEF OneRequest
  <2>2. Covered(e)
    BY <1>1, <1>3, <1>4 DEF Covered, Effective
  <2>3. Quiet(e, m)
    BY <1>1, <1>3, <1>4 DEF Quiet, Effective, Pending
  <2>. QED  BY <1>2, <2>1, <2>2, <2>3 DEF Good
<1>. QED  BY <1>4 DEF usbd_int_epin, usbd_in_transc, e

\* Suspending and waking up leave the effective status as it was.
LEMMA StatusGood ==
  ASSUME NEW d, NEW m, Good(d, m), NEW e \in Dev,
         Effective(e) = Effective(d) \/ Effective(e) = "SUSPENDED", e.req = d.req,
         e.setupc_flag = d.setupc_flag, e.tx_busy = d.tx_busy, e.in = d.in,
         e.active = d.active, e.fifo = d.fifo, e.intr = d.intr
  PROVE  Good(e, m)
BY DEF Good, OneRequest, Covered, Quiet, Pending

LEMMA SuspendGood ==
  ASSUME NEW d, NEW m, Good(d, m)
  PROVE  Good(usbd_int_suspend(d), m)
<1>. DEFINE u == [d EXCEPT !.backup = d.status]
            e == [u EXCEPT !.status = "SUSPENDED"]
<1>1. d \in Dev /\ d.status \in Status
  BY DEF Good, Dev
<1>2. u \in Dev
  BY <1>1, Update
<1>3. e \in Dev
  BY <1>2, Update DEF Status
<1>4. /\ e.status = "SUSPENDED" /\ e.backup = d.status
      /\ e.req = d.req
      /\ e.setupc_flag = d.setupc_flag /\ e.tx_busy = d.tx_busy /\ e.in = d.in
      /\ e.active = d.active /\ e.fifo = d.fifo /\ e.intr = d.intr
  BY <1>1 DEF Dev
<1>5. usbd_int_suspend(d) = IF "SP" \in d.intr THEN e ELSE d
  BY DEF usbd_int_suspend
<1>. HIDE DEF e
<1>6. Effective(e) = Effective(d) \/ Effective(e) = "SUSPENDED"
  BY <1>4 DEF Effective
<1>. QED  BY <1>3, <1>4, <1>5, <1>6, StatusGood

LEMMA WakeupGood ==
  ASSUME NEW d, NEW m, Good(d, m)
  PROVE  Good(Wakeup(d), m)
<1>. DEFINE e == [d EXCEPT !.status = d.backup]
<1>1. d \in Dev /\ d.backup \in Status
  BY DEF Good, Dev
<1>2. e \in Dev
  BY <1>1, Update
<1>3. /\ e.status = d.backup /\ e.backup = d.backup /\ e.req = d.req
      /\ e.setupc_flag = d.setupc_flag /\ e.tx_busy = d.tx_busy /\ e.in = d.in
      /\ e.active = d.active /\ e.fifo = d.fifo /\ e.intr = d.intr
  BY <1>1 DEF Dev
<1>4. Wakeup(d) = IF "WKUP" \in d.intr /\ d.status = "SUSPENDED" THEN e ELSE d
  BY DEF Wakeup
<1>. HIDE DEF e
<1>5. d.status = "SUSPENDED" => Effective(e) = Effective(d)
  BY <1>3 DEF Effective
<1>. QED  BY <1>2, <1>3, <1>4, <1>5, StatusGood

LEMMA StartOfFrameGood ==
  ASSUME NEW d, NEW m, Good(d, m)
  PROVE  Good(StartOfFrame(d), m)
<1>1. d \in Dev /\ d.intr \in SUBSET d.intr
  BY DEF Good
<1>2. CASE "SOF" \in d.intr /\ d.setupc_flag = 1
  <2>. DEFINE e == [d EXCEPT !.setupc_flag = 2]
  <2>1. StartOfFrame(d) = e
    BY <1>2 DEF StartOfFrame
  <2>2. 2 \in 0 .. 2
    OBVIOUS
  <2>3. e \in Dev
    BY <1>1, <2>2, Update
  <2>4. /\ e.status = d.status /\ e.backup = d.backup /\ e.req = d.req
        /\ e.setupc_flag # 0 /\ e.tx_busy = d.tx_busy /\ e.in = d.in
        /\ e.active = d.active /\ e.fifo = d.fifo /\ e.intr = d.intr
    BY <1>1 DEF Dev
  <2>5. d.setupc_flag # 0
    BY <1>2
  <2>. HIDE DEF e
  <2>6. Good(e, m)
    BY <2>3, <2>4, <2>5 DEF Good, OneRequest, Covered, Quiet, Effective, Pending
  <2>. QED  BY <2>1, <2>6
<1>3. CASE "SOF" \in d.intr /\ d.setupc_flag = 2
  <2>. DEFINE t == usbd_setup_transc(d)
  <2>1. StartOfFrame(d) = [t EXCEPT !.setupc_flag = 0]
    BY <1>3 DEF StartOfFrame
  <2>2. t \in Dev /\ t.intr = d.intr
    BY <1>1, RequestFields
  <2>3. d.setupc_flag # 0
    BY <1>3
  <2>4. Good([t EXCEPT !.setupc_flag = 0, !.intr = d.intr], m)
    BY <1>1, <2>3, RequestGood
  <2>. HIDE DEF t
  <2>5. [t EXCEPT !.setupc_flag = 0, !.intr = d.intr] = [t EXCEPT !.setupc_flag = 0]
    BY <2>2 DEF Dev
  <2>. QED  BY <2>1, <2>4, <2>5
<1>4. CASE ~("SOF" \in d.intr /\ d.setupc_flag \in {1, 2})
  <2>1. StartOfFrame(d) = d
    BY <1>4 DEF StartOfFrame
  <2>. QED  BY <2>1
<1>. QED  BY <1>2, <1>3, <1>4

\* They leave the other causes to their own handlers.
LEMMA CausesKept ==
  ASSUME NEW d \in Dev
  PROVE  /\ \A c \in Cause \ {"STPF"} :
              c \in usbd_int_epout(d).intr <=> c \in d.intr
         /\ usbd_int_epin(d).intr = d.intr
         /\ usbd_int_suspend(d).intr = d.intr
         /\ Wakeup(d).intr = d.intr
         /\ StartOfFrame(d).intr = d.intr
<1>1. usbd_setup_transc(d) \in Dev /\ usbd_setup_transc(d).intr = d.intr
  BY RequestFields
<1>2. \A c \in Cause \ {"STPF"} : c \in usbd_int_epout(d).intr <=> c \in d.intr
  <2>. DEFINE ep0 == IF "STPF" \in d.intr /\ d.setupc_flag # 0
                     THEN [usbd_setup_transc(d) EXCEPT !.setupc_flag = 0,
                                                       !.intr = @ \ {"STPF"}]
                     ELSE d
  <2>1. \A c \in Cause \ {"STPF"} : c \in ep0.intr <=> c \in d.intr
    BY <1>1 DEF Dev
  <2>2. usbd_int_epout(d) = IF "OUT" \in d.intr THEN usbd_out_transc(ep0) ELSE ep0
    BY DEF usbd_int_epout
  <2>3. usbd_out_transc(ep0).intr = ep0.intr
    <3>1. [ep0 EXCEPT !.out = TRUE].intr = ep0.intr
      BY <1>1 DEF Dev
    <3>. HIDE DEF ep0
    <3>. QED  BY <3>1 DEF usbd_out_transc, midi_out
  <2>. HIDE DEF ep0
  <2>. QED  BY <2>1, <2>2, <2>3
<1>3. usbd_int_epin(d).intr = d.intr
  BY DEF Dev, usbd_int_epin, usbd_in_transc, midi_in
<1>4. usbd_int_suspend(d).intr = d.intr
  BY DEF Dev, usbd_int_suspend
<1>5. Wakeup(d).intr = d.intr
  BY DEF Dev, Wakeup
<1>6. StartOfFrame(d).intr = d.intr
  <2>1. CASE "SOF" \in d.intr /\ d.setupc_flag = 1
    <3>1. StartOfFrame(d) = [d EXCEPT !.setupc_flag = 2]
      BY <2>1 DEF StartOfFrame
    <3>. QED  BY <3>1 DEF Dev
  <2>2. CASE "SOF" \in d.intr /\ d.setupc_flag = 2
    <3>1. StartOfFrame(d) = [usbd_setup_transc(d) EXCEPT !.setupc_flag = 0]
      BY <2>2 DEF StartOfFrame
    <3>. QED  BY <1>1, <3>1 DEF Dev
  <2>3. CASE ~("SOF" \in d.intr /\ d.setupc_flag \in {1, 2})
    <3>1. StartOfFrame(d) = d
      BY <2>3 DEF StartOfFrame
    <3>. QED  BY <3>1
  <2>. QED  BY <2>1, <2>2, <2>3
<1>. QED  BY <1>2, <1>3, <1>4, <1>5, <1>6

\* What the last two handlers leave of what the others left.
LEMMA LastFields ==
  ASSUME NEW d, d \in Dev, OneRequest(d),
         NEW e, e = [usbd_int_reset(usbd_int_rxfifo(d)) EXCEPT
                       !.intr = @ \cap {"STPF"}]
  PROVE  /\ e \in Dev
         /\ e.intr \subseteq {"STPF"}
         /\ usbd_int_rxfifo(d).active = d.active
         /\ e.tx_busy = d.tx_busy /\ e.backup = d.backup
         /\ IF "RXFNE" \in d.intr
            THEN e.setupc_flag # 0 /\ e.req = d.fifo
            ELSE e.setupc_flag = d.setupc_flag /\ e.req = d.req
         /\ IF "RST" \in d.intr
            THEN e.status = "DEFAULT" /\ ~e.active /\ ~e.in
            ELSE /\ e.status = d.status /\ e.active = d.active
                 /\ e.in = d.in /\ e.out = d.out
<1>. DEFINE r == usbd_int_rxfifo(d)
            s == usbd_int_reset(r)
<1>1. /\ r \in Dev
      /\ r.intr = d.intr /\ r.tx_busy = d.tx_busy /\ r.backup = d.backup
      /\ r.status = d.status /\ r.active = d.active
      /\ r.in = d.in /\ r.out = d.out
      /\ IF "RXFNE" \in d.intr
         THEN r.setupc_flag # 0 /\ r.req = d.fifo
         ELSE r.setupc_flag = d.setupc_flag /\ r.req = d.req
  <2>1. CASE "RXFNE" \in d.intr
    <3>. DEFINE r1 == [d EXCEPT !.req = d.fifo]
                r2 == [r1 EXCEPT !.setupc_flag = 1]
                r3 == [r2 EXCEPT !.fifo = "none"]
                r4 == [r3 EXCEPT !.due = TRUE]
    <3>1. r = r4
      BY <2>1 DEF usbd_int_rxfifo
    <3>2. d.fifo \in Request /\ 1 \in 0 .. 2
      BY <2>1 DEF OneRequest
    <3>3. r1 \in Dev
      BY <3>2, Update
    <3>4. r2 \in Dev
      BY <3>2, <3>3, Update
    <3>5. r4 \in Dev
      BY <3>4, Update
    <3>6. /\ r4.intr = d.intr /\ r4.tx_busy = d.tx_busy /\ r4.backup = d.backup
          /\ r4.status = d.status /\ r4.active = d.active
          /\ r4.in = d.in /\ r4.out = d.out
          /\ r4.setupc_flag # 0 /\ r4.req = d.fifo
      BY DEF Dev
    <3>. QED  BY <2>1, <3>1, <3>5, <3>6
  <2>2. CASE "RXFNE" \notin d.intr
    BY <2>2 DEF usbd_int_rxfifo
  <2>. QED  BY <2>1, <2>2
<1>. HIDE DEF r
<1>2. /\ s \in Dev
      /\ s.tx_busy = r.tx_busy /\ s.backup = r.backup
      /\ s.setupc_flag = r.setupc_flag /\ s.req = r.req
      /\ IF "RST" \in r.intr
         THEN s.status = "DEFAULT" /\ ~s.active /\ ~s.in
         ELSE /\ s.status = r.status /\ s.active = r.active
              /\ s.in = r.in /\ s.out = r.out
  <2>1. CASE "RST" \in r.intr
    <3>. DEFINE s1 == [r EXCEPT !.status = "DEFAULT", !.active = FALSE, !.in = FALSE,
                                !.out = FALSE, !.due = FALSE]
                s2 == [s1 EXCEPT !.intr = r.intr \ {"STPF"}]
    <3>1. s = s2
      BY <1>1, <2>1 DEF usbd_int_reset, Dev
    <3>2. s1 \in Dev
      BY <1>1, Update DEF Status
    <3>3. r.intr \ {"STPF"} \in SUBSET Cause
      BY <1>1 DEF Dev
    <3>4. s2 \in Dev
      BY <3>2, <3>3, Update
    <3>5. /\ s2.tx_busy = r.tx_busy /\ s2.backup = r.backup
          /\ s2.setupc_flag = r.setupc_flag /\ s2.req = r.req
          /\ s2.status = "DEFAULT" /\ ~s2.active /\ ~s2.in
      BY <1>1 DEF Dev
    <3>. QED  BY <2>1, <3>1, <3>4, <3>5
  <2>2. CASE "RST" \notin r.intr
    BY <1>1, <2>2 DEF usbd_int_reset
  <2>. QED  BY <2>1, <2>2
<1>3. e = [s EXCEPT !.intr = s.intr \cap {"STPF"}]
  BY <1>2 DEF r, Dev
<1>. HIDE DEF s
<1>4. s.intr \cap {"STPF"} \in SUBSET Cause
  BY <1>2 DEF Dev
<1>5. [s EXCEPT !.intr = s.intr \cap {"STPF"}] \in Dev
  BY <1>2, <1>4, Update
<1>6. /\ e.intr = s.intr \cap {"STPF"}
      /\ e.tx_busy = s.tx_busy /\ e.backup = s.backup
      /\ e.setupc_flag = s.setupc_flag /\ e.req = s.req
      /\ e.status = s.status /\ e.active = s.active
      /\ e.in = s.in /\ e.out = s.out
  BY <1>2, <1>3 DEF Dev
<1>7. usbd_int_rxfifo(d).active = d.active
  BY <1>1 DEF r
<1>. QED  BY <1>1, <1>2, <1>3, <1>5, <1>6, <1>7

-----------------------------------------------------------------------------
(* The invariant.                                                          *)

\* Quiet without the modes.
LEMMA QuietIs ==
  /\ Quiet(dev, Mode) <=>
       /\ \/ ~known /\ "RST" \notin dev.intr
          \/ Prompt /\ pc \in {"test", "copy", "mark", "arm"}
          => (Effective(dev) = "ADDRESSED" => ~Pending(dev))
       /\ ~known /\ "RST" \notin dev.intr => ~dev.active
       /\ ~dev.active => ~dev.in
       /\ ~renewed /\ dev.in => dev.tx_busy /\ "IN" \notin dev.intr
       /\ ~renewed /\ pc \in {"copy", "mark", "arm"} =>
            ~dev.in /\ "IN" \notin dev.intr
       /\ ~renewed /\ pc = "arm" /\ dev.active => dev.tx_busy
  /\ Quiet(dev', Mode') <=>
       /\ \/ ~known' /\ "RST" \notin dev'.intr
          \/ Prompt /\ pc' \in {"test", "copy", "mark", "arm"}
          => (Effective(dev') = "ADDRESSED" => ~Pending(dev'))
       /\ ~known' /\ "RST" \notin dev'.intr => ~dev'.active
       /\ ~dev'.active => ~dev'.in
       /\ ~renewed' /\ dev'.in => dev'.tx_busy /\ "IN" \notin dev'.intr
       /\ ~renewed' /\ pc' \in {"copy", "mark", "arm"} =>
            ~dev'.in /\ "IN" \notin dev'.intr
       /\ ~renewed' /\ pc' = "arm" /\ dev'.active => dev'.tx_busy
<1>1. /\ "fresh" \in Mode <=> ~known /\ "RST" \notin dev.intr
      /\ "call" \in Mode <=> Prompt /\ pc \in {"test", "copy", "mark", "arm"}
      /\ "up" \in Mode <=> dev.active
      /\ "whole" \in Mode <=> ~renewed
      /\ "sending" \in Mode <=> ~renewed /\ pc \in {"copy", "mark", "arm"}
      /\ "arming" \in Mode <=> ~renewed /\ pc = "arm"
  BY DEF Mode
<1>2. /\ "fresh" \in Mode' <=> ~known' /\ "RST" \notin dev'.intr
      /\ "call" \in Mode' <=> Prompt /\ pc' \in {"test", "copy", "mark", "arm"}
      /\ "up" \in Mode' <=> dev'.active
      /\ "whole" \in Mode' <=> ~renewed'
      /\ "sending" \in Mode' <=> ~renewed' /\ pc' \in {"copy", "mark", "arm"}
      /\ "arming" \in Mode' <=> ~renewed' /\ pc' = "arm"
  BY DEF Mode
<1>. QED  BY <1>1, <1>2 DEF Quiet

LEMMA TypeIs ==
  /\ TypeOK <=> /\ dev \in Dev /\ bus \in {"active", "suspended"}
                /\ known \in BOOLEAN /\ pc \in MainPC /\ txbuf \in 0 .. 2
                /\ calm \in BOOLEAN /\ renewed \in BOOLEAN
  /\ TypeOK' <=> /\ dev' \in Dev /\ bus' \in {"active", "suspended"}
                 /\ known' \in BOOLEAN /\ pc' \in MainPC /\ txbuf' \in 0 .. 2
                 /\ calm' \in BOOLEAN /\ renewed' \in BOOLEAN
BY DEF TypeOK, Dev

LEMMA InitInductive == Init => IInv
<1>. SUFFICES ASSUME Init
              PROVE  IInv
  OBVIOUS
<1>1. TypeOK
  <2>1. PICK n \in 0 .. 2 : n = 0
    OBVIOUS
  <2>2. dev = [status |-> "DEFAULT", backup |-> "DEFAULT", setupc_flag |-> n,
               req |-> "config0", rx_cb |-> FALSE, tx_busy |-> FALSE,
               in |-> FALSE, out |-> FALSE, active |-> FALSE,
               fifo |-> "none", due |-> FALSE, intr |-> {}]
    BY <2>1 DEF Init
  <2>3. dev \in Dev
    BY <2>2 DEF Dev, Status, Request
  <2>4. /\ bus = "active" /\ known = FALSE /\ pc = "init" /\ txbuf = 0
        /\ calm = TRUE /\ renewed = FALSE
    BY DEF Init
  <2>5. txbuf \in 0 .. 2
    BY <2>4
  <2>. QED  BY <2>3, <2>4, <2>5, TypeIs DEF MainPC, InCall
<1>2. /\ dev.status = "DEFAULT" /\ dev.setupc_flag = 0 /\ ~dev.active /\ ~dev.in
      /\ dev.intr = {} /\ pc = "init" /\ ~renewed
  BY DEF Init
<1>3. OneRequest(dev) /\ Covered(dev) /\ Quiet(dev, Mode)
  BY <1>2, QuietIs DEF OneRequest, Covered, Effective, Pending
<1>. QED  BY <1>1, <1>2, <1>3, TypeIs DEF IInv, Good

LEMMA IsrInductive ==
  ASSUME IInv, usbd_isr
  PROVE  IInv'
<1>. DEFINE d1 == usbd_int_epout(dev)
            d2 == usbd_int_epin(d1)
            d3 == usbd_int_suspend(d2)
            d4 == Wakeup(d3)
            d5 == StartOfFrame(d4)
<1>1. /\ dev' = [usbd_int_reset(usbd_int_rxfifo(d5)) EXCEPT
                   !.intr = @ \cap {"STPF"}]
      /\ calm' \in BOOLEAN
      /\ txbuf' = 0 \/ txbuf' = txbuf
      /\ renewed' = IF usbd_int_rxfifo(d5).active /\ ~dev.active
                    THEN pc = "arm" ELSE renewed
      /\ bus' = bus /\ known' = known /\ pc' = pc
  BY DEF usbd_isr, Began
<1>2. Good(dev, Mode)
  BY DEF IInv
<1>3. Good(d1, Mode)
  BY <1>2, EpoutGood
<1>4. Good(d2, Mode)
  BY <1>3, EpinGood
<1>5. Good(d3, Mode)
  BY <1>4, SuspendGood
<1>6. Good(d4, Mode)
  BY <1>5, WakeupGood
<1>7. Good(d5, Mode)
  BY <1>6, StartOfFrameGood
<1>8. "RST" \in d5.intr <=> "RST" \in dev.intr
  BY <1>2, <1>3, <1>4, <1>5, <1>6, CausesKept DEF Good, Cause
<1>. HIDE DEF d5
<1>9. /\ d5 \in Dev /\ OneRequest(d5) /\ Covered(d5) /\ Quiet(d5, Mode)
  BY <1>7 DEF Good
<1>10. /\ dev' \in Dev
       /\ dev'.intr \subseteq {"STPF"}
       /\ dev'.tx_busy = d5.tx_busy /\ dev'.backup = d5.backup
       /\ IF "RXFNE" \in d5.intr
          THEN dev'.setupc_flag # 0 /\ dev'.req = d5.fifo
          ELSE dev'.setupc_flag = d5.setupc_flag /\ dev'.req = d5.req
       /\ IF "RST" \in d5.intr
          THEN dev'.status = "DEFAULT" /\ ~dev'.active /\ ~dev'.in
          ELSE /\ dev'.status = d5.status /\ dev'.active = d5.active
               /\ dev'.in = d5.in
  BY <1>1, <1>9, LastFields
<1>11. "IN" \notin dev'.intr /\ "RXFNE" \notin dev'.intr /\ "RST" \notin dev'.intr
  BY <1>10
<1>12. OneRequest(dev')
  BY <1>9, <1>10, <1>11 DEF OneRequest
<1>13. Covered(dev')
  BY <1>9, <1>10, <1>11 DEF Covered, Effective
<1>14. /\ usbd_int_rxfifo(d5).active = d5.active
       /\ dev.active \in BOOLEAN /\ renewed \in BOOLEAN /\ (Prompt => ~renewed)
  BY <1>1, <1>2, <1>9, LastFields, TypeIs DEF IInv, Good, Dev
<1>15. /\ "call" \in Mode <=> Prompt /\ pc \in {"test", "copy", "mark", "arm"}
       /\ "up" \in Mode <=> dev.active
       /\ "whole" \in Mode <=> ~renewed
       /\ "sending" \in Mode <=> ~renewed /\ pc \in {"copy", "mark", "arm"}
       /\ "arming" \in Mode <=> ~renewed /\ pc = "arm"
       /\ "fresh" \in Mode <=> ~known /\ "RST" \notin dev.intr
  BY DEF Mode
<1>16. Prompt => ~renewed'
  BY <1>1, <1>9, <1>14, <1>15 DEF Quiet
<1>17. Quiet(dev', Mode')
  <2>1. CASE "RST" \in d5.intr
    BY <1>10, <1>11, <2>1, QuietIs DEF Effective
  <2>2. CASE "RST" \notin d5.intr
    <3>1. /\ dev'.active = d5.active /\ dev'.in = d5.in
          /\ dev'.tx_busy = d5.tx_busy
          /\ Effective(dev') = Effective(d5) /\ (Pending(dev') => Pending(d5))
      BY <1>10, <1>11, <2>2 DEF Effective, Pending
    <3>2. renewed /\ ~renewed' => ~dev'.in
      BY <1>1, <1>9, <1>14, <1>15, <3>1 DEF Quiet
    <3>3. /\ ~renewed /\ d5.in => d5.tx_busy
          /\ ~renewed /\ pc \in {"copy", "mark", "arm"} => ~d5.in
          /\ ~renewed /\ pc = "arm" /\ dev.active /\ d5.active => d5.tx_busy
      BY <1>9, <1>15 DEF Quiet
    <3>4. /\ \/ ~known /\ "RST" \notin dev.intr
             \/ Prompt /\ pc \in {"test", "copy", "mark", "arm"}
             => (Effective(d5) = "ADDRESSED" => ~Pending(d5))
          /\ ~known /\ "RST" \notin dev.intr => ~d5.active
      BY <1>9, <1>15 DEF Quiet
    <3>5. ~d5.active => ~d5.in
      BY <1>9 DEF Covered
    <3>6. ~renewed' /\ pc = "arm" /\ d5.active => ~renewed /\ dev.active
      BY <1>1, <1>14
    <3>7. known' = known /\ pc' = pc /\ "RST" \notin dev.intr
      BY <1>1, <1>8, <2>2
    <3>. QED  BY <1>11, <3>1, <3>2, <3>3, <3>4, <3>5, <3>6, <3>7, QuietIs
  <2>. QED  BY <2>1, <2>2
<1>18. TypeOK'
  <2>1. txbuf \in 0 .. 2 /\ 0 \in 0 .. 2
    BY TypeIs DEF IInv
  <2>2. renewed' \in BOOLEAN
    BY <1>1, <1>14
  <2>. QED  BY <1>1, <1>10, <2>1, <2>2, TypeIs DEF IInv
<1>. QED  BY <1>10, <1>11, <1>12, <1>13, <1>16, <1>17, <1>18 DEF IInv, Good

\* The main loop, where it leaves dev alone.
LEMMA StayInductive ==
  ASSUME IInv, TypeOK', dev' = dev, known' = known, renewed' = renewed,
         pc' = "test" => pc = "send" /\ dev.status = "CONFIGURED",
         pc' = "copy" => pc = "test" /\ ~dev.tx_busy,
         pc' = "mark" => pc = "copy",
         pc' = "arm" => pc = "arm"
  PROVE  IInv'
<1>1. dev \in Dev /\ OneRequest(dev) /\ Covered(dev) /\ Quiet(dev, Mode)
  BY DEF IInv, Good
<1>2. ("IN" \in dev.intr /\ ~renewed => dev.tx_busy) /\ (Prompt => ~renewed)
  BY DEF IInv
<1>3. pc' = "test" => Effective(dev) # "ADDRESSED"
  BY DEF Effective
<1>4. ~renewed /\ pc' \in {"copy", "mark", "arm"} =>
        ~dev.in /\ "IN" \notin dev.intr
  BY <1>1, <1>2, QuietIs DEF Covered
<1>5. pc' \in {"copy", "mark", "arm"} => pc \in {"test", "copy", "mark", "arm"}
  OBVIOUS
<1>6. Quiet(dev, Mode')
  BY <1>1, <1>3, <1>4, <1>5, QuietIs
<1>. QED  BY <1>1, <1>2, <1>6 DEF IInv, Good

LEMMA MarkInductive ==
  ASSUME IInv, SendMark
  PROVE  IInv'
<1>1. /\ dev \in Dev /\ OneRequest(dev) /\ Covered(dev) /\ Quiet(dev, Mode)
      /\ ("IN" \in dev.intr /\ ~renewed => dev.tx_busy)
      /\ (Prompt => ~renewed)
  BY DEF IInv, Good
<1>2. /\ dev' = [dev EXCEPT !.tx_busy = TRUE]
      /\ pc = "mark" /\ pc' = "arm" /\ known' = known
      /\ bus' = bus /\ txbuf' = txbuf /\ calm' = calm /\ renewed' = renewed
  BY DEF SendMark
<1>3. dev' \in Dev
  BY <1>1, <1>2, Update
<1>4. /\ dev'.status = dev.status /\ dev'.backup = dev.backup
      /\ dev'.req = dev.req /\ dev'.setupc_flag = dev.setupc_flag /\ dev'.tx_busy
      /\ dev'.in = dev.in /\ dev'.active = dev.active /\ dev'.fifo = dev.fifo
      /\ dev'.intr = dev.intr
  BY <1>1, <1>2 DEF Dev
<1>5. OneRequest(dev') /\ Covered(dev')
  BY <1>1, <1>4 DEF OneRequest, Covered, Effective
<1>6. Quiet(dev', Mode')
  BY <1>1, <1>2, <1>4, QuietIs DEF Effective, Pending
<1>7. TypeOK'
  BY <1>2, <1>3, TypeIs DEF IInv, MainPC, InCall
<1>. QED  BY <1>1, <1>2, <1>3, <1>4, <1>5, <1>6, <1>7 DEF IInv, Good

LEMMA ArmInductive ==
  ASSUME IInv, SendArm
  PROVE  IInv'
<1>1. /\ dev \in Dev /\ OneRequest(dev) /\ Covered(dev) /\ Quiet(dev, Mode)
      /\ ("IN" \in dev.intr /\ ~renewed => dev.tx_busy)
      /\ (Prompt => ~renewed)
  BY DEF IInv, Good
<1>2. /\ dev' = [dev EXCEPT !.in = dev.active]
      /\ pc = "arm" /\ pc' = "loop" /\ known' = known /\ renewed' = renewed
      /\ bus' = bus /\ txbuf' = txbuf /\ calm' = calm
  BY DEF SendArm
<1>3. dev' \in Dev
  <2>1. dev.active \in BOOLEAN
    BY <1>1 DEF Dev
  <2>. QED  BY <1>1, <1>2, <2>1, Update
<1>4. /\ dev'.status = dev.status /\ dev'.backup = dev.backup
      /\ dev'.req = dev.req /\ dev'.setupc_flag = dev.setupc_flag
      /\ dev'.tx_busy = dev.tx_busy
      /\ dev'.in = dev.active /\ dev'.active = dev.active /\ dev'.fifo = dev.fifo
      /\ dev'.intr = dev.intr
  BY <1>1, <1>2 DEF Dev
<1>5. ~renewed => "IN" \notin dev.intr /\ (dev.active => dev.tx_busy)
  BY <1>1, <1>2, QuietIs
<1>6. OneRequest(dev') /\ Covered(dev')
  BY <1>1, <1>4, <1>5 DEF OneRequest, Covered, Effective
<1>7. Quiet(dev', Mode')
  BY <1>1, <1>2, <1>4, QuietIs DEF Effective, Pending
<1>8. TypeOK'
  BY <1>2, <1>3, TypeIs DEF IInv, MainPC, InCall
<1>. QED  BY <1>1, <1>2, <1>3, <1>4, <1>5, <1>6, <1>7, <1>8 DEF IInv, Good

LEMMA MainInductive ==
  ASSUME IInv, Main
  PROVE  IInv'
<1>1. /\ dev \in Dev /\ OneRequest(dev) /\ Covered(dev) /\ Quiet(dev, Mode)
      /\ TypeOK /\ ("IN" \in dev.intr /\ ~renewed => dev.tx_busy)
      /\ (Prompt => ~renewed)
  BY DEF IInv, Good
<1>2. ASSUME usb_bridge_init
      PROVE  IInv'
  <2>1. /\ dev' = [dev EXCEPT !.rx_cb = TRUE]
        /\ pc = "init" /\ pc' = "loop" /\ known' = known
        /\ bus' = bus /\ txbuf' = txbuf /\ calm' = calm /\ renewed' = renewed
    BY <1>2 DEF usb_bridge_init
  <2>2. dev' \in Dev
    BY <1>1, <2>1, Update
  <2>3. /\ dev'.status = dev.status /\ dev'.backup = dev.backup
        /\ dev'.req = dev.req /\ dev'.setupc_flag = dev.setupc_flag
        /\ dev'.tx_busy = dev.tx_busy /\ dev'.in = dev.in
        /\ dev'.active = dev.active /\ dev'.fifo = dev.fifo /\ dev'.intr = dev.intr
    BY <1>1, <2>1 DEF Dev
  <2>4. OneRequest(dev') /\ Covered(dev')
    BY <1>1, <2>3 DEF OneRequest, Covered, Effective
  <2>5. Quiet(dev', Mode')
    BY <1>1, <2>1, <2>3, QuietIs DEF Effective, Pending
  <2>6. TypeOK'
    BY <1>1, <2>1, <2>2, TypeIs DEF MainPC, InCall
  <2>. QED  BY <1>1, <2>1, <2>2, <2>3, <2>4, <2>5, <2>6 DEF IInv, Good
<1>3. ASSUME DrainConfigured \/ DrainReady \/ DrainBusy \/ SysexConfigured
             \/ SysexWait \/ SysexLook \/ SendConfigured \/ SendTest \/ SendCopy
      PROVE  IInv'
  <2>1. /\ dev' = dev /\ bus' = bus /\ known' = known /\ renewed' = renewed
        /\ pc' = "test" => pc = "send" /\ dev.status = "CONFIGURED"
        /\ pc' = "copy" => pc = "test" /\ ~dev.tx_busy
        /\ pc' = "mark" => pc = "copy"
        /\ pc' # "arm"
    BY <1>3 DEF DrainConfigured, DrainReady, DrainBusy, SysexConfigured,
                SysexWait, SysexLook, SendConfigured, SendTest, SendCopy
  <2>2. pc' \in MainPC
    BY <1>3 DEF DrainConfigured, DrainReady, DrainBusy, SysexConfigured,
                SysexWait, SysexLook, SendConfigured, SendTest, SendCopy, MainPC,
                InCall
  <2>3. txbuf' \in 0 .. 2
    <3>1. txbuf \in 0 .. 2 /\ (txbuf' = txbuf \/ txbuf' = 1 \/ txbuf' = 2)
      BY <1>1, <1>3, TypeIs
         DEF DrainConfigured, DrainReady, DrainBusy, SysexConfigured, SysexWait,
             SysexLook, SendConfigured, SendTest, SendCopy
    <3>. QED  BY <3>1
  <2>4. calm' \in BOOLEAN
    BY <1>1, <1>3, TypeIs
       DEF DrainConfigured, DrainReady, DrainBusy, SysexConfigured, SysexWait,
           SysexLook, SendConfigured, SendTest, SendCopy
  <2>5. TypeOK'
    BY <1>1, <2>1, <2>2, <2>3, <2>4, TypeIs
  <2>. QED  BY <2>1, <2>5, StayInductive
<1>. QED  BY <1>2, <1>3, MarkInductive, ArmInductive DEF Main

\* A cause that is latched, other than those that Good is about.
LEMMA LatchInductive ==
  ASSUME IInv, NEW c \in Cause \ {"IN", "RXFNE"},
         dev' \in Dev, dev'.intr = dev.intr \cup {c},
         dev'.status = dev.status, dev'.backup = dev.backup, dev'.req = dev.req,
         dev'.setupc_flag = dev.setupc_flag, dev'.tx_busy = dev.tx_busy,
         dev'.in = dev.in, dev'.active = dev.active, dev'.fifo = dev.fifo,
         known' = known \/ c = "RST", known' \in BOOLEAN,
         bus' \in {"active", "suspended"}, UNCHANGED <<pc, txbuf, calm, renewed>>
  PROVE  IInv'
<1>1. /\ dev \in Dev /\ OneRequest(dev) /\ Covered(dev) /\ Quiet(dev, Mode)
      /\ TypeOK /\ ("IN" \in dev.intr /\ ~renewed => dev.tx_busy)
      /\ (Prompt => ~renewed)
  BY DEF IInv, Good
<1>2. /\ "IN" \in dev'.intr <=> "IN" \in dev.intr
      /\ "RXFNE" \in dev'.intr <=> "RXFNE" \in dev.intr
      /\ "RST" \in dev.intr => "RST" \in dev'.intr
      /\ "RST" \in dev'.intr \/ known' = known
  OBVIOUS
<1>3. OneRequest(dev') /\ Covered(dev')
  BY <1>1, <1>2 DEF OneRequest, Covered, Effective
<1>4. Quiet(dev', Mode')
  BY <1>1, <1>2, QuietIs DEF Effective, Pending
<1>5. TypeOK'
  BY <1>1, TypeIs
<1>. QED  BY <1>1, <1>2, <1>3, <1>4, <1>5 DEF IInv, Good

LEMMA HostInInductive ==
  ASSUME IInv, HostIn
  PROVE  IInv'
<1>. DEFINE u == [dev EXCEPT !.in = FALSE]
<1>1. /\ dev \in Dev /\ OneRequest(dev) /\ Covered(dev) /\ Quiet(dev, Mode)
      /\ TypeOK /\ (Prompt => ~renewed)
  BY DEF IInv, Good
<1>2. /\ dev' = [u EXCEPT !.intr = dev.intr \cup {"IN"}] /\ dev.in
      /\ UNCHANGED <<bus, known, pc, txbuf, calm, renewed>>
  BY DEF HostIn
<1>3. u \in Dev /\ dev.intr \cup {"IN"} \in SUBSET Cause
  <2>1. u \in Dev
    BY <1>1, Update
  <2>2. dev.intr \cup {"IN"} \in SUBSET Cause
    BY <1>1 DEF Dev, Cause
  <2>. QED  BY <2>1, <2>2
<1>4. dev' \in Dev
  BY <1>2, <1>3, Update
<1>5. /\ dev'.status = dev.status /\ dev'.backup = dev.backup
      /\ dev'.req = dev.req /\ dev'.setupc_flag = dev.setupc_flag
      /\ dev'.tx_busy = dev.tx_busy /\ ~dev'.in
      /\ dev'.active = dev.active /\ dev'.fifo = dev.fifo
      /\ dev'.intr = dev.intr \cup {"IN"}
  BY <1>1, <1>2 DEF Dev
<1>6. /\ "RXFNE" \in dev'.intr <=> "RXFNE" \in dev.intr
      /\ "RST" \in dev'.intr <=> "RST" \in dev.intr
  BY <1>5
<1>7. OneRequest(dev') /\ Covered(dev')
  BY <1>1, <1>5, <1>6 DEF OneRequest, Covered, Effective
<1>8. Quiet(dev', Mode')
  BY <1>1, <1>2, <1>5, <1>6, QuietIs DEF Effective, Pending
<1>9. TypeOK' /\ (~renewed => dev'.tx_busy)
  BY <1>1, <1>2, <1>4, <1>5, QuietIs, TypeIs
<1>. QED  BY <1>1, <1>2, <1>4, <1>7, <1>8, <1>9 DEF IInv, Good

LEMMA HostSetupInductive ==
  ASSUME IInv, HostSetup
  PROVE  IInv'
<1>1. /\ dev \in Dev /\ OneRequest(dev) /\ Covered(dev) /\ Quiet(dev, Mode)
      /\ TypeOK /\ ("IN" \in dev.intr /\ ~renewed => dev.tx_busy)
      /\ (Prompt => ~renewed)
  BY DEF IInv, Good
<1>2. PICK r \in IF known THEN Request \ {"address"} ELSE {"address"} :
        dev' = [dev EXCEPT !.fifo = r, !.intr = @ \cup {"RXFNE"}]
  BY DEF HostSetup
<1>3. /\ dev.setupc_flag = 0 /\ "RST" \notin dev.intr /\ known' = TRUE
      /\ Prompt => pc \notin {"test", "copy", "mark", "arm"}
      /\ UNCHANGED <<bus, pc, txbuf, calm, renewed>>
  BY DEF HostSetup, InCall
<1>4. r \in Request /\ (r = "address" => ~known)
  BY <1>2 DEF Request
<1>5. dev' \in Dev
  <2>1. [dev EXCEPT !.fifo = r] \in Dev
    BY <1>1, <1>4, Update
  <2>2. dev.intr \cup {"RXFNE"} \in SUBSET Cause
    BY <1>1 DEF Dev, Cause
  <2>. QED  BY <1>2, <2>1, <2>2, Update
<1>6. /\ dev'.status = dev.status /\ dev'.backup = dev.backup
      /\ dev'.req = dev.req /\ dev'.setupc_flag = dev.setupc_flag
      /\ dev'.tx_busy = dev.tx_busy /\ dev'.in = dev.in
      /\ dev'.active = dev.active /\ dev'.fifo = r
      /\ dev'.intr = dev.intr \cup {"RXFNE"}
  BY <1>1, <1>2 DEF Dev
<1>7. "IN" \in dev'.intr <=> "IN" \in dev.intr
  BY <1>6
<1>8. r = "address" => ~dev.active
  BY <1>1, <1>3, <1>4, QuietIs
<1>9. dev'.setupc_flag = 0
  BY <1>3, <1>6
<1>10. OneRequest(dev') /\ Covered(dev')
  BY <1>1, <1>4, <1>6, <1>7, <1>8, <1>9 DEF OneRequest, Covered, Effective
<1>11. Quiet(dev', Mode')
  BY <1>1, <1>3, <1>6, <1>7, QuietIs
<1>12. TypeOK'
  BY <1>1, <1>3, <1>5, TypeIs
<1>. QED  BY <1>1, <1>3, <1>5, <1>6, <1>7, <1>10, <1>11, <1>12 DEF IInv, Good

\* The host's and the core's other steps only latch a cause, or clear a flag
\* that Good is not about.
LEMMA HostInductive ==
  ASSUME IInv, Host
  PROVE  IInv'
<1>1. dev \in Dev /\ TypeOK
  BY DEF IInv, Good
<1>2. \A c \in Cause : dev.intr \cup {c} \in SUBSET Cause
  BY <1>1 DEF Dev
<1>3. ASSUME NEW c \in Cause \ {"IN", "RXFNE"}, Latch(c),
             known' = known \/ c = "RST", known' \in BOOLEAN,
             bus' \in {"active", "suspended"}, UNCHANGED <<pc, txbuf, calm, renewed>>
      PROVE  IInv'
  <2>1. dev' = [dev EXCEPT !.intr = dev.intr \cup {c}]
    BY <1>3 DEF Latch
  <2>2. dev' \in Dev
    BY <1>1, <1>2, <2>1, Update
  <2>3. /\ dev'.status = dev.status /\ dev'.backup = dev.backup
        /\ dev'.req = dev.req /\ dev'.setupc_flag = dev.setupc_flag
        /\ dev'.tx_busy = dev.tx_busy /\ dev'.in = dev.in
        /\ dev'.active = dev.active /\ dev'.fifo = dev.fifo
        /\ dev'.intr = dev.intr \cup {c}
    BY <1>1, <2>1 DEF Dev
  <2>. QED  BY <1>3, <2>2, <2>3, LatchInductive
<1>4. known \in BOOLEAN /\ bus \in {"active", "suspended"}
  BY <1>1, TypeIs
<1>5. ASSUME HostOut
      PROVE  IInv'
  <2>. DEFINE u == [dev EXCEPT !.out = FALSE]
  <2>1. u \in Dev
    BY <1>1, Update
  <2>2. dev' = [u EXCEPT !.intr = dev.intr \cup {"OUT"}]
    BY <1>5 DEF HostOut
  <2>3. "OUT" \in Cause \ {"IN", "RXFNE"}
    BY DEF Cause
  <2>4. dev' \in Dev
    BY <1>2, <2>1, <2>2, <2>3, Update
  <2>5. /\ dev'.status = dev.status /\ dev'.backup = dev.backup
        /\ dev'.req = dev.req /\ dev'.setupc_flag = dev.setupc_flag
        /\ dev'.tx_busy = dev.tx_busy /\ dev'.in = dev.in
        /\ dev'.active = dev.active /\ dev'.fifo = dev.fifo
        /\ dev'.intr = dev.intr \cup {"OUT"}
    BY <1>1, <2>2 DEF Dev
  <2>6. UNCHANGED <<bus, known, pc, txbuf, calm, renewed>>
    BY <1>5 DEF HostOut
  <2>. QED  BY <1>4, <2>3, <2>4, <2>5, <2>6, LatchInductive
<1>6. ASSUME CoreSetupDone
      PROVE  IInv'
  <2>. DEFINE u == [dev EXCEPT !.due = FALSE]
  <2>1. u \in Dev
    BY <1>1, Update
  <2>2. dev' = [u EXCEPT !.intr = dev.intr \cup {"STPF"}]
    BY <1>6 DEF CoreSetupDone
  <2>3. "STPF" \in Cause \ {"IN", "RXFNE"}
    BY DEF Cause
  <2>4. dev' \in Dev
    BY <1>2, <2>1, <2>2, <2>3, Update
  <2>5. /\ dev'.status = dev.status /\ dev'.backup = dev.backup
        /\ dev'.req = dev.req /\ dev'.setupc_flag = dev.setupc_flag
        /\ dev'.tx_busy = dev.tx_busy /\ dev'.in = dev.in
        /\ dev'.active = dev.active /\ dev'.fifo = dev.fifo
        /\ dev'.intr = dev.intr \cup {"STPF"}
    BY <1>1, <2>2 DEF Dev
  <2>6. UNCHANGED <<bus, known, pc, txbuf, calm, renewed>>
    BY <1>6 DEF CoreSetupDone
  <2>. QED  BY <1>4, <2>3, <2>4, <2>5, <2>6, LatchInductive
<1>7. {"SOF", "SP", "WKUP", "RST"} \subseteq Cause \ {"IN", "RXFNE"}
  BY DEF Cause
<1>8. ASSUME HostFrame
      PROVE  IInv'
  BY <1>3, <1>4, <1>7, <1>8 DEF HostFrame
<1>9. ASSUME HostSuspend
      PROVE  IInv'
  BY <1>3, <1>4, <1>7, <1>9 DEF HostSuspend
<1>10. ASSUME HostResume
       PROVE  IInv'
  BY <1>3, <1>4, <1>7, <1>10 DEF HostResume
<1>11. ASSUME HostReset
       PROVE  IInv'
  BY <1>3, <1>4, <1>7, <1>11 DEF HostReset
<1>. QED  BY <1>5, <1>6, <1>8, <1>9, <1>10, <1>11, HostInInductive,
             HostSetupInductive DEF Host

LEMMA NextInductive == IInv /\ [Next]_vars => IInv'
<1>. SUFFICES ASSUME IInv, [Next]_vars
              PROVE  IInv'
  OBVIOUS
<1>1. ASSUME UNCHANGED vars
      PROVE  IInv'
  <2>1. Mode' = Mode /\ dev' = dev /\ renewed' = renewed
    BY <1>1 DEF vars, Mode
  <2>2. TypeOK'
    BY <1>1, TypeIs DEF vars, IInv
  <2>. QED  BY <2>1, <2>2 DEF IInv
<1>. QED  BY <1>1, IsrInductive, MainInductive, HostInductive DEF Next

LEMMA Invariance == Spec => []IInv
BY InitInductive, NextInductive, PTL DEF Spec

-----------------------------------------------------------------------------
\* The device's state keeps its type through every chain of handlers
\* (drv_usbd_int.c:54-140).
THEOREM TypeCorrect == Spec => []TypeOK
BY Invariance, PTL DEF IInv

\* tx_busy covers the transfer although usb_midi_send and the interrupt write it
\* without a lock (usb_midi_class.c:134-137, 160-167): if interrupts are prompt,
\* and if not, in every configuration that did not begin just before the
\* transfer was started.
THEOREM BusyIsSound == Spec => []BusyCoversTransfer
<1>1. IInv => BusyCoversTransfer
  <2>. SUFFICES ASSUME IInv, ~renewed
                PROVE  /\ dev.in => dev.tx_busy /\ pc # "arm"
                       /\ pc = "arm" /\ dev.status = "CONFIGURED" => dev.tx_busy
    BY DEF IInv, BusyCoversTransfer, Undisturbed
  <2>1. Covered(dev) /\ Quiet(dev, Mode)
    BY DEF IInv, Good
  <2>. QED  BY <2>1, QuietIs DEF Covered, Effective
<1>. QED  BY <1>1, Invariance, PTL

\* The buffer of a transfer is not written before its completion has been
\* noticed, by the main loop or by the interrupt (usb_midi_class.c:46, 160-167):
\* if interrupts are prompt, and if not, in every configuration that did not
\* begin just before a transfer was started.
THEOREM BufferNotTorn == Spec => TxBufStable
<1>1. IInv /\ [Next]_vars =>
        [/\ Undisturbed
         /\ dev.in \/ (dev.status = "CONFIGURED" /\ "IN" \in dev.intr)
         => txbuf' = txbuf]_vars
  <2>. SUFFICES ASSUME IInv, Next, Undisturbed,
                       dev.in \/ (dev.status = "CONFIGURED" /\ "IN" \in dev.intr)
                PROVE  txbuf' = txbuf
    BY DEF vars
  <2>1. Covered(dev) /\ Quiet(dev, Mode) /\ ~renewed
    BY DEF IInv, Good, Undisturbed
  <2>2. ~SendCopy /\ dev.active
    BY <2>1, QuietIs DEF SendCopy, Covered, Effective
  <2>3. CASE usbd_isr
    BY <2>2, <2>3 DEF usbd_isr, Began
  <2>4. CASE Main
    BY <2>2, <2>4
       DEF Main, usb_bridge_init, DrainConfigured, DrainReady, DrainBusy, SysexConfigured,
           SysexWait, SysexLook, SendConfigured, SendTest, SendMark, SendArm
  <2>5. CASE Host
    BY <2>5 DEF Host, HostIn, HostOut, HostSetup, CoreSetupDone, HostFrame,
                HostSuspend, HostResume, HostReset
  <2>. QED  BY <2>3, <2>4, <2>5 DEF Next
<1>. QED  BY <1>1, Invariance, PTL DEF Spec, TxBufStable

-----------------------------------------------------------------------------
(* Which frames are lost.                                                  *)

\* What the main loop has tested stays so as long as no status changes.
StillReady ==
  /\ calm /\ pc \in {"busy", "look", "send", "test"} => dev.status = "CONFIGURED"
  /\ calm /\ pc \in {"send", "test"} => ~dev.tx_busy

\* No handler makes the device busy.
LEMMA BusyFalls ==
  ASSUME NEW d \in Dev
  PROVE  /\ usbd_int_epout(d).tx_busy => d.tx_busy
         /\ usbd_int_epin(d).tx_busy => d.tx_busy
         /\ usbd_int_suspend(d).tx_busy = d.tx_busy
         /\ Wakeup(d).tx_busy = d.tx_busy
         /\ StartOfFrame(d).tx_busy => d.tx_busy
<1>. DEFINE t == usbd_setup_transc(d)
<1>1. t \in Dev /\ (t.tx_busy => d.tx_busy)
  BY RequestFields
<1>. HIDE DEF t
<1>2. usbd_int_epout(d).tx_busy => d.tx_busy
  <2>. DEFINE ep0 == IF "STPF" \in d.intr /\ d.setupc_flag # 0
                     THEN [t EXCEPT !.setupc_flag = 0, !.intr = @ \ {"STPF"}]
                     ELSE d
  <2>1. ep0.tx_busy => d.tx_busy
    BY <1>1 DEF Dev
  <2>2. usbd_int_epout(d) = IF "OUT" \in d.intr THEN usbd_out_transc(ep0) ELSE ep0
    BY DEF usbd_int_epout, t
  <2>3. usbd_out_transc(ep0).tx_busy = ep0.tx_busy
    <3>1. [ep0 EXCEPT !.out = TRUE].tx_busy = ep0.tx_busy
      BY <1>1 DEF Dev
    <3>. HIDE DEF ep0
    <3>. QED  BY <3>1 DEF usbd_out_transc, midi_out
  <2>. HIDE DEF ep0
  <2>. QED  BY <2>1, <2>2, <2>3
<1>3. usbd_int_epin(d).tx_busy => d.tx_busy
  BY DEF Dev, usbd_int_epin, usbd_in_transc, midi_in
<1>4. usbd_int_suspend(d).tx_busy = d.tx_busy
  BY DEF Dev, usbd_int_suspend
<1>5. Wakeup(d).tx_busy = d.tx_busy
  BY DEF Dev, Wakeup
<1>6. StartOfFrame(d).tx_busy => d.tx_busy
  <2>1. CASE "SOF" \in d.intr /\ d.setupc_flag = 1
    <3>1. StartOfFrame(d) = [d EXCEPT !.setupc_flag = 2]
      BY <2>1 DEF StartOfFrame
    <3>. QED  BY <3>1 DEF Dev
  <2>2. CASE "SOF" \in d.intr /\ d.setupc_flag = 2
    <3>1. StartOfFrame(d) = [t EXCEPT !.setupc_flag = 0]
      BY <2>2 DEF StartOfFrame, t
    <3>. QED  BY <1>1, <3>1 DEF Dev
  <2>3. CASE ~("SOF" \in d.intr /\ d.setupc_flag \in {1, 2})
    <3>1. StartOfFrame(d) = d
      BY <2>3 DEF StartOfFrame
    <3>. QED  BY <3>1
  <2>. QED  BY <2>1, <2>2, <2>3
<1>. QED  BY <1>2, <1>3, <1>4, <1>5, <1>6

LEMMA IsrBusyFalls ==
  ASSUME IInv, usbd_isr
  PROVE  dev'.tx_busy => dev.tx_busy
<1>. DEFINE d1 == usbd_int_epout(dev)
            d2 == usbd_int_epin(d1)
            d3 == usbd_int_suspend(d2)
            d4 == Wakeup(d3)
            d5 == StartOfFrame(d4)
<1>1. dev' = [usbd_int_reset(usbd_int_rxfifo(d5)) EXCEPT !.intr = @ \cap {"STPF"}]
  BY DEF usbd_isr
<1>2. Good(dev, Mode)
  BY DEF IInv
<1>3. Good(d1, Mode)
  BY <1>2, EpoutGood
<1>4. Good(d2, Mode)
  BY <1>3, EpinGood
<1>5. Good(d3, Mode)
  BY <1>4, SuspendGood
<1>6. Good(d4, Mode)
  BY <1>5, WakeupGood
<1>7. Good(d5, Mode)
  BY <1>6, StartOfFrameGood
<1>8. d1.tx_busy => dev.tx_busy
  BY <1>2, BusyFalls DEF Good
<1>9. d2.tx_busy => d1.tx_busy
  BY <1>3, BusyFalls DEF Good
<1>10. d3.tx_busy = d2.tx_busy
  BY <1>4, BusyFalls DEF Good
<1>11. d4.tx_busy = d3.tx_busy
  BY <1>5, BusyFalls DEF Good
<1>12. d5.tx_busy => d4.tx_busy
  BY <1>6, BusyFalls DEF Good
<1>. HIDE DEF d1, d2, d3, d4, d5
<1>13. dev'.tx_busy = d5.tx_busy
  BY <1>1, <1>7, LastFields DEF Good
<1>. QED  BY <1>8, <1>9, <1>10, <1>11, <1>12, <1>13

LEMMA StillReadyInductive == IInv /\ StillReady /\ [Next]_vars => StillReady'
<1>. SUFFICES ASSUME IInv, StillReady, [Next]_vars, calm',
                     pc' \in {"busy", "look", "send", "test"}
              PROVE  /\ dev'.status = "CONFIGURED"
                     /\ pc' \in {"send", "test"} => ~dev'.tx_busy
  BY DEF StillReady
<1>1. dev \in Dev
  BY DEF IInv, Good
<1>2. CASE usbd_isr
  <2>1. calm /\ dev'.status = dev.status /\ pc' = pc
    <3>1. calm' = (calm /\ dev'.status = dev.status)
      <4>. DEFINE d == usbd_int_reset(usbd_int_rxfifo(StartOfFrame(Wakeup(
                         usbd_int_suspend(usbd_int_epin(usbd_int_epout(dev)))))))
      <4>1. /\ dev' = [d EXCEPT !.intr = @ \cap {"STPF"}]
            /\ calm' = (calm /\ d.status = dev.status)
        BY <1>2 DEF usbd_isr
      <4>. HIDE DEF d
      <4>2. "status" \in DOMAIN dev'
        BY <1>2, IsrInductive DEF IInv, Good, Dev
      <4>3. dev'.status = d.status
        BY <4>1, <4>2
      <4>. QED  BY <4>1, <4>3
    <3>2. pc' = pc
      BY <1>2 DEF usbd_isr
    <3>. QED  BY <3>1, <3>2
  <2>. QED  BY <1>2, <2>1, IsrBusyFalls DEF StillReady
<1>3. CASE Main
  <2>1. dev' = dev
    BY <1>3 DEF Main, usb_bridge_init, DrainConfigured, DrainReady, DrainBusy, SysexConfigured,
                SysexWait, SysexLook, SendConfigured, SendTest, SendCopy, SendMark,
                SendArm
  <2>2. /\ \/ dev.status = "CONFIGURED"
           \/ calm /\ pc \in {"busy", "look", "send", "test"}
        /\ pc' \in {"send", "test"} =>
             ~dev.tx_busy \/ (calm /\ pc \in {"send", "test"})
    BY <1>3 DEF Main, usb_bridge_init, DrainConfigured, DrainReady, DrainBusy, SysexConfigured,
                SysexWait, SysexLook, SendConfigured, SendTest, SendCopy, SendMark,
                SendArm
  <2>. QED  BY <2>1, <2>2 DEF StillReady
<1>4. CASE Host
  <2>1. calm' = calm /\ pc' = pc
    BY <1>4 DEF Host, HostIn, HostOut, HostSetup, CoreSetupDone, HostFrame,
                HostSuspend, HostResume, HostReset
  <2>2. dev'.status = dev.status /\ dev'.tx_busy = dev.tx_busy
    BY <1>1, <1>4 DEF Host, HostIn, HostOut, HostSetup, CoreSetupDone, HostFrame,
                      HostSuspend, HostResume, HostReset, Latch, Dev
  <2>. QED  BY <2>1, <2>2 DEF StillReady
<1>5. CASE UNCHANGED vars
  BY <1>5 DEF vars, StillReady
<1>. QED  BY <1>2, <1>3, <1>4, <1>5 DEF Next

\* A frame that has been taken out of the queue is refused only if an interrupt
\* changed the device's status meanwhile (usb_midi_bridge.c:117-119, 164-166).
THEOREM LosesOnlyByBusEvent == Spec => LostOnlyByBusEvent
<1>1. Init => StillReady
  BY DEF Init, StillReady
<1>2. IInv /\ StillReady /\ [Next]_vars => 
        [pc' = "loop" /\ pc \in {"send", "test"} => ~calm]_vars
  <2>. SUFFICES ASSUME IInv, StillReady, Next, pc' = "loop",
                       pc \in {"send", "test"}
                PROVE  ~calm
    BY DEF vars
  <2>1. CASE usbd_isr
    BY <2>1 DEF usbd_isr
  <2>2. CASE Main
    BY <2>2 DEF Main, usb_bridge_init, DrainConfigured, DrainReady, DrainBusy, SysexConfigured,
                SysexWait, SysexLook, SendConfigured, SendTest, SendCopy, SendMark,
                SendArm, StillReady
  <2>3. CASE Host
    BY <2>3 DEF Host, HostIn, HostOut, HostSetup, CoreSetupDone, HostFrame,
                HostSuspend, HostResume, HostReset
  <2>. QED  BY <2>1, <2>2, <2>3 DEF Next
<1>. QED  BY <1>1, <1>2, StillReadyInductive, Invariance, PTL
          DEF Spec, LostOnlyByBusEvent

-----------------------------------------------------------------------------
(* Reception, if interrupts are prompt.                                    *)

\* The endpoints live as long as the configuration, suspended or not.
Steady(d) ==
  /\ d.active <=> Effective(d) = "CONFIGURED"
  /\ d.backup # "SUSPENDED"

Armed(d) == d.active => d.out \/ "RST" \in d.intr

\* What promptness keeps apart: the device is suspended once at a time, and
\* while it is, no packet comes, unless a reset is about to be handled.
Apart ==
  /\ "SP" \in dev.intr => /\ dev.status # "SUSPENDED"
                          /\ bus = "suspended" \/ "RST" \in dev.intr
  /\ dev.status = "SUSPENDED" =>
       \/ bus = "suspended"
       \/ "WKUP" \in dev.intr
       \/ "RST" \in dev.intr
  /\ dev.status = "SUSPENDED" /\ "OUT" \in dev.intr => "RST" \in dev.intr

Receiving(d) == d.active => d.out \/ "OUT" \in d.intr

PromptInv == Steady(dev) /\ Apart /\ Receiving(dev)

\* A request starts the endpoints armed, and does not suspend the device.
LEMMA RequestReceives ==
  ASSUME NEW d \in Dev, OneRequest(d), Steady(d), d.setupc_flag # 0,
         NEW i \in SUBSET d.intr
  PROVE  LET e == [usbd_setup_transc(d) EXCEPT !.setupc_flag = 0, !.intr = i]
         IN  /\ Steady(e)
             /\ e.active => e.out \/ (d.active /\ e.out = d.out)
             /\ e.status = "SUSPENDED" => d.status = "SUSPENDED"
             /\ e.intr = i
<1>. DEFINE t == usbd_setup_transc(d)
            e == [t EXCEPT !.setupc_flag = 0, !.intr = i]
<1>1. t \in Dev
  BY RequestFields
<1>2. /\ t.backup = d.backup
      /\ t.active => t.out \/ (d.active /\ t.out = d.out)
      /\ \/ t = d
         \/ /\ d.req = "address" /\ t.status = "ADDRESSED"
            /\ t.active = d.active
         \/ t.status = "CONFIGURED" /\ t.active
         \/ t.status = "ADDRESSED" /\ ~t.active
  BY RequestFields
<1>. HIDE DEF t
<1>3. /\ e.status = t.status /\ e.backup = t.backup /\ e.active = t.active
      /\ e.out = t.out /\ e.intr = i
  BY <1>1 DEF Dev
<1>. HIDE DEF e
<1>4. d.req = "address" => ~d.active
  BY DEF OneRequest
<1>5. Steady(e)
  BY <1>2, <1>3, <1>4 DEF Steady, Effective
<1>6. e.status = "SUSPENDED" => d.status = "SUSPENDED"
  BY <1>2, <1>3
<1>. QED  BY <1>2, <1>3, <1>5, <1>6 DEF e, t

\* A packet that has come finds the device configured, or a reset does.
LEMMA EpoutReceives ==
  ASSUME NEW d \in Dev, OneRequest(d), Steady(d),
         d.active => d.out \/ "OUT" \in d.intr,
         d.status = "SUSPENDED" /\ "OUT" \in d.intr => "RST" \in d.intr
  PROVE  /\ Steady(usbd_int_epout(d)) /\ Armed(usbd_int_epout(d))
         /\ usbd_int_epout(d).status = "SUSPENDED" => d.status = "SUSPENDED"
<1>. DEFINE ep0 == IF "STPF" \in d.intr /\ d.setupc_flag # 0
                   THEN [usbd_setup_transc(d) EXCEPT !.setupc_flag = 0,
                                                     !.intr = d.intr \ {"STPF"}]
                   ELSE d
            e == usbd_int_epout(d)
<1>1. usbd_setup_transc(d) \in Dev /\ usbd_setup_transc(d).intr = d.intr
  BY RequestFields
<1>2. ep0 \in Dev
  <2>. DEFINE u == [usbd_setup_transc(d) EXCEPT !.setupc_flag = 0]
  <2>1. 0 \in 0 .. 2 /\ d.intr \ {"STPF"} \in SUBSET Cause
    BY DEF Dev
  <2>2. u \in Dev
    BY <1>1, <2>1, Update
  <2>3. [u EXCEPT !.intr = d.intr \ {"STPF"}] \in Dev
    BY <2>1, <2>2, Update
  <2>. QED  BY <2>3
<1>3. e = IF "OUT" \in d.intr THEN usbd_out_transc(ep0) ELSE ep0
  BY <1>1 DEF usbd_int_epout
<1>4. /\ Steady(ep0)
      /\ ep0.active => ep0.out \/ (d.active /\ ep0.out = d.out)
      /\ ep0.status = "SUSPENDED" => d.status = "SUSPENDED"
      /\ "RST" \in ep0.intr <=> "RST" \in d.intr
  <2>1. CASE "STPF" \in d.intr /\ d.setupc_flag # 0
    <3>. DEFINE i == d.intr \ {"STPF"}
                r == [usbd_setup_transc(d) EXCEPT !.setupc_flag = 0, !.intr = i]
    <3>1. i \in SUBSET d.intr /\ ("RST" \in i <=> "RST" \in d.intr)
      OBVIOUS
    <3>. HIDE DEF i
    <3>2. /\ Steady(r)
          /\ r.active => r.out \/ (d.active /\ r.out = d.out)
          /\ r.status = "SUSPENDED" => d.status = "SUSPENDED"
          /\ r.intr = i
      BY <2>1, <3>1, RequestReceives
    <3>3. ep0 = r
      BY <2>1 DEF i
    <3>. QED  BY <3>1, <3>2, <3>3
  <2>2. CASE ~("STPF" \in d.intr /\ d.setupc_flag # 0)
    BY <2>2
  <2>. QED  BY <2>1, <2>2
<1>. HIDE DEF ep0, e
<1>5. CASE "OUT" \in d.intr /\ ep0.status = "CONFIGURED"
  <2>1. e = [ep0 EXCEPT !.out = TRUE]
    BY <1>3, <1>5 DEF usbd_out_transc, midi_out
  <2>2. /\ e.out /\ e.active = ep0.active /\ e.status = ep0.status
        /\ e.backup = ep0.backup /\ e.intr = ep0.intr
    BY <1>2, <2>1 DEF Dev
  <2>. QED  BY <1>4, <2>2 DEF Steady, Effective, Armed, e
<1>6. CASE ~("OUT" \in d.intr /\ ep0.status = "CONFIGURED")
  <2>1. e = ep0
    BY <1>3, <1>6 DEF usbd_out_transc
  <2>2. Armed(ep0)
    <3>1. CASE "OUT" \in d.intr
      BY <1>4, <1>6, <3>1 DEF Armed, Steady, Effective
    <3>2. CASE "OUT" \notin d.intr
      BY <1>4, <3>2 DEF Armed
    <3>. QED  BY <3>1, <3>2
  <2>. QED  BY <1>4, <2>1, <2>2 DEF e
<1>. QED  BY <1>5, <1>6

\* The handlers after it, up to the one of the receive FIFO.
LEMMA EpinReceives ==
  ASSUME NEW d \in Dev, Steady(d), Armed(d)
  PROVE  /\ Steady(usbd_int_epin(d)) /\ Armed(usbd_int_epin(d))
         /\ usbd_int_epin(d).status = d.status
BY DEF Dev, Steady, Effective, Armed, usbd_int_epin, usbd_in_transc, midi_in

LEMMA SuspendReceives ==
  ASSUME NEW d \in Dev, Steady(d), Armed(d),
         "SP" \in d.intr => d.status # "SUSPENDED"
  PROVE  /\ Steady(usbd_int_suspend(d)) /\ Armed(usbd_int_suspend(d))
         /\ "SP" \notin d.intr => usbd_int_suspend(d).status = d.status
<1>. DEFINE e == usbd_int_suspend(d)
<1>1. CASE "SP" \in d.intr
  <2>1. e = [d EXCEPT !.backup = d.status, !.status = "SUSPENDED"]
    BY <1>1 DEF usbd_int_suspend
  <2>2. /\ e.status = "SUSPENDED" /\ e.backup = d.status
        /\ e.active = d.active /\ e.out = d.out /\ e.intr = d.intr
    BY <2>1 DEF Dev
  <2>. HIDE DEF e
  <2>3. Steady(e) /\ Armed(e)
    BY <1>1, <2>2 DEF Steady, Effective, Armed
  <2>. QED  BY <1>1, <2>3 DEF e
<1>2. CASE "SP" \notin d.intr
  BY <1>2 DEF usbd_int_suspend
<1>. QED  BY <1>1, <1>2

LEMMA WakeupReceives ==
  ASSUME NEW d \in Dev, Steady(d), Armed(d)
  PROVE  /\ Steady(Wakeup(d)) /\ Armed(Wakeup(d))
         /\ Wakeup(d).status = "SUSPENDED" =>
              d.status = "SUSPENDED" /\ "WKUP" \notin d.intr
<1>. DEFINE e == Wakeup(d)
<1>1. CASE "WKUP" \in d.intr /\ d.status = "SUSPENDED"
  <2>1. e = [d EXCEPT !.status = d.backup]
    BY <1>1 DEF Wakeup
  <2>2. /\ e.status = d.backup /\ e.backup = d.backup
        /\ e.active = d.active /\ e.out = d.out /\ e.intr = d.intr
    BY <2>1 DEF Dev
  <2>. HIDE DEF e
  <2>3. Steady(e) /\ Armed(e) /\ e.status # "SUSPENDED"
    BY <1>1, <2>2 DEF Steady, Effective, Armed
  <2>. QED  BY <2>3 DEF e
<1>2. CASE ~("WKUP" \in d.intr /\ d.status = "SUSPENDED")
  BY <1>2 DEF Wakeup
<1>. QED  BY <1>1, <1>2

LEMMA StartOfFrameReceives ==
  ASSUME NEW d \in Dev, OneRequest(d), Steady(d), Armed(d)
  PROVE  /\ Steady(StartOfFrame(d)) /\ Armed(StartOfFrame(d))
         /\ StartOfFrame(d).status = "SUSPENDED" => d.status = "SUSPENDED"
<1>1. CASE "SOF" \in d.intr /\ d.setupc_flag = 1
  <2>1. StartOfFrame(d) = [d EXCEPT !.setupc_flag = 2]
    BY <1>1 DEF StartOfFrame
  <2>. QED  BY <2>1 DEF Dev, Steady, Effective, Armed
<1>2. CASE "SOF" \in d.intr /\ d.setupc_flag = 2
  <2>. DEFINE t == usbd_setup_transc(d)
              e == [t EXCEPT !.setupc_flag = 0, !.intr = d.intr]
  <2>1. StartOfFrame(d) = [t EXCEPT !.setupc_flag = 0]
    BY <1>2 DEF StartOfFrame
  <2>2. t \in Dev /\ t.intr = d.intr
    BY RequestFields
  <2>3. d.setupc_flag # 0
    BY <1>2
  <2>4. /\ Steady(e)
        /\ e.active => e.out \/ (d.active /\ e.out = d.out)
        /\ e.status = "SUSPENDED" => d.status = "SUSPENDED"
        /\ e.intr = d.intr
    BY <2>3, RequestReceives
  <2>5. StartOfFrame(d) = e
    <3>. HIDE DEF t
    <3>. QED  BY <2>1, <2>2 DEF Dev
  <2>. HIDE DEF e
  <2>6. Armed(e)
    BY <2>4 DEF Armed
  <2>. QED  BY <2>4, <2>5, <2>6
<1>3. CASE ~("SOF" \in d.intr /\ d.setupc_flag \in {1, 2})
  <2>1. StartOfFrame(d) = d
    BY <1>3 DEF StartOfFrame
  <2>. QED  BY <2>1
<1>. QED  BY <1>1, <1>2, <1>3

LEMMA IsrReceives ==
  ASSUME IInv, PromptInv, usbd_isr
  PROVE  PromptInv'
<1>. DEFINE d1 == usbd_int_epout(dev)
            d2 == usbd_int_epin(d1)
            d3 == usbd_int_suspend(d2)
            d4 == Wakeup(d3)
            d5 == StartOfFrame(d4)
<1>1. /\ dev' = [usbd_int_reset(usbd_int_rxfifo(d5)) EXCEPT
                   !.intr = @ \cap {"STPF"}]
      /\ bus' = bus
  BY DEF usbd_isr
<1>2. dev \in Dev /\ Good(dev, Mode) /\ OneRequest(dev)
  BY DEF IInv, Good
<1>3. d1 \in Dev /\ Good(d1, Mode)
  BY <1>2, EpoutGood DEF Good
<1>4. d2 \in Dev /\ Good(d2, Mode)
  BY <1>3, EpinGood DEF Good
<1>5. d3 \in Dev /\ Good(d3, Mode)
  BY <1>4, SuspendGood DEF Good
<1>6. d4 \in Dev /\ Good(d4, Mode) /\ OneRequest(d4)
  BY <1>5, WakeupGood DEF Good
<1>7. d5 \in Dev /\ OneRequest(d5)
  BY <1>6, StartOfFrameGood DEF Good
<1>8. /\ \A c \in Cause \ {"STPF"} : c \in d1.intr <=> c \in dev.intr
      /\ d2.intr = d1.intr /\ d3.intr = d2.intr /\ d4.intr = d3.intr
      /\ d5.intr = d4.intr
  BY <1>2, <1>3, <1>4, <1>5, <1>6, CausesKept
<1>9. {"SP", "WKUP", "RST"} \subseteq Cause \ {"STPF"}
  BY DEF Cause
<1>10. /\ "SP" \in d2.intr <=> "SP" \in dev.intr
       /\ "WKUP" \in d3.intr <=> "WKUP" \in dev.intr
       /\ "RST" \in d5.intr <=> "RST" \in dev.intr
  BY <1>8, <1>9
<1>11. Steady(d1) /\ Armed(d1) /\ (d1.status = "SUSPENDED" => dev.status = "SUSPENDED")
  BY <1>2, EpoutReceives DEF PromptInv, Receiving, Apart
<1>. HIDE DEF d1
<1>12. Steady(d2) /\ Armed(d2) /\ d2.status = d1.status
  BY <1>3, <1>11, EpinReceives
<1>. HIDE DEF d2
<1>13. "SP" \in d2.intr => d2.status # "SUSPENDED"
  BY <1>10, <1>11, <1>12 DEF PromptInv, Apart
<1>14. /\ Steady(d3) /\ Armed(d3)
       /\ "SP" \notin d2.intr => d3.status = d2.status
  BY <1>4, <1>12, <1>13, SuspendReceives
<1>. HIDE DEF d3
<1>15. /\ Steady(d4) /\ Armed(d4)
       /\ d4.status = "SUSPENDED" => d3.status = "SUSPENDED" /\ "WKUP" \notin d3.intr
  BY <1>5, <1>14, WakeupReceives
<1>. HIDE DEF d4
<1>16. /\ Steady(d5) /\ Armed(d5)
       /\ d5.status = "SUSPENDED" => d4.status = "SUSPENDED"
  BY <1>6, <1>15, StartOfFrameReceives
<1>. HIDE DEF d5
<1>17. /\ dev'.intr \subseteq {"STPF"} /\ dev'.backup = d5.backup
       /\ IF "RST" \in d5.intr
          THEN dev'.status = "DEFAULT" /\ ~dev'.active
          ELSE /\ dev'.status = d5.status /\ dev'.active = d5.active
               /\ dev'.out = d5.out
  BY <1>1, <1>7, LastFields
<1>18. dev'.status = "SUSPENDED" => bus = "suspended"
  BY <1>10, <1>11, <1>12, <1>14, <1>15, <1>16, <1>17 DEF PromptInv, Apart
<1>19. Apart'
  <2>1. "SP" \notin dev'.intr /\ "OUT" \notin dev'.intr
    BY <1>17
  <2>. QED  BY <1>1, <1>18, <2>1 DEF Apart
<1>20. Steady(dev') /\ Receiving(dev')
  BY <1>16, <1>17 DEF Steady, Effective, Armed, Receiving
<1>. QED  BY <1>19, <1>20 DEF PromptInv

\* The main loop does not interfere.
LEMMA MainReceives ==
  ASSUME IInv, PromptInv, Main
  PROVE  PromptInv'
<1>1. dev \in Dev
  BY DEF IInv, Good
<1>2. bus' = bus
  BY DEF Main, usb_bridge_init, DrainConfigured, DrainReady, DrainBusy, SysexConfigured,
         SysexWait, SysexLook, SendConfigured, SendTest, SendCopy, SendMark,
         SendArm
<1>3. /\ dev'.status = dev.status /\ dev'.backup = dev.backup
      /\ dev'.active = dev.active /\ dev'.out = dev.out /\ dev'.intr = dev.intr
  <2>1. \/ dev' = dev
        \/ dev' = [dev EXCEPT !.rx_cb = TRUE]
        \/ dev' = [dev EXCEPT !.tx_busy = TRUE]
        \/ dev' = [dev EXCEPT !.in = dev.active]
    BY DEF Main, usb_bridge_init, DrainConfigured, DrainReady, DrainBusy, SysexConfigured,
           SysexWait, SysexLook, SendConfigured, SendTest, SendCopy, SendMark,
           SendArm
  <2>. QED  BY <1>1, <2>1 DEF Dev
<1>. QED  BY <1>2, <1>3 DEF PromptInv, Steady, Effective, Apart, Receiving

\* What the host does, one step at a time, to the fields PromptInv looks at.
LEMMA HostReceives ==
  ASSUME IInv, PromptInv, Prompt, Host
  PROVE  PromptInv'
<1>1. dev \in Dev
  BY DEF IInv, Good
<1>2. ASSUME HostIn \/ HostSetup \/ CoreSetupDone \/ HostFrame
      PROVE  PromptInv'
  <2>1. PICK c \in {"IN", "RXFNE", "STPF", "SOF"} :
          /\ dev'.status = dev.status /\ dev'.backup = dev.backup
          /\ dev'.active = dev.active /\ dev'.out = dev.out
          /\ dev'.intr = dev.intr \cup {c}
    BY <1>1, <1>2 DEF HostIn, HostSetup, CoreSetupDone, HostFrame, Latch, Dev
  <2>2. bus' = bus
    BY <1>2 DEF HostIn, HostSetup, CoreSetupDone, HostFrame
  <2>3. \A x \in {"SP", "WKUP", "RST", "OUT"} : x \in dev'.intr <=> x \in dev.intr
    BY <2>1
  <2>. QED  BY <2>1, <2>2, <2>3 DEF PromptInv, Steady, Effective, Apart, Receiving
<1>3. ASSUME HostOut
      PROVE  PromptInv'
  <2>1. /\ dev'.status = dev.status /\ dev'.backup = dev.backup
        /\ dev'.active = dev.active
        /\ dev'.intr = dev.intr \cup {"OUT"}
    BY <1>1, <1>3 DEF HostOut, Dev
  <2>2. bus = "active" /\ bus' = bus /\ "WKUP" \notin dev.intr
    BY <1>3 DEF HostOut, Settled
  <2>3. \A x \in {"SP", "WKUP", "RST"} : x \in dev'.intr <=> x \in dev.intr
    BY <2>1
  <2>4. Apart'
    BY <2>1, <2>2, <2>3 DEF PromptInv, Apart
  <2>5. "OUT" \in dev'.intr
    BY <2>1
  <2>. QED  BY <2>1, <2>4, <2>5 DEF PromptInv, Steady, Effective, Receiving
<1>4. ASSUME NEW c \in {"SP", "WKUP", "RST"}, Latch(c)
      PROVE  /\ dev'.status = dev.status /\ dev'.backup = dev.backup
             /\ dev'.active = dev.active /\ dev'.out = dev.out
             /\ dev'.intr = dev.intr \cup {c}
             /\ Steady(dev') /\ Receiving(dev')
  <2>1. /\ dev'.status = dev.status /\ dev'.backup = dev.backup
        /\ dev'.active = dev.active /\ dev'.out = dev.out
        /\ dev'.intr = dev.intr \cup {c}
    BY <1>1, <1>4 DEF Latch, Dev
  <2>. QED  BY <2>1 DEF PromptInv, Steady, Effective, Receiving
<1>5. ASSUME HostSuspend
      PROVE  PromptInv'
  <2>1. dev.intr = {} /\ bus = "active" /\ bus' = "suspended" /\ Latch("SP")
    BY <1>1, <1>5 DEF HostSuspend, Settled, Dev
  <2>2. dev.status # "SUSPENDED"
    BY <2>1 DEF PromptInv, Apart
  <2>3. dev'.intr = {"SP"} /\ dev'.status = dev.status
    BY <1>4, <2>1
  <2>4. Apart'
    BY <2>1, <2>2, <2>3 DEF Apart
  <2>. QED  BY <1>4, <2>1, <2>4 DEF PromptInv
<1>6. ASSUME HostResume
      PROVE  PromptInv'
  <2>1. "SP" \notin dev.intr /\ bus' = "active" /\ Latch("WKUP")
    BY <1>6 DEF HostResume, Settled
  <2>2. dev'.intr = dev.intr \cup {"WKUP"} /\ dev'.status = dev.status
    BY <1>4, <2>1
  <2>3. Apart'
    BY <2>1, <2>2 DEF PromptInv, Apart
  <2>. QED  BY <1>4, <2>1, <2>3 DEF PromptInv
<1>7. ASSUME HostReset
      PROVE  PromptInv'
  <2>1. bus' = "active" /\ Latch("RST")
    BY <1>7 DEF HostReset
  <2>2. dev'.intr = dev.intr \cup {"RST"} /\ dev'.status = dev.status
    BY <1>4, <2>1
  <2>3. Apart'
    BY <2>1, <2>2 DEF PromptInv, Apart
  <2>. QED  BY <1>4, <2>1, <2>3 DEF PromptInv
<1>. QED  BY <1>2, <1>3, <1>5, <1>6, <1>7 DEF Host

\* If interrupts are prompt, the data endpoints live exactly as long as the
\* configuration, and a packet can always be received, through every mixture of
\* suspend, resume, reset and repeated requests (drv_usbd_int.c:325-383,
\* usb_midi_class.c:145-146).
THEOREM AlwaysReceives == Prompt => (Spec => []ReceivesWhenConfigured)
<1>. SUFFICES ASSUME Prompt
              PROVE  Spec => []ReceivesWhenConfigured
  OBVIOUS
<1>1. Init => PromptInv
  BY DEF Init, PromptInv, Steady, Effective, Apart, Receiving
<1>2. IInv /\ PromptInv /\ [Next]_vars => PromptInv'
  <2>1. IInv /\ PromptInv /\ UNCHANGED vars => PromptInv'
    BY DEF vars, PromptInv, Apart
  <2>. QED  BY <2>1, IsrReceives, MainReceives, HostReceives DEF Next
<1>3. PromptInv => ReceivesWhenConfigured
  BY DEF PromptInv, Steady, Effective, Receiving, ReceivesWhenConfigured
<1>. QED  BY <1>1, <1>2, <1>3, Invariance, PTL DEF Spec

-----------------------------------------------------------------------------
(* Why the class is busy, if interrupts are prompt.                        *)

\* Busy although configured, and no transfer is under way.
Idling(d) == d.tx_busy /\ Effective(d) = "CONFIGURED" /\ ~d.in

\* While the device is suspended, a completion only waits to be forgotten by a
\* reset: one that waited for anything else would be cleared unnoticed.
ReasonInv ==
  /\ Idling(dev) => "IN" \in dev.intr \/ pc = "arm"
  /\ dev.status = "SUSPENDED" /\ "IN" \in dev.intr => "RST" \in dev.intr

\* No handler leaves the class busy without a transfer, unless it was before.
LEMMA RequestBusy ==
  ASSUME NEW d \in Dev, NEW i \in SUBSET d.intr,
         Idling([usbd_setup_transc(d) EXCEPT !.setupc_flag = 0, !.intr = i])
  PROVE  Idling(d)
<1>. DEFINE t == usbd_setup_transc(d)
            e == [t EXCEPT !.setupc_flag = 0, !.intr = i]
<1>1. t \in Dev
  BY RequestFields
<1>2. \/ t = d
      \/ t.status = "ADDRESSED"
      \/ t.status = "CONFIGURED" /\ ~t.tx_busy
  BY RequestFields
<1>3. Idling(e)
  OBVIOUS
<1>. HIDE DEF t
<1>4. /\ e.status = t.status /\ e.backup = t.backup
      /\ e.in = t.in /\ e.tx_busy = t.tx_busy
  BY <1>1 DEF Dev
<1>. HIDE DEF e
<1>5. Idling(t)
  BY <1>3, <1>4 DEF Idling, Effective
<1>. QED  BY <1>2, <1>5 DEF Idling, Effective

LEMMA EpoutBusy ==
  ASSUME NEW d \in Dev, Idling(usbd_int_epout(d))
  PROVE  Idling(d)
<1>. DEFINE i == d.intr \ {"STPF"}
            r == [usbd_setup_transc(d) EXCEPT !.setupc_flag = 0, !.intr = i]
            ep0 == IF "STPF" \in d.intr /\ d.setupc_flag # 0 THEN r ELSE d
            e == usbd_int_epout(d)
<1>1. usbd_setup_transc(d) \in Dev /\ usbd_setup_transc(d).intr = d.intr
  BY RequestFields
<1>2. e = IF "OUT" \in d.intr THEN usbd_out_transc(ep0) ELSE ep0
  BY <1>1 DEF usbd_int_epout
<1>3. ep0 \in Dev
  <2>. DEFINE u == [usbd_setup_transc(d) EXCEPT !.setupc_flag = 0]
  <2>1. 0 \in 0 .. 2 /\ i \in SUBSET Cause
    BY DEF Dev
  <2>2. u \in Dev
    BY <1>1, <2>1, Update
  <2>3. [u EXCEPT !.intr = i] \in Dev
    BY <2>1, <2>2, Update
  <2>. QED  BY <2>3
<1>4. Idling(r) => Idling(d)
  <2>1. i \in SUBSET d.intr
    OBVIOUS
  <2>. HIDE DEF i
  <2>. QED  BY <2>1, RequestBusy
<1>. HIDE DEF r
<1>5. Idling(ep0) => Idling(d)
  <2>1. ep0 = r \/ ep0 = d
    OBVIOUS
  <2>. HIDE DEF ep0
  <2>. QED  BY <1>4, <2>1
<1>. HIDE DEF ep0
<1>6. Idling(usbd_out_transc(ep0)) => Idling(ep0)
  BY <1>3 DEF usbd_out_transc, midi_out, Dev, Idling, Effective
<1>. QED  BY <1>2, <1>5, <1>6

LEMMA EpinBusy ==
  ASSUME NEW d \in Dev, Idling(usbd_int_epin(d))
  PROVE  Idling(d) /\ ("IN" \in d.intr => d.status = "SUSPENDED")
<1>. DEFINE e == midi_in(d)
<1>1. ~e.tx_busy
  BY DEF Dev, midi_in
<1>2. ~Idling(e)
  BY <1>1 DEF Idling
<1>. HIDE DEF e
<1>3. usbd_int_epin(d) = IF "IN" \in d.intr /\ d.status = "CONFIGURED" THEN e ELSE d
  BY DEF usbd_int_epin, usbd_in_transc, e
<1>4. Idling(d) /\ ~("IN" \in d.intr /\ d.status = "CONFIGURED")
  BY <1>2, <1>3
<1>. QED  BY <1>4 DEF Idling, Effective

LEMMA SuspendBusy ==
  ASSUME NEW d \in Dev, "SP" \in d.intr => d.status # "SUSPENDED",
         Idling(usbd_int_suspend(d))
  PROVE  Idling(d)
<1>1. CASE "SP" \in d.intr
  <2>. DEFINE e == [d EXCEPT !.backup = d.status, !.status = "SUSPENDED"]
  <2>1. Idling(e)
    BY <1>1 DEF usbd_int_suspend
  <2>2. /\ e.status = "SUSPENDED" /\ e.backup = d.status
        /\ e.in = d.in /\ e.tx_busy = d.tx_busy
    BY DEF Dev
  <2>. HIDE DEF e
  <2>. QED  BY <2>1, <2>2 DEF Idling, Effective
<1>2. CASE "SP" \notin d.intr
  BY <1>2 DEF usbd_int_suspend
<1>. QED  BY <1>1, <1>2

LEMMA WakeupBusy ==
  ASSUME NEW d \in Dev, Idling(Wakeup(d))
  PROVE  Idling(d)
<1>1. CASE "WKUP" \in d.intr /\ d.status = "SUSPENDED"
  <2>. DEFINE e == [d EXCEPT !.status = d.backup]
  <2>1. Idling(e)
    BY <1>1 DEF Wakeup
  <2>2. e.status = d.backup /\ e.backup = d.backup /\ e.in = d.in /\ e.tx_busy = d.tx_busy
    BY DEF Dev
  <2>. HIDE DEF e
  <2>. QED  BY <1>1, <2>1, <2>2 DEF Idling, Effective
<1>2. CASE ~("WKUP" \in d.intr /\ d.status = "SUSPENDED")
  BY <1>2 DEF Wakeup
<1>. QED  BY <1>1, <1>2

LEMMA StartOfFrameBusy ==
  ASSUME NEW d \in Dev, Idling(StartOfFrame(d))
  PROVE  Idling(d)
<1>1. CASE "SOF" \in d.intr /\ d.setupc_flag = 1
  <2>1. StartOfFrame(d) = [d EXCEPT !.setupc_flag = 2]
    BY <1>1 DEF StartOfFrame
  <2>. QED  BY <2>1 DEF Dev, Idling, Effective
<1>2. CASE "SOF" \in d.intr /\ d.setupc_flag = 2
  <2>. DEFINE t == usbd_setup_transc(d)
              e == [t EXCEPT !.setupc_flag = 0, !.intr = d.intr]
  <2>1. StartOfFrame(d) = [t EXCEPT !.setupc_flag = 0]
    BY <1>2 DEF StartOfFrame
  <2>2. t \in Dev /\ t.intr = d.intr
    BY RequestFields
  <2>3. Idling(e) => Idling(d)
    BY RequestBusy
  <2>4. StartOfFrame(d) = e
    <3>. HIDE DEF t
    <3>. QED  BY <2>1, <2>2 DEF Dev
  <2>. QED  BY <2>3, <2>4
<1>3. CASE ~("SOF" \in d.intr /\ d.setupc_flag \in {1, 2})
  <2>1. StartOfFrame(d) = d
    BY <1>3 DEF StartOfFrame
  <2>. QED  BY <2>1
<1>. QED  BY <1>1, <1>2, <1>3

LEMMA IsrReason ==
  ASSUME IInv, PromptInv, ReasonInv, usbd_isr
  PROVE  ReasonInv'
<1>. DEFINE d1 == usbd_int_epout(dev)
            d2 == usbd_int_epin(d1)
            d3 == usbd_int_suspend(d2)
            d4 == Wakeup(d3)
            d5 == StartOfFrame(d4)
<1>1. /\ dev' = [usbd_int_reset(usbd_int_rxfifo(d5)) EXCEPT
                   !.intr = @ \cap {"STPF"}]
      /\ pc' = pc
  BY DEF usbd_isr
<1>2. dev \in Dev /\ Good(dev, Mode) /\ OneRequest(dev)
  BY DEF IInv, Good
<1>3. d1 \in Dev /\ Good(d1, Mode)
  BY <1>2, EpoutGood DEF Good
<1>4. d2 \in Dev /\ Good(d2, Mode)
  BY <1>3, EpinGood DEF Good
<1>5. d3 \in Dev /\ Good(d3, Mode)
  BY <1>4, SuspendGood DEF Good
<1>6. d4 \in Dev /\ Good(d4, Mode)
  BY <1>5, WakeupGood DEF Good
<1>7. d5 \in Dev /\ OneRequest(d5)
  BY <1>6, StartOfFrameGood DEF Good
<1>8. /\ \A c \in Cause \ {"STPF"} : c \in d1.intr <=> c \in dev.intr
      /\ d2.intr = d1.intr /\ d3.intr = d2.intr /\ d4.intr = d3.intr
      /\ d5.intr = d4.intr
  BY <1>2, <1>3, <1>4, <1>5, <1>6, CausesKept
<1>9. {"SP", "IN", "RST"} \subseteq Cause \ {"STPF"}
  BY DEF Cause
<1>10. /\ "IN" \in d1.intr <=> "IN" \in dev.intr
       /\ "SP" \in d2.intr <=> "SP" \in dev.intr
       /\ "RST" \in d5.intr <=> "RST" \in dev.intr
  BY <1>8, <1>9
<1>11. /\ Steady(d1) /\ Armed(d1)
       /\ d1.status = "SUSPENDED" => dev.status = "SUSPENDED"
  BY <1>2, EpoutReceives DEF PromptInv, Receiving, Apart
<1>12. Idling(d1) => Idling(dev)
  BY <1>2, EpoutBusy
<1>. HIDE DEF d1
<1>13. /\ d2.status = d1.status
       /\ Idling(d2) => Idling(d1) /\ ("IN" \in d1.intr => d1.status = "SUSPENDED")
  BY <1>3, <1>11, EpinReceives, EpinBusy
<1>. HIDE DEF d2
<1>14. "SP" \in d2.intr => d2.status # "SUSPENDED"
  BY <1>10, <1>11, <1>13 DEF PromptInv, Apart
<1>15. Idling(d3) => Idling(d2)
  BY <1>4, <1>14, SuspendBusy
<1>. HIDE DEF d3
<1>16. Idling(d4) => Idling(d3)
  BY <1>5, WakeupBusy
<1>. HIDE DEF d4
<1>17. Idling(d5) => Idling(d4)
  BY <1>6, StartOfFrameBusy
<1>. HIDE DEF d5
<1>18. /\ dev'.intr \subseteq {"STPF"}
       /\ dev'.tx_busy = d5.tx_busy /\ dev'.backup = d5.backup
       /\ IF "RST" \in d5.intr
          THEN dev'.status = "DEFAULT"
          ELSE dev'.status = d5.status /\ dev'.in = d5.in
  BY <1>1, <1>7, LastFields
<1>19. Idling(dev') => Idling(d5) /\ "RST" \notin dev.intr
  BY <1>10, <1>18 DEF Idling, Effective
<1>20. Idling(dev') => pc = "arm"
  BY <1>10, <1>11, <1>12, <1>13, <1>15, <1>16, <1>17, <1>19 DEF ReasonInv
<1>21. "IN" \notin dev'.intr
  BY <1>18
<1>. QED  BY <1>1, <1>20, <1>21 DEF ReasonInv

\* The main loop: usb_midi_send sets tx_busy just before it arms the endpoint.
LEMMA MainReason ==
  ASSUME IInv, PromptInv, ReasonInv, Main
  PROVE  ReasonInv'
<1>1. dev \in Dev
  BY DEF IInv, Good
<1>2. CASE SendArm
  <2>1. /\ dev'.in = dev.active /\ dev'.status = dev.status
        /\ dev'.backup = dev.backup /\ dev'.tx_busy = dev.tx_busy
        /\ dev'.intr = dev.intr
    BY <1>1, <1>2 DEF SendArm, Dev
  <2>2. ~Idling(dev')
    BY <2>1 DEF Idling, Effective, PromptInv, Steady
  <2>. QED  BY <2>1, <2>2 DEF ReasonInv
<1>3. CASE SendMark
  <2>1. /\ dev'.status = dev.status /\ dev'.intr = dev.intr /\ pc' = "arm"
    BY <1>1, <1>3 DEF SendMark, Dev
  <2>. QED  BY <2>1 DEF ReasonInv
<1>4. CASE Main /\ pc \notin {"mark", "arm"}
  <2>1. \/ dev' = dev
        \/ dev' = [dev EXCEPT !.rx_cb = TRUE]
    BY <1>4 DEF Main, usb_bridge_init, DrainConfigured, DrainReady, DrainBusy, SysexConfigured,
           SysexWait, SysexLook, SendConfigured, SendTest, SendCopy, SendMark,
           SendArm
  <2>2. /\ dev'.status = dev.status /\ dev'.backup = dev.backup
        /\ dev'.tx_busy = dev.tx_busy /\ dev'.in = dev.in
        /\ dev'.intr = dev.intr
    BY <1>1, <2>1 DEF Dev
  <2>. QED  BY <1>4, <2>2 DEF ReasonInv, Idling, Effective
<1>. QED
  BY <1>2, <1>3, <1>4 DEF Main, usb_bridge_init, DrainConfigured, DrainReady,
     DrainBusy, SysexConfigured, SysexWait, SysexLook, SendConfigured, SendTest,
     SendCopy

\* The host: a transfer that ends leaves its completion behind, and does not
\* end while the device is suspended but for a reset.
LEMMA HostReason ==
  ASSUME IInv, PromptInv, ReasonInv, Prompt, Host
  PROVE  ReasonInv'
<1>1. dev \in Dev
  BY DEF IInv, Good
<1>2. pc' = pc
  BY DEF Host, HostIn, HostOut, HostSetup, CoreSetupDone, HostFrame, HostSuspend,
         HostResume, HostReset
<1>3. CASE HostIn
  <2>1. /\ dev'.status = dev.status /\ dev'.intr = dev.intr \cup {"IN"}
    BY <1>1, <1>3 DEF HostIn, Dev
  <2>2. "WKUP" \notin dev.intr /\ bus # "suspended"
    BY <1>3 DEF HostIn, Settled
  <2>3. dev.status = "SUSPENDED" => "RST" \in dev.intr
    BY <2>2 DEF PromptInv, Apart
  <2>. QED  BY <2>1, <2>3 DEF ReasonInv
<1>4. CASE HostOut \/ HostSetup \/ CoreSetupDone \/ HostFrame \/ HostSuspend
           \/ HostResume \/ HostReset
  <2>1. PICK c \in {"OUT", "RXFNE", "STPF", "SOF", "SP", "WKUP", "RST"} :
          /\ dev'.status = dev.status /\ dev'.backup = dev.backup
          /\ dev'.tx_busy = dev.tx_busy /\ dev'.in = dev.in
          /\ dev'.intr = dev.intr \cup {c}
    BY <1>1, <1>4 DEF HostOut, HostSetup, CoreSetupDone, HostFrame, HostSuspend,
       HostResume, HostReset, Latch, Dev
  <2>2. /\ "IN" \in dev'.intr <=> "IN" \in dev.intr
        /\ "RST" \in dev.intr => "RST" \in dev'.intr
    BY <2>1
  <2>. QED  BY <1>2, <2>1, <2>2 DEF ReasonInv, Idling, Effective
<1>. QED  BY <1>3, <1>4 DEF Host

\* If interrupts are prompt, a configured device is busy only for a reason that
\* is about to end: no order of transfers, suspensions, resets and
\* configurations leaves tx_busy set for good (usb_midi_class.c:77, 94, 123,
\* 165).
THEOREM BusyEnds == Prompt => (Spec => []BusyHasReason)
<1>. SUFFICES ASSUME Prompt
              PROVE  Spec => []BusyHasReason
  OBVIOUS
<1>1. Init => PromptInv /\ ReasonInv
  BY DEF Init, PromptInv, Steady, Effective, Apart, Receiving, ReasonInv, Idling
<1>2. IInv /\ PromptInv /\ ReasonInv /\ [Next]_vars => PromptInv' /\ ReasonInv'
  <2>1. IInv /\ PromptInv /\ ReasonInv /\ UNCHANGED vars => PromptInv' /\ ReasonInv'
    BY DEF vars, PromptInv, Apart, ReasonInv
  <2>. QED
    BY <2>1, IsrReceives, MainReceives, HostReceives, IsrReason, MainReason,
       HostReason DEF Next
<1>3. PromptInv /\ ReasonInv => BusyHasReason
  BY DEF PromptInv, Steady, ReasonInv, Idling, Effective, BusyHasReason
<1>. QED  BY <1>1, <1>2, <1>3, Invariance, PTL DEF Spec
=============================================================================
