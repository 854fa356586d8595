------------------------------- MODULE UsbTx -------------------------------
(***************************************************************************)
(* The transmit path: usbcomm.c's txbuf, filled by the main program, and   *)
(* the IN endpoint 2 of usb.c, emptied by the USB_COM interrupt into the   *)
(* endpoint's bank, which the host reads.  The two sides share             *)
(* interrupt_data and interrupt_data_len without a lock, and the buffer    *)
(* itself is handed over by pointer: the main program refills txbuf as     *)
(* soon as usb_interruptSend returns.                                      *)
(*                                                                         *)
(* The processor serves a pending enabled interrupt before the next        *)
(* instruction of the main program, so every step of the main program      *)
(* waits for ~IsrPending; the interrupt handlers are not interrupted.      *)
(***************************************************************************)
EXTENDS Integers, Sequences

CONSTANTS
    Byte,        \* the values of a byte
    TxBufSize,   \* TXBUF_SIZE (63)
    EpSize,      \* EP_SIZE_64 of endpoint 2
    Banner,      \* what main prints before its loop ("Ready!")
    AllocTxini,  \* the values TXINI may have once allocEndpoint has cleared UEINTX
    MaxBytes,    \* bound: bytes received or under way at any time
    MaxResets    \* bound: resets of the bus

ASSUME TxAssumption ==
    /\ Byte # {}
    /\ TxBufSize \in Nat /\ TxBufSize > 0
    /\ TxBufSize < 32768              \* an int of 16 bits holds every length
    /\ EpSize \in Nat /\ TxBufSize < EpSize
    /\ Banner \in Seq(Byte)
    /\ AllocTxini \in (SUBSET BOOLEAN) \ {{}}
    /\ MaxBytes \in Nat /\ MaxResets \in Nat

VARIABLES
    txbuf, txbuf_pos,     \* usbcomm.c
    interrupt_data,       \* "NULL", or "txbuf" when it points to txbuf
    interrupt_data_len,   \* -1, or the length posted
    txine,                \* TXINE in UEIENX: the endpoint's interrupt is enabled
    txini,                \* TXINI in UEINTX: the endpoint's bank is free
    fifo,                 \* the bytes in the bank
    attached,             \* usb_state is STATE_ATTACHED
    pc,                   \* where the main program is
    caller,               \* which function called usbcomm_doTasks
    pend,                 \* the byte usbcomm_txbyte stores once it has room
    seen,                 \* the half of interrupt_data_len read first
    banner,               \* what is left to print before the loop
    resets,               \* resets so far
    received              \* bytes the host has read

mainVars == <<pc, caller, pend, seen, banner>>
bufVars  == <<txbuf, txbuf_pos>>
epVars   == <<interrupt_data, interrupt_data_len, txine, txini, fifo>>
hostVars == <<attached, resets, received>>
vars     == <<mainVars, bufVars, epVars, hostVars>>

AnyByte == CHOOSE b \in Byte : TRUE

\* main.c before the loop: the endpoints are set up, the device not attached.
Init ==
    /\ txbuf = [i \in 1..TxBufSize |-> AnyByte]
    /\ txbuf_pos = 0
    /\ interrupt_data = "NULL"
    /\ interrupt_data_len = -1
    /\ txine = TRUE
    /\ txini \in AllocTxini
    /\ fifo = <<>>
    /\ attached = FALSE
    /\ pc = "idle"
    /\ caller = "loop"
    /\ pend = AnyByte
    /\ seen = <<"low", 0>>
    /\ banner = Banner
    /\ resets = 0
    /\ received = <<>>

-----------------------------------------------------------------------------
(* The bytes on their way, oldest first: in the bank, posted to the        *)
(* interrupt, in the buffer, and the one waiting for room.                 *)

Posted  == IF interrupt_data = "NULL" THEN <<>>
           ELSE SubSeq(txbuf, 1, interrupt_data_len)
\* Between usb_interruptSend and the reset of txbuf_pos the buffer's bytes
\* are those posted.
Pending == IF pc = "sent" THEN <<>> ELSE SubSeq(txbuf, 1, txbuf_pos)
Waiting == IF pc # "idle" /\ caller = "txbyte" THEN <<pend>> ELSE <<>>
Inflight == fifo \o Posted \o Pending \o Waiting

\* The bank is not free, and has been since the endpoint was set up: it holds
\* the empty packet of the host's first read.
Fresh == ~txini /\ fifo = <<>>

-----------------------------------------------------------------------------
(* The main program.                                                       *)

IsrPending == txine /\ txini
Main(at) == ~IsrPending /\ pc = at

\* usbcomm_txbyte: store the byte, or drain first when the buffer is full.
\* Called for the banner, then by what the main loop calls once attached.
TxByte(b) ==
    /\ Main("idle")
    /\ IF banner # <<>>
       THEN b = Head(banner) /\ banner' = Tail(banner)
       ELSE attached /\ UNCHANGED banner
    /\ Len(received) + Len(Inflight) < MaxBytes
    /\ IF txbuf_pos >= TxBufSize
       THEN /\ pc' = "tasks" /\ caller' = "txbyte" /\ pend' = b
            /\ UNCHANGED <<bufVars, seen>>
       ELSE /\ txbuf' = [txbuf EXCEPT ![txbuf_pos + 1] = b]
            /\ txbuf_pos' = txbuf_pos + 1
            /\ UNCHANGED <<pc, caller, pend, seen>>
    /\ UNCHANGED <<epVars, hostVars>>

\* A handler calls usbcomm_drain.
Drain ==
    /\ Main("idle")
    /\ attached
    /\ pc' = "tasks" /\ caller' = "drain"
    /\ UNCHANGED <<pend, seen, banner, bufVars, epVars, hostVars>>

\* usb_doTasks: attach the device, once (there is no VBUS detection).
usb_doTasks == attached' = TRUE

\* An iteration of the main loop: usb_doTasks, then usbcomm_doTasks.
LoopTasks ==
    /\ Main("idle")
    /\ banner = <<>>
    /\ usb_doTasks
    /\ pc' = "tasks" /\ caller' = "loop"
    /\ UNCHANGED <<pend, seen, banner, bufVars, epVars, resets, received>>

\* Fault: no ready test before usb_interruptSend.
DoTasksUntested ==
    /\ Main("tasks")
    /\ pc' = IF txbuf_pos > 0 THEN "send" ELSE "return"
    /\ UNCHANGED <<caller, pend, seen, banner, bufVars, epVars, hostVars>>

\* usbcomm_doTasks sends only when the buffer holds something.
DoTasks ==
    /\ Main("tasks")
    /\ pc' = IF txbuf_pos > 0 THEN "ready" ELSE "return"
    /\ UNCHANGED <<caller, pend, seen, banner, bufVars, epVars, hostVars>>

\* The bytes of an int of 16 bits in two's complement.
Unsigned(n) == IF n < 0 THEN n + 65536 ELSE n
Half(h, n) == IF h = "low" THEN Unsigned(n) % 256 ELSE Unsigned(n) \div 256
Other(h)   == IF h = "low" THEN "high" ELSE "low"

\* usb_interruptReady compares an int with -1: two loads on a processor of
\* 8 bits, in the compiler's order, with an interrupt possible between them.
ReadFirst ==
    /\ Main("ready")
    /\ \E h \in {"low", "high"} : seen' = <<h, Half(h, interrupt_data_len)>>
    /\ pc' = "ready2"
    /\ UNCHANGED <<caller, pend, banner, bufVars, epVars, hostVars>>

ReadSecond ==
    /\ Main("ready2")
    /\ pc' = IF seen[2] = 255 /\ Half(Other(seen[1]), interrupt_data_len) = 255
             THEN "send" ELSE "return"
    /\ UNCHANGED <<caller, pend, seen, banner, bufVars, epVars, hostVars>>

\* The wait of usb_interruptSend.
Spin ==
    /\ Main("send")
    /\ interrupt_data_len = -1
    /\ pc' = "post"
    /\ UNCHANGED <<caller, pend, seen, banner, bufVars, epVars, hostVars>>

\* Fault: the endpoint's interrupt is left disabled.
PostUnarmed ==
    /\ Main("post")
    /\ interrupt_data' = "txbuf"
    /\ interrupt_data_len' = txbuf_pos
    /\ pc' = "sent"
    /\ UNCHANGED <<caller, pend, seen, banner, bufVars, txine, txini, fifo, hostVars>>

\* The part of usb_interruptSend with interrupts off.
Post ==
    /\ Main("post")
    /\ interrupt_data' = "txbuf"
    /\ interrupt_data_len' = txbuf_pos
    /\ txine' = TRUE
    /\ pc' = "sent"
    /\ UNCHANGED <<caller, pend, seen, banner, bufVars, txini, fifo, hostVars>>

\* Fault: the buffer is not emptied.
SentKeeps ==
    /\ Main("sent")
    /\ pc' = "return"
    /\ UNCHANGED <<caller, pend, seen, banner, bufVars, epVars, hostVars>>

\* Back in usbcomm_doTasks, which takes the buffer for sent.
Sent ==
    /\ Main("sent")
    /\ txbuf_pos' = 0
    /\ pc' = "return"
    /\ UNCHANGED <<caller, pend, seen, banner, txbuf, epVars, hostVars>>

\* Fault: usbcomm_txbyte calls usbcomm_doTasks once instead of draining.
ReturnAtOnce ==
    /\ Main("return")
    /\ pc' = "idle"
    /\ IF caller = "txbyte"
       THEN /\ txbuf' = [txbuf EXCEPT ![txbuf_pos + 1] = pend]
            /\ txbuf_pos' = txbuf_pos + 1
       ELSE UNCHANGED bufVars
    /\ UNCHANGED <<caller, pend, seen, banner, epVars, hostVars>>

\* Back in the caller: usbcomm_drain repeats until the buffer is empty, and
\* usbcomm_txbyte then stores its byte.
Return ==
    /\ Main("return")
    /\ IF caller # "loop" /\ txbuf_pos > 0
       THEN pc' = "tasks" /\ UNCHANGED bufVars
       ELSE /\ pc' = "idle"
            /\ IF caller = "txbyte"
               THEN /\ txbuf' = [txbuf EXCEPT ![txbuf_pos + 1] = pend]
                    /\ txbuf_pos' = txbuf_pos + 1
               ELSE UNCHANGED bufVars
    /\ UNCHANGED <<caller, pend, seen, banner, epVars, hostVars>>

-----------------------------------------------------------------------------
(* The interrupt handlers and the host.                                    *)

\* Fault: the end of the transmission is signalled when the bank is filled.
IsrEarlyEnd ==
    /\ IsrPending
    /\ IF interrupt_data = "NULL"
       THEN txine' = FALSE /\ UNCHANGED <<txini, fifo>>
       ELSE fifo' = Posted /\ txini' = FALSE /\ UNCHANGED txine
    /\ interrupt_data' = "NULL"
    /\ interrupt_data_len' = -1
    /\ UNCHANGED <<mainVars, bufVars, hostVars>>

\* Fault: the end of the transmission is not signalled.
IsrNoEnd ==
    /\ IsrPending
    /\ IF interrupt_data = "NULL"
       THEN txine' = FALSE /\ UNCHANGED <<txini, fifo>>
       ELSE fifo' = Posted /\ txini' = FALSE /\ UNCHANGED txine
    /\ interrupt_data' = "NULL"
    /\ UNCHANGED <<interrupt_data_len, mainVars, bufVars, hostVars>>

\* USB_COM_vect for endpoint 2: fill the free bank from the buffer posted,
\* or, when there is none, say that the transmission finished.
Isr ==
    /\ IsrPending
    /\ IF interrupt_data = "NULL"
       THEN /\ txine' = FALSE
            /\ interrupt_data_len' = -1
            /\ UNCHANGED <<interrupt_data, txini, fifo>>
       ELSE /\ fifo' = Posted
            /\ txini' = FALSE
            /\ interrupt_data' = "NULL"
            /\ UNCHANGED <<interrupt_data_len, txine>>
    /\ UNCHANGED <<mainVars, bufVars, hostVars>>

\* The host reads the bank's packet, and the bank is free again.
HostIn ==
    /\ attached
    /\ ~txini
    /\ received' = received \o fifo
    /\ fifo' = <<>>
    /\ txini' = TRUE
    /\ UNCHANGED <<interrupt_data, interrupt_data_len, txine>>
    /\ UNCHANGED <<mainVars, bufVars, attached, resets>>

\* A reset of the bus: USB_GEN_vect calls setupEndpoints.
BusReset ==
    /\ attached
    /\ resets < MaxResets
    /\ resets' = resets + 1
    /\ interrupt_data' = "NULL"
    /\ interrupt_data_len' = -1
    /\ txine' = TRUE
    /\ txini' \in AllocTxini
    /\ fifo' = <<>>
    /\ UNCHANGED <<mainVars, bufVars, attached, received>>

MainStep == \/ \E b \in Byte : TxByte(b)
            \/ Drain
            \/ LoopTasks
            \/ DoTasks
            \/ ReadFirst
            \/ ReadSecond
            \/ Spin
            \/ Post
            \/ Sent
            \/ Return

Next == MainStep \/ Isr \/ HostIn \/ BusReset

Spec == Init /\ [][Next]_vars

(* The processor runs; the handlers that print return to the main loop;    *)
(* the host keeps polling the endpoint.                                    *)
Fairness == /\ WF_vars(MainStep)
            /\ WF_vars(Isr)
            /\ WF_vars(HostIn)
            /\ SF_vars(LoopTasks)

FairSpec == Spec /\ Fairness

-----------------------------------------------------------------------------
(* Properties.                                                             *)

Pcs == {"idle", "tasks", "ready", "ready2", "send", "post", "sent", "return"}

\* Every variable stays in its range: in particular no index of txbuf is
\* out of bounds and no length exceeds the endpoint's bank.
TypeOK ==
    /\ txbuf \in [1..TxBufSize -> Byte]
    /\ txbuf_pos \in 0..TxBufSize
    /\ interrupt_data \in {"NULL", "txbuf"}
    /\ interrupt_data_len \in {-1} \union 1..TxBufSize
    /\ txine \in BOOLEAN /\ txini \in BOOLEAN /\ attached \in BOOLEAN
    /\ fifo \in Seq(Byte) /\ Len(fifo) < EpSize
    /\ pc \in Pcs
    /\ caller \in {"loop", "drain", "txbyte"}
    /\ pend \in Byte
    /\ seen \in {"low", "high"} \X Nat
    /\ banner \in Seq(Byte)
    /\ resets \in Nat
    /\ received \in Seq(Byte)

\* usb_interruptSend's wait never waits: the ready test before it, though it
\* reads interrupt_data_len in two halves, says ready only when the last
\* transmission finished, and nothing undoes that before the post.
NoBusyWait == pc \in {"send", "post"} => interrupt_data_len = -1

\* A transmission that has not finished leaves the interrupt that finishes it
\* enabled: nobody waits for an end that is not signalled.
Armed == interrupt_data_len # -1 => txine

\* A buffer posted is copied before the main program runs again, so it never
\* stores into a buffer still posted; unless the set-up of the endpoint left
\* the bank not free and the host has not read since.
PostedIntact == interrupt_data = "txbuf" => IsrPending \/ Fresh

\* The detailed path implements the channel it promises, with the damage that
\* a set-up of the endpoint may do to it, and no other.
Channel == INSTANCE TxChannel
           WITH inflight <- Inflight, received <- received, fresh <- Fresh
ChannelSpec == Channel!Spec

\* A call to usbcomm_doTasks, usbcomm_drain or usbcomm_txbyte returns, as long
\* as the host reads.
CallsReturn == pc # "idle" ~> pc = "idle"

\* After the last reset the host comes to read from the endpoint, though its
\* bank may not have been free; and from then on what it has read and what is
\* on its way stay as they are, byte for byte, until it has read them all.
EveryByteLeaves ==
    /\ (resets = MaxResets /\ attached) ~> ~Fresh
    /\ \A w \in UNION {[1..n -> Byte] : n \in 1..MaxBytes} :
           (resets = MaxResets /\ ~Fresh /\ received \o Inflight = w)
               ~> \A i \in DOMAIN w : i <= Len(received) /\ received[i] = w[i]
=============================================================================
