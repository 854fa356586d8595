----------------------------- MODULE UsbControl -----------------------------
(***************************************************************************)
(* The control endpoint of usb.c: the interrupt handlers USB_GEN_vect      *)
(* (bus resets) and USB_COM_vect (endpoint 0), the requests they answer,   *)
(* and the descriptors and endpoints main.c gives them, against the USB    *)
(* macro of the processor and a host that enumerates the device.           *)
(*                                                                         *)
(* The handlers wait for the host in the middle of a request, with         *)
(* interrupts off: until the wait ends neither the other handler nor the   *)
(* main program runs.  pc is where USB_COM_vect waits.  What it does       *)
(* between two waits takes microseconds, and is one step; so is            *)
(* USB_GEN_vect, which never waits.                                        *)
(***************************************************************************)
EXTENDS Integers, Sequences

CONSTANTS
    Script,       \* the requests of the host, in order
    AllocTxini,   \* the values TXINI may have once allocEndpoint has cleared UEINTX
    MaxResets,    \* bound: resets of the bus nobody asked for, and of the firmware
    MaxAbandons   \* bound: transfers the host gives up without a reset

ASSUME UsbControlAssumption ==
    /\ Len(Script) \in Nat \ {0} /\ DOMAIN Script = 1..Len(Script)
    /\ \A k \in DOMAIN Script : Script[k].rq.wValue \in Nat /\ Script[k].rq.wLength \in Nat
    /\ AllocTxini \subseteq BOOLEAN /\ AllocTxini # {}
    /\ MaxResets \in Nat /\ MaxAbandons \in Nat

-----------------------------------------------------------------------------
(* Descriptors and endpoints.                                              *)

\* The lengths of usb.h's packed structures.
sizeof == [device |-> 18, configuration |-> 9, interface |-> 9, endpoint |-> 7,
           header |-> 5, acm |-> 4, unio |-> 5, call |-> 5]

EpSize(n) == CASE n = 1 -> 16 [] n = 2 -> 32 [] n = 3 -> 64 [] OTHER -> 8

\* The endpoints as the controller is configured.
epconfigs == <<[type |-> "int",  in |-> TRUE,  size |-> EpSize(0)],
               [type |-> "bulk", in |-> TRUE,  size |-> EpSize(3)],
               [type |-> "bulk", in |-> FALSE, size |-> EpSize(0)]>>
getEndpointSize0 == EpSize(3)

Plain(kind) == [kind |-> kind]
Endpoint(n, type, in, size) ==
    [kind |-> "endpoint", number |-> n, cfg |-> [type |-> type, in |-> in, size |-> size]]

\* The configuration descriptor, with all that is returned with it.
cfg1 == <<Plain("configuration"),
          Plain("interface"), Endpoint(1, "int", TRUE, 8),
          Plain("header"), Plain("acm"), Plain("unio"), Plain("call"),
          Plain("interface"), Endpoint(2, "bulk", TRUE, 64), Endpoint(3, "bulk", FALSE, 8)>>
configdesc_ttllen ==
    sizeof.configuration + 2 * sizeof.interface + 3 * sizeof.endpoint
    + sizeof.header + sizeof.acm + sizeof.unio + sizeof.call

strings == <<8, 11, 6>>    \* the characters of g_usb_strings

-----------------------------------------------------------------------------
(* Requests: bmRequestType as in, recipient and class.                     *)

Rq(in, recipient, class, bRequest, wValue, wLength) ==
    [in |-> in, recipient |-> recipient, class |-> class,
     bRequest |-> bRequest, wValue |-> wValue, wLength |-> wLength]
NoRq == Rq(FALSE, "device", FALSE, "none", 0, 0)

Least(a, b) == IF a < b THEN a ELSE b

\* buf2EP never puts more than max_len bytes into the bank; the header of a
\* string and its text are put there one after the other, and what the header
\* leaves of wLength is taken for an unsigned number of 16 bits.
\* Id 0 asks for the languages.
StringLength(id, wLength) ==
    CASE id = 0                -> Least(4, wLength)
      [] id \in DOMAIN strings ->
             Least(2, wLength) + Least(2 * strings[id], (wLength - 2) % 65536)
      [] OTHER                 -> 0

\* The requests answered with one packet, and the length of the answer.
Answered(q) ==
    /\ q.in
    /\ \/ /\ q.bRequest = "GET_STATUS"
          /\ q.recipient \in {"device", "endpoint"} \/ (q.recipient = "interface" /\ ~q.class)
       \/ /\ q.recipient = "device"
          /\ q.bRequest \in {"GET_CONFIGURATION", "GET_DEVICE_DESCRIPTOR", "GET_STRING_DESCRIPTOR"}

AnswerLength(q) ==
    CASE q.bRequest = "GET_STATUS"            -> Least(2, q.wLength)
      [] q.bRequest = "GET_CONFIGURATION"     -> Least(1, q.wLength)
      [] q.bRequest = "GET_DEVICE_DESCRIPTOR" -> Least(sizeof.device, q.wLength)
      [] OTHER                                -> StringLength(q.wValue, q.wLength)

LongDescriptor(q) ==
    q.in /\ q.recipient = "device" /\ q.bRequest = "GET_CONFIGURATION_DESCRIPTOR"

\* The requests from the host, by what is done with them.
ToDevice(q, names) == ~q.in /\ q.recipient = "device" /\ q.bRequest \in names
ToInterface(q, names) ==
    ~q.in /\ q.recipient = "interface" /\ q.class /\ q.bRequest \in names
Acknowledged(q) == ToInterface(q, {"SEND_BREAK", "SET_IDLE"})
Received(q) == ToInterface(q, {"SET_LINE_CODING", "SET_CONTROL_LINE_STATE", "SET_REPORT"})
Dropped(q) == ~q.in /\ q.recipient \in {"endpoint", "other"}

\* main.c gives no setupCb: what is left is refused.
Unhandled(q) ==
    /\ ~Answered(q) /\ ~LongDescriptor(q) /\ ~Acknowledged(q) /\ ~Received(q) /\ ~Dropped(q)
    /\ ~ToDevice(q, {"SET_ADDRESS", "SET_CONFIGURATION"})

\* The host, as every host enumerates a device: it begins with a descriptor,
\* and asks for more of it than a long descriptor has in its second packet;
\* gives one address, and only then a configuration or asks for it.  It does
\* without what the firmware refuses or drops, and nothing else; a class
\* request is for an interface; a string is asked for with its header.
ASSUME HostAssumption ==
    /\ Script[1].rq.in /\ ~Script[1].rq.class
    /\ LET second == configdesc_ttllen - getEndpointSize0 IN
       /\ Script[1].expect > second /\ Script[1].rq.wLength >= second
       /\ \A k \in DOMAIN Script :
              LongDescriptor(Script[k].rq) /\ Script[k].rq.wLength > getEndpointSize0
                  => Script[k].expect > second
    /\ \A k \in DOMAIN Script : LET q == Script[k].rq  expect == Script[k].expect IN
        /\ expect \in Int /\ (q.in => expect # 0)
        /\ expect < 0 => Unhandled(q) \/ Dropped(q)
        /\ q.class => q.recipient = "interface"
        /\ q.bRequest = "GET_STRING_DESCRIPTOR" => q.wLength >= 2
        /\ q.bRequest \in {"SET_ADDRESS", "SET_CONFIGURATION"} =>
               ToDevice(q, {q.bRequest}) /\ ~q.class /\ q.wLength = 0
        /\ q.bRequest = "SET_ADDRESS" => q.wValue # 0
        /\ q.bRequest = "SET_CONFIGURATION" => q.wValue = 1
    /\ \A j, k \in DOMAIN Script :
           Script[j].rq.bRequest = "SET_ADDRESS" /\ Script[k].rq.bRequest = "SET_ADDRESS" => j = k
    /\ \A k \in DOMAIN Script :
           Script[k].rq.bRequest \in {"SET_CONFIGURATION", "GET_CONFIGURATION"} =>
               \E j \in 1..(k - 1) : Script[j].rq.bRequest = "SET_ADDRESS"

-----------------------------------------------------------------------------
VARIABLES
    pc,           \* where USB_COM_vect waits: "idle" outside of it
    rq,           \* the request being handled
    todo,         \* longDescriptorHelper: the bytes left after this packet, -1 for none
    iOut,         \* RXOUTI was set in the flags read before the request was handled
    g_device_state, g_current_config,
    control_write_rq, control_write_len, control_write_in_progress,
    udaddr, adden,        \* the two fields of UDADDR
    eorsti,               \* EORSTI in UDINT
    eps,                  \* the endpoints but 0 that are enabled
    rxstp, setup,         \* RXSTPI, and the request in the bank
    rxout, outlen,        \* RXOUTI, and the length of the packet in the bank
    txini, bank,          \* TXINI, and the packet to be sent when it is clear
    stall,                \* STALLRQ
    hst, hpos, hgot,      \* host: stage, place in Script, bytes received
    haddr,                \* host: the address it has given the device
    hown,                 \* all the bytes received answered the host's request
    resets, abandons

progVars == <<g_device_state, g_current_config>>
writeVars == <<control_write_rq, control_write_len, control_write_in_progress>>
isrVars  == <<pc, rq, todo, iOut>>
busVars  == <<udaddr, adden, eorsti, eps>>
ep0Vars  == <<rxstp, setup, rxout, outlen, txini, bank, stall>>
hostVars == <<hst, hpos, hgot, haddr, hown, resets, abandons>>
vars == <<isrVars, progVars, writeVars, busVars, ep0Vars, hostVars>>

NoPacket == [of |-> NoRq, value |-> 0, len |-> 0]

\* usb_init: endpoints set up, interrupts enabled, nothing heard of the host.
Init ==
    /\ pc = "idle" /\ rq = NoRq /\ todo = -1 /\ iOut = FALSE
    /\ g_device_state = "DEFAULT" /\ g_current_config = 0
    /\ control_write_rq = NoRq /\ control_write_len = 0
    /\ control_write_in_progress = FALSE
    /\ udaddr = 0 /\ adden = FALSE /\ eorsti = FALSE /\ eps = 1..Len(epconfigs)
    /\ rxstp = FALSE /\ setup = NoRq /\ rxout = FALSE /\ outlen = 0
    /\ txini \in AllocTxini /\ bank = NoPacket /\ stall = FALSE
    /\ hst = "restart" /\ hpos = 1 /\ hgot = 0 /\ haddr = 0 /\ hown = TRUE
    /\ resets = 0 /\ abandons = 0

-----------------------------------------------------------------------------
(* The interrupt handlers.                                                 *)

\* handleSetupPacket returns to USB_COM_vect, which goes on with the flags it
\* read at its start.
Return == pc' = (IF iOut THEN "out" ELSE "idle") /\ UNCHANGED <<rq, todo, iOut>>
GoTo(label) == pc' = label /\ UNCHANGED <<rq, todo, iOut>>

\* Clearing TXINI sends what was put into the bank, or an empty packet.
Send(packet) == txini' = FALSE /\ bank' = packet
SendEmpty == txini' = FALSE /\ UNCHANGED bank
KeepBank == UNCHANGED <<txini, bank>>

\* Fault: a reset leaves the endpoints as the hardware left them.
EndOfResetBare ==
    /\ pc = "idle" /\ eorsti
    /\ eorsti' = FALSE
    /\ rxstp' = FALSE /\ rxout' = FALSE /\ txini' \in AllocTxini /\ bank' = NoPacket
    /\ UNCHANGED <<isrVars, progVars, writeVars, udaddr, adden, eps, setup, outlen, stall, hostVars>>

\* USB_GEN_vect: setupEndpoints clears the flags of endpoint 0, those of a
\* SETUP that came meanwhile too.
EndOfReset ==
    /\ pc = "idle" /\ eorsti
    /\ eorsti' = FALSE
    /\ eps' = 1..Len(epconfigs)
    /\ rxstp' = FALSE /\ rxout' = FALSE /\ txini' \in AllocTxini /\ bank' = NoPacket
    /\ UNCHANGED <<isrVars, progVars, writeVars, udaddr, adden, setup, outlen, stall, hostVars>>

\* USB_COM_vect reads the flags and the request.  USB_GEN_vect goes first.
SetupPacket ==
    /\ pc = "idle" /\ ~eorsti /\ rxstp
    /\ rq' = setup /\ iOut' = rxout /\ rxstp' = FALSE
    /\ pc' = "setup" /\ UNCHANGED todo
    /\ UNCHANGED <<progVars, writeVars, busVars, setup, rxout, outlen, txini, bank, stall, hostVars>>

\* A SETUP frees the bank, and nothing fills it before the request is handled:
\* the waits for TXINI in front of a status packet end at once, and what the
\* code writes before them is one step with what it does after.
Handle(kind) == pc = "setup" /\ kind

\* Fault: the address is enabled before the status packet has left.
SetAddressEarly ==
    /\ Handle(ToDevice(rq, {"SET_ADDRESS"})) /\ txini
    /\ udaddr' = rq.wValue /\ adden' = TRUE
    /\ SendEmpty /\ GoTo("address")
    /\ UNCHANGED <<progVars, writeVars, eorsti, eps, rxstp, setup, rxout, outlen, stall, hostVars>>

\* SET_ADDRESS: the new address is enabled when the status packet has left.
SetAddress ==
    /\ Handle(ToDevice(rq, {"SET_ADDRESS"})) /\ txini
    /\ udaddr' = rq.wValue /\ adden' = FALSE
    /\ SendEmpty /\ GoTo("address")
    /\ UNCHANGED <<progVars, writeVars, eorsti, eps, rxstp, setup, rxout, outlen, stall, hostVars>>

Addressed ==
    /\ pc = "address" /\ txini
    /\ adden' = TRUE
    /\ g_device_state' = IF rq.wValue = 0 THEN "DEFAULT" ELSE "ADDRESS"
    /\ Return
    /\ UNCHANGED <<g_current_config, writeVars, udaddr, eorsti, eps, ep0Vars, hostVars>>

SetConfiguration ==
    /\ Handle(ToDevice(rq, {"SET_CONFIGURATION"})) /\ txini
    /\ g_current_config' = rq.wValue
    /\ g_device_state' = IF rq.wValue = 0 THEN "ADDRESS" ELSE "CONFIGURED"
    /\ SendEmpty /\ Return
    /\ UNCHANGED <<writeVars, busVars, rxstp, setup, rxout, outlen, stall, hostVars>>

Acknowledge ==
    /\ Handle(Acknowledged(rq)) /\ txini
    /\ SendEmpty /\ Return
    /\ UNCHANGED <<progVars, writeVars, busVars, rxstp, setup, rxout, outlen, stall, hostVars>>

\* The status packet is sent before the data has come.
initControlWrite ==
    /\ Handle(Received(rq)) /\ txini
    /\ control_write_rq' = rq /\ control_write_len' = 0 /\ control_write_in_progress' = TRUE
    /\ SendEmpty /\ Return
    /\ UNCHANGED <<progVars, busVars, rxstp, setup, rxout, outlen, stall, hostVars>>

\* A request to an endpoint gets neither an answer nor a stall.
Drop ==
    /\ Handle(Dropped(rq))
    /\ Return
    /\ UNCHANGED <<progVars, writeVars, busVars, ep0Vars, hostVars>>

Configuration == IF g_device_state = "CONFIGURED" THEN g_current_config ELSE 0

Answer ==
    /\ Handle(Answered(rq))
    /\ Send([of |-> rq, len |-> AnswerLength(rq),
             value |-> IF rq.bRequest = "GET_CONFIGURATION" THEN Configuration ELSE 0])
    /\ GoTo("status")
    /\ UNCHANGED <<progVars, writeVars, busVars, rxstp, setup, rxout, outlen, stall, hostVars>>

\* Fault: a descriptor longer than the endpoint is not cut.
LongPacketWhole(n) ==
    /\ Send([of |-> rq, len |-> n, value |-> 0])
    /\ todo' = -1
    /\ pc' = "long" /\ UNCHANGED <<rq, iOut>>
    /\ UNCHANGED <<progVars, writeVars, busVars, rxstp, setup, rxout, outlen, stall, hostVars>>

\* longDescriptorHelper, with n bytes to go: a packet of at most the
\* endpoint's size, and what follows it.
LongPacket(n) ==
    /\ Send([of |-> rq, len |-> Least(n, getEndpointSize0), value |-> 0])
    /\ todo' = IF n > getEndpointSize0 THEN n - getEndpointSize0 ELSE -1
    /\ pc' = "long" /\ UNCHANGED <<rq, iOut>>
    /\ UNCHANGED <<progVars, writeVars, busVars, rxstp, setup, rxout, outlen, stall, hostVars>>

\* Fault: the length the host asked for is not looked at.
longDescriptorFull == Handle(LongDescriptor(rq)) /\ LongPacket(configdesc_ttllen)

longDescriptorHelper ==
    Handle(LongDescriptor(rq)) /\ LongPacket(Least(rq.wLength, configdesc_ttllen))

LongNext == pc = "long" /\ txini /\ todo >= 0 /\ LongPacket(todo)

\* The packet sent after the last one of the helper is empty.
LongEnd ==
    /\ pc = "long" /\ txini /\ todo < 0
    /\ Send(NoPacket) /\ GoTo("status")
    /\ UNCHANGED <<progVars, writeVars, busVars, rxstp, setup, rxout, outlen, stall, hostVars>>

\* "Handle transmission now": empty packets, until the host's status packet.
Rearm ==
    /\ pc = "status" /\ txini
    /\ Send(NoPacket)
    /\ UNCHANGED <<isrVars, progVars, writeVars, busVars, rxstp, setup, rxout, outlen, stall, hostVars>>

StatusReceived ==
    /\ pc = "status" /\ rxout
    /\ rxout' = FALSE /\ Return
    /\ UNCHANGED <<progVars, writeVars, busVars, rxstp, setup, outlen, txini, bank, stall, hostVars>>

Stall ==
    /\ Handle(Unhandled(rq))
    /\ stall' = TRUE /\ Return
    /\ UNCHANGED <<progVars, writeVars, busVars, rxstp, setup, rxout, outlen, txini, bank, hostVars>>

CONTROL_WRITE_BUFSIZE == 64
OutPending == pc = "out" \/ (pc = "idle" /\ ~eorsti /\ ~rxstp /\ rxout)
WriteFits(n) == control_write_in_progress /\ control_write_len + n < CONTROL_WRITE_BUFSIZE
WriteEnds(n) == WriteFits(n) /\ control_write_len + n >= control_write_rq.wLength

\* A packet from the host outside of handleSetupPacket: data of the control
\* write begun last, which nothing ends but the next one.
OutPacket ==
    LET n == IF rxout THEN outlen ELSE 0 IN
    /\ OutPending
    /\ rxout' = FALSE
    /\ control_write_len' = IF WriteFits(n) THEN control_write_len + n ELSE control_write_len
    /\ IF WriteEnds(n) THEN SendEmpty /\ GoTo("written") ELSE KeepBank /\ GoTo("idle")
    /\ UNCHANGED <<progVars, control_write_rq, control_write_in_progress, busVars,
                   rxstp, setup, outlen, stall, hostVars>>

\* handleDataPacket does nothing: no HID interface, and no vendor callback.
handleDataPacket ==
    /\ pc = "written" /\ txini
    /\ GoTo("idle")
    /\ UNCHANGED <<progVars, writeVars, busVars, ep0Vars, hostVars>>

Isr == \/ EndOfReset \/ SetupPacket
       \/ SetAddress \/ Addressed \/ SetConfiguration \/ Acknowledge \/ initControlWrite
       \/ Drop \/ Answer \/ longDescriptorHelper \/ LongNext \/ LongEnd
       \/ Rearm \/ StatusReceived \/ Stall \/ OutPacket \/ handleDataPacket

-----------------------------------------------------------------------------
(* The host, and the hardware of endpoint 0.                               *)

\* The handler waits for the host, or there is nothing for it to do.
Waiting == \/ pc = "idle" /\ ~eorsti /\ ~rxstp /\ ~rxout
           \/ pc \in {"address", "long", "written"} /\ ~txini
           \/ pc = "status" /\ ~txini /\ ~rxout
           \/ pc = "setup" /\ ~txini /\ (Acknowledged(rq) \/ Received(rq)
                                         \/ ToDevice(rq, {"SET_ADDRESS", "SET_CONFIGURATION"}))

Request == Script[hpos].rq
DeviceAddress == IF adden THEN udaddr ELSE 0
Reached == DeviceAddress = haddr
Done(name) == \E i \in 1..(hpos - 1) : Script[i].rq.bRequest = name
HostConfiguration == IF Done("SET_CONFIGURATION") THEN 1 ELSE 0

\* After a request the host asks the next one, or nothing more: once it has
\* configured the device it may stop at any request.
Onward == {s \in {"ready", "done"} :
    /\ s = "ready" => hpos < Len(Script)
    /\ s = "done" => \/ hpos = Len(Script)
                     \/ \E i \in 1..hpos : Script[i].rq.bRequest = "SET_CONFIGURATION"}

\* The transfer has ended well.
Complete ==
    /\ hpos' = hpos + 1
    /\ haddr' = IF Request.bRequest = "SET_ADDRESS" THEN Request.wValue ELSE haddr
    /\ hst' \in Onward
    /\ UNCHANGED <<resets, abandons>>
\* The transfer has failed: the host will reset the bus and start again.
Failed == hst' = "restart" /\ UNCHANGED <<hpos, haddr, resets, abandons>>
Stage(s) == hst' = s /\ UNCHANGED <<hpos, haddr, resets, abandons>>

\* A SETUP is always taken, and frees the bank.  Between two transfers, and
\* after a reset, there is time for the handlers to do what they can.
HostSetup ==
    /\ hst = "ready" /\ Waiting /\ Reached
    /\ rxstp' = TRUE /\ setup' = Request /\ stall' = FALSE
    /\ txini' = TRUE /\ bank' = NoPacket
    /\ hgot' = 0 /\ hown' = TRUE
    /\ Stage(IF Request.in THEN "in" ELSE IF Request.wLength > 0 THEN "out" ELSE "statusin")
    /\ UNCHANGED <<isrVars, progVars, writeVars, busVars, rxout, outlen>>

Stages == {"in", "out", "statusin", "statusout"}
At(s) == hst = s /\ Reached /\ ~stall

HostIn ==
    /\ At("in") /\ ~txini
    /\ hgot' = hgot + bank.len
    /\ hown' = (/\ hown
                /\ bank.len > 0 => /\ bank.of = Request
                                   /\ Request.bRequest = "GET_CONFIGURATION"
                                          => bank.value = HostConfiguration)
    /\ txini' = TRUE /\ bank' = NoPacket
    /\ Stage(IF bank.len < getEndpointSize0 \/ hgot' >= Request.wLength THEN "statusout" ELSE "in")
    /\ UNCHANGED <<isrVars, progVars, writeVars, busVars, rxstp, setup, rxout, outlen, stall>>

HostStatusOut ==
    /\ At("statusout") /\ ~rxout
    /\ rxout' = TRUE /\ outlen' = 0
    /\ IF hgot = Script[hpos].expect THEN Complete ELSE Failed
    /\ UNCHANGED <<isrVars, progVars, writeVars, busVars, rxstp, setup, txini, bank, stall, hgot, hown>>

HostOut ==
    /\ At("out") /\ ~rxout
    /\ rxout' = TRUE /\ outlen' = Request.wLength
    /\ Stage("statusin")
    /\ UNCHANGED <<isrVars, progVars, writeVars, busVars, rxstp, setup, txini, bank, stall, hgot, hown>>

HostStatusIn ==
    /\ At("statusin") /\ ~txini
    /\ txini' = TRUE /\ bank' = NoPacket
    /\ IF bank.len = 0 THEN Complete ELSE Failed
    /\ UNCHANGED <<isrVars, progVars, writeVars, busVars, rxstp, setup, rxout, outlen, stall, hgot, hown>>

\* A stall ends the transfer; the host goes on if it can do without (expect
\* is negative).
HostStalled ==
    /\ hst \in Stages /\ Reached /\ stall
    /\ IF Script[hpos].expect < 0 THEN Complete ELSE Failed
    /\ UNCHANGED <<isrVars, progVars, writeVars, busVars, ep0Vars, hgot, hown>>

\* Nobody answers, and the host's timeout of seconds ends the transfer.
HostTimeout ==
    /\ hst \in Stages \cup {"ready"} /\ Waiting
    /\ \/ ~Reached
       \/ hst \in {"in", "statusin"} /\ txini /\ ~stall
       \/ hst \in {"out", "statusout"} /\ rxout /\ ~stall
    /\ IF hst # "ready" /\ Script[hpos].expect < 0 THEN Complete ELSE Failed
    /\ UNCHANGED <<isrVars, progVars, writeVars, busVars, ep0Vars, hgot, hown>>

\* A reset of the bus: the hardware clears the address, disables the
\* endpoints and empties endpoint 0.
BusReset ==
    /\ udaddr' = 0 /\ adden' = FALSE /\ eorsti' = TRUE /\ eps' = {}
    /\ rxstp' = FALSE /\ rxout' = FALSE /\ txini' = TRUE /\ bank' = NoPacket /\ stall' = FALSE
    /\ hst' = "ready" /\ hpos' = 1 /\ haddr' = 0
    /\ UNCHANGED <<isrVars, progVars, writeVars, setup, outlen, hgot, hown, abandons>>

HostRestart == hst = "restart" /\ Waiting /\ BusReset /\ UNCHANGED resets

Host == \/ HostSetup \/ HostIn \/ HostStatusOut \/ HostOut \/ HostStatusIn
        \/ HostStalled \/ HostTimeout \/ HostRestart

\* A reset in the middle of anything.
SuddenReset == resets < MaxResets /\ resets' = resets + 1 /\ BusReset

\* The host gives a transfer up: it repeats it, or does without a class request.
\* What it gave up may keep the handler waiting until its next request.
Abandon ==
    /\ hst \in Stages /\ abandons < MaxAbandons
    /\ abandons' = abandons + 1
    /\ \/ hst' = "ready" /\ UNCHANGED hpos
       \/ /\ Request.class
          /\ hpos' = hpos + 1
          /\ hst' \in Onward
    /\ UNCHANGED <<isrVars, progVars, writeVars, busVars, ep0Vars, hgot, hown, haddr, resets>>

\* resetFirmware: the device leaves the bus and begins again.
resetFirmware ==
    /\ pc = "idle" /\ Waiting /\ resets < MaxResets
    /\ resets' = resets + 1
    /\ g_device_state' = "DEFAULT" /\ g_current_config' = 0
    /\ control_write_rq' = NoRq /\ control_write_len' = 0 /\ control_write_in_progress' = FALSE
    /\ udaddr' = 0 /\ adden' = FALSE /\ eorsti' = FALSE /\ eps' = 1..Len(epconfigs)
    /\ rxstp' = FALSE /\ rxout' = FALSE /\ txini' \in AllocTxini /\ bank' = NoPacket /\ stall' = FALSE
    /\ hst' = "restart"
    /\ UNCHANGED <<isrVars, setup, outlen, hpos, hgot, haddr, hown, abandons>>

Next == Isr \/ Host \/ SuddenReset \/ Abandon \/ resetFirmware

Spec == Init /\ [][Next]_vars

\* The processor runs, and the host goes on.
FairSpec == Spec /\ WF_vars(Isr) /\ WF_vars(Host)

-----------------------------------------------------------------------------
Requests == {NoRq} \cup {Script[i].rq : i \in DOMAIN Script}

\* Types; the handler waits for one thing at a time.
TypeOK ==
    /\ pc \in {"idle", "setup", "address", "long", "status", "out", "written"}
    /\ rq \in Requests /\ todo \in -1..configdesc_ttllen /\ iOut \in BOOLEAN
    /\ g_device_state \in {"DEFAULT", "ADDRESS", "CONFIGURED"} /\ g_current_config \in Nat
    /\ control_write_rq \in Requests
    /\ control_write_len \in 0..(CONTROL_WRITE_BUFSIZE - 1)
    /\ control_write_in_progress \in BOOLEAN
    /\ udaddr \in Nat /\ adden \in BOOLEAN /\ eorsti \in BOOLEAN /\ eps \subseteq 1..Len(epconfigs)
    /\ rxstp \in BOOLEAN /\ setup \in Requests /\ rxout \in BOOLEAN /\ outlen \in Nat
    /\ txini \in BOOLEAN /\ stall \in BOOLEAN
    /\ bank.of \in Requests /\ bank.value \in Nat /\ bank.len \in 0..getEndpointSize0
    /\ hst \in Stages \cup {"restart", "ready", "done"}
    /\ hpos \in 1..(Len(Script) + 1) /\ hgot \in Nat /\ haddr \in Nat /\ hown \in BOOLEAN
    /\ resets \in 0..MaxResets /\ abandons \in 0..MaxAbandons

\* What the host has set up since its last reset, the device has: the address
\* once the handler is through, the configuration, and every endpoint of the
\* descriptor enabled as it says.
HostAgrees ==
    hst # "restart" =>
        /\ Done("SET_ADDRESS") => udaddr = haddr /\ (adden \/ pc = "address")
        /\ Done("SET_CONFIGURATION") => g_device_state = "CONFIGURED" /\ g_current_config = 1
        /\ hpos > 1 => \A d \in {cfg1[k] : k \in DOMAIN cfg1} :
               d.kind = "endpoint" => d.number \in eps /\ epconfigs[d.number] = d.cfg

\* An answer that has the length the host expects is the answer to its own
\* request, never what is left of one that a reset or the host cut off; and
\* none is longer than what was asked for.
AnswersOwn ==
    hst = "statusout" => /\ hgot = Script[hpos].expect => hown
                         /\ hgot <= Request.wLength

\* However transfers are cut off by resets or given up, and wherever the host
\* stops, it ends up with a configured device; and the interrupt handler does
\* not keep the processor, but in the one case of StatusPhaseNow: the last
\* request sent data.
Enumerates ==
    <>[](/\ hst = "done" /\ g_device_state = "CONFIGURED"
         /\ pc = "idle" \/ (pc = "written" /\ Received(setup) /\ setup.wLength > 0))

\* usb.c, when the data of a request have come: "Status phase now".  The host
\* has its status packet then, and the handler goes on.
StatusPhaseNow == pc = "written" ~> pc = "idle"
=============================================================================
