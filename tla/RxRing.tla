------------------------------- MODULE RxRing -------------------------------
(***************************************************************************)
(* The receive path: the ring buffer of usbcomm.c, filled by the USB_COM   *)
(* interrupt with the packets of the OUT endpoint and emptied by the main  *)
(* program.  Head belongs to the interrupt and tail to the main program;   *)
(* nothing checks that one does not overtake the other.                    *)
(*                                                                         *)
(* The main program is interrupted between any two of the steps of         *)
(* usbcomm_rxbyte; the interrupt stores a whole packet before it returns.  *)
(***************************************************************************)
EXTENDS Integers, Sequences

CONSTANTS
    Byte,        \* the values of a byte
    RxBufSize,   \* RXBUF_SIZE (140)
    OutEpSize    \* EP_SIZE_8 of endpoint 3

ASSUME RxAssumption ==
    /\ Byte # {}
    /\ RxBufSize \in Nat /\ RxBufSize > 1
    /\ RxBufSize < 256           \* the indices are of type uint8_t
    /\ OutEpSize \in Nat /\ OutEpSize > 0

VARIABLES
    rxbuf, rxbuf_head, rxbuf_tail,   \* usbcomm.c
    pc,                              \* where the main program is
    v,                               \* the byte usbcomm_rxbyte returns
    count                            \* bytes left in the interrupt's packet

vars == <<rxbuf, rxbuf_head, rxbuf_tail, pc, v, count>>

AnyByte == CHOOSE b \in Byte : TRUE

Init ==
    /\ rxbuf = [i \in 0..RxBufSize-1 |-> AnyByte]
    /\ rxbuf_head = 0
    /\ rxbuf_tail = 0
    /\ pc = "poll"
    /\ v = AnyByte
    /\ count = 0

-----------------------------------------------------------------------------
(* The interrupt.                                                          *)

\* USB_COM_vect for endpoint 3: a packet of the host has arrived.
OutPacket ==
    /\ count = 0
    /\ \E n \in 1..OutEpSize : count' = n
    /\ UNCHANGED <<rxbuf, rxbuf_head, rxbuf_tail, pc, v>>

\* Fault: the head wraps one byte late.
AddbyteWrapsLate(b) ==
    /\ count > 0
    /\ count' = count - 1
    /\ rxbuf' = [rxbuf EXCEPT ![rxbuf_head] = b]
    /\ rxbuf_head' = IF rxbuf_head + 1 > RxBufSize THEN 0 ELSE rxbuf_head + 1
    /\ UNCHANGED <<rxbuf_tail, pc, v>>

\* Fault: the head advances before the byte is stored.
AddbyteAdvancesFirst(b) ==
    /\ count > 0
    /\ count' = count - 1
    /\ rxbuf_head' = IF rxbuf_head + 1 >= RxBufSize THEN 0 ELSE rxbuf_head + 1
    /\ rxbuf' = [rxbuf EXCEPT ![rxbuf_head'] = b]
    /\ UNCHANGED <<rxbuf_tail, pc, v>>

\* usbcomm_addbyte: store, whether or not there is room.
usbcomm_addbyte(b) ==
    /\ count > 0
    /\ count' = count - 1
    /\ rxbuf' = [rxbuf EXCEPT ![rxbuf_head] = b]
    /\ rxbuf_head' = IF rxbuf_head + 1 >= RxBufSize THEN 0 ELSE rxbuf_head + 1
    /\ UNCHANGED <<rxbuf_tail, pc, v>>

-----------------------------------------------------------------------------
(* The main program.                                                       *)

Main(at) == count = 0 /\ pc = at

\* usbcomm_hasData, with interrupts off, says that there is data.
usbcomm_hasData ==
    /\ Main("poll")
    /\ rxbuf_head # rxbuf_tail
    /\ pc' = "read"
    /\ UNCHANGED <<rxbuf, rxbuf_head, rxbuf_tail, v, count>>

\* usbcomm_rxbyte: read the byte, advance the tail, wrap it.
Read ==
    /\ Main("read")
    /\ v' = rxbuf[rxbuf_tail]
    /\ pc' = "advance"
    /\ UNCHANGED <<rxbuf, rxbuf_head, rxbuf_tail, count>>

Advance ==
    /\ Main("advance")
    /\ rxbuf_tail' = rxbuf_tail + 1
    /\ pc' = "wrap"
    /\ UNCHANGED <<rxbuf, rxbuf_head, v, count>>

Wrap ==
    /\ Main("wrap")
    /\ rxbuf_tail' = IF rxbuf_tail >= RxBufSize THEN 0 ELSE rxbuf_tail
    /\ pc' = "poll"
    /\ UNCHANGED <<rxbuf, rxbuf_head, v, count>>

Next == \/ OutPacket
        \/ \E b \in Byte : usbcomm_addbyte(b)
        \/ usbcomm_hasData
        \/ Read
        \/ Advance
        \/ Wrap

Spec == Init /\ [][Next]_vars

-----------------------------------------------------------------------------
(* Properties.                                                             *)

\* The indices stay within the buffer; the tail leaves it for one step only.
TypeOK ==
    /\ rxbuf \in [0..RxBufSize-1 -> Byte]
    /\ rxbuf_head \in 0..RxBufSize-1
    /\ rxbuf_tail \in 0..RxBufSize
    /\ rxbuf_tail = RxBufSize => pc = "wrap"
    /\ pc \in {"poll", "read", "advance", "wrap"}
    /\ v \in Byte
    /\ count \in 0..OutEpSize

Slot(n) == IF n >= RxBufSize THEN n - RxBufSize ELSE n

\* The slot of the oldest byte not read.
First == IF pc = "advance" THEN Slot(rxbuf_tail + 1) ELSE Slot(rxbuf_tail)

\* Equal indices mean an empty buffer, except to a main program that has seen
\* data and not read it yet: to it they mean a full one.
Unread == LET d == rxbuf_head - First IN
          IF d > 0 THEN d
          ELSE IF d = 0 THEN IF pc = "read" THEN RxBufSize ELSE 0
          ELSE d + RxBufSize

Queue == [k \in 1..Unread |-> rxbuf[Slot(First + k - 1)]]

\* The ring implements the queue it promises: one byte less than its size is
\* always safe, and an overrun loses all that is unread, never a part of it.
Fifo == INSTANCE RxFifo WITH Capacity <- RxBufSize - 1, queue <- Queue, got <- v
FifoSpec == Fifo!Spec
=============================================================================
