----------------------------- MODULE TxChannel -----------------------------
(***************************************************************************)
(* What the transmit path of the firmware promises to the rest of it: the  *)
(* bytes given to usbcomm_txbyte reach the host once each and in order, in *)
(* packets shorter than the endpoint (so that none needs a zero-length     *)
(* packet to end the host's transfer).                                     *)
(*                                                                         *)
(* Two things break it, both from the set-up of the endpoint.  A USB reset *)
(* loses the oldest bytes, less than a packet of them.  And when the bank  *)
(* is not free after the set-up, then until the host has read for the      *)
(* first time the bytes of one packet, the oldest, may be overwritten by   *)
(* younger ones, which the host then reads twice.                          *)
(***************************************************************************)
EXTENDS Integers, Sequences

CONSTANTS Byte,      \* the values of a byte
          EpSize     \* size of the IN endpoint's bank

VARIABLES inflight,  \* bytes accepted and not yet read by the host
          received,  \* bytes read by the host
          fresh      \* the endpoint was set up with its bank not free, and the
                     \* host has not read from it since

vars == <<inflight, received, fresh>>

Init == /\ inflight = <<>>
        /\ received = <<>>
        /\ fresh \in BOOLEAN

Put(b) == /\ inflight' = Append(inflight, b)
          /\ UNCHANGED <<received, fresh>>

\* A byte put before the host's first read also replaces one of the oldest.
PutOver(b, k) == /\ fresh /\ k <= Len(inflight)
                 /\ inflight' = [Append(inflight, b) EXCEPT ![k] = b]
                 /\ UNCHANGED <<received, fresh>>

\* The same, for the byte put last.
Overwrite(k) == /\ fresh /\ k < Len(inflight)
                /\ inflight' = [inflight EXCEPT ![k] = inflight[Len(inflight)]]
                /\ UNCHANGED <<received, fresh>>

\* The host's first read takes no byte.
FirstRead == fresh /\ fresh' = FALSE /\ UNCHANGED <<inflight, received>>

\* The host reads one packet.
Deliver(n) == /\ ~fresh /\ n <= Len(inflight)
              /\ received' = received \o SubSeq(inflight, 1, n)
              /\ inflight' = SubSeq(inflight, n + 1, Len(inflight))
              /\ UNCHANGED fresh

\* A USB reset drops the first n bytes, those already handed to the hardware.
Lose(n) == /\ n <= Len(inflight)
           /\ inflight' = SubSeq(inflight, n + 1, Len(inflight))
           /\ fresh' \in BOOLEAN
           /\ UNCHANGED received

Next == \/ \E b \in Byte : Put(b)
        \/ \E b \in Byte, k \in 1..EpSize-1 : PutOver(b, k)
        \/ \E k \in 1..EpSize-1 : Overwrite(k)
        \/ FirstRead
        \/ \E n \in 1..EpSize-1 : Deliver(n)
        \/ \E n \in 0..EpSize-1 : Lose(n)

Spec == Init /\ [][Next]_vars
=============================================================================
