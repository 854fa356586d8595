------------------------------- MODULE RxFifo -------------------------------
(***************************************************************************)
(* What the receive path promises to the command line and to the XMODEM    *)
(* transfers: the bytes of the host come out once each and in order, until *)
(* one arrives that finds the buffer full.  That one loses everything      *)
(* unread, and nothing tells either side.                                  *)
(***************************************************************************)
EXTENDS Integers, Sequences

CONSTANTS Byte,     \* the values of a byte
          Capacity  \* how many unread bytes are always safe

VARIABLES queue,    \* the bytes not yet read
          got       \* the byte read last

vars == <<queue, got>>

Init == queue = <<>> /\ got \in Byte

Put(b) == /\ Len(queue) < Capacity
          /\ queue' = Append(queue, b)
          /\ UNCHANGED got

\* A full buffer has room for one byte more while its oldest is being read.
PutFull(b) == /\ Len(queue) >= Capacity
              /\ queue' \in {Append(queue, b), <<b>>, <<>>}
              /\ Len(queue') <= Capacity + 1
              /\ UNCHANGED got

Get == /\ queue # <<>>
       /\ got' = Head(queue)
       /\ queue' = Tail(queue)

Next == (\E b \in Byte : Put(b) \/ PutFull(b)) \/ Get

Spec == Init /\ [][Next]_vars
=============================================================================
