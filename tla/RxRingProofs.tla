---------------------------- MODULE RxRingProofs ----------------------------
(***************************************************************************)
(* Proofs about the receive ring, for every size and every packet length.  *)
(***************************************************************************)
EXTENDS RxRing, SequenceTheorems, TLAPS

(***************************************************************************)
(* The indices start within the buffer and stay there: head and tail wrap  *)
(* in time, whatever the interleaving.                                     *)
(***************************************************************************)
LEMMA InitTypeOK == Init => TypeOK
<1>1. AnyByte \in Byte
  BY RxAssumption DEF AnyByte
<1> QED
  BY <1>1, RxAssumption DEF Init, TypeOK

LEMMA StepTypeOK == TypeOK /\ [Next]_vars => TypeOK'
<1> SUFFICES ASSUME TypeOK, [Next]_vars PROVE TypeOK'
  OBVIOUS
<1> USE RxAssumption DEF TypeOK
<1>1. CASE OutPacket
  BY <1>1 DEF OutPacket
<1>2. ASSUME NEW b \in Byte, usbcomm_addbyte(b) PROVE TypeOK'
  BY <1>2 DEF usbcomm_addbyte
<1>3. CASE usbcomm_hasData
  BY <1>3 DEF usbcomm_hasData, Main
<1>4. CASE Read
  BY <1>4 DEF Read, Main
<1>5. CASE Advance
  BY <1>5 DEF Advance, Main
<1>6. CASE Wrap
  BY <1>6 DEF Wrap, Main
<1>7. CASE UNCHANGED vars
  BY <1>7 DEF vars
<1> QED
  BY <1>1, <1>2, <1>3, <1>4, <1>5, <1>6, <1>7 DEF Next

\* head and tail stay within rxbuf: usbcomm_addbyte and usbcomm_rxbyte wrap them
\* in time.
THEOREM TypeCorrect == Spec => []TypeOK
  BY InitTypeOK, StepTypeOK, PTL DEF Spec

(***************************************************************************)
(* The refinement mapping: where the unread bytes are.                     *)
(***************************************************************************)
QueueShape ==
    /\ First \in 0..RxBufSize-1
    /\ Unread \in 0..RxBufSize
    /\ Unread = RxBufSize => pc = "read"
    /\ rxbuf_head = IF Unread = RxBufSize THEN First ELSE Slot(First + Unread)
    /\ Queue \in Seq(Byte)
    /\ Len(Queue) = Unread
    /\ \A k \in 1..Unread : Queue[k] = rxbuf[Slot(First + k - 1)]

LEMMA Shape == TypeOK => QueueShape
<1> SUFFICES ASSUME TypeOK PROVE QueueShape
  OBVIOUS
<1>1. First \in 0..RxBufSize-1
  BY RxAssumption DEF TypeOK, First, Slot
<1>2. /\ Unread \in 0..RxBufSize
      /\ Unread = RxBufSize => pc = "read"
      /\ rxbuf_head = IF Unread = RxBufSize THEN First ELSE Slot(First + Unread)
  BY <1>1, RxAssumption DEF TypeOK, Unread, Slot
<1>3. \A k \in 1..Unread : rxbuf[Slot(First + k - 1)] \in Byte
  <2> TAKE k \in 1..Unread
  <2>1. Slot(First + k - 1) \in 0..RxBufSize-1
    BY <1>1, <1>2, RxAssumption DEF Slot
  <2> QED
    BY <2>1 DEF TypeOK
<1>4. Queue \in Seq(Byte) /\ Len(Queue) = Unread
  BY <1>2, <1>3, IsASeq DEF Queue
<1>5. \A k \in 1..Unread : Queue[k] = rxbuf[Slot(First + k - 1)]
  BY DEF Queue
<1> QED
  BY <1>1, <1>2, <1>4, <1>5 DEF QueueShape

LEMMA ShapeNext == TypeOK' => QueueShape'
  BY Shape, PTL

(***************************************************************************)
(* Storing a byte where there is room appends it to the queue.             *)
(***************************************************************************)
LEMMA AddAppends ==
    ASSUME TypeOK, TypeOK', NEW b \in Byte, usbcomm_addbyte(b),
           Unread < RxBufSize - 1 \/ (Unread = RxBufSize - 1 /\ pc = "read")
    PROVE  Queue' = Append(Queue, b)
<1>1. QueueShape /\ QueueShape'
  BY Shape, ShapeNext
<1>0. /\ First \in 0..RxBufSize-1 /\ Unread \in 0..RxBufSize
      /\ First' \in 0..RxBufSize-1 /\ Unread' \in 0..RxBufSize
      /\ RxBufSize \in Nat /\ RxBufSize > 1
      /\ rxbuf_head \in 0..RxBufSize-1
      /\ Unread = RxBufSize => pc = "read"
  BY <1>1, RxAssumption DEF QueueShape, TypeOK
<1>2. First' = First /\ Unread' = Unread + 1
  <2>1. First' = First /\ pc' = pc
    BY DEF usbcomm_addbyte, First, Slot
  <2>2. rxbuf_head' = IF rxbuf_head + 1 >= RxBufSize THEN 0 ELSE rxbuf_head + 1
    BY DEF usbcomm_addbyte
  <2> QED
    BY <1>0, <2>1, <2>2 DEF Unread
<1>3. /\ Append(Queue, b) \in Seq(Byte)
      /\ Len(Append(Queue, b)) = Unread + 1
      /\ \A k \in 1..Unread : Append(Queue, b)[k] = Queue[k]
      /\ Append(Queue, b)[Unread + 1] = b
  <2>1. Queue \in Seq(Byte) /\ Len(Queue) = Unread /\ Unread \in Nat
    BY <1>0, <1>1 DEF QueueShape
  <2> QED
    BY <2>1, AppendProperties
<1>4. \A k \in 1..Unread+1 : Queue'[k] = Append(Queue, b)[k]
  <2> TAKE k \in 1..Unread+1
  <2>1. Queue'[k] = rxbuf'[Slot(First + k - 1)]
    BY <1>1, <1>2 DEF QueueShape, Slot
  <2>2. rxbuf_head = Slot(First + Unread)
    BY <1>1, RxAssumption DEF QueueShape
  <2>3. CASE k = Unread + 1
    BY <1>1, <1>3, <2>1, <2>2, <2>3
       DEF QueueShape, usbcomm_addbyte, TypeOK
  <2>4. CASE k \in 1..Unread
    <3>1. Slot(First + k - 1) # rxbuf_head
      BY <1>0, <2>2, <2>4 DEF Slot
    <3>2. Slot(First + k - 1) \in 0..RxBufSize-1
      BY <1>0, <2>4 DEF Slot
    <3>3. rxbuf'[Slot(First + k - 1)] = rxbuf[Slot(First + k - 1)]
      BY <3>1, <3>2 DEF usbcomm_addbyte, TypeOK
    <3> QED
      BY <1>1, <1>3, <2>1, <2>4, <3>3 DEF QueueShape
  <2> QED
    BY <1>1, <2>3, <2>4 DEF QueueShape
<1>5. Queue' \in Seq(Byte) /\ Len(Queue') = Unread + 1
  BY <1>1, <1>2 DEF QueueShape
<1> QED
  BY <1>3, <1>4, <1>5, SeqEqual

(***************************************************************************)
(* An overrun leaves the queue empty, or with the byte that caused it.     *)
(***************************************************************************)
LEMMA AddOverruns ==
    ASSUME TypeOK, TypeOK', NEW b \in Byte, usbcomm_addbyte(b),
           ~(Unread < RxBufSize - 1 \/ (Unread = RxBufSize - 1 /\ pc = "read"))
    PROVE  Queue' \in {<<b>>, <<>>}
<1>1. QueueShape /\ QueueShape'
  BY Shape, ShapeNext
<1>0. /\ First \in 0..RxBufSize-1 /\ Unread \in 0..RxBufSize
      /\ First' \in 0..RxBufSize-1 /\ Unread' \in 0..RxBufSize
      /\ RxBufSize \in Nat /\ RxBufSize > 1
      /\ rxbuf_head \in 0..RxBufSize-1
      /\ Unread = RxBufSize => pc = "read"
  BY <1>1, RxAssumption DEF QueueShape, TypeOK
<1>a. /\ First' = First /\ pc' = pc
      /\ rxbuf_head' = IF rxbuf_head + 1 >= RxBufSize THEN 0 ELSE rxbuf_head + 1
  BY DEF usbcomm_addbyte, First, Slot
<1>2. CASE Unread = RxBufSize - 1
  <2>1. Unread' = 0
    BY <1>0, <1>a, <1>2 DEF Unread
  <2> QED
    BY <1>1, <2>1, EmptySeq DEF QueueShape
<1>3. CASE Unread = RxBufSize
  <2>1. First' = First /\ Unread' = 1 /\ rxbuf_head = First
    BY <1>0, <1>a, <1>3 DEF Unread
  <2>2. Slot(First + 1 - 1) = First
    BY <1>0 DEF Slot
  <2>3. Queue'[1] = rxbuf'[First]
    BY <1>1, <2>1, <2>2 DEF QueueShape, Slot
  <2>4. Queue'[1] = b
    BY <1>1, <2>1, <2>3 DEF QueueShape, usbcomm_addbyte, TypeOK
  <2>5. Queue' = <<b>>
    BY <1>1, <2>1, <2>4 DEF QueueShape
  <2> QED
    BY <2>5
<1>4. Unread < RxBufSize - 1 \/ Unread = RxBufSize - 1 \/ Unread = RxBufSize
  BY <1>0
<1> QED
  BY <1>2, <1>3, <1>4

(***************************************************************************)
(* Reading takes the head of the queue, even when the buffer filled up     *)
(* since usbcomm_hasData looked.                                           *)
(***************************************************************************)
LEMMA ReadTakesHead ==
    ASSUME TypeOK, TypeOK', Read
    PROVE  Queue # <<>> /\ v' = Head(Queue) /\ Queue' = Tail(Queue)
<1>1. QueueShape /\ QueueShape'
  BY Shape, ShapeNext
<1>2. Unread > 0 /\ First = rxbuf_tail
  BY RxAssumption DEF Read, Main, TypeOK, Unread, First, Slot
<1>3. First' = Slot(First + 1) /\ Unread' = Unread - 1
  BY <1>1, <1>2, RxAssumption
     DEF Read, Main, TypeOK, Unread, First, Slot, QueueShape
<1>4. Queue # <<>>
  BY <1>1, <1>2 DEF QueueShape
<1>5. v' = Head(Queue)
  <2>1. Queue[1] = rxbuf[rxbuf_tail]
    BY <1>1, <1>2, RxAssumption DEF QueueShape, Slot
  <2> QED
    BY <1>1, <1>4, <2>1 DEF Read, QueueShape
<1>6. /\ Tail(Queue) \in Seq(Byte)
      /\ Len(Tail(Queue)) = Unread - 1
      /\ \A k \in 1..Unread-1 : Tail(Queue)[k] = Queue[k + 1]
  BY <1>1, <1>4, HeadTailProperties DEF QueueShape
<1>7. \A k \in 1..Unread-1 : Queue'[k] = Tail(Queue)[k]
  <2> TAKE k \in 1..Unread-1
  <2>1. Queue'[k] = rxbuf[Slot(First' + k - 1)]
    BY <1>1, <1>3 DEF QueueShape, Slot, Read
  <2>2. Slot(First' + k - 1) = Slot(First + (k + 1) - 1)
    BY <1>1, <1>3, RxAssumption DEF QueueShape, Slot
  <2>3. Queue[k + 1] = rxbuf[Slot(First + (k + 1) - 1)]
    <3>1. k + 1 \in 1..Unread
      BY <1>1 DEF QueueShape
    <3> QED
      BY <1>1, <3>1 DEF QueueShape
  <2> QED
    BY <1>6, <2>1, <2>2, <2>3
<1>8. Queue' \in Seq(Byte) /\ Len(Queue') = Unread - 1
  BY <1>1, <1>3 DEF QueueShape
<1> QED
  BY <1>4, <1>5, <1>6, <1>7, <1>8, SeqEqual

(***************************************************************************)
(* The steps that move an index without reading or storing leave the queue *)
(* alone.                                                                  *)
(***************************************************************************)
LEMMA IndexStepsStutter ==
    ASSUME TypeOK, OutPacket \/ usbcomm_hasData \/ Advance \/ Wrap
    PROVE  UNCHANGED Fifo!vars
<1>1. First' = First
  BY RxAssumption DEF OutPacket, usbcomm_hasData, Advance, Wrap, Main, TypeOK,
                      First, Slot
<1>2. Unread' = Unread
  BY <1>1, RxAssumption
     DEF OutPacket, usbcomm_hasData, Advance, Wrap, Main, TypeOK, Unread, First, Slot
<1>3. rxbuf' = rxbuf /\ v' = v
  BY DEF OutPacket, usbcomm_hasData, Advance, Wrap
<1>4. Queue' = Queue
  BY <1>1, <1>2, <1>3 DEF Queue, Slot
<1> QED
  BY <1>3, <1>4 DEF Fifo!vars

(***************************************************************************)
(* The ring implements the bounded queue: bytes come out once each and in  *)
(* order, all but one of the slots are always usable, and an overrun       *)
(* loses all that is unread at once.                                       *)
(***************************************************************************)
THEOREM RingImplementsFifo == Spec => FifoSpec
<1>1. Init => Fifo!Init
  <2> SUFFICES ASSUME Init PROVE Fifo!Init
    OBVIOUS
  <2>1. TypeOK
    BY InitTypeOK
  <2>2. QueueShape
    BY <2>1, Shape
  <2>3. Unread = 0
    <3>1. First = 0
      BY RxAssumption DEF Init, First, Slot
    <3> QED
      BY <3>1 DEF Init, Unread
  <2>4. Queue = <<>>
    BY <2>2, <2>3, EmptySeq DEF QueueShape
  <2> QED
    BY <2>1, <2>4 DEF Fifo!Init, TypeOK
<1>2. TypeOK /\ TypeOK' /\ [Next]_vars => [Fifo!Next]_(Fifo!vars)
  <2> SUFFICES ASSUME TypeOK, TypeOK', [Next]_vars
               PROVE  [Fifo!Next]_(Fifo!vars)
    OBVIOUS
  <2>0. QueueShape /\ QueueShape'
    BY Shape, ShapeNext
  <2>1. ASSUME NEW b \in Byte, usbcomm_addbyte(b) PROVE Fifo!Put(b) \/ Fifo!PutFull(b)
    <3>1. v' = v
      BY <2>1 DEF usbcomm_addbyte
    <3>2. CASE Unread < RxBufSize - 1
      <4>1. Queue' = Append(Queue, b)
        <5>1. Unread < RxBufSize - 1 \/ (Unread = RxBufSize - 1 /\ pc = "read")
          BY <3>2
        <5> QED
          BY <2>1, <5>1, AddAppends
      <4>2. Len(Queue) < RxBufSize - 1
        BY <2>0, <3>2 DEF QueueShape
      <4> QED
        BY <3>1, <4>1, <4>2 DEF Fifo!Put
    <3>3. CASE Unread = RxBufSize - 1 /\ pc = "read"
      <4>1. Queue' = Append(Queue, b)
        BY <2>1, <3>3, AddAppends
      <4> QED
        BY <2>0, <3>1, <3>3, <4>1, RxAssumption DEF Fifo!PutFull, QueueShape
    <3>4. CASE ~(Unread < RxBufSize - 1 \/ (Unread = RxBufSize - 1 /\ pc = "read"))
      <4>1. Queue' \in {<<b>>, <<>>}
        BY <2>1, <3>4, AddOverruns
      <4>2. Len(Queue) >= RxBufSize - 1
        <5>1. Len(Queue) = Unread /\ Unread \in 0..RxBufSize
          BY <2>0 DEF QueueShape
        <5> QED
          <6>1. ~(Unread < RxBufSize - 1)
            BY <3>4
          <6>2. RxBufSize \in Nat
            BY RxAssumption
          <6> QED
            BY <5>1, <6>1, <6>2
      <4>3. Len(Queue') <= RxBufSize - 1 + 1
        BY <2>0, RxAssumption DEF QueueShape
      <4> QED
        BY <3>1, <4>1, <4>2, <4>3 DEF Fifo!PutFull
    <3> QED
      BY <3>2, <3>3, <3>4
  <2>2. CASE Read
    BY <2>2, ReadTakesHead DEF Fifo!Next, Fifo!Get
  <2>3. CASE OutPacket \/ usbcomm_hasData \/ Advance \/ Wrap
    BY <2>3, IndexStepsStutter
  <2>4. CASE UNCHANGED vars
    <3>1. First' = First /\ Unread' = Unread
      BY <2>4 DEF vars, First, Unread, Slot
    <3> QED
      BY <2>4, <3>1 DEF vars, Queue, Slot, Fifo!vars
  <2> QED
    BY <2>1, <2>2, <2>3, <2>4 DEF Next, Fifo!Next
<1> QED
  BY <1>1, <1>2, TypeCorrect, PTL DEF Spec, FifoSpec, Fifo!Spec
=============================================================================
