---------------------------- MODULE UsbTxProofs ----------------------------
(***************************************************************************)
(* Proofs about the transmit path, for every buffer size below the         *)
(* endpoint's, every banner and any number of resets.                      *)
(***************************************************************************)
EXTENDS UsbTx, SequenceTheorems, TLAPS

(***************************************************************************)
(* An int of 16 bits whose two bytes are all ones is -1, and the lengths   *)
(* posted are never that.                                                  *)
(***************************************************************************)
LEMMA HalvesOfMinusOne ==
    ASSUME NEW n \in Int, n >= -1, n < 32768
    PROVE  /\ Half("low", n) \in Nat /\ Half("high", n) \in Nat
           /\ Half("high", n) = 255 => n = -1
<1>1. CASE n = -1
  BY <1>1 DEF Half, Unsigned
<1>2. CASE n \in Nat
  <2>1. n \div 256 < 200 /\ n \div 256 \in Nat
    BY <1>2
  <2>2. n % 256 \in Nat
    BY <1>2
  <2> QED
    BY <1>2, <2>1, <2>2 DEF Half, Unsigned
<1> QED
  BY <1>1, <1>2

\* What the halves read so far say: a high half of all ones is only read when
\* the last transmission finished, and only the main program starts another.
ReadInv ==
    pc = "ready2" /\ seen = <<"high", 255>> => interrupt_data_len = -1

\* The handshake between usb_interruptSend and the interrupt.
Handshake ==
    /\ NoBusyWait
    /\ Armed
    /\ interrupt_data = "txbuf" => interrupt_data_len # -1
    /\ pc \in {"ready", "ready2", "send", "post", "sent"} => txbuf_pos > 0
    /\ ReadInv

IInv == TypeOK /\ Handshake

(***************************************************************************)
(* The initial state satisfies the invariant: nothing posted, and the main *)
(* program has not started to print.                                       *)
(***************************************************************************)
LEMMA InitIInv == Init => IInv
<1> SUFFICES ASSUME Init PROVE IInv
  OBVIOUS
<1>0. /\ TxBufSize \in Nat /\ TxBufSize > 0 /\ TxBufSize < 32768
      /\ EpSize \in Nat /\ TxBufSize < EpSize
  BY TxAssumption
<1>1. AnyByte \in Byte
  BY TxAssumption DEF AnyByte
<1>2. TypeOK
  <2>1. txini \in BOOLEAN
    BY TxAssumption DEF Init
  <2>2. fifo = <<>> /\ received = <<>> /\ resets = 0
    BY DEF Init
  <2>3. txbuf \in [1..TxBufSize -> Byte] /\ pend \in Byte
    BY <1>1 DEF Init
  <2>4. banner \in Seq(Byte)
    BY TxAssumption DEF Init
  <2>5. /\ txbuf_pos = 0 /\ interrupt_data = "NULL" /\ interrupt_data_len = -1
        /\ txine = TRUE /\ attached = FALSE /\ pc = "idle" /\ caller = "loop"
    BY DEF Init
  <2>6. fifo \in Seq(Byte) /\ Len(fifo) < EpSize /\ received \in Seq(Byte)
    BY <1>0, <2>2
  <2>7. seen \in {"low", "high"} \X Nat
    BY DEF Init
  <2>8. txbuf_pos \in 0..TxBufSize /\ resets \in Nat
    BY <1>0, <2>2, <2>5
  <2> QED
    BY <2>1, <2>3, <2>4, <2>5, <2>6, <2>7, <2>8 DEF TypeOK, Pcs
<1>3. Handshake
  BY DEF Init, Handshake, NoBusyWait, Armed, ReadInv
<1> QED
  BY <1>2, <1>3 DEF IInv

\* A function from 1..n is a sequence of length n.
LEMMA FunctionIsSeq ==
  ASSUME NEW S, NEW n \in Nat, NEW f \in [1..n -> S]
  PROVE  f \in Seq(S) /\ Len(f) = n
<1>1. f \in Seq(S)
  BY SeqDef
<1>2. DOMAIN f = 1..Len(f) /\ Len(f) \in Nat
  BY <1>1, LenProperties
<1>3. DOMAIN f = 1..n
  OBVIOUS
<1>4. Len(f) = n
  BY <1>2, <1>3
<1> QED
  BY <1>1, <1>4

(***************************************************************************)
(* Every step keeps every variable in its range.                           *)
(***************************************************************************)
LEMMA StepTypeOK == TypeOK /\ Handshake /\ [Next]_vars => TypeOK'
<1> SUFFICES ASSUME TypeOK, Handshake, [Next]_vars PROVE TypeOK'
  OBVIOUS
<1>0. /\ TxBufSize \in Nat /\ TxBufSize > 0 /\ TxBufSize < 32768
      /\ EpSize \in Nat /\ TxBufSize < EpSize
  BY TxAssumption
<1> USE DEF TypeOK, Pcs
<1>1. ASSUME NEW b \in Byte, TxByte(b) PROVE TypeOK'
  <2>1. banner' \in Seq(Byte)
    <3>1. CASE banner = <<>>
      BY <1>1, <3>1 DEF TxByte
    <3>2. CASE banner # <<>>
      <4>1. banner' = Tail(banner)
        BY <1>1, <3>2 DEF TxByte
      <4> QED
        BY <3>2, <4>1, HeadTailProperties
    <3> QED
      BY <3>1, <3>2
  <2>2. CASE txbuf_pos >= TxBufSize
    BY <1>1, <2>1, <2>2 DEF TxByte, bufVars, epVars, hostVars
  <2>3. CASE txbuf_pos < TxBufSize
    <3>1. txbuf' \in [1..TxBufSize -> Byte] /\ txbuf_pos' \in 0..TxBufSize
      <4>1. /\ txbuf' = [txbuf EXCEPT ![txbuf_pos + 1] = b]
            /\ txbuf_pos' = txbuf_pos + 1
        BY <1>0, <1>1, <2>3 DEF TxByte
      <4> QED
        BY <1>0, <2>3, <4>1
    <3> QED
      BY <1>1, <2>1, <2>3, <3>1 DEF TxByte, epVars, hostVars
  <2> QED
    BY <1>0, <2>2, <2>3
<1>2. CASE Drain
  BY <1>2 DEF Drain, bufVars, epVars, hostVars
<1>3. CASE LoopTasks
  BY <1>3 DEF LoopTasks, usb_doTasks, bufVars, epVars
<1>4. CASE DoTasks
  BY <1>4 DEF DoTasks, bufVars, epVars, hostVars
<1>5. CASE ReadFirst
  <2>1. interrupt_data_len \in Int /\ interrupt_data_len >= -1 /\ interrupt_data_len < 32768
    BY <1>0
  <2>2. seen' \in {"low", "high"} \X Nat
    <3>1. PICK h \in {"low", "high"} : seen' = <<h, Half(h, interrupt_data_len)>>
      BY <1>5 DEF ReadFirst
    <3>2. Half(h, interrupt_data_len) \in Nat
      BY <2>1, HalvesOfMinusOne
    <3> QED
      BY <3>1, <3>2
  <2> QED
    BY <1>5, <2>2 DEF ReadFirst, bufVars, epVars, hostVars
<1>6. CASE ReadSecond
  BY <1>6 DEF ReadSecond, bufVars, epVars, hostVars
<1>7. CASE Spin
  BY <1>7 DEF Spin, bufVars, epVars, hostVars
<1>8. CASE Post
  BY <1>8 DEF Post, Main, Handshake, bufVars, hostVars
<1>9. CASE Sent
  BY <1>0, <1>9 DEF Sent, epVars, hostVars
<1>10. CASE Return
  <2>1. \/ bufVars' = bufVars
        \/ /\ txbuf' \in [1..TxBufSize -> Byte]
           /\ txbuf_pos' \in 0..TxBufSize
    <3>1. \/ UNCHANGED bufVars
          \/ /\ txbuf_pos = 0
             /\ txbuf' = [txbuf EXCEPT ![txbuf_pos + 1] = pend]
             /\ txbuf_pos' = txbuf_pos + 1
      BY <1>10 DEF Return
    <3>2. CASE UNCHANGED bufVars
      BY <3>2 DEF bufVars
    <3>3. CASE /\ txbuf_pos = 0
               /\ txbuf' = [txbuf EXCEPT ![txbuf_pos + 1] = pend]
               /\ txbuf_pos' = txbuf_pos + 1
      <4>1. txbuf_pos' = 1
        BY <3>3
      <4> QED
        BY <1>0, <3>3, <4>1
    <3> QED
      BY <3>1, <3>2, <3>3
  <2>2. txbuf' \in [1..TxBufSize -> Byte] /\ txbuf_pos' \in 0..TxBufSize
    BY <2>1 DEF bufVars
  <2>3. pc' \in Pcs
    BY <1>10 DEF Return
  <2> QED
    BY <1>10, <2>2, <2>3 DEF Return, epVars, hostVars
<1>11. CASE Isr
  <2>1. CASE interrupt_data = "NULL"
    BY <1>11, <2>1 DEF Isr, mainVars, bufVars, hostVars
  <2>2. CASE interrupt_data = "txbuf"
    <3>1. interrupt_data_len \in 1..TxBufSize
      BY <2>2 DEF Handshake
    <3>2. fifo' = SubSeq(txbuf, 1, interrupt_data_len)
      BY <1>11, <2>2 DEF Isr, Posted
    <3>3. txbuf \in Seq(Byte) /\ Len(txbuf) = TxBufSize
      BY <1>0, FunctionIsSeq
    <3>4. fifo' \in Seq(Byte) /\ Len(fifo') = interrupt_data_len
      BY <1>0, <3>1, <3>2, <3>3, SubSeqProperties
    <3>5. /\ interrupt_data' = "NULL" /\ txini' = FALSE
          /\ UNCHANGED <<interrupt_data_len, txine, mainVars, bufVars, hostVars>>
      BY <1>11, <2>2 DEF Isr
    <3>6. Len(fifo') < EpSize
      BY <1>0, <3>1, <3>4
    <3>7. fifo' \in Seq(Byte)
      BY <3>4
    <3> QED
      BY <3>5, <3>6, <3>7 DEF mainVars, bufVars, hostVars
  <2> QED
    BY <2>1, <2>2
<1>12. CASE HostIn
  <2>1. received' \in Seq(Byte)
    BY <1>12 DEF HostIn
  <2> QED
    BY <1>0, <1>12, <2>1 DEF HostIn, mainVars, bufVars
<1>13. CASE BusReset
  <2>1. txini' \in BOOLEAN
    BY <1>13, TxAssumption DEF BusReset
  <2> QED
    BY <1>0, <1>13, <2>1 DEF BusReset, mainVars, bufVars
<1>14. CASE UNCHANGED vars
  BY <1>14 DEF vars, mainVars, bufVars, epVars, hostVars
<1> QED
  BY <1>1, <1>2, <1>3, <1>4, <1>5, <1>6, <1>7, <1>8, <1>9, <1>10, <1>11,
     <1>12, <1>13, <1>14 DEF Next, MainStep

(***************************************************************************)
(* Every step preserves the handshake.                                     *)
(***************************************************************************)
LEMMA StepHandshake == TypeOK /\ Handshake /\ [Next]_vars => Handshake'
<1> SUFFICES ASSUME TypeOK, Handshake, [Next]_vars PROVE Handshake'
  OBVIOUS
<1> USE DEF Handshake, NoBusyWait, Armed, ReadInv
<1>0. /\ interrupt_data_len \in Int /\ interrupt_data_len >= -1 /\ interrupt_data_len < 32768
      /\ txbuf_pos \in 0..TxBufSize
      /\ interrupt_data \in {"NULL", "txbuf"}
      /\ seen = <<seen[1], seen[2]>> /\ seen[1] \in {"low", "high"}
  <2>1. TxBufSize \in Nat /\ TxBufSize > 0 /\ TxBufSize < 32768
    BY TxAssumption
  <2> QED
    BY <2>1 DEF TypeOK
<1>1. ASSUME NEW b \in Byte, TxByte(b) PROVE Handshake'
  BY <1>1 DEF TxByte, Main, bufVars, epVars
<1>2. CASE Drain
  BY <1>2 DEF Drain, Main, bufVars, epVars
<1>3. CASE LoopTasks
  BY <1>3 DEF LoopTasks, Main, bufVars, epVars
<1>4. CASE DoTasks
  BY <1>4 DEF DoTasks, Main, bufVars, epVars
<1>5. CASE ReadFirst
  <2>1. PICK h \in {"low", "high"} : seen' = <<h, Half(h, interrupt_data_len)>>
    BY <1>5 DEF ReadFirst
  <2>2. seen' = <<"high", 255>> => interrupt_data_len = -1
    <3>1. Half("high", interrupt_data_len) = 255 => interrupt_data_len = -1
      BY <1>0, HalvesOfMinusOne
    <3> QED
      BY <2>1, <3>1
  <2> QED
    BY <1>5, <1>0, <2>2 DEF ReadFirst, Main, bufVars, epVars
<1>6. CASE ReadSecond
  <2>1. seen[2] = 255 /\ Half(Other(seen[1]), interrupt_data_len) = 255
          => interrupt_data_len = -1
    <3>1. Half("high", interrupt_data_len) = 255 => interrupt_data_len = -1
      BY <1>0, HalvesOfMinusOne
    <3>2. pc = "ready2"
      BY <1>6 DEF ReadSecond, Main
    <3>3. CASE seen[1] = "low"
      BY <3>1, <3>3 DEF Other
    <3>4. CASE seen[1] = "high"
      BY <1>0, <3>2, <3>4
    <3> QED
      BY <1>0, <3>3, <3>4
  <2>2. /\ pc' = "send" => interrupt_data_len = -1
        /\ pc' \in {"send", "return"}
    BY <1>6, <2>1 DEF ReadSecond
  <2> QED
    BY <1>6, <1>0, <2>2 DEF ReadSecond, Main, bufVars, epVars
<1>7. CASE Spin
  BY <1>7 DEF Spin, Main, bufVars, epVars
<1>8. CASE Post
  BY <1>8, <1>0 DEF Post, Main, bufVars
<1>9. CASE Sent
  BY <1>9 DEF Sent, Main, epVars
<1>10. CASE Return
  BY <1>10 DEF Return, Main, bufVars, epVars
<1>11. CASE Isr
  <2>1. /\ UNCHANGED <<mainVars, bufVars>>
        /\ interrupt_data' = "NULL"
        /\ \/ interrupt_data_len' = -1
           \/ UNCHANGED <<interrupt_data_len, txine>>
    BY <1>0, <1>11 DEF Isr
  <2> QED
    BY <2>1 DEF mainVars, bufVars
<1>12. CASE HostIn
  BY <1>12 DEF HostIn, mainVars, bufVars
<1>13. CASE BusReset
  BY <1>13 DEF BusReset, mainVars, bufVars
<1>14. CASE UNCHANGED vars
  BY <1>14 DEF vars, mainVars, bufVars, epVars
<1> QED
  BY <1>1, <1>2, <1>3, <1>4, <1>5, <1>6, <1>7, <1>8, <1>9, <1>10, <1>11,
     <1>12, <1>13, <1>14 DEF Next, MainStep

(***************************************************************************)
(* The invariant holds in every reachable state.                           *)
(***************************************************************************)
THEOREM Invariance == Spec => []IInv
<1>1. IInv /\ [Next]_vars => IInv'
  BY StepTypeOK, StepHandshake DEF IInv
<1> QED
  BY InitIInv, <1>1, PTL DEF Spec

(***************************************************************************)
(* Type correctness: no index of txbuf is out of bounds, whatever the      *)
(* interleaving, and no packet fills the endpoint's bank.                  *)
(***************************************************************************)
THEOREM TypeCorrect == Spec => []TypeOK
<1>1. IInv => TypeOK
  BY DEF IInv
<1> QED
  BY <1>1, Invariance, PTL

(***************************************************************************)
(* The ready test, though torn by interrupts, is enough for                *)
(* usb_interruptSend never to wait.                                        *)
(***************************************************************************)
THEOREM NeverWaits == Spec => []NoBusyWait
<1>1. IInv => NoBusyWait
  BY DEF IInv, Handshake
<1> QED
  BY <1>1, Invariance, PTL

(***************************************************************************)
(* An unfinished transmission always has its interrupt enabled.            *)
(***************************************************************************)
THEOREM AlwaysArmed == Spec => []Armed
<1>1. IInv => Armed
  BY DEF IInv, Handshake
<1> QED
  BY <1>1, Invariance, PTL

-----------------------------------------------------------------------------
(***************************************************************************)
(* The transmit path implements its channel, for every buffer and bank,    *)
(* whether or not the bank is free after the endpoints were set up.        *)
(***************************************************************************)

(***************************************************************************)
(* The bank between the interrupt and the host: while the host has bytes   *)
(* to read, their transmission is not finished and nothing else was        *)
(* posted; what is posted has its interrupt pending, unless the bank is    *)
(* not free since the endpoint was set up; a free bank is empty.           *)
(***************************************************************************)
Bank ==
    /\ fifo # <<>> => ~txini /\ interrupt_data_len # -1 /\ interrupt_data = "NULL"
    /\ PostedIntact

LEMMA InitBank ==
    ASSUME Init
    PROVE  Bank
  BY DEF Init, Bank, PostedIntact

\* What the interrupt puts into the bank is never empty.
LEMMA PostedBytes ==
    ASSUME TypeOK, interrupt_data = "txbuf", interrupt_data_len # -1
    PROVE  Posted # <<>>
<1>1. /\ TxBufSize \in Nat /\ txbuf \in [1..TxBufSize -> Byte]
      /\ interrupt_data_len \in 1..TxBufSize
  BY TxAssumption DEF TypeOK
<1>2. txbuf \in Seq(Byte) /\ Len(txbuf) = TxBufSize
  BY <1>1, FunctionIsSeq
<1>3. Len(SubSeq(txbuf, 1, interrupt_data_len)) = interrupt_data_len
  BY <1>1, <1>2, SubSeqProperties
<1>4. Posted = SubSeq(txbuf, 1, interrupt_data_len)
  BY DEF Posted
<1> QED
  BY <1>1, <1>3, <1>4

LEMMA StepBank ==
    ASSUME TypeOK, Handshake, Bank, [Next]_vars
    PROVE  Bank'
<1> USE DEF PostedIntact, IsrPending, Fresh
<1>1. /\ interrupt_data \in {"NULL", "txbuf"}
      /\ NoBusyWait /\ Armed
      /\ interrupt_data = "txbuf" => interrupt_data_len # -1
  BY DEF TypeOK, Handshake
<1>2. CASE Post
  <2>1. /\ interrupt_data_len = -1 /\ UNCHANGED <<txini, fifo>>
        /\ interrupt_data' = "txbuf" /\ txine'
    BY <1>1, <1>2 DEF Post, Main, NoBusyWait
  <2>2. fifo = <<>>
    BY <2>1 DEF Bank
  <2> QED
    BY <2>1, <2>2 DEF Bank
<1>3. CASE Isr
  <2>1. txine /\ txini /\ interrupt_data' = "NULL"
    BY <1>1, <1>3 DEF Isr
  <2>2. CASE interrupt_data = "NULL"
    BY <1>3, <2>1, <2>2 DEF Isr, Bank
  <2>3. CASE interrupt_data = "txbuf"
    BY <1>1, <1>3, <2>1, <2>3 DEF Isr, Bank
  <2> QED
    BY <1>1, <2>2, <2>3
<1>4. CASE HostIn
  <2>1. /\ fifo' = <<>> /\ txini' = TRUE
        /\ UNCHANGED <<interrupt_data, interrupt_data_len, txine>>
    BY <1>4 DEF HostIn
  <2>2. interrupt_data = "txbuf" => txine
    BY <1>1 DEF Armed
  <2> QED
    BY <2>1, <2>2 DEF Bank
<1>5. CASE BusReset
  BY <1>5 DEF BusReset, Bank
<1>6. ASSUME UNCHANGED epVars PROVE Bank'
  BY <1>6 DEF epVars, Bank
<1>7. CASE MainStep \/ UNCHANGED vars
  BY <1>2, <1>6, <1>7
  DEF MainStep, TxByte, Drain, LoopTasks, DoTasks, ReadFirst, ReadSecond, Spin, Sent,
      Return, vars
<1> QED
  BY <1>3, <1>4, <1>5, <1>7 DEF Next

\* What USB_COM_vect and the host do to each other.
THEOREM BankInvariant == Spec => [](IInv /\ Bank)
<1>1. Init => IInv /\ Bank
  BY InitIInv, InitBank
<1>2. (IInv /\ Bank) /\ [Next]_vars => (IInv /\ Bank)'
  BY StepTypeOK, StepHandshake, StepBank DEF IInv
<1> QED
  BY <1>1, <1>2, PTL DEF Spec

\* The buffer handed over by pointer is copied before the main program runs
\* again, so that usbcomm.c may refill it at once; the only exception is a bank
\* that the set-up of the endpoint left not free, until the host reads.
THEOREM PostedStaysIntact == Spec => []PostedIntact
<1>1. IInv /\ Bank => PostedIntact
  BY DEF Bank
<1> QED
  BY <1>1, BankInvariant, PTL

-----------------------------------------------------------------------------
(***************************************************************************)
(* Sequences: what is left of a concatenation without its first part.      *)
(***************************************************************************)
LEMMA DropFirst ==
    ASSUME NEW S, NEW s \in Seq(S), NEW t \in Seq(S)
    PROVE  /\ SubSeq(s \o t, 1, Len(s)) = s
           /\ SubSeq(s \o t, Len(s) + 1, Len(s \o t)) = t
           /\ Len(s) <= Len(s \o t)
<1>1. /\ s \o t \in Seq(S) /\ Len(s \o t) = Len(s) + Len(t)
      /\ Len(s) \in Nat /\ Len(t) \in Nat
  BY ConcatProperties, LenProperties
<1>2. SubSeq(s \o t, 1, Len(s)) = s
  <2>1. CASE Len(s) = 0
    <3>1. s = <<>>
      BY <2>1, EmptySeq
    <3> QED
      BY <2>1, <3>1, SubSeqEmpty
  <2>2. CASE Len(s) # 0
    <3>1. Len(s) \in 1..Len(s) /\ 1 \in 1..Len(s)
      BY <1>1, <2>2
    <3>2. SubSeq(s \o t, 1, Len(s)) = SubSeq(s, 1, Len(s))
      BY <3>1, SubSeqOfConcat1
    <3> QED
      BY <3>2, SubSeqFull
  <2> QED
    BY <2>1, <2>2
<1>3. SubSeq(s \o t, Len(s) + 1, Len(s \o t)) = t
  <2>1. CASE Len(t) = 0
    <3>1. t = <<>>
      BY <2>1, EmptySeq
    <3>2. Len(s) + 1 \in Int /\ Len(s \o t) \in Int /\ Len(s \o t) < Len(s) + 1
      BY <1>1, <2>1
    <3>3. SubSeq(s \o t, Len(s) + 1, Len(s \o t)) = <<>>
      BY <3>2, SubSeqEmpty
    <3> QED
      BY <3>1, <3>3
  <2>2. CASE Len(t) # 0
    <3>1. Len(s) + 1 \in Len(s)+1 .. Len(s)+Len(t) /\ Len(s) + Len(t) \in Len(s)+1 .. Len(s)+Len(t)
      BY <1>1, <2>2
    <3>2. SubSeq(s \o t, Len(s) + 1, Len(s) + Len(t))
            = SubSeq(t, Len(s) + 1 - Len(s), Len(s) + Len(t) - Len(s))
      BY <3>1, SubSeqOfConcat2
    <3>3. Len(s) + 1 - Len(s) = 1 /\ Len(s) + Len(t) - Len(s) = Len(t)
      BY <1>1
    <3>4. SubSeq(s \o t, Len(s) + 1, Len(s) + Len(t)) = SubSeq(t, 1, Len(t))
      BY <3>2, <3>3
    <3> QED
      BY <1>1, <3>4, SubSeqFull
  <2> QED
    BY <2>1, <2>2
<1> QED
  BY <1>1, <1>2, <1>3

LEMMA AppendToConcat ==
    ASSUME NEW S, NEW s \in Seq(S), NEW t \in Seq(S), NEW e \in S
    PROVE  s \o Append(t, e) = Append(s \o t, e)
<1>1. Append(t, e) = t \o <<e>> /\ Append(s \o t, e) = (s \o t) \o <<e>>
  BY AppendIsConcat, ConcatProperties, SMTT(30)
<1>2. <<e>> \in Seq(S)
  OBVIOUS
<1> QED
  BY <1>1, <1>2, ConcatAssociative, SMTT(30)

\* Replacing an element of the first part of a concatenation.
LEMMA ReplaceInFirst ==
    ASSUME NEW S, NEW s \in Seq(S), NEW t \in Seq(S), NEW k \in 1..Len(s), NEW e \in S
    PROVE  [s EXCEPT ![k] = e] \o t = [s \o t EXCEPT ![k] = e]
<1>1. PICK r : r = [s EXCEPT ![k] = e]
  OBVIOUS
<1>2. PICK c : c = s \o t
  OBVIOUS
<1>3. PICK u : u = r \o t
  OBVIOUS
<1>4. PICK v : v = [c EXCEPT ![k] = e]
  OBVIOUS
<1>5. Len(s) \in Nat /\ Len(t) \in Nat
  BY LenProperties
<1>6. /\ r \in Seq(S) /\ Len(r) = Len(s)
      /\ \A i \in 1..Len(s) : r[i] = IF i = k THEN e ELSE s[i]
  BY <1>1, ExceptSeq
<1>7. /\ c \in Seq(S) /\ Len(c) = Len(s) + Len(t)
      /\ \A i \in 1..Len(s) + Len(t) : c[i] = IF i <= Len(s) THEN s[i] ELSE t[i - Len(s)]
  BY <1>2, ConcatProperties
<1>8. /\ u \in Seq(S) /\ Len(u) = Len(r) + Len(t)
      /\ \A i \in 1..Len(r) + Len(t) : u[i] = IF i <= Len(r) THEN r[i] ELSE t[i - Len(r)]
  <2>1. r \in Seq(S)
    BY <1>6
  <2> QED
    BY <1>3, <2>1, ConcatProperties
<1>9. k \in 1..Len(c)
  BY <1>5, <1>7
<1>10. /\ v \in Seq(S) /\ Len(v) = Len(c)
       /\ \A i \in 1..Len(c) : v[i] = IF i = k THEN e ELSE c[i]
  BY <1>4, <1>7, <1>9, ExceptSeq
<1>11. \A i \in 1..Len(u) : u[i] = v[i]
  <2> SUFFICES ASSUME NEW i \in 1..Len(u) PROVE u[i] = v[i]
    OBVIOUS
  <2>1. /\ i \in 1..Len(s) + Len(t) /\ Len(u) = Len(s) + Len(t)
        /\ Len(r) = Len(s) /\ Len(c) = Len(s) + Len(t)
    BY <1>6, <1>7, <1>8
  <2>2. /\ u[i] = IF i <= Len(s) THEN r[i] ELSE t[i - Len(s)]
        /\ v[i] = IF i = k THEN e ELSE c[i]
        /\ c[i] = IF i <= Len(s) THEN s[i] ELSE t[i - Len(s)]
    BY <1>7, <1>8, <1>10, <2>1
  <2>3. CASE i <= Len(s)
    <3>1. i \in 1..Len(s)
      BY <1>5, <2>1, <2>3
    <3>2. r[i] = IF i = k THEN e ELSE s[i]
      BY <1>6, <3>1
    <3> QED
      BY <2>2, <2>3, <3>2
  <2>4. CASE ~(i <= Len(s))
    <3>1. i # k
      BY <1>5, <2>1, <2>4
    <3> QED
      BY <2>2, <2>4, <3>1
  <2> QED
    BY <2>3, <2>4
<1>12. u = v
  <2>1. u \in Seq(S) /\ v \in Seq(S) /\ Len(u) = Len(v)
    BY <1>6, <1>7, <1>8, <1>10
  <2> QED
    BY <1>11, <2>1, SeqEqual
<1> QED
  BY <1>1, <1>2, <1>3, <1>4, <1>12

\* The first n elements of a buffer.
LEMMA Slice ==
    ASSUME NEW S, NEW f, NEW n \in Nat, \A i \in 1..n : f[i] \in S
    PROVE  /\ SubSeq(f, 1, n) \in Seq(S) /\ Len(SubSeq(f, 1, n)) = n
           /\ \A i \in 1..n : SubSeq(f, 1, n)[i] = f[i]
<1> DEFINE q == SubSeq(f, 1, n)
<1>1. /\ q \in Seq(S)
      /\ Len(q) = IF 1 <= n THEN n - 1 + 1 ELSE 0
      /\ \A i \in 1..n - 1 + 1 : q[i] = f[1 + i - 1]
  BY SubSeqProperties
<1> HIDE DEF q
<1>2. Len(q) = n /\ n - 1 + 1 = n
  BY <1>1
<1>3. \A i \in 1..n : q[i] = f[i]
  BY <1>1, <1>2
<1>4. q \in Seq(S) /\ Len(q) = n /\ \A i \in 1..n : q[i] = f[i]
  BY <1>1, <1>2, <1>3
<1> QED
  BY <1>4 DEF q

(***************************************************************************)
(* The four parts of Inflight.                                             *)
(***************************************************************************)
LEMMA Parts ==
    ASSUME TypeOK
    PROVE  /\ fifo \in Seq(Byte) /\ Posted \in Seq(Byte)
           /\ Pending \in Seq(Byte) /\ Waiting \in Seq(Byte)
           /\ SubSeq(txbuf, 1, txbuf_pos) \in Seq(Byte)
           /\ Len(SubSeq(txbuf, 1, txbuf_pos)) = txbuf_pos
           /\ Len(fifo) < EpSize
           /\ Len(Posted) < EpSize
<1>0. TxBufSize \in Nat /\ EpSize \in Nat /\ TxBufSize < EpSize
  BY TxAssumption
<1>1. /\ fifo \in Seq(Byte) /\ Len(fifo) < EpSize /\ pend \in Byte
      /\ txbuf \in [1..TxBufSize -> Byte] /\ txbuf_pos \in 0..TxBufSize
      /\ interrupt_data_len \in {-1} \union 1..TxBufSize
  BY DEF TypeOK
<1>2. ASSUME NEW n \in Int, n <= TxBufSize
      PROVE  /\ SubSeq(txbuf, 1, n) \in Seq(Byte)
             /\ Len(SubSeq(txbuf, 1, n)) = IF 1 <= n THEN n ELSE 0
  <2>1. \A i \in 1..n : txbuf[i] \in Byte
    BY <1>0, <1>1, <1>2
  <2>2. SubSeq(txbuf, 1, n) \in Seq(Byte)
        /\ Len(SubSeq(txbuf, 1, n)) = IF 1 <= n THEN n - 1 + 1 ELSE 0
    BY <2>1, SubSeqProperties
  <2> QED
    BY <2>2
<1>3. /\ SubSeq(txbuf, 1, interrupt_data_len) \in Seq(Byte)
      /\ Len(SubSeq(txbuf, 1, interrupt_data_len)) < EpSize
  <2>1. interrupt_data_len \in Int /\ interrupt_data_len <= TxBufSize
    BY <1>0, <1>1
  <2>2. /\ SubSeq(txbuf, 1, interrupt_data_len) \in Seq(Byte)
        /\ Len(SubSeq(txbuf, 1, interrupt_data_len))
             = IF 1 <= interrupt_data_len THEN interrupt_data_len ELSE 0
    BY <1>2, <2>1
  <2> QED
    BY <1>0, <2>1, <2>2
<1>4. /\ SubSeq(txbuf, 1, txbuf_pos) \in Seq(Byte)
      /\ Len(SubSeq(txbuf, 1, txbuf_pos)) = txbuf_pos
  <2>1. txbuf_pos \in Int /\ txbuf_pos <= TxBufSize /\ txbuf_pos >= 0
    BY <1>0, <1>1
  <2>2. Len(SubSeq(txbuf, 1, txbuf_pos)) = IF 1 <= txbuf_pos THEN txbuf_pos ELSE 0
    BY <1>2, <2>1
  <2>3. SubSeq(txbuf, 1, txbuf_pos) \in Seq(Byte)
    BY <1>2, <2>1
  <2> QED
    BY <2>1, <2>2, <2>3
<1>5. <<>> \in Seq(Byte) /\ Len(<<>>) = 0 /\ <<pend>> \in Seq(Byte)
  BY <1>1, EmptySeq
<1>6. Posted \in Seq(Byte) /\ Len(Posted) < EpSize
  BY <1>0, <1>3, <1>5 DEF Posted
<1>7. Pending \in Seq(Byte) /\ Waiting \in Seq(Byte)
  BY <1>4, <1>5 DEF Pending, Waiting
<1> QED
  BY <1>1, <1>4, <1>6, <1>7

\* While the main program runs nothing is posted, or the endpoint was just set
\* up; the bank is then empty.
LEMMA NothingPosted ==
    ASSUME TypeOK, Bank, ~IsrPending
    PROVE  \/ interrupt_data = "NULL" /\ Posted = <<>>
           \/ interrupt_data = "txbuf" /\ Fresh /\ fifo = <<>>
  BY DEF TypeOK, Bank, PostedIntact, Fresh, Posted

\* A transmission posted has its length, of less than a packet.
LEMMA PostedLength ==
    ASSUME TypeOK, Handshake, interrupt_data = "txbuf"
    PROVE  /\ interrupt_data_len \in 1..TxBufSize /\ TxBufSize < EpSize
           /\ TxBufSize \in Nat /\ EpSize \in Nat
           /\ Posted = SubSeq(txbuf, 1, interrupt_data_len)
           /\ Posted \in Seq(Byte) /\ Len(Posted) = interrupt_data_len
           /\ \A i \in 1..interrupt_data_len : Posted[i] = txbuf[i]
<1>1. /\ interrupt_data_len \in 1..TxBufSize /\ TxBufSize < EpSize
      /\ TxBufSize \in Nat /\ EpSize \in Nat
      /\ txbuf \in [1..TxBufSize -> Byte]
  BY TxAssumption DEF TypeOK, Handshake
<1>2. Posted = SubSeq(txbuf, 1, interrupt_data_len)
  BY DEF Posted
<1>3. interrupt_data_len \in Nat /\ \A i \in 1..interrupt_data_len : txbuf[i] \in Byte
  BY <1>1
<1> QED
  BY <1>1, <1>2, <1>3, Slice

\* Storing into a buffer that is posted replaces a byte of what is posted.
LEMMA PostedReplaced ==
    ASSUME TypeOK, TypeOK', Handshake, interrupt_data = "txbuf",
           NEW b \in Byte, NEW k \in 1..TxBufSize,
           txbuf' = [txbuf EXCEPT ![k] = b],
           UNCHANGED <<interrupt_data, interrupt_data_len>>
    PROVE  /\ k > Len(Posted) => Posted' = Posted
           /\ k <= Len(Posted) => k \in 1..Len(Posted) /\ Posted' = [Posted EXCEPT ![k] = b]
<1>1. /\ interrupt_data_len \in 1..TxBufSize /\ TxBufSize \in Nat
      /\ Posted \in Seq(Byte) /\ Len(Posted) = interrupt_data_len
      /\ \A i \in 1..interrupt_data_len : Posted[i] = txbuf[i]
      /\ txbuf \in [1..TxBufSize -> Byte]
  BY PostedLength DEF TypeOK
<1> DEFINE n == interrupt_data_len
           q == SubSeq(txbuf', 1, n)
<1>2. Posted' = q
  BY DEF Posted
<1>3. /\ \A i \in 1..n : txbuf'[i] \in Byte
      /\ \A i \in 1..n : txbuf'[i] = IF i = k THEN b ELSE txbuf[i]
      /\ n \in Nat
  BY <1>1
<1>4. q \in Seq(Byte) /\ Len(q) = n /\ \A i \in 1..n : q[i] = txbuf'[i]
  BY <1>3, Slice
<1> HIDE DEF q
<1>5. ASSUME k > Len(Posted) PROVE q = Posted
  <2>1. \A i \in 1..Len(q) : q[i] = Posted[i]
    BY <1>1, <1>3, <1>4, <1>5
  <2> QED
    BY <1>1, <1>4, <2>1, SeqEqual
<1>6. ASSUME k <= Len(Posted) PROVE k \in 1..Len(Posted) /\ q = [Posted EXCEPT ![k] = b]
  <2>1. k \in 1..Len(Posted)
    BY <1>1, <1>6
  <2> DEFINE r == [Posted EXCEPT ![k] = b]
  <2>2. /\ r \in Seq(Byte) /\ Len(r) = Len(Posted)
        /\ \A i \in 1..Len(Posted) : r[i] = IF i = k THEN b ELSE Posted[i]
    BY <1>1, <2>1, ExceptSeq
  <2> HIDE DEF r
  <2>3. \A i \in 1..Len(q) : q[i] = r[i]
    BY <1>1, <1>3, <1>4, <2>2
  <2>4. q = r
    BY <1>1, <1>4, <2>2, <2>3, SeqEqual
  <2> QED
    BY <2>1, <2>4 DEF r
<1> QED
  BY <1>2, <1>5, <1>6

\* The bytes in the buffer and the one waiting, when nothing is posted.
LEMMA QuietInflight ==
    ASSUME TypeOK, Posted = <<>>
    PROVE  Inflight = (fifo \o Pending) \o Waiting /\ fifo \o Pending \in Seq(Byte)
<1>1. fifo \in Seq(Byte) /\ Pending \in Seq(Byte)
  BY Parts
<1>2. fifo \o Posted = fifo /\ fifo \o Pending \in Seq(Byte)
  BY <1>1, ConcatEmptySeq, ConcatProperties, SMTT(30)
<1> QED
  BY <1>2 DEF Inflight

\* What is posted stays a sequence of bytes.
LEMMA PostedKept ==
    ASSUME TypeOK, TypeOK', Handshake, interrupt_data = "txbuf",
           UNCHANGED <<interrupt_data, interrupt_data_len>>
    PROVE  Posted' \in Seq(Byte)
<1>1. interrupt_data_len \in 1..TxBufSize /\ TxBufSize \in Nat
  BY PostedLength
<1>2. txbuf' \in [1..TxBufSize -> Byte]
  BY DEF TypeOK
<1>3. interrupt_data_len \in Nat /\ \A i \in 1..interrupt_data_len : txbuf'[i] \in Byte
  BY <1>1, <1>2
<1>4. SubSeq(txbuf', 1, interrupt_data_len) \in Seq(Byte)
  BY <1>3, Slice
<1> QED
  BY <1>4 DEF Posted

(***************************************************************************)
(* Storing a byte makes the buffer's contents one longer.                  *)
(***************************************************************************)
LEMMA BufferGrows ==
    ASSUME TypeOK, NEW b \in Byte, ~(txbuf_pos >= TxBufSize),
           txbuf' = [txbuf EXCEPT ![txbuf_pos + 1] = b], txbuf_pos' = txbuf_pos + 1
    PROVE  SubSeq(txbuf', 1, txbuf_pos') = Append(SubSeq(txbuf, 1, txbuf_pos), b)
<1> DEFINE u == SubSeq(txbuf', 1, txbuf_pos')
           w == Append(SubSeq(txbuf, 1, txbuf_pos), b)
<1>1. /\ TxBufSize \in Nat /\ txbuf \in [1..TxBufSize -> Byte]
      /\ txbuf_pos \in Nat /\ txbuf_pos < TxBufSize
  BY TxAssumption DEF TypeOK
<1>2. /\ \A i \in 1..txbuf_pos : txbuf[i] \in Byte
      /\ \A i \in 1..txbuf_pos + 1 : txbuf'[i] \in Byte
      /\ \A i \in 1..txbuf_pos : txbuf'[i] = txbuf[i]
      /\ txbuf'[txbuf_pos + 1] = b
  BY <1>1
<1>3. /\ SubSeq(txbuf, 1, txbuf_pos) \in Seq(Byte)
      /\ Len(SubSeq(txbuf, 1, txbuf_pos)) = txbuf_pos
      /\ \A i \in 1..txbuf_pos : SubSeq(txbuf, 1, txbuf_pos)[i] = txbuf[i]
  BY <1>1, <1>2, Slice
<1>4. /\ u \in Seq(Byte) /\ Len(u) = txbuf_pos + 1
      /\ \A i \in 1..txbuf_pos + 1 : u[i] = txbuf'[i]
  <2>1. txbuf_pos' = txbuf_pos + 1 /\ txbuf_pos + 1 \in Nat
    BY <1>1
  <2> QED
    BY <1>2, <2>1, Slice
<1>5. /\ w \in Seq(Byte) /\ Len(w) = txbuf_pos + 1
      /\ \A i \in 1..txbuf_pos : w[i] = txbuf[i]
      /\ w[txbuf_pos + 1] = b
  <2> DEFINE q == SubSeq(txbuf, 1, txbuf_pos)
  <2>1. /\ q \in Seq(Byte) /\ Len(q) = txbuf_pos
        /\ \A i \in 1..txbuf_pos : q[i] = txbuf[i]
    BY <1>3
  <2> HIDE DEF q
  <2>2. /\ Append(q, b) \in Seq(Byte) /\ Len(Append(q, b)) = Len(q) + 1
        /\ \A i \in 1..Len(q) : Append(q, b)[i] = q[i]
        /\ Append(q, b)[Len(q) + 1] = b
    BY <2>1, AppendProperties
  <2>3. w = Append(q, b)
    BY DEF q
  <2> HIDE DEF w
  <2> QED
    BY <2>1, <2>2, <2>3
<1>6. \A i \in 1..Len(u) : u[i] = w[i]
  BY <1>1, <1>2, <1>4, <1>5
<1> HIDE DEF u, w
<1>7. u = w
  BY <1>4, <1>5, <1>6, SeqEqual
<1> QED
  BY <1>7 DEF u, w

(***************************************************************************)
(* usbcomm_txbyte puts its byte at the end, whether it stores it or waits  *)
(* for room.                                                               *)
(***************************************************************************)
LEMMA PutStep ==
    ASSUME TypeOK, TypeOK', interrupt_data = "NULL", NEW b \in Byte, TxByte(b)
    PROVE  Channel!Put(b)
<1>1. /\ pc = "idle" /\ Posted = <<>> /\ interrupt_data' = "NULL"
      /\ fifo' = fifo /\ received' = received
  BY DEF TxByte, Main, epVars, hostVars, Posted
<1>a. Fresh' = Fresh
  BY DEF TxByte, epVars, Fresh
<1>2. Posted' = <<>>
  BY <1>1 DEF Posted
<1>3. /\ Inflight = (fifo \o Pending) \o Waiting /\ fifo \o Pending \in Seq(Byte)
      /\ Pending \in Seq(Byte) /\ fifo \in Seq(Byte)
  BY <1>1, QuietInflight, Parts
<1>4. Waiting = <<>> /\ Pending = SubSeq(txbuf, 1, txbuf_pos)
  BY <1>1 DEF Waiting, Pending
<1>5. Inflight = fifo \o Pending
  BY <1>3, <1>4, ConcatEmptySeq
<1>6. Inflight' = ((fifo \o <<>>) \o Pending') \o Waiting'
  BY <1>1, <1>2 DEF Inflight
<1>7. fifo \o <<>> = fifo
  BY <1>3, ConcatEmptySeq
<1>8. Inflight' = (fifo \o Pending') \o Waiting'
  BY <1>6, <1>7
<1>9. CASE txbuf_pos >= TxBufSize
  <2>1. pc' = "tasks" /\ caller' = "txbyte" /\ pend' = b /\ UNCHANGED <<txbuf, txbuf_pos>>
    BY <1>9 DEF TxByte, bufVars
  <2>2. Pending' = Pending /\ Waiting' = <<b>>
    BY <1>4, <2>1 DEF Pending, Waiting
  <2>3. (fifo \o Pending) \o <<b>> = Append(fifo \o Pending, b)
    BY <1>3, AppendIsConcat
  <2> QED
    BY <1>1, <1>a, <1>5, <1>8, <2>2, <2>3 DEF Channel!Put
<1>10. CASE ~(txbuf_pos >= TxBufSize)
  <2>1. /\ txbuf' = [txbuf EXCEPT ![txbuf_pos + 1] = b]
        /\ txbuf_pos' = txbuf_pos + 1 /\ pc' = "idle"
    BY <1>1, <1>10 DEF TxByte
  <2>2. Waiting' = <<>> /\ Pending' = SubSeq(txbuf', 1, txbuf_pos')
    BY <2>1 DEF Waiting, Pending
  <2>3. SubSeq(txbuf', 1, txbuf_pos') = Append(SubSeq(txbuf, 1, txbuf_pos), b)
    BY <1>10, <2>1, BufferGrows
  <2>4. Pending' = Append(Pending, b)
    BY <1>4, <2>2, <2>3
  <2>5. fifo \o Pending' = Append(fifo \o Pending, b)
    BY <1>3, <2>4, AppendToConcat
  <2>6. Append(fifo \o Pending, b) \in Seq(Byte)
    BY <1>3, AppendProperties
  <2>7. Inflight' = Append(Inflight, b)
    BY <1>5, <1>8, <2>2, <2>5, <2>6, ConcatEmptySeq
  <2> QED
    BY <1>1, <1>a, <2>7 DEF Channel!Put
<1> QED
  BY <1>9, <1>10

\* The bytes on their way while one buffer is posted and the bank is empty.
LEMMA PostedInflight ==
    ASSUME TypeOK, fifo = <<>>
    PROVE  Inflight = (Posted \o Pending) \o Waiting /\ Posted \o Pending \in Seq(Byte)
<1>1. Posted \in Seq(Byte) /\ Pending \in Seq(Byte)
  BY Parts
<1>2. fifo \o Posted = Posted /\ Posted \o Pending \in Seq(Byte)
  BY <1>1, ConcatEmptySeq, ConcatProperties, SMTT(30)
<1> QED
  BY <1>2 DEF Inflight

(***************************************************************************)
(* With a buffer posted and not copied yet, the byte is put at the end and *)
(* may replace one of those posted.                                        *)
(***************************************************************************)
LEMMA PutWhilePosted ==
    ASSUME TypeOK, TypeOK', Handshake, Bank, interrupt_data = "txbuf",
           NEW b \in Byte, TxByte(b)
    PROVE  Channel!Put(b) \/ \E k \in 1..EpSize-1 : Channel!PutOver(b, k)
<1>1. /\ pc = "idle" /\ Fresh /\ fifo = <<>> /\ fifo' = fifo /\ received' = received
      /\ Fresh' = Fresh /\ UNCHANGED <<interrupt_data, interrupt_data_len>>
  BY NothingPosted DEF TxByte, Main, epVars, hostVars, Fresh
<1>2. /\ Posted \in Seq(Byte) /\ Pending \in Seq(Byte)
      /\ TxBufSize \in Nat /\ EpSize \in Nat /\ TxBufSize < EpSize
      /\ Len(Posted) \in 1..TxBufSize /\ txbuf_pos \in 0..TxBufSize
  BY Parts, PostedLength DEF TypeOK
<1>3. Waiting = <<>> /\ Pending = SubSeq(txbuf, 1, txbuf_pos)
  BY <1>1 DEF Waiting, Pending
<1>4. Inflight = Posted \o Pending /\ Posted \o Pending \in Seq(Byte)
  BY <1>1, <1>3, PostedInflight, ConcatEmptySeq
<1>5. Inflight' = (Posted' \o Pending') \o Waiting'
  <2>1. Posted' \in Seq(Byte)
    BY <1>1, PostedKept
  <2>2. <<>> \o Posted' = Posted'
    BY <2>1, ConcatEmptySeq
  <2> QED
    BY <1>1, <2>2 DEF Inflight
<1>6. CASE txbuf_pos >= TxBufSize
  <2>1. pc' = "tasks" /\ caller' = "txbyte" /\ pend' = b /\ UNCHANGED <<txbuf, txbuf_pos>>
    BY <1>6 DEF TxByte, bufVars
  <2>2. Posted' = Posted /\ Pending' = Pending /\ Waiting' = <<b>>
    BY <1>1, <1>3, <2>1 DEF Posted, Pending, Waiting
  <2>3. Inflight' = Append(Inflight, b)
    BY <1>4, <1>5, <2>2, AppendIsConcat
  <2> QED
    BY <1>1, <2>3 DEF Channel!Put
<1>7. CASE ~(txbuf_pos >= TxBufSize)
  <2>1. /\ txbuf' = [txbuf EXCEPT ![txbuf_pos + 1] = b]
        /\ txbuf_pos' = txbuf_pos + 1 /\ pc' = "idle"
    BY <1>1, <1>7 DEF TxByte
  <2>2. Waiting' = <<>> /\ Pending' = Append(Pending, b)
    BY <1>3, <1>7, <2>1, BufferGrows DEF Waiting, Pending
  <2>3. Append(Pending, b) \in Seq(Byte)
    BY <1>2, AppendProperties
  <2>4. Posted \o Append(Pending, b) = Append(Inflight, b)
    BY <1>2, <1>4, AppendToConcat
  <2> DEFINE k == txbuf_pos + 1
  <2>5. k \in 1..TxBufSize /\ k \in 1..EpSize-1
    BY <1>2, <1>7
  <2>6. /\ k > Len(Posted) => Posted' = Posted
        /\ k <= Len(Posted) => k \in 1..Len(Posted) /\ Posted' = [Posted EXCEPT ![k] = b]
    BY <1>1, <2>1, <2>5, PostedReplaced
  <2>7. Posted' \o Pending' \in Seq(Byte) /\ Inflight' = Posted' \o Pending'
    <3>1. Posted' \in Seq(Byte)
      BY <1>1, PostedKept
    <3>2. Posted' \o Pending' \in Seq(Byte)
      BY <2>2, <2>3, <3>1, ConcatProperties
    <3> QED
      BY <1>5, <2>2, <3>2, ConcatEmptySeq
  <2>8. CASE k > Len(Posted)
    BY <1>1, <2>2, <2>4, <2>6, <2>7, <2>8 DEF Channel!Put
  <2>9. CASE ~(k > Len(Posted))
    <3>1. k \in 1..Len(Posted) /\ Posted' = [Posted EXCEPT ![k] = b]
      BY <1>2, <2>5, <2>6, <2>9
    <3>2. Posted' \o Append(Pending, b) = [Posted \o Append(Pending, b) EXCEPT ![k] = b]
      <4> DEFINE t == Append(Pending, b)
      <4>1. t \in Seq(Byte) /\ Posted \in Seq(Byte)
        BY <1>2, <2>3
      <4> HIDE DEF t
      <4>2. [Posted EXCEPT ![k] = b] \o t = [Posted \o t EXCEPT ![k] = b]
        BY <3>1, <4>1, ReplaceInFirst
      <4> QED
        BY <3>1, <4>2 DEF t
    <3>3. Inflight' = [Append(Inflight, b) EXCEPT ![k] = b]
      BY <2>2, <2>4, <2>7, <3>2
    <3>4. k <= Len(Inflight)
      <4>1. Len(Inflight) = Len(Posted) + Len(Pending) /\ Len(Pending) \in Nat
        BY <1>2, <1>4, ConcatProperties
      <4> QED
        BY <1>2, <2>5, <3>1, <4>1
    <3>5. Channel!PutOver(b, k)
      BY <1>1, <3>3, <3>4 DEF Channel!PutOver
    <3> QED
      BY <2>5, <3>5
  <2> QED
    BY <2>8, <2>9
<1> QED
  BY <1>6, <1>7

(***************************************************************************)
(* The other steps of the main program only move bytes from one part to    *)
(* the next; but for the byte that waited for room, which is stored, and   *)
(* may replace one of those posted, when usbcomm_drain returns.            *)
(***************************************************************************)
LEMMA SameParts ==
    ASSUME UNCHANGED <<fifo, txini, interrupt_data, interrupt_data_len, txbuf, received>>,
           Pending' = Pending, Waiting' = Waiting
    PROVE  UNCHANGED Channel!vars
<1>1. Posted' = Posted /\ Fresh' = Fresh
  BY DEF Posted, Fresh
<1>2. Inflight' = Inflight
  BY <1>1 DEF Inflight
<1> QED
  BY <1>1, <1>2 DEF Channel!vars

\* Nothing is posted before the post: usb_interruptSend waited for the end of
\* the last transmission.
LEMMA PostStep ==
    ASSUME TypeOK, Handshake, Post
    PROVE  UNCHANGED Channel!vars
<1>1. /\ pc = "post" /\ pc' = "sent" /\ interrupt_data = "NULL"
      /\ interrupt_data' = "txbuf" /\ interrupt_data_len' = txbuf_pos
      /\ UNCHANGED <<txbuf, txbuf_pos, fifo, txini, received, caller, pend>>
  BY DEF Post, Main, bufVars, hostVars, TypeOK, Handshake, NoBusyWait
<1>2. /\ Pending = SubSeq(txbuf, 1, txbuf_pos) /\ Pending' = <<>>
      /\ Posted = <<>>
      /\ Posted' = SubSeq(txbuf, 1, txbuf_pos) /\ Waiting' = Waiting
      /\ Fresh' = Fresh
  BY <1>1 DEF Pending, Posted, Waiting, Fresh
<1>3. Inflight = (fifo \o Pending) \o Waiting
  BY <1>2, QuietInflight
<1>4. fifo \in Seq(Byte) /\ Pending \in Seq(Byte)
  BY Parts
<1>5. (fifo \o Pending) \o <<>> = fifo \o Pending
  BY <1>4, ConcatProperties, ConcatEmptySeq
<1>6. Inflight' = ((fifo \o Pending) \o <<>>) \o Waiting
  BY <1>1, <1>2 DEF Inflight
<1>7. Inflight' = Inflight
  BY <1>3, <1>5, <1>6
<1> QED
  BY <1>1, <1>2, <1>7 DEF Channel!vars

LEMMA SentStep ==
    ASSUME TypeOK, Sent
    PROVE  UNCHANGED Channel!vars
<1>1. /\ pc = "sent" /\ pc' = "return" /\ txbuf_pos' = 0
      /\ UNCHANGED <<fifo, txini, interrupt_data, interrupt_data_len, txbuf, received,
                     caller, pend>>
  BY DEF Sent, Main, epVars, hostVars
<1>2. SubSeq(txbuf, 1, 0) = <<>>
  BY SubSeqEmpty
<1>3. Pending' = Pending /\ Waiting' = Waiting
  BY <1>1, <1>2 DEF Pending, Waiting
<1> QED
  BY <1>1, <1>3, SameParts

\* usbcomm_drain has emptied the buffer: usbcomm_txbyte stores its byte first.
LEMMA StoreFirst ==
    ASSUME TypeOK, Return, caller = "txbyte", ~(txbuf_pos > 0)
    PROVE  /\ txbuf' = [txbuf EXCEPT ![1] = pend] /\ pend \in Byte /\ 1 \in 1..TxBufSize
           /\ Pending = <<>> /\ Pending' = <<pend>>
           /\ Waiting = <<pend>> /\ Waiting' = <<>>
<1>1. /\ TxBufSize \in Nat /\ TxBufSize > 0 /\ txbuf \in [1..TxBufSize -> Byte]
      /\ txbuf_pos = 0 /\ pend \in Byte
  BY TxAssumption DEF TypeOK
<1>2. /\ pc = "return" /\ pc' = "idle" /\ UNCHANGED <<caller, pend>>
      /\ txbuf' = [txbuf EXCEPT ![1] = pend] /\ txbuf_pos' = 1
  BY <1>1 DEF Return, Main
<1>3. 1 \in 1..TxBufSize /\ txbuf'[1] = pend
  BY <1>1, <1>2
<1>4. SubSeq(txbuf', 1, 1) = <<pend>>
  <2>1. /\ SubSeq(txbuf', 1, 1) \in Seq(Byte) /\ Len(SubSeq(txbuf', 1, 1)) = 1
        /\ \A i \in 1..1 : SubSeq(txbuf', 1, 1)[i] = txbuf'[i]
    <3>1. \A i \in 1..1 : txbuf'[i] \in Byte
      BY <1>1, <1>3
    <3> QED
      BY <3>1, Slice
  <2>2. <<pend>> \in Seq(Byte) /\ Len(<<pend>>) = 1 /\ <<pend>>[1] = pend
    BY <1>1
  <2>3. \A i \in 1..Len(SubSeq(txbuf', 1, 1)) : SubSeq(txbuf', 1, 1)[i] = <<pend>>[i]
    BY <1>3, <2>1, <2>2
  <2> QED
    BY <2>1, <2>2, <2>3, SeqEqual
<1>5. SubSeq(txbuf, 1, 0) = <<>>
  BY SubSeqEmpty
<1> QED
  BY <1>1, <1>2, <1>3, <1>4, <1>5 DEF Pending, Waiting

\* Nothing is posted: the byte only moves into the buffer.
LEMMA ReturnQuiet ==
    ASSUME TypeOK, Return, interrupt_data = "NULL", caller = "txbyte", ~(txbuf_pos > 0)
    PROVE  UNCHANGED Channel!vars
<1>1. /\ UNCHANGED <<fifo, txini, interrupt_data, interrupt_data_len, received>>
      /\ Posted = <<>> /\ Posted' = <<>> /\ Fresh' = Fresh
  BY DEF Return, epVars, hostVars, Posted, Fresh
<1>2. /\ Pending = <<>> /\ Pending' = <<pend>> /\ Waiting = <<pend>> /\ Waiting' = <<>>
      /\ pend \in Byte
  BY StoreFirst
<1>3. fifo \in Seq(Byte)
  BY DEF TypeOK
<1>4. fifo \o <<>> = fifo /\ (fifo \o <<pend>>) \o <<>> = fifo \o <<pend>>
  <2>1. <<pend>> \in Seq(Byte)
    BY <1>2
  <2> QED
    BY <1>3, <2>1, ConcatProperties, ConcatEmptySeq
<1>5. Inflight = fifo \o <<pend>> /\ Inflight' = fifo \o <<pend>>
  BY <1>1, <1>2, <1>4 DEF Inflight
<1> QED
  BY <1>1, <1>5 DEF Channel!vars

\* A buffer is posted and not copied yet: its first byte is replaced.
LEMMA ReturnOverwrites ==
    ASSUME TypeOK, TypeOK', Handshake, Bank, Return,
           interrupt_data = "txbuf", caller = "txbyte", ~(txbuf_pos > 0)
    PROVE  \E k \in 1..EpSize-1 : Channel!Overwrite(k)
<1>1. /\ Fresh /\ fifo = <<>> /\ fifo' = <<>> /\ received' = received /\ Fresh' = Fresh
      /\ UNCHANGED <<interrupt_data, interrupt_data_len>>
  BY NothingPosted DEF Return, Main, epVars, hostVars, Fresh
<1>2. /\ txbuf' = [txbuf EXCEPT ![1] = pend] /\ pend \in Byte /\ 1 \in 1..TxBufSize
      /\ Pending = <<>> /\ Pending' = <<pend>> /\ Waiting = <<pend>> /\ Waiting' = <<>>
  BY StoreFirst
<1>3. /\ Posted \in Seq(Byte) /\ Len(Posted) \in 1..TxBufSize
      /\ TxBufSize \in Nat /\ EpSize \in Nat /\ TxBufSize < EpSize
  BY PostedLength
<1>4. 1 \in 1..Len(Posted) /\ 1 \in 1..EpSize-1
  BY <1>3
<1>5. Posted' = [Posted EXCEPT ![1] = pend] /\ Posted' \in Seq(Byte)
  <2>1. Posted' \in Seq(Byte)
    BY <1>1, PostedKept
  <2>2. ~(1 > Len(Posted)) /\ 1 <= Len(Posted)
    BY <1>3
  <2> QED
    BY <1>1, <1>2, <2>1, <2>2, PostedReplaced
<1> DEFINE e == <<pend>>
<1>6. e \in Seq(Byte) /\ Len(e) = 1 /\ e[1] = pend
  BY <1>2
<1>7. Waiting = e /\ Pending' = e
  BY <1>2
<1> HIDE DEF e
<1>8. Inflight = Posted \o e
  <2>1. Posted \o <<>> = Posted /\ <<>> \o Posted = Posted
    BY <1>3, ConcatEmptySeq
  <2> QED
    BY <1>1, <1>2, <1>7, <2>1 DEF Inflight
<1>9. Inflight' = Posted' \o e
  <2>1. <<>> \o Posted' = Posted' /\ Posted' \o e \in Seq(Byte)
    BY <1>5, <1>6, ConcatEmptySeq, ConcatProperties
  <2>2. (Posted' \o e) \o <<>> = Posted' \o e
    BY <2>1, ConcatEmptySeq
  <2> QED
    BY <1>1, <1>2, <1>7, <2>1, <2>2 DEF Inflight
<1>10. Len(Inflight) = Len(Posted) + 1 /\ Inflight[Len(Posted) + 1] = pend
  <2>1. /\ Len(Posted \o e) = Len(Posted) + Len(e)
        /\ \A i \in 1..Len(Posted) + Len(e) :
              (Posted \o e)[i] = IF i <= Len(Posted) THEN Posted[i] ELSE e[i - Len(Posted)]
    BY <1>3, <1>6, ConcatProperties
  <2>2. /\ Len(Posted) + 1 \in 1..Len(Posted) + Len(e)
        /\ ~(Len(Posted) + 1 <= Len(Posted)) /\ (Len(Posted) + 1) - Len(Posted) = 1
    BY <1>3, <1>6
  <2>3. (Posted \o e)[Len(Posted) + 1] = e[1]
    BY <2>1, <2>2
  <2> QED
    BY <1>6, <1>8, <2>1, <2>3
<1>11. Inflight' = [Inflight EXCEPT ![1] = pend]
  <2>1. [Posted EXCEPT ![1] = pend] \o e = [Posted \o e EXCEPT ![1] = pend]
    BY <1>2, <1>3, <1>4, <1>6, ReplaceInFirst
  <2> QED
    BY <1>5, <1>8, <1>9, <2>1
<1>12. 1 < Len(Inflight) /\ Inflight[Len(Inflight)] = pend
  BY <1>3, <1>10
<1>13. Channel!Overwrite(1)
  BY <1>1, <1>11, <1>12 DEF Channel!Overwrite
<1> QED
  BY <1>4, <1>13

LEMMA ReturnStep ==
    ASSUME TypeOK, TypeOK', Handshake, Bank, Return
    PROVE  [Channel!Next]_(Channel!vars)
<1>1. /\ pc = "return" /\ interrupt_data \in {"NULL", "txbuf"}
      /\ UNCHANGED <<fifo, txini, interrupt_data, interrupt_data_len, received, caller, pend>>
      /\ txbuf_pos \in Nat
  BY TxAssumption DEF Return, Main, epVars, hostVars, TypeOK
<1>2. CASE caller # "loop" /\ txbuf_pos > 0
  <2>1. pc' = "tasks" /\ UNCHANGED <<txbuf, txbuf_pos>>
    BY <1>2 DEF Return, bufVars
  <2>2. Pending' = Pending /\ Waiting' = Waiting
    BY <1>1, <2>1 DEF Pending, Waiting
  <2> QED
    BY <1>1, <2>1, <2>2, SameParts
<1>3. CASE ~(caller # "loop" /\ txbuf_pos > 0) /\ caller # "txbyte"
  <2>1. pc' = "idle" /\ UNCHANGED <<txbuf, txbuf_pos>>
    BY <1>3 DEF Return, bufVars
  <2>2. Pending' = Pending /\ Waiting' = Waiting
    BY <1>1, <1>3, <2>1 DEF Pending, Waiting
  <2> QED
    BY <1>1, <2>1, <2>2, SameParts
<1>4. CASE ~(caller # "loop" /\ txbuf_pos > 0) /\ caller = "txbyte"
  <2>1. ~(txbuf_pos > 0) /\ caller = "txbyte"
    BY <1>4
  <2>2. CASE interrupt_data = "NULL"
    BY <2>1, <2>2, ReturnQuiet
  <2>3. CASE interrupt_data = "txbuf"
    BY <2>1, <2>3, ReturnOverwrites DEF Channel!Next
  <2> QED
    BY <1>1, <2>2, <2>3
<1> QED
  BY <1>2, <1>3, <1>4

LEMMA QuietSteps ==
    ASSUME Drain \/ LoopTasks \/ DoTasks \/ ReadFirst \/ ReadSecond \/ Spin
    PROVE  UNCHANGED Channel!vars
<1>1. /\ UNCHANGED <<fifo, txini, interrupt_data, interrupt_data_len, txbuf, txbuf_pos,
                     received, pend>>
      /\ pc # "sent" /\ pc' # "sent" /\ pc' # "idle"
      /\ \/ pc # "idle" /\ caller' = caller
         \/ pc = "idle" /\ caller' # "txbyte"
  BY DEF Drain, LoopTasks, DoTasks, ReadFirst, ReadSecond, Spin, Main, bufVars,
         epVars, hostVars
<1>2. Pending' = Pending /\ Waiting' = Waiting
  BY <1>1 DEF Pending, Waiting
<1> QED
  BY <1>1, <1>2, SameParts

(***************************************************************************)
(* The interrupt moves what was posted to a bank that is empty; the bank   *)
(* is then not free because it holds bytes.                                *)
(***************************************************************************)
LEMMA IsrStep ==
    ASSUME TypeOK, Handshake, Bank, Isr
    PROVE  UNCHANGED Channel!vars
<1>1. txini /\ UNCHANGED <<pc, caller, pend, txbuf, txbuf_pos, received>>
  BY DEF Isr, IsrPending, mainVars, bufVars, hostVars
<1>2. Pending' = Pending /\ Waiting' = Waiting
  BY <1>1 DEF Pending, Waiting
<1>3. fifo = <<>> /\ Posted \in Seq(Byte) /\ Pending \in Seq(Byte)
  BY <1>1, Parts DEF Bank
<1>4. fifo' \o Posted' = fifo \o Posted /\ ~Fresh /\ ~Fresh'
  <2>1. CASE interrupt_data = "NULL"
    BY <1>1, <2>1 DEF Isr, Posted, Fresh
  <2>2. CASE interrupt_data # "NULL"
    <3>1. fifo' = Posted /\ Posted' = <<>>
      BY <2>2 DEF Isr, Posted
    <3>2. interrupt_data = "txbuf" /\ interrupt_data_len # -1
      BY <2>2 DEF TypeOK, Handshake
    <3>3. Posted # <<>>
      BY <3>2, PostedBytes
    <3> QED
      BY <1>1, <1>3, <3>1, <3>3, ConcatEmptySeq DEF Fresh
  <2> QED
    BY <2>1, <2>2
<1>5. Inflight' = Inflight
  BY <1>2, <1>4 DEF Inflight
<1>6. Fresh' = Fresh
  BY <1>4 DEF Fresh
<1> QED
  BY <1>1, <1>5, <1>6 DEF Channel!vars

-----------------------------------------------------------------------------
(***************************************************************************)
(* The hardware's bytes are the oldest of those on their way.              *)
(***************************************************************************)
LEMMA OldestFirst ==
    ASSUME TypeOK
    PROVE  /\ Inflight = (fifo \o Posted) \o (Pending \o Waiting)
           /\ fifo \o Posted \in Seq(Byte) /\ Pending \o Waiting \in Seq(Byte)
           /\ Len(fifo \o Posted) = Len(fifo) + Len(Posted)
<1>1. /\ fifo \in Seq(Byte) /\ Posted \in Seq(Byte)
      /\ Pending \in Seq(Byte) /\ Waiting \in Seq(Byte)
  BY Parts
<1>2. fifo \o Posted \in Seq(Byte) /\ Len(fifo \o Posted) = Len(fifo) + Len(Posted)
  BY <1>1, ConcatProperties, SMTT(30)
<1>3. Pending \o Waiting \in Seq(Byte)
  BY <1>1, ConcatProperties, SMTT(30)
<1> DEFINE h == fifo \o Posted
<1>4. h \in Seq(Byte)
  BY <1>2
<1> HIDE DEF h
<1>5. (h \o Pending) \o Waiting = h \o (Pending \o Waiting)
  BY <1>1, <1>4, ConcatAssociative, SMTT(30)
<1>6. Inflight = (h \o Pending) \o Waiting
  BY Zenon DEF Inflight, h
<1>7. Inflight = h \o (Pending \o Waiting)
  BY <1>5, <1>6
<1>8. Inflight = (fifo \o Posted) \o (Pending \o Waiting)
  BY <1>7, Zenon DEF h
<1> QED
  BY <1>2, <1>3, <1>8

\* What remains when the bank is emptied and nothing is posted.
LEMMA Emptied ==
    ASSUME TypeOK, fifo' = <<>>, Posted' = <<>>, Pending' = Pending, Waiting' = Waiting
    PROVE  Inflight' = Pending \o Waiting
<1>1. Pending \in Seq(Byte) /\ <<>> \in Seq(Byte)
  BY Parts, EmptySeq
<1>2. <<>> \o <<>> = <<>> /\ <<>> \o Pending = Pending
  BY <1>1, ConcatEmptySeq
<1>3. Inflight' = ((<<>> \o <<>>) \o Pending) \o Waiting
  BY DEF Inflight
<1> QED
  BY <1>2, <1>3

\* The host reads the bank's packet: the oldest bytes, fewer than EpSize; or
\* the empty packet of a bank that was not free when the endpoint was set up.
LEMMA HostInStep ==
    ASSUME TypeOK, Bank, HostIn
    PROVE  Channel!Next
<1>1. /\ UNCHANGED <<pc, caller, pend, txbuf, txbuf_pos, interrupt_data, interrupt_data_len>>
      /\ received' = received \o fifo /\ fifo' = <<>>
      /\ ~txini /\ txini'
  BY DEF HostIn, mainVars, bufVars
<1>2. Posted' = Posted /\ Pending' = Pending /\ Waiting' = Waiting /\ Fresh' = FALSE
  BY <1>1 DEF Posted, Pending, Waiting, Fresh
<1>3. /\ fifo \in Seq(Byte) /\ Len(fifo) < EpSize /\ received \in Seq(Byte) /\ <<>> \in Seq(Byte)
  BY Parts, EmptySeq DEF TypeOK
<1>4. CASE fifo = <<>>
  <2>1. Fresh
    BY <1>1, <1>4 DEF Fresh
  <2>2. received' = received
    BY <1>1, <1>3, <1>4, ConcatEmptySeq
  <2>3. Inflight' = Inflight
    BY <1>1, <1>2, <1>4 DEF Inflight
  <2>4. Channel!FirstRead
    BY <1>2, <2>1, <2>2, <2>3 DEF Channel!FirstRead
  <2> QED
    BY <2>4 DEF Channel!Next
<1>5. CASE fifo # <<>>
  <2>1. ~Fresh /\ Posted = <<>> /\ Posted' = <<>>
    BY <1>2, <1>5 DEF Fresh, Bank, Posted
  <2> DEFINE rest == Pending \o Waiting
  <2>2. rest \in Seq(Byte) /\ Inflight = fifo \o rest
    <3>1. Inflight = (fifo \o <<>>) \o rest /\ rest \in Seq(Byte)
      BY <2>1, OldestFirst
    <3>2. fifo \o <<>> = fifo
      BY <1>3, ConcatEmptySeq
    <3> QED
      BY <3>1, <3>2
  <2>3. Inflight' = rest
    BY <1>1, <1>2, <2>1, Emptied
  <2> HIDE DEF rest
  <2>4. Len(fifo) \in 1..EpSize-1
    <3>1. Len(fifo) \in Nat /\ Len(fifo) # 0
      BY <1>3, <1>5, EmptySeq, LenProperties
    <3>2. EpSize \in Nat
      BY TxAssumption
    <3> QED
      BY <1>3, <3>1, <3>2
  <2>5. /\ SubSeq(Inflight, 1, Len(fifo)) = fifo
        /\ SubSeq(Inflight, Len(fifo) + 1, Len(Inflight)) = rest
        /\ Len(fifo) <= Len(Inflight)
    BY <1>3, <2>2, DropFirst
  <2>6. Fresh' = Fresh
    BY <1>2, <2>1 DEF Fresh
  <2>7. Channel!Deliver(Len(fifo))
    BY <1>1, <2>1, <2>3, <2>5, <2>6 DEF Channel!Deliver
  <2> QED
    BY <2>4, <2>7 DEF Channel!Next
<1> QED
  BY <1>4, <1>5

\* A reset loses the bytes in the bank or the bytes posted, and no other: never
\* both, for what is posted is copied into an empty bank.
LEMMA ResetStep ==
    ASSUME TypeOK, TypeOK', Bank, BusReset
    PROVE  Channel!Next
<1>1. /\ interrupt_data' = "NULL" /\ fifo' = <<>>
      /\ UNCHANGED <<pc, caller, pend, txbuf, txbuf_pos, received>>
  BY DEF BusReset, mainVars, bufVars
<1>2. Posted' = <<>> /\ Pending' = Pending /\ Waiting' = Waiting
  BY <1>1 DEF Posted, Pending, Waiting
<1>3. /\ fifo \in Seq(Byte) /\ Posted \in Seq(Byte)
      /\ Len(fifo) < EpSize /\ Len(Posted) < EpSize
      /\ Len(fifo) \in Nat /\ Len(Posted) \in Nat /\ EpSize \in Nat
  BY Parts, LenProperties, TxAssumption
<1>4. Fresh' \in BOOLEAN
  BY DEF Fresh
<1> DEFINE lost == fifo \o Posted
           rest == Pending \o Waiting
<1>5. /\ lost \in Seq(Byte) /\ rest \in Seq(Byte) /\ Inflight = lost \o rest
      /\ Len(lost) = Len(fifo) + Len(Posted)
  BY OldestFirst
<1>6. Inflight' = rest
  BY <1>1, <1>2, Emptied
<1>7. Len(lost) \in 0..EpSize-1
  <2>1. fifo = <<>> \/ Posted = <<>>
    BY DEF Bank, Posted
  <2>2. Len(fifo) = 0 \/ Len(Posted) = 0
    BY <2>1, EmptySeq
  <2> HIDE DEF lost
  <2> QED
    BY <1>3, <1>5, <2>2
<1> HIDE DEF lost, rest
<1>8. /\ SubSeq(Inflight, Len(lost) + 1, Len(Inflight)) = rest
      /\ Len(lost) <= Len(Inflight)
  BY <1>5, DropFirst
<1>9. Channel!Lose(Len(lost))
  BY <1>1, <1>4, <1>6, <1>8 DEF Channel!Lose
<1> QED
  BY <1>7, <1>9 DEF Channel!Next

(***************************************************************************)
(* The transmit path implements its channel, whatever the set-up of the    *)
(* endpoint leaves in the bank: a byte given to usbcomm_txbyte is read by  *)
(* the host once and in order, in packets below the endpoint's size, but   *)
(* for those that a reset finds in the bank or posted, and but for the     *)
(* bytes of a packet posted to a bank that is not free, into which         *)
(* usbcomm_txbyte may store before the host's first read.                  *)
(***************************************************************************)
THEOREM PathImplementsChannel == Spec => ChannelSpec
<1>1. Init => Channel!Init
  <2> SUFFICES ASSUME Init PROVE Channel!Init
    OBVIOUS
  <2>1. /\ fifo = <<>> /\ interrupt_data = "NULL" /\ txbuf_pos = 0 /\ pc = "idle"
        /\ received = <<>>
    BY DEF Init
  <2>2. Posted = <<>> /\ Pending = <<>> /\ Waiting = <<>>
    <3>1. SubSeq(txbuf, 1, 0) = <<>>
      BY SubSeqEmpty
    <3> QED
      BY <2>1, <3>1 DEF Posted, Pending, Waiting
  <2>3. <<>> \o <<>> = <<>>
    BY ConcatEmptySeq, EmptySeq
  <2>4. Inflight = <<>>
    BY <2>1, <2>2, <2>3 DEF Inflight
  <2>5. Fresh \in BOOLEAN
    BY DEF Fresh
  <2> QED
    BY <2>1, <2>4, <2>5 DEF Channel!Init
<1>2. (IInv /\ Bank) /\ (IInv /\ Bank)' /\ [Next]_vars => [Channel!Next]_(Channel!vars)
  <2> SUFFICES ASSUME TypeOK, TypeOK', Handshake, Bank, [Next]_vars
               PROVE  [Channel!Next]_(Channel!vars)
    BY DEF IInv
  <2>1. ASSUME NEW b \in Byte, TxByte(b) PROVE Channel!Next
    <3>1. CASE interrupt_data = "NULL"
      BY <2>1, <3>1, PutStep DEF Channel!Next
    <3>2. CASE interrupt_data = "txbuf"
      BY <2>1, <3>2, PutWhilePosted DEF Channel!Next
    <3>3. interrupt_data \in {"NULL", "txbuf"}
      BY DEF TypeOK
    <3> QED
      BY <3>1, <3>2, <3>3
  <2>2. CASE Drain \/ LoopTasks \/ DoTasks \/ ReadFirst \/ ReadSecond \/ Spin
    BY <2>2, QuietSteps
  <2>3. CASE Post
    BY <2>3, PostStep
  <2>4. CASE Sent
    BY <2>4, SentStep
  <2>5. CASE Return
    BY <2>5, ReturnStep
  <2>6. CASE Isr
    BY <2>6, IsrStep
  <2>7. CASE HostIn
    BY <2>7, HostInStep
  <2>8. CASE BusReset
    BY <2>8, ResetStep
  <2>9. CASE UNCHANGED vars
    BY <2>9, SameParts
    DEF vars, mainVars, bufVars, epVars, hostVars, Pending, Waiting
  <2> QED
    BY <2>1, <2>2, <2>3, <2>4, <2>5, <2>6, <2>7, <2>8, <2>9 DEF Next, MainStep
<1> QED
  BY <1>1, <1>2, BankInvariant, PTL DEF Spec, ChannelSpec, Channel!Spec
=============================================================================
