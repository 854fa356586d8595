------------------------ MODULE XmodemDownloadProofs ------------------------
(***************************************************************************)
(* A dump is a prefix of the ROM, for every size, every number of          *)
(* premature timeouts and every modulus of the packet numbers above 2; and *)
(* a receiver that ends with success, and was not cancelled, has all of it.*)
(***************************************************************************)
EXTENDS XmodemDownload, SequenceTheorems, TLAPS

Got == Len(received)
Sending == {"start", "block", "ack"}
Chars == {"LF", "C", "NAK", "ACK", "CAN", "ETX"}
Cells == [kind : {"EOT", "text"}]
         \cup [kind : {"SOH"}, no : 0..SeqMod-1, block : Nat, crc : BOOLEAN]

(***************************************************************************)
(* The strengthening.  The firmware is at the receiver's block or at the   *)
(* one before it (Lockstep); at most one ACK is under way, and only for    *)
(* the packet the firmware waits for (Answers); a packet under way is the  *)
(* receiver's next or the one before it, in that order (Flow).  That a     *)
(* number tells these two apart is Right.                                  *)
(***************************************************************************)
Typed ==
    /\ dev \in {"start", "block", "ack", "eot", "cmd"}
    /\ i \in Nat /\ rom_addr \in Nat /\ packetno \in 0..SeqMod-1
    /\ crc_mode \in BOOLEAN /\ slot \in [0..2 -> Nat]
    /\ sequence \in 0..SeqMod-1 /\ received \in Seq(Nat)
    /\ toDev \in Seq(Chars) /\ toHost \in Seq(Cells)

Right(no, b) ==
    /\ no \in 0..SeqMod-1 /\ b \in {Got - 1, Got}
    /\ b = Got => no = sequence
    /\ b = Got - 1 => (no + 1) % SeqMod = sequence

Lockstep ==
    /\ i <= Got
    /\ dev \in Sending => rom_addr = i /\ Right(packetno, i)
    /\ dev \in {"start", "block"} => i = Got
    /\ dev \in {"block", "ack"} => slot[0] = 0 /\ slot[1] = 1
    /\ dev = "ack" => packet = Packet(packetno, i, crc_mode)

Answers ==
    dev \in Sending => \A k \in 1..Len(toDev) : toDev[k] = "ACK" =>
        /\ dev = "ack" /\ Got = i + 1
        /\ \A j \in 1..Len(toDev) : toDev[j] = "ACK" => j = k

Fits(c) ==
    /\ c.kind = "EOT" => dev \in {"eot", "cmd"}
    /\ c.kind = "SOH" => /\ Right(c.no, c.block)
                         /\ dev \in Sending => c.block <= i /\ (c.block = i => dev = "ack")

Flow ==
    \A k \in 1..Len(toHost) :
        /\ Fits(toHost[k])
        /\ \A j \in 1..k : toHost[j].kind = "SOH" /\ toHost[k].kind = "SOH"
                           => toHost[j].block <= toHost[k].block

DownloadInv == Typed /\ Lockstep /\ Answers /\ Flow /\ ExactPrefix

-----------------------------------------------------------------------------
(***************************************************************************)
(* Queues and numbers.                                                     *)
(***************************************************************************)
LEMMA Tails ==
    ASSUME NEW S, NEW s \in Seq(S), s # <<>>
    PROVE  /\ Head(s) = s[1] /\ s[1] \in S /\ Len(s) \in Nat \ {0}
           /\ Tail(s) \in Seq(S) /\ Len(Tail(s)) = Len(s) - 1
           /\ \A k \in 1..Len(Tail(s)) : Tail(s)[k] = s[k + 1]
BY HeadTailProperties, LenProperties, ElementOfSeq

LEMMA Adds ==
    ASSUME NEW S, NEW s \in Seq(S), NEW x \in S
    PROVE  /\ Append(s, x) \in Seq(S) /\ s \o <<x>> = Append(s, x)
           /\ Len(s) \in Nat /\ Len(Append(s, x)) = Len(s) + 1
           /\ \A k \in 1..Len(s) : Append(s, x)[k] = s[k] /\ s[k] \in S
           /\ Append(s, x)[Len(s) + 1] = x
BY AppendProperties, LenProperties, ElementOfSeq

LEMMA Step ==
    ASSUME NEW x \in 0..SeqMod-1
    PROVE  (x + 1) % SeqMod \in 0..SeqMod-1 /\ (x + 1) % SeqMod # x
BY DownloadAssumption

\* Every block is at its place in the bank that ReadBlock chooses.
LEMMA Places ==
    ASSUME NEW r \in Nat
    PROVE  /\ (r \div BankBlocks) \in Nat
           /\ r < 2 * BankBlocks => r \div BankBlocks \in {0, 1}
           /\ (r \div BankBlocks) * BankBlocks + (r % BankBlocks) = r
<1>1. BankBlocks \in Nat \ {0}
  BY DownloadAssumption
<1>2. /\ (r \div BankBlocks) \in Nat
      /\ (r \div BankBlocks) * BankBlocks + (r % BankBlocks) = r
  BY <1>1
<1>3. r < 2 * BankBlocks => r \div BankBlocks \in {0, 1}
  BY <1>1
<1> QED
  BY <1>2, <1>3

LEMMA Arrives ==
    ASSUME NEW q, NEW b \in Oldest(q)
    PROVE  q # <<>> /\ b = Head(q)
BY DEF Oldest

-----------------------------------------------------------------------------
(***************************************************************************)
(* What is under way stays in order whatever the firmware does, as long as *)
(* it goes on and not back.                                                *)
(***************************************************************************)
Onward ==
    /\ dev \notin Sending => dev' \notin Sending
    /\ dev \in {"eot", "cmd"} => dev' \in {"eot", "cmd"}
    /\ dev' \in Sending => i < i' \/ (i = i' /\ (dev = "ack" => dev' = "ack"))

LEMMA FitsKept ==
    ASSUME Typed, i' \in Nat, Onward, UNCHANGED <<received, sequence>>,
           NEW c \in Cells, Fits(c)
    PROVE  Fits(c)'
<1>1. c.kind = "SOH" => c.block \in Nat
  BY DEF Cells
<1>2. c.kind = "SOH" => Right(c.no, c.block)'
  BY DEF Fits, Right, Got
<1>3. c.kind = "EOT" => dev' \in {"eot", "cmd"}
  BY DEF Fits, Onward
<1>4. c.kind = "SOH" /\ dev' \in Sending => c.block <= i' /\ (c.block = i' => dev' = "ack")
  BY <1>1 DEF Fits, Onward, Typed, Sending
<1> QED
  BY <1>2, <1>3, <1>4 DEF Fits

LEMMA FlowSame ==
    ASSUME Typed, Flow, i' \in Nat, Onward, UNCHANGED <<received, sequence, toHost>>
    PROVE  Flow'
<1>1. \A k \in 1..Len(toHost) : toHost[k] \in Cells
  BY ElementOfSeq DEF Typed
<1>2. \A k \in 1..Len(toHost) : Fits(toHost[k])'
  BY <1>1, FitsKept DEF Flow
<1> QED
  BY <1>2 DEF Flow

LEMMA FlowTail ==
    ASSUME Typed, Flow, i' \in Nat, Onward, UNCHANGED <<received, sequence>>,
           toHost # <<>>, toHost' = Tail(toHost)
    PROVE  Flow'
<1>1. /\ Len(toHost) \in Nat \ {0} /\ Len(toHost') = Len(toHost) - 1
      /\ \A k \in 1..Len(toHost') : toHost'[k] = toHost[k + 1]
  BY Tails DEF Typed
<1>2. \A k \in 1..Len(toHost) : toHost[k] \in Cells
  BY ElementOfSeq DEF Typed
<1>3. ASSUME NEW k \in 1..Len(toHost') PROVE Fits(toHost[k])'
  <2>1. k + 1 \in 1..Len(toHost)
    BY <1>1
  <2>2. PICK c \in Cells : c = toHost[k + 1]
    BY <1>2, <2>1
  <2>3. Fits(c)' /\ toHost'[k] = c
    BY <1>1, <2>1, <2>2, FitsKept DEF Flow
  <2> QED
    BY <2>3 DEF Fits, Right, Got
<1>4. ASSUME NEW k \in 1..Len(toHost'), NEW j \in 1..k,
             toHost'[j].kind = "SOH", toHost'[k].kind = "SOH"
      PROVE  toHost'[j].block <= toHost'[k].block
  <2>1. k + 1 \in 1..Len(toHost) /\ j + 1 \in 1..(k + 1) /\ j \in 1..Len(toHost')
    BY <1>1
  <2> QED
    BY <1>1, <1>4, <2>1 DEF Flow
<1> QED
  BY <1>3, <1>4 DEF Flow

LEMMA FlowAdds ==
    ASSUME Typed, Flow, i' \in Nat, Onward, UNCHANGED <<received, sequence>>,
           NEW c \in Cells, toHost' = Append(toHost, c), Fits(c)',
           \A k \in 1..Len(toHost) : toHost[k].kind = "SOH" /\ c.kind = "SOH"
                                     => toHost[k].block <= c.block
    PROVE  Flow'
<1>1. /\ Len(toHost) \in Nat /\ Len(toHost') = Len(toHost) + 1
      /\ \A k \in 1..Len(toHost) : toHost'[k] = toHost[k] /\ toHost[k] \in Cells
      /\ toHost'[Len(toHost) + 1] = c
  BY Adds DEF Typed
<1> DEFINE n == Len(toHost)
<1>3. ASSUME NEW k \in 1..n PROVE Fits(toHost[k])'
  <2>1. PICK d \in Cells : d = toHost[k]
    BY <1>1
  <2>2. Fits(d)' /\ toHost'[k] = d
    BY <1>1, <2>1, FitsKept DEF Flow
  <2> QED
    BY <2>2 DEF Fits, Right, Got
<1>4. ASSUME NEW k \in 1..n, NEW j \in 1..k, toHost'[j].kind = "SOH", toHost'[k].kind = "SOH"
      PROVE  toHost'[j].block <= toHost'[k].block
  BY <1>1, <1>4 DEF Flow
<1>5. ASSUME NEW j \in 1..(n + 1), toHost'[j].kind = "SOH", c.kind = "SOH"
      PROVE  toHost'[j].block <= c.block
  <2>1. CASE j = n + 1
    <3>1. c.block \in Nat
      BY <1>5 DEF Cells
    <3>2. toHost'[j] = c
      BY <1>1, <2>1
    <3> QED
      BY <3>1, <3>2
  <2>2. CASE j \in 1..n
    BY <1>1, <1>5, <2>2
  <2> QED
    BY <1>1, <2>1, <2>2
<1>6. ASSUME NEW k \in 1..(n + 1)
      PROVE  /\ Fits(toHost[k])'
             /\ \A j \in 1..k : toHost'[j].kind = "SOH" /\ toHost'[k].kind = "SOH"
                                => toHost'[j].block <= toHost'[k].block
  <2>1. CASE k = n + 1
    <3>1. toHost'[k] = c
      BY <1>1, <2>1
    <3>2. Fits(toHost[k])'
      BY <3>1 DEF Fits, Right, Got
    <3> QED
      BY <1>5, <2>1, <3>1, <3>2
  <2>2. CASE k \in 1..n
    BY <1>3, <1>4, <2>2
  <2> QED
    BY <1>1, <2>1, <2>2
<1> QED
  BY <1>1, <1>6 DEF Flow

\* A text or an EOT is no packet.
LEMMA FlowText ==
    ASSUME Typed, Flow, i' \in Nat, Onward, UNCHANGED <<received, sequence>>,
           NEW kind \in {"EOT", "text"}, toHost' = toHost \o <<Ctl(kind)>>,
           kind = "EOT" => dev' \in {"eot", "cmd"}
    PROVE  Flow' /\ toHost' \in Seq(Cells)
<1>1. Ctl(kind) \in Cells /\ Ctl(kind).kind = kind
  BY DEF Ctl, Cells
<1>2. toHost' = Append(toHost, Ctl(kind)) /\ toHost' \in Seq(Cells)
  BY <1>1, Adds DEF Typed
<1>3. Fits(Ctl(kind))'
  BY <1>1 DEF Fits
<1>4. Ctl(kind).kind # "SOH"
  BY <1>1
<1>5. Flow'
  BY <1>1, <1>2, <1>3, <1>4, FlowAdds
<1> QED
  BY <1>2, <1>5

-----------------------------------------------------------------------------
(***************************************************************************)
(* An ACK is read where it is meant, and is then the last one under way.   *)
(***************************************************************************)
LEMMA AnswersTail ==
    ASSUME Typed, Answers, toDev # <<>>, toDev' = Tail(toDev), UNCHANGED received,
           \/ dev' \notin Sending
           \/ UNCHANGED <<dev, i>>
           \/ dev = "start"
           \/ dev = "ack" /\ Head(toDev) = "ACK"
    PROVE  Answers'
<1>1. /\ Len(toDev) \in Nat \ {0} /\ Len(toDev') = Len(toDev) - 1
      /\ \A k \in 1..Len(toDev') : toDev'[k] = toDev[k + 1]
      /\ Head(toDev) = toDev[1] /\ 1 \in 1..Len(toDev)
  BY Tails DEF Typed
<1>2. ASSUME NEW k \in 1..Len(toDev') PROVE k + 1 \in 1..Len(toDev) /\ k + 1 # 1
  BY <1>1
<1>3. CASE dev' \notin Sending
  BY <1>3 DEF Answers
<1>4. CASE UNCHANGED <<dev, i>>
  <2> SUFFICES ASSUME dev \in Sending, NEW k \in 1..Len(toDev'), toDev'[k] = "ACK"
               PROVE  /\ dev = "ack" /\ Got = i + 1
                      /\ \A j \in 1..Len(toDev') : toDev'[j] = "ACK" => j = k
    BY <1>4 DEF Answers, Got
  <2>1. k + 1 \in 1..Len(toDev) /\ toDev[k + 1] = "ACK"
    BY <1>1, <1>2
  <2>2. /\ dev = "ack" /\ Got = i + 1
        /\ \A j \in 1..Len(toDev) : toDev[j] = "ACK" => j = k + 1
    BY <2>1 DEF Answers
  <2>3. ASSUME NEW j \in 1..Len(toDev'), toDev'[j] = "ACK" PROVE j = k
    <3>1. j + 1 = k + 1
      BY <1>1, <1>2, <2>2, <2>3
    <3> QED
      BY <3>1
  <2> QED
    BY <2>2, <2>3
<1>5. CASE dev = "start"
  <2>1. \A k \in 1..Len(toDev) : toDev[k] # "ACK"
    BY <1>5 DEF Answers, Sending
  <2>2. \A k \in 1..Len(toDev') : toDev'[k] # "ACK"
    BY <1>1, <1>2, <2>1
  <2> QED
    BY <2>2 DEF Answers
<1>6. CASE dev = "ack" /\ Head(toDev) = "ACK"
  <2>1. \A k \in 1..Len(toDev) : toDev[k] = "ACK" => k = 1
    BY <1>1, <1>6 DEF Answers, Sending
  <2>2. \A k \in 1..Len(toDev') : toDev'[k] # "ACK"
    BY <1>1, <1>2, <2>1
  <2> QED
    BY <2>2 DEF Answers
<1> QED
  BY <1>3, <1>4, <1>5, <1>6

\* What the receiver writes besides ACK changes no answer.
LEMMA AnswersAdd ==
    ASSUME Typed, Answers, UNCHANGED <<devVars, received>>,
           NEW b \in Chars, toDev' = Append(toDev, b),
           b = "ACK" => dev \notin Sending
    PROVE  Answers' /\ toDev' \in Seq(Chars)
<1>1. /\ Len(toDev) \in Nat /\ Len(toDev') = Len(toDev) + 1 /\ toDev' \in Seq(Chars)
      /\ \A k \in 1..Len(toDev) : toDev'[k] = toDev[k]
      /\ toDev'[Len(toDev) + 1] = b
  BY Adds DEF Typed
<1>2. CASE dev \notin Sending
  BY <1>1, <1>2 DEF Answers, devVars
<1>3. CASE dev \in Sending
  <2>1. ASSUME NEW k \in 1..Len(toDev'), toDev'[k] = "ACK"
        PROVE  k \in 1..Len(toDev) /\ toDev[k] = "ACK"
    BY <1>1, <1>3, <2>1
  <2>2. ASSUME NEW k \in 1..Len(toDev'), toDev'[k] = "ACK"
        PROVE  /\ dev = "ack" /\ Got = i + 1
               /\ \A j \in 1..Len(toDev') : toDev'[j] = "ACK" => j = k
    BY <1>3, <2>1, <2>2 DEF Answers
  <2>3. dev' = dev /\ i' = i /\ Got' = Got
    BY DEF devVars, Got
  <2> QED
    BY <1>1, <2>2, <2>3 DEF Answers
<1> QED
  BY <1>2, <1>3

-----------------------------------------------------------------------------
(***************************************************************************)
(* The firmware's steps.                                                   *)
(***************************************************************************)
LEMMA InitHolds ==
    ASSUME Init
    PROVE  DownloadInv
<1>1. toDev \in Seq(Chars) /\ toHost \in Seq(Cells) /\ received \in Seq(Nat)
  BY DEF Init, Chars
<1>2. 1 \in 0..SeqMod-1 /\ 0..Banks-1 \subseteq Nat
  BY DownloadAssumption
<1>3. slot \in [0..2 -> Nat]
  BY <1>2 DEF Init
<1>4. Typed
  BY <1>1, <1>2, <1>3 DEF Init, Typed
<1>5. Got = 0
  BY DEF Init, Got
<1>6. Right(packetno, i)
  BY <1>2, <1>5 DEF Init, Right
<1>7. Lockstep
  BY <1>5, <1>6 DEF Init, Lockstep
<1>8. Answers
  BY DEF Init, Answers
<1>9. Flow
  BY DEF Init, Flow
<1>10. ExactPrefix
  BY DEF Init, ExactPrefix
<1> QED
  BY <1>4, <1>7, <1>8, <1>9, <1>10 DEF DownloadInv

LEMMA WaitStartKeeps ==
    ASSUME DownloadInv, WaitStart
    PROVE  DownloadInv'
<1> USE DEF DownloadInv
<1>1. /\ dev = "start" /\ dev' \in {"start", "block", "cmd"}
      /\ UNCHANGED <<i, packetno, rom_addr, packet, received, sequence>>
      /\ toDev # <<>> /\ toDev' = Tail(toDev)
  BY Arrives DEF WaitStart, Rx, hostVars
<1>2. crc_mode' \in BOOLEAN
  BY Zenon DEF WaitStart, Typed
<1>3. slot' \in [0..2 -> Nat] /\ (dev' = "block" => slot'[0] = 0 /\ slot'[1] = 1)
  BY DEF WaitStart, Typed
<1>4. toHost' = toHost \/ (dev' = "cmd" /\ toHost' = toHost \o <<Ctl("text")>>)
  BY DEF WaitStart, ToHost
<1>5. Onward
  BY <1>1 DEF Onward, Sending, Typed
<1>6. i' \in Nat
  BY <1>1 DEF Typed
<1>7. Flow' /\ toHost' \in Seq(Cells)
  BY <1>1, <1>4, <1>5, <1>6, FlowSame, FlowText DEF Typed
<1>8. toDev' \in Seq(Chars)
  BY <1>1, Tails DEF Typed
<1>9. Typed'
  BY <1>1, <1>2, <1>3, <1>7, <1>8 DEF Typed
<1>10. Answers'
  BY <1>1, AnswersTail
<1>11. Lockstep'
  BY <1>1, <1>3 DEF Lockstep, Right, Got, Sending
<1>12. ExactPrefix'
  BY <1>1 DEF ExactPrefix
<1> QED
  BY <1>7, <1>9, <1>10, <1>11, <1>12

LEMMA ReadsBlock ==
    ASSUME DownloadInv, dev = "block", ReadBlock
    PROVE  /\ packet' = Packet(packetno, i, crc_mode)
           /\ slot' \in [0..2 -> Nat] /\ slot'[0] = 0 /\ slot'[1] = 1
<1>1. rom_addr = i /\ i \in Nat /\ slot \in [0..2 -> Nat] /\ slot[0] = 0 /\ slot[1] = 1
  BY DEF DownloadInv, Typed, Lockstep, Sending
<1> DEFINE d == i \div BankBlocks
<1>2. /\ d \in Nat /\ (i < 2 * BankBlocks => d \in {0, 1})
      /\ d * BankBlocks + (i % BankBlocks) = i
  BY <1>1, Places
<1>3. CASE i < 2 * BankBlocks
  <2>1. slot' = slot /\ packet' = Packet(packetno, Shown(slot[d]), crc_mode)
    BY <1>1, <1>3 DEF ReadBlock
  <2>2. slot[d] = d
    BY <1>1, <1>2, <1>3
  <2>3. Shown(slot[d]) = i
    BY <1>1, <1>2, <2>2 DEF Shown
  <2> QED
    BY <1>1, <2>1, <2>3
<1>4. CASE ~(i < 2 * BankBlocks)
  <2>1. /\ slot' = [slot EXCEPT ![2] = d]
        /\ packet' = Packet(packetno, Shown(slot'[2]), crc_mode)
    BY <1>1, <1>4 DEF ReadBlock
  <2>2. /\ slot' \in [0..2 -> Nat] /\ slot'[0] = 0 /\ slot'[1] = 1
        /\ slot'[2] = d
    BY <1>1, <1>2, <2>1
  <2>3. Shown(slot'[2]) = i
    BY <1>1, <1>2, <2>2 DEF Shown
  <2> QED
    BY <2>1, <2>2, <2>3
<1> QED
  BY <1>3, <1>4

\* A packet sent, or sent again, is the one the firmware waits to be answered.
LEMMA SentPacket ==
    ASSUME DownloadInv, dev \in {"block", "ack"}, dev' = "ack",
           UNCHANGED <<i, received, sequence>>,
           toHost' = toHost \o <<Packet(packetno, i, crc_mode)>>
    PROVE  Flow' /\ toHost' \in Seq(Cells)
<1> DEFINE p == Packet(packetno, i, crc_mode)
<1>1. /\ i \in Nat /\ packetno \in 0..SeqMod-1 /\ Right(packetno, i)
      /\ Typed /\ Flow /\ dev \in Sending
  BY DEF DownloadInv, Typed, Lockstep, Sending
<1>2. p \in Cells
  BY <1>1 DEF Packet, Cells, Typed
<1>3. p.kind = "SOH" /\ p.no = packetno /\ p.block = i
  BY DEF Packet
<1>4. toHost' = Append(toHost, p) /\ toHost' \in Seq(Cells)
  BY <1>1, <1>2, Adds DEF Typed
<1> HIDE DEF p
<1>5. Onward
  BY DEF Onward, Sending
<1>6. PICK c \in Cells : c = p
  BY <1>2
<1>7. Fits(c)'
  BY <1>1, <1>3, <1>6 DEF Fits, Right, Got
<1>8. \A k \in 1..Len(toHost) : toHost[k].kind = "SOH" => toHost[k].block <= c.block
  BY <1>1, <1>3, <1>6 DEF Flow, Fits
<1>9. toHost' = Append(toHost, c) /\ i' \in Nat
  BY <1>1, <1>4, <1>6
<1>10. Flow'
  BY <1>1, <1>5, <1>7, <1>8, <1>9, FlowAdds
<1> QED
  BY <1>4, <1>10

LEMMA SendBlockKeeps ==
    ASSUME DownloadInv, SendBlock
    PROVE  DownloadInv'
<1> USE DEF DownloadInv
<1>1. /\ dev = "block"
      /\ UNCHANGED <<i, packetno, rom_addr, crc_mode, received, sequence, toDev>>
  BY DEF SendBlock, hostVars
<1>2. \A k \in 1..Len(toDev) : toDev[k] # "ACK"
  BY <1>1 DEF Answers, Sending
<1>3. Answers' /\ ExactPrefix'
  BY <1>1, <1>2 DEF Answers, ExactPrefix
<1>4. CASE i < n_blocks
  <2>1. ReadBlock /\ toHost' = toHost \o <<packet'>> /\ dev' = "ack"
    BY <1>4 DEF SendBlock, ToHost
  <2>2. /\ packet' = Packet(packetno, i, crc_mode)
        /\ slot' \in [0..2 -> Nat] /\ slot'[0] = 0 /\ slot'[1] = 1
    BY <1>1, <2>1, ReadsBlock
  <2>3. Flow' /\ toHost' \in Seq(Cells)
    BY <1>1, <2>1, <2>2, SentPacket
  <2>4. Typed'
    BY <1>1, <2>1, <2>2, <2>3 DEF Typed
  <2>5. Lockstep'
    BY <1>1, <2>1, <2>2 DEF Lockstep, Right, Got, Sending
  <2> QED
    BY <1>3, <2>3, <2>4, <2>5
<1>5. CASE ~(i < n_blocks)
  <2>1. /\ toHost' = toHost \o <<Ctl("EOT")>> /\ dev' = "eot"
        /\ UNCHANGED <<packet, slot>>
    BY <1>5 DEF SendBlock, ToHost
  <2>2. Onward /\ i' \in Nat
    BY <1>1, <2>1 DEF Onward, Sending, Typed
  <2>3. Flow' /\ toHost' \in Seq(Cells)
    BY <1>1, <2>1, <2>2, FlowText
  <2>4. Typed'
    BY <1>1, <2>1, <2>3 DEF Typed
  <2>5. Lockstep'
    BY <1>1, <2>1 DEF Lockstep, Got, Sending
  <2> QED
    BY <1>3, <2>3, <2>4, <2>5
<1> QED
  BY <1>4, <1>5

LEMMA WaitAckKeeps ==
    ASSUME DownloadInv, WaitAck
    PROVE  DownloadInv'
<1> USE DEF DownloadInv
<1>1. PICK b \in Oldest(toDev) :
          /\ toDev' = Tail(toDev)
          /\ \/ b = "ACK" /\ NextBlock /\ UNCHANGED <<slot, toHost>>
             \/ /\ b = "NAK" /\ ToHost(<<packet>>)
                /\ UNCHANGED <<dev, i, rom_addr, packetno, slot>>
             \/ /\ b = "CAN" /\ RestoreSlot2 /\ dev' = "cmd"
                /\ \E kind \in {"text", "EOT"} : ToHost(<<Ctl(kind)>>)
                /\ UNCHANGED <<i, rom_addr, packetno>>
             \/ /\ b \notin {"ACK", "NAK", "CAN"}
                /\ UNCHANGED <<dev, i, rom_addr, packetno, slot, toHost>>
  BY DEF WaitAck, Rx
<1>2. /\ dev = "ack" /\ toDev # <<>> /\ b = Head(toDev)
      /\ UNCHANGED <<crc_mode, packet, received, sequence>>
  BY Arrives DEF WaitAck, hostVars
<1>3. toDev' \in Seq(Chars) /\ Head(toDev) = toDev[1] /\ 1 \in 1..Len(toDev)
  BY <1>1, <1>2, Tails DEF Typed
<1>4. ExactPrefix'
  BY <1>2 DEF ExactPrefix
<1>5. CASE b = "ACK"
  <2>1. /\ i' = i + 1 /\ rom_addr' = rom_addr + 1 /\ dev' = "block"
        /\ packetno' = (packetno + 1) % SeqMod /\ UNCHANGED <<slot, toHost>>
    BY <1>1, <1>5 DEF NextBlock
  <2>2. Got = i + 1 /\ i \in Nat
    BY <1>2, <1>3, <1>5 DEF Answers, Sending, Typed
  <2>3. Onward /\ i' \in Nat
    BY <1>2, <2>1, <2>2 DEF Onward, Sending
  <2>4. Flow'
    BY <1>2, <2>1, <2>3, FlowSame
  <2>5. Answers'
    BY <1>1, <1>2, <1>5, AnswersTail
  <2>6. packetno' \in 0..SeqMod-1 /\ rom_addr' = i + 1 /\ packetno' = sequence
    BY <1>2, <2>1, <2>2, Step DEF Typed, Lockstep, Sending, Right
  <2>7. Typed'
    BY <1>2, <1>3, <2>1, <2>2, <2>6 DEF Typed
  <2>8. Got' = Got /\ i' = Got
    BY <1>2, <2>1, <2>2 DEF Got
  <2>9. Right(packetno, i)'
    BY <1>2, <2>2, <2>6, <2>8 DEF Right
  <2>10. Lockstep'
    BY <1>2, <2>1, <2>2, <2>6, <2>8, <2>9 DEF Lockstep
  <2> QED
    BY <1>4, <2>4, <2>5, <2>7, <2>10
<1>6. CASE b = "NAK"
  <2>1. /\ toHost' = toHost \o <<packet>>
        /\ UNCHANGED <<dev, i, rom_addr, packetno, slot>>
    BY <1>1, <1>6 DEF ToHost
  <2>2. packet = Packet(packetno, i, crc_mode)
    BY <1>2 DEF Lockstep
  <2>3. Flow' /\ toHost' \in Seq(Cells)
    BY <1>2, <2>1, <2>2, SentPacket
  <2>4. Answers'
    BY <1>1, <1>2, <2>1, AnswersTail
  <2>5. Typed'
    BY <1>2, <1>3, <2>1, <2>3 DEF Typed
  <2>6. Lockstep'
    BY <1>2, <2>1 DEF Lockstep, Right, Got
  <2> QED
    BY <1>4, <2>3, <2>4, <2>5, <2>6
<1>7. CASE b = "CAN"
  <2>1. /\ slot' = [slot EXCEPT ![2] = 2] /\ dev' = "cmd"
        /\ UNCHANGED <<i, rom_addr, packetno>>
        /\ \E kind \in {"text", "EOT"} : toHost' = toHost \o <<Ctl(kind)>>
    BY <1>1, <1>7 DEF ToHost, RestoreSlot2
  <2>2. Onward /\ i' \in Nat
    BY <1>2, <2>1 DEF Onward, Sending, Typed
  <2>3. Flow' /\ toHost' \in Seq(Cells)
    <3>1. PICK kind \in {"text", "EOT"} : toHost' = toHost \o <<Ctl(kind)>>
      BY <2>1
    <3> QED
      BY <1>2, <2>1, <2>2, <3>1, FlowText
  <2>4. Answers'
    BY <2>1 DEF Answers, Sending
  <2>5. Typed'
    BY <1>2, <1>3, <2>1, <2>3 DEF Typed
  <2>6. Lockstep'
    BY <1>2, <2>1 DEF Lockstep, Got, Sending
  <2> QED
    BY <1>4, <2>3, <2>4, <2>5, <2>6
<1>8. CASE b \notin {"ACK", "NAK", "CAN"}
  <2>1. UNCHANGED <<dev, i, rom_addr, packetno, slot, toHost>>
    BY <1>1, <1>8
  <2>2. Onward /\ i' \in Nat
    BY <1>2, <2>1 DEF Onward, Sending, Typed
  <2>3. Flow'
    BY <1>2, <2>1, <2>2, FlowSame
  <2>4. Answers'
    BY <1>1, <1>2, <2>1, AnswersTail
  <2>5. Typed'
    BY <1>2, <1>3, <2>1 DEF Typed
  <2>6. Lockstep'
    BY <1>2, <2>1 DEF Lockstep, Right, Got
  <2> QED
    BY <1>4, <2>3, <2>4, <2>5, <2>6
<1> QED
  BY <1>5, <1>6, <1>7, <1>8

\* Waiting for the answer to EOT and at the command line: texts only.
LEMMA RestKeeps ==
    ASSUME DownloadInv, WaitEotAck \/ Echo
    PROVE  DownloadInv'
<1> USE DEF DownloadInv
<1>1. /\ dev \in {"eot", "cmd"} /\ dev' \in {"eot", "cmd"}
      /\ UNCHANGED <<i, packetno, rom_addr, crc_mode, packet, received, sequence>>
      /\ toDev # <<>> /\ toDev' = Tail(toDev)
  BY Arrives DEF WaitEotAck, Echo, Rx, hostVars, devVars
<1>2. slot' \in [0..2 -> Nat]
  BY DEF WaitEotAck, Echo, RestoreSlot2, Typed, devVars
<1>3. toHost' = toHost \/ toHost' = toHost \o <<Ctl("text")>>
  BY DEF WaitEotAck, Echo, ToHost
<1>4. Onward /\ i' \in Nat
  BY <1>1 DEF Onward, Sending, Typed
<1>5. Flow' /\ toHost' \in Seq(Cells)
  BY <1>1, <1>3, <1>4, FlowSame, FlowText DEF Typed
<1>6. toDev' \in Seq(Chars)
  BY <1>1, Tails DEF Typed
<1>7. Typed'
  BY <1>1, <1>2, <1>5, <1>6 DEF Typed
<1>8. Answers' /\ Lockstep' /\ ExactPrefix'
  BY <1>1 DEF Answers, Lockstep, ExactPrefix, Sending, Got
<1> QED
  BY <1>5, <1>7, <1>8

-----------------------------------------------------------------------------
(***************************************************************************)
(* The receiver's steps.                                                   *)
(***************************************************************************)
LEMMA DeviceQuiet ==
    ASSUME DownloadInv, UNCHANGED <<devVars, received, sequence>>
    PROVE  Onward /\ i' \in Nat /\ Lockstep' /\ ExactPrefix'
BY DEF DownloadInv, devVars, Onward, Lockstep, ExactPrefix, Typed, Right, Got, Sending

\* The packet at the head of the line that has the number expected is the
\* next block.
LEMMA NumberTells ==
    ASSUME DownloadInv, toHost # <<>>, Head(toHost).kind = "SOH", Head(toHost).no = sequence
    PROVE  /\ Head(toHost).block = Got
           /\ dev \in Sending => i = Got /\ dev = "ack"
<1> USE DEF DownloadInv
<1>1. toHost[1] = Head(toHost) /\ 1 \in 1..Len(toHost)
  BY Tails DEF Typed
<1>2. PICK c \in Cells : c = Head(toHost) /\ Fits(c)
  BY <1>1, Tails DEF Flow, Typed
<1>3. c.kind = "SOH" /\ c.no = sequence
  BY <1>2
<1>4. Right(c.no, c.block) /\ (dev \in Sending => c.block <= i /\ (c.block = i => dev = "ack"))
  BY <1>2, <1>3 DEF Fits
<1>5. sequence \in 0..SeqMod-1 /\ i \in Nat /\ i <= Got /\ Got \in Nat
  BY LenProperties DEF Typed, Lockstep, Got
<1>6. c.block # Got - 1
  BY <1>3, <1>4, <1>5, Step DEF Right
<1>7. c.block = Got
  BY <1>4, <1>6 DEF Right
<1> QED
  BY <1>2, <1>4, <1>5, <1>7

LEMMA AcceptKeeps ==
    ASSUME DownloadInv, toHost # <<>>, toHost' = Tail(toHost), UNCHANGED devVars,
           Head(toHost).kind = "SOH", Head(toHost).no = sequence,
           received' = Append(received, Head(toHost).block),
           sequence' = (sequence + 1) % SeqMod,
           toDev' = Append(toDev, "ACK")
    PROVE  DownloadInv'
<1> USE DEF DownloadInv
<1>1. /\ Head(toHost).block = Got
      /\ dev \in Sending => i = Got /\ dev = "ack"
  BY NumberTells
<1>2. Got \in Nat /\ sequence \in 0..SeqMod-1 /\ i \in Nat /\ i <= Got
  BY LenProperties DEF Typed, Got, Lockstep
<1>3. /\ received' \in Seq(Nat) /\ Got' = Got + 1
      /\ \A n \in 1..Got : received'[n] = received[n]
      /\ received'[Got + 1] = Got
  BY <1>1, <1>2, Adds DEF Typed, Got
<1>4. sequence' \in 0..SeqMod-1
  BY <1>2, Step
<1>5. dev' = dev /\ i' = i /\ packetno' = packetno
  BY DEF devVars
<1>6. /\ toHost' \in Seq(Cells) /\ Len(toHost) \in Nat \ {0} /\ Len(toHost') = Len(toHost) - 1
      /\ \A k \in 1..Len(toHost') : toHost'[k] = toHost[k + 1]
      /\ toHost[1] = Head(toHost)
  BY Tails DEF Typed
<1>7. /\ Len(toDev) \in Nat /\ Len(toDev') = Len(toDev) + 1 /\ toDev' \in Seq(Chars)
      /\ \A k \in 1..Len(toDev) : toDev'[k] = toDev[k]
      /\ toDev'[Len(toDev) + 1] = "ACK"
  BY Adds DEF Typed, Chars
<1>8. Typed'
  BY <1>3, <1>4, <1>6, <1>7 DEF Typed, devVars
<1>9. ExactPrefix'
  <2>1. \A n \in 1..Got : received[n] = n - 1
    BY DEF ExactPrefix, Got
  <2>2. ASSUME NEW n \in 1..(Got + 1) PROVE received'[n] = n - 1
    <3>1. CASE n = Got + 1
      <4>1. received'[n] = Got
        BY <1>3, <3>1, Zenon
      <4>2. n - 1 = Got
        BY <1>2, <3>1
      <4> QED
        BY <4>1, <4>2
    <3>2. CASE n \in 1..Got
      BY <1>3, <2>1, <3>2
    <3>3. n = Got + 1 \/ n \in 1..Got
      BY <1>2
    <3> QED
      BY <3>1, <3>2, <3>3
  <2>3. received' = [n \in 1..Len(received') |-> received'[n]]
    BY <1>3
  <2> QED
    BY <1>3, <2>2, <2>3 DEF ExactPrefix, Got
<1>10. Lockstep'
  <2>1. dev \in Sending => packetno = sequence /\ Right(packetno, i)
    BY <1>1 DEF Lockstep, Right
  <2>2. dev \in Sending => Right(packetno, i)'
    BY <1>1, <1>2, <1>3, <1>5, <2>1 DEF Right
  <2> QED
    BY <1>1, <1>2, <1>3, <1>5, <2>2 DEF Lockstep, devVars, Sending
<1>11. Answers'
  <2> SUFFICES ASSUME dev \in Sending PROVE Answers'
    BY <1>5 DEF Answers
  <2>1. i = Got /\ dev = "ack"
    BY <1>1
  <2>2. \A k \in 1..Len(toDev) : toDev[k] # "ACK"
    BY <1>2, <2>1 DEF Answers
  <2>3. \A k \in 1..Len(toDev') : toDev'[k] = "ACK" => k = Len(toDev) + 1
    BY <1>7, <2>2
  <2> QED
    BY <1>3, <1>5, <2>1, <2>3 DEF Answers
<1>12. Flow'
  <2>1. ASSUME NEW k \in 1..Len(toHost')
        PROVE  /\ k + 1 \in 1..Len(toHost) /\ toHost'[k] = toHost[k + 1]
               /\ toHost[k + 1] \in Cells /\ Fits(toHost[k + 1])
               /\ toHost[k + 1].kind = "SOH" => toHost[k + 1].block >= Got
    BY <1>1, <1>6, ElementOfSeq DEF Flow, Typed
  <2>2. ASSUME NEW k \in 1..Len(toHost') PROVE Fits(toHost[k])'
    <3>1. PICK c \in Cells : c = toHost[k + 1]
      BY <2>1
    <3>2. Fits(c) /\ c = toHost'[k] /\ (c.kind = "SOH" => c.block >= Got)
      BY <2>1, <3>1
    <3>3. c.kind = "SOH" => c.block = Got /\ c.no = sequence
      BY <1>2, <3>2 DEF Fits, Right
    <3>4. c.kind = "SOH" => Right(c.no, c.block)'
      BY <1>2, <1>3, <3>3 DEF Right
    <3>5. Fits(c)'
      BY <1>5, <3>2, <3>4 DEF Fits
    <3> QED
      BY <3>2, <3>5 DEF Fits, Right, Got
  <2>3. ASSUME NEW k \in 1..Len(toHost'), NEW j \in 1..k,
               toHost'[j].kind = "SOH", toHost'[k].kind = "SOH"
        PROVE  toHost'[j].block <= toHost'[k].block
    <3>1. k + 1 \in 1..Len(toHost) /\ j + 1 \in 1..(k + 1) /\ j \in 1..Len(toHost')
      BY <1>6
    <3> QED
      BY <1>6, <2>3, <3>1 DEF Flow
  <2> QED
    BY <2>2, <2>3 DEF Flow
<1> QED
  BY <1>8, <1>9, <1>10, <1>11, <1>12

LEMMA PacketwiseKeeps ==
    ASSUME DownloadInv, toHost # <<>>, Getc, UNCHANGED devVars,
           Head(toHost).kind = "SOH", Packetwise(Head(toHost))
    PROVE  DownloadInv'
<1>1. CASE Head(toHost).no = sequence /\ Head(toHost).crc = crc
  BY <1>1, AcceptKeeps DEF Packetwise, Getc, Write
<1>2. CASE ~(Head(toHost).no = sequence /\ Head(toHost).crc = crc)
  <2>1. UNCHANGED <<received, sequence, toDev>> /\ toHost' = Tail(toHost)
    BY <1>2 DEF Packetwise, Getc
  <2>2. Onward /\ i' \in Nat /\ Lockstep' /\ ExactPrefix'
    BY <2>1, DeviceQuiet
  <2>3. Flow' /\ toHost' \in Seq(Cells)
    BY <2>1, <2>2, FlowTail, Tails DEF DownloadInv, Typed
  <2>4. Answers' /\ Typed'
    BY <2>1, <2>3 DEF DownloadInv, Answers, Typed, Got, devVars
  <2> QED
    BY <2>2, <2>3, <2>4 DEF DownloadInv
<1> QED
  BY <1>1, <1>2

\* Nothing is read, or something that is no packet; an ACK answers EOT only.
LEMMA ReceiverKeeps ==
    ASSUME DownloadInv, UNCHANGED <<devVars, received, sequence>>,
           \/ UNCHANGED toHost
           \/ toHost # <<>> /\ toHost' = Tail(toHost),
           \/ UNCHANGED toDev
           \/ \E b \in Chars : /\ toDev' = Append(toDev, b)
                               /\ b = "ACK" => dev \notin Sending
    PROVE  DownloadInv'
<1> USE DEF DownloadInv
<1>1. Onward /\ i' \in Nat /\ Lockstep' /\ ExactPrefix'
  BY DeviceQuiet
<1>2. Flow' /\ toHost' \in Seq(Cells)
  BY <1>1, FlowSame, FlowTail, Tails DEF Typed
<1>3. Answers' /\ toDev' \in Seq(Chars)
  <2>1. CASE UNCHANGED toDev
    BY <2>1 DEF Answers, Typed, Got, devVars
  <2>2. CASE \E b \in Chars : toDev' = Append(toDev, b) /\ (b = "ACK" => dev \notin Sending)
    BY <2>2, AnswersAdd
  <2> QED
    BY <2>1, <2>2
<1>4. Typed'
  BY <1>2, <1>3 DEF Typed, devVars
<1> QED
  BY <1>1, <1>2, <1>3, <1>4

LEMMA ReadsKeep ==
    ASSUME DownloadInv, ReadFirst \/ ReadNext
    PROVE  DownloadInv'
<1>1. UNCHANGED devVars
  BY DEF ReadFirst, ReadNext
<1>2. \/ /\ toHost # <<>> /\ Getc
         /\ Head(toHost).kind = "SOH" /\ Packetwise(Head(toHost))
      \/ /\ toHost # <<>> /\ toHost' = Tail(toHost)
         /\ Head(toHost).kind = "EOT" /\ toDev' = Append(toDev, "ACK")
         /\ UNCHANGED <<received, sequence>>
      \/ /\ toHost # <<>> /\ toHost' = Tail(toHost)
         /\ UNCHANGED <<received, sequence, toDev>>
      \/ UNCHANGED <<toHost, received, sequence, toDev>>
  BY Arrives DEF ReadFirst, ReadNext, Getc, GetcTimeout, Write
<1>3. CASE toHost # <<>> /\ Head(toHost).kind = "EOT"
           /\ toHost' = Tail(toHost) /\ toDev' = Append(toDev, "ACK")
           /\ UNCHANGED <<received, sequence>>
  <2>1. toHost[1] = Head(toHost) /\ 1 \in 1..Len(toHost)
    BY <1>3, Tails DEF DownloadInv, Typed
  <2>2. dev \in {"eot", "cmd"}
    BY <1>3, <2>1 DEF DownloadInv, Flow, Fits
  <2> QED
    BY <1>1, <1>3, <2>2, ReceiverKeeps DEF Chars, Sending
<1> QED
  BY <1>1, <1>2, <1>3, PacketwiseKeeps, ReceiverKeeps

\* What else the receiver writes, once or twice, is no ACK.
LEMMA WritesKeep ==
    ASSUME DownloadInv, AskFirst \/ Purge
    PROVE  DownloadInv'
<1>1. UNCHANGED <<devVars, received, sequence>>
  BY DEF AskFirst, Purge
<1>2. \/ UNCHANGED toHost
      \/ toHost # <<>> /\ toHost' = Tail(toHost)
  BY DEF AskFirst, Purge, Getc, GetcTimeout
<1>3. UNCHANGED toDev \/ \E b \in {"C", "NAK"} : toDev' = Append(toDev, b)
  BY DEF AskFirst, Purge, Write
<1> QED
  BY <1>1, <1>2, <1>3, ReceiverKeeps DEF Chars

LEMMA AbortsKeep ==
    ASSUME DownloadInv, UNCHANGED <<devVars, received, sequence, toHost>>,
           NEW a \in Chars \ {"ACK"}, NEW b \in Chars \ {"ACK"},
           toDev' = toDev \o <<a, b>>
    PROVE  DownloadInv'
<1> USE DEF DownloadInv
<1>1. Onward /\ i' \in Nat /\ Lockstep' /\ ExactPrefix'
  BY DeviceQuiet
<1>2. Flow'
  BY <1>1, FlowSame
<1>3. /\ toDev' \in Seq(Chars) /\ Len(toDev) \in Nat /\ Len(toDev') = Len(toDev) + 2
      /\ \A k \in 1..(Len(toDev) + 2) : toDev'[k] =
             IF k <= Len(toDev) THEN toDev[k] ELSE <<a, b>>[k - Len(toDev)]
  <2>1. toDev \in Seq(Chars) /\ <<a, b>> \in Seq(Chars) /\ Len(<<a, b>>) = 2
    BY DEF Typed
  <2> QED
    BY <2>1, ConcatProperties, LenProperties
<1>4. ASSUME NEW k \in 1..Len(toDev'), toDev'[k] = "ACK"
      PROVE  k \in 1..Len(toDev) /\ toDev[k] = "ACK"
  <2> DEFINE n == Len(toDev)
  <2>1. n \in Nat /\ k \in 1..(n + 2)
    BY <1>3
  <2>2. CASE k <= n
    BY <1>3, <1>4, <2>1, <2>2
  <2>3. CASE k = n + 1
    BY <1>3, <1>4, <2>1, <2>3
  <2>4. CASE k = n + 2
    BY <1>3, <1>4, <2>1, <2>4
  <2> QED
    BY <2>1, <2>2, <2>3, <2>4
<1>5. \A k \in 1..Len(toDev) : k \in 1..Len(toDev') /\ toDev'[k] = toDev[k]
  BY <1>3
<1>6. Answers'
  BY <1>4, <1>5 DEF Answers, Got, devVars
<1>7. Typed'
  BY <1>3 DEF Typed, devVars
<1> QED
  BY <1>1, <1>2, <1>6, <1>7

-----------------------------------------------------------------------------
LEMMA DownloadInvStep ==
    ASSUME DownloadInv, [Next]_vars
    PROVE  DownloadInv'
<1>1. CASE Device
  BY <1>1, WaitStartKeeps, SendBlockKeeps, WaitAckKeeps, RestKeeps DEF Device
<1>2. CASE Client
  <2>1. CASE Abort
    BY <2>1, AbortsKeep DEF Abort, Chars
  <2> QED
    BY <1>2, <2>1, ReadsKeep, WritesKeep DEF Client
<1>3. CASE SendAbort
  BY <1>3, AbortsKeep DEF SendAbort, Chars
<1>4. CASE Quit
  BY <1>4, ReceiverKeeps DEF Quit
<1>5. CASE UNCHANGED vars
  BY <1>5, ReceiverKeeps DEF vars, hostVars
<1> QED
  BY <1>1, <1>2, <1>3, <1>4, <1>5 DEF Next

LEMMA AlwaysDownloadInv == Spec => []DownloadInv
<1>1. Init => DownloadInv
  BY InitHolds
<1>2. DownloadInv /\ [Next]_vars => DownloadInv'
  BY DownloadInvStep
<1> QED
  BY <1>1, <1>2, PTL DEF Spec

\* downloadXmodem and XMODEM.recv: for every size, packet modulus and number
\* of timeouts, before and after a Cancel or the end of the receiver's process,
\* what was received is the ROM from its first block on, no block twice.
THEOREM DumpExact == Spec => []ExactPrefix
<1>1. DownloadInv => ExactPrefix
  BY DEF DownloadInv
<1> QED
  BY <1>1, AlwaysDownloadInv, PTL

\* An ACK that downloadXmodem takes for its packet's is its packet's.
THEOREM AckIsForPacket == Spec => []NeverAhead
<1>1. DownloadInv => NeverAhead
  BY DEF DownloadInv, Lockstep, NeverAhead, Got
<1> QED
  BY <1>1, AlwaysDownloadInv, PTL

-----------------------------------------------------------------------------
(***************************************************************************)
(* How far the firmware goes: n_blocks, which is the size set if an int    *)
(* holds it.                                                               *)
(***************************************************************************)
Bounds == /\ i <= Size /\ (dev = "ack" => i < n_blocks)
          /\ dev = "eot" => i >= n_blocks

BoundsInv == DownloadInv /\ Bounds /\ TypeOK

LEMMA Blocks ==
    /\ n_blocks \in Int /\ n_blocks <= Size
    /\ Size < IntMod \div 2 => n_blocks = Size
<1> DEFINE h == IntMod \div 2
           n == Size % IntMod
<1>1. /\ Size \in Nat /\ IntMod \in Nat /\ IntMod > 1
  BY DownloadAssumption
<1>2. h \in Nat /\ h <= IntMod /\ n \in Nat /\ n <= Size /\ (Size < h => n = Size)
  BY <1>1
<1>3. n_blocks = IF n < h THEN n ELSE n - IntMod
  BY DEF n_blocks
<1> HIDE DEF h, n
<1>4. n_blocks \in Int /\ n_blocks <= Size /\ (Size < h => n_blocks = Size)
  BY <1>1, <1>2, <1>3
<1> QED
  BY <1>4 DEF h

LEMMA BoundsStep ==
    ASSUME BoundsInv, [Next]_vars
    PROVE  Bounds'
<1> USE DEF BoundsInv
<1>1. n_blocks' = n_blocks
  BY DEF n_blocks
<1>2. CASE UNCHANGED <<dev, i>>
  BY <1>1, <1>2 DEF Bounds
<1>3. CASE ~UNCHANGED <<dev, i>>
  <2>1. WaitStart \/ SendBlock \/ WaitAck \/ WaitEotAck
    BY <1>3 DEF Next, Device, Client, AskFirst, ReadFirst, ReadNext, Purge, Abort,
                SendAbort, Quit, Echo, devVars, vars
  <2>2. CASE WaitStart
    BY <1>1, <2>2 DEF WaitStart, Bounds
  <2>3. CASE SendBlock
    BY <1>1, <2>3, Blocks DEF SendBlock, Bounds, DownloadInv, Typed
  <2>4. CASE WaitAck
    BY <1>1, <2>4, Blocks, DownloadAssumption
    DEF WaitAck, NextBlock, Bounds, DownloadInv, Typed
  <2>5. CASE WaitEotAck
    BY <1>1, <2>5 DEF WaitEotAck, Bounds
  <2> QED
    BY <2>1, <2>2, <2>3, <2>4, <2>5
<1> QED
  BY <1>2, <1>3

\* The bank of a block of the ROM is one that the slot may show.
LEMMA BankInRange ==
    ASSUME NEW r \in Nat, r < Size
    PROVE  r \div BankBlocks \in 0..Banks-1 /\ r \in 0..Banks*BankBlocks-1
<1> DEFINE d == r \div BankBlocks
           m == Banks * BankBlocks
<1>1. BankBlocks \in Nat \ {0} /\ Banks \in Nat /\ Size \in Nat /\ Size <= m
  BY DownloadAssumption
<1>2. m \in Nat /\ r < m
  BY <1>1
<1>3. d \in Nat /\ d * BankBlocks <= r
  BY <1>1
<1>4. d < Banks
  <2> SUFFICES ASSUME d >= Banks PROVE FALSE
    BY <1>1, <1>3
  <2>1. d * BankBlocks >= Banks * BankBlocks
    BY <1>1, <1>3
  <2> QED
    BY <1>1, <1>2, <1>3, <2>1
<1> QED
  BY <1>1, <1>2, <1>3, <1>4

LEMMA FirmwareTyped ==
    ASSUME BoundsInv, Device
    PROVE  TypeOK'
<1> USE DEF BoundsInv
<1>1. /\ SeqMod \in Nat /\ SeqMod > 2 /\ Size \in Nat /\ Banks \in Nat /\ Banks > 2
  BY DownloadAssumption
<1>2. /\ UNCHANGED <<host, crc, aborted, sequence, errs, slow>>
      /\ dev' \in {"start", "block", "ack", "eot", "cmd"}
  BY DEF Device, WaitStart, SendBlock, WaitAck, WaitEotAck, Echo, NextBlock, TypeOK,
         hostVars, devVars
<1>3. crc_mode' \in BOOLEAN
  BY Zenon DEF Device, WaitStart, SendBlock, WaitAck, WaitEotAck, Echo, TypeOK, devVars
<1>4. slot' \in [0..2 -> 0..Banks-1] /\ packet'.block \in 0..Banks*BankBlocks-1
  <2>1. CASE SendBlock /\ i < n_blocks
    <3>1. /\ dev = "block" /\ rom_addr = i /\ i \in Nat /\ i < Size
          /\ ReadBlock
      BY <1>1, <2>1, Blocks DEF SendBlock, DownloadInv, Typed, Lockstep, Sending
    <3>2. i \div BankBlocks \in 0..Banks-1 /\ i \in 0..Banks*BankBlocks-1
      BY <3>1, BankInRange
    <3>3. packet'.block = i
      BY <3>1, ReadsBlock DEF Packet
    <3>4. slot' \in [0..2 -> 0..Banks-1]
      BY <3>1, <3>2 DEF ReadBlock, TypeOK
    <3> QED
      BY <3>2, <3>3, <3>4
  <2>2. CASE SendBlock /\ ~(i < n_blocks)
    BY <2>2 DEF SendBlock, TypeOK
  <2>3. CASE ~SendBlock
    <3>1. packet' = packet
      BY <2>3 DEF Device, WaitStart, WaitAck, WaitEotAck, Echo, devVars
    <3>2. \/ slot' = slot \/ slot' = [slot EXCEPT ![2] = 2]
          \/ slot' = [slot EXCEPT ![0] = 0, ![1] = 1]
      BY <2>3 DEF Device, WaitStart, WaitAck, WaitEotAck, Echo, RestoreSlot2, devVars
    <3> QED
      BY <1>1, <3>1, <3>2 DEF TypeOK
  <2> QED
    BY <2>1, <2>2, <2>3
<1>5. packetno' \in 0..SeqMod-1
  BY DownloadInvStep DEF DownloadInv, Typed, Next
<1>6. i' \in 0..Size /\ rom_addr' \in 0..Size
  <2>1. i' \in Nat /\ i' <= Size
    BY BoundsStep, DownloadInvStep DEF Next, Bounds, DownloadInv, Typed
  <2>2. \/ UNCHANGED rom_addr
        \/ dev = "ack" /\ rom_addr' = rom_addr + 1 /\ i' = i + 1
    BY DEF Device, WaitStart, SendBlock, WaitAck, WaitEotAck, Echo, NextBlock, devVars
  <2>3. dev = "ack" => rom_addr = i
    BY DEF DownloadInv, Lockstep, Sending
  <2> QED
    BY <1>1, <2>1, <2>2, <2>3 DEF TypeOK
<1> QED
  BY <1>2, <1>3, <1>4, <1>5, <1>6 DEF TypeOK

LEMMA ReceiverTyped ==
    ASSUME BoundsInv, Client \/ SendAbort \/ Quit \/ UNCHANGED vars
    PROVE  TypeOK'
<1> USE DEF BoundsInv
<1>1. /\ Retry \in Nat \ {0} /\ MaxSlow \in Nat
  BY DownloadAssumption
<1>2. UNCHANGED <<dev, i, packetno, rom_addr, packet, slot>>
  BY DEF Client, AskFirst, ReadFirst, ReadNext, Purge, Abort, SendAbort, Quit, vars, devVars
<1>3. crc_mode' \in BOOLEAN /\ crc' \in BOOLEAN
  BY Zenon DEF Client, AskFirst, ReadFirst, ReadNext, Purge, Abort, SendAbort, Quit,
               vars, devVars, hostVars, TypeOK
<1>4. aborted' \in BOOLEAN
  BY Zenon DEF Client, AskFirst, ReadFirst, ReadNext, Purge, Abort, SendAbort, Quit,
               vars, hostVars, TypeOK
<1>5. sequence' \in 0..SeqMod-1
  BY DownloadInvStep DEF DownloadInv, Typed, Next
<1>6. slow' \in 0..MaxSlow
  BY <1>1 DEF Client, AskFirst, ReadFirst, ReadNext, Purge, Abort, SendAbort, Quit,
              GetcTimeout, Late, vars, TypeOK
<1>7. host' \in {"nak", "first", "next", "purge", "abort", "done", "failed", "gone"}
  BY DEF Client, AskFirst, ReadFirst, ReadNext, Purge, Abort, SendAbort, Quit,
         Packetwise, Fail, vars, hostVars, TypeOK
<1>8. errs' \in 0..Retry-1
  BY <1>1 DEF Client, AskFirst, ReadFirst, ReadNext, Purge, Abort, SendAbort, Quit,
              Packetwise, Fail, vars, hostVars, TypeOK
<1> QED
  BY <1>2, <1>3, <1>4, <1>5, <1>6, <1>7, <1>8 DEF TypeOK

LEMMA InitBounds ==
    ASSUME Init
    PROVE  BoundsInv
<1>1. /\ SeqMod \in Nat /\ SeqMod > 2 /\ Size \in Nat /\ Banks \in Nat /\ Banks > 2
      /\ Retry \in Nat \ {0} /\ MaxSlow \in Nat /\ BankBlocks \in Nat \ {0}
  BY DownloadAssumption
<1>2. 0 \in 0..Banks*BankBlocks-1
  <2>1. Banks * BankBlocks \in Nat /\ Banks * BankBlocks > 0
    BY <1>1
  <2> QED
    BY <2>1
<1>3. packet.block = 0 /\ crc_mode \in BOOLEAN /\ crc \in BOOLEAN /\ aborted \in BOOLEAN
  BY DEF Init, Packet
<1>4. TypeOK
  <2>1. /\ 0 \in 0..Size /\ 1 \in 0..SeqMod-1 /\ 0 \in 0..Retry-1 /\ 0 \in 0..MaxSlow
    BY <1>1
  <2>2. slot \in [0..2 -> 0..Banks-1]
    BY DEF Init
  <2>3. /\ i = 0 /\ rom_addr = 0 /\ packetno = 1 /\ sequence = 1 /\ errs = 0 /\ slow = 0
        /\ dev = "start" /\ host = "nak"
    BY DEF Init
  <2> QED
    BY <1>2, <1>3, <2>1, <2>2, <2>3 DEF TypeOK
<1>5. Bounds
  BY <1>1 DEF Init, Bounds
<1> QED
  BY <1>4, <1>5, InitHolds DEF BoundsInv

LEMMA AlwaysBoundsInv == Spec => []BoundsInv
<1>1. Init => BoundsInv
  BY InitBounds
<1>2. BoundsInv /\ [Next]_vars => BoundsInv'
  <2> SUFFICES ASSUME BoundsInv, [Next]_vars PROVE BoundsInv'
    OBVIOUS
  <2>1. DownloadInv' /\ Bounds'
    BY BoundsStep, DownloadInvStep DEF BoundsInv
  <2>2. TypeOK'
    BY FirmwareTyped, ReceiverTyped DEF Next
  <2> QED
    BY <2>1, <2>2 DEF BoundsInv
<1> QED
  BY <1>1, <1>2, PTL DEF Spec

\* downloadXmodem, the mapper and XMODEM.recv: no bank beyond the cartridge's
\* is shown, and the receiver gives up at its limit, for every constant.
THEOREM TypeCorrect == Spec => []TypeOK
<1>1. BoundsInv => TypeOK
  BY DEF BoundsInv
<1> QED
  BY <1>1, AlwaysBoundsInv, PTL

\* EOT follows the last block of the size set, if an int can count the blocks:
\* the condition that 4 MB does not meet.
THEOREM WholeDump ==
    ASSUME Size < IntMod \div 2
    PROVE  Spec => []EotAfterAll
<1>1. BoundsInv => EotAfterAll
  BY Blocks, DownloadAssumption DEF BoundsInv, Bounds, DownloadInv, Typed, EotAfterAll
<1> QED
  BY <1>1, AlwaysBoundsInv, PTL


-----------------------------------------------------------------------------
(***************************************************************************)
(* What success of the receiver means.  A packet under way is of a block   *)
(* that the firmware counts; and an EOT under way, or taken for the end,   *)
(* follows the last of them, unless a CAN was sent: the text with which    *)
(* the firmware answers it may hold one.                                   *)
(***************************************************************************)
Calm == ~aborted /\ host # "failed"

\* A cell that the firmware, at block m, may have sent; without CAN if calm.
Counts(c, m, calm) ==
    /\ c.kind = "SOH" => c.block < n_blocks
    /\ c.kind = "EOT" /\ calm => n_blocks <= m

EndInv ==
    /\ BoundsInv /\ Got <= Size
    /\ Calm => \A k \in 1..Len(toDev) : toDev[k] # "CAN"
    /\ \A k \in 1..Len(toHost) : Counts(toHost[k], i, Calm)
    /\ host = "done" /\ Calm => n_blocks <= i

LEMMA EndFacts ==
    ASSUME EndInv
    PROVE  /\ DownloadInv /\ Bounds /\ toHost \in Seq(Cells) /\ i \in Nat /\ n_blocks \in Int
           /\ Got \in Nat /\ Got <= Size
           /\ Calm \in BOOLEAN /\ toDev \in Seq(Chars)
           /\ Calm => \A k \in 1..Len(toDev) : toDev[k] # "CAN"
           /\ \A k \in 1..Len(toHost) : Counts(toHost[k], i, Calm)
           /\ host = "done" /\ Calm => n_blocks <= i
BY Blocks, LenProperties DEF EndInv, BoundsInv, DownloadInv, Typed, Got, Calm

\* What was counted stays so when the firmware goes on.
LEMMA CountsOn ==
    ASSUME NEW c, NEW m \in Nat, NEW q \in Nat, m <= q,
           NEW now \in BOOLEAN, NEW then \in BOOLEAN, then => now, Counts(c, m, now)
    PROVE  Counts(c, q, then)
BY Blocks DEF Counts

\* What the firmware adds is counted too.
LEMMA CountsAdd ==
    ASSUME EndInv, NEW q \in Nat, i <= q, NEW calm \in BOOLEAN, calm => Calm,
           NEW c \in Cells, toHost' = toHost \o <<c>>, Counts(c, q, calm)
    PROVE  \A k \in 1..Len(toHost') : Counts(toHost'[k], q, calm)
<1>1. /\ toHost' = Append(toHost, c) /\ Len(toHost) \in Nat /\ Len(toHost') = Len(toHost) + 1
      /\ \A k \in 1..Len(toHost) : toHost'[k] = toHost[k]
      /\ toHost'[Len(toHost) + 1] = c
  BY EndFacts, Adds
<1>2. \A k \in 1..Len(toHost) : Counts(toHost[k], q, calm)
  BY EndFacts, CountsOn
<1>3. \A k \in 1..Len(toHost') : k \in 1..Len(toHost) \/ k = Len(toHost) + 1
  BY <1>1
<1> QED
  BY <1>1, <1>2, <1>3

LEMMA CountsSame ==
    ASSUME EndInv, NEW q \in Nat, i <= q, NEW calm \in BOOLEAN, calm => Calm, UNCHANGED toHost
    PROVE  \A k \in 1..Len(toHost') : Counts(toHost'[k], q, calm)
BY EndFacts, CountsOn

\* A cell that WaitAck sends is the packet again, or the answer to a CAN.
LEMMA ReadsCan ==
    ASSUME WaitAck, toHost' # toHost
    PROVE  toHost' = toHost \o <<packet>> \/ (Head(toDev) = "CAN" /\ toDev # <<>>)
BY Arrives DEF WaitAck, ToHost

\* The firmware sends the packet it waits for, the EOT, or a text; to a CAN it
\* may answer anything.
LEMMA FirmwareCounts ==
    ASSUME EndInv, Device, NEW calm \in BOOLEAN, calm => Calm
    PROVE  /\ i' \in Nat /\ i <= i'
           /\ \A k \in 1..Len(toHost') : Counts(toHost'[k], i', calm)
<1>1. i' \in Nat /\ i <= i'
  <2>1. i' = i \/ i' = i + 1
    BY DEF Device, WaitStart, SendBlock, WaitAck, WaitEotAck, Echo, NextBlock, devVars
  <2> QED
    BY <2>1, EndFacts
<1>2. PICK q \in Nat : q = i' /\ i <= q
  BY <1>1
<1>3. CASE UNCHANGED toHost
  BY <1>1, <1>2, <1>3, CountsSame
<1>4. CASE toHost' = toHost \o <<Ctl("text")>>
  <2>1. Ctl("text") \in Cells /\ Counts(Ctl("text"), q, calm)
    BY DEF Ctl, Cells, Counts
  <2> QED
    BY <1>2, <1>4, <2>1, CountsAdd
<1>5. CASE SendBlock /\ i < n_blocks
  <2>1. dev = "block" /\ ReadBlock /\ toHost' = toHost \o <<packet'>>
    BY <1>5 DEF SendBlock, ToHost
  <2>2. packet' = Packet(packetno, i, crc_mode)
    BY <2>1, EndFacts, ReadsBlock
  <2>3. Packet(packetno, i, crc_mode) \in Cells /\ Counts(Packet(packetno, i, crc_mode), q, calm)
    BY <1>5, EndFacts DEF Packet, Cells, Counts, DownloadInv, Typed
  <2> QED
    BY <1>2, <2>1, <2>2, <2>3, CountsAdd
<1>6. CASE SendBlock /\ ~(i < n_blocks)
  <2>1. toHost' = toHost \o <<Ctl("EOT")>> /\ i' = i
    BY <1>6 DEF SendBlock, ToHost
  <2>2. Ctl("EOT") \in Cells /\ Counts(Ctl("EOT"), q, calm)
    BY <1>2, <1>6, <2>1, EndFacts DEF Ctl, Cells, Counts
  <2> QED
    BY <1>2, <2>1, <2>2, CountsAdd
<1>7. CASE WaitAck /\ toHost' = toHost \o <<packet>>
  <2>1. packet = Packet(packetno, i, crc_mode) /\ i < n_blocks
    BY <1>7, EndFacts DEF WaitAck, DownloadInv, Lockstep, Bounds
  <2>2. Packet(packetno, i, crc_mode) \in Cells /\ Counts(Packet(packetno, i, crc_mode), q, calm)
    BY <2>1, EndFacts DEF Packet, Cells, Counts, DownloadInv, Typed
  <2> QED
    BY <1>2, <1>7, <2>1, <2>2, CountsAdd
<1>8. CASE WaitAck /\ toHost' = toHost \o <<Ctl("EOT")>>
  <2>1. toHost' = toHost \o <<packet>> \/ (Head(toDev) = "CAN" /\ toDev # <<>>)
    <3>1. Ctl("EOT") \in Cells
      BY DEF Ctl, Cells
    <3>2. Len(toHost) \in Nat /\ Len(toHost') = Len(toHost) + 1
      BY <1>8, <3>1, EndFacts, Adds
    <3> QED
      BY <1>8, <3>2, ReadsCan
  <2>2. CASE Head(toDev) = "CAN" /\ toDev # <<>>
    <3>1. Head(toDev) = toDev[1] /\ 1 \in 1..Len(toDev)
      BY <2>2, EndFacts, Tails
    <3>2. ~calm
      BY <2>2, <3>1, EndFacts
    <3>3. Ctl("EOT") \in Cells /\ Counts(Ctl("EOT"), q, calm)
      BY <3>2 DEF Ctl, Cells, Counts
    <3> QED
      BY <1>2, <1>8, <3>3, CountsAdd
  <2> QED
    BY <1>7, <1>8, <2>1, <2>2
<1> QED
  BY <1>3, <1>4, <1>5, <1>6, <1>7, <1>8 DEF Device, WaitStart, SendBlock, WaitAck, WaitEotAck, Echo, ToHost

\* A block that is received is one of those counted.
LEMMA ReceivedCounts ==
    ASSUME EndInv, [Next]_vars
    PROVE  Got' <= Size
<1>1. CASE UNCHANGED received
  BY <1>1, EndFacts DEF Got
<1>2. CASE received' # received
  <2>1. /\ toHost # <<>> /\ Head(toHost).kind = "SOH" /\ Head(toHost).no = sequence
        /\ received' = Append(received, Head(toHost).block)
    <3>1. ReadFirst \/ ReadNext
      BY <1>2 DEF Next, Device, WaitStart, SendBlock, WaitAck, WaitEotAck, Echo,
         Client, AskFirst, Purge, Abort, SendAbort, Quit, hostVars, vars
    <3>2. \E c \in Oldest(toHost) : c.kind = "SOH" /\ Packetwise(c)
      BY <1>2, <3>1 DEF ReadFirst, ReadNext
    <3> QED
      BY <1>2, <3>2, Arrives DEF Packetwise
  <2>2. Head(toHost) = toHost[1] /\ 1 \in 1..Len(toHost) /\ Head(toHost) \in Cells
    BY <2>1, EndFacts, Tails
  <2>3. Head(toHost).block = Got /\ Head(toHost).block < n_blocks
    BY <2>1, <2>2, EndFacts, NumberTells DEF Counts
  <2>4. Got' = Got + 1
    <3>1. received \in Seq(Nat) /\ Head(toHost).block \in Nat
      BY <2>3, EndFacts DEF DownloadInv, Typed
    <3> QED
      BY <2>1, <3>1, Adds DEF Got
  <2> QED
    BY <2>3, <2>4, EndFacts, Blocks, DownloadAssumption
<1> QED
  BY <1>1, <1>2

\* The receiver ends with success at an EOT only.
LEMMA SuccessAtEot ==
    ASSUME EndInv, [Next]_vars, host' = "done", Calm
    PROVE  n_blocks <= i
<1>1. CASE host = "done"
  BY <1>1, EndFacts
<1>2. CASE host # "done"
  <2>1. ReadNext
    BY <1>2 DEF Next, Device, WaitStart, SendBlock, WaitAck, WaitEotAck, Echo,
       Client, AskFirst, ReadFirst, Purge, Abort, SendAbort, Quit, Packetwise, Fail, hostVars, vars
  <2>2. PICK c \in Oldest(toHost) : c.kind = "EOT"
    BY <2>1 DEF ReadNext, Packetwise, Fail
  <2>3. c = toHost[1] /\ 1 \in 1..Len(toHost)
    BY EndFacts, Arrives, Tails
  <2> QED
    BY <2>2, <2>3, EndFacts DEF Counts
<1> QED
  BY <1>1, <1>2

\* Once a CAN was sent it stays so.
LEMMA CalmBefore == ASSUME [Next]_vars, Calm' PROVE Calm
BY DEF Calm, Next, Device, WaitStart, SendBlock, WaitAck, WaitEotAck, Echo, Client, AskFirst, ReadFirst,
   ReadNext, Purge, Abort, SendAbort, Quit, Ended, hostVars, vars

\* A CAN is sent by Cancel, or by XMODEM.recv when it gives up.
LEMMA NoCan ==
    ASSUME EndInv, [Next]_vars, Calm'
    PROVE  \A k \in 1..Len(toDev') : toDev'[k] # "CAN"
<1>1. \A k \in 1..Len(toDev) : toDev[k] # "CAN"
  BY CalmBefore, EndFacts
<1>2. \/ toDev' = toDev
      \/ toDev # <<>> /\ toDev' = Tail(toDev)
      \/ \E b \in {"C", "NAK", "ACK"} : toDev' = Append(toDev, b)
  <2>1. CASE Device
    BY <2>1, Arrives DEF Device, WaitStart, SendBlock, WaitAck, WaitEotAck, Echo, Rx
  <2>2. CASE Client
    BY <2>2 DEF Client, AskFirst, ReadFirst, ReadNext, Purge, Abort, Packetwise, Write, GetcTimeout, Calm
  <2> QED
    BY <2>1, <2>2 DEF Next, SendAbort, Quit, vars, Calm
<1>3. CASE toDev # <<>> /\ toDev' = Tail(toDev)
  <2>1. /\ Len(toDev) \in Nat /\ Len(toDev') = Len(toDev) - 1
        /\ \A k \in 1..Len(toDev') : toDev'[k] = toDev[k + 1]
    BY <1>3, EndFacts, Tails
  <2> QED
    BY <1>1, <2>1
<1>4. ASSUME NEW b \in {"C", "NAK", "ACK"}, toDev' = Append(toDev, b)
      PROVE  \A k \in 1..Len(toDev') : toDev'[k] # "CAN"
  <2>1. b \in Chars
    BY <1>4 DEF Chars
  <2>2. /\ Len(toDev) \in Nat /\ Len(toDev') = Len(toDev) + 1
        /\ \A k \in 1..Len(toDev) : toDev'[k] = toDev[k]
        /\ toDev'[Len(toDev) + 1] = b
    BY <1>4, <2>1, EndFacts, Adds
  <2>3. \A k \in 1..Len(toDev') : k \in 1..Len(toDev) \/ k = Len(toDev) + 1
    BY <2>2
  <2> QED
    BY <1>1, <1>4, <2>2, <2>3
<1> QED
  BY <1>1, <1>2, <1>3, <1>4

LEMMA EndStep == ASSUME EndInv, [Next]_vars PROVE EndInv'
<1>1. BoundsInv'
  BY BoundsStep, DownloadInvStep, FirmwareTyped, ReceiverTyped DEF EndInv, BoundsInv, Next
<1>2. Got' <= Size
  BY ReceivedCounts
<1>3. /\ i' \in Nat /\ i <= i'
      /\ \A k \in 1..Len(toHost') : Counts(toHost'[k], i', Calm')
  <2>0. Calm' \in BOOLEAN /\ (Calm' => Calm)
    BY CalmBefore DEF Calm
  <2>1. CASE Device
    BY <2>0, <2>1, FirmwareCounts
  <2>2. CASE ~Device
    <3>1. i' = i /\ (toHost' = toHost \/ (toHost # <<>> /\ toHost' = Tail(toHost)))
      BY <2>2, Arrives DEF Next, Client, AskFirst, ReadFirst, ReadNext, Purge, Abort, SendAbort, Quit,
         Getc, GetcTimeout, devVars, vars
    <3>2. CASE UNCHANGED toHost
      BY <2>0, <3>1, <3>2, EndFacts, CountsSame
    <3>3. CASE toHost # <<>> /\ toHost' = Tail(toHost)
      <4>1. /\ Len(toHost) \in Nat /\ Len(toHost') = Len(toHost) - 1
            /\ \A k \in 1..Len(toHost') : toHost'[k] = toHost[k + 1]
        BY <3>3, EndFacts, Tails
      <4>2. \A k \in 1..Len(toHost') : k + 1 \in 1..Len(toHost)
        BY <4>1
      <4>3. \A k \in 1..Len(toHost') : Counts(toHost'[k], i, Calm)
        BY <4>1, <4>2, EndFacts
      <4> QED
        BY <2>0, <3>1, <4>3, EndFacts, CountsOn
    <3> QED
      BY <3>1, <3>2, <3>3
  <2> QED
    BY <2>1, <2>2
<1>4. host' = "done" /\ Calm' => n_blocks <= i'
  <2>1. host' = "done" /\ Calm' => n_blocks <= i
    BY SuccessAtEot, CalmBefore
  <2> QED
    BY <1>3, <2>1, EndFacts
<1>5. n_blocks' = n_blocks
  BY DEF n_blocks
<1>6. Calm' => \A k \in 1..Len(toDev') : toDev'[k] # "CAN"
  BY NoCan
<1> QED
  BY <1>1, <1>2, <1>3, <1>4, <1>5, <1>6 DEF EndInv, Counts

\* The whole ROM, each block at its place.
Rom == [n \in 1..Size |-> n - 1]

\* Without Cancel, XMODEM.recv ends with success only when all of the ROM was
\* received, whatever timed out or was sent twice, if an int can count the blocks.
\* With Cancel the text that is read from the wrong memory may end it.
THEOREM SuccessIsWholeDump ==
    ASSUME Size < IntMod \div 2
    PROVE  Spec => [](host = "done" /\ ~aborted => received = Rom)
<1>1. Init => EndInv
  <2> SUFFICES ASSUME Init PROVE EndInv
    OBVIOUS
  <2>1. toHost = <<>> /\ received = <<>> /\ host = "nak" /\ toDev = <<"LF">>
    BY DEF Init
  <2> QED
    BY <2>1, InitBounds, DownloadAssumption DEF EndInv, Got
<1>2. EndInv /\ [Next]_vars => EndInv'
  BY EndStep
<1>3. ASSUME EndInv, host = "done", ~aborted PROVE received = Rom
  <2>1. Size <= i /\ i <= Got /\ Got <= Size /\ Got \in Nat /\ i \in Nat
    BY <1>3, EndFacts, Blocks DEF DownloadInv, Lockstep, Calm
  <2>2. Got = Size
    BY <2>1, DownloadAssumption
  <2> QED
    BY <1>3, <2>2, EndFacts DEF DownloadInv, ExactPrefix, Got, Rom
<1> QED
  BY <1>1, <1>2, <1>3, PTL DEF Spec
=============================================================================
