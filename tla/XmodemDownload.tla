--------------------------- MODULE XmodemDownload ---------------------------
(***************************************************************************)
(* Dumping a cartridge: downloadXmodem of menu.c sends the ROM, block by   *)
(* block, to the client's XMODEM receiver (the Python package xmodem,      *)
(* external), started by download() of smscprogr.py or of carttool.py.     *)
(*                                                                         *)
(* The firmware has no timeout of its own: it waits for the receiver to    *)
(* start, to answer each packet and to answer EOT, in three loops that do  *)
(* not listen to the same characters.  USB neither alters nor loses what   *)
(* is sent, so a packet is one cell of toHost; what the receiver sends is  *)
(* one character at a time, far from filling the receive buffer (RxRing).  *)
(***************************************************************************)
EXTENDS Integers, Sequences

CONSTANTS
    Size,        \* s_rom_size, in blocks of 128 bytes
    IntMod,      \* the values of an int: 2^16
    SeqMod,      \* numbers of a packet (256)
    BankBlocks,  \* blocks of a bank of 16K (128)
    Banks,       \* banks a slot may show
    Retry,       \* retry of XMODEM.recv (102)
    MayQuit,     \* TRUE: the client's process may end at any time
    MaxSlow      \* bound: premature timeouts

ASSUME DownloadAssumption ==
    /\ Size \in Nat /\ IntMod \in Nat /\ IntMod > 1
    /\ SeqMod \in Nat /\ SeqMod > 2
    /\ BankBlocks \in Nat \ {0} /\ Banks \in Nat /\ Banks > 2
    /\ Size <= Banks * BankBlocks
    /\ Retry \in Nat \ {0} /\ MaxSlow \in Nat /\ MayQuit \in BOOLEAN

VARIABLES
    dev,         \* where the firmware is; "cmd" is its command line
    i, packetno, rom_addr, crc_mode, packet,   \* downloadXmodem's
    slot,        \* banks shown by the mapper's slots
    host,        \* where the receiver is; "gone" when its process ended
    crc,         \* the receiver asks for CRC packets ("C")
    sequence, errs, received,   \* XMODEM.recv's
    aborted,     \* sendAbort was called
    toDev,       \* characters for the firmware
    toHost,      \* cells for the receiver
    slow         \* premature timeouts so far

devVars  == <<dev, i, packetno, rom_addr, crc_mode, packet, slot>>
hostVars == <<host, crc, sequence, errs, received, aborted>>
vars     == <<devVars, hostVars, toDev, toHost, slow>>

Oldest(q) == IF q = <<>> THEN {} ELSE {Head(q)}

\* The quotient s_rom_size / 128, converted to an int.
n_blocks == LET n == Size % IntMod IN IF n < IntMod \div 2 THEN n ELSE n - IntMod

Ctl(kind) == [kind |-> kind]
Packet(no, block, withCrc) == [kind |-> "SOH", no |-> no, block |-> block, crc |-> withCrc]

\* The client has read "CTRL+C to cancel."; the line feed of "dx\r\n" follows.
\* Earlier commands left any bank in the slots.
Init ==
    /\ dev = "start" /\ i = 0 /\ packetno = 1 /\ rom_addr = 0
    /\ crc_mode = FALSE /\ packet = Packet(0, 0, FALSE)
    /\ slot \in [0..2 -> 0..Banks-1]
    /\ host = "nak" /\ crc \in BOOLEAN
    /\ sequence = 1 /\ errs = 0 /\ received = <<>> /\ aborted = FALSE
    /\ toDev = <<"LF">> /\ toHost = <<>>
    /\ slow = 0

-----------------------------------------------------------------------------
(* The firmware.                                                           *)

Rx == toDev' = Tail(toDev)
ToHost(cells) == toHost' = toHost \o cells

\* The first loop: CTRL+C, "C" or NAK; anything else is ignored.
WaitStart ==
    /\ dev = "start"
    /\ \E b \in Oldest(toDev) :
          /\ Rx
          /\ \/ /\ b = "ETX"
                /\ dev' = "cmd" /\ ToHost(<<Ctl("text")>>)
                /\ UNCHANGED <<crc_mode, slot>>
             \/ /\ b \in {"C", "NAK"}
                /\ crc_mode' = (b = "C")
                /\ slot' = [slot EXCEPT ![0] = 0, ![1] = 1]
                /\ dev' = "block" /\ UNCHANGED toHost
             \/ /\ b \notin {"ETX", "C", "NAK"}
                /\ UNCHANGED <<dev, crc_mode, slot, toHost>>
    /\ UNCHANGED <<i, packetno, rom_addr, packet, hostVars, slow>>

\* The block at rom_addr's place in a bank.
Shown(bank) == bank * BankBlocks + (rom_addr % BankBlocks)

\* Fault: slot 2 set only when its bank changes, as cmd_blankcheck does, but
\* one block late.
ReadBlockLate ==
    LET through == IF rom_addr < 2 * BankBlocks THEN rom_addr \div BankBlocks ELSE 2
    IN  /\ slot' = IF rom_addr >= 2 * BankBlocks /\ rom_addr % BankBlocks = 1
                   THEN [slot EXCEPT ![2] = rom_addr \div BankBlocks] ELSE slot
        /\ packet' = Packet(packetno,
               Shown(slot'[through]), crc_mode)

\* The block at rom_addr: through slots 0 and 1, to support cartridges
\* without a mapper, then through slot 2.
ReadBlock ==
    IF rom_addr < 2 * BankBlocks
    THEN /\ UNCHANGED slot
         /\ packet' = Packet(packetno,
                Shown(slot[rom_addr \div BankBlocks]), crc_mode)
    ELSE /\ slot' = [slot EXCEPT ![2] = rom_addr \div BankBlocks]
         /\ packet' = Packet(packetno,
                Shown(slot'[2]), crc_mode)

\* Fault: the loop stops one block early.
SendBlockShort ==
    /\ dev = "block"
    /\ IF i < n_blocks - 1
       THEN ReadBlock /\ ToHost(<<packet'>>) /\ dev' = "ack"
       ELSE ToHost(<<Ctl("EOT")>>) /\ dev' = "eot" /\ UNCHANGED <<packet, slot>>
    /\ UNCHANGED <<i, packetno, rom_addr, crc_mode, hostVars, toDev, slow>>

\* Fault: EOT stays in the transmit buffer.
SendBlockNoEot ==
    /\ dev = "block"
    /\ IF i < n_blocks
       THEN ReadBlock /\ ToHost(<<packet'>>) /\ dev' = "ack"
       ELSE dev' = "eot" /\ UNCHANGED <<packet, slot, toHost>>
    /\ UNCHANGED <<i, packetno, rom_addr, crc_mode, hostVars, toDev, slow>>

\* The top of the loop over the blocks: the next packet, or EOT.
SendBlock ==
    /\ dev = "block"
    /\ IF i < n_blocks
       THEN ReadBlock /\ ToHost(<<packet'>>) /\ dev' = "ack"
       ELSE ToHost(<<Ctl("EOT")>>) /\ dev' = "eot" /\ UNCHANGED <<packet, slot>>
    /\ UNCHANGED <<i, packetno, rom_addr, crc_mode, hostVars, toDev, slow>>

\* Fault: packetno is an int.
NextBlockWide == /\ i' = i + 1
                 /\ rom_addr' = rom_addr + 1
                 /\ packetno' = packetno + 1
                 /\ dev' = "block"

\* ACK: the next block.
NextBlock == /\ i' = i + 1
             /\ rom_addr' = rom_addr + 1
             /\ packetno' = (packetno + 1) % SeqMod
             /\ dev' = "block"

RestoreSlot2 == slot' = [slot EXCEPT ![2] = 2]

\* Fault: a NAK is answered with the next block.
WaitAckSkips ==
    /\ dev = "ack"
    /\ \E b \in Oldest(toDev) :
          /\ Rx
          /\ \/ b \in {"ACK", "NAK"} /\ NextBlock /\ UNCHANGED <<slot, toHost>>
             \/ /\ b = "CAN" /\ RestoreSlot2 /\ dev' = "cmd" /\ ToHost(<<Ctl("text")>>)
                /\ UNCHANGED <<i, rom_addr, packetno>>
             \/ b \notin {"ACK", "NAK", "CAN"}
                /\ UNCHANGED <<dev, i, rom_addr, packetno, slot, toHost>>
    /\ UNCHANGED <<crc_mode, packet, hostVars, slow>>

\* Fault: CAN is not listened to.
WaitAckDeaf ==
    /\ dev = "ack"
    /\ \E b \in Oldest(toDev) :
          /\ Rx
          /\ \/ b = "ACK" /\ NextBlock /\ UNCHANGED toHost
             \/ /\ b = "NAK" /\ ToHost(<<packet>>)
                /\ UNCHANGED <<dev, i, rom_addr, packetno>>
             \/ b \notin {"ACK", "NAK"} /\ UNCHANGED <<dev, i, rom_addr, packetno, toHost>>
    /\ UNCHANGED <<slot, crc_mode, packet, hostVars, slow>>

\* The second loop: ACK ends it, NAK sends the packet again, CAN cancels.  The
\* text of the CAN branch is read from RAM, at the address the text has in flash:
\* what goes out may hold an EOT.
WaitAck ==
    /\ dev = "ack"
    /\ \E b \in Oldest(toDev) :
          /\ Rx
          /\ \/ b = "ACK" /\ NextBlock /\ UNCHANGED <<slot, toHost>>
             \/ /\ b = "NAK" /\ ToHost(<<packet>>)
                /\ UNCHANGED <<dev, i, rom_addr, packetno, slot>>
             \/ /\ b = "CAN" /\ RestoreSlot2 /\ dev' = "cmd"
                /\ \E kind \in {"text", "EOT"} : ToHost(<<Ctl(kind)>>)
                /\ UNCHANGED <<i, rom_addr, packetno>>
             \/ /\ b \notin {"ACK", "NAK", "CAN"}
                /\ UNCHANGED <<dev, i, rom_addr, packetno, slot, toHost>>
    /\ UNCHANGED <<crc_mode, packet, hostVars, slow>>

\* The third loop: only an ACK ends it.
WaitEotAck ==
    /\ dev = "eot"
    /\ \E b \in Oldest(toDev) :
          /\ Rx
          /\ IF b = "ACK"
             THEN RestoreSlot2 /\ dev' = "cmd" /\ ToHost(<<Ctl("text")>>)
             ELSE UNCHANGED <<slot, dev, toHost>>
    /\ UNCHANGED <<i, packetno, rom_addr, crc_mode, packet, hostVars, slow>>

\* Back at the command line what arrives is echoed.
Echo ==
    /\ dev = "cmd"
    /\ toDev # <<>>
    /\ Rx
    /\ ToHost(<<Ctl("text")>>)
    /\ UNCHANGED <<devVars, hostVars, slow>>

Device == WaitStart \/ SendBlock \/ WaitAck \/ WaitEotAck \/ Echo

-----------------------------------------------------------------------------
(* The receiver.                                                           *)

Write(b) == toDev' = Append(toDev, b)
Getc == toHost' = Tail(toHost)

\* A timeout is due when the firmware waits too and nothing is on its way.
Due == /\ dev \in {"start", "ack", "eot", "cmd"}
       /\ toDev = <<>> /\ toHost = <<>>
Late == IF Due THEN UNCHANGED slow ELSE slow < MaxSlow /\ slow' = slow + 1
GetcTimeout == toHost = <<>> /\ UNCHANGED toHost /\ Late

\* An error: one more is too many once there are Retry of them.
Fail(again) ==
    IF errs + 1 >= Retry
    THEN host' = "abort" /\ errs' = 0
    ELSE host' = again /\ errs' = errs + 1

\* XMODEM.recv gives up: CAN CAN.
Abort ==
    /\ host = "abort"
    /\ toDev' = toDev \o <<"CAN", "CAN">>
    /\ host' = "failed"
    /\ UNCHANGED <<devVars, crc, sequence, errs, received, aborted, toHost, slow>>

\* XMODEM.recv asks for the first packet.
AskFirst ==
    /\ host = "nak"
    /\ Write(IF crc THEN "C" ELSE "NAK")
    /\ host' = "first"
    /\ UNCHANGED <<devVars, crc, sequence, errs, received, aborted, toHost, slow>>

\* A packet in sequence is written and acknowledged; for any other the line
\* is purged.
Packetwise(c) ==
    /\ errs' = 0
    /\ IF c.no = sequence /\ c.crc = crc
       THEN /\ received' = Append(received, c.block)
            /\ sequence' = (sequence + 1) % SeqMod
            /\ Write("ACK")
            /\ host' = "next"
       ELSE host' = "purge" /\ UNCHANGED <<received, sequence, toDev>>

\* The first loop of XMODEM.recv: nothing but a packet will do.
ReadFirst ==
    /\ host = "first"
    /\ \/ \E c \in Oldest(toHost) :
             /\ Getc
             /\ IF c.kind = "SOH" THEN Packetwise(c)
                ELSE Fail("nak") /\ UNCHANGED <<received, sequence, toDev>>
             /\ UNCHANGED slow
       \/ GetcTimeout /\ Fail("nak") /\ UNCHANGED <<received, sequence, toDev>>
    /\ UNCHANGED <<devVars, crc, aborted>>

\* Its second loop: a packet, or EOT.
ReadNext ==
    /\ host = "next"
    /\ \/ \E c \in Oldest(toHost) :
             /\ Getc
             /\ \/ c.kind = "SOH" /\ Packetwise(c)
                \/ /\ c.kind = "EOT" /\ Write("ACK") /\ host' = "done"
                   /\ UNCHANGED <<received, sequence, errs>>
                \/ /\ c.kind \notin {"SOH", "EOT"} /\ Fail("next")
                   /\ UNCHANGED <<received, sequence, toDev>>
             /\ UNCHANGED slow
       \/ GetcTimeout /\ Fail("next") /\ UNCHANGED <<received, sequence, toDev>>
    /\ UNCHANGED <<devVars, crc, aborted>>

\* Before a NAK the receiver drops what comes until nothing more does.
Purge ==
    /\ host = "purge"
    /\ \/ toHost # <<>> /\ Getc /\ UNCHANGED <<host, toDev, slow>>
       \/ GetcTimeout /\ Write("NAK") /\ host' = "next"
    /\ UNCHANGED <<devVars, crc, sequence, errs, received, aborted>>

Ended == host \in {"done", "failed", "gone"}

Quit ==
    /\ MayQuit /\ ~Ended
    /\ host' = "gone"
    /\ UNCHANGED <<devVars, crc, sequence, errs, received, aborted, toDev, toHost, slow>>

\* The Cancel button of smsp.py while the receiver runs, or the first thing
\* another client does when it opens the port.
SendAbort ==
    /\ ~aborted
    /\ host \notin {"done", "failed"}
    /\ aborted' = TRUE
    /\ toDev' = toDev \o <<"CAN", "ETX">>
    /\ UNCHANGED <<devVars, host, crc, sequence, errs, received, toHost, slow>>

Client == AskFirst \/ ReadFirst \/ ReadNext \/ Purge \/ Abort

Next == Device \/ Client \/ SendAbort \/ Quit

Spec == Init /\ [][Next]_vars

(* The processor and the receiver's thread run; nobody has to press Cancel. *)
FairSpec == Spec /\ WF_vars(Device) /\ WF_vars(Client)

-----------------------------------------------------------------------------
(* Properties.                                                             *)

TypeOK ==
    /\ dev \in {"start", "block", "ack", "eot", "cmd"}
    /\ i \in 0..Size /\ rom_addr \in 0..Size /\ packetno \in 0..SeqMod-1
    /\ crc_mode \in BOOLEAN /\ crc \in BOOLEAN /\ aborted \in BOOLEAN
    /\ packet.block \in 0..Banks*BankBlocks-1
    /\ slot \in [0..2 -> 0..Banks-1]
    /\ host \in {"nak", "first", "next", "purge", "abort", "done", "failed", "gone"}
    /\ sequence \in 0..SeqMod-1 /\ errs \in 0..Retry-1
    /\ slow \in 0..MaxSlow

\* What the receiver has is a prefix of the ROM, each block once and in
\* order, whatever was sent twice and whatever banks the slots showed before.
ExactPrefix == received = [n \in 1..Len(received) |-> n - 1]

\* The firmware moves to the next block only when the receiver has this one:
\* an ACK is never one for an earlier packet.
NeverAhead == i <= Len(received)

\* EOT is sent when all of the size set was sent, so that a receiver that ends
\* with success has a whole dump.
EotAfterAll == dev = "eot" => i = Size

\* downloadXmodem returns, by EOT, by Cancel or because the receiver gave up,
\* as long as the client's process lives.
DownloadReturns == <>[](dev = "cmd") \/ <>(host = "gone")

\* An abort ends the sending of blocks, also when the receiver is no more: the
\* firmware comes back to its command line, or is waiting for EOT's ACK.
CancelStops == aborted ~> dev \in {"cmd", "eot"}

\* CTRL+C cancels, as the firmware announces: the client's abort, CAN and
\* CTRL+C, brings the firmware back to its command line.
CancelReturns == aborted ~> dev = "cmd"
=============================================================================
