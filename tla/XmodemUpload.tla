---------------------------- MODULE XmodemUpload ----------------------------
(***************************************************************************)
(* Programming a cartridge: uploadXmodem of menu.c receives the file from  *)
(* the client, whose XMODEM sender (the Python package xmodem, external)   *)
(* is started by upload() of smscprogr.py or of carttool.py.               *)
(*                                                                         *)
(* The firmware acknowledges without a sequence number, repeats its last   *)
(* NAK or ACK whenever half a second passes without a byte, checks no      *)
(* checksum and never looks for the start of a packet inside one; its      *)
(* receive buffer (RxRing, here by its promise RxFifo) holds one packet    *)
(* but not two.  A packet is PktLen cells: SOH, its number, and its data.  *)
(***************************************************************************)
EXTENDS Integers, Sequences

CONSTANTS
    N,           \* blocks of the file
    SeqMod,      \* numbers of a packet (256)
    PktLen,      \* cells of a packet (132 bytes)
    RxBufSize,   \* cells of the receive buffer (140 bytes)
    WaitLimit,   \* waits without a byte before "Timeout" (10000)
    Retry,       \* retry of XMODEM.send (10, 102)
    Clients      \* the clients that may upload, with their environment

ASSUME UploadAssumption ==
    /\ N \in Nat \ {0} /\ SeqMod \in Nat \ {0, 1, 2}
    /\ PktLen \in Nat /\ PktLen >= 3
    /\ RxBufSize \in Nat /\ PktLen + 2 < RxBufSize
    /\ WaitLimit \in Nat \ {0} /\ Retry \in Nat
    /\ Clients \subseteq [
         waitsForNak : BOOLEAN, \* TRUE: upload of smscprogr.py; FALSE: of carttool.py
         prompt : BOOLEAN,      \* the main program, when it polls, outruns the bus
         canAbort : BOOLEAN,    \* the user may press Cancel, which calls sendAbort
         maxSlow : Nat]         \* bound: premature timeouts

VARIABLES
    dev,         \* where the firmware is; "cmd" is its command line
    send_nack, last_packet_id, packetbuf, tries,   \* uploadXmodem's
    programmed,  \* blocks written to the flash, in order of address
    as,          \* the client that uploads, a member of Clients
    host,        \* where the client is
    blk,         \* block being sent
    errs,        \* error_count of XMODEM.send
    toDev,       \* cells written by the client, not yet in the buffer
    ring,        \* unread cells of the receive buffer
    toHost,      \* cells on their way to the client
    overrun,     \* the receive buffer has overrun during the upload
    aborted,     \* sendAbort was called
    slow         \* premature timeouts so far

devVars  == <<dev, send_nack, last_packet_id, packetbuf, tries, programmed>>
hostVars == <<as, host, blk, errs, aborted>>
vars     == <<devVars, hostVars, toDev, ring, toHost, overrun, slow>>

Cell(kind, n) == [kind |-> kind, n |-> n]
Ctl(kind) == Cell(kind, 0)
Packet(b) == <<Ctl("SOH"), Cell("seq", b)>> \o [i \in 1..PktLen-2 |-> Cell("data", b)]
\* What a byte of a packet's number or data may look like to who expects a
\* control character.
Opaque(c) == c.kind \in {"seq", "data"}
Oldest(q) == IF q = <<>> THEN {} ELSE {Head(q)}

\* The client has sent "ux\r\n" and the firmware has acted on the "\r".
Init ==
    /\ dev = "send" /\ send_nack = TRUE /\ last_packet_id = 0
    /\ packetbuf = <<>> /\ tries = 0 /\ programmed = <<>>
    /\ as \in Clients /\ host = IF as.waitsForNak THEN "ux" ELSE "start"
    /\ blk = 1 /\ errs = 0 /\ aborted = FALSE
    /\ toDev = <<Ctl("LF")>> /\ ring = <<>> /\ toHost = <<>>
    /\ overrun = FALSE /\ slow = 0

-----------------------------------------------------------------------------
(* The firmware.                                                           *)

ToHost(cells) == toHost' = toHost \o cells

\* A timeout is due when each side waits for the other, or the client has
\* ended, and nothing is on its way.  Any other one is premature.
Due ==
    /\ dev \in {"wait", "rx", "cmd"} /\ toDev = <<>> /\ ring = <<>>
    /\ \/ host \in {"done", "failed"}
       \/ host \in {"ux", "start", "ack", "eotack"} /\ toHost = <<>>
Late == IF Due THEN UNCHANGED slow ELSE slow < as.maxSlow /\ slow' = slow + 1

\* The top of the loop in STATE_WAIT_SOH: NAK until a packet was received,
\* ACK from then on.
SendAck ==
    /\ dev = "send"
    /\ ToHost(<<Ctl(IF send_nack THEN "NAK" ELSE "ACK")>>)
    /\ dev' = "wait"
    /\ UNCHANGED <<send_nack, last_packet_id, packetbuf, tries, programmed>>
    /\ UNCHANGED <<hostVars, toDev, ring, overrun, slow>>

\* Fault: no limit to the waits.
WaitsForever ==
    /\ dev \in {"wait", "rx"}
    /\ ring = <<>>
    /\ Late
    /\ dev' = (IF dev = "wait" THEN "send" ELSE dev)
    /\ UNCHANGED <<send_nack, last_packet_id, packetbuf, tries, programmed>>
    /\ UNCHANGED <<hostVars, toDev, ring, toHost, overrun>>

\* waitChar returns -1: another round, or "Timeout" after the last.
WaitCharTimeout ==
    /\ dev \in {"wait", "rx"}
    /\ ring = <<>>
    /\ Late
    /\ IF tries + 1 = WaitLimit
       THEN /\ Due                   \* 83 minutes are never premature
            /\ dev' = "cmd" /\ tries' = 0
            /\ ToHost(<<Ctl("text")>>)
       ELSE /\ dev' = (IF dev = "wait" THEN "send" ELSE dev)
            /\ tries' = tries + 1
            /\ UNCHANGED toHost
    /\ UNCHANGED <<send_nack, last_packet_id, packetbuf, programmed>>
    /\ UNCHANGED <<hostVars, toDev, ring, overrun>>

\* waitChar returns the byte c.
WaitChar == ring' = Tail(ring) /\ tries' = 0

\* The byte read may be the control character k.
Reads(c, k) == c.kind = k \/ Opaque(c)

StartPacket ==
    /\ dev = "wait"
    /\ \E c \in Oldest(ring) : WaitChar /\ Reads(c, "SOH") /\ packetbuf' = <<c>>
    /\ dev' = "rx"
    /\ UNCHANGED <<send_nack, last_packet_id, programmed>>
    /\ UNCHANGED <<hostVars, toDev, toHost, overrun, slow>>

Interrupted ==
    /\ dev = "wait"
    /\ \E c \in Oldest(ring) : WaitChar /\ (Reads(c, "ETX") \/ Reads(c, "CAN"))
    /\ dev' = "cmd"
    /\ ToHost(<<Ctl("text")>>)
    /\ UNCHANGED <<send_nack, last_packet_id, packetbuf, programmed>>
    /\ UNCHANGED <<hostVars, toDev, overrun, slow>>

EndOfTransmission ==
    /\ dev = "wait"
    /\ \E c \in Oldest(ring) : WaitChar /\ Reads(c, "EOT")
    /\ dev' = "cmd"
    /\ ToHost(<<Ctl("ACK"), Ctl("text")>>)
    /\ UNCHANGED <<send_nack, last_packet_id, packetbuf, programmed>>
    /\ UNCHANGED <<hostVars, toDev, overrun, slow>>

\* Any other byte is ignored, and answered like a wait that timed out.
IgnoreByte ==
    /\ dev = "wait"
    /\ \E c \in Oldest(ring) :
          WaitChar /\ (Opaque(c) \/ c.kind \notin {"SOH", "ETX", "CAN", "EOT"})
    /\ dev' = "send"
    /\ UNCHANGED <<send_nack, last_packet_id, packetbuf, programmed>>
    /\ UNCHANGED <<hostVars, toDev, toHost, overrun, slow>>

\* STATE_RX_DATA with packets of n cells, the last one answered by early.
ReceiveUpTo(n, early) ==
    /\ dev = "rx"
    /\ \E c \in Oldest(ring) : WaitChar /\ packetbuf' = Append(packetbuf, c)
    /\ dev' = IF Len(packetbuf) + 1 < n THEN "rx" ELSE "process"
    /\ IF Len(packetbuf) + 1 < n THEN UNCHANGED toHost ELSE ToHost(early)
    /\ UNCHANGED <<send_nack, last_packet_id, programmed>>
    /\ UNCHANGED <<hostVars, toDev, overrun, slow>>

\* Faults: a packet one cell short or long; the early ACK that is commented
\* out in STATE_PROCESS_PACKET, without its skip_ack.
ReceiveShort == ReceiveUpTo(PktLen - 1, <<>>)
ReceiveLong  == ReceiveUpTo(PktLen + 1, <<>>)
ReceiveAcks  == ReceiveUpTo(PktLen, <<Ctl("ACK")>>)

\* STATE_RX_DATA: whatever arrives belongs to the packet.
ReceiveData == ReceiveUpTo(PktLen, <<>>)

\* The number in the packet's second byte; garbage may be any number.
PacketId(p) == IF p[2].kind = "seq" THEN {p[2].n % SeqMod} ELSE 0..SeqMod-1

\* STATE_PROCESS_PACKET, with its test for a new packet.
ProcessIf(new(_, _)) ==
    /\ dev = "process"
    /\ \E id \in PacketId(packetbuf) :
          IF new(id, last_packet_id)
          THEN /\ programmed' = Append(programmed, [i \in 3..PktLen |-> packetbuf[i]])
               /\ last_packet_id' = id
          ELSE UNCHANGED <<programmed, last_packet_id>>
    /\ send_nack' = FALSE
    /\ dev' = "send"
    /\ packetbuf' = <<>>
    /\ UNCHANGED <<tries, hostVars, toDev, ring, toHost, overrun, slow>>

\* Faults: every packet taken for new; numbers taken for growing.
ProcessAlways == ProcessIf(LAMBDA id, last : TRUE)
ProcessGreater == ProcessIf(LAMBDA id, last : id > last)

\* STATE_PROCESS_PACKET: a packet that does not repeat the number of the last
\* one is programmed at the next address.
ProcessPacket == ProcessIf(LAMBDA id, last : id # last)

\* Back at the command line, what arrives is echoed.  That a carriage return ends
\* a line, whose answer the client does not read, is Console's; a payload in
\* which a command stands between two of them is not modelled.
Echo ==
    /\ dev = "cmd"
    /\ ring # <<>>
    /\ ToHost(<<Head(ring)>>)
    /\ ring' = Tail(ring)
    /\ UNCHANGED <<devVars, hostVars, toDev, overrun, slow>>

\* The interrupt stores a byte; one that fills the buffer empties it.
Arrive ==
    /\ toDev # <<>>
    /\ as.prompt => ring = <<>> \/ dev = "process"
    /\ toDev' = Tail(toDev)
    /\ IF Len(ring) + 1 = RxBufSize
       THEN ring' = <<>> /\ overrun' = (overrun \/ dev # "cmd")
       ELSE ring' = Append(ring, Head(toDev)) /\ UNCHANGED overrun
    /\ UNCHANGED <<devVars, hostVars, toHost, slow>>

Device == \/ SendAck \/ WaitCharTimeout \/ StartPacket \/ Interrupted
          \/ EndOfTransmission \/ IgnoreByte \/ ReceiveData \/ ProcessPacket \/ Echo

-----------------------------------------------------------------------------
(* The client.                                                             *)

Write(cells) == toDev' = toDev \o cells

\* getc returns a character.
Getc == toHost' = Tail(toHost)

\* getc returns None: nothing came in time, because nothing is on its way or
\* because the answer is late.
GetcTimeout ==
    /\ toHost = <<>>
    /\ UNCHANGED toHost
    /\ Late

\* exchangeCommand of smscprogr.py's upload reads the first NAK.
ReadFirstNak ==
    /\ host = "ux"
    /\ \E c \in Oldest(toHost) : Getc /\ host' = IF c.kind = "NAK" THEN "start" ELSE host
    /\ UNCHANGED <<as, blk, errs, aborted, toDev, slow>>
    /\ UNCHANGED <<devVars, ring, overrun>>

\* An error of XMODEM.send: try again until there are too many.
Fail(again) ==
    IF errs + 1 > Retry
    THEN host' = "failed" /\ errs' = 0 /\ Write(<<Ctl("CAN"), Ctl("CAN")>>)
    ELSE host' = again /\ errs' = errs + 1 /\ UNCHANGED toDev

\* XMODEM.send waits for the NAK that starts the transfer.
Start ==
    /\ host = "start"
    /\ \/ \E c \in Oldest(toHost) :
             /\ Getc
             /\ \/ Reads(c, "NAK") /\ host' = "send" /\ errs' = 0 /\ UNCHANGED toDev
                \/ c.kind # "NAK" /\ Fail("start")
             /\ UNCHANGED slow
       \/ GetcTimeout /\ Fail("start")
    /\ UNCHANGED <<as, blk, aborted, devVars, ring, overrun>>

SendPacket ==
    /\ host = "send"
    /\ Write(Packet(blk))
    /\ host' = "ack"
    /\ UNCHANGED <<as, blk, errs, aborted, toHost, slow, devVars, ring, overrun>>

\* The answer to a packet, or what is taken for it.
ReadAck ==
    /\ host = "ack"
    /\ \/ \E c \in Oldest(toHost) :
             /\ Getc
             /\ \/ /\ Reads(c, "ACK")
                   /\ errs' = 0 /\ blk' = blk + 1
                   /\ host' = (IF blk < N THEN "send" ELSE "eot")
                   /\ UNCHANGED toDev
                \/ c.kind # "ACK" /\ Fail("send") /\ UNCHANGED blk
             /\ UNCHANGED slow
       \/ GetcTimeout /\ Fail("send") /\ UNCHANGED blk
    /\ UNCHANGED <<as, aborted, devVars, ring, overrun>>

SendEot ==
    /\ host = "eot"
    /\ Write(<<Ctl("EOT")>>)
    /\ host' = "eotack"
    /\ UNCHANGED <<as, blk, errs, aborted, toHost, slow, devVars, ring, overrun>>

ReadEotAck ==
    /\ host = "eotack"
    /\ \/ \E c \in Oldest(toHost) :
             /\ Getc
             /\ \/ Reads(c, "ACK") /\ host' = "done" /\ UNCHANGED <<errs, toDev>>
                \/ c.kind # "ACK" /\ Fail("eot")
             /\ UNCHANGED slow
       \/ GetcTimeout /\ Fail("eot")
    /\ UNCHANGED <<as, blk, aborted, devVars, ring, overrun>>

\* The Cancel button of smsp.py calls sendAbort while the sender runs.
SendAbort ==
    /\ as.canAbort /\ ~aborted
    /\ host \notin {"done", "failed"}
    /\ aborted' = TRUE
    /\ Write(<<Ctl("CAN"), Ctl("ETX")>>)
    /\ UNCHANGED <<as, host, blk, errs, toHost, slow, devVars, ring, overrun>>

Client == \/ ReadFirstNak \/ Start \/ SendPacket \/ ReadAck \/ SendEot \/ ReadEotAck

Next == Device \/ Arrive \/ Client \/ SendAbort

Spec == Init /\ [][Next]_vars

(* The processor runs, the bus delivers, the client's thread runs; nobody  *)
(* has to press Cancel.                                                    *)
FairSpec == Spec /\ WF_vars(Device) /\ WF_vars(Arrive) /\ WF_vars(Client)

-----------------------------------------------------------------------------
(* Properties.                                                             *)

TypeOK ==
    /\ dev \in {"send", "wait", "rx", "process", "cmd"}
    /\ host \in {"ux", "start", "send", "ack", "eot", "eotack", "done", "failed"}
    /\ Len(packetbuf) \in 0..PktLen /\ (dev = "rx" => Len(packetbuf) \in 1..PktLen-1)
    /\ Len(ring) < RxBufSize
    /\ tries \in 0..WaitLimit-1 /\ errs \in 0..Retry
    /\ blk \in 1..N+1 /\ last_packet_id \in 0..SeqMod-1

\* As long as the receive buffer has not overrun, the firmware, which never
\* looks for the start of a packet in the middle of one, is in step with the
\* sender: what it processes is one packet, whole.
InStep == dev = "process" /\ ~overrun => \E b \in 1..N : packetbuf = Packet(b)

\* The flash then holds a prefix of the file, each block once and in order,
\* however many acknowledgements were repeated or taken for another's.
ExactPrefix ==
    ~overrun => programmed = [i \in 1..Len(programmed) |-> [j \in 3..PktLen |-> Cell("data", i)]]

\* The buffer overruns only when a timeout fired that should not have: the
\* sender otherwise keeps within the one packet that the buffer holds.
OverrunNeedsDelay == overrun => slow > 0

\* A sender that reports success, without Cancel, has all of the file
\* programmed in the end, unless the buffer overran.
SuccessIsProgrammed ==
    (host = "done" /\ ~aborted) ~> (Len(programmed) = N \/ overrun)

\* Both sides end, whichever gives up first and whatever was said last:
\* uploadXmodem returns to the command line, and the client's upload ends.
BothEnd == <>[](dev = "cmd" /\ host \in {"done", "failed"})
=============================================================================
