------------------------------- MODULE Console -------------------------------
(***************************************************************************)
(* A client's session: main's command line and menu_handleLine, and the    *)
(* exchanges of commands that smscprogr.py and carttool.py make of them.   *)
(*                                                                         *)
(* The client opens the port on a programmer left in any state by another  *)
(* client, which may have died in the middle of a transfer.  It sends an   *)
(* abort, some empty lines and then the commands of its operation, each    *)
(* answered when the end of the answer (a prompt, mostly) was seen.  The   *)
(* transfers themselves are XmodemUpload's and XmodemDownload's; here they *)
(* are places where the firmware listens to other characters.              *)
(***************************************************************************)
EXTENDS Integers, Sequences, SequencesExt

CONSTANTS
    Commands,    \* the handlers' names, in the order of the table
    Scripts,     \* what a client may send: sequences of steps
    InitModes,   \* where another client may have left the firmware
    Junk,        \* what it may have left in cmdbuf
    CmdBufSize,  \* CMDBUF_SIZE (24)
    PktLen,      \* bytes of a packet (132)
    MaxNaks      \* waits of half a second before "Timeout" (10000)

Modes == {"cmd", "dxstart", "dxack", "dxeot", "uxwait", "uxrx"}

ASSUME ConsoleAssumption ==
    /\ InitModes \subseteq Modes
    /\ CmdBufSize \in Nat \ {0} /\ PktLen \in Nat /\ PktLen > 1
    /\ MaxNaks \in Nat \ {0}
    /\ Commands \in Seq(Seq(STRING)) /\ Junk \subseteq Seq(STRING)
    /\ \A s \in Junk : Len(s) < CmdBufSize
    \* A command's name is printable characters.
    /\ \A k \in DOMAIN Commands :
          /\ Commands[k] # <<>>
          /\ \A i \in DOMAIN Commands[k] : Commands[k][i] \notin {"CAN", "ETX", "CR", "LF"}
    \* An unfinished line that is a command already would be executed.
    /\ \A s \in Junk, k \in DOMAIN Commands : ~IsPrefix(Commands[k], s)

VARIABLES
    mode,        \* where the firmware is: its command line, or which loop
    found,       \* where it was when the port was opened
    cmdbuf,      \* the line so far (cmdbufpos is its length)
    datpos,      \* bytes of the packet under way in "uxrx"
    waits,       \* waits of uploadXmodem without a byte
    flash,       \* the cartridge is a supported flash cartridge
    executed,    \* handlers called
    lines,       \* lines ended so far
    rx,          \* characters on their way to the firmware
    wire,        \* answers on their way to the client
    inbuf,       \* answers in the client's input buffer
    script, step,   \* the client's session and its next step
    client,      \* "idle" between steps, "reading" an answer, or ended
    sawFlash,    \* "Cartridge type: FLASH" is in the answer so far
    sent,        \* lines sent
    answered     \* lines ended before the answer taken for the last one's

devVars    == <<mode, cmdbuf, datpos, waits, flash, executed, lines>>
clientVars == <<found, script, step, client, sawFlash, sent, answered>>
vars       == <<devVars, clientVars, rx, wire, inbuf>>

Oldest(q) == IF q = <<>> THEN {} ELSE {Head(q)}

\* The port is opened on a firmware that waits for characters: one busy with an
\* erasure, a blank check or a search does not look at them before it is done.
Init ==
    /\ mode \in InitModes /\ found = mode
    /\ cmdbuf \in IF mode = "cmd" THEN Junk ELSE {<<>>}
    /\ datpos \in IF mode = "uxrx" THEN 1..PktLen-1 ELSE {0}
    /\ waits = 0 /\ flash \in BOOLEAN /\ executed = <<>> /\ lines = 0
    /\ rx = <<>> /\ wire = <<>> /\ inbuf = <<>>
    /\ script \in Scripts /\ step = 1 /\ client = "idle"
    /\ sawFlash = FALSE /\ sent = 0 /\ answered = 0

-----------------------------------------------------------------------------
(* The firmware.  An answer's parts carry the number of lines ended.       *)

Say(parts) == wire' = wire \o [k \in 1..Len(parts) |-> [what |-> parts[k], at |-> lines']]

\* A command's name is matched with the start of the line, in the order of the
\* table.
Matches(line, name) == IsPrefix(name, line)
Handler(line) == SelectInSeq(Commands, LAMBDA name : Matches(line, name))

\* What the commands print and where they go on.
Run(name) ==
    /\ executed' = Append(executed, name)
    /\ CASE name = <<"d", "x">> -> mode' = "dxstart" /\ Say(<<"CTRL+C to cancel.">>)
         [] name = <<"u", "x">> -> mode' = "uxwait" /\ Say(<<"READY", "NAK">>)
         [] name = <<"i", "n", "i", "t">> ->
                /\ UNCHANGED mode
                /\ Say(<<IF flash THEN "FLASH" ELSE "ROM", "prompt">>)
         [] OTHER -> UNCHANGED mode /\ Say(<<"text", "prompt">>)

menu_handleLine(line) ==
    LET h == Handler(line)
    IN  IF h # 0 THEN Run(Commands[h])
        ELSE /\ UNCHANGED <<executed, mode>>
             /\ Say(IF line = <<>> THEN <<"prompt">> ELSE <<"ERROR", "prompt">>)

Take == rx' = Tail(rx)

\* A character of a line that ends with one of enders, in a buffer of a size.
CommandLineWith(size, enders) ==
    /\ mode = "cmd"
    /\ \E b \in Oldest(rx) :
          /\ Take
          /\ \/ /\ b = "LF" /\ b \notin enders
                /\ UNCHANGED <<cmdbuf, lines, executed, mode, wire>>
             \/ /\ b \in enders /\ lines' = lines + 1
                /\ menu_handleLine(cmdbuf) /\ cmdbuf' = <<>>
             \/ /\ b \notin enders \union {"LF"}
                /\ cmdbuf' = IF Len(cmdbuf) + 1 >= size THEN <<>> ELSE Append(cmdbuf, b)
                /\ UNCHANGED <<lines, executed, mode, wire>>
    /\ UNCHANGED <<datpos, waits, flash, inbuf, clientVars>>

\* Faults: a line dropped one character early or late; a line feed that ends
\* a line too.
CommandLineTight == CommandLineWith(CmdBufSize - 1, {"CR"})
CommandLineWide  == CommandLineWith(CmdBufSize + 1, {"CR"})
CommandLineBoth  == CommandLineWith(CmdBufSize, {"CR", "LF"})

\* The main loop: a line feed is ignored, a carriage return ends the line, and
\* a line that fills the buffer is dropped ("Line too long").
CommandLine == CommandLineWith(CmdBufSize, {"CR"})

\* A transfer that ends prints a prompt, as any handler that returns.
Returns == mode' = "cmd" /\ Say(<<"text", "prompt">>)

\* Fault: CTRL+C is not listened to.
DownloadLoopsStart ==
    /\ mode \in {"dxstart", "dxack", "dxeot"}
    /\ UNCHANGED lines
    /\ \E b \in Oldest(rx) :
          /\ Take
          /\ IF mode = "dxack" /\ b = "CAN"
             THEN Returns
             ELSE UNCHANGED <<mode, wire>>
    /\ UNCHANGED <<cmdbuf, datpos, waits, flash, executed, inbuf, clientVars>>

\* downloadXmodem's loops, as far as a client that is not receiving drives
\* them: CTRL+C before the transfer, CAN during it, nothing after it.
DownloadLoops ==
    /\ mode \in {"dxstart", "dxack", "dxeot"}
    /\ UNCHANGED lines
    /\ \E b \in Oldest(rx) :
          /\ Take
          /\ IF <<mode, b>> \in {<<"dxstart", "ETX">>, <<"dxack", "CAN">>}
             THEN Returns
             ELSE UNCHANGED <<mode, wire>>
    /\ UNCHANGED <<cmdbuf, datpos, waits, flash, executed, inbuf, clientVars>>

\* uploadXmodem waiting for a packet: CTRL+C or CAN ends it, anything else
\* that does not start a packet is answered with a NAK.
UploadWait ==
    /\ mode = "uxwait"
    /\ UNCHANGED lines
    /\ \E b \in Oldest(rx) :
          /\ Take
          /\ waits' = 0
          /\ IF b \in {"ETX", "CAN"} THEN Returns ELSE UNCHANGED mode /\ Say(<<"NAK">>)
    /\ UNCHANGED <<cmdbuf, datpos, flash, executed, inbuf, clientVars>>

\* uploadXmodem inside a packet takes whatever comes for its data, and answers it
\* when it has programmed it: polls that do not end are FlashCart's.
UploadData ==
    /\ mode = "uxrx"
    /\ rx # <<>>
    /\ UNCHANGED lines
    /\ Take
    /\ waits' = 0
    /\ IF datpos + 1 < PktLen
       THEN datpos' = datpos + 1 /\ UNCHANGED <<mode, wire>>
       ELSE datpos' = 0 /\ mode' = "uxwait" /\ Say(<<"ACK">>)
    /\ UNCHANGED <<cmdbuf, flash, executed, inbuf, clientVars>>

\* Half a second without a byte, MaxNaks of which end an upload.
UploadTimeout ==
    /\ mode \in {"uxwait", "uxrx"}
    /\ rx = <<>>
    /\ UNCHANGED lines
    /\ IF waits + 1 = MaxNaks
       THEN /\ client # "idle" /\ wire = <<>> /\ inbuf = <<>>   \* after 83 minutes
            /\ waits' = 0 /\ datpos' = 0 /\ Returns
       ELSE /\ waits' = waits + 1 /\ UNCHANGED <<mode, datpos>>
            /\ IF mode = "uxwait" THEN Say(<<"NAK">>) ELSE UNCHANGED wire
    /\ UNCHANGED <<cmdbuf, flash, executed, rx, inbuf, clientVars>>

Device == CommandLine \/ DownloadLoops \/ UploadWait \/ UploadData \/ UploadTimeout

-----------------------------------------------------------------------------
(* The client.  A step of a script is an abort, or a line to send with the *)
(* end of its answer, and whether the answer must name a flash cartridge.  *)

This == script[step]

\* The client sends a command's whole name, which no earlier name of the table
\* is the start of.
IsCommand(line) ==
    /\ line # <<>> /\ Len(line) < CmdBufSize
    /\ Handler(line) \in DOMAIN Commands /\ Commands[Handler(line)] = line

\* A session: aborts, empty lines, then commands.  Each answer is read to its
\* prompt, but for the last command's, which begins a transfer.
SessionOf(s, aborts, opening) ==
    /\ aborts < opening /\ opening < Len(s)
    /\ \A k \in 1..aborts : s[k].kind = "abort"
    /\ \A k \in aborts+1..opening : s[k].kind = "exchange" /\ s[k].line = <<>>
    /\ \A k \in opening+1..Len(s) : s[k].kind = "exchange" /\ IsCommand(s[k].line)
    /\ \A k \in aborts+1..Len(s)-1 :
          s[k].ender = "prompt" /\ s[k].line \notin {<<"d", "x">>, <<"u", "x">>}
    /\ \/ s[Len(s)].line = <<"d", "x">> /\ s[Len(s)].ender = "CTRL+C to cancel."
       \/ s[Len(s)].line = <<"u", "x">> /\ s[Len(s)].ender \in {"READY", "NAK"}
    /\ ~s[Len(s)].flashOnly

ASSUME SessionAssumption ==
    \A s \in Scripts : \E aborts, opening \in 0..Len(s) : SessionOf(s, aborts, opening)

\* sendAbort: CAN, then CTRL+C.
SendAbort ==
    /\ client = "idle" /\ step <= Len(script) /\ This.kind = "abort"
    /\ rx' = rx \o <<"CAN", "ETX">>
    /\ step' = step + 1
    /\ UNCHANGED <<found, script, client, sawFlash, sent, answered, devVars, wire, inbuf>>

\* exchangeCommand drops what was received, and sends the line.
SendCommand ==
    /\ client = "idle" /\ step <= Len(script) /\ This.kind = "exchange"
    /\ inbuf' = <<>>
    /\ rx' = rx \o This.line \o <<"CR", "LF">>
    /\ client' = "reading" /\ sawFlash' = FALSE /\ sent' = sent + 1
    /\ UNCHANGED <<found, script, step, answered, devVars, wire>>

\* Part of an answer reaches the client's computer.
Arrive ==
    /\ wire # <<>>
    /\ inbuf' = Append(inbuf, Head(wire))
    /\ wire' = Tail(wire)
    /\ UNCHANGED <<devVars, clientVars, rx>>

\* exchangeCommand reads on until the end of an answer; the caller raises an
\* exception when the answer to "init" names no flash cartridge.
ReadAnswer ==
    /\ client = "reading"
    /\ \E c \in Oldest(inbuf) :
          /\ inbuf' = Tail(inbuf)
          /\ sawFlash' = (sawFlash \/ c.what = "FLASH")
          /\ IF c.what # This.ender
             THEN UNCHANGED <<client, step, answered>>
             ELSE /\ answered' = c.at
                  /\ step' = step + 1
                  /\ client' = IF This.flashOnly /\ ~sawFlash' THEN "raised" ELSE "idle"
    /\ UNCHANGED <<found, script, sent, devVars, rx, wire>>

Client == SendAbort \/ SendCommand \/ ReadAnswer

Next == Device \/ Arrive \/ Client

Spec == Init /\ [][Next]_vars

(* The processor runs, the bus delivers, the client runs.                  *)
FairSpec == Spec /\ WF_vars(Device) /\ WF_vars(Arrive) /\ WF_vars(Client)

-----------------------------------------------------------------------------
(* Properties.                                                             *)

TypeOK ==
    /\ mode \in Modes /\ found \in InitModes /\ Len(cmdbuf) < CmdBufSize
    /\ datpos \in 0..PktLen-1 /\ (mode # "uxrx" => datpos = 0)
    /\ waits \in 0..MaxNaks-1
    /\ client \in {"idle", "reading", "raised"}
    /\ step \in 1..Len(script) + 1
    /\ sent \in 0..Len(script) /\ lines \in 0..sent /\ answered \in 0..lines

\* The commands the script sends: all that follows its aborts and empty lines.
Opening == CHOOSE n \in 0..Len(script) : \E aborts \in 0..n : SessionOf(script, aborts, n)
Intended == [k \in 1..Len(script) - Opening |-> script[Opening + k].line]

\* Whatever another client left in the command line or in a transfer, the
\* commands executed are those of this session, in order, each as it was sent.
CommandsIntact == IsPrefix(executed, Intended)

\* When the session ends as intended, all its commands were executed and the
\* firmware is where the last one leaves it: the client that goes on to send
\* or to receive blocks has not taken another answer for that of ux or dx.
TransferInStep ==
    client = "idle" /\ step > Len(script)
        => executed = Intended /\ mode \in {"dxstart", "uxwait"}

\* An exchange returns with the answer to the line it sent.
OwnAnswer == client = "idle" => answered = sent

\* It does when the port was opened on an idle firmware, with part of a line
\* in its buffer or not.
OwnAnswerFromIdle == found = "cmd" => OwnAnswer

\* The session comes to its end.
SessionEnds == <>(client = "raised" \/ step > Len(script))
=============================================================================
