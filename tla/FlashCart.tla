----------------------------- MODULE FlashCart ------------------------------
(***************************************************************************)
(* A cartridge with its mapper and, maybe, a flash chip, under the two     *)
(* flash drivers and the commands that use them: the probes of initCart,   *)
(* chiperase and the programming of a file by uploadXmodem.  A step is one *)
(* bus cycle of CartIo, which carries an address and a byte unharmed.      *)
(*                                                                         *)
(* Addresses are scaled: a bank has BankLen bytes instead of 16384, and    *)
(* the addresses of the commands are the last digits of 555, 2AA and AAA.  *)
(* A byte is the set of its bits that are one.                             *)
(***************************************************************************)
EXTENDS Integers, Sequences

CONSTANTS
    Chips,       \* the kinds of chip a cartridge may hold
    Contents,    \* what it may hold
    Images,      \* files to program, as sequences of bytes
    Banks,       \* banks of a chip
    BankLen,     \* bytes of a bank (16384)
    PktLen       \* bytes of a packet's data (128)

Known == {"mx29f040", "mx29lv320", "s29jl032"}
Byte  == SUBSET (0..7)
Size  == Banks * BankLen
Cells == 0..Size-1

ASSUME FlashAssumption ==
    /\ Chips \subseteq Known \union {"rom"}
    /\ Banks \in {1, 2, 4, 8, 16, 32, 64, 128, 256}  \* a byte counts them
    /\ BankLen \in Nat \ {0} /\ BankLen % 16 = 0
    /\ PktLen \in Nat \ {0} /\ PktLen % 4 = 0 /\ BankLen % PktLen = 0
    /\ \A m \in Contents : m \in [Cells -> Byte]
    /\ \A f \in Images : f \in Seq(Byte) /\ Len(f) % PktLen = 0

x00 == {}
x01 == {0}
x10 == {4}
x50 == {6, 4}
x55 == {6, 4, 2, 0}
x80 == {7}
x90 == {7, 4}
xA0 == {7, 5}
xA4 == {7, 5, 2}
xA7 == {7, 5, 2, 1, 0}
xAA == {7, 5, 3, 1}
xC2 == {7, 6, 1}
xF0 == {7, 6, 5, 4}
xFF == 0..7

VARIABLES
    \* the cartridge
    chip,        \* its kind
    mem,         \* its contents
    state,       \* where the chip's command decoder is
    busy,        \* the cell and the byte under programming
    wren,        \* mapper register FFFC: writes reach the ROM's place
    slot,        \* mapper registers FFFD to FFFF
    \* the firmware
    ops,         \* flash.c
    is_flash,    \* is_flash_cartridge
    got,         \* mem and id of detect, as two bytes each
    file, rom_addr,   \* uploadXmodem's
    pc,          \* where the command under way is
    todo,        \* the bus cycles before its next decision
    job,         \* history: what the driver was called for
    performed    \* history: the chip has done it

cartVars == <<chip, mem, state, busy, wren, slot>>
fwVars   == <<ops, is_flash, got, file, rom_addr, pc, todo>>
vars     == <<cartVars, fwVars, job, performed>>

None == [kind |-> "none"]
NoBytes == [k \in {"mem0", "mem1", "id0", "id1"} |-> x00]

\* The firmware has started; the mapper holds anything.
Init ==
    /\ chip \in Chips /\ mem \in Contents /\ state = "read" /\ busy = <<0, x00>>
    /\ wren \in BOOLEAN /\ slot \in [0..2 -> 0..Banks-1]
    /\ ops = "mx29f040" /\ is_flash = FALSE /\ got = NoBytes
    /\ file = <<>> /\ rom_addr = 0
    /\ pc = "idle" /\ todo = <<>>
    /\ job = None /\ performed = FALSE

-----------------------------------------------------------------------------
(* The chips.  An MX29F040 decodes its commands at 555 and 2AA; the others *)
(* at AAA and 555 in byte mode, where their codes are two bytes apart.     *)

Unlock(kind) == IF kind = "mx29f040" THEN <<5, 2>> ELSE <<10, 5>>
Decoded(kind) == IF kind = "mx29f040" THEN 8 ELSE 16
CodeAt(kind) == IF kind = "mx29f040" THEN <<0, 1>> ELSE <<0, 2>>
Code(kind) == CASE kind = "mx29f040"  -> <<xC2, xA4>>
                [] kind = "mx29lv320" -> <<xC2, xA7>>
                [] kind = "s29jl032"  -> <<x01, x50>>

\* The decoder's next state when byte b is written to address a.
Decode(a, b) ==
    LET first  == a % Decoded(chip) = Unlock(chip)[1]
        second == a % Decoded(chip) = Unlock(chip)[2]
    IN  CASE state \in {"busy", "erasing"}                 -> state
          [] state \in {"read", "code"} /\ first /\ b = xAA -> "unlock1"
          [] state = "code" /\ b # xF0                     -> "code"
          [] state = "unlock1" /\ second /\ b = x55        -> "unlock2"
          [] state = "unlock2" /\ first /\ b = x90         -> "code"
          [] state = "unlock2" /\ first /\ b = xA0         -> "program"
          [] state = "unlock2" /\ first /\ b = x80         -> "erase"
          [] state = "program"                             -> "busy"
          [] state = "erase" /\ first /\ b = xAA           -> "erase1"
          [] state = "erase1" /\ second /\ b = x55         -> "erase2"
          [] state = "erase2" /\ first /\ b = x10          -> "erasing"
          [] OTHER                                         -> "read"

\* What a read of address a returns: bit 7 is complemented while the chip
\* programs, and zero while it erases.
Reads(a) ==
    CASE state = "busy"    -> {7} \ busy[2]
      [] state = "erasing" -> x00
      [] state = "code"    -> IF a % Decoded(chip) = CodeAt(chip)[1] THEN Code(chip)[1]
                              ELSE IF a % Decoded(chip) = CodeAt(chip)[2] THEN Code(chip)[2]
                              ELSE x00
      [] OTHER             -> mem[a]

\* The chip ends what it was doing.
ChipDone ==
    /\ \/ /\ state = "busy"
          /\ mem' = [mem EXCEPT ![busy[1]] = @ \intersect busy[2]]
       \/ /\ state = "erasing"
          /\ mem' = [c \in Cells |-> xFF]
    /\ state' = "read" /\ performed' = TRUE
    /\ UNCHANGED <<chip, busy, wren, slot, fwVars, job>>

\* The chip's address behind the cartridge's address c.
Mapped(c) == (slot[c \div BankLen] * BankLen + (c % BankLen)) % Size

-----------------------------------------------------------------------------
(* Bus cycles.                                                             *)

W(at, byte)  == [op |-> "cartWrite", at |-> at, byte |-> byte]
R(at, to)    == [op |-> "cartRead", at |-> at, to |-> to]
\* mapper_setSlot takes the bank's number as a byte.
Slot(k, bank) == [op |-> "mapper_setSlot", at |-> k, bank |-> bank]
EnableRom    == [op |-> "enable"]

cartWrite(c, b) ==
    /\ IF wren /\ chip # "rom"
       THEN /\ state' = Decode(Mapped(c), b)
            /\ busy' = IF state = "program" THEN <<Mapped(c), b>> ELSE busy
       ELSE UNCHANGED <<state, busy>>
    /\ UNCHANGED <<wren, slot, got>>

\* A straight line of code is performed cycle by cycle.
Bus ==
    /\ todo # <<>> /\ todo' = Tail(todo)
    /\ LET t == Head(todo)
       IN  \/ t.op = "cartWrite" /\ cartWrite(t.at, t.byte)
           \/ /\ t.op = "cartRead"
              /\ got' = [got EXCEPT ![t.to] = Reads(Mapped(t.at))]
              /\ UNCHANGED <<state, busy, wren, slot>>
           \/ /\ t.op = "mapper_setSlot"
              /\ slot' = [slot EXCEPT ![t.at] = (t.bank % 256) % Banks]
              /\ UNCHANGED <<state, busy, wren, got>>
           \/ t.op = "enable" /\ wren' = TRUE /\ UNCHANGED <<state, busy, slot, got>>
    /\ UNCHANGED <<chip, mem, ops, is_flash, file, rom_addr, pc, job, performed>>

\* mapper_init.
mapper_init == <<EnableRom, Slot(0, 0), Slot(1, 1), Slot(2, 2)>>

(* The drivers, flash_29f040.c and flash_29lv320.c.                        *)

Start(dr) == <<W(Unlock(dr)[1], xAA), W(Unlock(dr)[2], x55)>>
Command(dr, code) == Start(dr) \o <<W(Unlock(dr)[1], code)>>

\* Fault: the chip is not put back to reading.
readSiliconIDStays(dr) ==
    Command(dr, x90) \o <<R(CodeAt(dr)[1], "id0"), R(CodeAt(dr)[2], "id1")>>

readSiliconID(dr) ==
    Command(dr, x90) \o <<R(CodeAt(dr)[1], "id0"), R(CodeAt(dr)[2], "id1"), W(0, xF0)>>

detect(dr) ==
    <<R(CodeAt(dr)[1], "mem0"), R(CodeAt(dr)[2], "mem1")>> \o readSiliconID(dr)

\* Fault: the second half of the sequence is not unlocked.
chipEraseShort(dr) == Command(dr, x80) \o <<W(Unlock(dr)[1], x10)>>

chipErase(dr) == Command(dr, x80) \o Command(dr, x10)

programByte(dr, c, b) == Command(dr, xA0) \o <<W(c, b)>>

-----------------------------------------------------------------------------
(* The commands.                                                           *)

Quiet == UNCHANGED <<cartVars, performed>>

\* initCart: the mapper, then flash_init's probe.
initCart ==
    /\ pc = "idle"
    /\ todo' = mapper_init \o readSiliconID("mx29lv320")
    /\ pc' = "probed"
    /\ Quiet /\ UNCHANGED <<ops, is_flash, got, file, rom_addr, job>>

\* Fault: one of the codes is forgotten.
flash_initMacronix ==
    /\ pc = "probed" /\ todo = <<>>
    /\ ops' = IF <<got["id0"], got["id1"]>> = <<xC2, xA7>> THEN "mx29lv320" ELSE "mx29f040"
    /\ \E b \in 0..Banks-1 : todo' = <<Slot(2, b)>> \o detect(ops')
    /\ pc' = "detect"
    /\ Quiet /\ UNCHANGED <<is_flash, got, file, rom_addr, job>>

\* flash_init chooses the driver by the code; the search for the size then
\* leaves some bank in slot 2.
flash_init ==
    /\ pc = "probed" /\ todo = <<>>
    /\ ops' = IF <<got["id0"], got["id1"]>> \in {<<xC2, xA7>>, <<x01, x50>>}
              THEN "mx29lv320" ELSE "mx29f040"
    /\ \E b \in 0..Banks-1 : todo' = <<Slot(2, b)>> \o detect(ops')
    /\ pc' = "detect"
    /\ Quiet /\ UNCHANGED <<is_flash, got, file, rom_addr, job>>

\* flash_detect compares; the mapper is initialised again.
flash_detect ==
    /\ pc = "detect" /\ todo = <<>>
    /\ is_flash' = (<<got["id0"], got["id1"]>> # <<got["mem0"], got["mem1"]>>)
    /\ todo' = (IF is_flash' THEN readSiliconID(ops) ELSE <<>>) \o mapper_init
    /\ got' = NoBytes
    /\ pc' = "initialised"
    /\ Quiet /\ UNCHANGED <<ops, file, rom_addr, job>>

\* info: the driver in use looks again; no mapper is initialised for it.
cmd_info ==
    /\ pc = "idle"
    /\ todo' = detect(ops)
    /\ pc' = "info"
    /\ Quiet /\ UNCHANGED <<ops, is_flash, got, file, rom_addr, job>>

InfoShown ==
    /\ pc = "info" /\ todo = <<>>
    /\ todo' = IF <<got["id0"], got["id1"]>> # <<got["mem0"], got["mem1"]>>
               THEN readSiliconID(ops) ELSE <<>>
    /\ pc' = "shown"
    /\ Quiet /\ UNCHANGED <<ops, is_flash, got, file, rom_addr, job>>

\* m1: the large chips' probe, whatever the chip.
debug_m1 ==
    /\ pc = "idle"
    /\ todo' = mapper_init \o readSiliconID("mx29lv320")
    /\ pc' = "shown"
    /\ Quiet /\ UNCHANGED <<ops, is_flash, got, file, rom_addr, job>>

\* The firmware's variables start again; the cartridge stays as it is.
resetFirmware ==
    /\ pc = "idle"
    /\ ops' = "mx29f040" /\ is_flash' = FALSE
    /\ Quiet /\ UNCHANGED <<got, file, rom_addr, pc, todo, job>>

Done ==
    /\ pc \in {"initialised", "erased", "shown"} /\ todo = <<>>
    /\ pc' = "idle" /\ got' = NoBytes
    /\ Quiet /\ UNCHANGED <<ops, is_flash, file, rom_addr, todo, job>>

chiperase ==
    /\ pc = "idle"
    /\ todo' = chipErase(ops)
    /\ pc' = "pollErase" /\ job' = [kind |-> "erase"] /\ performed' = FALSE
    /\ UNCHANGED <<cartVars, ops, is_flash, got, file, rom_addr>>

\* Polling bit 7 of address 0, until it is one.
PollErase ==
    /\ pc = "pollErase" /\ todo = <<>>
    /\ 7 \in Reads(Mapped(0))
    /\ todo' = <<W(0, xF0)>> /\ pc' = "erased" /\ job' = None
    /\ Quiet /\ UNCHANGED <<ops, is_flash, got, file, rom_addr>>

\* Fault: the address goes on from the last file's.
uxContinues ==
    /\ pc = "idle"
    /\ file' \in Images /\ pc' = "packet"
    /\ Quiet /\ UNCHANGED <<ops, is_flash, got, rom_addr, todo, job>>

\* ux: a file arrives, packet by packet.
ux ==
    /\ pc = "idle"
    /\ file' \in Images /\ rom_addr' = 0 /\ pc' = "packet"
    /\ Quiet /\ UNCHANGED <<ops, is_flash, got, todo, job>>

\* Fault: a packet's bank is not selected.
PacketAnywhere ==
    /\ pc = "packet"
    /\ IF rom_addr < Len(file)
       THEN pc' = "byte" /\ UNCHANGED <<todo, file>>
       ELSE pc' = "idle" /\ file' = <<>> /\ UNCHANGED todo
    /\ Quiet /\ UNCHANGED <<ops, is_flash, got, rom_addr, job>>

\* Its bank is shown in slot 2; after the last one the command ends.
Packet ==
    /\ pc = "packet"
    /\ IF rom_addr < Len(file)
       THEN pc' = "byte" /\ todo' = <<Slot(2, rom_addr \div BankLen)>> /\ UNCHANGED file
       ELSE pc' = "idle" /\ file' = <<>> /\ UNCHANGED todo
    /\ Quiet /\ UNCHANGED <<ops, is_flash, got, rom_addr, job>>

cartAddr == 2 * BankLen + (rom_addr % BankLen)
Data     == file[rom_addr + 1]

\* programBytes, one byte.
programBytes ==
    /\ pc = "byte" /\ todo = <<>>
    /\ todo' = programByte(ops, cartAddr, Data)
    /\ pc' = "pollByte" /\ performed' = FALSE
    /\ job' = [kind |-> "program", at |-> rom_addr % Size, byte |-> Data]
    /\ UNCHANGED <<cartVars, ops, is_flash, got, file, rom_addr>>

\* Polling bit 7 until it is the byte's.
PollByte ==
    /\ pc = "pollByte" /\ todo = <<>>
    /\ 7 \in Reads(Mapped(cartAddr)) <=> 7 \in Data
    /\ rom_addr' = rom_addr + 1 /\ job' = None
    /\ pc' = IF rom_addr' % PktLen = 0 THEN "packet" ELSE "byte"
    /\ Quiet /\ UNCHANGED <<ops, is_flash, got, file, todo>>

Firmware == \/ Bus \/ initCart \/ flash_init \/ flash_detect \/ Done \/ chiperase
            \/ cmd_info \/ InfoShown \/ debug_m1 \/ resetFirmware \/ PollErase \/ ux \/ Packet \/ programBytes \/ PollByte

Next == Firmware \/ ChipDone

Spec == Init /\ [][Next]_vars

\* The processor runs, and a chip ends what it does.
FairSpec == Spec /\ WF_vars(Firmware /\ pc # "idle") /\ WF_vars(ChipDone)

-----------------------------------------------------------------------------
(* Properties.                                                             *)

TypeOK ==
    /\ mem \in [Cells -> Byte] /\ busy \in Cells \X Byte
    /\ state \in {"read", "unlock1", "unlock2", "code", "program", "busy",
                  "erase", "erase1", "erase2", "erasing"}
    /\ wren \in BOOLEAN /\ slot \in [0..2 -> 0..Banks-1]
    /\ ops \in {"mx29f040", "mx29lv320"} /\ is_flash \in BOOLEAN
    /\ got \in [DOMAIN NoBytes -> Byte]
    /\ rom_addr \in 0..Len(file) \/ file = <<>>

\* The contents show a known chip's code where a driver reads it.
Mimics == \E k \in Known : mem[CodeAt(k)[1]] = Code(k)[1] /\ mem[CodeAt(k)[2]] = Code(k)[2]

\* When flash_detect compares, what it read tells a flash chip from a ROM,
\* unless the chip holds a code of its own; the probes with the other driver's
\* addresses do not disturb a chip.  info agrees with the init before it,
\* whatever was done to the contents since, and never takes a ROM for a chip.
DetectionRight ==
    pc \in {"detect", "info"} /\ todo = <<>>
        => LET differ == <<got["id0"], got["id1"]>> # <<got["mem0"], got["mem1"]>>
           IN  /\ differ => chip # "rom"
               /\ (IF pc = "info" THEN is_flash ELSE chip # "rom") /\ ~Mimics => differ

\* Between commands a detected cartridge reads as memory.
ReadMode == pc = "idle" /\ is_flash => state = "read"

\* Erasing and programming do to the contents what FlashStore says, for either
\* driver and across banks: the right cell, no other, no sooner and no later.
Store == INSTANCE FlashStore WITH Cell <- Cells, detected <- is_flash
StoreSpec == Store!Spec

\* A byte that needs a one where the chip has a zero.
Unprogrammable == job.kind = "program" /\ 7 \in job.byte \ mem[job.at]

\* On a detected cartridge each command ends, as long as no byte is programmed
\* over another one that it does not fit.
CommandsReturn == is_flash /\ pc # "idle" ~> pc = "idle" \/ Unprogrammable
=============================================================================
