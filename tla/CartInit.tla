------------------------------ MODULE CartInit ------------------------------
(***************************************************************************)
(* The commands that look at a cartridge: init's search for its size, bc,  *)
(* setromsize, r and d1 of menu.c, on the mapper (mapper.c) and the bus    *)
(* (CartIo).  A command runs as a series of bus cycles: access is the one  *)
(* under way, the rest of the command is in stage and what it counts.      *)
(* What the cartridge sees is the address on its pins, not the one asked   *)
(* for.  The chip's commands are FlashCart's; here flash_detect is right.  *)
(***************************************************************************)
EXTENDS CartIo, Sequences

CONSTANTS
    Carts,        \* the cartridges: [banks, flash, mapper]
    BankBytes,    \* bytes read of a bank (16384)
    SearchLimit,  \* where the search for the size ends (64 banks)
    FlashMax,     \* flash_getMaxSize of a chip it does not know, in banks (256)
    RomSizes,     \* the sizes given to setromsize
    ReadFrom      \* the addresses given to r

FF == 255
Powers == {1, 2, 4, 8, 16, 32, 64, 128, 256}

\* A cartridge has a power of two of banks, as many as a byte counts (the chips
\* of 4 MB have them all) and two at most without a mapper; one
\* with fewer shows them again at the banks that follow.  No chip is larger
\* than an unknown one is taken to be, and setromsize refuses zero.
ASSUME CartInitAssumption ==
    /\ BankBytes \in Nat \ {0} /\ BankBytes <= 16384
    /\ SearchLimit \in Powers \ {1} /\ FlashMax \in Nat /\ RomSizes \subseteq Nat \ {0}
    /\ \A c \in Carts : /\ Len(c.banks) \in Powers /\ (~c.mapper => Len(c.banks) <= 2)
                        /\ c.flash \in {"none", "known", "unknown"} /\ Len(c.banks) <= FlashMax
                        /\ \A k \in 1..Len(c.banks) : c.banks[k] \in [1..BankBytes -> 0..FF]

VARIABLES
    cart,         \* the cartridge inserted
    slots, ram,   \* mapper: the bank each slot shows; slot 2 shows RAM
    cmd, stage,   \* the command, and where it is
    queue,        \* bus cycles to do before the stage goes on
    data,         \* what a write puts on the bus
    i, off,       \* init: the bank looked at; offset in a bank, or rom_addr
    bank0, crc,   \* what was read of bank 0 and of bank i: the CRC's input
    s_rom_size, s_flash_size, is_flash_cartridge,
    answer,       \* what bc said last
    fresh, sized  \* init has run since the cartridge changed, and set the size

mapperVars == <<slots, ram>>
loopVars == <<i, off, bank0, crc>>
sizeVars == <<s_rom_size, s_flash_size, is_flash_cartridge, answer, fresh, sized>>
cmdVars == <<cmd, stage, queue, data>>
cartVars == <<cart, mapperVars, loopVars, sizeVars, cmdVars>>

Bus(slot, offset) == 16384 * slot + offset
Banks(c) == Len(c.banks)

-----------------------------------------------------------------------------
(* The cartridge.                                                          *)

Cell(c, bank, offset) == c.banks[(bank % Banks(c)) + 1][offset + 1]

\* What a read at address a returns.
Shown(a) ==
    LET slot == a \div 16384  offset == a % 16384 IN
    IF slot > 2 \/ offset >= BankBytes THEN FF
    ELSE IF ~cart.mapper THEN IF slot < 2 THEN Cell(cart, slot, offset) ELSE FF
    ELSE IF slot = 2 /\ ram THEN 0
    ELSE Cell(cart, slots[slot], offset)

\* The addresses of the mapper's registers.
Control == 65532
Slot(n) == Control + 1 + n

\* What a write with CLK at address a does: the mapper's registers.
Clocked(a, d) ==
    /\ ram' = IF cart.mapper /\ a = Control THEN d = 8 ELSE ram
    /\ slots' = IF cart.mapper /\ a > Control THEN [slots EXCEPT ![a - Slot(0)] = d] ELSE slots

-----------------------------------------------------------------------------
(* Bus cycles.                                                             *)

Read(a) == [op |-> "read", at |-> a, data |-> 0]
Clk(a, d) == [op |-> "clk", at |-> a, data |-> d]
mapper_setSlot(slot, bank) == <<Clk(Slot(slot), bank)>>
mapper_init == <<Clk(Control, 128), Clk(Slot(0), 0), Clk(Slot(1), 1), Clk(Slot(2), 2)>>

CartInitInit ==
    /\ Init
    /\ cart \in Carts /\ slots = [s \in 0..2 |-> s] /\ ram \in BOOLEAN
    /\ cmd = "none" /\ stage = "none" /\ queue = <<>> /\ data = 0
    /\ i = 0 /\ off = 0 /\ bank0 = <<>> /\ crc = <<>>
    /\ s_rom_size = 2 * BankBytes /\ s_flash_size = 0 /\ is_flash_cartridge = FALSE
    /\ answer = "none" /\ fresh = FALSE /\ sized = FALSE

\* The read a stage wants once its queue is empty.
ReadAddress ==
    IF cmd = "init" THEN IF stage = "bank0" THEN off
                         ELSE IF i = 1 THEN Bus(1, off) ELSE Bus(2, off)
    ELSE IF off < 2 * BankBytes THEN Bus(off \div BankBytes, off % BankBytes)
    ELSE Bus(2, off % BankBytes)

NextAccess == IF queue = <<>> THEN Read(ReadAddress) ELSE Head(queue)

\* The program calls cartRead or cartWriteClk.
CallNext ==
    /\ cmd # "none" /\ (queue # <<>> \/ stage # "none")
    /\ Call /\ op' = NextAccess.op /\ wanted' = NextAccess.at
    /\ data' = NextAccess.data
    /\ UNCHANGED <<cart, mapperVars, loopVars, sizeVars, cmd, stage, queue>>

BusStep == /\ setCartAddress \/ Nibbles \/ Select \/ Strobe \/ ClockLow
           /\ UNCHANGED cartVars

-----------------------------------------------------------------------------
(* The commands, from the end of one bus cycle to the next.                *)

\* A cycle that was queued, or whose result nobody looks at.
Queued ==
    /\ queue # <<>> /\ End
    /\ IF op = "clk" THEN Clocked(CartAddress, data) ELSE UNCHANGED mapperVars
    /\ queue' = Tail(queue)
    /\ UNCHANGED <<cart, loopVars, sizeVars, cmd, stage, data>>

\* The read of a stage ends, with what the cartridge shows.
Got(s) == queue = <<>> /\ stage = s /\ End
Byte == Shown(CartAddress)
Goto(s, q) == stage' = s /\ queue' = q

\* Fault: the loops over a bank end one byte late.
LastLate == off = BankBytes

Last == off = BankBytes - 1

\* crc16_cartrange of bank 0, which ends with a look at bank 1.
Bank0 ==
    /\ Got("bank0")
    /\ bank0' = Append(bank0, Byte)
    /\ IF Last THEN i' = 1 /\ off' = 0 /\ Goto("first", <<Read(0)>>)
               ELSE off' = off + 1 /\ UNCHANGED <<i, stage, queue>>
    /\ UNCHANGED <<cart, mapperVars, crc, sizeVars, cmd, data>>

\* The search is over with size n, and init goes on to the flash.
Found(n) ==
    /\ s_rom_size' = n * BankBytes /\ sized' = TRUE /\ fresh' = TRUE
    /\ is_flash_cartridge' = (cart.flash # "none")
    /\ s_flash_size' = CASE cart.flash = "known"   -> Banks(cart) * BankBytes
                         [] cart.flash = "unknown" -> FlashMax * BankBytes
                         [] OTHER                  -> s_flash_size
    /\ answer' = "none" /\ off' = 0
    /\ Goto("none", mapper_init)

\* The next bank of the search, or its end.
NextBank ==
    IF 2 * i < SearchLimit
    THEN i' = 2 * i /\ off' = 0 /\ Goto("first", mapper_setSlot(2, 2 * i)) /\ UNCHANGED sizeVars
    ELSE i' = 2 * i /\ Found(2 * i)

\* Fault: any blank bank ends the search, not only bank 2.
AfterCompareAnyBlank ==
    IF stage # "blank" THEN off' = 0 /\ Goto("blank", <<>>) /\ UNCHANGED <<i, sizeVars>>
    ELSE NextBank

\* What follows when bank i is not bank 0: bank 2 is looked at again.
AfterCompare ==
    IF i = 2 THEN off' = 0 /\ Goto("blank", <<>>) /\ UNCHANGED <<i, sizeVars>>
    ELSE NextBank

First ==
    /\ Got("first")
    /\ crc' = <<>>
    /\ IF Byte = bank0[1] THEN off' = 0 /\ Goto("crc", <<>>) /\ UNCHANGED <<i, sizeVars>>
       ELSE AfterCompare
    /\ UNCHANGED <<cart, mapperVars, bank0, cmd, data>>

\* crc16_cartrange of bank i; two banks of the same CRC are the same.
Crc ==
    /\ Got("crc")
    /\ crc' = Append(crc, Byte)
    /\ IF ~Last THEN off' = off + 1 /\ UNCHANGED <<i, stage, queue, sizeVars>>
       ELSE IF crc' = bank0 THEN Found(i) /\ UNCHANGED i
       ELSE AfterCompare
    /\ UNCHANGED <<cart, mapperVars, bank0, cmd, data>>

\* cartrange_is_all_ff of bank 2.
Blank ==
    /\ Got("blank")
    /\ IF Byte # FF THEN NextBank
       ELSE IF Last THEN Found(i) /\ UNCHANGED i
       ELSE off' = off + 1 /\ UNCHANGED <<i, stage, queue, sizeVars>>
    /\ UNCHANGED <<cart, mapperVars, bank0, crc, cmd, data>>

CheckSize == IF is_flash_cartridge THEN s_flash_size ELSE s_rom_size

\* Fault: slot 2 is believed to show bank 2 when bc gets there.
PageTrusts(n) == IF n > 2 * BankBytes /\ n % BankBytes = 0
                 THEN mapper_setSlot(2, (n \div BankBytes) % 256) ELSE <<>>

\* bc: slot 2 is set when the page changes; a bank is a byte.
Page(n) == IF n >= 2 * BankBytes /\ n % BankBytes = 0
           THEN mapper_setSlot(2, (n \div BankBytes) % 256) ELSE <<>>

Check ==
    /\ Got("check")
    /\ IF Byte # FF THEN answer' = "NO" /\ off' = 0 /\ Goto("none", <<>>)
       ELSE IF off + 1 = CheckSize THEN answer' = "YES" /\ off' = 0 /\ Goto("none", <<>>)
       ELSE off' = off + 1 /\ Goto("check", Page(off + 1)) /\ UNCHANGED answer
    /\ UNCHANGED <<cart, mapperVars, i, bank0, crc, s_rom_size, s_flash_size,
                   is_flash_cartridge, fresh, sized, cmd, data>>

-----------------------------------------------------------------------------
(* The command line.                                                       *)

Idle == cmd = "none" /\ pc = "idle"
Ready == Idle /\ UNCHANGED <<vars, cart, mapperVars, data>>

initCart ==
    /\ Ready
    /\ cmd' = "init"
    /\ Goto("bank0", mapper_init \o <<Read(32752)>> \o mapper_setSlot(2, 0))
    /\ i' = 0 /\ off' = 0 /\ bank0' = <<>> /\ crc' = <<>>
    /\ UNCHANGED sizeVars

cmd_blankcheck ==
    /\ Ready
    /\ cmd' = "bc" /\ Goto("check", mapper_setSlot(0, 0) \o mapper_setSlot(1, 1))
    /\ off' = 0 /\ answer' = "none"
    /\ UNCHANGED <<i, bank0, crc, s_rom_size, s_flash_size, is_flash_cartridge, fresh, sized>>

cmd_setromsize(size) ==
    /\ Ready
    /\ s_rom_size' = size /\ sized' = FALSE /\ answer' = "none"
    /\ UNCHANGED <<loopVars, s_flash_size, is_flash_cartridge, fresh, cmd, stage, queue>>

\* r and d1 read for the user to see; of a row of bytes the first stands for all.
Look(q) ==
    /\ Ready
    /\ cmd' = "look" /\ Goto("none", q)
    /\ UNCHANGED <<loopVars, sizeVars>>

readaddress(a) == Look(<<Read(a)>>)

ShowBank(b) == mapper_setSlot(2, b) \o <<Read(Bus(2, 0))>>
debug1 == Look(mapper_init \o <<Read(Bus(0, 0)), Read(Bus(1, 0))>>
               \o ShowBank(0) \o ShowBank(1) \o ShowBank(2)
               \o ShowBank(3) \o ShowBank(4) \o ShowBank(5))

Done ==
    /\ cmd # "none" /\ stage = "none" /\ queue = <<>> /\ pc = "idle"
    /\ cmd' = "none"
    /\ UNCHANGED <<vars, cart, mapperVars, loopVars, sizeVars, stage, queue, data>>

\* The user changes the cartridge.
Swap(c) ==
    /\ Idle
    /\ cart' = c /\ slots' = [s \in 0..2 |-> s] /\ ram' \in BOOLEAN
    /\ fresh' = FALSE /\ sized' = FALSE /\ answer' = "none"
    /\ UNCHANGED <<vars, loopVars, s_rom_size, s_flash_size, is_flash_cartridge, cmdVars>>

\* The firmware starts again; the cartridge stays as it is.
Reset ==
    /\ Idle /\ resetFirmware
    /\ s_rom_size' = 2 * BankBytes /\ s_flash_size' = 0 /\ is_flash_cartridge' = FALSE
    /\ fresh' = FALSE /\ sized' = FALSE /\ answer' = "none"
    /\ UNCHANGED <<cart, mapperVars, loopVars, cmdVars>>

Command == \/ initCart \/ cmd_blankcheck \/ debug1
           \/ \E n \in RomSizes : cmd_setromsize(n)
           \/ \E a \in ReadFrom : readaddress(a)

CycleEnds == Queued \/ Bank0 \/ First \/ Crc \/ Blank \/ Check

CartNext == \/ Command \/ Done \/ CallNext \/ BusStep \/ CycleEnds \/ Reset
            \/ \E c \in Carts : Swap(c)

CartSpec == CartInitInit /\ [][CartNext]_<<vars, cartVars>>

-----------------------------------------------------------------------------
(* Properties.                                                             *)

\* The program's variables keep their ranges.
CartTypeOK ==
    /\ TypeOK
    /\ cart \in Carts /\ slots \in [0..2 -> 0..FF] /\ ram \in BOOLEAN
    /\ cmd \in {"none", "init", "bc", "look"}
    /\ stage \in {"none", "bank0", "first", "crc", "blank", "check"}
    /\ i \in 0..SearchLimit /\ off \in Nat /\ (cmd = "init" => off < BankBytes)
    /\ Len(bank0) <= BankBytes /\ Len(crc) <= BankBytes
    /\ s_rom_size \in Nat \ {0} /\ s_flash_size \in Nat
    /\ is_flash_cartridge \in BOOLEAN
    /\ answer \in {"none", "YES", "NO"} /\ fresh \in BOOLEAN /\ sized \in BOOLEAN

Visible == IF Banks(cart) < SearchLimit THEN Banks(cart) ELSE SearchLimit
AllFF(bank) == \A o \in 0..(BankBytes - 1) : Cell(cart, bank, o) = FF
SameBank(a, b) == \A o \in 0..(BankBytes - 1) : Cell(cart, a, o) = Cell(cart, b, o)

\* The size init finds, whatever the slots showed before it, is never more
\* than the cartridge has, and is the cartridge's when the banks at the powers
\* of two below it differ from bank 0 and bank 2 is not blank.
SizeRight ==
    sized =>
        /\ s_rom_size <= Visible * BankBytes
        /\ (\A p \in Powers : p < Visible => /\ ~SameBank(p, 0)
                                             /\ p = 2 => ~AllFF(2))
               => s_rom_size = Visible * BankBytes

\* After init, bc says that a flash cartridge is blank exactly if all of it
\* is, whatever r, d1, setromsize or an earlier bc did in between; of another
\* cartridge it speaks for the size set.
Checked == IF is_flash_cartridge THEN Banks(cart) * BankBytes ELSE s_rom_size
CellAt(n) == IF cart.mapper \/ n < 2 * BankBytes
             THEN Cell(cart, n \div BankBytes, n % BankBytes) ELSE FF
BlankRight ==
    fresh /\ answer # "none" =>
        (answer = "YES" <=> \A n \in 0..(Checked - 1) : CellAt(n) = FF)
=============================================================================
