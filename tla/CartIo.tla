------------------------------- MODULE CartIo -------------------------------
(***************************************************************************)
(* The cartridge bus: cartio.c and the CPLD that extends its address.  An  *)
(* address goes to the CPLD as four nibbles, each latched by a pulse of    *)
(* LE, unless it is the address latched last, which is not sent again.     *)
(* The cartridge sees the CPLD's latches, the data port and the strobes.   *)
(***************************************************************************)
EXTENDS Integers

CONSTANTS
    Address,     \* the addresses the callers use
    Power        \* the latches' contents at power-on

ASSUME CartIoAssumption ==
    /\ Address \subseteq {a \in Nat : a < 65536}
    /\ Power \subseteq [0..3 -> 0..15] /\ Power # {}

VARIABLES
    s_first, s_cur_address,   \* cartio.c
    latch,       \* the CPLD's registers A, B, C, D
    pc,          \* where the caller is
    op,          \* "read", "write", or "clk" for cartWriteClk
    wanted,      \* the address asked for
    addr,        \* setCartAddress's argument, shifted as it goes
    low,         \* the strobes that are low, CLK when it is high
    ddrb         \* TRUE: the data port drives the bus

cVars == <<s_first, s_cur_address>>
vars  == <<cVars, latch, pc, op, wanted, addr, low, ddrb>>

\* hwinit; the CPLD holds anything, as it does after resetFirmware, which
\* initialises cartio.c's variables again and leaves the CPLD alone.
Init ==
    /\ s_first = TRUE /\ s_cur_address = 0
    /\ latch \in Power
    /\ pc = "idle" /\ op = "read" /\ wanted = 0 /\ addr = 0
    /\ low = {} /\ ddrb = FALSE

-----------------------------------------------------------------------------

\* The address on the cartridge's pins.
CartAddress == latch[0] + 16 * latch[1] + 256 * latch[2] + 4096 * latch[3]

\* Fault: a zero-initialised s_cur_address stands for no address.
setCartAddressTrusts ==
    /\ pc = "address"
    /\ IF wanted = s_cur_address
       THEN pc' = "select" /\ UNCHANGED <<cVars, addr>>
       ELSE /\ s_first' = FALSE
            /\ s_cur_address' = wanted
            /\ addr' = wanted
            /\ pc' = "nibble0"
    /\ UNCHANGED <<latch, op, wanted, low, ddrb>>

\* setCartAddress, up to the first nibble.
setCartAddress ==
    /\ pc = "address"
    /\ IF ~s_first /\ wanted = s_cur_address
       THEN pc' = "select" /\ UNCHANGED <<cVars, addr>>
       ELSE /\ s_first' = FALSE
            /\ s_cur_address' = wanted
            /\ addr' = wanted
            /\ pc' = "nibble0"
    /\ UNCHANGED <<latch, op, wanted, low, ddrb>>

\* A pulse of LE: the register chosen by REG0 and REG1 latches the nibble.
Latch(reg, at, next) ==
    /\ pc = at
    /\ latch' = [latch EXCEPT ![reg] = addr % 16]
    /\ addr' = IF reg = 3 THEN addr ELSE addr \div 16
    /\ pc' = next
    /\ UNCHANGED <<cVars, op, wanted, low, ddrb>>

Nibbles == \/ Latch(0, "nibble0", "nibble1") \/ Latch(1, "nibble1", "nibble2")
           \/ Latch(2, "nibble2", "nibble3") \/ Latch(3, "nibble3", "select")

\* A caller starts a bus cycle.
Call ==
    /\ pc = "idle"
    /\ op' \in {"read", "write", "clk"}
    /\ wanted' \in Address
    /\ pc' = "address"
    /\ UNCHANGED <<cVars, latch, addr, low, ddrb>>

\* The data port is driven or left to the cartridge, before CE goes low.
Select ==
    /\ pc = "select"
    /\ low' = {"CE"}
    /\ ddrb' = (op # "read")
    /\ pc' = "strobe"
    /\ UNCHANGED <<cVars, latch, op, wanted, addr>>

\* RD or WR goes low; cartWriteClk also pulses CLK.
Strobe ==
    /\ pc = "strobe"
    /\ low' = low \union {IF op = "read" THEN "RD" ELSE "WR"}
                  \union (IF op = "clk" THEN {"CLK"} ELSE {})
    /\ pc' = IF op = "clk" THEN "clocked" ELSE "end"
    /\ UNCHANGED <<cVars, latch, op, wanted, addr, ddrb>>

ClockLow ==
    /\ pc = "clocked"
    /\ low' = low \ {"CLK"}
    /\ pc' = "end"
    /\ UNCHANGED <<cVars, latch, op, wanted, addr, ddrb>>

\* Fault: the cartridge stays selected between cycles.
EndSelected ==
    /\ pc = "end"
    /\ low' = {"CE"} /\ ddrb' = FALSE
    /\ pc' = "idle"
    /\ UNCHANGED <<cVars, latch, op, wanted, addr>>

\* The strobes go high again, and the port floats.
End ==
    /\ pc = "end"
    /\ low' = {} /\ ddrb' = FALSE
    /\ pc' = "idle"
    /\ UNCHANGED <<cVars, latch, op, wanted, addr>>

\* resetFirmware, main's start-up code and hwinit: the variables start again,
\* the CPLD does not.
resetFirmware ==
    /\ pc = "idle"
    /\ s_first' = TRUE /\ s_cur_address' = 0
    /\ low' = {} /\ ddrb' = FALSE
    /\ UNCHANGED <<latch, pc, op, wanted, addr>>

Next == \/ Call \/ setCartAddress \/ Nibbles \/ Select \/ Strobe \/ ClockLow
        \/ End \/ resetFirmware

Spec == Init /\ [][Next]_vars

-----------------------------------------------------------------------------
(* Properties.                                                             *)

Pcs == {"idle", "address", "nibble0", "nibble1", "nibble2", "nibble3",
        "select", "strobe", "clocked", "end"}

TypeOK ==
    /\ s_first \in BOOLEAN /\ s_cur_address \in Nat /\ s_cur_address < 65536
    /\ latch \in [0..3 -> 0..15]
    /\ pc \in Pcs /\ op \in {"read", "write", "clk"}
    /\ wanted \in Nat /\ wanted < 65536
    /\ addr \in Nat /\ addr < 65536
    /\ low \subseteq {"CE", "RD", "WR", "CLK"}
    /\ ddrb \in BOOLEAN

\* Whenever the cartridge is selected it sees the address asked for, whether
\* setCartAddress sent it for this cycle or believed it latched already, and
\* whatever a reset of the firmware left in the CPLD.
Addressed == "CE" \in low => CartAddress = wanted

\* The address does not move under a selected cartridge, which would write or
\* latch elsewhere.
HeldAddress == [][("CE" \in low \/ "CE" \in low') => UNCHANGED CartAddress]_vars
=============================================================================
