--------------------------- MODULE CartInitProofs ---------------------------
(***************************************************************************)
(* Proofs about the cartridge: about its bus, for every set of addresses   *)
(* and whatever the latches hold at power-on; and about the commands on a  *)
(* cartridge, for every set of cartridges and every size of a bank.  All   *)
(* they do is a sequence of whole bus cycles, so that what is proved of    *)
(* the bus holds under them.                                               *)
(***************************************************************************)
EXTENDS CartInit, SequenceTheorems, TLAPS


(***************************************************************************)
(* Splitting off a nibble loses nothing and what is left of the address    *)
(* keeps its bound.                                                        *)
(***************************************************************************)
LEMMA Nibble ==
    ASSUME NEW a \in Nat
    PROVE  /\ a % 16 \in 0..15 /\ a \div 16 \in Nat
           /\ a = (a % 16) + 16 * (a \div 16)
           /\ a \div 16 <= a
  BY SMT

(***************************************************************************)
(* Every variable keeps its range; a latch holds a nibble.                 *)
(***************************************************************************)
LEMMA InitTypeOK == Init => TypeOK
<1> SUFFICES ASSUME Init PROVE TypeOK
  OBVIOUS
<1>1. latch \in [0..3 -> 0..15]
  BY CartIoAssumption DEF Init
<1>2. s_first \in BOOLEAN /\ ddrb \in BOOLEAN /\ low \subseteq {"CE", "RD", "WR", "CLK"}
  BY Zenon DEF Init
<1> QED
  BY <1>1, <1>2 DEF Init, TypeOK, Pcs

LEMMA LatchTypeOK ==
    ASSUME TypeOK, NEW reg \in 0..3, NEW at, NEW next \in Pcs, Latch(reg, at, next)
    PROVE  TypeOK'
<1>1. addr % 16 \in 0..15 /\ addr \div 16 \in Nat /\ addr \div 16 <= addr
  BY Nibble DEF TypeOK
<1>2. latch' \in [0..3 -> 0..15]
  BY <1>1 DEF TypeOK, Latch
<1>3. addr' \in Nat /\ addr' < 65536
  BY <1>1 DEF TypeOK, Latch
<1> QED
  BY <1>2, <1>3 DEF TypeOK, Latch, cVars

LEMMA StepTypeOK == TypeOK /\ [Next]_vars => TypeOK'
<1> SUFFICES ASSUME TypeOK, [Next]_vars PROVE TypeOK'
  OBVIOUS
<1>1. CASE Call
  <2>1. wanted' \in Nat /\ wanted' < 65536
    BY <1>1, CartIoAssumption DEF Call
  <2> QED
    BY <1>1, <2>1 DEF Call, TypeOK, Pcs, cVars
<1>2. CASE setCartAddress
  <2>1. s_first' = s_first \/ s_first' = FALSE
    BY <1>2 DEF setCartAddress, cVars
  <2>2. s_first \in BOOLEAN
    BY DEF TypeOK
  <2>3. ASSUME s_first' = s_first PROVE s_first' \in BOOLEAN
    BY <2>2, <2>3, SMT
  <2>4. ASSUME s_first' = FALSE PROVE s_first' \in BOOLEAN
    BY <2>4, Zenon
  <2>5. s_first' \in BOOLEAN
    BY <2>1, <2>3, <2>4
  <2> QED
    BY <1>2, <2>5 DEF setCartAddress, TypeOK, Pcs, cVars
<1>3. CASE Nibbles
  BY <1>3, LatchTypeOK DEF Nibbles, Pcs
<1>4. CASE Select
  BY <1>4 DEF Select, TypeOK, Pcs, cVars
<1>5. CASE Strobe
  BY <1>5 DEF Strobe, TypeOK, Pcs, cVars
<1>6. CASE ClockLow
  BY <1>6 DEF ClockLow, TypeOK, Pcs, cVars
<1>7. CASE End
  <2>1. ddrb' \in BOOLEAN /\ low' \subseteq {"CE", "RD", "WR", "CLK"}
    BY <1>7, Zenon DEF End
  <2> QED
    BY <1>7, <2>1 DEF End, TypeOK, Pcs, cVars
<1>8. CASE resetFirmware
  <2>1. /\ s_first' \in BOOLEAN /\ ddrb' \in BOOLEAN
        /\ low' \subseteq {"CE", "RD", "WR", "CLK"}
    BY <1>8, Zenon DEF resetFirmware
  <2> QED
    BY <1>8, <2>1 DEF resetFirmware, TypeOK, Pcs, cVars
<1>9. CASE UNCHANGED vars
  BY <1>9 DEF vars, cVars, TypeOK
<1> QED
  BY <1>1, <1>2, <1>3, <1>4, <1>5, <1>6, <1>7, <1>8, <1>9 DEF Next

\* The types of the bus hold in every state, for every set of addresses:
\* setCartAddress never latches more than a nibble.
THEOREM TypeCorrect == Spec => []TypeOK
  BY InitTypeOK, StepTypeOK, PTL DEF Spec

-----------------------------------------------------------------------------
(***************************************************************************)
(* The strengthening.  While the nibbles go out, those latched and what is *)
(* left of addr make up the address asked for; otherwise s_cur_address is  *)
(* what the latches hold, unless s_first says that nothing is known.       *)
(***************************************************************************)
Sending == pc \in {"nibble0", "nibble1", "nibble2", "nibble3"}
Cycling == pc \in {"select", "strobe", "clocked", "end"}

Progress ==
    /\ pc = "nibble0" => wanted = addr
    /\ pc = "nibble1" => wanted = latch[0] + 16 * addr
    /\ pc = "nibble2" => wanted = latch[0] + 16 * latch[1] + 256 * addr
    /\ pc = "nibble3" => wanted = latch[0] + 16 * latch[1] + 256 * latch[2] + 4096 * addr

Cached   == ~Sending /\ ~s_first => CartAddress = s_cur_address
Current  == Sending \/ Cycling => ~s_first /\ s_cur_address = wanted
Selected == "CE" \in low => pc \in {"strobe", "clocked", "end"}

BusInv == TypeOK /\ Progress /\ Cached /\ Current /\ Selected

LEMMA InitBusInv == Init => BusInv
<1> SUFFICES ASSUME Init PROVE BusInv
  OBVIOUS
<1>1. TypeOK
  BY InitTypeOK
<1>2. Progress /\ Cached /\ Current /\ Selected
  BY DEF Init, Progress, Cached, Current, Selected, Sending, Cycling
<1> QED
  BY <1>1, <1>2 DEF BusInv

\* A step that leaves the latches, the cache and wanted alone disturbs only
\* what depends on where the caller is.
LEMMA QuietStep ==
    ASSUME BusInv, TypeOK', ~Sending, ~Sending',
           UNCHANGED <<s_first, s_cur_address, latch>>,
           Cycling' => Cycling /\ UNCHANGED wanted, Selected'
    PROVE  BusInv'
<1>1. Progress'
  BY DEF Progress, Sending
<1>2. Cached'
  BY DEF BusInv, Cached, CartAddress
<1>3. Current'
  BY DEF BusInv, Current
<1> QED
  BY <1>1, <1>2, <1>3 DEF BusInv

LEMMA SendStep ==
    ASSUME BusInv, TypeOK', setCartAddress
    PROVE  BusInv'
<1>1. CASE ~s_first /\ wanted = s_cur_address
  <2>1. /\ pc = "address" /\ pc' = "select"
        /\ UNCHANGED <<s_first, s_cur_address, latch, wanted, low>>
    BY <1>1 DEF setCartAddress, cVars
  <2>2. Progress' /\ Selected'
    BY <2>1 DEF Progress, BusInv, Selected
  <2>3. Cached'
    BY <2>1 DEF Cached, BusInv, CartAddress, Sending
  <2>4. Current'
    BY <1>1, <2>1 DEF Current
  <2> QED
    BY <2>2, <2>3, <2>4 DEF BusInv
<1>2. CASE ~(~s_first /\ wanted = s_cur_address)
  <2>1. /\ pc = "address" /\ pc' = "nibble0" /\ ~s_first' /\ s_cur_address' = wanted
        /\ addr' = wanted /\ UNCHANGED <<latch, wanted, low>>
    BY <1>2 DEF setCartAddress, cVars
  <2>2. Progress' /\ Cached' /\ Current' /\ Selected'
    BY <2>1 DEF Progress, Cached, Current, Selected, Sending, BusInv
  <2> QED
    BY <2>2 DEF BusInv
<1> QED
  BY <1>1, <1>2

\* Each nibble latched moves from addr to its register.
LEMMA NibbleStep ==
    ASSUME BusInv, TypeOK', Nibbles
    PROVE  BusInv'
<1>1. /\ addr \in Nat /\ wanted \in Nat /\ wanted < 65536
      /\ addr' = IF pc = "nibble3" THEN addr ELSE addr \div 16
      /\ UNCHANGED <<s_first, s_cur_address, wanted, low>>
      /\ Sending
  BY DEF BusInv, TypeOK, Nibbles, Latch, cVars, Sending
<1>2. addr % 16 \in 0..15 /\ addr \div 16 \in Nat /\ addr = (addr % 16) + 16 * (addr \div 16)
  BY <1>1, Nibble
<1>3. latch \in [0..3 -> 0..15]
  BY DEF BusInv, TypeOK
<1>4. ~s_first' /\ s_cur_address' = wanted'
  BY <1>1 DEF BusInv, Current
<1>5. "CE" \notin low'
  BY <1>1 DEF BusInv, Selected, Sending
<1>6. Selected' /\ Current'
  BY <1>4, <1>5 DEF Selected, Current
<1>7. Progress
  BY DEF BusInv
<1>8. CASE Latch(0, "nibble0", "nibble1")
  <2>1. latch'[0] = addr % 16 /\ pc' = "nibble1" /\ wanted = addr /\ addr' = addr \div 16
    BY <1>1, <1>3, <1>7, <1>8 DEF Latch, Progress
  <2>2. Progress' /\ Cached'
    BY <2>1, <1>1, <1>2 DEF Progress, Cached, Sending
  <2> QED
    BY <2>2, <1>6 DEF BusInv
<1>9. CASE Latch(1, "nibble1", "nibble2")
  <2>1. /\ latch'[0] = latch[0] /\ latch'[1] = addr % 16 /\ pc' = "nibble2"
        /\ wanted = latch[0] + 16 * addr /\ addr' = addr \div 16
        /\ latch[0] \in Nat
    BY <1>1, <1>3, <1>7, <1>9 DEF Latch, Progress
  <2>2. wanted = latch[0] + 16 * (addr % 16) + 256 * (addr \div 16)
    BY <2>1, <1>2
  <2>3. Progress' /\ Cached'
    BY <2>1, <2>2, <1>1 DEF Progress, Cached, Sending
  <2> QED
    BY <2>3, <1>6 DEF BusInv
<1>10. CASE Latch(2, "nibble2", "nibble3")
  <2>1. /\ latch'[0] = latch[0] /\ latch'[1] = latch[1] /\ latch'[2] = addr % 16
        /\ pc' = "nibble3" /\ addr' = addr \div 16
        /\ wanted = latch[0] + 16 * latch[1] + 256 * addr
        /\ latch[0] \in Nat /\ latch[1] \in Nat
    BY <1>1, <1>3, <1>7, <1>10 DEF Latch, Progress
  <2>2. wanted = latch[0] + 16 * latch[1] + 256 * (addr % 16) + 4096 * (addr \div 16)
    BY <2>1, <1>2
  <2>3. Progress' /\ Cached'
    BY <2>1, <2>2, <1>1 DEF Progress, Cached, Sending
  <2> QED
    BY <2>3, <1>6 DEF BusInv
<1>11. CASE Latch(3, "nibble3", "select")
  <2>1. /\ latch'[0] = latch[0] /\ latch'[1] = latch[1] /\ latch'[2] = latch[2]
        /\ latch'[3] = addr % 16 /\ pc' = "select"
        /\ wanted = latch[0] + 16 * latch[1] + 256 * latch[2] + 4096 * addr
        /\ latch[0] \in Nat /\ latch[1] \in Nat /\ latch[2] \in Nat
    BY <1>1, <1>3, <1>7, <1>11 DEF Latch, Progress
  <2>2. addr < 16
    BY <2>1, <1>1
  <2>3. addr % 16 = addr
    BY <2>2, <1>1
  <2>4. CartAddress' = wanted'
    BY <2>1, <2>3, <1>1 DEF CartAddress
  <2>5. Progress' /\ Cached'
    BY <2>1, <2>4, <1>4 DEF Progress, Cached
  <2> QED
    BY <2>5, <1>6 DEF BusInv
<1> QED
  BY <1>8, <1>9, <1>10, <1>11 DEF Nibbles

LEMMA StepBusInv == BusInv /\ [Next]_vars => BusInv'
<1> SUFFICES ASSUME BusInv, [Next]_vars PROVE BusInv'
  OBVIOUS
<1>1. TypeOK'
  BY StepTypeOK DEF BusInv
<1>2. Selected
  BY DEF BusInv
<1>3. CASE Call
  <2>1. Selected'
    BY <1>2, <1>3 DEF Call, Selected
  <2> QED
    BY <1>1, <1>3, <2>1, QuietStep DEF Call, Sending, Cycling, cVars
<1>4. CASE setCartAddress
  BY <1>1, <1>4, SendStep
<1>5. CASE Nibbles
  BY <1>1, <1>5, NibbleStep
<1>6. CASE Select
  <2>1. Selected'
    BY <1>6 DEF Select, Selected
  <2> QED
    BY <1>1, <1>6, <2>1, QuietStep DEF Select, Sending, Cycling, cVars
<1>7. CASE Strobe
  <2>1. Selected'
    BY <1>7 DEF Strobe, Selected
  <2> QED
    BY <1>1, <1>7, <2>1, QuietStep DEF Strobe, Sending, Cycling, cVars
<1>8. CASE ClockLow
  <2>1. Selected'
    BY <1>8 DEF ClockLow, Selected
  <2> QED
    BY <1>1, <1>8, <2>1, QuietStep DEF ClockLow, Sending, Cycling, cVars
<1>9. CASE End
  <2>1. Selected'
    BY <1>9 DEF End, Selected
  <2> QED
    BY <1>1, <1>9, <2>1, QuietStep DEF End, Sending, Cycling, cVars
<1>10. CASE resetFirmware
  BY <1>1, <1>10
  DEF resetFirmware, BusInv, Progress, Cached, Current, Selected, Sending, Cycling
<1>11. CASE UNCHANGED vars
  BY <1>11 DEF vars, cVars, BusInv, TypeOK, Progress, Cached, Current, Selected,
               Sending, Cycling, CartAddress
<1> QED
  BY <1>3, <1>4, <1>5, <1>6, <1>7, <1>8, <1>9, <1>10, <1>11 DEF Next

\* The cache, the latches and the address on its way to them agree in every
\* state.
THEOREM BusInvariant == Spec => []BusInv
  BY InitBusInv, StepBusInv, PTL DEF Spec

\* The cache never lies: for all 65536 addresses, in any order, and across
\* resets, the selected cartridge sees the address asked for.
THEOREM AlwaysAddressed == Spec => []Addressed
<1>1. BusInv => Addressed
  BY DEF BusInv, Selected, Cached, Current, Sending, Cycling, Addressed
<1> QED
  BY <1>1, BusInvariant, PTL

\* The address is stable as long as the cartridge is selected, up to and
\* including the edges of CE.
THEOREM AddressHeld == Spec => HeldAddress
<1>1. BusInv /\ [Next]_vars
        => [("CE" \in low \/ "CE" \in low') => UNCHANGED CartAddress]_vars
  <2> SUFFICES ASSUME BusInv, Next, "CE" \in low \/ "CE" \in low'
               PROVE  CartAddress' = CartAddress
    BY DEF HeldAddress
  <2>1. latch' = latch
    BY DEF BusInv, Selected, Next, Call, setCartAddress, Nibbles, Latch, Select,
           Strobe, ClockLow, End, resetFirmware
  <2> QED
    BY <2>1 DEF CartAddress
<1> QED
  BY <1>1, BusInvariant, PTL DEF Spec, HeldAddress

-----------------------------------------------------------------------------

(***************************************************************************)
(* A step of a command is a step of the bus, or leaves it alone.           *)
(***************************************************************************)
LEMMA CommandStep == [CartNext]_<<vars, cartVars>> => [Next]_vars
<1> SUFFICES ASSUME [CartNext]_<<vars, cartVars>> PROVE [Next]_vars
  OBVIOUS
<1>1. CASE Command
  <2>1. Ready => UNCHANGED vars
    BY DEF Ready
  <2>2. ASSUME NEW n \in RomSizes, cmd_setromsize(n) PROVE Ready
    BY <2>2 DEF cmd_setromsize
  <2>3. ASSUME NEW a \in ReadFrom, readaddress(a) PROVE Ready
    BY <2>3 DEF readaddress, Look
  <2>4. initCart \/ cmd_blankcheck \/ debug1 => Ready
    BY DEF initCart, cmd_blankcheck, debug1, Look
  <2> QED
    BY <1>1, <2>1, <2>2, <2>3, <2>4 DEF Command
<1>2. CASE Done
  BY <1>2 DEF Done
<1>3. CASE CallNext
  BY <1>3 DEF CallNext, Next
<1>4. CASE BusStep
  BY <1>4 DEF BusStep, Next
<1>5. CASE CycleEnds
  BY <1>5 DEF CycleEnds, Queued, Bank0, First, Crc, Blank, Check, Got, Next
<1>6. CASE Reset
  BY <1>6 DEF Reset, Next
<1>7. ASSUME NEW c \in Carts, Swap(c) PROVE [Next]_vars
  BY <1>7 DEF Swap
<1>8. CASE UNCHANGED <<vars, cartVars>>
  BY <1>8
<1> QED
  BY <1>1, <1>2, <1>3, <1>4, <1>5, <1>6, <1>7, <1>8 DEF CartNext

(***************************************************************************)
(* The commands use the bus as CartIo allows.                              *)
(***************************************************************************)
THEOREM CommandsUseBus == CartSpec => Spec
<1>1. CartInitInit => Init
  BY DEF CartInitInit
<1> QED
  BY <1>1, CommandStep, PTL DEF CartSpec, Spec

(***************************************************************************)
(* So the cartridge sees the address that the command asked for, in every  *)
(* cycle of every command.                                                 *)
(***************************************************************************)
THEOREM CommandsAddressed == CartSpec => []Addressed
  BY CommandsUseBus, AlwaysAddressed, PTL

(***************************************************************************)
(* And a command never moves the address of a selected cartridge.          *)
(***************************************************************************)
THEOREM CommandsHoldAddress == CartSpec => HeldAddress
  BY CommandsUseBus, AddressHeld, PTL

-----------------------------------------------------------------------------
(***************************************************************************)
(* The size that init finds, for every cartridge, whatever the slots       *)
(* showed before it and whatever commands ran.                             *)
(***************************************************************************)

(***************************************************************************)
(* What the program reads at offset o of bank b during the search: a       *)
(* cartridge without a mapper has nothing in slot 2.                       *)
(***************************************************************************)
Seen(b, o) == IF ~cart.mapper /\ b >= 2 THEN FF ELSE Cell(cart, b, o)
Offsets == 0..(BankBytes - 1)
Same(b) == \A o \in Offsets : Seen(b, o) = Cell(cart, 0, o)

(***************************************************************************)
(* The cycles before init reads bank 0, by their place, and what those     *)
(* done so far have set.                                                   *)
(***************************************************************************)
Open(n) == CASE n = 1 -> Clk(Control, 128)
             [] n = 2 -> Clk(Slot(0), 0)
             [] n = 3 -> Clk(Slot(1), 1)
             [] n = 4 -> Clk(Slot(2), 2)
             [] n = 5 -> Read(32752)
             [] OTHER -> Clk(Slot(2), 0)

Access == [op : {"read", "clk"}, at : Nat, data : Nat]

Opening ==
    /\ queue \in Seq(Access) /\ Len(queue) <= 6
    /\ \A j \in 1..Len(queue) : queue[j] = Open(6 - Len(queue) + j)
    /\ cart.mapper => /\ Len(queue) <= 5 => ~ram
                      /\ Len(queue) <= 4 => slots[0] = 0
                      /\ Len(queue) <= 3 => slots[1] = 1

(***************************************************************************)
(* The strengthening.  Under way is the cycle the command wants; bank 0 is *)
(* read from slot 0 and compared with bank i, which slot 2 shows once the  *)
(* queue is empty; the search never passes the cartridge's own size, where *)
(* it finds bank 0 again.                                                  *)
(***************************************************************************)
InFlight ==
    cmd # "none" /\ pc # "idle" =>
        op = NextAccess.op /\ wanted = NextAccess.at /\ data = NextAccess.data

ReadingBank0 ==
    cmd = "init" /\ stage = "bank0" =>
        /\ Opening /\ off \in Offsets
        /\ bank0 \in Seq(0..FF) /\ Len(bank0) = off
        /\ \A o \in 0..(off - 1) : bank0[o + 1] = Cell(cart, 0, o)

Bank0Read ==
    /\ bank0 \in Seq(0..FF) /\ Len(bank0) = BankBytes
    /\ \A o \in Offsets : bank0[o + 1] = Cell(cart, 0, o)

SlotsSet ==
    /\ cart.mapper => ~ram /\ slots[0] = 0 /\ slots[1] = 1
    /\ queue # <<>> => /\ stage = "first" /\ Len(queue) = 1
                       /\ queue[1] = IF i = 1 THEN Read(0) ELSE Clk(Slot(2), i)
    /\ queue = <<>> /\ i > 1 /\ cart.mapper => slots[2] = i

Searching ==
    cmd = "init" /\ stage \in {"first", "crc", "blank"} =>
        /\ i \in Powers /\ i <= Visible /\ i < SearchLimit
        /\ off \in Offsets /\ queue \in Seq(Access)
        /\ Bank0Read /\ SlotsSet
        /\ stage = "first" => off = 0
        /\ stage = "crc" => /\ crc \in Seq(0..FF) /\ Len(crc) = off
                            /\ \A o \in 0..(off - 1) : crc[o + 1] = Seen(i, o)
        /\ stage = "blank" => /\ i = 2 /\ ~Same(2)
                              /\ \A o \in 0..(off - 1) : Seen(2, o) = FF

CartOK == /\ cart \in Carts /\ DOMAIN slots = 0..2
          /\ cmd # "init" => stage \in {"none", "check"}

SizeInv == CartOK /\ BusInv /\ InFlight /\ ReadingBank0 /\ Searching /\ SizeRight

-----------------------------------------------------------------------------
(***************************************************************************)
(* Arithmetic of the numbers of banks.                                     *)
(***************************************************************************)
LEMMA PowerMod ==
    ASSUME NEW p \in Powers, NEW b \in Nat
    PROVE  /\ b % p \in 0..(p - 1) /\ 0 % p = 0 /\ p % p = 0
<1>1. p = 1 \/ p = 2 \/ p = 4 \/ p = 8 \/ p = 16 \/ p = 32 \/ p = 64 \/ p = 128
      \/ p = 256
  BY DEF Powers
<1> QED
  BY <1>1, SMT

LEMMA Double ==
    ASSUME NEW p \in Powers, NEW q \in Powers, p < q
    PROVE  2 * p <= q /\ 2 * p \in Powers
  BY DEF Powers

LEMMA CartFacts ==
    ASSUME cart \in Carts
    PROVE  /\ Banks(cart) \in Powers /\ Banks(cart) \in Nat
           /\ ~cart.mapper => Banks(cart) <= 2
           /\ SearchLimit \in Powers /\ SearchLimit \in Nat /\ SearchLimit # 1
           /\ BankBytes \in Nat \ {0} /\ BankBytes <= 16384
           /\ Visible \in Powers /\ Visible <= Banks(cart) /\ Visible <= SearchLimit
           /\ Visible = Banks(cart) \/ Visible = SearchLimit
<1>1. /\ Banks(cart) \in Powers /\ (~cart.mapper => Banks(cart) <= 2)
      /\ SearchLimit \in Powers /\ SearchLimit # 1
      /\ BankBytes \in Nat \ {0} /\ BankBytes <= 16384
  BY CartInitAssumption DEF Banks
<1>2. Banks(cart) \in Nat /\ SearchLimit \in Nat
  BY <1>1 DEF Powers
<1> QED
  BY <1>1, <1>2 DEF Visible

LEMMA CellByte ==
    ASSUME cart \in Carts, NEW b \in Nat, NEW o \in Offsets
    PROVE  Cell(cart, b, o) \in 0..FF /\ Seen(b, o) \in 0..FF
<1>1. b % Banks(cart) \in 0..(Banks(cart) - 1) /\ Banks(cart) \in Nat
  BY CartFacts, PowerMod
<1>a. ASSUME NEW r, NEW n \in Nat, r \in 0..(n - 1)
      PROVE  r + 1 \in 1..n
  BY <1>a
<1> DEFINE k == (b % Banks(cart)) + 1
<1>2. k \in 1..Banks(cart)
  BY <1>1, <1>a
<1> HIDE DEF k
<1>3. cart.banks[k] \in [1..BankBytes -> 0..FF]
  BY <1>2, CartInitAssumption DEF Banks
<1>4. o + 1 \in 1..BankBytes
  BY CartFacts DEF Offsets
<1>5. Cell(cart, b, o) \in 0..FF
  BY <1>3, <1>4 DEF Cell, k
<1> QED
  BY <1>5 DEF Seen, FF

(***************************************************************************)
(* The bank whose number is the cartridge's size is bank 0 again, and at   *)
(* the end of the search of a cartridge without a mapper there is nothing. *)
(***************************************************************************)
LEMMA Mirror ==
    ASSUME cart \in Carts, cart.mapper \/ Banks(cart) = 1
    PROVE  Same(Banks(cart))
<1>1. Banks(cart) % Banks(cart) = 0 /\ 0 % Banks(cart) = 0
  BY CartFacts, PowerMod
<1>2. \A o : Cell(cart, Banks(cart), o) = Cell(cart, 0, o)
  BY <1>1 DEF Cell
<1> QED
  BY <1>2 DEF Same, Seen

\* So a bank that differs is below the size, unless it is bank 2 of a
\* cartridge without a mapper.
LEMMA Below ==
    ASSUME cart \in Carts, NEW b \in Powers, b <= Visible, b < SearchLimit, ~Same(b),
           b = 2 => cart.mapper
    PROVE  b < Visible
<1>1. b \in Nat /\ Visible \in Nat
  BY CartFacts DEF Powers
<1>2. b # Banks(cart)
  <2>1. CASE cart.mapper \/ Banks(cart) = 1
    BY <2>1, Mirror
  <2>2. CASE ~cart.mapper /\ Banks(cart) # 1
    <3>1. Banks(cart) = 2
      BY <2>2, CartFacts DEF Powers
    <3> QED
      BY <2>2, <3>1
  <2> QED
    BY <2>1, <2>2
<1> QED
  BY <1>1, <1>2, CartFacts

(***************************************************************************)
(* The program reads what the pins select.                                 *)
(***************************************************************************)
LEMMA Pins ==
    ASSUME BusInv, pc = "end"
    PROVE  CartAddress = wanted
  BY DEF BusInv, Cached, Current, Sending, Cycling

LEMMA Slot0 ==
    ASSUME CartOK, NEW o \in Offsets, cart.mapper => slots[0] = 0
    PROVE  Shown(o) = Cell(cart, 0, o)
<1>1. o \in Nat /\ o < 16384 /\ o < BankBytes /\ BankBytes \in Nat
  BY CartFacts DEF CartOK, Offsets
<1>2. o \div 16384 = 0 /\ o % 16384 = o
  BY <1>1
<1> QED
  BY <1>1, <1>2 DEF Shown

LEMMA SlotI ==
    ASSUME CartOK, NEW o \in Offsets, i \in Powers, i <= Visible,
           cart.mapper => ~ram /\ slots[1] = 1 /\ (i > 1 => slots[2] = i)
    PROVE  Shown(IF i = 1 THEN Bus(1, o) ELSE Bus(2, o)) = Seen(i, o)
<1>1. o \in Nat /\ o < 16384 /\ o < BankBytes /\ BankBytes \in Nat
  BY CartFacts DEF CartOK, Offsets
<1>2. i \in Nat /\ (i = 1 \/ i >= 2)
  BY DEF Powers
<1>3. Bus(1, o) \div 16384 = 1 /\ Bus(1, o) % 16384 = o
  BY <1>1 DEF Bus
<1>4. Bus(2, o) \div 16384 = 2 /\ Bus(2, o) % 16384 = o
  BY <1>1 DEF Bus
<1>5. CASE i = 1
  <2>1. Shown(Bus(1, o)) = Cell(cart, 1, o)
    BY <1>1, <1>3, <1>5 DEF Shown
  <2> QED
    BY <1>5, <2>1 DEF Seen
<1>6. CASE i >= 2
  <2>1. Shown(Bus(2, o)) = IF cart.mapper THEN Cell(cart, i, o) ELSE FF
    BY <1>1, <1>2, <1>4, <1>6 DEF Shown
  <2> QED
    BY <1>2, <1>6, <2>1 DEF Seen
<1> QED
  BY <1>2, <1>5, <1>6

-----------------------------------------------------------------------------
(***************************************************************************)
(* The ends of the search.                                                 *)
(***************************************************************************)
LEMMA Times ==
    ASSUME NEW m \in Nat, NEW n \in Nat, NEW b \in Nat, m <= n
    PROVE  m * b <= n * b
<1>1. n * b = m * b + (n - m) * b /\ (n - m) * b \in Nat
  OBVIOUS
<1> QED
  BY <1>1

\* A size that is the cartridge's, or ends at a bank that is as bank 0 or
\* blank, is right.
LEMMA FoundRight ==
    ASSUME cart \in Carts, NEW n \in Powers, n <= Visible, Found(n), UNCHANGED cart,
           n < Visible => SameBank(n, 0) \/ (n = 2 /\ AllFF(2))
    PROVE  SizeRight'
<1>1. n \in Nat /\ Visible \in Nat /\ BankBytes \in Nat
  BY CartFacts DEF Powers
<1>2. s_rom_size' = n * BankBytes
  BY DEF Found
<1>3. n * BankBytes <= Visible * BankBytes
  BY <1>1, Times
<1>4. ASSUME \A p \in Powers : p < Visible => ~SameBank(p, 0) /\ (p = 2 => ~AllFF(2))
      PROVE  n = Visible
  BY <1>1, <1>4
<1>5. /\ Visible' = Visible /\ AllFF(2)' = AllFF(2)
      /\ \A p \in Powers : SameBank(p, 0)' = SameBank(p, 0)
  BY DEF Visible, Banks, AllFF, SameBank, Cell
<1> QED
  BY <1>2, <1>3, <1>4, <1>5 DEF SizeRight

\* Below the size, what the program sees of a bank is the bank.
LEMMA SameSeen ==
    ASSUME cart \in Carts, NEW b \in Powers, b < Visible
    PROVE  /\ Same(b) => SameBank(b, 0)
           /\ b = 2 /\ (\A o \in Offsets : Seen(2, o) = FF) => AllFF(2)
<1>1. b \in Nat /\ (cart.mapper \/ b < 2)
  BY CartFacts DEF Powers
<1>2. \A o : Seen(b, o) = Cell(cart, b, o)
  BY <1>1 DEF Seen
<1> QED
  BY <1>2 DEF Same, SameBank, AllFF, Offsets

(***************************************************************************)
(* NextBank, from a bank below the size.                                   *)
(***************************************************************************)
LEMMA NextBankStep ==
    ASSUME CartOK, Bank0Read, i \in Powers, i < Visible, NextBank, cmd = "init",
           cart.mapper => ~ram /\ slots[0] = 0 /\ slots[1] = 1, SizeRight,
           UNCHANGED <<cart, slots, ram, bank0, cmd>>
    PROVE  ReadingBank0' /\ Searching' /\ SizeRight'
<1>1. /\ 2 * i <= Visible /\ 2 * i \in Powers /\ i \in Nat /\ Visible <= SearchLimit
      /\ Visible \in Nat /\ SearchLimit \in Nat /\ BankBytes \in Nat \ {0}
  BY CartFacts, Double DEF CartOK, Powers
<1>2. Visible' = Visible /\ Bank0Read'
  BY DEF Visible, Banks, Bank0Read, Cell
<1>3. CASE 2 * i < SearchLimit
  <2>1. /\ i' = 2 * i /\ off' = 0 /\ stage' = "first" /\ UNCHANGED sizeVars
        /\ queue' = <<Clk(Slot(2), 2 * i)>>
    BY <1>3 DEF NextBank, Goto, mapper_setSlot
  <2>2. queue' \in Seq(Access) /\ Len(queue') = 1 /\ queue'[1] = Clk(Slot(2), 2 * i)
    <3>1. Clk(Slot(2), 2 * i) \in Access
      BY <1>1 DEF Clk, Access, Slot, Control
    <3> QED
      BY <2>1, <3>1
  <2>3. SlotsSet'
    BY <1>1, <2>1, <2>2 DEF SlotsSet
  <2>4. Searching'
    BY <1>1, <1>2, <1>3, <2>1, <2>2, <2>3 DEF Searching, Offsets
  <2>5. SizeRight'
    BY <1>2, <2>1 DEF SizeRight, sizeVars, SameBank, AllFF, Cell
  <2> QED
    BY <2>1, <2>4, <2>5 DEF ReadingBank0
<1>4. CASE ~(2 * i < SearchLimit)
  <2>1. Found(2 * i)
    BY <1>4 DEF NextBank
  <2>2. 2 * i = Visible
    BY <1>1, <1>4
  <2>3. SizeRight'
    BY <1>1, <2>1, <2>2, FoundRight DEF CartOK
  <2>4. stage' = "none"
    BY <2>1 DEF Found, Goto
  <2> QED
    BY <2>3, <2>4 DEF ReadingBank0, Searching
<1> QED
  BY <1>3, <1>4

\* After bank i was found to differ from bank 0.
LEMMA AfterCompareStep ==
    ASSUME CartOK, Searching, SizeRight, cmd = "init", stage \in {"first", "crc"},
           queue = <<>>, ~Same(i), AfterCompare, UNCHANGED <<cart, slots, ram, bank0, cmd>>
    PROVE  ReadingBank0' /\ Searching' /\ SizeRight'
<1>1. i \in Powers /\ i <= Visible /\ i < SearchLimit /\ Bank0Read /\ SlotsSet
  BY DEF Searching
<1>2. CASE i = 2
  <2>1. off' = 0 /\ stage' = "blank" /\ queue' = <<>> /\ UNCHANGED <<i, sizeVars>>
    BY <1>2 DEF AfterCompare, Goto
  <2>2. /\ Visible' = Visible /\ Bank0Read' /\ ~Same(2)' /\ 0 \in Offsets
        /\ queue' \in Seq(Access)
    BY <1>1, <1>2, <2>1, CartFacts
    DEF Visible, Banks, Bank0Read, Cell, Same, Seen, CartOK, Offsets
  <2>3. SlotsSet'
    BY <1>1, <2>1 DEF SlotsSet
  <2>4. Searching'
    BY <1>1, <1>2, <2>1, <2>2, <2>3 DEF Searching, Offsets
  <2>5. SizeRight'
    BY <2>1, <2>2 DEF SizeRight, sizeVars, SameBank, AllFF, Cell
  <2> QED
    BY <2>1, <2>4, <2>5 DEF ReadingBank0
<1>3. CASE i # 2
  <2>1. i < Visible
    BY <1>1, <1>3, Below DEF CartOK
  <2>2. NextBank
    BY <1>3 DEF AfterCompare
  <2>3. cart.mapper => ~ram /\ slots[0] = 0 /\ slots[1] = 1
    BY <1>1 DEF SlotsSet
  <2> QED
    BY <1>1, <2>1, <2>2, <2>3, NextBankStep
<1> QED
  BY <1>2, <1>3

(***************************************************************************)
(* The steps of the search, each at the end of a read.                     *)
(***************************************************************************)
LEMMA SearchReads ==
    ASSUME CartOK, BusInv, InFlight, Searching, cmd = "init",
           stage \in {"first", "crc", "blank"}, queue = <<>>, pc = "end"
    PROVE  Byte = Seen(i, off) /\ Byte \in 0..FF
<1>1. i \in Powers /\ i <= Visible /\ off \in Offsets /\ SlotsSet
  BY DEF Searching
<1>2. CartAddress = IF i = 1 THEN Bus(1, off) ELSE Bus(2, off)
  BY Pins DEF InFlight, NextAccess, Read, ReadAddress
<1>3. Byte = Seen(i, off)
  BY <1>1, <1>2, SlotI DEF Byte, SlotsSet
<1>4. i \in Nat
  BY <1>1 DEF Powers
<1> QED
  BY <1>1, <1>3, <1>4, CellByte DEF CartOK

LEMMA FirstStep ==
    ASSUME SizeInv, First
    PROVE  ReadingBank0' /\ Searching' /\ SizeRight'
<1>1. /\ cmd = "init" /\ stage = "first" /\ queue = <<>> /\ pc = "end"
      /\ CartOK /\ BusInv /\ InFlight /\ Searching /\ SizeRight
      /\ UNCHANGED <<cart, slots, ram, bank0, cmd>> /\ crc' = <<>>
  BY DEF SizeInv, CartOK, First, Got, End, mapperVars
<1>2. i \in Powers /\ i <= Visible /\ i < SearchLimit /\ Bank0Read /\ SlotsSet /\ off = 0
  BY <1>1 DEF Searching
<1>3. Byte = Seen(i, 0) /\ 0 \in Offsets /\ bank0[1] = Cell(cart, 0, 0)
  BY <1>1, <1>2, SearchReads, CartFacts DEF CartOK, Bank0Read, Offsets
<1>4. CASE Byte = bank0[1]
  <2>1. off' = 0 /\ stage' = "crc" /\ queue' = <<>> /\ UNCHANGED <<i, sizeVars>>
    BY <1>4 DEF First, Goto
  <2>2. /\ Visible' = Visible /\ Bank0Read' /\ queue' \in Seq(Access)
        /\ crc' \in Seq(0..FF) /\ Len(crc') = 0
    BY <1>1, <1>2, <2>1 DEF Visible, Banks, Bank0Read, Cell
  <2>3. SlotsSet'
    BY <1>1, <1>2, <2>1 DEF SlotsSet
  <2>4. Searching'
    BY <1>1, <1>2, <1>3, <2>1, <2>2, <2>3 DEF Searching, Offsets
  <2>5. SizeRight'
    BY <1>1, <2>1, <2>2 DEF SizeRight, sizeVars, SameBank, AllFF, Cell
  <2> QED
    BY <2>1, <2>4, <2>5 DEF ReadingBank0
<1>5. CASE Byte # bank0[1]
  <2>1. ~Same(i)
    BY <1>3, <1>5 DEF Same
  <2>2. AfterCompare
    BY <1>5 DEF First
  <2> QED
    BY <1>1, <2>1, <2>2, AfterCompareStep
<1> QED
  BY <1>4, <1>5

LEMMA CrcStep ==
    ASSUME SizeInv, Crc
    PROVE  ReadingBank0' /\ Searching' /\ SizeRight'
<1>1. /\ cmd = "init" /\ stage = "crc" /\ queue = <<>> /\ pc = "end"
      /\ CartOK /\ BusInv /\ InFlight /\ Searching /\ SizeRight
      /\ UNCHANGED <<cart, slots, ram, bank0, cmd>> /\ crc' = Append(crc, Byte)
  BY DEF SizeInv, CartOK, Crc, Got, End, mapperVars
<1>2. /\ i \in Powers /\ i <= Visible /\ i < SearchLimit /\ Bank0Read /\ SlotsSet
      /\ off \in Offsets /\ off \in Nat /\ crc \in Seq(0..FF) /\ Len(crc) = off
      /\ \A o \in 0..(off - 1) : crc[o + 1] = Seen(i, o)
  BY <1>1 DEF Searching, Offsets
<1>3. Byte = Seen(i, off) /\ Byte \in 0..FF
  BY <1>1, SearchReads
<1>4. /\ crc' \in Seq(0..FF) /\ Len(crc') = off + 1
      /\ \A o \in 0..off : crc'[o + 1] = Seen(i, o)
  <2>1. /\ crc' \in Seq(0..FF) /\ Len(crc') = off + 1
        /\ \A k \in 1..off : crc'[k] = crc[k]
        /\ crc'[off + 1] = Byte
    BY <1>1, <1>2, <1>3, AppendProperties
  <2> QED
    BY <1>2, <1>3, <2>1
<1>5. CASE ~Last
  <2>1. off' = off + 1 /\ UNCHANGED <<i, stage, queue, sizeVars>> /\ off + 1 \in Offsets
    BY <1>2, <1>5, CartFacts, <1>1 DEF Crc, Last, Offsets, CartOK
  <2>2. Visible' = Visible /\ Bank0Read' /\ \A o : Seen(i, o)' = Seen(i, o)
    BY <1>1, <1>2, <2>1 DEF Visible, Banks, Bank0Read, Cell, Seen
  <2>3. SlotsSet'
    BY <1>1, <1>2, <2>1 DEF SlotsSet
  <2>4. Searching'
    BY <1>1, <1>2, <1>4, <2>1, <2>2, <2>3 DEF Searching, Offsets
  <2>5. SizeRight'
    BY <1>1, <2>1, <2>2 DEF SizeRight, sizeVars, SameBank, AllFF, Cell
  <2> QED
    BY <1>1, <2>1, <2>4, <2>5 DEF ReadingBank0
<1>6. CASE Last
  <2>1. off + 1 = BankBytes /\ BankBytes \in Nat
    BY <1>1, <1>2, <1>6, CartFacts DEF Last, CartOK
  <2>2. \A o \in Offsets : crc'[o + 1] = Seen(i, o)
    BY <1>2, <1>4, <2>1 DEF Offsets
  <2>3. CASE crc' = bank0
    <3>1. Same(i)
      BY <1>2, <2>2, <2>3 DEF Same, Bank0Read
    <3>2. Found(i) /\ UNCHANGED i
      BY <1>6, <2>3, <1>1 DEF Crc
    <3>3. SizeRight'
      BY <1>1, <1>2, <3>1, <3>2, SameSeen, FoundRight DEF CartOK
    <3>4. stage' = "none"
      BY <3>2 DEF Found, Goto
    <3> QED
      BY <3>3, <3>4 DEF ReadingBank0, Searching
  <2>4. CASE crc' # bank0
    <3>1. ~Same(i)
      <4>1. SUFFICES ASSUME Same(i) PROVE crc' = bank0
        BY <2>4
      <4>2. \A k \in 1..Len(crc') : crc'[k] = bank0[k]
        <5>1. SUFFICES ASSUME NEW k \in 1..BankBytes PROVE crc'[k] = bank0[k]
          BY <1>4, <2>1
        <5>2. k - 1 \in Offsets /\ (k - 1) + 1 = k
          BY <2>1 DEF Offsets
        <5>3. crc'[(k - 1) + 1] = bank0[(k - 1) + 1]
          BY <1>2, <2>2, <4>1, <5>2 DEF Same, Bank0Read
        <5> QED
          BY <5>2, <5>3
      <4> QED
        BY <1>2, <1>4, <2>1, <4>2, SeqEqual DEF Bank0Read
    <3>2. AfterCompare
      BY <1>6, <2>4, <1>1 DEF Crc
    <3> QED
      BY <1>1, <3>1, <3>2, AfterCompareStep
  <2> QED
    BY <2>3, <2>4
<1> QED
  BY <1>5, <1>6

LEMMA BlankStep ==
    ASSUME SizeInv, Blank
    PROVE  ReadingBank0' /\ Searching' /\ SizeRight'
<1>1. /\ cmd = "init" /\ stage = "blank" /\ queue = <<>> /\ pc = "end"
      /\ CartOK /\ BusInv /\ InFlight /\ Searching /\ SizeRight
      /\ UNCHANGED <<cart, slots, ram, bank0, crc, cmd>>
  BY DEF SizeInv, CartOK, Blank, Got, End, mapperVars
<1>2. /\ i = 2 /\ i \in Powers /\ i <= Visible /\ i < SearchLimit /\ Bank0Read /\ SlotsSet
      /\ off \in Offsets /\ off \in Nat /\ ~Same(2)
      /\ \A o \in 0..(off - 1) : Seen(2, o) = FF
  BY <1>1 DEF Searching, Offsets
<1>3. Byte = Seen(2, off)
  BY <1>1, <1>2, SearchReads
<1>4. CASE Byte # FF
  <2>1. cart.mapper
    BY <1>3, <1>4 DEF Seen
  <2>2. i < Visible
    BY <1>1, <1>2, <2>1, Below DEF CartOK
  <2>3. NextBank
    BY <1>4 DEF Blank
  <2>4. cart.mapper => ~ram /\ slots[0] = 0 /\ slots[1] = 1
    BY <1>2 DEF SlotsSet
  <2> QED
    BY <1>1, <1>2, <2>2, <2>3, <2>4, NextBankStep
<1>5. CASE Byte = FF /\ Last
  <2>1. Found(i) /\ UNCHANGED i
    BY <1>5 DEF Blank
  <2>2. \A o \in Offsets : Seen(2, o) = FF
    BY <1>1, <1>2, <1>3, <1>5, CartFacts DEF Offsets, Last, CartOK
  <2>3. i < Visible => AllFF(2)
    BY <1>1, <1>2, <2>2, SameSeen DEF CartOK
  <2>4. SizeRight'
    BY <1>1, <1>2, <2>1, <2>3, FoundRight DEF CartOK
  <2>5. stage' = "none"
    BY <2>1 DEF Found, Goto
  <2> QED
    BY <2>4, <2>5 DEF ReadingBank0, Searching
<1>6. CASE Byte = FF /\ ~Last
  <2>1. off' = off + 1 /\ UNCHANGED <<i, stage, queue, sizeVars>>
    BY <1>6 DEF Blank
  <2>2. off + 1 \in Offsets
    BY <1>1, <1>2, <1>6, CartFacts DEF Last, Offsets, CartOK
  <2>3. /\ Visible' = Visible /\ Bank0Read' /\ Same(2)' = Same(2)
        /\ \A o : Seen(2, o)' = Seen(2, o)
    BY <1>1, <1>2, <2>1 DEF Visible, Banks, Bank0Read, Cell, Same, Seen
  <2>4. SlotsSet'
    BY <1>1, <1>2, <2>1 DEF SlotsSet
  <2>5. \A o \in 0..off : Seen(2, o) = FF
    BY <1>2, <1>3, <1>6
  <2>6. Searching'
    BY <1>1, <1>2, <2>1, <2>2, <2>3, <2>4, <2>5 DEF Searching, Offsets
  <2>7. SizeRight'
    BY <1>1, <2>1, <2>3 DEF SizeRight, sizeVars, SameBank, AllFF, Cell
  <2> QED
    BY <1>1, <2>1, <2>6, <2>7 DEF ReadingBank0
<1> QED
  BY <1>4, <1>5, <1>6

(***************************************************************************)
(* The reading of bank 0.                                                  *)
(***************************************************************************)
LEMMA Bank0Step ==
    ASSUME SizeInv, Bank0
    PROVE  ReadingBank0' /\ Searching' /\ SizeRight'
<1>1. /\ cmd = "init" /\ stage = "bank0" /\ queue = <<>> /\ pc = "end"
      /\ CartOK /\ BusInv /\ InFlight /\ ReadingBank0 /\ SizeRight
      /\ UNCHANGED <<cart, slots, ram, crc, cmd, s_rom_size, sized>>
      /\ bank0' = Append(bank0, Byte)
  BY DEF SizeInv, CartOK, Bank0, Got, End, mapperVars, sizeVars
<1>2. /\ Opening /\ off \in Offsets /\ off \in Nat
      /\ bank0 \in Seq(0..FF) /\ Len(bank0) = off
      /\ \A o \in 0..(off - 1) : bank0[o + 1] = Cell(cart, 0, o)
  BY <1>1 DEF ReadingBank0, Offsets
<1>3. Byte = Cell(cart, 0, off) /\ Byte \in 0..FF
  <2>1. cart.mapper => ~ram /\ slots[0] = 0 /\ slots[1] = 1
    BY <1>1, <1>2 DEF Opening
  <2>2. CartAddress = off
    BY <1>1, Pins DEF InFlight, NextAccess, Read, ReadAddress
  <2> QED
    BY <1>1, <1>2, <2>1, <2>2, Slot0, CellByte DEF Byte, CartOK
<1>4. /\ bank0' \in Seq(0..FF) /\ Len(bank0') = off + 1
      /\ \A o \in 0..off : bank0'[o + 1] = Cell(cart, 0, o)
  <2>1. /\ bank0' \in Seq(0..FF) /\ Len(bank0') = off + 1
        /\ \A k \in 1..off : bank0'[k] = bank0[k]
        /\ bank0'[off + 1] = Byte
    BY <1>1, <1>2, <1>3, AppendProperties
  <2> QED
    BY <1>2, <1>3, <2>1
<1>5. SizeRight' /\ Visible' = Visible /\ \A o : Cell(cart, 0, o)' = Cell(cart, 0, o)
  BY <1>1 DEF SizeRight, SameBank, AllFF, Cell, Visible, Banks
<1>6. CASE ~Last
  <2>1. off' = off + 1 /\ UNCHANGED <<i, stage, queue>> /\ off + 1 \in Offsets
    BY <1>1, <1>2, <1>6, CartFacts DEF Bank0, Last, Offsets, CartOK
  <2>2. Opening'
    BY <1>1, <1>2, <2>1 DEF Opening
  <2>3. ReadingBank0'
    BY <1>1, <1>4, <1>5, <2>1, <2>2 DEF ReadingBank0, Offsets
  <2> QED
    BY <1>1, <1>5, <2>1, <2>3 DEF Searching
<1>7. CASE Last
  <2>1. i' = 1 /\ off' = 0 /\ stage' = "first" /\ queue' = <<Read(0)>>
    BY <1>7 DEF Bank0, Goto
  <2>2. queue' \in Seq(Access) /\ Len(queue') = 1 /\ queue'[1] = Read(0)
    <3>1. Read(0) \in Access
      BY DEF Read, Access
    <3> QED
      BY <2>1, <3>1
  <2>3. Bank0Read'
    BY <1>1, <1>2, <1>4, <1>5, <1>7, CartFacts DEF Bank0Read, Last, Offsets, CartOK
  <2>4. /\ 1 \in Powers /\ 1 <= Visible /\ 1 < SearchLimit /\ 0 \in Offsets
    BY <1>1, CartFacts DEF CartOK, Powers, Offsets
  <2>5. SlotsSet'
    BY <1>1, <1>2, <2>1, <2>2 DEF SlotsSet, Opening
  <2>6. Searching'
    BY <1>5, <2>1, <2>2, <2>3, <2>4, <2>5 DEF Searching, Offsets
  <2> QED
    BY <1>5, <2>1, <2>6 DEF ReadingBank0
<1> QED
  BY <1>6, <1>7

(***************************************************************************)
(* The cycles before a stage reads: writes to the mapper.                  *)
(***************************************************************************)
LEMMA QueuedCycle ==
    ASSUME SizeInv, Queued, cmd # "none"
    PROVE  /\ queue[1].op = "clk" => Clocked(queue[1].at, queue[1].data)
           /\ queue[1].op # "clk" => UNCHANGED <<slots, ram>>
<1>1. op = queue[1].op /\ CartAddress = queue[1].at /\ data = queue[1].data
  BY Pins DEF SizeInv, InFlight, NextAccess, Queued, End
<1> QED
  BY <1>1 DEF Queued, mapperVars

LEMMA OpeningStep ==
    ASSUME SizeInv, Queued, cmd = "init", stage = "bank0"
    PROVE  Opening'
<1> DEFINE m == Len(queue)
<1>1. Opening /\ DOMAIN slots = 0..2 /\ UNCHANGED cart
  BY DEF SizeInv, CartOK, ReadingBank0, Queued
<1>2. queue \in Seq(Access) /\ queue # <<>> /\ queue' = Tail(queue)
  BY <1>1 DEF Opening, Queued
<1>3. m \in Nat \ {0} /\ m <= 6
  BY <1>1, <1>2, EmptySeq DEF Opening
<1>4. /\ queue' \in Seq(Access) /\ Len(queue') = m - 1
      /\ \A j \in 1..Len(queue') : queue'[j] = queue[j + 1]
  BY <1>2, HeadTailProperties
<1>5. /\ \A j \in 1..m : queue[j] = Open(6 - m + j)
      /\ cart.mapper => /\ m <= 5 => ~ram
                        /\ m <= 4 => slots[0] = 0
                        /\ m <= 3 => slots[1] = 1
  BY <1>1 DEF Opening
<1> HIDE DEF m
<1>6. ASSUME NEW j \in 1..Len(queue')
      PROVE  queue'[j] = Open(6 - Len(queue') + j)
  <2>1. j + 1 \in 1..m /\ 6 - m + (j + 1) = 6 - Len(queue') + j
    BY <1>3, <1>4
  <2>2. queue'[j] = Open(6 - m + (j + 1))
    BY <1>4, <1>5, <2>1
  <2> QED
    BY <2>1, <2>2
<1>7. queue[1] = Open(7 - m)
  <2>1. 1 \in 1..m /\ 6 - m + 1 = 7 - m
    BY <1>3
  <2>2. queue[1] = Open(6 - m + 1)
    BY <1>5, <2>1
  <2> QED
    BY <2>1, <2>2
<1>8. ASSUME cart.mapper
      PROVE  /\ m - 1 <= 5 => ~ram'
             /\ m - 1 <= 4 => slots'[0] = 0
             /\ m - 1 <= 3 => slots'[1] = 1
  <2>1. /\ m <= 5 => ~ram
        /\ m <= 4 => slots[0] = 0
        /\ m <= 3 => slots[1] = 1
    BY <1>5, <1>8
  <2>2. CASE m = 6
    <3>1. queue[1] = Clk(Control, 128)
      BY <1>7, <2>2 DEF Open
    <3>2. Clocked(Control, 128)
      BY <3>1, QueuedCycle DEF Clk
    <3>3. ram' = (128 = 8)
      BY <1>8, <3>2, Zenon DEF Clocked
    <3>4. 128 # 8
      OBVIOUS
    <3>5. ~ram'
      BY <3>3, <3>4, Zenon
    <3> QED
      BY <2>2, <3>5
  <2>3. CASE m = 5
    <3>1. queue[1] = Clk(Slot(0), 0)
      BY <1>7, <2>3 DEF Open
    <3>2. Clocked(Slot(0), 0)
      BY <3>1, QueuedCycle DEF Clk
    <3> QED
      BY <1>1, <1>8, <2>1, <2>3, <3>2 DEF Clocked, Slot, Control
  <2>4. CASE m = 4
    <3>1. queue[1] = Clk(Slot(1), 1)
      BY <1>7, <2>4 DEF Open
    <3>2. Clocked(Slot(1), 1)
      BY <3>1, QueuedCycle DEF Clk
    <3> QED
      BY <1>1, <1>8, <2>1, <2>4, <3>2 DEF Clocked, Slot, Control
  <2>5. CASE m = 2
    <3>1. queue[1] = Read(32752)
      BY <1>7, <2>5 DEF Open
    <3>2. UNCHANGED <<slots, ram>>
      BY <3>1, QueuedCycle DEF Read
    <3> QED
      BY <2>1, <2>5, <3>2
  <2>6. CASE m = 1 \/ m = 3
    <3>1. \E d \in {0, 2} : queue[1] = Clk(Slot(2), d)
      <4>1. Open(4) = Clk(Slot(2), 2) /\ Open(6) = Clk(Slot(2), 0)
        BY DEF Open
      <4>2. queue[1] = Open(4) \/ queue[1] = Open(6)
        BY <1>7, <2>6
      <4> QED
        BY <4>1, <4>2
    <3>2. \E d \in {0, 2} : Clocked(Slot(2), d)
      BY <3>1, QueuedCycle DEF Clk
    <3> QED
      BY <1>1, <1>8, <2>1, <2>6, <3>2 DEF Clocked, Slot, Control
  <2> QED
    BY <1>3, <2>2, <2>3, <2>4, <2>5, <2>6
<1>9. Len(queue') <= 6
  BY <1>3, <1>4
<1> QED
  BY <1>1, <1>4, <1>6, <1>8, <1>9 DEF Opening

LEMMA SlotStep ==
    ASSUME SizeInv, Queued, cmd = "init", stage \in {"first", "crc", "blank"}
    PROVE  SlotsSet' /\ queue' \in Seq(Access)
<1>1. /\ SlotsSet /\ queue \in Seq(Access) /\ queue # <<>> /\ DOMAIN slots = 0..2
      /\ queue' = Tail(queue) /\ UNCHANGED <<cart, i, stage>>
  BY DEF SizeInv, CartOK, Searching, Queued, loopVars
<1>2. /\ Len(queue) = 1 /\ stage = "first"
      /\ queue[1] = IF i = 1 THEN Read(0) ELSE Clk(Slot(2), i)
  BY <1>1 DEF SlotsSet
<1>3. queue' = <<>> /\ queue' \in Seq(Access)
  <2>1. queue' \in Seq(Access) /\ Len(queue') = 0
    BY <1>1, <1>2, HeadTailProperties
  <2> QED
    BY <2>1, EmptySeq
<1>4. CASE i = 1
  <2>1. UNCHANGED <<slots, ram>>
    BY <1>2, <1>4, QueuedCycle DEF Read
  <2> QED
    BY <1>1, <1>3, <1>4, <2>1 DEF SlotsSet
<1>5. CASE i # 1
  <2>1. Clocked(Slot(2), i)
    BY <1>2, <1>5, QueuedCycle DEF Clk
  <2>2. cart.mapper => /\ ram' = ram /\ slots'[0] = slots[0]
                       /\ slots'[1] = slots[1] /\ slots'[2] = i
    BY <1>1, <2>1 DEF Clocked, Slot, Control
  <2> QED
    BY <1>1, <1>3, <2>2 DEF SlotsSet
<1> QED
  BY <1>3, <1>4, <1>5

LEMMA QueuedStep ==
    ASSUME SizeInv, Queued
    PROVE  ReadingBank0' /\ Searching' /\ SizeRight' /\ DOMAIN slots' = 0..2
<1>1. /\ UNCHANGED <<cart, i, off, bank0, crc, s_rom_size, sized, cmd, stage>>
      /\ DOMAIN slots = 0..2 /\ ReadingBank0 /\ Searching /\ SizeRight
  BY DEF SizeInv, CartOK, Queued, loopVars, sizeVars
<1>2. DOMAIN slots' = 0..2
  BY <1>1 DEF Queued, mapperVars, Clocked
<1>3. ReadingBank0'
  BY <1>1, OpeningStep DEF ReadingBank0, Offsets, Cell
<1>4. /\ Visible' = Visible /\ (Bank0Read => Bank0Read') /\ Same(2)' = Same(2)
      /\ \A b, o : Seen(b, o)' = Seen(b, o)
  BY <1>1 DEF Visible, Banks, Bank0Read, Cell, Same, Seen
<1>5. Searching'
  BY <1>1, <1>4, SlotStep DEF Searching, Offsets
<1>6. SizeRight'
  BY <1>1, <1>4 DEF SizeRight, SameBank, AllFF, Cell
<1> QED
  BY <1>2, <1>3, <1>5, <1>6

(***************************************************************************)
(* The other steps leave the search alone, begin one, or forget the size.  *)
(***************************************************************************)
LEMMA Steady ==
    ASSUME SizeInv, UNCHANGED <<cart, mapperVars, loopVars, sizeVars, cmd, stage, queue>>
    PROVE  CartOK' /\ ReadingBank0' /\ Searching' /\ SizeRight'
<1>1. /\ UNCHANGED <<cart, slots, ram, i, off, bank0, crc, s_rom_size, sized, cmd, stage, queue>>
      /\ CartOK /\ ReadingBank0 /\ Searching /\ SizeRight
  BY DEF SizeInv, mapperVars, loopVars, sizeVars
<1>2. /\ Visible' = Visible /\ (Bank0Read => Bank0Read') /\ Same(2)' = Same(2)
      /\ \A b, o : Seen(b, o)' = Seen(b, o) /\ Cell(cart, b, o)' = Cell(cart, b, o)
  BY <1>1 DEF Visible, Banks, Bank0Read, Cell, Same, Seen
<1>3. CartOK'
  BY <1>1 DEF CartOK
<1>4. ReadingBank0'
  BY <1>1, <1>2 DEF ReadingBank0, Opening, Offsets
<1>5. SlotsSet => SlotsSet'
  BY <1>1 DEF SlotsSet
<1>6. Searching'
  BY <1>1, <1>2, <1>5 DEF Searching, Offsets
<1>7. SizeRight'
  BY <1>1, <1>2 DEF SizeRight, SameBank, AllFF
<1> QED
  BY <1>3, <1>4, <1>6, <1>7

LEMMA AddOne ==
    ASSUME NEW s \in Seq(Access), NEW t \in Seq(Access), NEW n \in Nat, Len(s) = n, Len(t) = 1
    PROVE  /\ s \o t \in Seq(Access) /\ Len(s \o t) = n + 1
           /\ \A j \in 1..n : (s \o t)[j] = s[j]
           /\ (s \o t)[n + 1] = t[1]
<1>1. /\ s \o t \in Seq(Access) /\ Len(s \o t) = Len(s) + Len(t)
      /\ \A j \in 1..(Len(s) + Len(t)) :
             (s \o t)[j] = IF j <= Len(s) THEN s[j] ELSE t[j - Len(s)]
  BY ConcatProperties
<1>2. /\ Len(s \o t) = n + 1
      /\ \A j \in 1..(n + 1) : (s \o t)[j] = IF j <= n THEN s[j] ELSE t[j - n]
  BY <1>1
<1> HIDE <1>1
<1>3. \A j \in 1..n : (s \o t)[j] = s[j]
  BY <1>2
<1>4. (s \o t)[n + 1] = t[1]
  <2>1. n + 1 \in 1..(n + 1) /\ ~(n + 1 <= n) /\ (n + 1) - n = 1
    OBVIOUS
  <2> QED
    BY <1>2, <2>1
<1> QED
  BY <1>1, <1>2, <1>3, <1>4

LEMMA InitStep ==
    ASSUME SizeInv, initCart
    PROVE  Opening' /\ off' = 0 /\ off' \in Offsets /\ bank0' = <<>>
<1> DEFINE r == <<Read(32752)>>
           w == mapper_setSlot(2, 0)
           q == mapper_init \o r
<1>1. /\ queue' = q \o w /\ off' = 0 /\ bank0' = <<>>
      /\ UNCHANGED cart /\ cart \in Carts
  BY DEF SizeInv, CartOK, initCart, Ready, Goto
<1>2. /\ Clk(Control, 128) \in Access /\ Clk(Slot(0), 0) \in Access
      /\ Clk(Slot(1), 1) \in Access /\ Clk(Slot(2), 2) \in Access
      /\ Read(32752) \in Access /\ Clk(Slot(2), 0) \in Access
  BY DEF Read, Clk, Access, Slot, Control
<1>3. /\ mapper_init[1] = Clk(Control, 128) /\ mapper_init[2] = Clk(Slot(0), 0)
      /\ mapper_init[3] = Clk(Slot(1), 1) /\ mapper_init[4] = Clk(Slot(2), 2)
      /\ r[1] = Read(32752) /\ w[1] = Clk(Slot(2), 0)
  BY DEF mapper_init, mapper_setSlot
<1>4. /\ mapper_init \in Seq(Access) /\ Len(mapper_init) = 4
      /\ r \in Seq(Access) /\ Len(r) = 1
      /\ w \in Seq(Access) /\ Len(w) = 1
      /\ 4 \in Nat /\ 5 \in Nat
  BY <1>2 DEF mapper_init, mapper_setSlot
<1> HIDE DEF r, w
<1>5. /\ q \in Seq(Access) /\ Len(q) = 4 + 1
      /\ \A j \in 1..4 : q[j] = mapper_init[j]
      /\ q[4 + 1] = r[1]
  BY <1>4, AddOne, Zenon
<1> HIDE DEF q
<1>6. q \in Seq(Access) /\ Len(q) = 5 /\ q[5] = r[1]
  BY <1>5
<1>7. /\ q \o w \in Seq(Access) /\ Len(q \o w) = 5 + 1
      /\ \A j \in 1..5 : (q \o w)[j] = q[j]
      /\ (q \o w)[5 + 1] = w[1]
  BY <1>4, <1>6, AddOne, Zenon
<1>8. /\ queue' \in Seq(Access) /\ Len(queue') = 6
      /\ \A j \in 1..5 : queue'[j] = q[j]
      /\ queue'[6] = w[1]
  BY <1>1, <1>7
<1>9. ASSUME NEW j \in 1..6 PROVE queue'[j] = Open(j)
  BY <1>3, <1>5, <1>6, <1>8 DEF Open
<1>10. Opening'
  BY <1>8, <1>9 DEF Opening
<1> QED
  BY <1>1, <1>10, CartFacts DEF Offsets

LEMMA CommandKeeps ==
    ASSUME SizeInv, Command
    PROVE  CartOK' /\ InFlight' /\ ReadingBank0' /\ Searching' /\ SizeRight'
<1>1. CartOK /\ SizeRight
  BY DEF SizeInv
<1>a. \/ initCart \/ cmd_blankcheck
      \/ \E n \in RomSizes : cmd_setromsize(n)
      \/ \E q : Look(q)
  BY DEF Command, readaddress, debug1
<1>2. Ready
  BY <1>a DEF initCart, cmd_blankcheck, cmd_setromsize, Look
<1>3. UNCHANGED <<cart, slots, ram>> /\ pc' = "idle" /\ cmd = "none"
  BY <1>2 DEF Ready, Idle, vars, mapperVars
<1>4. InFlight'
  BY <1>3 DEF InFlight
<1>5. \/ UNCHANGED <<s_rom_size, sized>>
      \/ sized' = FALSE
  BY <1>a DEF initCart, cmd_blankcheck, cmd_setromsize, Look, sizeVars
<1>6. SizeRight'
  BY <1>1, <1>3, <1>5 DEF SizeRight, Visible, Banks, SameBank, AllFF, Cell
<1>7. CASE initCart
  <2>1. cmd' = "init" /\ stage' = "bank0"
    BY <1>7 DEF initCart, Goto
  <2>2. ReadingBank0'
    BY <1>7, <2>1, InitStep DEF ReadingBank0
  <2> QED
    BY <1>1, <1>3, <1>4, <1>6, <2>1, <2>2 DEF CartOK, Searching
<1>8. CASE ~initCart
  <2>1. cmd' # "init" /\ stage' \in {"none", "check"}
    BY <1>a, <1>1, <1>3, <1>8 DEF cmd_blankcheck, cmd_setromsize, Look, Goto, CartOK
  <2> QED
    BY <1>1, <1>3, <1>4, <1>6, <2>1 DEF CartOK, ReadingBank0, Searching
<1> QED
  BY <1>7, <1>8

LEMMA Idles ==
    ASSUME SizeInv, Done \/ Reset \/ \E c \in Carts : Swap(c)
    PROVE  CartOK' /\ InFlight' /\ ReadingBank0' /\ Searching' /\ SizeRight'
<1>1. CartOK /\ SizeRight
  BY DEF SizeInv
<1>2. cmd' = "none" /\ (stage' = "none" \/ (cmd = "none" /\ stage' = stage))
  <2>1. CASE Done
    BY <2>1 DEF Done
  <2>2. CASE Reset
    BY <2>2 DEF Reset, Idle, cmdVars
  <2>3. CASE \E c \in Carts : Swap(c)
    BY <2>3 DEF Swap, Idle, cmdVars
  <2> QED
    BY <2>1, <2>2, <2>3
<1>3. cart' \in Carts /\ DOMAIN slots' = 0..2
  BY <1>1 DEF Done, Reset, Swap, CartOK, mapperVars
<1>4. UNCHANGED <<cart, s_rom_size, sized>> \/ sized' = FALSE
  BY DEF Done, Reset, Swap, sizeVars
<1>5. SizeRight'
  BY <1>1, <1>4 DEF SizeRight, Visible, Banks, SameBank, AllFF, Cell
<1> QED
  BY <1>1, <1>2, <1>3, <1>5 DEF CartOK, InFlight, ReadingBank0, Searching

-----------------------------------------------------------------------------
LEMMA SizeStep == SizeInv /\ [CartNext]_<<vars, cartVars>> => SizeInv'
<1> SUFFICES ASSUME SizeInv, [CartNext]_<<vars, cartVars>> PROVE SizeInv'
  OBVIOUS
<1>1. BusInv'
  BY CommandStep, StepBusInv DEF SizeInv
<1>2. CASE Command
  BY <1>1, <1>2, CommandKeeps DEF SizeInv
<1>3. CASE Done \/ Reset \/ \E c \in Carts : Swap(c)
  BY <1>1, <1>3, Idles DEF SizeInv
<1>4. CASE CallNext
  <2>1. CartOK' /\ ReadingBank0' /\ Searching' /\ SizeRight'
    BY <1>4, Steady DEF CallNext
  <2>2. NextAccess' = NextAccess
    BY <1>4 DEF CallNext, NextAccess, ReadAddress, loopVars, Bus
  <2>3. InFlight'
    BY <1>4, <2>2 DEF CallNext, InFlight
  <2> QED
    BY <1>1, <2>1, <2>3 DEF SizeInv
<1>5. CASE BusStep
  <2>1. /\ CartOK' /\ ReadingBank0' /\ Searching' /\ SizeRight'
    BY <1>5, Steady DEF BusStep, cartVars, cmdVars
  <2>2. NextAccess' = NextAccess /\ UNCHANGED <<cmd, data>>
    BY <1>5 DEF BusStep, cartVars, cmdVars, NextAccess, ReadAddress, loopVars, Bus
  <2>3. UNCHANGED <<op, wanted>> /\ pc # "idle"
    BY <1>5 DEF BusStep, setCartAddress, Nibbles, Latch, Select, Strobe, ClockLow
  <2>4. InFlight'
    BY <2>2, <2>3 DEF InFlight, SizeInv
  <2> QED
    BY <1>1, <2>1, <2>4 DEF SizeInv
<1>6. CASE CycleEnds
  <2>1. pc' = "idle" /\ UNCHANGED <<cart, cmd>>
    BY <1>6 DEF CycleEnds, Queued, Bank0, First, Crc, Blank, Check, Got, End
  <2>2. InFlight'
    BY <2>1 DEF InFlight
  <2>3. CASE Queued
    <3>1. UNCHANGED stage
      BY <2>3 DEF Queued
    <3> QED
      BY <1>1, <2>1, <2>2, <2>3, <3>1, QueuedStep DEF SizeInv, CartOK
  <2>4. CASE Bank0 \/ First \/ Crc \/ Blank
    <3>1. ReadingBank0' /\ Searching' /\ SizeRight'
      BY <2>4, Bank0Step, FirstStep, CrcStep, BlankStep
    <3>2. cmd = "init" /\ UNCHANGED slots
      BY <2>4 DEF Bank0, First, Crc, Blank, Got, SizeInv, CartOK, mapperVars
    <3> QED
      BY <1>1, <2>1, <2>2, <3>1, <3>2 DEF SizeInv, CartOK
  <2>5. CASE Check
    <3>1. /\ stage = "check" /\ stage' \in {"none", "check"}
          /\ UNCHANGED <<slots, s_rom_size, sized>>
      BY <2>5 DEF Check, Got, Goto, mapperVars
    <3>2. SizeRight'
      BY <2>1, <3>1 DEF SizeInv, SizeRight, Visible, Banks, SameBank, AllFF, Cell
    <3> QED
      BY <1>1, <2>1, <2>2, <3>1, <3>2 DEF SizeInv, CartOK, ReadingBank0, Searching
  <2> QED
    BY <1>6, <2>3, <2>4, <2>5 DEF CycleEnds
<1>7. CASE UNCHANGED <<vars, cartVars>>
  <2>1. CartOK' /\ ReadingBank0' /\ Searching' /\ SizeRight'
    BY <1>7, Steady DEF cartVars, cmdVars
  <2>2. InFlight'
    BY <1>7 DEF cartVars, cmdVars, loopVars, vars, InFlight, NextAccess, ReadAddress, Bus, SizeInv
  <2> QED
    BY <1>1, <2>1, <2>2 DEF SizeInv
<1> QED
  BY <1>2, <1>3, <1>4, <1>5, <1>6, <1>7 DEF CartNext

LEMMA InitSize == CartInitInit => SizeInv
<1> SUFFICES ASSUME CartInitInit PROVE SizeInv
  OBVIOUS
<1>1. BusInv
  BY InitBusInv DEF CartInitInit
<1>2. CartOK
  BY DEF CartInitInit, CartOK
<1>3. InFlight /\ ReadingBank0 /\ Searching /\ SizeRight
  BY DEF CartInitInit, InFlight, ReadingBank0, Searching, SizeRight
<1> QED
  BY <1>1, <1>2, <1>3 DEF SizeInv

(***************************************************************************)
(* init never finds more than the cartridge has, and finds its size when   *)
(* the banks at the powers of two differ from bank 0 and bank 2 is not     *)
(* blank: for every set of such cartridges and every size of a bank, in    *)
(* spite of what debugging, reading and checking commands, a reset of the  *)
(* firmware or another cartridge left in the slots.                        *)
(***************************************************************************)
THEOREM SizeFound == CartSpec => []SizeRight
<1>1. SizeInv => SizeRight
  BY DEF SizeInv
<1> QED
  BY <1>1, InitSize, SizeStep, PTL DEF CartSpec


-----------------------------------------------------------------------------
(***************************************************************************)
(* The ranges of the variables.  Of the mapper's registers only the four   *)
(* the program means to write are ever written, and never the value that   *)
(* shows RAM in slot 2.                                                    *)
(***************************************************************************)
Cycles == [op : {"read"}, at : Nat \cup ReadFrom, data : {0}]
          \cup {Clk(Control, 128)} \cup {Clk(Slot(n), d) : n \in 0..2, d \in 0..FF}

Ranges ==
    /\ cart \in Carts /\ slots \in [0..2 -> 0..FF] /\ ram \in BOOLEAN
    /\ cmd \in {"none", "init", "bc", "look"}
    /\ stage \in {"none", "bank0", "first", "crc", "blank", "check"}
    /\ i \in 0..SearchLimit /\ off \in Nat /\ (cmd = "init" => off < BankBytes)
    /\ Len(bank0) <= BankBytes /\ Len(crc) <= BankBytes
    /\ s_rom_size \in Nat \ {0} /\ s_flash_size \in Nat
    /\ is_flash_cartridge \in BOOLEAN
    /\ answer \in {"none", "YES", "NO"} /\ fresh \in BOOLEAN /\ sized \in BOOLEAN

\* Between commands nothing is under way; r and d1 have no stages.
Resting ==
    /\ cmd = "none" => pc = "idle" /\ queue = <<>>
    /\ cmd \in {"none", "look"} => stage = "none"
    /\ stage = "check" => cmd = "bc"

RangeInv == SizeInv /\ Ranges /\ Resting /\ queue \in Seq(Cycles)

LEMMA Counts ==
    /\ BankBytes \in Nat \ {0} /\ BankBytes <= 16384 /\ SearchLimit \in Powers \ {1}
    /\ SearchLimit \in Nat \ {0} /\ FlashMax \in Nat /\ RomSizes \subseteq Nat \ {0}
<1>1. /\ BankBytes \in Nat \ {0} /\ BankBytes <= 16384 /\ SearchLimit \in Powers \ {1}
      /\ FlashMax \in Nat /\ RomSizes \subseteq Nat \ {0}
  BY CartInitAssumption
<1> QED
  BY <1>1 DEF Powers

LEMMA KnownCycles ==
    /\ \A a \in Nat \cup ReadFrom : Read(a) \in Cycles
    /\ Clk(Control, 128) \in Cycles
    /\ \A n \in 0..2, d \in 0..FF : Clk(Slot(n), d) \in Cycles
  BY DEF Cycles, Read

LEMMA SlotCycle ==
    ASSUME NEW n \in 0..2, NEW d \in 0..FF
    PROVE  mapper_setSlot(n, d) \in Seq(Cycles)
<1>1. Clk(Slot(n), d) \in Cycles
  BY KnownCycles
<1> QED
  BY <1>1 DEF mapper_setSlot

LEMMA InitCycles == mapper_init \in Seq(Cycles)
<1>1. /\ Clk(Control, 128) \in Cycles /\ Clk(Slot(0), 0) \in Cycles
      /\ Clk(Slot(1), 1) \in Cycles /\ Clk(Slot(2), 2) \in Cycles
  BY KnownCycles DEF FF
<1> HIDE DEF Cycles
<1> QED
  BY <1>1 DEF mapper_init

LEMMA ReadCycle ==
    ASSUME NEW a \in Nat \cup ReadFrom
    PROVE  <<Read(a)>> \in Seq(Cycles)
<1>1. Read(a) \in Cycles
  BY KnownCycles
<1> QED
  BY <1>1

\* Queues put together of these are queues of these.
LEMMA Chains ==
    /\ mapper_init \o <<Read(32752)>> \o mapper_setSlot(2, 0) \in Seq(Cycles)
    /\ mapper_setSlot(0, 0) \o mapper_setSlot(1, 1) \in Seq(Cycles)
    /\ mapper_init \o <<Read(Bus(0, 0)), Read(Bus(1, 0))>>
           \o ShowBank(0) \o ShowBank(1) \o ShowBank(2)
           \o ShowBank(3) \o ShowBank(4) \o ShowBank(5) \in Seq(Cycles)
<1>1. /\ Read(Bus(0, 0)) \in Cycles /\ Read(Bus(1, 0)) \in Cycles /\ Read(Bus(2, 0)) \in Cycles
      /\ Read(32752) \in Cycles
  BY KnownCycles DEF Bus
<1> DEFINE m == mapper_init
           a == mapper_setSlot(2, 0)
           c == mapper_setSlot(0, 0)
           d == mapper_setSlot(1, 1)
           r == <<Read(32752)>>
           s == <<Read(Bus(0, 0)), Read(Bus(1, 0))>>
           b(n) == ShowBank(n)
<1>2. /\ m \in Seq(Cycles) /\ a \in Seq(Cycles) /\ c \in Seq(Cycles)
      /\ d \in Seq(Cycles) /\ r \in Seq(Cycles) /\ s \in Seq(Cycles)
  BY <1>1, InitCycles, SlotCycle DEF FF
<1>3. \A x, y \in Seq(Cycles) : x \o y \in Seq(Cycles)
  BY ConcatProperties
<1>4. \A n \in 0..5 : b(n) \in Seq(Cycles)
  <2>1. ASSUME NEW n \in 0..5 PROVE mapper_setSlot(2, n) \in Seq(Cycles)
    <3>1. n \in 0..FF /\ 2 \in 0..2
      BY DEF FF
    <3> QED
      BY <3>1, SlotCycle
  <2>2. <<Read(Bus(2, 0))>> \in Seq(Cycles)
    BY <1>1
  <2> QED
    BY <1>3, <2>1, <2>2 DEF ShowBank
<1> HIDE DEF m, a, b, c, d, r, s
<1>5. m \o r \o a \in Seq(Cycles) /\ c \o d \in Seq(Cycles) /\ m \o s \in Seq(Cycles)
  BY <1>2, <1>3
<1>6. m \o s \o b(0) \o b(1) \o b(2) \in Seq(Cycles)
  BY <1>3, <1>4, <1>5
<1>7. m \o s \o b(0) \o b(1) \o b(2) \o b(3) \o b(4) \o b(5) \in Seq(Cycles)
  BY <1>3, <1>4, <1>6
<1> QED
  BY <1>5, <1>7 DEF m, a, b, c, d, r, s


(***************************************************************************)
(* A cycle that is queued reads, or writes a mapper's register that the    *)
(* program means to write.                                                 *)
(***************************************************************************)
LEMMA CycleKinds ==
    ASSUME NEW c \in Cycles
    PROVE  \/ c.op = "read"
           \/ c.op = "clk" /\ c.at = Control /\ c.data = 128
           \/ \E n \in 0..2, d \in 0..FF : c.op = "clk" /\ c.at = Slot(n) /\ c.data = d
  BY DEF Cycles, Clk

LEMMA ClockedRanges ==
    ASSUME slots \in [0..2 -> 0..FF], ram \in BOOLEAN, NEW c \in Cycles, c.op = "clk",
           Clocked(c.at, c.data)
    PROVE  /\ slots' \in [0..2 -> 0..FF] /\ ram' \in BOOLEAN
           /\ cart.mapper /\ ~ram => ~ram'
<1>1. CASE c.at = Control /\ c.data = 128
  <2>1. Clocked(Control, 128)
    BY <1>1
  <2>2. ~(Control > Control) /\ 128 # 8
    BY DEF Control
  <2>3. slots' = slots
    BY <2>1, <2>2, Zenon DEF Clocked
  <2>4. ram' = FALSE \/ ram' = ram
    BY <2>1, <2>2, Zenon DEF Clocked
  <2>5. cart.mapper => ram' = FALSE
    BY <2>1, <2>2, Zenon DEF Clocked
  <2> QED
    BY <2>3, <2>4, <2>5, Zenon
<1>2. CASE \E n \in 0..2, d \in 0..FF : c.at = Slot(n) /\ c.data = d
  <2>1. PICK n \in 0..2, d \in 0..FF : c.at = Slot(n) /\ c.data = d
    BY <1>2, Zenon
  <2>2. Clocked(Slot(n), d)
    BY <2>1, Zenon
  <2>3. Slot(n) # Control /\ Slot(n) > Control /\ Slot(n) - Slot(0) = n
    BY DEF Slot, Control
  <2>4. ram' = ram
    BY <2>2, <2>3, Zenon DEF Clocked
  <2>5. slots' = slots \/ slots' = [slots EXCEPT ![n] = d]
    BY <2>2, <2>3, Zenon DEF Clocked
  <2> QED
    BY <2>4, <2>5
<1> QED
  BY <1>1, <1>2, CycleKinds

LEMMA QueuedRanges ==
    ASSUME RangeInv, Queued
    PROVE  /\ Ranges' /\ queue' \in Seq(Cycles)
           /\ cart.mapper /\ ~ram => ~ram'
<1>1. /\ queue # <<>> /\ queue \in Seq(Cycles) /\ queue' = Tail(queue) /\ cmd # "none"
      /\ Ranges /\ SizeInv
      /\ UNCHANGED <<cart, i, off, bank0, crc, s_rom_size, s_flash_size, is_flash_cartridge,
                     answer, fresh, sized, cmd, stage>>
  BY DEF RangeInv, Resting, Queued, loopVars, sizeVars
<1>2. queue' \in Seq(Cycles) /\ queue[1] \in Cycles
  BY <1>1, HeadTailProperties
<1>3. slots \in [0..2 -> 0..FF] /\ ram \in BOOLEAN
  BY <1>1, Zenon DEF Ranges
<1>4. queue[1].op = "read" \/ queue[1].op = "clk"
  BY <1>2, CycleKinds
<1>5. slots' \in [0..2 -> 0..FF] /\ ram' \in BOOLEAN /\ (cart.mapper /\ ~ram => ~ram')
  <2>1. CASE queue[1].op = "clk"
    BY <1>1, <1>2, <1>3, <2>1, QueuedCycle, ClockedRanges, Zenon
  <2>2. CASE queue[1].op = "read"
    <3>1. UNCHANGED <<slots, ram>>
      BY <1>1, <2>2, QueuedCycle
    <3> QED
      BY <1>3, <3>1, Zenon
  <2> QED
    BY <1>4, <2>1, <2>2, Zenon
<1>6. Ranges'
  BY <1>1, <1>5 DEF Ranges
<1> QED
  BY <1>2, <1>5, <1>6

-----------------------------------------------------------------------------
(***************************************************************************)
(* The search.                                                             *)
(***************************************************************************)
LEMMA FoundRanges ==
    ASSUME cart \in Carts, s_flash_size \in Nat, NEW n \in Powers, Found(n)
    PROVE  /\ s_rom_size' \in Nat \ {0} /\ s_flash_size' \in Nat
           /\ is_flash_cartridge' \in BOOLEAN /\ answer' = "none"
           /\ fresh' \in BOOLEAN /\ sized' \in BOOLEAN
           /\ off' = 0 /\ stage' = "none" /\ queue' \in Seq(Cycles)
<1>1. /\ n \in Nat \ {0} /\ BankBytes \in Nat \ {0} /\ FlashMax \in Nat /\ Banks(cart) \in Nat
  BY Counts, CartFacts DEF Powers
<1>2. s_rom_size' = n * BankBytes /\ sized' = TRUE /\ fresh' = TRUE /\ answer' = "none"
  BY DEF Found
<1>3. n * BankBytes \in Nat \ {0}
  BY <1>1
<1>4. Banks(cart) * BankBytes \in Nat /\ FlashMax * BankBytes \in Nat
  BY <1>1
<1>5. s_flash_size' \in Nat
  BY <1>4 DEF Found
<1>6. is_flash_cartridge' \in BOOLEAN
  <2>1. is_flash_cartridge' = (cart.flash # "none")
    BY DEF Found
  <2> QED
    BY <2>1, Zenon
<1>7. off' = 0 /\ stage' = "none" /\ queue' = mapper_init
  BY DEF Found, Goto
<1> QED
  BY <1>2, <1>3, <1>5, <1>6, <1>7, InitCycles

\* What may follow the comparison of bank i.
Settled ==
    /\ i' \in 0..SearchLimit /\ off' = 0 /\ queue' \in Seq(Cycles)
    /\ stage' \in {"none", "first", "blank"}
    /\ s_rom_size' \in Nat \ {0} /\ s_flash_size' \in Nat
    /\ is_flash_cartridge' \in BOOLEAN /\ answer' \in {"none", "YES", "NO"}
    /\ fresh' \in BOOLEAN /\ sized' \in BOOLEAN

LEMMA NextBankRanges ==
    ASSUME Ranges, i \in Powers, i < SearchLimit, NextBank
    PROVE  Settled
<1>1. SearchLimit \in Powers /\ SearchLimit \in Nat /\ i \in Nat
  BY Counts DEF Powers
<1>2. 2 * i <= SearchLimit /\ 2 * i \in Powers /\ 2 * i \in 0..SearchLimit
  BY <1>1, Double
<1>3. CASE 2 * i < SearchLimit
  <2>1. /\ i' = 2 * i /\ off' = 0 /\ stage' = "first" /\ queue' = mapper_setSlot(2, 2 * i)
        /\ UNCHANGED sizeVars
    BY <1>3 DEF NextBank, Goto
  <2>2. 2 * i \in 0..FF
    BY <1>1, <1>2, <1>3 DEF Powers, FF
  <2>3. queue' \in Seq(Cycles)
    BY <2>1, <2>2, SlotCycle
  <2> QED
    BY <1>2, <2>1, <2>3 DEF Settled, Ranges, sizeVars
<1>4. CASE ~(2 * i < SearchLimit)
  <2>1. i' = 2 * i /\ Found(2 * i)
    BY <1>4 DEF NextBank
  <2>2. cart \in Carts /\ s_flash_size \in Nat
    BY DEF Ranges
  <2> QED
    BY <1>2, <2>1, <2>2, FoundRanges DEF Settled
<1> QED
  BY <1>3, <1>4

LEMMA AfterCompareRanges ==
    ASSUME Ranges, i \in Powers, i < SearchLimit, AfterCompare
    PROVE  Settled
<1>1. CASE i = 2
  <2>1. off' = 0 /\ stage' = "blank" /\ queue' = <<>> /\ UNCHANGED <<i, sizeVars>>
    BY <1>1 DEF AfterCompare, Goto
  <2> QED
    BY <2>1 DEF Settled, Ranges, sizeVars
<1>2. CASE i # 2
  BY <1>2, NextBankRanges DEF AfterCompare
<1> QED
  BY <1>1, <1>2


LEMMA FirstRanges ==
    ASSUME RangeInv, First
    PROVE  Ranges' /\ queue' \in Seq(Cycles)
<1>1. /\ cmd = "init" /\ stage = "first" /\ queue = <<>> /\ Ranges /\ Searching
      /\ UNCHANGED <<cart, slots, ram, bank0, cmd>> /\ crc' = <<>>
  BY DEF RangeInv, SizeInv, CartOK, First, Got, mapperVars
<1>2. i \in Powers /\ i < SearchLimit
  BY <1>1 DEF Searching
<1>3. BankBytes \in Nat \ {0} /\ Len(crc') = 0
  BY <1>1, Counts
<1>4. CASE Byte = bank0[1]
  <2>1. off' = 0 /\ stage' = "crc" /\ queue' = <<>> /\ UNCHANGED <<i, sizeVars>>
    BY <1>4 DEF First, Goto
  <2>2. queue' \in Seq(Cycles)
    BY <2>1
  <2> QED
    BY <1>1, <1>3, <2>1, <2>2 DEF Ranges, sizeVars
<1>5. CASE Byte # bank0[1]
  <2>1. Settled
    BY <1>1, <1>2, <1>5, AfterCompareRanges DEF First
  <2> QED
    BY <1>1, <1>3, <2>1 DEF Ranges, Settled
<1> QED
  BY <1>4, <1>5

LEMMA CrcRanges ==
    ASSUME RangeInv, Crc
    PROVE  Ranges' /\ queue' \in Seq(Cycles)
<1>1. /\ cmd = "init" /\ stage = "crc" /\ queue = <<>> /\ pc = "end" /\ queue \in Seq(Cycles)
      /\ CartOK /\ BusInv /\ InFlight /\ Searching /\ Ranges
      /\ UNCHANGED <<cart, slots, ram, bank0, cmd>> /\ crc' = Append(crc, Byte)
  BY DEF RangeInv, SizeInv, CartOK, Crc, Got, End, mapperVars
<1>2. /\ i \in Powers /\ i < SearchLimit /\ off \in Offsets
      /\ crc \in Seq(0..FF) /\ Len(crc) = off
  BY <1>1 DEF Searching
<1>3. Byte \in 0..FF
  BY <1>1, SearchReads
<1>4. Len(crc') = Len(crc) + 1
  BY <1>1, <1>2, <1>3, AppendProperties
<1>5. BankBytes \in Nat \ {0} /\ off \in 0..(BankBytes - 1) /\ Len(crc') = off + 1
  BY <1>2, <1>4, Counts DEF Offsets
<1>6. CASE ~Last
  <2>1. off' = off + 1 /\ UNCHANGED <<i, stage, queue, sizeVars>> /\ off # BankBytes - 1
    BY <1>6 DEF Crc, Last
  <2>2. off' \in Nat /\ off' < BankBytes /\ Len(crc') <= BankBytes
    BY <1>5, <2>1
  <2> QED
    BY <1>1, <2>1, <2>2 DEF Ranges, sizeVars
<1>7. CASE Last
  <2>1. Settled
    <3>1. CASE crc' = bank0
      <4>1. Found(i) /\ UNCHANGED i
        BY <1>1, <1>7, <3>1 DEF Crc
      <4>2. cart \in Carts /\ s_flash_size \in Nat /\ i \in 0..SearchLimit
        BY <1>1 DEF Ranges
      <4> QED
        BY <1>2, <4>1, <4>2, FoundRanges DEF Settled
    <3>2. CASE crc' # bank0
      <4>1. AfterCompare
        BY <1>1, <1>7, <3>2 DEF Crc
      <4> QED
        BY <1>1, <1>2, <4>1, AfterCompareRanges
    <3> QED
      BY <3>1, <3>2
  <2>2. Len(crc') <= BankBytes
    BY <1>5
  <2> QED
    BY <1>1, <1>5, <2>1, <2>2 DEF Ranges, Settled
<1> QED
  BY <1>6, <1>7

LEMMA BlankRanges ==
    ASSUME RangeInv, Blank
    PROVE  Ranges' /\ queue' \in Seq(Cycles)
<1>1. /\ cmd = "init" /\ stage = "blank" /\ queue = <<>> /\ queue \in Seq(Cycles)
      /\ Searching /\ Ranges
      /\ UNCHANGED <<cart, slots, ram, bank0, crc, cmd>>
  BY DEF RangeInv, SizeInv, CartOK, Blank, Got, mapperVars
<1>2. i \in Powers /\ i < SearchLimit /\ off \in 0..(BankBytes - 1)
  BY <1>1 DEF Searching, Offsets
<1>3. BankBytes \in Nat \ {0}
  BY Counts
<1>4. CASE Byte # FF
  <2>1. Settled
    BY <1>1, <1>2, <1>4, NextBankRanges DEF Blank
  <2> QED
    BY <1>1, <1>3, <2>1 DEF Ranges, Settled
<1>5. CASE Byte = FF /\ Last
  <2>1. Found(i) /\ UNCHANGED i
    BY <1>5 DEF Blank
  <2>2. cart \in Carts /\ s_flash_size \in Nat /\ i \in 0..SearchLimit
    BY <1>1 DEF Ranges
  <2>3. Settled
    BY <1>2, <2>1, <2>2, FoundRanges DEF Settled
  <2> QED
    BY <1>1, <1>3, <2>3 DEF Ranges, Settled
<1>6. CASE Byte = FF /\ ~Last
  <2>1. off' = off + 1 /\ UNCHANGED <<i, stage, queue, sizeVars>> /\ off # BankBytes - 1
    BY <1>6 DEF Blank, Last
  <2>2. off' \in Nat /\ off' < BankBytes
    BY <1>2, <1>3, <2>1
  <2> QED
    BY <1>1, <2>1, <2>2 DEF Ranges, sizeVars
<1> QED
  BY <1>4, <1>5, <1>6

LEMMA Bank0Ranges ==
    ASSUME RangeInv, Bank0
    PROVE  Ranges' /\ queue' \in Seq(Cycles)
<1>1. /\ cmd = "init" /\ stage = "bank0" /\ queue = <<>> /\ queue \in Seq(Cycles)
      /\ ReadingBank0 /\ Ranges
      /\ UNCHANGED <<cart, slots, ram, crc, s_rom_size, s_flash_size, is_flash_cartridge,
                     answer, fresh, sized, cmd>>
      /\ bank0' = Append(bank0, Byte)
  BY DEF RangeInv, SizeInv, CartOK, Bank0, Got, End, mapperVars, sizeVars, Resting
<1>2. off \in 0..(BankBytes - 1) /\ bank0 \in Seq(0..FF) /\ Len(bank0) = off
  BY <1>1 DEF ReadingBank0, Offsets
<1>3. BankBytes \in Nat \ {0} /\ SearchLimit \in Nat \ {0}
  BY Counts
<1>4. Len(bank0') = off + 1
  BY <1>1, <1>2, AppendProperties
<1>5. Len(bank0') <= BankBytes
  BY <1>2, <1>3, <1>4
<1>6. CASE Last
  <2>1. i' = 1 /\ off' = 0 /\ stage' = "first" /\ queue' = <<Read(0)>>
    BY <1>6 DEF Bank0, Goto
  <2>2. queue' \in Seq(Cycles)
    BY <2>1, ReadCycle
  <2> QED
    BY <1>1, <1>3, <1>5, <2>1, <2>2 DEF Ranges
<1>7. CASE ~Last
  <2>1. off' = off + 1 /\ UNCHANGED <<i, stage, queue>> /\ off # BankBytes - 1
    BY <1>7 DEF Bank0, Last
  <2>2. off' \in Nat /\ off' < BankBytes
    BY <1>2, <1>3, <2>1
  <2> QED
    BY <1>1, <1>5, <2>1, <2>2 DEF Ranges
<1> QED
  BY <1>6, <1>7

(***************************************************************************)
(* bc, whose bank number is written as a byte.                             *)
(***************************************************************************)
LEMMA PageCycle ==
    ASSUME NEW n \in Nat
    PROVE  Page(n) \in Seq(Cycles)
<1>1. BankBytes \in Nat \ {0}
  BY Counts
<1>2. n \div BankBytes \in Nat
  BY <1>1, SMT
<1>3. \A m \in Nat : m % 256 \in 0..FF
  BY DEF FF
<1> DEFINE d == (n \div BankBytes) % 256
<1>4. d \in 0..FF
  BY <1>2, <1>3
<1> HIDE DEF d
<1>5. mapper_setSlot(2, d) \in Seq(Cycles)
  BY <1>4, SlotCycle
<1> QED
  BY <1>5 DEF Page, d

LEMMA CheckRanges ==
    ASSUME RangeInv, Check
    PROVE  Ranges' /\ queue' \in Seq(Cycles)
<1>1. /\ stage = "check" /\ queue = <<>> /\ Ranges /\ CartOK /\ off \in Nat
      /\ UNCHANGED <<cart, slots, ram, i, bank0, crc, s_rom_size, s_flash_size,
                     is_flash_cartridge, fresh, sized, cmd>>
  BY DEF RangeInv, SizeInv, Ranges, Check, Got, mapperVars
<1>2. cmd # "init"
  BY <1>1 DEF RangeInv, Resting
<1>3. \/ answer' = "NO" /\ off' = 0 /\ stage' = "none" /\ queue' = <<>>
      \/ answer' = "YES" /\ off' = 0 /\ stage' = "none" /\ queue' = <<>>
      \/ answer' = answer /\ off' = off + 1 /\ stage' = "check" /\ queue' = Page(off + 1)
  BY DEF Check, Goto
<1>4. queue' \in Seq(Cycles)
  <2>1. Page(off + 1) \in Seq(Cycles)
    BY <1>1, PageCycle
  <2>2. <<>> \in Seq(Cycles)
    OBVIOUS
  <2> QED
    BY <1>3, <2>1, <2>2, Zenon
<1> QED
  BY <1>1, <1>2, <1>3, <1>4 DEF Ranges


(***************************************************************************)
(* The command line.                                                       *)
(***************************************************************************)
LEMMA CommandRanges ==
    ASSUME RangeInv, Command
    PROVE  Ranges' /\ queue' \in Seq(Cycles) /\ Resting'
<1>1. Ranges /\ queue \in Seq(Cycles) /\ Resting /\ BankBytes \in Nat \ {0}
  BY Counts DEF RangeInv
<1>2. CASE initCart
  <2>1. /\ UNCHANGED <<cart, slots, ram, s_rom_size, s_flash_size, is_flash_cartridge,
                       answer, fresh, sized>>
        /\ cmd' = "init" /\ stage' = "bank0" /\ i' = 0 /\ off' = 0
        /\ bank0' = <<>> /\ crc' = <<>>
    BY <1>2 DEF initCart, Ready, Goto, mapperVars, sizeVars
  <2>2. queue' \in Seq(Cycles)
    BY <1>2, Chains DEF initCart, Goto
  <2>3. Len(bank0') = 0 /\ Len(crc') = 0 /\ 0 \in 0..SearchLimit
    BY <2>1, Counts
  <2> QED
    BY <1>1, <2>1, <2>2, <2>3 DEF Ranges, Resting
<1>3. CASE cmd_blankcheck
  <2>1. /\ UNCHANGED <<cart, slots, ram, i, bank0, crc, s_rom_size, s_flash_size,
                       is_flash_cartridge, fresh, sized>>
        /\ cmd' = "bc" /\ stage' = "check" /\ off' = 0 /\ answer' = "none"
    BY <1>3 DEF cmd_blankcheck, Ready, Goto, mapperVars
  <2>2. queue' \in Seq(Cycles)
    BY <1>3, Chains DEF cmd_blankcheck, Goto
  <2> QED
    BY <1>1, <2>1, <2>2 DEF Ranges, Resting
<1>4. ASSUME NEW n \in RomSizes, cmd_setromsize(n)
      PROVE  Ranges' /\ queue' \in Seq(Cycles) /\ Resting'
  <2>1. /\ UNCHANGED <<cart, slots, ram, i, off, bank0, crc, s_flash_size, is_flash_cartridge,
                       fresh, cmd, stage, queue>>
        /\ s_rom_size' = n /\ sized' = FALSE /\ answer' = "none" /\ pc' = pc
    BY <1>4 DEF cmd_setromsize, Ready, mapperVars, loopVars, vars
  <2>2. n \in Nat \ {0}
    BY Counts
  <2> QED
    BY <1>1, <2>1, <2>2 DEF Ranges, Resting
<1>5. ASSUME NEW q \in Seq(Cycles), Look(q)
      PROVE  Ranges' /\ queue' \in Seq(Cycles) /\ Resting'
  <2>1. /\ UNCHANGED <<cart, slots, ram, i, off, bank0, crc, s_rom_size, s_flash_size,
                       is_flash_cartridge, answer, fresh, sized>>
        /\ cmd = "none" /\ cmd' = "look" /\ stage' = "none" /\ queue' = q
    BY <1>5 DEF Look, Ready, Idle, Goto, mapperVars, loopVars, sizeVars
  <2> QED
    BY <1>1, <2>1 DEF Ranges, Resting
<1>6. ASSUME NEW a \in ReadFrom, readaddress(a)
      PROVE  Ranges' /\ queue' \in Seq(Cycles) /\ Resting'
  BY <1>5, <1>6, ReadCycle DEF readaddress
<1>7. CASE debug1
  <2> DEFINE q == mapper_init \o <<Read(Bus(0, 0)), Read(Bus(1, 0))>>
                     \o ShowBank(0) \o ShowBank(1) \o ShowBank(2)
                     \o ShowBank(3) \o ShowBank(4) \o ShowBank(5)
  <2>1. q \in Seq(Cycles)
    BY Chains
  <2>2. Look(q)
    BY <1>7 DEF debug1
  <2> HIDE DEF q
  <2> QED
    BY <1>5, <2>1, <2>2
<1> QED
  BY <1>2, <1>3, <1>4, <1>6, <1>7 DEF Command

LEMMA IdleRanges ==
    ASSUME RangeInv, Done \/ Reset \/ \E c \in Carts : Swap(c)
    PROVE  Ranges' /\ queue' \in Seq(Cycles) /\ Resting'
<1>1. Ranges /\ queue \in Seq(Cycles) /\ Resting /\ BankBytes \in Nat \ {0}
  BY Counts DEF RangeInv
<1>2. CASE Done
  <2>1. /\ UNCHANGED <<cart, slots, ram, i, off, bank0, crc, s_rom_size, s_flash_size,
                       is_flash_cartridge, answer, fresh, sized, stage, queue>>
        /\ cmd' = "none" /\ stage = "none" /\ queue = <<>> /\ pc = "idle" /\ pc' = pc
    BY <1>2 DEF Done, mapperVars, loopVars, sizeVars, vars
  <2> QED
    BY <1>1, <2>1 DEF Ranges, Resting
<1>3. CASE Reset
  <2>1. /\ UNCHANGED <<cart, slots, ram, i, off, bank0, crc, cmd, stage, queue, pc>>
        /\ s_rom_size' = 2 * BankBytes /\ s_flash_size' = 0 /\ is_flash_cartridge' = FALSE
        /\ fresh' = FALSE /\ sized' = FALSE /\ answer' = "none"
    BY <1>3 DEF Reset, resetFirmware, mapperVars, loopVars, cmdVars
  <2>2. 2 * BankBytes \in Nat \ {0}
    BY <1>1
  <2> QED
    BY <1>1, <2>1, <2>2 DEF Ranges, Resting
<1>4. ASSUME NEW c \in Carts, Swap(c)
      PROVE  Ranges' /\ queue' \in Seq(Cycles) /\ Resting'
  <2>1. /\ UNCHANGED <<i, off, bank0, crc, s_rom_size, s_flash_size, is_flash_cartridge,
                       cmd, stage, queue, pc>>
        /\ cart' = c /\ slots' = [s \in 0..2 |-> s] /\ ram' \in BOOLEAN
        /\ fresh' = FALSE /\ sized' = FALSE /\ answer' = "none"
    BY <1>4 DEF Swap, vars, loopVars, cmdVars
  <2>2. slots' \in [0..2 -> 0..FF]
    BY <2>1 DEF FF
  <2> QED
    BY <1>1, <2>1, <2>2 DEF Ranges, Resting
<1> QED
  BY <1>2, <1>3, <1>4

LEMMA SteadyRanges ==
    ASSUME RangeInv, UNCHANGED <<cart, mapperVars, loopVars, sizeVars, cmd, stage, queue>>
    PROVE  Ranges' /\ queue' \in Seq(Cycles)
<1>1. /\ UNCHANGED <<cart, slots, ram, i, off, bank0, crc, s_rom_size, s_flash_size,
                     is_flash_cartridge, answer, fresh, sized, cmd, stage, queue>>
      /\ Ranges /\ queue \in Seq(Cycles)
  BY DEF RangeInv, mapperVars, loopVars, sizeVars
<1> QED
  BY <1>1 DEF Ranges

LEMMA RangeStep == RangeInv /\ [CartNext]_<<vars, cartVars>> => RangeInv'
<1> SUFFICES ASSUME RangeInv, [CartNext]_<<vars, cartVars>> PROVE RangeInv'
  OBVIOUS
<1>1. SizeInv' /\ Resting
  BY SizeStep DEF RangeInv
<1>2. CASE Command
  BY <1>1, <1>2, CommandRanges DEF RangeInv
<1>3. CASE Done \/ Reset \/ \E c \in Carts : Swap(c)
  BY <1>1, <1>3, IdleRanges DEF RangeInv
<1>4. CASE CallNext
  <2>1. Ranges' /\ queue' \in Seq(Cycles)
    BY <1>4, SteadyRanges DEF CallNext
  <2>2. Resting'
    BY <1>1, <1>4 DEF CallNext, Resting
  <2> QED
    BY <1>1, <2>1, <2>2 DEF RangeInv
<1>5. CASE BusStep
  <2>1. Ranges' /\ queue' \in Seq(Cycles)
    BY <1>5, SteadyRanges DEF BusStep, cartVars, cmdVars
  <2>2. UNCHANGED <<cmd, stage, queue>>
    BY <1>5 DEF BusStep, cartVars, cmdVars
  <2>3. pc # "idle"
    BY <1>5 DEF BusStep, setCartAddress, Nibbles, Latch, Select, Strobe, ClockLow
  <2>4. Resting'
    BY <1>1, <2>2, <2>3 DEF Resting
  <2> QED
    BY <1>1, <2>1, <2>4 DEF RangeInv
<1>6. CASE CycleEnds
  <2>1. Ranges' /\ queue' \in Seq(Cycles)
    BY <1>6, QueuedRanges, FirstRanges, CrcRanges, BlankRanges, Bank0Ranges, CheckRanges
    DEF CycleEnds
  <2>2. pc = "end" /\ cmd' = cmd
    BY <1>6 DEF CycleEnds, Queued, Bank0, First, Crc, Blank, Check, Got, End
  <2>3. cmd \notin {"none"}
    BY <1>1, <2>2 DEF Resting
  <2>4. CASE Queued
    BY <1>1, <2>2, <2>3, <2>4, <2>1 DEF Queued, Resting, RangeInv
  <2>5. CASE Bank0 \/ First \/ Crc \/ Blank
    <3>1. stage # "check" /\ stage # "none"
      BY <2>5 DEF Bank0, First, Crc, Blank, Got
    <3>2. cmd = "init"
      BY <1>1, <3>1 DEF RangeInv, SizeInv, CartOK, Ranges
    <3>3. stage' # "check"
      BY <3>1, <2>5 DEF Bank0, First, Crc, Blank, AfterCompare, NextBank, Found, Goto
    <3> QED
      BY <1>1, <2>1, <2>2, <3>2, <3>3 DEF Resting, RangeInv
  <2>6. CASE Check
    <3>1. stage = "check"
      BY <2>6 DEF Check, Got
    <3>2. cmd = "bc"
      BY <1>1, <3>1 DEF Resting
    <3> QED
      BY <1>1, <2>1, <2>2, <3>2 DEF Resting, RangeInv
  <2> QED
    BY <1>6, <2>4, <2>5, <2>6 DEF CycleEnds
<1>7. CASE UNCHANGED <<vars, cartVars>>
  <2>1. Ranges' /\ queue' \in Seq(Cycles)
    BY <1>7, SteadyRanges DEF cartVars, cmdVars
  <2>2. UNCHANGED <<cmd, stage, queue, pc>>
    BY <1>7 DEF cartVars, cmdVars, vars
  <2> QED
    BY <1>1, <2>1, <2>2 DEF RangeInv, Resting
<1> QED
  BY <1>2, <1>3, <1>4, <1>5, <1>6, <1>7 DEF CartNext

LEMMA InitRanges == CartInitInit => RangeInv
<1> SUFFICES ASSUME CartInitInit PROVE RangeInv
  OBVIOUS
<1>1. SizeInv
  BY InitSize
<1>2. BankBytes \in Nat \ {0} /\ 2 * BankBytes \in Nat \ {0} /\ 0 \in 0..SearchLimit
  BY Counts
<1>3. slots \in [0..2 -> 0..FF] /\ Len(bank0) = 0 /\ Len(crc) = 0
  BY DEF CartInitInit, FF
<1>4. Ranges
  BY <1>2, <1>3 DEF CartInitInit, Ranges
<1>5. Resting /\ queue \in Seq(Cycles)
  BY DEF CartInitInit, Init, Resting
<1> QED
  BY <1>1, <1>4, <1>5 DEF RangeInv

(***************************************************************************)
(* The program's variables keep their ranges: no loop of init runs past a  *)
(* bank or the last bank searched, the sizes stay positive, and the        *)
(* mapper's registers hold bytes.                                          *)
(***************************************************************************)
THEOREM RangesKept == CartSpec => []CartTypeOK
<1>1. RangeInv /\ TypeOK => CartTypeOK
  BY DEF RangeInv, Ranges, CartTypeOK
<1> QED
  BY <1>1, InitRanges, RangeStep, CommandsUseBus, TypeCorrect, PTL DEF CartSpec


-----------------------------------------------------------------------------
(***************************************************************************)
(* What bc says of a cartridge init has looked at.                         *)
(***************************************************************************)

\* What init learnt of the flash, and RAM is not shown instead of slot 2.
FreshRight ==
    fresh =>
        /\ is_flash_cartridge <=> cart.flash # "none"
        /\ cart.flash = "known" => s_flash_size = Banks(cart) * BankBytes
        /\ cart.flash = "unknown" => s_flash_size = FlashMax * BankBytes
        /\ cart.mapper => ~ram

\* Slots 0 and 1 are set before the first byte is read, slot 2 before the
\* first byte of each bank it shows.
PageOf(n) == (n \div BankBytes) % 256

CheckQueue ==
    /\ Len(queue) <= 2
    /\ off = 0 => /\ Len(queue) = 2 => queue[1] = Clk(Slot(0), 0) /\ queue[2] = Clk(Slot(1), 1)
                  /\ Len(queue) = 1 => queue[1] = Clk(Slot(1), 1)
    /\ off > 0 => /\ Len(queue) <= 1
                  /\ Len(queue) = 1 => queue[1] = Clk(Slot(2), PageOf(off))

CheckSlots ==
    cart.mapper =>
        /\ off > 0 \/ Len(queue) <= 1 => slots[0] = 0
        /\ off > 0 \/ Len(queue) = 0 => slots[1] = 1
        /\ off >= 2 * BankBytes /\ Len(queue) = 0 => slots[2] = PageOf(off)

\* What was read so far is blank.
Checking ==
    cmd = "bc" /\ stage = "check" /\ fresh =>
        /\ off < CheckSize /\ answer = "none"
        /\ \A n \in 0..(off - 1) : CellAt(n) = FF
        /\ CheckQueue /\ CheckSlots

BlankInv == RangeInv /\ FreshRight /\ Checking /\ BlankRight


(***************************************************************************)
(* Banks and their bytes.                                                  *)
(***************************************************************************)
LEMMA QuotientRest ==
    ASSUME NEW m \in Nat \ {0}, NEW q \in Nat, NEW r \in 0..(m - 1)
    PROVE  (q * m + r) \div m = q /\ (q * m + r) % m = r
<1> DEFINE x == q * m + r
           d == x \div m
<1>a. x \in Int
  BY SMT
<1> HIDE DEF x
<1>1. d \in Int
  BY <1>a, SMT
<1>2. x = (m * d) + (x % m) /\ x % m \in 0..(m - 1)
  BY <1>a, SMT
<1> HIDE DEF d
<1>3. m * (q - d) = (x % m) - r
  BY <1>1, <1>2, SMT DEF x
<1>4. q - d >= 1 => m * (q - d) >= m
  BY <1>1, SMT
<1>5. q - d <= -1 => m * (q - d) <= -m
  BY <1>1, SMT
<1>6. q = d
  BY <1>1, <1>2, <1>3, <1>4, <1>5, SMT
<1>7. x % m = r
  BY <1>1, <1>2, <1>3, <1>6, SMT
<1> QED
  BY <1>6, <1>7 DEF d, x

LEMMA Parts ==
    ASSUME NEW n \in Nat
    PROVE  /\ n \div BankBytes \in Nat /\ n % BankBytes \in 0..(BankBytes - 1)
           /\ n = (n \div BankBytes) * BankBytes + (n % BankBytes)
<1>1. BankBytes \in Nat \ {0}
  BY Counts
<1> QED
  BY <1>1, SMT

\* The bank changes only where Page sets slot 2.
LEMMA SameBankOf ==
    ASSUME NEW n \in Nat, (n + 1) % BankBytes # 0
    PROVE  (n + 1) \div BankBytes = n \div BankBytes
<1>1. BankBytes \in Nat \ {0}
  BY Counts
<1> DEFINE q == n \div BankBytes
           r == n % BankBytes
<1>2. q \in Nat /\ r \in 0..(BankBytes - 1) /\ n = q * BankBytes + r
  BY Parts
<1> HIDE DEF q, r
<1>3. CASE r + 1 = BankBytes
  <2>1. n + 1 = (q + 1) * BankBytes + 0 /\ q + 1 \in Nat /\ 0 \in 0..(BankBytes - 1)
    BY <1>1, <1>2, <1>3, SMT
  <2>2. ((q + 1) * BankBytes + 0) % BankBytes = 0
    BY <1>1, <2>1, QuotientRest, Zenon
  <2>3. (n + 1) % BankBytes = 0
    BY <2>1, <2>2, Zenon
  <2> QED
    BY <2>3
<1>4. CASE r + 1 # BankBytes
  <2>1. n + 1 = q * BankBytes + (r + 1) /\ r + 1 \in 0..(BankBytes - 1)
    BY <1>1, <1>2, <1>4, SMT
  <2>2. (q * BankBytes + (r + 1)) \div BankBytes = q
    BY <1>1, <1>2, <2>1, QuotientRest, Zenon
  <2>3. (n + 1) \div BankBytes = q
    BY <2>1, <2>2, Zenon
  <2> QED
    BY <2>3 DEF q
<1> QED
  BY <1>3, <1>4

\* Slots 0 and 1 show the first two banks.
LEMMA LowBanks ==
    ASSUME NEW n \in Nat
    PROVE  /\ n < 2 * BankBytes <=> n \div BankBytes < 2
           /\ n + 1 = 2 * BankBytes => (n + 1) % BankBytes = 0
<1>1. BankBytes \in Nat \ {0}
  BY Counts
<1> DEFINE q == n \div BankBytes
           r == n % BankBytes
<1>2. q \in Nat /\ r \in 0..(BankBytes - 1) /\ n = q * BankBytes + r
  BY Parts
<1> HIDE DEF q, r
<1>3. q < 2 => n < 2 * BankBytes
  <2>1. q < 2 => q = 0 \/ q = 1
    BY <1>2
  <2>2. CASE q = 0
    BY <1>1, <1>2, <2>2, SMT
  <2>3. CASE q = 1
    BY <1>1, <1>2, <2>3, SMT
  <2> QED
    BY <2>1, <2>2, <2>3
<1>4. q >= 2 => n >= 2 * BankBytes
  <2>1. q >= 2 => 2 * BankBytes <= q * BankBytes
    BY <1>1, <1>2, Times
  <2>2. q * BankBytes \in Nat
    BY <1>1, <1>2, SMT
  <2> QED
    BY <1>1, <1>2, <2>1, <2>2
<1>5. n + 1 = 2 * BankBytes => (n + 1) % BankBytes = 0
  <2>1. (2 * BankBytes + 0) % BankBytes = 0 /\ 2 * BankBytes + 0 = 2 * BankBytes
    <3>1. 2 \in Nat /\ 0 \in 0..(BankBytes - 1) /\ 2 * BankBytes + 0 = 2 * BankBytes
      BY <1>1, SMT
    <3> QED
      BY <1>1, <3>1, QuotientRest, Zenon
  <2> QED
    BY <2>1
<1> QED
  BY <1>1, <1>2, <1>3, <1>4, <1>5, SMT DEF q

(***************************************************************************)
(* A bank's number as a byte shows the same bank.                          *)
(***************************************************************************)
LEMMA ByteMod ==
    ASSUME NEW p \in Powers, NEW x \in Nat
    PROVE  (x % 256) % p = x % p
<1>1. p = 1 \/ p = 2 \/ p = 4 \/ p = 8 \/ p = 16 \/ p = 32 \/ p = 64 \/ p = 128
      \/ p = 256
  BY DEF Powers
<1> QED
  BY <1>1, SMT

LEMMA BankShown ==
    ASSUME cart \in Carts, NEW x \in Nat, NEW o
    PROVE  /\ Cell(cart, x % 256, o) = Cell(cart, x, o)
           /\ Cell(cart, x % Banks(cart), o) = Cell(cart, x, o)
<1>1. Banks(cart) \in Powers
  BY CartFacts
<1>2. (x % 256) % Banks(cart) = x % Banks(cart)
  BY <1>1, ByteMod
<1>3. (x % Banks(cart)) % Banks(cart) = x % Banks(cart)
  <2>1. \A p \in Powers : (x % p) % p = x % p
    <3>1. ASSUME NEW p \in Powers
          PROVE  (x % p) % p = x % p
      <4>1. p = 1 \/ p = 2 \/ p = 4 \/ p = 8 \/ p = 16 \/ p = 32 \/ p = 64 \/ p = 128
      \/ p = 256
        BY DEF Powers
      <4> QED
        BY <4>1, SMT
    <3> QED
      BY <3>1
  <2> QED
    BY <1>1, <2>1
<1> QED
  BY <1>2, <1>3 DEF Cell


(***************************************************************************)
(* The byte bc reads is the cell it means to look at.                      *)
(***************************************************************************)
LEMMA BusParts ==
    ASSUME NEW s \in 0..2, NEW o \in Offsets
    PROVE  Bus(s, o) \div 16384 = s /\ Bus(s, o) % 16384 = o
<1>1. o \in Nat /\ o < 16384
  BY Counts DEF Offsets
<1>2. s = 0 \/ s = 1 \/ s = 2
  OBVIOUS
<1> QED
  BY <1>1, <1>2, SMT DEF Bus

LEMMA CheckReads ==
    ASSUME BlankInv, fresh, cmd = "bc", stage = "check", queue = <<>>, pc = "end"
    PROVE  Byte = CellAt(off)
<1>1. /\ BusInv /\ InFlight /\ cart \in Carts /\ off \in Nat /\ CheckSlots
      /\ Len(queue) = 0 /\ (cart.mapper => ~ram)
  BY DEF BlankInv, RangeInv, SizeInv, Ranges, Checking, FreshRight
<1> DEFINE q == off \div BankBytes
           r == off % BankBytes
<1>2. q \in Nat /\ r \in Offsets /\ (off < 2 * BankBytes <=> q < 2)
  BY <1>1, Parts, LowBanks DEF Offsets
<1>3. CartAddress = IF q < 2 THEN Bus(q, r) ELSE Bus(2, r)
  BY <1>1, <1>2, Pins DEF InFlight, NextAccess, Read, ReadAddress
<1>4. CellAt(off) = IF cart.mapper \/ q < 2 THEN Cell(cart, q, r) ELSE FF
  BY <1>2 DEF CellAt
<1>5. cart.mapper => /\ slots[0] = 0 /\ slots[1] = 1
                     /\ q >= 2 => slots[2] = q % 256
  BY <1>1, <1>2, Counts DEF CheckSlots, PageOf
<1> HIDE DEF q, r
<1>6. r < BankBytes /\ r \in Nat /\ BankBytes \in Nat
  BY <1>2, Counts DEF Offsets
<1>7. CASE q < 2
  <2>1. q \in 0..2
    BY <1>2, <1>7
  <2>2. CartAddress \div 16384 = q /\ CartAddress % 16384 = r
    BY <1>2, <1>3, <1>7, <2>1, BusParts
  <2>3. Byte = IF cart.mapper THEN Cell(cart, slots[q], r) ELSE Cell(cart, q, r)
    BY <1>2, <1>6, <1>7, <2>2 DEF Byte, Shown
  <2>4. q = 0 \/ q = 1
    BY <1>2, <1>7
  <2> QED
    BY <1>4, <1>5, <1>7, <2>3, <2>4
<1>8. CASE q >= 2
  <2>1. CartAddress \div 16384 = 2 /\ CartAddress % 16384 = r
    BY <1>2, <1>3, <1>8, BusParts
  <2>2. Byte = IF cart.mapper THEN Cell(cart, slots[2], r) ELSE FF
    BY <1>1, <1>6, <2>1 DEF Byte, Shown
  <2>3. Cell(cart, q % 256, r) = Cell(cart, q, r)
    BY <1>1, <1>2, BankShown
  <2> QED
    BY <1>2, <1>4, <1>5, <1>8, <2>2, <2>3
<1> QED
  BY <1>2, <1>7, <1>8

(***************************************************************************)
(* A byte beyond the flash's own size is one of it, shown again; and no    *)
(* less than the size is looked at.                                        *)
(***************************************************************************)
LEMMA SizesKnown ==
    ASSUME Ranges, FreshRight, fresh
    PROVE  /\ CheckSize \in Nat \ {0} /\ Checked \in Nat /\ Checked <= CheckSize
           /\ ~is_flash_cartridge => Checked = CheckSize
<1>1. /\ cart \in Carts /\ BankBytes \in Nat \ {0} /\ FlashMax \in Nat
      /\ Banks(cart) \in Nat \ {0} /\ Banks(cart) <= FlashMax
      /\ cart.flash \in {"none", "known", "unknown"}
  <2>1. cart \in Carts
    BY DEF Ranges
  <2>2. Banks(cart) \in Powers
    BY <2>1, CartFacts
  <2>3. \A c \in Carts : c.flash \in {"none", "known", "unknown"} /\ Len(c.banks) <= FlashMax
    BY CartInitAssumption
  <2>4. Banks(cart) <= FlashMax /\ cart.flash \in {"none", "known", "unknown"}
    BY <2>1, <2>3, Zenon DEF Banks
  <2>5. Banks(cart) \in Nat \ {0}
    BY <2>2 DEF Powers
  <2> QED
    BY <2>1, <2>4, <2>5, Counts
<1>2. /\ Banks(cart) * BankBytes \in Nat \ {0} /\ FlashMax * BankBytes \in Nat \ {0}
      /\ Banks(cart) * BankBytes <= FlashMax * BankBytes
  <2>1. Banks(cart) * BankBytes <= FlashMax * BankBytes
    BY <1>1, Times
  <2>2. Banks(cart) * BankBytes \in Nat \ {0}
    BY <1>1
  <2>3. FlashMax * BankBytes \in Nat
    BY <1>1
  <2> QED
    BY <2>1, <2>2, <2>3
<1>3. s_rom_size \in Nat \ {0}
  BY DEF Ranges
<1>4. is_flash_cartridge => \/ s_flash_size = Banks(cart) * BankBytes
                            \/ s_flash_size = FlashMax * BankBytes
  BY <1>1 DEF FreshRight
<1>5. CASE is_flash_cartridge
  <2>1. CheckSize = s_flash_size /\ Checked = Banks(cart) * BankBytes
    BY <1>5 DEF CheckSize, Checked
  <2> HIDE DEF Ranges
  <2> QED
    BY <1>2, <1>4, <1>5, <2>1
<1>6. CASE ~is_flash_cartridge
  BY <1>3, <1>6 DEF CheckSize, Checked
<1> QED
  BY <1>5, <1>6

LEMMA Witnessed ==
    ASSUME Ranges, FreshRight, fresh, off < CheckSize, CellAt(off) # FF
    PROVE  \E n \in 0..(Checked - 1) : CellAt(n) # FF
<1>1. /\ cart \in Carts /\ off \in Nat /\ BankBytes \in Nat \ {0}
      /\ Banks(cart) \in Powers /\ (~cart.mapper => Banks(cart) <= 2)
  BY Counts, CartFacts DEF Ranges
<1>2. CASE ~is_flash_cartridge
  BY <1>1, <1>2, SizesKnown
<1>3. CASE is_flash_cartridge
  <2> DEFINE q == off \div BankBytes
             r == off % BankBytes
             p == q % Banks(cart)
             n == p * BankBytes + r
  <2>1. q \in Nat /\ r \in 0..(BankBytes - 1) /\ CellAt(off) = Cell(cart, q, r)
    BY <1>1, Parts DEF CellAt
  <2>2. p \in 0..(Banks(cart) - 1) /\ Cell(cart, p, r) = Cell(cart, q, r)
    BY <1>1, <2>1, PowerMod, BankShown
  <2>3. Banks(cart) \in Nat
    BY <1>1 DEF Powers
  <2> HIDE DEF q, r, p
  <2>4. p \in Nat /\ p + 1 \in Nat /\ p + 1 <= Banks(cart)
    BY <2>2, <2>3
  <2>5. n \div BankBytes = p /\ n % BankBytes = r
    BY <1>1, <2>1, <2>4, QuotientRest, Zenon
  <2>6. (p + 1) * BankBytes <= Banks(cart) * BankBytes
    BY <1>1, <2>3, <2>4, Times
  <2>7. n \in Nat /\ n < (p + 1) * BankBytes
    BY <1>1, <2>1, <2>4, SMT
  <2> HIDE DEF n
  <2>8. Banks(cart) * BankBytes \in Nat /\ (p + 1) * BankBytes \in Nat
    BY <1>1, <2>3, <2>4, SMT
  <2>9. n \in 0..(Checked - 1)
    BY <1>3, <2>6, <2>7, <2>8 DEF Checked
  <2>10. cart.mapper \/ n < 2 * BankBytes
    <3>1. CASE ~cart.mapper
      <4>1. n \div BankBytes < 2
        BY <1>1, <2>3, <2>4, <2>5, <3>1
      <4> QED
        BY <2>7, <4>1, LowBanks
    <3> QED
      BY <3>1
  <2>11. CellAt(n) = Cell(cart, p, r)
    BY <2>5, <2>10 DEF CellAt
  <2> QED
    BY <2>1, <2>2, <2>9, <2>11
<1> QED
  BY <1>2, <1>3


(***************************************************************************)
(* The read of bc ends.                                                    *)
(***************************************************************************)
LEMMA PageSets ==
    ASSUME NEW n \in Nat
    PROVE  /\ Len(Page(n)) <= 1
           /\ Len(Page(n)) = 1 => Page(n)[1] = Clk(Slot(2), PageOf(n))
           /\ Len(Page(n)) = 0 => n < 2 * BankBytes \/ n % BankBytes # 0
<1>1. CASE n >= 2 * BankBytes /\ n % BankBytes = 0
  <2>1. Page(n) = <<Clk(Slot(2), PageOf(n))>>
    BY <1>1 DEF Page, mapper_setSlot, PageOf
  <2> QED
    BY <2>1
<1>2. CASE ~(n >= 2 * BankBytes /\ n % BankBytes = 0)
  <2>1. Page(n) = <<>>
    BY <1>2 DEF Page
  <2> QED
    BY <1>2, <2>1, Counts
<1> QED
  BY <1>1, <1>2

LEMMA CheckStep ==
    ASSUME BlankInv, Check
    PROVE  FreshRight' /\ Checking' /\ BlankRight'
<1>1. /\ stage = "check" /\ queue = <<>> /\ pc = "end" /\ cmd = "bc" /\ Ranges /\ FreshRight
      /\ Checking /\ off \in Nat
      /\ UNCHANGED <<cart, slots, ram, i, bank0, crc, s_rom_size, s_flash_size,
                     is_flash_cartridge, fresh, sized, cmd>>
  BY DEF BlankInv, RangeInv, Resting, Ranges, Check, Got, End, mapperVars
<1>2. FreshRight'
  BY <1>1 DEF FreshRight, Banks
<1>3. /\ CheckSize' = CheckSize /\ Checked' = Checked
      /\ \A n : CellAt(n)' = CellAt(n)
  BY <1>1 DEF CheckSize, Checked, CellAt, Cell, Banks
<1>4. CASE ~fresh
  BY <1>1, <1>2, <1>4 DEF Checking, BlankRight
<1>5. CASE fresh
  <2>1. /\ off < CheckSize /\ answer = "none" /\ CheckSlots /\ Byte = CellAt(off)
        /\ \A n \in 0..(off - 1) : CellAt(n) = FF
    BY <1>1, <1>5, CheckReads DEF Checking
  <2>2. /\ CheckSize \in Nat \ {0} /\ Checked \in Nat /\ Checked <= CheckSize
    BY <1>1, <1>5, SizesKnown
  <2>3. CASE Byte # FF
    <3>1. answer' = "NO" /\ stage' = "none"
      BY <2>3 DEF Check, Goto
    <3>2. \E n \in 0..(Checked - 1) : CellAt(n) # FF
      BY <1>1, <1>5, <2>1, <2>3, Witnessed
    <3>3. BlankRight'
      BY <1>3, <3>1, <3>2 DEF BlankRight
    <3> QED
      BY <1>2, <3>1, <3>3 DEF Checking
  <2>4. \A n \in 0..off : Byte = FF => CellAt(n) = FF
    <3>1. \A n \in 0..off : n = off \/ n \in 0..(off - 1)
      BY <1>1
    <3> QED
      BY <2>1, <3>1, Zenon
  <2>5. CASE Byte = FF /\ off + 1 = CheckSize
    <3>1. answer' = "YES" /\ stage' = "none"
      BY <2>5 DEF Check, Goto
    <3>2. \A n \in 0..(Checked - 1) : n \in 0..off
      BY <1>1, <2>2, <2>5
    <3>3. \A n \in 0..(Checked - 1) : CellAt(n) = FF
      BY <2>4, <2>5, <3>2
    <3>4. BlankRight'
      BY <1>3, <3>1, <3>3 DEF BlankRight
    <3> QED
      BY <1>2, <3>1, <3>4 DEF Checking
  <2>6. CASE Byte = FF /\ off + 1 # CheckSize
    <3>1. /\ answer' = answer /\ off' = off + 1 /\ queue' = Page(off + 1) /\ stage' = "check"
      BY <2>6 DEF Check, Goto
    <3>2. off' \in Nat /\ off' > 0 /\ off' < CheckSize /\ off' - 1 = off
      BY <1>1, <2>1, <2>2, <2>6, <3>1
    <3>3. CheckQueue'
      <4>1. /\ Len(queue') <= 1
            /\ Len(queue') = 1 => queue'[1] = Clk(Slot(2), PageOf(off'))
        BY <1>1, <3>1, PageSets
      <4>2. Len(queue') # 2 /\ Len(queue') <= 2
        <5>1. queue' \in Seq(Cycles)
          BY <1>1, <3>1, PageCycle
        <5>2. Len(queue') \in Nat
          BY <5>1, LenProperties
        <5> QED
          BY <4>1, <5>2
      <4> QED
        BY <3>2, <4>1, <4>2 DEF CheckQueue, PageOf
    <3>4. CheckSlots'
      <4>1. SUFFICES ASSUME cart.mapper
                     PROVE  /\ slots[0] = 0 /\ slots[1] = 1
                            /\ off' >= 2 * BankBytes /\ Len(queue') = 0
                                   => slots[2] = PageOf(off')
        BY <1>1 DEF CheckSlots, PageOf
      <4>2. /\ slots[0] = 0 /\ slots[1] = 1
            /\ off >= 2 * BankBytes => slots[2] = PageOf(off)
        BY <1>1, <2>1, <4>1 DEF CheckSlots
      <4>3. ASSUME off + 1 >= 2 * BankBytes, Len(Page(off + 1)) = 0
            PROVE  slots[2] = PageOf(off + 1)
        <5>1. (off + 1) % BankBytes # 0
          BY <1>1, <4>3, PageSets, Counts
        <5>2. off + 1 # 2 * BankBytes
          BY <1>1, <5>1, LowBanks
        <5>3. off >= 2 * BankBytes
          BY <1>1, <4>3, <5>2, Counts
        <5>4. (off + 1) \div BankBytes = off \div BankBytes
          BY <1>1, <5>1, SameBankOf
        <5> QED
          BY <4>2, <5>3, <5>4 DEF PageOf
      <4> QED
        BY <3>1, <4>2, <4>3
    <3>5. \A n \in 0..(off' - 1) : CellAt(n)' = FF
      BY <1>3, <2>4, <2>6, <3>2
    <3>6. Checking'
      BY <1>3, <2>1, <3>1, <3>2, <3>3, <3>4, <3>5 DEF Checking
    <3>7. BlankRight'
      BY <2>1, <3>1 DEF BlankRight
    <3> QED
      BY <1>2, <3>6, <3>7
  <2> QED
    BY <2>3, <2>5, <2>6
<1> QED
  BY <1>4, <1>5

(***************************************************************************)
(* The slots are set.                                                      *)
(***************************************************************************)
LEMMA OneSlot ==
    ASSUME NEW n \in 0..2, NEW d, Clocked(Slot(n), d), cart.mapper,
           slots \in [0..2 -> 0..FF]
    PROVE  slots'[n] = d /\ \A k \in 0..2 : k # n => slots'[k] = slots[k]
<1>1. Slot(n) # Control /\ Slot(n) > Control /\ Slot(n) - Slot(0) = n
  BY DEF Slot, Control
<1>2. slots' = [slots EXCEPT ![n] = d]
  BY <1>1, Zenon DEF Clocked
<1> QED
  BY <1>2

LEMMA QueuedCheck ==
    ASSUME BlankInv, Queued
    PROVE  FreshRight' /\ Checking' /\ BlankRight'
<1>1. /\ queue # <<>> /\ queue \in Seq(Cycles) /\ queue' = Tail(queue)
      /\ Ranges /\ SizeInv /\ Resting /\ RangeInv
      /\ FreshRight /\ Checking /\ BlankRight /\ off \in Nat
      /\ slots \in [0..2 -> 0..FF]
      /\ UNCHANGED <<cart, i, off, bank0, crc, s_rom_size, s_flash_size, is_flash_cartridge,
                     answer, fresh, sized, cmd, stage>>
  BY DEF BlankInv, RangeInv, Ranges, Queued, loopVars, sizeVars
<1>2. FreshRight'
  BY <1>1, QueuedRanges DEF FreshRight, Banks
<1>3. /\ CheckSize' = CheckSize /\ Checked' = Checked
      /\ \A n : CellAt(n)' = CellAt(n)
  BY <1>1 DEF CheckSize, Checked, CellAt, Cell, Banks
<1>4. BlankRight'
  BY <1>1, <1>3 DEF BlankRight
<1>5. ASSUME cmd = "bc", stage = "check", fresh
      PROVE  CheckQueue' /\ CheckSlots'
  <2>1. CheckQueue /\ CheckSlots
    BY <1>1, <1>5 DEF Checking
  <2>2. /\ queue' \in Seq(Cycles) /\ Len(queue') = Len(queue) - 1 /\ Len(queue) \in Nat \ {0}
        /\ \A j \in 1..Len(queue') : queue'[j] = queue[j + 1]
    BY <1>1, HeadTailProperties, EmptySeq, LenProperties
  <2>3. ASSUME NEW n \in 0..2, NEW d, queue[1] = Clk(Slot(n), d), cart.mapper
        PROVE  slots'[n] = d /\ \A k \in 0..2 : k # n => slots'[k] = slots[k]
    <3>1. Clocked(Slot(n), d)
      BY <1>1, <1>5, <2>3, QueuedCycle DEF Clk
    <3> QED
      BY <1>1, <2>3, <3>1, OneSlot
  <2>4. CASE off = 0 /\ Len(queue) = 2
    <3>1. queue[1] = Clk(Slot(0), 0) /\ queue[2] = Clk(Slot(1), 1)
      BY <2>1, <2>4 DEF CheckQueue
    <3>2. Len(queue') = 1 /\ queue'[1] = Clk(Slot(1), 1)
      BY <2>2, <2>4, <3>1
    <3>3. cart.mapper => slots'[0] = 0
      BY <2>3, <3>1
    <3>4. off' = 0 /\ ~(off' > 0) /\ ~(off' >= 2 * BankBytes)
      BY <1>1, <2>4, Counts
    <3>5. CheckQueue'
      BY <3>2, <3>4 DEF CheckQueue
    <3>6. CheckSlots'
      BY <1>1, <3>2, <3>3, <3>4 DEF CheckSlots
    <3> QED
      BY <3>5, <3>6
  <2>5. CASE off = 0 /\ Len(queue) = 1
    <3>1. queue[1] = Clk(Slot(1), 1) /\ Len(queue') = 0
      BY <2>1, <2>2, <2>5 DEF CheckQueue
    <3>2. cart.mapper => slots'[0] = 0 /\ slots'[1] = 1
      BY <2>1, <2>3, <2>5, <3>1 DEF CheckSlots
    <3>4. off' = 0 /\ ~(off' > 0) /\ ~(off' >= 2 * BankBytes)
      BY <1>1, <2>5, Counts
    <3>5. CheckQueue'
      BY <3>1, <3>4 DEF CheckQueue
    <3>6. CheckSlots'
      BY <1>1, <3>1, <3>2, <3>4 DEF CheckSlots
    <3> QED
      BY <3>5, <3>6
  <2>6. CASE off > 0
    <3>1. Len(queue) = 1 /\ queue[1] = Clk(Slot(2), PageOf(off))
      BY <2>1, <2>2, <2>6 DEF CheckQueue
    <3>2. Len(queue') = 0
      BY <2>2, <3>1
    <3>3. cart.mapper => slots'[0] = 0 /\ slots'[1] = 1 /\ slots'[2] = PageOf(off)
      BY <2>1, <2>3, <2>6, <3>1 DEF CheckSlots
    <3> QED
      BY <1>1, <2>6, <3>2, <3>3 DEF CheckQueue, CheckSlots, PageOf
  <2> QED
    BY <1>1, <2>1, <2>2, <2>4, <2>5, <2>6 DEF CheckQueue
<1>6. Checking'
  BY <1>1, <1>3, <1>5 DEF Checking
<1> QED
  BY <1>2, <1>4, <1>6


(***************************************************************************)
(* The other steps find a size, forget what was found, begin a check, or   *)
(* leave all of it alone.                                                  *)
(***************************************************************************)
LEMMA KeepsKnown ==
    ASSUME BlankInv, UNCHANGED <<cart, sizeVars>>, cart.mapper /\ ~ram => ~ram'
    PROVE  FreshRight' /\ BlankRight'
<1>1. /\ UNCHANGED <<cart, s_rom_size, s_flash_size, is_flash_cartridge, answer, fresh, sized>>
      /\ FreshRight /\ BlankRight
  BY DEF BlankInv, sizeVars
<1>2. FreshRight'
  BY <1>1 DEF FreshRight, Banks
<1>3. /\ Checked' = Checked /\ \A n : CellAt(n)' = CellAt(n)
  BY <1>1 DEF Checked, CellAt, Cell, Banks
<1> QED
  BY <1>1, <1>2, <1>3 DEF BlankRight

LEMMA KeepsCheck ==
    ASSUME BlankInv, UNCHANGED <<cart, mapperVars, loopVars, sizeVars, cmd, stage, queue>>
    PROVE  FreshRight' /\ BlankRight' /\ Checking'
<1>1. UNCHANGED <<cart, slots, ram, off, s_rom_size, s_flash_size, is_flash_cartridge,
                  answer, fresh, cmd, stage, queue>>
  BY DEF mapperVars, loopVars, sizeVars
<1>2. FreshRight' /\ BlankRight'
  BY <1>1, KeepsKnown
<1>3. /\ CheckSize' = CheckSize /\ Checked' = Checked
      /\ \A n : CellAt(n)' = CellAt(n) /\ PageOf(off)' = PageOf(off)
  BY <1>1 DEF CheckSize, Checked, CellAt, Cell, Banks, PageOf
<1>4. CheckQueue => CheckQueue'
  BY <1>1, <1>3 DEF CheckQueue
<1>5. CheckSlots => CheckSlots'
  BY <1>1, <1>3 DEF CheckSlots
<1>6. Checking'
  BY <1>1, <1>3, <1>4, <1>5 DEF BlankInv, Checking
<1> QED
  BY <1>2, <1>6

LEMMA FoundKnown ==
    ASSUME NEW n, Found(n), UNCHANGED <<cart, ram>>, cart.mapper => ~ram
    PROVE  FreshRight' /\ BlankRight'
<1>1. FreshRight'
  <2>1. /\ is_flash_cartridge' <=> cart.flash # "none"
        /\ cart.flash = "known" => s_flash_size' = Banks(cart) * BankBytes
        /\ cart.flash = "unknown" => s_flash_size' = FlashMax * BankBytes
    <3>1. is_flash_cartridge' = (cart.flash # "none")
      BY DEF Found
    <3>2. /\ cart.flash = "known" => s_flash_size' = Banks(cart) * BankBytes
          /\ cart.flash = "unknown" => s_flash_size' = FlashMax * BankBytes
      BY DEF Found
    <3> QED
      BY <3>1, <3>2, Zenon
  <2>2. UNCHANGED cart /\ (cart.mapper => ~ram')
    OBVIOUS
  <2> QED
    BY <2>1, <2>2 DEF FreshRight, Banks
<1>2. answer' = "none"
  BY DEF Found
<1> QED
  BY <1>1, <1>2 DEF BlankRight

LEMMA SearchKnown ==
    ASSUME BlankInv, Bank0 \/ First \/ Crc \/ Blank
    PROVE  FreshRight' /\ BlankRight' /\ Checking'
<1>1. /\ cmd' = "init" /\ UNCHANGED <<cart, slots, ram>>
      /\ stage \in {"bank0", "first", "crc", "blank"}
  <2>1. /\ stage \in {"bank0", "first", "crc", "blank"} /\ cmd' = cmd
        /\ UNCHANGED <<cart, slots, ram>>
    BY DEF Bank0, First, Crc, Blank, Got, mapperVars
  <2> QED
    BY <2>1 DEF BlankInv, RangeInv, SizeInv, CartOK
<1>2. Checking'
  BY <1>1 DEF Checking
<1>3. CASE Bank0
  <2>1. UNCHANGED sizeVars
    BY <1>3 DEF Bank0
  <2> QED
    BY <1>1, <1>2, <2>1, KeepsKnown
<1>4. CASE First \/ Crc \/ Blank
  <2>1. cart.mapper => ~ram
    <3>1. stage \in {"first", "crc", "blank"} /\ cmd = "init"
      BY <1>1, <1>4 DEF First, Crc, Blank, Got
    <3> QED
      BY <3>1 DEF BlankInv, RangeInv, SizeInv, Searching, SlotsSet
  <2>2. UNCHANGED sizeVars \/ \E n : Found(n)
    <3>1. NextBank => UNCHANGED sizeVars \/ \E n : Found(n)
      BY Zenon DEF NextBank
    <3>2. AfterCompare => UNCHANGED sizeVars \/ \E n : Found(n)
      BY <3>1, Zenon DEF AfterCompare
    <3>3. First => UNCHANGED sizeVars \/ \E n : Found(n)
      BY <3>2, Zenon DEF First
    <3>4. Crc => UNCHANGED sizeVars \/ \E n : Found(n)
      BY <3>2, Zenon DEF Crc
    <3>5. Blank => UNCHANGED sizeVars \/ \E n : Found(n)
      BY <3>1, Zenon DEF Blank
    <3> QED
      BY <1>4, <3>3, <3>4, <3>5
  <2>3. CASE UNCHANGED sizeVars
    BY <1>1, <1>2, <2>3, KeepsKnown
  <2>4. CASE \E n : Found(n)
    <3>1. PICK n : Found(n)
      BY <2>4
    <3> QED
      BY <1>1, <1>2, <2>1, <3>1, FoundKnown
  <2> QED
    BY <2>2, <2>3, <2>4
<1> QED
  BY <1>3, <1>4

LEMMA CommandKnown ==
    ASSUME BlankInv, Command
    PROVE  FreshRight' /\ BlankRight' /\ Checking'
<1>1. /\ Ready /\ cmd = "none" /\ UNCHANGED <<cart, slots, ram>>
      /\ Ranges /\ FreshRight /\ RangeInv /\ Resting
  <2>1. Ready
    <3>1. \/ initCart \/ cmd_blankcheck
          \/ \E n \in RomSizes : cmd_setromsize(n)
          \/ \E q : Look(q)
      BY DEF Command, readaddress, debug1
    <3> QED
      BY <3>1 DEF initCart, cmd_blankcheck, cmd_setromsize, Look
  <2> QED
    BY <2>1 DEF Ready, Idle, mapperVars, BlankInv, RangeInv
<1>2. CASE initCart
  <2>1. cmd' = "init" /\ UNCHANGED sizeVars
    BY <1>2 DEF initCart
  <2> QED
    BY <1>1, <2>1, KeepsKnown DEF Checking
<1>3. ASSUME NEW n \in RomSizes, cmd_setromsize(n)
      PROVE  FreshRight' /\ BlankRight' /\ Checking'
  <2>1. /\ answer' = "none" /\ cmd' = "none"
        /\ UNCHANGED <<s_flash_size, is_flash_cartridge, fresh>>
    BY <1>1, <1>3 DEF cmd_setromsize
  <2> QED
    BY <1>1, <2>1 DEF FreshRight, BlankRight, Checking, Banks
<1>4. ASSUME NEW q, Look(q)
      PROVE  FreshRight' /\ BlankRight' /\ Checking'
  <2>1. cmd' = "look" /\ UNCHANGED sizeVars
    BY <1>4 DEF Look
  <2> QED
    BY <1>1, <2>1, KeepsKnown DEF Checking
<1>5. CASE cmd_blankcheck
  <2>1. /\ stage' = "check" /\ off' = 0 /\ answer' = "none"
        /\ queue' = mapper_setSlot(0, 0) \o mapper_setSlot(1, 1)
        /\ UNCHANGED <<s_rom_size, s_flash_size, is_flash_cartridge, fresh>>
    BY <1>5 DEF cmd_blankcheck, Goto
  <2>2. FreshRight' /\ BlankRight'
    BY <1>1, <2>1 DEF FreshRight, BlankRight, Banks
  <2>3. CheckSize' = CheckSize
    BY <2>1 DEF CheckSize
  <2>4. /\ Len(queue') = 2 /\ queue'[1] = Clk(Slot(0), 0) /\ queue'[2] = Clk(Slot(1), 1)
    BY <2>1 DEF mapper_setSlot
  <2>5. ~(off' > 0) /\ ~(off' >= 2 * BankBytes) /\ \A n : n \notin 0..(off' - 1)
    BY <2>1, Counts
  <2>6. CheckQueue'
    BY <2>4, <2>5 DEF CheckQueue
  <2>7. CheckSlots'
    BY <2>4, <2>5 DEF CheckSlots
  <2>8. fresh => off' < CheckSize'
    BY <1>1, <2>1, <2>3, SizesKnown
  <2> QED
    BY <2>1, <2>2, <2>5, <2>6, <2>7, <2>8 DEF Checking
<1> QED
  BY <1>2, <1>3, <1>4, <1>5 DEF Command, readaddress, debug1

LEMMA IdleKnown ==
    ASSUME BlankInv, Done \/ Reset \/ \E c \in Carts : Swap(c)
    PROVE  FreshRight' /\ BlankRight' /\ Checking'
<1>1. CASE Done
  BY <1>1, KeepsKnown DEF Done, mapperVars, Checking
<1>2. CASE Reset \/ \E c \in Carts : Swap(c)
  <2>1. fresh' = FALSE
    BY <1>2 DEF Reset, Swap
  <2> QED
    BY <2>1 DEF FreshRight, BlankRight, Checking
<1> QED
  BY <1>1, <1>2

LEMMA BlankKept == BlankInv /\ [CartNext]_<<vars, cartVars>> => BlankInv'
<1> SUFFICES ASSUME BlankInv, [CartNext]_<<vars, cartVars>>
             PROVE  FreshRight' /\ BlankRight' /\ Checking'
  BY RangeStep DEF BlankInv
<1>1. CASE Command
  BY <1>1, CommandKnown
<1>2. CASE Done \/ Reset \/ \E c \in Carts : Swap(c)
  BY <1>2, IdleKnown
<1>3. CASE CallNext
  BY <1>3, KeepsCheck DEF CallNext
<1>4. CASE BusStep
  BY <1>4, KeepsCheck DEF BusStep, cartVars, cmdVars
<1>5. CASE CycleEnds
  BY <1>5, QueuedCheck, SearchKnown, CheckStep DEF CycleEnds
<1>6. CASE UNCHANGED <<vars, cartVars>>
  BY <1>6, KeepsCheck DEF cartVars, cmdVars
<1> QED
  BY <1>1, <1>2, <1>3, <1>4, <1>5, <1>6 DEF CartNext

(***************************************************************************)
(* After init, bc says YES of a flash cartridge exactly if every byte of   *)
(* it is blank, and of another one if every byte of the size set is:       *)
(* whatever r, d1, setromsize or an earlier bc left in the slots, for a    *)
(* chip whose size is not known too, and although a bank's number is       *)
(* written to the mapper as a byte.                                        *)
(***************************************************************************)
THEOREM BlankFound == CartSpec => []BlankRight
<1>1. CartInitInit => BlankInv
  BY InitRanges DEF CartInitInit, BlankInv, FreshRight, Checking, BlankRight
<1>2. BlankInv => BlankRight
  BY DEF BlankInv
<1> QED
  BY <1>1, <1>2, BlankKept, PTL DEF CartSpec
=============================================================================
