-------------------------- MODULE FlashCartProofs --------------------------
(***************************************************************************)
(* Proofs about the flash drivers: for every number and length of banks,   *)
(* all contents and all files, a chip is detected for what it is, is left  *)
(* reading as memory, and is erased and programmed as FlashStore says.     *)
(***************************************************************************)
EXTENDS FlashCart, SequenceTheorems, TLAPS

Drivers == {"mx29f040", "mx29lv320"}

Addresses == 0..(3 * BankLen - 1)

Cycles == [op : {"cartWrite"}, at : Addresses, byte : Byte]
            \union [op : {"cartRead"}, at : Addresses, to : DOMAIN NoBytes]
            \union [op : {"mapper_setSlot"}, at : 1..2, bank : Nat]
            \union {Slot(0, 0), EnableRom}

\* The n-th cycle from the end; t is what is left of script s.
FromEnd(s, n) == s[Len(s) - n + 1]

Left(t, s) ==
    /\ t \in Seq(Cycles) /\ Len(t) <= Len(s)
    /\ \A n \in 1..Len(t) : FromEnd(t, n) = FromEnd(s, n)

\* The chip hears the commands of driver dr.
Hears(dr) == wren /\ chip # "rom" /\ Unlock(chip) = Unlock(dr)

(***************************************************************************)
(* The strengthening: the chip's decoder by what is left of the script.    *)
(* With n cycles left of readSiliconID, a chip that hears the driver is    *)
(* where the driver takes it to be, and one that does not hear it reads as *)
(* memory.                                                                 *)
(***************************************************************************)
IdState(n) == CASE n = 5 -> "unlock1" [] n = 4 -> "unlock2"
                [] n \in 1..3 -> "code" [] OTHER -> "read"

Shown(dr, k) == IF Hears(dr) THEN Code(chip)[k] ELSE mem[Mapped(CodeAt(dr)[k])]

Identifying(dr, n) ==
    /\ state = IF Hears(dr) THEN IdState(n) ELSE "read"
    /\ n <= 2 => got["id0"] = Shown(dr, 1)
    /\ n <= 1 => got["id1"] = Shown(dr, 2)

\* mapper_init and the probe of the large chips.
Probe == mapper_init \o readSiliconID("mx29lv320")

AtRest ==
    pc \in {"idle", "packet"} => todo = <<>> /\ state = "read"

Probing ==
    pc = "probed" =>
        /\ Left(todo, Probe)
        /\ Len(todo) <= 9 => wren
        /\ Len(todo) <= 8 => slot[0] = 0
        /\ Identifying("mx29lv320", Len(todo))

\* detect reads the same two cells before the codes.
Compared(n) ==
    /\ n <= 7 => got["mem0"] = mem[Mapped(CodeAt(ops)[1])]
    /\ n <= 6 => got["mem1"] = mem[Mapped(CodeAt(ops)[2])]

Detecting ==
    pc = "detect" =>
        /\ \E b \in 0..Banks-1 : Left(todo, <<Slot(2, b)>> \o detect(ops))
        /\ wren /\ slot[0] = 0
        /\ chip # "rom" /\ ~Mimics => Hears(ops)
        /\ Identifying(ops, Len(todo)) /\ Compared(Len(todo))

Informing ==
    pc = "info" =>
        Left(todo, detect(ops)) /\ Identifying(ops, Len(todo)) /\ Compared(Len(todo))

\* After flash_detect the mapper's four cycles follow.
Initialising ==
    pc = "initialised" =>
        /\ Left(todo, readSiliconID(ops) \o mapper_init)
        /\ state = IF Hears(ops) THEN IdState(Len(todo) - 4) ELSE "read"

Showing ==
    pc = "shown" =>
        \E dr \in Drivers :
            /\ Left(todo, readSiliconID(dr)) \/ (dr = "mx29lv320" /\ Left(todo, Probe))
            /\ state = IF Hears(dr) THEN IdState(Len(todo)) ELSE "read"

\* A chip that hears the driver works on the job until it is performed.
EraseState(n) == CASE n = 5 -> "unlock1" [] n = 4 -> "unlock2" [] n = 3 -> "erase"
                   [] n = 2 -> "erase1" [] n = 1 -> "erase2" [] OTHER -> "read"

Erasing ==
    pc = "pollErase" =>
        /\ Left(todo, chipErase(ops)) /\ job = [kind |-> "erase"]
        /\ IF Hears(ops) /\ Len(todo) = 0
           THEN \/ state = "erasing" /\ ~performed
                \/ state = "read" /\ performed
           ELSE /\ state = IF Hears(ops) THEN EraseState(Len(todo)) ELSE "read"
                /\ ~performed

Erased == pc = "erased" => Left(todo, <<W(0, xF0)>>) /\ state = "read"

\* A byte for a chip that does not hear the driver may look like the start of
\* a command, never at the end of a packet; the driver's next cycle ends it.
AtByte ==
    pc = "byte" =>
        /\ \/ todo = <<Slot(2, rom_addr \div BankLen)>>
           \/ todo = <<>> /\ slot[2] = (rom_addr \div BankLen) % Banks
        /\ state = "read" \/ (~Hears(ops) /\ state = "unlock1")

ByteState(n) == CASE n = 3 -> "unlock1" [] n = 2 -> "unlock2" [] n = 1 -> "program"
                  [] OTHER -> "read"

Programming ==
    pc = "pollByte" =>
        /\ Left(todo, programByte(ops, cartAddr, Data))
        /\ slot[2] = (rom_addr \div BankLen) % Banks
        /\ job = [kind |-> "program", at |-> rom_addr % Size, byte |-> Data]
        /\ IF Hears(ops)
           THEN IF Len(todo) = 0
                THEN \/ state = "busy" /\ busy = <<job.at, job.byte>> /\ ~performed
                     \/ state = "read" /\ performed
                ELSE state = ByteState(Len(todo)) /\ ~performed
           ELSE /\ \/ state = "read"
                   \/ state = "unlock1" /\ Len(todo) = 4
                   \/ state = "unlock1" /\ Len(todo) = 0 /\ rom_addr % 4 # 3
                /\ ~performed

\* The file under way, which ends with a packet.
InFile ==
    /\ rom_addr \in Nat
    /\ IF pc \in {"packet", "byte", "pollByte"}
       THEN /\ file \in Images
            /\ pc = "packet" => rom_addr <= Len(file) /\ rom_addr % PktLen = 0
            /\ pc # "packet" => rom_addr < Len(file)
       ELSE file = <<>>

\* A detected cartridge hears the driver in use; bank 0 is in slot 0.
Detected == is_flash /\ pc # "detect" => Hears(ops) /\ slot[0] = 0

\* Only a chip that can be written to leaves reading.
TypeInv ==
    TypeOK /\ chip \in Known \union {"rom"} /\ (chip = "rom" \/ ~wren => state = "read")

Jobless == pc \notin {"pollErase", "pollByte"} => job = None

FlashInv ==
    /\ TypeInv
    /\ pc \in {"idle", "probed", "detect", "info", "initialised", "shown", "pollErase",
               "erased", "packet", "byte", "pollByte"}
    /\ AtRest /\ Probing /\ Detecting /\ Informing /\ Initialising /\ Showing
    /\ Erasing /\ Erased /\ AtByte /\ Programming
    /\ InFile /\ Detected /\ Jobless

-----------------------------------------------------------------------------
(***************************************************************************)
(* Arithmetic of addresses: a multiple of m with a rest below m; the last  *)
(* digits of an address survive a length that is a multiple of 16.         *)
(***************************************************************************)
LEMMA QuotientRest ==
    ASSUME NEW m \in Nat \ {0}, NEW q \in Int, NEW r \in 0..(m - 1)
    PROVE  (q * m + r) \div m = q /\ (q * m + r) % m = r
<1> DEFINE x == q * m + r
           d == x \div m
<1>a. x \in Int
  BY SMT
<1> HIDE DEF x
<1>1. d \in Int
  BY <1>a, SMT
<1>2. x = (m * d) + (x % m) /\ x % m \in 0..(m - 1)
  BY <1>a, SMT
<1> HIDE DEF d
<1>3. m * (q - d) = (x % m) - r
  BY <1>1, <1>2, SMT DEF x
<1>4. q - d >= 1 => m * (q - d) >= m
  BY <1>1, SMT
<1>5. q - d <= -1 => m * (q - d) <= -m
  BY <1>1, SMT
<1>6. q = d
  BY <1>1, <1>2, <1>3, <1>4, <1>5, SMT
<1>7. x % m = r
  BY <1>1, <1>2, <1>3, <1>6, SMT
<1> QED
  BY <1>6, <1>7 DEF d, x

LEMMA LastDigits ==
    ASSUME NEW m \in Nat \ {0}, m % 16 = 0, NEW x \in Nat
    PROVE  (x % m) % 16 = x % 16
<1> DEFINE q == x \div m
           k == m \div 16
           r == x % m
           z == k * q
<1>1. q \in Nat /\ r \in 0..(m - 1) /\ x = m * q + r
  BY SMT
<1>2. k \in Nat /\ m = 16 * k
  BY SMT
<1>3. z \in Nat
  BY <1>1, <1>2, SMT
<1>4. m * q = 16 * z
  BY <1>1, <1>2, SMT
<1> HIDE DEF q, k, z, r
<1>5. x = 16 * z + r /\ r \in Nat
  BY <1>1, <1>4, SMT
<1>6. r % 16 = x % 16
  BY <1>3, <1>5, SMT
<1> QED
  BY <1>6 DEF r

LEMMA Sizes ==
    /\ Size \in Nat \ {0} /\ Size % 16 = 0 /\ Size >= 16 /\ BankLen >= 16
<1> DEFINE k == BankLen \div 16
<1>1. k \in Nat \ {0} /\ BankLen = 16 * k /\ Banks \in Nat \ {0}
  BY FlashAssumption, SMT
<1>2. Banks * k \in Nat \ {0} /\ Size = 16 * (Banks * k)
  BY <1>1, SMT DEF Size
<1> DEFINE z == Banks * k
<1> HIDE DEF k
<1>3. z \in Nat \ {0} /\ Size = 16 * z
  BY <1>2
<1> HIDE DEF z
<1>4. Size \in Nat \ {0} /\ Size % 16 = 0 /\ Size >= 16 /\ BankLen >= 16
  BY <1>1, <1>3, SMT
<1> QED
  BY <1>4

LEMMA CellOf ==
    ASSUME NEW b \in 0..Banks-1, NEW r \in 0..BankLen-1
    PROVE  b * BankLen + r \in Cells
<1>1. BankLen \in Nat /\ Banks \in Nat
  BY FlashAssumption
<1>2. (Banks - 1 - b) * BankLen >= 0
  BY <1>1, SMT
<1>3. b * BankLen >= 0 /\ b * BankLen + BankLen <= Banks * BankLen
  BY <1>1, <1>2, SMT
<1> QED
  BY <1>1, <1>3, SMT DEF Cells, Size

(***************************************************************************)
(* The driver's low addresses keep their last digits, whatever bank slot 0 *)
(* shows; with bank 0 there they are the chip's own.                       *)
(***************************************************************************)
LEMMA MapsLow ==
    ASSUME TypeOK, NEW a \in 0..15
    PROVE  /\ Mapped(a) \in Cells /\ Mapped(a) % 16 = a
           /\ slot[0] = 0 => Mapped(a) = a
<1>1. BankLen \in Nat \ {0} /\ BankLen % 16 = 0 /\ BankLen >= 16
  BY Sizes, FlashAssumption
<1>2. a \div BankLen = 0 /\ a % BankLen = a
  BY <1>1, SMT
<1>3. slot[0] \in 0..Banks-1
  BY DEF TypeOK
<1> DEFINE x == slot[0] * BankLen + a
<1>a. a \in 0..BankLen-1
  BY <1>1, SMT
<1>4. x \in Cells
  BY <1>a, <1>3, CellOf
<1>5. Mapped(a) = x % Size
  BY <1>2 DEF Mapped
<1>6. x % Size = x
  BY <1>4, Sizes, SMT DEF Cells
<1> DEFINE k == BankLen \div 16
           z == slot[0] * k
<1>7. k \in Nat /\ BankLen = 16 * k /\ slot[0] \in Nat
  BY <1>1, <1>3, FlashAssumption, SMT
<1>8. z \in Nat /\ slot[0] * BankLen = 16 * z
  BY <1>7, SMT
<1> HIDE DEF z
<1>9. x % 16 = a
  BY <1>8, SMT
<1>10. slot[0] = 0 => x = a
  BY <1>1, SMT
<1> QED
  BY <1>4, <1>5, <1>6, <1>9, <1>10

(***************************************************************************)
(* The address at which a byte is programmed, with its bank in slot 2, is  *)
(* the byte's place in the file.                                           *)
(***************************************************************************)
LEMMA MapsByte ==
    ASSUME TypeOK, rom_addr \in Nat, slot[2] = (rom_addr \div BankLen) % Banks
    PROVE  /\ Mapped(cartAddr) = rom_addr % Size /\ rom_addr % Size \in Cells
           /\ Mapped(cartAddr) % 16 = rom_addr % 16
<1> DEFINE q == rom_addr \div BankLen
           r == rom_addr % BankLen
           p == q \div Banks
           s == q % Banks
<1>1. BankLen \in Nat \ {0} /\ Banks \in Nat \ {0} /\ Size \in Nat \ {0} /\ Size % 16 = 0
  BY Sizes, FlashAssumption
<1>2. q \in Nat /\ r \in 0..(BankLen - 1) /\ rom_addr = q * BankLen + r
  BY <1>1, SMT
<1>3. p \in Nat /\ s \in 0..(Banks - 1) /\ q = p * Banks + s
  BY <1>1, <1>2, SMT
<1>a. r \in 0..(BankLen - 1) /\ 2 \in Int /\ cartAddr = 2 * BankLen + r
  BY <1>2 DEF cartAddr
<1>4. cartAddr \div BankLen = 2 /\ cartAddr % BankLen = r
  BY <1>1, <1>a, QuotientRest, Zenon
<1>5. s * BankLen + r \in Cells
  BY <1>2, <1>3, CellOf, Zenon
<1> HIDE DEF p, s, q, r
<1> DEFINE x == s * BankLen + r
<1>6. rom_addr = p * Size + x
  BY <1>1, <1>2, <1>3, SMT DEF Size
<1>7. x \in 0..(Size - 1)
  BY <1>5 DEF Cells
<1> HIDE DEF x
<1>b. p \in Int
  BY <1>3
<1>8. rom_addr % Size = x
  BY <1>1, <1>b, <1>6, <1>7, QuotientRest, Zenon
<1>9. x % Size = x
  BY <1>1, <1>7, SMT
<1>10. Mapped(cartAddr) = x
  BY <1>4, <1>9 DEF Mapped, x, s, q
<1>11. x % 16 = rom_addr % 16
  BY <1>1, <1>8, LastDigits
<1> QED
  BY <1>7, <1>8, <1>10, <1>11 DEF Cells

-----------------------------------------------------------------------------
(***************************************************************************)
(* Scripts.                                                                *)
(***************************************************************************)
LEMMA LeftWhole ==
    ASSUME NEW s \in Seq(Cycles)
    PROVE  Left(s, s)
  BY LenProperties DEF Left

LEMMA LeftTail ==
    ASSUME NEW s, NEW t, Left(t, s), t # <<>>, Len(s) \in Nat
    PROVE  /\ Len(t) \in 1..Len(s) /\ Head(t) = FromEnd(s, Len(t))
           /\ Left(Tail(t), s) /\ Len(Tail(t)) = Len(t) - 1
<1> DEFINE n == Len(t)
           u == Tail(t)
<1>1. t \in Seq(Cycles) /\ n \in Nat
  BY LenProperties DEF Left
<1>2. /\ u \in Seq(Cycles) /\ Len(u) = n - 1 /\ n # 0
      /\ \A k \in 1..Len(u) : u[k] = t[k + 1]
      /\ Head(t) = t[1]
  BY <1>1, HeadTailProperties, EmptySeq, LenProperties
<1>3. n \in 1..Len(s) /\ t[1] = FromEnd(t, n)
  BY <1>1, <1>2 DEF Left, FromEnd
<1> HIDE DEF u, n
<1>4. ASSUME NEW k \in 1..Len(u) PROVE FromEnd(u, k) = FromEnd(s, k)
  <2>1. k \in 1..n /\ Len(u) - k + 1 \in 1..Len(u) /\ Len(u) - k + 1 + 1 = n - k + 1
    BY <1>1, <1>2
  <2>2. FromEnd(u, k) = FromEnd(t, k)
    BY <1>2, <2>1 DEF FromEnd, n
  <2> QED
    BY <2>1, <2>2 DEF Left, n
<1>5. Len(u) <= Len(s)
  BY <1>1, <1>2, <1>3
<1> QED
  BY <1>2, <1>3, <1>4, <1>5 DEF Left, n, u

LEMMA Joined ==
    ASSUME NEW s \in Seq(Cycles), NEW t \in Seq(Cycles),
           NEW k \in Nat, NEW m \in Nat, Len(s) = k, Len(t) = m
    PROVE  /\ s \o t \in Seq(Cycles) /\ Len(s \o t) = k + m
           /\ \A n \in 1..m : FromEnd(s \o t, n) = FromEnd(t, n)
           /\ \A n \in 1..k : FromEnd(s \o t, n + m) = FromEnd(s, n)
<1> DEFINE u == s \o t
<1>1. /\ u \in Seq(Cycles) /\ Len(u) = k + m
      /\ \A j \in 1..(k + m) : u[j] = IF j <= k THEN s[j] ELSE t[j - k]
  BY ConcatProperties
<1> HIDE DEF u
<1>3. ASSUME NEW n \in 1..m PROVE FromEnd(u, n) = FromEnd(t, n)
  <2>1. /\ Len(u) - n + 1 \in 1..(k + m) /\ ~(Len(u) - n + 1 <= k)
        /\ Len(u) - n + 1 - k = Len(t) - n + 1
    BY <1>1
  <2> QED
    BY <1>1, <2>1 DEF FromEnd
<1>4. ASSUME NEW n \in 1..k PROVE FromEnd(u, n + m) = FromEnd(s, n)
  <2>1. /\ Len(u) - (n + m) + 1 = Len(s) - n + 1
        /\ Len(s) - n + 1 \in 1..(k + m) /\ Len(s) - n + 1 <= k
    BY <1>1
  <2> QED
    BY <1>1, <2>1 DEF FromEnd
<1> QED
  BY <1>1, <1>3, <1>4 DEF u

LEMMA CycleTypes ==
    /\ \A a \in Addresses, b \in Byte : W(a, b) \in Cycles
    /\ \A a \in Addresses, to \in DOMAIN NoBytes : R(a, to) \in Cycles
    /\ \A k \in 1..2, b \in Nat : Slot(k, b) \in Cycles
    /\ Slot(0, 0) \in Cycles /\ EnableRom \in Cycles
  BY DEF W, R, Slot, Cycles

LEMMA Bytes ==
    /\ x00 \in Byte /\ x10 \in Byte /\ x55 \in Byte /\ x80 \in Byte /\ x90 \in Byte
    /\ xA0 \in Byte /\ xAA \in Byte /\ xF0 \in Byte /\ xFF \in Byte
    /\ \A k \in Known : Code(k)[1] \in Byte /\ Code(k)[2] \in Byte
    /\ xAA # x55 /\ x90 # xA0 /\ x90 # x80 /\ xA0 # x80 /\ xF0 # xAA /\ xF0 # x55
    /\ xAA # x90 /\ xAA # xA0 /\ xAA # x80 /\ xAA # x10
  BY DEF Byte, x00, x01, x10, x50, x55, x80, x90, xA0, xA4, xA7, xAA, xC2, xF0, xFF, Known, Code

LEMMA DriverTypes ==
    ASSUME NEW dr \in Drivers
    PROVE  /\ Unlock(dr)[1] \in Addresses /\ Unlock(dr)[2] \in Addresses
           /\ CodeAt(dr)[1] \in Addresses /\ CodeAt(dr)[2] \in Addresses
           /\ 0 \in Addresses
<1>1. /\ Unlock(dr)[1] \in {5, 10} /\ Unlock(dr)[2] \in {2, 5}
      /\ CodeAt(dr)[1] = 0 /\ CodeAt(dr)[2] \in {1, 2}
  BY DEF Drivers, Unlock, CodeAt
<1>2. BankLen \in Nat /\ BankLen >= 16
  BY Sizes, FlashAssumption
<1> QED
  BY <1>1, <1>2 DEF Addresses

LEMMA CommandCycles ==
    ASSUME NEW dr \in Drivers, NEW b \in Byte
    PROVE  /\ Command(dr, b) \in Seq(Cycles) /\ Len(Command(dr, b)) = 3
           /\ FromEnd(Command(dr, b), 3) = W(Unlock(dr)[1], xAA)
           /\ FromEnd(Command(dr, b), 2) = W(Unlock(dr)[2], x55)
           /\ FromEnd(Command(dr, b), 1) = W(Unlock(dr)[1], b)
<1> DEFINE w1 == W(Unlock(dr)[1], xAA)
           w2 == W(Unlock(dr)[2], x55)
           w3 == W(Unlock(dr)[1], b)
           s == <<w1, w2>>
           t == <<w3>>
<1>1. w1 \in Cycles /\ w2 \in Cycles /\ w3 \in Cycles
  BY CycleTypes, Bytes, DriverTypes
<1> HIDE DEF w1, w2, w3
<1>2. s \in Seq(Cycles) /\ Len(s) = 2 /\ FromEnd(s, 2) = w1 /\ FromEnd(s, 1) = w2
  BY <1>1 DEF FromEnd
<1>3. t \in Seq(Cycles) /\ Len(t) = 1 /\ FromEnd(t, 1) = w3
  BY <1>1 DEF FromEnd
<1>4. Command(dr, b) = s \o t
  BY DEF Command, Start, w1, w2, w3
<1> HIDE DEF s, t
<1>5. /\ s \o t \in Seq(Cycles) /\ Len(s \o t) = 3 /\ FromEnd(s \o t, 1) = FromEnd(t, 1)
      /\ FromEnd(s \o t, 2) = FromEnd(s, 1) /\ FromEnd(s \o t, 3) = FromEnd(s, 2)
  <2>1. /\ s \o t \in Seq(Cycles) /\ Len(s \o t) = 2 + 1
        /\ \A n \in 1..1 : FromEnd(s \o t, n) = FromEnd(t, n)
        /\ \A n \in 1..2 : FromEnd(s \o t, n + 1) = FromEnd(s, n)
    BY <1>2, <1>3, 1 \in Nat, 2 \in Nat, Joined, Zenon
  <2> QED
    BY <2>1, SMT
<1> QED
  BY <1>2, <1>3, <1>4, <1>5 DEF w1, w2, w3

LEMMA IdCycles ==
    ASSUME NEW dr \in Drivers
    PROVE  /\ readSiliconID(dr) \in Seq(Cycles) /\ Len(readSiliconID(dr)) = 6
           /\ FromEnd(readSiliconID(dr), 6) = W(Unlock(dr)[1], xAA)
           /\ FromEnd(readSiliconID(dr), 5) = W(Unlock(dr)[2], x55)
           /\ FromEnd(readSiliconID(dr), 4) = W(Unlock(dr)[1], x90)
           /\ FromEnd(readSiliconID(dr), 3) = R(CodeAt(dr)[1], "id0")
           /\ FromEnd(readSiliconID(dr), 2) = R(CodeAt(dr)[2], "id1")
           /\ FromEnd(readSiliconID(dr), 1) = W(0, xF0)
<1> DEFINE r1 == R(CodeAt(dr)[1], "id0")
           r2 == R(CodeAt(dr)[2], "id1")
           w3 == W(0, xF0)
           s == Command(dr, x90)
           t == <<r1, r2, w3>>
<1>1. r1 \in Cycles /\ r2 \in Cycles /\ w3 \in Cycles
  BY CycleTypes, Bytes, DriverTypes DEF NoBytes
<1> HIDE DEF r1, r2, w3
<1>2. /\ t \in Seq(Cycles) /\ Len(t) = 3
      /\ FromEnd(t, 3) = r1 /\ FromEnd(t, 2) = r2 /\ FromEnd(t, 1) = w3
  BY <1>1 DEF FromEnd
<1>3. /\ s \in Seq(Cycles) /\ Len(s) = 3
      /\ FromEnd(s, 3) = W(Unlock(dr)[1], xAA)
      /\ FromEnd(s, 2) = W(Unlock(dr)[2], x55)
      /\ FromEnd(s, 1) = W(Unlock(dr)[1], x90)
  BY CommandCycles, Bytes
<1>4. readSiliconID(dr) = s \o t
  BY DEF readSiliconID, r1, r2, w3
<1> HIDE DEF s, t
<1>5. /\ s \o t \in Seq(Cycles) /\ Len(s \o t) = 3 + 3
      /\ \A n \in 1..3 : FromEnd(s \o t, n) = FromEnd(t, n)
      /\ \A n \in 1..3 : FromEnd(s \o t, n + 3) = FromEnd(s, n)
  BY <1>2, <1>3, 3 \in Nat, Joined, Zenon
<1>6. /\ Len(s \o t) = 6 /\ FromEnd(s \o t, 1) = FromEnd(t, 1)
      /\ FromEnd(s \o t, 2) = FromEnd(t, 2) /\ FromEnd(s \o t, 3) = FromEnd(t, 3)
      /\ FromEnd(s \o t, 4) = FromEnd(s, 1) /\ FromEnd(s \o t, 5) = FromEnd(s, 2)
      /\ FromEnd(s \o t, 6) = FromEnd(s, 3)
  BY <1>5, SMT
<1> QED
  BY <1>2, <1>3, <1>4, <1>5, <1>6, Zenon DEF r1, r2, w3

LEMMA EraseCycles ==
    ASSUME NEW dr \in Drivers
    PROVE  /\ chipErase(dr) \in Seq(Cycles) /\ Len(chipErase(dr)) = 6
           /\ FromEnd(chipErase(dr), 6) = W(Unlock(dr)[1], xAA)
           /\ FromEnd(chipErase(dr), 5) = W(Unlock(dr)[2], x55)
           /\ FromEnd(chipErase(dr), 4) = W(Unlock(dr)[1], x80)
           /\ FromEnd(chipErase(dr), 3) = W(Unlock(dr)[1], xAA)
           /\ FromEnd(chipErase(dr), 2) = W(Unlock(dr)[2], x55)
           /\ FromEnd(chipErase(dr), 1) = W(Unlock(dr)[1], x10)
<1> DEFINE s == Command(dr, x80)
           t == Command(dr, x10)
<1>1. /\ s \in Seq(Cycles) /\ Len(s) = 3
      /\ FromEnd(s, 3) = W(Unlock(dr)[1], xAA)
      /\ FromEnd(s, 2) = W(Unlock(dr)[2], x55)
      /\ FromEnd(s, 1) = W(Unlock(dr)[1], x80)
  BY CommandCycles, Bytes
<1>2. /\ t \in Seq(Cycles) /\ Len(t) = 3
      /\ FromEnd(t, 3) = W(Unlock(dr)[1], xAA)
      /\ FromEnd(t, 2) = W(Unlock(dr)[2], x55)
      /\ FromEnd(t, 1) = W(Unlock(dr)[1], x10)
  BY CommandCycles, Bytes
<1>4. chipErase(dr) = s \o t
  BY DEF chipErase
<1> HIDE DEF s, t
<1>5. /\ s \o t \in Seq(Cycles) /\ Len(s \o t) = 3 + 3
      /\ \A n \in 1..3 : FromEnd(s \o t, n) = FromEnd(t, n)
      /\ \A n \in 1..3 : FromEnd(s \o t, n + 3) = FromEnd(s, n)
  <2>1. s \in Seq(Cycles) /\ Len(s) = 3 /\ t \in Seq(Cycles) /\ Len(t) = 3
    BY <1>1, <1>2
  <2> QED
    BY <2>1, 3 \in Nat, Joined, Zenon
<1>6. /\ Len(s \o t) = 6 /\ FromEnd(s \o t, 1) = FromEnd(t, 1)
      /\ FromEnd(s \o t, 2) = FromEnd(t, 2) /\ FromEnd(s \o t, 3) = FromEnd(t, 3)
      /\ FromEnd(s \o t, 4) = FromEnd(s, 1) /\ FromEnd(s \o t, 5) = FromEnd(s, 2)
      /\ FromEnd(s \o t, 6) = FromEnd(s, 3)
  BY <1>5, SMT
<1> QED
  BY <1>1, <1>2, <1>4, <1>5, <1>6, Zenon

LEMMA ByteCycles ==
    ASSUME NEW dr \in Drivers, NEW c \in Addresses, NEW b \in Byte
    PROVE  /\ programByte(dr, c, b) \in Seq(Cycles) /\ Len(programByte(dr, c, b)) = 4
           /\ FromEnd(programByte(dr, c, b), 4) = W(Unlock(dr)[1], xAA)
           /\ FromEnd(programByte(dr, c, b), 3) = W(Unlock(dr)[2], x55)
           /\ FromEnd(programByte(dr, c, b), 2) = W(Unlock(dr)[1], xA0)
           /\ FromEnd(programByte(dr, c, b), 1) = W(c, b)
<1> DEFINE w == W(c, b)
           s == Command(dr, xA0)
           t == <<w>>
<1>1. w \in Cycles
  BY CycleTypes
<1> HIDE DEF w
<1>2. t \in Seq(Cycles) /\ Len(t) = 1 /\ FromEnd(t, 1) = w
  BY <1>1 DEF FromEnd
<1>3. /\ s \in Seq(Cycles) /\ Len(s) = 3
      /\ FromEnd(s, 3) = W(Unlock(dr)[1], xAA)
      /\ FromEnd(s, 2) = W(Unlock(dr)[2], x55)
      /\ FromEnd(s, 1) = W(Unlock(dr)[1], xA0)
  BY CommandCycles, Bytes
<1>4. programByte(dr, c, b) = s \o t
  BY DEF programByte, w
<1> HIDE DEF s, t
<1>5. /\ s \o t \in Seq(Cycles) /\ Len(s \o t) = 3 + 1
      /\ \A n \in 1..1 : FromEnd(s \o t, n) = FromEnd(t, n)
      /\ \A n \in 1..3 : FromEnd(s \o t, n + 1) = FromEnd(s, n)
  BY <1>2, <1>3, 1 \in Nat, 3 \in Nat, Joined, Zenon
<1>6. /\ Len(s \o t) = 4 /\ FromEnd(s \o t, 1) = FromEnd(t, 1)
      /\ FromEnd(s \o t, 2) = FromEnd(s, 1) /\ FromEnd(s \o t, 3) = FromEnd(s, 2)
      /\ FromEnd(s \o t, 4) = FromEnd(s, 3)
  BY <1>5, SMT
<1> QED
  BY <1>2, <1>3, <1>4, <1>5, <1>6, Zenon DEF w

LEMMA InitCycles ==
    /\ mapper_init \in Seq(Cycles) /\ Len(mapper_init) = 4
    /\ FromEnd(mapper_init, 4) = EnableRom /\ FromEnd(mapper_init, 3) = Slot(0, 0)
    /\ FromEnd(mapper_init, 2) = Slot(1, 1) /\ FromEnd(mapper_init, 1) = Slot(2, 2)
<1> DEFINE e == EnableRom
           s0 == Slot(0, 0)
           s1 == Slot(1, 1)
           s2 == Slot(2, 2)
<1>1. e \in Cycles /\ s0 \in Cycles /\ s1 \in Cycles /\ s2 \in Cycles
  BY CycleTypes
<1>2. mapper_init = <<e, s0, s1, s2>>
  BY DEF mapper_init
<1> HIDE DEF e, s0, s1, s2
<1>3. /\ mapper_init \in Seq(Cycles) /\ Len(mapper_init) = 4
      /\ FromEnd(mapper_init, 4) = e /\ FromEnd(mapper_init, 3) = s0
      /\ FromEnd(mapper_init, 2) = s1 /\ FromEnd(mapper_init, 1) = s2
  BY <1>1, <1>2 DEF FromEnd
<1> QED
  BY <1>3 DEF e, s0, s1, s2

(***************************************************************************)
(* The scripts that join others.                                           *)
(***************************************************************************)
LEMMA DetectCycles ==
    ASSUME NEW dr \in Drivers
    PROVE  /\ detect(dr) \in Seq(Cycles) /\ Len(detect(dr)) = 8
           /\ \A n \in 1..6 : FromEnd(detect(dr), n) = FromEnd(readSiliconID(dr), n)
           /\ FromEnd(detect(dr), 8) = R(CodeAt(dr)[1], "mem0")
           /\ FromEnd(detect(dr), 7) = R(CodeAt(dr)[2], "mem1")
<1> DEFINE r1 == R(CodeAt(dr)[1], "mem0")
           r2 == R(CodeAt(dr)[2], "mem1")
           s == <<r1, r2>>
           t == readSiliconID(dr)
<1>1. r1 \in Cycles /\ r2 \in Cycles
  BY CycleTypes, DriverTypes DEF NoBytes
<1> HIDE DEF r1, r2
<1>2. s \in Seq(Cycles) /\ Len(s) = 2 /\ FromEnd(s, 2) = r1 /\ FromEnd(s, 1) = r2
  BY <1>1 DEF FromEnd
<1>3. t \in Seq(Cycles) /\ Len(t) = 6
  BY IdCycles
<1>4. detect(dr) = s \o t
  BY DEF detect, r1, r2
<1> HIDE DEF s
<1>5. /\ s \o t \in Seq(Cycles) /\ Len(s \o t) = 2 + 6
      /\ \A n \in 1..6 : FromEnd(s \o t, n) = FromEnd(t, n)
      /\ \A n \in 1..2 : FromEnd(s \o t, n + 6) = FromEnd(s, n)
  BY <1>2, <1>3, 2 \in Nat, 6 \in Nat, Joined, Zenon
<1> HIDE DEF t
<1>6. Len(s \o t) = 8 /\ FromEnd(s \o t, 7) = r2 /\ FromEnd(s \o t, 8) = r1
  BY <1>2, <1>5, SMT
<1> QED
  BY <1>4, <1>5, <1>6, Zenon DEF r1, r2, t

LEMMA DetectInInitCycles ==
    ASSUME NEW dr \in Drivers, NEW b \in Nat
    PROVE  LET s == <<Slot(2, b)>> \o detect(dr)
           IN  /\ s \in Seq(Cycles) /\ Len(s) = 9 /\ FromEnd(s, 9) = Slot(2, b)
               /\ \A n \in 1..8 : FromEnd(s, n) = FromEnd(detect(dr), n)
<1> DEFINE w == Slot(2, b)
           s == <<w>>
           t == detect(dr)
<1>1. w \in Cycles
  BY CycleTypes
<1> HIDE DEF w
<1>2. s \in Seq(Cycles) /\ Len(s) = 1 /\ FromEnd(s, 1) = w
  BY <1>1 DEF FromEnd
<1>3. t \in Seq(Cycles) /\ Len(t) = 8
  BY DetectCycles
<1> HIDE DEF s, t
<1>5. /\ s \o t \in Seq(Cycles) /\ Len(s \o t) = 1 + 8
      /\ \A n \in 1..8 : FromEnd(s \o t, n) = FromEnd(t, n)
      /\ \A n \in 1..1 : FromEnd(s \o t, n + 8) = FromEnd(s, n)
  BY <1>2, <1>3, 1 \in Nat, 8 \in Nat, Joined, Zenon
<1>6. Len(s \o t) = 9 /\ FromEnd(s \o t, 9) = w
  BY <1>2, <1>5, SMT
<1> QED
  BY <1>5, <1>6, Zenon DEF s, t, w

LEMMA ProbeCycles ==
    LET id == readSiliconID("mx29lv320")
    IN  /\ Probe \in Seq(Cycles) /\ Len(Probe) = 10
        /\ \A n \in 1..6 : FromEnd(Probe, n) = FromEnd(id, n)
        /\ FromEnd(Probe, 10) = EnableRom /\ FromEnd(Probe, 9) = Slot(0, 0)
        /\ FromEnd(Probe, 8) = Slot(1, 1) /\ FromEnd(Probe, 7) = Slot(2, 2)
<1> DEFINE t == readSiliconID("mx29lv320")
<1>1. t \in Seq(Cycles) /\ Len(t) = 6
  BY IdCycles DEF Drivers
<1>2. Probe = mapper_init \o t
  BY DEF Probe
<1> HIDE DEF t
<1>3. /\ Probe \in Seq(Cycles) /\ Len(Probe) = 4 + 6
      /\ \A n \in 1..6 : FromEnd(Probe, n) = FromEnd(t, n)
      /\ \A n \in 1..4 : FromEnd(Probe, n + 6) = FromEnd(mapper_init, n)
  <2>1. mapper_init \in Seq(Cycles) /\ Len(mapper_init) = 4
    BY InitCycles
  <2>2. LET u == mapper_init \o t
        IN  /\ u \in Seq(Cycles) /\ Len(u) = 4 + 6
            /\ \A n \in 1..6 : FromEnd(u, n) = FromEnd(t, n)
            /\ \A n \in 1..4 : FromEnd(u, n + 6) = FromEnd(mapper_init, n)
    BY <1>1, <2>1, 4 \in Nat, 6 \in Nat, Joined, Zenon
  <2> QED
    BY <1>2, <2>2, Zenon
<1>4. /\ Len(Probe) = 10 /\ FromEnd(Probe, 10) = FromEnd(mapper_init, 4)
      /\ FromEnd(Probe, 9) = FromEnd(mapper_init, 3)
      /\ FromEnd(Probe, 8) = FromEnd(mapper_init, 2)
      /\ FromEnd(Probe, 7) = FromEnd(mapper_init, 1)
  BY <1>3, SMT
<1> QED
  BY <1>3, <1>4, InitCycles, Zenon DEF t

LEMMA InitAfterIdCycles ==
    ASSUME NEW dr \in Drivers
    PROVE  LET s == readSiliconID(dr) \o mapper_init
           IN  /\ s \in Seq(Cycles) /\ Len(s) = 10
               /\ \A n \in 1..4 : FromEnd(s, n) = FromEnd(mapper_init, n)
               /\ \A n \in 1..6 : FromEnd(s, n + 4) = FromEnd(readSiliconID(dr), n)
<1> DEFINE t == readSiliconID(dr)
           u == t \o mapper_init
<1>1. t \in Seq(Cycles) /\ Len(t) = 6
  BY IdCycles
<1> HIDE DEF t
<1>2. /\ u \in Seq(Cycles) /\ Len(u) = 6 + 4
      /\ \A n \in 1..4 : FromEnd(u, n) = FromEnd(mapper_init, n)
      /\ \A n \in 1..6 : FromEnd(u, n + 4) = FromEnd(t, n)
  <2>1. mapper_init \in Seq(Cycles) /\ Len(mapper_init) = 4
    BY InitCycles
  <2> QED
    BY <1>1, <2>1, 4 \in Nat, 6 \in Nat, Joined, Zenon
<1> HIDE DEF u
<1>3. Len(u) = 10
  BY <1>2, SMT
<1> QED
  BY <1>2, <1>3, Zenon DEF t, u

-----------------------------------------------------------------------------
(***************************************************************************)
(* The decoder.  A chip that hears the driver follows its commands; one    *)
(* that does not goes on reading as memory.                                *)
(***************************************************************************)
LEMMA Places ==
    ASSUME TypeInv, NEW dr \in Drivers, chip # "rom"
    PROVE  LET m1 == Mapped(Unlock(dr)[1])
               m2 == Mapped(Unlock(dr)[2])
               d  == Decoded(chip)
           IN  /\ Unlock(chip) = Unlock(dr) => /\ m1 % d = Unlock(chip)[1] /\ m2 % d = Unlock(chip)[2]
                                               /\ m1 % d # Unlock(chip)[2]
                                               /\ m2 % d # Unlock(chip)[1]
               /\ Unlock(chip) # Unlock(dr) => m1 % d # Unlock(chip)[1]
<1>1. /\ Mapped(2) \in Cells /\ Mapped(2) % 16 = 2 /\ Mapped(5) \in Cells /\ Mapped(5) % 16 = 5
      /\ Mapped(10) \in Cells /\ Mapped(10) % 16 = 10
  BY MapsLow DEF TypeInv
<1>2. \A x \in Cells : x \in Nat
  BY Sizes DEF Cells
<1>3. Mapped(2) % 8 = 2 /\ Mapped(5) % 8 = 5 /\ Mapped(10) % 8 = 2
  <2>1. \A x \in Nat : x % 8 = (x % 16) % 8
    BY SMT
  <2> QED
    BY <1>1, <1>2, <2>1
<1>4. CASE chip = "mx29f040" /\ dr = "mx29f040"
  BY <1>1, <1>3, <1>4 DEF Unlock, Decoded
<1>5. CASE chip # "mx29f040" /\ dr = "mx29lv320"
  BY <1>1, <1>5 DEF Unlock, Decoded
<1>6. CASE chip = "mx29f040" /\ dr = "mx29lv320"
  BY <1>1, <1>3, <1>6 DEF Unlock, Decoded
<1>7. CASE chip # "mx29f040" /\ dr = "mx29f040"
  BY <1>1, <1>7 DEF Unlock, Decoded
<1> QED
  BY <1>4, <1>5, <1>6, <1>7 DEF Drivers

LEMMA HeardCommands ==
    ASSUME TypeInv, NEW dr \in Drivers, Hears(dr)
    PROVE  LET m1 == Mapped(Unlock(dr)[1])
               m2 == Mapped(Unlock(dr)[2])
           IN  /\ state = "read" => Decode(m1, xAA) = "unlock1"
               /\ state = "unlock1" => Decode(m2, x55) = "unlock2"
               /\ state = "unlock2" => /\ Decode(m1, x90) = "code"
                                       /\ Decode(m1, xA0) = "program"
                                       /\ Decode(m1, x80) = "erase"
               /\ state = "erase" => Decode(m1, xAA) = "erase1"
               /\ state = "erase1" => Decode(m2, x55) = "erase2"
               /\ state = "erase2" => Decode(m1, x10) = "erasing"
<1> DEFINE f1 == Mapped(Unlock(dr)[1]) % Decoded(chip)
           f2 == Mapped(Unlock(dr)[2]) % Decoded(chip)
<1>1. /\ f1 = Unlock(chip)[1] /\ f2 = Unlock(chip)[2]
      /\ f1 # Unlock(chip)[2] /\ f2 # Unlock(chip)[1]
  BY Places DEF Hears
<1> QED
  BY <1>1, Bytes DEF Decode

LEMMA OtherWrites ==
    ASSUME NEW a, NEW b
    PROVE  /\ state = "program" => Decode(a, b) = "busy"
           /\ state = "code" => Decode(a, xF0) = "read"
           /\ state = "read" /\ b # xAA => Decode(a, b) = "read"
           /\ state = "unlock1" /\ b # x55 => Decode(a, b) = "read"
           /\ state = "read" => Decode(a, b) \in {"read", "unlock1"}
           /\ Decode(a, b) = "unlock1" /\ state = "read" => a % Decoded(chip) = Unlock(chip)[1]
  BY Bytes DEF Decode

LEMMA Unheard ==
    ASSUME TypeInv, NEW dr \in Drivers, ~Hears(dr), wren, chip # "rom", state = "read"
    PROVE  Decode(Mapped(Unlock(dr)[1]), xAA) = "read"
<1>1. Mapped(Unlock(dr)[1]) % Decoded(chip) # Unlock(chip)[1]
  BY Places DEF Hears
<1> QED
  BY <1>1 DEF Decode

LEMMA HeardCode ==
    ASSUME TypeInv, NEW dr \in Drivers, Hears(dr), state = "code"
    PROVE  /\ Reads(Mapped(CodeAt(dr)[1])) = Code(chip)[1]
           /\ Reads(Mapped(CodeAt(dr)[2])) = Code(chip)[2]
<1>1. /\ Mapped(0) \in Cells /\ Mapped(0) % 16 = 0 /\ Mapped(1) \in Cells /\ Mapped(1) % 16 = 1
      /\ Mapped(2) \in Cells /\ Mapped(2) % 16 = 2
  BY MapsLow DEF TypeInv
<1>2. \A x \in Cells : x \in Nat
  BY Sizes DEF Cells
<1>3. Mapped(0) % 8 = 0 /\ Mapped(1) % 8 = 1
  <2>1. \A x \in Nat : x % 8 = (x % 16) % 8
    BY SMT
  <2> QED
    BY <1>1, <1>2, <2>1
<1>4. CASE chip = "mx29f040"
  <2>1. dr = "mx29f040"
    BY <1>4 DEF Drivers, Hears, Unlock
  <2> QED
    BY <1>3, <1>4, <2>1 DEF Reads, CodeAt, Decoded
<1>5. CASE chip # "mx29f040"
  <2>1. dr = "mx29lv320"
    BY <1>5 DEF Drivers, Hears, Unlock
  <2> QED
    BY <1>1, <1>5, <2>1 DEF Reads, CodeAt, Decoded
<1> QED
  BY <1>4, <1>5

-----------------------------------------------------------------------------
(***************************************************************************)
(* One bus cycle.                                                          *)
(***************************************************************************)
\* The byte of a bank's number shows the same bank.
LEMMA ByteBank ==
    ASSUME NEW b \in Nat
    PROVE  (b % 256) % Banks = b % Banks
<1>1. \/ Banks = 1 \/ Banks = 2 \/ Banks = 4 \/ Banks = 8 \/ Banks = 16
      \/ Banks = 32 \/ Banks = 64 \/ Banks = 128 \/ Banks = 256
  BY FlashAssumption
<1> QED
  BY <1>1, SMT

LEMMA BusCycle ==
    ASSUME Bus
    PROVE  /\ todo # <<>> /\ todo' = Tail(todo)
           /\ UNCHANGED <<chip, mem, ops, is_flash, file, rom_addr, pc, job, performed>>
           /\ \A a, b : Head(todo) = W(a, b) => cartWrite(a, b)
           /\ \A a, to : Head(todo) = R(a, to) =>
                /\ got' = [got EXCEPT ![to] = Reads(Mapped(a))]
                /\ UNCHANGED <<state, busy, wren, slot>>
           /\ \A k : \A b \in Nat : Head(todo) = Slot(k, b) =>
                slot' = [slot EXCEPT ![k] = b % Banks] /\ UNCHANGED <<state, busy, wren, got>>
           /\ Head(todo) = EnableRom => wren' = TRUE /\ UNCHANGED <<state, busy, slot, got>>
<1> DEFINE t == Head(todo)
<1>1. /\ todo # <<>> /\ todo' = Tail(todo)
      /\ UNCHANGED <<chip, mem, ops, is_flash, file, rom_addr, pc, job, performed>>
  BY DEF Bus
<1>2. \/ t.op = "cartWrite" /\ cartWrite(t.at, t.byte)
      \/ /\ t.op = "cartRead" /\ got' = [got EXCEPT ![t.to] = Reads(Mapped(t.at))]
         /\ UNCHANGED <<state, busy, wren, slot>>
      \/ /\ t.op = "mapper_setSlot" /\ slot' = [slot EXCEPT ![t.at] = (t.bank % 256) % Banks]
         /\ UNCHANGED <<state, busy, wren, got>>
      \/ t.op = "enable" /\ wren' = TRUE /\ UNCHANGED <<state, busy, slot, got>>
  BY DEF Bus
<1> HIDE DEF t
<1>3. ASSUME NEW a, NEW b, t = W(a, b) PROVE cartWrite(a, b)
  <2>1. t.op = "cartWrite" /\ t.at = a /\ t.byte = b
    BY <1>3 DEF W
  <2> QED
    BY <1>2, <2>1
<1>4. ASSUME NEW a, NEW to, t = R(a, to)
      PROVE  got' = [got EXCEPT ![to] = Reads(Mapped(a))] /\ UNCHANGED <<state, busy, wren, slot>>
  <2>1. t.op = "cartRead" /\ t.at = a /\ t.to = to
    BY <1>4 DEF R
  <2> QED
    BY <1>2, <2>1
<1>5. ASSUME NEW k, NEW b \in Nat, t = Slot(k, b)
      PROVE  slot' = [slot EXCEPT ![k] = b % Banks] /\ UNCHANGED <<state, busy, wren, got>>
  <2>1. t.op = "mapper_setSlot" /\ t.at = k /\ t.bank = b
    BY <1>5 DEF Slot
  <2>2. (b % 256) % Banks = b % Banks
    BY ByteBank
  <2> QED
    BY <1>2, <2>1, <2>2
<1>6. t = EnableRom => wren' = TRUE /\ UNCHANGED <<state, busy, slot, got>>
  BY <1>2 DEF EnableRom
<1> QED
  BY <1>1, <1>3, <1>4, <1>5, <1>6 DEF t

\* What a write of the driver does to the chip.
LEMMA WriteStep ==
    ASSUME TypeInv, NEW dr \in Drivers, NEW a, NEW b, cartWrite(a, b)
    PROVE  /\ UNCHANGED <<wren, slot, got>>
           /\ Hears(dr) => state' = Decode(Mapped(a), b)
           /\ Hears(dr) /\ state # "program" => busy' = busy
           /\ Hears(dr) /\ state = "program" => busy' = <<Mapped(a), b>>
           /\ ~Hears(dr) /\ state = "read" /\ (b # xAA \/ (a = Unlock(dr)[1] /\ b = xAA))
                => state' = "read" /\ busy' = busy
<1>1. UNCHANGED <<wren, slot, got>>
  BY DEF cartWrite
<1>2. CASE wren /\ chip # "rom"
  <2>1. state' = Decode(Mapped(a), b)
        /\ busy' = IF state = "program" THEN <<Mapped(a), b>> ELSE busy
    BY <1>2 DEF cartWrite
  <2>2. ASSUME ~Hears(dr), state = "read", b # xAA \/ (a = Unlock(dr)[1] /\ b = xAA)
        PROVE  state' = "read"
    BY <1>2, <2>1, <2>2, OtherWrites, Unheard
  <2> QED
    BY <1>1, <2>1, <2>2
<1>3. CASE ~(wren /\ chip # "rom")
  BY <1>1, <1>3 DEF cartWrite, Hears
<1> QED
  BY <1>2, <1>3

LEMMA Kept ==
    ASSUME NEW dr, UNCHANGED <<chip, wren>>
    PROVE  Hears(dr)' = Hears(dr)
  BY DEF Hears

LEMMA SameMap ==
    ASSUME UNCHANGED slot, NEW a
    PROVE  Mapped(a)' = Mapped(a)
  BY DEF Mapped

LEMMA GotTyped ==
    ASSUME TypeInv
    PROVE  got \in [{"mem0", "mem1", "id0", "id1"} -> Byte]
  BY DEF TypeInv, TypeOK, NoBytes

LEMMA ReadsByte ==
    ASSUME TypeInv, NEW a \in Cells
    PROVE  Reads(a) \in Byte
<1>1. mem[a] \in Byte /\ busy[2] \in Byte
  BY DEF TypeInv, TypeOK
<1>2. {7} \ busy[2] \in Byte
  BY <1>1 DEF Byte
<1>3. state = "code" => Code(chip)[1] \in Byte /\ Code(chip)[2] \in Byte
  BY Bytes DEF TypeInv
<1> QED
  BY <1>1, <1>2, <1>3, Bytes DEF Reads

(***************************************************************************)
(* A cycle of readSiliconID, for a chip that hears it or not.              *)
(***************************************************************************)
LEMMA IdentifyState ==
    ASSUME TypeInv, Bus, NEW dr \in Drivers, NEW n \in 1..6,
           Head(todo) = FromEnd(readSiliconID(dr), n),
           state = IF Hears(dr) THEN IdState(n) ELSE "read"
    PROVE  /\ state' = IF Hears(dr) THEN IdState(n - 1) ELSE "read"
           /\ UNCHANGED <<wren, slot, busy>> /\ Hears(dr)' = Hears(dr)
<1>1. UNCHANGED chip
  BY BusCycle
<1>2. CASE n = 6
  <2>1. cartWrite(Unlock(dr)[1], xAA)
    BY <1>2, IdCycles, BusCycle
  <2>2. state = "read" /\ IdState(5) = "unlock1" /\ (Hears(dr) => Decode(Mapped(Unlock(dr)[1]), xAA) = "unlock1")
    BY <1>2, HeardCommands DEF IdState
  <2> QED
    BY <1>1, <1>2, <2>1, <2>2, WriteStep, Kept
<1>3. CASE n = 5
  <2>1. cartWrite(Unlock(dr)[2], x55) /\ x55 # xAA
    BY <1>3, IdCycles, BusCycle, Bytes
  <2>2. /\ state = IF Hears(dr) THEN "unlock1" ELSE "read"
        /\ IdState(4) = "unlock2" /\ (Hears(dr) => Decode(Mapped(Unlock(dr)[2]), x55) = "unlock2")
    BY <1>3, HeardCommands DEF IdState
  <2> QED
    BY <1>1, <1>3, <2>1, <2>2, WriteStep, Kept
<1>4. CASE n = 4
  <2>1. cartWrite(Unlock(dr)[1], x90) /\ x90 # xAA
    BY <1>4, IdCycles, BusCycle, Bytes
  <2>2. /\ state = IF Hears(dr) THEN "unlock2" ELSE "read"
        /\ IdState(3) = "code" /\ (Hears(dr) => Decode(Mapped(Unlock(dr)[1]), x90) = "code")
    BY <1>4, HeardCommands DEF IdState
  <2> QED
    BY <1>1, <1>4, <2>1, <2>2, WriteStep, Kept
<1>5. CASE n \in {2, 3}
  <2>1. UNCHANGED <<state, busy, wren, slot>>
    BY <1>5, IdCycles, BusCycle
  <2>2. IdState(n) = "code" /\ IdState(n - 1) = "code"
    BY <1>5 DEF IdState
  <2> QED
    BY <1>1, <2>1, <2>2, Kept
<1>6. CASE n = 1
  <2>1. cartWrite(0, xF0) /\ xF0 # xAA
    BY <1>6, IdCycles, BusCycle, Bytes
  <2>2. /\ state = IF Hears(dr) THEN "code" ELSE "read"
        /\ IdState(0) = "read" /\ (Hears(dr) => Decode(Mapped(0), xF0) = "read")
    BY <1>6, OtherWrites DEF IdState
  <2> QED
    BY <1>1, <1>6, <2>1, <2>2, WriteStep, Kept
<1> QED
  BY <1>2, <1>3, <1>4, <1>5, <1>6


LEMMA IdentifyStep ==
    ASSUME TypeInv, Bus, NEW dr \in Drivers, NEW n \in 1..6,
           Head(todo) = FromEnd(readSiliconID(dr), n), Identifying(dr, n)
    PROVE  /\ Identifying(dr, n - 1)' /\ UNCHANGED <<wren, slot>> /\ Hears(dr)' = Hears(dr)
           /\ got'["mem0"] = got["mem0"] /\ got'["mem1"] = got["mem1"]
<1>1. /\ state' = IF Hears(dr) THEN IdState(n - 1) ELSE "read"
      /\ UNCHANGED <<wren, slot, busy>> /\ Hears(dr)' = Hears(dr)
      /\ UNCHANGED <<chip, mem>>
  BY IdentifyState, BusCycle DEF Identifying
<1>2. Shown(dr, 1)' = Shown(dr, 1) /\ Shown(dr, 2)' = Shown(dr, 2)
  BY <1>1, SameMap DEF Shown
<1>3. got \in [{"mem0", "mem1", "id0", "id1"} -> Byte]
  BY GotTyped
<1>4. /\ n - 1 <= 2 => got'["id0"] = Shown(dr, 1)
      /\ n - 1 <= 1 => got'["id1"] = Shown(dr, 2)
      /\ got'["mem0"] = got["mem0"] /\ got'["mem1"] = got["mem1"]
  <2>1. CASE n \in {1, 4, 5, 6}
    <3>1. ASSUME NEW a, NEW b, Head(todo) = W(a, b) PROVE got' = got
      BY <3>1, BusCycle DEF cartWrite
    <3>2. got' = got
      BY <2>1, <3>1, IdCycles
    <3> QED
      BY <2>1, <3>2 DEF Identifying
  <2>2. CASE n = 3
    <3>1. got' = [got EXCEPT !["id0"] = Reads(Mapped(CodeAt(dr)[1]))]
      BY <2>2, IdCycles, BusCycle
    <3>2. state = IF Hears(dr) THEN "code" ELSE "read"
      BY <2>2 DEF Identifying, IdState
    <3>3. Reads(Mapped(CodeAt(dr)[1])) = Shown(dr, 1)
      <4>1. CASE Hears(dr)
        BY <3>2, <4>1, HeardCode DEF Shown
      <4>2. CASE ~Hears(dr)
        BY <3>2, <4>2 DEF Shown, Reads
      <4> QED
        BY <4>1, <4>2
    <3> QED
      BY <1>3, <2>2, <3>1, <3>3
  <2>3. CASE n = 2
    <3>1. got' = [got EXCEPT !["id1"] = Reads(Mapped(CodeAt(dr)[2]))]
      BY <2>3, IdCycles, BusCycle
    <3>2. state = IF Hears(dr) THEN "code" ELSE "read"
      BY <2>3 DEF Identifying, IdState
    <3>3. Reads(Mapped(CodeAt(dr)[2])) = Shown(dr, 2)
      <4>1. CASE Hears(dr)
        BY <3>2, <4>1, HeardCode DEF Shown
      <4>2. CASE ~Hears(dr)
        BY <3>2, <4>2 DEF Shown, Reads
      <4> QED
        BY <4>1, <4>2
    <3> QED
      BY <1>3, <2>3, <3>1, <3>3 DEF Identifying
  <2> QED
    BY <2>1, <2>2, <2>3
<1> QED
  BY <1>1, <1>2, <1>4 DEF Identifying

(***************************************************************************)
(* Types under a bus cycle.                                                *)
(***************************************************************************)
LEMMA MapsAny ==
    ASSUME TypeOK, NEW a \in Addresses
    PROVE  Mapped(a) \in Cells
<1>1. BankLen \in Nat \ {0} /\ Size \in Nat \ {0} /\ a \in Nat /\ a < 3 * BankLen
  BY Sizes, FlashAssumption DEF Addresses
<1> DEFINE q == a \div BankLen
           r == a % BankLen
<1>2. q \in Nat /\ r \in 0..(BankLen - 1) /\ a = q * BankLen + r
  BY <1>1, SMT
<1> HIDE DEF q, r
<1>3. q < 3
  <2>1. q >= 3 => q * BankLen >= 3 * BankLen
    BY <1>1, <1>2, SMT
  <2> QED
    BY <1>1, <1>2, <2>1, SMT
<1>4. slot[q] \in 0..(Banks - 1)
  BY <1>2, <1>3 DEF TypeOK
<1>5. slot[q] * BankLen + r \in Cells
  BY <1>2, <1>4, CellOf, Zenon
<1> DEFINE x == slot[q] * BankLen + r
<1>6. Mapped(a) = x % Size
  BY DEF Mapped, q, r
<1> HIDE DEF x
<1>7. x % Size = x
  BY <1>1, <1>5, SMT DEF Cells, x
<1> QED
  BY <1>5, <1>6, <1>7 DEF x

LEMMA BusTypes ==
    ASSUME TypeInv, Bus, Head(todo) \in Cycles
    PROVE  /\ TypeInv' /\ (wren => wren') /\ (slot[0] = 0 => slot'[0] = 0)
<1>1. /\ UNCHANGED <<chip, mem, ops, is_flash, file, rom_addr, pc, job, performed>>
      /\ got \in [{"mem0", "mem1", "id0", "id1"} -> Byte]
      /\ slot \in [0..2 -> 0..Banks-1] /\ Banks \in Nat \ {0}
  BY BusCycle, GotTyped, FlashAssumption DEF TypeInv, TypeOK
<1> SUFFICES /\ busy' \in Cells \X Byte /\ wren' \in BOOLEAN
             /\ state' \in {"read", "unlock1", "unlock2", "code", "program", "busy",
                            "erase", "erase1", "erase2", "erasing"}
             /\ slot' \in [0..2 -> 0..Banks-1]
             /\ got' \in [{"mem0", "mem1", "id0", "id1"} -> Byte]
             /\ chip = "rom" \/ ~wren' => state' = "read"
             /\ (wren => wren') /\ (slot[0] = 0 => slot'[0] = 0)
  BY <1>1 DEF TypeInv, TypeOK, NoBytes
<1>2. ASSUME NEW a \in Addresses, NEW b \in Byte, Head(todo) = W(a, b)
      PROVE  /\ busy' \in Cells \X Byte /\ UNCHANGED <<wren, slot, got>>
             /\ state' \in {"read", "unlock1", "unlock2", "code", "program", "busy",
                            "erase", "erase1", "erase2", "erasing"}
             /\ chip = "rom" \/ ~wren' => state' = "read"
  <2>1. cartWrite(a, b)
    BY <1>2, BusCycle
  <2>2. Mapped(a) \in Cells
    BY MapsAny DEF TypeInv
  <2>3. Decode(Mapped(a), b) \in {"read", "unlock1", "unlock2", "code", "program", "busy",
                                  "erase", "erase1", "erase2", "erasing"}
    BY DEF Decode, TypeInv, TypeOK
  <2> QED
    BY <2>1, <2>2, <2>3 DEF cartWrite, TypeInv, TypeOK
<1>3. ASSUME NEW a \in Addresses, NEW to \in {"mem0", "mem1", "id0", "id1"}, Head(todo) = R(a, to)
      PROVE  /\ UNCHANGED <<state, busy, wren, slot>>
             /\ got' \in [{"mem0", "mem1", "id0", "id1"} -> Byte]
  <2>1. Reads(Mapped(a)) \in Byte
    BY MapsAny, ReadsByte DEF TypeInv
  <2> QED
    BY <1>1, <1>3, <2>1, BusCycle
<1>4. ASSUME NEW k \in 0..2, NEW b \in Nat, Head(todo) = Slot(k, b), k = 0 => b = 0
      PROVE  /\ UNCHANGED <<state, busy, wren, got>>
             /\ slot' \in [0..2 -> 0..Banks-1] /\ (slot[0] = 0 => slot'[0] = 0)
  <2> DEFINE c == b % Banks
  <2>1. c \in 0..Banks-1 /\ (k = 0 => c = 0)
    BY <1>1, <1>4, SMT
  <2>2. slot' = [slot EXCEPT ![k] = c] /\ UNCHANGED <<state, busy, wren, got>>
    BY <1>4, BusCycle, Zenon
  <2> HIDE DEF c
  <2> QED
    BY <1>1, <2>1, <2>2
<1>5. CASE Head(todo) = EnableRom
  BY <1>1, <1>5, BusCycle DEF TypeInv, TypeOK
<1>6. \/ \E a \in Addresses, b \in Byte : Head(todo) = W(a, b)
      \/ \E a \in Addresses, to \in {"mem0", "mem1", "id0", "id1"} : Head(todo) = R(a, to)
      \/ \E k \in 0..2, b \in Nat : Head(todo) = Slot(k, b) /\ (k = 0 => b = 0)
      \/ Head(todo) = EnableRom
  BY DEF Cycles, W, R, Slot, NoBytes
<1> QED
  BY <1>1, <1>2, <1>3, <1>4, <1>5, <1>6 DEF TypeInv, TypeOK

-----------------------------------------------------------------------------
(***************************************************************************)
(* The commands, cycle by cycle: each part of the invariant is kept by     *)
(* the cycle at the head of its script.                                    *)
(***************************************************************************)
LEMMA MapperCycle ==
    ASSUME TypeInv, Bus,
           Head(todo) = EnableRom \/ \E k \in 0..2, b \in Nat : Head(todo) = Slot(k, b)
    PROVE  /\ UNCHANGED <<chip, state, busy, got>>
           /\ Head(todo) = EnableRom => wren' /\ slot' = slot
           /\ Head(todo) # EnableRom => wren' = wren
           /\ Head(todo) = Slot(0, 0) => slot'[0] = 0
           /\ \A k \in 1..2, b \in Nat : Head(todo) = Slot(k, b) => slot'[0] = slot[0]
<1>1. slot \in [0..2 -> 0..Banks-1] /\ Banks \in Nat \ {0} /\ UNCHANGED chip
  BY BusCycle, FlashAssumption DEF TypeInv, TypeOK
<1>2. ASSUME NEW k \in 0..2, NEW b \in Nat, Head(todo) = Slot(k, b)
      PROVE  /\ slot' = [slot EXCEPT ![k] = b % Banks] /\ UNCHANGED <<state, busy, wren, got>>
             /\ Head(todo) # EnableRom
  BY <1>2, BusCycle DEF Slot, EnableRom
<1>3. Head(todo) = EnableRom => wren' /\ UNCHANGED <<state, busy, slot, got>>
  BY BusCycle
<1>4. ASSUME Head(todo) = Slot(0, 0) PROVE slot'[0] = 0
  <2>1. slot' = [slot EXCEPT ![0] = 0 % Banks]
    BY <1>2, <1>4
  <2>2. 0 % Banks = 0
    BY <1>1, SMT
  <2> QED
    BY <1>1, <2>1, <2>2
<1>5. ASSUME NEW k \in 1..2, NEW b \in Nat, Head(todo) = Slot(k, b) PROVE slot'[0] = slot[0]
  <2>1. k \in 0..2 /\ k # 0
    OBVIOUS
  <2>2. slot' = [slot EXCEPT ![k] = b % Banks]
    BY <1>2, <1>5, <2>1
  <2> QED
    BY <1>1, <2>1, <2>2
<1> QED
  BY <1>1, <1>2, <1>3, <1>4, <1>5

LEMMA NextCycle ==
    ASSUME Bus, NEW CONSTANT n, n = Len(todo), NEW CONSTANT k \in Nat, NEW CONSTANT s,
           Left(todo, s), Len(s) = k
    PROVE  /\ n \in 1..k /\ Head(todo) = FromEnd(s, n)
           /\ Left(todo', s) /\ Len(todo') = n - 1
<1>1. todo # <<>> /\ todo' = Tail(todo) /\ Len(s) \in Nat
  BY BusCycle
<1> QED
  BY <1>1, LeftTail

LEMMA IdStates ==
    /\ \A n \in Int : n <= 0 \/ n >= 6 => IdState(n) = "read"
    /\ \A n \in Int : n \notin {1, 2, 3, 4, 5} => IdState(n) = "read"
  BY DEF IdState

LEMMA BusProbing ==
    ASSUME TypeInv, Bus, Probing, pc = "probed"
    PROVE  Probing'
<1> DEFINE lv == "mx29lv320"
<1>a. PICK n : n = Len(todo)
  OBVIOUS
<1>1. /\ n \in 1..10 /\ Head(todo) = FromEnd(Probe, n)
      /\ Left(todo', Probe) /\ Len(todo') = n - 1
  <2>1. Left(todo, Probe) /\ Len(Probe) = 10 /\ 10 \in Nat
    BY ProbeCycles DEF Probing
  <2> QED
    BY <1>a, <2>1, NextCycle, Zenon
<1>2. (n <= 9 => wren) /\ (n <= 8 => slot[0] = 0) /\ Identifying(lv, n) /\ lv \in Drivers
  BY <1>a DEF Probing, Drivers
<1> SUFFICES /\ n - 1 <= 9 => wren'
             /\ n - 1 <= 8 => slot'[0] = 0
             /\ Identifying(lv, n - 1)'
  BY <1>1 DEF Probing
<1>3. CASE n \in 1..6
  <2>1. Head(todo) = FromEnd(readSiliconID(lv), n)
    BY <1>1, <1>3, ProbeCycles
  <2> QED
    BY <1>2, <1>3, <2>1, IdentifyStep
<1>4. CASE n \in 7..10
  <2>1. state = "read"
    <3>1. IdState(n) = "read"
      BY <1>4, IdStates
    <3> QED
      BY <1>2, <3>1 DEF Identifying
  <2>2. /\ n = 10 => Head(todo) = EnableRom
        /\ n = 9 => Head(todo) = Slot(0, 0)
        /\ n = 8 => Head(todo) = Slot(1, 1)
        /\ n = 7 => Head(todo) = Slot(2, 2)
    BY <1>1, ProbeCycles
  <2>3. /\ state' = state /\ (n = 10 => wren') /\ (n # 10 => wren' = wren)
        /\ n = 9 => slot'[0] = 0
        /\ n \in {7, 8} => slot'[0] = slot[0]
    BY <1>4, <2>2, MapperCycle DEF Slot, EnableRom
  <2>4. Identifying(lv, n - 1)'
    <3>1. n - 1 \in Int /\ n - 1 >= 6
      BY <1>4
    <3>2. state' = "read" /\ IdState(n - 1) = "read" /\ ~(n - 1 <= 2) /\ ~(n - 1 <= 1)
      BY <2>1, <2>3, <3>1, IdStates
    <3> QED
      BY <3>2 DEF Identifying
  <2> QED
    BY <1>2, <1>4, <2>3, <2>4
<1>5. n \in 1..6 \/ n \in 7..10
  BY <1>1
<1> QED
  BY <1>3, <1>4, <1>5, Zenon

LEMMA CompareStep ==
    ASSUME TypeInv, Bus, NEW n \in 1..8, Head(todo) = FromEnd(detect(ops), n),
           Identifying(ops, n), Compared(n)
    PROVE  /\ Identifying(ops, n - 1)' /\ Compared(n - 1)'
           /\ UNCHANGED <<wren, slot, mem, ops, chip>>
<1>1. ops \in Drivers /\ UNCHANGED <<mem, ops, chip>>
  BY BusCycle DEF TypeInv, TypeOK, Drivers
<1>2. got \in [{"mem0", "mem1", "id0", "id1"} -> Byte]
  BY GotTyped
<1>3. CASE n \in 1..6
  <2>1. Head(todo) = FromEnd(readSiliconID(ops), n)
    BY <1>1, <1>3, DetectCycles
  <2>2. /\ Identifying(ops, n - 1)' /\ UNCHANGED <<wren, slot>>
        /\ got'["mem0"] = got["mem0"] /\ got'["mem1"] = got["mem1"]
    BY <1>1, <1>3, <2>1, IdentifyStep
  <2>3. Compared(n - 1)'
    BY <1>1, <1>3, <2>2, SameMap DEF Compared
  <2> QED
    BY <1>1, <2>2, <2>3
<1>4. CASE n \in {7, 8}
  <2>1. state = "read"
    BY <1>4, IdStates DEF Identifying
  <2>2. /\ n = 8 => Head(todo) = R(CodeAt(ops)[1], "mem0")
        /\ n = 7 => Head(todo) = R(CodeAt(ops)[2], "mem1")
    BY <1>1, DetectCycles
  <2>3. UNCHANGED <<state, wren, slot>>
    BY <1>4, <2>2, BusCycle
  <2>4. /\ n = 8 => got' = [got EXCEPT !["mem0"] = mem[Mapped(CodeAt(ops)[1])]]
        /\ n = 7 => got' = [got EXCEPT !["mem1"] = mem[Mapped(CodeAt(ops)[2])]]
    BY <2>1, <2>2, BusCycle DEF Reads
  <2>5. Identifying(ops, n - 1)'
    <3>1. IdState(n - 1) = "read" /\ ~(n - 1 <= 2) /\ ~(n - 1 <= 1)
      BY <1>4, IdStates
    <3> QED
      BY <2>1, <2>3, <3>1 DEF Identifying
  <2>6. Compared(n - 1)'
    <3>1. \A a : Mapped(a)' = Mapped(a)
      BY <2>3, SameMap
    <3>2. n = 8 => got'["mem0"] = mem[Mapped(CodeAt(ops)[1])]
      BY <1>2, <2>4
    <3>3. n = 7 => /\ got'["mem0"] = mem[Mapped(CodeAt(ops)[1])]
                   /\ got'["mem1"] = mem[Mapped(CodeAt(ops)[2])]
      BY <1>2, <2>4 DEF Compared
    <3> QED
      BY <1>1, <1>4, <3>1, <3>2, <3>3 DEF Compared
  <2> QED
    BY <1>1, <2>3, <2>5, <2>6
<1> QED
  BY <1>3, <1>4


LEMMA BusDetecting ==
    ASSUME TypeInv, Bus, Detecting, pc = "detect"
    PROVE  Detecting'
<1>1. PICK n : n = Len(todo)
  OBVIOUS
<1>2. PICK b \in 0..Banks-1 : Left(todo, <<Slot(2, b)>> \o detect(ops))
  BY DEF Detecting
<1>3. PICK s : s = <<Slot(2, b)>> \o detect(ops)
  OBVIOUS
<1>4. /\ ops \in Drivers /\ UNCHANGED <<chip, mem, ops>> /\ b \in Nat
  BY BusCycle, FlashAssumption DEF TypeInv, TypeOK, Drivers
<1>5. /\ Len(s) = 9 /\ FromEnd(s, 9) = Slot(2, b) /\ 9 \in Nat
      /\ \A j \in 1..8 : FromEnd(s, j) = FromEnd(detect(ops), j)
  BY <1>3, <1>4, DetectInInitCycles
<1>6. n \in 1..9 /\ Head(todo) = FromEnd(s, n) /\ Left(todo', s) /\ Len(todo') = n - 1
  <2>1. Left(todo, s)
    BY <1>2, <1>3
  <2> QED
    BY <1>1, <1>5, <2>1, NextCycle, Zenon
<1>7. /\ wren /\ slot[0] = 0 /\ Identifying(ops, n) /\ Compared(n)
      /\ chip # "rom" /\ ~Mimics => Hears(ops)
  BY <1>1 DEF Detecting
<1>8. wren' /\ slot'[0] = 0 /\ Identifying(ops, n - 1)' /\ Compared(n - 1)'
  <2>1. CASE n \in 1..8
    <3>1. Head(todo) = FromEnd(detect(ops), n)
      BY <1>5, <1>6, <2>1
    <3> QED
      BY <1>7, <2>1, <3>1, CompareStep
  <2>2. CASE n = 9
    <3>1. Head(todo) = Slot(2, b) /\ Head(todo) # EnableRom
      BY <1>5, <1>6, <2>2 DEF Slot, EnableRom
    <3>a. \E k \in 0..2, c \in Nat : Head(todo) = Slot(k, c)
      BY <1>4, <3>1
    <3>b. /\ state' = state /\ wren' = wren
          /\ \A k \in 1..2, c \in Nat : Head(todo) = Slot(k, c) => slot'[0] = slot[0]
      BY <3>1, <3>a, MapperCycle, Zenon
    <3>2. wren' /\ slot'[0] = 0 /\ state' = state
      BY <1>4, <1>7, <3>1, <3>b
    <3>3. IdState(n) = "read" /\ IdState(n - 1) = "read"
      BY <2>2, IdStates
    <3>4. state = "read"
      BY <1>7, <3>3 DEF Identifying
    <3>5. ~(n - 1 <= 7) /\ ~(n - 1 <= 6) /\ ~(n - 1 <= 2) /\ ~(n - 1 <= 1)
      BY <2>2
    <3> QED
      BY <3>2, <3>3, <3>4, <3>5 DEF Identifying, Compared
  <2> QED
    BY <1>6, <2>1, <2>2
<1>9. chip' # "rom" /\ ~Mimics' => Hears(ops)'
  BY <1>4, <1>7, <1>8 DEF Mimics, Hears
<1>10. \E c \in 0..Banks-1 : Left(todo', <<Slot(2, c)>> \o detect(ops'))
  BY <1>3, <1>4, <1>6
<1> QED
  BY <1>4, <1>6, <1>8, <1>9, <1>10 DEF Detecting

LEMMA BusInforming ==
    ASSUME TypeInv, Bus, Informing, pc = "info"
    PROVE  Informing'
<1>1. PICK n : n = Len(todo)
  OBVIOUS
<1>2. PICK s : s = detect(ops)
  OBVIOUS
<1>3. ops \in Drivers /\ UNCHANGED <<mem, ops>>
  BY BusCycle DEF TypeInv, TypeOK, Drivers
<1>4. Len(s) = 8 /\ 8 \in Nat /\ Left(todo, s)
  BY <1>2, <1>3, DetectCycles DEF Informing
<1>5. n \in 1..8 /\ Head(todo) = FromEnd(s, n) /\ Left(todo', s) /\ Len(todo') = n - 1
  BY <1>1, <1>4, NextCycle, Zenon
<1>6. Identifying(ops, n) /\ Compared(n)
  BY <1>1 DEF Informing
<1>7. Identifying(ops, n - 1)' /\ Compared(n - 1)'
  BY <1>2, <1>5, <1>6, CompareStep
<1> QED
  BY <1>2, <1>3, <1>5, <1>7 DEF Informing

LEMMA BusInitialising ==
    ASSUME TypeInv, Bus, Initialising, pc = "initialised"
    PROVE  Initialising'
<1>1. PICK n : n = Len(todo)
  OBVIOUS
<1>2. PICK s : s = readSiliconID(ops) \o mapper_init
  OBVIOUS
<1>3. ops \in Drivers /\ UNCHANGED ops
  BY BusCycle DEF TypeInv, TypeOK, Drivers
<1>4. /\ Len(s) = 10 /\ 10 \in Nat /\ Left(todo, s)
      /\ \A j \in 1..4 : FromEnd(s, j) = FromEnd(mapper_init, j)
      /\ \A j \in 1..6 : FromEnd(s, j + 4) = FromEnd(readSiliconID(ops), j)
  BY <1>2, <1>3, InitAfterIdCycles DEF Initialising
<1>5. n \in 1..10 /\ Head(todo) = FromEnd(s, n) /\ Left(todo', s) /\ Len(todo') = n - 1
  BY <1>1, <1>4, NextCycle, Zenon
<1>6. state = IF Hears(ops) THEN IdState(n - 4) ELSE "read"
  BY <1>1 DEF Initialising
<1>7. state' = IF Hears(ops)' THEN IdState(n - 1 - 4) ELSE "read"
  <2>1. CASE n \in 5..10
    <3>1. PICK j \in 1..6 : n = j + 4 /\ n - 4 = j /\ n - 1 - 4 = j - 1
      BY <2>1
    <3>2. Head(todo) = FromEnd(readSiliconID(ops), j)
      BY <1>4, <1>5, <3>1
    <3>3. /\ state' = IF Hears(ops) THEN IdState(j - 1) ELSE "read"
          /\ UNCHANGED <<chip, wren>>
      BY <1>3, <1>6, <3>1, <3>2, IdentifyState, BusCycle
    <3>4. Hears(ops)' = Hears(ops)
      BY <1>3, <3>3 DEF Hears
    <3> QED
      BY <3>1, <3>3, <3>4, Zenon
  <2>2. CASE n \in 1..4
    <3>1. Head(todo) = FromEnd(mapper_init, n)
      BY <1>4, <1>5, <2>2
    <3>2. Head(todo) = EnableRom \/ \E k \in 0..2, b \in Nat : Head(todo) = Slot(k, b)
      BY <2>2, <3>1, InitCycles
    <3>3. state' = state
      BY <3>2, MapperCycle
    <3>4. IdState(n - 4) = "read" /\ IdState(n - 1 - 4) = "read"
      BY <2>2, IdStates
    <3> QED
      BY <1>6, <3>3, <3>4
  <2> QED
    BY <1>5, <2>1, <2>2
<1>8. n - 1 - 4 = Len(todo') - 4
  BY <1>5
<1> QED
  BY <1>2, <1>3, <1>5, <1>7, <1>8 DEF Initialising

LEMMA BusShowing ==
    ASSUME TypeInv, Bus, Showing, pc = "shown"
    PROVE  Showing'
<1>1. PICK n : n = Len(todo)
  OBVIOUS
<1>2. PICK dr \in Drivers :
        /\ Left(todo, readSiliconID(dr)) \/ (dr = "mx29lv320" /\ Left(todo, Probe))
        /\ state = IF Hears(dr) THEN IdState(n) ELSE "read"
  BY <1>1 DEF Showing
<1>3. CASE Left(todo, readSiliconID(dr))
  <2>1. PICK s : s = readSiliconID(dr)
    OBVIOUS
  <2>2. Len(s) = 6 /\ 6 \in Nat /\ Left(todo, s)
    BY <1>3, <2>1, IdCycles
  <2>3. n \in 1..6 /\ Head(todo) = FromEnd(s, n) /\ Left(todo', s) /\ Len(todo') = n - 1
    BY <1>1, <2>2, NextCycle, Zenon
  <2>4. state' = IF Hears(dr)' THEN IdState(n - 1) ELSE "read"
    BY <1>2, <2>1, <2>3, IdentifyState
  <2> QED
    BY <2>1, <2>3, <2>4 DEF Showing
<1>4. CASE dr = "mx29lv320" /\ Left(todo, Probe)
  <2>2. Len(Probe) = 10 /\ 10 \in Nat
    BY ProbeCycles
  <2>3. n \in 1..10 /\ Head(todo) = FromEnd(Probe, n) /\ Left(todo', Probe) /\ Len(todo') = n - 1
    BY <1>1, <1>4, <2>2, NextCycle, Zenon
  <2>4. state' = IF Hears(dr)' THEN IdState(n - 1) ELSE "read"
    <3>1. CASE n \in 1..6
      <4>1. Head(todo) = FromEnd(readSiliconID(dr), n)
        BY <1>4, <2>3, <3>1, ProbeCycles
      <4> QED
        BY <1>2, <3>1, <4>1, IdentifyState
    <3>2. CASE n \in 7..10
      <4>1. Head(todo) = EnableRom \/ \E k \in 0..2, b \in Nat : Head(todo) = Slot(k, b)
        BY <2>3, <3>2, ProbeCycles
      <4>2. state' = state
        BY <4>1, MapperCycle
      <4>3. IdState(n) = "read" /\ IdState(n - 1) = "read"
        BY <3>2, IdStates
      <4> QED
        BY <1>2, <4>2, <4>3
    <3> QED
      BY <2>3, <3>1, <3>2
  <2> QED
    BY <1>4, <2>3, <2>4 DEF Showing
<1> QED
  BY <1>2, <1>3, <1>4


\* A driver's write of a byte that starts no command, or of the first one.
LEMMA UnheardWrite ==
    ASSUME TypeInv, NEW dr \in Drivers, ~Hears(dr), NEW a, NEW b, cartWrite(a, b),
           b # xAA \/ (a = Unlock(dr)[1] /\ b = xAA)
    PROVE  /\ state = "read" => state' = "read"
           /\ state = "unlock1" /\ b # x55 => state' = "read"
<1>1. state = "read" => state' = "read"
  BY WriteStep
<1>2. ASSUME state = "unlock1", b # x55 PROVE state' = "read"
  <2>1. chip # "rom" /\ wren
    BY <1>2 DEF TypeInv
  <2> QED
    BY <1>2, <2>1, OtherWrites DEF cartWrite
<1> QED
  BY <1>1, <1>2

LEMMA BusErasing ==
    ASSUME TypeInv, Bus, Erasing, pc = "pollErase"
    PROVE  Erasing'
<1>1. PICK n : n = Len(todo)
  OBVIOUS
<1>2. PICK s : s = chipErase(ops)
  OBVIOUS
<1>3. ops \in Drivers /\ UNCHANGED <<chip, ops, job, performed>>
  BY BusCycle DEF TypeInv, TypeOK, Drivers
<1>4. Len(s) = 6 /\ 6 \in Nat /\ Left(todo, s)
  BY <1>2, <1>3, EraseCycles DEF Erasing
<1>5. n \in 1..6 /\ Head(todo) = FromEnd(s, n) /\ Left(todo', s) /\ Len(todo') = n - 1
  BY <1>1, <1>4, NextCycle, Zenon
<1>6. job = [kind |-> "erase"] /\ ~performed /\ state = IF Hears(ops) THEN EraseState(n) ELSE "read"
  BY <1>1, <1>5 DEF Erasing
<1> DEFINE m1 == Unlock(ops)[1]
           m2 == Unlock(ops)[2]
<1>7. /\ n \in {3, 6} => cartWrite(m1, xAA)
      /\ n \in {2, 5} => cartWrite(m2, x55)
      /\ n = 4 => cartWrite(m1, x80)
      /\ n = 1 => cartWrite(m1, x10)
  BY <1>2, <1>3, <1>5, EraseCycles, BusCycle
<1>8. n \in {1, 2, 3, 4, 5, 6} /\ x55 # xAA /\ x80 # xAA /\ x10 # xAA
  BY <1>5, Bytes
<1>9. Hears(ops)' = Hears(ops)
  <2>1. UNCHANGED wren
    BY <1>7, <1>8 DEF cartWrite
  <2> QED
    BY <2>1, <1>3 DEF Hears
<1>10. CASE ~Hears(ops)
  <2>1. state' = "read"
    BY <1>3, <1>6, <1>7, <1>8, <1>10, UnheardWrite
  <2> QED
    BY <1>2, <1>3, <1>5, <1>6, <1>9, <1>10, <2>1 DEF Erasing
<1>11. CASE Hears(ops)
  <2>1. state = EraseState(n)
    BY <1>6, <1>11
  <2>2. /\ n = 6 => state' = "unlock1"
        /\ n = 5 => state' = "unlock2"
        /\ n = 4 => state' = "erase"
        /\ n = 3 => state' = "erase1"
        /\ n = 2 => state' = "erase2"
        /\ n = 1 => state' = "erasing"
    <3>1. /\ n = 6 => state = "read" /\ state' = Decode(Mapped(m1), xAA)
          /\ n = 5 => state = "unlock1" /\ state' = Decode(Mapped(m2), x55)
          /\ n = 4 => state = "unlock2" /\ state' = Decode(Mapped(m1), x80)
          /\ n = 3 => state = "erase" /\ state' = Decode(Mapped(m1), xAA)
          /\ n = 2 => state = "erase1" /\ state' = Decode(Mapped(m2), x55)
          /\ n = 1 => state = "erase2" /\ state' = Decode(Mapped(m1), x10)
      BY <1>3, <1>7, <1>11, <2>1, WriteStep DEF EraseState
    <3> QED
      BY <1>3, <1>11, <3>1, HeardCommands
  <2>3. n = 1 => state' = "erasing" /\ n - 1 = 0
    BY <2>2
  <2>4. n # 1 => state' = EraseState(n - 1) /\ n - 1 # 0
    BY <1>8, <2>2 DEF EraseState
  <2> QED
    BY <1>2, <1>3, <1>5, <1>6, <1>9, <1>11, <2>3, <2>4 DEF Erasing
<1> QED
  BY <1>10, <1>11


LEMMA BusErased ==
    ASSUME TypeInv, Bus, Erased, pc = "erased"
    PROVE  Erased'
<1>1. PICK n : n = Len(todo)
  OBVIOUS
<1> DEFINE w == W(0, xF0)
           s == <<w>>
<1>2. Len(s) = 1 /\ FromEnd(s, 1) = w /\ 1 \in Nat
  BY DEF FromEnd
<1>3. Left(todo, s) /\ state = "read"
  BY DEF Erased
<1> HIDE DEF s
<1>4. n \in 1..1 /\ Head(todo) = FromEnd(s, n) /\ Left(todo', s)
  BY <1>1, <1>2, <1>3, NextCycle, Zenon
<1>5. cartWrite(0, xF0) /\ xF0 # xAA
  BY <1>2, <1>4, BusCycle, Bytes
<1>6. state' = "read"
  BY <1>3, <1>5, OtherWrites DEF cartWrite
<1> QED
  BY <1>4, <1>6 DEF Erased, s

LEMMA BusAtByte ==
    ASSUME TypeInv, Bus, AtByte, InFile, pc = "byte"
    PROVE  AtByte'
<1> DEFINE q == rom_addr \div BankLen
           w == Slot(2, q)
<1>1. /\ todo # <<>> /\ todo' = Tail(todo) /\ Banks \in Nat \ {0}
      /\ UNCHANGED <<chip, ops, rom_addr, pc>> /\ slot \in [0..2 -> 0..Banks-1]
  BY BusCycle, FlashAssumption DEF TypeInv, TypeOK
<1>2. todo = <<w>> /\ (state = "read" \/ (~Hears(ops) /\ state = "unlock1"))
  BY <1>1 DEF AtByte
<1>3. Head(todo) = Slot(2, q) /\ Tail(todo) = <<>>
  BY <1>2
<1>a. q \in Nat
  BY FlashAssumption DEF InFile
<1>4. slot' = [slot EXCEPT ![2] = q % Banks] /\ UNCHANGED <<state, wren>>
  BY <1>3, <1>a, BusCycle, Zenon
<1> HIDE DEF q
<1>5. slot'[2] = q % Banks
  BY <1>1, <1>4
<1>6. Hears(ops)' = Hears(ops)
  BY <1>1, <1>4 DEF Hears
<1> QED
  BY <1>1, <1>2, <1>3, <1>4, <1>5, <1>6 DEF AtByte, q

LEMMA FileData ==
    ASSUME InFile, pc \in {"byte", "pollByte"}
    PROVE  /\ Data \in Byte /\ cartAddr \in Addresses
           /\ rom_addr \in Nat /\ rom_addr + 1 \in 1..Len(file) /\ Len(file) \in Nat
           /\ Len(file) % PktLen = 0
<1>1. file \in Seq(Byte) /\ rom_addr \in Nat /\ rom_addr < Len(file) /\ Len(file) % PktLen = 0
  BY FlashAssumption DEF InFile
<1>2. rom_addr + 1 \in 1..Len(file) /\ Len(file) \in Nat
  BY <1>1, LenProperties
<1>3. Data \in Byte
  BY <1>1, <1>2, ElementOfSeq DEF Data
<1>4. cartAddr \in Addresses
  <2>1. BankLen \in Nat \ {0}
    BY FlashAssumption
  <2> DEFINE r == rom_addr % BankLen
  <2>2. r \in 0..(BankLen - 1)
    BY <1>1, <2>1, SMT
  <2> HIDE DEF r
  <2>3. 2 * BankLen + r \in Addresses
    BY <2>1, <2>2, SMT DEF Addresses
  <2> QED
    BY <2>3 DEF cartAddr, r
<1> QED
  BY <1>1, <1>2, <1>3, <1>4

\* A stray first cycle is not the last one of a packet.
LEMMA Stray ==
    ASSUME TypeInv, chip # "rom", rom_addr \in Nat, slot[2] = (rom_addr \div BankLen) % Banks,
           Mapped(cartAddr) % Decoded(chip) = Unlock(chip)[1]
    PROVE  rom_addr % 4 # 3
<1> DEFINE y == Mapped(cartAddr)
<1>1. y \in Nat /\ y % 16 = rom_addr % 16
  BY MapsByte, Sizes DEF TypeInv, Cells
<1>2. y % 8 = 5 \/ y % 16 = 10
  BY DEF Decoded, Unlock
<1> HIDE DEF y
<1>3. y % 8 = (y % 16) % 8 /\ rom_addr % 4 = (rom_addr % 16) % 4
  BY <1>1, SMT
<1> QED
  BY <1>1, <1>2, <1>3, SMT

LEMMA BusProgramming ==
    ASSUME TypeInv, Bus, Programming, InFile, pc = "pollByte"
    PROVE  Programming'
<1>1. PICK n : n = Len(todo)
  OBVIOUS
<1>2. PICK s : s = programByte(ops, cartAddr, Data)
  OBVIOUS
<1>3. /\ ops \in Drivers /\ UNCHANGED <<chip, ops, job, performed, file, rom_addr, pc>>
      /\ Data \in Byte /\ cartAddr \in Addresses /\ rom_addr \in Nat
  BY BusCycle, FileData DEF TypeInv, TypeOK, Drivers
<1>4. Len(s) = 4 /\ 4 \in Nat /\ Left(todo, s)
  BY <1>2, <1>3, ByteCycles DEF Programming
<1>5. n \in 1..4 /\ Head(todo) = FromEnd(s, n) /\ Left(todo', s) /\ Len(todo') = n - 1
  BY <1>1, <1>4, NextCycle, Zenon
<1>6. /\ slot[2] = (rom_addr \div BankLen) % Banks
      /\ job = [kind |-> "program", at |-> rom_addr % Size, byte |-> Data]
      /\ ~performed
      /\ IF Hears(ops) THEN state = ByteState(n)
                       ELSE state = "read" \/ (state = "unlock1" /\ n = 4)
  BY <1>1, <1>5 DEF Programming
<1> DEFINE m1 == Unlock(ops)[1]
           m2 == Unlock(ops)[2]
           m3 == cartAddr
<1>7. /\ n = 4 => cartWrite(m1, xAA)
      /\ n = 3 => cartWrite(m2, x55)
      /\ n = 2 => cartWrite(m1, xA0)
      /\ n = 1 => cartWrite(m3, Data)
  BY <1>2, <1>3, <1>5, ByteCycles, BusCycle
<1>8. n \in {1, 2, 3, 4} /\ x55 # xAA /\ xAA # x55 /\ xA0 # xAA
  BY <1>5, Bytes
<1>9. UNCHANGED <<wren, slot>> /\ Hears(ops)' = Hears(ops)
  <2>1. UNCHANGED <<wren, slot>>
    BY <1>7, <1>8 DEF cartWrite
  <2> QED
    BY <2>1, <1>3 DEF Hears
<1>10. /\ Left(todo', programByte(ops', cartAddr', Data'))
       /\ slot'[2] = (rom_addr' \div BankLen) % Banks
       /\ job' = [kind |-> "program", at |-> rom_addr' % Size, byte |-> Data']
       /\ ~performed' /\ rom_addr' = rom_addr
  BY <1>2, <1>3, <1>5, <1>6, <1>9 DEF cartAddr, Data
<1>11. CASE ~Hears(ops)
  <2>1. CASE n \in {2, 3, 4}
    <3>1. state' = "read"
      BY <1>3, <1>6, <1>7, <1>8, <1>11, <2>1, UnheardWrite
    <3> QED
      BY <1>9, <1>10, <1>11, <3>1 DEF Programming
  <2>2. CASE n = 1
    <3>1. state = "read" /\ cartWrite(m3, Data) /\ n - 1 = 0
      BY <1>6, <1>7, <1>11, <2>2
    <3>2. state' = "read" \/ (state' = "unlock1" /\ rom_addr % 4 # 3)
      <4>1. CASE wren /\ chip # "rom"
        <5>1. state' = Decode(Mapped(cartAddr), Data)
          BY <3>1, <4>1 DEF cartWrite
        <5>2. /\ state' \in {"read", "unlock1"}
              /\ state' = "unlock1" => Mapped(cartAddr) % Decoded(chip) = Unlock(chip)[1]
          BY <3>1, <5>1, OtherWrites
        <5> QED
          BY <1>3, <1>6, <4>1, <5>2, Stray
      <4>2. CASE ~(wren /\ chip # "rom")
        BY <3>1, <4>2 DEF cartWrite
      <4> QED
        BY <4>1, <4>2
    <3> QED
      BY <1>5, <1>9, <1>10, <1>11, <3>1, <3>2 DEF Programming
  <2> QED
    BY <1>8, <2>1, <2>2
<1>12. CASE Hears(ops)
  <2>1. state = ByteState(n)
    BY <1>6, <1>12
  <2>2. CASE n # 1
    <3>1. /\ n = 4 => state = "read" /\ state' = Decode(Mapped(m1), xAA)
          /\ n = 3 => state = "unlock1" /\ state' = Decode(Mapped(m2), x55)
          /\ n = 2 => state = "unlock2" /\ state' = Decode(Mapped(m1), xA0)
      BY <1>3, <1>7, <1>12, <2>1, WriteStep DEF ByteState
    <3>2. state' = ByteState(n - 1) /\ n - 1 # 0
      BY <1>3, <1>8, <1>12, <2>2, <3>1, HeardCommands DEF ByteState
    <3> QED
      BY <1>5, <1>9, <1>10, <1>12, <3>2 DEF Programming
  <2>3. CASE n = 1
    <3>1. state = "program" /\ cartWrite(m3, Data) /\ n - 1 = 0
      BY <1>7, <2>1, <2>3 DEF ByteState
    <3>2. state' = "busy" /\ busy' = <<Mapped(cartAddr), Data>>
      BY <1>3, <1>12, <3>1, WriteStep, OtherWrites
    <3>3. Mapped(cartAddr) = rom_addr % Size
      BY <1>3, <1>6, MapsByte DEF TypeInv
    <3>4. job'.at = rom_addr % Size /\ job'.byte = Data
      BY <1>3, <1>6
    <3> QED
      BY <1>5, <1>9, <1>10, <1>12, <3>1, <3>2, <3>3, <3>4 DEF Programming
  <2> QED
    BY <2>2, <2>3
<1> QED
  BY <1>11, <1>12


LEMMA Vacuous ==
    /\ pc' \notin {"idle", "packet"} => AtRest'
    /\ pc' # "probed" => Probing'
    /\ pc' # "detect" => Detecting'
    /\ pc' # "info" => Informing'
    /\ pc' # "initialised" => Initialising'
    /\ pc' # "shown" => Showing'
    /\ pc' # "pollErase" => Erasing'
    /\ pc' # "erased" => Erased'
    /\ pc' # "byte" => AtByte'
    /\ pc' # "pollByte" => Programming'
<1>1. pc' \notin {"idle", "packet"} => AtRest'
  BY DEF AtRest
<1>2. pc' # "probed" => Probing'
  BY DEF Probing
<1>3. pc' # "detect" => Detecting'
  BY DEF Detecting
<1>4. pc' # "info" => Informing'
  BY DEF Informing
<1>5. pc' # "initialised" => Initialising'
  BY DEF Initialising
<1>6. pc' # "shown" => Showing'
  BY DEF Showing
<1>7. pc' # "pollErase" => Erasing'
  BY DEF Erasing
<1>8. pc' # "erased" => Erased'
  BY DEF Erased
<1>9. pc' # "byte" => AtByte'
  BY DEF AtByte
<1>10. pc' # "pollByte" => Programming'
  BY DEF Programming
<1> QED
  BY <1>1, <1>2, <1>3, <1>4, <1>5, <1>6, <1>7, <1>8, <1>9, <1>10

LEMMA TodoTyped ==
    ASSUME FlashInv, todo # <<>>
    PROVE  Head(todo) \in Cycles
<1>1. CASE pc = "byte"
  <2> DEFINE q == rom_addr \div BankLen
  <2>1. todo = <<Slot(2, q)>>
    BY <1>1 DEF FlashInv, AtByte
  <2>2. q \in Nat
    BY FlashAssumption, SMT DEF FlashInv, InFile
  <2> HIDE DEF q
  <2>3. Slot(2, q) \in Cycles
    BY <2>2, CycleTypes
  <2> QED
    BY <2>1, <2>3
<1>2. CASE pc # "byte"
  <2>1. \E s : Left(todo, s)
    <3>1. pc \notin {"idle", "packet"}
      BY DEF FlashInv, AtRest
    <3>2. pc = "probed" => Left(todo, Probe)
      BY DEF FlashInv, Probing
    <3>3. pc = "detect" => \E b \in 0..Banks-1 : Left(todo, <<Slot(2, b)>> \o detect(ops))
      BY DEF FlashInv, Detecting
    <3>4. pc = "info" => Left(todo, detect(ops))
      BY DEF FlashInv, Informing
    <3>5. pc = "initialised" => Left(todo, readSiliconID(ops) \o mapper_init)
      BY DEF FlashInv, Initialising
    <3>6. pc = "shown" => \E dr \in Drivers : Left(todo, readSiliconID(dr)) \/ Left(todo, Probe)
      BY DEF FlashInv, Showing
    <3>7. pc = "pollErase" => Left(todo, chipErase(ops))
      BY DEF FlashInv, Erasing
    <3>8. pc = "erased" => Left(todo, <<W(0, xF0)>>)
      BY DEF FlashInv, Erased
    <3>9. pc = "pollByte" => Left(todo, programByte(ops, cartAddr, Data))
      BY DEF FlashInv, Programming
    <3> QED
      BY <1>2, <3>1, <3>2, <3>3, <3>4, <3>5, <3>6, <3>7, <3>8, <3>9, Zenon DEF FlashInv
  <2>2. todo \in Seq(Cycles)
    BY <2>1 DEF Left
  <2> QED
    BY <2>2, HeadTailProperties
<1> QED
  BY <1>1, <1>2

LEMMA BusStep ==
    ASSUME FlashInv, Bus
    PROVE  FlashInv'
<1>1. /\ UNCHANGED <<chip, mem, ops, is_flash, file, rom_addr, pc, job, performed>>
      /\ todo # <<>>
  BY BusCycle
<1>2. TypeInv' /\ (wren => wren') /\ (slot[0] = 0 => slot'[0] = 0)
  BY <1>1, TodoTyped, BusTypes DEF FlashInv
<1>3. pc \notin {"idle", "packet"}
  BY <1>1 DEF FlashInv, AtRest
<1>4. Probing' /\ Detecting'
  BY <1>1, Vacuous, BusProbing, BusDetecting DEF FlashInv
<1>5. Informing' /\ Initialising'
  BY <1>1, Vacuous, BusInforming, BusInitialising DEF FlashInv
<1>6. Showing' /\ Erasing'
  BY <1>1, Vacuous, BusShowing, BusErasing DEF FlashInv
<1>7. Erased' /\ AtByte' /\ Programming'
  BY <1>1, Vacuous, BusErased, BusAtByte, BusProgramming DEF FlashInv
<1>8. InFile' /\ Jobless'
  BY <1>1 DEF FlashInv, InFile, Jobless
<1>9. Detected'
  BY <1>1, <1>2 DEF FlashInv, Detected, Hears
<1> QED
  BY <1>1, <1>2, <1>3, <1>4, <1>5, <1>6, <1>7, <1>8, <1>9, Vacuous DEF FlashInv

-----------------------------------------------------------------------------
(***************************************************************************)
(* The other steps, each of which begins a script or decides at its end.   *)
(***************************************************************************)
LEMMA Short ==
    /\ Len(<<>>) = 0 /\ IdState(0) = "read" /\ IdState(6) = "read" /\ IdState(8) = "read" /\ IdState(9) = "read"
    /\ IdState(10) = "read" /\ IdState(0 - 4) = "read" /\ IdState(4 - 4) = "read"
    /\ IdState(10 - 4) = "read" /\ EraseState(6) = "read" /\ ByteState(4) = "read"
  BY DEF IdState, EraseState, ByteState

LEMMA LeftNothing ==
    ASSUME NEW s, Len(s) \in Nat
    PROVE  Left(<<>>, s)
  BY DEF Left

\* What a quiet step leaves, whatever the firmware's variables become.
LEMMA QuietTypes ==
    ASSUME TypeInv, UNCHANGED <<chip, mem, state, busy, wren, slot>>,
           ops' \in Drivers, is_flash' \in BOOLEAN, got' \in [DOMAIN NoBytes -> Byte],
           rom_addr' \in 0..Len(file') \/ file' = <<>>
    PROVE  TypeInv'
  BY DEF TypeInv, TypeOK, Drivers

LEMMA Typed ==
    ASSUME TypeInv
    PROVE  /\ ops \in Drivers /\ is_flash \in BOOLEAN /\ got \in [DOMAIN NoBytes -> Byte]
           /\ rom_addr \in 0..Len(file) \/ file = <<>>
  BY DEF TypeInv, TypeOK, Drivers

LEMMA NoBytesTyped == NoBytes \in [DOMAIN NoBytes -> Byte]
  BY DEF NoBytes, Byte, x00

LEMMA ProbeStarts ==
    ASSUME TypeInv, UNCHANGED <<chip, mem, state, busy, wren, slot, ops, is_flash, got, file,
                                rom_addr, job, performed>>,
           AtRest, Detected, InFile, Jobless, pc = "idle", todo' = Probe,
           pc' \in {"probed", "shown"}
    PROVE  FlashInv'
<1>1. TypeInv' /\ state' = "read"
  BY Typed, QuietTypes DEF AtRest
<1>2. Left(todo', Probe) /\ Len(todo') = 10 /\ "mx29lv320" \in Drivers
  BY LeftWhole, ProbeCycles DEF Drivers
<1>3. pc' = "probed" => Probing'
  <2>1. Identifying("mx29lv320", Len(todo))'
    BY <1>1, <1>2, Short DEF Identifying
  <2> QED
    BY <1>2, <2>1 DEF Probing
<1>4. pc' = "shown" => Showing'
  BY <1>1, <1>2, Short DEF Showing
<1>5. Detected' /\ InFile' /\ Jobless'
  BY DEF Detected, InFile, Jobless, Hears
<1> QED
  BY <1>1, <1>3, <1>4, <1>5, Vacuous DEF FlashInv

LEMMA initCartStep ==
    ASSUME FlashInv, initCart
    PROVE  FlashInv'
  BY ProbeStarts DEF FlashInv, initCart, Quiet, cartVars, Probe

LEMMA debug_m1Step ==
    ASSUME FlashInv, debug_m1
    PROVE  FlashInv'
  BY ProbeStarts DEF FlashInv, debug_m1, Quiet, cartVars, Probe

(***************************************************************************)
(* The probe ends: a large chip has answered, and a small one answers like *)
(* a large one only if its contents do.                                    *)
(***************************************************************************)
LEMMA DriverChosen ==
    ASSUME FlashInv, flash_init, chip # "rom", ~Mimics
    PROVE  Hears(ops)'
<1>1. /\ pc = "probed" /\ Len(todo) = 0 /\ UNCHANGED <<chip, wren>>
      /\ ops' = IF <<got["id0"], got["id1"]>> \in {<<xC2, xA7>>, <<x01, x50>>}
                THEN "mx29lv320" ELSE "mx29f040"
  BY DEF flash_init, Quiet, cartVars
<1>2. wren /\ slot[0] = 0 /\ Identifying("mx29lv320", 0) /\ chip \in Known /\ TypeOK
  BY <1>1 DEF FlashInv, Probing, TypeInv
<1>3. got["id0"] = Shown("mx29lv320", 1) /\ got["id1"] = Shown("mx29lv320", 2)
  BY <1>2 DEF Identifying
<1>4. CASE chip = "mx29f040"
  <2>1. ~Hears("mx29lv320")
    BY <1>4 DEF Hears, Unlock
  <2>2. Mapped(0) = 0 /\ Mapped(2) = 2
    BY <1>2, MapsLow
  <2>3. got["id0"] = mem[0] /\ got["id1"] = mem[2]
    BY <1>3, <2>1, <2>2 DEF Shown, CodeAt
  <2>4. <<mem[0], mem[2]>> # <<xC2, xA7>> /\ <<mem[0], mem[2]>> # <<x01, x50>>
    <3>1. "mx29lv320" \in Known /\ "s29jl032" \in Known
      BY DEF Known
    <3> QED
      BY <3>1 DEF Mimics, CodeAt, Code
  <2>5. ops' = "mx29f040"
    BY <1>1, <2>3, <2>4
  <2> QED
    BY <1>1, <1>2, <1>4, <2>5 DEF Hears
<1>5. CASE chip # "mx29f040"
  <2>1. Hears("mx29lv320")
    BY <1>2, <1>5 DEF Hears, Unlock
  <2>2. <<got["id0"], got["id1"]>> = <<Code(chip)[1], Code(chip)[2]>>
    BY <1>3, <2>1 DEF Shown
  <2>3. <<got["id0"], got["id1"]>> \in {<<xC2, xA7>>, <<x01, x50>>}
    BY <1>2, <1>5, <2>2 DEF Known, Code
  <2>4. ops' = "mx29lv320"
    BY <1>1, <2>3
  <2> QED
    BY <1>1, <2>1, <2>4 DEF Hears
<1> QED
  BY <1>4, <1>5

LEMMA flash_initStep ==
    ASSUME FlashInv, flash_init
    PROVE  FlashInv'
<1>1. /\ pc = "probed" /\ Len(todo) = 0 /\ pc' = "detect"
      /\ UNCHANGED <<chip, mem, state, busy, wren, slot, performed, is_flash, got, file,
                     rom_addr, job>>
      /\ ops' \in Drivers
  BY DEF flash_init, Quiet, cartVars, Drivers
<1>2. PICK b \in 0..Banks-1 : todo' = <<Slot(2, b)>> \o detect(ops')
  BY DEF flash_init
<1>3. wren /\ slot[0] = 0 /\ Identifying("mx29lv320", 0)
  BY <1>1 DEF FlashInv, Probing
<1>4. state' = "read"
  BY <1>1, <1>3, Short DEF Identifying
<1>5. Left(todo', <<Slot(2, b)>> \o detect(ops')) /\ Len(todo') = 9
  <2>1. b \in Nat
    BY FlashAssumption
  <2> QED
    BY <1>1, <1>2, <2>1, DetectInInitCycles, LeftWhole
<1>6. Detecting'
  <2>1. Identifying(ops, Len(todo))' /\ Compared(Len(todo))'
    BY <1>4, <1>5, Short DEF Identifying, Compared
  <2>2. chip' # "rom" /\ ~Mimics' => Hears(ops)'
    BY <1>1, DriverChosen DEF Mimics
  <2> QED
    BY <1>1, <1>3, <1>5, <2>1, <2>2 DEF Detecting
<1>7. TypeInv'
  BY <1>1, Typed, QuietTypes DEF FlashInv
<1>8. Detected' /\ InFile' /\ Jobless'
  BY <1>1 DEF FlashInv, Detected, InFile, Jobless
<1> QED
  BY <1>1, <1>6, <1>7, <1>8, Vacuous DEF FlashInv

(***************************************************************************)
(* What was read before and after the command differs only for a chip that *)
(* heard it, and does so unless the contents show a code.                  *)
(***************************************************************************)
Differ == <<got["id0"], got["id1"]>> # <<got["mem0"], got["mem1"]>>

LEMMA DifferHears ==
    ASSUME Identifying(ops, 0), Compared(0), Differ
    PROVE  Hears(ops)
<1> SUFFICES ASSUME ~Hears(ops) PROVE FALSE
  OBVIOUS
<1>1. /\ got["id0"] = mem[Mapped(CodeAt(ops)[1])] /\ got["id1"] = mem[Mapped(CodeAt(ops)[2])]
      /\ got["mem0"] = mem[Mapped(CodeAt(ops)[1])] /\ got["mem1"] = mem[Mapped(CodeAt(ops)[2])]
  BY DEF Identifying, Compared, Shown
<1> QED
  BY <1>1 DEF Differ

LEMMA HearsDiffer ==
    ASSUME TypeInv, Identifying(ops, 0), Compared(0), Hears(ops), slot[0] = 0, ~Mimics
    PROVE  Differ
<1>1. chip \in Known /\ TypeOK
  BY DEF TypeInv, Hears
<1>2. Mapped(0) = 0 /\ Mapped(1) = 1 /\ Mapped(2) = 2
  BY <1>1, MapsLow
<1>3. ops \in Drivers
  BY Typed
<1>4. CodeAt(ops) = CodeAt(chip)
  BY <1>1, <1>3 DEF Hears, Unlock, CodeAt, Drivers
<1>5. Mapped(CodeAt(ops)[1]) = CodeAt(chip)[1] /\ Mapped(CodeAt(ops)[2]) = CodeAt(chip)[2]
  BY <1>2, <1>4 DEF CodeAt
<1>6. /\ got["id0"] = Code(chip)[1] /\ got["id1"] = Code(chip)[2]
      /\ got["mem0"] = mem[CodeAt(chip)[1]] /\ got["mem1"] = mem[CodeAt(chip)[2]]
  BY <1>5 DEF Identifying, Compared, Shown
<1> QED
  BY <1>1, <1>6 DEF Differ, Mimics

LEMMA flash_detectStep ==
    ASSUME FlashInv, flash_detect
    PROVE  FlashInv'
<1>1. /\ pc = "detect" /\ Len(todo) = 0 /\ pc' = "initialised" /\ got' = NoBytes
      /\ UNCHANGED <<chip, mem, state, busy, wren, slot, performed, ops, file, rom_addr, job>>
      /\ is_flash' = Differ /\ is_flash' \in BOOLEAN
      /\ todo' = (IF is_flash' THEN readSiliconID(ops) ELSE <<>>) \o mapper_init
  BY DEF flash_detect, Quiet, cartVars, Differ
<1>2. slot[0] = 0 /\ Identifying(ops, 0) /\ Compared(0) /\ ops \in Drivers
  BY <1>1, Typed DEF FlashInv, Detecting
<1>3. state' = "read"
  BY <1>1, <1>2, Short DEF Identifying
<1>4. Left(todo', readSiliconID(ops) \o mapper_init) /\ Len(todo') \in {4, 10}
  <2> DEFINE s == readSiliconID(ops) \o mapper_init
  <2>1. /\ s \in Seq(Cycles) /\ Len(s) = 10
        /\ \A n \in 1..4 : FromEnd(s, n) = FromEnd(mapper_init, n)
    BY <1>2, InitAfterIdCycles
  <2>2. CASE is_flash'
    BY <1>1, <2>1, <2>2, LeftWhole
  <2>3. CASE ~is_flash'
    <3>1. mapper_init \in Seq(Cycles) /\ Len(mapper_init) = 4
      BY InitCycles
    <3>2. <<>> \o mapper_init = mapper_init
      BY <3>1, ConcatEmptySeq
    <3>3. todo' = mapper_init
      BY <1>1, <2>3, <3>2
    <3> HIDE DEF s
    <3>4. Left(mapper_init, s)
      BY <2>1, <3>1 DEF Left
    <3> QED
      BY <3>1, <3>3, <3>4 DEF s
  <2> QED
    BY <1>1, <2>2, <2>3
<1>5. Initialising'
  BY <1>1, <1>3, <1>4, Short DEF Initialising
<1>6. TypeInv'
  BY <1>1, Typed, NoBytesTyped, QuietTypes DEF FlashInv
<1>7. Detected'
  <2>1. Differ => Hears(ops)
    BY <1>2, DifferHears
  <2> QED
    BY <1>1, <1>2, <2>1 DEF Detected, Hears
<1>8. InFile' /\ Jobless'
  BY <1>1 DEF FlashInv, InFile, Jobless
<1> QED
  BY <1>1, <1>5, <1>6, <1>7, <1>8, Vacuous DEF FlashInv


LEMMA cmd_infoStep ==
    ASSUME FlashInv, cmd_info
    PROVE  FlashInv'
<1>1. /\ pc = "idle" /\ pc' = "info" /\ todo' = detect(ops) /\ ops \in Drivers
      /\ UNCHANGED <<chip, mem, state, busy, wren, slot, performed, ops, is_flash, got, file,
                     rom_addr, job>>
  BY Typed DEF cmd_info, Quiet, cartVars, FlashInv
<1>2. state' = "read"
  BY <1>1 DEF FlashInv, AtRest
<1>3. Left(todo', detect(ops')) /\ Len(todo') = 8
  BY <1>1, DetectCycles, LeftWhole
<1>4. Informing'
  <2>1. Identifying(ops, Len(todo))' /\ Compared(Len(todo))'
    BY <1>2, <1>3, Short DEF Identifying, Compared
  <2> QED
    BY <1>3, <2>1 DEF Informing
<1>5. TypeInv'
  BY <1>1, Typed, QuietTypes DEF FlashInv
<1>6. Detected' /\ InFile' /\ Jobless'
  BY <1>1 DEF FlashInv, Detected, InFile, Jobless, Hears
<1> QED
  BY <1>1, <1>4, <1>5, <1>6, Vacuous DEF FlashInv

LEMMA InfoShownStep ==
    ASSUME FlashInv, InfoShown
    PROVE  FlashInv'
<1>1. /\ pc = "info" /\ Len(todo) = 0 /\ pc' = "shown" /\ ops \in Drivers
      /\ UNCHANGED <<chip, mem, state, busy, wren, slot, performed, ops, is_flash, got, file,
                     rom_addr, job>>
      /\ todo' = readSiliconID(ops) \/ todo' = <<>>
  BY Typed DEF InfoShown, Quiet, cartVars, FlashInv
<1>2. Identifying(ops, 0)
  BY <1>1 DEF FlashInv, Informing
<1>3. state' = "read"
  BY <1>1, <1>2, Short DEF Identifying
<1>4. Left(todo', readSiliconID(ops)) /\ Len(todo') \in {0, 6}
  <2>1. readSiliconID(ops) \in Seq(Cycles) /\ Len(readSiliconID(ops)) = 6
    BY <1>1, IdCycles
  <2> QED
    BY <1>1, <2>1, LeftWhole, LeftNothing, Short
<1>5. Showing'
  BY <1>1, <1>3, <1>4, Short DEF Showing
<1>6. TypeInv'
  BY <1>1, Typed, QuietTypes DEF FlashInv
<1>7. Detected' /\ InFile' /\ Jobless'
  BY <1>1 DEF FlashInv, Detected, InFile, Jobless, Hears
<1> QED
  BY <1>1, <1>5, <1>6, <1>7, Vacuous DEF FlashInv

LEMMA resetFirmwareStep ==
    ASSUME FlashInv, resetFirmware
    PROVE  FlashInv'
<1>1. /\ pc = "idle" /\ UNCHANGED <<chip, mem, state, busy, wren, slot, performed, got, file,
                                    rom_addr, pc, todo, job>>
      /\ ops' \in Drivers /\ is_flash' = FALSE
  BY DEF resetFirmware, Quiet, cartVars, Drivers
<1>2. TypeInv' /\ AtRest'
  BY <1>1, Typed, QuietTypes DEF FlashInv, AtRest
<1>3. Detected' /\ InFile' /\ Jobless'
  BY <1>1 DEF FlashInv, Detected, InFile, Jobless
<1> QED
  BY <1>1, <1>2, <1>3, Vacuous DEF FlashInv

LEMMA DoneStep ==
    ASSUME FlashInv, Done
    PROVE  FlashInv'
<1>1. /\ pc \in {"initialised", "erased", "shown"} /\ Len(todo) = 0 /\ pc' = "idle"
      /\ UNCHANGED <<chip, mem, state, busy, wren, slot, performed, ops, is_flash, file,
                     rom_addr, job, todo>>
      /\ got' = NoBytes /\ todo = <<>>
  BY DEF Done, Quiet, cartVars
<1>2. state = "read"
  <2>1. CASE pc = "initialised"
    BY <1>1, <2>1, Short DEF FlashInv, Initialising
  <2>2. CASE pc = "shown"
    BY <1>1, <2>2, Short DEF FlashInv, Showing
  <2>3. CASE pc = "erased"
    BY <2>3 DEF FlashInv, Erased
  <2> QED
    BY <1>1, <2>1, <2>2, <2>3
<1>3. TypeInv' /\ AtRest'
  BY <1>1, <1>2, Typed, NoBytesTyped, QuietTypes DEF FlashInv, AtRest
<1>4. Detected' /\ InFile' /\ Jobless'
  BY <1>1 DEF FlashInv, Detected, InFile, Jobless, Hears
<1> QED
  BY <1>1, <1>3, <1>4, Vacuous DEF FlashInv

LEMMA chiperaseStep ==
    ASSUME FlashInv, chiperase
    PROVE  FlashInv'
<1>1. /\ pc = "idle" /\ pc' = "pollErase" /\ todo' = chipErase(ops) /\ ops \in Drivers
      /\ UNCHANGED <<chip, mem, state, busy, wren, slot, ops, is_flash, got, file, rom_addr>>
      /\ job' = [kind |-> "erase"] /\ performed' = FALSE
  BY Typed DEF chiperase, cartVars, FlashInv
<1>2. state' = "read"
  BY <1>1 DEF FlashInv, AtRest
<1>3. Left(todo', chipErase(ops)) /\ Len(todo') = 6
  BY <1>1, EraseCycles, LeftWhole
<1>4. Erasing'
  BY <1>1, <1>2, <1>3, Short DEF Erasing
<1>5. TypeInv'
  BY <1>1, Typed, QuietTypes DEF FlashInv
<1>6. Detected' /\ InFile' /\ Jobless'
  BY <1>1 DEF FlashInv, Detected, InFile, Jobless, Hears
<1> QED
  BY <1>1, <1>4, <1>5, <1>6, Vacuous DEF FlashInv

\* The polls end only when a chip that heard the command has done its work.
LEMMA PollEraseDone ==
    ASSUME FlashInv, PollErase
    PROVE  state = "read" /\ (Hears(ops) => performed)
<1>1. pc = "pollErase" /\ Len(todo) = 0 /\ 7 \in Reads(Mapped(0))
  BY DEF PollErase
<1>2. state # "erasing"
  BY <1>1 DEF Reads, x00
<1> QED
  BY <1>1, <1>2 DEF FlashInv, Erasing, EraseState

LEMMA PollEraseStep ==
    ASSUME FlashInv, PollErase
    PROVE  FlashInv'
<1>1. /\ pc = "pollErase" /\ pc' = "erased" /\ todo' = <<W(0, xF0)>> /\ job' = None
      /\ UNCHANGED <<chip, mem, state, busy, wren, slot, performed, ops, is_flash, got, file,
                     rom_addr>>
  BY DEF PollErase, Quiet, cartVars
<1>2. Erased'
  <2>1. W(0, xF0) \in Cycles
    BY CycleTypes, Bytes, DriverTypes, Typed DEF FlashInv
  <2>2. <<W(0, xF0)>> \in Seq(Cycles)
    BY <2>1
  <2>3. Left(todo', <<W(0, xF0)>>)
    BY <1>1, <2>2, LeftWhole
  <2> QED
    BY <1>1, <2>3, PollEraseDone DEF Erased
<1>3. TypeInv'
  BY <1>1, Typed, QuietTypes DEF FlashInv
<1>4. Detected' /\ InFile' /\ Jobless'
  BY <1>1 DEF FlashInv, Detected, InFile, Jobless, Hears
<1> QED
  BY <1>1, <1>2, <1>3, <1>4, Vacuous DEF FlashInv


(***************************************************************************)
(* A file, packet by packet; the last address of a packet ends in 3 modulo *)
(* 4, and the bank changes only between packets.                           *)
(***************************************************************************)
LEMMA Regrouped ==
    ASSUME NEW a \in Nat, NEW b \in Nat, NEW m \in Nat
    PROVE  b * m \in Nat /\ (a * b) * m = a * (b * m) /\ (a * b) * m = (b * m) * a
  BY SMT

LEMMA PacketEnd ==
    ASSUME NEW r \in Nat, (r + 1) % PktLen = 0
    PROVE  r % 4 = 3
<1>1. PktLen \in Nat \ {0} /\ PktLen % 4 = 0
  BY FlashAssumption
<1> DEFINE q == (r + 1) \div PktLen
           k == PktLen \div 4
           z == k * q
<1>2. q \in Nat /\ r + 1 = PktLen * q
  BY <1>1, SMT
<1>3. k \in Nat /\ PktLen = 4 * k
  BY <1>1, SMT
<1> HIDE DEF q, k
<1>4. z \in Nat /\ r + 1 = 4 * z
  <2>1. z \in Nat /\ (4 * k) * q = 4 * z
    BY <1>2, <1>3, 4 \in Nat, Regrouped, Zenon
  <2>2. r + 1 = (4 * k) * q
    BY <1>2, <1>3, Zenon
  <2> QED
    BY <2>1, <2>2, Zenon
<1> HIDE DEF z
<1> QED
  BY <1>4, SMT

LEMMA SameBank ==
    ASSUME NEW r \in Nat, (r + 1) % PktLen # 0
    PROVE  (r + 1) \div BankLen = r \div BankLen
<1>1. PktLen \in Nat \ {0} /\ BankLen \in Nat \ {0} /\ BankLen % PktLen = 0
  BY FlashAssumption
<1> DEFINE q == r \div BankLen
           s == r % BankLen
           k == BankLen \div PktLen
           z == k * (q + 1)
<1>2. q \in Nat /\ s \in 0..(BankLen - 1) /\ r = q * BankLen + s
  BY <1>1, SMT
<1>3. k \in Nat /\ BankLen = PktLen * k
  BY <1>1, SMT
<1> HIDE DEF q, s, k
<1>4. CASE s + 1 = BankLen
  <2>1. r + 1 = BankLen * (q + 1) /\ q + 1 \in Nat
    BY <1>1, <1>2, <1>4, SMT
  <2>5. z \in Nat /\ (PktLen * k) * (q + 1) = z * PktLen
    <3>1. PktLen \in Nat
      BY <1>1
    <3> QED
      BY <3>1, <1>3, <2>1, Regrouped, Zenon
  <2>6. r + 1 = (PktLen * k) * (q + 1)
    BY <1>3, <2>1, Zenon
  <2> HIDE DEF z
  <2>2. r + 1 = z * PktLen + 0 /\ z \in Int
    <3>1. z * PktLen = z * PktLen + 0 /\ z \in Int
      BY <1>1, <2>5, SMT
    <3> QED
      BY <3>1, <2>5, <2>6, Zenon
  <2>3. 0 \in 0..(PktLen - 1)
    BY <1>1
  <2>7. (z * PktLen + 0) % PktLen = 0
    BY <1>1, <2>2, <2>3, QuotientRest, Zenon
  <2>4. (r + 1) % PktLen = 0
    BY <2>2, <2>7, Zenon
  <2> QED
    BY <2>4
<1>5. CASE s + 1 # BankLen
  <2>1. s + 1 \in 0..(BankLen - 1) /\ q \in Int /\ r + 1 = q * BankLen + (s + 1)
    BY <1>1, <1>2, <1>5, SMT
  <2>3. (q * BankLen + (s + 1)) \div BankLen = q
    BY <1>1, <2>1, QuotientRest, Zenon
  <2>2. (r + 1) \div BankLen = q
    BY <2>1, <2>3, Zenon
  <2> QED
    BY <2>2 DEF q
<1> QED
  BY <1>4, <1>5

LEMMA uxStep ==
    ASSUME FlashInv, ux
    PROVE  FlashInv'
<1>1. /\ pc = "idle" /\ pc' = "packet" /\ rom_addr' = 0 /\ file' \in Images
      /\ UNCHANGED <<chip, mem, state, busy, wren, slot, performed, ops, is_flash, got, todo, job>>
  BY DEF ux, Quiet, cartVars
<1>2. Len(file') \in Nat /\ 0 % PktLen = 0
  <2>1. PktLen \in Nat \ {0} /\ file' \in Seq(Byte)
    BY <1>1, FlashAssumption
  <2> QED
    BY <2>1, LenProperties, SMT
<1>3. InFile' /\ AtRest'
  BY <1>1, <1>2 DEF FlashInv, InFile, AtRest
<1>4. TypeInv'
  BY <1>1, <1>2, Typed, QuietTypes DEF FlashInv
<1>5. Detected' /\ Jobless'
  BY <1>1 DEF FlashInv, Detected, Jobless, Hears
<1> QED
  BY <1>1, <1>3, <1>4, <1>5, Vacuous DEF FlashInv

LEMMA PacketStep ==
    ASSUME FlashInv, Packet
    PROVE  FlashInv'
<1>1. /\ pc = "packet" /\ UNCHANGED <<chip, mem, state, busy, wren, slot, performed, ops,
                                      is_flash, got, rom_addr, job>>
      /\ IF rom_addr < Len(file)
         THEN /\ pc' = "byte" /\ todo' = <<Slot(2, rom_addr \div BankLen)>> /\ file' = file
         ELSE pc' = "idle" /\ file' = <<>> /\ todo' = todo
  BY DEF Packet, Quiet, cartVars
<1>2. state = "read" /\ todo = <<>>
  BY <1>1 DEF FlashInv, AtRest
<1>3. InFile'
  BY <1>1 DEF FlashInv, InFile
<1>4. pc' = "byte" => AtByte'
  BY <1>1, <1>2 DEF AtByte
<1>5. pc' = "idle" => AtRest'
  BY <1>1, <1>2 DEF AtRest
<1>6. TypeInv'
  BY <1>1, Typed, QuietTypes DEF FlashInv
<1>7. Detected' /\ Jobless'
  BY <1>1 DEF FlashInv, Detected, Jobless, Hears
<1> QED
  BY <1>1, <1>3, <1>4, <1>5, <1>6, <1>7, Vacuous DEF FlashInv

LEMMA programBytesStep ==
    ASSUME FlashInv, programBytes
    PROVE  FlashInv'
<1>1. /\ pc = "byte" /\ pc' = "pollByte" /\ todo = <<>> /\ ops \in Drivers
      /\ todo' = programByte(ops, cartAddr, Data)
      /\ UNCHANGED <<chip, mem, state, busy, wren, slot, ops, is_flash, got, file, rom_addr>>
      /\ job' = [kind |-> "program", at |-> rom_addr % Size, byte |-> Data]
      /\ performed' = FALSE
  BY Typed DEF programBytes, cartVars, FlashInv
<1>2. /\ slot[2] = (rom_addr \div BankLen) % Banks
      /\ state = "read" \/ (~Hears(ops) /\ state = "unlock1")
  BY <1>1 DEF FlashInv, AtByte
<1>3. Left(todo', programByte(ops, cartAddr, Data)) /\ Len(todo') = 4
  BY <1>1, FileData, ByteCycles, LeftWhole DEF FlashInv
<1>4. cartAddr' = cartAddr /\ Data' = Data /\ Hears(ops)' = Hears(ops)
  BY <1>1 DEF cartAddr, Data, Hears
<1>5. Programming'
  BY <1>1, <1>2, <1>3, <1>4, Short DEF Programming
<1>6. TypeInv'
  BY <1>1, Typed, QuietTypes DEF FlashInv
<1>7. Detected' /\ InFile' /\ Jobless'
  BY <1>1, <1>4 DEF FlashInv, Detected, InFile, Jobless
<1> QED
  BY <1>1, <1>5, <1>6, <1>7, Vacuous DEF FlashInv

LEMMA PollByteDone ==
    ASSUME FlashInv, PollByte
    PROVE  /\ Hears(ops) => performed /\ state = "read"
           /\ ~Hears(ops) => state = "read" \/ (state = "unlock1" /\ rom_addr % 4 # 3)
<1>1. pc = "pollByte" /\ Len(todo) = 0 /\ (7 \in Reads(Mapped(cartAddr)) <=> 7 \in Data)
  BY DEF PollByte
<1>2. job.byte = Data
  BY <1>1 DEF FlashInv, Programming
<1>3. ~(state = "busy" /\ busy = <<job.at, job.byte>>)
  <2>1. ASSUME state = "busy", busy = <<job.at, job.byte>> PROVE FALSE
    <3>1. Reads(Mapped(cartAddr)) = {7} \ Data
      BY <1>2, <2>1 DEF Reads
    <3> QED
      BY <1>1, <3>1
  <2> QED
    BY <2>1
<1> QED
  BY <1>1, <1>3 DEF FlashInv, Programming

LEMMA PollByteStep ==
    ASSUME FlashInv, PollByte
    PROVE  FlashInv'
<1>1. /\ pc = "pollByte" /\ todo = <<>> /\ todo' = <<>> /\ rom_addr' = rom_addr + 1 /\ job' = None
      /\ UNCHANGED <<chip, mem, state, busy, wren, slot, performed, ops, is_flash, got, file>>
      /\ pc' = IF (rom_addr + 1) % PktLen = 0 THEN "packet" ELSE "byte"
  BY DEF PollByte, Quiet, cartVars
<1>2. /\ rom_addr \in Nat /\ rom_addr + 1 \in 1..Len(file) /\ Len(file) \in Nat
      /\ Len(file) % PktLen = 0 /\ file \in Images
  BY <1>1, FileData DEF FlashInv, InFile
<1>3. slot[2] = (rom_addr \div BankLen) % Banks
  BY <1>1 DEF FlashInv, Programming
<1>4. Hears(ops)' = Hears(ops)
  BY <1>1 DEF Hears
<1>5. ASSUME (rom_addr + 1) % PktLen = 0
      PROVE  InFile' /\ AtRest' /\ pc' = "packet"
  <2>1. rom_addr % 4 = 3
    BY <1>2, <1>5, PacketEnd
  <2>2. pc' = "packet" /\ state' = "read"
    BY <1>1, <1>5, <2>1, PollByteDone
  <2>3. InFile' /\ AtRest'
    BY <1>1, <1>2, <1>5, <2>2 DEF InFile, AtRest
  <2> QED
    BY <2>2, <2>3
<1>6. ASSUME (rom_addr + 1) % PktLen # 0
      PROVE  InFile' /\ AtByte' /\ pc' = "byte"
  <2>1. (rom_addr + 1) \div BankLen = rom_addr \div BankLen
    BY <1>2, <1>6, SameBank
  <2>2. pc' = "byte" /\ rom_addr + 1 < Len(file)
    BY <1>1, <1>2, <1>6
  <2>3. InFile'
    BY <1>1, <1>2, <2>2 DEF InFile
  <2>4. AtByte'
    <3>1. state' = "read" \/ (~Hears(ops)' /\ state' = "unlock1")
      BY <1>1, <1>4, PollByteDone
    <3>2. slot'[2] = (rom_addr' \div BankLen) % Banks
      BY <1>1, <1>3, <2>1
    <3> QED
      BY <1>1, <3>1, <3>2 DEF AtByte
  <2> QED
    BY <2>2, <2>3, <2>4
<1>7. InFile' /\ (pc' = "packet" => AtRest') /\ (pc' = "byte" => AtByte') /\ pc' \in {"packet", "byte"}
  BY <1>5, <1>6
<1>8. TypeInv'
  <2>1. rom_addr' \in 0..Len(file')
    BY <1>1, <1>2
  <2> QED
    BY <1>1, <2>1, Typed, QuietTypes DEF FlashInv
<1>9. Detected' /\ Jobless'
  BY <1>1, <1>4, <1>7 DEF FlashInv, Detected, Jobless
<1> QED
  BY <1>7, <1>8, <1>9, Vacuous DEF FlashInv

(***************************************************************************)
(* The chip works only on the job of the command under way.                *)
(***************************************************************************)
LEMMA Working ==
    ASSUME FlashInv, state \in {"busy", "erasing"}
    PROVE  /\ Hears(ops) /\ Len(todo) = 0 /\ ~performed
           /\ \/ pc = "pollErase" /\ state = "erasing" /\ job = [kind |-> "erase"]
              \/ /\ pc = "pollByte" /\ state = "busy" /\ busy = <<job.at, job.byte>>
                 /\ job = [kind |-> "program", at |-> rom_addr % Size, byte |-> Data]
<1>1. pc \notin {"idle", "packet", "erased", "byte"}
  BY DEF FlashInv, AtRest, Erased, AtByte
<1>2. pc # "probed" /\ pc # "detect" /\ pc # "info"
  BY DEF FlashInv, Probing, Detecting, Informing, Identifying, IdState
<1>3. pc # "initialised" /\ pc # "shown"
  BY DEF FlashInv, Initialising, Showing, IdState
<1>4. pc \in {"pollErase", "pollByte"}
  BY <1>1, <1>2, <1>3 DEF FlashInv
<1>5. CASE pc = "pollErase"
  BY <1>5 DEF FlashInv, Erasing, EraseState
<1>6. CASE pc = "pollByte"
  BY <1>6 DEF FlashInv, Programming, ByteState
<1> QED
  BY <1>4, <1>5, <1>6

LEMMA ChipDoneStep ==
    ASSUME FlashInv, ChipDone
    PROVE  FlashInv'
<1>1. /\ state \in {"busy", "erasing"} /\ state' = "read" /\ performed' = TRUE
      /\ UNCHANGED <<chip, busy, wren, slot, ops, is_flash, got, file, rom_addr, pc, todo, job>>
  BY DEF ChipDone, fwVars
<1>2. mem' \in [Cells -> Byte]
  <2>1. mem \in [Cells -> Byte] /\ busy[1] \in Cells /\ busy[2] \in Byte
    BY DEF FlashInv, TypeInv, TypeOK
  <2>2. mem[busy[1]] \intersect busy[2] \in Byte
    BY <2>1 DEF Byte
  <2> QED
    BY <2>1, <2>2, Bytes DEF ChipDone
<1>3. TypeInv'
  BY <1>1, <1>2 DEF FlashInv, TypeInv, TypeOK
<1>4. Hears(ops)' = Hears(ops)
  BY <1>1 DEF Hears
<1>5. pc = "pollErase" => Erasing'
  BY <1>1, <1>4, Working DEF FlashInv, Erasing
<1>6. pc = "pollByte" => Programming'
  <2>1. cartAddr' = cartAddr /\ Data' = Data
    BY <1>1 DEF cartAddr, Data
  <2> QED
    BY <1>1, <1>4, <2>1, Working DEF FlashInv, Programming
<1>7. Detected' /\ InFile' /\ Jobless'
  BY <1>1, <1>4 DEF FlashInv, Detected, InFile, Jobless
<1>8. pc' \in {"pollErase", "pollByte"} /\ pc' = pc
  BY <1>1, Working
<1> QED
  BY <1>3, <1>5, <1>6, <1>7, <1>8, Vacuous DEF FlashInv


-----------------------------------------------------------------------------
LEMMA InitFlash == Init => FlashInv
<1> SUFFICES ASSUME Init PROVE FlashInv
  OBVIOUS
<1>1. chip \in Known \union {"rom"} /\ mem \in [Cells -> Byte] /\ 0 \in Cells
  BY FlashAssumption, Sizes DEF Init, Cells
<1>2. TypeInv
  BY <1>1, Bytes, NoBytesTyped DEF Init, TypeInv, TypeOK
<1>3. AtRest /\ InFile /\ Detected /\ Jobless
  BY DEF Init, AtRest, InFile, Detected, Jobless
<1> QED
  BY <1>2, <1>3
  DEF Init, FlashInv, Probing, Detecting, Informing, Initialising, Showing, Erasing, Erased,
      AtByte, Programming

LEMMA StepFlash == FlashInv /\ [Next]_vars => FlashInv'
<1> SUFFICES ASSUME FlashInv, [Next]_vars PROVE FlashInv'
  OBVIOUS
<1>1. CASE Bus
  BY <1>1, BusStep
<1>2. CASE initCart \/ flash_init \/ flash_detect \/ Done
  BY <1>2, initCartStep, flash_initStep, flash_detectStep, DoneStep
<1>3. CASE cmd_info \/ InfoShown \/ debug_m1 \/ resetFirmware
  BY <1>3, cmd_infoStep, InfoShownStep, debug_m1Step, resetFirmwareStep
<1>4. CASE chiperase \/ PollErase \/ ChipDone
  BY <1>4, chiperaseStep, PollEraseStep, ChipDoneStep
<1>5. CASE ux \/ Packet \/ programBytes \/ PollByte
  BY <1>5, uxStep, PacketStep, programBytesStep, PollByteStep
<1>6. CASE UNCHANGED vars
  <2>1. UNCHANGED <<chip, mem, state, busy, wren, slot, ops, is_flash, got, file, rom_addr, pc,
                    todo, job, performed>>
    BY <1>6 DEF vars, cartVars, fwVars
  <2>2. TypeInv' /\ AtRest' /\ InFile' /\ Detected' /\ Jobless'
    BY <2>1 DEF FlashInv, TypeInv, TypeOK, AtRest, InFile, Detected, Jobless, Hears
  <2>3. \A dr, n : /\ Identifying(dr, n)' = Identifying(dr, n)
                   /\ Compared(n)' = Compared(n) /\ Hears(dr)' = Hears(dr)
    BY <2>1 DEF Identifying, Compared, Hears, Shown, Mapped
  <2>4. Probing' /\ Detecting' /\ Informing'
    BY <2>1, <2>3 DEF FlashInv, Probing, Detecting, Informing, Mimics
  <2>5. Initialising' /\ Showing' /\ Erasing' /\ Erased'
    BY <2>1, <2>3 DEF FlashInv, Initialising, Showing, Erasing, Erased
  <2>6. AtByte' /\ Programming'
    BY <2>1, <2>3 DEF FlashInv, AtByte, Programming, cartAddr, Data
  <2> QED
    BY <2>1, <2>2, <2>4, <2>5, <2>6 DEF FlashInv
<1> QED
  BY <1>1, <1>2, <1>3, <1>4, <1>5, <1>6 DEF Next, Firmware

LEMMA FlashHolds == Spec => []FlashInv
  BY InitFlash, StepFlash, PTL DEF Spec

(***************************************************************************)
(* Every variable keeps its type: the chip's state is one of its decoder's *)
(* and the byte under programming is one of its cells.                     *)
(***************************************************************************)
THEOREM TypeCorrect == Spec => []TypeOK
<1>1. FlashInv => TypeOK
  BY DEF FlashInv, TypeInv
<1> QED
  BY <1>1, FlashHolds, PTL

(***************************************************************************)
(* Between commands a detected cartridge reads as memory.                  *)
(***************************************************************************)
THEOREM ReadsBetween == Spec => []ReadMode
<1>1. FlashInv => ReadMode
  BY DEF FlashInv, AtRest, ReadMode
<1> QED
  BY <1>1, FlashHolds, PTL

(***************************************************************************)
(* init and info tell a flash chip from a ROM, whatever bank the search    *)
(* for the size left in slot 2, unless the contents are a code.            *)
(***************************************************************************)
THEOREM DetectsRight == Spec => []DetectionRight
<1>1. ASSUME FlashInv, pc \in {"detect", "info"}, todo = <<>>
      PROVE  /\ Differ => chip # "rom"
             /\ (IF pc = "info" THEN is_flash ELSE chip # "rom") /\ ~Mimics => Differ
  <2>1. Identifying(ops, 0) /\ Compared(0) /\ TypeInv
    BY <1>1, Short DEF FlashInv, Detecting, Informing
  <2>2. Differ => chip # "rom"
    BY <2>1, DifferHears DEF Hears
  <2>3. (IF pc = "info" THEN is_flash ELSE chip # "rom") /\ ~Mimics => Hears(ops) /\ slot[0] = 0
    BY <1>1 DEF FlashInv, Detecting, Detected
  <2> QED
    BY <2>1, <2>2, <2>3, HearsDiffer
<1>2. FlashInv => DetectionRight
  BY <1>1 DEF DetectionRight, Differ
<1> QED
  BY <1>2, FlashHolds, PTL

-----------------------------------------------------------------------------
(***************************************************************************)
(* The refinement: a chip's end of its work performs the job, the end of a *)
(* poll returns, and the steps between stutter.                            *)
(***************************************************************************)
LEMMA InitRefines == Init => Store!Init
<1> SUFFICES ASSUME Init PROVE Store!Init
  OBVIOUS
<1>1. mem \in [Cells -> Byte]
  BY FlashAssumption DEF Init
<1> QED
  BY <1>1 DEF Init, Store!Init, None, Store!None

LEMMA AskSteps ==
    ASSUME FlashInv, chiperase \/ programBytes
    PROVE  Store!Ask
<1>1. job = Store!None /\ performed' = FALSE /\ UNCHANGED <<mem, is_flash>>
  BY DEF chiperase, programBytes, FlashInv, Jobless, cartVars, None, Store!None
<1>2. CASE chiperase
  BY <1>1, <1>2 DEF chiperase, Store!Ask, Store!Jobs, Store!Erase
<1>3. CASE programBytes
  <2>1. rom_addr % Size \in Cells /\ Data \in Byte
    <3>1. rom_addr \in Nat /\ Data \in Byte
      BY <1>3, FileData DEF FlashInv, programBytes
    <3> QED
      BY <3>1, Sizes, SMT DEF Cells
  <2> DEFINE at == rom_addr % Size
             byte == Data
  <2>2. job' = [kind |-> "program", at |-> at, byte |-> byte]
    BY <1>3 DEF programBytes
  <2>3. at \in Cells /\ byte \in Byte
    BY <2>1
  <2> HIDE DEF at, byte
  <2>4. job' \in Store!Jobs
    BY <2>2, <2>3 DEF Store!Jobs, Store!Program
  <2> QED
    BY <1>1, <2>4 DEF Store!Ask
<1> QED
  BY <1>2, <1>3

LEMMA PerformSteps ==
    ASSUME FlashInv, ChipDone
    PROVE  Store!Perform
<1>1. ~performed /\ performed' = TRUE /\ UNCHANGED <<is_flash, job>>
  BY Working DEF ChipDone, fwVars
<1>2. CASE state = "busy"
  <2>1. /\ busy = <<job.at, job.byte>>
        /\ job = [kind |-> "program", at |-> rom_addr % Size, byte |-> Data]
        /\ mem' = [mem EXCEPT ![busy[1]] = @ \intersect busy[2]]
    BY <1>2, Working DEF ChipDone
  <2>2. job # Store!None /\ job.kind = "program"
    BY <2>1 DEF Store!None
  <2>3. mem' = [mem EXCEPT ![job.at] = @ \intersect job.byte]
    BY <2>1
  <2>4. mem' = Store!After(job)
    BY <2>2, <2>3 DEF Store!After
  <2> QED
    BY <1>1, <2>2, <2>4 DEF Store!Perform
<1>3. CASE state = "erasing"
  <2>1. job = [kind |-> "erase"] /\ mem' = [c \in Cells |-> xFF]
    BY <1>3, Working DEF ChipDone
  <2>2. job # Store!None /\ job.kind = "erase"
    BY <2>1 DEF Store!None
  <2>3. mem' = Store!After(job)
    BY <2>1, <2>2 DEF Store!After, xFF
  <2> QED
    BY <1>1, <2>2, <2>3 DEF Store!Perform
<1> QED
  BY <1>2, <1>3 DEF ChipDone

LEMMA ReturnSteps ==
    ASSUME FlashInv, PollErase \/ PollByte
    PROVE  Store!Return
<1>1. job' = Store!None /\ UNCHANGED <<mem, is_flash, performed>>
  BY DEF PollErase, PollByte, Quiet, cartVars, None, Store!None
<1>2. job # Store!None /\ pc # "detect"
  BY DEF FlashInv, Erasing, Programming, PollErase, PollByte, Store!None
<1>3. is_flash => performed
  BY <1>2, PollEraseDone, PollByteDone DEF FlashInv, Detected
<1> QED
  BY <1>1, <1>2, <1>3 DEF Store!Return

LEMMA DetectSteps ==
    ASSUME FlashInv, flash_detect \/ resetFirmware
    PROVE  Store!Detect
<1>1. job = None /\ UNCHANGED <<mem, job, performed>> /\ is_flash' \in BOOLEAN
  BY DEF FlashInv, Jobless, flash_detect, resetFirmware, Quiet, cartVars
<1> QED
  BY <1>1 DEF Store!Detect, None, Store!None

LEMMA OtherStepsStutter ==
    ASSUME Bus \/ initCart \/ flash_init \/ cmd_info \/ InfoShown \/ debug_m1 \/ Done
             \/ ux \/ Packet \/ UNCHANGED vars
    PROVE  UNCHANGED Store!vars
<1>1. Bus => UNCHANGED <<mem, is_flash, job, performed>>
  BY BusCycle
<1>2. initCart \/ flash_init \/ cmd_info \/ InfoShown \/ debug_m1 \/ Done \/ ux \/ Packet
        => UNCHANGED <<mem, is_flash, job, performed>>
  BY DEF initCart, flash_init, cmd_info, InfoShown, debug_m1, Done, ux, Packet, Quiet, cartVars
<1>3. UNCHANGED vars => UNCHANGED <<mem, is_flash, job, performed>>
  BY DEF vars, cartVars, fwVars
<1> QED
  BY <1>1, <1>2, <1>3 DEF Store!vars

(***************************************************************************)
(* Erasing and programming do to the contents what FlashStore says: the    *)
(* right cell, no other, no sooner than asked and once, and on a detected  *)
(* cartridge no call returns before.                                       *)
(***************************************************************************)
THEOREM CartImplementsStore == Spec => StoreSpec
<1>1. FlashInv /\ [Next]_vars => [Store!Next]_(Store!vars)
  <2> SUFFICES ASSUME FlashInv, [Next]_vars PROVE [Store!Next]_(Store!vars)
    OBVIOUS
  <2> QED
    BY AskSteps, PerformSteps, ReturnSteps, DetectSteps, OtherStepsStutter
    DEF Next, Firmware, Store!Next
<1> QED
  BY <1>1, InitRefines, FlashHolds, PTL DEF Spec, StoreSpec, Store!Spec
=============================================================================
