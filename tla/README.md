# smscprogr in TLA+

Models, model checks and proofs for smscprogr, a programmer for Sega Master
System and Game Gear cartridges: an AVR firmware with its own USB stack, a CPLD
that extends the cartridge's address bus, and Python clients on a computer.

Every definition is translated from the source under `src/`; the few that stand
for things outside it (the USB hardware and host, the flash chips, the Python
package `xmodem`) are modelled from how the source uses them and marked external
in `PROJECT.json`, which also gives the lines each definition stands for.

## 1. The system

| Component | State | Operations | Interacts by |
|---|---|---|---|
| Transmit path, `usbcomm.c`, `usb.c` | `txbuf`, `txbuf_pos`, `interrupt_data(_len)`, endpoint 2's bank and flags | `usbcomm_txbyte`, `usbcomm_drain`, `usbcomm_doTasks`, `usb_interruptSend`, the `USB_COM` interrupt | variables shared by main program and interrupt, without a lock |
| Receive path, `usbcomm.c` | `rxbuf`, head, tail | `usbcomm_addbyte` (interrupt), `usbcomm_hasData`, `usbcomm_rxbyte` | a ring with one writer and one reader, no check for room |
| Main loop, `main.c` | `cmdbuf`, `cmdbufpos` | a turn: `doTasks`, one character, a line | calls the menu |
| Menu, `menu.c` | `is_flash_cartridge`, `s_rom_size`, `s_flash_size` | the commands; the search for the size, the blank check | calls all below; answers by text and a prompt |
| Upload, `menu.c` `uploadXmodem` | state, packet, number, address | one loop with timeouts | XMODEM with the client |
| Download, `menu.c` `downloadXmodem` | block, number, address, CRC mode | three loops without timeouts | XMODEM with the client |
| Cartridge bus, `cartio.c`, CPLD | `s_cur_address`, `s_first`; the CPLD's latches | `cartRead`, `cartWrite`, `cartWriteClk` | pins |
| Mapper, `mapper.c` | the cartridge's registers | `mapper_init`, `mapper_setSlot` | `cartWriteClk` |
| Flash drivers, `flash*.c` | `ops`; the chip's decoder and contents | detect, erase, program | bus cycles and polling |
| USB control, `usb.c` | `g_device_state`, `g_current_config`, `control_write_*`; `UDADDR`, endpoint 0's flags and bank | `USB_GEN_vect` (resets), `USB_COM_vect` (requests, control writes) | interrupts, some of which wait for the host |
| Boot loader entry, `bootloader.c` | none | `enterBootLoader`, `resetFirmware` | jumps out of the firmware |
| Clients, `smscprogr.py`, `carttool.py` | serial port, input buffer | `exchangeCommand`, `sendAbort`, upload, download, verify | lines, prompts and XMODEM over USB |
| Window, `smsp.py` | `g_read_buffer`, worker threads | read, program, verify, Cancel | shares the port between threads |
| Firmware update, `smsp.py`, `carttool.py` | none | `boot` and `dfu-programmer` | commands |

What is hard about it:

* Two halves of the transmit path and of the receive path run interleaved, on
  variables wider than one load, and hand a buffer over by pointer.
* The two XMODEM sides have timeouts that may fire while the answer is on its
  way; acknowledgements carry no number, and the firmware checks no checksum.
* Cancel writes into the stream while another thread sends packets, and each
  loop of the firmware listens to other characters.
* A client may die anywhere and the next one finds the firmware in any loop.
* The drivers poll without a limit, and detection depends on writes that mean
  nothing to another chip.
* `USB_COM_vect` waits for the host in the middle of a request, with interrupts
  off: what a reset or a transfer given up leaves there meets the next request.
* The size of a cartridge is found by comparing banks through a mapper whose
  slots earlier commands, and a reset of the firmware, leave anywhere.

`PROJECT.json` lists the hazards one by one, at their lines, with the properties
that cover them.

## 2. The modules

| Module | Models | Uses |
|---|---|---|
| `UsbTx` | the transmit path | implements `TxChannel` |
| `TxChannel` | what it promises: bytes once, in order; a reset loses the oldest, and before the host's first read from a bank that was not free one packet may be damaged | |
| `RxRing` | the receive path | implements `RxFifo` |
| `RxFifo` | what it promises: a bounded queue; an overrun loses all that is unread | |
| `XmodemUpload` | `uploadXmodem`, the client's sender, the receive buffer between them | |
| `XmodemDownload` | `downloadXmodem`, the client's receiver, the mapper's slots | |
| `Console` | main's command line, `menu_handleLine`, sessions of the clients | |
| `UsbControl` | both USB interrupt handlers on endpoint 0, the descriptors, a host that enumerates the device | |
| `CartIo` | bus cycles, the address cache, the CPLD | |
| `CartInit` | `init`'s search for the size, `bc`, `setromsize`, `r`, `d1`, resets and changes of the cartridge, each command as the bus cycles it makes | composes the mapper and a cartridge with `CartIo` |
| `FlashCart` | detection, both flash drivers, mapper, chips, `init`, `info`, `ce`, `ux`, `m1`, resets | implements `FlashStore` |
| `FlashStore` | what the drivers promise: the job asked for, once, before the return | |
| `MC*` | the values the runs give to the constants | |
| `UsbTxProofs`, `RxRingProofs`, `UsbControlProofs`, `XmodemUploadProofs`, `XmodemDownloadProofs`, `ConsoleProofs`, `CartInitProofs`, `FlashCartProofs` | theorems | |

The layers rest on each other. `UsbTx` and `RxRing` show that USB carries bytes
once and in order, which the XMODEM modules and `Console` assume of their
channels; `XmodemUpload` keeps the one way in which it fails, the overrun that
`RxFifo` allows, and drops everything unread, as `PutFull` may: `BufferIsFifo` proves
that its buffer is an `RxFifo` of the capacity for which `RxRing` implements one. `CartIo` shows that a cycle reaches its address; `CartInit` runs its commands
on it, pulse by pulse, and the cartridge answers for the address on its pins;
in `FlashCart`, whose commands are longer, a step is a whole cycle.
`UsbControl` shows that the endpoints that `UsbTx` and `RxRing` use are enabled
once the host has configured the device. `FlashStore`'s contract, jobs performed once at
their address, is what programming a block means in `XmodemUpload`.

### How the modules correspond to the code

**UsbTx.** `pc` names the points of `usbcomm_txbyte`, `usbcomm_drain`,
`usbcomm_doTasks`, `cdcacm_sendBytes` and `usb_interruptSend` between which an
interrupt may come: the two loads of `interrupt_data_len` (`ReadFirst`,
`ReadSecond`) are separate steps, in either order of the halves, and a torn value
is computed from both. `Post` runs with interrupts off, as in the code. A step of the
main program waits for `~IsrPending`, because an enabled pending interrupt is
served before the next instruction; this is what makes handing over `txbuf` by
pointer work. `BusReset` sets the endpoints up again in the middle of anything.
`AllocTxini` leaves open whether the bank is free after `allocEndpoint` clears
`UEINTX` (`usb.c:79`), and everything is checked and proved with both values. If it is
not, the interrupt does not come, a post is not copied, and the main program goes on
to overwrite the posted buffer, until the host has read for the first time (`Fresh`).
`TxChannel` has this as damage to the oldest packet (`PutOver`, `Overwrite`), and allows no
other; once the host has read, a post is copied before the main program runs again.

**RxRing.** `usbcomm_addbyte` of one packet is not interrupted; the main program
is, between the test, the read, the advance of the tail and its wrap.

**XmodemUpload.** `SendAck`, `WaitChar`, `WaitCharTimeout` and the actions of the
states follow `uploadXmodem`'s loop; a packet is `PktLen` cells that are lost one
by one. `WaitCharTimeout` and `GetcTimeout` fire when due, and up to `maxSlow`
times when not. `as` is the client: `smscprogr.py` reads the first NAK itself,
`carttool.py` leaves it to the sender; its record says whether Cancel exists and
how late the main program may be. The CAN and CTRL+C of a Cancel
and the sender's own CAN CAN may land in the middle of a packet. `Echo`, the command line after the transfer, only
echoes: the line feed that is not echoed, "Line too long" and `menu_handleLine` are
`Console`'s, so a payload in which a command's name stands between two carriage returns,
sent on after Cancel, is not followed.

**XmodemDownload.** One action per branch of the three loops, with the slots a
block is read through (`ReadBlock`), and `n_blocks` reduced to an int's width.
A packet is one cell, since nothing here loses or alters it. The text that answers a CAN
(`menu.c:679`, section 6) may hold an EOT. The receiver is the
package's `recv`: two loops, a purge, an error count, an abort.

**Console.** A client's session is a script of steps, each an abort or an
exchange with the end of answer it waits for. The firmware is found in any loop
of the two transfers or with part of a line in `cmdbuf`; not in the middle of `ce`, `bc` or
`init`, which look at no character before they are done. A packet of an upload is always
answered: the poll that may wait for good on a byte not erased is `FlashCart`'s. Answers travel in parts,
so that `reset_input_buffer` drops some and not others; each carries the number of
lines ended, from which `OwnAnswer` tells whose answer was read.
`ConsoleAssumption` excludes one thing the code does: an unfinished line that
already starts with a command's name, which the next carriage return executes.
`SessionAssumption` is the form of the scripts, that of the tools: aborts, one empty
line or more, commands whose answers end at a prompt, and `ux` or `dx`.

**CartIo.** `setCartAddress` skips the nibbles when it believes them latched;
otherwise four steps latch one each. `resetFirmware` initialises the variables
and leaves the CPLD, so power-on and reset leave the latches at any value.

**CartInit.** `access`, the cycle under way, is `CartIo`'s `op` and `wanted`; what
the command does next is in `stage` (`bank0`, `first`, `crc`, `blank`, `check`: the
loops of `cmd_init` and `cmd_blankcheck`), its offset in `off`, and the writes to
the mapper that come first in `queue`. `End`, the last step of a cycle, is also
the step of the command that looks at the result. Two CRCs are equal when the
bytes read are: collisions, one in 65536, are left out. `Carts` holds the contents of
the banks, the chip and whether there is a mapper; `Shown` is what a read returns,
mirrors included. `flash_detect` is taken to be right, which `FlashCart` shows; its bus cycles, and those of
`flash_init`'s probe, are left to `FlashCart` too. Bank numbers are cut to a byte where the code
does, and there may be 256 banks, as in the 4 MB chips. `d1` shows six banks through slot 2
(`ShowBank`); one read stands for a row of eight.
The cartridge is changed between commands only.

**UsbControl.** `pc` names the places where `USB_COM_vect` waits for the host;
between two of them, some microseconds, it is one step, and so is
`USB_GEN_vect`. While it waits, the other handler and the main program do not run.
The flags are those of `UEINTX` and `UDINT`; `bank` is the packet that clearing
`TXINI` sends, which a SETUP or a reset discards. The host (external) works through
`Script`, whose entries say how many bytes it expects; it checks the length of what it
gets and not the contents, so that a stale packet of the right length would go
unnoticed. Once it has configured the device it may stop after any request (`Onward`). It starts again with a reset of the bus after a failure. `SuddenReset`
resets it in the middle of anything; `Abandon` gives a transfer up without one, and
`resetFirmware` starts the program again. What is assumed of the host, and what
happens otherwise:

* It begins with GET_DESCRIPTOR, and after giving a transfer up repeats it, or
  goes on if it was a class request. A host that went straight to another request
  without data could take the empty packet of the abandoned one for its acknowledgement.
* It asks for more of a descriptor than what a long one has in its second packet (3
  bytes): left over from a transfer a reset cut off, that packet could otherwise be
  taken for the answer.
* It asks for GET_CONFIGURATION once the device has its address: after a reset
  `g_current_config` keeps its value, and the answer would be a stale one.
* Its requests and its own resets come when the device waits: the turn-around of
  a host is milliseconds, the handlers' steps are microseconds.
* It does not give up a transfer and then stop for good: the handler would wait
  for it, with interrupts off, for as long.
* A string is asked for with at least the two bytes of its header: with less, the
  device sends more than it was asked for (`StringLength` has the arithmetic).

The read-modify-writes of `UEINTX` and `UDINT` are taken to be atomic: what could
get lost needs the hardware to signal twice within microseconds, on a bus where
packets of endpoint 0 and resets are much further apart. A SETUP frees the bank, so the waits
for `TXINI` before a status packet end at once: what the code does before such a wait
(`UDADDR`, `g_current_config`, `g_device_state`) is one step with what it does
after it. A CLEAR_FEATURE to an endpoint is
neither answered nor refused; the host's timeout ends it. HID requests are refused; the code
answers two of them with an empty packet (the report descriptor, and GET_REPORT of an
interface but 0). After SET_LINE_CODING's data `OutPacket` waits in `written` for the host to
take a packet; it may have taken the one that was sent with the SETUP, and not take
another: `Enumerates` allows this end and no other, and section 6 has it as a finding.

**FlashCart.** A command is a list of bus cycles (`todo`) and a decision at its
end, as the straight lines of the drivers between their branches. The chips
(external) decode commands from the low address lines, answer reads with bit 7
complemented while they program and zero while they erase, and ignore writes that
the mapper does not let through. `job` and `performed` are history variables for
the refinement to `FlashStore`. `info` shows the name of the driver's chip from
the last `init`, and `resetFirmware` forgets it. Addresses are scaled, not the logic: the commands'
addresses are the last hexadecimal digits of 555, 2AA and AAA, decoded with one
address line less by the MX29F040, as in the chips, so that what the probe for
one chip means to the other is kept. Bank numbers are cut to a byte. The chip stays the
same; `CartInit` has the change of the cartridge.

## 3. The runs

| Run | Checks | Bounds, and why they are enough |
|---|---|---|
| `tx` | types, no wait in `usb_interruptSend`, interrupt armed, buffer intact, `ChannelSpec`, calls return, every byte leaves | buffer of 2 and bank of 3: buffer full, partly full and refilled while posted all occur; 4 bytes in two values, so that an altered, repeated or exchanged byte shows; 2 resets, the bank free or not after each set-up |
| `rx` | types, `FifoSpec` | a ring of 5, packets of up to 2, three values of a byte: packets fill, wrap and overrun the ring at every step of the reader |
| `upload` | in step, exact prefix, overrun only after a late timeout, success means programmed, both sides end | 3 blocks with numbers modulo 3: the number wraps to the firmware's initial one; packets of 3 cells in a buffer of 6, which holds one and not two, as 132 in 140; 2 retries; 1 premature timeout with Cancel, 2 without |
| `download` | exact prefix, never ahead, EOT after all, returns, Cancel stops | 7 blocks over 4 banks of 2: banks 0 and 1 by their slots, the others by slot 2; numbers modulo 3; 2 premature timeouts; the client may die |
| `console` | commands intact and in order, transfers in step, own answer when opened idle, sessions end | 4 sessions, firmware left in 5 places, 3 remains of a line; a buffer of 5 that these and a session's lines do and do not fit |
| `cart` | types, address seen, address held, size right, blank check right | 18 cartridges: up to 8 banks of 2 bytes that begin alike, repeat bank 0, are blank, or are one sector with data; with and without a mapper, a known, an unknown and no flash chip; the search ends at 8 banks instead of 64; any commands in any order, resets, changes of the cartridge, three contents of the latches; 256 banks, which a byte just numbers, are for the proof |
| `usb_control` | types, the device is what the host set up, answers are the host's own, enumeration ends | 13 requests, the host stopping at any of them once it has configured the device: the descriptors, one of two packets, every request that the code answers with data or without, one that is refused and one that is dropped; 2 resets or restarts, 2 transfers given up, the bank free or not after `allocEndpoint` |
| `flash_cart` | types, detection (`init`, `info`), read mode, `StoreSpec`, commands return | 3 chips and a ROM, 4 contents of which two imitate codes, 2 banks, a file that crosses them and one larger than the chip, any number of commands in any order |

Four runs show a disagreement between the code and what it says (section 6).

### Fairness

* `tx`: weak fairness of the processor and of the interrupt; weak fairness of
  the host's IN polling, which a port that is open does and without which
  `usbcomm_drain` waits by design; strong fairness of the main loop's call of
  `usbcomm_doTasks`, since every handler that prints returns to the loop, which
  calls it in each turn.
* `upload`, `download`, `console`: weak fairness of the firmware, of the
  delivery and of the client's thread. Cancel, the end of the client's process and premature
  timeouts are never required.
* `usb_control`: weak fairness of the interrupt handlers, which no code masks for good,
  and of the host, which goes on with its script, times out or resets the bus. Resets
  and abandoned transfers are never required, and bounded.
* `flash_cart`: weak fairness of a command under way and of the chip's end of an
  operation. No command has to be given.

## 4. What is proved

All proofs are checked by TLAPS; they hold for every value of the constants that
the modules' named assumptions allow.

**UsbTxProofs** (`TxAssumption`: buffer shorter than the bank, lengths below
32768). `TypeOK` alone is not inductive: `txbuf_pos` and the posted length depend
on the hand-over. `IInv` adds `Handshake`: no post while one is unfinished
(`NoBusyWait`), the interrupt armed while one is unfinished (`Armed`), a pointer
only with a length, a non-empty buffer between the test and the post, and
`ReadInv`, which makes the torn read safe: a high half of 255 was read only from
-1, and from -1 the value can change only by the main program itself. Theorems `TypeCorrect`, `NeverWaits`,
`AlwaysArmed`.

Also `PostedStaysIntact`, and `PathImplementsChannel`: `Spec => ChannelSpec`, for either
value of `TXINI` after every set-up. `Bank` says what the interrupt and the host do to each
other: a packet in the bank makes it not free, belongs to an unfinished transmission, and
leaves nothing posted; what is posted has its interrupt pending, or the bank is as the set-up
left it (`PostedIntact`). The bytes on their way are those of the bank, posted, in the buffer
and the one waiting. `PutStep` appends one; `PostStep`, `SentStep`, `ReturnStep`,
`QuietSteps` and `IsrStep` only move bytes from one part to the next; `HostInStep` takes the
oldest packet, or is the first read (`FirstRead`); `ResetStep` loses less than a packet. While
a buffer is posted and the bank as it was set up, a byte stored in the buffer replaces one of
those posted: `PutWhilePosted` and `ReturnOverwrites`, by `PostedReplaced` and
`ReplaceInFirst`, show that it is one of the oldest packet and that nothing else changes.

**RxRingProofs** (`RxAssumption`: a size that fits `uint8_t`). `TypeCorrect`, and
`RingImplementsFifo`: `Spec => FifoSpec`. `Queue` reads the unread bytes off the
ring; `AddAppends`, `AddOverruns`, `ReadTakesHead` and `IndexStepsStutter` say what
each step does to it, and every step is then one of `RxFifo` or a stutter.

**CartInitProofs**, of the bus (`CartIoAssumption`: 16-bit addresses, 4-bit latches).
`TypeCorrect`, `AlwaysAddressed` and `AddressHeld`, by `BusInv`: while nibbles go
out, those latched and what is left of `addr` make up the address
(`Progress`); otherwise the cache equals the latches unless `s_first` (`Cached`);
during a cycle the cache is the address asked for (`Current`); CE is low only
between `Select` and `End` (`Selected`). `Addressed` speaks of one moment and is
not inductive: whether the nibbles may be skipped depends on all earlier cycles.

**CartInitProofs**, of the commands. First, for arbitrary cartridges and sizes,
`CommandsUseBus`: `CartSpec => Spec`, so that all that is proved of the bus holds
under the commands: `CommandsAddressed`, `CommandsHoldAddress`. `CommandStep` maps each step of a
command to one of `CartIo` or a stutter.

The rest assumes `CartInitAssumption`: banks of 1 to 16384 bytes, a number of them that
is a power of two up to 256, at most two without a mapper; a limit of the search that is
a power of two; no chip larger than one of unknown size is taken to be; no size of zero
set by hand.

* `SizeFound`: `CartSpec => []SizeRight`. `SizeRight` says nothing of how `init` gets
  there, so it is far from inductive. `SizeInv` adds that the cycle under way is the one
  the command wants (`InFlight`, with `BusInv` the read then sees the right cell); that the
  queue of writes to the mapper, counted from its end, has set the slots (`Opening`,
  `SlotsSet`), so that slot 2 shows bank `i`; that `bank0` and `crc` are the bytes of their
  banks read so far; and that `i` has not passed the cartridge's size. `Mirror` says that
  the bank whose number is the cartridge's size is bank 0 again, and `Below` that a bank
  found to differ from bank 0 is therefore below the size.
* `RangesKept`: `CartSpec => []CartTypeOK`. The offsets a command reads at depend on its
  stage (`Ranges`), a command at its end leaves nothing under way (`Resting`), and every
  queued cycle is a read or one of the few writes the program makes (`Cycles`), none of
  which shows RAM in slot 2 (`CycleKinds`).
* `BlankFound`: `CartSpec => []BlankRight`. While `bc` runs, all bytes read so far were
  blank, slot 2 shows the bank of the next one unless the bank has just changed, and
  then the change is queued (`Checking`, `CheckQueue`, `CheckSlots`). `SameBankOf` and `LowBanks`
  say that setting slot 2 only where the bank changes is enough, `ByteMod` that a bank
  number cut to a byte is still the bank, and `Witnessed` that a byte not blank beyond the
  end of a chip of unknown size is one of the chip.

**UsbControlProofs** (`UsbControlAssumption`: a script of numbered requests, and
`AllocTxini` a set of Booleans; `HostAssumption`: what section 2 says of the host, and
that it gives one address and only then a configuration, and does without what the
firmware refuses or drops). `TypeCorrect`, for every such script and any number of
resets. `TypeOK` is not inductive: that the host has a request to make in a transfer
(`InScript`) is needed to show that what is read of the script is a request. Its parts are
grouped by the variables that change together (`Groups`, `Quiet`), and each action
has to show only those it touches. The substance is `AnswerFits`, that no answer
exceeds the bank for any `wLength`, in spite of the underflow in the length of a string,
`LongPacketStep`, and that data of control writes never reaches the end of `control_write_buf`.
`HostAndDeviceAgree` and `OwnAnswers` show that the device is what the host has set up,
and that the host takes no answer but its own, however many resets and abandoned transfers
there are. When the host's next request comes, the handler may still be busy with one that was
cut off, and the flags with what is left of it; `IInv` says what that can be. Its first part,
`Handlers`, is what the handlers keep by themselves: where they wait, which
request makes them wait there, and what is in the bank. The second, `Session`, holds from a
reset of the bus until the host gives up: after the first request the handler has
in hand the host's own request or the last one, which it is through with (`InHand`); a reset
still to be handled means that it is the first (`Settled`); a status packet comes only when the
address or the configuration is set (`Earned`); and what the host receives is nothing, its own
answer, or the second packet of a long descriptor, which is never as long as it expects
(`Reading`, `Read`). Each action has a lemma, which shows one part after the other.
`AddressBeforeConfiguration`: no device becomes configured that is in its default state.
`SetConfiguration` does not look at `g_device_state`, and a reset may come between
the host's request and its handling; that the state has then left the default one
(`AddressFirst`) holds because a reset of the bus does not put it back.

**XmodemDownloadProofs** (`DownloadAssumption`: more than two packet numbers, a size
within the banks). `DumpExact`, `AckIsForPacket`, `WholeDump`, `SuccessIsWholeDump` and `TypeCorrect`. That what was
received is a prefix of the ROM says nothing of what is under way, so `DownloadInv` adds
it: the firmware is at the receiver's block or the one before (`Lockstep`); at most
one ACK is under way, and only for the packet the firmware waits for (`Answers`); the packets
under way are the receiver's next or the one before, in that order (`Flow`). Their
numbers tell these two apart (`Right`), so a packet that was sent twice is never
written twice. The proof has one lemma for each way a step changes a queue (`FlowTail`,
`FlowAdds`, `AnswersTail`, `AnswersAdd`), and `AcceptKeeps` for the one step
that advances the receiver. `WholeDump` assumes
`Size < IntMod \div 2`, the condition under which `n_blocks` is the size; the run
`download_4m` shows what happens without it. Under the same condition `SuccessIsWholeDump`
says what a user takes from "success", if nobody cancels: the receiver then has all of the ROM,
and no more. `EndInv` keeps with every EOT on its way, and with the receiver's end, that
the firmware had come to the last block, and with every packet that its block is one of those
counted (`Counts`). The firmware's answer to a CAN may hold an EOT of its own, so this is
promised as long as none was sent (`Calm`), and `NoCan` shows that then none is under way.

**XmodemUploadProofs** (`UploadAssumption`: a modulus above two, a receive buffer that
holds a packet and more, any set of clients). `TypeCorrect`, `StaysInStep`, `FlashIsPrefix`.
`InStep` and `ExactPrefix` speak of the packet at hand and of what is programmed, but that
packet is whatever comes next in the stream, which may hold the same block several times,
the rest of a file given up, and control characters. `UploadInv` is therefore about
the whole stream, from the packet being received to what the client is still sending: its
packets are whole, and a byte that could be taken for a control character lies in one
(`Framed`); their blocks never decrease, none is behind the last one programmed, and all the
blocks between come before (`Ordered`, `Covers`). Then the next packet is the last one
programmed or the one after, which their numbers tell apart (`Differ`). `JoinedFramed`,
`JoinedOrdered`, `JoinedCovers` say what a stream keeps when something is appended, `Dropped`
what it keeps when its head is taken. After an overrun nothing is promised, and at
the command line nothing is programmed.

`OverrunsLate`: `Spec => []OverrunNeedsDelay`, if every client waits for the NAK or leaves the
main program time to poll (`Paced`); it is false for a client that does neither, whose
sender takes the NAK that follows the LF for an error and sends its first packet twice.
The proof counts what is owed: an answer on its way, a turn of either side to speak and
the LF, which is answered too, each stand for one packet more, and `Flow` bounds what is in
the stream and what is owed, together, by the length of one packet, or of two until the
first NAK was read by a client that waits for it. A premature timeout adds to what is owed;
one that is due finds nothing owed (`DueOwesNothing`).

`BufferIsFifo`: with the cell read last as a history variable (`last`), the upload is, for
its receive buffer, a behaviour of `RxFifo`, of the capacity that `RingImplementsFifo`
shows for the ring. Of the three outcomes that `PutFull` allows a full buffer the upload
takes the one that loses all: of the others, one stores the byte beside the one being
read, which is no overrun, and one keeps it alone, and after an overrun nothing is promised.

`SuccessMissesNothing`, for more than one wait: when the client has reported success, without
Cancel and without an overrun, the file is programmed or, as long as `uploadXmodem` runs, the
blocks that miss are in its stream, with nothing before them that ends it (`NothingMissing`). It
is what of `SuccessIsProgrammed` is safety; that what is in the stream is read is left to TLC.
The firmware must not return too early, so `SuccessInv` adds to `UploadInv` what could end it:
no CAN is under way before the client has given up, no ETX at all, and an EOT only behind every
packet, of the whole file (`Calm`); the last wait without a byte finds no client that waits for
an answer, since each wait before it sent one (`Repeats`), and one that has ended with success
has nothing under way any more. What is left at the command line is `Returned`. `CalmJoined` and
`CalmDropped` say what the stream keeps at its two ends.

**ConsoleProofs** (`ConsoleAssumption`: any table of commands, whose names are printable
characters, any buffer and packet length, any unfinished line but a command;
`SessionAssumption`). `TypeCorrect`, `NothingElseExecuted`, `TransfersInStep` and
`AnswersOwnLine`. `CommandsIntact` speaks of what was executed, which depends on characters
sent long before and on answers taken for another's. `Inv` has two parts. Until a transfer
that another client began has ended (`Foreign`), the client is kept at its first empty
line: nothing but control characters and that line is under way, and no prompt, so the
exchange cannot return. From then on (`Own`) the firmware takes the session's lines in order:
the characters under way are the rest of at most two lines (`Text`, `Stream`), since the
client is at most one line ahead of what was answered, or two if the transfer's own prompt
was taken for the first answer (`Talk`); `cmdbuf` holds the start of the first of them; and
the prompts under way are in the order of their lines and later than the last one taken
(`Said`, `QueueOK`), so that an exchange is never two answers early. What begins a transfer is
in the answer to the last line only, for which alone the client waits there, so it cannot be
another's. `StreamTail`, `StreamLine`, `StreamSend` say what the firmware's and the client's
steps do to the characters, `QueueTail`, `QueuePrompt`, `QueueAdd`, `QueueDrop` to the answers;
`LineEnds` is `menu_handleLine`, and `OwnX` and `ForeignX` are one lemma for each action X.

**FlashCartProofs** (`FlashAssumption`: banks of a multiple of 16 bytes, a number of them that is a
power of two up to 256, so that a bank number cut to a byte is still the bank (`ByteBank`); packets
of a multiple of four that divide a bank). `TypeCorrect`, `ReadsBetween`, `DetectsRight`, and
`CartImplementsStore`: `Spec => StoreSpec`. That the chip reads at rest depends on all the
cycles of a driver, so `FlashInv` says for each command where the chip's decoder is when
n cycles are left (`Identifying`, `Erasing`, `Programming`, ...; `Left` and `FromEnd` count
them), for a chip that hears the driver in use and for one that does not. `Detected`
says that a cartridge taken for flash hears the driver. One that was never taken for
flash may still be told to program: a byte of the file may then look like the start of a
command, which never happens at the end of a packet, and the next cycle ends it. In the
refinement `ChipDone` is `Perform`, the polls are `Return`, `chiperase` and
`programBytes` are `Ask`, `flash_detect` and `resetFirmware` are `Detect`; all else stutters.

Only model-checked, and why:

* Liveness, which is out of the prover's reach under fairness: `EveryByteLeaves`,
  `CallsReturn`, `BothEnd`, `SuccessIsProgrammed` (but for its safety), `DownloadReturns`, `CancelStops`,
  `SessionEnds`, `Enumerates`, `CommandsReturn`.

## 5. What is not modelled

* `usb.c`'s suspend and wake-up flags, which nothing reads, its HID requests, for
  which `main.c` configures no interface, and the callbacks `setupCb` and
  `handleDataPacket`, which are null or do nothing in this program.
* `enterBootLoader`, after which the firmware no longer runs; `d2`, which prints a
  dump; `fw`, see section 6.
* The window of `smsp.py`, except its Cancel and the order of its commands. Its
  hazards are listed: a failed read leaves the last one's buffer to be verified
  against, and Cancel leaves the worker running. They are about
  widgets and threads of one process, without a protocol to check.
* `carttool.py`'s verification, a comparison of two files; that `eraseAndProgram`
  ignores the upload's result; the firmware update, a sequence of external programs.
* Electrical timing, the text of the answers, checksums (the firmware's
  upload checks none and USB alters nothing), strings and build scripts.
* Power loss and changing the cartridge in the middle of a command.
* Commands that a file's bytes may spell to the command line after Cancel; a port opened while
  `ce`, `bc` or `init` runs.

## 6. Findings

* `console_stale`: `exchangeCommand` drops unread characters before it sends
  (`smscprogr.py:30`), but not those on their way; on a firmware left in an
  upload every exchange of a session may return with the answer before its own.
  `TransferInStep`, in `console`, shows that the sessions survive it.
* `download_ctrl_c`: the wait for the answer to EOT ignores CTRL+C and CAN
  (`menu.c:694`), so that a receiver that died there leaves the firmware waiting
  until a client sends an ACK.
* `download_4m`: `n_blocks` is negative for 4 MB (`menu.c:592`).
* `usb_line_coding`: the handler sends a status packet after the data of SET_LINE_CODING
  (`usb.c:690`) that it already sent with the SETUP (`usb.c:304`). A host that takes the first
  before the handler has looked at the data leaves it waiting in the interrupt, and the main
  program with it, until the host's next request or a reset.

Not runs, since one look at the code shows them: the handler of `fw` expects a line
that begins with `flashwrite` (`menu.c:413`), and no such line reaches it; and
`menu.c:679` gives `puts`, which reads RAM, the address of a text in flash: the answer to a CAN is
whatever RAM holds there.

## 7. Plan

1. An abstract device (default, addressed, configured) that `UsbControl` implements.
2. A composition of `CartInit`'s mapper with `XmodemDownload`, which has the slots as
   three numbers: a dump on the bus, pulse by pulse.
