----------------------------- MODULE FlashStore -----------------------------
(***************************************************************************)
(* What the flash drivers promise to the commands: a memory that is erased *)
(* as a whole or programmed byte by byte, each time as asked.  Programming *)
(* only clears bits.  A call on a cartridge that was detected returns when *)
(* the chip has done its work, once; on another one it may return without. *)
(***************************************************************************)
EXTENDS Integers

CONSTANTS Cell,      \* the addresses of the chip
          Byte       \* the values of a byte, as sets of bits

VARIABLES mem,       \* the chip's contents
          detected,  \* the cartridge was found to be a known flash chip
          job,       \* what is asked for, if anything
          performed  \* the chip has done it

vars == <<mem, detected, job, performed>>

None == [kind |-> "none"]
Erase == [kind |-> "erase"]
Program(at, byte) == [kind |-> "program", at |-> at, byte |-> byte]
Jobs == {Erase} \union {Program(at, byte) : at \in Cell, byte \in Byte}

\* The contents after a job.
After(j) == CASE j.kind = "erase"   -> [c \in Cell |-> 0..7]
              [] j.kind = "program" -> [mem EXCEPT ![j.at] = @ \intersect j.byte]

Init == mem \in [Cell -> Byte] /\ detected = FALSE /\ job = None /\ performed = FALSE

Detect == /\ job = None /\ detected' \in BOOLEAN
          /\ UNCHANGED <<mem, job, performed>>

Ask == /\ job = None /\ job' \in Jobs /\ performed' = FALSE
       /\ UNCHANGED <<mem, detected>>

Perform == /\ job # None /\ ~performed
           /\ mem' = After(job) /\ performed' = TRUE
           /\ UNCHANGED <<detected, job>>

Return == /\ job # None /\ (detected => performed)
          /\ job' = None
          /\ UNCHANGED <<mem, detected, performed>>

Next == Detect \/ Ask \/ Perform \/ Return

Spec == Init /\ [][Next]_vars
=============================================================================
