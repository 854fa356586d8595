----------------------------- MODULE MCCartInit -----------------------------
EXTENDS CartInit

\* Banks of two bytes: code that begins alike, and blank ones.
A == <<1, 2>>
B == <<1, 3>>
C == <<4, 2>>
E == <<255, 255>>
H == <<255, 1>>

Rom(banks) == [banks |-> banks, flash |-> "none", mapper |-> TRUE]
Card(banks) == [banks |-> banks, flash |-> "none", mapper |-> FALSE]
Flash(banks) == [banks |-> banks, flash |-> "known", mapper |-> TRUE]
Unknown(banks) == [banks |-> banks, flash |-> "unknown", mapper |-> TRUE]

MCCarts == {
    Rom(<<A>>), Card(<<A, B>>), Card(<<H, H>>), Card(<<E, E>>),
    Rom(<<A, B>>), Rom(<<E, E>>), Rom(<<A, B, C, A>>), Rom(<<A, E, C, H>>), Rom(<<A, B, H, C>>),
    Rom(<<A, B, E, C>>), Rom(<<A, B, C, H, A, B, C, H>>), Rom(<<A, B, C, H, B, E, E, E>>),
    Flash(<<E, E, E, E>>), Flash(<<E, E, E, H>>), Flash(<<E, E, H, E>>), Flash(<<A, B, C, E>>),
    Unknown(<<E, E>>), Unknown(<<E, E, H, E>>) }

MCPower == {[k \in 0..3 |-> 0], [k \in 0..3 |-> 15], [k \in 0..3 |-> k]}
MCAddress == {Bus(s, o) : s \in 0..2, o \in 0..1} \cup {32752, Control}
             \cup {Slot(n) : n \in 0..2}
MCReadFrom == {Bus(0, 0), Bus(2, 1)}
=============================================================================
