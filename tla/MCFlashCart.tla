---------------------------- MODULE MCFlashCart -----------------------------
EXTENDS FlashCart

MCChips == Known \union {"rom"}

Filled(b) == [c \in Cells |-> b]
Starts(b0, b1, b2) == [c \in Cells |-> IF c = 0 THEN b0 ELSE IF c = 1 THEN b1 ELSE
                                       IF c = 2 THEN b2 ELSE xFF]

\* Blank, full, and starting with the codes of the chips.
MCContents == {Filled(xFF), Filled(x00), Starts(xC2, xA4, x00), Starts(xC2, x00, xA7)}

\* A file that ends in the second bank, with bytes that look like commands,
\* and one larger than the chip.
Pattern == <<xAA, x55, x00, xFF, xA0>>
Image(n) == [k \in 1..n |-> Pattern[(k % 5) + 1]]
MCImages == {Image(20), Image(36)}
=============================================================================
