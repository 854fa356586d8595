------------------------------ MODULE MCRxRing ------------------------------
EXTENDS RxRing

CONSTANTS b1, b2, b3

MCByte == {b1, b2, b3}
=============================================================================
