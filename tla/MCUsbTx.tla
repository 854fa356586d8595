------------------------------ MODULE MCUsbTx ------------------------------
EXTENDS UsbTx

CONSTANTS b1, b2

MCByte == {b1, b2}
\* One byte more than the buffer holds, so that printing it drains once.
MCBanner == <<b1, b2, b1>>
Either == {TRUE, FALSE}
=============================================================================
