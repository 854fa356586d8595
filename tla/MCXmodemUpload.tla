--------------------------- MODULE MCXmodemUpload ---------------------------
EXTENDS XmodemUpload

\* smscprogr.py's upload, which reads the first NAK itself, under smsp.py's
\* Cancel button and with a main program as slow as can be.
Smscprogr == [waitsForNak |-> TRUE, prompt |-> FALSE, canAbort |-> TRUE, maxSlow |-> 1]

\* carttool.py's, which leaves the first NAK to the sender.
Carttool == [waitsForNak |-> FALSE, prompt |-> TRUE, canAbort |-> FALSE, maxSlow |-> 2]

MCClients == {Smscprogr, Carttool}
=============================================================================
