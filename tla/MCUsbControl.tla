---------------------------- MODULE MCUsbControl ----------------------------
EXTENDS UsbControl

Get(name, value, length) == Rq(TRUE, "device", FALSE, name, value, length)
Set(name, value) == Rq(FALSE, "device", FALSE, name, value, 0)
Class(name, value, length) == Rq(FALSE, "interface", TRUE, name, value, length)
Expect(q, n) == [rq |-> q, expect |-> n]

\* The enumeration of a host that begins by asking for the descriptor, and
\* the opening of the serial port; then a request the firmware drops.
MCScript == <<
    Expect(Get("GET_DEVICE_DESCRIPTOR", 0, 64), 18),
    Expect(Set("SET_ADDRESS", 5), 0),
    Expect(Get("GET_DEVICE_DESCRIPTOR", 0, 18), 18),
    Expect(Get("GET_QUALIFIER", 0, 10), -1),
    Expect(Get("GET_CONFIGURATION_DESCRIPTOR", 0, 9), 9),
    Expect(Get("GET_CONFIGURATION_DESCRIPTOR", 0, 67), 67),
    Expect(Get("GET_STRING_DESCRIPTOR", 2, 255), 24),
    Expect(Set("SET_CONFIGURATION", 1), 0),
    Expect(Class("SET_CONTROL_LINE_STATE", 3, 0), 0),
    Expect(Class("SET_LINE_CODING", 0, 7), 0),
    Expect(Class("SEND_BREAK", 0, 0), 0),
    Expect(Rq(FALSE, "endpoint", FALSE, "CLEAR_FEATURE", 0, 0), -1),
    Expect(Get("GET_CONFIGURATION", 0, 1), 1) >>
Either == {TRUE, FALSE}
=============================================================================
