--------------------------- MODULE MCUartFraming ---------------------------
EXTENDS UartFraming

\* A body like any other, and one that looks like the beginning of a frame.
MCBodies == {<<1, 3>>, <<START, 6>>}

\* Stamps with and without a start byte.
MCStamps == {<<0, 5>>, <<START, 7>>}
=============================================================================
