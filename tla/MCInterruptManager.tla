------------------------ MODULE MCInterruptManager -------------------------
\* The keyboard's line, the slave's first line and the mouse's; two handlers
\* that claim the mouse's number, none registered for the other lines.
EXTENDS InterruptManager

CONSTANTS mouse, mouse2, none

MCIrq == {1, 8, 12}
MCHandler == {mouse, mouse2}
MCInterruptNumber == [h \in MCHandler |-> 44]
=============================================================================
