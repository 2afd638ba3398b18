------------------------------ MODULE MCAmdNic ------------------------------
\* Rings of three, which two Sends of the main thread and the replies to three
\* frames overrun, and of two, where a third frame finds no descriptor left.
EXTENDS AmdNic
=============================================================================
