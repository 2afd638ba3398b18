-------------------------- MODULE MCMemoryManager --------------------------
\* The heap on a small instance: 26 words, three clients, requests that split a
\* chunk, that fit it nearly (and are handed out whole) and that find no room.
EXTENDS MemoryManager

CONSTANTS c1, c2, c3

MCClient == {c1, c2, c3}
MCRequests == {3, 5, 9}
=============================================================================
