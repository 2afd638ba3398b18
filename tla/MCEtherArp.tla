----------------------------- MODULE MCEtherArp -----------------------------
\* Two other hosts, a cache of two: room for both, for two answers of one, and
\* none for a third.
EXTENDS EtherArp

CONSTANTS i1, i2, m1, m2, us, ourMac, broadcast

MCIp == {i1, i2}
MCMac == {m1, m2}
=============================================================================
