-------------------------------- MODULE Gdt ---------------------------------
(***************************************************************************)
(* The descriptors of src/GubiOs/src/gdt.cpp and gdt.h: what the           *)
(* constructor stores of a segment and what is read back, by getBaseAddr   *)
(* and getLimit and by the processor alike.  A descriptor that is          *)
(* constructed over some memory keeps of it what is not stored.            *)
(***************************************************************************)
EXTENDS Integers

SEGMENT_SIZE == 1024 * 1024 * 64

Below(k) == 0 .. k - 1

\* The fields of gdt.h, which are two bytes or one.
Descriptor ==
    [limit_low : Below(65536), baseAddr_low : Below(65536), baseAddr_high : Below(256),
     accessByte : Below(256), flags_limit_hi : Below(256), baseAddr_veryHigh : Below(256)]

\* Memory the constructor finds, every byte of it b.
Uninitialised(b) ==
    [limit_low |-> 257 * b, baseAddr_low |-> 257 * b, baseAddr_high |-> b,
     accessByte |-> b, flags_limit_hi |-> b, baseAddr_veryHigh |-> b]

\* "(target && 0xFFF) != 0xFFF" compares a truth value: it always holds, and
\* one page is taken off every limit.
PageLimit(limit) == limit \div 4096 - 1

\* A limit of 16 bits stores the flags and nothing else.
SegmentDescriptor(old, baseAddr, limit, accessByte) ==
    IF limit <= 65535 THEN [old EXCEPT !.flags_limit_hi = 64]
    ELSE [limit_low |-> PageLimit(limit) % 65536,
          baseAddr_low |-> baseAddr % 65536,
          baseAddr_high |-> (baseAddr \div 65536) % 256,
          accessByte |-> accessByte,
          flags_limit_hi |-> 192 + ((PageLimit(limit) \div 65536) % 16),
          baseAddr_veryHigh |-> (baseAddr \div 16777216) % 256]

getBaseAddr(d) ==
    d.baseAddr_veryHigh * 16777216 + d.baseAddr_high * 65536 + d.baseAddr_low

\* Both flag bits of 0xC0 together make the limit one of pages.
Granular(d) == d.flags_limit_hi >= 192

getLimit(d) ==
    LET raw == (d.flags_limit_hi % 16) * 65536 + d.limit_low
    IN  IF Granular(d) THEN raw * 4096 + 4095 ELSE raw

-----------------------------------------------------------------------------
(* The table, indexed by selector. *)

getCodeSegmentOffset == 16
getDataSegmentOffset == 24

\* The null descriptor and the unused one are given no limit.
GlobalDescriptorTable(old) ==
    [s \in {0, 8, getCodeSegmentOffset, getDataSegmentOffset} |->
       IF s = getCodeSegmentOffset THEN SegmentDescriptor(old, 0, SEGMENT_SIZE, 154)
       ELSE IF s = getDataSegmentOffset THEN SegmentDescriptor(old, 0, SEGMENT_SIZE, 146)
       ELSE SegmentDescriptor(old, 0, 0, 0)]

\* What the processor makes of a descriptor: present, and executable or not.
Present(d) == d.accessByte >= 128
Code(d) == Present(d) /\ (d.accessByte \div 8) % 4 = 3
Data(d) == Present(d) /\ (d.accessByte \div 8) % 4 = 2
=============================================================================
