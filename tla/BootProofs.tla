----------------------------- MODULE BootProofs -----------------------------
(***************************************************************************)
(* What a descriptor of gdt.cpp says of its segment, for every base and    *)
(* limit, the heap of kernel.cpp:171, for everything the loader may report *)
(* as upper memory, and, for every machine, the cards that the scan finds  *)
(* and what the interrupts find when EntryPoint enables them.              *)
(***************************************************************************)
EXTENDS Boot, TLAPS

LEMMA InBelow ==
  ASSUME NEW k \in Nat, NEW n \in Nat, n < k PROVE n \in Below(k)
  BY SMT DEF Below

\* A number is its high part and its low byte.
LEMMA LowByte ==
  ASSUME NEW n \in Nat
  PROVE  /\ n = (n \div 256) * 256 + (n % 256)
         /\ n \div 256 \in Nat /\ n % 256 \in 0..255
  BY SMT

LEMMA LowWord ==
  ASSUME NEW n \in Nat
  PROVE  /\ n = (n \div 65536) * 65536 + (n % 65536)
         /\ n \div 65536 \in Nat /\ n % 65536 \in Nat /\ n % 65536 < 65536
  BY SMT

\* The four bytes of a base, two of them in one field, are all of it.
LEMMA BaseParts ==
  ASSUME NEW n \in Nat, n < 4294967296
  PROVE  /\ n = ((n \div 16777216) % 256) * 16777216 + ((n \div 65536) % 256) * 65536 + (n % 65536)
         /\ (n \div 16777216) % 256 \in 0..255
         /\ (n \div 65536) % 256 \in 0..255
         /\ n % 65536 \in Nat /\ n % 65536 < 65536
<1>1. (n \div 65536) \div 256 = n \div 16777216
  BY SMT
<1>2. n \div 65536 = (n \div 16777216) * 256 + ((n \div 65536) % 256)
  BY SMT, <1>1, LowWord, LowByte
<1>3. n \div 16777216 \in Nat /\ n \div 16777216 < 256
  BY SMT
<1>4. (n \div 16777216) % 256 = n \div 16777216
  BY SMT, <1>3
<1>5. (n \div 65536) % 256 \in 0..255
  BY SMT, LowWord, LowByte
<1> QED
  BY SMT, <1>2, <1>3, <1>4, <1>5, LowWord

\* The two parts of a limit in pages are all of it.
LEMMA PageParts ==
  ASSUME NEW limit \in Nat, 65536 <= limit, limit < 4294967296
  PROVE  /\ PageLimit(limit) \in Nat
         /\ PageLimit(limit) = ((PageLimit(limit) \div 65536) % 16) * 65536 + (PageLimit(limit) % 65536)
         /\ (PageLimit(limit) \div 65536) % 16 \in 0..15
         /\ PageLimit(limit) % 65536 \in Nat /\ PageLimit(limit) % 65536 < 65536
<1>1. PageLimit(limit) \in Nat /\ PageLimit(limit) < 1048576
  BY SMT DEF PageLimit
<1>2. ASSUME NEW p \in Nat, p < 1048576
      PROVE  /\ p = ((p \div 65536) % 16) * 65536 + (p % 65536)
             /\ (p \div 65536) % 16 \in 0..15
             /\ p % 65536 \in Nat /\ p % 65536 < 65536
  <2>1. p \div 65536 \in Nat /\ p \div 65536 < 16
    BY SMT, <1>2
  <2>2. (p \div 65536) % 16 = p \div 65536
    BY SMT, <2>1
  <2> QED
    BY SMT, <2>1, <2>2, LowWord
<1> QED
  BY SMT, <1>1, <1>2

\* For every base and every limit of more than 16 bits the constructor stores
\* all fields: the base is read back as it was, and of the limit the last byte
\* that is read back is the one before the last page boundary at or below it
\* (gdt.cpp:44-90).
THEOREM DescriptorReadBack ==
  ASSUME NEW old,
         NEW base \in Nat, base < 4294967296,
         NEW limit \in Nat, 65536 <= limit, limit < 4294967296,
         NEW access \in 0..255
  PROVE  LET d == SegmentDescriptor(old, base, limit, access)
         IN  /\ d \in Descriptor
             /\ getBaseAddr(d) = base
             /\ getLimit(d) = (limit \div 4096) * 4096 - 1
             /\ d.accessByte = access
<1> DEFINE d == SegmentDescriptor(old, base, limit, access)
           pages == PageLimit(limit)
           high == (pages \div 65536) % 16
           low == pages % 65536
<1>0. pages \in Nat /\ pages = high * 65536 + low /\ high \in 0..15 /\ low \in Nat /\ low < 65536
  BY SMT, PageParts
<1>1. d = [limit_low |-> low,
           baseAddr_low |-> base % 65536,
           baseAddr_high |-> (base \div 65536) % 256,
           accessByte |-> access,
           flags_limit_hi |-> 192 + high,
           baseAddr_veryHigh |-> (base \div 16777216) % 256]
  <2>1. ~(limit <= 65535)
    BY SMT
  <2> QED
    BY SMT, <2>1 DEF SegmentDescriptor
<1> HIDE DEF d, high, low
<1>2. /\ d.limit_low = low /\ d.baseAddr_low = base % 65536
      /\ d.baseAddr_high = (base \div 65536) % 256 /\ d.accessByte = access
      /\ d.flags_limit_hi = 192 + high
      /\ d.baseAddr_veryHigh = (base \div 16777216) % 256
  BY SMT, <1>1
<1>3. d \in Descriptor
  <2>1. low \in Below(65536) /\ base % 65536 \in Below(65536)
    BY SMT, <1>0, LowWord, InBelow
  <2>2. (base \div 65536) % 256 \in Below(256) /\ (base \div 16777216) % 256 \in Below(256)
    BY SMT, BaseParts, InBelow
  <2>3. access \in Below(256) /\ 192 + high \in Below(256)
    BY SMT, <1>0, InBelow
  <2> QED
    BY SMT, <1>1, <2>1, <2>2, <2>3 DEF Descriptor
<1>4. getBaseAddr(d) = base
  BY SMT, <1>2, BaseParts DEF getBaseAddr
<1>5. getLimit(d) = (limit \div 4096) * 4096 - 1
  <2>1. Granular(d)
    BY SMT, <1>0, <1>2 DEF Granular
  <2>2. d.flags_limit_hi % 16 = high
    BY SMT, <1>0, <1>2
  <2>3. getLimit(d) = (high * 65536 + low) * 4096 + 4095
    BY SMT, <2>1, <2>2, <1>2 DEF getLimit
  <2>4. getLimit(d) = pages * 4096 + 4095
    BY SMT, <2>3, <1>0
  <2> QED
    BY SMT, <2>4 DEF PageLimit
<1> QED
  BY SMT, <1>2, <1>3, <1>4, <1>5 DEF d

-----------------------------------------------------------------------------
\* The heap is what the multiboot structure made it, and the descriptors are
\* what the constructor made of some memory.
HeapInv ==
    /\ memUpper \in MemUpper
    /\ at # "gdt" => \E old : gdt = GlobalDescriptorTable(old)
    /\ heap # <<0, 0>> => at # "gdt" /\ heap = <<HeapStart, HeapSize(memUpper)>>

LEMMA HeapInvInit == Init => HeapInv
  BY DEF Init, HeapInv

LEMMA HeapInvNext == HeapInv /\ [Next]_vars => HeapInv'
<1> SUFFICES ASSUME HeapInv, [Next]_vars PROVE HeapInv'
  OBVIOUS
<1> USE DEF HeapInv
<1>1. CASE MakeGdt
  BY <1>1 DEF MakeGdt
<1>2. CASE MakeHeap
  BY <1>2 DEF MakeHeap
<1>3. CASE UNCHANGED <<memUpper, gdt, heap>> /\ at # "gdt" /\ at' # "gdt"
  BY <1>3
<1>4. CASE UNCHANGED vars
  BY <1>4 DEF vars
<1>5. CASE MakeInterruptManager \/ MakeSysCall \/ MakeMouse \/ MakeKeyboard
           \/ AddMouse \/ AddKeyboard
  BY <1>3, <1>5 DEF MakeInterruptManager, MakeSysCall, MakeMouse, MakeKeyboard,
       AddMouse, AddKeyboard
<1>6. CASE StartDevice \/ SkipFunction \/ GetNoDriver \/ GetDriverFails \/ GetDriver
  BY <1>3, <1>6 DEF StartDevice, SkipFunction, GetNoDriver, GetDriverFails, GetDriver, NextFunction
<1>7. CASE ActivateNext \/ TakeEth0 \/ MakeProvider \/ ClearTable \/ MakeArp
           \/ ActivateInterrupts
  BY <1>3, <1>7 DEF ActivateNext, TakeEth0, MakeProvider, ClearTable, MakeArp, ActivateInterrupts
<1> QED
  BY <1>1, <1>2, <1>4, <1>5, <1>6, <1>7 DEF Next, Loop

LEMMA DataSegment ==
  ASSUME NEW old
  PROVE  LET d == GlobalDescriptorTable(old)[getDataSegmentOffset]
         IN  Data(d) /\ getBaseAddr(d) = 0 /\ getLimit(d) = 67108863
<1>1. GlobalDescriptorTable(old)[getDataSegmentOffset] = SegmentDescriptor(old, 0, SEGMENT_SIZE, 146)
  BY SMT DEF GlobalDescriptorTable, getDataSegmentOffset, getCodeSegmentOffset
<1>2. SEGMENT_SIZE = 67108864
  BY SMT DEF SEGMENT_SIZE
<1> QED
  BY SMTT(30), <1>1, <1>2, DescriptorReadBack DEF Data, Present

\* Whatever the stack held and the loader reports, from 10250 KiB up to what 64
\* MiB leave, the heap is inside memory and the data segment (kernel.cpp:171).
THEOREM HeapIsAddressable == Spec => []HeapAddressable
<1>1. HeapInv => HeapAddressable
  <2> SUFFICES ASSUME HeapInv, heap # <<0, 0>>, 10250 <= memUpper, memUpper <= 65546
               PROVE  /\ heap[1] + heap[2] <= 1024 + memUpper
                      /\ Data(gdt[getDataSegmentOffset])
                      /\ getBaseAddr(gdt[getDataSegmentOffset]) = 0
                      /\ (heap[1] + heap[2]) * 1024 - 1 <= getLimit(gdt[getDataSegmentOffset])
    BY SMT DEF HeapAddressable
  <2>0. memUpper \in Nat
    BY SMT, MemoryAssumption DEF HeapInv
  <2>1. heap[1] = 10240 /\ heap[2] = memUpper - 10250
    BY SMT, <2>0 DEF HeapInv, HeapStart, HeapSize
  <2>2. PICK old : gdt = GlobalDescriptorTable(old)
    BY SMT DEF HeapInv
  <2> QED
    BY SMT, <2>0, <2>1, <2>2, DataSegment
<1> QED
  BY HeapInvInit, HeapInvNext, <1>1, PTL DEF Spec
-----------------------------------------------------------------------------
\* The scan: the cards it is past, and what it made of a set of cards.
Past == {p \in NetworkCards : Before(p, position)}

Found(d, f, cards) ==
    /\ d \in Seq({Mouse, Keyboard} \union Card)
    /\ Len(d) >= 2 /\ d[1] = Mouse /\ d[2] = Keyboard
    /\ f \subseteq {<<"card", p>> : p \in cards}
    /\ \A i \in 3 .. Len(d) : \E p \in cards : d[i] = <<"card", p>>
    /\ \A p \in cards : <<"card", p>> \in f \/ \E i \in 3 .. Len(d) : d[i] = <<"card", p>>
    /\ \A i, j \in 3 .. Len(d) : i < j => Before(d[i][2], d[j][2])

\* How many functions of the device are scanned.
FunctionsOf(b, d) == IF DeviceHasFunctions(b, d) THEN Functions ELSE 1

AtStart == position = <<0, 0, 0>> /\ noOfDevices = 0 /\ failed = {}

Early == {"gdt", "memoryManager", "interruptManager", "sysCall", "mDriver", "kDriver"}
Late == {"ActivateAll", "etherFrameHandler", "clear", "arp", "ActivateInterrupts", "loop"}

ScanInv ==
    /\ at \in Early \union {"driverManager", "selectDrivers"} \union Late
    /\ at \in Early => AtStart /\ drivers = <<>>
    /\ at = "driverManager" => AtStart /\ (drivers = <<>> \/ drivers = <<Mouse>>)
    /\ at = "selectDrivers" =>
          /\ position \in Position
          /\ noOfDevices = 0 => Function = 0
          /\ noOfDevices # 0 => noOfDevices = FunctionsOf(Bus, Device) /\ Function < noOfDevices
          /\ Found(drivers, failed, Past)
    /\ at \in Late => Found(drivers, failed, NetworkCards)

LEMMA SizesNat ==
  /\ Buses \in Nat /\ Devices \in Nat /\ Functions \in Nat
  /\ Buses > 0 /\ Devices > 0 /\ Functions > 0
  BY SizeAssumption

LEMMA PositionParts ==
  ASSUME NEW p \in Position
  PROVE  /\ p = <<p[1], p[2], p[3]>>
         /\ p[1] \in 0 .. Buses - 1 /\ p[2] \in 0 .. Devices - 1 /\ p[3] \in 0 .. Functions - 1
         /\ p[1] \in Int /\ p[2] \in Int /\ p[3] \in Int
  BY SizesNat DEF Position

\* What a device shows under a function number that is not scanned is no card.
LEMMA OnlyScanned ==
  ASSUME NEW p \in NetworkCards
  PROVE  p[3] < FunctionsOf(p[1], p[2])
<1>1. p \in Position /\ (p[3] = 0 \/ Header(<<p[1], p[2], 0>>).multi)
  BY DEF NetworkCards
<1> QED
  BY <1>1, PositionParts, SizesNat DEF FunctionsOf, DeviceHasFunctions

\* The loops go to the next function and miss none in between: past the new
\* position are the cards past the old one, and the old one if it is a card.
LEMMA NextInOrder ==
  ASSUME at = "selectDrivers", position \in Position,
         noOfDevices = FunctionsOf(Bus, Device), Function < noOfDevices,
         NextFunction
  PROVE  \/ /\ at' = "selectDrivers"
            /\ position' \in Position
            /\ noOfDevices' = 0 => position'[3] = 0
            /\ noOfDevices' # 0 => /\ noOfDevices' = noOfDevices
                                   /\ position'[1] = Bus /\ position'[2] = Device
                                   /\ position'[3] < noOfDevices
            /\ \A p \in NetworkCards : Before(p, position') <=> Before(p, position) \/ p = position
         \/ /\ at' = "ActivateAll"
            /\ \A p \in NetworkCards : Before(p, position) \/ p = position
<1>0. /\ position = <<Bus, Device, Function>>
      /\ Bus \in 0 .. Buses - 1 /\ Device \in 0 .. Devices - 1 /\ Function \in 0 .. Functions - 1
  BY PositionParts DEF Bus, Device, Function
<1>n. noOfDevices \in Nat /\ noOfDevices > 0 /\ noOfDevices <= Functions
  BY SizesNat DEF FunctionsOf
<1>p. ASSUME NEW p \in NetworkCards
      PROVE  /\ p = <<p[1], p[2], p[3]>>
             /\ p[1] \in 0 .. Buses - 1 /\ p[2] \in 0 .. Devices - 1 /\ p[3] \in 0 .. Functions - 1
             /\ p[1] = Bus /\ p[2] = Device => p[3] < noOfDevices
  BY <1>p, OnlyScanned, PositionParts DEF NetworkCards
<1>e. ASSUME NEW p \in NetworkCards
      PROVE  p = position <=> p[1] = Bus /\ p[2] = Device /\ p[3] = Function
  BY <1>0, <1>p DEF Bus, Device, Function
<1>1. CASE Function + 1 < noOfDevices
  <2>1. position' = <<Bus, Device, Function + 1>> /\ noOfDevices' = noOfDevices /\ at' = at
    BY <1>1 DEF NextFunction
  <2>2. position'[1] = Bus /\ position'[2] = Device /\ position'[3] = Function + 1
    BY <2>1
  <2>3. position' \in Position
    BY <1>0, <1>1, <1>n, <2>1, SizesNat DEF Position
  <2>4. ASSUME NEW p \in NetworkCards
        PROVE  Before(p, position') <=> Before(p, position) \/ p = position
    BY <1>0, <1>p, <1>e, <2>2 DEF Before, Bus, Device, Function
  <2> QED
    BY <1>1, <1>n, <2>1, <2>2, <2>3, <2>4
<1>2. CASE ~(Function + 1 < noOfDevices)
  <2>0. Function = noOfDevices - 1
    BY <1>0, <1>2, <1>n
  <2>1. CASE Device + 1 < Devices
    <3>1. position' = <<Bus, Device + 1, 0>> /\ noOfDevices' = 0 /\ at' = at
      BY <1>2, <2>1, <1>0, SizesNat DEF NextFunction
    <3>2. position'[1] = Bus /\ position'[2] = Device + 1 /\ position'[3] = 0
      BY <3>1
    <3>3. position' \in Position
      BY <1>0, <2>1, <3>1, SizesNat DEF Position
    <3>4. ASSUME NEW p \in NetworkCards
          PROVE  Before(p, position') <=> Before(p, position) \/ p = position
      BY <1>0, <1>p, <1>e, <1>n, <2>0, <3>2 DEF Before, Bus, Device, Function
    <3> QED
      BY <3>1, <3>2, <3>3, <3>4
  <2>2. CASE ~(Device + 1 < Devices) /\ Bus + 1 < Buses
    <3>0. Device + 1 = Devices
      BY <1>0, <2>2, SizesNat
    <3>1. position' = <<Bus + 1, 0, 0>> /\ noOfDevices' = 0 /\ at' = at
      BY <1>2, <1>0, <2>2, SizesNat DEF NextFunction
    <3>2. position'[1] = Bus + 1 /\ position'[2] = 0 /\ position'[3] = 0
      BY <3>1
    <3>3. position' \in Position
      BY <1>0, <2>2, <3>1, SizesNat DEF Position
    <3>4. ASSUME NEW p \in NetworkCards
          PROVE  Before(p, position') <=> Before(p, position) \/ p = position
      BY <1>0, <1>p, <1>e, <1>n, <2>0, <3>0, <3>2, SizesNat DEF Before, Bus, Device, Function
    <3> QED
      BY <3>1, <3>2, <3>3, <3>4
  <2>3. CASE ~(Device + 1 < Devices) /\ ~(Bus + 1 < Buses)
    <3>0. Device + 1 = Devices /\ Bus + 1 = Buses
      BY <1>0, <2>3, SizesNat
    <3>1. at' = "ActivateAll"
      BY <1>2, <3>0 DEF NextFunction
    <3>2. ASSUME NEW p \in NetworkCards
          PROVE  Before(p, position) \/ p = position
      BY <1>0, <1>p, <1>e, <1>n, <2>0, <3>0, SizesNat DEF Before, Bus, Device, Function
    <3> QED
      BY <3>1, <3>2
  <2> QED
    BY <2>1, <2>2, <2>3
<1> QED
  BY <1>1, <1>2
\* One more card behind all others is found, with a driver or without memory.
LEMMA FoundNext ==
  ASSUME NEW d, NEW f, NEW cards, NEW p \in Position,
         Found(d, f, cards), \A c \in cards : Before(c, p)
  PROVE  /\ Found(Append(d, <<"card", p>>), f, cards \union {p})
         /\ Found(d, f \union {<<"card", p>>}, cards \union {p})
<1>1. <<"card", p>> \in Card /\ <<"card", p>>[2] = p
  BY DEF Card
<1>2. d \in Seq({Mouse, Keyboard} \union Card) /\ Len(d) \in Nat /\ Len(d) >= 2
  BY DEF Found
<1> DEFINE e == Append(d, <<"card", p>>)
<1>3. /\ e \in Seq({Mouse, Keyboard} \union Card)
      /\ Len(e) = Len(d) + 1 /\ e[Len(d) + 1] = <<"card", p>>
      /\ \A i \in 1 .. Len(d) : e[i] = d[i]
  BY <1>1, <1>2
<1> HIDE DEF e
<1>4. Found(e, f, cards \union {p})
  <2>1. e[1] = Mouse /\ e[2] = Keyboard
    BY <1>2, <1>3 DEF Found
  <2>2. ASSUME NEW i \in 3 .. Len(e)
        PROVE  \E q \in cards \union {p} : e[i] = <<"card", q>>
    <3>1. CASE i = Len(d) + 1
      BY <1>3, <3>1
    <3>2. CASE i # Len(d) + 1
      BY <1>2, <1>3, <3>2 DEF Found
    <3> QED
      BY <3>1, <3>2
  <2>3. ASSUME NEW q \in cards \union {p}, <<"card", q>> \notin f
        PROVE  \E i \in 3 .. Len(e) : e[i] = <<"card", q>>
    <3>1. CASE q = p
      BY <1>2, <1>3, <3>1
    <3>2. CASE q \in cards
      <4>1. PICK i \in 3 .. Len(d) : d[i] = <<"card", q>>
        BY <2>3, <3>2 DEF Found
      <4> QED
        BY <1>2, <1>3, <4>1
    <3> QED
      BY <3>1, <3>2
  <2>4. ASSUME NEW i \in 3 .. Len(e), NEW j \in 3 .. Len(e), i < j
        PROVE  Before(e[i][2], e[j][2])
    <3>1. i \in 3 .. Len(d) /\ e[i] = d[i]
      BY <1>2, <1>3, <2>4
    <3>2. CASE j = Len(d) + 1
      <4>1. PICK c \in cards : d[i] = <<"card", c>>
        BY <3>1 DEF Found
      <4>2. e[i][2] = c /\ e[j][2] = p
        BY <1>1, <1>3, <3>1, <3>2, <4>1
      <4> QED
        BY <4>1, <4>2
    <3>3. CASE j # Len(d) + 1
      <4>1. j \in 3 .. Len(d) /\ e[j] = d[j]
        BY <1>2, <1>3, <3>3
      <4>2. Before(d[i][2], d[j][2])
        BY <2>4, <3>1, <4>1 DEF Found
      <4> QED
        BY <3>1, <4>1, <4>2
    <3> QED
      BY <3>2, <3>3
  <2>5. f \subseteq {<<"card", q>> : q \in cards \union {p}}
    BY DEF Found
  <2> QED
    BY ONLY <1>2, <1>3, <2>1, <2>2, <2>3, <2>4, <2>5 DEF Found
<1>5. Found(d, f \union {<<"card", p>>}, cards \union {p})
  <2>1. f \union {<<"card", p>>} \subseteq {<<"card", q>> : q \in cards \union {p}}
    BY DEF Found
  <2>2. ASSUME NEW i \in 3 .. Len(d)
        PROVE  \E q \in cards \union {p} : d[i] = <<"card", q>>
    BY DEF Found
  <2>3. ASSUME NEW q \in cards \union {p}, <<"card", q>> \notin f \union {<<"card", p>>}
        PROVE  \E i \in 3 .. Len(d) : d[i] = <<"card", q>>
    <3>1. q \in cards /\ <<"card", q>> \notin f
      BY <2>3
    <3> QED
      BY <3>1 DEF Found
  <2> QED
    BY <2>1, <2>2, <2>3 DEF Found
<1> QED
  BY <1>4, <1>5 DEF e

\* The cards that are past after the function at position.
PastNow == IF HasDriver(Header(position)) THEN Past \union {position} ELSE Past

\* A scan's step, whatever it found: what was past and the function it looked
\* at are past, or are all cards there are.
LEMMA ScanStep ==
  ASSUME ScanInv, at = "selectDrivers", noOfDevices > 0, NextFunction,
         machine' = machine, Found(drivers', failed', PastNow)
  PROVE  ScanInv'
<1>1. /\ position \in Position
      /\ noOfDevices = FunctionsOf(Bus, Device) /\ Function < noOfDevices
  BY DEF ScanInv
<1>2. /\ NetworkCards' = NetworkCards
      /\ Past' = {p \in NetworkCards : Before(p, position')}
      /\ \A b, d : FunctionsOf(b, d)' = FunctionsOf(b, d)
  BY DEF NetworkCards, Past, Header, FunctionsOf, DeviceHasFunctions
<1>3. HasDriver(Header(position)) <=> position \in NetworkCards
  <2>1. Header(<<Bus, Device, 0>>).multi \/ Function = 0
    BY <1>1, PositionParts, SizesNat DEF FunctionsOf, DeviceHasFunctions, Function
  <2> QED
    BY <1>1, <2>1 DEF NetworkCards, Bus, Device, Function
<1>4. PastNow = {p \in NetworkCards : Before(p, position) \/ p = position}
  BY <1>3 DEF PastNow, Past
<1>5. CASE at' = "ActivateAll" /\ \A p \in NetworkCards : Before(p, position) \/ p = position
  <2>1. PastNow = NetworkCards
    BY <1>4, <1>5
  <2> QED
    BY <1>2, <1>5, <2>1 DEF ScanInv, Early, Late
<1>6. CASE /\ at' = "selectDrivers"
           /\ position' \in Position
           /\ noOfDevices' = 0 => position'[3] = 0
           /\ noOfDevices' # 0 => /\ noOfDevices' = noOfDevices
                                  /\ position'[1] = Bus /\ position'[2] = Device
                                  /\ position'[3] < noOfDevices
           /\ \A p \in NetworkCards : Before(p, position') <=> Before(p, position) \/ p = position
  <2>1. PastNow = Past'
    BY <1>2, <1>4, <1>6
  <2>2. Found(drivers, failed, Past)'
    BY <2>1
  <2>3. Bus' = position'[1] /\ Device' = position'[2] /\ Function' = position'[3]
    BY DEF Bus, Device, Function
  <2>4. noOfDevices' # 0 => FunctionsOf(Bus, Device)' = noOfDevices
    BY <1>1, <1>2, <1>6, <2>3 DEF FunctionsOf, DeviceHasFunctions, Header
  <2>5. Position' = Position
    BY DEF Position
  <2> QED
    BY <1>6, <2>2, <2>3, <2>4, <2>5 DEF ScanInv, Early, Late
<1> QED
  BY <1>1, <1>5, <1>6, NextInOrder
LEMMA ScanInvInit == Init => ScanInv
  BY DEF Init, ScanInv, Early, Late, AtStart

\* Before the scan there are the two drivers that EntryPoint adds.
LEMMA AddKeyboardScan ==
  ASSUME ScanInv, AddKeyboard PROVE ScanInv'
<1>1. AtStart /\ drivers = <<Mouse>> /\ drivers' = Append(drivers, Keyboard)
      /\ at' = "selectDrivers" /\ UNCHANGED <<position, noOfDevices, failed, machine>>
  BY DEF ScanInv, AddKeyboard, AddDriver, scan
<1>2. position' = <<0, 0, 0>> /\ noOfDevices' = 0 /\ failed' = {}
  BY <1>1 DEF AtStart
<1>3. position' \in Position' /\ Function' = 0
  BY <1>2, SizesNat DEF Position, Function
<1>4. Past' = {}
  <2> SUFFICES ASSUME NEW p \in NetworkCards', Before(p, position') PROVE FALSE
    BY DEF Past
  <2>1. p \in Position
    BY DEF NetworkCards, Position
  <2> QED
    BY <1>2, <2>1, PositionParts, SizesNat DEF Before
<1>5. Found(drivers', {}, {})
  <2>1. drivers \in Seq({Mouse, Keyboard} \union Card) /\ Len(drivers) = 1 /\ drivers[1] = Mouse
    BY <1>1
  <2>2. drivers' \in Seq({Mouse, Keyboard} \union Card)
        /\ Len(drivers') = 2 /\ drivers'[1] = Mouse /\ drivers'[2] = Keyboard
    BY <1>1, <2>1
  <2> QED
    BY <2>2 DEF Found
<1> QED
  BY <1>1, <1>2, <1>3, <1>4, <1>5 DEF ScanInv, Early, Late

LEMMA StartDeviceScan ==
  ASSUME ScanInv, StartDevice PROVE ScanInv'
<1>1. at = "selectDrivers" /\ noOfDevices = 0 /\ noOfDevices' = FunctionsOf(Bus, Device)
      /\ UNCHANGED <<at, machine, drivers, position, failed>>
  BY DEF StartDevice, FunctionsOf
<1>2. UNCHANGED <<Past, Bus, Device, Function, FunctionsOf(Bus, Device), Position>>
  BY <1>1 DEF Past, NetworkCards, Header, Bus, Device, Function, FunctionsOf, DeviceHasFunctions, Position
<1>3. Function = 0 /\ 0 < FunctionsOf(Bus, Device)
  BY <1>1, SizesNat DEF ScanInv, FunctionsOf
<1> QED
  BY <1>1, <1>2, <1>3 DEF ScanInv, Early, Late

\* Each way in which the scan looks at a function.
LEMMA ScannedScan ==
  ASSUME ScanInv, SkipFunction \/ GetNoDriver \/ GetDriverFails \/ GetDriver
  PROVE  ScanInv'
<1>0. at = "selectDrivers" /\ noOfDevices > 0 /\ NextFunction /\ machine' = machine
  BY DEF SkipFunction, GetNoDriver, GetDriverFails, GetDriver
<1>1. Found(drivers, failed, Past) /\ position \in Position
  BY <1>0 DEF ScanInv
<1>2. \A c \in Past : Before(c, position)
  BY DEF Past
<1>3. CASE SkipFunction \/ GetNoDriver
  <2>1. ~HasDriver(Header(position)) /\ UNCHANGED <<drivers, failed>>
    BY <1>3 DEF SkipFunction, GetNoDriver, HasDriver
  <2> QED
    BY <1>0, <1>1, <2>1, ScanStep DEF PastNow
<1>4. CASE GetDriverFails
  <2>1. HasDriver(Header(position)) /\ drivers' = drivers /\ failed' = failed \union {<<"card", position>>}
    BY <1>4 DEF GetDriverFails
  <2> QED
    BY <1>0, <1>1, <1>2, <2>1, FoundNext, ScanStep DEF PastNow
<1>5. CASE GetDriver
  <2>1. HasDriver(Header(position)) /\ failed' = failed /\ drivers' = Append(drivers, <<"card", position>>)
    BY <1>5 DEF GetDriver, AddDriver
  <2> QED
    BY <1>0, <1>1, <1>2, <2>1, FoundNext, ScanStep DEF PastNow
<1> QED
  BY <1>3, <1>4, <1>5

\* After the scan the drivers stay what they are.
LEMMA LateScan ==
  ASSUME ScanInv,
         ActivateNext \/ TakeEth0 \/ MakeProvider \/ ClearTable \/ MakeArp \/ ActivateInterrupts
  PROVE  ScanInv'
<1>1. at \in Late /\ at' \in Late /\ UNCHANGED <<machine, drivers, failed>>
  BY DEF ActivateNext, TakeEth0, MakeProvider, ClearTable, MakeArp, ActivateInterrupts, scan, Late
<1>2. NetworkCards' = NetworkCards
  BY <1>1 DEF NetworkCards, Header
<1> QED
  BY <1>1, <1>2 DEF ScanInv, Early, Late

LEMMA EarlyScan ==
  ASSUME ScanInv,
         MakeGdt \/ MakeHeap \/ MakeInterruptManager \/ MakeSysCall \/ MakeMouse \/ MakeKeyboard
  PROVE  ScanInv'
<1>1. at \in Early /\ at' \in Early \union {"driverManager"} /\ UNCHANGED <<drivers, scan>>
  BY DEF MakeGdt, MakeHeap, MakeInterruptManager, MakeSysCall, MakeMouse, MakeKeyboard, Early
<1> QED
  BY <1>1 DEF ScanInv, AtStart, Early, Late, scan

LEMMA AddMouseScan ==
  ASSUME ScanInv, AddMouse PROVE ScanInv'
<1>1. at = "driverManager" /\ at' = at /\ drivers' = <<Mouse>> /\ UNCHANGED scan
  BY DEF AddMouse, AddDriver
<1> QED
  BY <1>1 DEF ScanInv, AtStart, Early, Late, scan

LEMMA StutterScan ==
  ASSUME ScanInv, UNCHANGED vars PROVE ScanInv'
<1>1. UNCHANGED <<at, machine, drivers, failed, position, noOfDevices>>
  BY DEF vars, scan
<1>2. UNCHANGED <<NetworkCards, Past, Bus, Device, Function, FunctionsOf(Bus, Device), Position>>
  BY <1>1 DEF Past, NetworkCards, Header, Bus, Device, Function, FunctionsOf, DeviceHasFunctions, Position
<1> QED
  BY <1>1, <1>2 DEF ScanInv, AtStart, Early, Late

LEMMA ScanInvNext == ScanInv /\ [Next]_vars => ScanInv'
  BY AddKeyboardScan, StartDeviceScan, ScannedScan, LateScan, EarlyScan, AddMouseScan,
     StutterScan DEF Next, Loop

\* For every number of buses, devices and functions and whatever sits in the
\* slots: one driver for each card, in the order of the bus, or a malloc that
\* failed (pci.cpp:77-144).
THEOREM CardsAreFound == Spec => []CardsFound
<1>1. ScanInv => CardsFound
  <2> SUFFICES ASSUME ScanInv, Scanned PROVE EachFoundOnce
    BY DEF CardsFound
  <2>1. Found(drivers, failed, NetworkCards)
    BY DEF ScanInv, Scanned, Late
  <2>2. {drivers[i] : i \in 3 .. Len(drivers)} \union failed = {<<"card", p>> : p \in NetworkCards}
    <3>1. {drivers[i] : i \in 3 .. Len(drivers)} \union failed \subseteq {<<"card", p>> : p \in NetworkCards}
      BY <2>1 DEF Found
    <3>2. {<<"card", p>> : p \in NetworkCards} \subseteq {drivers[i] : i \in 3 .. Len(drivers)} \union failed
      BY <2>1 DEF Found
    <3> QED
      BY <3>1, <3>2
  <2> QED
    BY <2>1, <2>2 DEF Found, EachFoundOnce
<1> QED
  BY ScanInvInit, ScanInvNext, <1>1, PTL DEF Spec
-----------------------------------------------------------------------------
(* The base address registers of a card. *)

LEMMA SixBars == MaxBar(0) = 6
  BY SMT DEF MaxBar

\* One register more.
PortsAfter(h, bar, ports) ==
    {IF r.io /\ r.base # 0 THEN r.base ELSE p : r \in BaseAddressRegisters(h, bar), p \in ports}

LEMMA PortBasesIs ==
  ASSUME NEW h
  PROVE  PortBases(h) =
            PortsAfter(h, 5, PortsAfter(h, 4, PortsAfter(h, 3,
               PortsAfter(h, 2, PortsAfter(h, 1, PortsAfter(h, 0, Base))))))
<1> DEFINE p1 == PortsAfter(h, 0, Base)
           p2 == PortsAfter(h, 1, p1)
           p3 == PortsAfter(h, 2, p2)
           p4 == PortsAfter(h, 3, p3)
           p5 == PortsAfter(h, 4, p4)
           p6 == PortsAfter(h, 5, p5)
           f == <<p1, p2, p3, p4, p5, p6>>
           g == [n \in 0..6 |-> IF n = 0 THEN Base ELSE f[n]]
           Is(a) == a = [n \in 0..6 |-> IF n = 0 THEN Base ELSE PortsAfter(h, n - 1, a[n - 1])]
<1>1. Is(g)
  <2>1. ASSUME NEW n \in 1..6 PROVE g[n] = PortsAfter(h, n - 1, g[n - 1])
    <3> HIDE DEF p1, p2, p3, p4, p5, p6
    <3> QED
      BY DEF p1, p2, p3, p4, p5, p6
  <2> QED
    BY <2>1
<1> DEFINE a == CHOOSE x : Is(x)
<1>2. Is(a)
  BY <1>1
<1>3. PortBases(h) = a[6]
  BY DEF PortBases, PortsAfter
<1> HIDE DEF a
<1>4. a[0] = Base /\ \A n \in 1..6 : a[n] = PortsAfter(h, n - 1, a[n - 1])
  BY <1>2
<1>5. /\ a[1] = PortsAfter(h, 0, a[0]) /\ a[2] = PortsAfter(h, 1, a[1])
      /\ a[3] = PortsAfter(h, 2, a[2]) /\ a[4] = PortsAfter(h, 3, a[3])
      /\ a[5] = PortsAfter(h, 4, a[4]) /\ a[6] = PortsAfter(h, 5, a[5])
  <2> HIDE DEF Is
  <2>1. 1 - 1 = 0 /\ 2 - 1 = 1 /\ 3 - 1 = 2 /\ 4 - 1 = 3 /\ 5 - 1 = 4 /\ 6 - 1 = 5
    OBVIOUS
  <2> QED
    BY <1>4, <2>1
<1> QED
  BY ONLY <1>3, <1>4, <1>5

\* What has been read of a header of type 0 is its last I/O register so far.
LastOf(h, bars, ports) ==
    \A p \in ports : \A n \in IoBars(h) :
       n < bars /\ (\A k \in IoBars(h) : k < bars => k <= n) => p = h.bars[n].base

LEMMA OneMoreBar ==
  ASSUME NEW h, h.header = 0, NEW bar \in 0..5, NEW ports, LastOf(h, bar, ports)
  PROVE  LastOf(h, bar + 1, PortsAfter(h, bar, ports))
<1> SUFFICES ASSUME NEW p \in ports, NEW r \in BaseAddressRegisters(h, bar), NEW n \in IoBars(h),
                    n < bar + 1, \A k \in IoBars(h) : k < bar + 1 => k <= n
             PROVE  (IF r.io /\ r.base # 0 THEN r.base ELSE p) = h.bars[n].base
  BY DEF LastOf, PortsAfter
<1>1. ~(bar >= MaxBar(h.header)) /\ bar < MaxBar(h.header) /\ n \in 0..5
  BY SixBars DEF IoBars
<1>2. h.bars[bar].io => r = h.bars[bar]
  BY <1>1 DEF BaseAddressRegisters
<1>3. ~h.bars[bar].io => ~r.io
  <2> SUFFICES ASSUME ~h.bars[bar].io PROVE ~r.io
    OBVIOUS
  <2>1. r \in [io : {FALSE}, base : Base]
    BY <1>1 DEF BaseAddressRegisters
  <2>2. r.io \in {FALSE}
    BY <2>1
  <2> QED
    BY <2>2
<1>4. CASE bar \in IoBars(h)
  <2>1. n = bar
    BY <1>1, <1>4
  <2>2. h.bars[bar].io /\ h.bars[bar].base # 0
    BY <1>4 DEF IoBars
  <2> QED
    BY <1>2, <2>1, <2>2
<1>5. CASE bar \notin IoBars(h)
  <2>1. ~(h.bars[bar].io /\ h.bars[bar].base # 0)
    BY <1>1, <1>5 DEF IoBars
  <2>2. ~(r.io /\ r.base # 0)
    BY <1>2, <1>3, <2>1
  <2>3. n < bar /\ \A k \in IoBars(h) : k < bar => k <= n
    <3>1. n # bar
      BY <1>5
    <3> QED
      BY <1>1, <3>1
  <2> QED
    BY <2>2, <2>3 DEF LastOf
<1> QED
  BY <1>4, <1>5

\* A card with an I/O register gets its last one, whatever the stack held.
LEMMA PortOfCard ==
  ASSUME NEW h, h.header = 0, NEW p \in PortBases(h), NEW n \in IoBars(h),
         \A k \in IoBars(h) : k <= n
  PROVE  p = h.bars[n].base
<1>1. LastOf(h, 0, Base)
  BY DEF LastOf, IoBars
<1>2. LastOf(h, 6, PortBases(h))
  <2> DEFINE p1 == PortsAfter(h, 0, Base)
             p2 == PortsAfter(h, 1, p1)
             p3 == PortsAfter(h, 2, p2)
             p4 == PortsAfter(h, 3, p3)
             p5 == PortsAfter(h, 4, p4)
             p6 == PortsAfter(h, 5, p5)
  <2>0. p6 = PortBases(h)
    BY PortBasesIs
  <2> HIDE DEF p6
  <2>1. LastOf(h, 0 + 1, p1)
    BY <1>1, OneMoreBar
  <2> HIDE DEF p1
  <2>2. LastOf(h, 1 + 1, p2)
    BY <2>1, OneMoreBar
  <2> HIDE DEF p2
  <2>3. LastOf(h, 2 + 1, p3)
    BY <2>2, OneMoreBar
  <2> HIDE DEF p3
  <2>4. LastOf(h, 3 + 1, p4)
    BY <2>3, OneMoreBar
  <2> HIDE DEF p4
  <2>5. LastOf(h, 4 + 1, p5)
    BY <2>4, OneMoreBar
  <2> HIDE DEF p5
  <2>6. LastOf(h, 5 + 1, p6)
    BY <2>5, OneMoreBar DEF p6
  <2> QED
    BY <2>0, <2>6
<1> QED
  BY <1>2 DEF LastOf, IoBars

-----------------------------------------------------------------------------
(* What the interrupts find. *)

AllGates == [v \in Exceptions \union {32 + i : i \in Lines} \union {128} |-> StubNumber(v)]

\* The k-th driver is the last one added for number n.
LastFor(n, k) ==
    /\ k \in DOMAIN drivers /\ NumberOf(drivers[k]) = n
    /\ \A l \in DOMAIN drivers : NumberOf(drivers[l]) = n => l <= k

\* That driver handles n, or nothing does and there is none.
LastHandles(n) ==
    \/ n \in DOMAIN handlers /\ \E k \in Nat : LastFor(n, k) /\ handlers[n] = drivers[k]
    \/ n \notin DOMAIN handlers /\ \A k \in DOMAIN drivers : NumberOf(drivers[k]) # n

\* Up to the first driver the table holds what was registered so far; from then
\* on, for every number but the system call's, the last driver added for it.
HandlersInv ==
    /\ at \in {"gdt", "memoryManager", "interruptManager", "sysCall"} => handlers = <<>>
    /\ at = "mDriver" => DOMAIN handlers = {SysCallNumber}
    /\ at = "kDriver" =>
          DOMAIN handlers = {SysCallNumber, MouseNumber} /\ handlers[MouseNumber] = Mouse
    /\ at = "driverManager" =>
          /\ DOMAIN handlers = {SysCallNumber, MouseNumber, KeyboardNumber}
          /\ handlers[MouseNumber] = Mouse /\ handlers[KeyboardNumber] = Keyboard
    /\ at \in {"mDriver", "kDriver", "driverManager", "selectDrivers"} \union Late =>
          SysCallNumber \in DOMAIN handlers /\ handlers[SysCallNumber] = SysCall
    /\ at \in {"selectDrivers"} \union Late =>
          \A n \in Nat \ {SysCallNumber} : LastHandles(n)

\* What PortsKnown says of one driver.
PortKnown(d) ==
    \A n \in IoBars(Header(d[2])) :
       (\A k \in IoBars(Header(d[2])) : k <= n) => portBase[d] = Header(d[2]).bars[n].base

PortsInv == \A i \in 3 .. Len(drivers) : drivers[i] \in DOMAIN portBase /\ PortKnown(drivers[i])

\* The frame provider's place in the chain, statement by statement.
ChainInv ==
    /\ activated \in 0 .. Len(drivers)
    /\ at \in Early \union {"driverManager", "selectDrivers"} => activated = 0
    /\ at \in Late \ {"ActivateAll"} =>
          activated = Len(drivers) /\ (Len(drivers) > 2 => eth0 = drivers[3])
    /\ at \in {"clear", "arp", "ActivateInterrupts", "loop"} => listener = eth0
    /\ at \in {"ActivateInterrupts", "loop"} => table = "arp"
    /\ flag => at = "loop"

ReachInv ==
    /\ machine \in [Slot -> Boards]
    /\ gates = IF at \in {"gdt", "memoryManager", "interruptManager"} THEN <<>> ELSE AllGates
    /\ HandlersInv
    /\ at \in {"selectDrivers"} \union Late => PortsInv
    /\ ChainInv

LEMMA CardHeader ==
  ASSUME machine \in [Slot -> Boards], NEW p \in Position
  PROVE  CardRule(Header(p))
<1>1. <<p[1], p[2]>> \in Slot /\ p[3] \in 0 .. Functions - 1
  BY PositionParts DEF Slot
<1>2. machine[<<p[1], p[2]>>] \in Boards
  BY <1>1
<1> QED
  BY <1>1, <1>2, CardAssumption DEF Header

\* Each driver's number; a card's is none of the system call's.
LEMMA CardNumber ==
  ASSUME machine \in [Slot -> Boards], NEW p \in NetworkCards
  PROVE  /\ NumberOf(<<"card", p>>) = InterruptNumber(Header(p))
         /\ InterruptNumber(Header(p)) \in 0..255 \ {SysCallNumber}
<1>1. p \in Position /\ HasDriver(Header(p))
  BY DEF NetworkCards
<1>2. Header(p).interrupt \in Nat /\ Header(p).interrupt % 256 \in (0..15) \union {255}
  BY <1>1, CardHeader DEF CardRule, Lines
<1>3. ASSUME NEW n \in Nat, n % 256 \in (0..15) \union {255}
      PROVE  (n + 32) % 256 \in (32..47) \union {31}
  BY <1>3, SMT
<1>4. <<"card", p>> # Mouse /\ <<"card", p>> # Keyboard
  <2>1. "card" # "mouse" /\ "card" # "keyboard"
    OBVIOUS
  <2>2. <<"card", p>>[1] = "card" /\ <<"mouse">>[1] = "mouse" /\ <<"keyboard">>[1] = "keyboard"
    OBVIOUS
  <2> QED
    BY <2>1, <2>2 DEF Mouse, Keyboard
<1>5. <<"card", p>>[2] = p
  OBVIOUS
<1> QED
  BY <1>2, <1>3, <1>4, <1>5 DEF NumberOf, InterruptNumber, SysCallNumber

LEMMA RegisterIs ==
  ASSUME NEW n, NEW h, Register(h, n)
  PROVE  /\ DOMAIN handlers' = DOMAIN handlers \union {n} /\ handlers'[n] = h
         /\ \A m \in DOMAIN handlers \ {n} : handlers'[m] = handlers[m]
  BY DEF Register, With

Building == {"gdt", "memoryManager", "interruptManager"}

\* A step of the scan stays in it or ends it.
LEMMA ScanGoesOn ==
  ASSUME at = "selectDrivers", NextFunction
  PROVE  at' \in {"selectDrivers", "ActivateAll"}
  BY DEF NextFunction

LEMMA NumbersStay ==
  ASSUME machine' = machine
  PROVE  \A d : NumberOf(d)' = NumberOf(d)
  BY DEF NumberOf, Header

-----------------------------------------------------------------------------
LEMMA ReachInvInit == Init => ReachInv
<1> SUFFICES ASSUME Init PROVE ReachInv
  OBVIOUS
<1>1. HandlersInv
  BY DEF Init, HandlersInv, Late
<1>2. Len(drivers) = 0 /\ DOMAIN drivers = {}
  BY DEF Init
<1>3. ChainInv
  BY <1>2 DEF Init, ChainInv, Late, Early
<1> QED
  BY <1>1, <1>3 DEF Init, ReachInv, Late

\* The board and the gates.
LEMMA GatesStep ==
  ASSUME ReachInv, ScanInv, [Next]_vars
  PROVE  /\ machine' \in [Slot' -> Boards]
         /\ gates' = IF at' \in Building THEN <<>> ELSE AllGates'
<1> USE DEF ReachInv, Building
<1>1. machine' = machine /\ Slot' = Slot /\ AllGates' = AllGates
  BY DEF Next, MakeGdt, MakeHeap, MakeInterruptManager, MakeSysCall, MakeMouse, MakeKeyboard,
         AddMouse, AddKeyboard, StartDevice, SkipFunction, GetNoDriver, GetDriverFails, GetDriver,
         ActivateNext, TakeEth0, MakeProvider, ClearTable, MakeArp, ActivateInterrupts, Loop, vars,
         Slot, AllGates
<1>2. CASE MakeGdt \/ MakeHeap \/ MakeInterruptManager
  BY <1>1, <1>2 DEF MakeGdt, MakeHeap, MakeInterruptManager, AllGates
<1>3. CASE MakeSysCall \/ MakeMouse \/ MakeKeyboard \/ AddMouse \/ AddKeyboard
  BY <1>1, <1>3 DEF MakeSysCall, MakeMouse, MakeKeyboard, AddMouse, AddKeyboard
<1>4. CASE StartDevice \/ SkipFunction \/ GetNoDriver \/ GetDriverFails \/ GetDriver
  BY <1>1, <1>4, ScanGoesOn
     DEF StartDevice, SkipFunction, GetNoDriver, GetDriverFails, GetDriver
<1>5. CASE ActivateNext \/ TakeEth0 \/ MakeProvider \/ ClearTable \/ MakeArp
           \/ ActivateInterrupts
  BY <1>1, <1>5
     DEF ActivateNext, TakeEth0, MakeProvider, ClearTable, MakeArp, ActivateInterrupts
<1>6. CASE UNCHANGED vars
  BY <1>1, <1>6 DEF vars
<1> QED
  BY <1>1, <1>2, <1>3, <1>4, <1>5, <1>6 DEF Next, Loop

\* What the drivers and the handlers have to do with each other depends on
\* nothing else.
LEMMA HandlersStay ==
  ASSUME HandlersInv, UNCHANGED <<machine, handlers, drivers>>,
         \/ at' = at
         \/ /\ at \in {"gdt", "memoryManager", "interruptManager"}
            /\ at' \in {"memoryManager", "interruptManager", "sysCall"}
         \/ at \in {"selectDrivers"} \union Late /\ at' \in {"selectDrivers"} \union Late
  PROVE  HandlersInv'
<1>1. \A n : LastHandles(n)' <=> LastHandles(n)
  BY NumbersStay DEF LastFor, LastHandles
<1> QED
  BY <1>1, NumbersStay DEF HandlersInv, Late

LEMMA RegisteredFirst ==
  ASSUME HandlersInv, MakeSysCall \/ MakeMouse \/ MakeKeyboard
  PROVE  HandlersInv'
<1> USE DEF HandlersInv, Late, SysCallNumber, MouseNumber, KeyboardNumber
<1>1. CASE MakeSysCall
  <2>1. DOMAIN handlers = {}
    BY <1>1 DEF MakeSysCall
  <2>2. /\ DOMAIN handlers' = DOMAIN handlers \union {SysCallNumber}
        /\ handlers'[SysCallNumber] = SysCall
    <3>1. Register(SysCall, SysCallNumber)
      BY ONLY <1>1 DEF MakeSysCall
    <3> QED
      BY ONLY <3>1 DEF Register, With
  <2> QED
    BY <1>1, <2>1, <2>2 DEF MakeSysCall
<1>2. CASE MakeMouse
  BY <1>2, RegisterIs DEF MakeMouse
<1>3. CASE MakeKeyboard
  <2>1. /\ DOMAIN handlers' = DOMAIN handlers \union {KeyboardNumber}
        /\ handlers'[KeyboardNumber] = Keyboard
        /\ \A m \in DOMAIN handlers \ {KeyboardNumber} : handlers'[m] = handlers[m]
    <3>1. Register(Keyboard, KeyboardNumber)
      BY ONLY <1>3 DEF MakeKeyboard
    <3> QED
      BY ONLY <3>1 DEF Register, With
  <2>2. /\ DOMAIN handlers = {SysCallNumber, MouseNumber} /\ handlers[MouseNumber] = Mouse
        /\ handlers[SysCallNumber] = SysCall
    BY <1>3 DEF MakeKeyboard
  <2> QED
    BY <1>3, <2>1, <2>2 DEF MakeKeyboard
<1> QED
  BY <1>1, <1>2, <1>3

LEMMA NamesDiffer == Mouse # Keyboard
<1>1. <<"mouse">>[1] # <<"keyboard">>[1]
  OBVIOUS
<1> QED
  BY <1>1 DEF Mouse, Keyboard

LEMMA AddedFirst ==
  ASSUME HandlersInv, ScanInv, AddMouse \/ AddKeyboard
  PROVE  HandlersInv'
<1>1. CASE AddMouse
  BY <1>1 DEF AddMouse, HandlersInv, Late
<1>2. CASE AddKeyboard
  <2>1. drivers = <<Mouse>> /\ drivers' = Append(drivers, Keyboard) /\ machine' = machine
        /\ handlers' = handlers /\ at = "driverManager" /\ at' = "selectDrivers"
    BY <1>2 DEF AddKeyboard, AddDriver, ScanInv
  <2>2. DOMAIN drivers' = {1, 2} /\ drivers'[1] = Mouse /\ drivers'[2] = Keyboard
    BY <2>1
  <2>3. NumberOf(Mouse)' = MouseNumber /\ NumberOf(Keyboard)' = KeyboardNumber
    BY NamesDiffer DEF NumberOf
  <2>4. MouseNumber = 44 /\ KeyboardNumber = 33 /\ SysCallNumber = 160
    BY DEF MouseNumber, KeyboardNumber, SysCallNumber
  <2>5. /\ LastFor(MouseNumber, 1)' /\ LastFor(KeyboardNumber, 2)'
    BY <2>2, <2>3, <2>4 DEF LastFor
  <2>6. /\ DOMAIN handlers = {SysCallNumber, MouseNumber, KeyboardNumber}
        /\ handlers[MouseNumber] = Mouse /\ handlers[KeyboardNumber] = Keyboard
        /\ handlers[SysCallNumber] = SysCall
    BY <2>1 DEF HandlersInv
  <2>7. ASSUME NEW n \in Nat \ {SysCallNumber}
        PROVE  LastHandles(n)'
    <3>1. CASE n = MouseNumber
      BY <2>1, <2>2, <2>4, <2>5, <2>6, <3>1 DEF LastHandles
    <3>2. CASE n = KeyboardNumber
      BY <2>1, <2>2, <2>4, <2>5, <2>6, <3>2 DEF LastHandles
    <3>3. CASE n # MouseNumber /\ n # KeyboardNumber
      BY <2>1, <2>2, <2>3, <2>6, <3>3 DEF LastHandles
    <3> QED
      BY <3>1, <3>2, <3>3
  <2> QED
    BY <2>1, <2>6, <2>7 DEF HandlersInv
<1> QED
  BY <1>1, <1>2

\* The cards' drivers are at the end.
LEMMA FoundCards ==
  ASSUME ScanInv, at \in {"selectDrivers"} \union Late
  PROVE  /\ drivers \in Seq({Mouse, Keyboard} \union Card)
         /\ Len(drivers) \in Nat /\ Len(drivers) >= 2
         /\ drivers[1] = Mouse /\ drivers[2] = Keyboard
         /\ \A i \in 3 .. Len(drivers) : \E p \in NetworkCards : drivers[i] = <<"card", p>>
         /\ at = "selectDrivers" =>
               \A i \in 3 .. Len(drivers) :
                  \E p \in NetworkCards : drivers[i] = <<"card", p>> /\ p # position
         /\ failed \subseteq Card
<1>1. Found(drivers, failed, Past) \/ Found(drivers, failed, NetworkCards)
  BY DEF ScanInv
<1>2. Past \subseteq NetworkCards /\ NetworkCards \subseteq Position
  BY DEF Past, NetworkCards
<1>3. at = "selectDrivers" => Found(drivers, failed, Past) /\ position \in Position
  BY DEF ScanInv, Late
<1>4. ASSUME at = "selectDrivers" PROVE position \notin Past
  BY <1>3, <1>4, PositionParts DEF Past, Before
<1> QED
  BY <1>1, <1>2, <1>3, <1>4 DEF Found, Card

LEMMA ScannedIsCard ==
  ASSUME ScanInv, GetDriver
  PROVE  position \in NetworkCards
<1>1. at = "selectDrivers" /\ noOfDevices > 0 /\ HasDriver(Header(position))
  BY DEF GetDriver
<1>2. position \in Position /\ noOfDevices = FunctionsOf(Bus, Device) /\ Function < noOfDevices
  BY <1>1 DEF ScanInv, Late, Early
<1>3. Header(<<Bus, Device, 0>>).multi \/ Function = 0
  BY <1>2, PositionParts, SizesNat DEF FunctionsOf, DeviceHasFunctions, Function
<1> QED
  BY <1>1, <1>2, <1>3 DEF NetworkCards, Bus, Device, Function

LEMMA DriverRegistered ==
  ASSUME HandlersInv, ScanInv, machine \in [Slot -> Boards], GetDriver
  PROVE  HandlersInv'
<1> DEFINE c == <<"card", position>>
           m == InterruptNumber(Header(position))
<1>1. /\ at = "selectDrivers" /\ at' \in {"selectDrivers", "ActivateAll"}
      /\ machine' = machine /\ drivers' = Append(drivers, c) /\ Register(c, m)
  BY ScanGoesOn DEF GetDriver, AddDriver
<1>2. NumberOf(c) = m /\ m \in 0..255 \ {SysCallNumber}
  BY ScannedIsCard, CardNumber
<1> HIDE DEF c, m
<1>3. /\ DOMAIN handlers' = DOMAIN handlers \union {m} /\ handlers'[m] = c
      /\ \A n \in DOMAIN handlers \ {m} : handlers'[n] = handlers[n]
  BY <1>1, RegisterIs
<1>4. /\ Len(drivers) \in Nat /\ DOMAIN drivers = 1 .. Len(drivers)
      /\ DOMAIN drivers' = 1 .. (Len(drivers) + 1) /\ drivers'[Len(drivers) + 1] = c
      /\ \A k \in 1 .. Len(drivers) : drivers'[k] = drivers[k]
  BY <1>1, FoundCards
<1>5. \A d : NumberOf(d)' = NumberOf(d)
  BY <1>1, NumbersStay
<1>6. SysCallNumber \in DOMAIN handlers' /\ handlers'[SysCallNumber] = SysCall
  BY <1>1, <1>2, <1>3 DEF HandlersInv
<1>7. ASSUME NEW n \in Nat \ {SysCallNumber}
      PROVE  LastHandles(n)'
  <2>1. CASE n = m
    <3>1. PICK k \in Nat : k = Len(drivers) + 1
      BY <1>4
    <3>2. LastFor(n, k)'
      BY <1>2, <1>4, <1>5, <2>1, <3>1 DEF LastFor
    <3> QED
      BY <1>3, <1>4, <2>1, <3>1, <3>2 DEF LastHandles
  <2>2. CASE n # m /\ n \in DOMAIN handlers
    <3>1. PICK k \in Nat : LastFor(n, k) /\ handlers[n] = drivers[k]
      BY <1>1, <2>2 DEF HandlersInv, LastHandles
    <3>2. k \in 1 .. Len(drivers) /\ drivers'[k] = drivers[k]
      BY <1>4, <3>1 DEF LastFor
    <3>3. LastFor(n, k)'
      BY <1>2, <1>4, <1>5, <2>2, <3>1, <3>2 DEF LastFor
    <3> QED
      BY <1>3, <2>2, <3>1, <3>2, <3>3 DEF LastHandles
  <2>3. CASE n # m /\ n \notin DOMAIN handlers
    <3>1. \A k \in DOMAIN drivers : NumberOf(drivers[k]) # n
      BY <1>1, <2>3 DEF HandlersInv, LastHandles
    <3> QED
      BY <1>2, <1>3, <1>4, <1>5, <2>3, <3>1 DEF LastHandles
  <2> QED
    BY <2>1, <2>2, <2>3
<1> QED
  BY <1>1, <1>6, <1>7 DEF HandlersInv, Late

LEMMA HandlersStep ==
  ASSUME ReachInv, ScanInv, [Next]_vars
  PROVE  HandlersInv'
<1> USE DEF ReachInv
<1>1. CASE MakeGdt \/ MakeHeap
  BY <1>1, HandlersStay DEF MakeGdt, MakeHeap
<1>2. CASE MakeInterruptManager
  BY <1>2 DEF MakeInterruptManager, HandlersInv, Late
<1>3. CASE StartDevice \/ SkipFunction \/ GetNoDriver \/ GetDriverFails
  BY <1>3, HandlersStay, ScanGoesOn
     DEF StartDevice, SkipFunction, GetNoDriver, GetDriverFails, Late
<1>4. CASE ActivateNext \/ TakeEth0 \/ MakeProvider \/ ClearTable \/ MakeArp
           \/ ActivateInterrupts
  BY <1>4, HandlersStay
     DEF ActivateNext, TakeEth0, MakeProvider, ClearTable, MakeArp, ActivateInterrupts, Late
<1>5. CASE UNCHANGED vars
  BY <1>5, HandlersStay DEF vars
<1> QED
  BY <1>1, <1>2, <1>3, <1>4, <1>5, RegisteredFirst, AddedFirst, DriverRegistered DEF Next, Loop

LEMMA PortsStay ==
  ASSUME PortsInv, UNCHANGED <<machine, drivers, portBase>>
  PROVE  PortsInv'
<1>1. \A p : Header(p)' = Header(p)
  BY DEF Header
<1>2. \A d : PortKnown(d)' <=> PortKnown(d)
  BY ONLY <1>1, UNCHANGED <<machine, drivers, portBase>> DEF PortKnown
<1> QED
  BY <1>2 DEF PortsInv

LEMMA DriverKnowsPort ==
  ASSUME ReachInv, ScanInv, GetDriver
  PROVE  PortsInv'
<1> DEFINE c == <<"card", position>>
<1>1. PICK q \in PortBases(Header(position)) : portBase' = With(portBase, c, q)
  BY DEF GetDriver
<1>2. /\ at = "selectDrivers" /\ machine' = machine /\ drivers' = Append(drivers, c)
      /\ position \in Position /\ c[2] = position
  BY DEF GetDriver, AddDriver, ScanInv, Late
<1>3. Header(position).header = 0
  <2>1. HasDriver(Header(position))
    BY DEF GetDriver
  <2> QED
    BY <1>2, <2>1, CardHeader DEF CardRule, ReachInv
<1> HIDE DEF c
<1>4. /\ portBase'[c] = q
      /\ \A d : d \in DOMAIN portBase /\ d # c => portBase'[d] = portBase[d]
  BY <1>1 DEF With
<1>5. \A p : Header(p)' = Header(p)
  BY <1>2 DEF Header
<1>6. ASSUME NEW d, d = c PROVE PortKnown(d)'
  <2>1. \A n \in IoBars(Header(position)) :
           (\A k \in IoBars(Header(position)) : k <= n) => q = Header(position).bars[n].base
    BY <1>3, PortOfCard
  <2>2. Header(d[2])' = Header(position)
    BY <1>2, <1>5, <1>6
  <2> QED
    BY <1>4, <1>6, <2>1, <2>2 DEF PortKnown
<1>7. ASSUME NEW d, d # c, d \in DOMAIN portBase, PortKnown(d) PROVE PortKnown(d)'
  BY <1>4, <1>5, <1>7 DEF PortKnown
<1>8. DOMAIN portBase' = DOMAIN portBase \union {c}
  BY <1>1 DEF With
<1>9. /\ Len(drivers) \in Nat /\ Len(drivers') = Len(drivers) + 1
      /\ drivers'[Len(drivers) + 1] = c
      /\ \A k \in 1 .. Len(drivers) : drivers'[k] = drivers[k]
  BY <1>2, FoundCards
<1>10. ASSUME NEW i \in 3 .. Len(drivers'), NEW d, d = drivers'[i]
       PROVE  d \in DOMAIN portBase' /\ PortKnown(d)'
  <2>1. CASE d = c
    BY <1>6, <1>8, <2>1
  <2>2. CASE d # c
    <3>1. i \in 3 .. Len(drivers) /\ d = drivers[i]
      BY <1>9, <1>10, <2>2
    <3>2. d \in DOMAIN portBase /\ PortKnown(d)
      BY <1>2, <3>1 DEF ReachInv, PortsInv
    <3> QED
      BY <1>7, <1>8, <2>2, <3>2
  <2> QED
    BY <2>1, <2>2
<1> QED
  BY <1>10 DEF PortsInv

LEMMA PortsStep ==
  ASSUME ReachInv, ScanInv, [Next]_vars, at' \in {"selectDrivers"} \union Late
  PROVE  PortsInv'
<1> USE DEF ReachInv
<1>1. CASE AddKeyboard
  <2>1. drivers = <<Mouse>> /\ drivers' = Append(drivers, Keyboard)
    BY <1>1 DEF AddKeyboard, AddDriver, ScanInv
  <2>2. Len(drivers') = 2
    BY <2>1
  <2> QED
    BY <2>2 DEF PortsInv
<1>3. CASE StartDevice \/ SkipFunction \/ GetNoDriver \/ GetDriverFails
  BY <1>3, PortsStay DEF StartDevice, SkipFunction, GetNoDriver, GetDriverFails
<1>4. CASE ActivateNext \/ TakeEth0 \/ MakeProvider \/ ClearTable \/ MakeArp
           \/ ActivateInterrupts
  BY <1>4, PortsStay DEF ActivateNext, TakeEth0, MakeProvider, ClearTable, MakeArp,
     ActivateInterrupts, Late, scan
<1>5. CASE UNCHANGED vars
  BY <1>5, PortsStay DEF vars, scan
<1>6. CASE MakeGdt \/ MakeHeap \/ MakeInterruptManager \/ MakeSysCall \/ MakeMouse \/ MakeKeyboard
           \/ AddMouse
  BY <1>6 DEF MakeGdt, MakeHeap, MakeInterruptManager, MakeSysCall, MakeMouse, MakeKeyboard,
              AddMouse, Late
<1> QED
  BY <1>1, <1>3, <1>4, <1>5, <1>6, DriverKnowsPort DEF Next, Loop

LEMMA ChainStep ==
  ASSUME ReachInv, ScanInv, [Next]_vars
  PROVE  ChainInv'
<1> USE DEF ReachInv, ChainInv, Late, Early
<1>1. CASE MakeGdt \/ MakeHeap \/ MakeInterruptManager \/ MakeSysCall \/ MakeMouse \/ MakeKeyboard
  BY <1>1 DEF MakeGdt, MakeHeap, MakeInterruptManager, MakeSysCall, MakeMouse, MakeKeyboard, net
<1>2. CASE AddMouse \/ AddKeyboard
  <2>1. Len(drivers') \in Nat
    BY <1>2 DEF AddMouse, AddKeyboard, AddDriver, ScanInv
  <2> QED
    BY <1>2, <2>1 DEF AddMouse, AddKeyboard, net
<1>3. CASE StartDevice \/ SkipFunction \/ GetNoDriver \/ GetDriverFails
  BY <1>3, ScanGoesOn DEF StartDevice, SkipFunction, GetNoDriver, GetDriverFails, net
<1>4. CASE GetDriver
  <2>1. drivers' = Append(drivers, <<"card", position>>) /\ Len(drivers) \in Nat
        /\ drivers \in Seq({Mouse, Keyboard} \union Card) /\ at = "selectDrivers"
    BY <1>4, FoundCards DEF GetDriver, AddDriver
  <2>2. Len(drivers') \in Nat
    BY <2>1
  <2> QED
    BY <1>4, <2>1, <2>2, ScanGoesOn DEF GetDriver, net
<1>5. CASE ActivateNext \/ TakeEth0
  <2>1. Len(drivers) \in Nat
    BY <1>5, FoundCards DEF ActivateNext, TakeEth0
  <2> QED
    BY <1>5, <2>1 DEF ActivateNext, TakeEth0
<1>6. CASE MakeProvider \/ ClearTable \/ MakeArp \/ ActivateInterrupts
  BY <1>6 DEF MakeProvider, ClearTable, MakeArp, ActivateInterrupts, net
<1>7. CASE UNCHANGED vars
  BY <1>7 DEF vars, net
<1> QED
  BY <1>1, <1>2, <1>3, <1>4, <1>5, <1>6, <1>7 DEF Next, Loop

LEMMA ReachInvNext == ReachInv /\ ScanInv /\ [Next]_vars => ReachInv'
  BY GatesStep, HandlersStep, PortsStep, ChainStep DEF ReachInv, Building, Late

LEMMA CodeSegment ==
  ASSUME NEW old
  PROVE  LET d == GlobalDescriptorTable(old)[getCodeSegmentOffset]
         IN  Code(d) /\ getBaseAddr(d) = 0
<1>1. GlobalDescriptorTable(old)[getCodeSegmentOffset]
         = SegmentDescriptor(old, 0, SEGMENT_SIZE, 154)
  BY SMT DEF GlobalDescriptorTable, getDataSegmentOffset, getCodeSegmentOffset
<1>2. SEGMENT_SIZE = 67108864
  BY SMT DEF SEGMENT_SIZE
<1> QED
  BY SMTT(30), <1>1, <1>2, DescriptorReadBack DEF Code, Present

LEMMA LinesReach ==
  ASSUME ReachInv, ScanInv, at \in Late, NEW i \in Lines
  PROVE  Reached(32 + i) = LineOwner(i)
<1> DEFINE n == 32 + i
           on == {k \in DOMAIN drivers : NumberOf(drivers[k]) = n}
<1>1. n \in Nat \ {SysCallNumber} /\ n \in DOMAIN gates /\ gates[n] = n
  <2>1. n \in 32..47 /\ n = 32 + i
    BY DEF Lines
  <2>2. gates = AllGates
    BY DEF ReachInv, Late
  <2>3. n \in {32 + j : j \in Lines}
    OBVIOUS
  <2>4. StubNumber(n) = n
    BY <2>1 DEF StubNumber, Exceptions, IRQBase
  <2> HIDE DEF n
  <2> QED
    BY <2>1, <2>2, <2>3, <2>4 DEF AllGates, SysCallNumber
<1>2. LastHandles(n)
  BY <1>1 DEF ReachInv, HandlersInv
<1>3. LineOwner(i) = IF on = {} THEN Nothing
                     ELSE drivers[CHOOSE k \in on : \A l \in on : l <= k]
  BY DEF LineOwner, IRQBase
<1>4. CASE n \in DOMAIN handlers
  <2>1. PICK k \in Nat : LastFor(n, k) /\ handlers[n] = drivers[k]
    BY <1>2, <1>4 DEF LastHandles
  <2>2. DOMAIN drivers = 1 .. Len(drivers) /\ Len(drivers) \in Nat
    BY FoundCards
  <2>3. k \in on /\ \A l \in on : l <= k
    BY <2>1 DEF LastFor
  <2>4. ASSUME NEW m \in on, \A l \in on : l <= m PROVE m = k
    BY <2>2, <2>3, <2>4
  <2>5. (CHOOSE m \in on : \A l \in on : l <= m) = k
    BY <2>3, <2>4
  <2> QED
    BY <1>1, <1>3, <1>4, <2>1, <2>3, <2>5 DEF Reached
<1>5. CASE n \notin DOMAIN handlers
  <2>1. on = {}
    BY <1>2, <1>5 DEF LastHandles
  <2> QED
    BY <1>1, <1>3, <1>5, <2>1 DEF Reached
<1> QED
  BY <1>4, <1>5

\* For every machine, whatever the stack held where the base address registers
\* were read: once interrupts are enabled each line reaches the driver added
\* last for it, through a gate, a stub's number and a flat segment, all drivers
\* are activated and know their ports, and the provider hangs on the first card
\* with its table filled (kernel.cpp:171-237, interrupts.cpp, pci.cpp).
THEOREM InterruptsReachDrivers == Spec => []InterruptsReach
<1>1. HeapInv /\ ScanInv /\ ReachInv => InterruptsReach
  <2> SUFFICES ASSUME HeapInv, ScanInv, ReachInv, flag PROVE InterruptsReach
    BY DEF InterruptsReach
  <2>1. at = "loop" /\ at \in Late
    BY DEF ReachInv, ChainInv, Late
  <2>2. \A i \in Lines : Reached(32 + i) = LineOwner(i)
    BY <2>1, LinesReach
  <2>3. Reached(128) = SysCall
    <3>1. 128 \in DOMAIN gates /\ gates[128] = SysCallNumber
      BY <2>1 DEF ReachInv, AllGates, StubNumber, Exceptions, IRQBase, SysCallNumber
    <3>2. SysCallNumber \in DOMAIN handlers /\ handlers[SysCallNumber] = SysCall
      BY <2>1 DEF ReachInv, HandlersInv
    <3> QED
      BY <3>1, <3>2 DEF Reached
  <2>4. Code(gdt[getCodeSegmentOffset]) /\ getBaseAddr(gdt[getCodeSegmentOffset]) = 0
    BY <2>1, CodeSegment DEF HeapInv
  <2>5. PortsInv /\ ChainInv
    BY <2>1 DEF ReachInv
  <2>6. PortsKnown
    BY <2>5 DEF PortsInv, PortKnown, PortsKnown
  <2> QED
    BY <2>1, <2>2, <2>3, <2>4, <2>5, <2>6 DEF InterruptsReach, ChainInv, Late
<1> QED
  BY HeapInvInit, HeapInvNext, ScanInvInit, ScanInvNext, ReachInvInit, ReachInvNext, <1>1, PTL
     DEF Spec

-----------------------------------------------------------------------------
(* Types. *)

LEMMA TableType ==
  ASSUME NEW b \in 0..255
  PROVE  GlobalDescriptorTable(Uninitialised(b)) \in [{0, 8, 16, 24} -> Descriptor]
<1> DEFINE old == Uninitialised(b)
<1>1. SEGMENT_SIZE = 67108864
  BY SMT DEF SEGMENT_SIZE
<1>2. SegmentDescriptor(old, 0, SEGMENT_SIZE, 154) \in Descriptor
  BY SMT, <1>1, DescriptorReadBack
<1>3. SegmentDescriptor(old, 0, SEGMENT_SIZE, 146) \in Descriptor
  BY SMT, <1>1, DescriptorReadBack
<1>4. SegmentDescriptor(old, 0, 0, 0) \in Descriptor
  <2>1. SegmentDescriptor(old, 0, 0, 0) = [old EXCEPT !.flags_limit_hi = 64]
    BY SMT DEF SegmentDescriptor
  <2>2. 257 * b \in Nat /\ 257 * b < 65536 /\ b \in Nat /\ b < 256
    BY SMT
  <2>3. 257 * b \in Below(65536) /\ b \in Below(256) /\ 64 \in Below(256)
    BY SMT, <2>2, InBelow
  <2>4. old \in Descriptor
    BY SMTT(30), <2>3 DEF Uninitialised, Descriptor
  <2> QED
    BY SMTT(30), <2>1, <2>3, <2>4 DEF Descriptor
<1> QED
  BY SMT, <1>2, <1>3, <1>4 DEF GlobalDescriptorTable, getCodeSegmentOffset, getDataSegmentOffset

LEMMA HeapType ==
  ASSUME NEW kib \in Nat
  PROVE  <<HeapStart, HeapSize(kib)>> \in {0, HeapStart} \X KiB
<1>1. \A n \in Int : n % 4194304 \in Nat /\ n % 4194304 < 4194304
  BY SMT
<1>2. HeapSize(kib) \in KiB
  BY SMT, <1>1 DEF HeapSize, HeapStart, KiB
<1> QED
  BY <1>2

LEMMA TypeInit == Init => TypeOK
<1> SUFFICES ASSUME Init PROVE TypeOK
  OBVIOUS
<1>1. <<0, 0, 0>> \in (0 .. Buses) \X (0 .. Devices - 1) \X (0 .. Functions - 1)
  BY SizesNat
<1>2. drivers \in Seq({Mouse, Keyboard} \union Card) /\ Len(drivers) = 0
  BY DEF Init
<1>3. DOMAIN gates = {} /\ DOMAIN handlers = {} /\ DOMAIN portBase = {}
  BY DEF Init
<1>4. heap \in {0, HeapStart} \X KiB
  BY SMT DEF Init, KiB
<1>5. /\ gdt = <<>> /\ noOfDevices = 0 /\ activated = 0 /\ failed = {} /\ flag = FALSE
      /\ position = <<0, 0, 0>> /\ eth0 = Garbage /\ listener = Nothing /\ table = "stack"
      /\ machine \in [Slot -> Boards] /\ memUpper \in MemUpper
  BY DEF Init
<1>6. activated \in 0 .. Len(drivers)
  BY ONLY <1>2, <1>5
<1> QED
  BY ONLY <1>1, <1>2, <1>3, <1>4, <1>5, <1>6 DEF TypeOK

\* What the other invariants say of the types.
LEMMA TypesKnown ==
  ASSUME HeapInv, ScanInv, ReachInv
  PROVE  /\ machine \in [Slot -> Boards] /\ memUpper \in MemUpper
         /\ \A v \in DOMAIN gates : v \in 0..255 /\ gates[v] \in 0..255
         /\ drivers \in Seq({Mouse, Keyboard} \union Card) /\ failed \subseteq Card
         /\ activated \in 0 .. Len(drivers)
<1>1. \A v \in DOMAIN gates : v \in 0..255 /\ gates[v] \in 0..255
  <2>1. CASE gates = <<>>
    BY <2>1
  <2>2. CASE gates = AllGates
    <3>1. \A v \in DOMAIN AllGates : v \in (0..19) \union (32..47) \union {128}
      BY DEF AllGates, Exceptions, Lines
    <3>2. ASSUME NEW v \in (0..19) \union (32..47) \union {128} PROVE StubNumber(v) \in 0..255
      BY DEF StubNumber, Exceptions, IRQBase
    <3>3. \A v \in DOMAIN AllGates : AllGates[v] = StubNumber(v)
      BY DEF AllGates
    <3>4. \A v \in DOMAIN AllGates : v \in 0..255
      BY ONLY <3>1
    <3> QED
      BY ONLY <2>2, <3>1, <3>2, <3>3, <3>4
  <2> QED
    BY <2>1, <2>2 DEF ReachInv
<1>2. drivers \in Seq({Mouse, Keyboard} \union Card) /\ failed \subseteq Card
  <2>1. CASE at \in {"selectDrivers"} \union Late
    BY <2>1, FoundCards
  <2>2. CASE at \notin {"selectDrivers"} \union Late
    <3>1. failed = {} /\ (drivers = <<>> \/ drivers = <<Mouse>>)
      BY <2>2 DEF ScanInv, AtStart
    <3>2. \A S : \A e \in S : <<>> \in Seq(S) /\ <<e>> \in Seq(S)
      BY ONLY TRUE
    <3>3. Mouse \in {Mouse, Keyboard} \union Card
      OBVIOUS
    <3> QED
      BY ONLY <3>1, <3>2, <3>3
  <2> QED
    BY <2>1, <2>2
<1> QED
  BY <1>1, <1>2 DEF HeapInv, ReachInv, ChainInv

\* The handlers there can be.
HandlersOK ==
    /\ DOMAIN handlers \subseteq 0..255
    /\ \A n \in DOMAIN handlers : handlers[n] \in {SysCall, Mouse, Keyboard} \union Card

LEMMA RegisterTyped ==
  ASSUME HandlersOK, NEW n \in 0..255, NEW h \in {SysCall, Mouse, Keyboard} \union Card,
         Register(h, n)
  PROVE  HandlersOK'
<1>0. /\ DOMAIN handlers' = DOMAIN handlers \union {n} /\ handlers'[n] = h
      /\ \A m \in DOMAIN handlers \ {n} : handlers'[m] = handlers[m]
  BY ONLY Register(h, n) DEF Register, With
<1>1. (DOMAIN handlers)' \subseteq 0..255
  BY <1>0 DEF HandlersOK
<1>2. ASSUME NEW m \in DOMAIN handlers'
      PROVE  handlers'[m] \in {SysCall, Mouse, Keyboard} \union Card
  <2>1. CASE m = n
    BY ONLY <1>0, <2>1, h \in {SysCall, Mouse, Keyboard} \union Card
  <2>2. CASE m # n
    <3>1. m \in DOMAIN handlers /\ handlers'[m] = handlers[m]
      BY ONLY <1>0, <1>2, <2>2
    <3> QED
      BY ONLY <3>1, HandlersOK DEF HandlersOK
  <2> QED
    BY ONLY <2>1, <2>2
<1> QED
  BY <1>1, <1>2 DEF HandlersOK, Card, Position, Mouse, Keyboard, SysCall

LEMMA HandlersTyped ==
  ASSUME HandlersOK, ScanInv, ReachInv, [Next]_vars
  PROVE  HandlersOK'
<1>1. CASE MakeSysCall \/ MakeMouse \/ MakeKeyboard
  <2>1. SysCallNumber \in 0..255 /\ MouseNumber \in 0..255 /\ KeyboardNumber \in 0..255
    BY DEF SysCallNumber, MouseNumber, KeyboardNumber
  <2> QED
    BY <1>1, <2>1, RegisterTyped DEF MakeSysCall, MakeMouse, MakeKeyboard
<1>2. CASE GetDriver
  <2>1. position \in NetworkCards /\ <<"card", position>> \in Card
    BY <1>2, ScannedIsCard DEF NetworkCards, Card
  <2>2. InterruptNumber(Header(position)) \in 0..255
    BY <2>1, CardNumber DEF ReachInv
  <2> QED
    BY <1>2, <2>1, <2>2, RegisterTyped DEF GetDriver
<1>3. CASE handlers' = <<>>
  <2>1. DOMAIN handlers' = {}
    BY <1>3
  <2> QED
    BY <2>1 DEF HandlersOK
<1>4. CASE handlers' = handlers
  BY <1>4 DEF HandlersOK, Card, Position, Mouse, Keyboard, SysCall
<1>5. \/ MakeSysCall \/ MakeMouse \/ MakeKeyboard \/ GetDriver
      \/ handlers' = <<>> \/ handlers' = handlers
  BY DEF Next, MakeGdt, MakeHeap, MakeInterruptManager, AddMouse, AddKeyboard, StartDevice,
     SkipFunction, GetNoDriver, GetDriverFails, ActivateNext, TakeEth0, MakeProvider, ClearTable,
     MakeArp, ActivateInterrupts, Loop, vars
<1> QED
  BY <1>1, <1>2, <1>3, <1>4, <1>5

\* The scan's variables.
ScanOK ==
    /\ DOMAIN portBase \subseteq Card
    /\ noOfDevices \in {0, 1, Functions}
    /\ position \in (0 .. Buses) \X (0 .. Devices - 1) \X (0 .. Functions - 1)

LEMMA ScanTyped ==
  ASSUME ScanOK, ScanInv, [Next]_vars
  PROVE  ScanOK'
<1> USE DEF ScanOK
<1>1. CASE UNCHANGED scan
  BY <1>1 DEF scan, Card, Position
<1>2. CASE StartDevice
  BY <1>2 DEF StartDevice, Card, Position
<1>3. CASE SkipFunction \/ GetNoDriver \/ GetDriverFails \/ GetDriver
  <2>1. at = "selectDrivers" /\ NextFunction /\ position \in Position /\ noOfDevices # 0
    BY <1>3, SizesNat DEF SkipFunction, GetNoDriver, GetDriverFails, GetDriver, ScanInv, Late, Early
  <2>2. /\ Bus \in 0 .. Buses - 1 /\ Device \in 0 .. Devices - 1 /\ Function \in 0 .. Functions - 1
        /\ Function < noOfDevices /\ noOfDevices \in 1 .. Functions
    BY <2>1, PositionParts, SizesNat DEF Bus, Device, Function, ScanInv, FunctionsOf, Late, Early
  <2>3. noOfDevices' \in {0, 1, Functions}
    BY <2>1 DEF NextFunction
  <2>4. position' \in (0 .. Buses) \X (0 .. Devices - 1) \X (0 .. Functions - 1)
    <3>1. CASE Function + 1 < noOfDevices
      <4>1. Function + 1 \in 0 .. Functions - 1 /\ Bus \in 0 .. Buses
        BY <2>2, <3>1, SizesNat
      <4>2. position' = <<Bus, Device, Function + 1>>
        BY <2>1, <3>1 DEF NextFunction
      <4> QED
        BY <2>2, <4>1, <4>2
    <3>2. CASE ~(Function + 1 < noOfDevices)
      <4>1. /\ 0 \in 0 .. Functions - 1 /\ 0 \in 0 .. Devices - 1
            /\ Bus \in 0 .. Buses /\ Bus + 1 \in 0 .. Buses
        BY <2>2, SizesNat
      <4>2. position' = IF Device + 1 < Devices THEN <<Bus, Device + 1, 0>> ELSE <<Bus + 1, 0, 0>>
        BY <2>1, <3>2 DEF NextFunction
      <4>3. Device + 1 < Devices => Device + 1 \in 0 .. Devices - 1
        BY <2>2, SizesNat
      <4> QED
        BY <4>1, <4>2, <4>3
    <3> QED
      BY <3>1, <3>2
  <2>5. DOMAIN portBase' \subseteq Card
    <3>1. <<"card", position>> \in Card
      BY <2>1 DEF Card
    <3> QED
      BY <1>3, <3>1 DEF SkipFunction, GetNoDriver, GetDriverFails, GetDriver, With
  <2> QED
    BY <2>3, <2>4, <2>5 DEF Card, Position
<1>4. \/ StartDevice \/ SkipFunction \/ GetNoDriver \/ GetDriverFails \/ GetDriver
      \/ UNCHANGED scan
  BY DEF Next, MakeGdt, MakeHeap, MakeInterruptManager, MakeSysCall, MakeMouse, MakeKeyboard,
     AddMouse, AddKeyboard, ActivateNext, TakeEth0, MakeProvider, ClearTable, MakeArp,
     ActivateInterrupts, Loop, vars
<1> QED
  BY <1>1, <1>2, <1>3, <1>4

\* The rest.
RestOK ==
    /\ gdt = <<>> \/ gdt \in [{0, 8, 16, 24} -> Descriptor]
    /\ heap \in {0, HeapStart} \X KiB
    /\ {eth0, listener} \subseteq {Nothing, Garbage} \union Card
    /\ table \in {"stack", "cleared", "arp"}
    /\ flag \in BOOLEAN

LEMMA RestTyped ==
  ASSUME RestOK, HeapInv, ScanInv, ReachInv, [Next]_vars
  PROVE  RestOK'
<1> USE DEF RestOK
<1>1. CASE MakeGdt
  <2>1. PICK b \in Stack : gdt' = GlobalDescriptorTable(Uninitialised(b))
    BY ONLY <1>1 DEF MakeGdt
  <2>2. gdt' \in [{0, 8, 16, 24} -> Descriptor]
    BY ONLY <2>1, TableType, StackAssumption
  <2>3. UNCHANGED <<heap, eth0, listener, table, flag>>
    BY ONLY <1>1 DEF MakeGdt, net
  <2>4. Card' = Card
    BY DEF Card, Position
  <2> QED
    BY <2>2, <2>3, <2>4
<1>2. CASE MakeHeap
  <2>1. memUpper \in Nat
    BY MemoryAssumption DEF HeapInv
  <2> QED
    BY <1>2, <2>1, HeapType DEF MakeHeap, net, Card, Position, Nothing, Garbage, HeapStart
<1>3. CASE TakeEth0
  <2>1. eth0' \in {Nothing, Garbage} \union Card
    <3>1. CASE Len(drivers) > 2
      <4>1. PICK p \in NetworkCards : drivers[3] = <<"card", p>>
        BY <1>3, <3>1, FoundCards DEF TakeEth0, Late
      <4> QED
        BY <1>3, <3>1, <4>1 DEF TakeEth0, NetworkCards, Card
    <3>2. CASE ~(Len(drivers) > 2)
      BY <1>3, <3>2 DEF TakeEth0
    <3> QED
      BY <3>1, <3>2
  <2> QED
    BY <1>3, <2>1 DEF TakeEth0, Card, Position, Nothing, Garbage
<1>4. CASE MakeProvider \/ ClearTable \/ MakeArp \/ ActivateInterrupts
  BY <1>4 DEF MakeProvider, ClearTable, MakeArp, ActivateInterrupts, net, Card, Position,
     Nothing, Garbage
<1>5. CASE UNCHANGED <<gdt, heap, eth0, listener, table, flag>>
  BY <1>5 DEF Card, Position, Nothing, Garbage
<1>6. \/ MakeGdt \/ MakeHeap \/ TakeEth0 \/ MakeProvider \/ ClearTable \/ MakeArp
      \/ ActivateInterrupts \/ UNCHANGED <<gdt, heap, eth0, listener, table, flag>>
  BY DEF Next, MakeInterruptManager, MakeSysCall, MakeMouse, MakeKeyboard, AddMouse, AddKeyboard,
     StartDevice, SkipFunction, GetNoDriver, GetDriverFails, GetDriver, ActivateNext, Loop,
     vars, net
<1> QED
  BY <1>1, <1>2, <1>3, <1>4, <1>5, <1>6

Typed == HandlersOK /\ ScanOK /\ RestOK

\* Types: whatever the boards and the stack hold, every descriptor and every
\* handler's number fits its field and the scan stays on the bus.
THEOREM TypeCorrect == Spec => []TypeOK
<1>1. Init => Typed
  BY TypeInit DEF TypeOK, Typed, HandlersOK, ScanOK, RestOK
<1>2. Typed /\ HeapInv /\ ScanInv /\ ReachInv /\ [Next]_vars => Typed'
  BY HandlersTyped, ScanTyped, RestTyped DEF Typed
<1>3. Typed /\ HeapInv /\ ScanInv /\ ReachInv => TypeOK
  BY TypesKnown DEF TypeOK, Typed, HandlersOK, ScanOK, RestOK
<1> QED
  BY HeapInvInit, HeapInvNext, ScanInvInit, ScanInvNext, ReachInvInit, ReachInvNext,
     <1>1, <1>2, <1>3, PTL DEF Spec
=============================================================================
