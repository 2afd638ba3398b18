-------------------------------- MODULE Boot --------------------------------
(***************************************************************************)
(* The boot: EntryPoint of src/GubiOs/src/kernel.cpp from the multiboot    *)
(* structure to the enabled interrupts, with the objects it builds - the   *)
(* descriptor table (gdt.cpp), the heap's bounds, the gates and the        *)
(* handler table (interrupts.cpp, interruptsstubs.s), the drivers it adds  *)
(* and activates (Driver.cpp), the network cards it finds (pci.cpp) and    *)
(* the frame provider it hangs on the first of them (etherframe.cpp).      *)
(*                                                                         *)
(* The loader enters EntryPoint with interrupts disabled and nothing       *)
(* enables them before ActivateInterrupts, so one action is one statement  *)
(* of EntryPoint, or one function of one device that is scanned.  Memory   *)
(* on the stack that is not initialised holds anything.                    *)
(***************************************************************************)
EXTENDS Gdt, Sequences

CONSTANTS Buses, Devices, Functions,  \* 8, 32 and 8 in the code
          Boards,    \* what a slot may hold: a configuration header for each
                     \* function number, which is what Read returns of it
          MemUpper,  \* what the loader may report as upper memory, in KiB
          Stack      \* the bytes uninitialised memory may hold

Position == (0 .. Buses - 1) \X (0 .. Devices - 1) \X (0 .. Functions - 1)
Slot == (0 .. Buses - 1) \X (0 .. Devices - 1)

\* A read of a function that is not there returns all ones.
Absent == [vendorId |-> 65535, deviceId |-> 65535, header |-> 127, multi |-> TRUE,
           bars |-> [n \in 0..5 |-> [io |-> TRUE, base |-> 65532]], interrupt |-> 65535]

\* PCI's rule: without function 0 there is no function, and a device that does
\* not say it has several has one, or shows the one under every number.
PciRule(board) ==
    \/ \A f \in 1 .. Functions - 1 : board[f] = board[0]
    \/ \A f \in 1 .. Functions - 1 : board[f] = Absent
    \/ board[0] # Absent /\ board[0].multi

ASSUME SizeAssumption == {Buses, Devices, Functions} \subseteq Nat \ {0}
ASSUME BoardAssumption == \A board \in Boards : PciRule(board)
ASSUME StackAssumption == Stack \subseteq 0..255 /\ Stack # {}
ASSUME MemoryAssumption == MemUpper \subseteq Nat

VARIABLES at,           \* the statement of EntryPoint
          machine,      \* the board in each slot
          memUpper,     \* upper memory, in KiB
          gdt,          \* the descriptors, by selector
          heap,         \* the heap's first KiB and its size in KiB
          gates,        \* the number each installed gate's stub passes on
          handlers,     \* handlers[n], where it is not 0
          drivers,      \* drivers[0..noOfDriver), counted from 1
          portBase,     \* of the cards
          noOfDevices,  \* functions to scan, 0 before the device's first
          position,     \* bus, device and function of the scan
          activated,    \* drivers ActivateAll is past
          eth0,         \* drivers[2]
          listener,     \* the driver whose rawDataHandler is the provider
          table,        \* the provider's handler[]: "stack", "cleared", "arp"
          flag,         \* the processor's interrupt flag
          failed        \* auxiliary: cards for which malloc returned 0

scan == <<portBase, noOfDevices, position, failed>>
net == <<activated, eth0, listener, table>>
vars == <<at, machine, memUpper, gdt, heap, gates, handlers, drivers, scan, net, flag>>

Mouse == <<"mouse">>
Keyboard == <<"keyboard">>
SysCall == <<"sysCall">>
Nothing == <<"nothing">>
Garbage == <<"garbage">>
Card == {<<"card", p>> : p \in Position}

Init ==
    /\ at = "gdt"
    /\ machine \in [Slot -> Boards]
    /\ memUpper \in MemUpper
    /\ gdt = <<>> /\ heap = <<0, 0>> /\ gates = <<>> /\ handlers = <<>>
    /\ drivers = <<>> /\ portBase = <<>>
    /\ noOfDevices = 0 /\ position = <<0, 0, 0>>
    /\ activated = 0 /\ eth0 = Garbage /\ listener = Nothing /\ table = "stack"
    /\ flag = FALSE
    /\ failed = {}

-----------------------------------------------------------------------------
(* The tables. *)

\* "GlobalDescriptorTable gdt;"
MakeGdt ==
    /\ at = "gdt"
    /\ \E b \in Stack : gdt' = GlobalDescriptorTable(Uninitialised(b))
    /\ at' = "memoryManager"
    /\ UNCHANGED <<machine, memUpper, heap, gates, handlers, drivers, scan, net, flag>>

HeapStart == 10 * 1024

\* A bug EntryPoint could have: the last 10 KiB are not left out.
HeapSizeToTheEnd(kib) == (kib - HeapStart) % 4194304

\* "(*memupper) * 1024 - heapSize - 10*1024", in KiB, in a size_t.
HeapSize(kib) == (kib - HeapStart - 10) % 4194304

MakeHeap ==
    /\ at = "memoryManager"
    /\ heap' = <<HeapStart, HeapSize(memUpper)>>
    /\ at' = "interruptManager"
    /\ UNCHANGED <<machine, memUpper, gdt, gates, handlers, drivers, scan, net, flag>>

IRQBase == 32
Exceptions == 0..19
Lines == 0..15

\* A bug the stubs could have: the system call's number is passed as it is.
StubNumberBare(v) == v

\* The stubs of the exceptions pass their vector on, those of the controllers'
\* lines and of the system call IRQ_BASE more than their number.
StubNumber(v) ==
    IF v \in Exceptions THEN v
    ELSE IF v = 128 THEN 128 + IRQBase
    ELSE (v - 32) + IRQBase

\* InterruptManager's constructor: every gate is InterruptIgnore, then these are
\* set, and no handler is registered.
MakeInterruptManager ==
    /\ at = "interruptManager"
    /\ gates' = [v \in Exceptions \union {32 + i : i \in Lines} \union {128} |-> StubNumber(v)]
    /\ handlers' = <<>>
    /\ at' = "sysCall"
    /\ UNCHANGED <<machine, memUpper, gdt, heap, drivers, scan, net, flag>>

-----------------------------------------------------------------------------
(* The handlers and the drivers. *)

\* A table in which entry n is set to v.
With(f, n, v) == [m \in DOMAIN f \union {n} |-> IF m = n THEN v ELSE f[m]]

\* InterruptHandler's constructor; getHardwareOffset is 0x20.
Register(h, n) == handlers' = With(handlers, n, h)

SysCallNumber == (128 + 32) % 256
MouseNumber == (12 + 32) % 256
KeyboardNumber == (1 + 32) % 256

MakeSysCall ==
    /\ at = "sysCall"
    /\ Register(SysCall, SysCallNumber)
    /\ at' = "mDriver"
    /\ UNCHANGED <<machine, memUpper, gdt, heap, gates, drivers, scan, net, flag>>

MakeMouse ==
    /\ at = "mDriver"
    /\ Register(Mouse, MouseNumber)
    /\ at' = "kDriver"
    /\ UNCHANGED <<machine, memUpper, gdt, heap, gates, drivers, scan, net, flag>>

MakeKeyboard ==
    /\ at = "kDriver"
    /\ Register(Keyboard, KeyboardNumber)
    /\ at' = "driverManager"
    /\ UNCHANGED <<machine, memUpper, gdt, heap, gates, drivers, scan, net, flag>>

AddDriver(d) == drivers' = Append(drivers, d)

AddMouse ==
    /\ at = "driverManager" /\ drivers = <<>>
    /\ AddDriver(Mouse)
    /\ UNCHANGED <<at, machine, memUpper, gdt, heap, gates, handlers, scan, net, flag>>

AddKeyboard ==
    /\ at = "driverManager" /\ drivers # <<>>
    /\ AddDriver(Keyboard)
    /\ at' = "selectDrivers"
    /\ UNCHANGED <<machine, memUpper, gdt, heap, gates, handlers, scan, net, flag>>

-----------------------------------------------------------------------------
(* selectDrivers. *)

Bus == position[1]
Device == position[2]
Function == position[3]
Header(p) == machine[<<p[1], p[2]>>][p[3]]

\* A bug DeviceHasFunctions could have: it masks another bit than bit 7, one
\* that every header has.
DeviceHasFunctionsAlways(b, d) == TRUE

\* Bit 7 of the header type of function 0, which is set, too, if there is none.
DeviceHasFunctions(b, d) == Header(<<b, d, 0>>).multi

StartDevice ==
    /\ at = "selectDrivers" /\ noOfDevices = 0
    /\ noOfDevices' = IF DeviceHasFunctions(Bus, Device) THEN Functions ELSE 1
    /\ UNCHANGED <<at, machine, memUpper, gdt, heap, gates, handlers, drivers,
                   portBase, position, failed, net, flag>>

\* The three loops' steps.
NextFunction ==
    IF Function + 1 < noOfDevices
    THEN /\ position' = <<Bus, Device, Function + 1>>
         /\ UNCHANGED <<noOfDevices, at>>
    ELSE /\ noOfDevices' = 0
         /\ position' = IF Device + 1 < Devices THEN <<Bus, Device + 1, 0>> ELSE <<Bus + 1, 0, 0>>
         /\ at' = IF Device + 1 = Devices /\ Bus + 1 = Buses THEN "ActivateAll" ELSE at

\* GetBaseAddressRegister's results: past the last register of the header's
\* type, and for the address of a register of memory, what the stack holds.
MaxBar(header) == (6 - 4 * header) % 256
Base == {0, 4096}
BaseAddressRegisters(h, bar) ==
    IF bar >= MaxBar(h.header) THEN [io : BOOLEAN, base : Base]
    ELSE IF h.bars[bar].io THEN {h.bars[bar]}
    ELSE [io : {FALSE}, base : Base]

\* A register that is no I/O address leaves portBase as it is, which is what
\* the stack held at first.
PortBases(h) ==
    LET after[n \in 0..6] ==
            IF n = 0 THEN Base
            ELSE {IF r.io /\ r.base # 0 THEN r.base ELSE p :
                     r \in BaseAddressRegisters(h, n - 1), p \in after[n - 1]}
    IN  after[6]

SkipFunction ==
    /\ at = "selectDrivers" /\ noOfDevices > 0
    /\ Header(position).vendorId \in {0, 65535}
    /\ NextFunction
    /\ UNCHANGED <<machine, memUpper, gdt, heap, gates, handlers, drivers, portBase, failed, net, flag>>

\* GetDriver has a driver for the AMD network card, 0x1022 and 0x2000.
HasDriver(h) == h.vendorId = 4130 /\ h.deviceId = 8192

GetNoDriver ==
    /\ at = "selectDrivers" /\ noOfDevices > 0
    /\ Header(position).vendorId \notin {0, 65535}
    /\ ~HasDriver(Header(position))
    /\ NextFunction
    /\ UNCHANGED <<machine, memUpper, gdt, heap, gates, handlers, drivers, portBase, failed, net, flag>>

\* What PCI says of a card with a driver: its header is of type 0, and the low
\* byte of its interrupt register is the number of a line, or 255 for none.
CardRule(h) ==
    HasDriver(h) => h.header = 0 /\ h.interrupt \in Nat /\ h.interrupt % 256 \in Lines \union {255}

ASSUME CardAssumption == \A board \in Boards : \A f \in 0 .. Functions - 1 : CardRule(board[f])

\* malloc may find no chunk; in a heap without a first chunk it finds none.
GetDriverFails ==
    /\ at = "selectDrivers" /\ noOfDevices > 0
    /\ HasDriver(Header(position))
    /\ failed' = failed \union {<<"card", position>>}
    /\ NextFunction
    /\ UNCHANGED <<machine, memUpper, gdt, heap, gates, handlers, drivers, portBase, net, flag>>

\* A bug the constructor could have: the dword at 0x3C is not cut to a byte.
InterruptNumberWide(h) == h.interrupt + 32

\* The dword at 0x3C and the hardware offset, in the constructor's uint8_t.
InterruptNumber(h) == (h.interrupt + 32) % 256

GetDriver ==
    /\ at = "selectDrivers" /\ noOfDevices > 0
    /\ HasDriver(Header(position))
    /\ heap[2] > 0
    /\ \E p \in PortBases(Header(position)) :
          portBase' = With(portBase, <<"card", position>>, p)
    /\ Register(<<"card", position>>, InterruptNumber(Header(position)))
    /\ AddDriver(<<"card", position>>)
    /\ NextFunction
    /\ UNCHANGED <<machine, memUpper, gdt, heap, gates, failed, net, flag>>

-----------------------------------------------------------------------------
(* The rest of EntryPoint. *)

ActivateNext ==
    /\ at = "ActivateAll" /\ activated < Len(drivers)
    /\ activated' = activated + 1
    /\ UNCHANGED <<at, machine, memUpper, gdt, heap, gates, handlers, drivers, scan,
                   eth0, listener, table, flag>>

\* "drivers[2]" is not tested; without a card it was never stored to.
TakeEth0 ==
    /\ at = "ActivateAll" /\ activated = Len(drivers)
    /\ eth0' = IF Len(drivers) > 2 THEN drivers[3] ELSE Garbage
    /\ at' = "etherFrameHandler"
    /\ UNCHANGED <<machine, memUpper, gdt, heap, gates, handlers, drivers, scan,
                   activated, listener, table, flag>>

\* The base's constructor hangs the provider on the driver, whatever that is.
MakeProvider ==
    /\ at = "etherFrameHandler"
    /\ listener' = eth0
    /\ at' = "clear"
    /\ UNCHANGED <<machine, memUpper, gdt, heap, gates, handlers, drivers, scan,
                   activated, eth0, table, flag>>

ClearTable ==
    /\ at = "clear"
    /\ table' = "cleared"
    /\ at' = "arp"
    /\ UNCHANGED <<machine, memUpper, gdt, heap, gates, handlers, drivers, scan,
                   activated, eth0, listener, flag>>

MakeArp ==
    /\ at = "arp"
    /\ table' = "arp"
    /\ at' = "ActivateInterrupts"
    /\ UNCHANGED <<machine, memUpper, gdt, heap, gates, handlers, drivers, scan,
                   activated, eth0, listener, flag>>

ActivateInterrupts ==
    /\ at = "ActivateInterrupts"
    /\ flag' = TRUE
    /\ at' = "loop"
    /\ UNCHANGED <<machine, memUpper, gdt, heap, gates, handlers, drivers, scan, net>>

\* "while(1);"
Loop == at = "loop" /\ UNCHANGED vars

Next ==
    \/ MakeGdt \/ MakeHeap \/ MakeInterruptManager
    \/ MakeSysCall \/ MakeMouse \/ MakeKeyboard \/ AddMouse \/ AddKeyboard
    \/ StartDevice \/ SkipFunction \/ GetNoDriver \/ GetDriverFails \/ GetDriver
    \/ ActivateNext \/ TakeEth0 \/ MakeProvider \/ ClearTable \/ MakeArp
    \/ ActivateInterrupts \/ Loop

Spec == Init /\ [][Next]_vars
-----------------------------------------------------------------------------
\* The values of HeapSize.
KiB == {n \in Nat : n < 4194304}

\* The variables' types: descriptors and handler numbers fit their fields.
TypeOK ==
    /\ machine \in [Slot -> Boards] /\ memUpper \in MemUpper
    /\ gdt = <<>> \/ gdt \in [{0, 8, 16, 24} -> Descriptor]
    /\ heap \in {0, HeapStart} \X KiB
    /\ \A v \in DOMAIN gates : v \in 0..255 /\ gates[v] \in 0..255
    /\ DOMAIN handlers \subseteq 0..255
    /\ \A n \in DOMAIN handlers : handlers[n] \in {SysCall, Mouse, Keyboard} \union Card
    /\ drivers \in Seq({Mouse, Keyboard} \union Card)
    /\ DOMAIN portBase \subseteq Card
    /\ noOfDevices \in {0, 1, Functions}
    /\ position \in (0 .. Buses) \X (0 .. Devices - 1) \X (0 .. Functions - 1)
    /\ activated \in 0 .. Len(drivers)
    /\ {eth0, listener} \subseteq {Nothing, Garbage} \union Card
    /\ table \in {"stack", "cleared", "arp"}
    /\ flag \in BOOLEAN
    /\ failed \subseteq Card

\* With upper memory from 10250 KiB up to what 64 MiB leave, the heap lies in
\* memory that is there and inside the segment every handler's return loads,
\* whatever was on the stack where the descriptors were constructed.
HeapAddressable ==
    heap # <<0, 0>> /\ 10250 <= memUpper /\ memUpper <= 65546 =>
        /\ heap[1] + heap[2] <= 1024 + memUpper
        /\ Data(gdt[getDataSegmentOffset])
        /\ getBaseAddr(gdt[getDataSegmentOffset]) = 0
        /\ (heap[1] + heap[2]) * 1024 - 1 <= getLimit(gdt[getDataSegmentOffset])

\* The network cards that are there: function 0 of a device, or a further
\* function of one that says it has several.
NetworkCards == {p \in Position : HasDriver(Header(p)) /\ (p[3] = 0 \/ Header(<<p[1], p[2], 0>>).multi)}

Before(p, q) ==
    \/ p[1] < q[1]
    \/ p[1] = q[1] /\ p[2] < q[2]
    \/ p[1] = q[1] /\ p[2] = q[2] /\ p[3] < q[3]

\* The drivers are the mouse's, the keyboard's and one for each card that is
\* there and found memory, in the order of the bus.
EachFoundOnce ==
    /\ Len(drivers) >= 2 /\ drivers[1] = Mouse /\ drivers[2] = Keyboard
    /\ {drivers[i] : i \in 3 .. Len(drivers)} \union failed = {<<"card", p>> : p \in NetworkCards}
    /\ \A i, j \in 3 .. Len(drivers) : i < j => Before(drivers[i][2], drivers[j][2])

Scanned == at \in {"ActivateAll", "etherFrameHandler", "clear", "arp", "ActivateInterrupts", "loop"}

\* After the scan no card is left out, behind whatever devices it sits, and none
\* is found a second time under the other function numbers of a device that has
\* one function.
CardsFound == Scanned => EachFoundOnce

IoBars(h) == {n \in 0..5 : n < MaxBar(h.header) /\ h.bars[n].io /\ h.bars[n].base # 0}

\* A card with an I/O register has its last one, whatever the stack held where
\* the registers were read.
PortsKnown ==
    \A i \in 3 .. Len(drivers) :
        LET h == Header(drivers[i][2])
        IN  \A n \in IoBars(h) :
               (\A k \in IoBars(h) : k <= n) => portBase[drivers[i]] = h.bars[n].base

\* The number each driver asked for.
NumberOf(d) ==
    IF d = Mouse THEN MouseNumber ELSE IF d = Keyboard THEN KeyboardNumber
    ELSE InterruptNumber(Header(d[2]))

\* Whom an interrupt through a gate reaches.
Reached(v) ==
    IF v \notin DOMAIN gates THEN Nothing
    ELSE IF gates[v] \notin DOMAIN handlers THEN Nothing
    ELSE handlers[gates[v]]

\* The driver of a line: the last one added for its number.
LineOwner(i) ==
    LET on == {k \in DOMAIN drivers : NumberOf(drivers[k]) = IRQBase + i}
    IN  IF on = {} THEN Nothing
        ELSE drivers[CHOOSE k \in on : \A l \in on : l <= k]

\* From the moment interrupts are enabled every line's gate leads, through its
\* stub's number and an executable flat segment, to the driver that was added
\* last for the line, is activated and knows its port; the system call's leads to
\* its handler; and a frame of the first card finds the provider and a table that
\* is filled.
InterruptsReach ==
    flag =>
        /\ \A i \in Lines : Reached(32 + i) = LineOwner(i)
        /\ Reached(128) = SysCall
        /\ Code(gdt[getCodeSegmentOffset])
        /\ getBaseAddr(gdt[getCodeSegmentOffset]) = 0
        /\ activated = Len(drivers) /\ PortsKnown
        /\ table = "arp"
        /\ Len(drivers) > 2 => listener = drivers[3]
=============================================================================
