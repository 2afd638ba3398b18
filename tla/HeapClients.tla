---------------------------- MODULE HeapClients ----------------------------
(***************************************************************************)
(* The two callers of malloc in the kernel, in the order the boot runs     *)
(* them: PeripheralComponentInterfaceConroller::GetDriver allocates the    *)
(* network driver and constructs it in place (pci.cpp:213-223), then the   *)
(* ARP request that EntryPoint sends makes EtherFrameProvider::Send        *)
(* allocate a frame and fill it (etherframe.cpp:26-35).                    *)
(*                                                                         *)
(* malloc returns the address one pointer past the header's first word, so *)
(* the first three words of a block are the prev, allocated and size       *)
(* fields of its own header; here the callers write them.                  *)
(***************************************************************************)
EXTENDS MemoryManager

\* Client is {"driver", "frame"}, Requests is {DriverSize, FrameSize}.
CONSTANTS DriverSize,   \* sizeof(amd_am79973), in words
          FrameSize,    \* Ethernet header plus ARP message, in words
          Byte,         \* how many values the low part of a word has
          Irq,          \* the card's InterruptNumber, one byte
          Vptr,         \* the word of a vtable pointer: aligned, never 1
          MacWord       \* a word of the frame's header: the broadcast address

VARIABLE step     \* where EntryPoint is

clientVars == <<vars, step>>

Driver == block["driver"].ptr

\* What the constructors store in the first three words: the vtable pointers of
\* Driver and InterruptHandler, and the byte InterruptNumber, which replaces
\* the low byte of the word it lies in.
Constructed(m, p) ==
    [m EXCEPT ![p] = Vptr, ![p + 1] = Vptr, ![p + 2] = @ - (@ % Byte) + Irq]

ClientInit == Init /\ step = "GetDriver"

AllocateDriver ==
    /\ step = "GetDriver"
    /\ MallocCall("driver", DriverSize)
    /\ step' = "construct"

\* "if(0 != driver)": without a block there is no driver object.
ConstructDriver ==
    /\ step = "construct" /\ pc = "idle"
    /\ block["driver"] # NoBlock
    /\ mem' = Constructed(mem, Driver)
    /\ step' = "Send"
    /\ UNCHANGED <<pc, caller, size, chunk, result, block, heads>>

AllocateFrame ==
    /\ step = "Send"
    /\ MallocCall("frame", FrameSize)
    /\ step' = "fill"

\* Send does not test malloc's result; the frame's words are its own.
FillFrame ==
    /\ step = "fill" /\ pc = "idle"
    /\ block["frame"] # NoBlock
    /\ mem' = [a \in Arena |-> IF a \in Words(block["frame"]) THEN MacWord ELSE mem[a]]
    /\ step' = "sent"
    /\ UNCHANGED <<pc, caller, size, chunk, result, block, heads>>

ClientNext ==
    \/ AllocateDriver \/ ConstructDriver \/ AllocateFrame \/ FillFrame
    \/ MallocStep /\ UNCHANGED step

ClientSpec == ClientInit /\ [][ClientNext]_clientVars

\* Sending a frame leaves the driver object alone: its vtable pointers are the
\* ones the constructor stored.  The next interrupt of the card is dispatched
\* through them (interrupts.cpp:52).
DriverIntact ==
    step \in {"Send", "fill", "sent"} =>
        mem[Driver] = Vptr /\ mem[Driver + 1] = Vptr
=============================================================================
