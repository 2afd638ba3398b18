# GubiOS: models, checks and proofs

GubiOS is a 32-bit x86 hobby kernel in C++ and assembly (`src/GubiOs`). It has one
main thread, `EntryPoint`, which ends in `while(1);`, and interrupt handlers that run to
their end with interrupts disabled. There are no tests. This directory holds TLA+ models
of its stateful parts, TLC configurations that check them and TLAPS proofs about them.

Paths below are relative to `src/GubiOs`.

## 1. Inventory

| Component | State | Operations | Called by |
|---|---|---|---|
| Heap (`src/MemoryManager.cpp`) | list of `MemoryChunk` headers in RAM | constructor, `malloc`, `free`, `operator new/delete` | main thread: `GetDriver`, `EtherFrameProvider::Send` |
| Scheduler (`src/multitasking.cpp`) | `tasks[256]`, `numTasks`, `currentTask`, a `cpustate` per task | `AddTask`, `Schedule` | `EntryPoint` adds two tasks; no handler calls `Schedule` yet |
| Interrupts (`src/hardwarecommunication/interrupts*.{cpp,s}`) | `handlers[256]`, active manager, the byte `interruptNumber`; the 8259s' in-service bits | constructors and destructors of handlers, `handleInterrupt`, `ActivateInterrupts`, `Deactivate`, stubs | processor; every driver registers a handler |
| Network driver (`src/drivers/amd_am79C973.cpp`) | two descriptor rings, two indices, initialisation block | `Activate`, `Send`, `HandleInterrupt`, `Receive` | main thread and the card's interrupt |
| Ethernet frames (`src/net/etherframe.cpp`) | `handler[65535]` | registration, `Send`, `onRawDataReceived` | ARP; the driver's `Receive` |
| ARP (`src/net/arp.cpp`) | cache of 128 entries | `Resolve`, `ReqMACAddr`, `OnEtherFrameReceived` | main thread; the frame dispatch |
| Keyboard, mouse (`src/drivers`) | packet buffer, offset, buttons; one controller with one output buffer behind both | `HandleInterrupt`, `Activate` | interrupts 0x21, 0x2C; `ActivateAll` |
| Console, cursor (`src/kernel.cpp`) | static `x`, `y`, video memory, string literals | `printf`, `printfHex`, `onMouseMove` | everything, from both contexts |
| PCI (`src/hardwarecommunication/pci.cpp`) | none of its own; three nested loops over the functions | `selectDrivers`, `GetDriver`, `GetBaseAddressRegister` | `EntryPoint` |
| Driver manager (`src/drivers/Driver.cpp`) | `drivers[255]`, `noOfDriver` | `AddDriver`, `ActivateAll` | `EntryPoint`, `selectDrivers` |
| GDT (`src/gdt.cpp`) | four descriptors | constructors, `getBaseAddr`, `getLimit` | `EntryPoint`; the processor reads it |
| System calls, VGA, ports, loader | see `PROJECT.json` | | |

**How they interact.** `EntryPoint` builds, in this order: GDT, heap, tasks, interrupt
manager, system calls, mouse, keyboard, the drivers that PCI enumeration finds (in heap
blocks); activates all drivers; registers the Ethernet provider and ARP; enables
interrupts; resolves the gateway's address; loops. From then on the only concurrency is
an interrupt handler that comes between two instructions of the main thread, devices that
run by themselves, and an NMI, which no flag holds off.

**Hard behaviours.** Shared state without a lock between the main thread and handlers
(send ring, console, ARP cache, the byte `interruptNumber`); ownership of descriptors
passed to and fro with a device; acknowledging events that arrive while one is handled;
header arithmetic on raw memory; tables at their limits; liveness of loops that end only
when a device or a list says so. `PROJECT.json` lists every hazard at its line.

**What would make each component correct.** Heap: chunks partition the heap, live
blocks do not overlap, freed memory comes back, headers are the allocator's alone.
Scheduler: registers are never lost or mixed up, everyone gets a turn. Interrupts: the
registered handler runs, every interrupt is ended exactly at the controllers that have it
in service, no dangling handler. Driver: frames go out and come in intact, in order,
once, and no handler runs for ever. Ethernet and ARP: a frame reaches the handler of its
type, an answer is found by the next `Resolve`, a cache entry is complete when visible.
Keyboard and mouse: packets stay in step, keys come in order, the controller stays on.
Console: nothing is stored off the screen, text comes in the order in which it was printed.
Boot: heap in memory, every card found once, handlers and tables complete before interrupts.

## 2. Modules

| Module | Models | Runs |
|---|---|---|
| `MemoryManager` | the heap, on the words of RAM | `heap` |
| `MemoryManagerProofs` | proofs about it | |
| `HeapClients` | the heap composed with the two callers the boot has | `heap_clients` |
| `TaskManager` | the scheduler, called by whoever may call it | `tasks` |
| `RoundRobin` | what a round-robin scheduler promises | `tasks` (refinement) |
| `TaskManagerProofs` | proofs about `TaskManager`: its invariants; that it implements `RoundRobin` | |
| `InterruptManager` | dispatch, both 8259s, interrupt flag, NMI | `interrupts` |
| `InterruptManagerProofs` | proofs about it | |
| `AmdNic` | the driver in two contexts, and the card | `nic`, `nic_live`, `nic_own` |
| `AmdNicProofs` | proofs about it | |
| `EtherArp` | Ethernet dispatch and ARP in two contexts | `arp`, `arp_dispatch` |
| `EtherArpProofs` | proofs about it | |
| `Console` | `printf`, `printfHex` and the mouse cursor in two contexts | `console` |
| `ConsoleProofs` | proofs about it | |
| `Input` | keyboard and mouse drivers, and the 8042 | `input` |
| `InputProofs` | proofs about it | |
| `Gdt` | descriptors: what is stored, what is read back | `boot` |
| `Boot` | `EntryPoint` up to the enabled interrupts, on any machine | `boot` |
| `BootProofs` | proofs about `Gdt` and `Boot` | |
| `MC*` | the small instances | |

In each module the operators named `...` + a bug (`SplitSwapped`, `StoreForgotten`, ...) stand
in front of the definition they vary. They are not part of the model; they are used to make
sure that each property notices a plausible bug.

### MemoryManager
`mem` maps word addresses to words. A header is the four words next, prev, allocated,
size; the space follows. That makes pointer arithmetic real: `malloc` returns header + 1
word, `free` looks 4 words below, and both read what is there. One action per iteration
of the search loop (`MallocSkip`, `MallocMatch`, `MallocFail`), one for each way out
(`MallocSplit`, `MallocWhole`); `free` is straight-line code and one action. Sizes are
whole words: the constants stand for the requests the kernel makes (14 bytes and more, all
at least three words). `heads` is an auxiliary variable, the addresses where a header was
built. RAM starts as zeros, as the emulators the kernel is run on deliver it. Only
the main thread allocates, so calls do not overlap.

In this module clients never write to their blocks. `HeapClients` adds the stores its two
callers really make, and there the header words do not survive: what `MemoryManager`'s
properties say is what the allocator does by itself.

Run `heap` (26 words, requests of 3, 5 and 9, three clients): 26 words hold splits, a
near fit and an exhausted heap, which is all the code distinguishes. `heap_clients` is a
finding, section 5.

### TaskManager and RoundRobin
Nothing in the repository calls `Schedule`: no handler is registered for the timer's 0x20.
Its caller is therefore an assumption (`GoOnWith`, external): at any moment, or never, it
hands `Schedule` the registers of the thread that runs, interrupts disabled, and goes on with
those that come back. The stub that exists, `int_bottom`, could not be that caller: it pushes
and pops another layout than `CPUState` (section 5). What is checked and proved is about
`AddTask` and `Schedule` under such a caller; that any task gets the processor at all is not
claimed, as nothing makes anyone call.

A `CPUState` is the thread it belongs to and how far that thread had got; `Run` lets the
running thread go on, so a lost or swapped state shows as a thread that jumps back. Tasks are added before interrupts
are enabled; a task may be added twice only if a caller does so, which the model allows,
and `MaxTasks` stands for 256. The refinement maps the array slots after `currentTask`,
then those before it, to the queue of `RoundRobin`, and a waiting task's work to its saved
registers. Three tasks in a table of three give an empty, partly full, full and refusing
table and a wrap-around at every length.
Fairness: none.

### InterruptManager
Actions follow an interrupt from the processor's acknowledge (`Take`) through the stub's
store to the global byte (`StubNumber`), the push (`StubCall`), dispatch, end of interrupt
and `Iret`. `ActivateInterrupts` of the main thread is taken apart at the stores and the
`cli`/`sti` that an interrupt can come between. The 8259s (external) are modelled by
requests, in-service bits, priorities and the non-specific end of interrupt, which is
what makes a wrong or missing one matter. `hit` records the two things that do break the
invariants - an NMI between the stub's store and the push, an interrupt between
Deactivate's two steps - so the properties say that nothing else does. `latest` remembers
which handler was constructed last for a number; `HandlersCurrent` compares the table with
it, in whatever order handlers of one number are built and destroyed.
Lines 1, 8 and 12 are one of the master's, the slave's first (its vector is the boundary
value 0x28) and the mouse's; two handlers share a number.
Fairness: the processor takes a request it may take; code that runs goes on. The number of
requests is bounded, so a low line that a high one keeps waiting for ever is not considered.

### AmdNic
Two contexts run `Send`: the main thread and, for a reply, the interrupt handler, which
may start between any two steps of the main thread and runs to its end. `Send` is split
where a handler in between changes the outcome: the read of `currentSendBuffer`, the
second read and the store of its increment, the copying loop (from the end of the frame to its
start, `CopyTail` and `CopyHead`), the store that sets OWN, selecting CSR0 and writing it. The
card (external) fills receive descriptors, misses frames, transmits and sets CSR0's bits
whenever it likes. `hit` names what breaks a promise:
*raced*, *overwritten*, *crowded*, *overlaid*, *late* (see the module). Checked with each of them
left out of the properties: every one of them does occur and is needed.

Both sets of buffers overlap (section 5), so each is one area. `sendArea` says whose bytes are in
its two halves; a reply that is sent between `CopyTail` and `CopyHead` of the main thread
overwrites the first and may be out before the second. `recvArea` is the frame that arrived last;
what `Deliver` hands over is that one, or a mixture, whatever frame the descriptor is for
(`Found`). A reply is copied out of the receive buffers, which the card may fill meanwhile
(`spoilt`, `Source`). Two halves are enough, as one wrong byte is as bad as another.

Assumptions: the driver object is not overwritten (the heap finding says it would be), and
the card uses the rings the constructor built (the initialisation block's layout says it
would not). With either defect nothing is received at all; the module is about the ring
code, which both leave untouched and which must be right once they are repaired.
The RawDataHandler is present and asks for a reply or not, at will. Frames fit in one
descriptor, as the code assumes at line 174. The increment of `currenRecvBuffer` and other
steps of the handler are not interrupted by anything that touches the driver.

Runs: `nic` has rings of three, so that backwards and forwards differ, two Sends and
three arrivals with replies: five frames for three descriptors. `nic_live` has rings of
two: four frames for two descriptors to send from, and a third arrival that is missed. Eight in the code is only larger.
Fairness: both contexts run on, a due interrupt is taken, the card transmits what it owns.
No fairness of arrivals.

### EtherArp
The main thread runs `Resolve`: a search of the cache, one action per iteration and per
way out (`LookupNext`, `LookupHit`, `LookupMiss`), the request, the second search. A frame
arrives between any two of these steps and is handled to its end in one action, as in the
card's interrupt: filter by address, handler table, `OnEtherFrameReceived`, and the frame
sent back. An entry and the count that covers it are stored in the handler and so become
visible together. Frames come from small sets: every sender, type, kind of message and
destination. The type is a pair of bytes on the wire, and a read swaps it; therefore in
this code it is the frames of type "0608" that reach ARP, and it is through them that its
handler is exercised. What a function returns that falls off its end is a choice.
`Send`'s heap block and the copying are left out (`HeapClients` has the block).

Two hosts with two cards, a cache of two, three frames, two resolutions: room for an
answer from each, for two different answers of one, and none for a third, which stands for
the 129th. The run `arp_dispatch` is a finding, section 5.
Fairness: the main thread runs on. Nothing is assumed about arrivals.

### Console
The kernel is compiled without optimisation, so a statement loads the static `x` and `y`
and stores them back: `y++` is two instructions, and `videoMemory[y*80+x] = ... | str[i]`
computes its address twice. The main thread is modelled at that grain, one label per load,
store or test; `row`, `col`, `loaded`, `value` are what it holds in registers. An interrupt
may come between any two labels; it prints what the dispatcher prints (`interrupts.cpp:48`)
and what its handler does, a character per step, and may move the cursor. A handler uses
`printfHex`'s literal `foo`, as the main thread may be doing. Cells hold a character and
whether their colours are swapped, which is how the cursor is drawn. A handler's character
is what is put (`Put`) and then the two tests (`Wrapped`, `Unfilled`).

What happens cannot all be good: `hit` records an interrupt that comes into the middle of
a character, between load and store of a cell, or into `printfHex`'s use of its literal,
each by the set of labels where it comes. The properties say that text and cursor are right
when none of these happened, and `OnScreen` that even then nothing is stored off the
screen. `shown` is the reference: a text with one position that counts cells, to which
`Show` adds each character when it is printed, by either context. It shares nothing with `x` and
`y`, their two tests or the two loops that clear the screen, except that clearing is the code's
`|= ' '` (`OrBlank`).

3 by 2 cells, a main thread that prints two strings and a number (a newline, a wrapped
line and a full screen occur), two interrupts of three kinds: everything the tests `x >= 80`
and `y >= 25` can meet. A larger screen only takes longer to fill.

### Input
One 8042 (external) with one output buffer for keyboard bytes, mouse bytes,
acknowledgements and its own answers; a configuration byte; two interrupt lines whose
rising edge the 8259 latches, so that a request can outlive its byte. `pc` walks the main
thread through `MouseDriver::Activate`, `KeyboardDriver::Activate` and `sti`. Keys are
pressed and the mouse moves at any time. Every read of the data port takes what is in the
buffer, or the last byte once more, as the hardware does.

Bytes carry where they come from and their place in a packet; the driver does not see this,
the properties do. `hit` names the reads that came before their answer: `config` (a byte
that is no answer was written back as the configuration), `ack`, `mouse` (a byte of a packet
taken by somebody else). All three occur. `typed` is what the keys print that the keyboard has
put out since its `Activate` drained the buffer, `printed` what the handler has printed of the
keyboard's bytes; `spurious` counts the keyboard interrupts that found another byte, each of
which prints the byte it found once more. Scan codes are 30, a letter, and 158, its
release; one first byte of a packet; the initial configuration 97 is
that of a BIOS: the keyboard and its interrupt on, the mouse's clock off.
Fairness: `WF(Activates)`, `WF(Handles)` - the main thread and interrupts run on; nothing
is assumed of the devices.

### Gdt and Boot
`Gdt` has a descriptor's fields, what the constructor stores - over whatever memory it
finds, as it does not store everything - and what is read back. `Boot` is `EntryPoint`, one
action per statement, as nothing interrupts it before `ActivateInterrupts`. The machine is a
board in each slot, a board a configuration header per function number; `PciRule` is what the
PCI standard says of the numbers a device does not have. The scan is one action per device
start and per function, with an outcome each: nothing there (`SkipFunction`), no driver for
it, `malloc` fails, a driver. Where the code reads what it has not initialised - a base
address register past the header's last, the address of a memory register, `portBase` - the
result is a choice. Cards keep to what the PCI standard says of them (`CardAssumption`): the
header of a network card is of type 0, and its interrupt register names one of the 16 lines or
none. The code tests neither; without the second, a card that said 128 would replace the
handler of the system calls. Handler numbers are computed where the code computes them: in the
gate (`interrupts.cpp:109-147`), in the stub, in each driver's constructor.

Run `boot`: two buses of two devices of three functions and five boards - none, a card
alone, a card that shows itself under every number, a bridge with two cards behind it, one
without an I/O register, a card on the mouse's line - in every combination; the smallest and
largest upper memory for which the heap is right, and one KiB less. Eight buses, 32 devices and
eight functions only repeat this, and `CardsAreFound` is proved for every number.

## 3. What the passing runs show

* `heap`: partition, first fit, no double hand-out of split blocks; every `malloc`
  returns; nothing is ever given back (`MarkedForever`).
* `tasks`: contexts kept, no task set back, refinement of `RoundRobin` - for whoever calls `Schedule`.
* `interrupts`: in-service bits match, right handler, the table names the last handler of
  each number while it lives and nothing afterwards, requests are taken.
* `nic`, `nic_live`: each filled descriptor handed over once and in order, with its own bytes;
  transmitted intact and in order; what is published goes out, what is received is delivered,
  the handler returns - each but for the cases its definition names.
* `arp`: the cache stays within its arrays however many answers come; an address that is
  returned is its first entry, whatever is entered during the search; an answer that
  was entered before the second search ended is found; an answer names us and goes to
  who asked; `Resolve` always returns (with the loop that is commented out at `arp.cpp:105`
  it would not).
* `console`: however `printf` is interrupted, it stores nothing off the screen (the row
  below it can be hit by a handler's first character only, and is memory that exists); the
  text is what was printed in the order in which it was; one cursor.
* `input`: packets stay in step with the mouse, every key is printed once and in order, the
  configuration is right and no byte stays in the buffer, unless a read without waiting took
  the wrong byte.
* `boot`: heap in memory and inside the segment; every card found once and in order; each
  line's gate leads to the driver that was added last for it, which is active and knows its
  port; the frame table is filled when interrupts start.

## 4. What is proved

`MemoryManagerProofs`, for every start, heap size, client set and requests of at least three
words (`StartAssumption`, `HeapSizeAssumption`, `RequestsAssumption`): the type invariant,
`Tiling`, `BackLinks`, `FirstFit`, `ExactBlocksDisjoint` and the action property
`MarkedForever`. None of them is inductive. The invariant `IInv` adds what the code never
states: only the last chunk of the list is ever unmarked (`OnlyLastFree`), because `free`
clears a word that is not a mark; so `malloc` always splits the last chunk, behind whose
header nothing was ever written (`Untouched`), and the words in which `free` looks for
prev and allocated are zero. `Separate`, `BlocksOwned` and `Working` tie chunks, blocks and
the call in progress together. `SplitLast` states field by field what a split writes,
`FreeWritesNothing` that free leaves memory as it was; each action has a lemma of its own.

`TaskManagerProofs`, for every set of tasks and table length: the type invariant,
`ContextsKept` and `NeverBack`. The invariant adds that before interrupts are on nothing
was scheduled.

In the same module, `Spec => ImplementsRoundRobin`. Under that invariant what a task has
done is what its saved registers say (`WorkIsAt`), so only the queue matters: `Waiting` is
a sequence whose i-th member is in the slot i places after the current one (`WaitingSeq`),
one lap of `%` is one subtraction (`ModOnce`), and a turn takes the head of the line and
puts the running task at its end (`LineSlots`, `ScheduleRefines`).

`EtherArpProofs`, for every set of addresses and cards and every cache length: the type
invariant, `ResolveFindsFirst`, `NothingMissed` and `AnswersGoToAsker`. The
invariant adds that a search has passed only entries of other addresses (`Passed`); the
crucial step is `EnterInv`, that an answer goes behind all entries and so disturbs
neither a search under way nor what an earlier one found.

`InterruptManagerProofs`, for every set of lines and handlers and every bound: the type
invariant, `InServiceMatches`, `RightHandler` and `HandlersCurrent`. The invariant says where
an interrupt is (`Where`: which of the processor's places go with which flag and byte), what
is in service there (`Service`: without a hit, exactly the line that is being handled, from
the acknowledge to the end of interrupt), and that a handler is only ever noted under the
number it was constructed for (`Own`). The crucial step is the end of interrupt: the
non-specific one clears the highest bit in service, which is the right one because nothing else
is.

`AmdNicProofs`, for rings of every length, any number of `Send`s and arrivals: the type
invariant, `DeliveredOnce`, `TransmittedIntact` and `SentInOrder`. For the receive side the
invariant says that the card fills each descriptor once, from the start of the ring
(`FilledOnce`), since `Receive` returns none; what has been passed holds no frame, and what is
still in the ring is newer than what was delivered, in the order of the ring
(`StillToDeliver`). Of the bytes it says that until a frame arrives over another there is at most
one descriptor to be handed over, and the receive buffers hold its frame (`InBuffers`). For the
send side, without a race or an overwritten descriptor:
`currentSendBuffer` is the number of claims modulo the ring (`Counted`); a context that claimed a
descriptor holds it for a frame that is not out yet, less than a lap behind the last claim
(`Held`); the card has sent all frames up to some number, and each later one is in its descriptor
or on its way there (`Pending`). The crucial facts are `LapApart`, that two frames
less than a lap apart fall on different descriptors, and that a claim of a descriptor still in
use is one of the two hits. `AreaIsOut` says that until two frames crowd each other, or one arrives
over another, the send buffers hold as much as was copied of the one that is on its way out, and
nothing else is being copied or is the card's.

`InputProofs`, for every configuration at boot, every set of scan codes and any number of keys
and packets: the type invariant, `InStep`, `Configured` and `KeysInOrder`. As long as each read
took the answer to its own command there is exactly one answer where one is to be read, in
the controller's queue or in the buffer, and none elsewhere (`AnswerDue`), and the configuration
at each place is the initial one with the bits changed so far (`ConfigSoFar`). `StepInv` has the
mouse's place in its packet run one byte ahead of the driver's just while a byte of it is in the
buffer. `SpuriousInv` bounds the interrupts that find no byte of their own: a request of
the keyboard's line is stale when its byte was read by the main thread, and each answer makes at
most one such. `KeysInv` says that what the handler has printed, and the byte in the buffer, is
what was typed.

`ConsoleProofs`, for every size of the screen, all calls of the main thread, everything an
interrupt may print and move and any number of interrupts: the type invariant, `OnScreen`,
`OneCursor` and `TextInOrder`. The invariant says at which labels `x` and `y` are within the
screen and that what was loaded from them still is when it is used (`Bounds`); a handler always prints (the
greeting and a number), and a printed character leaves both within the screen wherever they
were (`PrintedSettles`), so that an interrupt can only make `Bounds` truer. `Same` says that
without an interrupt between load and store of a cell the store goes where the load came
from, with the colours that are there; hence `OneCursor`. For the text, `Literal` says that
without an interrupt into its use the literal holds the digits of the number. `Registers` and
`Progress` say for each label, without an interrupt into a character, what the registers hold and
how far the screen is: the text is there and the next cell is `At(y, x)`, or the cell that this
will be once the statement is done (`Reached`; one past the last cell it stands for a screen that
is still to be cleared), or all cells before the one the loops are at have been cleared and
clearing the others is all that is missing (`ClearedTo`). `PrintedShows` is the same for a
handler's character, which nothing interrupts.

`BootProofs`, for every machine, stack and report of the loader. `DescriptorReadBack`: for
every base and every limit above 16 bits all fields fit, the base is read back and the limit
is that of the last page boundary, less one page. `HeapIsAddressable`: hence the heap of
`kernel.cpp:171` lies in memory and in the segment between 10250 and 65546 KiB. `CardsAreFound`:
`CardsFound` for every number of buses, devices and functions. The invariant is that the
cards found are those before the scan's position (`Past`); `NextInOrder` says that a step of
the three loops leaves no card between the old position and the new, `OnlyScanned` that
a card is never under a number that `DeviceHasFunctions` leaves out. The type invariant, and
`InterruptsReach`, for every machine that keeps to `CardAssumption`: `HandlersInv` has each number
but the system call's name the driver that was added last for it, since constructors register in
the order in which `AddDriver` is called; `PortsInv` that a driver of a card with an I/O register
knows its port (`PortBasesIs` writes out the six registers that the loop reads); `ChainInv`
follows the chain from `drivers[2]` to the frame table, statement by statement.

Assumptions on constants are those the modules name (`ASSUME`), and nothing else.

Only model-checked: the liveness properties (`MallocReturns` and the like), which the prover does
not reach, and what the three runs that end in a counterexample show. Every invariant and every
safety action property of a passing run is a theorem.

## 5. Disagreements between the code and what it says

Runs that end in a counterexample:

* `heap_clients`: `malloc` returns header + 4 where `free` expects header + 16; the first
  frame sent is allocated inside the network driver object.
* `nic_own`: `Receive` does not return descriptors to the card (`:199`); after eight
  frames the handler never ends.
* `arp_dispatch`: the handler table is filled under one byte order (`etherframe.cpp:11`)
  and read under the other (`:57`); no ARP frame reaches ARP.

In the models as cases that a property has to leave out:

* a chunk handed out whole is not marked (`MemoryManager.cpp:81`);
* the send buffers overlap, and so do the receive buffers, as their dimensions are swapped
  (`amd_am79973.h:77`, `:82`): of two frames that arrive before `Receive` looks, the second is
  handed over twice; a reply garbles the frame that is being copied;
* `Send` overwrites descriptors the card owns (`amd_am79C973.cpp:158`);
* `OnEtherFrameReceived` returns nothing for a response (`arp.cpp:61`);
* both `Activate`s read an answer without waiting for it (`mouse.cpp:64`, `:69`,
  `keyboard.cpp:180`);
* `drivers[2]` is used whether there is a card or not (`kernel.cpp:224`);
* the heap's size wraps below 10 MiB and passes the data segment above 64 MiB
  (`kernel.cpp:171`), the second on the machine of the Makefile;
* the table keeps one handler per line (`interrupts.cpp:18`).

Modelled as they are, and visible in the definitions: the screen is cleared with `|=`
(`kernel.cpp:67`, `OrBlank`), the cursor's sum is cut to 8 bits (`kernel.cpp:122`, `Int8`),
`&&` for `&` takes a page off every limit (`gdt.cpp:46`, `PageLimit`).

Found by reading, without a run: the initialisation block's 32-bit filter field, and
`CPUState` against the stub's frame (`multitasking.h:11-35`, `interruptsstubs.s:62-80`).

## 6. Not modelled, and the plan

Next, in order of weight:

1. More abstract specifications, and proofs that the modules implement them, as for
   `RoundRobin`: the send ring as a queue of claimed frames, the receive ring as a channel that
   may lose frames but not reorder them, the heap as an allocator of disjoint blocks.
2. `EtherArp` composed with the heap (the frame blocks that are never freed, the null
   pointer that `Send` does not test) and with `AmdNic`'s contexts.
3. A timer handler that calls `Schedule`, once the code has one, and with it that every task keeps
   getting the processor: `TaskManager` composed with `InterruptManager` and `Console`.

Left out for good: VGA and port I/O (single instructions), `pci_org.cpp` (not linked),
`boot.asm`, the wording of messages, timing; the system call handler and the two tasks'
loops, which nothing runs; `Write` of the PCI controller and `Reset` of the network driver,
which nothing calls; destructors of objects that live as long as the kernel; the driver
table's end at 255.
