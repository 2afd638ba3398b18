--------------------------- MODULE MemoryManager ---------------------------
(***************************************************************************)
(* The kernel heap: src/GubiOs/src/MemoryManager.cpp.                      *)
(*                                                                         *)
(* Memory is word granular (1 word = 4 bytes, a pointer): a MemoryChunk    *)
(* header is the four words next, prev, allocated, size, and the chunk's   *)
(* space follows it.  mem is the RAM itself, so a pointer that is off by   *)
(* some words reads and writes what really is there.  malloc is one action *)
(* per iteration of its search loop; free is straight-line code and one    *)
(* action.  Only the main thread calls either, so no two calls overlap.    *)
(***************************************************************************)
EXTENDS Integers, FiniteSets

CONSTANTS Start,      \* word address of the heap (kernel.cpp:168)
          HeapSize,   \* its length in words
          Client,     \* callers; each holds at most one block (a bound)
          Requests    \* the sizes they ask for, in words

\* A header is four words; malloc returns the header's address plus the size
\* of a pointer, free subtracts the size of a header.
HeaderSize == 4
PointerSize == 1

Null == 0
HeapEnd == Start + HeapSize

\* The words the heap code can reach: free looks up to HeaderSize -
\* PointerSize words below the first chunk.
Arena == (Start - (HeaderSize - PointerSize))..(HeapEnd - 1)

\* The heap lies above the lowest words of memory.
ASSUME StartAssumption == Start \in Nat /\ Start > HeaderSize
ASSUME HeapSizeAssumption == HeapSize \in Nat
\* Every caller of malloc asks for at least an Ethernet header
\* (etherframe.cpp:26) or a driver object (pci.cpp:213): 3 words or more.
ASSUME RequestsAssumption == \A n \in Requests : n \in Nat /\ n >= 3

VARIABLES mem,      \* RAM, word by word
          pc,       \* where malloc is: "idle", "search" or "found"
          caller,   \* who called malloc
          size,     \* malloc's parameter
          chunk,    \* malloc's local "chunk", the search cursor
          result,   \* malloc's local "result"
          block,    \* block[c]: what c holds, or NoBlock
          heads     \* auxiliary: the addresses at which a header was built

vars == <<mem, pc, caller, size, chunk, result, block, heads>>

NoBlock == [ptr |-> Null, len |-> 0, exact |-> FALSE]

\* The fields of the header at address c of memory m.  The code tests
\* "!allocated" on the byte 1 only (-O0), so any other word means free.
Next(m, c) == m[c]
Prev(m, c) == m[c + 1]
Allocated(m, c) == m[c + 2] = 1
Size(m, c) == m[c + 3]

\* The constructor: one free chunk, or none if not even a header fits.
First == IF HeapSize < HeaderSize THEN Null ELSE Start

\* "next->prev = p", guarded by "next != 0" wherever the code does it.
LinkBack(m, next, p) == IF next # Null THEN [m EXCEPT ![next + 1] = p] ELSE m

\* malloc's search condition.
Fits(m, c, n) == Size(m, c) > n /\ ~Allocated(m, c)

\* malloc's split condition: room for the request, a header and a byte more.
Splits(m, c, n) == Size(m, c) >= n + HeaderSize + 1

\* A bug Rest could have: the size of a pointer where that of a header belongs.
RestAfterPointer(c, n) == c + PointerSize + n

\* Where the split puts the header of the rest.
Rest(c, n) == c + HeaderSize + n

\* Bugs Split could have: the rest pays for both headers; the chunk is not
\* marked; the chunk's new next is stored before the old one is copied, which
\* closes the list into a cycle.
SplitHeaderTwice(m, c, n) ==
    LET p == Rest(c, n)
        rest == [m EXCEPT ![p] = Next(m, c), ![p + 1] = c, ![p + 2] = 0,
                          ![p + 3] = Size(m, c) - n - 2 * HeaderSize]
    IN  [LinkBack(rest, Next(m, c), p) EXCEPT ![c] = p, ![c + 2] = 1, ![c + 3] = n]

SplitUnmarked(m, c, n) ==
    LET p == Rest(c, n)
        rest == [m EXCEPT ![p] = Next(m, c), ![p + 1] = c,
                          ![p + 2] = 0, ![p + 3] = Size(m, c) - n - HeaderSize]
    IN  [LinkBack(rest, Next(m, c), p) EXCEPT ![c] = p, ![c + 3] = n]

SplitSwapped(m, c, n) ==
    LET p == Rest(c, n)
    IN  [m EXCEPT ![p] = p, ![p + 1] = c, ![p + 2] = 0,
                  ![p + 3] = Size(m, c) - n - HeaderSize,
                  ![c] = p, ![c + 2] = 1, ![c + 3] = n]

\* The writes of malloc's split, in the code's order.
Split(m, c, n) ==
    LET p == Rest(c, n)
        next == Next(m, c)
        rest == [m EXCEPT ![p] = next, ![p + 1] = c,
                          ![p + 2] = 0, ![p + 3] = Size(m, c) - n - HeaderSize]
        linked == LinkBack(rest, next, p)
    IN  [linked EXCEPT ![c] = p, ![c + 2] = 1, ![c + 3] = n]

\* A bug Free could have: it takes off what malloc added.
FreeOfHeader(m, ptr) == [m EXCEPT ![ptr - PointerSize + 2] = 0]

\* free: the header is looked for HeaderSize words below the pointer; two
\* merges follow, the second guarded (as in the code) by prev, not by next.
Free(m, ptr) ==
    LET c == ptr - HeaderSize
        m0 == [m EXCEPT ![c + 2] = 0]
        p == Prev(m0, c)
        back == p # Null /\ ~Allocated(m0, p)
        d == IF back THEN p ELSE c
        m1 == IF back
              THEN LinkBack([m0 EXCEPT ![p] = Next(m0, c),
                                       ![p + 3] = @ + Size(m0, c) + HeaderSize],
                            Next(m0, c), p)
              ELSE m0
        n == Next(m1, d)
    IN  IF Prev(m1, d) # Null /\ ~Allocated(m1, n)
        THEN LinkBack([m1 EXCEPT ![d] = Next(m1, n),
                                 ![d + 3] = @ + Size(m1, n) + HeaderSize],
                      Next(m1, n), d)
        ELSE m1

Init ==
    \* RAM below and inside the heap is zero at boot, as the emulators the
    \* kernel runs on deliver it.
    /\ mem = [a \in Arena |-> IF First # Null /\ a = Start + 3
                              THEN HeapSize - HeaderSize ELSE 0]
    /\ pc = "idle"
    /\ caller \in Client
    /\ size = 0
    /\ chunk = Null
    /\ result = Null
    /\ block = [c \in Client |-> NoBlock]
    /\ heads = IF First = Null THEN {} ELSE {First}

MallocCall(c, n) ==
    /\ pc = "idle"
    /\ block[c] = NoBlock
    /\ pc' = "search"
    /\ caller' = c
    /\ size' = n
    /\ chunk' = First
    /\ result' = Null
    /\ UNCHANGED <<mem, block, heads>>

\* A bug the search could have: an iteration that ignores a match.
MallocSkipMatch ==
    /\ pc = "search"
    /\ chunk # Null
    /\ chunk' = Next(mem, chunk)
    /\ UNCHANGED <<mem, pc, caller, size, result, block, heads>>

\* One iteration that does not match.
MallocSkip ==
    /\ pc = "search"
    /\ chunk # Null
    /\ ~Fits(mem, chunk, size)
    /\ chunk' = Next(mem, chunk)
    /\ UNCHANGED <<mem, pc, caller, size, result, block, heads>>

\* The iteration that matches; the loop's increment still runs.
MallocMatch ==
    /\ pc = "search"
    /\ chunk # Null
    /\ Fits(mem, chunk, size)
    /\ result' = chunk
    /\ chunk' = Next(mem, chunk)
    /\ pc' = "found"
    /\ UNCHANGED <<mem, caller, size, block, heads>>

\* The search reached the end: malloc returns 0.
MallocFail ==
    /\ pc = "search"
    /\ chunk = Null
    /\ pc' = "idle"
    /\ UNCHANGED <<mem, caller, size, chunk, result, block, heads>>

\* malloc splits the chunk it found and marks it allocated.
MallocSplit ==
    /\ pc = "found"
    /\ Splits(mem, result, size)
    /\ mem' = Split(mem, result, size)
    /\ heads' = heads \union {Rest(result, size)}
    /\ block' = [block EXCEPT ![caller] =
                    [ptr |-> result + PointerSize, len |-> size, exact |-> TRUE]]
    /\ pc' = "idle"
    /\ UNCHANGED <<caller, size, chunk, result>>

\* malloc hands the chunk out whole: nothing marks it allocated, the line
\* that would is commented out (MemoryManager.cpp:81).
MallocWhole ==
    /\ pc = "found"
    /\ ~Splits(mem, result, size)
    /\ block' = [block EXCEPT ![caller] =
                    [ptr |-> result + PointerSize, len |-> size, exact |-> FALSE]]
    /\ pc' = "idle"
    /\ UNCHANGED <<mem, caller, size, chunk, result, heads>>

FreeCall(c) ==
    /\ pc = "idle"
    /\ block[c] # NoBlock
    /\ mem' = Free(mem, block[c].ptr)
    /\ block' = [block EXCEPT ![c] = NoBlock]
    /\ UNCHANGED <<pc, caller, size, chunk, result, heads>>

\* What runs once malloc is called.
MallocStep == MallocSkip \/ MallocMatch \/ MallocFail \/ MallocSplit \/ MallocWhole

NextStep ==
    \/ \E c \in Client, n \in Requests : MallocCall(c, n)
    \/ MallocSkip
    \/ MallocMatch
    \/ MallocFail
    \/ MallocSplit
    \/ MallocWhole
    \/ \E c \in Client : FreeCall(c)

Spec == Init /\ [][NextStep]_vars

\* The thread that called malloc keeps running: no interrupt handler keeps
\* the processor forever and nothing else is scheduled.
FairSpec == Spec /\ WF_vars(MallocStep)
-----------------------------------------------------------------------------
(***************************************************************************)
(* What holds.                                                             *)
(***************************************************************************)

\* Every word of the heap is a natural number (no size ever goes below zero,
\* where size_t would wrap) and the cursor never leaves the list.
TypeOK ==
    /\ mem \in [Arena -> Nat]
    /\ pc \in {"idle", "search", "found"}
    /\ caller \in Client
    /\ size \in Nat
    /\ heads \subseteq Arena
    /\ chunk \in heads \union {Null}
    /\ result \in heads \union {Null}
    /\ block \in [Client -> [ptr : Nat, len : Nat, exact : BOOLEAN]]

\* The chunks tile the heap: each one ends exactly where its next begins, the
\* last where the heap ends, so no word is lost and none belongs to two.
Tiling ==
    /\ First # Null => First \in heads
    /\ \A c \in heads :
         LET end == c + HeaderSize + Size(mem, c)
         IN  IF Next(mem, c) = Null THEN end = HeapEnd
             ELSE Next(mem, c) = end /\ end \in heads

\* prev is the inverse of next: the code's backward merge would find the chunk
\* that precedes in memory.
BackLinks ==
    \A c \in heads :
        /\ Prev(mem, c) = Null <=> c = First
        /\ Next(mem, c) # Null => Prev(mem, Next(mem, c)) = c

\* malloc takes the lowest chunk that is big enough and unmarked, and gives up
\* only when there is none.
FirstFit ==
    LET Usable(c) == Size(mem, c) > size /\ ~Allocated(mem, c)
    IN  /\ pc = "search" =>
              \A c \in heads : (chunk = Null \/ c < chunk) => ~Usable(c)
        /\ pc = "found" =>
              /\ result \in heads /\ Usable(result)
              /\ \A c \in heads : c < result => ~Usable(c)

\* The words of the block b.
Words(b) == b.ptr .. b.ptr + b.len - 1

Overlap(c, d) ==
    /\ block[c] # NoBlock /\ block[d] # NoBlock
    /\ Words(block[c]) \intersect Words(block[d]) # {}

\* Two clients share a word only if one of them got a chunk whole: a block
\* that malloc split off is never handed out, or cut into, again.
ExactBlocksDisjoint ==
    \A c, d \in Client :
        c # d /\ Overlap(c, d) => ~block[c].exact \/ ~block[d].exact

\* A marked chunk stays marked, and as long as it is, whatever is allocated and
\* freed later: free looks for the header in the wrong place
\* (MemoryManager.cpp:96 against :90), so the heap never gets a block back.
MarkedForever ==
    [][\A c \in heads : Allocated(mem, c) =>
           Allocated(mem', c) /\ Size(mem', c) = Size(mem, c)]_vars

\* Every call of malloc returns.
MallocReturns == (pc # "idle") ~> (pc = "idle")
=============================================================================
