------------------------ MODULE MemoryManagerProofs ------------------------
(***************************************************************************)
(* Proofs about the heap, for every heap size, every set of clients and    *)
(* every set of requests of at least three words.                          *)
(*                                                                         *)
(* What makes the invariants inductive is a fact the code never states:    *)
(* because free never unmarks a chunk, only the last chunk of the list is  *)
(* unmarked, and nothing was ever written behind its header.  So malloc    *)
(* always splits the last chunk, and the three words below any header are  *)
(* still the zeros free reads as a header without a prev.                  *)
(***************************************************************************)
EXTENDS MemoryManager, TLAPS

\* Chunks lie inside the heap and do not overlap.
Separate ==
    /\ \A c \in heads : /\ c >= Start /\ c + HeaderSize <= HeapEnd
                        /\ c + HeaderSize + Size(mem, c) <= HeapEnd
    /\ \A c, d \in heads : c < d => c + HeaderSize + Size(mem, c) <= d

\* Only the last chunk is unmarked; the others hold a request.
OnlyLastFree ==
    \A c \in heads : IF Next(mem, c) = Null THEN ~Allocated(mem, c)
                     ELSE Allocated(mem, c) /\ Size(mem, c) >= 3

\* The words free takes for a header's prev and allocated are zero, and so is
\* all the space of the last chunk.
Untouched ==
    /\ \A c \in heads : mem[c - 1] = 0 /\ mem[c - 2] = 0
    /\ \A c \in heads : Next(mem, c) = Null =>
          \A a \in Arena : a >= c + HeaderSize => mem[a] = 0

\* A held block follows the header of a chunk; if malloc split it off, the
\* chunk is marked, has the block's size, and nobody else holds it.
BlocksOwned ==
    /\ \A k \in Client : block[k] # NoBlock =>
          /\ block[k].ptr - PointerSize \in heads
          /\ block[k].exact =>
               /\ Allocated(mem, block[k].ptr - PointerSize)
               /\ Size(mem, block[k].ptr - PointerSize) = block[k].len
    /\ \A k, l \in Client :
          k # l /\ block[k].exact /\ block[l].exact => block[k].ptr # block[l].ptr

\* A malloc in progress works for a client without a block.
Working == pc # "idle" => block[caller] = NoBlock /\ size \in Requests

IInv == /\ TypeOK /\ Tiling /\ BackLinks /\ FirstFit
        /\ Separate /\ OnlyLastFree /\ Untouched /\ BlocksOwned /\ Working

USE StartAssumption, HeapSizeAssumption, RequestsAssumption
    DEF HeaderSize, PointerSize, Null, HeapEnd, Next, Prev, Allocated, Size

\* What malloc's split of the last chunk c of m writes, field by field: a header
\* for the rest, the mark and the new size, and nothing else.
SplitWrites(m, c, n, t) ==
    LET p == c + 4 + n
    IN  /\ t \in [Arena -> Nat]
        /\ p \in Arena /\ p + 3 \in Arena
        /\ t[p] = 0 /\ t[p + 1] = c /\ t[p + 2] = 0
        /\ t[p + 3] = m[c + 3] - n - 4
        /\ t[c] = p /\ t[c + 1] = m[c + 1] /\ t[c + 2] = 1 /\ t[c + 3] = n
        /\ \A a \in Arena : a < c \/ a > p + 3 \/ (a > c + 3 /\ a < p)
                           => t[a] = m[a]

LEMMA SplitLast ==
    ASSUME NEW m \in [Arena -> Nat], NEW c \in Arena, NEW n \in Nat,
           c >= Start, c + 3 \in Arena, m[c] = 0, m[c + 3] >= n + 5,
           c + 4 + m[c + 3] <= HeapEnd
    PROVE  SplitWrites(m, c, n, Split(m, c, n))
<1> DEFINE p == c + 4 + n
<1>1. /\ c \in Nat /\ p \in Nat /\ p >= c + 4 /\ m[c + 3] \in Nat
      /\ c + 1 \in Arena /\ c + 2 \in Arena /\ c + 3 \in Arena
      /\ p \in Arena /\ p + 1 \in Arena /\ p + 2 \in Arena /\ p + 3 \in Arena
  BY DEF Arena
<1> DEFINE rest == [m EXCEPT ![p] = 0, ![p + 1] = c, ![p + 2] = 0,
                             ![p + 3] = m[c + 3] - n - 4]
           s == [rest EXCEPT ![c] = p, ![c + 2] = 1, ![c + 3] = n]
<1>2. Split(m, c, n) = s
  BY DEF Split, Rest, LinkBack
<1>3. m[c + 3] - n - 4 \in Nat
  BY <1>1
<1>4. rest \in [Arena -> Nat]
  BY <1>1, <1>3
<1>5. s \in [Arena -> Nat]
  BY <1>1, <1>4
<1>6. /\ rest[p] = 0 /\ rest[p + 1] = c /\ rest[p + 2] = 0
      /\ rest[p + 3] = m[c + 3] - n - 4
      /\ \A a \in Arena : a < p \/ a > p + 3 => rest[a] = m[a]
  BY SMTT(30), <1>1 DEF Arena
<1> HIDE DEF rest
<1>7. /\ s[c] = p /\ s[c + 2] = 1 /\ s[c + 3] = n
      /\ \A a \in Arena : a # c /\ a # c + 2 /\ a # c + 3 => s[a] = rest[a]
  BY <1>1, <1>4 DEF Arena
<1> HIDE DEF s
<1>8. /\ s[p] = 0 /\ s[p + 1] = c /\ s[p + 2] = 0
      /\ s[p + 3] = m[c + 3] - n - 4 /\ s[c + 1] = m[c + 1]
  BY <1>1, <1>6, <1>7
<1>9. \A a \in Arena : a < c \/ a > p + 3 \/ (a > c + 3 /\ a < p) => s[a] = m[a]
  <2> SUFFICES ASSUME NEW a \in Arena,
                      a < c \/ a > p + 3 \/ (a > c + 3 /\ a < p)
               PROVE  s[a] = m[a]
    OBVIOUS
  <2>1. a # c /\ a # c + 2 /\ a # c + 3 /\ (a < p \/ a > p + 3)
    BY <1>1 DEF Arena
  <2> QED
    BY <1>6, <1>7, <2>1
<1> QED
  BY <1>1, <1>2, <1>5, <1>7, <1>8, <1>9 DEF SplitWrites

\* free of any held block writes back what is there: the byte it clears lies
\* below the chunk's header, where no one wrote.
LEMMA FreeWritesNothing ==
    ASSUME TypeOK, Separate, Untouched, BlocksOwned,
           NEW k \in Client, block[k] # NoBlock
    PROVE  Free(mem, block[k].ptr) = mem
<1> DEFINE h == block[k].ptr - 1
           c == block[k].ptr - 4
<1>0. /\ block[k].ptr \in Nat /\ h \in heads
      /\ heads \subseteq Arena /\ mem \in [Arena -> Nat]
  BY DEF TypeOK, BlocksOwned
<1>1. h \in Nat /\ h >= Start /\ h + 4 <= HeapEnd
  <2> HIDE DEF h
  <2>1. h >= Start /\ h + 4 <= HeapEnd
    BY <1>0 DEF Separate
  <2>2. h \in Int
    BY <1>0 DEF Arena
  <2> QED BY <2>1, <2>2
<1>2. mem[c + 2] = 0 /\ mem[c + 1] = 0
  <2>1. mem[h - 1] = 0 /\ mem[h - 2] = 0
    BY <1>0 DEF Untouched
  <2>2. h - 1 = c + 2 /\ h - 2 = c + 1
    BY <1>0
  <2> QED BY <2>1, <2>2
<1>3. c + 2 \in Arena
  <2>1. c + 2 \in Int /\ c + 2 >= Start - 3 /\ c + 2 <= Start + HeapSize - 1
    BY <1>0, <1>1
  <2> QED BY <2>1 DEF Arena
<1>4. [mem EXCEPT ![c + 2] = 0] = mem
  BY <1>0, <1>2, <1>3
<1> QED
  BY <1>2, <1>4 DEF Free

\* What a header's address is worth.
LEMMA HeadFacts ==
    ASSUME TypeOK, Separate, NEW c \in heads
    PROVE  /\ c \in Nat /\ c \in Arena /\ c + 1 \in Arena
           /\ c + 2 \in Arena /\ c + 3 \in Arena
           /\ mem[c] \in Nat /\ mem[c + 3] \in Nat
           /\ c >= Start /\ c + 4 + mem[c + 3] <= HeapEnd
<1>1. /\ c \in Arena /\ mem \in [Arena -> Nat]
      /\ c >= Start /\ c + 4 <= HeapEnd /\ c + 4 + mem[c + 3] <= HeapEnd
  BY DEF TypeOK, Separate
<1>2. /\ c \in Nat /\ c + 1 \in Arena /\ c + 2 \in Arena /\ c + 3 \in Arena
  BY <1>1 DEF Arena
<1> QED
  BY <1>1, <1>2

LEMMA InitInv == Init => IInv
<1> SUFFICES ASSUME Init PROVE IInv
  OBVIOUS
<1>1. CASE HeapSize < 4
  <2>1. First = 0 /\ heads = {}
    BY <1>1 DEF Init, First
  <2>2. mem \in [Arena -> Nat]
    BY <2>1 DEF Init
  <2>3. TypeOK
    BY <2>1, <2>2 DEF TypeOK, Init, NoBlock
  <2> QED
    BY <2>1, <2>3 DEF IInv, Init, Tiling, BackLinks, FirstFit, Separate,
       OnlyLastFree, Untouched, BlocksOwned, Working, NoBlock
<1>2. CASE HeapSize >= 4
  <2>1. First = Start /\ heads = {Start} /\ Start # 0
    BY <1>2 DEF Init, First
  <2>2. /\ Start \in Arena /\ Start + 1 \in Arena /\ Start + 2 \in Arena
        /\ Start + 3 \in Arena /\ Start - 1 \in Arena /\ Start - 2 \in Arena
    BY <1>2 DEF Arena
  <2>3. mem = [a \in Arena |-> IF a = Start + 3 THEN HeapSize - 4 ELSE 0]
    BY <2>1 DEF Init
  <2>4. mem \in [Arena -> Nat]
    BY <1>2, <2>3
  <2>5. /\ mem[Start] = 0 /\ mem[Start + 1] = 0 /\ mem[Start + 2] = 0
        /\ mem[Start + 3] = HeapSize - 4 /\ mem[Start - 1] = 0 /\ mem[Start - 2] = 0
    BY <2>2, <2>3
  <2>6. TypeOK
    BY <2>1, <2>2, <2>4 DEF TypeOK, Init, NoBlock
  <2>7. Tiling /\ BackLinks /\ FirstFit /\ Separate /\ OnlyLastFree
    BY <1>2, <2>1, <2>5 DEF Init, Tiling, BackLinks, FirstFit, Separate, OnlyLastFree
  <2>8. Untouched
    <3>1. \A a \in Arena : a >= Start + 4 => mem[a] = 0
      BY <2>3
    <3> QED
      BY <2>1, <2>5, <3>1 DEF Untouched
  <2>9. BlocksOwned /\ Working
    BY DEF Init, BlocksOwned, Working, NoBlock
  <2> QED
    BY <2>6, <2>7, <2>8, <2>9 DEF IInv
<1> QED
  BY <1>1, <1>2

\* malloc's search visits the chunks in address order, so what it has passed
\* is everything below the cursor.
LEMMA SkipInv == IInv /\ MallocSkip => IInv'
<1> SUFFICES ASSUME IInv, MallocSkip PROVE IInv'
  OBVIOUS
<1> USE DEF IInv
<1>1. chunk \in heads /\ chunk' = mem[chunk] /\ chunk' \in heads \union {0}
  BY DEF MallocSkip, TypeOK, Tiling
<1>2. UNCHANGED <<mem, pc, caller, size, result, block, heads>> /\ pc = "search"
  BY DEF MallocSkip
<1>3. TypeOK'
  BY <1>1, <1>2 DEF TypeOK, Arena
<1>4. FirstFit'
  <2> SUFFICES ASSUME NEW c \in heads, mem[chunk] = 0 \/ c < mem[chunk]
               PROVE  ~(mem[c + 3] > size /\ mem[c + 2] # 1)
    BY <1>1, <1>2 DEF FirstFit
  <2>1. CASE c = chunk
    BY <2>1 DEF MallocSkip, Fits
  <2>2. CASE c < chunk
    BY <1>2, <2>2 DEF FirstFit
  <2>3. CASE c > chunk
    <3>1. chunk + 4 + mem[chunk + 3] <= c
      BY <1>1, <2>3 DEF Separate
    <3>2. /\ mem[chunk] = 0 => chunk + 4 + mem[chunk + 3] = HeapEnd
          /\ mem[chunk] # 0 => chunk + 4 + mem[chunk + 3] = mem[chunk]
      BY <1>1 DEF Tiling
    <3>3. /\ c \in Nat /\ c + 4 <= HeapEnd
          /\ mem[chunk] \in Nat /\ chunk \in Nat /\ mem[chunk + 3] \in Nat
      BY <1>1, HeadFacts DEF Separate
    <3> QED
      BY <3>1, <3>2, <3>3
  <2>4. c \in Nat /\ chunk \in Nat
    BY <1>1, HeadFacts
  <2> QED
    BY <2>1, <2>2, <2>3, <2>4
<1>5. (Tiling /\ BackLinks /\ Separate /\ OnlyLastFree /\ Untouched
        /\ BlocksOwned /\ Working)'
  BY <1>2 DEF Tiling, BackLinks, Separate, OnlyLastFree, Untouched, BlocksOwned, Working
<1> QED
  BY <1>3, <1>4, <1>5

LEMMA CallInv ==
    ASSUME IInv, NEW c \in Client, NEW n \in Requests, MallocCall(c, n)
    PROVE  IInv'
<1> USE DEF IInv
<1>1. /\ UNCHANGED <<mem, block, heads>> /\ pc' = "search" /\ caller' = c
      /\ size' = n /\ chunk' = First /\ result' = 0 /\ block[c] = NoBlock
  BY DEF MallocCall
<1>2. First = 0 => heads = {}
  <2> SUFFICES ASSUME First = 0, NEW h \in heads PROVE FALSE
    OBVIOUS
  <2>1. HeapSize < 4
    BY DEF First
  <2>2. h \in Nat /\ h >= Start /\ h + 4 <= Start + HeapSize
    BY HeadFacts DEF Separate
  <2> QED
    BY <2>1, <2>2
<1>3. First \in heads \union {0} /\ \A h \in heads : ~(h < First)
  <2>1. First \in heads \union {0}
    BY DEF Tiling
  <2>2. \A h \in heads : h \in Nat /\ h >= Start
    BY HeadFacts
  <2> QED
    BY <1>2, <2>1, <2>2 DEF First
<1>4. TypeOK' /\ FirstFit'
  BY <1>1, <1>2, <1>3 DEF TypeOK, FirstFit, Arena
<1>5. (Tiling /\ BackLinks /\ Separate /\ OnlyLastFree /\ Untouched
        /\ BlocksOwned /\ Working)'
  BY <1>1 DEF Tiling, BackLinks, Separate, OnlyLastFree, Untouched, BlocksOwned, Working
<1> QED
  BY <1>4, <1>5

LEMMA MatchInv == IInv /\ MallocMatch => IInv'
<1> SUFFICES ASSUME IInv, MallocMatch PROVE IInv'
  OBVIOUS
<1> USE DEF IInv
<1>1. /\ UNCHANGED <<mem, caller, size, block, heads>> /\ pc = "search"
      /\ pc' = "found" /\ result' = chunk /\ chunk' = mem[chunk]
      /\ chunk \in heads /\ mem[chunk] \in heads \union {0}
  BY DEF MallocMatch, TypeOK, Tiling
<1>2. TypeOK'
  BY <1>1 DEF TypeOK, Arena
<1>3. FirstFit'
  BY <1>1 DEF FirstFit, MallocMatch, Fits
<1>4. (Tiling /\ BackLinks /\ Separate /\ OnlyLastFree /\ Untouched
        /\ BlocksOwned /\ Working)'
  BY <1>1 DEF Tiling, BackLinks, Separate, OnlyLastFree, Untouched, BlocksOwned, Working
<1> QED
  BY <1>2, <1>3, <1>4

LEMMA FailInv == IInv /\ MallocFail => IInv'
  BY DEF IInv, MallocFail, TypeOK, Tiling, BackLinks, FirstFit, Separate,
     OnlyLastFree, Untouched, BlocksOwned, Working, Arena

\* A chunk handed out whole is the last one, which stays unmarked.
LEMMA WholeInv == IInv /\ MallocWhole => IInv'
<1> SUFFICES ASSUME IInv, MallocWhole PROVE IInv'
  OBVIOUS
<1> USE DEF IInv
<1>1. /\ UNCHANGED <<mem, caller, size, chunk, result, heads>>
      /\ pc = "found" /\ pc' = "idle" /\ result \in heads /\ size \in Nat
      /\ block' = [block EXCEPT ![caller] =
                      [ptr |-> result + 1, len |-> size, exact |-> FALSE]]
      /\ caller \in Client
  BY DEF MallocWhole, FirstFit, TypeOK
<1>2. result \in Nat
  BY <1>1, HeadFacts
<1>3. TypeOK'
  BY <1>1, <1>2 DEF TypeOK
<1>4. (Tiling /\ BackLinks /\ FirstFit /\ Separate /\ OnlyLastFree /\ Untouched
        /\ Working)'
  BY <1>1 DEF Tiling, BackLinks, FirstFit, Separate, OnlyLastFree, Untouched, Working
<1>5. BlocksOwned'
  <2>1. ~block'[caller].exact /\ block'[caller].ptr - 1 = result
    BY <1>1, <1>2 DEF TypeOK
  <2>2. \A k \in Client \ {caller} : block'[k] = block[k]
    BY <1>1 DEF TypeOK
  <2> QED
    BY <1>1, <2>1, <2>2 DEF BlocksOwned, NoBlock
<1> QED
  BY <1>3, <1>4, <1>5

LEMMA FreeInv == ASSUME IInv, NEW c \in Client, FreeCall(c) PROVE IInv'
<1> USE DEF IInv
<1>1. /\ mem' = mem /\ UNCHANGED <<pc, caller, size, chunk, result, heads>>
      /\ pc = "idle" /\ block' = [block EXCEPT ![c] = NoBlock]
  BY FreeWritesNothing DEF FreeCall
<1>2. TypeOK'
  BY <1>1 DEF TypeOK, NoBlock
<1>3. (Tiling /\ BackLinks /\ FirstFit /\ Separate /\ OnlyLastFree /\ Untouched
        /\ Working)'
  BY <1>1 DEF Tiling, BackLinks, FirstFit, Separate, OnlyLastFree, Untouched, Working
<1>4. BlocksOwned'
  BY <1>1 DEF BlocksOwned, TypeOK, NoBlock
<1> QED
  BY <1>2, <1>3, <1>4

\* The chunk malloc splits is the last one; the others end below it and keep
\* every word of their headers.
SplitFactsHold(r, p) ==
    /\ r \in heads /\ r \in Nat /\ size \in Nat /\ size >= 3
    /\ mem[r] = 0 /\ mem[r + 2] # 1 /\ r + 4 + mem[r + 3] = HeapEnd
    /\ mem[r + 3] \in Nat /\ mem[r + 3] >= size + 5
    /\ p \in Nat /\ p \in Arena /\ p + 3 \in Arena /\ p \notin heads
    /\ heads' = heads \union {p}
    /\ mem' \in [Arena -> Nat]
    /\ mem'[p] = 0 /\ mem'[p + 1] = r /\ mem'[p + 2] = 0
    /\ mem'[p + 3] = mem[r + 3] - size - 4
    /\ mem'[r] = p /\ mem'[r + 1] = mem[r + 1]
    /\ mem'[r + 2] = 1 /\ mem'[r + 3] = size
    /\ \A a \in Arena : a < r \/ a > p + 3 \/ (a > r + 3 /\ a < p)
                       => mem'[a] = mem[a]
    /\ \A c \in heads \ {r} :
         /\ c \in Nat /\ c < r /\ c + 4 + mem[c + 3] <= r
         /\ mem'[c] = mem[c] /\ mem'[c + 1] = mem[c + 1]
         /\ mem'[c + 2] = mem[c + 2] /\ mem'[c + 3] = mem[c + 3]

LEMMA SplitFacts ==
    ASSUME IInv, MallocSplit
    PROVE  SplitFactsHold(result, result + 4 + size)
<1> DEFINE r == result
           p == r + 4 + size
<1> USE DEF IInv
<1>1. r \in heads /\ mem[r + 2] # 1 /\ size \in Nat /\ size >= 3
  BY DEF MallocSplit, FirstFit, Working
<1>2. mem[r] = 0 /\ r + 4 + mem[r + 3] = HeapEnd /\ mem[r + 3] >= size + 5
  BY <1>1 DEF OnlyLastFree, Tiling, MallocSplit, Splits
<1>3. /\ r \in Nat /\ r \in Arena /\ r + 3 \in Arena /\ r >= Start
      /\ mem[r + 3] \in Nat /\ mem \in [Arena -> Nat]
  BY <1>1, HeadFacts DEF TypeOK
<1>4. mem' = Split(mem, r, size) /\ heads' = heads \union {p}
  BY DEF MallocSplit, Rest
<1>5. /\ mem' \in [Arena -> Nat] /\ p \in Arena /\ p + 3 \in Arena
      /\ mem'[p] = 0 /\ mem'[p + 1] = r /\ mem'[p + 2] = 0
      /\ mem'[p + 3] = mem[r + 3] - size - 4
      /\ mem'[r] = p /\ mem'[r + 1] = mem[r + 1]
      /\ mem'[r + 2] = 1 /\ mem'[r + 3] = size
      /\ \A a \in Arena : a < r \/ a > p + 3 \/ (a > r + 3 /\ a < p)
                                  => mem'[a] = mem[a]
  <2>1. r + 4 + mem[r + 3] <= HeapEnd
    BY <1>2, <1>3
  <2>2. SplitWrites(mem, r, size, Split(mem, r, size))
    BY <1>1, <1>2, <1>3, <2>1, SplitLast
  <2> QED
    BY <1>4, <2>2 DEF SplitWrites
<1>6. ASSUME NEW c \in heads \ {r}
      PROVE  /\ c \in Nat /\ c < r /\ c + 4 + mem[c + 3] <= r
             /\ mem'[c] = mem[c] /\ mem'[c + 1] = mem[c + 1]
             /\ mem'[c + 2] = mem[c + 2] /\ mem'[c + 3] = mem[c + 3]
  <2>1. /\ c \in Nat /\ mem[c + 3] \in Nat /\ c + 4 + mem[c + 3] <= HeapEnd
        /\ c \in Arena /\ c + 1 \in Arena /\ c + 2 \in Arena /\ c + 3 \in Arena
    BY HeadFacts
  <2>2. c < r \/ r < c
    BY <1>3, <2>1
  <2>3. r < c => r + 4 + mem[r + 3] <= c
    BY <1>1 DEF Separate
  <2>4. c < r
    BY <1>2, <1>3, <2>1, <2>2, <2>3
  <2>5. c + 4 + mem[c + 3] <= r
    BY <1>1, <2>4 DEF Separate
  <2>6. c + 1 < r /\ c + 2 < r /\ c + 3 < r
    BY <1>3, <2>1, <2>5
  <2> QED
    BY <1>5, <2>1, <2>4, <2>5, <2>6
<1>7. p \in Nat /\ p \notin heads
  <2>1. p \in Nat /\ p > r
    BY <1>1, <1>3
  <2> QED
    BY <1>3, <1>6, <2>1
<1> HIDE DEF r, p
<1> QED
  BY <1>1, <1>2, <1>3, <1>4, <1>5, <1>6, <1>7 DEF r, p, SplitFactsHold

LEMMA SplitInv == IInv /\ MallocSplit => IInv'
<1> SUFFICES ASSUME IInv, MallocSplit PROVE IInv'
  OBVIOUS
<1> DEFINE r == result
           p == r + 4 + size
<1>0. SplitFactsHold(r, p)
  BY SplitFacts
<1>1. /\ UNCHANGED <<caller, size, chunk, result>> /\ pc = "found" /\ pc' = "idle"
      /\ block' = [block EXCEPT ![caller] =
                      [ptr |-> r + 1, len |-> size, exact |-> TRUE]]
      /\ caller \in Client /\ block[caller] = NoBlock
  BY DEF MallocSplit, IInv, TypeOK, Working
<1>2. /\ ~block[caller].exact /\ block \in [Client -> [ptr : Nat, len : Nat, exact : BOOLEAN]]
      /\ heads \subseteq Arena /\ chunk \in heads \union {0} /\ result \in heads
  BY <1>1 DEF SplitFactsHold, IInv, TypeOK, NoBlock, FirstFit
<1> HIDE DEF r, p
<1>3. r = result /\ p = r + 4 + size
  BY DEF r, p
<1>4. TypeOK'
  <2>1. block' \in [Client -> [ptr : Nat, len : Nat, exact : BOOLEAN]]
    BY <1>0, <1>1, <1>2 DEF SplitFactsHold
  <2>2. /\ mem' \in [Arena -> Nat] /\ heads' \subseteq Arena /\ heads \subseteq heads'
        /\ size' \in Nat
    BY <1>0, <1>1, <1>2 DEF SplitFactsHold
  <2> QED
    BY <1>1, <1>2, <2>1, <2>2 DEF TypeOK, Arena
<1>5. Tiling'
  <2>1. First # 0 => First \in heads'
    BY <1>0 DEF SplitFactsHold, IInv, Tiling
  <2>2. ASSUME NEW c \in heads'
        PROVE  LET end == c + 4 + mem'[c + 3]
               IN  IF mem'[c] = 0 THEN end = HeapEnd
                   ELSE mem'[c] = end /\ end \in heads'
    <3>1. CASE c = p
      BY <1>0, <1>3, <3>1, HeadFacts DEF SplitFactsHold, IInv
    <3>2. CASE c = r
      BY <1>0, <1>3, <3>2 DEF SplitFactsHold
    <3>3. CASE c \in heads \ {r}
      <4>1. mem'[c] = mem[c] /\ mem'[c + 3] = mem[c + 3] /\ c \in heads
        BY <1>0, <3>3 DEF SplitFactsHold
      <4> QED
        BY <1>0, <4>1 DEF SplitFactsHold, IInv, Tiling
    <3> QED
      BY <1>0, <3>1, <3>2, <3>3 DEF SplitFactsHold
  <2> QED
    BY <2>1, <2>2 DEF Tiling
<1>6. BackLinks'
  <2>1. \A c \in heads' \ {p, r} : /\ mem'[c] = mem[c] /\ mem'[c + 1] = mem[c + 1]
                                   /\ c \in heads /\ c < r /\ c \in Nat
    BY <1>0 DEF SplitFactsHold
  <2>2. ASSUME NEW c \in heads'
        PROVE  /\ mem'[c + 1] = 0 <=> c = First
               /\ mem'[c] # 0 => mem'[mem'[c] + 1] = c
    <3>1. CASE c = p
      <4>1. mem'[c + 1] = r /\ r # 0 /\ mem'[c] = 0 /\ p # First
        BY <1>0, <1>3, <3>1, HeadFacts DEF SplitFactsHold, IInv, First
      <4> QED
        BY <3>1, <4>1
    <3>2. CASE c = r
      BY <1>0, <3>2 DEF SplitFactsHold, IInv, BackLinks
    <3>3. CASE c \in heads' \ {p, r}
      <4>1. mem'[c] = mem[c] /\ mem'[c + 1] = mem[c + 1] /\ c \in heads
        BY <2>1, <3>3
      <4>2. mem[c] # 0 => mem[mem[c] + 1] = c /\ mem[c] \in heads
        BY <4>1 DEF IInv, BackLinks, Tiling
      <4>3. ASSUME NEW d \in heads PROVE mem'[d + 1] = mem[d + 1]
        BY <1>0 DEF SplitFactsHold
      <4> QED
        BY <4>1, <4>2, <4>3 DEF IInv, BackLinks
    <3> QED
      BY <2>2, <3>1, <3>2, <3>3
  <2> QED
    BY <2>2 DEF BackLinks
<1>7. FirstFit'
  BY <1>1 DEF FirstFit
<1>8. Separate'
  <2>1. \A c \in heads' : /\ c \in Nat /\ c >= Start /\ c + 4 <= HeapEnd
                          /\ c + 4 + mem'[c + 3] <= HeapEnd
    BY <1>0, <1>3, HeadFacts DEF SplitFactsHold, IInv, Separate
  <2>2. ASSUME NEW c \in heads', NEW d \in heads', c < d
        PROVE  c + 4 + mem'[c + 3] <= d
    <3>1. CASE d = p /\ c = r
      BY <1>0, <1>3, <3>1 DEF SplitFactsHold
    <3>2. CASE d = p /\ c \in heads \ {r}
      BY <1>0, <1>3, <3>2, HeadFacts DEF SplitFactsHold, IInv
    <3>3. CASE d = r \/ d \in heads \ {r}
      <4>1. c \in heads \ {r} /\ d \in heads
        BY <1>0, <1>3, <2>2, <3>3, HeadFacts DEF SplitFactsHold, IInv
      <4> QED
        BY <1>0, <2>2, <4>1 DEF SplitFactsHold, IInv, Separate
    <3> QED
      BY <1>0, <2>2, <3>1, <3>2, <3>3 DEF SplitFactsHold
  <2> QED
    BY <2>1, <2>2 DEF Separate
<1>9. OnlyLastFree'
  BY <1>0, <1>3 DEF SplitFactsHold, IInv, OnlyLastFree
<1>10. Untouched'
  <2>1. ASSUME NEW c \in heads' PROVE mem'[c - 1] = 0 /\ mem'[c - 2] = 0
    <3>1. CASE c = p
      <4>1. /\ c - 1 \in Arena /\ c - 2 \in Arena
            /\ c - 1 > r + 3 /\ c - 1 < p /\ c - 2 > r + 3 /\ c - 2 < p
        BY <1>0, <1>3, <3>1, HeadFacts DEF SplitFactsHold, IInv, Arena
      <4>2. mem[c - 1] = 0 /\ mem[c - 2] = 0
        BY <1>0, <4>1 DEF SplitFactsHold, IInv, Untouched
      <4> QED
        BY <1>0, <4>1, <4>2 DEF SplitFactsHold
    <3>2. CASE c \in heads
      <4>1. c <= r /\ c \in Nat /\ c >= Start /\ c + 4 <= HeapEnd
        BY <1>0, <3>2, HeadFacts DEF SplitFactsHold, IInv, Separate
      <4>2. c - 1 \in Arena /\ c - 2 \in Arena /\ c - 1 < r /\ c - 2 < r
        BY <1>0, <4>1 DEF SplitFactsHold, Arena
      <4> QED
        BY <1>0, <3>2, <4>2 DEF SplitFactsHold, IInv, Untouched
    <3> QED
      BY <1>0, <3>1, <3>2 DEF SplitFactsHold
  <2>2. ASSUME NEW c \in heads', mem'[c] = 0, NEW a \in Arena, a >= c + 4
        PROVE  mem'[a] = 0
    <3>1. c = p
      <4>1. p # 0 /\ c # r
        BY <1>0, <1>3, <2>2, HeadFacts DEF SplitFactsHold, IInv
      <4>2. ASSUME c \in heads \ {r} PROVE FALSE
        BY <1>0, <2>2, <4>2, HeadFacts DEF SplitFactsHold, IInv, Tiling
      <4> QED
        BY <1>0, <4>1, <4>2 DEF SplitFactsHold
    <3>2. a > p + 3 /\ a >= r + 4
      BY <1>0, <1>3, <2>2, <3>1 DEF SplitFactsHold, Arena
    <3> QED
      BY <1>0, <3>2 DEF SplitFactsHold, IInv, Untouched
  <2> QED
    BY <2>1, <2>2 DEF Untouched
<1>11. BlocksOwned'
  <2>1. /\ block'[caller].exact /\ block'[caller].ptr = r + 1
        /\ block'[caller].len = size
        /\ \A k \in Client \ {caller} : block'[k] = block[k]
    BY <1>1, <1>2
  <2>2. ASSUME NEW k \in Client, block'[k] # NoBlock
        PROVE  /\ block'[k].ptr - 1 \in heads'
               /\ block'[k].exact => /\ mem'[block'[k].ptr - 1 + 2] = 1
                                     /\ mem'[block'[k].ptr - 1 + 3] = block'[k].len
    <3>1. CASE k = caller
      BY <1>0, <2>1, <3>1 DEF SplitFactsHold
    <3>2. CASE k # caller
      <4> DEFINE h == block[k].ptr - 1
      <4>1. /\ block'[k] = block[k] /\ h \in heads
            /\ block[k].exact => mem[h + 2] = 1 /\ mem[h + 3] = block[k].len
        BY <2>1, <2>2, <3>2 DEF IInv, BlocksOwned
      <4> HIDE DEF h
      <4>2. block[k].exact => h # r
        BY <1>0, <4>1 DEF SplitFactsHold
      <4>3. /\ h \in heads'
            /\ block[k].exact => mem'[h + 2] = 1 /\ mem'[h + 3] = block[k].len
        BY <1>0, <4>1, <4>2 DEF SplitFactsHold
      <4> QED
        BY <4>1, <4>3 DEF h
    <3> QED
      BY <3>1, <3>2
  <2>3. ASSUME NEW k \in Client \ {caller}, block[k].exact
        PROVE  block[k].ptr # r + 1
    <3>1. block[k] # NoBlock
      BY <2>3 DEF NoBlock
    <3>2. mem[block[k].ptr - 1 + 2] = 1
      BY <2>3, <3>1 DEF IInv, BlocksOwned
    <3> QED
      BY <1>0, <3>2 DEF SplitFactsHold
  <2> QED
    BY <2>1, <2>2, <2>3 DEF IInv, BlocksOwned
<1>12. Working'
  BY <1>1 DEF Working
<1> QED
  BY <1>4, <1>5, <1>6, <1>7, <1>8, <1>9, <1>10, <1>11, <1>12 DEF IInv

LEMMA NextInv == IInv /\ [NextStep]_vars => IInv'
<1> SUFFICES ASSUME IInv, [NextStep]_vars PROVE IInv'
  OBVIOUS
<1>1. CASE \E c \in Client, n \in Requests : MallocCall(c, n)
  BY <1>1, CallInv
<1>2. CASE MallocSkip
  BY <1>2, SkipInv
<1>3. CASE MallocMatch
  BY <1>3, MatchInv
<1>4. CASE MallocFail
  BY <1>4, FailInv
<1>5. CASE MallocSplit
  BY <1>5, SplitInv
<1>6. CASE MallocWhole
  BY <1>6, WholeInv
<1>7. CASE \E c \in Client : FreeCall(c)
  BY <1>7, FreeInv
<1>8. CASE UNCHANGED vars
  BY <1>8 DEF vars, IInv, TypeOK, Tiling, BackLinks, FirstFit, Separate,
     OnlyLastFree, Untouched, BlocksOwned, Working, Arena
<1> QED
  BY <1>1, <1>2, <1>3, <1>4, <1>5, <1>6, <1>7, <1>8 DEF NextStep

LEMMA HeapInv == Spec => []IInv
  BY InitInv, NextInv, PTL DEF Spec

\* No size or pointer field of the heap ever leaves its range; in the code, no
\* size_t ever wraps.
THEOREM TypeCorrect == Spec => []TypeOK
<1>1. IInv => TypeOK
  BY DEF IInv
<1> QED
  BY HeapInv, <1>1, PTL

\* malloc neither loses a word of the heap nor gives one to two chunks.
THEOREM HeapTiled == Spec => []Tiling
<1>1. IInv => Tiling
  BY DEF IInv
<1> QED
  BY HeapInv, <1>1, PTL

\* The list can be walked both ways.
THEOREM ListLinked == Spec => []BackLinks
<1>1. IInv => BackLinks
  BY DEF IInv
<1> QED
  BY HeapInv, <1>1, PTL

\* malloc finds the lowest usable chunk if there is one.
THEOREM SearchIsFirstFit == Spec => []FirstFit
<1>1. IInv => FirstFit
  BY DEF IInv
<1> QED
  BY HeapInv, <1>1, PTL

\* Blocks that malloc split off never overlap.
THEOREM ExactBlocksApart == Spec => []ExactBlocksDisjoint
<1>1. IInv => ExactBlocksDisjoint
  <2> SUFFICES ASSUME IInv, NEW c \in Client, NEW d \in Client, c # d,
                      Overlap(c, d), block[c].exact, block[d].exact
               PROVE  FALSE
    BY DEF ExactBlocksDisjoint
  <2> DEFINE r == block[c].ptr - 1
             s == block[d].ptr - 1
  <2>1. /\ r \in heads /\ mem[r + 3] = block[c].len
        /\ s \in heads /\ mem[s + 3] = block[d].len /\ block[c].ptr # block[d].ptr
    BY DEF IInv, BlocksOwned, Overlap
  <2>2. /\ block[c].ptr \in Nat /\ block[c].len \in Nat
        /\ block[d].ptr \in Nat /\ block[d].len \in Nat
    BY DEF IInv, TypeOK
  <2>3. PICK w : w \in Words(block[c]) /\ w \in Words(block[d])
    BY DEF Overlap
  <2>4. /\ w \in Int /\ w >= r + 1 /\ w <= r + block[c].len
        /\ w >= s + 1 /\ w <= s + block[d].len
    BY <2>2, <2>3 DEF Words
  <2>5. CASE r < s
    BY <2>1, <2>2, <2>4, <2>5 DEF IInv, Separate
  <2>6. CASE s < r
    BY <2>1, <2>2, <2>4, <2>6 DEF IInv, Separate
  <2> QED
    BY <2>1, <2>2, <2>5, <2>6
<1> QED
  BY HeapInv, <1>1, PTL

\* Once a chunk is marked it stays marked and keeps its size: free never gives
\* a block back.
THEOREM NothingIsFreed == Spec => MarkedForever
<1>1. IInv /\ [NextStep]_vars =>
        [\A c \in heads : Allocated(mem, c) =>
             Allocated(mem', c) /\ Size(mem', c) = Size(mem, c)]_vars
  <2> SUFFICES ASSUME IInv, NextStep, NEW c \in heads, mem[c + 2] = 1
               PROVE  mem'[c + 2] = 1 /\ mem'[c + 3] = mem[c + 3]
    BY DEF vars
  <2>1. CASE MallocSplit
    BY <2>1, SplitFacts DEF SplitFactsHold
  <2>2. CASE \E k \in Client : FreeCall(k)
    BY <2>2, FreeWritesNothing DEF FreeCall, IInv
  <2>3. CASE UNCHANGED mem
    BY <2>3
  <2> QED
    BY <2>1, <2>2, <2>3 DEF NextStep, MallocCall, MallocSkip, MallocMatch,
       MallocFail, MallocWhole
<1> QED
  BY HeapInv, <1>1, PTL DEF Spec, MarkedForever

=============================================================================
