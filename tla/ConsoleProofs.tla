--------------------------- MODULE ConsoleProofs ---------------------------
(***************************************************************************)
(* The text console, for every size of the screen, all calls of the main   *)
(* thread and any number of interrupts: nothing is stored off the screen,  *)
(* the cursor is in one cell, and the screen shows what was printed.       *)
(***************************************************************************)
EXTENDS Console, SequenceTheorems, TLAPS

\* Where the main thread has x within the screen, and y.
XSmall == {"idle", "digit1", "digit2", "fetch", "lineLoad", "lineStore", "return", "row",
           "col", "cell", "row2", "col2", "put", "incLoad", "incStore", "testY", "wrapLoad",
           "wrapStore", "clearRowA", "clearColA", "clearCell", "clearRowB", "clearColB",
           "clearPut", "clearXLoad", "clearXStore", "clearedX"}
YSmall == {"idle", "digit1", "digit2", "fetch", "lineLoad", "lineStore", "row", "col", "cell",
           "row2", "col2", "put", "incLoad", "incStore", "wrap", "wrapLoad", "wrapStore",
           "clearCol0", "clearCol", "clearRowA", "clearColA", "clearCell", "clearRowB",
           "clearColB", "clearPut", "clearXLoad", "clearXStore", "clearYLoad", "clearYStore"}

\* What is loaded from x and y is within the screen when it is used, and only
\* one of the two is past its limit before the tests.
Bounds ==
    /\ pc \in XSmall => x < Width
    /\ pc \in YSmall => y < Height
    /\ pc = "testX" => x < Width \/ y < Height
    /\ pc \in {"col", "cell", "row2", "col2", "put", "clearColA", "clearColB", "clearPut"}
          => row < Height
    /\ pc \in {"put", "clearPut"} => col < Width
    /\ pc \in {"incStore", "clearXStore"} => loaded < Width
    /\ pc \in {"lineStore", "wrapStore", "clearYStore"} => loaded < Height
    /\ handler = "printing" => Settled

\* The main thread is in a call unless it is idle, and at a character of its
\* string; a handler that was entered has something to print.
Place ==
    /\ i > 0
    /\ pc # "idle" => call \in DOMAIN Calls
    /\ pc \notin {"idle", "digit1", "digit2", "fetch"} => i \in 1 .. Len(Str)
    /\ handler = "entered" => text # <<>>

\* Without an interrupt between the load and the store of a cell, the store goes
\* where the load came from.
Same ==
    "cell" \notin hit =>
        /\ handler # "off" => ~InCell
        /\ pc \in {"col", "cell", "col2", "clearColA", "clearCell", "clearColB"} => row = y
        /\ pc \in {"cell", "clearCell"} => col = x
        /\ pc \in {"row2", "col2", "clearRowB", "clearColB"}
              => value.swapped = video[At(y, x)].swapped
        /\ pc \in {"put", "clearPut"} => value.swapped = video[At(row, col)].swapped

\* Without an interrupt that uses printfHex's literal while the main thread does,
\* the literal holds the digits stored so far, and what the main thread prints
\* is what it means to.
Literal ==
    "literal" \notin hit =>
        /\ handler # "off" => ~InLiteral
        /\ IsHex /\ pc = "digit2" => foo[1] = Digits(Calls[call].key)[1]
        /\ IsHex /\ pc \notin {"idle", "digit1", "digit2"} => foo = Digits(Calls[call].key)
        /\ pc \in {"row", "col", "cell"} => Intended[i] # NL
        /\ pc \in {"row2", "col2", "put"} => value.char = Intended[i] /\ Intended[i] # NL

\* The text so far is in v, and the next cell is p, or the first one once the
\* screen has been cleared.
Reached(v, s, p) ==
    IF p \in OnTheScreen
    THEN s.p = p /\ \A k \in OnTheScreen : v[k].char = s.chars[k]
    ELSE s.p = 0 /\ \A k \in OnTheScreen : OrBlank(v[k].char) = s.chars[k]

\* The cells before q have been cleared, and clearing the rest is what is left.
ClearedTo(v, s, q) ==
    /\ s.p = 0
    /\ \A k \in OnTheScreen : /\ OrBlank(v[k].char) = s.chars[k]
                              /\ k < q => v[k].char = s.chars[k]

\* Without an interrupt in the middle of a character, the screen is as far as
\* the main thread is: what it holds in registers is what is in memory ...
Registers ==
    /\ pc \in {"incStore", "clearXStore"} => loaded = x
    /\ pc \in {"lineStore", "wrapStore", "clearYStore"} => loaded = y
    /\ pc = "return" => loaded + 1 = y
    /\ pc \in {"col2", "put", "clearColA", "clearCell", "clearColB", "clearPut"} => row = y
    /\ pc \in {"put", "clearCell", "clearPut"} => col = x
    /\ pc \in {"clearRowB", "clearColB", "clearPut"}
          => value.char = OrBlank(video[At(y, x)].char)
    /\ pc = "wrap" => x = Width
    /\ pc \in {"wrapLoad", "wrapStore", "clearedX"} => x = 0

\* ... and what is still to be done of the character is what is to be done of
\* its text.
Progress ==
    /\ pc \in {"idle", "digit1", "digit2", "fetch", "lineLoad", "lineStore", "row", "col", "cell",
               "row2", "col2", "put", "testX", "wrap", "testY"} => Reached(video, shown, At(y, x))
    /\ pc = "return" => Reached(video, shown, At(loaded, x))
    /\ pc \in {"incLoad", "incStore"} => Reached(video, shown, At(y, x) + 1)
    /\ pc \in {"wrapLoad", "wrapStore"} => Reached(video, shown, At(y + 1, x))
    /\ pc = "clear" => ClearedTo(video, shown, 0)
    /\ pc \in {"clearRow", "clearCol0"} => ClearedTo(video, shown, At(y, 0))
    /\ pc \in {"clearCol", "clearRowA", "clearColA", "clearCell", "clearRowB", "clearColB",
               "clearPut"} => ClearedTo(video, shown, At(y, x))
    /\ pc \in {"clearXLoad", "clearXStore"} => ClearedTo(video, shown, At(y, x) + 1)
    /\ pc \in {"clearYLoad", "clearYStore"} => ClearedTo(video, shown, At(y + 1, 0))
    /\ pc \in {"cleared", "clearedX"} => ClearedTo(video, shown, Height * Width)

Text ==
    hit \intersect {"character", "literal"} = {} =>
        /\ handler # "off" => ~InCharacter
        /\ Registers
        /\ Progress

IInv == TypeOK /\ Bounds /\ Place /\ Same /\ OneCursor /\ Literal /\ Text

-----------------------------------------------------------------------------
(* Cells and characters. *)

LEMMA Sizes ==
  Width \in Nat /\ Width > 0 /\ Height \in Nat /\ Height > 0
  BY WidthAssumption, HeightAssumption

LEMMA RowsUp ==
  ASSUME NEW h \in Nat, NEW r \in 0 .. h, NEW w \in Nat
  PROVE  r * w \in Nat /\ h * w \in Nat /\ r * w <= h * w /\ (h + 1) * w = h * w + w
<1>1. (h - r) * w \in Nat /\ (h - r) * w = h * w - r * w
  BY SMT
<1>2. r * w \in Nat /\ h * w \in Nat
  BY SMT
<1> QED
  BY SMT, <1>1, <1>2

\* Whatever x and y an address is computed from, it is one of the cells.
LEMMA AtInCells ==
  ASSUME NEW r \in 0 .. Height, NEW c \in 0 .. Width
  PROVE  At(r, c) \in Cells
<1>1. /\ r * Width \in Nat /\ Height * Width \in Nat /\ r * Width <= Height * Width
      /\ (Height + 1) * Width = Height * Width + Width
  BY Sizes, RowsUp
<1>2. \A p, q, w \in Nat : p <= q /\ c \in 0 .. w => p + c \in 0 .. (q + w)
  BY SMT, Sizes
<1>3. r * Width + c \in 0 .. (Height * Width + Width)
  BY <1>1, <1>2, Sizes
<1> QED
  BY <1>1, <1>3 DEF At, Cells

LEMMA OrBlankByte ==
  ASSUME NEW c \in 0..255
  PROVE  OrBlank(c) \in 0..255
<1>1. CASE (c \div 32) % 2 = 1
  BY <1>1 DEF OrBlank
<1>2. CASE (c \div 32) % 2 # 1
  <2>1. c \div 32 # 7
    BY <1>2
  <2>2. c + 32 <= 255
    BY <2>1
  <2> QED
    BY <1>2, <2>2 DEF OrBlank
<1> QED
  BY <1>1, <1>2

LEMMA DigitsBytes ==
  ASSUME NEW key \in 0..255
  PROVE  Digits(key) \in [1..2 -> 0..255] /\ Digits(key) \in Seq(0..255) /\ Len(Digits(key)) = 2
<1>1. key \div 16 \in 0..15 /\ key % 16 \in 0..15
  OBVIOUS
<1>2. Hex(key \div 16) \in 0..255 /\ Hex(key % 16) \in 0..255
  BY <1>1 DEF Hex
<1> QED
  BY <1>2 DEF Digits

\* Setting the character of a cell keeps the colours of all of them.
LEMMA CharStored ==
  ASSUME NEW v \in [Cells -> Cell], NEW k \in Cells, NEW c \in 0..255
  PROVE  /\ Stored(v, k, c) \in [Cells -> Cell]
         /\ \A n \in Cells : Stored(v, k, c)[n].swapped = v[n].swapped
  BY DEF Cell, Stored

\* So does clearing the screen.
LEMMA ClearedCells ==
  ASSUME NEW v \in [Cells -> Cell]
  PROVE  /\ Cleared(v) \in [Cells -> Cell]
         /\ \A n \in Cells : Cleared(v)[n].swapped = v[n].swapped
<1>1. ASSUME NEW n \in Cells
      PROVE  /\ [v[n] EXCEPT !.char = OrBlank(@)] \in Cell
             /\ [v[n] EXCEPT !.char = OrBlank(@)].swapped = v[n].swapped
  <2>1. v[n] \in Cell /\ v[n].char \in 0..255
    BY DEF Cell
  <2>2. OrBlank(v[n].char) \in 0..255
    BY <2>1, OrBlankByte
  <2> QED
    BY <2>1, <2>2 DEF Cell
<1> QED
  BY <1>1 DEF Cleared

\* A character that a handler prints, wherever x and y are, leaves them on the
\* screen, a cell in every cell and the colours as they are.
LEMMA PrintedSettles ==
  ASSUME NEW v \in [Cells -> Cell], NEW a \in 0 .. Width, NEW b \in 0 .. Height, NEW c \in 0..255,
         NEW r, r = Printed(Screen(v, a, b), c)
  PROVE  /\ r.video \in [Cells -> Cell]
         /\ \A k \in Cells : r.video[k].swapped = v[k].swapped
         /\ r.x \in 0 .. Width /\ r.x < Width
         /\ r.y \in 0 .. Height /\ r.y < Height
<1> DEFINE Good(w) == w \in [Cells -> Cell] /\ \A k \in Cells : w[k].swapped = v[k].swapped
<1>1. \E w, m, n : /\ Put(Screen(v, a, b), c) = Screen(w, m, n)
                   /\ Good(w) /\ m \in Nat /\ n \in Nat
  <2>1. CASE c = NL
    <3>1. Put(Screen(v, a, b), c) = Screen(v, 0, b + 1)
      BY <2>1 DEF Put, Screen
    <3>2. b + 1 \in Nat
      BY Sizes
    <3> QED
      BY <3>1, <3>2
  <2>2. CASE c # NL
    <3>1. Put(Screen(v, a, b), c) = Screen(Stored(v, At(b, a), c), a + 1, b)
      BY <2>2 DEF Put, Screen
    <3>2. At(b, a) \in Cells
      BY AtInCells
    <3>3. Good(Stored(v, At(b, a), c))
      BY <3>2, CharStored
    <3>4. a + 1 \in Nat /\ b \in Nat
      BY Sizes
    <3> HIDE DEF Good
    <3> QED
      BY <3>1, <3>3, <3>4
  <2> QED
    BY <2>1, <2>2
<1>2. PICK w, m, n : /\ Put(Screen(v, a, b), c) = Screen(w, m, n)
                     /\ Good(w) /\ m \in Nat /\ n \in Nat
  BY <1>1
<1>3. PICK m2, n2 : /\ Wrapped(Screen(w, m, n)) = Screen(w, m2, n2)
                    /\ m2 \in Nat /\ m2 < Width /\ n2 \in Nat
  <2>1. Wrapped(Screen(w, m, n)) = IF m >= Width THEN Screen(w, 0, n + 1) ELSE Screen(w, m, n)
    BY DEF Wrapped, Screen
  <2> QED
    BY <1>2, <2>1, Sizes
<1>4. r = IF n2 >= Height THEN Screen(Cleared(w), 0, 0) ELSE Screen(w, m2, n2)
  BY <1>2, <1>3 DEF Printed, Unfilled, Screen
<1>5. Good(Cleared(w))
  BY <1>2, ClearedCells
<1> QED
  BY <1>2, <1>3, <1>4, <1>5, Sizes DEF Screen

-----------------------------------------------------------------------------
(* The text. *)

\* Cells are counted row by row.
LEMMA AtCounts ==
  ASSUME NEW r \in Nat, NEW c \in 0 .. Width
  PROVE  /\ At(r, c) \in Nat /\ At(r, 0) = r * Width /\ At(r, Width) = At(r + 1, 0)
         /\ At(r, c + 1) = At(r, c) + 1
         /\ r < Height /\ c < Width => At(r, c) \in OnTheScreen
         /\ r >= Height => At(r, c) \notin OnTheScreen
<1>1. r * Width \in Nat /\ Height * Width \in Nat /\ (r + 1) * Width = r * Width + Width
  BY Sizes, RowsUp
<1>2. At(r, c) = r * Width + c /\ At(r, 0) = r * Width /\ At(r, Width) = r * Width + Width
  BY <1>1, Sizes DEF At
<1>3. At(r + 1, 0) = r * Width + Width /\ At(r, c + 1) = r * Width + c + 1
  BY <1>1, Sizes DEF At
<1>4. ASSUME r < Height PROVE r * Width + Width <= Height * Width
  <2>1. r + 1 \in 0 .. Height
    BY <1>4, Sizes
  <2>2. (r + 1) * Width <= Height * Width
    BY <2>1, Sizes, RowsUp
  <2> QED
    BY <1>1, <2>2
<1>5. ASSUME r >= Height PROVE Height * Width <= r * Width
  <2>1. Height \in 0 .. r
    BY <1>5, Sizes
  <2> QED
    BY <2>1, Sizes, RowsUp
<1> QED
  BY <1>1, <1>2, <1>3, <1>4, <1>5, Sizes DEF OnTheScreen

LEMMA AtRow ==
  ASSUME NEW r \in Nat, NEW c \in Nat, c < Width
  PROVE  At(r, c) \div Width = r
<1>1. \A w \in Nat : c < w => (r * w + c) \div w = r
  BY SMT
<1> QED
  BY <1>1, Sizes DEF At

LEMMA ScreenIsCells == OnTheScreen \subseteq Cells /\ 0 \in OnTheScreen /\ At(0, 0) = 0
<1>1. At(0, 0) = 0 * Width
  BY AtCounts, Sizes
<1>2. 0 * Width = 0
  BY Sizes
<1>3. Height * Width \in Nat /\ (Height + 1) * Width = Height * Width + Width
  BY Sizes, RowsUp
<1> QED
  BY <1>1, <1>2, <1>3, AtCounts, Sizes DEF OnTheScreen, Cells

LEMMA ShowTypes ==
  ASSUME NEW s \in Texts, NEW c \in 0..255
  PROVE  Show(s, c) \in Texts
<1> DEFINE p == IF c = NL THEN (s.p \div Width + 1) * Width ELSE s.p + 1
           d == IF c = NL THEN s.chars ELSE [s.chars EXCEPT ![s.p] = c]
<1>1. d \in [OnTheScreen -> 0..255]
  BY DEF Texts
<1>2. [k \in OnTheScreen |-> OrBlank(d[k])] \in [OnTheScreen -> 0..255]
  <2> HIDE DEF d
  <2> QED
    BY <1>1, OrBlankByte
<1>3. Show(s, c) = IF p \in OnTheScreen THEN [p |-> p, chars |-> d]
                   ELSE [p |-> 0, chars |-> [k \in OnTheScreen |-> OrBlank(d[k])]]
  BY DEF Show
<1> HIDE DEF p, d
<1> QED
  BY <1>1, <1>2, <1>3, ScreenIsCells DEF Texts

\* A character that is stored where the text has got to is one more of it.
LEMMA ShowReaches ==
  ASSUME NEW v, NEW w, NEW s \in Texts, NEW c \in 0..255, c # NL,
         NEW p \in OnTheScreen, Reached(v, s, p),
         \A k \in OnTheScreen : w[k].char = IF k = p THEN c ELSE v[k].char
  PROVE  Reached(w, Show(s, c), p + 1)
<1> DEFINE d == [s.chars EXCEPT ![p] = c]
<1>1. s.p = p /\ \A k \in OnTheScreen : v[k].char = s.chars[k]
  BY DEF Reached
<1>2. \A k \in OnTheScreen : w[k].char = d[k]
  BY <1>1 DEF Texts
<1>3. Show(s, c) = IF p + 1 \in OnTheScreen THEN [p |-> p + 1, chars |-> d]
                   ELSE [p |-> 0, chars |-> [k \in OnTheScreen |-> OrBlank(d[k])]]
  BY <1>1 DEF Show
<1> HIDE DEF d
<1> QED
  BY <1>2, <1>3 DEF Reached

LEMMA NewlineReaches ==
  ASSUME NEW v, NEW s \in Texts, NEW r \in Nat, r < Height, NEW c \in Nat, c < Width,
         Reached(v, s, At(r, c))
  PROVE  Reached(v, Show(s, NL), At(r + 1, 0))
<1>1. At(r, c) \in OnTheScreen
  BY AtCounts, Sizes
<1>2. s.p = At(r, c) /\ \A k \in OnTheScreen : v[k].char = s.chars[k]
  BY <1>1 DEF Reached
<1>3. (s.p \div Width + 1) * Width = At(r + 1, 0)
  <2>1. s.p \div Width = r
    BY <1>2, AtRow
  <2>2. At(r + 1, 0) = (r + 1) * Width
    BY AtCounts, Sizes
  <2> QED
    BY <2>1, <2>2
<1>4. Show(s, NL) = IF At(r + 1, 0) \in OnTheScreen
                    THEN [p |-> At(r + 1, 0), chars |-> s.chars]
                    ELSE [p |-> 0, chars |-> [k \in OnTheScreen |-> OrBlank(s.chars[k])]]
  BY <1>3 DEF Show
<1> QED
  BY <1>2, <1>4 DEF Reached

\* Clearing a cell twice is clearing it once.
LEMMA OrBlankTwice ==
  ASSUME NEW c \in 0..255
  PROVE  OrBlank(OrBlank(c)) = OrBlank(c)
<1>1. CASE (c \div 32) % 2 = 1
  BY <1>1 DEF OrBlank
<1>2. CASE (c \div 32) % 2 # 1
  <2>1. (c + 32) \div 32 = c \div 32 + 1
    OBVIOUS
  <2>2. ((c + 32) \div 32) % 2 = 1
    BY <1>2, <2>1
  <2> QED
    BY <1>2, <2>2 DEF OrBlank
<1> QED
  BY <1>1, <1>2

\* Clearing the next cell is a step of clearing the screen.
LEMMA ClearsNext ==
  ASSUME NEW v \in [Cells -> Cell], NEW w, NEW s, NEW p \in OnTheScreen, ClearedTo(v, s, p),
         \A k \in OnTheScreen : w[k].char = IF k = p THEN OrBlank(v[k].char) ELSE v[k].char
  PROVE  ClearedTo(w, s, p + 1)
<1>1. \A k \in OnTheScreen : v[k].char \in 0..255
  BY ScreenIsCells DEF Cell
<1>2. ASSUME NEW k \in OnTheScreen
      PROVE  OrBlank(w[k].char) = s.chars[k] /\ (k < p + 1 => w[k].char = s.chars[k])
  <2>1. OrBlank(v[k].char) = s.chars[k] /\ (k < p => v[k].char = s.chars[k])
    BY DEF ClearedTo
  <2>2. OrBlank(OrBlank(v[k].char)) = OrBlank(v[k].char)
    BY <1>1, OrBlankTwice
  <2>3. k < p + 1 /\ k # p => k < p
    BY Sizes DEF OnTheScreen
  <2> QED
    BY <2>1, <2>2, <2>3
<1> QED
  BY <1>2 DEF ClearedTo

\* A character that a handler prints is one more of the text.
LEMMA PrintedShows ==
  ASSUME NEW v \in [Cells -> Cell], NEW a \in 0 .. Width, a < Width,
         NEW b \in 0 .. Height, b < Height, NEW c \in 0..255,
         NEW s \in Texts, Reached(v, s, At(b, a)), NEW r, r = Printed(Screen(v, a, b), c)
  PROVE  Reached(r.video, Show(s, c), At(r.y, r.x))
<1>1. PICK w, m, n : /\ Put(Screen(v, a, b), c) = Screen(w, m, n)
                     /\ Reached(w, Show(s, c), At(n, m)) /\ w \in [Cells -> Cell]
                     /\ m \in 0 .. Width /\ n \in Nat
  <2>1. CASE c = NL
    <3>1. Put(Screen(v, a, b), c) = Screen(v, 0, b + 1)
      BY <2>1 DEF Put, Screen
    <3>2. Reached(v, Show(s, c), At(b + 1, 0))
      BY <2>1, NewlineReaches, Sizes
    <3> QED
      BY <3>1, <3>2, Sizes
  <2>2. CASE c # NL
    <3>1. Put(Screen(v, a, b), c) = Screen(Stored(v, At(b, a), c), a + 1, b)
      BY <2>2 DEF Put, Screen
    <3>2. At(b, a) \in OnTheScreen /\ At(b, a + 1) = At(b, a) + 1
      BY AtCounts, Sizes
    <3>3. /\ Stored(v, At(b, a), c) \in [Cells -> Cell]
          /\ \A k \in OnTheScreen :
                Stored(v, At(b, a), c)[k].char = IF k = At(b, a) THEN c ELSE v[k].char
      BY <3>2, ScreenIsCells DEF Stored, Cell
    <3>4. Reached(Stored(v, At(b, a), c), Show(s, c), At(b, a + 1))
      BY <2>2, <3>2, <3>3, ShowReaches
    <3>5. a + 1 \in 0 .. Width /\ b \in Nat
      BY Sizes
    <3> QED
      BY <3>1, <3>3, <3>4, <3>5
  <2> QED
    BY <2>1, <2>2
<1>2. PICK m2, n2 : /\ Wrapped(Screen(w, m, n)) = Screen(w, m2, n2)
                    /\ Reached(w, Show(s, c), At(n2, m2)) /\ m2 \in 0 .. Width /\ n2 \in Nat
  <2>1. Wrapped(Screen(w, m, n)) = IF m >= Width THEN Screen(w, 0, n + 1) ELSE Screen(w, m, n)
    BY DEF Wrapped, Screen
  <2>2. CASE m >= Width
    <3>1. m = Width
      BY <1>1, <2>2, Sizes
    <3>2. At(n, m) = At(n + 1, 0)
      BY <1>1, <3>1, AtCounts
    <3> QED
      BY <1>1, <2>1, <2>2, <3>2, Sizes
  <2> QED
    BY <1>1, <2>1, <2>2
<1>3. r = IF n2 >= Height THEN Screen(Cleared(w), 0, 0) ELSE Screen(w, m2, n2)
  BY <1>1, <1>2 DEF Printed, Unfilled, Screen
<1>4. CASE n2 >= Height
  <2>1. At(n2, m2) \notin OnTheScreen
    BY <1>2, <1>4, AtCounts
  <2>2. Show(s, c).p = 0 /\ \A k \in OnTheScreen : OrBlank(w[k].char) = Show(s, c).chars[k]
    BY <1>2, <2>1 DEF Reached
  <2>3. \A k \in OnTheScreen : Cleared(w)[k].char = OrBlank(w[k].char)
    BY <1>1, ScreenIsCells DEF Cleared, Cell
  <2>4. Reached(Cleared(w), Show(s, c), At(0, 0))
    BY <2>2, <2>3, ScreenIsCells DEF Reached
  <2> QED
    BY <1>3, <1>4, <2>4 DEF Screen
<1> QED
  BY <1>2, <1>3, <1>4 DEF Screen

-----------------------------------------------------------------------------
(* The main thread's steps. *)

\* The main thread's calls, and its string: the literal has two characters,
\* whatever a handler has written there.
LEMMA CallTypes ==
  ASSUME NEW n \in DOMAIN Calls
  PROVE  Calls[n].hex \in BOOLEAN /\ Calls[n].str \in Seq(0..255) /\ Calls[n].key \in 0..255
<1> DEFINE Types == [hex : BOOLEAN, str : Seq(0..255), key : 0..255]
<1>1. Calls[n] \in Types
  <2> HIDE DEF Types
  <2>1. Calls \in Seq(Types)
    BY CallsAssumption DEF Types
  <2> QED
    BY <2>1, LenProperties
<1> QED
  BY <1>1

LEMMA PairLength ==
  ASSUME NEW S, NEW f \in [1..2 -> S]
  PROVE  f \in Seq(S) /\ Len(f) = 2
<1>1. f \in UNION {[1..n -> S] : n \in Nat}
  BY Zenon, 2 \in Nat
<1>2. f \in Seq(S)
  BY <1>1, SeqDef
<1> QED
  BY <1>2, LenProperties

LEMMA StrBytes ==
  ASSUME TypeOK, call \in DOMAIN Calls
  PROVE  Len(Str) \in Nat /\ \A n \in 1 .. Len(Str) : Str[n] \in 0..255
<1>1. CASE IsHex
  <2>1. foo \in [1..2 -> 0..255]
    BY DEF TypeOK
  <2>2. Len(foo) = 2
    BY ONLY <2>1, PairLength
  <2>3. Str = foo
    BY ONLY <1>1 DEF Str
  <2> QED
    BY ONLY <2>1, <2>2, <2>3, Zenon, 2 \in Nat
<1>2. CASE ~IsHex
  <2>1. Calls[call].str \in Seq(0..255)
    BY CallTypes
  <2>2. Str = Calls[call].str
    BY ONLY <1>2 DEF Str
  <2>3. \A s \in Seq(0..255) : Len(s) \in Nat /\ \A n \in 1 .. Len(s) : s[n] \in 0..255
    <3>1. \A s \in Seq(0..255) : Len(s) \in Nat
      BY ONLY LenProperties
    <3>2. \A s \in Seq(0..255) : \A n \in 1 .. Len(s) : s[n] \in 0..255
      BY ONLY ElementOfSeq, Zenon
    <3> QED
      BY ONLY <3>1, <3>2, Zenon
  <2> QED
    BY ONLY <2>1, <2>2, <2>3, Zenon
<1> QED
  BY <1>1, <1>2

LEMMA IntendedBytes ==
  ASSUME TypeOK, call \in DOMAIN Calls, NEW n \in 1 .. Len(Str)
  PROVE  Intended[n] \in 0..255
<1>1. Calls[call].key \in 0..255 /\ Calls[call].str \in Seq(0..255)
  BY CallTypes
<1>2. CASE IsHex
  <2>1. foo \in [1..2 -> 0..255]
    BY DEF TypeOK
  <2>2. Len(foo) = 2
    BY ONLY <2>1, PairLength
  <2>3. n \in 1..2
    BY <1>2, <2>2 DEF Str
  <2>4. Digits(Calls[call].key) \in [1..2 -> 0..255]
    BY ONLY <1>1, DigitsBytes
  <2> QED
    BY <1>2, <2>3, <2>4 DEF Intended
<1>3. CASE ~IsHex
  <2>1. Str = Calls[call].str /\ Intended = Calls[call].str
    BY <1>3 DEF Intended, Str
  <2>2. \A s \in Seq(0..255) : \A m \in 1 .. Len(s) : s[m] \in 0..255
    BY ONLY ElementOfSeq, Zenon
  <2> QED
    BY <1>1, <2>1, <2>2, Zenon
<1> QED
  BY <1>2, <1>3

LEMMA LoadRowKeeps ==
  ASSUME IInv, NEW from, NEW to, LoadRow(from, to),
         <<from, to>> \in {<<"row", "col">>,
                          <<"row2", "col2">>,
                          <<"clearRowA", "clearColA">>,
                          <<"clearRowB", "clearColB">>}
  PROVE  IInv'
<1> USE DEF IInv, LoadRow, Main, Goto, screen, irq
<1>1. TypeOK'
  BY Sizes DEF TypeOK, Label, Bounds, XSmall, YSmall
<1>2. Bounds'
  BY Sizes DEF TypeOK, Bounds, XSmall, YSmall, Settled
<1>3. Place'
  BY DEF Place, Str, IsHex
<1>4. Same'
  BY DEF Same, InCell
<1>5. OneCursor'
  BY DEF OneCursor, InverseCells, CursorCell
<1>6. Literal'
  BY DEF Literal, InLiteral, Intended, IsHex
<1>7. Text'
  BY DEF Text, Registers, Progress
<1> QED
  BY <1>1, <1>2, <1>3, <1>4, <1>5, <1>6, <1>7

LEMMA LoadColKeeps ==
  ASSUME IInv, NEW from, NEW to, LoadCol(from, to),
         <<from, to>> \in {<<"col", "cell">>,
                          <<"col2", "put">>,
                          <<"clearColA", "clearCell">>,
                          <<"clearColB", "clearPut">>}
  PROVE  IInv'
<1> USE DEF IInv, LoadCol, Main, Goto, screen, irq
<1>1. TypeOK'
  BY Sizes DEF TypeOK, Label, Bounds, XSmall, YSmall
<1>2. Bounds'
  BY Sizes DEF TypeOK, Bounds, XSmall, YSmall, Settled
<1>3. Place'
  BY DEF Place, Str, IsHex
<1>4. Same'
  BY DEF Same, InCell
<1>5. OneCursor'
  BY DEF OneCursor, InverseCells, CursorCell
<1>6. Literal'
  BY DEF Literal, InLiteral, Intended, IsHex
<1>7. Text'
  BY DEF Text, Registers, Progress
<1> QED
  BY <1>1, <1>2, <1>3, <1>4, <1>5, <1>6, <1>7

LEMMA LoadXKeeps ==
  ASSUME IInv, NEW from, NEW to, LoadX(from, to),
         <<from, to>> \in {<<"incLoad", "incStore">>,
                          <<"clearXLoad", "clearXStore">>}
  PROVE  IInv'
<1> USE DEF IInv, LoadX, Main, Goto, screen, irq
<1>1. TypeOK'
  BY Sizes DEF TypeOK, Label, Bounds, XSmall, YSmall
<1>2. Bounds'
  BY Sizes DEF TypeOK, Bounds, XSmall, YSmall, Settled
<1>3. Place'
  BY DEF Place, Str, IsHex
<1>4. Same'
  BY DEF Same, InCell
<1>5. OneCursor'
  BY DEF OneCursor, InverseCells, CursorCell
<1>6. Literal'
  BY DEF Literal, InLiteral, Intended, IsHex
<1>7. Text'
  BY DEF Text, Registers, Progress
<1> QED
  BY <1>1, <1>2, <1>3, <1>4, <1>5, <1>6, <1>7

LEMMA StoreXKeeps ==
  ASSUME IInv, NEW from, NEW to, StoreX(from, to),
         <<from, to>> \in {<<"incStore", "testX">>,
                          <<"clearXStore", "clearCol">>}
  PROVE  IInv'
<1> USE DEF IInv, StoreX, Main, Goto, registers, irq
<1>1. TypeOK'
  BY Sizes DEF TypeOK, Label, Bounds, XSmall, YSmall
<1>2. Bounds'
  BY Sizes DEF TypeOK, Bounds, XSmall, YSmall, Settled
<1>3. Place'
  BY DEF Place, Str, IsHex
<1>4. Same'
  BY DEF Same, InCell
<1>5. OneCursor'
  BY DEF OneCursor, InverseCells, CursorCell
<1>6. Literal'
  BY DEF Literal, InLiteral, Intended, IsHex
<1>7. Text'
  <2>1. At(y, x + 1) = At(y, x) + 1
    BY AtCounts, Sizes DEF TypeOK
  <2> QED
    BY <2>1 DEF Text, Registers, Progress
<1> QED
  BY <1>1, <1>2, <1>3, <1>4, <1>5, <1>6, <1>7

LEMMA LoadYKeeps ==
  ASSUME IInv, NEW from, NEW to, LoadY(from, to),
         <<from, to>> \in {<<"lineLoad", "lineStore">>,
                          <<"wrapLoad", "wrapStore">>,
                          <<"clearYLoad", "clearYStore">>}
  PROVE  IInv'
<1> USE DEF IInv, LoadY, Main, Goto, screen, irq
<1>1. TypeOK'
  BY Sizes DEF TypeOK, Label, Bounds, XSmall, YSmall
<1>2. Bounds'
  BY Sizes DEF TypeOK, Bounds, XSmall, YSmall, Settled
<1>3. Place'
  BY DEF Place, Str, IsHex
<1>4. Same'
  BY DEF Same, InCell
<1>5. OneCursor'
  BY DEF OneCursor, InverseCells, CursorCell
<1>6. Literal'
  BY DEF Literal, InLiteral, Intended, IsHex
<1>7. Text'
  BY DEF Text, Registers, Progress
<1> QED
  BY <1>1, <1>2, <1>3, <1>4, <1>5, <1>6, <1>7

LEMMA StoreYKeeps ==
  ASSUME IInv, NEW from, NEW to, StoreY(from, to),
         <<from, to>> \in {<<"lineStore", "return">>,
                          <<"wrapStore", "testY">>,
                          <<"clearYStore", "clearRow">>}
  PROVE  IInv'
<1> USE DEF IInv, StoreY, Main, Goto, registers, irq
<1>1. TypeOK'
  BY Sizes DEF TypeOK, Label, Bounds, XSmall, YSmall
<1>2. Bounds'
  BY Sizes DEF TypeOK, Bounds, XSmall, YSmall, Settled
<1>3. Place'
  BY DEF Place, Str, IsHex
<1>4. Same'
  BY DEF Same, InCell
<1>5. OneCursor'
  BY DEF OneCursor, InverseCells, CursorCell
<1>6. Literal'
  BY DEF Literal, InLiteral, Intended, IsHex
<1>7. Text'
  BY DEF Text, Registers, Progress
<1> QED
  BY <1>1, <1>2, <1>3, <1>4, <1>5, <1>6, <1>7

LEMMA ZeroXKeeps ==
  ASSUME IInv, NEW from, NEW to, ZeroX(from, to),
         <<from, to>> \in {<<"wrap", "wrapLoad">>,
                          <<"clearCol0", "clearCol">>,
                          <<"cleared", "clearedX">>}
  PROVE  IInv'
<1> USE DEF IInv, ZeroX, Main, Goto, registers, irq
<1>1. TypeOK'
  BY Sizes DEF TypeOK, Label, Bounds, XSmall, YSmall
<1>2. Bounds'
  BY Sizes DEF TypeOK, Bounds, XSmall, YSmall, Settled
<1>3. Place'
  BY DEF Place, Str, IsHex
<1>4. Same'
  BY DEF Same, InCell
<1>5. OneCursor'
  BY DEF OneCursor, InverseCells, CursorCell
<1>6. Literal'
  BY DEF Literal, InLiteral, Intended, IsHex
<1>7. Text'
  <2>1. At(y, Width) = At(y + 1, 0)
    BY AtCounts, Sizes DEF TypeOK
  <2> QED
    BY <2>1 DEF Text, Registers, Progress
<1> QED
  BY <1>1, <1>2, <1>3, <1>4, <1>5, <1>6, <1>7

LEMMA CallKeeps ==
  ASSUME IInv, Call
  PROVE  IInv'
<1> USE DEF IInv, Call, Main, screen, registers, irq
<1>1. TypeOK'
  BY Sizes DEF TypeOK, Label, Bounds, XSmall, YSmall
<1>2. Bounds'
  BY Sizes DEF TypeOK, Bounds, XSmall, YSmall, Settled
<1>3. Place'
  BY CallsAssumption DEF TypeOK, Place
<1>4. Same'
  BY DEF Same, InCell
<1>5. OneCursor'
  BY DEF OneCursor, InverseCells, CursorCell
<1>6. Literal'
  BY DEF Literal, InLiteral, IsHex
<1>7. Text'
  BY DEF Text, Registers, Progress
<1> QED
  BY <1>1, <1>2, <1>3, <1>4, <1>5, <1>6, <1>7

LEMMA StoreDigitKeeps ==
  ASSUME IInv, NEW d \in 1..2, StoreDigit(d)
  PROVE  IInv'
<1> USE DEF IInv, StoreDigit, Main, Goto, screen, registers, irq
<1>1. TypeOK'
  <2>1. Digits(Calls[call].key) \in [1..2 -> 0..255]
    <3>1. Calls[call].key \in 0..255
      BY CallTypes DEF Place
    <3> QED
      BY ONLY <3>1, DigitsBytes
  <2>2. foo \in [1..2 -> 0..255] /\ foo' = [foo EXCEPT ![d] = Digits(Calls[call].key)[d]]
    BY DEF TypeOK
  <2>3. foo' \in [1..2 -> 0..255]
    BY ONLY d \in 1..2, <2>1, <2>2
  <2> QED
    BY <2>3, Sizes DEF TypeOK, Label
<1>2. Bounds'
  BY Sizes DEF TypeOK, Bounds, XSmall, YSmall, Settled
<1>3. Place'
  BY DEF Place, Str, IsHex
<1>4. Same'
  BY DEF Same, InCell
<1>5. OneCursor'
  BY DEF OneCursor, InverseCells, CursorCell
<1>6. Literal'
  <2>1. foo \in [1..2 -> 0..255] /\ foo' = [foo EXCEPT ![d] = Digits(Calls[call].key)[d]]
    BY DEF TypeOK
  <2>2. Digits(Calls[call].key) \in [1..2 -> 0..255]
    BY CallTypes, DigitsBytes DEF Place
  <2>3. pc = "digit1" => foo'[1] = Digits(Calls[call].key)[1]
    BY <2>1
  <2>4. pc = "digit2" /\ foo[1] = Digits(Calls[call].key)[1] => foo' = Digits(Calls[call].key)
    <3>1. pc = "digit2" => d = 2
      OBVIOUS
    <3>2. \A f, g \in [1..2 -> 0..255] : f[1] = g[1] => [f EXCEPT ![2] = g[2]] = g
      BY ONLY TRUE
    <3> QED
      BY ONLY <2>1, <2>2, <3>1, <3>2
  <2>5. pc' = (IF pc = "digit1" THEN "digit2" ELSE "fetch") /\ handler = "off" /\ handler' = "off"
    OBVIOUS
  <2> QED
    BY <2>3, <2>4, <2>5 DEF Literal, IsHex
<1>7. Text'
  BY DEF Text, Registers, Progress
<1> QED
  BY <1>1, <1>2, <1>3, <1>4, <1>5, <1>6, <1>7

LEMMA FetchKeeps ==
  ASSUME IInv, Fetch
  PROVE  IInv'
<1> USE DEF IInv, Fetch, Main, Goto, screen, registers, irq
<1>1. TypeOK'
  BY Sizes DEF TypeOK, Label, Bounds, XSmall, YSmall
<1>2. Bounds'
  BY Sizes DEF TypeOK, Bounds, XSmall, YSmall, Settled
<1>3. Place'
  <2>1. Len(Str) \in Nat
    BY StrBytes DEF Place
  <2>2. Str' = Str
    BY DEF Str, IsHex
  <2> QED
    BY <2>1, <2>2 DEF TypeOK, Place
<1>4. Same'
  BY DEF Same, InCell
<1>5. OneCursor'
  BY DEF OneCursor, InverseCells, CursorCell
<1>6. Literal'
  <2>1. "literal" \notin hit => Str = Intended
    BY DEF Literal, Str, Intended
  <2> QED
    BY <2>1 DEF Literal, InLiteral, Intended, IsHex
<1>7. Text'
  BY DEF Text, Registers, Progress
<1> QED
  BY <1>1, <1>2, <1>3, <1>4, <1>5, <1>6, <1>7

LEMMA LoadCellKeeps ==
  ASSUME IInv, LoadCell
  PROVE  IInv'
<1> USE DEF IInv, LoadCell, Main, Goto, screen, irq
<1>1. TypeOK'
  <2>1. Str[i] \in 0..255
    BY StrBytes DEF Place
  <2>2. video[At(row, col)] \in Cell
    BY AtInCells DEF TypeOK
  <2>3. value' \in Cell
    BY <2>1, <2>2 DEF Cell
  <2> QED
    BY <2>3, Sizes DEF TypeOK, Label
<1>2. Bounds'
  BY Sizes DEF TypeOK, Bounds, XSmall, YSmall, Settled
<1>3. Place'
  BY DEF Place, Str, IsHex
<1>4. Same'
  BY DEF Same, InCell
<1>5. OneCursor'
  BY DEF OneCursor, InverseCells, CursorCell
<1>6. Literal'
  <2>1. "literal" \notin hit => Str = Intended
    BY DEF Literal, Str, Intended
  <2>2. value'.char = Str[i]
    BY AtInCells DEF TypeOK, Cell
  <2> QED
    BY <2>1, <2>2 DEF Literal, InLiteral, Intended, IsHex
<1>7. Text'
  BY DEF Text, Registers, Progress
<1> QED
  BY <1>1, <1>2, <1>3, <1>4, <1>5, <1>6, <1>7

LEMMA StoreCellKeeps ==
  ASSUME IInv, StoreCell
  PROVE  IInv'
<1> USE DEF IInv, StoreCell, Main, Goto, registers, irq
<1>1. TypeOK'
  <2>1. Intended[i] \in 0..255
    BY IntendedBytes DEF Place
  <2>2. shown' \in Texts
    BY <2>1, ShowTypes DEF TypeOK
  <2>3. video' \in [Cells -> Cell]
    BY DEF TypeOK
  <2> QED
    BY <2>2, <2>3, Sizes DEF TypeOK, Label
<1>2. Bounds'
  BY Sizes DEF TypeOK, Bounds, XSmall, YSmall, Settled
<1>3. Place'
  BY DEF Place, Str, IsHex
<1>4. Same'
  BY DEF Same, InCell
<1>5. OneCursor'
  <2>1. At(row, col) \in Cells
    BY AtInCells DEF TypeOK
  <2>2. ASSUME "cell" \notin hit
        PROVE  \A k \in Cells : video'[k].swapped = video[k].swapped
    BY <2>1, <2>2 DEF TypeOK, Same
  <2> QED
    BY <2>2 DEF OneCursor, InverseCells, CursorCell
<1>6. Literal'
  BY DEF Literal, InLiteral, Intended, IsHex
<1>7. Text'
  <2> SUFFICES ASSUME hit \intersect {"character", "literal"} = {} PROVE Text'
    BY DEF Text
  <2>1. /\ row = y /\ col = x /\ Reached(video, shown, At(y, x)) /\ y < Height /\ x < Width
    BY DEF Text, Registers, Progress, Bounds, XSmall, YSmall
  <2>2. value.char = Intended[i] /\ Intended[i] # NL /\ value.char \in 0..255 /\ value \in Cell
    BY DEF Literal, TypeOK, Cell
  <2>3. At(y, x) \in OnTheScreen
    BY <2>1, AtCounts DEF TypeOK
  <2>4. \A k \in OnTheScreen : video'[k].char = IF k = At(y, x) THEN value.char ELSE video[k].char
    BY <2>1, <2>3, ScreenIsCells DEF TypeOK
  <2>5. Reached(video', Show(shown, value.char), At(y, x) + 1)
    <3>1. shown \in Texts /\ value.char # NL
      BY <2>2 DEF TypeOK
    <3> QED
      BY ONLY <2>1, <2>2, <2>3, <2>4, <3>1, ShowReaches
  <2> QED
    BY <2>2, <2>5 DEF Text, Registers, Progress
<1> QED
  BY <1>1, <1>2, <1>3, <1>4, <1>5, <1>6, <1>7

LEMMA ReturnKeeps ==
  ASSUME IInv, Return
  PROVE  IInv'
<1> USE DEF IInv, Return, Main, Goto, registers, irq
<1>1. TypeOK'
  <2>1. shown' \in Texts
    BY ShowTypes DEF TypeOK, NL
  <2> QED
    BY <2>1, Sizes DEF TypeOK, Label, Bounds, XSmall, YSmall
<1>2. Bounds'
  BY Sizes DEF TypeOK, Bounds, XSmall, YSmall, Settled
<1>3. Place'
  BY DEF Place, Str, IsHex
<1>4. Same'
  BY DEF Same, InCell
<1>5. OneCursor'
  BY DEF OneCursor, InverseCells, CursorCell
<1>6. Literal'
  BY DEF Literal, InLiteral, Intended, IsHex
<1>7. Text'
  <2> SUFFICES ASSUME hit \intersect {"character", "literal"} = {} PROVE Text'
    BY DEF Text
  <2>1. loaded + 1 = y /\ Reached(video, shown, At(loaded, x)) /\ x < Width
    BY DEF Text, Registers, Progress, Bounds, XSmall
  <2>2. loaded \in Nat /\ loaded < Height
    BY <2>1, Sizes DEF TypeOK
  <2>3. Reached(video, Show(shown, NL), At(y, 0))
    BY <2>1, <2>2, NewlineReaches DEF TypeOK
  <2> QED
    BY <2>3 DEF Text, Registers, Progress
<1> QED
  BY <1>1, <1>2, <1>3, <1>4, <1>5, <1>6, <1>7

LEMMA TestXKeeps ==
  ASSUME IInv, TestX
  PROVE  IInv'
<1> USE DEF IInv, TestX, Main, Goto, screen, registers, irq
<1>1. TypeOK'
  BY Sizes DEF TypeOK, Label, Bounds, XSmall, YSmall
<1>2. Bounds'
  BY Sizes DEF TypeOK, Bounds, XSmall, YSmall, Settled
<1>3. Place'
  BY DEF Place, Str, IsHex
<1>4. Same'
  BY DEF Same, InCell
<1>5. OneCursor'
  BY DEF OneCursor, InverseCells, CursorCell
<1>6. Literal'
  BY DEF Literal, InLiteral, Intended, IsHex
<1>7. Text'
  BY Sizes DEF TypeOK, Text, Registers, Progress
<1> QED
  BY <1>1, <1>2, <1>3, <1>4, <1>5, <1>6, <1>7

LEMMA TestYKeeps ==
  ASSUME IInv, TestY
  PROVE  IInv'
<1> USE DEF IInv, TestY, Main, Goto, NextChar, screen, registers, irq
<1>1. TypeOK'
  BY Sizes DEF TypeOK, Label, Bounds, XSmall, YSmall
<1>2. Bounds'
  BY Sizes DEF TypeOK, Bounds, XSmall, YSmall, Settled
<1>3. Place'
  BY DEF Place, Str, IsHex
<1>4. Same'
  BY DEF Same, InCell
<1>5. OneCursor'
  BY DEF OneCursor, InverseCells, CursorCell
<1>6. Literal'
  BY DEF Literal, InLiteral, Intended, IsHex
<1>7. Text'
  <2>1. ASSUME y >= Height, Reached(video, shown, At(y, x)) PROVE ClearedTo(video, shown, 0)
    <3>1. At(y, x) \notin OnTheScreen
      BY <2>1, AtCounts, Sizes DEF TypeOK
    <3> QED
      BY <2>1, <3>1 DEF Reached, ClearedTo, OnTheScreen
  <2> QED
    BY <2>1 DEF Text, Registers, Progress
<1> QED
  BY <1>1, <1>2, <1>3, <1>4, <1>5, <1>6, <1>7

LEMMA ClearFirstKeeps ==
  ASSUME IInv, ClearFirst
  PROVE  IInv'
<1> USE DEF IInv, ClearFirst, Main, Goto, registers, irq
<1>1. TypeOK'
  BY Sizes DEF TypeOK, Label, Bounds, XSmall, YSmall
<1>2. Bounds'
  BY Sizes DEF TypeOK, Bounds, XSmall, YSmall, Settled
<1>3. Place'
  BY DEF Place, Str, IsHex
<1>4. Same'
  BY DEF Same, InCell
<1>5. OneCursor'
  BY DEF OneCursor, InverseCells, CursorCell
<1>6. Literal'
  BY DEF Literal, InLiteral, Intended, IsHex
<1>7. Text'
  BY ScreenIsCells DEF Text, Registers, Progress
<1> QED
  BY <1>1, <1>2, <1>3, <1>4, <1>5, <1>6, <1>7

LEMMA ClearRowTestKeeps ==
  ASSUME IInv, ClearRowTest
  PROVE  IInv'
<1> USE DEF IInv, ClearRowTest, Main, Goto, screen, registers, irq
<1>1. TypeOK'
  BY Sizes DEF TypeOK, Label, Bounds, XSmall, YSmall
<1>2. Bounds'
  BY Sizes DEF TypeOK, Bounds, XSmall, YSmall, Settled
<1>3. Place'
  BY DEF Place, Str, IsHex
<1>4. Same'
  BY DEF Same, InCell
<1>5. OneCursor'
  BY DEF OneCursor, InverseCells, CursorCell
<1>6. Literal'
  BY DEF Literal, InLiteral, Intended, IsHex
<1>7. Text'
  <2>1. CASE y >= Height
    <3>1. y = Height
      BY <2>1, Sizes DEF TypeOK
    <3>2. At(y, 0) = Height * Width
      BY ONLY <3>1, AtCounts, Sizes
    <3> QED
      BY <2>1, <3>2 DEF Text, Registers, Progress
  <2>2. CASE y < Height
    BY <2>2 DEF Text, Registers, Progress
  <2> QED
    BY <2>1, <2>2, Sizes DEF TypeOK
<1> QED
  BY <1>1, <1>2, <1>3, <1>4, <1>5, <1>6, <1>7

LEMMA ClearColTestKeeps ==
  ASSUME IInv, ClearColTest
  PROVE  IInv'
<1> USE DEF IInv, ClearColTest, Main, Goto, screen, registers, irq
<1>1. TypeOK'
  BY Sizes DEF TypeOK, Label, Bounds, XSmall, YSmall
<1>2. Bounds'
  BY Sizes DEF TypeOK, Bounds, XSmall, YSmall, Settled
<1>3. Place'
  BY DEF Place, Str, IsHex
<1>4. Same'
  BY DEF Same, InCell
<1>5. OneCursor'
  BY DEF OneCursor, InverseCells, CursorCell
<1>6. Literal'
  BY DEF Literal, InLiteral, Intended, IsHex
<1>7. Text'
  <2>1. CASE x >= Width
    <3>1. x = Width /\ y \in Nat
      BY <2>1, Sizes DEF TypeOK
    <3>2. At(y, x) = At(y + 1, 0)
      BY ONLY <3>1, AtCounts, Sizes
    <3> QED
      BY <2>1, <3>1, <3>2 DEF Text, Registers, Progress
  <2>2. CASE x < Width
    BY <2>2 DEF Text, Registers, Progress
  <2> QED
    BY <2>1, <2>2, Sizes DEF TypeOK
<1> QED
  BY <1>1, <1>2, <1>3, <1>4, <1>5, <1>6, <1>7

LEMMA ClearLoadKeeps ==
  ASSUME IInv, ClearLoad
  PROVE  IInv'
<1> USE DEF IInv, ClearLoad, Main, Goto, screen, irq
<1>1. TypeOK'
  <2>1. At(row, col) \in Cells /\ video \in [Cells -> Cell]
    BY AtInCells DEF TypeOK
  <2>2. video[At(row, col)] \in Cell
    BY ONLY <2>1
  <2>3. video[At(row, col)].char \in 0..255
    BY ONLY <2>2 DEF Cell
  <2>4. OrBlank(video[At(row, col)].char) \in 0..255
    BY ONLY <2>3, OrBlankByte
  <2>5. value' = [video[At(row, col)] EXCEPT !.char = OrBlank(video[At(row, col)].char)]
    OBVIOUS
  <2>6. value' \in Cell
    BY ONLY <2>2, <2>4, <2>5 DEF Cell
  <2> QED
    BY <2>6, Sizes DEF TypeOK, Label
<1>2. Bounds'
  BY Sizes DEF TypeOK, Bounds, XSmall, YSmall, Settled
<1>3. Place'
  BY DEF Place, Str, IsHex
<1>4. Same'
  BY DEF Same, InCell
<1>5. OneCursor'
  BY DEF OneCursor, InverseCells, CursorCell
<1>6. Literal'
  BY DEF Literal, InLiteral, Intended, IsHex
<1>7. Text'
  <2>1. value'.char = OrBlank(video[At(row, col)].char)
    BY AtInCells DEF TypeOK, Cell
  <2> QED
    BY <2>1 DEF Text, Registers, Progress
<1> QED
  BY <1>1, <1>2, <1>3, <1>4, <1>5, <1>6, <1>7

LEMMA ClearStoreKeeps ==
  ASSUME IInv, ClearStore
  PROVE  IInv'
<1> USE DEF IInv, ClearStore, Main, Goto, registers, irq
<1>1. TypeOK'
  BY Sizes DEF TypeOK, Label, Bounds, XSmall, YSmall
<1>2. Bounds'
  BY Sizes DEF TypeOK, Bounds, XSmall, YSmall, Settled
<1>3. Place'
  BY DEF Place, Str, IsHex
<1>4. Same'
  BY DEF Same, InCell
<1>5. OneCursor'
  <2>1. At(row, col) \in Cells
    BY AtInCells DEF TypeOK
  <2>2. ASSUME "cell" \notin hit
        PROVE  \A k \in Cells : video'[k].swapped = video[k].swapped
    BY <2>1, <2>2 DEF TypeOK, Same
  <2> QED
    BY <2>2 DEF OneCursor, InverseCells, CursorCell
<1>6. Literal'
  BY DEF Literal, InLiteral, Intended, IsHex
<1>7. Text'
  <2> SUFFICES ASSUME hit \intersect {"character", "literal"} = {} PROVE Text'
    BY DEF Text
  <2>1. /\ row = y /\ col = x /\ value.char = OrBlank(video[At(y, x)].char)
        /\ ClearedTo(video, shown, At(y, x)) /\ y < Height /\ x < Width
    BY DEF Text, Registers, Progress, Bounds, XSmall, YSmall
  <2>2. At(y, x) \in OnTheScreen
    BY <2>1, AtCounts DEF TypeOK
  <2>3. \A k \in OnTheScreen : video'[k].char = IF k = At(y, x) THEN value.char ELSE video[k].char
    BY <2>1, <2>2, ScreenIsCells DEF TypeOK
  <2>4. \A k \in OnTheScreen :
            video'[k].char = IF k = At(y, x) THEN OrBlank(video[k].char) ELSE video[k].char
    BY ONLY <2>1, <2>3
  <2>5. video \in [Cells -> Cell]
    BY DEF TypeOK
  <2>6. ClearedTo(video', shown, At(y, x) + 1)
    BY ONLY <2>1, <2>2, <2>4, <2>5, ClearsNext
  <2> QED
    BY <2>6 DEF Text, Registers, Progress
<1> QED
  BY <1>1, <1>2, <1>3, <1>4, <1>5, <1>6, <1>7

LEMMA ClearLastKeeps ==
  ASSUME IInv, ClearLast
  PROVE  IInv'
<1> USE DEF IInv, ClearLast, Main, NextChar, registers, irq
<1>1. TypeOK'
  BY Sizes DEF TypeOK, Label, Bounds, XSmall, YSmall
<1>2. Bounds'
  BY Sizes DEF TypeOK, Bounds, XSmall, YSmall, Settled
<1>3. Place'
  BY DEF Place, Str, IsHex
<1>4. Same'
  BY DEF Same, InCell
<1>5. OneCursor'
  BY DEF OneCursor, InverseCells, CursorCell
<1>6. Literal'
  BY DEF Literal, InLiteral, Intended, IsHex
<1>7. Text'
  <2>1. ClearedTo(video, shown, Height * Width) => Reached(video, shown, At(0, 0))
    BY ScreenIsCells, Sizes DEF ClearedTo, Reached, OnTheScreen
  <2> QED
    BY <2>1 DEF Text, Registers, Progress
<1> QED
  BY <1>1, <1>2, <1>3, <1>4, <1>5, <1>6, <1>7

LEMMA IretKeeps ==
  ASSUME IInv, Iret
  PROVE  IInv'
<1> USE DEF IInv, Iret, screen, place, registers
<1>1. TypeOK'
  BY Sizes DEF TypeOK, Label, Bounds, XSmall, YSmall
<1>2. Bounds'
  BY Sizes DEF TypeOK, Bounds, XSmall, YSmall, Settled
<1>3. Place'
  BY DEF Place, Str, IsHex
<1>4. Same'
  BY DEF Same, InCell
<1>5. OneCursor'
  BY DEF OneCursor, InverseCells, CursorCell
<1>6. Literal'
  BY DEF Literal, InLiteral, Intended, IsHex
<1>7. Text'
  BY DEF Text, Registers, Progress
<1> QED
  BY <1>1, <1>2, <1>3, <1>4, <1>5, <1>6, <1>7

LEMMA StutterKeeps ==
  ASSUME IInv, UNCHANGED vars
  PROVE  IInv'
<1> USE DEF IInv, screen, place, registers, irq, vars
<1>1. TypeOK'
  BY Sizes DEF TypeOK, Label, Bounds, XSmall, YSmall
<1>2. Bounds'
  BY Sizes DEF TypeOK, Bounds, XSmall, YSmall, Settled
<1>3. Place'
  BY DEF Place, Str, IsHex
<1>4. Same'
  BY DEF Same, InCell
<1>5. OneCursor'
  BY DEF OneCursor, InverseCells, CursorCell
<1>6. Literal'
  BY DEF Literal, InLiteral, Intended, IsHex
<1>7. Text'
  BY DEF Text, Registers, Progress, InCharacter
<1> QED
  BY <1>1, <1>2, <1>3, <1>4, <1>5, <1>6, <1>7

-----------------------------------------------------------------------------
(* An interrupt. *)

LEMMA InterruptKeeps ==
  ASSUME IInv, NEW h \in Interrupts, Interrupt(h)
  PROVE  IInv'
<1> USE DEF IInv, Interrupt, screen, place, registers
<1>1. h.number \in 0..255 /\ h.text \in Seq(0..255) /\ h.move \subseteq Int \X Int
  BY InterruptsAssumption
<1>2. Digits(h.number) \in [1..2 -> 0..255] /\ Digits(h.number) \in Seq(0..255)
  BY ONLY <1>1, DigitsBytes
<1>3. text' \in Seq(0..255) /\ text' # <<>>
  <2>1. /\ Greeting \o Digits(h.number) \in Seq(0..255)
        /\ Len(Greeting \o Digits(h.number)) = Len(Greeting) + Len(Digits(h.number))
    BY ONLY <1>2, GreetingAssumption, ConcatProperties
  <2>2. text' \in Seq(0..255) /\ Len(text') = Len(Greeting) + Len(Digits(h.number)) + Len(h.text)
    <3>1. text' = Greeting \o Digits(h.number) \o h.text
      OBVIOUS
    <3> QED
      BY ONLY <1>1, <2>1, <3>1, ConcatProperties
  <2>3. Len(Greeting) \in Nat /\ Len(h.text) \in Nat /\ Len(Digits(h.number)) = 2
    <3>1. Len(Greeting) \in Nat
      BY ONLY GreetingAssumption, LenProperties
    <3>2. Len(h.text) \in Nat
      BY ONLY <1>1, LenProperties
    <3>3. Len(Digits(h.number)) = 2
      BY ONLY <1>1, DigitsBytes
    <3> QED
      BY <3>1, <3>2, <3>3
  <2>4. \A m, n \in Nat : m + 2 + n # 0
    OBVIOUS
  <2>5. Len(text') # 0
    BY ONLY <2>2, <2>3, <2>4, Zenon
  <2> QED
    BY ONLY <2>2, <2>5, EmptySeq
<1>4. TypeOK'
  <2>1. hit' \subseteq {"character", "cell", "literal"}
    BY Zenon DEF TypeOK
  <2>2. interrupts' \in 0 .. MaxInterrupts
    BY BoundAssumption DEF TypeOK
  <2> QED
    BY <1>1, <1>2, <1>3, <2>1, <2>2 DEF TypeOK
<1>5. Bounds'
  BY DEF Bounds, Settled
<1>6. Place'
  <2>1. IsHex => Len(Str') = 2 /\ Len(Str) = 2
    <3>1. Len(foo) = 2 /\ Len(foo') = 2
      <4>1. foo \in [1..2 -> 0..255] /\ foo' = Digits(h.number)
        BY DEF TypeOK
      <4> QED
        BY ONLY <1>2, <4>1, PairLength
    <3> QED
      BY <3>1 DEF Str, IsHex
  <2>2. ~IsHex => Str' = Str
    BY DEF Str, IsHex
  <2> QED
    BY <1>3, <2>1, <2>2 DEF Place
<1>7. Same'
  BY DEF Same, InCell
<1>8. OneCursor'
  BY DEF OneCursor, InverseCells, CursorCell
<1>9. /\ hit \subseteq hit'
      /\ "character" \notin hit' => ~InCharacter
      /\ "literal" \notin hit' => ~InLiteral
  OBVIOUS
<1>10. Literal'
  BY <1>9 DEF Literal, InLiteral, Intended, IsHex
<1>11. Text'
  BY <1>9 DEF Text, Registers, Progress, InCharacter
<1> QED
  BY <1>4, <1>5, <1>6, <1>7, <1>8, <1>10, <1>11

LEMMA HandlerPrintsKeeps ==
  ASSUME IInv, HandlerPrints
  PROVE  IInv'
<1> USE DEF IInv, HandlerPrints, place, registers
<1>1. Head(text) \in 0..255 /\ Tail(text) \in Seq(0..255)
  <2>1. text \in Seq(0..255) /\ text # <<>>
    BY DEF TypeOK
  <2> QED
    BY ONLY <2>1, HeadTailProperties
<1>2. /\ video' \in [Cells -> Cell]
      /\ \A k \in Cells : video'[k].swapped = video[k].swapped
      /\ x' \in 0 .. Width /\ y' \in 0 .. Height /\ Settled'
  <2> DEFINE r == Printed(Screen(video, x, y), Head(text))
  <2>1. video' = r.video /\ x' = r.x /\ y' = r.y
    OBVIOUS
  <2>2. video \in [Cells -> Cell] /\ x \in 0 .. Width /\ y \in 0 .. Height
    BY DEF TypeOK
  <2>3. /\ r.video \in [Cells -> Cell]
        /\ \A k \in Cells : r.video[k].swapped = video[k].swapped
        /\ r.x \in 0 .. Width /\ r.x < Width
        /\ r.y \in 0 .. Height /\ r.y < Height
    BY ONLY <1>1, <2>2, PrintedSettles
  <2> QED
    BY ONLY <2>1, <2>3 DEF Settled
<1>3. TypeOK'
  <2>1. shown' \in Texts
    BY <1>1, ShowTypes DEF TypeOK
  <2> QED
    BY <1>1, <1>2, <2>1 DEF TypeOK
<1>4. Bounds'
  BY <1>2 DEF Bounds, Settled
<1>5. Place'
  BY DEF Place, Str, IsHex
<1>6. Same'
  BY DEF Same, InCell
<1>7. OneCursor'
  BY <1>2 DEF OneCursor, InverseCells, CursorCell
<1>8. Literal'
  BY DEF Literal, InLiteral, Intended, IsHex
<1>9. Text'
  <2> SUFFICES ASSUME hit \intersect {"character", "literal"} = {} PROVE Text'
    BY DEF Text
  <2>1. ~InCharacter
    BY DEF Text
  <2>2. Settled /\ Reached(video, shown, At(y, x))
    BY <2>1, Sizes DEF InCharacter, Text, Progress, Bounds, XSmall, YSmall, Settled, TypeOK, Label
  <2>3. Reached(video', shown', At(y', x'))
    <3> DEFINE r == Printed(Screen(video, x, y), Head(text))
    <3>1. video' = r.video /\ x' = r.x /\ y' = r.y /\ shown' = Show(shown, Head(text))
      OBVIOUS
    <3>2. /\ video \in [Cells -> Cell] /\ x \in 0 .. Width /\ y \in 0 .. Height /\ shown \in Texts
          /\ x < Width /\ y < Height
      BY <2>2 DEF TypeOK, Settled
    <3>3. Reached(r.video, Show(shown, Head(text)), At(r.y, r.x))
      BY ONLY <1>1, <2>2, <3>2, PrintedShows
    <3> QED
      BY ONLY <3>1, <3>3
  <2>4. ~InCharacter'
    BY <1>2, <2>1, Sizes DEF InCharacter, Settled
  <2> QED
    BY <2>1, <2>3, <2>4 DEF Text, Registers, Progress, InCharacter
<1> QED
  BY <1>3, <1>4, <1>5, <1>6, <1>7, <1>8, <1>9

\* Whatever a packet's bytes are, the cursor stays on the screen.
LEMMA ClampedBelow ==
  ASSUME NEW p \in Int, NEW n \in Nat \ {0}
  PROVE  Clamped(Int8(p), n) \in 0 .. (n - 1)
  BY DEF Clamped, Int8

\* Swapping the colours of a cell changes no other.
LEMMA SwappedCells ==
  ASSUME NEW v \in [Cells -> Cell], NEW k \in Cells
  PROVE  /\ Swapped(v, k) \in [Cells -> Cell]
         /\ \A n \in Cells : Swapped(v, k)[n].swapped
                               <=> (v[n].swapped /\ n # k) \/ (~v[n].swapped /\ n = k)
<1>1. v[k] \in Cell /\ v[k].swapped \in BOOLEAN
  BY DEF Cell
<1>2. /\ [v[k] EXCEPT !.swapped = ~v[k].swapped] \in Cell
      /\ [v[k] EXCEPT !.swapped = ~v[k].swapped].swapped = ~v[k].swapped
  BY <1>1 DEF Cell
<1>3. Swapped(v, k) = [v EXCEPT ![k] = [v[k] EXCEPT !.swapped = ~v[k].swapped]]
  BY DEF Swapped
<1> QED
  BY <1>2, <1>3

\* Nor any character.
LEMMA SwappedChars ==
  ASSUME NEW v \in [Cells -> Cell], NEW k \in Cells, NEW l \in Cells
  PROVE  \A n \in Cells : Swapped(Swapped(v, k), l)[n].char = v[n].char
<1>1. ASSUME NEW u \in [Cells -> Cell], NEW m \in Cells
      PROVE  \A n \in Cells : Swapped(u, m)[n].char = u[n].char
  BY DEF Swapped, Cell
<1>2. Swapped(v, k) \in [Cells -> Cell]
  BY SwappedCells
<1> QED
  BY <1>1, <1>2

\* Taking the colours back from the cell that has them swapped and swapping
\* those of another leaves that one alone.
LEMMA CursorMoves ==
  ASSUME NEW v \in [Cells -> Cell], NEW k \in Cells, NEW l \in Cells, InverseCells(v) = {k}
  PROVE  InverseCells(Swapped(Swapped(v, k), l)) = {l}
<1>1. Swapped(v, k) \in [Cells -> Cell]
  BY SwappedCells
<1>2. \A n \in Cells : Swapped(v, k)[n].swapped
        <=> (v[n].swapped /\ n # k) \/ (~v[n].swapped /\ n = k)
  BY SwappedCells
<1>3. \A n \in Cells : Swapped(Swapped(v, k), l)[n].swapped
        <=> (Swapped(v, k)[n].swapped /\ n # l) \/ (~Swapped(v, k)[n].swapped /\ n = l)
  BY <1>1, SwappedCells
<1> QED
  BY <1>2, <1>3, Zenon DEF InverseCells

LEMMA MouseMoveKeeps ==
  ASSUME IInv, MouseMove
  PROVE  IInv'
<1> USE DEF IInv, MouseMove, place, registers
<1>1. cursor' \in (0..(Width - 1)) \X (0..(Height - 1))
  <2>1. PICK m \in move : cursor' = <<Clamped(Int8(cursor[1] + m[1]), Width),
                                      Clamped(Int8(cursor[2] - m[2]), Height)>>
    OBVIOUS
  <2>2. m[1] \in Int /\ m[2] \in Int /\ cursor[1] \in Int /\ cursor[2] \in Int
    BY Sizes DEF TypeOK
  <2>3. cursor[1] + m[1] \in Int /\ cursor[2] - m[2] \in Int
    BY <2>2
  <2> QED
    BY <2>1, <2>3, ClampedBelow, WidthAssumption, HeightAssumption
<1>2. CursorCell \in Cells /\ CursorCell' \in Cells
  BY <1>1, AtInCells, Sizes DEF TypeOK, CursorCell
<1>3. video' = Swapped(Swapped(video, CursorCell), CursorCell')
  OBVIOUS
<1>4. video' \in [Cells -> Cell]
  BY <1>2, <1>3, SwappedCells DEF TypeOK
<1>5. TypeOK'
  BY <1>1, <1>4 DEF TypeOK
<1>6. Bounds'
  BY DEF Bounds, Settled
<1>7. Place'
  BY DEF Place, Str, IsHex
<1>8. Same'
  BY DEF Same, InCell
<1>9. OneCursor'
  <2>1. video \in [Cells -> Cell] /\ hit' = hit
    BY DEF TypeOK
  <2>2. \A k, l \in Cells :
           InverseCells(video) = {k} => InverseCells(Swapped(Swapped(video, k), l)) = {l}
    BY ONLY <2>1, CursorMoves, Zenon
  <2>3. InverseCells(video) = {CursorCell} => InverseCells(video)' = {CursorCell'}
    BY ONLY <1>2, <1>3, <2>2, Zenon
  <2> QED
    BY ONLY <2>1, <2>3, OneCursor DEF OneCursor
<1>10. Literal'
  BY DEF Literal, InLiteral, Intended, IsHex
<1>11. Text'
  <2> SUFFICES ASSUME hit \intersect {"character", "literal"} = {} PROVE Text'
    BY DEF Text
  <2>1. ~InCharacter /\ ~InCharacter'
    BY DEF Text, InCharacter
  <2>2. Settled /\ Reached(video, shown, At(y, x))
    <3>1. x \in 0 .. Width /\ y \in 0 .. Height /\ pc \in Label
      BY DEF TypeOK
    <3>2. Settled
      BY ONLY <2>1, <3>1, Sizes, Bounds DEF InCharacter, Bounds, XSmall, YSmall, Settled, Label
    <3>3. Reached(video, shown, At(y, x))
      BY <2>1, <3>1 DEF InCharacter, Text, Progress, Label
    <3> QED
      BY ONLY <3>2, <3>3
  <2>3. \A k \in OnTheScreen : video'[k].char = video[k].char
    <3>1. video \in [Cells -> Cell]
      BY DEF TypeOK
    <3>2. \A k \in Cells : video'[k].char = video[k].char
      BY ONLY <1>2, <1>3, <3>1, SwappedChars
    <3> QED
      BY ONLY <3>2, ScreenIsCells
  <2>4. Reached(video', shown', At(y', x'))
    BY <2>2, <2>3 DEF Reached
  <2> QED
    BY <2>1, <2>4 DEF Text, Registers, Progress, InCharacter
<1> QED
  BY <1>5, <1>6, <1>7, <1>8, <1>9, <1>10, <1>11

-----------------------------------------------------------------------------
(* The invariant and what follows from it. *)

LEMMA InitIInv == Init => IInv
<1> SUFFICES ASSUME Init PROVE IInv
  OBVIOUS
<1> USE DEF Init
<1>1. cursor \in (0..(Width - 1)) \X (0..(Height - 1))
  BY Sizes
<1>2. CursorCell \in Cells
  BY <1>1, AtInCells, Sizes DEF CursorCell
<1>3. video \in [Cells -> Cell] /\ \A k \in Cells : video[k].swapped <=> k = CursorCell
  <2> DEFINE First(k) == [char |-> Blank, swapped |-> k = CursorCell]
  <2>1. ASSUME NEW k \in Cells
        PROVE  First(k) \in Cell /\ (First(k).swapped <=> k = CursorCell)
    <3>1. (k = CursorCell) \in BOOLEAN /\ Blank \in 0..255
      BY DEF Blank
    <3>2. \A b \in BOOLEAN : [char |-> Blank, swapped |-> b] \in Cell
      BY <3>1 DEF Cell
    <3> QED
      BY <3>1, <3>2
  <2>2. video = [k \in Cells |-> First(k)]
    OBVIOUS
  <2> HIDE DEF First
  <2> QED
    BY <2>1, <2>2
<1>4. TypeOK
  <2>1. foo \in [1..2 -> 0..255]
    BY 0 \in 0..255, DigitsBytes
  <2>2. value \in Cell
    BY DEF Cell, Blank
  <2>3. text \in Seq(0..255)
    OBVIOUS
  <2>4. Len(Calls) \in Nat
    BY CallsAssumption, LenProperties
  <2>5. shown \in Texts
    BY ScreenIsCells DEF Texts, Blank
  <2> QED
    BY <1>1, <1>3, <2>1, <2>2, <2>3, <2>4, <2>5, Sizes, BoundAssumption DEF TypeOK, Label
<1>5. Bounds
  BY Sizes DEF Bounds
<1>6. Place
  BY DEF Place
<1>7. Same
  BY DEF Same, InCell
<1>8. OneCursor
  BY <1>2, <1>3 DEF OneCursor, InverseCells
<1>9. Literal
  BY DEF Literal, InLiteral
<1>10. Text
  <2>1. \A k \in OnTheScreen : video[k].char = Blank /\ shown.chars[k] = Blank
    BY ScreenIsCells
  <2>2. Reached(video, shown, At(y, x))
    BY <2>1, ScreenIsCells DEF Reached
  <2> QED
    BY <2>2 DEF Text, Registers, Progress
<1> QED
  BY <1>4, <1>5, <1>6, <1>7, <1>8, <1>9, <1>10 DEF IInv

LEMMA NextIInv ==
  ASSUME IInv, [Next]_vars
  PROVE  IInv'
<1>1. CASE MainPrints
  BY <1>1, CallKeeps, StoreDigitKeeps, FetchKeeps, LoadYKeeps, StoreYKeeps, ReturnKeeps,
     LoadRowKeeps, LoadColKeeps, LoadCellKeeps, StoreCellKeeps, LoadXKeeps, StoreXKeeps, TestXKeeps, ZeroXKeeps,
     TestYKeeps DEF MainPrints
<1>2. CASE MainClears
  BY <1>2, ClearFirstKeeps, ClearRowTestKeeps, ZeroXKeeps, ClearColTestKeeps, LoadRowKeeps,
     LoadColKeeps, ClearLoadKeeps, ClearStoreKeeps, LoadXKeeps, StoreXKeeps, LoadYKeeps,
     StoreYKeeps, ClearLastKeeps DEF MainClears
<1>3. CASE \E h \in Interrupts : Interrupt(h)
  BY <1>3, InterruptKeeps
<1>4. CASE HandlerPrints \/ MouseMove \/ Iret
  BY <1>4, HandlerPrintsKeeps, MouseMoveKeeps, IretKeeps
<1>5. CASE Loop \/ UNCHANGED vars
  BY <1>5, StutterKeeps DEF Loop
<1> QED
  BY <1>1, <1>2, <1>3, <1>4, <1>5 DEF Next

LEMMA Invariant == Spec => []IInv
<1>1. IInv /\ [Next]_vars => IInv'
  BY NextIInv
<1> QED
  BY <1>1, InitIInv, PTL DEF Spec

\* Type correctness: in particular no store, of the main thread or of a handler,
\* leaves the screen, the row below it and the one cell after that, and a packet
\* never takes the cursor off the screen.
THEOREM TypeCorrect == Spec => []TypeOK
<1>1. IInv => TypeOK
  BY DEF IInv
<1> QED
  BY <1>1, Invariant, PTL

\* OnScreen: wherever interrupts come, also between the loads of x and y and the
\* store, the main thread's printf stores within the screen.
THEOREM StaysOnScreen == Spec => []OnScreen
<1>1. IInv => OnScreen
  BY DEF IInv, TypeOK, Bounds, OnScreen, Settled, XSmall, YSmall
<1> QED
  BY <1>1, Invariant, PTL

\* OneCursor: unless an interrupt comes between the load and the store of a
\* cell, the cursor's cell and no other has its colours swapped.
THEOREM OneCursorShown == Spec => []OneCursor
<1>1. IInv => OneCursor
  BY DEF IInv
<1> QED
  BY <1>1, Invariant, PTL

\* TextInOrder: whatever the main thread and the handlers print, the screen shows
\* it in the order in which they did, with the next character behind it, unless
\* an interrupt came into the middle of a character or of printfHex's use of its
\* literal.
THEOREM ShownInOrder == Spec => []TextInOrder
<1>1. IInv => TextInOrder
  <2> SUFFICES ASSUME IInv, pc \in {"idle", "fetch"},
                      hit \intersect {"character", "literal"} = {}
               PROVE  At(y, x) = shown.p /\ \A k \in OnTheScreen : video[k].char = shown.chars[k]
    BY DEF TextInOrder
  <2>1. Reached(video, shown, At(y, x)) /\ x \in 0 .. Width /\ y \in Nat /\ x < Width /\ y < Height
    BY Sizes DEF IInv, Text, Progress, TypeOK, Bounds, XSmall, YSmall
  <2>2. At(y, x) \in OnTheScreen
    BY <2>1, AtCounts
  <2> QED
    BY <2>1, <2>2 DEF Reached
<1> QED
  BY <1>1, Invariant, PTL
=============================================================================
