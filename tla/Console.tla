------------------------------ MODULE Console ------------------------------
(***************************************************************************)
(* The text console of src/GubiOs/src/kernel.cpp: printf and printfHex,    *)
(* run by the main thread and by every interrupt handler on the same       *)
(* static x and y, the same string literal and the same video memory, and  *)
(* the mouse cursor, which only handlers move.                             *)
(*                                                                         *)
(* The kernel is compiled without optimisation, so each statement loads x  *)
(* and y from memory and stores them back: an interrupt can come between   *)
(* any two of these, also inside "x++" and between the load and the store  *)
(* of a cell.  The main thread is modelled at that grain; a handler, which *)
(* nothing interrupts, prints a character in one step.                     *)
(***************************************************************************)
EXTENDS Integers, Sequences

CONSTANTS Width, Height,    \* 80 and 25 in the code
          Calls,            \* the main thread's calls, in order
          Interrupts,       \* what an interrupt may print and move
          Greeting,         \* what the dispatcher prints before the number
          MaxInterrupts     \* bound

ASSUME WidthAssumption == Width \in Nat \ {0}
ASSUME HeightAssumption == Height \in Nat \ {0}
ASSUME CallsAssumption == Calls \in Seq([hex : BOOLEAN, str : Seq(0..255), key : 0..255])
ASSUME InterruptsAssumption ==
    Interrupts \subseteq [number : 0..255, text : Seq(0..255), move : SUBSET (Int \X Int)]
ASSUME GreetingAssumption == Greeting \in Seq(0..255)
ASSUME BoundAssumption == MaxInterrupts \in Nat

VARIABLES
    video,        \* the cells: a character and whether its colours are swapped
    x, y,         \* printf's static variables
    foo,          \* printfHex's string literal
    call, i, pc,  \* the call the main thread is in, its index and its place
    row, col,     \* y and x as the main thread loaded them for an address
    loaded,       \* x or y as it loaded them to increment
    value,        \* the cell it is about to store
    handler,      \* "off", "entered", or "printing" after a first character
    text, move,   \* what the handler still has to print, and to move
    cursor,       \* MouseCursor's x and y
    interrupts,   \* interrupts so far
    shown,        \* auxiliary: what the characters printed, by either, should look like
    hit           \* auxiliary: what an interrupt came into

screen == <<video, x, y>>
place == <<call, i, pc>>
registers == <<row, col, loaded, value>>
irq == <<handler, text, move, cursor, interrupts>>
vars == <<screen, foo, place, registers, irq, shown, hit>>

NL == 10
Blank == 32
Hex(d) == IF d < 10 THEN 48 + d ELSE 55 + d
Digits(key) == <<Hex(key \div 16), Hex(key % 16)>>

\* "|= ' '" sets bit 5 of a character.
OrBlank(c) == IF (c \div 32) % 2 = 1 THEN c ELSE c + 32

\* The video memory a store can reach: the screen, a row below it, and one cell.
Cells == 0..((Height + 1) * Width)
OnTheScreen == 0..(Height * Width - 1)
At(r, c) == r * Width + c
CursorCell == At(cursor[2], cursor[1])

\* What a printed character should do to the text that is shown: one position
\* counts the cells; a newline moves it to a multiple of the width, and past the
\* last cell it goes back to the start and the screen is cleared.
Show(s, c) ==
    LET p == IF c = NL THEN (s.p \div Width + 1) * Width ELSE s.p + 1
        d == IF c = NL THEN s.chars ELSE [s.chars EXCEPT ![s.p] = c]
    IN IF p \in OnTheScreen THEN [p |-> p, chars |-> d]
       ELSE [p |-> 0, chars |-> [k \in OnTheScreen |-> OrBlank(d[k])]]

Init ==
    /\ cursor = <<Width \div 2, Height \div 2>>
    /\ video = [k \in Cells |-> [char |-> Blank, swapped |-> k = CursorCell]]
    /\ x = 0 /\ y = 0
    /\ foo = Digits(0)
    /\ call = 0 /\ i = 1 /\ pc = "idle"
    /\ row = 0 /\ col = 0 /\ loaded = 0
    /\ value = [char |-> Blank, swapped |-> FALSE]
    /\ handler = "off" /\ text = <<>> /\ move = {} /\ interrupts = 0
    /\ shown = [p |-> 0, chars |-> [k \in OnTheScreen |-> Blank]]
    /\ hit = {}

\* The main thread's string: the literal, for printfHex.
IsHex == call > 0 /\ Calls[call].hex
Str == IF IsHex THEN foo ELSE Calls[call].str
Intended == IF IsHex THEN Digits(Calls[call].key) ELSE Calls[call].str

Main(label) == handler = "off" /\ pc = label
Goto(label) == pc' = label /\ UNCHANGED <<call, i>>

-----------------------------------------------------------------------------
(* printfHex and printf in the main thread. *)

Call ==
    /\ Main("idle")
    /\ call < Len(Calls)
    /\ call' = call + 1
    /\ i' = 1
    /\ pc' = IF Calls[call'].hex THEN "digit1" ELSE "fetch"
    /\ UNCHANGED <<screen, foo, registers, irq, shown, hit>>

\* "while(1);"
Loop == Main("idle") /\ call = Len(Calls) /\ UNCHANGED vars

\* foo[0] and foo[1].
StoreDigit(d) ==
    /\ Main(IF d = 1 THEN "digit1" ELSE "digit2")
    /\ foo' = [foo EXCEPT ![d] = Digits(Calls[call].key)[d]]
    /\ Goto(IF d = 1 THEN "digit2" ELSE "fetch")
    /\ UNCHANGED <<screen, registers, irq, shown, hit>>

\* The loop's condition and the switch.
Fetch ==
    /\ Main("fetch")
    /\ Goto(IF i > Len(Str) THEN "idle" ELSE IF Str[i] = NL THEN "lineLoad" ELSE "row")
    /\ UNCHANGED <<screen, foo, registers, irq, shown, hit>>

\* y is loaded for an address, then x.
LoadRow(from, to) ==
    /\ Main(from)
    /\ row' = y
    /\ Goto(to)
    /\ UNCHANGED <<screen, foo, col, loaded, value, irq, shown, hit>>

LoadCol(from, to) ==
    /\ Main(from)
    /\ col' = x
    /\ Goto(to)
    /\ UNCHANGED <<screen, foo, row, loaded, value, irq, shown, hit>>

\* "(videoMemory[...] & 0xff00) | str[i]" ...
LoadCell ==
    /\ Main("cell")
    /\ value' = [video[At(row, col)] EXCEPT !.char = Str[i]]
    /\ Goto("row2")
    /\ UNCHANGED <<screen, foo, row, col, loaded, irq, shown, hit>>

\* A bug the store could have: the colours are not kept.
StoreCellPlain ==
    /\ Main("put")
    /\ video' = [video EXCEPT ![At(row, col)] = [value EXCEPT !.swapped = FALSE]]
    /\ shown' = Show(shown, Intended[i])
    /\ Goto("incLoad")
    /\ UNCHANGED <<x, y, foo, registers, irq, hit>>

\* ... goes to the address that y and x, loaded once more, now give.
StoreCell ==
    /\ Main("put")
    /\ video' = [video EXCEPT ![At(row, col)] = value]
    /\ shown' = Show(shown, Intended[i])
    /\ Goto("incLoad")
    /\ UNCHANGED <<x, y, foo, registers, irq, hit>>

\* "x++" and "y++": a load, and a store of one more.
LoadX(from, to) ==
    /\ Main(from)
    /\ loaded' = x
    /\ Goto(to)
    /\ UNCHANGED <<screen, foo, row, col, value, irq, shown, hit>>

StoreX(from, to) ==
    /\ Main(from)
    /\ x' = loaded + 1
    /\ Goto(to)
    /\ UNCHANGED <<video, y, foo, registers, irq, shown, hit>>

LoadY(from, to) ==
    /\ Main(from)
    /\ loaded' = y
    /\ Goto(to)
    /\ UNCHANGED <<screen, foo, row, col, value, irq, shown, hit>>

StoreY(from, to) ==
    /\ Main(from)
    /\ y' = loaded + 1
    /\ Goto(to)
    /\ UNCHANGED <<video, x, foo, registers, irq, shown, hit>>

\* A bug a newline could have: the column stays.
ReturnKept ==
    /\ Main("return")
    /\ shown' = Show(shown, NL)
    /\ Goto("testX")
    /\ UNCHANGED <<screen, foo, registers, irq, hit>>

\* "x=0" of a newline.
Return ==
    /\ Main("return")
    /\ x' = 0
    /\ shown' = Show(shown, NL)
    /\ Goto("testX")
    /\ UNCHANGED <<video, y, foo, registers, irq, hit>>

TestX ==
    /\ Main("testX")
    /\ Goto(IF x >= Width THEN "wrap" ELSE "testY")
    /\ UNCHANGED <<screen, foo, registers, irq, shown, hit>>

ZeroX(from, to) ==
    /\ Main(from)
    /\ x' = 0
    /\ Goto(to)
    /\ UNCHANGED <<video, y, foo, registers, irq, shown, hit>>

NextChar == i' = i + 1 /\ pc' = "fetch" /\ UNCHANGED call

TestY ==
    /\ Main("testY")
    /\ IF y >= Height THEN Goto("clear") ELSE NextChar
    /\ UNCHANGED <<screen, foo, registers, irq, shown, hit>>

\* The two loops that clear the screen run on x and y themselves.
ClearFirst ==
    /\ Main("clear")
    /\ y' = 0
    /\ Goto("clearRow")
    /\ UNCHANGED <<video, x, foo, registers, irq, shown, hit>>

ClearRowTest ==
    /\ Main("clearRow")
    /\ Goto(IF y < Height THEN "clearCol0" ELSE "cleared")
    /\ UNCHANGED <<screen, foo, registers, irq, shown, hit>>

ClearColTest ==
    /\ Main("clearCol")
    /\ Goto(IF x < Width THEN "clearRowA" ELSE "clearYLoad")
    /\ UNCHANGED <<screen, foo, registers, irq, shown, hit>>

ClearLoad ==
    /\ Main("clearCell")
    /\ value' = [video[At(row, col)] EXCEPT !.char = OrBlank(@)]
    /\ Goto("clearRowB")
    /\ UNCHANGED <<screen, foo, row, col, loaded, irq, shown, hit>>

ClearStore ==
    /\ Main("clearPut")
    /\ video' = [video EXCEPT ![At(row, col)] = value]
    /\ Goto("clearXLoad")
    /\ UNCHANGED <<x, y, foo, registers, irq, shown, hit>>

ClearLast ==
    /\ Main("clearedX")
    /\ y' = 0
    /\ NextChar
    /\ UNCHANGED <<video, x, foo, registers, irq, shown, hit>>

MainPrints ==
    \/ Call
    \/ StoreDigit(1) \/ StoreDigit(2)
    \/ Fetch
    \/ LoadY("lineLoad", "lineStore") \/ StoreY("lineStore", "return") \/ Return
    \/ LoadRow("row", "col") \/ LoadCol("col", "cell") \/ LoadCell
    \/ LoadRow("row2", "col2") \/ LoadCol("col2", "put") \/ StoreCell
    \/ LoadX("incLoad", "incStore") \/ StoreX("incStore", "testX")
    \/ TestX
    \/ ZeroX("wrap", "wrapLoad") \/ LoadY("wrapLoad", "wrapStore") \/ StoreY("wrapStore", "testY")
    \/ TestY

MainClears ==
    \/ ClearFirst
    \/ ClearRowTest \/ ZeroX("clearCol0", "clearCol") \/ ClearColTest
    \/ LoadRow("clearRowA", "clearColA") \/ LoadCol("clearColA", "clearCell") \/ ClearLoad
    \/ LoadRow("clearRowB", "clearColB") \/ LoadCol("clearColB", "clearPut") \/ ClearStore
    \/ LoadX("clearXLoad", "clearXStore") \/ StoreX("clearXStore", "clearCol")
    \/ LoadY("clearYLoad", "clearYStore") \/ StoreY("clearYStore", "clearRow")
    \/ ZeroX("cleared", "clearedX") \/ ClearLast

-----------------------------------------------------------------------------
(* An interrupt: the dispatcher's output, the handler's own, the cursor. *)

\* An interrupt that comes while pc is here prints into the middle of a
\* character of the main thread: between the loads of the address it will store
\* to and the last test that x and y call for.
InCharacter ==
    \/ pc \in {"col2", "put", "incLoad", "incStore", "lineStore", "return",
               "wrap", "wrapLoad", "wrapStore", "clear", "clearRow", "clearCol0",
               "clearCol", "clearRowA", "clearColA", "clearCell", "clearRowB",
               "clearColB", "clearPut", "clearXLoad", "clearXStore",
               "clearYLoad", "clearYStore", "cleared", "clearedX"}
    \/ pc = "testX" /\ x >= Width
    \/ pc \in {"testX", "testY"} /\ y >= Height

\* Here, into the load and the store of a cell.
InCell == pc \in {"col", "cell", "row2", "col2", "put", "clearColA", "clearCell",
                  "clearRowB", "clearColB", "clearPut"}

\* Here, into printfHex's use of its literal.
InLiteral == IsHex /\ pc \notin {"idle", "digit1"}

Interrupt(h) ==
    /\ handler = "off"
    /\ interrupts < MaxInterrupts
    /\ interrupts' = interrupts + 1
    /\ handler' = "entered"
    /\ text' = Greeting \o Digits(h.number) \o h.text
    /\ foo' = Digits(h.number)
    /\ move' = h.move
    /\ hit' = hit \union {w \in {"character", "cell", "literal"} :
                             \/ w = "character" /\ InCharacter
                             \/ w = "cell" /\ InCell
                             \/ w = "literal" /\ InLiteral}
    /\ UNCHANGED <<screen, place, registers, cursor, shown>>

Cleared(v) == [k \in Cells |-> IF k \in OnTheScreen
                               THEN [v[k] EXCEPT !.char = OrBlank(@)] ELSE v[k]]

Stored(v, k, c) == [v EXCEPT ![k].char = c]
Screen(v, a, b) == [video |-> v, x |-> a, y |-> b]

\* A character of printf before it tests x and y.
Put(s, c) ==
    IF c = NL THEN Screen(s.video, 0, s.y + 1)
    ELSE Screen(Stored(s.video, At(s.y, s.x), c), s.x + 1, s.y)

\* The two tests.
Wrapped(s) == IF s.x >= Width THEN Screen(s.video, 0, s.y + 1) ELSE s
Unfilled(s) == IF s.y >= Height THEN Screen(Cleared(s.video), 0, 0) ELSE s

\* A bug printf could have: the rows are tested before the line is wrapped.
PrintedTestsSwapped(s, c) == Wrapped(Unfilled(Put(s, c)))

\* One character of printf, uninterrupted.
Printed(s, c) == Unfilled(Wrapped(Put(s, c)))

HandlerPrints ==
    /\ handler # "off"
    /\ text # <<>>
    /\ LET s == Printed(Screen(video, x, y), Head(text)) IN
          video' = s.video /\ x' = s.x /\ y' = s.y
    /\ shown' = Show(shown, Head(text))
    /\ text' = Tail(text)
    /\ handler' = "printing"
    /\ UNCHANGED <<foo, place, registers, move, cursor, interrupts, hit>>

Int8(v) == ((v + 128) % 256) - 128

\* A bug the clamping could have: the limit itself gets through.
ClampedAbove(v, n) == IF v < 0 THEN 0 ELSE IF v > n THEN n ELSE v

Clamped(v, n) == IF v < 0 THEN 0 ELSE IF v >= n THEN n - 1 ELSE v
Swapped(v, k) == [v EXCEPT ![k].swapped = ~@]

\* onMouseMove(dx, -dy): the packet's bytes are not negative, and the sums are
\* cut to 8 bits before they are clamped.
MouseMove ==
    /\ handler # "off"
    /\ text = <<>>
    /\ \E m \in move :
          /\ cursor' = <<Clamped(Int8(cursor[1] + m[1]), Width),
                         Clamped(Int8(cursor[2] - m[2]), Height)>>
          /\ video' = Swapped(Swapped(video, CursorCell), CursorCell')
    /\ move' = {}
    /\ UNCHANGED <<x, y, foo, place, registers, handler, text, interrupts, shown, hit>>

Iret ==
    /\ handler # "off"
    /\ text = <<>> /\ move = {}
    /\ handler' = "off"
    /\ UNCHANGED <<screen, foo, place, registers, text, move, cursor, interrupts, shown, hit>>

Next ==
    \/ MainPrints \/ MainClears
    \/ \E h \in Interrupts : Interrupt(h)
    \/ HandlerPrints \/ MouseMove \/ Iret
    \/ Loop

Spec == Init /\ [][Next]_vars
-----------------------------------------------------------------------------
Cell == [char : 0..255, swapped : BOOLEAN]
Texts == [p : OnTheScreen, chars : [OnTheScreen -> 0..255]]
Label == {"idle", "digit1", "digit2", "fetch", "lineLoad", "lineStore", "return", "row", "col",
          "cell", "row2", "col2", "put", "incLoad", "incStore", "testX", "wrap", "wrapLoad",
          "wrapStore", "testY", "clear", "clearRow", "clearCol0", "clearCol", "clearRowA",
          "clearColA", "clearCell", "clearRowB", "clearColB", "clearPut", "clearXLoad",
          "clearXStore", "clearYLoad", "clearYStore", "cleared", "clearedX"}

\* The variables' types: x and y are never more than one past their limits, no
\* store leaves the cells described at Cells, and the cursor is on the screen
\* whatever a packet says.
TypeOK ==
    /\ video \in [Cells -> Cell]
    /\ x \in 0..Width /\ y \in 0..Height
    /\ foo \in [1..2 -> 0..255]
    /\ call \in 0..Len(Calls) /\ i \in Nat /\ pc \in Label
    /\ row \in 0..Height /\ col \in 0..Width /\ loaded \in 0..Width \union 0..Height
    /\ value \in Cell
    /\ handler \in {"off", "entered", "printing"}
    /\ text \in Seq(0..255) /\ move \subseteq Int \X Int
    /\ cursor \in (0..(Width - 1)) \X (0..(Height - 1))
    /\ interrupts \in 0..MaxInterrupts
    /\ shown \in Texts
    /\ hit \subseteq {"character", "cell", "literal"}

Settled == x < Width /\ y < Height

\* However often and wherever it is interrupted, the main thread's printf stores
\* to no cell off the screen: a handler leaves x and y on the screen, and the
\* address is computed from them after the last test.  A handler itself can miss
\* the screen with its first character only.
OnScreen ==
    /\ pc \in {"put", "clearPut"} => row < Height /\ col < Width
    /\ pc \in {"idle", "digit1", "digit2", "fetch", "lineLoad", "row", "col", "cell",
               "row2", "col2", "put", "incLoad"} => Settled
    /\ handler = "printing" => Settled

\* The screen shows what both contexts printed, in the order in which they did,
\* and the next character goes behind it, unless an interrupt came into the
\* middle of a character, or of printfHex's use of its literal.
TextInOrder ==
    (handler = "off" /\ pc \in {"idle", "fetch"} /\ hit \intersect {"character", "literal"} = {})
    => /\ At(y, x) = shown.p
       /\ \A k \in OnTheScreen : video[k].char = shown.chars[k]

InverseCells(v) == {k \in Cells : v[k].swapped}

\* One cell has its colours swapped, the one the mouse cursor is in, unless an
\* interrupt came between the load and the store of a cell; such a cell can stay
\* swapped for ever.
OneCursor ==
    "cell" \notin hit => InverseCells(video) = {CursorCell}
=============================================================================
