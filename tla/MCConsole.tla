----------------------------- MODULE MCConsole -----------------------------
\* A screen of two rows of three; "A", a newline, a hexadecimal number and two
\* more characters, which fill it and clear it; the keyboard's interrupt with a
\* key, the mouse's with a small movement and one past the 8 bits.
EXTENDS Console

MCCalls == << [hex |-> FALSE, str |-> <<65, NL>>, key |-> 0],
              [hex |-> TRUE, str |-> <<>>, key |-> 171],
              [hex |-> FALSE, str |-> <<66>>, key |-> 0] >>
MCInterrupts == { [number |-> 33, text |-> <<97>>, move |-> {}],
                  [number |-> 44, text |-> <<>>, move |-> {<<1, 255>>}],
                  [number |-> 44, text |-> <<>>, move |-> {<<127, 1>>}] }
MCGreeting == <<118, NL>>
=============================================================================
