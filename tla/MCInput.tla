------------------------------ MODULE MCInput ------------------------------
\* A letter's scan code and its release; packets with a button held; the
\* configuration has the keyboard's interrupt on and the mouse off.
EXTENDS Input

MCKeys == {30, 158}
MCButtons == {9}
=============================================================================
