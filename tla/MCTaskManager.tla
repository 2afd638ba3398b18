--------------------------- MODULE MCTaskManager ---------------------------
\* Three tasks, a table of three: tables that are empty, part full, full, and
\* refuse a fourth; a task added twice shares its registers between two slots.
EXTENDS TaskManager

CONSTANTS t1, t2, t3, main

MCTask == {t1, t2, t3}
=============================================================================
