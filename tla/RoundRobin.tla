---------------------------- MODULE RoundRobin -----------------------------
(***************************************************************************)
(* What a round-robin scheduler promises: the ready tasks take turns in    *)
(* the order they were added, and a task's work changes only while it has  *)
(* the processor.  The thread that adds the tasks loses the processor at   *)
(* the first turn and never gets it back.                                  *)
(***************************************************************************)
EXTENDS Sequences, Integers

CONSTANTS Task, Main, MaxWork

VARIABLES current,   \* the thread that has the processor
          ready,     \* the tasks that wait for it, in order
          work       \* what each thread has done

rrVars == <<current, ready, work>>

Init == /\ current = Main
        /\ ready = <<>>
        /\ work = [t \in Task \union {Main} |-> 0]

Add(t) == /\ current = Main
          /\ ready' = Append(ready, t)
          /\ UNCHANGED <<current, work>>

\* The processor passes to the next in line; a task goes to the end of the line.
Turn == /\ ready # <<>>
        /\ LET line == IF current = Main THEN ready ELSE Append(ready, current)
           IN  current' = Head(line) /\ ready' = Tail(line)
        /\ UNCHANGED work

Run == /\ work[current] < MaxWork
       /\ work' = [work EXCEPT ![current] = @ + 1]
       /\ UNCHANGED <<current, ready>>

Next == Turn \/ Run \/ \E t \in Task : Add(t)

Spec == Init /\ [][Next]_rrVars
=============================================================================
