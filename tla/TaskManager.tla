---------------------------- MODULE TaskManager ----------------------------
(***************************************************************************)
(* The scheduler: src/GubiOs/src/multitasking.cpp.  Tasks are added by     *)
(* EntryPoint before interrupts are enabled (kernel.cpp:192-193).          *)
(*                                                                         *)
(* Nothing in the repository calls Schedule, so its caller is external and *)
(* an assumption: at any moment, or never, with interrupts disabled, it    *)
(* hands Schedule the registers of the thread that runs and goes on with   *)
(* the registers that come back.  A CPUState is opaque: the thread it      *)
(* belongs to and how far that thread had got.  So the caller is one whose *)
(* frames are laid out as CPUState is (multitasking.h:11-35); int_bottom   *)
(* (interruptsstubs.s:62-80) pushes and pops another layout and could not  *)
(* start a task from the CPUState that its constructor built.              *)
(***************************************************************************)
EXTENDS Integers, Sequences

CONSTANTS Task,       \* the Task objects
          Main,       \* the thread that runs EntryPoint
          MaxTasks,   \* the length of tasks[], 256 (multitasking.h:53)
          MaxWork     \* bound: how far a thread gets

ASSUME MainAssumption == Main \notin Task
ASSUME MaxTasksAssumption == MaxTasks \in Nat \ {0}
ASSUME MaxWorkAssumption == MaxWork \in Nat

Thread == Task \union {Main}
CPUState == [thread : Thread, at : 0..MaxWork]

VARIABLES tasks,         \* tasks[0..numTasks-1], as a function
          numTasks,
          currentTask,
          cpustate,      \* Task::cpustate of each task
          interrupts,    \* are interrupts enabled?
          running,       \* the thread whose registers are in the processor
          at             \* how far each thread really got

vars == <<tasks, numTasks, currentTask, cpustate, interrupts, running, at>>

\* The Task constructor builds the registers of a task that has not started.
Fresh(t) == [thread |-> t, at |-> 0]

Init ==
    /\ tasks = [i \in {} |-> Main]
    /\ numTasks = 0
    /\ currentTask = -1
    /\ cpustate = [t \in Task |-> Fresh(t)]
    /\ interrupts = FALSE
    /\ running = Main
    /\ at = [t \in Thread |-> 0]

\* A bug AddTask could have: the test lets one task too many in.
AddTaskTooMany(t) ==
    /\ ~interrupts
    /\ numTasks <= MaxTasks
    /\ tasks' = [i \in 0..numTasks |-> IF i = numTasks THEN t ELSE tasks[i]]
    /\ numTasks' = numTasks + 1
    /\ UNCHANGED <<currentTask, cpustate, interrupts, running, at>>

\* A full table refuses the task.
AddTaskRefused(t) ==
    /\ ~interrupts
    /\ numTasks >= MaxTasks
    /\ UNCHANGED vars

AddTask(t) ==
    /\ ~interrupts
    /\ numTasks < MaxTasks
    /\ tasks' = [i \in 0..numTasks |-> IF i = numTasks THEN t ELSE tasks[i]]
    /\ numTasks' = numTasks + 1
    /\ UNCHANGED <<currentTask, cpustate, interrupts, running, at>>

\* ActivateInterrupts, once all tasks are added.
ActivateInterrupts ==
    /\ ~interrupts
    /\ interrupts' = TRUE
    /\ UNCHANGED <<tasks, numTasks, currentTask, cpustate, running, at>>

\* A bug Wrap could have: the last task never gets its turn.
WrapEarly(n) == IF n >= numTasks - 1 THEN 0 ELSE n

\* "if(++currentTask >= numTasks) currentTask %= numTasks".
Wrap(n) == IF n >= numTasks THEN n % numTasks ELSE n

\* A bug Saved could have: the registers go to the task that comes next.
SavedInNext(state) ==
    IF currentTask >= 0
    THEN [cpustate EXCEPT ![tasks[Wrap(currentTask + 1)]] = state]
    ELSE cpustate

\* A bug Saved could have: nothing is saved.
SavedForgotten(state) == cpustate

\* Schedule's first store; the thread that runs when nothing was ever scheduled
\* is not saved.
Saved(state) ==
    IF currentTask >= 0 THEN [cpustate EXCEPT ![tasks[currentTask]] = state]
    ELSE cpustate

\* The caller goes on with the registers that Schedule returned.
GoOnWith(state) ==
    /\ running' = state.thread
    /\ at' = [at EXCEPT ![state.thread] = state.at]

\* A call of Schedule with the registers of the running thread: it saves them,
\* picks the next task and returns that one's.
Schedule ==
    /\ interrupts
    /\ numTasks > 0
    /\ cpustate' = Saved([thread |-> running, at |-> at[running]])
    /\ currentTask' = Wrap(currentTask + 1)
    /\ GoOnWith(cpustate'[tasks[currentTask']])
    /\ UNCHANGED <<tasks, numTasks, interrupts>>

\* The running thread goes on.
Run ==
    /\ at[running] < MaxWork
    /\ at' = [at EXCEPT ![running] = @ + 1]
    /\ UNCHANGED <<tasks, numTasks, currentTask, cpustate, interrupts, running>>

\* Schedule with no task returns the registers it was given.
ScheduleNothing ==
    /\ interrupts
    /\ numTasks = 0
    /\ UNCHANGED vars

Next ==
    \/ \E t \in Task : AddTask(t)
    \/ \E t \in Task : AddTaskRefused(t)
    \/ ActivateInterrupts
    \/ Schedule
    \/ ScheduleNothing
    \/ Run

Spec == Init /\ [][Next]_vars
-----------------------------------------------------------------------------
\* The table holds exactly numTasks tasks and no more than tasks[] has room for,
\* currentTask stays within it, and every CPUState that Schedule stores or
\* returns is that of a thread.
TypeOK ==
    /\ numTasks \in 0..MaxTasks
    /\ tasks \in [0..(numTasks - 1) -> Task]
    /\ currentTask \in -1..(MaxTasks - 1)
    /\ cpustate \in [Task -> CPUState]
    /\ interrupts \in BOOLEAN
    /\ running \in Thread
    /\ at \in [Thread -> 0..MaxWork]

\* The registers stored for a task that does not run are its own, and are where
\* it was interrupted; the one that runs is the one currentTask names.
ContextsKept ==
    /\ \A t \in Task : t # running => cpustate[t] = [thread |-> t, at |-> at[t]]
    /\ running = IF currentTask = -1 THEN Main ELSE tasks[currentTask]

\* No call of Schedule sends a thread back to something it has already done,
\* and none is started twice from the registers of its constructor.
NeverBack == [][\A t \in Thread : at'[t] >= at[t]]_vars

\* The slots that wait, in order: those after the current one, then those
\* before it.
Waiting ==
    IF currentTask = -1 THEN [i \in 1..numTasks |-> tasks[i - 1]]
    ELSE [i \in 1..(numTasks - 1) |-> tasks[(currentTask + i) % numTasks]]

\* Schedule implements round robin: what a waiting task has done is what its
\* saved registers say.
RR == INSTANCE RoundRobin WITH
          current <- running,
          ready <- Waiting,
          work <- [t \in Thread |-> IF t = running \/ t = Main THEN at[t]
                                    ELSE cpustate[t].at]

\* The array and its indices behave as the queue of RoundRobin.
ImplementsRoundRobin == RR!Spec
=============================================================================
