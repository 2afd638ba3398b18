------------------------- MODULE TaskManagerProofs -------------------------
(***************************************************************************)
(* Proofs about the scheduler, for every set of tasks, every table length  *)
(* and every bound on the work: its invariants, and that the array and its *)
(* indices implement the queue of RoundRobin.                              *)
(***************************************************************************)
EXTENDS TaskManager, SequenceTheorems, TLAPS

\* currentTask names a slot in use, and is set only once interrupts are on.
CurrentInUse ==
    /\ currentTask < numTasks
    /\ currentTask >= 0 => interrupts

IInv == TypeOK /\ CurrentInUse /\ ContextsKept

USE MainAssumption, MaxTasksAssumption, MaxWorkAssumption

LEMMA InitInv == Init => IInv
<1> SUFFICES ASSUME Init PROVE IInv
  OBVIOUS
<1>1. tasks \in [0..(numTasks - 1) -> Task]
  BY DEF Init
<1>2. TypeOK
  <2>1. cpustate \in [Task -> CPUState]
    BY DEF Init, CPUState, Thread, Fresh
  <2>2. at \in [Thread -> 0..MaxWork] /\ running \in Thread
    BY DEF Init, Thread
  <2>3. currentTask \in -1..(MaxTasks - 1) /\ numTasks \in 0..MaxTasks
    BY DEF Init
  <2> QED
    BY <1>1, <2>1, <2>2, <2>3 DEF Init, TypeOK
<1> QED
  BY <1>2 DEF Init, IInv, CurrentInUse, ContextsKept, Fresh, Thread

LEMMA AddTaskInv == ASSUME IInv, NEW t \in Task, AddTask(t) PROVE IInv'
<1> USE DEF IInv
<1>1. /\ numTasks' = numTasks + 1 /\ numTasks < MaxTasks /\ ~interrupts
      /\ tasks' = [i \in 0..numTasks |-> IF i = numTasks THEN t ELSE tasks[i]]
      /\ UNCHANGED <<currentTask, cpustate, interrupts, running, at>>
  BY DEF AddTask
<1>2. currentTask = -1
  BY <1>1 DEF CurrentInUse, TypeOK
<1>3. tasks' \in [0..(numTasks' - 1) -> Task]
  <2>1. ASSUME NEW i \in 0..numTasks, i # numTasks PROVE tasks[i] \in Task
    BY <2>1 DEF TypeOK
  <2>2. numTasks' - 1 = numTasks
    BY <1>1 DEF TypeOK
  <2> QED
    BY <1>1, <2>1, <2>2
<1>4. TypeOK' /\ CurrentInUse'
  BY <1>1, <1>2, <1>3 DEF TypeOK, CurrentInUse, CPUState, Thread
<1>5. ContextsKept'
  BY <1>1, <1>2 DEF ContextsKept
<1> QED
  BY <1>4, <1>5

\* The slot Schedule moves to is in use: one more, or 0 after the last.
LEMMA NextSlot ==
    ASSUME TypeOK, CurrentInUse, numTasks > 0
    PROVE  Wrap(currentTask + 1) \in 0..(numTasks - 1)
<1>1. CASE currentTask + 1 < numTasks
  BY <1>1 DEF Wrap, TypeOK
<1>2. CASE currentTask + 1 = numTasks
  BY <1>2 DEF Wrap, TypeOK
<1> QED
  BY <1>1, <1>2 DEF CurrentInUse, TypeOK

\* A switch stores the running task's registers in its own Task and restores
\* those of the task in the next slot, which are where it stopped.
LEMMA ScheduleFacts ==
    ASSUME IInv, Schedule
    PROVE  /\ currentTask' \in 0..(numTasks - 1)
           /\ tasks[currentTask'] \in Task /\ running' = tasks[currentTask']
           /\ at' = at
           /\ cpustate' \in [Task -> CPUState]
           /\ \A t \in Task : cpustate'[t] =
                 IF t = running THEN [thread |-> t, at |-> at[t]] ELSE cpustate[t]
           /\ \A t \in Task : cpustate'[t] = [thread |-> t, at |-> at[t]]
<1> USE DEF IInv
<1> DEFINE s == tasks[currentTask']
<1>1. currentTask' \in 0..(numTasks - 1) /\ s \in Task
  BY NextSlot DEF Schedule, TypeOK
<1>2. /\ cpustate' \in [Task -> CPUState]
      /\ \A t \in Task : cpustate'[t] =
            IF t = running THEN [thread |-> t, at |-> at[t]] ELSE cpustate[t]
  <2>1. CASE currentTask = -1
    BY <2>1 DEF Schedule, Saved, ContextsKept, TypeOK
  <2>2. CASE currentTask >= 0
    <3>1. tasks[currentTask] \in Task /\ running = tasks[currentTask]
      BY <2>2 DEF TypeOK, CurrentInUse, ContextsKept
    <3>2. [thread |-> running, at |-> at[running]] \in CPUState
      BY DEF TypeOK, CPUState
    <3>3. cpustate' = [cpustate EXCEPT ![running] =
                         [thread |-> running, at |-> at[running]]]
      BY <2>2, <3>1 DEF Schedule, Saved
    <3> QED
      BY <3>1, <3>2, <3>3 DEF TypeOK
  <2> QED
    BY <2>1, <2>2 DEF TypeOK
<1>3. \A t \in Task : cpustate'[t] = [thread |-> t, at |-> at[t]]
  BY <1>2 DEF ContextsKept
<1>4. running' = s /\ at' = [at EXCEPT ![s] = at[s]]
  <2>1. cpustate'[s] = [thread |-> s, at |-> at[s]]
    BY <1>1, <1>3
  <2>2. GoOnWith(cpustate'[s])
    BY DEF Schedule
  <2> QED
    BY <2>1, <2>2 DEF GoOnWith
<1>5. at' = at
  BY <1>1, <1>4 DEF TypeOK
<1> QED
  BY <1>1, <1>2, <1>3, <1>4, <1>5

LEMMA ScheduleInv == IInv /\ Schedule => IInv'
<1> SUFFICES ASSUME IInv, Schedule PROVE IInv'
  OBVIOUS
<1> USE DEF IInv
<1>1. UNCHANGED <<tasks, numTasks, interrupts>> /\ interrupts
  BY DEF Schedule
<1>2. TypeOK' /\ CurrentInUse'
  BY <1>1, ScheduleFacts DEF TypeOK, CurrentInUse, Thread, CPUState
<1>3. ContextsKept'
  BY <1>1, ScheduleFacts DEF ContextsKept, TypeOK
<1> QED
  BY <1>2, <1>3

LEMMA RunInv == IInv /\ Run => IInv'
<1> SUFFICES ASSUME IInv, Run PROVE IInv'
  OBVIOUS
<1> USE DEF IInv
<1>1. /\ UNCHANGED <<tasks, numTasks, currentTask, cpustate, interrupts, running>>
      /\ running \in Thread /\ at[running] \in 0..MaxWork /\ at[running] < MaxWork
      /\ at' = [at EXCEPT ![running] = at[running] + 1]
  BY DEF Run, TypeOK
<1>2. at' \in [Thread -> 0..MaxWork]
  BY <1>1 DEF TypeOK
<1>3. TypeOK' /\ CurrentInUse'
  BY <1>1, <1>2 DEF TypeOK, CurrentInUse, CPUState
<1>4. ContextsKept'
  BY <1>1 DEF ContextsKept, TypeOK, Thread
<1> QED
  BY <1>3, <1>4

LEMMA NextInv == IInv /\ [Next]_vars => IInv'
<1> SUFFICES ASSUME IInv, [Next]_vars PROVE IInv'
  OBVIOUS
<1>1. CASE \E t \in Task : AddTask(t)
  BY <1>1, AddTaskInv
<1>2. CASE Schedule
  BY <1>2, ScheduleInv
<1>3. CASE Run
  BY <1>3, RunInv
<1>4. CASE ActivateInterrupts
  BY <1>4 DEF ActivateInterrupts, IInv, TypeOK, CurrentInUse, ContextsKept, CPUState
<1>5. CASE UNCHANGED vars
  BY <1>5 DEF vars, IInv, TypeOK, CurrentInUse, ContextsKept, CPUState
<1> QED
  BY <1>1, <1>2, <1>3, <1>4, <1>5 DEF Next, ScheduleNothing, AddTaskRefused

LEMMA SchedulerInv == Spec => []IInv
  BY InitInv, NextInv, PTL DEF Spec

\* The table never overflows and Schedule never reads a slot not in use.
THEOREM TypeCorrect == Spec => []TypeOK
<1>1. IInv => TypeOK
  BY DEF IInv
<1> QED
  BY SchedulerInv, <1>1, PTL

\* A task that waits is resumed where it was interrupted, with its own registers.
THEOREM ContextsAreKept == Spec => []ContextsKept
<1>1. IInv => ContextsKept
  BY DEF IInv
<1> QED
  BY SchedulerInv, <1>1, PTL

\* A switch loses nothing any thread has done.
THEOREM NothingIsUndone == Spec => NeverBack
<1>1. IInv /\ [Next]_vars => [\A t \in Thread : at'[t] >= at[t]]_vars
  <2> SUFFICES ASSUME IInv, Next, NEW t \in Thread PROVE at'[t] >= at[t]
    BY DEF vars
  <2>1. at \in [Thread -> 0..MaxWork] /\ at[t] \in Int
    BY DEF IInv, TypeOK
  <2>2. CASE Schedule
    BY <2>1, <2>2, ScheduleFacts
  <2>3. CASE Run
    BY <2>1, <2>3 DEF Run
  <2>4. CASE UNCHANGED at
    BY <2>1, <2>4
  <2> QED
    BY <2>2, <2>3, <2>4 DEF Next, AddTask, ActivateInterrupts, ScheduleNothing,
       AddTaskRefused, vars
<1> QED
  BY SchedulerInv, <1>1, PTL DEF Spec, NeverBack
-----------------------------------------------------------------------------
(* The implementation of RoundRobin. *)

Work == [t \in Thread |-> IF t = running \/ t = Main THEN at[t] ELSE cpustate[t].at]

\* The slot i places after the current one, going round.
Slot(i) == (currentTask + i) % numTasks

\* The number of tasks that wait.
Behind == IF currentTask = -1 THEN numTasks ELSE numTasks - 1

\* One lap of % is a subtraction.
LEMMA ModOnce ==
    ASSUME NEW n \in Nat \ {0}, NEW x \in 0..(2 * n - 1)
    PROVE  x % n = IF x < n THEN x ELSE x - n
<1>1. CASE x < n
  BY <1>1
<1>2. CASE x >= n
  BY <1>2, SMTT(20)
<1> QED
  BY <1>1, <1>2

\* A slot i places on, for at most one lap.
LEMMA SlotIs ==
    ASSUME IInv, numTasks > 0, NEW i \in 0..numTasks, currentTask + i >= 0
    PROVE  Slot(i) = IF currentTask + i < numTasks THEN currentTask + i
                     ELSE (currentTask + i) - numTasks
<1> DEFINE x == currentTask + i
<1>1. numTasks \in Nat \ {0} /\ x \in 0..(2 * numTasks - 1)
  BY DEF IInv, TypeOK, CurrentInUse
<1>2. Slot(i) = x % numTasks
  BY DEF Slot
<1> HIDE DEF x
<1>3. x % numTasks = IF x < numTasks THEN x ELSE x - numTasks
  BY <1>1, ModOnce
<1> QED
  BY <1>2, <1>3 DEF x

\* The saved registers of a task that waits say what it has done.
LEMMA WorkIsAt == IInv => Work = at
<1> SUFFICES ASSUME IInv PROVE Work = at
  OBVIOUS
<1>1. ASSUME NEW t \in Thread, t # running, t # Main PROVE cpustate[t].at = at[t]
  <2>1. cpustate[t] = [thread |-> t, at |-> at[t]]
    BY <1>1 DEF IInv, ContextsKept, Thread
  <2> QED
    BY <2>1
<1>2. Work = [t \in Thread |-> at[t]]
  BY <1>1 DEF Work
<1> QED
  BY <1>2 DEF IInv, TypeOK

\* Waiting is a sequence of tasks, and its i-th is in the slot i places on.
WaitingIs ==
    /\ Waiting \in Seq(Task) /\ Len(Waiting) = Behind /\ Behind \in Nat
    /\ \A i \in 1..Behind :
          Waiting[i] = IF currentTask = -1 THEN tasks[i - 1] ELSE tasks[Slot(i)]

LEMMA WaitingSeq == IInv => WaitingIs
<1> SUFFICES ASSUME IInv PROVE WaitingIs
  OBVIOUS
<1> USE DEF IInv, WaitingIs
<1>1. CASE currentTask = -1
  <2>1. Waiting = [i \in 1..numTasks |-> tasks[i - 1]]
    BY <1>1 DEF Waiting
  <2>2. \A i \in 1..numTasks : tasks[i - 1] \in Task
    BY DEF TypeOK
  <2> QED
    BY <1>1, <2>1, <2>2 DEF TypeOK, Behind
<1>2. CASE currentTask # -1
  <2>1. Waiting = [i \in 1..(numTasks - 1) |-> tasks[Slot(i)]]
    BY <1>2 DEF Waiting, Slot
  <2>2. numTasks \in Nat \ {0} /\ currentTask \in 0..(numTasks - 1)
    BY <1>2 DEF TypeOK, CurrentInUse
  <2>3. \A i \in 1..(numTasks - 1) : tasks[Slot(i)] \in Task
    <3> TAKE i \in 1..(numTasks - 1)
    <3>1. Slot(i) \in 0..(numTasks - 1)
      BY <2>2, SlotIs
    <3> QED
      BY <3>1 DEF TypeOK
  <2> QED
    BY <1>2, <2>1, <2>2, <2>3 DEF Behind
<1> QED
  BY <1>1, <1>2

\* Both facts after a step.
LEMMA WaitingSeqNext == IInv' => WaitingIs'
BY WaitingSeq, PTL

LEMMA WorkIsAtNext == IInv' => (Work = at)'
BY WorkIsAt, PTL

LEMMA InitRefines == Init => RR!Init
<1> SUFFICES ASSUME Init PROVE RR!Init
  OBVIOUS
<1>1. IInv
  BY InitInv
<1>2. Waiting = <<>>
  BY DEF Init, Waiting
<1>3. Work = [t \in Thread |-> 0]
  BY <1>1, WorkIsAt DEF Init
<1> QED
  BY <1>2, <1>3 DEF Init, RR!Init, Work, Thread

\* A task that is added waits behind all others.
LEMMA AddTaskRefines ==
    ASSUME IInv, NEW t \in Task, AddTask(t) PROVE RR!Add(t)
<1> USE DEF IInv
<1>1. IInv'
  BY AddTaskInv
<1>2. /\ currentTask = -1 /\ currentTask' = -1 /\ running = Main /\ running' = Main
      /\ numTasks \in Nat /\ numTasks' = numTasks + 1 /\ at' = at
      /\ \A i \in 0..numTasks : tasks'[i] = IF i = numTasks THEN t ELSE tasks[i]
  BY DEF AddTask, TypeOK, CurrentInUse, ContextsKept
<1>3. Waiting' = Append(Waiting, t)
  <2>1. /\ Waiting' \in Seq(Task) /\ Len(Waiting') = numTasks + 1
        /\ \A i \in 1..(numTasks + 1) : Waiting'[i] = tasks'[i - 1]
    BY <1>1, <1>2, WaitingSeqNext DEF WaitingIs, Behind
  <2>2. /\ Waiting \in Seq(Task) /\ Len(Waiting) = numTasks
        /\ \A i \in 1..numTasks : Waiting[i] = tasks[i - 1]
    BY <1>2, WaitingSeq DEF WaitingIs, Behind
  <2>3. /\ Append(Waiting, t) \in Seq(Task) /\ Len(Append(Waiting, t)) = numTasks + 1
        /\ \A i \in 1..numTasks : Append(Waiting, t)[i] = tasks[i - 1]
        /\ Append(Waiting, t)[numTasks + 1] = t
    BY <2>2, AppendProperties
  <2>4. ASSUME NEW i \in 1..(numTasks + 1) PROVE Waiting'[i] = Append(Waiting, t)[i]
    <3>1. /\ Waiting'[i] = tasks'[i - 1] /\ i - 1 \in 0..numTasks
          /\ i - 1 = numTasks <=> i = numTasks + 1
          /\ i # numTasks + 1 => i \in 1..numTasks
      BY <1>2, <2>1
    <3> HIDE DEF IInv
    <3> QED
      BY <1>2, <2>3, <3>1
  <2> QED
    BY <2>1, <2>3, <2>4, SeqEqual
<1>4. Work' = Work
  BY <1>1, <1>2, WorkIsAt, WorkIsAtNext
<1> QED
  BY <1>2, <1>3, <1>4 DEF RR!Add, Work

\* The line as Schedule sees it: the task that runs, if any, goes to its end, and
\* the i-th in it is in the slot i places on.
Line == IF running = Main THEN Waiting ELSE Append(Waiting, running)

LEMMA LineSlots ==
    ASSUME IInv, Schedule
    PROVE  /\ Line \in Seq(Task) /\ Len(Line) = numTasks
           /\ \A i \in 1..numTasks : Line[i] = tasks[Slot(i)]
<1> USE DEF IInv
<1>1. numTasks \in Nat \ {0}
  BY DEF Schedule, TypeOK
<1>2. CASE currentTask = -1
  <2>1. running = Main /\ Behind = numTasks
    BY <1>2 DEF ContextsKept, Behind
  <2>2. \A i \in 1..numTasks : Slot(i) = i - 1
    BY <1>1, <1>2, SlotIs
  <2> QED
    BY <1>2, <2>1, <2>2, WaitingSeq DEF WaitingIs, Line
<1>3. CASE currentTask # -1
  <2>1. /\ currentTask \in 0..(numTasks - 1)
        /\ running \in Task /\ running # Main /\ Behind = numTasks - 1
        /\ running = tasks[currentTask]
    <3>1. currentTask \in 0..(numTasks - 1) /\ running = tasks[currentTask]
      BY <1>3 DEF TypeOK, CurrentInUse, ContextsKept
    <3>2. running \in Task
      BY <3>1 DEF TypeOK
    <3>3. running # Main
      BY <3>2
    <3>4. Behind = numTasks - 1
      BY <1>3 DEF Behind
    <3> QED
      BY <3>1, <3>2, <3>3, <3>4
  <2>2. Slot(numTasks) = currentTask
    BY <1>1, <2>1, SlotIs
  <2>3. /\ Waiting \in Seq(Task) /\ Len(Waiting) = numTasks - 1
        /\ \A i \in 1..(numTasks - 1) : Waiting[i] = tasks[Slot(i)]
    BY <1>3, <2>1, WaitingSeq DEF WaitingIs
  <2>4. Line = Append(Waiting, running)
    BY <2>1 DEF Line
  <2>5. /\ Line \in Seq(Task) /\ Len(Line) = numTasks
        /\ \A i \in 1..(numTasks - 1) : Line[i] = tasks[Slot(i)]
        /\ Line[numTasks] = tasks[Slot(numTasks)]
    BY <1>1, <2>1, <2>2, <2>3, <2>4, AppendProperties
  <2> QED
    BY <1>1, <2>5
<1> QED
  BY <1>2, <1>3

\* Schedule is a turn; with one task, which gets its own turn, nothing changes.
LEMMA ScheduleRefines ==
    ASSUME IInv, Schedule PROVE RR!Turn \/ UNCHANGED <<running, Waiting, Work>>
<1> USE DEF IInv
<1>1. IInv'
  BY ScheduleInv
<1>2. Work' = Work
  BY <1>1, WorkIsAt, WorkIsAtNext, ScheduleFacts
<1>3. /\ numTasks \in Nat \ {0} /\ numTasks' = numTasks /\ tasks' = tasks
      /\ currentTask' \in 0..(numTasks - 1) /\ running' = tasks[currentTask']
      /\ currentTask' = Wrap(currentTask + 1)
  BY ScheduleFacts DEF Schedule, TypeOK
<1>4. currentTask \in -1..(numTasks - 1)
  BY DEF TypeOK, CurrentInUse
<1>5. currentTask' = Slot(1)
  BY <1>3, <1>4 DEF Slot, Wrap
<1>6. Line # <<>> /\ Head(Line) = running'
  BY <1>3, <1>5, LineSlots
<1>7. Waiting' = Tail(Line)
  <2>1. /\ Waiting' \in Seq(Task) /\ Len(Waiting') = numTasks - 1
        /\ \A i \in 1..(numTasks - 1) : Waiting'[i] = tasks[Slot(i)']
    BY <1>1, <1>3, WaitingSeqNext DEF WaitingIs, Behind
  <2>2. ASSUME NEW i \in 1..(numTasks - 1) PROVE Slot(i)' = Slot(i + 1)
    <3> DEFINE x == currentTask' + i
               y == currentTask + (i + 1)
    <3>1. currentTask' = IF currentTask + 1 < numTasks THEN currentTask + 1 ELSE 0
      BY <1>3, <1>4, <1>5, SlotIs
    <3>2. /\ x \in 0..(2 * numTasks - 1) /\ y \in 0..(2 * numTasks - 1)
          /\ y = x \/ (x < numTasks /\ y = x + numTasks)
      BY <1>3, <1>4, <3>1
    <3>3. Slot(i)' = x % numTasks /\ Slot(i + 1) = y % numTasks
      BY <1>3 DEF Slot
    <3> HIDE DEF x, y
    <3>4. x % numTasks = IF x < numTasks THEN x ELSE x - numTasks
      BY <1>3, <3>2, ModOnce
    <3>5. y % numTasks = IF y < numTasks THEN y ELSE y - numTasks
      BY <1>3, <3>2, ModOnce
    <3> QED
      BY <1>3, <3>2, <3>3, <3>4, <3>5
  <2>3. /\ Tail(Line) \in Seq(Task) /\ Len(Tail(Line)) = numTasks - 1
        /\ \A i \in 1..(numTasks - 1) : Tail(Line)[i] = tasks[Slot(i + 1)]
    BY <1>3, <1>6, LineSlots, HeadTailProperties
  <2> QED
    BY <2>1, <2>2, <2>3, SeqEqual
<1>8. CASE Waiting # <<>>
  BY <1>2, <1>6, <1>7, <1>8 DEF RR!Turn, Line, Work
<1>9. CASE Waiting = <<>>
  <2>1. numTasks = 1 /\ currentTask = 0
    BY <1>3, <1>4, <1>9, WaitingSeq DEF WaitingIs, Behind
  <2>2. currentTask' = currentTask /\ running' = running
    BY <1>3, <2>1 DEF ContextsKept
  <2>3. Waiting' = Waiting
    BY <1>3, <2>2 DEF Waiting
  <2> QED
    BY <1>2, <2>2, <2>3
<1> QED
  BY <1>8, <1>9

LEMMA RunRefines == ASSUME IInv, Run PROVE RR!Run
<1>1. IInv'
  BY RunInv
<1>2. Work = at /\ Work' = at'
  BY <1>1, WorkIsAt, WorkIsAtNext
<1>3. Waiting' = Waiting /\ running' = running
  BY DEF Run, Waiting
<1> QED
  BY <1>2, <1>3 DEF Run, RR!Run, Work

LEMMA NextRefines ==
    ASSUME IInv, [Next]_vars PROVE [RR!Next]_<<running, Waiting, Work>>
<1>1. CASE \E t \in Task : AddTask(t)
  BY <1>1, AddTaskRefines DEF RR!Next
<1>2. CASE Schedule
  BY <1>2, ScheduleRefines DEF RR!Next
<1>3. CASE Run
  BY <1>3, RunRefines DEF RR!Next
<1>4. CASE ActivateInterrupts \/ UNCHANGED vars
  BY <1>4 DEF ActivateInterrupts, vars, Waiting, Work
<1> QED
  BY <1>1, <1>2, <1>3, <1>4 DEF Next, ScheduleNothing, AddTaskRefused

\* The tasks take turns in the order they were added and only the one that runs
\* does anything (AddTask, Schedule).
THEOREM RoundRobinImplemented == Spec => ImplementsRoundRobin
<1>1. IInv /\ [Next]_vars => [RR!Next]_(RR!rrVars)
  BY NextRefines DEF RR!rrVars, Work
<1> QED
  BY InitRefines, SchedulerInv, <1>1, PTL DEF Spec, ImplementsRoundRobin, RR!Spec
=============================================================================
