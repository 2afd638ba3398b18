-------------------------- MODULE InterruptManager -------------------------
(***************************************************************************)
(* Interrupt dispatch: src/GubiOs/src/hardwarecommunication/interrupts.cpp *)
(* and interruptsstubs.s, with the two 8259 controllers the code drives    *)
(* (external: edge requests, in-service bits, non-specific end of          *)
(* interrupt) and the processor's interrupt flag.                          *)
(*                                                                         *)
(* The stubs pass the interrupt's number through one global byte, which an *)
(* NMI - it ignores the interrupt flag - overwrites.  All gates are        *)
(* interrupt gates, so a handler is interrupted by nothing else, and the   *)
(* main thread stands still while it runs.                                 *)
(***************************************************************************)
EXTENDS Integers

CONSTANTS Irq,              \* the lines with a device on them, out of 0..15
          Handler,          \* InterruptHandler objects
          InterruptNumber,  \* the number each registers for
          None,
          MaxRaises,        \* bound: requests per line
          MaxNmi,           \* bound: NMIs
          MaxCalls          \* bound: calls of ActivateInterrupts

ASSUME IrqAssumption == Irq \subseteq (0..15) \ {2}
ASSUME HandlerAssumption == InterruptNumber \in [Handler -> 0..255] /\ None \notin Handler
ASSUME BoundsAssumption == {MaxRaises, MaxNmi, MaxCalls} \subseteq Nat

VARIABLES irr,         \* lines with a request
          masterIsr,   \* the master's in-service bits
          slaveIsr,    \* the slave's, as lines 8..15
          raises,      \* how often each line has requested
          flag,        \* the processor's interrupt flag
          active,      \* activeInterruptManager # 0
          handlers,    \* handlers[n], or None
          alive,       \* constructed and not destroyed
          latest,      \* auxiliary: the last one constructed for a number
          main,        \* where the main thread is in ActivateInterrupts
          calls,       \* how often it was called
          nmis,        \* NMIs so far
          cpu,         \* where the interrupt in progress is, "main" if none
          taken,       \* its line
          number,      \* the global byte interruptNumber
          param,       \* handleInterrupt's parameter
          called,      \* the handler that was called
          hit          \* auxiliary: "window" if a line was taken between
                       \* Deactivate's two steps, "nmi" if an NMI came between
                       \* the stub's store to the byte and its use

controller == <<irr, masterIsr, slaveIsr, raises>>
mainVars == <<active, handlers, alive, latest, main, calls>>
entry == <<taken, number, param, called>>
vars == <<controller, flag, mainVars, nmis, cpu, entry, hit>>

Registered == {InterruptNumber[h] : h \in Handler}

\* The constructor's values for the controllers: vector 0x20 for line 0.
IRQBase == 32
HandlerOf(n) == IF n \in Registered THEN handlers[n] ELSE None

Init ==
    /\ irr = {} /\ masterIsr = {} /\ slaveIsr = {}
    /\ raises = [i \in Irq |-> 0]
    /\ flag = FALSE
    /\ active = FALSE
    /\ handlers = [n \in Registered |-> None]
    /\ alive = {}
    /\ latest = handlers
    /\ main = "run" /\ calls = 0 /\ nmis = 0
    /\ cpu = "main"
    /\ taken = 0 /\ number = 0 /\ param = 0 /\ called = None
    /\ hit = {}

-----------------------------------------------------------------------------
(* The controllers. *)

\* The slave's lines come in on the master's line 2.
MasterLine(i) == IF i >= 8 THEN 2 ELSE i

\* A request gets through if nothing of its priority or a higher one is in
\* service.
Through(i) ==
    /\ i \in irr
    /\ i >= 8 => \A j \in slaveIsr : i < j
    /\ \A j \in masterIsr : MasterLine(i) < j

Highest(i) ==
    /\ Through(i)
    /\ \A j \in irr : Through(j) =>
          \/ MasterLine(i) < MasterLine(j)
          \/ MasterLine(i) = MasterLine(j) /\ i <= j

\* The end of interrupt that names no line ends the highest in service.
WithoutFirst(isr) == {i \in isr : \E j \in isr : j < i}

Raise(i) ==
    /\ raises[i] < MaxRaises
    /\ i \notin irr
    /\ irr' = irr \union {i}
    /\ raises' = [raises EXCEPT ![i] = @ + 1]
    /\ UNCHANGED <<masterIsr, slaveIsr, flag, mainVars, nmis, cpu, entry, hit>>

-----------------------------------------------------------------------------
(* An interrupt, from the processor's acknowledge to iret. *)

\* The processor clears the flag and enters the gate of the line's vector.
Take(i) ==
    /\ cpu = "main" /\ flag
    /\ Highest(i)
    /\ irr' = irr \ {i}
    /\ masterIsr' = masterIsr \union {MasterLine(i)}
    /\ slaveIsr' = IF i >= 8 THEN slaveIsr \union {i} ELSE slaveIsr
    /\ taken' = i
    /\ called' = None
    /\ flag' = FALSE
    /\ cpu' = "entered"
    /\ hit' = IF main = "cli" THEN hit \union {"window"} ELSE hit
    /\ UNCHANGED <<raises, mainVars, nmis, number, param>>

\* A bug the stubs could have: IRQ_BASE is left out.
StubNumberBare ==
    /\ cpu = "entered"
    /\ number' = taken
    /\ cpu' = "numbered"
    /\ UNCHANGED <<controller, flag, mainVars, nmis, taken, param, called, hit>>

\* "movb $\num + IRQ_BASE,interruptNumber".
StubNumber ==
    /\ cpu = "entered"
    /\ number' = taken + IRQBase
    /\ cpu' = "numbered"
    /\ UNCHANGED <<controller, flag, mainVars, nmis, taken, param, called, hit>>

\* int_bottom saves the registers and passes the byte on.
StubCall ==
    /\ cpu = "numbered"
    /\ param' = number
    /\ cpu' = "handleInterrupt"
    /\ UNCHANGED <<controller, flag, mainVars, nmis, taken, number, called, hit>>

\* An NMI: its stub stores 2, nothing is registered for 2, no end of interrupt
\* is due, and iret goes back to where it came from.
Nmi ==
    /\ nmis < MaxNmi
    /\ number' = 2
    /\ nmis' = nmis + 1
    /\ hit' = IF cpu = "numbered" THEN hit \union {"nmi"} ELSE hit
    /\ UNCHANGED <<controller, flag, mainVars, cpu, taken, param, called>>

\* handleInterrupt without an active manager returns at once.
HandleInactive ==
    /\ cpu = "handleInterrupt"
    /\ ~active
    /\ cpu' = "iret"
    /\ UNCHANGED <<controller, flag, mainVars, nmis, entry, hit>>

\* doHandleInterrupt calls the registered handler, if there is one, and goes on
\* to the end of interrupt for the controllers' vectors.
DoHandleInterrupt ==
    /\ cpu = "handleInterrupt"
    /\ active
    /\ called' = HandlerOf(param)
    /\ cpu' = IF param >= 32 /\ param < 48 THEN "eoi" ELSE "iret"
    /\ UNCHANGED <<controller, flag, mainVars, nmis, taken, number, param, hit>>

\* Bugs the end of interrupt could have: the slave is told of lines above 8
\* only; the master is left out for the slave's lines.
EndOfInterruptPast8 ==
    /\ cpu = "eoi"
    /\ masterIsr' = WithoutFirst(masterIsr)
    /\ slaveIsr' = IF param > 40 THEN WithoutFirst(slaveIsr) ELSE slaveIsr
    /\ cpu' = "iret"
    /\ UNCHANGED <<irr, raises, flag, mainVars, nmis, entry, hit>>

EndOfInterruptSlaveOnly ==
    /\ cpu = "eoi"
    /\ masterIsr' = IF param < 40 THEN WithoutFirst(masterIsr) ELSE masterIsr
    /\ slaveIsr' = IF param >= 40 THEN WithoutFirst(slaveIsr) ELSE slaveIsr
    /\ cpu' = "iret"
    /\ UNCHANGED <<irr, raises, flag, mainVars, nmis, entry, hit>>

\* The master is told for its own lines and for the slave's, the slave for its
\* own.
EndOfInterrupt ==
    /\ cpu = "eoi"
    /\ masterIsr' = WithoutFirst(masterIsr)
    /\ slaveIsr' = IF param >= 40 THEN WithoutFirst(slaveIsr) ELSE slaveIsr
    /\ cpu' = "iret"
    /\ UNCHANGED <<irr, raises, flag, mainVars, nmis, entry, hit>>

Iret ==
    /\ cpu = "iret"
    /\ flag' = TRUE
    /\ cpu' = "main"
    /\ UNCHANGED <<controller, mainVars, nmis, entry, hit>>

-----------------------------------------------------------------------------
(* The main thread. *)

\* InterruptHandler's constructor; whoever registered before is overwritten.
Construct(h) ==
    /\ cpu = "main" /\ main = "run"
    /\ h \notin alive
    /\ alive' = alive \union {h}
    /\ handlers' = [handlers EXCEPT ![InterruptNumber[h]] = h]
    /\ latest' = [latest EXCEPT ![InterruptNumber[h]] = h]
    /\ UNCHANGED <<controller, flag, active, main, calls, nmis, cpu, entry, hit>>

\* A bug the destructor could have: it clears the entry whoever owns it.
DestroyAny(h) ==
    /\ cpu = "main" /\ main = "run"
    /\ h \in alive
    /\ alive' = alive \ {h}
    /\ handlers' = [handlers EXCEPT ![InterruptNumber[h]] = None]
    /\ UNCHANGED <<controller, flag, active, latest, main, calls, nmis, cpu, entry, hit>>

\* InterruptHandler's destructor clears the entry if it is its own.
Destroy(h) ==
    /\ cpu = "main" /\ main = "run"
    /\ h \in alive
    /\ alive' = alive \ {h}
    /\ handlers' = IF handlers[InterruptNumber[h]] = h
                   THEN [handlers EXCEPT ![InterruptNumber[h]] = None]
                   ELSE handlers
    /\ UNCHANGED <<controller, flag, active, latest, main, calls, nmis, cpu, entry, hit>>

\* ActivateInterrupts first deactivates the manager that is active.
ActivateInterrupts ==
    /\ cpu = "main" /\ main = "run"
    /\ calls < MaxCalls
    /\ calls' = calls + 1
    /\ main' = IF active THEN "deactivate" ELSE "activate"
    /\ UNCHANGED <<controller, flag, active, handlers, alive, latest, nmis, cpu, entry, hit>>

\* Deactivate forgets the manager, then disables interrupts.
Deactivate ==
    /\ cpu = "main" /\ main = "deactivate"
    /\ active' = FALSE
    /\ main' = "cli"
    /\ UNCHANGED <<controller, flag, handlers, alive, latest, calls, nmis, cpu, entry, hit>>

Cli ==
    /\ cpu = "main" /\ main = "cli"
    /\ flag' = FALSE
    /\ main' = "activate"
    /\ UNCHANGED <<controller, active, handlers, alive, latest, calls, nmis, cpu, entry, hit>>

Activate ==
    /\ cpu = "main" /\ main = "activate"
    /\ active' = TRUE
    /\ main' = "sti"
    /\ UNCHANGED <<controller, flag, handlers, alive, latest, calls, nmis, cpu, entry, hit>>

Sti ==
    /\ cpu = "main" /\ main = "sti"
    /\ flag' = TRUE
    /\ main' = "run"
    /\ UNCHANGED <<controller, active, handlers, alive, latest, calls, nmis, cpu, entry, hit>>

\* "while(1);"
Loop == cpu = "main" /\ main = "run" /\ UNCHANGED vars

InHandler == StubNumber \/ StubCall \/ HandleInactive \/ DoHandleInterrupt
             \/ EndOfInterrupt \/ Iret
InActivate == Deactivate \/ Cli \/ Activate \/ Sti

Next ==
    \/ \E i \in Irq : Raise(i) \/ Take(i)
    \/ StubNumber \/ StubCall \/ Nmi
    \/ HandleInactive \/ DoHandleInterrupt \/ EndOfInterrupt \/ Iret
    \/ \E h \in Handler : Construct(h) \/ Destroy(h)
    \/ ActivateInterrupts \/ Deactivate \/ Cli \/ Activate \/ Sti
    \/ Loop

Spec == Init /\ [][Next]_vars

\* The processor takes a request it may take, a handler's code runs on, and so
\* does ActivateInterrupts.
FairSpec ==
    /\ Spec
    /\ WF_vars(\E i \in Irq : Take(i))
    /\ WF_vars(InHandler)
    /\ WF_vars(InActivate)
-----------------------------------------------------------------------------
\* The variables' types; the byte the stubs store and the parameter it becomes
\* are only ever the vector of a line of the controllers, or the NMI's 2.
TypeOK ==
    /\ irr \subseteq Irq
    /\ masterIsr \subseteq {MasterLine(i) : i \in Irq}
    /\ slaveIsr \subseteq {i \in Irq : i >= 8}
    /\ raises \in [Irq -> 0..MaxRaises]
    /\ flag \in BOOLEAN /\ active \in BOOLEAN
    /\ handlers \in [Registered -> Handler \union {None}]
    /\ alive \subseteq Handler
    /\ latest \in [Registered -> Handler \union {None}]
    /\ main \in {"run", "deactivate", "cli", "activate", "sti"}
    /\ calls \in 0..MaxCalls /\ nmis \in 0..MaxNmi
    /\ cpu \in {"main", "entered", "numbered", "handleInterrupt", "eoi", "iret"}
    /\ taken \in Irq \union {0}
    /\ {number, param} \subseteq {0, 2} \union {i + IRQBase : i \in Irq}
    /\ called \in Handler \union {None}
    /\ hit \subseteq {"window", "nmi"}

\* The in-service bits are those of the interrupt in progress up to its end of
\* interrupt, and none are left behind for the main thread; the only ways to
\* leave one behind, which blocks the line and all below it for good, are an
\* interrupt between Deactivate's two steps and an NMI inside the stub.
InServiceMatches ==
    hit = {} =>
        IF cpu \in {"main", "iret"} THEN masterIsr = {} /\ slaveIsr = {}
        ELSE /\ masterIsr = {MasterLine(taken)}
             /\ slaveIsr = {i \in {taken} : i >= 8}

\* The handler that is called is the one registered for the line the processor
\* took, although the number travels through a global byte.
RightHandler ==
    hit = {} /\ cpu \in {"eoi", "iret"} => called = HandlerOf(taken + IRQBase)

\* The table holds the handler that was constructed last for a number as long as
\* that one lives, and nothing afterwards, in whatever order handlers of one
\* number come and go: no entry dangles, and no destructor but its own takes a
\* handler off.  A handler that was overwritten does not come back.
HandlersCurrent ==
    \A n \in Registered :
        handlers[n] = IF latest[n] \in alive THEN latest[n] ELSE None

\* With interrupts enabled, a request is taken, or a hit has left a line in
\* service for good.
RequestsTaken ==
    \A i \in Irq : (i \in irr /\ flag) ~> (i \notin irr \/ hit # {})
=============================================================================
