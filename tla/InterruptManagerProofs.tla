----------------------- MODULE InterruptManagerProofs -----------------------
(***************************************************************************)
(* Interrupt dispatch, for every set of lines, every set of handlers and   *)
(* numbers, and any number of requests, NMIs and calls of                  *)
(* ActivateInterrupts: the table is current, and as long as no interrupt   *)
(* falls into Deactivate's window and no NMI into a stub, the handler      *)
(* called is the right one and every interrupt is ended.                   *)
(***************************************************************************)
EXTENDS InterruptManager, TLAPS

USE IrqAssumption, HandlerAssumption, BoundsAssumption DEF IRQBase, Registered

\* Where the main thread may be while interrupts are enabled, or while one is in
\* progress: it has an active manager but for the window.
Where ==
    /\ flag => cpu = "main" /\ main \in {"run", "deactivate", "cli"}
    /\ cpu # "main" => main \in {"run", "deactivate", "cli"} /\ taken \in Irq
    /\ (flag \/ cpu # "main") /\ main # "cli" => active
    /\ main = "sti" => active
    /\ cpu # "main" /\ main = "cli" => "window" \in hit

\* The number that is on its way is that of the line the processor took, the
\* line is in service until its end of interrupt, and the handler that was
\* called is the line's.
Service ==
    /\ cpu \in {"main", "iret"} => masterIsr = {} /\ slaveIsr = {}
    /\ cpu \in {"entered", "numbered", "handleInterrupt", "eoi"} =>
          masterIsr = {MasterLine(taken)} /\ slaveIsr = {i \in {taken} : i >= 8}
    /\ cpu = "numbered" => number = taken + 32
    /\ cpu \in {"handleInterrupt", "eoi"} => param = taken + 32
    /\ cpu \in {"eoi", "iret"} => called = HandlerOf(taken + 32)

\* Every handler was constructed for the number it is noted under.
Own == \A n \in Registered : latest[n] \in Handler => InterruptNumber[latest[n]] = n

IInv == TypeOK /\ HandlersCurrent /\ Own /\ Where /\ (hit = {} => Service)

-----------------------------------------------------------------------------
LEMMA InitInv == Init => IInv
<1> SUFFICES ASSUME Init PROVE IInv
  OBVIOUS
<1>1. TypeOK
  <2>1. {MaxRaises, MaxNmi, MaxCalls} \subseteq Nat
    BY BoundsAssumption
  <2>2. raises \in [Irq -> 0..MaxRaises] /\ nmis \in 0..MaxNmi /\ calls \in 0..MaxCalls
    BY <2>1 DEF Init
  <2>3. handlers \in [Registered -> Handler \union {None}]
    BY DEF Init
  <2>4. irr \subseteq Irq /\ masterIsr \subseteq {MasterLine(i) : i \in Irq}
    BY DEF Init
  <2>5. {number, param} \subseteq {0, 2} \union {i + IRQBase : i \in Irq}
    BY DEF Init
  <2> QED
    BY <2>2, <2>3, <2>4, <2>5 DEF Init, TypeOK
<1>2. HandlersCurrent /\ Own
  BY DEF Init, HandlersCurrent, Own
<1>3. Where /\ Service
  BY DEF Init, Where, Service
<1> QED
  BY <1>1, <1>2, <1>3 DEF IInv

\* One end of interrupt ends the only line in service.
LEMMA OneEnded == ASSUME NEW i \in Int PROVE WithoutFirst({i}) = {}
  BY DEF WithoutFirst

LEMMA FewerInService ==
  ASSUME NEW S, NEW T, T \subseteq S PROVE WithoutFirst(T) \subseteq S
  BY DEF WithoutFirst

LEMMA HandlerOfType ==
  ASSUME handlers \in [Registered -> Handler \union {None}], NEW n
  PROVE  HandlerOf(n) \in Handler \union {None}
  BY DEF HandlerOf

LEMMA RaiseInv == ASSUME IInv, NEW i \in Irq, Raise(i) PROVE IInv'
<1> USE DEF Raise, mainVars, entry
<1>1. TypeOK'
  BY DEF IInv, TypeOK
<1>2. HandlersCurrent' /\ Own'
  BY DEF IInv, HandlersCurrent, Own
<1>3. Where'
  BY DEF IInv, Where
<1>4. (hit = {} => Service)'
  BY DEF IInv, Service, HandlerOf
<1> QED
  BY <1>1, <1>2, <1>3, <1>4 DEF IInv

LEMMA TakeInv == ASSUME IInv, NEW i \in Irq, Take(i) PROVE IInv'
<1> USE DEF Take, mainVars
<1>1. TypeOK'
  <2> USE DEF IInv, TypeOK
  <2>1. irr' \subseteq Irq /\ masterIsr' \subseteq {MasterLine(j) : j \in Irq}
    OBVIOUS
  <2>2. slaveIsr' \subseteq {j \in Irq : j >= 8}
    OBVIOUS
  <2>3. hit' \subseteq {"window", "nmi"}
    OBVIOUS
  <2>4. /\ taken' \in Irq \union {0} /\ called' \in Handler \union {None} /\ flag' \in BOOLEAN
        /\ cpu' \in {"main", "entered", "numbered", "handleInterrupt", "eoi", "iret"}
    OBVIOUS
  <2>5. /\ UNCHANGED <<raises, active, handlers, alive, latest, main, calls, nmis, number, param>>
        /\ TypeOK
    OBVIOUS
  <2> QED
    BY ONLY <2>1, <2>2, <2>3, <2>4, <2>5 DEF TypeOK
<1>2. HandlersCurrent' /\ Own'
  BY DEF IInv, HandlersCurrent, Own
<1>3. Where'
  BY DEF IInv, Where, TypeOK
<1>4. (hit = {} => Service)'
  <2>1. SUFFICES ASSUME hit' = {} PROVE Service'
    OBVIOUS
  <2>2. Service
    BY <2>1 DEF IInv
  <2>3. masterIsr' = {MasterLine(i)} /\ taken' = i /\ cpu' = "entered"
    BY <2>2 DEF Service
  <2>4. slaveIsr' = {j \in {i} : j >= 8}
    BY <2>2 DEF Service
  <2> QED
    BY <2>3, <2>4 DEF Service, MasterLine
<1> QED
  BY <1>1, <1>2, <1>3, <1>4 DEF IInv

LEMMA StubNumberInv == ASSUME IInv, StubNumber PROVE IInv'
<1> USE DEF StubNumber, mainVars, controller
<1>1. TypeOK'
  BY DEF IInv, TypeOK, Where
<1>2. HandlersCurrent' /\ Own'
  BY DEF IInv, HandlersCurrent, Own
<1>3. Where'
  BY DEF IInv, Where
<1>4. (hit = {} => Service)'
  BY DEF IInv, Service, MasterLine
<1> QED
  BY <1>1, <1>2, <1>3, <1>4 DEF IInv

LEMMA StubCallInv == ASSUME IInv, StubCall PROVE IInv'
<1> USE DEF StubCall, mainVars, controller
<1>1. TypeOK'
  BY DEF IInv, TypeOK
<1>2. HandlersCurrent' /\ Own'
  BY DEF IInv, HandlersCurrent, Own
<1>3. Where'
  BY DEF IInv, Where
<1>4. (hit = {} => Service)'
  BY DEF IInv, Service, MasterLine
<1> QED
  BY <1>1, <1>2, <1>3, <1>4 DEF IInv

LEMMA NmiInv == ASSUME IInv, Nmi PROVE IInv'
<1> USE DEF Nmi, mainVars, controller
<1>1. TypeOK'
  BY DEF IInv, TypeOK
<1>2. HandlersCurrent' /\ Own'
  BY DEF IInv, HandlersCurrent, Own
<1>3. Where'
  BY DEF IInv, Where
<1>4. (hit = {} => Service)'
  <2>1. SUFFICES ASSUME hit' = {} PROVE Service'
    OBVIOUS
  <2>2. cpu # "numbered" /\ hit = {}
    BY <2>1
  <2> QED
    BY <2>2 DEF IInv, Service, MasterLine, HandlerOf
<1> QED
  BY <1>1, <1>2, <1>3, <1>4 DEF IInv

LEMMA HandleInactiveInv == ASSUME IInv, HandleInactive PROVE IInv'
<1> USE DEF HandleInactive, mainVars, controller, entry
<1>1. TypeOK'
  BY DEF IInv, TypeOK
<1>2. HandlersCurrent' /\ Own'
  BY DEF IInv, HandlersCurrent, Own
<1>3. Where'
  BY DEF IInv, Where
<1>4. hit # {}
  BY DEF IInv, Where
<1> QED
  BY <1>1, <1>2, <1>3, <1>4 DEF IInv

LEMMA DoHandleInterruptInv == ASSUME IInv, DoHandleInterrupt PROVE IInv'
<1> USE DEF DoHandleInterrupt, mainVars, controller
<1>1. TypeOK'
  <2>1. HandlerOf(param) \in Handler \union {None}
    BY HandlerOfType DEF IInv, TypeOK
  <2> QED
    BY <2>1 DEF IInv, TypeOK
<1>2. HandlersCurrent' /\ Own'
  BY DEF IInv, HandlersCurrent, Own
<1>3. Where'
  BY DEF IInv, Where
<1>4. (hit = {} => Service)'
  <2>1. SUFFICES ASSUME hit = {} PROVE Service'
    OBVIOUS
  <2>2. param = taken + 32 /\ taken \in 0..15
    BY <2>1 DEF IInv, Service, Where
  <2>3. cpu' = "eoi"
    BY <2>2
  <2> QED
    BY <2>1, <2>2, <2>3 DEF IInv, Service, MasterLine, HandlerOf
<1> QED
  BY <1>1, <1>2, <1>3, <1>4 DEF IInv

LEMMA EndOfInterruptInv == ASSUME IInv, EndOfInterrupt PROVE IInv'
<1> USE DEF EndOfInterrupt, mainVars, entry
<1>1. TypeOK'
  <2>1. masterIsr' \subseteq {MasterLine(j) : j \in Irq}
    BY FewerInService DEF IInv, TypeOK
  <2>2. slaveIsr' \subseteq {j \in Irq : j >= 8}
    BY FewerInService DEF IInv, TypeOK
  <2> QED
    BY <2>1, <2>2 DEF IInv, TypeOK
<1>2. HandlersCurrent' /\ Own'
  BY DEF IInv, HandlersCurrent, Own
<1>3. Where'
  BY DEF IInv, Where
<1>4. (hit = {} => Service)'
  <2>1. SUFFICES ASSUME hit = {} PROVE Service'
    OBVIOUS
  <2>2. /\ masterIsr = {MasterLine(taken)}
        /\ slaveIsr = {j \in {taken} : j >= 8}
        /\ param = taken + 32
        /\ taken \in 0..15
    BY <2>1 DEF IInv, Service, Where
  <2>3. masterIsr' = {}
    BY <2>2, OneEnded DEF MasterLine
  <2>4. slaveIsr' = {}
    <3>1. CASE taken >= 8
      <4>1. slaveIsr = {taken}
        BY <2>2, <3>1
      <4> QED
        BY <2>2, <3>1, <4>1, OneEnded
    <3>2. CASE ~(taken >= 8)
      BY <2>2, <3>2
    <3> QED
      BY <3>1, <3>2
  <2> QED
    BY <2>1, <2>3, <2>4 DEF IInv, Service, HandlerOf
<1> QED
  BY <1>1, <1>2, <1>3, <1>4 DEF IInv

LEMMA IretInv == ASSUME IInv, Iret PROVE IInv'
<1> USE DEF Iret, mainVars, controller, entry
<1>1. TypeOK'
  BY DEF IInv, TypeOK
<1>2. HandlersCurrent' /\ Own'
  BY DEF IInv, HandlersCurrent, Own
<1>3. Where'
  BY DEF IInv, Where
<1>4. (hit = {} => Service)'
  BY DEF IInv, Service
<1> QED
  BY <1>1, <1>2, <1>3, <1>4 DEF IInv

LEMMA ConstructInv == ASSUME IInv, NEW h \in Handler, Construct(h) PROVE IInv'
<1> USE DEF Construct, controller, entry
<1>1. TypeOK'
  BY DEF IInv, TypeOK
<1>2. HandlersCurrent'
  <2>1. SUFFICES ASSUME NEW n \in Registered
                 PROVE  handlers'[n] = IF latest'[n] \in alive' THEN latest'[n] ELSE None
    BY DEF HandlersCurrent
  <2>2. CASE n = InterruptNumber[h]
    BY <2>2 DEF IInv, TypeOK
  <2>3. CASE n # InterruptNumber[h]
    BY <2>3 DEF IInv, TypeOK, HandlersCurrent, Own
  <2> QED
    BY <2>2, <2>3
<1>3. Own'
  BY DEF IInv, TypeOK, Own
<1>4. Where'
  BY DEF IInv, Where
<1>5. (hit = {} => Service)'
  BY DEF IInv, Service
<1> QED
  BY <1>1, <1>2, <1>3, <1>4, <1>5 DEF IInv

LEMMA DestroyInv == ASSUME IInv, NEW h \in Handler, Destroy(h) PROVE IInv'
<1> USE DEF Destroy, controller, entry
<1>1. TypeOK'
  BY DEF IInv, TypeOK
<1>2. HandlersCurrent'
  <2>1. SUFFICES ASSUME NEW n \in Registered
                 PROVE  handlers'[n] = IF latest'[n] \in alive' THEN latest'[n] ELSE None
    BY DEF HandlersCurrent
  <2>2. handlers[n] = IF latest[n] \in alive THEN latest[n] ELSE None
    BY DEF IInv, HandlersCurrent
  <2>3. CASE latest[n] = h
    <3>1. n = InterruptNumber[h]
      BY <2>3 DEF IInv, Own
    <3>2. handlers[n] = h
      BY <2>2, <2>3
    <3> QED
      BY <2>3, <3>1, <3>2 DEF IInv, TypeOK
  <2>4. CASE latest[n] # h
    <3>1. handlers[n] # h
      BY <2>2, <2>4
    <3>2. handlers'[n] = handlers[n]
      BY <3>1 DEF IInv, TypeOK
    <3> QED
      BY <2>2, <2>4, <3>2
  <2> QED
    BY <2>3, <2>4
<1>3. Own'
  BY DEF IInv, Own
<1>4. Where'
  BY DEF IInv, Where
<1>5. (hit = {} => Service)'
  BY DEF IInv, Service
<1> QED
  BY <1>1, <1>2, <1>3, <1>4, <1>5 DEF IInv

\* The main thread's four steps and the call that starts them.
LEMMA ActivateInv ==
  ASSUME IInv, ActivateInterrupts \/ Deactivate \/ Cli \/ Activate \/ Sti
  PROVE  IInv'
<1> USE DEF ActivateInterrupts, Deactivate, Cli, Activate, Sti, controller, entry
<1>1. TypeOK'
  <2>1. CASE ActivateInterrupts
    <3>1. calls' \in 0..MaxCalls
      BY <2>1 DEF IInv, TypeOK
    <3> QED
      BY <2>1, <3>1 DEF IInv, TypeOK
  <2>2. CASE Deactivate
    BY <2>2 DEF IInv, TypeOK
  <2>3. CASE Cli
    BY <2>3 DEF IInv, TypeOK
  <2>4. CASE Activate
    BY <2>4 DEF IInv, TypeOK
  <2>5. CASE Sti
    BY <2>5 DEF IInv, TypeOK
  <2> QED
    BY <2>1, <2>2, <2>3, <2>4, <2>5
<1>2. HandlersCurrent' /\ Own'
  BY DEF IInv, HandlersCurrent, Own
<1>3. Where'
  BY DEF IInv, Where
<1>4. (hit = {} => Service)'
  BY DEF IInv, Service
<1> QED
  BY <1>1, <1>2, <1>3, <1>4 DEF IInv

LEMMA StutterInv == ASSUME IInv, UNCHANGED vars PROVE IInv'
  BY DEF vars, controller, mainVars, entry, IInv, TypeOK, HandlersCurrent, Own, Where, Service, HandlerOf

LEMMA NextInv == IInv /\ [Next]_vars => IInv'
<1> SUFFICES ASSUME IInv, [Next]_vars PROVE IInv'
  OBVIOUS
<1>1. CASE \E i \in Irq : Raise(i) \/ Take(i)
  BY <1>1, RaiseInv, TakeInv
<1>2. CASE StubNumber \/ StubCall \/ Nmi
  BY <1>2, StubNumberInv, StubCallInv, NmiInv
<1>3. CASE HandleInactive \/ DoHandleInterrupt \/ EndOfInterrupt \/ Iret
  BY <1>3, HandleInactiveInv, DoHandleInterruptInv, EndOfInterruptInv, IretInv
<1>4. CASE \E h \in Handler : Construct(h) \/ Destroy(h)
  BY <1>4, ConstructInv, DestroyInv
<1>5. CASE ActivateInterrupts \/ Deactivate \/ Cli \/ Activate \/ Sti
  BY <1>5, ActivateInv
<1>6. CASE Loop \/ UNCHANGED vars
  BY <1>6, StutterInv DEF Loop
<1> QED
  BY <1>1, <1>2, <1>3, <1>4, <1>5, <1>6 DEF Next

LEMMA DispatchInv == Spec => []IInv
  BY InitInv, NextInv, PTL DEF Spec

-----------------------------------------------------------------------------
\* The in-service bits are only ever lines', and the byte the stubs store only
\* ever a line's number or the NMI's.
THEOREM TypeCorrect == Spec => []TypeOK
<1>1. IInv => TypeOK
  BY DEF IInv
<1> QED
  BY DispatchInv, <1>1, PTL

\* Every interrupt is ended at the controllers it came from before its handler
\* returns to what was interrupted (interrupts.cpp:60-67).
THEOREM EveryInterruptEnded == Spec => []InServiceMatches
<1>1. IInv => InServiceMatches
  BY DEF IInv, TypeOK, Service, InServiceMatches
<1> QED
  BY DispatchInv, <1>1, PTL

\* The number survives its way through the global byte (interruptsstubs.s:17).
THEOREM RightHandlerCalled == Spec => []RightHandler
<1>1. IInv => RightHandler
  BY DEF IInv, Service, RightHandler
<1> QED
  BY DispatchInv, <1>1, PTL

\* Whatever handlers are constructed and destroyed in whatever order, the table
\* names the last one of each number while it lives (interrupts.cpp:13-28).
THEOREM TableCurrent == Spec => []HandlersCurrent
<1>1. IInv => HandlersCurrent
  BY DEF IInv
<1> QED
  BY DispatchInv, <1>1, PTL
=============================================================================
