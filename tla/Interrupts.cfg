SPECIFICATION FairSpec
CONSTANTS
    mouse = mouse
    mouse2 = mouse2
    none = none
    Irq <- MCIrq
    Handler <- MCHandler
    InterruptNumber <- MCInterruptNumber
    None = none
    MaxRaises = 2
    MaxNmi = 1
    MaxCalls = 2
INVARIANTS TypeOK InServiceMatches RightHandler HandlersCurrent
PROPERTIES RequestsTaken
