SPECIFICATION Spec
CONSTANTS
    Width = 3
    Height = 2
    Calls <- MCCalls
    Interrupts <- MCInterrupts
    Greeting <- MCGreeting
    MaxInterrupts = 2
INVARIANTS TypeOK OnScreen TextInOrder OneCursor
