SPECIFICATION Spec
CONSTANTS
    Buses = 2
    Devices = 2
    Functions = 3
    Boards <- MCBoards
    MemUpper <- MCMemUpper
    Stack <- MCStack
INVARIANTS TypeOK HeapAddressable CardsFound InterruptsReach
