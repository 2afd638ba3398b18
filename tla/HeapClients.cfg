SPECIFICATION ClientSpec
CONSTANTS
    Start = 5
    HeapSize = 60
    Client <- MCClient
    Requests <- MCRequests
    DriverSize = 21
    FrameSize = 11
    Byte = 4
    Irq = 3
    Vptr = 8
    MacWord = 255
INVARIANT DriverIntact
