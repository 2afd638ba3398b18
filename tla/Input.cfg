SPECIFICATION FairSpec
CONSTANTS
    Keys <- MCKeys
    Buttons <- MCButtons
    InitialConfig = 97
    MaxKeys = 2
    MaxPackets = 2
INVARIANTS TypeOK InStep KeysInOrder Configured
PROPERTIES BytesRead
