SPECIFICATION IniSpec
CONSTANTS
    Files <- MCFiles
    ConfigLen = 8
    Numbers <- MCNumbers
INVARIANT IniTypeOK
INVARIANT ConfAsWritten
INVARIANT BufferHolds
CHECK_DEADLOCK FALSE
