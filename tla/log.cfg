SPECIFICATION FairPulldLogSpec
CONSTANTS
    DaysPerMonth = 2
    MaxDay = 2
    MaxRounds = 1
    Signals = 2
    OpenFaults = 1
INVARIANT PulldLogTypeOK
INVARIANT LinesInTheirFile
INVARIANT LostForAReason
INVARIANT NoDescriptorLost
PROPERTY OnlySecondFile
PROPERTY PrtReturns
CHECK_DEADLOCK FALSE
