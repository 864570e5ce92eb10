SPECIFICATION RelaySpec
CONSTANTS
    Key = {k1}
    ServedAge = 1
    MaxAge = 2
    RefreshAge = 0
    Allowance = 1
    Tolerance = 1
    MaxNow = 2
    MaxProcesses = 2
    MaxBuffer = 1
    MaxClockSteps = 0
    Offsets = {0}
PROPERTY OldProcessStaysOld
CHECK_DEADLOCK FALSE
