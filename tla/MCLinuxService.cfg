\* Two runs of install-service or uninstall-service, a program that exits, two steps that fail, a
\* signal, and one install cut short.
SPECIFICATION Spec
CONSTANTS
    defaultWeb = a1
    None = None
    Addrs = {a1, a2}
    MaxExits = 1
    MaxFaults = 2
    MaxSignals = 1
    MaxInstalls = 2
    MaxCrashes = 1
INVARIANTS
    NotUnderARunningOne
PROPERTIES
    FailsSafely
    StopFinishes
    ProgramsComeBack
\* With the service stopped or removed and no install left, nothing happens.
CHECK_DEADLOCK FALSE
