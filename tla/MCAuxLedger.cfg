\* Two siblings of two finders, one fault (a failing call, a restart, a resync), a chain of three blocks.
SPECIFICATION Spec
CONSTANTS
    a1 = a1
    a2 = a2
    Blocks = {a1, a2}
    HeightOf <- HeightsHere
    FinderOf <- TwoFinders
    Maturity = 2
    RecheckDepth = 3
    MaxReorg = 1
    MaxTries = 2
    MaxHeight = 3
    MaxFaults = 1
INVARIANTS
    OneCreditPerHeight
PROPERTIES
    PaidIsOnChain
    WinnerNotDropped
    RecordedIsConfirmed
\* With the chain at its bound and every row settled, only the cycle goes on.
CHECK_DEADLOCK FALSE
