\* Two siblings and a TIDES block, one failing cycle, one restart, a chain of four blocks.
SPECIFICATION Spec
CONSTANTS
    a1 = a1
    a2 = a2
    t1 = t1
    Blocks = {a1, a2, t1}
    Tides = {t1}
    HeightOf <- HeightsHere
    OwnerOf <- OwnersHere
    JudgeDepth = 2
    Maturity = 2
    MaxTries = 2
    MaxHeight = 4
    MaxFailures = 1
    MaxRestarts = 1
INVARIANTS
    CreditedWasOnChain
    VerdictIsTheChains
    PayoutFollowsRow
PROPERTIES
    RecordedIsJudged
\* With the chain at its bound and every row judged, nothing happens any more.
CHECK_DEADLOCK FALSE
