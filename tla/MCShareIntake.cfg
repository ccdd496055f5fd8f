\* Two jobs on one block and a TIDES job on the next, histories of two jobs, two solutions, one sent up to twice.
SPECIFICATION Spec
CONSTANTS
    c1 = c1
    c2 = c2
    h1 = h1
    h2 = h2
    pay = pay
    x1 = x1
    NoHash = NoHash
    RollMask = {1, 2}
    MaxRoll = 3
    Conns = {c1, c2}
    AskedMask <- Asked
    Shares = {h1, h2}
    Owner <- Owners
    Rolls <- Roll
    Time <- Times
    Quality <- Found2
    AuxSolving = {h1, h2}
    Templates <- Three
    Tides = {3}
    Log <- Pools
    PayTo = pay
    RawTag <- Raw
    Subsidy = 20
    MaxHistory = 2
    MaxTries <- Sent2
INVARIANTS
    SolvedGoesToNode
    AuxSolutionsSent
    AcceptedOnceOnFirstBlock
    BlocksHold
    RegistrationsHold
\* Once every job is broadcast and every solution was sent twice, only the cleanup goes on.
CHECK_DEADLOCK FALSE
