\* Three ordinary shares and one that solves a block, a queue and a batch of two.
SPECIFICATION Spec
CONSTANTS
    Shares = {s1, s2, s3, k1}
    Solving = {k1}
    MaxQueue = 2
    MaxBatch = 2
    MaxTip = 1
INVARIANTS
    CountsAddUp
PROPERTIES
    KeepsLedger
    OrdinarySharesSettle
\* At its bounds, with every share settled, nothing happens any more.
CHECK_DEADLOCK FALSE
