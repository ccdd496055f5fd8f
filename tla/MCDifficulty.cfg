\* Three ranks; two network difficulties; two job ids, a record of one job.
SPECIFICATION LiveSpec
CONSTANTS
    Floor = 2
    MinDiff = 3
    MaxDiff = 3
    Nets = {2, 3}
    JobIds = 2
    MaxJobDiffs = 1
INVARIANTS
    NeverJudgedHarder
PROPERTIES
    HeldBackHeals
