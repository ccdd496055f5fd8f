\* Merge mining switched on, re-pointed and off while the poller runs.
SPECIFICATION LiveSpec
CONSTANTS
    Addrs = {a1, a2}
    NoAddr = NoAddr
    NoWork = NoWork
    MaxGen = 3
    MaxTip = 2
INVARIANTS
    WorkPaysAddressInEffect
PROPERTIES
    FollowsTip
\* At its bounds, with merge mining off and its poller gone, nothing happens any more.
CHECK_DEADLOCK FALSE
