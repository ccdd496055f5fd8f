\* TIDES and solo against a pool whose node is ahead, behind or on a rival block.
SPECIFICATION LiveSpec
CONSTANTS
    b1 = b1
    c1 = c1
    b2 = b2
    Blocks = {b1, c1, b2}
    Height <- ForkHeight
    Addrs = {a1}
    AuxAddrs = {}
    AuxTips = {}
    Modes = {"solo", "tides"}
    NoAddr = NoAddr
    None = None
INVARIANTS
    TidesTipAgrees
    LiveJobsPayAlike
PROPERTIES
    NewBlockGetsWork
    ModeTakesEffect
