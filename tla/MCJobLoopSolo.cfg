\* On one block, two BCH2 addresses, two 1175 addresses and 1175 work that comes and goes, in solo mode.
SPECIFICATION LiveSpec
CONSTANTS
    b1 = b1
    c1 = c1
    b2 = b2
    Blocks = {b1}
    Height <- OneHeight
    Addrs = {a1, a2}
    AuxAddrs = {x1, x2}
    AuxTips = {t1}
    Modes = {"solo"}
    NoAddr = NoAddr
    None = None
PROPERTIES
    SettingsTakeEffect
