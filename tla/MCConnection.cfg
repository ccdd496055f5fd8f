\* A miner, two silent connections from the internet and one from this machine; three slots, two of them
\* open to the internet and one to each of its addresses.
SPECIFICATION Spec
CONSTANTS
    m1 = m1
    s1 = s1
    s2 = s2
    l1 = l1
    Conns = {m1, s1, s2, l1}
    Mixes <- MixesHere
    HostOf <- HostsHere
    LocalNetwork = {"lo"}
    Loopback = {"lo"}
    MaxConnections = 3
    MaxConnectionsPerIP = 1
    LocalPart = 3
    ClientQueue = 6
    ReaderRoom = 5
    MaxDeparted = 1
INVARIANTS
    LimitsKept
    LoggedInHasWork
PROPERTIES
    ProvenLevelCounted
    OnlyBroadcastsOverflow
    HandlersGoOn
\* After Stop the program exits.
CHECK_DEADLOCK FALSE
