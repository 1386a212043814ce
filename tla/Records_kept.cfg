SPECIFICATION MCSpec
CONSTANTS
    Node = {1, 2}
    Farm = {"f"}
    FarmOf <- MCFarmOf
    Contract = {c1, c2}
    Rent = {21}
    Twin = {7}
    Ip = {"i"}
    IpFarm <- MCIpFarm
    Gpu = {"g"}
    Total = {10, 40}
    Report = {3}
    Powers = {"none"}
    Ages = {"fresh"}
    AllPowers = {"none", "on", "off", "goingOff", "comingOn"}
    AllAges = {"fresh", "late", "old"}
    Reserved = 2
    MaxWrites = 3
    Giga = 4
    Word = 16
    VmName <- SomeNames
    VmNode = {1, 2}
    VmNetNode = {1, 2}
    VmContents <- SomeContents
    LastHost = 4
    VmIds = 2
    VmCalls = 3
    VmFaults = 1
    PeerTwin = {t1, t2}
    PeerRelay = {r1, r2}
    PeerTtl = 1
    PeerStarts = 3
    PeerCalls = 2
    PeerFaults = 1
    n1 = n1
    n2 = n2
    None = None
SYMMETRY Symmetric
INVARIANTS CacheExact NeverOffered Listings FarmsToo MachinesRight PeersAgree Counted
PROPERTIES ReadsBack OneStaysOn
CHECK_DEADLOCK FALSE
