SPECIFICATION FairSpec
CONSTANTS
    NoHop = NoHop
    Icmp = Icmp
    g1 = g1
    g2 = g2
    p1 = p1
    p2 = p2
    p3 = p3
    Hop = {g1, g2}
    Mac = {m1}
    Packet = {p1, p2}
    NextHop <- OneWayNextHop
    SrcHop <- OneWaySrcHop
    OwnHop <- OwnSubnet
    StackSize = 3
    Slots = 1
    ArpTO = 1
    MaxTries = 2
    MaxReq = 5
    Timely = TRUE
INVARIANT FreshEntries
PROPERTY ServiceLive
PROPERTY EveryOtherSecond
