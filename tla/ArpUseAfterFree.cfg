SPECIFICATION Spec
CONSTANTS
    NoHop = NoHop
    Icmp = Icmp
    g1 = g1
    g2 = g2
    p1 = p1
    p2 = p2
    p3 = p3
    Hop = {g1, g2}
    Mac = {m1}
    Packet = {p1, p2}
    NextHop <- OneWayNextHop
    SrcHop <- OneWaySrcHop
    OwnHop <- NoOwnHop
    StackSize = 4
    Slots = 1
    ArpTO = 1
    MaxTries = 2
    MaxReq = 4
    Timely = FALSE
INVARIANT RequestStaysValid
