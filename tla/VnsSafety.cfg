SPECIFICATION Fair
CONSTANTS
    c1 = c1
    c2 = c2
    eth1 = eth1
    eth2 = eth2
    Client = {c1, c2}
    Template = {c2}
    Intf = {eth1, eth2}
    Elsewhere = Elsewhere
    Port = {1, 2}
    Infos <- MCInfos
    RouteIfs = {eth1}
    None = None
    MaxUps = 2
    MaxFrames = 1
INVARIANTS
    PortKnown
    RoutesUsable
    ArpHonest
PROPERTIES
    HandshakeEnds
    OpenServed
\* events stop at their bounds and clients end
CHECK_DEADLOCK FALSE
