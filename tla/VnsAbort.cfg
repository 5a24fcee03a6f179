SPECIFICATION Spec
CONSTANTS
    c1 = c1
    c2 = c2
    eth1 = eth1
    eth2 = eth2
    Client = {c1}
    Template = {}
    Intf = {eth1, eth2}
    Elsewhere = Elsewhere
    Port = {1, 2}
    Infos <- MCInfos
    RouteIfs = {eth1}
    None = None
    MaxUps = 1
    MaxFrames = 1
INVARIANTS
    InterfaceKnown
CHECK_DEADLOCK FALSE
