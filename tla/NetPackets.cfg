SPECIFICATION Fair
CONSTANTS
    r1 = r1
    r2 = r2
    r3 = r3
    a = a
    b = b
    d = d
    e = e
    g = g
    NoRoute = NoRoute
    Router = {r1, r2, r3}
    Host = {a, b, d, e, g}
    Addr <- MCAddr
    Iface <- MCIface
    IfAddr <- MCIfAddr
    Route <- MCRoute
    HostAddr <- MCHostAddr
    Gateway <- MCGateway
    Up <- MCUp
    Id <- MCId
    Sent <- MCSent
    MaxTTL = 5
    AtOnce = 2
INVARIANTS
    RefusedRightly
    SumsValid
    NoDuplication
    Traceroute
    OnlyVerdict
PROPERTIES
    VerdictArrives
    Quiet
\* the network is at rest once every packet is settled
CHECK_DEADLOCK FALSE
