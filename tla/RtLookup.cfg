SPECIFICATION Spec
CONSTANTS
    W = 2
    g1 = g1
    eth1 = eth1
    eth2 = eth2
    Gw <- MCGw
    Iface <- MCIface
    Files <- MCFiles
    Missing = Missing
    Bad = Bad
INVARIANTS
    LookupCorrect
    RouteUsable
    OneVersion
\* the program ends when a file or the check of the interfaces fails
CHECK_DEADLOCK FALSE
