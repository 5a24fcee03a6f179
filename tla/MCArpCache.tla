----------------------------- MODULE MCArpCache -----------------------------
(* Instances of ArpCache for TLC: two gateways and their traffic.          *)
EXTENDS ArpCache, TLC

CONSTANTS g1, g2, p1, p2, p3

\* p1 and p3 go from g2's side to g1's; p2 comes from nowhere the table knows.
OneWayNextHop == (p1 :> g1) @@ (p2 :> g1)
OneWaySrcHop  == (p1 :> g2) @@ (p2 :> NoHop)

\* p1 and p2 cross: each waits for the gateway of the other's source.
CrossNextHop == (p1 :> g1) @@ (p2 :> g2)
CrossSrcHop  == (p1 :> g2) @@ (p2 :> g1)

\* The routes to the router's own addresses: none, or the subnet behind g2.
NoOwnHop  == (g1 :> NoHop) @@ (g2 :> NoHop)
OwnSubnet == (g1 :> NoHop) @@ (g2 :> g2)
=============================================================================
