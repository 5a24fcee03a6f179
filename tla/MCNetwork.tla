----------------------------- MODULE MCNetwork -----------------------------
(* Three routers: host a at r1; r2, r3 and hosts b and d on one network, d    *)
(* switched off; hosts e and g behind r3.  Address x is routed from r1 to r2  *)
(* and back, and so is e, which r3 alone can reach: what others send to it    *)
(* loops.  r2 has no route to y and none to g.                                *)
EXTENDS Network

CONSTANTS r1, r2, r3, a, b, d, e, g

Hp(n, i) == [node |-> n, iface |-> i]

MCAddr   == {"a", "b", "d", "e", "g", "x", "y", "r1a", "r1r2", "r2r1", "r2b", "r3b", "r3e"}
MCIface  == {"eth1", "eth2"}
MCIfAddr == [r \in {r1, r2, r3} |->
               CASE r = r1 -> [eth1 |-> "r1a", eth2 |-> "r1r2"]
                 [] r = r2 -> [eth1 |-> "r2r1", eth2 |-> "r2b"]
                 [] r = r3 -> [eth1 |-> "r3b", eth2 |-> "r3e"]]
MCRoute  == [r \in {r1, r2, r3} |-> [t \in MCAddr |->
               CASE t \in {MCIfAddr[r][i] : i \in MCIface} -> NoRoute
                 [] r = r1 /\ t = "a" -> Hp(a, "eth1")
                 [] r = r1 /\ t \notin {"a", "r1a", "r1r2"} -> Hp(r2, "eth2")
                 [] r = r2 /\ t = "b" -> Hp(b, "eth2")
                 [] r = r2 /\ t = "d" -> Hp(d, "eth2")
                 [] r = r2 /\ t \in {"y", "g"} -> NoRoute
                 [] r = r2 /\ t \in {"r3b", "r3e"} -> Hp(r3, "eth2")
                 [] r = r2 /\ t \in {"a", "e", "x", "r1a", "r1r2"} -> Hp(r1, "eth1")
                 [] r = r3 /\ t = "e" -> Hp(e, "eth2")
                 [] r = r3 /\ t = "g" -> Hp(g, "eth2")
                 [] r = r3 /\ t = "b" -> Hp(b, "eth1")
                 [] r = r3 /\ t = "d" -> Hp(d, "eth1")
                 [] OTHER -> Hp(r2, "eth1")]]
MCHostAddr == [h \in {a, b, d, e, g} |->
               CASE h = a -> "a" [] h = b -> "b" [] h = d -> "d" [] h = e -> "e"
                 [] h = g -> "g"]
MCGateway  == [h \in {a, b, d, e, g} |->
               CASE h = a -> r1 [] h \in {b, d} -> r2 [] h \in {e, g} -> r3]
MCUp       == {r1, r2, r3, a, b, e, g}

P(i, k, s, t, n, o) ==
    WithSum([id |-> i, kind |-> k, src |-> s, dst |-> t, ttl |-> n, opts |-> o,
             sum |-> Corrupt], TRUE)
MCPackets ==
    {P("ping", "echo", "a", "b", 4, FALSE), P("back", "echo", "b", "a", 3, FALSE),
     P("ttl1", "udp", "a", "b", 1, FALSE),  P("ttl2", "udp", "a", "b", 2, FALSE),
     P("ttl3", "udp", "a", "b", 3, FALSE),  P("near", "echo", "a", "r1a", 2, FALSE),
     P("near1", "echo", "a", "r1a", 1, FALSE), P("far", "echo", "a", "r2b", 3, FALSE),
     P("port", "udp", "a", "r2r1", 4, FALSE), P("loop", "udp", "a", "x", 4, FALSE),
     P("unknown", "echo", "a", "y", 4, FALSE), P("down", "udp", "a", "d", 4, FALSE),
     P("other", "other", "b", "r1r2", 4, FALSE), P("opts", "echo", "a", "b", 4, TRUE),
     P("optsus", "echo", "a", "r1a", 4, TRUE), P("optsttl", "udp", "b", "a", 1, TRUE),
     \* r3 is the third router from a: its reply has what the request had left
     P("third4", "echo", "a", "r3e", 4, FALSE), P("third5", "echo", "a", "r3e", 5, FALSE),
     \* nobody beyond r3 has a way back to g
     P("mute", "udp", "g", "y", 5, FALSE), P("heard", "echo", "g", "a", 5, FALSE),
     \* what e is told by r2 and by r3; r2's error loops and is itself reported
     P("lost", "udp", "e", "y", 5, FALSE), P("told", "echo", "e", "d", 5, FALSE),
     [P("bad", "udp", "a", "b", 4, FALSE) EXCEPT !.sum = Corrupt]}
MCId   == {p.id : p \in MCPackets}
MCSent == [i \in MCId |-> CHOOSE p \in MCPackets : p.id = i]

\* What the theorem on traceroute and the property Quiet assume of the network.
ASSUME PlainNetwork == HostsSendPlainly /\ OwnReachable
=============================================================================
