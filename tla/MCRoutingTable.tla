--------------------------- MODULE MCRoutingTable ---------------------------
(* RoutingTable with 2-bit addresses and files of up to three lines: complete *)
(* ones with prefixes of every length, a blank one, one without an interface  *)
(* and one that cannot be converted.                                          *)
EXTENDS RoutingTable

CONSTANTS g1, eth1, eth2

E(d, n, i) == [dest |-> d, gw |-> g1, len |-> n, iface |-> i]
Blank   == <<>>
NoIface == [dest |-> {0}, gw |-> g1, len |-> 2]

MCGw    == {g1}
MCIface == {eth1, eth2}
MCLines == {Blank, NoIface, Bad, E({}, 0, eth1), E({1}, 1, eth1),
            E({1}, 1, eth2), E({0, 1}, 2, eth2)}
MCFiles == {Missing, <<>>, <<Blank>>}
             \cup {<<NoIface, b>> : b \in MCLines}
             \cup {<<E({1}, 1, eth1), b, c>> :
                      b \in MCLines, c \in MCLines \ {Blank, Bad}}
=============================================================================
