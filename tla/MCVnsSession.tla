---------------------------- MODULE MCVnsSession ----------------------------
(* Two interfaces.  The switch may come back with its ports exchanged, or      *)
(* without the interface that the routing table names.                         *)
EXTENDS VnsSession, TLC

CONSTANTS eth1, eth2, c1, c2

Straight  == (eth1 :> 1) @@ (eth2 :> 2)
Exchanged == (eth1 :> 2) @@ (eth2 :> 1)
Missing   == eth2 :> 2
MCInfos   == {Straight, Exchanged, Missing}
=============================================================================
