----------------------------- MODULE ArpService -----------------------------
(***************************************************************************)
(* What address resolution promises each packet handed to it (the          *)
(* pseudocode of sr_arpcache.h, read as a service): it is delivered to its *)
(* next hop, or its source is told the host is unreachable, or, if there   *)
(* is no route to its source, it may be dropped without a word; and each   *)
(* packet meets exactly one of these fates, once, unless the router fails. *)
(***************************************************************************)
CONSTANTS
    Packet,
    Unroutable      \* packets whose source has no routing entry

VARIABLES
    fate,           \* per packet
    up              \* the router is running

vars == <<fate, up>>

Fates == {"new", "waiting", "delivered", "reported", "dropped"}

Init == fate = [p \in Packet |-> "new"] /\ up = TRUE

Becomes(p, f) == fate' = [fate EXCEPT ![p] = f]

Accept(p) ==
    /\ up /\ fate[p] = "new"
    /\ Becomes(p, "waiting") \/ Becomes(p, "delivered")
    /\ UNCHANGED up

Deliver(p) == up /\ fate[p] = "waiting" /\ Becomes(p, "delivered") /\ UNCHANGED up

Report(p) ==
    /\ up /\ fate[p] = "waiting" /\ p \notin Unroutable
    /\ Becomes(p, "reported")
    /\ UNCHANGED up

\* Giving a request up drops all its unroutable packets together.
Drop(S) ==
    /\ up /\ S # {} /\ \A p \in S : p \in Unroutable /\ fate[p] = "waiting"
    /\ fate' = [p \in Packet |-> IF p \in S THEN "dropped" ELSE fate[p]]
    /\ UNCHANGED up

Fail == up /\ up' = FALSE /\ UNCHANGED fate

Settle(p) == Deliver(p) \/ Report(p) \/ \E S \in SUBSET Packet : p \in S /\ Drop(S)

Next == Fail \/ \E p \in Packet : Accept(p) \/ Settle(p)

Spec == Init /\ [][Next]_vars

\* Every waiting packet is settled in the end.
FairSpec == Spec /\ \A p \in Packet : WF_vars(Settle(p))
=============================================================================
