------------------------------ MODULE Network ------------------------------
(***************************************************************************)
(* IP packets in a network of routers that run this code.  One action is   *)
(* one call of sr_handlepacket: the checks, sr_forward_ip_packet, and the  *)
(* ICMP message send_icmp_msg builds.  What a router sends waits for the   *)
(* hardware address of the next hop; that wait is the one ArpCache models, *)
(* here reduced to what ArpService promises: a packet is sent once the     *)
(* gateway has answered, or its source is told that the host is            *)
(* unreachable.  Hosts are external: they answer an echo request and       *)
(* nothing else.                                                           *)
(*                                                                         *)
(* The header checksum is kept as what it covers: the time to live, the    *)
(* two addresses in any order (the sum commutes), and the options if they  *)
(* were summed.  sr_handlepacket sums ip_hl * 4 bytes, sr_forward_ip_packet *)
(* the 20 bytes of the struct.                                             *)
(***************************************************************************)
EXTENDS Naturals, FiniteSets

CONSTANTS
    Router, Host,   \* nodes
    Addr,           \* IP addresses
    Iface,          \* interface names
    IfAddr,         \* router -> interface -> address
    Route,          \* router -> address -> the hop its table gives, or NoRoute
    NoRoute,
    HostAddr,       \* host -> address
    Gateway,        \* host -> the router it sends to
    Up,             \* nodes that answer ARP requests
    Id,             \* names of the packets hosts send
    Sent,           \* Id -> the packet
    MaxTTL,         \* the time to live of a fresh packet (255; hosts: 64)
    AtOnce          \* bound: packets sent in one behaviour

Node == Router \cup Host
Hop  == [node : Node, iface : Iface]
Error == {"time", "net", "host", "port"}        \* ICMP errors, by type and code
Kind  == {"echo", "reply", "udp", "other"} \cup Error

\* What the checksum p.sum of a valid header covers; full: options included.
Covered(p, full) ==
    <<IF full /\ p.opts THEN "options" ELSE "basic", p.ttl, {p.src, p.dst}>>

Corrupt == <<"corrupt", 0, {}>>
Sums    == ({"options", "basic"} \X (0..MaxTTL) \X SUBSET Addr) \cup {Corrupt}
Packet  == [id : Id, kind : Kind, src : Addr, dst : Addr, ttl : 0..MaxTTL,
            opts : BOOLEAN, sum : Sums]

ASSUME NetworkAssumption ==
    /\ Router \cap Host = {}
    /\ IfAddr \in [Router -> [Iface -> Addr]]
    /\ Route \in [Router -> [Addr -> Hop \cup {NoRoute}]]
    /\ NoRoute \notin Hop
    /\ HostAddr \in [Host -> Addr] /\ Gateway \in [Host -> Router \cap Up]
    /\ Up \subseteq Node
    /\ MaxTTL \in Nat \ {0} /\ AtOnce \in Nat

ASSUME PacketAssumption ==
    /\ Sent \in [Id -> Packet]
    /\ \A i \in Id : Sent[i].id = i /\ Sent[i].sum \in {Covered(Sent[i], TRUE), Corrupt}

VARIABLES
    todo,       \* packets still to be sent by hosts
    air,        \* packets on a link: [at, pkt]
    waiting,    \* packets a router holds for a next hop: [at, hop, pkt]
    got,        \* host -> packets it has received
    refused     \* packets dropped for their checksum

vars == <<todo, air, waiting, got, refused>>

Init ==
    /\ todo \in {T \in SUBSET Id : Cardinality(T) <= AtOnce}
    /\ air = {} /\ waiting = {} /\ refused = {}
    /\ got = [h \in Host |-> {}]

(***************************************************************************)
(* send_icmp_msg: at most one packet, on the route to the source of p.     *)
(***************************************************************************)
Own(r) == {IfAddr[r][i] : i \in Iface}

WithSum(p, full) == [p EXCEPT !.sum = Covered(p, full)]

\* Mutant: the echo reply gets a time to live of its own.
FreshReply(p) == WithSum([p EXCEPT !.kind = "reply", !.src = p.dst, !.dst = p.src,
                                   !.ttl = MaxTTL], TRUE)

\* Echo reply: the packet itself, addresses swapped, time to live as it is.
Reply(p) == [p EXCEPT !.kind = "reply", !.src = p.dst, !.dst = p.src]

\* An error, from the address that was asked for (port unreachable) or from the
\* interface on the way to the source.
ErrorAbout(r, p, what, hop) ==
    WithSum([id |-> p.id, kind |-> what, dst |-> p.src, ttl |-> MaxTTL,
             src |-> IF what = "port" THEN p.dst ELSE IfAddr[r][hop.iface],
             opts |-> p.opts, sum |-> p.sum], TRUE)

Queue(r, hop, p) == {[at |-> r, hop |-> hop, pkt |-> p]}

send_icmp_msg(r, p, what) ==
    LET hop == Route[r][p.src]
    IN IF hop = NoRoute THEN {}
       ELSE Queue(r, hop, IF what = "reply" THEN Reply(p)
                                            ELSE ErrorAbout(r, p, what, hop))

(***************************************************************************)
(* sr_forward_ip_packet and sr_handlepacket, on a packet whose checksums   *)
(* are right: what is queued.                                              *)
(***************************************************************************)
OldSum(p)   == [p EXCEPT !.ttl = @ - 1]         \* mutant: the sum is not redone
SameTtl(p)  == WithSum(p, FALSE)                \* mutant: ip_ttl is not lowered
Hopped(p)   == WithSum([p EXCEPT !.ttl = @ - 1], FALSE)

sr_forward_ip_packet(r, p) ==
    IF p.ttl <= 1 THEN send_icmp_msg(r, p, "time")
    ELSE LET q == Hopped(p)
             hop == Route[r][q.dst]
         IN IF hop = NoRoute THEN send_icmp_msg(r, q, "net")
                             ELSE Queue(r, hop, q)

\* Mutant: a TCP or UDP packet for us is dropped.
OnlyEcho(r, p) == IF p.kind = "echo" THEN send_icmp_msg(r, p, "reply") ELSE {}

ForUs(r, p) ==
    CASE p.kind = "echo" -> send_icmp_msg(r, p, "reply")
      [] p.kind = "udp"  -> send_icmp_msg(r, p, "port")
      [] OTHER           -> {}

\* Mutant: no return after the time exceeded message.
FallThrough(r, p) ==
    (IF p.ttl <= 1 THEN send_icmp_msg(r, p, "time") ELSE {})
      \cup IF p.dst \in Own(r) THEN ForUs(r, p)
           ELSE Queue(r, Route[r][p.dst], p)

\* Mutant: the packet is for us whatever its time to live.
ForUsFirst(r, p) ==
    IF p.dst \in Own(r) THEN ForUs(r, p)
    ELSE IF p.ttl < 1 THEN send_icmp_msg(r, p, "time")
    ELSE LET hop == Route[r][p.dst]
         IN IF hop = NoRoute THEN send_icmp_msg(r, p, "net")
            ELSE Queue(r, hop, Hopped(p))

Output(r, p) ==
    IF p.ttl <= 1 THEN send_icmp_msg(r, p, "time")
    ELSE IF p.dst \in Own(r) THEN ForUs(r, p)
    ELSE sr_forward_ip_packet(r, p)

\* The two checksum tests a packet meets; those for us meet the first only.
Refuses(r, p) ==
    \/ p.sum # Covered(p, TRUE)
    \/ p.ttl > 1 /\ p.dst \notin Own(r) /\ p.sum # Covered(p, FALSE)

sr_handlepacket(f) ==
    /\ f \in air /\ f.at \in Router
    /\ air' = air \ {f}
    /\ IF Refuses(f.at, f.pkt)
       THEN refused' = refused \cup {f.pkt} /\ UNCHANGED waiting
       ELSE waiting' = waiting \cup Output(f.at, f.pkt) /\ UNCHANGED refused
    /\ UNCHANGED <<todo, got>>

(***************************************************************************)
(* The wait for the next hop's hardware address.                           *)
(***************************************************************************)
Resolved(w) ==
    /\ w \in waiting /\ w.hop.node \in Up
    /\ waiting' = waiting \ {w}
    /\ air' = air \cup {[at |-> w.hop.node, pkt |-> w.pkt]}
    /\ UNCHANGED <<todo, got, refused>>

\* handle_arpreq after five requests: host unreachable to the packet's source.
Unresolved(w) ==
    /\ w \in waiting /\ w.hop.node \notin Up
    /\ waiting' = (waiting \ {w}) \cup send_icmp_msg(w.at, w.pkt, "host")
    /\ UNCHANGED <<todo, air, got, refused>>

(***************************************************************************)
(* Hosts.                                                                  *)
(***************************************************************************)
HostSends(i) ==
    /\ i \in todo
    /\ todo' = todo \ {i}
    /\ \E h \in Host : /\ HostAddr[h] = Sent[i].src
                       /\ air' = air \cup {[at |-> Gateway[h], pkt |-> Sent[i]]}
    /\ UNCHANGED <<waiting, got, refused>>

HostReply(p) == WithSum([Reply(p) EXCEPT !.ttl = MaxTTL], TRUE)

HostGets(f) ==
    /\ f \in air /\ f.at \in Host
    /\ LET ok == f.pkt.sum = Covered(f.pkt, TRUE) /\ f.pkt.dst = HostAddr[f.at]
       IN /\ got' = IF ok THEN [got EXCEPT ![f.at] = @ \cup {f.pkt}] ELSE got
          /\ air' = (air \ {f}) \cup
                      IF ok /\ f.pkt.kind = "echo"
                      THEN {[at |-> Gateway[f.at], pkt |-> HostReply(f.pkt)]} ELSE {}
    /\ UNCHANGED <<todo, waiting, refused>>

Next ==
    \/ \E i \in Id : HostSends(i)
    \/ \E f \in air : sr_handlepacket(f) \/ HostGets(f)
    \/ \E w \in waiting : Resolved(w) \/ Unresolved(w)

\* Every node goes on working: main loops, the ARP sweeper runs every second.
Spec == Init /\ [][Next]_vars
Fair == Spec /\ WF_vars(Next)

(***************************************************************************)
(* Properties.                                                             *)
(***************************************************************************)
\* Packets keep to their fields; the time to live never goes below zero.
TypeOK ==
    /\ todo \subseteq Id
    /\ \A f \in air : f.at \in Node /\ f.pkt \in Packet
    /\ \A w \in waiting : w.at \in Router /\ w.hop \in Hop /\ w.pkt \in Packet
    /\ \A h \in Host : got[h] \subseteq Packet

\* Whatever a router sends has the checksum the next node computes: the one
\* sr_forward_ip_packet redoes after lowering ip_ttl, the one of a new ICMP
\* message, and the one the echo reply keeps from the request.
SumsValid == \A w \in waiting : w.pkt.sum = Covered(w.pkt, TRUE)

\* A packet is never in two places: each call of sr_handlepacket and each
\* host-unreachable report answers, forwards or drops, and does one of them.
InFlight == {<<f.at, f.pkt>> : f \in air} \cup {<<w.at, w.pkt>> : w \in waiting}
NoDuplication ==
    /\ \A x, y \in InFlight : x[2].id = y[2].id => x = y
    /\ \A x \in InFlight : x[2].id \notin todo
    /\ \A f \in air, w \in waiting : f.pkt.id # w.pkt.id

\* The nodes a packet to address d meets from node first on, were it to live for
\* ever; NoRoute once there is none.
Path(first, d) ==
    LET path[n \in 1..MaxTTL] ==
          IF n = 1 THEN first
          ELSE IF path[n - 1] \notin Router \/ d \in Own(path[n - 1])
               THEN NoRoute
               ELSE LET hop == Route[path[n - 1]][d]
                    IN IF hop = NoRoute THEN NoRoute ELSE hop.node
    IN path

\* A packet to d that node first gets with time to live t comes to the node of that
\* address: a host takes it with whatever is left, a router only with more than 1.
Arrives(first, d, t) ==
    LET path == Path(first, d)
    IN \E n \in 1..t :
         /\ \A m \in 1..n : path[m] \in Up
         /\ \/ path[n] \in Host /\ HostAddr[path[n]] = d
            \/ path[n] \in Router /\ d \in Own(path[n]) /\ n < t

\* What router r sends to d with time to live t arrives.
Carries(r, d, t) ==
    LET hop == Route[r][d] IN hop # NoRoute /\ Arrives(hop.node, d, t)

Source(i) == CHOOSE h \in Host : HostAddr[h] = Sent[i].src

\* Hosts send to others, nothing that is an error and with some time to live;
\* no two nodes share an address.
HostsSendPlainly ==
    /\ \A i \in Id : Sent[i].kind \notin Error /\ Sent[i].ttl # 0 /\ Sent[i].src # Sent[i].dst
    /\ \A h, k \in Host : HostAddr[h] = HostAddr[k] => h = k
    /\ \A h \in Host, r \in Router : HostAddr[h] \notin Own(r)

\* traceroute (traceroute.sh): a time exceeded message for a packet sent with
\* time to live n comes from the n-th router on its way.
Traceroute ==
    \A h \in Host : \A p \in got[h] :
        p.kind = "time" /\ h = Source(p.id) =>
            LET r == Path(Gateway[h], Sent[p.id].dst)[Sent[p.id].ttl]
            IN r \in Router /\ p.src \in Own(r)

\* What the source of packet i is told, by the routes alone: why the walk along Path
\* ends, if the message that says so finds its way back with the time to live it
\* is given.  The router's echo reply has what the request had left, an error and a
\* host's reply a fresh one.
Verdict(i) ==
    LET s == Sent[i]
        path == Path(Gateway[Source(i)], s.dst)
        next(n) == Route[path[n]][s.dst]
        \* the step at which the walk stops for another reason than its ttl
        Stops(n) == \/ s.dst \in Own(path[n])
                    \/ next(n) = NoRoute
                    \/ next(n).node \in Host \/ next(n).node \notin Up
        Last == {n \in 1..(s.ttl - 1) : path[n] \in Router /\ Stops(n)}
        last == IF Last = {} THEN s.ttl ELSE CHOOSE n \in Last : \A m \in Last : n <= m
        r    == path[last]
        Back(what, ttl) == IF Carries(r, s.src, ttl) THEN what ELSE "none"
    IN IF Last = {} THEN Back("time", MaxTTL)
       ELSE IF s.dst \in Own(r)
       THEN CASE s.kind = "echo" -> Back("reply", s.ttl - last + 1)
              [] s.kind = "udp" -> Back("port", MaxTTL)
              [] OTHER -> "none"
       ELSE IF next(last) = NoRoute THEN Back("net", MaxTTL)
       ELSE IF next(last).node \notin Up THEN Back("host", MaxTTL)
       ELSE IF /\ s.kind = "echo" /\ HostAddr[next(last).node] = s.dst
               /\ Arrives(Gateway[next(last).node], s.src, MaxTTL)
            THEN "reply" ELSE "none"

Plain(i) == Sent[i].sum # Corrupt /\ ~Sent[i].opts

Told(i) == \E p \in got[Source(i)] : p.id = i /\ p.kind = Verdict(i)

\* Every plain packet a host sends has its consequence: the echo reply, or the
\* one ICMP error that says why there is none, reaches the source wherever the routes
\* back and the time to live of the message let it; a packet caught between
\* two routers ends as time exceeded.
VerdictArrives ==
    \A i \in Id : Verdict(i) # "none" /\ Plain(i) => (i \in todo ~> Told(i))

\* And nothing else: where the routes back or the time to live do not suffice the
\* source hears nothing.  A ping that comes to the third router with time to live 2
\* is answered with time to live 2 (sr_router.c:83-90) and its reply dies on the way.
OnlyVerdict ==
    \A h \in Host : \A p \in got[h] :
        h = Source(p.id) /\ Plain(p.id) => p.kind = Verdict(p.id)

\* The routers' own addresses can be reached from every router with a route to them.
OwnReachable ==
    \A r, x \in Router : \A d \in Own(x) : Route[r][d] # NoRoute => Carries(r, d, MaxTTL)

\* The network comes to rest: no loop of routes keeps packets circulating.  An error
\* gets a fresh time to live, and send_icmp_msg answers errors and replies with errors
\* too; what ends that is that an error about an error is for a router, which
\* drops it (sr_router.c:387-403) if only it gets there.
Quiet == OwnReachable => <>[](todo = {} /\ air = {} /\ waiting = {})

\* "check valid checksum" (sr_router.c:210): only an invalid packet is refused, on
\* the whole path with the new sums made on the way, but for those with options: the
\* second test sums 20 bytes of a header that is longer.
RefusedRightly == \A p \in refused : Sent[p.id].sum = Corrupt \/ p.opts
=============================================================================
