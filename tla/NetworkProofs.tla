--------------------------- MODULE NetworkProofs ---------------------------
(***************************************************************************)
(* Packets in any network of these routers: any topology, routes (loops    *)
(* included), addresses and packets.  Whatever a router sends on has a     *)
(* valid checksum, a packet is never in two places, only a packet that was *)
(* corrupt or has options is refused, and traceroute names the right nodes *)
(* (the second half of the module, from Walks on).                         *)
(***************************************************************************)
EXTENDS Network, NaturalsInduction, WellFoundedInduction, TLAPS

Frames      == [at : Node, pkt : Packet]
Held(r)     == [at : {r}, hop : Hop, pkt : Packet]
Right(p)    == p.sum = Covered(p, TRUE)

Types ==
    /\ todo \subseteq Id /\ air \subseteq Frames
    /\ \A w \in waiting : w.at \in Router /\ w \in Held(w.at)
    /\ got \in [Host -> SUBSET Packet] /\ refused \subseteq Packet

\* A wrong sum on a link is one a host sent.
WrongFromHost == \A f \in air : Right(f.pkt) \/ Sent[f.pkt.id].sum = Corrupt

\* One packet of a name, in one place.
OneEach ==
    /\ \A f, g \in air : f.pkt.id = g.pkt.id => f = g
    /\ \A v, w \in waiting : v.pkt.id = w.pkt.id => v = w
    /\ \A f \in air : f.pkt.id \notin todo
    /\ \A w \in waiting : w.pkt.id \notin todo
    /\ \A f \in air, w \in waiting : f.pkt.id # w.pkt.id

IInv == Types /\ WrongFromHost /\ SumsValid /\ OneEach /\ RefusedRightly

(***************************************************************************)
(* What the handlers make of a packet.                                     *)
(***************************************************************************)
\* At most one packet, under the name of the one it is about, with the right sum.
Answers(r, p, S) == /\ S \subseteq Held(r)
                    /\ \A w \in S : w.pkt.id = p.id /\ Right(w.pkt)
                    /\ \A v, w \in S : v = w

LEMMA Summed ==
    ASSUME NEW p \in Packet
    PROVE  Covered(p, TRUE) \in Sums
BY DEF Covered, Sums, Packet

LEMMA WithRightSum ==
    ASSUME NEW p \in Packet
    PROVE  /\ WithSum(p, TRUE) \in Packet /\ WithSum(p, TRUE).id = p.id
           /\ Right(WithSum(p, TRUE))
<1>1. Covered(p, TRUE) \in Sums
  BY Summed
<1>2. WithSum(p, TRUE) = [p EXCEPT !.sum = Covered(p, TRUE)]
  BY DEF WithSum
<1> QED  BY <1>1, <1>2 DEF Packet, Right, Covered

LEMMA Errors ==
    ASSUME NEW r \in Router, NEW p \in Packet, NEW what \in Error
    PROVE  Answers(r, p, send_icmp_msg(r, p, what))
<1> DEFINE hop == Route[r][p.src]
           new == [id |-> p.id, kind |-> what, dst |-> p.src, ttl |-> MaxTTL,
                   src |-> IF what = "port" THEN p.dst ELSE IfAddr[r][hop.iface],
                   opts |-> p.opts, sum |-> p.sum]
<1>1. CASE hop = NoRoute
  BY <1>1 DEF send_icmp_msg, Answers
<1>2. CASE hop # NoRoute
  <2>1. hop \in Hop /\ IfAddr[r][hop.iface] \in Addr
    BY <1>2, NetworkAssumption DEF Packet, Hop
  <2>2. MaxTTL \in 0..MaxTTL /\ what \in Kind /\ what # "reply"
    BY NetworkAssumption DEF Kind, Error
  <2>3. new \in Packet /\ new.id = p.id
    BY <2>1, <2>2 DEF Packet
  <2>4. ErrorAbout(r, p, what, hop) = WithSum(new, TRUE)
    BY DEF ErrorAbout
  <2>5. send_icmp_msg(r, p, what) =
            {[at |-> r, hop |-> hop, pkt |-> ErrorAbout(r, p, what, hop)]}
    BY <1>2, <2>2 DEF send_icmp_msg, Queue
  <2>6. /\ ErrorAbout(r, p, what, hop) \in Packet
        /\ ErrorAbout(r, p, what, hop).id = p.id
        /\ Right(ErrorAbout(r, p, what, hop))
    BY <2>3, <2>4, WithRightSum
  <2> QED  BY <2>1, <2>5, <2>6 DEF Answers, Held
<1> QED  BY <1>1, <1>2

\* The echo reply keeps the sum: the addresses change places only.
LEMMA Echo ==
    ASSUME NEW p \in Packet
    PROVE  /\ Reply(p) \in Packet /\ Reply(p).id = p.id
           /\ Right(p) => Right(Reply(p))
<1>1. Reply(p) = [p EXCEPT !.kind = "reply", !.src = p.dst, !.dst = p.src]
  BY DEF Reply
<1>2. Reply(p) \in Packet /\ Reply(p).id = p.id
  BY <1>1 DEF Packet, Kind
<1>3. {p.src, p.dst} = {p.dst, p.src}
  OBVIOUS
<1> QED  BY <1>1, <1>2, <1>3 DEF Right, Covered, Packet

LEMMA Echoes ==
    ASSUME NEW r \in Router, NEW p \in Packet, Right(p)
    PROVE  Answers(r, p, send_icmp_msg(r, p, "reply"))
<1> DEFINE hop == Route[r][p.src]
<1>1. CASE hop = NoRoute
  BY <1>1 DEF send_icmp_msg, Answers
<1>2. CASE hop # NoRoute
  <2>1. hop \in Hop
    BY <1>2, NetworkAssumption DEF Packet
  <2>2. send_icmp_msg(r, p, "reply") = {[at |-> r, hop |-> hop, pkt |-> Reply(p)]}
    BY <1>2 DEF send_icmp_msg, Queue
  <2> QED  BY <2>1, <2>2, Echo DEF Answers, Held
<1> QED  BY <1>1, <1>2

\* A packet that passes both tests has no options in its sum, so the sum over the
\* twenty bytes is the right one for the next node.
LEMMA Hops ==
    ASSUME NEW p \in Packet, p.ttl > 1, Right(p), p.sum = Covered(p, FALSE)
    PROVE  Hopped(p) \in Packet /\ Hopped(p).id = p.id /\ Right(Hopped(p))
<1> DEFINE q == [p EXCEPT !.ttl = @ - 1]
<1>1. ~p.opts
  BY DEF Right, Covered, Packet
<1>2. q \in Packet /\ q.id = p.id /\ q.opts = p.opts
  <2>1. p.ttl \in 0..MaxTTL /\ MaxTTL \in Nat
    BY NetworkAssumption DEF Packet
  <2>2. p.ttl - 1 \in 0..MaxTTL
    BY <2>1
  <2> DEFINE n == p.ttl - 1
  <2>3. [p EXCEPT !.ttl = n] \in Packet
    <3>1. n \in 0..MaxTTL
      BY <2>2
    <3> HIDE DEF n
    <3> QED  BY <3>1 DEF Packet
  <2> QED  BY <2>3 DEF Packet
<1>3. Covered(q, FALSE) = Covered(q, TRUE)
  BY <1>1, <1>2 DEF Covered
<1>4. Hopped(p) = WithSum(q, TRUE)
  BY <1>3 DEF Hopped, WithSum
<1> QED  BY <1>2, <1>4, WithRightSum

LEMMA Outputs ==
    ASSUME NEW r \in Router, NEW p \in Packet, ~Refuses(r, p)
    PROVE  Answers(r, p, Output(r, p))
<1>1. Right(p)
  BY DEF Refuses, Right
<1>2. p.ttl \in 0..MaxTTL /\ MaxTTL \in Nat
  BY NetworkAssumption DEF Packet
<1>3. CASE p.ttl <= 1
  BY <1>3, Errors DEF Output, Error
<1>4. CASE p.ttl > 1 /\ p.dst \in Own(r)
  <2>1. Output(r, p) = ForUs(r, p)
    BY <1>2, <1>4 DEF Output
  <2>2. Answers(r, p, {})
    BY DEF Answers
  <2>3. CASE p.kind = "echo"
    BY <1>1, <2>1, <2>3, Echoes DEF ForUs
  <2>4. CASE p.kind = "udp"
    BY <2>1, <2>4, Errors DEF ForUs, Error
  <2>5. CASE p.kind # "echo" /\ p.kind # "udp"
    BY <2>1, <2>2, <2>5 DEF ForUs
  <2> QED  BY <2>3, <2>4, <2>5
<1>5. CASE p.ttl > 1 /\ p.dst \notin Own(r)
  <2>1. Output(r, p) = sr_forward_ip_packet(r, p)
    BY <1>2, <1>5 DEF Output
  <2>2. Hopped(p) \in Packet /\ Hopped(p).id = p.id /\ Right(Hopped(p))
    BY <1>1, <1>5, Hops DEF Refuses
  <2>3. CASE Route[r][Hopped(p).dst] = NoRoute
    <3>1. Output(r, p) = send_icmp_msg(r, Hopped(p), "net")
      BY <1>2, <1>5, <2>1, <2>3 DEF sr_forward_ip_packet
    <3>2. Answers(r, Hopped(p), Output(r, p))
      BY <2>2, <3>1, Errors DEF Error
    <3> QED  BY <2>2, <3>2 DEF Answers
  <2>4. CASE Route[r][Hopped(p).dst] # NoRoute
    <3> DEFINE hop == Route[r][Hopped(p).dst]
    <3>1. hop \in Hop
      BY <2>2, <2>4, NetworkAssumption DEF Packet
    <3>2. Output(r, p) = {[at |-> r, hop |-> hop, pkt |-> Hopped(p)]}
      BY <1>2, <1>5, <2>1, <2>4 DEF sr_forward_ip_packet, Queue
    <3> QED  BY <2>2, <3>1, <3>2 DEF Answers, Held
  <2> QED  BY <2>3, <2>4
<1> QED  BY <1>2, <1>3, <1>4, <1>5

(***************************************************************************)
(* The invariant.                                                          *)
(***************************************************************************)
LEMMA InitIInv == Init => IInv
BY DEF Init, IInv, Types, WrongFromHost, SumsValid, OneEach, RefusedRightly

LEMMA HandleKeeps ==
    ASSUME IInv, NEW f \in air, sr_handlepacket(f)
    PROVE  IInv'
<1> USE DEF IInv
<1> DEFINE r == f.at
           p == f.pkt
<1>1. r \in Router /\ p \in Packet
  BY DEF sr_handlepacket, Types, Frames
<1>2. air' = air \ {f} /\ UNCHANGED <<todo, got>>
  BY DEF sr_handlepacket
<1>3. WrongFromHost'
  BY <1>2 DEF WrongFromHost
<1>4. CASE Refuses(r, p)
  <2>1. refused' = refused \cup {p} /\ UNCHANGED waiting
    BY <1>4 DEF sr_handlepacket
  <2>2. Sent[p.id].sum = Corrupt \/ p.opts
    <3>1. CASE ~Right(p)
      BY <3>1 DEF WrongFromHost
    <3>2. CASE Right(p)
      BY <1>1, <1>4, <3>2 DEF Refuses, Right, Covered, Packet
    <3> QED  BY <3>1, <3>2
  <2>3. RefusedRightly'
    BY <2>1, <2>2 DEF RefusedRightly
  <2>4. Types' /\ SumsValid' /\ OneEach'
    BY <1>1, <1>2, <2>1 DEF Types, SumsValid, OneEach
  <2> QED  BY <1>3, <2>3, <2>4
<1>5. CASE ~Refuses(r, p)
  <2> DEFINE new == Output(r, p)
  <2>1. waiting' = waiting \cup new /\ UNCHANGED refused
    BY <1>5 DEF sr_handlepacket
  <2>2. Answers(r, p, new)
    BY <1>1, <1>5, Outputs
  <2> HIDE DEF new
  <2>3. /\ \A w \in new : w \in Held(r) /\ w.at = r /\ w.pkt.id = p.id /\ Right(w.pkt)
        /\ \A v, w \in new : v = w
    BY <2>2 DEF Answers, Held
  <2>4. Types'
    BY <1>1, <1>2, <2>1, <2>3 DEF Types
  <2>5. SumsValid'
    BY <2>1, <2>3 DEF SumsValid, Right
  <2>6. OneEach'
    BY <1>2, <2>1, <2>3 DEF OneEach
  <2>7. RefusedRightly'
    BY <2>1 DEF RefusedRightly
  <2> QED  BY <1>3, <2>4, <2>5, <2>6, <2>7
<1> QED  BY <1>4, <1>5

LEMMA WaitKeeps ==
    ASSUME IInv, NEW w \in waiting, Resolved(w) \/ Unresolved(w)
    PROVE  IInv'
<1> USE DEF IInv
<1>1. /\ w.at \in Router /\ w.hop \in Hop /\ w.pkt \in Packet /\ Right(w.pkt)
      /\ w.hop.node \in Node
  BY DEF Types, Held, SumsValid, Right, Hop
<1>2. UNCHANGED <<todo, got, refused>>
  BY DEF Resolved, Unresolved
<1>3. RefusedRightly'
  BY <1>2 DEF RefusedRightly
<1>4. CASE Resolved(w)
  <2> DEFINE g == [at |-> w.hop.node, pkt |-> w.pkt]
  <2>1. waiting' = waiting \ {w} /\ air' = air \cup {g}
    BY <1>4 DEF Resolved
  <2>2. g \in Frames /\ g.pkt = w.pkt
    BY <1>1 DEF Frames
  <2> HIDE DEF g
  <2>3. Types'
    BY <1>2, <2>1, <2>2 DEF Types
  <2>4. SumsValid' /\ WrongFromHost'
    BY <1>1, <2>1, <2>2 DEF SumsValid, WrongFromHost
  <2>5. OneEach'
    BY <1>2, <2>1, <2>2 DEF OneEach
  <2> QED  BY <1>3, <2>3, <2>4, <2>5
<1>5. CASE Unresolved(w)
  <2> DEFINE new == send_icmp_msg(w.at, w.pkt, "host")
  <2>1. waiting' = (waiting \ {w}) \cup new /\ UNCHANGED air
    BY <1>5 DEF Unresolved
  <2>2. Answers(w.at, w.pkt, new)
    BY <1>1, Errors DEF Error
  <2> HIDE DEF new
  <2>3. /\ \A v \in new : /\ v \in Held(w.at) /\ v.at = w.at
                         /\ v.pkt.id = w.pkt.id /\ Right(v.pkt)
        /\ \A u, v \in new : u = v
    BY <2>2 DEF Answers, Held
  <2>4. Types'
    BY <1>1, <1>2, <2>1, <2>3 DEF Types
  <2>5. SumsValid' /\ WrongFromHost'
    BY <2>1, <2>3 DEF SumsValid, WrongFromHost, Right
  <2>6. OneEach'
    BY <1>2, <2>1, <2>3 DEF OneEach
  <2> QED  BY <1>3, <2>4, <2>5, <2>6
<1> QED  BY <1>4, <1>5

LEMMA HostKeeps ==
    ASSUME IInv,
           (\E i \in Id : HostSends(i)) \/ (\E f \in air : HostGets(f))
    PROVE  IInv'
<1> USE DEF IInv
<1>1. UNCHANGED <<waiting, refused>>
  BY DEF HostSends, HostGets
<1>2. SumsValid' /\ RefusedRightly'
  BY <1>1 DEF SumsValid, RefusedRightly
<1>3. ASSUME NEW i \in Id, HostSends(i) PROVE IInv'
  <2>1. PICK h \in Host : air' = air \cup {[at |-> Gateway[h], pkt |-> Sent[i]]}
    BY <1>3 DEF HostSends
  <2> DEFINE g == [at |-> Gateway[h], pkt |-> Sent[i]]
  <2>2. /\ g \in Frames /\ g.pkt.id = i
        /\ Right(g.pkt) \/ Sent[g.pkt.id].sum = Corrupt
    BY NetworkAssumption, PacketAssumption DEF Frames, Node, Right
  <2>3. air' = air \cup {g} /\ todo' = todo \ {i} /\ i \in todo /\ UNCHANGED got
    BY <1>3, <2>1 DEF HostSends
  <2> HIDE DEF g
  <2>4. Types' /\ WrongFromHost'
    BY <1>1, <2>2, <2>3 DEF Types, WrongFromHost
  <2>5. OneEach'
    BY <1>1, <2>2, <2>3 DEF OneEach
  <2> QED  BY <1>2, <2>4, <2>5
<1>4. ASSUME NEW f \in air, HostGets(f) PROVE IInv'
  <2> DEFINE g == [at |-> Gateway[f.at], pkt |-> HostReply(f.pkt)]
  <2>1. f.at \in Host /\ f.pkt \in Packet
    BY <1>4 DEF HostGets, Types, Frames
  <2>2. g \in Frames /\ g.pkt.id = f.pkt.id /\ Right(g.pkt)
    <3> DEFINE q == [Reply(f.pkt) EXCEPT !.ttl = MaxTTL]
    <3>1. Reply(f.pkt) \in Packet /\ Reply(f.pkt).id = f.pkt.id
      BY <2>1, Echo
    <3>2. MaxTTL \in 0..MaxTTL
      BY NetworkAssumption
    <3>3. q \in Packet /\ q.id = f.pkt.id
      BY <3>1, <3>2 DEF Packet
    <3>4. HostReply(f.pkt) = WithSum(q, TRUE)
      BY DEF HostReply
    <3>5. /\ HostReply(f.pkt) \in Packet /\ HostReply(f.pkt).id = f.pkt.id
          /\ Right(HostReply(f.pkt))
      BY <3>3, <3>4, WithRightSum
    <3> QED  BY <2>1, <3>5, NetworkAssumption DEF Frames, Node
  <2>3. /\ air' = air \ {f} \/ air' = (air \ {f}) \cup {g}
        /\ UNCHANGED todo
        /\ got' = got \/ got' = [got EXCEPT ![f.at] = @ \cup {f.pkt}]
    BY <1>4 DEF HostGets
  <2> HIDE DEF g
  <2>4. got' \in [Host -> SUBSET Packet]
    BY <2>1, <2>3 DEF Types
  <2>5. Types' /\ WrongFromHost'
    BY <1>1, <2>2, <2>3, <2>4 DEF Types, WrongFromHost
  <2>6. OneEach'
    BY <1>1, <2>2, <2>3 DEF OneEach
  <2> QED  BY <1>2, <2>5, <2>6
<1> QED  BY <1>3, <1>4

LEMMA NextIInv == IInv /\ [Next]_vars => IInv'
<1> SUFFICES ASSUME IInv, [Next]_vars PROVE IInv'
  OBVIOUS
<1>1. CASE Next
  BY <1>1, HandleKeeps, WaitKeeps, HostKeeps DEF Next
<1>2. CASE UNCHANGED vars
  BY <1>2 DEF IInv, Types, WrongFromHost, SumsValid, OneEach, RefusedRightly, vars
<1> QED  BY <1>1, <1>2

LEMMA Inductive == Spec => []IInv
<1> QED  BY InitIInv, NextIInv, PTL DEF Spec

(***************************************************************************)
(* The theorems.                                                           *)
(***************************************************************************)
\* Packets keep to their fields; sr_forward_ip_packet never lowers ip_ttl below zero.
THEOREM TypeCorrect == Spec => []TypeOK
<1>1. IInv => TypeOK
  BY DEF IInv, Types, Frames, Held, TypeOK
<1> QED  BY <1>1, Inductive, PTL

\* On whatever network, what a router sends has the checksum the next node computes.
THEOREM SumsAreValid == Spec => []SumsValid
<1>1. IInv => SumsValid
  BY DEF IInv
<1> QED  BY <1>1, Inductive, PTL

\* On whatever network a packet or what answers it is in one place only.
THEOREM NeverTwoCopies == Spec => []NoDuplication
<1>1. IInv => NoDuplication
  BY DEF IInv, OneEach, NoDuplication, InFlight
<1> QED  BY <1>1, Inductive, PTL

\* On whatever network only a corrupt packet, or one with options, is refused.
THEOREM OnlyBadRefused == Spec => []RefusedRightly
<1>1. IInv => RefusedRightly
  BY DEF IInv
<1> QED  BY <1>1, Inductive, PTL
(***************************************************************************)
(* The way of a packet.  Path is defined by recursion; that the function   *)
(* is there is shown by the least length for which it would not be.        *)
(***************************************************************************)
\* Where address d goes from node x.
After(x, d) ==
    IF x \notin Router \/ d \in Own(x) THEN NoRoute
    ELSE LET hop == Route[x][d] IN IF hop = NoRoute THEN NoRoute ELSE hop.node

\* g gives the first n nodes of the way from node first to address d.
Walks(g, n, first, d) ==
    g = [m \in 1..n |-> IF m = 1 THEN first ELSE After(g[m - 1], d)]

LEMMA LongerWalk ==
    ASSUME NEW first, NEW d, NEW n \in Nat, NEW g, Walks(g, n, first, d)
    PROVE  \E f : Walks(f, n + 1, first, d)
<1> DEFINE next == IF n + 1 = 1 THEN first ELSE After(g[n], d)
           f == [m \in 1..(n + 1) |-> IF m = n + 1 THEN next ELSE g[m]]
<1> HIDE DEF next
<1>1. \A m \in 1..n : g[m] = IF m = 1 THEN first ELSE After(g[m - 1], d)
  BY DEF Walks
<1>2. \A m \in 1..(n + 1) : f[m] = IF m = 1 THEN first ELSE After(f[m - 1], d)
  <2> TAKE m \in 1..(n + 1)
  <2>1. CASE m = n + 1
    <3>1. f[m] = next
      BY <2>1
    <3>2. n + 1 # 1 => n \in 1..n /\ f[n] = g[n] /\ m - 1 = n
      BY <2>1
    <3> HIDE DEF f
    <3> QED  BY <2>1, <3>1, <3>2 DEF next
  <2>2. CASE m # n + 1
    <3>1. m \in 1..n /\ f[m] = g[m]
      BY <2>2
    <3>2. m # 1 => f[m - 1] = g[m - 1]
      BY <3>1
    <3> HIDE DEF f
    <3> QED  BY <1>1, <3>1, <3>2
  <2> QED  BY <2>1, <2>2
<1>3. f = [m \in 1..(n + 1) |-> f[m]]
  OBVIOUS
<1> HIDE DEF f
<1>4. Walks(f, n + 1, first, d)
  BY <1>2, <1>3 DEF Walks
<1> QED  BY <1>4

LEMMA SomeWalk ==
    ASSUME NEW first, NEW d, NEW N \in Nat
    PROVE  \E g : Walks(g, N, first, d)
<1> DEFINE Without == {n \in Nat : ~ \E g : Walks(g, n, first, d)}
           Less == {ss \in Nat \X Nat : ss[1] < ss[2]}
<1> SUFFICES ASSUME Without # {} PROVE FALSE
  OBVIOUS
<1>1. PICK n \in Without : \A m \in Without : <<m, n>> \notin Less
  <2>1. IsWellFoundedOn(Less, Nat)
    BY NatLessThanWellFounded, Zenon DEF OpToRel
  <2>2. Without \subseteq Nat
    OBVIOUS
  <2> HIDE DEF Without, Less
  <2> QED  BY <2>1, <2>2, WFMin
<1>2. CASE n = 0
  <2> DEFINE f == [m \in {} |-> NoRoute]
  <2>1. 1..0 = {}
    OBVIOUS
  <2>2. f = [m \in {} |-> IF m = 1 THEN first ELSE After(f[m - 1], d)]
    OBVIOUS
  <2>3. Walks(f, 0, first, d)
    BY <2>1, <2>2 DEF Walks
  <2> QED  BY <1>1, <1>2, <2>3
<1>3. CASE n # 0
  <2>1. n - 1 \in Nat /\ <<n - 1, n>> \in Less
    BY <1>1, <1>3
  <2>2. n - 1 \notin Without
    BY <1>1, <2>1, Zenon
  <2>3. PICK g : Walks(g, n - 1, first, d)
    BY <2>1, <2>2
  <2>4. \E f : Walks(f, (n - 1) + 1, first, d)
    BY <2>1, <2>3, LongerWalk
  <2>5. (n - 1) + 1 = n
    BY <1>1
  <2> QED  BY <1>1, <2>4, <2>5
<1> QED  BY <1>2, <1>3

\* The way starts at its first node and goes on as the routes say.
LEMMA PathIs ==
    ASSUME NEW first, NEW d
    PROVE  /\ Path(first, d)[1] = first
           /\ \A n \in 2..MaxTTL : Path(first, d)[n] = After(Path(first, d)[n - 1], d)
<1>1. MaxTTL \in Nat /\ 1 \in 1..MaxTTL
  BY NetworkAssumption
<1>2. PICK g : Walks(g, MaxTTL, first, d)
  BY <1>1, SomeWalk
<1>3. Path(first, d) = CHOOSE f : Walks(f, MaxTTL, first, d)
  BY Zenon DEF Path, Walks, After
<1>4. Walks(Path(first, d), MaxTTL, first, d)
  BY <1>2, <1>3
<1> QED  BY <1>1, <1>4 DEF Walks
(***************************************************************************)
(* Traceroute, if HostsSendPlainly.                                        *)
(***************************************************************************)
Way(i)   == Path(Gateway[Source(i)], Sent[i].dst)
Known(i) == Source(i) \in Host /\ HostAddr[Source(i)] = Sent[i].src

\* Packet p, as its host sent it but for the time to live, is n's by the way.
OnWay(p, n) ==
    LET s == Sent[p.id]
    IN /\ p.kind = s.kind /\ p.src = s.src /\ p.dst = s.dst
       /\ p.ttl \in 1..s.ttl /\ n = Way(p.id)[s.ttl - p.ttl + 1]

\* Packet p is what a node made of one that was sent; if it tells the sender that
\* the time is over, the router that says so is where the way then was.
Made(p) ==
    /\ p.kind # "echo" /\ p.src # Sent[p.id].src
    /\ p.kind = "time" /\ p.dst = Sent[p.id].src =>
         LET r == Way(p.id)[Sent[p.id].ttl] IN r \in Router /\ p.src \in Own(r)

Place(p, n) == Known(p.id) /\ (OnWay(p, n) \/ Made(p))

Traced ==
    /\ \A f \in air : Place(f.pkt, f.at)
    /\ \A w \in waiting : Place(w.pkt, w.hop.node)
    /\ \A h \in Host : \A p \in got[h] :
         p \in Packet /\ p.dst = HostAddr[h] /\ (p.kind = "time" => Known(p.id) /\ Made(p))

\* Nodes have addresses of their own.
LEMMA RouterAddress ==
    ASSUME HostsSendPlainly, NEW r \in Router, NEW i, Known(i)
    PROVE  Sent[i].src \notin Own(r)
BY DEF HostsSendPlainly, Known

\* An error about a packet; about one whose time is over, it names this router.
LEMMA ErrorsMade ==
    ASSUME HostsSendPlainly, NEW r \in Router, NEW p \in Packet, NEW what \in Error,
           Known(p.id), what = "port" => p.dst \in Own(r),
           what = "time" => p.ttl <= 1 /\ Place(p, r)
    PROVE  \A w \in send_icmp_msg(r, p, what) : Known(w.pkt.id) /\ Made(w.pkt)
<1> DEFINE hop == Route[r][p.src]
           src == IF what = "port" THEN p.dst ELSE IfAddr[r][hop.iface]
           new == [id |-> p.id, kind |-> what, dst |-> p.src, ttl |-> MaxTTL,
                   src |-> src, opts |-> p.opts, sum |-> p.sum]
<1>1. CASE hop = NoRoute
  BY <1>1 DEF send_icmp_msg
<1>2. CASE hop # NoRoute
  <2>1. hop \in Hop /\ hop.iface \in Iface
    BY <1>2, NetworkAssumption DEF Packet, Hop
  <2>2. src \in Own(r)
    BY <2>1 DEF Own
  <2> HIDE DEF src
  <2> DEFINE e == WithSum(new, TRUE)
  <2>3. e.id = p.id /\ e.kind = what /\ e.dst = p.src /\ e.src = src
    BY DEF WithSum
  <2> HIDE DEF e
  <2>4. e.src # Sent[p.id].src
    BY <2>2, <2>3, RouterAddress
  <2>5. ASSUME what = "time", p.src = Sent[p.id].src
        PROVE  r = Way(p.id)[Sent[p.id].ttl]
    <3>1. OnWay(p, r)
      BY <2>5 DEF Place, Made
    <3>2. p.ttl = 1 /\ Sent[p.id].ttl \in Nat
      BY <2>5, <3>1, PacketAssumption, NetworkAssumption DEF OnWay, Packet
    <3>3. Sent[p.id].ttl - p.ttl + 1 = Sent[p.id].ttl
      BY <3>2
    <3> QED  BY <3>1, <3>3 DEF OnWay
  <2>6. Made(e)
    <3>1. e.kind # "echo"
      BY <2>3 DEF Error
    <3>2. ASSUME e.kind = "time", e.dst = Sent[e.id].src
          PROVE  LET x == Way(e.id)[Sent[e.id].ttl] IN x \in Router /\ e.src \in Own(x)
      BY <2>2, <2>3, <2>5, <3>2
    <3> QED  BY <2>3, <2>4, <3>1, <3>2 DEF Made
  <2>7. send_icmp_msg(r, p, what) = {[at |-> r, hop |-> hop, pkt |-> e]}
    BY <1>2 DEF send_icmp_msg, Error, Queue, ErrorAbout, e, src
  <2> QED  BY <2>3, <2>6, <2>7
<1> QED  BY <1>1, <1>2

\* An echo reply, from whom the request was for.
LEMMA ReplyMade ==
    ASSUME NEW p \in Packet, NEW q, Known(p.id), p.dst # Sent[p.id].src,
           q.id = p.id, q.kind = "reply", q.src = p.dst
    PROVE  Known(q.id) /\ Made(q)
BY DEF Made

LEMMA ReplyIs ==
    ASSUME NEW p \in Packet
    PROVE  /\ Reply(p) \in Packet /\ Reply(p).id = p.id
           /\ Reply(p).kind = "reply" /\ Reply(p).src = p.dst
BY DEF Reply, Packet, Kind

\* A packet forwarded is at the next node of its way, with one hop less to live.
LEMMA HoppedOnWay ==
    ASSUME NEW r \in Router, NEW p \in Packet, Place(p, r), p.ttl > 1,
           p.dst \notin Own(r), Route[r][p.dst] # NoRoute
    PROVE  Place(Hopped(p), Route[r][p.dst].node)
<1> DEFINE q == Hopped(p)
           s == Sent[p.id]
           n == s.ttl - p.ttl + 1
<1>1. /\ q.id = p.id /\ q.kind = p.kind /\ q.src = p.src /\ q.dst = p.dst
      /\ q.ttl = p.ttl - 1
  BY DEF Hopped, WithSum, Packet
<1> SUFFICES Place(q, Route[r][p.dst].node)
  OBVIOUS
<1> HIDE DEF q
<1>2. CASE Made(p)
  BY <1>1, <1>2 DEF Place, Made
<1>3. CASE OnWay(p, r)
  <2>1. s \in Packet /\ MaxTTL \in Nat /\ p.ttl \in Nat /\ s.ttl \in 0..MaxTTL
    BY PacketAssumption, NetworkAssumption DEF Packet
  <2>2. p.ttl \in 1..s.ttl /\ r = Way(p.id)[n]
    BY <1>3 DEF OnWay
  <2>3. n + 1 \in 2..MaxTTL /\ (n + 1) - 1 = n /\ s.ttl - q.ttl + 1 = n + 1
    BY <1>1, <2>1, <2>2
  <2>4. q.ttl \in 1..s.ttl
    BY <1>1, <2>1, <2>2
  <2> HIDE DEF n
  <2>5. Way(p.id)[n + 1] = After(r, s.dst)
    BY <2>2, <2>3, PathIs DEF Way
  <2>6. After(r, s.dst) = Route[r][p.dst].node
    BY <1>3 DEF After, OnWay
  <2> QED  BY <1>1, <1>3, <2>3, <2>4, <2>5, <2>6 DEF Place, OnWay
<1> QED  BY <1>2, <1>3 DEF Place

LEMMA OutputsPlaced ==
    ASSUME HostsSendPlainly, NEW r \in Router, NEW p \in Packet, Place(p, r),
           p.sum = Covered(p, TRUE), ~Refuses(r, p)
    PROVE  \A w \in Output(r, p) : Place(w.pkt, w.hop.node)
<1>1. p.ttl \in 0..MaxTTL /\ MaxTTL \in Nat /\ Known(p.id)
  BY NetworkAssumption DEF Packet, Place
<1>2. CASE p.ttl <= 1
  <2>1. Output(r, p) = send_icmp_msg(r, p, "time")
    BY <1>2 DEF Output
  <2> QED  BY <1>1, <1>2, <2>1, ErrorsMade DEF Error, Place
<1>3. CASE p.ttl > 1 /\ p.dst \in Own(r)
  <2>1. Output(r, p) = ForUs(r, p)
    BY <1>1, <1>3 DEF Output
  <2>2. CASE p.kind = "echo"
    <3>1. Output(r, p) = send_icmp_msg(r, p, "reply")
      BY <2>1, <2>2 DEF ForUs
    <3>2. \A w \in Output(r, p) : w.pkt = Reply(p)
      BY <3>1 DEF send_icmp_msg, Queue
    <3>3. p.dst # Sent[p.id].src
      BY <1>1, <1>3, RouterAddress
    <3>4. Known(Reply(p).id) /\ Made(Reply(p))
      BY <1>1, <3>3, ReplyIs, ReplyMade
    <3> QED  BY <3>2, <3>4 DEF Place
  <2>3. CASE p.kind = "udp"
    <3>1. Output(r, p) = send_icmp_msg(r, p, "port")
      BY <2>1, <2>3 DEF ForUs
    <3> QED  BY <1>1, <1>3, <3>1, ErrorsMade DEF Error, Place
  <2>4. CASE p.kind # "echo" /\ p.kind # "udp"
    BY <2>1, <2>4 DEF ForUs
  <2> QED  BY <2>2, <2>3, <2>4
<1>4. CASE p.ttl > 1 /\ p.dst \notin Own(r)
  <2>1. Output(r, p) = sr_forward_ip_packet(r, p)
    BY <1>1, <1>4 DEF Output
  <2>2. Hopped(p) \in Packet /\ Hopped(p).id = p.id
    BY <1>4, Hops DEF Refuses, Right
  <2>3. Hopped(p).dst = p.dst
    BY DEF Hopped, WithSum
  <2>4. CASE Route[r][p.dst] = NoRoute
    <3>1. Output(r, p) = send_icmp_msg(r, Hopped(p), "net")
      BY <1>1, <1>4, <2>1, <2>3, <2>4 DEF sr_forward_ip_packet
    <3> QED  BY <1>1, <2>2, <3>1, ErrorsMade DEF Error, Place
  <2>5. CASE Route[r][p.dst] # NoRoute
    <3>1. Output(r, p) = {[at |-> r, hop |-> Route[r][p.dst], pkt |-> Hopped(p)]}
      BY <1>1, <1>4, <2>1, <2>3, <2>5 DEF sr_forward_ip_packet, Queue
    <3>2. Place(Hopped(p), Route[r][p.dst].node)
      BY <1>4, <2>5, HoppedOnWay
    <3> QED  BY <3>1, <3>2
  <2> QED  BY <2>4, <2>5
<1> QED  BY <1>1, <1>2, <1>3, <1>4

LEMMA HandleTraces ==
    ASSUME HostsSendPlainly, IInv, Traced, NEW f \in air, sr_handlepacket(f)
    PROVE  Traced'
<1> DEFINE new == Output(f.at, f.pkt)
<1>1. f.at \in Router /\ f.pkt \in Packet /\ Place(f.pkt, f.at)
  BY DEF sr_handlepacket, IInv, Types, Frames, Traced
<1>2. air' \subseteq air /\ UNCHANGED got
  BY DEF sr_handlepacket
<1>3. waiting' = waiting \/ (~Refuses(f.at, f.pkt) /\ waiting' = waiting \cup new)
  BY DEF sr_handlepacket
<1>4. ~Refuses(f.at, f.pkt) => \A w \in new : Place(w.pkt, w.hop.node)
  BY <1>1, OutputsPlaced DEF Refuses
<1> HIDE DEF new
<1> QED  BY <1>2, <1>3, <1>4 DEF Traced

LEMMA WaitTraces ==
    ASSUME HostsSendPlainly, IInv, Traced, NEW w \in waiting, Resolved(w) \/ Unresolved(w)
    PROVE  Traced'
<1>1. w.at \in Router /\ w.pkt \in Packet /\ Place(w.pkt, w.hop.node) /\ UNCHANGED got
  BY DEF IInv, Types, Held, Traced, Resolved, Unresolved
<1>2. CASE Resolved(w)
  <2> DEFINE g == [at |-> w.hop.node, pkt |-> w.pkt]
  <2>1. waiting' \subseteq waiting /\ air' = air \cup {g} /\ Place(g.pkt, g.at)
    BY <1>1, <1>2 DEF Resolved
  <2> HIDE DEF g
  <2> QED  BY <1>1, <2>1 DEF Traced
<1>3. CASE Unresolved(w)
  <2> DEFINE new == send_icmp_msg(w.at, w.pkt, "host")
  <2>1. waiting' = (waiting \ {w}) \cup new /\ UNCHANGED air
    BY <1>3 DEF Unresolved
  <2>2. \A v \in new : Place(v.pkt, v.hop.node)
    BY <1>1, ErrorsMade DEF Error, Place
  <2> HIDE DEF new
  <2> QED  BY <1>1, <2>1, <2>2 DEF Traced
<1> QED  BY <1>2, <1>3

LEMMA SendTraces ==
    ASSUME HostsSendPlainly, IInv, Traced, NEW i \in Id, HostSends(i)
    PROVE  Traced'
<1>1. PICK h \in Host : HostAddr[h] = Sent[i].src
                        /\ air' = air \cup {[at |-> Gateway[h], pkt |-> Sent[i]]}
  BY DEF HostSends
<1>2. UNCHANGED <<waiting, got>>
  BY DEF HostSends
<1>3. Source(i) = h /\ Known(i)
  BY <1>1 DEF Source, Known, HostsSendPlainly
<1>4. /\ Sent[i].id = i /\ Sent[i].ttl \in 1..Sent[i].ttl
      /\ Sent[i].ttl - Sent[i].ttl + 1 = 1
  <2>1. Sent[i].id = i /\ Sent[i].ttl \in 0..MaxTTL /\ MaxTTL \in Nat
    BY PacketAssumption, NetworkAssumption DEF Packet
  <2>2. Sent[i].ttl # 0
    BY DEF HostsSendPlainly
  <2> QED  BY <2>1, <2>2
<1>5. Way(i)[1] = Gateway[h]
  BY <1>3, PathIs DEF Way
<1>6. Place(Sent[i], Gateway[h])
  BY <1>3, <1>4, <1>5 DEF Place, OnWay
<1> QED  BY <1>1, <1>2, <1>6 DEF Traced

LEMMA GetTraces ==
    ASSUME HostsSendPlainly, IInv, Traced, NEW f \in air, HostGets(f)
    PROVE  Traced'
<1> DEFINE h == f.at  p == f.pkt
           ok == p.sum = Covered(p, TRUE) /\ p.dst = HostAddr[h]
           g == [at |-> Gateway[h], pkt |-> HostReply(p)]
<1>1. /\ h \in Host /\ p \in Packet /\ Place(p, h) /\ Known(p.id) /\ p.id \in Id
      /\ got \in [Host -> SUBSET Packet] /\ UNCHANGED waiting
  BY DEF HostGets, IInv, Types, Frames, Traced, Place, Packet
<1>2. /\ air' \subseteq air \/ (ok /\ p.kind = "echo" /\ air' = (air \ {f}) \cup {g})
      /\ got' = IF ok THEN [got EXCEPT ![h] = @ \cup {p}] ELSE got
  BY DEF HostGets
<1>3. p.kind = "time" => Made(p)
  BY <1>1 DEF Place, OnWay, HostsSendPlainly, Error
<1>4. p.kind = "echo" => Place(g.pkt, g.at)
  <2> SUFFICES ASSUME p.kind = "echo" PROVE Known(g.pkt.id) /\ Made(g.pkt)
    BY DEF Place
  <2>1. p.dst # Sent[p.id].src
    BY <1>1 DEF Place, OnWay, Made, HostsSendPlainly
  <2>2. HostReply(p).id = p.id /\ HostReply(p).kind = "reply" /\ HostReply(p).src = p.dst
    BY <1>1, ReplyIs DEF HostReply, WithSum, Packet
  <2>3. Known(HostReply(p).id) /\ Made(HostReply(p))
    BY <1>1, <2>1, <2>2, ReplyMade
  <2> QED  BY <2>3
<1> HIDE DEF g
<1>5. \A k \in Host : \A q \in got'[k] : q \in got[k] \/ (k = h /\ q = p /\ ok)
  BY <1>1, <1>2
<1> HIDE DEF h, p
<1>6. \A k \in Host : \A q \in got'[k] :
        q \in Packet /\ q.dst = HostAddr[k] /\ (q.kind = "time" => Known(q.id) /\ Made(q))
  BY <1>1, <1>3, <1>5 DEF Traced
<1>7. \A e \in air' : Place(e.pkt, e.at)
  BY <1>2, <1>4 DEF Traced
<1> QED  BY <1>1, <1>6, <1>7 DEF Traced

LEMMA NextTraced == HostsSendPlainly /\ IInv /\ Traced /\ [Next]_vars => Traced'
<1> SUFFICES ASSUME HostsSendPlainly, IInv, Traced, [Next]_vars PROVE Traced'
  OBVIOUS
<1>1. CASE Next
  BY <1>1, HandleTraces, WaitTraces, SendTraces, GetTraces DEF Next
<1>2. CASE UNCHANGED vars
  BY <1>2 DEF Traced, vars
<1> QED  BY <1>1, <1>2

\* traceroute's names are right: the n-th time exceeded message comes from the n-th
\* router of the way, on any network in which nodes have addresses of their own.
THEOREM TracerouteIsRight ==
    ASSUME HostsSendPlainly
    PROVE  Spec => []Traceroute
<1>1. Init => Traced
  BY DEF Init, Traced
<1>2. Traced => Traceroute
  <2> SUFFICES ASSUME Traced, NEW h \in Host, NEW p \in got[h],
                      p.kind = "time", h = Source(p.id)
               PROVE  LET r == Path(Gateway[h], Sent[p.id].dst)[Sent[p.id].ttl]
                      IN r \in Router /\ p.src \in Own(r)
    BY DEF Traceroute
  <2>1. p.dst = HostAddr[h] /\ Known(p.id) /\ Made(p)
    BY DEF Traced
  <2> QED  BY <2>1 DEF Known, Made, Way
<1> QED  BY <1>1, <1>2, NextTraced, Inductive, PTL DEF Spec
=============================================================================
