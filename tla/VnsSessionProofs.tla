-------------------------- MODULE VnsSessionProofs --------------------------
(***************************************************************************)
(* The safety invariants of VnsSession for any clients, interfaces, ports  *)
(* and reports of the switch.  The invariants of the runs speak of what is *)
(* on the channels; IInv follows each name back to where it came from: the *)
(* POX thread stores the port of a name before it publishes the name, so   *)
(* whatever a client is told of, and uses, is in intfname_to_port.         *)
(***************************************************************************)
EXTENDS VnsSession, SequenceTheorems, TLAPS

\* The names the reactor thread finds a port for.
KnownNames == {i \in Intf : intfname_to_port[i] # None}

\* What a client may have been sent, and what client c may have sent.
Receivable  == {m \in ToClient : m.type = "HWINFO" => m.names \subseteq KnownNames}
Sendable(c) ==
    {m \in ToServer :
        /\ m.type = "PACKET" => /\ m.intf \in KnownNames
                                /\ RouteIfs \subseteq ifs[c]
                                /\ m.frame.asked = m.frame.says
        /\ m.type = "OPEN_TEMPLATE" => c \in Template}

Scalars ==
    /\ ups \in 0..MaxUps /\ frames \in 0..MaxFrames
    /\ intfname_to_port \in [Intf -> Port \cup {None}]
    /\ port_to_intfname \in [Port -> Intf \cup {None}]
    /\ srclients \in Seq(Client) /\ greeting \in Client \cup {None}
    /\ open \subseteq Client
    /\ pc \in [Client -> Alive \cup {"off", "refused", "exited", "aborted", "spin"}]
    /\ ifs \in [Client -> SUBSET Intf]

\* The POX thread is idle, fills the tables, or broadcasts a frame.
Filling ==
    /\ pox \in [pc : {"name", "port"}, info : Infos, left : SUBSET Intf,
                intf : Intf \cup {None}]
    /\ pox.left \subseteq DOMAIN pox.info
    /\ DOMAIN pox.info \subseteq pox.left \cup KnownNames
    /\ pox.pc = "port" => pox.intf \in DOMAIN pox.info
Broadcasting ==
    pox \in [pc : {"broadcast"}, k : Nat \ {0},
             msg : {VNSPacket(i, f) : i \in Intf, f \in Frame}]
PoxThread == pox = Idle \/ pox = Down \/ Filling \/ Broadcasting

\* Names that were given away are known.
Published == /\ interfaces = None \/ interfaces \subseteq KnownNames
             /\ \A c \in Client : ifs[c] \subseteq KnownNames

FromServer  == toClient \in [Client -> Seq(Receivable)]
FromClients == /\ toServer \in [Client -> Seq(ToServer)]
               /\ \A c \in Client : toServer[c] \in Seq(Sendable(c))

\* A client learns of all its routes' interfaces at once, or ends.
AllRoutes == \A c \in Client :
                ifs[c] = {} \/ RouteIfs \subseteq ifs[c] \/ pc[c] = "exited"

IInv == /\ Scalars /\ PoxThread /\ Published /\ FromServer /\ FromClients
        /\ AllRoutes

(***************************************************************************)
(* Messages and channels.                                                  *)
(***************************************************************************)
\* What the messages with contents are.
LEMMA Messages ==
    /\ VNSAuthRequest \in Receivable /\ VNSAuthStatus \in Receivable
    /\ \A names \in SUBSET KnownNames : VNSHardwareInfo(names) \in Receivable
    /\ \A i \in Intf, f \in Frame : VNSPacket(i, f) \in Receivable
    /\ \A m \in Receivable :
          /\ m.type = "HWINFO" => m.names \subseteq KnownNames
          /\ m.type = "PACKET" => m.intf \in Intf /\ m.frame \in Frame
<1>1. ASSUME NEW names \in SUBSET KnownNames
      PROVE  VNSHardwareInfo(names) \in Receivable
  <2>1. names \in SUBSET Intf
    BY DEF KnownNames
  <2>2. VNSHardwareInfo(names) \in ToClient
    BY <2>1 DEF ToClient
  <2> QED  BY <2>2 DEF Receivable, VNSHardwareInfo
<1>2. ASSUME NEW i \in Intf, NEW f \in Frame
      PROVE  VNSPacket(i, f) \in Receivable
  <2>1. VNSPacket(i, f) \in ToClient
    BY DEF ToClient
  <2> QED  BY <2>1 DEF Receivable, VNSPacket
<1>3. ASSUME NEW m \in Receivable, m.type = "PACKET"
      PROVE  m.intf \in Intf /\ m.frame \in Frame
  BY <1>3 DEF Receivable, ToClient, VNSAuthRequest, VNSAuthStatus, VNSHardwareInfo,
     VNSPacket
<1>4. VNSAuthRequest \in Receivable /\ VNSAuthStatus \in Receivable
  BY DEF Receivable, ToClient, VNSAuthRequest, VNSAuthStatus
<1>5. \A m \in Receivable : m.type = "HWINFO" => m.names \subseteq KnownNames
  BY DEF Receivable
<1> QED  BY <1>1, <1>2, <1>3, <1>4, <1>5

\* A channel may be read as one of any larger set of messages.
LEMMA Widened ==
    ASSUME NEW S, NEW T, S \subseteq T, NEW ch \in [Client -> Seq(S)]
    PROVE  ch \in [Client -> Seq(T)]
<1>1. \A c \in Client : ch[c] \in Seq(T)
  BY SeqMonotonic
<1> QED  BY <1>1

LEMMA Sending ==
    ASSUME FromServer, NEW c \in Client, NEW msg \in Receivable
    PROVE  Sent(c, msg) \in [Client -> Seq(Receivable)]
<1>1. Append(toClient[c], msg) \in Seq(Receivable)
  BY AppendProperties DEF FromServer
<1> QED  BY <1>1 DEF FromServer, Sent

LEMMA Reading ==
    ASSUME FromServer, NEW c \in Client, toClient[c] # <<>>
    PROVE  /\ Head(toClient[c]) \in Receivable
           /\ [toClient EXCEPT ![c] = Tail(@)] \in [Client -> Seq(Receivable)]
<1>1. Head(toClient[c]) \in Receivable /\ Tail(toClient[c]) \in Seq(Receivable)
  BY HeadTailProperties DEF FromServer
<1> QED  BY <1>1 DEF FromServer

\* What a client replies is on its channel with what was there.
LEMMA Replying ==
    ASSUME FromClients, UNCHANGED <<ifs, intfname_to_port>>,
           NEW c \in Client, NEW msg \in Sendable(c), Reply(c, msg)
    PROVE  FromClients'
<1>1. Append(toServer[c], msg) \in Seq(Sendable(c))
  BY AppendProperties DEF FromClients
<1>2. Append(toServer[c], msg) \in Seq(ToServer)
  BY AppendProperties DEF FromClients, Sendable
<1>3. \A d \in Client : Sendable(d)' = Sendable(d)
  BY DEF Sendable, KnownNames, ToServer
<1> QED  BY <1>1, <1>2, <1>3 DEF FromClients, Reply

\* What the server takes from a channel was sent, the rest stays.
LEMMA Taking ==
    ASSUME FromClients, UNCHANGED <<ifs, intfname_to_port>>,
           NEW c \in Client, NEW type, Received(c, type)
    PROVE  /\ Head(toServer[c]) \in Sendable(c)
           /\ FromClients'
<1>1. /\ Head(toServer[c]) \in Sendable(c)
      /\ Tail(toServer[c]) \in Seq(Sendable(c))
  BY HeadTailProperties DEF FromClients, Received
<1>2. Tail(toServer[c]) \in Seq(ToServer)
  BY HeadTailProperties DEF FromClients, Received
<1>3. \A d \in Client : Sendable(d)' = Sendable(d)
  BY DEF Sendable, KnownNames, ToServer
<1> QED  BY <1>1, <1>2, <1>3 DEF FromClients, Received

\* Names and interfaces that are added take no message back.
LEMMA Growing ==
    ASSUME KnownNames \subseteq KnownNames',
           \A c \in Client : ifs[c] \subseteq ifs'[c]
    PROVE  /\ FromServer => toClient \in [Client -> Seq(Receivable')]
           /\ FromClients /\ UNCHANGED toServer => FromClients'
<1>1. Receivable \subseteq Receivable'
  BY DEF Receivable, ToClient
<1>2. FromServer => toClient \in [Client -> Seq(Receivable')]
  BY <1>1, Widened DEF FromServer
<1>3. \A c \in Client : Sendable(c) \subseteq Sendable(c)'
  BY DEF Sendable, ToServer
<1>4. ASSUME FromClients, NEW c \in Client
      PROVE  toServer[c] \in Seq(Sendable(c)')
  BY <1>3, <1>4, SeqMonotonic DEF FromClients
<1> QED  BY <1>2, <1>4 DEF FromClients

LEMMA Replies ==
    ASSUME NEW c \in Client
    PROVE  /\ VNSAuthReply \in Sendable(c) /\ VNSOpen \in Sendable(c)
           /\ c \in Template => VNSOpenTemplate \in Sendable(c)
           /\ \A i \in KnownNames, a \in Intf \cup {None} :
                 RouteIfs \subseteq ifs[c] => VNSPacket(i, ArpReply(a, a)) \in Sendable(c)
<1>1. ASSUME NEW i \in KnownNames, NEW a \in Intf \cup {None}, RouteIfs \subseteq ifs[c]
      PROVE  VNSPacket(i, ArpReply(a, a)) \in Sendable(c)
  <2>1. ArpReply(a, a) \in [asked : Intf \cup {None}, says : Intf \cup {None}]
    BY DEF ArpReply
  <2>2. VNSPacket(i, ArpReply(a, a)) \in ToServer
    BY <2>1 DEF ToServer, KnownNames
  <2> QED  BY <1>1, <2>2 DEF Sendable, VNSPacket, ArpReply
<1>2. VNSAuthReply \in Sendable(c) /\ VNSOpen \in Sendable(c)
  BY DEF Sendable, ToServer, VNSAuthReply, VNSOpen
<1>3. c \in Template => VNSOpenTemplate \in Sendable(c)
  BY DEF Sendable, ToServer, VNSOpenTemplate
<1> QED  BY <1>1, <1>2, <1>3

(***************************************************************************)
(* The invariant holds at the start and every step keeps it.               *)
(***************************************************************************)
LEMMA InitIInv == Init => IInv
<1> SUFFICES ASSUME Init PROVE IInv
  OBVIOUS
<1> USE DEF Init
<1>1. Scalars
  BY SessionAssumption, EmptySeq DEF Scalars
<1>2. FromServer /\ FromClients
  BY EmptySeq DEF FromServer, FromClients
<1>3. PoxThread /\ Published /\ AllRoutes
  BY DEF PoxThread, Published, AllRoutes
<1> QED  BY <1>1, <1>2, <1>3 DEF IInv

\* What a step leaves alone keeps the parts that speak of nothing else.
LEMMA Untouched ==
    /\ PoxThread /\ UNCHANGED <<pox, intfname_to_port>> => PoxThread'
    /\ Published /\ UNCHANGED <<interfaces, ifs, intfname_to_port>> => Published'
    /\ FromServer /\ UNCHANGED <<toClient, intfname_to_port>> => FromServer'
    /\ FromClients /\ UNCHANGED <<toServer, ifs, intfname_to_port>> => FromClients'
    /\ AllRoutes /\ UNCHANGED clients => AllRoutes'
<1>1. UNCHANGED intfname_to_port => KnownNames' = KnownNames /\ Receivable' = Receivable
  BY DEF KnownNames, Receivable, ToClient
<1>2. UNCHANGED <<ifs, intfname_to_port>> => \A c \in Client : Sendable(c)' = Sendable(c)
  BY DEF KnownNames, Sendable, ToServer
<1>3. PoxThread /\ UNCHANGED <<pox, intfname_to_port>> => PoxThread'
  BY <1>1 DEF PoxThread, Filling, Broadcasting, Idle, Down
<1>4. Published /\ UNCHANGED <<interfaces, ifs, intfname_to_port>> => Published'
  BY <1>1 DEF Published
<1>5. FromServer /\ UNCHANGED <<toClient, intfname_to_port>> => FromServer'
  BY <1>1 DEF FromServer
<1>6. FromClients /\ UNCHANGED <<toServer, ifs, intfname_to_port>> => FromClients'
  BY <1>2 DEF FromClients
<1>7. AllRoutes /\ UNCHANGED clients => AllRoutes'
  BY DEF AllRoutes, clients
<1> QED  BY <1>3, <1>4, <1>5, <1>6, <1>7

LEMMA StoreNameKeeps == IInv /\ StoreName => IInv'
<1> SUFFICES ASSUME IInv, StoreName PROVE IInv'
  OBVIOUS
<1>1. PICK i \in pox.left :
          /\ intfname_to_port' = [intfname_to_port EXCEPT ![i] = pox.info[i]]
          /\ pox' = [pox EXCEPT !.pc = "port", !.intf = i, !.left = @ \ {i}]
  BY DEF StoreName, Added
<1>2. Filling /\ pox.pc = "name"
  BY DEF IInv, PoxThread, StoreName, Idle, Down, Broadcasting
<1>3. i \in DOMAIN pox.info /\ i \in Intf /\ pox.info[i] \in Port /\ pox.info[i] # None
  BY <1>2, SessionAssumption DEF Filling
<1>4. intfname_to_port' \in [Intf -> Port \cup {None}]
  BY <1>1, <1>3 DEF IInv, Scalars
<1>5. KnownNames' = KnownNames \cup {i}
  BY <1>1, <1>3 DEF IInv, Scalars, KnownNames
<1>6. Filling'
  BY <1>1, <1>2, <1>3, <1>5 DEF Filling
<1>7. UNCHANGED <<ups, frames, port_to_intfname, interfaces, srclients, greeting,
                  toClient, toServer, open, pc, ifs>>
  BY DEF StoreName, clients
<1>8. Scalars'
  BY <1>4, <1>7 DEF IInv, Scalars
<1>9. Published'
  BY <1>5, <1>7 DEF IInv, Published
<1>10. FromServer' /\ FromClients'
  BY <1>5, <1>7, Growing DEF IInv, FromServer
<1>11. AllRoutes'
  BY <1>7, Untouched DEF IInv, clients
<1> QED  BY <1>6, <1>8, <1>9, <1>10, <1>11 DEF IInv, PoxThread

\* The other steps of the POX thread leave intfname_to_port and the clients alone.
LEMMA PoxKeeps ==
    ASSUME IInv,
           \/ StorePort \/ PublishInterfaces \/ Broadcast
           \/ \E info \in Infos : ConnectionUp(info)
           \/ \E p \in Port, f \in Frame : PacketIn(p, f)
    PROVE  IInv'
<1> USE DEF IInv
<1>1. UNCHANGED <<intfname_to_port, srclients, greeting, toServer, open, pc, ifs>>
  BY DEF StorePort, PublishInterfaces, Broadcast, ConnectionUp, PacketIn, server, clients
<1>2. AllRoutes' /\ FromClients'
  BY <1>1, Untouched DEF clients
<1>3. KnownNames' = KnownNames
  BY <1>1 DEF KnownNames
<1>4. CASE StorePort
  <2>1. Filling /\ pox.pc = "port"
    BY <1>4 DEF PoxThread, StorePort, Idle, Down, Broadcasting
  <2>2. pox.info[pox.intf] \in Port /\ pox.intf \in Intf
    BY <2>1, SessionAssumption DEF Filling
  <2>3. Filling'
    BY <1>3, <1>4, <2>1 DEF Filling, StorePort
  <2>4. Scalars'
    BY <1>1, <1>4, <2>2 DEF Scalars, StorePort
  <2>5. Published' /\ FromServer'
    BY <1>1, <1>4, Untouched DEF StorePort
  <2> QED  BY <1>2, <2>3, <2>4, <2>5 DEF PoxThread
<1>5. CASE PublishInterfaces
  <2>1. Filling /\ pox.left = {}
    BY <1>5 DEF PoxThread, PublishInterfaces, Idle, Down, Broadcasting
  <2>2. interfaces' \subseteq KnownNames
    BY <1>5, <2>1 DEF Filling, PublishInterfaces
  <2>3. Published'
    BY <1>1, <1>3, <2>2 DEF Published
  <2>4. Scalars' /\ FromServer' /\ PoxThread'
    BY <1>1, <1>5, Untouched DEF Scalars, PoxThread, PublishInterfaces
  <2> QED  BY <1>2, <2>3, <2>4
<1>6. CASE Broadcast
  <2>1. Broadcasting
    BY <1>6 DEF PoxThread, Broadcast, Idle, Down, Filling
  <2>2. PoxThread'
    BY <1>6, <2>1 DEF PoxThread, Broadcasting, Broadcast
  <2>3. FromServer'
    <3>1. CASE pox.k <= Len(srclients)
      <4>1. srclients[pox.k] \in Client
        BY <2>1, <3>1, ElementOfSeq, LenProperties DEF Broadcasting, Scalars
      <4>2. pox.msg \in Receivable
        BY <2>1, Messages DEF Broadcasting
      <4>3. toClient' \in [Client -> Seq(Receivable)]
        BY <1>6, <3>1, <4>1, <4>2, Sending DEF Broadcast
      <4> QED  BY <1>3, <4>3 DEF FromServer, Receivable, ToClient
    <3>2. CASE ~(pox.k <= Len(srclients))
      BY <1>1, <1>6, <3>2, Untouched DEF Broadcast
    <3> QED  BY <3>1, <3>2
  <2>4. Scalars' /\ Published'
    BY <1>1, <1>6, Untouched DEF Scalars, Broadcast, server
  <2> QED  BY <1>2, <2>2, <2>3, <2>4
<1>7. ASSUME NEW info \in Infos, ConnectionUp(info)
      PROVE  IInv'
  <2>1. DOMAIN info \subseteq Intf
    BY SessionAssumption
  <2>2. Filling'
    BY <1>7, <2>1 DEF Filling, ConnectionUp
  <2>3. Scalars'
    BY <1>1, <1>7, SessionAssumption DEF Scalars, ConnectionUp, server
  <2>4. Published' /\ FromServer'
    BY <1>1, <1>7, Untouched DEF ConnectionUp, server
  <2> QED  BY <1>2, <2>2, <2>3, <2>4 DEF PoxThread
<1>8. ASSUME NEW p \in Port, NEW f \in Frame, PacketIn(p, f)
      PROVE  IInv'
  <2>1. PoxThread'
    BY <1>8 DEF PoxThread, Broadcasting, PacketIn, _handle_SRPacketIn, Named, Scalars
  <2>2. Scalars'
    BY <1>1, <1>8, SessionAssumption DEF Scalars, PacketIn, server
  <2>3. Published' /\ FromServer'
    BY <1>1, <1>8, Untouched DEF PacketIn, server
  <2> QED  BY <1>2, <2>1, <2>2, <2>3
<1> QED  BY <1>4, <1>5, <1>6, <1>7, <1>8

\* A send of the reactor thread, to whichever client, changes nothing else.
LEMMA SendKeeps ==
    ASSUME IInv, NEW c \in Client, NEW msg \in Receivable,
           toClient' = Sent(c, msg) \/ UNCHANGED toClient,
           UNCHANGED <<pox, intfname_to_port, interfaces, open, clients>>
    PROVE  PoxThread' /\ Published' /\ FromServer' /\ AllRoutes'
<1> USE DEF IInv
<1>1. PoxThread' /\ Published' /\ AllRoutes'
  BY Untouched DEF clients
<1>2. toClient' \in [Client -> Seq(Receivable)]
  BY Sending DEF FromServer
<1>3. Receivable' = Receivable
  BY DEF Receivable, ToClient, KnownNames
<1> QED  BY <1>1, <1>2, <1>3 DEF FromServer

LEMMA ReactorKeeps ==
    ASSUME IInv, NEW c \in Client, Connect(c) \/ ReactorStep(c)
    PROVE  IInv'
<1> USE DEF IInv
<1>1. CASE Connect(c)
  <2>1. Scalars'
    BY <1>1, AppendProperties DEF Scalars, Connect, server, Alive
  <2>3. AllRoutes'
    BY <1>1 DEF Scalars, AllRoutes, Connect
  <2>4. PoxThread' /\ Published' /\ FromServer' /\ FromClients'
    BY <1>1, Untouched DEF Connect, server
  <2> QED  BY <2>1, <2>3, <2>4
<1>2. CASE Greet
  <2>1. greeting \in Client
    BY <1>2 DEF Scalars, Greet
  <2>2. Scalars'
    BY <1>2 DEF Scalars, Greet, server, clients
  <2>3. FromClients'
    BY <1>2, Untouched DEF Greet, server, clients
  <2>4. PoxThread' /\ Published' /\ FromServer' /\ AllRoutes'
    BY <1>2, <2>1, SendKeeps, Messages DEF Greet, server
  <2> QED  BY <2>2, <2>3, <2>4
<1>3. CASE _handle_auth_reply(c)
  <2>1. Scalars'
    BY <1>3 DEF Scalars, _handle_auth_reply, server, clients
  <2>2. FromClients'
    BY <1>3, Taking DEF _handle_auth_reply, server, clients
  <2>3. PoxThread' /\ Published' /\ FromServer' /\ AllRoutes'
    BY <1>3, SendKeeps, Messages DEF _handle_auth_reply, Status, server
  <2> QED  BY <2>1, <2>2, <2>3
<1>4. CASE _handle_open_msg(c)
  <2>1. Scalars'
    BY <1>4 DEF Scalars, _handle_open_msg, server, clients
  <2>2. FromClients'
    BY <1>4, Taking DEF _handle_open_msg, server, clients
  <2>3. UNCHANGED <<pox, intfname_to_port, interfaces, open, clients>>
    BY <1>4 DEF _handle_open_msg, server
  <2>4. PoxThread' /\ Published' /\ FromServer' /\ AllRoutes'
    <3>1. CASE interfaces = None
      BY <1>4, <2>3, <3>1, SendKeeps, Messages DEF _handle_open_msg, SendHwinfo
    <3>2. CASE interfaces # None
      <4>1. VNSHardwareInfo(interfaces) \in Receivable
        BY <3>2, Messages DEF Published
      <4> QED  BY <1>4, <2>3, <3>2, <4>1, SendKeeps DEF _handle_open_msg, SendHwinfo
    <3> QED  BY <3>1, <3>2
  <2> QED  BY <2>1, <2>2, <2>4
<1>5. CASE _handle_open_template_msg(c)
  <2>1. UNCHANGED <<pox, server, srclients, greeting, toClient, clients, ups, frames>>
    BY <1>5 DEF _handle_open_template_msg
  <2>2. FromClients'
    BY <1>5, <2>1, Taking
       DEF _handle_open_template_msg, server, clients
  <2>4. Scalars'
    BY <1>5 DEF Scalars, _handle_open_template_msg, server, clients
  <2> QED  BY <2>1, <2>2, <2>4, Untouched DEF server, clients
<1>6. CASE _handle_packet_msg(c)
  <2>1. UNCHANGED <<pox, server, srclients, greeting, toClient, clients, ups, frames>>
    BY <1>6 DEF _handle_packet_msg
  <2>2. FromClients' /\ Head(toServer[c]).intf \in KnownNames
    BY <1>6, <2>1, Taking DEF _handle_packet_msg, Received, Sendable, server, clients
  <2>3. UNCHANGED open
    BY <1>6, <2>2 DEF _handle_packet_msg, KnownNames
  <2>4. Scalars'
    BY <2>1, <2>3 DEF Scalars, server, clients
  <2> QED  BY <2>1, <2>2, <2>3, <2>4, Untouched DEF server, clients
<1> QED  BY <1>1, <1>2, <1>3, <1>4, <1>5, <1>6 DEF ReactorStep

\* Whatever a client reads, the server and the POX thread are left alone.
LEMMA ReadKeeps ==
    ASSUME IInv, NEW c \in Client, NEW type, Reads(c, type)
    PROVE  /\ Head(toClient[c]) \in Receivable
           /\ KnownNames' = KnownNames
           /\ PoxThread' /\ FromServer'
<1> USE DEF IInv
<1>1. UNCHANGED <<pox, intfname_to_port>>
  BY DEF Reads, server
<1>2. KnownNames' = KnownNames /\ Receivable' = Receivable
  BY <1>1 DEF Receivable, ToClient, KnownNames
<1>3. /\ Head(toClient[c]) \in Receivable
      /\ toClient' \in [Client -> Seq(Receivable)]
  BY Reading DEF Reads
<1> QED  BY <1>1, <1>2, <1>3, Untouched DEF FromServer

\* A client that goes on, or ends, without new interfaces.
LEMMA EndsOrGoesOn ==
    ASSUME IInv, NEW c \in Client, pc[c] \in Alive,
           NEW to \in Alive \cup {"refused", "exited", "aborted", "spin"},
           pc' = [pc EXCEPT ![c] = to], UNCHANGED <<open, ifs>>
    PROVE  AllRoutes' /\ pc' \in [Client -> Alive \cup
               {"off", "refused", "exited", "aborted", "spin"}]
<1>2. AllRoutes'
  BY DEF IInv, Scalars, AllRoutes, Alive
<1>3. pc' \in [Client -> Alive \cup {"off", "refused", "exited", "aborted", "spin"}]
  BY DEF IInv, Scalars
<1> QED  BY <1>2, <1>3

LEMMA HandshakeKeeps ==
    ASSUME IInv, NEW c \in Client,
           \/ sr_handle_auth_request(c) \/ sr_handle_auth_status(c)
           \/ Unexpected(c, "PACKET")
    PROVE  IInv'
<1> USE DEF IInv
<1>1. PICK type : Reads(c, type)
  BY DEF sr_handle_auth_request, sr_handle_auth_status, Unexpected
<1>2. PoxThread' /\ FromServer'
  BY <1>1, ReadKeeps
<1>3. UNCHANGED <<ups, frames, intfname_to_port, port_to_intfname, interfaces,
                  srclients, greeting, open, ifs>>
  BY <1>1 DEF Reads, server, sr_handle_auth_request, sr_handle_auth_status, Unexpected
<1>4. PICK to \in Alive \cup {"refused", "exited", "aborted", "spin"} :
          pc' = [pc EXCEPT ![c] = to]
  BY DEF sr_handle_auth_request, sr_handle_auth_status, Unexpected, Alive
<1>5. AllRoutes' /\ Scalars'
  BY <1>1, <1>3, <1>4, EndsOrGoesOn DEF Scalars, Reads
<1>6. Published'
  BY <1>3, Untouched
<1>7. FromClients'
  <2>1. CASE sr_handle_auth_request(c)
    BY <1>3, <2>1, Replies, Replying DEF sr_handle_auth_request
  <2>2. CASE sr_handle_auth_status(c)
    BY <1>3, <2>2, Replies, Replying DEF sr_handle_auth_status
  <2>3. CASE Unexpected(c, "PACKET")
    BY <1>3, <2>3, Untouched DEF Unexpected
  <2> QED  BY <2>1, <2>2, <2>3
<1> QED  BY <1>2, <1>5, <1>6, <1>7

LEMMA HwinfoKeeps ==
    ASSUME IInv, NEW c \in Client, sr_handle_hwinfo(c)
    PROVE  IInv'
<1> USE DEF IInv
<1> DEFINE names == ifs[c] \cup Head(toClient[c]).names
<1>1. Reads(c, "HWINFO") /\ UNCHANGED toServer
  BY DEF sr_handle_hwinfo
<1>2. UNCHANGED <<ups, frames, pox, intfname_to_port, port_to_intfname, interfaces,
                  srclients, greeting, open>>
  BY <1>1 DEF Reads, server
<1>3. PoxThread' /\ FromServer' /\ KnownNames' = KnownNames
  BY <1>1, ReadKeeps
<1>4. names \subseteq KnownNames /\ names \subseteq Intf
  BY <1>1, ReadKeeps, Messages DEF Reads, Published, KnownNames
<1>5. /\ ifs' = [ifs EXCEPT ![c] = names]
      /\ pc' = IF names # {} /\ RouteIfs \subseteq names THEN pc
               ELSE [pc EXCEPT ![c] = "exited"]
  BY DEF sr_handle_hwinfo, WithInterfaces
<1>6. pc' \in [Client -> Alive \cup {"off", "refused", "exited", "aborted", "spin"}]
  BY <1>5 DEF Scalars
<1>7. Scalars'
  BY <1>2, <1>4, <1>5, <1>6 DEF Scalars
<1>8. Published'
  BY <1>2, <1>3, <1>4, <1>5 DEF Published, Scalars
<1>9. FromClients'
  <2>1. \A d \in Client : ifs[d] \subseteq ifs'[d]
    BY <1>5 DEF Scalars
  <2> QED  BY <1>1, <1>3, <2>1, Growing
<1>10. AllRoutes'
  BY <1>5 DEF AllRoutes, Scalars
<1> QED  BY <1>3, <1>7, <1>8, <1>9, <1>10

\* The one action whose replies the invariants are about: the interface the frame
\* came in on is the client's, so it has all of its routes' interfaces too.
LEMMA PacketKeeps ==
    ASSUME IInv, NEW c \in Client, Packet(c)
    PROVE  IInv'
<1> USE DEF IInv
<1> DEFINE intf == Head(toClient[c]).intf
           f    == Head(toClient[c]).frame
<1>1. Reads(c, "PACKET") /\ pc[c] = "main" /\ UNCHANGED ifs
  BY DEF Packet
<1>2. UNCHANGED <<ups, frames, pox, intfname_to_port, port_to_intfname, interfaces,
                  srclients, greeting, open>>
  BY <1>1 DEF Reads, server
<1>3. PoxThread' /\ FromServer' /\ Published'
  BY <1>1, <1>2, ReadKeeps, Untouched
<1>4. intf \in Intf /\ f \in Frame
  BY <1>1, ReadKeeps, Messages DEF Reads
<1>5. CASE intf \notin ifs[c]
  <2>1. pc' = [pc EXCEPT ![c] = "aborted"] /\ UNCHANGED toServer
    BY <1>5 DEF Packet, IfaceExists
  <2>2. AllRoutes' /\ Scalars'
    BY <1>1, <1>2, <2>1, EndsOrGoesOn DEF Scalars, Alive
  <2>3. FromClients'
    BY <1>1, <1>2, <2>1, Untouched
  <2> QED  BY <1>3, <2>2, <2>3
<1>6. CASE intf \in ifs[c]
  <2>1. RouteIfs \subseteq ifs[c] /\ ifs[c] \subseteq KnownNames
    BY <1>1, <1>6 DEF AllRoutes, Published
  <2>2. UNCHANGED pc
    BY <1>6 DEF Packet, IfaceExists
  <2>3. AllRoutes' /\ Scalars'
    BY <1>1, <1>2, <2>2, Untouched DEF Scalars, clients
  <2>4. \/ UNCHANGED toServer
        \/ f.asks = intf /\ AnswerArp(c, intf, f)
        \/ SendOther(c)
    BY <1>6 DEF Packet, IfaceExists, sr_arp_req_not_for_us
  <2>5. ASSUME f.asks = intf, AnswerArp(c, intf, f)
        PROVE  FromClients'
    <3>1. Reply(c, VNSPacket(intf, ArpReply(intf, intf)))
      BY <1>4, <2>5, SessionAssumption DEF AnswerArp
    <3>2. VNSPacket(intf, ArpReply(intf, intf)) \in Sendable(c)
      BY <1>4, <1>6, <2>1, Replies
    <3> QED  BY <1>1, <1>2, <3>1, <3>2, Replying
  <2>6. ASSUME SendOther(c)
        PROVE  FromClients'
    <3>1. ASSUME NEW out \in RouteIfs, Reply(c, VNSPacket(out, OtherFrame))
          PROVE  FromClients'
      <4>1. VNSPacket(out, ArpReply(None, None)) \in Sendable(c)
        BY <2>1, Replies
      <4>2. VNSPacket(out, OtherFrame) \in Sendable(c)
        BY <4>1 DEF OtherFrame, ArpReply
      <4> QED  BY <1>1, <1>2, <3>1, <4>2, Replying
    <3>2. UNCHANGED toServer => FromClients'
      BY <1>1, <1>2, Untouched
    <3> QED  BY <2>6, <3>1, <3>2 DEF SendOther
  <2>7. FromClients'
    BY <1>1, <1>2, <2>4, <2>5, <2>6, Untouched
  <2> QED  BY <1>3, <2>3, <2>7
<1> QED  BY <1>5, <1>6

LEMMA EofKeeps ==
    ASSUME IInv, NEW c \in Client, Eof(c)
    PROVE  IInv'
<1> USE DEF IInv
<1>1. UNCHANGED <<pox, ups, frames, intfname_to_port, port_to_intfname, interfaces,
                  srclients, greeting, toClient, toServer, open, ifs>>
  BY DEF Eof, server
<1>2. pc[c] \in Alive
  BY DEF Eof
<1>3. PICK to \in {"spin", "exited"} : pc' = [pc EXCEPT ![c] = to]
  BY DEF Eof
<1>4. AllRoutes' /\ Scalars'
  BY <1>1, <1>2, <1>3, EndsOrGoesOn DEF Scalars
<1> QED  BY <1>1, <1>4, Untouched

\* The end of the server leaves its last messages, and what it knew, as they were.
LEMMA ServerEndsKeeps == IInv /\ ServerEnds => IInv'
<1> SUFFICES ASSUME IInv, ServerEnds PROVE IInv'
  OBVIOUS
<1> USE DEF IInv
<1>1. /\ pox' = Down /\ open' = {} /\ greeting' = None
      /\ UNCHANGED <<ups, frames, intfname_to_port, port_to_intfname, interfaces,
                     srclients, toClient, toServer, pc, ifs>>
  BY DEF ServerEnds, server, clients
<1>2. Scalars' /\ PoxThread'
  BY <1>1 DEF Scalars, PoxThread
<1> QED  BY <1>1, <1>2, Untouched DEF clients

LEMMA NextIInv == IInv /\ [Next]_vars => IInv'
<1> SUFFICES ASSUME IInv, [Next]_vars PROVE IInv'
  OBVIOUS
<1>1. CASE UNCHANGED vars
  BY <1>1, Untouched DEF IInv, Scalars, vars, clients
<1>2. CASE PoxStep
  BY <1>2, StoreNameKeeps, PoxKeeps DEF PoxStep
<1>7. CASE ServerEnds
  BY <1>7, ServerEndsKeeps
<1>3. ASSUME NEW info \in Infos, ConnectionUp(info) PROVE IInv'
  BY <1>3, PoxKeeps
<1>4. ASSUME NEW p \in Port, NEW f \in Frame, PacketIn(p, f) PROVE IInv'
  BY <1>4, PoxKeeps
<1>5. ASSUME NEW c \in Client, Connect(c) \/ ReactorStep(c) PROVE IInv'
  BY <1>5, ReactorKeeps
<1>6. ASSUME NEW c \in Client, ClientStep(c) PROVE IInv'
  BY <1>6, HandshakeKeeps, HwinfoKeeps, PacketKeeps, EofKeeps DEF ClientStep
<1> QED  BY <1>1, <1>2, <1>3, <1>4, <1>5, <1>6, <1>7 DEF Next

LEMMA Inductive == Spec => []IInv
<1> QED  BY InitIInv, NextIInv, PTL DEF Spec

(***************************************************************************)
(* The theorems.                                                           *)
(***************************************************************************)
\* What c may have sent, message by message.
LEMMA SentMessage ==
    ASSUME IInv, NEW c \in Client, NEW k \in DOMAIN toServer[c]
    PROVE  toServer[c][k] \in Sendable(c)
<1>1. k \in 1..Len(toServer[c])
  BY LenProperties DEF IInv, FromClients
<1> QED  BY <1>1, ElementOfSeq DEF IInv, FromClients

\* Every variable keeps to its type, the messages on the channels included.
THEOREM TypeCorrect == Spec => []TypeOK
<1>1. ASSUME IInv PROVE toClient \in [Client -> Seq(ToClient)]
  <2>1. Receivable \subseteq ToClient
    BY DEF Receivable
  <2> QED  BY <1>1, <2>1, Widened DEF IInv, FromServer
<1>2. ASSUME IInv PROVE pox.pc \in {"idle", "name", "port", "broadcast", "down"}
  BY <1>2 DEF IInv, PoxThread, Idle, Down, Filling, Broadcasting
<1>3. IInv => TypeOK
  BY <1>1, <1>2 DEF IInv, TypeOK, Scalars, Published, KnownNames, FromClients
<1> QED  BY <1>3, Inductive, PTL

\* Whatever the switch reports and however often it comes back, a packet on its
\* way to the server names a port that _handle_packet_msg finds.
THEOREM PacketsFindTheirPort == Spec => []PortKnown
<1>1. IInv => PortKnown
  BY SentMessage DEF PortKnown, Sendable, KnownNames
<1> QED  BY <1>1, Inductive, PTL

\* A client that handles frames has all the interfaces its routes name.
THEOREM RoutesHaveInterfaces == Spec => []RoutesUsable
<1>1. IInv => RoutesUsable
  BY SentMessage DEF RoutesUsable, Sendable
<1> QED  BY <1>1, Inductive, PTL

\* An ARP reply says the address that was asked for.
THEOREM HonestReplies == Spec => []ArpHonest
<1>1. IInv => ArpHonest
  BY SentMessage DEF ArpHonest, Sendable
<1> QED  BY <1>1, Inductive, PTL

=============================================================================
