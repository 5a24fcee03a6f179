----------------------------- MODULE VnsSession -----------------------------
(***************************************************************************)
(* The VNS protocol between the POX module and its router clients.         *)
(*   POX thread      ofhandler.py and SRServerListener's event handlers:   *)
(*                   RouterInfo fills the interface tables, each frame     *)
(*                   from the switch is broadcast to all clients;          *)
(*   reactor thread  twisted: new clients and their messages;              *)
(*   a client        one sr process: sr_connect_to_server, then the loop   *)
(*                   of sr_read_from_server, one action per message.       *)
(* The two threads of the server interleave between Python statements;     *)
(* what one send writes is one message of a FIFO channel.                  *)
(*                                                                         *)
(* A frame is what the router looks at: an ARP request for an address, or  *)
(* anything else.  Interface i has address i.  Frames are at least as long *)
(* as an ARP packet.                                                       *)
(***************************************************************************)
EXTENDS Naturals, Sequences, FiniteSets

CONSTANTS
    Client,     \* sr processes; each connects at most once
    Template,   \* those started with -T
    Intf,       \* interface names, standing for their addresses too
    Elsewhere,  \* an address no interface has
    Port,       \* OpenFlow port numbers
    Infos,      \* what RouterInfo may report: functions from names to ports
    RouteIfs,   \* interfaces named by the routing table
    None,
    MaxUps,     \* bound: switch connections (RouterInfo events)
    MaxFrames   \* bound: frames from the switch

ASSUME SessionAssumption ==
    /\ Template \subseteq Client /\ RouteIfs \subseteq Intf
    /\ Elsewhere \notin Intf /\ None \notin Intf /\ None \notin Port
    /\ \A info \in Infos : DOMAIN info \subseteq Intf
                           /\ \A i \in DOMAIN info : info[i] \in Port
    /\ MaxUps \in Nat /\ MaxFrames \in Nat

\* Frames, as the router tells them apart: the target of an ARP request.
Frame == [asks : Intf \cup {Elsewhere, None}]

(***************************************************************************)
(* The messages.  Salts, names and passwords, which everybody accepts, and *)
(* what the router does not look at are left out.  A frame of the router's *)
(* own is an ARP reply that says which address it has, or anything else.   *)
(***************************************************************************)
VNSAuthRequest  == [type |-> "AUTH_REQUEST"]
VNSAuthReply    == [type |-> "AUTH_REPLY"]
VNSAuthStatus   == [type |-> "AUTH_STATUS"]
VNSOpen         == [type |-> "OPEN"]
VNSOpenTemplate == [type |-> "OPEN_TEMPLATE"]
VNSHardwareInfo(names)   == [type |-> "HWINFO", names |-> names]
VNSPacket(intf, frame)   == [type |-> "PACKET", intf |-> intf, frame |-> frame]

ArpReply(asked, says)    == [asked |-> asked, says |-> says]
OtherFrame               == [asked |-> None, says |-> None]

VARIABLES
    pox,        \* POX thread: the interfaces left to store, the broadcast, or the
                \*   end of the server's process
    ups, frames,    \* events so far
    intfname_to_port, port_to_intfname,
    interfaces, \* self.interfaces: names, or None before the first RouterInfo
    srclients,  \* connections, in the order they were accepted
    greeting,   \* the client appended but not sent its AUTH_REQUEST, or None
    toClient, toServer,     \* channels
    open,       \* clients whose connection the server has not closed
    pc,         \* per client
    ifs         \* per client, names in sr->if_list

server  == <<intfname_to_port, port_to_intfname, interfaces>>
clients == <<pc, ifs>>
vars == <<pox, ups, frames, intfname_to_port, port_to_intfname, interfaces,
          srclients, greeting, toClient, toServer, open, pc, ifs>>

Idle  == [pc |-> "idle"]
Down  == [pc |-> "down"]
Alive == {"auth_request", "auth_status", "rtable", "main"}

Init ==
    /\ pox = Idle /\ ups = 0 /\ frames = 0
    /\ intfname_to_port = [i \in Intf |-> None]
    /\ port_to_intfname = [p \in Port |-> None]
    /\ interfaces = None
    /\ srclients = <<>> /\ greeting = None
    /\ toClient = [c \in Client |-> <<>>] /\ toServer = [c \in Client |-> <<>>]
    /\ open = {}
    /\ pc = [c \in Client |-> "off"] /\ ifs = [c \in Client |-> {}]

\* A send to a client that is gone is lost.
Sent(c, msg) ==
    IF pc[c] \in Alive /\ c \in open
    THEN [toClient EXCEPT ![c] = Append(@, msg)] ELSE toClient

(***************************************************************************)
(* The POX thread.                                                         *)
(***************************************************************************)
\* OFHandler.__init__ raises RouterInfo; its handler stores one interface after
\* the other and publishes the list when it is through.
ConnectionUp(info) ==
    /\ pox.pc = "idle" /\ ups < MaxUps
    /\ ups' = ups + 1
    /\ pox' = [pc |-> "name", info |-> info, left |-> DOMAIN info, intf |-> None]
    /\ UNCHANGED <<frames, server, srclients, greeting, toClient, toServer, open, clients>>

\* Mutant: each report starts the table anew.
Anew(i, p)  == [j \in Intf |-> IF j = i THEN p
                               ELSE IF j \in pox.left THEN None ELSE intfname_to_port[j]]
Added(i, p) == [intfname_to_port EXCEPT ![i] = p]

StoreName ==
    /\ pox.pc = "name" /\ pox.left # {}
    /\ \E i \in pox.left :
         /\ intfname_to_port' = Added(i, pox.info[i])
         /\ pox' = [pox EXCEPT !.pc = "port", !.intf = i, !.left = @ \ {i}]
    /\ UNCHANGED <<ups, frames, port_to_intfname, interfaces, srclients, greeting,
                   toClient, toServer, open, clients>>

StorePort ==
    /\ pox.pc = "port"
    /\ port_to_intfname' = [port_to_intfname EXCEPT ![pox.info[pox.intf]] = pox.intf]
    /\ pox' = [pox EXCEPT !.pc = "name"]
    /\ UNCHANGED <<ups, frames, intfname_to_port, interfaces, srclients, greeting,
                   toClient, toServer, open, clients>>

PublishInterfaces ==
    /\ pox.pc = "name" /\ pox.left = {}
    /\ interfaces' = DOMAIN pox.info
    /\ pox' = Idle
    /\ UNCHANGED <<ups, frames, intfname_to_port, port_to_intfname, srclients,
                   greeting, toClient, toServer, open, clients>>

\* The handler of SRPacketIn drops a frame from a port without a name.
Named(p) == port_to_intfname[p] # None

_handle_SRPacketIn(p, f) ==
    pox' = IF ~Named(p) THEN Idle
           ELSE [pc |-> "broadcast", k |-> 1, msg |-> VNSPacket(port_to_intfname[p], f)]

\* A frame from the switch, which raises SRPacketIn.
PacketIn(p, f) ==
    /\ pox.pc = "idle" /\ frames < MaxFrames
    /\ frames' = frames + 1
    /\ _handle_SRPacketIn(p, f)
    /\ UNCHANGED <<ups, server, srclients, greeting, toClient, toServer, open, clients>>

\* The loop over self.srclients, which may grow meanwhile.
Broadcast ==
    /\ pox.pc = "broadcast"
    /\ IF pox.k <= Len(srclients)
       THEN /\ toClient' = Sent(srclients[pox.k], pox.msg)
            /\ pox' = [pox EXCEPT !.k = @ + 1]
       ELSE pox' = Idle /\ UNCHANGED toClient
    /\ UNCHANGED <<ups, frames, server, srclients, greeting, toServer, open, clients>>

(***************************************************************************)
(* The reactor thread.                                                     *)
(***************************************************************************)
\* connect() and _handle_new_client: the client is in the list before its
\* AUTH_REQUEST is sent.
Connect(c) ==
    /\ pc[c] = "off" /\ greeting = None /\ pox # Down
    /\ pc' = [pc EXCEPT ![c] = "auth_request"]
    /\ open' = open \cup {c}
    /\ srclients' = Append(srclients, c)
    /\ greeting' = c
    /\ UNCHANGED <<pox, ups, frames, server, toClient, toServer, ifs>>

Greet ==
    /\ greeting # None
    /\ toClient' = Sent(greeting, VNSAuthRequest)
    /\ greeting' = None
    /\ UNCHANGED <<pox, ups, frames, server, srclients, toServer, open, clients>>

Received(c, type) ==
    /\ pox # Down /\ greeting = None         \* the reactor is not in another callback
    /\ toServer[c] # <<>> /\ Head(toServer[c]).type = type
    /\ toServer' = [toServer EXCEPT ![c] = Tail(@)]

\* Mutant: the reply is not answered.
NoStatus(c) == toClient
Status(c)   == Sent(c, VNSAuthStatus)

_handle_auth_reply(c) ==
    /\ Received(c, "AUTH_REPLY")
    /\ toClient' = Status(c)
    /\ UNCHANGED <<pox, ups, frames, server, srclients, greeting, open, clients>>

\* Before the first RouterInfo self.interfaces does not exist; the exception is
\* swallowed and the client gets no answer.  Mutant: so it is while it is filled again.
SendSettled(c) == IF interfaces = None \/ pox.pc \in {"name", "port"} THEN toClient
                  ELSE Sent(c, VNSHardwareInfo(interfaces))
SendHwinfo(c) == IF interfaces = None THEN toClient
                 ELSE Sent(c, VNSHardwareInfo(interfaces))

_handle_open_msg(c) ==
    /\ Received(c, "OPEN")
    /\ toClient' = SendHwinfo(c)
    /\ UNCHANGED <<pox, ups, frames, server, srclients, greeting, open, clients>>

\* _handle_open_template_msg is not defined: the exception ends the connection.
_handle_open_template_msg(c) ==
    /\ Received(c, "OPEN_TEMPLATE")
    /\ open' = open \ {c}
    /\ UNCHANGED <<pox, ups, frames, server, srclients, greeting, toClient, clients>>

\* An unknown name would be an exception too (out_port is not assigned).
_handle_packet_msg(c) ==
    /\ Received(c, "PACKET")
    /\ open' = IF intfname_to_port[Head(toServer[c]).intf] = None
               THEN open \ {c} ELSE open
    /\ UNCHANGED <<pox, ups, frames, server, srclients, greeting, toClient, clients>>

\* The server's process ends, at any moment: killall.sh kills it, or POX goes down.
\* Every connection is closed; nothing tells the clients.
ServerEnds ==
    /\ pox # Down /\ pox' = Down
    /\ open' = {} /\ greeting' = None
    /\ UNCHANGED <<ups, frames, server, srclients, toClient, toServer, clients>>

(***************************************************************************)
(* A client: sr_read_from_server_expect.                                   *)
(***************************************************************************)
Expected(c) == CASE pc[c] = "auth_request" -> "AUTH_REQUEST"
                 [] pc[c] = "auth_status"  -> "AUTH_STATUS"
                 [] pc[c] = "rtable"       -> "RTABLE"
                 [] OTHER                  -> "any"

Reads(c, type) ==
    /\ pc[c] \in Alive /\ toClient[c] # <<>> /\ Head(toClient[c]).type = type
    /\ toClient' = [toClient EXCEPT ![c] = Tail(@)]
    /\ UNCHANGED <<pox, ups, frames, server, srclients, greeting, open>>

\* Not what the handshake expects: sr_connect_to_server fails and main returns.
Unexpected(c, type) ==
    /\ Expected(c) \notin {"any", type}
    /\ Reads(c, type)
    /\ pc' = [pc EXCEPT ![c] = "refused"]
    /\ UNCHANGED <<toServer, ifs>>

Reply(c, msg) == toServer' = [toServer EXCEPT ![c] = Append(@, msg)]

sr_handle_auth_request(c) ==
    /\ pc[c] = "auth_request" /\ Reads(c, "AUTH_REQUEST")
    /\ Reply(c, VNSAuthReply)
    /\ pc' = [pc EXCEPT ![c] = "auth_status"]
    /\ UNCHANGED ifs

sr_handle_auth_status(c) ==
    /\ pc[c] = "auth_status" /\ Reads(c, "AUTH_STATUS")
    /\ Reply(c, IF c \in Template THEN VNSOpenTemplate ELSE VNSOpen)
    /\ pc' = [pc EXCEPT ![c] = IF c \in Template THEN "rtable" ELSE "main"]
    /\ UNCHANGED ifs

\* sr_add_interface, sr_set_ether_addr and sr_set_ether_ip for each of the names.
WithInterfaces(c, names) == ifs[c] \cup names

\* sr_handle_hwinfo, then sr_verify_routing_table.
sr_handle_hwinfo(c) ==
    /\ pc[c] = "main" /\ Reads(c, "HWINFO")
    /\ LET names == WithInterfaces(c, Head(toClient[c]).names)
       IN /\ ifs' = [ifs EXCEPT ![c] = names]
          /\ pc' = IF names # {} /\ RouteIfs \subseteq names THEN pc
                   ELSE [pc EXCEPT ![c] = "exited"]
    /\ UNCHANGED toServer

\* Mutants: every request is let through; the check for the interface is left out.
LetThrough(c, intf, f) == FALSE
sr_arp_req_not_for_us(c, intf, f) == f.asks # None /\ f.asks # intf

Unchecked(c, intf) == TRUE
IfaceExists(c, intf) == intf \in ifs[c]         \* assert(iface)

\* sr_handlepacket: an ARP request for an address the router has is answered with
\* the receiving interface's; another frame is sent on the interface of a route,
\* or not at all.  sr_send_packet wants the interface to exist, as it does here.
AnswerArp(c, intf, f) ==
    IF f.asks = Elsewhere THEN UNCHANGED toServer
    ELSE Reply(c, VNSPacket(intf, ArpReply(f.asks, intf)))

SendOther(c) ==
    \/ UNCHANGED toServer
    \/ \E out \in RouteIfs : Reply(c, VNSPacket(out, OtherFrame))

Packet(c) ==
    /\ pc[c] = "main" /\ Reads(c, "PACKET")
    /\ LET intf == Head(toClient[c]).intf
           f    == Head(toClient[c]).frame
       IN IF ~IfaceExists(c, intf)
          THEN pc' = [pc EXCEPT ![c] = "aborted"] /\ UNCHANGED toServer
          ELSE /\ UNCHANGED pc
               /\ IF sr_arp_req_not_for_us(c, intf, f) THEN UNCHANGED toServer
                  ELSE IF f.asks # None THEN AnswerArp(c, intf, f)
                  ELSE SendOther(c)
    /\ UNCHANGED ifs

\* The server has closed the connection, and what it had not written yet is lost.
\* recv returns 0 and the loop that waits for four bytes goes round for ever; only
\* if the server had left something unread the connection is reset, recv
\* returns -1 and main returns.
Eof(c) ==
    /\ pc[c] \in Alive /\ c \notin open
    /\ \/ pc' = [pc EXCEPT ![c] = "spin"]
       \/ toServer[c] # <<>> /\ pc' = [pc EXCEPT ![c] = "exited"]
    /\ UNCHANGED <<pox, ups, frames, server, srclients, greeting, toClient,
                   toServer, open, ifs>>

PoxStep == StoreName \/ StorePort \/ PublishInterfaces \/ Broadcast

ReactorStep(c) ==
    \/ Greet \/ _handle_auth_reply(c) \/ _handle_open_msg(c)
    \/ _handle_open_template_msg(c) \/ _handle_packet_msg(c)

ClientStep(c) ==
    \/ sr_handle_auth_request(c) \/ sr_handle_auth_status(c)
    \/ sr_handle_hwinfo(c) \/ Packet(c) \/ Eof(c)
    \/ Unexpected(c, "PACKET")

Next ==
    \/ PoxStep \/ ServerEnds
    \/ \E info \in Infos : ConnectionUp(info)
    \/ \E p \in Port, f \in Frame : PacketIn(p, f)
    \/ \E c \in Client : Connect(c) \/ ReactorStep(c) \/ ClientStep(c)

Spec == Init /\ [][Next]_vars

\* Each thread and each client goes on; nothing makes events arrive, nor the server end.
Fair == /\ Spec /\ WF_vars(PoxStep)
        /\ \A c \in Client : WF_vars(ReactorStep(c)) /\ WF_vars(ClientStep(c))

(***************************************************************************)
(* Properties.                                                             *)
(***************************************************************************)
ToClient == {VNSAuthRequest, VNSAuthStatus}
            \cup {VNSHardwareInfo(names) : names \in SUBSET Intf}
            \cup {VNSPacket(i, f) : i \in Intf, f \in Frame}
ToServer == {VNSAuthReply, VNSOpen, VNSOpenTemplate}
            \cup {VNSPacket(i, f) : i \in Intf,
                                  f \in [asked : Intf \cup {None}, says : Intf \cup {None}]}

\* Every variable keeps to its type, the messages on the channels included.
TypeOK ==
    /\ pox.pc \in {"idle", "name", "port", "broadcast", "down"}
    /\ ups \in 0..MaxUps /\ frames \in 0..MaxFrames
    /\ intfname_to_port \in [Intf -> Port \cup {None}]
    /\ port_to_intfname \in [Port -> Intf \cup {None}]
    /\ interfaces = None \/ interfaces \subseteq Intf
    /\ srclients \in Seq(Client) /\ greeting \in Client \cup {None}
    /\ toClient \in [Client -> Seq(ToClient)]
    /\ toServer \in [Client -> Seq(ToServer)]
    /\ open \subseteq Client
    /\ pc \in [Client -> Alive \cup {"off", "refused", "exited", "aborted", "spin"}]
    /\ ifs \in [Client -> SUBSET Intf]

\* A packet on its way to the server names an interface that is in
\* intfname_to_port, though the reactor thread reads the table while the POX
\* thread fills it again: names and ports are added, never taken away, so a
\* packet sent before the switch came back still finds its port.  Otherwise
\* _handle_packet_msg raises an exception in its exception handler.
PortKnown ==
    \A c \in Client : \A k \in DOMAIN toServer[c] :
        toServer[c][k].type = "PACKET" =>
            intfname_to_port[toServer[c][k].intf] # None

\* A client that is handling frames has every interface its routes name, though
\* frames may reach it before the hardware information does.
RoutesUsable ==
    \A c \in Client : \A k \in DOMAIN toServer[c] :
        toServer[c][k].type = "PACKET" => RouteIfs \subseteq ifs[c]

\* An ARP reply gives the address that was asked for: sr_handlepacket answers
\* for any of the router's addresses with the one of the receiving interface,
\* and only sr_arp_req_not_for_us, in another file, keeps the others away.
ArpHonest ==
    \A c \in Client : \A k \in DOMAIN toServer[c] :
        LET m == toServer[c][k] IN m.type = "PACKET" => m.frame.asked = m.frame.says

\* A client that connects gets through the handshake or is refused, unless the server
\* ends; neither side waits for the other for ever.
HandshakeEnds ==
    \A c \in Client \ Template :
        pc[c] = "auth_request" ~> pc[c] \in {"main", "refused"} \/ pox = Down

\* A client whose OPEN is on its way when self.interfaces exists is told of them, or
\* has ended, though a RouterInfo may be half handled, unless the server ends; one
\* whose OPEN came earlier is never answered (srhandler.py:133-136) and waits for ever.
OpenServed ==
    \A c \in Client :
        interfaces # None /\ (\E k \in DOMAIN toServer[c] : toServer[c][k].type = "OPEN")
            ~> ifs[c] # {} \/ pc[c] # "main" \/ pox = Down

\* assert(iface) (sr_vns_comm.c:631) holds of every frame.  It does not for one
\* that is broadcast before the answer to OPEN.
InterfaceKnown == \A c \in Client : pc[c] # "aborted"

=============================================================================
