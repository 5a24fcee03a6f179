# A TLA+ model of cmput-313

The repository holds three networking assignments: a networked game of tic-tac-toe
(assignment 1), TCP measurements (assignment 2) and an IP router in C with the POX
module that connects it to a mininet switch (assignment 3). This directory models the
parts with behaviour of their own: the router, the protocol between router and POX, and
both versions of the game.

To check everything again, run `tlc -config X.cfg M` for the runs below and
`tlapm M.tla` for each `...Proofs` module.

## The system

### Router (assignment-3/router)

| component | state | operations |
|---|---|---|
| ARP cache, request queue (`sr_arpcache.c`) | 100 slots of IP-to-MAC mappings with their age; a list of requests, each with a next hop, the time of the last ARP request, their number and waiting packets; a recursive mutex | lookup, insert, queue, destroy, `handle_arpreq`; the sweeper thread wakes every second, expires mappings and calls `handle_arpreq` on all requests |
| packet handling (`sr_router.c`) | none | `sr_handlepacket` dispatches ARP and IP, `sr_forward_ip_packet`, `send_icmp_msg` |
| routing table (`sr_rt.c`) | list of entries | loading (twice, or once with `-T`), check against the interfaces, longest prefix match |
| interfaces (`sr_if.c`) | list of names and addresses | filled from the hardware information, looked up by name or address |
| VNS client (`sr_vns_comm.c`, `sr_main.c`) | socket | handshake, then one message per turn of the main loop, frames out |

Two threads share the ARP cache: the main loop and the sweeper. The mutex covers the
operations on the cache, but main calls `handle_arpreq` with a pointer to a queued
request after the lock was given up, and the sweeper frees requests. `handle_arpreq` and
`send_icmp_msg` call each other: a report about a packet that waited too long is itself
forwarded and may have to wait.

### POX module (assignment-3/pox_module)

`ofhandler.py` turns switch events into `RouterInfo` (which interfaces there are) and
`SRPacketIn`; `srhandler.py` keeps the tables between interface names and ports and the
list of connected routers. The POX thread runs the event handlers, a second thread runs
twisted's reactor with the handlers of client messages; they share the tables and the
list without a lock.

### Tic-tac-toe (assignment-1/c)

`ttt.c` is the board. In part 1 a client (X) and a server (O) each keep a copy and send
each other the moves; the client has 30 seconds for one. In part 2 clients join one of
five rooms of a server with a thread per client and a mutex per room; the thread of the
second player runs the game. The server tells both whose turn it is, waits for an `ACK`
and a `MARK`, plays the move on its board, and sends it on to both, who keep a copy each.
`server-p2.c` lacks a semicolon (line 280) and the include of `signal.h`; it is modelled
as if it had them.

### What is hard here

Races of main and sweeper over a request; callbacks that come back into the caller;
whole seconds; frames that arrive before the handshake is over; tables filled by one
thread and read by another; copies of the board that must not drift apart; an alarm that
may ring between any two statements; messages without an end, which a `recv` joins; a
room unlocked between the test and the change; and programs that end while their peer
waits. `PROJECT.json` lists each at its line.

### What makes each component correct

- ARP cache: one request per next hop; no packet waits for what is known; none is lost or
  meets two fates; five tries before a report; stale mappings go.
- routing table: the longest match, with an existing interface, from one version of the file.
- packet handling: the reply or error that path, way back and time to live call for, once
  and nothing else, with a valid checksum; the network comes to rest.
- VNS: the handshake ends; packets name interfaces that both sides know.
- tic-tac-toe: one game, by the rules, with the same result for both players; a mark belongs
  to the player who typed it; one game per room; nobody waits for ever.

## Modules

| module | models | builds on |
|---|---|---|
| `ArpCache` | cache, request queue and both threads | |
| `ArpService` | what the cache promises for a packet: accepted, waiting, then forwarded, reported or dropped | implemented by `ArpCache` |
| `ArpCacheProofs` | inductive invariant and theorems | `ArpCache` |
| `RoutingTable` | file, loads, verification, lookup loop | |
| `RoutingTableProofs` | inductive invariant and theorems | `RoutingTable` |
| `Network` | routers and hosts exchanging packets, the IP side of `sr_handlepacket` | uses what `ArpCache` and `RoutingTable` establish: a next hop is resolved or given up, and lookups are a function |
| `NetworkProofs` | inductive invariant and theorems | `Network` |
| `VnsSession` | POX thread, reactor thread, router clients | |
| `VnsSessionProofs` | inductive invariant and theorems | `VnsSession` |
| `TicTacToe` | `ttt.c` as operators | |
| `TicTacToeProofs` | lemmas about them | `TicTacToe` |
| `TicTacToeRules` | the game, by its rules | implemented by `GameP1` and by the server of `GameP2` |
| `GameP1` | client and server of part 1 | `TicTacToe` |
| `GameP1Proofs` | inductive invariant, theorems, refinement | `GameP1`, `TicTacToeProofs` |
| `GameRooms`, `GameRoomsProofs` | rooms and threads of part 2 | |
| `GameP2` | a running game of part 2: server and both clients | `TicTacToe`; starts where `GameRooms` has both players seated |
| `GameP2Proofs` | inductive invariants, theorems, refinement | `GameP2`, `TicTacToeProofs` |
| `MC...` | small instances for TLC | |

### How state and actions correspond to the code

**ArpCache.** One step is one critical section of main, or one access to a shared request
by either thread. `stack[t]` holds the active calls of `handle_arpreq` of a thread with
their program counters, so the recursion through `send_icmp_msg` is there. `heap` keeps
freed requests, so that a use of one is seen: a double free or a use after free sets
`fault`, after which nothing is defined and the model stops, except that a double free the
allocator does not notice is followed as well. `SourceOf` is the route that
`send_icmp_msg` looks up for the source of the packet it reports. A message the router has
queued itself comes from its own interface (`sr_router.c:58`), and `OwnHop` says whether
the table has a route to that address: host routes have none, a route to the interface's
subnet is one. `StackSize` is the number of nested calls a thread's stack has room for; a
call too many is the fault `stack_overflow`. Times are ages in whole seconds, since
`time(2)` has no finer unit. The list of requests is a set: the code prepends only, so its
order is the order of allocation. `Timely` tells whether both threads finish a second's
work within the second (`TRUE`) or may take any time (`FALSE`). `MaxReq` bounds
allocations.

**RoutingTable.** A file is a sequence of lines, a line the fields `sscanf` finds on it. A
field that is missing keeps what the buffers held, and before the first full line that
is whatever the stack held: `Readings` is the choice over all of it. An address is the
set of its one bits. The lookup is one step per entry.

**Network.** Packets keep what the router looks at: kind, addresses, time to live, options,
and what the checksum was computed over (`Covered`) in place of its value. The ARP cache
appears as what it does to a packet: `Resolved` sends it, `Unresolved` reports it.
`Verdict` says, by the routes alone, what the source of a packet is told: where the
packet's way ends, why, and whether the message that says so comes back with the time to
live it is given, which for a router's echo reply is what the request had left.

**VnsSession.** The two threads of the server interleave between Python statements; a
message is one element of a FIFO channel, built by an operator named after its class in
`VNSProtocol.py`. A frame is an ARP request for some address or anything else; one the
router sends is an ARP reply or anything else. `ServerEnds` is the end of the server's
process, at any moment, which closes every connection.

**GameP1.** A step is what a program does between two blocking calls. `alarm` and `rung`
are the pending alarm and the `timeout` flag; `AlarmRings` wakes `fgets`,
`AlarmRingsUnseen` comes while a line is being handled. `Words` are the first words the
server's player may type: the server plays a move behind any of them
(`server-p1.c:140-145`), the client only one behind `MARK` (`client-p1.c:93`). The history
`misworded` says that the server has played another.

**GameRooms.** A client stands for its socket and its thread. The steps are the critical
sections of `server2_joinRoom` and `server2_createRoom`, split where the mutex is
released, and the start, end and cleanup of `server2_runGame`.

**GameP2.** A step is what a program does from one blocking call to the next. Connections
are sequences of messages; a `recv` takes any number of them. A client looks at the first
only, since each of the server's ends with a NUL; the server passes on what it received as
a whole, which is no move to a client when more stood behind it (`Echo`). The 15 bytes
the server has for an `ACK` may cut a message in two (`Rest`). A kill may come between two
sends (`SendAll`). `turnCount` starts with whatever `malloc` returned (`StartCount`).
A line is a plain `MARK 5`, `MARK5` (`Glued`: a move for the client only) or `MARK 5 x`
(`Trailed`: the client of who types it and the server play it, `client-p2.c:114` and
`server-p2.c:208-216`, but the client it is sent on to wants two fields,
`client-p2.c:173`). `typed` and `spoilt` are histories: what the players typed, and
whether a `recv` has dropped something (`lost`) or a line was typed out of turn, glued or
with more behind its number (`mistyped`).

## Runs

| run | instance | shows |
|---|---|---|
| `arp_races` | two gateways, two packets that cross (each waits for the gateway of the other's source), one slot, 2 tries, at most 5 requests, host routes, threads of any speed | list consistency, exclusive flush, fates, tries, bounded nesting, and that `ArpCache` implements `ArpService`'s safety part |
| `arp_timely` | two packets, one of them from nowhere, a route to the router's own interface, a stack of 3 calls, threads that keep up | mappings at most one second too old; a request is sent every other second; every packet is settled |
| `arp_stale_request` | as above, any speed | **violated**: the pointer main holds stays valid |
| `rt_lookup` | 2-bit addresses, files of up to 3 lines of 7 kinds, every pair of files, every set of interfaces | lookup, interface, one version |
| `rt_default_route` | same | **violated**: a matching route is found |
| `net_packets` | three routers in a line, five hosts, one off, a route loop, 23 packets, any two at once, time to live up to 5 | checksums, refusals, single copy, traceroute, verdicts and nothing but verdicts, rest |
| `vns_safety` | two clients, one with `-T`; two reports out of three (straight, ports exchanged, an interface missing); one frame; the server's end at any moment | known ports, usable routes, honest ARP, handshake, `OPEN` answered |
| `vns_abort` | one client | **violated**: `assert(iface)` |
| `p1_game` | the whole game; words other than `MARK` from seven marks on | boards agree and nobody waits in vain until another word is played, implements `TicTacToeRules`, programs end together, a client loses when its alarm rings |
| `p2_rooms` | four clients, one room, `gameRunning` either way at first | one game, no empty seat, a room that a game has cleared is free, no deadlock |
| `p2_game` | up to five lines typed, three once something was dropped or mistyped; `turnCount` 0 or 7 at first | whose marks, copies in step, no mutual wait unless a line was dropped, the server plays by `TicTacToeRules`, nobody outlives the server |
| `p2_turn` | same | **violated**: the player to move is not left waiting |

Every property of a passing run has a mutant in `PROJECT.json`: a definition changed as a
plausible bug would, with which TLC finds the property violated. `TypeOK` of a module whose
types are proved below is not checked by a run as well.

### Bounds, and why they suffice

- ARP: the races need two threads, one request each and one more that a nested call
  touches: two gateways and two crossing packets. A third packet only repeats them. With
  one slot the cache is full after one mapping. `MaxTries` 2 tells "first", "last" and
  "over". `MaxReq` ends a behaviour in which requests are given up and queued again; five
  is more than two packets and their reports allocate in one round. Ages saturate one past
  the largest age the code tells apart, so time itself needs no bound. `StackSize` 5 is
  one more than the nesting `arp_races` allows; 3 in `arp_timely` is enough for the
  recursion that a route to an own interface makes endless to meet its end.
- routing: two bits give prefixes of all lengths 0, 1, 2, ties and nested prefixes; three
  lines give "better before", "better after" and "equal". The theorems have no such bound.
- network: 5 is enough for a packet to expire at each router, at a host and in the loop,
  and for replies that get home (`third5`) and that do not (`third4`): the third router in
  the line answers a ping with the 2 its time to live has come to, and the reply dies at
  the first. `lost` leads to an error about an error: what r1 and r2 send to `e` loops
  between them, the error that r2 owes `e` for it as well. Two packets at once show
  whether one's handling touches the other's.
- VNS: two `RouterInfo` events give a client an old list. One frame is enough for each
  overtaking, as frames do not depend on one another. `MaxUps` and `MaxFrames` are guards.
- part 1: none on the moves, but for move 10, which stands for all numbers that name no
  cell. Another word than `MARK` may come once seven marks are on the server's board, that
  is as the eighth. What follows, with the boards apart, is explored to the end, and
  sooner it would only last longer. The theorems have no such bound.
- part 2, rooms: the worst race needs two creators and two clients for the second seat.
- part 2, game: X wins with its third line, the fifth in all, and O may type a cell that
  is taken. Messages are joined from the first turn on, so three lines show what follows a
  dropped or misread one. X's second line is of any of the three forms. `turnCount` 0 and
  7 give a game whose count is right and one with an early draw. A full board is out of
  these bounds; part 1 plays to the full board.

### Fairness

- `ArpCache`: main's and the sweeper's steps and the clock each go on (WF). The sweeper
  sleeps a second and comes back, main blocks only for the network. No ARP reply has to
  come: a packet is settled because the request is given up.
- `Network`: WF of the whole system. One step of one packet keeps no other from being
  taken, and no packet goes on for ever where the routers' own addresses can be reached
  (`OwnReachable`, the condition of `Quiet`), so nothing more is needed.
- `VnsSession`: WF per thread and client; no frame or switch event has to come, nor
  the server's end.
- `GameP1`: WF of each program; the alarm rings. Nobody has to type.
- `GameP2`: WF of the server and of what each client does without its user. Nobody has to
  type, and nobody has to be killed.
- `GameRooms`: WF of each thread. A mutex is asked for finitely often by each client, so
  weak fairness is enough.

## What is proved

TLAPS proves, for every value of the constants that satisfies the modules' assumptions:

- `ArpCacheProofs`: `TypeOK`, `OneRequestPerHop`, `NoWaitWithMapping`, `FlushOwned`. None is
  inductive by itself. `IInv` adds that the frames of the call stacks name allocated
  requests (`FramesOK`, `Allocated`), which step a thread may be at given lock, sweep and
  stack (`Control`), and that a live request with freed packets is being walked by some
  call (`Walked`): without the last a sweep could meet half a request, and list
  consistency would fail one step later. One lemma per action, with lemmas about call
  stacks (`GotoStack`, `ReturnStack`, `CallStack`) they share.
  The rest of the module builds on `IInv`:
  - `TriesBeforeReport` needs `NeverAhead`: `times_sent`, in memory or as a call has loaded
    it, plus what is sent and not yet counted never exceeds what is on the wire, so lost
    counts only delay giving up.
  - `NeverBoth` and the refinement `ServiceSafe` need `OneFate`, which says where each packet
    is: in one request at most (`Known`); a request with a packet already forwarded is out of
    every call's reach (`ForwardedOut`); a live request with a packet already reported is
    being walked (`ReportedWalked`); and what a walk has passed, or a freed request held,
    needs no report any more (`WalksDone`, `FreedDone`). Each step is then a step of
    `ArpService` or none (`NextServes`): `WalkDestroy`, for one, drops just those packets that
    no route leads back from.
  - `FreshEntries` and `EveryOtherSecond`, for `Timely` threads (without it they are false).
    `Aging` ties the age of a mapping to whether a sweep is due. `Prompt` says that a call
    still knows the time, and that what a sweep has passed is sent, counted or given up
    (`Swept`); a call that nests inside it may queue to a request, and never unsends one.
  - `NestingBounded`, for a finite set of next hops. `Ordered`: a request on the list is
    the newest for its address, so a request that is no longer listed gets no packets but
    those of calls that still hold it. `Nested` says of every call of a stack what is behind
    its walk (freed packets and ICMP messages, `PassedBy`), what newer requests for its
    address hold (ICMP messages only, `NewerOnlyIcmp`), that an inner call was made for an
    ICMP message and comes to it first (`ForIcmp`), and that a call for the same request as
    an outer one ends before it makes another (`Ends`). ICMP messages are not reported, so
    calls between the outermost and the innermost have different addresses
    (`DifferentAddresses`), and there are as many as there are next hops at most. All this
    is for `HostRoutes`, where no route matches the router's own addresses, as in the
    repository's `rtable`; without it the nesting has no bound (see below), and the other
    theorems hold all the same.
- `RoutingTableProofs`: `TypeOK`, `LookupCorrect`, `RouteUsable`, `OneVersion`. `Scanned` is
  the loop invariant: the best so far is the first longest match of the entries before
  `cur`, and `longest` its mask. It rests on `MaskOrder`: prefix masks compare as numbers
  just as prefixes compare by length. `Verified` and `Origin` carry the check of the
  interfaces and the version of the file through the loads.
- `GameRoomsProofs`: `TypeOK`, `OneGame`, `SeatsTaken`, `RoomFree`. `IInv` says who may hold
  a mutex, and that a room's flag is set while a thread plays in it. `Seating` adds who may
  sit in a seat (`Sitting`) and that a room with active players has somebody in it
  (`Occupied`): only with both does the end of one game leave no seat behind. `RoomFree`
  is about rooms a game has cleared; a player who waits alone and goes keeps the room.
- `VnsSessionProofs`: `TypeOK`, `PortKnown`, `RoutesUsable`, `ArpHonest`.
  `IInv` says what the POX thread has published at each of its statements (`PoxThread`,
  `Published`), what may be on its way to and from a client (`Receivable`, `Sendable`),
  and that a client in the main loop has all its routes' interfaces (`AllRoutes`). Every
  name a message can carry was in the table before: names are added, never removed.
- `NetworkProofs`: `TypeOK`, `SumsValid`, `NoDuplication`, `RefusedRightly`, on any
  network. `NoDuplication` needs `OneEach`: a packet's number is in one place or still to
  be sent. `Traceroute` if `HostsSendPlainly` (hosts send to others, nothing that is an
  error, with some time to live; no two nodes share an address). `MCNetwork` assumes this
  and `OwnReachable` of the run's network, so that TLC evaluates both. `Traced`: a packet
  at a node is as it was sent but for the time to live `t`, and the node is step `ttl - t
  + 1` of its way; or a node made it, and a time exceeded message was made at the step the
  sent time to live names. The way is a recursive function, whose equation holds because
  the least length without one would have a predecessor with one (`WFMin`).
- `TicTacToeProofs`, `GameP1Proofs`: `TypeOK`, `BoardsAgree`, `NoMutualWait` and the
  refinement `PlaysByTheRules`, whatever words and moves the players type. Until the
  server plays a word other than `MARK` (`misworded`), `InStep` says, for each place the
  two programs can be in together, what is on the connection and how the boards differ: by
  the move that is on its way, or not. Then nothing is said of the client's copy any more;
  what is still true is that the server's board plays by the rules by itself, and that its
  player is told the result of that game (`RefinesAlone`, with `Unsaid`: a program that
  plays on has told nobody). The refinement rests on lemmas about `ttt.c`: a board's marks
  are those `turnCount` counts, players alternate, and a full board is one with nine
  marks.
- `GameP2Proofs`: `TypeOK`, `OwnMarks`, `NeverStarved`, `InStep` and the refinement
  `ServerByTheRules`, whatever the players type and however often. `turnCount` of the
  server may be any number (its uninitialized value); what is inductive is that the board
  is one players make in turns once its marks are counted anew (`Recount`). `Own` follows
  a move from the line typed over both connections to all three boards. `Served`: when a
  player waits and the server waits for it, a TURN is on its way to the player, or a line
  on its way to the server, unless a `recv` dropped something. `Running`: a server that
  plays on has told nobody a result, and its board holds no line and is not full. A legal
  move is then a `Mark` of the rules, since only the player to move can complete a line
  (`OnlyMoverWins`); a refused one changes nothing the rules see. `Copies` gives `InStep`:
  while nothing is `spoilt`, at most one line, a plain `MARK`, is on its way to the
  server, from the player to move, and the copy and the server's board, each with the
  moves that are still to reach it played, have the same marks and the same player to
  move. A client that sees its own move again leaves its board alone, since no move is
  legal twice (`MoveTwice`). `Played`, the moves on their way, is recursive over the
  connection; lemmas give what it does with a move added or the first message taken
  (`PlayedLast`, `PlayedRest`), and the messages of a whole step of the server are added
  one by one (`PlayedGrown`).

Only model-checked: liveness (`ServiceLive`, `VerdictArrives`, `Quiet`, `HandshakeEnds`,
`OpenServed`, `EndsTogether`, `AlarmedLoses`, `JoinEnds`, `AllEnd`), which is out of the
prover's reach, and `OnlyVerdict`, an invariant whose proof is left (see the plan). Every
other property of a passing run is a theorem.

## What the checks found

Violated statements of the repository, each with a run:

- `sr_arpcache_queuereq`'s pointer stays valid (`sr_arpcache.c:159`): the sweeper may free it.
- the longest match is found (`sr_rt.c:15`): never a route with mask 0.0.0.0.
- `assert(iface)` (`sr_vns_comm.c:631`): a frame broadcast before the hardware information
  aborts the router.
- a player with `TURN` can play (assignment 1 `README.md:28`): a `MARK` that arrives with the
  `ACK` is dropped by the server, a `TURN` that arrives behind a `MARK` by the client, and
  each waits for the other.

Behaviour the models have and no recorded run singles out:

- ARP requests go out every other second, not every second (`sr_arpcache.h:51`), as
  `difftime` of whole seconds is compared with `> 1.0` (`EveryOtherSecond`). The grader of the
  assignment saw it too (`feedback.txt`);
- a request given up has its packets freed in the walk and again by `sr_arpreq_destroy`.
  Leaving the first `free` out is not the remedy: a report queued for the same gateway would
  then call back without end (the mutant of `NestingBounded`);
- with a route to the subnet of an own interface in the table, a packet given up whose
  report has to wait ends in an endless recursion: the lookup of `sr_router.c:58` finds a
  route for the queued report too, a report about it is queued to the request that is
  still due, and `handle_arpreq` gives that up again, until the stack is full
  (`stack_overflow`; a static table of host routes, as the repository's, has none);
- a router's echo reply keeps what the request's time to live had left
  (`sr_router.c:69-90`), so it may die on its way home, and the source hears nothing;
- errors and replies are answered with errors too, each with a time to live of its own.
  What ends that is that an error about an error is for a router, which drops it; where
  routers cannot reach each other's addresses such errors go on for ever (`Quiet` speaks
  of networks where they can);
- more ARP requests than the limit, when both threads pass the test together;
- a full cache drops new mappings;
- IP headers with options pass one checksum test and fail the other (`RefusedRightly`
  excepts them);
- a frame before `AUTH_STATUS` ends the client (`HandshakeEnds` counts it as refused); a
  client with `-T` is never served and ends in a busy loop; so does every client when the
  server's process ends, as `recv` returns 0 for ever (`sr_vns_comm.c:322-343`), unless the
  connection is reset; `OPEN` before the first `RouterInfo` is never answered
  (`OpenServed` excepts it);
- in part 1 the server plays a move behind any word and the client only one behind `MARK`,
  so another word sets the boards apart; from then on each may wait for the other for
  ever (`BoardsAgree`, `NoMutualWait` and the refinement speak of `misworded` games apart);
- an inactive client of part 1 loses after 30 seconds, but not after a `MARK` of an occupied
  cell, which turns the alarm off (`AlarmedLoses` speaks of a client whose alarm is set);
- in part 2 a client that finds the room empty may displace another's seat, also in the
  middle of a game; a player who waits alone and goes away keeps the room; garbage in
  `gameRunning` shuts a room for good; the end of one game
  exits the server;
- in a game of part 2 the `ACK`s a client sends for anything but `TURN` make the server ask
  again, so surplus `TURN`s pile up: a player may be asked for a move out of turn, and a move
  that a `recv` has dropped has to be typed again (`feedback.txt` has "twice"). After one such
  event the copies may differ from the server's board, and so they do after `MARK 5 x`,
  which the server plays and the other client ignores (`InStep` speaks of games without).
  Garbage in `turnCount` ends games in an early draw, or in none.

## Not modelled

- Part 2: a single message torn by the network (the models join messages and cut them at
  the end of a buffer), the end of standard input, seats that change hands while a game
  runs (`GameRooms` has them), `input_parser` and `client2_start`, which are not called.
- Switches: what a router's packets do behind their port, and `OFHandler` listeners of a
  connection that is over.
- The ARP exchange between routers: `Network` has only what it does to a packet, `ArpCache`
  the side that asks and `VnsSession` the side that answers.
- Bytes: packing of VNS messages, ICMP payloads, frames shorter than their headers.
- `sha1.c` (vendored; every digest is accepted), `sr_dumper.c` and the printing functions
  (output), `sr_main.c`'s option parsing, socket setup.
- Assignment 2: scripts that run tools one after the other and plot what they print.
- The C++ skeleton of assignment 1, whose functions have no bodies; mininet scripts and web
  servers.

## Plan

Done: every module above, and the theorems above.

Next:

1. `Network` with the ARP exchange itself: requests and replies as frames, composed with
   an abstract cache from `ArpService`.
2. `VnsSession` with `OFHandler`'s listeners (one per switch connection, never removed), and
   more than one client taking part in forwarding.
3. A theorem for `OnlyVerdict`: that no other verdict than the path's reaches a host, on
   any network.
