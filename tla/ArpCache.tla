------------------------------ MODULE ArpCache ------------------------------
(***************************************************************************)
(* The ARP cache and the ARP request queue of the router, and the two      *)
(* threads that share them:                                                *)
(*   "main"   the packet loop: sr_forward_ip_packet and send_icmp_msg look *)
(*            a next hop up, queue the packet on a miss and call           *)
(*            handle_arpreq WITHOUT the lock; an ARP reply is inserted and *)
(*            the packets that waited for it are sent;                     *)
(*   "sweep"  sr_arpcache_timeout: every second, holding the lock, expires *)
(*            entries and calls handle_arpreq on every queued request.     *)
(* One step is one critical section of main, or one access to a shared     *)
(* request by either thread.                                               *)
(*                                                                         *)
(* Requests are numbered in the order of their allocation.  The code only  *)
(* ever prepends to its list, so list order is descending number and the   *)
(* list is kept as a set.  A request's packets are kept oldest first; the  *)
(* code prepends, so its walks go from the last index down to 1.           *)
(*                                                                         *)
(* Time is kept as ages in whole seconds (time(2) has no finer unit),      *)
(* saturated one past the largest age the code can tell apart.             *)
(***************************************************************************)
EXTENDS Naturals, Sequences, FiniteSets

CONSTANTS
    Hop,        \* next-hop IP addresses
    Mac,        \* hardware addresses
    Packet,     \* the packets main receives, each once
    NoHop,      \* no routing entry
    Icmp,       \* an ICMP message the router itself generated
    NextHop,    \* packet -> gateway of the route to its destination
    SrcHop,     \* packet -> gateway of the route to its source, or NoHop
    OwnHop,     \* gateway -> gateway of the route, if any, to the address of the
                \*   router's own interface towards it
    StackSize,  \* nested calls of handle_arpreq a thread's stack has room for
    Slots,      \* SR_ARPCACHE_SZ (100)
    ArpTO,      \* SR_ARPCACHE_TO (15 seconds)
    MaxTries,   \* ARP requests sent before giving up (5)
    MaxReq,     \* bound: requests allocated in a behaviour
    Timely      \* TRUE: both threads finish a second's work within the second

ASSUME ArpAssumption ==
    /\ NoHop \notin Hop
    /\ Icmp \notin Packet
    /\ NextHop \in [Packet -> Hop]
    /\ SrcHop \in [Packet -> Hop \cup {NoHop}]
    /\ OwnHop \in [Hop -> Hop \cup {NoHop}]
    /\ StackSize \in Nat \ {0}
    /\ Slots \in Nat /\ ArpTO \in Nat /\ MaxTries \in Nat /\ MaxReq \in Nat
    /\ Timely \in BOOLEAN

Threads == {"main", "sweep"}
Req     == 1..MaxReq
Slot    == 1..Slots

SentCap  == 2           \* "never sent" (calloc: the epoch) and "over 1 s ago"
EntryCap == ArpTO + 2

VARIABLES
    entries,    \* cache->entries
    queue,      \* cache->requests, as a set (see above)
    heap,       \* every struct sr_arpreq, freed ones included
    created,    \* how many requests have been allocated
    lock,       \* holder of cache->lock between steps
    stack,      \* per thread, its active calls of handle_arpreq
    main,       \* what the packet loop is doing outside handle_arpreq
    sweep,      \* where sr_arpcache_timeout is
    accepted,   \* packets main has taken from the wire
    forwarded,  \* packets sent to their next hop
    reported,   \* packets whose source was sent host unreachable
    fault       \* the first memory error, if any: nothing runs after it

cache == <<entries, queue, heap, created>>
fates == <<accepted, forwarded, reported>>
vars  == <<entries, queue, heap, created, lock, stack, main, sweep,
           accepted, forwarded, reported, fault>>

(***************************************************************************)
(* Types.                                                                  *)
(***************************************************************************)
Mapping == [valid : {TRUE}, ip : Hop, mac : Mac, age : 0..EntryCap]
Invalid == [valid |-> FALSE]                    \* nothing reads the rest of it
Request == [state : {"unused", "live", "freed"},
            ip    : Hop \cup {NoHop},
            age   : 0..SentCap,                 \* of `sent'
            times : Nat,                        \* times_sent
            pkts  : Seq(Packet \cup {Icmp}),
            gone  : SUBSET Nat,                 \* indices freed in place
            wire  : Nat]                        \* ARP requests really sent
Frame   == [pc : {"check", "send", "store", "count", "walk", "queue", "free"},
            req : Req, k : Nat, n : Nat, age : 0..SentCap]
Main    == [pc : {"idle", "queue", "flush"}, pkt : Packet \cup {Icmp},
            req : 0..MaxReq, k : Nat]
Sweep   == [pc : {"sleep", "sweep"}, cur : 0..MaxReq, slept : BOOLEAN]
Faults  == {"none", "use_after_free", "double_free", "stack_overflow"}

Unused == [state |-> "unused", ip |-> NoHop, age |-> SentCap, times |-> 0,
           pkts |-> <<>>, gone |-> {}, wire |-> 0]

\* calloc leaves sent and times_sent zero: never sent, a very long time ago.
NewRequest(h, p) == [state |-> "live", ip |-> h, age |-> SentCap, times |-> 0,
                     pkts |-> <<p>>, gone |-> {}, wire |-> 0]

(***************************************************************************)
(* Helpers.                                                                *)
(***************************************************************************)
\* The lock is recursive: its holder may take it again.
Unlocked(t) == TRUE                         \* mutant: the lock is not taken
CanLock(t)  == lock \in {"free", t}

\* The slots of valid mappings for h; sr_arpcache_lookup finds h iff there is one.
Mappings(h) == {s \in Slot : entries[s].valid /\ entries[s].ip = h}
Hit(h)      == Mappings(h) # {}

Waiting(h) == {r \in queue : heap[r].ip = h}

\* The request sr_arpcache_queuereq uses for h: the queued one or a new one.
Target(h) == IF Waiting(h) # {} THEN CHOOSE r \in Waiting(h) : TRUE
                                ELSE created + 1

\* Mutant: the packet replaces those already waiting.
HeapReplacing(h, p) ==
    [heap EXCEPT ![Target(h)] = NewRequest(h, p)]

\* heap once packet p waits in the request for h.
HeapWith(h, p) ==
    IF Waiting(h) # {}
    THEN [heap EXCEPT ![Target(h)].pkts = Append(@, p)]
    ELSE [heap EXCEPT ![created + 1] = NewRequest(h, p)]

\* sr_arpcache_queuereq, apart from the returned pointer, Target(h).
QueueReq(h, p) ==
    /\ heap'    = HeapWith(h, p)
    /\ queue'   = queue \cup {Target(h)}
    /\ created' = IF Waiting(h) = {} THEN created + 1 ELSE created

Top(t)      == stack[t][Len(stack[t])]
Running(t)  == fault = "none" /\ stack[t] # <<>>
NewFrame(r) == [pc |-> "check", req |-> r, k |-> 0, n |-> 0, age |-> 0]
Call(t, r)  == [stack EXCEPT ![t] = Append(@, NewFrame(r))]
Return(t)   == [stack EXCEPT ![t] = SubSeq(@, 1, Len(@) - 1)]
Goto(t, f)  == [stack EXCEPT ![t][Len(stack[t])] = f]

\* The route send_icmp_msg takes for packet p of request r.  The source of a
\* message the router queued itself is its own interface towards the gateway
\* of r: host routes alone do not match that address, a route to its subnet does.
SourceOf(p, r) == IF p \in Packet THEN SrcHop[p] ELSE OwnHop[heap[r].ip]

(***************************************************************************)
(* Initial state: sr_arpcache_init, and sr_init has started both threads.  *)
(***************************************************************************)
Idle == [pc |-> "idle", pkt |-> Icmp, req |-> 0, k |-> 0]

Init ==
    /\ entries = [s \in Slot |-> Invalid]
    /\ queue = {} /\ created = 0
    /\ heap = [r \in Req |-> Unused]
    /\ lock = "free"
    /\ stack = [t \in Threads |-> <<>>]
    /\ main = Idle
    /\ sweep = [pc |-> "sleep", cur |-> 0, slept |-> FALSE]
    /\ accepted = {} /\ forwarded = {} /\ reported = {}
    /\ fault = "none"

(***************************************************************************)
(* The clock.  The sweeper sleeps at least one second between sweeps; how  *)
(* long any other step takes is up to the scheduler unless Timely.         *)
(***************************************************************************)
Older(age, cap) == IF age < cap THEN age + 1 ELSE cap

MainIdle == main.pc = "idle" /\ stack["main"] = <<>>

Settled == MainIdle /\ sweep.pc = "sleep" /\ ~sweep.slept

Tick ==
    /\ fault = "none"
    /\ Timely => Settled
    /\ entries' = [s \in Slot |-> IF entries[s].valid
                      THEN [entries[s] EXCEPT !.age = Older(@, EntryCap)]
                      ELSE entries[s]]
    /\ heap' = [r \in Req |-> [heap[r] EXCEPT !.age = Older(@, SentCap)]]
    /\ stack' = [t \in Threads |-> [i \in 1..Len(stack[t]) |->
                     [stack[t][i] EXCEPT !.age = Older(@, SentCap)]]]
    /\ sweep' = [sweep EXCEPT !.slept = (sweep.pc = "sleep")]
    /\ UNCHANGED <<queue, created, lock, main, fates, fault>>

(***************************************************************************)
(* The packet loop.                                                        *)
(***************************************************************************)
\* sr_forward_ip_packet (or the same tail of send_icmp_msg) up to the lookup:
\* the packet leaves at once on a hit and is to be queued on a miss.
Receive(p) ==
    /\ fault = "none" /\ MainIdle /\ CanLock("main")
    /\ p \notin accepted
    /\ accepted' = accepted \cup {p}
    /\ IF Hit(NextHop[p])
       THEN forwarded' = forwarded \cup {p} /\ main' = main
       ELSE main' = [main EXCEPT !.pc = "queue", !.pkt = p] /\ forwarded' = forwarded
    /\ UNCHANGED <<cache, lock, stack, sweep, reported, fault>>

\* sr_arpcache_queuereq, then the call of handle_arpreq outside the lock.
QueuePacket ==
    /\ fault = "none" /\ main.pc = "queue" /\ CanLock("main")
    /\ LET h == NextHop[main.pkt] IN
       /\ Target(h) \in Req
       /\ QueueReq(h, main.pkt)
       /\ stack' = Call("main", Target(h))
    /\ main' = Idle
    /\ UNCHANGED <<entries, lock, sweep, fates, fault>>

\* sr_arpcache_insert for an ARP reply: unlink the request for the address,
\* which main flushes next, and fill the first invalid slot if there is one.
FlushOf(r) == [main EXCEPT !.pc = "flush", !.req = r, !.k = Len(heap[r].pkts)]

FoundOnly(h) ==         \* mutant: the request is found but not unlinked
    IF Waiting(h) = {} THEN UNCHANGED <<queue, main>>
    ELSE main' = FlushOf(Target(h)) /\ UNCHANGED queue

Unlink(h) ==
    IF Waiting(h) = {} THEN UNCHANGED <<queue, main>>
    ELSE main' = FlushOf(Target(h)) /\ queue' = queue \ {Target(h)}

FreeSlots == {s \in Slot : ~entries[s].valid}

Learn(h, m) ==
    /\ fault = "none" /\ MainIdle /\ CanLock("main")
    /\ entries' = IF FreeSlots = {} THEN entries
                  ELSE [entries EXCEPT
                         ![CHOOSE s \in FreeSlots : \A x \in FreeSlots : s <= x] =
                           [valid |-> TRUE, ip |-> h, mac |-> m, age |-> 0]]
    /\ Unlink(h)
    /\ UNCHANGED <<heap, created, lock, stack, sweep, fates, fault>>

\* The loop that sends the packets of the unlinked request, newest first.
FlushSend ==
    /\ fault = "none" /\ main.pc = "flush" /\ main.k > 0
    /\ forwarded' = forwarded \cup ({heap[main.req].pkts[main.k]} \cap Packet)
    /\ main' = [main EXCEPT !.k = @ - 1]
    /\ UNCHANGED <<cache, lock, stack, sweep, accepted, reported, fault>>

\* sr_arpreq_destroy: the request is unlinked if it is still queued, and freed.
FreeOnly(r) ==          \* mutant: the request is freed but stays on the list
    /\ heap' = [heap EXCEPT ![r].state = "freed", ![r].age = SentCap]
    /\ UNCHANGED queue

Destroy(r) ==
    /\ queue' = queue \ {r}
    /\ heap' = [heap EXCEPT ![r].state = "freed", ![r].age = SentCap]

FlushDestroy ==
    /\ fault = "none" /\ main.pc = "flush" /\ main.k = 0 /\ CanLock("main")
    /\ Destroy(main.req)
    /\ main' = Idle
    /\ UNCHANGED <<entries, created, lock, stack, sweep, fates, fault>>

(***************************************************************************)
(* handle_arpreq, run by main without the lock and by the sweeper with it. *)
(***************************************************************************)
\* The step t is about to take reads or writes memory that was freed.
Dangling(t) ==
    LET f == Top(t)  r == heap[Top(t).req] IN
    \/ f.pc \in {"check", "send", "store", "count", "walk"} /\ r.state = "freed"
    \/ f.pc = "send" /\ Len(r.pkts) \in r.gone
    \/ f.pc = "walk" /\ f.k \in r.gone

At(t, pc) == Running(t) /\ Top(t).pc = pc /\ ~Dangling(t)

Fail(kind) ==
    /\ fault' = kind
    /\ UNCHANGED <<cache, lock, stack, main, sweep, fates>>

UseAfterFree(t) == Running(t) /\ Dangling(t) /\ Fail("use_after_free")

EarlyGivesUp(r) == r.times + 1 >= MaxTries  \* mutant: off by one
GivesUp(r)      == r.times >= MaxTries      \* times_sent >= 5
Due(r)          == r.age > 1                \* difftime(now, request->sent) > 1.0

HandleCheck(t) ==
    LET f == Top(t)  r == heap[Top(t).req] IN
    /\ At(t, "check")
    /\ stack' = IF ~Due(r) THEN Return(t)
                ELSE IF GivesUp(r)
                     THEN Goto(t, [f EXCEPT !.pc = "walk", !.k = Len(r.pkts), !.age = 0])
                     ELSE Goto(t, [f EXCEPT !.pc = "send", !.age = 0])
    /\ UNCHANGED <<cache, lock, main, sweep, fates, fault>>

HandleSend(t) ==
    LET f == Top(t) IN
    /\ At(t, "send")
    /\ heap' = [heap EXCEPT ![f.req].wire = @ + 1]
    /\ stack' = Goto(t, [f EXCEPT !.pc = "store"])
    /\ UNCHANGED <<entries, queue, created, lock, main, sweep, fates, fault>>

\* request->sent = now, the time read at the top; times_sent++ loads ...
HandleStore(t) ==
    LET f == Top(t) IN
    /\ At(t, "store")
    /\ heap' = [heap EXCEPT ![f.req].age = f.age]
    /\ stack' = Goto(t, [f EXCEPT !.pc = "count", !.n = heap[f.req].times])
    /\ UNCHANGED <<entries, queue, created, lock, main, sweep, fates, fault>>

\* ... and stores: two threads here at once lose one of the counts.
HandleCount(t) ==
    LET f == Top(t) IN
    /\ At(t, "count")
    /\ heap' = [heap EXCEPT ![f.req].times = f.n + 1]
    /\ stack' = Return(t)
    /\ UNCHANGED <<entries, queue, created, lock, main, sweep, fates, fault>>

\* send_icmp_msg for the packet the walk stands at: no route to its source,
\* nothing is sent; the gateway is in the cache, host unreachable is sent;
\* otherwise the message has to be queued.
WalkPacket(t) ==
    LET f == Top(t)
        p == heap[f.req].pkts[f.k]
    IN
    /\ At(t, "walk") /\ f.k > 0
    /\ \/ /\ SourceOf(p, f.req) = NoHop
          /\ stack' = Goto(t, [f EXCEPT !.pc = "free"])
          /\ UNCHANGED reported
       \/ /\ SourceOf(p, f.req) # NoHop /\ CanLock(t)
          /\ IF Hit(SourceOf(p, f.req))
             THEN /\ reported' = reported \cup ({p} \cap Packet)
                  /\ stack' = Goto(t, [f EXCEPT !.pc = "free"])
             ELSE /\ stack' = Goto(t, [f EXCEPT !.pc = "queue"])
                  /\ UNCHANGED reported
    /\ UNCHANGED <<cache, lock, main, sweep, accepted, forwarded, fault>>

\* Queue the ICMP message and call handle_arpreq for that request: the same
\* request as this one if source and destination share a gateway.  Each call
\* takes a frame of the thread's stack ...
WalkQueue(t) ==
    LET f == Top(t)
        p == heap[f.req].pkts[f.k]
        h == SourceOf(p, f.req)
    IN
    /\ At(t, "queue") /\ CanLock(t) /\ Target(h) \in Req
    /\ Len(stack[t]) < StackSize
    /\ QueueReq(h, Icmp)
    /\ reported' = reported \cup ({p} \cap Packet)
    /\ stack' = [stack EXCEPT ![t] =
                   Append([@ EXCEPT ![Len(@)].pc = "free"], NewFrame(Target(h)))]
    /\ UNCHANGED <<entries, lock, main, sweep, accepted, forwarded, fault>>

\* ... and where there is no room for one the process dies.
StackOverflow(t) ==
    /\ At(t, "queue") /\ Len(stack[t]) = StackSize
    /\ Fail("stack_overflow")

\* free(packet); packet = packet->next.  The pointer is read from the block
\* just freed, where allocators leave it intact.
Freed(t) == LET r == heap[Top(t).req] IN r.state = "freed" \/ Top(t).k \in r.gone

\* Mutant: the walk frees nothing, as if free(packet) were simply deleted.
WalkKeep(t) ==
    /\ At(t, "free")
    /\ stack' = Goto(t, [Top(t) EXCEPT !.pc = "walk", !.k = @ - 1])
    /\ UNCHANGED <<cache, lock, main, sweep, fates, fault>>

WalkFree(t) ==
    LET f == Top(t) IN
    /\ At(t, "free")
    /\ IF Freed(t) THEN Fail("double_free")
       ELSE /\ heap' = [heap EXCEPT ![f.req].gone = @ \cup {f.k}]
            /\ stack' = Goto(t, [f EXCEPT !.pc = "walk", !.k = @ - 1])
            /\ UNCHANGED <<entries, queue, created, lock, main, sweep, fates, fault>>

\* sr_arpreq_destroy after the walk frees again every packet the walk freed.
\* What that does is up to the allocator: it aborts the process, or it lets
\* the second free pass and the router carries on.
WalkDestroy(t) ==
    LET f == Top(t) IN
    /\ At(t, "walk") /\ f.k = 0 /\ CanLock(t)
    /\ \/ heap[f.req].gone # {} /\ Fail("double_free")
       \/ /\ Destroy(f.req)
          /\ stack' = Return(t)
          /\ UNCHANGED <<entries, created, lock, main, sweep, fates, fault>>

(***************************************************************************)
(* sr_arpcache_timeout and sr_arpcache_sweepreqs.                          *)
(***************************************************************************)
LateExpired(s) == entries[s].valid /\ entries[s].age > ArpTO + 1    \* mutant
Expired(s) == entries[s].valid /\ entries[s].age > ArpTO

\* Mutant: the loop ends at the last request without handling it.
ButLast(Q) == IF Cardinality(Q) <= 1 THEN 0 ELSE CHOOSE x \in Q : \A y \in Q : y <= x
Newest(Q)  == IF Q = {} THEN 0 ELSE CHOOSE x \in Q : \A y \in Q : y <= x

SweepWake ==
    /\ fault = "none" /\ sweep.pc = "sleep" /\ sweep.slept /\ lock = "free"
    /\ lock' = "sweep"
    /\ entries' = [s \in Slot |-> IF Expired(s) THEN Invalid ELSE entries[s]]
    /\ sweep' = [pc |-> "sweep", cur |-> Newest(queue), slept |-> FALSE]
    /\ UNCHANGED <<queue, heap, created, stack, main, fates, fault>>

\* next is saved before the call; the call may free what it points to.
SweepRequest ==
    LET r == sweep.cur IN
    /\ fault = "none" /\ sweep.pc = "sweep" /\ stack["sweep"] = <<>> /\ r # 0
    /\ IF heap[r].state = "freed" THEN Fail("use_after_free")
       ELSE /\ stack' = Call("sweep", r)
            /\ sweep' = [sweep EXCEPT !.cur = Newest({x \in queue : x < r})]
            /\ UNCHANGED <<cache, lock, main, fates, fault>>

SweepDone ==
    /\ fault = "none" /\ sweep.pc = "sweep" /\ stack["sweep"] = <<>> /\ sweep.cur = 0
    /\ lock' = "free"
    /\ sweep' = [sweep EXCEPT !.pc = "sleep"]
    /\ UNCHANGED <<cache, stack, main, fates, fault>>

\* After a memory error nothing is claimed of the process.
Stopped == fault # "none" /\ UNCHANGED vars

(***************************************************************************)
(* The specification.                                                      *)
(***************************************************************************)
HandleStep(t) ==
    \/ UseAfterFree(t) \/ HandleCheck(t) \/ HandleSend(t) \/ HandleStore(t)
    \/ HandleCount(t) \/ WalkPacket(t) \/ WalkQueue(t) \/ StackOverflow(t)
    \/ WalkFree(t) \/ WalkDestroy(t)

MainStep  == QueuePacket \/ FlushSend \/ FlushDestroy \/ HandleStep("main")
SweepStep == SweepWake \/ SweepRequest \/ SweepDone \/ HandleStep("sweep")
Arrival   == (\E p \in Packet : Receive(p)) \/ (\E h \in Hop, m \in Mac : Learn(h, m))

Next == Tick \/ Arrival \/ MainStep \/ SweepStep \/ Stopped

Spec == Init /\ [][Next]_vars

\* Threads run and time passes; nothing says a packet or a reply ever arrives.
FairSpec == Spec /\ WF_vars(MainStep) /\ WF_vars(SweepStep) /\ WF_vars(Tick)

(***************************************************************************)
(* Properties.                                                             *)
(***************************************************************************)
\* Every variable has its type.
TypeOK ==
    /\ entries \in [Slot -> Mapping \cup {Invalid}]
    /\ queue \in SUBSET Req
    /\ heap \in [Req -> Request]
    /\ created \in 0..MaxReq
    /\ lock \in {"free", "sweep"}
    /\ stack \in [Threads -> Seq(Frame)]
    /\ main \in Main
    /\ sweep \in Sweep
    /\ accepted \subseteq Packet /\ forwarded \subseteq Packet /\ reported \subseteq Packet
    /\ fault \in Faults

\* cache->requests never holds a freed request, nor two requests for one
\* address: sr_arpcache_queuereq, sr_arpcache_insert and sr_arpreq_destroy keep
\* the list consistent although handle_arpreq runs on it without the lock.
OneRequestPerHop ==
    /\ \A r \in queue : heap[r].state = "live"
    /\ \A q, r \in queue : heap[q].ip = heap[r].ip => q = r

\* The request sr_arpcache_insert unlinked belongs to main alone until it is
\* destroyed: no queue, no call of handle_arpreq and no saved `next' pointer of
\* the sweep reaches it, and none of its packets has been freed.
FlushOwned ==
    main.pc = "flush" =>
        /\ main.req \notin queue
        /\ heap[main.req].state = "live" /\ heap[main.req].gone = {}
        /\ sweep.cur # main.req
        /\ \A t \in Threads : \A i \in 1..Len(stack[t]) : stack[t][i].req # main.req

\* No packet is both delivered to its next hop and reported unreachable.
NeverBoth == forwarded \cap reported = {}

\* Packet p waits in request r: a queued one, or the one main is flushing.
Pending(r, p) ==
    /\ r \in queue \/ (main.pc = "flush" /\ r = main.req)
    /\ \E k \in 1..Len(heap[r].pkts) : heap[r].pkts[k] = p

\* No packet waits for an address the cache can already resolve, although the
\* lookup that missed and the queueing are two critical sections.
NoWaitWithMapping == \A r \in queue : ~Hit(heap[r].ip)

\* handle_arpreq gives a request up only after MaxTries ARP requests really
\* went out for it, whatever counts the two threads lose.
TriesBeforeReport ==
    \A t \in Threads : \A i \in 1..Len(stack[t]) :
        stack[t][i].pc \in {"walk", "queue", "free"} =>
            heap[stack[t][i].req].wire >= MaxTries

\* When the threads keep up with the clock, the cache holds no mapping more
\* than one second past its lifetime (sr_arpcache_timeout runs every second).
FreshEntries == \A s \in Slot : entries[s].valid => entries[s].age <= ArpTO + 1

\* When the threads keep up with the clock, a sweep leaves no request that was sent
\* but not yet given up and was last sent two seconds ago or more.  (sr_arpcache.h:51
\* has "every second"; whole seconds compared with > 1.0 make it every other.)
EveryOtherSecond ==
    [][SweepDone => \A r \in queue : heap[r].times \in 1..MaxTries - 1 => heap[r].age <= 1]_vars

\* The request sr_arpcache_queuereq returned to main stays allocated while main
\* is in handle_arpreq for it (sr_arpcache.c:159-160).
RequestStaysValid ==
    stack["main"] # <<>> /\ Top("main").pc \in {"check", "send", "store", "count"} =>
        heap[Top("main").req].state = "live"

\* No route leads to the router's own addresses, as when the table holds host
\* routes alone (the repository's rtable does).
HostRoutes == \A h \in Hop : OwnHop[h] = NoHop

\* handle_arpreq and send_icmp_msg call each other, for the same request when
\* source and destination share a gateway and in a circle when they cross.  With
\* host routes alone the nesting stays bounded until it meets a packet an outer
\* call has freed.  With a route to an own interface's subnet it does not: the
\* message queued about a message is queued to a request that is still due,
\* handle_arpreq gives that up again, and so on until the stack is full.
NestingBounded ==
    HostRoutes => \A t \in Threads : Len(stack[t]) <= Cardinality(Hop) + 2

(***************************************************************************)
(* The service these threads implement together.                           *)
(***************************************************************************)
Fate == [p \in Packet |->
    IF p \in forwarded THEN "delivered"
    ELSE IF p \in reported THEN "reported"
    ELSE IF p \notin accepted THEN "new"
    ELSE IF \/ main.pc = "queue" /\ main.pkt = p
            \/ \E r \in Req : Pending(r, p)
         THEN "waiting" ELSE "dropped"]

Service == INSTANCE ArpService WITH
    Unroutable <- {p \in Packet : SrcHop[p] = NoHop},
    fate <- Fate, up <- (fault = "none")

\* Whatever the two threads do to each other, and however late they run, every
\* packet goes through the fates ArpService allows, in its order: none is lost.
ServiceSafe == Service!Spec

\* When the threads keep up with the clock every packet is settled in the end.
ServiceLive == Service!FairSpec
=============================================================================
