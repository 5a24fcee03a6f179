--------------------------- MODULE ArpCacheProofs ---------------------------
(***************************************************************************)
(* The ARP cache and its two threads, for any number of gateways, packets, *)
(* slots and tries.  The inductive invariant IInv gives the type           *)
(* invariant, the consistency of the list, that no packet waits for a      *)
(* known address, and main's ownership of the request it flushes.  What    *)
(* follows rests on it, in this order: no request is given up before       *)
(* MaxTries ARP requests went out for it; no packet is both delivered and  *)
(* reported; the two threads together implement ArpService; when they keep *)
(* up with the clock, mappings are fresh and requests sent every other     *)
(* second; and, as long as no route leads to the router's own addresses,   *)
(* handle_arpreq and send_icmp_msg nest only so deep.                      *)
(***************************************************************************)
EXTENDS ArpCache, SequenceTheorems, FiniteSetTheorems, WellFoundedInduction, TLAPS

(***************************************************************************)
(* The inductive invariant.                                                *)
(***************************************************************************)
\* What holds of every active call of handle_arpreq: its request has been
\* allocated, its walk stays inside the packet list, and a message about to be
\* queued is for a gateway whose mapping is not in the cache.
FrameOK(f) ==
    /\ f.req <= created
    /\ f.pc \in {"queue", "free"} => f.k \in 1..Len(heap[f.req].pkts)
    /\ f.pc = "walk" => f.k <= Len(heap[f.req].pkts)
    /\ f.pc = "queue" => /\ SourceOf(heap[f.req].pkts[f.k], f.req) \in Hop
                         /\ ~Hit(SourceOf(heap[f.req].pkts[f.k], f.req))

FramesOK == \A t \in Threads : \A i \in 1..Len(stack[t]) : FrameOK(stack[t][i])

\* Requests handed out are for a gateway each; the list, main and the sweep hold
\* only such requests.
Allocated ==
    /\ \A r \in Req : r <= created => heap[r].ip \in Hop
    /\ \A r \in queue : r <= created
    /\ main.req <= created /\ sweep.cur <= created

\* main is in one place at a time; the sweeper works only under the lock.
Control ==
    /\ main.pc = "queue" => main.pkt \in Packet /\ ~Hit(NextHop[main.pkt])
    /\ main.pc # "idle" => stack["main"] = <<>>
    /\ main.pc = "flush" => main.req \in Req
    /\ sweep.pc = "sleep" => stack["sweep"] = <<>> /\ sweep.cur = 0 /\ lock = "free"
    /\ sweep.pc = "sweep" => lock = "sweep"

\* A live request with freed packets is still being given up by some call.
Walks(f, r) == f.req = r /\ f.pc \in {"walk", "queue", "free"}
Walked ==
    \A r \in Req : heap[r].state = "live" /\ heap[r].gone # {} =>
        \E t \in Threads : \E i \in 1..Len(stack[t]) : Walks(stack[t][i], r)

IInv == /\ TypeOK /\ FramesOK /\ Allocated /\ Control /\ Walked
        /\ OneRequestPerHop /\ NoWaitWithMapping /\ FlushOwned

(***************************************************************************)
(* Operations on the call stacks.                                          *)
(***************************************************************************)
\* The top of a thread's stack is one of its calls.
LEMMA TopFrame ==
    ASSUME stack \in [Threads -> Seq(Frame)], NEW t \in Threads, stack[t] # <<>>
    PROVE  /\ Len(stack[t]) \in 1..Len(stack[t])
           /\ Top(t) \in Frame
<1>1. stack[t] \in Seq(Frame) /\ Len(stack[t]) \in Nat /\ Len(stack[t]) # 0
  OBVIOUS
<1> QED BY <1>1 DEF Top

\* Replacing the top call changes nothing else.
LEMMA GotoStack ==
    ASSUME stack \in [Threads -> Seq(Frame)], NEW t \in Threads, stack[t] # <<>>,
           NEW f \in Frame, stack' = Goto(t, f)
    PROVE  /\ stack' \in [Threads -> Seq(Frame)]
           /\ \A u \in Threads : Len(stack'[u]) = Len(stack[u])
           /\ \A u \in Threads : \A i \in 1..Len(stack[u]) :
                stack'[u][i] = IF u = t /\ i = Len(stack[t]) THEN f ELSE stack[u][i]
<1> DEFINE n == Len(stack[t])
<1>1. stack[t] \in Seq(Frame) /\ n \in Nat /\ n # 0
  OBVIOUS
<1>2. stack' = [stack EXCEPT ![t] = [stack[t] EXCEPT ![n] = f]]
  BY DEF Goto
<1>3. [stack[t] EXCEPT ![n] = f] \in Seq(Frame) /\ Len([stack[t] EXCEPT ![n] = f]) = n
  BY <1>1
<1> QED BY <1>1, <1>2, <1>3

\* A non-empty sequence without its last element.
LEMMA WithoutLast ==
    ASSUME NEW S, NEW s \in Seq(S), NEW n \in Nat, Len(s) = n + 1
    PROVE  /\ SubSeq(s, 1, n) \in Seq(S)
           /\ Len(SubSeq(s, 1, n)) = n
           /\ \A i \in 1..n : SubSeq(s, 1, n)[i] = s[i]
<1>1. \A i \in 1..n : s[i] \in S
  OBVIOUS
<1>2. /\ SubSeq(s, 1, n) \in Seq(S)
      /\ Len(SubSeq(s, 1, n)) = IF 1 <= n THEN n - 1 + 1 ELSE 0
      /\ \A i \in 1..(n - 1 + 1) : SubSeq(s, 1, n)[i] = s[1 + i - 1]
  BY <1>1, SubSeqProperties, 1 \in Int, n \in Int
<1>3. n - 1 + 1 = n /\ \A i \in 1..n : 1 + i - 1 = i
  OBVIOUS
<1> QED BY <1>2, <1>3

\* Returning drops the top call.
LEMMA ReturnStack ==
    ASSUME stack \in [Threads -> Seq(Frame)], NEW t \in Threads, stack[t] # <<>>,
           stack' = Return(t)
    PROVE  /\ stack' \in [Threads -> Seq(Frame)]
           /\ \A u \in Threads :
                Len(stack'[u]) = IF u = t THEN Len(stack[t]) - 1 ELSE Len(stack[u])
           /\ \A u \in Threads : \A i \in 1..Len(stack'[u]) :
                i \in 1..Len(stack[u]) /\ stack'[u][i] = stack[u][i]
<1> DEFINE n == Len(stack[t])
<1>1. stack[t] \in Seq(Frame) /\ n \in Nat /\ n # 0
  OBVIOUS
<1>2. stack' = [stack EXCEPT ![t] = SubSeq(stack[t], 1, n - 1)]
  BY DEF Return
<1>3. /\ SubSeq(stack[t], 1, n - 1) \in Seq(Frame)
      /\ Len(SubSeq(stack[t], 1, n - 1)) = n - 1
      /\ \A i \in 1..(n - 1) : SubSeq(stack[t], 1, n - 1)[i] = stack[t][i]
  <2>1. n - 1 \in Nat /\ n = (n - 1) + 1
    BY <1>1
  <2> QED BY <1>1, <2>1, WithoutLast
<1> QED BY <1>1, <1>2, <1>3

\* A call adds a frame on top.
LEMMA CallStack ==
    ASSUME stack \in [Threads -> Seq(Frame)], NEW t \in Threads,
           NEW r \in Req, stack' = Call(t, r)
    PROVE  /\ stack' \in [Threads -> Seq(Frame)]
           /\ \A u \in Threads :
                Len(stack'[u]) = IF u = t THEN Len(stack[t]) + 1 ELSE Len(stack[u])
           /\ \A u \in Threads : \A i \in 1..Len(stack'[u]) :
                \/ i \in 1..Len(stack[u]) /\ stack'[u][i] = stack[u][i]
                \/ u = t /\ i = Len(stack[t]) + 1 /\ stack'[u][i] = NewFrame(r)
<1>1. stack[t] \in Seq(Frame) /\ Len(stack[t]) \in Nat
  OBVIOUS
<1>2. NewFrame(r) \in Frame
  BY DEF NewFrame, Frame, SentCap
<1>3. stack' = [stack EXCEPT ![t] = Append(stack[t], NewFrame(r))]
  BY DEF Call
<1> QED BY <1>1, <1>2, <1>3

(***************************************************************************)
(* Operations on the requests.                                             *)
(***************************************************************************)
\* Allocated requests keep their packets, at the same places.
HeapGrows ==
    /\ created <= created'
    /\ \A r \in Req : r <= created =>
        /\ heap'[r].ip = heap[r].ip
        /\ Len(heap[r].pkts) <= Len(heap'[r].pkts)
        /\ \A k \in 1..Len(heap[r].pkts) : heap'[r].pkts[k] = heap[r].pkts[k]

\* A call g of the next state that stands where the call f stands now.
Same(g, f) == g.req = f.req /\ g.pc = f.pc /\ g.k = f.k

\* A call that has not begun its walk.
Fresh(g) == g.pc \in {"check", "send", "store", "count"}

\* Calls stay well-formed while packets are only added and no mapping appears.
LEMMA FrameKept ==
    ASSUME TypeOK, TypeOK', HeapGrows, \A h \in Hop : Hit(h)' => Hit(h),
           NEW f \in Frame, FrameOK(f),
           NEW g \in Frame, Same(g, f)
    PROVE  FrameOK(g)'
<1> USE DEF TypeOK, Frame, Request, Req, Same
<1> DEFINE q == heap[g.req].pkts[g.k]
<1>1. g.req \in Req /\ g.req <= created /\ g.k \in Nat /\ created \in Nat /\ created' \in Nat
  BY DEF FrameOK
<1>2. /\ heap[g.req].pkts \in Seq(Packet \cup {Icmp})
      /\ heap'[g.req].pkts \in Seq(Packet \cup {Icmp})
  BY <1>1
<1>3. /\ Len(heap[g.req].pkts) <= Len(heap'[g.req].pkts)
      /\ \A k \in 1..Len(heap[g.req].pkts) : heap'[g.req].pkts[k] = heap[g.req].pkts[k]
  BY <1>1 DEF HeapGrows
<1>4. g.req <= created' /\ (g.pc = "walk" => g.k <= Len(heap'[g.req].pkts))
  BY <1>1, <1>2, <1>3 DEF FrameOK, HeapGrows
<1>5. g.pc \in {"queue", "free"} => g.k \in 1..Len(heap'[g.req].pkts)
  BY <1>1, <1>2, <1>3 DEF FrameOK
<1>6. ASSUME g.pc = "queue"
      PROVE  (SourceOf(q, g.req) \in Hop /\ ~Hit(SourceOf(q, g.req)))'
  <2>1. q' = q
    BY <1>6, <1>3 DEF FrameOK
  <2>2. SourceOf(q, g.req) \in Hop /\ ~Hit(SourceOf(q, g.req))
    BY <1>6 DEF FrameOK
  <2>3. SourceOf(q, g.req)' = SourceOf(q, g.req)
    <3>1. heap'[g.req].ip = heap[g.req].ip
      BY <1>1 DEF HeapGrows
    <3> QED BY <2>1, <3>1 DEF SourceOf
  <2>4. ~Hit(SourceOf(q, g.req))'
    BY <2>2, <2>3, ZenonT(30) DEF Hit, Mappings
  <2> QED BY <2>2, <2>3, <2>4
<1> QED BY <1>4, <1>5, <1>6 DEF FrameOK

\* Every call stays well-formed when each one of the next state was there before,
\* has not begun its walk, or is well-formed by itself.
LEMMA FramesKept ==
    ASSUME TypeOK, TypeOK', FramesOK, HeapGrows, \A h \in Hop : Hit(h)' => Hit(h),
           \A t \in Threads : \A i \in 1..Len(stack'[t]) :
              \/ \E j \in 1..Len(stack[t]) : Same(stack'[t][i], stack[t][j])
              \/ Fresh(stack'[t][i]) /\ stack'[t][i].req <= created'
              \/ FrameOK(stack[t][i])'
    PROVE  FramesOK'
<1> SUFFICES ASSUME NEW t \in Threads, NEW i \in 1..Len(stack'[t])
             PROVE  FrameOK(stack[t][i])'
  BY DEF FramesOK
<1>1. CASE \E j \in 1..Len(stack[t]) : Same(stack'[t][i], stack[t][j])
  <2>1. PICK j \in 1..Len(stack[t]) : Same(stack'[t][i], stack[t][j])
    BY <1>1
  <2>2. stack[t][j] \in Frame /\ stack'[t][i] \in Frame /\ FrameOK(stack[t][j])
    BY DEF TypeOK, FramesOK
  <2>3. PICK f \in Frame, g \in Frame : f = stack[t][j] /\ g = stack'[t][i]
    BY <2>2
  <2>4. FrameOK(f) /\ Same(g, f)
    BY <2>1, <2>2, <2>3
  <2>5. FrameOK(g)'
    BY <2>4, FrameKept
  <2> QED BY <2>3, <2>5 DEF FrameOK
<1>2. CASE Fresh(stack'[t][i]) /\ stack'[t][i].req <= created'
  BY <1>2 DEF Fresh, FrameOK
<1> QED BY <1>1, <1>2

\* What sr_arpcache_queuereq does to the list and to the requests.
LEMMA QueueReqHeap ==
    ASSUME TypeOK, Allocated, OneRequestPerHop,
           NEW h \in Hop, NEW p \in Packet \cup {Icmp},
           Target(h) \in Req, QueueReq(h, p)
    PROVE  /\ heap' \in [Req -> Request] /\ queue' \in SUBSET Req
           /\ created' \in 0..MaxReq /\ Target(h) <= created'
           /\ HeapGrows
           /\ Target(h) \in queue \/ Target(h) = created + 1
           /\ queue' = queue \cup {Target(h)}
           /\ \A r \in Req : r # Target(h) => heap'[r] = heap[r]
           /\ heap'[Target(h)].state = "live" /\ heap'[Target(h)].ip = h
           /\ heap'[Target(h)].gone =
                IF Target(h) \in queue THEN heap[Target(h)].gone ELSE {}
           /\ \A r \in queue : heap[r].ip = h => r = Target(h)
<1> DEFINE x == Target(h)
<1> USE DEF TypeOK, Request, Req
<1>1. CASE Waiting(h) # {}
  <2>1. x \in queue /\ heap[x].ip = h /\ heap[x].state = "live"
    BY <1>1 DEF Target, Waiting, OneRequestPerHop
  <2>2. heap' = [heap EXCEPT ![x].pkts = Append(@, p)] /\ created' = created
    BY <1>1 DEF QueueReq, HeapWith
  <2>3. Append(heap[x].pkts, p) \in Seq(Packet \cup {Icmp})
    BY <2>1
  <2>4. /\ Len(heap[x].pkts) <= Len(Append(heap[x].pkts, p))
        /\ \A k \in 1..Len(heap[x].pkts) : Append(heap[x].pkts, p)[k] = heap[x].pkts[k]
    BY <2>1
  <2>5. heap' \in [Req -> Request]
    BY <2>1, <2>2, <2>3, ZenonT(30)
  <2>6. HeapGrows
    BY <2>1, <2>2, <2>4 DEF HeapGrows
  <2>7. /\ \A r \in Req : r # x => heap'[r] = heap[r]
        /\ heap'[x].state = "live" /\ heap'[x].ip = h /\ heap'[x].gone = heap[x].gone
    BY <2>1, <2>2
  <2>8. \A r \in queue : heap[r].ip = h => r = x
    BY <2>1 DEF OneRequestPerHop
  <2>9. queue' = queue \cup {x} /\ queue' \in SUBSET Req /\ x <= created'
    BY <2>1, <2>2 DEF QueueReq, Allocated
  <2> QED BY <2>1, <2>2, <2>5, <2>6, <2>7, <2>8, <2>9
<1>2. CASE Waiting(h) = {}
  <2> DEFINE new == NewRequest(h, p)
  <2>1. x = created + 1 /\ created' = created + 1 /\ x \notin queue
    BY <1>2 DEF Target, QueueReq, Allocated
  <2>2. heap' = [heap EXCEPT ![x] = new]
    BY <1>2, <2>1 DEF QueueReq, HeapWith
  <2>3. <<p>> \in Seq(Packet \cup {Icmp})
    OBVIOUS
  <2>10. new \in Request /\ new.gone = {} /\ new.state = "live" /\ new.ip = h
    BY <2>3 DEF NewRequest, SentCap
  <2>4. heap' \in [Req -> Request] /\ created' \in 0..MaxReq
    BY <2>1, <2>2, <2>10
  <2>5. HeapGrows
    BY <2>1, <2>2 DEF HeapGrows
  <2>6. \A r \in queue : heap[r].ip # h
    BY <1>2 DEF Waiting
  <2> HIDE DEF new
  <2> QED BY <2>1, <2>2, <2>10, <2>4, <2>5, <2>6 DEF QueueReq
<1> QED BY <1>1, <1>2

(***************************************************************************)
(* IInv holds initially and every step preserves it.                       *)
(***************************************************************************)
\* sr_arpcache_init establishes the invariant.
LEMMA InitIInv == Init => IInv
<1> SUFFICES ASSUME Init PROVE IInv
  OBVIOUS
<1> USE ArpAssumption DEF Init, Threads
<1>1. TypeOK
  BY DEF TypeOK, Main, Sweep, Request, Faults, Idle, Unused, SentCap
<1>2. FramesOK /\ Allocated /\ Control
  BY DEF FramesOK, Allocated, Control, Idle, Req
<1>3. Walked /\ OneRequestPerHop /\ NoWaitWithMapping /\ FlushOwned
  BY DEF Walked, OneRequestPerHop, NoWaitWithMapping, FlushOwned, Idle, Unused
<1> QED BY <1>1, <1>2, <1>3 DEF IInv

\* Ages stay in their range.
LEMMA OlderType ==
    /\ \A age \in 0..SentCap : Older(age, SentCap) \in 0..SentCap
    /\ \A age \in 0..EntryCap : Older(age, EntryCap) \in 0..EntryCap
  BY ArpAssumption DEF Older, SentCap, EntryCap

\* Time only makes ages grow.
LEMMA TickStep == IInv /\ Tick => IInv'
<1> SUFFICES ASSUME IInv, Tick PROVE IInv'
  OBVIOUS
<1>0. /\ TypeOK /\ FramesOK /\ Allocated /\ Control /\ Walked
      /\ OneRequestPerHop /\ NoWaitWithMapping /\ FlushOwned
      /\ UNCHANGED <<queue, created, lock, main, fates, fault>>
      /\ sweep' = [sweep EXCEPT !.slept = (sweep.pc = "sleep")]
  BY DEF IInv, Tick
<1>1. \A s \in Slot : /\ entries'[s].valid = entries[s].valid
                      /\ entries[s].valid => entries'[s].ip = entries[s].ip
  BY <1>0 DEF Tick, TypeOK, Mapping, Invalid
<1>2. /\ \A t \in Threads : Len(stack'[t]) = Len(stack[t])
      /\ \A t \in Threads : \A i \in 1..Len(stack[t]) :
           /\ stack'[t][i].req = stack[t][i].req /\ stack'[t][i].pc = stack[t][i].pc
           /\ stack'[t][i].k = stack[t][i].k /\ stack'[t][i] \in Frame
  <2> SUFFICES ASSUME NEW t \in Threads
               PROVE  /\ stack'[t] = [i \in 1..Len(stack[t]) |->
                                 [stack[t][i] EXCEPT !.age = Older(@, SentCap)]]
                      /\ Len(stack'[t]) = Len(stack[t])
                      /\ \A i \in 1..Len(stack[t]) :
                           /\ stack'[t][i].req = stack[t][i].req
                           /\ stack'[t][i].pc = stack[t][i].pc
                           /\ stack'[t][i].k = stack[t][i].k /\ stack'[t][i] \in Frame
    BY <1>0
  <2>1. stack[t] \in Seq(Frame) /\ Len(stack[t]) \in Nat
    BY <1>0 DEF TypeOK
  <2>2. \A i \in 1..Len(stack[t]) :
          [stack[t][i] EXCEPT !.age = Older(@, SentCap)] \in Frame
    <3>1. \A i \in 1..Len(stack[t]) : stack[t][i] \in Frame
      BY <2>1
    <3>2. \A f \in Frame : [f EXCEPT !.age = Older(@, SentCap)] \in Frame
      BY OlderType DEF Frame
    <3> QED BY <3>1, <3>2
  <2>3. stack'[t] = [i \in 1..Len(stack[t]) |->
                        [stack[t][i] EXCEPT !.age = Older(@, SentCap)]]
    BY DEF Tick
  <2>4. \A i \in 1..Len(stack[t]) : stack'[t][i] = [stack[t][i] EXCEPT !.age = Older(@, SentCap)]
    BY <2>3
  <2>5. stack'[t] \in Seq(Frame) /\ Len(stack'[t]) = Len(stack[t])
    BY <2>1, <2>2, <2>3
  <2>6. \A i \in 1..Len(stack[t]) : stack[t][i] \in Frame
    BY <2>1
  <2> QED BY <2>2, <2>3, <2>4, <2>5, <2>6 DEF Frame
<1>3. \A r \in Req : /\ heap'[r] \in Request
                     /\ heap'[r].pkts = heap[r].pkts /\ heap'[r].ip = heap[r].ip
                     /\ heap'[r].state = heap[r].state /\ heap'[r].gone = heap[r].gone
  <2> SUFFICES ASSUME NEW r \in Req
               PROVE  /\ heap'[r] \in Request
                      /\ heap'[r].pkts = heap[r].pkts /\ heap'[r].ip = heap[r].ip
                      /\ heap'[r].state = heap[r].state /\ heap'[r].gone = heap[r].gone
    OBVIOUS
  <2>1. heap[r] \in Request /\ heap'[r] = [heap[r] EXCEPT !.age = Older(@, SentCap)]
    BY <1>0 DEF Tick, TypeOK
  <2> QED BY <2>1, OlderType DEF Request
<1>4. TypeOK'
  <2>1. entries' \in [Slot -> Mapping \cup {Invalid}]
    <3> SUFFICES ASSUME NEW s \in Slot PROVE entries'[s] \in Mapping \cup {Invalid}
      BY <1>0 DEF Tick, TypeOK
    <3>1. CASE entries[s] \in Mapping
      BY <3>1, OlderType DEF Tick, Mapping
    <3>2. CASE entries[s] = Invalid
      BY <3>2 DEF Tick, Invalid
    <3> QED BY <1>0, <3>1, <3>2 DEF TypeOK
  <2>2. stack' \in [Threads -> Seq(Frame)]
    BY <1>0, <1>2 DEF Tick, TypeOK
  <2>3. sweep' \in Sweep
    BY <1>0 DEF TypeOK, Sweep
  <2>4. heap' \in [Req -> Request]
    BY <1>3 DEF Tick
  <2> QED BY <1>0, <2>4, <2>1, <2>2, <2>3 DEF TypeOK, fates
<1>5. \A h \in Hop \cup {NoHop} : Hit(h)' <=> Hit(h)
  BY <1>0, <1>1 DEF Hit, Mappings, TypeOK
<1>6. HeapGrows
  <2>1. \A r \in Req : Len(heap[r].pkts) \in Nat
    BY <1>0 DEF TypeOK, Request
  <2> QED BY <1>0, <1>3, <2>1 DEF HeapGrows, TypeOK
<1>7. FramesOK'
  <2>1. \A t \in Threads : \A i \in 1..Len(stack'[t]) :
          \E j \in 1..Len(stack[t]) : Same(stack'[t][i], stack[t][j])
    BY <1>2 DEF Same
  <2> QED BY <1>0, <1>4, <1>5, <1>6, <2>1, FramesKept
<1>8. Allocated' /\ OneRequestPerHop'
  BY <1>0, <1>3 DEF Allocated, OneRequestPerHop, TypeOK, Sweep
<1>12. NoWaitWithMapping'
  BY <1>0, <1>1, <1>3 DEF NoWaitWithMapping, Hit, Mappings, TypeOK
<1>9. Control'
  BY <1>0, <1>2, <1>5, ArpAssumption DEF Control, TypeOK, Sweep, Threads
<1>10. Walked'
  BY <1>0, <1>2, <1>3 DEF Walked, Walks
<1>11. FlushOwned'
  BY <1>0, <1>2, <1>3, SMTT(20) DEF FlushOwned, Control, TypeOK, Sweep
<1> QED BY <1>4, <1>12, <1>7, <1>8, <1>9, <1>10, <1>11 DEF IInv

\* A step of handle_arpreq that neither calls nor destroys: the calls stay on
\* the requests they were on, and the list, the cache and the lock are untouched.
LEMMA LocalStep ==
    ASSUME IInv, TypeOK', UNCHANGED <<entries, queue, created, lock, main, sweep>>,
           \A r \in Req : /\ heap'[r].pkts = heap[r].pkts /\ heap'[r].ip = heap[r].ip
                          /\ heap'[r].state = heap[r].state,
           FlushOwned /\ main.pc = "flush" => heap'[main.req].gone = heap[main.req].gone,
           \A t \in Threads : \A i \in 1..Len(stack'[t]) :
              /\ \E j \in 1..Len(stack[t]) : stack'[t][i].req = stack[t][j].req
              /\ \/ \E j \in 1..Len(stack[t]) : Same(stack'[t][i], stack[t][j])
                 \/ Fresh(stack'[t][i])
                 \/ FrameOK(stack[t][i])',
           Walked'
    PROVE  IInv'
<1>1. /\ TypeOK /\ FramesOK /\ Allocated /\ Control
      /\ OneRequestPerHop /\ NoWaitWithMapping /\ FlushOwned
  BY DEF IInv
<1>2. HeapGrows
  <2>1. \A r \in Req : Len(heap[r].pkts) \in Nat
    BY <1>1 DEF TypeOK, Request
  <2> QED BY <1>1, <2>1 DEF HeapGrows, TypeOK
<1>3. \A h \in Hop : Hit(h)' => Hit(h)
  BY DEF Hit, Mappings
<1>4. \A t \in Threads : \A i \in 1..Len(stack'[t]) : stack'[t][i].req <= created'
  BY <1>1 DEF FramesOK, FrameOK
<1>5. FramesOK'
  BY <1>1, <1>2, <1>3, <1>4, FramesKept
<1>6. \A t \in Threads : stack[t] = <<>> => stack'[t] = <<>>
  <2> SUFFICES ASSUME NEW t \in Threads, stack[t] = <<>> PROVE stack'[t] = <<>>
    OBVIOUS
  <2>1. stack'[t] \in Seq(Frame) /\ Len(stack'[t]) \in Nat
    BY DEF TypeOK
  <2>2. 1 \notin 1..Len(stack'[t])
    OBVIOUS
  <2> QED BY <2>1, <2>2
<1>7. Allocated' /\ OneRequestPerHop'
  <2>1. \A r \in Req : r <= created' => heap'[r].ip \in Hop
    BY <1>1, <1>2 DEF Allocated, HeapGrows
  <2> QED BY <1>1, <2>1 DEF Allocated, OneRequestPerHop, TypeOK
<1>8. NoWaitWithMapping'
  BY <1>1 DEF NoWaitWithMapping, Hit, Mappings, TypeOK
<1>9. Control'
  BY <1>1, <1>3, <1>6, ArpAssumption DEF Control, TypeOK, Threads
<1>10. FlushOwned'
  BY <1>1 DEF FlushOwned, Control
<1> QED BY <1>5, <1>7, <1>8, <1>9, <1>10 DEF IInv

\* Walks go on if no call leaves its walk and no packet is newly freed.
LEMMA WalksGoOn ==
    ASSUME Walked,
           \A r \in Req : heap'[r].state = heap[r].state /\ heap'[r].gone = heap[r].gone,
           \A t \in Threads : \A j \in 1..Len(stack[t]) :
              stack[t][j].pc \in {"walk", "queue", "free"} =>
                 \E i \in 1..Len(stack'[t]) : Walks(stack'[t][i], stack[t][j].req)
    PROVE  Walked'
BY DEF Walked, Walks

\* Facts about the call a step of handle_arpreq works on.
LEMMA TopFacts ==
    ASSUME IInv, NEW t \in Threads, Running(t)
    PROVE  /\ stack[t] # <<>> /\ Len(stack[t]) \in 1..Len(stack[t])
           /\ stack \in [Threads -> Seq(Frame)]
           /\ Top(t) = stack[t][Len(stack[t])]
           /\ Top(t) \in Frame /\ Top(t).req \in Req /\ FrameOK(Top(t))
           /\ heap[Top(t).req] \in Request
<1>1. stack[t] # <<>> /\ stack \in [Threads -> Seq(Frame)]
  BY DEF IInv, TypeOK, Running
<1>2. Top(t) \in Frame /\ Len(stack[t]) \in 1..Len(stack[t])
  BY <1>1, TopFrame
<1> QED BY <1>1, <1>2 DEF Top, IInv, FramesOK, TypeOK, Frame

\* The step moves the call on top of t's stack to f, which stays on its request
\* and in its walk; nothing else changes but one request's counters.
LEMMA MoveStep ==
    ASSUME IInv, NEW t \in Threads, Running(t), NEW f \in Frame, stack' = Goto(t, f),
           f.req = Top(t).req, Fresh(f) \/ FrameOK(f)',
           Top(t).pc \in {"walk", "queue", "free"} => f.pc \in {"walk", "queue", "free"},
           TypeOK', UNCHANGED <<entries, queue, created, lock, main, sweep>>,
           \A r \in Req : /\ heap'[r].pkts = heap[r].pkts /\ heap'[r].ip = heap[r].ip
                          /\ heap'[r].state = heap[r].state /\ heap'[r].gone = heap[r].gone
    PROVE  IInv'
<1>1. /\ \A u \in Threads : Len(stack'[u]) = Len(stack[u])
      /\ \A u \in Threads : \A i \in 1..Len(stack[u]) :
           stack'[u][i] = IF u = t /\ i = Len(stack[t]) THEN f ELSE stack[u][i]
  BY TopFacts, GotoStack
<1>2. \A u \in Threads : \A i \in 1..Len(stack'[u]) :
        /\ \E j \in 1..Len(stack[u]) : stack'[u][i].req = stack[u][j].req
        /\ \/ \E j \in 1..Len(stack[u]) : Same(stack'[u][i], stack[u][j])
           \/ Fresh(stack'[u][i])
           \/ FrameOK(stack[u][i])'
  <2> SUFFICES ASSUME NEW u \in Threads, NEW i \in 1..Len(stack[u])
               PROVE  /\ \E j \in 1..Len(stack[u]) : stack'[u][i].req = stack[u][j].req
                      /\ \/ \E j \in 1..Len(stack[u]) : Same(stack'[u][i], stack[u][j])
                         \/ Fresh(stack'[u][i])
                         \/ FrameOK(stack[u][i])'
    BY <1>1
  <2>1. CASE u = t /\ i = Len(stack[t])
    <3>1. stack'[u][i] = f /\ stack[u][i] = Top(t)
      BY <1>1, <2>1, TopFacts
    <3>2. Fresh(f) => Fresh(stack'[u][i])
      BY <3>1
    <3>3. FrameOK(f)' => FrameOK(stack[u][i])'
      BY <3>1 DEF FrameOK
    <3> QED BY <3>1, <3>2, <3>3
  <2>2. CASE ~(u = t /\ i = Len(stack[t]))
    BY <1>1, <2>2 DEF Same
  <2> QED BY <2>1, <2>2
<1>3. Walked'
  <2>1. \A u \in Threads : \A j \in 1..Len(stack[u]) :
          stack[u][j].pc \in {"walk", "queue", "free"} =>
             \E i \in 1..Len(stack'[u]) : Walks(stack'[u][i], stack[u][j].req)
    BY <1>1, TopFacts DEF Walks
  <2> QED BY <2>1, WalksGoOn DEF IInv
<1>4. FlushOwned /\ main.pc = "flush" => heap'[main.req].gone = heap[main.req].gone
  BY DEF IInv, Control
<1> QED BY <1>2, <1>3, <1>4, LocalStep

\* The step pops a call that is not in its walk.
LEMMA PopStep ==
    ASSUME IInv, NEW t \in Threads, Running(t), stack' = Return(t), Fresh(Top(t)),
           TypeOK', UNCHANGED <<entries, queue, created, lock, main, sweep>>,
           \A r \in Req : /\ heap'[r].pkts = heap[r].pkts /\ heap'[r].ip = heap[r].ip
                          /\ heap'[r].state = heap[r].state /\ heap'[r].gone = heap[r].gone
    PROVE  IInv'
<1>1. /\ \A u \in Threads :
           Len(stack'[u]) = IF u = t THEN Len(stack[t]) - 1 ELSE Len(stack[u])
      /\ \A u \in Threads : \A i \in 1..Len(stack'[u]) :
           i \in 1..Len(stack[u]) /\ stack'[u][i] = stack[u][i]
  BY TopFacts, ReturnStack
<1>2. \A u \in Threads : \A i \in 1..Len(stack'[u]) :
        /\ \E j \in 1..Len(stack[u]) : stack'[u][i].req = stack[u][j].req
        /\ \/ \E j \in 1..Len(stack[u]) : Same(stack'[u][i], stack[u][j])
           \/ Fresh(stack'[u][i])
           \/ FrameOK(stack[u][i])'
  BY <1>1 DEF Same
<1>3. Walked'
  <2>1. \A u \in Threads : \A j \in 1..Len(stack[u]) :
          stack[u][j].pc \in {"walk", "queue", "free"} =>
             \E i \in 1..Len(stack'[u]) : Walks(stack'[u][i], stack[u][j].req)
    <3> SUFFICES ASSUME NEW u \in Threads, NEW j \in 1..Len(stack[u]),
                        stack[u][j].pc \in {"walk", "queue", "free"}
                 PROVE  j \in 1..Len(stack'[u])
      BY <1>1 DEF Walks
    <3>1. ~(u = t /\ j = Len(stack[t]))
      BY TopFacts DEF Fresh
    <3> QED BY <1>1, <3>1, TopFacts
  <2> QED BY <2>1, WalksGoOn DEF IInv
<1>4. FlushOwned /\ main.pc = "flush" => heap'[main.req].gone = heap[main.req].gone
  BY DEF IInv, Control
<1> QED BY <1>2, <1>3, <1>4, LocalStep

\* Counting changes no other field of a request.
LEMMA RequestCounters ==
    ASSUME NEW r \in Request
    PROVE  /\ r.wire \in Nat /\ r.times \in Nat /\ r.age \in 0..SentCap
           /\ \A n \in Nat : [r EXCEPT !.wire = n] \in Request
           /\ \A n \in Nat : [r EXCEPT !.times = n] \in Request
           /\ \A a \in 0..SentCap : [r EXCEPT !.age = a] \in Request
BY DEF Request

\* An ARP request goes out.
LEMMA HandleSendStep == ASSUME IInv, NEW t \in Threads, HandleSend(t) PROVE IInv'
<1> DEFINE f == Top(t)
<1>1. /\ Running(t) /\ f.pc = "send" /\ stack' = Goto(t, [f EXCEPT !.pc = "store"])
      /\ heap' = [heap EXCEPT ![f.req].wire = @ + 1]
      /\ UNCHANGED <<entries, queue, created, lock, main, sweep, fates, fault>>
  BY DEF HandleSend, At
<1>2. PICK g \in Frame : g = [f EXCEPT !.pc = "store"]
  BY <1>1, TopFacts DEF Frame
<1>3. g.req = f.req /\ Fresh(g)
  BY <1>1, <1>2, TopFacts DEF Fresh, Frame
<1>4. heap' \in [Req -> Request]
  <2>1. [heap[f.req] EXCEPT !.wire = @ + 1] \in Request
    <3>1. PICK r \in Request : r = heap[f.req]
      BY <1>1, TopFacts
    <3>2. r.wire + 1 \in Nat
      BY RequestCounters
    <3> QED BY <3>1, <3>2, RequestCounters
  <2> QED BY <1>1, <2>1, TopFacts DEF IInv, TypeOK
<1>5. TypeOK'
  BY <1>1, <1>2, <1>4, TopFacts, GotoStack DEF IInv, TypeOK, fates
<1>6. \A r \in Req : /\ heap'[r].pkts = heap[r].pkts /\ heap'[r].ip = heap[r].ip
                     /\ heap'[r].state = heap[r].state /\ heap'[r].gone = heap[r].gone
  BY <1>1, TopFacts DEF IInv, TypeOK, Request
<1> QED BY <1>1, <1>2, <1>3, <1>5, <1>6, MoveStep

\* request->sent = now, and the load of times_sent++.
LEMMA HandleStoreStep == ASSUME IInv, NEW t \in Threads, HandleStore(t) PROVE IInv'
<1> DEFINE f == Top(t)
<1>1. /\ Running(t) /\ f.pc = "store"
      /\ stack' = Goto(t, [f EXCEPT !.pc = "count", !.n = heap[f.req].times])
      /\ heap' = [heap EXCEPT ![f.req].age = f.age]
      /\ UNCHANGED <<entries, queue, created, lock, main, sweep, fates, fault>>
  BY DEF HandleStore, At
<1>2. heap[f.req].times \in Nat /\ f.age \in 0..SentCap /\ f.req \in Req
  BY <1>1, TopFacts, RequestCounters DEF Frame
<1>3. PICK g \in Frame : g = [f EXCEPT !.pc = "count", !.n = heap[f.req].times]
  BY <1>1, <1>2, TopFacts DEF Frame
<1>4. g.req = f.req /\ Fresh(g)
  BY <1>1, <1>3, TopFacts DEF Fresh, Frame
<1>5. heap' \in [Req -> Request]
  <2>1. [heap[f.req] EXCEPT !.age = f.age] \in Request
    BY <1>1, <1>2, TopFacts, RequestCounters
  <2> QED BY <1>1, <2>1, TopFacts DEF IInv, TypeOK
<1>6. TypeOK'
  BY <1>1, <1>3, <1>5, TopFacts, GotoStack DEF IInv, TypeOK, fates
<1>7. \A r \in Req : /\ heap'[r].pkts = heap[r].pkts /\ heap'[r].ip = heap[r].ip
                     /\ heap'[r].state = heap[r].state /\ heap'[r].gone = heap[r].gone
  BY <1>1, <1>2 DEF IInv, TypeOK, Request
<1> QED BY <1>1, <1>3, <1>4, <1>6, <1>7, MoveStep

\* The store of times_sent++, after which handle_arpreq returns.
LEMMA HandleCountStep == ASSUME IInv, NEW t \in Threads, HandleCount(t) PROVE IInv'
<1> DEFINE f == Top(t)
<1>1. /\ Running(t) /\ f.pc = "count" /\ stack' = Return(t)
      /\ heap' = [heap EXCEPT ![f.req].times = f.n + 1]
      /\ UNCHANGED <<entries, queue, created, lock, main, sweep, fates, fault>>
  BY DEF HandleCount, At
<1>2. f.n + 1 \in Nat /\ f.req \in Req
  BY <1>1, TopFacts DEF Frame
<1>3. heap' \in [Req -> Request]
  <2>1. [heap[f.req] EXCEPT !.times = f.n + 1] \in Request
    BY <1>1, <1>2, TopFacts, RequestCounters
  <2> QED BY <1>1, <2>1, TopFacts DEF IInv, TypeOK
<1>4. TypeOK'
  BY <1>1, <1>3, TopFacts, ReturnStack DEF IInv, TypeOK, fates
<1>5. \A r \in Req : /\ heap'[r].pkts = heap[r].pkts /\ heap'[r].ip = heap[r].ip
                     /\ heap'[r].state = heap[r].state /\ heap'[r].gone = heap[r].gone
  BY <1>1, <1>2 DEF IInv, TypeOK, Request
<1> QED BY <1>1, <1>4, <1>5, PopStep DEF Fresh

\* Where a call goes after its check.
LEMMA CheckedFrame ==
    ASSUME NEW f \in Frame, NEW k \in Nat
    PROVE  /\ [f EXCEPT !.pc = "send", !.age = 0] \in Frame
           /\ [f EXCEPT !.pc = "walk", !.k = k, !.age = 0] \in Frame
<1>1. 0 \in 0..SentCap
  BY DEF SentCap
<1> QED BY <1>1 DEF Frame

\* The three ways out of the checks of sent and times_sent.
LEMMA HandleCheckStep == ASSUME IInv, NEW t \in Threads, HandleCheck(t) PROVE IInv'
<1> DEFINE f == Top(t)  r == heap[Top(t).req]
<1>1. /\ Running(t) /\ f.pc = "check"
      /\ UNCHANGED <<entries, queue, heap, created, lock, main, sweep, fates, fault>>
  BY DEF HandleCheck, At, cache
<1>2. \A x \in Req : /\ heap'[x].pkts = heap[x].pkts /\ heap'[x].ip = heap[x].ip
                     /\ heap'[x].state = heap[x].state /\ heap'[x].gone = heap[x].gone
  BY <1>1
<1>3. CASE stack' = Return(t)
  <2>1. TypeOK'
    BY <1>1, <1>3, TopFacts, ReturnStack DEF IInv, TypeOK, fates
  <2> QED BY <1>1, <1>2, <1>3, <2>1, PopStep DEF Fresh
<1>4. CASE stack' = Goto(t, [f EXCEPT !.pc = "send", !.age = 0])
  <2>1. PICK g \in Frame : g = [f EXCEPT !.pc = "send", !.age = 0]
    BY <1>1, TopFacts, CheckedFrame
  <2>2. g.req = f.req /\ Fresh(g)
    BY <1>1, <2>1, TopFacts DEF Fresh, Frame
  <2>3. TypeOK'
    BY <1>1, <1>4, <2>1, TopFacts, GotoStack DEF IInv, TypeOK, fates
  <2> QED BY <1>1, <1>2, <1>4, <2>1, <2>2, <2>3, MoveStep
<1>5. CASE stack' = Goto(t, [f EXCEPT !.pc = "walk", !.k = Len(r.pkts), !.age = 0])
  <2>1. Len(r.pkts) \in Nat
    BY <1>1, TopFacts DEF Request
  <2>2. PICK g \in Frame : g = [f EXCEPT !.pc = "walk", !.k = Len(r.pkts), !.age = 0]
    BY <1>1, <2>1, TopFacts, CheckedFrame
  <2>3. g.req = f.req /\ g.pc = "walk" /\ g.k = Len(heap[g.req].pkts)
    BY <1>1, <2>2, TopFacts DEF Frame
  <2>4. FrameOK(g)'
    BY <1>1, <2>1, <2>3, TopFacts DEF FrameOK
  <2>5. TypeOK'
    BY <1>1, <1>5, <2>2, TopFacts, GotoStack DEF IInv, TypeOK, fates
  <2> QED BY <1>1, <1>2, <1>5, <2>2, <2>3, <2>4, <2>5, MoveStep
<1> QED BY <1>3, <1>4, <1>5 DEF HandleCheck

\* send_icmp_msg up to the lookup of its gateway.
LEMMA WalkPacketStep == ASSUME IInv, NEW t \in Threads, WalkPacket(t) PROVE IInv'
<1> DEFINE f == Top(t)  p == heap[Top(t).req].pkts[Top(t).k]
<1>1. /\ Running(t) /\ f.pc = "walk" /\ f.k > 0
      /\ UNCHANGED <<entries, queue, heap, created, lock, main, sweep, accepted, forwarded, fault>>
  BY DEF WalkPacket, At, cache
<1>2. \A x \in Req : /\ heap'[x].pkts = heap[x].pkts /\ heap'[x].ip = heap[x].ip
                     /\ heap'[x].state = heap[x].state /\ heap'[x].gone = heap[x].gone
  BY <1>1
<1>3. f.k \in 1..Len(heap[f.req].pkts) /\ p \in Packet \cup {Icmp}
  <2>1. f.k \in Nat /\ f.k <= Len(heap[f.req].pkts)
    BY <1>1, TopFacts DEF FrameOK, Frame
  <2>2. heap[f.req].pkts \in Seq(Packet \cup {Icmp})
    BY <1>1, TopFacts DEF Request
  <2> QED BY <1>1, <2>1, <2>2
<1>4. SourceOf(p, f.req) \in Hop \cup {NoHop}
  <2>1. f.req \in Req /\ f.req <= created /\ Allocated
    BY <1>1, TopFacts DEF FrameOK, IInv
  <2>2. heap[f.req].ip \in Hop
    BY <2>1 DEF Allocated
  <2> QED BY <1>3, <2>2, ArpAssumption DEF SourceOf
<1>5. reported' \subseteq Packet
  BY DEF WalkPacket, IInv, TypeOK
<1>6. CASE stack' = Goto(t, [f EXCEPT !.pc = "free"])
  <2>1. PICK g \in Frame : g = [f EXCEPT !.pc = "free"]
    BY <1>1, TopFacts DEF Frame
  <2>2. g.req = f.req /\ g.pc = "free" /\ g.k = f.k
    BY <1>1, <2>1, TopFacts DEF Frame
  <2>3. FrameOK(g)'
    BY <1>1, <1>3, <2>2, TopFacts DEF FrameOK
  <2>4. TypeOK'
    BY <1>1, <1>5, <1>6, <2>1, TopFacts, GotoStack DEF IInv, TypeOK
  <2> QED BY <1>1, <1>2, <1>6, <2>1, <2>2, <2>3, <2>4, MoveStep
<1>7. CASE /\ stack' = Goto(t, [f EXCEPT !.pc = "queue"])
           /\ SourceOf(p, f.req) # NoHop /\ ~Hit(SourceOf(p, f.req))
  <2>1. PICK g \in Frame : g = [f EXCEPT !.pc = "queue"]
    BY <1>1, TopFacts DEF Frame
  <2>2. g.req = f.req /\ g.pc = "queue" /\ g.k = f.k
    BY <1>1, <2>1, TopFacts DEF Frame
  <2>3. FrameOK(g)
    BY <1>1, <1>3, <1>4, <1>7, <2>2, TopFacts DEF FrameOK
  <2>4. FrameOK(g)'
    BY <1>1, <2>3 DEF FrameOK, SourceOf, Hit, Mappings
  <2>5. TypeOK'
    BY <1>1, <1>5, <1>7, <2>1, TopFacts, GotoStack DEF IInv, TypeOK
  <2> QED BY <1>1, <1>2, <1>7, <2>1, <2>2, <2>4, <2>5, MoveStep
<1> QED BY <1>6, <1>7 DEF WalkPacket

\* A step that changes none of the variables IInv speaks of.
LEMMA SameState ==
    ASSUME IInv, TypeOK', UNCHANGED <<entries, queue, heap, created, lock, stack, main, sweep>>
    PROVE  IInv'
<1>1. FramesOK'
  <2>1. TypeOK /\ FramesOK /\ \A r \in Req : Len(heap[r].pkts) \in Nat
    BY DEF IInv, TypeOK, Request
  <2>2. HeapGrows
    BY <2>1 DEF HeapGrows, TypeOK
  <2>3. \A h \in Hop : Hit(h)' => Hit(h)
    BY DEF Hit, Mappings
  <2>4. \A t \in Threads : \A i \in 1..Len(stack'[t]) :
          \E j \in 1..Len(stack[t]) : Same(stack'[t][i], stack[t][j])
    BY DEF Same
  <2> QED BY <2>1, <2>2, <2>3, <2>4, FramesKept
<1>2. Allocated' /\ OneRequestPerHop' /\ NoWaitWithMapping'
  BY DEF IInv, Allocated, OneRequestPerHop, NoWaitWithMapping, Hit, Mappings
<1>3. Control' /\ Walked' /\ FlushOwned'
  BY DEF IInv, Control, Walked, Walks, FlushOwned, Hit, Mappings
<1> QED BY <1>1, <1>2, <1>3 DEF IInv

\* A memory error ends the run and changes nothing else.
LEMMA FailStep == ASSUME IInv, NEW kind \in Faults, Fail(kind) PROVE IInv'
<1>1. TypeOK'
  BY DEF Fail, cache, fates, IInv, TypeOK
<1> QED BY <1>1, SameState DEF Fail, cache

\* A use of freed memory is such an error, and so is a full stack.
LEMMA CrashStep ==
    ASSUME IInv, NEW t \in Threads, UseAfterFree(t) \/ StackOverflow(t)
    PROVE  IInv'
<1>1. Fail("use_after_free") \/ Fail("stack_overflow")
  BY DEF UseAfterFree, StackOverflow
<1> QED BY <1>1, FailStep DEF Faults

\* Freeing the packet a walk stands at leaves the walk in progress.
LEMMA WalkFreeStep == ASSUME IInv, NEW t \in Threads, WalkFree(t) PROVE IInv'
<1> DEFINE f == Top(t)
<1>1. CASE Fail("double_free")
  BY <1>1, FailStep DEF Faults
<1>2. CASE ~Freed(t)
  <2>1. /\ Running(t) /\ f.pc = "free" /\ heap[f.req].state # "freed"
        /\ heap' = [heap EXCEPT ![f.req].gone = @ \cup {f.k}]
        /\ stack' = Goto(t, [f EXCEPT !.pc = "walk", !.k = @ - 1])
        /\ UNCHANGED <<entries, queue, created, lock, main, sweep, fates, fault>>
    BY <1>2 DEF WalkFree, At, Freed
  <2>2. f.k \in 1..Len(heap[f.req].pkts) /\ f.k \in Nat /\ f.k - 1 \in Nat /\ f.req \in Req
    BY <2>1, TopFacts DEF FrameOK, Frame
  <2>3. PICK g \in Frame : g = [f EXCEPT !.pc = "walk", !.k = @ - 1]
    BY <2>1, <2>2, TopFacts DEF Frame
  <2>4. g.req = f.req /\ g.pc = "walk" /\ g.k = f.k - 1
    BY <2>1, <2>3, TopFacts DEF Frame
  <2>5. heap' \in [Req -> Request]
    <3>1. \A r \in Request : [r EXCEPT !.gone = @ \cup {f.k}] \in Request
      BY <2>2 DEF Request
    <3> QED BY <2>1, <2>2, <3>1 DEF IInv, TypeOK
  <2>6. TypeOK'
    BY <2>1, <2>3, <2>5, TopFacts, GotoStack DEF IInv, TypeOK, fates
  <2>7. \A r \in Req : /\ heap'[r].pkts = heap[r].pkts /\ heap'[r].ip = heap[r].ip
                       /\ heap'[r].state = heap[r].state
                       /\ r # f.req => heap'[r].gone = heap[r].gone
    BY <2>1, <2>2 DEF IInv, TypeOK, Request
  <2>8. /\ \A u \in Threads : Len(stack'[u]) = Len(stack[u])
        /\ \A u \in Threads : \A i \in 1..Len(stack[u]) :
             stack'[u][i] = IF u = t /\ i = Len(stack[t]) THEN g ELSE stack[u][i]
    BY <2>1, <2>3, TopFacts, GotoStack
  <2>9. FrameOK(g)'
    BY <2>1, <2>2, <2>4, <2>7, TopFacts DEF FrameOK
  <2>10. \A u \in Threads : \A i \in 1..Len(stack'[u]) :
           /\ \E j \in 1..Len(stack[u]) : stack'[u][i].req = stack[u][j].req
           /\ \/ \E j \in 1..Len(stack[u]) : Same(stack'[u][i], stack[u][j])
              \/ Fresh(stack'[u][i])
              \/ FrameOK(stack[u][i])'
    <3> SUFFICES ASSUME NEW u \in Threads, NEW i \in 1..Len(stack[u])
                 PROVE  /\ \E j \in 1..Len(stack[u]) : stack'[u][i].req = stack[u][j].req
                        /\ \/ \E j \in 1..Len(stack[u]) : Same(stack'[u][i], stack[u][j])
                           \/ Fresh(stack'[u][i])
                           \/ FrameOK(stack[u][i])'
      BY <2>8
    <3>1. CASE u = t /\ i = Len(stack[t])
      <4>1. stack'[u][i] = g /\ stack[u][i] = f
        BY <2>1, <2>8, <3>1, TopFacts
      <4>2. FrameOK(stack[u][i])'
        BY <2>9, <4>1 DEF FrameOK
      <4> QED BY <2>4, <4>1, <4>2
    <3>2. CASE ~(u = t /\ i = Len(stack[t]))
      BY <2>8, <3>2 DEF Same
    <3> QED BY <3>1, <3>2
  <2>11. Walked'
    <3> SUFFICES ASSUME NEW r \in Req, heap'[r].state = "live", heap'[r].gone # {}
                 PROVE  \E u \in Threads : \E i \in 1..Len(stack'[u]) : Walks(stack'[u][i], r)
      BY DEF Walked
    <3>1. CASE r = f.req
      <4>1. stack'[t][Len(stack[t])] = g /\ Len(stack[t]) \in 1..Len(stack'[t])
        BY <2>1, <2>8, TopFacts
      <4>2. Walks(g, r)
        BY <2>4, <3>1 DEF Walks
      <4> QED BY <4>1, <4>2
    <3>2. CASE r # f.req
      <4>1. PICK u \in Threads : \E j \in 1..Len(stack[u]) : Walks(stack[u][j], r)
        BY <2>7, <3>2 DEF IInv, Walked
      <4>2. PICK j \in 1..Len(stack[u]) : Walks(stack[u][j], r)
        BY <4>1
      <4>3. ~(u = t /\ j = Len(stack[t]))
        BY <2>1, <3>2, <4>2, TopFacts DEF Walks
      <4> QED BY <2>8, <4>2, <4>3
    <3> QED BY <3>1, <3>2
  <2>12. FlushOwned /\ main.pc = "flush" => heap'[main.req].gone = heap[main.req].gone
    <3>1. FlushOwned /\ main.pc = "flush" => main.req # f.req /\ main.req \in Req
      BY <2>1, TopFacts DEF FlushOwned, IInv, Control
    <3> QED BY <2>7, <3>1
  <2> QED BY <2>1, <2>6, <2>7, <2>10, <2>11, <2>12, LocalStep
<1> QED BY <1>1, <1>2 DEF WalkFree

\* Freeing a request unlinks it, so what is left on the list is live.
LEMMA DestroyHeap ==
    ASSUME TypeOK, OneRequestPerHop, NEW x \in Req, Destroy(x)
    PROVE  /\ heap' \in [Req -> Request] /\ queue' = queue \ {x} /\ queue' \in SUBSET Req
           /\ heap'[x].state = "freed"
           /\ \A r \in Req : /\ heap'[r].pkts = heap[r].pkts /\ heap'[r].ip = heap[r].ip
                             /\ heap'[r].gone = heap[r].gone
                             /\ r # x => heap'[r] = heap[r]
           /\ (created' = created => HeapGrows)
           /\ OneRequestPerHop'
<1>1. \A r \in Request :
        LET q == [r EXCEPT !.state = "freed", !.age = SentCap] IN
        /\ q \in Request /\ q.state = "freed"
        /\ q.pkts = r.pkts /\ q.ip = r.ip /\ q.gone = r.gone
  <2>1. SentCap \in 0..SentCap
    BY DEF SentCap
  <2>2. \A r \in Request, a \in 0..SentCap :
          LET q == [r EXCEPT !.state = "freed", !.age = a] IN
          /\ q \in Request /\ q.state = "freed"
          /\ q.pkts = r.pkts /\ q.ip = r.ip /\ q.gone = r.gone
    BY DEF Request
  <2> QED BY <2>1, <2>2
<1>2. heap' = [heap EXCEPT ![x] = [heap[x] EXCEPT !.state = "freed", !.age = SentCap]]
  BY DEF Destroy, TypeOK, Request
<1>3. heap \in [Req -> Request] /\ queue' = queue \ {x} /\ queue \in SUBSET Req
  BY DEF Destroy, TypeOK
<1>4. /\ heap' \in [Req -> Request] /\ heap'[x].state = "freed"
      /\ \A r \in Req : /\ heap'[r].pkts = heap[r].pkts /\ heap'[r].ip = heap[r].ip
                        /\ heap'[r].gone = heap[r].gone
                        /\ r # x => heap'[r] = heap[r]
  BY <1>1, <1>2, <1>3
<1>5. \A r \in Req : Len(heap[r].pkts) \in Nat
  BY <1>3 DEF Request
<1>6. created' = created => HeapGrows
  BY <1>4, <1>5 DEF HeapGrows, TypeOK
<1>7. OneRequestPerHop'
  BY <1>3, <1>4 DEF OneRequestPerHop
<1> QED BY <1>3, <1>4, <1>6, <1>7

\* Both outcomes of giving a request up: the process aborts, or goes on.
LEMMA WalkDestroyStep == ASSUME IInv, NEW t \in Threads, WalkDestroy(t) PROVE IInv'
<1> DEFINE x == Top(t).req
<1>1. CASE Fail("double_free")
  BY <1>1, FailStep DEF Faults
<1>2. CASE Destroy(x) /\ stack' = Return(t) /\ UNCHANGED <<entries, created, lock, main, sweep, fates, fault>>
  <2>1. Running(t) /\ x \in Req /\ created' = created
    BY <1>2, TopFacts DEF WalkDestroy, At
  <2>2. /\ TypeOK /\ FramesOK /\ Allocated /\ Control /\ Walked
        /\ OneRequestPerHop /\ NoWaitWithMapping /\ FlushOwned
    BY DEF IInv
  <2>3. /\ heap' \in [Req -> Request] /\ queue' = queue \ {x} /\ queue' \in SUBSET Req
        /\ heap'[x].state = "freed"
        /\ \A r \in Req : /\ heap'[r].pkts = heap[r].pkts /\ heap'[r].ip = heap[r].ip
                          /\ heap'[r].gone = heap[r].gone
                          /\ r # x => heap'[r] = heap[r]
        /\ HeapGrows /\ OneRequestPerHop'
    BY <1>2, <2>1, <2>2, DestroyHeap
  <2>4. /\ stack' \in [Threads -> Seq(Frame)]
        /\ \A u \in Threads :
             Len(stack'[u]) = IF u = t THEN Len(stack[t]) - 1 ELSE Len(stack[u])
        /\ \A u \in Threads : \A i \in 1..Len(stack'[u]) :
             i \in 1..Len(stack[u]) /\ stack'[u][i] = stack[u][i]
    BY <1>2, <2>1, TopFacts, ReturnStack
  <2>5. TypeOK'
    BY <1>2, <2>2, <2>3, <2>4 DEF TypeOK, fates
  <2>6. FramesOK'
    <3>1. \A u \in Threads : \A i \in 1..Len(stack'[u]) :
            \E j \in 1..Len(stack[u]) : Same(stack'[u][i], stack[u][j])
      BY <2>4 DEF Same
    <3>2. \A h \in Hop : Hit(h)' => Hit(h)
      BY <1>2 DEF Hit, Mappings
    <3> QED BY <2>2, <2>3, <2>5, <3>1, <3>2, FramesKept
  <2>7. Allocated' /\ NoWaitWithMapping'
    BY <1>2, <2>2, <2>3 DEF Allocated, NoWaitWithMapping, Hit, Mappings, TypeOK
  <2>8. Control'
    <3>1. \A u \in Threads : stack[u] = <<>> => stack'[u] = <<>>
      <4> SUFFICES ASSUME NEW u \in Threads, stack[u] = <<>> PROVE stack'[u] = <<>>
        OBVIOUS
      <4>1. u # t
        BY <2>1, TopFacts
      <4> QED BY <1>2, <2>2, <4>1 DEF Return, TypeOK
    <3>2. \A h \in Hop : Hit(h)' => Hit(h)
      BY <1>2 DEF Hit, Mappings
    <3> QED BY <1>2, <2>2, <3>1, <3>2, ArpAssumption DEF Control, Threads
  <2>9. Walked'
    <3> SUFFICES ASSUME NEW r \in Req, heap'[r].state = "live", heap'[r].gone # {}
                 PROVE  \E u \in Threads : \E i \in 1..Len(stack'[u]) : Walks(stack'[u][i], r)
      BY DEF Walked
    <3>1. r # x /\ heap[r].state = "live" /\ heap[r].gone # {}
      BY <2>3
    <3>2. PICK u \in Threads : \E j \in 1..Len(stack[u]) : Walks(stack[u][j], r)
      BY <2>2, <3>1 DEF Walked
    <3>3. PICK j \in 1..Len(stack[u]) : Walks(stack[u][j], r)
      BY <3>2
    <3>4. ~(u = t /\ j = Len(stack[t]))
      BY <2>1, <3>1, <3>3, TopFacts DEF Walks
    <3>5. j \in 1..Len(stack'[u])
      BY <2>1, <2>4, <3>4, TopFacts
    <3> QED BY <2>4, <3>3, <3>5
  <2>10. FlushOwned'
    <3> SUFFICES ASSUME main.pc = "flush" PROVE FlushOwned'
      BY <1>2 DEF FlushOwned
    <3>1. main.req \in Req /\ main.req # x
      BY <2>1, <2>2, TopFacts DEF Control, FlushOwned
    <3>2. /\ main' = main /\ sweep' = sweep
          /\ main.req \notin queue' /\ sweep.cur # main.req
          /\ heap'[main.req].state = "live" /\ heap'[main.req].gone = {}
      BY <1>2, <2>2, <2>3, <3>1 DEF FlushOwned
    <3>3. \A u \in Threads : \A i \in 1..Len(stack'[u]) : stack'[u][i].req # main.req
      BY <2>2, <2>4 DEF FlushOwned
    <3> QED BY <3>2, <3>3 DEF FlushOwned
  <2> QED BY <2>3, <2>5, <2>6, <2>7, <2>8, <2>9, <2>10 DEF IInv
<1> QED BY <1>1, <1>2 DEF WalkDestroy

\* A call that kept its request, and at most queued the message it had built.
Advanced(g, f) ==
    /\ g.req = f.req /\ g.k = f.k
    /\ g.pc = f.pc \/ (f.pc = "queue" /\ g.pc = "free")

\* Queueing packet p for h and calling handle_arpreq keeps every invariant but
\* Control, which the two callers establish.
LEMMA QueueStep ==
    ASSUME IInv, TypeOK', NEW h \in Hop, NEW p \in Packet \cup {Icmp}, ~Hit(h),
           Target(h) \in Req, QueueReq(h, p), UNCHANGED <<entries, lock, sweep>>,
           \A u \in Threads :
              /\ Len(stack[u]) <= Len(stack'[u])
              /\ \A i \in 1..Len(stack'[u]) :
                   IF i \in 1..Len(stack[u]) THEN Advanced(stack'[u][i], stack[u][i])
                                             ELSE stack'[u][i] = NewFrame(Target(h)),
           main' = main \/ (main'.pc = "idle" /\ main'.req = 0)
    PROVE  /\ FramesOK' /\ Allocated' /\ Walked'
           /\ OneRequestPerHop' /\ NoWaitWithMapping' /\ FlushOwned'
<1> DEFINE x == Target(h)
<1>1. /\ TypeOK /\ FramesOK /\ Allocated /\ Control /\ Walked
      /\ OneRequestPerHop /\ NoWaitWithMapping /\ FlushOwned
  BY DEF IInv
<1>2. /\ heap' \in [Req -> Request] /\ queue' = queue \cup {x}
      /\ created' \in 0..MaxReq /\ x <= created' /\ HeapGrows
      /\ x \in queue \/ x = created + 1
      /\ \A r \in Req : r # x => heap'[r] = heap[r]
      /\ heap'[x].state = "live" /\ heap'[x].ip = h
      /\ heap'[x].gone = IF x \in queue THEN heap[x].gone ELSE {}
      /\ \A r \in queue : heap[r].ip = h => r = x
  BY <1>1, QueueReqHeap
<1>3. OneRequestPerHop'
  BY <1>1, <1>2 DEF OneRequestPerHop, TypeOK
<1>4. NoWaitWithMapping'
  <2> SUFFICES ASSUME NEW r \in queue' PROVE ~Hit(heap[r].ip)'
    BY DEF NoWaitWithMapping
  <2>1. CASE r = x
    BY <1>2, <2>1 DEF Hit, Mappings
  <2>2. CASE r # x
    BY <1>1, <1>2, <2>2 DEF NoWaitWithMapping, Hit, Mappings, TypeOK
  <2> QED BY <2>1, <2>2
<1>5. Allocated'
  <2>1. ASSUME NEW r \in Req, r <= created' PROVE heap'[r].ip \in Hop
    <3>1. CASE r = x
      BY <1>2, <3>1
    <3>2. CASE r # x
      <4>1. created' = created \/ (created' = created + 1 /\ x = created + 1)
        BY DEF QueueReq, Target
      <4>2. created \in Nat /\ x \in Nat /\ r \in Nat
        BY <1>1 DEF TypeOK, Req
      <4>3. r <= created
        BY <2>1, <3>2, <4>1, <4>2
      <4> QED BY <1>1, <1>2, <3>2, <4>3 DEF Allocated
    <3> QED BY <3>1, <3>2
  <2>2. created <= created' /\ \A r \in queue' : r <= created'
    BY <1>1, <1>2 DEF Allocated, TypeOK, HeapGrows, Req
  <2> QED BY <1>1, <2>1, <2>2 DEF Allocated, TypeOK, Main, Sweep, Req
<1>6. FramesOK'
  <2>1. \A u \in Threads : \A i \in 1..Len(stack'[u]) :
          \/ \E j \in 1..Len(stack[u]) : Same(stack'[u][i], stack[u][j])
          \/ Fresh(stack'[u][i]) /\ stack'[u][i].req <= created'
          \/ FrameOK(stack[u][i])'
    <3> SUFFICES ASSUME NEW u \in Threads, NEW i \in 1..Len(stack'[u])
                 PROVE  \/ \E j \in 1..Len(stack[u]) : Same(stack'[u][i], stack[u][j])
                        \/ Fresh(stack'[u][i]) /\ stack'[u][i].req <= created'
                        \/ FrameOK(stack[u][i])'
      OBVIOUS
    <3>1. CASE i \notin 1..Len(stack[u])
      BY <1>2, <3>1 DEF NewFrame, Fresh
    <3>2. CASE i \in 1..Len(stack[u]) /\ stack'[u][i].pc = stack[u][i].pc
      BY <3>2 DEF Advanced, Same
    <3>3. CASE i \in 1..Len(stack[u]) /\ stack'[u][i].pc # stack[u][i].pc
      <4>1. PICK f \in Frame, g \in Frame : f = stack[u][i] /\ g = stack'[u][i]
        BY <1>1, <3>3 DEF TypeOK
      <4>2. f.req \in Req /\ FrameOK(f) /\ g.req = f.req /\ g.k = f.k /\ f.pc = "queue" /\ g.pc = "free"
        BY <1>1, <3>3, <4>1 DEF FramesOK, Advanced, Frame
      <4>3. /\ heap[f.req].pkts \in Seq(Packet \cup {Icmp})
            /\ heap'[f.req].pkts \in Seq(Packet \cup {Icmp})
        BY <1>1, <1>2, <4>2 DEF TypeOK, Request
      <4>4. g.req <= created' /\ g.k \in 1..Len(heap'[g.req].pkts)
        BY <1>1, <1>2, <4>2, <4>3 DEF FrameOK, HeapGrows, TypeOK, Req
      <4>5. FrameOK(g)'
        BY <4>2, <4>4 DEF FrameOK
      <4> QED BY <4>1, <4>5 DEF FrameOK
    <3> QED BY <3>1, <3>2, <3>3
  <2>2. \A k \in Hop : Hit(k)' => Hit(k)
    BY DEF Hit, Mappings
  <2> QED BY <1>1, <1>2, <2>1, <2>2, FramesKept
<1>7. Walked'
  <2> SUFFICES ASSUME NEW r \in Req, heap'[r].state = "live", heap'[r].gone # {}
               PROVE  \E u \in Threads : \E i \in 1..Len(stack'[u]) : Walks(stack'[u][i], r)
    BY DEF Walked
  <2>1. heap[r].state = "live" /\ heap[r].gone # {}
    BY <1>1, <1>2 DEF OneRequestPerHop
  <2>2. PICK u \in Threads : \E j \in 1..Len(stack[u]) : Walks(stack[u][j], r)
    BY <1>1, <2>1 DEF Walked
  <2>3. PICK j \in 1..Len(stack[u]) : Walks(stack[u][j], r)
    BY <2>2
  <2>4. j \in 1..Len(stack'[u]) /\ Advanced(stack'[u][j], stack[u][j])
    BY <1>1 DEF TypeOK
  <2> QED BY <2>3, <2>4 DEF Walks, Advanced
<1>8. FlushOwned'
  <2> SUFFICES ASSUME main.pc = "flush", main' = main PROVE FlushOwned'
    BY DEF FlushOwned
  <2>1. main.req \in Req /\ main.req # x
    BY <1>1, <1>2 DEF Control, FlushOwned, Allocated, TypeOK, Req
  <2>2. /\ main.req \notin queue' /\ sweep'.cur # main.req
        /\ heap'[main.req].state = "live" /\ heap'[main.req].gone = {}
    BY <1>1, <1>2, <2>1 DEF FlushOwned
  <2>3. ASSUME NEW u \in Threads, NEW i \in 1..Len(stack'[u])
        PROVE  stack'[u][i].req # main.req
    <3>1. CASE i \in 1..Len(stack[u])
      BY <1>1, <3>1 DEF FlushOwned, Advanced
    <3>2. CASE i \notin 1..Len(stack[u])
      BY <2>1, <3>2 DEF NewFrame
    <3> QED BY <3>1, <3>2
  <2> QED BY <2>2, <2>3 DEF FlushOwned
<1> QED BY <1>3, <1>4, <1>5, <1>6, <1>7, <1>8

\* main queues the packet of its missed lookup.
LEMMA QueuePacketStep == IInv /\ QueuePacket => IInv'
<1> SUFFICES ASSUME IInv, QueuePacket PROVE IInv'
  OBVIOUS
<1> DEFINE h == NextHop[main.pkt]
<1>1. /\ TypeOK /\ Control /\ Allocated /\ OneRequestPerHop /\ main.pc = "queue"
      /\ Target(h) \in Req /\ QueueReq(h, main.pkt) /\ stack' = Call("main", Target(h))
      /\ main' = Idle /\ UNCHANGED <<entries, lock, sweep, fates, fault>>
  BY DEF IInv, QueuePacket
<1>2. main.pkt \in Packet /\ h \in Hop /\ ~Hit(h) /\ stack["main"] = <<>>
  BY <1>1, ArpAssumption DEF Control
<1>3. PICK hop \in Hop, p \in Packet \cup {Icmp}, x \in Req :
         hop = h /\ p = main.pkt /\ x = Target(h)
  BY <1>1, <1>2
<1>4. /\ stack' \in [Threads -> Seq(Frame)]
      /\ \A u \in Threads :
           Len(stack'[u]) = IF u = "main" THEN Len(stack["main"]) + 1 ELSE Len(stack[u])
      /\ \A u \in Threads : \A i \in 1..Len(stack'[u]) :
           \/ i \in 1..Len(stack[u]) /\ stack'[u][i] = stack[u][i]
           \/ u = "main" /\ i = Len(stack["main"]) + 1 /\ stack'[u][i] = NewFrame(x)
  <2>1. stack \in [Threads -> Seq(Frame)] /\ "main" \in Threads /\ stack' = Call("main", x)
    BY <1>1, <1>3 DEF TypeOK, Threads
  <2> QED BY <2>1, CallStack
<1>5. TypeOK'
  <2>1. heap' \in [Req -> Request] /\ queue' \in SUBSET Req /\ created' \in 0..MaxReq
    BY <1>1, <1>2, QueueReqHeap
  <2>2. Idle \in Main
    BY ArpAssumption DEF Idle, Main
  <2> QED BY <1>1, <1>4, <2>1, <2>2 DEF TypeOK, fates
<1>6. /\ FramesOK' /\ Allocated' /\ Walked'
      /\ OneRequestPerHop' /\ NoWaitWithMapping' /\ FlushOwned'
  <2>1. \A u \in Threads :
          /\ Len(stack[u]) <= Len(stack'[u])
          /\ \A i \in 1..Len(stack'[u]) :
               IF i \in 1..Len(stack[u]) THEN Advanced(stack'[u][i], stack[u][i])
                                         ELSE stack'[u][i] = NewFrame(Target(h))
    BY <1>1, <1>3, <1>4 DEF TypeOK, Advanced
  <2>2. main'.pc = "idle" /\ main'.req = 0
    BY <1>1 DEF Idle
  <2> QED BY <1>1, <1>2, <1>5, <2>1, <2>2, QueueStep
<1>7. Control'
  <2>1. stack'["sweep"] = stack["sweep"]
    BY <1>1 DEF Call, TypeOK, Threads
  <2> QED BY <1>1, <2>1 DEF Control, Idle
<1> QED BY <1>5, <1>6, <1>7 DEF IInv

\* A walk queues the message it built and calls handle_arpreq again.
LEMMA WalkQueueStep == ASSUME IInv, NEW t \in Threads, WalkQueue(t) PROVE IInv'
<1> DEFINE f == Top(t)
           p == heap[Top(t).req].pkts[Top(t).k]
           h == SourceOf(heap[Top(t).req].pkts[Top(t).k], Top(t).req)
           n == Len(stack[t])
<1>1. /\ TypeOK /\ Control /\ Allocated /\ OneRequestPerHop
      /\ Running(t) /\ f.pc = "queue" /\ Target(h) \in Req /\ QueueReq(h, Icmp)
      /\ reported' = reported \cup ({p} \cap Packet)
      /\ stack' = [stack EXCEPT ![t] =
                     Append([stack[t] EXCEPT ![n] = [stack[t][n] EXCEPT !.pc = "free"]],
                            NewFrame(Target(h)))]
      /\ UNCHANGED <<entries, lock, main, sweep, accepted, forwarded, fault>>
  BY DEF IInv, WalkQueue, At, TypeOK
<1>2. h \in Hop /\ ~Hit(h) /\ f.k \in 1..Len(heap[f.req].pkts)
  BY <1>1, TopFacts DEF FrameOK
<1>3. reported' \subseteq Packet /\ stack[t] # <<>>
  BY <1>1, TopFacts DEF TypeOK
<1>4. PICK g \in Frame : g = [stack[t][n] EXCEPT !.pc = "free"]
  BY <1>1, TopFacts DEF Frame
<1>5. Advanced(g, stack[t][n])
  BY <1>1, <1>4, TopFacts DEF Advanced, Frame
<1>6. /\ stack[t] \in Seq(Frame) /\ n \in Nat /\ n \in 1..n
      /\ [stack[t] EXCEPT ![n] = g] \in Seq(Frame)
      /\ Len([stack[t] EXCEPT ![n] = g]) = n
      /\ \A i \in 1..n : [stack[t] EXCEPT ![n] = g][i] = IF i = n THEN g ELSE stack[t][i]
  BY <1>1, TopFacts
<1>7. NewFrame(Target(h)) \in Frame
  BY <1>1 DEF NewFrame, Frame, SentCap
<1>8. /\ stack'[t] \in Seq(Frame) /\ Len(stack'[t]) = n + 1
      /\ \A i \in 1..n : stack'[t][i] = IF i = n THEN g ELSE stack[t][i]
      /\ stack'[t][n + 1] = NewFrame(Target(h))
      /\ \A u \in Threads : u # t => stack'[u] = stack[u]
  BY <1>1, <1>4, <1>6, <1>7 DEF TypeOK
<1>9. stack' \in [Threads -> Seq(Frame)]
  BY <1>1, <1>8 DEF TypeOK
<1>10. TypeOK'
  <2>1. Icmp \in Packet \cup {Icmp}
    OBVIOUS
  <2>2. heap' \in [Req -> Request] /\ queue' \in SUBSET Req /\ created' \in 0..MaxReq
    BY <1>1, <1>2, <2>1, QueueReqHeap
  <2> QED BY <1>1, <1>3, <1>9, <2>2 DEF TypeOK
<1>11. /\ FramesOK' /\ Allocated' /\ Walked'
       /\ OneRequestPerHop' /\ NoWaitWithMapping' /\ FlushOwned'
  <2>1. \A u \in Threads :
          /\ Len(stack[u]) <= Len(stack'[u])
          /\ \A i \in 1..Len(stack'[u]) :
               IF i \in 1..Len(stack[u]) THEN Advanced(stack'[u][i], stack[u][i])
                                         ELSE stack'[u][i] = NewFrame(Target(h))
    <3> SUFFICES ASSUME NEW u \in Threads
                 PROVE  /\ Len(stack[u]) <= Len(stack'[u])
                        /\ \A i \in 1..Len(stack'[u]) :
                             IF i \in 1..Len(stack[u])
                             THEN Advanced(stack'[u][i], stack[u][i])
                             ELSE stack'[u][i] = NewFrame(Target(h))
      OBVIOUS
    <3>1. CASE u = t
      <4>1. \A i \in 1..n : Advanced(stack'[t][i], stack[t][i])
        BY <1>5, <1>8 DEF Advanced
      <4> QED BY <3>1, <4>1, <1>6, <1>8
    <3>2. CASE u # t
      <4>1. stack'[u] = stack[u] /\ Len(stack[u]) \in Nat
        BY <1>1, <1>8, <3>2 DEF TypeOK
      <4> QED BY <4>1 DEF Advanced
    <3> QED BY <3>1, <3>2
  <2>2. Icmp \in Packet \cup {Icmp}
    OBVIOUS
  <2> QED BY <1>1, <1>2, <1>10, <2>1, <2>2, QueueStep
<1>12. Control'
  <2>1. \A u \in Threads : stack[u] = <<>> => stack'[u] = <<>>
    BY <1>3, <1>8
  <2> QED BY <1>1, <2>1, ArpAssumption DEF Control, Threads, Hit, Mappings
<1> QED BY <1>10, <1>11, <1>12 DEF IInv

\* main looks the next hop of a packet up.
LEMMA ReceiveStep == ASSUME IInv, NEW p \in Packet, Receive(p) PROVE IInv'
<1>1. /\ TypeOK /\ Control /\ FlushOwned /\ MainIdle /\ main.pc = "idle"
      /\ UNCHANGED <<entries, queue, heap, created, lock, stack, sweep, reported, fault>>
  BY DEF IInv, Receive, cache, MainIdle
<1>2. CASE main' = main
  <2>1. TypeOK'
    BY <1>1, <1>2 DEF Receive, TypeOK
  <2> QED BY <1>1, <1>2, <2>1, SameState
<1>3. CASE ~Hit(NextHop[p]) /\ main' = [main EXCEPT !.pc = "queue", !.pkt = p]
  <2>1. /\ main' \in Main /\ main'.pc = "queue" /\ main'.pkt = p /\ main'.req = main.req
    BY <1>1, <1>3 DEF TypeOK, Main
  <2>2. TypeOK'
    BY <1>1, <1>3, <2>1 DEF Receive, TypeOK
  <2>3. FramesOK' /\ Walked' /\ OneRequestPerHop' /\ NoWaitWithMapping'
    <3>1. \A r \in Req : Len(heap[r].pkts) \in Nat
      BY <1>1 DEF TypeOK, Request
    <3>2. HeapGrows
      BY <1>1, <3>1 DEF HeapGrows, TypeOK
    <3>3. \A t \in Threads : \A i \in 1..Len(stack'[t]) :
            \E j \in 1..Len(stack[t]) : Same(stack'[t][i], stack[t][j])
      BY <1>1 DEF Same
    <3>4. \A h \in Hop : Hit(h)' => Hit(h)
      BY <1>1 DEF Hit, Mappings
    <3>5. FramesOK'
      BY <1>1, <2>2, <3>2, <3>3, <3>4, FramesKept DEF IInv
    <3> QED BY <1>1, <3>5 DEF IInv, Walked, Walks, OneRequestPerHop, NoWaitWithMapping, Hit, Mappings
  <2>4. Allocated' /\ FlushOwned'
    BY <1>1, <2>1 DEF IInv, Allocated, FlushOwned
  <2>5. Control'
    BY <1>1, <1>3, <2>1 DEF Control, MainIdle, Hit, Mappings
  <2> QED BY <2>2, <2>3, <2>4, <2>5 DEF IInv
<1> QED BY <1>2, <1>3 DEF Receive

\* main sends one packet of the request it flushes.
LEMMA FlushSendStep == IInv /\ FlushSend => IInv'
<1> SUFFICES ASSUME IInv, FlushSend PROVE IInv'
  OBVIOUS
<1>1. /\ TypeOK /\ Control /\ main.pc = "flush" /\ main.k > 0
      /\ forwarded' \subseteq Packet /\ main' = [main EXCEPT !.k = @ - 1]
      /\ UNCHANGED <<entries, queue, heap, created, lock, stack, sweep, accepted, reported, fault>>
  BY DEF IInv, FlushSend, cache, TypeOK
<1>2. main' \in Main /\ main'.pc = main.pc /\ main'.req = main.req /\ main'.pkt = main.pkt
  <2>1. main \in Main /\ main.k \in Nat
    BY <1>1 DEF TypeOK, Main
  <2>2. PICK k \in Nat : k = main.k - 1
    BY <1>1, <2>1
  <2> QED BY <1>1, <2>1, <2>2 DEF Main
<1>3. TypeOK'
  BY <1>1, <1>2 DEF TypeOK
<1>4. FramesOK'
  <2>1. \A r \in Req : Len(heap[r].pkts) \in Nat
    BY <1>1 DEF TypeOK, Request
  <2>2. HeapGrows
    BY <1>1, <2>1 DEF HeapGrows, TypeOK
  <2>3. \A t \in Threads : \A i \in 1..Len(stack'[t]) :
          \E j \in 1..Len(stack[t]) : Same(stack'[t][i], stack[t][j])
    BY <1>1 DEF Same
  <2>4. \A h \in Hop : Hit(h)' => Hit(h)
    BY <1>1 DEF Hit, Mappings
  <2> QED BY <1>1, <1>3, <2>2, <2>3, <2>4, FramesKept DEF IInv
<1>5. Walked' /\ OneRequestPerHop' /\ NoWaitWithMapping'
  BY <1>1 DEF IInv, Walked, Walks, OneRequestPerHop, NoWaitWithMapping, Hit, Mappings
<1>6. Allocated' /\ Control' /\ FlushOwned'
  BY <1>1, <1>2 DEF IInv, Allocated, Control, FlushOwned, Hit, Mappings
<1> QED BY <1>3, <1>4, <1>5, <1>6 DEF IInv

\* sr_arpreq_destroy of the flushed request, which nothing else refers to.
LEMMA FlushDestroyStep == IInv /\ FlushDestroy => IInv'
<1> SUFFICES ASSUME IInv, FlushDestroy PROVE IInv'
  OBVIOUS
<1> DEFINE x == main.req
<1>1. /\ TypeOK /\ FramesOK /\ Allocated /\ Control /\ Walked
      /\ OneRequestPerHop /\ NoWaitWithMapping
      /\ main.pc = "flush" /\ Destroy(x) /\ main' = Idle
      /\ UNCHANGED <<entries, created, lock, stack, sweep, fates, fault>>
  BY DEF IInv, FlushDestroy
<1>2. x \in Req /\ stack["main"] = <<>>
  BY <1>1 DEF Control
<1>3. /\ heap' \in [Req -> Request] /\ queue' = queue \ {x} /\ queue' \in SUBSET Req
      /\ heap'[x].state = "freed"
      /\ \A r \in Req : heap'[r].ip = heap[r].ip /\ (r # x => heap'[r] = heap[r])
      /\ HeapGrows /\ OneRequestPerHop'
  BY <1>1, <1>2, DestroyHeap
<1>4. /\ main' \in Main /\ main'.pc = "idle" /\ main'.req = 0
  BY <1>1, ArpAssumption DEF Idle, Main
<1>5. TypeOK'
  BY <1>1, <1>3, <1>4 DEF TypeOK, fates
<1>6. FramesOK'
  <2>1. \A t \in Threads : \A i \in 1..Len(stack'[t]) :
          \E j \in 1..Len(stack[t]) : Same(stack'[t][i], stack[t][j])
    BY <1>1 DEF Same
  <2>2. \A h \in Hop : Hit(h)' => Hit(h)
    BY <1>1 DEF Hit, Mappings
  <2> QED BY <1>1, <1>3, <1>5, <2>1, <2>2, FramesKept
<1>7. Allocated' /\ NoWaitWithMapping'
  BY <1>1, <1>3, <1>4 DEF Allocated, NoWaitWithMapping, Hit, Mappings, TypeOK
<1>8. Control' /\ FlushOwned'
  BY <1>1, <1>4 DEF Control, FlushOwned
<1>9. Walked'
  BY <1>1, <1>3 DEF Walked, Walks
<1> QED BY <1>3, <1>5, <1>6, <1>7, <1>8, <1>9 DEF IInv

\* sr_arpcache_insert finds no call in progress: main is idle and the sweeper
\* sleeps, so the request it unlinks for main is intact and main's alone.
LEMMA LearnStep == ASSUME IInv, NEW h \in Hop, NEW m \in Mac, Learn(h, m) PROVE IInv'
<1> DEFINE x == Target(h)
<1>1. /\ TypeOK /\ Allocated /\ Control /\ Walked
      /\ OneRequestPerHop /\ NoWaitWithMapping
      /\ main.pc = "idle" /\ stack["main"] = <<>> /\ lock \in {"free", "main"}
      /\ UNCHANGED <<heap, created, lock, stack, sweep, fates, fault>>
  BY DEF IInv, Learn, MainIdle, CanLock
<1>2. sweep.pc = "sleep" /\ sweep.cur = 0 /\ stack["sweep"] = <<>>
  BY <1>1 DEF Control, TypeOK, Sweep
<1>3. \A t \in Threads : Len(stack[t]) = 0
  BY <1>1, <1>2 DEF Threads
<1>4. PICK s : entries' = IF FreeSlots = {} THEN entries
               ELSE [entries EXCEPT ![s] = [valid |-> TRUE, ip |-> h, mac |-> m, age |-> 0]]
  BY DEF Learn
<1>5. /\ entries' \in [Slot -> Mapping \cup {Invalid}]
      /\ \A ip \in Hop \ {h} : Hit(ip)' => Hit(ip)
  <2> DEFINE e == [valid |-> TRUE, ip |-> h, mac |-> m, age |-> 0]
  <2>1. e \in Mapping
    BY ArpAssumption DEF Mapping, EntryCap
  <2>2. e.ip = h
    OBVIOUS
  <2> HIDE DEF e
  <2>3. CASE entries' = entries
    BY <1>1, <2>3 DEF TypeOK, Hit, Mappings
  <2>4. CASE s \in Slot /\ entries' = [entries EXCEPT ![s] = e]
    BY <1>1, <2>1, <2>2, <2>4 DEF TypeOK, Hit, Mappings
  <2>5. CASE s \notin Slot /\ entries' = [entries EXCEPT ![s] = e]
    <3>1. entries' = entries
      BY <1>1, <2>5 DEF TypeOK
    <3> QED BY <2>3, <3>1
  <2> QED BY <1>4, <2>3, <2>4, <2>5 DEF e
<1>6. FramesOK' /\ Walked'
  <2>1. FramesOK'
    BY <1>1, <1>3 DEF FramesOK
  <2> QED BY <1>1, <2>1 DEF Walked, Walks
<1>7. CASE Waiting(h) = {} /\ UNCHANGED <<queue, main>>
  <2>1. TypeOK'
    BY <1>1, <1>5, <1>7 DEF TypeOK, fates
  <2>2. NoWaitWithMapping'
    <3> SUFFICES ASSUME NEW r \in queue PROVE ~Hit(heap[r].ip)'
      BY <1>7 DEF NoWaitWithMapping
    <3>1. r \in Req /\ heap[r].ip # h /\ ~Hit(heap[r].ip)
      BY <1>1, <1>7 DEF Waiting, TypeOK, NoWaitWithMapping
    <3> QED BY <1>1, <1>4, <3>1 DEF Hit, Mappings, TypeOK
  <2>3. Allocated' /\ Control' /\ OneRequestPerHop' /\ FlushOwned'
    BY <1>1, <1>2, <1>7 DEF Allocated, Control, OneRequestPerHop, FlushOwned
  <2> QED BY <1>6, <2>1, <2>2, <2>3 DEF IInv
<1>8. CASE Waiting(h) # {} /\ main' = FlushOf(x) /\ queue' = queue \ {x}
  <2>1. /\ x \in queue /\ x \in Req /\ heap[x].ip = h /\ heap[x].state = "live"
        /\ \A r \in queue : heap[r].ip = h => r = x
    BY <1>1, <1>8 DEF Target, Waiting, OneRequestPerHop, TypeOK
  <2>2. heap[x].gone = {}
    BY <1>1, <1>3, <2>1 DEF Walked
  <2>3. main' \in Main /\ main'.pc = "flush" /\ main'.req = x
    <3>1. main \in Main /\ x \in 0..MaxReq /\ Len(heap[x].pkts) \in Nat
      BY <1>1, <2>1 DEF TypeOK, Request, Req
    <3> QED BY <1>8, <3>1 DEF FlushOf, Main
  <2>4. TypeOK'
    BY <1>1, <1>5, <1>8, <2>3 DEF TypeOK, fates
  <2>5. NoWaitWithMapping'
    <3> SUFFICES ASSUME NEW r \in queue, r # x PROVE ~Hit(heap[r].ip)'
      BY <1>8 DEF NoWaitWithMapping
    <3>1. r \in Req /\ heap[r].ip # h /\ ~Hit(heap[r].ip)
      BY <1>1, <2>1 DEF TypeOK, NoWaitWithMapping
    <3> QED BY <1>1, <1>4, <3>1 DEF Hit, Mappings, TypeOK
  <2>6. Allocated' /\ Control' /\ OneRequestPerHop'
    BY <1>1, <1>2, <1>8, <2>1, <2>3 DEF Allocated, Control, OneRequestPerHop, TypeOK
  <2>7. FlushOwned'
    BY <1>1, <1>2, <1>3, <1>8, <2>1, <2>2, <2>3 DEF FlushOwned, Req
  <2> QED BY <1>6, <2>4, <2>5, <2>6, <2>7 DEF IInv
<1> QED BY <1>7, <1>8 DEF Learn, Unlink

\* The head of the list, or NULL: Newest chooses a request whenever there is one.
LEMMA NewestOf ==
    ASSUME NEW Q \in SUBSET Req
    PROVE  /\ Newest(Q) \in Q \cup {0} /\ (Newest(Q) = 0 <=> Q = {})
           /\ \A y \in Q : y <= Newest(Q)
<1>0. 0 \notin Q
  BY DEF Req
<1> SUFFICES ASSUME Q # {} PROVE \E x \in Q : \A y \in Q : y <= x
  BY <1>0 DEF Newest
<1> DEFINE T    == {MaxReq - x : x \in Q}
           Less == {ss \in Nat \X Nat : ss[1] < ss[2]}
<1>1. \A x \in Q : MaxReq - x \in Nat
  BY ArpAssumption DEF Req
<1>2. T \subseteq Nat /\ T # {}
  BY <1>1
<1>3. PICK n \in T : \A m \in T : <<m, n>> \notin Less
  <2>1. IsWellFoundedOn(Less, Nat)
    BY NatLessThanWellFounded, Zenon DEF OpToRel
  <2> HIDE DEF T, Less
  <2> QED BY <1>2, <2>1, WFMin
<1>4. \A m \in T : ~(m < n)
  BY <1>2, <1>3
<1>5. PICK x \in Q : n = MaxReq - x
  BY <1>3
<1>6. \A y \in Q : ~(MaxReq - y < MaxReq - x)
  BY <1>4, <1>5
<1> QED BY <1>6, ArpAssumption DEF Req

\* Expiring entries and starting a sweep.
LEMMA SweepWakeStep == IInv /\ SweepWake => IInv'
<1> SUFFICES ASSUME IInv, SweepWake PROVE IInv'
  OBVIOUS
<1>1. /\ TypeOK /\ FramesOK /\ Allocated /\ Control /\ Walked
      /\ OneRequestPerHop /\ NoWaitWithMapping /\ FlushOwned
      /\ sweep.pc = "sleep" /\ lock' = "sweep"
      /\ entries' = [s \in Slot |-> IF Expired(s) THEN Invalid ELSE entries[s]]
      /\ sweep' = [pc |-> "sweep", cur |-> Newest(queue), slept |-> FALSE]
      /\ UNCHANGED <<queue, heap, created, stack, main, fates, fault>>
  BY DEF IInv, SweepWake
<1>2. Newest(queue) \in queue \cup {0}
  BY <1>1, NewestOf DEF TypeOK
<1>3. /\ entries' \in [Slot -> Mapping \cup {Invalid}]
      /\ \A s \in Slot : entries'[s].valid => entries'[s] = entries[s]
  BY <1>1 DEF TypeOK, Invalid
<1>4. sweep' \in Sweep /\ sweep'.pc = "sweep" /\ sweep'.cur \in queue \cup {0}
  <2>1. PICK c \in queue \cup {0} : c = Newest(queue)
    BY <1>2
  <2>2. c \in 0..MaxReq
    BY <1>1, ArpAssumption DEF TypeOK, Req
  <2> QED BY <1>1, <2>1, <2>2 DEF Sweep
<1>5. TypeOK'
  BY <1>1, <1>3, <1>4 DEF TypeOK, fates
<1>6. \A h : Hit(h)' => Hit(h)
  BY <1>3 DEF Hit, Mappings
<1>7. FramesOK'
  <2>1. \A r \in Req : Len(heap[r].pkts) \in Nat
    BY <1>1 DEF TypeOK, Request
  <2>2. HeapGrows
    BY <1>1, <2>1 DEF HeapGrows, TypeOK
  <2>3. \A t \in Threads : \A i \in 1..Len(stack'[t]) :
          \E j \in 1..Len(stack[t]) : Same(stack'[t][i], stack[t][j])
    BY <1>1 DEF Same
  <2> QED BY <1>1, <1>5, <1>6, <2>2, <2>3, FramesKept
<1>8. Allocated' /\ Walked' /\ OneRequestPerHop'
  BY <1>1, <1>4 DEF Allocated, Walked, Walks, OneRequestPerHop, TypeOK
<1>9. NoWaitWithMapping'
  BY <1>1, <1>3 DEF NoWaitWithMapping, Hit, Mappings
<1>10. Control'
  BY <1>1, <1>3, <1>4 DEF Control, Hit, Mappings
<1>11. FlushOwned'
  BY <1>1, <1>4 DEF FlushOwned, Control, Req
<1> QED BY <1>5, <1>7, <1>8, <1>9, <1>10, <1>11 DEF IInv

\* The sweep calls handle_arpreq and moves to the next request.
LEMMA SweepRequestStep == IInv /\ SweepRequest => IInv'
<1> SUFFICES ASSUME IInv, SweepRequest PROVE IInv'
  OBVIOUS
<1> DEFINE r == sweep.cur  Q == {x \in queue : x < sweep.cur}
<1>1. CASE Fail("use_after_free")
  BY <1>1, FailStep DEF Faults
<1>2. CASE /\ stack' = Call("sweep", r) /\ sweep' = [sweep EXCEPT !.cur = Newest(Q)]
           /\ UNCHANGED <<cache, lock, main, fates, fault>>
  <2>1. /\ TypeOK /\ FramesOK /\ Allocated /\ Control /\ Walked
        /\ OneRequestPerHop /\ NoWaitWithMapping /\ FlushOwned
        /\ sweep.pc = "sweep" /\ r # 0
        /\ UNCHANGED <<entries, queue, heap, created, lock, main, fates, fault>>
    BY <1>2 DEF IInv, SweepRequest, cache
  <2>2. r \in Req /\ r <= created
    BY <2>1, ArpAssumption DEF TypeOK, Sweep, Req, Allocated
  <2>3. Newest(Q) \in queue \cup {0}
    BY <2>1, NewestOf DEF TypeOK
  <2>4. sweep' \in Sweep /\ sweep'.pc = "sweep" /\ sweep'.cur \in queue \cup {0}
    <3>1. PICK c \in queue \cup {0} : c = Newest(Q)
      BY <2>3
    <3>2. sweep \in Sweep /\ c \in 0..MaxReq
      BY <2>1, ArpAssumption DEF TypeOK, Req
    <3> QED BY <1>2, <2>1, <3>1, <3>2 DEF Sweep
  <2>5. PICK x \in Req : x = r
    BY <2>2
  <2>6. /\ stack' \in [Threads -> Seq(Frame)]
        /\ \A u \in Threads :
             Len(stack'[u]) = IF u = "sweep" THEN Len(stack["sweep"]) + 1 ELSE Len(stack[u])
        /\ \A u \in Threads : \A i \in 1..Len(stack'[u]) :
             \/ i \in 1..Len(stack[u]) /\ stack'[u][i] = stack[u][i]
             \/ u = "sweep" /\ i = Len(stack["sweep"]) + 1 /\ stack'[u][i] = NewFrame(x)
    <3>1. stack \in [Threads -> Seq(Frame)] /\ "sweep" \in Threads /\ stack' = Call("sweep", x)
      BY <1>2, <2>1, <2>5 DEF TypeOK, Threads
    <3> QED BY <3>1, CallStack
  <2>7. TypeOK'
    BY <2>1, <2>4, <2>6 DEF TypeOK, fates
  <2>8. FramesOK'
    <3>1. \A t \in Threads : \A i \in 1..Len(stack'[t]) :
            \/ \E j \in 1..Len(stack[t]) : Same(stack'[t][i], stack[t][j])
            \/ Fresh(stack'[t][i]) /\ stack'[t][i].req <= created'
      BY <2>1, <2>2, <2>5, <2>6 DEF Same, Fresh, NewFrame
    <3>2. \A k \in Req : Len(heap[k].pkts) \in Nat
      BY <2>1 DEF TypeOK, Request
    <3>3. HeapGrows
      BY <2>1, <3>2 DEF HeapGrows, TypeOK
    <3>4. \A h \in Hop : Hit(h)' => Hit(h)
      BY <2>1 DEF Hit, Mappings
    <3> QED BY <2>1, <2>7, <3>1, <3>3, <3>4, FramesKept
  <2>9. Allocated' /\ OneRequestPerHop' /\ NoWaitWithMapping'
    BY <2>1, <2>4 DEF Allocated, OneRequestPerHop, NoWaitWithMapping, Hit, Mappings, TypeOK
  <2>10. Control'
    <3>1. stack'["main"] = stack["main"]
      BY <1>2, <2>1 DEF Call, TypeOK, Threads
    <3> QED BY <2>1, <2>4, <3>1 DEF Control, Hit, Mappings
  <2>11. Walked'
    <3>1. \A t \in Threads : \A j \in 1..Len(stack[t]) :
            j \in 1..Len(stack'[t]) /\ stack'[t][j] = stack[t][j]
      BY <1>2, <2>1 DEF Call, TypeOK, Threads
    <3> QED BY <2>1, <3>1, WalksGoOn DEF Walks
  <2>12. FlushOwned'
    <3> SUFFICES ASSUME main.pc = "flush" PROVE FlushOwned'
      BY <2>1 DEF FlushOwned
    <3>1. /\ main.req \in Req /\ main.req \notin queue /\ x # main.req
          /\ heap[main.req].state = "live" /\ heap[main.req].gone = {}
      BY <2>1, <2>5 DEF Control, FlushOwned
    <3>2. \A t \in Threads : \A i \in 1..Len(stack'[t]) : stack'[t][i].req # main.req
      BY <2>1, <2>6, <3>1 DEF FlushOwned, NewFrame
    <3>3. sweep'.cur # main.req
      BY <2>4, <3>1 DEF Req
    <3> QED BY <2>1, <3>1, <3>2, <3>3 DEF FlushOwned
  <2> QED BY <2>7, <2>8, <2>9, <2>10, <2>11, <2>12 DEF IInv
<1> QED BY <1>1, <1>2 DEF SweepRequest

\* The sweep ends and releases the lock.
LEMMA SweepDoneStep == IInv /\ SweepDone => IInv'
<1> SUFFICES ASSUME IInv, SweepDone PROVE IInv'
  OBVIOUS
<1>1. /\ TypeOK /\ FramesOK /\ Allocated /\ Control /\ Walked
      /\ OneRequestPerHop /\ NoWaitWithMapping /\ FlushOwned
      /\ stack["sweep"] = <<>> /\ sweep.cur = 0 /\ lock' = "free"
      /\ sweep' = [sweep EXCEPT !.pc = "sleep"]
      /\ UNCHANGED <<entries, queue, heap, created, stack, main, fates, fault>>
  BY DEF IInv, SweepDone, cache
<1>2. sweep' \in Sweep /\ sweep'.pc = "sleep" /\ sweep'.cur = 0
  BY <1>1 DEF TypeOK, Sweep
<1>3. TypeOK'
  BY <1>1, <1>2 DEF TypeOK, fates
<1>4. FramesOK'
  <2>1. \A r \in Req : Len(heap[r].pkts) \in Nat
    BY <1>1 DEF TypeOK, Request
  <2>2. HeapGrows
    BY <1>1, <2>1 DEF HeapGrows, TypeOK
  <2>3. \A t \in Threads : \A i \in 1..Len(stack'[t]) :
          \E j \in 1..Len(stack[t]) : Same(stack'[t][i], stack[t][j])
    BY <1>1 DEF Same
  <2>4. \A h \in Hop : Hit(h)' => Hit(h)
    BY <1>1 DEF Hit, Mappings
  <2> QED BY <1>1, <1>3, <2>2, <2>3, <2>4, FramesKept
<1>5. Allocated' /\ Walked' /\ OneRequestPerHop' /\ NoWaitWithMapping'
  BY <1>1, <1>2 DEF Allocated, Walked, Walks, OneRequestPerHop, NoWaitWithMapping, Hit, Mappings
<1>6. Control' /\ FlushOwned'
  BY <1>1, <1>2 DEF Control, FlushOwned, Hit, Mappings
<1> QED BY <1>3, <1>4, <1>5, <1>6 DEF IInv

(***************************************************************************)
(* The theorems.                                                           *)
(***************************************************************************)
\* Every step of either thread preserves the invariant.
LEMMA Inductive == IInv /\ [Next]_vars => IInv'
<1> SUFFICES ASSUME IInv, [Next]_vars PROVE IInv'
  OBVIOUS
<1>1. CASE Tick
  BY <1>1, TickStep
<1>2. ASSUME NEW p \in Packet, Receive(p) PROVE IInv'
  BY <1>2, ReceiveStep
<1>3. ASSUME NEW h \in Hop, NEW m \in Mac, Learn(h, m) PROVE IInv'
  BY <1>3, LearnStep
<1>4. CASE QueuePacket \/ FlushSend \/ FlushDestroy
  BY <1>4, QueuePacketStep, FlushSendStep, FlushDestroyStep
<1>5. CASE SweepWake \/ SweepRequest \/ SweepDone
  BY <1>5, SweepWakeStep, SweepRequestStep, SweepDoneStep
<1>6. ASSUME NEW t \in Threads, HandleStep(t) PROVE IInv'
  BY <1>6, CrashStep, HandleCheckStep, HandleSendStep, HandleStoreStep, HandleCountStep,
     WalkPacketStep, WalkQueueStep, WalkFreeStep, WalkDestroyStep DEF HandleStep
<1>7. CASE UNCHANGED vars
  <2>1. TypeOK'
    BY <1>7 DEF vars, IInv, TypeOK
  <2> QED BY <1>7, <2>1, SameState DEF vars
<1> QED BY <1>1, <1>2, <1>3, <1>4, <1>5, <1>6, <1>7
        DEF Next, Arrival, MainStep, SweepStep, Stopped, Threads

\* The invariant holds in every reachable state.
THEOREM Invariant == Spec => []IInv
<1> QED BY InitIInv, Inductive, PTL DEF Spec

\* Every variable of the cache, the queue and the two threads has its type.
THEOREM TypeCorrect == Spec => []TypeOK
<1>1. IInv => TypeOK
  BY DEF IInv
<1> QED BY <1>1, Invariant, PTL

\* cache->requests holds live requests only, at most one per address, whatever
\* the packet loop does in handle_arpreq without the lock.
THEOREM ListConsistent == Spec => []OneRequestPerHop
<1>1. IInv => OneRequestPerHop
  BY DEF IInv
<1> QED BY <1>1, Invariant, PTL

\* No request waits for an address whose mapping is in the cache, although
\* looking up and queueing are two critical sections.
THEOREM NoStuckWait == Spec => []NoWaitWithMapping
<1>1. IInv => NoWaitWithMapping
  BY DEF IInv
<1> QED BY <1>1, Invariant, PTL

\* The request sr_arpcache_insert unlinks is main's alone while it is flushed:
\* no call of handle_arpreq, no list and no saved pointer reaches it.
THEOREM FlushExclusive == Spec => []FlushOwned
<1>1. IInv => FlushOwned
  BY DEF IInv
<1> QED BY <1>1, Invariant, PTL

(***************************************************************************)
(* Tries before a report.                                                  *)
(***************************************************************************)
\* A call that has sent an ARP request it has not counted yet, and how many of the
\* two threads have one for request r.
Sent(f)    == f.pc \in {"store", "count"}
GivingUp(f) == f.pc \in {"walk", "queue", "free"}
Pend(t, r) == IF \E i \in 1..Len(stack[t]) : Sent(stack[t][i]) /\ stack[t][i].req = r
              THEN 1 ELSE 0
Uncounted(r) == Pend("main", r) + Pend("sweep", r)

\* Only the walk calls handle_arpreq again, and has freed nothing yet when it does.
OuterFree == \A t \in Threads : \A i \in 1..Len(stack[t]) :
    i < Len(stack[t]) => stack[t][i].pc = "free"

\* times_sent may be behind what was sent (two threads can lose a count), never ahead:
\* neither in memory nor in what a call has loaded.
NeverAhead ==
    /\ \A r \in Req : heap[r].times + Uncounted(r) <= heap[r].wire
    /\ \A t \in Threads : \A i \in 1..Len(stack[t]) :
         stack[t][i].pc = "count" =>
            stack[t][i].n + Uncounted(stack[t][i].req) <= heap[stack[t][i].req].wire

Tries == OuterFree /\ NeverAhead /\ TriesBeforeReport

\* A call g of the next state that is f now, as far as counting goes.
Kept(g, f) == g.pc = f.pc /\ g.req = f.req /\ g.n = f.n

\* What Uncounted can be.
LEMMA PendBounds ==
    /\ \A t \in Threads, r \in Req : Pend(t, r) \in {0, 1}
    /\ \A r \in Req : Uncounted(r) \in Nat
BY DEF Pend, Uncounted, Threads

\* A thread has no more uncounted requests than before if its calls that have sent
\* were there before.
LEMMA PendShrinks ==
    ASSUME NEW t \in Threads, NEW r \in Req,
           \A i \in 1..Len(stack'[t]) :
              Sent(stack'[t][i]) /\ stack'[t][i].req = r =>
                 \E j \in 1..Len(stack[t]) : Sent(stack[t][j]) /\ stack[t][j].req = r
    PROVE  Pend(t, r)' <= Pend(t, r)
BY DEF Pend, Sent

\* A step that counts nothing: requests keep their counters or are new, and a call was
\* there before, has just begun, or gives up a request that was sent often enough.
LEMMA TriesStay ==
    ASSUME IInv, Tries, TypeOK', OuterFree',
           \A r \in Req :
              \/ heap'[r].times = heap[r].times /\ heap'[r].wire = heap[r].wire
              \/ heap'[r].times = 0 /\ heap'[r].wire = 0 /\ r > created,
           \A t \in Threads : \A i \in 1..Len(stack'[t]) :
              \/ \E j \in 1..Len(stack[t]) : Kept(stack'[t][i], stack[t][j])
              \/ stack'[t][i].pc \in {"check", "send"}
              \/ /\ GivingUp(stack'[t][i])
                 /\ heap'[stack'[t][i].req].wire >= MaxTries
    PROVE  Tries'
<1>1. TypeOK /\ FramesOK /\ NeverAhead /\ TriesBeforeReport
  BY DEF IInv, Tries
<1>2. \A t \in Threads, r \in Req : Pend(t, r)' <= Pend(t, r)
  <2> SUFFICES ASSUME NEW t \in Threads, NEW r \in Req PROVE Pend(t, r)' <= Pend(t, r)
    OBVIOUS
  <2>1. ASSUME NEW i \in 1..Len(stack'[t]), Sent(stack'[t][i]) /\ stack'[t][i].req = r
        PROVE  \E j \in 1..Len(stack[t]) : Sent(stack[t][j]) /\ stack[t][j].req = r
    BY <2>1 DEF Sent, GivingUp, Kept
  <2> QED BY <2>1, PendShrinks
<1>3. \A r \in Req : Uncounted(r)' <= Uncounted(r)
  <2>1. \A t \in Threads, r \in Req : Pend(t, r) \in Int /\ Pend(t, r)' \in Int
    BY DEF Pend
  <2> QED BY <1>2, <2>1 DEF Uncounted, Threads
<1>4. \A r \in Req : r > created => Uncounted(r) = 0
  <2> SUFFICES ASSUME NEW r \in Req, r > created, NEW t \in Threads,
                      NEW i \in 1..Len(stack[t])
               PROVE  stack[t][i].req # r
    BY DEF Uncounted, Pend, Threads
  <2>1. stack[t][i].req <= created
    BY <1>1 DEF FramesOK, FrameOK
  <2>2. stack[t][i] \in Frame /\ created \in Nat
    BY <1>1 DEF TypeOK
  <2>3. stack[t][i].req \in Nat
    BY <2>2 DEF Frame, Req
  <2> QED BY <2>1, <2>2, <2>3 DEF Req
<1>5. \A r \in Req : /\ heap[r].times \in Nat /\ heap[r].wire \in Nat
                     /\ heap'[r].times \in Nat /\ heap'[r].wire \in Nat
                     /\ Uncounted(r) \in Nat /\ Uncounted(r)' \in Nat
  <2>1. \A t \in Threads, r \in Req : Pend(t, r) \in {0, 1} /\ Pend(t, r)' \in {0, 1}
    BY DEF Pend
  <2>2. \A r \in Req : Uncounted(r) \in Nat /\ Uncounted(r)' \in Nat
    BY <2>1 DEF Uncounted, Threads
  <2> QED BY <1>1, <2>2 DEF TypeOK, Request
<1>6. \A r \in Req : heap'[r].times + Uncounted(r)' <= heap'[r].wire
  <2> SUFFICES ASSUME NEW r \in Req PROVE heap'[r].times + Uncounted(r)' <= heap'[r].wire
    OBVIOUS
  <2>1. heap[r].times + Uncounted(r) <= heap[r].wire
    BY <1>1 DEF NeverAhead
  <2> QED BY <2>1, <1>3, <1>4, <1>5
<1>7. ASSUME NEW t \in Threads, NEW i \in 1..Len(stack'[t]), stack'[t][i].pc = "count"
      PROVE  (stack[t][i].n + Uncounted(stack[t][i].req) <= heap[stack[t][i].req].wire)'
  <2>1. PICK j \in 1..Len(stack[t]) : Kept(stack'[t][i], stack[t][j])
    BY <1>7 DEF GivingUp
  <2>2. PICK f \in Frame, g \in Frame : f = stack[t][j] /\ g = stack'[t][i]
    BY <1>1 DEF TypeOK
  <2>3. g.req = f.req /\ g.n = f.n /\ f.pc = "count" /\ g.req \in Req /\ g.n \in Nat
    BY <1>7, <2>1, <2>2 DEF Kept, Frame
  <2>4. g.req <= created
    <3>1. FrameOK(stack[t][j])
      BY <1>1 DEF FramesOK
    <3>2. FrameOK(f)
      BY <2>2, <3>1
    <3> QED BY <2>3, <3>2 DEF FrameOK
  <2>5. g.n + Uncounted(g.req) <= heap[g.req].wire
    BY <1>1, <2>2, <2>3 DEF NeverAhead
  <2>6. heap'[g.req].wire = heap[g.req].wire
    <3>1. ~(g.req > created)
      <4>1. created \in Nat
        BY <1>1 DEF TypeOK
      <4>2. g.req \in Nat
        BY <2>3 DEF Req
      <4> HIDE DEF TypeOK
      <4> QED BY <2>4, <4>1, <4>2
    <3>2. g.req \in Req
      BY <2>3
    <3> QED BY <3>1, <3>2
  <2>7. g.n + Uncounted(g.req)' <= heap'[g.req].wire
    BY <2>3, <2>5, <2>6, <1>3, <1>5
  <2> QED BY <2>2, <2>7 DEF Uncounted, Pend
<1>8. ASSUME NEW t \in Threads, NEW i \in 1..Len(stack'[t]), GivingUp(stack'[t][i])
      PROVE  heap'[stack'[t][i].req].wire >= MaxTries
  <2> SUFFICES ASSUME NEW j \in 1..Len(stack[t]), Kept(stack'[t][i], stack[t][j])
               PROVE  heap'[stack'[t][i].req].wire >= MaxTries
    BY <1>8 DEF GivingUp
  <2>1. PICK f \in Frame, g \in Frame : f = stack[t][j] /\ g = stack'[t][i]
    BY <1>1 DEF TypeOK
  <2>2. g.req = f.req /\ GivingUp(f) /\ f.req \in Req /\ f.req <= created
    BY <1>1, <1>8, <2>1 DEF Kept, GivingUp, Frame, FramesOK, FrameOK
  <2>3. heap[f.req].wire >= MaxTries
    BY <1>1, <2>1, <2>2 DEF TriesBeforeReport, GivingUp
  <2>4. heap'[f.req].wire = heap[f.req].wire
    BY <2>2, <1>1 DEF TypeOK, Req
  <2> QED BY <2>1, <2>2, <2>3, <2>4
<1> QED BY <1>6, <1>7, <1>8 DEF Tries, NeverAhead, TriesBeforeReport, GivingUp

\* A step that moves the call on top of a thread's stack.
LEMMA GotoTries ==
    ASSUME IInv, Tries, TypeOK', NEW t \in Threads, Running(t), NEW f \in Frame,
           stack' = Goto(t, f), f.req = Top(t).req
    PROVE  /\ OuterFree'
           /\ \A u \in Threads : \A i \in 1..Len(stack'[u]) :
                \/ i \in 1..Len(stack[u]) /\ stack'[u][i] = stack[u][i] /\ ~(u = t /\ i = Len(stack[t]))
                \/ u = t /\ i = Len(stack[t]) /\ stack'[u][i] = f
<1>1. /\ \A u \in Threads : Len(stack'[u]) = Len(stack[u])
      /\ \A u \in Threads : \A i \in 1..Len(stack[u]) :
           stack'[u][i] = IF u = t /\ i = Len(stack[t]) THEN f ELSE stack[u][i]
  BY TopFacts, GotoStack
<1>2. OuterFree'
  BY <1>1 DEF OuterFree, Tries
<1> QED BY <1>1, <1>2

\* A step that pops the call on top of a thread's stack.
LEMMA ReturnTries ==
    ASSUME IInv, Tries, TypeOK', NEW t \in Threads, Running(t), stack' = Return(t)
    PROVE  /\ OuterFree'
           /\ \A u \in Threads : \A i \in 1..Len(stack'[u]) :
                /\ i \in 1..Len(stack[u]) /\ stack'[u][i] = stack[u][i]
                /\ u = t => i < Len(stack[t])
<1>1. /\ \A u \in Threads :
           Len(stack'[u]) = IF u = t THEN Len(stack[t]) - 1 ELSE Len(stack[u])
      /\ \A u \in Threads : \A i \in 1..Len(stack'[u]) :
           i \in 1..Len(stack[u]) /\ stack'[u][i] = stack[u][i]
  BY TopFacts, ReturnStack
<1>2. \A u \in Threads : Len(stack[u]) \in Nat
  BY DEF IInv, TypeOK
<1>3. \A u \in Threads : \A i \in 1..Len(stack'[u]) : u = t => i < Len(stack[t])
  BY <1>1, <1>2
<1>4. OuterFree'
  BY <1>1, <1>2 DEF OuterFree, Tries
<1> QED BY <1>1, <1>3, <1>4

\* The two ways on from the tests of sent and times_sent, and the one back.
LEMMA CheckTries ==
    ASSUME IInv, Tries, TypeOK', NEW t \in Threads, HandleCheck(t) PROVE Tries'
<1> DEFINE f == Top(t)  r == heap[Top(t).req]
<1>1. Running(t) /\ f.pc = "check" /\ heap' = heap /\ created' = created
  BY DEF HandleCheck, At, cache
<1>2. CASE stack' = Return(t)
  BY <1>1, <1>2, ReturnTries, TriesStay DEF Kept
<1>3. CASE stack' = Goto(t, [f EXCEPT !.pc = "send", !.age = 0])
  <2>1. PICK g \in Frame : g = [f EXCEPT !.pc = "send", !.age = 0]
    BY <1>1, TopFacts, CheckedFrame
  <2>2. g.req = f.req /\ g.pc = "send"
    BY <1>1, <2>1, TopFacts DEF Frame
  <2>3. stack' = Goto(t, g)
    BY <1>3, <2>1
  <2> QED BY <1>1, <2>2, <2>3, GotoTries, TriesStay DEF Kept
<1>4. CASE /\ GivesUp(r)
           /\ stack' = Goto(t, [f EXCEPT !.pc = "walk", !.k = Len(r.pkts), !.age = 0])
  <2>1. Len(r.pkts) \in Nat
    BY <1>1, TopFacts DEF Request
  <2>2. PICK g \in Frame : g = [f EXCEPT !.pc = "walk", !.k = Len(r.pkts), !.age = 0]
    BY <1>1, <2>1, TopFacts, CheckedFrame
  <2>3. g.req = f.req /\ g.pc = "walk" /\ f.req \in Req
    BY <1>1, <2>2, TopFacts DEF Frame
  <2>4. stack' = Goto(t, g)
    BY <1>4, <2>2
  <2>5. heap[f.req].wire >= MaxTries
    <3>1. r.times + Uncounted(f.req) <= r.wire /\ r.times >= MaxTries
      BY <1>4, <2>3 DEF GivesUp, Tries, NeverAhead
    <3>2. r.times \in Nat /\ r.wire \in Nat /\ Uncounted(f.req) \in Nat
      BY <1>1, <2>3, TopFacts, PendBounds DEF Request
    <3> QED BY <3>1, <3>2, ArpAssumption
  <2> QED BY <1>1, <2>3, <2>4, <2>5, GotoTries, TriesStay, SMTT(30) DEF Kept, GivingUp
<1> QED BY <1>2, <1>3, <1>4 DEF HandleCheck

\* When the counters of requests do not lower wire, and no count or loaded number is
\* ahead of it, the giving up goes on as it was.
LEMMA WireGrows ==
    ASSUME IInv, Tries, TypeOK', OuterFree', NeverAhead',
           \A r \in Req : heap[r].wire <= heap'[r].wire,
           \A t \in Threads : \A i \in 1..Len(stack'[t]) :
              GivingUp(stack'[t][i]) =>
                 \E j \in 1..Len(stack[t]) : stack'[t][i] = stack[t][j]
    PROVE  Tries'
<1> SUFFICES ASSUME NEW t \in Threads, NEW i \in 1..Len(stack'[t]), GivingUp(stack'[t][i])
             PROVE  heap'[stack'[t][i].req].wire >= MaxTries
  BY DEF Tries, TriesBeforeReport, GivingUp
<1>1. PICK j \in 1..Len(stack[t]) : stack'[t][i] = stack[t][j]
  OBVIOUS
<1>2. PICK f \in Frame : f = stack[t][j]
  BY DEF IInv, TypeOK
<1>3. f.req \in Req /\ heap[f.req].wire >= MaxTries
  BY <1>1, <1>2 DEF Tries, TriesBeforeReport, GivingUp, Frame
<1>4. heap[f.req].wire \in Nat /\ heap'[f.req].wire \in Nat
  BY <1>3 DEF IInv, TypeOK, Request
<1> QED BY <1>1, <1>2, <1>3, <1>4, ArpAssumption

\* An ARP request goes out: it is on the wire and not yet counted.
LEMMA SendTries ==
    ASSUME IInv, Tries, TypeOK', NEW t \in Threads, HandleSend(t) PROVE Tries'
<1> DEFINE f == Top(t)  q == Top(t).req
<1>1. /\ Running(t) /\ f.pc = "send" /\ stack' = Goto(t, [f EXCEPT !.pc = "store"])
      /\ heap' = [heap EXCEPT ![q].wire = @ + 1]
  BY DEF HandleSend, At
<1>2. PICK g \in Frame : g = [f EXCEPT !.pc = "store"]
  BY <1>1, TopFacts DEF Frame
<1>3. g.req = q /\ g.pc = "store" /\ q \in Req /\ stack' = Goto(t, g)
  BY <1>1, <1>2, TopFacts DEF Frame
<1>4. /\ OuterFree'
      /\ \A u \in Threads : \A i \in 1..Len(stack'[u]) :
           \/ i \in 1..Len(stack[u]) /\ stack'[u][i] = stack[u][i]
           \/ u = t /\ stack'[u][i] = g
  <2>1. Running(t) /\ g.req = Top(t).req /\ stack' = Goto(t, g)
    BY <1>1, <1>3
  <2> QED BY <2>1, GotoTries
<1>5. \A r \in Req : /\ heap[r].times \in Nat /\ heap[r].wire \in Nat
                     /\ heap'[r].times = heap[r].times
                     /\ heap'[r].wire = IF r = q THEN heap[r].wire + 1 ELSE heap[r].wire
  BY <1>1, <1>3, SMTT(30) DEF IInv, TypeOK, Request
<1>6. \A u \in Threads, r \in Req : Pend(u, r) \in {0, 1} /\ Pend(u, r)' \in {0, 1}
  BY DEF Pend
<1>7. \A u \in Threads, r \in Req : u # t \/ r # q => Pend(u, r)' <= Pend(u, r)
  <2> SUFFICES ASSUME NEW u \in Threads, NEW r \in Req, u # t \/ r # q
               PROVE  Pend(u, r)' <= Pend(u, r)
    OBVIOUS
  <2> QED BY <1>3, <1>4, PendShrinks
<1>8. \A r \in Req : Uncounted(r)' <= Uncounted(r) + (heap'[r].wire - heap[r].wire)
  <2> SUFFICES ASSUME NEW r \in Req
               PROVE  Uncounted(r)' <= Uncounted(r) + (heap'[r].wire - heap[r].wire)
    OBVIOUS
  <2>1. CASE r # q
    BY <1>5, <1>6, <1>7, <2>1 DEF Uncounted, Threads
  <2>2. CASE r = q
    BY <1>5, <1>6, <1>7, <2>2 DEF Uncounted, Threads
  <2> QED BY <2>1, <2>2
<1>9. \A r \in Req : Uncounted(r) \in Nat /\ Uncounted(r)' \in Nat
  <2>1. \A u \in Threads, r \in Req : Pend(u, r) \in Nat /\ Pend(u, r)' \in Nat
    BY <1>6
  <2>2. "main" \in Threads /\ "sweep" \in Threads
    BY DEF Threads
  <2> QED BY <2>1, <2>2 DEF Uncounted
<1>10. \A r \in Req : heap'[r].times + Uncounted(r)' <= heap'[r].wire
  <2>1. \A r \in Req : heap[r].times + Uncounted(r) <= heap[r].wire
    BY DEF Tries, NeverAhead
  <2> QED BY <2>1, <1>5, <1>8, <1>9
<1>11. ASSUME NEW u \in Threads, NEW i \in 1..Len(stack'[u]), stack'[u][i].pc = "count"
       PROVE  (stack[u][i].n + Uncounted(stack[u][i].req) <= heap[stack[u][i].req].wire)'
  <2>1. i \in 1..Len(stack[u]) /\ stack'[u][i] = stack[u][i]
    BY <1>3, <1>4, <1>11
  <2>2. PICK h \in Frame : h = stack[u][i]
    BY <2>1 DEF IInv, TypeOK
  <2>3. h.req \in Req /\ h.n \in Nat /\ h.n + Uncounted(h.req) <= heap[h.req].wire
    BY <1>11, <2>1, <2>2 DEF Tries, NeverAhead, Frame
  <2>4. h.n + Uncounted(h.req)' <= heap'[h.req].wire
    BY <2>3, <1>5, <1>8, <1>9
  <2> QED BY <2>1, <2>2, <2>4 DEF Uncounted, Pend
<1>12. NeverAhead'
  BY <1>10, <1>11 DEF NeverAhead
<1>13. \A u \in Threads : \A i \in 1..Len(stack'[u]) :
         GivingUp(stack'[u][i]) => \E j \in 1..Len(stack[u]) : stack'[u][i] = stack[u][j]
  BY <1>3, <1>4 DEF GivingUp
<1> QED BY <1>4, <1>5, <1>12, <1>13, WireGrows

\* times_sent is loaded: what is loaded is not ahead either.
LEMMA StoreTries ==
    ASSUME IInv, Tries, TypeOK', NEW t \in Threads, HandleStore(t) PROVE Tries'
<1> DEFINE f == Top(t)  q == Top(t).req
<1>1. /\ Running(t) /\ f.pc = "store"
      /\ stack' = Goto(t, [f EXCEPT !.pc = "count", !.n = heap[q].times])
      /\ heap' = [heap EXCEPT ![q].age = f.age]
  BY DEF HandleStore, At
<1>2. q \in Req /\ heap[q].times \in Nat
  BY <1>1, TopFacts DEF Frame, Request
<1>3. PICK g \in Frame : g = [f EXCEPT !.pc = "count", !.n = heap[q].times]
  BY <1>1, <1>2, TopFacts DEF Frame
<1>4. g.req = q /\ g.pc = "count" /\ g.n = heap[q].times /\ stack' = Goto(t, g)
  BY <1>1, <1>2, <1>3, TopFacts DEF Frame
<1>5. /\ OuterFree'
      /\ \A u \in Threads : \A i \in 1..Len(stack'[u]) :
           \/ i \in 1..Len(stack[u]) /\ stack'[u][i] = stack[u][i]
           \/ u = t /\ stack'[u][i] = g
  BY <1>1, <1>4, GotoTries
<1>6. \A r \in Req : /\ heap[r].times \in Nat /\ heap[r].wire \in Nat
                     /\ heap'[r].times = heap[r].times /\ heap'[r].wire = heap[r].wire
  BY <1>1, <1>2, SMTT(30) DEF IInv, TypeOK, Request
<1>7. \A u \in Threads, r \in Req : Pend(u, r) \in {0, 1} /\ Pend(u, r)' \in {0, 1}
  BY DEF Pend
<1>8. \A u \in Threads, r \in Req : Pend(u, r)' <= Pend(u, r)
  <2> SUFFICES ASSUME NEW u \in Threads, NEW r \in Req PROVE Pend(u, r)' <= Pend(u, r)
    OBVIOUS
  <2>1. Len(stack[t]) \in 1..Len(stack[t]) /\ Sent(stack[t][Len(stack[t])])
        /\ stack[t][Len(stack[t])].req = q
    BY <1>1, TopFacts DEF Sent
  <2>2. ASSUME NEW i \in 1..Len(stack'[u]), Sent(stack'[u][i]) /\ stack'[u][i].req = r
        PROVE  \E j \in 1..Len(stack[u]) : Sent(stack[u][j]) /\ stack[u][j].req = r
    BY <1>4, <1>5, <2>1, <2>2
  <2> QED BY <2>2, PendShrinks
<1>9. \A r \in Req : /\ Uncounted(r) \in Nat /\ Uncounted(r)' \in Nat
                     /\ Uncounted(r)' <= Uncounted(r)
  BY <1>7, <1>8 DEF Uncounted, Threads
<1>10. \A r \in Req : heap'[r].times + Uncounted(r)' <= heap'[r].wire
  <2>1. \A r \in Req : heap[r].times + Uncounted(r) <= heap[r].wire
    BY DEF Tries, NeverAhead
  <2> QED BY <2>1, <1>6, <1>9
<1>11. ASSUME NEW u \in Threads, NEW i \in 1..Len(stack'[u]), stack'[u][i].pc = "count"
       PROVE  (stack[u][i].n + Uncounted(stack[u][i].req) <= heap[stack[u][i].req].wire)'
  <2>1. CASE stack'[u][i] = g
    <3>1. g.n + Uncounted(g.req)' <= heap'[g.req].wire
      BY <1>2, <1>4, <1>6, <1>10
    <3> QED BY <2>1, <3>1 DEF Uncounted, Pend
  <2>2. CASE i \in 1..Len(stack[u]) /\ stack'[u][i] = stack[u][i]
    <3>1. PICK h \in Frame : h = stack[u][i]
      BY <2>2 DEF IInv, TypeOK
    <3>2. h.req \in Req /\ h.n \in Nat /\ h.n + Uncounted(h.req) <= heap[h.req].wire
      BY <1>11, <2>2, <3>1 DEF Tries, NeverAhead, Frame
    <3>3. h.n + Uncounted(h.req)' <= heap'[h.req].wire
      BY <3>2, <1>6, <1>9
    <3> QED BY <2>2, <3>1, <3>3 DEF Uncounted, Pend
  <2> QED BY <1>5, <2>1, <2>2
<1>12. NeverAhead'
  BY <1>10, <1>11 DEF NeverAhead
<1>13. \A u \in Threads : \A i \in 1..Len(stack'[u]) :
         GivingUp(stack'[u][i]) => \E j \in 1..Len(stack[u]) : stack'[u][i] = stack[u][j]
  BY <1>4, <1>5 DEF GivingUp
<1> QED BY <1>5, <1>6, <1>12, <1>13, WireGrows

\* times_sent is stored: one more than what was loaded, and one sent that is counted.
LEMMA CountTries ==
    ASSUME IInv, Tries, TypeOK', NEW t \in Threads, HandleCount(t) PROVE Tries'
<1> DEFINE f == Top(t)  q == Top(t).req
<1>1. /\ Running(t) /\ f.pc = "count" /\ stack' = Return(t)
      /\ heap' = [heap EXCEPT ![q].times = f.n + 1]
  BY DEF HandleCount, At
<1>2. q \in Req /\ f.n \in Nat
  BY <1>1, TopFacts DEF Frame
<1>3. /\ OuterFree'
      /\ \A u \in Threads : \A i \in 1..Len(stack'[u]) :
           /\ i \in 1..Len(stack[u]) /\ stack'[u][i] = stack[u][i]
           /\ u = t => i < Len(stack[t])
  BY <1>1, ReturnTries
<1>4. \A r \in Req : /\ heap[r].times \in Nat /\ heap[r].wire \in Nat
                     /\ heap'[r].times = IF r = q THEN f.n + 1 ELSE heap[r].times
                     /\ heap'[r].wire = heap[r].wire
  BY <1>1, <1>2, SMTT(30) DEF IInv, TypeOK, Request
<1>5. \A u \in Threads, r \in Req : Pend(u, r) \in {0, 1} /\ Pend(u, r)' \in {0, 1}
  BY DEF Pend
<1>6. \A u \in Threads, r \in Req : Pend(u, r)' <= Pend(u, r)
  <2> SUFFICES ASSUME NEW u \in Threads, NEW r \in Req PROVE Pend(u, r)' <= Pend(u, r)
    OBVIOUS
  <2> QED BY <1>3, PendShrinks
<1>7. \A r \in Req : r = q => Pend(t, r) = 1 /\ Pend(t, r)' = 0
  <2>1. \A r \in Req : r = q => Pend(t, r) = 1
    BY <1>1, TopFacts DEF Pend, Sent
  <2>2. \A i \in 1..Len(stack'[t]) : stack'[t][i].pc = "free"
    BY <1>3 DEF Tries, OuterFree
  <2> QED BY <2>1, <2>2 DEF Pend, Sent
<1>8. \A r \in Req : /\ Uncounted(r) \in Nat /\ Uncounted(r)' \in Nat
                     /\ Uncounted(r)' <= Uncounted(r)
                     /\ r = q => Uncounted(r)' + 1 <= Uncounted(r)
  <2> SUFFICES ASSUME NEW r \in Req
               PROVE  /\ Uncounted(r) \in Nat /\ Uncounted(r)' \in Nat
                      /\ Uncounted(r)' <= Uncounted(r)
                      /\ r = q => Uncounted(r)' + 1 <= Uncounted(r)
    OBVIOUS
  <2>1. t = "main" \/ t = "sweep"
    BY DEF Threads
  <2>2. /\ Pend("main", r) \in {0, 1} /\ Pend("main", r)' \in {0, 1}
        /\ Pend("sweep", r) \in {0, 1} /\ Pend("sweep", r)' \in {0, 1}
        /\ Pend("main", r)' <= Pend("main", r) /\ Pend("sweep", r)' <= Pend("sweep", r)
    BY <1>5, <1>6 DEF Threads
  <2>3. r = q => Pend(t, r) = 1 /\ Pend(t, r)' = 0
    BY <1>7
  <2>4. CASE t = "main"
    <3>1. r = q => Pend("main", r) = 1 /\ Pend("main", r)' = 0
      BY <2>3, <2>4
    <3> QED BY <2>2, <3>1 DEF Uncounted
  <2>5. CASE t = "sweep"
    <3>1. r = q => Pend("sweep", r) = 1 /\ Pend("sweep", r)' = 0
      BY <2>3, <2>5
    <3> QED BY <2>2, <3>1 DEF Uncounted
  <2> QED BY <2>1, <2>4, <2>5
<1>9. f.n + Uncounted(q) <= heap[q].wire
  BY <1>1, TopFacts DEF Tries, NeverAhead
<1>10. \A r \in Req : heap'[r].times + Uncounted(r)' <= heap'[r].wire
  <2>1. \A r \in Req : heap[r].times + Uncounted(r) <= heap[r].wire
    BY DEF Tries, NeverAhead
  <2> QED BY <2>1, <1>2, <1>4, <1>8, <1>9
<1>11. ASSUME NEW u \in Threads, NEW i \in 1..Len(stack'[u]), stack'[u][i].pc = "count"
       PROVE  (stack[u][i].n + Uncounted(stack[u][i].req) <= heap[stack[u][i].req].wire)'
  <2>1. PICK h \in Frame : h = stack[u][i]
    BY <1>3 DEF IInv, TypeOK
  <2>2. h.req \in Req /\ h.n \in Nat /\ h.n + Uncounted(h.req) <= heap[h.req].wire
    BY <1>3, <1>11, <2>1 DEF Tries, NeverAhead, Frame
  <2>3. h.n + Uncounted(h.req)' <= heap'[h.req].wire
    BY <2>2, <1>4, <1>8
  <2> QED BY <1>3, <2>1, <2>3 DEF Uncounted, Pend
<1>12. NeverAhead'
  BY <1>10, <1>11 DEF NeverAhead
<1> QED BY <1>3, <1>4, <1>12, WireGrows

\* A step that leaves the calls and the counters alone.
LEMMA QuietTries ==
    ASSUME IInv, Tries, TypeOK', stack' = stack,
           \A r \in Req : heap'[r].times = heap[r].times /\ heap'[r].wire = heap[r].wire
    PROVE  Tries'
<1>1. OuterFree'
  BY DEF Tries, OuterFree
<1>2. \A t \in Threads : \A i \in 1..Len(stack'[t]) :
        \E j \in 1..Len(stack[t]) : Kept(stack'[t][i], stack[t][j])
  BY DEF Kept
<1> QED BY <1>1, <1>2, TriesStay

\* Freeing a request leaves its counters.
LEMMA DestroyCounters ==
    ASSUME TypeOK, NEW x \in Req, Destroy(x)
    PROVE  \A r \in Req : heap'[r].times = heap[r].times /\ heap'[r].wire = heap[r].wire
BY DEF Destroy, TypeOK, Request

\* A packet goes to a request that has its counters, or to a new one.
LEMMA QueueReqCounters ==
    ASSUME IInv, NEW h \in Hop, NEW p, Target(h) \in Req, QueueReq(h, p)
    PROVE  \A r \in Req :
              \/ heap'[r].times = heap[r].times /\ heap'[r].wire = heap[r].wire
              \/ heap'[r].times = 0 /\ heap'[r].wire = 0 /\ r > created
<1>1. TypeOK /\ created \in Nat
  BY ArpAssumption DEF IInv, TypeOK
<1>2. CASE Waiting(h) # {}
  BY <1>1, <1>2 DEF QueueReq, HeapWith, TypeOK, Request
<1>3. CASE Waiting(h) = {}
  <2>1. heap' = [heap EXCEPT ![created + 1] = NewRequest(h, p)]
    BY <1>3 DEF QueueReq, HeapWith
  <2>2. NewRequest(h, p).times = 0 /\ NewRequest(h, p).wire = 0
    BY DEF NewRequest
  <2> QED BY <1>1, <2>1, <2>2 DEF TypeOK
<1> QED BY <1>2, <1>3

\* A walk goes on: its request was sent often enough when it began.
LEMMA WalkOnTries ==
    ASSUME IInv, Tries, TypeOK', NEW t \in Threads, Running(t), GivingUp(Top(t)),
           NEW f \in Frame, stack' = Goto(t, f), f.req = Top(t).req, GivingUp(f),
           \A r \in Req : heap'[r].times = heap[r].times /\ heap'[r].wire = heap[r].wire
    PROVE  Tries'
<1>1. f.req \in Req /\ heap[f.req].wire >= MaxTries
  BY TopFacts DEF Tries, TriesBeforeReport, GivingUp
<1> QED BY <1>1, GotoTries, TriesStay DEF Kept

\* A packet of the walk is reported, or its report is to be queued.
LEMMA WalkPacketTries ==
    ASSUME IInv, Tries, TypeOK', NEW t \in Threads, WalkPacket(t) PROVE Tries'
<1> DEFINE f == Top(t)
<1>1. Running(t) /\ f.pc = "walk" /\ heap' = heap
  BY DEF WalkPacket, At, cache
<1>2. ASSUME NEW pc \in {"free", "queue"}, stack' = Goto(t, [f EXCEPT !.pc = pc]) PROVE Tries'
  <2>1. PICK g \in Frame : g = [f EXCEPT !.pc = pc]
    BY <1>1, TopFacts DEF Frame
  <2>2. g.req = f.req /\ GivingUp(g) /\ GivingUp(f)
    BY <1>1, <2>1, TopFacts DEF Frame, GivingUp
  <2> QED BY <1>1, <1>2, <2>1, <2>2, WalkOnTries
<1> QED BY <1>2 DEF WalkPacket

\* A packet of the walk is freed.
LEMMA WalkFreeTries ==
    ASSUME IInv, Tries, TypeOK', NEW t \in Threads, WalkFree(t) PROVE Tries'
<1> DEFINE f == Top(t)
<1>1. CASE Fail("double_free")
  BY <1>1, QuietTries DEF Fail, cache
<1>2. CASE ~Fail("double_free")
  <2>1. /\ Running(t) /\ f.pc = "free" /\ heap' = [heap EXCEPT ![f.req].gone = @ \cup {f.k}]
        /\ stack' = Goto(t, [f EXCEPT !.pc = "walk", !.k = @ - 1])
    BY <1>2 DEF WalkFree, At
  <2>2. f.k \in Nat /\ f.k - 1 \in Nat
    BY <2>1, TopFacts DEF FrameOK, Frame
  <2>3. PICK g \in Frame : g = [f EXCEPT !.pc = "walk", !.k = f.k - 1]
    BY <2>1, <2>2, TopFacts DEF Frame
  <2>4. g.req = f.req /\ GivingUp(g) /\ GivingUp(f) /\ stack' = Goto(t, g)
    BY <2>1, <2>3, TopFacts DEF Frame, GivingUp
  <2>5. \A r \in Req : heap'[r].times = heap[r].times /\ heap'[r].wire = heap[r].wire
    BY <2>1, TopFacts DEF IInv, TypeOK, Request
  <2> QED BY <2>1, <2>4, <2>5, WalkOnTries
<1> QED BY <1>1, <1>2

\* A walk is over.
LEMMA WalkDestroyTries ==
    ASSUME IInv, Tries, TypeOK', NEW t \in Threads, WalkDestroy(t) PROVE Tries'
<1>1. CASE Fail("double_free")
  BY <1>1, QuietTries DEF Fail, cache
<1>2. CASE ~Fail("double_free")
  <2>1. Running(t) /\ Destroy(Top(t).req) /\ stack' = Return(t)
    BY <1>2 DEF WalkDestroy, At
  <2>2. \A r \in Req : heap'[r].times = heap[r].times /\ heap'[r].wire = heap[r].wire
    BY <2>1, TopFacts, DestroyCounters DEF IInv
  <2> QED BY <2>1, <2>2, ReturnTries, TriesStay DEF Kept
<1> QED BY <1>1, <1>2

\* A report is queued and handle_arpreq called for it.
LEMMA WalkQueueTries ==
    ASSUME IInv, Tries, TypeOK', NEW t \in Threads, WalkQueue(t) PROVE Tries'
<1> DEFINE f == Top(t)
           n == Len(stack[t])
           x == Target(SourceOf(heap[Top(t).req].pkts[Top(t).k], Top(t).req))
<1>1. /\ TypeOK /\ Running(t) /\ f.pc = "queue" /\ x \in Req
      /\ QueueReq(SourceOf(heap[f.req].pkts[f.k], f.req), Icmp)
      /\ stack' = [stack EXCEPT ![t] =
                     Append([stack[t] EXCEPT ![n] = [stack[t][n] EXCEPT !.pc = "free"]],
                            NewFrame(x))]
  BY DEF IInv, WalkQueue, At, TypeOK
<1>2. SourceOf(heap[f.req].pkts[f.k], f.req) \in Hop
  BY <1>1, TopFacts DEF FrameOK
<1>3. \A r \in Req :
         \/ heap'[r].times = heap[r].times /\ heap'[r].wire = heap[r].wire
         \/ heap'[r].times = 0 /\ heap'[r].wire = 0 /\ r > created
  BY <1>1, <1>2, QueueReqCounters
<1>4. PICK g \in Frame : g = [stack[t][n] EXCEPT !.pc = "free"]
  BY <1>1, TopFacts DEF Frame
<1>5. g.req = f.req /\ GivingUp(g) /\ g.pc = "free" /\ f.req \in Req
  BY <1>1, <1>4, TopFacts DEF Frame, GivingUp
<1>6. /\ stack[t] \in Seq(Frame) /\ n \in Nat /\ n \in 1..n
      /\ [stack[t] EXCEPT ![n] = g] \in Seq(Frame)
      /\ Len([stack[t] EXCEPT ![n] = g]) = n
      /\ \A i \in 1..n : [stack[t] EXCEPT ![n] = g][i] = IF i = n THEN g ELSE stack[t][i]
  BY <1>1, TopFacts
<1>7. NewFrame(x) \in Frame
  BY <1>1 DEF NewFrame, Frame, SentCap
<1>8. /\ Len(stack'[t]) = n + 1
      /\ \A i \in 1..n : stack'[t][i] = IF i = n THEN g ELSE stack[t][i]
      /\ stack'[t][n + 1] = NewFrame(x)
      /\ \A u \in Threads : u # t => stack'[u] = stack[u]
  BY <1>1, <1>4, <1>6, <1>7 DEF TypeOK
<1>9. OuterFree'
  <2> SUFFICES ASSUME NEW u \in Threads, NEW i \in 1..Len(stack'[u]), i < Len(stack'[u])
               PROVE  stack'[u][i].pc = "free"
    BY DEF OuterFree
  <2>1. CASE u # t
    BY <1>8, <2>1 DEF Tries, OuterFree
  <2>2. CASE u = t
    <3>1. i \in 1..n
      BY <1>6, <1>8, <2>2
    <3> QED BY <1>5, <1>6, <1>8, <2>2, <3>1 DEF Tries, OuterFree
  <2> QED BY <2>1, <2>2
<1>10. heap[f.req].wire >= MaxTries /\ f.req <= created
  BY <1>1, TopFacts DEF Tries, TriesBeforeReport, FrameOK
<1>11. heap'[g.req].wire >= MaxTries
  <2>1. g.req \in Req /\ g.req <= created /\ heap[g.req].wire >= MaxTries
    BY <1>5, <1>10
  <2>2. g.req \in Nat /\ created \in Nat
    BY <1>1, <2>1 DEF TypeOK, Req
  <2>3. heap'[g.req].wire = heap[g.req].wire
    BY <1>3, <2>1, <2>2
  <2> QED BY <2>1, <2>3
<1>12. \A u \in Threads : \A i \in 1..Len(stack'[u]) :
          \/ \E j \in 1..Len(stack[u]) : Kept(stack'[u][i], stack[u][j])
          \/ stack'[u][i].pc \in {"check", "send"}
          \/ GivingUp(stack'[u][i]) /\ heap'[stack'[u][i].req].wire >= MaxTries
  <2> SUFFICES ASSUME NEW u \in Threads, NEW i \in 1..Len(stack'[u])
               PROVE  \/ \E j \in 1..Len(stack[u]) : Kept(stack'[u][i], stack[u][j])
                      \/ stack'[u][i].pc \in {"check", "send"}
                      \/ GivingUp(stack'[u][i]) /\ heap'[stack'[u][i].req].wire >= MaxTries
    OBVIOUS
  <2>1. CASE u # t
    BY <1>8, <2>1 DEF Kept
  <2>2. CASE u = t /\ i = n + 1
    BY <1>8, <2>2 DEF NewFrame
  <2>3. CASE u = t /\ i = n
    BY <1>5, <1>6, <1>8, <1>11, <2>3
  <2>4. CASE u = t /\ i \in 1..n /\ i # n
    BY <1>8, <2>4 DEF Kept
  <2> QED BY <1>6, <1>8, <2>1, <2>2, <2>3, <2>4
<1> QED BY <1>3, <1>9, <1>12, TriesStay

\* handle_arpreq is called by a thread that is in no call of it.
LEMMA CallTries ==
    ASSUME IInv, Tries, TypeOK', NEW t \in Threads, stack[t] = <<>>, NEW x \in Req,
           stack' = Call(t, x),
           \A r \in Req :
              \/ heap'[r].times = heap[r].times /\ heap'[r].wire = heap[r].wire
              \/ heap'[r].times = 0 /\ heap'[r].wire = 0 /\ r > created
    PROVE  Tries'
<1>1. stack \in [Threads -> Seq(Frame)]
  BY DEF IInv, TypeOK
<1>2. /\ \A u \in Threads :
           Len(stack'[u]) = IF u = t THEN Len(stack[t]) + 1 ELSE Len(stack[u])
      /\ \A u \in Threads : \A i \in 1..Len(stack'[u]) :
           \/ i \in 1..Len(stack[u]) /\ stack'[u][i] = stack[u][i]
           \/ u = t /\ i = Len(stack[t]) + 1 /\ stack'[u][i] = NewFrame(x)
  BY <1>1, CallStack
<1>3. OuterFree'
  <2> SUFFICES ASSUME NEW u \in Threads, NEW i \in 1..Len(stack'[u]), i < Len(stack'[u])
               PROVE  stack'[u][i].pc = "free"
    BY DEF OuterFree
  <2>1. u # t
    BY <1>2
  <2> QED BY <1>2, <2>1 DEF Tries, OuterFree
<1> QED BY <1>2, <1>3, TriesStay DEF Kept, NewFrame

\* Time changes no counter.
LEMMA TickTries == ASSUME IInv, Tries, TypeOK', Tick PROVE Tries'
<1>1. /\ heap' = [r \in Req |-> [heap[r] EXCEPT !.age = Older(@, SentCap)]]
      /\ stack' = [t \in Threads |-> [i \in 1..Len(stack[t]) |->
                     [stack[t][i] EXCEPT !.age = Older(@, SentCap)]]]
  BY DEF Tick
<1>2. \A r \in Req : heap'[r].times = heap[r].times /\ heap'[r].wire = heap[r].wire
  BY <1>1 DEF IInv, TypeOK, Request
<1>3. ASSUME NEW t \in Threads
      PROVE  /\ Len(stack'[t]) = Len(stack[t])
             /\ \A i \in 1..Len(stack[t]) : Kept(stack'[t][i], stack[t][i])
  <2>1. stack[t] \in Seq(Frame) /\ Len(stack[t]) \in Nat
    BY DEF IInv, TypeOK
  <2>2. stack'[t] = [i \in 1..Len(stack[t]) |-> [stack[t][i] EXCEPT !.age = Older(@, SentCap)]]
    BY <1>1
  <2>3. \A i \in 1..Len(stack[t]) : stack[t][i] \in Frame
    BY <2>1
  <2>4. \A f \in Frame : /\ [f EXCEPT !.age = Older(@, SentCap)] \in Frame
                         /\ Kept([f EXCEPT !.age = Older(@, SentCap)], f)
    BY OlderType DEF Frame, Kept
  <2>5. \A i \in 1..Len(stack[t]) : [stack[t][i] EXCEPT !.age = Older(@, SentCap)] \in Frame
    BY <2>3, <2>4
  <2>6. Len(stack'[t]) = Len(stack[t])
    BY <2>1, <2>2, <2>5
  <2> QED BY <2>2, <2>3, <2>4, <2>6
<1>4. OuterFree'
  BY <1>3 DEF Tries, OuterFree, Kept
<1> QED BY <1>2, <1>3, <1>4, TriesStay

\* Every step preserves Tries.
LEMMA NextTries == IInv /\ IInv' /\ Tries /\ [Next]_vars => Tries'
<1> SUFFICES ASSUME IInv, IInv', Tries, [Next]_vars PROVE Tries'
  OBVIOUS
<1>1. TypeOK /\ TypeOK' /\ Control
  BY DEF IInv
<1>2. CASE Tick
  BY <1>1, <1>2, TickTries
<1>3. CASE UNCHANGED <<heap, stack>>
  BY <1>1, <1>3, QuietTries
<1>4. CASE QueuePacket
  <2>1. /\ NextHop[main.pkt] \in Hop /\ stack["main"] = <<>> /\ "main" \in Threads
        /\ Target(NextHop[main.pkt]) \in Req /\ QueueReq(NextHop[main.pkt], main.pkt)
        /\ stack' = Call("main", Target(NextHop[main.pkt]))
    BY <1>1, <1>4, ArpAssumption DEF QueuePacket, Control, Threads
  <2> QED BY <1>1, <2>1, QueueReqCounters, CallTries
<1>5. CASE FlushDestroy
  <2>1. main.req \in Req /\ Destroy(main.req) /\ stack' = stack
    BY <1>1, <1>5 DEF FlushDestroy, Control
  <2> QED BY <1>1, <2>1, DestroyCounters, QuietTries
<1>6. CASE SweepRequest
  <2>1. CASE Fail("use_after_free")
    BY <1>1, <2>1, QuietTries DEF Fail, cache
  <2>2. CASE ~Fail("use_after_free")
    <3>1. /\ stack["sweep"] = <<>> /\ "sweep" \in Threads /\ sweep.cur \in Req
          /\ stack' = Call("sweep", sweep.cur) /\ heap' = heap
      BY <1>1, <1>6, <2>2, ArpAssumption DEF SweepRequest, cache, TypeOK, Sweep, Req, Threads
    <3> QED BY <1>1, <3>1, CallTries
  <2> QED BY <2>1, <2>2
<1>7. ASSUME NEW t \in Threads, HandleStep(t) PROVE Tries'
  <2>1. CASE UseAfterFree(t) \/ StackOverflow(t)
    BY <1>1, <2>1, QuietTries DEF UseAfterFree, StackOverflow, Fail, cache
  <2> QED BY <1>1, <1>7, <2>1, CheckTries, SendTries, StoreTries, CountTries, WalkPacketTries,
             WalkQueueTries, WalkFreeTries, WalkDestroyTries DEF HandleStep
<1>8. CASE UNCHANGED vars
  BY <1>3, <1>8 DEF vars
<1>9. CASE Arrival \/ FlushSend \/ SweepWake \/ SweepDone
  <2>1. UNCHANGED <<heap, stack>>
    BY <1>9 DEF Arrival, Receive, Learn, FlushSend, SweepWake, SweepDone, cache
  <2> QED BY <1>3, <2>1
<1> QED BY <1>2, <1>4, <1>5, <1>6, <1>7, <1>8, <1>9
        DEF Next, MainStep, SweepStep, Stopped, Threads

\* sr_arpcache_init: there are no requests and no calls.
LEMMA InitTries == Init => Tries
<1> SUFFICES ASSUME Init PROVE Tries
  OBVIOUS
<1>1. \A t \in Threads : 1..Len(stack[t]) = {}
  BY DEF Init
<1>2. \A r \in Req : heap[r].times = 0 /\ heap[r].wire = 0
  BY DEF Init, Unused
<1>3. \A r \in Req : Uncounted(r) = 0
  BY <1>1 DEF Uncounted, Pend, Threads
<1> QED BY <1>1, <1>2, <1>3 DEF Tries, OuterFree, NeverAhead, TriesBeforeReport

\* handle_arpreq gives a request up only after MaxTries ARP requests really went out
\* for it, whatever counts the two threads lose.
THEOREM SentOften == Spec => []TriesBeforeReport
<1>1. IInv /\ IInv' /\ Tries /\ [Next]_vars => Tries'
  BY NextTries
<1>2. Tries => TriesBeforeReport
  BY DEF Tries
<1> QED BY <1>1, <1>2, InitTries, Invariant, PTL DEF Spec

(***************************************************************************)
(* One fate for each packet.                                               *)
(***************************************************************************)
\* Packet p is at place k in the packet list of request r.
Occurs(p, r, k) == k \in 1..Len(heap[r].pkts) /\ heap[r].pkts[k] = p

\* Packets are known only from the wire, and are in one request at most.
Known ==
    /\ forwarded \subseteq accepted /\ reported \subseteq accepted
    /\ \A p \in Packet, r \in Req, k \in Nat : Occurs(p, r, k) => p \in accepted
    /\ \A p \in Packet, r, s \in Req, k, l \in Nat :
         Occurs(p, r, k) /\ Occurs(p, s, l) => r = s

\* The packet main is about to queue has had no fate and is in no request.
InHand ==
    main.pc = "queue" =>
        /\ main.pkt \in accepted /\ main.pkt \notin forwarded \cup reported
        /\ \A r \in Req, k \in Nat : ~Occurs(main.pkt, r, k)

\* A request that holds packets and is not freed is on the list or being flushed.
Listed == \A r \in Req, k \in Nat :
    k \in 1..Len(heap[r].pkts) /\ heap[r].state # "freed" =>
        r \in queue \/ (main.pc = "flush" /\ main.req = r)

\* A request some packet of which was forwarded is out of everyone's reach but main's.
Reached(r) == \/ r \in queue \/ sweep.cur = r
              \/ \E t \in Threads : \E i \in 1..Len(stack[t]) : stack[t][i].req = r
ForwardedOut == \A p \in forwarded, r \in Req, k \in Nat :
    Occurs(p, r, k) => ~Reached(r)

\* A live request some packet of which was reported is being given up.
ReportedWalked == \A p \in reported, r \in Req, k \in Nat :
    Occurs(p, r, k) /\ heap[r].state = "live" =>
        \E t \in Threads : \E i \in 1..Len(stack[t]) : Walks(stack[t][i], r)

\* What need not be reported (any more).
Done(p) == p \in Packet => SrcHop[p] = NoHop \/ p \in reported

\* Behind a walk everything is reported that can be ...
WalkDone(f) == f.pc \in {"walk", "queue", "free"} =>
    \A k \in 1..Len(heap[f.req].pkts) :
        k > f.k \/ (k = f.k /\ f.pc = "free") => Done(heap[f.req].pkts[k])
WalksDone == \A t \in Threads : \A i \in 1..Len(stack[t]) : WalkDone(stack[t][i])

\* ... as it is in a request that was freed, if it was not forwarded.
FreedDone == \A r \in Req : heap[r].state = "freed" =>
    \A k \in 1..Len(heap[r].pkts) : Done(heap[r].pkts[k]) \/ heap[r].pkts[k] \in forwarded

\* What main has passed in the request it flushes is forwarded.
FlushDone == main.pc = "flush" =>
    /\ main.k <= Len(heap[main.req].pkts)
    /\ \A k \in 1..Len(heap[main.req].pkts) :
         k > main.k => heap[main.req].pkts[k] \in forwarded \cup {Icmp}

OneFate == /\ Known /\ InHand /\ Listed /\ ForwardedOut /\ ReportedWalked
           /\ WalksDone /\ FreedDone /\ FlushDone

\* Places in a packet list are numbers.
LEMMA PlaceIsNat == ASSUME NEW n \in Nat PROVE 1..n \subseteq Nat
  OBVIOUS

\* A step that keeps the requests, the list and main's work: calls stay where they
\* were, begin on a request in reach, or go on with a walk that is done so far; what
\* is newly reported is in a request that is walked.
LEMMA FatesKept ==
    ASSUME IInv, OneFate, TypeOK', queue' = queue, main' = main,
           accepted' = accepted, forwarded' = forwarded,
           \A r \in Req : heap'[r].pkts = heap[r].pkts /\ heap'[r].state = heap[r].state,
           reported \subseteq reported',
           \A p \in reported' \ reported : \E r \in Req, k \in Nat :
              /\ Occurs(p, r, k)
              /\ \E t \in Threads : \E i \in 1..Len(stack'[t]) : Walks(stack'[t][i], r),
           sweep'.cur = sweep.cur \/ sweep'.cur \in queue \cup {0},
           \A t \in Threads : \A i \in 1..Len(stack'[t]) :
              \/ \E j \in 1..Len(stack[t]) : stack'[t][i].req = stack[t][j].req
              \/ stack'[t][i].req = sweep.cur,
           \A t \in Threads : \A i \in 1..Len(stack'[t]) :
              \/ \E j \in 1..Len(stack[t]) : Same(stack'[t][i], stack[t][j])
              \/ Fresh(stack'[t][i])
              \/ WalkDone(stack[t][i])',
           \A t \in Threads : \A j \in 1..Len(stack[t]) :
              GivingUp(stack[t][j]) =>
                 \E i \in 1..Len(stack'[t]) : Walks(stack'[t][i], stack[t][j].req)
    PROVE  OneFate'
<1>1. /\ Known /\ InHand /\ Listed /\ ForwardedOut /\ ReportedWalked
      /\ WalksDone /\ FreedDone /\ FlushDone
  BY DEF OneFate
<1>2. TypeOK /\ Control
  BY DEF IInv
<1>3. \A p, k : \A r \in Req : Occurs(p, r, k)' <=> Occurs(p, r, k)
  BY DEF Occurs
<1>4. \A p \in reported' : p \in Packet
  BY DEF TypeOK
<1>5. Known'
  <2>1. reported' \subseteq accepted'
    BY <1>1, <1>4 DEF Known
  <2> QED BY <1>1, <1>3, <2>1 DEF Known
<1>6. InHand'
  <2>1. main.pc = "queue" => main.pkt \notin reported'
    BY <1>1 DEF InHand
  <2> QED BY <1>1, <1>3, <2>1 DEF InHand
<1>7. Listed'
  BY <1>1 DEF Listed
<1>8. \A r \in Req : Reached(r)' => Reached(r)
  <2> SUFFICES ASSUME NEW r \in Req, Reached(r)' PROVE Reached(r)
    OBVIOUS
  <2> QED BY DEF Reached, Req
<1>9. ForwardedOut'
  BY <1>1, <1>3, <1>8 DEF ForwardedOut
<1>10. ReportedWalked'
  <2> SUFFICES ASSUME NEW p \in reported', NEW r \in Req, NEW k \in Nat,
                      Occurs(p, r, k), heap[r].state = "live"
               PROVE  \E t \in Threads : \E i \in 1..Len(stack'[t]) : Walks(stack'[t][i], r)
    BY <1>3 DEF ReportedWalked
  <2>1. CASE p \in reported
    <3>1. PICK t \in Threads : \E j \in 1..Len(stack[t]) : Walks(stack[t][j], r)
      BY <1>1, <2>1 DEF ReportedWalked
    <3> QED BY <3>1, SMTT(30) DEF Walks, GivingUp
  <2>2. CASE p \notin reported
    <3>1. PICK s \in Req, l \in Nat :
             /\ Occurs(p, s, l)
             /\ \E t \in Threads : \E i \in 1..Len(stack'[t]) : Walks(stack'[t][i], s)
      BY <2>2
    <3>2. s = r
      BY <1>1, <1>4, <3>1 DEF Known
    <3> QED BY <3>1, <3>2
  <2> QED BY <2>1, <2>2
<1>11. \A p : Done(p) => Done(p)'
  BY DEF Done
<1>12. WalksDone'
  <2> SUFFICES ASSUME NEW t \in Threads, NEW i \in 1..Len(stack'[t])
               PROVE  WalkDone(stack[t][i])'
    BY DEF WalksDone
  <2>1. CASE \E j \in 1..Len(stack[t]) : Same(stack'[t][i], stack[t][j])
    <3>1. PICK j \in 1..Len(stack[t]) : Same(stack'[t][i], stack[t][j])
      BY <2>1
    <3>2. PICK f \in Frame, g \in Frame : f = stack[t][j] /\ g = stack'[t][i]
      BY <1>2 DEF TypeOK
    <3>3. g.req = f.req /\ g.pc = f.pc /\ g.k = f.k /\ f.req \in Req
      BY <3>1, <3>2 DEF Same, Frame
    <3>4. WalkDone(f)
      BY <1>1, <3>2 DEF WalksDone
    <3>5. heap'[f.req].pkts = heap[f.req].pkts
      BY <3>3
    <3>6. WalkDone(g)'
      BY <1>11, <3>3, <3>4, <3>5 DEF WalkDone
    <3> QED BY <3>2, <3>6 DEF WalkDone
  <2>2. CASE Fresh(stack'[t][i])
    BY <2>2 DEF Fresh, WalkDone
  <2> QED BY <2>1, <2>2
<1>13. FreedDone'
  BY <1>1, <1>11 DEF FreedDone
<1>14. FlushDone'
  BY <1>1, <1>2 DEF FlushDone, Control
<1> QED BY <1>5, <1>6, <1>7, <1>9, <1>10, <1>12, <1>13, <1>14 DEF OneFate

\* The call on top of a thread's stack moves on, and may have reported the packet it
\* stands at.
LEMMA GotoFates ==
    ASSUME IInv, OneFate, TypeOK', NEW t \in Threads, Running(t), NEW f \in Frame,
           stack' = Goto(t, f), f.req = Top(t).req, Fresh(f) \/ WalkDone(f)',
           GivingUp(Top(t)) => GivingUp(f),
           UNCHANGED <<queue, main, sweep, accepted, forwarded>>,
           \A r \in Req : heap'[r].pkts = heap[r].pkts /\ heap'[r].state = heap[r].state,
           reported \subseteq reported',
           \A p \in reported' \ reported :
              GivingUp(f) /\ \E k \in Nat : Occurs(p, f.req, k)
    PROVE  OneFate'
<1>1. /\ \A u \in Threads : Len(stack'[u]) = Len(stack[u])
      /\ \A u \in Threads : \A i \in 1..Len(stack[u]) :
           stack'[u][i] = IF u = t /\ i = Len(stack[t]) THEN f ELSE stack[u][i]
  BY TopFacts, GotoStack
<1>2. Len(stack[t]) \in 1..Len(stack[t]) /\ stack[t][Len(stack[t])] = Top(t) /\ f.req \in Req
  BY TopFacts
<1>3. \A u \in Threads : \A i \in 1..Len(stack'[u]) :
         \E j \in 1..Len(stack[u]) : stack'[u][i].req = stack[u][j].req
  BY <1>1, <1>2
<1>4. ASSUME NEW u \in Threads, NEW i \in 1..Len(stack'[u])
      PROVE  \/ \E j \in 1..Len(stack[u]) : Same(stack'[u][i], stack[u][j])
             \/ Fresh(stack'[u][i])
             \/ WalkDone(stack[u][i])'
  <2>1. CASE u = t /\ i = Len(stack[t])
    <3>1. stack'[u][i] = f
      BY <1>1, <1>2, <2>1
    <3>2. WalkDone(f)' => WalkDone(stack[u][i])'
      BY <3>1 DEF WalkDone
    <3>3. Fresh(f) => Fresh(stack'[u][i])
      BY <3>1
    <3> QED BY <3>2, <3>3
  <2>2. CASE ~(u = t /\ i = Len(stack[t]))
    BY <1>1, <2>2 DEF Same
  <2> QED BY <2>1, <2>2
<1>5. \A u \in Threads : \A j \in 1..Len(stack[u]) :
         GivingUp(stack[u][j]) =>
            \E i \in 1..Len(stack'[u]) : Walks(stack'[u][i], stack[u][j].req)
  BY <1>1, <1>2 DEF Walks, GivingUp
<1>6. \A p \in reported' \ reported : \E r \in Req, k \in Nat :
         /\ Occurs(p, r, k)
         /\ \E u \in Threads : \E i \in 1..Len(stack'[u]) : Walks(stack'[u][i], r)
  <2> SUFFICES ASSUME NEW p \in reported' \ reported
               PROVE  \E r \in Req, k \in Nat :
                        /\ Occurs(p, r, k)
                        /\ \E u \in Threads : \E i \in 1..Len(stack'[u]) : Walks(stack'[u][i], r)
    OBVIOUS
  <2>1. PICK k \in Nat : Occurs(p, f.req, k)
    OBVIOUS
  <2>2. Len(stack[t]) \in 1..Len(stack'[t]) /\ Walks(stack'[t][Len(stack[t])], f.req)
    BY <1>1, <1>2 DEF Walks, GivingUp
  <2> QED BY <1>2, <2>1, <2>2
<1> QED BY <1>3, <1>4, <1>5, <1>6, FatesKept

\* A call that was not in its walk returns.
LEMMA ReturnFates ==
    ASSUME IInv, OneFate, TypeOK', NEW t \in Threads, Running(t), stack' = Return(t),
           Fresh(Top(t)), UNCHANGED <<queue, main, sweep, fates>>,
           \A r \in Req : heap'[r].pkts = heap[r].pkts /\ heap'[r].state = heap[r].state
    PROVE  OneFate'
<1>1. /\ \A u \in Threads :
           Len(stack'[u]) = IF u = t THEN Len(stack[t]) - 1 ELSE Len(stack[u])
      /\ \A u \in Threads : \A i \in 1..Len(stack'[u]) :
           i \in 1..Len(stack[u]) /\ stack'[u][i] = stack[u][i]
  BY TopFacts, ReturnStack
<1>2. \A u \in Threads : \A i \in 1..Len(stack'[u]) :
         \E j \in 1..Len(stack[u]) : /\ stack'[u][i].req = stack[u][j].req
                                     /\ Same(stack'[u][i], stack[u][j])
  BY <1>1 DEF Same
<1>3. \A u \in Threads : \A j \in 1..Len(stack[u]) :
         GivingUp(stack[u][j]) =>
            \E i \in 1..Len(stack'[u]) : Walks(stack'[u][i], stack[u][j].req)
  <2> SUFFICES ASSUME NEW u \in Threads, NEW j \in 1..Len(stack[u]), GivingUp(stack[u][j])
               PROVE  j \in 1..Len(stack'[u])
    BY <1>1 DEF Walks, GivingUp
  <2>1. ~(u = t /\ j = Len(stack[t]))
    BY TopFacts DEF Fresh, GivingUp
  <2> QED BY <1>1, <2>1, TopFacts
<1> QED BY <1>2, <1>3, FatesKept DEF fates

\* The calls stay as they are.
LEMMA StillFates ==
    ASSUME IInv, OneFate, TypeOK', stack' = stack, UNCHANGED <<queue, main, fates>>,
           sweep'.cur = sweep.cur \/ sweep'.cur \in queue \cup {0},
           \A r \in Req : heap'[r].pkts = heap[r].pkts /\ heap'[r].state = heap[r].state
    PROVE  OneFate'
<1>1. \A u \in Threads : \A i \in 1..Len(stack'[u]) :
         \E j \in 1..Len(stack[u]) : /\ stack'[u][i].req = stack[u][j].req
                                     /\ Same(stack'[u][i], stack[u][j])
  BY DEF Same
<1>2. \A u \in Threads : \A j \in 1..Len(stack[u]) :
         GivingUp(stack[u][j]) =>
            \E i \in 1..Len(stack'[u]) : Walks(stack'[u][i], stack[u][j].req)
  BY DEF Walks, GivingUp
<1> QED BY <1>1, <1>2, FatesKept DEF fates

\* The checks of sent and times_sent: a walk begins with nothing behind it.
LEMMA CheckFates ==
    ASSUME IInv, OneFate, TypeOK', NEW t \in Threads, HandleCheck(t) PROVE OneFate'
<1> DEFINE f == Top(t)  r == heap[Top(t).req]
<1>1. /\ Running(t) /\ f.pc = "check" /\ UNCHANGED <<queue, heap, main, sweep, fates>>
  BY DEF HandleCheck, At, cache
<1>2. CASE stack' = Return(t)
  BY <1>1, <1>2, ReturnFates DEF Fresh
<1>3. CASE stack' = Goto(t, [f EXCEPT !.pc = "send", !.age = 0])
  <2>1. PICK g \in Frame : g = [f EXCEPT !.pc = "send", !.age = 0]
    BY <1>1, TopFacts, CheckedFrame
  <2>2. g.req = f.req /\ g.pc = "send"
    BY <1>1, <2>1, TopFacts DEF Frame
  <2> QED BY <1>1, <1>3, <2>1, <2>2, GotoFates DEF Fresh, GivingUp, fates
<1>4. CASE stack' = Goto(t, [f EXCEPT !.pc = "walk", !.k = Len(r.pkts), !.age = 0])
  <2>1. Len(r.pkts) \in Nat
    BY <1>1, TopFacts DEF Request
  <2>2. PICK g \in Frame : g = [f EXCEPT !.pc = "walk", !.k = Len(r.pkts), !.age = 0]
    BY <1>1, <2>1, TopFacts, CheckedFrame
  <2>3. g.req = f.req /\ g.pc = "walk" /\ g.k = Len(heap[g.req].pkts)
    BY <1>1, <2>2, TopFacts DEF Frame
  <2>4. WalkDone(g)'
    <3>1. g.k \in Nat /\ heap' = heap
      BY <1>1, <2>1, <2>2, <2>3
    <3> QED BY <2>3, <3>1 DEF WalkDone
  <2> QED BY <1>1, <1>4, <2>2, <2>3, <2>4, GotoFates DEF GivingUp, fates
<1> QED BY <1>2, <1>3, <1>4 DEF HandleCheck

\* Sending and counting ARP requests is no packet's fate.
LEMMA CountingFates ==
    ASSUME IInv, OneFate, TypeOK', NEW t \in Threads,
           HandleSend(t) \/ HandleStore(t) \/ HandleCount(t)
    PROVE  OneFate'
<1> DEFINE f == Top(t)
<1>1. /\ Running(t) /\ f.pc \in {"send", "store", "count"}
      /\ UNCHANGED <<queue, main, sweep, fates>>
  BY DEF HandleSend, HandleStore, HandleCount, At
<1>2. f \in Frame /\ f.req \in Req /\ heap[f.req] \in Request /\ TypeOK
  BY <1>1, TopFacts DEF IInv
<1>3. CASE HandleSend(t)
  <2>1. /\ stack' = Goto(t, [f EXCEPT !.pc = "store"])
        /\ heap' = [heap EXCEPT ![f.req].wire = @ + 1]
    BY <1>3 DEF HandleSend
  <2>2. PICK g \in Frame : g = [f EXCEPT !.pc = "store"]
    BY <1>2 DEF Frame
  <2>3. g.req = f.req /\ g.pc = "store"
    BY <1>2, <2>2 DEF Frame
  <2>4. \A r \in Req : heap'[r].pkts = heap[r].pkts /\ heap'[r].state = heap[r].state
    BY <1>2, <2>1 DEF TypeOK, Request
  <2> QED BY <1>1, <2>1, <2>2, <2>3, <2>4, GotoFates DEF Fresh, GivingUp, fates
<1>4. CASE HandleStore(t)
  <2>1. /\ stack' = Goto(t, [f EXCEPT !.pc = "count", !.n = heap[f.req].times])
        /\ heap' = [heap EXCEPT ![f.req].age = f.age]
    BY <1>4 DEF HandleStore
  <2>2. PICK g \in Frame : g = [f EXCEPT !.pc = "count", !.n = heap[f.req].times]
    BY <1>2 DEF Frame, Request
  <2>3. g.req = f.req /\ g.pc = "count"
    BY <1>2, <2>2 DEF Frame
  <2>4. \A r \in Req : heap'[r].pkts = heap[r].pkts /\ heap'[r].state = heap[r].state
    BY <1>2, <2>1 DEF TypeOK, Request
  <2> QED BY <1>1, <2>1, <2>2, <2>3, <2>4, GotoFates DEF Fresh, GivingUp, fates
<1>5. CASE HandleCount(t)
  <2>1. stack' = Return(t) /\ heap' = [heap EXCEPT ![f.req].times = f.n + 1]
    BY <1>5 DEF HandleCount
  <2>2. \A r \in Req : heap'[r].pkts = heap[r].pkts /\ heap'[r].state = heap[r].state
    BY <1>2, <2>1 DEF TypeOK, Request
  <2> QED BY <1>1, <2>1, <2>2, ReturnFates DEF Fresh
<1> QED BY <1>3, <1>4, <1>5

\* The packet a walk stands at is one of its request's.
LEMMA AtPacket ==
    ASSUME IInv, NEW t \in Threads, Running(t), Top(t).pc \in {"queue", "free"} \/
                    (Top(t).pc = "walk" /\ Top(t).k > 0)
    PROVE  /\ Top(t).k \in 1..Len(heap[Top(t).req].pkts) /\ Top(t).k \in Nat
           /\ heap[Top(t).req].pkts[Top(t).k] \in Packet \cup {Icmp}
           /\ Occurs(heap[Top(t).req].pkts[Top(t).k], Top(t).req, Top(t).k)
<1>1. /\ Top(t) \in Frame /\ Top(t).req \in Req /\ FrameOK(Top(t))
      /\ heap[Top(t).req] \in Request
  BY TopFacts
<1>2. heap[Top(t).req].pkts \in Seq(Packet \cup {Icmp}) /\ Top(t).k \in Nat
  BY <1>1 DEF Request, Frame
<1>3. Top(t).k \in 1..Len(heap[Top(t).req].pkts)
  BY <1>1, <1>2 DEF FrameOK
<1> QED BY <1>2, <1>3 DEF Occurs

\* A walk moves from one place to the next: what it leaves behind is done.
LEMMA WalkPacketFates ==
    ASSUME IInv, OneFate, TypeOK', NEW t \in Threads, WalkPacket(t) PROVE OneFate'
<1> DEFINE f == Top(t)  p == heap[Top(t).req].pkts[Top(t).k]
<1>1. /\ Running(t) /\ f.pc = "walk" /\ f.k > 0
      /\ UNCHANGED <<queue, heap, main, sweep, accepted, forwarded>>
  BY DEF WalkPacket, At, cache
<1>2. /\ f \in Frame /\ f.req \in Req /\ f.k \in 1..Len(heap[f.req].pkts) /\ f.k \in Nat
      /\ Occurs(p, f.req, f.k) /\ WalkDone(f)
  BY <1>1, TopFacts, AtPacket DEF OneFate, WalksDone
<1>3. \A k \in 1..Len(heap[f.req].pkts) : k > f.k => Done(heap[f.req].pkts[k])
  BY <1>1, <1>2 DEF WalkDone
<1>4. ASSUME NEW pc \in {"free", "queue"}, stack' = Goto(t, [f EXCEPT !.pc = pc]),
             reported' = reported \/ (reported' = reported \cup ({p} \cap Packet) /\ pc = "free"),
             pc = "free" => SrcHop[p] = NoHop \/ p \in reported' \/ p \notin Packet
      PROVE  OneFate'
  <2>1. PICK g \in Frame : g = [f EXCEPT !.pc = pc]
    BY <1>2 DEF Frame
  <2>2. g.req = f.req /\ g.k = f.k /\ g.pc = pc
    BY <1>2, <2>1 DEF Frame
  <2>3. reported \subseteq reported' /\ \A q : Done(q) => Done(q)'
    BY <1>4 DEF Done
  <2>4. pc = "free" => Done(heap[g.req].pkts[g.k])'
    <3>1. pc = "free" => (p \in Packet => SrcHop[p] = NoHop \/ p \in reported')
      BY <1>4
    <3>2. heap'[g.req].pkts[g.k] = p
      BY <1>1, <2>2
    <3> QED BY <3>1, <3>2 DEF Done
  <2>5. WalkDone(g)'
    <3> SUFFICES ASSUME NEW k \in 1..Len(heap'[g.req].pkts),
                        k > g.k \/ (k = g.k /\ g.pc = "free")
                 PROVE  Done(heap[g.req].pkts[k])'
      BY DEF WalkDone
    <3>1. CASE k > g.k
      <4>1. Done(heap[g.req].pkts[k])
        BY <1>1, <1>3, <2>2, <3>1
      <4>2. heap' = heap
        BY <1>1
      <4> QED BY <2>3, <4>1, <4>2 DEF Done
    <3> QED BY <2>2, <2>4, <3>1
  <2>6. \A q \in reported' \ reported : GivingUp(g) /\ \E k \in Nat : Occurs(q, g.req, k)
    BY <1>2, <1>4, <2>2 DEF GivingUp
  <2> QED BY <1>1, <1>4, <2>1, <2>2, <2>3, <2>5, <2>6, GotoFates DEF GivingUp
<1>5. CASE SourceOf(p, f.req) = NoHop
  <2>1. p \notin Packet \/ SrcHop[p] = NoHop
    BY <1>5 DEF SourceOf
  <2> QED BY <1>4, <1>5, <2>1 DEF WalkPacket
<1>6. CASE SourceOf(p, f.req) # NoHop
  BY <1>4, <1>6 DEF WalkPacket
<1> QED BY <1>5, <1>6

\* A packet is freed.
LEMMA WalkFreeFates ==
    ASSUME IInv, OneFate, TypeOK', NEW t \in Threads, WalkFree(t) PROVE OneFate'
<1> DEFINE f == Top(t)
<1>1. CASE Fail("double_free")
  BY <1>1, StillFates DEF Fail, cache
<1>2. CASE ~Fail("double_free")
  <2>1. /\ Running(t) /\ f.pc = "free" /\ heap' = [heap EXCEPT ![f.req].gone = @ \cup {f.k}]
        /\ stack' = Goto(t, [f EXCEPT !.pc = "walk", !.k = @ - 1])
        /\ UNCHANGED <<queue, main, sweep, fates>>
    BY <1>2 DEF WalkFree, At
  <2>2. /\ f.k \in 1..Len(heap[f.req].pkts) /\ f.k \in Nat /\ f.k - 1 \in Nat
        /\ f \in Frame /\ f.req \in Req /\ WalkDone(f)
    BY <2>1, TopFacts, AtPacket DEF OneFate, WalksDone
  <2>3. PICK g \in Frame : g = [f EXCEPT !.pc = "walk", !.k = f.k - 1]
    BY <2>2 DEF Frame
  <2>4. g.req = f.req /\ g.k = f.k - 1 /\ g.pc = "walk" /\ stack' = Goto(t, g)
    BY <2>1, <2>2, <2>3 DEF Frame
  <2>5. \A r \in Req : heap'[r].pkts = heap[r].pkts /\ heap'[r].state = heap[r].state
    <3>1. heap \in [Req -> Request]
      BY DEF IInv, TypeOK
    <3> QED BY <2>1, <2>2, <3>1 DEF Request
  <2>6. WalkDone(g)'
    <3> SUFFICES ASSUME NEW k \in 1..Len(heap'[g.req].pkts), k > g.k
                 PROVE  Done(heap[g.req].pkts[k])'
      BY <2>4 DEF WalkDone
    <3>1. k = f.k \/ k > f.k
      BY <2>2, <2>4
    <3>2. Done(heap[g.req].pkts[k])
      BY <2>1, <2>2, <2>4, <2>5, <3>1 DEF WalkDone
    <3> QED BY <2>1, <2>2, <2>4, <2>5, <3>2 DEF Done, fates
  <2>7. GivingUp(f) /\ GivingUp(g)
    BY <2>1, <2>4 DEF GivingUp
  <2> QED BY <2>1, <2>4, <2>5, <2>6, <2>7, GotoFates DEF fates
<1> QED BY <1>1, <1>2

\* A walk is over: everything in its request is done.
LEMMA WalkDestroyFates ==
    ASSUME IInv, OneFate, TypeOK', NEW t \in Threads, WalkDestroy(t) PROVE OneFate'
<1> DEFINE f == Top(t)
<1>1. CASE Fail("double_free")
  BY <1>1, StillFates DEF Fail, cache
<1>2. CASE ~Fail("double_free")
  <2>1. /\ Running(t) /\ f.pc = "walk" /\ f.k = 0 /\ ~Dangling(t)
        /\ Destroy(f.req) /\ stack' = Return(t) /\ UNCHANGED <<main, sweep, fates>>
    BY <1>2 DEF WalkDestroy, At
  <2>2. PICK x \in Req : x = f.req
    BY <2>1, TopFacts
  <2>3. /\ queue' = queue \ {x} /\ heap'[x].state = "freed"
        /\ \A r \in Req : heap'[r].pkts = heap[r].pkts
        /\ \A r \in Req : r # x => heap'[r].state = heap[r].state
    BY <2>1, <2>2 DEF Destroy, IInv, TypeOK, Request
  <2>4. /\ \A u \in Threads :
             Len(stack'[u]) = IF u = t THEN Len(stack[t]) - 1 ELSE Len(stack[u])
        /\ \A u \in Threads : \A i \in 1..Len(stack'[u]) :
             i \in 1..Len(stack[u]) /\ stack'[u][i] = stack[u][i]
    BY <2>1, TopFacts, ReturnStack
  <2>5. \A p, k : \A r \in Req : Occurs(p, r, k)' <=> Occurs(p, r, k)
    BY <2>3 DEF Occurs
  <2>6. \A p : Done(p)' <=> Done(p)
    BY <2>1 DEF Done, fates
  <2>7. Known' /\ InHand'
    BY <2>1, <2>5 DEF OneFate, Known, InHand, fates
  <2>8. Listed'
    BY <2>2, <2>3, <2>1 DEF OneFate, Listed
  <2>9. ForwardedOut'
    <3>1. \A r \in Req : Reached(r)' => Reached(r)
      BY <2>1, <2>3, <2>4 DEF Reached
    <3> QED BY <2>1, <2>5, <3>1 DEF OneFate, ForwardedOut, fates
  <2>10. ReportedWalked'
    <3> SUFFICES ASSUME NEW p \in reported, NEW r \in Req, NEW k \in Nat,
                        Occurs(p, r, k), heap'[r].state = "live"
                 PROVE  \E u \in Threads : \E i \in 1..Len(stack'[u]) : Walks(stack'[u][i], r)
      BY <2>1, <2>5 DEF ReportedWalked, fates
    <3>1. r # x /\ heap[r].state = "live"
      BY <2>3
    <3>2. PICK u \in Threads : \E i \in 1..Len(stack[u]) : Walks(stack[u][i], r)
      BY <3>1 DEF OneFate, ReportedWalked
    <3>3. PICK i \in 1..Len(stack[u]) : Walks(stack[u][i], r)
      BY <3>2
    <3>4. ~(u = t /\ i = Len(stack[t]))
      BY <2>1, <2>2, <3>1, <3>3, TopFacts DEF Walks
    <3>5. Len(stack[u]) \in Nat
      BY DEF IInv, TypeOK
    <3>6. i \in 1..Len(stack'[u])
      BY <2>4, <3>4, <3>5
    <3> QED BY <2>4, <3>3, <3>6
  <2>11. WalksDone'
    <3> SUFFICES ASSUME NEW u \in Threads, NEW i \in 1..Len(stack'[u])
                 PROVE  WalkDone(stack[u][i])'
      BY DEF WalksDone
    <3>1. PICK g \in Frame : g = stack[u][i] /\ g = stack'[u][i]
      BY <2>4 DEF IInv, TypeOK
    <3>2. WalkDone(g) /\ g.req \in Req
      BY <2>4, <3>1 DEF OneFate, WalksDone, Frame
    <3>3. WalkDone(g)'
      BY <2>3, <2>6, <3>2 DEF WalkDone
    <3> QED BY <3>1, <3>3 DEF WalkDone
  <2>12. FreedDone'
    <3> SUFFICES ASSUME NEW r \in Req, heap'[r].state = "freed",
                        NEW k \in 1..Len(heap[r].pkts)
                 PROVE  Done(heap[r].pkts[k]) \/ heap[r].pkts[k] \in forwarded
      BY <2>1, <2>3, <2>6 DEF FreedDone, fates
    <3>1. CASE r = x
      <4>1. WalkDone(f)
        BY <2>1, TopFacts DEF OneFate, WalksDone
      <4>2. k \in Nat /\ k > 0
        OBVIOUS
      <4> QED BY <2>1, <2>2, <3>1, <4>1, <4>2 DEF WalkDone
    <3>2. CASE r # x
      BY <2>3, <3>2 DEF OneFate, FreedDone
    <3> QED BY <3>1, <3>2
  <2>13. FlushDone'
    <3> SUFFICES ASSUME main.pc = "flush" PROVE FlushDone'
      BY <2>1 DEF FlushDone
    <3>1. main.req \in Req
      BY DEF IInv, Control
    <3> QED BY <2>1, <2>3, <3>1 DEF OneFate, FlushDone, fates
  <2> QED BY <2>7, <2>8, <2>9, <2>10, <2>11, <2>12, <2>13 DEF OneFate
<1> QED BY <1>1, <1>2

\* sr_arpcache_queuereq adds its packet at one place and moves no other.
LEMMA QueueReqOccurs ==
    ASSUME IInv, NEW h \in Hop, NEW p \in Packet \cup {Icmp}, NEW x \in Req,
           x = Target(h), QueueReq(h, p)
    PROVE  /\ \A r \in Req : r # x => heap'[r] = heap[r]
           /\ \A r \in Req : r \in queue \/ r # x => \A q : \A k \in Nat :
                Occurs(q, r, k) => Occurs(q, r, k)'
           /\ \A r \in Req : \A q : \A k \in Nat : Occurs(q, r, k)' =>
                \/ Occurs(q, r, k) /\ (r \in queue \/ r # x)
                \/ q = p /\ r = x
           /\ \E k \in Nat : Occurs(p, x, k)'
           /\ heap'[x].state = "live" /\ queue' = queue \cup {x}
           /\ x \in queue \/ x = created + 1
<1>1. TypeOK /\ Allocated /\ OneRequestPerHop /\ Target(h) \in Req
  BY DEF IInv
<1>2. /\ \A r \in Req : r # x => heap'[r] = heap[r]
      /\ heap'[x].state = "live" /\ queue' = queue \cup {x}
      /\ x \in queue \/ x = created + 1
  BY <1>1, QueueReqHeap
<1>3. \A r \in Req : r # x => \A q : \A k \in Nat : Occurs(q, r, k)' <=> Occurs(q, r, k)
  <2> SUFFICES ASSUME NEW r \in Req, r # x, NEW q, NEW k \in Nat
               PROVE  Occurs(q, r, k)' <=> Occurs(q, r, k)
    OBVIOUS
  <2>1. heap'[r] = heap[r]
    BY <1>2
  <2> QED BY <2>1 DEF Occurs
<1>4. CASE Waiting(h) # {}
  <2>1. x \in queue /\ heap[x].pkts \in Seq(Packet \cup {Icmp})
    BY <1>1, <1>4 DEF Target, Waiting, TypeOK, Request
  <2>2. heap'[x].pkts = Append(heap[x].pkts, p)
    BY <1>1, <1>4 DEF QueueReq, HeapWith, TypeOK, Request
  <2>3. \A q : \A k \in Nat : Occurs(q, x, k) => Occurs(q, x, k)'
    BY <2>1, <2>2 DEF Occurs
  <2>4. \A q : \A k \in Nat : Occurs(q, x, k)' => Occurs(q, x, k) \/ q = p
    BY <2>1, <2>2 DEF Occurs
  <2>5. PICK k \in Nat : k = Len(heap[x].pkts) + 1
    BY <2>1
  <2>6. Occurs(p, x, k)'
    BY <2>1, <2>2, <2>5 DEF Occurs
  <2>7. \E m \in Nat : Occurs(p, x, m)'
    BY <2>6
  <2>8. \A r \in Req : r \in queue \/ r # x => \A q : \A m \in Nat :
          Occurs(q, r, m) => Occurs(q, r, m)'
    BY <1>3, <2>3
  <2>9. \A r \in Req : \A q : \A m \in Nat : Occurs(q, r, m)' =>
          \/ Occurs(q, r, m) /\ (r \in queue \/ r # x)
          \/ q = p /\ r = x
    BY <1>3, <2>1, <2>4
  <2> QED BY <1>2, <2>7, <2>8, <2>9
<1>5. CASE Waiting(h) = {}
  <2>1. x = created + 1 /\ x \notin queue
    BY <1>1, <1>5 DEF Target, Allocated, TypeOK
  <2>2. heap'[x].pkts = <<p>>
    BY <1>1, <1>5, <2>1 DEF QueueReq, HeapWith, TypeOK, NewRequest
  <2>3. \A q : \A k \in Nat : Occurs(q, x, k)' => q = p
    BY <2>2 DEF Occurs
  <2>4. Occurs(p, x, 1)'
    BY <2>2 DEF Occurs
  <2>5. \E m \in Nat : Occurs(p, x, m)'
    BY <2>4
  <2>6. \A r \in Req : r \in queue \/ r # x => \A q : \A m \in Nat :
          Occurs(q, r, m) => Occurs(q, r, m)'
    BY <1>3, <2>1
  <2>7. \A r \in Req : \A q : \A m \in Nat : Occurs(q, r, m)' =>
          \/ Occurs(q, r, m) /\ (r \in queue \/ r # x)
          \/ q = p /\ r = x
    BY <1>3, <2>3
  <2> QED BY <1>2, <2>5, <2>6, <2>7
<1> QED BY <1>4, <1>5

\* Queueing for a gateway settles nothing: a packet main has in hand begins to wait
\* when no call is active; a message the router generated has no fate to lose.
LEMMA QueueFates ==
    ASSUME IInv, OneFate, TypeOK', NEW h \in Hop, NEW p \in Packet \cup {Icmp},
           NEW x \in Req, x = Target(h), QueueReq(h, p),
           UNCHANGED <<sweep, accepted, forwarded>>,
           \A u \in Threads :
              /\ Len(stack[u]) <= Len(stack'[u])
              /\ \A i \in 1..Len(stack'[u]) :
                   IF i \in 1..Len(stack[u])
                   THEN /\ Advanced(stack'[u][i], stack[u][i])
                        /\ stack'[u][i].pc # stack[u][i].pc =>
                             (Done(heap[stack[u][i].req].pkts[stack[u][i].k]))'
                   ELSE stack'[u][i] = NewFrame(x),
           \/ p = Icmp /\ main' = main
           \/ /\ main.pc = "queue" /\ p = main.pkt /\ main'.pc = "idle"
              /\ \A u \in Threads : Len(stack[u]) = 0,
           reported \subseteq reported',
           \A q \in reported' \ reported : \E r \in Req, k \in Nat :
              /\ Occurs(q, r, k) /\ r <= created
              /\ \E u \in Threads : \E i \in 1..Len(stack[u]) : Walks(stack[u][i], r)
    PROVE  OneFate'
<1>1. /\ Known /\ InHand /\ Listed /\ ForwardedOut /\ ReportedWalked
      /\ WalksDone /\ FreedDone /\ FlushDone
  BY DEF OneFate
<1>2. TypeOK /\ FramesOK /\ Control /\ Allocated /\ FlushOwned /\ OneRequestPerHop
  BY DEF IInv
<1>3. /\ \A r \in Req : r # x => heap'[r] = heap[r]
      /\ \A r \in Req : \A q : \A k \in Nat : Occurs(q, r, k)' =>
           \/ Occurs(q, r, k) /\ (r \in queue \/ r # x)
           \/ q = p /\ r = x
      /\ heap'[x].state = "live" /\ queue' = queue \cup {x}
      /\ x \in queue \/ x = created + 1
  BY QueueReqOccurs
<1>4. /\ Icmp \notin Packet /\ forwarded \subseteq Packet
      /\ reported \subseteq Packet /\ reported' \subseteq Packet
      /\ \A u \in Threads : Len(stack[u]) \in Nat
  BY <1>2, ArpAssumption DEF TypeOK
<1>5. p # Icmp => /\ p \in accepted /\ p \notin forwarded /\ p \notin reported
                  /\ \A r \in Req, k \in Nat : ~Occurs(p, r, k)
                  /\ main.pc = "queue" /\ main'.pc = "idle"
                  /\ \A u \in Threads : Len(stack[u]) = 0
  BY <1>1 DEF InHand
<1>6. reported' = reported \/ p = Icmp
  <2> SUFFICES ASSUME NEW q \in reported' \ reported PROVE p = Icmp
    OBVIOUS
  <2>1. PICK u \in Threads : \E i \in 1..Len(stack[u]) : TRUE
    OBVIOUS
  <2> QED BY <1>4, <1>5, <2>1
<1>7. \A q \in Packet, r \in Req, k \in Nat : Occurs(q, r, k)' =>
         \/ q # p /\ Occurs(q, r, k) /\ (r \in queue \/ r # x)
         \/ q = p /\ r = x /\ p # Icmp
  BY <1>3, <1>4, <1>5
<1>8. Known'
  <2>1. reported' \subseteq accepted'
    BY <1>1, <1>4 DEF Known
  <2>2. \A q \in Packet, r \in Req, k \in Nat : Occurs(q, r, k)' => q \in accepted
    BY <1>1, <1>5, <1>7 DEF Known
  <2>3. \A q \in Packet, r, s \in Req, k, l \in Nat :
           Occurs(q, r, k)' /\ Occurs(q, s, l)' => r = s
    BY <1>1, <1>7 DEF Known
  <2> QED BY <1>1, <2>1, <2>2, <2>3 DEF Known
<1>9. InHand'
  <2> SUFFICES ASSUME main'.pc = "queue" PROVE InHand'
    BY DEF InHand
  <2>1. main' = main /\ p = Icmp /\ main.pkt \in Packet
    BY <1>2 DEF Control
  <2>2. \A r \in Req, k \in Nat : ~Occurs(main.pkt, r, k)'
    BY <1>1, <1>7, <2>1 DEF InHand
  <2>3. main.pkt \notin reported'
    BY <1>1, <2>1 DEF InHand
  <2> QED BY <1>1, <2>1, <2>2, <2>3 DEF InHand
<1>10. Listed'
  BY <1>1, <1>3 DEF Listed
<1>11. ForwardedOut'
  <2> SUFFICES ASSUME NEW q \in forwarded, NEW r \in Req, NEW k \in Nat,
                      Occurs(q, r, k)', Reached(r)'
               PROVE  FALSE
    BY DEF ForwardedOut
  <2>1. Occurs(q, r, k) /\ (r \in queue \/ r # x)
    BY <1>4, <1>5, <1>7
  <2>2. ~Reached(r)
    BY <1>1, <2>1 DEF ForwardedOut
  <2>3. PICK u \in Threads : \E i \in 1..Len(stack'[u]) : stack'[u][i].req = r
    BY <1>3, <2>1, <2>2 DEF Reached
  <2>4. PICK i \in 1..Len(stack'[u]) : stack'[u][i].req = r
    BY <2>3
  <2>5. CASE i \in 1..Len(stack[u])
    BY <2>2, <2>4, <2>5 DEF Reached, Advanced
  <2>6. CASE i \notin 1..Len(stack[u])
    BY <2>1, <2>2, <2>4, <2>6 DEF Reached, NewFrame
  <2> QED BY <2>5, <2>6
<1>12. ReportedWalked'
  <2> SUFFICES ASSUME NEW q \in reported', NEW r \in Req, NEW k \in Nat,
                      Occurs(q, r, k)', heap'[r].state = "live"
               PROVE  \E u \in Threads : \E i \in 1..Len(stack'[u]) : Walks(stack'[u][i], r)
    BY DEF ReportedWalked
  <2>1. Occurs(q, r, k) /\ (r \in queue \/ r # x)
    BY <1>4, <1>5, <1>6, <1>7
  <2>2. heap[r].state = "live"
    BY <1>2, <1>3, <2>1 DEF OneRequestPerHop
  <2>3. \E u \in Threads : \E i \in 1..Len(stack[u]) : Walks(stack[u][i], r)
    <3>1. CASE q \in reported
      BY <1>1, <2>1, <2>2, <3>1 DEF ReportedWalked
    <3>2. CASE q \notin reported
      <4>1. PICK s \in Req, l \in Nat :
               /\ Occurs(q, s, l)
               /\ \E u \in Threads : \E i \in 1..Len(stack[u]) : Walks(stack[u][i], s)
        BY <3>2
      <4>2. s = r
        BY <1>1, <1>4, <2>1, <4>1 DEF Known
      <4> QED BY <4>1, <4>2
    <3> QED BY <3>1, <3>2
  <2>4. PICK u \in Threads : \E i \in 1..Len(stack[u]) : Walks(stack[u][i], r)
    BY <2>3
  <2>5. PICK i \in 1..Len(stack[u]) : Walks(stack[u][i], r)
    BY <2>4
  <2>6. i \in 1..Len(stack'[u]) /\ Advanced(stack'[u][i], stack[u][i])
    BY <1>2 DEF TypeOK
  <2> QED BY <2>5, <2>6 DEF Walks, Advanced
<1>13. \A q : Done(q) => Done(q)'
  BY DEF Done
<1>14. WalksDone'
  <2> SUFFICES ASSUME NEW u \in Threads, NEW i \in 1..Len(stack'[u])
               PROVE  WalkDone(stack[u][i])'
    BY DEF WalksDone
  <2>1. CASE i \notin 1..Len(stack[u])
    BY <2>1 DEF NewFrame, WalkDone
  <2>2. CASE i \in 1..Len(stack[u])
    <3>1. PICK f \in Frame, g \in Frame : f = stack[u][i] /\ g = stack'[u][i]
      BY <1>2, <2>2 DEF TypeOK
    <3>2. /\ f.req \in Req /\ f.req <= created /\ f.k \in Nat /\ g.req = f.req /\ g.k = f.k
          /\ g.pc = f.pc \/ (f.pc = "queue" /\ g.pc = "free")
          /\ WalkDone(f) /\ p = Icmp
          /\ g.pc # f.pc => Done(heap[f.req].pkts[f.k])'
      <4>1. f.req \in Req /\ f.k \in Nat /\ WalkDone(f) /\ FrameOK(f)
        BY <1>1, <1>2, <2>2, <3>1 DEF Frame, FramesOK, WalksDone
      <4>2. Advanced(g, f) /\ (g.pc # f.pc => Done(heap[f.req].pkts[f.k])')
        BY <2>2, <3>1 DEF Advanced, Done
      <4>3. p = Icmp
        BY <1>4, <1>5, <2>2
      <4> QED BY <4>1, <4>2, <4>3 DEF Advanced, FrameOK
    <3>3. f.req \in queue \/ f.req # x
      BY <1>2, <1>3, <3>2 DEF TypeOK, Req
    <3>4. ASSUME NEW k \in 1..Len(heap'[g.req].pkts), g.pc \in {"walk", "queue", "free"},
                 k > g.k \/ (k = g.k /\ g.pc = "free")
          PROVE  Done(heap[g.req].pkts[k])'
      <4>2. PICK q : q = heap'[f.req].pkts[k]
        OBVIOUS
      <4>1. k \in Nat /\ Occurs(q, f.req, k)'
        BY <3>2, <3>4, <4>2 DEF Occurs, TypeOK, Request
      <4>3. Occurs(q, f.req, k) \/ q = Icmp
        BY <1>3, <3>2, <4>1, <4>2
      <4>4. CASE q = Icmp
        <5>1. Done(q)'
          BY <1>4, <4>4 DEF Done
        <5> QED BY <3>2, <4>2, <5>1 DEF Done
      <4>5. CASE Occurs(q, f.req, k) /\ ~(k = f.k /\ g.pc # f.pc)
        <5>1. k \in 1..Len(heap[f.req].pkts) /\ heap[f.req].pkts[k] = q
          BY <4>5 DEF Occurs
        <5>2. Done(q)
          BY <3>2, <3>4, <4>5, <5>1 DEF WalkDone
        <5> QED BY <1>13, <3>2, <4>2, <5>2 DEF Done
      <4>6. CASE k = f.k /\ g.pc # f.pc
        BY <3>2, <4>6
      <4> QED BY <4>3, <4>4, <4>5, <4>6
    <3>5. WalkDone(g)'
      BY <3>4 DEF WalkDone
    <3> QED BY <3>1, <3>5 DEF WalkDone
  <2> QED BY <2>1, <2>2
<1>15. FreedDone'
  BY <1>1, <1>3, <1>13 DEF FreedDone
<1>16. FlushDone'
  <2> SUFFICES ASSUME main.pc = "flush", main' = main PROVE FlushDone'
    BY DEF FlushDone
  <2>1. main.req \in Req /\ main.req # x
    BY <1>2, <1>3 DEF Control, FlushOwned, Allocated, TypeOK, Req
  <2> QED BY <1>1, <1>3, <2>1 DEF FlushDone
<1> QED BY <1>8, <1>9, <1>10, <1>11, <1>12, <1>14, <1>15, <1>16 DEF OneFate

\* main queues the packet of its missed lookup: it holds the lock, so no call is active.
LEMMA QueuePacketFates == ASSUME IInv, OneFate, TypeOK', QueuePacket PROVE OneFate'
<1>1. /\ TypeOK /\ Control /\ main.pc = "queue" /\ lock \in {"free", "main"}
      /\ Target(NextHop[main.pkt]) \in Req /\ QueueReq(NextHop[main.pkt], main.pkt)
      /\ stack' = Call("main", Target(NextHop[main.pkt]))
      /\ main' = Idle /\ UNCHANGED <<sweep, fates>>
  BY DEF IInv, QueuePacket, CanLock
<1>2. /\ main.pkt \in Packet /\ NextHop[main.pkt] \in Hop
      /\ stack["main"] = <<>> /\ stack["sweep"] = <<>>
  BY <1>1, ArpAssumption DEF Control, TypeOK, Sweep
<1>3. PICK h \in Hop, p \in Packet \cup {Icmp}, x \in Req :
         h = NextHop[main.pkt] /\ p = main.pkt /\ x = Target(h)
  BY <1>1, <1>2
<1>4. \A u \in Threads : Len(stack[u]) = 0
  BY <1>2 DEF Threads
<1>5. /\ \A u \in Threads :
           Len(stack'[u]) = IF u = "main" THEN Len(stack["main"]) + 1 ELSE Len(stack[u])
      /\ \A u \in Threads : \A i \in 1..Len(stack'[u]) :
           \/ i \in 1..Len(stack[u]) /\ stack'[u][i] = stack[u][i]
           \/ u = "main" /\ i = Len(stack["main"]) + 1 /\ stack'[u][i] = NewFrame(x)
  <2>1. stack \in [Threads -> Seq(Frame)] /\ "main" \in Threads /\ stack' = Call("main", x)
    BY <1>1, <1>3 DEF TypeOK, Threads
  <2> QED BY <2>1, CallStack
<1>6. \A u \in Threads :
         /\ Len(stack[u]) <= Len(stack'[u])
         /\ \A i \in 1..Len(stack'[u]) :
              i \notin 1..Len(stack[u]) /\ stack'[u][i] = NewFrame(x)
  BY <1>4, <1>5
<1>7. QueueReq(h, p) /\ main'.pc = "idle" /\ reported' = reported
      /\ UNCHANGED <<sweep, accepted, forwarded>>
  BY <1>1, <1>3 DEF Idle, fates
<1> QED BY <1>1, <1>3, <1>4, <1>6, <1>7, QueueFates

\* A walk queues its report: the packet it stands at is reported.
LEMMA WalkQueueFates ==
    ASSUME IInv, OneFate, TypeOK', NEW t \in Threads, WalkQueue(t) PROVE OneFate'
<1> DEFINE f == Top(t)
           p == heap[Top(t).req].pkts[Top(t).k]
           n == Len(stack[t])
<1>1. /\ TypeOK /\ Running(t) /\ f.pc = "queue" /\ Target(SourceOf(p, f.req)) \in Req
      /\ QueueReq(SourceOf(p, f.req), Icmp) /\ reported' = reported \cup ({p} \cap Packet)
      /\ stack' = [stack EXCEPT ![t] =
                     Append([stack[t] EXCEPT ![n] = [stack[t][n] EXCEPT !.pc = "free"]],
                            NewFrame(Target(SourceOf(p, f.req))))]
      /\ UNCHANGED <<main, sweep, accepted, forwarded>>
  BY DEF IInv, WalkQueue, At, TypeOK
<1>2. SourceOf(p, f.req) \in Hop
  BY <1>1, TopFacts DEF FrameOK
<1>3. PICK h \in Hop, x \in Req : h = SourceOf(p, f.req) /\ x = Target(h)
  BY <1>1, <1>2
<1>4. PICK g \in Frame : g = [stack[t][n] EXCEPT !.pc = "free"]
  BY <1>1, TopFacts DEF Frame
<1>5. /\ f = stack[t][n] /\ f \in Frame /\ f.req \in Req /\ f.req <= created /\ f.k \in Nat
      /\ Occurs(p, f.req, f.k)
      /\ g.req = f.req /\ g.k = f.k /\ g.pc = "free"
  BY <1>1, <1>4, TopFacts, AtPacket DEF Frame, FrameOK
<1>6. /\ stack[t] \in Seq(Frame) /\ n \in Nat /\ n \in 1..n
      /\ [stack[t] EXCEPT ![n] = g] \in Seq(Frame)
      /\ Len([stack[t] EXCEPT ![n] = g]) = n
      /\ \A i \in 1..n : [stack[t] EXCEPT ![n] = g][i] = IF i = n THEN g ELSE stack[t][i]
  BY <1>1, TopFacts
<1>7. NewFrame(x) \in Frame
  BY DEF NewFrame, Frame, SentCap
<1>8. /\ Len(stack'[t]) = n + 1
      /\ \A i \in 1..n : stack'[t][i] = IF i = n THEN g ELSE stack[t][i]
      /\ stack'[t][n + 1] = NewFrame(x)
      /\ \A u \in Threads : u # t => stack'[u] = stack[u]
  BY <1>1, <1>3, <1>4, <1>6, <1>7 DEF TypeOK
<1>9. heap'[f.req].pkts[f.k] = p
  <2>1. Icmp \in Packet \cup {Icmp} /\ Allocated /\ OneRequestPerHop
    BY DEF IInv
  <2>2. HeapGrows
    BY <1>1, <1>2, <2>1, QueueReqHeap
  <2> QED BY <1>5, <2>2 DEF HeapGrows, Occurs
<1>10. \A u \in Threads :
         /\ Len(stack[u]) <= Len(stack'[u])
         /\ \A i \in 1..Len(stack'[u]) :
              IF i \in 1..Len(stack[u])
              THEN /\ Advanced(stack'[u][i], stack[u][i])
                   /\ stack'[u][i].pc # stack[u][i].pc =>
                        (Done(heap[stack[u][i].req].pkts[stack[u][i].k]))'
              ELSE stack'[u][i] = NewFrame(x)
  <2> SUFFICES ASSUME NEW u \in Threads
               PROVE  /\ Len(stack[u]) <= Len(stack'[u])
                      /\ \A i \in 1..Len(stack'[u]) :
                           IF i \in 1..Len(stack[u])
                           THEN /\ Advanced(stack'[u][i], stack[u][i])
                                /\ stack'[u][i].pc # stack[u][i].pc =>
                                     (Done(heap[stack[u][i].req].pkts[stack[u][i].k]))'
                           ELSE stack'[u][i] = NewFrame(x)
    OBVIOUS
  <2>1. CASE u # t
    <3>1. stack'[u] = stack[u] /\ Len(stack[u]) \in Nat
      BY <1>1, <1>8, <2>1 DEF TypeOK
    <3> QED BY <3>1 DEF Advanced
  <2>2. CASE u = t
    <3>1. Advanced(g, f)
      BY <1>1, <1>5 DEF Advanced
    <3>2. ASSUME NEW i \in 1..n, i = n
          PROVE  (Done(heap[stack[t][i].req].pkts[stack[t][i].k]))'
      <4>1. /\ stack'[t][i].req = f.req /\ stack'[t][i].k = f.k
            /\ p \in Packet => p \in reported'
        BY <1>1, <1>5, <1>6, <1>8, <3>2
      <4>2. PICK q : q = p
        OBVIOUS
      <4>3. Done(q)'
        BY <4>1, <4>2 DEF Done
      <4>4. (heap[stack[t][i].req].pkts[stack[t][i].k])' = q
        BY <1>9, <4>1, <4>2
      <4> QED BY <4>3, <4>4 DEF Done
    <3>3. \A i \in 1..n : Advanced(stack'[t][i], stack[t][i])
      BY <1>5, <1>8, <3>1 DEF Advanced
    <3>4. \A i \in 1..n : stack'[t][i].pc # stack[t][i].pc => i = n
      BY <1>8
    <3>5. \A i \in 1..n : stack'[t][i].pc # stack[t][i].pc =>
             (Done(heap[stack[t][i].req].pkts[stack[t][i].k]))'
      BY <3>2, <3>4 DEF Done
    <3>6. \A i \in 1..Len(stack'[t]) : i \notin 1..n => i = n + 1
      BY <1>6, <1>8
    <3> QED BY <1>6, <1>8, <2>2, <3>3, <3>5, <3>6
  <2> QED BY <2>1, <2>2
<1>11. \A q \in reported' \ reported : \E r \in Req, k \in Nat :
          /\ Occurs(q, r, k) /\ r <= created
          /\ \E u \in Threads : \E i \in 1..Len(stack[u]) : Walks(stack[u][i], r)
  <2>1. n \in 1..Len(stack[t]) /\ Walks(stack[t][n], f.req)
    BY <1>1, <1>5, <1>6 DEF Walks
  <2>2. \E u \in Threads : \E i \in 1..Len(stack[u]) : Walks(stack[u][i], f.req)
    BY <2>1
  <2>3. PICK r \in Req, k \in Nat : r = f.req /\ k = f.k
    BY <1>5
  <2>4. Occurs(p, r, k) /\ r <= created
    BY <1>5, <2>3
  <2>5. \E u \in Threads : \E i \in 1..Len(stack[u]) : Walks(stack[u][i], r)
    BY <2>2, <2>3
  <2> SUFFICES ASSUME NEW q \in reported' \ reported PROVE Occurs(q, r, k)
    BY <2>4, <2>5
  <2>6. q = p
    BY <1>1
  <2> QED BY <2>4, <2>6 DEF Occurs
<1>12. /\ QueueReq(h, Icmp) /\ reported \subseteq reported'
       /\ main' = main /\ UNCHANGED <<sweep, accepted, forwarded>>
  BY <1>1, <1>3
<1>13. PICK m \in Packet \cup {Icmp} : m = Icmp
  OBVIOUS
<1>14. m = Icmp /\ QueueReq(h, m)
  BY <1>12, <1>13
<1>15. x = Target(h)
  BY <1>3
<1> QED BY <1>10, <1>11, <1>12, <1>14, <1>15, QueueFates

\* The sweep calls handle_arpreq for the request its pointer holds.
LEMMA SweepRequestFates == ASSUME IInv, OneFate, TypeOK', SweepRequest PROVE OneFate'
<1>1. CASE Fail("use_after_free")
  BY <1>1, StillFates DEF Fail, cache
<1>2. CASE ~Fail("use_after_free")
  <2>1. /\ TypeOK /\ stack["sweep"] = <<>> /\ stack' = Call("sweep", sweep.cur)
        /\ sweep' = [sweep EXCEPT !.cur = Newest({y \in queue : y < sweep.cur})]
        /\ sweep.cur # 0 /\ UNCHANGED <<queue, heap, main, fates>>
    BY <1>2 DEF IInv, SweepRequest, cache
  <2>2. sweep.cur \in Req /\ "sweep" \in Threads /\ stack \in [Threads -> Seq(Frame)]
    BY <2>1, ArpAssumption DEF TypeOK, Sweep, Req, Threads
  <2>3. PICK x \in Req : x = sweep.cur
    BY <2>2
  <2>4. /\ \A u \in Threads :
             Len(stack'[u]) = IF u = "sweep" THEN Len(stack["sweep"]) + 1 ELSE Len(stack[u])
        /\ \A u \in Threads : \A i \in 1..Len(stack'[u]) :
             \/ i \in 1..Len(stack[u]) /\ stack'[u][i] = stack[u][i]
             \/ u = "sweep" /\ i = Len(stack["sweep"]) + 1 /\ stack'[u][i] = NewFrame(x)
    BY <2>1, <2>2, <2>3, CallStack
  <2>5. sweep'.cur \in queue \cup {0}
    <3>1. PICK Q \in SUBSET Req : Q = {y \in queue : y < x}
      BY <2>1 DEF TypeOK
    <3>2. Newest(Q) \in Q \cup {0}
      BY <3>1, NewestOf
    <3> QED BY <2>1, <2>3, <3>1, <3>2 DEF TypeOK, Sweep
  <2>6. \A u \in Threads : \A i \in 1..Len(stack'[u]) :
           \/ \E j \in 1..Len(stack[u]) : /\ stack'[u][i].req = stack[u][j].req
                                          /\ Same(stack'[u][i], stack[u][j])
           \/ stack'[u][i].req = sweep.cur /\ Fresh(stack'[u][i])
    BY <2>3, <2>4 DEF Same, Fresh, NewFrame
  <2>7. \A u \in Threads : \A j \in 1..Len(stack[u]) :
           GivingUp(stack[u][j]) =>
              \E i \in 1..Len(stack'[u]) : Walks(stack'[u][i], stack[u][j].req)
    <3> SUFFICES ASSUME NEW u \in Threads, NEW j \in 1..Len(stack[u]), GivingUp(stack[u][j])
                 PROVE  j \in 1..Len(stack'[u]) /\ Walks(stack'[u][j], stack[u][j].req)
      OBVIOUS
    <3>1. u # "sweep"
      BY <2>1
    <3>2. j \in 1..Len(stack'[u]) /\ stack'[u][j] = stack[u][j]
      BY <2>4, <3>1
    <3> QED BY <3>2 DEF Walks, GivingUp
  <2> QED BY <2>1, <2>5, <2>6, <2>7, FatesKept DEF fates
<1> QED BY <1>1, <1>2

\* Time moves no call.
LEMMA TickFrames ==
    ASSUME IInv, Tick, NEW t \in Threads
    PROVE  /\ Len(stack'[t]) = Len(stack[t])
           /\ \A i \in 1..Len(stack[t]) : Same(stack'[t][i], stack[t][i])
<1>1. stack[t] \in Seq(Frame) /\ Len(stack[t]) \in Nat
  BY DEF IInv, TypeOK
<1>2. stack'[t] = [i \in 1..Len(stack[t]) |-> [stack[t][i] EXCEPT !.age = Older(@, SentCap)]]
  BY DEF Tick
<1>3. \A f \in Frame : /\ [f EXCEPT !.age = Older(@, SentCap)] \in Frame
                       /\ Same([f EXCEPT !.age = Older(@, SentCap)], f)
  <2> SUFFICES ASSUME NEW f \in Frame
               PROVE  /\ [f EXCEPT !.age = Older(@, SentCap)] \in Frame
                      /\ Same([f EXCEPT !.age = Older(@, SentCap)], f)
    OBVIOUS
  <2>1. Older(f.age, SentCap) \in 0..SentCap
    BY OlderType DEF Frame
  <2> QED BY <2>1 DEF Frame, Same
<1>4. \A i \in 1..Len(stack[t]) : stack[t][i] \in Frame
  BY <1>1
<1>5. \A i \in 1..Len(stack[t]) : [stack[t][i] EXCEPT !.age = Older(@, SentCap)] \in Frame
  BY <1>3, <1>4
<1>6. Len(stack'[t]) = Len(stack[t])
  BY <1>1, <1>2, <1>5
<1> QED BY <1>2, <1>3, <1>6, <1>4

\* Time settles nothing.
LEMMA TickFates == ASSUME IInv, OneFate, TypeOK', Tick PROVE OneFate'
<1>1. /\ heap' = [r \in Req |-> [heap[r] EXCEPT !.age = Older(@, SentCap)]]
      /\ stack' = [t \in Threads |-> [i \in 1..Len(stack[t]) |->
                     [stack[t][i] EXCEPT !.age = Older(@, SentCap)]]]
      /\ sweep' = [sweep EXCEPT !.slept = (sweep.pc = "sleep")]
      /\ UNCHANGED <<queue, main, fates>>
  BY DEF Tick
<1>2. \A r \in Req : heap'[r].pkts = heap[r].pkts /\ heap'[r].state = heap[r].state
  BY <1>1 DEF IInv, TypeOK, Request
<1>3. sweep'.cur = sweep.cur
  BY <1>1 DEF IInv, TypeOK, Sweep
<1>4. ASSUME NEW t \in Threads
      PROVE  /\ Len(stack'[t]) = Len(stack[t])
             /\ \A i \in 1..Len(stack[t]) : Same(stack'[t][i], stack[t][i])
  BY TickFrames
<1>5. \A t \in Threads : \A i \in 1..Len(stack'[t]) :
         \E j \in 1..Len(stack[t]) : /\ stack'[t][i].req = stack[t][j].req
                                     /\ Same(stack'[t][i], stack[t][j])
  BY <1>4 DEF Same
<1>6. \A t \in Threads : \A j \in 1..Len(stack[t]) :
         GivingUp(stack[t][j]) =>
            \E i \in 1..Len(stack'[t]) : Walks(stack'[t][i], stack[t][j].req)
  BY <1>4 DEF Same, Walks, GivingUp
<1>7. UNCHANGED <<queue, main, accepted, forwarded, reported>>
  BY <1>1 DEF fates
<1>8. reported \subseteq reported' /\ reported' \ reported = {}
  BY <1>7
<1> QED BY <1>2, <1>3, <1>5, <1>6, <1>7, <1>8, FatesKept

\* A packet from the wire is in no request yet.
LEMMA ReceiveFates ==
    ASSUME IInv, OneFate, NEW p \in Packet, Receive(p) PROVE OneFate'
<1>1. /\ Known /\ InHand /\ Listed /\ ForwardedOut /\ ReportedWalked
      /\ WalksDone /\ FreedDone /\ FlushDone
  BY DEF OneFate
<1>2. /\ TypeOK /\ main.pc = "idle" /\ p \notin accepted
      /\ accepted' = accepted \cup {p}
      /\ forwarded \subseteq forwarded' /\ forwarded' \subseteq forwarded \cup {p}
      /\ UNCHANGED <<queue, heap, stack, sweep, reported>>
  BY DEF IInv, Receive, MainIdle, cache
<1>3. \A q : \A r \in Req, k \in Nat : Occurs(q, r, k)' <=> Occurs(q, r, k)
  BY <1>2 DEF Occurs
<1>4. \A r \in Req, k \in Nat : ~Occurs(p, r, k)
  BY <1>1, <1>2 DEF Known
<1>5. main'.pc = "idle" \/ (main'.pc = "queue" /\ main'.pkt = p /\ p \notin forwarded')
  <2>1. main \in Main
    BY <1>2 DEF TypeOK
  <2>2. p \notin forwarded
    BY <1>1, <1>2 DEF Known
  <2> QED BY <1>2, <2>1, <2>2 DEF Receive, Main
<1>6. Known'
  BY <1>1, <1>2, <1>3 DEF Known
<1>7. InHand'
  <2> SUFFICES ASSUME main'.pc = "queue" PROVE InHand'
    BY DEF InHand
  <2>1. main'.pkt = p /\ p \notin forwarded' /\ p \in accepted'
    BY <1>2, <1>5
  <2>2. p \notin reported'
    BY <1>1, <1>2 DEF Known
  <2>3. \A r \in Req, k \in Nat : ~Occurs(p, r, k)'
    BY <1>3, <1>4
  <2>4. \A r \in Req, k \in Nat : (~Occurs(main.pkt, r, k))'
    BY <2>1, <2>3 DEF Occurs
  <2> QED BY <2>1, <2>2, <2>4 DEF InHand
<1>8. Listed' /\ FlushDone'
  BY <1>1, <1>2, <1>5 DEF Listed, FlushDone
<1>9. ForwardedOut'
  BY <1>1, <1>2, <1>3, <1>4 DEF ForwardedOut, Reached
<1>10. ReportedWalked'
  BY <1>1, <1>2, <1>3 DEF ReportedWalked
<1>11. WalksDone' /\ FreedDone'
  BY <1>1, <1>2 DEF WalksDone, WalkDone, FreedDone, Done
<1> QED BY <1>6, <1>7, <1>8, <1>9, <1>10, <1>11 DEF OneFate

\* sr_arpcache_insert takes a request for main to flush, of which nothing has been sent.
LEMMA LearnFates ==
    ASSUME IInv, OneFate, NEW h \in Hop, NEW m \in Mac, Learn(h, m) PROVE OneFate'
<1> DEFINE x == Target(h)
<1>1. /\ Known /\ InHand /\ Listed /\ ForwardedOut /\ ReportedWalked
      /\ WalksDone /\ FreedDone /\ FlushDone
  BY DEF OneFate
<1>2. /\ TypeOK /\ main.pc = "idle" /\ UNCHANGED <<heap, stack, sweep, fates>>
  BY DEF IInv, Learn, MainIdle
<1>3. CASE UNCHANGED <<queue, main>>
  <2>1. /\ Known' /\ InHand' /\ Listed' /\ FlushDone' /\ FreedDone'
    BY <1>1, <1>2, <1>3 DEF Known, InHand, Listed, FlushDone, FreedDone, Occurs, Done, fates
  <2>2. ForwardedOut' /\ ReportedWalked' /\ WalksDone'
    BY <1>1, <1>2, <1>3 DEF ForwardedOut, ReportedWalked, WalksDone, WalkDone, Done,
                            Occurs, Reached, fates
  <2> QED BY <2>1, <2>2 DEF OneFate
<1>4. CASE Waiting(h) # {} /\ main' = FlushOf(x) /\ queue' = queue \ {x}
  <2>1. x \in queue /\ x \in Req
    BY <1>2, <1>4 DEF Target, Waiting, TypeOK
  <2>2. main'.pc = "flush" /\ main'.req = x /\ main'.k = Len(heap[x].pkts)
    BY <1>2, <1>4 DEF FlushOf, TypeOK, Main
  <2>3. Len(heap[x].pkts) \in Nat
    BY <1>2, <2>1 DEF TypeOK, Request
  <2>4. Known' /\ InHand' /\ Listed' /\ FreedDone'
    BY <1>1, <1>2, <1>4, <2>2 DEF Known, InHand, Listed, FreedDone, Occurs, Done, fates
  <2>5. FlushDone'
    BY <1>2, <2>2, <2>3 DEF FlushDone
  <2>6. ForwardedOut'
    BY <1>1, <1>2, <1>4 DEF ForwardedOut, Occurs, Reached, fates
  <2>7. ReportedWalked' /\ WalksDone'
    BY <1>1, <1>2 DEF ReportedWalked, WalksDone, WalkDone, Done, Occurs, fates
  <2> QED BY <2>4, <2>5, <2>6, <2>7 DEF OneFate
<1> QED BY <1>3, <1>4 DEF Learn, Unlink

\* main sends a packet of the request that is its own: no report was made of it, for a
\* report needs a call that gives the request up.
LEMMA FlushSendFates == ASSUME IInv, OneFate, FlushSend PROVE OneFate'
<1>1. /\ Known /\ InHand /\ Listed /\ ForwardedOut /\ ReportedWalked
      /\ WalksDone /\ FreedDone /\ FlushDone
  BY DEF OneFate
<1> DEFINE r == main.req  p == heap[main.req].pkts[main.k]
<1>2. /\ TypeOK /\ FlushOwned /\ main.pc = "flush" /\ main.k > 0 /\ r \in Req
      /\ forwarded' = forwarded \cup ({p} \cap Packet)
      /\ main' = [main EXCEPT !.k = @ - 1]
      /\ UNCHANGED <<queue, heap, stack, sweep, accepted, reported>>
  BY DEF IInv, FlushSend, cache, Control
<1>3. main'.pc = "flush" /\ main'.req = r /\ main'.k = main.k - 1 /\ main.k \in Nat
  BY <1>2 DEF TypeOK, Main
<1>4. /\ heap[r].pkts \in Seq(Packet \cup {Icmp}) /\ main.k \in 1..Len(heap[r].pkts)
  BY <1>1, <1>2, <1>3 DEF FlushDone, TypeOK, Request
<1>5. p \in Packet \cup {Icmp} /\ Occurs(p, r, main.k)
  BY <1>4 DEF Occurs
<1>6. \A q : \A s \in Req, k \in Nat : Occurs(q, s, k)' <=> Occurs(q, s, k)
  BY <1>2 DEF Occurs
<1>7. Known'
  BY <1>1, <1>2, <1>3, <1>5, <1>6 DEF Known
<1>8. InHand' /\ Listed'
  BY <1>1, <1>2, <1>3 DEF InHand, Listed
<1>9. ForwardedOut'
  <2> SUFFICES ASSUME NEW q \in forwarded', NEW s \in Req, NEW k \in Nat, Occurs(q, s, k)
               PROVE  ~Reached(s)'
    BY <1>6 DEF ForwardedOut
  <2>1. Reached(s)' => Reached(s)
    BY <1>2 DEF Reached
  <2>2. CASE q \in forwarded
    BY <1>1, <2>1, <2>2 DEF ForwardedOut
  <2>3. CASE q = p /\ p \in Packet
    <3>1. s = r
      BY <1>1, <1>2, <1>3, <1>5, <2>3 DEF Known
    <3> QED BY <1>2, <2>1, <3>1 DEF FlushOwned, Reached
  <2> QED BY <1>2, <2>2, <2>3
<1>10. ReportedWalked' /\ WalksDone'
  BY <1>1, <1>2 DEF ReportedWalked, WalksDone, WalkDone, Done, Occurs
<1>11. FreedDone'
  BY <1>1, <1>2 DEF FreedDone, Done
<1>12. FlushDone'
  <2>1. main'.k <= Len(heap[r].pkts)
    BY <1>3, <1>4
  <2> SUFFICES ASSUME NEW k \in 1..Len(heap[r].pkts), k > main.k - 1
               PROVE  heap[r].pkts[k] \in forwarded' \cup {Icmp}
    BY <1>2, <1>3, <2>1 DEF FlushDone
  <2>2. CASE k = main.k
    BY <1>2, <1>5, <2>2
  <2>3. CASE k # main.k
    <3>1. k > main.k
      BY <1>3, <2>3
    <3> QED BY <1>1, <1>2, <3>1 DEF FlushDone
  <2> QED BY <2>2, <2>3
<1> QED BY <1>7, <1>8, <1>9, <1>10, <1>11, <1>12 DEF OneFate

\* The flushed request is freed: all its packets have been sent.
LEMMA FlushDestroyFates == ASSUME IInv, OneFate, FlushDestroy PROVE OneFate'
<1>1. /\ Known /\ InHand /\ Listed /\ ForwardedOut /\ ReportedWalked
      /\ WalksDone /\ FreedDone /\ FlushDone
  BY DEF OneFate
<1>2. /\ TypeOK /\ main.pc = "flush" /\ main.k = 0 /\ main.req \in Req
      /\ Destroy(main.req) /\ main' = Idle /\ UNCHANGED <<stack, sweep, fates>>
  BY DEF IInv, FlushDestroy, Control
<1>3. PICK x \in Req : x = main.req
  BY <1>2
<1>4. /\ queue' = queue \ {x} /\ heap'[x].state = "freed"
      /\ \A r \in Req : heap'[r].pkts = heap[r].pkts
      /\ \A r \in Req : r # x => heap'[r].state = heap[r].state
  BY <1>2, <1>3 DEF Destroy, TypeOK, Request
<1>5. \A q : \A r \in Req, k \in Nat : Occurs(q, r, k)' <=> Occurs(q, r, k)
  BY <1>4 DEF Occurs
<1>6. Known' /\ InHand' /\ FlushDone'
  BY <1>1, <1>2, <1>5 DEF Known, InHand, FlushDone, Idle, fates
<1>7. Listed'
  BY <1>1, <1>2, <1>3, <1>4 DEF Listed
<1>8. ForwardedOut'
  BY <1>1, <1>2, <1>4, <1>5 DEF ForwardedOut, Reached, fates
<1>9. ReportedWalked'
  BY <1>1, <1>2, <1>4, <1>5 DEF ReportedWalked, fates
<1>10. WalksDone'
  <2> SUFFICES ASSUME NEW t \in Threads, NEW i \in 1..Len(stack[t]) PROVE WalkDone(stack[t][i])'
    BY <1>2 DEF WalksDone
  <2>1. PICK f \in Frame : f = stack[t][i]
    BY <1>2 DEF TypeOK
  <2>2. f = stack'[t][i]
    BY <1>2, <2>1
  <2>3. WalkDone(f) /\ heap'[f.req].pkts = heap[f.req].pkts
    BY <1>1, <1>4, <2>1 DEF WalksDone, Frame
  <2>4. WalkDone(f)'
    BY <1>2, <2>3 DEF WalkDone, Done, fates
  <2> QED BY <2>2, <2>4 DEF WalkDone
<1>11. FreedDone'
  <2> SUFFICES ASSUME NEW r \in Req, heap'[r].state = "freed", NEW k \in 1..Len(heap[r].pkts)
               PROVE  Done(heap[r].pkts[k]) \/ heap[r].pkts[k] \in forwarded
    BY <1>2, <1>4 DEF FreedDone, Done, fates
  <2>1. CASE r = x
    <3>1. heap[r].pkts[k] \in forwarded \cup {Icmp}
      BY <1>1, <1>2, <1>3, <2>1 DEF FlushDone
    <3> QED BY <3>1, ArpAssumption DEF Done
  <2>2. CASE r # x
    BY <1>1, <1>4, <2>2 DEF FreedDone
  <2> QED BY <2>1, <2>2
<1> QED BY <1>6, <1>7, <1>8, <1>9, <1>10, <1>11 DEF OneFate

\* Every step preserves OneFate.
LEMMA NextFates == IInv /\ IInv' /\ OneFate /\ [Next]_vars => OneFate'
<1> SUFFICES ASSUME IInv, IInv', OneFate, [Next]_vars PROVE OneFate'
  OBVIOUS
<1>1. TypeOK /\ TypeOK'
  BY DEF IInv
<1>2. CASE Tick
  BY <1>1, <1>2, TickFates
<1>3. ASSUME NEW p \in Packet, Receive(p) PROVE OneFate'
  BY <1>3, ReceiveFates
<1>4. ASSUME NEW h \in Hop, NEW m \in Mac, Learn(h, m) PROVE OneFate'
  BY <1>4, LearnFates
<1>5. CASE QueuePacket \/ FlushSend \/ FlushDestroy
  BY <1>1, <1>5, QueuePacketFates, FlushSendFates, FlushDestroyFates
<1>6. CASE SweepWake
  <2>1. sweep'.cur \in queue \cup {0}
    BY <1>1, <1>6, NewestOf DEF SweepWake, TypeOK
  <2> QED BY <1>1, <1>6, <2>1, StillFates DEF SweepWake
<1>7. CASE SweepDone
  <2>1. sweep'.cur = sweep.cur
    BY <1>1, <1>7 DEF SweepDone, TypeOK, Sweep
  <2> QED BY <1>1, <1>7, <2>1, StillFates DEF SweepDone, cache
<1>8. CASE SweepRequest
  BY <1>1, <1>8, SweepRequestFates
<1>9. ASSUME NEW t \in Threads, HandleStep(t) PROVE OneFate'
  <2>1. CASE UseAfterFree(t) \/ StackOverflow(t)
    BY <1>1, <2>1, StillFates DEF UseAfterFree, StackOverflow, Fail, cache
  <2> QED BY <1>1, <1>9, <2>1, CheckFates, CountingFates, WalkPacketFates, WalkQueueFates,
             WalkFreeFates, WalkDestroyFates DEF HandleStep
<1>10. CASE UNCHANGED vars
  BY <1>1, <1>10, StillFates DEF vars, fates
<1> QED BY <1>2, <1>3, <1>4, <1>5, <1>6, <1>7, <1>8, <1>9, <1>10
        DEF Next, Arrival, MainStep, SweepStep, Stopped, Threads

\* There is no packet yet.
LEMMA InitFates == Init => OneFate
<1> SUFFICES ASSUME Init PROVE OneFate
  OBVIOUS
<1>1. \A t \in Threads : 1..Len(stack[t]) = {}
  BY DEF Init
<1>2. \A r \in Req : heap[r].pkts = <<>> /\ heap[r].state = "unused"
  BY DEF Init, Unused
<1>3. \A p : \A r \in Req, k \in Nat : ~Occurs(p, r, k)
  BY <1>2 DEF Occurs
<1>4. main.pc = "idle" /\ forwarded = {} /\ reported = {} /\ accepted = {}
  BY DEF Init, Idle
<1>5. Known /\ InHand /\ ForwardedOut /\ ReportedWalked /\ FlushDone
  BY <1>3, <1>4 DEF Known, InHand, ForwardedOut, ReportedWalked, FlushDone
<1>6. Listed /\ WalksDone /\ FreedDone
  BY <1>1, <1>2 DEF Listed, WalksDone, FreedDone
<1> QED BY <1>5, <1>6 DEF OneFate

\* A packet is reported only in a request that a call can reach, ...
LEMMA ReportStep ==
    ASSUME IInv, OneFate, NeverBoth, NEW t \in Threads, WalkPacket(t) \/ WalkQueue(t)
    PROVE  NeverBoth'
<1> DEFINE f == Top(t)  p == heap[Top(t).req].pkts[Top(t).k]
<1>1. /\ Running(t)
      /\ f.pc = "queue" \/ (f.pc = "walk" /\ f.k > 0)
      /\ forwarded' = forwarded /\ reported' \subseteq reported \cup {p}
  BY DEF WalkPacket, WalkQueue, At
<1>2. Occurs(p, f.req, f.k) /\ f.k \in Nat /\ f.req \in Req
  BY <1>1, AtPacket, TopFacts DEF WalkPacket, WalkQueue, At
<1>3. Reached(f.req)
  BY <1>1, TopFacts DEF WalkPacket, WalkQueue, At, Reached
<1>4. p \notin forwarded
  BY <1>2, <1>3 DEF OneFate, ForwardedOut
<1> QED BY <1>1, <1>4 DEF NeverBoth

\* ... and sent from one that none can.
LEMMA SendStep == IInv /\ OneFate /\ NeverBoth /\ FlushSend => NeverBoth'
<1> SUFFICES ASSUME IInv, OneFate, NeverBoth, FlushSend PROVE NeverBoth'
  OBVIOUS
<1> DEFINE r == main.req  p == heap[main.req].pkts[main.k]
<1>1. /\ FlushOwned /\ main.pc = "flush" /\ r \in Req /\ main.k > 0 /\ main.k \in Nat
      /\ heap[r].state = "live"
      /\ forwarded' = forwarded \cup ({p} \cap Packet) /\ reported' = reported
  BY DEF IInv, FlushSend, FlushOwned, Control, TypeOK, Main
<1>2. heap[r].pkts \in Seq(Packet \cup {Icmp})
  BY <1>1 DEF IInv, TypeOK, Request
<1>3. Occurs(p, r, main.k)
  BY <1>1, <1>2 DEF OneFate, FlushDone, Occurs
<1>4. p \notin reported
  <2> SUFFICES ASSUME p \in reported PROVE FALSE
    OBVIOUS
  <2>1. PICK t \in Threads : \E i \in 1..Len(stack[t]) : Walks(stack[t][i], r)
    BY <1>1, <1>3 DEF OneFate, ReportedWalked
  <2> QED BY <1>1, <2>1 DEF FlushOwned, Walks
<1> QED BY <1>1, <1>4 DEF NeverBoth

\* No step gives a packet a second fate.
LEMMA NextNeverBoth == IInv /\ OneFate /\ NeverBoth /\ [Next]_vars => NeverBoth'
<1> SUFFICES ASSUME IInv, OneFate, NeverBoth, [Next]_vars PROVE NeverBoth'
  OBVIOUS
<1>1. CASE UNCHANGED <<forwarded, reported>>
  BY <1>1 DEF NeverBoth
<1>2. ASSUME NEW p \in Packet, Receive(p) PROVE NeverBoth'
  <2>1. p \notin reported /\ forwarded' \subseteq forwarded \cup {p} /\ reported' = reported
    BY <1>2 DEF Receive, OneFate, Known
  <2> QED BY <2>1 DEF NeverBoth
<1>3. CASE FlushSend
  BY <1>3, SendStep
<1>4. CASE Tick \/ QueuePacket \/ FlushDestroy \/ SweepWake \/ SweepRequest \/ SweepDone
  BY <1>1, <1>4 DEF Tick, QueuePacket, FlushDestroy, SweepWake, SweepRequest, SweepDone,
                    Fail, fates
<1>5. ASSUME NEW h \in Hop, NEW m \in Mac, Learn(h, m) PROVE NeverBoth'
  BY <1>1, <1>5 DEF Learn, fates
<1>6. ASSUME NEW t \in Threads, HandleStep(t) PROVE NeverBoth'
  <2>1. CASE WalkPacket(t) \/ WalkQueue(t)
    BY <2>1, ReportStep
  <2>2. CASE UseAfterFree(t) \/ StackOverflow(t) \/ HandleCheck(t) \/ HandleSend(t)
             \/ HandleStore(t) \/ HandleCount(t) \/ WalkFree(t) \/ WalkDestroy(t)
    BY <1>1, <2>2 DEF UseAfterFree, StackOverflow, HandleCheck, HandleSend, HandleStore, HandleCount,
                      WalkFree, WalkDestroy, Fail, fates
  <2> QED BY <1>6, <2>1, <2>2 DEF HandleStep
<1>7. CASE UNCHANGED vars
  BY <1>1, <1>7 DEF vars
<1> QED BY <1>2, <1>3, <1>4, <1>5, <1>6, <1>7
        DEF Next, Arrival, MainStep, SweepStep, Stopped, Threads

\* No packet is both delivered to its next hop and reported unreachable: the packets of
\* a request are reported while some call reaches it, and sent when none does.
THEOREM OneFateOnly == Spec => []NeverBoth
<1>1. Init => NeverBoth
  BY DEF Init, NeverBoth
<1>2. IInv /\ IInv' /\ OneFate /\ [Next]_vars => OneFate'
  BY NextFates
<1>3. IInv /\ OneFate /\ NeverBoth /\ [Next]_vars => NeverBoth'
  BY NextNeverBoth
<1> QED BY <1>1, <1>2, <1>3, InitFates, Invariant, PTL DEF Spec

(***************************************************************************)
(* The two threads implement ArpService.                                   *)
(***************************************************************************)
\* Packet p waits to be sent or reported.
Waits(p) == \/ main.pc = "queue" /\ main.pkt = p
            \/ \E r \in Req : Pending(r, p)

\* A step that leaves p's fate alone.
Unmoved(p) ==
    /\ p \in forwarded' <=> p \in forwarded
    /\ p \in reported' <=> p \in reported
    /\ p \in accepted' <=> p \in accepted
    /\ p \in forwarded \/ p \in reported \/ (Waits(p)' <=> Waits(p))

\* Waiting is being somewhere in a request on the list or in main's hands.
LEMMA PendingOccurs ==
    ASSUME NEW r \in Req, NEW p, heap[r].pkts \in Seq(Packet \cup {Icmp})
    PROVE  Pending(r, p) <=> /\ r \in queue \/ (main.pc = "flush" /\ r = main.req)
                             /\ \E k \in Nat : Occurs(p, r, k)
  BY DEF Pending, Occurs

\* The fates that change are those of packets that move.
LEMMA UnmovedFate == ASSUME NEW p \in Packet, Unmoved(p) PROVE Fate'[p] = Fate[p]
<1>1. Fate[p] = IF p \in forwarded THEN "delivered"
                ELSE IF p \in reported THEN "reported"
                ELSE IF p \notin accepted THEN "new"
                ELSE IF Waits(p) THEN "waiting" ELSE "dropped"
  BY DEF Fate, Waits
<1>2. Fate'[p] = IF p \in forwarded' THEN "delivered"
                 ELSE IF p \in reported' THEN "reported"
                 ELSE IF p \notin accepted' THEN "new"
                 ELSE IF Waits(p)' THEN "waiting" ELSE "dropped"
  BY DEF Fate, Waits
<1> QED BY <1>1, <1>2 DEF Unmoved

\* No packet moves: no fate changes.
LEMMA StillFate == (\A p \in Packet : Unmoved(p)) => Fate' = Fate
<1> SUFFICES ASSUME \A p \in Packet : Unmoved(p) PROVE Fate' = Fate
  OBVIOUS
<1>1. \A p \in Packet : Fate'[p] = Fate[p]
  BY UnmovedFate
<1>2. Fate = [p \in Packet |-> Fate[p]] /\ Fate' = [p \in Packet |-> Fate'[p]]
  BY DEF Fate
<1> QED BY <1>1, <1>2

\* One packet moves: its fate alone may change.
LEMMA OneFateMoves ==
    ASSUME NEW p \in Packet, \A q \in Packet \ {p} : Unmoved(q)
    PROVE  Fate' = [Fate EXCEPT ![p] = Fate'[p]]
<1>1. \A q \in Packet \ {p} : Fate'[q] = Fate[q]
  BY UnmovedFate
<1>2. Fate = [q \in Packet |-> Fate[q]] /\ Fate' = [q \in Packet |-> Fate'[q]]
  BY DEF Fate
<1> QED BY <1>1, <1>2

\* A step of the two threads is a step of the service or none.
Serves == [Service!Next]_(Service!vars)

\* No packet moves and the router runs on: the service sees nothing.
LEMMA Stutters ==
    ASSUME \A p \in Packet : Unmoved(p), fault' = fault PROVE Serves
<1>1. Fate' = Fate
  BY StillFate
<1> QED BY <1>1 DEF Serves, Service!vars

\* Packets stay where they are.
LEMMA StaysPut ==
    ASSUME queue' = queue, main'.pc = main.pc, main'.pkt = main.pkt, main'.req = main.req,
           \A r \in Req : heap'[r].pkts = heap[r].pkts
    PROVE  \A p : Waits(p)' <=> Waits(p)
  BY DEF Waits, Pending

\* A memory error is the service's failure.
LEMMA Fails ==
    ASSUME fault = "none", NEW kind \in {"use_after_free", "double_free", "stack_overflow"}, Fail(kind)
    PROVE  Serves
<1>1. /\ UNCHANGED <<queue, heap, main, accepted, forwarded, reported>> /\ fault' = kind
  BY DEF Fail, cache, fates
<1>2. \A p \in Packet : Unmoved(p)
  BY <1>1, StaysPut DEF Unmoved
<1>3. Fate' = Fate
  BY <1>2, StillFate
<1>4. Service!Fail
  BY <1>1, <1>3 DEF Service!Fail
<1> QED BY <1>4 DEF Serves, Service!Next

\* A packet from the wire is accepted: delivered at once or waiting.
LEMMA ReceiveServes == ASSUME IInv, OneFate, NEW p \in Packet, Receive(p) PROVE Serves
<1>1. /\ TypeOK /\ main.pc = "idle" /\ p \notin accepted /\ fault = "none"
      /\ accepted' = accepted \cup {p}
      /\ UNCHANGED <<queue, heap, reported, fault>>
      /\ p \notin forwarded /\ p \notin reported
  BY DEF IInv, Receive, MainIdle, cache, OneFate, Known
<1>2. \/ forwarded' = forwarded \cup {p} /\ main' = main
      \/ forwarded' = forwarded /\ main'.pc = "queue" /\ main'.pkt = p
  BY <1>1 DEF Receive, TypeOK, Main
<1>3. \A q : \A r \in Req : Pending(r, q)' <=> Pending(r, q)
  BY <1>1, <1>2 DEF Pending
<1>4. \A q \in Packet \ {p} : Unmoved(q)
  BY <1>1, <1>2, <1>3 DEF Unmoved, Waits
<1>5. Fate[p] = "new"
  BY <1>1 DEF Fate
<1>6. Fate'[p] \in {"waiting", "delivered"}
  BY <1>1, <1>2 DEF Fate
<1>7. Service!Becomes(p, "waiting") \/ Service!Becomes(p, "delivered")
  BY <1>4, <1>6, OneFateMoves DEF Service!Becomes
<1>8. Service!Accept(p)
  BY <1>1, <1>5, <1>7 DEF Service!Accept
<1> QED BY <1>8 DEF Serves, Service!Next

\* The packet main had in hand waits in a request.
LEMMA QueuePacketServes == ASSUME IInv, OneFate, QueuePacket PROVE Serves
<1>1. /\ TypeOK /\ Control /\ main.pc = "queue" /\ main'.pc = "idle"
      /\ Target(NextHop[main.pkt]) \in Req /\ QueueReq(NextHop[main.pkt], main.pkt)
      /\ main.pkt \in Packet /\ NextHop[main.pkt] \in Hop
      /\ UNCHANGED <<accepted, forwarded, reported, fault>>
  BY ArpAssumption DEF IInv, Control, QueuePacket, Idle, fates
<1>2. PICK h \in Hop, p \in Packet, x \in Req :
         h = NextHop[main.pkt] /\ p = main.pkt /\ x = Target(h)
  BY <1>1
<1>3. p \in Packet \cup {Icmp} /\ QueueReq(h, p)
  BY <1>1, <1>2
<1>4. /\ \A r \in Req : r \in queue \/ r # x => \A q : \A k \in Nat :
           Occurs(q, r, k) => Occurs(q, r, k)'
      /\ \A r \in Req : \A q : \A k \in Nat : Occurs(q, r, k)' =>
           \/ Occurs(q, r, k) /\ (r \in queue \/ r # x)
           \/ q = p /\ r = x
      /\ \E k \in Nat : Occurs(p, x, k)'
      /\ queue' = queue \cup {x}
  BY <1>2, <1>3, QueueReqOccurs
<1>5. \A r \in Req : /\ heap[r].pkts \in Seq(Packet \cup {Icmp})
                     /\ heap'[r].pkts \in Seq(Packet \cup {Icmp})
  <2>1. heap' \in [Req -> Request]
    BY <1>1, <1>2, <1>3, QueueReqHeap DEF IInv
  <2> QED BY <1>1, <2>1 DEF TypeOK, Request
<1>6. \A q : \A r \in Req : Pending(r, q) <=> r \in queue /\ \E k \in Nat : Occurs(q, r, k)
  BY <1>1, <1>5, PendingOccurs
<1>7. \A q : \A r \in Req : Pending(r, q)' <=> r \in queue' /\ \E k \in Nat : Occurs(q, r, k)'
  BY <1>1, <1>5 DEF Pending, Occurs
<1>8. \A q \in Packet \ {p} : Waits(q)' <=> Waits(q)
  <2>1. \A q \in Packet \ {p}, r \in Req : Pending(r, q)' <=> Pending(r, q)
    BY <1>4, <1>6, <1>7
  <2> QED BY <1>1, <1>2, <2>1 DEF Waits
<1>9. Waits(p)' /\ Waits(p)
  <2>1. Pending(x, p)'
    BY <1>4, <1>7
  <2> QED BY <1>1, <1>2, <2>1 DEF Waits
<1> QED BY <1>1, <1>8, <1>9, Stutters DEF Unmoved

\* The request sr_arpcache_insert unlinks goes from the list to main.
LEMMA LearnServes ==
    ASSUME IInv, NEW h \in Hop, NEW m \in Mac, Learn(h, m) PROVE Serves
<1> DEFINE x == Target(h)
<1>1. /\ TypeOK /\ main.pc = "idle"
      /\ UNCHANGED <<heap, accepted, forwarded, reported, fault>>
  BY DEF IInv, Learn, MainIdle, fates
<1>2. CASE UNCHANGED <<queue, main>>
  BY <1>1, <1>2, StaysPut, Stutters DEF Unmoved
<1>3. CASE Waiting(h) # {} /\ main' = FlushOf(x) /\ queue' = queue \ {x}
  <2>1. x \in queue
    BY <1>3 DEF Target, Waiting
  <2>2. main'.pc = "flush" /\ main'.req = x
    BY <1>1, <1>3 DEF FlushOf, TypeOK, Main
  <2>3. \A q : Waits(q)' <=> Waits(q)
    BY <1>1, <1>3, <2>1, <2>2 DEF Waits, Pending
  <2> QED BY <1>1, <2>3, Stutters DEF Unmoved
<1> QED BY <1>2, <1>3 DEF Learn, Unlink

\* main delivers a packet that waited in the request it flushes.
LEMMA FlushSendServes == ASSUME IInv, OneFate, NeverBoth', FlushSend PROVE Serves
<1> DEFINE r == main.req  p == heap[main.req].pkts[main.k]
<1>1. /\ TypeOK /\ main.pc = "flush" /\ main.k > 0 /\ r \in Req /\ fault = "none"
      /\ forwarded' = forwarded \cup ({p} \cap Packet)
      /\ main' = [main EXCEPT !.k = @ - 1]
      /\ UNCHANGED <<queue, heap, accepted, reported, fault>>
  BY DEF IInv, FlushSend, cache, Control
<1>2. main'.pc = main.pc /\ main'.pkt = main.pkt /\ main'.req = main.req /\ main.k \in Nat
  BY <1>1 DEF TypeOK, Main
<1>3. \A q : Waits(q)' <=> Waits(q)
  BY <1>1, <1>2, StaysPut
<1>4. CASE p \notin Packet \/ p \in forwarded
  BY <1>1, <1>3, <1>4, Stutters DEF Unmoved
<1>5. CASE p \in Packet /\ p \notin forwarded
  <2>1. PICK q \in Packet : q = p
    BY <1>5
  <2>2. /\ main.k \in 1..Len(heap[r].pkts) /\ heap[r].pkts[main.k] = q
        /\ heap[r].pkts \in Seq(Packet \cup {Icmp})
    BY <1>1, <1>2, <2>1 DEF OneFate, FlushDone, TypeOK, Request
  <2>3. q \in accepted /\ Waits(q)
    <3>1. Occurs(q, r, main.k)
      BY <2>2 DEF Occurs
    <3> QED BY <1>1, <1>2, <2>2, <3>1 DEF OneFate, Known, Waits, Pending
  <2>4. q \notin forwarded /\ q \notin reported /\ q \in forwarded'
    BY <1>1, <1>5, <2>1 DEF NeverBoth
  <2>5. Fate[q] = "waiting" /\ Fate'[q] = "delivered"
    BY <2>3, <2>4 DEF Fate, Waits
  <2>6. \A s \in Packet \ {q} : Unmoved(s)
    BY <1>1, <1>3, <2>1 DEF Unmoved
  <2>7. Service!Deliver(q)
    BY <1>1, <2>5, <2>6, OneFateMoves DEF Service!Deliver, Service!Becomes
  <2> QED BY <2>7 DEF Serves, Service!Next, Service!Settle
<1> QED BY <1>4, <1>5

\* No packet waits in the flushed request any more.
LEMMA FlushDestroyServes == ASSUME IInv, OneFate, FlushDestroy PROVE Serves
<1>1. /\ TypeOK /\ FlushOwned /\ main.pc = "flush" /\ main.k = 0 /\ main.req \in Req
      /\ Destroy(main.req) /\ main'.pc = "idle"
      /\ UNCHANGED <<accepted, forwarded, reported, fault>>
  BY DEF IInv, FlushDestroy, Control, Idle, fates
<1>2. queue' = queue /\ \A r \in Req : heap'[r].pkts = heap[r].pkts
  BY <1>1 DEF Destroy, FlushOwned, TypeOK, Request
<1>3. ASSUME NEW p \in Packet PROVE Unmoved(p)
  <2>1. CASE \E k \in 1..Len(heap[main.req].pkts) : heap[main.req].pkts[k] = p
    <3>1. p \in forwarded
      BY <1>1, <2>1, ArpAssumption DEF OneFate, FlushDone
    <3> QED BY <1>1, <3>1 DEF Unmoved
  <2>2. CASE ~\E k \in 1..Len(heap[main.req].pkts) : heap[main.req].pkts[k] = p
    <3>1. Waits(p)' <=> Waits(p)
      BY <1>1, <1>2, <2>2 DEF Waits, Pending
    <3> QED BY <1>1, <3>1 DEF Unmoved
  <2> QED BY <2>1, <2>2
<1> QED BY <1>1, <1>3, Stutters

\* A report settles the packet the walk stands at, if nothing did so before.
LEMMA ReportServes ==
    ASSUME IInv, OneFate, NeverBoth', NEW t \in Threads, Running(t),
           Top(t).pc = "queue" \/ (Top(t).pc = "walk" /\ Top(t).k > 0),
           NEW p \in Packet, p = heap[Top(t).req].pkts[Top(t).k], SrcHop[p] # NoHop,
           reported' = reported \cup ({p} \cap Packet), UNCHANGED <<accepted, forwarded, fault>>,
           \A q \in Packet : Waits(q)' <=> Waits(q)
    PROVE  Serves
<1>1. CASE p \in reported
  BY <1>1, Stutters DEF Unmoved
<1>2. CASE p \notin reported
  <2>1. PICK r \in Req, k \in Nat : r = Top(t).req /\ k = Top(t).k /\ Occurs(p, r, k)
    BY AtPacket, TopFacts
  <2>2. p \in accepted /\ p \notin forwarded /\ p \in reported'
    BY <2>1 DEF OneFate, Known, NeverBoth
  <2>3. heap[r].state # "freed"
    <3> SUFFICES ASSUME heap[r].state = "freed" PROVE FALSE
      OBVIOUS
    <3>1. Done(p) \/ p \in forwarded
      BY <2>1 DEF OneFate, FreedDone, Occurs
    <3> QED BY <1>2, <2>2, <3>1 DEF Done
  <2>4. Pending(r, p)
    BY <2>1, <2>3 DEF OneFate, Listed, Occurs, Pending
  <2>5. Waits(p)
    BY <2>4 DEF Waits
  <2>6. Fate[p] = "waiting" /\ Fate'[p] = "reported"
    BY <1>2, <2>2, <2>5 DEF Fate, Waits
  <2>7. \A q \in Packet \ {p} : Unmoved(q)
    BY DEF Unmoved
  <2>8. fault = "none" /\ p \notin {q \in Packet : SrcHop[q] = NoHop}
    BY DEF Running
  <2>9. Service!Report(p)
    BY <2>6, <2>7, <2>8, OneFateMoves DEF Service!Report, Service!Becomes
  <2> QED BY <2>9 DEF Serves, Service!Next, Service!Settle
<1> QED BY <1>1, <1>2

\* Host unreachable is sent at once, or there is no route to the source.
LEMMA WalkPacketServes ==
    ASSUME IInv, OneFate, NeverBoth', NEW t \in Threads, WalkPacket(t) PROVE Serves
<1> DEFINE f == Top(t)  p == heap[Top(t).req].pkts[Top(t).k]
<1>1. /\ Running(t) /\ Top(t).pc = "walk" /\ Top(t).k > 0
      /\ UNCHANGED <<queue, heap, main, accepted, forwarded, fault>>
      /\ \/ reported' = reported
         \/ reported' = reported \cup ({p} \cap Packet) /\ SourceOf(p, f.req) # NoHop
  BY DEF WalkPacket, At, cache
<1>2. \A q : Waits(q)' <=> Waits(q)
  BY <1>1, StaysPut
<1>3. CASE reported' = reported
  BY <1>1, <1>2, <1>3, Stutters DEF Unmoved
<1>4. CASE /\ p \in Packet /\ reported' = reported \cup ({p} \cap Packet)
           /\ SourceOf(p, f.req) # NoHop
  <2>1. PICK q \in Packet : q = p
    BY <1>4
  <2>2. SrcHop[q] # NoHop
    BY <1>4, <2>1 DEF SourceOf
  <2> QED BY <1>1, <1>2, <1>4, <2>1, <2>2, ReportServes
<1>5. p \notin Packet => {p} \cap Packet = {}
  OBVIOUS
<1> QED BY <1>1, <1>3, <1>4, <1>5

\* Host unreachable is queued: it waits, and no packet moves.
LEMMA WalkQueueServes ==
    ASSUME IInv, OneFate, NeverBoth', NEW t \in Threads, WalkQueue(t) PROVE Serves
<1> DEFINE f == Top(t)
           p == heap[Top(t).req].pkts[Top(t).k]
<1>1. /\ TypeOK /\ Control /\ Allocated /\ FlushOwned
      /\ Running(t) /\ Top(t).pc = "queue" /\ reported' = reported \cup ({p} \cap Packet)
      /\ Target(SourceOf(p, f.req)) \in Req /\ QueueReq(SourceOf(p, f.req), Icmp)
      /\ UNCHANGED <<main, accepted, forwarded, fault>>
  BY DEF IInv, WalkQueue, At
<1>2. SourceOf(p, f.req) \in Hop
  BY <1>1, TopFacts DEF FrameOK
<1>3. p \in Packet => SrcHop[p] # NoHop
  BY <1>2, ArpAssumption DEF SourceOf
<1>4. PICK h \in Hop, x \in Req, i \in Packet \cup {Icmp} :
         h = SourceOf(p, f.req) /\ x = Target(h) /\ i = Icmp
  BY <1>1, <1>2
<1>5. QueueReq(h, i) /\ i \notin Packet
  BY <1>1, <1>4, ArpAssumption
<1>6. /\ \A r \in Req : r \in queue \/ r # x => \A s : \A k \in Nat :
           Occurs(s, r, k) => Occurs(s, r, k)'
      /\ \A r \in Req : \A s : \A k \in Nat : Occurs(s, r, k)' =>
           \/ Occurs(s, r, k) /\ (r \in queue \/ r # x)
           \/ s = i /\ r = x
      /\ queue' = queue \cup {x}
      /\ x \in queue \/ x = created + 1
  BY <1>4, <1>5, QueueReqOccurs
<1>7. \A r \in Req : /\ heap[r].pkts \in Seq(Packet \cup {Icmp})
                     /\ heap'[r].pkts \in Seq(Packet \cup {Icmp})
  <2>1. heap' \in [Req -> Request]
    BY <1>1, <1>4, <1>5, QueueReqHeap DEF IInv
  <2> QED BY <1>1, <2>1 DEF TypeOK, Request
<1>8. main.pc = "flush" => main.req # x
  BY <1>1, <1>6 DEF Control, FlushOwned, Allocated, TypeOK, Req
<1>9. \A s \in Packet : Waits(s)' <=> Waits(s)
  <2> SUFFICES ASSUME NEW s \in Packet, NEW r \in Req
               PROVE  Pending(r, s)' <=> Pending(r, s)
    BY <1>1 DEF Waits
  <2>1. Pending(r, s) <=> /\ r \in queue \/ (main.pc = "flush" /\ r = main.req)
                          /\ \E k \in Nat : Occurs(s, r, k)
    BY <1>7, PendingOccurs
  <2>2. Pending(r, s)' <=> /\ r \in queue' \/ (main.pc = "flush" /\ r = main.req)
                           /\ \E k \in Nat : Occurs(s, r, k)'
    BY <1>1, <1>7 DEF Pending, Occurs
  <2>3. s # i
    BY <1>5
  <2> QED BY <1>6, <1>8, <2>1, <2>2, <2>3
<1>10. CASE p \in Packet
  <2>1. PICK q \in Packet : q = p
    BY <1>10
  <2> QED BY <1>1, <1>3, <1>9, <2>1, ReportServes
<1>11. CASE p \notin Packet
  <2>1. reported' = reported
    BY <1>1, <1>11
  <2> QED BY <1>1, <1>9, <2>1, Stutters DEF Unmoved
<1> QED BY <1>10, <1>11

\* A request that is given up takes with it only what cannot be reported.
LEMMA WalkDestroyServes ==
    ASSUME IInv, OneFate, NEW t \in Threads, WalkDestroy(t) PROVE Serves
<1> DEFINE f == Top(t)
<1>1. CASE Fail("double_free")
  BY <1>1, Fails DEF WalkDestroy, At, Running
<1>2. CASE ~Fail("double_free")
  <2>1. /\ TypeOK /\ Running(t) /\ f.pc = "walk" /\ f.k = 0 /\ fault = "none"
        /\ Destroy(f.req) /\ UNCHANGED <<main, accepted, forwarded, reported, fault>>
    BY <1>2 DEF IInv, WalkDestroy, At, Running, fates
  <2>2. PICK x \in Req : x = f.req
    BY <2>1, TopFacts
  <2>3. /\ queue' = queue \ {x} /\ \A r \in Req : heap'[r].pkts = heap[r].pkts
    BY <2>1, <2>2 DEF Destroy, TypeOK, Request
  <2>4. \A k \in 1..Len(heap[x].pkts) : Done(heap[x].pkts[k])
    <3>1. WalkDone(f)
      BY <2>1, TopFacts DEF OneFate, WalksDone
    <3>2. \A k \in 1..Len(heap[x].pkts) : k > 0
      OBVIOUS
    <3> QED BY <2>1, <2>2, <3>1, <3>2 DEF WalkDone
  <2> DEFINE Unroutable == {p \in Packet : SrcHop[p] = NoHop}
             S == {p \in Packet : Fate[p] = "waiting" /\ Fate'[p] # Fate[p]}
  <2>5. ASSUME NEW p \in Packet, ~Unmoved(p)
        PROVE  p \in Unroutable /\ Fate[p] = "waiting" /\ Fate'[p] = "dropped"
    <3>1. p \notin forwarded /\ p \notin reported /\ ~(Waits(p)' <=> Waits(p))
      BY <2>1, <2>5 DEF Unmoved
    <3>2. Waits(p) /\ ~Waits(p)'
      BY <2>1, <2>3, <3>1 DEF Waits, Pending
    <3>3. Pending(x, p)
      BY <2>1, <2>3, <3>2 DEF Waits, Pending
    <3>4. PICK k \in 1..Len(heap[x].pkts) : heap[x].pkts[k] = p
      BY <3>3 DEF Pending
    <3>5. SrcHop[p] = NoHop
      BY <2>4, <3>1, <3>4 DEF Done
    <3>6. p \in accepted
      <4>1. k \in Nat /\ Occurs(p, x, k)
        BY <3>4 DEF Occurs
      <4> QED BY <4>1 DEF OneFate, Known
    <3> QED BY <2>1, <3>1, <3>2, <3>5, <3>6 DEF Fate, Waits
  <2>6. \A p \in Packet : Fate'[p] = IF p \in S THEN "dropped" ELSE Fate[p]
    BY <2>5, UnmovedFate
  <2>7. \A p \in S : p \in Unroutable /\ Fate[p] = "waiting"
    BY <2>5, UnmovedFate
  <2>8. /\ Fate' = [p \in Packet |-> Fate'[p]]
        /\ Fate  = [p \in Packet |-> Fate[p]]
    BY DEF Fate
  <2>9. CASE S = {}
    <3>1. Fate' = Fate
      BY <2>6, <2>8, <2>9
    <3> QED BY <2>1, <3>1 DEF Serves, Service!vars
  <2>10. CASE S # {}
    <3>1. PICK T \in SUBSET Packet : T = S
      OBVIOUS
    <3>2. Fate' = [p \in Packet |-> IF p \in T THEN "dropped" ELSE Fate[p]]
      BY <2>6, <2>8, <3>1
    <3>3. Service!Drop(T)
      BY <2>1, <2>7, <2>10, <3>1, <3>2 DEF Service!Drop
    <3>4. PICK p \in Packet : p \in T
      BY <2>10, <3>1
    <3> QED BY <3>3, <3>4 DEF Serves, Service!Next, Service!Settle
  <2> QED BY <2>9, <2>10
<1> QED BY <1>1, <1>2

\* Waiting, counting and sending ARP requests settle no packet.
LEMMA QuietServes ==
    ASSUME IInv, Tick \/ SweepWake \/ SweepDone \/ \E t \in Threads :
              HandleCheck(t) \/ HandleSend(t) \/ HandleStore(t) \/ HandleCount(t)
    PROVE  Serves
<1>1. /\ TypeOK /\ UNCHANGED <<queue, main, accepted, forwarded, reported, fault>>
  BY DEF IInv, Tick, SweepWake, SweepDone, HandleCheck, HandleSend, HandleStore, HandleCount,
         cache, fates
<1>2. \A r \in Req : heap'[r].pkts = heap[r].pkts
  <2>1. CASE heap' = heap
    BY <2>1
  <2>2. CASE Tick
    BY <1>1, <2>2 DEF Tick, TypeOK, Request
  <2>3. ASSUME NEW t \in Threads, HandleSend(t) \/ HandleStore(t) \/ HandleCount(t)
        PROVE  \A r \in Req : heap'[r].pkts = heap[r].pkts
    <3>1. Top(t).req \in Req
      BY <2>3, TopFacts DEF HandleSend, HandleStore, HandleCount, At
    <3>2. CASE HandleSend(t)
      BY <1>1, <3>1, <3>2 DEF HandleSend, TypeOK, Request
    <3>3. CASE HandleStore(t)
      BY <1>1, <3>1, <3>3 DEF HandleStore, TypeOK, Request
    <3>4. CASE HandleCount(t)
      BY <1>1, <3>1, <3>4 DEF HandleCount, TypeOK, Request
    <3> QED BY <2>3, <3>2, <3>3, <3>4
  <2> QED BY <2>1, <2>2, <2>3 DEF SweepWake, SweepDone, HandleCheck, cache
<1> QED BY <1>1, <1>2, StaysPut, Stutters DEF Unmoved

\* Every step of the threads is one of the service.
LEMMA NextServes ==
    IInv /\ OneFate /\ NeverBoth' /\ [Next]_vars => Serves
<1> SUFFICES ASSUME IInv, OneFate, NeverBoth', [Next]_vars PROVE Serves
  OBVIOUS
<1>1. CASE Tick \/ SweepWake \/ SweepDone
  BY <1>1, QuietServes
<1>2. ASSUME NEW p \in Packet, Receive(p) PROVE Serves
  BY <1>2, ReceiveServes
<1>3. ASSUME NEW h \in Hop, NEW m \in Mac, Learn(h, m) PROVE Serves
  BY <1>3, LearnServes
<1>4. CASE QueuePacket \/ FlushSend \/ FlushDestroy
  BY <1>4, QueuePacketServes, FlushSendServes, FlushDestroyServes
<1>5. CASE SweepRequest
  <2>1. CASE Fail("use_after_free")
    BY <1>5, <2>1, Fails DEF SweepRequest
  <2>2. CASE ~Fail("use_after_free")
    <3>1. UNCHANGED <<queue, heap, main, accepted, forwarded, reported, fault>>
      BY <1>5, <2>2 DEF SweepRequest, cache, fates
    <3> QED BY <3>1, StaysPut, Stutters DEF Unmoved
  <2> QED BY <2>1, <2>2
<1>6. ASSUME NEW t \in Threads, HandleStep(t) PROVE Serves
  <2>1. CASE UseAfterFree(t) \/ StackOverflow(t)
    BY <2>1, Fails DEF UseAfterFree, StackOverflow, At, Running
  <2>2. CASE WalkFree(t)
    <3>1. CASE Fail("double_free")
      BY <2>2, <3>1, Fails DEF WalkFree, At, Running
    <3>2. CASE ~Fail("double_free")
      <4>1. /\ heap' = [heap EXCEPT ![Top(t).req].gone = @ \cup {Top(t).k}]
            /\ UNCHANGED <<queue, main, accepted, forwarded, reported, fault>>
            /\ Top(t).req \in Req /\ TypeOK
        BY <2>2, <3>2, TopFacts DEF WalkFree, At, fates, IInv
      <4>2. \A r \in Req : heap'[r].pkts = heap[r].pkts
        BY <4>1 DEF TypeOK, Request
      <4> QED BY <4>1, <4>2, StaysPut, Stutters DEF Unmoved
    <3> QED BY <3>1, <3>2
  <2>3. CASE HandleCheck(t) \/ HandleSend(t) \/ HandleStore(t) \/ HandleCount(t)
    BY <2>3, QuietServes
  <2>4. CASE WalkPacket(t) \/ WalkQueue(t) \/ WalkDestroy(t)
    BY <2>4, WalkPacketServes, WalkQueueServes, WalkDestroyServes
  <2> QED BY <1>6, <2>1, <2>2, <2>3, <2>4 DEF HandleStep
<1>7. CASE UNCHANGED vars
  <2>1. UNCHANGED <<queue, heap, main, accepted, forwarded, reported, fault>>
    BY <1>7 DEF vars
  <2> QED BY <2>1, StaysPut, Stutters DEF Unmoved
<1> QED BY <1>1, <1>2, <1>3, <1>4, <1>5, <1>6, <1>7
        DEF Next, Arrival, MainStep, SweepStep, Stopped, Threads

\* Every packet goes through the fates ArpService allows, in its order, whatever the
\* two threads do to each other and however late they run: none is lost.
THEOREM ImplementsService == Spec => ServiceSafe
<1>1. Init => NeverBoth /\ Service!Init
  BY DEF Init, NeverBoth, Fate, Service!Init
<1>2. IInv /\ IInv' /\ OneFate /\ [Next]_vars => OneFate'
  BY NextFates
<1>3. IInv /\ OneFate /\ NeverBoth /\ [Next]_vars => NeverBoth'
  BY NextNeverBoth
<1>4. IInv /\ OneFate /\ NeverBoth' /\ [Next]_vars => [Service!Next]_(Service!vars)
  BY NextServes DEF Serves
<1> QED BY <1>1, <1>2, <1>3, <1>4, InitFates, Invariant, PTL DEF Spec, ServiceSafe, Service!Spec

(***************************************************************************)
(* Time, when the threads keep up with the clock.                          *)
(***************************************************************************)
\* A mapping past its lifetime is at most one second past it, and then the sweep that
\* expires it is due before the clock moves on.
Aging == \A s \in Slot : entries[s].valid =>
            entries[s].age <= ArpTO + (IF sweep.slept THEN 1 ELSE 0)

\* The clock waits for the sweep; the sweep drops what has expired.
LEMMA NextAging == ASSUME Timely PROVE IInv /\ Aging /\ [Next]_vars => Aging'
<1> SUFFICES ASSUME IInv, Aging, [Next]_vars PROVE Aging'
  OBVIOUS
<1>0. /\ entries \in [Slot -> Mapping \cup {Invalid}] /\ sweep \in Sweep
      /\ ArpTO \in Nat /\ sweep.slept \in BOOLEAN
  BY ArpAssumption DEF IInv, TypeOK, Sweep
<1>1. CASE Tick
  <2>1. sweep'.slept /\ ~sweep.slept
    BY <1>0, <1>1 DEF Tick, Settled, Sweep
  <2> SUFFICES ASSUME NEW s \in Slot, entries'[s].valid PROVE entries'[s].age <= ArpTO + 1
    BY <2>1 DEF Aging
  <2>2. entries'[s] = IF entries[s].valid THEN [entries[s] EXCEPT !.age = Older(@, EntryCap)]
                      ELSE entries[s]
    BY <1>1 DEF Tick
  <2>3. entries[s] \in Mapping
    BY <1>0, <2>2 DEF Invalid
  <2>6. entries[s].valid /\ entries[s].age \in Nat
    <3>1. \A e \in Mapping : e.age \in Nat
      BY <1>0 DEF Mapping, EntryCap
    <3>2. \A e \in Mapping : e.valid
      BY DEF Mapping
    <3> QED BY <2>3, <3>1, <3>2
  <2>4. entries[s].valid /\ entries[s].age \in Nat /\ entries[s].age <= ArpTO
    BY <1>0, <2>1, <2>6 DEF Aging
  <2>5. entries'[s].age = Older(entries[s].age, EntryCap)
    BY <2>2, <2>3, <2>4 DEF Mapping
  <2> QED BY <1>0, <2>4, <2>5 DEF Older, EntryCap
<1>2. CASE UNCHANGED <<entries, sweep>>
  BY <1>2 DEF Aging
<1>3. ASSUME NEW h \in Hop, NEW m \in Mac, Learn(h, m) PROVE Aging'
  <2>1. PICK x : entries' = IF FreeSlots = {} THEN entries
                 ELSE [entries EXCEPT ![x] = [valid |-> TRUE, ip |-> h, mac |-> m, age |-> 0]]
    BY <1>3 DEF Learn
  <2>2. sweep' = sweep
    BY <1>3 DEF Learn
  <2> SUFFICES ASSUME NEW s \in Slot, entries'[s].valid
               PROVE  entries'[s].age <= ArpTO + (IF sweep.slept THEN 1 ELSE 0)
    BY <2>2 DEF Aging
  <2>3. entries'[s] = entries[s] \/ entries'[s].age = 0
    BY <1>0, <2>1
  <2> QED BY <1>0, <2>3 DEF Aging
<1>4. CASE SweepWake
  <2>1. \A s \in Slot : entries'[s] = IF Expired(s) THEN Invalid ELSE entries[s]
    BY <1>4 DEF SweepWake
  <2> SUFFICES ASSUME NEW s \in Slot, entries'[s].valid PROVE entries'[s].age <= ArpTO
    BY <1>4, <1>0 DEF SweepWake, Aging
  <2>2. ~Expired(s) /\ entries'[s] = entries[s]
    BY <2>1 DEF Invalid
  <2>3. entries[s] \in Mapping
    BY <1>0, <2>2 DEF Invalid
  <2> QED BY <1>0, <2>2, <2>3 DEF Expired, Mapping
<1>5. CASE SweepRequest \/ SweepDone
  <2>1. entries' = entries /\ sweep'.slept = sweep.slept
    BY <1>0, <1>5 DEF SweepRequest, SweepDone, Fail, cache, Sweep
  <2> QED BY <2>1 DEF Aging
<1>6. ASSUME NEW p \in Packet, Receive(p) PROVE UNCHANGED <<entries, sweep>>
  BY <1>6 DEF Receive, cache
<1>7. CASE QueuePacket \/ FlushSend \/ FlushDestroy
  BY <1>7, <1>2 DEF QueuePacket, FlushSend, FlushDestroy, cache
<1>8. ASSUME NEW t \in Threads, HandleStep(t) PROVE UNCHANGED <<entries, sweep>>
  BY <1>8 DEF HandleStep, UseAfterFree, StackOverflow, HandleCheck, HandleSend, HandleStore, HandleCount,
              WalkPacket, WalkQueue, WalkFree, WalkDestroy, Fail, cache
<1>9. CASE UNCHANGED vars
  BY <1>2, <1>9 DEF vars
<1> QED BY <1>1, <1>2, <1>3, <1>4, <1>5, <1>6, <1>7, <1>8, <1>9
        DEF Next, Arrival, MainStep, SweepStep, Stopped, Threads

\* When the threads keep up with the clock, no mapping is used more than one second
\* past its lifetime: sr_arpcache_timeout runs every second and drops what has expired.
THEOREM EntriesFresh == ASSUME Timely PROVE Spec => []FreshEntries
<1>1. Init => Aging
  BY DEF Init, Aging, Invalid
<1>2. Spec => []Aging
  BY <1>1, Invariant, NextAging, PTL DEF Spec
<1>3. IInv /\ Aging => FreshEntries
  <2>1. ASSUME IInv, Aging, NEW s \in Slot, entries[s].valid PROVE entries[s].age <= ArpTO + 1
    <3>1. entries[s] \in Mapping
      BY <2>1 DEF IInv, TypeOK, Invalid
    <3>2. entries[s].age \in Nat /\ sweep.slept \in BOOLEAN /\ ArpTO \in Nat
      BY <2>1, <3>1, ArpAssumption DEF Mapping, EntryCap, IInv, TypeOK, Sweep
    <3> QED BY <2>1, <3>2 DEF Aging
  <2> QED BY <2>1 DEF FreshEntries
<1> QED BY <1>2, <1>3, Invariant, PTL

\* Sent, not given up, and due to be sent again.
Overdue(r) == heap[r].times \in 1..MaxTries - 1 /\ heap[r].age > 1

\* The time handle_arpreq read when it began is still the time.
FramesNow == \A t \in Threads : \A i \in 1..Len(stack[t]) : stack[t][i].age = 0

\* A queued request that is being counted was sent just now.
SentNow == \A t \in Threads : \A i \in 1..Len(stack[t]) :
    stack[t][i].pc = "count" /\ stack[t][i].req \in queue => heap[stack[t][i].req].age = 0

\* The sweep is about to send request r.
InTurn(r) == \E i \in 1..Len(stack["sweep"]) :
    stack["sweep"][i].req = r /\ stack["sweep"][i].pc \in {"check", "send", "store"}

\* The sweep leaves nothing overdue behind.
Swept == sweep.pc = "sweep" => \A r \in queue : Overdue(r) => r <= sweep.cur \/ InTurn(r)

Prompt == FramesNow /\ SentNow /\ Swept

\* A call g of the next state that is f now, as far as time goes.
Stands(g, f) == g.pc = f.pc /\ g.req = f.req /\ g.age = f.age

\* What a step does to the requests on the list: each was there, and was sent as often
\* and as long ago, or it was sent just now, or it is new.
Resent == \A r \in queue' :
    \/ r \in queue /\ heap'[r].age = heap[r].age /\ heap'[r].times = heap[r].times
    \/ heap'[r].age = 0
    \/ heap'[r].times = 0 /\ r > created

\* A step of this kind keeps Prompt, if the sweep does not give up its turn.
LEMMA PromptStays ==
    ASSUME IInv, Prompt, TypeOK', sweep' = sweep, Resent,
           \A t \in Threads : \A i \in 1..Len(stack'[t]) :
              \/ \E j \in 1..Len(stack[t]) : Stands(stack'[t][i], stack[t][j])
              \/ /\ stack'[t][i].age = 0
                 /\ stack'[t][i].pc = "count" => heap'[stack'[t][i].req].age = 0,
           \A r \in queue : InTurn(r) => InTurn(r)' \/ r \notin queue' \/ ~Overdue(r)'
    PROVE  Prompt'
<1>1. FramesNow'
  BY DEF Prompt, FramesNow, Stands
<1>2. SentNow'
  <2> SUFFICES ASSUME NEW t \in Threads, NEW i \in 1..Len(stack'[t]),
                      stack'[t][i].pc = "count", stack'[t][i].req \in queue'
               PROVE  heap'[stack'[t][i].req].age = 0
    BY DEF SentNow
  <2>1. CASE \E j \in 1..Len(stack[t]) : Stands(stack'[t][i], stack[t][j])
    <3>1. PICK j \in 1..Len(stack[t]) : Stands(stack'[t][i], stack[t][j])
      BY <2>1
    <3>5. stack[t][j] \in Frame
      BY DEF IInv, TypeOK
    <3>2. PICK r \in Req : r = stack[t][j].req /\ r = stack'[t][i].req
      BY <3>1, <3>5 DEF Stands, Frame
    <3>6. FrameOK(stack[t][j])
      BY DEF IInv, FramesOK
    <3>7. created \in Nat
      BY ArpAssumption DEF IInv, TypeOK
    <3>3. r <= created /\ r \in Nat /\ created \in Nat
      BY <3>2, <3>6, <3>7 DEF FrameOK, Req
    <3>4. r \in queue => heap[r].age = 0
      BY <3>1, <3>2 DEF Prompt, SentNow, Stands
    <3> QED BY <3>2, <3>3, <3>4 DEF Resent
  <2> QED BY <2>1
<1>3. Swept'
  <2> SUFFICES ASSUME sweep.pc = "sweep", NEW r \in queue', Overdue(r)'
               PROVE  r <= sweep.cur \/ InTurn(r)'
    BY DEF Swept
  <2>1. heap'[r].age > 1 /\ heap'[r].times \in 1..MaxTries - 1
    BY DEF Overdue
  <2>2. r \in queue /\ heap'[r].age = heap[r].age /\ heap'[r].times = heap[r].times
    BY <2>1, ArpAssumption DEF Resent
  <2>3. Overdue(r)
    BY <2>1, <2>2 DEF Overdue
  <2> QED BY <2>2, <2>3 DEF Prompt, Swept
<1> QED BY <1>1, <1>2, <1>3 DEF Prompt

\* The call on top of a thread's stack moves on.
LEMMA GotoPrompt ==
    ASSUME IInv, Tries, Prompt, TypeOK', sweep' = sweep, Resent,
           NEW t \in Threads, Running(t), NEW f \in Frame, stack' = Goto(t, f),
           f.req = Top(t).req, f.age = 0, f.pc = "count" => heap'[f.req].age = 0,
           Top(t).pc \in {"check", "send", "store"} =>
              f.pc \in {"check", "send", "store"} \/ ~Overdue(f.req)'
    PROVE  Prompt'
<1>1. /\ \A u \in Threads : Len(stack'[u]) = Len(stack[u])
      /\ \A u \in Threads : \A i \in 1..Len(stack[u]) :
           stack'[u][i] = IF u = t /\ i = Len(stack[t]) THEN f ELSE stack[u][i]
  BY TopFacts, GotoStack
<1>2. \A u \in Threads : \A i \in 1..Len(stack'[u]) :
         \/ \E j \in 1..Len(stack[u]) : Stands(stack'[u][i], stack[u][j])
         \/ /\ stack'[u][i].age = 0
            /\ stack'[u][i].pc = "count" => heap'[stack'[u][i].req].age = 0
  BY <1>1 DEF Stands
<1>3. ASSUME NEW r \in queue, InTurn(r) PROVE InTurn(r)' \/ ~Overdue(r)'
  <2>1. "sweep" \in Threads
    BY DEF Threads
  <2>2. PICK i \in 1..Len(stack["sweep"]) :
           stack["sweep"][i].req = r /\ stack["sweep"][i].pc \in {"check", "send", "store"}
    BY <1>3 DEF InTurn
  <2>3. CASE stack'["sweep"][i] = stack["sweep"][i]
    BY <1>1, <2>1, <2>2, <2>3 DEF InTurn
  <2>4. CASE t = "sweep" /\ i = Len(stack[t])
    <3>1. Top(t).req = r /\ Top(t).pc \in {"check", "send", "store"} /\ stack'["sweep"][i] = f
      BY <1>1, <2>1, <2>2, <2>4 DEF Top
    <3>2. f.pc \in {"check", "send", "store"} => InTurn(r)'
      BY <1>1, <2>1, <2>2, <3>1 DEF InTurn
    <3>3. ~Overdue(f.req)' => ~Overdue(r)'
      BY <3>1 DEF Overdue
    <3> QED BY <3>1, <3>2, <3>3
  <2> QED BY <1>1, <2>1, <2>3, <2>4
<1> QED BY <1>2, <1>3, PromptStays

\* The call on top of a thread's stack returns.
LEMMA ReturnPrompt ==
    ASSUME IInv, Tries, Prompt, TypeOK', sweep' = sweep, Resent,
           NEW t \in Threads, Running(t), stack' = Return(t), NEW q \in Req, q = Top(t).req,
           Top(t).pc \in {"check", "send", "store"} => ~Overdue(q)'
    PROVE  Prompt'
<1>1. /\ \A u \in Threads :
           Len(stack'[u]) = IF u = t THEN Len(stack[t]) - 1 ELSE Len(stack[u])
      /\ \A u \in Threads : \A i \in 1..Len(stack'[u]) :
           i \in 1..Len(stack[u]) /\ stack'[u][i] = stack[u][i]
  BY TopFacts, ReturnStack
<1>2. \A u \in Threads : \A i \in 1..Len(stack'[u]) :
         \E j \in 1..Len(stack[u]) : Stands(stack'[u][i], stack[u][j])
  BY <1>1 DEF Stands
<1>3. ASSUME NEW r \in queue, InTurn(r) PROVE InTurn(r)' \/ ~Overdue(r)'
  <2>1. "sweep" \in Threads /\ Len(stack["sweep"]) \in Nat
    BY DEF Threads, IInv, TypeOK
  <2>2. PICK i \in 1..Len(stack["sweep"]) :
           stack["sweep"][i].req = r /\ stack["sweep"][i].pc \in {"check", "send", "store"}
    BY <1>3 DEF InTurn
  <2>3. CASE i \in 1..Len(stack'["sweep"])
    <3>1. stack'["sweep"][i] = stack["sweep"][i]
      BY <1>1, <2>1, <2>3
    <3> QED BY <2>2, <2>3, <3>1 DEF InTurn
  <2>4. CASE t = "sweep" /\ i = Len(stack[t])
    <3>1. q = r /\ Top(t).pc \in {"check", "send", "store"}
      BY <2>2, <2>4 DEF Top
    <3> QED BY <3>1
  <2> QED BY <1>1, <2>1, <2>3, <2>4
<1> QED BY <1>2, <1>3, PromptStays

\* No call begins or ends.
LEMMA StillPrompt ==
    ASSUME IInv, Prompt, TypeOK', sweep' = sweep, Resent, stack' = stack
    PROVE  Prompt'
<1>1. \A r : InTurn(r) => InTurn(r)'
  BY DEF InTurn
<1> QED BY <1>1, PromptStays DEF Stands

\* The test of sent and times_sent turns back only from what is not overdue.
LEMMA CheckPrompt ==
    ASSUME IInv, Tries, Prompt, TypeOK', NEW t \in Threads, HandleCheck(t) PROVE Prompt'
<1> DEFINE f == Top(t)  r == heap[Top(t).req]
<1>1. /\ Running(t) /\ f.pc = "check" /\ heap' = heap /\ queue' = queue /\ sweep' = sweep
      /\ Resent
  BY DEF HandleCheck, At, cache, Resent
<1>2. PICK q \in Req : q = f.req
  BY <1>1, TopFacts
<1>3. CASE ~Due(r) /\ stack' = Return(t)
  <2>1. ~Overdue(q)'
    BY <1>1, <1>2, <1>3 DEF Due, Overdue
  <2> QED BY <1>1, <1>2, <1>3, <2>1, ReturnPrompt
<1>4. CASE stack' = Goto(t, [f EXCEPT !.pc = "send", !.age = 0])
  <2>1. PICK g \in Frame : g = [f EXCEPT !.pc = "send", !.age = 0]
    BY <1>1, TopFacts, CheckedFrame
  <2>2. g.req = f.req /\ g.pc = "send" /\ g.age = 0
    BY <1>1, <2>1, TopFacts DEF Frame
  <2>3. stack' = Goto(t, g)
    BY <1>4, <2>1
  <2> QED BY <1>1, <2>2, <2>3, GotoPrompt
<1>5. CASE /\ GivesUp(r)
           /\ stack' = Goto(t, [f EXCEPT !.pc = "walk", !.k = Len(r.pkts), !.age = 0])
  <2>1. Len(r.pkts) \in Nat
    BY <1>1, TopFacts DEF Request
  <2>2. PICK g \in Frame : g = [f EXCEPT !.pc = "walk", !.k = Len(r.pkts), !.age = 0]
    BY <1>1, <2>1, TopFacts, CheckedFrame
  <2>3. g.req = f.req /\ g.pc = "walk" /\ g.age = 0
    BY <1>1, <2>2, TopFacts DEF Frame
  <2>4. stack' = Goto(t, g)
    BY <1>5, <2>2
  <2>5. ~Overdue(g.req)'
    <3>1. heap[q].times >= MaxTries /\ heap[q].times \in Nat /\ heap'[q].times = heap[q].times
      BY <1>1, <1>2, <1>5, TopFacts DEF GivesUp, Request
    <3> QED BY <1>2, <2>3, <3>1, ArpAssumption DEF Overdue
  <2> QED BY <1>1, <2>3, <2>4, <2>5, GotoPrompt
<1> QED BY <1>3, <1>4, <1>5 DEF HandleCheck

\* The ARP request is sent.
LEMMA SendPrompt ==
    ASSUME IInv, Tries, Prompt, TypeOK', NEW t \in Threads, HandleSend(t) PROVE Prompt'
<1> DEFINE f == Top(t)
<1>1. /\ Running(t) /\ f.pc = "send" /\ queue' = queue /\ sweep' = sweep
      /\ heap' = [heap EXCEPT ![f.req].wire = @ + 1]
      /\ stack' = Goto(t, [f EXCEPT !.pc = "store"])
  BY DEF HandleSend, At
<1>2. PICK g \in Frame : g = [f EXCEPT !.pc = "store"]
  BY <1>1, TopFacts DEF Frame
<1>3. g.req = f.req /\ g.pc = "store" /\ g.age = f.age
  BY <1>1, <1>2, TopFacts DEF Frame
<1>4. f.age = 0
  BY <1>1, TopFacts DEF Prompt, FramesNow
<1>5. Resent
  <2>1. \A r \in Req : heap'[r].age = heap[r].age /\ heap'[r].times = heap[r].times
    BY <1>1, TopFacts DEF IInv, TypeOK, Request
  <2> QED BY <1>1, <2>1 DEF Resent, IInv, TypeOK
<1> QED BY <1>1, <1>2, <1>3, <1>4, <1>5, GotoPrompt

\* sent becomes the time handle_arpreq read, which is still the time.
LEMMA StorePrompt ==
    ASSUME IInv, Tries, Prompt, TypeOK', NEW t \in Threads, HandleStore(t) PROVE Prompt'
<1> DEFINE f == Top(t)
<1>1. /\ Running(t) /\ f.pc = "store" /\ queue' = queue /\ sweep' = sweep
      /\ heap' = [heap EXCEPT ![f.req].age = f.age]
      /\ stack' = Goto(t, [f EXCEPT !.pc = "count", !.n = heap[f.req].times])
  BY DEF HandleStore, At
<1>2. heap[f.req].times \in Nat
  BY <1>1, TopFacts DEF Request
<1>3. PICK g \in Frame : g = [f EXCEPT !.pc = "count", !.n = heap[f.req].times]
  BY <1>1, <1>2, TopFacts DEF Frame
<1>4. g.req = f.req /\ g.age = f.age /\ g.req \in Req
  BY <1>1, <1>3, TopFacts DEF Frame
<1>5. f.age = 0
  BY <1>1, TopFacts DEF Prompt, FramesNow
<1>6. /\ heap'[g.req].age = 0
      /\ \A r \in Req : r # g.req => heap'[r] = heap[r]
  BY <1>1, <1>4, <1>5, TopFacts DEF IInv, TypeOK, Request
<1>7. Resent
  BY <1>1, <1>6 DEF Resent, IInv, TypeOK
<1>8. ~Overdue(g.req)'
  BY <1>6 DEF Overdue
<1> QED BY <1>1, <1>3, <1>4, <1>5, <1>6, <1>7, <1>8, GotoPrompt

\* times_sent is stored.
LEMMA CountPrompt ==
    ASSUME IInv, Tries, Prompt, TypeOK', NEW t \in Threads, HandleCount(t) PROVE Prompt'
<1> DEFINE f == Top(t)
<1>1. /\ Running(t) /\ f.pc = "count" /\ queue' = queue /\ sweep' = sweep
      /\ heap' = [heap EXCEPT ![f.req].times = f.n + 1]
      /\ stack' = Return(t)
  BY DEF HandleCount, At
<1>2. PICK q \in Req : q = f.req
  BY <1>1, TopFacts
<1>3. q \in queue => heap[q].age = 0
  BY <1>1, <1>2, TopFacts DEF Prompt, SentNow
<1>4. /\ heap'[q].age = heap[q].age
      /\ \A r \in Req : r # q => heap'[r] = heap[r]
  BY <1>1, <1>2, TopFacts DEF IInv, TypeOK, Request
<1>5. Resent
  BY <1>1, <1>3, <1>4 DEF Resent, IInv, TypeOK
<1> QED BY <1>1, <1>2, <1>5, ReturnPrompt

\* The walk moves from packet to packet.
LEMMA WalkPacketPrompt ==
    ASSUME IInv, Tries, Prompt, TypeOK', NEW t \in Threads, WalkPacket(t) PROVE Prompt'
<1> DEFINE f == Top(t)
<1>1. /\ Running(t) /\ f.pc = "walk" /\ heap' = heap /\ queue' = queue /\ sweep' = sweep
      /\ Resent
  BY DEF WalkPacket, At, cache, Resent
<1>2. ASSUME NEW pc \in {"free", "queue"}, stack' = Goto(t, [f EXCEPT !.pc = pc]) PROVE Prompt'
  <2>1. PICK g \in Frame : g = [f EXCEPT !.pc = pc]
    BY <1>1, TopFacts DEF Frame
  <2>2. g.req = f.req /\ g.pc = pc /\ g.age = f.age
    BY <1>1, <2>1, TopFacts DEF Frame
  <2>3. f.age = 0
    BY <1>1, TopFacts DEF Prompt, FramesNow
  <2> QED BY <1>1, <1>2, <2>1, <2>2, <2>3, GotoPrompt
<1> QED BY <1>2 DEF WalkPacket

\* A packet of the walk is freed.
LEMMA WalkFreePrompt ==
    ASSUME IInv, Tries, Prompt, TypeOK', NEW t \in Threads, WalkFree(t) PROVE Prompt'
<1> DEFINE f == Top(t)
<1>1. CASE Fail("double_free")
  BY <1>1, StillPrompt DEF Fail, cache, Resent
<1>2. CASE ~Fail("double_free")
  <2>1. /\ Running(t) /\ f.pc = "free" /\ heap' = [heap EXCEPT ![f.req].gone = @ \cup {f.k}]
        /\ stack' = Goto(t, [f EXCEPT !.pc = "walk", !.k = @ - 1])
        /\ queue' = queue /\ sweep' = sweep
    BY <1>2 DEF WalkFree, At
  <2>2. f.k \in Nat /\ f.k - 1 \in Nat
    BY <2>1, TopFacts DEF FrameOK, Frame
  <2>3. PICK g \in Frame : g = [f EXCEPT !.pc = "walk", !.k = f.k - 1]
    BY <2>1, <2>2, TopFacts DEF Frame
  <2>4. g.req = f.req /\ g.pc = "walk" /\ g.age = f.age /\ stack' = Goto(t, g)
    BY <2>1, <2>3, TopFacts DEF Frame
  <2>5. f.age = 0
    BY <2>1, TopFacts DEF Prompt, FramesNow
  <2>6. \A r \in Req : heap'[r].times = heap[r].times /\ heap'[r].age = heap[r].age
    BY <2>1, TopFacts DEF IInv, TypeOK, Request
  <2>7. Resent
    BY <2>1, <2>6 DEF Resent, IInv, TypeOK
  <2> QED BY <2>1, <2>4, <2>5, <2>7, GotoPrompt
<1> QED BY <1>1, <1>2

\* Destroying a request leaves the ages and counts of the others.
LEMMA DestroyResent ==
    ASSUME TypeOK, NEW x \in Req, Destroy(x) PROVE Resent
<1>1. \A r \in queue' : r # x /\ r \in queue /\ heap'[r] = heap[r]
  BY DEF Destroy, TypeOK
<1> QED BY <1>1 DEF Resent

\* A walk is over.
LEMMA WalkDestroyPrompt ==
    ASSUME IInv, Tries, Prompt, TypeOK', NEW t \in Threads, WalkDestroy(t) PROVE Prompt'
<1>1. CASE Fail("double_free")
  BY <1>1, StillPrompt DEF Fail, cache, Resent
<1>2. CASE ~Fail("double_free")
  <2>1. /\ Running(t) /\ Top(t).pc = "walk" /\ Destroy(Top(t).req) /\ stack' = Return(t)
        /\ sweep' = sweep
    BY <1>2 DEF WalkDestroy, At
  <2>2. PICK q \in Req : q = Top(t).req
    BY <2>1, TopFacts
  <2>3. Resent
    BY <2>1, <2>2, DestroyResent DEF IInv
  <2> QED BY <2>1, <2>2, <2>3, ReturnPrompt
<1> QED BY <1>1, <1>2

\* Queueing a packet leaves the ages and counts of requests, or makes a new one.
LEMMA QueueReqResent ==
    ASSUME IInv, NEW h \in Hop, NEW p \in Packet \cup {Icmp}, Target(h) \in Req, QueueReq(h, p)
    PROVE  Resent
<1>1. TypeOK /\ Allocated /\ OneRequestPerHop /\ created \in Nat
  BY ArpAssumption DEF IInv, TypeOK
<1>2. /\ queue' = queue \cup {Target(h)} /\ queue' \in SUBSET Req
      /\ \A r \in Req : r # Target(h) => heap'[r] = heap[r]
  BY <1>1, QueueReqHeap
<1>3. CASE Waiting(h) # {}
  <2>1. Target(h) \in queue
    BY <1>3 DEF Target, Waiting
  <2>2. heap' = [heap EXCEPT ![Target(h)].pkts = Append(@, p)]
    BY <1>3 DEF QueueReq, HeapWith
  <2>3. /\ heap'[Target(h)].age = heap[Target(h)].age
        /\ heap'[Target(h)].times = heap[Target(h)].times
    BY <1>1, <2>2 DEF TypeOK, Request
  <2> QED BY <1>2, <2>1, <2>3 DEF Resent
<1>4. CASE Waiting(h) = {}
  <2>1. heap' = [heap EXCEPT ![created + 1] = NewRequest(h, p)] /\ Target(h) = created + 1
    BY <1>4 DEF QueueReq, HeapWith, Target
  <2>2. NewRequest(h, p).times = 0
    BY DEF NewRequest
  <2>3. heap'[Target(h)].times = 0 /\ Target(h) > created
    BY <1>1, <2>1, <2>2 DEF TypeOK
  <2> QED BY <1>2, <2>3 DEF Resent
<1> QED BY <1>3, <1>4

\* handle_arpreq is called for a request by a thread that is in no call of it.
LEMMA CallPrompt ==
    ASSUME IInv, Prompt, TypeOK', NEW t \in Threads, NEW x \in Req, stack' = Call(t, x),
           sweep' = sweep, Resent
    PROVE  Prompt'
<1>1. stack \in [Threads -> Seq(Frame)] /\ "sweep" \in Threads
  BY DEF IInv, TypeOK, Threads
<1>2. \A u \in Threads : \A i \in 1..Len(stack'[u]) :
           \/ i \in 1..Len(stack[u]) /\ stack'[u][i] = stack[u][i]
           \/ u = t /\ i = Len(stack[t]) + 1 /\ stack'[u][i] = NewFrame(x)
  BY <1>1, CallStack
<1>3. \A u \in Threads : \A i \in 1..Len(stack'[u]) :
         \/ \E j \in 1..Len(stack[u]) : Stands(stack'[u][i], stack[u][j])
         \/ stack'[u][i].age = 0 /\ stack'[u][i].pc # "count"
  BY <1>2 DEF Stands, NewFrame
<1>4. \A u \in Threads : \A i \in 1..Len(stack[u]) :
         i \in 1..Len(stack'[u]) /\ stack'[u][i] = stack[u][i]
  <2>1. stack' = [stack EXCEPT ![t] = Append(stack[t], NewFrame(x))]
    BY DEF Call
  <2>2. NewFrame(x) \in Frame
    BY DEF NewFrame, Frame, SentCap
  <2>3. stack[t] \in Seq(Frame)
    BY <1>1
  <2> QED BY <1>1, <2>1, <2>2, <2>3
<1>5. \A r : InTurn(r) => InTurn(r)'
  BY <1>1, <1>4 DEF InTurn
<1> QED BY <1>3, <1>5, PromptStays

\* What queueing an ICMP message does to the stack of the thread that does it: its call
\* is about to free the packet, and there is a new call for the request of the message.
LEMMA WalkQueueStack ==
    ASSUME IInv, NEW t \in Threads, WalkQueue(t)
    PROVE  \E x \in Req, h \in Hop, g \in Frame :
             /\ h = SourceOf(heap[Top(t).req].pkts[Top(t).k], Top(t).req)
             /\ x = Target(h) /\ QueueReq(h, Icmp)
             /\ g = [Top(t) EXCEPT !.pc = "free"]
             /\ Len(stack'[t]) = Len(stack[t]) + 1
             /\ \A i \in 1..Len(stack[t]) :
                   stack'[t][i] = IF i = Len(stack[t]) THEN g ELSE stack[t][i]
             /\ stack'[t][Len(stack[t]) + 1] = NewFrame(x)
             /\ \A u \in Threads : u # t => stack'[u] = stack[u]
<1> DEFINE f == Top(t)
           n == Len(stack[t])
           y == Target(SourceOf(heap[Top(t).req].pkts[Top(t).k], Top(t).req))
<1>1. /\ TypeOK /\ Running(t) /\ f.pc = "queue" /\ y \in Req
      /\ QueueReq(SourceOf(heap[f.req].pkts[f.k], f.req), Icmp)
      /\ stack' = [stack EXCEPT ![t] =
                     Append([stack[t] EXCEPT ![n] = [stack[t][n] EXCEPT !.pc = "free"]],
                            NewFrame(y))]
  BY DEF IInv, WalkQueue, At, TypeOK
<1>2. PICK h \in Hop : h = SourceOf(heap[f.req].pkts[f.k], f.req)
  BY <1>1, TopFacts DEF FrameOK
<1>3. PICK x \in Req : x = y
  BY <1>1
<1>4. PICK g \in Frame : g = [stack[t][n] EXCEPT !.pc = "free"]
  BY <1>1, TopFacts DEF Frame
<1>5. /\ stack[t] \in Seq(Frame) /\ n \in Nat /\ n \in 1..n
      /\ [stack[t] EXCEPT ![n] = g] \in Seq(Frame)
      /\ Len([stack[t] EXCEPT ![n] = g]) = n
      /\ \A i \in 1..n : [stack[t] EXCEPT ![n] = g][i] = IF i = n THEN g ELSE stack[t][i]
  BY <1>1, TopFacts
<1>6. NewFrame(x) \in Frame
  BY DEF NewFrame, Frame, SentCap
<1>7. /\ Len(stack'[t]) = n + 1
      /\ \A i \in 1..n : stack'[t][i] = IF i = n THEN g ELSE stack[t][i]
      /\ stack'[t][n + 1] = NewFrame(x)
      /\ \A u \in Threads : u # t => stack'[u] = stack[u]
  BY <1>1, <1>3, <1>4, <1>5, <1>6 DEF TypeOK
<1>8. g = [Top(t) EXCEPT !.pc = "free"]
  BY <1>4 DEF Top
<1>9. x = Target(h) /\ QueueReq(h, Icmp)
  BY <1>1, <1>2, <1>3
<1> QED BY <1>2, <1>7, <1>8, <1>9

\* A report is queued and handle_arpreq called for it.
LEMMA WalkQueuePrompt ==
    ASSUME IInv, Tries, Prompt, TypeOK', NEW t \in Threads, WalkQueue(t) PROVE Prompt'
<1> DEFINE f == Top(t)  n == Len(stack[t])
<1>1. PICK x \in Req, h \in Hop, g \in Frame :
             /\ x = Target(h) /\ QueueReq(h, Icmp)
             /\ g = [f EXCEPT !.pc = "free"]
             /\ Len(stack'[t]) = n + 1
             /\ \A i \in 1..n : stack'[t][i] = IF i = n THEN g ELSE stack[t][i]
             /\ stack'[t][n + 1] = NewFrame(x)
             /\ \A u \in Threads : u # t => stack'[u] = stack[u]
  BY WalkQueueStack
<1>2. Running(t) /\ f.pc = "queue" /\ sweep' = sweep
  BY DEF WalkQueue, At
<1>3. g.pc = "free" /\ g.age = 0
  <2>1. f.age = 0 /\ f \in Frame
    BY <1>2, TopFacts DEF Prompt, FramesNow
  <2> QED BY <1>1, <2>1 DEF Frame
<1>4. n \in Nat /\ n \in 1..n
  BY <1>2, TopFacts
<1>5. Resent
  BY <1>1, QueueReqResent
<1>6. \A u \in Threads : \A i \in 1..Len(stack'[u]) :
         \/ \E j \in 1..Len(stack[u]) : Stands(stack'[u][i], stack[u][j])
         \/ stack'[u][i].age = 0 /\ stack'[u][i].pc # "count"
  <2> SUFFICES ASSUME NEW u \in Threads, NEW i \in 1..Len(stack'[u])
               PROVE  \/ \E j \in 1..Len(stack[u]) : Stands(stack'[u][i], stack[u][j])
                      \/ stack'[u][i].age = 0 /\ stack'[u][i].pc # "count"
    OBVIOUS
  <2>1. CASE u # t
    BY <1>1, <2>1 DEF Stands
  <2>2. CASE u = t /\ i = n + 1
    BY <1>1, <2>2 DEF NewFrame
  <2>3. CASE u = t /\ i = n
    BY <1>1, <1>3, <1>4, <2>3
  <2>4. CASE u = t /\ i \in 1..n /\ i # n
    BY <1>1, <2>4 DEF Stands
  <2> QED BY <1>1, <1>4, <2>1, <2>2, <2>3, <2>4
<1>7. \A r : InTurn(r) => InTurn(r)'
  <2> SUFFICES ASSUME NEW r, NEW i \in 1..Len(stack["sweep"]), stack["sweep"][i].req = r,
                      stack["sweep"][i].pc \in {"check", "send", "store"}
               PROVE  InTurn(r)'
    BY DEF InTurn
  <2>1. CASE t # "sweep"
    BY <1>1, <2>1 DEF InTurn, Threads
  <2>2. CASE t = "sweep"
    <3>1. i # n
      BY <1>2, <2>2 DEF Top
    <3> QED BY <1>1, <1>4, <2>2, <3>1 DEF InTurn
  <2> QED BY <2>1, <2>2
<1> QED BY <1>2, <1>5, <1>6, <1>7, PromptStays

\* The sweep wakes and starts at the newest request.
LEMMA SweepWakePrompt == IInv /\ Prompt /\ SweepWake => Prompt'
<1> SUFFICES ASSUME IInv, Prompt, SweepWake PROVE Prompt'
  OBVIOUS
<1>1. /\ UNCHANGED <<queue, heap, stack>>
      /\ sweep' = [pc |-> "sweep", cur |-> Newest(queue), slept |-> FALSE]
  BY DEF SweepWake
<1>2. \A r \in queue : r <= Newest(queue)
  BY NewestOf DEF IInv, TypeOK
<1>3. FramesNow' /\ SentNow'
  BY <1>1 DEF Prompt, FramesNow, SentNow
<1>4. Swept'
  BY <1>1, <1>2 DEF Swept
<1> QED BY <1>3, <1>4 DEF Prompt

\* The sweep calls handle_arpreq for the request it stands at and passes to the next.
LEMMA SweepRequestPrompt == IInv /\ Prompt /\ TypeOK' /\ SweepRequest => Prompt'
<1> SUFFICES ASSUME IInv, Prompt, TypeOK', SweepRequest PROVE Prompt'
  OBVIOUS
<1>1. CASE Fail("use_after_free")
  BY <1>1, StillPrompt DEF Fail, cache, Resent
<1>2. CASE ~Fail("use_after_free")
  <2> DEFINE Q == {y \in queue : y < sweep.cur}
  <2>1. /\ sweep.pc = "sweep" /\ sweep.cur \in Req /\ stack' = Call("sweep", sweep.cur)
        /\ sweep' = [sweep EXCEPT !.cur = Newest(Q)] /\ heap' = heap /\ queue' = queue
    BY <1>2, ArpAssumption DEF SweepRequest, cache, IInv, TypeOK, Sweep, Req
  <2>2. PICK x \in Req : x = sweep.cur
    BY <2>1
  <2>3. /\ stack \in [Threads -> Seq(Frame)] /\ "sweep" \in Threads
        /\ queue \subseteq Req /\ sweep \in Sweep
    BY DEF IInv, TypeOK, Threads
  <2>4. NewFrame(x) \in Frame
    BY DEF NewFrame, Frame, SentCap
  <2>5. stack' = [stack EXCEPT !["sweep"] = Append(stack["sweep"], NewFrame(x))]
    BY <2>1, <2>2 DEF Call
  <2>6. /\ Len(stack["sweep"]) \in Nat
        /\ Len(stack'["sweep"]) = Len(stack["sweep"]) + 1
        /\ stack'["sweep"][Len(stack["sweep"]) + 1] = NewFrame(x)
        /\ \A i \in 1..Len(stack["sweep"]) : stack'["sweep"][i] = stack["sweep"][i]
        /\ stack'["main"] = stack["main"]
    <3>1. stack["sweep"] \in Seq(Frame)
      BY <2>3
    <3> QED BY <2>3, <2>4, <2>5, <3>1 DEF Threads
  <2>7. NewFrame(x).age = 0 /\ NewFrame(x).pc = "check" /\ NewFrame(x).req = x
    BY DEF NewFrame
  <2>8. \A i \in 1..Len(stack'["sweep"]) :
            i \in 1..Len(stack["sweep"]) \/ i = Len(stack["sweep"]) + 1
    BY <2>6
  <2>9. FramesNow'
    BY <2>6, <2>7, <2>8 DEF Prompt, FramesNow, Threads
  <2>10. SentNow'
    BY <2>1, <2>6, <2>7, <2>8 DEF Prompt, SentNow, Threads
  <2>11. \A r : InTurn(r) => InTurn(r)'
    BY <2>6 DEF InTurn
  <2>12. InTurn(x)'
    BY <2>6, <2>7 DEF InTurn
  <2>13. \A y \in queue : y < x => y <= Newest(Q)
    <3>1. Q \in SUBSET Req
      BY <2>3
    <3> QED BY <2>2, <3>1, NewestOf
  <2>14. sweep'.cur = Newest(Q) /\ sweep'.pc = "sweep"
    BY <2>1, <2>3 DEF Sweep
  <2>15. Swept'
    <3> SUFFICES ASSUME NEW r \in queue, Overdue(r) PROVE r <= sweep'.cur \/ InTurn(r)'
      BY <2>1 DEF Swept, Overdue
    <3>1. r <= x \/ InTurn(r)
      BY <2>1, <2>2 DEF Prompt, Swept
    <3>2. CASE r < x
      BY <2>13, <2>14, <3>2
    <3>3. r \in Nat /\ x \in Nat
      BY <2>3 DEF Req
    <3> QED BY <2>11, <2>12, <3>1, <3>2, <3>3
  <2> QED BY <2>9, <2>10, <2>15 DEF Prompt
<1> QED BY <1>1, <1>2

\* The clock moves only when both threads are between calls.
LEMMA TickPrompt == ASSUME Timely PROVE IInv /\ Tick => Prompt'
<1> SUFFICES ASSUME IInv, Tick PROVE Prompt'
  OBVIOUS
<1>1. stack["main"] = <<>> /\ stack["sweep"] = <<>> /\ sweep.pc = "sleep"
  BY DEF Tick, Settled, MainIdle, IInv, Control
<1>2. \A t \in Threads : stack'[t] = <<>>
  BY <1>1 DEF Tick, Threads
<1>3. sweep'.pc = "sleep"
  BY <1>1 DEF Tick, IInv, TypeOK, Sweep
<1> QED BY <1>2, <1>3 DEF Prompt, FramesNow, SentNow, Swept

\* Every step keeps Prompt when the threads keep up with the clock.
LEMMA NextPrompt == ASSUME Timely PROVE IInv /\ IInv' /\ Tries /\ Prompt /\ [Next]_vars => Prompt'
<1> SUFFICES ASSUME IInv, IInv', Tries, Prompt, [Next]_vars PROVE Prompt'
  OBVIOUS
<1>1. TypeOK /\ TypeOK' /\ Control
  BY DEF IInv
<1>2. CASE Tick
  BY <1>2, TickPrompt
<1>3. CASE UNCHANGED <<queue, heap, stack, sweep>>
  BY <1>1, <1>3, StillPrompt DEF Resent
<1>4. CASE QueuePacket
  <2>1. /\ NextHop[main.pkt] \in Hop /\ "main" \in Threads /\ main.pkt \in Packet
        /\ Target(NextHop[main.pkt]) \in Req /\ QueueReq(NextHop[main.pkt], main.pkt)
        /\ stack' = Call("main", Target(NextHop[main.pkt])) /\ sweep' = sweep
    BY <1>1, <1>4, ArpAssumption DEF QueuePacket, Control, Threads
  <2> QED BY <1>1, <2>1, QueueReqResent, CallPrompt
<1>5. CASE FlushDestroy
  <2>1. main.req \in Req /\ Destroy(main.req) /\ stack' = stack /\ sweep' = sweep
    BY <1>1, <1>5 DEF FlushDestroy, Control
  <2> QED BY <1>1, <2>1, DestroyResent, StillPrompt
<1>6. CASE SweepWake \/ SweepRequest
  BY <1>1, <1>6, SweepWakePrompt, SweepRequestPrompt
<1>7. CASE SweepDone
  <2>1. UNCHANGED <<queue, heap, stack>> /\ sweep'.pc = "sleep"
    BY <1>1, <1>7 DEF SweepDone, cache, TypeOK, Sweep
  <2> QED BY <2>1 DEF Prompt, FramesNow, SentNow, Swept
<1>8. ASSUME NEW h \in Hop, NEW m \in Mac, Learn(h, m) PROVE Prompt'
  <2>1. /\ UNCHANGED <<heap, stack, sweep>> /\ queue' \subseteq queue
    BY <1>8 DEF Learn, Unlink
  <2> QED BY <1>1, <2>1, StillPrompt DEF Resent
<1>9. CASE FlushSend \/ \E p \in Packet : Receive(p)
  BY <1>3, <1>9 DEF Receive, FlushSend, cache
<1>10. ASSUME NEW t \in Threads, HandleStep(t) PROVE Prompt'
  <2>1. CASE UseAfterFree(t) \/ StackOverflow(t)
    BY <1>3, <2>1 DEF UseAfterFree, StackOverflow, Fail, cache
  <2> QED BY <1>1, <1>10, <2>1, CheckPrompt, SendPrompt, StorePrompt, CountPrompt,
             WalkPacketPrompt, WalkQueuePrompt, WalkFreePrompt, WalkDestroyPrompt DEF HandleStep
<1>11. CASE UNCHANGED vars
  BY <1>3, <1>11 DEF vars
<1> QED BY <1>2, <1>4, <1>5, <1>6, <1>7, <1>8, <1>9, <1>10, <1>11
        DEF Next, Arrival, MainStep, SweepStep, Stopped, Threads

\* When the threads keep up with the clock, a sweep that ends has sent every request
\* that was sent but not given up and was last sent two seconds ago or more.
THEOREM SentEveryOtherSecond == ASSUME Timely PROVE Spec => EveryOtherSecond
<1>1. Init => Prompt
  <2>1. Init => \A t \in Threads : 1..Len(stack[t]) = {}
    BY DEF Init
  <2> QED BY <2>1 DEF Init, Prompt, FramesNow, SentNow, Swept
<1>2. IInv /\ Prompt /\ SweepDone =>
         \A r \in queue : heap[r].times \in 1..MaxTries - 1 => heap[r].age <= 1
  <2> SUFFICES ASSUME IInv, Prompt, SweepDone, NEW r \in queue, heap[r].times \in 1..MaxTries - 1,
                      ~(heap[r].age <= 1)
               PROVE  FALSE
    OBVIOUS
  <2>1. /\ sweep.pc = "sweep" /\ sweep.cur = 0 /\ ~InTurn(r)
    BY DEF SweepDone, InTurn
  <2>2. r \in Req /\ heap[r].age \in Nat
    <3>1. r \in Req /\ heap[r] \in Request
      BY DEF IInv, TypeOK
    <3>2. \A q \in Request : q.age \in Nat
      BY DEF Request, SentCap
    <3> QED BY <3>1, <3>2
  <2>3. Overdue(r)
    BY <2>2 DEF Overdue
  <2>4. r <= 0
    BY <2>1, <2>3 DEF Prompt, Swept
  <2> QED BY <2>2, <2>4 DEF Req
<1>3. Spec => []Prompt
  BY <1>1, Invariant, InitTries, NextTries, NextPrompt, PTL DEF Spec
<1> QED BY <1>2, <1>3, Invariant, PTL DEF Spec, EveryOtherSecond

(***************************************************************************)
(* How deep handle_arpreq and send_icmp_msg nest.                          *)
(***************************************************************************)
\* A request some list or main still holds.
Held(r) == r \in queue \/ (main.pc = "flush" /\ main.req = r)

\* The queued request for an address is the newest there ever was for it; only packets
\* of a request are freed in place; what is not freed is held by someone.
Ordered ==
    /\ \A r \in queue, q \in Req : r < q /\ q <= created => heap[q].ip # heap[r].ip
    /\ \A r \in Req : heap[r].gone \subseteq 1..Len(heap[r].pkts)
    /\ \A r \in Req : r <= created =>
         heap[r].ip \in Hop /\ (heap[r].state # "freed" => Held(r))

\* A step that allocates nothing keeps that, if no request slips out of all hands.
LEMMA OrderedStays ==
    ASSUME IInv, TypeOK', Ordered, created' = created, queue' \subseteq queue,
           \A r \in Req : /\ heap'[r].ip = heap[r].ip
                          /\ heap'[r].gone \subseteq 1..Len(heap'[r].pkts),
           \A r \in Req : r <= created /\ heap'[r].state # "freed" =>
                heap[r].state # "freed" /\ (Held(r) => Held(r)')
    PROVE  Ordered'
<1>1. queue \subseteq Req
  BY DEF IInv, TypeOK
<1>2. \A r \in queue', q \in Req : r < q /\ q <= created' => heap'[q].ip # heap'[r].ip
  BY <1>1 DEF Ordered
<1>3. \A r \in Req : r <= created' =>
         heap'[r].ip \in Hop /\ (heap'[r].state # "freed" => Held(r)')
  BY DEF Ordered
<1> QED BY <1>2, <1>3 DEF Ordered

\* What queueing does to the packets of a request: one more at the end, or the first.
LEMMA QueueReqAppends ==
    ASSUME IInv, NEW h \in Hop, NEW p \in Packet \cup {Icmp}, NEW x \in Req,
           x = Target(h), QueueReq(h, p)
    PROVE  /\ \A r \in Req : r # x => heap'[r] = heap[r]
           /\ heap'[x].pkts = Append(IF x \in queue THEN heap[x].pkts ELSE <<>>, p)
           /\ heap'[x].ip = h /\ heap'[x].state = "live"
           /\ heap'[x].gone = IF x \in queue THEN heap[x].gone ELSE {}
           /\ queue' = queue \cup {x}
           /\ IF x \in queue THEN heap[x].ip = h /\ created' = created
              ELSE /\ x = created + 1 /\ created' = x
                   /\ \A r \in queue : heap[r].ip # h
<1>1. TypeOK /\ Allocated /\ OneRequestPerHop /\ Target(h) \in Req /\ created \in Nat
  BY ArpAssumption DEF IInv, TypeOK
<1>2. /\ \A r \in Req : r # x => heap'[r] = heap[r]
      /\ heap'[x].state = "live" /\ heap'[x].ip = h /\ queue' = queue \cup {x}
      /\ heap'[x].gone = IF x \in queue THEN heap[x].gone ELSE {}
  BY <1>1, QueueReqHeap
<1>3. CASE Waiting(h) # {}
  <2>1. x \in queue /\ heap[x].ip = h
    BY <1>3 DEF Target, Waiting
  <2>2. heap' = [heap EXCEPT ![x].pkts = Append(@, p)] /\ created' = created
    BY <1>3 DEF QueueReq, HeapWith
  <2>3. heap'[x].pkts = Append(heap[x].pkts, p)
    BY <1>1, <2>2 DEF TypeOK, Request
  <2> QED BY <1>2, <2>1, <2>2, <2>3
<1>4. CASE Waiting(h) = {}
  <2>1. x = created + 1 /\ created' = x
    BY <1>4 DEF Target, QueueReq
  <2>2. x \notin queue
    BY <1>1, <2>1 DEF Allocated, TypeOK, Req
  <2>3. heap' = [heap EXCEPT ![x] = NewRequest(h, p)]
    BY <1>4, <2>1 DEF QueueReq, HeapWith
  <2>4. NewRequest(h, p).pkts = <<p>>
    BY DEF NewRequest
  <2>5. heap'[x].pkts = <<p>>
    BY <1>1, <2>3, <2>4 DEF TypeOK
  <2>6. <<p>> = Append(<<>>, p)
    OBVIOUS
  <2>7. \A r \in queue : heap[r].ip # h
    BY <1>4 DEF Waiting
  <2> QED BY <1>2, <2>1, <2>2, <2>5, <2>6, <2>7
<1> QED BY <1>3, <1>4

\* Queueing uses the request there is for an address or makes the newest.
LEMMA QueueReqOrdered ==
    ASSUME IInv, TypeOK', Ordered, NEW h \in Hop, NEW p \in Packet \cup {Icmp}, NEW x \in Req,
           x = Target(h), QueueReq(h, p), \A r \in Req : Held(r) => Held(r)'
    PROVE  Ordered'
<1>1. /\ \A r \in Req : r # x => heap'[r] = heap[r]
      /\ heap'[x].pkts = Append(IF x \in queue THEN heap[x].pkts ELSE <<>>, p)
      /\ heap'[x].ip = h
      /\ heap'[x].gone = IF x \in queue THEN heap[x].gone ELSE {}
      /\ queue' = queue \cup {x}
      /\ IF x \in queue THEN heap[x].ip = h /\ created' = created
         ELSE /\ x = created + 1 /\ created' = x
              /\ \A r \in queue : heap[r].ip # h
  BY QueueReqAppends
<1>2. /\ queue \subseteq Req /\ created \in Nat /\ \A r \in queue : r <= created
      /\ \A r \in Req : r \in Nat
  BY ArpAssumption DEF IInv, TypeOK, Allocated, Req
<1>3. ASSUME NEW r \in queue', NEW q \in Req, r < q, q <= created'
      PROVE  heap'[q].ip # heap'[r].ip
  <2>1. CASE x \in queue
    BY <1>1, <1>2, <1>3, <2>1 DEF Ordered
  <2>2. CASE x \notin queue
    <3>1. r # x /\ r \in queue
      BY <1>1, <1>2, <1>3, <2>2
    <3>2. CASE q = x
      BY <1>1, <1>2, <2>2, <3>1, <3>2
    <3>3. CASE q # x
      <4>1. q <= created
        BY <1>1, <1>2, <1>3, <2>2, <3>3
      <4> QED BY <1>1, <1>2, <1>3, <3>1, <3>3, <4>1 DEF Ordered
    <3> QED BY <3>2, <3>3
  <2> QED BY <2>1, <2>2
<1>4. \A r \in Req : heap'[r].gone \subseteq 1..Len(heap'[r].pkts)
  <2>1. x \in queue => heap[x].pkts \in Seq(Packet \cup {Icmp})
    BY DEF IInv, TypeOK, Request
  <2>2. heap'[x].gone \subseteq 1..Len(heap'[x].pkts)
    BY <1>1, <2>1 DEF Ordered
  <2> QED BY <1>1, <2>2 DEF Ordered
<1>5. ASSUME NEW r \in Req, r <= created'
      PROVE  heap'[r].ip \in Hop /\ (heap'[r].state # "freed" => Held(r)')
  <2>1. CASE r = x
    BY <1>1, <2>1 DEF Held
  <2>2. CASE r # x
    <3>1. r <= created /\ heap'[r] = heap[r]
      BY <1>1, <1>2, <1>5, <2>2
    <3> QED BY <3>1 DEF Ordered
  <2> QED BY <2>1, <2>2
<1> QED BY <1>3, <1>4, <1>5 DEF Ordered

\* Every step keeps the list in order.
LEMMA NextOrdered == IInv /\ IInv' /\ Ordered /\ [Next]_vars => Ordered'
<1> SUFFICES ASSUME IInv, IInv', Ordered, [Next]_vars PROVE Ordered'
  OBVIOUS
<1>1. TypeOK /\ TypeOK' /\ Control /\ OneRequestPerHop /\ FlushOwned
  BY DEF IInv
<1>2. CASE UNCHANGED <<queue, created, main>> /\ \A r \in Req :
              /\ heap'[r].ip = heap[r].ip /\ heap'[r].state = heap[r].state
              /\ heap'[r].gone \subseteq 1..Len(heap'[r].pkts)
  BY <1>1, <1>2, OrderedStays DEF Held
<1>3. CASE UNCHANGED <<queue, heap, created, main>>
  BY <1>2, <1>3 DEF Ordered
<1>4. CASE Tick
  <2>1. \A r \in Req : /\ heap'[r].ip = heap[r].ip /\ heap'[r].state = heap[r].state
                       /\ heap'[r].gone = heap[r].gone /\ heap'[r].pkts = heap[r].pkts
    BY <1>1, <1>4 DEF Tick, TypeOK, Request
  <2> QED BY <1>2, <1>4, <2>1 DEF Tick, Ordered
<1>5. ASSUME NEW p \in Packet, Receive(p) PROVE Ordered'
  <2>1. UNCHANGED <<queue, heap, created>> /\ main.pc # "flush"
    BY <1>5 DEF Receive, cache, MainIdle
  <2> QED BY <1>1, <2>1, OrderedStays DEF Held, Ordered
<1>6. ASSUME NEW h \in Hop, NEW m \in Mac, Learn(h, m) PROVE Ordered'
  <2>1. UNCHANGED <<heap, created>> /\ main.pc = "idle"
    BY <1>6 DEF Learn, MainIdle
  <2>2. CASE UNCHANGED <<queue, main>>
    BY <1>3, <2>1, <2>2
  <2>3. CASE main' = FlushOf(Target(h)) /\ queue' = queue \ {Target(h)}
    <3>1. main'.pc = "flush" /\ main'.req = Target(h)
      BY <1>1, <2>3 DEF FlushOf, TypeOK, Main
    <3> QED BY <1>1, <2>1, <2>3, <3>1, OrderedStays DEF Held, Ordered
  <2> QED BY <1>6, <2>2, <2>3 DEF Learn, Unlink
<1>7. CASE QueuePacket
  <2>1. /\ NextHop[main.pkt] \in Hop /\ main.pkt \in Packet
        /\ Target(NextHop[main.pkt]) \in Req /\ QueueReq(NextHop[main.pkt], main.pkt)
        /\ main.pc = "queue"
    BY <1>1, <1>7, ArpAssumption DEF QueuePacket, Control
  <2>2. queue \subseteq queue'
    BY <2>1 DEF QueueReq
  <2> QED BY <1>1, <2>1, <2>2, QueueReqOrdered DEF Held
<1>8. CASE FlushSend
  <2>1. /\ UNCHANGED <<queue, heap, created>> /\ main'.pc = main.pc /\ main'.req = main.req
    BY <1>1, <1>8 DEF FlushSend, cache, TypeOK, Main
  <2> QED BY <1>1, <2>1, OrderedStays DEF Held, Ordered
<1>9. ASSUME NEW x \in Req, Destroy(x), created' = created,
             main' = main \/ (main.pc = "flush" /\ main.req = x)
      PROVE  Ordered'
  <2>1. /\ queue' = queue \ {x} /\ heap'[x].state = "freed"
        /\ \A r \in Req : /\ heap'[r].pkts = heap[r].pkts /\ heap'[r].ip = heap[r].ip
                          /\ heap'[r].gone = heap[r].gone
                          /\ r # x => heap'[r] = heap[r]
    BY <1>1, <1>9, DestroyHeap
  <2> QED BY <1>1, <1>9, <2>1, OrderedStays DEF Held, Ordered
<1>10. CASE FlushDestroy
  <2>1. main.req \in Req /\ Destroy(main.req) /\ main.pc = "flush" /\ created' = created
    BY <1>1, <1>10 DEF FlushDestroy, Control
  <2> QED BY <1>9, <2>1
<1>11. CASE SweepWake \/ SweepRequest \/ SweepDone
  BY <1>3, <1>11 DEF SweepWake, SweepRequest, SweepDone, Fail, cache
<1>12. ASSUME NEW t \in Threads, HandleStep(t) PROVE Ordered'
  <2>1. CASE UseAfterFree(t) \/ StackOverflow(t) \/ HandleCheck(t) \/ WalkPacket(t)
    BY <1>3, <2>1 DEF UseAfterFree, StackOverflow, HandleCheck, WalkPacket, Fail, cache
  <2>2. CASE HandleSend(t) \/ HandleStore(t) \/ HandleCount(t)
    <3>1. /\ UNCHANGED <<queue, created, main>>
          /\ \/ heap' = [heap EXCEPT ![Top(t).req].wire = @ + 1]
             \/ heap' = [heap EXCEPT ![Top(t).req].age = Top(t).age]
             \/ heap' = [heap EXCEPT ![Top(t).req].times = Top(t).n + 1]
      BY <2>2 DEF HandleSend, HandleStore, HandleCount
    <3>2. \A r \in Req : /\ heap'[r].ip = heap[r].ip /\ heap'[r].state = heap[r].state
                         /\ heap'[r].gone = heap[r].gone /\ heap'[r].pkts = heap[r].pkts
      <4>1. CASE heap' = [heap EXCEPT ![Top(t).req].wire = @ + 1]
        BY <1>1, <4>1 DEF TypeOK, Request
      <4>2. CASE heap' = [heap EXCEPT ![Top(t).req].age = Top(t).age]
        BY <1>1, <4>2 DEF TypeOK, Request
      <4>3. CASE heap' = [heap EXCEPT ![Top(t).req].times = Top(t).n + 1]
        BY <1>1, <4>3 DEF TypeOK, Request
      <4> QED BY <3>1, <4>1, <4>2, <4>3
    <3> QED BY <1>2, <3>1, <3>2 DEF Ordered
  <2>3. CASE WalkQueue(t)
    <3>1. PICK x \in Req, h \in Hop : x = Target(h) /\ QueueReq(h, Icmp)
      BY <2>3, WalkQueueStack
    <3>2. main' = main /\ queue \subseteq queue'
      BY <2>3, <3>1 DEF WalkQueue, QueueReq
    <3> QED BY <1>1, <3>1, <3>2, QueueReqOrdered DEF Held
  <2>4. CASE WalkFree(t)
    <3>1. CASE Fail("double_free")
      BY <1>3, <3>1 DEF Fail, cache
    <3>2. CASE ~Fail("double_free")
      <4>1. /\ Running(t) /\ Top(t).pc = "free" /\ UNCHANGED <<queue, created, main>>
            /\ heap' = [heap EXCEPT ![Top(t).req].gone = @ \cup {Top(t).k}]
        BY <2>4, <3>2 DEF WalkFree, At
      <4>2. Top(t).k \in 1..Len(heap[Top(t).req].pkts) /\ Top(t).req \in Req
        BY <4>1, AtPacket, TopFacts
      <4>3. \A r \in Req : /\ heap'[r].ip = heap[r].ip /\ heap'[r].state = heap[r].state
                           /\ heap'[r].pkts = heap[r].pkts
                           /\ \/ heap'[r].gone = heap[r].gone
                              \/ r = Top(t).req /\ heap'[r].gone = heap[r].gone \cup {Top(t).k}
        BY <1>1, <4>1 DEF TypeOK, Request
      <4> QED BY <1>2, <4>1, <4>2, <4>3 DEF Ordered
    <3> QED BY <3>1, <3>2
  <2>5. CASE WalkDestroy(t)
    <3>1. CASE Fail("double_free")
      BY <1>3, <3>1 DEF Fail, cache
    <3>2. CASE ~Fail("double_free")
      <4>1. Running(t) /\ Destroy(Top(t).req) /\ created' = created /\ main' = main
        BY <2>5, <3>2 DEF WalkDestroy, At
      <4> QED BY <1>9, <4>1, TopFacts
    <3> QED BY <3>1, <3>2
  <2> QED BY <1>12, <2>1, <2>2, <2>3, <2>4, <2>5 DEF HandleStep
<1>13. CASE UNCHANGED vars
  BY <1>3, <1>13 DEF vars
<1> QED BY <1>4, <1>5, <1>6, <1>7, <1>8, <1>10, <1>11, <1>12, <1>13
        DEF Next, Arrival, MainStep, SweepStep, Stopped, Threads

LEMMA InitOrdered == Init => Ordered
<1> SUFFICES ASSUME Init PROVE Ordered
  OBVIOUS
<1>1. \A r \in Req : heap[r].gone = {}
  BY DEF Init, Unused
<1> QED BY <1>1, ArpAssumption DEF Init, Ordered, Req

\* All packets of a request are ICMP messages of the router's own.
OnlyIcmp(r) == \A k \in 1..Len(heap[r].pkts) : heap[r].pkts[k] = Icmp
IcmpAt(r, k) == k \in 1..Len(heap[r].pkts) /\ heap[r].pkts[k] = Icmp

\* Behind a walk there are only packets that were freed, and messages queued since.
PassedBy(f) == GivingUp(f) =>
    \A x \in 1..Len(heap[f.req].pkts) : x > f.k => x \in heap[f.req].gone \/ heap[f.req].pkts[x] = Icmp

\* Requests made for its address since hold only messages of the router's own.
NewerOnlyIcmp(f) == \A q \in Req :
    q > f.req /\ q <= created /\ heap[q].ip = heap[f.req].ip => OnlyIcmp(q)

\* A call made for an ICMP message comes to it first, and frees it.
ForIcmp(f) ==
    /\ f.pc = "check" => IcmpAt(f.req, Len(heap[f.req].pkts))
    /\ GivingUp(f) => IcmpAt(f.req, f.k) \/ \E x \in heap[f.req].gone : x > f.k

\* The call has reported a packet: with host routes alone it was no message of the
\* router's own.
Reports(f) == f.pc = "free" /\ heap[f.req].pkts[f.k] # Icmp

\* Call g, for the same request as an outer call f, will make no further call: before it
\* comes to the packet f stands at it meets one that was freed.
Ends(f, g) ==
    /\ g.pc # "queue"
    /\ GivingUp(g) => \E x \in heap[g.req].gone : f.k < x /\ x <= g.k
    /\ g.pc = "free" => heap[g.req].pkts[g.k] = Icmp

CallOK(s, i) ==
    /\ PassedBy(s[i]) /\ NewerOnlyIcmp(s[i])
    /\ i > 1 => ForIcmp(s[i])
    /\ i < Len(s) => Reports(s[i])
PairOK(s, m, l) == s[m].req = s[l].req => l = Len(s) /\ Ends(s[m], s[l])
NestIn(s) == \A l \in 1..Len(s) : CallOK(s, l) /\ \A m \in 2..l - 1 : PairOK(s, m, l)
Nested    == \A t \in Threads : NestIn(stack[t])

\* A step while some call is active: requests keep their packets, and the packets added
\* are ICMP messages.
Grown ==
    /\ created <= created'
    /\ \A r \in Req : r <= created =>
         /\ heap'[r].ip = heap[r].ip /\ heap[r].gone \subseteq heap'[r].gone
         /\ Len(heap[r].pkts) <= Len(heap'[r].pkts)
         /\ \A k \in 1..Len(heap[r].pkts) : heap'[r].pkts[k] = heap[r].pkts[k]
         /\ \A k \in 1..Len(heap'[r].pkts) : k > Len(heap[r].pkts) => heap'[r].pkts[k] = Icmp
    /\ \A r \in Req : r > created /\ r <= created' =>
         \A k \in 1..Len(heap'[r].pkts) : heap'[r].pkts[k] = Icmp

\* What is known of a call survives such a step.
LEMMA CallKept ==
    ASSUME TypeOK, TypeOK', Grown, NEW f \in Frame, FrameOK(f), NEW g \in Frame, Same(g, f)
    PROVE  /\ PassedBy(f) => PassedBy(g)'
           /\ NewerOnlyIcmp(f) => NewerOnlyIcmp(g)'
           /\ ForIcmp(f) => ForIcmp(g)'
           /\ Reports(f) => Reports(g)'
<1> DEFINE r == f.req
<1>1. /\ r \in Req /\ r <= created /\ g.req = r /\ g.pc = f.pc /\ g.k = f.k /\ f.k \in Nat
      /\ created \in Nat /\ created' \in Nat /\ \A q \in Req : q \in Nat
  BY ArpAssumption DEF Frame, FrameOK, Same, TypeOK, Req
<1>2. /\ heap[r].pkts \in Seq(Packet \cup {Icmp}) /\ heap'[r].pkts \in Seq(Packet \cup {Icmp})
      /\ Len(heap[r].pkts) \in Nat /\ Len(heap'[r].pkts) \in Nat
  <2>1. heap[r] \in Request /\ heap'[r] \in Request
    BY <1>1 DEF TypeOK
  <2>2. \A q \in Request : q.pkts \in Seq(Packet \cup {Icmp})
    BY DEF Request
  <2>3. heap[r].pkts \in Seq(Packet \cup {Icmp}) /\ heap'[r].pkts \in Seq(Packet \cup {Icmp})
    BY <2>1, <2>2
  <2> QED BY <2>3
<1>3. /\ heap'[r].ip = heap[r].ip /\ heap[r].gone \subseteq heap'[r].gone
      /\ Len(heap[r].pkts) <= Len(heap'[r].pkts)
      /\ \A k \in 1..Len(heap[r].pkts) : heap'[r].pkts[k] = heap[r].pkts[k]
      /\ \A k \in 1..Len(heap'[r].pkts) : k > Len(heap[r].pkts) => heap'[r].pkts[k] = Icmp
  BY <1>1 DEF Grown
<1>4. PassedBy(f) => PassedBy(g)'
  <2> SUFFICES ASSUME PassedBy(f), GivingUp(f), NEW x \in 1..Len(heap'[r].pkts), x > f.k
               PROVE  x \in heap'[r].gone \/ heap'[r].pkts[x] = Icmp
    BY <1>1 DEF PassedBy, GivingUp
  <2>1. CASE x \in 1..Len(heap[r].pkts)
    <3>1. x \in heap[r].gone \/ heap[r].pkts[x] = Icmp
      BY <2>1 DEF PassedBy
    <3> QED BY <1>3, <2>1, <3>1
  <2>2. CASE x > Len(heap[r].pkts)
    BY <1>3, <2>2
  <2> QED BY <1>2, <2>1, <2>2
<1>5. NewerOnlyIcmp(f) => NewerOnlyIcmp(g)'
  <2> SUFFICES ASSUME NewerOnlyIcmp(f), NEW q \in Req, q > r, q <= created',
                      heap'[q].ip = heap'[r].ip
               PROVE  OnlyIcmp(q)'
    BY <1>1 DEF NewerOnlyIcmp
  <2>1. CASE q <= created
    <3>1. /\ heap'[q].ip = heap[q].ip
          /\ \A k \in 1..Len(heap[q].pkts) : heap'[q].pkts[k] = heap[q].pkts[k]
          /\ \A k \in 1..Len(heap'[q].pkts) : k > Len(heap[q].pkts) => heap'[q].pkts[k] = Icmp
      BY <2>1 DEF Grown
    <3>2. OnlyIcmp(q)
      BY <1>3, <2>1, <3>1 DEF NewerOnlyIcmp
    <3>3. /\ heap[q].pkts \in Seq(Packet \cup {Icmp})
          /\ heap'[q].pkts \in Seq(Packet \cup {Icmp})
      BY DEF TypeOK, Request
    <3>4. Len(heap[q].pkts) \in Nat /\ Len(heap'[q].pkts) \in Nat
      BY <3>3
    <3>5. ASSUME NEW k \in 1..Len(heap'[q].pkts) PROVE heap'[q].pkts[k] = Icmp
      <4>1. CASE k \in 1..Len(heap[q].pkts)
        BY <3>1, <3>2, <4>1 DEF OnlyIcmp
      <4> QED BY <3>1, <3>4, <4>1
    <3> QED BY <3>5 DEF OnlyIcmp
  <2>2. CASE ~(q <= created)
    BY <1>1, <2>2 DEF Grown, OnlyIcmp
  <2> QED BY <2>1, <2>2
<1>6. \A k \in Nat : IcmpAt(r, k) => IcmpAt(r, k)'
  BY <1>2, <1>3 DEF IcmpAt
<1>7. IcmpAt(r, Len(heap[r].pkts)) => heap'[r].pkts[Len(heap'[r].pkts)] = Icmp
                                     /\ Len(heap'[r].pkts) \in 1..Len(heap'[r].pkts)
  BY <1>2, <1>3, SMTT(30) DEF IcmpAt
<1>8. ForIcmp(f) => ForIcmp(g)'
  BY <1>1, <1>3, <1>6, <1>7 DEF ForIcmp, GivingUp, IcmpAt
<1>9. Reports(f) => Reports(g)'
  <2> SUFFICES ASSUME Reports(f) PROVE Reports(g)'
    OBVIOUS
  <2>1. f.k \in 1..Len(heap[r].pkts)
    BY DEF Reports, FrameOK
  <2>2. heap'[g.req].pkts[g.k] = heap[r].pkts[f.k]
    BY <1>1, <1>3, <2>1, SMTT(30)
  <2> QED BY <1>1, <2>2 DEF Reports
<1> QED BY <1>4, <1>5, <1>8, <1>9

\* So does what is known of two calls for the same request.
LEMMA EndsKept ==
    ASSUME TypeOK, TypeOK', Grown, NEW f \in Frame, NEW g \in Frame, FrameOK(g), Ends(f, g)
    PROVE  Ends(f, g)'
<1>1. /\ g.req \in Req /\ g.req <= created
  BY DEF Frame, FrameOK
<1>2. /\ heap[g.req].gone \subseteq heap'[g.req].gone
      /\ \A k \in 1..Len(heap[g.req].pkts) : heap'[g.req].pkts[k] = heap[g.req].pkts[k]
  BY <1>1 DEF Grown
<1>3. g.pc = "free" => g.k \in 1..Len(heap[g.req].pkts)
  BY DEF FrameOK
<1> QED BY <1>2, <1>3 DEF Ends

\* A stack on which no call moves.
LEMMA StackKept ==
    ASSUME TypeOK, TypeOK', Grown, NEW s \in Seq(Frame), \A i \in 1..Len(s) : FrameOK(s[i]),
           NestIn(s), NEW u \in Seq(Frame), Len(u) = Len(s), \A i \in 1..Len(s) : Same(u[i], s[i])
    PROVE  NestIn(u)'
<1>1. ASSUME NEW l \in 1..Len(s) PROVE CallOK(u, l)'
  <2>1. s[l] \in Frame /\ u[l] \in Frame /\ FrameOK(s[l]) /\ Same(u[l], s[l]) /\ CallOK(s, l)
    BY DEF NestIn
  <2> QED BY <2>1, CallKept DEF CallOK
<1>2. ASSUME NEW l \in 1..Len(s), NEW m \in 2..l - 1 PROVE PairOK(u, m, l)'
  <2>1. s[l] \in Frame /\ FrameOK(s[l]) /\ PairOK(s, m, l) /\ Same(u[l], s[l])
    BY DEF NestIn
  <2>2. s[m] \in Frame /\ Same(u[m], s[m])
    <3>1. m \in 1..Len(s)
      OBVIOUS
    <3> QED BY <3>1
  <2>3. Ends(s[m], s[l])' => Ends(u[m], u[l])'
    BY <2>1, <2>2 DEF Ends, Same, GivingUp
  <2>4. s[m].req = s[l].req <=> u[m].req = u[l].req
    BY <2>1, <2>2 DEF Same
  <2>5. Ends(s[m], s[l]) => Ends(s[m], s[l])'
    BY <2>1, <2>2, EndsKept
  <2> QED BY <2>1, <2>3, <2>4, <2>5 DEF PairOK
<1> QED BY <1>1, <1>2 DEF NestIn

\* The call on top moves on.
LEMMA StackMoves ==
    ASSUME TypeOK, TypeOK', Grown, NEW s \in Seq(Frame), \A i \in 1..Len(s) : FrameOK(s[i]),
           NestIn(s), NEW n \in Nat, n = Len(s), n # 0,
           NEW u \in Seq(Frame), Len(u) = n, \A i \in 1..n : i # n => u[i] = s[i],
           u[n].req = s[n].req, PassedBy(u[n])', n > 1 => ForIcmp(u[n])',
           \A m \in 2..n - 1 : s[m].req = s[n].req => Ends(s[m], u[n])'
    PROVE  NestIn(u)'
<1>1. ASSUME NEW l \in 1..n PROVE CallOK(u, l)'
  <2>1. s[l] \in Frame /\ FrameOK(s[l]) /\ CallOK(s, l)
    BY DEF NestIn
  <2>2. CASE l # n
    <3>1. u[l] = s[l] /\ Same(s[l], s[l]) /\ l < n
      BY <2>2 DEF Same
    <3> QED BY <2>1, <3>1, CallKept DEF CallOK
  <2>3. CASE l = n
    <3>1. NewerOnlyIcmp(s[n])'
      BY <2>1, <2>3, CallKept DEF CallOK, Same
    <3>2. NewerOnlyIcmp(u[n])'
      BY <3>1 DEF NewerOnlyIcmp
    <3> QED BY <2>3, <3>2 DEF CallOK
  <2> QED BY <2>2, <2>3
<1>2. ASSUME NEW l \in 1..n, NEW m \in 2..l - 1 PROVE PairOK(u, m, l)'
  <2>1. PairOK(s, m, l) /\ m \in 1..n /\ m # n /\ u[m] = s[m]
    BY DEF NestIn
  <2>2. CASE l # n
    BY <2>1, <2>2 DEF PairOK
  <2>3. CASE l = n
    BY <2>1, <2>3 DEF PairOK
  <2> QED BY <2>2, <2>3
<1> QED BY <1>1, <1>2 DEF NestIn

\* The call on top returns.
LEMMA StackPops ==
    ASSUME TypeOK, TypeOK', Grown, NEW s \in Seq(Frame), \A i \in 1..Len(s) : FrameOK(s[i]),
           NestIn(s), NEW n \in Nat, Len(s) = n + 1,
           NEW u \in Seq(Frame), Len(u) = n, \A i \in 1..n : u[i] = s[i]
    PROVE  NestIn(u)'
<1>1. ASSUME NEW l \in 1..n PROVE CallOK(u, l)'
  <2>1. s[l] \in Frame /\ FrameOK(s[l]) /\ CallOK(s, l) /\ u[l] = s[l] /\ Same(s[l], s[l])
    BY DEF NestIn, Same
  <2> QED BY <2>1, CallKept DEF CallOK
<1>2. ASSUME NEW l \in 1..n, NEW m \in 2..l - 1 PROVE PairOK(u, m, l)'
  <2>1. PairOK(s, m, l) /\ u[m] = s[m] /\ u[l] = s[l] /\ l # Len(s)
    BY DEF NestIn
  <2> QED BY <2>1 DEF PairOK
<1> QED BY <1>1, <1>2 DEF NestIn

\* The call on top has queued an ICMP message and calls for the request of it.
LEMMA StackGrows ==
    ASSUME HostRoutes, TypeOK, Allocated, TypeOK', Grown, NEW s \in Seq(Frame), \A i \in 1..Len(s) : FrameOK(s[i]),
           NestIn(s), NEW n \in Nat, n = Len(s), n # 0, s[n].pc = "queue",
           NEW x \in Req, NEW u \in Seq(Frame), Len(u) = n + 1,
           \A i \in 1..n : i # n => u[i] = s[i],
           u[n] = [s[n] EXCEPT !.pc = "free"], u[n + 1] = NewFrame(x),
           NewerOnlyIcmp(u[n + 1])', IcmpAt(x, Len(heap[x].pkts))'
    PROVE  NestIn(u)'
<1>0. /\ s[n] \in Frame /\ FrameOK(s[n]) /\ CallOK(s, n)
      /\ u[n].pc = "free" /\ u[n].req = s[n].req /\ u[n].k = s[n].k /\ u[n] \in Frame
  <2>1. s[n] \in Frame /\ FrameOK(s[n]) /\ CallOK(s, n)
    BY DEF NestIn
  <2> QED BY <2>1 DEF Frame
<1>1. \A m \in 2..n - 1 : s[m].req # s[n].req
  BY DEF NestIn, PairOK, Ends
<1>2. ASSUME NEW l \in 1..n + 1 PROVE CallOK(u, l)'
  <2>1. CASE l \in 1..n /\ l # n
    <3>1. s[l] \in Frame /\ FrameOK(s[l]) /\ CallOK(s, l) /\ u[l] = s[l] /\ Same(s[l], s[l])
          /\ l < n
      BY <2>1 DEF NestIn, Same
    <3> QED BY <3>1, CallKept DEF CallOK
  <2>2. CASE l = n
    <3>1. PassedBy(s[n])' /\ NewerOnlyIcmp(s[n])' /\ (n > 1 => ForIcmp(s[n])')
      BY <1>0, CallKept DEF CallOK, Same
    <3>2. PassedBy(u[n])' /\ NewerOnlyIcmp(u[n])' /\ (n > 1 => ForIcmp(u[n])')
      BY <1>0, <3>1 DEF PassedBy, NewerOnlyIcmp, ForIcmp, GivingUp
    <3>3. Reports(u[n])'
      <4> DEFINE r == s[n].req  k == s[n].k
      <4>1. /\ k \in 1..Len(heap[r].pkts) /\ SourceOf(heap[r].pkts[k], r) \in Hop
            /\ r \in Req /\ r <= created /\ heap[r].ip \in Hop
        BY <1>0 DEF FrameOK, Frame, Allocated
      <4>3. heap[r].pkts[k] # Icmp
        BY <4>1, ArpAssumption DEF SourceOf, HostRoutes
      <4>2. heap'[r].pkts[k] = heap[r].pkts[k]
        BY <4>1 DEF Grown
      <4> QED BY <1>0, <4>2, <4>3 DEF Reports
    <3> QED BY <2>2, <3>2, <3>3 DEF CallOK
  <2>3. CASE l = n + 1
    <3>1. PassedBy(u[n + 1])' /\ ForIcmp(u[n + 1])'
      BY DEF PassedBy, ForIcmp, NewFrame, GivingUp
    <3> QED BY <2>3, <3>1 DEF CallOK
  <2> QED BY <2>1, <2>2, <2>3
<1>3. ASSUME NEW l \in 1..n + 1, NEW m \in 2..l - 1 PROVE PairOK(u, m, l)'
  <2>1. CASE l \in 1..n /\ l # n
    <3>1. PairOK(s, m, l) /\ u[m] = s[m] /\ u[l] = s[l]
      BY <2>1 DEF NestIn
    <3> QED BY <2>1, <3>1 DEF PairOK
  <2>2. CASE l = n
    <3>2. m \in 2..n - 1 /\ m \in 1..n /\ m # n
      BY <2>2
    <3>1. u[m].req # u[l].req
      BY <1>0, <1>1, <2>2, <3>2
    <3> QED BY <3>1 DEF PairOK
  <2>3. CASE l = n + 1
    <3>1. Ends(u[m], u[l])'
      BY <2>3 DEF Ends, NewFrame, GivingUp
    <3> QED BY <2>3, <3>1 DEF PairOK
  <2> QED BY <2>1, <2>2, <2>3
<1> QED BY <1>2, <1>3 DEF NestIn

\* Only one thread's stack changes, and that one stays as it should be.
LEMMA ThreadNest ==
    ASSUME IInv, TypeOK', Grown, Nested, NEW t \in Threads,
           \A u \in Threads : u # t => stack'[u] = stack[u],
           NEW s \in Seq(Frame), s = stack'[t], NestIn(s)'
    PROVE  Nested'
<1> SUFFICES ASSUME NEW u \in Threads PROVE NestIn(stack[u])'
  BY DEF Nested
<1>1. CASE u = t
  BY <1>1 DEF NestIn, CallOK, PairOK
<1>2. CASE u # t
  <2>1. PICK v \in Seq(Frame) : v = stack[u] /\ v = stack'[u]
    BY <1>2 DEF IInv, TypeOK
  <2>2. NestIn(v) /\ \A i \in 1..Len(v) : FrameOK(v[i])
    BY <2>1 DEF Nested, IInv, FramesOK
  <2>3. NestIn(v)'
    BY <2>2, StackKept DEF IInv, Same
  <2> QED BY <2>1, <2>3 DEF NestIn, CallOK, PairOK
<1> QED BY <1>1, <1>2

\* No stack changes.
LEMMA StillNest ==
    ASSUME IInv, TypeOK', Grown, Nested, stack' = stack PROVE Nested'
<1> SUFFICES ASSUME NEW u \in Threads PROVE NestIn(stack[u])'
  BY DEF Nested
<1>1. PICK v \in Seq(Frame) : v = stack[u] /\ v = stack'[u]
  BY DEF IInv, TypeOK
<1>2. NestIn(v) /\ \A i \in 1..Len(v) : FrameOK(v[i])
  BY <1>1 DEF Nested, IInv, FramesOK
<1>3. NestIn(v)'
  BY <1>2, StackKept DEF IInv, Same
<1> QED BY <1>1, <1>3 DEF NestIn, CallOK, PairOK

\* The call on top of a thread's stack moves on.
LEMMA GotoNest ==
    ASSUME IInv, TypeOK', Grown, Nested, NEW t \in Threads, Running(t), NEW f \in Frame,
           stack' = Goto(t, f), f.req = Top(t).req, PassedBy(f)',
           Len(stack[t]) > 1 => ForIcmp(f)',
           \A m \in 2..Len(stack[t]) - 1 : \A e \in Frame :
              e = stack[t][m] /\ e.req = f.req => Ends(e, f)'
    PROVE  Nested'
<1>1. stack \in [Threads -> Seq(Frame)] /\ stack[t] # <<>>
  BY TopFacts
<1>2. /\ stack' \in [Threads -> Seq(Frame)]
      /\ \A u \in Threads : Len(stack'[u]) = Len(stack[u])
      /\ \A u \in Threads : \A i \in 1..Len(stack[u]) :
           stack'[u][i] = IF u = t /\ i = Len(stack[t]) THEN f ELSE stack[u][i]
  BY <1>1, GotoStack
<1>3. \A u \in Threads : u # t => stack'[u] = stack[u]
  BY <1>1 DEF Goto
<1>4. PICK s \in Seq(Frame), u \in Seq(Frame) : s = stack[t] /\ u = stack'[t]
  BY <1>1, <1>2
<1>5. PICK n \in Nat : n = Len(s)
  BY <1>4
<1>6. /\ n # 0 /\ Len(u) = n /\ u[n] = f /\ Top(t) = s[n]
      /\ \A i \in 1..n : i # n => u[i] = s[i]
  BY <1>1, <1>2, <1>4, <1>5 DEF Top
<1>7. NestIn(s) /\ \A i \in 1..Len(s) : FrameOK(s[i])
  BY <1>4 DEF Nested, IInv, FramesOK
<1>8. \A m \in 2..n - 1 : s[m].req = s[n].req => Ends(s[m], u[n])'
  <2> SUFFICES ASSUME NEW m \in 2..n - 1, s[m].req = s[n].req PROVE Ends(s[m], u[n])'
    OBVIOUS
  <2>1. m \in 1..n
    OBVIOUS
  <2>2. PICK e \in Frame : e = s[m]
    BY <1>5, <2>1
  <2>3. Ends(e, f)'
    BY <1>4, <1>5, <1>6, <2>2
  <2> QED BY <1>6, <2>2, <2>3 DEF Ends
<1>9. PassedBy(u[n])' /\ (n > 1 => ForIcmp(u[n])')
  BY <1>4, <1>5, <1>6 DEF PassedBy, ForIcmp
<1>10. NestIn(u)'
  BY <1>5, <1>6, <1>7, <1>8, <1>9, StackMoves DEF IInv
<1> QED BY <1>3, <1>4, <1>10, ThreadNest

\* The call on top of a thread's stack returns.
LEMMA ReturnNest ==
    ASSUME IInv, TypeOK', Grown, Nested, NEW t \in Threads, Running(t), stack' = Return(t)
    PROVE  Nested'
<1>1. stack \in [Threads -> Seq(Frame)] /\ stack[t] # <<>>
  BY TopFacts
<1>2. /\ stack' \in [Threads -> Seq(Frame)]
      /\ \A u \in Threads :
           Len(stack'[u]) = IF u = t THEN Len(stack[t]) - 1 ELSE Len(stack[u])
      /\ \A u \in Threads : \A i \in 1..Len(stack'[u]) :
           i \in 1..Len(stack[u]) /\ stack'[u][i] = stack[u][i]
  BY <1>1, ReturnStack
<1>3. \A u \in Threads : u # t => stack'[u] = stack[u]
  BY <1>1 DEF Return
<1>4. PICK s \in Seq(Frame), u \in Seq(Frame) : s = stack[t] /\ u = stack'[t]
  BY <1>1, <1>2
<1>5. PICK n \in Nat : n = Len(u)
  BY <1>4
<1>6. Len(s) = n + 1 /\ \A i \in 1..n : u[i] = s[i]
  BY <1>1, <1>2, <1>4, <1>5
<1>7. NestIn(s) /\ \A i \in 1..Len(s) : FrameOK(s[i])
  BY <1>4 DEF Nested, IInv, FramesOK
<1>8. NestIn(u)'
  BY <1>5, <1>6, <1>7, StackPops DEF IInv
<1> QED BY <1>3, <1>4, <1>8, ThreadNest

\* An outer call was not the first to come to a packet for the router's own message: it
\* has freed one newer than the packet it now reports.
LEMMA OuterGone ==
    ASSUME IInv, Ordered, Nested, NEW t \in Threads, NEW m \in 2..Len(stack[t]) - 1,
           NEW e \in Frame, e = stack[t][m]
    PROVE  \E x \in heap[e.req].gone : x > e.k /\ x \in 1..Len(heap[e.req].pkts)
<1>1. Len(stack[t]) \in Nat
  BY DEF IInv, TypeOK
<1>2. CallOK(stack[t], m) /\ m > 1 /\ m < Len(stack[t])
  BY <1>1 DEF Nested, NestIn
<1>3. ForIcmp(e) /\ Reports(e)
  BY <1>2 DEF CallOK
<1>4. \E x \in heap[e.req].gone : x > e.k
  BY <1>3 DEF ForIcmp, Reports, IcmpAt, GivingUp
<1>5. e.req \in Req
  BY DEF Frame
<1> QED BY <1>4, <1>5 DEF Ordered

\* The message counters, ages and states of requests are nothing to the nesting.
LEMMA SameGrown ==
    ASSUME TypeOK, created' = created,
           \A r \in Req : /\ heap'[r].ip = heap[r].ip /\ heap[r].gone \subseteq heap'[r].gone
                          /\ heap'[r].pkts = heap[r].pkts
    PROVE  Grown
<1>1. \A r \in Req : heap[r].pkts \in Seq(Packet \cup {Icmp}) /\ Len(heap[r].pkts) \in Nat
  BY DEF TypeOK, Request
<1>2. created \in Nat
  BY ArpAssumption DEF TypeOK
<1>3. ASSUME NEW r \in Req
      PROVE  \A k \in 1..Len(heap'[r].pkts) : ~(k > Len(heap[r].pkts))
  BY <1>1
<1> QED BY <1>1, <1>2, <1>3 DEF Grown, Req

\* What is known of the call on top and, for the same request, an outer one.
LEMMA TopNest ==
    ASSUME IInv, Nested, NEW t \in Threads, Running(t)
    PROVE  /\ CallOK(stack[t], Len(stack[t])) /\ PassedBy(Top(t))
           /\ Len(stack[t]) > 1 => ForIcmp(Top(t))
           /\ \A m \in 2..Len(stack[t]) - 1 : \A e \in Frame : e = stack[t][m] =>
                /\ PassedBy(e) /\ Reports(e)
                /\ e.req = Top(t).req => Ends(e, Top(t))
<1>1. Len(stack[t]) \in 1..Len(stack[t]) /\ Top(t) = stack[t][Len(stack[t])]
  BY TopFacts
<1>2. CallOK(stack[t], Len(stack[t]))
  BY <1>1 DEF Nested, NestIn
<1>3. ASSUME NEW m \in 2..Len(stack[t]) - 1, NEW e \in Frame, e = stack[t][m]
      PROVE  /\ PassedBy(e) /\ Reports(e)
             /\ e.req = Top(t).req => Ends(e, Top(t))
  <2>1. m \in 1..Len(stack[t]) /\ m < Len(stack[t])
    BY <1>1
  <2>2. CallOK(stack[t], m) /\ PairOK(stack[t], m, Len(stack[t]))
    BY <1>1, <2>1 DEF Nested, NestIn
  <2> QED BY <1>1, <1>3, <2>1, <2>2 DEF CallOK, PairOK
<1> QED BY <1>1, <1>2, <1>3 DEF CallOK

\* The walk begins at the newest packet.
LEMMA CheckNest ==
    ASSUME IInv, TypeOK', Ordered, Nested, NEW t \in Threads, HandleCheck(t) PROVE Nested'
<1> DEFINE f == Top(t)  r == heap[Top(t).req]
<1>1. /\ Running(t) /\ f.pc = "check" /\ heap' = heap /\ created' = created
  BY DEF HandleCheck, At, cache
<1>2. TypeOK /\ Grown
  BY <1>1, SameGrown DEF IInv
<1>3. CASE stack' = Return(t)
  BY <1>1, <1>2, <1>3, ReturnNest
<1>4. CASE stack' = Goto(t, [f EXCEPT !.pc = "send", !.age = 0])
  <2>1. PICK g \in Frame : g = [f EXCEPT !.pc = "send", !.age = 0]
    BY <1>1, TopFacts, CheckedFrame
  <2>2. g.req = f.req /\ g.pc = "send" /\ stack' = Goto(t, g)
    BY <1>1, <1>4, <2>1, TopFacts DEF Frame
  <2>3. PassedBy(g)' /\ ForIcmp(g)' /\ \A e \in Frame : Ends(e, g)'
    BY <2>2 DEF PassedBy, ForIcmp, Ends, GivingUp
  <2> QED BY <1>1, <1>2, <2>2, <2>3, GotoNest
<1>5. CASE stack' = Goto(t, [f EXCEPT !.pc = "walk", !.k = Len(r.pkts), !.age = 0])
  <2>1. Len(r.pkts) \in Nat
    BY <1>1, TopFacts DEF Request
  <2>2. PICK g \in Frame : g = [f EXCEPT !.pc = "walk", !.k = Len(r.pkts), !.age = 0]
    BY <1>1, <2>1, TopFacts, CheckedFrame
  <2>3. /\ g.req = f.req /\ g.pc = "walk" /\ g.k = Len(heap[g.req].pkts)
        /\ stack' = Goto(t, g)
    BY <1>1, <1>5, <2>2, TopFacts DEF Frame
  <2>4. PassedBy(g)'
    BY <1>1, <2>1, <2>3 DEF PassedBy
  <2>5. Len(stack[t]) > 1 => ForIcmp(g)'
    <3> SUFFICES ASSUME Len(stack[t]) > 1 PROVE ForIcmp(g)'
      OBVIOUS
    <3>1. IcmpAt(g.req, g.k)
      BY <1>1, <2>3, TopNest DEF ForIcmp
    <3> QED BY <1>1, <2>3, <3>1 DEF ForIcmp, IcmpAt
  <2>6. ASSUME NEW m \in 2..Len(stack[t]) - 1, NEW e \in Frame, e = stack[t][m], e.req = g.req
        PROVE  Ends(e, g)'
    <3>1. PICK x \in heap[e.req].gone : x > e.k /\ x \in 1..Len(heap[e.req].pkts)
      BY <2>6, OuterGone
    <3>2. x \in heap[g.req].gone /\ e.k < x /\ x <= g.k
      BY <2>3, <2>6, <3>1
    <3> QED BY <1>1, <2>3, <3>2 DEF Ends
  <2> QED BY <1>1, <1>2, <2>3, <2>4, <2>5, <2>6, GotoNest
<1> QED BY <1>3, <1>4, <1>5 DEF HandleCheck

\* Sending, storing and counting have nothing to do with packets.
LEMMA CountingNest ==
    ASSUME IInv, TypeOK', Nested, NEW t \in Threads,
           HandleSend(t) \/ HandleStore(t) \/ HandleCount(t)
    PROVE  Nested'
<1> DEFINE f == Top(t)
<1>1. /\ Running(t) /\ created' = created /\ TypeOK
      /\ \/ heap' = [heap EXCEPT ![f.req].wire = @ + 1]
         \/ heap' = [heap EXCEPT ![f.req].age = f.age]
         \/ heap' = [heap EXCEPT ![f.req].times = f.n + 1]
  BY DEF HandleSend, HandleStore, HandleCount, At, IInv
<1>2. \A r \in Req : /\ heap'[r].ip = heap[r].ip /\ heap[r].gone \subseteq heap'[r].gone
                     /\ heap'[r].pkts = heap[r].pkts
  <2>1. CASE heap' = [heap EXCEPT ![f.req].wire = @ + 1]
    BY <1>1, <2>1 DEF TypeOK, Request
  <2>2. CASE heap' = [heap EXCEPT ![f.req].age = f.age]
    BY <1>1, <2>2 DEF TypeOK, Request
  <2>3. CASE heap' = [heap EXCEPT ![f.req].times = f.n + 1]
    BY <1>1, <2>3 DEF TypeOK, Request
  <2> QED BY <1>1, <2>1, <2>2, <2>3
<1>3. Grown
  BY <1>1, <1>2, SameGrown
<1>4. ASSUME NEW g \in Frame, g.req = f.req, g.pc \in {"store", "count"}, stack' = Goto(t, g)
      PROVE  Nested'
  <2>1. PassedBy(g)' /\ ForIcmp(g)' /\ \A e \in Frame : Ends(e, g)'
    BY <1>4 DEF PassedBy, ForIcmp, Ends, GivingUp
  <2> QED BY <1>1, <1>3, <1>4, <2>1, GotoNest
<1>5. CASE stack' = Goto(t, [f EXCEPT !.pc = "store"])
  <2>1. PICK g \in Frame : g = [f EXCEPT !.pc = "store"]
    BY <1>1, TopFacts DEF Frame
  <2>2. g.req = f.req /\ g.pc = "store"
    BY <1>1, <2>1, TopFacts DEF Frame
  <2> QED BY <1>4, <1>5, <2>1, <2>2
<1>6. CASE stack' = Goto(t, [f EXCEPT !.pc = "count", !.n = heap[f.req].times])
  <2>1. heap[f.req].times \in Nat
    BY <1>1, TopFacts DEF Request
  <2>2. PICK g \in Frame : g = [f EXCEPT !.pc = "count", !.n = heap[f.req].times]
    BY <1>1, <2>1, TopFacts DEF Frame
  <2>3. g.req = f.req /\ g.pc = "count"
    BY <1>1, <2>2, TopFacts DEF Frame
  <2> QED BY <1>4, <1>6, <2>2, <2>3
<1>7. CASE stack' = Return(t)
  BY <1>1, <1>3, <1>7, ReturnNest
<1> QED BY <1>5, <1>6, <1>7 DEF HandleSend, HandleStore, HandleCount

\* A walk inside a walk of the same request finds only messages of the router's own to
\* report, which have no source to be reported to: it queues nothing.
LEMMA WalkPacketNest ==
    ASSUME HostRoutes, IInv, TypeOK', Nested, NEW t \in Threads, WalkPacket(t)
    PROVE  Nested'
<1> DEFINE f == Top(t)  p == heap[Top(t).req].pkts[Top(t).k]
<1>1. /\ Running(t) /\ f.pc = "walk" /\ f.k > 0 /\ f.k \notin heap[f.req].gone
      /\ heap' = heap /\ created' = created
  BY DEF WalkPacket, At, Dangling, cache
<1>2. TypeOK /\ Grown
  BY <1>1, SameGrown DEF IInv
<1>3. f.k \in 1..Len(heap[f.req].pkts)
  BY <1>1, AtPacket
<1>4. ASSUME NEW m \in 2..Len(stack[t]) - 1, NEW e \in Frame, e = stack[t][m], e.req = f.req
      PROVE  p = Icmp /\ \E x \in heap[f.req].gone : e.k < x /\ x <= f.k
  <2>1. PassedBy(e) /\ Reports(e) /\ Ends(e, f)
    BY <1>1, <1>4, TopNest
  <2>2. PICK x \in heap[f.req].gone : e.k < x /\ x <= f.k
    BY <1>1, <2>1 DEF Ends, GivingUp
  <2>3. e.k \in Nat /\ f.k \in Nat
    BY <1>1, TopFacts DEF Frame
  <2>4. GivingUp(e)
    BY <2>1 DEF Reports, GivingUp
  <2>5. PICK n \in Nat : n = Len(heap[f.req].pkts)
    BY <1>1, TopFacts DEF Request
  <2>7. f.k \in 1..n
    BY <1>3, <2>5
  <2>6. \A y \in 1..n : y > e.k => y \in heap[f.req].gone \/ heap[f.req].pkts[y] = Icmp
    BY <1>4, <2>1, <2>4, <2>5 DEF PassedBy
  <2>8. x \in Nat
    BY <1>1, TopFacts DEF Request
  <2>9. f.k > e.k
    BY <2>2, <2>3, <2>8
  <2> QED BY <1>1, <2>2, <2>6, <2>7, <2>9
<1>5. ASSUME NEW pc \in {"free", "queue"}, stack' = Goto(t, [f EXCEPT !.pc = pc]),
             pc = "queue" => SourceOf(p, f.req) # NoHop
      PROVE  Nested'
  <2>1. PICK g \in Frame : g = [f EXCEPT !.pc = pc]
    BY <1>1, TopFacts DEF Frame
  <2>2. g.req = f.req /\ g.pc = pc /\ g.k = f.k
    BY <1>1, <2>1, TopFacts DEF Frame
  <2>3. PassedBy(f) /\ (Len(stack[t]) > 1 => ForIcmp(f))
    BY <1>1, TopNest
  <2>4. PassedBy(g)' /\ (Len(stack[t]) > 1 => ForIcmp(g)')
    BY <1>1, <2>2, <2>3 DEF PassedBy, ForIcmp, GivingUp, IcmpAt
  <2>5. ASSUME NEW m \in 2..Len(stack[t]) - 1, NEW e \in Frame, e = stack[t][m], e.req = g.req
        PROVE  Ends(e, g)'
    <3>1. p = Icmp /\ \E x \in heap[f.req].gone : e.k < x /\ x <= f.k
      BY <1>4, <2>2, <2>5
    <3>2. heap[f.req].ip \in Hop
      BY <1>1, TopFacts DEF FrameOK, Allocated, IInv
    <3>3. pc # "queue"
      BY <1>5, <3>1, <3>2, ArpAssumption DEF SourceOf, HostRoutes
    <3> QED BY <1>1, <2>2, <3>1, <3>3 DEF Ends
  <2> QED BY <1>1, <1>2, <1>5, <2>1, <2>2, <2>4, <2>5, GotoNest
<1> QED BY <1>5 DEF WalkPacket

\* The packet is freed; what an outer call had freed is still ahead.
LEMMA WalkFreeNest ==
    ASSUME IInv, TypeOK', Ordered, Nested, NEW t \in Threads, WalkFree(t) PROVE Nested'
<1> DEFINE f == Top(t)
<1>1. CASE Fail("double_free")
  <2>1. stack' = stack /\ heap' = heap /\ created' = created /\ TypeOK
    BY <1>1 DEF Fail, cache, IInv
  <2> QED BY <2>1, SameGrown, StillNest
<1>2. CASE ~Fail("double_free")
  <2>1. /\ Running(t) /\ f.pc = "free" /\ heap' = [heap EXCEPT ![f.req].gone = @ \cup {f.k}]
        /\ stack' = Goto(t, [f EXCEPT !.pc = "walk", !.k = @ - 1])
        /\ f.k \notin heap[f.req].gone /\ created' = created /\ TypeOK
    BY <1>2 DEF WalkFree, At, Freed, IInv
  <2>2. f.k \in Nat /\ f.k - 1 \in Nat /\ f.req \in Req
    BY <2>1, TopFacts DEF FrameOK, Frame
  <2>3. PICK g \in Frame : g = [f EXCEPT !.pc = "walk", !.k = f.k - 1]
    BY <2>1, <2>2, TopFacts DEF Frame
  <2>4. g.req = f.req /\ g.pc = "walk" /\ g.k = f.k - 1 /\ stack' = Goto(t, g)
    BY <2>1, <2>3, TopFacts DEF Frame
  <2>5. /\ \A r \in Req : /\ heap'[r].ip = heap[r].ip /\ heap[r].gone \subseteq heap'[r].gone
                           /\ heap'[r].pkts = heap[r].pkts
        /\ heap'[f.req].gone = heap[f.req].gone \cup {f.k}
    BY <2>1, <2>2 DEF TypeOK, Request
  <2>6. Grown
    BY <2>1, <2>5, SameGrown
  <2>7. PassedBy(g)'
    <3>1. PassedBy(f) /\ GivingUp(f)
      BY <2>1, TopNest DEF GivingUp
    <3> SUFFICES ASSUME NEW x \in 1..Len(heap[f.req].pkts), x > g.k
                 PROVE  x \in heap'[f.req].gone \/ heap[f.req].pkts[x] = Icmp
      BY <2>2, <2>4, <2>5 DEF PassedBy
    <3>2. x = f.k \/ x > f.k
      BY <2>2, <2>4
    <3> QED BY <2>5, <3>1, <3>2 DEF PassedBy
  <2>8. ForIcmp(g)'
    <3>1. f.k \in heap'[g.req].gone /\ f.k > g.k
      BY <2>2, <2>4, <2>5
    <3> QED BY <2>4, <3>1 DEF ForIcmp
  <2>9. ASSUME NEW m \in 2..Len(stack[t]) - 1, NEW e \in Frame, e = stack[t][m], e.req = g.req
        PROVE  Ends(e, g)'
    <3>1. Ends(e, f)
      BY <2>1, <2>4, <2>9, TopNest
    <3>2. PICK x \in heap[f.req].gone : e.k < x /\ x <= f.k
      BY <2>1, <3>1 DEF Ends, GivingUp
    <3>3. x # f.k /\ x \in Nat
      BY <2>1, <2>2 DEF TypeOK, Request
    <3>4. x \in heap'[g.req].gone /\ e.k < x /\ x <= g.k
      BY <2>2, <2>4, <2>5, <3>2, <3>3
    <3> QED BY <2>4, <3>4 DEF Ends
  <2> QED BY <2>1, <2>4, <2>6, <2>7, <2>8, <2>9, GotoNest
<1> QED BY <1>1, <1>2

\* The walk is over and its call returns.
LEMMA WalkDestroyNest ==
    ASSUME IInv, TypeOK', Nested, NEW t \in Threads, WalkDestroy(t) PROVE Nested'
<1>1. CASE Fail("double_free")
  <2>1. stack' = stack /\ heap' = heap /\ created' = created /\ TypeOK
    BY <1>1 DEF Fail, cache, IInv
  <2> QED BY <2>1, SameGrown, StillNest
<1>2. CASE ~Fail("double_free")
  <2>1. Running(t) /\ Destroy(Top(t).req) /\ stack' = Return(t) /\ created' = created
    BY <1>2 DEF WalkDestroy, At
  <2>2. \A r \in Req : /\ heap'[r].pkts = heap[r].pkts /\ heap'[r].ip = heap[r].ip
                       /\ heap'[r].gone = heap[r].gone
    BY <2>1, TopFacts, DestroyHeap DEF IInv
  <2>3. Grown
    BY <2>1, <2>2, SameGrown DEF IInv
  <2> QED BY <2>1, <2>3, ReturnNest
<1> QED BY <1>1, <1>2

\* A message of the router's own is queued behind the packets of a request, or is the
\* first of a new one.
LEMMA QueueIcmpGrown ==
    ASSUME IInv, TypeOK', NEW h \in Hop, NEW x \in Req, x = Target(h), QueueReq(h, Icmp)
    PROVE  Grown /\ IcmpAt(x, Len(heap[x].pkts))'
<1>1. /\ \A r \in Req : r # x => heap'[r] = heap[r]
      /\ heap'[x].pkts = Append(IF x \in queue THEN heap[x].pkts ELSE <<>>, Icmp)
      /\ heap'[x].ip = h
      /\ heap'[x].gone = IF x \in queue THEN heap[x].gone ELSE {}
      /\ IF x \in queue THEN heap[x].ip = h /\ created' = created
         ELSE x = created + 1 /\ created' = x
  BY QueueReqAppends
<1>10. \A r \in Req : heap[r].pkts \in Seq(Packet \cup {Icmp})
  BY DEF IInv, TypeOK, Request
<1>2. PICK q \in Seq(Packet \cup {Icmp}) : q = IF x \in queue THEN heap[x].pkts ELSE <<>>
  <2>1. CASE x \in queue
    BY <1>10, <2>1
  <2>2. CASE x \notin queue
    <3>1. <<>> \in Seq(Packet \cup {Icmp})
      OBVIOUS
    <3> QED BY <2>2, <3>1
  <2> QED BY <2>1, <2>2
<1>3. /\ heap'[x].pkts = Append(q, Icmp) /\ Len(q) \in Nat /\ Len(Append(q, Icmp)) = Len(q) + 1
      /\ \A k \in 1..Len(q) : Append(q, Icmp)[k] = q[k]
      /\ Append(q, Icmp)[Len(q) + 1] = Icmp
  BY <1>1, <1>2
<1>4. IcmpAt(x, Len(heap[x].pkts))'
  BY <1>3 DEF IcmpAt
<1>5. \A r \in Req : Len(heap[r].pkts) \in Nat
  BY <1>10
<1>6. created \in Nat /\ x \in Nat /\ \A r \in Req : r \in Nat
  BY ArpAssumption DEF IInv, TypeOK, Req
<1>7. ASSUME NEW r \in Req, r <= created
      PROVE  /\ heap'[r].ip = heap[r].ip /\ heap[r].gone \subseteq heap'[r].gone
             /\ Len(heap[r].pkts) <= Len(heap'[r].pkts)
             /\ \A k \in 1..Len(heap[r].pkts) : heap'[r].pkts[k] = heap[r].pkts[k]
             /\ \A k \in 1..Len(heap'[r].pkts) : k > Len(heap[r].pkts) => heap'[r].pkts[k] = Icmp
  <2>1. CASE r # x
    BY <1>1, <1>5, <2>1
  <2>2. CASE r = x
    <3>1. x \in queue /\ q = heap[x].pkts
      BY <1>1, <1>2, <1>6, <1>7, <2>2
    <3> QED BY <1>1, <1>3, <2>2, <3>1, SMTT(30)
  <2> QED BY <2>1, <2>2
<1>8. ASSUME NEW r \in Req, r > created, r <= created', NEW k \in 1..Len(heap'[r].pkts)
      PROVE  heap'[r].pkts[k] = Icmp
  <2>1. x \notin queue /\ r = x /\ Len(q) = 0
    BY <1>1, <1>2, <1>6, <1>8
  <2> QED BY <1>3, <2>1
<1>9. created <= created'
  BY <1>1, <1>6
<1> QED BY <1>4, <1>7, <1>8, <1>9 DEF Grown

\* A report is queued: handle_arpreq and send_icmp_msg nest.
LEMMA WalkQueueNest ==
    ASSUME HostRoutes, IInv, TypeOK', Ordered', Nested, NEW t \in Threads, WalkQueue(t)
    PROVE  Nested'
<1>1. PICK x \in Req, h \in Hop, g \in Frame :
             /\ x = Target(h) /\ QueueReq(h, Icmp)
             /\ g = [Top(t) EXCEPT !.pc = "free"]
             /\ Len(stack'[t]) = Len(stack[t]) + 1
             /\ \A i \in 1..Len(stack[t]) :
                   stack'[t][i] = IF i = Len(stack[t]) THEN g ELSE stack[t][i]
             /\ stack'[t][Len(stack[t]) + 1] = NewFrame(x)
             /\ \A u \in Threads : u # t => stack'[u] = stack[u]
  BY WalkQueueStack
<1>2. Running(t) /\ Top(t).pc = "queue"
  BY DEF WalkQueue, At
<1>3. Grown /\ IcmpAt(x, Len(heap[x].pkts))'
  BY <1>1, QueueIcmpGrown
<1>4. PICK s \in Seq(Frame), u \in Seq(Frame) : s = stack[t] /\ u = stack'[t]
  BY DEF IInv, TypeOK
<1>5. PICK n \in Nat : n = Len(s)
  BY <1>4
<1>6. n # 0 /\ s[n] = Top(t)
  BY <1>2, <1>4, <1>5, TopFacts
<1>7. /\ Len(u) = n + 1 /\ u[n] = [s[n] EXCEPT !.pc = "free"] /\ u[n + 1] = NewFrame(x)
      /\ \A i \in 1..n : i # n => u[i] = s[i]
  BY <1>1, <1>4, <1>5, <1>6
<1>8. NestIn(s) /\ \A i \in 1..Len(s) : FrameOK(s[i])
  BY <1>4 DEF Nested, IInv, FramesOK
<1>9. NewerOnlyIcmp(u[n + 1])'
  <2>1. PICK f : f = u[n + 1]
    OBVIOUS
  <2>2. f.req = x /\ x \in queue'
    BY <1>1, <1>7, <2>1 DEF NewFrame, QueueReq
  <2>3. /\ \A q \in Req : x < q /\ q <= created' => heap'[q].ip # heap'[x].ip
        /\ \A q \in Req : q \in Nat /\ (q > x <=> x < q)
    BY <2>2 DEF Ordered, Req
  <2>4. NewerOnlyIcmp(f)'
    BY <2>2, <2>3 DEF NewerOnlyIcmp
  <2> QED BY <2>1, <2>4 DEF NewerOnlyIcmp
<1>10. TypeOK /\ Allocated /\ n = Len(s) /\ n # 0 /\ s[n].pc = "queue"
  BY <1>2, <1>5, <1>6 DEF IInv
<1>11. NestIn(u)'
  BY <1>3, <1>7, <1>8, <1>9, <1>10, StackGrows
<1> QED BY <1>1, <1>3, <1>4, <1>11, ThreadNest

\* The clock moves no call and touches no packet.
LEMMA TickNest == ASSUME IInv, TypeOK', Nested, Tick PROVE Nested'
<1>1. /\ created' = created /\ heap' = [r \in Req |-> [heap[r] EXCEPT !.age = Older(@, SentCap)]]
      /\ TypeOK
  BY DEF Tick, IInv
<1>2. \A r \in Req : /\ heap'[r].ip = heap[r].ip /\ heap'[r].gone = heap[r].gone
                     /\ heap'[r].pkts = heap[r].pkts
  BY <1>1 DEF TypeOK, Request
<1>3. Grown
  BY <1>1, <1>2, SameGrown
<1> SUFFICES ASSUME NEW t \in Threads PROVE NestIn(stack[t])'
  BY DEF Nested
<1>4. PICK s \in Seq(Frame), u \in Seq(Frame) : s = stack[t] /\ u = stack'[t]
  BY <1>1 DEF TypeOK
<1>5. NestIn(s) /\ \A i \in 1..Len(s) : FrameOK(s[i])
  BY <1>4 DEF Nested, IInv, FramesOK
<1>6. Len(u) = Len(s) /\ \A i \in 1..Len(s) : Same(u[i], s[i])
  BY <1>4, TickFrames
<1>7. NestIn(u)'
  BY <1>1, <1>3, <1>5, <1>6, StackKept
<1> QED BY <1>4, <1>7 DEF NestIn, CallOK, PairOK

\* The first call of a thread, for a request on the list.
LEMMA FirstNest ==
    ASSUME TypeOK, TypeOK', Ordered', NEW t \in Threads, stack[t] = <<>>,
           NEW x \in Req, x \in queue', stack' = Call(t, x),
           NEW u \in Seq(Frame), u = stack'[t]
    PROVE  NestIn(u)'
<1>1. NewFrame(x) \in Frame
  BY DEF NewFrame, Frame, SentCap
<1>2. u = Append(<<>>, NewFrame(x))
  BY DEF Call, TypeOK
<1>3. Len(u) = 1 /\ u[1] = NewFrame(x)
  BY <1>1, <1>2
<1>4. u[1].pc = "check" /\ u[1].req = x
  BY <1>3 DEF NewFrame
<1>5. /\ \A q \in Req : x < q /\ q <= created' => heap'[q].ip # heap'[x].ip
      /\ \A q \in Req : q \in Nat /\ (q > x <=> x < q)
  BY DEF Ordered, Req
<1>6. NewerOnlyIcmp(u[1])'
  BY <1>4, <1>5 DEF NewerOnlyIcmp
<1>7. PassedBy(u[1])'
  BY <1>4 DEF PassedBy, GivingUp
<1>8. CallOK(u, 1)'
  BY <1>3, <1>6, <1>7 DEF CallOK
<1>9. \A l \in 1..Len(u) : l = 1 /\ 2..l - 1 = {}
  BY <1>3
<1> QED BY <1>8, <1>9 DEF NestIn

\* The packet main was to forward is queued: both threads are between calls, since main
\* has the lock.
LEMMA QueuePacketNest == ASSUME IInv, TypeOK', Ordered', QueuePacket PROVE Nested'
<1>1. /\ TypeOK /\ Control /\ main.pc = "queue" /\ CanLock("main") /\ main.pkt \in Packet
      /\ Target(NextHop[main.pkt]) \in Req /\ QueueReq(NextHop[main.pkt], main.pkt)
      /\ stack' = Call("main", Target(NextHop[main.pkt]))
  BY DEF IInv, Control, QueuePacket
<1>2. stack["main"] = <<>> /\ stack["sweep"] = <<>>
  BY <1>1 DEF Control, CanLock, TypeOK, Sweep
<1>3. PICK x \in Req : x = Target(NextHop[main.pkt])
  BY <1>1
<1>4. x \in queue' /\ "main" \in Threads
  BY <1>1, <1>3 DEF QueueReq, Threads
<1>5. NestIn(stack["main"])'
  <2>1. PICK u \in Seq(Frame) : u = stack'["main"]
    BY <1>4 DEF TypeOK
  <2>2. NestIn(u)'
    BY <1>1, <1>2, <1>3, <1>4, <2>1, FirstNest
  <2> QED BY <2>1, <2>2 DEF NestIn, CallOK, PairOK
<1>6. stack'["sweep"] = <<>>
  BY <1>1, <1>2 DEF Call, TypeOK, Threads
<1>7. NestIn(stack["sweep"])'
  BY <1>6 DEF NestIn
<1> QED BY <1>5, <1>7 DEF Nested, Threads

\* The sweep calls for the next request of the list: it is still queued, or was freed.
LEMMA SweepRequestNest ==
    ASSUME IInv, TypeOK', Ordered, Ordered', Nested, SweepRequest PROVE Nested'
<1>1. CASE Fail("use_after_free")
  <2>1. stack' = stack /\ heap' = heap /\ created' = created /\ TypeOK
    BY <1>1 DEF Fail, cache, IInv
  <2> QED BY <2>1, SameGrown, StillNest
<1>2. CASE ~Fail("use_after_free")
  <2>1. /\ TypeOK /\ Allocated /\ FlushOwned /\ stack["sweep"] = <<>>
        /\ stack' = Call("sweep", sweep.cur) /\ sweep.cur # 0
        /\ heap[sweep.cur].state # "freed"
        /\ heap' = heap /\ queue' = queue /\ created' = created
    BY <1>2 DEF IInv, SweepRequest, cache
  <2>2. sweep.cur \in Req /\ "sweep" \in Threads /\ sweep.cur <= created
    BY <2>1, ArpAssumption DEF TypeOK, Sweep, Req, Threads, Allocated
  <2>3. PICK x \in Req : x = sweep.cur
    BY <2>2
  <2>4. x \in queue'
    BY <2>1, <2>2, <2>3 DEF Ordered, Held, FlushOwned
  <2>5. PICK u \in Seq(Frame) : u = stack'["sweep"]
    BY <2>2 DEF TypeOK
  <2>6. NestIn(u)'
    BY <2>1, <2>2, <2>3, <2>4, <2>5, FirstNest
  <2>7. \A t \in Threads : t # "sweep" => stack'[t] = stack[t]
    BY <2>1 DEF Call, TypeOK
  <2>8. Grown
    BY <2>1, SameGrown
  <2> QED BY <2>2, <2>5, <2>6, <2>7, <2>8, ThreadNest
<1> QED BY <1>1, <1>2

\* With host routes alone every step keeps the nesting as it should be.
NestedByHost == HostRoutes => Nested

LEMMA NextNested ==
    IInv /\ IInv' /\ Ordered /\ Ordered' /\ NestedByHost /\ [Next]_vars => NestedByHost'
<1> SUFFICES ASSUME HostRoutes, IInv, IInv', Ordered, Ordered', Nested, [Next]_vars
             PROVE  Nested'
  BY DEF NestedByHost
<1>1. TypeOK /\ TypeOK' /\ Control /\ OneRequestPerHop
  BY DEF IInv
<1>2. CASE UNCHANGED <<heap, created, stack>>
  BY <1>1, <1>2, SameGrown, StillNest
<1>3. CASE FlushDestroy
  <2>1. main.req \in Req /\ Destroy(main.req) /\ stack' = stack /\ created' = created
    BY <1>1, <1>3 DEF FlushDestroy, Control
  <2>2. \A r \in Req : /\ heap'[r].pkts = heap[r].pkts /\ heap'[r].ip = heap[r].ip
                       /\ heap'[r].gone = heap[r].gone
    BY <1>1, <2>1, DestroyHeap
  <2>3. Grown
    BY <1>1, <2>1, <2>2, SameGrown
  <2> QED BY <1>1, <2>1, <2>3, StillNest
<1>4. CASE Tick \/ QueuePacket \/ SweepRequest
  BY <1>1, <1>4, TickNest, QueuePacketNest, SweepRequestNest
<1>5. CASE FlushSend \/ SweepWake \/ SweepDone \/ Arrival
  BY <1>2, <1>5 DEF FlushSend, SweepWake, SweepDone, Arrival, Receive, Learn, cache
<1>6. ASSUME NEW t \in Threads, HandleStep(t) PROVE Nested'
  <2>1. CASE UseAfterFree(t) \/ StackOverflow(t)
    BY <1>2, <2>1 DEF UseAfterFree, StackOverflow, Fail, cache
  <2> QED BY <1>1, <1>6, <2>1, CheckNest, CountingNest, WalkPacketNest, WalkQueueNest,
             WalkFreeNest, WalkDestroyNest DEF HandleStep
<1>7. CASE UNCHANGED vars
  BY <1>2, <1>7 DEF vars
<1> QED BY <1>3, <1>4, <1>5, <1>6, <1>7 DEF Next, MainStep, SweepStep, Stopped, Threads

LEMMA InitNested == Init => NestedByHost
<1>1. Init => \A t \in Threads : 1..Len(stack[t]) = {}
  BY DEF Init
<1> QED BY <1>1 DEF NestedByHost, Nested, NestIn

\* Between the outermost call and the last, all calls are for different addresses.
LEMMA DifferentAddresses ==
    ASSUME IInv, Ordered, Nested, NEW t \in Threads, NEW n \in Nat, n = Len(stack[t]),
           NEW m \in 2..n - 1, NEW l \in 2..n - 1,
           heap[stack[t][m].req].ip = heap[stack[t][l].req].ip
    PROVE  m = l
<1> SUFFICES ASSUME NEW a \in 2..n - 1, NEW b \in 2..n - 1, a < b,
                    heap[stack[t][a].req].ip = heap[stack[t][b].req].ip
             PROVE  FALSE
  <2>1. m < l \/ l < m \/ m = l
    OBVIOUS
  <2> QED BY <2>1
<1>1. PICK s \in Seq(Frame) : s = stack[t]
  BY DEF IInv, TypeOK
<1>2. a \in 1..n /\ b \in 1..n /\ a \in 2..b - 1 /\ a < n /\ b < n /\ b # n
  OBVIOUS
<1>3. /\ CallOK(s, a) /\ CallOK(s, b) /\ PairOK(s, a, b)
      /\ s[a] \in Frame /\ s[b] \in Frame /\ FrameOK(s[a]) /\ FrameOK(s[b])
  BY <1>1, <1>2 DEF Nested, NestIn, IInv, FramesOK
<1>4. s[a].req # s[b].req
  BY <1>1, <1>2, <1>3 DEF PairOK
<1>5. /\ NewerOnlyIcmp(s[a]) /\ NewerOnlyIcmp(s[b]) /\ Reports(s[a]) /\ Reports(s[b])
  BY <1>1, <1>2, <1>3 DEF CallOK
<1>6. ASSUME NEW e \in Frame, NEW f \in Frame, FrameOK(f), NewerOnlyIcmp(e), Reports(f),
             f.req > e.req, heap[f.req].ip = heap[e.req].ip
      PROVE  FALSE
  <2>1. f.req \in Req /\ f.req <= created /\ f.k \in 1..Len(heap[f.req].pkts)
    BY <1>6 DEF Frame, FrameOK, Reports
  <2>2. heap[f.req].pkts[f.k] = Icmp
    BY <1>6, <2>1 DEF NewerOnlyIcmp, OnlyIcmp
  <2> QED BY <1>6, <2>2 DEF Reports
<1>7. s[a].req > s[b].req \/ s[b].req > s[a].req
  <2>1. \A f \in Frame : f.req \in Nat
    BY DEF Frame, Req
  <2>2. s[a].req \in Nat /\ s[b].req \in Nat
    BY <1>3, <2>1
  <2> QED BY <1>4, <2>2
<1> QED BY <1>1, <1>3, <1>5, <1>6, <1>7

\* As long as no route leads to the router's own addresses, handle_arpreq and
\* send_icmp_msg never nest deeper than the next hops and two, in either thread.
THEOREM NestingIsBounded == ASSUME IsFiniteSet(Hop) PROVE Spec => []NestingBounded
<1>1. IInv /\ Ordered /\ NestedByHost => NestingBounded
  <2> SUFFICES ASSUME IInv, Ordered, Nested, NEW t \in Threads
               PROVE  Len(stack[t]) <= Cardinality(Hop) + 2
    BY DEF NestingBounded, NestedByHost
  <2>1. PICK n \in Nat : n = Len(stack[t])
    BY DEF IInv, TypeOK
  <2>2. Cardinality(Hop) \in Nat
    BY FS_CardinalityType
  <2>3. CASE n <= 2
    BY <2>1, <2>2, <2>3
  <2>4. CASE n > 2
    <3> DEFINE address == [m \in 2..n - 1 |-> heap[stack[t][m].req].ip]
    <3>1. \A m \in 2..n - 1 : heap[stack[t][m].req].ip \in Hop
      <4> SUFFICES ASSUME NEW m \in 2..n - 1 PROVE heap[stack[t][m].req].ip \in Hop
        OBVIOUS
      <4>1. m \in 1..Len(stack[t]) /\ stack[t] \in Seq(Frame)
        BY <2>1 DEF IInv, TypeOK
      <4>2. stack[t][m] \in Frame /\ FrameOK(stack[t][m])
        BY <4>1 DEF IInv, FramesOK
      <4> QED BY <4>2 DEF FrameOK, Frame, Ordered
    <3>2. \A m, l \in 2..n - 1 : address[m] = address[l] => m = l
      BY <2>1, DifferentAddresses
    <3>3. address \in Injection(2..n - 1, Hop)
      BY <3>1, <3>2 DEF Injection, IsInjective
    <3>4. Cardinality(2..n - 1) <= Cardinality(Hop)
      BY <3>3, FS_Injection
    <3>5. Cardinality(2..n - 1) = n - 2
      <4>1. n - 1 \in Int /\ 2 \in Int /\ ~(2 > n - 1) /\ (n - 1) - 2 + 1 = n - 2
        BY <2>4
      <4> QED BY <4>1, FS_Interval
    <3> QED BY <2>1, <2>2, <3>4, <3>5
  <2> QED BY <2>3, <2>4
<1> QED BY <1>1, Invariant, InitOrdered, NextOrdered, InitNested, NextNested, PTL DEF Spec
=============================================================================
