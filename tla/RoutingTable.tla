---------------------------- MODULE RoutingTable ----------------------------
(***************************************************************************)
(* The routing table of the router, from the file to the answer:           *)
(*   sr_load_rt            reads the file, one entry per line; main calls  *)
(*                         it before and after it connects to the server   *)
(*                         (only after, when a topology template is asked  *)
(*                         for);                                           *)
(*   sr_verify_routing_table  compares the table with the interfaces the   *)
(*                         server reports, once both are there;            *)
(*   longest_prefix_matching  walks the table, one step per entry.         *)
(*                                                                         *)
(* A 32-bit address is the set of its one bits, so the code's & is \cap    *)
(* and its comparison of masks is Above.  A mask in a file is a prefix     *)
(* mask and is kept as its length.  sscanf stores the fields a line has    *)
(* and leaves the others in the buffers of the call as they were.          *)
(***************************************************************************)
EXTENDS Naturals, Sequences, FiniteSets

CONSTANTS
    W,          \* address width in bits (32)
    Gw,         \* gateways
    Iface,      \* interface names
    Files,      \* the contents a table file may have: sequences of lines
    Missing,    \* the file that cannot be read
    Bad         \* a line with an address inet_aton does not accept

Bit  == 0..(W - 1)
Addr == SUBSET Bit
Entry == [dest : Addr, gw : Gw, len : 0..W, iface : Iface]
Field == {"dest", "gw", "len", "iface"}
Kind  == [dest |-> Addr, gw |-> Gw, len |-> 0..W, iface |-> Iface]

\* What sscanf stores: the fields a line has, which are the first ones.
Fields(x) ==
    /\ DOMAIN x \in {{}, {"dest"}, {"dest", "gw"}, {"dest", "gw", "len"}, Field}
    /\ \A f \in DOMAIN x : x[f] \in Kind[f]

ASSUME TableAssumption ==
    /\ W \in Nat
    /\ \A f \in Files : \/ f = Missing
                        \/ /\ Len(f) \in Nat
                           /\ \A j \in 1..Len(f) : f[j] = Bad \/ Fields(f[j])

VARIABLES
    files,      \* what the file holds at the first and at the second load
    pass,       \* loads completed
    pos,        \* lines read in this load
    cleared,    \* clear_routing_table
    buf,        \* dest, gw, mask and iface, those that have been stored
    rt,         \* sr->routing_table
    ifs,        \* names in sr->if_list
    pc,         \* what the program is doing
    ip,         \* the address being looked up
    cur,        \* entry
    best,       \* longest_prefix_match, as an index; 0 is NULL
    longest     \* longest_mask

load == <<files, pass, pos, cleared, buf, rt>>
scan == <<ip, cur, best, longest>>
vars == <<files, pass, pos, cleared, buf, rt, ifs, pc, ip, cur, best, longest>>

Init ==
    /\ files \in [1..2 -> Files]
    /\ pass \in {0, 1}                  \* 1: a template was asked for
    /\ pos = 0 /\ cleared = FALSE /\ buf = <<>>
    /\ rt = <<>> /\ ifs = {}
    /\ pc = "open"
    /\ ip = {} /\ cur = 1 /\ best = 0 /\ longest = {}

(***************************************************************************)
(* sr_load_rt and sr_load_rt_wrap.                                         *)
(***************************************************************************)
File == files[pass + 1]

Open ==
    /\ pc = "open"
    /\ pc' = IF File = Missing THEN "exited" ELSE "load"
    /\ pos' = 0 /\ cleared' = FALSE /\ buf' = <<>>
    /\ UNCHANGED <<files, pass, rt, ifs, scan>>

\* The buffers after sscanf: fields the line lacks keep what they had.
Overlay(line) == [f \in DOMAIN line \cup DOMAIN buf |->
                    IF f \in DOMAIN line THEN line[f] ELSE buf[f]]

\* The entries a set of buffers can be read as: a buffer nothing was stored in
\* holds whatever the stack held.
Readings(b) == {e \in Entry : \A f \in DOMAIN b : e[f] = b[f]}

NotCleared(e) == Append(rt, e)              \* mutant: the old table is kept
Cleared(e)    == Append(IF cleared THEN rt ELSE <<>>, e)

LoadLine ==
    /\ pc = "load" /\ pos < Len(File) /\ File[pos + 1] # Bad
    /\ buf' = Overlay(File[pos + 1])
    /\ \E e \in Readings(buf') : rt' = Cleared(e)
    /\ pos' = pos + 1 /\ cleared' = TRUE
    /\ UNCHANGED <<files, pass, ifs, pc, scan>>

\* inet_aton fails on the line, or on the stack's garbage; main exits.
LoadFail ==
    /\ pc = "load" /\ pos < Len(File)
    /\ File[pos + 1] # Bad =>
          ~ {"dest", "gw", "len"} \subseteq DOMAIN Overlay(File[pos + 1])
    /\ pc' = "exited"
    /\ UNCHANGED <<load, ifs, scan>>

LoadDone ==
    /\ pc = "load" /\ pos = Len(File)
    /\ pass' = pass + 1
    /\ pc' = IF pass = 0 THEN "open" ELSE "await"
    /\ UNCHANGED <<files, pos, cleared, buf, rt, ifs, scan>>

(***************************************************************************)
(* VNSHWINFO: sr_handle_hwinfo, then sr_verify_routing_table.              *)
(***************************************************************************)
\* Mutant: one interface of the table is known.
SomeFound(S) ==
    S # {} /\ rt # <<>> /\ \E i \in DOMAIN rt : rt[i].iface \in S

Consistent(S) ==
    S # {} /\ rt # <<>> /\ \A i \in DOMAIN rt : rt[i].iface \in S

HwInfo(S) ==
    /\ pc = "await"
    /\ ifs' = S
    /\ pc' = IF Consistent(S) THEN "ready" ELSE "exited"
    /\ UNCHANGED <<load, scan>>

(***************************************************************************)
(* longest_prefix_matching.                                                *)
(***************************************************************************)
Mask(n) == (W - n)..(W - 1)

\* Mutant: a >= b.
NotBelow(a, b) == \A i \in b \ a : \E j \in a \ b : i < j

\* a > b for the numbers whose one bits are a and b.
Above(a, b) == \E i \in a \ b : \A j \in b \ a : j < i

Matches(e, host) == host \cap Mask(e.len) = e.dest \cap Mask(e.len)

Lookup(host) ==
    /\ pc = "ready"
    /\ pc' = "scan"
    /\ ip' = host /\ cur' = 1 /\ best' = 0 /\ longest' = {}
    /\ UNCHANGED <<load, ifs>>

ScanEntry ==
    /\ pc = "scan" /\ cur <= Len(rt)
    /\ cur' = cur + 1
    /\ IF Matches(rt[cur], ip) /\ Above(Mask(rt[cur].len), longest)
       THEN best' = cur /\ longest' = Mask(rt[cur].len)
       ELSE UNCHANGED <<best, longest>>
    /\ UNCHANGED <<load, ifs, pc, ip>>

ScanEnd ==
    /\ pc = "scan" /\ cur > Len(rt)
    /\ pc' = "found"
    /\ UNCHANGED <<load, ifs, scan>>

\* The caller uses the entry and goes on.
Return ==
    /\ pc = "found"
    /\ pc' = "ready"
    /\ UNCHANGED <<load, ifs, scan>>

Next ==
    \/ Open \/ LoadLine \/ LoadFail \/ LoadDone
    \/ \E S \in SUBSET Iface : HwInfo(S)
    \/ \E host \in Addr : Lookup(host)
    \/ ScanEntry \/ ScanEnd \/ Return

Spec == Init /\ [][Next]_vars

(***************************************************************************)
(* Properties.                                                             *)
(***************************************************************************)
\* Every variable keeps to its type; in particular a finished load leaves only
\* entries made of convertible fields (sr_load_rt returns -1 on any other).
TypeOK ==
    /\ files \in [1..2 -> Files]
    /\ pass \in 0..2 /\ pos \in Nat /\ cleared \in BOOLEAN
    /\ Fields(buf)
    /\ rt \in Seq(Entry) /\ ifs \in SUBSET Iface
    /\ pc \in {"open", "load", "await", "ready", "scan", "found", "exited"}
    /\ ip \in Addr /\ cur \in Nat \ {0} /\ best \in Nat /\ longest \in Addr

\* The entries before n that longest_prefix_matching can choose: those that
\* match and whose mask is not zero.
Usable(n) == {i \in DOMAIN rt : i < n /\ Matches(rt[i], ip) /\ rt[i].len > 0}

\* b is the first of the longest of Usable(n), and 0 if there is none.
FirstLongest(b, n) ==
    \/ b = 0 /\ Usable(n) = {}
    \/ /\ b \in Usable(n)
       /\ \A i \in Usable(n) : /\ rt[i].len <= rt[b].len
                               /\ i < b => rt[i].len < rt[b].len

\* What longest_prefix_matching returns has the longest prefix of all entries
\* that match, though the code compares masks as numbers and keeps only the best
\* one seen so far; of equal ones it is the first, so that an entry a blank line
\* of the file repeats never hides another.
LookupCorrect == pc = "found" => FirstLongest(best, Len(rt) + 1)

\* The interface of a route that was found exists: sr_forward_ip_packet and
\* send_icmp_msg use what sr_get_interface returns for it without a test for
\* NULL.  The table was loaded, reloaded and verified long before.
RouteUsable == pc = "found" /\ best # 0 => rt[best].iface \in ifs

\* A file whose first line is complete leaves no field to what the stack held.
FirstComplete(f) == Len(f) > 0 => f[1] # Bad /\ DOMAIN f[1] = Field

\* e is made of fields that are written in f.
WrittenIn(e, f) ==
    \A x \in Field : \E j \in 1..Len(f) : x \in DOMAIN f[j] /\ f[j][x] = e[x]

\* Once loading is over every entry comes from one and the same version of the
\* file: a reload leaves nothing of the first load behind unless the file has
\* become empty, and then all of it.
OneVersion ==
    pc \in {"await", "ready", "scan", "found"} =>
       LET p == IF Len(files[2]) = 0 THEN 1 ELSE 2
       IN files[p] # Missing /\ FirstComplete(files[p]) =>
             \A i \in DOMAIN rt : WrittenIn(rt[i], files[p])

\* If any entry of the table matches, one is returned: "find out which entry in
\* the routing table has the longest prefix match" (sr_rt.c:15).  The code
\* starts from longest_mask = 0 and asks for more, so 0.0.0.0/0 is never chosen.
MatchIsFound ==
    pc = "found" => (best = 0 => \A i \in DOMAIN rt : ~ Matches(rt[i], ip))
=============================================================================
