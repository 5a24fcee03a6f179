------------------------- MODULE RoutingTableProofs -------------------------
(***************************************************************************)
(* For every width of addresses and every content of the table file: what  *)
(* longest_prefix_matching returns is the first of the longest matches,    *)
(* its interface exists, and the table is that of one version of the file. *)
(***************************************************************************)
EXTENDS RoutingTable, SequenceTheorems, TLAPS

(***************************************************************************)
(* The inductive invariant.                                                *)
(***************************************************************************)
\* A file is being read only if it could be opened.
Loading ==
    /\ pc \in {"open", "load"} => pass \in {0, 1}
    /\ pc = "load" => File # Missing

\* Where longest_prefix_matching is: the best of the entries before cur.
Scanned ==
    pc \in {"scan", "found"} =>
        /\ cur <= Len(rt) + 1
        /\ FirstLongest(best, cur)
        /\ longest = IF best = 0 THEN {} ELSE Mask(rt[best].len)
        /\ pc = "found" => cur = Len(rt) + 1

\* sr_verify_routing_table has passed and nothing touches the table after it.
Verified ==
    pc \in {"ready", "scan", "found"} => \A i \in DOMAIN rt : rt[i].iface \in ifs

\* The table is made of fields of version p of the file.
From(p) == files[p] # Missing /\ FirstComplete(files[p]) =>
              \A i \in DOMAIN rt : WrittenIn(rt[i], files[p])

\* Once a complete line has been read, the buffers hold fields of this file.
Buffered ==
    pc = "load" /\ pos > 0 /\ FirstComplete(File) =>
        /\ DOMAIN buf = Field
        /\ \A x \in Field : \E j \in 1..Len(File) :
              x \in DOMAIN File[j] /\ File[j][x] = buf[x]

\* Which version the table is from, at each point of the two loads.
Origin ==
    /\ pc = "open" /\ pass = 0 => rt = <<>>
    /\ pc = "load" /\ pass = 0 /\ pos = 0 => rt = <<>>
    /\ pc = "load" => (cleared <=> pos > 0)
    /\ pc = "load" /\ pos > 0 => From(pass + 1) /\ Len(File) > 0
    /\ pc = "open" /\ pass = 1 => From(1)
    /\ pc = "load" /\ pass = 1 /\ pos = 0 => From(1)
    /\ pc \in {"await", "ready", "scan", "found"} =>
          From(IF Len(files[2]) = 0 THEN 1 ELSE 2)

IInv == TypeOK /\ Loading /\ Scanned /\ Verified /\ Buffered /\ Origin

(***************************************************************************)
(* Masks and matches.                                                      *)
(***************************************************************************)
\* Comparing prefix masks as numbers compares the lengths of the prefixes.
LEMMA MaskOrder ==
    ASSUME NEW a \in 0..W, NEW b \in 0..W
    PROVE  Above(Mask(a), Mask(b)) <=> a > b
<1>0. W \in Nat
  BY TableAssumption
<1>1. ASSUME a > b PROVE Above(Mask(a), Mask(b))
  <2>1. W - a \in Mask(a) \ Mask(b)
    BY <1>0, <1>1 DEF Mask
  <2>2. Mask(b) \ Mask(a) = {}
    BY <1>0, <1>1 DEF Mask
  <2> QED BY <2>1, <2>2 DEF Above
<1>2. ASSUME ~(a > b) PROVE ~Above(Mask(a), Mask(b))
  <2>1. Mask(a) \ Mask(b) = {}
    BY <1>0, <1>2 DEF Mask
  <2> QED BY <2>1 DEF Above
<1> QED BY <1>1, <1>2

\* longest_mask starts at zero, so only a prefix of positive length beats it.
LEMMA MaskZero ==
    ASSUME NEW a \in 0..W
    PROVE  Above(Mask(a), {}) <=> a > 0
<1>1. Mask(0) = {}
  BY TableAssumption DEF Mask
<1>2. 0 \in 0..W
  BY TableAssumption
<1> QED BY <1>1, <1>2, MaskOrder

\* Storing the fields of a line over the buffers leaves the first fields stored.
LEMMA OverlayFields ==
    ASSUME NEW line, Fields(line), Fields(buf)
    PROVE  /\ Fields(Overlay(line))
           /\ DOMAIN Overlay(line) = DOMAIN line \cup DOMAIN buf
<1>1. DOMAIN Overlay(line) = DOMAIN line \cup DOMAIN buf
  BY DEF Overlay
<1>2. \A f \in DOMAIN Overlay(line) :
         Overlay(line)[f] = IF f \in DOMAIN line THEN line[f] ELSE buf[f]
  BY DEF Overlay
<1>3. DOMAIN line \cup DOMAIN buf \in
         {{}, {"dest"}, {"dest", "gw"}, {"dest", "gw", "len"}, Field}
  BY DEF Fields, Field
<1> QED BY <1>1, <1>2, <1>3 DEF Fields

(***************************************************************************)
(* The steps.                                                              *)
(***************************************************************************)
LEMMA InitInv == Init => IInv
<1> SUFFICES ASSUME Init PROVE IInv
  OBVIOUS
<1>1. DOMAIN buf = {}
  BY DEF Init
<1>2. TypeOK
  <2>1. Fields(buf)
    BY <1>1 DEF Fields
  <2>2. rt \in Seq(Entry) /\ ip \in Addr /\ longest \in Addr
    BY DEF Init, Addr
  <2>3. pass \in 0..2 /\ pos \in Nat /\ cur \in Nat \ {0} /\ best \in Nat
    BY DEF Init
  <2>4. /\ files \in [1..2 -> Files] /\ cleared \in BOOLEAN /\ ifs \in SUBSET Iface
        /\ pc \in {"open", "load", "await", "ready", "scan", "found", "exited"}
    BY DEF Init
  <2> QED BY <2>1, <2>2, <2>3, <2>4 DEF TypeOK
<1>3. Loading /\ Scanned /\ Verified /\ Buffered
  BY DEF Init, Loading, Scanned, Verified, Buffered
<1>4. Origin
  <2>1. From(1)
    BY DEF Init, From
  <2> QED BY <2>1 DEF Init, Origin
<1> QED BY <1>2, <1>3, <1>4 DEF IInv

\* The invariant looks at every variable, and only at them.
LEMMA StutterInv ==
    ASSUME IInv, UNCHANGED vars
    PROVE  IInv'
<1> USE DEF vars
<1>1. TypeOK' /\ Loading' /\ Scanned' /\ Verified'
  BY DEF IInv, TypeOK, Fields, Loading, File, Scanned, FirstLongest, Usable, Verified
<1>2. Buffered' /\ Origin'
  BY DEF IInv, Buffered, File, Origin, From
<1> QED BY <1>1, <1>2 DEF IInv

\* sr_load_rt opens the file and starts with empty buffers.
LEMMA OpenInv ==
    ASSUME IInv, Open
    PROVE  IInv'
<1>1. DOMAIN buf' = {} /\ Fields(buf')
  BY DEF Open, Fields
<1>2. TypeOK'
  BY <1>1 DEF IInv, TypeOK, Open, scan
<1>3. Loading' /\ Scanned' /\ Verified' /\ Buffered'
  BY DEF IInv, Open, Loading, File, Scanned, Verified, Buffered
<1>4. Origin'
  <2>1. ASSUME pass = 0 PROVE rt = <<>>
    BY <2>1 DEF IInv, Open, Origin
  <2> QED
    BY <2>1 DEF IInv, Open, Origin, Loading, From
<1> QED BY <1>2, <1>3, <1>4 DEF IInv

\* One line: the table stays well typed and of one version.
LEMMA LoadLineInv ==
    ASSUME IInv, LoadLine
    PROVE  IInv'
<1> DEFINE line == File[pos + 1]
<1>0. /\ TypeOK /\ Loading /\ Buffered /\ Origin
      /\ pc = "load" /\ pc' = "load" /\ pass' = pass /\ files' = files
      /\ pos' = pos + 1 /\ cleared' = TRUE /\ pos \in Nat /\ pass \in {0, 1}
  BY DEF IInv, LoadLine, Loading, TypeOK
<1>1. /\ File \in Files /\ File # Missing /\ Len(File) \in Nat
      /\ pos + 1 \in 1..Len(File) /\ line # Bad /\ Fields(line)
  <2>1. File \in Files
    BY <1>0 DEF TypeOK, File
  <2>2. File # Missing /\ pos < Len(File) /\ line # Bad
    BY <1>0 DEF Loading, LoadLine
  <2> QED BY <1>0, <2>1, <2>2, TableAssumption
<1>2. /\ buf' = Overlay(line) /\ Fields(buf')
      /\ DOMAIN buf' = DOMAIN line \cup DOMAIN buf
  BY <1>0, <1>1, OverlayFields DEF LoadLine, TypeOK
<1>3. PICK e \in Readings(buf') : rt' = Cleared(e)
  BY DEF LoadLine
<1>4. e \in Entry /\ \A f \in DOMAIN buf' : e[f] = buf'[f]
  BY <1>3 DEF Readings
<1>5. rt' \in Seq(Entry)
  BY <1>0, <1>3, <1>4 DEF Cleared, TypeOK
<1>6. TypeOK'
  BY <1>0, <1>2, <1>5 DEF TypeOK, LoadLine, scan
<1>7. Loading' /\ Scanned' /\ Verified'
  BY <1>0 DEF Loading, Scanned, Verified, File
<1>8. ASSUME FirstComplete(File)
      PROVE  /\ DOMAIN buf' = Field
             /\ \A x \in Field : \E j \in 1..Len(File) :
                   x \in DOMAIN File[j] /\ File[j][x] = buf'[x]
  <2>1. ASSUME pos = 0
        PROVE  DOMAIN buf' = Field /\ \A x \in Field : x \in DOMAIN line
    <3>1. DOMAIN line = Field
      BY <1>1, <1>8, <2>1 DEF FirstComplete
    <3> QED BY <1>2, <3>1, <1>0 DEF TypeOK, Fields, Field
  <2>2. ASSUME pos # 0
        PROVE  /\ DOMAIN buf = Field
               /\ \A x \in Field : \E j \in 1..Len(File) :
                     x \in DOMAIN File[j] /\ File[j][x] = buf[x]
    BY <1>0, <1>8, <2>2 DEF Buffered
  <2>3. DOMAIN buf' = Field
    BY <1>1, <1>2, <2>1, <2>2 DEF Fields, Field
  <2>4. ASSUME NEW x \in Field
        PROVE  \E j \in 1..Len(File) : x \in DOMAIN File[j] /\ File[j][x] = buf'[x]
    <3>1. buf'[x] = IF x \in DOMAIN line THEN line[x] ELSE buf[x]
      BY <1>2, <2>3 DEF Overlay
    <3>2. CASE x \in DOMAIN line
      BY <1>1, <3>1, <3>2
    <3>3. CASE x \notin DOMAIN line
      BY <2>1, <2>2, <3>1, <3>3
    <3> QED BY <3>2, <3>3
  <2> QED BY <2>3, <2>4
<1>9. Buffered'
  BY <1>0, <1>8 DEF Buffered, File
<1>10. From(pass + 1)'
  <2> SUFFICES ASSUME FirstComplete(File), NEW i \in DOMAIN rt'
               PROVE  WrittenIn(rt'[i], File)
    BY <1>0 DEF From, File
  <2>1. WrittenIn(e, File)
    BY <1>4, <1>8 DEF WrittenIn
  <2>2. CASE cleared
    <3>1. rt' = Append(rt, e) /\ \A k \in DOMAIN rt : WrittenIn(rt[k], File)
      BY <1>0, <1>1, <1>3, <2>2 DEF Cleared, Origin, From, File
    <3>2. rt'[i] = e \/ (i \in DOMAIN rt /\ rt'[i] = rt[i])
      BY <1>0, <1>4, <3>1 DEF TypeOK
    <3> QED BY <2>1, <3>1, <3>2
  <2>3. CASE ~cleared
    <3>1. rt'[i] = e
      BY <1>3, <1>4, <2>3 DEF Cleared
    <3> QED BY <2>1, <3>1
  <2> QED BY <2>2, <2>3
<1>11. Origin'
  BY <1>0, <1>1, <1>10 DEF Origin, File
<1> QED BY <1>6, <1>7, <1>9, <1>11 DEF IInv

\* A failed load ends the program with the table as it is.
LEMMA LoadFailInv ==
    ASSUME IInv, LoadFail
    PROVE  IInv'
<1>1. TypeOK'
  BY DEF IInv, TypeOK, LoadFail, load, scan, Fields
<1>2. Loading' /\ Scanned' /\ Verified' /\ Buffered' /\ Origin'
  BY DEF LoadFail, Loading, Scanned, Verified, Buffered, Origin
<1> QED BY <1>1, <1>2 DEF IInv

\* The end of a load: the table is from this file, or still from the first one
\* if this file is empty.
LEMMA LoadDoneInv ==
    ASSUME IInv, LoadDone
    PROVE  IInv'
<1>0. /\ TypeOK /\ Loading /\ Origin /\ pc = "load" /\ pass \in {0, 1}
      /\ pass' = pass + 1 /\ pos = Len(File) /\ pos \in Nat
      /\ pc' = IF pass = 0 THEN "open" ELSE "await"
      /\ files' = files /\ rt' = rt /\ pos' = pos
  BY DEF IInv, LoadDone, Loading, TypeOK
<1>1. TypeOK'
  BY <1>0 DEF TypeOK, LoadDone, scan, Fields
<1>2. Loading' /\ Scanned' /\ Verified' /\ Buffered'
  BY <1>0 DEF Loading, Scanned, Verified, Buffered
<1>3. Origin'
  <2>1. CASE pass = 0
    <3>1. From(1)
      BY <1>0, <2>1 DEF Origin, From, TypeOK
    <3> QED BY <1>0, <2>1, <3>1 DEF Origin, From
  <2>2. CASE pass = 1
    <3>1. From(IF Len(files[2]) = 0 THEN 1 ELSE 2)
      BY <1>0, <2>2 DEF Origin, File
    <3> QED BY <1>0, <2>2, <3>1 DEF Origin, From
  <2> QED BY <1>0, <2>1, <2>2
<1> QED BY <1>1, <1>2, <1>3 DEF IInv

\* sr_verify_routing_table passes only if every interface of the table exists.
LEMMA HwInfoInv ==
    ASSUME IInv, NEW S \in SUBSET Iface, HwInfo(S)
    PROVE  IInv'
<1>1. TypeOK'
  BY DEF IInv, TypeOK, HwInfo, load, scan, Fields
<1>2. Loading' /\ Scanned' /\ Verified' /\ Buffered'
  BY DEF HwInfo, Loading, Scanned, Verified, Buffered, Consistent, load
<1>3. Origin'
  BY DEF IInv, HwInfo, Origin, From, load
<1> QED BY <1>1, <1>2, <1>3 DEF IInv

\* The start of longest_prefix_matching: no entry seen, none chosen.
LEMMA LookupInv ==
    ASSUME IInv, NEW host \in Addr, Lookup(host)
    PROVE  IInv'
<1>1. TypeOK'
  BY DEF IInv, TypeOK, Lookup, load, Fields, Addr
<1>2. Loading' /\ Verified' /\ Buffered'
  BY DEF IInv, Lookup, Loading, Verified, Buffered, load
<1>3. Scanned'
  <2>1. Usable(1)' = {}
    BY <1>1 DEF Usable, TypeOK
  <2> QED
    BY <1>1, <2>1 DEF Lookup, Scanned, FirstLongest, TypeOK
<1>4. Origin'
  BY DEF IInv, Lookup, Origin, From, load
<1> QED BY <1>1, <1>2, <1>3, <1>4 DEF IInv

\* One entry: the best of those before cur becomes the best of those up to it.
LEMMA ScanEntryInv ==
    ASSUME IInv, ScanEntry
    PROVE  IInv'
<1>0. /\ TypeOK /\ pc = "scan" /\ pc' = "scan" /\ cur <= Len(rt) /\ cur' = cur + 1
      /\ cur \in Nat \ {0} /\ rt \in Seq(Entry) /\ rt' = rt /\ ip' = ip
      /\ cur \in DOMAIN rt /\ DOMAIN rt = 1..Len(rt) /\ Len(rt) \in Nat
      /\ best \in Nat
      /\ FirstLongest(best, cur)
      /\ longest = IF best = 0 THEN {} ELSE Mask(rt[best].len)
  BY DEF IInv, ScanEntry, TypeOK, load, Scanned
<1>1. \A i \in DOMAIN rt : rt[i] \in Entry /\ rt[i].len \in 0..W
  <2>1. \A i \in DOMAIN rt : rt[i] \in Entry
    BY <1>0
  <2>2. \A e \in Entry : e.len \in 0..W
    BY DEF Entry
  <2> QED BY <2>1, <2>2
<1>2. TypeOK'
  <2>1. Mask(rt[cur].len) \in Addr
    BY <1>0, <1>1, TableAssumption DEF Mask, Addr, Bit
  <2>2. best' \in Nat /\ longest' \in Addr
    BY <1>0, <2>1 DEF TypeOK, ScanEntry
  <2>3. UNCHANGED <<files, pass, pos, cleared, buf, rt, ifs, pc, ip>>
    BY DEF ScanEntry, load
  <2> QED BY <1>0, <2>2, <2>3 DEF TypeOK, Fields
<1>3. Loading' /\ Verified' /\ Buffered'
  BY DEF IInv, ScanEntry, Loading, Verified, Buffered, load
<1>4. Scanned'
  <2> DEFINE wins == Matches(rt[cur], ip) /\ Above(Mask(rt[cur].len), longest)
  <2>1. Usable(cur + 1) =
           Usable(cur) \cup (IF Matches(rt[cur], ip) /\ rt[cur].len > 0 THEN {cur} ELSE {})
    BY <1>0, <1>1 DEF Usable
  <2>2. best # 0 => best \in Usable(cur) /\ best \in DOMAIN rt /\ best < cur
    BY <1>0 DEF FirstLongest, Usable
  <2>3. wins <=> /\ Matches(rt[cur], ip)
                 /\ rt[cur].len > IF best = 0 THEN 0 ELSE rt[best].len
    BY <1>0, <1>1, <2>2, MaskOrder, MaskZero
  <2>4. \A i \in Usable(cur) : i \in DOMAIN rt /\ i < cur /\ rt[i].len > 0
    BY DEF Usable
  <2>5. CASE wins
    <3>1. best' = cur /\ longest' = Mask(rt[cur].len)
      BY <2>5 DEF ScanEntry
    <3>2. cur \in Usable(cur + 1)
      BY <1>0, <1>1, <2>1, <2>2, <2>3, <2>4, <2>5
    <3>3. \A i \in Usable(cur) : rt[i].len < rt[cur].len
      BY <1>0, <1>1, <2>2, <2>3, <2>4, <2>5 DEF FirstLongest
    <3>4. FirstLongest(cur, cur + 1)
      <4>1. \A i \in Usable(cur + 1) : i = cur \/ i \in Usable(cur)
        BY <2>1
      <4>2. \A i \in Usable(cur + 1) :
               rt[i].len <= rt[cur].len /\ (i < cur => rt[i].len < rt[cur].len)
        BY <1>0, <1>1, <2>4, <3>3, <4>1
      <4> QED BY <3>2, <4>2 DEF FirstLongest
    <3> QED BY <1>0, <3>1, <3>4 DEF Scanned, FirstLongest, Usable
  <2>6. CASE ~wins
    <3>1. best' = best /\ longest' = longest
      BY <2>6 DEF ScanEntry
    <3>2. FirstLongest(best, cur + 1)
      <4>1. CASE best = 0
        BY <1>0, <1>1, <2>1, <2>3, <2>4, <2>6, <4>1 DEF FirstLongest
      <4>2. CASE best # 0
        BY <1>0, <1>1, <2>1, <2>2, <2>3, <2>4, <2>6, <4>2 DEF FirstLongest
      <4> QED BY <4>1, <4>2
    <3> QED BY <1>0, <3>1, <3>2 DEF Scanned, FirstLongest, Usable
  <2> QED BY <2>5, <2>6
<1>5. Origin'
  BY DEF IInv, ScanEntry, Origin, From, load
<1> QED BY <1>2, <1>3, <1>4, <1>5 DEF IInv

\* The end of the walk: every entry has been seen.
LEMMA ScanEndInv ==
    ASSUME IInv, ScanEnd
    PROVE  IInv'
<1>1. TypeOK'
  BY DEF IInv, TypeOK, ScanEnd, load, scan, Fields
<1>2. Loading' /\ Verified' /\ Buffered'
  BY DEF IInv, ScanEnd, Loading, Verified, Buffered, load
<1>3. Scanned'
  BY DEF IInv, TypeOK, ScanEnd, Scanned, FirstLongest, Usable, load, scan
<1>4. Origin'
  BY DEF IInv, ScanEnd, Origin, From, load
<1> QED BY <1>1, <1>2, <1>3, <1>4 DEF IInv

\* The caller goes on with nothing changed.
LEMMA ReturnInv ==
    ASSUME IInv, Return
    PROVE  IInv'
<1>1. TypeOK'
  BY DEF IInv, TypeOK, Return, load, scan, Fields
<1>2. Loading' /\ Verified' /\ Buffered' /\ Scanned'
  BY DEF IInv, Return, Loading, Verified, Buffered, Scanned, load
<1>3. Origin'
  BY DEF IInv, Return, Origin, From, load
<1> QED BY <1>1, <1>2, <1>3 DEF IInv

(***************************************************************************)
(* Theorems.                                                               *)
(***************************************************************************)
\* The invariant holds of every behaviour.
THEOREM Invariant == Spec => []IInv
<1>1. IInv /\ [Next]_vars => IInv'
  <2> SUFFICES ASSUME IInv, [Next]_vars PROVE IInv'
    OBVIOUS
  <2> QED
    BY OpenInv, LoadLineInv, LoadFailInv, LoadDoneInv, HwInfoInv, LookupInv,
       ScanEntryInv, ScanEndInv, ReturnInv, StutterInv DEF Next
<1> QED BY InitInv, <1>1, PTL DEF Spec

\* Every variable keeps to its type, whatever the file holds.
THEOREM TypeCorrect == Spec => []TypeOK
<1>1. IInv => TypeOK
  BY DEF IInv
<1> QED BY Invariant, <1>1, PTL

\* longest_prefix_matching returns the first of the longest matching entries.
THEOREM LongestMatch == Spec => []LookupCorrect
<1>1. IInv => LookupCorrect
  BY DEF IInv, Scanned, LookupCorrect
<1> QED BY Invariant, <1>1, PTL

\* The interface of a route that was found is in the interface list.
THEOREM InterfaceExists == Spec => []RouteUsable
<1>1. IInv => RouteUsable
  <2> SUFFICES ASSUME IInv, pc = "found", best # 0 PROVE rt[best].iface \in ifs
    BY DEF RouteUsable
  <2>1. best \in DOMAIN rt
    BY DEF IInv, Scanned, FirstLongest, Usable
  <2> QED BY <2>1 DEF IInv, Verified
<1> QED BY Invariant, <1>1, PTL

\* The table comes from one version of the file.
THEOREM FromOneFile == Spec => []OneVersion
<1>1. IInv => OneVersion
  BY DEF IInv, Origin, From, OneVersion
<1> QED BY Invariant, <1>1, PTL
=============================================================================
