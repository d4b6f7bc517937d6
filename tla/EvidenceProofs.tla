--------------------------- MODULE EvidenceProofs ---------------------------
(* Proofs about Evidence, for any chains, replicas, keys, faults, pages and  *)
(* damages.                                                                  *)
EXTENDS Evidence, CheckpointerProofs

Broken == Doubled(Chain) \/ Gapped(Chain)

\* A row points to the place before its own, and is the first there or has one
\* before it.
Linked ==
  \A row \in rows[Chain] :
    /\ row.prev[1] = row.seq - 1 /\ (row.prev[2] = 1 \/ Doubled(Chain))
    /\ \E x \in rows[Chain] : x.seq = row.seq /\ x.hash[2] = 1

Pairs == Nat \X Nat
Exported == [seq : Nat, hash : Pairs, prev : Pairs, computed : Pairs, known : BOOLEAN]
Seals == [from : Nat, to : Nat, leaves : Seq(Hashes), key : Keys, intact : BOOLEAN]
Packs ==
  [stage : {"head", "page", "ended", "done"}, browser : BOOLEAN,
   fetched : SUBSET {"checkpoints", "keys"}, from : Nat, to : Nat, next : Nat, explicit : Pairs,
   manifest : [from : Nat, to : Nat, prev : Pairs \union {NoHash}], events : Seq(Exported),
   checkpoints : SUBSET Seals, keys : SUBSET Keys, damage : Seq(Damages)]

\* Whatever happens to an event, its link and its hash are of its place and the
\* one before; and unless its contents were made up, it is where a row is and links
\* to what the row links to.
FromRow(e) ==
  /\ e.prev[1] = e.seq - 1 /\ e.hash[1] = e.seq
  /\ e.computed[2] # 3 =>
       \E row \in rows[Chain] : row.hash = e.computed /\ row.seq = e.seq /\ row.prev = e.prev

\* The one event that a chain which is not broken has at place s.
Event(s) ==
  [seq |-> s, hash |-> <<s, 1>>, prev |-> <<s - 1, 1>>, computed |-> <<s, 1>>, known |-> TRUE]
Edit(e) == [e EXCEPT !.computed = <<e.seq, 3>>]

\* The events are those of the range, but for the one at j, which was edited.
AllBut(j) ==
  /\ Len(pack.events) = pack.next - pack.from
  /\ \A i \in 1 .. Len(pack.events) :
       pack.events[i] = IF i = j THEN Edit(Event(pack.from + i - 1)) ELSE Event(pack.from + i - 1)

RangeKnown ==
  pack.stage # "head" =>
    /\ pack.from \in 1 .. pack.to /\ pack.to <= Head_seq(Chain)
    /\ pack.next \in pack.from .. pack.to + 1
    /\ pack.browser => pack.from = 1
    /\ Anchor \in Pairs /\ Anchor[1] = pack.from - 1 /\ (Anchor[2] = 1 \/ Broken)

EventsKnown ==
  /\ \A i \in 1 .. Len(pack.events) : FromRow(pack.events[i])
  /\ pack.stage = "head" => pack.events = <<>>
  /\ pack.stage # "done" => pack.damage = <<>>
  /\ pack.stage # "head" /\ ~ Broken =>
       /\ pack.damage = <<>> => AllBut(0)
       /\ pack.damage = <<"edited">> => \E j \in 1 .. Len(pack.events) : AllBut(j)

\* What the dashboard's manifest tells, and how many events there are.
Counted ==
  pack.stage = "done" /\ pack.browser /\ ~ Broken =>
    /\ pack.manifest.to = pack.next - 1
    /\ pack.manifest.from = 0 => pack.next = 1
    /\ ~ Suffered("twice") =>
         Len(pack.events) <= pack.next - 1 - (IF Suffered("lost") THEN 1 ELSE 0)

SealsKnown ==
  /\ \A k \in pack.checkpoints :
       /\ k.intact => \E c \in CheckpointsOf(Chain) : k = Sealed(c)
       /\ ~ Suffered("signature") => k.intact
       /\ ~ pack.browser /\ "keys" \in pack.fetched => k.key \in pack.keys
  /\ ~ pack.browser /\ "keys" \in pack.fetched => "checkpoints" \in pack.fetched
  /\ pack.stage = "done" => "keys" \in pack.fetched

EvInv ==
  /\ RootInv
  /\ Linked
  /\ pack \in Packs
  /\ RangeKnown
  /\ EventsKnown
  /\ Counted
  /\ SealsKnown


-----------------------------------------------------------------------------
(* The system behind the export *)

(* Nothing has happened to a pack that is not damaged.                      *)
LEMMA Unharmed ==
  ASSUME pack.damage = <<>>, NEW kind
  PROVE  pack.damage # <<"edited">> /\ ~ Suffered(kind)
<1>1. Len(pack.damage) = 0 /\ Len(<<"edited">>) = 1
  OBVIOUS
<1>2. pack.damage # <<"edited">>
  BY <1>1
<1>. QED
  BY <1>2 DEF Suffered, Range

LEMMA ChainIsThere == Chain \in Chains
<1>1. Len(Walk) \in Nat \ {0} /\ 1 \in 1 .. Len(Walk)
  BY CheckpointerParameters, EvidenceParameters
<1>. QED
  BY <1>1, CheckpointerParameters DEF Chain, Chains, Range

(* Whatever the system does, no row and no checkpoint goes away, and a chain *)
(* that is broken stays so.                                                  *)
LEMMA Grows ==
  ASSUME RootInv, CpNext, NEW c \in Chains
  PROVE  /\ rows[c] \subseteq rows'[c] /\ CheckpointsOf(c) \subseteq CheckpointsOf(c)'
         /\ Head_seq(c) <= Head_seq(c)'
         /\ Doubled(c) => Doubled(c)'
         /\ Gapped(c) => Gapped(c)'
<1>0. rows \in [Chains -> SUBSET Rows]
  BY DEF RootInv, CpInv, CpTypeOK
<1>1. ASSUME UNCHANGED rows, checkpoints \subseteq checkpoints'
      PROVE  /\ rows[c] \subseteq rows'[c] /\ CheckpointsOf(c) \subseteq CheckpointsOf(c)'
             /\ Head_seq(c) <= Head_seq(c)'
             /\ Doubled(c) => Doubled(c)'
             /\ Gapped(c) => Gapped(c)'
  <2>1. Head_seq(c)' = Head_seq(c) /\ Head_seq(c) \in Int
    BY <1>0, <1>1, SameChains, HeadType, CheckpointerParameters
  <2>2. Seqs(c)' = Seqs(c)
    BY <1>1 DEF Seqs
  <2>. QED
    BY <1>1, <2>1, <2>2 DEF CheckpointsOf, Doubled, Gapped
<1>2. ASSUME NEW d \in Chains, AppendRow(d) \/ DoubleRow(d) \/ SkipRow(d)
      PROVE  /\ rows[c] \subseteq rows'[c] /\ CheckpointsOf(c) \subseteq CheckpointsOf(c)'
             /\ Head_seq(c) <= Head_seq(c)'
             /\ Doubled(c) => Doubled(c)'
             /\ Gapped(c) => Gapped(c)'
  <2>1. PICK new \in Rows : /\ rows' = [rows EXCEPT ![d] = @ \union {new}]
                            /\ new.seq > Head_seq(d) \/ new.seq \in Seqs(d)
    BY <1>2, NewRow DEF RootInv
  <2>2. checkpoints' = checkpoints
    BY <1>2 DEF AppendRow, DoubleRow, SkipRow
  <2>3. rows[c] \subseteq rows'[c]
    BY <1>0, <2>1
  <2>4. CheckpointsOf(c) \subseteq CheckpointsOf(c)'
    BY <2>2 DEF CheckpointsOf
  <2>. QED
    BY <1>0, <2>1, <2>3, <2>4, RowsGrow
<1>3. ASSUME NEW r \in Replicas, Boots(r) \/ Installs(r)
      PROVE  UNCHANGED <<rows, checkpoints>>
  BY <1>3
  DEF Boots, Installs, LoadKey, GenerateKey, WriteKey, InstallSelect, InstallUpdate,
      InstallWaited, InstallInsert
<1>4. ASSUME NEW r \in Replicas, Ticks(r) \/ QueryFails(r) \/ Crash(r)
      PROVE  UNCHANGED rows /\ checkpoints \subseteq checkpoints'
  <2>1. CASE Put(r)
    BY <2>1 DEF Put
  <2>2. CASE ~ Put(r)
    BY <1>4, <2>2
    DEF Ticks, TickStart, TickEnd, ReadHead, ReadLast, ReadLeaves, QueryFails, Crash
  <2>. QED
    BY <2>1, <2>2
<1>5. CASE RotateFile \/ Advance
  BY <1>1, <1>5 DEF RotateFile, Advance
<1>. QED
  BY <1>1, <1>2, <1>3, <1>4, <1>5 DEF CpNext

LEMMA BrokenStays ==
  ASSUME RootInv, CpNext, Broken
  PROVE  Broken'
<1>1. (Doubled(Chain) => Doubled(Chain)') /\ (Gapped(Chain) => Gapped(Chain)')
  BY Grows, ChainIsThere
<1>. QED
  BY <1>1 DEF Broken

(* A row that comes points to the place before its own, and to a second row *)
(* there only if there is one.                                              *)
LEMMA LinkedStep ==
  ASSUME RootInv, Linked, CpNext
  PROVE  Linked'
<1>0. rows \in [Chains -> SUBSET Rows] /\ Chain \in Chains /\ Head_seq(Chain) \in 0 .. MaxSeq
  BY ChainIsThere, HeadType DEF RootInv, CpInv, CpTypeOK
<1>1. Doubled(Chain) => Doubled(Chain)'
  BY <1>0, Grows
<1>2. ASSUME NEW new, rows'[Chain] = rows[Chain] \union {new},
             new.prev[1] = new.seq - 1, new.prev[2] = 1 \/ Doubled(Chain)',
             new.hash[2] = 1 \/ \E x \in rows[Chain] : x.seq = new.seq /\ x.hash[2] = 1
      PROVE  Linked'
  BY <1>1, <1>2 DEF Linked
<1>3. ASSUME NEW s, NEW copy, NEW prev
      PROVE  /\ Row(s, copy, prev).seq = s /\ Row(s, copy, prev).prev = prev
             /\ Row(s, copy, prev).hash[2] = copy
  BY DEF Row
<1>4. ASSUME rows'[Chain] = rows[Chain] PROVE Linked'
  BY <1>1, <1>4 DEF Linked
<1>5. ASSUME NEW d \in Chains, AppendRow(d) PROVE Linked'
  <2>1. CASE d # Chain
    BY <1>0, <1>4, <1>5, <2>1 DEF AppendRow
  <2>2. CASE d = Chain
    <3>. DEFINE h == Head_seq(Chain)
    <3>1. rows'[Chain] = rows[Chain] \union {Row(h + 1, 1, Tip(Chain))}
      BY <1>0, <1>5, <2>2 DEF AppendRow
    <3>2. Tip(Chain)[1] = h
      BY DEF Tip, Genesis, Head_seq
    <3>3. Tip(Chain)[2] = 1 \/ Doubled(Chain)
      BY DEF Tip, Genesis, Doubled
    <3>4. h + 1 - 1 = h /\ h \in Nat
      BY <1>0, CheckpointerParameters
    <3>5. PICK new : new = Row(h + 1, 1, Tip(Chain))
      OBVIOUS
    <3>. HIDE DEF h
    <3>6. new.seq = h + 1 /\ new.prev = Tip(Chain) /\ new.hash[2] = 1
      BY <1>3, <3>5
    <3>7. new.prev[1] = new.seq - 1 /\ (new.prev[2] = 1 \/ Doubled(Chain)')
      BY <1>1, <3>2, <3>3, <3>4, <3>6
    <3>. QED
      BY <1>2, <3>1, <3>5, <3>6, <3>7
  <2>. QED
    BY <2>1, <2>2
<1>6. ASSUME NEW d \in Chains, DoubleRow(d) PROVE Linked'
  <2>1. PICK row \in rows[d] : rows' = [rows EXCEPT ![d] = @ \union {Row(row.seq, 2, row.prev)}]
    BY <1>6 DEF DoubleRow
  <2>2. CASE d # Chain
    BY <1>0, <1>4, <2>1, <2>2
  <2>3. CASE d = Chain
    <3>1. rows'[Chain] = rows[Chain] \union {Row(row.seq, 2, row.prev)}
      BY <1>0, <2>1, <2>3
    <3>2. /\ row.prev[1] = row.seq - 1 /\ (row.prev[2] = 1 \/ Doubled(Chain))
          /\ \E x \in rows[Chain] : x.seq = row.seq /\ x.hash[2] = 1
      BY <2>3 DEF Linked
    <3>3. PICK new : new = Row(row.seq, 2, row.prev)
      OBVIOUS
    <3>4. new.seq = row.seq /\ new.prev = row.prev
      BY <1>3, <3>3
    <3>. QED
      BY <1>1, <1>2, <3>1, <3>2, <3>3, <3>4
  <2>. QED
    BY <2>2, <2>3
<1>7. ASSUME NEW d \in Chains, SkipRow(d) PROVE Linked'
  <2>1. CASE d # Chain
    BY <1>0, <1>4, <1>7, <2>1 DEF SkipRow
  <2>2. CASE d = Chain
    <3>. DEFINE h == Head_seq(Chain)
    <3>1. rows'[Chain] = rows[Chain] \union {Row(h + 2, 1, <<h + 1, 1>>)}
      BY <1>0, <1>7, <2>2 DEF SkipRow
    <3>2. h + 2 - 1 = h + 1 /\ h \in Nat
      BY <1>0, CheckpointerParameters
    <3>3. PICK new : new = Row(h + 2, 1, <<h + 1, 1>>)
      OBVIOUS
    <3>. HIDE DEF h
    <3>4. new.seq = h + 2 /\ new.prev = <<h + 1, 1>> /\ new.hash[2] = 1
      BY <1>3, <3>3
    <3>5. new.prev[1] = new.seq - 1 /\ new.prev[2] = 1
      BY <3>2, <3>4
    <3>. QED
      BY <1>2, <3>1, <3>3, <3>4, <3>5
  <2>. QED
    BY <2>1, <2>2
<1>8. ASSUME NEW r \in Replicas, Boots(r) \/ Installs(r) \/ Ticks(r) \/ QueryFails(r) \/ Crash(r)
      PROVE  rows' = rows
  <2>1. CASE Boots(r) \/ Installs(r)
    BY <2>1
    DEF Boots, Installs, LoadKey, GenerateKey, WriteKey, InstallSelect, InstallUpdate,
        InstallWaited, InstallInsert
  <2>2. CASE Ticks(r) \/ QueryFails(r) \/ Crash(r)
    BY <2>2
    DEF Ticks, TickStart, TickEnd, ReadHead, ReadLast, ReadLeaves, Put, QueryFails, Crash
  <2>. QED
    BY <1>8, <2>1, <2>2
<1>9. CASE RotateFile \/ Advance
  BY <1>4, <1>9 DEF RotateFile, Advance
<1>. QED
  BY <1>4, <1>5, <1>6, <1>7, <1>8, <1>9 DEF CpNext

-----------------------------------------------------------------------------
(* The export *)

LEMMA Concat ==
  ASSUME NEW S, NEW a \in Seq(S), NEW b \in Seq(S)
  PROVE  /\ a \o b \in Seq(S) /\ Len(a \o b) = Len(a) + Len(b)
         /\ \A i \in 1 .. Len(a \o b) : (a \o b)[i] = IF i <= Len(a) THEN a[i] ELSE b[i - Len(a)]
OBVIOUS

\* A chain that is not broken answers with the one event of each place.
LEMMA RangeOf ==
  ASSUME RootInv, Linked, ~ Broken, NEW to \in Nat, NEW from \in 1 .. to, to <= Head_seq(Chain),
         NEW s \in InOrder(Between(Chain, from, to))
  PROVE  /\ Len(s) = to - from + 1
         /\ \A i \in 1 .. Len(s) : AsEvent(s[i]) = Event(from + i - 1)
<1>. DEFINE S == Between(Chain, from, to)
            f == [row \in S |-> row.seq]
<1>0. /\ rows \in [Chains -> SUBSET Rows] /\ Chain \in Chains /\ RowsAlike(Chain)
      /\ Head_seq(Chain) \in 0 .. MaxSeq /\ ~ Doubled(Chain) /\ ~ Gapped(Chain)
  BY ChainIsThere, HeadType DEF RootInv, CpInv, CpTypeOK, Broken
<1>1. ASSUME NEW row \in rows[Chain]
      PROVE  /\ row.seq \in Nat \ {0} /\ row.hash = <<row.seq, 1>> /\ row.prev = <<row.seq - 1, 1>>
             /\ row \in Rows
  <2>1. row \in Rows /\ row.hash \in Hashes /\ row.prev \in Hashes /\ row.seq \in Nat \ {0}
    BY <1>0 DEF Rows
  <2>2. row.hash[1] = row.seq /\ row.hash[2] # 2
    BY <1>0 DEF RowsAlike, Doubled
  <2>3. row.prev[1] = row.seq - 1 /\ row.prev[2] = 1
    BY <1>0 DEF Linked
  <2>4. row.hash = <<row.seq, 1>>
    BY <2>1, <2>2 DEF Hashes
  <2>5. row.prev = <<row.seq - 1, 1>>
    BY <2>1, <2>3 DEF Hashes
  <2>. QED
    BY <2>1, <2>4, <2>5
<1>2. IsFiniteSet(S) /\ Cardinality(S) \in Nat /\ S \subseteq Rows
  BY <1>0, RangeFinite
<1>3. f \in Bijection(S, from .. to)
  <2>1. f \in [S -> from .. to]
    BY <1>1 DEF Between
  <2>2. ASSUME NEW x \in S, NEW y \in S, f[x] = f[y] PROVE x = y
    <3>1. x \in rows[Chain] /\ y \in rows[Chain] /\ x.seq = y.seq
      BY <2>2 DEF Between
    <3>. QED
      BY <1>1, <3>1 DEF Rows
  <2>3. ASSUME NEW q \in from .. to PROVE \E x \in S : f[x] = q
    <3>1. q \in 1 .. Head_seq(Chain)
      BY <1>0, CheckpointerParameters
    <3>2. PICK row \in rows[Chain] : row.seq = q
      BY <1>0, <3>1 DEF Gapped, Seqs
    <3>3. row \in S
      BY <3>2 DEF Between
    <3>. QED
      BY <3>2, <3>3
  <2>. QED
    BY <2>1, <2>2, <2>3 DEF Bijection, Injection, IsInjective, Surjection
<1>4. Cardinality(S) = to - from + 1
  <2>1. IsFiniteSet(from .. to) /\ Cardinality(from .. to) = to - from + 1
    BY FS_Interval
  <2>2. ExistsBijection(S, from .. to)
    BY <1>3 DEF ExistsBijection
  <2>. HIDE DEF S, f
  <2>. QED
    BY <1>2, <2>1, <2>2, FS_Bijection
<1>5. Len(s) = Cardinality(S) /\ \A i \in 1 .. Len(s) : s[i] \in S
  BY <1>2 DEF InOrder, SetToSeqs
<1>6. Covers(Chain, from, HashesOf(s))
  BY <1>0, <1>4, <1>5, LeavesCover DEF BrokenTwice
<1>7. ASSUME NEW i \in 1 .. Len(s) PROVE AsEvent(s[i]) = Event(from + i - 1)
  <2>1. Len(s) \in Nat /\ Len(HashesOf(s)) = Len(s) /\ HashesOf(s)[i] = s[i].hash
    BY <1>2, <1>5 DEF HashesOf
  <2>2. PICK row \in rows[Chain] : row.hash = s[i].hash /\ row.seq = from + i - 1
    BY <1>6, <2>1 DEF Covers
  <2>3. s[i] \in rows[Chain]
    BY <1>5 DEF Between
  <2>4. s[i].seq = from + i - 1
    BY <1>1, <2>2, <2>3
  <2>. QED
    BY <1>1, <2>3, <2>4 DEF AsEvent, Event
<1>. QED
  BY <1>4, <1>5, <1>7

\* The export reads the tables and changes nothing, but that a page may fail.
Reads == UNCHANGED cpVars \/ (UNCHANGED <<rows, checkpoints, signingKeys, file, now, replica>>
                             /\ faults' \in 0 .. MaxFaults)

LEMMA RootedStill == EvInv /\ Reads => RootInv' /\ Linked'
<1>. SUFFICES ASSUME EvInv, Reads PROVE RootInv' /\ Linked'
  OBVIOUS
<1>0. RootInv /\ Linked /\ UNCHANGED <<rows, checkpoints, signingKeys, file, now, replica>>
  BY DEF EvInv, Reads, cpVars
<1>1. CpTypeOK'
  BY <1>0 DEF RootInv, CpInv, CpTypeOK, Reads, cpVars
<1>2. CpInv'
  <2>1. CpInv /\ now <= now'
    BY <1>0, CheckpointerParameters DEF RootInv, CpInv, CpTypeOK, Times
  <2>. QED
    BY <1>0, <1>1, <2>1, WorldKeeps
<1>3. \A c \in Chains : RowsAlike(c)'
  BY <1>0 DEF RootInv, RowsAlike
<1>4. \A r \in Replicas : RangeOK(replica[r])'
  BY <1>0, SameChains DEF RootInv, RangeOK
<1>5. \A k \in checkpoints' : RootOK(k)'
  BY <1>0, SameChains DEF RootInv, RootOK
<1>6. Linked'
  BY <1>0 DEF Linked, Doubled
<1>. QED
  BY <1>2, <1>3, <1>4, <1>5, <1>6 DEF RootInv

\* With the system as it is, what the pack is compared with is as it was.
LEMMA SameSystem ==
  ASSUME Reads
  PROVE  /\ Broken' <=> Broken
         /\ Head_seq(Chain)' = Head_seq(Chain)
         /\ CheckpointsOf(Chain)' = CheckpointsOf(Chain)
         /\ \A e : FromRow(e)' <=> FromRow(e)
<1>1. UNCHANGED <<rows, checkpoints>>
  BY DEF Reads, cpVars
<1>2. Head_seq(Chain)' = Head_seq(Chain)
  BY <1>1, SameChains
<1>3. Seqs(Chain)' = Seqs(Chain) /\ (Doubled(Chain)' <=> Doubled(Chain))
  BY <1>1 DEF Seqs, Doubled
<1>4. Gapped(Chain)' <=> Gapped(Chain)
  BY <1>2, <1>3 DEF Gapped
<1>5. CheckpointsOf(Chain)' = CheckpointsOf(Chain)
  BY <1>1 DEF CheckpointsOf
<1>6. \A e : FromRow(e)' <=> FromRow(e)
  BY <1>1 DEF FromRow
<1>. QED
  BY <1>2, <1>3, <1>4, <1>5, <1>6 DEF Broken

(* What the system does while a pack is made leaves the pack true.           *)
LEMMA SystemKeeps ==
  ASSUME EvInv, CpNext, UNCHANGED pack
  PROVE  EvInv'
<1>0. RootInv /\ Linked /\ Chain \in Chains /\ Head_seq(Chain) \in Int /\ Head_seq(Chain)' \in Int
  <2>1. RootInv /\ Linked /\ RootInv'
    BY RootStep DEF EvInv
  <2>2. rows \in [Chains -> SUBSET Rows] /\ rows' \in [Chains -> SUBSET Rows]
    BY <2>1 DEF RootInv, CpInv, CpTypeOK
  <2>3. \A c \in Chains : Head_seq(c) \in 0 .. MaxSeq
    BY <2>2, HeadType
  <2>4. Head_seq(Chain)' \in Int
    <3>1. CASE rows'[Chain] = {}
      BY <3>1 DEF Head_seq
    <3>2. CASE rows'[Chain] # {}
      <4>1. rows'[Chain] \subseteq Rows
        BY <2>2, ChainIsThere
      <4>2. Head_seq(Chain)' \in {row.seq : row \in rows'[Chain]}
        BY <3>2, <4>1, HeadOf DEF Head_seq, Seqs
      <4>. QED
        BY <4>1, <4>2 DEF Rows
    <3>. QED
      BY <3>1, <3>2
  <2>. QED
    BY <2>1, <2>3, <2>4, ChainIsThere, CheckpointerParameters
<1>1. RootInv' /\ Linked' /\ (Broken => Broken')
  BY <1>0, RootStep, LinkedStep, BrokenStays
<1>2. /\ rows[Chain] \subseteq rows'[Chain] /\ CheckpointsOf(Chain) \subseteq CheckpointsOf(Chain)'
      /\ Head_seq(Chain) <= Head_seq(Chain)'
  BY <1>0, Grows
<1>3. \A e : FromRow(e) => FromRow(e)'
  BY <1>2 DEF FromRow
<1>4. Anchor' = Anchor /\ \A j : AllBut(j)' <=> AllBut(j)
  BY DEF Anchor, Anchored_from_manifest, AllBut
<1>5. pack' \in Packs
  BY DEF EvInv
<1>6. RangeKnown'
  <2>. SUFFICES ASSUME pack'.stage # "head"
                PROVE  /\ pack'.from \in 1 .. pack'.to /\ pack'.to <= Head_seq(Chain)'
                       /\ pack'.next \in pack'.from .. pack'.to + 1
                       /\ pack'.browser => pack'.from = 1
                       /\ Anchor' \in Pairs /\ Anchor'[1] = pack'.from - 1
                       /\ Anchor'[2] = 1 \/ Broken'
    BY DEF RangeKnown
  <2>1. /\ pack.from \in 1 .. pack.to /\ pack.to <= Head_seq(Chain)
        /\ pack.next \in pack.from .. pack.to + 1
        /\ pack.browser => pack.from = 1
        /\ Anchor \in Pairs /\ Anchor[1] = pack.from - 1 /\ (Anchor[2] = 1 \/ Broken)
    BY DEF EvInv, RangeKnown
  <2>2. pack.to \in Int
    BY DEF EvInv, Packs
  <2>3. pack.to <= Head_seq(Chain)'
    BY <1>0, <1>2, <2>1, <2>2
  <2>. QED
    BY <1>1, <1>4, <2>1, <2>3
<1>7. EventsKnown'
  BY <1>1, <1>3, <1>4 DEF EvInv, EventsKnown
<1>8. Counted'
  BY <1>1 DEF EvInv, Counted, Suffered
<1>9. SealsKnown'
  BY <1>2 DEF EvInv, SealsKnown, Sealed, Suffered
<1>. QED
  BY <1>1, <1>5, <1>6, <1>7, <1>8, <1>9 DEF EvInv

LEMMA HeadKeeps ==
  ASSUME EvInv, ExportHead
  PROVE  EvInv'
<1>0. /\ rows \in [Chains -> SUBSET Rows] /\ Chain \in Chains /\ RowsAlike(Chain)
      /\ Head_seq(Chain) \in 0 .. MaxSeq /\ MaxSeq \in Nat
  BY ChainIsThere, HeadType, CheckpointerParameters DEF EvInv, RootInv, CpInv, CpTypeOK
<1>1. /\ pack \in Packs /\ pack.stage = "head" /\ pack.events = <<>> /\ pack.damage = <<>>
      /\ Reads
  BY DEF EvInv, ExportHead, EventsKnown, Reads
<1>2. PICK from, to, anchor :
        /\ from \in 1 .. Head_seq(Chain) /\ to \in 1 .. Head_seq(Chain) /\ from <= to
        /\ pack.browser => from = 1
        /\ \/ from = 1 /\ anchor = <<NoHash, Genesis>>
           \/ \E row \in Between(Chain, from - 1, from - 1) :
                anchor = <<row.hash, Genesis>> \/ anchor = <<NoHash, row.hash>>
        /\ pack' = [pack EXCEPT !.stage = "page", !.from = from, !.next = from, !.to = to,
                                !.manifest.prev = anchor[1], !.explicit = anchor[2]]
  <2>1. PICK from \in IF pack.browser THEN {1} ELSE 1 .. Head_seq(Chain) :
        \E to \in IF pack.browser THEN 1 .. Head_seq(Chain) ELSE {Head_seq(Chain)} :
        \E anchor \in IF from = 1 THEN {<<NoHash, Genesis>>}
                      ELSE UNION {{<<row.hash, Genesis>>, <<NoHash, row.hash>>} :
                                    row \in Between(Chain, from - 1, from - 1)} :
          pack' = [pack EXCEPT !.stage = "page", !.from = from, !.next = from, !.to = to,
                               !.manifest.prev = anchor[1], !.explicit = anchor[2]]
    BY DEF ExportHead
  <2>2. PICK to \in IF pack.browser THEN 1 .. Head_seq(Chain) ELSE {Head_seq(Chain)} :
        \E anchor \in IF from = 1 THEN {<<NoHash, Genesis>>}
                      ELSE UNION {{<<row.hash, Genesis>>, <<NoHash, row.hash>>} :
                                    row \in Between(Chain, from - 1, from - 1)} :
          pack' = [pack EXCEPT !.stage = "page", !.from = from, !.next = from, !.to = to,
                               !.manifest.prev = anchor[1], !.explicit = anchor[2]]
    BY <2>1
  <2>3. PICK anchor \in IF from = 1 THEN {<<NoHash, Genesis>>}
                        ELSE UNION {{<<row.hash, Genesis>>, <<NoHash, row.hash>>} :
                                      row \in Between(Chain, from - 1, from - 1)} :
          pack' = [pack EXCEPT !.stage = "page", !.from = from, !.next = from, !.to = to,
                               !.manifest.prev = anchor[1], !.explicit = anchor[2]]
    BY <2>2
  <2>4. /\ from \in 1 .. Head_seq(Chain) /\ to \in 1 .. Head_seq(Chain) /\ from <= to
        /\ pack.browser => from = 1
    <3>1. Head_seq(Chain) \in Int
      BY <1>0
    <3>2. CASE pack.browser
      BY <2>1, <2>2, <3>1, <3>2
    <3>3. CASE ~ pack.browser
      <4>1. from \in 1 .. Head_seq(Chain) /\ to = Head_seq(Chain)
        BY <2>1, <2>2, <3>3
      <4>. QED
        BY <3>1, <3>3, <4>1
    <3>. QED
      BY <3>2, <3>3
  <2>5. \/ from = 1 /\ anchor = <<NoHash, Genesis>>
        \/ \E row \in Between(Chain, from - 1, from - 1) :
             anchor = <<row.hash, Genesis>> \/ anchor = <<NoHash, row.hash>>
    BY <2>3
  <2>. QED
    BY <2>3, <2>4, <2>5
<1>3. /\ anchor[1] \in Pairs \union {NoHash} /\ anchor[2] \in Pairs
      /\ \/ anchor[1] = NoHash /\ anchor[2][1] = from - 1 /\ (anchor[2][2] = 1 \/ Doubled(Chain))
         \/ /\ anchor[1] # NoHash /\ anchor[2] = Genesis
            /\ anchor[1][1] = from - 1 /\ (anchor[1][2] = 1 \/ Doubled(Chain))
  <2>1. Genesis \in Pairs
    BY DEF Genesis, Pairs
  <2>2. CASE from = 1 /\ anchor = <<NoHash, Genesis>>
    BY <2>1, <2>2 DEF Genesis
  <2>3. CASE ~ (from = 1 /\ anchor = <<NoHash, Genesis>>)
    <3>1. PICK row \in Between(Chain, from - 1, from - 1) :
            anchor = <<row.hash, Genesis>> \/ anchor = <<NoHash, row.hash>>
      BY <1>2, <2>3
    <3>2. row \in rows[Chain] /\ row.seq = from - 1 /\ row.hash \in Hashes
      <4>1. row \in rows[Chain] /\ from - 1 <= row.seq /\ row.seq <= from - 1
        BY <3>1 DEF Between
      <4>2. row.seq \in Int /\ from - 1 \in Int /\ row.hash \in Hashes
        BY <1>0, <1>2, <4>1 DEF Rows
      <4>. QED
        BY <4>1, <4>2
    <3>3. row.hash[1] = from - 1 /\ (row.hash[2] = 1 \/ Doubled(Chain))
      BY <1>0, <3>2 DEF RowsAlike, Doubled, Hashes
    <3>4. row.hash \in Pairs /\ row.hash # NoHash
      <4>1. PICK p \in 0 .. MaxSeq, q \in {1, 2} : row.hash = <<p, q>>
        BY <3>2 DEF Hashes
      <4>2. p \in Nat /\ q \in Nat
        BY <1>0, <4>1
      <4>3. <<p, q>> # NoHash
        BY DEF NoHash
      <4>. QED
        BY <4>1, <4>2, <4>3 DEF Pairs
    <3>. QED
      BY <2>1, <3>1, <3>3, <3>4
  <2>. QED
    BY <2>2, <2>3
<1>4. /\ pack'.stage = "page" /\ pack'.from = from /\ pack'.next = from /\ pack'.to = to
      /\ pack'.explicit = anchor[2] /\ pack'.manifest.prev = anchor[1]
      /\ pack'.browser = pack.browser /\ pack'.fetched = pack.fetched
      /\ pack'.events = <<>> /\ pack'.checkpoints = pack.checkpoints
      /\ pack'.keys = pack.keys /\ pack'.damage = <<>>
  BY <1>1, <1>2 DEF Packs
<1>5. from \in Nat /\ to \in Nat /\ from - 1 \in Nat /\ to + 1 \in Nat
  BY <1>0, <1>2
<1>6. pack' \in Packs
  BY <1>1, <1>2, <1>3, <1>5 DEF Packs
<1>7. RangeKnown'
  <2>1. Anchor' = IF anchor[1] = NoHash THEN anchor[2] ELSE anchor[1]
    BY <1>3, <1>4 DEF Anchor, Anchored_from_manifest
  <2>2. Anchor' \in Pairs /\ Anchor'[1] = from - 1 /\ (Anchor'[2] = 1 \/ Doubled(Chain))
    BY <1>3, <2>1
  <2>3. Broken' <=> Broken
    BY <1>1, SameSystem
  <2>4. Head_seq(Chain)' = Head_seq(Chain)
    BY <1>1, SameSystem
  <2>5. from \in 1 .. to /\ to <= Head_seq(Chain) /\ from \in from .. to + 1
    BY <1>0, <1>2, <1>5
  <2>. QED
    BY <1>2, <1>4, <2>2, <2>3, <2>4, <2>5 DEF RangeKnown, Broken
<1>8. EventsKnown'
  BY <1>4, <1>5 DEF EventsKnown, AllBut
<1>9. Counted'
  BY <1>4 DEF Counted
<1>10. SealsKnown'
  <2>1. CheckpointsOf(Chain)' = CheckpointsOf(Chain)
    BY <1>1, SameSystem
  <2>. QED
    BY <1>1, <1>4, <2>1 DEF EvInv, SealsKnown, Sealed, Suffered
<1>. QED
  BY <1>1, <1>6, <1>7, <1>8, <1>9, <1>10, RootedStill DEF EvInv

LEMMA PageKeeps ==
  ASSUME EvInv, ExportPage
  PROVE  EvInv'
<1>. DEFINE upto == Upto(pack.next + Page - 1)
<1>1. /\ pack \in Packs /\ pack.stage = "page" /\ pack.damage = <<>> /\ Reads
      /\ pack.next <= pack.to /\ RootInv /\ Linked
  BY DEF EvInv, ExportPage, EventsKnown, Reads
<1>2. /\ pack.from \in 1 .. pack.to /\ pack.to <= Head_seq(Chain)
      /\ pack.next \in pack.from .. pack.to + 1
      /\ pack.from \in Nat /\ pack.to \in Nat /\ pack.next \in Nat
  BY <1>1 DEF EvInv, RangeKnown, Packs
<1>3. upto \in pack.next .. pack.to /\ upto \in Nat
  <2>1. pack.next + Page - 1 >= pack.next /\ pack.next + Page - 1 \in Nat
    BY <1>2, EvidenceParameters
  <2>. QED
    BY <1>1, <1>2, <2>1 DEF Upto
<1>4. PICK s \in InOrder(Between(Chain, pack.next, upto)) :
        pack' = IF s = <<>> THEN [pack EXCEPT !.stage = "ended"]
                ELSE [pack EXCEPT !.events = @ \o [i \in 1 .. Len(s) |-> AsEvent(s[i])],
                                  !.next = upto + 1]
  BY DEF ExportPage
<1>. HIDE DEF upto
<1>5. rows \in [Chains -> SUBSET Rows] /\ Chain \in Chains /\ Head_seq(Chain) \in Int
  BY <1>1, ChainIsThere, HeadType, CheckpointerParameters DEF RootInv, CpInv, CpTypeOK
<1>6. s \in Seq(Rows) /\ \A i \in 1 .. Len(s) : s[i] \in rows[Chain]
  <2>1. s \in Seq(Rows)
    BY <1>5, AnswerType
  <2>2. \A i \in 1 .. Len(s) : s[i] \in Between(Chain, pack.next, upto)
    BY <1>5, AnswerFacts
  <2>. QED
    BY <2>1, <2>2 DEF Between
<1>. DEFINE new == [i \in 1 .. Len(s) |-> AsEvent(s[i])]
            all == pack.events \o new
<1>7. /\ new \in Seq(Exported) /\ Len(new) = Len(s)
      /\ \A i \in 1 .. Len(s) : new[i] = AsEvent(s[i])
  <2>1. ASSUME NEW row \in Rows PROVE AsEvent(row) \in Exported
    BY CheckpointerParameters DEF AsEvent, Exported, Rows, Hashes, Pairs
  <2>. QED
    BY <1>6, <2>1
<1>8. ASSUME NEW i \in 1 .. Len(s) PROVE FromRow(AsEvent(s[i]))
  BY <1>6, <1>8, ChainIsThere DEF FromRow, AsEvent, EvInv, Linked, RootInv, RowsAlike
<1>. HIDE DEF new
<1>9. /\ all \in Seq(Exported) /\ Len(all) = Len(pack.events) + Len(s)
      /\ \A i \in 1 .. Len(all) :
           all[i] = IF i <= Len(pack.events) THEN pack.events[i] ELSE new[i - Len(pack.events)]
  <2>1. pack.events \in Seq(Exported)
    BY <1>1 DEF Packs
  <2>2. new \in Seq(Exported)
    BY <1>7
  <2>3. /\ all \in Seq(Exported) /\ Len(all) = Len(pack.events) + Len(new)
        /\ \A i \in 1 .. Len(all) :
             all[i] = IF i <= Len(pack.events) THEN pack.events[i] ELSE new[i - Len(pack.events)]
    BY <2>1, <2>2, Concat
  <2>. HIDE DEF all
  <2>. QED
    BY <1>7, <2>3
<1>. HIDE DEF all
<1>10. /\ pack'.from = pack.from /\ pack'.to = pack.to /\ pack'.explicit = pack.explicit
       /\ pack'.manifest = pack.manifest /\ pack'.browser = pack.browser
       /\ pack'.fetched = pack.fetched /\ pack'.checkpoints = pack.checkpoints
       /\ pack'.keys = pack.keys /\ pack'.damage = <<>>
       /\ \/ pack'.stage = "ended" /\ pack'.events = pack.events /\ pack'.next = pack.next
          \/ pack'.stage = "page" /\ pack'.events = all /\ pack'.next = upto + 1
  BY <1>1, <1>4 DEF Packs, all, new
<1>11. pack' \in Packs
  <2>1. upto + 1 \in Nat
    BY <1>3
  <2>2. pack' = [pack EXCEPT !.stage = "ended"]
        \/ pack' = [pack EXCEPT !.events = all, !.next = upto + 1]
    BY <1>4 DEF all, new
  <2>3. CASE pack' = [pack EXCEPT !.stage = "ended"]
    BY <1>1, <2>3 DEF Packs
  <2>4. CASE pack' = [pack EXCEPT !.events = all, !.next = upto + 1]
    <3>1. all \in Seq(Exported)
      BY <1>9
    <3>. HIDE DEF upto
    <3>. QED
      BY <1>1, <2>1, <2>4, <3>1 DEF Packs
  <2>. QED
    BY <2>2, <2>3, <2>4
<1>12. RangeKnown'
  <2>1. Anchor' = Anchor
    BY <1>10 DEF Anchor, Anchored_from_manifest
  <2>2. (Broken' <=> Broken) /\ Head_seq(Chain)' = Head_seq(Chain)
    BY <1>1, SameSystem
  <2>3. pack'.next \in pack.from .. pack.to + 1
    BY <1>2, <1>3, <1>10
  <2>. QED
    BY <1>1, <1>10, <2>1, <2>2, <2>3 DEF EvInv, RangeKnown
<1>13. EventsKnown'
  <2>1. (Broken' <=> Broken) /\ \A e : FromRow(e)' <=> FromRow(e)
    BY <1>1, SameSystem
  <2>2. ASSUME NEW i \in 1 .. Len(pack'.events) PROVE FromRow(pack'.events[i])
    <3>1. \A j \in 1 .. Len(pack.events) : FromRow(pack.events[j])
      BY DEF EvInv, EventsKnown
    <3>2. CASE pack'.events = all
      <4>1. CASE i <= Len(pack.events)
        <5>1. i \in 1 .. Len(all) /\ all[i] = pack.events[i]
          BY <1>9, <2>2, <3>2, <4>1
        <5>2. Len(pack.events) \in Nat
          BY <1>1 DEF Packs
        <5>3. i \in 1 .. Len(pack.events)
          BY <4>1, <5>1, <5>2
        <5>. QED
          BY <3>1, <3>2, <5>1, <5>3
      <4>2. CASE ~ (i <= Len(pack.events))
        <5>1. i - Len(pack.events) \in 1 .. Len(s) /\ all[i] = new[i - Len(pack.events)]
          BY <1>1, <1>6, <1>9, <2>2, <3>2, <4>2 DEF Packs
        <5>. QED
          BY <1>7, <1>8, <3>2, <5>1
      <4>. QED
        BY <4>1, <4>2
    <3>. QED
      BY <1>10, <2>2, <3>1, <3>2
  <2>3. ASSUME ~ Broken PROVE AllBut(0)'
    <3>1. AllBut(0)
      BY <1>1, <2>3 DEF EvInv, EventsKnown
    <3>2. CASE pack'.events = pack.events /\ pack'.next = pack.next
      BY <1>10, <3>1, <3>2 DEF AllBut
    <3>3. CASE pack'.events = all /\ pack'.next = upto + 1
      <4>1. /\ Len(s) = upto - pack.next + 1
            /\ \A i \in 1 .. Len(s) : AsEvent(s[i]) = Event(pack.next + i - 1)
        <5>1. upto <= Head_seq(Chain) /\ pack.next \in 1 .. upto
          BY <1>2, <1>3, <1>5
        <5>2. RootInv /\ Linked /\ upto \in Nat /\ s \in InOrder(Between(Chain, pack.next, upto))
          BY <1>1, <1>3
        <5>. HIDE DEF upto
        <5>. QED
          BY <2>3, <5>1, <5>2, RangeOf
      <4>2. /\ Len(pack.events) = pack.next - pack.from
            /\ \A i \in 1 .. Len(pack.events) : pack.events[i] = Event(pack.from + i - 1)
        BY <3>1 DEF AllBut
      <4>3. Len(all) = upto + 1 - pack.from
        <5>1. Len(all) = pack.next - pack.from + (upto - pack.next + 1)
          BY <1>9, <4>1, <4>2
        <5>. QED
          BY <1>2, <1>3, <5>1
      <4>4. ASSUME NEW i \in 1 .. Len(all) PROVE all[i] = Event(pack.from + i - 1)
        <5>1. CASE i <= Len(pack.events)
          <6>1. Len(pack.events) \in Nat
            BY <1>1 DEF Packs
          <6>2. i \in 1 .. Len(pack.events) /\ all[i] = pack.events[i]
            BY <1>9, <5>1, <6>1
          <6>. QED
            BY <4>2, <6>2
        <5>2. CASE ~ (i <= Len(pack.events))
          <6>1. i - Len(pack.events) \in 1 .. Len(s) /\ all[i] = new[i - Len(pack.events)]
            BY <1>1, <1>6, <1>9, <5>2 DEF Packs
          <6>2. pack.next + (i - Len(pack.events)) - 1 = pack.from + i - 1
            BY <1>2, <4>2
          <6>3. all[i] = Event(pack.next + (i - Len(pack.events)) - 1)
            BY <1>7, <4>1, <6>1
          <6>. QED
            BY <6>2, <6>3
        <5>. QED
          BY <5>1, <5>2
      <4>5. \A i \in 1 .. Len(all) : i # 0
        OBVIOUS
      <4>6. /\ pack'.events = all /\ pack'.next = upto + 1 /\ pack'.from = pack.from
        BY <1>10, <3>3
      <4>7. \A i \in 1 .. Len(pack'.events) :
              pack'.events[i] = IF i = 0 THEN Edit(Event(pack'.from + i - 1))
                                ELSE Event(pack'.from + i - 1)
        BY <4>4, <4>5, <4>6
      <4>8. Len(pack'.events) = pack'.next - pack'.from
        BY <1>2, <1>3, <4>3, <4>6
      <4>. QED
        BY <4>7, <4>8 DEF AllBut, Edit, Event
    <3>. QED
      BY <1>10, <3>2, <3>3
  <2>. QED
    BY <1>10, <2>1, <2>2, <2>3 DEF EventsKnown
<1>14. Counted'
  BY <1>10 DEF Counted
<1>15. SealsKnown'
  <2>1. CheckpointsOf(Chain)' = CheckpointsOf(Chain)
    BY <1>1, SameSystem
  <2>. QED
    BY <1>1, <1>10, <2>1 DEF EvInv, SealsKnown, Sealed, Suffered
<1>. QED
  BY <1>1, <1>11, <1>12, <1>13, <1>14, <1>15, RootedStill DEF EvInv

LEMMA CutKeeps ==
  ASSUME EvInv, ExportCut
  PROVE  EvInv'
<1>1. /\ pack \in Packs /\ pack.stage = "page" /\ pack.damage = <<>>
      /\ pack' = [pack EXCEPT !.stage = "ended"]
  BY DEF EvInv, ExportCut, EventsKnown
<1>2. Reads
  BY FaultType DEF EvInv, RootInv, ExportCut, Reads
<1>3. /\ pack'.stage = "ended" /\ pack'.from = pack.from /\ pack'.to = pack.to
      /\ pack'.next = pack.next /\ pack'.explicit = pack.explicit
      /\ pack'.manifest = pack.manifest /\ pack'.browser = pack.browser
      /\ pack'.fetched = pack.fetched /\ pack'.checkpoints = pack.checkpoints
      /\ pack'.keys = pack.keys /\ pack'.damage = pack.damage /\ pack'.events = pack.events
      /\ pack' \in Packs
  BY <1>1 DEF Packs
<1>4. /\ Broken' <=> Broken
      /\ Head_seq(Chain)' = Head_seq(Chain)
      /\ CheckpointsOf(Chain)' = CheckpointsOf(Chain)
      /\ \A e : FromRow(e)' <=> FromRow(e)
  BY <1>2, SameSystem
<1>5. Anchor' = Anchor /\ (AllBut(0)' <=> AllBut(0))
  BY <1>3 DEF Anchor, Anchored_from_manifest, AllBut
<1>6. RangeKnown'
  BY <1>1, <1>3, <1>4, <1>5 DEF EvInv, RangeKnown
<1>7. EventsKnown'
  BY <1>1, <1>3, <1>4, <1>5, Unharmed DEF EvInv, EventsKnown
<1>8. Counted'
  BY <1>3 DEF Counted
<1>9. SealsKnown'
  BY <1>1, <1>3, <1>4 DEF EvInv, SealsKnown, Sealed, Suffered
<1>. QED
  BY <1>2, <1>3, <1>6, <1>7, <1>8, <1>9, RootedStill DEF EvInv

\* The checkpoints, or the keys, come to be in the pack.
LEMMA FetchKeeps ==
  ASSUME EvInv, UNCHANGED cpVars, pack.stage # "done",
         NEW what \in SUBSET {"checkpoints", "keys"},
         NEW seals \in SUBSET Seals, NEW keys \in SUBSET Keys,
         pack' = [pack EXCEPT !.fetched = what, !.checkpoints = seals, !.keys = keys],
         SealsKnown'
  PROVE  EvInv'
<1>1. pack \in Packs /\ Reads
  BY DEF EvInv, Reads
<1>2. /\ pack'.stage = pack.stage /\ pack'.from = pack.from /\ pack'.to = pack.to
      /\ pack'.next = pack.next /\ pack'.explicit = pack.explicit
      /\ pack'.manifest = pack.manifest /\ pack'.browser = pack.browser
      /\ pack'.damage = pack.damage /\ pack'.events = pack.events
      /\ pack' \in Packs
  BY <1>1 DEF Packs
<1>3. /\ Broken' <=> Broken
      /\ Head_seq(Chain)' = Head_seq(Chain)
      /\ \A e : FromRow(e)' <=> FromRow(e)
  BY <1>1, SameSystem
<1>4. Anchor' = Anchor /\ \A j : AllBut(j)' <=> AllBut(j)
  BY <1>2 DEF Anchor, Anchored_from_manifest, AllBut
<1>5. RangeKnown'
  BY <1>2, <1>3, <1>4 DEF EvInv, RangeKnown
<1>6. EventsKnown'
  BY <1>2, <1>3, <1>4 DEF EvInv, EventsKnown
<1>7. Counted'
  BY <1>2 DEF Counted
<1>. QED
  BY <1>1, <1>2, <1>5, <1>6, <1>7, RootedStill DEF EvInv

LEMMA FetchCheckpointsKeeps ==
  ASSUME EvInv, FetchCheckpoints
  PROVE  EvInv'
<1>. DEFINE what == pack.fetched \union {"checkpoints"}
            seals == {Sealed(k) : k \in CheckpointsOf(Chain)}
<1>1. /\ pack \in Packs /\ UNCHANGED cpVars /\ pack.stage # "done"
      /\ "checkpoints" \notin pack.fetched
      /\ pack' = [pack EXCEPT !.fetched = what, !.checkpoints = seals]
  BY DEF EvInv, FetchCheckpoints
<1>2. what \in SUBSET {"checkpoints", "keys"}
  BY <1>1 DEF Packs
<1>3. seals \in SUBSET Seals
  <2>1. checkpoints \in SUBSET Checkpoints
    BY DEF EvInv, RootInv, CpInv, CpTypeOK
  <2>2. ASSUME NEW k \in Checkpoints PROVE Sealed(k) \in Seals
    BY CheckpointerParameters DEF Sealed, Seals, Checkpoints
  <2>. QED
    BY <2>1, <2>2 DEF CheckpointsOf
<1>4. CheckpointsOf(Chain)' = CheckpointsOf(Chain)
  BY <1>1, SameSystem DEF Reads
<1>5. /\ pack'.checkpoints = seals /\ pack'.fetched = what /\ pack'.browser = pack.browser
      /\ pack'.stage = pack.stage /\ pack'.keys = pack.keys
      /\ pack' = [pack EXCEPT !.fetched = what, !.checkpoints = seals, !.keys = pack.keys]
  BY <1>1 DEF Packs
<1>6. ~ pack.browser => "keys" \notin pack.fetched
  BY <1>1 DEF EvInv, SealsKnown
<1>7. SealsKnown'
  <2>1. ASSUME NEW k \in seals
        PROVE  (\E c \in CheckpointsOf(Chain) : k = Sealed(c)) /\ k.intact
    BY DEF Sealed
  <2>2. "keys" \in what <=> "keys" \in pack.fetched
    OBVIOUS
  <2>. HIDE DEF seals
  <2>. QED
    BY <1>1, <1>4, <1>5, <1>6, <2>1, <2>2 DEF SealsKnown, Sealed
<1>8. pack.keys \in SUBSET Keys
  BY <1>1 DEF Packs
<1>. HIDE DEF what, seals
<1>. QED
  BY <1>1, <1>2, <1>3, <1>5, <1>7, <1>8, FetchKeeps

LEMMA FetchKeysKeeps ==
  ASSUME EvInv, FetchKeys
  PROVE  EvInv'
<1>. DEFINE what == pack.fetched \union {"keys"}
            keys == {k.key : k \in signingKeys}
<1>1. /\ pack \in Packs /\ UNCHANGED cpVars /\ pack.stage # "done"
      /\ pack.browser \/ "checkpoints" \in pack.fetched
      /\ pack' = [pack EXCEPT !.fetched = what, !.keys = keys]
  BY DEF EvInv, FetchKeys
<1>2. what \in SUBSET {"checkpoints", "keys"} /\ pack.checkpoints \in SUBSET Seals
  BY <1>1 DEF Packs
<1>3. keys \in SUBSET Keys
  BY DEF EvInv, RootInv, CpInv, CpTypeOK, Windows
<1>4. CheckpointsOf(Chain)' = CheckpointsOf(Chain)
  BY <1>1, SameSystem DEF Reads
<1>5. /\ pack'.checkpoints = pack.checkpoints /\ pack'.fetched = what
      /\ pack'.browser = pack.browser /\ pack'.damage = pack.damage
      /\ pack'.stage = pack.stage /\ pack'.keys = keys
      /\ pack' = [pack EXCEPT !.fetched = what, !.checkpoints = pack.checkpoints, !.keys = keys]
  BY <1>1 DEF Packs
<1>6. ASSUME NEW k \in pack.checkpoints PROVE k.key \in keys
  <2>1. ~ Suffered("signature")
    BY <1>1, Unharmed DEF EvInv, EventsKnown
  <2>2. PICK c \in CheckpointsOf(Chain) : k = Sealed(c)
    BY <2>1 DEF EvInv, SealsKnown
  <2>3. k.key = c.key /\ c \in checkpoints
    BY <2>2 DEF Sealed, CheckpointsOf
  <2>4. PICK w \in signingKeys : w.key = c.key
    BY <2>3 DEF EvInv, RootInv, CpInv, KeyPublished
  <2>. QED
    BY <2>3, <2>4
<1>. HIDE DEF keys
<1>7. SealsKnown'
  <2>1. /\ \A k \in pack.checkpoints :
             /\ k.intact => \E c \in CheckpointsOf(Chain) : k = Sealed(c)
             /\ ~ Suffered("signature") => k.intact
    BY DEF EvInv, SealsKnown
  <2>2. "keys" \in what /\ (~ pack.browser => "checkpoints" \in what)
    BY <1>1
  <2>. QED
    BY <1>1, <1>4, <1>5, <1>6, <2>1, <2>2 DEF SealsKnown, Sealed, Suffered
<1>. HIDE DEF what
<1>. QED
  BY <1>1, <1>2, <1>3, <1>5, <1>7, FetchKeeps

LEMMA AssembleKeeps ==
  ASSUME EvInv, Assemble
  PROVE  EvInv'
<1>. DEFINE ends == IF pack.browser /\ pack.events # <<>>
                      THEN <<Head(pack.events).seq, LastSeq>> ELSE <<0, 0>>
<1>1. /\ pack \in Packs /\ pack.stage # "done" /\ pack.damage = <<>> /\ UNCHANGED cpVars /\ Reads
      /\ Ended /\ pack.stage # "head" /\ pack.fetched = {"checkpoints", "keys"}
      /\ pack' = [pack EXCEPT !.stage = "done", !.manifest.from = ends[1], !.manifest.to = ends[2]]
  BY DEF EvInv, Assemble, AllFetched, EventsKnown, Ended, Reads
<1>2. ends[1] \in Nat /\ ends[2] \in Nat
  <2>1. ASSUME pack.events # <<>>
        PROVE  Head(pack.events).seq \in Nat /\ LastSeq \in Nat
    <3>1. pack.events \in Seq(Exported) /\ Len(pack.events) >= 1
      BY <1>1, <2>1 DEF Packs
    <3>2. pack.events[1] \in Exported /\ pack.events[Len(pack.events)] \in Exported
      BY <3>1
    <3>. QED
      BY <2>1, <3>1, <3>2 DEF LastSeq, Last, Exported
  <2>. QED
    BY <2>1
<1>3. /\ pack'.stage = "done" /\ pack'.from = pack.from /\ pack'.to = pack.to
      /\ pack'.next = pack.next /\ pack'.explicit = pack.explicit
      /\ pack'.manifest.prev = pack.manifest.prev /\ pack'.browser = pack.browser
      /\ pack'.manifest.from = ends[1] /\ pack'.manifest.to = ends[2]
      /\ pack'.fetched = pack.fetched /\ pack'.checkpoints = pack.checkpoints
      /\ pack'.keys = pack.keys /\ pack'.damage = pack.damage /\ pack'.events = pack.events
  BY <1>1 DEF Packs
<1>4. pack' \in Packs
  BY <1>1, <1>2 DEF Packs
<1>5. /\ Broken' <=> Broken
      /\ Head_seq(Chain)' = Head_seq(Chain)
      /\ CheckpointsOf(Chain)' = CheckpointsOf(Chain)
      /\ \A e : FromRow(e)' <=> FromRow(e)
  BY <1>1, SameSystem
<1>6. Anchor' = Anchor /\ (AllBut(0)' <=> AllBut(0))
  BY <1>3 DEF Anchor, Anchored_from_manifest, AllBut
<1>7. RangeKnown'
  BY <1>1, <1>3, <1>5, <1>6 DEF EvInv, RangeKnown
<1>8. EventsKnown'
  <2>1. (\A i \in 1 .. Len(pack.events) : FromRow(pack.events[i]))'
    BY <1>1, <1>3, <1>5 DEF EvInv, EventsKnown
  <2>2. ~ Broken' => AllBut(0)'
    BY <1>1, <1>5, <1>6 DEF EvInv, EventsKnown
  <2>3. pack'.damage # <<"edited">>
    <3>1. Len(<<"edited">>) = 1 /\ Len(pack'.damage) = 0
      BY <1>1, <1>3
    <3>. QED
      BY <3>1
  <2>. QED
    BY <1>3, <2>1, <2>2, <2>3 DEF EventsKnown
<1>9. Counted'
  <2>. SUFFICES ASSUME pack.browser, ~ Broken
                PROVE  /\ ends[2] = pack.next - 1
                       /\ ends[1] = 0 => pack.next = 1
                       /\ Len(pack.events) = pack.next - 1
    BY <1>1, <1>3, <1>5, Unharmed DEF Counted, Suffered
  <2>1. pack.from = 1 /\ pack.next \in Nat /\ Len(pack.events) \in Nat /\ pack.next >= 1
    BY <1>1 DEF EvInv, RangeKnown, Packs
  <2>2. /\ Len(pack.events) = pack.next - pack.from
        /\ \A i \in 1 .. Len(pack.events) : pack.events[i] = Event(pack.from + i - 1)
    BY <1>1 DEF EvInv, EventsKnown, AllBut
  <2>3. Len(pack.events) = pack.next - 1
    BY <2>1, <2>2
  <2>4. CASE pack.events = <<>>
    BY <2>1, <2>3, <2>4
  <2>5. CASE pack.events # <<>>
    <3>1. Len(pack.events) >= 1 /\ pack.events \in Seq(Exported)
      BY <1>1, <2>5 DEF Packs
    <3>2. Head(pack.events) = pack.events[1] /\ LastSeq = pack.events[Len(pack.events)].seq
      BY <2>5, <3>1 DEF LastSeq, Last
    <3>3. ASSUME NEW i \in 1 .. Len(pack.events) PROVE pack.events[i].seq = i
      <4>1. pack.from + i - 1 = i
        BY <2>1
      <4>2. pack.events[i] = Event(i)
        BY <2>2, <4>1
      <4>. QED
        BY <4>2 DEF Event
    <3>4. 1 \in 1 .. Len(pack.events) /\ Len(pack.events) \in 1 .. Len(pack.events)
      BY <2>1, <3>1
    <3>5. pack.events[1].seq = 1 /\ pack.events[Len(pack.events)].seq = Len(pack.events)
      BY <3>3, <3>4
    <3>. QED
      BY <2>1, <2>3, <2>5, <3>2, <3>5
  <2>. QED
    BY <2>4, <2>5
<1>10. SealsKnown'
  BY <1>1, <1>3, <1>5 DEF EvInv, SealsKnown, Sealed, Suffered
<1>. QED
  BY <1>1, <1>4, <1>7, <1>8, <1>9, <1>10, RootedStill DEF EvInv

-----------------------------------------------------------------------------
(* Damage *)

\* What damage leaves of an event, but for its contents.
Alike(x, e) ==
  /\ x.seq = e.seq /\ x.prev = e.prev /\ (x.hash = e.hash \/ x.hash = Other(e.hash))
  /\ x.computed = e.computed \/ x.computed = Other(e.hash)

\* An event that was made up, with a place in the file.
Forged(x) == x.prev[1] = x.seq - 1 /\ x.hash[1] = x.seq /\ x.computed[2] = 3

LEMMA AlikeFromRow ==
  ASSUME NEW e, NEW x, FromRow(e), Alike(x, e)
  PROVE  FromRow(x)
<1>1. Other(e.hash)[1] = e.hash[1] /\ Other(e.hash)[2] = 3
  BY DEF Other
<1>2. x.prev[1] = x.seq - 1 /\ x.hash[1] = x.seq
  BY <1>1 DEF Alike, FromRow
<1>3. ASSUME x.computed[2] # 3
      PROVE  \E row \in rows[Chain] : row.hash = x.computed /\ row.seq = x.seq /\ row.prev = x.prev
  BY <1>1, <1>3 DEF Alike, FromRow
<1>. QED
  BY <1>2, <1>3 DEF FromRow

LEMMA RelinkedIs ==
  ASSUME pack \in Packs, Anchor \in Pairs, NEW i \in DOMAIN pack.events
  PROVE  /\ Relinked(pack.events, i) \in Seq(Exported)
         /\ Len(Relinked(pack.events, i)) = Len(pack.events)
         /\ \A j \in 1 .. Len(pack.events) :
              \/ Relinked(pack.events, i)[j] = pack.events[j]
              \/ Forged(Relinked(pack.events, i)[j])
<1>. DEFINE s == pack.events
            before == IF i = 1 THEN Anchor ELSE s[i - 1].hash
            place(j) == before[1] + 1 + j - i
            link(j) == IF j = i THEN before ELSE <<place(j) - 1, 3>>
            x(j) == [seq |-> place(j), hash |-> <<place(j), 3>>, prev |-> link(j),
                     computed |-> <<place(j), 3>>, known |-> TRUE]
            new == [j \in DOMAIN s |-> IF j < i THEN s[j] ELSE x(j)]
<1>1. /\ s \in Seq(Exported) /\ Len(s) \in Nat /\ DOMAIN s = 1 .. Len(s) /\ i \in 1 .. Len(s)
      /\ \A j \in 1 .. Len(s) : s[j] \in Exported
  BY DEF Packs
<1>2. before \in Pairs
  BY <1>1 DEF Exported
<1>3. PICK a \in Nat, b \in Nat : before = <<a, b>>
  BY <1>2 DEF Pairs
<1>4. ASSUME NEW j \in 1 .. Len(s), ~ (j < i) PROVE x(j) \in Exported /\ Forged(x(j))
  <2>1. place(j) = a + 1 + j - i /\ place(j) \in Nat \ {0}
    BY <1>1, <1>3, <1>4
  <2>2. PICK q \in Nat \ {0} : q = place(j)
    BY <2>1
  <2>3. PICK l : l = link(j)
    OBVIOUS
  <2>4. l \in Pairs /\ l[1] = q - 1
    <3>1. CASE j = i
      <4>1. q = a + 1
        BY <1>1, <2>1, <2>2, <3>1
      <4>. QED
        BY <1>2, <1>3, <2>3, <3>1, <4>1
    <3>2. CASE j # i
      <4>1. l = <<q - 1, 3>> /\ q - 1 \in Nat
        BY <2>2, <2>3, <3>2
      <4>. QED
        BY <4>1 DEF Pairs
    <3>. QED
      BY <3>1, <3>2
  <2>5. x(j) = [seq |-> q, hash |-> <<q, 3>>, prev |-> l, computed |-> <<q, 3>>, known |-> TRUE]
    BY <2>2, <2>3
  <2>6. <<q, 3>> \in Pairs
    BY DEF Pairs
  <2>. HIDE DEF x
  <2>. QED
    BY <2>4, <2>5, <2>6 DEF Exported, Forged
<1>5. Relinked(s, i) = new
  BY DEF Relinked
<1>. HIDE DEF x
<1>6. new \in Seq(Exported) /\ Len(new) = Len(s)
  BY <1>1, <1>4
<1>7. \A j \in 1 .. Len(s) : new[j] = s[j] \/ Forged(new[j])
  BY <1>1, <1>4
<1>. QED
  BY <1>5, <1>6, <1>7

LEMMA Removed ==
  ASSUME NEW S, NEW s \in Seq(S), NEW i \in DOMAIN s
  PROVE  /\ RemoveAt(s, i) \in Seq(S) /\ Len(RemoveAt(s, i)) = Len(s) - 1
         /\ \A j \in 1 .. Len(RemoveAt(s, i)) : \E l \in 1 .. Len(s) : RemoveAt(s, i)[j] = s[l]
<1>. DEFINE a == SubSeq(s, 1, i - 1)
            b == SubSeq(s, i + 1, Len(s))
<1>1. i \in 1 .. Len(s) /\ Len(s) \in Nat
  OBVIOUS
<1>2. a \in Seq(S) /\ Len(a) = i - 1 /\ \A j \in 1 .. i - 1 : a[j] = s[j]
  BY <1>1
<1>3. b \in Seq(S) /\ Len(b) = Len(s) - i /\ \A j \in 1 .. Len(s) - i : b[j] = s[i + j]
  BY <1>1
<1>. HIDE DEF a, b
<1>4. /\ a \o b \in Seq(S) /\ Len(a \o b) = Len(s) - 1
      /\ \A j \in 1 .. Len(a \o b) : (a \o b)[j] = IF j <= Len(a) THEN a[j] ELSE b[j - Len(a)]
  <2>1. /\ a \o b \in Seq(S) /\ Len(a \o b) = Len(a) + Len(b)
        /\ \A j \in 1 .. Len(a \o b) : (a \o b)[j] = IF j <= Len(a) THEN a[j] ELSE b[j - Len(a)]
    BY <1>2, <1>3, Concat
  <2>2. Len(a) + Len(b) = Len(s) - 1
    BY <1>1, <1>2, <1>3
  <2>. QED
    BY <2>1, <2>2
<1>5. ASSUME NEW j \in 1 .. Len(a \o b) PROVE \E l \in 1 .. Len(s) : (a \o b)[j] = s[l]
  <2>1. CASE j <= i - 1
    BY <1>1, <1>2, <1>4, <2>1
  <2>2. CASE ~ (j <= i - 1)
    <3>1. j - (i - 1) \in 1 .. Len(s) - i /\ i + (j - (i - 1)) \in 1 .. Len(s)
      BY <1>1, <1>4, <2>2
    <3>2. (a \o b)[j] = b[j - (i - 1)]
      BY <1>2, <1>4, <2>2
    <3>. QED
      BY <1>3, <3>1, <3>2
  <2>. QED
    BY <2>1, <2>2
<1>6. RemoveAt(s, i) = a \o b
  BY DEF RemoveAt, a, b
<1>. QED
  BY <1>4, <1>5, <1>6

LEMMA Inserted ==
  ASSUME NEW S, NEW s \in Seq(S), NEW i \in DOMAIN s
  PROVE  /\ InsertAt(s, i, s[i]) \in Seq(S)
         /\ \A j \in 1 .. Len(InsertAt(s, i, s[i])) :
              \E l \in 1 .. Len(s) : InsertAt(s, i, s[i])[j] = s[l]
<1>. DEFINE a == SubSeq(s, 1, i - 1)
            b == SubSeq(s, i, Len(s))
            e == <<s[i]>>
<1>1. i \in 1 .. Len(s) /\ Len(s) \in Nat
  OBVIOUS
<1>2. a \in Seq(S) /\ Len(a) = i - 1 /\ \A j \in 1 .. i - 1 : a[j] = s[j]
  BY <1>1
<1>3. b \in Seq(S) /\ Len(b) = Len(s) - i + 1 /\ \A j \in 1 .. Len(s) - i + 1 : b[j] = s[i + j - 1]
  BY <1>1
<1>4. e \in Seq(S) /\ Len(e) = 1 /\ e[1] = s[i]
  OBVIOUS
<1>. HIDE DEF a, b, e
<1>5. /\ a \o e \in Seq(S) /\ Len(a \o e) = i
      /\ \A j \in 1 .. i : (a \o e)[j] = IF j <= i - 1 THEN a[j] ELSE e[j - (i - 1)]
  <2>1. /\ a \o e \in Seq(S) /\ Len(a \o e) = Len(a) + Len(e)
        /\ \A j \in 1 .. Len(a \o e) : (a \o e)[j] = IF j <= Len(a) THEN a[j] ELSE e[j - Len(a)]
    BY <1>2, <1>4, Concat
  <2>2. Len(a) + Len(e) = i
    BY <1>1, <1>2, <1>4
  <2>. QED
    BY <1>2, <2>1, <2>2
<1>. DEFINE c == a \o e
<1>6. ASSUME NEW j \in 1 .. i PROVE \E l \in 1 .. Len(s) : c[j] = s[l]
  <2>1. CASE j <= i - 1
    <3>1. c[j] = s[j] /\ j \in 1 .. Len(s)
      BY <1>1, <1>2, <1>5, <2>1
    <3>. QED
      BY <3>1
  <2>2. CASE ~ (j <= i - 1)
    <3>1. j - (i - 1) = 1
      BY <1>1, <2>2
    <3>2. c[j] = s[i]
      BY <1>4, <1>5, <2>2, <3>1
    <3>. QED
      BY <1>1, <3>2
  <2>. QED
    BY <2>1, <2>2
<1>7. c \in Seq(S) /\ Len(c) = i
  BY <1>5
<1>. HIDE DEF c
<1>8. /\ c \o b \in Seq(S) /\ Len(c \o b) = Len(s) + 1
      /\ \A j \in 1 .. Len(c \o b) : (c \o b)[j] = IF j <= Len(c) THEN c[j] ELSE b[j - Len(c)]
  <2>1. /\ c \o b \in Seq(S) /\ Len(c \o b) = Len(c) + Len(b)
        /\ \A j \in 1 .. Len(c \o b) : (c \o b)[j] = IF j <= Len(c) THEN c[j] ELSE b[j - Len(c)]
    BY <1>3, <1>7, Concat
  <2>2. Len(c) + Len(b) = Len(s) + 1
    BY <1>1, <1>3, <1>7
  <2>. QED
    BY <2>1, <2>2
<1>9. ASSUME NEW j \in 1 .. Len(c \o b) PROVE \E l \in 1 .. Len(s) : (c \o b)[j] = s[l]
  <2>1. CASE j <= i
    <3>1. j \in 1 .. i /\ (c \o b)[j] = c[j]
      BY <1>1, <1>7, <1>8, <2>1
    <3>. QED
      BY <1>6, <3>1
  <2>2. CASE ~ (j <= i)
    <3>1. j - i \in 1 .. Len(s) - i + 1 /\ i + (j - i) - 1 \in 1 .. Len(s)
      BY <1>1, <1>8, <2>2
    <3>2. (c \o b)[j] = b[j - i]
      BY <1>7, <1>8, <2>2
    <3>. QED
      BY <1>3, <3>1, <3>2
  <2>. QED
    BY <2>1, <2>2
<1>10. InsertAt(s, i, s[i]) = c \o b
  BY DEF InsertAt, a, b, c, e
<1>. QED
  BY <1>8, <1>9, <1>10

\* What a kind of damage makes of the events and of the checkpoints.
Tampers(kind, events, seals) ==
  /\ events \in Seq(Exported) /\ seals \in SUBSET Seals
  /\ \A j \in 1 .. Len(events) :
       Forged(events[j]) \/ \E i \in 1 .. Len(pack.events) : Alike(events[j], pack.events[i])
  /\ kind = "lost" => Len(events) = Len(pack.events) - 1
  /\ kind \notin {"lost", "twice"} => Len(events) = Len(pack.events)
  /\ kind = "edited" =>
       \E i \in 1 .. Len(pack.events) :
         events = [pack.events EXCEPT ![i] = [@ EXCEPT !.computed = Other(pack.events[i].hash)]]
  /\ kind # "signature" => seals = pack.checkpoints
  /\ \A k \in seals : k.intact => k \in pack.checkpoints
  /\ \A k \in seals : \E l \in pack.checkpoints : k.key = l.key

With(events, seals) == [pack EXCEPT !.events = events, !.checkpoints = seals]

LEMMA DamageTampers ==
  ASSUME pack \in Packs, Anchor \in Pairs, NEW kind, NEW p \in Damaged(kind)
  PROVE  \E events, seals : Tampers(kind, events, seals) /\ p = With(events, seals)
<1>. DEFINE s == pack.events
<1>1. /\ s \in Seq(Exported) /\ pack.checkpoints \in SUBSET Seals /\ Len(s) \in Nat
      /\ DOMAIN s = 1 .. Len(s) /\ \A i \in 1 .. Len(s) : s[i] \in Exported
  BY DEF Packs
<1>2. ASSUME NEW events, p = [pack EXCEPT !.events = events], kind # "signature",
             events \in Seq(Exported),
             \A j \in 1 .. Len(events) :
               Forged(events[j]) \/ \E i \in 1 .. Len(s) : Alike(events[j], s[i]),
             kind = "lost" => Len(events) = Len(s) - 1,
             kind \notin {"lost", "twice"} => Len(events) = Len(s),
             kind = "edited" =>
               \E i \in 1 .. Len(s) :
                 events = [s EXCEPT ![i] = [@ EXCEPT !.computed = Other(s[i].hash)]]
      PROVE  \E e, seals : Tampers(kind, e, seals) /\ p = With(e, seals)
  <2>1. Tampers(kind, events, pack.checkpoints)
    BY <1>1, <1>2 DEF Tampers
  <2>2. p = With(events, pack.checkpoints)
    BY <1>2 DEF Packs, With
  <2>. QED
    BY <2>1, <2>2
<1>3. ASSUME NEW x \in Exported
      PROVE  Alike(x, x) /\ Other(x.hash) \in Pairs
  BY DEF Alike, Other, Exported, Pairs
<1>4. CASE kind = "lost"
  <2>1. PICK i \in DOMAIN s : p = [pack EXCEPT !.events = RemoveAt(s, i)]
    BY <1>4 DEF Damaged
  <2>2. /\ RemoveAt(s, i) \in Seq(Exported) /\ Len(RemoveAt(s, i)) = Len(s) - 1
        /\ \A j \in 1 .. Len(RemoveAt(s, i)) : \E l \in 1 .. Len(s) : RemoveAt(s, i)[j] = s[l]
    BY <1>1, Removed
  <2>. QED
    BY <1>1, <1>2, <1>3, <1>4, <2>1, <2>2
<1>5. CASE kind = "twice"
  <2>1. PICK i \in DOMAIN s : p = [pack EXCEPT !.events = InsertAt(s, i, s[i])]
    BY <1>5 DEF Damaged
  <2>2. /\ InsertAt(s, i, s[i]) \in Seq(Exported)
        /\ \A j \in 1 .. Len(InsertAt(s, i, s[i])) :
             \E l \in 1 .. Len(s) : InsertAt(s, i, s[i])[j] = s[l]
    BY <1>1, Inserted
  <2>. QED
    BY <1>1, <1>2, <1>3, <1>5, <2>1, <2>2
<1>6. CASE kind = "swapped"
  <2>1. PICK i \in 1 .. Len(s) - 1 : p = [pack EXCEPT !.events = Swapped(s, i)]
    BY <1>6 DEF Damaged
  <2>2. i \in 1 .. Len(s) /\ i + 1 \in 1 .. Len(s)
    BY <1>1
  <2>3. /\ Swapped(s, i) \in Seq(Exported) /\ Len(Swapped(s, i)) = Len(s)
        /\ \A j \in 1 .. Len(s) : \E l \in 1 .. Len(s) : Swapped(s, i)[j] = s[l]
    BY <1>1, <2>2 DEF Swapped
  <2>. QED
    BY <1>1, <1>2, <1>3, <1>6, <2>1, <2>3
<1>7. CASE kind = "edited"
  <2>1. PICK i \in DOMAIN s : p = [pack EXCEPT !.events[i].computed = Other(s[i].hash)]
    BY <1>7 DEF Damaged
  <2>. DEFINE x == [s[i] EXCEPT !.computed = Other(s[i].hash)]
              events == [s EXCEPT ![i] = x]
  <2>2. i \in 1 .. Len(s) /\ s[i] \in Exported /\ x \in Exported /\ Alike(x, s[i])
    BY <1>1, <1>3 DEF Exported, Alike
  <2>3. p = [pack EXCEPT !.events = events]
    BY <2>1
  <2>4. events = [s EXCEPT ![i] = [@ EXCEPT !.computed = Other(s[i].hash)]]
    OBVIOUS
  <2>. HIDE DEF x
  <2>5. events \in Seq(Exported) /\ Len(events) = Len(s)
    BY <1>1, <2>2
  <2>6. \A j \in 1 .. Len(s) : Alike(events[j], s[j])
    BY <1>1, <1>3, <2>2
  <2>. HIDE DEF events
  <2>. QED
    BY <1>1, <1>2, <1>7, <2>2, <2>3, <2>4, <2>5, <2>6
<1>8. CASE kind = "resealed"
  <2>1. PICK i \in DOMAIN s :
          p = [pack EXCEPT !.events[i].computed = Other(s[i].hash),
                           !.events[i].hash = Other(s[i].hash)]
    BY <1>8 DEF Damaged
  <2>. DEFINE x == [s[i] EXCEPT !.computed = Other(s[i].hash), !.hash = Other(s[i].hash)]
              events == [s EXCEPT ![i] = x]
  <2>2. i \in 1 .. Len(s) /\ s[i] \in Exported /\ x \in Exported /\ Alike(x, s[i])
    BY <1>1, <1>3 DEF Exported, Alike
  <2>3. p = [pack EXCEPT !.events = events]
    BY <1>1, <2>1, <2>2 DEF Packs
  <2>. HIDE DEF x
  <2>5. events \in Seq(Exported) /\ Len(events) = Len(s)
    BY <1>1, <2>2
  <2>6. \A j \in 1 .. Len(s) : Alike(events[j], s[j])
    BY <1>1, <1>3, <2>2
  <2>. HIDE DEF events
  <2>. QED
    BY <1>1, <1>2, <1>8, <2>2, <2>3, <2>5, <2>6
<1>9. CASE kind = "rules"
  <2>1. PICK i \in DOMAIN s :
          p = [pack EXCEPT !.events = [j \in DOMAIN s |-> IF j < i THEN s[j] ELSE
                 [s[j] EXCEPT !.known = FALSE, !.computed = Other(s[j].hash)]]]
    BY <1>9 DEF Damaged
  <2>. DEFINE x(j) == [s[j] EXCEPT !.known = FALSE, !.computed = Other(s[j].hash)]
              events == [j \in DOMAIN s |-> IF j < i THEN s[j] ELSE x(j)]
  <2>2. ASSUME NEW j \in 1 .. Len(s) PROVE x(j) \in Exported /\ Alike(x(j), s[j])
    BY <1>1, <1>3 DEF Exported, Alike
  <2>3. p = [pack EXCEPT !.events = events]
    BY <2>1
  <2>. HIDE DEF x
  <2>5. events \in Seq(Exported) /\ Len(events) = Len(s)
    BY <1>1, <2>2
  <2>6. \A j \in 1 .. Len(s) : Alike(events[j], s[j])
    BY <1>1, <1>3, <2>2
  <2>. HIDE DEF events
  <2>. QED
    BY <1>1, <1>2, <1>9, <2>3, <2>5, <2>6
<1>10. CASE kind = "signature"
  <2>1. PICK k \in pack.checkpoints :
          p = [pack EXCEPT !.checkpoints = (@ \ {k}) \union {[k EXCEPT !.intact = FALSE]}]
    BY <1>10 DEF Damaged
  <2>. DEFINE x == [k EXCEPT !.intact = FALSE]
              seals == (pack.checkpoints \ {k}) \union {x}
  <2>2. k \in Seals /\ x \in Seals /\ x.key = k.key /\ ~ x.intact
    BY <1>1 DEF Seals
  <2>3. p = With(s, seals)
    BY <2>1 DEF Packs, With
  <2>. HIDE DEF x
  <2>4. /\ seals \in SUBSET Seals
        /\ \A l \in seals : l.intact => l \in pack.checkpoints
        /\ \A l \in seals : \E m \in pack.checkpoints : l.key = m.key
    BY <1>1, <2>2
  <2>. HIDE DEF seals
  <2>5. Tampers(kind, s, seals)
    BY <1>1, <1>3, <1>10, <2>4 DEF Tampers
  <2>. QED
    BY <2>3, <2>5
<1>11. CASE kind = "relinked"
  <2>1. PICK i \in DOMAIN s : p = [pack EXCEPT !.events = Relinked(s, i)]
    BY <1>11 DEF Damaged
  <2>2. /\ Relinked(s, i) \in Seq(Exported) /\ Len(Relinked(s, i)) = Len(s)
        /\ \A j \in 1 .. Len(s) : Relinked(s, i)[j] = s[j] \/ Forged(Relinked(s, i)[j])
    BY RelinkedIs
  <2>. QED
    BY <1>1, <1>2, <1>3, <1>11, <2>1, <2>2
<1>12. CASE kind \notin {"lost", "twice", "swapped", "edited", "resealed", "relinked", "rules",
                        "signature"}
  <2>1. p = pack
    BY <1>12 DEF Damaged
  <2>2. p = [pack EXCEPT !.events = s]
    BY <2>1 DEF Packs
  <2>. QED
    BY <1>1, <1>2, <1>3, <1>12, <2>2
<1>. QED
  BY <1>4, <1>5, <1>6, <1>7, <1>8, <1>9, <1>10, <1>11, <1>12

LEMMA DamageKeeps ==
  ASSUME EvInv, Damage
  PROVE  EvInv'
<1>1. /\ pack \in Packs /\ pack.stage = "done" /\ UNCHANGED cpVars /\ Reads /\ RootInv
  BY DEF EvInv, Damage, Reads
<1>13. Anchor \in Pairs
  BY <1>1 DEF EvInv, RangeKnown
<1>0. PICK kind \in Damages :
        \E p \in Damaged(kind) : pack' = [p EXCEPT !.damage = Append(@, kind)]
  BY DEF Damage
<1>2. PICK p \in Damaged(kind) : pack' = [p EXCEPT !.damage = Append(@, kind)]
  BY <1>0
<1>3. PICK events, seals : Tampers(kind, events, seals) /\ p = With(events, seals)
  BY <1>1, <1>13, DamageTampers
<1>4. /\ pack'.stage = "done" /\ pack'.from = pack.from /\ pack'.to = pack.to
      /\ pack'.next = pack.next /\ pack'.explicit = pack.explicit
      /\ pack'.manifest = pack.manifest /\ pack'.browser = pack.browser
      /\ pack'.fetched = pack.fetched /\ pack'.keys = pack.keys
      /\ pack'.events = events /\ pack'.checkpoints = seals
      /\ pack'.damage = Append(pack.damage, kind)
  BY <1>1, <1>2, <1>3 DEF Packs, With
<1>14. /\ Append(pack.damage, kind) \in Seq(Damages) /\ Append(pack.damage, kind) # <<>>
       /\ Append(pack.damage, kind) = <<"edited">> => kind = "edited" /\ pack.damage = <<>>
       /\ \A other : Suffered(other)' <=> (Suffered(other) \/ other = kind)
  <2>1. pack.damage \in Seq(Damages) /\ Len(pack.damage) \in Nat
    BY <1>1 DEF Packs
  <2>2. PICK d : d = Append(pack.damage, kind)
    OBVIOUS
  <2>3. /\ d \in Seq(Damages) /\ Len(d) = Len(pack.damage) + 1 /\ d[Len(d)] = kind
        /\ \A i \in 1 .. Len(pack.damage) : d[i] = pack.damage[i]
    BY <2>1, <2>2
  <2>4. DOMAIN d = 1 .. Len(pack.damage) + 1 /\ DOMAIN pack.damage = 1 .. Len(pack.damage)
    BY <2>1, <2>3
  <2>5. Range(d) = Range(pack.damage) \union {kind}
    BY <2>1, <2>3, <2>4 DEF Range
  <2>6. d = <<"edited">> => Len(pack.damage) = 0 /\ kind = "edited"
    BY <2>1, <2>3
  <2>7. Len(pack.damage) = 0 => pack.damage = <<>>
    BY <2>1
  <2>8. d # <<>>
    BY <2>1, <2>3
  <2>. QED
    BY <1>4, <2>2, <2>3, <2>5, <2>6, <2>7, <2>8 DEF Suffered
<1>5. pack' \in Packs
  BY <1>0, <1>1, <1>2, <1>3, <1>14 DEF Packs, Tampers, With
<1>6. /\ Broken' <=> Broken
      /\ Head_seq(Chain)' = Head_seq(Chain)
      /\ CheckpointsOf(Chain)' = CheckpointsOf(Chain)
      /\ \A e : FromRow(e)' <=> FromRow(e)
  BY <1>1, SameSystem
<1>7. RangeKnown'
  <2>1. Anchor' = Anchor
    BY <1>4 DEF Anchor, Anchored_from_manifest
  <2>. QED
    BY <1>1, <1>4, <1>6, <2>1 DEF EvInv, RangeKnown
<1>8. EventsKnown'
  <2>1. ASSUME NEW j \in 1 .. Len(events) PROVE FromRow(events[j])
    <3>1. CASE Forged(events[j])
      BY <3>1 DEF Forged, FromRow
    <3>2. ASSUME NEW i \in 1 .. Len(pack.events), Alike(events[j], pack.events[i])
          PROVE  FromRow(events[j])
      <4>1. FromRow(pack.events[i])
        BY DEF EvInv, EventsKnown
      <4>. QED
        BY <3>2, <4>1, AlikeFromRow
    <3>. QED
      BY <1>3, <2>1, <3>1, <3>2 DEF Tampers
  <2>2. ASSUME ~ Broken, Append(pack.damage, kind) = <<"edited">>
        PROVE  \E j \in 1 .. Len(events) : AllBut(j)'
    <3>1. kind = "edited" /\ pack.damage = <<>>
      BY <1>14, <2>2
    <3>2. /\ Len(pack.events) = pack.next - pack.from
          /\ \A i \in 1 .. Len(pack.events) : pack.events[i] = Event(pack.from + i - 1)
      BY <1>1, <2>2, <3>1 DEF EvInv, EventsKnown, AllBut
    <3>3. PICK j \in 1 .. Len(pack.events) :
            events = [pack.events EXCEPT ![j] = [@ EXCEPT !.computed = Other(pack.events[j].hash)]]
      BY <1>3, <3>1 DEF Tampers
    <3>4. Len(events) = Len(pack.events) /\ DOMAIN pack.events = 1 .. Len(pack.events)
      BY <1>1, <1>3, <3>1 DEF Tampers, Packs
    <3>5. ASSUME NEW i \in 1 .. Len(events), i # j PROVE events[i] = Event(pack.from + i - 1)
      BY <3>2, <3>3, <3>4, <3>5
    <3>6. events[j] = Edit(Event(pack.from + j - 1))
      <4>1. events[j] = [pack.events[j] EXCEPT !.computed = Other(pack.events[j].hash)]
        BY <3>3, <3>4
      <4>2. pack.events[j] = Event(pack.from + j - 1)
        BY <3>2
      <4>. QED
        BY <4>1, <4>2 DEF Event, Edit, Other
    <3>7. \A i \in 1 .. Len(pack'.events) :
            pack'.events[i] = IF i = j THEN Edit(Event(pack'.from + i - 1))
                              ELSE Event(pack'.from + i - 1)
      BY <1>4, <3>5, <3>6
    <3>8. Len(pack'.events) = pack'.next - pack'.from
      BY <1>1, <1>4, <3>2, <3>4 DEF Packs
    <3>. QED
      BY <3>4, <3>7, <3>8 DEF AllBut, Edit, Event
  <2>. QED
    BY <1>4, <1>6, <1>14, <2>1, <2>2 DEF EventsKnown
<1>9. Counted'
  <2>. SUFFICES ASSUME pack.browser, ~ Broken
                PROVE  /\ pack.manifest.to = pack.next - 1
                       /\ pack.manifest.from = 0 => pack.next = 1
                       /\ ~ (Suffered("twice") \/ kind = "twice") =>
                            Len(events) <= pack.next - 1
                              - (IF Suffered("lost") \/ kind = "lost" THEN 1 ELSE 0)
    BY <1>4, <1>6, <1>14 DEF Counted
  <2>1. /\ pack.manifest.to = pack.next - 1
        /\ pack.manifest.from = 0 => pack.next = 1
        /\ ~ Suffered("twice") =>
             Len(pack.events) <= pack.next - 1 - (IF Suffered("lost") THEN 1 ELSE 0)
    BY <1>1 DEF EvInv, Counted
  <2>2. Len(pack.events) \in Nat /\ pack.next \in Nat
    BY <1>1 DEF Packs
  <2>3. CASE kind = "lost"
    <3>1. Len(events) = Len(pack.events) - 1
      BY <1>3, <2>3 DEF Tampers
    <3>. QED
      BY <2>1, <2>2, <2>3, <3>1
  <2>4. CASE kind \notin {"lost", "twice"}
    <3>1. Len(events) = Len(pack.events)
      BY <1>3, <2>4 DEF Tampers
    <3>. QED
      BY <2>1, <2>4, <3>1
  <2>. QED
    BY <2>1, <2>3, <2>4
<1>10. SealsKnown'
  <2>1. /\ \A k \in seals : k.intact => \E c \in CheckpointsOf(Chain) : k = Sealed(c)
        /\ kind # "signature" => seals = pack.checkpoints
        /\ \A k \in seals : \E l \in pack.checkpoints : k.key = l.key
    BY <1>3 DEF EvInv, SealsKnown, Tampers
  <2>2. /\ ~ Suffered("signature") => \A k \in pack.checkpoints : k.intact
        /\ ~ pack.browser /\ "keys" \in pack.fetched =>
             \A k \in pack.checkpoints : k.key \in pack.keys
        /\ ~ pack.browser /\ "keys" \in pack.fetched => "checkpoints" \in pack.fetched
        /\ "keys" \in pack.fetched
    BY <1>1 DEF EvInv, SealsKnown
  <2>. QED
    BY <1>4, <1>6, <1>14, <2>1, <2>2 DEF SealsKnown, Sealed
<1>. QED
  BY <1>1, <1>5, <1>7, <1>8, <1>9, <1>10, RootedStill DEF EvInv

-----------------------------------------------------------------------------
(* The invariant *)

LEMMA EvInitially == EvInit => EvInv
<1>. SUFFICES ASSUME EvInit PROVE EvInv
  OBVIOUS
<1>1. PICK up, keyOf, active :
        /\ up \in SUBSET Replicas \ {{}} /\ keyOf \in [up -> Keys] /\ active \in Range(keyOf)
        /\ replica = [r \in Replicas |->
             IF r \in up THEN [Down EXCEPT !.pc = "idle", !.key = keyOf[r]] ELSE Down]
        /\ signingKeys = {[key |-> k, from |-> 0, to |-> IF k = active THEN Open ELSE 0] :
                            k \in Range(keyOf)}
        /\ file = IF up = Replicas THEN active ELSE NoKey
  BY DEF EvInit
<1>2. /\ rows = [c \in Chains |-> {}] /\ checkpoints = {} /\ now = 0 /\ faults = 0
      /\ \E browser \in BOOLEAN : pack = [NoPack EXCEPT !.browser = browser]
  BY DEF EvInit
<1>3. Range(keyOf) \subseteq Keys /\ active \in Keys /\ \A r \in up : keyOf[r] \in Range(keyOf)
  BY <1>1 DEF Range
<1>4. ASSUME NEW r \in Replicas
      PROVE  /\ replica[r] \in ReplicaStates
             /\ replica[r].pc \in {"idle", "down"} /\ replica[r].time = 0
             /\ replica[r].pc = "idle" => replica[r].key \in Range(keyOf)
  <2>0. /\ "idle" \in Pcs /\ "down" \in Pcs /\ 0 \in Times /\ 0 \in 0 .. MaxSeq
        /\ {} \in SUBSET Chains /\ <<>> \in Seq(Hashes)
    BY CheckpointerParameters DEF Pcs, Times
  <2>1. CASE r \in up
    <3>1. replica[r] = [Down EXCEPT !.pc = "idle", !.key = keyOf[r]] /\ keyOf[r] \in Range(keyOf)
      BY <1>1, <1>3, <2>1
    <3>2. /\ replica[r].pc = "idle" /\ replica[r].key = keyOf[r] /\ replica[r].time = 0
          /\ replica[r] = [pc |-> "idle", key |-> keyOf[r], time |-> 0, closing |-> NoKey,
                           walk |-> {}, chain |-> NoChain, head |-> 0, from |-> 0,
                           leaves |-> <<>>]
      BY <3>1 DEF Down
    <3>3. keyOf[r] \in Keys
      BY <1>3, <3>1
    <3>4. replica[r] \in ReplicaStates
      BY <2>0, <3>2, <3>3 DEF ReplicaStates
    <3>. QED
      BY <3>1, <3>2, <3>4
  <2>2. CASE r \notin up
    <3>1. replica[r] = Down
      BY <1>1, <2>2
    <3>. QED
      BY <2>0, <3>1 DEF Down, ReplicaStates
  <2>. QED
    BY <2>1, <2>2
<1>5. ASSUME NEW w \in signingKeys
      PROVE  /\ w \in Windows /\ w.from = 0 /\ w.key \in Range(keyOf)
             /\ w.to = IF w.key = active THEN Open ELSE 0
             /\ w = [key |-> w.key, from |-> 0, to |-> w.to]
  <2>1. PICK k \in Range(keyOf) : w = [key |-> k, from |-> 0, to |-> IF k = active THEN Open ELSE 0]
    BY <1>1
  <2>2. 0 \in Times
    BY CheckpointerParameters DEF Times
  <2>. QED
    BY <1>3, <2>1, <2>2 DEF Windows
<1>6. ASSUME NEW k \in Range(keyOf)
      PROVE  \E w \in signingKeys : w.key = k
  <2>. DEFINE w == [key |-> k, from |-> 0, to |-> IF k = active THEN Open ELSE 0]
  <2>1. w \in signingKeys /\ w.key = k
    BY <1>1
  <2>. HIDE DEF w
  <2>. QED
    BY <2>1
<1>7. CpTypeOK
  <2>1. 0 \in Times /\ 0 \in 0 .. MaxFaults
    BY CheckpointerParameters DEF Times
  <2>2. replica \in [Replicas -> ReplicaStates]
    BY <1>1, <1>4
  <2>3. file \in Keys \union {NoKey}
    BY <1>1, <1>3
  <2>. QED
    BY <1>2, <1>5, <2>1, <2>2, <2>3 DEF CpTypeOK
<1>8. ASSUME NEW r \in Replicas PROVE ReplicaOK(replica[r])
  <2>1. replica[r].pc = "idle" => HasWindow(replica[r].key)
    BY <1>2, <1>4, <1>5, <1>6 DEF HasWindow
  <2>. QED
    BY <1>2, <1>3, <1>4, <2>1 DEF ReplicaOK, Working
<1>9. OneActive
  <2>. DEFINE a == [key |-> active, from |-> 0, to |-> Open]
  <2>1. a \in signingKeys
    BY <1>1
  <2>2. OpenKeys = {a}
    <3>1. a \in OpenKeys
      BY <2>1 DEF OpenKeys
    <3>2. ASSUME NEW w \in OpenKeys PROVE w = a
      <4>1. w \in signingKeys /\ w.to = Open
        BY DEF OpenKeys
      <4>2. w.key = active
        BY <1>5, <4>1 DEF Open
      <4>. QED
        BY <1>5, <4>1, <4>2
    <3>. QED
      BY <3>1, <3>2
  <2>3. ASSUME NEW w \in signingKeys \ OpenKeys PROVE w.key # a.key /\ a.from = w.to
    BY <1>5, <2>3 DEF OpenKeys
  <2>. QED
    BY <2>1, <2>2, <2>3 DEF OneActive
<1>10. CpInv
  BY <1>2, <1>5, <1>7, <1>8, <1>9 DEF CpInv, StartsWhereAnotherEnds, KeyPublished, KeysBegun
<1>11. RootInv
  <2>1. \A r \in Replicas : RangeOK(replica[r])
    BY <1>4 DEF RangeOK
  <2>. QED
    BY <1>2, <1>10, <2>1 DEF RootInv, RowsAlike
<1>12. Linked
  BY <1>2, ChainIsThere DEF Linked
<1>13. pack \in Packs
  <2>1. PICK browser \in BOOLEAN : pack = [NoPack EXCEPT !.browser = browser]
    BY <1>2
  <2>2. /\ Genesis \in Pairs /\ <<>> \in Seq(Exported) /\ {} \in SUBSET Seals /\ {} \in SUBSET Keys
        /\ {} \in SUBSET Damages /\ {} \in SUBSET {"checkpoints", "keys"}
    BY DEF Genesis, Pairs
  <2>3. [from |-> 0, to |-> 0, prev |-> NoHash]
          \in [from : Nat, to : Nat, prev : Pairs \union {NoHash}]
    OBVIOUS
  <2>4. pack = [stage |-> "head", browser |-> browser, fetched |-> {}, from |-> 1, to |-> 0,
                next |-> 1, explicit |-> Genesis, manifest |-> [from |-> 0, to |-> 0, prev |-> NoHash],
                events |-> <<>>, checkpoints |-> {}, keys |-> {}, damage |-> <<>>]
    BY <2>1 DEF NoPack
  <2>. QED
    BY <2>2, <2>3, <2>4 DEF Packs
<1>14. /\ pack.stage = "head" /\ pack.events = <<>> /\ pack.damage = <<>>
       /\ pack.checkpoints = {} /\ pack.fetched = {}
  BY <1>2 DEF NoPack
<1>15. RangeKnown /\ EventsKnown /\ Counted /\ SealsKnown
  BY <1>14 DEF RangeKnown, EventsKnown, Counted, SealsKnown
<1>. QED
  BY <1>11, <1>12, <1>13, <1>15 DEF EvInv

LEMMA EvStep == EvInv /\ [EvNext]_evVars => EvInv'
<1>. SUFFICES ASSUME EvInv, [EvNext]_evVars PROVE EvInv'
  OBVIOUS
<1>1. CASE UNCHANGED evVars
  <2>1. UNCHANGED cpVars /\ UNCHANGED pack
    BY <1>1 DEF evVars
  <2>2. RootInv' /\ Linked'
    BY <2>1, RootedStill DEF Reads
  <2>3. /\ Broken' <=> Broken
        /\ Head_seq(Chain)' = Head_seq(Chain)
        /\ CheckpointsOf(Chain)' = CheckpointsOf(Chain)
        /\ \A e : FromRow(e)' <=> FromRow(e)
    BY <2>1, SameSystem DEF Reads
  <2>4. Anchor' = Anchor /\ \A j : AllBut(j)' <=> AllBut(j)
    BY <2>1 DEF Anchor, Anchored_from_manifest, AllBut
  <2>5. pack' \in Packs /\ RangeKnown' /\ Counted'
    BY <2>1, <2>3, <2>4 DEF EvInv, RangeKnown, Counted, Suffered
  <2>6. EventsKnown'
    BY <2>1, <2>3, <2>4 DEF EvInv, EventsKnown
  <2>7. SealsKnown'
    BY <2>1, <2>3 DEF EvInv, SealsKnown, Sealed, Suffered
  <2>. QED
    BY <2>2, <2>5, <2>6, <2>7 DEF EvInv
<1>. QED
  BY <1>1, SystemKeeps, HeadKeeps, PageKeeps, CutKeeps, FetchCheckpointsKeeps, FetchKeysKeeps,
     AssembleKeeps, DamageKeeps
  DEF EvNext

LEMMA EvInvariant == EvSpec => []EvInv
  BY EvInitially, EvStep, PTL DEF EvSpec

-----------------------------------------------------------------------------
(* What the verifier sees *)

LEMMA First ==
  ASSUME NEW n \in Nat, NEW T, T \subseteq 1 .. n, T # {}
  PROVE  \E m \in T : \A t \in T : m <= t
<1>. DEFINE U == {n - t : t \in T}
<1>1. \A t \in T : t \in Int /\ n - t \in 0 .. n
  OBVIOUS
<1>2. U \subseteq 0 .. n /\ U # {}
  BY <1>1
<1>3. PICK u \in U : \A t \in U : t <= u
  BY <1>2, Greatest
<1>4. PICK m \in T : u = n - m
  OBVIOUS
<1>5. ASSUME NEW t \in T PROVE m <= t
  <2>1. n - t <= n - m /\ t \in Int /\ m \in Int
    BY <1>1, <1>3, <1>4
  <2>. QED
    BY <2>1
<1>. QED
  BY <1>5

\* Places that go up by one are those of a range.
LEMMA StepByStep ==
  ASSUME NEW n \in Nat, NEW a \in Nat, NEW f \in [1 .. n -> Nat],
         n >= 1 => f[1] = a, \A i \in 2 .. n : f[i] - 1 = f[i - 1]
  PROVE  \A i \in 1 .. n : f[i] = a + i - 1
<1>. DEFINE T == {i \in 1 .. n : f[i] # a + i - 1}
<1>. SUFFICES ASSUME T # {} PROVE FALSE
  OBVIOUS
<1>1. PICK m \in T : \A t \in T : m <= t
  BY First
<1>2. m \in 1 .. n /\ f[m] # a + m - 1 /\ f[m] \in Nat
  OBVIOUS
<1>3. m # 1
  BY <1>2
<1>4. m - 1 \in 1 .. n /\ m \in 2 .. n /\ ~ (m <= m - 1)
  BY <1>2, <1>3
<1>5. f[m - 1] = a + (m - 1) - 1
  BY <1>1, <1>4
<1>6. f[m] - 1 = f[m - 1]
  BY <1>4
<1>7. \A x \in Nat : x - 1 = a + (m - 1) - 1 => x = a + m - 1
  <2>1. m \in Int
    BY <1>2
  <2>. QED
    BY <2>1
<1>8. f[m] - 1 = a + (m - 1) - 1
  BY <1>5, <1>6
<1>. HIDE DEF T
<1>. QED
  BY <1>2, <1>7, <1>8

\* Of the events that a walk finds nothing about, each is at its place and links
\* to the one before it.
LEMMA CleanWalk ==
  ASSUME EvInv, pack.stage # "head", Is_clean(Anchor)
  PROVE  \A i \in 1 .. Len(pack.events) :
           /\ pack.events[i].seq = pack.from + i - 1
           /\ pack.events[i].known /\ pack.events[i].computed = pack.events[i].hash
           /\ i > 1 => pack.events[i].prev = pack.events[i - 1].hash
<1>. DEFINE s == pack.events
            f == [i \in 1 .. Len(s) |-> s[i].seq]
<1>1. /\ s \in Seq(Exported) /\ Len(s) \in Nat /\ DOMAIN s = 1 .. Len(s)
      /\ \A i \in 1 .. Len(s) : s[i] \in Exported
      /\ pack.from \in Nat
  BY DEF EvInv, Packs
<1>2. ASSUME NEW i \in 1 .. Len(s)
      PROVE  s[i].known /\ s[i].computed = s[i].hash /\ s[i].prev = Expected(Anchor, i)
  <2>1. /\ {<<j, "BrokenLink">> : j \in {l \in DOMAIN s : s[l].prev # Expected(Anchor, l)}} = {}
        /\ {<<j, "HashMismatch">> :
              j \in {l \in DOMAIN s : s[l].known /\ s[l].computed # s[l].hash}} = {}
        /\ {<<j, "UnknownCanonVersion">> : j \in {l \in DOMAIN s : ~ s[l].known}} = {}
    BY DEF Is_clean, Violations
  <2>2. s[i].known
    BY <1>1, <2>1
  <2>3. s[i].computed = s[i].hash
    BY <1>1, <2>1, <2>2
  <2>4. s[i].prev = Expected(Anchor, i)
    BY <1>1, <2>1
  <2>. QED
    BY <2>2, <2>3, <2>4
<1>3. ASSUME NEW i \in 1 .. Len(s)
      PROVE  s[i].prev[1] = s[i].seq - 1 /\ s[i].hash[1] = s[i].seq
  BY DEF EvInv, EventsKnown, FromRow
<1>4. Anchor[1] = pack.from - 1 /\ pack.from \in Nat \ {0}
  BY <1>1 DEF EvInv, RangeKnown
<1>5. f \in [1 .. Len(s) -> Nat] /\ \A i \in 1 .. Len(s) : f[i] = s[i].seq
  BY <1>1 DEF Exported
<1>6. Len(s) >= 1 => f[1] = pack.from
  <2>. SUFFICES ASSUME Len(s) >= 1 PROVE f[1] = pack.from
    OBVIOUS
  <2>1. 1 \in 1 .. Len(s)
    BY <1>1
  <2>2. s[1].prev = Anchor
    BY <1>2, <2>1 DEF Expected
  <2>3. s[1].seq - 1 = pack.from - 1 /\ s[1].seq \in Nat
    BY <1>3, <1>4, <1>5, <2>1, <2>2
  <2>. QED
    BY <1>4, <1>5, <2>1, <2>3
<1>7. ASSUME NEW i \in 2 .. Len(s)
      PROVE  s[i].prev = s[i - 1].hash /\ f[i] - 1 = f[i - 1]
  <2>1. i \in 1 .. Len(s) /\ i - 1 \in 1 .. Len(s) /\ i # 1
    BY <1>1
  <2>2. s[i].prev = s[i - 1].hash
    BY <1>2, <2>1 DEF Expected
  <2>3. s[i].seq - 1 = s[i - 1].seq
    BY <1>3, <2>1, <2>2
  <2>. QED
    BY <1>5, <2>1, <2>2, <2>3
<1>. HIDE DEF f
<1>8. \A i \in 1 .. Len(s) : f[i] = pack.from + i - 1
  BY <1>1, <1>5, <1>6, <1>7, StepByStep
<1>9. ASSUME NEW i \in 1 .. Len(s), i > 1 PROVE i \in 2 .. Len(s)
  BY <1>1, <1>9
<1>. QED
  BY <1>2, <1>5, <1>7, <1>8, <1>9

\* The index of the event at place x in a range that begins at a.
LEMMA IndexOf ==
  ASSUME NEW a \in Int, NEW m \in Int, NEW x \in Int, a <= x, x <= a + m - 1
  PROVE  x - a + 1 \in 1 .. m /\ a + (x - a + 1) - 1 = x
OBVIOUS

\* What the recomputed hashes say of a place is what some event there says.
LEMMA BySeqOf ==
  ASSUME pack.events \in Seq(Exported), NEW q \in DOMAIN By_seq
  PROVE  \E i \in 1 .. Len(pack.events) :
           pack.events[i].seq = q /\ By_seq[q] = pack.events[i].computed
<1>. DEFINE s == pack.events
            T == {i \in DOMAIN s : s[i].seq = q}
            Latest(i) == s[i].seq = q /\ \A j \in DOMAIN s : s[j].seq = q => j <= i
<1>1. DOMAIN s = 1 .. Len(s) /\ Len(s) \in Nat
  OBVIOUS
<1>2. q \in {s[i].seq : i \in DOMAIN s}
  BY DEF By_seq
<1>3. T \subseteq 0 .. Len(s) /\ T # {}
  BY <1>1, <1>2
<1>4. PICK m \in T : \A t \in T : t <= m
  BY <1>1, <1>3, Greatest
<1>5. m \in DOMAIN s /\ Latest(m)
  BY <1>4
<1>6. By_seq[q] = s[CHOOSE i \in DOMAIN s : Latest(i)].computed
  BY <1>2 DEF By_seq
<1>7. PICK l \in DOMAIN s : l = (CHOOSE i \in DOMAIN s : Latest(i)) /\ Latest(l)
  <2>. HIDE DEF Latest, T
  <2>. QED
    BY <1>5
<1>. QED
  BY <1>1, <1>6, <1>7

\* A chain with one row for each place was broken in neither way.
LEMMA WholeIsSound ==
  ASSUME RootInv, Linked, Whole(Chain)
  PROVE  ~ Broken
<1>. DEFINE R == rows[Chain]
            f == [row \in R |-> row.seq]
<1>1. /\ rows \in [Chains -> SUBSET Rows] /\ Chain \in Chains /\ Head_seq(Chain) \in 0 .. MaxSeq
      /\ Seqs(Chain) = 1 .. Head_seq(Chain) /\ Cardinality(R) = Head_seq(Chain)
  BY ChainIsThere, HeadType DEF RootInv, CpInv, CpTypeOK, Whole
<1>2. ~ Gapped(Chain)
  BY <1>1 DEF Gapped
<1>3. IsFiniteSet(R)
  <2>1. R = Between(Chain, 0, MaxSeq)
    BY <1>1, CheckpointerParameters DEF Between, Rows
  <2>. QED
    BY <1>1, <2>1, RangeFinite
<1>4. f \in Surjection(R, Seqs(Chain))
  BY DEF Seqs, Surjection
<1>5. Cardinality(Seqs(Chain)) = Head_seq(Chain)
  <2>1. Head_seq(Chain) \in Nat /\ 1 \in Int
    BY <1>1, CheckpointerParameters
  <2>. QED
    BY <1>1, <2>1, FS_Interval
<1>6. f \in Injection(R, Seqs(Chain))
  <2>. HIDE DEF R, f
  <2>. QED
    BY <1>1, <1>3, <1>4, <1>5, FS_SurjSameCardinalityImpliesInj
<1>7. ASSUME NEW row \in R, row.hash[2] = 2 PROVE FALSE
  <2>1. PICK x \in R : x.seq = row.seq /\ x.hash[2] = 1
    BY DEF Linked
  <2>2. f[x] = f[row]
    BY <2>1
  <2>3. x = row
    BY <1>6, <2>2 DEF Injection, IsInjective
  <2>. QED
    BY <1>7, <2>1, <2>3
<1>. QED
  BY <1>2, <1>7 DEF Broken, Doubled

\* A sealed checkpoint has a leaf for each place of its range, which no
\* tampering can make.
LEMMA SealsAreOld ==
  ASSUME EvInv, NEW k \in pack.checkpoints, k.intact
  PROVE  /\ k.from \in Nat /\ k.to \in Nat
         /\ Len(k.leaves) = k.to - k.from + 1
         /\ \A i \in 1 .. k.to - k.from + 1 : k.leaves[i] \in Hashes
         /\ ~ Broken => \A i \in 1 .. k.to - k.from + 1 : k.leaves[i] = <<k.from + i - 1, 1>>
<1>1. PICK c \in CheckpointsOf(Chain) : k = Sealed(c)
  BY DEF EvInv, SealsKnown
<1>2. c \in Checkpoints /\ RootOK(c) /\ c.chain = Chain
  BY <1>1 DEF CheckpointsOf, EvInv, RootInv, CpInv, CpTypeOK
<1>3. k.from = c.from /\ k.to = c.to /\ k.leaves = c.leaves
  BY <1>1 DEF Sealed
<1>4. /\ k.from \in Nat /\ k.to \in Nat /\ k.leaves \in Seq(Hashes)
      /\ Len(k.leaves) = k.to - k.from + 1
  BY <1>2, <1>3, CheckpointerParameters DEF Checkpoints, RootOK
<1>5. ASSUME ~ Broken, NEW i \in 1 .. k.to - k.from + 1 PROVE k.leaves[i] = <<k.from + i - 1, 1>>
  <2>1. Covers(Chain, k.from, k.leaves)
    BY <1>2, <1>3, <1>5 DEF RootOK, BrokenTwice, Broken
  <2>2. PICK row \in rows[Chain] : row.hash = k.leaves[i] /\ row.seq = k.from + i - 1
    BY <1>4, <2>1 DEF Covers
  <2>3. row.hash[1] = row.seq /\ row.hash[2] # 2 /\ row.hash \in Hashes
    BY <1>5, ChainIsThere
    DEF EvInv, RootInv, CpInv, CpTypeOK, RowsAlike, Rows, Broken, Doubled
  <2>4. row.hash = <<row.seq, 1>>
    BY <2>3 DEF Hashes
  <2>. QED
    BY <2>2, <2>4
<1>. QED
  BY <1>4, <1>5

\* The last event of a pack that is clean stands at the end of its range.
LEMMA LastOf ==
  ASSUME EvInv, pack.stage # "head", Is_clean(Anchor), pack.events # <<>>
  PROVE  LastSeq = pack.from + Len(pack.events) - 1 /\ Head(pack.events).seq = pack.from
<1>1. Len(pack.events) \in Nat \ {0} /\ pack.from \in Nat
  BY DEF EvInv, Packs
<1>2. Len(pack.events) \in 1 .. Len(pack.events) /\ 1 \in 1 .. Len(pack.events)
  BY <1>1
<1>3. /\ pack.events[Len(pack.events)].seq = pack.from + Len(pack.events) - 1
      /\ pack.events[1].seq = pack.from + 1 - 1
  BY <1>2, CleanWalk
<1>4. Head(pack.events) = pack.events[1] /\ Last(pack.events) = pack.events[Len(pack.events)]
  BY DEF EvInv, Packs, Last
<1>. QED
  BY <1>1, <1>3, <1>4 DEF LastSeq

(* Of a clean walk, every event up to one whose contents are a row's is the row *)
(* at its place: each links to the hash of the one before.                  *)
LEMMA LinksVouch ==
  ASSUME EvInv, pack.stage # "head", Is_clean(Anchor),
         NEW m \in 1 .. Len(pack.events), pack.events[m].computed[2] # 3
  PROVE  \A i \in 1 .. m : \E row \in rows[Chain] : row.seq = pack.from + i - 1
                                                   /\ pack.events[i] = AsEvent(row)
<1>. DEFINE s == pack.events
            T == {i \in 1 .. m : s[i].computed[2] = 3}
<1>1. s \in Seq(Exported) /\ Len(s) \in Nat /\ m \in Nat
  BY DEF EvInv, Packs
<1>2. \A i \in 1 .. Len(s) : /\ s[i].seq = pack.from + i - 1 /\ s[i].known
                             /\ s[i].computed = s[i].hash
                             /\ i > 1 => s[i].prev = s[i - 1].hash
  BY CleanWalk
<1>3. ASSUME NEW i \in 1 .. m, s[i].computed[2] # 3
      PROVE  \E row \in rows[Chain] : /\ row.seq = pack.from + i - 1 /\ s[i] = AsEvent(row)
                                      /\ row.prev \in Hashes
  <2>1. i \in 1 .. Len(s) /\ s[i] \in Exported
    BY <1>1
  <2>2. PICK row \in rows[Chain] :
          row.hash = s[i].computed /\ row.seq = s[i].seq /\ row.prev = s[i].prev
    BY <1>3, <2>1 DEF EvInv, EventsKnown, FromRow
  <2>3. row.prev \in Hashes
    BY <2>2, ChainIsThere DEF EvInv, RootInv, CpInv, CpTypeOK, Rows
  <2>4. s[i].known /\ s[i].hash = s[i].computed /\ s[i].seq = pack.from + i - 1
    BY <1>2, <2>1
  <2>5. s[i] = [seq |-> s[i].seq, hash |-> s[i].hash, prev |-> s[i].prev,
                computed |-> s[i].computed, known |-> TRUE]
    BY <2>1, <2>4 DEF Exported
  <2>6. s[i] = AsEvent(row)
    BY <2>2, <2>4, <2>5 DEF AsEvent
  <2>. QED
    BY <2>2, <2>3, <2>4, <2>6
<1>4. ASSUME T # {} PROVE FALSE
  <2>1. T \subseteq 0 .. m
    BY <1>1
  <2>2. PICK g \in T : \A t \in T : t <= g
    BY <1>1, <1>4, <2>1, Greatest
  <2>3. g \in 1 .. m /\ s[g].computed[2] = 3 /\ g # m
    BY <2>2
  <2>4. g + 1 \in 1 .. m /\ g + 1 > 1 /\ ~ (g + 1 <= g) /\ g + 1 - 1 = g
        /\ g + 1 \in 1 .. Len(s) /\ g \in 1 .. Len(s)
    BY <1>1, <2>3
  <2>5. s[g + 1].computed[2] # 3
    BY <2>2, <2>4
  <2>6. PICK row \in rows[Chain] : s[g + 1] = AsEvent(row) /\ row.prev \in Hashes
    BY <1>3, <2>4, <2>5
  <2>7. s[g + 1].prev = s[g].computed
    BY <1>2, <2>4
  <2>8. s[g].computed \in Hashes
    BY <2>6, <2>7 DEF AsEvent
  <2>. QED
    BY <2>3, <2>8 DEF Hashes
<1>. QED
  BY <1>3, <1>4

(* A place of a checkpoint that is verified is that of an event whose contents *)
(* are a row's.                                                              *)
LEMMA VerifiedIsOld ==
  ASSUME EvInv, pack.stage # "head", Is_clean(Anchor), NEW q \in Attested
  PROVE  /\ q - pack.from + 1 \in 1 .. Len(pack.events)
         /\ pack.events[q - pack.from + 1].computed[2] # 3
<1>. DEFINE s == pack.events
<1>0. PICK k \in pack.checkpoints : q \in k.from .. k.to /\ Attest(k, pack.keys) = "Verified"
  BY DEF Attested, VerifiedRanges
<1>. DEFINE n == k.to - k.from + 1
            j == q - k.from + 1
<1>1. /\ k.intact /\ k.from .. k.to \subseteq DOMAIN By_seq
      /\ [i \in 1 .. n |-> By_seq[k.from + i - 1]] = k.leaves
  BY <1>0 DEF Attest
<1>2. /\ k.from \in Nat /\ k.to \in Nat /\ \A i \in 1 .. n : k.leaves[i] \in Hashes
  BY <1>1, SealsAreOld
<1>3. s \in Seq(Exported) /\ Len(s) \in Nat /\ pack.from \in Nat
  BY DEF EvInv, Packs
<1>4. j \in 1 .. n /\ k.from + j - 1 = q /\ q \in Int
  BY <1>0, <1>2
<1>5. By_seq[q] \in Hashes
  <2>1. k.leaves[j] = By_seq[k.from + j - 1]
    BY <1>1, <1>4
  <2>. QED
    BY <1>2, <1>4, <2>1
<1>6. PICK l \in 1 .. Len(s) : s[l].seq = q /\ By_seq[q] = s[l].computed
  BY <1>0, <1>1, <1>3, BySeqOf
<1>7. s[l].seq = pack.from + l - 1
  BY CleanWalk
<1>8. q - pack.from + 1 = l
  BY <1>3, <1>6, <1>7
<1>. QED
  BY <1>5, <1>6, <1>8 DEF Hashes

(* CleanMeansUnchanged: up to the last place a checkpoint vouches for, what *)
(* run_pack calls clean is the chain from where the pack starts, every row at *)
(* its place and as it was stored, whatever else was written anew; and the    *)
(* dashboard's pack of a whole chain that has lost a row is told by its header. *)
THEOREM CleanPackIsTheChain == EvSpec => []CleanMeansUnchanged
<1>1. ASSUME EvInv PROVE CleanMeansUnchanged
  <2>. SUFFICES ASSUME Done, Run_pack(pack.keys) = Clean PROVE CleanMeansUnchanged
    BY DEF CleanMeansUnchanged
  <2>. DEFINE s == pack.events
  <2>1. pack.stage = "done" /\ pack.stage # "head"
    BY DEF Done
  <2>2. Is_clean(Anchor)
    BY DEF Run_pack, Clean, CannotVerify, Violated
  <2>3. /\ s \in Seq(Exported) /\ Len(s) \in Nat /\ DOMAIN s = 1 .. Len(s) /\ pack.from \in Nat
        /\ pack.next \in Nat
    BY <1>1 DEF EvInv, Packs
  <2>4. ASSUME NEW q \in Attested, NEW i \in 1 .. q - pack.from + 1
        PROVE  \E row \in rows[Chain] : /\ row.seq = pack.from + i - 1
                                        /\ i \in DOMAIN s /\ s[i] = AsEvent(row)
    <3>1. PICK m \in 1 .. Len(s) : m = q - pack.from + 1 /\ s[m].computed[2] # 3
      BY <1>1, <2>1, <2>2, VerifiedIsOld
    <3>2. i \in 1 .. m /\ i \in DOMAIN s
      BY <2>3, <3>1
    <3>. QED
      BY <1>1, <2>1, <2>2, <3>1, <3>2, LinksVouch
  <2>5. ASSUME pack.browser, Whole(Chain), Suffered("lost"), ~ Suffered("twice")
        PROVE  (Print_pack_header \union Print_report) \intersect {"another range", "no events"} # {}
    <3>1. CASE s = <<>>
      BY <3>1 DEF Print_report
    <3>2. CASE s # <<>>
      <4>1. ~ Broken
        BY <1>1, <2>5, WholeIsSound DEF EvInv
      <4>2. /\ pack.manifest.to = pack.next - 1
            /\ pack.manifest.from = 0 => pack.next = 1
            /\ Len(s) <= pack.next - 1 - 1
        BY <1>1, <2>1, <2>5, <4>1 DEF EvInv, Counted
      <4>3. pack.from = 1 /\ LastSeq = pack.from + Len(s) - 1
        BY <1>1, <2>1, <2>2, <2>5, <3>2, LastOf DEF EvInv, RangeKnown
      <4>4. Len(s) # 0
        BY <2>3, <3>2
      <4>5. pack.manifest.from # 0 /\ pack.manifest.to # LastSeq
        BY <2>3, <4>2, <4>3, <4>4
      <4>6. "another range" \in Print_pack_header
        BY <3>2, <4>5 DEF Print_pack_header
      <4>. QED
        BY <4>6
    <3>. QED
      BY <3>1, <3>2
  <2>. QED
    BY <2>4, <2>5 DEF CleanMeansUnchanged
<1>. QED
  BY <1>1, EvInvariant, PTL

\* An event that was edited is as it was, but for what its contents hash to.
LEMMA EditOf ==
  ASSUME NEW q, NEW hash, NEW prev, NEW computed,
         NEW e, e = [seq |-> q, hash |-> hash, prev |-> prev, computed |-> computed, known |-> TRUE]
  PROVE  /\ Edit(e).seq = q /\ Edit(e).hash = hash /\ Edit(e).prev = prev /\ Edit(e).known
         /\ Edit(e).computed = <<q, 3>>
<1>1. PICK edited : edited = <<q, 3>>
  OBVIOUS
<1>2. Edit(e) = [e EXCEPT !.computed = edited]
  BY <1>1 DEF Edit
<1>. QED
  BY <1>1, <1>2

\* Of a pack whose events are those of the range the walk finds what was edited,
\* and nothing else.
LEMMA WalkFinds ==
  ASSUME EvInv, pack.stage # "head", ~ Broken, NEW j, AllBut(j)
  PROVE  Violations(Anchor) = {<<i, "HashMismatch">> : i \in {l \in DOMAIN pack.events : l = j}}
<1>. DEFINE s == pack.events
            step(i) == s[i].seq - s[i - 1].seq
<1>1. s \in Seq(Exported) /\ Len(s) \in Nat /\ DOMAIN s = 1 .. Len(s) /\ pack.from \in Nat
  BY DEF EvInv, Packs
<1>2. Anchor = <<pack.from - 1, 1>>
  BY DEF EvInv, RangeKnown, Pairs
<1>3. ASSUME NEW i \in 1 .. Len(s)
      PROVE  /\ s[i].seq = pack.from + i - 1 /\ s[i].known
             /\ s[i].hash = <<s[i].seq, 1>> /\ s[i].prev = <<s[i].seq - 1, 1>>
             /\ s[i].computed # s[i].hash <=> i = j
  <2>1. s[i] = IF i = j THEN Edit(Event(pack.from + i - 1)) ELSE Event(pack.from + i - 1)
    BY DEF AllBut
  <2>2. PICK q : q = pack.from + i - 1
    OBVIOUS
  <2>3. PICK p : p = <<q - 1, 1>>
    OBVIOUS
  <2>4. Event(q) = [seq |-> q, hash |-> <<q, 1>>, prev |-> p, computed |-> <<q, 1>>, known |-> TRUE]
    BY <2>3 DEF Event
  <2>5. /\ s[i].seq = q /\ s[i].known /\ s[i].hash = <<q, 1>> /\ s[i].prev = p
        /\ s[i].computed = IF i = j THEN <<q, 3>> ELSE <<q, 1>>
    <3>1. CASE i = j
      <4>1. s[i] = Edit(Event(q))
        BY <2>1, <2>2, <3>1
      <4>. QED
        BY <2>4, <3>1, <4>1, EditOf
    <3>2. CASE i # j
      BY <2>1, <2>2, <2>4, <3>2
    <3>. QED
      BY <3>1, <3>2
  <2>6. s[i].computed # s[i].hash <=> i = j
    BY <2>5
  <2>. QED
    BY <2>2, <2>3, <2>5, <2>6
<1>4. ASSUME NEW i \in 2 .. Len(s)
      PROVE  step(i) = 1 /\ s[i].prev = s[i - 1].hash
  <2>1. i \in 1 .. Len(s) /\ i - 1 \in 1 .. Len(s) /\ i \in Int /\ pack.from \in Int
    BY <1>1
  <2>2. /\ s[i].seq = pack.from + i - 1 /\ s[i - 1].seq = pack.from + (i - 1) - 1
        /\ s[i].prev = <<s[i].seq - 1, 1>> /\ s[i - 1].hash = <<s[i - 1].seq, 1>>
    BY <1>3, <2>1
  <2>3. s[i].seq - s[i - 1].seq = 1 /\ s[i].seq - 1 = s[i - 1].seq
    BY <2>1, <2>2
  <2>4. step(i) = 1
    BY <2>3
  <2>5. s[i].prev = s[i - 1].hash
    BY <2>2, <2>3
  <2>. QED
    BY <2>4, <2>5
<1>5. {i \in 2 .. Len(s) : step(i) = 0} = {} /\ {i \in 2 .. Len(s) : step(i) > 1} = {}
  BY <1>4
<1>6. ASSUME NEW i \in DOMAIN s PROVE s[i].prev = Expected(Anchor, i)
  <2>1. CASE i = 1
    <3>1. s[1].prev = <<s[1].seq - 1, 1>> /\ s[1].seq = pack.from + 1 - 1
      BY <1>1, <1>3, <2>1
    <3>2. s[1].seq - 1 = pack.from - 1
      BY <1>1, <3>1
    <3>. QED
      BY <1>2, <2>1, <3>1, <3>2 DEF Expected
  <2>2. CASE i # 1
    <3>1. i \in 2 .. Len(s)
      BY <1>1, <2>2
    <3>. QED
      BY <1>4, <2>2, <3>1 DEF Expected
  <2>. QED
    BY <2>1, <2>2
<1>7. /\ {i \in DOMAIN s : s[i].prev # Expected(Anchor, i)} = {}
      /\ {i \in DOMAIN s : ~ s[i].known} = {}
  BY <1>1, <1>3, <1>6
<1>8. {i \in DOMAIN s : s[i].known /\ s[i].computed # s[i].hash} = {i \in DOMAIN s : i = j}
  BY <1>1, <1>3
<1>9. Violations(Anchor) =
        {<<i, "Fork">> : i \in {l \in 2 .. Len(s) : step(l) = 0}}
          \union {<<i, "Gap">> : i \in {l \in 2 .. Len(s) : step(l) > 1}}
          \union {<<i, "BrokenLink">> : i \in {l \in DOMAIN s : s[l].prev # Expected(Anchor, l)}}
          \union {<<i, "HashMismatch">> :
                    i \in {l \in DOMAIN s : s[l].known /\ s[l].computed # s[l].hash}}
          \union {<<i, "UnknownCanonVersion">> : i \in {l \in DOMAIN s : ~ s[l].known}}
  BY DEF Violations
<1>. QED
  BY <1>5, <1>7, <1>8, <1>9

\* A checkpoint is verified by the rows that it was made of.
LEMMA SealsVerify ==
  ASSUME EvInv, pack.stage # "head", ~ Broken, AllBut(0),
         NEW k \in pack.checkpoints, k.intact, NEW trusted, k.key \in trusted
  PROVE  Attest(k, trusted) = IF k.from .. k.to \subseteq DOMAIN By_seq THEN "Verified"
                              ELSE "NotCoveredByPack"
<1>. DEFINE s == pack.events
            n == k.to - k.from + 1
<1>1. /\ s \in Seq(Exported) /\ Len(s) \in Nat /\ pack.from \in Nat /\ k.leaves \in Seq(Hashes)
  BY DEF EvInv, Packs, Seals
<1>2. /\ k.from \in Nat /\ k.to \in Nat /\ Len(k.leaves) = n
      /\ \A i \in 1 .. n : k.leaves[i] = <<k.from + i - 1, 1>>
  BY SealsAreOld
<1>3. ASSUME NEW q \in DOMAIN By_seq PROVE By_seq[q] = <<q, 1>>
  <2>1. PICK i \in 1 .. Len(s) : s[i].seq = q /\ By_seq[q] = s[i].computed
    BY <1>1, BySeqOf
  <2>2. s[i] = Event(pack.from + i - 1)
    BY <1>1 DEF AllBut
  <2>. QED
    BY <2>1, <2>2 DEF Event
<1>4. ASSUME k.from .. k.to \subseteq DOMAIN By_seq
      PROVE  [i \in 1 .. n |-> By_seq[k.from + i - 1]] = k.leaves
  <2>1. ASSUME NEW i \in 1 .. n PROVE By_seq[k.from + i - 1] = k.leaves[i]
    <3>1. k.from + i - 1 \in k.from .. k.to
      BY <1>2
    <3>. QED
      BY <1>2, <1>3, <1>4, <3>1
  <2>2. k.leaves = [i \in 1 .. n |-> k.leaves[i]]
    BY <1>1, <1>2
  <2>. QED
    BY <2>1, <2>2
<1>. QED
  BY <1>4 DEF Attest

(* SoundPackVerifies: the pack of a whole chain that nothing happened to is  *)
(* clean, with the checkpoints and without them, whatever went on while it   *)
(* was exported, if the keys are in it, and in the script's pack they are.   *)
THEOREM SoundPackIsClean == EvSpec => []SoundPackVerifies
<1>1. ASSUME EvInv PROVE SoundPackVerifies
  <2>. DEFINE keysThere == \A k \in pack.checkpoints : k.key \in pack.keys
  <2>. SUFFICES ASSUME Done, pack.damage = <<>>, Whole(Chain)
                PROVE  /\ Run_chain = Clean \/ Anchored_from_manifest
                       /\ ~ pack.browser => keysThere
                       /\ keysThere => Run_pack(pack.keys) = Clean
                       /\ \A k \in pack.checkpoints :
                            k.key \in pack.keys /\ pack.from <= k.from /\ k.to <= LastSeq
                              => /\ Attest(k, pack.keys) = "Verified"
                                 /\ Print_attestation(pack.keys) = {}
    BY DEF SoundPackVerifies
  <2>1. ~ Broken /\ pack.stage = "done" /\ pack.stage # "head" /\ ~ Unreadable
    BY <1>1, WholeIsSound, Unharmed DEF EvInv, Done, Unreadable
  <2>2. AllBut(0)
    BY <1>1, <2>1 DEF EvInv, EventsKnown
  <2>3. /\ Len(pack.events) \in Nat /\ DOMAIN pack.events = 1 .. Len(pack.events)
        /\ pack.from \in Nat \ {0}
    BY <1>1, <2>1 DEF EvInv, Packs, RangeKnown
  <2>4. Is_clean(Anchor)
    <3>1. {l \in DOMAIN pack.events : l = 0} = {}
      BY <2>3
    <3>. QED
      BY <1>1, <2>1, <2>2, <3>1, WalkFinds DEF Is_clean
  <2>5. ASSUME NEW k \in pack.checkpoints, k.key \in pack.keys
        PROVE  Attest(k, pack.keys) = IF k.from .. k.to \subseteq DOMAIN By_seq THEN "Verified"
                                      ELSE "NotCoveredByPack"
    <3>1. k.intact
      BY <1>1, Unharmed DEF EvInv, SealsKnown
    <3>. QED
      BY <1>1, <2>1, <2>2, <2>5, <3>1, SealsVerify
  <2>6. Run_chain = Clean \/ Anchored_from_manifest
    <3>1. CASE ~ Anchored_from_manifest
      <4>1. Anchor = pack.explicit
        BY <3>1 DEF Anchor
      <4>2. Is_clean(pack.explicit)
        BY <2>4, <4>1
      <4>. QED
        BY <2>1, <4>2 DEF Run_chain
    <3>. QED
      BY <3>1
  <2>7. ~ pack.browser => keysThere
    BY <1>1, <2>1 DEF EvInv, SealsKnown
  <2>8. ASSUME keysThere PROVE Run_pack(pack.keys) = Clean
    <3>1. ~ SignatureViolations(pack.keys)
      BY <2>5, <2>8 DEF SignatureViolations
    <3>. QED
      BY <2>1, <2>4, <3>1 DEF Run_pack, Is_inconclusive
  <2>9. ASSUME NEW k \in pack.checkpoints, k.key \in pack.keys, pack.from <= k.from, k.to <= LastSeq
        PROVE  /\ Attest(k, pack.keys) = "Verified"
               /\ Print_attestation(pack.keys) = {}
    <3>1. k.from \in Nat /\ k.to \in Nat
      BY <1>1 DEF EvInv, Packs, Seals
    <3>2. LastSeq \in Nat /\ (LastSeq <= pack.from + Len(pack.events) - 1 \/ LastSeq = 0)
      <4>1. CASE pack.events = <<>>
        BY <4>1 DEF LastSeq
      <4>2. CASE pack.events # <<>>
        <5>1. LastSeq = pack.from + Len(pack.events) - 1
          BY <1>1, <2>1, <2>4, <4>2, LastOf
        <5>2. Len(pack.events) >= 1
          BY <1>1, <2>3, <4>2 DEF EvInv, Packs
        <5>. QED
          BY <2>3, <5>1, <5>2
      <4>. QED
        BY <4>1, <4>2
    <3>3. ASSUME NEW x \in k.from .. k.to PROVE x \in {pack.events[i].seq : i \in DOMAIN pack.events}
      <4>1. x \in Int /\ pack.from <= x /\ x <= LastSeq
        BY <2>3, <2>9, <3>1, <3>2
      <4>2. x <= pack.from + Len(pack.events) - 1
        BY <2>3, <3>2, <4>1
      <4>3. pack.from \in Int /\ Len(pack.events) \in Int
        BY <2>3
      <4>4. /\ x - pack.from + 1 \in 1 .. Len(pack.events)
            /\ pack.from + (x - pack.from + 1) - 1 = x
        BY <4>1, <4>2, <4>3, IndexOf
      <4>5. pack.events[x - pack.from + 1].seq = x
        <5>1. pack.events[x - pack.from + 1] = Event(pack.from + (x - pack.from + 1) - 1)
          BY <2>2, <2>3, <4>4 DEF AllBut
        <5>. QED
          BY <4>4, <5>1 DEF Event
      <4>. QED
        BY <2>3, <4>4, <4>5
    <3>4. Attest(k, pack.keys) = "Verified"
      <4>1. k.from .. k.to \subseteq DOMAIN By_seq
        BY <3>3 DEF By_seq
      <4>. QED
        BY <2>5, <2>9, <4>1
    <3>5. Print_attestation(pack.keys) = {}
      BY <3>4 DEF Print_attestation, VerifiedRanges
    <3>. QED
      BY <3>4, <3>5
  <2>. QED
    BY <2>6, <2>7, <2>8, <2>9
<1>. QED
  BY <1>1, EvInvariant, PTL

(* OneEditOneFinding: one event whose contents were changed is one finding,  *)
(* for the walk goes on from the hash the event carries.                     *)
THEOREM AnEditIsOneFinding == EvSpec => []OneEditOneFinding
<1>1. ASSUME EvInv PROVE OneEditOneFinding
  <2>. SUFFICES ASSUME Done, Whole(Chain), pack.damage = <<"edited">>
                PROVE  Cardinality(Violations(Anchor)) = 1
    BY DEF OneEditOneFinding
  <2>1. ~ Broken /\ pack.stage # "head"
    BY <1>1, WholeIsSound DEF EvInv, Done
  <2>2. PICK j \in 1 .. Len(pack.events) : AllBut(j)
    BY <1>1, <2>1 DEF EvInv, EventsKnown
  <2>3. {l \in DOMAIN pack.events : l = j} = {j}
    BY <1>1 DEF EvInv, Packs
  <2>4. Violations(Anchor) = {<<j, "HashMismatch">>}
    BY <1>1, <2>1, <2>2, <2>3, WalkFinds
  <2>. QED
    BY <2>4, FS_Singleton
<1>. QED
  BY <1>1, EvInvariant, PTL

\* A checkpoint that is verified was put by a replica, and the pack holds what
\* the replica read.
VerifiedMeansSealed ==
  Done => \A trusted \in TrustSets : \A k \in pack.checkpoints :
    Attest(k, trusted) = "Verified" =>
      /\ k.key \in trusted
      /\ \E c \in CheckpointsOf(Chain) : k = Sealed(c)
      /\ \A q \in k.from .. k.to :
           \E e \in Range(pack.events) : e.seq = q /\ e.computed = k.leaves[q - k.from + 1]

LEMMA SealedIfVerified == EvInv => VerifiedMeansSealed
<1>. SUFFICES ASSUME EvInv, NEW trusted, NEW k \in pack.checkpoints,
                     Attest(k, trusted) = "Verified"
              PROVE  /\ k.key \in trusted
                     /\ \E c \in CheckpointsOf(Chain) : k = Sealed(c)
                     /\ \A q \in k.from .. k.to : \E e \in Range(pack.events) :
                          e.seq = q /\ e.computed = k.leaves[q - k.from + 1]
  BY DEF VerifiedMeansSealed
<1>. DEFINE s == pack.events
            n == k.to - k.from + 1
<1>1. s \in Seq(Exported) /\ DOMAIN s = 1 .. Len(s)
  BY DEF EvInv, Packs
<1>2. /\ k.key \in trusted /\ k.intact /\ k.from .. k.to \subseteq DOMAIN By_seq
      /\ [i \in 1 .. n |-> By_seq[k.from + i - 1]] = k.leaves
  BY DEF Attest
<1>3. \E c \in CheckpointsOf(Chain) : k = Sealed(c)
  BY <1>2 DEF EvInv, SealsKnown
<1>4. k.from \in Nat /\ k.to \in Nat
  BY <1>2, SealsAreOld
<1>5. ASSUME NEW q \in k.from .. k.to
      PROVE  \E e \in Range(s) : e.seq = q /\ e.computed = k.leaves[q - k.from + 1]
  <2>1. q - k.from + 1 \in 1 .. n /\ k.from + (q - k.from + 1) - 1 = q
    BY <1>4
  <2>2. k.leaves[q - k.from + 1] = By_seq[q]
    <3>1. k.leaves[q - k.from + 1] = By_seq[k.from + (q - k.from + 1) - 1]
      BY <1>2, <2>1
    <3>. QED
      BY <2>1, <3>1
  <2>3. PICK i \in 1 .. Len(s) : s[i].seq = q /\ By_seq[q] = s[i].computed
    BY <1>1, <1>2, BySeqOf
  <2>4. s[i] \in Range(s)
    BY <1>1 DEF Range
  <2>. QED
    BY <2>2, <2>3, <2>4
<1>. QED
  BY <1>2, <1>3, <1>5

(* VerifiedMeansSealed: attest verifies no checkpoint but one a replica put  *)
(* with a key that is trusted, over what the pack holds of its range.        *)
THEOREM VerifiedIsSealed == EvSpec => []VerifiedMeansSealed
  BY SealedIfVerified, EvInvariant, PTL

-----------------------------------------------------------------------------
(* The runs that are attested *)

LEMMA BeforeOrders ==
  ASSUME NEW x \in Pairs, NEW y \in Pairs, NEW z \in Pairs
  PROVE  /\ Before(x, y) \/ Before(y, x)
         /\ Before(x, y) /\ Before(y, z) => Before(x, z)
         /\ Before(x, y) /\ Before(y, x) => x = y
<1>1. /\ x[1] \in Nat /\ x[2] \in Nat /\ y[1] \in Nat /\ y[2] \in Nat
      /\ z[1] \in Nat /\ z[2] \in Nat
  BY DEF Pairs
<1>2. x[1] = y[1] /\ x[2] = y[2] => x = y
  BY DEF Pairs
<1>. QED
  BY <1>1, <1>2 DEF Before

\* The place of a pair in the order is how many there are up to it, so a finite
\* set of pairs can be sorted.
LEMMA SortedIs ==
  ASSUME NEW S, S \subseteq Pairs, IsFiniteSet(S)
  PROVE  /\ Cardinality(S) \in Nat
         /\ Sorted(S) \in [1 .. Cardinality(S) -> S] /\ Sorted(S) \in Seq(Pairs)
         /\ Range(Sorted(S)) = S
         /\ \A i, j \in 1 .. Cardinality(S) : i < j => Before(Sorted(S)[i], Sorted(S)[j])
<1>. DEFINE n == Cardinality(S)
            upto(x) == {y \in S : Before(y, x)}
            f == [x \in S |-> Cardinality(upto(x))]
<1>1. n \in Nat
  BY FS_CardinalityType
<1>2. ASSUME NEW x \in S
      PROVE  IsFiniteSet(upto(x)) /\ f[x] \in 1 .. n /\ f[x] = Cardinality(upto(x)) /\ x \in upto(x)
  <2>1. x \in upto(x)
    BY BeforeOrders
  <2>2. upto(x) \in SUBSET S
    OBVIOUS
  <2>3. IsFiniteSet(upto(x)) /\ Cardinality(upto(x)) <= n
    BY <2>2, FS_Subset
  <2>4. Cardinality(upto(x)) \in Nat /\ Cardinality(upto(x)) # 0
    BY <2>1, <2>3, FS_CardinalityType, FS_EmptySet
  <2>. QED
    BY <1>1, <2>1, <2>3, <2>4
<1>3. ASSUME NEW x \in S, NEW y \in S, ~ Before(y, x) PROVE f[x] < f[y]
  <2>1. upto(x) \in SUBSET upto(y)
    BY <1>3, BeforeOrders
  <2>2. upto(x) # upto(y)
    BY <1>2, <1>3
  <2>3. Cardinality(upto(x)) <= Cardinality(upto(y)) /\ Cardinality(upto(x)) # Cardinality(upto(y))
    BY <1>2, <2>1, <2>2, FS_Subset
  <2>. QED
    BY <1>1, <1>2, <2>3
<1>4. f \in Injection(S, 1 .. n)
  <2>1. f \in [S -> 1 .. n]
    BY <1>2
  <2>2. ASSUME NEW x \in S, NEW y \in S, x # y PROVE f[x] # f[y]
    <3>1. ~ Before(x, y) \/ ~ Before(y, x)
      BY <2>2, BeforeOrders
    <3>2. f[x] \in Nat /\ f[y] \in Nat
      BY <1>1, <1>2
    <3>. QED
      BY <1>3, <3>1, <3>2
  <2>. QED
    BY <2>1, <2>2 DEF Injection, IsInjective
<1>5. IsFiniteSet(1 .. n) /\ Cardinality(1 .. n) = n
  BY <1>1, FS_Interval
<1>6. f \in Surjection(S, 1 .. n)
  BY <1>4, <1>5, FS_Injection
<1>. DEFINE g == [i \in 1 .. n |-> CHOOSE x \in S : f[x] = i]
<1>7. ASSUME NEW i \in 1 .. n PROVE g[i] \in S /\ f[g[i]] = i
  <2>1. \E x \in S : f[x] = i
    BY <1>6 DEF Surjection
  <2>. QED
    BY <2>1
<1>8. g \in SetToSeqs(S)
  <2>1. g \in [1 .. n -> S] /\ \A i, j \in 1 .. n : i # j => g[i] # g[j]
    BY <1>7
  <2>. QED
    BY <2>1 DEF SetToSeqs
<1>9. \A i, j \in DOMAIN g : i < j => Before(g[i], g[j])
  <2>. SUFFICES ASSUME NEW i \in 1 .. n, NEW j \in 1 .. n, i < j, ~ Before(g[i], g[j]) PROVE FALSE
    OBVIOUS
  <2>1. f[g[j]] < f[g[i]] /\ f[g[j]] = j /\ f[g[i]] = i
    BY <1>3, <1>7
  <2>. HIDE DEF f, g
  <2>2. j < i
    BY <2>1
  <2>. QED
    BY <1>1, <2>2
<1>10. /\ Sorted(S) \in SetToSeqs(S)
       /\ \A i, j \in DOMAIN Sorted(S) : i < j => Before(Sorted(S)[i], Sorted(S)[j])
  BY <1>8, <1>9 DEF Sorted
<1>. HIDE DEF f, g
<1>11. /\ Sorted(S) \in [1 .. n -> S]
       /\ \A i, j \in 1 .. n : i # j => Sorted(S)[i] # Sorted(S)[j]
  BY <1>10 DEF SetToSeqs
<1>12. Sorted(S) \in Seq(Pairs)
  BY <1>1, <1>11
<1>13. Sorted(S) \in Injection(1 .. n, S)
  BY <1>11 DEF Injection, IsInjective
<1>14. Sorted(S) \in Surjection(1 .. n, S)
  BY <1>5, <1>13, FS_Injection
<1>15. Range(Sorted(S)) = S
  BY <1>11, <1>14 DEF Surjection, Range
<1>. QED
  BY <1>1, <1>10, <1>11, <1>12, <1>15

LEMMA MergedIs ==
  ASSUME NEW runs \in Seq(Pairs), NEW range \in Pairs
  PROVE  Merged(runs, range) \in Seq(Pairs)
<1>1. CASE runs # <<>> /\ range[1] <= Last(runs)[2] + 1
  <2>. DEFINE n == Len(runs)
              last == IF runs[n][2] < range[2] THEN range[2] ELSE runs[n][2]
  <2>1. n \in 1 .. n /\ runs \in [1 .. n -> Pairs] /\ runs[n] \in Pairs
    BY <1>1
  <2>2. runs[n] \in Nat \X Nat /\ last \in Nat
    BY <2>1 DEF Pairs
  <2>3. [runs[n] EXCEPT ![2] = last] \in Pairs
    BY <2>2 DEF Pairs
  <2>4. Merged(runs, range) = [runs EXCEPT ![n] = [runs[n] EXCEPT ![2] = last]]
    BY <1>1 DEF Merged
  <2>5. [runs EXCEPT ![n] = [runs[n] EXCEPT ![2] = last]] \in [1 .. n -> Pairs]
    BY <2>1, <2>3
  <2>. QED
    BY <2>4, <2>5
<1>2. CASE ~ (runs # <<>> /\ range[1] <= Last(runs)[2] + 1)
  BY <1>2 DEF Merged
<1>. QED
  BY <1>1, <1>2

\* The places that the first k ranges hold.
Held(ranges, k) == {q \in Nat : \E j \in 1 .. k : q \in ranges[j][1] .. ranges[j][2]}

\* f holds what is merged of the ranges, one after the other, up to the k-th.
RunsUpto(ranges, k, f) ==
  f = [i \in 0 .. k |-> IF i = 0 THEN <<>> ELSE Merged(f[i - 1], ranges[i])]

LEMMA RunsExist ==
  ASSUME NEW n \in Nat, NEW ranges
  PROVE  \E f : RunsUpto(ranges, n, f)
<1>. DEFINE T == {k \in 0 .. n : ~ \E f : RunsUpto(ranges, k, f)}
<1>. SUFFICES ASSUME T # {} PROVE FALSE
  OBVIOUS
<1>1. PICK m \in T : \A t \in T : m <= t
  <2>. DEFINE U == {t + 1 : t \in T}
  <2>1. \A t \in T : t \in Int /\ t + 1 \in 1 .. n + 1
    OBVIOUS
  <2>2. U \subseteq 1 .. n + 1 /\ U # {} /\ n + 1 \in Nat
    BY <2>1
  <2>3. PICK u \in U : \A t \in U : u <= t
    BY <2>2, First
  <2>4. PICK m \in T : u = m + 1
    OBVIOUS
  <2>5. ASSUME NEW t \in T PROVE m <= t
    <3>1. m + 1 <= t + 1 /\ t \in Int /\ m \in Int
      BY <2>1, <2>3, <2>4
    <3>. QED
      BY <3>1
  <2>. QED
    BY <2>5
<1>2. m \in 0 .. n /\ ~ \E f : RunsUpto(ranges, m, f)
  OBVIOUS
<1>3. m # 0
  <2>. DEFINE f == [i \in 0 .. 0 |-> <<>>]
  <2>1. f = [i \in 0 .. 0 |-> IF i = 0 THEN <<>> ELSE Merged(f[i - 1], ranges[i])]
    OBVIOUS
  <2>. HIDE DEF f
  <2>2. RunsUpto(ranges, 0, f)
    BY <2>1 DEF RunsUpto
  <2>. QED
    BY <1>2, <2>2
<1>4. m - 1 \in 0 .. n /\ ~ (m <= m - 1)
  BY <1>2, <1>3
<1>5. PICK f : RunsUpto(ranges, m - 1, f)
  BY <1>1, <1>4
<1>. DEFINE g == [i \in 0 .. m |-> IF i = m THEN Merged(f[m - 1], ranges[m]) ELSE f[i]]
<1>6. ASSUME NEW i \in 0 .. m
      PROVE  g[i] = IF i = 0 THEN <<>> ELSE Merged(g[i - 1], ranges[i])
  <2>1. CASE i = m
    <3>1. g[m - 1] = f[m - 1] /\ g[m] = Merged(f[m - 1], ranges[m])
      BY <1>2, <1>4
    <3>. QED
      BY <1>3, <2>1, <3>1
  <2>2. CASE i # m
    <3>1. i \in 0 .. m - 1 /\ g[i] = f[i]
      BY <1>2, <2>2
    <3>2. f[i] = IF i = 0 THEN <<>> ELSE Merged(f[i - 1], ranges[i])
      BY <1>5, <3>1 DEF RunsUpto
    <3>3. i # 0 => g[i - 1] = f[i - 1]
      BY <1>2, <2>2
    <3>. QED
      BY <3>1, <3>2, <3>3
  <2>. QED
    BY <2>1, <2>2
<1>7. g = [i \in 0 .. m |-> g[i]]
  OBVIOUS
<1>. HIDE DEF g
<1>8. RunsUpto(ranges, m, g)
  BY <1>6, <1>7 DEF RunsUpto
<1>. QED
  BY <1>2, <1>8

\* The numbers two ranges hold together, if the second begins in the first or
\* right after it.
LEMMA Joined ==
  ASSUME NEW a \in Nat, NEW b \in Nat, NEW c \in Nat, NEW d \in Nat,
         a <= c, c <= b + 1, NEW e \in Nat, e = IF b < d THEN d ELSE b
  PROVE  a .. e = (a .. b) \union (c .. d)
OBVIOUS

LEMMA MergedPlaces ==
  ASSUME NEW runs \in Seq(Pairs), NEW range \in Pairs, runs # <<>> => Last(runs)[1] <= range[1],
         NEW places, places = Held(runs, Len(runs)),
         \A i \in 1 .. Len(runs) - 1 : runs[i][2] + 1 < runs[i + 1][1],
         NEW next, next = Merged(runs, range)
  PROVE  /\ next # <<>> /\ Last(next)[1] <= range[1]
         /\ Held(next, Len(next)) = places \union (range[1] .. range[2])
         /\ \A i \in 1 .. Len(next) - 1 : next[i][2] + 1 < next[i + 1][1]
<1>. DEFINE n == Len(runs)
<1>0. /\ range[1] \in Nat /\ range[2] \in Nat /\ n \in Nat /\ runs \in [1 .. n -> Pairs]
      /\ next \in Seq(Pairs)
      /\ \A i \in 1 .. n : runs[i][1] \in Nat /\ runs[i][2] \in Nat
  <2>1. range[1] \in Nat /\ range[2] \in Nat
    BY DEF Pairs
  <2>2. n \in Nat /\ runs \in [1 .. n -> Pairs]
    OBVIOUS
  <2>3. \A x \in Pairs : x[1] \in Nat /\ x[2] \in Nat
    BY DEF Pairs
  <2>4. next \in Seq(Pairs)
    BY MergedIs
  <2>. QED
    BY <2>1, <2>2, <2>3, <2>4
<1>1. CASE runs # <<>> /\ range[1] <= Last(runs)[2] + 1
  <2>. DEFINE last == IF runs[n][2] < range[2] THEN range[2] ELSE runs[n][2]
  <2>1. n \in 1 .. n /\ Last(runs) = runs[n] /\ runs[n] \in Nat \X Nat /\ last \in Nat
    BY <1>0, <1>1 DEF Pairs, Last
  <2>2. next = [runs EXCEPT ![n] = [runs[n] EXCEPT ![2] = last]]
    BY <1>1 DEF Merged
  <2>3. Len(next) = n /\ next[n][1] = runs[n][1] /\ next[n][2] = last
    BY <1>0, <2>1, <2>2
  <2>4. \A i \in 1 .. n : i # n => next[i] = runs[i]
    BY <1>0, <2>2
  <2>. HIDE DEF last
  <2>5. runs[n][1] .. last = (runs[n][1] .. runs[n][2]) \union (range[1] .. range[2])
    BY <1>0, <1>1, <2>1, Joined DEF last
  <2>6. ASSUME NEW q \in Nat
        PROVE  (\E j \in 1 .. Len(next) : q \in next[j][1] .. next[j][2])
                 <=> q \in places \/ q \in range[1] .. range[2]
    <3>1. q \in next[n][1] .. next[n][2] <=> q \in runs[n][1] .. runs[n][2] \/ q \in range[1] .. range[2]
      BY <2>3, <2>5
    <3>. QED
      BY <2>1, <2>3, <2>4, <3>1 DEF Held
  <2>7. ASSUME NEW i \in 1 .. Len(next) - 1 PROVE next[i][2] + 1 < next[i + 1][1]
    <3>1. i \in 1 .. n - 1 /\ i # n /\ i \in 1 .. n /\ i + 1 \in 1 .. n
      <4>1. n \in Nat /\ i \in 1 .. n - 1
        BY <1>0, <2>3
      <4>. HIDE DEF n
      <4>. QED
        BY <4>1
    <3>2. next[i] = runs[i] /\ next[i + 1][1] = runs[i + 1][1]
      BY <2>3, <2>4, <3>1
    <3>. QED
      BY <3>1, <3>2
  <2>8. next # <<>> /\ Last(next)[1] <= range[1]
    BY <1>0, <1>1, <2>1, <2>3 DEF Last
  <2>9. range[1] .. range[2] \subseteq Nat
    BY <1>0
  <2>. QED
    BY <2>6, <2>7, <2>8, <2>9 DEF Held
<1>2. CASE ~ (runs # <<>> /\ range[1] <= Last(runs)[2] + 1)
  <2>1. next = Append(runs, range)
    BY <1>2 DEF Merged
  <2>2. Len(next) = n + 1 /\ next[n + 1] = range /\ \A i \in 1 .. n : next[i] = runs[i]
    BY <1>0, <2>1
  <2>3. next # <<>> /\ Last(next) = range
    BY <1>0, <2>2 DEF Last
  <2>4. ASSUME NEW q \in Nat
        PROVE  (\E j \in 1 .. Len(next) : q \in next[j][1] .. next[j][2])
                 <=> q \in places \/ q \in range[1] .. range[2]
    <3>1. \A j \in 1 .. Len(next) : j \in 1 .. n \/ j = n + 1
      BY <1>0, <2>2
    <3>2. 1 .. n \subseteq 1 .. Len(next) /\ n + 1 \in 1 .. Len(next)
      BY <1>0, <2>2
    <3>. QED
      BY <2>2, <3>1, <3>2 DEF Held
  <2>5. ASSUME NEW i \in 1 .. Len(next) - 1 PROVE next[i][2] + 1 < next[i + 1][1]
    <3>1. i \in 1 .. n
      BY <1>0, <2>2
    <3>2. CASE i = n
      <4>1. runs # <<>> /\ Last(runs) = runs[n]
        BY <1>0, <3>1, <3>2 DEF Last
      <4>2. ~ (range[1] <= runs[n][2] + 1) /\ runs[n][2] \in Nat
        BY <1>0, <1>2, <3>1, <3>2, <4>1
      <4>. QED
        BY <1>0, <2>2, <3>2, <4>2, <3>1
    <3>3. CASE i # n
      <4>1. i \in 1 .. n - 1 /\ i + 1 \in 1 .. n
        <5>1. n \in Nat /\ i \in 1 .. n /\ i # n
          BY <1>0, <3>1, <3>3
        <5>. HIDE DEF n
        <5>. QED
          BY <5>1
      <4>. QED
        BY <2>2, <3>1, <4>1
    <3>. QED
      BY <3>2, <3>3
  <2>6. range[1] .. range[2] \subseteq Nat
    BY <1>0
  <2>7. Last(next)[1] <= range[1]
    BY <1>0, <2>3
  <2>. QED
    BY <2>3, <2>4, <2>5, <2>6, <2>7 DEF Held
<1>. QED
  BY <1>1, <1>2

\* The ranges that are verified are ranges of checkpoints, so there are
\* finitely many.
LEMMA RangesFinite ==
  ASSUME EvInv, NEW trusted
  PROVE  VerifiedRanges(trusted) \subseteq Pairs /\ IsFiniteSet(VerifiedRanges(trusted))
<1>. DEFINE N == 1 .. MaxSeq
<1>1. IsFiniteSet(N \X N) /\ N \X N \subseteq Pairs
  <2>1. MaxSeq \in Nat
    BY CheckpointerParameters
  <2>2. IsFiniteSet(N)
    BY <2>1, FS_Interval
  <2>. QED
    BY <2>1, <2>2, FS_Product DEF Pairs
<1>2. ASSUME NEW k \in pack.checkpoints, Attest(k, trusted) = "Verified"
      PROVE  <<k.from, k.to>> \in N \X N
  <2>1. PICK c \in CheckpointsOf(Chain) : k = Sealed(c)
    BY <1>2 DEF Attest, EvInv, SealsKnown
  <2>2. c \in Checkpoints
    BY <2>1 DEF CheckpointsOf, EvInv, RootInv, CpInv, CpTypeOK
  <2>3. k.from = c.from /\ k.to = c.to
    BY <2>1 DEF Sealed
  <2>. QED
    BY <2>2, <2>3 DEF Checkpoints
<1>3. VerifiedRanges(trusted) \in SUBSET (N \X N)
  BY <1>2 DEF VerifiedRanges
<1>. QED
  BY <1>1, <1>3, FS_Subset

\* After any number of ranges the runs hold what those ranges hold, a place
\* that is in none of them lies between two runs, and the last run does not
\* begin after the range that was merged last.
LEMMA RunsHoldRanges ==
  ASSUME EvInv, NEW trusted, NEW ranges, ranges = Sorted(VerifiedRanges(trusted)),
         NEW f, RunsUpto(ranges, Len(ranges), f)
  PROVE  \A i \in 0 .. Len(ranges) :
           /\ f[i] \in Seq(Pairs)
           /\ i = 0 => f[i] = <<>>
           /\ i # 0 => f[i] # <<>> /\ Last(f[i])[1] <= ranges[i][1]
           /\ Held(f[i], Len(f[i])) = Held(ranges, i)
           /\ \A j \in 1 .. Len(f[i]) - 1 : f[i][j][2] + 1 < f[i][j + 1][1]
<1>. DEFINE n == Len(ranges)
            held(i) == Held(f[i], Len(f[i]))
            given(i) == Held(ranges, i)
            gaps(i) == \A j \in 1 .. Len(f[i]) - 1 : f[i][j][2] + 1 < f[i][j + 1][1]
            ok(i) == /\ f[i] \in Seq(Pairs)
                     /\ i = 0 => f[i] = <<>>
                     /\ i # 0 => f[i] # <<>> /\ Last(f[i])[1] <= ranges[i][1]
                     /\ held(i) = given(i)
                     /\ gaps(i)
<1>1. /\ n \in Nat /\ ranges \in [1 .. n -> Pairs]
      /\ \A i, j \in 1 .. n : i < j => Before(ranges[i], ranges[j])
  BY RangesFinite, SortedIs
<1>2. \A i \in 0 .. n : f[i] = IF i = 0 THEN <<>> ELSE Merged(f[i - 1], ranges[i])
  BY DEF RunsUpto
<1>3. ok(0)
  <2>1. f[0] = <<>>
    BY <1>1, <1>2
  <2>2. held(0) = {} /\ given(0) = {} /\ gaps(0)
    BY <2>1 DEF Held
  <2>. QED
    BY <2>1, <2>2
<1>4. ASSUME NEW i \in 1 .. n, ok(i - 1) PROVE ok(i)
  <2>1. i - 1 \in 0 .. n /\ i \in 0 .. n /\ i # 0 /\ i \in Nat
    BY <1>1
  <2>2. f[i] = Merged(f[i - 1], ranges[i]) /\ ranges[i] \in Pairs
    BY <1>1, <1>2, <2>1
  <2>3. f[i - 1] # <<>> => Last(f[i - 1])[1] <= ranges[i][1]
    <3>. SUFFICES ASSUME f[i - 1] # <<>> PROVE Last(f[i - 1])[1] <= ranges[i][1]
      OBVIOUS
    <3>1. i - 1 \in 1 .. n /\ i - 1 < i
      BY <1>1, <1>4, <2>1
    <3>2. ranges[i - 1] \in Pairs /\ Before(ranges[i - 1], ranges[i])
      BY <1>1, <3>1
    <3>3. ranges[i - 1][1] <= ranges[i][1] /\ ranges[i - 1][1] \in Nat /\ ranges[i][1] \in Nat
      BY <2>2, <3>2 DEF Before, Pairs
    <3>4. Last(f[i - 1])[1] <= ranges[i - 1][1]
      BY <1>4, <3>1
    <3>5. Last(f[i - 1])[1] \in Nat
      <4>1. Last(f[i - 1]) \in Pairs
        BY <1>4 DEF Last
      <4>. QED
        BY <4>1 DEF Pairs
    <3>. QED
      BY <3>3, <3>4, <3>5
  <2>4. f[i - 1] \in Seq(Pairs) /\ gaps(i - 1) /\ held(i - 1) = given(i - 1)
    BY <1>4
  <2>5. /\ f[i] # <<>> /\ Last(f[i])[1] <= ranges[i][1]
        /\ held(i) = held(i - 1) \union (ranges[i][1] .. ranges[i][2])
        /\ gaps(i)
    <3>1. PICK runs, next : runs = f[i - 1] /\ next = f[i]
      OBVIOUS
    <3>2. PICK range : range = ranges[i]
      OBVIOUS
    <3>3. /\ runs \in Seq(Pairs) /\ range \in Pairs /\ next = Merged(runs, range)
          /\ runs # <<>> => Last(runs)[1] <= range[1]
          /\ \A j \in 1 .. Len(runs) - 1 : runs[j][2] + 1 < runs[j + 1][1]
      BY <2>2, <2>3, <2>4, <3>1, <3>2
    <3>4. PICK places : places = Held(runs, Len(runs))
      OBVIOUS
    <3>5. /\ next # <<>> /\ Last(next)[1] <= range[1]
          /\ Held(next, Len(next)) = places \union (range[1] .. range[2])
          /\ \A j \in 1 .. Len(next) - 1 : next[j][2] + 1 < next[j + 1][1]
      BY <3>3, <3>4, MergedPlaces
    <3>. QED
      BY <3>1, <3>2, <3>4, <3>5
  <2>6. f[i] \in Seq(Pairs)
    BY <2>2, <2>4, MergedIs
  <2>7. given(i) = given(i - 1) \union (ranges[i][1] .. ranges[i][2])
    <3>1. 1 .. i = (1 .. i - 1) \union {i}
      BY <2>1
    <3>2. ranges[i][1] .. ranges[i][2] \subseteq Nat
      BY <2>2 DEF Pairs
    <3>. QED
      BY <3>1, <3>2 DEF Held
  <2>. QED
    BY <2>1, <2>4, <2>5, <2>6, <2>7
<1>5. ASSUME NEW k \in 0 .. n PROVE ok(k)
  <2>. DEFINE T == {i \in 1 .. n : ~ ok(i)}
  <2>. HIDE DEF ok
  <2>1. CASE T = {}
    BY <1>1, <1>3, <2>1
  <2>2. CASE T # {}
    <3>1. PICK m \in T : \A t \in T : m <= t
      BY <1>1, <2>2, First
    <3>2. m \in 1 .. n /\ ~ ok(m) /\ (m - 1 = 0 \/ m - 1 \in 1 .. n) /\ ~ (m <= m - 1)
      BY <1>1
    <3>3. ok(m - 1)
      BY <1>3, <3>1, <3>2
    <3>. QED
      BY <1>4, <3>2, <3>3
  <2>. QED
    BY <2>1, <2>2
<1>. QED
  BY <1>5

LEMMA ExactRuns == EvInv => RunsAreExact
<1>. SUFFICES ASSUME EvInv, NEW trusted
              PROVE  /\ UNION {x[1] .. x[2] : x \in Range(Attested_runs(trusted))}
                       = UNION {x[1] .. x[2] : x \in VerifiedRanges(trusted)}
                     /\ \A i \in 1 .. Len(Attested_runs(trusted)) - 1 :
                          Attested_runs(trusted)[i][2] + 1 < Attested_runs(trusted)[i + 1][1]
  BY DEF RunsAreExact
<1>. DEFINE S == VerifiedRanges(trusted)
            ranges == Sorted(S)
            n == Len(ranges)
            f == CHOOSE g : RunsUpto(ranges, n, g)
            runs == Attested_runs(trusted)
<1>1. /\ S \subseteq Pairs /\ n \in Nat /\ Range(ranges) = S /\ ranges \in [1 .. n -> S]
  BY RangesFinite, SortedIs
<1>2. RunsUpto(ranges, n, f)
  BY <1>1, RunsExist
<1>3. runs = f[n]
  BY DEF Attested_runs, RunsUpto
<1>. HIDE DEF f
<1>4. /\ runs \in Seq(Pairs)
      /\ Held(runs, Len(runs)) = Held(ranges, n)
      /\ \A j \in 1 .. Len(runs) - 1 : runs[j][2] + 1 < runs[j + 1][1]
  <2>1. n \in 0 .. n
    BY <1>1
  <2>. HIDE DEF runs
  <2>2. \A i \in 0 .. n : /\ f[i] \in Seq(Pairs) /\ Held(f[i], Len(f[i])) = Held(ranges, i)
                         /\ \A j \in 1 .. Len(f[i]) - 1 : f[i][j][2] + 1 < f[i][j + 1][1]
    BY <1>2, RunsHoldRanges
  <2>. QED
    BY <1>3, <2>1, <2>2
<1>. HIDE DEF runs, ranges, S
<1>5. ASSUME NEW s \in Seq(Pairs)
      PROVE  UNION {x[1] .. x[2] : x \in Range(s)} = Held(s, Len(s))
  <2>1. Range(s) = {s[j] : j \in 1 .. Len(s)} /\ \A j \in 1 .. Len(s) : s[j] \in Pairs
    BY DEF Range
  <2>2. \A x \in Pairs : x[1] .. x[2] \subseteq Nat
    BY DEF Pairs
  <2>. QED
    BY <2>1, <2>2 DEF Held
<1>6. ranges \in Seq(Pairs)
  BY <1>1
<1>7. UNION {x[1] .. x[2] : x \in Range(runs)} = UNION {x[1] .. x[2] : x \in S}
  BY <1>1, <1>4, <1>5, <1>6
<1>. QED
  BY <1>4, <1>7 DEF runs, S

(* RunsAreExact: sorting the ranges that are verified and merging those that *)
(* abut or overlap (attested_runs) loses no place, makes up none, and leaves *)
(* no two runs that could be one.                                            *)
THEOREM RunsExact == EvSpec => []RunsAreExact
  BY ExactRuns, EvInvariant, PTL

(* AttestedMeansSealed: every place of a run was sealed with a key that is    *)
(* trusted, and the pack holds what the replica read there.                  *)
THEOREM AttestedIsSealed == EvSpec => []AttestedMeansSealed
<1>1. ASSUME EvInv PROVE AttestedMeansSealed
  <2>. SUFFICES ASSUME Done, NEW trusted \in TrustSets,
                       NEW run \in Range(Attested_runs(trusted)), NEW q \in run[1] .. run[2]
                PROVE  \E k \in CheckpointsOf(Chain) :
                         /\ k.key \in trusted /\ q \in k.from .. k.to
                         /\ \E e \in Range(pack.events) :
                              e.seq = q /\ e.computed = k.leaves[q - k.from + 1]
    BY DEF AttestedMeansSealed
  <2>1. q \in UNION {x[1] .. x[2] : x \in VerifiedRanges(trusted)}
    BY <1>1, ExactRuns DEF RunsAreExact
  <2>2. PICK k \in pack.checkpoints : Attest(k, trusted) = "Verified" /\ q \in k.from .. k.to
    BY <2>1 DEF VerifiedRanges
  <2>3. /\ k.key \in trusted
        /\ \E e \in Range(pack.events) : e.seq = q /\ e.computed = k.leaves[q - k.from + 1]
    BY <1>1, <2>2, SealedIfVerified DEF VerifiedMeansSealed
  <2>4. PICK c \in CheckpointsOf(Chain) : k = Sealed(c)
    BY <1>1, <2>2, SealedIfVerified DEF VerifiedMeansSealed
  <2>5. k.from = c.from /\ k.to = c.to /\ k.leaves = c.leaves /\ k.key = c.key
    BY <2>4 DEF Sealed
  <2>. QED
    BY <2>2, <2>3, <2>4, <2>5
<1>. QED
  BY <1>1, EvInvariant, PTL

=============================================================================
