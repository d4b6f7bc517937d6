------------------------- MODULE CheckpointerProofs -------------------------
(* Proofs about Checkpointer, for any chains, replicas, keys and faults. *)
EXTENDS Checkpointer, FiniteSetTheorems, WellFoundedInduction, TLAPS

Working == {"idle", "head", "last", "leaves", "put"}
Follows(c, from) == from = 1 \/ \E j \in CheckpointsOf(c) : j.to = from - 1
HasWindow(key) == \E w \in signingKeys : w.key = key /\ w.from <= now

(* What a replica may rely on, at each point of its program.                *)
ReplicaOK(s) ==
  /\ s.pc # "down" => s.key \in Keys
  /\ s.time <= now
  /\ s.pc \in {"last", "leaves", "put"} => s.chain \in Chains
  /\ s.pc = "leaves" => s.from \in 1 .. s.head
  /\ s.pc = "put" => /\ s.from >= 1 /\ Len(s.leaves) >= 1
                     /\ s.from + Len(s.leaves) - 1 <= MaxSeq
  /\ s.pc \in {"leaves", "put"} => Follows(s.chain, s.from)
  /\ s.pc \in Working => HasWindow(s.key)

KeysBegun == \A w \in signingKeys : w.from <= now

OneActive ==
  /\ signingKeys # {} => \E w \in signingKeys : OpenKeys = {w}
  /\ \A w \in signingKeys \ OpenKeys : \E v \in signingKeys : v.key # w.key /\ v.from = w.to

CpInv ==
  /\ CpTypeOK
  /\ \A r \in Replicas : ReplicaOK(replica[r])
  /\ StartsWhereAnotherEnds
  /\ KeyPublished
  /\ KeysBegun
  /\ OneActive

-----------------------------------------------------------------------------
(* Heads and ranges *)

(* A set of numbers that has a bound has a greatest member.                 *)
LEMMA Greatest ==
  ASSUME NEW N \in Nat, NEW T, T \subseteq 0 .. N, T # {}
  PROVE  \E m \in T : \A t \in T : t <= m
<1>. DEFINE U == {N - t : t \in T}
<1>0. ASSUME NEW t \in T PROVE t \in 0 .. N /\ N - t \in Nat /\ N - t \in U
  <2>1. t \in 0 .. N
    OBVIOUS
  <2>. QED
    BY <2>1
<1>1. U \subseteq Nat /\ U # {}
  BY <1>0
<1>2. PICK x \in U : \A y \in U : ~ (<<y, x>> \in OpToRel(<, Nat))
  BY <1>1, NatLessThanWellFounded, WFMin
<1>3. \A y \in U : ~ (y < x)
  BY <1>1, <1>2 DEF OpToRel
<1>4. PICK m \in T : x = N - m
  BY <1>2
<1>5. ASSUME NEW t \in T PROVE t <= m
  <2>1. N - t \in U /\ N - t \in Nat /\ t \in 0 .. N /\ m \in 0 .. N
    BY <1>0
  <2>2. ~ (N - t < N - m)
    BY <1>3, <1>4, <2>1
  <2>. QED
    BY <2>1, <2>2
<1>. QED
  BY <1>5

(* The head of a chain is the place of one of its rows.                     *)
LEMMA HeadType ==
  ASSUME rows \in [Chains -> SUBSET Rows], NEW c \in Chains
  PROVE  /\ Head_seq(c) \in 0 .. MaxSeq
         /\ rows[c] # {} => Head_seq(c) \in Seqs(c)
<1>1. Seqs(c) \subseteq 0 .. MaxSeq
  BY DEF Seqs, Rows
<1>2. CASE rows[c] = {}
  BY <1>2, CheckpointerParameters DEF Head_seq
<1>3. CASE rows[c] # {}
  <2>1. Seqs(c) # {}
    BY <1>3 DEF Seqs
  <2>2. \E s \in Seqs(c) : \A t \in Seqs(c) : t <= s
    BY <1>1, <2>1, Greatest, CheckpointerParameters
  <2>3. Head_seq(c) \in Seqs(c)
    BY <1>3, <2>2 DEF Head_seq
  <2>. QED
    BY <1>1, <2>3
<1>. QED
  BY <1>2, <1>3

(* The next range begins with the first place or right after a range.       *)
LEMMA SeqFromFollows ==
  ASSUME checkpoints \in SUBSET Checkpoints, NEW c \in Chains
  PROVE  SeqFrom(c) \in 1 .. MaxSeq + 1 /\ Follows(c, SeqFrom(c))
<1>1. CASE CheckpointsOf(c) = {}
  BY <1>1, CheckpointerParameters DEF SeqFrom, Follows
<1>2. CASE CheckpointsOf(c) # {}
  <2>. DEFINE T == {k.to : k \in CheckpointsOf(c)}
  <2>1. T \subseteq 0 .. MaxSeq /\ T # {}
    BY <1>2 DEF CheckpointsOf, Checkpoints
  <2>2. PICK m \in T : \A t \in T : t <= m
    BY <2>1, Greatest, CheckpointerParameters
  <2>3. PICK k \in CheckpointsOf(c) : k.to = m
    BY <2>2
  <2>4. k \in LastSealed(c)
    BY <2>2, <2>3 DEF LastSealed
  <2>5. k.to + 1 \in 1 .. MaxSeq + 1
    BY <2>3, CheckpointerParameters DEF CheckpointsOf, Checkpoints
  <2>6. SeqFrom(c) \in 1 .. MaxSeq + 1 /\ \E j \in LastSealed(c) : SeqFrom(c) = j.to + 1
    BY <1>2, <2>4, <2>5 DEF SeqFrom
  <2>7. PICK j \in CheckpointsOf(c) : SeqFrom(c) = j.to + 1
    BY <2>6 DEF LastSealed
  <2>8. j.to \in Int
    BY DEF CheckpointsOf, Checkpoints
  <2>. QED
    BY <2>6, <2>7, <2>8 DEF Follows
<1>. QED
  BY <1>1, <1>2

(* There are finitely many rows between two places. *)
LEMMA RangeFinite ==
  ASSUME rows \in [Chains -> SUBSET Rows], NEW c \in Chains, NEW from, NEW to
  PROVE  /\ Between(c, from, to) \subseteq Rows
         /\ IsFiniteSet(Between(c, from, to)) /\ Cardinality(Between(c, from, to)) \in Nat
<1>. DEFINE S == Between(c, from, to)
<1>1. S \subseteq Rows
  BY DEF Between
<1>2. IsFiniteSet(0 .. MaxSeq) /\ IsFiniteSet(1 .. MaxSeq) /\ IsFiniteSet({1, 2})
  <2>1. {1, 2} \subseteq 1 .. 2
    OBVIOUS
  <2>2. 0 \in Int /\ 1 \in Int /\ 2 \in Int /\ MaxSeq \in Int
    BY CheckpointerParameters
  <2>3. IsFiniteSet(1 .. 2)
    BY <2>2, FS_Interval
  <2>4. IsFiniteSet(0 .. MaxSeq)
    BY <2>2, FS_Interval
  <2>5. IsFiniteSet(1 .. MaxSeq)
    BY <2>2, FS_Interval
  <2>. QED
    BY <2>1, <2>3, <2>4, <2>5, FS_Subset
<1>3. IsFiniteSet(Hashes)
  BY <1>2, FS_Product DEF Hashes
<1>4. IsFiniteSet(((1 .. MaxSeq) \X Hashes) \X Hashes)
  BY <1>2, <1>3, FS_Product
<1>5. IsFiniteSet(Rows)
  <2>. DEFINE P == ((1 .. MaxSeq) \X Hashes) \X Hashes
              f == [x \in P |-> [seq |-> x[1][1], hash |-> x[1][2], prev |-> x[2]]]
  <2>1. \A row \in Rows : \E x \in P : f[x] = row
    <3>1. TAKE row \in Rows
    <3>2. <<<<row.seq, row.hash>>, row.prev>> \in P
      BY DEF Rows
    <3>3. f[<<<<row.seq, row.hash>>, row.prev>>] = row
      BY <3>2 DEF Rows
    <3>. QED
      BY <3>2, <3>3
  <2>2. f \in [P -> Rows]
    BY DEF Rows
  <2>3. f \in Surjection(P, Rows)
    BY <2>1, <2>2 DEF Surjection
  <2>. QED
    BY <1>4, <2>3, FS_Surjection
<1>6. IsFiniteSet(S) /\ Cardinality(S) \in Nat
  BY <1>1, <1>5, FS_Subset, FS_CardinalityType
<1>. QED
  BY <1>1, <1>6

(* The answer to the query for the leaves is a sequence of rows.            *)
LEMMA AnswerType ==
  ASSUME rows \in [Chains -> SUBSET Rows], NEW c \in Chains,
         NEW from, NEW to, NEW s \in InOrder(Between(c, from, to))
  PROVE  s \in Seq(Rows) /\ HashesOf(s) \in Seq(Hashes) /\ Len(HashesOf(s)) = Len(s)
<1>. DEFINE S == Between(c, from, to)
<1>1. S \subseteq Rows /\ Cardinality(S) \in Nat
  BY RangeFinite
<1>7. s \in [1 .. Cardinality(S) -> S]
  BY DEF InOrder, SetToSeqs
<1>8. s \in Seq(Rows) /\ Len(s) = Cardinality(S) /\ \A i \in 1 .. Len(s) : s[i] \in Rows
  BY <1>1, <1>7
<1>9. \A i \in 1 .. Len(s) : s[i].hash \in Hashes
  BY <1>8 DEF Rows
<1>. QED
  BY <1>8, <1>9 DEF HashesOf

-----------------------------------------------------------------------------
(* Steps *)

(* A step of one replica to a state it may be in keeps the invariant.       *)
LEMMA StepKeeps ==
  ASSUME CpInv, NEW r \in Replicas, NEW s \in ReplicaStates, ReplicaOK(s), Step(r, s),
         faults' \in 0 .. MaxFaults, UNCHANGED <<rows, checkpoints, signingKeys, file, now>>
  PROVE  CpInv'
<1>1. replica' \in [Replicas -> ReplicaStates] /\ replica'[r] = s
      /\ \A q \in Replicas : q # r => replica'[q] = replica[q]
  BY DEF CpInv, CpTypeOK, Step
<1>2. CpTypeOK'
  BY <1>1 DEF CpInv, CpTypeOK
<1>3. ASSUME NEW q \in Replicas PROVE ReplicaOK(replica[q])'
  <2>1. ReplicaOK(replica'[q])
    BY <1>1 DEF CpInv
  <2>. QED
    BY <2>1 DEF ReplicaOK, HasWindow, Follows, CheckpointsOf
<1>4. StartsWhereAnotherEnds'
  BY DEF CpInv, StartsWhereAnotherEnds, CheckpointsOf
<1>5. KeyPublished'
  BY DEF CpInv, KeyPublished
<1>7. KeysBegun'
  BY DEF CpInv, KeysBegun
<1>6. OneActive'
  BY DEF CpInv, OneActive, OpenKeys
<1>. QED
  BY <1>2, <1>3, <1>4, <1>5, <1>6, <1>7 DEF CpInv

(* A fault is counted. *)
LEMMA FaultType ==
  ASSUME CpInv, NEW kind, Fault(kind)
  PROVE  faults' \in 0 .. MaxFaults
  BY CheckpointerParameters DEF CpInv, CpTypeOK, Fault

(* A replica at rest, whose key is installed.                               *)
LEMMA RestFacts ==
  ASSUME CpInv, NEW r \in Replicas, replica[r].key \in Keys, HasWindow(replica[r].key)
  PROVE  Rest(r) \in ReplicaStates /\ ReplicaOK(Rest(r))
<1>. DEFINE s == Rest(r)
<1>1. 0 \in Times /\ 0 \in 0 .. MaxSeq /\ <<>> \in Seq(Hashes) /\ {} \in SUBSET Chains
  BY CheckpointerParameters DEF Times
<1>2. s \in ReplicaStates
  BY <1>1 DEF Rest, Down, ReplicaStates, Pcs
<1>3. s.pc = "idle" /\ s.key = replica[r].key /\ s.time = 0
  BY DEF Rest, Down
<1>4. 0 <= now
  BY CheckpointerParameters DEF CpInv, CpTypeOK, Times
<1>5. s.key \in Keys /\ HasWindow(s.key)
  BY <1>3
<1>6. ReplicaOK(s)
  BY <1>3, <1>4, <1>5 DEF ReplicaOK
<1>. QED
  BY <1>2, <1>6

(* The states of a replica that every action starts from or goes to.        *)
LEMMA ReplicaFacts ==
  ASSUME CpInv, NEW r \in Replicas
  PROVE  /\ replica[r] \in ReplicaStates /\ ReplicaOK(replica[r])
         /\ Down \in ReplicaStates /\ ReplicaOK(Down)
         /\ replica[r].pc \in Working => Rest(r) \in ReplicaStates /\ ReplicaOK(Rest(r))
<1>1. replica[r] \in ReplicaStates /\ ReplicaOK(replica[r]) /\ now \in Times
  BY DEF CpInv, CpTypeOK
<1>2. Down \in ReplicaStates /\ ReplicaOK(Down)
  BY <1>1, CheckpointerParameters DEF Down, ReplicaStates, ReplicaOK, Pcs, Times, Working
<1>3. ASSUME replica[r].pc \in Working PROVE Rest(r) \in ReplicaStates /\ ReplicaOK(Rest(r))
  <2>1. replica[r].key \in Keys /\ HasWindow(replica[r].key)
    BY <1>1, <1>3 DEF ReplicaOK, Working
  <2>. QED
    BY <2>1, RestFacts
<1>. QED
  BY <1>1, <1>2, <1>3

-----------------------------------------------------------------------------
(* Each action *)

LEMMA BootKeeps ==
  ASSUME CpInv, NEW r \in Replicas, LoadKey(r) \/ GenerateKey(r)
  PROVE  CpInv'
<1>. USE ReplicaFacts, CheckpointerParameters
<1>1. CASE LoadKey(r)
  <2>. DEFINE s == [Down EXCEPT !.pc = "select", !.key = file, !.time = now]
  <2>1. file \in Keys /\ now \in Times
    BY <1>1 DEF LoadKey, CpInv, CpTypeOK
  <2>2. s \in ReplicaStates
    BY <2>1 DEF ReplicaStates, Down, Pcs
  <2>3. ReplicaOK(s)
    BY <2>1 DEF ReplicaOK, Down, Times, Working
  <2>. QED
    BY <1>1, <2>2, <2>3, StepKeeps DEF LoadKey, CpInv, CpTypeOK
<1>2. CASE GenerateKey(r)
  <2>1. PICK k \in FreshKeys : Step(r, [Down EXCEPT !.pc = "write", !.key = k])
    BY <1>2 DEF GenerateKey
  <2>. DEFINE s == [Down EXCEPT !.pc = "write", !.key = k]
  <2>2. k \in Keys /\ now \in Times
    BY DEF FreshKeys, CpInv, CpTypeOK
  <2>3. s \in ReplicaStates /\ ReplicaOK(s)
    BY <2>2 DEF ReplicaStates, ReplicaOK, Down, Pcs, Times, Working
  <2>. QED
    BY <1>2, <2>1, <2>3, StepKeeps DEF GenerateKey, CpInv, CpTypeOK
<1>. QED
  BY <1>1, <1>2

LEMMA InstallKeeps ==
  ASSUME CpInv, NEW r \in Replicas, InstallSelect(r) \/ InstallUpdate(r) \/ InstallWaited(r)
  PROVE  CpInv'
<1>. DEFINE me == replica[r]
<1>0. /\ me \in ReplicaStates /\ ReplicaOK(me) /\ Down \in ReplicaStates /\ ReplicaOK(Down)
      /\ faults \in 0 .. MaxFaults /\ now \in Times /\ signingKeys \in SUBSET Windows
  BY ReplicaFacts DEF CpInv, CpTypeOK
<1>1. CASE InstallSelect(r)
  <2>. DEFINE known == {k \in signingKeys : k.key = me.key}
  <2>1. me.pc = "select" /\ me.key \in Keys /\ me.time <= now
    BY <1>0, <1>1 DEF InstallSelect, Is, ReplicaOK
  <2>2. [me EXCEPT !.pc = "update"] \in ReplicaStates /\ ReplicaOK([me EXCEPT !.pc = "update"])
    BY <1>0, <2>1 DEF ReplicaStates, ReplicaOK, Pcs, Working
  <2>3. ASSUME known # {}, known \subseteq OpenKeys
        PROVE  Rest(r) \in ReplicaStates /\ ReplicaOK(Rest(r))
    <3>1. PICK w \in known : TRUE
      BY <2>3
    <3>2. w \in signingKeys /\ w.key = me.key
      BY <3>1
    <3>3. w.from <= now
      BY <3>2 DEF CpInv, KeysBegun
    <3>4. HasWindow(me.key)
      BY <3>2, <3>3 DEF HasWindow
    <3>. QED
      BY <2>1, <3>4, RestFacts
  <2>4. \/ Step(r, [me EXCEPT !.pc = "update"])
        \/ known # {} /\ known \subseteq OpenKeys /\ Step(r, Rest(r))
        \/ Step(r, Down)
    <3>1. CASE known = {}
      BY <1>1, <3>1 DEF InstallSelect
    <3>2. CASE known # {} /\ known \subseteq OpenKeys
      BY <1>1, <3>2 DEF InstallSelect
    <3>3. CASE known # {} /\ ~ (known \subseteq OpenKeys)
      BY <1>1, <3>3 DEF InstallSelect
    <3>. QED
      BY <3>1, <3>2, <3>3
  <2>5. PICK s : s \in ReplicaStates /\ ReplicaOK(s) /\ Step(r, s)
    BY <1>0, <2>2, <2>3, <2>4
  <2>. QED
    BY <1>0, <1>1, <2>5, StepKeeps DEF InstallSelect
<1>2. CASE InstallUpdate(r)
  <2>1. me.pc = "update" /\ me.key \in Keys /\ me.time <= now
    BY <1>0, <1>2 DEF InstallUpdate, Is, ReplicaOK
  <2>2. [me EXCEPT !.pc = "insert"] \in ReplicaStates /\ ReplicaOK([me EXCEPT !.pc = "insert"])
    BY <1>0, <2>1 DEF ReplicaStates, ReplicaOK, Pcs, Working
  <2>3. ASSUME NEW k \in OpenKeys, NEW pc \in {"waiting", "insert"}
        PROVE  /\ [me EXCEPT !.pc = pc, !.closing = k.key] \in ReplicaStates
               /\ ReplicaOK([me EXCEPT !.pc = pc, !.closing = k.key])
    <3>1. k.key \in Keys
      BY <1>0 DEF OpenKeys, Windows
    <3>. QED
      BY <1>0, <2>1, <3>1 DEF ReplicaStates, ReplicaOK, Pcs, Working
  <2>4. \/ Step(r, [me EXCEPT !.pc = "insert"])
        \/ \E k \in OpenKeys, pc \in {"waiting", "insert"} :
             Step(r, [me EXCEPT !.pc = pc, !.closing = k.key])
    BY <1>2 DEF InstallUpdate, Goto
  <2>5. PICK s : s \in ReplicaStates /\ ReplicaOK(s) /\ Step(r, s)
    BY <2>2, <2>3, <2>4
  <2>. QED
    BY <1>0, <1>2, <2>5, StepKeeps DEF InstallUpdate
<1>3. CASE InstallWaited(r)
  <2>1. me.pc = "waiting" /\ me.key \in Keys /\ me.time <= now
    BY <1>0, <1>3 DEF InstallWaited, Is, ReplicaOK
  <2>2. ASSUME NEW k \in {NoKey, me.closing}
        PROVE  /\ [me EXCEPT !.pc = "insert", !.closing = k] \in ReplicaStates
               /\ ReplicaOK([me EXCEPT !.pc = "insert", !.closing = k])
    BY <1>0, <2>1 DEF ReplicaStates, ReplicaOK, Pcs, Working
  <2>3. \E k \in {NoKey, me.closing} : Step(r, [me EXCEPT !.pc = "insert", !.closing = k])
    BY <1>3 DEF InstallWaited
  <2>4. PICK s : s \in ReplicaStates /\ ReplicaOK(s) /\ Step(r, s)
    BY <2>2, <2>3
  <2>. QED
    BY <1>0, <1>3, <2>4, StepKeeps DEF InstallWaited
<1>. QED
  BY <1>1, <1>2, <1>3

(* The leaves of a range are a local of the replica that seals it.          *)
LEMMA LeavesAreThere ==
  ASSUME NEW me \in ReplicaStates, NEW leaves \in Seq(Hashes), 0 \in 0 .. MaxSeq
  PROVE  [me EXCEPT !.pc = "put", !.head = 0, !.leaves = leaves] \in ReplicaStates
BY DEF ReplicaStates, Pcs

LEMMA TickKeeps ==
  ASSUME CpInv, NEW r \in Replicas,
         TickStart(r) \/ TickEnd(r) \/ ReadHead(r) \/ ReadLast(r) \/ ReadLeaves(r)
  PROVE  CpInv'
<1>. DEFINE me == replica[r]
<1>0. /\ me \in ReplicaStates /\ ReplicaOK(me) /\ now \in Times
      /\ me.pc \in Working => Rest(r) \in ReplicaStates /\ ReplicaOK(Rest(r))
      /\ faults \in 0 .. MaxFaults /\ checkpoints \in SUBSET Checkpoints
      /\ rows \in [Chains -> SUBSET Rows]
  BY ReplicaFacts DEF CpInv, CpTypeOK
<1>1. CASE TickStart(r)
  <2>. DEFINE s == [me EXCEPT !.pc = "head", !.time = now,
                              !.walk = {c \in Chains : rows[c] # {}}]
  <2>1. me.pc = "idle" /\ me.key \in Keys /\ HasWindow(me.key) /\ Step(r, s)
    BY <1>0, <1>1 DEF TickStart, Is, ReplicaOK, Working
  <2>2. s \in ReplicaStates
    BY <1>0 DEF ReplicaStates, Pcs
  <2>3. ReplicaOK(s)
    BY <1>0, <2>1 DEF ReplicaOK, ReplicaStates, Times
  <2>. QED
    BY <1>0, <1>1, <2>1, <2>2, <2>3, StepKeeps DEF TickStart
<1>2. CASE TickEnd(r)
  BY <1>0, <1>2, StepKeeps DEF TickEnd, Is, Working
<1>3. CASE ReadHead(r)
  <2>1. PICK c \in me.walk :
          Step(r, [me EXCEPT !.pc = "last", !.chain = c, !.walk = @ \ {c}, !.head = Head_seq(c)])
    BY <1>3 DEF ReadHead
  <2>. DEFINE s == [me EXCEPT !.pc = "last", !.chain = c, !.walk = @ \ {c},
                              !.head = Head_seq(c)]
  <2>2. c \in Chains /\ Head_seq(c) \in 0 .. MaxSeq
    BY <1>0, HeadType DEF ReplicaStates
  <2>3. s \in ReplicaStates
    BY <1>0, <2>2 DEF ReplicaStates, Pcs
  <2>4. me.pc = "head" /\ me.key \in Keys /\ HasWindow(me.key) /\ me.time <= now
    BY <1>0, <1>3 DEF ReadHead, Is, ReplicaOK, Working
  <2>5. ReplicaOK(s)
    BY <1>0, <2>2, <2>4 DEF ReplicaOK, ReplicaStates
  <2>. QED
    BY <1>0, <1>3, <2>1, <2>3, <2>5, StepKeeps DEF ReadHead
<1>4. me.pc \in {"last", "leaves"} => /\ me.key \in Keys /\ HasWindow(me.key)
                                      /\ me.time <= now /\ me.chain \in Chains
  BY <1>0 DEF ReplicaOK, Working
<1>5. me.pc \in {"last", "leaves"} => Onward(r) \in ReplicaStates /\ ReplicaOK(Onward(r))
  <2>1. Onward(r) \in ReplicaStates
    <3>1. 0 \in 0 .. MaxSeq /\ <<>> \in Seq(Hashes)
      BY CheckpointerParameters
    <3>. QED
      BY <1>0, <3>1 DEF Onward, ReplicaStates, Pcs
  <2>2. me.pc \in {"last", "leaves"} => ReplicaOK(Onward(r))
    BY <1>0, <1>4 DEF Onward, ReplicaOK, ReplicaStates
  <2>. QED
    BY <2>1, <2>2
<1>6. CASE ReadLast(r)
  <2>. DEFINE from == SeqFrom(Here(r))
              s == [me EXCEPT !.pc = "leaves", !.from = from]
  <2>1. me.pc = "last" /\ Here(r) = me.chain
    BY <1>6 DEF ReadLast, Is, Here
  <2>2. from \in 1 .. MaxSeq + 1 /\ Follows(me.chain, from)
    BY <1>0, <1>4, <2>1, SeqFromFollows
  <2>3. ASSUME from <= me.head PROVE s \in ReplicaStates /\ ReplicaOK(s)
    <3>1. me.head \in 0 .. MaxSeq /\ from \in 0 .. MaxSeq /\ from \in 1 .. me.head
      BY <1>0, <2>2, <2>3, CheckpointerParameters DEF ReplicaStates
    <3>2. s \in ReplicaStates
      BY <1>0, <3>1 DEF ReplicaStates, Pcs
    <3>3. ReplicaOK(s)
      BY <1>0, <1>4, <2>1, <2>2, <3>1 DEF ReplicaOK, ReplicaStates
    <3>. QED
      BY <3>2, <3>3
  <2>4. (from <= me.head /\ Step(r, s)) \/ Step(r, Onward(r))
    BY <1>6 DEF ReadLast
  <2>. QED
    BY <1>0, <1>5, <1>6, <2>1, <2>3, <2>4, StepKeeps DEF ReadLast
<1>7. CASE ReadLeaves(r)
  <2>1. me.pc = "leaves" /\ Here(r) = me.chain /\ me.from \in 1 .. me.head
        /\ me.head \in 0 .. MaxSeq /\ Follows(me.chain, me.from)
    BY <1>0, <1>7 DEF ReadLeaves, Is, Here, ReplicaOK, ReplicaStates
  <2>2. PICK a \in InOrder(Between(me.chain, me.from, me.head)) :
          Step(r, IF Len(a) = me.head - me.from + 1
                  THEN [me EXCEPT !.pc = "put", !.head = 0, !.leaves = HashesOf(a)]
                  ELSE Rest(r))
    BY <1>7, <2>1 DEF ReadLeaves
  <2>3. HashesOf(a) \in Seq(Hashes) /\ Len(HashesOf(a)) = Len(a)
    BY <1>0, <1>4, <2>1, AnswerType
  <2>. DEFINE s == [me EXCEPT !.pc = "put", !.head = 0, !.leaves = HashesOf(a)]
  <2>4. ASSUME Len(a) = me.head - me.from + 1 PROVE s \in ReplicaStates /\ ReplicaOK(s)
    <3>1. s \in ReplicaStates
      <4>1. 0 \in 0 .. MaxSeq
        BY CheckpointerParameters
      <4>. QED
        BY <1>0, <2>3, <4>1, LeavesAreThere
    <3>2. s.pc = "put" /\ s.from = me.from /\ s.leaves = HashesOf(a) /\ s.key = me.key
          /\ s.time = me.time /\ s.chain = me.chain
      BY <1>0 DEF ReplicaStates
    <3>3. s.from >= 1 /\ Len(s.leaves) >= 1 /\ s.from + Len(s.leaves) - 1 <= MaxSeq
      <4>1. Len(s.leaves) = me.head - me.from + 1 /\ s.from = me.from
        BY <2>3, <2>4, <3>2
      <4>. HIDE DEF s, me
      <4>. QED
        BY <2>1, <4>1, CheckpointerParameters
    <3>4. s.chain \in Chains /\ Follows(s.chain, s.from) /\ s.time <= now
          /\ s.key \in Keys /\ HasWindow(s.key)
      BY <1>4, <2>1, <3>2
    <3>. QED
      BY <3>1, <3>2, <3>3, <3>4 DEF ReplicaOK
  <2>5. me.pc \in Working
    BY <2>1 DEF Working
  <2>. QED
    BY <1>0, <1>7, <2>2, <2>4, <2>5, StepKeeps DEF ReadLeaves
<1>. QED
  BY <1>1, <1>2, <1>3, <1>6, <1>7

(* The statement the invariant rests on: what Put adds begins where another *)
(* checkpoint ends, and its key is installed.                               *)
LEMMA PutKeeps ==
  ASSUME CpInv, NEW r \in Replicas, Put(r)
  PROVE  CpInv'
<1>. DEFINE me == replica[r]
            k == Seal_range(r)
<1>0. /\ me \in ReplicaStates /\ ReplicaOK(me) /\ now \in Times
      /\ faults \in 0 .. MaxFaults /\ checkpoints \in SUBSET Checkpoints
  BY ReplicaFacts DEF CpInv, CpTypeOK
<1>1. /\ me.pc = "put" /\ me.key \in Keys /\ HasWindow(me.key) /\ me.chain \in Chains
      /\ Follows(me.chain, me.from) /\ me.from >= 1 /\ Len(me.leaves) >= 1
      /\ me.from + Len(me.leaves) - 1 <= MaxSeq /\ me.time <= now
      /\ me.from \in Nat /\ Len(me.leaves) \in Nat /\ me.leaves \in Seq(Hashes)
  BY <1>0 DEF Put, Is, ReplicaOK, ReplicaStates, Working
<1>2. /\ k.chain = me.chain /\ k.from = me.from /\ k.to = me.from + Len(me.leaves) - 1
      /\ k.leaves = me.leaves /\ k.at = now /\ k.key = me.key
  BY DEF Seal_range, Here
<1>3. k \in Checkpoints
  <2>1. me.from \in 1 .. MaxSeq /\ me.from + Len(me.leaves) - 1 \in 1 .. MaxSeq
    <3>1. ASSUME NEW f \in Nat, NEW n \in Nat, f >= 1, n >= 1, f + n - 1 <= MaxSeq
          PROVE  f \in 1 .. MaxSeq /\ f + n - 1 \in 1 .. MaxSeq
      BY <3>1, CheckpointerParameters
    <3>. HIDE DEF me
    <3>. QED
      BY <1>1, <3>1
  <2>. QED
    BY <1>0, <1>1, <2>1 DEF Seal_range, Here, Checkpoints
<1>4. checkpoints \subseteq checkpoints' /\ checkpoints' \subseteq checkpoints \union {k}
  BY DEF Put
<1>5. Step(r, Onward(r)) /\ UNCHANGED <<rows, signingKeys, file, now, faults>>
  BY DEF Put
<1>6. Onward(r) \in ReplicaStates
  <2>1. 0 \in 0 .. MaxSeq /\ <<>> \in Seq(Hashes)
    BY CheckpointerParameters
  <2>. QED
    BY <1>0, <2>1 DEF Onward, ReplicaStates, Pcs
<1>7. ReplicaOK(Onward(r))
  BY <1>0, <1>1 DEF Onward, ReplicaOK, ReplicaStates
<1>8. /\ replica' \in [Replicas -> ReplicaStates] /\ replica'[r] = Onward(r)
      /\ \A q \in Replicas : q # r => replica'[q] = replica[q]
  BY <1>5, <1>6 DEF CpInv, CpTypeOK, Step
<1>9. \A c, from : Follows(c, from) => Follows(c, from)'
  BY <1>4 DEF Follows, CheckpointsOf
<1>10. CpTypeOK'
  BY <1>0, <1>3, <1>4, <1>5, <1>8 DEF CpInv, CpTypeOK
<1>11. ASSUME NEW q \in Replicas PROVE ReplicaOK(replica[q])'
  <2>1. PICK s : s = replica'[q]
    OBVIOUS
  <2>2. ReplicaOK(s)
    BY <1>7, <1>8, <2>1 DEF CpInv
  <2>3. Follows(s.chain, s.from) => Follows(s.chain, s.from)'
    BY <1>9
  <2>4. ReplicaOK(s)'
    BY <1>5, <2>2, <2>3 DEF ReplicaOK, HasWindow
  <2>. QED
    BY <2>1, <2>4 DEF ReplicaOK, HasWindow, Follows, CheckpointsOf
<1>12. StartsWhereAnotherEnds'
  <2>1. ASSUME NEW j \in checkpoints' PROVE Follows(j.chain, j.from)'
    <3>1. CASE j = k
      BY <1>1, <1>2, <1>9, <3>1
    <3>2. CASE j \in checkpoints
      BY <1>9, <3>2 DEF CpInv, StartsWhereAnotherEnds, Follows
    <3>. QED
      BY <1>4, <3>1, <3>2
  <2>. QED
    BY <2>1 DEF StartsWhereAnotherEnds, Follows
<1>13. KeyPublished'
  BY <1>1, <1>2, <1>4, <1>5 DEF CpInv, KeyPublished, HasWindow
<1>14. OneActive' /\ KeysBegun'
  BY <1>5 DEF CpInv, OneActive, OpenKeys, KeysBegun
<1>. QED
  BY <1>10, <1>11, <1>12, <1>13, <1>14 DEF CpInv

(* The window that closes is the active one, and the one that opens takes   *)
(* its place: otherwise one of the two unique indexes refuses the insert.   *)
LEMMA InstallInsertKeeps ==
  ASSUME CpInv, NEW r \in Replicas, InstallInsert(r)
  PROVE  CpInv'
<1>. DEFINE me == replica[r]
            v == [key |-> me.key, from |-> me.time, to |-> Open]
            Closed(w) == CloseWindow(w, me.closing, me.time)
<1>0. /\ me \in ReplicaStates /\ ReplicaOK(me) /\ Down \in ReplicaStates /\ ReplicaOK(Down)
      /\ faults \in 0 .. MaxFaults /\ now \in Times /\ signingKeys \in SUBSET Windows
  BY ReplicaFacts DEF CpInv, CpTypeOK
<1>1. me.pc = "insert" /\ me.key \in Keys /\ me.time \in Times /\ me.time <= now
  BY <1>0 DEF InstallInsert, Is, ReplicaOK, ReplicaStates
<1>2. CASE InstallConflict(r)
  BY <1>0, <1>2, StepKeeps DEF InstallInsert
<1>3. CASE ~ InstallConflict(r)
  <2>1. /\ Step(r, Rest(r)) /\ UNCHANGED <<rows, checkpoints, file, now, faults>>
        /\ signingKeys' = {Closed(w) : w \in signingKeys} \union {v}
    BY <1>3 DEF InstallInsert
  <2>2. \A w \in signingKeys : w.key # me.key
    BY <1>3 DEF InstallConflict
  <2>3. ASSUME NEW w \in signingKeys
        PROVE  /\ Closed(w) \in Windows /\ Closed(w).key = w.key /\ Closed(w).from = w.from
               /\ Closed(w).to = IF w.to = Open THEN me.time ELSE w.to
    <3>1. w \in Windows /\ (w.to = Open => w.key = me.closing)
      BY <1>0, <1>3 DEF InstallConflict, OpenKeys
    <3>. QED
      BY <1>1, <3>1 DEF CloseWindow, Windows
  <2>4. v \in Windows /\ v.key = me.key /\ v.from = me.time /\ v.to = Open
    BY <1>1 DEF Windows
  <2>5. me.time # Open
    BY <1>1, CheckpointerParameters DEF Times, Open
  <2>6. signingKeys' \in SUBSET Windows
    BY <2>1, <2>3, <2>4
  <2>7. OpenKeys' = {v}
    BY <2>1, <2>3, <2>4, <2>5 DEF OpenKeys
  <2>8. \A key : HasWindow(key) => HasWindow(key)'
    BY <2>1, <2>3 DEF HasWindow
  <2>9. \E w \in signingKeys' : w.key = me.key /\ w.from <= now'
    BY <1>1, <2>1, <2>4
  <2>10. Rest(r).pc = "idle" /\ Rest(r).key = me.key /\ Rest(r).time = 0
         /\ Rest(r) \in ReplicaStates
    <3>1. 0 \in Times /\ 0 \in 0 .. MaxSeq /\ <<>> \in Seq(Hashes) /\ {} \in SUBSET Chains
      BY CheckpointerParameters DEF Times
    <3>. QED
      BY <1>1, <3>1 DEF Rest, Down, ReplicaStates, Pcs
  <2>11. /\ replica' \in [Replicas -> ReplicaStates] /\ replica'[r] = Rest(r)
         /\ \A q \in Replicas : q # r => replica'[q] = replica[q]
    BY <2>1, <2>10 DEF CpInv, CpTypeOK, Step
  <2>12. CpTypeOK'
    BY <1>0, <2>1, <2>6, <2>11 DEF CpInv, CpTypeOK
  <2>13. ASSUME NEW q \in Replicas PROVE ReplicaOK(replica[q])'
    <3>1. CASE q = r
      <4>1. 0 <= now'
        BY <1>0, <2>1, CheckpointerParameters DEF Times
      <4>. QED
        BY <1>1, <2>9, <2>10, <2>11, <3>1, <4>1 DEF ReplicaOK, HasWindow
    <3>2. CASE q # r
      <4>1. PICK s : s = replica[q] /\ s = replica'[q] /\ ReplicaOK(s)
        BY <2>11, <3>2 DEF CpInv
      <4>2. HasWindow(s.key) => HasWindow(s.key)'
        BY <2>8
      <4>3. Follows(s.chain, s.from) => Follows(s.chain, s.from)'
        BY <2>1 DEF Follows, CheckpointsOf
      <4>4. ReplicaOK(s)'
        BY <2>1, <4>1, <4>2, <4>3 DEF ReplicaOK
      <4>. QED
        BY <4>1, <4>4 DEF ReplicaOK, HasWindow, Follows, CheckpointsOf
    <3>. QED
      BY <3>1, <3>2
  <2>14. StartsWhereAnotherEnds'
    BY <2>1 DEF CpInv, StartsWhereAnotherEnds, CheckpointsOf
  <2>15. KeyPublished'
    BY <2>1, <2>3 DEF CpInv, KeyPublished
  <2>16. KeysBegun'
    BY <1>1, <2>1, <2>3, <2>4 DEF CpInv, KeysBegun
  <2>17. OneActive'
    <3>1. ASSUME NEW w \in (signingKeys \ OpenKeys)'
          PROVE  \E u \in signingKeys' : u.key # w.key /\ u.from = w.to
      <4>1. PICK x \in signingKeys : w = Closed(x)
        BY <2>1, <2>7, <3>1
      <4>2. CASE x.to = Open
        BY <2>1, <2>2, <2>3, <2>4, <4>1, <4>2
      <4>3. CASE x.to # Open
        <5>1. PICK y \in signingKeys : y.key # x.key /\ y.from = x.to
          BY <4>3 DEF CpInv, OneActive, OpenKeys
        <5>. QED
          BY <2>1, <2>3, <4>1, <4>3, <5>1
      <4>. QED
        BY <4>2, <4>3
    <3>. QED
      BY <2>1, <2>7, <3>1 DEF OneActive
  <2>. QED
    BY <2>12, <2>13, <2>14, <2>15, <2>16, <2>17 DEF CpInv
<1>. QED
  BY <1>2, <1>3

-----------------------------------------------------------------------------
(* The invariant, and the theorems *)

(* What changes no replica, no checkpoint and no window keeps the invariant *)
(* as long as the clock does not go back.                                   *)
LEMMA WorldKeeps ==
  ASSUME CpInv, CpTypeOK', now <= now', UNCHANGED <<checkpoints, signingKeys, replica>>
  PROVE  CpInv'
<1>0. now \in Int /\ now' \in Int
  BY CheckpointerParameters DEF CpInv, CpTypeOK, Times
<1>1. ASSUME NEW q \in Replicas PROVE ReplicaOK(replica[q])'
  <2>1. PICK s : s = replica[q] /\ s = replica'[q] /\ ReplicaOK(s)
    BY DEF CpInv
  <2>2. s.time \in Int /\ \A w \in signingKeys : w.from \in Int
    BY <2>1, CheckpointerParameters DEF CpInv, CpTypeOK, ReplicaStates, Windows, Times
  <2>3. HasWindow(s.key) => HasWindow(s.key)'
    BY <1>0, <2>2 DEF HasWindow
  <2>4. ReplicaOK(s)'
    BY <1>0, <2>1, <2>2, <2>3 DEF ReplicaOK, Follows, CheckpointsOf
  <2>. QED
    BY <2>1, <2>4 DEF ReplicaOK, HasWindow, Follows, CheckpointsOf
<1>2. StartsWhereAnotherEnds'
  BY DEF CpInv, StartsWhereAnotherEnds, CheckpointsOf
<1>3. KeyPublished'
  BY DEF CpInv, KeyPublished
<1>4. KeysBegun'
  <2>1. \A w \in signingKeys : w.from \in Int /\ w.from <= now
    BY CheckpointerParameters DEF CpInv, CpTypeOK, KeysBegun, Windows, Times
  <2>. QED
    BY <1>0, <2>1 DEF KeysBegun
<1>5. OneActive'
  BY DEF CpInv, OneActive, OpenKeys
<1>. QED
  BY <1>1, <1>2, <1>3, <1>4, <1>5 DEF CpInv

(* Rows that come, with the links they have. *)
LEMMA RowsType ==
  ASSUME CpInv, NEW c \in Chains, AppendRow(c) \/ DoubleRow(c) \/ SkipRow(c)
  PROVE  rows' \in [Chains -> SUBSET Rows]
<1>0. rows \in [Chains -> SUBSET Rows] /\ Head_seq(c) \in 0 .. MaxSeq
  BY HeadType DEF CpInv, CpTypeOK
<1>1. ASSUME NEW row \in Rows, rows' = [rows EXCEPT ![c] = @ \union {row}]
      PROVE  rows' \in [Chains -> SUBSET Rows]
  BY <1>0, <1>1
<1>2. \A s \in 1 .. MaxSeq, copy \in {1, 2}, prev \in Hashes : Row(s, copy, prev) \in Rows
  BY CheckpointerParameters DEF Row, Rows, Hashes
<1>3. CASE AppendRow(c)
  <2>1. Head_seq(c) + 1 \in 1 .. MaxSeq /\ rows' = [rows EXCEPT ![c] = @ \union
                                             {Row(Head_seq(c) + 1, 1, Tip(c))}]
    BY <1>0, <1>3, CheckpointerParameters DEF AppendRow
  <2>2. Tip(c) \in Hashes
    BY <1>0, CheckpointerParameters DEF Tip, Genesis, Hashes
  <2>. QED
    BY <1>1, <1>2, <2>1, <2>2
<1>4. CASE DoubleRow(c)
  <2>1. PICK row \in rows[c] : rows' = [rows EXCEPT ![c] = @ \union {Row(row.seq, 2, row.prev)}]
    BY <1>4 DEF DoubleRow
  <2>2. row.seq \in 1 .. MaxSeq /\ row.prev \in Hashes
    BY <1>0 DEF Rows
  <2>. QED
    BY <1>1, <1>2, <2>1, <2>2
<1>5. CASE SkipRow(c)
  <2>1. /\ Head_seq(c) + 2 \in 1 .. MaxSeq /\ <<Head_seq(c) + 1, 1>> \in Hashes
        /\ rows' = [rows EXCEPT ![c] = @ \union
                      {Row(Head_seq(c) + 2, 1, <<Head_seq(c) + 1, 1>>)}]
    BY <1>0, <1>5, CheckpointerParameters DEF SkipRow, Hashes
  <2>. QED
    BY <1>1, <1>2, <2>1
<1>. QED
  BY <1>3, <1>4, <1>5

LEMMA CpInitially == CpInit => CpInv
<1>. SUFFICES ASSUME CpInit PROVE CpInv
  OBVIOUS
<1>1. CpTypeOK
  BY CheckpointerParameters
  DEF CpInit, CpTypeOK, Times, Down, ReplicaStates, Pcs
<1>2. \A r \in Replicas : ReplicaOK(replica[r])
  BY DEF CpInit, ReplicaOK, Down, Working
<1>. QED
  BY <1>1, <1>2
  DEF CpInit, CpInv, StartsWhereAnotherEnds, KeyPublished, KeysBegun, OneActive

LEMMA CpStep == CpInv /\ [CpNext]_cpVars => CpInv'
<1>. SUFFICES ASSUME CpInv, [CpNext]_cpVars PROVE CpInv'
  OBVIOUS
<1>0. CpTypeOK /\ now \in Int /\ faults \in 0 .. MaxFaults
  BY CheckpointerParameters DEF CpInv, CpTypeOK, Times
<1>1. ASSUME NEW c \in Chains, AppendRow(c) \/ DoubleRow(c) \/ SkipRow(c) PROVE CpInv'
  <2>1. faults' \in 0 .. MaxFaults
    BY <1>0, <1>1, FaultType DEF AppendRow, DoubleRow, SkipRow
  <2>2. UNCHANGED <<checkpoints, signingKeys, file, now, replica>>
    BY <1>1 DEF AppendRow, DoubleRow, SkipRow
  <2>3. CpTypeOK'
    BY <1>0, <1>1, <2>1, <2>2, RowsType DEF CpTypeOK
  <2>. QED
    BY <1>0, <2>2, <2>3, WorldKeeps
<1>2. ASSUME NEW r \in Replicas, WriteKey(r) PROVE CpInv'
  <2>. DEFINE s == [replica[r] EXCEPT !.pc = "select", !.time = now]
  <2>1. /\ replica[r] \in ReplicaStates /\ replica[r].key \in Keys /\ now \in Times
        /\ replica[r].pc = "write"
    BY <1>2, ReplicaFacts DEF WriteKey, Is, ReplicaOK, CpInv, CpTypeOK
  <2>2. s \in ReplicaStates /\ s.pc = "select" /\ s.key \in Keys /\ s.time = now
    BY <2>1 DEF ReplicaStates, Pcs
  <2>3. ReplicaOK(s)
    BY <1>0, <2>2 DEF ReplicaOK, Working
  <2>4. /\ replica' \in [Replicas -> ReplicaStates] /\ replica'[r] = s
        /\ \A q \in Replicas : q # r => replica'[q] = replica[q]
    BY <1>0, <1>2, <2>2 DEF CpTypeOK, WriteKey, Step
  <2>5. UNCHANGED <<rows, checkpoints, signingKeys, now, faults>> /\ file' \in Keys
    BY <1>2, <2>1 DEF WriteKey
  <2>6. CpTypeOK'
    BY <1>0, <2>4, <2>5 DEF CpTypeOK
  <2>7. ASSUME NEW q \in Replicas PROVE ReplicaOK(replica[q])'
    <3>1. ReplicaOK(replica'[q])
      BY <2>3, <2>4 DEF CpInv
    <3>. QED
      BY <2>5, <3>1 DEF ReplicaOK, HasWindow, Follows, CheckpointsOf
  <2>8. StartsWhereAnotherEnds'
    BY <2>5 DEF CpInv, StartsWhereAnotherEnds, CheckpointsOf
  <2>9. KeyPublished' /\ KeysBegun'
    BY <2>5 DEF CpInv, KeyPublished, KeysBegun
  <2>10. OneActive'
    BY <2>5 DEF CpInv, OneActive, OpenKeys
  <2>. QED
    BY <2>6, <2>7, <2>8, <2>9, <2>10 DEF CpInv
<1>3. ASSUME NEW r \in Replicas, QueryFails(r) PROVE CpInv'
  <2>1. Rest(r) \in ReplicaStates /\ ReplicaOK(Rest(r))
    BY <1>3, ReplicaFacts DEF QueryFails, Working
  <2>. QED
    BY <1>3, <2>1, FaultType, StepKeeps DEF QueryFails
<1>4. ASSUME NEW r \in Replicas, Crash(r) PROVE CpInv'
  BY <1>4, ReplicaFacts, FaultType, StepKeeps DEF Crash
<1>5. CASE RotateFile
  <2>1. faults' \in 0 .. MaxFaults
    BY <1>5, FaultType DEF RotateFile
  <2>2. CpTypeOK'
    BY <1>0, <1>5, <2>1 DEF CpTypeOK, RotateFile
  <2>. QED
    BY <1>0, <1>5, <2>2, WorldKeeps DEF RotateFile
<1>6. CASE Advance
  <2>1. CpTypeOK' /\ now <= now'
    BY <1>0, <1>6, CheckpointerParameters DEF CpTypeOK, Advance, Times
  <2>. QED
    BY <1>6, <2>1, WorldKeeps DEF Advance
<1>7. CASE UNCHANGED cpVars
  <2>1. CpTypeOK'
    BY <1>0, <1>7 DEF CpTypeOK, cpVars
  <2>2. now <= now' /\ UNCHANGED <<checkpoints, signingKeys, replica>>
    BY <1>0, <1>7 DEF cpVars
  <2>. QED
    BY <2>1, <2>2, WorldKeeps
<1>. QED
  BY <1>1, <1>2, <1>3, <1>4, <1>5, <1>6, <1>7, BootKeeps, InstallKeeps, InstallInsertKeeps,
     TickKeeps, PutKeeps
  DEF CpNext, Boots, Installs, Ticks

LEMMA CpInvariant == CpSpec => []CpInv
  BY CpInitially, CpStep, PTL DEF CpSpec

(* Every variable of the control planes and their databases stays within    *)
(* its type: a range that is sealed lies within the rows there can be, and  *)
(* the seal_range of a replica names a chain and a key.                     *)
THEOREM CheckpointerTypeCorrect == CpSpec => []CpTypeOK
<1>1. CpInv => CpTypeOK
  BY DEF CpInv
<1>. QED
  BY <1>1, CpInvariant, PTL

(* However many replicas seal one chain at once, over whatever rows, with   *)
(* queries that fail and crashes in between, no place before a checkpoint   *)
(* is left unsealed (last_sealed and seq_from in tick).                     *)
THEOREM NoRangeIsSkipped == CpSpec => []StartsWhereAnotherEnds
<1>1. CpInv => StartsWhereAnotherEnds
  BY DEF CpInv
<1>. QED
  BY <1>1, CpInvariant, PTL

(* Every checkpoint's key is among the public keys, with a window that had  *)
(* begun when it was sealed (install_active_key comes before the loop).     *)
THEOREM EverySealHasItsKey == CpSpec => []KeyPublished
<1>1. CpInv => KeyPublished
  BY DEF CpInv
<1>. QED
  BY <1>1, CpInvariant, PTL

(* Of the keys there are one is active, and every window that is not ends   *)
(* where another begins, whatever replicas install at once.                 *)
THEOREM KeyWindowsAbut == CpSpec => []WindowsAbut
<1>1. ASSUME OneActive PROVE WindowsAbut
  <2>1. ASSUME NEW w, OpenKeys = {w} PROVE Cardinality(OpenKeys) = 1
    BY <2>1, FS_Singleton
  <2>. QED
    BY <1>1, <2>1 DEF OneActive, WindowsAbut
<1>2. CpInv => WindowsAbut
  BY <1>1 DEF CpInv
<1>. QED
  BY <1>2, CpInvariant, PTL

-----------------------------------------------------------------------------
(* What a root is over *)

\* Rows of a chain at one place differ in nothing but their copy.
RowsAlike(c) ==
  /\ \A row \in rows[c] : row.hash[1] = row.seq
  /\ \A x, y \in rows[c] : x.seq = y.seq => x.prev = y.prev

\* A chain that was broken in both ways: a place has two rows, and one has none.
Doubled(c) == \E row \in rows[c] : row.hash[2] = 2
Gapped(c) == Seqs(c) # 1 .. Head_seq(c)
BrokenTwice(c) == Doubled(c) /\ Gapped(c)

Covers(c, from, leaves) ==
  \A i \in 1 .. Len(leaves) : \E row \in rows[c] : row.hash = leaves[i] /\ row.seq = from + i - 1

\* A replica asks for leaves up to a place that has a row, and goes on to put
\* the hashes of one row for each place.
RangeOK(s) ==
  /\ s.pc \in {"last", "leaves"} => s.head <= Head_seq(s.chain)
  /\ s.pc = "put" => BrokenTwice(s.chain) \/ Covers(s.chain, s.from, s.leaves)

RootOK(k) ==
  /\ Len(k.leaves) = k.to - k.from + 1
  /\ BrokenTwice(k.chain) \/ Covers(k.chain, k.from, k.leaves)

RootInv ==
  /\ CpInv
  /\ \A c \in Chains : RowsAlike(c)
  /\ \A r \in Replicas : RangeOK(replica[r])
  /\ \A k \in checkpoints : RootOK(k)

(* A sequence of numbers that ascends strictly and has as many members as    *)
(* the interval it lies in counts the interval through.                     *)
LEMMA Counts ==
  ASSUME NEW n \in Nat, NEW f \in [1 .. n -> 1 .. n],
         \A i, j \in 1 .. n : i < j => f[i] < f[j]
  PROVE  \A i \in 1 .. n : f[i] = i
<1>1. \A i \in 1 .. n : f[i] \in 1 .. n
  OBVIOUS
<1>2. ASSUME NEW i \in 1 .. n, f[i] > i PROVE FALSE
  <2>. DEFINE T == {j \in 1 .. n : f[j] > j}
  <2>1. T \subseteq 0 .. n /\ T # {}
    BY <1>2
  <2>2. PICK m \in T : \A t \in T : t <= m
    BY <2>1, Greatest
  <2>3. m \in 1 .. n /\ f[m] > m /\ f[m] \in 1 .. n
    BY <1>1, <2>2
  <2>4. m + 1 \in 1 .. n /\ m < m + 1
    BY <2>3
  <2>5. f[m] < f[m + 1] /\ f[m + 1] \in 1 .. n
    BY <1>1, <2>3, <2>4
  <2>6. m + 1 \in T
    BY <2>3, <2>4, <2>5
  <2>. QED
    BY <2>2, <2>3, <2>6
<1>3. ASSUME NEW i \in 1 .. n, f[i] < i PROVE FALSE
  <2>. DEFINE T == {n - j : j \in {k \in 1 .. n : f[k] < k}}
  <2>1. T \subseteq 0 .. n /\ T # {}
    BY <1>3
  <2>2. PICK x \in T : \A t \in T : t <= x
    BY <2>1, Greatest
  <2>3. PICK m \in 1 .. n : f[m] < m /\ x = n - m
    BY <2>2
  <2>4. m - 1 \in 1 .. n /\ m - 1 < m /\ f[m] \in 1 .. n
    BY <1>1, <2>3
  <2>5. f[m - 1] < f[m] /\ f[m - 1] \in 1 .. n
    BY <1>1, <2>3, <2>4
  <2>6. f[m - 1] < m - 1
    BY <2>3, <2>4, <2>5
  <2>7. n - (m - 1) \in T
    BY <2>4, <2>6
  <2>8. n - (m - 1) <= n - m
    BY <2>2, <2>3, <2>7
  <2>. QED
    BY <2>3, <2>8
<1>4. ASSUME NEW i \in 1 .. n PROVE f[i] = i
  <2>1. f[i] \in Int /\ ~ (f[i] > i) /\ ~ (f[i] < i)
    BY <1>1, <1>2, <1>3
  <2>. QED
    BY <2>1
<1>. QED
  BY <1>4

(* The same of one that ascends and leaves no member of the interval out.    *)
LEMMA CountsOnto ==
  ASSUME NEW n \in Nat, NEW f \in Surjection(1 .. n, 1 .. n),
         \A i, j \in 1 .. n : i < j => f[i] <= f[j]
  PROVE  \A i \in 1 .. n : f[i] = i
<1>1. IsFiniteSet(1 .. n)
  BY FS_Interval
<1>2. f \in [1 .. n -> 1 .. n]
  BY DEF Surjection
<1>3. f \in Injection(1 .. n, 1 .. n)
  BY <1>1, FS_SurjSameCardinalityImpliesInj
<1>4. ASSUME NEW i \in 1 .. n, NEW j \in 1 .. n, i < j PROVE f[i] < f[j]
  <2>1. f[i] <= f[j] /\ f[i] # f[j] /\ f[i] \in Int /\ f[j] \in Int
    BY <1>2, <1>3, <1>4 DEF Injection, IsInjective
  <2>. QED
    BY <2>1
<1>. QED
  BY <1>2, <1>4, Counts

(* The places of a chain lie between the first one and its head.             *)
LEMMA BelowHead ==
  ASSUME rows \in [Chains -> SUBSET Rows], NEW c \in Chains, NEW row \in rows[c]
  PROVE  row.seq \in 1 .. MaxSeq /\ row.seq <= Head_seq(c)
<1>1. row.seq \in 1 .. MaxSeq /\ row.seq \in Seqs(c)
  BY DEF Rows, Seqs
<1>2. Seqs(c) \subseteq 0 .. MaxSeq /\ Seqs(c) # {}
  BY <1>1 DEF Seqs, Rows
<1>3. \E s \in Seqs(c) : \A t \in Seqs(c) : t <= s
  BY <1>2, Greatest, CheckpointerParameters
<1>4. \A t \in Seqs(c) : t <= Head_seq(c)
  BY <1>1, <1>3 DEF Head_seq
<1>. QED
  BY <1>1, <1>4

(* The answer holds each row of the range once, in the order of the places. *)
LEMMA AnswerFacts ==
  ASSUME rows \in [Chains -> SUBSET Rows], NEW c \in Chains,
         NEW from, NEW to, NEW s \in InOrder(Between(c, from, to))
  PROVE  /\ \A i \in 1 .. Len(s) : s[i] \in Between(c, from, to)
         /\ \A i, j \in 1 .. Len(s) : i # j => s[i] # s[j]
         /\ \A i, j \in 1 .. Len(s) : i < j => s[i].seq <= s[j].seq
         /\ \A row \in Between(c, from, to) : \E i \in 1 .. Len(s) : s[i] = row
<1>. DEFINE S == Between(c, from, to)
<1>1. IsFiniteSet(S) /\ Cardinality(S) \in Nat
  BY RangeFinite
<1>2. /\ s \in [1 .. Cardinality(S) -> S]
      /\ \A i, j \in 1 .. Cardinality(S) : i # j => s[i] # s[j]
      /\ \A i, j \in DOMAIN s : i < j => s[i].seq <= s[j].seq
  BY DEF InOrder, SetToSeqs
<1>. DEFINE n == Cardinality(S)
<1>3. Len(s) = n /\ DOMAIN s = 1 .. n
  BY <1>1, <1>2
<1>4. s \in Injection(1 .. n, S)
  BY <1>2 DEF Injection, IsInjective
<1>5. IsFiniteSet(1 .. n) /\ Cardinality(1 .. n) = n
  BY <1>1, FS_Interval
<1>6. s \in Surjection(1 .. n, S)
  BY <1>1, <1>4, <1>5, FS_Injection
<1>. QED
  BY <1>2, <1>3, <1>6 DEF Surjection

(* As many rows as there are places, of a chain that is broken in one way    *)
(* at most, are one row for each place: with no place doubled the places     *)
(* ascend strictly, and with none left out no place can come twice.          *)
LEMMA LeavesCover ==
  ASSUME rows \in [Chains -> SUBSET Rows], NEW c \in Chains, RowsAlike(c), ~ BrokenTwice(c),
         NEW head \in Nat, NEW from \in 1 .. head, head <= Head_seq(c),
         NEW s \in InOrder(Between(c, from, head)), Len(s) = head - from + 1
  PROVE  Covers(c, from, HashesOf(s))
<1>. DEFINE n == head - from + 1
            f == [i \in 1 .. n |-> s[i].seq - from + 1]
<1>1. n \in Nat /\ Len(s) = n
  OBVIOUS
<1>2. /\ \A i \in 1 .. n : s[i] \in Between(c, from, head)
      /\ \A i, j \in 1 .. n : i # j => s[i] # s[j]
      /\ \A i, j \in 1 .. n : i < j => s[i].seq <= s[j].seq
      /\ \A row \in Between(c, from, head) : \E i \in 1 .. n : s[i] = row
  BY <1>1, AnswerFacts
<1>3. ASSUME NEW i \in 1 .. n
      PROVE  s[i] \in rows[c] /\ s[i].seq \in from .. head /\ s[i] \in Rows
  <2>1. s[i] \in rows[c] /\ from <= s[i].seq /\ s[i].seq <= head
    BY <1>2 DEF Between
  <2>2. s[i].seq \in Int /\ s[i] \in Rows
    BY <2>1 DEF Rows
  <2>. QED
    BY <2>1, <2>2
<1>. HIDE DEF n
<1>4. f \in [1 .. n -> 1 .. n]
  <2>1. ASSUME NEW q \in from .. head PROVE q - from + 1 \in 1 .. n
    BY DEF n
  <2>. QED
    BY <1>3, <2>1
<1>5. \A i \in 1 .. n : f[i] = s[i].seq - from + 1
  OBVIOUS
<1>. HIDE DEF f
<1>6. \A i, j \in 1 .. n : i < j => f[i] <= f[j]
  <2>1. \A p, q \in from .. head : p <= q => p - from + 1 <= q - from + 1
    OBVIOUS
  <2>2. ASSUME NEW i \in 1 .. n, NEW j \in 1 .. n, i < j PROVE f[i] <= f[j]
    <3>1. s[i].seq <= s[j].seq /\ s[i].seq \in from .. head /\ s[j].seq \in from .. head
      BY <1>2, <1>3, <2>2
    <3>2. s[i].seq - from + 1 <= s[j].seq - from + 1
      BY <2>1, <3>1
    <3>. QED
      BY <1>5, <3>2
  <2>. QED
    BY <2>2
<1>7. ASSUME ~ Gapped(c) PROVE \A i \in 1 .. n : f[i] = i
  <2>1. ASSUME NEW p \in 1 .. n PROVE \E i \in 1 .. n : f[i] = p
    <3>1. p + from - 1 \in 1 .. head /\ from <= p + from - 1 /\ p + from - 1 - from + 1 = p
      BY DEF n
    <3>2. p + from - 1 \in 1 .. Head_seq(c)
      BY <3>1, HeadType
    <3>3. PICK row \in rows[c] : row.seq = p + from - 1
      BY <1>7, <3>2 DEF Gapped, Seqs
    <3>4. row \in Between(c, from, head)
      BY <3>1, <3>3 DEF Between
    <3>5. PICK i \in 1 .. n : s[i] = row
      BY <1>2, <3>4
    <3>6. f[i] = row.seq - from + 1
      BY <1>5, <3>5
    <3>. QED
      BY <3>1, <3>3, <3>6
  <2>2. f \in Surjection(1 .. n, 1 .. n)
    BY <1>4, <2>1 DEF Surjection
  <2>. QED
    BY ONLY <1>1, <1>6, <2>2, CountsOnto
<1>8. ASSUME ~ Doubled(c) PROVE \A i \in 1 .. n : f[i] = i
  <2>1. ASSUME NEW x \in rows[c], NEW y \in rows[c], x.seq = y.seq PROVE x = y
    <3>1. x \in Rows /\ y \in Rows /\ x.prev = y.prev /\ x.hash[1] = y.hash[1]
      BY <2>1 DEF RowsAlike
    <3>2. x.hash \in Hashes /\ y.hash \in Hashes /\ x.hash[2] # 2 /\ y.hash[2] # 2
      BY <1>8, <3>1 DEF Doubled, Rows
    <3>3. x.hash = y.hash
      BY <3>1, <3>2 DEF Hashes
    <3>. QED
      BY <2>1, <3>1, <3>3 DEF Rows
  <2>2. ASSUME NEW i \in 1 .. n, NEW j \in 1 .. n, i < j PROVE f[i] < f[j]
    <3>1. i # j /\ s[i] # s[j] /\ s[i] \in rows[c] /\ s[j] \in rows[c]
      BY <1>2, <1>3, <2>2
    <3>2. s[i].seq # s[j].seq
      BY <2>1, <3>1
    <3>3. s[i].seq \in Int /\ s[j].seq \in Int /\ from \in Int
      BY <1>3
    <3>4. f[i] # f[j]
      BY <1>5, <3>2, <3>3
    <3>5. f[i] <= f[j] /\ f[i] \in Int /\ f[j] \in Int
      BY <1>4, <1>6, <2>2
    <3>. QED
      BY <3>4, <3>5
  <2>3. \A i, j \in 1 .. n : i < j => f[i] < f[j]
    BY <2>2
  <2>. QED
    BY ONLY <1>1, <1>4, <2>3, Counts
<1>9. ASSUME NEW i \in 1 .. n PROVE s[i].seq = from + i - 1
  <2>0. f[i] = i /\ f[i] = s[i].seq - from + 1
    BY <1>5, <1>7, <1>8 DEF BrokenTwice
  <2>1. s[i].seq - from + 1 = i /\ s[i].seq \in Int /\ from \in Int /\ i \in Int
    BY <1>3, <2>0
  <2>. QED
    BY <2>1
<1>10. Len(HashesOf(s)) = n /\ \A i \in 1 .. n : HashesOf(s)[i] = s[i].hash
  BY <1>1 DEF HashesOf
<1>. QED
  BY <1>3, <1>9, <1>10 DEF Covers

(* The head of any rows there are is the greatest place of one.             *)
LEMMA HeadOf ==
  ASSUME NEW R, R \subseteq Rows, R # {}
  PROVE  LET T == {row.seq : row \in R}
             h == CHOOSE s \in T : \A t \in T : t <= s
         IN  h \in T /\ \A t \in T : t <= h
<1>. DEFINE T == {row.seq : row \in R}
<1>1. T \subseteq 0 .. MaxSeq /\ T # {}
  BY DEF Rows
<1>2. \E s \in T : \A t \in T : t <= s
  BY <1>1, Greatest, CheckpointerParameters
<1>. QED
  BY <1>2

(* A row that comes behind the head, or at a place that has one, takes back *)
(* nothing of what a chain shows: it stays covered, and it stays broken.    *)
LEMMA RowsGrow ==
  ASSUME rows \in [Chains -> SUBSET Rows], NEW c \in Chains, NEW new \in Rows,
         rows' = [rows EXCEPT ![c] = @ \union {new}],
         new.seq > Head_seq(c) \/ new.seq \in Seqs(c), NEW d \in Chains
  PROVE  /\ Head_seq(d) <= Head_seq(d)'
         /\ Doubled(d) => Doubled(d)'
         /\ Gapped(d) => Gapped(d)'
         /\ \A from, leaves : Covers(d, from, leaves) => Covers(d, from, leaves)'
<1>1. /\ rows'[d] \subseteq Rows /\ rows[d] \subseteq rows'[d]
      /\ rows'[d] = rows[d] \/ (d = c /\ rows'[d] = rows[d] \union {new})
  OBVIOUS
<1>2. \A from, leaves : Covers(d, from, leaves) => Covers(d, from, leaves)'
  BY <1>1 DEF Covers
<1>3. ASSUME NEW row \in rows'[d]
      PROVE  row.seq \in Int /\ row.seq >= 1 /\ row.seq <= Head_seq(d)'
  <2>1. row \in Rows /\ row.seq \in 1 .. MaxSeq
    BY <1>1 DEF Rows
  <2>2. rows'[d] # {} /\ row.seq \in {x.seq : x \in rows'[d]}
    OBVIOUS
  <2>3. row.seq <= Head_seq(d)'
    BY <1>1, <2>2, HeadOf DEF Head_seq, Seqs
  <2>. QED
    BY <2>1, <2>3
<1>4. Head_seq(d)' \in Int /\ Head_seq(d)' >= 0
  <2>1. CASE rows'[d] = {}
    BY <2>1 DEF Head_seq
  <2>2. CASE rows'[d] # {}
    <3>1. Head_seq(d)' \in Seqs(d)'
      BY <1>1, <2>2, HeadOf DEF Head_seq, Seqs
    <3>. QED
      BY <1>1, <3>1 DEF Seqs, Rows
  <2>. QED
    BY <2>1, <2>2
<1>5. Head_seq(d) <= Head_seq(d)' /\ Head_seq(d) \in Int
  <2>1. CASE rows[d] = {}
    BY <1>4, <2>1 DEF Head_seq
  <2>2. CASE rows[d] # {}
    <3>1. PICK row \in rows[d] : row.seq = Head_seq(d)
      BY <2>2, HeadType DEF Seqs
    <3>. QED
      BY <1>1, <1>3, <3>1
  <2>. QED
    BY <2>1, <2>2
<1>6. Doubled(d) => Doubled(d)'
  BY <1>1 DEF Doubled
<1>7. Gapped(d) => Gapped(d)'
  <2>. SUFFICES ASSUME Gapped(d) PROVE Gapped(d)'
    OBVIOUS
  <2>1. Seqs(d) \subseteq 1 .. Head_seq(d)
    BY <1>5, BelowHead DEF Seqs
  <2>2. PICK p \in 1 .. Head_seq(d) : p \notin Seqs(d)
    BY <2>1 DEF Gapped
  <2>3. p \in 1 .. Head_seq(d)'
    BY <1>4, <1>5, <2>2
  <2>4. p \notin Seqs(d)'
    <3>1. ASSUME d = c PROVE p # new.seq
      BY <1>5, <2>2, <3>1
    <3>. QED
      BY <1>1, <2>2, <3>1 DEF Seqs
  <2>. QED
    BY <2>3, <2>4 DEF Gapped
<1>. QED
  BY <1>2, <1>5, <1>6, <1>7

(* A row that comes is behind the head, or a second one of its place.       *)
LEMMA NewRow ==
  ASSUME CpInv, NEW c \in Chains, RowsAlike(c), AppendRow(c) \/ DoubleRow(c) \/ SkipRow(c)
  PROVE  \E new \in Rows :
           /\ rows' = [rows EXCEPT ![c] = @ \union {new}]
           /\ new.seq > Head_seq(c) \/ new.seq \in Seqs(c)
           /\ new.hash[1] = new.seq
           /\ \A row \in rows[c] : row.seq = new.seq => row.prev = new.prev
<1>0. rows \in [Chains -> SUBSET Rows] /\ Head_seq(c) \in 0 .. MaxSeq
  BY HeadType DEF CpInv, CpTypeOK
<1>1. ASSUME NEW s \in 1 .. MaxSeq, NEW copy \in {1, 2}, NEW prev \in Hashes
      PROVE  /\ Row(s, copy, prev) \in Rows /\ Row(s, copy, prev).seq = s
             /\ Row(s, copy, prev).hash[1] = s /\ Row(s, copy, prev).prev = prev
  BY CheckpointerParameters DEF Row, Rows, Hashes
<1>2. ASSUME NEW s \in 1 .. MaxSeq, s > Head_seq(c), NEW prev \in Hashes,
             rows' = [rows EXCEPT ![c] = @ \union {Row(s, 1, prev)}]
      PROVE  \E new \in Rows :
               /\ rows' = [rows EXCEPT ![c] = @ \union {new}]
               /\ new.seq > Head_seq(c) \/ new.seq \in Seqs(c)
               /\ new.hash[1] = new.seq
               /\ \A row \in rows[c] : row.seq = new.seq => row.prev = new.prev
  <2>. DEFINE new == Row(s, 1, prev)
  <2>1. new \in Rows /\ new.seq = s /\ new.hash[1] = s
    BY <1>1
  <2>2. ASSUME NEW row \in rows[c] PROVE row.seq # s
    BY <1>0, <1>2, BelowHead
  <2>. QED
    BY <1>2, <2>1, <2>2
<1>3. CASE AppendRow(c)
  <2>1. /\ Head_seq(c) + 1 \in 1 .. MaxSeq /\ Head_seq(c) + 1 > Head_seq(c)
        /\ rows' = [rows EXCEPT ![c] = @ \union {Row(Head_seq(c) + 1, 1, Tip(c))}]
    BY <1>0, <1>3, CheckpointerParameters DEF AppendRow
  <2>2. Tip(c) \in Hashes
    BY <1>0, CheckpointerParameters DEF Tip, Genesis, Hashes
  <2>. QED
    BY <1>2, <2>1, <2>2
<1>4. CASE DoubleRow(c)
  <2>1. PICK row \in rows[c] : rows' = [rows EXCEPT ![c] = @ \union {Row(row.seq, 2, row.prev)}]
    BY <1>4 DEF DoubleRow
  <2>2. row.seq \in 1 .. MaxSeq /\ row.prev \in Hashes /\ row.seq \in Seqs(c)
    BY <1>0 DEF Rows, Seqs
  <2>. DEFINE new == Row(row.seq, 2, row.prev)
  <2>3. new \in Rows /\ new.seq = row.seq /\ new.hash[1] = row.seq /\ new.prev = row.prev
    BY <1>1, <2>2
  <2>4. \A x \in rows[c] : x.seq = new.seq => x.prev = new.prev
    BY <2>3 DEF RowsAlike
  <2>5. rows' = [rows EXCEPT ![c] = @ \union {new}] /\ new.seq \in Seqs(c)
    BY <2>1, <2>2, <2>3
  <2>. HIDE DEF new
  <2>. QED
    BY <2>3, <2>4, <2>5
<1>5. CASE SkipRow(c)
  <2>1. /\ Head_seq(c) + 2 \in 1 .. MaxSeq /\ <<Head_seq(c) + 1, 1>> \in Hashes
        /\ Head_seq(c) + 2 > Head_seq(c)
        /\ rows' = [rows EXCEPT ![c] = @ \union
                      {Row(Head_seq(c) + 2, 1, <<Head_seq(c) + 1, 1>>)}]
    BY <1>0, <1>5, CheckpointerParameters DEF SkipRow, Hashes
  <2>. QED
    BY <1>2, <2>1
<1>. QED
  BY <1>3, <1>4, <1>5

LEMMA RootRowStep ==
  ASSUME RootInv, CpInv', NEW c \in Chains, AppendRow(c) \/ DoubleRow(c) \/ SkipRow(c)
  PROVE  RootInv'
<1>0. rows \in [Chains -> SUBSET Rows] /\ UNCHANGED <<checkpoints, replica>>
  BY DEF RootInv, CpInv, CpTypeOK, AppendRow, DoubleRow, SkipRow
<1>1. PICK new \in Rows :
        /\ rows' = [rows EXCEPT ![c] = @ \union {new}]
        /\ new.seq > Head_seq(c) \/ new.seq \in Seqs(c)
        /\ new.hash[1] = new.seq
        /\ \A row \in rows[c] : row.seq = new.seq => row.prev = new.prev
  BY NewRow DEF RootInv
<1>2. \A d \in Chains : RowsAlike(d)'
  BY <1>0, <1>1 DEF RootInv, RowsAlike
<1>3. ASSUME NEW d \in Chains
      PROVE  /\ Head_seq(d) \in Int /\ Head_seq(d)' \in Int /\ Head_seq(d) <= Head_seq(d)'
             /\ BrokenTwice(d) => BrokenTwice(d)'
             /\ \A from, leaves : Covers(d, from, leaves) => Covers(d, from, leaves)'
  <2>1. Head_seq(d) \in Int
    BY <1>0, HeadType
  <2>2. Head_seq(d)' \in Int
    <3>1. rows'[d] \subseteq Rows
      BY <1>0, <1>1
    <3>2. CASE rows'[d] = {}
      BY <3>2 DEF Head_seq
    <3>3. CASE rows'[d] # {}
      <4>1. Head_seq(d)' \in {row.seq : row \in rows'[d]}
        BY <3>1, <3>3, HeadOf DEF Head_seq, Seqs
      <4>. QED
        BY <3>1, <4>1 DEF Rows
    <3>. QED
      BY <3>2, <3>3
  <2>. QED
    BY <1>0, <1>1, <2>1, <2>2, RowsGrow DEF BrokenTwice
<1>4. ASSUME NEW r \in Replicas PROVE RangeOK(replica[r])'
  <2>1. PICK s : s = replica[r] /\ s = replica'[r]
    BY <1>0
  <2>2. /\ s \in ReplicaStates /\ RangeOK(s)
        /\ s.pc \in {"last", "leaves", "put"} => s.chain \in Chains
    BY <2>1, ReplicaFacts DEF RootInv, ReplicaOK
  <2>3. s.head \in Int
    BY <2>2, CheckpointerParameters DEF ReplicaStates
  <2>4. s.pc \in {"last", "leaves"} => s.head <= Head_seq(s.chain)'
    BY <1>3, <2>2, <2>3 DEF RangeOK
  <2>5. s.pc = "put" => BrokenTwice(s.chain)' \/ Covers(s.chain, s.from, s.leaves)'
    BY <1>3, <2>2 DEF RangeOK
  <2>. QED
    BY <2>1, <2>4, <2>5 DEF RangeOK, BrokenTwice, Covers, Doubled, Gapped, Head_seq, Seqs
<1>5. ASSUME NEW k \in checkpoints PROVE RootOK(k)'
  <2>1. k.chain \in Chains /\ RootOK(k)
    BY DEF RootInv, CpInv, CpTypeOK, Checkpoints
  <2>. QED
    BY <1>3, <2>1 DEF RootOK
<1>. QED
  BY <1>0, <1>2, <1>4, <1>5 DEF RootInv

(* With the rows as they are a chain shows what it showed.                  *)
LEMMA SameChains ==
  ASSUME UNCHANGED rows
  PROVE  \A c : /\ Head_seq(c)' = Head_seq(c)
                /\ BrokenTwice(c)' <=> BrokenTwice(c)
                /\ \A from, leaves : Covers(c, from, leaves)' <=> Covers(c, from, leaves)
<1>1. \A c : Seqs(c)' = Seqs(c)
  BY DEF Seqs
<1>2. ASSUME NEW c PROVE Head_seq(c)' = Head_seq(c)
  BY SMT DEF Head_seq, Seqs
<1>3. ASSUME NEW c PROVE BrokenTwice(c)' <=> BrokenTwice(c)
  <2>1. Doubled(c)' <=> Doubled(c)
    BY DEF Doubled
  <2>2. Gapped(c)' <=> Gapped(c)
    BY <1>1, <1>2 DEF Gapped
  <2>. QED
    BY <2>1, <2>2 DEF BrokenTwice
<1>4. \A c, from, leaves : Covers(c, from, leaves)' <=> Covers(c, from, leaves)
  BY DEF Covers
<1>. QED
  BY <1>2, <1>3, <1>4

(* A replica goes on, and what it holds of a range is as it should be.      *)
LEMMA RangeStep ==
  ASSUME RootInv, CpInv', NEW r \in Replicas, NEW s, Step(r, s), RangeOK(s),
         UNCHANGED <<rows, checkpoints>>
  PROVE  RootInv'
<1>1. replica'[r] = s /\ \A q \in Replicas : q # r => replica'[q] = replica[q]
  BY DEF Step, RootInv, CpInv, CpTypeOK
<1>2. \A c \in Chains : RowsAlike(c)'
  BY DEF RootInv, RowsAlike
<1>3. ASSUME NEW q \in Replicas PROVE RangeOK(replica[q])'
  <2>1. PICK t : t = replica'[q] /\ RangeOK(t)
    BY <1>1 DEF RootInv
  <2>. QED
    BY <2>1, SameChains DEF RangeOK
<1>4. \A k \in checkpoints' : RootOK(k)'
  BY SameChains DEF RootInv, RootOK
<1>. QED
  BY <1>2, <1>3, <1>4 DEF RootInv

(* Away from the queries of a range, a replica holds nothing of one.        *)
LEMMA Elsewhere ==
  ASSUME NEW s, s.pc \notin {"last", "leaves", "put"}
  PROVE  RangeOK(s)
BY DEF RangeOK

(* Boot and installation know nothing of ranges, nor does the start or the  *)
(* end of a tick.                                                           *)
LEMMA RootElsewhereStep ==
  ASSUME RootInv, CpInv', NEW r \in Replicas,
         Boots(r) \/ Installs(r) \/ TickStart(r) \/ TickEnd(r) \/ QueryFails(r) \/ Crash(r)
  PROVE  RootInv'
<1>. DEFINE me == replica[r]
<1>0. me \in ReplicaStates
  BY ReplicaFacts DEF RootInv
<1>1. Down.pc = "down" /\ Rest(r).pc = "idle"
  BY DEF Down, Rest
<1>2. \E s : Step(r, s) /\ s.pc \notin {"last", "leaves", "put"}
  <2>1. CASE LoadKey(r)
    <3>1. [Down EXCEPT !.pc = "select", !.key = file, !.time = now].pc = "select"
      BY DEF Down
    <3>. QED
      BY <2>1, <3>1 DEF LoadKey
  <2>2. CASE GenerateKey(r)
    <3>1. \A k : [Down EXCEPT !.pc = "write", !.key = k].pc = "write"
      BY DEF Down
    <3>. QED
      BY <2>2, <3>1 DEF GenerateKey
  <2>3. CASE WriteKey(r)
    <3>1. [me EXCEPT !.pc = "select", !.time = now].pc = "select"
      BY <1>0 DEF ReplicaStates
    <3>. QED
      BY <2>3, <3>1 DEF WriteKey
  <2>4. CASE InstallSelect(r)
    <3>1. [me EXCEPT !.pc = "update"].pc = "update"
      BY <1>0 DEF ReplicaStates
    <3>. QED
      BY <1>1, <2>4, <3>1 DEF InstallSelect
  <2>5. CASE InstallUpdate(r)
    <3>1. [me EXCEPT !.pc = "insert"].pc = "insert"
      BY <1>0 DEF ReplicaStates
    <3>2. \A k, pc : [me EXCEPT !.pc = pc, !.closing = k].pc = pc
      BY <1>0 DEF ReplicaStates
    <3>3. \/ Step(r, [me EXCEPT !.pc = "insert"])
          \/ \E k \in OpenKeys, pc \in {"waiting", "insert"} :
               Step(r, [me EXCEPT !.pc = pc, !.closing = k.key])
      BY <2>5 DEF InstallUpdate, Goto
    <3>4. CASE Step(r, [me EXCEPT !.pc = "insert"])
      BY <3>1, <3>4
    <3>5. ASSUME NEW k \in OpenKeys, NEW pc \in {"waiting", "insert"},
                 Step(r, [me EXCEPT !.pc = pc, !.closing = k.key])
          PROVE  \E s : Step(r, s) /\ s.pc \notin {"last", "leaves", "put"}
      BY <3>2, <3>5
    <3>. QED
      BY <3>3, <3>4, <3>5
  <2>6. CASE InstallWaited(r)
    <3>1. \A k : [me EXCEPT !.pc = "insert", !.closing = k].pc = "insert"
      BY <1>0 DEF ReplicaStates
    <3>. QED
      BY <2>6, <3>1 DEF InstallWaited
  <2>7. CASE InstallInsert(r)
    BY <1>1, <2>7 DEF InstallInsert
  <2>8. CASE TickStart(r)
    <3>1. \A w : [me EXCEPT !.pc = "head", !.time = now, !.walk = w].pc = "head"
      BY <1>0 DEF ReplicaStates
    <3>. QED
      BY <2>8, <3>1 DEF TickStart
  <2>9. CASE TickEnd(r) \/ QueryFails(r)
    BY <1>1, <2>9 DEF TickEnd, QueryFails
  <2>10. CASE Crash(r)
    BY <1>1, <2>10 DEF Crash
  <2>. QED
    BY <2>1, <2>2, <2>3, <2>4, <2>5, <2>6, <2>7, <2>8, <2>9, <2>10 DEF Boots, Installs
<1>3. UNCHANGED <<rows, checkpoints>>
  BY DEF Boots, Installs, LoadKey, GenerateKey, WriteKey, InstallSelect, InstallUpdate,
         InstallWaited, InstallInsert, TickStart, TickEnd, QueryFails, Crash
<1>. QED
  BY <1>2, <1>3, Elsewhere, RangeStep

(* The head that is read bounds the range, and the leaves cover it.         *)
LEMMA RootReadStep ==
  ASSUME RootInv, CpInv', NEW r \in Replicas, ReadHead(r) \/ ReadLast(r) \/ ReadLeaves(r)
  PROVE  RootInv'
<1>. DEFINE me == replica[r]
<1>0. /\ me \in ReplicaStates /\ ReplicaOK(me) /\ RangeOK(me)
      /\ rows \in [Chains -> SUBSET Rows]
  BY ReplicaFacts DEF RootInv, CpInv, CpTypeOK
<1>1. Rest(r).pc = "idle" /\ Onward(r).pc = "head"
  BY <1>0 DEF Down, Rest, Onward, ReplicaStates
<1>2. RangeOK(Rest(r)) /\ RangeOK(Onward(r))
  BY <1>1, Elsewhere
<1>3. UNCHANGED <<rows, checkpoints>>
  BY DEF ReadHead, ReadLast, ReadLeaves
<1>4. CASE ReadHead(r)
  <2>1. PICK c \in me.walk :
          Step(r, [me EXCEPT !.pc = "last", !.chain = c, !.walk = @ \ {c},
                             !.head = Head_seq(c)])
    BY <1>4 DEF ReadHead
  <2>2. PICK s : /\ s = [me EXCEPT !.pc = "last", !.chain = c, !.walk = @ \ {c},
                                   !.head = Head_seq(c)]
                 /\ Step(r, s)
    BY <2>1
  <2>3. s.pc = "last" /\ s.chain = c /\ s.head = Head_seq(c)
    BY <1>0, <2>2 DEF ReplicaStates
  <2>4. c \in Chains /\ Head_seq(c) \in Int
    BY <1>0, <2>1, HeadType DEF ReplicaStates
  <2>5. RangeOK(s)
    BY <2>3, <2>4 DEF RangeOK
  <2>. QED
    BY <1>3, <2>2, <2>5, RangeStep
<1>5. CASE ReadLast(r)
  <2>1. me.pc = "last"
    BY <1>5 DEF ReadLast, Is
  <2>2. \A from : RangeOK([me EXCEPT !.pc = "leaves", !.from = from])
    <3>1. ASSUME NEW from, NEW s, s = [me EXCEPT !.pc = "leaves", !.from = from]
          PROVE  RangeOK(s)
      <4>1. s.pc = "leaves" /\ s.chain = me.chain /\ s.head = me.head
        BY <1>0, <3>1 DEF ReplicaStates
      <4>. QED
        BY <1>0, <2>1, <4>1 DEF RangeOK
    <3>. QED
      BY <3>1
  <2>3. \E s : Step(r, s) /\ RangeOK(s)
    BY <1>2, <1>5, <2>2 DEF ReadLast
  <2>. QED
    BY <1>3, <2>3, RangeStep
<1>6. CASE ReadLeaves(r)
  <2>1. /\ me.pc = "leaves" /\ me.chain \in Chains /\ Here(r) = me.chain
        /\ me.from \in 1 .. me.head /\ me.head \in Nat
        /\ me.head <= Head_seq(me.chain)
    <3>1. me.pc = "leaves" /\ Here(r) = me.chain
      BY <1>6 DEF ReadLeaves, Is, Here
    <3>2. me.chain \in Chains /\ me.from \in 1 .. me.head
      BY <1>0, <3>1 DEF ReplicaOK
    <3>3. me.head \in Nat
      BY <1>0, CheckpointerParameters DEF ReplicaStates
    <3>4. me.head <= Head_seq(me.chain)
      BY <1>0, <3>1 DEF RangeOK
    <3>. QED
      BY <3>1, <3>2, <3>3, <3>4
  <2>2. PICK a \in InOrder(Between(me.chain, me.from, me.head)) :
          Step(r, IF Len(a) = me.head - me.from + 1
                  THEN [me EXCEPT !.pc = "put", !.head = 0, !.leaves = HashesOf(a)]
                  ELSE Rest(r))
    BY <1>6, <2>1 DEF ReadLeaves
  <2>3. CASE Len(a) = me.head - me.from + 1
    <3>1. PICK s : s = [me EXCEPT !.pc = "put", !.head = 0, !.leaves = HashesOf(a)] /\ Step(r, s)
      BY <2>2, <2>3
    <3>2. s.pc = "put" /\ s.chain = me.chain /\ s.from = me.from /\ s.leaves = HashesOf(a)
      BY <1>0, <3>1 DEF ReplicaStates
    <3>3. RowsAlike(me.chain)
      BY <2>1 DEF RootInv
    <3>4. BrokenTwice(me.chain) \/ Covers(me.chain, me.from, HashesOf(a))
      BY <1>0, <2>1, <2>3, <3>3, LeavesCover
    <3>5. RangeOK(s)
      BY <3>2, <3>4 DEF RangeOK
    <3>. QED
      BY <1>3, <3>1, <3>5, RangeStep
  <2>4. CASE Len(a) # me.head - me.from + 1
    BY <1>2, <1>3, <2>2, <2>4, RangeStep
  <2>. QED
    BY <2>3, <2>4
<1>. QED
  BY <1>4, <1>5, <1>6

(* What is put is the range that was read. *)
LEMMA RootPutStep ==
  ASSUME RootInv, CpInv', NEW r \in Replicas, Put(r)
  PROVE  RootInv'
<1>. DEFINE me == replica[r]
            k == Seal_range(r)
<1>0. me \in ReplicaStates /\ ReplicaOK(me) /\ RangeOK(me) /\ me.pc = "put"
  BY ReplicaFacts DEF RootInv, Put, Is
<1>1. /\ k.chain = me.chain /\ k.from = me.from /\ k.to = me.from + Len(me.leaves) - 1
      /\ k.leaves = me.leaves
  BY DEF Seal_range, Here
<1>2. me.from \in Int /\ Len(me.leaves) \in Int
  BY <1>0, CheckpointerParameters DEF ReplicaStates
<1>3. Len(k.leaves) = k.to - k.from + 1
  <2>1. PICK f \in Int, n \in Int : f = me.from /\ n = Len(me.leaves)
    BY <1>2
  <2>2. Len(k.leaves) = n /\ k.to = f + n - 1 /\ k.from = f
    BY <1>1, <2>1
  <2>. HIDE DEF k
  <2>. QED
    BY <2>2
<1>4. RootOK(k)
  BY <1>0, <1>1, <1>3 DEF RootOK, RangeOK
<1>5. checkpoints' \subseteq checkpoints \union {k} /\ Step(r, Onward(r)) /\ UNCHANGED rows
  BY DEF Put
<1>6. RangeOK(Onward(r))
  BY <1>0, Elsewhere DEF Onward, ReplicaStates
<1>7. /\ replica'[r] = Onward(r)
      /\ \A q \in Replicas : q # r => replica'[q] = replica[q]
  BY <1>5 DEF Step, RootInv, CpInv, CpTypeOK
<1>8. ASSUME NEW q \in Replicas PROVE RangeOK(replica[q])'
  <2>1. PICK t : t = replica'[q] /\ RangeOK(t)
    BY <1>6, <1>7 DEF RootInv
  <2>. QED
    BY <1>5, <2>1, SameChains DEF RangeOK
<1>9. \A j \in checkpoints' : RootOK(j)
  BY <1>4, <1>5 DEF RootInv
<1>10. \A j \in checkpoints' : RootOK(j)'
  BY <1>5, <1>9, SameChains DEF RootOK
<1>11. \A c \in Chains : RowsAlike(c)'
  BY <1>5 DEF RootInv, RowsAlike
<1>. QED
  BY <1>8, <1>10, <1>11 DEF RootInv

LEMMA RootStep == RootInv /\ [CpNext]_cpVars => RootInv'
<1>. SUFFICES ASSUME RootInv, [CpNext]_cpVars PROVE RootInv'
  OBVIOUS
<1>1. CpInv'
  BY CpStep DEF RootInv
<1>2. ASSUME UNCHANGED <<rows, checkpoints, replica>> PROVE RootInv'
  <2>1. \A c \in Chains : RowsAlike(c)'
    BY <1>2 DEF RootInv, RowsAlike
  <2>2. \A r \in Replicas : RangeOK(replica[r])'
    BY <1>2, SameChains DEF RootInv, RangeOK
  <2>3. \A k \in checkpoints' : RootOK(k)'
    BY <1>2, SameChains DEF RootInv, RootOK
  <2>. QED
    BY <1>1, <2>1, <2>2, <2>3 DEF RootInv
<1>3. CASE RotateFile \/ Advance \/ UNCHANGED cpVars
  BY <1>2, <1>3 DEF RotateFile, Advance, cpVars
<1>. QED
  BY <1>1, <1>3, RootRowStep, RootElsewhereStep, RootReadStep, RootPutStep DEF CpNext, Ticks

LEMMA RootInitially == CpInit => RootInv
<1>. SUFFICES ASSUME CpInit PROVE RootInv
  OBVIOUS
<1>1. CpInv
  BY CpInitially
<1>2. \A c \in Chains : RowsAlike(c)
  BY DEF CpInit, RowsAlike
<1>3. \A r \in Replicas : RangeOK(replica[r])
  BY Elsewhere DEF CpInit, Down
<1>. QED
  BY <1>1, <1>2, <1>3 DEF CpInit, RootInv

(* A root is over one row for each place of its range, in their order, as   *)
(* long as no chain has both a place with two rows and one with none: the   *)
(* count in tick sees each of the two, and only together they make up for   *)
(* each other.  Rows may come, and other replicas seal, between the queries *)
(* for the head, the last checkpoint and the leaves.                        *)
THEOREM RootsCoverTheirRanges ==
  CpSpec => []((\A c \in Chains : ~ BrokenTwice(c)) => RootCoversRange)
<1>1. RootInv => ((\A c \in Chains : ~ BrokenTwice(c)) => RootCoversRange)
  <2>. SUFFICES ASSUME RootInv, \A c \in Chains : ~ BrokenTwice(c), NEW k \in checkpoints
                PROVE  Len(k.leaves) = k.to - k.from + 1 /\ Covers(k.chain, k.from, k.leaves)
    BY DEF RootCoversRange, Covers
  <2>1. k.chain \in Chains /\ RootOK(k)
    BY DEF RootInv, CpInv, CpTypeOK, Checkpoints
  <2>. QED
    BY <2>1 DEF RootOK
<1>. QED
  BY <1>1, RootStep, RootInitially, PTL DEF CpSpec

=============================================================================
