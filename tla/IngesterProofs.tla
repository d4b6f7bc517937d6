--------------------------- MODULE IngesterProofs ---------------------------
(* Proofs about Ingester, for any chains, messages, window and bounds. *)
EXTENDS IngesterProperties, FiniteSetTheorems, TLAPS

-----------------------------------------------------------------------------
(* What the helpers return *)

(* The number of stored copies of an event is a number: `Copies` counts a   *)
(* subset of the finite domain of a sequence.                               *)
LEMMA CopiesType ==
  ASSUME rows \in [Chains -> Seq(Row)], NEW c \in Chains, NEW e
  PROVE  Copies(c, e) \in Nat
<1>. DEFINE S == {i \in DOMAIN rows[c] : rows[c][i].event = e}
<1>1. rows[c] \in Seq(Row)
  OBVIOUS
<1>2. /\ Len(rows[c]) \in Nat
      /\ DOMAIN rows[c] = 1 .. Len(rows[c])
  BY <1>1
<1>3. IsFiniteSet(1 .. Len(rows[c]))
  BY <1>2, FS_Interval
<1>4. IsFiniteSet(S)
  BY <1>2, <1>3, FS_Subset
<1>. QED
  BY <1>4, FS_CardinalityType DEF Copies

(* Sealing yields a row: `chain_event` fills in seq, prev_hash and hash.    *)
LEMMA SealedEventType ==
  ASSUME rows \in [Chains -> Seq(Row)], NEW c \in Chains,
         NEW w \in Writer, NEW e \in EventIds
  PROVE  SealedEvent(w, c, e) \in Row
  BY CopiesType DEF SealedEvent, Row, Writer, Hash

(* Sealing moves a writer to another writer.                                *)
LEMMA AdvanceType ==
  ASSUME NEW w \in Writer, NEW row \in Row
  PROVE  Advance(w, row) \in Writer
<1>1. Remember(w.seen, row) \in SUBSET [id : EventIds, at : Nat]
  BY DEF Remember, Writer, Row
<1>2. w.next + 1 \in Nat \ {0}
  BY DEF Writer
<1>. QED
  BY <1>1, <1>2 DEF Advance, Writer, Row

(* Rewinding, too.                                                          *)
LEMMA RewindType ==
  ASSUME NEW w \in Writer, NEW cursor \in Cursor
  PROVE  RewindTo(w, cursor) \in Writer
  BY DEF RewindTo, Writer, Cursor

(* `Ingester::rewind` returns a map of writers. *)
LEMMA RewoundType ==
  ASSUME IsMap(writers, Writer), IsMap(rollback, Cursor)
  PROVE  IsMap(Rewound, Writer)
  BY RewindType DEF Rewound, IsMap

(* Putting an entry into a map of chains leaves a map of chains. *)
LEMMA PutType ==
  ASSUME NEW S, NEW f, IsMap(f, S), NEW c \in Chains, NEW v \in S
  PROVE  IsMap(Put(f, c, v), S)
  BY DEF IsMap, Put

(* A batch that has chained nothing is an empty sequence per chain. *)
LEMMA NoRowsType == NoRows \in [Chains -> Seq(Row)]
  BY DEF NoRows

(* An insert leaves sequences of rows. *)
LEMMA StoredType ==
  ASSUME rows \in [Chains -> Seq(Row)], chained \in [Chains -> Seq(Row)]
  PROVE  Stored \in [Chains -> Seq(Row)]
  BY DEF Stored

(* The empty map is a map to anything. *)
LEMMA EmptyMapType == ASSUME NEW S PROVE IsMap(EmptyMap, S)
  BY DEF IsMap, EmptyMap

(* A store's head gives a position from which a writer can resume.          *)
LEMMA ResumeType ==
  ASSUME rows \in [Chains -> Seq(Row)], NEW c \in Chains, NEW head \in Head0(c)
  PROVE  ResumeFrom(head.seq, head.hash) \in Writer
<1>1. head.seq \in Nat /\ head.hash \in Hash \cup {GENESIS}
  <2>1. CASE rows[c] = <<>>
    BY <2>1 DEF Head0
  <2>2. CASE rows[c] # <<>>
    <3>1. PICK i \in DOMAIN rows[c] :
            head = [seq |-> rows[c][i].seq, hash |-> rows[c][i].hash]
      BY <2>2 DEF Head0
    <3>2. rows[c][i] \in Row
      BY <3>1
    <3>. QED
      BY <3>1, <3>2 DEF Row
  <2>. QED
    BY <2>1, <2>2
<1>. QED
  BY <1>1 DEF ResumeFrom, Writer

(* What a rollback entry saves of a writer is a cursor. *)
LEMMA CursorType == ASSUME NEW w \in Writer PROVE CursorOf(w) \in Cursor
  BY DEF CursorOf, Writer, Cursor

(* Appending one event of the batch keeps the types.                        *)
LEMMA ChainTypeOK ==
  ASSUME TypeOK, NEW m \in batch, NEW w \in Writer, Chain(m, w)
  PROVE  TypeOK'
<1>. DEFINE c == ChainOf[m]
<1>1. m \in Messages /\ c \in Chains /\ m \in EventIds
  BY Parameters DEF TypeOK, EventIds
<1>. DEFINE row == SealedEvent(w, c, m)
<1>2. row \in Row
  BY <1>1, SealedEventType DEF TypeOK
<1>3. Advance(w, row) \in Writer
  BY <1>2, AdvanceType
<1>4. IsMap(writers, Writer)'
  BY <1>1, <1>3, PutType DEF Chain, TypeOK
<1>5. IsMap(rollback, Cursor)'
  BY <1>1, CursorType, PutType, EmptyMapType DEF Chain, TypeOK
<1>6. chained' \in [Chains -> Seq(Row)]
  BY <1>1, <1>2 DEF Chain, TypeOK
<1>7. pc' \in {"chain", "ack", "insert"}
  BY DEF Chain
<1>. QED
  BY <1>4, <1>5, <1>6, <1>7 DEF Chain, TypeOK

(* Deferring a batch keeps the types.                                       *)
LEMMA DeferTypes ==
  ASSUME TypeOK, Defer
  PROVE  /\ IsMap(writers, Writer)'
         /\ pc' = "nak"
         /\ batch' = {} /\ chained' = NoRows /\ rollback' = EmptyMap
         /\ attempt' = 0
  BY RewoundType DEF Defer, TypeOK

(* A failed insert attempt keeps the types, retried or given up. *)
LEMMA AttemptTypes ==
  ASSUME TypeOK, pc = "insert", AttemptFailed
  PROVE  /\ IsMap(writers, Writer)'
         /\ pc' \in {"insert", "nak"}
         /\ batch' \in SUBSET Messages
         /\ chained' \in [Chains -> Seq(Row)]
         /\ IsMap(rollback, Cursor)'
         /\ attempt' \in 0 .. MaxAttempts - 1
<1>1. CASE Defer
  BY <1>1, DeferTypes, NoRowsType, EmptyMapType, Parameters DEF TypeOK
<1>2. CASE UNCHANGED <<writers, pc, batch, chained, rollback>>
           /\ attempt + 1 < MaxAttempts /\ attempt' = attempt + 1
  BY <1>2, Parameters DEF TypeOK, IsMap
<1>. QED
  BY <1>1, <1>2 DEF AttemptFailed

(* The locals of a pull that has ended have their types. *)
LEMMA PullEndsTypes ==
  ASSUME PullEnds
  PROVE  /\ pc' = "idle"
         /\ batch' = {} /\ pending' = {} /\ attempt' = 0
         /\ chained' \in [Chains -> Seq(Row)]
         /\ IsMap(rollback, Cursor)'
         /\ 0 \in 0 .. MaxAttempts - 1
  BY NoRowsType, EmptyMapType, Parameters DEF PullEnds

(* The fault counter stays within its bound. *)
LEMMA CountedType ==
  ASSUME TypeOK, NEW kind, Counted(kind)
  PROVE  faults' \in 0 .. MaxFaults
  BY Parameters DEF TypeOK, Counted

-----------------------------------------------------------------------------
(* The type invariant *)

(* The heartbeat arm of `run` keeps the types. *)
LEMMA HeartbeatTypeOK == TypeOK /\ Heartbeats => TypeOK'
<1>. SUFFICES ASSUME TypeOK, Heartbeats
              PROVE  TypeOK'
  OBVIOUS
<1>. DEFINE due == {c \in DOMAIN writers : writers[c].day # today}
            silent == {c \in due : ~Duplicate(writers[c], <<c, today>>)}
            beat == [c \in silent |-> SealedEvent(writers[c], c, <<c, today>>)]
<1>1. /\ DOMAIN writers \subseteq Chains
      /\ \A c \in DOMAIN writers : writers[c] \in Writer
  BY DEF TypeOK, IsMap
<1>2. ASSUME NEW c \in silent
      PROVE  beat[c] \in Row
  <2>1. <<c, today>> \in EventIds
    BY <1>1 DEF EventIds, HeartbeatIds, TypeOK
  <2>. QED
    BY <1>1, <2>1, SealedEventType DEF TypeOK
<1>3. ASSUME NEW c \in DOMAIN writers
      PROVE  MarkDay(writers[c]) \in Writer
  BY <1>1 DEF MarkDay, Writer, TypeOK
<1>4. IsMap(writers, Writer)'
  <2>1. ASSUME NEW c \in silent
        PROVE  Advance(MarkDay(writers[c]), beat[c]) \in Writer
    BY <1>2, <1>3, AdvanceType
  <2>. QED
    BY <1>1, <1>3, <2>1 DEF Heartbeats, IsMap
<1>5. chained' \in [Chains -> Seq(Row)]
  <2>1. ASSUME NEW c \in silent
        PROVE  <<beat[c]>> \in Seq(Row)
    BY <1>2
  <2>. QED
    BY <2>1 DEF Heartbeats
<1>6. faults' \in 0 .. MaxFaults
  BY CountedType DEF Heartbeats, TickWins, TypeOK
<1>7. pc' \in {"idle", "beat"} /\ attempt' \in 0 .. MaxAttempts - 1
  BY Parameters DEF Heartbeats
<1>8. IsMap(rollback, Cursor)'
  BY EmptyMapType DEF Heartbeats
<1>9. batch' = {} /\ pending' = {} /\ UNCHANGED <<deliv, rows, today>>
  BY DEF Heartbeats
<1>. HIDE DEF due, silent, beat
<1>. QED
  BY <1>4, <1>5, <1>6, <1>7, <1>8, <1>9 DEF TypeOK

(* Every step keeps the types. *)
LEMMA TypeStep == TypeOK /\ [Next]_vars => TypeOK'
<1>. SUFFICES ASSUME TypeOK, [Next]_vars
              PROVE  TypeOK'
  OBVIOUS
<1>1. CASE Pull
  BY <1>1 DEF Pull, TypeOK, IsMap
<1>2. ASSUME NEW m \in Messages, ChainNext(m)
      PROVE  TypeOK'
  <2>1. ChainOf[m] \in DOMAIN writers /\ writers[ChainOf[m]] \in Writer
    BY <1>2 DEF ChainNext, TypeOK, IsMap
  <2>. QED
    BY <1>2, <2>1, ChainTypeOK DEF ChainNext
<1>3. ASSUME NEW m \in Messages, ResumeChain(m)
      PROVE  TypeOK'
  <2>1. PICK head \in Head0(ChainOf[m]) :
          m \in batch /\ Chain(m, ResumeFrom(head.seq, head.hash))
    BY <1>3 DEF ResumeChain
  <2>2. ResumeFrom(head.seq, head.hash) \in Writer
    BY <2>1, ResumeType, Parameters DEF TypeOK
  <2>. QED
    BY <2>1, <2>2, ChainTypeOK
<1>4. ASSUME NEW m \in Messages, HeadUnavailable(m)
      PROVE  TypeOK'
  BY <1>4, DeferTypes, NoRowsType, EmptyMapType, Parameters
     DEF HeadUnavailable, TypeOK
<1>5. CASE InsertOk
  <2>1. rows' \in [Chains -> Seq(Row)] /\ chained' \in [Chains -> Seq(Row)]
    BY <1>5, StoredType, NoRowsType DEF InsertOk, TypeOK
  <2>2. IsMap(rollback, Cursor)' /\ attempt' \in 0 .. MaxAttempts - 1
    BY <1>5, EmptyMapType, Parameters DEF InsertOk
  <2>. QED
    BY <1>5, <2>1, <2>2 DEF InsertOk, TypeOK
<1>6. CASE InsertFails
  BY <1>6, AttemptTypes DEF InsertFails, TypeOK
<1>7. CASE InsertReplyLost
  BY <1>7, AttemptTypes, StoredType, CountedType DEF InsertReplyLost, TypeOK
<1>8. ASSUME NEW m \in Messages, Ack(m)
      PROVE  TypeOK'
  BY <1>8 DEF Ack, TypeOK, IsMap
<1>9. CASE AckError
  BY <1>9, PullEndsTypes DEF AckError, TypeOK, IsMap
<1>10. CASE Nak
  BY <1>10, PullEndsTypes DEF Nak, TypeOK, IsMap
<1>11. ASSUME NEW m \in Messages, AckTimeout(m)
       PROVE  TypeOK'
  BY <1>11 DEF AckTimeout, pullVars, TypeOK, IsMap
<1>12. CASE Heartbeats
  BY <1>12, HeartbeatTypeOK
<1>13. CASE HeartbeatsStored
  BY <1>13, PullEndsTypes, StoredType DEF HeartbeatsStored, TypeOK, IsMap
<1>14. CASE HeartbeatsFail
  BY <1>14, PullEndsTypes, CountedType DEF HeartbeatsFail, TypeOK, IsMap
<1>15. CASE Crash
  BY <1>15, PullEndsTypes, CountedType, EmptyMapType DEF Crash, TypeOK
<1>16. CASE NextDay
  BY <1>16, Parameters DEF NextDay, pullVars, TypeOK, IsMap, Days
<1>17. CASE Quiet \/ UNCHANGED vars
  BY <1>17 DEF Quiet, vars, TypeOK, IsMap
<1>. QED
  BY <1>1, <1>2, <1>3, <1>4, <1>5, <1>6, <1>7, <1>8, <1>9, <1>10, <1>11,
     <1>12, <1>13, <1>14, <1>15, <1>16, <1>17 DEF Next

(* Every variable stays within its type: cursors are positions, what is     *)
(* stored are sealed rows, maps are keyed by chains.                        *)
THEOREM TypeCorrect == Spec => []TypeOK
<1>1. Init => TypeOK
  BY Parameters, NoRowsType, EmptyMapType DEF Init, TypeOK, Days
<1>. QED
  BY <1>1, TypeStep, PTL DEF Spec

-----------------------------------------------------------------------------
(* Sequences of rows *)

(* A prefix of linked rows is linked.                                       *)
LEMMA LinkedPrefix ==
  ASSUME NEW r \in Seq(Row), NEW s \in Seq(Row), Log!Linked(r \o s)
  PROVE  Log!Linked(r)
<1>. SUFFICES ASSUME NEW i \in DOMAIN r
              PROVE  /\ r[i].seq = i
                     /\ r[i].prev = IF i = 1 THEN GENESIS ELSE r[i - 1].hash
  BY DEF Log!Linked
<1>1. /\ i \in DOMAIN (r \o s) /\ (r \o s)[i] = r[i]
      /\ i # 1 => (r \o s)[i - 1] = r[i - 1]
  OBVIOUS
<1>. QED
  BY <1>1 DEF Log!Linked

(* A row sealed at the end of linked rows links, and is the new end.        *)
LEMMA LinkedAppend ==
  ASSUME NEW r \in Seq(Row), Log!Linked(r), NEW row \in Row,
         row.seq = End(r).next, row.prev = End(r).head
  PROVE  /\ Log!Linked(Append(r, row))
         /\ End(Append(r, row)) = [next |-> row.seq + 1, head |-> row.hash]
<1>. DEFINE a == Append(r, row)
<1>1. /\ Len(a) = Len(r) + 1 /\ a[Len(a)] = row /\ a # <<>>
      /\ DOMAIN a = 1 .. Len(r) + 1
      /\ \A i \in 1 .. Len(r) : a[i] = r[i]
      /\ Len(r) \in Nat /\ DOMAIN r = 1 .. Len(r)
  OBVIOUS
<1>2. row.seq = Len(r) + 1
  BY DEF End
<1>3. row.prev = IF Len(r) = 0 THEN GENESIS ELSE r[Len(r)].hash
  BY DEF End
<1>. HIDE DEF a
<1>4. Log!Linked(a)
  <2>. SUFFICES ASSUME NEW i \in 1 .. Len(r) + 1
                PROVE  /\ a[i].seq = i
                       /\ a[i].prev = IF i = 1 THEN GENESIS ELSE a[i - 1].hash
    BY <1>1 DEF Log!Linked
  <2>1. CASE i \in 1 .. Len(r)
    BY <2>1, <1>1 DEF Log!Linked
  <2>2. CASE i = Len(r) + 1
    BY <2>2, <1>1, <1>2, <1>3
  <2>. QED
    BY <2>1, <2>2, <1>1
<1>5. End(a) = [next |-> row.seq + 1, head |-> row.hash]
  BY <1>1, <1>2 DEF End
<1>. QED
  BY <1>4, <1>5 DEF a

(* Where the chained rows stand, one row more or none at all.               *)
LEMMA ConcatAppend ==
  ASSUME NEW r \in Seq(Row), NEW s \in Seq(Row), NEW row \in Row
  PROVE  r \o Append(s, row) = Append(r \o s, row)
  OBVIOUS

(* Nothing chained leaves the stored rows. *)
LEMMA ConcatEmpty ==
  ASSUME NEW r \in Seq(Row)
  PROVE  r \o <<>> = r
  OBVIOUS

(* The head query of a chain that links returns its end.                    *)
LEMMA HeadIsEnd ==
  ASSUME rows \in [Chains -> Seq(Row)], NEW c \in Chains,
         Log!Linked(rows[c]), NEW head \in Head0(c)
  PROVE  CursorOf(ResumeFrom(head.seq, head.hash)) = End(rows[c])
<1>1. CASE rows[c] = <<>>
  <2>1. head = [seq |-> 0, hash |-> GENESIS]
    BY <1>1 DEF Head0
  <2>. QED
    BY <1>1, <2>1 DEF CursorOf, ResumeFrom, End
<1>2. CASE rows[c] # <<>>
  <2>. DEFINE n == Len(rows[c])
  <2>1. n \in Nat /\ n # 0 /\ DOMAIN rows[c] = 1 .. n
    BY <1>2
  <2>2. PICK i \in DOMAIN rows[c] :
          /\ head = [seq |-> rows[c][i].seq, hash |-> rows[c][i].hash]
          /\ \A j \in DOMAIN rows[c] : rows[c][j].seq <= head.seq
    BY <1>2 DEF Head0
  <2>3. rows[c][i].seq = i /\ rows[c][n].seq = n
    BY <2>1, <2>2 DEF Log!Linked
  <2>4. i = n
    BY <2>1, <2>2, <2>3
  <2>. QED
    BY <1>2, <2>2, <2>3, <2>4 DEF CursorOf, ResumeFrom, End
<1>. QED
  BY <1>1, <1>2

-----------------------------------------------------------------------------
(* The chain stays intact *)

(* The rows of a chain, stored and chained, by their types. *)
LEMMA StoredOfChain ==
  ASSUME TypeOK, NEW c \in Chains
  PROVE  /\ Stored[c] = rows[c] \o chained[c] /\ Stored[c] \in Seq(Row)
         /\ rows[c] \in Seq(Row) /\ chained[c] \in Seq(Row)
         /\ chained[c] = <<>> => Stored[c] = rows[c]
  BY DEF Stored, TypeOK

(* What is stored is a prefix of what is stored and chained, so it links. *)
LEMMA RowsLinked == ASSUME ChainInv, NEW c \in Chains PROVE Log!Linked(rows[c])
  BY StoredOfChain, LinkedPrefix DEF ChainInv

(* The heart of it: `append` with a writer at the end of the chain seals a  *)
(* row that links, and leaves the writer at the new end.                    *)
LEMMA SealedAtEnd ==
  ASSUME TypeOK, NEW c \in Chains, NEW w \in Writer, NEW e \in EventIds,
         Log!Linked(Stored[c]), CursorOf(w) = End(Stored[c])
  PROVE  LET row == SealedEvent(w, c, e)
             s == rows[c] \o Append(chained[c], row)
         IN Log!Linked(s) /\ CursorOf(Advance(w, row)) = End(s)
<1>. DEFINE row == SealedEvent(w, c, e)
<1>1. row \in Row
  BY SealedEventType DEF TypeOK
<1>2. row.seq = End(Stored[c]).next /\ row.prev = End(Stored[c]).head
  BY DEF CursorOf, SealedEvent
<1>3. rows[c] \o Append(chained[c], row) = Append(Stored[c], row)
  <2>1. /\ rows[c] \in Seq(Row) /\ chained[c] \in Seq(Row)
        /\ Stored[c] = rows[c] \o chained[c]
    BY StoredOfChain
  <2>2. rows[c] \o Append(chained[c], row) = Append(rows[c] \o chained[c], row)
    <3>. HIDE DEF row
    <3>. QED
      BY <1>1, <2>1, ConcatAppend, Zenon
  <2>. QED
    BY <2>1, <2>2, Zenon
<1>4. CursorOf(Advance(w, row)) = [next |-> row.seq + 1, head |-> row.hash]
  BY DEF CursorOf, Advance, SealedEvent, Writer
<1>. HIDE DEF row
<1>5. /\ Log!Linked(Append(Stored[c], row))
      /\ End(Append(Stored[c], row)) = [next |-> row.seq + 1, head |-> row.hash]
  BY <1>1, <1>2, StoredOfChain, LinkedAppend
<1>. QED
  BY <1>3, <1>4, <1>5 DEF row

(* Chaining one event of the batch keeps the chain invariant: the sealed
   row links, and a rollback entry is made before the writer moves. *)
LEMMA ChainStep ==
  ASSUME ChainInv, pc = "chain", NEW m \in batch, NEW w \in Writer,
         CursorOf(w) = End(Stored[ChainOf[m]]),
         ChainOf[m] \in DOMAIN rollback => ChainOf[m] \in DOMAIN writers,
         Chain(m, w)
  PROVE  ChainInv'
<1>. DEFINE c == ChainOf[m]
            row == SealedEvent(w, c, m)
<1>1. TypeOK /\ TypeOK'
  BY ChainTypeOK DEF ChainInv
<1>2. m \in Messages /\ c \in Chains /\ m \in EventIds
  BY <1>1, Parameters DEF TypeOK, EventIds
<1>3. /\ rows' = rows
      /\ writers' = Put(writers, c, IF Duplicate(w, m) THEN w ELSE Advance(w, row))
      /\ chained' = IF Duplicate(w, m) THEN chained
                    ELSE [chained EXCEPT ![c] = Append(@, row)]
      /\ \/ pc' = "ack" /\ chained' = NoRows /\ rollback' = EmptyMap
         \/ /\ pc' \in {"chain", "insert"}
            /\ rollback' = IF c \in DOMAIN rollback THEN rollback
                           ELSE Put(rollback, c, CursorOf(w))
  BY DEF Chain
<1>. HIDE DEF row
<1>4. /\ DOMAIN writers' = DOMAIN writers \cup {c}
      /\ writers'[c] = IF Duplicate(w, m) THEN w ELSE Advance(w, row)
      /\ \A d \in DOMAIN writers \ {c} : writers'[d] = writers[d]
  BY <1>3 DEF Put
<1>5. ASSUME NEW d \in Chains, d # c
      PROVE  chained'[d] = chained[d] /\ Stored'[d] = Stored[d]
  BY <1>1, <1>3, <1>5 DEF Stored, TypeOK
<1>6. Log!Linked(Stored'[c]) /\ CursorOf(writers'[c]) = End(Stored'[c])
  <2>1. CASE Duplicate(w, m)
    BY <2>1, <1>2, <1>3, <1>4 DEF ChainInv, Stored
  <2>2. CASE ~Duplicate(w, m)
    <3>1. Stored'[c] = rows[c] \o Append(chained[c], row)
      BY <2>2, <1>1, <1>2, <1>3 DEF Stored, TypeOK
    <3>. QED
      BY <3>1, <2>2, <1>1, <1>2, <1>4, SealedAtEnd DEF ChainInv, row
  <2>. QED
    BY <2>1, <2>2
<1>7. \A d \in Chains : Log!Linked(Stored'[d])
  BY <1>5, <1>6 DEF ChainInv
<1>8. \A d \in DOMAIN writers' : CursorOf(writers'[d]) = End(Stored'[d])
  BY <1>1, <1>4, <1>5, <1>6 DEF ChainInv, TypeOK, IsMap
<1>9. \A d \in Chains : d \notin DOMAIN writers' => chained'[d] = <<>>
  BY <1>4, <1>5 DEF ChainInv
<1>10. \A d \in DOMAIN rollback' : d \in DOMAIN writers' /\ rollback'[d] = End(rows'[d])
  <2>1. CASE rollback' = EmptyMap
    BY <2>1 DEF EmptyMap
  <2>2. CASE c \in DOMAIN rollback /\ rollback' = rollback
    BY <2>2, <1>3, <1>4 DEF ChainInv
  <2>3. CASE c \notin DOMAIN rollback /\ rollback' = Put(rollback, c, CursorOf(w))
    <3>1. chained[c] = <<>>
      BY <2>3, <1>2 DEF ChainInv
    <3>2. CursorOf(w) = End(rows[c])
      BY <3>1, <1>1, <1>2, StoredOfChain
    <3>. QED
      BY <3>2, <2>3, <1>3, <1>4 DEF ChainInv, Put
  <2>. QED
    BY <2>1, <2>2, <2>3, <1>3
<1>11. pc' \in {"chain", "insert"} =>
         \A d \in Chains : d \notin DOMAIN rollback' => chained'[d] = <<>>
  BY <1>3, <1>5 DEF ChainInv, Put
<1>12. /\ pc' \in {"idle", "ack", "nak"} => chained' = NoRows
       /\ pc' \notin {"chain", "insert"} => DOMAIN rollback' = {}
  BY <1>3 DEF EmptyMap
<1>. QED
  BY <1>1, <1>7, <1>8, <1>9, <1>10, <1>11, <1>12 DEF ChainInv

(* Rewinding every touched chain puts every writer back at the stored end.  *)
LEMMA DeferStep ==
  ASSUME ChainInv, pc \in {"chain", "insert"}, Defer, TypeOK', UNCHANGED rows
  PROVE  ChainInv'
<1>1. TypeOK /\ DOMAIN writers \subseteq Chains
  BY DEF ChainInv, TypeOK, IsMap
<1>2. \A c \in Chains : Stored'[c] = rows[c] /\ chained'[c] = <<>>
  BY <1>1, ConcatEmpty DEF Defer, Stored, NoRows, TypeOK
<1>3. DOMAIN writers' = DOMAIN writers
  BY DEF Defer, Rewound
<1>4. ASSUME NEW c \in DOMAIN writers
      PROVE  CursorOf(writers'[c]) = End(rows[c])
  <2>1. writers[c] \in Writer
    BY <1>1 DEF TypeOK, IsMap
  <2>2. CASE c \in DOMAIN rollback
    <3>1. rollback[c] = End(rows[c])
      BY <2>2 DEF ChainInv
    <3>. QED
      BY <2>1, <2>2, <3>1 DEF Defer, Rewound, RewindTo, CursorOf, End, Writer
  <2>3. CASE c \notin DOMAIN rollback
    <3>1. CursorOf(writers[c]) = End(rows[c])
      BY <2>3, <1>1, StoredOfChain DEF ChainInv
    <3>. QED
      BY <2>3, <3>1 DEF Defer, Rewound
  <2>. QED
    BY <2>2, <2>3
<1>5. \A c \in Chains : Log!Linked(rows[c])
  BY RowsLinked
<1>6. pc' = "nak" /\ DOMAIN rollback' = {} /\ chained' = NoRows
  BY DEF Defer, EmptyMap
<1>. QED
  BY <1>1, <1>2, <1>3, <1>4, <1>5, <1>6 DEF ChainInv

(* A process that returns to its loop with nothing chained.                 *)
LEMMA ReturnStep ==
  ASSUME ChainInv, TypeOK', PullEnds,
         \A c \in Chains : Log!Linked(rows'[c]),
         \A c \in DOMAIN writers' : CursorOf(writers'[c]) = End(rows'[c])
  PROVE  ChainInv'
<1>1. /\ pc' = "idle" /\ chained' = NoRows /\ DOMAIN rollback' = {}
      /\ DOMAIN writers' \subseteq Chains
  BY DEF PullEnds, EmptyMap, TypeOK, IsMap
<1>2. \A c \in Chains : Stored'[c] = rows'[c] /\ chained'[c] = <<>>
  BY <1>1, ConcatEmpty DEF Stored, NoRows, TypeOK
<1>. QED
  BY <1>1, <1>2 DEF ChainInv

(* Heartbeats are chained at the end of what is stored. *)
LEMMA HeartbeatStep ==
  ASSUME ChainInv, TypeOK', Heartbeats, "cancel" \notin Faults
  PROVE  ChainInv'
<1>. DEFINE due == {c \in DOMAIN writers : writers[c].day # today}
            silent == {c \in due : ~Duplicate(writers[c], <<c, today>>)}
            row(c) == SealedEvent(writers[c], c, <<c, today>>)
<1>1. TypeOK /\ DOMAIN writers \subseteq Chains
  BY DEF ChainInv, TypeOK, IsMap
<1>2. chained = NoRows /\ \A c \in Chains : chained[c] = <<>>
  BY DEF Heartbeats, TickWins, Counted, ChainInv, NoRows
<1>3. /\ rows' = rows /\ DOMAIN writers' = DOMAIN writers
      /\ chained' = [c \in Chains |-> IF c \in silent THEN <<row(c)>> ELSE <<>>]
      /\ DOMAIN rollback' = {} /\ pc' \in {"idle", "beat"}
      /\ pc' = "idle" => silent = {}
  BY DEF Heartbeats, EmptyMap
<1>4. ASSUME NEW c \in DOMAIN writers
      PROVE  writers'[c] = IF c \in silent
                           THEN Advance(MarkDay(writers[c]), row(c))
                           ELSE IF c \in due THEN MarkDay(writers[c])
                           ELSE writers[c]
  BY DEF Heartbeats
<1>5. ASSUME NEW c \in DOMAIN writers
      PROVE  /\ CursorOf(MarkDay(writers[c])) = CursorOf(writers[c])
             /\ SealedEvent(MarkDay(writers[c]), c, <<c, today>>) = row(c)
             /\ MarkDay(writers[c]) \in Writer
  <2>1. writers[c] \in Writer
    BY <1>1 DEF TypeOK, IsMap
  <2>2. /\ MarkDay(writers[c]) = [writers[c] EXCEPT !.day = today] /\ today \in Days
        /\ MarkDay(writers[c]).next = writers[c].next /\ MarkDay(writers[c]).head = writers[c].head
    BY <1>1, <2>1 DEF MarkDay, Writer, TypeOK
  <2>. QED
    BY <2>1, <2>2 DEF CursorOf, SealedEvent, Writer
<1>6. ASSUME NEW c \in silent
      PROVE  Log!Linked(Stored'[c]) /\ CursorOf(writers'[c]) = End(Stored'[c])
  <2>1. <<c, today>> \in EventIds
    BY <1>1 DEF EventIds, HeartbeatIds, TypeOK
  <2>2. c \in Chains /\ c \in DOMAIN writers
    BY <1>1
  <2>3. Stored'[c] = rows[c] \o Append(chained[c], row(c))
    <3>1. Stored'[c] = rows[c] \o <<row(c)>>
      BY <2>2, <1>3 DEF Stored
    <3>. HIDE DEF row
    <3>2. <<row(c)>> = Append(<<>>, row(c))
      OBVIOUS
    <3>. QED
      BY <3>1, <3>2, <2>2, <1>2
  <2>4. Log!Linked(Stored[c]) /\ CursorOf(writers[c]) = End(Stored[c])
    BY <2>2 DEF ChainInv
  <2>. HIDE DEF due, silent, row
  <2>. QED
    BY <2>1, <2>2, <2>3, <2>4, <1>1, <1>4, <1>5, SealedAtEnd
<1>7. ASSUME NEW c \in Chains \ silent
      PROVE  /\ Stored'[c] = Stored[c] /\ chained'[c] = <<>>
             /\ Log!Linked(Stored'[c])
             /\ c \in DOMAIN writers => CursorOf(writers'[c]) = End(Stored'[c])
  <2>1. Stored'[c] = Stored[c] /\ chained'[c] = <<>>
    BY <1>2, <1>3 DEF Stored
  <2>. HIDE DEF due, silent, row
  <2>. QED
    BY <2>1, <1>4, <1>5 DEF ChainInv
<1>8. pc' = "idle" => chained' = NoRows
  BY <1>3 DEF NoRows
<1>9. silent \subseteq DOMAIN writers
  OBVIOUS
<1>. HIDE DEF due, silent, row
<1>. QED
  BY <1>1, <1>3, <1>6, <1>7, <1>8, <1>9 DEF ChainInv

(* Every step keeps the chain invariant when no fault can fork. *)
LEMMA ChainInvStep ==
  ASSUME Faults \cap ForkingFaults = {}, ChainInv, [Next]_vars
  PROVE  ChainInv'
<1>1. TypeOK /\ TypeOK'
  BY TypeStep DEF ChainInv
<1>2. "cancel" \notin Faults /\ "lostReply" \notin Faults /\ "beatFail" \notin Faults
  BY DEF ForkingFaults
<1>. DEFINE untouched == <<rows, writers, chained, rollback>>
<1>3. ASSUME UNCHANGED untouched, pc' = pc \/ pc \notin {"chain", "insert"},
             pc' \in {"idle", "ack", "nak"} => chained = NoRows,
             pc' \in {"chain", "insert"} => pc \in {"chain", "insert", "idle"}
      PROVE  ChainInv'
  <2>1. \A c \in Chains : Stored'[c] = Stored[c]
    BY <1>3 DEF Stored
  <2>2. pc' \in {"chain", "insert"} =>
          \A c \in Chains : c \notin DOMAIN rollback => chained[c] = <<>>
    BY <1>3 DEF ChainInv, NoRows
  <2>3. pc' \notin {"chain", "insert"} => DOMAIN rollback = {}
    BY <1>3 DEF ChainInv
  <2>. QED
    BY <1>1, <1>3, <2>1, <2>2, <2>3 DEF ChainInv, TypeOK, IsMap
<1>4. CASE Pull
  BY <1>3, <1>4 DEF Pull, ChainInv
<1>5. ASSUME NEW m \in Messages, ChainNext(m)
      PROVE  ChainInv'
  <2>1. /\ writers[ChainOf[m]] \in Writer
        /\ CursorOf(writers[ChainOf[m]]) = End(Stored[ChainOf[m]])
    BY <1>5 DEF ChainNext, ChainInv, TypeOK, IsMap
  <2>. QED
    BY <1>5, <2>1, ChainStep DEF ChainNext
<1>6. ASSUME NEW m \in Messages, ResumeChain(m)
      PROVE  ChainInv'
  <2>. DEFINE c == ChainOf[m]
  <2>1. c \in Chains /\ c \notin DOMAIN writers /\ chained[c] = <<>>
    BY <1>6, Parameters DEF ResumeChain, ChainInv
  <2>2. PICK head \in Head0(c) :
          pc = "chain" /\ m \in batch /\ Chain(m, ResumeFrom(head.seq, head.hash))
    BY <1>6 DEF ResumeChain
  <2>3. ResumeFrom(head.seq, head.hash) \in Writer
    BY <1>1, <2>1, ResumeType DEF TypeOK
  <2>4. CursorOf(ResumeFrom(head.seq, head.hash)) = End(Stored[c])
    BY <1>1, <2>1, HeadIsEnd, RowsLinked, StoredOfChain DEF TypeOK
  <2>5. c \notin DOMAIN rollback
    BY <2>1 DEF ChainInv
  <2>. QED
    BY <2>2, <2>3, <2>4, <2>5, ChainStep
<1>7. ASSUME NEW m \in Messages, HeadUnavailable(m)
      PROVE  ChainInv'
  BY <1>1, <1>7, DeferStep DEF HeadUnavailable
<1>8. CASE InsertOk
  <2>1. /\ rows' = Stored /\ chained' = NoRows /\ writers' = writers
        /\ pc' = "ack" /\ DOMAIN rollback' = {}
    BY <1>8 DEF InsertOk, EmptyMap
  <2>2. \A c \in Chains : Stored'[c] = Stored[c] /\ chained'[c] = <<>>
    BY <1>1, <2>1, StoredOfChain, ConcatEmpty DEF Stored, NoRows
  <2>. QED
    BY <1>1, <2>1, <2>2 DEF ChainInv, TypeOK, IsMap
<1>9. CASE InsertFails
  <2>1. CASE Defer
    BY <1>1, <1>9, <2>1, DeferStep DEF InsertFails
  <2>2. CASE UNCHANGED <<writers, pc, batch, chained, rollback>>
    BY <1>3, <1>9, <2>2 DEF InsertFails, ChainInv
  <2>. QED
    BY <1>9, <2>1, <2>2 DEF InsertFails, AttemptFailed
<1>10. CASE InsertReplyLost
  BY <1>2, <1>10 DEF InsertReplyLost, Counted
<1>11. ASSUME NEW m \in Messages, Ack(m)
       PROVE  ChainInv'
  BY <1>3, <1>11 DEF Ack, ChainInv
<1>12. CASE AckError \/ Nak
  <2>1. PullEnds /\ UNCHANGED <<rows, writers>> /\ chained = NoRows
    BY <1>12 DEF AckError, Nak, ChainInv
  <2>2. \A c \in Chains : Stored[c] = rows[c]
    BY <1>1, <2>1, StoredOfChain DEF NoRows
  <2>3. \A c \in DOMAIN writers : CursorOf(writers[c]) = End(rows[c])
    BY <1>1, <2>2 DEF ChainInv, TypeOK, IsMap
  <2>. QED
    BY <1>1, <2>1, <2>3, RowsLinked, ReturnStep
<1>13. ASSUME NEW m \in Messages, AckTimeout(m)
       PROVE  ChainInv'
  BY <1>3, <1>13 DEF AckTimeout, pullVars, ChainInv
<1>14. CASE Heartbeats
  BY <1>1, <1>2, <1>14, HeartbeatStep
<1>15. CASE HeartbeatsStored
  BY <1>1, <1>15, ReturnStep DEF HeartbeatsStored, ChainInv, TypeOK, IsMap
<1>16. CASE HeartbeatsFail
  BY <1>2, <1>16 DEF HeartbeatsFail, Counted
<1>17. CASE Crash
  <2>1. PullEnds /\ rows' = rows /\ DOMAIN writers' = {}
    BY <1>17 DEF Crash, EmptyMap
  <2>. QED
    BY <1>1, <2>1, RowsLinked, ReturnStep
<1>18. CASE NextDay
  BY <1>3, <1>18 DEF NextDay, pullVars, ChainInv
<1>19. CASE Quiet \/ UNCHANGED vars
  BY <1>3, <1>19 DEF Quiet, vars, ChainInv
<1>. QED
  BY <1>4, <1>5, <1>6, <1>7, <1>8, <1>9, <1>10, <1>11, <1>12, <1>13, <1>14,
     <1>15, <1>16, <1>17, <1>18, <1>19 DEF Next

(* An empty store and no writers satisfy the chain invariant. *)
LEMMA ChainInvInit == Init => ChainInv
<1>. SUFFICES ASSUME Init PROVE ChainInv
  OBVIOUS
<1>1. TypeOK
  BY Parameters, NoRowsType, EmptyMapType DEF Init, TypeOK, Days
<1>2. /\ rows = NoRows /\ chained = NoRows /\ pc = "idle"
      /\ DOMAIN writers = {} /\ DOMAIN rollback = {}
  BY DEF Init, EmptyMap
<1>3. \A c \in Chains : Stored[c] = <<>> /\ chained[c] = <<>>
  BY <1>1, <1>2, StoredOfChain DEF NoRows
<1>4. Log!Linked(<<>>)
  BY DEF Log!Linked
<1>. QED
  BY <1>1, <1>2, <1>3, <1>4 DEF ChainInv

(* The chain in the store never has a gap or a fork: not when the process   *)
(* dies between any two steps, the store refuses inserts or head queries,   *)
(* acks are lost or come too late and messages are redelivered in any       *)
(* order.                                                                   *)
THEOREM ChainStaysIntact ==
  ASSUME Faults \cap ForkingFaults = {}
  PROVE  Spec => []ChainIntact
<1>1. ChainInv => ChainIntact
  BY RowsLinked DEF ChainIntact, Log!Intact
<1>2. ChainInv /\ [Next]_vars => ChainInv'
  BY ChainInvStep
<1>. QED
  BY <1>1, <1>2, ChainInvInit, PTL DEF Spec

(* Between batches a writer stands exactly at the head the store would      *)
(* report, so that dying there or not makes no difference to the chain.     *)
THEOREM WritersStandAtStoreHead ==
  ASSUME Faults \cap ForkingFaults = {}
  PROVE  Spec => []WriterAtStoreHead
<1>1. ChainInv => WriterAtStoreHead
  <2>. SUFFICES ASSUME ChainInv, pc \in {"idle", "ack", "nak"},
                       NEW c \in DOMAIN writers
                PROVE  CursorOf(writers[c]) = End(rows[c])
    BY DEF WriterAtStoreHead
  <2>1. TypeOK /\ c \in Chains /\ chained[c] = <<>>
    BY DEF ChainInv, TypeOK, IsMap, NoRows
  <2>. QED
    BY <2>1, StoredOfChain DEF ChainInv
<1>2. ChainInv /\ [Next]_vars => ChainInv'
  BY ChainInvStep
<1>. QED
  BY <1>1, <1>2, ChainInvInit, PTL DEF Spec

-----------------------------------------------------------------------------
(* No event is lost *)

(* Nothing is acked and nothing remembered at the start. *)
LEMMA LossInvInit == Init => LossInv
<1>. SUFFICES ASSUME Init PROVE LossInv
  OBVIOUS
<1>1. TypeOK
  BY Parameters, NoRowsType, EmptyMapType DEF Init, TypeOK, Days
<1>. QED
  BY <1>1 DEF Init, EmptyMap, LossInv, SeenInv, Log!SettledIsRecorded

(* Where the rows of two sequences are once they are put together. *)
LEMMA ConcatElements ==
  ASSUME NEW r \in Seq(Row), NEW s \in Seq(Row)
  PROVE  /\ \A i \in DOMAIN r : i \in DOMAIN (r \o s) /\ (r \o s)[i] = r[i]
         /\ \A i \in DOMAIN s : /\ Len(r) + i \in DOMAIN (r \o s)
                                /\ (r \o s)[Len(r) + i] = s[i]
  OBVIOUS

(* What is stored stays stored.                                             *)
LEMMA StoredStaysRecorded ==
  ASSUME TypeOK, rows' = rows \/ rows' = Stored, NEW m \in Messages,
         Log!Recorded(m)
  PROVE  Log!Recorded(m)'
<1>. DEFINE c == ChainOf[m]
<1>1. c \in Chains
  BY Parameters
<1>2. CASE rows' = Stored
  <2>1. rows'[c] = rows[c] \o chained[c]
    BY <1>1, <1>2 DEF Stored
  <2>. QED
    BY <1>1, <2>1, ConcatElements DEF Log!Recorded, TypeOK
<1>. QED
  BY <1>2 DEF Log!Recorded

(* What is chained is stored by the insert.                                 *)
LEMMA ChainedGetsRecorded ==
  ASSUME TypeOK, rows' = Stored, NEW m \in Messages, IsChained(m)
  PROVE  Log!Recorded(m)'
<1>. DEFINE c == ChainOf[m]
<1>1. c \in Chains
  BY Parameters
<1>2. PICK i \in DOMAIN chained[c] : chained[c][i].event = m
  BY DEF IsChained
<1>3. rows'[c] = rows[c] \o chained[c]
  BY <1>1 DEF Stored
<1>4. /\ Len(rows[c]) + i \in DOMAIN rows'[c]
      /\ rows'[c][Len(rows[c]) + i] = chained[c][i]
  BY <1>1, <1>2, <1>3, ConcatElements DEF TypeOK
<1>. QED
  BY <1>2, <1>4 DEF Log!Recorded

(* Outside a batch, and for a chain the batch has not touched, everything   *)
(* the writer remembers is stored.                                          *)
LEMMA SeenIsRecorded ==
  ASSUME LossInv, NEW c \in DOMAIN writers, NEW s \in writers[c].seen,
         s.id \in Messages,
         \/ pc \notin {"chain", "insert"} \/ c \notin DOMAIN rollback
         \/ ~(s.at >= rollback[c].next)
  PROVE  ChainOf[s.id] = c /\ Log!Recorded(s.id)
  BY DEF LossInv, SeenInv, RolledBackWith

(* Chaining one event of the batch keeps the loss invariant: a duplicate is
   recorded or chained in this batch, and a new event is chained at or after
   the position its rollback returns to. *)
LEMMA LossChainStep ==
  ASSUME LossInv, pc = "chain", NEW m \in batch, NEW w \in Writer,
         \/ ChainOf[m] \in DOMAIN writers /\ w = writers[ChainOf[m]]
         \/ ChainOf[m] \notin DOMAIN writers /\ w.seen = {},
         Chain(m, w)
  PROVE  LossInv'
<1>. DEFINE c == ChainOf[m]
            row == SealedEvent(w, c, m)
<1>1. TypeOK /\ TypeOK'
  BY ChainTypeOK DEF LossInv
<1>2. m \in Messages /\ c \in Chains /\ m \in EventIds /\ w.next \in Nat
  BY <1>1, Parameters DEF TypeOK, EventIds, Writer
<1>3. /\ UNCHANGED <<rows, deliv, pending>> /\ batch' = batch \ {m}
      /\ writers' = Put(writers, c, IF Duplicate(w, m) THEN w ELSE Advance(w, row))
      /\ chained' = IF Duplicate(w, m) THEN chained
                    ELSE [chained EXCEPT ![c] = Append(@, row)]
  BY DEF Chain
<1>4. row.event = m /\ row.seq = w.next /\ row \in Row
  BY <1>1, <1>2, SealedEventType DEF SealedEvent, TypeOK
<1>5. Advance(w, row).next = w.next + 1
      /\ \A s \in Advance(w, row).seen : s \in w.seen \/ s = [id |-> m, at |-> w.next]
  BY <1>4 DEF Advance, Remember, Writer
<1>. HIDE DEF row
<1>6. /\ DOMAIN writers' = DOMAIN writers \cup {c}
      /\ writers'[c] = IF Duplicate(w, m) THEN w ELSE Advance(w, row)
      /\ \A d \in DOMAIN writers \ {c} : writers'[d] = writers[d]
  BY <1>3 DEF Put
<1>7. \A x \in Messages : Log!Recorded(x) <=> Log!Recorded(x)'
  BY <1>3 DEF Log!Recorded
<1>8. \A x \in Messages : IsChained(x) => IsChained(x)'
  <2>. SUFFICES ASSUME NEW x \in Messages, IsChained(x), ChainOf[x] = c,
                       ~Duplicate(w, m)
                PROVE  IsChained(x)'
    BY <1>1, <1>3, Parameters DEF IsChained, TypeOK
  <2>1. chained'[c] = Append(chained[c], row) /\ chained[c] \in Seq(Row)
    BY <1>1, <1>2, <1>3 DEF TypeOK
  <2>2. \A i \in DOMAIN chained[c] :
          i \in DOMAIN chained'[c] /\ chained'[c][i] = chained[c][i]
    BY <2>1
  <2>. QED
    BY <2>2 DEF IsChained
<1>9. ~Duplicate(w, m) => IsChained(m)'
  <2>. SUFFICES ASSUME ~Duplicate(w, m) PROVE IsChained(m)'
    OBVIOUS
  <2>1. chained'[c] = Append(chained[c], row) /\ chained[c] \in Seq(Row)
    BY <1>1, <1>2, <1>3 DEF TypeOK
  <2>2. /\ Len(chained[c]) + 1 \in DOMAIN chained'[c]
        /\ chained'[c][Len(chained[c]) + 1] = row
    BY <2>1
  <2>. QED
    BY <1>4, <2>2 DEF IsChained
<1>10. Duplicate(w, m) => Log!Recorded(m) \/ IsChained(m)
  BY <1>2 DEF Duplicate, LossInv, SeenInv
<1>11. Log!SettledIsRecorded'
  BY <1>3, <1>7 DEF LossInv, Log!SettledIsRecorded
<1>12. CASE batch = {m} /\ Duplicate(w, m) /\ chained = NoRows
  <2>1. /\ pc' = "ack" /\ DOMAIN rollback' = {} /\ chained' = NoRows
    BY <1>12 DEF Chain, EmptyMap
  <2>2. \A x \in Messages : ~IsChained(x)
    BY <1>12, Parameters DEF IsChained, NoRows
  <2>3. \A x \in pending : Log!Recorded(x)'
    BY <1>1, <1>7, <1>10, <1>12, <2>2 DEF LossInv, TypeOK
  <2>4. SeenInv'
    BY <1>6, <1>7, <1>12, <2>2 DEF LossInv, SeenInv
  <2>. QED
    BY <1>1, <1>3, <1>11, <2>1, <2>3, <2>4 DEF LossInv
<1>13. CASE ~(batch = {m} /\ Duplicate(w, m) /\ chained = NoRows)
  <2>1. /\ pc' \in {"chain", "insert"}
        /\ pc' = "insert" => batch' = {}
        /\ rollback' = IF c \in DOMAIN rollback THEN rollback
                       ELSE Put(rollback, c, CursorOf(w))
    BY <1>13 DEF Chain
  <2>2. /\ DOMAIN rollback' = DOMAIN rollback \cup {c}
        /\ \A d \in DOMAIN rollback : rollback'[d] = rollback[d]
        /\ c \notin DOMAIN rollback => rollback'[c].next = w.next
    BY <2>1 DEF Put, CursorOf
  <2>3. rollback'[c].next \in Nat /\ rollback'[c].next <= w.next
    <3>1. c \in DOMAIN rollback =>
            rollback[c].next \in Nat /\ rollback[c].next <= w.next
      BY <1>1 DEF LossInv, TypeOK, IsMap, Cursor
    <3>. QED
      BY <1>2, <2>2, <3>1
  <2>4. \A d \in DOMAIN rollback' :
          d \in DOMAIN writers' /\ rollback'[d].next <= writers'[d].next
    <3>1. w.next <= writers'[c].next
      BY <1>2, <1>5, <1>6
    <3>2. rollback'[c].next <= writers'[c].next
      BY <1>2, <1>5, <1>6, <2>3
    <3>. QED
      BY <1>6, <2>2, <3>2 DEF LossInv
  <2>5. ASSUME NEW d \in DOMAIN writers', NEW s \in writers'[d].seen, s.id \in Messages
        PROVE  /\ ChainOf[s.id] = d
               /\ \/ Log!Recorded(s.id)'
                  \/ IsChained(s.id)' /\ RolledBackWith(d, s.at)'
    <3>1. CASE d \in DOMAIN writers /\ s \in writers[d].seen
      BY <1>7, <1>8, <2>1, <2>2, <2>5, <3>1 DEF LossInv, SeenInv, RolledBackWith
    <3>2. CASE d = c /\ s = [id |-> m, at |-> w.next] /\ ~Duplicate(w, m)
      BY <1>2, <1>9, <2>1, <2>2, <2>3, <3>2 DEF RolledBackWith
    <3>. QED
      BY <1>5, <1>6, <2>5, <3>1, <3>2
  <2>6. SeenInv'
    BY <2>5 DEF SeenInv
  <2>7. \A x \in pending' \ batch' : Log!Recorded(x)' \/ IsChained(x)'
    BY <1>1, <1>3, <1>7, <1>8, <1>9, <1>10 DEF LossInv, TypeOK
  <2>. QED
    BY <1>1, <1>11, <2>1, <2>4, <2>6, <2>7 DEF LossInv
<1>. QED
  BY <1>12, <1>13

(* Deferring a batch forgets exactly what was not stored.                   *)
LEMMA LossDeferStep ==
  ASSUME LossInv, pc \in {"chain", "insert"}, Defer, TypeOK',
         rows' = rows \/ rows' = Stored, UNCHANGED deliv
  PROVE  LossInv'
<1>1. TypeOK
  BY DEF LossInv
<1>2. pc' = "nak" /\ chained' = NoRows /\ DOMAIN rollback' = {}
  BY DEF Defer, EmptyMap
<1>3. \A x \in Messages : Log!Recorded(x) => Log!Recorded(x)'
  BY <1>1, StoredStaysRecorded
<1>4. SeenInv'
  <2>. SUFFICES ASSUME NEW c \in DOMAIN writers', NEW s \in writers'[c].seen,
                       s.id \in Messages
                PROVE  ChainOf[s.id] = c /\ Log!Recorded(s.id)'
    BY DEF SeenInv
  <2>1. c \in DOMAIN writers /\ writers[c] \in Writer
    BY <1>1 DEF Defer, Rewound, TypeOK, IsMap
  <2>2. writers'[c] = IF c \in DOMAIN rollback
                      THEN RewindTo(writers[c], rollback[c]) ELSE writers[c]
    BY <2>1 DEF Defer, Rewound
  <2>3. /\ s \in writers[c].seen
        /\ c \in DOMAIN rollback => s.at < rollback[c].next
    BY <2>1, <2>2 DEF RewindTo, Writer
  <2>4. c \in DOMAIN rollback => s.at \in Nat /\ rollback[c].next \in Nat
    BY <1>1, <2>1, <2>3 DEF TypeOK, IsMap, Writer, Cursor
  <2>. QED
    BY <1>3, <2>1, <2>3, <2>4, SeenIsRecorded
<1>5. Log!SettledIsRecorded'
  BY <1>3 DEF LossInv, Log!SettledIsRecorded
<1>. QED
  BY <1>2, <1>4, <1>5 DEF LossInv

(* Returning to the loop loses nothing as long as what the writers remember *)
(* is stored.                                                               *)
LEMMA LossReturnStep ==
  ASSUME LossInv, TypeOK', PullEnds,
         rows' = rows \/ rows' = Stored,
         \/ writers' = writers /\ pc \notin {"chain", "insert"}
         \/ writers' = EmptyMap,
         \A m \in Messages : deliv'[m] = "acked" => deliv[m] = "acked"
  PROVE  LossInv'
<1>1. TypeOK
  BY DEF LossInv
<1>2. pc' = "idle" /\ chained' = NoRows /\ DOMAIN rollback' = {}
  BY DEF PullEnds, EmptyMap
<1>3. \A x \in Messages : Log!Recorded(x) => Log!Recorded(x)'
  BY <1>1, StoredStaysRecorded
<1>4. SeenInv'
  <2>1. CASE writers' = writers /\ pc \notin {"chain", "insert"}
    BY <2>1, <1>3, SeenIsRecorded DEF SeenInv
  <2>2. CASE writers' = EmptyMap
    BY <2>2 DEF SeenInv, EmptyMap
  <2>. QED
    BY <2>1, <2>2
<1>5. Log!SettledIsRecorded'
  BY <1>3 DEF LossInv, Log!SettledIsRecorded
<1>. QED
  BY <1>2, <1>4, <1>5 DEF LossInv

(* Heartbeats do not touch what is known of messages.                       *)
LEMMA LossHeartbeatStep ==
  ASSUME LossInv, TypeOK', Heartbeats, "cancel" \notin Faults
  PROVE  LossInv'
<1>. DEFINE due == {c \in DOMAIN writers : writers[c].day # today}
            silent == {c \in due : ~Duplicate(writers[c], <<c, today>>)}
            row(c) == SealedEvent(writers[c], c, <<c, today>>)
<1>1. TypeOK /\ DOMAIN writers \subseteq Chains /\ pc = "idle"
  BY DEF LossInv, TypeOK, IsMap, Heartbeats, TickWins, Counted
<1>2. /\ UNCHANGED <<rows, deliv>> /\ DOMAIN writers' = DOMAIN writers
      /\ pc' \in {"idle", "beat"} /\ (pc' = "idle" => silent = {})
      /\ chained' = [c \in Chains |-> IF c \in silent THEN <<row(c)>> ELSE <<>>]
      /\ DOMAIN rollback' = {}
  BY DEF Heartbeats, EmptyMap
<1>3. ASSUME NEW c \in DOMAIN writers
      PROVE  writers'[c] = IF c \in silent
                           THEN Advance(MarkDay(writers[c]), row(c))
                           ELSE IF c \in due THEN MarkDay(writers[c])
                           ELSE writers[c]
  BY DEF Heartbeats
<1>4. \A x \in Messages : Log!Recorded(x) <=> Log!Recorded(x)'
  BY <1>2 DEF Log!Recorded
<1>5. ASSUME NEW c \in DOMAIN writers, NEW s \in writers'[c].seen,
             s.id \in Messages
      PROVE  s \in writers[c].seen
  <2>1. writers[c] \in Writer /\ <<c, today>> \in HeartbeatIds
    BY <1>1 DEF TypeOK, IsMap, HeartbeatIds
  <2>2. s.id # <<c, today>>
    BY <1>5, <2>1, Parameters
  <2>3. /\ MarkDay(writers[c]).seen = writers[c].seen
        /\ MarkDay(writers[c]) \in Writer
    BY <1>1, <2>1 DEF MarkDay, Writer, TypeOK
  <2>4. ASSUME s \in Advance(MarkDay(writers[c]), row(c)).seen
        PROVE  s \in writers[c].seen
    BY <2>2, <2>3, <2>4 DEF Advance, Remember, Writer, SealedEvent
  <2>. HIDE DEF due, silent, row
  <2>. QED
    BY <1>3, <1>5, <2>3, <2>4
<1>6. SeenInv'
  <2>. SUFFICES ASSUME NEW c \in DOMAIN writers', NEW s \in writers'[c].seen,
                       s.id \in Messages
                PROVE  ChainOf[s.id] = c /\ Log!Recorded(s.id)'
    BY DEF SeenInv
  <2>. QED
    BY <1>1, <1>2, <1>4, <1>5, SeenIsRecorded
<1>7. pc' = "idle" => chained' = NoRows
  BY <1>2 DEF NoRows
<1>8. Log!SettledIsRecorded'
  BY <1>2, <1>4 DEF LossInv, Log!SettledIsRecorded
<1>. HIDE DEF due, silent, row
<1>. QED
  BY <1>2, <1>6, <1>7, <1>8 DEF LossInv

(* A step that neither chains nor rewinds loses nothing as long as it acks   *)
(* only what is stored or does not decode.                                  *)
LEMMA LossKeepStep ==
  ASSUME LossInv, TypeOK', UNCHANGED <<writers, chained, rollback>>,
         rows' = rows \/ rows' = Stored,
         pc \in {"chain", "insert"} => pc' = pc,
         pc' \in {"idle", "ack", "nak"} => chained = NoRows,
         pc' = "ack" => pc = "ack" /\ pending' \subseteq pending,
         pc' \in {"chain", "insert"} =>
           pending' \subseteq batch' \/ UNCHANGED <<pc, pending, batch>>,
         pc' = "insert" => batch' = {},
         \A m \in Messages \ Undecodable :
           deliv'[m] = "acked" => deliv[m] = "acked" \/ Log!Recorded(m)
  PROVE  LossInv'
<1>1. TypeOK
  BY DEF LossInv
<1>2. ASSUME NEW m \in Messages
      PROVE  /\ Log!Recorded(m) => Log!Recorded(m)'
             /\ IsChained(m) => IsChained(m)'
  BY <1>1, StoredStaysRecorded DEF IsChained
<1>3. SeenInv'
  BY <1>2 DEF LossInv, SeenInv, RolledBackWith
<1>4. pc' = "ack" => \A m \in pending' : Log!Recorded(m)'
  BY <1>1, <1>2 DEF LossInv, TypeOK
<1>5. pc' \in {"chain", "insert"} =>
        \A m \in pending' \ batch' : Log!Recorded(m)' \/ IsChained(m)'
  BY <1>1, <1>2 DEF LossInv, TypeOK
<1>6. Log!SettledIsRecorded'
  BY <1>2 DEF LossInv, Log!SettledIsRecorded
<1>7. /\ pc' \notin {"chain", "insert"} => DOMAIN rollback' = {}
      /\ pc' \in {"idle", "ack", "nak"} => chained' = NoRows
      /\ \A c \in DOMAIN rollback' :
           c \in DOMAIN writers' /\ rollback'[c].next <= writers'[c].next
  BY DEF LossInv
<1>. QED
  BY <1>3, <1>4, <1>5, <1>6, <1>7 DEF LossInv

(* Without cancellation, every step keeps the events that are given up      *)
(* recorded.                                                                *)
LEMMA LossInvStep ==
  ASSUME "cancel" \notin Faults, LossInv, [Next]_vars
  PROVE  LossInv'
<1>1. TypeOK /\ TypeOK'
  BY TypeStep DEF LossInv
<1>2. CASE Pull
  <2>1. /\ pc = "idle" /\ chained = NoRows /\ pc' \in {"idle", "chain"}
        /\ UNCHANGED <<rows, writers, chained, rollback>> /\ pending' = batch'
    BY <1>2 DEF Pull, LossInv
  <2>2. \A m \in Messages \ Undecodable : deliv'[m] = "acked" => deliv[m] = "acked"
    BY <1>2 DEF Pull, PoisonAcked, Delivered
  <2>. QED
    BY <1>1, <2>1, <2>2, LossKeepStep
<1>3. ASSUME NEW m \in Messages, ChainNext(m)
      PROVE  LossInv'
  BY <1>1, <1>3, LossChainStep DEF ChainNext, TypeOK, IsMap
<1>4. ASSUME NEW m \in Messages, ResumeChain(m)
      PROVE  LossInv'
  <2>1. PICK head \in Head0(ChainOf[m]) :
          /\ pc = "chain" /\ m \in batch /\ ChainOf[m] \notin DOMAIN writers
          /\ Chain(m, ResumeFrom(head.seq, head.hash))
    BY <1>4 DEF ResumeChain
  <2>2. /\ ResumeFrom(head.seq, head.hash) \in Writer
        /\ ResumeFrom(head.seq, head.hash).seen = {}
    BY <1>1, <2>1, ResumeType, Parameters DEF ResumeFrom, TypeOK
  <2>. QED
    BY <2>1, <2>2, LossChainStep
<1>5. ASSUME NEW m \in Messages, HeadUnavailable(m)
      PROVE  LossInv'
  BY <1>1, <1>5, LossDeferStep DEF HeadUnavailable
<1>6. CASE InsertOk
  <2>1. /\ rows' = Stored /\ chained' = NoRows /\ DOMAIN rollback' = {}
        /\ pc = "insert" /\ pc' = "ack" /\ batch = {}
        /\ UNCHANGED <<deliv, writers, pending>>
    BY <1>6 DEF InsertOk, EmptyMap, LossInv
  <2>2. \A m \in Messages : /\ Log!Recorded(m) => Log!Recorded(m)'
                            /\ IsChained(m) => Log!Recorded(m)'
    BY <1>1, <2>1, StoredStaysRecorded, ChainedGetsRecorded
  <2>3. SeenInv'
    BY <2>1, <2>2 DEF LossInv, SeenInv
  <2>4. \A m \in pending : Log!Recorded(m)'
    BY <1>1, <2>1, <2>2 DEF LossInv, TypeOK
  <2>5. Log!SettledIsRecorded'
    BY <2>1, <2>2 DEF LossInv, Log!SettledIsRecorded
  <2>. QED
    BY <1>1, <2>1, <2>3, <2>4, <2>5 DEF LossInv
<1>7. CASE InsertFails \/ InsertReplyLost
  <2>1. /\ pc = "insert" /\ (rows' = rows \/ rows' = Stored) /\ AttemptFailed
        /\ UNCHANGED <<deliv, pending>>
    BY <1>7 DEF InsertFails, InsertReplyLost
  <2>2. CASE Defer
    BY <1>1, <2>1, <2>2, LossDeferStep
  <2>3. CASE UNCHANGED <<writers, pc, batch, chained, rollback>>
    <3>1. batch' = {}
      BY <2>1, <2>3 DEF LossInv
    <3>. QED
      BY <1>1, <2>1, <2>3, <3>1, LossKeepStep
  <2>. QED
    BY <2>1, <2>2, <2>3 DEF AttemptFailed
<1>8. ASSUME NEW m \in Messages, Ack(m)
      PROVE  LossInv'
  <2>1. /\ pc = "ack" /\ pc' \in {"ack", "idle"} /\ pending' \subseteq pending
        /\ UNCHANGED <<rows, writers, chained, rollback>>
        /\ chained = NoRows /\ Log!Recorded(m)
    BY <1>8 DEF Ack, LossInv
  <2>2. \A x \in Messages : deliv'[x] = "acked" => deliv[x] = "acked" \/ x = m
    BY <1>1, <1>8 DEF Ack, TypeOK
  <2>. QED
    BY <1>1, <2>1, <2>2, LossKeepStep
<1>9. CASE AckError
  BY <1>1, <1>9, LossReturnStep DEF AckError
<1>10. CASE Nak
  BY <1>1, <1>10, LossReturnStep DEF Nak
<1>11. ASSUME NEW m \in Messages, AckTimeout(m)
       PROVE  LossInv'
  <2>1. \A x \in Messages : deliv'[x] = "acked" => deliv[x] = "acked"
    BY <1>1, <1>11 DEF AckTimeout, TypeOK
  <2>. QED
    BY <1>1, <1>11, <2>1, LossKeepStep DEF AckTimeout, pullVars, LossInv
<1>12. CASE Heartbeats
  BY <1>1, <1>12, LossHeartbeatStep
<1>13. CASE HeartbeatsStored
  BY <1>1, <1>13, LossReturnStep DEF HeartbeatsStored
<1>14. CASE HeartbeatsFail
  BY <1>1, <1>14, LossReturnStep DEF HeartbeatsFail
<1>15. CASE Crash
  BY <1>1, <1>15, LossReturnStep DEF Crash
<1>16. CASE NextDay
  BY <1>1, <1>16, LossKeepStep DEF NextDay, pullVars, LossInv
<1>17. CASE Quiet \/ UNCHANGED vars
  BY <1>1, <1>17, LossKeepStep DEF Quiet, vars, LossInv
<1>. QED
  BY <1>2, <1>3, <1>4, <1>5, <1>6, <1>7, <1>8, <1>9, <1>10, <1>11, <1>12,
     <1>13, <1>14, <1>15, <1>16, <1>17 DEF Next

(* An event is given up only once it is in the store, as long as a          *)
(* heartbeat tick cannot drop a batch in flight: neither a crash between    *)
(* any two steps, nor an insert that commits without its reply arriving,    *)
(* nor lost acks, refused inserts and redelivery lose one.                  *)
THEOREM NothingLost ==
  ASSUME "cancel" \notin Faults
  PROVE  Spec => []AckedIsStored
<1>1. LossInv => AckedIsStored
  BY DEF LossInv, AckedIsStored
<1>2. LossInv /\ [Next]_vars => LossInv'
  BY LossInvStep
<1>. QED
  BY <1>1, <1>2, LossInvInit, PTL DEF Spec

-----------------------------------------------------------------------------
(* The ingester implements the audit log *)

(* What is appended to a log extends it.                                    *)
LEMMA ConcatExtends ==
  ASSUME NEW r \in Seq(Row), NEW s \in Seq(Row)
  PROVE  Log!Extends(r \o s, r)
<1>. DEFINE t == r \o s
<1>1. Len(t) = Len(r) + Len(s) /\ Len(r) \in Nat /\ Len(s) \in Nat
  OBVIOUS
<1>2. \A i \in DOMAIN r : t[i] = r[i]
  BY ConcatElements
<1>. HIDE DEF t
<1>. QED
  BY <1>1, <1>2 DEF Log!Extends, t

(* Every step extends the chains by rows that link, or gives up messages    *)
(* that are recorded or do not decode, or changes neither.                  *)
LEMMA LogStep ==
  ASSUME Faults \cap ForkingFaults = {},
         ChainInv, ChainInv', LossInv, [Next]_vars
  PROVE  [Log!Next]_<<rows, {m \in Messages : deliv[m] = "acked"}>>
<1>. DEFINE settled == {m \in Messages : deliv[m] = "acked"}
<1>1. TypeOK /\ TypeOK'
  BY DEF ChainInv
<1>2. ASSUME rows' = Stored, UNCHANGED deliv
      PROVE  Log!Record
  <2>1. ASSUME NEW c \in Chains
        PROVE  Log!Extends(rows'[c], rows[c]) /\ Log!Linked(rows'[c])
    <3>1. rows'[c] = rows[c] \o chained[c] /\ Log!Linked(rows'[c])
      BY <1>2, <2>1, StoredOfChain DEF ChainInv
    <3>2. rows[c] \in Seq(Row) /\ chained[c] \in Seq(Row)
      BY <1>1 DEF TypeOK
    <3>3. Log!Extends(rows[c] \o chained[c], rows[c])
      BY <3>2, ConcatExtends
    <3>. QED
      BY <3>1, <3>3
  <2>. QED
    BY <1>2, <2>1 DEF Log!Record
<1>3. ASSUME UNCHANGED rows,
             \A m \in Messages :
               /\ deliv[m] = "acked" => deliv'[m] = "acked"
               /\ deliv'[m] = "acked" => \/ deliv[m] = "acked"
                                         \/ m \in Undecodable
                                         \/ Log!Recorded(m)
      PROVE  Log!Settle
  BY <1>3 DEF Log!Settle
<1>4. CASE Pull
  BY <1>1, <1>3, <1>4 DEF Pull, PoisonAcked, Delivered, TypeOK, Log!Next
<1>5. CASE \E m \in Messages : Ack(m)
  <2>1. PICK m \in Messages : Ack(m)
    BY <1>5
  <2>2. UNCHANGED rows /\ Log!Recorded(m)
    BY <2>1 DEF Ack, LossInv
  <2>3. \A x \in Messages : /\ deliv[x] = "acked" => deliv'[x] = "acked"
                            /\ deliv'[x] = "acked" => deliv[x] = "acked" \/ x = m
    BY <1>1, <2>1 DEF Ack, TypeOK
  <2>. QED
    BY <1>3, <2>2, <2>3 DEF Log!Next
<1>6. CASE Nak \/ \E m \in Messages : AckTimeout(m)
  <2>1. /\ UNCHANGED rows
        /\ \A x \in Messages : deliv'[x] = "acked" <=> deliv[x] = "acked"
    BY <1>1, <1>6 DEF Nak, AckTimeout, TypeOK
  <2>. QED
    BY <1>3, <2>1 DEF Log!Next
<1>7. CASE InsertOk \/ InsertReplyLost \/ HeartbeatsStored
  BY <1>2, <1>7 DEF InsertOk, InsertReplyLost, HeartbeatsStored, Log!Next
<1>8. CASE \/ \E m \in Messages : ChainNext(m) \/ ResumeChain(m) \/ HeadUnavailable(m)
           \/ InsertFails \/ AckError \/ Heartbeats \/ HeartbeatsFail
           \/ Crash \/ NextDay \/ Quiet \/ UNCHANGED vars
  <2>1. UNCHANGED <<rows, deliv>>
    BY <1>8 DEF ChainNext, ResumeChain, HeadUnavailable, Chain, InsertFails,
                AckError, Heartbeats, HeartbeatsFail, Crash, NextDay, Quiet, vars
  <2>. QED
    BY <2>1
<1>. QED
  BY <1>4, <1>5, <1>6, <1>7, <1>8 DEF Next

(* The detailed ingester implements the abstract log: however it crashes,   *)
(* retries and is redelivered to, a reader of the store sees every chain    *)
(* only grow by rows that link, and nothing given up unrecorded.            *)
THEOREM IngesterImplementsAuditLog ==
  ASSUME Faults \cap ForkingFaults = {}
  PROVE  Spec => ImplementsAuditLog
<1>1. Init => Log!Init
  BY DEF Init, NoRows, Log!Init
<1>2. "cancel" \notin Faults
  BY DEF ForkingFaults
<1>3. ChainInv /\ [Next]_vars => ChainInv'
  BY ChainInvStep
<1>4. LossInv /\ [Next]_vars => LossInv'
  BY <1>2, LossInvStep
<1>5. ChainInv /\ ChainInv' /\ LossInv /\ [Next]_vars
        => [Log!Next]_<<rows, {m \in Messages : deliv[m] = "acked"}>>
  BY LogStep
<1>. QED
  BY <1>1, <1>3, <1>4, <1>5, ChainInvInit, LossInvInit, PTL
     DEF Spec, ImplementsAuditLog, Log!Spec

-----------------------------------------------------------------------------
(***************************************************************************)
(* An Ingester whose batches in flight may be dropped: what still holds of  *)
(* the chains it leaves behind.                                             *)
(***************************************************************************)
(* No seq is used twice *)

(* A prefix ascends and stays below what the whole stays below. *)
LEMMA AscendingPrefix ==
  ASSUME NEW r \in Seq(Row), NEW s \in Seq(Row), NEW n
  PROVE  /\ Ascending(r \o s) => Ascending(r)
         /\ Below(r \o s, n) => Below(r, n)
  BY ConcatElements DEF Ascending, Below

(* A row with a seq beyond all others goes behind them. *)
LEMMA AscendingAppend ==
  ASSUME NEW r \in Seq(Row), NEW row \in Row,
         Ascending(r), Below(r, row.seq)
  PROVE  Ascending(Append(r, row)) /\ Below(Append(r, row), row.seq + 1)
<1>. DEFINE a == Append(r, row)
<1>1. /\ Len(r) \in Nat /\ DOMAIN r = 1 .. Len(r)
      /\ DOMAIN a = 1 .. Len(r) + 1 /\ a[Len(r) + 1] = row
      /\ \A i \in 1 .. Len(r) : a[i] = r[i] /\ r[i] \in Row
  OBVIOUS
<1>2. row.seq \in Nat /\ \A i \in 1 .. Len(r) : r[i].seq \in Nat
  BY <1>1 DEF Row
<1>. HIDE DEF a
<1>3. Ascending(a)
  <2>. SUFFICES ASSUME NEW i \in 1 .. Len(r) + 1, NEW j \in 1 .. Len(r) + 1,
                       i < j
                PROVE  a[i].seq < a[j].seq
    BY <1>1 DEF Ascending
  <2>1. i \in 1 .. Len(r)
    BY <1>1
  <2>2. CASE j \in 1 .. Len(r)
    BY <1>1, <2>1, <2>2 DEF Ascending
  <2>3. CASE j = Len(r) + 1
    BY <1>1, <2>1, <2>3 DEF Below
  <2>. QED
    BY <1>1, <2>2, <2>3
<1>4. Below(a, row.seq + 1)
  BY <1>1, <1>2 DEF Below
<1>. QED
  BY <1>3, <1>4 DEF a

(* What stays below a position stays below a later one. *)
LEMMA BelowLater ==
  ASSUME NEW r \in Seq(Row), NEW k \in Nat, NEW n \in Nat, k <= n, Below(r, k)
  PROVE  Below(r, n)
<1>1. ASSUME NEW i \in DOMAIN r
      PROVE  r[i].seq \in Nat
  <2>1. r[i] \in Row
    OBVIOUS
  <2>. QED
    BY <2>1 DEF Row
<1>. QED
  BY <1>1 DEF Below

(* What a chain has stored ascends below its writer. *)
LEMMA RowsAscend ==
  ASSUME SeqInv, NEW c \in Chains
  PROVE  /\ Ascending(rows[c])
         /\ c \in DOMAIN writers => Below(rows[c], writers[c].next)
<1>1. /\ Stored[c] = rows[c] \o chained[c]
      /\ rows[c] \in Seq(Row) /\ chained[c] \in Seq(Row)
  BY StoredOfChain DEF SeqInv
<1>2. Ascending(rows[c])
  <2>1. Ascending(rows[c] \o chained[c])
    BY <1>1 DEF SeqInv
  <2>. QED
    BY <1>1, <2>1, AscendingPrefix
<1>3. ASSUME c \in DOMAIN writers
      PROVE  Below(rows[c], writers[c].next)
  <2>1. Below(rows[c] \o chained[c], writers[c].next)
    BY <1>1, <1>3 DEF SeqInv
  <2>. QED
    BY <1>1, <2>1, AscendingPrefix
<1>. QED
  BY <1>2, <1>3

(* A writer resumes behind every row that is stored. *)
LEMMA ResumeBelow ==
  ASSUME rows \in [Chains -> Seq(Row)], NEW c \in Chains, NEW head \in Head0(c)
  PROVE  Below(rows[c], ResumeFrom(head.seq, head.hash).next)
<1>1. CASE rows[c] = <<>>
  BY <1>1 DEF Below
<1>2. CASE rows[c] # <<>>
  <2>1. /\ \A i \in DOMAIN rows[c] : rows[c][i].seq <= head.seq
        /\ \E i \in DOMAIN rows[c] : head.seq = rows[c][i].seq
    BY <1>2 DEF Head0
  <2>2. \A i \in DOMAIN rows[c] : rows[c][i] \in Row
    OBVIOUS
  <2>. QED
    BY <2>1, <2>2 DEF Below, ResumeFrom, Row
<1>. QED
  BY <1>1, <1>2

(* Sealing one more row behind everything stored and chained. *)
LEMMA SealedBehind ==
  ASSUME TypeOK, NEW c \in Chains, NEW w \in Writer, NEW e \in EventIds,
         Ascending(Stored[c]), Below(Stored[c], w.next)
  PROVE  LET row == SealedEvent(w, c, e)
             s == rows[c] \o Append(chained[c], row)
         IN Ascending(s) /\ Below(s, Advance(w, row).next)
<1>. DEFINE row == SealedEvent(w, c, e)
<1>1. row \in Row /\ row.seq = w.next
  BY SealedEventType DEF TypeOK, SealedEvent
<1>2. Advance(w, row).next = w.next + 1
  BY DEF Advance, Writer
<1>. HIDE DEF row
<1>3. rows[c] \o Append(chained[c], row) = Append(Stored[c], row)
  <2>1. /\ rows[c] \in Seq(Row) /\ chained[c] \in Seq(Row)
        /\ Stored[c] = rows[c] \o chained[c]
    BY StoredOfChain
  <2>2. rows[c] \o Append(chained[c], row) = Append(rows[c] \o chained[c], row)
    BY <1>1, <2>1, ConcatAppend, Zenon
  <2>. QED
    BY <2>1, <2>2, Zenon
<1>4. Stored[c] \in Seq(Row)
  BY StoredOfChain
<1>5. Ascending(Append(Stored[c], row)) /\ Below(Append(Stored[c], row), row.seq + 1)
  BY <1>1, <1>4, AscendingAppend
<1>. QED
  BY <1>1, <1>2, <1>3, <1>5 DEF row

(* Chaining one event of the batch: a rollback entry is made behind what is *)
(* stored, and the new row goes behind everything.                          *)
LEMMA SeqChainStep ==
  ASSUME SeqInv, pc = "chain", NEW m \in batch, NEW w \in Writer,
         Below(Stored[ChainOf[m]], w.next), Chain(m, w)
  PROVE  SeqInv'
<1>. DEFINE c == ChainOf[m]
            row == SealedEvent(w, c, m)
<1>1. TypeOK /\ TypeOK'
  BY ChainTypeOK DEF SeqInv
<1>2. m \in Messages /\ c \in Chains /\ m \in EventIds
  BY <1>1, Parameters DEF TypeOK, EventIds
<1>3. /\ rows' = rows
      /\ writers' = Put(writers, c, IF Duplicate(w, m) THEN w ELSE Advance(w, row))
      /\ chained' = IF Duplicate(w, m) THEN chained
                    ELSE [chained EXCEPT ![c] = Append(@, row)]
      /\ \/ pc' = "ack" /\ chained' = NoRows /\ rollback' = EmptyMap
         \/ /\ pc' \in {"chain", "insert"}
            /\ rollback' = IF c \in DOMAIN rollback THEN rollback
                           ELSE Put(rollback, c, CursorOf(w))
  BY DEF Chain
<1>. HIDE DEF row
<1>4. /\ DOMAIN writers' = DOMAIN writers \cup {c}
      /\ writers'[c] = IF Duplicate(w, m) THEN w ELSE Advance(w, row)
      /\ \A d \in DOMAIN writers \ {c} : writers'[d] = writers[d]
  BY <1>3 DEF Put
<1>5. ASSUME NEW d \in Chains, d # c
      PROVE  chained'[d] = chained[d] /\ Stored'[d] = Stored[d]
  BY <1>1, <1>3, <1>5 DEF Stored, TypeOK
<1>6. Ascending(Stored'[c]) /\ Below(Stored'[c], writers'[c].next)
  <2>1. CASE Duplicate(w, m)
    BY <2>1, <1>2, <1>3, <1>4 DEF SeqInv, Stored
  <2>2. CASE ~Duplicate(w, m)
    <3>1. Stored'[c] = rows[c] \o Append(chained[c], row)
      BY <2>2, <1>1, <1>2, <1>3 DEF Stored, TypeOK
    <3>2. Ascending(Stored[c]) /\ Below(Stored[c], w.next)
      BY <1>2 DEF SeqInv
    <3>. QED
      BY <2>2, <3>1, <3>2, <1>1, <1>2, <1>4, SealedBehind DEF row
  <2>. QED
    BY <2>1, <2>2
<1>7. \A d \in Chains : Ascending(Stored'[d])
  BY <1>5, <1>6 DEF SeqInv
<1>8. \A d \in DOMAIN writers' : Below(Stored'[d], writers'[d].next)
  BY <1>1, <1>4, <1>5, <1>6 DEF SeqInv, TypeOK, IsMap
<1>9. \A d \in Chains : d \notin DOMAIN writers' => chained'[d] = <<>>
  BY <1>4, <1>5 DEF SeqInv
<1>10. \A d \in DOMAIN rollback' :
         d \in DOMAIN writers' /\ Below(rows'[d], rollback'[d].next)
  <2>1. CASE rollback' = EmptyMap
    BY <2>1 DEF EmptyMap
  <2>2. CASE c \in DOMAIN rollback /\ rollback' = rollback
    BY <2>2, <1>3, <1>4 DEF SeqInv
  <2>3. CASE c \notin DOMAIN rollback /\ rollback' = Put(rollback, c, CursorOf(w))
    <3>1. Below(rows[c], w.next)
      <4>1. /\ Stored[c] = rows[c] \o chained[c]
            /\ rows[c] \in Seq(Row) /\ chained[c] \in Seq(Row)
        BY <1>1, <1>2, StoredOfChain
      <4>. QED
        BY <4>1, AscendingPrefix
    <3>2. /\ DOMAIN rollback' = DOMAIN rollback \cup {c}
          /\ rollback'[c].next = w.next
          /\ \A d \in DOMAIN rollback : rollback'[d] = rollback[d]
      BY <2>3 DEF Put, CursorOf
    <3>. QED
      BY <3>1, <3>2, <1>3, <1>4 DEF SeqInv
  <2>. QED
    BY <2>1, <2>2, <2>3, <1>3
<1>11. /\ pc' \in {"idle", "ack", "nak"} => chained' = NoRows
       /\ pc' \notin {"chain", "insert"} => DOMAIN rollback' = {}
  BY <1>3 DEF EmptyMap
<1>. QED
  BY <1>1, <1>7, <1>8, <1>9, <1>10, <1>11 DEF SeqInv

(* Nothing is chained any more, and every writer stands behind what is       *)
(* stored.                                                                  *)
LEMMA SeqDropStep ==
  ASSUME TypeOK', chained' = NoRows, DOMAIN rollback' = {},
         \A c \in Chains : Ascending(rows'[c]),
         \A c \in DOMAIN writers' : Below(rows'[c], writers'[c].next)
  PROVE  SeqInv'
<1>1. \A c \in Chains : Stored'[c] = rows'[c] /\ chained'[c] = <<>>
  BY ConcatEmpty DEF Stored, NoRows, TypeOK
<1>. QED
  BY <1>1 DEF SeqInv, TypeOK, IsMap

(* Rewinding every touched chain returns it behind what is stored. *)
LEMMA SeqDeferStep ==
  ASSUME SeqInv, Defer, TypeOK', UNCHANGED rows
  PROVE  SeqInv'
<1>1. TypeOK /\ DOMAIN writers \subseteq Chains
  BY DEF SeqInv, TypeOK, IsMap
<1>2. chained' = NoRows /\ DOMAIN rollback' = {}
  BY DEF Defer, EmptyMap
<1>3. ASSUME NEW c \in DOMAIN writers'
      PROVE  Below(rows[c], writers'[c].next)
  <2>1. c \in DOMAIN writers /\ c \in Chains /\ writers[c] \in Writer
    BY <1>1 DEF Defer, Rewound, TypeOK, IsMap
  <2>2. writers'[c] = IF c \in DOMAIN rollback
                      THEN RewindTo(writers[c], rollback[c]) ELSE writers[c]
    BY <2>1 DEF Defer, Rewound
  <2>3. CASE c \in DOMAIN rollback
    <3>1. writers'[c].next = rollback[c].next
      BY <2>1, <2>2, <2>3 DEF RewindTo, Writer
    <3>. QED
      BY <2>3, <3>1 DEF SeqInv
  <2>4. CASE c \notin DOMAIN rollback
    BY <2>1, <2>2, <2>4, RowsAscend
  <2>. QED
    BY <2>3, <2>4
<1>. QED
  BY <1>2, <1>3, RowsAscend, SeqDropStep

(* The heartbeat arm chains behind what is stored and drops what else was    *)
(* chained, wherever the loop was: what is lost leaves a hole behind it.     *)
LEMMA SeqHeartbeatStep ==
  ASSUME SeqInv, TypeOK', Heartbeats
  PROVE  SeqInv'
<1>. DEFINE due == {c \in DOMAIN writers : writers[c].day # today}
            silent == {c \in due : ~Duplicate(writers[c], <<c, today>>)}
            row(c) == SealedEvent(writers[c], c, <<c, today>>)
<1>1. TypeOK /\ DOMAIN writers \subseteq Chains
  BY DEF SeqInv, TypeOK, IsMap
<1>2. /\ rows' = rows /\ DOMAIN writers' = DOMAIN writers
      /\ chained' = [c \in Chains |-> IF c \in silent THEN <<row(c)>> ELSE <<>>]
      /\ DOMAIN rollback' = {} /\ pc' \in {"idle", "beat"}
      /\ pc' = "idle" => silent = {}
  BY DEF Heartbeats, EmptyMap
<1>3. ASSUME NEW c \in DOMAIN writers
      PROVE  writers'[c] = IF c \in silent
                           THEN Advance(MarkDay(writers[c]), row(c))
                           ELSE IF c \in due THEN MarkDay(writers[c])
                           ELSE writers[c]
  BY DEF Heartbeats
<1>4. ASSUME NEW c \in DOMAIN writers
      PROVE  /\ MarkDay(writers[c]).next = writers[c].next
             /\ Advance(MarkDay(writers[c]), row(c)).next = writers[c].next + 1
             /\ row(c) \in Row /\ row(c).seq = writers[c].next
  <2>1. writers[c] \in Writer /\ <<c, today>> \in EventIds /\ today \in Days
    BY <1>1 DEF TypeOK, IsMap, EventIds, HeartbeatIds
  <2>2. MarkDay(writers[c]) \in Writer /\ MarkDay(writers[c]).next = writers[c].next
    BY <2>1 DEF MarkDay, Writer
  <2>3. row(c) \in Row /\ row(c).seq = writers[c].next
    BY <1>1, <2>1, SealedEventType DEF TypeOK, SealedEvent
  <2>. HIDE DEF row
  <2>. QED
    BY <2>2, <2>3 DEF Advance, Writer
<1>5. ASSUME NEW c \in Chains
      PROVE  Ascending(rows[c]) /\ (c \in DOMAIN writers => Below(rows[c], writers[c].next))
  BY RowsAscend
<1>6. ASSUME NEW c \in silent
      PROVE  Ascending(Stored'[c]) /\ Below(Stored'[c], writers'[c].next)
  <2>1. c \in Chains /\ c \in DOMAIN writers /\ rows[c] \in Seq(Row)
    BY <1>1 DEF TypeOK
  <2>2. Stored'[c] = rows[c] \o <<row(c)>>
    BY <1>2, <2>1 DEF Stored
  <2>. HIDE DEF row
  <2>3. Stored'[c] = Append(rows[c], row(c))
    BY <2>1, <2>2, <1>4
  <2>4. /\ Ascending(Append(rows[c], row(c)))
        /\ Below(Append(rows[c], row(c)), row(c).seq + 1)
    BY <2>1, <1>4, <1>5, AscendingAppend
  <2>. HIDE DEF due, silent
  <2>. QED
    BY <2>1, <2>3, <2>4, <1>3, <1>4
<1>7. ASSUME NEW c \in Chains \ silent
      PROVE  /\ chained'[c] = <<>> /\ Ascending(Stored'[c])
             /\ c \in DOMAIN writers => Below(Stored'[c], writers'[c].next)
  <2>1. chained'[c] = <<>> /\ rows[c] \in Seq(Row)
    BY <1>1, <1>2 DEF TypeOK
  <2>2. Stored'[c] = rows[c]
    BY <1>2, <2>1, ConcatEmpty DEF Stored
  <2>. HIDE DEF due, silent, row
  <2>. QED
    BY <2>1, <2>2, <1>3, <1>4, <1>5
<1>8. pc' = "idle" => chained' = NoRows
  BY <1>2 DEF NoRows
<1>9. silent \subseteq DOMAIN writers
  OBVIOUS
<1>. HIDE DEF due, silent, row
<1>. QED
  BY <1>1, <1>2, <1>6, <1>7, <1>8, <1>9 DEF SeqInv

(* Every step keeps the positions in order, as long as the store does not   *)
(* commit an insert whose reply is lost.                                    *)
LEMMA SeqInvStep ==
  ASSUME "lostReply" \notin Faults, SeqInv, [Next]_vars
  PROVE  SeqInv'
<1>1. TypeOK /\ TypeOK'
  BY TypeStep DEF SeqInv
<1>2. ASSUME UNCHANGED <<rows, writers, chained, rollback>>,
             pc' \in {"idle", "ack", "nak"} => chained = NoRows,
             pc' \notin {"chain", "insert"} => DOMAIN rollback = {}
      PROVE  SeqInv'
  <2>1. Stored' = Stored
    BY <1>2 DEF Stored
  <2>. QED
    BY <1>1, <1>2, <2>1 DEF SeqInv
<1>3. ASSUME UNCHANGED <<rows, writers>>, PullEnds
      PROVE  SeqInv'
  <2>1. chained' = NoRows /\ DOMAIN rollback' = {}
    BY <1>3 DEF PullEnds, EmptyMap
  <2>. QED
    BY <1>1, <1>3, <2>1, RowsAscend, SeqDropStep DEF TypeOK, IsMap
<1>4. CASE Pull
  BY <1>2, <1>4 DEF Pull, SeqInv
<1>5. ASSUME NEW m \in Messages, ChainNext(m)
      PROVE  SeqInv'
  <2>1. writers[ChainOf[m]] \in Writer /\ ChainOf[m] \in DOMAIN writers
    BY <1>1, <1>5 DEF ChainNext, TypeOK, IsMap
  <2>2. Below(Stored[ChainOf[m]], writers[ChainOf[m]].next)
    BY <2>1 DEF SeqInv
  <2>. QED
    BY <1>5, <2>1, <2>2, SeqChainStep DEF ChainNext
<1>6. ASSUME NEW m \in Messages, ResumeChain(m)
      PROVE  SeqInv'
  <2>. DEFINE c == ChainOf[m]
  <2>1. c \in Chains /\ c \notin DOMAIN writers /\ chained[c] = <<>>
    BY <1>6, Parameters DEF ResumeChain, SeqInv
  <2>2. PICK head \in Head0(c) :
          pc = "chain" /\ m \in batch /\ Chain(m, ResumeFrom(head.seq, head.hash))
    BY <1>6 DEF ResumeChain
  <2>3. ResumeFrom(head.seq, head.hash) \in Writer
    BY <1>1, <2>1, ResumeType DEF TypeOK
  <2>4. Below(rows[c], ResumeFrom(head.seq, head.hash).next)
    BY <1>1, <2>1, ResumeBelow DEF TypeOK
  <2>5. Stored[c] = rows[c]
    BY <1>1, <2>1, StoredOfChain
  <2>. QED
    BY <2>2, <2>3, <2>4, <2>5, SeqChainStep
<1>7. ASSUME NEW m \in Messages, HeadUnavailable(m)
      PROVE  SeqInv'
  BY <1>1, <1>7, SeqDeferStep DEF HeadUnavailable
<1>8. ASSUME rows' = Stored, writers' = writers, chained' = NoRows,
             DOMAIN rollback' = {}
      PROVE  SeqInv'
  <2>1. \A c \in Chains : Ascending(rows'[c])
    BY <1>8 DEF SeqInv
  <2>2. \A c \in DOMAIN writers' : Below(rows'[c], writers'[c].next)
    BY <1>8 DEF SeqInv
  <2>. QED
    BY <1>1, <1>8, <2>1, <2>2, SeqDropStep
<1>9. CASE InsertOk \/ HeartbeatsStored
  BY <1>8, <1>9 DEF InsertOk, HeartbeatsStored, PullEnds, EmptyMap
<1>10. CASE InsertFails
  <2>1. CASE Defer
    BY <1>1, <1>10, <2>1, SeqDeferStep DEF InsertFails
  <2>2. CASE UNCHANGED <<writers, pc, batch, chained, rollback>>
    BY <1>2, <1>10, <2>2 DEF InsertFails, SeqInv
  <2>. QED
    BY <1>10, <2>1, <2>2 DEF InsertFails, AttemptFailed
<1>11. CASE InsertReplyLost
  BY <1>11 DEF InsertReplyLost, Counted
<1>12. ASSUME NEW m \in Messages, Ack(m)
       PROVE  SeqInv'
  BY <1>2, <1>12 DEF Ack, SeqInv
<1>13. CASE AckError \/ Nak \/ HeartbeatsFail
  BY <1>3, <1>13 DEF AckError, Nak, HeartbeatsFail
<1>14. CASE (\E m \in Messages : AckTimeout(m)) \/ NextDay \/ Quiet \/ UNCHANGED vars
  BY <1>2, <1>14 DEF AckTimeout, NextDay, Quiet, pullVars, vars, SeqInv
<1>15. CASE Heartbeats
  BY <1>1, <1>15, SeqHeartbeatStep
<1>16. CASE Crash
  <2>1. /\ chained' = NoRows /\ DOMAIN rollback' = {} /\ rows' = rows
        /\ DOMAIN writers' = {}
    BY <1>16 DEF Crash, PullEnds, EmptyMap
  <2>. QED
    BY <1>1, <2>1, RowsAscend, SeqDropStep
<1>. QED
  BY <1>4, <1>5, <1>6, <1>7, <1>9, <1>10, <1>11, <1>12, <1>13, <1>14, <1>15,
     <1>16 DEF Next

(* An empty store is in order. *)
LEMMA SeqInvInit == Init => SeqInv
<1>. SUFFICES ASSUME Init PROVE SeqInv
  OBVIOUS
<1>1. TypeOK
  BY Parameters, NoRowsType, EmptyMapType DEF Init, TypeOK, Days
<1>2. /\ rows = NoRows /\ chained = NoRows /\ DOMAIN writers = {}
      /\ DOMAIN rollback = {}
  BY DEF Init, EmptyMap
<1>3. \A c \in Chains : Stored[c] = <<>> /\ chained[c] = <<>>
  BY <1>1, <1>2, StoredOfChain DEF NoRows
<1>. QED
  BY <1>1, <1>2, <1>3 DEF SeqInv, Ascending

(* A chain position is used once, and rows are stored in the order of their  *)
(* seq, whatever crashes, is cancelled or refused: of the faults only an     *)
(* insert that commits without its reply arriving can use one twice.         *)
THEOREM PositionsAreUsedOnce ==
  ASSUME "lostReply" \notin Faults
  PROVE  Spec => []SeqNotReused
<1>1. SeqInv => SeqNotReused
  BY RowsAscend DEF Ascending, SeqNotReused
<1>2. SeqInv /\ [Next]_vars => SeqInv'
  BY SeqInvStep
<1>. QED
  BY <1>1, <1>2, SeqInvInit, PTL DEF Spec

-----------------------------------------------------------------------------
(* A marked day shows *)

(* What a writer would return to is a position, and not behind it.           *)
LEMMA MarkBase ==
  ASSUME MarkInv, NEW c \in DOMAIN writers
  PROVE  /\ c \in Chains /\ writers[c] \in Writer
         /\ Base(c) \in Nat /\ writers[c].next \in Nat /\ Base(c) <= writers[c].next
         /\ Stored[c] = rows[c] \o chained[c]
         /\ rows[c] \in Seq(Row) /\ chained[c] \in Seq(Row) /\ Stored[c] \in Seq(Row)
<1>1. TypeOK /\ c \in Chains /\ writers[c] \in Writer
  BY DEF MarkInv, SeqInv, TypeOK, IsMap
<1>2. c \in DOMAIN rollback => rollback[c] \in Cursor /\ rollback[c].next <= writers[c].next
  BY <1>1 DEF MarkInv, TypeOK, IsMap
<1>3. writers[c].next \in Nat /\ (c \in DOMAIN rollback => rollback[c].next \in Nat)
  BY <1>1, <1>2 DEF Writer, Cursor
<1>4. Base(c) \in Nat /\ Base(c) <= writers[c].next
  BY <1>2, <1>3 DEF Base
<1>5. rows[c] \in Seq(Row) /\ chained[c] \in Seq(Row)
  BY <1>1 DEF TypeOK
<1>6. Stored[c] = rows[c] \o chained[c]
  BY <1>1 DEF Stored
<1>. QED
  BY <1>1, <1>3, <1>4, <1>5, <1>6

(* A heartbeat keeps its position when rows are taken away and rows are put  *)
(* behind what the writer would return to.                                   *)
LEMMA PlacedStays ==
  ASSUME NEW r \in Seq(Row), NEW s \in Seq(Row), NEW k \in Nat, NEW n \in 1 .. k - 1, NEW e,
         OnlyAt(r, n, e),
         \A i \in DOMAIN s : s[i].seq >= k \/ \E j \in DOMAIN r : s[i] = r[j]
  PROVE  OnlyAt(s, n, e)
<1>. SUFFICES ASSUME NEW i \in DOMAIN s, s[i].seq = n PROVE s[i].event = e
  BY DEF OnlyAt
<1>1. PICK j \in DOMAIN r : s[i] = r[j]
  OBVIOUS
<1>. QED
  BY <1>1 DEF OnlyAt

\* Rows that go away, or come behind what the writer would return to.
Moved(c, r, s) == \A i \in DOMAIN s : s[i].seq >= Base(c) \/ \E j \in DOMAIN r : s[i] = r[j]

(* A step that marks no day and remembers no heartbeat keeps what every      *)
(* marked day has, as long as no writer returns to before where it would     *)
(* have returned to.                                                         *)
LEMMA MarkKeepStep ==
  ASSUME MarkInv, SeqInv',
         \A c \in DOMAIN rollback' : rollback'[c].next <= writers'[c].next,
         \A c \in DOMAIN writers' :
           \/ /\ c \in DOMAIN writers
              /\ writers'[c].day = writers[c].day
              /\ \A s \in writers'[c].seen :
                   s \in writers[c].seen \/ s.id \in Messages
              /\ Base(c) <= Base(c)'
              /\ Moved(c, Stored[c], Stored'[c])
           \/ /\ writers'[c].day = NoDay
              /\ \A s \in writers'[c].seen : s.id \in Messages
  PROVE  MarkInv'
<1>1. ASSUME NEW c \in DOMAIN writers, c \in DOMAIN writers', Base(c) <= Base(c)',
             Moved(c, Stored[c], Stored'[c]), NEW e, Placed(c, e)
      PROVE  Placed(c, e)'
  <2>1. PICK n \in 1 .. Base(c) - 1 : OnlyAt(Stored[c], n, e)
    BY <1>1 DEF Placed
  <2>2. /\ Base(c) \in Nat /\ Base(c)' \in Nat /\ Stored[c] \in Seq(Row) /\ Stored'[c] \in Seq(Row)
    <3>1. c \in Chains /\ TypeOK'
      BY MarkBase DEF SeqInv
    <3>2. rows'[c] \in Seq(Row) /\ chained'[c] \in Seq(Row)
      BY <3>1 DEF TypeOK
    <3>3. Stored'[c] \in Seq(Row)
      BY <3>1, <3>2 DEF Stored
    <3>4. Base(c)' \in Nat
      BY <1>1, <3>1 DEF Base, TypeOK, IsMap, Writer, Cursor
    <3>. QED
      BY <3>3, <3>4, MarkBase
  <2>3. OnlyAt(Stored'[c], n, e)
    <3>1. PICK k \in Nat, r \in Seq(Row), s \in Seq(Row) :
            k = Base(c) /\ r = Stored[c] /\ s = Stored'[c]
      BY <2>2
    <3>2. \A i \in DOMAIN s : s[i].seq >= k \/ \E j \in DOMAIN r : s[i] = r[j]
      BY <1>1, <3>1 DEF Moved
    <3>3. n \in 1 .. k - 1 /\ OnlyAt(r, n, e)
      BY <2>1, <3>1
    <3>4. OnlyAt(s, n, e)
      BY <3>2, <3>3, PlacedStays
    <3>. QED
      BY <3>1, <3>4
  <2>4. n \in 1 .. Base(c)' - 1
    BY <1>1, <2>2
  <2>. QED
    BY <2>3, <2>4 DEF Placed
<1>2. ASSUME NEW c \in DOMAIN writers', writers'[c].day # NoDay
      PROVE  Placed(c, <<c, writers[c].day>>)'
  <2>1. /\ c \in DOMAIN writers /\ writers'[c].day = writers[c].day
        /\ Base(c) <= Base(c)' /\ Moved(c, Stored[c], Stored'[c])
    BY <1>2
  <2>2. PICK e : e = <<c, writers[c].day>>
    OBVIOUS
  <2>3. Placed(c, e)
    BY <1>2, <2>1, <2>2 DEF MarkInv
  <2>4. Placed(c, e)'
    BY <1>1, <2>1, <2>3
  <2>. QED
    BY <2>1, <2>2, <2>4
<1>3. ASSUME NEW c \in DOMAIN writers', NEW s \in writers'[c].seen, s.id \in HeartbeatIds
      PROVE  Placed(c, s.id)'
  <2>1. s.id \notin Messages
    BY <1>3, Parameters
  <2>2. /\ c \in DOMAIN writers /\ s \in writers[c].seen
        /\ Base(c) <= Base(c)' /\ Moved(c, Stored[c], Stored'[c])
    BY <1>3, <2>1
  <2>3. Placed(c, s.id)
    BY <1>3, <2>2 DEF MarkInv
  <2>. QED
    BY <1>1, <2>2, <2>3
<1>. QED
  BY <1>2, <1>3 DEF MarkInv

(* Chaining an event of the batch puts its row behind everything and touches *)
(* no heartbeat.                                                             *)
LEMMA MarkChainStep ==
  ASSUME MarkInv, pc = "chain", NEW m \in batch, NEW w \in Writer,
         \/ ChainOf[m] \in DOMAIN writers /\ w = writers[ChainOf[m]]
         \/ /\ ChainOf[m] \notin DOMAIN writers
            /\ w.day = NoDay /\ w.seen = {} /\ ChainOf[m] \notin DOMAIN rollback,
         Chain(m, w), SeqInv'
  PROVE  MarkInv'
<1>. DEFINE c == ChainOf[m]
            row == SealedEvent(w, c, m)
<1>1. TypeOK /\ TypeOK'
  BY DEF MarkInv, SeqInv
<1>2. m \in Messages /\ c \in Chains /\ m \in EventIds
  BY <1>1, Parameters DEF TypeOK, EventIds
<1>3. /\ rows' = rows
      /\ writers' = Put(writers, c, IF Duplicate(w, m) THEN w ELSE Advance(w, row))
      /\ chained' = IF Duplicate(w, m) THEN chained
                    ELSE [chained EXCEPT ![c] = Append(@, row)]
      /\ \/ rollback' = EmptyMap
         \/ rollback' = IF c \in DOMAIN rollback THEN rollback
                        ELSE Put(rollback, c, CursorOf(w))
  BY DEF Chain
<1>4. /\ row \in Row /\ row.seq = w.next /\ w.next \in Nat
      /\ Advance(w, row).day = w.day /\ Advance(w, row).next = w.next + 1
      /\ \A s \in Advance(w, row).seen : s \in w.seen \/ s.id = m
  <2>1. row \in Row /\ row.seq = w.next
    BY <1>1, <1>2, SealedEventType DEF TypeOK, SealedEvent
  <2>. QED
    BY <2>1 DEF Advance, Remember, Writer, SealedEvent
<1>. HIDE DEF row
<1>5. /\ DOMAIN writers' = DOMAIN writers \cup {c}
      /\ writers'[c] = IF Duplicate(w, m) THEN w ELSE Advance(w, row)
      /\ \A d \in DOMAIN writers \ {c} : writers'[d] = writers[d]
  BY <1>3 DEF Put
<1>6. /\ writers'[c].day = w.day /\ w.next <= writers'[c].next /\ writers'[c].next \in Nat
      /\ \A s \in writers'[c].seen : s \in w.seen \/ s.id \in Messages
  BY <1>2, <1>4, <1>5 DEF Writer
<1>7. \A d \in DOMAIN writers' : writers'[d].next \in Nat
  BY <1>1 DEF TypeOK, IsMap, Writer
<1>8. \/ DOMAIN rollback' = {}
      \/ c \in DOMAIN rollback /\ rollback' = rollback
      \/ /\ c \notin DOMAIN rollback /\ DOMAIN rollback' = DOMAIN rollback \cup {c}
         /\ rollback'[c].next = w.next
         /\ \A d \in DOMAIN rollback : rollback'[d] = rollback[d]
  BY <1>3 DEF Put, CursorOf, EmptyMap
<1>9. ASSUME NEW d \in DOMAIN rollback PROVE d \in DOMAIN writers /\ rollback[d].next \in Nat
  BY <1>1, <1>9 DEF MarkInv, SeqInv, TypeOK, IsMap, Cursor
<1>10. ASSUME NEW d \in DOMAIN writers
       PROVE  /\ Base(d) \in Nat /\ writers[d].next \in Nat /\ Base(d) <= writers[d].next
              /\ writers[d].next <= writers'[d].next
  <2>1. Base(d) \in Nat /\ writers[d].next \in Nat /\ Base(d) <= writers[d].next
    BY MarkBase
  <2>2. CASE d = c
    BY <1>6, <2>1, <2>2
  <2>3. CASE d # c
    BY <1>5, <2>1, <2>3
  <2>. QED
    BY <2>1, <2>2, <2>3
<1>11. ASSUME NEW d \in DOMAIN rollback' PROVE rollback'[d].next <= writers'[d].next
  <2>1. CASE d \in DOMAIN rollback
    <3>1. rollback'[d] = rollback[d] /\ rollback[d].next <= writers[d].next
      BY <1>8, <1>11, <2>1 DEF MarkInv
    <3>. QED
      BY <1>7, <1>9, <1>10, <2>1, <3>1, <1>5
  <2>2. CASE d \notin DOMAIN rollback
    BY <1>6, <1>8, <1>11, <2>2
  <2>. QED
    BY <2>1, <2>2
<1>12. ASSUME NEW d \in DOMAIN writers PROVE Base(d) <= Base(d)'
  <2>1. CASE d \in DOMAIN rollback'
    <3>1. CASE d \in DOMAIN rollback
      BY <1>8, <1>9, <2>1, <3>1 DEF Base
    <3>2. CASE d \notin DOMAIN rollback
      BY <1>8, <1>10, <2>1, <3>2 DEF Base
    <3>. QED
      BY <3>1, <3>2
  <2>2. CASE d \notin DOMAIN rollback'
    <3>1. Base(d)' = writers'[d].next
      BY <2>2 DEF Base
    <3>. QED
      BY <1>5, <1>7, <1>10, <3>1
  <2>. QED
    BY <2>1, <2>2
<1>13. ASSUME NEW d \in DOMAIN writers PROVE Moved(d, Stored[d], Stored'[d])
  <2>1. CASE d # c \/ Duplicate(w, m)
    <3>1. Stored'[d] = Stored[d]
      <4>1. chained'[d] = chained[d] /\ d \in Chains
        BY <1>1, <1>3, <2>1, MarkBase DEF TypeOK
      <4>2. Stored[d] = rows[d] \o chained[d] /\ Stored'[d] = rows'[d] \o chained'[d]
        BY <4>1 DEF Stored
      <4>. QED
        BY <1>3, <4>1, <4>2
    <3>. QED
      BY <3>1 DEF Moved
  <2>2. CASE d = c /\ ~ Duplicate(w, m)
    <3>1. Stored'[d] = rows[d] \o Append(chained[d], row)
      BY <1>1, <1>2, <1>3, <2>2 DEF Stored, TypeOK
    <3>2. Stored'[d] = Append(Stored[d], row)
      <4>1. rows[d] \o Append(chained[d], row) = Append(rows[d] \o chained[d], row)
        <5>1. PICK r \in Seq(Row), s \in Seq(Row) : r = rows[d] /\ s = chained[d]
          BY MarkBase
        <5>2. r \o Append(s, row) = Append(r \o s, row)
          BY <1>4, ConcatAppend
        <5>. QED
          BY <5>1, <5>2
      <4>2. Stored[d] = rows[d] \o chained[d]
        BY MarkBase
      <4>. QED
        BY <3>1, <4>1, <4>2
    <3>3. PICK r \in Seq(Row) : r = Stored[d]
      BY MarkBase
    <3>4. row.seq >= Base(d)
      BY <1>4, <1>10, <2>2
    <3>5. \A i \in DOMAIN Append(r, row) : Append(r, row)[i] = row \/ \E j \in DOMAIN r : Append(r, row)[i] = r[j]
      BY <1>4
    <3>. QED
      BY <3>2, <3>3, <3>4, <3>5 DEF Moved
  <2>. QED
    BY <2>1, <2>2
<1>14. ASSUME NEW d \in DOMAIN writers'
       PROVE  \/ /\ d \in DOMAIN writers
                 /\ writers'[d].day = writers[d].day
                 /\ \A s \in writers'[d].seen :
                      s \in writers[d].seen \/ s.id \in Messages
                 /\ Base(d) <= Base(d)'
                 /\ Moved(d, Stored[d], Stored'[d])
              \/ /\ writers'[d].day = NoDay
                 /\ \A s \in writers'[d].seen : s.id \in Messages
  <2>1. CASE d \in DOMAIN writers
    BY <1>5, <1>6, <1>12, <1>13, <2>1
  <2>2. CASE d \notin DOMAIN writers
    BY <1>5, <1>6, <2>2
  <2>. QED
    BY <2>1, <2>2
<1>. QED
  BY <1>11, <1>14, MarkKeepStep

(* A batch that is over, stored or not, leaves the rows it had and those it  *)
(* was about to add.                                                         *)
LEMMA MarkDropStep ==
  ASSUME MarkInv, SeqInv', DOMAIN rollback' = {}, chained' = NoRows,
         rows' = rows \/ rows' = Stored, DOMAIN writers' = DOMAIN writers,
         \A c \in DOMAIN writers :
           /\ writers'[c].day = writers[c].day /\ writers'[c].seen \subseteq writers[c].seen
           /\ writers'[c].next >= Base(c)
  PROVE  MarkInv'
<1>1. ASSUME NEW c \in DOMAIN writers
      PROVE  Base(c) <= Base(c)' /\ Moved(c, Stored[c], Stored'[c])
  <2>1. Base(c)' = writers'[c].next
    BY DEF Base
  <2>2. c \in Chains /\ rows[c] \in Seq(Row) /\ chained[c] \in Seq(Row) /\ Stored[c] = rows[c] \o chained[c]
    BY MarkBase
  <2>3. Stored'[c] = rows'[c]
    <3>1. rows'[c] \in Seq(Row) /\ chained'[c] = <<>>
      BY <2>2 DEF SeqInv, TypeOK, NoRows
    <3>. QED
      BY <2>2, <3>1, ConcatEmpty DEF Stored
  <2>4. Moved(c, Stored[c], rows[c]) /\ Moved(c, Stored[c], Stored[c])
    <3>. DEFINE r == rows[c]
                s == chained[c]
                t == Stored[c]
    <3>1. r \in Seq(Row) /\ s \in Seq(Row) /\ t = r \o s
      BY <2>2
    <3>. HIDE DEF r, s, t
    <3>2. \A i \in DOMAIN r : i \in DOMAIN t /\ r[i] = t[i]
      BY <3>1, ConcatElements
    <3>3. Moved(c, t, r) /\ Moved(c, t, t)
      BY <3>2 DEF Moved
    <3>. QED
      BY <3>3 DEF r, t
  <2>. QED
    BY <2>1, <2>3, <2>4
<1>. QED
  BY <1>1, MarkKeepStep

(* A rewind returns every writer to where it would have returned to.         *)
LEMMA MarkDeferStep ==
  ASSUME MarkInv, SeqInv', Defer, UNCHANGED rows
  PROVE  MarkInv'
<1>1. DOMAIN writers' = DOMAIN writers /\ chained' = NoRows /\ DOMAIN rollback' = {}
  BY DEF Defer, Rewound, EmptyMap
<1>2. ASSUME NEW c \in DOMAIN writers
      PROVE  /\ writers'[c].day = writers[c].day /\ writers'[c].seen \subseteq writers[c].seen
             /\ writers'[c].next >= Base(c)
  <2>1. writers[c] \in Writer /\ Base(c) \in Nat
    BY MarkBase
  <2>2. writers'[c] = IF c \in DOMAIN rollback
                      THEN RewindTo(writers[c], rollback[c]) ELSE writers[c]
    BY DEF Defer, Rewound
  <2>. QED
    BY <2>1, <2>2 DEF RewindTo, Writer, Base
<1>. QED
  BY <1>1, <1>2, MarkDropStep

(* The heartbeat arm gives the heartbeat of every day it marks a position of *)
(* its own, unless the writer remembers one.                                 *)
LEMMA MarkHeartbeatStep ==
  ASSUME MarkInv, SeqInv', Heartbeats
  PROVE  MarkInv'
<1>. DEFINE due == {c \in DOMAIN writers : writers[c].day # today}
            silent == {c \in due : ~Duplicate(writers[c], <<c, today>>)}
            row(c) == SealedEvent(writers[c], c, <<c, today>>)
<1>1. /\ TypeOK /\ TypeOK' /\ SeqInv /\ DOMAIN writers \subseteq Chains /\ today \in Days
  BY DEF MarkInv, SeqInv, TypeOK, IsMap
<1>2. /\ rows' = rows /\ DOMAIN writers' = DOMAIN writers /\ DOMAIN rollback' = {}
      /\ chained' = [c \in Chains |-> IF c \in silent THEN <<row(c)>> ELSE <<>>]
  BY DEF Heartbeats, EmptyMap
<1>3. ASSUME NEW c \in DOMAIN writers
      PROVE  writers'[c] = IF c \in silent
                           THEN Advance(MarkDay(writers[c]), row(c))
                           ELSE IF c \in due THEN MarkDay(writers[c])
                           ELSE writers[c]
  BY DEF Heartbeats
<1>4. ASSUME NEW c \in DOMAIN writers
      PROVE  /\ MarkDay(writers[c]).day = today
             /\ MarkDay(writers[c]).seen = writers[c].seen
             /\ MarkDay(writers[c]).next = writers[c].next
             /\ Advance(MarkDay(writers[c]), row(c)).day = today
             /\ Advance(MarkDay(writers[c]), row(c)).next = writers[c].next + 1
             /\ \A s \in Advance(MarkDay(writers[c]), row(c)).seen :
                  s \in writers[c].seen \/ s.id = <<c, today>>
             /\ row(c) \in Row /\ row(c).seq = writers[c].next /\ row(c).event = <<c, today>>
  <2>1. writers[c] \in Writer /\ <<c, today>> \in EventIds
    BY <1>1 DEF TypeOK, IsMap, EventIds, HeartbeatIds
  <2>2. /\ MarkDay(writers[c]) \in Writer
        /\ MarkDay(writers[c]).day = today
        /\ MarkDay(writers[c]).seen = writers[c].seen
        /\ MarkDay(writers[c]).next = writers[c].next
    BY <1>1, <2>1 DEF MarkDay, Writer
  <2>3. row(c) \in Row /\ row(c).seq = writers[c].next /\ row(c).event = <<c, today>>
    BY <1>1, <2>1, SealedEventType DEF TypeOK, SealedEvent
  <2>. HIDE DEF row
  <2>. QED
    BY <2>2, <2>3 DEF Advance, Remember, Writer
<1>5. ASSUME NEW c \in DOMAIN writers
      PROVE  /\ c \in due => writers'[c].day = today
             /\ c \notin due => writers'[c].day = writers[c].day
             /\ \A s \in writers'[c].seen :
                  s \in writers[c].seen \/ (c \in silent /\ s.id = <<c, today>>)
             /\ writers'[c].next = IF c \in silent THEN writers[c].next + 1 ELSE writers[c].next
             /\ Base(c)' = writers'[c].next
  <2>. HIDE DEF due, silent, row
  <2>1. c \in silent => c \in due
    BY DEF due, silent
  <2>2. Base(c)' = writers'[c].next
    BY <1>2 DEF Base
  <2>. QED
    BY <1>3, <1>4, <2>1, <2>2
<1>6. ASSUME NEW c \in due, c \notin silent
      PROVE  Placed(c, <<c, today>>)
  <2>1. <<c, today>> \in HeartbeatIds
    BY <1>1 DEF HeartbeatIds
  <2>2. PICK s \in writers[c].seen : s.id = <<c, today>>
    BY <1>6 DEF Duplicate
  <2>. QED
    BY <1>1, <2>1, <2>2 DEF MarkInv
<1>7. ASSUME NEW c \in DOMAIN writers
      PROVE  /\ c \notin silent => Stored'[c] = rows[c]
             /\ c \in silent => Stored'[c] = Append(rows[c], row(c))
  <2>1. c \in Chains /\ rows[c] \in Seq(Row) /\ row(c) \in Row
    BY <1>1, <1>4 DEF TypeOK
  <2>2. Stored'[c] = rows[c] \o (IF c \in silent THEN <<row(c)>> ELSE <<>>)
    BY <1>2, <2>1 DEF Stored
  <2>. HIDE DEF row, silent, due
  <2>3. PICK r \in Seq(Row), x \in Row : r = rows[c] /\ x = row(c)
    BY <2>1
  <2>4. r \o <<>> = r /\ r \o <<x>> = Append(r, x)
    BY ConcatEmpty
  <2>. QED
    BY <2>2, <2>3, <2>4
<1>. HIDE DEF row
<1>8. ASSUME NEW c \in silent, c \in DOMAIN writers
      PROVE  Placed(c, <<c, today>>)'
  <2>. HIDE DEF silent, due
  <2>1. /\ Stored'[c] = Append(rows[c], row(c)) /\ rows[c] \in Seq(Row) /\ row(c) \in Row
        /\ row(c).event = <<c, today>> /\ writers[c].next \in Nat \ {0}
    <3>1. writers[c] \in Writer
      BY <1>1, <1>8 DEF TypeOK, IsMap
    <3>. QED
      BY <1>4, <1>7, <1>8, <3>1, MarkBase DEF Writer
  <2>2. \A i \in DOMAIN rows[c] : rows[c][i].seq < writers[c].next
    BY <1>1, <1>8, RowsAscend DEF Below
  <2>3. PICK n, e : n = writers[c].next /\ e = <<c, today>> /\ n \in Nat \ {0}
    BY <2>1
  <2>4. PICK r \in Seq(Row), x \in Row : r = rows[c] /\ x = row(c)
    BY <2>1
  <2>5. \A i \in DOMAIN Append(r, x) : Append(r, x)[i] = x \/ \E j \in DOMAIN r : Append(r, x)[i] = r[j]
    OBVIOUS
  <2>6. \A j \in DOMAIN r : r[j].seq < n /\ r[j].seq \in Nat
    <3>1. \A j \in DOMAIN r : r[j] \in Row
      OBVIOUS
    <3>. QED
      BY <2>2, <2>3, <2>4, <3>1 DEF Row
  <2>7. OnlyAt(Append(r, x), n, e)
    BY <2>1, <2>3, <2>4, <2>5, <2>6 DEF OnlyAt
  <2>8. Base(c)' = n + 1
    BY <1>5, <1>8, <2>3
  <2>9. n \in 1 .. Base(c)' - 1
    BY <2>3, <2>8
  <2>10. OnlyAt(Stored'[c], n, <<c, today>>)
    BY <2>1, <2>3, <2>4, <2>7
  <2>11. today' = today
    BY DEF Heartbeats
  <2>. QED
    BY <2>9, <2>10, <2>11 DEF Placed
<1>9. ASSUME NEW c \in DOMAIN writers, NEW e, Placed(c, e)
      PROVE  Placed(c, e)'
  <2>. HIDE DEF silent, due
  <2>1. PICK n \in 1 .. Base(c) - 1 : OnlyAt(Stored[c], n, e)
    BY <1>9 DEF Placed
  <2>2. /\ Stored[c] = rows[c] \o chained[c] /\ rows[c] \in Seq(Row) /\ chained[c] \in Seq(Row)
        /\ Stored[c] \in Seq(Row)
        /\ Base(c) \in Nat /\ writers[c].next \in Nat /\ Base(c) <= writers[c].next
    BY MarkBase
  <2>3. row(c) \in Row /\ row(c).seq = writers[c].next
    BY <1>4
  <2>4. PICK k \in Nat, r \in Seq(Row), x \in Row, t \in Seq(Row) :
          k = Base(c) /\ r = rows[c] /\ x = row(c) /\ t = Stored[c]
    BY <2>2, <2>3
  <2>5. \A j \in DOMAIN r : \E l \in DOMAIN t : r[j] = t[l]
    <3>1. PICK u \in Seq(Row) : t = r \o u
      BY <2>2, <2>4
    <3>. QED
      BY <3>1, ConcatElements
  <2>6. Stored'[c] = r \/ Stored'[c] = Append(r, x)
    BY <1>7, <2>4
  <2>7. OnlyAt(r, n, e) /\ OnlyAt(Append(r, x), n, e)
    <3>1. n \in 1 .. k - 1 /\ OnlyAt(t, n, e)
      BY <2>1, <2>4
    <3>2. x.seq >= k
      BY <2>2, <2>3, <2>4
    <3>3. \A i \in DOMAIN Append(r, x) : Append(r, x)[i] = x \/ \E j \in DOMAIN r : Append(r, x)[i] = r[j]
      OBVIOUS
    <3>4. \A i \in DOMAIN Append(r, x) :
            Append(r, x)[i].seq >= k \/ \E j \in DOMAIN t : Append(r, x)[i] = t[j]
      BY <2>5, <3>2, <3>3
    <3>5. OnlyAt(r, n, e)
      BY <2>5, <3>1, PlacedStays
    <3>6. PICK q \in Seq(Row) : q = Append(r, x)
      <4>1. Append(r, x) \in Seq(Row)
        OBVIOUS
      <4>. QED
        BY <4>1, Zenon
    <3>7. OnlyAt(q, n, e)
      BY <3>1, <3>4, <3>6, PlacedStays
    <3>. QED
      BY <3>5, <3>6, <3>7
  <2>8. n \in 1 .. Base(c)' - 1
    BY <1>5, <2>2
  <2>. QED
    BY <2>6, <2>7, <2>8 DEF Placed
<1>. HIDE DEF due, silent
<1>10. ASSUME NEW c \in DOMAIN writers', writers'[c].day # NoDay
       PROVE  Placed(c, <<c, writers[c].day>>)'
  <2>1. c \in DOMAIN writers /\ today' = today
    BY <1>2 DEF Heartbeats
  <2>2. CASE c \in due
    <3>1. PICK e : e = <<c, today>>
      OBVIOUS
    <3>2. Placed(c, e)'
      <4>1. CASE c \in silent
        BY <1>8, <2>1, <3>1, <4>1
      <4>2. CASE c \notin silent
        BY <1>6, <1>9, <2>1, <2>2, <3>1, <4>2
      <4>. QED
        BY <4>1, <4>2
    <3>. QED
      BY <1>5, <2>1, <2>2, <3>1, <3>2
  <2>3. CASE c \notin due
    <3>1. PICK e : e = <<c, writers[c].day>>
      OBVIOUS
    <3>2. writers'[c].day = writers[c].day /\ Placed(c, e)
      BY <1>5, <1>10, <2>1, <2>3, <3>1 DEF MarkInv
    <3>3. Placed(c, e)'
      BY <1>9, <2>1, <3>2
    <3>. QED
      BY <3>1, <3>2, <3>3
  <2>. QED
    BY <2>2, <2>3
<1>11. ASSUME NEW c \in DOMAIN writers', NEW s \in writers'[c].seen, s.id \in HeartbeatIds
       PROVE  Placed(c, s.id)'
  <2>1. c \in DOMAIN writers /\ today' = today
    BY <1>2 DEF Heartbeats
  <2>2. CASE s \in writers[c].seen
    BY <1>9, <1>11, <2>1, <2>2 DEF MarkInv
  <2>3. CASE c \in silent /\ s.id = <<c, today>>
    BY <1>8, <2>1, <2>3
  <2>. QED
    BY <1>5, <2>1, <2>2, <2>3
<1>. QED
  BY <1>2, <1>10, <1>11 DEF MarkInv

(* Every step keeps the position of every marked day's heartbeat.            *)
LEMMA MarkInvStep ==
  ASSUME "lostReply" \notin Faults, MarkInv, [Next]_vars
  PROVE  MarkInv'
<1>1. SeqInv /\ SeqInv' /\ TypeOK /\ DOMAIN writers \subseteq Chains
  BY SeqInvStep DEF MarkInv, SeqInv, TypeOK, IsMap
<1>2. ASSUME UNCHANGED <<rows, writers, chained, rollback>>
      PROVE  MarkInv'
  <2>1. \A c : Base(c)' = Base(c) /\ Stored' = Stored
    BY <1>2 DEF Base, Stored
  <2>2. \A c, e : Placed(c, e)' <=> Placed(c, e)
    BY <2>1 DEF Placed
  <2>. QED
    BY <1>1, <1>2, <2>2 DEF MarkInv
<1>3. ASSUME UNCHANGED writers, chained' = NoRows, DOMAIN rollback' = {},
             rows' = rows \/ rows' = Stored
      PROVE  MarkInv'
  BY <1>1, <1>3, MarkBase, MarkDropStep
<1>4. CASE Pull
  BY <1>2, <1>4 DEF Pull
<1>5. ASSUME NEW m \in Messages, ChainNext(m)
      PROVE  MarkInv'
  BY <1>1, <1>5, MarkChainStep DEF ChainNext, TypeOK, IsMap
<1>6. ASSUME NEW m \in Messages, ResumeChain(m)
      PROVE  MarkInv'
  <2>1. PICK head \in Head0(ChainOf[m]) :
          /\ pc = "chain" /\ m \in batch
          /\ Chain(m, ResumeFrom(head.seq, head.hash))
    BY <1>6 DEF ResumeChain
  <2>2. ResumeFrom(head.seq, head.hash) \in Writer
    BY <1>1, <2>1, ResumeType, Parameters DEF TypeOK
  <2>3. /\ ResumeFrom(head.seq, head.hash).day = NoDay
        /\ ResumeFrom(head.seq, head.hash).seen = {}
    BY DEF ResumeFrom
  <2>4. ChainOf[m] \notin DOMAIN writers /\ ChainOf[m] \notin DOMAIN rollback
    BY <1>1, <1>6 DEF ResumeChain, SeqInv
  <2>. QED
    BY <1>1, <2>1, <2>2, <2>3, <2>4, MarkChainStep
<1>7. ASSUME NEW m \in Messages, HeadUnavailable(m)
      PROVE  MarkInv'
  BY <1>1, <1>7, MarkDeferStep DEF HeadUnavailable
<1>8. CASE InsertOk \/ HeartbeatsStored
  BY <1>3, <1>8 DEF InsertOk, HeartbeatsStored, PullEnds, EmptyMap
<1>9. CASE InsertFails
  <2>1. CASE Defer
    BY <1>1, <1>9, <2>1, MarkDeferStep DEF InsertFails
  <2>2. CASE UNCHANGED <<writers, pc, batch, chained, rollback>>
    BY <1>2, <1>9, <2>2 DEF InsertFails
  <2>. QED
    BY <1>9, <2>1, <2>2 DEF InsertFails, AttemptFailed
<1>10. CASE InsertReplyLost
  BY <1>10 DEF InsertReplyLost, Counted
<1>11. ASSUME NEW m \in Messages, Ack(m)
       PROVE  MarkInv'
  BY <1>2, <1>11 DEF Ack
<1>12. CASE AckError \/ Nak \/ HeartbeatsFail
  BY <1>3, <1>12 DEF AckError, Nak, HeartbeatsFail, PullEnds, EmptyMap
<1>13. CASE (\E m \in Messages : AckTimeout(m)) \/ NextDay \/ Quiet \/ UNCHANGED vars
  BY <1>2, <1>13 DEF AckTimeout, NextDay, Quiet, pullVars, vars
<1>14. CASE Heartbeats
  BY <1>1, <1>14, MarkHeartbeatStep
<1>15. CASE Crash
  <2>1. DOMAIN writers' = {} /\ DOMAIN rollback' = {}
    BY <1>15 DEF Crash, PullEnds, EmptyMap
  <2>. QED
    BY <1>1, <2>1 DEF MarkInv
<1>. QED
  BY <1>4, <1>5, <1>6, <1>7, <1>8, <1>9, <1>10, <1>11, <1>12, <1>13, <1>14, <1>15 DEF Next

(* A day that a writer has marked has its heartbeat stored, or has used up a *)
(* position that no row has, whatever fails, is cancelled, redelivered or    *)
(* restarted: of the faults only an insert that commits without its reply    *)
(* arriving can give that position to another row.                           *)
THEOREM MarkedDaysShow ==
  ASSUME "lostReply" \notin Faults
  PROVE  Spec => []MarkedDayShows
<1>1. Init => MarkInv
  BY SeqInvInit DEF Init, EmptyMap, MarkInv
<1>2. MarkInv /\ [Next]_vars => MarkInv'
  BY MarkInvStep
<1>3. ASSUME MarkInv, pc # "beat", NEW c \in DOMAIN writers, writers[c].day # NoDay
      PROVE  \E n \in 1 .. writers[c].next - 1 : OnlyAt(rows[c], n, <<c, writers[c].day>>)
  <2>1. PICK e : e = <<c, writers[c].day>>
    OBVIOUS
  <2>2. PICK n \in 1 .. Base(c) - 1 : OnlyAt(Stored[c], n, e)
    BY <1>3, <2>1 DEF MarkInv, Placed
  <2>. DEFINE after == writers[c].next
  <2>3. /\ Base(c) \in Nat /\ after \in Nat /\ Base(c) <= after
        /\ Stored[c] = rows[c] \o chained[c] /\ rows[c] \in Seq(Row) /\ chained[c] \in Seq(Row)
    BY <1>3, MarkBase
  <2>. HIDE DEF after
  <2>4. n \in 1 .. after - 1
    BY <2>2, <2>3
  <2>5. OnlyAt(rows[c], n, e)
    <3>. DEFINE r == rows[c]
                s == chained[c]
                t == Stored[c]
    <3>1. r \in Seq(Row) /\ s \in Seq(Row) /\ t = r \o s
      BY <2>3
    <3>2. OnlyAt(t, n, e)
      BY <2>2
    <3>. HIDE DEF r, s, t
    <3>3. \A i \in DOMAIN r : i \in DOMAIN t /\ r[i] = t[i]
      BY <3>1, ConcatElements
    <3>4. OnlyAt(r, n, e)
      BY <3>2, <3>3 DEF OnlyAt
    <3>. QED
      BY <3>4 DEF r
  <2>. QED
    BY <2>1, <2>4, <2>5 DEF after
<1>4. MarkInv => MarkedDayShows
  BY <1>3 DEF MarkedDayShows
<1>. QED
  BY <1>1, <1>2, <1>4, PTL DEF Spec

-----------------------------------------------------------------------------
(* A loss leaves a gap *)

(* Sets of messages can be counted. *)
LEMMA MessagesCount ==
  ASSUME NEW S \in SUBSET Messages
  PROVE  IsFiniteSet(S) /\ Cardinality(S) \in Nat
  BY Parameters, FS_Subset, FS_CardinalityType

(* Rows and positions that grow alike, in numbers. *)
LEMMA GrowAlike ==
  ASSUME NEW r \in Nat, NEW a \in Nat, NEW b \in Nat, NEW n \in Nat,
         NEW k \in Nat, NEW s, NEW t, s = r + a, t = r + b, b + n = a + k
  PROVE  t + n <= s + k
  OBVIOUS

(* What counts fewer doomed events and no more rows, or as many more as      *)
(* positions, still leaves a gap for each of the doomed.                    *)
LEMMA FewerDoomed ==
  ASSUME TypeOK, TypeOK', NEW c \in Chains,
         Cardinality(Doomed(c)) + Len(Stored[c]) < NextOf(c),
         Doomed(c)' \subseteq Doomed(c),
         Len(Stored'[c]) + NextOf(c) <= Len(Stored[c]) + NextOf(c)'
  PROVE  Cardinality(Doomed(c)') + Len(Stored'[c]) < NextOf(c)'
<1>1. Doomed(c) \subseteq Messages /\ Doomed(c)' \subseteq Messages
  BY DEF Doomed
<1>2. /\ IsFiniteSet(Doomed(c)) /\ Cardinality(Doomed(c)) \in Nat
      /\ Cardinality(Doomed(c)') \in Nat
  BY <1>1, MessagesCount
<1>3. Cardinality(Doomed(c)') <= Cardinality(Doomed(c))
  BY <1>2, FS_Subset
<1>4. Stored[c] \in Seq(Row) /\ Stored'[c] \in Seq(Row)
  BY StoredOfChain DEF Stored, TypeOK
<1>5. NextOf(c) \in Nat /\ NextOf(c)' \in Nat
  BY DEF NextOf, TypeOK, IsMap, Writer
<1>. QED
  BY <1>2, <1>3, <1>4, <1>5

(* The chain a batch has not touched, or that has no writer, has nothing     *)
(* chained.                                                                 *)
LEMMA ChainedIsTouched ==
  ASSUME GapInv, NEW m \in Messages, IsChained(m)
  PROVE  /\ pc \in {"chain", "insert"} /\ m \in pending \ batch
         /\ ChainOf[m] \in Chains
         /\ ChainOf[m] \in DOMAIN rollback /\ ChainOf[m] \in DOMAIN writers
<1>1. /\ pc \in {"chain", "insert"} /\ m \in pending \ batch
      /\ ChainOf[m] \in Chains
  BY Parameters DEF GapInv
<1>2. chained[ChainOf[m]] # <<>>
  BY DEF IsChained
<1>. QED
  BY <1>1, <1>2 DEF GapInv

(* What is stored and chained does not change when the insert succeeds, and  *)
(* what was chained is recorded then.                                       *)
LEMMA InsertedAll ==
  ASSUME TypeOK, TypeOK', rows' = Stored, chained' = NoRows
  PROVE  /\ \A c \in Chains : Stored'[c] = Stored[c] /\ chained'[c] = <<>>
         /\ \A m \in Messages : Log!Recorded(m)' \/ (~Log!Recorded(m) /\ ~IsChained(m))
<1>1. ASSUME NEW c \in Chains
      PROVE  Stored'[c] = Stored[c] /\ chained'[c] = <<>>
  <2>1. chained'[c] = <<>> /\ Stored'[c] = rows'[c] \o chained'[c]
    BY DEF NoRows, Stored
  <2>2. rows'[c] = Stored[c] /\ rows'[c] \in Seq(Row)
    BY DEF TypeOK
  <2>. QED
    BY <2>1, <2>2, ConcatEmpty
<1>2. \A m \in Messages : /\ Log!Recorded(m) => Log!Recorded(m)'
                          /\ IsChained(m) => Log!Recorded(m)'
  BY StoredStaysRecorded, ChainedGetsRecorded
<1>. QED
  BY <1>1, <1>2

(* Chaining one event of the batch: a new event takes one position and one   *)
(* row; a duplicate was doomed already unless it is recorded or chained.    *)
LEMMA GapChainStep ==
  ASSUME GapInv, pc = "chain", NEW m \in batch, NEW w \in Writer,
         \/ ChainOf[m] \in DOMAIN writers /\ w = writers[ChainOf[m]]
         \/ ChainOf[m] \notin DOMAIN writers /\ w.seen = {},
         w.next = NextOf(ChainOf[m]), Chain(m, w)
  PROVE  GapInv'
<1>. DEFINE c == ChainOf[m]
            row == SealedEvent(w, c, m)
            returns == batch = {m} /\ Duplicate(w, m) /\ chained = NoRows
<1>1. TypeOK /\ TypeOK'
  BY ChainTypeOK DEF GapInv
<1>2. /\ m \in Messages /\ c \in Chains /\ m \in EventIds
      /\ w.next \in Nat \ {0} /\ m \in pending
  BY <1>1, Parameters DEF TypeOK, EventIds, Writer, GapInv
<1>3. /\ UNCHANGED <<rows, deliv, pending>> /\ batch' = batch \ {m}
      /\ writers' = Put(writers, c, IF Duplicate(w, m) THEN w ELSE Advance(w, row))
      /\ chained' = IF Duplicate(w, m) THEN chained
                    ELSE [chained EXCEPT ![c] = Append(@, row)]
      /\ pc' = IF returns THEN "ack" ELSE IF batch = {m} THEN "insert" ELSE "chain"
      /\ rollback' = IF returns THEN EmptyMap
                     ELSE IF c \in DOMAIN rollback THEN rollback
                     ELSE Put(rollback, c, CursorOf(w))
  BY DEF Chain
<1>4. row.event = m /\ row.seq = w.next /\ row \in Row
  BY <1>1, <1>2, SealedEventType DEF SealedEvent, TypeOK
<1>5. /\ Advance(w, row).next = w.next + 1
      /\ \A s \in Advance(w, row).seen : s \in w.seen \/ s = [id |-> m, at |-> w.next]
  BY <1>4 DEF Advance, Remember, Writer
<1>. HIDE DEF row
<1>6. /\ DOMAIN writers' = DOMAIN writers \cup {c}
      /\ writers'[c] = IF Duplicate(w, m) THEN w ELSE Advance(w, row)
      /\ \A d \in DOMAIN writers \ {c} : writers'[d] = writers[d]
  BY <1>3 DEF Put
<1>7. c \notin DOMAIN writers => ~Duplicate(w, m)
  BY DEF Duplicate
<1>8. \A x \in Messages : Log!Recorded(x) <=> Log!Recorded(x)'
  BY <1>3 DEF Log!Recorded
<1>9. /\ chained[c] \in Seq(Row) /\ rows[c] \in Seq(Row)
      /\ ~Duplicate(w, m) => chained'[c] = Append(chained[c], row)
      /\ \A d \in Chains : d # c \/ Duplicate(w, m) => chained'[d] = chained[d]
  BY <1>1, <1>2, <1>3 DEF TypeOK
<1>10. \A x \in Messages : IsChained(x)' <=> IsChained(x) \/ (x = m /\ ~Duplicate(w, m))
  <2>. SUFFICES ASSUME NEW x \in Messages
                PROVE  IsChained(x)' <=> IsChained(x) \/ (x = m /\ ~Duplicate(w, m))
    OBVIOUS
  <2>1. CASE ChainOf[x] # c \/ Duplicate(w, m)
    <3>1. ChainOf[x] \in Chains
      BY Parameters
    <3>2. chained'[ChainOf[x]] = chained[ChainOf[x]]
      BY <1>9, <2>1, <3>1
    <3>. QED
      BY <2>1, <3>2 DEF IsChained
  <2>2. CASE ChainOf[x] = c /\ ~Duplicate(w, m)
    <3>. DEFINE r == chained[c]
                a == Append(r, row)
    <3>1. /\ Len(r) \in Nat /\ DOMAIN r = 1 .. Len(r)
          /\ DOMAIN a = 1 .. Len(r) + 1 /\ a[Len(r) + 1] = row
          /\ \A i \in 1 .. Len(r) : a[i] = r[i]
      BY <1>4, <1>9
    <3>2. IsChained(x) <=> \E i \in DOMAIN r : r[i].event = x
      BY <2>2 DEF IsChained
    <3>3. IsChained(x)' <=> \E i \in DOMAIN a : a[i].event = x
      BY <1>9, <2>2 DEF IsChained
    <3>. HIDE DEF r, a
    <3>4. \A i \in 1 .. Len(r) + 1 : i \in 1 .. Len(r) \/ i = Len(r) + 1
      BY <3>1
    <3>5. /\ Len(r) + 1 \in 1 .. Len(r) + 1
          /\ \A i \in 1 .. Len(r) : i \in 1 .. Len(r) + 1
      BY <3>1
    <3>. QED
      BY <1>4, <2>2, <3>1, <3>2, <3>3, <3>4, <3>5
  <2>. QED
    BY <2>1, <2>2
<1>11. pc' \in {"chain", "insert", "ack"}
  BY <1>3
<1>12. ASSUME NEW d \in Chains
       PROVE  Doomed(d)' \subseteq Doomed(d)
  <2>. SUFFICES ASSUME NEW x \in Doomed(d)'
                PROVE  x \in Doomed(d)
    OBVIOUS
  <2>1. /\ x \in Messages \ Undecodable /\ ChainOf[x] = d
        /\ ~Log!Recorded(x)' /\ ~IsChained(x)'
        /\ \/ deliv'[x] = "acked"
           \/ x \in pending' \ batch'
           \/ d \in DOMAIN writers' /\ Duplicate(writers'[d], x)
    BY DEF Doomed
  <2>2. ~Log!Recorded(x) /\ ~IsChained(x) /\ (x # m \/ Duplicate(w, m))
    BY <1>8, <1>10, <2>1
  <2>3. CASE x = m
    <3>1. c \in DOMAIN writers /\ Duplicate(writers[c], m)
      BY <1>7, <2>2, <2>3
    <3>. QED
      BY <2>1, <2>2, <2>3, <3>1 DEF Doomed
  <2>4. CASE x # m
    <3>1. x \in pending' \ batch' => x \in pending \ batch
      BY <1>3, <2>4
    <3>2. d \in DOMAIN writers' /\ Duplicate(writers'[d], x)
            => d \in DOMAIN writers /\ Duplicate(writers[d], x)
      BY <1>5, <1>6, <1>7, <2>4 DEF Duplicate
    <3>. QED
      BY <1>3, <2>1, <2>2, <3>1, <3>2 DEF Doomed
  <2>. QED
    BY <2>3, <2>4
<1>13. ASSUME NEW d \in Chains
       PROVE  Len(Stored'[d]) + NextOf(d) <= Len(Stored[d]) + NextOf(d)'
  <2>1. /\ Stored[d] = rows[d] \o chained[d] /\ Stored'[d] = rows[d] \o chained'[d]
        /\ rows[d] \in Seq(Row) /\ chained[d] \in Seq(Row) /\ chained'[d] \in Seq(Row)
    BY <1>1, <1>3 DEF Stored, TypeOK
  <2>2. /\ Len(Stored[d]) = Len(rows[d]) + Len(chained[d])
        /\ Len(Stored'[d]) = Len(rows[d]) + Len(chained'[d])
        /\ Len(rows[d]) \in Nat /\ Len(chained[d]) \in Nat /\ Len(chained'[d]) \in Nat
    BY <2>1
  <2>3. NextOf(d) \in Nat /\ NextOf(d)' \in Nat
    BY <1>1 DEF NextOf, TypeOK, IsMap, Writer
  <2>4. CASE d # c \/ Duplicate(w, m)
    <3>1. chained'[d] = chained[d]
      BY <1>9, <2>4
    <3>2. NextOf(d)' = NextOf(d)
      BY <1>6, <1>7, <2>4 DEF NextOf
    <3>3. Len(chained'[d]) + NextOf(d) = Len(chained[d]) + NextOf(d)'
      BY <3>1, <3>2
    <3>. QED
      BY <2>2, <2>3, <3>3, GrowAlike
  <2>5. CASE d = c /\ ~Duplicate(w, m)
    <3>1. Len(chained'[d]) = Len(chained[d]) + 1
      BY <1>9, <2>5, <1>4
    <3>2. NextOf(d)' = NextOf(d) + 1
      BY <1>5, <1>6, <2>5 DEF NextOf
    <3>3. Len(chained'[d]) + NextOf(d) = Len(chained[d]) + NextOf(d)'
      BY <2>2, <2>3, <3>1, <3>2
    <3>. QED
      BY <2>2, <2>3, <3>3, GrowAlike
  <2>. QED
    BY <2>4, <2>5
<1>14. \A d \in Chains : Cardinality(Doomed(d)') + Len(Stored'[d]) < NextOf(d)'
  BY <1>1, <1>12, <1>13, FewerDoomed DEF GapInv
<1>15. CASE returns
  <2>1. /\ pc' = "ack" /\ DOMAIN rollback' = {} /\ chained' = NoRows /\ batch' = {}
    BY <1>3, <1>15 DEF EmptyMap
  <2>2. \A x \in Messages : ~IsChained(x)'
    BY <2>1, Parameters DEF IsChained, NoRows
  <2>. QED
    BY <1>1, <1>2, <1>3, <1>14, <2>1, <2>2 DEF GapInv
<1>16. CASE ~returns
  <2>1. /\ pc' \in {"chain", "insert"} /\ (pc' = "insert" => batch' = {})
        /\ DOMAIN rollback' = DOMAIN rollback \cup {c}
        /\ \A d \in DOMAIN rollback : rollback'[d] = rollback[d]
        /\ c \notin DOMAIN rollback => rollback'[c].next = w.next
    BY <1>3, <1>16 DEF Put, CursorOf
  <2>2. ASSUME NEW d \in Chains, d \notin DOMAIN rollback'
        PROVE  chained'[d] = <<>>
    BY <1>9, <2>1, <2>2 DEF GapInv
  <2>3. c \notin DOMAIN rollback => chained[c] = <<>>
    BY <1>2 DEF GapInv
  <2>4. /\ rollback'[c].next \in Nat
        /\ w.next = rollback'[c].next + Len(chained[c])
    <3>1. CASE c \in DOMAIN rollback
      <4>1. c \in DOMAIN writers /\ writers[c].next = rollback[c].next + Len(chained[c])
        BY <3>1 DEF GapInv
      <4>2. rollback[c].next \in Nat
        BY <1>1, <3>1 DEF TypeOK, IsMap, Cursor
      <4>. QED
        BY <2>1, <3>1, <4>1, <4>2
    <3>2. CASE c \notin DOMAIN rollback
      BY <1>2, <2>1, <2>3, <3>2
    <3>. QED
      BY <3>1, <3>2
  <2>5. writers'[c].next = rollback'[c].next + Len(chained'[c])
    <3>1. Len(chained[c]) \in Nat
      BY <1>9
    <3>2. CASE Duplicate(w, m)
      BY <1>2, <1>6, <1>9, <2>4, <3>2
    <3>3. CASE ~Duplicate(w, m)
      <4>1. Len(chained'[c]) = Len(chained[c]) + 1
        BY <1>9, <1>4, <3>3
      <4>. QED
        BY <1>2, <1>5, <1>6, <2>4, <3>1, <3>3, <4>1
    <3>. QED
      BY <3>2, <3>3
  <2>6. ASSUME NEW d \in DOMAIN rollback'
        PROVE  /\ d \in DOMAIN writers'
               /\ writers'[d].next = rollback'[d].next + Len(chained'[d])
    <3>1. CASE d = c
      BY <1>6, <2>5, <3>1
    <3>2. CASE d # c
      <4>1. d \in DOMAIN rollback /\ d \in Chains
        BY <1>1, <2>1, <3>2 DEF TypeOK, IsMap
      <4>. QED
        BY <1>6, <1>9, <2>1, <3>2, <4>1 DEF GapInv
    <3>. QED
      BY <3>1, <3>2
  <2>7. ASSUME NEW x \in Messages, IsChained(x)'
        PROVE  /\ x \in pending' \ batch'
               /\ \A s \in writers'[ChainOf[x]].seen :
                    s.id = x => s.at >= rollback'[ChainOf[x]].next
    <3>1. CASE x = m /\ ~Duplicate(w, m)
      <4>1. \A s \in writers'[c].seen : s.id = m => s.at = w.next
        BY <1>5, <1>6, <3>1 DEF Duplicate
      <4>2. w.next >= rollback'[c].next
        BY <1>2, <1>9, <2>4
      <4>. QED
        BY <1>2, <1>3, <3>1, <4>1, <4>2
    <3>2. CASE IsChained(x)
      <4>. DEFINE d == ChainOf[x]
      <4>1. x \in pending \ batch /\ d \in DOMAIN rollback /\ d \in DOMAIN writers
        BY <3>2, ChainedIsTouched
      <4>2. \A s \in writers[d].seen : s.id = x => s.at >= rollback[d].next
        BY <3>2 DEF GapInv
      <4>3. x # m
        BY <4>1
      <4>4. \A s \in writers'[d].seen : s.id = x => s \in writers[d].seen
        BY <1>5, <1>6, <4>1, <4>3
      <4>. QED
        BY <1>3, <2>1, <4>1, <4>2, <4>4
    <3>. QED
      BY <1>10, <2>7, <3>1, <3>2
  <2>. QED
    BY <1>1, <1>2, <1>3, <1>14, <2>1, <2>2, <2>6, <2>7 DEF GapInv
<1>. QED
  BY <1>15, <1>16

(* A rewind takes the positions back that the batch had taken, and forgets   *)
(* exactly the events that had them.                                        *)
LEMMA GapDeferStep ==
  ASSUME GapInv, pc \in {"chain", "insert"}, Defer, TypeOK',
         UNCHANGED <<rows, deliv, pending>>
  PROVE  GapInv'
<1>1. TypeOK
  BY DEF GapInv
<1>2. pc' = "nak" /\ chained' = NoRows /\ DOMAIN rollback' = {} /\ batch' = {}
  BY DEF Defer, EmptyMap
<1>3. \A c \in Chains : chained'[c] = <<>> /\ Stored'[c] = rows[c]
  BY <1>1, <1>2, ConcatEmpty DEF Stored, NoRows, TypeOK
<1>4. \A x \in Messages : ~IsChained(x)'
  BY <1>2, Parameters DEF IsChained, NoRows
<1>5. DOMAIN writers' = DOMAIN writers
  BY DEF Defer, Rewound
<1>6. ASSUME NEW c \in DOMAIN writers
      PROVE  /\ c \notin DOMAIN rollback => writers'[c] = writers[c]
             /\ c \in DOMAIN rollback =>
                  /\ writers'[c].next = rollback[c].next
                  /\ writers'[c].seen = {s \in writers[c].seen : s.at < rollback[c].next}
  <2>1. writers[c] \in Writer
    BY <1>1 DEF TypeOK, IsMap
  <2>2. writers'[c] = IF c \in DOMAIN rollback
                      THEN RewindTo(writers[c], rollback[c]) ELSE writers[c]
    BY DEF Defer, Rewound
  <2>. QED
    BY <2>1, <2>2 DEF RewindTo, Writer
<1>7. \A x \in Messages : Log!Recorded(x) <=> Log!Recorded(x)'
  BY DEF Log!Recorded
<1>8. ASSUME NEW c \in Chains
      PROVE  Doomed(c)' \subseteq Doomed(c)
  <2>. SUFFICES ASSUME NEW x \in Doomed(c)'
                PROVE  x \in Doomed(c)
    OBVIOUS
  <2>1. /\ x \in Messages \ Undecodable /\ ChainOf[x] = c
        /\ ~Log!Recorded(x)
        /\ deliv[x] = "acked" \/ (c \in DOMAIN writers /\ Duplicate(writers'[c], x))
    BY <1>2, <1>5, <1>7 DEF Doomed
  <2>2. ~IsChained(x)
    <3>. SUFFICES ASSUME IsChained(x) PROVE FALSE
      OBVIOUS
    <3>1. /\ x \in pending \ batch /\ c \in DOMAIN rollback /\ c \in DOMAIN writers
          /\ \A s \in writers[c].seen : s.id = x => s.at >= rollback[c].next
          /\ deliv[x] # "acked"
      BY <2>1, ChainedIsTouched DEF GapInv
    <3>2. PICK s \in writers'[c].seen : s.id = x
      BY <2>1, <3>1 DEF Duplicate
    <3>3. s \in writers[c].seen /\ s.at < rollback[c].next
      BY <1>6, <3>1, <3>2
    <3>4. s.at \in Nat /\ rollback[c].next \in Nat
      BY <1>1, <3>1, <3>3 DEF TypeOK, IsMap, Writer, Cursor
    <3>. QED
      BY <3>1, <3>2, <3>3, <3>4
  <2>3. c \in DOMAIN writers /\ Duplicate(writers'[c], x) => Duplicate(writers[c], x)
    BY <1>6 DEF Duplicate
  <2>. QED
    BY <2>1, <2>2, <2>3 DEF Doomed
<1>9. ASSUME NEW c \in Chains
      PROVE  Len(Stored'[c]) + NextOf(c) <= Len(Stored[c]) + NextOf(c)'
  <2>1. /\ rows[c] \in Seq(Row) /\ chained[c] \in Seq(Row)
        /\ Len(rows[c]) \in Nat /\ Len(chained[c]) \in Nat
        /\ Len(Stored[c]) = Len(rows[c]) + Len(chained[c])
        /\ Len(Stored'[c]) = Len(rows[c]) + 0
    BY <1>1, <1>3 DEF Stored, TypeOK
  <2>2. NextOf(c) \in Nat /\ NextOf(c)' \in Nat
    BY <1>1 DEF NextOf, TypeOK, IsMap, Writer
  <2>3. CASE c \in DOMAIN rollback
    <3>1. /\ c \in DOMAIN writers
          /\ writers[c].next = rollback[c].next + Len(chained[c])
          /\ rollback[c].next \in Nat
      BY <1>1, <2>3 DEF GapInv, TypeOK, IsMap, Cursor
    <3>2. NextOf(c) = rollback[c].next + Len(chained[c]) /\ NextOf(c)' = rollback[c].next
      BY <1>5, <1>6, <2>3, <3>1 DEF NextOf
    <3>3. 0 + NextOf(c) = Len(chained[c]) + NextOf(c)'
      BY <2>1, <3>1, <3>2
    <3>. QED
      BY <2>1, <2>2, <3>3, GrowAlike
  <2>4. CASE c \notin DOMAIN rollback
    <3>1. NextOf(c)' = NextOf(c)
      BY <1>5, <1>6, <2>4 DEF NextOf
    <3>2. Len(chained[c]) = 0
      BY <2>4 DEF GapInv
    <3>3. 0 + NextOf(c) = Len(chained[c]) + NextOf(c)'
      BY <2>2, <3>1, <3>2
    <3>. QED
      BY <2>1, <2>2, <3>3, GrowAlike
  <2>. QED
    BY <2>3, <2>4
<1>10. \A c \in Chains : Cardinality(Doomed(c)') + Len(Stored'[c]) < NextOf(c)'
  BY <1>1, <1>8, <1>9, FewerDoomed DEF GapInv
<1>. QED
  BY <1>2, <1>4, <1>10 DEF GapInv

(* There are no more events in a sequence of rows than rows. *)
LEMMA EventsOfRows ==
  ASSUME NEW r \in Seq(Row)
  PROVE  LET E == {r[i].event : i \in DOMAIN r}
         IN IsFiniteSet(E) /\ Cardinality(E) <= Len(r)
<1>. DEFINE E == {r[i].event : i \in DOMAIN r}
<1>1. Len(r) \in Nat /\ DOMAIN r = 1 .. Len(r)
  OBVIOUS
<1>2. IsFiniteSet(1 .. Len(r)) /\ Cardinality(1 .. Len(r)) = Len(r)
  BY <1>1, FS_Interval
<1>. DEFINE f == [i \in 1 .. Len(r) |-> r[i].event]
<1>3. f \in Surjection(1 .. Len(r), E)
  BY <1>1 DEF Surjection
<1>. QED
  BY <1>2, <1>3, FS_Surjection

(* One row, or none. *)
LEMMA OneRow ==
  ASSUME NEW r
  PROVE  /\ Len(<<r>>) = 1 /\ Len(<<>>) = 0 /\ DOMAIN <<>> = {}
         /\ \A i \in DOMAIN <<r>> : <<r>>[i] = r
  OBVIOUS

(* A cancelled batch dooms at most as many events as it had chained, and     *)
(* keeps the positions that it had taken.                                   *)
LEMMA GapHeartbeatStep ==
  ASSUME GapInv, TypeOK', Heartbeats
  PROVE  GapInv'
<1>. DEFINE due == {c \in DOMAIN writers : writers[c].day # today}
            silent == {c \in due : ~Duplicate(writers[c], <<c, today>>)}
            row(c) == SealedEvent(writers[c], c, <<c, today>>)
            events(c) == {chained[c][i].event : i \in DOMAIN chained[c]}
<1>1. TypeOK /\ DOMAIN writers \subseteq Chains /\ today \in Days
  BY DEF GapInv, TypeOK, IsMap
<1>2. /\ UNCHANGED <<rows, deliv>> /\ DOMAIN writers' = DOMAIN writers
      /\ chained' = [c \in Chains |-> IF c \in silent THEN <<row(c)>> ELSE <<>>]
      /\ DOMAIN rollback' = {} /\ batch' = {} /\ pending' = {}
      /\ pc' \in {"idle", "beat"} /\ (pc' = "idle" => silent = {})
  BY DEF Heartbeats, EmptyMap
<1>3. ASSUME NEW c \in DOMAIN writers
      PROVE  writers'[c] = IF c \in silent
                           THEN Advance(MarkDay(writers[c]), row(c))
                           ELSE IF c \in due THEN MarkDay(writers[c])
                           ELSE writers[c]
  BY DEF Heartbeats
<1>4. ASSUME NEW c \in DOMAIN writers
      PROVE  /\ MarkDay(writers[c]).next = writers[c].next
             /\ MarkDay(writers[c]).seen = writers[c].seen
             /\ Advance(MarkDay(writers[c]), row(c)).next = writers[c].next + 1
             /\ \A s \in Advance(MarkDay(writers[c]), row(c)).seen :
                  s \in writers[c].seen \/ s.id = <<c, today>>
             /\ row(c).event = <<c, today>> /\ <<c, today>> \notin Messages
  <2>1. writers[c] \in Writer /\ <<c, today>> \in HeartbeatIds
    BY <1>1 DEF TypeOK, IsMap, HeartbeatIds
  <2>2. /\ MarkDay(writers[c]) \in Writer
        /\ MarkDay(writers[c]).next = writers[c].next
        /\ MarkDay(writers[c]).seen = writers[c].seen
    BY <1>1, <2>1 DEF MarkDay, Writer
  <2>3. row(c).event = <<c, today>> /\ <<c, today>> \notin Messages
    BY <2>1, Parameters DEF SealedEvent
  <2>. HIDE DEF row
  <2>. QED
    BY <2>2, <2>3 DEF Advance, Remember, Writer
<1>5. silent \subseteq due /\ due \subseteq DOMAIN writers
  OBVIOUS
<1>. HIDE DEF due, silent, row
<1>6. ASSUME NEW c \in Chains
      PROVE  /\ Len(chained'[c]) = IF c \in silent THEN 1 ELSE 0
             /\ \A i \in DOMAIN chained'[c] : c \in silent /\ chained'[c][i] = row(c)
  BY <1>2, OneRow
<1>7. \A x \in Messages : ~IsChained(x)'
  <2>. SUFFICES ASSUME NEW x \in Messages, IsChained(x)' PROVE FALSE
    OBVIOUS
  <2>1. ChainOf[x] \in Chains
    BY Parameters
  <2>2. PICK i \in DOMAIN chained'[ChainOf[x]] : chained'[ChainOf[x]][i].event = x
    BY DEF IsChained
  <2>3. ChainOf[x] \in silent /\ row(ChainOf[x]).event = x
    BY <1>6, <2>1, <2>2
  <2>. QED
    BY <1>4, <1>5, <2>2, <2>3
<1>8. ASSUME NEW c \in Chains
      PROVE  Doomed(c)' \subseteq Doomed(c) \cup (events(c) \cap Messages)
  <2>. SUFFICES ASSUME NEW x \in Doomed(c)', x \notin events(c)
                PROVE  x \in Doomed(c)
    BY DEF Doomed
  <2>1. /\ x \in Messages \ Undecodable /\ ChainOf[x] = c
        /\ ~Log!Recorded(x)
        /\ deliv[x] = "acked" \/ (c \in DOMAIN writers /\ Duplicate(writers'[c], x))
    BY <1>2 DEF Doomed, Log!Recorded
  <2>2. ~IsChained(x)
    BY <2>1 DEF IsChained
  <2>3. ASSUME c \in DOMAIN writers, Duplicate(writers'[c], x)
        PROVE  Duplicate(writers[c], x)
    <3>1. PICK s \in writers'[c].seen : s.id = x
      BY <2>3 DEF Duplicate
    <3>2. s.id # <<c, today>>
      BY <1>4, <2>1, <2>3, <3>1
    <3>3. s \in writers[c].seen
      BY <1>3, <1>4, <2>3, <3>1, <3>2
    <3>. QED
      BY <3>1, <3>3 DEF Duplicate
  <2>. QED
    BY <2>1, <2>2, <2>3 DEF Doomed
<1>9. ASSUME NEW c \in Chains
      PROVE  Cardinality(Doomed(c)') + Len(Stored'[c]) < NextOf(c)'
  <2>. DEFINE E == events(c) \cap Messages
  <2>. DEFINE r == Len(rows[c])
              l == Len(chained[c])
              k == Len(chained'[c])
              d == Cardinality(Doomed(c))
              d1 == Cardinality(Doomed(c)')
              u == Cardinality(Doomed(c) \cup E)
  <2>1. /\ r \in Nat /\ l \in Nat /\ k \in Nat
        /\ Len(Stored[c]) = r + l /\ Len(Stored'[c]) = r + k
    <3>1. /\ rows[c] \in Seq(Row) /\ chained[c] \in Seq(Row)
          /\ chained'[c] \in Seq(Row)
      BY <1>1 DEF TypeOK
    <3>. QED
      BY <3>1, <1>2 DEF Stored
  <2>2. NextOf(c) \in Nat /\ NextOf(c)' \in Nat
    BY <1>1 DEF NextOf, TypeOK, IsMap, Writer
  <2>3. /\ Doomed(c) \in SUBSET Messages /\ Doomed(c)' \in SUBSET Messages
        /\ E \in SUBSET Messages /\ Doomed(c) \cup E \in SUBSET Messages
    BY DEF Doomed
  <2>4. /\ IsFiniteSet(Doomed(c)) /\ Cardinality(Doomed(c)) \in Nat
        /\ IsFiniteSet(E) /\ Cardinality(E) \in Nat
        /\ IsFiniteSet(Doomed(c) \cup E) /\ Cardinality(Doomed(c) \cup E) \in Nat
        /\ Cardinality(Doomed(c)') \in Nat
    <3>. HIDE DEF E
    <3>. QED
      BY <2>3, MessagesCount
  <2>5. Cardinality(E) <= Len(chained[c])
    <3>1. IsFiniteSet(events(c)) /\ Cardinality(events(c)) <= Len(chained[c])
      BY <1>1, EventsOfRows DEF TypeOK
    <3>2. Cardinality(E) <= Cardinality(events(c)) /\ Cardinality(events(c)) \in Nat
      <4>1. E \subseteq events(c)
        OBVIOUS
      <4>. HIDE DEF E, events
      <4>. QED
        BY <3>1, <4>1, FS_Subset, FS_CardinalityType
    <3>. HIDE DEF E, events
    <3>. QED
      BY <2>1, <2>4, <3>1, <3>2
  <2>6. Cardinality(Doomed(c)') <= Cardinality(Doomed(c) \cup E)
    <3>1. Doomed(c)' \subseteq Doomed(c) \cup E
      BY <1>8
    <3>. HIDE DEF E
    <3>. QED
      BY <2>4, <3>1, FS_Subset
  <2>7. Cardinality(Doomed(c) \cup E) <= Cardinality(Doomed(c)) + Cardinality(E)
    <3>. HIDE DEF E
    <3>1. /\ Cardinality(Doomed(c) \cup E)
               = Cardinality(Doomed(c)) + Cardinality(E) - Cardinality(Doomed(c) \cap E)
          /\ Cardinality(Doomed(c) \cap E) \in Nat
      <4>1. Doomed(c) \cap E \in SUBSET Messages
        BY <2>3
      <4>. QED
        BY <2>4, <4>1, FS_Union, MessagesCount
    <3>. QED
      BY <2>4, <3>1
  <2>8. Len(chained'[c]) + NextOf(c) = NextOf(c)'
    <3>1. CASE c \in silent
      <4>1. Len(chained'[c]) = 1
        BY <1>6, <3>1
      <4>2. NextOf(c)' = NextOf(c) + 1
        BY <1>2, <1>3, <1>4, <1>5, <3>1 DEF NextOf
      <4>. QED
        BY <2>2, <4>1, <4>2
    <3>2. CASE c \notin silent
      <4>1. Len(chained'[c]) = 0
        BY <1>6, <3>2
      <4>2. NextOf(c)' = NextOf(c)
        BY <1>2, <1>3, <1>4, <1>5, <3>2 DEF NextOf
      <4>. QED
        BY <2>2, <4>1, <4>2
    <3>. QED
      BY <3>1, <3>2
  <2>9. d + Len(Stored[c]) < NextOf(c)
    BY DEF GapInv
  <2>10. /\ d \in Nat /\ d1 \in Nat /\ u \in Nat /\ Cardinality(E) \in Nat
         /\ d1 <= u /\ u <= d + Cardinality(E) /\ Cardinality(E) <= l
         /\ k + NextOf(c) = NextOf(c)'
    BY <2>4, <2>5, <2>6, <2>7, <2>8
  <2>. HIDE DEF E, r, l, k, d, d1, u
  <2>11. d1 + r < NextOf(c)
    BY <2>1, <2>2, <2>9, <2>10
  <2>12. d1 + (r + k) < NextOf(c)'
    BY <2>1, <2>2, <2>10, <2>11
  <2>. QED
    BY <2>1, <2>12 DEF d1
<1>10. pc' = "idle" => chained' = NoRows
  BY <1>2 DEF NoRows
<1>. QED
  BY <1>2, <1>7, <1>9, <1>10 DEF GapInv

(* No row more, in numbers. *)
LEMMA NoneMore ==
  ASSUME NEW s \in Nat, NEW t \in Nat, NEW n \in Nat, NEW k, t <= s, k = n
  PROVE  t + n <= s + k
  OBVIOUS

(* A step that leaves the writers alone, stores what is chained or drops     *)
(* heartbeats, and gives up only what is recorded or doomed.                *)
LEMMA GapKeepStep ==
  ASSUME GapInv, TypeOK', writers' = writers,
         \/ UNCHANGED <<rows, chained>>
         \/ chained' = NoRows /\ rows' = Stored
         \/ chained' = NoRows /\ rows' = rows /\ pc \notin {"chain", "insert"},
         \/ /\ pc \in {"chain", "insert"}
            /\ UNCHANGED <<pc, chained, rollback, pending, batch>>
         \/ DOMAIN rollback' = {} /\ pc = "idle" /\ pc' = "chain"
         \/ DOMAIN rollback' = {} /\ pc' \in {"idle", "ack", "nak"}
         \/ DOMAIN rollback' = {} /\ pc = "beat" /\ pc' = "beat",
         pc' \in {"idle", "ack", "nak"} => chained' = NoRows,
         batch' \subseteq pending', pc' \in {"insert", "ack"} => batch' = {},
         pc' \in {"chain", "insert", "ack"} =>
           \/ pending' \ batch' = {}
           \/ /\ pc \in {"chain", "insert", "ack"}
              /\ pending' \ batch' \subseteq pending \ batch,
         \A m \in pending' : deliv'[m] # "acked",
         \A m \in Messages \ Undecodable :
           deliv'[m] = "acked" =>
             deliv[m] = "acked" \/ (pc = "ack" /\ m \in pending \ batch)
  PROVE  GapInv'
<1>1. TypeOK
  BY DEF GapInv
<1>2. \A x \in Messages : Log!Recorded(x) => Log!Recorded(x)'
  BY <1>1, StoredStaysRecorded
<1>3. ASSUME NEW x \in Messages, ~Log!Recorded(x)', ~IsChained(x)'
      PROVE  ~Log!Recorded(x) /\ ~IsChained(x)
  <2>1. CASE UNCHANGED chained
    BY <1>2, <1>3, <2>1 DEF IsChained
  <2>2. CASE chained' = NoRows /\ rows' = Stored
    BY <1>1, <1>3, <2>2, InsertedAll
  <2>3. CASE pc \notin {"chain", "insert"}
    BY <1>2, <1>3, <2>3, ChainedIsTouched
  <2>. QED
    BY <2>1, <2>2, <2>3
<1>4. ASSUME NEW c \in Chains
      PROVE  Doomed(c)' \subseteq Doomed(c)
  <2>. SUFFICES ASSUME NEW x \in Doomed(c)'
                PROVE  x \in Doomed(c)
    OBVIOUS
  <2>1. /\ x \in Messages \ Undecodable /\ ChainOf[x] = c
        /\ ~Log!Recorded(x)' /\ ~IsChained(x)'
        /\ \/ deliv'[x] = "acked"
           \/ pc' \in {"chain", "insert", "ack"} /\ x \in pending' \ batch'
           \/ c \in DOMAIN writers /\ Duplicate(writers[c], x)
    BY DEF Doomed
  <2>2. ~Log!Recorded(x) /\ ~IsChained(x)
    BY <1>3, <2>1
  <2>. QED
    BY <2>1, <2>2 DEF Doomed
<1>5. ASSUME NEW c \in Chains
      PROVE  Len(Stored'[c]) + NextOf(c) <= Len(Stored[c]) + NextOf(c)'
  <2>1. NextOf(c)' = NextOf(c) /\ NextOf(c) \in Nat
    BY <1>1 DEF NextOf, TypeOK, IsMap, Writer
  <2>2. /\ Len(Stored[c]) \in Nat /\ Len(rows[c]) <= Len(Stored[c])
        /\ Len(rows[c]) \in Nat
    <3>1. /\ rows[c] \in Seq(Row) /\ chained[c] \in Seq(Row)
          /\ Stored[c] = rows[c] \o chained[c]
      BY <1>1, StoredOfChain
    <3>. DEFINE r == Len(rows[c])
                l == Len(chained[c])
    <3>2. Len(Stored[c]) = r + l /\ r \in Nat /\ l \in Nat
      BY <3>1
    <3>. HIDE DEF r, l
    <3>3. Len(Stored[c]) \in Nat /\ r <= Len(Stored[c]) /\ r \in Nat
      BY <3>2
    <3>. QED
      BY <3>3 DEF r
  <2>3. Stored'[c] = Stored[c] \/ Stored'[c] = rows[c]
    <3>1. CASE UNCHANGED <<rows, chained>>
      BY <3>1 DEF Stored
    <3>2. CASE chained' = NoRows /\ rows' = Stored
      BY <1>1, <3>2, InsertedAll
    <3>3. CASE chained' = NoRows /\ rows' = rows
      <4>1. Stored'[c] = rows[c] \o <<>> /\ rows[c] \in Seq(Row)
        BY <1>1, <3>3 DEF Stored, NoRows, TypeOK
      <4>. QED
        BY <4>1, ConcatEmpty
    <3>. QED
      BY <3>1, <3>2, <3>3
  <2>4. Len(Stored'[c]) <= Len(Stored[c]) /\ Len(Stored'[c]) \in Nat
    BY <2>2, <2>3
  <2>. HIDE DEF NextOf
  <2>. QED
    BY <2>1, <2>2, <2>4, NoneMore
<1>6. \A c \in Chains : Cardinality(Doomed(c)') + Len(Stored'[c]) < NextOf(c)'
  BY <1>1, <1>4, <1>5, FewerDoomed DEF GapInv
<1>7. ASSUME NEW x \in Messages, IsChained(x)'
      PROVE  /\ UNCHANGED <<chained, pending, batch, rollback>> /\ pc' = pc
             /\ IsChained(x)
  <2>1. chained' # NoRows
    BY <1>7, Parameters DEF IsChained, NoRows
  <2>2. chained' = chained /\ IsChained(x)
    BY <1>7, <2>1 DEF IsChained
  <2>3. pc \in {"chain", "insert"}
    BY <2>2, ChainedIsTouched
  <2>4. pc' \notin {"idle", "ack", "nak"}
    BY <2>1
  <2>. QED
    BY <2>2, <2>3, <2>4
<1>8. \A x \in Messages : IsChained(x)' =>
        /\ pc' \in {"chain", "insert"} /\ x \in pending' \ batch'
        /\ \A s \in writers'[ChainOf[x]].seen :
             s.id = x => s.at >= rollback'[ChainOf[x]].next
  BY <1>7 DEF GapInv
<1>9. ASSUME NEW c \in DOMAIN rollback'
      PROVE  /\ c \in DOMAIN writers'
             /\ writers'[c].next = rollback'[c].next + Len(chained'[c])
  BY <1>9 DEF GapInv
<1>10. ASSUME pc' \in {"chain", "insert"}, NEW c \in Chains, c \notin DOMAIN rollback'
       PROVE  chained'[c] = <<>>
  <2>1. CASE pc \in {"chain", "insert"} /\ UNCHANGED <<chained, rollback>>
    BY <1>10, <2>1 DEF GapInv
  <2>2. CASE pc = "idle"
    <3>1. chained = NoRows
      BY <2>2 DEF GapInv
    <3>2. chained' = NoRows
      BY <3>1
    <3>. QED
      BY <3>2 DEF NoRows
  <2>. QED
    BY <1>10, <2>1, <2>2
<1>11. pc' \notin {"chain", "insert"} => DOMAIN rollback' = {}
  OBVIOUS
<1>. QED
  BY <1>6, <1>8, <1>9, <1>10, <1>11 DEF GapInv

(* Without a crash and without a reply that is lost, every step leaves a     *)
(* position for each event that is doomed.                                  *)
LEMMA GapInvStep ==
  ASSUME Faults \cap {"crash", "lostReply"} = {}, GapInv, [Next]_vars
  PROVE  GapInv'
<1>1. TypeOK /\ TypeOK'
  BY TypeStep DEF GapInv
<1>2. "crash" \notin Faults /\ "lostReply" \notin Faults
  OBVIOUS
<1>3. CASE Pull
  <2>1. /\ pc = "idle" /\ pc' \in {"idle", "chain"} /\ pending' = batch'
        /\ UNCHANGED <<rows, writers, chained, rollback>> /\ DOMAIN rollback = {}
        /\ chained = NoRows
    BY <1>3 DEF Pull, GapInv
  <2>2. /\ \A m \in pending' : deliv'[m] # "acked"
        /\ \A m \in Messages \ Undecodable :
             deliv'[m] = "acked" => deliv[m] = "acked"
    BY <1>3 DEF Pull, PoisonAcked, Delivered
  <2>. QED
    BY <1>1, <2>1, <2>2, GapKeepStep
<1>4. ASSUME NEW m \in Messages, ChainNext(m)
      PROVE  GapInv'
  <2>1. /\ writers[ChainOf[m]] \in Writer /\ ChainOf[m] \in DOMAIN writers
        /\ writers[ChainOf[m]].next = NextOf(ChainOf[m])
    BY <1>1, <1>4 DEF ChainNext, TypeOK, IsMap, NextOf
  <2>. QED
    BY <1>4, <2>1, GapChainStep DEF ChainNext
<1>5. ASSUME NEW m \in Messages, ResumeChain(m)
      PROVE  GapInv'
  <2>. DEFINE c == ChainOf[m]
  <2>1. PICK head \in Head0(c) :
          /\ pc = "chain" /\ m \in batch /\ c \notin DOMAIN writers
          /\ Chain(m, ResumeFrom(head.seq, head.hash))
    BY <1>5 DEF ResumeChain
  <2>2. c \in Chains
    BY Parameters
  <2>3. ResumeFrom(head.seq, head.hash) \in Writer
    BY <1>1, <2>2, ResumeType DEF TypeOK
  <2>4. rows[c] = <<>>
    <3>1. Cardinality(Doomed(c)) + Len(Stored[c]) < 1
      BY <2>1, <2>2 DEF GapInv, NextOf
    <3>2. Cardinality(Doomed(c)) \in Nat
      <4>1. Doomed(c) \in SUBSET Messages
        BY DEF Doomed
      <4>. QED
        BY <4>1, MessagesCount
    <3>3. Stored[c] = rows[c] \o chained[c] /\ rows[c] \in Seq(Row) /\ chained[c] \in Seq(Row)
      BY <1>1, <2>2, StoredOfChain
    <3>4. Len(Stored[c]) = Len(rows[c]) + Len(chained[c])
      BY <3>3
    <3>5. Len(rows[c]) = 0
      <4>. DEFINE r == Len(rows[c])
                  l == Len(chained[c])
      <4>1. r \in Nat /\ l \in Nat /\ Len(Stored[c]) = r + l
        BY <3>3, <3>4
      <4>. HIDE DEF r, l
      <4>2. r = 0
        BY <3>1, <3>2, <4>1
      <4>. QED
        BY <4>2 DEF r
    <3>. QED
      BY <3>3, <3>5
  <2>5. head = [seq |-> 0, hash |-> GENESIS]
    BY <2>4 DEF Head0
  <2>6. /\ ResumeFrom(head.seq, head.hash).seen = {}
        /\ ResumeFrom(head.seq, head.hash).next = NextOf(c)
    BY <2>1, <2>5 DEF ResumeFrom, NextOf
  <2>. QED
    BY <2>1, <2>3, <2>6, GapChainStep
<1>6. ASSUME NEW m \in Messages, HeadUnavailable(m)
      PROVE  GapInv'
  BY <1>1, <1>6, GapDeferStep DEF HeadUnavailable
<1>7. CASE InsertOk
  <2>1. /\ pc = "insert" /\ pc' = "ack" /\ rows' = Stored /\ chained' = NoRows
        /\ DOMAIN rollback' = {} /\ UNCHANGED <<deliv, writers, batch, pending>>
        /\ batch = {}
    BY <1>7 DEF InsertOk, EmptyMap, GapInv
  <2>2. \A m \in pending' : deliv'[m] # "acked"
    BY <2>1 DEF GapInv
  <2>. QED
    BY <1>1, <2>1, <2>2, GapKeepStep
<1>8. ASSUME UNCHANGED <<rows, writers, pc, batch, pending, chained, rollback>>,
             \A m \in Messages : deliv'[m] = "acked" => deliv[m] = "acked"
      PROVE  GapInv'
  <2>1. \A m \in pending : m \in Messages
    BY <1>1 DEF TypeOK
  <2>2. /\ \A m \in pending' : deliv'[m] # "acked"
        /\ batch' \subseteq pending' /\ (pc' \in {"insert", "ack"} => batch' = {})
    BY <1>8, <2>1 DEF GapInv
  <2>3. /\ pc \in {"idle", "ack", "nak"} => chained = NoRows
        /\ pc \notin {"chain", "insert"} => DOMAIN rollback = {}
        /\ pc \in {"chain", "insert", "idle", "ack", "nak", "beat"}
    BY <1>1 DEF GapInv, TypeOK
  <2>. QED
    BY <1>1, <1>8, <2>2, <2>3, GapKeepStep
<1>9. CASE InsertFails
  <2>1. CASE Defer
    BY <1>1, <1>9, <2>1, GapDeferStep DEF InsertFails
  <2>2. CASE UNCHANGED <<writers, pc, batch, chained, rollback>>
    BY <1>8, <1>9, <2>2 DEF InsertFails
  <2>. QED
    BY <1>9, <2>1, <2>2 DEF InsertFails, AttemptFailed
<1>10. CASE InsertReplyLost \/ Crash
  BY <1>2, <1>10 DEF InsertReplyLost, Crash, Counted
<1>11. ASSUME NEW m \in Messages, Ack(m)
       PROVE  GapInv'
  <2>1. /\ pc = "ack" /\ m \in pending /\ pending' = pending \ {m}
        /\ pc' \in {"ack", "idle"} /\ batch = {} /\ chained = NoRows
        /\ UNCHANGED <<rows, writers, batch, chained, rollback>>
        /\ DOMAIN rollback = {}
    BY <1>11 DEF Ack, GapInv
  <2>2. \A x \in Messages : x # m => deliv'[x] = deliv[x]
    BY <1>1, <1>11 DEF Ack, TypeOK
  <2>3. /\ \A x \in pending' : x \in Messages /\ x # m /\ deliv[x] # "acked"
        /\ m \in pending \ batch
    BY <1>1, <2>1 DEF GapInv, TypeOK
  <2>. QED
    BY <1>1, <2>1, <2>2, <2>3, GapKeepStep
<1>12. ASSUME PullEnds, writers' = writers, pc \notin {"chain", "insert"},
              rows' = rows \/ rows' = Stored,
              \A m \in Messages : deliv'[m] = "acked" => deliv[m] = "acked"
       PROVE  GapInv'
  <2>1. /\ pc' = "idle" /\ chained' = NoRows /\ DOMAIN rollback' = {}
        /\ batch' = {} /\ pending' = {}
    BY <1>12 DEF PullEnds, EmptyMap
  <2>. QED
    BY <1>1, <1>12, <2>1, GapKeepStep
<1>13. CASE AckError
  BY <1>12, <1>13 DEF AckError
<1>14. CASE Nak
  <2>1. \A m \in Messages : deliv'[m] = "acked" => deliv[m] = "acked"
    BY <1>14 DEF Nak
  <2>. QED
    BY <1>12, <1>14, <2>1 DEF Nak
<1>15. CASE HeartbeatsStored \/ HeartbeatsFail
  BY <1>12, <1>15 DEF HeartbeatsStored, HeartbeatsFail
<1>16. ASSUME NEW m \in Messages, AckTimeout(m)
       PROVE  GapInv'
  <2>1. \A x \in Messages : deliv'[x] = "acked" => deliv[x] = "acked"
    BY <1>1, <1>16 DEF AckTimeout, TypeOK
  <2>. QED
    BY <1>8, <1>16, <2>1 DEF AckTimeout, pullVars
<1>17. CASE Heartbeats
  BY <1>1, <1>17, GapHeartbeatStep
<1>18. CASE NextDay \/ Quiet \/ UNCHANGED vars
  BY <1>8, <1>18 DEF NextDay, Quiet, pullVars, vars
<1>. QED
  BY <1>3, <1>4, <1>5, <1>6, <1>7, <1>9, <1>10, <1>11, <1>13, <1>14, <1>15,
     <1>16, <1>17, <1>18 DEF Next

(* At the start nothing is doomed and nothing stored. *)
LEMMA GapInvInit == Init => GapInv
<1>. SUFFICES ASSUME Init PROVE GapInv
  OBVIOUS
<1>1. TypeOK
  BY Parameters, NoRowsType, EmptyMapType DEF Init, TypeOK, Days
<1>2. /\ rows = NoRows /\ chained = NoRows /\ DOMAIN writers = {}
      /\ DOMAIN rollback = {} /\ pc = "idle" /\ batch = {} /\ pending = {}
      /\ deliv = [m \in Messages |-> "pending"]
  BY DEF Init, EmptyMap
<1>3. \A c \in Chains : Stored[c] = <<>> /\ chained[c] = <<>>
  BY <1>1, <1>2, StoredOfChain DEF NoRows
<1>4. \A m \in Messages : ~IsChained(m)
  BY <1>3, Parameters DEF IsChained
<1>5. \A c \in Chains : Doomed(c) = {} /\ NextOf(c) = 1
  BY <1>2 DEF Doomed, NextOf
<1>6. Cardinality({}) = 0 /\ Len(<<>>) = 0
  BY FS_EmptySet, OneRow
<1>7. \A c \in Chains : Cardinality(Doomed(c)) + Len(Stored[c]) < NextOf(c)
  BY <1>3, <1>5, <1>6
<1>. QED
  BY <1>1, <1>2, <1>4, <1>7 DEF GapInv

(* An event that is given up without having been stored, because a           *)
(* heartbeat tick dropped the batch that it was in, has used up a position   *)
(* of its chain that no row carries, for each such event one, as long as the *)
(* process lives: the loss shows as a gap, whatever else is refused,         *)
(* redelivered, lost on its way or fails.                                   *)
THEOREM EveryLossLeavesAGap ==
  ASSUME Faults \cap {"crash", "lostReply"} = {}
  PROVE  Spec => []LossLeavesGap
<1>1. GapInv => LossLeavesGap
  <2>. SUFFICES ASSUME GapInv, NEW c \in DOMAIN writers
                PROVE  LET lost == {m \in Messages \ Undecodable :
                                      /\ ChainOf[m] = c /\ deliv[m] = "acked"
                                      /\ ~Log!Recorded(m)}
                       IN Len(rows[c]) + Cardinality(lost) < writers[c].next
    BY DEF LossLeavesGap
  <2>. DEFINE lost == {m \in Messages \ Undecodable :
                         /\ ChainOf[m] = c /\ deliv[m] = "acked"
                         /\ ~Log!Recorded(m)}
              r == Len(rows[c])
              l == Len(chained[c])
  <2>1. TypeOK /\ c \in Chains
    BY DEF GapInv, TypeOK, IsMap
  <2>2. lost \subseteq Doomed(c)
    <3>1. \A m \in Messages : deliv[m] = "acked" => ~IsChained(m)
      BY DEF GapInv
    <3>. QED
      BY <3>1 DEF Doomed
  <2>3. lost \in SUBSET Messages /\ Doomed(c) \in SUBSET Messages
    BY DEF Doomed
  <2>. HIDE DEF lost
  <2>4. /\ Cardinality(lost) \in Nat /\ Cardinality(Doomed(c)) \in Nat
        /\ Cardinality(lost) <= Cardinality(Doomed(c))
    BY <2>2, <2>3, MessagesCount, FS_Subset
  <2>5. r \in Nat /\ l \in Nat /\ Len(Stored[c]) = r + l
    <3>1. /\ Stored[c] = rows[c] \o chained[c]
          /\ rows[c] \in Seq(Row) /\ chained[c] \in Seq(Row)
      BY <2>1, StoredOfChain
    <3>. QED
      BY <3>1
  <2>6. Cardinality(Doomed(c)) + Len(Stored[c]) < writers[c].next
    BY <2>1 DEF GapInv, NextOf
  <2>7. writers[c].next \in Nat
    BY <2>1 DEF TypeOK, IsMap, Writer
  <2>. HIDE DEF r, l
  <2>8. r + Cardinality(lost) < writers[c].next
    BY <2>4, <2>5, <2>6, <2>7
  <2>. QED
    BY <2>8 DEF r, lost
<1>2. GapInv /\ [Next]_vars => GapInv'
  BY GapInvStep
<1>. QED
  BY <1>1, <1>2, GapInvInit, PTL DEF Spec

-----------------------------------------------------------------------------
(* An event is stored once *)

(* What is remembered of the positions before one is remembered of those     *)
(* before a later one, and of a prefix.                                     *)
LEMMA CoversLess ==
  ASSUME NEW w \in Writer, NEW r \in Seq(Row), NEW s \in Seq(Row),
         NEW b \in Nat, NEW k \in Nat, b <= k, Covers(w, r \o s, b)
  PROVE  Covers(w, r, k)
<1>. SUFFICES ASSUME NEW i \in DOMAIN r,
                     r[i].seq + DedupeWindow >= k + MaxMessages
              PROVE  Remembered(w, r[i])
  BY DEF Covers
<1>1. i \in DOMAIN (r \o s) /\ (r \o s)[i] = r[i]
  BY ConcatElements
<1>2. r[i].seq \in Nat
  <2>1. r[i] \in Row
    OBVIOUS
  <2>. QED
    BY <2>1 DEF Row
<1>3. r[i].seq + DedupeWindow >= b + MaxMessages
  BY <1>2, Parameters
<1>. QED
  BY <1>1, <1>3 DEF Covers

(* Nothing put behind a sequence changes it. *)
LEMMA CoversLater ==
  ASSUME NEW w \in Writer, NEW r \in Seq(Row), NEW b \in Nat, NEW k \in Nat,
         b <= k, Covers(w, r, b)
  PROVE  Covers(w, r, k)
<1>1. <<>> \in Seq(Row) /\ r \o <<>> = r
  OBVIOUS
<1>2. Covers(w, r \o <<>>, b)
  BY <1>1
<1>. QED
  BY <1>1, <1>2, CoversLess

(* A prefix of rows that are far apart. *)
LEMMA ApartPrefix ==
  ASSUME NEW r \in Seq(Row), NEW s \in Seq(Row), Apart(r \o s)
  PROVE  Apart(r)
  BY ConcatElements DEF Apart

(* An event that the writer does not remember goes behind the others: it is  *)
(* far from an earlier row of its own, and the memory that is left still     *)
(* covers the positions before the base.                                    *)
LEMMA CoversAppend ==
  ASSUME NEW w \in Writer, NEW r \in Seq(Row), NEW row \in Row, NEW b \in Nat,
         row.seq = w.next, b <= w.next, w.next < b + MaxMessages,
         \A s \in w.seen : s.id # row.event,
         Covers(w, r, b), Apart(r), Below(r, row.seq)
  PROVE  /\ Covers(Advance(w, row), Append(r, row), b)
         /\ Apart(Append(r, row))
<1>. DEFINE a == Append(r, row)
            v == Advance(w, row)
<1>1. /\ Len(r) \in Nat /\ DOMAIN r = 1 .. Len(r)
      /\ DOMAIN a = 1 .. Len(r) + 1 /\ a[Len(r) + 1] = row
      /\ \A i \in 1 .. Len(r) : a[i] = r[i] /\ r[i] \in Row
  OBVIOUS
<1>2. \A i \in 1 .. Len(r) : r[i].seq \in Nat /\ r[i].event \in EventIds
  BY <1>1 DEF Row
<1>3. row.seq \in Nat /\ row.event \in EventIds
  BY DEF Row
<1>4. v.seen = {s \in w.seen \cup {[id |-> row.event, at |-> row.seq]} :
                  s.at + DedupeWindow > row.seq}
  BY DEF Advance, Remember, Writer
<1>5. DedupeWindow \in Nat \ {0} /\ MaxMessages \in Nat
  BY Parameters
<1>. HIDE DEF a, v
<1>6. ASSUME NEW i \in 1 .. Len(r) + 1
      PROVE  i \in 1 .. Len(r) \/ i = Len(r) + 1
  BY <1>1
<1>7. Covers(v, a, b)
  <2>. SUFFICES ASSUME NEW i \in 1 .. Len(r) + 1,
                       a[i].seq + DedupeWindow >= b + MaxMessages
                PROVE  [id |-> a[i].event, at |-> a[i].seq] \in v.seen
    BY <1>1 DEF Covers, Remembered
  <2>1. CASE i \in 1 .. Len(r)
    <3>1. [id |-> r[i].event, at |-> r[i].seq] \in w.seen
      BY <1>1, <2>1 DEF Covers, Remembered
    <3>2. r[i].seq + DedupeWindow > row.seq
      <4>1. r[i].seq + DedupeWindow >= b + MaxMessages
        BY <1>1, <2>1
      <4>. QED
        BY <1>2, <1>3, <1>5, <2>1, <4>1
    <3>3. [id |-> r[i].event, at |-> r[i].seq].at = r[i].seq
      OBVIOUS
    <3>. QED
      BY <1>1, <1>4, <2>1, <3>1, <3>2, <3>3
  <2>2. CASE i = Len(r) + 1
    <3>1. row.seq + DedupeWindow > row.seq
      BY <1>3, <1>5
    <3>2. [id |-> row.event, at |-> row.seq].at = row.seq
      OBVIOUS
    <3>. QED
      BY <1>1, <1>4, <2>2, <3>1, <3>2
  <2>. QED
    BY <1>6, <2>1, <2>2
<1>8. Apart(a)
  <2>. SUFFICES ASSUME NEW i \in 1 .. Len(r) + 1, NEW j \in 1 .. Len(r) + 1,
                       i < j, a[i].event = a[j].event
                PROVE  a[i].seq + DedupeWindow < a[j].seq + MaxMessages
    BY <1>1 DEF Apart
  <2>1. i \in 1 .. Len(r)
    BY <1>1
  <2>2. CASE j \in 1 .. Len(r)
    BY <1>1, <2>1, <2>2 DEF Apart
  <2>3. CASE j = Len(r) + 1
    <3>1. r[i].event = row.event /\ a[j].seq = row.seq /\ a[i].seq = r[i].seq
      BY <1>1, <2>1, <2>3
    <3>2. [id |-> r[i].event, at |-> r[i].seq] \notin w.seen
      BY <3>1
    <3>3. ~(r[i].seq + DedupeWindow >= b + MaxMessages)
      BY <1>1, <2>1, <3>2 DEF Covers, Remembered
    <3>. QED
      BY <1>2, <1>3, <1>5, <2>1, <3>1, <3>3
  <2>. QED
    BY <1>6, <2>2, <2>3
<1>. QED
  BY <1>7, <1>8 DEF a, v

(* What a writer returns to is a position. *)
LEMMA BaseType ==
  ASSUME OnceInv, NEW c \in DOMAIN writers
  PROVE  Base(c) \in Nat /\ writers[c].next \in Nat /\ Base(c) <= writers[c].next
  BY DEF Base, OnceInv, SeqInv, TypeOK, IsMap, Writer, Cursor

(* What is stored is covered as what is stored and chained is. *)
LEMMA RowsCovered ==
  ASSUME OnceInv, NEW c \in DOMAIN writers, NEW k \in Nat, Base(c) <= k
  PROVE  Covers(writers[c], rows[c], k)
<1>1. c \in Chains /\ writers[c] \in Writer /\ TypeOK
  BY DEF OnceInv, SeqInv, TypeOK, IsMap
<1>2. /\ Stored[c] = rows[c] \o chained[c]
      /\ rows[c] \in Seq(Row) /\ chained[c] \in Seq(Row)
  BY <1>1, StoredOfChain
<1>3. Covers(writers[c], rows[c] \o chained[c], Base(c))
  BY <1>2 DEF OnceInv
<1>. QED
  BY <1>1, <1>2, <1>3, BaseType, CoversLess

(* The rows of a chain are far apart, by themselves. *)
LEMMA RowsApart ==
  ASSUME OnceInv, NEW c \in Chains
  PROVE  Apart(rows[c])
<1>1. TypeOK
  BY DEF OnceInv, SeqInv
<1>2. /\ Stored[c] = rows[c] \o chained[c]
      /\ rows[c] \in Seq(Row) /\ chained[c] \in Seq(Row)
  BY <1>1, StoredOfChain
<1>3. Apart(rows[c] \o chained[c])
  BY <1>2 DEF OnceInv
<1>. QED
  BY <1>2, <1>3, ApartPrefix

(* A batch that gets an event smaller. *)
LEMMA SmallerBatch ==
  ASSUME TypeOK, NEW m \in batch
  PROVE  /\ Cardinality(batch) \in Nat /\ Cardinality(batch \ {m}) \in Nat
         /\ Cardinality(batch \ {m}) = Cardinality(batch) - 1
         /\ Cardinality(batch) >= 1
<1>1. batch \in SUBSET Messages /\ batch \ {m} \in SUBSET Messages
  BY DEF TypeOK
<1>2. /\ IsFiniteSet(batch) /\ Cardinality(batch) \in Nat
      /\ Cardinality(batch \ {m}) \in Nat
  BY <1>1, MessagesCount
<1>3. Cardinality(batch \ {m}) = Cardinality(batch) - 1
  BY <1>2, FS_RemoveElement
<1>. QED
  BY <1>2, <1>3

(* Chaining one event of the batch. *)
LEMMA OnceChainStep ==
  ASSUME OnceInv, SeqInv', pc = "chain", NEW m \in batch, NEW w \in Writer,
         \/ ChainOf[m] \in DOMAIN writers /\ w = writers[ChainOf[m]]
         \/ ChainOf[m] \notin DOMAIN writers /\ w.seen = {},
         Below(Stored[ChainOf[m]], w.next), Chain(m, w)
  PROVE  OnceInv'
<1>. DEFINE c == ChainOf[m]
            row == SealedEvent(w, c, m)
            returns == batch = {m} /\ Duplicate(w, m) /\ chained = NoRows
            b == IF c \in DOMAIN rollback THEN rollback[c].next ELSE w.next
            n == Cardinality(batch)
            n1 == Cardinality(batch \ {m})
<1>1. TypeOK /\ TypeOK' /\ SeqInv
  BY DEF OnceInv, SeqInv
<1>2. /\ m \in Messages /\ c \in Chains /\ m \in EventIds
      /\ w.next \in Nat \ {0}
  BY <1>1, Parameters DEF TypeOK, EventIds, Writer
<1>3. /\ rows' = rows /\ batch' = batch \ {m}
      /\ writers' = Put(writers, c, IF Duplicate(w, m) THEN w ELSE Advance(w, row))
      /\ chained' = IF Duplicate(w, m) THEN chained
                    ELSE [chained EXCEPT ![c] = Append(@, row)]
      /\ rollback' = IF returns THEN EmptyMap
                     ELSE IF c \in DOMAIN rollback THEN rollback
                     ELSE Put(rollback, c, CursorOf(w))
  BY DEF Chain
<1>4. row.event = m /\ row.seq = w.next /\ row \in Row
  BY <1>1, <1>2, SealedEventType DEF SealedEvent, TypeOK
<1>5. Advance(w, row).next = w.next + 1 /\ Advance(w, row) \in Writer
  BY <1>4, AdvanceType DEF Advance, Writer
<1>. HIDE DEF row, returns
<1>6. /\ DOMAIN writers' = DOMAIN writers \cup {c}
      /\ writers'[c] = IF Duplicate(w, m) THEN w ELSE Advance(w, row)
      /\ \A d \in DOMAIN writers \ {c} : writers'[d] = writers[d]
  BY <1>3 DEF Put
<1>7. /\ n \in Nat /\ n1 \in Nat /\ n1 = n - 1 /\ n >= 1 /\ n <= MaxMessages
      /\ MaxMessages \in Nat
  BY <1>1, SmallerBatch, Parameters DEF OnceInv
<1>8. b \in Nat /\ b <= w.next /\ w.next + n <= b + MaxMessages
  <2>. HIDE DEF n
  <2>1. CASE c \in DOMAIN rollback
    <3>1. /\ c \in DOMAIN writers /\ w = writers[c]
          /\ rollback[c].next \in Nat
      BY <1>1, <2>1 DEF SeqInv, TypeOK, IsMap, Cursor
    <3>2. /\ rollback[c].next <= writers[c].next
          /\ writers[c].next + n <= rollback[c].next + MaxMessages
      BY <2>1 DEF OnceInv, n
    <3>. QED
      BY <2>1, <3>1, <3>2
  <2>2. CASE c \notin DOMAIN rollback
    BY <1>2, <1>7, <2>2
  <2>. QED
    BY <2>1, <2>2
<1>. HIDE DEF n, n1
<1>9. /\ DOMAIN rollback' \subseteq DOMAIN rollback \cup {c}
      /\ \A d \in DOMAIN rollback' \ {c} : rollback'[d] = rollback[d]
      /\ c \in DOMAIN rollback' => rollback'[c].next = b
      /\ ~returns => DOMAIN rollback' = DOMAIN rollback \cup {c}
      /\ returns => DOMAIN rollback' = {}
  BY <1>3 DEF Put, CursorOf, EmptyMap
<1>10. /\ rows[c] \in Seq(Row) /\ chained[c] \in Seq(Row)
       /\ Stored[c] = rows[c] \o chained[c] /\ Stored[c] \in Seq(Row)
  BY <1>1, <1>2, StoredOfChain
<1>11. Covers(w, Stored[c], b)
  <2>1. CASE c \in DOMAIN writers
    BY <2>1 DEF OnceInv, Base
  <2>2. CASE c \notin DOMAIN writers
    <3>1. rows[c] = <<>> /\ chained[c] = <<>>
      BY <1>1, <1>2, <2>2 DEF OnceInv, SeqInv
    <3>2. Stored[c] = <<>>
      BY <1>10, <3>1, ConcatEmpty
    <3>. QED
      BY <3>2 DEF Covers
  <2>. QED
    BY <2>1, <2>2
<1>. HIDE DEF b
<1>12. ASSUME NEW d \in Chains, d # c
       PROVE  Stored'[d] = Stored[d]
  BY <1>1, <1>3, <1>12 DEF Stored, TypeOK
<1>13. Covers(writers'[c], Stored'[c], b) /\ Apart(Stored'[c])
  <2>1. CASE Duplicate(w, m)
    <3>1. Stored'[c] = Stored[c] /\ writers'[c] = w
      BY <1>3, <1>6, <2>1 DEF Stored
    <3>. QED
      BY <1>2, <1>11, <3>1 DEF OnceInv
  <2>2. CASE ~Duplicate(w, m)
    <3>1. Stored'[c] = rows[c] \o Append(chained[c], row)
      BY <1>1, <1>2, <1>3, <2>2 DEF Stored, TypeOK
    <3>2. rows[c] \o Append(chained[c], row) = Append(rows[c] \o chained[c], row)
      BY <1>4, <1>10, ConcatAppend, Zenon
    <3>3. Stored'[c] = Append(Stored[c], row)
      BY <1>10, <3>1, <3>2, Zenon
    <3>4. w.next < b + MaxMessages
      BY <1>2, <1>7, <1>8
    <3>5. \A s \in w.seen : s.id # row.event
      BY <1>4, <2>2 DEF Duplicate
    <3>6. Apart(Stored[c]) /\ Below(Stored[c], row.seq)
      BY <1>2, <1>4 DEF OnceInv
    <3>7. /\ Covers(Advance(w, row), Append(Stored[c], row), b)
          /\ Apart(Append(Stored[c], row))
      BY <1>4, <1>8, <1>10, <1>11, <3>4, <3>5, <3>6, CoversAppend
    <3>. QED
      BY <1>6, <2>2, <3>3, <3>7
  <2>. QED
    BY <2>1, <2>2
<1>14. \A d \in Chains : Apart(Stored'[d])
  BY <1>12, <1>13 DEF OnceInv
<1>15. /\ writers'[c].next \in Nat /\ writers'[c] \in Writer
       /\ b <= writers'[c].next
       /\ writers'[c].next + n1 <= b + MaxMessages
  BY <1>2, <1>5, <1>6, <1>7, <1>8
<1>16. ASSUME NEW d \in DOMAIN writers'
       PROVE  Covers(writers'[d], Stored'[d], Base(d)')
  <2>1. d \in Chains
    BY <1>1 DEF TypeOK, IsMap
  <2>2. CASE d = c
    <3>1. Base(d)' = b \/ Base(d)' = writers'[c].next
      BY <1>9, <2>2 DEF Base
    <3>2. Stored'[c] \in Seq(Row)
      BY <1>1, <1>2 DEF Stored, TypeOK
    <3>3. Covers(writers'[c], Stored'[c], writers'[c].next)
      BY <1>8, <1>13, <1>15, <3>2, CoversLater
    <3>. QED
      BY <1>13, <2>2, <3>1, <3>3
  <2>3. CASE d # c
    <3>1. d \in DOMAIN writers /\ writers'[d] = writers[d] /\ Stored'[d] = Stored[d]
      BY <1>6, <1>12, <2>1, <2>3
    <3>2. Base(d)' = Base(d) \/ Base(d)' = writers[d].next
      BY <1>9, <2>3, <3>1 DEF Base
    <3>3. Covers(writers[d], Stored[d], Base(d)) /\ Stored[d] \in Seq(Row)
          /\ writers[d] \in Writer
      BY <1>1, <2>1, <3>1, StoredOfChain DEF OnceInv, TypeOK, IsMap
    <3>4. Covers(writers[d], Stored[d], writers[d].next)
      BY <3>1, <3>3, BaseType, CoversLater
    <3>. QED
      BY <3>1, <3>2, <3>3, <3>4
  <2>. QED
    BY <2>2, <2>3
<1>17. Cardinality(batch') = n1 /\ n1 <= MaxMessages
  BY <1>3, <1>7 DEF n1
<1>18. ASSUME NEW d \in DOMAIN rollback'
       PROVE  /\ rollback'[d].next <= writers'[d].next
              /\ writers'[d].next + n1 <= rollback'[d].next + MaxMessages
  <2>1. CASE d = c
    BY <1>9, <1>15, <2>1
  <2>2. CASE d # c
    <3>1. d \in DOMAIN rollback /\ rollback'[d] = rollback[d]
      BY <1>9, <2>2
    <3>2. /\ d \in DOMAIN writers /\ writers'[d] = writers[d]
          /\ writers[d].next \in Nat /\ rollback[d].next \in Nat
      BY <1>1, <1>6, <2>2, <3>1 DEF SeqInv, TypeOK, IsMap, Writer, Cursor
    <3>3. /\ rollback[d].next <= writers[d].next
          /\ writers[d].next + n <= rollback[d].next + MaxMessages
      BY <3>1 DEF OnceInv, n
    <3>. QED
      BY <1>7, <3>1, <3>2, <3>3
  <2>. QED
    BY <2>1, <2>2
<1>19. \A d \in Chains : d \notin DOMAIN writers' => rows'[d] = <<>>
  BY <1>3, <1>6 DEF OnceInv
<1>. QED
  BY <1>14, <1>16, <1>17, <1>18, <1>19 DEF OnceInv

(* Once nothing is chained and no writer is to be rewound. *)
LEMMA OnceDropStep ==
  ASSUME SeqInv', chained' = NoRows, DOMAIN rollback' = {},
         Cardinality(batch') <= MaxMessages,
         \A c \in Chains : c \notin DOMAIN writers' => rows'[c] = <<>>,
         \A c \in DOMAIN writers' : Covers(writers'[c], rows'[c], writers'[c].next),
         \A c \in Chains : Apart(rows'[c])
  PROVE  OnceInv'
<1>1. TypeOK'
  BY DEF SeqInv
<1>2. \A c \in Chains : Stored'[c] = rows'[c]
  BY <1>1, ConcatEmpty DEF Stored, NoRows, TypeOK
<1>3. \A c \in DOMAIN writers' : c \in Chains /\ Base(c)' = writers'[c].next
  BY <1>1 DEF Base, TypeOK, IsMap
<1>. QED
  BY <1>2, <1>3 DEF OnceInv

(* No message, no batch. *)
LEMMA EmptyBatch == Cardinality({}) <= MaxMessages
  BY FS_EmptySet, Parameters

(* A rewind forgets exactly what is not stored. *)
LEMMA OnceDeferStep ==
  ASSUME OnceInv, SeqInv', Defer, UNCHANGED rows
  PROVE  OnceInv'
<1>1. TypeOK /\ DOMAIN writers \subseteq Chains /\ SeqInv
  BY DEF OnceInv, SeqInv, TypeOK, IsMap
<1>2. /\ chained' = NoRows /\ DOMAIN rollback' = {} /\ batch' = {}
      /\ DOMAIN writers' = DOMAIN writers
  BY DEF Defer, EmptyMap, Rewound
<1>3. ASSUME NEW c \in DOMAIN writers
      PROVE  Covers(writers'[c], rows[c], writers'[c].next)
  <2>1. c \in Chains /\ writers[c] \in Writer /\ rows[c] \in Seq(Row)
    BY <1>1 DEF TypeOK, IsMap
  <2>2. writers'[c] = IF c \in DOMAIN rollback
                      THEN RewindTo(writers[c], rollback[c]) ELSE writers[c]
    BY DEF Defer, Rewound
  <2>3. CASE c \in DOMAIN rollback
    <3>. DEFINE k == rollback[c].next
    <3>1. k \in Nat /\ Base(c) = k
      BY <1>1, <2>3 DEF Base, TypeOK, IsMap, Cursor
    <3>2. Covers(writers[c], rows[c], k)
      BY <3>1, RowsCovered
    <3>3. Below(rows[c], k)
      BY <1>1, <2>3 DEF SeqInv
    <3>4. /\ writers'[c].next = k
          /\ writers'[c].seen = {s \in writers[c].seen : s.at < k}
      BY <2>1, <2>2, <2>3 DEF RewindTo, Writer
    <3>. HIDE DEF k
    <3>5. ASSUME NEW i \in DOMAIN rows[c],
                 rows[c][i].seq + DedupeWindow >= k + MaxMessages
          PROVE  Remembered(writers'[c], rows[c][i])
      <4>1. [id |-> rows[c][i].event, at |-> rows[c][i].seq] \in writers[c].seen
        BY <3>2, <3>5 DEF Covers, Remembered
      <4>2. [id |-> rows[c][i].event, at |-> rows[c][i].seq].at < k
        BY <3>3 DEF Below
      <4>. QED
        BY <3>4, <4>1, <4>2 DEF Remembered
    <3>. QED
      BY <3>4, <3>5 DEF Covers
  <2>4. CASE c \notin DOMAIN rollback
    <3>1. Base(c) = writers[c].next /\ writers[c].next \in Nat
      BY <2>1, <2>4 DEF Base, Writer
    <3>. QED
      BY <2>2, <2>4, <3>1, RowsCovered
  <2>. QED
    BY <2>3, <2>4
<1>4. \A c \in Chains : c \notin DOMAIN writers' => rows'[c] = <<>>
  BY <1>2 DEF OnceInv
<1>. QED
  BY <1>2, <1>3, <1>4, RowsApart, EmptyBatch, OnceDropStep

(* Heartbeats are chained as events are, behind what is stored. *)
LEMMA OnceHeartbeatStep ==
  ASSUME OnceInv, SeqInv', Heartbeats
  PROVE  OnceInv'
<1>. DEFINE due == {c \in DOMAIN writers : writers[c].day # today}
            silent == {c \in due : ~Duplicate(writers[c], <<c, today>>)}
            row(c) == SealedEvent(writers[c], c, <<c, today>>)
<1>1. /\ TypeOK /\ TypeOK' /\ SeqInv /\ DOMAIN writers \subseteq Chains
      /\ today \in Days
  BY DEF OnceInv, SeqInv, TypeOK, IsMap
<1>2. /\ rows' = rows /\ DOMAIN writers' = DOMAIN writers
      /\ chained' = [c \in Chains |-> IF c \in silent THEN <<row(c)>> ELSE <<>>]
      /\ DOMAIN rollback' = {} /\ batch' = {}
  BY DEF Heartbeats, EmptyMap
<1>3. ASSUME NEW c \in DOMAIN writers
      PROVE  writers'[c] = IF c \in silent
                           THEN Advance(MarkDay(writers[c]), row(c))
                           ELSE IF c \in due THEN MarkDay(writers[c])
                           ELSE writers[c]
  BY DEF Heartbeats
<1>4. ASSUME NEW c \in DOMAIN writers
      PROVE  /\ c \in Chains /\ writers[c].next \in Nat
             /\ MarkDay(writers[c]) \in Writer
             /\ MarkDay(writers[c]).next = writers[c].next
             /\ MarkDay(writers[c]).seen = writers[c].seen
             /\ row(c) \in Row /\ row(c).event = <<c, today>>
             /\ row(c).seq = writers[c].next
  <2>1. /\ writers[c] \in Writer /\ <<c, today>> \in EventIds /\ c \in Chains
    BY <1>1 DEF TypeOK, IsMap, HeartbeatIds, EventIds
  <2>2. /\ MarkDay(writers[c]) \in Writer
        /\ MarkDay(writers[c]).next = writers[c].next
        /\ MarkDay(writers[c]).seen = writers[c].seen
        /\ writers[c].next \in Nat
    BY <1>1, <2>1 DEF MarkDay, Writer
  <2>3. /\ row(c) \in Row /\ row(c).event = <<c, today>>
        /\ row(c).seq = writers[c].next
    BY <1>1, <2>1, SealedEventType DEF SealedEvent, TypeOK
  <2>. HIDE DEF row
  <2>. QED
    BY <2>1, <2>2, <2>3
<1>5. /\ silent \subseteq due /\ due \subseteq DOMAIN writers
      /\ \A c \in silent : \A s \in writers[c].seen : s.id # <<c, today>>
  BY DEF Duplicate
<1>6. \A c \in Chains : Stored'[c] = rows[c] \o (IF c \in silent THEN <<row(c)>> ELSE <<>>)
  BY <1>2 DEF Stored
<1>. HIDE DEF due, silent, row
<1>7. ASSUME NEW c \in DOMAIN writers
      PROVE  Covers(MarkDay(writers[c]), rows[c], writers[c].next)
  <2>1. Base(c) <= writers[c].next
    BY BaseType
  <2>2. Covers(writers[c], rows[c], writers[c].next)
    BY <1>4, <2>1, RowsCovered
  <2>. QED
    BY <1>4, <2>2 DEF Covers, Remembered
<1>8. ASSUME NEW c \in silent
      PROVE  /\ Covers(writers'[c], Stored'[c], writers'[c].next)
             /\ Apart(Stored'[c])
  <2>. DEFINE w == MarkDay(writers[c])
              k == writers[c].next
  <2>1. c \in DOMAIN writers /\ c \in Chains /\ rows[c] \in Seq(Row)
    BY <1>1, <1>5 DEF TypeOK
  <2>2. Stored'[c] = Append(rows[c], row(c))
    <3>1. Stored'[c] = rows[c] \o <<row(c)>>
      BY <1>6, <2>1
    <3>. QED
      BY <1>4, <2>1, <3>1
  <2>3. /\ w \in Writer /\ row(c) \in Row /\ k \in Nat
        /\ row(c).seq = w.next /\ w.next = k /\ row(c).event = <<c, today>>
        /\ w.seen = writers[c].seen
    BY <1>4, <2>1
  <2>4. Covers(w, rows[c], k)
    BY <1>7, <2>1
  <2>5. Apart(rows[c]) /\ Below(rows[c], row(c).seq)
    BY <1>1, <2>1, <2>3, RowsApart, RowsAscend
  <2>6. writers'[c] = Advance(w, row(c))
    BY <1>3, <2>1
  <2>. HIDE DEF w, k
  <2>7. \A s \in w.seen : s.id # row(c).event
    BY <1>5, <2>3
  <2>8. k <= w.next /\ w.next < k + MaxMessages
    BY <2>3, Parameters
  <2>9. /\ Covers(Advance(w, row(c)), Append(rows[c], row(c)), k)
        /\ Apart(Append(rows[c], row(c)))
    BY <2>1, <2>3, <2>4, <2>5, <2>7, <2>8, CoversAppend
  <2>10. /\ Advance(w, row(c)).next = k + 1 /\ Advance(w, row(c)) \in Writer
         /\ Append(rows[c], row(c)) \in Seq(Row) /\ k <= k + 1 /\ k + 1 \in Nat
    <3>1. Advance(w, row(c)) \in Writer
      BY <2>3, AdvanceType
    <3>2. Advance(w, row(c)).next = k + 1
      BY <2>3 DEF Advance, Writer
    <3>3. Append(rows[c], row(c)) \in Seq(Row)
      BY <2>1, <2>3
    <3>. QED
      BY <2>3, <3>1, <3>2, <3>3
  <2>11. Covers(Advance(w, row(c)), Append(rows[c], row(c)), k + 1)
    BY <2>3, <2>9, <2>10, CoversLater
  <2>. QED
    BY <2>2, <2>6, <2>9, <2>10, <2>11
<1>9. ASSUME NEW c \in Chains \ silent
      PROVE  /\ Apart(Stored'[c])
             /\ c \in DOMAIN writers => Covers(writers'[c], Stored'[c], writers'[c].next)
  <2>1. Stored'[c] = rows[c]
    <3>1. rows[c] \in Seq(Row) /\ Stored'[c] = rows[c] \o <<>>
      BY <1>1, <1>6 DEF TypeOK
    <3>. QED
      BY <3>1, ConcatEmpty
  <2>2. ASSUME c \in DOMAIN writers
        PROVE  Covers(writers'[c], rows[c], writers'[c].next)
    <3>1. Covers(MarkDay(writers[c]), rows[c], writers[c].next)
      BY <1>7, <2>2
    <3>2. /\ writers'[c].seen = writers[c].seen
          /\ writers'[c].next = writers[c].next
          /\ MarkDay(writers[c]).seen = writers[c].seen
      BY <1>3, <1>4, <2>2
    <3>. QED
      BY <3>1, <3>2 DEF Covers, Remembered
  <2>. QED
    BY <2>1, <2>2, RowsApart
<1>10. \A c \in DOMAIN writers' : c \in Chains /\ Base(c)' = writers'[c].next
  BY <1>1, <1>2 DEF Base
<1>11. \A c \in DOMAIN writers' : Covers(writers'[c], Stored'[c], Base(c)')
  BY <1>2, <1>8, <1>9, <1>10
<1>12. \A c \in Chains : Apart(Stored'[c])
  BY <1>8, <1>9
<1>13. \A c \in Chains : c \notin DOMAIN writers' => rows'[c] = <<>>
  BY <1>2 DEF OnceInv
<1>. QED
  BY <1>2, <1>11, <1>12, <1>13, EmptyBatch DEF OnceInv

(* Without a crash and without a reply that is lost, every step keeps the    *)
(* rows of an event apart.                                                  *)
LEMMA OnceInvStep ==
  ASSUME Faults \cap {"crash", "lostReply"} = {}, OnceInv, [Next]_vars
  PROVE  OnceInv'
<1>1. SeqInv /\ SeqInv'
  BY SeqInvStep DEF OnceInv
<1>2. TypeOK /\ TypeOK' /\ DOMAIN writers \subseteq Chains
  BY <1>1 DEF SeqInv, TypeOK, IsMap
<1>3. "crash" \notin Faults /\ "lostReply" \notin Faults
  OBVIOUS
<1>4. ASSUME UNCHANGED <<rows, writers, chained, rollback>>,
             \/ batch' = batch
             \/ DOMAIN rollback = {} /\ Cardinality(batch') <= MaxMessages
      PROVE  OnceInv'
  <2>1. Stored' = Stored /\ \A c \in DOMAIN writers : Base(c)' = Base(c)
    BY <1>4 DEF Stored, Base
  <2>. QED
    BY <1>1, <1>4, <2>1 DEF OnceInv
<1>5. ASSUME writers' = writers, batch' = {} \/ batch' = batch,
             chained' = NoRows, DOMAIN rollback' = {},
             rows' = rows \/ rows' = Stored
      PROVE  OnceInv'
  <2>1. \A c \in DOMAIN writers : Covers(writers[c], rows[c], writers[c].next)
    BY BaseType, RowsCovered
  <2>2. ASSUME NEW c \in DOMAIN writers
        PROVE  Covers(writers[c], Stored[c], writers[c].next)
    <3>1. /\ writers[c] \in Writer /\ Stored[c] \in Seq(Row)
          /\ Covers(writers[c], Stored[c], Base(c))
      BY <1>2, StoredOfChain DEF OnceInv, TypeOK, IsMap
    <3>. QED
      BY <3>1, BaseType, CoversLater
  <2>3. ASSUME NEW c \in Chains, c \notin DOMAIN writers
        PROVE  rows'[c] = <<>>
    <3>1. rows[c] = <<>> /\ chained[c] = <<>>
      BY <1>1, <2>3 DEF OnceInv, SeqInv
    <3>2. Stored[c] = rows[c]
      BY <1>2, <3>1, StoredOfChain
    <3>. QED
      BY <1>5, <3>1, <3>2
  <2>4. \A c \in Chains : Apart(rows[c]) /\ Apart(Stored[c])
    BY RowsApart DEF OnceInv
  <2>5. Cardinality(batch') <= MaxMessages
    BY <1>5, EmptyBatch DEF OnceInv
  <2>. QED
    BY <1>1, <1>5, <2>1, <2>2, <2>3, <2>4, <2>5, OnceDropStep
<1>6. CASE Pull
  <2>1. PICK got \in SUBSET Messages :
          Cardinality(got) <= MaxMessages /\ batch' = got \ Undecodable
    BY <1>6 DEF Pull
  <2>2. Cardinality(got \ Undecodable) <= MaxMessages
    <3>1. IsFiniteSet(got) /\ Cardinality(got) \in Nat
      BY MessagesCount
    <3>2. /\ Cardinality(got \ Undecodable) <= Cardinality(got)
          /\ Cardinality(got \ Undecodable) \in Nat
      <4>1. got \ Undecodable \in SUBSET got /\ got \ Undecodable \in SUBSET Messages
        OBVIOUS
      <4>. QED
        BY <3>1, <4>1, FS_Subset, MessagesCount
    <3>. QED
      BY <2>1, <3>1, <3>2, Parameters
  <2>. QED
    BY <1>1, <1>4, <1>6, <2>1, <2>2 DEF Pull, SeqInv
<1>7. ASSUME NEW m \in Messages, ChainNext(m)
      PROVE  OnceInv'
  <2>1. writers[ChainOf[m]] \in Writer /\ ChainOf[m] \in DOMAIN writers
    BY <1>2, <1>7 DEF ChainNext, TypeOK, IsMap
  <2>2. Below(Stored[ChainOf[m]], writers[ChainOf[m]].next)
    BY <1>1, <2>1 DEF SeqInv
  <2>. QED
    BY <1>1, <1>7, <2>1, <2>2, OnceChainStep DEF ChainNext
<1>8. ASSUME NEW m \in Messages, ResumeChain(m)
      PROVE  OnceInv'
  <2>. DEFINE c == ChainOf[m]
  <2>1. c \in Chains /\ c \notin DOMAIN writers /\ chained[c] = <<>>
    BY <1>1, <1>8, Parameters DEF ResumeChain, SeqInv
  <2>2. PICK head \in Head0(c) :
          pc = "chain" /\ m \in batch /\ Chain(m, ResumeFrom(head.seq, head.hash))
    BY <1>8 DEF ResumeChain
  <2>3. /\ ResumeFrom(head.seq, head.hash) \in Writer
        /\ ResumeFrom(head.seq, head.hash).seen = {}
    BY <1>2, <2>1, ResumeType DEF TypeOK, ResumeFrom
  <2>4. Below(rows[c], ResumeFrom(head.seq, head.hash).next)
    BY <1>2, <2>1, ResumeBelow DEF TypeOK
  <2>5. Stored[c] = rows[c]
    BY <1>2, <2>1, StoredOfChain
  <2>. QED
    BY <1>1, <2>1, <2>2, <2>3, <2>4, <2>5, OnceChainStep
<1>9. ASSUME NEW m \in Messages, HeadUnavailable(m)
      PROVE  OnceInv'
  BY <1>1, <1>9, OnceDeferStep DEF HeadUnavailable
<1>10. CASE InsertOk
  BY <1>5, <1>10 DEF InsertOk, EmptyMap
<1>11. CASE InsertFails
  <2>1. CASE Defer
    BY <1>1, <1>11, <2>1, OnceDeferStep DEF InsertFails
  <2>2. CASE UNCHANGED <<writers, pc, batch, chained, rollback>>
    BY <1>4, <1>11, <2>2 DEF InsertFails
  <2>. QED
    BY <1>11, <2>1, <2>2 DEF InsertFails, AttemptFailed
<1>12. CASE InsertReplyLost \/ Crash
  BY <1>3, <1>12 DEF InsertReplyLost, Crash, Counted
<1>13. CASE \E m \in Messages : Ack(m) \/ AckTimeout(m)
  BY <1>4, <1>13 DEF Ack, AckTimeout, pullVars
<1>14. CASE AckError \/ Nak \/ HeartbeatsFail \/ HeartbeatsStored
  BY <1>5, <1>14 DEF AckError, Nak, HeartbeatsFail, HeartbeatsStored, PullEnds, EmptyMap
<1>15. CASE Heartbeats
  BY <1>1, <1>15, OnceHeartbeatStep
<1>16. CASE NextDay \/ Quiet \/ UNCHANGED vars
  BY <1>4, <1>16 DEF NextDay, Quiet, pullVars, vars
<1>. QED
  BY <1>6, <1>7, <1>8, <1>9, <1>10, <1>11, <1>12, <1>13, <1>14, <1>15, <1>16
     DEF Next

(* At the start nothing is stored and nothing remembered. *)
LEMMA OnceInvInit == Init => OnceInv
<1>. SUFFICES ASSUME Init PROVE OnceInv
  OBVIOUS
<1>1. SeqInv /\ TypeOK
  BY SeqInvInit DEF SeqInv
<1>2. /\ rows = NoRows /\ chained = NoRows /\ DOMAIN writers = {}
      /\ DOMAIN rollback = {} /\ batch = {}
  BY DEF Init, EmptyMap
<1>3. \A c \in Chains : Stored[c] = <<>> /\ rows[c] = <<>>
  BY <1>1, <1>2, StoredOfChain DEF NoRows
<1>. QED
  BY <1>1, <1>2, <1>3, EmptyBatch DEF OnceInv, Apart

(* Two rows of one event are at least DedupeWindow - MaxMessages positions    *)
(* apart, as long as the process lives and no reply is lost: a redelivery    *)
(* that comes sooner is recognised, whatever batch was rolled back or        *)
(* dropped in between.                                                      *)
THEOREM DoublesAreFarApart ==
  ASSUME Faults \cap {"crash", "lostReply"} = {}
  PROVE  Spec => [](\A c \in Chains : Apart(rows[c]))
<1>1. OnceInv => \A c \in Chains : Apart(rows[c])
  BY RowsApart
<1>2. OnceInv /\ [Next]_vars => OnceInv'
  BY OnceInvStep
<1>. QED
  BY <1>1, <1>2, OnceInvInit, PTL DEF Spec

(* A redelivered event is stored once, as long as no chain has outgrown what *)
(* its writer is sure to remember.                                          *)
THEOREM RedeliveredIsStoredOnce ==
  ASSUME Faults \cap {"crash", "lostReply"} = {}
  PROVE  Spec => [](WithinWindow => StoredOnce)
<1>1. OnceInv /\ WithinWindow => StoredOnce
  <2>. SUFFICES ASSUME OnceInv, WithinWindow, NEW c \in Chains,
                       NEW i \in DOMAIN rows[c], NEW j \in DOMAIN rows[c],
                       rows[c][i].event = rows[c][j].event, i < j
                PROVE  FALSE
    <3>1. ASSUME OnceInv, NEW c \in Chains
          PROVE  DOMAIN rows[c] \subseteq Int
      <4>1. rows[c] \in Seq(Row)
        BY <3>1 DEF OnceInv, SeqInv, TypeOK
      <4>. QED
        BY <4>1
    <3>. QED
      BY <3>1 DEF StoredOnce
  <2>1. Apart(rows[c])
    BY RowsApart
  <2>2. /\ rows[c][i].seq + DedupeWindow < rows[c][j].seq + MaxMessages
        /\ rows[c][j].seq + MaxMessages <= DedupeWindow
    BY <2>1 DEF Apart, WithinWindow
  <2>3. rows[c][i].seq \in Nat /\ rows[c][j].seq \in Nat
    <3>1. rows[c] \in Seq(Row)
      BY DEF OnceInv, SeqInv, TypeOK
    <3>2. rows[c][i] \in Row /\ rows[c][j] \in Row
      BY <3>1
    <3>. QED
      BY <3>2 DEF Row
  <2>. QED
    BY <2>2, <2>3, Parameters
<1>2. OnceInv /\ [Next]_vars => OnceInv'
  BY OnceInvStep
<1>. QED
  BY <1>1, <1>2, OnceInvInit, PTL DEF Spec

=============================================================================
