------------------------- MODULE IngesterProperties -------------------------
(* What the ingester promises: the record is complete, and it verifies. *)
EXTENDS Ingester

-----------------------------------------------------------------------------
IsMap(f, values) == DOMAIN f \subseteq Chains /\ f \in [DOMAIN f -> values]

(* Every variable stays within its type. *)
TypeOK ==
  /\ deliv \in [Messages -> {"pending", "outstanding", "acked"}]
  /\ rows \in [Chains -> Seq(Row)]
  /\ today \in Days
  /\ IsMap(writers, Writer)
  /\ pc \in {"idle", "chain", "insert", "ack", "nak", "beat"}
  /\ batch \in SUBSET Messages /\ pending \in SUBSET Messages
  /\ chained \in [Chains -> Seq(Row)]
  /\ IsMap(rollback, Cursor)
  /\ attempt \in 0 .. MaxAttempts - 1
  /\ faults \in 0 .. MaxFaults

-----------------------------------------------------------------------------
(* The log a reader of the store sees. *)
Log == INSTANCE AuditLog
         WITH log <- rows, settled <- {m \in Messages : deliv[m] = "acked"}

(* Every step of the ingester is a step of the abstract log: the store's    *)
(* rows only grow, all chains of a batch together, by rows that link to     *)
(* what is there; and a message is acked only when its event is stored.     *)
ImplementsAuditLog == Log!Spec

(* The stored chain has no gap and no fork, whatever crashed, timed out or  *)
(* was refused on the way: pipeline.rs's promise for `ingest` and `rewind`. *)
ChainIntact == Log!Intact

\* The cursor a writer has when `r` is all there is of its chain.
End(r) == [next |-> Len(r) + 1,
           head |-> IF r = <<>> THEN GENESIS ELSE r[Len(r)].hash]

(* A writer outside a batch stands exactly at the store's head: nothing was *)
(* chained that is not stored (pipeline.rs, `ingest`; bus.rs, `run`).       *)
WriterAtStoreHead ==
  pc \in {"idle", "ack", "nak"} =>
    \A c \in DOMAIN writers : CursorOf(writers[c]) = End(rows[c])

(* A message leaves the stream only when its event is in the store: the     *)
(* ack/nak contract of `pull_once`.                                         *)
AckedIsStored == Log!SettledIsRecorded

(* Redelivery does not double an event: an event_id has one row.            *)
StoredOnce ==
  \A c \in Chains : \A i, j \in DOMAIN rows[c] :
    rows[c][i].event = rows[c][j].event => i = j

(* A chain position is used once: rows are stored in the order of their seq. *)
SeqNotReused ==
  \A c \in Chains : \A i, j \in DOMAIN rows[c] :
    i < j => rows[c][i].seq < rows[c][j].seq

(* As long as the process lives, an event that is given up without having   *)
(* been stored has used up a seq that no row carries: the loss shows as a   *)
(* gap, which `verify_range` reports.                                       *)
LossLeavesGap ==
  \A c \in DOMAIN writers :
    LET lost == {m \in Messages \ Undecodable :
                   /\ ChainOf[m] = c /\ deliv[m] = "acked"
                   /\ ~Log!Recorded(m)}
    IN Len(rows[c]) + Cardinality(lost) < writers[c].next

(* At most one heartbeat per chain and day.                                 *)
OneHeartbeatPerDay ==
  \A c \in Chains : \A i, j \in DOMAIN rows[c] :
    rows[c][i].event = rows[c][j].event /\ rows[c][i].event \in HeartbeatIds
      => i = j

(* What bus.rs says of the heartbeat arm of `run`: a heartbeat that fails   *)
(* to store leaves its day unmarked, so a day that is marked is stored.     *)
MarkedDayIsStored ==
  pc # "beat" =>
    \A c \in DOMAIN writers :
      writers[c].day # NoDay =>
        \E i \in DOMAIN rows[c] : rows[c][i].event = <<c, writers[c].day>>

\* Position n holds e, or nothing: what a reader takes for a gap.
OnlyAt(r, n, e) == \A i \in DOMAIN r : r[i].seq = n => r[i].event = e

(* What the code does: a day that is marked has its heartbeat stored, or    *)
(* has used up a position that no row has.  The heartbeat that failed, and  *)
(* that no later tick of the day writes, shows as a gap in the chain,       *)
(* whatever is rewound, redelivered, cancelled or restarted after it.       *)
MarkedDayShows ==
  pc # "beat" =>
    \A c \in DOMAIN writers :
      writers[c].day # NoDay =>
        \E n \in 1 .. writers[c].next - 1 : OnlyAt(rows[c], n, <<c, writers[c].day>>)

-----------------------------------------------------------------------------
(* What can leave a writer ahead of, or behind, the store.                  *)
ForkingFaults == {"cancel", "lostReply", "beatFail"}

(* Why the chain stays intact.  Behind the rows that are stored come the    *)
(* rows that are chained and not yet stored; together they always link, a   *)
(* writer stands behind the last of them, and a rollback entry behind the   *)
(* last one stored.                                                         *)
ChainInv ==
  /\ TypeOK
  /\ pc \in {"idle", "ack", "nak"} => chained = NoRows
  /\ pc \notin {"chain", "insert"} => DOMAIN rollback = {}
  /\ \A c \in Chains : Log!Linked(Stored[c])
  /\ \A c \in DOMAIN writers : CursorOf(writers[c]) = End(Stored[c])
  /\ \A c \in Chains : c \notin DOMAIN writers => chained[c] = <<>>
  /\ pc \in {"chain", "insert"} =>
       \A c \in Chains : c \notin DOMAIN rollback => chained[c] = <<>>
  /\ \A c \in DOMAIN rollback :
       c \in DOMAIN writers /\ rollback[c] = End(rows[c])

(* Why no event is lost.  What a writer remembers as seen is stored, or was *)
(* chained at or after the position its rollback would return to.           *)
IsChained(m) ==
  \E i \in DOMAIN chained[ChainOf[m]] : chained[ChainOf[m]][i].event = m

RolledBackWith(c, at) ==
  pc \in {"chain", "insert"} /\ c \in DOMAIN rollback /\ at >= rollback[c].next

SeenInv ==
  \A c \in DOMAIN writers : \A s \in writers[c].seen :
    s.id \in Messages =>
      /\ ChainOf[s.id] = c
      /\ Log!Recorded(s.id) \/ (IsChained(s.id) /\ RolledBackWith(c, s.at))

LossInv ==
  /\ TypeOK
  /\ pc \in {"idle", "ack", "nak"} => chained = NoRows
  /\ pc \notin {"chain", "insert"} => DOMAIN rollback = {}
  /\ \A c \in DOMAIN rollback :
       c \in DOMAIN writers /\ rollback[c].next <= writers[c].next
  /\ SeenInv
  /\ pc = "ack" => \A m \in pending : Log!Recorded(m)
  /\ pc \in {"chain", "insert"} =>
       \A m \in pending \ batch : Log!Recorded(m) \/ IsChained(m)
  /\ pc = "insert" => batch = {}
  /\ Log!SettledIsRecorded

(* Why no seq is used twice, lost batches and all: a writer stands behind   *)
(* everything stored and chained, and what it returns to, behind everything *)
(* stored.                                                                  *)
Ascending(r) == \A i, j \in DOMAIN r : i < j => r[i].seq < r[j].seq
Below(r, n) == \A i \in DOMAIN r : r[i].seq < n

SeqInv ==
  /\ TypeOK
  /\ pc \in {"idle", "ack", "nak"} => chained = NoRows
  /\ pc \notin {"chain", "insert"} => DOMAIN rollback = {}
  /\ \A c \in Chains : Ascending(Stored[c])
  /\ \A c \in DOMAIN writers : Below(Stored[c], writers[c].next)
  /\ \A c \in Chains : c \notin DOMAIN writers => chained[c] = <<>>
  /\ \A c \in DOMAIN rollback :
       c \in DOMAIN writers /\ Below(rows[c], rollback[c].next)

(* Why an event is stored once, as far as the memory of a writer reaches.   *)
(* `Base` is where the writer would return to.  A batch that is rolled back *)
(* has trimmed the memory as if it had been stored, so up to MaxMessages of *)
(* the DedupeWindow positions behind the base are forgotten.                *)
Base(c) == IF c \in DOMAIN rollback THEN rollback[c].next ELSE writers[c].next

Remembered(w, row) == [id |-> row.event, at |-> row.seq] \in w.seen

\* The writer remembers the rows of the last positions before b.
Covers(w, r, b) ==
  \A i \in DOMAIN r :
    r[i].seq + DedupeWindow >= b + MaxMessages => Remembered(w, r[i])

(* Two rows of one event are further apart than the memory reaches.         *)
Apart(r) ==
  \A i, j \in DOMAIN r :
    i < j /\ r[i].event = r[j].event
      => r[i].seq + DedupeWindow < r[j].seq + MaxMessages

OnceInv ==
  /\ SeqInv
  /\ Cardinality(batch) <= MaxMessages
  /\ \A c \in DOMAIN rollback :
       /\ rollback[c].next <= writers[c].next
       /\ writers[c].next + Cardinality(batch) <= rollback[c].next + MaxMessages
  /\ \A c \in Chains : c \notin DOMAIN writers => rows[c] = <<>>
  /\ \A c \in DOMAIN writers : Covers(writers[c], Stored[c], Base(c))
  /\ \A c \in Chains : Apart(Stored[c])

(* Why a marked day shows.  A heartbeat that a writer has marked, or        *)
(* remembers, has a position of its own before the one that the writer      *)
(* would return to.                                                         *)
Placed(c, e) == \E n \in 1 .. Base(c) - 1 : OnlyAt(Stored[c], n, e)

MarkInv ==
  /\ SeqInv
  /\ \A c \in DOMAIN rollback : rollback[c].next <= writers[c].next
  /\ \A c \in DOMAIN writers :
       /\ writers[c].day # NoDay => Placed(c, <<c, writers[c].day>>)
       /\ \A s \in writers[c].seen : s.id \in HeartbeatIds => Placed(c, s.id)

(* No chain has outgrown what a writer is sure to remember.                 *)
WithinWindow ==
  \A c \in Chains : \A i \in DOMAIN rows[c] :
    rows[c][i].seq + MaxMessages <= DedupeWindow

(* Why a loss leaves a gap.  An event is doomed when it is neither stored   *)
(* nor about to be, and is acked, about to be, or taken for a duplicate the *)
(* next time it comes.  Each one has used up a seq that no row carries.     *)
Doomed(c) ==
  {m \in Messages \ Undecodable :
     /\ ChainOf[m] = c /\ ~Log!Recorded(m) /\ ~IsChained(m)
     /\ \/ deliv[m] = "acked"
        \/ pc \in {"chain", "insert", "ack"} /\ m \in pending \ batch
        \/ c \in DOMAIN writers /\ Duplicate(writers[c], m)}

NextOf(c) == IF c \in DOMAIN writers THEN writers[c].next ELSE 1

GapInv ==
  /\ TypeOK
  /\ pc \in {"idle", "ack", "nak"} => chained = NoRows
  /\ pc \notin {"chain", "insert"} => DOMAIN rollback = {}
  /\ batch \subseteq pending /\ (pc \in {"insert", "ack"} => batch = {})
  /\ \A c \in DOMAIN rollback :
       /\ c \in DOMAIN writers
       /\ writers[c].next = rollback[c].next + Len(chained[c])
  /\ pc \in {"chain", "insert"} =>
       \A c \in Chains : c \notin DOMAIN rollback => chained[c] = <<>>
  /\ \A m \in pending : deliv[m] # "acked"
  /\ \A m \in Messages : IsChained(m) =>
       /\ pc \in {"chain", "insert"} /\ m \in pending \ batch
       /\ \A s \in writers[ChainOf[m]].seen :
            s.id = m => s.at >= rollback[ChainOf[m]].next
  /\ \A c \in Chains :
       Cardinality(Doomed(c)) + Len(Stored[c]) < NextOf(c)

-----------------------------------------------------------------------------
(* The consumer loop keeps running and the stream's redelivery timer fires; *)
(* a store that goes down and an ack that is lost do not stay so for ever.  *)
(* A crash, a cancellation and the passing of days need not happen.         *)
Fairness ==
  /\ \A m \in Messages :
       /\ WF_vars(ChainNext(m))
       /\ SF_vars(ResumeChain(m))
       /\ SF_vars(Ack(m) /\ deliv'[m] = "acked")
       /\ WF_vars(AckTimeout(m))
       /\ SF_vars(Pull /\ deliv'[m] # "pending")
  /\ SF_vars(InsertOk)
  /\ WF_vars(HeartbeatsStored)
  /\ WF_vars(Nak)
  /\ \A m \in Undecodable : SF_vars(Pull /\ deliv'[m] = "acked")

FairSpec == Spec /\ Fairness

(* Every message eventually leaves the stream, and the event in it is then  *)
(* in the store if it decodes at all, whatever was refused, lost or         *)
(* restarted meanwhile.                                                     *)
EveryMessageSettles ==
  \A m \in Messages :
    <>[](deliv[m] = "acked" /\ (m \in Undecodable \/ Log!Recorded(m)))
=============================================================================
