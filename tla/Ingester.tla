------------------------------ MODULE Ingester ------------------------------
(***************************************************************************)
(* The ingester of ANCRE: it pulls emitted events off the JetStream        *)
(* stream, gives each one its place in the hash chain of its               *)
(* (tenant, system), stores the batch in ClickHouse and only then          *)
(* acknowledges the messages.                                              *)
(*                                                                         *)
(*   crates/ancre-ingester/src/bus.rs           the consumer loop          *)
(*   crates/ancre-ingester/src/pipeline.rs      ingest, rewind, heartbeats *)
(*   crates/ancre-ingester/src/chain_writer.rs  one cursor per chain       *)
(*   crates/ancre-ingester/src/clickhouse.rs    insert and head            *)
(*                                                                         *)
(* One ingester process consumes the stream.  The steps of the model are   *)
(* the stretches of code between two awaits, so that a crash, a            *)
(* cancellation or an acknowledgement timeout can fall between any two.    *)
(***************************************************************************)
EXTENDS Integers, Sequences, FiniteSets

CONSTANTS
  Chains,        \* the (tenant_id, system_id) pairs
  Messages,      \* the messages of the stream, each one emitted event
  ChainOf,       \* ChainOf[m]: the chain the event in m belongs to
  Undecodable,   \* the messages `decode` refuses
  DedupeWindow,  \* DEDUPE_WINDOW
  MaxMessages,   \* ConsumerConfig::max_messages
  MaxAttempts,   \* RetryPolicy::attempts
  MaxDay,        \* bound: the last day the clock reaches
  Faults,        \* the kinds of failure that can happen in this instance
  MaxFaults      \* bound: how many crashes, cancellations and lost replies

(***************************************************************************)
(* "storeDown"  the store refuses an insert or a head query.               *)
(* "ackLost"    an ack or nak does not reach the stream.                   *)
(* "crash"      the process dies and restarts with empty memory.           *)
(* "cancel"     the heartbeat tick wins the select! in `run` while a       *)
(*              pull_once is suspended at an await, which drops it.        *)
(* "lostReply"  the store commits an insert and the client sees an error.  *)
(* "beatFail"   the insert of the daily heartbeats fails.                  *)
(***************************************************************************)
FaultKinds ==
  {"storeDown", "ackLost", "crash", "cancel", "lostReply", "beatFail"}

Days == 0 .. MaxDay
NoDay == -1                 \* last_heartbeat_day: None
HeartbeatIds == Chains \X Days
EventIds == Messages \cup HeartbeatIds

ASSUME Parameters ==
  /\ IsFiniteSet(Messages)
  /\ ChainOf \in [Messages -> Chains]
  /\ Undecodable \subseteq Messages
  /\ Messages \cap HeartbeatIds = {}
  /\ DedupeWindow \in Nat \ {0}
  /\ MaxMessages \in Nat \ {0}
  /\ MaxAttempts \in Nat \ {0}
  /\ MaxDay \in Nat
  /\ Faults \subseteq FaultKinds
  /\ MaxFaults \in Nat

VARIABLES
  deliv,     \* the consumer's state of each message
  rows,      \* rows[c]: the rows of chain c in ClickHouse, oldest insert first
  today,     \* the day of the clock
  writers,   \* Ingester.writers: a map from chains to ChainWriters
  pc,        \* where the consumer loop is
  batch,     \* ingest: the events of this batch not yet chained
  pending,   \* pull_once: the messages still to be acked or nak'd
  chained,   \* chained[c]: ingest's sealed events, not yet stored
  rollback,  \* ingest: where each touched writer stood before the batch
  attempt,   \* insert_with_retry: failed attempts so far
  faults     \* how many of the counted faults have happened

vars == <<deliv, rows, today, writers, pc, batch, pending, chained, rollback,
          attempt, faults>>
pullVars == <<batch, pending, chained, rollback, attempt>>

-----------------------------------------------------------------------------
(* Rows, hashes and cursors *)

\* The hash covers every field of the event, `ingested_at` included, so two
\* sealings of one event differ.  It is abstracted to the event and the
\* number of copies of it that the store held when it was sealed.
Hash == EventIds \X Nat
GENESIS == <<>>
Row == [seq : Nat, prev : Hash \cup {GENESIS}, event : EventIds, hash : Hash]
Cursor == [next : Nat \ {0}, head : Hash \cup {GENESIS}]
Writer == [next : Nat \ {0}, head : Hash \cup {GENESIS},
           seen : SUBSET [id : EventIds, at : Nat], day : Days \cup {NoDay}]

Copies(c, e) == Cardinality({i \in DOMAIN rows[c] : rows[c][i].event = e})

CursorOf(w) == [next |-> w.next, head |-> w.head]

NoRows == [c \in Chains |-> <<>>]
EmptyMap == [c \in {} |-> <<>>]
Put(f, c, v) == [x \in DOMAIN f \cup {c} |-> IF x = c THEN v ELSE f[x]]

-----------------------------------------------------------------------------
(* ChainWriter *)

(* Resuming on the seq of the last row instead of behind it.               *)
ResumeOnLast(last, head) ==
  [next |-> last, head |-> head, seen |-> {}, day |-> NoDay]

\* `new` is resume_from(0, GENESIS).
ResumeFrom(last, head) ==
  [next |-> last + 1, head |-> head, seen |-> {}, day |-> NoDay]

Duplicate(w, e) == \E s \in w.seen : s.id = e

SealedEvent(w, c, e) ==
  [seq |-> w.next, prev |-> w.head, event |-> e, hash |-> <<e, Copies(c, e)>>]

\* The writer's `at`s ascend in insertion order, without a gap: trimming the
\* deque from its front keeps the newest DedupeWindow of them.
Remember(seen, row) ==
  {s \in seen \cup {[id |-> row.event, at |-> row.seq]} :
     s.at + DedupeWindow > row.seq}

Advance(w, row) ==
  [w EXCEPT !.next = @ + 1, !.head = row.hash, !.seen = Remember(@, row)]

(* Mistaken rewinds: to the row before, without the head, without
   forgetting the events rolled back, forgetting those stored too.         *)
RewindToBefore(w, cursor) ==
  [w EXCEPT !.next = cursor.next - 1, !.head = cursor.head,
            !.seen = {s \in @ : s.at < cursor.next}]
RewindSeqOnly(w, cursor) ==
  [w EXCEPT !.next = cursor.next, !.seen = {s \in @ : s.at < cursor.next}]
RewindKeepsSeen(w, cursor) ==
  [w EXCEPT !.next = cursor.next, !.head = cursor.head]
RewindForgetsAll(w, cursor) ==
  [w EXCEPT !.next = cursor.next, !.head = cursor.head, !.seen = {}]

RewindTo(w, cursor) ==
  [w EXCEPT !.next = cursor.next, !.head = cursor.head,
            !.seen = {s \in @ : s.at < cursor.next}]

(* Leaving the writers where the batch brought them.                       *)
NotRewound == writers

\* Ingester::rewind.
Rewound == [c \in DOMAIN writers |->
              IF c \in DOMAIN rollback THEN RewindTo(writers[c], rollback[c])
                                       ELSE writers[c]]

\* A day is marked before the heartbeat is chained.
MarkDay(w) == [w EXCEPT !.day = today]

-----------------------------------------------------------------------------
Init ==
  /\ deliv = [m \in Messages |-> "pending"]
  /\ rows = NoRows
  /\ today = 0
  /\ writers = EmptyMap
  /\ pc = "idle"
  /\ batch = {} /\ pending = {} /\ chained = NoRows /\ rollback = EmptyMap
  /\ attempt = 0
  /\ faults = 0

\* The locals of a pull_once that has returned or was dropped.
PullEnds ==
  /\ pc' = "idle"
  /\ batch' = {} /\ pending' = {} /\ chained' = NoRows /\ rollback' = EmptyMap
  /\ attempt' = 0

Counted(kind) ==
  /\ kind \in Faults
  /\ faults < MaxFaults
  /\ faults' = faults + 1

-----------------------------------------------------------------------------
(* pull_once: fetch, and ack what does not decode *)

Delivered(S) == IF "ackLost" \in Faults THEN SUBSET S ELSE {S}

(* Keeping the messages that do not decode.                                *)
PoisonKept(got) == {{}}

\* What is acked of a fetch right away: the messages that do not decode.
PoisonAcked(got) == Delivered(got \cap Undecodable)

Pull ==
  /\ pc = "idle"
  /\ \E got \in SUBSET {m \in Messages : deliv[m] = "pending"} :
       /\ got # {}
       /\ Cardinality(got) <= MaxMessages
       /\ \E acked \in PoisonAcked(got) :
            deliv' = [m \in Messages |-> CASE m \in acked -> "acked"
                                           [] m \in got \ acked -> "outstanding"
                                           [] OTHER -> deliv[m]]
       /\ batch' = got \ Undecodable
       /\ pending' = got \ Undecodable
       /\ pc' = IF got \subseteq Undecodable THEN "idle" ELSE "chain"
  /\ UNCHANGED <<rows, today, writers, chained, rollback, attempt, faults>>

-----------------------------------------------------------------------------
(* ingest: chain the batch.  Redelivery mixes the stream's order, so the   *)
(* events of a batch are chained in any order.                             *)

\* `append` with writer w, after the rollback entry is made.  A batch of
\* nothing but duplicates returns without an insert.
Chain(m, w) ==
  LET c == ChainOf[m]
      row == SealedEvent(w, c, m)
      dup == Duplicate(w, m)
      returns == batch = {m} /\ dup /\ chained = NoRows
  IN /\ writers' = Put(writers, c, IF dup THEN w ELSE Advance(w, row))
     /\ rollback' = IF returns THEN EmptyMap
                    ELSE IF c \in DOMAIN rollback THEN rollback
                    ELSE Put(rollback, c, CursorOf(w))
     /\ chained' = IF dup THEN chained
                   ELSE [chained EXCEPT ![c] = Append(@, row)]
     /\ batch' = batch \ {m}
     /\ pc' = IF returns THEN "ack"
              ELSE IF batch = {m} THEN "insert" ELSE "chain"
     /\ UNCHANGED <<deliv, rows, today, pending, attempt, faults>>

ChainNext(m) ==
  /\ pc = "chain" /\ m \in batch
  /\ ChainOf[m] \in DOMAIN writers
  /\ Chain(m, writers[ChainOf[m]])

\* The store's head: max(seq) with the hash of a row that has it, or no row.
Head0(c) ==
  IF rows[c] = <<>> THEN {[seq |-> 0, hash |-> GENESIS]}
  ELSE {r \in {[seq |-> rows[c][i].seq, hash |-> rows[c][i].hash] :
                 i \in DOMAIN rows[c]} :
          \A i \in DOMAIN rows[c] : rows[c][i].seq <= r.seq}

\* The first event of a chain this process has no writer for.
ResumeChain(m) ==
  /\ pc = "chain" /\ m \in batch
  /\ ChainOf[m] \notin DOMAIN writers
  /\ \E head \in Head0(ChainOf[m]) : Chain(m, ResumeFrom(head.seq, head.hash))

(* Acknowledging a batch that was given up.                                *)
DeferAndAck ==
  /\ writers' = Rewound
  /\ pc' = "ack"
  /\ batch' = {} /\ chained' = NoRows /\ rollback' = EmptyMap /\ attempt' = 0

Defer ==
  /\ writers' = Rewound
  /\ pc' = "nak"
  /\ batch' = {} /\ chained' = NoRows /\ rollback' = EmptyMap /\ attempt' = 0

HeadUnavailable(m) ==
  /\ pc = "chain" /\ m \in batch
  /\ ChainOf[m] \notin DOMAIN writers
  /\ "storeDown" \in Faults
  /\ Defer
  /\ UNCHANGED <<deliv, rows, today, pending, faults>>

-----------------------------------------------------------------------------
(* insert_with_retry *)

Stored == [c \in Chains |-> rows[c] \o chained[c]]

InsertOk ==
  /\ pc = "insert"
  /\ rows' = Stored
  /\ pc' = "ack"
  /\ chained' = NoRows /\ rollback' = EmptyMap /\ attempt' = 0
  /\ UNCHANGED <<deliv, today, writers, batch, pending, faults>>

\* After the last attempt the batch is rolled back and deferred.
AttemptFailed ==
  \/ /\ attempt + 1 < MaxAttempts
     /\ attempt' = attempt + 1
     /\ UNCHANGED <<writers, pc, batch, chained, rollback>>
  \/ /\ attempt + 1 = MaxAttempts
     /\ Defer

InsertFails ==
  /\ pc = "insert"
  /\ "storeDown" \in Faults
  /\ AttemptFailed
  /\ UNCHANGED <<deliv, rows, today, pending, faults>>

\* The request timed out or the connection broke after the commit.
InsertReplyLost ==
  /\ pc = "insert"
  /\ Counted("lostReply")
  /\ rows' = Stored
  /\ AttemptFailed
  /\ UNCHANGED <<deliv, today, pending>>

-----------------------------------------------------------------------------
(* pull_once: ack or nak, one message at a time *)

Ack(m) ==
  /\ pc = "ack" /\ m \in pending
  /\ \/ deliv' = [deliv EXCEPT ![m] = "acked"]
     \/ "ackLost" \in Faults /\ UNCHANGED deliv
  /\ pending' = pending \ {m}
  /\ pc' = IF pending' = {} THEN "idle" ELSE "ack"
  /\ UNCHANGED <<rows, today, writers, batch, chained, rollback, attempt, faults>>

\* The client cannot send an ack: pull_once returns the error.
AckError ==
  /\ pc = "ack"
  /\ "ackLost" \in Faults
  /\ PullEnds
  /\ UNCHANGED <<deliv, rows, today, writers, faults>>

Nak ==
  /\ pc = "nak"
  /\ \E nakd \in Delivered(pending) :
       deliv' = [m \in Messages |->
                   IF m \in nakd /\ deliv[m] = "outstanding" THEN "pending"
                   ELSE deliv[m]]
  /\ PullEnds
  /\ UNCHANGED <<rows, today, writers, faults>>

\* The stream redelivers what was not acked within its ack_wait, whether the
\* ingester is still busy with it or not.
AckTimeout(m) ==
  /\ deliv[m] = "outstanding"
  /\ deliv' = [deliv EXCEPT ![m] = "pending"]
  /\ UNCHANGED <<rows, today, writers, pc, pullVars, faults>>

-----------------------------------------------------------------------------
(* The heartbeat arm of `run` *)

\* pull_once is suspended at an await of its own: the fetch, the ack of what
\* does not decode, a head query, an insert or its retry delay, an ack or a nak.
Suspended ==
  \/ pc = "chain" /\ rollback = EmptyMap
  \/ pc \in {"insert", "ack", "nak"}
  \/ pc = "chain" /\ \E m \in batch : ChainOf[m] \notin DOMAIN writers

\* The tick comes while the loop waits for messages, or drops the pull_once
\* that was in flight together with its rollback.
TickWins ==
  \/ pc = "idle" /\ UNCHANGED faults
  \/ Suspended /\ Counted("cancel")

Heartbeats ==
  LET due == {c \in DOMAIN writers : writers[c].day # today}
      silent == {c \in due : ~Duplicate(writers[c], <<c, today>>)}
      beat == [c \in silent |-> SealedEvent(writers[c], c, <<c, today>>)]
  IN /\ TickWins
     /\ due # {} \/ pc # "idle"
     /\ writers' = [c \in DOMAIN writers |->
                      CASE c \in silent -> Advance(MarkDay(writers[c]), beat[c])
                        [] c \in due \ silent -> MarkDay(writers[c])
                        [] OTHER -> writers[c]]
     /\ chained' = [c \in Chains |-> IF c \in silent THEN <<beat[c]>> ELSE <<>>]
     /\ pc' = IF silent = {} THEN "idle" ELSE "beat"
     /\ batch' = {} /\ pending' = {} /\ rollback' = EmptyMap /\ attempt' = 0
     /\ UNCHANGED <<deliv, rows, today>>

\* One insert, not retried; a failure is logged.
HeartbeatsStored ==
  /\ pc = "beat"
  /\ rows' = Stored
  /\ PullEnds
  /\ UNCHANGED <<deliv, today, writers, faults>>

HeartbeatsFail ==
  /\ pc = "beat"
  /\ Counted("beatFail")
  /\ PullEnds
  /\ UNCHANGED <<deliv, rows, today, writers>>

-----------------------------------------------------------------------------
(* The environment *)

Crash ==
  /\ Counted("crash")
  /\ writers' = EmptyMap
  /\ PullEnds
  /\ UNCHANGED <<deliv, rows, today>>

NextDay ==
  /\ today < MaxDay
  /\ today' = today + 1
  /\ UNCHANGED <<deliv, rows, writers, pc, pullVars, faults>>

-----------------------------------------------------------------------------
\* Everything is acked and today's heartbeats are in: the loop goes on
\* polling an empty stream.
Quiet ==
  /\ pc = "idle"
  /\ \A m \in Messages : deliv[m] = "acked"
  /\ today = MaxDay
  /\ UNCHANGED vars

Next ==
  \/ Pull
  \/ \E m \in Messages : ChainNext(m) \/ ResumeChain(m) \/ HeadUnavailable(m)
  \/ InsertOk \/ InsertFails \/ InsertReplyLost
  \/ \E m \in Messages : Ack(m)
  \/ AckError \/ Nak
  \/ \E m \in Messages : AckTimeout(m)
  \/ Heartbeats \/ HeartbeatsStored \/ HeartbeatsFail
  \/ Crash \/ NextDay \/ Quiet

Spec == Init /\ [][Next]_vars

=============================================================================
