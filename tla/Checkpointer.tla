---------------------------- MODULE Checkpointer ----------------------------
(***************************************************************************)
(* How ranges of a chain come to be signed: each replica of the control    *)
(* plane boots with a key, installs it, and then walks the chains on a     *)
(* timer, reading the head, the last checkpoint and the hashes one query   *)
(* after the other, while the chains grow and other replicas do the same.  *)
(*                                                                         *)
(*   crates/ancre-control/src/checkpointer.rs   tick                       *)
(*   crates/ancre-control/src/clickhouse.rs     chains, head_seq, leaves   *)
(*   crates/ancre-control/src/postgres.rs       install_active_key, put    *)
(*   crates/ancre-control/src/main.rs           boot, checkpoint_loop      *)
(*   crates/ancre-chain/src/checkpoint.rs       seal_range                 *)
(*                                                                         *)
(* A row of a chain is its place, its hash and the hash it links to; the   *)
(* second row at one place, and a place no row is at, are what Ingester    *)
(* shows a lost reply and a cancelled task to leave.  A root is the        *)
(* sequence of hashes it was computed from, a signature the key.           *)
(***************************************************************************)
EXTENDS Integers, Sequences, SequencesExt, FiniteSets

CONSTANTS
  Walk,       \* the chains, in the order both replicas walk them
  Replicas,   \* control planes on one pair of databases
  Keys,       \* the signing keys there will ever be
  EveryN,     \* CHECKPOINT_EVERY_N
  EveryT,     \* CHECKPOINT_EVERY_T, in ticks of the clock
  Faults,     \* of "double", "gap", "query", "crash", "rotate"
  MaxSeq,     \* bound: the last place of a chain
  MaxNow,     \* bound: the last tick, which stands for all the time after it
  MaxFaults   \* bound: faults

NoKey == "no key"
NoChain == "no chain"
Open == -1
Genesis == <<0, 1>>

ASSUME CheckpointerParameters ==
  /\ Walk \in Seq(STRING)
  /\ EveryN \in Nat \ {0} /\ EveryT \in Nat
  /\ MaxSeq \in Nat /\ MaxNow \in Nat /\ MaxFaults \in Nat
  /\ NoKey \notin Keys /\ NoChain \notin Range(Walk)

Chains == Range(Walk)
Hashes == (0 .. MaxSeq) \X {1, 2}
Rows == [seq : 1 .. MaxSeq, hash : Hashes, prev : Hashes]
Times == 0 .. MaxNow

VARIABLES
  rows,         \* audit_events, per chain
  checkpoints,  \* the table of that name
  signingKeys,  \* signing_keys: the windows of the keys
  file,         \* the key in the key file, which the replicas share
  now,          \* the clock
  replica,      \* replica[r]: a control plane and the locals of what it does
  faults        \* faults so far

cpVars == <<rows, checkpoints, signingKeys, file, now, replica, faults>>

Down == [pc |-> "down", key |-> NoKey, time |-> 0, closing |-> NoKey, walk |-> {},
         chain |-> NoChain, head |-> 0, from |-> 0, leaves |-> <<>>]

Is(r, pc) == replica[r].pc = pc
Step(r, state) == replica' = [replica EXCEPT ![r] = state]
Goto(r, pc) == Step(r, [replica[r] EXCEPT !.pc = pc])
Fault(kind) == kind \in Faults /\ faults < MaxFaults /\ faults' = faults + 1

Row(s, copy, prev) == [seq |-> s, hash |-> <<s, copy>>, prev |-> prev]
Seqs(c) == {row.seq : row \in rows[c]}
\* max(seq), which is 0 of an empty chain.
Head_seq(c) == IF rows[c] = {} THEN 0 ELSE CHOOSE s \in Seqs(c) : \A t \in Seqs(c) : t <= s

CpInit ==
  /\ rows = [c \in Chains |-> {}]
  /\ checkpoints = {}
  /\ signingKeys = {}
  /\ file = NoKey
  /\ now = 0
  /\ replica = [r \in Replicas |-> Down]
  /\ faults = 0

-----------------------------------------------------------------------------
(* The ingester, as the store shows it *)

\* The hash the chain is continued from: that of the last row at its head.
Tip(c) == IF rows[c] = {} THEN Genesis
          ELSE <<Head_seq(c), IF <<Head_seq(c), 2>> \in {row.hash : row \in rows[c]} THEN 2 ELSE 1>>

AppendRow(c) ==
  /\ Head_seq(c) < MaxSeq
  /\ rows' = [rows EXCEPT ![c] = @ \union {Row(Head_seq(c) + 1, 1, Tip(c))}]
  /\ UNCHANGED <<checkpoints, signingKeys, file, now, replica, faults>>

\* A second row at a place: an insert that commits after the next process began.
DoubleRow(c) ==
  /\ Fault("double")
  /\ \E row \in rows[c] :
       /\ row.hash[2] = 1
       /\ rows' = [rows EXCEPT ![c] = @ \union {Row(row.seq, 2, row.prev)}]
  /\ UNCHANGED <<checkpoints, signingKeys, file, now, replica>>

\* A place is left empty: the row after it links to one that is not stored.
SkipRow(c) ==
  /\ Fault("gap")
  /\ Head_seq(c) + 1 < MaxSeq
  /\ rows' = [rows EXCEPT ![c] = @ \union {Row(Head_seq(c) + 2, 1, <<Head_seq(c) + 1, 1>>)}]
  /\ UNCHANGED <<checkpoints, signingKeys, file, now, replica>>

\* Nothing is under way: the installation or the tick is over, or the tick ended
\* with an error.
Rest(r) == [Down EXCEPT !.pc = "idle", !.key = replica[r].key]

-----------------------------------------------------------------------------
(* Boot: the key file, then install_active_key *)

KeysSeen == {k.key : k \in signingKeys} \union {replica[r].key : r \in Replicas} \union {file}
FreshKeys == Keys \ KeysSeen

\* load_or_create_signer; the time is the argument of install_active_key.
LoadKey(r) ==
  /\ Is(r, "down") /\ file # NoKey
  /\ Step(r, [Down EXCEPT !.pc = "select", !.key = file, !.time = now])
  /\ UNCHANGED <<rows, checkpoints, signingKeys, file, now, faults>>

GenerateKey(r) ==
  /\ Is(r, "down") /\ file = NoKey
  /\ \E k \in FreshKeys : Step(r, [Down EXCEPT !.pc = "write", !.key = k])
  /\ UNCHANGED <<rows, checkpoints, signingKeys, file, now, faults>>

WriteKey(r) ==
  /\ Is(r, "write")
  /\ file' = replica[r].key
  /\ Step(r, [replica[r] EXCEPT !.pc = "select", !.time = now])
  /\ UNCHANGED <<rows, checkpoints, signingKeys, now, faults>>

OpenKeys == {k \in signingKeys : k.to = Open}
\* A transaction has closed a window and holds the lock on its row.
Locked(k) == \E q \in Replicas : Is(q, "insert") /\ replica[q].closing = k.key

(* A key from the file is taken to be installed.                            *)
InstallSelectTrusting(r) ==
  /\ Is(r, "select")
  /\ Step(r, Rest(r))
  /\ UNCHANGED <<rows, checkpoints, signingKeys, file, now, faults>>

\* The key is the active one, or was retired, or is not there.
InstallSelect(r) ==
  LET known == {k \in signingKeys : k.key = replica[r].key}
  IN /\ Is(r, "select")
     /\ Step(r, CASE known = {} -> [replica[r] EXCEPT !.pc = "update"]
                  [] known # {} /\ known \subseteq OpenKeys -> Rest(r)
                  [] OTHER -> Down)
     /\ UNCHANGED <<rows, checkpoints, signingKeys, file, now, faults>>

\* The update closes what is open, or waits for the lock of what is.
InstallUpdate(r) ==
  /\ Is(r, "update")
  /\ IF OpenKeys = {} THEN Goto(r, "insert")
     ELSE \E k \in OpenKeys :
            Step(r, [replica[r] EXCEPT !.pc = IF Locked(k) THEN "waiting" ELSE "insert",
                                       !.closing = k.key])
  /\ UNCHANGED <<rows, checkpoints, signingKeys, file, now, faults>>

\* With the lock the row is looked at again: one that was closed is skipped.
InstallWaited(r) ==
  LET awaited == {k \in OpenKeys : k.key = replica[r].closing}
  IN /\ Is(r, "waiting") /\ \A k \in awaited : ~Locked(k)
     /\ Step(r, [replica[r] EXCEPT !.pc = "insert",
                   !.closing = IF awaited = {} THEN NoKey ELSE @])
     /\ UNCHANGED <<rows, checkpoints, signingKeys, file, now, faults>>

\* Two open windows, or two rows of a key, violate an index: the boot fails.
InstallConflict(r) ==
  \/ \E k \in OpenKeys : k.key # replica[r].closing
  \/ \E k \in signingKeys : k.key = replica[r].key

CloseWindow(k, key, at) == IF k.key = key /\ k.to = Open THEN [k EXCEPT !.to = at] ELSE k

(* The two statements in transactions of their own: the update alone.       *)
InstallInsertAlone(r) ==
  /\ Is(r, "insert")
  /\ IF InstallConflict(r) THEN Step(r, Down) /\ UNCHANGED signingKeys
     ELSE /\ \/ Step(r, Rest(r))
                /\ signingKeys' =
                     {CloseWindow(k, replica[r].closing, replica[r].time) : k \in signingKeys}
                       \union {[key |-> replica[r].key, from |-> replica[r].time, to |-> Open]}
             \/ Step(r, Down)
                /\ signingKeys' =
                     {CloseWindow(k, replica[r].closing, replica[r].time) : k \in signingKeys}
  /\ UNCHANGED <<rows, checkpoints, file, now, faults>>

\* The insert, and the commit.
InstallInsert(r) ==
  /\ Is(r, "insert")
  /\ IF InstallConflict(r) THEN Step(r, Down) /\ UNCHANGED signingKeys
     ELSE /\ Step(r, Rest(r))
          /\ signingKeys' =
               {CloseWindow(k, replica[r].closing, replica[r].time) : k \in signingKeys}
                 \union {[key |-> replica[r].key, from |-> replica[r].time, to |-> Open]}
  /\ UNCHANGED <<rows, checkpoints, file, now, faults>>

-----------------------------------------------------------------------------
(* tick *)

TickStart(r) ==
  /\ Is(r, "idle")
  /\ Step(r, [replica[r] EXCEPT !.pc = "head", !.time = now,
                !.walk = {c \in Chains : rows[c] # {}}])
  /\ UNCHANGED <<rows, checkpoints, signingKeys, file, now, faults>>

Here(r) == replica[r].chain
\* On to the next chain.
Onward(r) == [replica[r] EXCEPT !.pc = "head", !.chain = NoChain, !.head = 0, !.from = 0,
                                !.leaves = <<>>]

TickEnd(r) ==
  /\ Is(r, "head") /\ replica[r].walk = {}
  /\ Step(r, Rest(r))
  /\ UNCHANGED <<rows, checkpoints, signingKeys, file, now, faults>>

Place(c) == CHOOSE i \in DOMAIN Walk : Walk[i] = c

ReadHead(r) ==
  /\ Is(r, "head")
  /\ \E c \in replica[r].walk :
       /\ \A d \in replica[r].walk : Place(c) <= Place(d)
       /\ Step(r, [replica[r] EXCEPT !.pc = "last", !.chain = c, !.walk = @ \ {c},
                                     !.head = Head_seq(c)])
  /\ UNCHANGED <<rows, checkpoints, signingKeys, file, now, faults>>

CheckpointsOf(c) == {k \in checkpoints : k.chain = c}
\* The checkpoint with the highest seq_to, as a set.
LastSealed(c) == {k \in CheckpointsOf(c) : \A j \in CheckpointsOf(c) : j.to <= k.to}

\* The last tick of the clock lasts: whatever was built by then was built long ago.
Elapsed(r, built) == IF replica[r].time = MaxNow THEN EveryT
                     ELSE IF built < replica[r].time THEN replica[r].time - built ELSE 0

(* Only the count makes a chain due.                                       *)
DueByCount(r, from) == replica[r].head - from + 1 >= EveryN

Due(r, from) ==
  \/ replica[r].head - from + 1 >= EveryN
  \/ LastSealed(Here(r)) = {}
  \/ \E k \in LastSealed(Here(r)) : Elapsed(r, k.at) >= EveryT

(* No checkpoint yet taken for one that ends at row 1.                      *)
SeqFromPast(c) == IF CheckpointsOf(c) = {} THEN 2
                  ELSE CHOOSE s \in 1 .. MaxSeq + 1 : \E k \in LastSealed(c) : s = k.to + 1

SeqFrom(c) == IF CheckpointsOf(c) = {} THEN 1
              ELSE CHOOSE s \in 1 .. MaxSeq + 1 : \E k \in LastSealed(c) : s = k.to + 1

ReadLast(r) ==
  LET from == SeqFrom(Here(r))
  IN /\ Is(r, "last")
     /\ Step(r, IF from <= replica[r].head /\ Due(r, from)
                THEN [replica[r] EXCEPT !.pc = "leaves", !.from = from]
                ELSE Onward(r))
     /\ UNCHANGED <<rows, checkpoints, signingKeys, file, now, faults>>

\* The answers to a query ORDER BY seq: two rows at one place come in any order.
InOrder(S) == {s \in SetToSeqs(S) : \A i, j \in DOMAIN s : i < j => s[i].seq <= s[j].seq}
Between(c, from, to) == {row \in rows[c] : from <= row.seq /\ row.seq <= to}
HashesOf(s) == [i \in 1 .. Len(s) |-> s[i].hash]

(* Whatever the read brings is sealed.                                      *)
ReadLeavesUncounted(r) ==
  /\ Is(r, "leaves")
  /\ \E s \in InOrder(Between(Here(r), replica[r].from, replica[r].head)) :
       Step(r, IF s # <<>> THEN [replica[r] EXCEPT !.pc = "put", !.head = 0, !.leaves = HashesOf(s)]
               ELSE Rest(r))
  /\ UNCHANGED <<rows, checkpoints, signingKeys, file, now, faults>>

\* As many leaves as the range has places, or the tick ends with an error.
ReadLeaves(r) ==
  LET pending == replica[r].head - replica[r].from + 1
  IN /\ Is(r, "leaves")
     /\ \E s \in InOrder(Between(Here(r), replica[r].from, replica[r].head)) :
          Step(r, IF Len(s) = pending
                  THEN [replica[r] EXCEPT !.pc = "put", !.head = 0, !.leaves = HashesOf(s)]
                  ELSE Rest(r))
     /\ UNCHANGED <<rows, checkpoints, signingKeys, file, now, faults>>

\* seal_range: the last place follows from the number of leaves, the time is
\* that of the sealing and the key the one the process began with.
Seal_range(r) ==
  [chain |-> Here(r), from |-> replica[r].from,
   to |-> replica[r].from + Len(replica[r].leaves) - 1,
   leaves |-> replica[r].leaves, at |-> now, key |-> replica[r].key]

\* ON CONFLICT (tenant_id, system_id, seq_to) DO NOTHING.
Put(r) ==
  LET taken == \E k \in CheckpointsOf(Here(r)) : k.to = Seal_range(r).to
  IN /\ Is(r, "put")
     /\ checkpoints' = IF taken THEN checkpoints ELSE checkpoints \union {Seal_range(r)}
     /\ Step(r, Onward(r))
     /\ UNCHANGED <<rows, signingKeys, file, now, faults>>

-----------------------------------------------------------------------------
(* What else happens *)

\* A query or the put fails, committed or not: the tick ends, the loop goes on.
QueryFails(r) ==
  /\ Fault("query")
  /\ replica[r].pc \in {"head", "last", "leaves", "put"}
  /\ Step(r, Rest(r))
  /\ UNCHANGED <<rows, checkpoints, signingKeys, file, now>>

\* The process ends and is started again; the file and the tables remain, and
\* the transaction of the installation is rolled back.
Crash(r) ==
  /\ Fault("crash")
  /\ ~Is(r, "down")
  /\ Step(r, Down)
  /\ UNCHANGED <<rows, checkpoints, signingKeys, file, now>>

\* The operator takes the key file away, to have the next boot generate a key.
RotateFile ==
  /\ Fault("rotate")
  /\ file # NoKey
  /\ file' = NoKey
  /\ UNCHANGED <<rows, checkpoints, signingKeys, now, replica>>

Advance ==
  /\ now < MaxNow
  /\ now' = now + 1
  /\ UNCHANGED <<rows, checkpoints, signingKeys, file, replica, faults>>

Boots(r) == LoadKey(r) \/ GenerateKey(r) \/ WriteKey(r)
Installs(r) == InstallSelect(r) \/ InstallUpdate(r) \/ InstallWaited(r) \/ InstallInsert(r)
Ticks(r) ==
  TickStart(r) \/ TickEnd(r) \/ ReadHead(r) \/ ReadLast(r) \/ ReadLeaves(r) \/ Put(r)

CpNext ==
  \/ \E c \in Chains : AppendRow(c) \/ DoubleRow(c) \/ SkipRow(c)
  \/ \E r \in Replicas : Boots(r) \/ Installs(r) \/ Ticks(r) \/ QueryFails(r) \/ Crash(r)
  \/ RotateFile
  \/ Advance

CpSpec == CpInit /\ [][CpNext]_cpVars

\* A process that can go on goes on, and time passes.  Nothing makes rows come.
CpFairness ==
  /\ \A r \in Replicas : WF_cpVars(Boots(r) \/ Installs(r) \/ Ticks(r))
  /\ WF_cpVars(Advance)

CpFairSpec == CpSpec /\ CpFairness

-----------------------------------------------------------------------------
(* Properties *)

Checkpoints ==
  [chain : Chains, from : 1 .. MaxSeq, to : 1 .. MaxSeq, leaves : Seq(Hashes),
   at : Times, key : Keys]
Windows == [key : Keys, from : Times, to : Times \union {Open}]
Pcs == {"down", "write", "select", "update", "waiting", "insert", "idle",
        "head", "last", "leaves", "put"}
ReplicaStates ==
  [pc : Pcs, key : Keys \union {NoKey}, time : Times, closing : Keys \union {NoKey},
   walk : SUBSET Chains, chain : Chains \union {NoChain}, head : 0 .. MaxSeq,
   from : 0 .. MaxSeq, leaves : Seq(Hashes)]

\* Every variable holds what its table, its file or its local can hold.
CpTypeOK ==
  /\ rows \in [Chains -> SUBSET Rows]
  /\ checkpoints \in SUBSET Checkpoints
  /\ signingKeys \in SUBSET Windows
  /\ file \in Keys \union {NoKey}
  /\ now \in Times
  /\ replica \in [Replicas -> ReplicaStates]
  /\ faults \in 0 .. MaxFaults

\* What a checkpoint says of its range is true: its root is over one row for
\* each place of the range, in the order of the places (the count in tick).
RootCoversRange ==
  \A k \in checkpoints :
    /\ Len(k.leaves) = k.to - k.from + 1
    /\ \A i \in 1 .. Len(k.leaves) :
         \E row \in rows[k.chain] : row.hash = k.leaves[i] /\ row.seq = k.from + i - 1

\* Whatever replicas seal at once, no place before a checkpoint is unsealed: it
\* begins at the first row or right after another one ends (seq_from in tick).
StartsWhereAnotherEnds ==
  \A k \in checkpoints :
    k.from = 1 \/ \E j \in CheckpointsOf(k.chain) : j.to = k.from - 1

\* A verifier finds the key of every checkpoint among the public keys, with a
\* window that had begun when it was sealed (install_active_key before the loop).
KeyPublished ==
  \A k \in checkpoints : \E w \in signingKeys : w.key = k.key /\ w.from <= k.at

\* The windows of the keys follow each other: of the keys there are one is
\* active, and each that is not ends where another begins (one transaction).
WindowsAbut ==
  /\ signingKeys # {} => Cardinality(OpenKeys) = 1
  /\ \A w \in signingKeys \ OpenKeys : \E v \in signingKeys : v.key # w.key /\ v.from = w.to

\* A chain without a place too many or too few.
Whole(c) == Seqs(c) = 1 .. Head_seq(c) /\ Cardinality(rows[c]) = Head_seq(c)
SealedTo(c) == IF CheckpointsOf(c) = {} THEN 0
               ELSE CHOOSE s \in 1 .. MaxSeq : \E k \in LastSealed(c) : s = k.to

\* As long as no chain up to this one in the walk is broken, every row of it
\* comes to be covered by a checkpoint, though no other row ever comes and the
\* threshold is never reached (the elapsed trigger of tick, and its loop).
SealedUpToBroken ==
  \A i \in DOMAIN Walk :
    [](\A j \in 1 .. i : Whole(Walk[j])) =>
      \A n \in 1 .. MaxSeq : Head_seq(Walk[i]) >= n ~> SealedTo(Walk[i]) >= n

(* What does not hold; the runs that show it are in the README. *)

\* "Seal every chain that is due."
EverySoundChainSealed ==
  \A i \in DOMAIN Walk :
    []Whole(Walk[i]) =>
      \A n \in 1 .. MaxSeq : Head_seq(Walk[i]) >= n ~> SealedTo(Walk[i]) >= n

\* "The window it was valid in": a checkpoint is sealed within its key's window.
SealedInsideWindow ==
  \A k \in checkpoints : \E w \in signingKeys :
    w.key = k.key /\ w.from <= k.at /\ (w.to = Open \/ k.at <= w.to)

\* A window does not end before it begins.
WindowsForward == \A w \in signingKeys : w.to = Open \/ w.from <= w.to
=============================================================================
