------------------------------ MODULE AuditLog ------------------------------
(***************************************************************************)
(* What the evidence store promises its readers, whatever process writes   *)
(* it: one log per chain that only ever grows and that `verify_range`      *)
(* accepts at every moment (crates/ancre-chain/src/verify.rs), and no      *)
(* event given up before it is in its log.                                 *)
(***************************************************************************)
EXTENDS Integers, Sequences

CONSTANTS
  Chains,       \* the (tenant_id, system_id) pairs
  Messages,     \* the emitted events that reached the stream
  ChainOf,      \* the chain each of them belongs to
  Undecodable,  \* those whose payload is not an event
  GENESIS       \* prev_hash of the first event of a chain

VARIABLES
  log,          \* log[c]: the rows of chain c
  settled       \* the messages the stream will never deliver again

(* A sequence of rows that `verify_range` accepts from GENESIS on: seq     *)
(* counts from 1 without a gap or a repetition, and every row names the    *)
(* hash of the row before it.                                              *)
Linked(r) ==
  \A i \in DOMAIN r :
    /\ r[i].seq = i
    /\ r[i].prev = IF i = 1 THEN GENESIS ELSE r[i - 1].hash

Extends(longer, shorter) ==
  /\ Len(shorter) <= Len(longer)
  /\ \A i \in DOMAIN shorter : longer[i] = shorter[i]

Recorded(m) == \E i \in DOMAIN log[ChainOf[m]] : log[ChainOf[m]][i].event = m

Init ==
  /\ log = [c \in Chains |-> <<>>]
  /\ settled = {}

\* Some chains grow, all at once or not at all.
Record ==
  /\ \A c \in Chains : Extends(log'[c], log[c]) /\ Linked(log'[c])
  /\ UNCHANGED settled

\* Some messages are given up; those that decode are in the log by then.
Settle ==
  /\ settled \subseteq settled'
  /\ settled' \subseteq Messages
  /\ \A m \in (settled' \ settled) \ Undecodable : Recorded(m)
  /\ UNCHANGED log

Next == Record \/ Settle

Spec == Init /\ [][Next]_<<log, settled>>

-----------------------------------------------------------------------------
\* Every chain verifies.
Intact == \A c \in Chains : Linked(log[c])

\* No event is lost: what is settled and decodes is recorded.
SettledIsRecorded == \A m \in settled \ Undecodable : Recorded(m)
=============================================================================
