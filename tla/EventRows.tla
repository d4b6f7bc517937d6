------------------------------ MODULE EventRows ------------------------------
(***************************************************************************)
(* An audit event, what is hashed of it, and the row it is stored as.      *)
(*                                                                         *)
(*   crates/ancre-types/src/event.rs, pins.rs, risk.rs   the event          *)
(*   crates/ancre-chain/src/lib.rs                       its hash           *)
(*   crates/ancre-ingester/src/clickhouse.rs             its row            *)
(*                                                                         *)
(* Fields that are treated alike stand together: `names' for the texts of  *)
(* the pins, each of which is copied by itself, and `numbers' for the      *)
(* metrics, the digests and the other texts.                               *)
(***************************************************************************)
EXTENDS Naturals, Sequences, SequencesExt, FiniteSets

CONSTANT encoded(_)   \* the canonical encoding of a value, which Canon models

Inverse_of(table) == [wire \in {table[v] : v \in DOMAIN table} |-> CHOOSE v \in DOMAIN table : table[v] = wire]
Unread == "unread"
From_wire(table, wire) == IF wire \in DOMAIN Inverse_of(table) THEN Inverse_of(table)[wire] ELSE Unread

\* The frozen names, which are hashed and stored.
EventType == [LlmRequest |-> "llm.request", ProviderFailover |-> "provider.failover",
              ConfigGenerationApplied |-> "config.generation.applied",
              PinOverridden |-> "pin.overridden", TelemetryDropped |-> "telemetry.dropped",
              ChainHeartbeat |-> "chain.heartbeat"]
Outcome == [Ok |-> "ok", Error |-> "error", Denied |-> "denied", Interrupted |-> "interrupted"]
RiskFlag == [StaleConfig |-> "stale_config", UnpinnedModel |-> "unpinned_model",
             PinOverridden |-> "pin_overridden", NoPolicyEngine |-> "no_policy_engine",
             TelemetryDropped |-> "telemetry_dropped",
             SubstantialCandidate |-> "substantial_candidate"]
\* A class is hashed by its name and stored as its number.
RiskClass == [Unclassified |-> "unclassified", Minimal |-> "minimal",
              Transparency |-> "transparency", High |-> "high"]
Discriminant == [Unclassified |-> 0, Minimal |-> 1, Transparency |-> 2, High |-> 3]

\* The flags by their names: the order of strings.
FlagOrder == <<"no_policy_engine", "pin_overridden", "stale_config", "substantial_candidate",
               "telemetry_dropped", "unpinned_model">>
Place(name) == CHOOSE i \in DOMAIN FlagOrder : FlagOrder[i] = name
InFlagOrder(s) == \A i, j \in DOMAIN s : i < j => Place(s[i]) <= Place(s[j])
Arrangements(s) == {[i \in DOMAIN s |-> s[p[i]]] : p \in Bijection(DOMAIN s, DOMAIN s)}
Sort_unstable(flags) ==
  CHOOSE s \in Arrangements([i \in DOMAIN flags |-> RiskFlag[flags[i]]]) : InFlagOrder(s)

\* The texts among the pins that have_gap looks at; a text is "unknown", an
\* alias that was not resolved, or something that was said.
PinNames == {"system_version", "ifu_version", "model_id", "model_version", "prompt_id",
             "prompt_version", "policy_id", "policy_version", "gateway_version"}
Unresolved(alias) == <<"unresolved:", alias>>
Said(text) == <<"", text>>
Unknown == <<"", "unknown">>

\* The pins of an event that tells of a hole.
Null_baseline ==
  [config_generation |-> 0, system_id |-> "unknown", names |-> [n \in PinNames |-> Unknown],
   risk_class |-> "Unclassified", resolved_stale |-> FALSE, risk_flags |-> <<>>]
Gap(system, flag) == [Null_baseline EXCEPT !.system_id = system, !.risk_flags = <<flag>>]

Has_gap(pins) == \E n \in PinNames : pins.names[n] = Unknown \/ pins.names[n][1] = "unresolved:"

-----------------------------------------------------------------------------
(* hashed_view and event_hash *)

\* The keys of a hashed body have one order, whatever it is.
Fields == <<"tenant_id", "system_id", "seq", "prev_hash", "canon_version", "occurred_at",
            "event_type", "outcome", "config_generation", "names", "risk_class",
            "resolved_stale", "risk_flags", "numbers">>
Field(i, v) == <<<<"text", <<i>>>>, v>>

(* The flags in the order in which they were raised.                        *)
Hashed_viewAsRaised(e) ==
  LET view == <<e.tenant_id, e.system_id, e.seq, e.prev_hash, e.canon_version, e.occurred_at,
                EventType[e.event_type], Outcome[e.outcome], e.pins.config_generation,
                e.pins.names, RiskClass[e.pins.risk_class], e.pins.resolved_stale,
                [i \in DOMAIN e.pins.risk_flags |-> RiskFlag[e.pins.risk_flags[i]]], e.numbers>>
  IN <<"map", [i \in DOMAIN Fields |-> Field(i, <<Fields[i], view[i]>>)]>>

\* Neither `event_hash', nor `ingested_at', nor the system of the pins.
Hashed_view(e) ==
  LET view == <<e.tenant_id, e.system_id, e.seq, e.prev_hash, e.canon_version, e.occurred_at,
                EventType[e.event_type], Outcome[e.outcome], e.pins.config_generation,
                e.pins.names, RiskClass[e.pins.risk_class], e.pins.resolved_stale,
                Sort_unstable(e.pins.risk_flags), e.numbers>>
  IN <<"map", [i \in DOMAIN Fields |-> Field(i, <<Fields[i], view[i]>>)]>>

\* A field goes in behind its length, so it is told from the next one.
Event_hash(e) == <<"ancre-event/1", e.canon_version, e.prev_hash, encoded(Hashed_view(e))>>
Seal_event(e) == [e EXCEPT !.event_hash = Event_hash(e)]

-----------------------------------------------------------------------------
(* AuditEventRow *)

\* Each text of the pins has a column of its own, by hand in either direction.
Columns_from(p) ==
  [system_version |-> p.system_version, ifu_version |-> p.ifu_version,
   model_id |-> p.model_id, model_version |-> p.model_version,
   prompt_id |-> p.prompt_id, prompt_version |-> p.prompt_version,
   policy_id |-> p.policy_id, policy_version |-> p.policy_version,
   gateway_version |-> p.gateway_version]
Names_from(r) ==
  [system_version |-> r.system_version, ifu_version |-> r.ifu_version,
   model_id |-> r.model_id, model_version |-> r.model_version,
   prompt_id |-> r.prompt_id, prompt_version |-> r.prompt_version,
   policy_id |-> r.policy_id, policy_version |-> r.policy_version,
   gateway_version |-> r.gateway_version]

Row_from(e) ==
  [tenant_id |-> e.tenant_id, system_id |-> e.system_id, seq |-> e.seq,
   prev_hash |-> e.prev_hash, event_hash |-> e.event_hash, canon_version |-> e.canon_version,
   occurred_at |-> e.occurred_at, ingested_at |-> e.ingested_at,
   event_type |-> EventType[e.event_type], outcome |-> Outcome[e.outcome],
   config_generation |-> e.pins.config_generation, names |-> Columns_from(e.pins.names),
   risk_class |-> Discriminant[e.pins.risk_class],
   resolved_stale |-> IF e.pins.resolved_stale THEN 1 ELSE 0,
   risk_flags |-> Sort_unstable(e.pins.risk_flags), numbers |-> e.numbers]

\* A name this build does not know is refused, not replaced.
Readable(r) ==
  /\ From_wire(EventType, r.event_type) # Unread
  /\ From_wire(Outcome, r.outcome) # Unread
  /\ r.risk_class \in {Discriminant[c] : c \in DOMAIN Discriminant}
  /\ \A i \in DOMAIN r.risk_flags : From_wire(RiskFlag, r.risk_flags[i]) # Unread

\* The pins name the system that the row has once.
Try_from(r) ==
  [tenant_id |-> r.tenant_id, system_id |-> r.system_id, seq |-> r.seq,
   prev_hash |-> r.prev_hash, event_hash |-> r.event_hash, canon_version |-> r.canon_version,
   occurred_at |-> r.occurred_at, ingested_at |-> r.ingested_at,
   event_type |-> From_wire(EventType, r.event_type), outcome |-> From_wire(Outcome, r.outcome),
   pins |-> [config_generation |-> r.config_generation, system_id |-> r.system_id,
             names |-> Names_from(r.names),
             risk_class |-> CHOOSE c \in DOMAIN Discriminant : Discriminant[c] = r.risk_class,
             resolved_stale |-> r.resolved_stale # 0,
             risk_flags |-> [i \in DOMAIN r.risk_flags |-> From_wire(RiskFlag, r.risk_flags[i])]],
   numbers |-> r.numbers]
=============================================================================
