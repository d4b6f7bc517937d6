------------------------------- MODULE Config -------------------------------
(***************************************************************************)
(* The configuration a gateway resolves requests against: how a published  *)
(* specification becomes a snapshot (ConfigSnapshot::build), what a        *)
(* request resolves to under it (PinResolver::resolve) and what the reload *)
(* of another one reports as changed (diff.rs).                            *)
(*                                                                         *)
(* A request is the set of facts a matcher may ask for (its path, its      *)
(* model alias, its headers), so a matcher is the set of facts it asks     *)
(* for: Any is {}, All is a union.  A content hash is the content.  The    *)
(* version of a system is its major number and the rest.                   *)
(***************************************************************************)
EXTENDS Integers, Sequences, FiniteSets

None == "none"
Genesis == "genesis"

SystemIds(systems) == {systems[i].system_id : i \in DOMAIN systems}

\* The first check that a system of the specification fails.
SystemError(systems, i) ==
  IF systems[i].routes = <<>> THEN "NoRoutes"
  ELSE IF systems[i].default_route \notin DOMAIN systems[i].routes THEN "BadDefaultRoute"
  ELSE IF systems[i].system_id \in SystemIds(SubSeq(systems, 1, i - 1)) THEN "DuplicateSystem"
  ELSE None

KeyError(spec, i) ==
  IF spec.keys[i].system_id \notin SystemIds(spec.systems) THEN "KeyBindsUnknownSystem"
  ELSE IF \E j \in 1 .. i - 1 : spec.keys[j].key = spec.keys[i].key THEN "DuplicateKey"
  ELSE None

\* What ConfigSnapshot::build refuses: any error of a system or of a key.
BuildErrors(spec) ==
  ({SystemError(spec.systems, i) : i \in DOMAIN spec.systems}
    \union {KeyError(spec, i) : i \in DOMAIN spec.keys}) \ {None}

\* All of a specification but its generation (content_view).
ContentHash(spec) == [gateway |-> spec.gateway_version, systems |-> spec.systems, keys |-> spec.keys]

\* A snapshot looks systems and keys up by their names.
Snapshot(spec) ==
  [generation |-> spec.generation,
   content_hash |-> ContentHash(spec),
   gateway_version |-> spec.gateway_version,
   systems |-> [id \in SystemIds(spec.systems) |->
                  spec.systems[CHOOSE i \in DOMAIN spec.systems : spec.systems[i].system_id = id]],
   keys |-> [k \in {spec.keys[i].key : i \in DOMAIN spec.keys} |->
               LET i == CHOOSE j \in DOMAIN spec.keys : spec.keys[j].key = k
               IN  [tenant_id |-> spec.keys[i].tenant_id, system_id |-> spec.keys[i].system_id]]]

\* What travels to a gateway carries the generation and the hash of the contents
\* beside the specification.
Seal(spec, content_hash) == [generation |-> spec.generation, content_hash |-> content_hash, spec |-> spec]
SealNow(spec) == Seal(spec, ContentHash(spec))

\* The hash is taken again, and the generation is that of the specification.
Verified(envelope) ==
  /\ envelope.spec.generation = envelope.generation
  /\ ContentHash(envelope.spec) = envelope.content_hash

(* What builds is installed. *)
InstallUnverified(envelope) ==
  IF BuildErrors(envelope.spec) # {} THEN {} ELSE {Snapshot(envelope.spec)}

\* Nothing becomes a snapshot that does not verify, or does not build.
Install(envelope) ==
  IF ~ Verified(envelope) \/ BuildErrors(envelope.spec) # {} THEN {} ELSE {Snapshot(envelope.spec)}

EmptySnapshot == [generation |-> 0, content_hash |-> Genesis, gateway_version |-> "",
                  systems |-> <<>>, keys |-> <<>>]

-----------------------------------------------------------------------------
(* Resolution.  `loaded' is the snapshot, whether it is the placeholder of *)
(* a cold start, and whether it is past the staleness budget.              *)

Matches(matcher, facts) == matcher \subseteq facts

\* The first route that matches, or the default route.
RouteOf(system, facts) ==
  LET matching == {i \in DOMAIN system.routes : Matches(system.routes[i].matcher, facts)}
  IN  IF matching = {} THEN system.routes[system.default_route]
      ELSE system.routes[CHOOSE i \in matching : \A j \in matching : i <= j]

\* StalenessPolicy::admits, with fail_closed_on_stale as the deployment has it.
Admits(stale, failClosed, risk) == ~ (stale /\ failClosed /\ risk = "high")

\* The error of `resolve', in the order of its checks; None when it resolves.
ResolveError(loaded, failClosed, req) ==
  LET snap == loaded.snap IN
  IF loaded.cold THEN "ColdStart"
  ELSE IF req.key \notin DOMAIN snap.keys THEN "UnknownKey"
  ELSE IF snap.keys[req.key].system_id \notin DOMAIN snap.systems THEN "UnknownSystem"
  ELSE IF ~ Admits(loaded.stale, failClosed, snap.systems[snap.keys[req.key].system_id].risk_class)
         THEN "StaleConfigFailClosed"
  ELSE None

HttpStatus(error) ==
  CASE error = "UnknownKey" -> 401
    [] error = "UnknownSystem" -> 500
    [] error \in {"StaleConfigFailClosed", "ColdStart"} -> 503

\* A version pinned by the caller goes before that of the route.
Pin(overridden, ofRoute) == IF overridden = None THEN ofRoute ELSE overridden

\* The pins of a request that resolves.
Resolve(loaded, req) ==
  LET snap   == loaded.snap
      system == snap.systems[snap.keys[req.key].system_id]
      route  == RouteOf(system, req.facts)
  IN  [config_generation |-> snap.generation,
       config_hash    |-> snap.content_hash,
       gateway_version |-> snap.gateway_version,
       system_id      |-> system.system_id,
       system_version |-> system.system_version,
       ifu_version    |-> system.ifu_version,
       policy_id      |-> system.policy_id,
       policy_version |-> system.policy_version,
       risk_class     |-> system.risk_class,
       model_id       |-> route.model_id,
       prompt_id      |-> route.prompt_id,
       model_version  |-> Pin(req.pin_model, route.model_version),
       prompt_version |-> Pin(req.pin_prompt, route.prompt_version),
       resolved_stale |-> loaded.stale,
       risk_flags     |-> {f \in {"StaleConfig", "PinOverridden"} :
                             \/ f = "StaleConfig" /\ loaded.stale
                             \/ f = "PinOverridden" /\ <<req.pin_model, req.pin_prompt>> # <<None, None>>}]

-----------------------------------------------------------------------------
(* What a reload reports.                                                  *)

(* Only the routes that both have are compared. *)
RoutesDifferPairwise(prev, next, field) ==
  \E i \in DOMAIN prev.routes \intersect DOMAIN next.routes :
    prev.routes[i][field] # next.routes[i][field]

\* Another length is a difference.
RoutesDifferOn(prev, next, field) ==
  \/ Len(prev.routes) # Len(next.routes)
  \/ \E i \in DOMAIN prev.routes : prev.routes[i][field] # next.routes[i][field]

Classify(prev, next) ==
  IF \/ RoutesDifferOn(prev, next, "model_id")
     \/ prev.system_version[1] # next.system_version[1] THEN "Substantial"
  ELSE IF \/ prev.policy_version # next.policy_version
          \/ RoutesDifferOn(prev, next, "prompt_version") THEN "Material"
  ELSE "Minor"

RouteFields == {"model_id", "model_version", "prompt_version"}
SystemFields == {"system_version", "policy_version", "ifu_version", "risk_class"}

ChangedFields(prev, next) ==
  {f \in RouteFields : RoutesDifferOn(prev, next, f)}
    \union {f \in SystemFields : prev[f] # next[f]}
    \union (IF Len(prev.routes) # Len(next.routes) THEN {"routes"} ELSE {})

\* ReloadOutcome: the systems of both snapshots that changed, those of one only.
Diff(prev, next) ==
  LET both == DOMAIN prev.systems \intersect DOMAIN next.systems IN
  [from |-> prev.generation,
   to |-> next.generation,
   changes |-> {[system_id |-> id,
                 class  |-> Classify(prev.systems[id], next.systems[id]),
                 fields |-> ChangedFields(prev.systems[id], next.systems[id])] :
                   id \in {s \in both : ChangedFields(prev.systems[s], next.systems[s]) # {}}},
   added |-> DOMAIN next.systems \ DOMAIN prev.systems,
   removed |-> DOMAIN prev.systems \ DOMAIN next.systems]

\* The first snapshot after a cold start is no change.
FirstSnapshot(next) ==
  [from |-> 0, to |-> next.generation, changes |-> {}, added |-> {}, removed |-> {}]

SubstantialCandidates(outcome) == {c \in outcome.changes : c.class = "Substantial"}
=============================================================================
