------------------------------ MODULE Requests ------------------------------
(***************************************************************************)
(* The request path of a gateway (proxy.rs, tap.rs): a request is          *)
(* admitted, resolved against the configuration that is installed, sent to *)
(* a provider, and its answer is passed on and read on the way past, until *)
(* one audit event tells what ran.  Meanwhile configurations are installed *)
(* and become stale, providers break off and clients hang up.              *)
(*                                                                         *)
(* The events are those handed to TelemetryFork::emit; what becomes of     *)
(* them is module Telemetry.  The body of a request is the set of fields   *)
(* that make a difference to its translation.                              *)
(***************************************************************************)
EXTENDS Config, Stream

CONSTANTS
  Requests,    \* the requests a gateway serves
  Inputs,      \* what a request may be
  Specs,       \* the configurations that may be published
  Bodies,      \* what a provider may answer
  FailClosed,  \* fail_closed_on_stale
  MaxReloads   \* bound: snapshots installed


VARIABLES
  loaded,    \* the snapshot installed, whether none is, whether it is stale
  reload,    \* the last reload: the snapshot before, the one after, the report
  pc,        \* where `handle' and the body are, for each request
  input,     \* the request
  pins,      \* what it was resolved to, once
  admitted,  \* history: what was loaded when it was resolved
  tenant,    \* the tenant of its event
  sent,      \* what the provider was sent
  answer,    \* what the provider answers
  tapped,    \* the body that observes: whether it still has its tap, the
             \* bytes delivered, the scanner's carry, the pins of the stream
  events     \* the events emitted for each request

config == <<loaded, reload>>
context == <<input, pins, admitted, tenant, sent>>
reqVars == <<config, pc, context, answer, tapped, events>>

NoAnswer == [bytes |-> <<>>, sized |-> FALSE, status |-> 0]

\* What the routes of a system and the bytes of a body are.
IsSequence(s) == s \in Seq({s[i] : i \in DOMAIN s})

ASSUME ReqAssumption ==
  /\ MaxReloads \in Nat /\ FailClosed \in BOOLEAN /\ NoAnswer \notin Bodies
  /\ \A b \in Bodies : IsSequence(b.bytes)
  /\ \A spec \in Specs :
       /\ {"generation", "gateway_version", "systems", "keys"} \subseteq DOMAIN spec
       /\ \A s \in DOMAIN spec.systems : IsSequence(spec.systems[s].routes)

NoReload == [prev |-> EmptySnapshot, next |-> EmptySnapshot, outcome |-> FirstSnapshot(EmptySnapshot)]
Cold == [snap |-> EmptySnapshot, cold |-> TRUE, stale |-> FALSE]
NewBody == [tap |-> TRUE, at |-> 0, carry |-> <<>>, pins |-> NoPins]

ReqInit ==
  /\ loaded = Cold
  /\ reload = NoReload
  /\ pc = [q \in Requests |-> "idle"]
  /\ input \in [Requests -> Inputs]
  /\ pins = [q \in Requests |-> None]
  /\ admitted = [q \in Requests |-> Cold]
  /\ tenant = [q \in Requests |-> None]
  /\ sent = [q \in Requests |-> {}]
  /\ answer = [q \in Requests |-> NoAnswer]
  /\ tapped = [q \in Requests |-> NewBody]
  /\ events = [q \in Requests |-> <<>>]

-----------------------------------------------------------------------------
(* The configuration, from the poll or the bus.                            *)

\* What arrives of a specification that is published as the next generation: as
\* it was sealed, with another class of risk, or with another generation.
Arriving(spec) ==
  LET sealed == SealNow([spec EXCEPT !.generation = loaded.snap.generation + 1])
  IN  {sealed, [sealed EXCEPT !.spec.systems[1].risk_class = "limited"],
               [sealed EXCEPT !.spec.generation = @ + 1]}

\* What is not installed leaves everything as it was; a snapshot that is gets
\* reported against the one before, and swapped in.
Reload(envelope) ==
  /\ loaded.snap.generation < MaxReloads
  /\ \E next \in Install(envelope) :
       /\ loaded' = [snap |-> next, cold |-> FALSE, stale |-> FALSE]
       /\ reload' = [prev |-> loaded.snap, next |-> next,
                     outcome |-> IF loaded.cold THEN FirstSnapshot(next) ELSE Diff(loaded.snap, next)]
  /\ UNCHANGED <<pc, context, answer, tapped, events>>

\* The staleness budget runs out.
Expire ==
  /\ ~ loaded.cold /\ ~ loaded.stale
  /\ loaded' = [loaded EXCEPT !.stale = TRUE]
  /\ UNCHANGED <<reload, pc, context, answer, tapped, events>>

\* confirm_fresh, with no reload between its load and its store.
ConfirmFresh ==
  /\ ~ loaded.cold /\ loaded.stale
  /\ loaded' = [loaded EXCEPT !.stale = FALSE]
  /\ UNCHANGED <<reload, pc, context, answer, tapped, events>>

-----------------------------------------------------------------------------
(* handle                                                                  *)

Goes(q, from, to) == pc[q] = from /\ pc' = [pc EXCEPT ![q] = to]

\* Without a bearer token the answer is a 401, before the body is read.
Admit(q) ==
  /\ Goes(q, "idle", IF input[q].bearer THEN "body" ELSE "refused")
  /\ UNCHANGED <<config, context, answer, tapped, events>>

\* The client fails to send its body.
BodyLost(q) ==
  /\ Goes(q, "body", "closed")
  /\ UNCHANGED <<config, context, answer, tapped, events>>

\* The body is there; the pins are resolved, from one load of the snapshot.
ResolvePins(q) ==
  LET error == ResolveError(loaded, FailClosed, input[q]) IN
  /\ Goes(q, "body", IF error = None THEN "resolved" ELSE "refused")
  /\ error = None => /\ pins' = [pins EXCEPT ![q] = Resolve(loaded, input[q])]
                     /\ admitted' = [admitted EXCEPT ![q] = loaded]
  /\ error # None => UNCHANGED <<pins, admitted>>
  /\ UNCHANGED <<config, input, tenant, sent, answer, tapped, events>>

\* The tenant comes from another load.
FindTenant(q) ==
  /\ Goes(q, "resolved", "bound")
  /\ tenant' = [tenant EXCEPT ![q] = IF input[q].key \in DOMAIN loaded.snap.keys
                                       THEN loaded.snap.keys[input[q].key].tenant_id ELSE "unknown"]
  /\ UNCHANGED <<config, input, pins, admitted, sent, answer, tapped, events>>

\* By the prefix of the model: what is not Anthropic's goes to OpenAI's wire.
ProviderFor(model) == IF model \in {"claude", "claude-2025"} THEN "anthropic" ELSE "openai"
Provider(q) == ProviderFor(pins[q].model_id)

\* What Anthropic's adapter refuses to translate, and what it takes over.
Untranslatable == {"malformed", "no model", "no messages", "other role", "no role", "tools", "two systems"}
Translated == {"system", "stream", "temperature", "top_p", "stop", "max_tokens"}

Translate(q) ==
  LET refused == Provider(q) = "anthropic" /\ input[q].fields \intersect Untranslatable # {} IN
  /\ Goes(q, "bound", IF refused THEN "refused" ELSE "sending")
  /\ sent' = [sent EXCEPT ![q] = CASE refused -> {}
                                   [] Provider(q) = "openai" -> input[q].fields
                                   [] OTHER -> input[q].fields \intersect Translated]
  /\ UNCHANGED <<config, input, pins, admitted, tenant, answer, tapped, events>>

\* `send' fails, or the connection is closed while it is awaited.
SendFails(q) ==
  /\ Goes(q, "sending", "closed")
  /\ UNCHANGED <<config, context, answer, tapped, events>>

\* The head of an answer arrives; its body goes out through the tap.
Answered(q, b) ==
  /\ Goes(q, "sending", "streaming")
  /\ answer' = [answer EXCEPT ![q] = b]
  /\ tapped' = [tapped EXCEPT ![q] = NewBody]
  /\ UNCHANGED <<config, context, events>>

-----------------------------------------------------------------------------
(* TappedBody                                                              *)

Streaming(q) == "stream" \in input[q].fields
Delivered(q) == SubSeq(answer[q].bytes, 1, tapped[q].at)

\* The inner body says that it is at its end, without being polled.
IsEndStream(q, at) == answer[q].sized /\ at = Len(answer[q].bytes)

\* The body after a chunk: only a stream is scanned.
Observe(q, n) ==
  LET body  == tapped[q]
      fed   == Feed(body.carry, SubSeq(answer[q].bytes, body.at + 1, body.at + n))
  IN  IF Streaming(q)
        THEN [body EXCEPT !.at = @ + n, !.carry = fed.carry,
                          !.pins = AbsorbFrames(@, Provider(q), fed.frames)]
        ELSE [body EXCEPT !.at = @ + n]

\* What served the request, from all that was observed of the answer.
ServedBy(q, body) ==
  IF Streaming(q) THEN FinishPins(AbsorbFrames(body.pins, Provider(q), <<body.carry>>))
                  ELSE served_by(Provider(q), SubSeq(answer[q].bytes, 1, body.at))

(* The request is resolved again when its event is written. *)
EventResolvedAgain(q, body, outcome) ==
  LET served == ServedBy(q, body) IN
  [tenant_id |-> tenant[q],
   pins |-> [IF ResolveError(loaded, FailClosed, input[q]) = None THEN Resolve(loaded, input[q]) ELSE pins[q]
               EXCEPT !.model_version = served.model_version,
                      !.risk_flags = @ \union (IF served.flag THEN {"UnpinnedModel"} ELSE {})],
   outcome |-> outcome,
   provider |-> Provider(q),
   http_status |-> answer[q].status,
   tokens_in |-> served.in, tokens_out |-> served.out,
   response_digest |-> SubSeq(answer[q].bytes, 1, body.at)]

\* The provider's answer goes before the version of the route.
Event(q, body, outcome) ==
  LET served == ServedBy(q, body) IN
  [tenant_id |-> tenant[q],
   pins |-> [pins[q] EXCEPT !.model_version = served.model_version,
                            !.risk_flags = @ \union (IF served.flag THEN {"UnpinnedModel"} ELSE {})],
   outcome |-> outcome,
   provider |-> Provider(q),
   http_status |-> answer[q].status,
   tokens_in |-> served.in, tokens_out |-> served.out,
   response_digest |-> SubSeq(answer[q].bytes, 1, body.at)]

(* The tap is not taken. *)
FinishUntaken(q, body, outcome) ==
  /\ events' = [events EXCEPT ![q] = Append(@, Event(q, body, outcome))]
  /\ tapped' = [tapped EXCEPT ![q] = [body EXCEPT !.tap = FALSE]]

\* `finish': the event of a body that still has its tap, which is taken.
Finish(q, body, outcome) ==
  /\ events' = [events EXCEPT ![q] = IF body.tap THEN Append(@, Event(q, body, outcome)) ELSE @]
  /\ tapped' = [tapped EXCEPT ![q] = [body EXCEPT !.tap = FALSE]]

(* Only a poll without frame ends the body. *)
FrameUnflagged(q, n) ==
  /\ pc[q] = "streaming" /\ ~ IsEndStream(q, tapped[q].at)
  /\ tapped' = [tapped EXCEPT ![q] = Observe(q, n)] /\ UNCHANGED events
  /\ UNCHANGED <<config, pc, context, answer>>

\* A frame of n bytes passes; it may be flagged as the last.
Frame(q, n) ==
  /\ pc[q] = "streaming" /\ ~ IsEndStream(q, tapped[q].at)
  /\ IF IsEndStream(q, tapped[q].at + n)
       THEN Finish(q, Observe(q, n), "ok")
       ELSE tapped' = [tapped EXCEPT ![q] = Observe(q, n)] /\ UNCHANGED events
  /\ UNCHANGED <<config, pc, context, answer>>

\* The body ends with a poll that has no frame.
EndOfBody(q) ==
  /\ ~ answer[q].sized /\ tapped[q].at = Len(answer[q].bytes)
  /\ Goes(q, "streaming", "ended")
  /\ Finish(q, tapped[q], "ok")
  /\ UNCHANGED <<config, context, answer>>

\* The provider breaks off, be it before the end of a body that has no length.
BodyFails(q) ==
  /\ ~ IsEndStream(q, tapped[q].at)
  /\ Goes(q, "streaming", "ended")
  /\ Finish(q, tapped[q], "error")
  /\ UNCHANGED <<config, context, answer>>

\* The server drops the body: it is written, or the client is gone.
Drop(q) ==
  /\ pc[q] \in {"streaming", "ended"}
  /\ pc' = [pc EXCEPT ![q] = "closed"]
  /\ Finish(q, tapped[q], "interrupted")
  /\ UNCHANGED <<config, context, answer>>

-----------------------------------------------------------------------------
ReqNext ==
  \/ \E spec \in Specs : \E envelope \in Arriving(spec) : Reload(envelope)
  \/ Expire
  \/ ConfirmFresh
  \/ \E q \in Requests :
       \/ Admit(q) \/ BodyLost(q) \/ ResolvePins(q) \/ FindTenant(q) \/ Translate(q)
       \/ SendFails(q) \/ (\E b \in Bodies : Answered(q, b))
       \/ \E n \in 1 .. Len(answer[q].bytes) - tapped[q].at : Frame(q, n)
       \/ EndOfBody(q) \/ BodyFails(q) \/ Drop(q)

ReqSpec == ReqInit /\ [][ReqNext]_reqVars

-----------------------------------------------------------------------------
(* Properties                                                              *)

ReqStages == {"idle", "body", "refused", "resolved", "bound", "sending", "streaming", "ended", "closed"}

\* The stages and the events of a request are as many as they can be.
ReqTypeOK ==
  /\ pc \in [Requests -> ReqStages]
  /\ input \in [Requests -> Inputs]
  /\ answer \in [Requests -> Bodies \union {NoAnswer}]
  /\ DOMAIN events = Requests /\ DOMAIN pins = Requests /\ DOMAIN admitted = Requests
  /\ DOMAIN tapped = Requests
  /\ \A q \in Requests : DOMAIN tapped[q] = DOMAIN NewBody /\ tapped[q].tap \in BOOLEAN

\* Exactly one event for an answer whose body was handed on, however it ended
\* and whoever polls or drops it last; none before, and none without answer.
OneEventPerAnswer ==
  \A q \in Requests :
    /\ Len(events[q]) <= 1
    /\ pc[q] = "closed" => (events[q] # <<>> <=> answer[q] # NoAnswer)
    /\ pc[q] \in {"idle", "body", "refused", "resolved", "bound", "sending"} => events[q] = <<>>

\* What the provider did not decide about the pins of an event is what the
\* request was resolved to when it was admitted, whatever was installed since.
EventPinsTheAdmission ==
  \A q \in Requests : \A i \in DOMAIN events[q] :
    LET e == events[q][i].pins
        p == Resolve(admitted[q], input[q])
    IN  e = [p EXCEPT !.model_version = e.model_version,
                      !.risk_flags = @ \union (e.risk_flags \intersect {"UnpinnedModel"})]

\* What an event says of the configuration it was served under was published as
\* one whole, under the hash and the generation it says: nothing that was changed
\* on its way decides what a request runs as (install, build, resolve).
EventNamesWhatWasPublished ==
  \A q \in Requests : \A i \in DOMAIN events[q] :
    LET e == events[q][i].pins IN
    \E spec \in Specs :
      /\ e.config_hash = ContentHash(spec) /\ e.gateway_version = spec.gateway_version
      /\ \E s \in DOMAIN spec.systems :
           /\ e.system_id = spec.systems[s].system_id
           /\ e.risk_class = spec.systems[s].risk_class
           /\ e.policy_version = spec.systems[s].policy_version
           /\ \E r \in DOMAIN spec.systems[s].routes :
                /\ e.model_id = spec.systems[s].routes[r].model_id
                /\ e.prompt_id = spec.systems[s].routes[r].prompt_id
      /\ e.config_generation \in 1 .. MaxReloads

\* A data line that begins at a place; a document it holds alone.
DataLine(bytes, i) == bytes[i] = "data" /\ (i = 1 \/ bytes[i - 1] = LF)
Documented(bytes, i) ==
  /\ i > 2 /\ DataLine(bytes, i - 2) /\ bytes[i - 1] = "{" /\ bytes[i] \in DOMAIN Document
  /\ i < Len(bytes) => bytes[i + 1] \in {LF, CR}
  /\ \A j \in 1 .. i - 3 : DataLine(bytes, j) => \E k \in j .. i - 3 : SeparatorAt(bytes, k) > 0

\* Every frame ends soon enough for the scanner to hold it and its separator.
FramesFit(bytes) ==
  \A i \in DOMAIN bytes : i + MaxFrame - 3 > Len(bytes)
                            \/ \E k \in i .. i + MaxFrame - 3 : SeparatorAt(bytes, k) > 0

\* Of the documents of a streamed answer that reached the client, the first that
\* names a model gives the version and the last counts are recorded, however the
\* bytes were cut (feed, absorb), and without any the version is unknown; an
\* answer in one document is told once it is whole.  Counts that come before any
\* model are ModelVersionNeverEmpty's matter.
EventTellsWhatRan ==
  \A q \in Requests : \A n \in DOMAIN events[q] :
    LET e    == events[q][n]
        got  == e.response_digest
        Says(i) == served_by_streaming(e.provider, <<"{", got[i]>>)
        telling == {i \in DOMAIN got : Documented(got, i) /\ Says(i) # <<>>}
        naming == {i \in telling : Says(i)[1].model_version # <<"empty", NoModel>>}
        First(S) == CHOOSE i \in S : \A j \in S : i <= j
        Last(S)  == CHOOSE i \in S : \A j \in S : j <= i
        ins  == {i \in telling : Says(i)[1].in > 0}
        outs == {i \in telling : Says(i)[1].out > 0}
    IN  IF Streaming(q)
          THEN FramesFit(answer[q].bytes) =>
                 /\ telling = {} => e.pins.model_version = <<"unknown", NoModel>>
                 /\ naming # {} /\ First(naming) = First(telling) =>
                      e.pins.model_version = Says(First(naming))[1].model_version
                 /\ e.tokens_in = IF ins = {} THEN 0 ELSE Says(Last(ins))[1].in
                 /\ e.tokens_out = IF outs = {} THEN 0 ELSE Says(Last(outs))[1].out
          ELSE e.pins.model_version[1] # "unknown" => got = answer[q].bytes

\* An answer that is recorded as ok was passed on to its end, and one of known
\* length that was is recorded as ok, whoever polled last (poll_frame, Drop).
OutcomeIsDelivery ==
  \A q \in Requests : \A i \in DOMAIN events[q] :
    LET e == events[q][i] IN
    /\ e.outcome = "ok" => e.response_digest = answer[q].bytes
    /\ answer[q].sized /\ answer[q].bytes # <<>> /\ e.response_digest = answer[q].bytes
         => e.outcome = "ok"

\* What matches and where the rest goes is the same in both systems.
SameMatching(s, t) ==
  /\ Len(s.routes) = Len(t.routes) /\ s.default_route = t.default_route
  /\ \A i \in DOMAIN s.routes : s.routes[i].matcher = t.routes[i].matcher

ModelOf(snap, in) == RouteOf(snap.systems[snap.keys[in.key].system_id], in.facts).model_id
BoundAlike(in) ==
  /\ in.key \in DOMAIN reload.prev.keys /\ in.key \in DOMAIN reload.next.keys
  /\ reload.prev.keys[in.key].system_id = reload.next.keys[in.key].system_id

\* A reload that sends a request of a system to another model is reported as a
\* candidate for a substantial modification of it, or the matching has changed.
ModelSwapIsFlagged ==
  \A in \in Inputs :
    BoundAlike(in) /\ ModelOf(reload.prev, in) # ModelOf(reload.next, in) =>
      LET id == reload.prev.keys[in.key].system_id IN
      \/ \E c \in SubstantialCandidates(reload.outcome) : c.system_id = id
      \/ /\ ~ SameMatching(reload.prev.systems[id], reload.next.systems[id])
         /\ Len(reload.prev.systems[id].routes) = Len(reload.next.systems[id].routes)

(* What does not hold; the runs that show it are in the README. *)

\* A request that was sent to a provider leaves an event.
SentIsRecorded ==
  \A q \in Requests : pc[q] = "closed" /\ ~ admitted[q].cold => events[q] # <<>>

\* An answer that was passed on to its end was not interrupted.
WholeIsNotInterrupted ==
  \A q \in Requests : \A i \in DOMAIN events[q] :
    answer[q].sized /\ events[q][i].response_digest = answer[q].bytes =>
      events[q][i].outcome # "interrupted"

\* An event names a model, an alias or the unknown: "Never empty, never NULL"
\* (ServedBy), "never an empty string" (finish).
ModelVersionNeverEmpty ==
  \A q \in Requests : \A i \in DOMAIN events[q] :
    events[q][i].pins.model_version[1] # "empty"

\* The tenant of an event is that of the configuration its pins are from.
TenantOfTheAdmission ==
  \A q \in Requests : \A i \in DOMAIN events[q] :
    events[q][i].tenant_id = admitted[q].snap.keys[input[q].key].tenant_id

\* Nothing of a request is dropped on the way to the provider.
TranslatedFaithfully ==
  \A q \in Requests : pc[q] = "sending" => sent[q] = input[q].fields

\* A reload that sends a request to another model reports a change.
ModelSwapIsReported ==
  \A in \in Inputs :
    BoundAlike(in) /\ ModelOf(reload.prev, in) # ModelOf(reload.next, in) =>
      reload.outcome.changes # {}
=============================================================================
