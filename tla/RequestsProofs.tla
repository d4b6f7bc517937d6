--------------------------- MODULE RequestsProofs ---------------------------
(***************************************************************************)
(* One event per answer, and the pins of an event are those of the         *)
(* admission: for every set of requests, configurations and answers.       *)
(***************************************************************************)
EXTENDS Requests, SequenceTheorems, WellFoundedInduction, TLAPS

\* Functions over the requests, as opposed to what an EXCEPT leaves of anything.
ReqShape ==
  /\ events = [q \in Requests |-> events[q]]
  /\ pins = [q \in Requests |-> pins[q]]
  /\ admitted = [q \in Requests |-> admitted[q]]
  /\ tapped = [q \in Requests |-> tapped[q]]

\* A body has its tap until its event is emitted; only an answer has a body.
Before == {"idle", "body", "refused", "resolved", "bound", "sending"}
TapOf(stage, given, body, emitted) ==
  /\ stage \in Before => given = NoAnswer
  /\ stage \in {"streaming", "ended"} => given # NoAnswer
  /\ given = NoAnswer => emitted = <<>>
  /\ given # NoAnswer => /\ body.tap => emitted = <<>>
                         /\ ~ body.tap => \E e : emitted = <<e>>
                         /\ stage = "closed" => ~ body.tap
TapOrEvent == \A q \in Requests : TapOf(pc[q], answer[q], tapped[q], events[q])

\* From the resolution on, the pins are those of what was loaded then.
PinsAreResolved ==
  \A q \in Requests :
    pc[q] \in {"resolved", "bound", "sending", "streaming", "ended"} =>
      pins[q] = Resolve(admitted[q], input[q])

\* EventPinsTheAdmission, of one event of a request that was resolved to p.
PinnedAs(p, e) ==
  e.pins = [p EXCEPT !.model_version = e.pins.model_version,
                     !.risk_flags = @ \union (e.pins.risk_flags \intersect {"UnpinnedModel"})]
EventsPinned ==
  \A q \in Requests : \A i \in DOMAIN events[q] : PinnedAs(Resolve(admitted[q], input[q]), events[q][i])

ReqInv == ReqTypeOK /\ ReqShape /\ TapOrEvent /\ PinsAreResolved /\ EventsPinned

-----------------------------------------------------------------------------
\* A chunk leaves the tap where it is (observe takes nothing).
LEMMA ObserveKeepsTap ==
  ASSUME NEW q \in Requests, NEW n, DOMAIN tapped[q] = DOMAIN NewBody, tapped[q].tap \in BOOLEAN
  PROVE  DOMAIN Observe(q, n) = DOMAIN NewBody /\ Observe(q, n).tap = tapped[q].tap
  BY DEF Observe, NewBody

\* An event has the pins of the request, but for what the provider decides.
LEMMA EventKeepsPins ==
  ASSUME NEW q \in Requests, NEW body, NEW outcome, pins[q] = Resolve(admitted[q], input[q])
  PROVE  PinnedAs(Resolve(admitted[q], input[q]), Event(q, body, outcome))
<1> DEFINE p == Resolve(admitted[q], input[q])
           served == ServedBy(q, body)
           F == IF served.flag THEN {"UnpinnedModel"} ELSE {}
           e == Event(q, body, outcome).pins
<1>1. e = [p EXCEPT !.model_version = served.model_version, !.risk_flags = p.risk_flags \union F]
  BY DEF Event
<1>2. p.risk_flags \subseteq {"StaleConfig", "PinOverridden"}
  BY DEF Resolve
<1>3. e.model_version = served.model_version /\ e.risk_flags = p.risk_flags \union F
  <2>1. {"model_version", "risk_flags"} \subseteq DOMAIN p
    BY DEF Resolve
  <2> HIDE DEF p, e, F, served
  <2> QED BY <1>1, <2>1
<1>4. p.risk_flags \union (e.risk_flags \intersect {"UnpinnedModel"}) = p.risk_flags \union F
  BY <1>2, <1>3
<1> HIDE DEF p, e, F, served
<1>5. e = [p EXCEPT !.model_version = e.model_version,
                    !.risk_flags = p.risk_flags \union (e.risk_flags \intersect {"UnpinnedModel"})]
  BY <1>1, <1>3, <1>4
<1> QED BY <1>5 DEF PinnedAs, p, e

-----------------------------------------------------------------------------
\* Initially nothing is answered, tapped off or emitted.
LEMMA ReqInitially == ReqInit => ReqInv
<1> SUFFICES ASSUME ReqInit PROVE ReqInv
  OBVIOUS
<1>1. ReqTypeOK
  BY DEF ReqInit, ReqTypeOK, ReqStages, NewBody
<1>2. ReqShape
  BY DEF ReqInit, ReqShape
<1>3. TapOrEvent /\ PinsAreResolved
  BY DEF ReqInit, TapOrEvent, TapOf, PinsAreResolved, Before
<1>4. EventsPinned
  <2>1. \A q \in Requests : DOMAIN events[q] = {}
    BY DEF ReqInit
  <2> QED BY <2>1 DEF EventsPinned
<1> QED BY <1>1, <1>2, <1>3, <1>4 DEF ReqInv

\* `finish' appends the event of a body that has its tap, and takes the tap: the
\* parts of the invariant about the body and its event, after any ending.
LEMMA FinishOnce ==
  ASSUME ReqInv, NEW q \in Requests, NEW body, NEW outcome,
         DOMAIN body = DOMAIN NewBody, body.tap = tapped[q].tap,
         pc[q] \in {"streaming", "ended"},
         Finish(q, body, outcome), UNCHANGED <<config, context, answer>>,
         pc' \in [Requests -> ReqStages],
         \A r \in Requests \ {q} : pc'[r] = pc[r],
         pc'[q] \in {"streaming", "ended", "closed"}
  PROVE  ReqInv'
<1> USE DEF ReqInv
<1>1. /\ answer[q] # NoAnswer
      /\ tapped[q].tap \in BOOLEAN
      /\ tapped[q].tap => events[q] = <<>>
      /\ ~ tapped[q].tap => \E e : events[q] = <<e>>
  BY DEF TapOrEvent, TapOf, ReqTypeOK
<1>2. \A r \in Requests \ {q} : tapped'[r] = tapped[r] /\ events'[r] = events[r]
  BY DEF Finish, ReqShape
<1>3. /\ tapped'[q] = [body EXCEPT !.tap = FALSE]
      /\ tapped'[q].tap = FALSE
      /\ DOMAIN tapped'[q] = DOMAIN NewBody
  BY DEF Finish, ReqShape, NewBody
<1>4. events'[q] = IF body.tap THEN <<Event(q, body, outcome)>> ELSE events[q]
  <2>1. events'[q] = IF body.tap THEN Append(events[q], Event(q, body, outcome)) ELSE events[q]
    BY DEF Finish, ReqShape
  <2>2. Append(<<>>, Event(q, body, outcome)) = <<Event(q, body, outcome)>>
    OBVIOUS
  <2> QED BY <1>1, <2>1, <2>2
<1>5. ReqTypeOK'
  BY <1>2, <1>3 DEF ReqTypeOK, Finish, config, context
<1>6. ReqShape'
  BY DEF ReqShape, ReqTypeOK, Finish, context
<1>7. TapOrEvent'
  <2>1. \E e : events'[q] = <<e>>
    BY <1>1, <1>4
  <2>2. ASSUME NEW r \in Requests, r # q
        PROVE  answer'[r] = answer[r] /\ pc'[r] = pc[r] /\ tapped'[r] = tapped[r] /\ events'[r] = events[r]
    BY <1>2, <2>2
  <2>3. answer'[q] # NoAnswer /\ pc'[q] \notin Before
    BY <1>1 DEF Before
  <2>4. TapOf(pc'[q], answer'[q], tapped'[q], events'[q])
    BY <1>3, <2>1, <2>3 DEF TapOf
  <2>5. ASSUME NEW r \in Requests, r # q
        PROVE  TapOf(pc'[r], answer'[r], tapped'[r], events'[r])
    <3>1. TapOf(pc[r], answer[r], tapped[r], events[r])
      BY DEF TapOrEvent
    <3> QED BY <2>2, <2>5, <3>1
  <2> QED BY <2>4, <2>5 DEF TapOrEvent
<1>8. PinsAreResolved'
  <2>1. ASSUME NEW r \in Requests, pc'[r] \in {"resolved", "bound", "sending", "streaming", "ended"}
        PROVE  pc[r] \in {"resolved", "bound", "sending", "streaming", "ended"}
    BY <2>1
  <2> QED BY <2>1 DEF PinsAreResolved, context
<1>9. EventsPinned'
  <2>1. admitted' = admitted /\ input' = input
    BY DEF context
  <2> SUFFICES ASSUME NEW r \in Requests, NEW i \in DOMAIN events'[r]
               PROVE  PinnedAs(Resolve(admitted[r], input[r]), events'[r][i])
    BY <2>1 DEF EventsPinned
  <2>2. CASE events'[r] = events[r]
    BY <2>2 DEF EventsPinned
  <2>3. CASE r = q /\ body.tap
    <3>1. events'[r][i] = Event(q, body, outcome)
      BY <2>3, <1>4
    <3>2. pins[q] = Resolve(admitted[q], input[q])
      BY DEF PinsAreResolved
    <3>3. PinnedAs(Resolve(admitted[q], input[q]), Event(q, body, outcome))
      BY <3>2, EventKeepsPins
    <3> QED BY <2>3, <3>1, <3>3
  <2> QED BY <2>2, <2>3, <1>1, <1>2, <1>4
<1> QED BY <1>5, <1>6, <1>7, <1>8, <1>9

\* Every step of the gateway keeps it.
LEMMA ReqStep == ReqInv /\ [ReqNext]_reqVars => ReqInv'
<1> SUFFICES ASSUME ReqInv, [ReqNext]_reqVars PROVE ReqInv'
  OBVIOUS
<1> USE DEF ReqInv
<1>1. CASE \/ \E spec \in Specs : \E envelope \in Arriving(spec) : Reload(envelope)
           \/ Expire \/ ConfirmFresh \/ UNCHANGED reqVars
  <2>1. UNCHANGED <<pc, context, answer, tapped, events>>
    BY <1>1 DEF Reload, Expire, ConfirmFresh, reqVars
  <2> QED BY <2>1 DEF context, ReqTypeOK, ReqShape, TapOrEvent, PinsAreResolved, EventsPinned
<1>2. ASSUME NEW q \in Requests, ResolvePins(q) PROVE ReqInv'
  <2>1. /\ pc \in [Requests -> ReqStages] /\ pc[q] = "body"
        /\ pc' = [pc EXCEPT ![q] = "resolved"] \/ pc' = [pc EXCEPT ![q] = "refused"]
        /\ UNCHANGED <<input, answer, tapped, events>>
    BY <1>2 DEF ResolvePins, Goes, ReqTypeOK
  <2>2. \/ /\ pc'[q] = "resolved"
           /\ pins' = [pins EXCEPT ![q] = Resolve(loaded, input[q])]
           /\ admitted' = [admitted EXCEPT ![q] = loaded]
        \/ pc'[q] = "refused" /\ UNCHANGED <<pins, admitted>>
    BY <1>2, <2>1 DEF ResolvePins, Goes
  <2>3. ReqTypeOK' /\ ReqShape'
    <3>1. "resolved" \in ReqStages /\ "refused" \in ReqStages
      BY DEF ReqStages
    <3>2. pc' \in [Requests -> ReqStages]
      BY <2>1, <3>1
    <3> QED BY <2>1, <2>2, <3>2 DEF ReqTypeOK, ReqShape
  <2>4. answer[q] = NoAnswer /\ events[q] = <<>>
    BY <2>1 DEF TapOrEvent, TapOf, Before
  <2>5. TapOrEvent'
    <3>1. ASSUME NEW r \in Requests PROVE TapOf(pc'[r], answer'[r], tapped'[r], events'[r])
      <4>1. TapOf(pc[r], answer[r], tapped[r], events[r])
        BY DEF TapOrEvent
      <4> QED BY <2>1, <2>4, <4>1 DEF TapOf, Before
    <3> QED BY <3>1 DEF TapOrEvent
  <2>6. \A r \in Requests \ {q} : pins'[r] = pins[r] /\ admitted'[r] = admitted[r] /\ pc'[r] = pc[r]
    BY <2>1, <2>2 DEF ReqShape
  <2>7. pc'[q] = "resolved" => pins'[q] = Resolve(admitted'[q], input'[q])
    BY <2>1, <2>2 DEF ReqShape
  <2>8. PinsAreResolved'
    BY <2>1, <2>2, <2>6, <2>7 DEF PinsAreResolved
  <2>9. EventsPinned'
    <3>1. DOMAIN events'[q] = {}
      BY <2>1, <2>4
    <3> QED BY <2>1, <2>6, <3>1 DEF EventsPinned
  <2> QED BY <2>3, <2>5, <2>8, <2>9
<1>3. ASSUME NEW q \in Requests,
             Admit(q) \/ BodyLost(q) \/ FindTenant(q) \/ Translate(q) \/ SendFails(q)
      PROVE  ReqInv'
  <2>1. /\ pc[q] \in Before
        /\ \E to \in {"body", "refused", "closed", "bound", "sending"} :
             /\ pc' = [pc EXCEPT ![q] = to]
             /\ to \in {"bound", "sending"} => pc[q] \in {"resolved", "bound"}
        /\ UNCHANGED <<input, pins, admitted, answer, tapped, events>>
    BY <1>3 DEF Admit, BodyLost, FindTenant, Translate, SendFails, Goes, Before, context
  <2>2. ReqTypeOK' /\ ReqShape' /\ EventsPinned'
    BY <2>1 DEF ReqTypeOK, ReqStages, ReqShape, EventsPinned
  <2>3. TapOrEvent'
    <3>1. ASSUME NEW r \in Requests PROVE TapOf(pc'[r], answer[r], tapped[r], events[r])
      <4>1. TapOf(pc[r], answer[r], tapped[r], events[r])
        BY DEF TapOrEvent
      <4>2. r = q => pc'[r] \notin {"streaming", "ended"}
        BY <2>1 DEF ReqTypeOK
      <4>3. r # q => pc'[r] = pc[r]
        BY <2>1 DEF ReqTypeOK
      <4>4. r = q => answer[r] = NoAnswer /\ events[r] = <<>>
        BY <2>1, <4>1 DEF TapOf
      <4> QED BY <4>1, <4>2, <4>3, <4>4 DEF TapOf
    <3> QED BY <2>1, <3>1 DEF TapOrEvent
  <2>4. PinsAreResolved'
    <3>1. ASSUME NEW r \in Requests, pc'[r] \in {"resolved", "bound", "sending", "streaming", "ended"}
          PROVE  pc[r] \in {"resolved", "bound", "sending", "streaming", "ended"}
      BY <2>1, <3>1 DEF ReqTypeOK
    <3> QED BY <2>1, <3>1 DEF PinsAreResolved
  <2> QED BY <2>2, <2>3, <2>4
<1>4. ASSUME NEW q \in Requests, NEW b \in Bodies, Answered(q, b) PROVE ReqInv'
  <2>1. /\ pc[q] = "sending" /\ pc' = [pc EXCEPT ![q] = "streaming"]
        /\ answer' = [answer EXCEPT ![q] = b] /\ tapped' = [tapped EXCEPT ![q] = NewBody]
        /\ UNCHANGED <<input, pins, admitted, events>>
    BY <1>4 DEF Answered, Goes, context
  <2>2. ReqTypeOK' /\ ReqShape' /\ EventsPinned'
    BY <2>1 DEF ReqTypeOK, ReqStages, ReqShape, EventsPinned, NewBody
  <2>3. TapOrEvent'
    <3>1. b # NoAnswer
      BY ReqAssumption
    <3>2. answer[q] = NoAnswer /\ events[q] = <<>>
      BY <2>1 DEF TapOrEvent, TapOf, Before
    <3>3. pc'[q] = "streaming" /\ answer'[q] = b /\ tapped'[q] = NewBody /\ events'[q] = <<>>
      BY <2>1, <3>2 DEF ReqTypeOK
    <3>4. TapOf(pc'[q], answer'[q], tapped'[q], events'[q])
      BY <3>1, <3>3 DEF TapOf, Before, NewBody
    <3>5. ASSUME NEW r \in Requests, r # q PROVE TapOf(pc'[r], answer'[r], tapped'[r], events'[r])
      <4>1. TapOf(pc[r], answer[r], tapped[r], events[r])
        BY DEF TapOrEvent
      <4> QED BY <2>1, <3>5, <4>1 DEF ReqTypeOK
    <3> QED BY <3>4, <3>5 DEF TapOrEvent
  <2>4. PinsAreResolved'
    BY <2>1 DEF PinsAreResolved, ReqTypeOK
  <2> QED BY <2>2, <2>3, <2>4
<1>5. ASSUME NEW q \in Requests, NEW n, Frame(q, n) PROVE ReqInv'
  <2>1. /\ pc[q] = "streaming"
        /\ UNCHANGED <<config, pc, context, answer>>
        /\ DOMAIN Observe(q, n) = DOMAIN NewBody /\ Observe(q, n).tap = tapped[q].tap
    BY <1>5, ObserveKeepsTap DEF Frame, ReqTypeOK
  <2>2. CASE IsEndStream(q, tapped[q].at + n)
    <3>1. Finish(q, Observe(q, n), "ok")
      BY <1>5, <2>2 DEF Frame
    <3>2. pc' \in [Requests -> ReqStages] /\ \A r \in Requests \ {q} : pc'[r] = pc[r]
      BY <2>1 DEF ReqTypeOK
    <3> HIDE DEF ReqInv
    <3> QED BY <2>1, <3>1, <3>2, FinishOnce
  <2>3. CASE ~ IsEndStream(q, tapped[q].at + n)
    <3>1. tapped' = [tapped EXCEPT ![q] = Observe(q, n)] /\ UNCHANGED events
      BY <1>5, <2>3 DEF Frame
    <3>2. \A r \in Requests : DOMAIN tapped'[r] = DOMAIN NewBody /\ tapped'[r].tap = tapped[r].tap
      BY <2>1, <3>1 DEF ReqTypeOK
    <3>3. ReqTypeOK' /\ ReqShape' /\ EventsPinned' /\ PinsAreResolved'
      BY <2>1, <3>1, <3>2 DEF ReqTypeOK, ReqShape, EventsPinned, PinsAreResolved, context
    <3>4. ASSUME NEW r \in Requests PROVE TapOf(pc'[r], answer'[r], tapped'[r], events'[r])
      <4>1. TapOf(pc[r], answer[r], tapped[r], events[r])
        BY DEF TapOrEvent
      <4> QED BY <2>1, <3>1, <3>2, <4>1 DEF TapOf
    <3> QED BY <3>3, <3>4 DEF TapOrEvent
  <2> QED BY <2>2, <2>3
<1>6. ASSUME NEW q \in Requests, EndOfBody(q) \/ BodyFails(q) \/ Drop(q) PROVE ReqInv'
  <2>1. PICK outcome \in {"ok", "error", "interrupted"} :
          Finish(q, tapped[q], outcome)
    BY <1>6 DEF EndOfBody, BodyFails, Drop
  <2>2. /\ pc[q] \in {"streaming", "ended"}
        /\ pc' = [pc EXCEPT ![q] = "ended"] \/ pc' = [pc EXCEPT ![q] = "closed"]
        /\ UNCHANGED <<config, context, answer>>
    BY <1>6 DEF EndOfBody, BodyFails, Drop, Goes
  <2>3. /\ pc' \in [Requests -> ReqStages] /\ \A r \in Requests \ {q} : pc'[r] = pc[r]
        /\ pc'[q] \in {"streaming", "ended", "closed"}
    BY <2>2 DEF ReqTypeOK, ReqStages
  <2>4. DOMAIN tapped[q] = DOMAIN NewBody
    BY DEF ReqTypeOK
  <2> HIDE DEF ReqInv
  <2> QED BY <2>1, <2>2, <2>3, <2>4, FinishOnce
<1> QED BY <1>1, <1>2, <1>3, <1>4, <1>5, <1>6 DEF ReqNext

-----------------------------------------------------------------------------
\* The invariant holds of every behaviour of the request path.
LEMMA ReqInvariant == ReqSpec => []ReqInv
BY ReqInitially, ReqStep, PTL DEF ReqSpec

\* The stages, the bodies and their taps are as the code has them.
THEOREM RequestsTypeCorrect == ReqSpec => []ReqTypeOK
<1>1. ReqInv => ReqTypeOK
  BY DEF ReqInv
<1> QED BY <1>1, ReqInvariant, PTL

\* Exactly one event for every answer that was handed on, when its body is gone:
\* whether the end was flagged, polled, an error or a drop (finish takes the tap).
THEOREM OneEvent == ReqSpec => []OneEventPerAnswer
<1>1. ReqInv => OneEventPerAnswer
  <2> SUFFICES ASSUME ReqInv, NEW q \in Requests
               PROVE  /\ Len(events[q]) <= 1
                      /\ pc[q] = "closed" => (events[q] # <<>> <=> answer[q] # NoAnswer)
                      /\ pc[q] \in Before => events[q] = <<>>
    BY DEF OneEventPerAnswer, Before
  <2>1. TapOf(pc[q], answer[q], tapped[q], events[q]) /\ tapped[q].tap \in BOOLEAN
    BY DEF ReqInv, TapOrEvent, ReqTypeOK
  <2>2. events[q] = <<>> \/ \E e : events[q] = <<e>>
    BY <2>1 DEF TapOf
  <2>3. Len(events[q]) <= 1
    <3>1. CASE events[q] = <<>>
      BY <3>1
    <3>2. ASSUME NEW e, events[q] = <<e>> PROVE Len(events[q]) <= 1
      <4>1. Len(<<e>>) = 1
        OBVIOUS
      <4> QED BY <3>2, <4>1
    <3> QED BY <2>2, <3>1, <3>2
  <2>4. ASSUME NEW e PROVE <<e>> # <<>>
    <3>1. Len(<<e>>) = 1 /\ Len(<<>>) = 0
      OBVIOUS
    <3> QED BY <3>1
  <2> QED BY <2>1, <2>3, <2>4 DEF TapOf
<1> QED BY <1>1, ReqInvariant, PTL

\* Whatever is installed while an answer streams, its event has the pins of the
\* configuration that was loaded at the admission ("Resolved once").
THEOREM PinnedOnce == ReqSpec => []EventPinsTheAdmission
<1>1. ReqInv => EventPinsTheAdmission
  BY DEF ReqInv, EventsPinned, EventPinsTheAdmission, PinnedAs
<1> QED BY <1>1, ReqInvariant, PTL
-----------------------------------------------------------------------------
(* What is installed was published as one whole.                           *)

\* A specification that one of Specs differs from in its generation at most.
PublishedAs(spec, original) ==
  /\ spec.gateway_version = original.gateway_version
  /\ spec.systems = original.systems /\ spec.keys = original.keys
  /\ spec.generation \in 1 .. MaxReloads
  /\ BuildErrors(spec) = {}

\* A snapshot is the placeholder of a cold start, or one of what was published.
LoadedIsPublished ==
  /\ DOMAIN loaded = DOMAIN Cold
  /\ loaded.snap.generation \in 0 .. MaxReloads
  /\ ~ loaded.cold => \E original \in Specs : \E spec :
                         PublishedAs(spec, original) /\ loaded.snap = Snapshot(spec)

\* EventNamesWhatWasPublished, of pins.
NamesPublished(p) ==
  \E spec \in Specs :
    /\ p.config_hash = ContentHash(spec) /\ p.gateway_version = spec.gateway_version
    /\ \E s \in DOMAIN spec.systems :
         /\ p.system_id = spec.systems[s].system_id
         /\ p.risk_class = spec.systems[s].risk_class
         /\ p.policy_version = spec.systems[s].policy_version
         /\ \E r \in DOMAIN spec.systems[s].routes :
              /\ p.model_id = spec.systems[s].routes[r].model_id
              /\ p.prompt_id = spec.systems[s].routes[r].prompt_id
    /\ p.config_generation \in 1 .. MaxReloads

\* So does what a request is resolved to, from the resolution to its event.
AdmissionIsPublished ==
  \A q \in Requests :
    pc[q] \in {"resolved", "bound", "sending", "streaming", "ended"} \/ events[q] # <<>> =>
      NamesPublished(Resolve(admitted[q], input[q]))

PublishedInv == LoadedIsPublished /\ AdmissionIsPublished

\* The first of the routes that match is one of them.
LEMMA LeastOfNaturals ==
  ASSUME NEW S, S \subseteq Nat, S # {}
  PROVE  \E i \in S : \A j \in S : i <= j
<1>1. PICK i \in S : \A j \in S : ~ (<<j, i>> \in OpToRel(<, Nat))
  BY NatLessThanWellFounded, WFMin
<1>2. ASSUME NEW j \in S PROVE i <= j
  <2>1. i \in Nat /\ j \in Nat
    OBVIOUS
  <2>2. ~ (j < i)
    BY <1>1, <2>1 DEF OpToRel
  <2> QED BY <2>1, <2>2
<1> QED BY <1>2

\* A request resolves to a route that its system has: one that matches, or the
\* default, which a system that builds has.
LEMMA RouteIsARoute ==
  ASSUME NEW system, DOMAIN system.routes \subseteq Nat,
         system.default_route \in DOMAIN system.routes, NEW facts
  PROVE  \E r \in DOMAIN system.routes : RouteOf(system, facts) = system.routes[r]
<1> DEFINE matching == {i \in DOMAIN system.routes : Matches(system.routes[i].matcher, facts)}
<1>1. CASE matching = {}
  BY <1>1 DEF RouteOf
<1>2. CASE matching # {}
  <2>1. \E i \in matching : \A j \in matching : i <= j
    BY <1>2, LeastOfNaturals
  <2>2. (CHOOSE i \in matching : \A j \in matching : i <= j) \in matching
    BY <2>1
  <2> QED BY <1>2, <2>2 DEF RouteOf
<1> QED BY <1>1, <1>2

\* A system that builds has its default route.
LEMMA BuiltHasDefault ==
  ASSUME NEW spec, BuildErrors(spec) = {}, NEW i \in DOMAIN spec.systems
  PROVE  spec.systems[i].default_route \in DOMAIN spec.systems[i].routes
<1>1. SystemError(spec.systems, i) = None
  BY DEF BuildErrors
<1> QED BY <1>1 DEF SystemError, None

\* What resolves under a published snapshot names what was published.
LEMMA ResolvedIsPublished ==
  ASSUME LoadedIsPublished, NEW req, ResolveError(loaded, FailClosed, req) = None
  PROVE  NamesPublished(Resolve(loaded, req))
<1> DEFINE snap == loaded.snap
           id == snap.keys[req.key].system_id
<1>1. ~ loaded.cold /\ req.key \in DOMAIN snap.keys /\ id \in DOMAIN snap.systems
  BY DEF ResolveError, None
<1>2. PICK original \in Specs : \E spec : PublishedAs(spec, original) /\ snap = Snapshot(spec)
  BY <1>1 DEF LoadedIsPublished
<1>3. PICK spec : PublishedAs(spec, original) /\ snap = Snapshot(spec)
  BY <1>2
<1>4. /\ snap.generation = spec.generation /\ snap.content_hash = ContentHash(spec)
      /\ snap.gateway_version = spec.gateway_version
      /\ snap.systems = [name \in SystemIds(spec.systems) |->
           spec.systems[CHOOSE i \in DOMAIN spec.systems : spec.systems[i].system_id = name]]
  BY <1>3 DEF Snapshot
<1>5. PICK s \in DOMAIN spec.systems : snap.systems[id] = spec.systems[s]
  <2>1. id \in SystemIds(spec.systems)
    BY <1>1, <1>4
  <2>2. \E i \in DOMAIN spec.systems : spec.systems[i].system_id = id
    BY <2>1 DEF SystemIds
  <2>3. (CHOOSE i \in DOMAIN spec.systems : spec.systems[i].system_id = id) \in DOMAIN spec.systems
    BY <2>2
  <2>4. snap.systems[id] = spec.systems[CHOOSE i \in DOMAIN spec.systems : spec.systems[i].system_id = id]
    BY <1>4, <2>1
  <2> QED BY <2>3, <2>4
<1>6. PICK r \in DOMAIN spec.systems[s].routes :
        RouteOf(spec.systems[s], req.facts) = spec.systems[s].routes[r]
  <2>1. DOMAIN spec.systems[s].routes \subseteq Nat
    <3>1. IsSequence(spec.systems[s].routes)
      BY <1>2, <1>3, ReqAssumption DEF PublishedAs
    <3> QED BY <3>1 DEF IsSequence
  <2>2. spec.systems[s].default_route \in DOMAIN spec.systems[s].routes
    BY <1>3, BuiltHasDefault DEF PublishedAs
  <2> QED BY <2>1, <2>2, RouteIsARoute
<1>7. LET p == Resolve(loaded, req) IN
      /\ p.config_hash = ContentHash(spec) /\ p.gateway_version = spec.gateway_version
      /\ p.config_generation = spec.generation
      /\ p.system_id = spec.systems[s].system_id
      /\ p.risk_class = spec.systems[s].risk_class
      /\ p.policy_version = spec.systems[s].policy_version
      /\ p.model_id = spec.systems[s].routes[r].model_id
      /\ p.prompt_id = spec.systems[s].routes[r].prompt_id
  BY <1>4, <1>5, <1>6 DEF Resolve
<1>8. /\ ContentHash(spec) = ContentHash(original) /\ spec.systems = original.systems
      /\ spec.gateway_version = original.gateway_version /\ spec.generation \in 1 .. MaxReloads
  BY <1>3 DEF PublishedAs, ContentHash
<1> HIDE DEF snap, id
<1> QED BY <1>7, <1>8 DEF NamesPublished

\* What the provider decides about the pins is nothing of the configuration.
LEMMA ProviderNamesNothing ==
  ASSUME NEW l, NEW req, NEW e, PinnedAs(Resolve(l, req), e), NamesPublished(Resolve(l, req))
  PROVE  NamesPublished(e.pins)
<1> DEFINE p == Resolve(l, req)
<1>1. DOMAIN p = {"config_generation", "config_hash", "gateway_version", "system_id", "system_version",
                  "ifu_version", "policy_id", "policy_version", "risk_class", "model_id", "prompt_id",
                  "model_version", "prompt_version", "resolved_stale", "risk_flags"}
  BY DEF Resolve
<1> HIDE DEF p
<1>2. \A f \in DOMAIN p \ {"model_version", "risk_flags"} : e.pins[f] = p[f]
  <2>1. e.pins = [p EXCEPT !.model_version = e.pins.model_version,
                           !.risk_flags = @ \union (e.pins.risk_flags \intersect {"UnpinnedModel"})]
    BY DEF PinnedAs, p
  <2> QED BY <2>1
<1>3. /\ e.pins.config_hash = p.config_hash /\ e.pins.gateway_version = p.gateway_version
      /\ e.pins.system_id = p.system_id /\ e.pins.risk_class = p.risk_class
      /\ e.pins.policy_version = p.policy_version /\ e.pins.model_id = p.model_id
      /\ e.pins.prompt_id = p.prompt_id /\ e.pins.config_generation = p.config_generation
  BY <1>1, <1>2
<1>4. NamesPublished(p)
  BY DEF p
<1> QED BY <1>3, <1>4 DEF NamesPublished

\* Of what arrives, only what was sealed verifies: it is the next generation.
LEMMA InstalledIsPublished ==
  ASSUME LoadedIsPublished, loaded.snap.generation < MaxReloads,
         NEW original \in Specs, NEW envelope \in Arriving(original), NEW next \in Install(envelope)
  PROVE  PublishedAs(envelope.spec, original) /\ next = Snapshot(envelope.spec)
<1> DEFINE numbered == [original EXCEPT !.generation = loaded.snap.generation + 1]
           sealed == SealNow(numbered)
<1>1. /\ Verified(envelope) /\ BuildErrors(envelope.spec) = {} /\ next = Snapshot(envelope.spec)
  BY DEF Install
<1>2. /\ sealed.generation = loaded.snap.generation + 1
      /\ sealed.content_hash = ContentHash(original)
      /\ sealed.spec = numbered
  BY ReqAssumption DEF SealNow, Seal, ContentHash
<1>3. /\ envelope.generation = loaded.snap.generation + 1
      /\ envelope.content_hash = ContentHash(original)
  BY <1>2 DEF Arriving, SealNow, Seal
<1>4. ContentHash(envelope.spec) = ContentHash(original)
      /\ envelope.spec.generation = loaded.snap.generation + 1
  BY <1>1, <1>3 DEF Verified
<1>5. /\ envelope.spec.gateway_version = original.gateway_version
      /\ envelope.spec.systems = original.systems /\ envelope.spec.keys = original.keys
  BY <1>4 DEF ContentHash
<1>6. loaded.snap.generation + 1 \in 1 .. MaxReloads
  BY ReqAssumption DEF LoadedIsPublished
<1> QED BY <1>1, <1>4, <1>5, <1>6 DEF PublishedAs

\* Initially nothing is installed and nothing is resolved.
LEMMA PublishedInitially == ReqInit => PublishedInv
<1> SUFFICES ASSUME ReqInit PROVE PublishedInv
  OBVIOUS
<1>1. LoadedIsPublished
  <2>1. loaded.cold /\ loaded.snap.generation = 0
    BY DEF ReqInit, Cold, EmptySnapshot
  <2> QED BY <2>1, ReqAssumption DEF ReqInit, LoadedIsPublished
<1>2. AdmissionIsPublished
  BY DEF ReqInit, AdmissionIsPublished
<1> QED BY <1>1, <1>2 DEF PublishedInv

\* A reload installs what was published, a resolution names what is installed,
\* and nothing else decides what a request is admitted under.
LEMMA PublishedStep == ReqInv /\ PublishedInv /\ [ReqNext]_reqVars => PublishedInv'
<1> SUFFICES ASSUME ReqInv, PublishedInv, [ReqNext]_reqVars PROVE PublishedInv'
  OBVIOUS
<1> USE DEF PublishedInv
<1>1. ASSUME NEW original \in Specs, NEW envelope \in Arriving(original), Reload(envelope)
      PROVE  PublishedInv'
  <2>1. PICK next \in Install(envelope) : loaded' = [snap |-> next, cold |-> FALSE, stale |-> FALSE]
    BY <1>1 DEF Reload
  <2>2. PublishedAs(envelope.spec, original) /\ next = Snapshot(envelope.spec)
    BY <1>1, InstalledIsPublished DEF Reload
  <2>3. next.generation \in 0 .. MaxReloads
    BY <2>2, ReqAssumption DEF Snapshot, PublishedAs
  <2>4. LoadedIsPublished'
    BY <2>1, <2>2, <2>3 DEF LoadedIsPublished, Cold
  <2>5. AdmissionIsPublished'
    BY <1>1 DEF Reload, context, AdmissionIsPublished
  <2> QED BY <2>4, <2>5
<1>2. CASE Expire \/ ConfirmFresh \/ UNCHANGED reqVars
  <2>1. loaded' = loaded \/ \E b \in BOOLEAN : loaded' = [loaded EXCEPT !.stale = b]
    BY <1>2 DEF Expire, ConfirmFresh, reqVars, config
  <2>2. LoadedIsPublished'
    <3>1. DOMAIN loaded = {"snap", "cold", "stale"}
      BY DEF LoadedIsPublished, Cold
    <3>2. DOMAIN loaded' = DOMAIN loaded /\ loaded'.snap = loaded.snap /\ loaded'.cold = loaded.cold
      BY <2>1, <3>1
    <3> QED BY <3>2 DEF LoadedIsPublished
  <2>3. AdmissionIsPublished'
    BY <1>2 DEF Expire, ConfirmFresh, reqVars, context, AdmissionIsPublished
  <2> QED BY <2>2, <2>3
<1>3. ASSUME NEW q \in Requests, ResolvePins(q) PROVE PublishedInv'
  <2>1. UNCHANGED <<loaded, input, events>> /\ pc[q] = "body"
    BY <1>3 DEF ResolvePins, Goes, config
  <2>2. LoadedIsPublished'
    BY <2>1 DEF LoadedIsPublished
  <2>3. events[q] = <<>>
    BY <2>1 DEF ReqInv, TapOrEvent, TapOf, Before
  <2>4. ASSUME NEW r \in Requests, r # q PROVE pc'[r] = pc[r] /\ admitted'[r] = admitted[r]
    BY <1>3, <2>4 DEF ResolvePins, Goes, ReqInv, ReqTypeOK, ReqShape
  <2>5. CASE ResolveError(loaded, FailClosed, input[q]) = None
    <3>1. admitted'[q] = loaded
      BY <1>3, <2>5 DEF ResolvePins, ReqInv, ReqShape
    <3>2. NamesPublished(Resolve(admitted'[q], input'[q]))
      BY <2>1, <2>5, <3>1, ResolvedIsPublished
    <3> QED BY <2>1, <2>2, <2>4, <3>2 DEF AdmissionIsPublished
  <2>6. CASE ResolveError(loaded, FailClosed, input[q]) # None
    <3>1. pc'[q] = "refused"
      BY <1>3, <2>6 DEF ResolvePins, Goes, ReqInv, ReqTypeOK
    <3> QED BY <2>1, <2>2, <2>3, <2>4, <3>1 DEF AdmissionIsPublished
  <2> QED BY <2>5, <2>6
<1>4. ASSUME NEW q \in Requests,
             \/ Admit(q) \/ BodyLost(q) \/ FindTenant(q) \/ Translate(q) \/ SendFails(q)
             \/ \E b \in Bodies : Answered(q, b)
      PROVE  PublishedInv'
  <2>1. /\ UNCHANGED <<loaded, input, admitted, events>>
        /\ \E from, to : /\ pc[q] = from /\ pc' = [pc EXCEPT ![q] = to]
                         /\ to \in {"resolved", "bound", "sending", "streaming", "ended"} =>
                              from \in {"resolved", "bound", "sending"}
    BY <1>4 DEF Admit, BodyLost, FindTenant, Translate, SendFails, Answered, Goes, config, context
  <2>2. LoadedIsPublished'
    BY <2>1 DEF LoadedIsPublished
  <2>3. ASSUME NEW r \in Requests, pc'[r] \in {"resolved", "bound", "sending", "streaming", "ended"}
        PROVE  pc[r] \in {"resolved", "bound", "sending", "streaming", "ended"}
    BY <2>1, <2>3 DEF ReqInv, ReqTypeOK
  <2> QED BY <2>1, <2>2, <2>3 DEF AdmissionIsPublished
<1>5. ASSUME NEW q \in Requests,
             \/ \E n \in 1 .. Len(answer[q].bytes) - tapped[q].at : Frame(q, n)
             \/ EndOfBody(q) \/ BodyFails(q) \/ Drop(q)
      PROVE  PublishedInv'
  <2>1. /\ UNCHANGED <<loaded, input, admitted>> /\ pc[q] \in {"streaming", "ended"}
        /\ pc' = pc \/ pc' = [pc EXCEPT ![q] = "ended"] \/ pc' = [pc EXCEPT ![q] = "closed"]
        /\ events' = events \/ \E e : events' = [events EXCEPT ![q] = e]
    BY <1>5 DEF Frame, EndOfBody, BodyFails, Drop, Finish, Goes, config, context
  <2>2. LoadedIsPublished'
    BY <2>1 DEF LoadedIsPublished
  <2>3. ASSUME NEW r \in Requests, r # q PROVE pc'[r] = pc[r] /\ events'[r] = events[r]
    BY <2>1, <2>3 DEF ReqInv, ReqTypeOK, ReqShape
  <2> QED BY <2>1, <2>2, <2>3 DEF AdmissionIsPublished
<1> QED BY <1>1, <1>2, <1>3, <1>4, <1>5 DEF ReqNext

\* Whatever is published, changed on its way and installed, an event names a
\* configuration that was published as one whole, by its hash, its generation,
\* its system and its route.
THEOREM EventsNamePublished == ReqSpec => []EventNamesWhatWasPublished
<1>1. ReqInv /\ PublishedInv => EventNamesWhatWasPublished
  <2> SUFFICES ASSUME ReqInv, PublishedInv, NEW q \in Requests, NEW i \in DOMAIN events[q]
               PROVE  NamesPublished(events[q][i].pins)
    BY DEF EventNamesWhatWasPublished, NamesPublished
  <2> DEFINE p == Resolve(admitted[q], input[q])
  <2>1. events[q] # <<>>
    <3>1. DOMAIN <<>> = {}
      OBVIOUS
    <3> QED BY <3>1
  <2>2. NamesPublished(p)
    BY <2>1 DEF PublishedInv, AdmissionIsPublished
  <2>3. PinnedAs(p, events[q][i])
    BY DEF ReqInv, EventsPinned
  <2> QED BY <2>2, <2>3, ProviderNamesNothing
<1>2. ReqSpec => []PublishedInv
  BY PublishedInitially, PublishedStep, ReqInvariant, PTL DEF ReqSpec
<1> QED BY <1>1, <1>2, ReqInvariant, PTL

-----------------------------------------------------------------------------
(* What an event says of the delivery.                                     *)

\* How far a body is; one of known length that has its tap is not at its end,
\* but for one without bytes, whose end is seen by the drop.
BodyOf(given, body) ==
  /\ IsSequence(given.bytes)
  /\ body.at \in 0 .. Len(given.bytes)
  /\ body.tap /\ given.sized /\ given.bytes # <<>> => body.at < Len(given.bytes)

\* OutcomeIsDelivery, of one event.
Tells(given, e) ==
  /\ e.outcome = "ok" => e.response_digest = given.bytes
  /\ given.sized /\ given.bytes # <<>> /\ e.response_digest = given.bytes => e.outcome = "ok"

DeliveryInv ==
  \A q \in Requests : /\ BodyOf(answer[q], tapped[q])
                      /\ \A i \in DOMAIN events[q] : Tells(answer[q], events[q][i])

\* What is delivered of a body is all of it exactly at its end.
LEMMA PrefixIsWhole ==
  ASSUME NEW s, IsSequence(s), NEW n \in 0 .. Len(s)
  PROVE  SubSeq(s, 1, n) = s <=> n = Len(s)
<1> DEFINE S == {s[i] : i \in DOMAIN s}
<1>1. s \in Seq(S)
  BY DEF IsSequence
<1> HIDE DEF S
<1>2. Len(SubSeq(s, 1, n)) = n
  BY <1>1, SubSeqProperties
<1>3. SubSeq(s, 1, Len(s)) = s
  BY <1>1, SubSeqFull
<1> QED BY <1>2, <1>3

\* A chunk moves the body on, and takes nothing.
LEMMA ObserveMoves ==
  ASSUME NEW q \in Requests, NEW n, DOMAIN tapped[q] = DOMAIN NewBody
  PROVE  Observe(q, n).at = tapped[q].at + n
  BY DEF Observe, NewBody

\* An event whose outcome says whether the body is at its end tells it.
LEMMA EndingTells ==
  ASSUME NEW q \in Requests, NEW body, NEW outcome,
         IsSequence(answer[q].bytes), body.at \in 0 .. Len(answer[q].bytes),
         outcome = "ok" => body.at = Len(answer[q].bytes),
         answer[q].sized /\ answer[q].bytes # <<>> /\ body.at = Len(answer[q].bytes) => outcome = "ok"
  PROVE  Tells(answer[q], Event(q, body, outcome))
<1>1. SubSeq(answer[q].bytes, 1, body.at) = answer[q].bytes <=> body.at = Len(answer[q].bytes)
  BY PrefixIsWhole
<1> QED BY <1>1 DEF Tells, Event

\* The ending of a body leaves a record that tells it.
LEMMA FinishTells ==
  ASSUME ReqInv, DeliveryInv, NEW q \in Requests, NEW body, NEW outcome,
         body.tap = tapped[q].tap, body.at \in 0 .. Len(answer[q].bytes),
         DOMAIN body = DOMAIN NewBody,
         body.tap /\ outcome = "ok" => body.at = Len(answer[q].bytes),
         body.tap /\ answer[q].sized /\ answer[q].bytes # <<>> /\ body.at = Len(answer[q].bytes)
           => outcome = "ok",
         pc[q] \in {"streaming", "ended"},
         Finish(q, body, outcome), UNCHANGED answer
  PROVE  DeliveryInv'
<1>1. IsSequence(answer[q].bytes)
  BY DEF DeliveryInv, BodyOf
<1>2. \A r \in Requests \ {q} : tapped'[r] = tapped[r] /\ events'[r] = events[r]
  BY DEF Finish, ReqInv, ReqShape
<1>3. tapped'[q].tap = FALSE /\ tapped'[q].at = body.at
  BY DEF Finish, ReqInv, ReqShape, NewBody
<1>4. BodyOf(answer'[q], tapped'[q])
  BY <1>1, <1>3 DEF BodyOf
<1>5. ASSUME NEW i \in DOMAIN events'[q] PROVE Tells(answer'[q], events'[q][i])
  <2>1. CASE body.tap
    <3>1. answer[q] # NoAnswer
      BY DEF ReqInv, TapOrEvent, TapOf
    <3>2. events[q] = <<>>
      BY <2>1, <3>1 DEF ReqInv, TapOrEvent, TapOf
    <3>3. events'[q] = Append(events[q], Event(q, body, outcome))
      BY <2>1 DEF Finish, ReqInv, ReqShape
    <3>4. events'[q] = <<Event(q, body, outcome)>>
      BY <3>2, <3>3
    <3>5. events'[q][i] = Event(q, body, outcome)
      BY <3>4
    <3>6. Tells(answer[q], Event(q, body, outcome))
      BY <1>1, <2>1, EndingTells
    <3> QED BY <3>5, <3>6
  <2>2. CASE ~ body.tap
    <3>1. events'[q] = events[q]
      BY <2>2 DEF Finish, ReqInv, ReqShape
    <3> QED BY <3>1 DEF DeliveryInv
  <2>3. body.tap \in BOOLEAN
    BY DEF ReqInv, ReqTypeOK
  <2> QED BY <2>1, <2>2, <2>3
<1> QED BY <1>2, <1>4, <1>5 DEF DeliveryInv

LEMMA DeliveryInitially == ReqInit => DeliveryInv
<1> SUFFICES ASSUME ReqInit, NEW q \in Requests
             PROVE  BodyOf(answer[q], tapped[q]) /\ DOMAIN events[q] = {}
  BY DEF DeliveryInv
<1>1. answer[q].bytes = <<>> /\ tapped[q].at = 0 /\ events[q] = <<>>
  BY DEF ReqInit, NoAnswer, NewBody
<1>2. IsSequence(<<>>)
  BY DEF IsSequence
<1> QED BY <1>1, <1>2 DEF BodyOf

\* A frame that reaches a known end is the last; whoever ends a body without it
\* has not delivered all of one of known length.
LEMMA DeliveryStep == ReqInv /\ DeliveryInv /\ [ReqNext]_reqVars => DeliveryInv'
<1> SUFFICES ASSUME ReqInv, DeliveryInv, [ReqNext]_reqVars PROVE DeliveryInv'
  OBVIOUS
<1>1. CASE UNCHANGED <<answer, tapped, events>>
  BY <1>1 DEF DeliveryInv
<1>2. ASSUME NEW q \in Requests, NEW b \in Bodies, Answered(q, b) PROVE DeliveryInv'
  <2>1. /\ pc[q] = "sending" /\ UNCHANGED events
        /\ answer' = [answer EXCEPT ![q] = b] /\ tapped' = [tapped EXCEPT ![q] = NewBody]
    BY <1>2 DEF Answered, Goes
  <2>2. answer'[q] = b /\ tapped'[q] = NewBody
    BY <2>1 DEF ReqInv, ReqTypeOK
  <2>3. \A r \in Requests \ {q} : answer'[r] = answer[r] /\ tapped'[r] = tapped[r]
    BY <2>1 DEF ReqInv, ReqTypeOK
  <2>4. DOMAIN events[q] = {}
    <3>1. events[q] = <<>>
      BY <2>1 DEF ReqInv, TapOrEvent, TapOf, Before
    <3> QED BY <3>1
  <2>5. BodyOf(b, NewBody)
    <3>1. IsSequence(b.bytes)
      BY ReqAssumption
    <3> DEFINE S == {b.bytes[i] : i \in DOMAIN b.bytes}
    <3>2. b.bytes \in Seq(S)
      BY <3>1 DEF IsSequence
    <3> HIDE DEF S
    <3>3. Len(b.bytes) \in Nat /\ (b.bytes # <<>> => Len(b.bytes) > 0)
      BY <3>2, EmptySeq
    <3> QED BY <3>1, <3>3 DEF BodyOf, NewBody
  <2> QED BY <2>1, <2>2, <2>3, <2>4, <2>5 DEF DeliveryInv
<1>3. ASSUME NEW q \in Requests, NEW n \in 1 .. Len(answer[q].bytes) - tapped[q].at, Frame(q, n)
      PROVE  DeliveryInv'
  <2>1. /\ pc[q] = "streaming" /\ UNCHANGED answer
        /\ DOMAIN Observe(q, n) = DOMAIN NewBody /\ Observe(q, n).tap = tapped[q].tap
        /\ Observe(q, n).at = tapped[q].at + n
    BY <1>3, ObserveKeepsTap, ObserveMoves DEF Frame, ReqInv, ReqTypeOK
  <2>2. /\ IsSequence(answer[q].bytes) /\ tapped[q].at \in 0 .. Len(answer[q].bytes)
        /\ Len(answer[q].bytes) \in Nat
    <3>1. BodyOf(answer[q], tapped[q])
      BY DEF DeliveryInv
    <3> DEFINE S == {answer[q].bytes[i] : i \in DOMAIN answer[q].bytes}
    <3>2. answer[q].bytes \in Seq(S)
      BY <3>1 DEF BodyOf, IsSequence
    <3> HIDE DEF S
    <3> QED BY <3>1, <3>2 DEF BodyOf
  <2>3. tapped[q].at + n \in 0 .. Len(answer[q].bytes)
    BY <2>2
  <2>4. CASE IsEndStream(q, tapped[q].at + n)
    <3>1. Finish(q, Observe(q, n), "ok") /\ tapped[q].at + n = Len(answer[q].bytes)
      BY <1>3, <2>4 DEF Frame, IsEndStream
    <3> QED BY <2>1, <2>3, <3>1, FinishTells
  <2>5. CASE ~ IsEndStream(q, tapped[q].at + n)
    <3>1. tapped' = [tapped EXCEPT ![q] = Observe(q, n)] /\ UNCHANGED events
      BY <1>3, <2>5 DEF Frame
    <3>2. tapped'[q] = Observe(q, n) /\ \A r \in Requests \ {q} : tapped'[r] = tapped[r]
      BY <3>1 DEF ReqInv, ReqTypeOK
    <3>3. BodyOf(answer[q], tapped'[q])
      BY <2>1, <2>2, <2>3, <2>5, <3>2 DEF BodyOf, IsEndStream
    <3> QED BY <2>1, <3>1, <3>2, <3>3 DEF DeliveryInv
  <2> QED BY <2>4, <2>5
<1>4. ASSUME NEW q \in Requests, EndOfBody(q) \/ BodyFails(q) \/ Drop(q) PROVE DeliveryInv'
  <2>1. /\ BodyOf(answer[q], tapped[q]) /\ tapped[q].tap \in BOOLEAN
        /\ DOMAIN tapped[q] = DOMAIN NewBody
    BY DEF DeliveryInv, ReqInv, ReqTypeOK
  <2>2. PICK outcome \in {"ok", "error", "interrupted"} :
          /\ Finish(q, tapped[q], outcome)
          /\ outcome = "ok" => tapped[q].at = Len(answer[q].bytes) /\ ~ answer[q].sized
          /\ pc[q] \in {"streaming", "ended"} /\ UNCHANGED answer
    BY <1>4 DEF EndOfBody, BodyFails, Drop, Goes
  <2>3. tapped[q].tap /\ answer[q].sized /\ answer[q].bytes # <<>>
          => tapped[q].at # Len(answer[q].bytes)
    BY <2>1 DEF BodyOf
  <2> QED BY <2>1, <2>2, <2>3, FinishTells DEF BodyOf
<1>5. ASSUME \/ \E spec \in Specs : \E envelope \in Arriving(spec) : Reload(envelope)
             \/ Expire \/ ConfirmFresh \/ UNCHANGED reqVars
             \/ \E q \in Requests : \/ Admit(q) \/ BodyLost(q) \/ ResolvePins(q) \/ FindTenant(q)
                                   \/ Translate(q) \/ SendFails(q)
      PROVE  UNCHANGED <<answer, tapped, events>>
  BY <1>5 DEF Reload, Expire, ConfirmFresh, reqVars, Admit, BodyLost, ResolvePins, FindTenant,
              Translate, SendFails
<1> QED BY <1>1, <1>2, <1>3, <1>4, <1>5 DEF ReqNext

\* An event that says ok tells of an answer that was passed on to its end, and
\* one of known length that was passed on to its end is never called interrupted
\* or an error, however the frames were cut and whoever polled or dropped last.
THEOREM OutcomeTellsDelivery == ReqSpec => []OutcomeIsDelivery
<1>1. DeliveryInv => OutcomeIsDelivery
  BY DEF DeliveryInv, Tells, OutcomeIsDelivery
<1>2. ReqSpec => []DeliveryInv
  BY DeliveryInitially, DeliveryStep, ReqInvariant, PTL DEF ReqSpec
<1> QED BY <1>1, <1>2, PTL

-----------------------------------------------------------------------------
(* What a reload reports.                                                  *)

\* A snapshot of a configuration that builds.
IsPublished(snap) ==
  \E original \in Specs : \E spec : PublishedAs(spec, original) /\ snap = Snapshot(spec)

\* The report compares the two snapshots, but for the first after a cold start,
\* which has none before it.
ReportInv ==
  /\ loaded.cold => loaded.snap = EmptySnapshot
  /\ \/ reload.prev = EmptySnapshot
     \/ /\ IsPublished(reload.prev) /\ IsPublished(reload.next)
        /\ reload.outcome = Diff(reload.prev, reload.next)

\* A key of a snapshot is bound to a system of it, which has its routes and
\* among them its default.
LEMMA BoundSystem ==
  ASSUME NEW snap, IsPublished(snap), NEW key \in DOMAIN snap.keys
  PROVE  LET id == snap.keys[key].system_id
         IN  /\ id \in DOMAIN snap.systems
             /\ IsSequence(snap.systems[id].routes)
             /\ snap.systems[id].default_route \in DOMAIN snap.systems[id].routes
<1>1. PICK original \in Specs : \E spec : PublishedAs(spec, original) /\ snap = Snapshot(spec)
  BY DEF IsPublished
<1>2. PICK spec : PublishedAs(spec, original) /\ snap = Snapshot(spec)
  BY <1>1
<1> DEFINE id == snap.keys[key].system_id
<1>3. PICK k \in DOMAIN spec.keys : id = spec.keys[k].system_id
  <2> DEFINE named == CHOOSE j \in DOMAIN spec.keys : spec.keys[j].key = key
  <2>1. snap.keys = [n \in {spec.keys[j].key : j \in DOMAIN spec.keys} |->
          LET j == CHOOSE j \in DOMAIN spec.keys : spec.keys[j].key = n
          IN  [tenant_id |-> spec.keys[j].tenant_id, system_id |-> spec.keys[j].system_id]]
    BY <1>2 DEF Snapshot
  <2>2. key \in {spec.keys[j].key : j \in DOMAIN spec.keys}
    BY <2>1
  <2>3. named \in DOMAIN spec.keys
    BY <2>2
  <2>4. id = spec.keys[named].system_id
    BY <2>1, <2>2
  <2> QED BY <2>3, <2>4
<1>4. id \in SystemIds(spec.systems)
  <2>1. KeyError(spec, k) = None
    BY <1>2, <1>3 DEF PublishedAs, BuildErrors
  <2> QED BY <1>3, <2>1 DEF KeyError, None
<1>5. PICK s \in DOMAIN spec.systems : snap.systems[id] = spec.systems[s] /\ id \in DOMAIN snap.systems
  <2>1. snap.systems = [name \in SystemIds(spec.systems) |->
          spec.systems[CHOOSE i \in DOMAIN spec.systems : spec.systems[i].system_id = name]]
    BY <1>2 DEF Snapshot
  <2>2. \E i \in DOMAIN spec.systems : spec.systems[i].system_id = id
    BY <1>4 DEF SystemIds
  <2>3. (CHOOSE i \in DOMAIN spec.systems : spec.systems[i].system_id = id) \in DOMAIN spec.systems
    BY <2>2
  <2>4. snap.systems[id] = spec.systems[CHOOSE i \in DOMAIN spec.systems : spec.systems[i].system_id = id]
    BY <1>4, <2>1
  <2> QED BY <1>4, <2>1, <2>3, <2>4
<1>6. IsSequence(spec.systems[s].routes)
  BY <1>1, <1>2, <1>5, ReqAssumption DEF PublishedAs
<1>7. spec.systems[s].default_route \in DOMAIN spec.systems[s].routes
  BY <1>2, BuiltHasDefault DEF PublishedAs
<1> HIDE DEF id
<1> QED BY <1>5, <1>6, <1>7 DEF id

\* The same matchers before routes of the same models give the same model.
LEMMA SameRoutesSameModel ==
  ASSUME NEW old, NEW new, NEW facts,
         IsSequence(old.routes), IsSequence(new.routes),
         old.default_route \in DOMAIN old.routes,
         SameMatching(old, new), ~ RoutesDifferOn(old, new, "model_id")
  PROVE  RouteOf(old, facts).model_id = RouteOf(new, facts).model_id
<1>1. DOMAIN old.routes = DOMAIN new.routes /\ DOMAIN old.routes \subseteq Nat
  <2>1. Len(old.routes) = Len(new.routes)
    BY DEF SameMatching
  <2> DEFINE S == {old.routes[i] : i \in DOMAIN old.routes}
             T == {new.routes[i] : i \in DOMAIN new.routes}
  <2>2. old.routes \in Seq(S) /\ new.routes \in Seq(T)
    BY DEF IsSequence
  <2> HIDE DEF S, T
  <2>3. DOMAIN old.routes = 1 .. Len(old.routes) /\ DOMAIN new.routes = 1 .. Len(new.routes)
        /\ Len(old.routes) \in Nat
    BY <2>2, LenProperties
  <2> QED BY <2>1, <2>3
<1>2. \A i \in DOMAIN old.routes : /\ old.routes[i].model_id = new.routes[i].model_id
                                 /\ old.routes[i].matcher = new.routes[i].matcher
  BY DEF SameMatching, RoutesDifferOn
<1> DEFINE matching(system) == {i \in DOMAIN system.routes : Matches(system.routes[i].matcher, facts)}
<1>3. matching(old) = matching(new)
  BY <1>1, <1>2
<1>4. CASE matching(old) = {}
  <2>1. /\ RouteOf(old, facts) = old.routes[old.default_route]
        /\ RouteOf(new, facts) = new.routes[new.default_route]
    BY <1>3, <1>4 DEF RouteOf
  <2>2. new.default_route = old.default_route
    BY DEF SameMatching
  <2> QED BY <1>2, <2>1, <2>2
<1>5. CASE matching(old) # {}
  <2> DEFINE first == CHOOSE i \in matching(old) : \A j \in matching(old) : i <= j
  <2>1. \E i \in matching(old) : \A j \in matching(old) : i <= j
    BY <1>1, <1>5, LeastOfNaturals
  <2>2. first \in matching(old)
    BY <2>1
  <2>3. RouteOf(old, facts) = old.routes[first]
    BY <1>5 DEF RouteOf
  <2>4. RouteOf(new, facts) = new.routes[CHOOSE i \in matching(new) : \A j \in matching(new) : i <= j]
    BY <1>3, <1>5 DEF RouteOf
  <2>5. RouteOf(new, facts) = new.routes[first]
    BY <1>3, <2>4
  <2> QED BY <1>2, <2>2, <2>3, <2>5
<1> QED BY <1>4, <1>5

\* Routes of other models are a substantial candidate of their system.
LEMMA OtherModelsAreFlagged ==
  ASSUME NEW prev, NEW next, NEW id \in DOMAIN prev.systems \intersect DOMAIN next.systems,
         RoutesDifferOn(prev.systems[id], next.systems[id], "model_id")
  PROVE  \E c \in SubstantialCandidates(Diff(prev, next)) : c.system_id = id
<1> DEFINE old == prev.systems[id]
           new == next.systems[id]
           c == [system_id |-> id, class |-> Classify(old, new), fields |-> ChangedFields(old, new)]
<1>1. Classify(old, new) = "Substantial"
  <2>1. RoutesDifferOn(old, new, "model_id")
    OBVIOUS
  <2> HIDE DEF old, new
  <2> QED BY <2>1 DEF Classify
<1>2. ChangedFields(old, new) # {}
  BY DEF ChangedFields, RouteFields
<1>3. c \in Diff(prev, next).changes
  BY <1>2 DEF Diff
<1> QED BY <1>1, <1>3 DEF SubstantialCandidates

LEMMA ReportInitially == ReqInit => ReportInv
BY DEF ReqInit, ReportInv, Cold, NoReload

\* A reload reports on what was loaded and what comes instead of it.
LEMMA ReportStep == PublishedInv /\ ReportInv /\ [ReqNext]_reqVars => ReportInv'
<1> SUFFICES ASSUME PublishedInv, ReportInv, [ReqNext]_reqVars PROVE ReportInv'
  OBVIOUS
<1>1. ASSUME NEW original \in Specs, NEW envelope \in Arriving(original), Reload(envelope)
      PROVE  ReportInv'
  <2>1. PICK next \in Install(envelope) :
          /\ loaded' = [snap |-> next, cold |-> FALSE, stale |-> FALSE]
          /\ reload' = [prev |-> loaded.snap, next |-> next,
                        outcome |-> IF loaded.cold THEN FirstSnapshot(next) ELSE Diff(loaded.snap, next)]
    BY <1>1 DEF Reload
  <2>2. IsPublished(next)
    BY <1>1, InstalledIsPublished DEF Reload, PublishedInv, IsPublished
  <2>3. CASE loaded.cold
    BY <2>1, <2>3 DEF ReportInv
  <2>4. CASE ~ loaded.cold
    <3>1. IsPublished(loaded.snap)
      BY <2>4 DEF PublishedInv, LoadedIsPublished, IsPublished
    <3> QED BY <2>1, <2>2, <2>4, <3>1 DEF ReportInv
  <2> QED BY <2>3, <2>4
<1>2. CASE Expire \/ ConfirmFresh
  <2>1. UNCHANGED reload /\ \E b \in BOOLEAN : loaded' = [loaded EXCEPT !.stale = b]
    BY <1>2 DEF Expire, ConfirmFresh
  <2>2. DOMAIN loaded = {"snap", "cold", "stale"}
    BY DEF PublishedInv, LoadedIsPublished, Cold
  <2>3. loaded'.snap = loaded.snap /\ loaded'.cold = loaded.cold
    BY <2>1, <2>2
  <2> QED BY <2>1, <2>3 DEF ReportInv
<1>3. CASE UNCHANGED config
  BY <1>3 DEF ReportInv, config
<1>4. ASSUME \/ UNCHANGED reqVars
             \/ \E q \in Requests :
                  \/ Admit(q) \/ BodyLost(q) \/ ResolvePins(q) \/ FindTenant(q) \/ Translate(q)
                  \/ SendFails(q) \/ (\E b \in Bodies : Answered(q, b))
                  \/ \E n \in 1 .. Len(answer[q].bytes) - tapped[q].at : Frame(q, n)
                  \/ EndOfBody(q) \/ BodyFails(q) \/ Drop(q)
      PROVE  UNCHANGED config
  BY <1>4 DEF reqVars, config, Admit, BodyLost, ResolvePins, FindTenant, Translate, SendFails,
              Answered, Frame, EndOfBody, BodyFails, Drop
<1> QED BY <1>1, <1>2, <1>3, <1>4 DEF ReqNext

\* A reload after which a request of a system runs on another model names the
\* system among the substantial candidates, unless another matcher decides; for
\* any two configurations that build, however many routes and systems they have.
THEOREM SwapsAreFlagged == ReqSpec => []ModelSwapIsFlagged
<1>1. ReportInv => ModelSwapIsFlagged
  <2> SUFFICES ASSUME ReportInv, NEW in \in Inputs, BoundAlike(in),
                      ModelOf(reload.prev, in) # ModelOf(reload.next, in),
                      NEW id, id = reload.prev.keys[in.key].system_id
               PROVE  \/ \E c \in SubstantialCandidates(reload.outcome) : c.system_id = id
                      \/ /\ ~ SameMatching(reload.prev.systems[id], reload.next.systems[id])
                         /\ Len(reload.prev.systems[id].routes) = Len(reload.next.systems[id].routes)
    BY DEF ModelSwapIsFlagged
  <2> DEFINE old == reload.prev.systems[id]
             new == reload.next.systems[id]
  <2>1. reload.prev # EmptySnapshot
    <3>1. DOMAIN EmptySnapshot.keys = {}
      BY DEF EmptySnapshot
    <3>2. in.key \in DOMAIN reload.prev.keys
      BY DEF BoundAlike
    <3> QED BY <3>1, <3>2
  <2>2. /\ IsPublished(reload.prev) /\ IsPublished(reload.next)
        /\ reload.outcome = Diff(reload.prev, reload.next)
    BY <2>1 DEF ReportInv
  <2>3. /\ in.key \in DOMAIN reload.prev.keys /\ in.key \in DOMAIN reload.next.keys
        /\ reload.next.keys[in.key].system_id = id
    BY DEF BoundAlike
  <2>4. /\ id \in DOMAIN reload.prev.systems /\ id \in DOMAIN reload.next.systems
        /\ IsSequence(old.routes) /\ IsSequence(new.routes)
        /\ old.default_route \in DOMAIN old.routes
    BY <2>2, <2>3, BoundSystem
  <2>5. CASE RoutesDifferOn(old, new, "model_id")
    <3>1. id \in DOMAIN reload.prev.systems \intersect DOMAIN reload.next.systems
      BY <2>4
    <3>2. \E c \in SubstantialCandidates(Diff(reload.prev, reload.next)) : c.system_id = id
      BY <2>5, <3>1, OtherModelsAreFlagged
    <3> QED BY <2>2, <3>2
  <2>6. CASE ~ RoutesDifferOn(old, new, "model_id")
    <3>1. RouteOf(old, in.facts).model_id # RouteOf(new, in.facts).model_id
      BY <2>3 DEF ModelOf
    <3>2. ~ SameMatching(old, new)
      <4> HIDE DEF old, new
      <4> QED BY <2>4, <2>6, <3>1, SameRoutesSameModel
    <3>3. Len(old.routes) = Len(new.routes)
      BY <2>6 DEF RoutesDifferOn
    <3> QED BY <3>2, <3>3
  <2> QED BY <2>5, <2>6
<1>2. ReqSpec => []PublishedInv
  BY PublishedInitially, PublishedStep, ReqInvariant, PTL DEF ReqSpec
<1>3. ReqSpec => []ReportInv
  BY <1>2, ReportInitially, ReportStep, PTL DEF ReqSpec
<1> QED BY <1>1, <1>3, PTL
=============================================================================
