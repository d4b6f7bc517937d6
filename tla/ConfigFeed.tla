----------------------------- MODULE ConfigFeed -----------------------------
(***************************************************************************)
(* How a gateway learns its configuration: one task polls the control      *)
(* plane, another watches the bus, and both install into the resolver, in  *)
(* parallel.  The resolver's snapshot and the moment it was confirmed are  *)
(* one pointer: each load and each store of it is a step.                  *)
(*                                                                         *)
(*   crates/ancre-gateway/src/config_feed.rs   poll_once, apply, record    *)
(*   crates/ancre-gateway/src/control.rs       the request, the watch      *)
(*   crates/ancre-gateway/src/main.rs          cold start, the tasks       *)
(*   crates/ancre-resolver/src/lib.rs          reload, confirm_fresh       *)
(*   crates/ancre-resolver/src/staleness.rs    the staleness budget        *)
(*                                                                         *)
(* The control plane and the stream are those of SnapshotPublisher.  Time  *)
(* is counted in ticks, from the events it is measured from, and up to the *)
(* first tick past the budget.                                             *)
(***************************************************************************)
EXTENDS SnapshotPublisher

CONSTANTS
  Paths,      \* the tasks a gateway runs: of "poll" and "bus"
  Budget,     \* StalenessPolicy::budget
  MaxBuffer   \* bound: messages the client buffers

Tasks == {"poll", "bus"}

ASSUME FeedParameters ==
  /\ Paths \subseteq Tasks
  /\ Budget \in Nat
  /\ MaxBuffer \in Nat \ {0}

VARIABLES
  loaded,   \* PinResolver::current, per gateway
  elapsed,  \* ticks since loaded_at
  lapsed,   \* history: lapsed[i] ticks since generation i was superseded
  contact,  \* history: ticks since the control plane answered a poll
  seen,     \* the stream sequence the watch has got to
  inbox,    \* messages the client of the watch has buffered
  feed      \* feed[g][p]: the task p of gateway g, and the locals of apply

feedVars == <<loaded, elapsed, contact, seen, inbox, feed>>
allVars == <<vars, feedVars, lapsed>>

Cold == Nothing
NoWork == [pc |-> "idle", next |-> Nothing, previous |-> Nothing, prev |-> Nothing]
Doing(g, p, pc) == feed[g][p].pc = pc
Become(g, p, work) == feed' = [feed EXCEPT ![g][p] = work]
IsCold(g) == loaded[g] = Cold

\* A tick more, until the budget is passed.
More(n) == IF n > Budget THEN n ELSE n + 1
Fresh(g) == ~IsCold(g) /\ elapsed[g] <= Budget

FeedInit ==
  /\ Init
  /\ loaded = [g \in Gateways |-> Cold]
  /\ elapsed = [g \in Gateways |-> 0]
  /\ lapsed = <<>>
  /\ contact = [g \in Gateways |-> 0]
  /\ seen = [g \in Gateways |-> 0]
  /\ inbox = [g \in Gateways |-> <<>>]
  /\ feed = [g \in Gateways |-> [p \in Tasks |-> NoWork]]

-----------------------------------------------------------------------------
(* poll_once *)

\* Cold start polls, whatever runs after it.  The handler of the request is
\* the gateway's task of SnapshotPublisher.
Ask(g) ==
  /\ "poll" \in Paths \/ IsCold(g)
  /\ Doing(g, "poll", "idle")
  /\ ReadSystems(g)
  /\ Become(g, "poll", [NoWork EXCEPT !.pc = "asked"])
  /\ UNCHANGED <<loaded, elapsed, lapsed, contact, seen, inbox>>

Handle(g) ==
  /\ ReadKeys(g) \/ Answer(g)
  /\ UNCHANGED <<feedVars, lapsed>>

\* The control plane refuses: it has no valid snapshot, or an unpublished one.
Refused(g) ==
  /\ Doing(g, "poll", "asked") /\ At(g, "idle")
  /\ Become(g, "poll", NoWork)
  /\ contact' = [contact EXCEPT ![g] = 0]
  /\ UNCHANGED <<vars, loaded, elapsed, lapsed, seen, inbox>>

(* A failed poll restarts the staleness clock.                              *)
UnreachableConfirms(g) ==
  /\ "unreachable" \in Faults
  /\ Doing(g, "poll", "asked")
  /\ Become(g, "poll", NoWork)
  /\ task' = [task EXCEPT ![g] = Idle]
  /\ elapsed' = [elapsed EXCEPT ![g] = 0]
  /\ UNCHANGED <<registry, edits, generations, bus, loaded, lapsed, contact, seen, inbox>>

Unreachable(g) ==
  /\ "unreachable" \in Faults
  /\ Doing(g, "poll", "asked")
  /\ Become(g, "poll", NoWork)
  /\ task' = [task EXCEPT ![g] = Idle]
  /\ UNCHANGED <<registry, edits, generations, bus, loaded, elapsed, lapsed,
                 contact, seen, inbox>>

(* Whatever is answered only confirms what is installed, once something is. *)
AnsweredConfirms(g) ==
  LET envelope == [gen |-> task[g].gen, content |-> task[g].content]
  IN /\ Doing(g, "poll", "asked") /\ At(g, "answered")
     /\ Become(g, "poll", [NoWork EXCEPT !.next = envelope,
                             !.pc = IF IsCold(g) THEN "apply" ELSE "confirm"])
     /\ task' = [task EXCEPT ![g] = Idle]
     /\ contact' = [contact EXCEPT ![g] = 0]
     /\ UNCHANGED <<registry, edits, generations, bus, loaded, elapsed, lapsed, seen, inbox>>

\* A generation that is installed is confirmed, another one is applied.
Answered(g) ==
  LET envelope == [gen |-> task[g].gen, content |-> task[g].content]
  IN /\ Doing(g, "poll", "asked") /\ At(g, "answered")
     /\ Become(g, "poll", [NoWork EXCEPT !.next = envelope,
                             !.pc = IF envelope.gen = loaded[g].gen THEN "confirm" ELSE "apply"])
     /\ task' = [task EXCEPT ![g] = Idle]
     /\ contact' = [contact EXCEPT ![g] = 0]
     /\ UNCHANGED <<registry, edits, generations, bus, loaded, elapsed, lapsed, seen, inbox>>

\* confirm_fresh loads the pointer ...
ConfirmLoad(g) ==
  /\ Doing(g, "poll", "confirm")
  /\ Become(g, "poll", [feed[g]["poll"] EXCEPT !.pc = "confirming", !.prev = loaded[g]])
  /\ UNCHANGED <<vars, loaded, elapsed, lapsed, contact, seen, inbox>>

\* ... and stores the snapshot it found there with a new time.
ConfirmStore(g) ==
  /\ Doing(g, "poll", "confirming")
  /\ loaded' = [loaded EXCEPT ![g] = feed[g]["poll"].prev]
  /\ elapsed' = [elapsed EXCEPT ![g] = 0]
  /\ Become(g, "poll", NoWork)
  /\ UNCHANGED <<vars, lapsed, contact, seen, inbox>>

-----------------------------------------------------------------------------
(* watch, which runs once the first poll has installed a snapshot *)

Fetch(g) ==
  /\ "bus" \in Paths /\ ~IsCold(g)
  /\ bus.seq > seen[g] /\ Len(inbox[g]) < MaxBuffer
  /\ inbox' = [inbox EXCEPT ![g] = Append(@, bus.msg)]
  /\ seen' = [seen EXCEPT ![g] = bus.seq]
  /\ UNCHANGED <<vars, loaded, elapsed, lapsed, contact, feed>>

Deliver(g) ==
  /\ Doing(g, "bus", "idle") /\ inbox[g] # <<>>
  /\ Become(g, "bus", [NoWork EXCEPT !.pc = "apply", !.next = Head(inbox[g])])
  /\ inbox' = [inbox EXCEPT ![g] = Tail(@)]
  /\ UNCHANGED <<vars, loaded, elapsed, lapsed, contact, seen>>

\* A new consumer starts at the last message.
Resubscribe(g) ==
  /\ "resubscribe" \in Faults
  /\ Doing(g, "bus", "idle") /\ seen[g] > 0
  /\ inbox' = [inbox EXCEPT ![g] = <<>>]
  /\ seen' = [seen EXCEPT ![g] = bus.seq - 1]
  /\ UNCHANGED <<vars, loaded, elapsed, lapsed, contact, feed>>

-----------------------------------------------------------------------------
(* apply: the snapshot before, then reload's load and store, then record *)

Apply(g, p) ==
  /\ Doing(g, p, "apply")
  /\ Become(g, p, [feed[g][p] EXCEPT !.pc = "reload", !.previous = loaded[g]])
  /\ UNCHANGED <<vars, loaded, elapsed, lapsed, contact, seen, inbox>>

ReloadLoad(g, p) ==
  /\ Doing(g, p, "reload")
  /\ Become(g, p, [feed[g][p] EXCEPT !.pc = "store", !.prev = loaded[g]])
  /\ UNCHANGED <<vars, loaded, elapsed, lapsed, contact, seen, inbox>>

ReloadStore(g, p) ==
  /\ Doing(g, p, "store")
  /\ loaded' = [loaded EXCEPT ![g] = feed[g][p].next]
  /\ elapsed' = [elapsed EXCEPT ![g] = 0]
  /\ Become(g, p, [feed[g][p] EXCEPT !.pc = "record"])
  /\ UNCHANGED <<vars, lapsed, contact, seen, inbox>>

\* What `diff` compares; a first snapshot is no change.
Differs(w) == w.prev # Cold /\ w.prev.content # w.next.content

\* An event is emitted that pins `previous` and what is loaded now.
RecordEvent(g, p) ==
  /\ Doing(g, p, "record") /\ Differs(feed[g][p])
  /\ Become(g, p, NoWork)
  /\ UNCHANGED <<vars, loaded, elapsed, lapsed, contact, seen, inbox>>

RecordNothing(g, p) ==
  /\ Doing(g, p, "record") /\ ~Differs(feed[g][p])
  /\ Become(g, p, NoWork)
  /\ UNCHANGED <<vars, loaded, elapsed, lapsed, contact, seen, inbox>>

-----------------------------------------------------------------------------
\* The control plane's steps; an allocation supersedes the generation before.
Control ==
  /\ Edit \/ \E r \in Replicas : Publish(r)
  /\ lapsed' = [i \in DOMAIN generations' |-> IF i \in DOMAIN lapsed THEN lapsed[i] ELSE 0]
  /\ UNCHANGED feedVars

\* While an answer is awaited or handled time stands still, unless it is slow.
Tick ==
  /\ "slow" \notin Faults =>
       \A g \in Gateways, p \in Tasks : feed[g][p].pc = "idle" /\ inbox[g] = <<>>
  /\ elapsed' = [g \in Gateways |-> More(elapsed[g])]
  /\ contact' = [g \in Gateways |-> More(contact[g])]
  /\ lapsed' = [i \in DOMAIN lapsed |-> IF i < Last THEN More(lapsed[i]) ELSE 0]
  /\ UNCHANGED <<vars, loaded, seen, inbox, feed>>

Poll(g) ==
  \/ Ask(g) \/ Handle(g) \/ Refused(g) \/ Unreachable(g)
  \/ Answered(g) \/ ConfirmLoad(g) \/ ConfirmStore(g)

Watch(g) == Fetch(g) \/ Deliver(g) \/ Resubscribe(g)

Install(g, p) ==
  \/ Apply(g, p) \/ ReloadLoad(g, p) \/ ReloadStore(g, p)
  \/ RecordEvent(g, p) \/ RecordNothing(g, p)

FeedNext ==
  \/ Control \/ Tick
  \/ \E g \in Gateways : Poll(g) \/ Watch(g) \/ \E p \in Tasks : Install(g, p)

FeedSpec == FeedInit /\ [][FeedNext]_allVars

-----------------------------------------------------------------------------
(* What the feed promises *)

Work == [pc : {"idle", "asked", "confirm", "confirming", "apply", "reload", "store", "record"},
         next : Snapshots, previous : Snapshots, prev : Snapshots]

(* Every variable stays within its type.                                    *)
FeedTypeOK ==
  /\ TypeOK
  /\ loaded \in [Gateways -> Snapshots]
  /\ elapsed \in [Gateways -> 0 .. Budget + 1]
  /\ contact \in [Gateways -> 0 .. Budget + 1]
  /\ lapsed \in Seq(0 .. Budget + 1) /\ Len(lapsed) = Last
  /\ seen \in [Gateways -> Nat] /\ \A g \in Gateways : seen[g] <= bus.seq
  /\ inbox \in [Gateways -> Seq(Snapshots)]
  /\ feed \in [Gateways -> [Tasks -> Work]]

(* A gateway serves what was published: the content it resolves pins from   *)
(* is the content of the generation it pins, whatever path it came by and   *)
(* however the registry was edited meanwhile.                               *)
PinsIdentifyContent ==
  \A g \in Gateways :
    ~IsCold(g) => /\ loaded[g].gen \in 1 .. Last
                  /\ loaded[g].content = generations[loaded[g].gen]

(* "A replayed old generation is a gateway installing configuration that   *)
(* has been superseded" (bus.rs:63): a gateway never installs a generation  *)
(* older than the one it serves.  It does (FeedGoesBack.cfg), for its poll  *)
(* and its watch install through a `reload` that compares nothing.          *)
NeverBack == [][\A g \in Gateways : loaded'[g].gen >= loaded[g].gen]_allVars

(* Confirming the installed generation swaps nothing.                       *)
ConfirmSwapsNothing ==
  [][\A g \in Gateways : ConfirmStore(g) => loaded'[g] = loaded[g]]_allVars

(* An event about a change describes it: the two configurations it pins are *)
(* those whose difference it reports.                                       *)
EventsDescribeTheChange ==
  [][\A g \in Gateways, p \in Tasks :
       RecordEvent(g, p) => /\ feed[g][p].previous = feed[g][p].prev
                            /\ feed[g][p].next = loaded[g]]_allVars

(* The budget bounds how long a fresh gateway serves a configuration that   *)
(* has been superseded (deferred.md:176).  It does not when a superseded    *)
(* generation comes by the bus.                                             *)
BudgetBoundsSuperseded ==
  \A g \in Gateways : Fresh(g) => lapsed[loaded[g].gen] <= Budget

(* A gateway goes stale only if the control plane was not reachable for     *)
(* longer than the budget.                                                  *)
StaleMeansUnreachable ==
  \A g \in Gateways : IsCold(g) \/ Fresh(g) \/ contact[g] > Budget

-----------------------------------------------------------------------------
(* The publish loop and the polls go on, the tasks of a gateway are         *)
(* scheduled, the control plane answers again and again, and an answer that *)
(* is there is handled.                                                     *)
FeedFairness ==
  /\ \A r \in Replicas : WF_allVars(PublishStep(r) /\ Control)
  /\ \A g \in Gateways :
       /\ WF_allVars(Ask(g)) /\ WF_allVars(Refused(g)) /\ SF_allVars(Answered(g))
       /\ SF_allVars(Handle(g) /\ At(g, "keys")) /\ SF_allVars(Handle(g) /\ At(g, "published"))
       /\ WF_allVars(ConfirmLoad(g)) /\ WF_allVars(ConfirmStore(g))
       /\ WF_allVars(Deliver(g))
       /\ \A p \in Tasks : WF_allVars(Install(g, p))

FairFeedSpec == FeedSpec /\ FeedFairness

\* The same, where the stream also delivers what it holds.
FairBusSpec == FairFeedSpec /\ \A g \in Gateways : WF_allVars(Fetch(g))

\* From some time on no subscription breaks.
SubscriptionsHold == <>[][\A g \in Gateways : ~Resubscribe(g)]_allVars

(* When the registry is edited no more and holds a valid configuration,     *)
(* every gateway ends up serving it and stays with it: a missed message, a  *)
(* send that failed, an answer that came late, a subscription renewed at an *)
(* old message do not leave it behind.  A subscription that keeps breaking  *)
(* would take it back to that message again and again.                      *)
Converges ==
  SubscriptionsHold =>
    \A g \in Gateways :
      <>[](registry \in Valid) => <>[](registry \in Valid => loaded[g].content = registry)
=============================================================================
