--------------------------- MODULE ConfigFeedProofs ---------------------------
(* Proofs about SnapshotPublisher and ConfigFeed, for any contents, any      *)
(* number of control planes and gateways, and every fault.                   *)
EXTENDS FeedOrder, SequenceTheorems, TLAPS

\* A snapshot is none, or the content that its generation was allocated for.
Pinned(s, gens) ==
  \/ s = Nothing
  \/ s.gen \in 1 .. Len(gens) /\ s.content = gens[s.gen]

\* A replica allocates a generation for a content that builds.
BuiltIsValid ==
  \A b \in Builders : task[b].pc \in {"published", "allocate"} => task[b].content \in Valid

\* What is about to be sent, or was answered, was allocated.
SentIsPublished ==
  \A b \in Builders :
    task[b].pc \in {"send", "answered"} =>
      task[b].gen \in 1 .. Last /\ task[b].content = generations[task[b].gen]

BusIsPinned == Pinned(bus.msg, generations) /\ (bus.seq > 0 => bus.msg.gen > 0)

PublisherInv == TypeOK /\ BuiltIsValid /\ SentIsPublished /\ BusIsPinned

\* What a step of the feed does to the variables of the publisher.
Reset(g) ==
  /\ task' = [task EXCEPT ![g] = Idle]
  /\ UNCHANGED <<registry, edits, generations, bus>>

PublisherStep ==
  \/ Edit \/ \E r \in Replicas : Publish(r)
  \/ \E b \in Builders : ReadSystems(b) \/ ReadKeys(b)
  \/ \E g \in Gateways : Answer(g) \/ Reset(g)
  \/ UNCHANGED vars

-----------------------------------------------------------------------------
(* A generation keeps the content it was allocated for.                     *)
LEMMA PinnedStays ==
  ASSUME NEW gens \in Seq(Valid), NEW c \in Valid, NEW s, Pinned(s, gens)
  PROVE  Pinned(s, Append(gens, c))
<1>1. CASE s = Nothing
  BY <1>1 DEF Pinned
<1>2. CASE s.gen \in 1 .. Len(gens) /\ s.content = gens[s.gen]
  <2>1. Append(gens, c)[s.gen] = gens[s.gen] /\ Len(Append(gens, c)) = Len(gens) + 1
    BY <1>2
  <2>2. s.gen \in 1 .. Len(gens) + 1
    BY <1>2
  <2>. QED
    BY <1>2, <2>1, <2>2 DEF Pinned
<1>. QED
  BY <1>1, <1>2 DEF Pinned

(* The initial values are values.                                           *)
LEMMA InitialValues == Nothing \in Snapshots /\ Idle.content \in Contents /\ Valid \subseteq Contents
  BY Parameters DEF Nothing, Idle, Snapshots

(* The generation allocated last is one of those allocated.                 *)
LEMMA LastIsAllocated ==
  ASSUME TypeOK, NEW c, Published(c)
  PROVE  Last \in 1 .. Last /\ c = generations[Last]
<1>1. Last \in Nat
  BY DEF TypeOK, Last
<1>. QED
  BY <1>1 DEF Published

(* Every step of the control plane, and of the handlers of the feed, keeps  *)
(* the publisher's invariant and appends at most one valid content.         *)
LEMMA PublisherStepKeeps ==
  ASSUME PublisherInv, PublisherStep
  PROVE  /\ PublisherInv'
         /\ generations' = generations \/ \E c \in Valid : generations' = Append(generations, c)
<1>. USE DEF PublisherInv, TypeOK, BuiltIsValid, SentIsPublished, BusIsPinned, Last
<1>1. CASE Edit
  <2>1. registry' \in Contents /\ edits' \in 0 .. MaxEdits
    BY <1>1, Parameters DEF Edit
  <2>2. UNCHANGED <<generations, bus, task>>
    BY <1>1 DEF Edit
  <2>. QED
    BY <2>1, <2>2
<1>2. ASSUME NEW b \in Builders, ReadSystems(b)
      PROVE  PublisherInv' /\ generations' = generations
  BY <1>2 DEF ReadSystems, At
<1>3. ASSUME NEW b \in Builders, ReadKeys(b)
      PROVE  PublisherInv' /\ generations' = generations
  <2>. DEFINE content == <<task[b].content[1], registry[2]>>
  <2>1. content \in Contents
    BY DEF Contents
  <2>. QED
    BY <1>3, <2>1, InitialValues DEF ReadKeys, At, Idle
<1>4. ASSUME NEW b \in Builders, Reset(b)
      PROVE  PublisherInv' /\ generations' = generations
  BY <1>4, InitialValues DEF Reset, Idle
<1>5. ASSUME NEW g \in Gateways, Answer(g)
      PROVE  PublisherInv' /\ generations' = generations
  <2>1. g \in Builders
    BY DEF Builders
  <2>2. CASE Published(task[g].content)
    <3>1. Last \in 1 .. Last /\ task[g].content = generations[Last]
      BY <2>2, LastIsAllocated
    <3>2. task' = [task EXCEPT ![g] = [pc |-> "answered", content |-> task[g].content, gen |-> Last]]
      BY <1>5, <2>2 DEF Answer
    <3>. QED
      BY <1>5, <2>1, <3>1, <3>2 DEF Answer
  <2>3. CASE ~Published(task[g].content)
    <3>1. Reset(g)
      BY <1>5, <2>3 DEF Answer, Reset
    <3>. QED
      BY <1>4, <2>1, <3>1
  <2>. QED
    BY <2>2, <2>3
<1>6. ASSUME NEW r \in Replicas, Publish(r)
      PROVE  /\ PublisherInv'
             /\ generations' = generations \/ \E c \in Valid : generations' = Append(generations, c)
  <2>0. r \in Builders
    BY DEF Builders
  <2>1. CASE Unchanged(r)
    <3>1. Reset(r)
      BY <2>1 DEF Unchanged, Reset
    <3>. QED
      BY <1>4, <2>0, <3>1
  <2>2. CASE Changed(r)
    BY <2>0, <2>2 DEF Changed, At
  <2>3. CASE Allocate(r)
    <3>. DEFINE c == task[r].content
    <3>1. c \in Valid /\ generations' = Append(generations, c)
      BY <2>0, <2>3 DEF Allocate, At
    <3>2. generations' \in Seq(Valid) /\ Len(generations') = Len(generations) + 1
          /\ generations'[Len(generations) + 1] = c
          /\ \A i \in 1 .. Len(generations) : generations'[i] = generations[i]
      BY <3>1
    <3>3. bus' = bus /\ Pinned(bus.msg, generations')
      BY <2>3, <3>1, PinnedStays DEF Allocate
    <3>4. task' = [task EXCEPT ![r].pc = "send", ![r].gen = Last + 1]
      BY <2>3 DEF Allocate
    <3>5. TypeOK' /\ BuiltIsValid'
      <4>1. task[r].gen \in Nat /\ task[r].content \in Contents /\ Last + 1 \in Nat
        BY <2>0
      <4>2. \A b \in Builders : task'[b] = IF b = r THEN [pc |-> "send", content |-> c, gen |-> Last + 1]
                                               ELSE task[b]
        <5>1. task[r] = [pc |-> task[r].pc, content |-> task[r].content, gen |-> task[r].gen]
          BY <2>0
        <5>2. task' = [task EXCEPT ![r] = [@ EXCEPT !.pc = "send", !.gen = Last + 1]]
          BY <3>4
        <5>3. task'[r] = [task[r] EXCEPT !.pc = "send", !.gen = Last + 1]
          BY <2>0, <5>2
        <5>4. task'[r] = [pc |-> "send", content |-> c, gen |-> Last + 1]
          BY <5>1, <5>3
        <5>. QED
          BY <2>0, <3>4, <5>4
      <4>3. task' \in [Builders -> [pc : {"idle", "keys", "published", "allocate", "send", "answered"},
                                    content : Contents, gen : Nat]]
        BY <2>0, <3>4, <4>1, <4>2
      <4>. QED
        BY <2>3, <3>2, <4>2, <4>3 DEF Allocate
    <3>6. ASSUME NEW b \in Builders, task'[b].pc \in {"send", "answered"}
          PROVE  task'[b].gen \in 1 .. Len(generations')
                 /\ task'[b].content = generations'[task'[b].gen]
      <4>1. CASE b = r
        <5>1. task'[b].gen = Len(generations) + 1 /\ task'[b].content = c
          BY <2>0, <3>4, <4>1
        <5>. QED
          BY <3>2, <5>1
      <4>2. CASE b # r
        <5>1. task'[b] = task[b]
          BY <3>4, <4>2
        <5>2. task[b].gen \in 1 .. Len(generations) /\ task[b].content = generations[task[b].gen]
          BY <3>6, <5>1
        <5>. QED
          BY <3>2, <5>1, <5>2
      <4>. QED
        BY <4>1, <4>2
    <3>. QED
      BY <3>1, <3>3, <3>5, <3>6 DEF Pinned
  <2>4. CASE Send(r)
    <3>1. task[r].gen \in 1 .. Last /\ task[r].content = generations[task[r].gen]
      BY <2>0, <2>4 DEF Send, At
    <3>2. Pinned(bus'.msg, generations') /\ bus'.msg.gen > 0
      BY <2>4, <3>1 DEF Send, Pinned
    <3>. QED
      BY <2>0, <2>4, <3>2, InitialValues DEF Send, Snapshots, Idle
  <2>5. CASE SendFails(r) \/ Crash(r)
    <3>1. Reset(r)
      BY <2>5 DEF SendFails, Crash, Reset
    <3>. QED
      BY <1>4, <2>0, <3>1
  <2>. QED
    BY <1>2, <1>3, <1>6, <2>0, <2>1, <2>2, <2>3, <2>4, <2>5 DEF Publish, PublishStep
<1>7. CASE UNCHANGED vars
  BY <1>7 DEF vars
<1>. QED
  BY <1>1, <1>2, <1>3, <1>4, <1>5, <1>6, <1>7 DEF PublisherStep, Builders

(* The publisher's invariant holds at first.                                *)
LEMMA PublisherInitially == Init => PublisherInv
<1>. SUFFICES ASSUME Init PROVE PublisherInv
  OBVIOUS
<1>1. TypeOK
  BY Parameters, InitialValues DEF Init, TypeOK, Idle
<1>2. BuiltIsValid /\ SentIsPublished
  BY DEF Init, BuiltIsValid, SentIsPublished, Idle
<1>3. BusIsPinned
  BY DEF Init, BusIsPinned, Pinned
<1>. QED
  BY <1>1, <1>2, <1>3 DEF PublisherInv

(* It holds of the control plane alone.                                     *)
LEMMA PublisherInvariant == Spec => []PublisherInv
<1>1. PublisherInv /\ [Next]_vars => PublisherInv'
  BY PublisherStepKeeps DEF Next, PublisherStep
<1>. QED
  BY <1>1, PublisherInitially, PTL DEF Spec

-----------------------------------------------------------------------------
(* However many replicas race, fail and crash: every variable of the        *)
(* control plane stays within its type, and no generation is allocated for  *)
(* a content that would not build.                                          *)
THEOREM PublisherTypeCorrect == Spec => []TypeOK
  BY PublisherInvariant, PTL DEF PublisherInv

(* And a generation identifies one content: the message on the bus carries  *)
(* the content its generation was allocated for.                            *)
THEOREM BusCarriesWhatWasAllocated == Spec => []BusHoldsPublished
<1>1. PublisherInv => BusHoldsPublished
  BY DEF PublisherInv, BusIsPinned, Pinned, BusHoldsPublished, TypeOK, Snapshots, Nothing, Last
<1>. QED
  BY <1>1, PublisherInvariant, PTL

-----------------------------------------------------------------------------
\* Whatever a gateway has installed, buffered or is about to install.
PinnedWork(w, gens) == Pinned(w.next, gens) /\ Pinned(w.previous, gens) /\ Pinned(w.prev, gens)

PinnedFeed ==
  /\ \A g \in Gateways : Pinned(loaded[g], generations)
  /\ \A g \in Gateways, p \in Tasks : PinnedWork(feed[g][p], generations)
  /\ \A g \in Gateways : \A i \in 1 .. Len(inbox[g]) : Pinned(inbox[g][i], generations)

FeedInv == PublisherInv /\ FeedTypeOK /\ PinnedFeed

\* The types of the variables of the feed, in the parts that change together.
FeedType == feed \in [Gateways -> [Tasks -> Work]]
LoadedType == loaded \in [Gateways -> Snapshots]
InboxType == inbox \in [Gateways -> Seq(Snapshots)]
SeenType == seen \in [Gateways -> Nat] /\ \A g \in Gateways : seen[g] <= bus.seq
TimeType ==
  /\ elapsed \in [Gateways -> 0 .. Budget + 1]
  /\ contact \in [Gateways -> 0 .. Budget + 1]
  /\ lapsed \in Seq(0 .. Budget + 1) /\ Len(lapsed) = Last

(* Every step of the feed is one of these steps of the publisher.           *)
LEMMA FeedIsPublisherStep == [FeedNext]_allVars => PublisherStep
<1>. SUFFICES ASSUME [FeedNext]_allVars PROVE PublisherStep
  OBVIOUS
<1>. USE DEF PublisherStep
<1>1. CASE Control
  BY <1>1 DEF Control
<1>2. CASE Tick
  BY <1>2 DEF Tick
<1>3. ASSUME NEW g \in Gateways, Poll(g) PROVE PublisherStep
  <2>1. g \in Builders
    BY DEF Builders
  <2>2. CASE Ask(g) \/ Handle(g)
    BY <2>1, <2>2 DEF Ask, Handle
  <2>3. CASE Unreachable(g) \/ Answered(g)
    BY <2>3 DEF Unreachable, Answered, Reset
  <2>4. CASE Refused(g) \/ ConfirmLoad(g) \/ ConfirmStore(g)
    BY <2>4 DEF Refused, ConfirmLoad, ConfirmStore
  <2>. QED
    BY <1>3, <2>2, <2>3, <2>4 DEF Poll
<1>4. ASSUME NEW g \in Gateways, Watch(g) PROVE PublisherStep
  BY <1>4 DEF Watch, Fetch, Deliver, Resubscribe
<1>5. ASSUME NEW g \in Gateways, NEW p \in Tasks, Install(g, p) PROVE PublisherStep
  BY <1>5 DEF Install, Apply, ReloadLoad, ReloadStore, RecordEvent, RecordNothing
<1>6. CASE UNCHANGED allVars
  BY <1>6 DEF allVars
<1>. QED
  BY <1>1, <1>2, <1>3, <1>4, <1>5, <1>6 DEF FeedNext

(* A task becomes what it is told to, and the others stay as they are.      *)
LEMMA BecomeKeeps ==
  ASSUME FeedType, NEW g \in Gateways, NEW p \in Tasks, NEW w \in Work, Become(g, p, w)
  PROVE  /\ FeedType'
         /\ \A h \in Gateways, q \in Tasks :
              feed'[h][q] = IF h = g /\ q = p THEN w ELSE feed[h][q]
  BY DEF Become, FeedType

(* The values a task starts from, and those it is given, are values.        *)
LEMMA WorkTypes ==
  /\ NoWork \in Work /\ PinnedWork(NoWork, generations)
  /\ "poll" \in Tasks /\ "bus" \in Tasks
  BY InitialValues DEF NoWork, Work, Tasks, PinnedWork, Pinned

LEMMA NewWork ==
  ASSUME NEW s \in Snapshots, Pinned(s, generations),
         NEW pc \in {"apply", "confirm"}
  PROVE  LET w == [NoWork EXCEPT !.next = s, !.pc = pc]
         IN w \in Work /\ PinnedWork(w, generations)
  BY InitialValues DEF NoWork, Work, PinnedWork, Pinned

(* Time goes up to the first tick past the budget.                          *)
LEMMA MoreType == ASSUME NEW n \in 0 .. Budget + 1 PROVE More(n) \in 0 .. Budget + 1
  BY FeedParameters DEF More

(* A task that becomes a pinned work leaves all of them pinned.             *)
LEMMA BecomePinned ==
  ASSUME FeedType, \A h \in Gateways, q \in Tasks : PinnedWork(feed[h][q], generations),
         NEW g \in Gateways, NEW p \in Tasks, NEW w \in Work, PinnedWork(w, generations),
         Become(g, p, w)
  PROVE  FeedType' /\ \A h \in Gateways, q \in Tasks : PinnedWork(feed'[h][q], generations)
<1>. SUFFICES ASSUME NEW h \in Gateways, NEW q \in Tasks
              PROVE  FeedType' /\ PinnedWork(feed'[h][q], generations)
  BY BecomeKeeps
<1>1. FeedType' /\ feed'[h][q] = IF h = g /\ q = p THEN w ELSE feed[h][q]
  BY BecomeKeeps
<1>2. CASE h = g /\ q = p
  BY <1>1, <1>2
<1>3. CASE ~(h = g /\ q = p)
  <2>1. feed'[h][q] = feed[h][q]
    BY <1>1, <1>3
  <2>. QED
    BY <1>1, <2>1
<1>. QED
  BY <1>2, <1>3

(* What a step installs, buffers or prepares to install was pinned before   *)
(* the step, and is of its type.                                            *)
WorkPinned == FeedType' /\ \A h \in Gateways, q \in Tasks : PinnedWork(feed'[h][q], generations)
LoadedPinned == LoadedType' /\ \A h \in Gateways : Pinned(loaded'[h], generations)
InboxPinned ==
  InboxType' /\ \A h \in Gateways : \A i \in 1 .. Len(inbox'[h]) : Pinned(inbox'[h][i], generations)

(* Every step of the feed takes what it installs from where a pinned        *)
(* snapshot is.                                                             *)
LEMMA FeedStepPins ==
  ASSUME FeedInv, [FeedNext]_allVars
  PROVE  WorkPinned /\ LoadedPinned /\ InboxPinned
<1>0. /\ FeedType /\ LoadedType /\ InboxType /\ PinnedFeed
      /\ bus.msg \in Snapshots /\ Pinned(bus.msg, generations)
  BY DEF FeedInv, FeedTypeOK, PublisherInv, BusIsPinned, TypeOK, FeedType, LoadedType, InboxType
<1>1. ASSUME UNCHANGED feed PROVE WorkPinned
  BY <1>0, <1>1 DEF WorkPinned, FeedType, PinnedFeed
<1>2. ASSUME UNCHANGED loaded PROVE LoadedPinned
  BY <1>0, <1>2 DEF LoadedPinned, LoadedType, PinnedFeed
<1>3. ASSUME UNCHANGED inbox PROVE InboxPinned
  BY <1>0, <1>3 DEF InboxPinned, InboxType, PinnedFeed
<1>4. ASSUME NEW g \in Gateways, NEW p \in Tasks, NEW w \in Work,
             PinnedWork(w, generations), Become(g, p, w)
      PROVE  WorkPinned
  BY <1>0, <1>4, BecomePinned DEF WorkPinned, PinnedFeed
<1>5. CASE Control \/ Tick \/ UNCHANGED allVars
  BY <1>1, <1>2, <1>3, <1>5 DEF Control, Tick, allVars, feedVars
<1>6. ASSUME NEW g \in Gateways, Poll(g)
      PROVE  WorkPinned /\ LoadedPinned /\ InboxPinned
  <2>. DEFINE w == feed[g]["poll"]
  <2>0. w \in Work /\ PinnedWork(w, generations) /\ loaded[g] \in Snapshots /\ Pinned(loaded[g], generations)
    BY <1>0, WorkTypes DEF FeedType, LoadedType, PinnedFeed
  <2>1. CASE Ask(g)
    <3>1. [NoWork EXCEPT !.pc = "asked"] \in Work /\ PinnedWork([NoWork EXCEPT !.pc = "asked"], generations)
      BY InitialValues DEF NoWork, Work, PinnedWork, Pinned
    <3>. QED
      BY <1>2, <1>3, <1>4, <2>1, <3>1, WorkTypes DEF Ask
  <2>2. CASE Handle(g)
    BY <1>1, <1>2, <1>3, <2>2 DEF Handle, feedVars
  <2>3. CASE Refused(g) \/ Unreachable(g)
    BY <1>2, <1>3, <1>4, <2>3, WorkTypes DEF Refused, Unreachable
  <2>4. CASE Answered(g)
    <3>. DEFINE envelope == [gen |-> task[g].gen, content |-> task[g].content]
                pc == IF envelope.gen = loaded[g].gen THEN "confirm" ELSE "apply"
    <3>1. envelope \in Snapshots /\ Pinned(envelope, generations)
      BY <2>4 DEF Answered, At, FeedInv, PublisherInv, SentIsPublished, TypeOK, Builders,
                  Snapshots, Pinned, Last
    <3>2. Become(g, "poll", [NoWork EXCEPT !.next = envelope, !.pc = pc]) /\ UNCHANGED <<loaded, inbox>>
      BY <2>4 DEF Answered
    <3>3. pc \in {"apply", "confirm"}
      OBVIOUS
    <3>. HIDE DEF envelope, pc
    <3>4. WorkPinned
      BY <1>4, <3>1, <3>2, <3>3, NewWork, WorkTypes
    <3>. QED
      BY <1>2, <1>3, <3>2, <3>4
  <2>5. CASE ConfirmLoad(g)
    <3>1. [w EXCEPT !.pc = "confirming", !.prev = loaded[g]] \in Work
          /\ PinnedWork([w EXCEPT !.pc = "confirming", !.prev = loaded[g]], generations)
      BY <2>0 DEF Work, PinnedWork
    <3>. QED
      BY <1>2, <1>3, <1>4, <2>5, <3>1, WorkTypes DEF ConfirmLoad
  <2>6. CASE ConfirmStore(g)
    <3>1. w.prev \in Snapshots /\ Pinned(w.prev, generations) /\ loaded' = [loaded EXCEPT ![g] = w.prev]
      BY <2>0, <2>6 DEF Work, PinnedWork, ConfirmStore
    <3>2. LoadedPinned
      BY <1>0, <3>1 DEF LoadedPinned, LoadedType, PinnedFeed
    <3>. QED
      BY <1>3, <1>4, <2>6, <3>2, WorkTypes DEF ConfirmStore
  <2>. QED
    BY <1>6, <2>1, <2>2, <2>3, <2>4, <2>5, <2>6 DEF Poll
<1>7. ASSUME NEW g \in Gateways, Watch(g)
      PROVE  WorkPinned /\ LoadedPinned /\ InboxPinned
  <2>0. inbox[g] \in Seq(Snapshots) /\ \A i \in 1 .. Len(inbox[g]) : Pinned(inbox[g][i], generations)
    BY <1>0 DEF InboxType, PinnedFeed
  <2>1. ASSUME NEW box \in Seq(Snapshots), inbox' = [inbox EXCEPT ![g] = box],
               \A i \in 1 .. Len(box) : Pinned(box[i], generations)
        PROVE  InboxPinned
    <3>1. inbox' \in [Gateways -> Seq(Snapshots)]
          /\ \A h \in Gateways : inbox'[h] = IF h = g THEN box ELSE inbox[h]
      BY <1>0, <2>1 DEF InboxType
    <3>. QED
      BY <1>0, <2>1, <3>1 DEF InboxPinned, InboxType, PinnedFeed
  <2>2. CASE Fetch(g)
    <3>1. Append(inbox[g], bus.msg) \in Seq(Snapshots)
          /\ \A i \in 1 .. Len(Append(inbox[g], bus.msg)) : Pinned(Append(inbox[g], bus.msg)[i], generations)
      <4>. DEFINE box == Append(inbox[g], bus.msg)
      <4>1. box \in Seq(Snapshots) /\ Len(box) = Len(inbox[g]) + 1
        BY <1>0, <2>0
      <4>2. ASSUME NEW i \in 1 .. Len(box) PROVE Pinned(box[i], generations)
        <5>1. box[i] = IF i = Len(inbox[g]) + 1 THEN bus.msg ELSE inbox[g][i]
          BY <1>0, <2>0, <4>1, <4>2
        <5>2. i = Len(inbox[g]) + 1 \/ i \in 1 .. Len(inbox[g])
          BY <2>0, <4>1, <4>2
        <5>. HIDE DEF box
        <5>. QED
          BY <1>0, <2>0, <5>1, <5>2
      <4>. QED
        BY <4>1, <4>2
    <3>2. InboxPinned
      BY <2>1, <2>2, <3>1 DEF Fetch
    <3>. QED
      BY <1>1, <1>2, <2>2, <3>2 DEF Fetch
  <2>3. CASE Deliver(g)
    <3>1. inbox[g] # <<>> /\ Become(g, "bus", [NoWork EXCEPT !.pc = "apply", !.next = Head(inbox[g])])
      BY <2>3 DEF Deliver
    <3>2. Head(inbox[g]) \in Snapshots /\ Pinned(Head(inbox[g]), generations)
      BY <2>0, <3>1
    <3>3. Tail(inbox[g]) \in Seq(Snapshots)
          /\ \A i \in 1 .. Len(Tail(inbox[g])) : Pinned(Tail(inbox[g])[i], generations)
      BY <2>0, <3>1
    <3>4. InboxPinned
      BY <2>1, <2>3, <3>3 DEF Deliver
    <3>5. [NoWork EXCEPT !.pc = "apply", !.next = Head(inbox[g])]
            = [NoWork EXCEPT !.next = Head(inbox[g]), !.pc = "apply"]
      BY DEF NoWork
    <3>6. WorkPinned
      BY <1>4, <3>1, <3>2, <3>5, NewWork, WorkTypes
    <3>. QED
      BY <1>2, <2>3, <3>4, <3>6 DEF Deliver
  <2>4. CASE Resubscribe(g)
    <3>1. <<>> \in Seq(Snapshots) /\ \A i \in 1 .. Len(<<>>) : Pinned(<<>>[i], generations)
      OBVIOUS
    <3>2. InboxPinned
      BY <2>1, <2>4, <3>1 DEF Resubscribe
    <3>. QED
      BY <1>1, <1>2, <2>4, <3>2 DEF Resubscribe
  <2>. QED
    BY <1>7, <2>2, <2>3, <2>4 DEF Watch
<1>8. ASSUME NEW g \in Gateways, NEW p \in Tasks, Install(g, p)
      PROVE  WorkPinned /\ LoadedPinned /\ InboxPinned
  <2>. DEFINE w == feed[g][p]
  <2>0. w \in Work /\ PinnedWork(w, generations) /\ loaded[g] \in Snapshots /\ Pinned(loaded[g], generations)
    BY <1>0 DEF FeedType, LoadedType, PinnedFeed
  <2>1. CASE Apply(g, p)
    <3>1. [w EXCEPT !.pc = "reload", !.previous = loaded[g]] \in Work
          /\ PinnedWork([w EXCEPT !.pc = "reload", !.previous = loaded[g]], generations)
      BY <2>0 DEF Work, PinnedWork
    <3>. QED
      BY <1>2, <1>3, <1>4, <2>1, <3>1 DEF Apply
  <2>2. CASE ReloadLoad(g, p)
    <3>1. [w EXCEPT !.pc = "store", !.prev = loaded[g]] \in Work
          /\ PinnedWork([w EXCEPT !.pc = "store", !.prev = loaded[g]], generations)
      BY <2>0 DEF Work, PinnedWork
    <3>. QED
      BY <1>2, <1>3, <1>4, <2>2, <3>1 DEF ReloadLoad
  <2>3. CASE ReloadStore(g, p)
    <3>1. w.next \in Snapshots /\ Pinned(w.next, generations) /\ loaded' = [loaded EXCEPT ![g] = w.next]
      BY <2>0, <2>3 DEF Work, PinnedWork, ReloadStore
    <3>2. LoadedPinned
      BY <1>0, <3>1 DEF LoadedPinned, LoadedType, PinnedFeed
    <3>3. [w EXCEPT !.pc = "record"] \in Work /\ PinnedWork([w EXCEPT !.pc = "record"], generations)
      BY <2>0 DEF Work, PinnedWork
    <3>. QED
      BY <1>3, <1>4, <2>3, <3>2, <3>3 DEF ReloadStore
  <2>4. CASE RecordEvent(g, p) \/ RecordNothing(g, p)
    BY <1>2, <1>3, <1>4, <2>4, WorkTypes DEF RecordEvent, RecordNothing
  <2>. QED
    BY <1>8, <2>1, <2>2, <2>3, <2>4 DEF Install
<1>. QED
  BY <1>5, <1>6, <1>7, <1>8 DEF FeedNext

-----------------------------------------------------------------------------
(* The clocks, and how far the watch has read, stay within their types.     *)
LEMMA TimeStep == ASSUME FeedInv, [FeedNext]_allVars PROVE TimeType'
<1>0. /\ elapsed \in [Gateways -> 0 .. Budget + 1] /\ contact \in [Gateways -> 0 .. Budget + 1]
      /\ lapsed \in Seq(0 .. Budget + 1) /\ Len(lapsed) = Len(generations)
      /\ generations \in Seq(Valid) /\ Budget \in Nat
  BY FeedParameters DEF FeedInv, FeedTypeOK, TypeOK, Last
<1>1. 0 \in 0 .. Budget + 1
  BY <1>0
<1>2. CASE Control
  <2>1. generations' \in Seq(Valid)
    BY PublisherStepKeeps, FeedIsPublisherStep DEF FeedInv, PublisherInv, TypeOK
  <2>2. lapsed' = [i \in 1 .. Len(generations') |-> IF i \in DOMAIN lapsed THEN lapsed[i] ELSE 0]
    BY <1>2, <2>1 DEF Control
  <2>3. \A i \in 1 .. Len(generations') :
          (IF i \in DOMAIN lapsed THEN lapsed[i] ELSE 0) \in 0 .. Budget + 1
    BY <1>0, <1>1
  <2>4. lapsed' \in Seq(0 .. Budget + 1) /\ Len(lapsed') = Len(generations')
    BY <2>1, <2>2, <2>3
  <2>. QED
    BY <1>0, <1>2, <2>4 DEF Control, feedVars, TimeType, Last
<1>3. CASE Tick
  <2>1. elapsed' \in [Gateways -> 0 .. Budget + 1] /\ contact' \in [Gateways -> 0 .. Budget + 1]
    BY <1>0, <1>3, MoreType DEF Tick
  <2>2. lapsed' = [i \in 1 .. Len(lapsed) |-> IF i < Last THEN More(lapsed[i]) ELSE 0]
    BY <1>0, <1>3 DEF Tick
  <2>3. \A i \in 1 .. Len(lapsed) : (IF i < Last THEN More(lapsed[i]) ELSE 0) \in 0 .. Budget + 1
    BY <1>0, <1>1, MoreType
  <2>4. lapsed' \in Seq(0 .. Budget + 1) /\ Len(lapsed') = Len(lapsed)
    BY <1>0, <2>2, <2>3
  <2>. QED
    BY <1>0, <1>3, <2>1, <2>4 DEF Tick, vars, TimeType, Last
<1>4. ASSUME NEW g \in Gateways, Poll(g) PROVE TimeType'
  <2>1. CASE Ask(g) \/ Handle(g) \/ Refused(g) \/ Unreachable(g)
    BY <1>0, <1>1, <2>1
    DEF Ask, Handle, ReadSystems, ReadKeys, Answer, Refused, Unreachable, vars, feedVars,
        TimeType, Last
  <2>2. CASE Answered(g) \/ ConfirmLoad(g) \/ ConfirmStore(g)
    BY <1>0, <1>1, <2>2 DEF Answered, ConfirmLoad, ConfirmStore, vars, TimeType, Last
  <2>. QED
    BY <1>4, <2>1, <2>2 DEF Poll
<1>5. ASSUME NEW g \in Gateways, Watch(g) PROVE TimeType'
  BY <1>0, <1>5 DEF Watch, Fetch, Deliver, Resubscribe, vars, TimeType, Last
<1>6. ASSUME NEW g \in Gateways, NEW p \in Tasks, Install(g, p) PROVE TimeType'
  BY <1>0, <1>1, <1>6
  DEF Install, Apply, ReloadLoad, ReloadStore, RecordEvent, RecordNothing, vars, TimeType, Last
<1>7. CASE UNCHANGED allVars
  BY <1>0, <1>7 DEF allVars, vars, feedVars, TimeType, Last
<1>. QED
  BY <1>2, <1>3, <1>4, <1>5, <1>6, <1>7 DEF FeedNext

LEMMA SeenStep == ASSUME FeedInv, [FeedNext]_allVars PROVE SeenType'
<1>0. seen \in [Gateways -> Nat] /\ bus.seq \in Nat /\ \A g \in Gateways : seen[g] <= bus.seq
  BY DEF FeedInv, FeedTypeOK, TypeOK
<1>1. ASSUME UNCHANGED <<seen, bus>> PROVE SeenType'
  BY <1>0, <1>1 DEF SeenType
<1>2. CASE Control
  <2>1. bus'.seq \in Nat /\ bus.seq <= bus'.seq
    <3>1. bus' = bus \/ \E msg : bus' = [seq |-> bus.seq + 1, msg |-> msg]
      BY <1>2
      DEF Control, Edit, Publish, PublishStep, ReadSystems, ReadKeys, Unchanged, Changed, Allocate,
          Send, SendFails, Crash
    <3>. QED
      BY <1>0, <3>1
  <2>. QED
    BY <1>0, <1>2, <2>1 DEF Control, feedVars, SeenType
<1>3. CASE Tick \/ UNCHANGED allVars
  BY <1>1, <1>3 DEF Tick, vars, feedVars, allVars
<1>4. ASSUME NEW g \in Gateways, Poll(g) PROVE SeenType'
  BY <1>1, <1>4
  DEF Poll, Ask, Handle, ReadSystems, ReadKeys, Answer, Refused, Unreachable, Answered,
      ConfirmLoad, ConfirmStore, vars, feedVars
<1>5. ASSUME NEW g \in Gateways, Watch(g) PROVE SeenType'
  <2>1. CASE Fetch(g)
    BY <1>0, <2>1 DEF Fetch, vars, SeenType
  <2>2. CASE Deliver(g)
    BY <1>1, <2>2 DEF Deliver, vars
  <2>3. CASE Resubscribe(g)
    BY <1>0, <2>3 DEF Resubscribe, vars, SeenType
  <2>. QED
    BY <1>5, <2>1, <2>2, <2>3 DEF Watch
<1>6. ASSUME NEW g \in Gateways, NEW p \in Tasks, Install(g, p) PROVE SeenType'
  BY <1>1, <1>6 DEF Install, Apply, ReloadLoad, ReloadStore, RecordEvent, RecordNothing, vars
<1>. QED
  BY <1>2, <1>3, <1>4, <1>5, <1>6 DEF FeedNext

(* What was pinned before a step is pinned after it.                        *)
LEMMA PinnedGrows ==
  ASSUME FeedInv, [FeedNext]_allVars, NEW s, Pinned(s, generations)
  PROVE  Pinned(s, generations')
<1>1. generations' = generations \/ \E c \in Valid : generations' = Append(generations, c)
  BY PublisherStepKeeps, FeedIsPublisherStep DEF FeedInv
<1>2. generations \in Seq(Valid)
  BY DEF FeedInv, PublisherInv, TypeOK
<1>. QED
  BY <1>1, <1>2, PinnedStays

(* The feed's invariant is inductive.                                       *)
LEMMA FeedStepKeeps == FeedInv /\ [FeedNext]_allVars => FeedInv'
<1>. SUFFICES ASSUME FeedInv, [FeedNext]_allVars PROVE FeedInv'
  OBVIOUS
<1>1. PublisherInv' /\ TimeType' /\ SeenType'
  BY PublisherStepKeeps, FeedIsPublisherStep, TimeStep, SeenStep DEF FeedInv
<1>2. WorkPinned /\ LoadedPinned /\ InboxPinned
  BY FeedStepPins
<1>3. FeedTypeOK'
  BY <1>1, <1>2
  DEF FeedTypeOK, PublisherInv, TimeType, SeenType, WorkPinned, LoadedPinned, InboxPinned,
      FeedType, LoadedType, InboxType
<1>4. \A g \in Gateways : Pinned(loaded'[g], generations')
  BY <1>2, PinnedGrows DEF LoadedPinned
<1>5. \A g \in Gateways, p \in Tasks : PinnedWork(feed'[g][p], generations')
  BY <1>2, PinnedGrows DEF WorkPinned, PinnedWork
<1>6. \A g \in Gateways : \A i \in 1 .. Len(inbox'[g]) : Pinned(inbox'[g][i], generations')
  BY <1>2, PinnedGrows DEF InboxPinned
<1>. QED
  BY <1>1, <1>3, <1>4, <1>5, <1>6 DEF FeedInv, PinnedFeed

LEMMA FeedInitially == FeedInit => FeedInv
<1>. SUFFICES ASSUME FeedInit PROVE FeedInv
  OBVIOUS
<1>1. PublisherInv
  BY PublisherInitially DEF FeedInit
<1>2. 0 \in 0 .. Budget + 1 /\ <<>> \in Seq(0 .. Budget + 1) /\ <<>> \in Seq(Snapshots)
  BY FeedParameters
<1>3. FeedTypeOK
  BY <1>1, <1>2, InitialValues, WorkTypes
  DEF FeedInit, FeedTypeOK, PublisherInv, Init, Cold, Last
<1>4. PinnedFeed
  BY WorkTypes DEF FeedInit, PinnedFeed, Pinned, Cold
<1>. QED
  BY <1>1, <1>3, <1>4 DEF FeedInv

LEMMA FeedInvariant == FeedSpec => []FeedInv
  BY FeedInitially, FeedStepKeeps, PTL DEF FeedSpec

-----------------------------------------------------------------------------
(* Every variable of the feed stays within its type: the clocks saturate,   *)
(* and the watch never claims to have read past the end of the stream.      *)
THEOREM FeedTypeCorrect == FeedSpec => []FeedTypeOK
  BY FeedInvariant, PTL DEF FeedInv

(* A gateway serves what was published.  However many control planes and    *)
(* gateways there are, whichever path a snapshot came by, whatever was read *)
(* torn, sent late, lost or delivered again: the content a gateway resolves *)
(* pins from is the content its generation was allocated for.               *)
THEOREM GatewayServesWhatWasPublished == FeedSpec => []PinsIdentifyContent
<1>1. FeedInv => PinsIdentifyContent
  BY DEF FeedInv, PinnedFeed, Pinned, PinsIdentifyContent, IsCold, Cold, Last
<1>. QED
  BY <1>1, FeedInvariant, PTL

-----------------------------------------------------------------------------
(* Generations and changes *)

\* A replica that is about to allocate a generation found the content changed.
ChangeInv ==
  /\ PublisherInv
  /\ EveryGenerationIsAChange
  /\ \A r \in Replicas : At(r, "allocate") => ~ Published(task[r].content)

(* With one control plane nothing is published between the comparison and   *)
(* the allocation.                                                          *)
LEMMA ChangeStep ==
  ASSUME \A r, q \in Replicas : r = q, ChangeInv, PublisherStep
  PROVE  ChangeInv'
<1>0. /\ PublisherInv /\ TypeOK /\ EveryGenerationIsAChange /\ generations \in Seq(Valid)
      /\ task \in [Builders -> [pc : {"idle", "keys", "published", "allocate", "send", "answered"},
                                content : Contents, gen : Nat]]
  BY DEF ChangeInv, PublisherInv, TypeOK
<1>1. PublisherInv'
  BY <1>0, PublisherStepKeeps
<1>2. ASSUME UNCHANGED generations,
             \A r \in Replicas : task'[r].pc = "allocate" =>
               task[r].pc = "allocate" /\ task'[r].content = task[r].content
      PROVE  ChangeInv'
  <2>1. EveryGenerationIsAChange'
    BY <1>0, <1>2 DEF EveryGenerationIsAChange, Last
  <2>2. ASSUME NEW r \in Replicas, At(r, "allocate")' PROVE ~ Published(task[r].content)'
    <3>1. task[r].pc = "allocate" /\ task'[r].content = task[r].content
      BY <1>2, <2>2 DEF At
    <3>2. ~ Published(task[r].content)
      BY <3>1 DEF ChangeInv, At
    <3>. QED
      BY <1>2, <3>1, <3>2 DEF Published, Last
  <2>. QED
    BY <1>1, <2>1, <2>2 DEF ChangeInv
<1>3. CASE Edit \/ UNCHANGED vars
  BY <1>2, <1>3 DEF Edit, vars
<1>4. ASSUME NEW b \in Builders, NEW w, task' = [task EXCEPT ![b] = w], w.pc # "allocate",
             UNCHANGED generations
      PROVE  ChangeInv'
  BY <1>0, <1>2, <1>4 DEF Builders
<1>5. ASSUME NEW b \in Builders, ReadSystems(b) \/ ReadKeys(b) PROVE ChangeInv'
  <2>1. PICK w : task' = [task EXCEPT ![b] = w] /\ w.pc # "allocate"
    <3>1. CASE ReadSystems(b)
      <4>1. [task[b] EXCEPT !.pc = "keys", !.content = registry].pc = "keys"
        BY <1>0
      <4>2. task' = [task EXCEPT ![b] = [task[b] EXCEPT !.pc = "keys", !.content = registry]]
        BY <1>0, <3>1 DEF ReadSystems
      <4>. QED
        BY <4>1, <4>2
    <3>2. CASE ReadKeys(b)
      <4>. DEFINE content == <<task[b].content[1], registry[2]>>
                  w == IF content \in Valid
                       THEN [pc |-> "published", content |-> content, gen |-> 0] ELSE Idle
      <4>1. w.pc # "allocate"
        BY DEF Idle
      <4>2. task' = [task EXCEPT ![b] = w]
        BY <3>2 DEF ReadKeys
      <4>. QED
        BY <4>1, <4>2
    <3>. QED
      BY <1>5, <3>1, <3>2
  <2>. QED
    BY <1>4, <1>5, <2>1 DEF ReadSystems, ReadKeys
<1>6. ASSUME NEW g \in Gateways, Answer(g) \/ Reset(g) PROVE ChangeInv'
  <2>1. PICK w : task' = [task EXCEPT ![g] = w] /\ w.pc # "allocate"
    <3>. DEFINE v == IF Published(task[g].content)
                     THEN [pc |-> "answered", content |-> task[g].content, gen |-> Last]
                     ELSE Idle
    <3>1. v.pc # "allocate" /\ Idle.pc # "allocate"
      BY DEF Idle
    <3>2. task' = [task EXCEPT ![g] = v] \/ task' = [task EXCEPT ![g] = Idle]
      BY <1>6 DEF Answer, Reset
    <3>. QED
      BY <3>1, <3>2
  <2>. QED
    BY <1>4, <1>6, <2>1 DEF Answer, Reset, Builders
<1>7. ASSUME NEW r \in Replicas, Publish(r) PROVE ChangeInv'
  <2>0. r \in Builders
    BY DEF Builders
  <2>1. CASE ReadSystems(r) \/ ReadKeys(r)
    BY <1>5, <2>0, <2>1
  <2>2. CASE Unchanged(r) \/ Send(r) \/ SendFails(r) \/ Crash(r)
    <3>1. task' = [task EXCEPT ![r] = Idle] /\ Idle.pc # "allocate" /\ UNCHANGED generations
      BY <2>2 DEF Unchanged, Send, SendFails, Crash, Idle
    <3>. QED
      BY <1>4, <2>0, <3>1
  <2>3. CASE Changed(r)
    <3>1. /\ ~ Published(task[r].content) /\ UNCHANGED generations
          /\ task' = [task EXCEPT ![r].pc = "allocate"]
      BY <2>3 DEF Changed
    <3>2. task'[r].content = task[r].content
      BY <1>0, <2>0, <3>1
    <3>3. EveryGenerationIsAChange'
      BY <1>0, <3>1 DEF EveryGenerationIsAChange, Last
    <3>4. ASSUME NEW q \in Replicas PROVE ~ Published(task[q].content)'
      <4>1. q = r
        OBVIOUS
      <4>. QED
        BY <3>1, <3>2, <4>1 DEF Published, Last
    <3>. QED
      BY <1>1, <3>3, <3>4 DEF ChangeInv
  <2>4. CASE Allocate(r)
    <3>. DEFINE c == task[r].content
    <3>1. /\ ~ Published(c) /\ generations' = Append(generations, c)
          /\ task' = [task EXCEPT ![r].pc = "send", ![r].gen = Last + 1]
          /\ c \in Valid
      BY <1>0, <2>0, <2>4 DEF Allocate, ChangeInv, PublisherInv, BuiltIsValid, At
    <3>. HIDE DEF c
    <3>2. PICK n \in Nat : n = Last
      BY <1>0 DEF Last
    <3>3. /\ Last' = n + 1 /\ generations'[n + 1] = c
          /\ \A i \in 1 .. n : generations'[i] = generations[i]
      BY <1>0, <3>1, <3>2 DEF Last
    <3>4. ASSUME NEW i \in 1 .. n PROVE generations'[i] # generations'[i + 1]
      <4>1. CASE i = n
        <5>1. generations[n] # c
          BY <3>1, <3>2, <4>1 DEF Published
        <5>. QED
          BY <3>3, <4>1, <5>1
      <4>2. CASE i < n
        <5>1. i \in 1 .. n - 1 /\ i + 1 \in 1 .. n
          BY <4>2
        <5>2. generations[i] # generations[i + 1]
          BY <1>0, <3>2, <5>1 DEF EveryGenerationIsAChange
        <5>. QED
          BY <3>3, <5>1, <5>2
      <4>. QED
        BY <4>1, <4>2
    <3>5. EveryGenerationIsAChange'
      <4>1. Last' - 1 = n
        BY <3>3
      <4>. QED
        BY <3>4, <4>1 DEF EveryGenerationIsAChange
    <3>6. task'[r].pc = "send"
      BY <1>0, <2>0, <3>1
    <3>7. ASSUME NEW q \in Replicas PROVE ~ At(q, "allocate")'
      <4>1. q = r
        OBVIOUS
      <4>. QED
        BY <3>6, <4>1 DEF At
    <3>. QED
      BY <1>1, <3>5, <3>7 DEF ChangeInv
  <2>. QED
    BY <1>7, <2>1, <2>2, <2>3, <2>4 DEF Publish, PublishStep
<1>. QED
  BY <1>3, <1>5, <1>6, <1>7 DEF PublisherStep

(* A generation is allocated for a change only, whatever is edited while a  *)
(* snapshot is built, whatever send fails and wherever the control plane    *)
(* crashes: with one control plane, since the comparison is outside of the  *)
(* transaction that allocates (SnapshotBuilder::publish).                   *)
THEOREM NoGenerationWithoutChange ==
  ASSUME \A r, q \in Replicas : r = q
  PROVE  FeedSpec => []EveryGenerationIsAChange
<1>1. FeedInit => ChangeInv
  <2>1. ASSUME FeedInit PROVE ChangeInv
    <3>1. Init
      BY <2>1 DEF FeedInit
    <3>2. PublisherInv
      BY <3>1, PublisherInitially
    <3>3. generations = <<>> /\ \A r \in Replicas : task[r].pc = "idle"
      BY <3>1 DEF Init, Idle, Builders
    <3>. QED
      BY <3>2, <3>3 DEF ChangeInv, EveryGenerationIsAChange, Last, At
  <2>. QED
    BY <2>1
<1>2. ChangeInv /\ [FeedNext]_allVars => ChangeInv'
  BY ChangeStep, FeedIsPublisherStep
<1>3. ChangeInv => EveryGenerationIsAChange
  BY DEF ChangeInv
<1>. QED
  BY <1>1, <1>2, <1>3, PTL DEF FeedSpec

-----------------------------------------------------------------------------
(* The order in which a task takes up generations *)

\* What a replica is about to send is the generation allocated last: nobody
\* else allocates one.
SentIsLast == \A r \in Replicas : At(r, "send") => task[r].gen = Last

\* The poll is not behind its answers, the watch not behind what it is to be
\* delivered, and neither ahead of where these come from.
InOrder(g) ==
  /\ \A p \in Tasks : feed[g][p].next = Nothing \/ feed[g][p].next.gen = taken[g][p]
  /\ taken[g]["poll"] <= Last
  /\ At(g, "answered") => taken[g]["poll"] <= task[g].gen
  /\ taken[g]["bus"] <= bus.msg.gen
  /\ \A i \in 1 .. Len(inbox[g]) :
       taken[g]["bus"] <= inbox[g][i].gen /\ inbox[g][i].gen <= bus.msg.gen
  /\ \A i, j \in 1 .. Len(inbox[g]) : i < j => inbox[g][i].gen <= inbox[g][j].gen

OrderInv ==
  /\ FeedInv
  /\ taken \in [Gateways -> [Tasks -> Nat]]
  /\ SentIsLast
  /\ \A g \in Gateways : InOrder(g)

SameGateway(h) ==
  /\ feed'[h] = feed[h] /\ inbox'[h] = inbox[h]
  /\ task'[h] = task[h] /\ loaded'[h] = loaded[h]

(* The variables a gateway has a part of are functions on the gateways.      *)
LEMMA FeedParts ==
  ASSUME FeedInv
  PROVE  /\ FeedType /\ LoadedType /\ InboxType /\ PublisherInv
         /\ task \in [Builders -> [pc : {"idle", "keys", "published", "allocate", "send", "answered"},
                                   content : Contents, gen : Nat]]
         /\ Last \in Nat
         /\ Gateways \subseteq Builders
  BY DEF FeedInv, FeedTypeOK, PublisherInv, TypeOK, FeedType, LoadedType, InboxType, Builders, Last

(* What a gateway does is its own.                                           *)
LEMMA OthersStay ==
  ASSUME FeedInv, NEW g \in Gateways, NEW h \in Gateways \ {g},
         Poll(g) \/ Watch(g) \/ \E p \in Tasks : Install(g, p)
  PROVE  SameGateway(h)
<1>0. /\ feed \in [Gateways -> [Tasks -> Work]] /\ loaded \in [Gateways -> Snapshots]
      /\ inbox \in [Gateways -> Seq(Snapshots)] /\ h # g /\ h \in Builders /\ g \in Builders
      /\ DOMAIN task = Builders
  BY FeedParts DEF FeedType, LoadedType, InboxType
<1>1. \A p, v : Become(g, p, v) => feed'[h] = feed[h]
  BY <1>0 DEF Become
<1>2. CASE Poll(g)
  <2>1. feed'[h] = feed[h]
    BY <1>1, <1>2
    DEF Poll, Ask, Handle, Refused, Unreachable, Answered, ConfirmLoad, ConfirmStore, feedVars
  <2>2. task'[h] = task[h]
    BY <1>0, <1>2
    DEF Poll, Ask, ReadSystems, Handle, ReadKeys, Answer, Refused, Unreachable, Answered,
        ConfirmLoad, ConfirmStore, vars
  <2>3. inbox' = inbox
    BY <1>2
    DEF Poll, Ask, Handle, Refused, Unreachable, Answered, ConfirmLoad, ConfirmStore, feedVars
  <2>4. loaded'[h] = loaded[h]
    BY <1>0, <1>2
    DEF Poll, Ask, Handle, Refused, Unreachable, Answered, ConfirmLoad, ConfirmStore, feedVars
  <2>. QED
    BY <2>1, <2>2, <2>3, <2>4 DEF SameGateway
<1>3. CASE Watch(g)
  BY <1>0, <1>1, <1>3 DEF Watch, Fetch, Deliver, Resubscribe, vars, SameGateway
<1>4. ASSUME NEW p \in Tasks, Install(g, p) PROVE SameGateway(h)
  BY <1>0, <1>1, <1>4
  DEF Install, Apply, ReloadLoad, ReloadStore, RecordEvent, RecordNothing, vars, SameGateway
<1>. QED
  BY <1>2, <1>3, <1>4

(* The control plane publishes beside the handlers of requests.              *)
LEMMA ControlStays ==
  ASSUME FeedInv, Control, NEW h \in Gateways
  PROVE  SameGateway(h)
<1>0. DOMAIN task = Builders /\ h \in Builders
  BY FeedParts
<1>1. ASSUME NEW r \in Replicas, Publish(r) PROVE task'[h] = task[h]
  <2>1. r # h
    BY Parameters
  <2>. QED
    BY <1>0, <1>1, <2>1
    DEF Publish, PublishStep, ReadSystems, ReadKeys, Unchanged, Changed, Allocate, Send,
        SendFails, Crash
<1>2. task'[h] = task[h]
  BY <1>1 DEF Control, Edit
<1>. QED
  BY <1>2 DEF Control, feedVars, SameGateway

(* With one control plane nothing is allocated between an allocation and its  *)
(* send, so what the stream holds never goes back.                           *)
LEMMA SendsInOrder ==
  ASSUME \A r, q \in Replicas : r = q, FeedInv, SentIsLast, [FeedNext]_allVars
  PROVE  /\ SentIsLast'
         /\ bus.msg.gen \in Nat /\ bus'.msg.gen \in Nat /\ bus.msg.gen <= bus'.msg.gen
         /\ Last \in Nat /\ Last' \in Nat /\ Last <= Last' /\ bus.msg.gen <= Last
<1>0. /\ PublisherInv /\ PublisherInv' /\ PublisherStep
      /\ task \in [Builders -> [pc : {"idle", "keys", "published", "allocate", "send", "answered"},
                                content : Contents, gen : Nat]]
      /\ generations \in Seq(Valid) /\ generations' \in Seq(Valid)
      /\ bus \in [seq : Nat, msg : Snapshots] /\ bus' \in [seq : Nat, msg : Snapshots]
  BY PublisherStepKeeps, FeedIsPublisherStep DEF FeedInv, PublisherInv, TypeOK
<1>1. Last \in Nat /\ Last' \in Nat /\ bus.msg.gen \in Nat /\ bus'.msg.gen \in Nat
  BY <1>0 DEF Last, Snapshots
<1>2. bus.msg.gen <= Last
  BY <1>0, <1>1 DEF PublisherInv, BusIsPinned, Pinned, Nothing, Last
<1>3. ASSUME NEW b \in Builders, task'[b].pc # "send",
             \A c \in Builders \ {b} : task'[c] = task[c],
             UNCHANGED <<generations, bus>>
      PROVE  SentIsLast' /\ bus.msg.gen <= bus'.msg.gen /\ Last <= Last'
  BY <1>1, <1>3 DEF SentIsLast, At, Last, Builders
<1>4. ASSUME NEW b \in Builders, Reset(b)
      PROVE  SentIsLast' /\ bus.msg.gen <= bus'.msg.gen /\ Last <= Last'
  BY <1>0, <1>3, <1>4 DEF Reset, Idle
<1>5. ASSUME NEW b \in Builders, ReadSystems(b)
      PROVE  SentIsLast' /\ bus.msg.gen <= bus'.msg.gen /\ Last <= Last'
  BY <1>0, <1>3, <1>5 DEF ReadSystems
<1>6. ASSUME NEW b \in Builders, ReadKeys(b)
      PROVE  SentIsLast' /\ bus.msg.gen <= bus'.msg.gen /\ Last <= Last'
  <2>. DEFINE content == <<task[b].content[1], registry[2]>>
  <2>1. task'[b] = IF content \in Valid THEN [pc |-> "published", content |-> content, gen |-> 0]
                   ELSE Idle
    BY <1>0, <1>6 DEF ReadKeys
  <2>2. task'[b].pc # "send"
    BY <2>1 DEF Idle
  <2>. QED
    BY <1>0, <1>3, <1>6, <2>2 DEF ReadKeys
<1>7. ASSUME NEW g \in Gateways, Answer(g)
      PROVE  SentIsLast' /\ bus.msg.gen <= bus'.msg.gen /\ Last <= Last'
  <2>1. g \in Builders
    BY DEF Builders
  <2>2. task'[g] = IF Published(task[g].content)
                   THEN [pc |-> "answered", content |-> task[g].content, gen |-> Last]
                   ELSE Idle
    BY <1>0, <1>7, <2>1 DEF Answer
  <2>3. task'[g].pc # "send"
    BY <2>2 DEF Idle
  <2>. QED
    BY <1>0, <1>3, <1>7, <2>1, <2>3 DEF Answer
<1>8. ASSUME NEW r \in Replicas, Publish(r)
      PROVE  SentIsLast' /\ bus.msg.gen <= bus'.msg.gen /\ Last <= Last'
  <2>0. r \in Builders /\ \A q \in Replicas : q = r
    BY DEF Builders
  <2>1. CASE Unchanged(r) \/ SendFails(r) \/ Crash(r)
    <3>1. Reset(r)
      BY <2>1 DEF Unchanged, SendFails, Crash, Reset
    <3>. QED
      BY <1>4, <2>0, <3>1
  <2>2. CASE Changed(r)
    BY <1>0, <1>3, <2>0, <2>2 DEF Changed
  <2>3. CASE Allocate(r)
    <3>1. Len(generations') = Last + 1 /\ bus' = bus
      BY <1>0, <2>0, <2>3 DEF Allocate, PublisherInv, BuiltIsValid, At, Last
    <3>2. task'[r].gen = Last + 1
      <4>1. task' = [task EXCEPT ![r] = [@ EXCEPT !.pc = "send", !.gen = Last + 1]]
        BY <2>3 DEF Allocate
      <4>2. task'[r] = [task[r] EXCEPT !.pc = "send", !.gen = Last + 1]
        BY <1>0, <2>0, <4>1
      <4>. QED
        BY <1>0, <2>0, <4>2
    <3>. QED
      BY <1>1, <2>0, <3>1, <3>2 DEF SentIsLast, Last
  <2>4. CASE Send(r)
    <3>1. bus'.msg.gen = Last /\ generations' = generations
      BY <2>4 DEF Send, SentIsLast, At
    <3>2. task'[r].pc # "send"
      BY <1>0, <2>0, <2>4 DEF Send, Idle
    <3>. QED
      BY <1>1, <1>2, <2>0, <3>1, <3>2 DEF SentIsLast, At, Last
  <2>. QED
    BY <1>5, <1>6, <1>8, <2>0, <2>1, <2>2, <2>3, <2>4 DEF Publish, PublishStep
<1>9. CASE Edit \/ UNCHANGED vars
  <2>1. UNCHANGED <<task, bus, generations>>
    BY <1>9 DEF Edit, vars
  <2>2. Last' = Last /\ bus'.msg.gen = bus.msg.gen
    BY <2>1 DEF Last
  <2>3. SentIsLast'
    BY <2>1, <2>2 DEF SentIsLast, At
  <2>. QED
    BY <1>1, <1>2, <2>2, <2>3
<1>10. SentIsLast' /\ bus.msg.gen <= bus'.msg.gen /\ Last <= Last'
  <2>1. \A g \in Gateways : g \in Builders
    BY DEF Builders
  <2>. QED
    BY <1>0, <1>4, <1>5, <1>6, <1>7, <1>8, <1>9, <2>1 DEF PublisherStep
<1>. QED
  BY <1>1, <1>2, <1>10

\* Where a gateway stands when nothing went back at the control plane.
Stream == bus.msg.gen
Forward ==
  /\ Stream \in Nat /\ Stream' \in Nat /\ Stream <= Stream'
  /\ Last \in Nat /\ Last' \in Nat /\ Last <= Last' /\ Stream <= Last

(* What a gateway took up is in its history.                                *)
LEMMA TakenIs ==
  ASSUME OrderInv, OrderNext, NEW g \in Gateways, NEW p \in Tasks
  PROVE  /\ taken[g][p] \in Nat /\ taken'[g][p] \in Nat
         /\ taken'[g][p] = Took(g, p)
         /\ feed'[g][p].next = Nothing \/ feed'[g][p].next.gen = taken'[g][p]
         /\ feed'[g][p].next \in {Nothing, feed[g][p].next} => taken'[g][p] = taken[g][p]
<1>0. /\ taken[g][p] \in Nat
      /\ feed[g][p].next = Nothing \/ feed[g][p].next.gen = taken[g][p]
  BY DEF OrderInv, InOrder
<1>1. taken'[g][p] = Took(g, p)
  BY DEF OrderNext
<1>2. feed'[g][p].next.gen \in Nat
  <2>1. FeedInv'
    BY FeedStepKeeps DEF OrderInv, OrderNext
  <2>2. feed'[g][p] \in Work
    BY <2>1 DEF FeedInv, FeedTypeOK
  <2>. QED
    BY <2>2 DEF Work, Snapshots
<1>. QED
  BY <1>0, <1>1, <1>2 DEF Took

(* A gateway whose tasks take up nothing new.                               *)
LEMMA OrderMove ==
  ASSUME OrderInv, OrderNext, Forward, NEW g \in Gateways,
         \A p \in Tasks : feed'[g][p].next \in {Nothing, feed[g][p].next},
         inbox'[g] = inbox[g],
         task'[g] = task[g] \/ task'[g].pc # "answered" \/ task'[g].gen = Last
  PROVE  InOrder(g)' /\ \A p \in Tasks : taken'[g][p] = taken[g][p]
<1>1. \A p \in Tasks : /\ taken'[g][p] = taken[g][p] /\ taken[g][p] \in Nat
                       /\ feed'[g][p].next = Nothing \/ feed'[g][p].next.gen = taken'[g][p]
  BY TakenIs
<1>2. /\ taken'[g]["poll"] = taken[g]["poll"] /\ taken'[g]["bus"] = taken[g]["bus"]
      /\ taken[g]["poll"] \in Nat /\ taken[g]["bus"] \in Nat
  BY <1>1 DEF Tasks
<1>3. InOrder(g)
  BY DEF OrderInv
<1>4. taken'[g]["poll"] <= Last'
  BY <1>2, <1>3 DEF InOrder, Forward
<1>5. At(g, "answered")' => taken'[g]["poll"] <= task'[g].gen
  BY <1>2, <1>3 DEF InOrder, At
<1>6. taken'[g]["bus"] <= bus'.msg.gen
  BY <1>2, <1>3 DEF InOrder, Forward, Stream
<1>7. ASSUME NEW i \in 1 .. Len(inbox'[g])
      PROVE  taken'[g]["bus"] <= inbox'[g][i].gen /\ inbox'[g][i].gen <= bus'.msg.gen
  <2>1. /\ taken[g]["bus"] <= inbox[g][i].gen /\ inbox[g][i].gen <= bus.msg.gen
        /\ inbox[g][i].gen \in Nat
    <3>1. i \in 1 .. Len(inbox[g]) /\ inbox[g] \in Seq(Snapshots)
      BY <1>7, FeedParts DEF OrderInv, InboxType
    <3>2. inbox[g][i] \in Snapshots
      BY <3>1
    <3>. QED
      BY <1>3, <3>1, <3>2 DEF InOrder, Snapshots
  <2>. QED
    BY <1>2, <2>1 DEF Forward, Stream
<1>8. (\A i, j \in 1 .. Len(inbox[g]) : i < j => inbox[g][i].gen <= inbox[g][j].gen)'
  BY <1>3 DEF InOrder
<1>. QED
  BY <1>1, <1>4, <1>5, <1>6, <1>7, <1>8 DEF InOrder

(* A poll takes up the answer it got, and an answer is of the generation    *)
(* allocated last.                                                          *)
LEMMA PollInOrder ==
  ASSUME OrderInv, OrderNext, Forward, NEW g \in Gateways, Poll(g)
  PROVE  InOrder(g)' /\ \A p \in Tasks : taken'[g][p] >= taken[g][p]
<1>. DEFINE w == feed[g]["poll"]
<1>0. /\ FeedInv /\ FeedType /\ InOrder(g) /\ g \in Builders /\ w \in Work /\ NoWork \in Work
      /\ loaded[g] \in Snapshots /\ NoWork.next = Nothing
      /\ "poll" \in Tasks /\ "bus" \in Tasks
      /\ task \in [Builders -> [pc : {"idle", "keys", "published", "allocate", "send", "answered"},
                                content : Contents, gen : Nat]]
  BY FeedParts, WorkTypes DEF OrderInv, FeedType, LoadedType, NoWork
<1>. HIDE DEF w
<1>1. ASSUME NEW v \in Work, Become(g, "poll", v), v.next \in {Nothing, w.next},
             UNCHANGED inbox,
             task'[g] = task[g] \/ task'[g].pc # "answered" \/ task'[g].gen = Last
      PROVE  InOrder(g)' /\ \A p \in Tasks : taken'[g][p] >= taken[g][p]
  <2>1. feed'[g]["poll"] = v /\ feed'[g]["bus"] = feed[g]["bus"]
    BY <1>0, <1>1, BecomeKeeps
  <2>2. \A p \in Tasks : feed'[g][p].next \in {Nothing, feed[g][p].next}
    BY <1>1, <2>1 DEF Tasks, w
  <2>3. \A p \in Tasks : taken[g][p] \in Nat
    BY DEF OrderInv
  <2>. QED
    BY <1>1, <2>2, <2>3, OrderMove
<1>2. CASE Ask(g)
  <2>1. [NoWork EXCEPT !.pc = "asked"] \in Work /\ [NoWork EXCEPT !.pc = "asked"].next = Nothing
    BY InitialValues DEF NoWork, Work
  <2>2. task'[g].pc = "keys"
    BY <1>0, <1>2 DEF Ask, ReadSystems
  <2>. QED
    BY <1>1, <1>2, <2>1, <2>2 DEF Ask
<1>3. CASE Handle(g)
  <2>1. task'[g].pc = "answered" => task'[g].gen = Last
    <3>1. CASE ReadKeys(g)
      <4>. DEFINE content == <<task[g].content[1], registry[2]>>
      <4>1. task'[g] = IF content \in Valid
                       THEN [pc |-> "published", content |-> content, gen |-> 0] ELSE Idle
        BY <1>0, <3>1 DEF ReadKeys
      <4>. QED
        BY <4>1 DEF Idle
    <3>2. CASE Answer(g)
      <4>1. task'[g] = IF Published(task[g].content)
                       THEN [pc |-> "answered", content |-> task[g].content, gen |-> Last]
                       ELSE Idle
        BY <1>0, <3>2 DEF Answer
      <4>. QED
        BY <4>1 DEF Idle
    <3>. QED
      BY <1>3, <3>1, <3>2 DEF Handle
  <2>2. UNCHANGED <<feed, inbox>>
    BY <1>3 DEF Handle, feedVars
  <2>3. \A p \in Tasks : taken[g][p] \in Nat
    BY DEF OrderInv
  <2>. QED
    BY <2>1, <2>2, <2>3, OrderMove
<1>4. CASE Refused(g) \/ Unreachable(g)
  <2>1. Become(g, "poll", NoWork) /\ UNCHANGED inbox
    BY <1>4 DEF Refused, Unreachable
  <2>2. task'[g] = task[g] \/ task'[g].pc # "answered"
    BY <1>0, <1>4 DEF Refused, Unreachable, vars, Idle
  <2>. QED
    BY <1>0, <1>1, <2>1, <2>2
<1>5. CASE Answered(g)
  <2>. DEFINE envelope == [gen |-> task[g].gen, content |-> task[g].content]
              pc == IF envelope.gen = loaded[g].gen THEN "confirm" ELSE "apply"
  <2>1. /\ Become(g, "poll", [NoWork EXCEPT !.next = envelope, !.pc = pc])
        /\ UNCHANGED <<inbox, bus, generations>> /\ task' = [task EXCEPT ![g] = Idle]
        /\ task[g].pc = "answered"
    BY <1>5 DEF Answered, At
  <2>2. envelope \in Snapshots /\ envelope.gen = task[g].gen
    BY <1>0 DEF Snapshots
  <2>3. [NoWork EXCEPT !.next = envelope, !.pc = pc] \in Work
    BY <2>2, InitialValues DEF NoWork, Work
  <2>4. [NoWork EXCEPT !.next = envelope, !.pc = pc].next = envelope
    BY DEF NoWork
  <2>5. feed'[g]["poll"].next = envelope /\ feed'[g]["bus"] = feed[g]["bus"]
    <3>1. PICK v : v = [NoWork EXCEPT !.next = envelope, !.pc = pc]
      OBVIOUS
    <3>2. v \in Work /\ v.next = envelope /\ Become(g, "poll", v)
      BY <2>1, <2>3, <2>4, <3>1
    <3>. HIDE DEF envelope
    <3>3. feed'[g]["poll"] = v /\ feed'[g]["bus"] = feed[g]["bus"]
      BY <1>0, <3>2, BecomeKeeps
    <3>. QED
      BY <3>2, <3>3
  <2>6. task[g].gen \in 1 .. Last /\ taken[g]["poll"] <= task[g].gen /\ taken[g]["poll"] \in Nat
    BY <1>0, <2>1 DEF FeedInv, PublisherInv, SentIsPublished, InOrder, At, OrderInv, Tasks
  <2>7. taken'[g]["poll"] = task[g].gen /\ taken'[g]["bus"] = taken[g]["bus"]
    <3>1. taken'[g]["poll"] = Took(g, "poll") /\ taken'[g]["bus"] = taken[g]["bus"]
      BY <1>0, <2>5, TakenIs
    <3>2. envelope # Nothing
      BY <2>2, <2>6 DEF Nothing
    <3>. QED
      BY <2>2, <2>5, <3>1, <3>2 DEF Took
  <2>8. \A p \in Tasks : feed'[g][p].next = Nothing \/ feed'[g][p].next.gen = taken'[g][p]
    BY TakenIs
  <2>9. task'[g].pc # "answered" /\ Last' = Last /\ inbox'[g] = inbox[g]
    BY <1>0, <2>1 DEF Idle, Last
  <2>10. InOrder(g)'
    BY <1>0, <2>1, <2>6, <2>7, <2>8, <2>9 DEF InOrder, At, Forward
  <2>11. taken[g]["bus"] \in Nat
    BY <1>0 DEF OrderInv
  <2>. QED
    BY <2>6, <2>7, <2>10, <2>11 DEF Tasks
<1>6. CASE ConfirmLoad(g)
  <2>1. /\ UNCHANGED <<inbox, task>>
        /\ Become(g, "poll", [w EXCEPT !.pc = "confirming", !.prev = loaded[g]])
    BY <1>6 DEF ConfirmLoad, vars, w
  <2>2. PICK v : v = [w EXCEPT !.pc = "confirming", !.prev = loaded[g]]
    OBVIOUS
  <2>3. v \in Work /\ v.next = w.next
    BY <1>0, <2>2 DEF Work
  <2>. QED
    BY <1>1, <2>1, <2>2, <2>3
<1>7. CASE ConfirmStore(g)
  BY <1>0, <1>1, <1>7 DEF ConfirmStore, vars
<1>. QED
  BY <1>2, <1>3, <1>4, <1>5, <1>6, <1>7 DEF Poll

(* A task that installs takes up nothing else until it is done.             *)
LEMMA InstallInOrder ==
  ASSUME OrderInv, OrderNext, Forward, NEW g \in Gateways, NEW p \in Tasks, Install(g, p)
  PROVE  InOrder(g)' /\ \A q \in Tasks : taken'[g][q] >= taken[g][q]
<1>. DEFINE w == feed[g][p]
<1>0. FeedType /\ w \in Work /\ NoWork \in Work /\ NoWork.next = Nothing /\ loaded[g] \in Snapshots
  BY FeedParts, WorkTypes DEF OrderInv, FeedType, LoadedType, NoWork
<1>. HIDE DEF w
<1>1. PICK v \in Work : Become(g, p, v) /\ v.next \in {Nothing, w.next}
  <2>1. CASE Apply(g, p)
    <3>1. PICK v : v = [w EXCEPT !.pc = "reload", !.previous = loaded[g]]
      OBVIOUS
    <3>2. v \in Work /\ v.next = w.next /\ Become(g, p, v)
      BY <1>0, <2>1, <3>1 DEF Work, Apply, w
    <3>. QED
      BY <3>2
  <2>2. CASE ReloadLoad(g, p)
    <3>1. PICK v : v = [w EXCEPT !.pc = "store", !.prev = loaded[g]]
      OBVIOUS
    <3>2. v \in Work /\ v.next = w.next /\ Become(g, p, v)
      BY <1>0, <2>2, <3>1 DEF Work, ReloadLoad, w
    <3>. QED
      BY <3>2
  <2>3. CASE ReloadStore(g, p)
    <3>1. PICK v : v = [w EXCEPT !.pc = "record"]
      OBVIOUS
    <3>2. v \in Work /\ v.next = w.next /\ Become(g, p, v)
      BY <1>0, <2>3, <3>1 DEF Work, ReloadStore, w
    <3>. QED
      BY <3>2
  <2>4. CASE RecordEvent(g, p) \/ RecordNothing(g, p)
    BY <1>0, <2>4 DEF RecordEvent, RecordNothing
  <2>. QED
    BY <2>1, <2>2, <2>3, <2>4 DEF Install
<1>2. UNCHANGED <<task, inbox>>
  BY DEF Install, Apply, ReloadLoad, ReloadStore, RecordEvent, RecordNothing, vars
<1>3. \A q \in Tasks : feed'[g][q].next \in {Nothing, feed[g][q].next}
  BY <1>0, <1>1, BecomeKeeps DEF w
<1>4. \A q \in Tasks : taken[g][q] \in Nat
  BY DEF OrderInv
<1>. QED
  BY <1>2, <1>3, <1>4, OrderMove

(* The watch buffers what the stream holds and takes it up first come, first *)
(* served; a new consumer begins with what the stream holds.                 *)
LEMMA WatchInOrder ==
  ASSUME OrderInv, OrderNext, Forward, NEW g \in Gateways, Watch(g)
  PROVE  InOrder(g)' /\ \A p \in Tasks : taken'[g][p] >= taken[g][p]
<1>0. /\ FeedInv /\ FeedType /\ InOrder(g)
      /\ inbox \in [Gateways -> Seq(Snapshots)] /\ inbox[g] \in Seq(Snapshots)
      /\ taken[g]["poll"] \in Nat /\ taken[g]["bus"] \in Nat
      /\ "poll" \in Tasks /\ "bus" \in Tasks /\ \A p \in Tasks : taken[g][p] \in Nat
      /\ \A i \in 1 .. Len(inbox[g]) : inbox[g][i] \in Snapshots /\ inbox[g][i].gen \in Nat
  <2>1. FeedInv /\ FeedType /\ InOrder(g)
    BY FeedParts DEF OrderInv
  <2>2. inbox \in [Gateways -> Seq(Snapshots)] /\ inbox[g] \in Seq(Snapshots)
    BY FeedParts DEF OrderInv, InboxType
  <2>3. "poll" \in Tasks /\ "bus" \in Tasks
    BY DEF Tasks
  <2>4. \A p \in Tasks : taken[g][p] \in Nat
    BY DEF OrderInv
  <2>5. \A i \in 1 .. Len(inbox[g]) : inbox[g][i] \in Snapshots
    BY <2>2
  <2>. QED
    BY <2>1, <2>2, <2>3, <2>4, <2>5 DEF Snapshots
<1>1. \A p \in Tasks : feed'[g][p].next = Nothing \/ feed'[g][p].next.gen = taken'[g][p]
  BY TakenIs
<1>2. bus' = bus /\ Last' = Last /\ task' = task
  BY DEF Watch, Fetch, Deliver, Resubscribe, vars, Last
<1>3. CASE Fetch(g)
  <2>1. UNCHANGED feed /\ inbox'[g] = Append(inbox[g], bus.msg)
    BY <1>0, <1>3 DEF Fetch
  <2>2. \A p \in Tasks : taken'[g][p] = taken[g][p]
    BY <2>1, TakenIs
  <2>3. /\ bus.msg \in Snapshots
        /\ Len(inbox'[g]) = Len(inbox[g]) + 1
        /\ \A i \in 1 .. Len(inbox[g]) : inbox'[g][i] = inbox[g][i]
        /\ inbox'[g][Len(inbox[g]) + 1] = bus.msg
    BY <1>0, <2>1 DEF FeedInv, PublisherInv, TypeOK
  <2>4. ASSUME NEW i \in 1 .. Len(inbox'[g])
        PROVE  taken[g]["bus"] <= inbox'[g][i].gen /\ inbox'[g][i].gen <= bus.msg.gen
    <3>1. CASE i \in 1 .. Len(inbox[g])
      BY <1>0, <2>3, <3>1 DEF InOrder
    <3>2. CASE i = Len(inbox[g]) + 1
      BY <1>0, <2>3, <3>2 DEF InOrder, Forward, Stream
    <3>. QED
      BY <1>0, <2>3, <2>4, <3>1, <3>2
  <2>5. ASSUME NEW i \in 1 .. Len(inbox'[g]), NEW j \in 1 .. Len(inbox'[g]), i < j
        PROVE  inbox'[g][i].gen <= inbox'[g][j].gen
    <3>1. i \in 1 .. Len(inbox[g])
      BY <1>0, <2>3, <2>5
    <3>. QED
      <4>1. CASE j \in 1 .. Len(inbox[g])
        BY <1>0, <2>3, <2>5, <3>1, <4>1 DEF InOrder
      <4>2. CASE j = Len(inbox[g]) + 1
        BY <1>0, <2>3, <3>1, <4>2 DEF InOrder
      <4>. QED
        BY <1>0, <2>3, <2>5, <4>1, <4>2
  <2>6. InOrder(g)'
    BY <1>0, <1>1, <1>2, <2>2, <2>4, <2>5 DEF InOrder, At
  <2>. QED
    BY <1>0, <2>2, <2>6
<1>4. CASE Deliver(g)
  <2>1. inbox[g] # <<>> /\ inbox'[g] = Tail(inbox[g]) /\ Len(inbox[g]) >= 1
    BY <1>0, <1>4 DEF Deliver
  <2>. DEFINE msg == inbox[g][1]
  <2>2. /\ msg \in Snapshots /\ msg.gen \in Nat /\ taken[g]["bus"] <= msg.gen /\ msg.gen <= bus.msg.gen
        /\ Head(inbox[g]) = msg
    BY <1>0, <2>1 DEF InOrder
  <2>3. feed'[g]["bus"].next = msg /\ feed'[g]["poll"] = feed[g]["poll"]
    <3>1. [NoWork EXCEPT !.pc = "apply", !.next = msg] \in Work
      BY <2>2, InitialValues DEF NoWork, Work
    <3>2. [NoWork EXCEPT !.pc = "apply", !.next = msg].next = msg
      BY DEF NoWork
    <3>3. Become(g, "bus", [NoWork EXCEPT !.pc = "apply", !.next = msg])
      BY <1>4, <2>2 DEF Deliver
    <3>. QED
      <4>1. PICK v : v = [NoWork EXCEPT !.pc = "apply", !.next = msg]
        OBVIOUS
      <4>2. v \in Work /\ v.next = msg /\ Become(g, "bus", v)
        BY <3>1, <3>2, <3>3, <4>1
      <4>3. feed'[g]["bus"] = v /\ feed'[g]["poll"] = feed[g]["poll"]
        BY <1>0, <4>2, BecomeKeeps
      <4>. QED
        BY <4>2, <4>3
  <2>4. taken'[g]["poll"] = taken[g]["poll"]
    BY <1>0, <2>3, TakenIs
  <2>5. taken[g]["bus"] <= taken'[g]["bus"] /\ taken'[g]["bus"] <= msg.gen /\ taken'[g]["bus"] \in Nat
    <3>1. taken'[g]["bus"] = Took(g, "bus") /\ taken'[g]["bus"] \in Nat
      BY <1>0, TakenIs
    <3>. QED
      BY <1>0, <2>2, <2>3, <3>1 DEF Took
  <2>6. /\ Len(inbox'[g]) = Len(inbox[g]) - 1
        /\ \A i \in 1 .. Len(inbox'[g]) : inbox'[g][i] = inbox[g][i + 1] /\ i + 1 \in 1 .. Len(inbox[g])
    BY <1>0, <2>1
  <2>. HIDE DEF msg
  <2>7. ASSUME NEW i \in 1 .. Len(inbox'[g])
        PROVE  taken'[g]["bus"] <= inbox'[g][i].gen /\ inbox'[g][i].gen <= bus.msg.gen
    <3>1. inbox'[g][i] = inbox[g][i + 1] /\ i + 1 \in 1 .. Len(inbox[g]) /\ 1 < i + 1
      BY <2>6
    <3>2. 1 \in 1 .. Len(inbox[g])
      BY <1>0, <2>1
    <3>3. msg.gen <= inbox[g][i + 1].gen /\ inbox[g][i + 1].gen \in Nat
      BY <1>0, <3>1, <3>2 DEF InOrder, msg
    <3>. QED
      BY <1>0, <2>2, <2>5, <3>1, <3>3 DEF InOrder
  <2>8. ASSUME NEW i \in 1 .. Len(inbox'[g]), NEW j \in 1 .. Len(inbox'[g]), i < j
        PROVE  inbox'[g][i].gen <= inbox'[g][j].gen
    <3>1. /\ inbox'[g][i] = inbox[g][i + 1] /\ i + 1 \in 1 .. Len(inbox[g])
          /\ inbox'[g][j] = inbox[g][j + 1] /\ j + 1 \in 1 .. Len(inbox[g]) /\ i + 1 < j + 1
      BY <2>6, <2>8
    <3>. QED
      BY <1>0, <3>1 DEF InOrder
  <2>9. taken'[g]["bus"] <= bus.msg.gen
    BY <2>2, <2>5 DEF Forward, Stream
  <2>10. InOrder(g)'
    BY <1>0, <1>1, <1>2, <2>4, <2>7, <2>8, <2>9 DEF InOrder, At
  <2>. QED
    BY <1>0, <2>4, <2>5, <2>10 DEF Tasks
<1>5. CASE Resubscribe(g)
  <2>1. UNCHANGED feed /\ inbox'[g] = <<>>
    BY <1>0, <1>5 DEF Resubscribe
  <2>2. \A p \in Tasks : taken'[g][p] = taken[g][p]
    BY <2>1, TakenIs
  <2>3. InOrder(g)'
    BY <1>0, <1>1, <1>2, <2>1, <2>2 DEF InOrder, At
  <2>. QED
    BY <1>0, <2>2, <2>3
<1>. QED
  BY <1>3, <1>4, <1>5 DEF Watch

LEMMA OrderStep ==
  ASSUME \A r, q \in Replicas : r = q, OrderInv, OrderNext
  PROVE  OrderInv' /\ \A g \in Gateways, p \in Tasks : taken'[g][p] >= taken[g][p]
<1>0. FeedInv /\ FeedInv' /\ FeedNext /\ [FeedNext]_allVars
  BY FeedStepKeeps DEF OrderInv, OrderNext
<1>1. SentIsLast' /\ Forward
  BY <1>0, SendsInOrder DEF OrderInv, Forward, Stream
<1>2. taken' \in [Gateways -> [Tasks -> Nat]]
  <2>1. \A g \in Gateways, p \in Tasks : Took(g, p) \in Nat
    BY TakenIs
  <2>. QED
    BY <2>1 DEF OrderNext
<1>3. ASSUME NEW h \in Gateways, SameGateway(h)
      PROVE  InOrder(h)' /\ \A p \in Tasks : taken'[h][p] >= taken[h][p]
  <2>1. InOrder(h)' /\ \A p \in Tasks : taken'[h][p] = taken[h][p]
    BY <1>1, <1>3, OrderMove DEF SameGateway
  <2>2. \A p \in Tasks : taken[h][p] \in Nat
    BY DEF OrderInv
  <2>. QED
    BY <2>1, <2>2
<1>4. ASSUME NEW h \in Gateways
      PROVE  InOrder(h)' /\ \A p \in Tasks : taken'[h][p] >= taken[h][p]
  <2>1. CASE Control
    BY <1>0, <1>3, <2>1, ControlStays
  <2>2. CASE Tick
    BY <1>3, <2>2 DEF Tick, vars, SameGateway
  <2>3. ASSUME NEW g \in Gateways, Poll(g) \/ Watch(g) \/ \E p \in Tasks : Install(g, p)
        PROVE  InOrder(h)' /\ \A p \in Tasks : taken'[h][p] >= taken[h][p]
    <3>1. CASE g = h
      BY <1>1, <2>3, <3>1, PollInOrder, WatchInOrder, InstallInOrder
    <3>2. CASE g # h
      BY <1>0, <1>3, <2>3, <3>2, OthersStay
    <3>. QED
      BY <3>1, <3>2
  <2>. QED
    BY <1>0, <2>1, <2>2, <2>3 DEF FeedNext
<1>. QED
  BY <1>0, <1>1, <1>2, <1>4 DEF OrderInv

LEMMA OrderInitially == OrderInit => OrderInv
<1>. SUFFICES ASSUME OrderInit PROVE OrderInv
  OBVIOUS
<1>1. FeedInv /\ FeedInit
  BY FeedInitially DEF OrderInit
<1>2. taken \in [Gateways -> [Tasks -> Nat]]
  BY DEF OrderInit
<1>3. SentIsLast
  BY <1>1 DEF FeedInit, Init, SentIsLast, At, Idle, Builders
<1>4. ASSUME NEW g \in Gateways PROVE InOrder(g)
  <2>1. /\ \A p \in Tasks : taken[g][p] = 0 /\ feed[g][p].next = Nothing
        /\ inbox[g] = <<>> /\ task[g].pc = "idle"
    BY <1>1 DEF OrderInit, FeedInit, Init, NoWork, Idle, Builders
  <2>2. taken[g]["poll"] = 0 /\ taken[g]["bus"] = 0 /\ bus.msg.gen = 0 /\ Last = 0
    BY <1>1, <2>1 DEF Tasks, FeedInit, Init, Nothing, Last
  <2>. QED
    BY <2>1, <2>2 DEF InOrder, At
<1>. QED
  BY <1>1, <1>2, <1>3, <1>4 DEF OrderInv

(* With one control plane, each task of a gateway takes up the generations  *)
(* in their order: however answers and messages are delayed or lost, sends  *)
(* and polls fail, subscriptions are renewed and the control plane crashes, *)
(* and however the installs of the two tasks interleave (poll_once, watch). *)
THEOREM TasksTakeUpInOrder ==
  ASSUME \A r, q \in Replicas : r = q
  PROVE  OrderSpec => TasksInOrder
<1>1. OrderInv /\ [OrderNext]_orderVars => OrderInv'
  <2>1. CASE UNCHANGED orderVars
    BY <2>1
    DEF orderVars, allVars, vars, feedVars, OrderInv, FeedInv, PublisherInv, FeedTypeOK, PinnedFeed,
        TypeOK, BuiltIsValid, SentIsPublished, BusIsPinned, SentIsLast, InOrder, At, Last
  <2>. QED
    BY <2>1, OrderStep
<1>2. ASSUME OrderInv, [OrderNext]_orderVars
      PROVE  [\A g \in Gateways, p \in Tasks : taken'[g][p] >= taken[g][p]]_orderVars
  BY <1>2, OrderStep
<1>. QED
  BY <1>1, <1>2, OrderInitially, PTL DEF OrderSpec, TasksInOrder
=============================================================================
