-------------------------- MODULE SnapshotPublisher --------------------------
(***************************************************************************)
(* How the control plane publishes configuration: replicas build a         *)
(* snapshot from the registry, give it the next generation if its content  *)
(* is new, and put it on the bus; the read API answers with the content    *)
(* that was published last.                                                *)
(*                                                                         *)
(*   crates/ancre-control/src/snapshot.rs   build, publish, current        *)
(*   crates/ancre-control/src/postgres.rs   the generations, under a lock  *)
(*   crates/ancre-control/src/bus.rs        the stream that keeps one      *)
(*   crates/ancre-control/src/main.rs       the publish loop               *)
(*                                                                         *)
(* A content is a pair of what the two queries of a build return, the      *)
(* systems and the keys; its hash is the content itself.                   *)
(***************************************************************************)
EXTENDS Integers, Sequences

CONSTANTS
  Systems,    \* what the systems and routes tables may hold
  KeySets,    \* what the api_keys table may hold
  Valid,      \* the contents ConfigSnapshot::build accepts
  Registry0,  \* the registry at first
  Replicas,   \* the control planes
  Gateways,   \* the gateways, which ask for the snapshot
  MaxEdits,   \* bound: how often the registry is edited
  Faults      \* what can go wrong in this instance

(***************************************************************************)
(* "send"         a publish to the bus fails.                              *)
(* "crash"        a replica dies and restarts.                             *)
(* "unreachable"  a poll fails, at any point of it.                        *)
(* "resubscribe"  the subscription of a gateway breaks and is renewed.     *)
(* "slow"         time passes while a poll is under way.                   *)
(***************************************************************************)
FaultKinds == {"send", "crash", "unreachable", "resubscribe", "slow"}

Contents == Systems \X KeySets

ASSUME Parameters ==
  /\ Valid \subseteq Contents
  /\ Registry0 \in Contents
  /\ Replicas \cap Gateways = {}
  /\ MaxEdits \in Nat
  /\ Faults \subseteq FaultKinds

VARIABLES
  registry,     \* systems and keys, as they are in Postgres
  edits,        \* how often the registry was edited
  generations,  \* snapshot_generations: the content of each generation
  bus,          \* the stream: its last sequence, and the one message it keeps
  task          \* task[b]: a replica's publish, or the handler of a request

vars == <<registry, edits, generations, bus, task>>

Builders == Replicas \cup Gateways
Snapshots == [gen : Nat, content : Contents]
Nothing == [gen |-> 0, content |-> Registry0]
Idle == [pc |-> "idle", content |-> Registry0, gen |-> 0]

Last == Len(generations)
Published(content) == Last > 0 /\ generations[Last] = content
At(b, pc) == task[b].pc = pc

Init ==
  /\ registry = Registry0 /\ edits = 0
  /\ generations = <<>>
  /\ bus = [seq |-> 0, msg |-> Nothing]
  /\ task = [b \in Builders |-> Idle]

\* The registry is edited out of band.
Edit ==
  /\ edits < MaxEdits
  /\ edits' = edits + 1
  /\ registry' \in Contents \ {registry}
  /\ UNCHANGED <<generations, bus, task>>

-----------------------------------------------------------------------------
(* SnapshotBuilder::build *)

ReadSystems(b) ==
  /\ At(b, "idle")
  /\ task' = [task EXCEPT ![b].pc = "keys", ![b].content = registry]
  /\ UNCHANGED <<registry, edits, generations, bus>>

\* The keys are a query of their own; a snapshot that would not build is refused.
ReadKeys(b) ==
  /\ At(b, "keys")
  /\ LET content == <<task[b].content[1], registry[2]>>
     IN task' = [task EXCEPT ![b] =
                   IF content \in Valid
                   THEN [pc |-> "published", content |-> content, gen |-> 0]
                   ELSE Idle]
  /\ UNCHANGED <<registry, edits, generations, bus>>

-----------------------------------------------------------------------------
(* SnapshotBuilder::publish *)

Unchanged(r) ==
  /\ At(r, "published") /\ Published(task[r].content)
  /\ task' = [task EXCEPT ![r] = Idle]
  /\ UNCHANGED <<registry, edits, generations, bus>>

(* Publishing without comparing with the content published last.            *)
ChangedAlways(r) ==
  /\ At(r, "published")
  /\ task' = [task EXCEPT ![r].pc = "allocate"]
  /\ UNCHANGED <<registry, edits, generations, bus>>

(* Publishing a content that had a generation before under that generation. *)
ChangedReuses(r) ==
  LET Earlier == {i \in 1 .. Last : generations[i] = task[r].content}
  IN /\ At(r, "published") /\ ~Published(task[r].content)
     /\ task' = [task EXCEPT ![r] =
                   IF Earlier = {} THEN [@ EXCEPT !.pc = "allocate"]
                   ELSE [@ EXCEPT !.pc = "send", !.gen = CHOOSE i \in Earlier : TRUE]]
     /\ UNCHANGED <<registry, edits, generations, bus>>

Changed(r) ==
  /\ At(r, "published") /\ ~Published(task[r].content)
  /\ task' = [task EXCEPT ![r].pc = "allocate"]
  /\ UNCHANGED <<registry, edits, generations, bus>>

\* One transaction, under an advisory lock.
Allocate(r) ==
  /\ At(r, "allocate")
  /\ generations' = Append(generations, task[r].content)
  /\ task' = [task EXCEPT ![r].pc = "send", ![r].gen = Last + 1]
  /\ UNCHANGED <<registry, edits, bus>>

(* Sending what the registry holds now under the allocated generation.      *)
SendRebuilt(r) ==
  /\ At(r, "send")
  /\ bus' = [seq |-> bus.seq + 1, msg |-> [gen |-> task[r].gen, content |-> registry]]
  /\ task' = [task EXCEPT ![r] = Idle]
  /\ UNCHANGED <<registry, edits, generations>>

\* The stream keeps the last message only; an error after it is stored, or a
\* success, leave the same state.
Send(r) ==
  /\ At(r, "send")
  /\ bus' = [seq |-> bus.seq + 1,
             msg |-> [gen |-> task[r].gen, content |-> task[r].content]]
  /\ task' = [task EXCEPT ![r] = Idle]
  /\ UNCHANGED <<registry, edits, generations>>

\* The generation is burned.
SendFails(r) ==
  /\ "send" \in Faults
  /\ At(r, "send")
  /\ task' = [task EXCEPT ![r] = Idle]
  /\ UNCHANGED <<registry, edits, generations, bus>>

Crash(r) ==
  /\ "crash" \in Faults
  /\ task' = [task EXCEPT ![r] = Idle]
  /\ UNCHANGED <<registry, edits, generations, bus>>

-----------------------------------------------------------------------------
(* SnapshotBuilder::current, for GET /v1/snapshot *)

(* Answering with what was built, under the generation published last.      *)
AnswerUnpublished(g) ==
  /\ At(g, "published")
  /\ task' = [task EXCEPT ![g] =
                IF Last > 0
                THEN [pc |-> "answered", content |-> task[g].content, gen |-> Last]
                ELSE Idle]
  /\ UNCHANGED <<registry, edits, generations, bus>>

(* Answering with the first generation that had this content.               *)
AnswerOldest(g) ==
  LET Same == {i \in 1 .. Last : generations[i] = task[g].content}
  IN /\ At(g, "published")
     /\ task' = [task EXCEPT ![g] =
                   IF Same # {}
                   THEN [pc |-> "answered", content |-> task[g].content,
                         gen |-> CHOOSE i \in Same : \A j \in Same : i <= j]
                   ELSE Idle]
     /\ UNCHANGED <<registry, edits, generations, bus>>

\* What was built is served if it is what was published, and refused if not.
Answer(g) ==
  /\ At(g, "published")
  /\ task' = [task EXCEPT ![g] =
                IF Published(task[g].content)
                THEN [pc |-> "answered", content |-> task[g].content, gen |-> Last]
                ELSE Idle]
  /\ UNCHANGED <<registry, edits, generations, bus>>

-----------------------------------------------------------------------------
PublishStep(r) ==
  \/ ReadSystems(r) \/ ReadKeys(r) \/ Unchanged(r) \/ Changed(r)
  \/ Allocate(r) \/ Send(r)

Publish(r) == PublishStep(r) \/ SendFails(r) \/ Crash(r)

Next == Edit \/ \E r \in Replicas : Publish(r)

Spec == Init /\ [][Next]_vars

-----------------------------------------------------------------------------
(* What publishing promises *)

(* Every variable stays within its type.                                    *)
TypeOK ==
  /\ registry \in Contents
  /\ edits \in 0 .. MaxEdits
  /\ generations \in Seq(Valid)
  /\ bus \in [seq : Nat, msg : Snapshots]
  /\ task \in [Builders -> [pc : {"idle", "keys", "published", "allocate", "send", "answered"},
                            content : Contents, gen : Nat]]

(* A generation identifies one content: what is on the bus under a number   *)
(* is what the registry of generations holds for it, also when the registry *)
(* is edited or another replica publishes meanwhile.                        *)
BusHoldsPublished ==
  bus.seq > 0 => /\ bus.msg.gen \in 1 .. Last
                 /\ bus.msg.content = generations[bus.msg.gen]

(* A rebuild that changed nothing mints no generation.                      *)
EveryGenerationIsAChange ==
  \A i \in 1 .. Last - 1 : generations[i] # generations[i + 1]

(* With one control plane, what is on the bus never goes back.              *)
BusMovesForward == [][bus'.msg.gen >= bus.msg.gen]_vars

(* A publish that finds its content unchanged says that the configuration   *)
(* on the wire is current.                                                  *)
UnchangedIsOnTheWire ==
  [][\A r \in Replicas : Unchanged(r) => bus.msg.gen = Last]_vars
=============================================================================
