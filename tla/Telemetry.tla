----------------------------- MODULE Telemetry -----------------------------
(***************************************************************************)
(* The telemetry fork of the gateway: request tasks emit events into a     *)
(* bounded channel, a batcher publishes them in batches, and every event   *)
(* that does not make it is counted per chain and reported as a            *)
(* `telemetry.dropped` event once a publish succeeds again.                *)
(*                                                                         *)
(*   crates/ancre-gateway/src/telemetry.rs   fork, drop counter, batcher   *)
(*   crates/ancre-gateway/src/bus.rs         the publish to JetStream      *)
(*   crates/ancre-gateway/src/main.rs        the process they live in      *)
(*                                                                         *)
(* Request tasks run in parallel with the batcher; a lock guards the drop  *)
(* windows, and the clock is read outside of it.                           *)
(***************************************************************************)
EXTENDS Integers, Sequences, FiniteSets

CONSTANTS
  Chains,      \* the (tenant_id, system_id) pairs
  Unknown,     \* the chain unknown/unknown
  Events,      \* the events that requests emit
  ChainOf,     \* ChainOf[e]: the chain of event e
  Capacity,    \* of the channel
  MaxEvents,   \* BatchConfig::max_events
  MaxTracked,  \* MAX_TRACKED_CHAINS
  MaxTime,     \* bound: the last instant of the clock
  MaxFailures, \* bound: how many publishes fail
  Faults       \* what else can happen in this instance

(***************************************************************************)
(* "partial"  a publish that fails has stored some of its events.          *)
(* "close"    the last fork is dropped while the batcher lives on.         *)
(* "exit"     the process gets its shutdown signal and main returns.       *)
(***************************************************************************)
FaultKinds == {"partial", "close", "exit"}

Keys == Chains \cup {Unknown}
Times == 0 .. MaxTime
None == "none"       \* no chain

ASSUME Parameters ==
  /\ IsFiniteSet(Events)
  /\ ChainOf \in [Events -> Chains]
  /\ None \notin Keys
  /\ Capacity \in Nat \ {0}
  /\ MaxEvents \in Nat \ {0}
  /\ MaxTracked \in Nat
  /\ MaxTime \in Nat
  /\ MaxFailures \in Nat
  /\ Faults \subseteq FaultKinds

VARIABLES
  emitted,   \* the events `emit` has been called for
  queue,     \* the channel
  refused,   \* events the channel refused, not yet recorded: when
  windows,   \* DropCounter.windows: a map from keys to spans
  now,       \* the clock
  pc,        \* where the batcher is
  batch,     \* run's batch; in "record", what of it is still to be recorded
  stamp,     \* record's `now` of the batcher, once it is read
  taken,     \* recover's windows
  stream,    \* the events that are on the JetStream stream
  reported,  \* reported[k]: lost events of k in drop events on the stream
  charged,   \* history: under which key the loss of an event was recorded
  closed,    \* every fork is dropped
  final,     \* run is in the flush that follows the closing
  failures   \* how many publishes have failed

forkVars == <<emitted, queue, refused, closed>>
vars == <<forkVars, windows, now, pc, batch, stamp, taken, stream, reported,
          charged, final, failures>>

-----------------------------------------------------------------------------
(* DropCounter *)

Span == [count : Nat \ {0}, first : Times, last : Times]
NoStamp == -1

EmptyMap == [k \in {} |-> 0]
Put(f, k, v) == [x \in DOMAIN f \cup {k} |-> IF x = k THEN v ELSE f[x]]
Without(f, k) == [x \in DOMAIN f \ {k} |-> f[x]]
Earlier(s, t) == IF s <= t THEN s ELSE t
Later(s, t) == IF s <= t THEN t ELSE s

\* Past the limit a drop is recorded under unknown/unknown.
KeyFor(c) ==
  IF Cardinality(DOMAIN windows) >= MaxTracked /\ c \notin DOMAIN windows
  THEN Unknown ELSE c

\* `and_modify` for a window that is there, `or_insert` for one that is not.
Recorded(k, at) ==
  Put(windows, k,
      IF k \in DOMAIN windows
      THEN [windows[k] EXCEPT !.count = @ + 1, !.last = at]
      ELSE [count |-> 1, first |-> at, last |-> at])

Merged(s, w) ==
  [count |-> s.count + w.count,
   first |-> Earlier(s.first, w.first), last |-> Later(s.last, w.last)]

(* Putting windows back over those recorded meanwhile; not putting them back. *)
RestoredOver ==
  [k \in DOMAIN windows \cup DOMAIN taken |->
     IF k \in DOMAIN taken THEN taken[k] ELSE windows[k]]
NotRestored == windows

Restored ==
  [k \in DOMAIN windows \cup DOMAIN taken |->
     CASE k \notin DOMAIN taken   -> windows[k]
       [] k \notin DOMAIN windows -> taken[k]
       [] OTHER                   -> Merged(windows[k], taken[k])]

-----------------------------------------------------------------------------
Init ==
  /\ emitted = {} /\ queue = <<>> /\ refused = EmptyMap /\ closed = FALSE
  /\ windows = EmptyMap /\ now = 0
  /\ pc = "recv" /\ batch = {} /\ stamp = NoStamp /\ taken = EmptyMap
  /\ stream = {} /\ reported = [k \in Keys |-> 0]
  /\ charged = [e \in Events |-> None]
  /\ final = FALSE /\ failures = 0

Alive == pc # "exited"

-----------------------------------------------------------------------------
(* TelemetryFork::emit, from any request task *)

(* A drop recorded whatever `try_send` returned.                           *)
EmitRecordsAlways(e) ==
  /\ Alive /\ ~closed /\ e \notin emitted
  /\ emitted' = emitted \cup {e}
  /\ refused' = Put(refused, e, now)
  /\ queue' = IF Len(queue) < Capacity THEN Append(queue, e) ELSE queue
  /\ UNCHANGED <<closed, windows, now, pc, batch, stamp, taken, stream,
                 reported, charged, final, failures>>

Emit(e) ==
  /\ Alive /\ ~closed /\ e \notin emitted
  /\ emitted' = emitted \cup {e}
  /\ \/ /\ Len(queue) < Capacity
        /\ queue' = Append(queue, e)
        /\ UNCHANGED refused
     \/ /\ Len(queue) >= Capacity
        /\ refused' = Put(refused, e, now)
        /\ UNCHANGED queue
  /\ UNCHANGED <<closed, windows, now, pc, batch, stamp, taken, stream,
                 reported, charged, final, failures>>

\* The request task gets the lock.
Record(e) ==
  /\ Alive /\ e \in DOMAIN refused
  /\ windows' = Recorded(KeyFor(ChainOf[e]), refused[e])
  /\ charged' = [charged EXCEPT ![e] = KeyFor(ChainOf[e])]
  /\ refused' = Without(refused, e)
  /\ UNCHANGED <<emitted, queue, closed, now, pc, batch, stamp, taken, stream,
                 reported, final, failures>>

Close ==
  /\ "close" \in Faults
  /\ Alive /\ ~closed /\ refused = EmptyMap
  /\ closed' = TRUE
  /\ UNCHANGED <<emitted, queue, refused, windows, now, pc, batch, stamp,
                 taken, stream, reported, charged, final, failures>>

-----------------------------------------------------------------------------
(* Batcher::run *)

\* `recv` gives an event, and `try_recv` whatever else is queued ...
Receive ==
  /\ \/ pc = "recv"
     \/ pc = "drain" /\ Cardinality(batch) < MaxEvents
  /\ queue # <<>>
  /\ batch' = batch \cup {Head(queue)}
  /\ queue' = Tail(queue)
  /\ pc' = "drain"
  /\ UNCHANGED <<emitted, refused, closed, windows, now, stamp, taken, stream,
                 reported, charged, final, failures>>

\* ... until the batch is full or nothing is queued.
Drained ==
  /\ pc = "drain"
  /\ \/ /\ Cardinality(batch) >= MaxEvents
        /\ pc' = "publish"
     \/ /\ Cardinality(batch) < MaxEvents /\ queue = <<>>
        /\ pc' = "recv"
  /\ UNCHANGED <<forkVars, windows, now, batch, stamp, taken, stream, reported,
                 charged, final, failures>>

(* A flush that has nothing to do when there is no batch.                  *)
FlushBatchOnly ==
  /\ pc = "recv" /\ queue = <<>>
  /\ final' = closed
  /\ pc' = IF batch = {} THEN "recv" ELSE "publish"
  /\ UNCHANGED <<forkVars, windows, now, batch, stamp, taken, stream, reported,
                 charged, failures>>

\* Idle past max_wait, or the channel is closed: flush.
Flush ==
  /\ pc = "recv" /\ queue = <<>>
  /\ final' = closed
  /\ pc' = IF batch = {} THEN "recover" ELSE "publish"
  /\ UNCHANGED <<forkVars, windows, now, batch, stamp, taken, stream, reported,
                 charged, failures>>

-----------------------------------------------------------------------------
(* Batcher::flush *)

PublishOk ==
  /\ pc = "publish"
  /\ stream' = stream \cup batch
  /\ batch' = {}
  /\ pc' = "recover"
  /\ UNCHANGED <<forkVars, windows, now, stamp, taken, reported, charged,
                 final, failures>>

\* What a failed publish leaves on the stream.
Leftovers(S) == IF "partial" \in Faults THEN SUBSET S ELSE {{}}

(* A batch whose publish failed and that is not recorded.                  *)
PublishFailsUncounted ==
  /\ pc = "publish" /\ failures < MaxFailures
  /\ failures' = failures + 1
  /\ batch' = {} /\ pc' = "recover"
  /\ UNCHANGED <<forkVars, windows, now, stamp, taken, stream, reported,
                 charged, final>>

PublishFails ==
  /\ pc = "publish" /\ failures < MaxFailures
  /\ \E some \in Leftovers(batch) : stream' = stream \cup some
  /\ failures' = failures + 1
  /\ pc' = "record"
  /\ UNCHANGED <<forkVars, windows, now, batch, stamp, taken, reported, charged, final>>

\* The batch is recorded event by event; `record` reads the clock ...
ReadClock ==
  /\ pc = "record" /\ stamp = NoStamp
  /\ stamp' = now
  /\ UNCHANGED <<forkVars, windows, now, pc, batch, taken, stream, reported,
                 charged, final, failures>>

\* ... and gets the lock.
RecordFailed(e) ==
  /\ pc = "record" /\ stamp # NoStamp /\ e \in batch
  /\ windows' = Recorded(KeyFor(ChainOf[e]), stamp)
  /\ charged' = [charged EXCEPT ![e] = KeyFor(ChainOf[e])]
  /\ batch' = batch \ {e}
  /\ stamp' = NoStamp
  /\ pc' = IF batch' = {} THEN "recover" ELSE "record"
  /\ UNCHANGED <<forkVars, now, taken, stream, reported, final, failures>>

-----------------------------------------------------------------------------
(* Batcher::recover *)

\* `run` returns after the flush that follows the closing of the channel.
AfterFlush == IF final THEN "done" ELSE "recv"

Take ==
  /\ pc = "recover"
  /\ taken' = windows
  /\ windows' = EmptyMap
  /\ pc' = IF windows = EmptyMap THEN AfterFlush ELSE "report"
  /\ UNCHANGED <<forkVars, now, batch, stamp, stream, reported, charged, final, failures>>

Reporting(ks) ==
  [k \in Keys |-> IF k \in ks THEN reported[k] + taken[k].count ELSE reported[k]]

ReportOk ==
  /\ pc = "report"
  /\ reported' = Reporting(DOMAIN taken)
  /\ taken' = EmptyMap
  /\ pc' = AfterFlush
  /\ UNCHANGED <<forkVars, windows, now, batch, stamp, stream, charged, final, failures>>

ReportFails ==
  /\ pc = "report" /\ failures < MaxFailures
  /\ \E some \in Leftovers(DOMAIN taken) : reported' = Reporting(some)
  /\ windows' = Restored
  /\ taken' = EmptyMap
  /\ failures' = failures + 1
  /\ pc' = AfterFlush
  /\ UNCHANGED <<forkVars, now, batch, stamp, stream, charged, final>>

-----------------------------------------------------------------------------
\* The shutdown signal: `serve` returns, main returns, and the runtime drops
\* the batcher and the requests where they stand.
Exit ==
  /\ "exit" \in Faults /\ Alive
  /\ pc' = "exited"
  /\ queue' = <<>> /\ refused' = EmptyMap /\ windows' = EmptyMap
  /\ batch' = {} /\ stamp' = NoStamp /\ taken' = EmptyMap
  /\ UNCHANGED <<emitted, closed, now, stream, reported, charged, final, failures>>

ClockTicks ==
  /\ now < MaxTime
  /\ now' = now + 1
  /\ UNCHANGED <<forkVars, windows, pc, batch, stamp, taken, stream, reported,
                 charged, final, failures>>

Stopped ==
  /\ pc \in {"done", "exited"}
  /\ UNCHANGED vars

Next ==
  \/ \E e \in Events : Emit(e) \/ Record(e) \/ RecordFailed(e)
  \/ Close \/ Receive \/ Drained \/ Flush
  \/ PublishOk \/ PublishFails \/ ReadClock
  \/ Take \/ ReportOk \/ ReportFails
  \/ Exit \/ ClockTicks \/ Stopped

Spec == Init /\ [][Next]_vars

-----------------------------------------------------------------------------
(* What telemetry promises *)

InQueue == {queue[i] : i \in DOMAIN queue}
CountIn(f, k) == IF k \in DOMAIN f THEN f[k].count ELSE 0
ChargedTo(k) == {e \in Events : charged[e] = k}
IsMap(f) == DOMAIN f \subseteq Keys /\ f \in [DOMAIN f -> Span]

(* Every variable stays within its type.                                    *)
TypeOK ==
  /\ emitted \subseteq Events
  /\ queue \in Seq(Events) /\ Len(queue) <= Capacity
  /\ DOMAIN refused \subseteq Events /\ refused \in [DOMAIN refused -> Times]
  /\ closed \in BOOLEAN /\ final \in BOOLEAN
  /\ IsMap(windows) /\ IsMap(taken)
  /\ now \in Times /\ stamp \in Times \cup {NoStamp}
  /\ pc \in {"recv", "drain", "publish", "record", "recover", "report", "done", "exited"}
  /\ batch \subseteq Events
  /\ stream \subseteq Events
  /\ reported \in [Keys -> Nat]
  /\ charged \in [Events -> Keys \cup {None}]
  /\ failures \in 0 .. MaxFailures

(* An emitted event is on its way, on the stream, or recorded as lost: a    *)
(* full channel, a failed publish and the closing of the channel lose none  *)
(* silently.  A drained batcher leaves none on its way.                     *)
NoSilentLoss ==
  Alive =>
    \A e \in emitted :
      \/ e \in stream
      \/ charged[e] # None
      \/ pc # "done" /\ e \in InQueue \cup batch \cup DOMAIN refused

(* An event is recorded as lost once, and only if it is lost.               *)
OnlyTheLostAreCounted ==
  \A e \in Events :
    charged[e] # None => /\ e \in emitted
                         /\ e \notin InQueue \cup batch \cup stream
                         /\ e \notin DOMAIN refused

(* The drop windows add up: what is recorded is in a window, in a window    *)
(* that is being reported, or reported, and in one of them only, whatever   *)
(* is recorded while a report is under way and fails.                       *)
DropsAddUp ==
  Alive =>
    \A k \in Keys : CountIn(windows, k) + CountIn(taken, k) + reported[k]
                      = Cardinality(ChargedTo(k))

(* A publish that fails after some of it was stored may overstate a hole,   *)
(* but no hole is ever understated.                                         *)
HolesNotUnderstated ==
  Alive =>
    \A k \in Keys : CountIn(windows, k) + CountIn(taken, k) + reported[k]
                      >= Cardinality(ChargedTo(k))

(* A hole is reported once.                                                 *)
HolesNotOverstated ==
  \A k \in Keys : reported[k] <= Cardinality(ChargedTo(k))

(* A node tracks windows for MAX_TRACKED_CHAINS chains and the overflow.    *)
TrackedChainsBounded == Cardinality(DOMAIN windows) <= MaxTracked + 1

(* The window of a chain covers the period its drops happened in: it does   *)
(* not end before it begins.                                                *)
SpanRunsForward ==
  \A k \in DOMAIN windows : windows[k].first <= windows[k].last

(* A process that shuts down on its signal has drained: what was emitted    *)
(* is on the stream or reported.                                            *)
CleanShutdownDrains ==
  pc = "exited" => \A e \in emitted :
                     \/ e \in stream
                     \/ /\ charged[e] # None
                        /\ reported[charged[e]] >= Cardinality(ChargedTo(charged[e]))

-----------------------------------------------------------------------------
(* The batcher's task and the request tasks that hold a refused event keep  *)
(* running, the idle timeout fires, and the bus does not refuse every       *)
(* publish for ever.                                                        *)
Fairness ==
  /\ WF_vars(Receive) /\ WF_vars(Drained) /\ WF_vars(Flush) 
  /\ WF_vars(ReadClock) /\ WF_vars(Take)
  /\ \A e \in Events : WF_vars(Record(e)) /\ WF_vars(RecordFailed(e))
  /\ SF_vars(PublishOk) /\ SF_vars(ReportOk)

FairSpec == Spec /\ Fairness

(* Once it is emitted, an event ends up on the stream or in a hole that is  *)
(* reported there, also when no further event is ever emitted, unless the   *)
(* batcher has returned or the process has ended before.                    *)
EveryEventAccountedFor ==
  \A e \in Events :
    e \in emitted ~> \/ e \in stream \/ pc \in {"done", "exited"}
                     \/ /\ charged[e] # None
                        /\ reported[charged[e]] >= Cardinality(ChargedTo(charged[e]))
=============================================================================
