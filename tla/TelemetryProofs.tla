--------------------------- MODULE TelemetryProofs ---------------------------
(* Proofs about Telemetry, for any events, chains, capacity and limits. *)
EXTENDS Telemetry, FiniteSetTheorems, TLAPS

-----------------------------------------------------------------------------
(* What the helpers return *)

(* A drop is recorded under a key.                                          *)
LEMMA KeyForType == ASSUME NEW c \in Chains PROVE KeyFor(c) \in Keys
  BY DEF KeyFor, Keys

(* Recording a drop leaves a map of spans.                                  *)
LEMMA RecordedType ==
  ASSUME IsMap(windows), NEW k \in Keys, NEW at \in Times
  PROVE  IsMap(Recorded(k, at))
<1>1. DOMAIN Recorded(k, at) = DOMAIN windows \cup {k}
  BY DEF Recorded, Put
<1>2. ASSUME NEW x \in DOMAIN windows \cup {k}
      PROVE  Recorded(k, at)[x] \in Span
  <2>1. CASE x # k
    BY <1>2, <2>1 DEF IsMap, Recorded, Put
  <2>2. CASE x = k /\ k \in DOMAIN windows
    <3>1. windows[k] \in [count : Nat \ {0}, first : Times, last : Times]
      BY <2>2 DEF IsMap, Span
    <3>2. Recorded(k, at)[x] = [windows[k] EXCEPT !.count = @ + 1, !.last = at]
      BY <1>2, <2>2 DEF Recorded, Put
    <3>3. windows[k].count + 1 \in Nat \ {0} /\ windows[k].first \in Times
      BY <3>1
    <3>4. Recorded(k, at)[x]
            = [count |-> windows[k].count + 1, first |-> windows[k].first, last |-> at]
      BY <3>1, <3>2
    <3>. QED
      BY <3>3, <3>4 DEF Span
  <2>3. CASE x = k /\ k \notin DOMAIN windows
    BY <1>2, <2>3 DEF Recorded, Put, Span
  <2>. QED
    BY <2>1, <2>2, <2>3
<1>3. Recorded(k, at) = [x \in DOMAIN Recorded(k, at) |-> Recorded(k, at)[x]]
  BY DEF Recorded, Put
<1>. QED
  BY <1>1, <1>2, <1>3 DEF IsMap

(* So does merging two spans, and restoring windows.                        *)
LEMMA MergedType ==
  ASSUME NEW s \in Span, NEW w \in Span PROVE Merged(s, w) \in Span
  BY DEF Span, Merged, Earlier, Later

LEMMA RestoredType ==
  ASSUME IsMap(windows), IsMap(taken)
  PROVE  IsMap(Restored)
<1>1. DOMAIN Restored \subseteq Keys
  BY DEF IsMap, Restored
<1>2. ASSUME NEW k \in DOMAIN Restored
      PROVE  Restored[k] \in Span
  BY MergedType DEF IsMap, Restored
<1>3. Restored = [k \in DOMAIN Restored |-> Restored[k]]
  BY DEF Restored
<1>. QED
  BY <1>1, <1>2, <1>3 DEF IsMap

(* The empty map is one.                                                    *)
LEMMA EmptyMapType == IsMap(EmptyMap) /\ DOMAIN EmptyMap = {}
  BY DEF IsMap, EmptyMap

(* Reporting adds numbers to numbers.                                       *)
LEMMA ReportingType ==
  ASSUME reported \in [Keys -> Nat], IsMap(taken), NEW ks \in SUBSET DOMAIN taken
  PROVE  Reporting(ks) \in [Keys -> Nat]
  BY DEF Reporting, IsMap, Span

(* What a failed publish leaves is a part of what was published.            *)
LEMMA LeftoversType == ASSUME NEW S PROVE Leftovers(S) \subseteq SUBSET S
  BY DEF Leftovers

-----------------------------------------------------------------------------
(* Every step keeps the types.                                              *)
LEMMA TypeStep == TypeOK /\ [Next]_vars => TypeOK'
<1>. SUFFICES ASSUME TypeOK, [Next]_vars PROVE TypeOK'
  OBVIOUS
<1>. USE DEF TypeOK
<1>1. ASSUME NEW e \in Events, Emit(e) PROVE TypeOK'
  <2>1. CASE refused' = refused /\ Len(queue) < Capacity /\ queue' = Append(queue, e)
    <3>1. queue' \in Seq(Events) /\ Len(queue') = Len(queue) + 1
      BY <2>1
    <3>2. Len(queue') <= Capacity
      BY <2>1, <3>1, Parameters
    <3>. QED
      BY <1>1, <2>1, <3>1, <3>2 DEF Emit, IsMap
  <2>2. CASE queue' = queue /\ refused' = Put(refused, e, now)
    <3>1. DOMAIN refused' \subseteq Events /\ refused' \in [DOMAIN refused' -> Times]
      BY <2>2 DEF Put
    <3>. QED
      BY <1>1, <2>2, <3>1 DEF Emit, IsMap
  <2>. QED
    BY <1>1, <2>1, <2>2 DEF Emit
<1>2. ASSUME NEW e \in Events, Record(e) PROVE TypeOK'
  <2>1. KeyFor(ChainOf[e]) \in Keys /\ refused[e] \in Times
    BY <1>2, KeyForType, Parameters DEF Record
  <2>2. IsMap(windows')
    BY <1>2, <2>1, RecordedType DEF Record
  <2>3. DOMAIN refused' \subseteq Events /\ refused' \in [DOMAIN refused' -> Times]
    BY <1>2 DEF Record, Without
  <2>. QED
    BY <1>2, <2>1, <2>2, <2>3 DEF Record, IsMap
<1>3. ASSUME NEW e \in Events, RecordFailed(e) PROVE TypeOK'
  <2>1. KeyFor(ChainOf[e]) \in Keys /\ stamp \in Times
    BY <1>3, KeyForType, Parameters DEF RecordFailed
  <2>2. IsMap(windows')
    BY <1>3, <2>1, RecordedType DEF RecordFailed
  <2>. QED
    BY <1>3, <2>1, <2>2 DEF RecordFailed, forkVars, IsMap
<1>4. CASE Close
  BY <1>4 DEF Close, IsMap
<1>5. CASE Receive
  <2>1. Head(queue) \in Events
    BY <1>5 DEF Receive
  <2>2. Tail(queue) \in Seq(Events) /\ Len(Tail(queue)) <= Capacity
    BY <1>5, Parameters DEF Receive
  <2>. QED
    BY <1>5, <2>1, <2>2 DEF Receive, IsMap
<1>6. CASE Drained
  BY <1>6 DEF Drained, forkVars, IsMap
<1>7. CASE Flush
  BY <1>7 DEF Flush, forkVars, IsMap
<1>8. CASE PublishOk
  BY <1>8 DEF PublishOk, forkVars, IsMap
<1>9. CASE PublishFails
  BY <1>9, LeftoversType, Parameters DEF PublishFails, forkVars, IsMap
<1>10. CASE ReadClock
  BY <1>10 DEF ReadClock, forkVars, IsMap
<1>11. CASE Take
  BY <1>11, EmptyMapType DEF Take, AfterFlush, forkVars, IsMap
<1>12. CASE ReportOk
  <2>1. Reporting(DOMAIN taken) \in [Keys -> Nat]
    BY ReportingType
  <2>. QED
    BY <1>12, <2>1, EmptyMapType DEF ReportOk, AfterFlush, forkVars, IsMap
<1>13. CASE ReportFails
  <2>1. PICK some \in Leftovers(DOMAIN taken) : reported' = Reporting(some)
    BY <1>13 DEF ReportFails
  <2>2. reported' \in [Keys -> Nat]
    BY <2>1, LeftoversType, ReportingType
  <2>3. IsMap(windows')
    BY <1>13, RestoredType DEF ReportFails
  <2>. QED
    BY <1>13, <2>2, <2>3, EmptyMapType, Parameters
    DEF ReportFails, AfterFlush, forkVars, IsMap
<1>14. CASE Exit
  BY <1>14, EmptyMapType, Parameters DEF Exit, EmptyMap, IsMap
<1>15. CASE ClockTicks
  BY <1>15, Parameters DEF ClockTicks, forkVars, Times, IsMap
<1>16. CASE Stopped \/ UNCHANGED vars
  BY <1>16 DEF Stopped, vars, forkVars, IsMap
<1>. QED
  BY <1>1, <1>2, <1>3, <1>4, <1>5, <1>6, <1>7, <1>8, <1>9, <1>10, <1>11, <1>12,
     <1>13, <1>14, <1>15, <1>16 DEF Next

(* The initial state has the types.                                         *)
LEMMA TypeInit == Init => TypeOK
<1>. SUFFICES ASSUME Init PROVE TypeOK
  OBVIOUS
<1>1. queue \in Seq(Events) /\ Len(queue) <= Capacity
  BY Parameters DEF Init
<1>2. 0 \in Times /\ 0 \in 0 .. MaxFailures
  BY Parameters DEF Times
<1>3. refused \in [{} -> Times] /\ DOMAIN refused = {}
  BY DEF Init, EmptyMap
<1>4. reported \in [Keys -> Nat] /\ charged \in [Events -> Keys \cup {None}]
  BY DEF Init
<1>. QED
  BY <1>1, <1>2, <1>3, <1>4, EmptyMapType DEF Init, TypeOK, IsMap

(* TypeOK holds for any events, chains, capacity and limits.                *)
THEOREM TelemetryTypeCorrect == Spec => []TypeOK
  BY TypeInit, TypeStep, PTL DEF Spec

-----------------------------------------------------------------------------
(* No silent loss *)

(* What the batcher has done with its channel when it stops: the final      *)
(* flush comes after the closing, and finds nothing more to receive.        *)
Draining ==
  /\ pc \in {"recover", "report", "done"} => batch = {}
  /\ closed /\ Alive => DOMAIN refused = {}
  /\ final /\ Alive => /\ closed /\ queue = <<>>
                       /\ pc \notin {"recv", "drain"}
  /\ pc = "done" => final

(* A sequence holds its head and what its tail holds.                       *)
LEMMA HeadAndTail ==
  ASSUME NEW q \in Seq(Events), q # <<>>
  PROVE  {q[i] : i \in DOMAIN q} = {Head(q)} \cup {Tail(q)[i] : i \in DOMAIN Tail(q)}
<1>1. /\ Len(Tail(q)) = Len(q) - 1 /\ Len(q) \in Nat \ {0}
      /\ DOMAIN Tail(q) = 1 .. Len(q) - 1 /\ DOMAIN q = 1 .. Len(q)
  OBVIOUS
<1>2. \A i \in 1 .. Len(q) - 1 : Tail(q)[i] = q[i + 1]
  BY <1>1
<1>3. Head(q) = q[1]
  OBVIOUS
<1>4. ASSUME NEW i \in DOMAIN q, i # 1
      PROVE  q[i] \in {Tail(q)[j] : j \in DOMAIN Tail(q)}
  <2>1. i - 1 \in DOMAIN Tail(q) /\ Tail(q)[i - 1] = q[i]
    BY <1>1, <1>2, <1>4
  <2>. QED
    BY <2>1
<1>5. ASSUME NEW j \in DOMAIN Tail(q)
      PROVE  Tail(q)[j] \in {q[i] : i \in DOMAIN q}
  <2>1. j + 1 \in DOMAIN q /\ Tail(q)[j] = q[j + 1]
    BY <1>1, <1>2
  <2>. QED
    BY <2>1
<1>6. q[1] \in {q[i] : i \in DOMAIN q}
  BY <1>1
<1>. QED
  BY <1>3, <1>4, <1>5, <1>6

(* Emitting adds to the end of the queue.                                  *)
LEMMA AppendedRange ==
  ASSUME NEW q \in Seq(Events), NEW e \in Events
  PROVE  {Append(q, e)[i] : i \in DOMAIN Append(q, e)}
           = {q[i] : i \in DOMAIN q} \cup {e}
<1>1. /\ DOMAIN q = 1 .. Len(q) /\ Len(q) \in Nat
      /\ DOMAIN Append(q, e) = 1 .. Len(q) + 1
      /\ Append(q, e)[Len(q) + 1] = e
      /\ \A i \in 1 .. Len(q) : Append(q, e)[i] = q[i]
  OBVIOUS
<1>2. \A i \in 1 .. Len(q) + 1 : i = Len(q) + 1 \/ i \in 1 .. Len(q)
  BY <1>1
<1>3. 1 .. Len(q) \subseteq 1 .. Len(q) + 1 /\ Len(q) + 1 \in 1 .. Len(q) + 1
  BY <1>1
<1>. QED
  BY <1>1, <1>2, <1>3

(* Receiving takes the head out of the queue.                               *)
LEMMA ReceivedHead ==
  ASSUME TypeOK, Receive
  PROVE  InQueue = {Head(queue)} \cup InQueue'
<1>1. queue \in Seq(Events) /\ queue # <<>> /\ queue' = Tail(queue)
  BY DEF TypeOK, Receive
<1>2. InQueue = {Head(queue)} \cup {Tail(queue)[i] : i \in DOMAIN Tail(queue)}
  BY <1>1, HeadAndTail DEF InQueue
<1>. QED
  BY <1>1, <1>2 DEF InQueue

(* A recorded event is charged to a key, and None is not one.               *)
LEMMA ChargedIsKey ==
  ASSUME NEW e \in Events PROVE KeyFor(ChainOf[e]) \in Keys \ {None}
  BY KeyForType, Parameters

(* Every step keeps the batcher's place.                                    *)
LEMMA DrainingStep == TypeOK /\ Draining /\ [Next]_vars => Draining'
<1>. SUFFICES ASSUME TypeOK, Draining, [Next]_vars PROVE Draining'
  OBVIOUS
<1>. USE DEF Draining, Alive
<1>1. ASSUME NEW e \in Events, Emit(e) PROVE Draining'
  BY <1>1 DEF Emit
<1>2. ASSUME NEW e \in Events, Record(e) PROVE Draining'
  BY <1>2 DEF Record, Without
<1>3. ASSUME NEW e \in Events, RecordFailed(e) PROVE Draining'
  BY <1>3 DEF RecordFailed, forkVars
<1>4. CASE Close
  BY <1>4, EmptyMapType DEF Close
<1>5. CASE Receive
  BY <1>5 DEF Receive
<1>6. CASE Drained
  BY <1>6 DEF Drained, forkVars
<1>7. CASE Flush
  BY <1>7 DEF Flush, forkVars
<1>8. CASE PublishOk
  BY <1>8 DEF PublishOk, forkVars
<1>9. CASE PublishFails
  BY <1>9 DEF PublishFails, forkVars
<1>10. CASE ReadClock
  BY <1>10 DEF ReadClock, forkVars
<1>11. CASE Take
  BY <1>11 DEF Take, AfterFlush, forkVars
<1>12. CASE ReportOk
  BY <1>12 DEF ReportOk, AfterFlush, forkVars
<1>13. CASE ReportFails
  BY <1>13 DEF ReportFails, AfterFlush, forkVars
<1>14. CASE Exit
  BY <1>14 DEF Exit
<1>15. CASE ClockTicks
  BY <1>15 DEF ClockTicks, forkVars
<1>16. CASE Stopped \/ UNCHANGED vars
  BY <1>16 DEF Stopped, vars, forkVars
<1>. QED
  BY <1>1, <1>2, <1>3, <1>4, <1>5, <1>6, <1>7, <1>8, <1>9, <1>10, <1>11, <1>12,
     <1>13, <1>14, <1>15, <1>16 DEF Next

(* Every step keeps emitted events on their way, on the stream or charged.  *)
LEMMA NoSilentLossStep ==
  TypeOK /\ Draining /\ Draining' /\ NoSilentLoss /\ [Next]_vars => NoSilentLoss'
<1>. SUFFICES ASSUME TypeOK, Draining, Draining', NoSilentLoss, [Next]_vars
              PROVE  NoSilentLoss'
  OBVIOUS
<1>. USE DEF NoSilentLoss, Alive
<1>1. ASSUME NEW e \in Events, Emit(e) PROVE NoSilentLoss'
  <2>1. pc' = pc /\ pc # "done"
    BY <1>1 DEF Emit, Draining
  <2>2. InQueue \subseteq InQueue'
    <3>1. CASE queue' = Append(queue, e)
      BY <3>1, AppendedRange DEF InQueue, TypeOK
    <3>2. CASE queue' = queue
      BY <3>2 DEF InQueue
    <3>. QED
      BY <1>1, <3>1, <3>2 DEF Emit
  <2>3. DOMAIN refused \subseteq DOMAIN refused'
    BY <1>1 DEF Emit, Put
  <2>4. e \in InQueue' \cup DOMAIN refused'
    <3>1. CASE queue' = Append(queue, e)
      BY <3>1, AppendedRange DEF InQueue, TypeOK
    <3>2. CASE refused' = Put(refused, e, now)
      BY <3>2 DEF Put
    <3>. QED
      BY <1>1, <3>1, <3>2 DEF Emit
  <2>5. UNCHANGED <<stream, charged, batch>> /\ emitted' = emitted \cup {e}
    BY <1>1 DEF Emit
  <2>. HIDE DEF InQueue
  <2>. QED
    BY <2>1, <2>2, <2>3, <2>4, <2>5
<1>2. ASSUME NEW e \in Events, Record(e) PROVE NoSilentLoss'
  <2>1. charged'[e] # None /\ \A x \in Events \ {e} : charged'[x] = charged[x]
    BY <1>2, ChargedIsKey DEF Record, TypeOK
  <2>2. DOMAIN refused' = DOMAIN refused \ {e}
    BY <1>2 DEF Record, Without
  <2>. QED
    BY <1>2, <2>1, <2>2 DEF Record, InQueue, TypeOK
<1>3. ASSUME NEW e \in Events, RecordFailed(e) PROVE NoSilentLoss'
  <2>1. charged'[e] # None /\ \A x \in Events \ {e} : charged'[x] = charged[x]
    BY <1>3, ChargedIsKey DEF RecordFailed, TypeOK
  <2>. QED
    BY <1>3, <2>1 DEF RecordFailed, forkVars, InQueue, TypeOK
<1>4. CASE Close
  BY <1>4 DEF Close, InQueue
<1>5. CASE Receive
  <2>1. InQueue = {Head(queue)} \cup InQueue'
    BY <1>5, ReceivedHead
  <2>. QED
    BY <1>5, <2>1 DEF Receive
<1>6. CASE Drained
  BY <1>6 DEF Drained, forkVars, InQueue
<1>7. CASE Flush
  BY <1>7 DEF Flush, forkVars, InQueue
<1>8. CASE PublishOk
  BY <1>8 DEF PublishOk, forkVars, InQueue
<1>9. CASE PublishFails
  BY <1>9 DEF PublishFails, forkVars, InQueue
<1>10. CASE ReadClock
  BY <1>10 DEF ReadClock, forkVars, InQueue
<1>11. CASE Take \/ ReportOk \/ ReportFails
  <2>1. /\ UNCHANGED <<emitted, stream, charged, batch>>
        /\ InQueue' = InQueue /\ refused' = refused
    BY <1>11 DEF Take, ReportOk, ReportFails, forkVars, InQueue
  <2>2. pc # "done" /\ pc # "exited"
    BY <1>11 DEF Take, ReportOk, ReportFails
  <2>3. pc' = "done" => InQueue \cup batch \cup DOMAIN refused = {}
    BY <1>11, <2>1 DEF Draining, InQueue, Take, ReportOk, ReportFails, forkVars
  <2>. QED
    BY <2>1, <2>2, <2>3
<1>12. CASE Exit
  BY <1>12 DEF Exit
<1>13. CASE ClockTicks
  BY <1>13 DEF ClockTicks, forkVars, InQueue
<1>14. CASE Stopped \/ UNCHANGED vars
  BY <1>14 DEF Stopped, vars, forkVars, InQueue
<1>. QED
  BY <1>1, <1>2, <1>3, <1>4, <1>5, <1>6, <1>7, <1>8, <1>9, <1>10, <1>11, <1>12,
     <1>13, <1>14 DEF Next

(* No event is lost silently: for any channel, batch and limits, and also   *)
(* when a failed publish has stored a part of its batch.                    *)
THEOREM NoEventLostSilently == Spec => []NoSilentLoss
<1>1. Init => Draining /\ NoSilentLoss
  BY EmptyMapType DEF Init, Draining, NoSilentLoss
<1>2. TypeOK /\ Draining /\ NoSilentLoss /\ [Next]_vars => (Draining /\ NoSilentLoss)'
  BY DrainingStep, NoSilentLossStep
<1>. QED
  BY <1>1, <1>2, TelemetryTypeCorrect, PTL DEF Spec

-----------------------------------------------------------------------------
(* Only the lost are counted *)

(* An event that is still on its way is in one place, and not charged yet;  *)
(* the channel holds it once.                                               *)
OnePlace ==
  /\ \A i, j \in DOMAIN queue : queue[i] = queue[j] => i = j
  /\ InQueue \cup batch \cup DOMAIN refused \cup stream \subseteq emitted
  /\ InQueue \cap batch = {} /\ InQueue \cap DOMAIN refused = {}
  /\ batch \cap DOMAIN refused = {}
  /\ \A e \in Events : charged[e] # None =>
       e \in emitted /\ e \notin InQueue \cup batch \cup DOMAIN refused

(* What is on the stream is neither on its way nor charged.  A publish that *)
(* fails after it stored some of its events breaks this.                    *)
StreamApart ==
  /\ stream \cap (InQueue \cup batch \cup DOMAIN refused) = {}
  /\ \A e \in Events : charged[e] # None => e \notin stream

(* A queue that holds an event once also does after a receive, and then it  *)
(* does not hold the received event.                                        *)
LEMMA TailOnce ==
  ASSUME NEW q \in Seq(Events), q # <<>>,
         \A i, j \in DOMAIN q : q[i] = q[j] => i = j
  PROVE  /\ \A i, j \in DOMAIN Tail(q) : Tail(q)[i] = Tail(q)[j] => i = j
         /\ Head(q) \notin {Tail(q)[i] : i \in DOMAIN Tail(q)}
<1>1. /\ DOMAIN Tail(q) = 1 .. Len(q) - 1 /\ DOMAIN q = 1 .. Len(q)
      /\ Len(q) \in Nat \ {0} /\ Head(q) = q[1]
      /\ \A i \in 1 .. Len(q) - 1 : Tail(q)[i] = q[i + 1]
  OBVIOUS
<1>2. \A i \in 1 .. Len(q) - 1 : i + 1 \in DOMAIN q /\ i + 1 # 1
  BY <1>1
<1>3. 1 \in DOMAIN q
  BY <1>1
<1>4. ASSUME NEW i \in DOMAIN Tail(q), NEW j \in DOMAIN Tail(q), Tail(q)[i] = Tail(q)[j]
      PROVE  i = j
  <2>1. i \in Int /\ j \in Int /\ q[i + 1] = q[j + 1]
    BY <1>1, <1>4
  <2>2. i + 1 = j + 1
    BY <1>1, <1>2, <2>1
  <2>. QED
    BY <2>1, <2>2
<1>5. ASSUME NEW i \in DOMAIN Tail(q) PROVE Tail(q)[i] # Head(q)
  BY <1>1, <1>2, <1>3, <1>5
<1>. QED
  BY <1>4, <1>5

(* A queue that holds an event once still does when a new one is appended.  *)
LEMMA AppendOnce ==
  ASSUME NEW q \in Seq(Events), NEW e \in Events,
         e \notin {q[i] : i \in DOMAIN q},
         \A i, j \in DOMAIN q : q[i] = q[j] => i = j
  PROVE  \A i, j \in DOMAIN Append(q, e) : Append(q, e)[i] = Append(q, e)[j] => i = j
<1>1. /\ DOMAIN q = 1 .. Len(q) /\ Len(q) \in Nat
      /\ DOMAIN Append(q, e) = 1 .. Len(q) + 1
      /\ Append(q, e)[Len(q) + 1] = e
      /\ \A i \in 1 .. Len(q) : Append(q, e)[i] = q[i]
  OBVIOUS
<1>2. \A i \in 1 .. Len(q) + 1 : i = Len(q) + 1 \/ i \in DOMAIN q
  BY <1>1
<1>. QED
  BY <1>1, <1>2

(* Recording an event moves it from where it waits to a key.                *)
LEMMA ChargedAfter ==
  ASSUME TypeOK, NEW e \in Events,
         charged' = [charged EXCEPT ![e] = KeyFor(ChainOf[e])]
  PROVE  /\ charged'[e] = KeyFor(ChainOf[e]) /\ charged'[e] # None
         /\ \A x \in Events \ {e} : charged'[x] = charged[x]
  BY ChargedIsKey DEF TypeOK

(* Every step keeps each event in one place.                                *)
LEMMA OnePlaceStep == TypeOK /\ OnePlace /\ [Next]_vars => OnePlace'
<1>. SUFFICES ASSUME TypeOK, OnePlace, [Next]_vars PROVE OnePlace'
  OBVIOUS
<1>. USE DEF OnePlace
<1>1. ASSUME NEW e \in Events, Emit(e) PROVE OnePlace'
  <2>1. /\ e \notin emitted /\ emitted' = emitted \cup {e}
        /\ UNCHANGED <<batch, stream, charged>>
    BY <1>1 DEF Emit
  <2>2. CASE queue' = Append(queue, e) /\ refused' = refused
    <3>1. InQueue' = InQueue \cup {e}
      BY <2>2, AppendedRange DEF InQueue, TypeOK
    <3>2. \A i, j \in DOMAIN queue' : queue'[i] = queue'[j] => i = j
      BY <2>1, <2>2, AppendOnce DEF InQueue, TypeOK
    <3>. HIDE DEF InQueue
    <3>. QED
      BY <2>1, <2>2, <3>1, <3>2
  <2>3. CASE queue' = queue /\ refused' = Put(refused, e, now)
    <3>1. InQueue' = InQueue /\ DOMAIN refused' = DOMAIN refused \cup {e}
      BY <2>3 DEF InQueue, Put
    <3>. QED
      BY <2>1, <2>3, <3>1
  <2>. QED
    BY <1>1, <2>2, <2>3 DEF Emit
<1>2. ASSUME NEW e \in Events, Record(e) PROVE OnePlace'
  <2>1. DOMAIN refused' = DOMAIN refused \ {e} /\ e \in DOMAIN refused
    BY <1>2 DEF Record, Without
  <2>2. /\ UNCHANGED <<emitted, queue, batch, stream>> /\ InQueue' = InQueue
        /\ \A x \in Events \ {e} : charged'[x] = charged[x]
    BY <1>2, ChargedAfter DEF Record, InQueue
  <2>. QED
    BY <2>1, <2>2
<1>3. ASSUME NEW e \in Events, RecordFailed(e) PROVE OnePlace'
  <2>1. batch' = batch \ {e} /\ e \in batch
    BY <1>3 DEF RecordFailed
  <2>2. /\ UNCHANGED <<emitted, queue, refused, stream>> /\ InQueue' = InQueue
        /\ \A x \in Events \ {e} : charged'[x] = charged[x]
    BY <1>3, ChargedAfter DEF RecordFailed, forkVars, InQueue
  <2>. QED
    BY <2>1, <2>2
<1>4. CASE Close
  BY <1>4 DEF Close, InQueue
<1>5. CASE Receive
  <2>1. /\ InQueue = {Head(queue)} \cup InQueue' /\ Head(queue) \notin InQueue'
        /\ \A i, j \in DOMAIN queue' : queue'[i] = queue'[j] => i = j
    <3>1. queue \in Seq(Events) /\ queue # <<>> /\ queue' = Tail(queue)
      BY <1>5 DEF TypeOK, Receive
    <3>2. /\ \A i, j \in DOMAIN Tail(queue) : Tail(queue)[i] = Tail(queue)[j] => i = j
          /\ Head(queue) \notin {Tail(queue)[i] : i \in DOMAIN Tail(queue)}
      BY <3>1, TailOnce
    <3>. QED
      BY <1>5, <3>1, <3>2, ReceivedHead DEF InQueue
  <2>2. /\ batch' = batch \cup {Head(queue)}
        /\ UNCHANGED <<emitted, refused, stream, charged>>
    BY <1>5 DEF Receive
  <2>. QED
    BY <2>1, <2>2
<1>6. CASE Drained
  BY <1>6 DEF Drained, forkVars, InQueue
<1>7. CASE Flush
  BY <1>7 DEF Flush, forkVars, InQueue
<1>8. CASE PublishOk
  BY <1>8 DEF PublishOk, forkVars, InQueue
<1>9. CASE PublishFails
  BY <1>9, LeftoversType DEF PublishFails, forkVars, InQueue
<1>10. CASE ReadClock
  BY <1>10 DEF ReadClock, forkVars, InQueue
<1>11. CASE Take
  BY <1>11 DEF Take, forkVars, InQueue
<1>12. CASE ReportOk
  BY <1>12 DEF ReportOk, forkVars, InQueue
<1>13. CASE ReportFails
  BY <1>13 DEF ReportFails, forkVars, InQueue
<1>14. CASE Exit
  BY <1>14, EmptyMapType DEF Exit, InQueue
<1>15. CASE ClockTicks
  BY <1>15 DEF ClockTicks, forkVars, InQueue
<1>16. CASE Stopped \/ UNCHANGED vars
  BY <1>16 DEF Stopped, vars, forkVars, InQueue
<1>. QED
  BY <1>1, <1>2, <1>3, <1>4, <1>5, <1>6, <1>7, <1>8, <1>9, <1>10, <1>11, <1>12,
     <1>13, <1>14, <1>15, <1>16 DEF Next

(* Every step keeps the stream apart, when a failed publish stores nothing. *)
LEMMA StreamApartStep ==
  ASSUME "partial" \notin Faults
  PROVE  TypeOK /\ OnePlace /\ StreamApart /\ [Next]_vars => StreamApart'
<1>. SUFFICES ASSUME TypeOK, OnePlace, StreamApart, [Next]_vars PROVE StreamApart'
  OBVIOUS
<1>. USE DEF StreamApart
<1>1. ASSUME NEW e \in Events, Emit(e) PROVE StreamApart'
  <2>1. InQueue' \subseteq InQueue \cup {e} /\ DOMAIN refused' \subseteq DOMAIN refused \cup {e}
    <3>1. CASE queue' = Append(queue, e) /\ refused' = refused
      BY <3>1, AppendedRange DEF InQueue, TypeOK
    <3>2. CASE queue' = queue /\ refused' = Put(refused, e, now)
      BY <3>2 DEF InQueue, Put
    <3>. QED
      BY <1>1, <3>1, <3>2 DEF Emit
  <2>2. e \notin stream /\ UNCHANGED <<batch, stream, charged>>
    BY <1>1 DEF Emit, OnePlace
  <2>. QED
    BY <2>1, <2>2
<1>2. ASSUME NEW e \in Events, Record(e) PROVE StreamApart'
  <2>1. DOMAIN refused' = DOMAIN refused \ {e} /\ e \in DOMAIN refused
    BY <1>2 DEF Record, Without
  <2>2. /\ UNCHANGED <<batch, stream>> /\ InQueue' = InQueue
        /\ \A x \in Events \ {e} : charged'[x] = charged[x]
    BY <1>2, ChargedAfter DEF Record, InQueue
  <2>. QED
    BY <2>1, <2>2
<1>3. ASSUME NEW e \in Events, RecordFailed(e) PROVE StreamApart'
  <2>1. batch' = batch \ {e} /\ e \in batch
    BY <1>3 DEF RecordFailed
  <2>2. /\ UNCHANGED <<refused, stream>> /\ InQueue' = InQueue
        /\ \A x \in Events \ {e} : charged'[x] = charged[x]
    BY <1>3, ChargedAfter DEF RecordFailed, forkVars, InQueue
  <2>. QED
    BY <2>1, <2>2
<1>4. CASE Close
  BY <1>4 DEF Close, InQueue
<1>5. CASE Receive
  <2>1. InQueue = {Head(queue)} \cup InQueue'
    BY <1>5, ReceivedHead
  <2>2. batch' = batch \cup {Head(queue)} /\ UNCHANGED <<refused, stream, charged>>
    BY <1>5 DEF Receive
  <2>. QED
    BY <2>1, <2>2
<1>6. CASE PublishOk
  <2>1. /\ stream' = stream \cup batch /\ batch' = {}
        /\ UNCHANGED <<refused, charged>> /\ InQueue' = InQueue
    BY <1>6 DEF PublishOk, forkVars, InQueue
  <2>. QED
    BY <2>1 DEF OnePlace
<1>7. CASE PublishFails
  <2>1. stream' = stream
    BY <1>7 DEF PublishFails, Leftovers
  <2>. QED
    BY <1>7, <2>1 DEF PublishFails, forkVars, InQueue
<1>8. CASE Drained \/ Flush \/ ReadClock \/ Take \/ ReportOk \/ ReportFails \/ ClockTicks
  BY <1>8 DEF Drained, Flush, ReadClock, Take, ReportOk, ReportFails, ClockTicks,
     forkVars, InQueue
<1>9. CASE Exit
  BY <1>9, EmptyMapType DEF Exit, InQueue
<1>10. CASE Stopped \/ UNCHANGED vars
  BY <1>10 DEF Stopped, vars, forkVars, InQueue
<1>. QED
  BY <1>1, <1>2, <1>3, <1>4, <1>5, <1>6, <1>7, <1>8, <1>9, <1>10 DEF Next

(* Every event is in one place, whatever fails.                             *)
LEMMA EveryEventInOnePlace == Spec => []OnePlace
<1>1. Init => OnePlace
  BY EmptyMapType DEF Init, OnePlace, InQueue
<1>. QED
  BY <1>1, OnePlaceStep, TelemetryTypeCorrect, PTL DEF Spec

(* When a failed publish stores nothing, only events that are lost are      *)
(* recorded as lost, once.                                                  *)
THEOREM LossIsCountedOnce ==
  ASSUME "partial" \notin Faults PROVE Spec => []OnlyTheLostAreCounted
<1>1. Init => StreamApart
  BY DEF Init, StreamApart
<1>2. OnePlace /\ StreamApart => OnlyTheLostAreCounted
  BY DEF OnePlace, StreamApart, OnlyTheLostAreCounted
<1>. QED
  BY <1>1, <1>2, StreamApartStep, EveryEventInOnePlace, TelemetryTypeCorrect, PTL
  DEF Spec

-----------------------------------------------------------------------------
(* The drop windows add up *)

\* What is known of the losses of a chain, wherever it is.
Known(k) == CountIn(windows, k) + CountIn(taken, k) + reported[k]

\* Windows are taken only while they are being reported.
TakenInReport == pc # "report" => DOMAIN taken = {}

(* A count is a number.                                                     *)
LEMMA CountType == ASSUME NEW f, IsMap(f), NEW k PROVE CountIn(f, k) \in Nat
<1>1. CASE k \in DOMAIN f
  <2>1. f[k] \in [count : Nat \ {0}, first : Times, last : Times]
    BY <1>1 DEF IsMap, Span
  <2>. QED
    BY <1>1, <2>1 DEF CountIn
<1>2. CASE k \notin DOMAIN f
  BY <1>2 DEF CountIn
<1>. QED
  BY <1>1, <1>2

(* There is nothing in an empty map.                                        *)
LEMMA CountEmpty == ASSUME NEW f, DOMAIN f = {}, NEW k PROVE CountIn(f, k) = 0
  BY DEF CountIn

(* Recording a drop adds one to the count of its key, and to no other.      *)
LEMMA CountRecorded ==
  ASSUME IsMap(windows), NEW c \in Keys, NEW at \in Times, NEW k \in Keys
  PROVE  CountIn(Recorded(c, at), k) = CountIn(windows, k) + (IF k = c THEN 1 ELSE 0)
<1>1. DOMAIN Recorded(c, at) = DOMAIN windows \cup {c}
  BY DEF Recorded, Put
<1>2. CASE k # c
  <2>1. k \in DOMAIN windows => Recorded(c, at)[k] = windows[k]
    BY <1>2 DEF Recorded, Put
  <2>2. CountIn(Recorded(c, at), k) = CountIn(windows, k)
    BY <1>1, <1>2, <2>1 DEF CountIn
  <2>. QED
    BY <1>2, <2>2, CountType
<1>3. CASE k = c /\ c \in DOMAIN windows
  <2>1. windows[c] \in [count : Nat \ {0}, first : Times, last : Times]
    BY <1>3 DEF IsMap, Span
  <2>2. Recorded(c, at)[c] = [windows[c] EXCEPT !.count = @ + 1, !.last = at]
    BY <1>3 DEF Recorded, Put
  <2>3. Recorded(c, at)[c].count = windows[c].count + 1
    BY <2>1, <2>2
  <2>. QED
    BY <1>1, <1>3, <2>3 DEF CountIn
<1>4. CASE k = c /\ c \notin DOMAIN windows
  <2>1. Recorded(c, at)[c] = [count |-> 1, first |-> at, last |-> at]
    BY <1>4 DEF Recorded, Put
  <2>. QED
    BY <1>1, <1>4, <2>1 DEF CountIn
<1>. QED
  BY <1>2, <1>3, <1>4

(* Restoring windows adds their counts to those recorded meanwhile.         *)
LEMMA CountRestored ==
  ASSUME IsMap(windows), IsMap(taken), NEW k \in Keys
  PROVE  CountIn(Restored, k) = CountIn(windows, k) + CountIn(taken, k)
<1>1. DOMAIN Restored = DOMAIN windows \cup DOMAIN taken
  BY DEF Restored
<1>2. /\ k \in DOMAIN windows => windows[k] \in [count : Nat \ {0}, first : Times, last : Times]
      /\ k \in DOMAIN taken => taken[k] \in [count : Nat \ {0}, first : Times, last : Times]
  BY DEF IsMap, Span
<1>3. CASE k \in DOMAIN windows /\ k \in DOMAIN taken
  <2>1. Restored[k] = Merged(windows[k], taken[k])
    BY <1>3 DEF Restored
  <2>2. Restored[k].count = windows[k].count + taken[k].count
    BY <2>1 DEF Merged
  <2>. QED
    BY <1>1, <1>3, <2>2 DEF CountIn
<1>4. CASE k \in DOMAIN windows /\ k \notin DOMAIN taken
  <2>1. Restored[k] = windows[k]
    BY <1>4 DEF Restored
  <2>. QED
    BY <1>1, <1>2, <1>4, <2>1 DEF CountIn
<1>5. CASE k \notin DOMAIN windows /\ k \in DOMAIN taken
  <2>1. Restored[k] = taken[k]
    BY <1>5 DEF Restored
  <2>. QED
    BY <1>1, <1>2, <1>5, <2>1 DEF CountIn
<1>6. CASE k \notin DOMAIN windows /\ k \notin DOMAIN taken
  BY <1>1, <1>6 DEF CountIn
<1>. QED
  BY <1>3, <1>4, <1>5, <1>6

(* Reporting all that is taken adds its counts, reporting a part takes      *)
(* nothing away.                                                            *)
LEMMA CountReported ==
  ASSUME TypeOK, NEW ks \in SUBSET DOMAIN taken, NEW k \in Keys
  PROVE  /\ Reporting(ks)[k] \in Nat
         /\ Reporting(ks)[k] >= reported[k]
         /\ ks = DOMAIN taken => Reporting(ks)[k] = reported[k] + CountIn(taken, k)
         /\ ks = {} => Reporting(ks)[k] = reported[k]
<1>1. reported[k] \in Nat /\ IsMap(taken)
  BY DEF TypeOK
<1>2. CASE k \in ks
  <2>1. Reporting(ks)[k] = reported[k] + CountIn(taken, k)
    BY <1>2 DEF Reporting, CountIn
  <2>2. CountIn(taken, k) \in Nat
    BY <1>1, CountType
  <2>. QED
    BY <1>1, <1>2, <2>1, <2>2
<1>3. CASE k \notin ks
  <2>1. Reporting(ks)[k] = reported[k]
    BY <1>3 DEF Reporting
  <2>2. ks = DOMAIN taken => CountIn(taken, k) = 0
    BY <1>3 DEF CountIn
  <2>. QED
    BY <1>1, <2>1, <2>2
<1>. QED
  BY <1>2, <1>3

(* Charging an event adds it to the events of its key, once.                *)
LEMMA ChargedToAfter ==
  ASSUME TypeOK, NEW e \in Events, NEW k \in Keys,
         charged' = [charged EXCEPT ![e] = KeyFor(ChainOf[e])]
  PROVE  /\ Cardinality(ChargedTo(k)) \in Nat /\ Cardinality(ChargedTo(k)') \in Nat
         /\ Cardinality(ChargedTo(k)')
              <= Cardinality(ChargedTo(k)) + (IF k = KeyFor(ChainOf[e]) THEN 1 ELSE 0)
         /\ charged[e] = None =>
              Cardinality(ChargedTo(k)')
                = Cardinality(ChargedTo(k)) + (IF k = KeyFor(ChainOf[e]) THEN 1 ELSE 0)
<1>1. IsFiniteSet(ChargedTo(k)) /\ IsFiniteSet(ChargedTo(k) \ {e})
  BY Parameters, FS_Subset DEF ChargedTo
<1>2. Cardinality(ChargedTo(k)) \in Nat /\ Cardinality(ChargedTo(k) \ {e}) \in Nat
  BY <1>1, FS_CardinalityType
<1>3. Cardinality(ChargedTo(k) \ {e}) <= Cardinality(ChargedTo(k))
  BY <1>1, FS_Subset
<1>4. charged[e] = None => e \notin ChargedTo(k)
  BY Parameters DEF ChargedTo
<1>5. CASE k = KeyFor(ChainOf[e])
  <2>1. ChargedTo(k)' = ChargedTo(k) \cup {e}
    BY <1>5, ChargedAfter DEF ChargedTo
  <2>2. Cardinality(ChargedTo(k) \cup {e})
          = IF e \in ChargedTo(k) THEN Cardinality(ChargedTo(k))
            ELSE Cardinality(ChargedTo(k)) + 1
    BY <1>1, FS_AddElement
  <2>. QED
    BY <1>2, <1>4, <1>5, <2>1, <2>2
<1>6. CASE k # KeyFor(ChainOf[e])
  <2>1. ChargedTo(k)' = ChargedTo(k) \ {e}
    BY <1>6, ChargedAfter DEF ChargedTo
  <2>2. charged[e] = None => ChargedTo(k) \ {e} = ChargedTo(k)
    BY <1>4
  <2>. QED
    BY <1>2, <1>3, <1>6, <2>1, <2>2
<1>. QED
  BY <1>5, <1>6

(* A step that records a drop adds one to what is known of its key.         *)
LEMMA KnownAfterRecord ==
  ASSUME TypeOK, NEW e \in Events, NEW at \in Times, NEW k \in Keys,
         windows' = Recorded(KeyFor(ChainOf[e]), at),
         taken' = taken, reported' = reported
  PROVE  /\ Known(k) \in Nat
         /\ Known(k)' = Known(k) + (IF k = KeyFor(ChainOf[e]) THEN 1 ELSE 0)
<1>1. CountIn(windows, k) \in Nat /\ CountIn(taken, k) \in Nat /\ reported[k] \in Nat
  BY CountType DEF TypeOK
<1>2. CountIn(windows', k)
        = CountIn(windows, k) + (IF k = KeyFor(ChainOf[e]) THEN 1 ELSE 0)
  BY CountRecorded, ChargedIsKey DEF TypeOK
<1>. QED
  BY <1>1, <1>2 DEF Known

(* Every step takes windows only to report them.                            *)
LEMMA TakenInReportStep == TakenInReport /\ [Next]_vars => TakenInReport'
<1>. SUFFICES ASSUME TakenInReport, [Next]_vars PROVE TakenInReport'
  OBVIOUS
<1>. USE DEF TakenInReport, forkVars
<1>1. CASE Take
  BY <1>1, EmptyMapType DEF Take, AfterFlush
<1>2. CASE ReportOk \/ ReportFails \/ Exit
  BY <1>2, EmptyMapType DEF ReportOk, ReportFails, Exit
<1>3. ASSUME NEW e \in Events, Emit(e) \/ Record(e) \/ RecordFailed(e)
      PROVE  TakenInReport'
  BY <1>3 DEF Emit, Record, RecordFailed
<1>4. CASE Close \/ Receive \/ Drained \/ Flush \/ PublishOk \/ PublishFails
           \/ ReadClock \/ ClockTicks
  BY <1>4 DEF Close, Receive, Drained, Flush, PublishOk, PublishFails, ReadClock, ClockTicks
<1>5. CASE Stopped \/ UNCHANGED vars
  BY <1>5 DEF Stopped, vars
<1>. QED
  BY <1>1, <1>2, <1>3, <1>4, <1>5 DEF Next

(* A process that runs after a step ran before it.                          *)
LEMMA AliveBefore == ASSUME [Next]_vars, Alive' PROVE Alive
<1>. SUFFICES ASSUME pc = "exited" PROVE pc' = "exited"
  BY DEF Alive
<1>. USE DEF forkVars
<1>1. ASSUME NEW e \in Events, Emit(e) \/ Record(e) \/ RecordFailed(e)
      PROVE  pc' = "exited"
  BY <1>1 DEF Emit, Record, RecordFailed, Alive
<1>2. CASE Close \/ Receive \/ Drained \/ Flush \/ PublishOk \/ PublishFails
           \/ ReadClock \/ Take \/ ReportOk \/ ReportFails
  BY <1>2 DEF Close, Receive, Drained, Flush, PublishOk, PublishFails, ReadClock,
     Take, ReportOk, ReportFails, Alive
<1>3. CASE Exit \/ ClockTicks \/ Stopped \/ UNCHANGED vars
  BY <1>3 DEF Exit, ClockTicks, Stopped, vars
<1>. QED
  BY <1>1, <1>2, <1>3 DEF Next

(* Of all steps, those that record, take and report change what is known.   *)
LEMMA KnownStep ==
  ASSUME TypeOK, TypeOK', TakenInReport, [Next]_vars, Alive', NEW k \in Keys
  PROVE  \/ /\ Known(k)' = Known(k) /\ ChargedTo(k)' = ChargedTo(k)
         \/ /\ ChargedTo(k)' = ChargedTo(k) /\ Known(k)' >= Known(k)
            /\ "partial" \in Faults
         \/ \E e \in Events, at \in Times :
              /\ e \in batch \cup DOMAIN refused
              /\ charged' = [charged EXCEPT ![e] = KeyFor(ChainOf[e])]
              /\ windows' = Recorded(KeyFor(ChainOf[e]), at)
              /\ taken' = taken /\ reported' = reported
<1>1. /\ CountIn(windows, k) \in Nat /\ CountIn(taken, k) \in Nat
      /\ reported[k] \in Nat /\ reported \in [Keys -> Nat]
  BY CountType DEF TypeOK
<1>. USE DEF forkVars
<1>2. ASSUME NEW e \in Events, Emit(e) PROVE Known(k)' = Known(k) /\ ChargedTo(k)' = ChargedTo(k)
  BY <1>2 DEF Emit, Known, ChargedTo
<1>3. ASSUME NEW e \in Events, Record(e)
      PROVE  \E x \in Events, at \in Times :
              /\ x \in batch \cup DOMAIN refused
              /\ charged' = [charged EXCEPT ![x] = KeyFor(ChainOf[x])]
              /\ windows' = Recorded(KeyFor(ChainOf[x]), at)
              /\ taken' = taken /\ reported' = reported
  BY <1>3 DEF Record, TypeOK
<1>4. ASSUME NEW e \in Events, RecordFailed(e)
      PROVE  \E x \in Events, at \in Times :
              /\ x \in batch \cup DOMAIN refused
              /\ charged' = [charged EXCEPT ![x] = KeyFor(ChainOf[x])]
              /\ windows' = Recorded(KeyFor(ChainOf[x]), at)
              /\ taken' = taken /\ reported' = reported
  BY <1>4 DEF RecordFailed, TypeOK
<1>5. CASE Close \/ Receive \/ Drained \/ Flush \/ PublishOk \/ PublishFails
           \/ ReadClock \/ ClockTicks
  BY <1>5 DEF Close, Receive, Drained, Flush, PublishOk, PublishFails, ReadClock,
     ClockTicks, Known, ChargedTo
<1>6. CASE Take
  <2>1. taken' = windows /\ windows' = EmptyMap /\ UNCHANGED <<reported, charged>>
    BY <1>6 DEF Take
  <2>2. CountIn(taken, k) = 0 /\ CountIn(windows', k) = 0
    BY <1>6, <2>1, CountEmpty, EmptyMapType DEF Take, TakenInReport
  <2>3. CountIn(taken', k) = CountIn(windows, k) /\ reported'[k] = reported[k]
    BY <2>1
  <2>4. Known(k)' = Known(k)
    BY <1>1, <2>2, <2>3 DEF Known
  <2>. QED
    BY <2>1, <2>4 DEF ChargedTo
<1>7. CASE ReportOk
  <2>1. /\ reported' = Reporting(DOMAIN taken) /\ taken' = EmptyMap
        /\ UNCHANGED <<windows, charged>>
    BY <1>7 DEF ReportOk
  <2>2. reported'[k] = reported[k] + CountIn(taken, k)
    BY <2>1, CountReported
  <2>3. CountIn(taken', k) = 0
    BY <2>1, CountEmpty, EmptyMapType
  <2>4. Known(k)' = Known(k)
    BY <1>1, <2>1, <2>2, <2>3 DEF Known
  <2>. QED
    BY <2>1, <2>4 DEF ChargedTo
<1>8. CASE ReportFails
  <2>1. PICK some \in Leftovers(DOMAIN taken) : reported' = Reporting(some)
    BY <1>8 DEF ReportFails
  <2>2. windows' = Restored /\ taken' = EmptyMap /\ charged' = charged
    BY <1>8 DEF ReportFails
  <2>3. CountIn(windows', k) = CountIn(windows, k) + CountIn(taken, k)
    BY <2>2, CountRestored DEF TypeOK
  <2>4. CountIn(taken', k) = 0
    BY <2>2, CountEmpty, EmptyMapType
  <2>5. /\ reported'[k] \in Nat /\ reported'[k] >= reported[k]
        /\ "partial" \notin Faults => reported'[k] = reported[k]
    BY <2>1, LeftoversType, CountReported DEF Leftovers
  <2>6. ChargedTo(k)' = ChargedTo(k)
    BY <2>2 DEF ChargedTo
  <2>7. /\ Known(k)' >= Known(k)
        /\ "partial" \notin Faults => Known(k)' = Known(k)
    BY <1>1, <2>3, <2>4, <2>5 DEF Known
  <2>. QED
    BY <2>6, <2>7
<1>9. CASE Exit
  BY <1>9 DEF Exit, Alive
<1>10. CASE Stopped \/ UNCHANGED vars
  BY <1>10 DEF Stopped, vars, Known, ChargedTo
<1>. QED
  BY <1>2, <1>3, <1>4, <1>5, <1>6, <1>7, <1>8, <1>9, <1>10 DEF Next

(* A recorded event that was not charged before counts one on both sides.   *)
LEMMA CountsStep ==
  ASSUME TypeOK, TypeOK', TakenInReport, OnePlace, [Next]_vars, Alive', NEW k \in Keys
  PROVE  /\ Known(k) \in Nat /\ Known(k)' \in Nat
         /\ Cardinality(ChargedTo(k)) \in Nat /\ Cardinality(ChargedTo(k)') \in Nat
         /\ \/ \E d \in Nat : /\ Known(k)' = Known(k) + d
                              /\ Cardinality(ChargedTo(k)') = Cardinality(ChargedTo(k)) + d
            \/ /\ Known(k)' >= Known(k) /\ "partial" \in Faults
               /\ Cardinality(ChargedTo(k)') = Cardinality(ChargedTo(k))
<1>1. /\ Known(k) \in Nat /\ Known(k)' \in Nat
  <2>1. /\ CountIn(windows, k) \in Nat /\ CountIn(taken, k) \in Nat /\ reported[k] \in Nat
    BY CountType DEF TypeOK
  <2>2. /\ CountIn(windows', k) \in Nat /\ CountIn(taken', k) \in Nat /\ reported'[k] \in Nat
    BY CountType DEF TypeOK
  <2>. QED
    BY <2>1, <2>2 DEF Known
<1>2. Cardinality(ChargedTo(k)) \in Nat /\ Cardinality(ChargedTo(k)') \in Nat
  <2>1. ChargedTo(k) \subseteq Events /\ ChargedTo(k)' \subseteq Events
    BY DEF ChargedTo
  <2>. QED
    BY <2>1, Parameters, FS_Subset, FS_CardinalityType
<1>3. CASE ChargedTo(k)' = ChargedTo(k) /\ Known(k)' = Known(k)
  <2>1. 0 \in Nat /\ Known(k)' = Known(k) + 0
        /\ Cardinality(ChargedTo(k)') = Cardinality(ChargedTo(k)) + 0
    BY <1>1, <1>2, <1>3
  <2>. QED
    BY <1>1, <1>2, <2>1
<1>4. CASE ChargedTo(k)' = ChargedTo(k) /\ Known(k)' >= Known(k) /\ "partial" \in Faults
  BY <1>1, <1>2, <1>4
<1>5. ASSUME NEW e \in Events, NEW at \in Times, e \in batch \cup DOMAIN refused,
             charged' = [charged EXCEPT ![e] = KeyFor(ChainOf[e])],
             windows' = Recorded(KeyFor(ChainOf[e]), at),
             taken' = taken, reported' = reported
      PROVE  \E d \in Nat : /\ Known(k)' = Known(k) + d
                            /\ Cardinality(ChargedTo(k)') = Cardinality(ChargedTo(k)) + d
  <2>. DEFINE d == IF k = KeyFor(ChainOf[e]) THEN 1 ELSE 0
  <2>1. charged[e] = None
    BY <1>5 DEF OnePlace
  <2>2. Known(k)' = Known(k) + d
    BY <1>5, KnownAfterRecord
  <2>3. Cardinality(ChargedTo(k)') = Cardinality(ChargedTo(k)) + d
    BY <1>5, <2>1, ChargedToAfter
  <2>4. d \in Nat
    OBVIOUS
  <2>. HIDE DEF d
  <2>. QED
    BY <2>2, <2>3, <2>4
<1>. QED
  BY <1>1, <1>2, <1>3, <1>4, <1>5, KnownStep

(* Every step keeps the counts from falling behind.                        *)
LEMMA HolesStep ==
  TypeOK /\ TypeOK' /\ TakenInReport /\ OnePlace /\ HolesNotUnderstated /\ [Next]_vars
    => HolesNotUnderstated'
<1>. SUFFICES ASSUME TypeOK, TypeOK', TakenInReport, OnePlace, HolesNotUnderstated,
                     [Next]_vars, Alive', NEW k \in Keys
              PROVE  Known(k)' >= Cardinality(ChargedTo(k)')
  BY DEF HolesNotUnderstated, Known
<1>1. Known(k) >= Cardinality(ChargedTo(k))
  BY AliveBefore DEF HolesNotUnderstated, Known
<1>. QED
  BY <1>1, CountsStep

(* So does it with the exact counts, when a failed publish stores nothing.  *)
LEMMA DropsStep ==
  ASSUME "partial" \notin Faults
  PROVE  TypeOK /\ TypeOK' /\ TakenInReport /\ OnePlace /\ DropsAddUp /\ [Next]_vars
           => DropsAddUp'
<1>. SUFFICES ASSUME TypeOK, TypeOK', TakenInReport, OnePlace, DropsAddUp,
                     [Next]_vars, Alive', NEW k \in Keys
              PROVE  Known(k)' = Cardinality(ChargedTo(k)')
  BY DEF DropsAddUp, Known
<1>1. Known(k) = Cardinality(ChargedTo(k))
  BY AliveBefore DEF DropsAddUp, Known
<1>. QED
  BY <1>1, CountsStep

(* At first nothing is charged and nothing is known.                        *)
LEMMA CountsInit == Init => TakenInReport /\ DropsAddUp /\ HolesNotUnderstated
<1>. SUFFICES ASSUME Init PROVE TakenInReport /\ DropsAddUp /\ HolesNotUnderstated
  OBVIOUS
<1>1. DOMAIN taken = {} /\ DOMAIN windows = {}
  BY EmptyMapType DEF Init
<1>2. ASSUME NEW k \in Keys
      PROVE  /\ CountIn(windows, k) = 0 /\ CountIn(taken, k) = 0 /\ reported[k] = 0
             /\ Cardinality(ChargedTo(k)) = 0
  <2>1. ChargedTo(k) = {}
    BY Parameters DEF Init, ChargedTo
  <2>. QED
    BY <1>1, <2>1, CountEmpty, FS_EmptySet DEF Init
<1>. QED
  BY <1>1, <1>2 DEF TakenInReport, DropsAddUp, HolesNotUnderstated

(* No hole is understated, whatever a failed publish has stored.            *)
THEOREM NoHoleIsUnderstated == Spec => []HolesNotUnderstated
  BY CountsInit, HolesStep, TakenInReportStep, EveryEventInOnePlace,
     TelemetryTypeCorrect, PTL DEF Spec

(* When a failed publish stores nothing, every hole is stated exactly.      *)
THEOREM EveryHoleIsExact ==
  ASSUME "partial" \notin Faults PROVE Spec => []DropsAddUp
  BY CountsInit, DropsStep, TakenInReportStep, EveryEventInOnePlace,
     TelemetryTypeCorrect, PTL DEF Spec
=============================================================================
