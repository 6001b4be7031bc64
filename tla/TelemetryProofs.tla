--------------------------- MODULE TelemetryProofs ---------------------------
(***************************************************************************)
(* Proofs about Telemetry, for any uploads, batches, speeds and capacities. *)
(***************************************************************************)
EXTENDS Telemetry, TLAPS

----------------------------------------------------------------------------
(***************************************************************************)
(* Types.                                                                  *)
(***************************************************************************)
Batch == [stamp : Time, times : Seq(Time), named : BOOLEAN]
Reading == Upload \X Nat

Shape ==
  /\ now \in 0..MaxNow
  /\ speed \in Speeds
  /\ waitingFor \in Sampled \cup {None}
  /\ batch \in [Upload -> Batch]
  /\ pc \in [Upload -> {"new", "validate", "insert", "commit", "offer", "done"}]
  /\ next \in [Upload -> Nat \ {0}]
  /\ answer \in [Upload -> {"none", "ok", "invalid", "failed", "panic", "cut"}]
  /\ stored \subseteq Reading
  /\ handed \subseteq Reading
  /\ dropped \subseteq Reading
  /\ phase \in {"open", "closed", "stopping", "down"}
  /\ receiver \in {"running", "exited"}

Channels ==
  /\ alarmCh \in Seq(Reading) /\ Len(alarmCh) <= AlarmCap
  /\ batchCh \in Seq(Upload) /\ Len(batchCh) <= BatchCap

(***************************************************************************)
(* Where an upload is tells what became of its readings.                   *)
(***************************************************************************)
Count(u) == Len(batch[u].times)

Untouched(u) ==
  /\ next[u] = 1
  /\ \A i \in Nat : <<u, i>> \notin stored \cup handed \cup dropped

\* The readings offered so far are those before next[u].
Offered(u) ==
  /\ next[u] <= Count(u) + 1
  /\ \A i \in 1..Count(u) : <<u, i>> \in stored
  /\ \A i \in Nat : <<u, i>> \in handed \cup dropped <=> i \in 1..next[u] - 1

Progress ==
  \A u \in Upload :
    /\ pc[u] = "new" => batch[u] = NoBatch
    /\ pc[u] \in {"new", "validate", "insert", "commit"} => Untouched(u)
    /\ pc[u] = "offer" => Offered(u)
    /\ next[u] <= Count(u) + 1
    /\ \A i \in Nat : <<u, i>> \in stored \cup handed \cup dropped => i \in 1..Count(u)

Answered ==
  \A u \in Upload :
    /\ pc[u] = "new" => answer[u] = "none"
    /\ pc[u] # "done" => answer[u] \in {"none", "cut"}
    /\ pc[u] # "done" /\ phase # "down" => answer[u] = "none"
    /\ answer[u] = "ok" =>
         \A i \in 1..Count(u) : <<u, i>> \in stored /\ <<u, i>> \in handed \cup dropped

\* No accepted reading lies ahead of the limit.
OnTime(u) == \A i \in 1..Count(u) :
               batch[u].times[i] \in Int /\ batch[u].times[i] <= now + Limit

Timely ==
  \A u \in Upload :
    /\ pc[u] \in {"insert", "commit", "offer"} => OnTime(u)
    /\ (\E i \in Nat : <<u, i>> \in stored) => OnTime(u)

IInv == Shape /\ Channels /\ Progress /\ Answered /\ Timely

----------------------------------------------------------------------------
(***************************************************************************)
(* Batches.                                                                *)
(***************************************************************************)
LEMMA SampledBatch ==
  ASSUME Shape
  PROVE  [stamp |-> Elapsed, times |-> [i \in 1..Size |-> Elapsed], named |-> TRUE] \in Batch
<1> USE TelemetryAssumption
<1>1. now \in Int /\ speed \in Nat
  BY DEF Shape
<1>2. speed \div 10 \in Int
  BY <1>1
<1>3. Elapsed \in Time
  BY <1>1, <1>2 DEF Elapsed, Time
<1>4. [i \in 1..Size |-> Elapsed] \in Seq(Time)
  BY <1>3
<1> QED BY <1>3, <1>4 DEF Batch

LEMMA FilledBatch ==
  ASSUME now \in Int, NEW b \in Batch
  PROVE  /\ Filled(b) \in Batch
         /\ Len(Filled(b).times) = Len(b.times)
         /\ \A i \in 1..Len(b.times) : Filled(b).times[i] \in Int
<1> DEFINE stamp == IF b.stamp = Zero THEN now ELSE b.stamp
           times == [i \in DOMAIN b.times |-> IF b.times[i] = Zero THEN stamp
                                              ELSE b.times[i]]
<1>1. b.stamp \in Time /\ b.times \in Seq(Time) /\ b.named \in BOOLEAN
  BY DEF Batch
<1>2. stamp \in Int
  BY <1>1 DEF Time
<1>3. DOMAIN b.times = 1..Len(b.times) /\ Len(b.times) \in Nat
  BY <1>1
<1>4. \A i \in 1..Len(b.times) : b.times[i] \in Time
  BY <1>1
<1>5. \A i \in 1..Len(b.times) : times[i] \in Int
  BY <1>2, <1>3, <1>4 DEF Time
<1> HIDE DEF stamp
<1>6. times \in [1..Len(b.times) -> Time]
  BY <1>3, <1>5 DEF Time
<1>7. times \in Seq(Time) /\ Len(times) = Len(b.times)
  BY <1>3, <1>6
<1> HIDE DEF times
<1>8. Filled(b) = [stamp |-> stamp, named |-> b.named, times |-> times]
  BY DEF Filled, stamp, times
<1>9. Filled(b).times = times
  BY <1>8
<1>10. Filled(b) \in Batch
  BY <1>1, <1>2, <1>7, <1>8 DEF Batch, Time
<1> QED BY <1>5, <1>7, <1>9, <1>10

LEMMA NoBatchTyped == NoBatch \in Batch /\ Len(NoBatch.times) = 0
BY DEF NoBatch, Batch, Time

LEMMA RowsAre ==
  ASSUME Shape, NEW u \in Upload
  PROVE  /\ Count(u) \in Nat
         /\ DOMAIN batch[u].times = 1..Count(u)
         /\ \A r : r \in Rows(u) <=> \E i \in 1..Count(u) : r = <<u, i>>
<1>1. batch[u].times \in Seq(Time)
  BY DEF Shape, Batch
<1> QED BY <1>1 DEF Rows, Count

----------------------------------------------------------------------------
(***************************************************************************)
(* The invariant holds at the start and in every step.                     *)
(***************************************************************************)
LEMMA InvInit == ASSUME Init PROVE IInv
<1> USE TelemetryAssumption
<1>1. Shape
  BY NoBatchTyped DEF Init, Shape
<1>2. Channels
  BY DEF Init, Channels
<1>3. Progress
  BY NoBatchTyped DEF Init, Progress, Untouched, Count
<1>4. Answered
  BY DEF Init, Answered
<1>5. Timely
  BY DEF Init, Timely
<1> QED BY <1>1, <1>2, <1>3, <1>4, <1>5 DEF IInv

LEMMA ArriveStep ==
  ASSUME IInv, NEW u \in Upload, NEW b \in Batch, Arrive(u, b),
         waitingFor' \in Sampled \cup {None}
  PROVE  IInv'
<1> USE TelemetryAssumption
<1>0. Shape /\ Channels /\ Progress /\ Answered /\ Timely
  BY DEF IInv
<1>1. Shape'
  BY <1>0 DEF Shape, Arrive, serverVars
<1>2. Channels'
  BY <1>0 DEF Channels, Arrive
<1>3. Untouched(u) /\ answer[u] = "none" /\ batch[u] = NoBatch
  BY <1>0 DEF Progress, Answered, Arrive
<1>4. /\ \A v \in Upload : v # u => batch'[v] = batch[v] /\ pc'[v] = pc[v]
      /\ batch'[u] = b /\ pc'[u] = "validate"
  BY <1>0 DEF Shape, Arrive
<1>5. Len(b.times) \in Nat
  BY DEF Batch
<1>6. Progress'
  <2> SUFFICES ASSUME NEW v \in Upload
               PROVE  /\ pc'[v] = "new" => batch'[v] = NoBatch
                      /\ pc'[v] \in {"new", "validate", "insert", "commit"} => Untouched(v)'
                      /\ pc'[v] = "offer" => Offered(v)'
                      /\ next'[v] <= Count(v)' + 1
                      /\ \A i \in Nat : <<v, i>> \in (stored \cup handed \cup dropped)'
                                          => i \in 1..Count(v)'
    BY DEF Progress
  <2>1. CASE v = u
    BY <1>3, <1>4, <1>5, <2>1 DEF Arrive, Untouched, Count
  <2>2. CASE v # u
    BY <1>0, <1>4, <2>2 DEF Arrive, Progress, Untouched, Offered, Count
  <2> QED BY <2>1, <2>2
<1>7. Answered'
  BY <1>0, <1>3, <1>4 DEF Arrive, Answered, Count, serverVars
<1>8. Timely'
  <2> SUFFICES ASSUME NEW v \in Upload
               PROVE  /\ pc'[v] \in {"insert", "commit", "offer"} => OnTime(v)'
                      /\ (\E i \in Nat : <<v, i>> \in stored') => OnTime(v)'
    BY DEF Timely
  <2>1. CASE v = u
    BY <1>3, <1>4, <2>1 DEF Arrive, Untouched
  <2>2. CASE v # u
    BY <1>0, <1>4, <2>2 DEF Arrive, Timely, OnTime, Count
  <2> QED BY <2>1, <2>2
<1> QED BY <1>1, <1>2, <1>6, <1>7, <1>8 DEF IInv

LEMMA ClientStep ==
  ASSUME IInv, StopWaiting \/ SetSpeed \/ Tick PROVE IInv'
<1> USE TelemetryAssumption
<1>0. Shape /\ Channels /\ Progress /\ Answered /\ Timely
  BY DEF IInv
<1>1. /\ UNCHANGED <<batch, pc, next, answer, stored, alarmCh, batchCh, serverVars,
                     handed, dropped>>
      /\ now' \in 0..MaxNow /\ now <= now'
      /\ speed' \in Speeds /\ waitingFor' \in Sampled \cup {None}
  BY <1>0 DEF Shape, StopWaiting, SetSpeed, Tick
<1>2. Shape' /\ Channels'
  BY <1>0, <1>1 DEF Shape, Channels, serverVars
<1>3. Progress' /\ Answered'
  BY <1>0, <1>1 DEF Progress, Untouched, Offered, Count, Answered, serverVars
<1>4. \A u \in Upload : OnTime(u) => OnTime(u)'
  BY <1>0, <1>1 DEF Shape, OnTime, Count
<1>5. Timely'
  BY <1>0, <1>1, <1>4 DEF Timely
<1> QED BY <1>2, <1>3, <1>5 DEF IInv

LEMMA ValidateStep ==
  ASSUME IInv, NEW u \in Upload, Validate(u) PROVE IInv'
<1> USE TelemetryAssumption
<1>0. Shape /\ Channels /\ Progress /\ Answered /\ Timely
  BY DEF IInv
<1>1. /\ now \in Int /\ batch[u] \in Batch
      /\ batch' = [batch EXCEPT ![u] = Filled(batch[u])]
      /\ now' = now /\ pc[u] = "validate" /\ phase # "down"
  BY <1>0 DEF Shape, Validate, At, clientVars
<1>2. /\ Filled(batch[u]) \in Batch
      /\ Len(Filled(batch[u]).times) = Count(u)
      /\ \A i \in 1..Count(u) : Filled(batch[u]).times[i] \in Int
  BY <1>1, FilledBatch DEF Count
<1>3. /\ batch'[u] = Filled(batch[u])
      /\ \A v \in Upload : v # u => batch'[v] = batch[v]
      /\ \A v \in Upload : Count(v)' = Count(v)
  BY <1>0, <1>1, <1>2 DEF Shape, Count
<1>4. Untouched(u) /\ answer[u] = "none" /\ Count(u) \in Nat
  BY <1>0, <1>1, RowsAre DEF Progress, Answered
<1>5. Shape' /\ Channels'
  <2>1. batch' \in [Upload -> Batch]
    BY <1>0, <1>1, <1>2 DEF Shape
  <2> QED BY <1>0, <2>1 DEF Validate, Shape, Channels, Reply, clientVars, serverVars
<1>6. /\ \A v \in Upload : v # u => pc'[v] = pc[v] /\ answer'[v] = answer[v]
      /\ \/ pc'[u] = "insert" /\ answer'[u] = "none" /\ Acceptable(batch'[u])
         \/ pc'[u] = "done" /\ answer'[u] = "invalid"
  BY <1>0, <1>4 DEF Validate, Shape, Reply
<1>7. Progress'
  BY <1>0, <1>1, <1>3, <1>4, <1>6 DEF Validate, Progress, Untouched, Offered
<1>8. Answered'
  BY <1>0, <1>1, <1>3, <1>6 DEF Validate, Answered, serverVars
<1>9. pc'[u] = "insert" => OnTime(u)'
  <2> SUFFICES ASSUME Acceptable(batch'[u]), NEW i \in 1..Count(u)
               PROVE  batch'[u].times[i] <= now + Limit
    BY <1>1, <1>2, <1>3, <1>6 DEF OnTime
  <2>1. batch'[u].times[i] \in Int /\ i \in DOMAIN batch'[u].times
    BY <1>2, <1>3, <1>4 DEF Batch
  <2> QED BY <1>1, <2>1 DEF Acceptable, InFuture
<1>10. Timely'
  <2> SUFFICES ASSUME NEW v \in Upload
               PROVE  /\ pc'[v] \in {"insert", "commit", "offer"} => OnTime(v)'
                      /\ (\E i \in Nat : <<v, i>> \in stored') => OnTime(v)'
    BY DEF Timely
  <2>1. CASE v = u
    BY <1>4, <1>6, <1>9, <2>1 DEF Validate, Untouched
  <2>2. CASE v # u
    BY <1>0, <1>1, <1>3, <1>6, <2>2 DEF Validate, Timely, OnTime
  <2> QED BY <2>1, <2>2
<1> QED BY <1>5, <1>7, <1>8, <1>10 DEF IInv

LEMMA InsertStep ==
  ASSUME IInv, NEW u \in Upload, Insert(u) PROVE IInv'
<1> USE TelemetryAssumption
<1>0. Shape /\ Channels /\ Progress /\ Answered /\ Timely
  BY DEF IInv
<1>1. Shape' /\ Channels'
  BY <1>0 DEF Insert, AfterInsert, Shape, Channels, Reply, clientVars, serverVars
<1>2. /\ \A v \in Upload : v # u => pc'[v] = pc[v] /\ answer'[v] = answer[v]
      /\ pc[u] = "insert" /\ phase # "down"
      /\ \/ pc'[u] = "commit" /\ answer'[u] = answer[u]
         \/ pc'[u] = "done" /\ answer'[u] = "failed"
  BY <1>0 DEF Insert, AfterInsert, Shape, Reply, At
<1>3. Progress'
  BY <1>0, <1>2 DEF Insert, Progress, Untouched, Offered, Count
<1>4. Answered'
  BY <1>0, <1>2 DEF Insert, Answered, Count, serverVars
<1>5. \A v \in Upload : OnTime(v)' = OnTime(v)
  BY DEF Insert, OnTime, Count, clientVars
<1>6. Timely'
  BY <1>0, <1>2, <1>5 DEF Insert, Timely
<1> QED BY <1>1, <1>3, <1>4, <1>6 DEF IInv

LEMMA CommitStep ==
  ASSUME IInv, NEW u \in Upload, Commit(u) PROVE IInv'
<1> USE TelemetryAssumption
<1>0. Shape /\ Channels /\ Progress /\ Answered /\ Timely
  BY DEF IInv
<1>1. /\ \A v \in Upload : v # u => pc'[v] = pc[v] /\ answer'[v] = answer[v]
      /\ pc[u] = "commit" /\ phase # "down"
      /\ \/ pc'[u] = "offer" /\ answer'[u] = answer[u] /\ stored' = stored \cup Rows(u)
         \/ /\ pc'[u] = "done" /\ answer'[u] = "failed"
            /\ stored' \in {stored, stored \cup Rows(u)}
  BY <1>0 DEF Commit, Shape, Reply, At
<1>2. Untouched(u) /\ OnTime(u)
  BY <1>0, <1>1 DEF Progress, Timely
<1>3. /\ stored \subseteq stored'
      /\ \A v \in Upload, i \in Nat : v # u => (<<v, i>> \in stored' <=> <<v, i>> \in stored)
      /\ \A i \in Nat : <<u, i>> \in stored' => i \in 1..Count(u)
      /\ pc'[u] = "offer" => \A i \in 1..Count(u) : <<u, i>> \in stored'
      /\ stored' \subseteq Reading
  BY SMTT(20), <1>0, <1>1, <1>2, RowsAre DEF Untouched, Shape, Reading
<1>4. Shape' /\ Channels'
  BY <1>0, <1>1, <1>3 DEF Commit, Shape, Channels, Reply, clientVars, serverVars
<1>5. \A v \in Upload : Count(v)' = Count(v) /\ OnTime(v)' = OnTime(v)
  BY DEF Commit, OnTime, Count, clientVars
<1>6. Progress'
  <2> SUFFICES ASSUME NEW v \in Upload
               PROVE  /\ pc'[v] = "new" => batch'[v] = NoBatch
                      /\ pc'[v] \in {"new", "validate", "insert", "commit"} => Untouched(v)'
                      /\ pc'[v] = "offer" => Offered(v)'
                      /\ next'[v] <= Count(v)' + 1
                      /\ \A i \in Nat : <<v, i>> \in (stored \cup handed \cup dropped)'
                                          => i \in 1..Count(v)'
    BY DEF Progress
  <2>1. CASE v = u
    <3>1. Count(u) \in Nat
      BY <1>0, RowsAre
    <3> QED BY <1>1, <1>2, <1>3, <1>5, <2>1, <3>1 DEF Commit, Untouched, Offered
  <2>2. CASE v # u
    <3>1. UNCHANGED <<batch, next, handed, dropped>> /\ pc'[v] = pc[v] /\ Count(v) \in Nat
      BY <1>0, <1>1, <2>2, RowsAre DEF Commit
    <3>2. \A i \in Nat : <<v, i>> \in stored' <=> <<v, i>> \in stored
      BY <1>3, <2>2
    <3> QED BY <1>0, <1>5, <3>1, <3>2 DEF Progress, Untouched, Offered
  <2> QED BY <2>1, <2>2
<1>7. Answered'
  BY <1>0, <1>1, <1>3, <1>5 DEF Commit, Answered, serverVars
<1>8. Timely'
  BY <1>0, <1>1, <1>2, <1>3, <1>5 DEF Timely
<1> QED BY <1>4, <1>6, <1>7, <1>8 DEF IInv

\* A reading is sent or dropped: what Offer does to the three places it may touch.
LEMMA OfferMoves ==
  ASSUME IInv, NEW u \in Upload, Offer(u)
  PROVE  /\ pc[u] = "offer" /\ next[u] \in 1..Count(u) /\ Count(u) \in Nat
         /\ next' = [next EXCEPT ![u] = next[u] + 1]
         /\ \/ handed' = handed \cup {<<u, next[u]>>} /\ dropped' = dropped
            \/ dropped' = dropped \cup {<<u, next[u]>>} /\ handed' = handed
         /\ UNCHANGED <<clientVars, batch, pc, answer, stored, batchCh, serverVars>>
<1>1. Shape /\ Count(u) \in Nat
  BY RowsAre DEF IInv
<1> QED BY <1>1 DEF Offer, At, NextReading, Shape, Count

LEMMA OfferStep ==
  ASSUME IInv, NEW u \in Upload, Offer(u) PROVE IInv'
<1> USE TelemetryAssumption
<1>0. Shape /\ Channels /\ Progress /\ Answered /\ Timely
  BY DEF IInv
<1>1. /\ pc[u] = "offer" /\ next[u] \in 1..Count(u) /\ Count(u) \in Nat
      /\ next' = [next EXCEPT ![u] = next[u] + 1]
      /\ \/ handed' = handed \cup {<<u, next[u]>>} /\ dropped' = dropped
         \/ dropped' = dropped \cup {<<u, next[u]>>} /\ handed' = handed
      /\ UNCHANGED <<clientVars, batch, pc, answer, stored, batchCh, serverVars>>
  BY OfferMoves
<1>2. \A v \in Upload : Count(v)' = Count(v) /\ OnTime(v)' = OnTime(v)
  BY <1>1 DEF OnTime, Count, clientVars
<1>3. \A v \in Upload, i \in Nat :
        <<v, i>> \in (handed \cup dropped)' <=>
          <<v, i>> \in handed \cup dropped \/ (v = u /\ i = next[u])
  BY <1>1
<1>4. <<u, next[u]>> \in Reading
  BY <1>1 DEF Reading
<1>5. Shape'
  <2>1. next' \in [Upload -> Nat \ {0}]
    BY <1>0, <1>1 DEF Shape
  <2>2. handed' \subseteq Reading /\ dropped' \subseteq Reading
    BY <1>0, <1>1, <1>4 DEF Shape
  <2> QED BY <1>0, <1>1, <2>1, <2>2 DEF Shape, clientVars, serverVars
<1>6. Channels'
  <2>1. alarmCh \in Seq(Reading) /\ Len(alarmCh) \in Nat
    BY <1>0 DEF Channels
  <2>2. /\ Append(alarmCh, <<u, next[u]>>) \in Seq(Reading)
        /\ Len(Append(alarmCh, <<u, next[u]>>)) = Len(alarmCh) + 1
    BY <1>4, <2>1
  <2>3. \/ alarmCh' = alarmCh
        \/ alarmCh' = Append(alarmCh, <<u, next[u]>>) /\ Len(alarmCh) < AlarmCap
    BY DEF Offer, HasRoom
  <2>4. alarmCh' \in Seq(Reading)
    BY <2>1, <2>2, <2>3
  <2>5. Len(alarmCh') <= AlarmCap
    <3>1. CASE alarmCh' = alarmCh
      BY <1>0, <3>1 DEF Channels
    <3>2. CASE alarmCh' = Append(alarmCh, <<u, next[u]>>) /\ Len(alarmCh) < AlarmCap
      <4>1. Len(alarmCh') = Len(alarmCh) + 1
        BY <2>2, <3>2
      <4> QED BY <2>1, <3>2, <4>1
    <3> QED BY <2>3, <3>1, <3>2
  <2> QED BY <1>0, <1>1, <2>4, <2>5 DEF Channels
<1>7. Progress'
  <2> SUFFICES ASSUME NEW v \in Upload
               PROVE  /\ pc'[v] = "new" => batch'[v] = NoBatch
                      /\ pc'[v] \in {"new", "validate", "insert", "commit"} => Untouched(v)'
                      /\ pc'[v] = "offer" => Offered(v)'
                      /\ next'[v] <= Count(v)' + 1
                      /\ \A i \in Nat : <<v, i>> \in (stored \cup handed \cup dropped)'
                                          => i \in 1..Count(v)'
    BY DEF Progress
  <2>1. CASE v = u
    <3>1. Offered(u)
      BY <1>0, <1>1 DEF Progress
    <3>2. next'[u] = next[u] + 1
      BY <1>0, <1>1 DEF Shape
    <3>3. Offered(u)'
      BY <1>1, <1>2, <1>3, <3>1, <3>2 DEF Offered
    <3>4. \A i \in Nat : <<u, i>> \in (stored \cup handed \cup dropped)' => i \in 1..Count(u)'
      BY <1>0, <1>1, <1>2, <1>3 DEF Progress
    <3> QED BY <1>1, <1>2, <2>1, <3>2, <3>3, <3>4
  <2>2. CASE v # u
    <3>1. next'[v] = next[v] /\ UNCHANGED <<batch, pc, stored>>
      BY <1>0, <1>1, <2>2 DEF Shape
    <3>2. \A i \in Nat : <<v, i>> \in (handed \cup dropped)' <=> <<v, i>> \in handed \cup dropped
      BY <1>3, <2>2
    <3> QED BY <1>0, <1>2, <3>1, <3>2 DEF Progress, Untouched, Offered
  <2> QED BY <2>1, <2>2
<1>8. Answered'
  BY <1>0, <1>1, <1>2, <1>3 DEF Answered, serverVars
<1>9. Timely'
  BY <1>0, <1>1, <1>2 DEF Timely
<1> QED BY <1>5, <1>6, <1>7, <1>8, <1>9 DEF IInv

\* The end of a handler that has its readings stored.
LEMMA OfferEnds ==
  ASSUME IInv, NEW u \in Upload, OfferBatch(u) \/ SendOnClosed(u) PROVE IInv'
<1> USE TelemetryAssumption
<1>0. Shape /\ Channels /\ Progress /\ Answered /\ Timely
  BY DEF IInv
<1>1. /\ pc[u] = "offer"
      /\ UNCHANGED <<clientVars, batch, next, stored, alarmCh, serverVars, handed, dropped>>
      /\ pc' = [pc EXCEPT ![u] = "done"]
      /\ \/ answer' = [answer EXCEPT ![u] = "ok"] /\ next[u] > Count(u)
         \/ answer' = [answer EXCEPT ![u] = "panic"]
  BY DEF OfferBatch, SendOnClosed, Reply, At, Count
<1>2. /\ \A v \in Upload : v # u => pc'[v] = pc[v] /\ answer'[v] = answer[v]
      /\ pc'[u] = "done"
      /\ (answer'[u] = "ok" /\ next[u] > Count(u)) \/ answer'[u] = "panic"
  BY <1>0, <1>1 DEF Shape
<1>3. \A v \in Upload : Count(v)' = Count(v) /\ OnTime(v)' = OnTime(v) /\ Count(v) \in Nat
  BY <1>0, <1>1, RowsAre DEF OnTime, Count, clientVars
<1>4. Shape'
  BY <1>0, <1>1 DEF Shape, clientVars, serverVars
<1>5. Channels'
  <2>1. batchCh \in Seq(Upload) /\ Len(batchCh) \in Nat
    BY <1>0 DEF Channels
  <2>2. Append(batchCh, u) \in Seq(Upload) /\ Len(Append(batchCh, u)) = Len(batchCh) + 1
    BY <2>1
  <2>3. batchCh' = batchCh \/ (batchCh' = Append(batchCh, u) /\ Len(batchCh) < BatchCap)
    BY DEF OfferBatch, SendOnClosed
  <2>4. batchCh' \in Seq(Upload)
    BY <2>1, <2>2, <2>3
  <2>5. Len(batchCh') <= BatchCap
    <3>1. CASE batchCh' = batchCh
      BY <1>0, <3>1 DEF Channels
    <3>2. CASE batchCh' = Append(batchCh, u) /\ Len(batchCh) < BatchCap
      <4>1. Len(batchCh') = Len(batchCh) + 1
        BY <2>2, <3>2
      <4> QED BY <2>1, <3>2, <4>1
    <3> QED BY <2>3, <3>1, <3>2
  <2> QED BY <1>0, <1>1, <2>4, <2>5 DEF Channels
<1>6. Progress'
  BY <1>0, <1>1, <1>2, <1>3 DEF Progress, Untouched, Offered
<1>7. answer'[u] = "ok" =>
        \A i \in 1..Count(u) : <<u, i>> \in stored /\ <<u, i>> \in handed \cup dropped
  <2>1. Offered(u) /\ next[u] \in Nat
    BY <1>0, <1>1 DEF Progress, Shape
  <2> QED BY <1>2, <1>3, <2>1 DEF Offered
<1>8. Answered'
  BY <1>0, <1>1, <1>2, <1>3, <1>7 DEF Answered, serverVars
<1>9. Timely'
  BY <1>0, <1>1, <1>2, <1>3 DEF Timely
<1> QED BY <1>4, <1>5, <1>6, <1>8, <1>9 DEF IInv

LEMMA OtherEndsStep ==
  ASSUME IInv, TakeReading \/ TakeBatch \/ ReceiverExit \/ StopServer PROVE IInv'
<1> USE TelemetryAssumption
<1>0. Shape /\ Channels /\ Progress /\ Answered /\ Timely
  BY DEF IInv
<1>1. /\ UNCHANGED <<clientVars, batch, pc, next, answer, stored, handed, dropped>>
      /\ phase' = phase \/ (phase # "down" /\ phase' \in {"closed", "stopping"})
      /\ receiver' \in {receiver, "exited"}
  BY DEF TakeReading, TakeBatch, ReceiverExit, StopServer, serverVars
<1>2. Shape'
  BY <1>0, <1>1 DEF Shape, clientVars
<1>3. Channels'
  <2>1. /\ alarmCh \in Seq(Reading) /\ Len(alarmCh) \in Nat /\ Len(alarmCh) <= AlarmCap
        /\ batchCh \in Seq(Upload) /\ Len(batchCh) \in Nat /\ Len(batchCh) <= BatchCap
    BY <1>0 DEF Channels
  <2>2. alarmCh' = alarmCh \/ (alarmCh # <<>> /\ alarmCh' = Tail(alarmCh))
    BY DEF TakeReading, TakeBatch, ReceiverExit, StopServer
  <2>3. batchCh' = batchCh \/ (batchCh # <<>> /\ batchCh' = Tail(batchCh))
    BY DEF TakeReading, TakeBatch, ReceiverExit, StopServer
  <2>4. alarmCh' \in Seq(Reading) /\ Len(alarmCh') <= AlarmCap
    <3>1. alarmCh # <<>> => /\ Tail(alarmCh) \in Seq(Reading)
                            /\ Len(Tail(alarmCh)) = Len(alarmCh) - 1
      BY <2>1
    <3> QED BY SMTT(20), <2>1, <2>2, <3>1
  <2>5. batchCh' \in Seq(Upload) /\ Len(batchCh') <= BatchCap
    <3>1. batchCh # <<>> => /\ Tail(batchCh) \in Seq(Upload)
                            /\ Len(Tail(batchCh)) = Len(batchCh) - 1
      BY <2>1
    <3> QED BY <2>1, <2>3, <3>1
  <2> QED BY <2>4, <2>5 DEF Channels
<1>4. Progress'
  BY <1>0, <1>1 DEF Progress, Untouched, Offered, Count
<1>5. Answered'
  BY <1>0, <1>1 DEF Answered, Count
<1>6. Timely'
  BY <1>0, <1>1 DEF Timely, OnTime, Count, clientVars
<1> QED BY <1>2, <1>3, <1>4, <1>5, <1>6 DEF IInv

LEMMA DieStep == ASSUME IInv, Die PROVE IInv'
<1> USE TelemetryAssumption
<1>0. Shape /\ Channels /\ Progress /\ Answered /\ Timely
  BY DEF IInv
<1>1. Shape' /\ Channels'
  BY <1>0 DEF Die, Shape, Channels, clientVars
<1>2. Progress'
  BY <1>0 DEF Die, Progress, Untouched, Offered, Count
<1>3. Answered'
  BY <1>0 DEF Die, Answered, Count
<1>4. Timely'
  BY <1>0 DEF Die, Timely, OnTime, Count, clientVars
<1> QED BY <1>1, <1>2, <1>3, <1>4 DEF IInv

LEMMA InvStep == ASSUME IInv, [Next]_vars PROVE IInv'
<1> USE TelemetryAssumption
<1>1. CASE UNCHANGED vars
  BY <1>1 DEF vars, IInv, Shape, Channels, Progress, Untouched, Offered, Count, Answered,
     Timely, OnTime
<1>2. ASSUME NEW u \in Upload, SendBatch(u) PROVE IInv'
  <2>1. Shape
    BY DEF IInv
  <2> QED BY <1>2, <2>1, SampledBatch, ArriveStep DEF SendBatch
<1>3. ASSUME NEW u \in Upload, SendManual(u) PROVE IInv'
  <2>1. ManualBatch \subseteq Batch /\ waitingFor' \in Sampled \cup {None}
    BY <1>3 DEF SendManual, Batch, Time, IInv, Shape
  <2> QED BY <1>3, <2>1, ArriveStep DEF SendManual
<1>4. ASSUME NEW u \in Upload, Handler(u) PROVE IInv'
  BY <1>4, ValidateStep, InsertStep, CommitStep, OfferStep, OfferEnds DEF Handler
<1> QED
  BY <1>1, <1>2, <1>3, <1>4, ClientStep, OtherEndsStep, DieStep DEF Next

LEMMA InvHolds == Spec => []IInv
BY InvInit, InvStep, PTL DEF Spec

----------------------------------------------------------------------------
(***************************************************************************)
(* What follows from the invariant.                                        *)
(***************************************************************************)
LEMMA IndicesOf ==
  ASSUME IInv, NEW r \in stored \cup handed \cup dropped
  PROVE  /\ r[1] \in Upload /\ r[2] \in 1..Count(r[1]) /\ r = <<r[1], r[2]>>
         /\ r \in Rows(r[1])
<1>1. r \in Upload \X Nat
  BY DEF IInv, Shape, Reading
<1>2. r[1] \in Upload /\ r[2] \in Nat /\ r = <<r[1], r[2]>>
  BY <1>1
<1>3. r[2] \in 1..Count(r[1])
  BY <1>2 DEF IInv, Progress
<1> QED BY <1>2, <1>3, RowsAre DEF IInv

\* The variables keep their types, no reading is noted that no upload holds, and
\* neither channel holds more than its capacity.
THEOREM TelemetryTypeCorrect == Spec => []TypeOK
<1>1. ASSUME IInv PROVE TypeOK
  <2>1. \A u \in Upload : next[u] \in 1..Len(batch[u].times) + 1
    <3>1. \A u \in Upload : Count(u) \in Nat
      BY <1>1, RowsAre DEF IInv
    <3> QED BY <1>1, <3>1 DEF IInv, Shape, Progress, Count
  <2>2. \A r \in stored \cup handed \cup dropped : r[1] \in Upload /\ r \in Rows(r[1])
    BY <1>1, IndicesOf
  <2> QED BY <1>1, <2>1, <2>2 DEF IInv, Shape, Channels, TypeOK, Batch
<1> QED BY <1>1, InvHolds, PTL

\* An upload answered with 200 is stored, and each of its readings was sent to
\* the alarm service or dropped at a full channel.
THEOREM StoredAndOffered == Spec => []OkMeansOffered
<1>1. ASSUME IInv PROVE OkMeansOffered
  <2> SUFFICES ASSUME NEW u \in Upload, answer[u] = "ok"
               PROVE  /\ Rows(u) \subseteq stored
                      /\ Rows(u) \subseteq handed \cup dropped
    BY DEF OkMeansOffered
  <2>1. \A i \in 1..Count(u) : <<u, i>> \in stored /\ <<u, i>> \in handed \cup dropped
    BY <1>1 DEF IInv, Answered
  <2> QED BY <1>1, <2>1, RowsAre DEF IInv
<1> QED BY <1>1, InvHolds, PTL

\* No stored reading lies further in the future than Validate allows, whichever
\* clock its time came from, and whatever the clocks do later.
THEOREM NothingFromTheFuture == Spec => []NoStoredFuture
<1>1. ASSUME IInv PROVE NoStoredFuture
  <2> SUFFICES ASSUME NEW r \in stored
               PROVE  batch[r[1]].times[r[2]] <= now + Limit
    BY DEF NoStoredFuture
  <2>1. r[1] \in Upload /\ r[2] \in 1..Count(r[1]) /\ <<r[1], r[2]>> \in stored
    BY <1>1, IndicesOf
  <2>2. r[2] \in Nat
    BY <1>1, <2>1, RowsAre DEF IInv
  <2>3. OnTime(r[1])
    BY <1>1, <2>1, <2>2 DEF IInv, Timely
  <2> QED BY <2>1, <2>3 DEF OnTime
<1> QED BY <1>1, InvHolds, PTL

----------------------------------------------------------------------------
(***************************************************************************)
(* The ingest implements its promise.                                      *)
(***************************************************************************)
Sizes == [u \in Upload |-> Len(batch[u].times)]

LEMMA ReadingsAreRows ==
  ASSUME Shape, NEW u \in Upload PROVE Promise!Readings(u) = Rows(u)
<1>1. /\ DOMAIN batch[u].times = 1..Count(u)
      /\ [v \in Upload |-> Len(batch[v].times)][u] = Count(u)
  BY RowsAre DEF Count
<1> QED BY <1>1 DEF Promise!Readings, Rows

LEMMA PromiseInit == ASSUME Init PROVE Promise!Init
BY NoBatchTyped DEF Init, Promise!Init

\* A handler that ends without an effect on the readings.
LEMMA PromiseReply ==
  ASSUME IInv, NEW u \in Upload, NEW a, Reply(u, a), Sizes' = Sizes,
         UNCHANGED <<stored, handed>>, pc[u] # "done", phase # "down",
         a = "ok" => Rows(u) \subseteq stored
  PROVE  Promise!Answer(u)
<1>1. answer[u] = "none" /\ Shape
  BY DEF IInv, Answered
<1>2. answer' = [answer EXCEPT ![u] = a] /\ answer'[u] = a
  BY <1>1 DEF Reply, Shape
<1>3. \A v \in Upload \ {u} : answer'[v] = answer[v]
  BY <1>1, <1>2 DEF Shape
<1>4. Promise!Readings(u) = Rows(u)
  BY <1>1, ReadingsAreRows
<1> QED BY <1>1, <1>2, <1>3, <1>4 DEF Promise!Answer, Sizes

LEMMA PromiseArrive ==
  ASSUME IInv, NEW u \in Upload, NEW b \in Batch, Arrive(u, b)
  PROVE  Promise!Receive(u)
<1>1. Shape /\ batch[u] = NoBatch
  BY DEF IInv, Progress, Arrive
<1>2. Sizes[u] = 0
  BY <1>1, NoBatchTyped DEF Sizes
<1>3. batch' = [batch EXCEPT ![u] = b]
  BY DEF Arrive
<1>4. Sizes' = [Sizes EXCEPT ![u] = Len(b.times)] /\ Sizes'[u] = Len(b.times)
  BY <1>1, <1>3 DEF Sizes, Shape
<1>5. Len(b.times) \in Nat
  BY DEF Batch
<1>6. Sizes' = [Sizes EXCEPT ![u] = Sizes'[u]] /\ Sizes'[u] \in Nat
  BY <1>4, <1>5
<1> QED BY <1>2, <1>6 DEF Promise!Receive, Arrive, Sizes

LEMMA PromiseCommit ==
  ASSUME IInv, NEW u \in Upload, Commit(u) PROVE Promise!Next
<1>1. Shape /\ pc[u] = "commit" /\ phase # "down" /\ Untouched(u) /\ answer[u] = "none"
  BY DEF IInv, Progress, Answered, Commit, At
<1>2. Sizes' = Sizes /\ handed' = handed
  BY DEF Commit, Sizes
<1>3. Promise!Readings(u) = Rows(u)
  BY <1>1, ReadingsAreRows
<1>4. Rows(u) \cap stored = {}
  BY <1>1, RowsAre DEF Untouched
<1>5. CASE stored' = stored \cup Rows(u)
  <2>1. answer' = answer \/ answer' = [answer EXCEPT ![u] = "failed"]
    BY DEF Commit, Reply
  <2> QED BY <1>1, <1>2, <1>3, <1>4, <1>5, <2>1 DEF Promise!Next, Promise!Store, Sizes
<1>6. CASE stored' = stored /\ Reply(u, "failed")
  <2>1. Promise!Answer(u)
    BY <1>1, <1>2, <1>6, PromiseReply
  <2> QED BY <2>1 DEF Promise!Next
<1> QED BY <1>5, <1>6 DEF Commit

LEMMA PromiseOffer ==
  ASSUME IInv, NEW u \in Upload, Offer(u) PROVE [Promise!Next]_(Promise!vars)
<1>1. /\ pc[u] = "offer" /\ next[u] \in 1..Count(u) /\ Count(u) \in Nat
      /\ \/ handed' = handed \cup {<<u, next[u]>>} /\ dropped' = dropped
         \/ dropped' = dropped \cup {<<u, next[u]>>} /\ handed' = handed
      /\ UNCHANGED <<clientVars, batch, pc, answer, stored, batchCh, serverVars>>
  BY OfferMoves
<1>2. Sizes' = Sizes /\ Sizes[u] = Count(u)
  BY <1>1 DEF Sizes, Count
<1>3. CASE handed' = handed
  BY <1>1, <1>2, <1>3 DEF Promise!vars, Sizes
<1>4. CASE handed' = handed \cup {<<u, next[u]>>}
  <2>1. Offered(u) /\ answer[u] = "none"
    BY <1>1 DEF IInv, Progress, Answered, Offer, At
  <2>2. <<u, next[u]>> \in stored
    BY <1>1, <2>1 DEF Offered
  <2>3. \A j \in next[u]..Count(u) : <<u, j>> \notin handed
    BY <1>1, <2>1 DEF Offered
  <2>4. Promise!Hand(u, next[u])
    BY <1>1, <1>2, <1>4, <2>1, <2>2, <2>3 DEF Promise!Hand, Sizes
  <2> QED BY <1>1, <1>2, <2>4 DEF Promise!Next, Sizes
<1> QED BY <1>1, <1>3, <1>4

LEMMA PromiseHandler ==
  ASSUME IInv, NEW u \in Upload, Handler(u) PROVE [Promise!Next]_(Promise!vars)
<1>1. Shape
  BY DEF IInv
<1>2. CASE Validate(u)
  <2>1. Sizes' = Sizes
    <3>1. now \in Int /\ batch[u] \in Batch /\ batch' = [batch EXCEPT ![u] = Filled(batch[u])]
      BY <1>1, <1>2, TelemetryAssumption DEF Validate, Shape
    <3>2. Len(Filled(batch[u]).times) = Len(batch[u].times)
      BY <3>1, FilledBatch
    <3> QED BY <1>1, <3>1, <3>2 DEF Sizes, Shape
  <2>2. CASE Reply(u, "invalid")
    <3>1. Promise!Answer(u)
      BY <1>2, <2>1, <2>2, PromiseReply DEF Validate, At
    <3> QED BY <3>1 DEF Promise!Next
  <2>3. CASE UNCHANGED answer
    BY <1>2, <2>1, <2>3 DEF Validate, Promise!vars, Sizes
  <2> QED BY <1>2, <2>2, <2>3 DEF Validate
<1>3. CASE Insert(u)
  <2>1. Sizes' = Sizes
    BY <1>3 DEF Insert, Sizes
  <2>2. CASE Reply(u, "failed")
    <3>1. Promise!Answer(u)
      BY <1>3, <2>1, <2>2, PromiseReply DEF Insert, At
    <3> QED BY <3>1 DEF Promise!Next
  <2>3. CASE UNCHANGED answer
    BY <1>3, <2>1, <2>3 DEF Insert, Promise!vars, Sizes
  <2> QED BY <1>3, <2>2, <2>3 DEF Insert
<1>4. CASE Commit(u)
  BY <1>4, PromiseCommit
<1>5. CASE Offer(u)
  BY <1>5, PromiseOffer
<1>6. CASE OfferBatch(u)
  <2>1. Offered(u) /\ next[u] \in Nat /\ next[u] > Count(u)
    BY <1>6 DEF IInv, Shape, Progress, OfferBatch, At, Count
  <2>2. Rows(u) \subseteq stored
    BY <1>1, <2>1, RowsAre DEF Offered
  <2>3. Promise!Answer(u)
    BY <1>6, <2>2, PromiseReply DEF OfferBatch, At, Sizes
  <2> QED BY <2>3 DEF Promise!Next
<1>7. CASE SendOnClosed(u)
  <2>1. Promise!Answer(u)
    BY <1>7, PromiseReply DEF SendOnClosed, At, Sizes
  <2> QED BY <2>1 DEF Promise!Next
<1> QED BY <1>2, <1>3, <1>4, <1>5, <1>6, <1>7 DEF Handler

LEMMA PromiseStep == ASSUME IInv, [Next]_vars PROVE [Promise!Next]_(Promise!vars)
<1> USE TelemetryAssumption
<1>1. CASE UNCHANGED <<batch, stored, handed, answer>>
  BY <1>1 DEF Promise!vars
<1>2. ASSUME NEW u \in Upload, SendBatch(u) PROVE Promise!Next
  <2>1. Promise!Receive(u)
    BY <1>2, SampledBatch, PromiseArrive DEF SendBatch, IInv
  <2> QED BY <2>1 DEF Promise!Next
<1>3. ASSUME NEW u \in Upload, SendManual(u) PROVE Promise!Next
  <2>1. ManualBatch \subseteq Batch
    BY DEF Batch, Time
  <2>2. Promise!Receive(u)
    BY <1>3, <2>1, PromiseArrive DEF SendManual
  <2> QED BY <2>2 DEF Promise!Next
<1>4. CASE Die
  <2>1. \A u \in Upload : answer'[u] # answer[u] => answer[u] = "none" /\ answer'[u] # "ok"
    BY <1>4 DEF Die, IInv, Shape, Answered
  <2>2. Promise!Die
    BY <1>4, <2>1 DEF Die, Promise!Die
  <2> QED BY <2>2 DEF Promise!Next
<1>5. CASE \/ StopWaiting \/ SetSpeed \/ Tick
           \/ TakeReading \/ TakeBatch \/ ReceiverExit \/ StopServer
  BY <1>1, <1>5 DEF StopWaiting, SetSpeed, Tick, TakeReading, TakeBatch, ReceiverExit,
     StopServer
<1>6. CASE UNCHANGED vars
  BY <1>1, <1>6 DEF vars
<1> QED
  BY <1>2, <1>3, <1>4, <1>5, <1>6, PromiseHandler DEF Next

\* Handlers, transaction, channels and the end of the server implement the
\* promise of the ingest: batches are stored whole or not at all, readings are
\* handed on in order, once, and only if stored, and an upload reported as a
\* success was stored.
THEOREM IngestKeepsPromise == Spec => PromiseSpec
<1>1. IInv /\ [Next]_vars => [Promise!Next]_(Promise!vars)
  BY PromiseStep
<1> QED
  BY <1>1, PromiseInit, InvHolds, PTL DEF Spec, PromiseSpec, Promise!Spec
=============================================================================
