----------------------------- MODULE Telemetry -----------------------------
(***************************************************************************)
(* The way of a reading from the clock of the sampling loop to the alarm   *)
(* service: simulator/sensor_simulator.go (main, sendData, trigger),       *)
(* internal/api/server.go (handleDTUDataUpload), internal/dtu_receiver and *)
(* DataStore.InsertSensorDataBatch, with the two channels of the bus.      *)
(*                                                                         *)
(* Time is counted in minutes since the sampling loop started.             *)
(***************************************************************************)
EXTENDS Integers, Sequences, FiniteSets

CONSTANTS
  Sampled,     \* uploads of the sampling loop
  Manual,      \* uploads by others: triggers, other DTUs
  ManualBatch, \* the batches these may hold
  Size,        \* the number of sensors of the sampling loop
  Speeds,      \* values of sim_speed in use, in tenths
  Limit,       \* how far ahead a reading may be: 5 minutes
  MaxBatch,    \* MaxSensorsPerBatch
  AlarmCap,    \* capacity of AlarmRequestCh
  BatchCap,    \* capacity of SensorBatchCh
  MaxNow,      \* bound on the clock
  Zero,        \* the zero time
  None

Upload == Sampled \cup Manual

ASSUME TelemetryAssumption ==
  /\ Sampled \cap Manual = {} /\ None \notin Upload
  /\ Zero \notin Int
  /\ Size \in Nat \ {0} /\ MaxBatch \in Nat \ {0}
  /\ AlarmCap \in Nat \ {0} /\ BatchCap \in Nat \ {0}
  /\ Limit \in Nat /\ MaxNow \in Nat
  /\ Speeds # {} /\ Speeds \subseteq Nat \ {0}
  /\ ManualBatch \subseteq [stamp : Int \cup {Zero}, times : Seq(Int \cup {Zero}),
                            named : BOOLEAN]

VARIABLES
  now,        \* the clock of both hosts
  speed,      \* cfg.SimSpeed of the simulator
  waitingFor, \* the upload the sampling loop waits for
  batch,      \* the payload of each upload: Timestamp, the Times of its
              \* readings, and whether every SensorID is acceptable
  pc,         \* where the handler of each upload is
  next,       \* HandleAndStore: i of the loop over the readings
  answer,     \* the answer given: "none", "ok", "invalid", "failed", "panic", "cut"
  stored,     \* sensor_data: readings <<upload, index>>
  alarmCh,    \* Bus.AlarmRequestCh
  batchCh,    \* Bus.SensorBatchCh
  phase,      \* the server: "open", "closed" (bus), "stopping" (receiver), "down"
  receiver,   \* the loop of dtu_receiver
  handed,     \* history: readings sent on alarmCh
  dropped     \* history: readings dropped since alarmCh was full

vars == <<now, speed, waitingFor, batch, pc, next, answer, stored, alarmCh,
          batchCh, phase, receiver, handed, dropped>>

clientVars == <<now, speed, waitingFor>>
serverVars == <<phase, receiver>>

NoBatch == [stamp |-> Zero, times |-> <<>>, named |-> TRUE]

----------------------------------------------------------------------------
(***************************************************************************)
(* The simulator                                                           *)
(***************************************************************************)
\* now.Sub(startTime) * time.Duration(currentSimSpeed): the speed is truncated.
Elapsed == now * (speed \div 10)

Arrive(u, b) ==
  /\ pc[u] = "new" /\ phase # "down"
  /\ batch' = [batch EXCEPT ![u] = b]
  /\ pc' = [pc EXCEPT ![u] = "validate"]
  /\ UNCHANGED <<now, speed, next, answer, stored, alarmCh, batchCh, serverVars,
                 handed, dropped>>

\* The sampling loop sends its next batch once it no longer waits for the last.
SendBatch(u) ==
  /\ u \in Sampled
  /\ waitingFor = None
  /\ Arrive(u, [stamp |-> Elapsed, times |-> [i \in 1..Size |-> Elapsed], named |-> TRUE])
  /\ waitingFor' = u

\* go sendData, and DTUs that are none of the simulator's.
SendManual(u) ==
  /\ u \in Manual
  /\ \E b \in ManualBatch : Arrive(u, b)
  /\ UNCHANGED waitingFor

\* The answer, the end of the server, or the client's timeout of 15 s; the
\* handler goes on, and nothing is sent again.
StopWaiting ==
  /\ waitingFor # None
  /\ waitingFor' = None
  /\ UNCHANGED <<now, speed, batch, pc, next, answer, stored, alarmCh, batchCh,
                 serverVars, handed, dropped>>

\* POST /config.
SetSpeed ==
  /\ \E v \in Speeds \ {speed} : speed' = v
  /\ UNCHANGED <<now, waitingFor, batch, pc, next, answer, stored, alarmCh, batchCh,
                 serverVars, handed, dropped>>

Tick ==
  /\ now < MaxNow
  /\ now' = now + 1
  /\ UNCHANGED <<speed, waitingFor, batch, pc, next, answer, stored, alarmCh,
                 batchCh, serverVars, handed, dropped>>

----------------------------------------------------------------------------
(***************************************************************************)
(* handleDTUDataUpload and HandleAndStore                                  *)
(***************************************************************************)
At(u, label) == pc[u] = label /\ phase # "down"

Reply(u, a) ==
  /\ pc' = [pc EXCEPT ![u] = "done"]
  /\ answer' = [answer EXCEPT ![u] = a]

\* The handler gives a reading without a time that of the batch, and the batch
\* that of the clock.
Filled(b) ==
  LET stamp == IF b.stamp = Zero THEN now ELSE b.stamp IN
  [stamp |-> stamp, named |-> b.named,
   times |-> [i \in DOMAIN b.times |-> IF b.times[i] = Zero THEN stamp ELSE b.times[i]]]

\* A mutant of InFuture: the sender's clock is trusted.
InFutureOfSender(t, b) == t > b.stamp + Limit

\* sd.Time.After(now.Add(5 * time.Minute))
InFuture(t, b) == t > now + Limit

\* Validate: an empty or too large batch, a sensor without a name, a reading
\* in the future.
Acceptable(b) ==
  /\ Len(b.times) \in 1..MaxBatch
  /\ b.named
  /\ \A i \in DOMAIN b.times : ~InFuture(b.times[i], b)

Validate(u) ==
  /\ At(u, "validate")
  /\ batch' = [batch EXCEPT ![u] = Filled(@)]
  /\ IF Acceptable(batch'[u])
     THEN pc' = [pc EXCEPT ![u] = "insert"] /\ UNCHANGED answer
     ELSE Reply(u, "invalid")
  /\ UNCHANGED <<clientVars, next, stored, alarmCh, batchCh, serverVars, handed,
                 dropped>>

Rows(u) == {u} \X (DOMAIN batch[u].times)

\* A mutant of AfterInsert: the readings are forwarded before the commit.
ForwardFirst == "offer"

\* The transaction is committed once all its rows are inserted.
AfterInsert == "commit"

\* Begin and one INSERT per reading; the first that fails, or a client that is
\* gone (its context is cancelled), rolls back.
Insert(u) ==
  /\ At(u, "insert")
  /\ \/ pc' = [pc EXCEPT ![u] = AfterInsert] /\ UNCHANGED answer
     \/ Reply(u, "failed")
  /\ UNCHANGED <<clientVars, batch, next, stored, alarmCh, batchCh, serverVars,
                 handed, dropped>>

\* Commit: it succeeds, it fails, or it fails after it took effect.
Commit(u) ==
  /\ At(u, "commit")
  /\ \/ stored' = stored \cup Rows(u) /\ pc' = [pc EXCEPT ![u] = "offer"] /\ UNCHANGED answer
     \/ stored' \in {stored, stored \cup Rows(u)} /\ Reply(u, "failed")
  /\ UNCHANGED <<clientVars, batch, next, alarmCh, batchCh, serverVars, handed,
                 dropped>>

Open == phase = "open"

\* A mutant of HasRoom: an off-by-one.
RoomForOneMore == Len(alarmCh) <= AlarmCap

HasRoom == Len(alarmCh) < AlarmCap

\* A mutant of SendNow: a send without default.
WaitForRoom == HasRoom

\* select with default never waits.
SendNow == TRUE

\* A mutant of NextReading: the loop is left when the channel is full.
GiveUpWhenFull(u) ==
  IF HasRoom THEN next[u] + 1 ELSE Len(batch[u].times) + 1

\* The loop goes on with the next reading, sent or dropped.
NextReading(u) == next[u] + 1

\* One reading: sent, or dropped when the channel is full.
Offer(u) ==
  LET r == <<u, next[u]>> IN
  /\ At(u, "offer") /\ Open /\ SendNow
  /\ next[u] <= Len(batch[u].times)
  /\ IF HasRoom
     THEN alarmCh' = Append(alarmCh, r) /\ handed' = handed \cup {r} /\ UNCHANGED dropped
     ELSE dropped' = dropped \cup {r} /\ UNCHANGED <<alarmCh, handed>>
  /\ next' = [next EXCEPT ![u] = NextReading(u)]
  /\ UNCHANGED <<clientVars, batch, pc, answer, stored, batchCh, serverVars>>

\* The batch for the receiver's own loop, likewise; then the latest alarms are
\* read for the answer, an error there being ignored.
OfferBatch(u) ==
  /\ At(u, "offer") /\ Open
  /\ next[u] > Len(batch[u].times)
  /\ batchCh' = IF Len(batchCh) < BatchCap THEN Append(batchCh, u) ELSE batchCh
  /\ Reply(u, "ok")
  /\ UNCHANGED <<clientVars, batch, next, stored, alarmCh, serverVars, handed,
                 dropped>>

\* A send on a closed channel panics, default or not; gin answers 500.
SendOnClosed(u) ==
  /\ At(u, "offer") /\ ~Open
  /\ Reply(u, "panic")
  /\ UNCHANGED <<clientVars, batch, next, stored, alarmCh, batchCh, serverVars,
                 handed, dropped>>

----------------------------------------------------------------------------
(***************************************************************************)
(* The other ends of the channels, and the end of the server               *)
(***************************************************************************)
\* alarmLoop receives, see AlarmMQTT; it also drains the closed channel.
TakeReading ==
  /\ phase # "down" /\ alarmCh # <<>>
  /\ alarmCh' = Tail(alarmCh)
  /\ UNCHANGED <<clientVars, batch, pc, next, answer, stored, batchCh, serverVars,
                 handed, dropped>>

\* dtu_receiver.loop: processSensorBatch only logs.
TakeBatch ==
  /\ phase # "down" /\ receiver = "running" /\ batchCh # <<>>
  /\ batchCh' = Tail(batchCh)
  /\ UNCHANGED <<clientVars, batch, pc, next, answer, stored, alarmCh, serverVars,
                 handed, dropped>>

\* The loop leaves on its context, or on the closed and empty channel.
ReceiverExit ==
  /\ receiver = "running"
  /\ phase = "stopping" \/ (phase = "closed" /\ batchCh = <<>>)
  /\ receiver' = "exited"
  /\ UNCHANGED <<clientVars, batch, pc, next, answer, stored, alarmCh, batchCh,
                 phase, handed, dropped>>

\* Server.Stop: Bus.Close, then DTUReceiver.Stop.
StopServer ==
  /\ \/ phase = "open" /\ phase' = "closed"
     \/ phase = "closed" /\ phase' = "stopping"
  /\ UNCHANGED <<clientVars, batch, pc, next, answer, stored, alarmCh, batchCh,
                 receiver, handed, dropped>>

\* The process ends, after Stop (whose wg.Wait waits for the loop) or by a
\* crash: the channels are gone, the database stays.
Die ==
  /\ phase # "down"
  /\ phase' = "down" /\ receiver' = "exited"
  /\ alarmCh' = <<>> /\ batchCh' = <<>>
  /\ answer' = [u \in Upload |-> IF pc[u] \in {"new", "done"} THEN answer[u] ELSE "cut"]
  /\ UNCHANGED <<clientVars, batch, pc, next, stored, handed, dropped>>

----------------------------------------------------------------------------
Init ==
  /\ now = 0
  /\ speed \in Speeds
  /\ waitingFor = None
  /\ batch = [u \in Upload |-> NoBatch]
  /\ pc = [u \in Upload |-> "new"]
  /\ next = [u \in Upload |-> 1]
  /\ answer = [u \in Upload |-> "none"]
  /\ stored = {}
  /\ alarmCh = <<>> /\ batchCh = <<>>
  /\ phase = "open" /\ receiver = "running"
  /\ handed = {} /\ dropped = {}

Handler(u) ==
  \/ Validate(u) \/ Insert(u) \/ Commit(u)
  \/ Offer(u) \/ OfferBatch(u) \/ SendOnClosed(u)

Next ==
  \/ \E u \in Upload : SendBatch(u) \/ SendManual(u) \/ Handler(u)
  \/ StopWaiting \/ SetSpeed \/ Tick
  \/ TakeReading \/ TakeBatch \/ ReceiverExit
  \/ StopServer \/ Die

Spec == Init /\ [][Next]_vars

\* Handlers are scheduled and the calls of the database return; nothing is
\* assumed of who reads the channels.
FairSpec == Spec /\ \A u \in Upload : WF_vars(Handler(u))

----------------------------------------------------------------------------
(***************************************************************************)
(*                              Properties                                 *)
(***************************************************************************)
Time == Int \cup {Zero}

\* The type invariant; the channels never hold more than their capacity.
TypeOK ==
  /\ now \in 0..MaxNow /\ speed \in Speeds
  /\ waitingFor \in Sampled \cup {None}
  /\ batch \in [Upload -> [stamp : Time, times : Seq(Time), named : BOOLEAN]]
  /\ pc \in [Upload -> {"new", "validate", "insert", "commit", "offer", "done"}]
  /\ \A u \in Upload : next[u] \in 1..Len(batch[u].times) + 1
  /\ answer \in [Upload -> {"none", "ok", "invalid", "failed", "panic", "cut"}]
  /\ \A r \in stored \cup handed \cup dropped : r[1] \in Upload /\ r \in Rows(r[1])
  /\ Len(alarmCh) <= AlarmCap /\ Len(batchCh) <= BatchCap
  /\ phase \in {"open", "closed", "stopping", "down"}
  /\ receiver \in {"running", "exited"}

\* A batch answered with 200 is stored, and each of its readings was put before
\* the alarm service or dropped on its own account: a full channel costs the
\* readings that met it, not the rest of the batch.
OkMeansOffered ==
  \A u \in Upload : answer[u] = "ok" =>
    /\ Rows(u) \subseteq stored
    /\ Rows(u) = (handed \cup dropped) \cap Rows(u)

\* No stored reading lies more than the limit ahead of the clock, wherever its
\* time came from: the reading, the batch or the server.
NoStoredFuture ==
  \A r \in stored : batch[r[1]].times[r[2]] <= now + Limit

\* Every upload is answered, even if nobody reads the channels and the server
\* is being stopped: nothing in the handler waits for another goroutine.
EveryUploadIsAnswered ==
  \A u \in Upload : pc[u] = "validate" ~> answer[u] # "none"

\* The ingest implements IngestPromise.
Promise ==
  INSTANCE IngestPromise WITH size <- [u \in Upload |-> Len(batch[u].times)]

PromiseSpec == Promise!Spec

\* The sampling loop's batches are not refused.  The code breaks this: its
\* clock runs sim_speed times as fast as the server's, whose limit of 5 minutes
\* is soon passed.
SamplerIsHeard == \A u \in Sampled : answer[u] # "invalid"
============================================================================
