----------------------------- MODULE AlarmMQTT -----------------------------
(***************************************************************************)
(* The alarm service of the backend, internal/alarm_mqtt/service.go.       *)
(*                                                                         *)
(* Two goroutines share the service: alarmLoop takes readings from the     *)
(* bounded channel AlarmRequestCh, applies the cooldown and the            *)
(* thresholds, inserts the alarm in the database and publishes it;         *)
(* retryLoop wakes up on a ticker and publishes again, under retryMu, the  *)
(* alarms whose publication failed.  The database and the MQTT broker fail *)
(* on their own; the process stops, crashes and starts again with an empty *)
(* memory.                                                                 *)
(*                                                                         *)
(* Time is counted in ticks and kept as the time that is left: cooldown[s] *)
(* is how long sensor s stays suppressed, wait[r] is NextTry minus now     *)
(* (with a floor of -1, which is "now is after NextTry").                  *)
(***************************************************************************)
EXTENDS Integers, Sequences, FiniteSets

CONSTANTS
  Sensor,       \* sensor identifiers
  Value,        \* values a sensor may report
  Tag,          \* what tells apart two readings of the same sensor and value
  Warning,      \* models.SensorConfig.WarningThreshold, None when nil
  Danger,       \* models.SensorConfig.DangerThreshold, None when nil
  None,
  QueueCap,     \* capacity of Bus.AlarmRequestCh (128 in the server)
  Cooldown,     \* ticks of the 10 minute cooldown
  Backoff,      \* ticks of the 5 second retry step
  MaxRetries,   \* failed retries after which an alarm is dropped (30)
  MaxReadings,  \* bound: readings submitted in a behaviour
  MaxBoots      \* bound: times the process is started

ASSUME ConstantsAssumption ==
  /\ Value \subseteq Int
  /\ Warning \in [Sensor -> Int \cup {None}]
  /\ Danger \in [Sensor -> Int \cup {None}]
  /\ None \notin Int
  /\ {QueueCap, Cooldown, Backoff, MaxRetries} \subseteq Nat \ {0}
  /\ MaxReadings \in Nat
  /\ MaxBoots \in Nat

\* One reading sent to the alarm service; an alarm is named by its reading.
Reading == [sensor : Sensor, value : Value, tag : Tag]

ASSUME NoneAssumption == None \notin Reading

VARIABLES
  phase,        \* "running", "stopping" (after cancel) or "down"
  boots,        \* how many times the process has started
  configs,      \* sensors whose configuration is in sensorConfigs
  requests,     \* AlarmRequestCh
  cooldown,     \* cooldowns: ticks until the sensor's entry is 10 minutes old
  alarmPc,      \* where alarmLoop is
  current,      \* the alarm alarmLoop is working on
  ids,          \* alarms with alarm.ID > 0
  retryQueue,   \* retryQueue, the alarms in order
  retryCount,   \* retryItem.RetryCount
  wait,         \* retryItem.NextTry, as ticks left
  retryPc,      \* where retryLoop is; it holds retryMu in "scan" and "mark"
  pos,          \* processRetry: index of the item looked at
  kept,         \* processRetry: remaining
  due,          \* processRetry: items with now.After(NextTry)
  age,          \* processRetry: ticks since now was read
  client,       \* mqttClient: "nil", or "set" and reconnecting on its own
  attempts,     \* history: how often publishAlarm was called for an alarm
  rows,         \* alarm_records: "none", "unpublished" or "published"
  dbFault,      \* history: alarms for which a database call was lost
  since,        \* history: ticks since the last alarm of the sensor, this boot
  fate          \* history: what became of each reading

lifeVars  == <<phase, boots, configs>>
alarmVars == <<alarmPc, current, ids>>
itemVars  == <<retryQueue, retryCount, wait>>
passVars  == <<retryPc, pos, kept, due, age>>
netVars   == <<client, attempts>>
dbVars    == <<rows, dbFault>>
coolVars  == <<cooldown, since>>
vars == <<lifeVars, requests, coolVars, alarmVars, itemVars, passVars,
          netVars, dbVars, fate>>

Fates == {"new", "queued", "overflow", "unknown", "suppressed", "normal",
          "pending", "confirmed", "gaveUp", "lost", "discarded"}

AgeLimit == Backoff * MaxRetries + 1    \* beyond it every wait is over

LoopAlive == phase \in {"running", "stopping"}
RetryMuHeld == retryPc \in {"scan", "mark"}

----------------------------------------------------------------------------
(***************************************************************************)
(* Start: NewServer connects to the broker (mqttClient stays nil for good  *)
(* when that fails), loads the sensor configurations once (none when the   *)
(* query fails) and starts both loops.                                     *)
(***************************************************************************)
Start ==
  /\ phase = "down"
  /\ boots < MaxBoots
  /\ phase' = "running"
  /\ boots' = boots + 1
  /\ configs' \in {{}, Sensor}
  /\ client' \in {"nil", "set"}
  /\ alarmPc' = "idle"
  /\ retryPc' = "idle"
  /\ UNCHANGED <<requests, coolVars, current, ids, itemVars, pos, kept, due,
                 age, attempts, dbVars, fate>>

\* Bound: the behaviours checked submit MaxReadings readings.
WithinBudget == Cardinality({r \in Reading : fate[r] # "new"}) < MaxReadings

\* HandleAndStore's select with default: a full channel drops the reading.
Submit(r) ==
  /\ phase = "running"
  /\ fate[r] = "new"
  /\ WithinBudget
  /\ \/ /\ Len(requests) < QueueCap
        /\ requests' = Append(requests, r)
        /\ fate' = [fate EXCEPT ![r] = "queued"]
     \/ /\ Len(requests) >= QueueCap
        /\ fate' = [fate EXCEPT ![r] = "overflow"]
        /\ UNCHANGED requests
  /\ UNCHANGED <<lifeVars, coolVars, alarmVars, itemVars, passVars, netVars,
                 dbVars>>

----------------------------------------------------------------------------
(***************************************************************************)
(* alarmLoop.  EvaluateThreshold looks at the danger threshold first.      *)
(* CheckCooldown refuses a sensor whose entry is younger than the cooldown *)
(* and otherwise stamps the entry; evaluateAndPush calls it before it      *)
(* evaluates the thresholds.                                               *)
(***************************************************************************)
Reached(threshold, v) == threshold # None /\ v >= threshold

EvaluateThreshold(r) ==
  IF Reached(Danger[r.sensor], r.value) THEN "DANGER"
  ELSE IF Reached(Warning[r.sensor], r.value) THEN "WARNING"
  ELSE "NONE"

\* A mutant of Stamp: the entry is written as already expired.
StampExpired(s) == cooldown' = [cooldown EXCEPT ![s] = 0]

Stamp(s) == cooldown' = [cooldown EXCEPT ![s] = Cooldown]

\* The four ways evaluateAndPush disposes of a reading.
Unknown(r) ==
  /\ r.sensor \notin configs
  /\ fate' = [fate EXCEPT ![r] = "unknown"]
  /\ UNCHANGED <<coolVars, alarmPc, current>>

Suppress(r) ==
  /\ r.sensor \in configs
  /\ cooldown[r.sensor] > 0
  /\ fate' = [fate EXCEPT ![r] = "suppressed"]
  /\ UNCHANGED <<coolVars, alarmPc, current>>

Pass(r) ==
  /\ r.sensor \in configs
  /\ cooldown[r.sensor] = 0
  /\ Stamp(r.sensor)
  /\ EvaluateThreshold(r) = "NONE"
  /\ fate' = [fate EXCEPT ![r] = "normal"]
  /\ UNCHANGED <<since, alarmPc, current>>

Raise(r) ==
  /\ r.sensor \in configs
  /\ cooldown[r.sensor] = 0
  /\ Stamp(r.sensor)
  /\ EvaluateThreshold(r) # "NONE"
  /\ fate' = [fate EXCEPT ![r] = "pending"]
  /\ since' = [since EXCEPT ![r.sensor] = 0]
  /\ alarmPc' = "insert"
  /\ current' = r

Take ==
  /\ LoopAlive
  /\ alarmPc = "idle"
  /\ requests # <<>>
  /\ requests' = Tail(requests)
  /\ LET r == Head(requests) IN Unknown(r) \/ Suppress(r) \/ Pass(r) \/ Raise(r)
  /\ UNCHANGED <<lifeVars, ids, itemVars, passVars, netVars, dbVars>>

\* InsertAlarm: the row is there and its id known; or the call fails, and the
\* row may be there all the same when only the answer was lost.
Insert ==
  /\ alarmPc = "insert"
  /\ alarmPc' = "publish"
  /\ \/ /\ rows' = [rows EXCEPT ![current] = "unpublished"]
        /\ ids' = ids \cup {current}
        /\ UNCHANGED dbFault
     \/ /\ rows' \in {rows, [rows EXCEPT ![current] = "unpublished"]}
        /\ dbFault' = dbFault \cup {current}
        /\ UNCHANGED ids
  /\ UNCHANGED <<lifeVars, requests, coolVars, current, itemVars, passVars,
                 netVars, fate>>

\* publishAlarm returning nil: the broker confirmed the alarm on the topic of
\* its level (the copy for the "all" topic is handed to the client, unawaited).
PublishOK(r) ==
  /\ client = "set"
  /\ attempts' = [attempts EXCEPT ![r] = @ + 1]

\* publishAlarm returning an error: no client, no connection, a token error, or
\* no answer within 5 seconds (and then the broker may still get the message).
PublishFailed(r) == attempts' = [attempts EXCEPT ![r] = @ + 1]

\* UpdateAlarmMQTTPublished, whose error is ignored.
MarkPublished(r) ==
  \/ /\ rows' = [rows EXCEPT ![r] = "published"]
     /\ UNCHANGED dbFault
  \/ /\ UNCHANGED rows
     /\ dbFault' = dbFault \cup {r}

\* A mutant of AlarmPublish: the alarm is pushed for a retry in either case.
AlarmPublishQueued ==
  /\ alarmPc = "publish"
  /\ \/ PublishOK(current) /\ fate' = [fate EXCEPT ![current] = "confirmed"]
     \/ PublishFailed(current) /\ UNCHANGED fate
  /\ alarmPc' = "push"
  /\ UNCHANGED <<lifeVars, requests, coolVars, current, ids, itemVars, passVars,
                 client, dbVars>>

AlarmPublish ==
  /\ alarmPc = "publish"
  /\ \/ /\ PublishOK(current)
        /\ fate' = [fate EXCEPT ![current] = "confirmed"]
        /\ alarmPc' = IF current \in ids THEN "mark" ELSE "idle"
        /\ current' = IF current \in ids THEN current ELSE None
     \/ /\ PublishFailed(current)
        /\ alarmPc' = "push"
        /\ UNCHANGED <<fate, current>>
  /\ UNCHANGED <<lifeVars, requests, coolVars, ids, itemVars, passVars, client,
                 dbVars>>

AlarmMark ==
  /\ alarmPc = "mark"
  /\ MarkPublished(current)
  /\ alarmPc' = "idle"
  /\ current' = None
  /\ UNCHANGED <<lifeVars, requests, coolVars, ids, itemVars, passVars, netVars,
                 fate>>

\* A mutant of Push, without the lock: the pass that is running replaces the
\* queue when it ends, and with it what was appended in the meantime.
PushUnlocked ==
  /\ alarmPc = "push"
  /\ retryQueue' = IF RetryMuHeld THEN retryQueue ELSE Append(retryQueue, current)
  /\ retryCount' = [retryCount EXCEPT ![current] = 0]
  /\ wait' = [wait EXCEPT ![current] = Backoff]
  /\ alarmPc' = "idle"
  /\ current' = None
  /\ UNCHANGED <<lifeVars, requests, coolVars, ids, passVars, netVars, dbVars,
                 fate>>

RetryMuFree == ~ RetryMuHeld

\* pushRetry: waits for retryMu, which retryLoop keeps during a whole pass.
Push ==
  /\ alarmPc = "push"
  /\ RetryMuFree
  /\ retryQueue' = Append(retryQueue, current)
  /\ retryCount' = [retryCount EXCEPT ![current] = 0]
  /\ wait' = [wait EXCEPT ![current] = Backoff]
  /\ alarmPc' = "idle"
  /\ current' = None
  /\ UNCHANGED <<lifeVars, requests, coolVars, ids, passVars, netVars, dbVars,
                 fate>>

AlarmExit ==
  /\ phase = "stopping"
  /\ alarmPc = "idle"
  /\ alarmPc' = "exited"
  /\ UNCHANGED <<lifeVars, requests, coolVars, current, ids, itemVars, passVars,
                 netVars, dbVars, fate>>

----------------------------------------------------------------------------
(***************************************************************************)
(* retryLoop: one pass of processRetry per tick of its ticker.  A pass     *)
(* reads the clock once, keeps retryMu until it ends and looks at the      *)
(* items in order; it drops those that failed MaxRetries times, publishes  *)
(* those that are due and keeps the others, and the kept ones become the   *)
(* new queue.                                                              *)
(***************************************************************************)
Item == retryQueue[pos]
Overdue == {retryQueue[i] : i \in {j \in DOMAIN retryQueue : wait[retryQueue[j]] < 0}}
InPass == retryPc = "scan" /\ pos <= Len(retryQueue)

PassStart ==
  /\ LoopAlive
  /\ retryPc = "idle"
  /\ retryQueue # <<>>
  /\ retryPc' = "scan"
  /\ pos' = 1
  /\ kept' = <<>>
  /\ due' = Overdue
  /\ age' = 0
  /\ UNCHANGED <<lifeVars, requests, coolVars, alarmVars, itemVars, netVars,
                 dbVars, fate>>

\* A mutant of Exhausted: one retry too many.
ExhaustedLate(r) == retryCount[r] > MaxRetries

Exhausted(r) == retryCount[r] >= MaxRetries

\* A retryItem that leaves the queue takes its counter and time with it.
Forget(r) ==
  /\ retryCount' = [retryCount EXCEPT ![r] = 0]
  /\ wait' = [wait EXCEPT ![r] = -1]

PassDrop ==
  /\ InPass
  /\ Exhausted(Item)
  /\ Forget(Item)
  /\ fate' = [fate EXCEPT ![Item] = "gaveUp"]
  /\ pos' = pos + 1
  /\ UNCHANGED <<lifeVars, requests, coolVars, alarmVars, retryQueue, retryPc,
                 kept, due, age, netVars, dbVars>>

PassKeep ==
  /\ InPass
  /\ ~ Exhausted(Item)
  /\ Item \notin due
  /\ kept' = Append(kept, Item)
  /\ pos' = pos + 1
  /\ UNCHANGED <<lifeVars, requests, coolVars, alarmVars, itemVars, retryPc,
                 due, age, netVars, dbVars, fate>>

\* Where a pass goes after a confirmed publication, and a mutant of it that
\* forgets the update of the row.
AfterRetryForgetful(r) == "scan"

AfterRetry(r) == IF r \in ids THEN "mark" ELSE "scan"

\* What a failed retry does to RetryCount, and a mutant that never counts.
RetryUncounted(r) == retryCount' = [retryCount EXCEPT ![r] = @]

RetryCounted(r) == retryCount' = [retryCount EXCEPT ![r] = @ + 1]

\* NextTry is computed from the clock read when the pass began, which is age
\* ticks ago: a slow pass uses up the delay of its own items.
PassTry ==
  /\ InPass
  /\ ~ Exhausted(Item)
  /\ Item \in due
  /\ pos' = pos + 1
  /\ \/ /\ PublishOK(Item)
        /\ fate' = [fate EXCEPT ![Item] = "confirmed"]
        /\ retryPc' = AfterRetry(Item)
        /\ Forget(Item)
        /\ UNCHANGED kept
     \/ /\ PublishFailed(Item)
        /\ RetryCounted(Item)
        /\ LET left == Backoff * (retryCount[Item] + 1) - age IN
           wait' = [wait EXCEPT ![Item] = IF left < 0 THEN -1 ELSE left]
        /\ kept' = Append(kept, Item)
        /\ UNCHANGED <<fate, retryPc>>
  /\ UNCHANGED <<lifeVars, requests, coolVars, alarmVars, retryQueue, due, age,
                 client, dbVars>>

PassMark ==
  /\ retryPc = "mark"
  /\ MarkPublished(retryQueue[pos - 1])
  /\ retryPc' = "scan"
  /\ UNCHANGED <<lifeVars, requests, coolVars, alarmVars, itemVars, pos, kept,
                 due, age, netVars, fate>>

\* The end of a pass releases retryMu, and a mutant of it that does not.
NotReleased == "scan"

Released == "idle"

PassEnd ==
  /\ retryPc = "scan"
  /\ pos > Len(retryQueue)
  /\ retryQueue' = kept
  /\ retryPc' = Released
  /\ pos' = 1
  /\ kept' = <<>>
  /\ due' = {}
  /\ age' = 0
  /\ UNCHANGED <<lifeVars, requests, coolVars, alarmVars, retryCount, wait,
                 netVars, dbVars, fate>>

RetryExit ==
  /\ phase = "stopping"
  /\ retryPc = "idle"
  /\ retryPc' = "exited"
  /\ UNCHANGED <<lifeVars, requests, coolVars, alarmVars, itemVars, pos, kept,
                 due, age, netVars, dbVars, fate>>

----------------------------------------------------------------------------
(***************************************************************************)
(* The end of the process.  Stop cancels the context and closes retryStop, *)
(* then waits for both loops; what is left in the channel and in           *)
(* retryQueue goes with the memory.  A crash can come at any moment.       *)
(***************************************************************************)
Stop ==
  /\ phase = "running"
  /\ phase' = "stopping"
  /\ UNCHANGED <<boots, configs, requests, coolVars, alarmVars, itemVars,
                 passVars, netVars, dbVars, fate>>

LoseMemory ==
  /\ phase' = "down"
  /\ configs' = {}
  /\ requests' = <<>>
  /\ cooldown' = [s \in Sensor |-> 0]
  /\ since' = [s \in Sensor |-> Cooldown]
  /\ alarmPc' = "exited"
  /\ current' = None
  /\ ids' = {}
  /\ retryQueue' = <<>>
  /\ retryCount' = [r \in Reading |-> 0]
  /\ wait' = [r \in Reading |-> -1]
  /\ retryPc' = "exited"
  /\ pos' = 1
  /\ kept' = <<>>
  /\ due' = {}
  /\ age' = 0
  /\ client' = "nil"
  /\ fate' = [r \in Reading |-> IF fate[r] = "pending" THEN "lost"
                                ELSE IF fate[r] = "queued" THEN "discarded"
                                ELSE fate[r]]
  /\ UNCHANGED <<boots, attempts, rows>>

Exit ==
  /\ phase = "stopping"
  /\ alarmPc = "exited"
  /\ retryPc = "exited"
  /\ LoseMemory
  /\ UNCHANGED dbFault

\* An UPDATE that was about to be sent is lost with the process.
Unmarked ==
  (IF alarmPc = "mark" THEN {current} ELSE {}) \cup
  (IF retryPc = "mark" THEN {retryQueue[pos - 1]} ELSE {})

Crash ==
  /\ phase # "down"
  /\ LoseMemory
  /\ dbFault' = dbFault \cup Unmarked

----------------------------------------------------------------------------
Down(n, floor) == IF n > floor THEN n - 1 ELSE floor
Up(n, limit) == IF n < limit THEN n + 1 ELSE limit

\* One tick of the clock; the time that is left only matters while it is used.
Tick ==
  /\ phase # "down"
  /\ cooldown' = [s \in Sensor |-> Down(cooldown[s], 0)]
  /\ since' = [s \in Sensor |-> Up(since[s], Cooldown)]
  /\ wait' = [r \in Reading |-> Down(wait[r], -1)]
  /\ age' = IF RetryMuHeld THEN Up(age, AgeLimit) ELSE age
  /\ UNCHANGED <<lifeVars, requests, alarmVars, retryQueue, retryCount, retryPc,
                 pos, kept, due, netVars, dbVars, fate>>

----------------------------------------------------------------------------
Init ==
  /\ phase = "down"
  /\ boots = 0
  /\ configs = {}
  /\ requests = <<>>
  /\ cooldown = [s \in Sensor |-> 0]
  /\ since = [s \in Sensor |-> Cooldown]
  /\ alarmPc = "exited"
  /\ current = None
  /\ ids = {}
  /\ retryQueue = <<>>
  /\ retryCount = [r \in Reading |-> 0]
  /\ wait = [r \in Reading |-> -1]
  /\ retryPc = "exited"
  /\ pos = 1
  /\ kept = <<>>
  /\ due = {}
  /\ age = 0
  /\ client = "nil"
  /\ attempts = [r \in Reading |-> 0]
  /\ rows = [r \in Reading |-> "none"]
  /\ dbFault = {}
  /\ fate = [r \in Reading |-> "new"]

AlarmStep == Take \/ Insert \/ AlarmPublish \/ AlarmMark \/ Push \/ AlarmExit

RetryStep ==
  PassStart \/ PassDrop \/ PassKeep \/ PassTry \/ PassMark \/ PassEnd \/ RetryExit

Environment ==
  \/ Start
  \/ \E r \in Reading : Submit(r)
  \/ Stop
  \/ Crash

Next == AlarmStep \/ RetryStep \/ Exit \/ Tick \/ Environment

Spec == Init /\ [][Next]_vars

\* The scheduler runs both loops and time passes; nothing is assumed of the
\* network, the database, the operator or the sensors.
FairSpec ==
  /\ Spec
  /\ WF_vars(AlarmStep)
  /\ WF_vars(RetryStep)
  /\ WF_vars(Exit)
  /\ WF_vars(Tick)

----------------------------------------------------------------------------
(***************************************************************************)
(*                              Properties                                 *)
(***************************************************************************)
\* The type invariant: in particular the channel never exceeds its capacity,
\* RetryCount never exceeds MaxRetries and processRetry never indexes outside
\* the queue.
TypeOK ==
  /\ phase \in {"running", "stopping", "down"}
  /\ boots \in 0..MaxBoots
  /\ configs \in SUBSET Sensor
  /\ requests \in Seq(Reading)
  /\ Len(requests) <= QueueCap
  /\ cooldown \in [Sensor -> 0..Cooldown]
  /\ since \in [Sensor -> 0..Cooldown]
  /\ alarmPc \in {"idle", "insert", "publish", "mark", "push", "exited"}
  /\ current \in Reading \cup {None}
  /\ ids \in SUBSET Reading
  /\ retryQueue \in Seq(Reading)
  /\ retryCount \in [Reading -> 0..MaxRetries]
  /\ wait \in [Reading -> Int]
  /\ retryPc \in {"idle", "scan", "mark", "exited"}
  /\ pos \in 1..Len(retryQueue) + 1
  /\ kept \in Seq(Reading)
  /\ due \in SUBSET Reading
  /\ age \in Nat
  /\ client \in {"nil", "set"}
  /\ attempts \in [Reading -> Nat]
  /\ rows \in [Reading -> {"none", "unpublished", "published"}]
  /\ dbFault \in SUBSET Reading
  /\ fate \in [Reading -> Fates]

\* The alarms the process still has to publish: the one in alarmLoop's hands
\* and those processRetry has not looked at yet or has decided to keep.
InHand == IF alarmPc \in {"insert", "publish", "push"} THEN {current} ELSE {}
Unscanned == {retryQueue[i] : i \in pos..Len(retryQueue)}
Kept == {kept[i] : i \in 1..Len(kept)}
Held == InHand \cup Unscanned \cup Kept

\* Every alarm that was raised and is neither confirmed by the broker, dropped
\* after its last retry, nor lost with the process is still held somewhere:
\* no interleaving of pushRetry with the queue that processRetry rebuilds in
\* place loses one, and nothing is held that was already settled.
PendingIsHeld == \A r \in Reading : fate[r] = "pending" <=> r \in Held

\* mqtt_published in the database says what happened: it is set only for alarms
\* the broker confirmed, and it is set for each of those unless one of the
\* alarm's database calls failed or the process died before making it.
FlagMatchesConfirmation ==
  \A r \in Reading :
    /\ rows[r] = "published" => fate[r] = "confirmed"
    /\ fate[r] = "confirmed" =>
         rows[r] = "published" \/ r \in dbFault \cup Unmarked

\* No retry is skipped and none is repeated: an alarm in the queue has been
\* published once by alarmLoop and once per counted retry, and an alarm is
\* dropped only when 1 + MaxRetries publications have failed.
EveryRetryIsMade ==
  \A r \in Reading :
    /\ r \in Unscanned \cup Kept => attempts[r] = retryCount[r] + 1
    /\ fate[r] = "gaveUp" => attempts[r] = MaxRetries + 1

\* The broker may get an alarm again when only its answer was late, but never
\* one that is settled: no loop publishes an alarm that the other, or an earlier
\* pass, has seen confirmed or given up, and none is published more often than
\* once and MaxRetries times again, restarts included.
PublishedWhilePending ==
  [][\A r \in Reading : attempts'[r] # attempts[r] =>
       fate[r] = "pending" /\ attempts[r] <= MaxRetries]_vars

\* Within one run of the process two alarms of the same sensor are at least a
\* cooldown apart, whatever its readings in between.
CooldownSpacing ==
  [][\A r \in Reading : fate[r] = "queued" /\ fate'[r] = "pending"
                          => since[r.sensor] >= Cooldown]_vars

\* A reading at or above a threshold is held back only while an alarm of its
\* sensor is younger than the cooldown.  The code breaks this: CheckCooldown
\* stamps the sensor before evaluateAndPush looks at the thresholds, so a
\* normal reading silences the sensor as well.
SuppressedOnlyAfterAlarm ==
  [][\A r \in Reading : fate[r] = "queued" /\ fate'[r] = "suppressed"
                          /\ EvaluateThreshold(r) # "NONE"
                          => since[r.sensor] < Cooldown]_vars

\* Every reading that entered the channel is decided, and every alarm raised is
\* confirmed, dropped after MaxRetries failures or lost with the process: the
\* loops never wait for each other for ever and no retry goes on for ever.
EveryReadingSettles ==
  \A r \in Reading :
    fate[r] \in {"queued", "pending"} ~> fate[r] \notin {"queued", "pending"}

\* Stop returns: both loops find their way out whatever they are doing when the
\* context is cancelled, so the shutdown of the server gets past this service.
StopReturns == phase = "stopping" ~> phase = "down"

Confirmed == {r \in Reading : fate[r] = "confirmed"}
Abandoned == {r \in Reading : fate[r] \in {"gaveUp", "lost"}}

\* The service implements the abstract outbox: an alarm is raised once, then
\* confirmed or abandoned, and neither outcome is ever revised.
Outbox == INSTANCE AlarmOutbox WITH
  Alarm <- Reading,
  pending <- Held,
  sent <- Confirmed,
  abandoned <- Abandoned

OutboxSpec == Outbox!Spec
============================================================================
