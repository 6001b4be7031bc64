# Verification of the Tuoshan Weir seepage system

TLA+ models of the backend in `src/backend` and of the sensor simulator in
`src/simulator`, their TLC configurations, and TLAPS proofs. The code is the
reference: each definition that models code is mapped to the lines it stands for
in `PROJECT.json`.

## 1. The system

One Go process serves an HTTP API; the sensor simulator, a process of its own,
uploads batches of readings to it. Four services talk over the bounded channels
of a shared bus (`internal/message/bus.go`, 128 messages each):

    simulator, DTUs --HTTP--> dtu_receiver --AlarmRequestCh--> alarm_mqtt --MQTT--> broker
    browser --HTTP--> api --SimRequestCh--> seepage_simulator --> TimescaleDB
                          --OptRequestCh--> anti_seepage_optimizer --> TimescaleDB
    cmd/main.go: signal, Shutdown, Server.Stop, Database.Close

| Component | State it keeps | Operations | What is hard | What makes it correct |
|---|---|---|---|---|
| `alarm_mqtt` | sensor configs, cooldowns, retry queue under `retryMu`, MQTT client | take a reading, evaluate, insert, publish, retry, Start, Stop | two loops, a pass that holds a mutex over slow publications, failures of broker and database, restart | no raised alarm disappears; retries are exact; the database flag is truthful; alarms are spaced; Stop returns |
| `api` | HTTP handlers, each with a response channel | run simulation, run optimisation, ingest, queries | timers that race sends and answers, a bus closed under live handlers | every call is answered once and truthfully |
| `seepage_simulator`, `anti_seepage_optimizer` | one worker goroutine each | take, compute, store, answer, Stop | callers that gave up, cancellation with requests left | each call worked on at most once; no answer dropped |
| `message` bus | channels, `closed` | Publish*, Close | Close under senders that do not look at `closed` | capacity; no receiver waits for ever after Close |
| `cmd/main.go` | none | signal, Shutdown (30 s), deferred Stop and Close | order of the shutdown | the database outlives its users; the process ends |
| `dtu_receiver` | none | validate, store a batch, forward readings | commit before send; drop when full; panic after commit | an upload answered for is stored, and each of its readings was offered |
| `database` | TimescaleDB tables | inserts, one update, queries | calls that fail after they took effect | batches are all or nothing |
| genetic algorithm (`internal/optimization`) | population, convergence curve, front | NSGA-II: sort, crowding, selection, front, result | selection by index range (line 648), fronts out of order, populations over the budget | what is best survives, in a cut as in a slice; the results agree; the call returns a blanket within its bounds |
| seepage solver (`internal/simulation`) | grid, blanket and size, shared by shallow copies | boundary conditions, Gauss-Seidel sweep, correction towards a free surface, discharge | copies that share slices, a correction after the change was measured, index ranges at the edges | heads between the levels; prescribed levels hold; flow in the right direction; one design leaves no trace in another |
| sensor simulator (`src/simulator`) | configuration, sensors and latest readings under three RWMutexes, a random generator under none | GET/POST config, status, trigger, sampling loop, upload | handlers racing the sampler, locks taken in turn, updates that apply differences only, a clock that runs faster than the server's | updates leave the sensors as if made one by one; a batch shows one moment; readings are not replaced by older ones; no deadlock |
| frontend | panel state | asynchronous requests | answers out of order | what is shown belongs to the last request |
| legacy `internal/mqtt`, `config`, `metrics`, `models`, `utils`, regression programs, SQL, deployment | | | | not concurrent logic, or unused by the server |

The hazards, each at its line, and the properties aimed at them are the
`hazards` of `PROJECT.json`.

## 2. The modules

| Module | Contents |
|---|---|
| `AlarmOutbox` | what the alarm service promises: an alarm is raised once, then sent or abandoned |
| `AlarmMQTT` | the alarm service, and the properties about it |
| `MC_AlarmMQTT` | values of its constants for TLC |
| `AlarmMQTTProofs` | theorems about `AlarmMQTT` |
| `RequestReply` | what a caller is promised: work at most once, truthful answers that are never revised |
| `ServerRequests` | handlers, workers, bus and main, from the call to the end of the process |
| `MC_ServerRequests` | values of its constants for TLC |
| `ServerRequestsProofs` | theorems about `ServerRequests` |
| `NSGA2` | pure part of the genetic algorithm: dominance, sort, crowding, selection |
| `NSGA2Proofs` | theorems about dominance and the exchange sort; lemmas about the non-dominated sort, the order of a cut and the selection |
| `GeneticOptimizer` | one call of `Optimize`, generation by generation |
| `MC_GeneticOptimizer` | values of its constants for TLC |
| `GeneticOptimizerProofs` | theorems about a call of `Optimize` |
| `SensorSimulator` | the simulator's handlers and sampling loop with their locks |
| `MC_SensorSimulator` | values of its constants for TLC |
| `SensorSimulatorProofs` | theorems about `SensorSimulator` |
| `IngestPromise` | what an upload is promised: stored whole or not at all, readings forwarded once, in order and only if stored |
| `Telemetry` | the way of a batch: simulator's clock, handler, transaction, the two channels, the end of the server |
| `MC_Telemetry` | values of its constants for TLC |
| `TelemetryProofs` | theorems about `Telemetry` |
| `SeepageSolver` | the solver on an integer grid, and its two callers |
| `MC_SeepageSolver` | a small dam |
| `SeepageSolverProofs` | theorems about `SeepageSolver` |
| `LoopTheorems` | induction over the turns of a loop, and that a loop can be run to its end |

`Telemetry` composes the simulator's upload, the handler of `api`,
`dtu_receiver`, the database and the sending end of the alarm channel, whose
receiving end is `Take` of `AlarmMQTT`. `SeepageSolver` is what the workers of
`ServerRequests` compute; `GeneticOptimizer` sees it as the function `Flow`.

### AlarmMQTT and the code

Every action is one atomic section of a goroutine: up to the next blocking call
(channel, mutex, database, broker).

| State | Code |
|---|---|
| `requests` | `Bus.AlarmRequestCh` |
| `configs`, `cooldown` | `sensorConfigs`, `cooldowns` (as time left) |
| `alarmPc`, `current`, `ids` | the local state of `alarmLoop`, `alarm.ID > 0` |
| `retryQueue`, `retryCount`, `wait` | `retryQueue` of `retryItem`s; `wait` is `NextTry - now` |
| `retryPc`, `pos`, `kept`, `due`, `age` | `processRetry`: loop index, `remaining`, the items its `now` finds due, how old `now` is |
| `client` | `mqttClient`: nil for good, or set and reconnecting |
| `rows` | `alarm_records`, with `mqtt_published` |
| `fate`, `attempts`, `since`, `dbFault` | history, read by properties (and by the budget of `Submit`) only |

`Take` is the receive of `alarmLoop` with the whole in-memory part of
`evaluateAndPush`; `Insert`, `AlarmPublish`, `AlarmMark`, `Push` are
`persistAndPublish` cut at its calls. `PassStart` .. `PassEnd` are
`processRetry`, which holds `retryMu` throughout; `Push` waits for it. A failed
database call may have taken effect (`Insert`). `Stop` stands for `Bus.Close`
followed by `AlarmMQTT.Stop`: no reading is accepted any more and each loop
leaves at its next select, alarmLoop with or without draining the channel.
`Crash` may come between any two steps. `Start` covers a broker that cannot be
reached (client nil for the whole life of the process) and a failed query for
the configurations (no sensor known).

Deliveries by the broker are not modelled, only confirmations: a publication
that timed out may be delivered and then repeated, which the service cannot see.

### ServerRequests and the code

| State | Code |
|---|---|
| `pc`, `left`, `answer`, `respCh` | a handler: which select it is in, its timer, the HTTP answer, its response channel |
| `queue` | `SimRequestCh`, `OptRequestCh` |
| `worker`, `job`, `result` | `loop` and `Run` of the two services |
| `phase`, `drain` | where `main` and `Server.Stop` are; the deadline of `Shutdown` |
| `saved` | the rows a call's work left in the database |
| `runs` | history |

A handler's `select` between a channel and a timer is two actions that may both
be enabled (`Enqueue`/`Refuse`, `Receive`/`GiveUp`); a send on a closed channel
panics, which gin answers with 500 (`SendOnClosed`). A worker's `select`
between a request and its cancelled context is `Take`/`Leave`. `Server.Stop`
closes the bus before it cancels the workers; the dtu and alarm services that
it stops in between are elsewhere (`StopReturns` of `AlarmMQTT`). The process
ends by `Return` or `Crash`; a panic of a worker, which nobody recovers, is a
`Crash`. Requests that fail to parse never reach the bus and are left out.

### GeneticOptimizer and the code

| State | Code |
|---|---|
| `population`, `curve`, `paretoFront`, `best` | `population`, `ga.ConvergenceCurve`, `ga.ParetoFront`, `bestOverall` of `Optimize` |
| `pc` | in the loop, returned, or panicked |

`Evolve` is a whole generation, `SliceOutOfRange` a generation that panics in the
selection, `Finish` what follows the loop. A call runs under the mutex of its
service on an optimiser of its own, so nothing interleaves with it; to the rest
of the server its panic is `Crash` of `ServerRequests`.

An individual is its design: the solver is deterministic and gives a design one
flow, a formula one cost, and validity, rank and crowding distance follow.
Floats are integers; only their order and differences matter. Crowding
distances, sums of quotients in the code, are multiplied by the two ranges of
the front, which keeps their order within it. Any designs may be offspring:
every gene mutates with a positive probability by an unbounded amount before it
is clamped, so tournament selection and crossover exclude nothing. Indices and
their order are kept exactly, unstable sorts included, for the selection slices
by them. The loops of the code are recursive functions on the number of turns,
with the body of a loop as an operator (`Peel`, `Exchange`, `TakeFront`).

### SensorSimulator and the code

| State | Code |
|---|---|
| `cfg`, `base`, `latest` | the globals `cfg`, `sensors` (their `BaseValue`), `latest` |
| `mu` | `cfgMu`, `sensorMu`, `latestMu`: the writer that has announced itself, the readers inside |
| `pc` | where each handler and the loop of `main` are |
| `posted`, `merged`, `todo` | the local state of `handlePostConfig` and `UpdateConfig` |
| `wanted` | the sensor that `req.SensorID` of a trigger names, until its answer |
| `pos`, `payload` | the loop over `sensors`, the batch under construction |
| `newest`, `overlapped`, `factors` | history: who read a sensor last, whether updates overlapped, the permeabilities set since the upstream level was |

An action runs up to the next `Lock`, `RLock` or write to a client. A writer
keeps new readers out before it has the lock, as Go's RWMutex does. A base is
not a number but what it was computed from (`of`: the level or permeability;
`by`: the factors multiplied in since), so that an update lost, doubled or out
of order shows. A section of `UpdateConfig` is one critical section on `sensorMu`
(`PostApply`); between two of them the sampling loop may make a batch. A field
the request does not name decodes to 0 (`Decode`), as in the code. `rng` is drawn from by the loop without a lock: while a trigger
draws too, either may panic (`HandlerPanic`, which leaves `sensorMu` locked;
`SamplerPanic`, which ends the process). Left out: `/health`, the fields that
drive no sensor, the waveform of a reading.

### Telemetry and the code

| State | Code |
|---|---|
| `now`, `speed` | the clock, in minutes; `SimSpeed`, in tenths, which the code truncates to an integer |
| `waitingFor` | `sendData` of the sampling loop, which waits 15 s at most and never repeats |
| `batch`, `pc`, `next`, `answer` | the payload and the handler of each upload, in `handleDTUDataUpload` and `HandleAndStore` |
| `stored` | `sensor_data` |
| `alarmCh`, `batchCh` | `AlarmRequestCh`, `SensorBatchCh` |
| `phase`, `receiver` | `Server.Stop` as far as it matters here; the loop of `dtu_receiver` |
| `handed`, `dropped` | history |

The readings without a time get that of the batch, and a batch without one that
of the server, before `Validate` (`Filled`). A commit may fail after it took
effect. A send on a closed channel panics (`SendOnClosed`). The alarm loop and
the receiver are free to read or not.

### SeepageSolver and the code

| State | Code |
|---|---|
| `levels` | `UpstreamH`, `DownstreamH` of the request |
| `solvers` | the solver of the optimiser or simulator ("base") and the copy of the moment ("local"): size, blanket, reference to a grid |
| `grids` | the slices allocated by `InitializeGrid`; a copy of a solver shares them |
| `task`, `pc`, `running` | which caller, which part of `RunSimulation`, on which solver |
| `iter`, `delta` | `iter` and `maxDelta` of `SolveSteady` |
| `results` | what `RunSimulation` returned, call by call |

Lengths, heads and permeabilities are integers, a quotient is rounded down.
Zones, boundary and initial heads, conductances, both passes of an iteration in
their order over the nodes, the test of convergence, the horizontal velocities
and the discharge are those of the code. The two passes are actions of their
own; nothing else runs on the grid, but between them the heads are those of
neither iterate. `SweptNode` and `CorrectedNode` are the bodies of their loops
over the nodes. The infiltration line, the vertical velocities and the output
grid are left out: nothing else depends on them.

`SolvedAlone` is the reference of `DesignsAreIndependent`: the same iterations
run for one request on a solver that nobody shares, from newly made slices.
`MadeFor` is the solver that a result was asked of, read off the results.

## 3. What TLC checks

| Run | Question | States |
|---|---|---|
| `alarm_safety` | two sensors, failing publications, stop, crash and a second start at any step: is no alarm lost, is the flag truthful, are retries exact and never of what is settled, are alarms spaced, is the outbox implemented? | 796 thousand |
| `alarm_settles` | is every reading decided and every alarm settled; does Stop return? | 61 thousand |
| `alarm_silenced` | expected violation, see section 6 | |
| `server_requests` | all orders of sends, timers, work, shutdown and crash for three calls and two services: is the promise kept, is every call answered even if workers stand still, does the shutdown end if they do not? | 349 thousand |
| `genetic_search` | is the sort right, do the ends of a front survive a cut and somebody unbeaten every slice, do the results agree? | 1592 |
| `genetic_returns` | expected violation, see section 6 | |
| `genetic_bounds` | expected violation, see section 6 | |
| `simulator_config` | two updates, a trigger and a status request against the sampling loop: are the sensors left as if the updates had come one by one, is a batch of one moment and of one upstream level unless between two sections, are readings never replaced by older ones, does nobody wait in a circle, is nobody stuck? | 180 thousand |
| `simulator_partial` | expected violation, see section 6 | |
| `telemetry_ingest` | two uploads against full channels, failing commits and the end of the server: is what was answered 200 stored and offered, is the promise kept, is everybody answered? | 132 thousand |
| `telemetry_speed` | expected violation, see section 6 | |
| `solver_fields` | every simulation and every optimisation of up to two designs for four pairs of water levels: are heads, levels and flow right, are designs independent, does only the correction unsettle? | 3072 |

Bounds, and why they are enough for the questions asked:

* `MaxReadings = 2`, `MaxBoots` 1 or 2: two alarms are needed for one to be
  pushed while a pass holds the other, and two lives of the process for what
  crosses a restart. `QueueCap = 1` makes the channel full.
* `MaxRetries = 1` for 30, `Backoff = 1` for 5 s, `Cooldown` 1 or 2 for 10
  minutes: every comparison is met on both sides, and a pass can outlive the
  delay it computes (`age`).
* Three calls, two of them for one service with `QueueCap = 1`: one at work,
  one queued, or one queued and one that finds the channel full. The timers are
  of 1 tick for 3, 30, 60 and 300 s: they are set at different times, so any of them
  may run out first or together with another.
* Two updates of the simulator, from levels 1 and 0 and permeability 1: one sets the
  upstream level to 2, the downstream level to 1 and keeps the permeability; the
  other sets upstream level and permeability to 2 and, naming no downstream level,
  resets that one. In sequence, the level of the first forgets the factor of the
  start, and in one of the two orders the factors of both permeabilities compound;
  in overlap one undoes fields of the other. Four sensors, one of each kind: a
  piezometer and the level it follows, `WL-002`, `SM-001`. `simulator_partial`, a
  matter of one update, has the first two and a body that names the permeability.
* One batch of the sampling loop and one of another sender, two readings at
  most (`MaxBatch = 2`), channels of 2 and 1: one batch fills the alarm channel
  and the other meets it full, half full or closed. `Limit = 2` minutes for 5 and
  `MaxNow = 1`: readings on both sides of the limit, with the time from the
  reading, the batch or the server, at speeds of 1 and 10, and batches without
  readings or with a nameless sensor. `telemetry_speed` has the real 5 minutes.
* A dam of 600 by 300 on grids of 7 x 6 for 60 x 30 and 5 x 6 for 40 x 20:
  nodes inside and outside the domain, on the contact, in a blanket, at either
  edge. The levels are an ordinary pair, one over the crest with the other side
  dry, one reversed, and one close together. Two evaluations: a second design
  finds the grid of the first. `MaxIter = 30` for 500, `MinIter = 2` for 10,
  `Tolerance = 2`: some runs converge early, some stop at the limit.
* Tags of readings are interchangeable: symmetry is declared for them in the
  safety run of the alarm service, in no run with a liveness property.
* `PopulationSize` 4 and seven designs: three that do not dominate each other, a
  dearer one of the flow of the first and of the last, one dominated by the middle
  one, one over the budget. With
  three the sort of a front has an inside, and ends to lose. The eight
  combined individuals hold a second front that is out of index order and
  still fits; they also give slices too wide, truncation by crowding, duplicates.
  Founders and offspring are those that lead there, and populations of a single
  design, which may be better or worse than what they meet, or over the budget.
  `MaxGenerations` 4 and `StallWindow` 2 for 20 end a call both ways. Flows
  repeat because the solver's grid is coarse; `FlowTolerance = 1` means equal
  flows only (the code's 1e-15 is that in effect), `CostTolerance = 2` lets costs that differ
  by 1 count as equal in the definitions, which the theorems cover in general.
* The fronts that are cut are those of parents and offspring: a first front of up to
  eight members for four places, and second fronts for which the first leaves one
  place or two. With fewer than four places an end of the front can be lost, for
  there may be two of each end; `CutsKeepEnds` then asks that nobody else has taken
  its place.

TLC's own deadlock check is off: every system here ends (the process is down,
the requests are served, the task is done), which TLC would report. That
nothing is stuck before is what `EveryReadingSettles`, `StopReturns`,
`EveryCallIsAnswered`, `ShutdownCompletes`, `EveryRequestIsAnswered`,
`SamplingGoesOn` and `EveryUploadIsAnswered` say.

### Fairness

* `AlarmMQTT!FairSpec`: weak fairness of each loop (a goroutine that can run is
  run, every call it makes has a timeout and returns), of the exit, and of
  time. Nothing is assumed of broker, database, operator and sensors: every
  publication may fail.
* `ServerRequests!HandlerSpec`: weak fairness of the handlers and of time; the
  workers are free to stand still.
  `ShutdownCompletes` names what it needs beyond that as its hypothesis: weak fairness
  of main and of the workers (a computation ends: generations and iterations are
  bounded).
* `SensorSimulator!FairSpec`: weak fairness of the sampling loop, strong
  fairness of the handlers. The loop takes `sensorMu` again and again, and a Go
  mutex hands itself to whoever has waited for a millisecond. Clients read their
  answers, as a handler encodes to them under a read lock.
* `Telemetry!FairSpec`: weak fairness of the handlers (the database's calls
  return). Nothing is assumed of who reads the channels.
* `SeepageSolver` states none. That a run ends is plain from `iter`, which
  grows in every iteration up to `MaxIter`, and the safety properties need no
  fairness.

The alarm service needs no strong fairness. `Push` waits for `retryMu`, which passes take again
and again, so weak fairness alone does not grant it the lock at once; but an
alarm in the queue survives finitely many passes that try it, time passes, and
once the queue is empty no pass takes the lock (`PassStart` needs an item) and
`Push` stays enabled. The result thus does not depend on how fair Go's mutex is.

## 4. What TLAPS proves

For every value of the constants (any number of sensors, calls, capacities,
delays) that meets the named assumptions of the modules:

| Theorem | Property |
|---|---|
| `AlarmTypeCorrect` | `TypeOK` of `AlarmMQTT` |
| `NoAlarmSlipsAway` | `PendingIsHeld` |
| `AlarmsAreSpaced` | `CooldownSpacing` |
| `ServiceImplementsOutbox` | `OutboxSpec` |
| `ServerTypeCorrect` | `TypeOK` of `ServerRequests` |
| `WorkersOutlivedByDB` | `WorkersEndBeforeDB` |
| `NoCallIsForgotten` | `EveryWaitHasACause` |
| `NoAnswerIsDropped` | `ReplyNeverDropped` |
| `ServerKeepsPromise` | `PromiseSpec` |
| `TelemetryTypeCorrect` | `TypeOK` of `Telemetry` |
| `StoredAndOffered` | `OkMeansOffered` |
| `NothingFromTheFuture` | `NoStoredFuture` |
| `IngestKeepsPromise` | `PromiseSpec` of `Telemetry` |
| `SimulatorTypeCorrect` | `TypeOK` of `SensorSimulator` |
| `LatestIsTheNewest` | `LatestIsNewest` |
| `BatchesAreSnapshots` | `BatchIsSnapshot` |
| `FlagIsTruthful` | `FlagMatchesConfirmation` of `AlarmMQTT` |
| `RetriesAreExact` | `EveryRetryIsMade` of `AlarmMQTT` |
| `SettledIsNotPublished` | `PublishedWhilePending` of `AlarmMQTT` |
| `SettingsAreFollowed` | `SensorsFollowSettings` of `SensorSimulator` |
| `LocksAreOrdered` | `NobodyWaitsInACircle` of `SensorSimulator` |
| `SolverTypeCorrect` | `TypeOK` of `SeepageSolver` |
| `HeadsStayBounded` | `HeadsBounded` |
| `LevelsAreKept` | `PrescribedLevelsHold` |
| `DesignsKeepApart` | `DesignsAreIndependent` |
| `CorrectionUnsettles` | `OnlyTheCorrectionUnsettles` |
| `CallTypeCorrect` | `TypeOK` of `GeneticOptimizer` |
| `SortIsLayered` | `FrontsAreLayers` |
| `CutsSpareTheEnds` | `CutsKeepEnds` of `GeneticOptimizer` |
| `NoGenerationLoses` | `SomeoneUnbeatenSurvives` |
| `CallResultsAgree` | `ResultsAgree`, if the tolerance tells different flows apart |
| `DominanceIsAsymmetric` | two designs never dominate each other |
| `SomeoneIsUndominated` | any designs have an undominated one among them |
| `ExchangeSortSorts` | the exchange sort of the code sorts, by any integer key |

The assumptions say that thresholds are integers or absent, that capacities and
delays are positive, that times are integers or the zero time, that request
bodies hold integers, and that `None` is no reading, no call and no upload. The
solver assumes a dam of positive length, grids of at least three columns and
rows, and units fine enough that no permeability and no distance between nodes
is rounded to 0; further that the layer of the contact, half a metre in the
code, is at most ten times as thick as the nodes are apart: beyond that the
code's harmonic mean over the contact may be rounded to 0 here. The optimiser
assumes positive tolerances and population size, and flows below the 1e20 of an
empty front.

The argument for `AlarmMQTT`. `PendingIsHeld` is not inductive: a step of the
pass moves an item from the unscanned part of the queue to `kept`, so one must
know that the queue holds no alarm twice, that what is in the queue is not in
alarmLoop's hands, and that `kept` and the unscanned part are apart. The
invariant adds these facts (`HeldOnce`), what each value of the program
counters implies for `current` and `kept` (`Working`), that a reading in the
channel is still `"queued"` and there only once (`Undecided`), and for the
spacing that `cooldown[s] + since[s]` never falls below `Cooldown`. The
refinement then takes each action to `Raise`, `Send`, `Abandon` or a stutter.
For `FlagMatchesConfirmation` the invariant adds (`Recorded`) that a row is only
updated for an alarm the broker confirmed, and that an alarm without an id, for
which no update is made, has lost its insert; for `EveryRetryIsMade` (`Counted`)
how often an alarm has been published wherever it is: never before alarmLoop
publishes it, once when `pushRetry` is next, and in the queue once more than it
was retried. `PublishedWhilePending` is about steps: only `AlarmPublish` and the
publication of a pass count an attempt, and what they publish is in a loop's
hands or due in a pass, hence pending, and counted within the limit.

The argument for `ServerRequests`. `EveryWaitHasACause` needs that a request is
in one place at a time: once in the queue of its own service (`QueuedOnce`), or
at work in one worker whose `runs` is 1 (`WorkedOnce`), or answered; and that a
worker gone early left behind no waiting caller that main overlooked: the
worker of a service leaves only after the bus is closed (`Joining`). Then the
response channel of a job at work is empty, which is `ReplyNeverDropped`, and
`Work` of the promise never happens twice.

The argument for `Telemetry`. What became of an upload's readings is read off
its handler's program counter: before the commit none is stored, sent or dropped
(`Untouched`); in the loop all are stored, and exactly those before `next` were
sent or dropped (`Offered`), so `Hand` of the promise comes in order and once;
after the loop that is all of them, and nothing is added once the handler is
done (`Progress`, `Answered`). A batch changes only before it is validated, and
the clock only moves on, so what passed the limit stays within it (`Timely`).

The argument for `SensorSimulator`. The program counters tell who holds
`sensorMu` (`Exclusive`): the loop while it makes a batch, a trigger from its
search to its answer, and after a panic for ever. So an update of the sensors,
which needs the mutex, never meets a batch in the making (`Made`), and a reading
that is not in `latest` yet is in the hands of whoever holds the mutex
(`Fresh`). That `latestMu` alone would not do is why both are in the invariant.
`SensorsFollowSettings` speaks of the time when no update is in progress, so the
invariant must say how far an update has come: while none has overlapped another
there is one at most, the sensors follow the old configuration until it has
replaced that, and then the new one but for the sections still to apply
(`Following`, `Tracks`). What the piezometers carry is the same argument on
sequences: until the level is set they carry what they carried before, then
nothing, and in the end the factors that the update was to leave (`Due`,
`Carries`). A section sets what it stands for and leaves the rest (`ApplySets`);
what the update will not apply, it does not change either. Sections come in the
order of the code (`Ordered`), in which the factor is never forgotten by the
level of the same update.

`BatchIsSnapshot` follows from both: no section falls into a batch (`ReadAtOnce`),
and all sensors set from the upstream level show one level except between its two
sections (`OneLevel`).

That nobody waits in a circle (`NobodyWaitsInACircle`) follows from an order of the
waits. Who is announced as the writer of a mutex, or inside it as a reader, is
read off the program counters (`Inside`): `cfgMu` has a writer only in the swap of
an update, `latestMu` only in a store, `sensorMu` has no readers. So a process that
is inside waits for less than who waits for it (`Depth`, `WaitsForLower`): whoever
wants `sensorMu` waits for a holder that wants at most `cfgMu` or `latestMu`;
whoever wants one of these waits for a writer that waits at most for its readers;
and a reader waits for nobody. The circle that would be possible is excluded by
`UpdateConfig` giving up `cfgMu` before it asks for `sensorMu`. This covers the wait for locks
only; that clients take their answers and that the lock is handed on is what
`EveryRequestIsAnswered` assumes and TLC checks.

The argument for `NSGA2`. With tolerances dominance is not transitive, so it is
no partial order and the usual argument for a first front fails. But to
dominate is to gain at least a tolerance in one objective and to lose less than
one in the other, so flow and cost, each in units of its tolerance, have a sum
that grows along dominance between valid designs; invalid ones dominate nobody.
A set of natural numbers has a least member, which gives an undominated design
of any set, and with it a next front while anybody is left.

The argument for `GeneticOptimizer`. After every turn of the sort the fronts so
far are layers, each the undominated part of the rest, and what is left of the
dominance are the pairs whose dominator is in the last front or behind it
(`Layered`). Nobody of the rest dominates a member of an earlier front, so
whoever the visit of the last front releases, in whichever order, is exactly the
next layer (`NextLayer`), each member once as the front lists nobody twice. A
layer is empty only when the rest is; and there are never more fronts than
individuals, for the first members of the fronts would else be more different
indices than there are (`FewFronts`). So the sort ends with nobody left. The
first front comes in index order, so its slice is not crossed and starts with its
own first member; whatever later fronts add, out of order or not, comes behind
(`TakeFrontTyped`), and the cut keeps the first. Hence the population is never
empty and its first member is dominated by nobody of the population before. What
a call has written down is what its last population has (`Recorded`), and the
cheapest of the valid individuals of the lowest flow is undominated. The last needs
flows that are equal or told apart by the tolerance; the theorem states it as its
hypothesis, for without it the claim is false: a design whose flow is lower by
less than the tolerance would be recommended, while a cheaper one that dominates
it is on the front (TLC shows it with `FlowTolerance = 35` in the instance). With
the tolerance of 1e-15 and flows that differ from grid to grid this is what the
code relies on.

`CutsKeepEnds` rests on the exchange sort. After its pass a place holds a
least of what is at it and behind it, nothing before it has moved and nothing
behind it is new (`Compared`, `PassCompares`); so the places settle one by one
(`ExchangeSortSorts`), whatever becomes of equals. Sorted by flow and by cost, a
front has first and last members: at most four boundaries, all of one distance,
and any other member's distance is smaller, for the gap between its neighbours is
no wider than the range (`GapInRange`, `BoundariesAreFarthest`). In the last sort,
by distance, nobody comes before a boundary but boundaries, which are different
(`ReorderingInjective`), so a fifth of them is impossible
(`BoundariesComeFirst`). So four places keep all boundaries, and with them both
ends; with fewer places whoever is kept is a boundary, or both ends are kept
(`CutSparesEnds`). The fronts are those of parents and offspring together, cut to
what the fronts before have left. A front with a valid member has valid members only, as
each of them would dominate an invalid one.

The argument for `SeepageSolver`. The scheme has a maximum principle: a free
node gets the mean of its neighbours, weighted with conductances that are
positive (`ConductancePositive`), or seven parts of a mean of heads and three of
its own height, which is below them; so it stays between the lower level and the
higher one with the surcharge of the initial heads (`SweptNodeTyped`,
`CorrectedKeeps`), and a prescribed node keeps its level because a dry node is
only lifted, never lowered, and one below the water is not dry. That each pass
works on the heads of the solver that is running needs that no two solvers have
the same grid and that a solver has one laid out for its size (`Owned`). For
`DesignsAreIndependent` the solver that is running is in step with one made for
its request alone: their grids agree after every pass (`InStep`), as a solver's
grid number, the only field in which they differ, decides nothing (`Twins`);
the grid of a result is not written again (`Apart`).

For `OnlyTheCorrectionUnsettles` two sweeps of one grid are compared, the last one
and the next, which starts from what the last one and the correction left. Node
by node their heads differ by no more than the change of the last sweep and the
lift of the correction together (`NextSweep`): the node is a mean with the same
conductances in both (`MeanWithin`, `RelaxedWithin`), of heads that differ by no
more, those before it in the sweep because they were compared already, those
behind it because a sweep visits each node once (`VisitedOnce`) and so leaves
there what it found. Rounding does no harm: moving all heads by a whole number
moves a rounded mean by that number. The invariant (`Measured`) says that the
change on record is that of the sweep just made. `LoopTheorems` makes this
possible: a loop of the code is a recursive function on its turns, the set of
turns after which a fact holds contains 0 and with every turn the next, so it
contains all; and that the recursive function exists follows in the same way.

Only model-checked:

* `FlowsFromTheHigherLevel`. That the flow is not nil is no matter of the scheme
  but of the numbers: a gradient of less than a unit is rounded away. Nor does
  the maximum principle fix its direction: above the downstream level, in a dam
  whose body reaches the last column but one, neither of the two heads in
  question is prescribed, and before the iterations have converged either may be
  the higher.
* `ConvergedMeansSettled`. An iteration with its correction is no contraction
  (section 6): by `CorrectionUnsettles` a small change of the last sweep bounds the
  next sweep only together with the lift of the correction, which the code does
  not measure. That the lift has died down when a run stops early is a matter of
  the numbers.
* The liveness properties, which are out of the prover's reach as is anything
  about ENABLED; and that the `violation` runs of section 6 find what they find.

The induction theorems of the library take an operator as a parameter, which the
installed provers cannot instantiate, and RECURSIVE operators disable the SMT
prover. The modules proved about have neither: they have recursive functions on
a range of numbers, of which `LoopTheorems` treats the body as a function of sets
of values. What is summed over a set (`Discharge`) stays out of reach.

## 5. Mutants

Each property of each passing run has a mutant: a second definition beside the
one it replaces, with the comment "A mutant of ...". They are plausible bugs:
the retry lock dropped, a retry not counted, an off-by-one in the limit, a
request sent after the caller was refused, a worker not waited for, a slice one
short, a front not truncated, a batch offered before its commit, setters that
do not lock, `RUnlock` forgotten, `Unlock` too
late, the sections of an update in another order, a grid reused by the next design, the last column taken for the last two, the last change kept for the
largest, a sort that stops before the last element, a confirmed alarm queued for a
retry.

## 6. Disagreements between code and documentation

1. `alarm_silenced`. `evaluateAndPush` calls `CheckCooldown`, which stamps the
   sensor, before `EvaluateThreshold`. A normal reading therefore silences the
   sensor for ten minutes, and a dangerous reading that follows raises no alarm.
   The README of the system lists threshold evaluation before the cooldown, and
   the former implementation in `internal/mqtt` stamps only when an alarm was
   raised.
2. `genetic_returns`. The members of a later front are in the order in which
   they were released, not in index order. The selection slices `combined` from
   the first of them to the last; when these are crossed Go panics, in a
   goroutine that nobody recovers, and the server dies. The regression program
   expects a result or an error of the same call.
3. `simulator_partial`. `handlePostConfig` takes every field that is `>= 0`
   from the request, and an absent field is 0. The README of the system changes
   only the permeability in one example, which sets both water levels to 0; in two
   others it names the level `upstream_water_level`, which is no field of the
   configuration, and sets levels and permeability to 0.
4. `telemetry_speed`. Readings are stamped with a clock that runs `sim_speed`
   times as fast as the server's, which refuses readings more than 5 minutes
   ahead. With the shipped speed of 10 every batch is refused within a minute of
   the start.
5. `genetic_bounds`. If no individual is within the budget, `bestOverall` stays
   the zero individual and a blanket of length and thickness 0 is recommended as
   a success. `ValidateOptimization` (`genetic_algo.go:817-826`), which nobody
   calls, and the regression program (`regression_main.go:401-406`), which runs the
   same call with a budget, demand a blanket within the bounds of the request.
   The regression's own bounds and prices leave every design within its budget
   (at most 462,000 of 500,000); a request with larger bounds gets there.

Met while modelling, and without a run: the first two contradict a document, the
rest no document in so many words.

* `src/README.md:248` says that the upstream level affects uplift and seepage
  ("影响扬压力和渗流量"). An update of it sets `WL-001` and the piezometers
  (`sensor_simulator.go:268-272`); the seepage meter `SM-001` is set from the
  permeability alone (234-245, 279-280). `SensorsFollowSettings` says what the code
  does (`Follows`).
* A blanket's nodes on the contact have the contact's permeability
  (`GetPointPermeability`). `regression_main.go:306-313` demands the blanket's of every
  node of its zone ("铺盖网格(%d,%d)渗透性不正确"), and the code does not give it. That
  program does not notice, for its blanket ends at 20 m and its dam's body begins at
  53 m, so that no node of it is both; a blanket that reaches the body fails the
  demand. No property depends on it.
* `main` reports a graceful exit in every case, but `Shutdown` waits 30 s
  for handlers that wait up to 300 s, and a cancelled worker may leave accepted
  requests in its channel (`cut` in `ServerRequests`).
* Above the free surface the correction undoes what the sweep does, so the
  change need not fall below the tolerance, and the last iterate is returned
  without an error. In `solver_fields` the ordinary levels end so.
* `RunSimulation` replaces the permeability of the blanket that `Optimize` set
  and reports (`SolveFinal`); and the reduction of the flow compares a design on
  40 x 20 with a baseline on 60 x 30.
* The piezometers carry one factor for each permeability set since the upstream
  level was: two permeabilities in turn leave both factors, and a level set after
  the permeability leaves none, while `GET /config` reports the last of each.
  `SensorsFollowSettings` says exactly that, and no document says whether it
  should be so.
* Between the two sections of an update of the upstream level a whole batch may
  be made and sent that has the new level on `WL-001` and the old one on the piezometers
  (`BatchIsSnapshot` allows it there and nowhere else).
* A speed below 1 stops the clock of the readings, and lowering it turns the clock
  back (`Telemetry`).
* Two overlapping POST /config lose updates, and their sections may be applied
  in any order (`overlapped`).
* A panic on the closed bus answers 500 for a batch that is stored and whose
  readings are never evaluated (`SendOnClosed`).

The slice of the selection holds everybody between the first and the last
member of a front, so dominated individuals fill the population and members of
the first front, even the one of the best flow, may be cut. What it still
guarantees is `SomeoneUnbeatenSurvives`: the first
member of the first front is always taken, so a population with a design within
the budget is never followed by one without.

## 7. Plan

In the order of what is at stake:

1. Done: the alarm service, the calls and the shutdown, with their abstract
   specifications and proofs.
2. Done: the genetic algorithm and the theorems on its dominance.
3. Done: the ingest, composed with the simulator's clock and the alarm channel,
   its abstract specification and the proofs; the simulator's handlers and
   locks, and proofs; the solver and its copies.
4. Done: proofs of every safety property the runs check but the two named at the
   end of section 4; the order of the simulator's locks, the sorts of the
   optimiser, and what a sweep of the solver may change.
5. Left: `FlowsFromTheHigherLevel` in a weaker form, for dams whose body ends
   before the last two columns, which needs `Discharge` as a loop; and properties
   for the seven hazards that have none, should a document ever say what is meant
   there (see their notes in `PROJECT.json`).

Not modelled, and not planned:

* `internal/mqtt`, the former alarm checker: no package imports it.
* The guarded Publish functions of the bus and its unused channels: the
  services send on the channels themselves.
* The panel of the frontend: it keeps the last answer only, and the order of two
  answers is up to the browser.
* The handlers that only query the database, metrics, configuration files (read
  by the regression program), the regression programs (tests), SQL policies and
  deployment: sequential, external or pure input and output.
* Floating point: `SeepageSolver` has the scheme, not its rounding.
