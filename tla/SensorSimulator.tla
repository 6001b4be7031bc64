-------------------------- MODULE SensorSimulator --------------------------
(***************************************************************************)
(* The DTU simulator, src/simulator/sensor_simulator.go: HTTP handlers that *)
(* read and change the configuration and the sensors, and the sampling loop *)
(* of main, which share three RWMutexes.                                    *)
(*                                                                          *)
(* An action is what a goroutine does up to its next Lock, RLock or write   *)
(* to a client.  A section that takes no second lock and does not block is  *)
(* one action.                                                              *)
(***************************************************************************)
EXTENDS Integers, Sequences, FiniteSets, SequencesExt

CONSTANTS
  Req,          \* requests to the HTTP API, each handled by its own goroutine
  Kind,         \* Kind[r] is "post", "get", "status" or "trigger"
  Bodies,       \* bodies of each POST /config: functions from some fields to values
  StartConfigs, \* configurations the environment may give, -1 for "not set"
  Sensors,      \* the identifiers of the sensors, in the order of `sensors'
  None

\* The fields that drive sensors: upstream_wl, downstream_wl,
\* foundation_permeability.
Field == {"up", "down", "perm"}

ASSUME SimulatorAssumption ==
  /\ Kind \in [Req -> {"post", "get", "status", "trigger"}]
  /\ \A r \in Req : \A b \in Bodies[r] :
       DOMAIN b \subseteq Field /\ \A f \in DOMAIN b : b[f] \in Int
  /\ StartConfigs # {} /\ StartConfigs \subseteq [Field -> Int]
  /\ Sensors \in Seq(STRING) \ {<<>>}
  /\ "sampler" \notin Req /\ None \notin Req \cup {"sampler"}

VARIABLES
  cfg,          \* the global cfg
  base,         \* BaseValue of each sensor
  latest,       \* latest: who made the last reading of each sensor
  mu,           \* cfgMu, sensorMu, latestMu
  pc,           \* where each handler and the sampling loop are
  posted,       \* handlePostConfig: the fields the body named
  wanted,       \* handleTriggerAlarm: the sensor that req.SensorID names
  merged,       \* handlePostConfig: merged
  todo,         \* UpdateConfig: what is still to set
  pos,          \* main: the index of the loop over sensors
  payload,      \* main: payload.Sensors, as the bases they were made from
  newest,       \* history: who made a reading of each sensor last
  overlapped,   \* history: two updates were in progress at once
  factors       \* history: the permeabilities set since the upstream level was

vars == <<cfg, base, latest, mu, pc, posted, wanted, merged, todo, pos, payload,
          newest, overlapped, factors>>

Mutex == {"cfgMu", "sensorMu", "latestMu"}
Proc == Req \cup {"sampler"}
Id == Range(Sensors)
Post == {r \in Req : Kind[r] = "post"}

----------------------------------------------------------------------------
(***************************************************************************)
(* sync.RWMutex.  Lock announces the writer, which keeps new readers out,   *)
(* and then waits for the readers inside.                                   *)
(***************************************************************************)
Unlocked == [m \in Mutex |-> [writer |-> None, readers |-> {}]]

Readable(m) == mu[m].writer = None

Announced(m, p) == [mu EXCEPT ![m].writer = p]

Owns(m, p) == mu[m].writer = p /\ mu[m].readers = {}

Released(m) == [mu EXCEPT ![m].writer = None]

Entered(m, p) == [mu EXCEPT ![m].readers = @ \cup {p}]

\* A mutant of Left: a handler returns without RUnlock.
NotLeft(m, p) == mu

Left(m, p) == [mu EXCEPT ![m].readers = @ \ {p}]

----------------------------------------------------------------------------
(***************************************************************************)
(* Bases.  A base is kept as what it was computed from: the level or the   *)
(* permeability it is proportional to (-1: the shipped value), and the     *)
(* permeabilities whose factors 0.5 + 0.5 * sqrt(k / 1e-5) were multiplied *)
(* into it since.                                                          *)
(***************************************************************************)
IsPiezometer(s) == s \in {"PZ-001", "PZ-002", "PZ-003", "PZ-004", "PZ-005"}

Shipped == [s \in Id |-> [of |-> -1, by |-> <<>>]]

\* setSensorBaseValue and updateSMByPermeability: the base is replaced.
Replaced(b, s, v) == [t \in Id |-> IF t = s THEN [of |-> v, by |-> <<>>] ELSE b[t]]

\* updatePZByUpstreamWL: from the shipped base, whatever it was before.
PZByUpstreamWL(b, v) ==
  [s \in Id |-> IF IsPiezometer(s) THEN [of |-> v, by |-> <<>>] ELSE b[s]]

\* updatePZByPermeability: from the current base.
PZByPermeability(b, v) ==
  [s \in Id |-> IF IsPiezometer(s) THEN [b[s] EXCEPT !.by = Append(@, v)] ELSE b[s]]

\* One critical section under sensorMu.
Apply(b, section, c) ==
  CASE section = "WL-001" -> Replaced(b, "WL-001", c["up"])
    [] section = "PZ level" -> PZByUpstreamWL(b, c["up"])
    [] section = "WL-002" -> Replaced(b, "WL-002", c["down"])
    [] section = "SM-001" -> Replaced(b, "SM-001", c["perm"])
    [] section = "PZ factor" -> PZByPermeability(b, c["perm"])

\* A mutant of Sections: the permeability before the levels, which forget its factor.
SectionsPermFirst(fields) ==
  (IF "perm" \in fields THEN <<"SM-001", "PZ factor">> ELSE <<>>)
  \o (IF "up" \in fields THEN <<"WL-001", "PZ level">> ELSE <<>>)
  \o (IF "down" \in fields THEN <<"WL-002">> ELSE <<>>)

\* The sections for a set of fields, in the order of the code.
Sections(fields) ==
  (IF "up" \in fields THEN <<"WL-001", "PZ level">> ELSE <<>>)
  \o (IF "down" \in fields THEN <<"WL-002">> ELSE <<>>)
  \o (IF "perm" \in fields THEN <<"SM-001", "PZ factor">> ELSE <<>>)

\* applyConfigOverrides: every field that is set, before any goroutine starts.
ConfigOverrides(c) ==
  LET Set(b, f, section) == IF c[f] >= 0 THEN Apply(b, section, c) ELSE b
      up   == Set(Set(Shipped, "up", "WL-001"), "up", "PZ level")
      down == Set(up, "down", "WL-002")
  IN  Set(Set(down, "perm", "SM-001"), "perm", "PZ factor")

\* UpdateConfig: the fields to apply, from the configuration it replaces.
Changed(new, old) == {f \in Field : new[f] >= 0 /\ new[f] # old[f]}

\* json.Decode into a zero Config: an absent field is 0.
Decode(b) == [f \in Field |-> IF f \in DOMAIN b THEN b[f] ELSE 0]

\* handlePostConfig: what is >= 0 in the request replaces the current value.
Merge(old, b) ==
  [f \in Field |-> IF Decode(b)[f] >= 0 THEN Decode(b)[f] ELSE old[f]]

----------------------------------------------------------------------------
Goto(p, label) == pc' = [pc EXCEPT ![p] = label]

\* A panic in the sampling loop has ended the process.
Down == pc["sampler"] = "dead"

\* A handler of POST /config is between its first and its last section.
Updating(r) == r \in Post /\ pc[r] \in {"lock", "swap", "apply"}

(***************************************************************************)
(* POST /config                                                            *)
(***************************************************************************)
\* The request is merged into a copy of the configuration.
PostMerge(r) ==
  /\ Kind[r] = "post" /\ pc[r] = "new"
  /\ Readable("cfgMu")
  /\ \E b \in Bodies[r] :
       /\ posted' = [posted EXCEPT ![r] = b]
       /\ merged' = [merged EXCEPT ![r] = Merge(cfg, b)]
  /\ overlapped' = (overlapped \/ \E q \in Post : Updating(q))
  /\ Goto(r, "lock")
  /\ UNCHANGED <<cfg, base, latest, mu, wanted, todo, pos, payload, newest, factors>>

\* UpdateConfig: cfgMu.Lock.
PostLock(r) ==
  /\ Kind[r] = "post" /\ pc[r] = "lock"
  /\ Readable("cfgMu")
  /\ mu' = Announced("cfgMu", r)
  /\ Goto(r, "swap")
  /\ UNCHANGED <<cfg, base, latest, posted, wanted, merged, todo, pos,
                 payload, newest, overlapped, factors>>

\* A mutant of UnlockConfig: cfgMu is kept until the update is complete.
UnlockConfigLater(r) == mu

\* The mutex given up before the sensors are updated.
UnlockConfig(r) == Released("cfgMu")

\* UpdateConfig: the old values are read and cfg is replaced.
PostSwap(r) ==
  /\ Kind[r] = "post" /\ pc[r] = "swap"
  /\ Owns("cfgMu", r)
  /\ cfg' = merged[r]
  /\ todo' = [todo EXCEPT ![r] = Sections(Changed(merged[r], cfg))]
  /\ factors' = (IF merged[r]["up"] = cfg["up"] THEN factors ELSE <<>>)
                \o (IF merged[r]["perm"] = cfg["perm"] THEN <<>> ELSE <<merged[r]["perm"]>>)
  /\ mu' = UnlockConfig(r)
  /\ Goto(r, "apply")
  /\ UNCHANGED <<base, latest, posted, wanted, merged, pos, payload, newest,
                 overlapped>>

\* A mutant of SensorsFree: the setters do not lock.
SensorsUnguarded == TRUE

\* A section waits for sensorMu.
SensorsFree == mu["sensorMu"].writer = None

\* UpdateConfig: the next section.
PostApply(r) ==
  /\ Kind[r] = "post" /\ pc[r] = "apply"
  /\ todo[r] # <<>>
  /\ SensorsFree
  /\ base' = Apply(base, Head(todo[r]), merged[r])
  /\ todo' = [todo EXCEPT ![r] = Tail(@)]
  /\ UNCHANGED <<cfg, latest, mu, pc, posted, wanted, merged, pos, payload,
                 newest, overlapped, factors>>

----------------------------------------------------------------------------
(***************************************************************************)
(* The handlers that encode shared data while they hold a read lock: the   *)
(* end of POST /config, GET /config, GET /status.                          *)
(***************************************************************************)
ReadMutex(r) == IF Kind[r] = "status" THEN "latestMu" ELSE "cfgMu"

ReplyLock(r) ==
  /\ \/ Kind[r] \in {"get", "status"} /\ pc[r] = "new"
     \/ Kind[r] = "post" /\ pc[r] = "apply" /\ todo[r] = <<>>
  /\ Readable(ReadMutex(r))
  /\ mu' = Entered(ReadMutex(r), r)
  /\ Goto(r, "reply")
  /\ UNCHANGED <<cfg, base, latest, posted, wanted, merged, todo, pos,
                 payload, newest, overlapped, factors>>

ReplyEnd(r) ==
  /\ pc[r] = "reply"
  /\ mu' = Left(ReadMutex(r), r)
  /\ Goto(r, "done")
  /\ UNCHANGED <<cfg, base, latest, posted, wanted, merged, todo, pos,
                 payload, newest, overlapped, factors>>

----------------------------------------------------------------------------
(***************************************************************************)
(* POST /trigger-alarm                                                     *)
(***************************************************************************)
\* A mutant of TriggerHolds: sensorMu is held for the search only.
TriggerSearches(r) == Announced("latestMu", r)

\* sensorMu is kept until the answer is ready; latestMu, which is only locked
\* by who holds sensorMu, is asked for at once.
TriggerHolds(r) ==
  [m \in Mutex |-> IF m = "cfgMu" THEN mu[m] ELSE Announced(m, r)[m]]

\* sensorMu.Lock, the search, the reading of the sensor found, latestMu.Lock.
TriggerFound(r) ==
  /\ Kind[r] = "trigger" /\ pc[r] = "new"
  /\ SensorsFree /\ mu["latestMu"].writer = None
  /\ \E s \in Id :
       /\ wanted' = [wanted EXCEPT ![r] = s]
       /\ newest' = [newest EXCEPT ![s] = r]
  /\ mu' = TriggerHolds(r)
  /\ Goto(r, "store")
  /\ UNCHANGED <<cfg, base, latest, posted, merged, todo, pos, payload,
                 overlapped, factors>>

\* 404: the loop finds nothing, the mutex is released.
TriggerUnknown(r) ==
  /\ Kind[r] = "trigger" /\ pc[r] = "new"
  /\ SensorsFree
  /\ Goto(r, "done")
  /\ UNCHANGED <<cfg, base, latest, mu, posted, wanted, merged, todo, pos, payload,
                 newest, overlapped, factors>>

\* latest[id] = data.
TriggerStore(r) ==
  /\ Kind[r] = "trigger" /\ pc[r] = "store"
  /\ Owns("latestMu", r)
  /\ latest' = [latest EXCEPT ![wanted[r]] = newest[wanted[r]]]
  /\ mu' = Released("latestMu")
  /\ Goto(r, "dtu")
  /\ UNCHANGED <<cfg, base, posted, wanted, merged, todo, pos, payload,
                 newest, overlapped, factors>>

\* cfgMu.RLock for the DTU's name, still under sensorMu.
TriggerReadConfig(r) ==
  /\ Kind[r] = "trigger" /\ pc[r] = "dtu"
  /\ Readable("cfgMu")
  /\ Goto(r, "draw")
  /\ UNCHANGED <<cfg, base, latest, mu, posted, wanted, merged, todo, pos,
                 payload, newest, overlapped, factors>>

\* The payload's random fields, go sendData, sensorMu.Unlock and the answer; with it
\* the handler and its locals are gone.
TriggerSend(r) ==
  /\ Kind[r] = "trigger" /\ pc[r] = "draw"
  /\ mu' = Released("sensorMu")
  /\ wanted' = [wanted EXCEPT ![r] = None]
  /\ Goto(r, "done")
  /\ UNCHANGED <<cfg, base, latest, posted, merged, todo, pos, payload, newest,
                 overlapped, factors>>

----------------------------------------------------------------------------
(***************************************************************************)
(* The sampling loop of main                                               *)
(***************************************************************************)
\* The interval of the last batch, then speed and DTU of the next.
SampleReadConfig ==
  /\ pc["sampler"] = "read"
  /\ Readable("cfgMu")
  /\ Goto("sampler", "draw")
  /\ UNCHANGED <<cfg, base, latest, mu, posted, wanted, merged, todo, pos,
                 payload, newest, overlapped, factors>>

\* A mutant of NewBatch: the slice is reused without truncation.
ReusedBatch == payload

\* make([]SensorData, 0, len(sensors))
NewBatch == <<>>

\* The payload's random fields, drawn without a lock; sensorMu.Lock, held over
\* the whole loop.
SampleDraw ==
  /\ pc["sampler"] = "draw"
  /\ SensorsFree
  /\ payload' = NewBatch
  /\ pos' = 1
  /\ mu' = Announced("sensorMu", "sampler")
  /\ Goto("sampler", "make")
  /\ UNCHANGED <<cfg, base, latest, posted, wanted, merged, todo, newest,
                 overlapped, factors>>

\* simulateSensor, appended to the payload; latestMu.Lock.
SampleMake ==
  LET s == Sensors[pos] IN
  /\ pc["sampler"] = "make"
  /\ mu["latestMu"].writer = None
  /\ mu' = Announced("latestMu", "sampler")
  /\ payload' = Append(payload, base[s])
  /\ newest' = [newest EXCEPT ![s] = "sampler"]
  /\ Goto("sampler", "store")
  /\ UNCHANGED <<cfg, base, latest, posted, wanted, merged, todo, pos,
                 overlapped, factors>>

\* latest[id] = sensorData; sensorMu is released after the last sensor.
SampleStore ==
  LET s == Sensors[pos]  last == pos = Len(Sensors) IN
  /\ pc["sampler"] = "store"
  /\ Owns("latestMu", "sampler")
  /\ latest' = [latest EXCEPT ![s] = "sampler"]
  /\ mu' = [m \in Mutex |-> IF m = "latestMu" \/ (m = "sensorMu" /\ last)
                            THEN Released(m)[m] ELSE mu[m]]
  /\ pos' = IF last THEN pos ELSE pos + 1
  /\ Goto("sampler", IF last THEN "send" ELSE "make")
  /\ UNCHANGED <<cfg, base, posted, wanted, merged, todo, payload, newest,
                 overlapped, factors>>

\* sendData: URL and DTU under cfgMu, then a request with a timeout of 15 s;
\* a failure is only logged, and the batch is not sent again.
SampleSend ==
  /\ pc["sampler"] = "send"
  /\ Readable("cfgMu")
  /\ payload' = NewBatch
  /\ Goto("sampler", "read")
  /\ UNCHANGED <<cfg, base, latest, mu, posted, wanted, merged, todo, pos,
                 newest, overlapped, factors>>

----------------------------------------------------------------------------
(***************************************************************************)
(* rng is not safe for concurrent use, and the sampling loop draws from it *)
(* without a lock.  When it does so while a handler draws, the generator's *)
(* index may leave its array and either of them panic.  net/http recovers  *)
(* the handler, whose sensorMu.Unlock is not deferred; nobody recovers     *)
(* main.                                                                   *)
(***************************************************************************)
Racing(r) ==
  Kind[r] = "trigger" /\ pc[r] = "draw" /\ pc["sampler"] = "draw"

HandlerPanic(r) ==
  /\ Racing(r)
  /\ Goto(r, "dead")
  /\ UNCHANGED <<cfg, base, latest, mu, posted, wanted, merged, todo, pos,
                 payload, newest, overlapped, factors>>

SamplerPanic(r) ==
  /\ Racing(r)
  /\ Goto("sampler", "dead")
  /\ UNCHANGED <<cfg, base, latest, mu, posted, wanted, merged, todo, pos,
                 payload, newest, overlapped, factors>>

----------------------------------------------------------------------------
Init ==
  /\ cfg \in StartConfigs
  /\ base = ConfigOverrides(cfg)
  /\ latest = [s \in Id |-> None]
  /\ mu = Unlocked
  /\ pc = [p \in Proc |-> IF p = "sampler" THEN "read" ELSE "new"]
  /\ posted = [r \in Req |-> <<>>]
  /\ wanted = [r \in Req |-> None]
  /\ merged = [r \in Req |-> cfg]
  /\ todo = [r \in Req |-> <<>>]
  /\ pos = 1
  /\ payload = <<>>
  /\ newest = latest
  /\ overlapped = FALSE
  /\ factors = IF cfg["perm"] >= 0 THEN <<cfg["perm"]>> ELSE <<>>

\* A request that has arrived, step by step.
HandlerWork(r) ==
  \/ PostLock(r) \/ PostSwap(r) \/ PostApply(r)
  \/ ReplyLock(r) \/ ReplyEnd(r)
  \/ TriggerStore(r) \/ TriggerReadConfig(r) \/ TriggerSend(r)

Handler(r) ==
  /\ ~Down
  /\ \/ PostMerge(r)
     \/ TriggerFound(r) \/ TriggerUnknown(r)
     \/ HandlerWork(r)

Sampler ==
  \/ SampleReadConfig \/ SampleDraw \/ SampleMake \/ SampleStore \/ SampleSend

Next ==
  \/ \E r \in Req : Handler(r)
  \/ Sampler
  \/ \E r \in Req : HandlerPanic(r) \/ SamplerPanic(r)

Spec == Init /\ [][Next]_vars

\* Goroutines that can run are run, clients read their answers, and every
\* request of Req arrives.  Strong fairness: the sampling loop takes sensorMu
\* again and again, and Go's mutexes serve who has waited for a millisecond.
FairSpec ==
  /\ Spec
  /\ \A r \in Req : SF_vars(Handler(r))
  /\ WF_vars(Sampler)

----------------------------------------------------------------------------
(***************************************************************************)
(*                              Properties                                 *)
(***************************************************************************)
Base == [of : Int, by : Seq(Int)]
Labels == {"new", "lock", "swap", "apply", "reply", "store", "dtu", "draw",
           "read", "make", "send", "done", "dead"}

\* The type invariant; a batch holds no sensor twice.
TypeOK ==
  /\ cfg \in [Field -> Int]
  /\ base \in [Id -> Base]
  /\ latest \in [Id -> Proc \cup {None}]
  /\ mu \in [Mutex -> [writer : Proc \cup {None}, readers : SUBSET Req]]
  /\ pc \in [Proc -> Labels]
  /\ \A r \in Req : posted[r] \in Bodies[r] \cup {<<>>}
  /\ wanted \in [Req -> Id \cup {None}]
  /\ merged \in [Req -> [Field -> Int]]
  /\ \A r \in Req : Len(todo[r]) <= 5
  /\ pos \in 1..Len(Sensors)
  /\ payload \in Seq(Base)
  /\ Len(payload) <= Len(Sensors)
  /\ overlapped \in BOOLEAN
  /\ factors \in Seq(Int)

\* The field a sensor's base is set from, for the sensors that have one.  SM-001 is
\* set from the permeability alone, although src/README.md:248 says that the upstream
\* level affects the seepage as well.
Follows(s, f) ==
  \/ f = "up" /\ (s = "WL-001" \/ IsPiezometer(s))
  \/ f = "down" /\ s = "WL-002"
  \/ f = "perm" /\ s = "SM-001"

\* Once no update is in progress, what the updates have left of each sensor is what
\* they would have left one by one, each in one step, unless two of them
\* overlapped.  A sensor that is set from a field was last set from the value that
\* GET /config reports, and the piezometers carry one factor for each permeability
\* set since the upstream level was, in that order.  They do not show the
\* configuration: two permeabilities in turn leave both factors, and a level set
\* after the permeability leaves none.  UpdateConfig applies only differences, so a
\* section that is missed, made twice or out of order is never made up for.
SensorsFollowSettings ==
  ~overlapped /\ (\A r \in Post : ~Updating(r)) =>
    \A s \in Id :
      /\ \A f \in Field : Follows(s, f) /\ cfg[f] >= 0 => base[s].of = cfg[f]
      /\ base[s].by = IF IsPiezometer(s) THEN factors ELSE <<>>

\* GET /status never shows a reading older than one already made: trigger and
\* sampling loop both keep sensorMu until their reading is in latest.
LatestIsNewest ==
  mu["sensorMu"].writer = None => latest = newest

\* No section of an update changes a sensor that the batch has read.
ReadAtOnce ==
  pc["sampler"] \in {"make", "store"} =>
    \A i \in 1..Len(payload) : payload[i] = base[Sensors[i]]

ShowsOneLevel ==
  pc["sampler"] \in {"make", "store"} =>
    \A i, j \in 1..Len(payload) :
      Follows(Sensors[i], "up") /\ Follows(Sensors[j], "up") =>
        payload[i].of = payload[j].of

\* An update has set WL-001 and not yet the piezometers.
BetweenLevels ==
  \E r \in Post : pc[r] = "apply" /\ todo[r] # <<>> /\ Head(todo[r]) = "PZ level"

\* The readings of a batch under construction are those of one moment.  That moment
\* need not show one configuration, for cfg is replaced before the sensors are and an
\* update has several sections, between which a whole batch may be made; but WL-001
\* and the piezometers show one upstream level, old or new, unless the moment is
\* between the two sections that set them, or two updates overlapped.
BatchIsSnapshot ==
  /\ ReadAtOnce
  /\ overlapped \/ BetweenLevels \/ ShowsOneLevel

\* The mutexes whose writer, if there is one, p has to wait for.
Needs(p, m) ==
  \/ /\ m = "cfgMu"
     /\ \/ pc[p] \in {"lock", "dtu", "read", "send"}
        \/ pc[p] = "new" /\ Kind[p] \in {"post", "get"}
        \/ pc[p] = "apply" /\ todo[p] = <<>>
  \/ /\ m = "sensorMu"
     /\ \/ pc[p] = "new" /\ Kind[p] = "trigger"
        \/ pc[p] = "apply" /\ todo[p] # <<>>
        \/ pc[p] = "draw" /\ p = "sampler"
  \/ /\ m = "latestMu"
     /\ \/ pc[p] = "new" /\ Kind[p] \in {"status", "trigger"}
        \/ pc[p] = "make"

\* Who keeps p from its next step: the writer of a mutex it needs, and the
\* readers inside one it has asked for.
WaitsFor(p) ==
  {q \in Proc : \E m \in Mutex :
      \/ Needs(p, m) /\ mu[m].writer = q
      \/ mu[m].writer = p /\ q \in mu[m].readers}

\* There is no circle of processes that wait for one another: among any that wait,
\* one waits for none of these.  A trigger holds sensorMu while it asks for
\* latestMu and for cfgMu, an update needs both in the reverse order and must
\* have given up the one before it asks for the other.
NobodyWaitsInACircle ==
  LET waiting == {p \in Proc : WaitsFor(p) # {}}
  IN  \A S \in (SUBSET waiting) \ {{}} : \E p \in S : WaitsFor(p) \cap S = {}

Panicked == \E p \in Proc : pc[p] = "dead"

\* Every request is answered: handlers and sampling loop take cfgMu, sensorMu
\* and latestMu in an order that cannot deadlock, unless the generator's race
\* killed a handler that holds sensorMu, or the process.
EveryRequestIsAnswered == <>(Panicked \/ \A r \in Req : pc[r] = "done")

\* The sampling loop delivers batch after batch, under the same condition.
SamplingGoesOn == []<>(pc["sampler"] = "send" \/ Panicked)

\* A POST /config changes only the fields it names.  The code breaks this: an
\* absent field decodes to 0, which passes the tests for >= 0.
PostChangesOnlyWhatItNames ==
  [][\A r \in Post :
       pc[r] = "swap" /\ pc'[r] = "apply" =>
         \A f \in Field \ DOMAIN posted[r] : cfg'[f] = cfg[f]]_vars
============================================================================
