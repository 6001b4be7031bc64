----------------------- MODULE SensorSimulatorProofs -----------------------
(***************************************************************************)
(* Proofs about SensorSimulator, for any requests, bodies and sensors.     *)
(***************************************************************************)
EXTENDS SensorSimulator, TLAPS

----------------------------------------------------------------------------
(***************************************************************************)
(* Types.                                                                  *)
(***************************************************************************)
Config == [Field -> Int]
Lock == [writer : Proc \cup {None}, readers : SUBSET Req]
SectionName == {"WL-001", "PZ level", "WL-002", "SM-001", "PZ factor"}
Batch == Seq(Base)

Shape ==
  /\ cfg \in Config
  /\ base \in [Id -> Base]
  /\ latest \in [Id -> Proc \cup {None}]
  /\ newest \in [Id -> Proc \cup {None}]
  /\ mu \in [Mutex -> Lock]
  /\ pc \in [Proc -> Labels]
  /\ DOMAIN posted = Req
  /\ \A r \in Req : posted[r] \in Bodies[r] \cup {<<>>}
  /\ wanted \in [Req -> Id \cup {None}]
  /\ merged \in [Req -> Config]
  /\ todo \in [Req -> Seq(SectionName)]
  /\ \A r \in Req : Len(todo[r]) <= 5
  /\ pos \in 1..Len(Sensors)
  /\ payload \in Batch
  /\ overlapped \in BOOLEAN
  /\ factors \in Seq(Int)

(***************************************************************************)
(* sensorMu belongs to the sampling loop while it makes a batch, and to a  *)
(* trigger from its search to its answer.                                  *)
(***************************************************************************)
Sampling == pc["sampler"] \in {"make", "store"}
Triggering(r) == Kind[r] = "trigger" /\ pc[r] \in {"store", "dtu", "draw", "dead"}

Exclusive ==
  /\ Sampling <=> mu["sensorMu"].writer = "sampler"
  /\ \A r \in Req : Triggering(r) <=> mu["sensorMu"].writer = r
  /\ \A r \in Req : pc[r] = "store" => Kind[r] = "trigger" /\ wanted[r] \in Id

\* A reading that is not yet in latest is in the hands of who holds sensorMu.
Fresh ==
  /\ pc["sampler"] = "store" => newest[Sensors[pos]] = "sampler"
  /\ \A s \in Id : latest[s] # newest[s] =>
       \/ pc["sampler"] = "store" /\ s = Sensors[pos]
       \/ \E r \in Req : pc[r] = "store" /\ s = wanted[r]

\* A batch under construction has one reading for each sensor passed.
Made ==
  /\ pc["sampler"] = "make" => Len(payload) = pos - 1
  /\ pc["sampler"] = "store" => Len(payload) = pos
  /\ Len(payload) <= Len(Sensors)
  /\ ReadAtOnce

IInv == Shape /\ Exclusive /\ Fresh /\ Made

----------------------------------------------------------------------------
(***************************************************************************)
(* The operators.                                                          *)
(***************************************************************************)
LEMMA SensorsTyped ==
  /\ Len(Sensors) \in Nat \ {0}
  /\ \A i \in 1..Len(Sensors) : Sensors[i] \in Id
<1>1. Sensors \in Seq(STRING) /\ Sensors # <<>>
  BY SimulatorAssumption
<1>2. DOMAIN Sensors = 1..Len(Sensors) /\ Len(Sensors) \in Nat \ {0}
  BY <1>1
<1> QED BY <1>2 DEF Id, Range

LEMMA Shipped_Typed == Shipped \in [Id -> Base]
BY DEF Shipped, Base

LEMMA ApplyTyped ==
  ASSUME NEW b \in [Id -> Base], NEW section \in SectionName, NEW c \in Config
  PROVE  Apply(b, section, c) \in [Id -> Base]
<1>1. c["up"] \in Int /\ c["down"] \in Int /\ c["perm"] \in Int
  BY DEF Config, Field
<1>2. ASSUME NEW s, NEW v \in Int PROVE Replaced(b, s, v) \in [Id -> Base]
  <2>1. [of |-> v, by |-> <<>>] \in Base
    BY DEF Base
  <2> QED BY <2>1 DEF Replaced
<1>3. ASSUME NEW v \in Int PROVE PZByUpstreamWL(b, v) \in [Id -> Base]
  <2>1. [of |-> v, by |-> <<>>] \in Base
    BY DEF Base
  <2> QED BY <2>1 DEF PZByUpstreamWL
<1>4. ASSUME NEW v \in Int PROVE PZByPermeability(b, v) \in [Id -> Base]
  <2>1. ASSUME NEW s \in Id PROVE [b[s] EXCEPT !.by = Append(b[s].by, v)] \in Base
    <3>1. b[s] \in Base /\ b[s].by \in Seq(Int)
      BY DEF Base
    <3>2. Append(b[s].by, v) \in Seq(Int)
      BY <3>1
    <3> QED BY <3>1, <3>2 DEF Base
  <2> QED BY <2>1 DEF PZByPermeability
<1>5. CASE section = "WL-001"
  BY <1>1, <1>2, <1>5 DEF Apply
<1>6. CASE section = "PZ level"
  BY <1>1, <1>3, <1>6 DEF Apply
<1>7. CASE section = "WL-002"
  BY <1>1, <1>2, <1>7 DEF Apply
<1>8. CASE section = "SM-001"
  BY <1>1, <1>2, <1>8 DEF Apply
<1>9. CASE section = "PZ factor"
  BY <1>1, <1>4, <1>9 DEF Apply
<1> QED BY <1>5, <1>6, <1>7, <1>8, <1>9 DEF SectionName

LEMMA OverridesTyped ==
  ASSUME NEW c \in Config PROVE ConfigOverrides(c) \in [Id -> Base]
<1> DEFINE Set(b, f, section) == IF c[f] >= 0 THEN Apply(b, section, c) ELSE b
           up   == Set(Set(Shipped, "up", "WL-001"), "up", "PZ level")
           down == Set(up, "down", "WL-002")
<1>1. ASSUME NEW b \in [Id -> Base], NEW f, NEW section \in SectionName
      PROVE  Set(b, f, section) \in [Id -> Base]
  BY ApplyTyped
<1>2. ConfigOverrides(c) = Set(Set(down, "perm", "SM-001"), "perm", "PZ factor")
  BY DEF ConfigOverrides
<1> HIDE DEF Set
<1>3. up \in [Id -> Base]
  BY <1>1, Shipped_Typed DEF SectionName
<1> HIDE DEF up
<1>4. down \in [Id -> Base]
  BY <1>1, <1>3 DEF SectionName
<1> HIDE DEF down
<1>5. Set(down, "perm", "SM-001") \in [Id -> Base]
  BY <1>1, <1>4 DEF SectionName
<1>6. Set(Set(down, "perm", "SM-001"), "perm", "PZ factor") \in [Id -> Base]
  BY <1>1, <1>5 DEF SectionName
<1> QED BY <1>2, <1>6

LEMMA PairOrNothing ==
  ASSUME NEW S, NEW x \in S, NEW y \in S, NEW t, t = <<x, y>> \/ t = <<>>
  PROVE  t \in Seq(S) /\ Len(t) \in Nat /\ Len(t) <= 2
<1>1. CASE t = <<x, y>>
  BY <1>1
<1>2. CASE t = <<>>
  <2>1. t \in Seq(S)
    BY <1>2
  <2>2. Len(t) = 0
    BY <1>2
  <2> QED BY <2>1, <2>2
<1> QED BY <1>1, <1>2

LEMMA SectionsTyped ==
  ASSUME NEW F
  PROVE  Sections(F) \in Seq(SectionName) /\ Len(Sections(F)) <= 5
<1> DEFINE a == IF "up" \in F THEN <<"WL-001", "PZ level">> ELSE <<>>
           b == IF "down" \in F THEN <<"WL-002">> ELSE <<>>
           c == IF "perm" \in F THEN <<"SM-001", "PZ factor">> ELSE <<>>
<1>1. a \in Seq(SectionName) /\ Len(a) \in Nat /\ Len(a) <= 2
  <2>1. a = <<"WL-001", "PZ level">> \/ a = <<>>
    BY Zenon
  <2>2. "WL-001" \in SectionName /\ "PZ level" \in SectionName
    BY DEF SectionName
  <2> QED BY <2>1, <2>2, PairOrNothing, Zenon
<1>2. b \in Seq(SectionName) /\ Len(b) \in Nat /\ Len(b) <= 1
  <2>1. <<"WL-002">> \in Seq(SectionName) /\ Len(<<"WL-002">>) = 1
    BY DEF SectionName
  <2>2. <<>> \in Seq(SectionName) /\ Len(<<>>) = 0
    OBVIOUS
  <2>3. CASE "down" \in F  BY <2>1, <2>3
  <2>4. CASE "down" \notin F  BY <2>2, <2>4
  <2> QED BY <2>3, <2>4
<1>3. c \in Seq(SectionName) /\ Len(c) \in Nat /\ Len(c) <= 2
  <2>1. c = <<"SM-001", "PZ factor">> \/ c = <<>>
    BY Zenon
  <2>2. "SM-001" \in SectionName /\ "PZ factor" \in SectionName
    BY DEF SectionName
  <2> QED BY <2>1, <2>2, PairOrNothing, Zenon
<1>4. Sections(F) = a \o b \o c
  BY DEF Sections
<1> HIDE DEF a, b, c
<1>5. a \o b \in Seq(SectionName) /\ Len(a \o b) = Len(a) + Len(b)
  BY <1>1, <1>2
<1>6. (a \o b) \o c \in Seq(SectionName) /\ Len((a \o b) \o c) = Len(a \o b) + Len(c)
  BY <1>3, <1>5
<1> QED BY <1>1, <1>2, <1>3, <1>4, <1>5, <1>6

LEMMA MergeTyped ==
  ASSUME NEW old \in Config, NEW r \in Req, NEW b \in Bodies[r]
  PROVE  Merge(old, b) \in Config
<1>1. \A f \in DOMAIN b : b[f] \in Int
  BY SimulatorAssumption
<1>2. \A f \in Field : Decode(b)[f] \in Int
  BY <1>1 DEF Decode
<1> QED BY <1>2 DEF Merge, Config

\* The operations on mutexes.
LEMMA LocksTyped ==
  ASSUME Shape, NEW m \in Mutex
  PROVE  /\ Released(m) \in [Mutex -> Lock]
         /\ \A p \in Proc : Announced(m, p) \in [Mutex -> Lock]
         /\ \A r \in Req : Entered(m, r) \in [Mutex -> Lock] /\ Left(m, r) \in [Mutex -> Lock]
<1>1. mu[m] \in Lock
  BY DEF Shape
<1>2. /\ [mu[m] EXCEPT !.writer = None] \in Lock
      /\ \A p \in Proc : [mu[m] EXCEPT !.writer = p] \in Lock
      /\ \A r \in Req : /\ [mu[m] EXCEPT !.readers = mu[m].readers \cup {r}] \in Lock
                        /\ [mu[m] EXCEPT !.readers = mu[m].readers \ {r}] \in Lock
  BY <1>1 DEF Lock
<1> QED BY <1>2 DEF Shape, Released, Announced, Entered, Left

----------------------------------------------------------------------------
(***************************************************************************)
(* The invariant holds at the start.                                       *)
(***************************************************************************)
LEMMA InvInit == ASSUME Init PROVE IInv
<1> USE SimulatorAssumption
<1>0. StartConfigs \subseteq Config
  BY DEF Config
<1>1. Shape
  <2>1. base \in [Id -> Base]
    BY <1>0, OverridesTyped DEF Init
  <2>2. mu \in [Mutex -> Lock]
    BY DEF Init, Unlocked, Lock
  <2>3. pos \in 1..Len(Sensors)
    BY SensorsTyped DEF Init
  <2>4. pc \in [Proc -> Labels]
    BY DEF Init, Labels
  <2>5. todo \in [Req -> Seq(SectionName)] /\ \A r \in Req : Len(todo[r]) <= 5
    BY DEF Init
  <2>6. payload \in Batch
    BY DEF Init, Batch
  <2>7. /\ cfg \in Config /\ merged \in [Req -> Config]
        /\ latest \in [Id -> Proc \cup {None}] /\ newest = latest
        /\ wanted \in [Req -> Id \cup {None}]
    BY <1>0 DEF Init
  <2>8. /\ DOMAIN posted = Req
        /\ \A r \in Req : posted[r] \in Bodies[r] \cup {<<>>}
    BY DEF Init
  <2>9. factors \in Seq(Int)
    <3>1. cfg["perm"] \in Int
      BY <2>7 DEF Config, Field
    <3>2. <<cfg["perm"]>> \in Seq(Int) /\ <<>> \in Seq(Int)
      BY <3>1
    <3> QED BY <3>2 DEF Init
  <2> QED BY <2>1, <2>2, <2>3, <2>4, <2>5, <2>6, <2>7, <2>8, <2>9 DEF Init, Shape
<1>2. Exclusive
  <2>1. \A p \in Proc : pc[p] \in {"read", "new"}
    BY DEF Init
  <2>2. mu["sensorMu"].writer = None
    BY DEF Init, Unlocked, Mutex
  <2> QED BY <2>1, <2>2 DEF Exclusive, Sampling, Triggering, Proc
<1>3. Fresh
  BY DEF Init, Fresh, Proc
<1>4. Made
  BY SensorsTyped DEF Init, Made, ReadAtOnce, Proc
<1> QED BY <1>1, <1>2, <1>3, <1>4 DEF IInv

----------------------------------------------------------------------------
(***************************************************************************)
(* The invariant holds in every step.                                      *)
(***************************************************************************)
\* What Released and the like do to the writers.
LEMMA Writers ==
  ASSUME Shape, NEW m \in Mutex, NEW n \in Mutex
  PROVE  /\ Released(m)[n].writer = IF n = m THEN None ELSE mu[n].writer
         /\ \A p \in Proc : Announced(m, p)[n].writer = IF n = m THEN p ELSE mu[n].writer
         /\ \A r \in Req : /\ Entered(m, r)[n].writer = mu[n].writer
                           /\ Left(m, r)[n].writer = mu[n].writer
<1>1. mu[m] \in Lock /\ mu[n] \in Lock /\ DOMAIN mu = Mutex
  BY DEF Shape
<1>2. /\ [mu[m] EXCEPT !.writer = None].writer = None
      /\ \A p \in Proc : [mu[m] EXCEPT !.writer = p].writer = p
      /\ \A r \in Req :
           /\ [mu[m] EXCEPT !.readers = mu[m].readers \cup {r}].writer = mu[m].writer
           /\ [mu[m] EXCEPT !.readers = mu[m].readers \ {r}].writer = mu[m].writer
  BY <1>1 DEF Lock
<1> QED BY <1>1, <1>2 DEF Released, Announced, Entered, Left

\* A step that neither takes nor gives up sensorMu, makes no reading and
\* changes no sensor.
LEMMA QuietStep ==
  ASSUME IInv, Shape',
         mu'["sensorMu"].writer = mu["sensorMu"].writer,
         UNCHANGED <<base, latest, newest, pos>>,
         \/ pc'["sampler"] = pc["sampler"] /\ payload' = payload
         \/ ~ Sampling /\ ~ Sampling' /\ payload' \in {payload, <<>>},
         \A r \in Req : /\ Triggering(r)' <=> Triggering(r)
                        /\ pc'[r] = "store" <=> pc[r] = "store"
                        /\ pc[r] = "store" => wanted'[r] = wanted[r]
  PROVE  IInv'
<1>1. Shape /\ Exclusive /\ Fresh /\ Made
  BY DEF IInv
<1>2. Exclusive'
  BY <1>1 DEF Exclusive, Sampling
<1>3. Fresh'
  BY <1>1 DEF Fresh, Sampling
<1>4. Made'
  <2>1. CASE pc'["sampler"] = pc["sampler"] /\ payload' = payload
    BY <1>1, <2>1 DEF Made, ReadAtOnce
  <2>2. CASE ~ Sampling /\ ~ Sampling' /\ payload' \in {payload, <<>>}
    BY <1>1, <2>2, SensorsTyped DEF Made, ReadAtOnce, Sampling
  <2> QED BY <2>1, <2>2
<1> QED BY <1>2, <1>3, <1>4 DEF IInv

LEMMA PostStep ==
  ASSUME IInv, NEW r \in Req, PostMerge(r) \/ PostLock(r) \/ PostSwap(r)
  PROVE  IInv'
<1> USE SimulatorAssumption DEF Mutex, Proc
<1>1. Shape
  BY DEF IInv
<1>2. CASE PostMerge(r)
  <2>1. PICK b \in Bodies[r] : /\ posted' = [posted EXCEPT ![r] = b]
                               /\ merged' = [merged EXCEPT ![r] = Merge(cfg, b)]
    BY <1>2 DEF PostMerge
  <2>2. Merge(cfg, b) \in Config
    BY <1>1, MergeTyped DEF Shape
  <2>3. merged' \in [Req -> Config]
    BY <1>1, <2>1, <2>2 DEF Shape
  <2>4. DOMAIN posted' = Req /\ \A q \in Req : posted'[q] \in Bodies[q] \cup {<<>>}
    BY <1>1, <2>1 DEF Shape
  <2>5. pc' \in [Proc -> Labels]
    BY <1>1, <1>2 DEF Shape, PostMerge, Goto, Labels
  <2>6. overlapped' \in BOOLEAN
    BY <1>1, <1>2 DEF Shape, PostMerge
  <2>7. Shape'
    BY <1>1, <1>2, <2>3, <2>4, <2>5, <2>6 DEF Shape, PostMerge
  <2> QED BY <1>1, <1>2, <2>7, QuietStep DEF PostMerge, Goto, Shape, Triggering
<1>3. CASE PostLock(r)
  <2>1. mu' \in [Mutex -> Lock] /\ mu'["sensorMu"].writer = mu["sensorMu"].writer
    BY <1>1, <1>3, LocksTyped, Writers DEF PostLock
  <2>2. Shape'
    BY <1>1, <1>3, <2>1 DEF Shape, PostLock, Goto, Labels
  <2> QED BY <1>1, <1>3, <2>1, <2>2, QuietStep DEF PostLock, Goto, Shape, Triggering
<1>4. CASE PostSwap(r)
  <2>1. mu' \in [Mutex -> Lock] /\ mu'["sensorMu"].writer = mu["sensorMu"].writer
    BY <1>1, <1>4, LocksTyped, Writers DEF PostSwap, UnlockConfig
  <2>2. /\ Sections(Changed(merged[r], cfg)) \in Seq(SectionName)
        /\ Len(Sections(Changed(merged[r], cfg))) <= 5
    BY SectionsTyped
  <2>3. todo' \in [Req -> Seq(SectionName)] /\ \A q \in Req : Len(todo'[q]) <= 5
    BY <1>1, <1>4, <2>2 DEF Shape, PostSwap
  <2>4. factors' \in Seq(Int)
    <3> DEFINE kept  == IF merged[r]["up"] = cfg["up"] THEN factors ELSE <<>>
               added == IF merged[r]["perm"] = cfg["perm"]
                        THEN <<>> ELSE <<merged[r]["perm"]>>
    <3>1. merged[r]["perm"] \in Int
      BY <1>1 DEF Shape, Config, Field
    <3>2. <<merged[r]["perm"]>> \in Seq(Int) /\ <<>> \in Seq(Int)
      BY <3>1
    <3>3. kept \in Seq(Int) /\ added \in Seq(Int)
      BY <1>1, <3>2 DEF Shape
    <3>4. factors' = kept \o added
      BY <1>4 DEF PostSwap
    <3> HIDE DEF kept, added
    <3> QED BY <3>3, <3>4
  <2>5. Shape'
    BY <1>1, <1>4, <2>1, <2>3, <2>4 DEF Shape, PostSwap, Goto, Labels
  <2> QED BY <1>1, <1>4, <2>1, <2>5, QuietStep DEF PostSwap, Goto, Shape, Triggering
<1> QED BY <1>2, <1>3, <1>4

LEMMA PostApplyStep ==
  ASSUME IInv, NEW r \in Req, PostApply(r) PROVE IInv'
<1> USE SimulatorAssumption DEF Mutex, Proc
<1>1. Shape /\ Exclusive /\ Fresh /\ Made
  BY DEF IInv
<1>2. todo[r] \in Seq(SectionName) /\ todo[r] # <<>> /\ Len(todo[r]) <= 5
  BY <1>1 DEF Shape, PostApply
<1>3. /\ Head(todo[r]) \in SectionName
      /\ Tail(todo[r]) \in Seq(SectionName) /\ Len(Tail(todo[r])) <= 5
  BY <1>2
<1>4. base' \in [Id -> Base]
  BY <1>1, <1>3, ApplyTyped DEF Shape, PostApply
<1>5. todo' \in [Req -> Seq(SectionName)] /\ \A q \in Req : Len(todo'[q]) <= 5
  BY <1>1, <1>3 DEF Shape, PostApply
<1>6. Shape'
  BY <1>1, <1>4, <1>5 DEF Shape, PostApply
<1>7. ~ Sampling
  BY <1>1 DEF Exclusive, PostApply, SensorsFree
<1>8. Exclusive' /\ Fresh'
  BY <1>1 DEF PostApply, Exclusive, Sampling, Triggering, Fresh
<1>9. Made'
  BY <1>1, <1>7 DEF PostApply, Made, ReadAtOnce, Sampling
<1> QED BY <1>6, <1>8, <1>9 DEF IInv

LEMMA ReplyStep ==
  ASSUME IInv, NEW r \in Req, ReplyLock(r) \/ ReplyEnd(r) PROVE IInv'
<1> USE SimulatorAssumption DEF Mutex, Proc
<1>1. Shape
  BY DEF IInv
<1>2. ReadMutex(r) \in Mutex
  BY DEF ReadMutex
<1>3. CASE ReplyLock(r)
  <2>1. mu' \in [Mutex -> Lock] /\ mu'["sensorMu"].writer = mu["sensorMu"].writer
    BY <1>1, <1>2, <1>3, LocksTyped, Writers DEF ReplyLock
  <2>2. Shape'
    BY <1>1, <1>3, <2>1 DEF Shape, ReplyLock, Goto, Labels
  <2> QED BY <1>1, <1>3, <2>1, <2>2, QuietStep DEF ReplyLock, Goto, Shape, Triggering
<1>4. CASE ReplyEnd(r)
  <2>1. mu' \in [Mutex -> Lock] /\ mu'["sensorMu"].writer = mu["sensorMu"].writer
    BY <1>1, <1>2, <1>4, LocksTyped, Writers DEF ReplyEnd
  <2>2. Shape'
    BY <1>1, <1>4, <2>1 DEF Shape, ReplyEnd, Goto, Labels
  <2> QED BY <1>1, <1>4, <2>1, <2>2, QuietStep DEF ReplyEnd, Goto, Shape, Triggering
<1> QED BY <1>3, <1>4

\* The steps of a trigger that leave sensorMu where it is, and the panics.
LEMMA TriggerQuietStep ==
  ASSUME IInv, NEW r \in Req,
         TriggerUnknown(r) \/ TriggerReadConfig(r) \/ HandlerPanic(r) \/ SamplerPanic(r)
  PROVE  IInv'
<1> USE SimulatorAssumption DEF Mutex, Proc
<1>1. Shape
  BY DEF IInv
<1>2. CASE TriggerUnknown(r)
  <2>1. Shape'
    BY <1>1, <1>2 DEF Shape, TriggerUnknown, Goto, Labels
  <2> QED BY <1>1, <1>2, <2>1, QuietStep DEF TriggerUnknown, Goto, Shape, Triggering
<1>3. CASE TriggerReadConfig(r)
  <2>1. Shape'
    BY <1>1, <1>3 DEF Shape, TriggerReadConfig, Goto, Labels
  <2> QED BY <1>1, <1>3, <2>1, QuietStep DEF TriggerReadConfig, Goto, Shape, Triggering
<1>4. CASE HandlerPanic(r)
  <2>1. Shape'
    BY <1>1, <1>4 DEF Shape, HandlerPanic, Goto, Labels
  <2> QED
    BY <1>1, <1>4, <2>1, QuietStep DEF HandlerPanic, Racing, Goto, Shape, Triggering
<1>5. CASE SamplerPanic(r)
  <2>1. Shape'
    BY <1>1, <1>5 DEF Shape, SamplerPanic, Goto, Labels
  <2>2. ~ Sampling /\ ~ Sampling'
    BY <1>1, <1>5 DEF SamplerPanic, Racing, Goto, Sampling, Shape
  <2> QED
    BY <1>1, <1>5, <2>1, <2>2, QuietStep DEF SamplerPanic, Goto, Shape, Triggering
<1> QED BY <1>2, <1>3, <1>4, <1>5

LEMMA TriggerFoundStep ==
  ASSUME IInv, NEW r \in Req, TriggerFound(r) PROVE IInv'
<1> USE SimulatorAssumption DEF Mutex, Proc
<1>1. Shape /\ Exclusive /\ Fresh /\ Made
  BY DEF IInv
<1>2. PICK s \in Id : /\ wanted' = [wanted EXCEPT ![r] = s]
                      /\ newest' = [newest EXCEPT ![s] = r]
  BY DEF TriggerFound
<1>3. mu' \in [Mutex -> Lock] /\ mu'["sensorMu"].writer = r
  <2>1. \A m \in Mutex : mu'[m] = IF m = "cfgMu" THEN mu[m] ELSE Announced(m, r)[m]
    BY DEF TriggerFound, TriggerHolds
  <2>2. \A m \in Mutex : Announced(m, r)[m] \in Lock /\ Announced(m, r)[m].writer = r
    BY <1>1, LocksTyped, Writers
  <2>3. mu' = [m \in Mutex |-> IF m = "cfgMu" THEN mu[m] ELSE Announced(m, r)[m]]
    BY DEF TriggerFound, TriggerHolds
  <2> QED BY <1>1, <2>1, <2>2, <2>3 DEF Shape
<1>4. Shape'
  BY <1>1, <1>2, <1>3 DEF Shape, TriggerFound, Goto, Labels
<1>5. mu["sensorMu"].writer = None
  BY DEF TriggerFound, SensorsFree
<1>6. ~ Sampling /\ \A q \in Req : ~ Triggering(q) /\ pc[q] # "store"
  BY <1>1, <1>5 DEF Exclusive, Triggering
<1>7. /\ pc'[r] = "store" /\ Kind[r] = "trigger" /\ pc'["sampler"] = pc["sampler"]
      /\ \A q \in Req \ {r} : pc'[q] = pc[q] /\ wanted'[q] = wanted[q]
      /\ wanted'[r] = s
  BY <1>1, <1>2 DEF TriggerFound, Goto, Shape
<1>8. Exclusive'
  BY ZenonT(30), <1>1, <1>3, <1>6, <1>7 DEF Exclusive, Sampling, Triggering
<1>9. Fresh'
  <2>1. \A t \in Id : latest[t] = newest[t]
    BY <1>1, <1>6 DEF Fresh, Sampling
  <2>2. \A t \in Id : t # s => newest'[t] = newest[t]
    BY <1>1, <1>2 DEF Shape
  <2> QED BY <1>6, <1>7, <2>1, <2>2 DEF Fresh, TriggerFound, Sampling
<1>10. Made'
  BY <1>1, <1>7 DEF TriggerFound, Made, ReadAtOnce
<1> QED BY <1>4, <1>8, <1>9, <1>10 DEF IInv

LEMMA TriggerStoreStep ==
  ASSUME IInv, NEW r \in Req, TriggerStore(r) PROVE IInv'
<1> USE SimulatorAssumption DEF Mutex, Proc
<1>1. Shape /\ Exclusive /\ Fresh /\ Made
  BY DEF IInv
<1>2. wanted[r] \in Id /\ pc[r] = "store" /\ Kind[r] = "trigger"
  BY <1>1 DEF TriggerStore, Exclusive
<1>3. mu' \in [Mutex -> Lock] /\ mu'["sensorMu"].writer = mu["sensorMu"].writer
  BY <1>1, LocksTyped, Writers DEF TriggerStore
<1>4. latest' = [latest EXCEPT ![wanted[r]] = newest[wanted[r]]] /\ newest' = newest
  BY DEF TriggerStore
<1>5. Shape'
  BY <1>1, <1>2, <1>3, <1>4 DEF Shape, TriggerStore, Goto, Labels
<1>6. /\ pc'[r] = "dtu" /\ pc'["sampler"] = pc["sampler"]
      /\ \A q \in Req \ {r} : pc'[q] = pc[q]
      /\ UNCHANGED <<wanted, base, pos, payload>>
  BY <1>1 DEF TriggerStore, Goto, Shape
<1>7. Exclusive'
  BY ZenonT(30), <1>1, <1>2, <1>3, <1>6 DEF Exclusive, Sampling, Triggering
<1>8. Fresh'
  <2>1. \A t \in Id : latest'[t] = IF t = wanted[r] THEN newest[t] ELSE latest[t]
    BY <1>1, <1>2, <1>4 DEF Shape
  <2> QED BY <1>1, <1>2, <1>4, <1>6, <2>1 DEF Fresh
<1>9. Made'
  BY <1>1, <1>6 DEF Made, ReadAtOnce
<1> QED BY <1>5, <1>7, <1>8, <1>9 DEF IInv

LEMMA TriggerSendStep ==
  ASSUME IInv, NEW r \in Req, TriggerSend(r) PROVE IInv'
<1> USE SimulatorAssumption DEF Mutex, Proc
<1>1. Shape /\ Exclusive /\ Fresh /\ Made
  BY DEF IInv
<1>2. mu' \in [Mutex -> Lock] /\ mu'["sensorMu"].writer = None
  BY <1>1, LocksTyped, Writers DEF TriggerSend
<1>3. Shape'
  BY <1>1, <1>2 DEF Shape, TriggerSend, Goto, Labels
<1>4. /\ pc[r] = "draw" /\ Kind[r] = "trigger" /\ mu["sensorMu"].writer = r
      /\ pc'[r] = "done" /\ pc'["sampler"] = pc["sampler"]
      /\ \A q \in Req \ {r} : pc'[q] = pc[q] /\ wanted'[q] = wanted[q]
      /\ UNCHANGED <<base, pos, payload, latest, newest>>
  BY <1>1 DEF TriggerSend, Goto, Shape, Exclusive, Triggering
<1>5. Exclusive'
  <2>1. ~ Sampling /\ \A q \in Req \ {r} : ~ Triggering(q)
    BY <1>1, <1>4 DEF Exclusive
  <2>2. (Sampling <=> mu["sensorMu"].writer = "sampler")'
    BY <1>2, <1>4, <2>1 DEF Sampling
  <2>3. ~ Triggering(r)'
    BY <1>4 DEF Triggering
  <2>4. \A q \in Req \ {r} : ~ Triggering(q)'
    BY <1>4, <2>1 DEF Triggering
  <2>5. \A q \in Req : q # None
    OBVIOUS
  <2>6. (\A q \in Req : pc[q] = "store" => Kind[q] = "trigger" /\ wanted[q] \in Id)'
    BY <1>1, <1>4 DEF Exclusive
  <2> QED BY <1>2, <2>2, <2>3, <2>4, <2>5, <2>6 DEF Exclusive
<1>6. Fresh'
  <2>1. \A q \in Req : pc[q] = "store" => pc'[q] = "store" /\ wanted'[q] = wanted[q]
    BY <1>4
  <2>2. \A s \in Id : latest[s] # newest[s] =>
          \/ pc["sampler"] = "store" /\ s = Sensors[pos]
          \/ \E q \in Req : pc'[q] = "store" /\ s = wanted'[q]
    BY <1>1, <2>1 DEF Fresh
  <2> QED BY <1>1, <1>4, <2>2 DEF Fresh
<1>7. Made'
  BY <1>1, <1>4 DEF Made, ReadAtOnce
<1> QED BY <1>3, <1>5, <1>6, <1>7 DEF IInv

\* The steps of the sampling loop outside its batch.
LEMMA SamplerQuietStep ==
  ASSUME IInv, SampleReadConfig \/ SampleSend PROVE IInv'
<1> USE SimulatorAssumption DEF Mutex, Proc
<1>1. Shape
  BY DEF IInv
<1>2. /\ pc["sampler"] \in {"read", "send"} /\ pc'["sampler"] \in {"draw", "read"}
      /\ \A q \in Req : pc'[q] = pc[q]
      /\ payload' \in {payload, <<>>}
      /\ UNCHANGED <<cfg, base, latest, mu, posted, wanted, merged, todo, pos, newest,
                     overlapped, factors>>
  BY <1>1 DEF SampleReadConfig, SampleSend, NewBatch, Goto, Shape
<1>3. payload' \in Batch
  <2>1. <<>> \in Seq(Base) /\ payload \in Seq(Base)
    BY <1>1 DEF Shape, Batch
  <2>2. CASE payload' = payload  BY <2>1, <2>2 DEF Batch
  <2>3. CASE payload' = <<>>  BY <2>1, <2>3 DEF Batch
  <2> QED BY <1>2, <2>2, <2>3
<1>4. pc' \in [Proc -> Labels]
  BY <1>1 DEF SampleReadConfig, SampleSend, Goto, Shape, Labels
<1>5. Shape'
  BY <1>1, <1>2, <1>3, <1>4 DEF Shape
<1> QED BY <1>2, <1>5, QuietStep DEF Sampling, Triggering

LEMMA SampleDrawStep == ASSUME IInv, SampleDraw PROVE IInv'
<1> USE SimulatorAssumption DEF Mutex, Proc
<1>1. Shape /\ Exclusive /\ Fresh /\ Made
  BY DEF IInv
<1>2. mu' \in [Mutex -> Lock] /\ mu'["sensorMu"].writer = "sampler"
  BY <1>1, LocksTyped, Writers DEF SampleDraw
<1>3. /\ pc["sampler"] = "draw" /\ pc'["sampler"] = "make"
      /\ \A q \in Req : pc'[q] = pc[q]
      /\ payload' = <<>> /\ pos' = 1
      /\ mu["sensorMu"].writer = None
      /\ UNCHANGED <<cfg, base, latest, posted, wanted, merged, todo, newest, overlapped,
                     factors>>
  BY <1>1 DEF SampleDraw, NewBatch, SensorsFree, Goto, Shape
<1>4. Shape'
  <2>1. payload' \in Batch /\ pos' \in 1..Len(Sensors)
    BY <1>3, SensorsTyped DEF Batch
  <2>2. pc' \in [Proc -> Labels]
    BY <1>1 DEF SampleDraw, Goto, Shape, Labels
  <2> QED BY <1>1, <1>2, <1>3, <2>1, <2>2 DEF Shape
<1>5. Exclusive'
  BY <1>1, <1>2, <1>3 DEF Exclusive, Sampling, Triggering
<1>6. Fresh'
  <2>1. \A t \in Id : latest[t] # newest[t] => \E r \in Req : pc[r] = "store" /\ t = wanted[r]
    BY <1>1, <1>3 DEF Fresh
  <2>2. \A t \in Id : latest'[t] # newest'[t] =>
          \E r \in Req : pc'[r] = "store" /\ t = wanted'[r]
    BY <1>3, <2>1
  <2> QED BY <1>3, <2>2 DEF Fresh
<1>7. Made'
  BY <1>3, SensorsTyped DEF Made, ReadAtOnce
<1> QED BY <1>4, <1>5, <1>6, <1>7 DEF IInv

LEMMA SampleMakeStep == ASSUME IInv, SampleMake PROVE IInv'
<1> USE SimulatorAssumption DEF Mutex, Proc
<1>1. Shape /\ Exclusive /\ Fresh /\ Made
  BY DEF IInv
<1> DEFINE s == Sensors[pos]
<1>2. s \in Id /\ base[s] \in Base /\ pos \in 1..Len(Sensors)
  BY <1>1, SensorsTyped DEF Shape
<1>3. mu' \in [Mutex -> Lock] /\ mu'["sensorMu"].writer = mu["sensorMu"].writer
  BY <1>1, LocksTyped, Writers DEF SampleMake
<1>4. /\ pc["sampler"] = "make" /\ pc'["sampler"] = "store"
      /\ \A q \in Req : pc'[q] = pc[q]
      /\ payload' = Append(payload, base[s])
      /\ newest' = [newest EXCEPT ![s] = "sampler"]
      /\ UNCHANGED <<cfg, base, latest, posted, wanted, merged, todo, pos, overlapped,
                     factors>>
  BY <1>1 DEF SampleMake, Goto, Shape
<1> HIDE DEF s
<1>5. payload \in Seq(Base) /\ Len(payload) = pos - 1 /\ Len(payload) \in Nat
  BY <1>1, <1>4 DEF Shape, Batch, Made
<1>6. /\ payload' \in Seq(Base) /\ Len(payload') = Len(payload) + 1
      /\ \A i \in 1..Len(payload) : payload'[i] = payload[i]
      /\ payload'[Len(payload) + 1] = base[s]
  BY <1>2, <1>4, <1>5
<1>7. Shape'
  <2>1. pc' \in [Proc -> Labels]
    BY <1>1 DEF SampleMake, Goto, Shape, Labels
  <2>2. newest' \in [Id -> Proc \cup {None}]
    BY <1>1, <1>2, <1>4 DEF Shape
  <2> QED BY <1>1, <1>3, <1>4, <1>6, <2>1, <2>2 DEF Shape, Batch
<1>8. Exclusive'
  BY <1>1, <1>3, <1>4 DEF Exclusive, Sampling, Triggering
<1>9. Fresh'
  <2>1. newest'[s] = "sampler" /\ \A t \in Id : t # s => newest'[t] = newest[t]
    BY <1>1, <1>2, <1>4 DEF Shape
  <2>2. \A t \in Id : latest[t] # newest[t] => \E r \in Req : pc[r] = "store" /\ t = wanted[r]
    BY <1>1, <1>4 DEF Fresh
  <2>3. \A t \in Id : t # s /\ latest'[t] # newest'[t] =>
          \E r \in Req : pc'[r] = "store" /\ t = wanted'[r]
    <3> SUFFICES ASSUME NEW t \in Id, t # s, latest'[t] # newest'[t]
                 PROVE  \E r \in Req : pc'[r] = "store" /\ t = wanted'[r]
      OBVIOUS
    <3>1. latest' = latest /\ wanted' = wanted /\ \A q \in Req : pc'[q] = pc[q]
      BY <1>4
    <3>2. latest[t] # newest[t]
      BY <2>1, <3>1
    <3>3. PICK r \in Req : pc[r] = "store" /\ t = wanted[r]
      BY <2>2, <3>2
    <3> QED BY <3>1, <3>3
  <2>4. pos' = pos /\ s = Sensors[pos']
    BY <1>4 DEF s
  <2> QED BY <1>4, <2>1, <2>3, <2>4 DEF Fresh
<1>10. Made'
  <2>1. \A i \in 1..Len(payload') : payload'[i] = base'[Sensors[i]]
    <3> TAKE i \in 1..Len(payload')
    <3>1. CASE i \in 1..Len(payload)
      BY <1>1, <1>4, <1>6, <3>1 DEF Made, ReadAtOnce
    <3>2. CASE i = Len(payload) + 1
      BY <1>2, <1>4, <1>5, <1>6, <3>2 DEF s
    <3> QED BY <1>5, <1>6, <3>1, <3>2
  <2>2. Len(payload') = pos /\ Len(payload') <= Len(Sensors)
    BY <1>2, <1>5, <1>6, SensorsTyped
  <2> QED BY <1>4, <2>1, <2>2 DEF Made, ReadAtOnce
<1> QED BY <1>7, <1>8, <1>9, <1>10 DEF IInv

LEMMA SampleStoreStep == ASSUME IInv, SampleStore PROVE IInv'
<1> USE SimulatorAssumption DEF Mutex, Proc
<1>1. Shape /\ Exclusive /\ Fresh /\ Made
  BY DEF IInv
<1> DEFINE s == Sensors[pos]
           last == pos = Len(Sensors)
<1>2. s \in Id /\ pos \in 1..Len(Sensors) /\ Len(Sensors) \in Nat
  BY <1>1, SensorsTyped DEF Shape
<1>3. /\ pc["sampler"] = "store"
      /\ pc'["sampler"] = IF last THEN "send" ELSE "make"
      /\ \A q \in Req : pc'[q] = pc[q]
      /\ latest' = [latest EXCEPT ![s] = "sampler"]
      /\ pos' = IF last THEN pos ELSE pos + 1
      /\ UNCHANGED <<cfg, base, posted, wanted, merged, todo, payload, newest,
                     overlapped, factors>>
  BY <1>1 DEF SampleStore, Goto, Shape
<1>4. /\ mu' \in [Mutex -> Lock]
      /\ mu'["sensorMu"].writer = IF last THEN None ELSE mu["sensorMu"].writer
  <2>1. mu' = [m \in Mutex |-> IF m = "latestMu" \/ (m = "sensorMu" /\ last)
                               THEN Released(m)[m] ELSE mu[m]]
    BY DEF SampleStore
  <2>2. \A m \in Mutex : Released(m)[m] \in Lock /\ Released(m)[m].writer = None
    BY <1>1, LocksTyped, Writers
  <2> HIDE DEF last
  <2>3. mu \in [Mutex -> Lock]
    BY <1>1 DEF Shape
  <2> QED BY <2>1, <2>2, <2>3
<1>5. Shape'
  <2>1. pc' \in [Proc -> Labels]
    BY <1>1 DEF SampleStore, Goto, Shape, Labels
  <2>2. latest' \in [Id -> Proc \cup {None}]
    BY <1>1, <1>2, <1>3 DEF Shape
  <2>3. pos' \in 1..Len(Sensors)
    BY <1>2, <1>3
  <2> QED BY <1>1, <1>3, <1>4, <2>1, <2>2, <2>3 DEF Shape
<1>6. mu["sensorMu"].writer = "sampler" /\ \A q \in Req : ~ Triggering(q) /\ pc[q] # "store"
  BY <1>1, <1>3 DEF Exclusive, Sampling, Triggering
<1>7. Exclusive'
  BY ZenonT(40), <1>1, <1>3, <1>4, <1>6 DEF Exclusive, Sampling, Triggering
<1>8. Fresh'
  <2>1. newest[s] = "sampler" /\ \A t \in Id : t # s => latest[t] = newest[t]
    BY <1>1, <1>3, <1>6 DEF Fresh
  <2>2. \A t \in Id : latest'[t] = IF t = s THEN "sampler" ELSE latest[t]
    BY <1>1, <1>2, <1>3 DEF Shape
  <2>3. \A t \in Id : latest'[t] = newest'[t]
    BY <1>3, <2>1, <2>2
  <2> QED BY <1>3, <2>3 DEF Fresh
<1>9. Made'
  BY <1>1, <1>2, <1>3 DEF Made, ReadAtOnce
<1> QED BY <1>5, <1>7, <1>8, <1>9 DEF IInv

LEMMA InvStep == ASSUME IInv, [Next]_vars PROVE IInv'
<1>1. ASSUME NEW r \in Req, Handler(r) PROVE IInv'
  BY <1>1, PostStep, PostApplyStep, ReplyStep, TriggerQuietStep, TriggerFoundStep,
     TriggerStoreStep, TriggerSendStep DEF Handler, HandlerWork
<1>2. CASE Sampler
  BY <1>2, SamplerQuietStep, SampleDrawStep, SampleMakeStep, SampleStoreStep DEF Sampler
<1>3. CASE UNCHANGED vars
  BY <1>3 DEF vars, IInv, Shape, Exclusive, Sampling, Triggering, Fresh, Made,
     ReadAtOnce
<1> QED BY <1>1, <1>2, <1>3, TriggerQuietStep DEF Next

LEMMA InvHolds == Spec => []IInv
BY InvInit, InvStep, PTL DEF Spec

----------------------------------------------------------------------------
(***************************************************************************)
(* What follows from the invariant.                                        *)
(***************************************************************************)
\* The simulator's state keeps its types, the index of the sampling loop stays
\* within the sensors, and a batch holds at most one reading of each.
THEOREM SimulatorTypeCorrect == Spec => []TypeOK
<1>1. IInv => TypeOK
  BY DEF IInv, Shape, Made, TypeOK, Config, Lock, Batch
<1> QED BY <1>1, InvHolds, PTL

\* Whoever made the last reading of a sensor, latest holds it as soon as
\* sensorMu is free, however triggers and the sampling loop interleave.
THEOREM LatestIsTheNewest == Spec => []LatestIsNewest
<1>1. ASSUME IInv PROVE LatestIsNewest
  <2> SUFFICES ASSUME mu["sensorMu"].writer = None PROVE latest = newest
    BY DEF LatestIsNewest
  <2>1. ~ Sampling /\ \A r \in Req : pc[r] # "store"
    BY <1>1, SimulatorAssumption DEF IInv, Exclusive, Triggering
  <2>2. \A s \in Id : latest[s] = newest[s]
    BY <1>1, <2>1 DEF IInv, Fresh, Sampling
  <2> QED BY <1>1, <2>2 DEF IInv, Shape
<1> QED BY <1>1, InvHolds, PTL

----------------------------------------------------------------------------
(***************************************************************************)
(* The sensors follow the settings.  P are the sections that an update has *)
(* still to make of the bases b, c the configuration it has set, and q the *)
(* permeabilities of `factors'.                                            *)
(***************************************************************************)
\* The section that sets the level a sensor follows.
Setter(s) == IF IsPiezometer(s) THEN "PZ level" ELSE s

\* Who has been set shows c.
Tracks(b, c, P) ==
  \A s \in Id, f \in Field :
    Follows(s, f) /\ c[f] >= 0 /\ Setter(s) \notin P => b[s].of = c[f]

\* The factors that the piezometers will carry when P is done.
Due(by, c, P) ==
  (IF "PZ level" \in P THEN <<>> ELSE by)
  \o (IF "PZ factor" \in P THEN <<c["perm"]>> ELSE <<>>)

Carries(b, c, q, P) ==
  \A s \in Id : IF IsPiezometer(s) THEN q = Due(b[s].by, c, P) ELSE b[s].by = <<>>

\* The sensors of the upstream level agree, but between its two sections.
OneLevel(b, P) ==
  ("WL-001" \in P <=> "PZ level" \in P) =>
    \A s, t \in Id : Follows(s, "up") /\ Follows(t, "up") => b[s].of = b[t].of

Agrees(b, c, q, P) == Tracks(b, c, P) /\ Carries(b, c, q, P) /\ OneLevel(b, P)

\* The sections come in the order of the code.
Rank(x) ==
  IF x = "WL-001" THEN 1 ELSE IF x = "PZ level" THEN 2
  ELSE IF x = "WL-002" THEN 3 ELSE IF x = "SM-001" THEN 4 ELSE 5

Ordered(t) == \A i, j \in 1..Len(t) : i < j => Rank(t[i]) < Rank(t[j])

\* What is left of an update that sets the configuration c.
Remaining(t, c) ==
  /\ Ordered(t)
  /\ "WL-001" \in Range(t) => "PZ level" \in Range(t)
  /\ "PZ level" \in Range(t) => c["up"] >= 0

\* While no two updates have overlapped there is one in progress at most.  Until
\* it has replaced the configuration the sensors agree with the old one, and what
\* it will not apply it does not change; from then on they agree with the new one
\* but for the sections to come.
Following ==
  ~overlapped =>
    /\ \A p, q \in Post : Updating(p) /\ Updating(q) => p = q
    /\ (\A r \in Post : pc[r] # "apply") => Agrees(base, cfg, factors, {})
    /\ \A r \in Post : pc[r] \in {"lock", "swap"} =>
         \A f \in Field : merged[r][f] = cfg[f] \/ merged[r][f] >= 0
    /\ \A r \in Post : pc[r] = "apply" =>
         /\ cfg = merged[r]
         /\ Remaining(todo[r], cfg)
         /\ Agrees(base, cfg, factors, Range(todo[r]))

\* A section sets what it stands for and leaves the rest as it was.
LEMMA ApplySets ==
  ASSUME NEW b \in [Id -> Base], NEW x \in SectionName, NEW c \in Config, NEW s \in Id
  PROVE  LET d == Apply(b, x, c)[s] IN
         /\ Setter(s) # x => d.of = b[s].of
         /\ \A f \in Field : Follows(s, f) /\ Setter(s) = x => d.of = c[f]
         /\ ~ IsPiezometer(s) /\ b[s].by = <<>> => d.by = <<>>
         /\ IsPiezometer(s) /\ x \notin {"PZ level", "PZ factor"} => d.by = b[s].by
         /\ IsPiezometer(s) /\ x = "PZ level" => d.by = <<>>
         /\ IsPiezometer(s) /\ x = "PZ factor" => d.by = Append(b[s].by, c["perm"])
<1> DEFINE d == Apply(b, x, c)[s]
<1>1. b[s] \in Base
  OBVIOUS
<1>2. \A v : [b[s] EXCEPT !.by = v].of = b[s].of /\ [b[s] EXCEPT !.by = v].by = v
  BY <1>1 DEF Base
<1>3. CASE x \in {"WL-001", "WL-002", "SM-001"}
  <2>1. PICK f \in Field : /\ d = Replaced(b, x, c[f])[s]
                           /\ \A g \in Field : Follows(x, g) => g = f
    BY <1>3 DEF Apply, Field, Follows, IsPiezometer
  <2>2. d = IF s = x THEN [of |-> c[f], by |-> <<>>] ELSE b[s]
    BY <2>1 DEF Replaced
  <2> HIDE DEF d
  <2>3. (s # x => d = b[s]) /\ (s = x => d.of = c[f] /\ d.by = <<>>)
    BY <2>2
  <2>4. (Setter(s) = x <=> s = x) /\ (IsPiezometer(s) => s # x)
    BY <1>3 DEF Setter, IsPiezometer
  <2> QED BY <1>3, <2>1, <2>3, <2>4 DEF d
<1>4. CASE x = "PZ level"
  <2>1. d = IF IsPiezometer(s) THEN [of |-> c["up"], by |-> <<>>] ELSE b[s]
    BY <1>4 DEF Apply, PZByUpstreamWL
  <2> HIDE DEF d
  <2>2. /\ IsPiezometer(s) => d.of = c["up"] /\ d.by = <<>>
        /\ ~ IsPiezometer(s) => d = b[s]
    BY <2>1
  <2>3. /\ IsPiezometer(s) => Setter(s) = x /\ \A f : Follows(s, f) => f = "up"
        /\ ~ IsPiezometer(s) => Setter(s) = s
        /\ \A f : Follows("PZ level", f) => FALSE
    BY <1>4 DEF Setter, IsPiezometer, Follows
  <2> QED BY <1>4, <2>2, <2>3 DEF d
<1>5. CASE x = "PZ factor"
  <2>1. d = IF IsPiezometer(s) THEN [b[s] EXCEPT !.by = Append(b[s].by, c["perm"])] ELSE b[s]
    BY <1>5 DEF Apply, PZByPermeability
  <2> HIDE DEF d
  <2>2. /\ d.of = b[s].of
        /\ IsPiezometer(s) => d.by = Append(b[s].by, c["perm"])
        /\ ~ IsPiezometer(s) => d = b[s]
    BY <1>2, <2>1
  <2>3. Follows(s, "up") \/ Follows(s, "down") \/ Follows(s, "perm") => Setter(s) # x
    BY <1>5 DEF Setter, IsPiezometer, Follows
  <2> QED BY <1>5, <2>2, <2>3 DEF d, Field
<1> QED BY <1>3, <1>4, <1>5 DEF SectionName

LEMMA TracksApply ==
  ASSUME NEW b \in [Id -> Base], NEW x \in SectionName, NEW c \in Config, NEW P,
         Tracks(b, c, P)
  PROVE  Tracks(Apply(b, x, c), c, P \ {x})
<1> SUFFICES ASSUME NEW s \in Id, NEW f \in Field, Follows(s, f), c[f] >= 0,
                    Setter(s) \notin P \ {x}
             PROVE  Apply(b, x, c)[s].of = c[f]
  BY DEF Tracks
<1>0. /\ Setter(s) # x => Apply(b, x, c)[s].of = b[s].of
      /\ Follows(s, f) /\ Setter(s) = x => Apply(b, x, c)[s].of = c[f]
  BY ZenonT(40), ApplySets
<1>1. CASE Setter(s) = x
  BY <1>0, <1>1
<1>2. CASE Setter(s) # x
  <2>1. b[s].of = c[f]
    BY <1>2 DEF Tracks
  <2> QED BY <1>0, <1>2, <2>1
<1> QED BY <1>1, <1>2

LEMMA AppendedIs ==
  ASSUME NEW t \in Seq(Int), NEW v \in Int
  PROVE  Append(t, v) = t \o <<v>> /\ Append(t, v) \in Seq(Int)
<1>1. /\ Append(t, v) \in Seq(Int) /\ t \o <<v>> \in Seq(Int)
      /\ Len(Append(t, v)) = Len(t) + 1 /\ Len(t \o <<v>>) = Len(t) + 1
  OBVIOUS
<1>2. \A i \in 1..(Len(t) + 1) : Append(t, v)[i] = (t \o <<v>>)[i]
  OBVIOUS
<1> QED BY <1>1, <1>2

LEMMA NothingAdded ==
  ASSUME NEW t \in Seq(Int) PROVE t \o <<>> = t /\ <<>> \o t = t
OBVIOUS

\* The factors are due to whoever sets them; a level still to come would lose the
\* one of a permeability set before it.
LEMMA CarriesApply ==
  ASSUME NEW b \in [Id -> Base], NEW c \in Config, NEW q, NEW P,
         NEW x \in SectionName, x \in P, x = "PZ factor" => "PZ level" \notin P,
         Carries(b, c, q, P)
  PROVE  Carries(Apply(b, x, c), c, q, P \ {x})
<1> SUFFICES ASSUME NEW s \in Id
             PROVE  IF IsPiezometer(s)
                    THEN q = Due(Apply(b, x, c)[s].by, c, P \ {x})
                    ELSE Apply(b, x, c)[s].by = <<>>
  BY DEF Carries
<1> DEFINE d == Apply(b, x, c)[s]
<1>1. CASE ~ IsPiezometer(s)
  <2>1. b[s].by = <<>>
    BY <1>1 DEF Carries
  <2> QED BY <1>1, <2>1, ApplySets
<1>2. CASE IsPiezometer(s)
  <2>1. q = Due(b[s].by, c, P)
    BY <1>2 DEF Carries
  <2>2. CASE x = "PZ level"
    <3>1. d.by = <<>>
      BY <1>2, <2>2, ApplySets
    <3> HIDE DEF d
    <3>2. Due(d.by, c, P \ {x}) = Due(b[s].by, c, P)
      BY <2>2, <3>1 DEF Due
    <3> QED BY <1>2, <2>1, <3>2 DEF d
  <2>3. CASE x = "PZ factor"
    <3>1. d.by = Append(b[s].by, c["perm"])
      BY <1>2, <2>3, ApplySets
    <3> HIDE DEF d
    <3>2. b[s].by \in Seq(Int) /\ c["perm"] \in Int
      BY DEF Base, Config, Field
    <3>3. Due(b[s].by, c, P) = b[s].by \o <<c["perm"]>>
      BY <2>3 DEF Due
    <3>4. Due(d.by, c, P \ {x}) = d.by \o <<>>
      BY <2>3 DEF Due
    <3>5. d.by = b[s].by \o <<c["perm"]>> /\ d.by \o <<>> = d.by
      BY <3>1, <3>2, AppendedIs, NothingAdded
    <3> QED BY <1>2, <2>1, <3>3, <3>4, <3>5 DEF d
  <2>4. CASE x \notin {"PZ level", "PZ factor"}
    <3>1. d.by = b[s].by
      BY <1>2, <2>4, ApplySets
    <3> HIDE DEF d
    <3>2. Due(d.by, c, P \ {x}) = Due(b[s].by, c, P)
      BY <2>4, <3>1 DEF Due
    <3> QED BY <1>2, <2>1, <3>2 DEF d
  <2> QED BY <2>2, <2>3, <2>4
<1> QED BY <1>1, <1>2

\* The second section of a level brings the piezometers to where the first has
\* brought WL-001.
LEMMA OneLevelApply ==
  ASSUME NEW b \in [Id -> Base], NEW c \in Config, NEW P, NEW x \in SectionName, x \in P,
         "WL-001" \in P => "PZ level" \in P,
         x = "PZ level" => "WL-001" \notin P /\ c["up"] >= 0,
         Tracks(b, c, P), OneLevel(b, P)
  PROVE  OneLevel(Apply(b, x, c), P \ {x})
<1> DEFINE Up(s) == Follows(s, "up")
<1>1. \A s : Up(s) => Setter(s) \in {"WL-001", "PZ level"}
  BY DEF Follows, Setter, IsPiezometer
<1>2. "up" \in Field
  BY DEF Field
<1>3. CASE x = "WL-001"
  BY <1>3 DEF OneLevel
<1>4. CASE x = "PZ level"
  <2>1. Tracks(Apply(b, x, c), c, P \ {x})
    BY TracksApply
  <2>2. \A s \in Id : Up(s) => Apply(b, x, c)[s].of = c["up"]
    BY <1>1, <1>2, <1>4, <2>1 DEF Tracks
  <2> QED BY <2>2 DEF OneLevel
<1>5. CASE x \notin {"WL-001", "PZ level"}
  <2>1. ASSUME NEW s \in Id, Up(s) PROVE Apply(b, x, c)[s].of = b[s].of
    <3>1. Setter(s) # x
      BY <1>1, <1>5, <2>1
    <3>2. Setter(s) # x => Apply(b, x, c)[s].of = b[s].of
      BY ApplySets
    <3> QED BY <3>1, <3>2
  <2> QED BY <1>5, <2>1 DEF OneLevel
<1> QED BY <1>3, <1>4, <1>5

\* Fewer sections to come is the stronger claim.
LEMMA TracksMore ==
  ASSUME NEW b, NEW c, NEW P, NEW Q, P \subseteq Q, Tracks(b, c, P)
  PROVE  Tracks(b, c, Q)
BY DEF Tracks

\* At the start the sensors agree with the environment's configuration.
LEMMA OverridesAgree ==
  ASSUME NEW c \in Config, NEW q, q = IF c["perm"] >= 0 THEN <<c["perm"]>> ELSE <<>>
  PROVE  Agrees(ConfigOverrides(c), c, q, {})
<1> DEFINE Set(b, f, x) == IF c[f] >= 0 THEN Apply(b, x, c) ELSE b
           Start == IF c["up"] >= 0 THEN c["up"] ELSE -1
           Bare(b) == b \in [Id -> Base] /\ \A s \in Id : b[s].by = <<>>
           Level(b) == \A s \in Id : Follows(s, "up") => b[s].of = Start
           Drives(f, x) == /\ x \in SectionName \ {"PZ factor"} /\ f \in Field
                           /\ \A s, g : Setter(s) = x /\ Follows(s, g) => g = f
           one  == Set(Shipped, "up", "WL-001")
           up   == Set(one, "up", "PZ level")
           down == Set(up, "down", "WL-002")
           perm == Set(down, "perm", "SM-001")
           all  == Set(perm, "perm", "PZ factor")
<1>1. ASSUME NEW b, Bare(b), NEW f, NEW x, Drives(f, x), NEW P, Tracks(b, c, P)
      PROVE  Bare(Set(b, f, x)) /\ Tracks(Set(b, f, x), c, P \ {x})
  <2>1. CASE c[f] >= 0
    <3>1. Apply(b, x, c) \in [Id -> Base]
      BY <1>1, ApplyTyped
    <3>2. \A s \in Id : Apply(b, x, c)[s].by = <<>>
      <4> SUFFICES ASSUME NEW s \in Id PROVE Apply(b, x, c)[s].by = <<>>
        OBVIOUS
      <4>1. b[s].by = <<>> /\ x \in SectionName /\ x # "PZ factor" /\ b \in [Id -> Base]
        BY <1>1
      <4>2. /\ ~ IsPiezometer(s) /\ b[s].by = <<>> => Apply(b, x, c)[s].by = <<>>
            /\ IsPiezometer(s) /\ x \notin {"PZ level", "PZ factor"} =>
                 Apply(b, x, c)[s].by = b[s].by
            /\ IsPiezometer(s) /\ x = "PZ level" => Apply(b, x, c)[s].by = <<>>
        BY <4>1, ApplySets
      <4> QED BY <4>1, <4>2
    <3> QED BY <1>1, <2>1, <3>1, <3>2, TracksApply
  <2>2. CASE ~ (c[f] >= 0)
    <3>1. Tracks(b, c, P \ {x})
      BY <1>1, <2>2 DEF Tracks
    <3> QED BY <1>1, <2>2, <3>1
  <2> QED BY <2>1, <2>2
<1>2. Bare(Shipped) /\ Tracks(Shipped, c, SectionName) /\ (~ (c["up"] >= 0) => Level(Shipped))
  <2>1. Bare(Shipped) /\ \A s \in Id : Shipped[s].of = -1
    BY Shipped_Typed DEF Shipped
  <2>2. \A s \in Id, f \in Field : Follows(s, f) => Setter(s) \in SectionName
    BY DEF Follows, Setter, IsPiezometer, SectionName
  <2> QED BY <2>1, <2>2 DEF Tracks
<1>3. /\ Drives("up", "WL-001") /\ Drives("up", "PZ level")
      /\ Drives("down", "WL-002") /\ Drives("perm", "SM-001")
  BY DEF Follows, Setter, IsPiezometer, SectionName, Field
<1>4. ConfigOverrides(c) = all
  BY DEF ConfigOverrides
<1>5. ASSUME NEW b \in [Id -> Base], NEW f, Level(b),
             NEW x \in SectionName \ {"WL-001", "PZ level"}
      PROVE  Level(Set(b, f, x))
  <2>1. \A s \in Id : Follows(s, "up") => Setter(s) # x
    BY <1>5 DEF Follows, Setter, IsPiezometer
  <2>2. \A s \in Id : Follows(s, "up") => Apply(b, x, c)[s].of = b[s].of
    BY <2>1, <1>5, ApplySets
  <2> QED BY <1>5, <2>2
<1>6. ~ (c["up"] >= 0) => up = Shipped
  OBVIOUS
<1>7. perm \in [Id -> Base] => /\ c["perm"] >= 0 => all = Apply(perm, "PZ factor", c)
                               /\ ~ (c["perm"] >= 0) => all = perm
  OBVIOUS
<1> HIDE DEF Drives, Set, Bare, Start
<1>8. Bare(one) /\ Tracks(one, c, SectionName \ {"WL-001"})
  BY <1>1, <1>2, <1>3
<1> HIDE DEF one
<1>9. Bare(up) /\ Tracks(up, c, (SectionName \ {"WL-001"}) \ {"PZ level"})
  BY <1>1, <1>3, <1>8
<1>10. Level(up)
  <2>1. CASE c["up"] >= 0
    <3>1. \A s \in Id : Follows(s, "up") => Setter(s) \in {"WL-001", "PZ level"}
      BY DEF Follows, Setter, IsPiezometer
    <3> QED BY <1>9, <2>1, <3>1 DEF Tracks, Start, Field
  <2>2. CASE ~ (c["up"] >= 0)
    BY <1>2, <1>6, <2>2
  <2> QED BY <2>1, <2>2
<1> HIDE DEF up, Level
<1>11. /\ Bare(down) /\ Level(down)
       /\ Tracks(down, c, ((SectionName \ {"WL-001"}) \ {"PZ level"}) \ {"WL-002"})
  BY <1>1, <1>3, <1>5, <1>9, <1>10 DEF Bare, SectionName
<1> HIDE DEF down
<1>12. /\ Bare(perm) /\ Level(perm)
       /\ Tracks(perm, c,
                (((SectionName \ {"WL-001"}) \ {"PZ level"}) \ {"WL-002"}) \ {"SM-001"})
  BY <1>1, <1>3, <1>5, <1>11 DEF Bare, SectionName
<1> HIDE DEF perm
<1>13. Tracks(perm, c, {"PZ factor"})
  BY <1>12, TracksMore DEF SectionName
<1>14. "PZ factor" \in SectionName /\ perm \in [Id -> Base] /\ \A s \in Id : perm[s].by = <<>>
  BY <1>12 DEF Bare, SectionName
<1>15. Level(all)
  BY <1>5, <1>12, <1>14 DEF SectionName
<1>16. Tracks(all, c, {}) /\ Carries(all, c, q, {})
  <2>1. CASE c["perm"] >= 0
    <3>1. all = Apply(perm, "PZ factor", c)
      BY <1>7, <1>14, <2>1
    <3>2. Tracks(all, c, {"PZ factor"} \ {"PZ factor"})
      BY <1>13, <1>14, <3>1, TracksApply
    <3>3. Carries(perm, c, q, {"PZ factor"})
      <4>1. c["perm"] \in Int
        BY DEF Config, Field
      <4>2. <<>> \o <<c["perm"]>> = <<c["perm"]>>
        BY <4>1, NothingAdded
      <4>3. Due(<<>>, c, {"PZ factor"}) = q
        BY <2>1, <4>2 DEF Due
      <4> QED BY <1>14, <4>3 DEF Carries
    <3>4. Carries(all, c, q, {"PZ factor"} \ {"PZ factor"})
      <4>1. Carries(Apply(perm, "PZ factor", c), c, q, {"PZ factor"} \ {"PZ factor"})
        BY <1>14, <3>3, CarriesApply
      <4> QED BY <3>1, <4>1
    <3>5. {"PZ factor"} \ {"PZ factor"} = {}
      OBVIOUS
    <3> QED BY <3>2, <3>4, <3>5
  <2>2. CASE ~ (c["perm"] >= 0)
    <3>1. all = perm
      BY <1>7, <1>14, <2>2
    <3>2. \A s : Setter(s) = "PZ factor" => \A f : ~ Follows(s, f)
      BY DEF Setter, Follows, IsPiezometer
    <3>3. Tracks(all, c, {})
      BY <1>13, <3>1, <3>2 DEF Tracks
    <3>4. Carries(all, c, q, {})
      <4>1. <<>> \o <<>> = <<>>
        BY NothingAdded
      <4>2. Due(<<>>, c, {}) = q
        BY <2>2, <4>1 DEF Due
      <4> QED BY <1>14, <3>1, <4>2 DEF Carries
    <3> QED BY <3>3, <3>4
  <2> QED BY <2>1, <2>2
<1>17. OneLevel(all, {})
  BY <1>15 DEF OneLevel, Level
<1> QED BY <1>4, <1>16, <1>17 DEF Agrees

\* Two parts of an update, one after the other.
LEMMA PartsInOrder ==
  ASSUME NEW p \in Seq(SectionName), NEW q \in Seq(SectionName),
         Ordered(p), Ordered(q), \A x \in Range(p), y \in Range(q) : Rank(x) < Rank(y)
  PROVE  p \o q \in Seq(SectionName) /\ Ordered(p \o q) /\ Range(p \o q) = Range(p) \cup Range(q)
<1>1. /\ Len(p) \in Nat /\ Len(q) \in Nat /\ Len(p \o q) = Len(p) + Len(q)
      /\ DOMAIN p = 1..Len(p) /\ DOMAIN q = 1..Len(q)
      /\ DOMAIN (p \o q) = 1..Len(p \o q) /\ p \o q \in Seq(SectionName)
  OBVIOUS
<1>2. \A i \in 1..Len(p) : i \in 1..Len(p \o q) /\ (p \o q)[i] = p[i] /\ p[i] \in Range(p)
  BY <1>1 DEF Range
<1>3. \A i \in 1..Len(q) :
        Len(p) + i \in 1..Len(p \o q) /\ (p \o q)[Len(p) + i] = q[i] /\ q[i] \in Range(q)
  BY <1>1 DEF Range
<1>4. \A i \in 1..Len(p \o q) :
        i \in 1..Len(p) \/ (i - Len(p) \in 1..Len(q) /\ i = Len(p) + (i - Len(p)))
  BY <1>1
<1> DEFINE t == p \o q
<1> HIDE DEF t
<1>5. Range(t) = Range(p) \cup Range(q)
  <2>1. ASSUME NEW x \in Range(t) PROVE x \in Range(p) \cup Range(q)
    <3>1. PICK i \in 1..Len(t) : x = t[i]
      BY <1>1 DEF Range, t
    <3> QED BY <1>2, <1>3, <1>4, <3>1 DEF t
  <2>2. ASSUME NEW x \in Range(p) PROVE x \in Range(t)
    <3>1. PICK i \in 1..Len(p) : x = p[i]
      BY <1>1 DEF Range
    <3> QED BY <1>1, <1>2, <3>1 DEF Range, t
  <2>3. ASSUME NEW x \in Range(q) PROVE x \in Range(t)
    <3>1. PICK i \in 1..Len(q) : x = q[i]
      BY <1>1 DEF Range
    <3> QED BY <1>1, <1>3, <3>1 DEF Range, t
  <2> QED BY <2>1, <2>2, <2>3
<1>6. Ordered(t)
  <2> SUFFICES ASSUME NEW i \in 1..Len(t), NEW j \in 1..Len(t), i < j
               PROVE  Rank(t[i]) < Rank(t[j])
    BY DEF Ordered
  <2>1. CASE i \in 1..Len(p) /\ j \in 1..Len(p)
    BY <1>2, <2>1 DEF Ordered, t
  <2>2. CASE i \in 1..Len(p) /\ j - Len(p) \in 1..Len(q)
    BY <1>1, <1>2, <1>3, <1>4, <2>2 DEF t
  <2>3. CASE i - Len(p) \in 1..Len(q) /\ j - Len(p) \in 1..Len(q)
    <3>1. i - Len(p) < j - Len(p)
      BY <1>1
    <3>2. Rank(q[i - Len(p)]) < Rank(q[j - Len(p)])
      BY <2>3, <3>1 DEF Ordered
    <3> QED BY <1>1, <1>3, <2>3, <3>2 DEF t
  <2> QED BY <1>1, <1>4, <2>1, <2>2, <2>3 DEF t
<1> QED BY <1>1, <1>5, <1>6 DEF t

\* A field that changed has its sections still to do, in the order of the code.
LEMMA SectionsCover ==
  ASSUME NEW F
  PROVE  LET t == Sections(F) IN
         /\ Ordered(t)
         /\ Range(t) = (IF "up" \in F THEN {"WL-001", "PZ level"} ELSE {})
                       \cup (IF "down" \in F THEN {"WL-002"} ELSE {})
                       \cup (IF "perm" \in F THEN {"SM-001", "PZ factor"} ELSE {})
<1> DEFINE a == IF "up" \in F THEN <<"WL-001", "PZ level">> ELSE <<>>
           b == IF "down" \in F THEN <<"WL-002">> ELSE <<>>
           c == IF "perm" \in F THEN <<"SM-001", "PZ factor">> ELSE <<>>
           A == IF "up" \in F THEN {"WL-001", "PZ level"} ELSE {}
           B == IF "down" \in F THEN {"WL-002"} ELSE {}
           C == IF "perm" \in F THEN {"SM-001", "PZ factor"} ELSE {}
<1>1. ASSUME NEW x \in SectionName, NEW y \in SectionName, Rank(x) < Rank(y)
      PROVE  <<x, y>> \in Seq(SectionName) /\ Ordered(<<x, y>>) /\ Range(<<x, y>>) = {x, y}
  <2>1. <<x, y>>[1] = x /\ <<x, y>>[2] = y /\ DOMAIN <<x, y>> = 1..2 /\ Len(<<x, y>>) = 2
    OBVIOUS
  <2>2. \A i, j \in 1..2 : i < j => i = 1 /\ j = 2
    OBVIOUS
  <2>3. Ordered(<<x, y>>)
    BY <1>1, <2>1, <2>2 DEF Ordered
  <2>4. Range(<<x, y>>) = {x, y}
    BY <2>1 DEF Range
  <2> QED BY <2>3, <2>4
<1>2. ASSUME NEW x \in SectionName
      PROVE  <<x>> \in Seq(SectionName) /\ Ordered(<<x>>) /\ Range(<<x>>) = {x}
  <2>1. <<x>>[1] = x /\ DOMAIN <<x>> = 1..1 /\ Len(<<x>>) = 1
    OBVIOUS
  <2> QED BY <2>1 DEF Ordered, Range
<1>3. <<>> \in Seq(SectionName) /\ Ordered(<<>>) /\ Range(<<>>) = {}
  BY DEF Ordered, Range
<1>4. {"WL-001", "PZ level", "WL-002", "SM-001", "PZ factor"} = SectionName
  BY DEF SectionName
<1>5. a \in Seq(SectionName) /\ Ordered(a) /\ Range(a) = A
  <2>1. Rank("WL-001") < Rank("PZ level")
    BY DEF Rank
  <2> QED BY <1>1, <1>3, <1>4, <2>1
<1>6. b \in Seq(SectionName) /\ Ordered(b) /\ Range(b) = B
  BY <1>2, <1>3, <1>4
<1>7. c \in Seq(SectionName) /\ Ordered(c) /\ Range(c) = C
  <2>1. Rank("SM-001") < Rank("PZ factor")
    BY DEF Rank
  <2> QED BY <1>1, <1>3, <1>4, <2>1
<1>8. /\ \A x \in A, y \in B : Rank(x) < Rank(y)
      /\ \A x \in A \cup B, y \in C : Rank(x) < Rank(y)
  <2>1. /\ A \subseteq {"WL-001", "PZ level"} /\ B \subseteq {"WL-002"}
        /\ C \subseteq {"SM-001", "PZ factor"}
    OBVIOUS
  <2>2. /\ Rank("WL-001") = 1 /\ Rank("PZ level") = 2 /\ Rank("WL-002") = 3
        /\ Rank("SM-001") = 4 /\ Rank("PZ factor") = 5
    BY DEF Rank
  <2> HIDE DEF A, B, C
  <2>3. /\ \A x \in A : x = "WL-001" \/ x = "PZ level"
        /\ \A x \in B : x = "WL-002"
        /\ \A x \in C : x = "SM-001" \/ x = "PZ factor"
    BY <2>1
  <2>4. \A x \in A : Rank(x) = 1 \/ Rank(x) = 2
    BY <2>2, <2>3
  <2>5. \A x \in B : Rank(x) = 3
    BY <2>2, <2>3
  <2>6. \A x \in C : Rank(x) = 4 \/ Rank(x) = 5
    BY <2>2, <2>3
  <2> QED BY <2>4, <2>5, <2>6
<1>9. Sections(F) = (a \o b) \o c
  BY DEF Sections
<1> HIDE DEF a, b, c, A, B, C
<1>10. a \o b \in Seq(SectionName) /\ Ordered(a \o b) /\ Range(a \o b) = A \cup B
  BY <1>5, <1>6, <1>8, PartsInOrder
<1>11. Ordered((a \o b) \o c) /\ Range((a \o b) \o c) = A \cup B \cup C
  BY <1>7, <1>8, <1>10, PartsInOrder
<1> QED BY <1>9, <1>11 DEF A, B, C

\* The next section is none of those after it, nor is one that comes before it.
LEMMA HeadOrTail ==
  ASSUME NEW t \in Seq(SectionName), t # <<>>, Ordered(t)
  PROVE  /\ Head(t) \in SectionName /\ Head(t) \in Range(t)
         /\ Tail(t) \in Seq(SectionName) /\ Ordered(Tail(t))
         /\ Range(Tail(t)) = Range(t) \ {Head(t)}
         /\ \A x \in Range(t) : Rank(x) < Rank(Head(t)) => FALSE
<1>1. /\ Head(t) \in SectionName /\ Tail(t) \in Seq(SectionName)
      /\ DOMAIN t = 1..Len(t) /\ DOMAIN Tail(t) = 1..Len(Tail(t))
      /\ Len(t) \in Nat \ {0} /\ Len(Tail(t)) = Len(t) - 1
      /\ Head(t) = t[1]
  OBVIOUS
<1>2. \A i \in 1..Len(t) : i = 1 \/ (i - 1 \in 1..Len(Tail(t)) /\ Tail(t)[i - 1] = t[i])
  BY <1>1
<1>3. \A i \in 1..Len(Tail(t)) : i + 1 \in 1..Len(t) /\ 1 < i + 1 /\ Tail(t)[i] = t[i + 1]
  BY <1>1
<1>4. \A i \in 1..Len(t) : t[i] \in SectionName /\ Rank(t[i]) \in Nat
  <2>1. \A x \in SectionName : Rank(x) \in Nat
    BY DEF Rank, SectionName
  <2> QED BY <2>1
<1>5. 1 \in 1..Len(t) /\ Head(t) \in Range(t)
  BY <1>1 DEF Range
<1>6. \A i \in 1..Len(t) : 1 < i => Rank(t[1]) < Rank(t[i])
  BY <1>5 DEF Ordered
<1>7. ASSUME NEW x \in Range(t), x # Head(t) PROVE x \in Range(Tail(t))
  <2>1. PICK i \in 1..Len(t) : x = t[i]
    BY <1>1 DEF Range
  <2>2. i - 1 \in 1..Len(Tail(t)) /\ Tail(t)[i - 1] = x
    BY <1>1, <1>2, <1>7, <2>1
  <2> QED BY <1>1, <2>2 DEF Range
<1>8. ASSUME NEW x \in Range(Tail(t)) PROVE x \in Range(t) /\ x # Head(t)
  <2>1. PICK i \in 1..Len(Tail(t)) : x = Tail(t)[i]
    BY <1>1 DEF Range
  <2>2. i + 1 \in 1..Len(t) /\ x = t[i + 1] /\ Rank(t[1]) < Rank(t[i + 1])
    BY <1>3, <1>6, <2>1
  <2>3. Rank(t[1]) \in Nat
    BY <1>4, <1>5
  <2> QED BY <1>1, <2>2, <2>3 DEF Range
<1>9. Ordered(Tail(t))
  <2> SUFFICES ASSUME NEW i \in 1..Len(Tail(t)), NEW j \in 1..Len(Tail(t)), i < j
               PROVE  Rank(Tail(t)[i]) < Rank(Tail(t)[j])
    BY DEF Ordered
  <2>1. i + 1 \in 1..Len(t) /\ j + 1 \in 1..Len(t) /\ i + 1 < j + 1
    BY <1>3
  <2>2. Rank(t[i + 1]) < Rank(t[j + 1])
    BY <2>1 DEF Ordered
  <2> QED BY <1>3, <2>2
<1>10. ASSUME NEW x \in Range(t), Rank(x) < Rank(Head(t)) PROVE FALSE
  <2>1. PICK i \in 1..Len(t) : x = t[i]
    BY <1>1 DEF Range
  <2>2. Rank(t[1]) <= Rank(t[i])
    BY <1>1, <1>4, <1>6, <2>1
  <2> QED BY <1>1, <1>4, <1>5, <1>10, <2>1, <2>2
<1> QED BY <1>1, <1>5, <1>7, <1>8, <1>9, <1>10

LEMMA FollowInit == ASSUME Init PROVE Following
<1>1. cfg \in Config
  BY SimulatorAssumption DEF Init, Config
<1>2. Agrees(base, cfg, factors, {})
  BY <1>1, OverridesAgree DEF Init
<1>3. \A r \in Post : pc[r] = "new"
  BY SimulatorAssumption DEF Init, Post, Proc
<1> QED BY <1>2, <1>3 DEF Following, Updating

\* A step of no update, or one that moves it on within a phase.
LEMMA FollowKept ==
  ASSUME Following, UNCHANGED <<cfg, base, merged, todo, overlapped, factors>>,
         \A r \in Post : /\ pc'[r] \in {"lock", "swap"} <=> pc[r] \in {"lock", "swap"}
                         /\ pc'[r] = "apply" <=> pc[r] = "apply"
  PROVE  Following'
<1>1. \A r \in Post : Updating(r)' <=> Updating(r)
  BY DEF Updating
<1>2. \A P : Agrees(base', cfg', factors', P) <=> Agrees(base, cfg, factors, P)
  OBVIOUS
<1>3. \A r \in Post : Remaining(todo'[r], cfg') <=> Remaining(todo[r], cfg)
  OBVIOUS
<1> SUFFICES ASSUME ~ overlapped
    PROVE /\ \A p, q \in Post : Updating(p)' /\ Updating(q)' => p = q
          /\ (\A r \in Post : pc'[r] # "apply") => Agrees(base', cfg', factors', {})
          /\ \A r \in Post : pc'[r] \in {"lock", "swap"} =>
               \A f \in Field : merged'[r][f] = cfg'[f] \/ merged'[r][f] >= 0
          /\ \A r \in Post : pc'[r] = "apply" =>
               /\ cfg' = merged'[r]
               /\ Remaining(todo'[r], cfg')
               /\ Agrees(base', cfg', factors', Range(todo'[r]))
  BY Zenon DEF Following
<1> QED BY <1>1, <1>2, <1>3 DEF Following

LEMMA FollowMerge ==
  ASSUME IInv, Following, NEW r \in Req, PostMerge(r) PROVE Following'
<1> USE DEF Post
<1>1. Shape /\ Kind[r] = "post" /\ r \in Proc
  BY DEF IInv, PostMerge, Proc
<1>2. PICK b \in Bodies[r] : merged' = [merged EXCEPT ![r] = Merge(cfg, b)]
  BY DEF PostMerge
<1>3. /\ merged'[r] = Merge(cfg, b) /\ \A q \in Req \ {r} : merged'[q] = merged[q]
      /\ pc'[r] = "lock" /\ \A q \in Post \ {r} : pc'[q] = pc[q]
      /\ UNCHANGED <<cfg, base, todo, factors>>
      /\ overlapped' = (overlapped \/ \E q \in Post : Updating(q))
  BY <1>1, <1>2 DEF PostMerge, Goto, Shape, Proc
<1> SUFFICES ASSUME ~ overlapped'
             PROVE  /\ \A p, q \in Post : Updating(p)' /\ Updating(q)' => p = q
                    /\ (\A q \in Post : pc'[q] # "apply") => Agrees(base', cfg', factors', {})
                    /\ \A q \in Post : pc'[q] \in {"lock", "swap"} =>
                         \A f \in Field : merged'[q][f] = cfg'[f] \/ merged'[q][f] >= 0
                    /\ \A q \in Post : pc'[q] # "apply"
  BY <1>1, Zenon DEF Following
<1>4. \A q \in Post : pc[q] \notin {"lock", "swap", "apply"}
  BY <1>3 DEF Updating
<1>5. Agrees(base, cfg, factors, {})
  BY <1>3, <1>4 DEF Following
<1>6. \A f \in Field : merged'[r][f] = cfg[f] \/ merged'[r][f] >= 0
  BY <1>3 DEF Merge
<1> QED BY <1>1, <1>3, <1>4, <1>5, <1>6 DEF Updating

LEMMA FollowLock ==
  ASSUME IInv, Following, NEW r \in Req, PostLock(r) PROVE Following'
<1>1. Shape /\ r \in Post
  BY DEF IInv, PostLock, Post
<1>2. /\ pc[r] = "lock" /\ pc'[r] = "swap" /\ \A q \in Post \ {r} : pc'[q] = pc[q]
      /\ UNCHANGED <<cfg, base, merged, todo, overlapped, factors>>
  BY <1>1 DEF PostLock, Goto, Shape, Proc, Post
<1> QED BY <1>1, <1>2, FollowKept

LEMMA FollowSwap ==
  ASSUME IInv, Following, NEW r \in Req, PostSwap(r) PROVE Following'
<1>1. Shape /\ r \in Post /\ Post \subseteq Req
  BY DEF IInv, PostSwap, Post
<1> DEFINE new == merged[r]
           F   == Changed(new, cfg)
           P   == Range(Sections(F))
           kept  == IF new["up"] = cfg["up"] THEN factors ELSE <<>>
           added == IF new["perm"] = cfg["perm"] THEN <<>> ELSE <<new["perm"]>>
<1>2. /\ pc[r] = "swap" /\ pc'[r] = "apply" /\ \A q \in Post \ {r} : pc'[q] = pc[q]
      /\ cfg' = new /\ todo'[r] = Sections(F) /\ factors' = kept \o added
      /\ UNCHANGED <<base, merged, overlapped>>
  BY <1>1 DEF PostSwap, Goto, Shape, Proc, Post
<1> HIDE DEF F, P, kept, added
<1> SUFFICES ASSUME ~ overlapped PROVE Following'
  BY <1>2 DEF Following
<1>3. \A q \in Post : Updating(q)' => q = r
  BY <1>1, <1>2 DEF Following, Updating
<1>4. Agrees(base, cfg, factors, {}) /\ \A f \in Field : new[f] = cfg[f] \/ new[f] >= 0
  BY <1>1, <1>2 DEF Following, Updating
<1>5. \A f \in Field : f \in F <=> new[f] # cfg[f]
  BY <1>4 DEF F, Changed
<1>6. /\ Ordered(Sections(F))
      /\ P = (IF "up" \in F THEN {"WL-001", "PZ level"} ELSE {})
             \cup (IF "down" \in F THEN {"WL-002"} ELSE {})
             \cup (IF "perm" \in F THEN {"SM-001", "PZ factor"} ELSE {})
  BY SectionsCover DEF P
<1>7. /\ "WL-001" \in P <=> "up" \in F
      /\ "PZ level" \in P <=> "up" \in F
      /\ "WL-002" \in P <=> "down" \in F
      /\ "SM-001" \in P <=> "perm" \in F
      /\ "PZ factor" \in P <=> "perm" \in F
  BY <1>6
<1>8. "up" \in Field /\ "down" \in Field /\ "perm" \in Field
  BY DEF Field
<1>9. Remaining(Sections(F), new)
  BY <1>4, <1>5, <1>6, <1>7, <1>8 DEF Remaining, P
<1>10. Tracks(base, new, P)
  <2>1. \A s, f : Follows(s, f) /\ f \in F => Setter(s) \in P
    BY <1>7 DEF Follows, Setter, IsPiezometer
  <2> SUFFICES ASSUME NEW s \in Id, NEW f \in Field, Follows(s, f), new[f] >= 0,
                      Setter(s) \notin P
               PROVE  base[s].of = new[f]
    BY DEF Tracks
  <2>2. new[f] = cfg[f]
    BY <1>5, <2>1
  <2> QED BY <1>4, <2>2 DEF Agrees, Tracks
<1>11. Carries(base, new, kept \o added, P)
  <2> SUFFICES ASSUME NEW s \in Id
               PROVE  IF IsPiezometer(s) THEN kept \o added = Due(base[s].by, new, P)
                                         ELSE base[s].by = <<>>
    BY DEF Carries
  <2>1. CASE ~ IsPiezometer(s)
    BY <1>4, <2>1 DEF Agrees, Carries
  <2>2. CASE IsPiezometer(s)
    <3>1. factors = base[s].by \o <<>>
      BY <1>4, <2>2 DEF Agrees, Carries, Due
    <3>2. base[s].by \in Seq(Int)
      BY <1>1 DEF Shape, Base
    <3>3. factors = base[s].by
      BY <3>1, <3>2
    <3>4. /\ kept = IF "PZ level" \in P THEN <<>> ELSE base[s].by
          /\ added = IF "PZ factor" \in P THEN <<new["perm"]>> ELSE <<>>
      BY <1>5, <1>7, <1>8, <3>3 DEF kept, added
    <3> QED BY <2>2, <3>4 DEF Due
  <2> QED BY <2>1, <2>2
<1>12. OneLevel(base, P)
  BY <1>4 DEF Agrees, OneLevel
<1>13. Agrees(base', cfg', factors', Range(todo'[r])) /\ Remaining(todo'[r], cfg')
  BY <1>2, <1>9, <1>10, <1>11, <1>12 DEF Agrees, P
<1> QED BY <1>1, <1>2, <1>3, <1>13 DEF Following, Updating

LEMMA FollowApply ==
  ASSUME IInv, Following, NEW r \in Req, PostApply(r) PROVE Following'
<1>1. Shape /\ r \in Post /\ Post \subseteq Req
  BY DEF IInv, PostApply, Post
<1> DEFINE t == todo[r]
<1>2. /\ pc[r] = "apply" /\ t \in Seq(SectionName) /\ t # <<>>
      /\ base' = Apply(base, Head(t), merged[r]) /\ todo'[r] = Tail(t)
      /\ UNCHANGED <<cfg, pc, merged, overlapped, factors>>
  BY <1>1 DEF PostApply, Shape
<1> HIDE DEF t
<1> SUFFICES ASSUME ~ overlapped PROVE Following'
  BY <1>2 DEF Following
<1>3. /\ cfg = merged[r] /\ Remaining(t, cfg) /\ Agrees(base, cfg, factors, Range(t))
      /\ \A q \in Post : Updating(q) => q = r
  BY <1>1, <1>2 DEF Following, Updating, t
<1> DEFINE x == Head(t)
           P == Range(t)
<1>4. /\ x \in SectionName /\ x \in P
      /\ Tail(t) \in Seq(SectionName) /\ Ordered(Tail(t)) /\ Range(Tail(t)) = P \ {x}
      /\ \A y \in P : Rank(y) < Rank(x) => FALSE
  BY <1>2, <1>3, HeadOrTail DEF Remaining
<1> HIDE DEF x, P
<1>5. Rank("WL-001") < Rank("PZ level") /\ Rank("PZ level") < Rank("PZ factor")
  BY DEF Rank
<1>6. /\ x = "PZ factor" => "PZ level" \notin P
      /\ x = "PZ level" => "WL-001" \notin P
  BY <1>4, <1>5
<1>7. /\ "WL-001" \in P => "PZ level" \in P
      /\ "PZ level" \in P => cfg["up"] >= 0
  BY <1>3 DEF Remaining, P
<1>8. Remaining(Tail(t), cfg)
  BY <1>4, <1>6, <1>7 DEF Remaining
<1>9. Agrees(Apply(base, x, cfg), cfg, factors, P \ {x})
  <2>1. base \in [Id -> Base] /\ cfg \in Config
    BY <1>1 DEF Shape
  <2>2. Tracks(base, cfg, P) /\ Carries(base, cfg, factors, P) /\ OneLevel(base, P)
    BY <1>3 DEF Agrees, P
  <2>3. Tracks(Apply(base, x, cfg), cfg, P \ {x})
    BY <1>4, <2>1, <2>2, TracksApply
  <2>4. Carries(Apply(base, x, cfg), cfg, factors, P \ {x})
    BY <1>4, <1>6, <2>1, <2>2, CarriesApply
  <2>5. OneLevel(Apply(base, x, cfg), P \ {x})
    BY <1>4, <1>6, <1>7, <2>1, <2>2, OneLevelApply
  <2> QED BY <2>3, <2>4, <2>5 DEF Agrees
<1>10. Agrees(base', cfg', factors', Range(todo'[r])) /\ Remaining(todo'[r], cfg')
  BY <1>2, <1>3, <1>4, <1>8, <1>9 DEF x
<1> QED BY <1>1, <1>2, <1>3, <1>10 DEF Following, Updating

LEMMA FollowReply ==
  ASSUME IInv, Following, NEW r \in Req, ReplyLock(r) \/ ReplyEnd(r) PROVE Following'
<1>1. Shape /\ Post \subseteq Req
  BY DEF IInv, Post
<1>2. /\ \A q \in Req \ {r} : pc'[q] = pc[q]
      /\ UNCHANGED <<cfg, base, merged, todo, overlapped, factors>>
  BY <1>1 DEF ReplyLock, ReplyEnd, Goto, Shape, Proc
<1>3. CASE r \notin Post
  BY <1>1, <1>2, <1>3, FollowKept
<1>4. CASE r \in Post /\ ReplyLock(r)
  <2>1. pc[r] = "apply" /\ todo[r] = <<>> /\ pc'[r] = "reply"
    BY <1>1, <1>4 DEF ReplyLock, Post, Goto, Shape, Proc
  <2> SUFFICES ASSUME ~ overlapped PROVE Following'
    BY <1>2 DEF Following
  <2>2. \A q \in Post : ~ Updating(q)'
    BY <1>1, <1>2, <1>4, <2>1 DEF Following, Updating
  <2>3. Agrees(base, cfg, factors, {})
    <3>1. Range(todo[r]) = {}
      BY <2>1 DEF Range
    <3> QED BY <1>4, <2>1, <3>1 DEF Following
  <2> QED BY <1>2, <2>2, <2>3 DEF Following, Updating
<1>5. CASE r \in Post /\ ReplyEnd(r)
  <2>1. pc[r] = "reply" /\ pc'[r] = "done"
    BY <1>1, <1>5 DEF ReplyEnd, Goto, Shape, Proc
  <2> QED BY <1>1, <1>2, <2>1, FollowKept
<1> QED BY <1>3, <1>4, <1>5

LEMMA FollowStep == ASSUME IInv, Following, [Next]_vars PROVE Following'
<1>1. Shape /\ "sampler" \notin Post
  BY SimulatorAssumption DEF IInv, Post
<1>2. ASSUME NEW r \in Req, TriggerFound(r) \/ TriggerUnknown(r) \/ TriggerStore(r)
                            \/ TriggerReadConfig(r) \/ TriggerSend(r)
                            \/ HandlerPanic(r) \/ SamplerPanic(r)
      PROVE  Following'
  <2>1. /\ \A q \in Post : pc'[q] = pc[q]
        /\ UNCHANGED <<cfg, base, merged, todo, overlapped, factors>>
    BY <1>1, <1>2 DEF TriggerFound, TriggerUnknown, TriggerStore, TriggerReadConfig,
       TriggerSend, HandlerPanic, SamplerPanic, Racing, Goto, Shape, Proc, Post
  <2> QED BY <2>1, FollowKept
<1>3. ASSUME NEW r \in Req, Handler(r) PROVE Following'
  BY <1>2, <1>3, FollowMerge, FollowLock, FollowSwap, FollowApply, FollowReply
     DEF Handler, HandlerWork
<1>4. CASE Sampler
  <2>1. /\ \A q \in Post : pc'[q] = pc[q]
        /\ UNCHANGED <<cfg, base, merged, todo, overlapped, factors>>
    BY <1>1, <1>4 DEF Sampler, SampleReadConfig, SampleDraw, SampleMake, SampleStore,
       SampleSend, Goto, Shape, Proc, Post
  <2> QED BY <2>1, FollowKept
<1>5. CASE UNCHANGED vars
  BY <1>5, FollowKept DEF vars
<1> QED BY <1>2, <1>3, <1>4, <1>5 DEF Next

LEMMA FollowingHolds == Spec => [](IInv /\ Following)
<1>1. Init => IInv /\ Following
  BY InvInit, FollowInit
<1>2. IInv /\ Following /\ [Next]_vars => (IInv /\ Following)'
  BY InvStep, FollowStep
<1> QED BY <1>1, <1>2, PTL DEF Spec

\* As long as no two updates overlap, and whenever none is in progress, the sections
\* of the updates have made of the bases what the settings in their order amount to:
\* the levels and SM-001 stand at what GET /config reports, and the piezometers
\* carry exactly the factors of the permeabilities set since the upstream level was.
\* The sampling loop and triggers may have run between any two sections.
THEOREM SettingsAreFollowed == Spec => []SensorsFollowSettings
<1>1. ASSUME IInv, Following PROVE SensorsFollowSettings
  <2> SUFFICES ASSUME ~ overlapped, \A r \in Post : ~ Updating(r), NEW s \in Id
               PROVE  /\ \A f \in Field : Follows(s, f) /\ cfg[f] >= 0 => base[s].of = cfg[f]
                      /\ base[s].by = IF IsPiezometer(s) THEN factors ELSE <<>>
    BY DEF SensorsFollowSettings
  <2>1. Agrees(base, cfg, factors, {})
    BY <1>1 DEF Following, Updating
  <2>2. \A f \in Field : Follows(s, f) /\ cfg[f] >= 0 => base[s].of = cfg[f]
    BY <2>1 DEF Agrees, Tracks
  <2>3. CASE IsPiezometer(s)
    <3>1. factors = base[s].by \o <<>>
      BY <2>1, <2>3 DEF Agrees, Carries, Due
    <3>2. base[s].by \in Seq(Int)
      BY <1>1 DEF IInv, Shape, Base
    <3>3. base[s].by \o <<>> = base[s].by
      BY <3>2
    <3> QED BY <2>2, <2>3, <3>1, <3>3
  <2>4. CASE ~ IsPiezometer(s)
    BY <2>1, <2>2, <2>4 DEF Agrees, Carries
  <2> QED BY <2>3, <2>4
<1> QED BY <1>1, FollowingHolds, PTL

LEMMA LaterSections ==
  \A x \in SectionName \ {"WL-001", "PZ level"} : Rank("PZ level") < Rank(x)
<1>1. Rank("PZ level") = 2
  BY DEF Rank
<1>2. \A x \in SectionName \ {"WL-001", "PZ level"} :
        x = "WL-002" \/ x = "SM-001" \/ x = "PZ factor"
  BY DEF SectionName
<1>3. /\ 2 < Rank("WL-002") /\ 2 < Rank("SM-001") /\ 2 < Rank("PZ factor")
  BY DEF Rank
<1>4. \A x \in SectionName \ {"WL-001", "PZ level"} : 2 < Rank(x)
  BY <1>2, <1>3
<1> QED BY <1>1, <1>4

LEMMA BatchOfSensors ==
  ASSUME IInv PROVE \A i \in 1..Len(payload) : Sensors[i] \in Id
<1>1. payload \in Seq(Base) /\ Len(payload) <= Len(Sensors)
  BY DEF IInv, Made, Shape, Batch
<1>2. Len(payload) \in Nat /\ Len(Sensors) \in Nat
  BY <1>1, SensorsTyped
<1> QED BY <1>1, <1>2, SensorsTyped

LEMMA NothingToDo == ASSUME NEW t, t = <<>> PROVE Range(t) = {}
BY DEF Range

\* The readings of a batch are those of one moment: no section of an update falls
\* between two of them.  That moment shows one upstream level, unless it is between
\* the two sections that set it, or two updates have overlapped.
THEOREM BatchesAreSnapshots == Spec => []BatchIsSnapshot
<1>1. ASSUME IInv, Following PROVE BatchIsSnapshot
  <2> SUFFICES ASSUME ~ overlapped, ~ BetweenLevels, pc["sampler"] \in {"make", "store"},
                      NEW i \in 1..Len(payload), NEW j \in 1..Len(payload),
                      Follows(Sensors[i], "up"), Follows(Sensors[j], "up")
               PROVE  payload[i].of = payload[j].of
    BY <1>1 DEF BatchIsSnapshot, ShowsOneLevel, IInv, Made
  <2>1. \A s, t \in Id : Follows(s, "up") /\ Follows(t, "up") => base[s].of = base[t].of
    <3>1. CASE \A r \in Post : pc[r] # "apply"
      BY <3>1, <1>1 DEF Following, Agrees, OneLevel
    <3>2. CASE \E r \in Post : pc[r] = "apply"
      <4>1. PICK r \in Post : pc[r] = "apply"
        BY <3>2
      <4> DEFINE t == todo[r]
                 P == Range(t)
      <4>2. Remaining(t, cfg) /\ OneLevel(base, P)
        BY <4>1, <1>1 DEF Following, Agrees
      <4>3. t \in Seq(SectionName) /\ (t = <<>> \/ Head(t) # "PZ level")
        BY <4>1, <1>1 DEF IInv, Shape, Post, BetweenLevels
      <4> HIDE DEF t
      <4>4. "WL-001" \in P <=> "PZ level" \in P
        <5>1. CASE t = <<>>
          <6>1. P = {}
            BY <5>1, NothingToDo
          <6> QED BY <6>1
        <5>2. CASE t # <<>> /\ "PZ level" \in P
          <6>1. /\ Head(t) \in SectionName /\ Head(t) \in P
                /\ \A x \in P : Rank(x) < Rank(Head(t)) => FALSE
            BY <4>2, <4>3, <5>2, HeadOrTail DEF Remaining
          <6>2. \A x \in SectionName \ {"WL-001", "PZ level"} : Rank("PZ level") < Rank(x)
            BY LaterSections
          <6>3. Head(t) = "WL-001"
            BY <4>3, <5>2, <6>1, <6>2
          <6> QED BY <5>2, <6>1, <6>3
        <5>3. CASE t # <<>> /\ "PZ level" \notin P
          BY <4>2, <5>3 DEF Remaining
        <5> QED BY <5>1, <5>2, <5>3
      <4> QED BY <4>2, <4>4 DEF OneLevel
    <3> QED BY <3>1, <3>2
  <2>2. payload[i] = base[Sensors[i]] /\ payload[j] = base[Sensors[j]]
    BY <1>1 DEF IInv, Made, ReadAtOnce
  <2>3. Sensors[i] \in Id /\ Sensors[j] \in Id
    BY <1>1, BatchOfSensors
  <2> QED BY <2>1, <2>2, <2>3
<1> QED BY <1>1, FollowingHolds, PTL

----------------------------------------------------------------------------
(***************************************************************************)
(* Who waits for whom.  cfgMu and latestMu are written by who does nothing *)
(* else meanwhile, and a reader of a mutex is at its answer.               *)
(***************************************************************************)
Inside ==
  /\ \A p \in Proc : mu["cfgMu"].writer = p => pc[p] = "swap"
  /\ \A p \in Proc : mu["latestMu"].writer = p => pc[p] = "store"
  /\ mu["sensorMu"].readers = {}
  /\ \A m \in Mutex : \A r \in mu[m].readers :
       pc[r] = "reply" /\ ReadMutex(r) = m

\* What Released and the like do to the readers.
LEMMA Readers ==
  ASSUME Shape, NEW m \in Mutex, NEW n \in Mutex
  PROVE  /\ Released(m)[n].readers = mu[n].readers
         /\ \A p \in Proc : Announced(m, p)[n].readers = mu[n].readers
         /\ \A r \in Req :
              /\ n = m => Entered(m, r)[n].readers = mu[n].readers \cup {r}
              /\ n = m => Left(m, r)[n].readers = mu[n].readers \ {r}
              /\ n # m => /\ Entered(m, r)[n].readers = mu[n].readers
                         /\ Left(m, r)[n].readers = mu[n].readers
<1>1. mu[m] \in Lock /\ mu[n] \in Lock /\ DOMAIN mu = Mutex
  BY DEF Shape
<1>2. /\ [mu[m] EXCEPT !.writer = None].readers = mu[m].readers
      /\ \A p \in Proc : [mu[m] EXCEPT !.writer = p].readers = mu[m].readers
      /\ \A r \in Req :
           /\ [mu[m] EXCEPT !.readers = mu[m].readers \cup {r}].readers = mu[m].readers \cup {r}
           /\ [mu[m] EXCEPT !.readers = mu[m].readers \ {r}].readers = mu[m].readers \ {r}
  BY <1>1 DEF Lock
<1> QED BY <1>1, <1>2 DEF Released, Announced, Entered, Left

\* A step of a process p that is not inside and leaves the readers alone.
LEMMA InsideWriting ==
  ASSUME Shape, Inside, NEW p \in Proc,
         \A q \in Proc : q # p => pc'[q] = pc[q],
         \A m \in Mutex : mu'[m].readers = mu[m].readers /\ p \notin mu[m].readers,
         mu'["cfgMu"].writer \in {mu["cfgMu"].writer, None, p},
         mu'["latestMu"].writer \in {mu["latestMu"].writer, None, p},
         mu'["cfgMu"].writer = p => pc'[p] = "swap",
         mu'["latestMu"].writer = p => pc'[p] = "store"
  PROVE  Inside'
<1>1. \A m \in Mutex : mu[m].readers \subseteq Proc \ {p}
  BY DEF Shape, Lock, Proc
<1>2. None \notin Proc
  BY SimulatorAssumption DEF Proc
<1>3. /\ \A q \in Proc : mu'["cfgMu"].writer = q => pc'[q] = "swap"
      /\ \A q \in Proc : mu'["latestMu"].writer = q => pc'[q] = "store"
  BY <1>2 DEF Inside
<1>4. mu'["sensorMu"].readers = {}
  BY DEF Inside, Mutex
<1>5. ASSUME NEW m \in Mutex, NEW r \in mu'[m].readers
      PROVE  pc'[r] = "reply" /\ ReadMutex(r) = m
  BY <1>1 DEF Inside
<1> QED BY <1>3, <1>4, <1>5 DEF Inside, ReadMutex

\* A step of a handler r that writes neither cfgMu nor latestMu, and leaves the
\* writers alone.
LEMMA InsideReading ==
  ASSUME Shape, Inside, NEW r \in Req,
         \A q \in Proc : q # r => pc'[q] = pc[q],
         mu'["cfgMu"].writer = mu["cfgMu"].writer, mu["cfgMu"].writer # r,
         mu'["latestMu"].writer = mu["latestMu"].writer, mu["latestMu"].writer # r,
         \A m \in Mutex : mu'[m].readers \subseteq mu[m].readers \cup {r},
         \A m \in Mutex : r \in mu'[m].readers =>
           m # "sensorMu" /\ pc'[r] = "reply" /\ ReadMutex(r) = m
  PROVE  Inside'
<1>1. \A m \in Mutex : mu[m].readers \subseteq Proc
  BY DEF Shape, Lock, Proc
<1>2. /\ \A q \in Proc : mu'["cfgMu"].writer = q => pc'[q] = "swap"
      /\ \A q \in Proc : mu'["latestMu"].writer = q => pc'[q] = "store"
  BY DEF Inside
<1>3. mu'["sensorMu"].readers = {}
  BY DEF Inside, Mutex
<1>4. ASSUME NEW m \in Mutex, NEW q \in mu'[m].readers
      PROVE  pc'[q] = "reply" /\ ReadMutex(q) = m
  <2>1. CASE q = r
    BY <2>1
  <2>2. CASE q # r
    BY <1>1, <2>2 DEF Inside
  <2> QED BY <2>1, <2>2
<1> QED BY <1>2, <1>3, <1>4 DEF Inside, ReadMutex

\* A step that leaves the mutexes alone, of a process that neither writes nor
\* answers.
LEMMA InsideQuiet ==
  ASSUME Shape, Inside, NEW p \in Proc, mu' = mu,
         pc[p] \notin {"swap", "store", "reply"},
         \A q \in Proc : q # p => pc'[q] = pc[q]
  PROVE  Inside'
<1>1. mu["cfgMu"].writer # p /\ mu["latestMu"].writer # p
  BY DEF Inside
<1>2. \A m \in Mutex : p \notin mu[m].readers
  BY DEF Inside
<1> QED BY <1>1, <1>2, InsideWriting

LEMMA InsideHandler ==
  ASSUME IInv, Inside, NEW r \in Req, Handler(r) PROVE Inside'
<1> USE SimulatorAssumption
<1>1. Shape /\ r \in Proc /\ r # None /\ r # "sampler"
      /\ {"cfgMu", "sensorMu", "latestMu"} \subseteq Mutex
  BY DEF IInv, Proc, Mutex
<1>2. \A q \in Proc : q # r => pc'[q] = pc[q]
  BY <1>1 DEF Handler, HandlerWork, PostMerge, PostLock, PostSwap, PostApply, ReplyLock,
     ReplyEnd, TriggerFound, TriggerUnknown, TriggerStore, TriggerReadConfig, TriggerSend,
     Goto, Shape
<1>3. CASE PostMerge(r) \/ PostApply(r) \/ TriggerUnknown(r) \/ TriggerReadConfig(r)
  <2>1. mu' = mu /\ pc[r] \notin {"swap", "store", "reply"}
    BY <1>3 DEF PostMerge, PostApply, TriggerUnknown, TriggerReadConfig
  <2> QED BY <1>1, <1>2, <2>1, InsideQuiet
<1>4. CASE PostLock(r)
  <2>1. mu' = Announced("cfgMu", r) /\ pc[r] = "lock" /\ pc'[r] = "swap"
    BY <1>1, <1>4 DEF PostLock, Goto, Shape
  <2>2. /\ mu'["cfgMu"].writer = r /\ mu'["latestMu"].writer = mu["latestMu"].writer
        /\ \A m \in Mutex : mu'[m].readers = mu[m].readers
    BY <1>1, <2>1, Writers, Readers
  <2>3. mu["latestMu"].writer # r /\ \A m \in Mutex : r \notin mu[m].readers
    BY <1>1, <2>1 DEF Inside
  <2> QED BY <1>1, <1>2, <2>1, <2>2, <2>3, InsideWriting
<1>5. CASE PostSwap(r)
  <2>1. mu' = Released("cfgMu") /\ pc[r] = "swap"
    BY <1>5 DEF PostSwap, UnlockConfig
  <2>2. /\ mu'["cfgMu"].writer = None /\ mu'["latestMu"].writer = mu["latestMu"].writer
        /\ \A m \in Mutex : mu'[m].readers = mu[m].readers
    BY <1>1, <2>1, Writers, Readers
  <2>3. mu["latestMu"].writer # r /\ \A m \in Mutex : r \notin mu[m].readers
    BY <1>1, <2>1 DEF Inside
  <2>4. \A q \in Proc : q # None
    BY DEF Proc
  <2> QED BY <1>1, <1>2, <2>2, <2>3, <2>4, InsideWriting
<1>6. CASE ReplyLock(r)
  <2> DEFINE m == ReadMutex(r)
  <2>1. /\ mu' = Entered(m, r) /\ pc[r] \in {"new", "apply"} /\ pc'[r] = "reply"
        /\ m \in Mutex \ {"sensorMu"}
    BY <1>1, <1>6 DEF ReplyLock, Goto, Shape, ReadMutex
  <2> HIDE DEF m
  <2>2. \A n \in Mutex :
          /\ mu'[n].writer = mu[n].writer
          /\ n = m => mu'[n].readers = mu[n].readers \cup {r}
          /\ n # m => mu'[n].readers = mu[n].readers
    <3> TAKE n \in Mutex
    <3>1. m \in Mutex /\ Shape /\ mu' = Entered(m, r)
      BY <1>1, <2>1
    <3>2. Entered(m, r)[n].writer = mu[n].writer
      BY <3>1, Writers
    <3>3. /\ n = m => Entered(m, r)[n].readers = mu[n].readers \cup {r}
          /\ n # m => Entered(m, r)[n].readers = mu[n].readers
      BY <3>1, Readers
    <3> QED BY <3>1, <3>2, <3>3
  <2>3. /\ mu["cfgMu"].writer # r /\ mu["latestMu"].writer # r
        /\ \A n \in Mutex : r \notin mu[n].readers
    BY <1>1, <2>1 DEF Inside
  <2>4. /\ \A n \in Mutex : mu'[n].readers \subseteq mu[n].readers \cup {r}
        /\ \A n \in Mutex : r \in mu'[n].readers =>
             n # "sensorMu" /\ pc'[r] = "reply" /\ ReadMutex(r) = n
    BY <2>1, <2>2, <2>3 DEF m
  <2> QED BY <1>1, <1>2, <2>2, <2>3, <2>4, InsideReading
<1>7. CASE ReplyEnd(r)
  <2> DEFINE m == ReadMutex(r)
  <2>1. mu' = Left(m, r) /\ pc[r] = "reply" /\ m \in Mutex
    BY <1>1, <1>7 DEF ReplyEnd, ReadMutex
  <2> HIDE DEF m
  <2>2. \A n \in Mutex :
          /\ mu'[n].writer = mu[n].writer
          /\ n = m => mu'[n].readers = mu[n].readers \ {r}
          /\ n # m => mu'[n].readers = mu[n].readers
    <3> TAKE n \in Mutex
    <3>1. m \in Mutex /\ Shape /\ mu' = Left(m, r)
      BY <1>1, <2>1
    <3>2. Left(m, r)[n].writer = mu[n].writer
      BY <3>1, Writers
    <3>3. /\ n = m => Left(m, r)[n].readers = mu[n].readers \ {r}
          /\ n # m => Left(m, r)[n].readers = mu[n].readers
      BY <3>1, Readers
    <3> QED BY <3>1, <3>2, <3>3
  <2>3. mu["cfgMu"].writer # r /\ mu["latestMu"].writer # r
    BY <1>1, <2>1 DEF Inside
  <2>4. \A n \in Mutex : r \notin mu'[n].readers
    BY <2>2 DEF Inside, m
  <2>5. \A n \in Mutex : mu'[n].readers \subseteq mu[n].readers \cup {r}
    BY <2>2
  <2> QED BY <1>1, <1>2, <2>2, <2>3, <2>4, <2>5, InsideReading
<1>8. CASE TriggerFound(r)
  <2>1. mu' = TriggerHolds(r) /\ pc[r] = "new" /\ pc'[r] = "store"
    BY <1>1, <1>8 DEF TriggerFound, Goto, Shape
  <2>2. /\ mu'["cfgMu"].writer = mu["cfgMu"].writer /\ mu'["latestMu"].writer = r
        /\ \A m \in Mutex : mu'[m].readers = mu[m].readers
    BY <1>1, <2>1, Writers, Readers DEF TriggerHolds, Mutex
  <2>3. mu["cfgMu"].writer # r /\ \A m \in Mutex : r \notin mu[m].readers
    BY <1>1, <2>1 DEF Inside
  <2> QED BY <1>1, <1>2, <2>1, <2>2, <2>3, InsideWriting
<1>9. CASE TriggerStore(r)
  <2>1. mu' = Released("latestMu") /\ pc[r] = "store"
    BY <1>9 DEF TriggerStore
  <2>2. /\ mu'["latestMu"].writer = None /\ mu'["cfgMu"].writer = mu["cfgMu"].writer
        /\ \A m \in Mutex : mu'[m].readers = mu[m].readers
    BY <1>1, <2>1, Writers, Readers
  <2>3. mu["cfgMu"].writer # r /\ \A m \in Mutex : r \notin mu[m].readers
    BY <1>1, <2>1 DEF Inside
  <2>4. \A q \in Proc : q # None
    BY DEF Proc
  <2> QED BY <1>1, <1>2, <2>2, <2>3, <2>4, InsideWriting
<1>10. CASE TriggerSend(r)
  <2>1. mu' = Released("sensorMu") /\ pc[r] = "draw"
    BY <1>10 DEF TriggerSend
  <2>2. /\ mu'["cfgMu"].writer = mu["cfgMu"].writer
        /\ mu'["latestMu"].writer = mu["latestMu"].writer
        /\ \A m \in Mutex : mu'[m].readers = mu[m].readers
    BY <1>1, <2>1, Writers, Readers
  <2>3. /\ mu["cfgMu"].writer # r /\ mu["latestMu"].writer # r
        /\ \A m \in Mutex : r \notin mu[m].readers
    BY <1>1, <2>1 DEF Inside
  <2> QED BY <1>1, <1>2, <2>2, <2>3, InsideWriting
<1> QED BY <1>3, <1>4, <1>5, <1>6, <1>7, <1>8, <1>9, <1>10 DEF Handler, HandlerWork

LEMMA InsideSampler ==
  ASSUME IInv, Inside, Sampler PROVE Inside'
<1> DEFINE s == "sampler"
<1>1. Shape /\ s \in Proc /\ s \notin Req /\ s # None
      /\ {"cfgMu", "sensorMu", "latestMu"} \subseteq Mutex
  BY SimulatorAssumption DEF IInv, Proc, Mutex
<1>2. \A q \in Proc : q # s => pc'[q] = pc[q]
  BY <1>1 DEF Sampler, SampleReadConfig, SampleDraw, SampleMake, SampleStore, SampleSend,
     Goto, Shape
<1>3. \A m \in Mutex : s \notin mu[m].readers
  BY <1>1 DEF Shape, Lock
<1>4. \A q \in Proc : q # None
  BY SimulatorAssumption DEF Proc
<1> HIDE DEF s
<1>5. CASE SampleReadConfig \/ SampleSend
  <2>1. mu' = mu /\ pc[s] \notin {"swap", "store", "reply"}
    BY <1>5 DEF SampleReadConfig, SampleSend, s
  <2> QED BY <1>1, <1>2, <2>1, InsideQuiet
<1>6. CASE SampleDraw
  <2>1. mu' = Announced("sensorMu", s) /\ pc[s] = "draw"
    BY <1>6 DEF SampleDraw, s
  <2>2. /\ mu'["cfgMu"].writer = mu["cfgMu"].writer
        /\ mu'["latestMu"].writer = mu["latestMu"].writer
        /\ \A m \in Mutex : mu'[m].readers = mu[m].readers
    BY <1>1, <2>1, Writers, Readers
  <2>3. mu["cfgMu"].writer # s /\ mu["latestMu"].writer # s
    BY <1>1, <2>1 DEF Inside
  <2> QED BY <1>1, <1>2, <1>3, <2>2, <2>3, InsideWriting
<1>7. CASE SampleMake
  <2>1. mu' = Announced("latestMu", s) /\ pc[s] = "make" /\ pc'[s] = "store"
    BY <1>1, <1>7 DEF SampleMake, Goto, Shape, s
  <2>2. /\ mu'["cfgMu"].writer = mu["cfgMu"].writer /\ mu'["latestMu"].writer = s
        /\ \A m \in Mutex : mu'[m].readers = mu[m].readers
    BY <1>1, <2>1, Writers, Readers
  <2>3. mu["cfgMu"].writer # s
    BY <1>1, <2>1 DEF Inside
  <2> QED BY <1>1, <1>2, <1>3, <2>1, <2>2, <2>3, InsideWriting
<1>8. CASE SampleStore
  <2>1. /\ mu' = [m \in Mutex |-> IF m = "latestMu" \/ (m = "sensorMu" /\ pos = Len(Sensors))
                                  THEN Released(m)[m] ELSE mu[m]]
        /\ pc[s] = "store"
    BY <1>8 DEF SampleStore, s
  <2>2. /\ mu'["latestMu"].writer = None /\ mu'["cfgMu"].writer = mu["cfgMu"].writer
        /\ \A m \in Mutex : mu'[m].readers = mu[m].readers
    BY <1>1, <2>1, Writers, Readers
  <2>3. mu["cfgMu"].writer # s
    BY <1>1, <2>1 DEF Inside
  <2> QED BY <1>1, <1>2, <1>3, <1>4, <2>2, <2>3, InsideWriting
<1> QED BY <1>5, <1>6, <1>7, <1>8 DEF Sampler

LEMMA InsideStep == ASSUME IInv, Inside, [Next]_vars PROVE Inside'
<1>1. ASSUME NEW r \in Req, HandlerPanic(r) \/ SamplerPanic(r) PROVE Inside'
  <2>1. Shape /\ r \in Proc /\ "sampler" \in Proc
    BY DEF IInv, Proc
  <2>2. mu' = mu /\ pc[r] = "draw" /\ pc["sampler"] = "draw"
    BY <1>1 DEF HandlerPanic, SamplerPanic, Racing
  <2>3. \/ \A q \in Proc : q # r => pc'[q] = pc[q]
        \/ \A q \in Proc : q # "sampler" => pc'[q] = pc[q]
    BY <1>1, <2>1 DEF HandlerPanic, SamplerPanic, Goto, Shape
  <2> QED BY <2>1, <2>2, <2>3, InsideQuiet
<1>2. CASE UNCHANGED vars
  BY <1>2 DEF vars, Inside, ReadMutex
<1> QED BY <1>1, <1>2, InsideHandler, InsideSampler DEF Next

\* How far a process is from running: 0 waits for nobody, 1 for readers, 2 for
\* the writer of cfgMu or latestMu, 3 for that of sensorMu.
Depth(p) ==
  IF \E m \in Mutex : mu[m].writer = p /\ mu[m].readers # {} THEN 1
  ELSE IF Needs(p, "sensorMu") THEN 3
  ELSE IF Needs(p, "cfgMu") \/ Needs(p, "latestMu") THEN 2
  ELSE 0

LEMMA WaitsForLower ==
  ASSUME IInv, Inside, NEW p \in Proc, NEW q \in WaitsFor(p)
  PROVE  Depth(q) < Depth(p)
<1>1. Shape /\ Exclusive
  BY DEF IInv
<1>2. q \in Proc
  BY DEF WaitsFor
<1>3. PICK m \in Mutex : \/ Needs(p, m) /\ mu[m].writer = q
                         \/ mu[m].writer = p /\ q \in mu[m].readers
  BY DEF WaitsFor
<1>4. ASSUME NEW x \in Proc, pc[x] \in {"swap", "store", "reply"}, NEW n
      PROVE  ~ Needs(x, n)
  BY <1>4 DEF Needs
<1>5. ASSUME NEW x \in Proc, NEW n \in Mutex, mu[n].writer = x, mu[n].readers # {}
      PROVE  pc[x] \in {"swap", "store"}
  BY <1>5 DEF Inside, Mutex
<1>6. CASE Needs(p, m) /\ mu[m].writer = q
  <2>1. ~ \E n \in Mutex : mu[n].writer = p /\ mu[n].readers # {}
    BY <1>4, <1>5, <1>6
  <2>2. CASE m = "sensorMu"
    <3>1. Depth(p) = 3
      BY <1>6, <2>1, <2>2 DEF Depth
    <3>2. pc[q] \in {"make", "store", "dtu", "draw", "dead"} /\ (pc[q] = "draw" => q # "sampler")
      BY <1>1, <1>2, <1>6, <2>2 DEF Exclusive, Sampling, Triggering, Proc
    <3>3. ~ Needs(q, "sensorMu")
      BY <3>2 DEF Needs
    <3>4. Depth(q) \in 0 .. 2
      BY <3>3 DEF Depth
    <3> QED BY <3>1, <3>4
  <2>3. CASE m # "sensorMu"
    <3>1. pc[q] \in {"swap", "store"}
      BY <1>2, <1>6, <2>3 DEF Inside, Mutex
    <3>2. Depth(q) \in 0 .. 1
      BY <1>2, <1>4, <3>1 DEF Depth
    <3>3. Depth(p) \in 2 .. 3
      BY <1>6, <2>1, <2>3 DEF Depth, Mutex
    <3> QED BY <3>2, <3>3
  <2> QED BY <2>2, <2>3
<1>7. CASE mu[m].writer = p /\ q \in mu[m].readers
  <2>1. Depth(p) = 1
    BY <1>7 DEF Depth
  <2>2. pc[q] = "reply"
    BY <1>7 DEF Inside
  <2>3. ~ \E n \in Mutex : mu[n].writer = q /\ mu[n].readers # {}
    BY <1>2, <1>5, <2>2
  <2>4. Depth(q) = 0
    BY <1>2, <1>4, <2>2, <2>3 DEF Depth
  <2> QED BY <2>1, <2>4
<1> QED BY <1>3, <1>6, <1>7

\* The simulator's mutexes are asked for in an order: whatever requests arrive,
\* no processes wait for one another in a circle, with a dead handler or not.
THEOREM LocksAreOrdered == Spec => []NobodyWaitsInACircle
<1>1. IInv /\ Inside => NobodyWaitsInACircle
  <2> SUFFICES ASSUME IInv, Inside, NEW S \in SUBSET Proc, S # {}
               PROVE  \E p \in S : WaitsFor(p) \cap S = {}
    BY DEF NobodyWaitsInACircle
  <2>1. \A p : Depth(p) \in 0 .. 3
    BY DEF Depth
  <2>2. \A p, q \in S : q \in WaitsFor(p) => Depth(q) < Depth(p)
    BY WaitsForLower
  <2> HIDE DEF Depth
  <2>3. PICK p \in S : \A q \in S : Depth(p) <= Depth(q)
    <3>1. CASE \E p \in S : Depth(p) = 0
      BY <2>1, <3>1
    <3>2. CASE (\A p \in S : Depth(p) # 0) /\ \E p \in S : Depth(p) = 1
      BY <2>1, <3>2
    <3>3. CASE (\A p \in S : Depth(p) \notin {0, 1}) /\ \E p \in S : Depth(p) = 2
      BY <2>1, <3>3
    <3>4. CASE \A p \in S : Depth(p) \notin {0, 1, 2}
      BY <2>1, <3>4
    <3> QED BY <3>1, <3>2, <3>3, <3>4
  <2>4. ASSUME NEW q \in S, q \in WaitsFor(p) PROVE FALSE
    BY <2>1, <2>2, <2>3, <2>4
  <2> QED BY <2>4
<1>2. Init => IInv /\ Inside
  <2> SUFFICES ASSUME Init PROVE Inside
    BY InvInit
  <2>1. \A m \in Mutex : mu[m].writer = None /\ mu[m].readers = {}
    BY DEF Init, Unlocked
  <2>2. None \notin Proc
    BY SimulatorAssumption DEF Proc
  <2> QED BY <2>1, <2>2 DEF Inside, Mutex
<1>3. IInv /\ Inside /\ [Next]_vars => (IInv /\ Inside)'
  BY InvStep, InsideStep
<1> QED BY <1>1, <1>2, <1>3, PTL DEF Spec
=============================================================================
