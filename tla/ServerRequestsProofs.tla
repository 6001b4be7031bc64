------------------------ MODULE ServerRequestsProofs ------------------------
(***************************************************************************)
(* Proofs about ServerRequests, for any calls, capacities and times.       *)
(***************************************************************************)
EXTENDS ServerRequests, TLAPS

----------------------------------------------------------------------------
(***************************************************************************)
(* Types.                                                                  *)
(***************************************************************************)
Shape ==
  /\ phase \in Phases
  /\ drain \in 0..DrainTime
  /\ pc \in [Call -> {"new", "sending", "waiting", "done"}]
  /\ left \in [Call -> Nat]
  /\ answer \in [Call -> Answers]
  /\ respCh \in [Call -> {"empty", "ok", "failed"}]
  /\ queue \in [Service -> Seq(Call)]
  /\ worker \in [Service -> {"idle", "run", "insert", "grid", "reply", "exited"}]
  /\ job \in [Service -> Call \cup {None}]
  /\ result \in [Service -> {"none", "ok", "failed"}]
  /\ runs \in [Call -> Nat]
  /\ saved \in [Call -> {"none", "row", "rowAndGrid"}]

Bounded == \A s \in Service : Len(queue[s]) <= QueueCap

\* A worker between two requests holds none, any other holds one of its
\* service, and what it is about to send is a result.
Employed ==
  \A s \in Service :
    /\ worker[s] \in {"idle", "exited"} => job[s] = None
    /\ worker[s] \in {"run", "insert", "grid", "reply"} =>
         job[s] \in Call /\ Target[job[s]] = s
    /\ worker[s] \in {"insert", "grid"} => result[s] = "ok"
    /\ worker[s] = "reply" => result[s] \in {"ok", "failed"}

\* A channel holds requests for its own service.
Routed ==
  \A s \in Service : \A i \in 1..Len(queue[s]) : Target[queue[s][i]] = s

Typed == Shape /\ Bounded /\ Employed /\ Routed

LEMMA TypedInit == ASSUME Init PROVE Typed
BY ConstantsAssumption
   DEF Init, Typed, Shape, Bounded, Employed, Routed, Phases, Answers, Service

LEMMA TypedStep == ASSUME Typed, [Next]_vars PROVE Typed'
<1> USE ConstantsAssumption DEF Service
<1>0. Shape /\ Bounded /\ Employed /\ Routed  BY DEF Typed
<1>1. CASE UNCHANGED vars
  <2>1. Shape'
    BY <1>0, <1>1 DEF Shape, vars, mainVars, handlerVars, workVars
  <2>2. Bounded' /\ Employed' /\ Routed'
    BY <1>0, <1>1 DEF Bounded, Employed, Routed, vars, workVars
  <2> QED BY <2>1, <2>2 DEF Typed
<1>2. ASSUME NEW c \in Call, Arrive(c) PROVE Typed'
  BY <1>0, <1>2 DEF Typed, Shape, Bounded, Employed, Routed, Arrive, mainVars, workVars
<1>3. ASSUME NEW c \in Call, Enqueue(c) PROVE Typed'
  <2>1. /\ Target[c] \in Service
        /\ queue[Target[c]] \in Seq(Call)
        /\ Len(queue[Target[c]]) < QueueCap
    BY <1>0, <1>3 DEF Shape, Enqueue, HasRoom
  <2>2. /\ Append(queue[Target[c]], c) \in Seq(Call)
        /\ Len(Append(queue[Target[c]], c)) = Len(queue[Target[c]]) + 1
    BY <2>1
  <2>3. queue' \in [Service -> Seq(Call)]
    BY <1>0, <1>3, <2>1, <2>2 DEF Shape, Enqueue
  <2>4. Bounded'
    BY <1>0, <1>3, <2>1, <2>2 DEF Shape, Bounded, Enqueue
  <2>5. Shape'
    BY <1>0, <1>3, <2>3 DEF Shape, Enqueue, mainVars, workVars
  <2>6. Employed'
    BY <1>0, <1>3 DEF Employed, Enqueue, workVars
  <2>7. \A i \in 1..Len(queue[Target[c]]) + 1 :
          Append(queue[Target[c]], c)[i] =
            IF i = Len(queue[Target[c]]) + 1 THEN c ELSE queue[Target[c]][i]
    BY <2>1
  <2>8. ASSUME NEW s \in Service, NEW i \in 1..Len(queue'[s])
        PROVE  Target[queue'[s][i]] = s
    <3>1. CASE s = Target[c]
      <4>1. queue'[s] = Append(queue[s], c)
        BY <1>0, <1>3, <3>1 DEF Shape, Enqueue
      <4>2. i \in 1..Len(queue[s]) + 1
        BY <2>2, <3>1, <4>1
      <4> QED BY <1>0, <2>7, <3>1, <4>1, <4>2 DEF Routed
    <3>2. CASE s # Target[c]
      BY <1>0, <1>3, <2>1, <3>2 DEF Shape, Routed, Enqueue
    <3> QED BY <3>1, <3>2
  <2> QED BY <2>4, <2>5, <2>6, <2>8 DEF Typed, Routed
<1>4. ASSUME NEW c \in Call, Refuse(c) PROVE Typed'
  BY <1>0, <1>4 DEF Typed, Shape, Bounded, Employed, Routed, Refuse, Withdraw, Finish,
     mainVars, workVars, Answers
<1>5. ASSUME NEW c \in Call, SendOnClosed(c) PROVE Typed'
  BY <1>0, <1>5 DEF Typed, Shape, Bounded, Employed, Routed, SendOnClosed, Finish,
     mainVars, workVars, Answers
<1>6. ASSUME NEW c \in Call, Receive(c) PROVE Typed'
  <2>1. Shape'
    BY <1>0, <1>6 DEF Shape, Receive, Finish, mainVars, workVars, Answers
  <2> QED
    BY <1>0, <1>6, <2>1 DEF Typed, Bounded, Employed, Routed, Receive, workVars
<1>7. ASSUME NEW c \in Call, GiveUp(c) PROVE Typed'
  <2>1. Shape'
    BY <1>0, <1>7 DEF Shape, GiveUp, Finish, mainVars, workVars, Answers
  <2> QED
    BY <1>0, <1>7, <2>1 DEF Typed, Bounded, Employed, Routed, GiveUp, workVars
<1>8. ASSUME NEW s \in Service, Take(s) PROVE Typed'
  <2>1. queue[s] \in Seq(Call) /\ queue[s] # <<>>
    BY <1>0, <1>8 DEF Shape, Take
  <2>2. /\ Head(queue[s]) \in Call
        /\ Head(queue[s]) = queue[s][1]
        /\ 1 \in 1..Len(queue[s])
        /\ Tail(queue[s]) \in Seq(Call)
        /\ Len(Tail(queue[s])) = Len(queue[s]) - 1
        /\ \A i \in 1..Len(queue[s]) - 1 : Tail(queue[s])[i] = queue[s][i + 1]
    BY <2>1
  <2>0. queue' = [queue EXCEPT ![s] = Tail(queue[s])]
    BY <1>8 DEF Take, Rest
  <2>3. queue' \in [Service -> Seq(Call)] /\ Bounded'
    <3>1. queue' \in [Service -> Seq(Call)]
      BY <1>0, <2>0, <2>2 DEF Shape
    <3>0. queue'[s] = Tail(queue[s]) /\ Len(queue[s]) \in Nat
      BY <1>0, <2>0, <2>1 DEF Shape
    <3>2. Len(queue'[s]) <= QueueCap
      <4>1. Len(queue[s]) <= QueueCap
        BY <1>0 DEF Bounded
      <4> QED BY <2>2, <3>0, <4>1
    <3>3. \A z \in Service : z # s => queue'[z] = queue[z]
      BY <1>0, <2>0 DEF Shape
    <3> QED BY <1>0, <3>1, <3>2, <3>3 DEF Bounded
  <2>7. ASSUME NEW z \in Service, NEW i \in 1..Len(queue'[z])
        PROVE  Target[queue'[z][i]] = z
    <3>1. CASE z = s
      <4>1. queue'[z] = Tail(queue[s])  BY <1>0, <1>8, <3>1 DEF Shape, Take, Rest
      <4>2. i \in 1..Len(queue[s]) - 1 /\ i + 1 \in 1..Len(queue[s])
        BY <2>1, <2>2, <4>1
      <4> QED BY <1>0, <2>2, <3>1, <4>1, <4>2 DEF Routed
    <3>2. CASE z # s
      BY <1>0, <1>8, <3>2 DEF Shape, Routed, Take
    <3> QED BY <3>1, <3>2
  <2>4. runs' \in [Call -> Nat]
    <3>1. runs \in [Call -> Nat]
      BY <1>0 DEF Shape
    <3>2. runs' = [runs EXCEPT ![Head(queue[s])] = runs[Head(queue[s])] + 1]
      BY <1>8 DEF Take
    <3> QED BY <2>2, <3>1, <3>2
  <2>5. Shape'
    <3>1. job' = [job EXCEPT ![s] = Head(queue[s])] /\ worker' = [worker EXCEPT ![s] = "run"]
      BY <1>8 DEF Take
    <3>2. job' \in [Service -> Call \cup {None}]
      BY <1>0, <2>2, <3>1 DEF Shape
    <3>3. worker' \in [Service -> {"idle", "run", "insert", "grid", "reply", "exited"}]
      BY <1>0, <3>1 DEF Shape
    <3>4. UNCHANGED <<mainVars, handlerVars, respCh, result, saved>>
      BY <1>8 DEF Take
    <3> QED BY <1>0, <2>3, <2>4, <3>2, <3>3, <3>4 DEF Shape, mainVars, handlerVars
  <2>6. Employed'
    <3>1. Target[Head(queue[s])] = s
      BY <1>0, <2>2 DEF Routed
    <3>2. ASSUME NEW z \in Service, z # s
          PROVE  worker'[z] = worker[z] /\ job'[z] = job[z] /\ result'[z] = result[z]
      BY <1>0, <1>8, <3>2 DEF Shape, Take
    <3>3. worker'[s] = "run" /\ job'[s] = Head(queue[s])
      BY <1>0, <1>8 DEF Shape, Take
    <3> QED BY <1>0, <2>2, <3>1, <3>2, <3>3 DEF Employed
  <2> QED BY <2>3, <2>5, <2>6, <2>7 DEF Typed, Routed
<1>9. ASSUME NEW s \in Service, Compute(s) PROVE Typed'
  <2>1. Shape'
    BY <1>0, <1>9 DEF Shape, Compute, mainVars, handlerVars
  <2>2. Employed'
    <3>1. ASSUME NEW z \in Service, z # s
          PROVE  worker'[z] = worker[z] /\ job'[z] = job[z] /\ result'[z] = result[z]
      BY <1>0, <1>9, <3>1 DEF Shape, Compute
    <3>2. /\ worker[s] = "run" /\ job'[s] = job[s]
          /\ \/ worker'[s] = "insert" /\ result'[s] = "ok"
             \/ worker'[s] = "reply" /\ result'[s] = "failed"
      BY <1>0, <1>9 DEF Shape, Compute
    <3> QED BY <1>0, <3>1, <3>2 DEF Employed
  <2>3. Bounded' /\ Routed'
    BY <1>0, <1>9 DEF Bounded, Routed, Compute
  <2> QED BY <2>1, <2>2, <2>3 DEF Typed
<1>10. ASSUME NEW s \in Service, Insert(s) PROVE Typed'
  <2>1. job[s] \in Call
    BY <1>0, <1>10 DEF Employed, Insert
  <2>2. saved' \in [Call -> {"none", "row", "rowAndGrid"}]
    BY <1>0, <1>10, <2>1 DEF Shape, Insert
  <2>3. Shape'
    <3>1. worker' \in [Service -> {"idle", "run", "insert", "grid", "reply", "exited"}]
      BY <1>0, <1>10 DEF Shape, Insert
    <3>2. UNCHANGED <<mainVars, handlerVars, respCh, queue, job, result, runs>>
      BY <1>10 DEF Insert
    <3> QED BY <1>0, <2>2, <3>1, <3>2 DEF Shape, mainVars, handlerVars
  <2>4. Employed'
    <3>1. \A z \in Service : z # s => worker'[z] = worker[z]
      BY <1>0, <1>10 DEF Shape, Insert
    <3>2. worker[s] = "insert" /\ worker'[s] \in {"grid", "reply"}
      BY <1>0, <1>10 DEF Shape, Insert
    <3>3. UNCHANGED <<job, result>>
      BY <1>10 DEF Insert
    <3> QED BY <1>0, <3>1, <3>2, <3>3 DEF Employed
  <2>5. Bounded' /\ Routed'
    BY <1>0, <1>10 DEF Bounded, Routed, Insert
  <2> QED BY <2>3, <2>4, <2>5 DEF Typed
<1>11. ASSUME NEW s \in Service, InsertGrid(s) PROVE Typed'
  <2>1. job[s] \in Call
    BY <1>0, <1>11 DEF Employed, InsertGrid
  <2>2. saved' \in [Call -> {"none", "row", "rowAndGrid"}]
    BY <1>0, <1>11, <2>1 DEF Shape, InsertGrid
  <2>3. Shape'
    BY <1>0, <1>11, <2>2 DEF Shape, InsertGrid, mainVars, handlerVars
  <2>4. Employed'
    <3>1. \A z \in Service : z # s => worker'[z] = worker[z]
      BY <1>0, <1>11 DEF Shape, InsertGrid
    <3>2. worker[s] = "grid" /\ worker'[s] = "reply"
      BY <1>0, <1>11 DEF Shape, InsertGrid
    <3>3. UNCHANGED <<job, result>>
      BY <1>11 DEF InsertGrid
    <3> QED BY <1>0, <3>1, <3>2, <3>3 DEF Employed
  <2>5. Bounded' /\ Routed'
    BY <1>0, <1>11 DEF Bounded, Routed, InsertGrid
  <2> QED BY <2>3, <2>4, <2>5 DEF Typed
<1>12. ASSUME NEW s \in Service, Reply(s) PROVE Typed'
  <2>1. respCh' \in [Call -> {"empty", "ok", "failed"}]
    BY <1>0, <1>12 DEF Shape, Employed, Reply
  <2>2. Shape'
    BY <1>0, <1>12, <2>1 DEF Shape, Reply, mainVars, handlerVars
  <2>3. Employed'
    <3>1. ASSUME NEW z \in Service, z # s
          PROVE  worker'[z] = worker[z] /\ job'[z] = job[z] /\ result'[z] = result[z]
      BY <1>0, <1>12, <3>1 DEF Shape, Reply
    <3>2. worker'[s] = "idle" /\ job'[s] = None
      BY <1>0, <1>12 DEF Shape, Reply
    <3> QED BY <1>0, <3>1, <3>2 DEF Employed
  <2>4. Bounded' /\ Routed'
    BY <1>0, <1>12 DEF Bounded, Routed, Reply
  <2> QED BY <2>2, <2>3, <2>4 DEF Typed
<1>13. ASSUME NEW s \in Service, Leave(s) PROVE Typed'
  BY <1>0, <1>13 DEF Typed, Shape, Bounded, Employed, Routed, Leave,
     mainVars, handlerVars
<1>14. CASE Signal \/ CloseBus \/ StopSimulator \/ StopOptimizer \/ CloseDB
  <2>1. phase' \in Phases /\ drain' \in 0..DrainTime
    BY <1>0, <1>14 DEF Shape, Signal, CloseBus, StopSimulator, StopOptimizer,
       CloseDB, Phases
  <2>2. UNCHANGED <<handlerVars, respCh, queue, workVars, runs, saved>>
    BY <1>14 DEF Signal, CloseBus, StopSimulator, StopOptimizer, CloseDB
  <2>3. Shape'
    BY <1>0, <2>1, <2>2 DEF Shape, handlerVars, workVars
  <2>4. Bounded' /\ Employed' /\ Routed'
    BY <1>0, <2>2 DEF Bounded, Employed, Routed, workVars
  <2> QED BY <2>3, <2>4 DEF Typed
<1>15. ASSUME Die PROVE Typed'
  BY <1>0, <1>15 DEF Typed, Shape, Bounded, Employed, Routed, Die, Phases,
     Answers
<1>16. CASE Tick
  <2>1. drain' \in 0..DrainTime /\ left' \in [Call -> Nat]
    BY <1>0, <1>16 DEF Shape, Tick, Down
  <2> QED
    BY <1>0, <1>16, <2>1 DEF Typed, Shape, Bounded, Employed, Routed, Tick,
       workVars
<1> QED
  BY <1>1, <1>2, <1>3, <1>4, <1>5, <1>6, <1>7, <1>8, <1>9, <1>10, <1>11, <1>12,
     <1>13, <1>14, <1>15, <1>16
  DEF Next, Handler, Worker, Main, Return, Crash

LEMMA TypedHolds == Spec => []Typed
BY TypedInit, TypedStep, PTL DEF Spec

\* For any calls, channel capacity and times, every variable keeps its type, and
\* in particular no channel ever holds more than its capacity.
THEOREM ServerTypeCorrect == Spec => []TypeOK
<1>1. Typed => TypeOK  BY DEF Typed, Shape, Bounded, TypeOK
<1> QED BY <1>1, TypedHolds, PTL

----------------------------------------------------------------------------
(***************************************************************************)
(* The order of the shutdown.  No action lets a worker come back, and each *)
(* phase of main that waits for a worker is left only when it has exited.  *)
(***************************************************************************)
Joining ==
  /\ \A s \in Service : worker[s] = "exited" => BusClosed
  /\ phase \in {"stopOpt", "dbClosed", "down"} => worker["sim"] = "exited"
  /\ phase \in {"dbClosed", "down"} => worker["opt"] = "exited"

LEMMA JoiningInit == ASSUME Init PROVE Joining
BY DEF Init, Joining, Service

LEMMA JoiningStep == ASSUME Typed, Joining, [Next]_vars PROVE Joining'
<1> USE DEF Service
<1>0. worker \in [Service -> {"idle", "run", "insert", "grid", "reply", "exited"}]
  BY DEF Typed, Shape
<1>1. CASE UNCHANGED <<phase, worker>>
  BY <1>1 DEF Joining, BusClosed
<1>2. CASE UNCHANGED phase /\ \E s \in Service : Worker(s)
  <2>1. PICK s \in Service : Worker(s)  BY <1>2
  <2>2. CASE Leave(s)
    <3>1. BusClosed  BY <2>2 DEF Leave, MayLeave, Cancelled, BusClosed
    <3>2. worker' = [worker EXCEPT ![s] = "exited"]  BY <2>2 DEF Leave
    <3> QED BY <1>0, <1>2, <3>1, <3>2 DEF Joining, BusClosed
  <2>3. CASE Take(s) \/ Compute(s) \/ Insert(s) \/ InsertGrid(s) \/ Reply(s)
    <3>1. /\ worker[s] # "exited"
          /\ \A z \in Service : z # s => worker'[z] = worker[z]
          /\ worker'[s] # "exited"
      BY <1>0, <2>3 DEF Take, Compute, Insert, InsertGrid, Reply
    <3> QED BY <1>0, <1>2, <3>1 DEF Joining, BusClosed
  <2> QED BY <2>1, <2>2, <2>3 DEF Worker
<1>3. CASE UNCHANGED worker /\ (Signal \/ CloseBus \/ StopSimulator)
  BY <1>3 DEF Joining, BusClosed, Signal, CloseBus, StopSimulator
<1>4. CASE UNCHANGED worker /\ (StopOptimizer \/ CloseDB)
  BY <1>4 DEF Joining, BusClosed, StopOptimizer, CloseDB, Joined
<1>5. CASE Die
  BY <1>5 DEF Joining, BusClosed, Die
<1> QED
  <2>1. CASE UNCHANGED vars
    BY <1>1, <2>1 DEF vars, mainVars, workVars
  <2>2. CASE \E c \in Call : Arrive(c) \/ Handler(c)
    BY <1>1, <2>2 DEF Arrive, Handler, Enqueue, Refuse, SendOnClosed, Receive,
       GiveUp, mainVars, workVars
  <2>3. CASE \E s \in Service : Worker(s)
    <3>1. UNCHANGED phase
      BY <2>3 DEF Worker, Take, Compute, Insert, InsertGrid, Reply, Leave,
         mainVars
    <3> QED BY <1>2, <2>3, <3>1
  <2>4. CASE Main \/ Signal
    <3>1. CASE Return  BY <1>5, <3>1 DEF Return
    <3>2. CASE ~ Return
      <4>1. UNCHANGED worker
        BY <2>4, <3>2 DEF Main, Signal, CloseBus, StopSimulator, StopOptimizer,
           CloseDB, workVars
      <4> QED BY <1>3, <1>4, <2>4, <3>2, <4>1 DEF Main
    <3> QED BY <3>1, <3>2
  <2>5. CASE Tick  BY <1>1, <2>5 DEF Tick, workVars
  <2>6. CASE Crash  BY <1>5, <2>6 DEF Crash
  <2> QED BY <2>1, <2>2, <2>3, <2>4, <2>5, <2>6 DEF Next

\* Server.Stop and the deferred db.Close keep their order under every
\* interleaving: when the database is closed both workers have returned, and no
\* worker returns while the bus is open.
THEOREM WorkersOutlivedByDB == Spec => []WorkersEndBeforeDB
<1>1. Joining => WorkersEndBeforeDB
  BY DEF Joining, WorkersEndBeforeDB, Service
<1>2. Typed /\ Joining /\ [Next]_vars => Joining'  BY JoiningStep
<1> QED BY <1>1, <1>2, JoiningInit, TypedHolds, PTL DEF Spec

----------------------------------------------------------------------------
(***************************************************************************)
(* Where a call is.  A call is open from the moment its request enters the *)
(* channel until its handler has read the answer; a handler that gives up  *)
(* leaves the request open.  A request is in the channel before its work   *)
(* starts, with the worker until the answer is sent, and in no other place *)
(* at the same time.                                                       *)
(***************************************************************************)
Open(c) ==
  \/ pc[c] = "waiting" /\ answer[c] = "none"
  \/ pc[c] = "done" /\ answer[c] = "timeout"

QueuedOnce ==
  \A s \in Service : \A i \in 1..Len(queue[s]) :
    /\ Open(queue[s][i])
    /\ runs[queue[s][i]] = 0
    /\ \A j \in 1..Len(queue[s]) : i # j => queue[s][i] # queue[s][j]

WorkedOnce ==
  \A s \in Service : job[s] # None =>
    /\ Open(job[s])
    /\ runs[job[s]] = 1
    /\ respCh[job[s]] = "empty"

Waiting ==
  \A c \in Call :
    /\ pc[c] \in {"new", "sending"} => runs[c] = 0 /\ answer[c] = "none"
    /\ pc[c] = "waiting" => /\ answer[c] = "none"
                            /\ Queued(c) \/ AtWork(c) \/ respCh[c] # "empty"
    /\ pc[c] = "done" => answer[c] # "none"
    /\ respCh[c] # "empty" => Open(c) /\ runs[c] = 1

Placed == QueuedOnce /\ WorkedOnce /\ Waiting

LEMMA PlacedInit == ASSUME Init PROVE Placed
BY ConstantsAssumption
   DEF Init, Placed, QueuedOnce, WorkedOnce, Waiting, Open, Service

\* A step of a handler that takes nothing from the channel and puts nothing
\* into it: the one call changes, and no other handler is concerned.
LEMMA HandlerKeepsOthers ==
  ASSUME Typed, Placed, NEW c \in Call,
         UNCHANGED <<queue, job, runs>>,
         \A d \in Call \ {c} : /\ pc'[d] = pc[d] /\ answer'[d] = answer[d]
                               /\ respCh'[d] = respCh[d],
         Queued(c) \/ AtWork(c) => Open(c)',
         AtWork(c) => respCh'[c] = "empty",
         pc'[c] \in {"new", "sending"} => runs[c] = 0 /\ answer'[c] = "none",
         pc'[c] = "waiting" => FALSE,
         pc'[c] = "done" => answer'[c] # "none",
         respCh'[c] # "empty" => Open(c)' /\ runs[c] = 1
  PROVE  Placed'
<1>1. QueuedOnce'
  <2> SUFFICES ASSUME NEW s \in Service, NEW i \in 1..Len(queue[s])
               PROVE  /\ Open(queue[s][i])'
                      /\ runs[queue[s][i]] = 0
                      /\ \A j \in 1..Len(queue[s]) :
                           i # j => queue[s][i] # queue[s][j]
    BY DEF QueuedOnce
  <2>1. queue[s][i] \in Call  BY DEF Typed, Shape
  <2>2. Queued(queue[s][i])  BY DEF Queued
  <2> QED BY <2>1, <2>2 DEF Placed, QueuedOnce, Open
<1>2. WorkedOnce'
  <2> SUFFICES ASSUME NEW s \in Service, job[s] # None
               PROVE  /\ Open(job[s])'
                      /\ runs[job[s]] = 1
                      /\ respCh'[job[s]] = "empty"
    BY DEF WorkedOnce
  <2>1. job[s] \in Call  BY DEF Typed, Shape
  <2>2. AtWork(job[s])  BY DEF AtWork
  <2> QED BY <2>1, <2>2 DEF Placed, WorkedOnce, Open
<1>3. Waiting'
  BY DEF Placed, Waiting, Open, Queued, AtWork
<1> QED BY <1>1, <1>2, <1>3 DEF Placed

LEMMA PlacedHandler ==
  ASSUME Typed, Placed, NEW c \in Call,
         Arrive(c) \/ Refuse(c) \/ SendOnClosed(c) \/ Receive(c) \/ GiveUp(c)
  PROVE  Placed'
<1>1. /\ c \in DOMAIN pc /\ c \in DOMAIN answer /\ c \in DOMAIN respCh
      /\ \A d \in Call : d \in DOMAIN pc /\ d \in DOMAIN answer
                        /\ d \in DOMAIN respCh
  BY DEF Typed, Shape
<1>2. Queued(c) => Open(c)
  BY DEF Placed, QueuedOnce, Queued
<1>3. AtWork(c) => Open(c) /\ respCh[c] = "empty"
  BY ConstantsAssumption DEF Placed, WorkedOnce, AtWork
<1>4. /\ pc[c] \in {"new", "sending"} => runs[c] = 0 /\ answer[c] = "none"
      /\ pc[c] = "waiting" => answer[c] = "none"
      /\ pc[c] = "done" => answer[c] # "none"
      /\ respCh[c] # "empty" => Open(c) /\ runs[c] = 1
  BY DEF Placed, Waiting
<1>5. Queued(c) \/ AtWork(c) => pc[c] \notin {"new", "sending"}
  BY <1>2, <1>3 DEF Open
<1>6. CASE Arrive(c)
  <2>1. UNCHANGED <<queue, job, runs, respCh, answer>>
    BY <1>6 DEF Arrive, workVars
  <2>2. /\ pc[c] = "new" /\ pc'[c] = "sending"
        /\ \A d \in Call \ {c} : pc'[d] = pc[d]
    BY <1>1, <1>6 DEF Arrive
  <2> QED BY <1>4, <1>5, <2>1, <2>2, HandlerKeepsOthers DEF Open
<1>7. CASE Refuse(c) \/ SendOnClosed(c)
  <2>1. UNCHANGED <<queue, job, runs, respCh>>
    BY <1>7 DEF Refuse, SendOnClosed, Withdraw, workVars
  <2>2. /\ pc[c] = "sending" /\ pc'[c] = "done" /\ answer'[c] \in {"busy", "panic"}
        /\ \A d \in Call \ {c} : pc'[d] = pc[d] /\ answer'[d] = answer[d]
    BY <1>1, <1>7 DEF Refuse, SendOnClosed, Finish
  <2> QED BY <1>4, <1>5, <2>1, <2>2, HandlerKeepsOthers DEF Open
<1>8. CASE GiveUp(c)
  <2>1. UNCHANGED <<queue, job, runs, respCh>>
    BY <1>8 DEF GiveUp, workVars
  <2>2. /\ pc[c] = "waiting" /\ pc'[c] = "done" /\ answer'[c] = "timeout"
        /\ \A d \in Call \ {c} : pc'[d] = pc[d] /\ answer'[d] = answer[d]
    BY <1>1, <1>8 DEF GiveUp, Finish
  <2> QED BY <1>3, <1>4, <2>1, <2>2, HandlerKeepsOthers DEF Open
<1>9. CASE Receive(c)
  <2>1. UNCHANGED <<queue, job, runs>>
    BY <1>9 DEF Receive, workVars
  <2>2. /\ respCh[c] # "empty" /\ respCh'[c] = "empty" /\ pc'[c] = "done"
        /\ answer'[c] = respCh[c]
        /\ \A d \in Call \ {c} : /\ pc'[d] = pc[d] /\ answer'[d] = answer[d]
                               /\ respCh'[d] = respCh[d]
    BY <1>1, <1>9 DEF Receive, Finish
  <2>3. respCh[c] \in {"ok", "failed"}
    BY <2>2 DEF Typed, Shape
  <2>4. runs[c] = 1 /\ ~ AtWork(c)
    BY <1>3, <1>4, <2>2
  <2>5. ~ Queued(c)
    BY <2>4 DEF Placed, QueuedOnce, Queued
  <2> QED BY <2>1, <2>2, <2>3, <2>4, <2>5, HandlerKeepsOthers
<1> QED BY <1>6, <1>7, <1>8, <1>9

LEMMA PlacedEnqueue ==
  ASSUME Typed, Placed, NEW c \in Call, Enqueue(c) PROVE Placed'
<1> USE ConstantsAssumption
<1> DEFINE t == Target[c]
<1>1. /\ t \in Service
      /\ queue[t] \in Seq(Call)
      /\ \A s \in Service : queue[s] \in Seq(Call)
  BY DEF Typed, Shape
<1>2. /\ pc[c] = "sending" /\ pc'[c] = "waiting"
      /\ \A d \in Call \ {c} : pc'[d] = pc[d]
      /\ queue'[t] = Append(queue[t], c)
      /\ \A s \in Service \ {t} : queue'[s] = queue[s]
      /\ UNCHANGED <<answer, respCh, job, runs>>
  BY DEF Enqueue, Typed, Shape, workVars
<1>3. runs[c] = 0 /\ answer[c] = "none" /\ ~ Open(c)
  BY <1>2 DEF Placed, Waiting, Open
<1>4. /\ Len(queue'[t]) = Len(queue[t]) + 1
      /\ queue'[t][Len(queue[t]) + 1] = c
      /\ \A i \in 1..Len(queue[t]) : queue'[t][i] = queue[t][i]
      /\ Len(queue[t]) \in Nat
  BY <1>1, <1>2
<1>5. \A s \in Service : \A i \in 1..Len(queue[s]) :
        /\ queue[s][i] \in Call \ {c}
        /\ pc'[queue[s][i]] = pc[queue[s][i]]
        /\ Open(queue[s][i])
        /\ runs[queue[s][i]] = 0
  <2> SUFFICES ASSUME NEW s \in Service, NEW i \in 1..Len(queue[s])
               PROVE  /\ queue[s][i] \in Call \ {c}
                      /\ pc'[queue[s][i]] = pc[queue[s][i]]
                      /\ Open(queue[s][i])
                      /\ runs[queue[s][i]] = 0
    OBVIOUS
  <2>1. queue[s][i] \in Call  BY <1>1
  <2>2. Open(queue[s][i]) /\ runs[queue[s][i]] = 0
    BY DEF Placed, QueuedOnce
  <2> QED BY <1>2, <1>3, <2>1, <2>2
<1>6. Open(c)'
  BY <1>2, <1>3 DEF Open
<1>7. QueuedOnce'
  <2> SUFFICES ASSUME NEW s \in Service, NEW i \in 1..Len(queue'[s])
               PROVE  /\ Open(queue[s][i])'
                      /\ runs'[queue'[s][i]] = 0
                      /\ \A j \in 1..Len(queue'[s]) :
                           i # j => queue'[s][i] # queue'[s][j]
    BY DEF QueuedOnce
  <2>1. CASE s # t
    <3>1. queue'[s] = queue[s]  BY <1>2, <2>1
    <3>2. /\ pc'[queue[s][i]] = pc[queue[s][i]]
          /\ Open(queue[s][i])
          /\ runs[queue[s][i]] = 0
      BY <1>5, <3>1
    <3>3. \A j \in 1..Len(queue[s]) : i # j => queue[s][i] # queue[s][j]
      BY <3>1 DEF Placed, QueuedOnce
    <3> QED BY <1>2, <3>1, <3>2, <3>3 DEF Open
  <2>2. CASE s = t /\ i = Len(queue[t]) + 1
    <3>1. queue'[s][i] = c  BY <1>4, <2>2
    <3>2. ASSUME NEW j \in 1..Len(queue'[s]), i # j
          PROVE  queue'[s][i] # queue'[s][j]
      <4>1. j \in 1..Len(queue[t])  BY <1>4, <2>2, <3>2
      <4>2. queue[t][j] # c  BY <1>1, <1>5, <4>1
      <4> QED BY <1>4, <2>2, <3>1, <4>1, <4>2
    <3> QED BY <1>2, <1>3, <1>6, <3>1, <3>2
  <2>3. CASE s = t /\ i # Len(queue[t]) + 1
    <3>1. i \in 1..Len(queue[t])  BY <1>4, <2>3
    <3>2. ASSUME NEW j \in 1..Len(queue'[s]), i # j
          PROVE  queue'[s][i] # queue'[s][j]
      <4>1. CASE j = Len(queue[t]) + 1
        <5>1. queue[t][i] # c  BY <1>1, <1>5, <3>1
        <5> QED BY <1>4, <2>3, <3>1, <4>1, <5>1
      <4>2. CASE j # Len(queue[t]) + 1
        <5>1. j \in 1..Len(queue[t])  BY <1>4, <2>3, <4>2
        <5>2. queue[t][i] # queue[t][j]
          BY <1>1, <3>1, <3>2, <5>1 DEF Placed, QueuedOnce
        <5> QED BY <1>4, <2>3, <3>1, <5>1, <5>2
      <4> QED BY <4>1, <4>2
    <3>3. queue'[s][i] = queue[t][i]  BY <1>4, <2>3, <3>1
    <3>4. /\ pc'[queue[t][i]] = pc[queue[t][i]]
          /\ Open(queue[t][i])
          /\ runs[queue[t][i]] = 0
      BY <1>1, <1>5, <3>1
    <3> QED BY <1>2, <2>3, <3>2, <3>3, <3>4 DEF Open
  <2> QED BY <2>1, <2>2, <2>3
<1>8. WorkedOnce'
  BY <1>2, <1>3 DEF Placed, WorkedOnce, Open, Typed, Shape
<1>9. Waiting'
  <2> SUFFICES ASSUME NEW d \in Call
               PROVE  /\ pc'[d] \in {"new", "sending"} =>
                           runs'[d] = 0 /\ answer'[d] = "none"
                      /\ pc'[d] = "waiting" =>
                           /\ answer'[d] = "none"
                           /\ Queued(d)' \/ AtWork(d)' \/ respCh'[d] # "empty"
                      /\ pc'[d] = "done" => answer'[d] # "none"
                      /\ respCh'[d] # "empty" => Open(d)' /\ runs'[d] = 1
    BY DEF Waiting
  <2>1. AtWork(d) => AtWork(d)'
    BY <1>2 DEF AtWork
  <2>2. Queued(d) => Queued(d)'
    <3> SUFFICES ASSUME NEW s \in Service, NEW i \in 1..Len(queue[s]),
                        queue[s][i] = d
                 PROVE  Queued(d)'
      BY DEF Queued
    <3>1. CASE s # t  BY <1>2, <3>1 DEF Queued
    <3>2. CASE s = t
      <4>1. i \in 1..Len(queue'[t]) /\ queue'[t][i] = d  BY <1>4, <3>2
      <4> QED BY <1>1, <4>1 DEF Queued
    <3> QED BY <3>1, <3>2
  <2>3. Queued(c)'
    <3>1. Len(queue[t]) + 1 \in 1..Len(queue'[t])  BY <1>4
    <3> QED BY <1>1, <1>4, <3>1 DEF Queued
  <2>4. CASE d = c
    BY <1>2, <1>3, <2>3, <2>4 DEF Placed, Waiting
  <2>5. CASE d # c
    BY <1>2, <2>1, <2>2, <2>5 DEF Placed, Waiting, Open
  <2> QED BY <2>4, <2>5
<1> QED BY <1>7, <1>8, <1>9 DEF Placed

\* What Take does, spelt out: the head of one channel moves to its worker.
LEMMA TakeMoves ==
  ASSUME Typed, Placed, NEW s \in Service, Take(s)
  PROVE  LET h == Head(queue[s]) IN
         /\ h \in Call /\ h = queue[s][1] /\ 1 \in 1..Len(queue[s])
         /\ Open(h) /\ runs[h] = 0 /\ respCh[h] = "empty" /\ job[s] = None
         /\ Len(queue'[s]) = Len(queue[s]) - 1 /\ Len(queue[s]) \in Nat
         /\ \A i \in 1..Len(queue[s]) - 1 : queue'[s][i] = queue[s][i + 1]
         /\ \A z \in Service \ {s} : queue'[z] = queue[z] /\ job'[z] = job[z]
         /\ job'[s] = h /\ runs'[h] = 1
         /\ \A d \in Call \ {h} : runs'[d] = runs[d]
         /\ UNCHANGED <<pc, answer, respCh>>
<1> DEFINE h == Head(queue[s])
<1>1. queue[s] \in Seq(Call) /\ queue[s] # <<>>
  BY DEF Typed, Shape, Take
<1>2. /\ h \in Call /\ h = queue[s][1] /\ 1 \in 1..Len(queue[s])
      /\ Len(queue[s]) \in Nat
      /\ Len(Tail(queue[s])) = Len(queue[s]) - 1
      /\ \A i \in 1..Len(queue[s]) - 1 : Tail(queue[s])[i] = queue[s][i + 1]
  BY <1>1
<1>3. Open(h) /\ runs[h] = 0
  BY <1>2 DEF Placed, QueuedOnce
<1>4. respCh[h] = "empty"
  BY <1>2, <1>3 DEF Placed, Waiting
<1>5. job[s] = None
  BY DEF Take, Typed, Employed
<1>6. /\ queue'[s] = Tail(queue[s])
      /\ \A z \in Service \ {s} : queue'[z] = queue[z] /\ job'[z] = job[z]
      /\ job'[s] = h
  BY DEF Take, Rest, Typed, Shape
<1>7. runs'[h] = 1 /\ \A d \in Call \ {h} : runs'[d] = runs[d]
  BY <1>2, <1>3 DEF Take, Typed, Shape
<1>8. UNCHANGED <<pc, answer, respCh>>
  BY DEF Take, handlerVars
<1> QED BY <1>2, <1>3, <1>4, <1>5, <1>6, <1>7, <1>8

LEMMA PlacedTake ==
  ASSUME Typed, Placed, NEW s \in Service, Take(s) PROVE Placed'
<1> DEFINE h == Head(queue[s])
<1>1. /\ h \in Call /\ h = queue[s][1] /\ 1 \in 1..Len(queue[s])
      /\ Open(h) /\ runs[h] = 0 /\ respCh[h] = "empty" /\ job[s] = None
      /\ Len(queue'[s]) = Len(queue[s]) - 1 /\ Len(queue[s]) \in Nat
      /\ \A i \in 1..Len(queue[s]) - 1 : queue'[s][i] = queue[s][i + 1]
      /\ \A z \in Service \ {s} : queue'[z] = queue[z] /\ job'[z] = job[z]
      /\ job'[s] = h /\ runs'[h] = 1
      /\ \A d \in Call \ {h} : runs'[d] = runs[d]
      /\ UNCHANGED <<pc, answer, respCh>>
  BY TakeMoves
<1> HIDE DEF h
<1>2. ASSUME NEW z \in Service, NEW i \in 1..Len(queue[z]), z # s \/ i # 1
      PROVE  queue[z][i] \in Call \ {h}
  <2>1. queue[z][i] \in Call  BY DEF Typed, Shape
  <2>2. CASE z = s
    BY <1>1, <1>2, <2>1, <2>2 DEF Placed, QueuedOnce
  <2>3. CASE z # s
    <3>1. Target[queue[z][i]] = z /\ Target[h] = s
      BY <1>1 DEF Typed, Routed
    <3> QED BY <2>1, <2>3, <3>1
  <2> QED BY <2>2, <2>3
<1>3. QueuedOnce'
  <2> SUFFICES ASSUME NEW z \in Service, NEW i \in 1..Len(queue'[z])
               PROVE  /\ Open(queue[z][i])'
                      /\ runs'[queue'[z][i]] = 0
                      /\ \A j \in 1..Len(queue'[z]) :
                           i # j => queue'[z][i] # queue'[z][j]
    BY DEF QueuedOnce
  <2>1. CASE z # s
    <3>1. queue'[z] = queue[z]  BY <1>1, <2>1
    <3>2. /\ Open(queue[z][i]) /\ runs[queue[z][i]] = 0
          /\ \A j \in 1..Len(queue[z]) : i # j => queue[z][i] # queue[z][j]
      BY <3>1 DEF Placed, QueuedOnce
    <3>3. queue[z][i] \in Call \ {h}  BY <1>2, <2>1, <3>1
    <3> QED BY <1>1, <3>1, <3>2, <3>3 DEF Open
  <2>2. CASE z = s
    <3>1. /\ i \in 1..Len(queue[s]) - 1
          /\ i + 1 \in 1..Len(queue[s]) /\ i + 1 # 1
          /\ queue'[z][i] = queue[s][i + 1]
      BY <1>1, <2>2
    <3>2. Open(queue[s][i + 1]) /\ runs[queue[s][i + 1]] = 0
      BY <3>1 DEF Placed, QueuedOnce
    <3>3. queue[s][i + 1] \in Call \ {h}  BY <1>2, <3>1
    <3>4. ASSUME NEW j \in 1..Len(queue'[z]), i # j
          PROVE  queue'[z][i] # queue'[z][j]
      <4>1. /\ j + 1 \in 1..Len(queue[s]) /\ i + 1 # j + 1
            /\ queue'[z][j] = queue[s][j + 1]
        BY <1>1, <2>2, <3>1, <3>4
      <4> QED BY <3>1, <4>1 DEF Placed, QueuedOnce
    <3> QED BY <1>1, <3>1, <3>2, <3>3, <3>4 DEF Open
  <2> QED BY <2>1, <2>2
<1>4. WorkedOnce'
  <2> SUFFICES ASSUME NEW z \in Service, job'[z] # None
               PROVE  /\ Open(job[z])'
                      /\ runs'[job'[z]] = 1
                      /\ respCh'[job'[z]] = "empty"
    BY DEF WorkedOnce
  <2>1. CASE z = s
    BY <1>1, <2>1 DEF Open
  <2>2. CASE z # s
    <3>1. job'[z] = job[z]  BY <1>1, <2>2
    <3>2. /\ Open(job[z]) /\ runs[job[z]] = 1 /\ respCh[job[z]] = "empty"
          /\ job[z] \in Call /\ job[z] # h
      BY <1>1, <3>1 DEF Placed, WorkedOnce, Typed, Shape
    <3> QED BY <1>1, <3>1, <3>2 DEF Open
  <2> QED BY <2>1, <2>2
<1>5. ASSUME NEW d \in Call, Queued(d), d # h PROVE Queued(d)'
  <2>0. PICK z \in Service : \E i \in 1..Len(queue[z]) : queue[z][i] = d
    BY <1>5 DEF Queued
  <2>1. PICK i \in 1..Len(queue[z]) : queue[z][i] = d
    BY <2>0
  <2>2. CASE z # s
    BY <1>1, <2>1, <2>2 DEF Queued
  <2>3. CASE z = s
    <3>1. i # 1  BY <1>1, <1>5, <2>1, <2>3
    <3>2. /\ i - 1 \in 1..Len(queue'[s])
          /\ queue'[s][i - 1] = queue[s][(i - 1) + 1]
          /\ (i - 1) + 1 = i
      BY <1>1, <2>3, <3>1
    <3> QED BY <2>1, <2>3, <3>2 DEF Queued
  <2> QED BY <2>2, <2>3
<1>6. ASSUME NEW d \in Call, AtWork(d) PROVE AtWork(d)' /\ d # h
  <2>1. PICK z \in Service : job[z] = d  BY <1>6 DEF AtWork
  <2>2. z # s  BY <1>1, <2>1, ConstantsAssumption
  <2>3. runs[d] = 1  BY <2>1, ConstantsAssumption DEF Placed, WorkedOnce
  <2> QED BY <1>1, <2>1, <2>2, <2>3 DEF AtWork
<1>7. ASSUME NEW d \in Call, d = h PROVE AtWork(d)'
  BY <1>1, <1>7 DEF AtWork
<1>8. Waiting'
  <2> SUFFICES ASSUME NEW d \in Call
               PROVE  /\ pc'[d] \in {"new", "sending"} =>
                           runs'[d] = 0 /\ answer'[d] = "none"
                      /\ pc'[d] = "waiting" =>
                           /\ answer'[d] = "none"
                           /\ Queued(d)' \/ AtWork(d)' \/ respCh'[d] # "empty"
                      /\ pc'[d] = "done" => answer'[d] # "none"
                      /\ respCh'[d] # "empty" => Open(d)' /\ runs'[d] = 1
    BY DEF Waiting
  <2>1. CASE d = h
    BY <1>1, <1>7, <2>1 DEF Placed, Waiting, Open
  <2>2. CASE d # h
    BY <1>1, <1>5, <1>6, <2>2 DEF Placed, Waiting, Open
  <2> QED BY <2>1, <2>2
<1> QED BY <1>3, <1>4, <1>8 DEF Placed

LEMMA PlacedReply ==
  ASSUME Typed, Placed, NEW s \in Service, Reply(s) PROVE Placed'
<1> USE ConstantsAssumption
<1> DEFINE h == job[s]
<1>1. /\ h \in Call /\ Target[h] = s
      /\ result[s] \in {"ok", "failed"}
  BY DEF Reply, Typed, Employed
<1>2. Open(h) /\ runs[h] = 1 /\ respCh[h] = "empty"
  BY <1>1 DEF Placed, WorkedOnce
<1>3. /\ respCh'[h] \in {"ok", "failed"}
      /\ \A d \in Call \ {h} : respCh'[d] = respCh[d]
      /\ job'[s] = None
      /\ \A z \in Service \ {s} : job'[z] = job[z]
      /\ UNCHANGED <<pc, answer, queue, runs>>
  BY <1>1, <1>2 DEF Reply, Typed, Shape, handlerVars
<1> HIDE DEF h
<1>4. QueuedOnce'
  BY <1>3 DEF Placed, QueuedOnce, Open
<1>5. WorkedOnce'
  <2> SUFFICES ASSUME NEW z \in Service, job'[z] # None
               PROVE  /\ Open(job[z])'
                      /\ runs'[job'[z]] = 1
                      /\ respCh'[job'[z]] = "empty"
    BY DEF WorkedOnce
  <2>1. z # s /\ job'[z] = job[z]  BY <1>3
  <2>2. Open(job[z]) /\ runs[job[z]] = 1 /\ respCh[job[z]] = "empty"
    BY <2>1 DEF Placed, WorkedOnce
  <2>3. job[z] \in Call /\ Target[job[z]] = z
    BY <2>1 DEF Typed, Shape, Employed
  <2> QED BY <1>1, <1>3, <2>1, <2>2, <2>3 DEF Open
<1>6. \A d \in Call : Queued(d)' <=> Queued(d)
  BY <1>3 DEF Queued
<1>7. \A d \in Call \ {h} : AtWork(d) => AtWork(d)'
  BY <1>3 DEF AtWork, h
<1>8. Waiting'
  BY <1>1, <1>2, <1>3, <1>6, <1>7 DEF Placed, Waiting, Open
<1> QED BY <1>4, <1>5, <1>8 DEF Placed

LEMMA PlacedDie == ASSUME Typed, Placed, Die PROVE Placed'
<1>1. QueuedOnce'
  BY DEF Die, QueuedOnce
<1>2. WorkedOnce'
  BY DEF Die, WorkedOnce
<1>3. Waiting'
  BY DEF Die, Typed, Shape, Placed, Waiting, Busy, Open
<1> QED BY <1>1, <1>2, <1>3 DEF Placed

LEMMA PlacedStep == ASSUME Typed, Placed, [Next]_vars PROVE Placed'
<1>1. CASE UNCHANGED <<pc, answer, respCh, queue, job, runs>>
  BY <1>1 DEF Placed, QueuedOnce, WorkedOnce, Waiting, Open, Queued, AtWork
<1>2. CASE UNCHANGED vars
  BY <1>1, <1>2 DEF vars, handlerVars, workVars
<1>3. CASE \E c \in Call : Arrive(c) \/ Handler(c)
  BY <1>3, PlacedHandler, PlacedEnqueue DEF Handler
<1>4. ASSUME NEW s \in Service, Worker(s) PROVE Placed'
  <2>1. CASE Take(s)  BY <2>1, PlacedTake
  <2>2. CASE Reply(s)  BY <2>2, PlacedReply
  <2>3. CASE Compute(s) \/ Insert(s) \/ InsertGrid(s) \/ Leave(s)
    BY <1>1, <2>3 DEF Compute, Insert, InsertGrid, Leave, handlerVars
  <2> QED BY <1>4, <2>1, <2>2, <2>3 DEF Worker
<1>5. CASE Signal \/ CloseBus \/ StopSimulator \/ StopOptimizer \/ CloseDB
  BY <1>1, <1>5 DEF Signal, CloseBus, StopSimulator, StopOptimizer, CloseDB,
     handlerVars, workVars
<1>6. CASE Return \/ Crash
  BY <1>6, PlacedDie DEF Return, Crash
<1>7. CASE Tick
  BY <1>1, <1>7 DEF Tick, workVars
<1> QED BY <1>2, <1>3, <1>4, <1>5, <1>6, <1>7 DEF Next, Main

LEMMA PlacedHolds == Spec => []Placed
<1>1. Typed /\ Placed /\ [Next]_vars => Placed'  BY PlacedStep
<1> QED BY <1>1, PlacedInit, TypedHolds, PTL DEF Spec

----------------------------------------------------------------------------
\* For any number of calls, capacity and times: a waiting handler has a request
\* in the channel, at work or answered, through timeouts, a closed bus and
\* cancelled workers; and no request in the channel or at work was refused.
THEOREM NoCallIsForgotten == Spec => []EveryWaitHasACause
<1>1. Placed => EveryWaitHasACause
  <2> SUFFICES ASSUME Placed, NEW c \in Call
               PROVE  /\ pc[c] = "waiting" =>
                           Queued(c) \/ AtWork(c) \/ respCh[c] # "empty"
                      /\ Queued(c) \/ AtWork(c) => answer[c] \in {"none", "timeout"}
    BY DEF EveryWaitHasACause
  <2>1. Queued(c) => Open(c)
    BY DEF Placed, QueuedOnce, Queued
  <2>2. AtWork(c) => Open(c)
    BY ConstantsAssumption DEF Placed, WorkedOnce, AtWork
  <2> QED BY <2>1, <2>2 DEF Placed, Waiting, Open
<1> QED BY <1>1, PlacedHolds, PTL

\* A worker that is about to answer finds the response channel empty: it has
\* answered this call never before, and nobody else answers it.
THEOREM NoAnswerIsDropped == Spec => []ReplyNeverDropped
<1>1. Typed /\ Placed => ReplyNeverDropped
  BY ConstantsAssumption DEF Typed, Employed, Placed, WorkedOnce, ReplyNeverDropped
<1> QED BY <1>1, TypedHolds, PlacedHolds, PTL

LEMMA PromiseInit == ASSUME Init PROVE Promise!Init
BY DEF Init, Promise!Init, Asked

LEMMA PromiseStep ==
  ASSUME Typed, Placed, [Next]_vars PROVE [Promise!Next]_(Promise!vars)
<1> USE ConstantsAssumption
<1>0. /\ pc \in [Call -> {"new", "sending", "waiting", "done"}]
      /\ answer \in [Call -> Answers]
      /\ respCh \in [Call -> {"empty", "ok", "failed"}]
      /\ runs \in [Call -> Nat]
  BY DEF Typed, Shape
<1>1. CASE UNCHANGED <<pc, answer, runs>>
  BY <1>1 DEF Promise!vars, Asked
<1>2. ASSUME NEW c \in Call, Arrive(c) PROVE Promise!Next
  <2>1. /\ c \notin Asked /\ Asked' = Asked \cup {c}
        /\ UNCHANGED <<runs, answer>>
    BY <1>0, <1>2 DEF Arrive, Asked
  <2> QED BY <2>1 DEF Promise!Next, Promise!Ask
<1>3. ASSUME NEW c \in Call, Enqueue(c) PROVE UNCHANGED Promise!vars
  <2>1. Asked' = Asked /\ UNCHANGED <<runs, answer>>
    BY <1>0, <1>3 DEF Enqueue, Asked
  <2> QED BY <2>1 DEF Promise!vars
<1>4. ASSUME NEW c \in Call, NEW a, Finish(c, a), UNCHANGED runs,
             pc[c] \in {"sending", "waiting"},
             a \in {"ok", "failed", "busy", "timeout", "panic"},
             a \in {"ok", "failed"} => runs[c] = 1,
             a \in {"busy", "panic"} => runs[c] = 0
      PROVE  Promise!Next
  <2>1. Asked' = Asked /\ c \in Asked
    BY <1>0, <1>4 DEF Finish, Asked
  <2>2. answer[c] = "none"
    BY <1>4 DEF Placed, Waiting
  <2>3. Promise!Answer(c, a)
    BY <1>4, <2>1, <2>2 DEF Promise!Answer, Finish
  <2> QED BY <1>4, <2>3 DEF Promise!Next
<1>5. ASSUME NEW c \in Call, Refuse(c) \/ SendOnClosed(c) PROVE Promise!Next
  <2>1. runs[c] = 0
    BY <1>5 DEF Refuse, SendOnClosed, Placed, Waiting
  <2> QED BY <1>4, <1>5, <2>1 DEF Refuse, SendOnClosed
<1>6. ASSUME NEW c \in Call, Receive(c) PROVE Promise!Next
  <2>1. runs[c] = 1 /\ respCh[c] \in {"ok", "failed"}
    BY <1>0, <1>6 DEF Receive, Placed, Waiting
  <2> QED BY <1>4, <1>6, <2>1 DEF Receive
<1>7. ASSUME NEW c \in Call, GiveUp(c) PROVE Promise!Next
  BY <1>4, <1>7 DEF GiveUp
<1>8. ASSUME NEW s \in Service, Take(s) PROVE Promise!Next
  <2> DEFINE h == Head(queue[s])
  <2>1. /\ h \in Call /\ Open(h) /\ runs[h] = 0
        /\ UNCHANGED <<pc, answer>>
    BY <1>8, TakeMoves
  <2>2. runs' = [runs EXCEPT ![h] = 1]
    BY <1>0, <1>8, <2>1 DEF Take
  <2>3. h \in Asked /\ Asked' = Asked
    BY <2>1 DEF Asked, Open
  <2>4. answer[h] \in {"none", "timeout"}
    BY <2>1 DEF Open
  <2>5. Promise!Work(h)
    BY <2>1, <2>2, <2>3, <2>4 DEF Promise!Work
  <2> QED BY <2>1, <2>5 DEF Promise!Next
<1>9. CASE Die
  <2>1. Asked' = Asked
    BY <1>0, <1>9 DEF Die, Asked, Busy
  <2>2. \A c \in Call : Busy(c) <=> c \in Asked /\ answer[c] = "none"
    BY <1>0 DEF Placed, Waiting, Asked, Busy
  <2>3. Promise!CutOff
    BY <1>9, <2>1, <2>2 DEF Die, Promise!CutOff
  <2> QED BY <2>3 DEF Promise!Next
<1>10. ASSUME NEW s \in Service, Worker(s), ~ Take(s) PROVE UNCHANGED <<pc, answer, runs>>
  BY <1>10 DEF Worker, Compute, Insert, InsertGrid, Reply, Leave, handlerVars
<1>11. CASE Signal \/ CloseBus \/ StopSimulator \/ StopOptimizer \/ CloseDB \/ Tick
  BY <1>1, <1>11 DEF Signal, CloseBus, StopSimulator, StopOptimizer, CloseDB,
     Tick, handlerVars
<1>12. CASE UNCHANGED vars
  BY <1>1, <1>12 DEF vars, handlerVars
<1> QED
  BY <1>1, <1>2, <1>3, <1>5, <1>6, <1>7, <1>8, <1>9, <1>10, <1>11, <1>12
  DEF Next, Handler, Main, Return, Crash

\* The server with its queues, timers, workers and shutdown implements the
\* abstract promise: work at most once, results only from the call's own work,
\* nothing done for a refused call, no answer revised.
THEOREM ServerKeepsPromise == Spec => PromiseSpec
<1>1. Typed /\ Placed /\ [Next]_vars => [Promise!Next]_(Promise!vars)
  BY PromiseStep
<1> QED
  BY <1>1, PromiseInit, TypedHolds, PlacedHolds, PTL
  DEF Spec, PromiseSpec, Promise!Spec
=============================================================================
