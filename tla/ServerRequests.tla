--------------------------- MODULE ServerRequests ---------------------------
(***************************************************************************)
(* The calls of the API that run a simulation or an optimisation, and the  *)
(* shutdown of the server: handleRunSimulation and handleRunOptimization   *)
(* of internal/api/server.go, the loops of seepage_simulator and           *)
(* anti_seepage_optimizer, Bus.Close, Server.Stop and cmd/main.go.         *)
(*                                                                         *)
(* A handler sends the request on the bounded channel of its service and   *)
(* waits for the answer on a channel of its own (capacity 1), each time    *)
(* racing a timer.  One worker goroutine per service serves the requests   *)
(* in turn.  After a signal, main waits for the handlers no longer than    *)
(* DrainTime, closes the channels under whoever is left, stops the         *)
(* workers, closes the database and returns.                               *)
(***************************************************************************)
EXTENDS Integers, Sequences

CONSTANTS
  Call,         \* HTTP requests, each with its goroutine and response channel
  Target,       \* the service a call is for, "sim" or "opt"
  None,
  QueueCap,     \* capacity of SimRequestCh and of OptRequestCh (128)
  SendTime,     \* ticks a handler waits for room in the channel (3 s)
  WaitTime,     \* ticks it waits for the answer, per service (60 s, 300 s)
  DrainTime     \* ticks main waits for the handlers (30 s)

Service == {"sim", "opt"}

ASSUME ConstantsAssumption ==
  /\ Target \in [Call -> Service]
  /\ None \notin Call
  /\ {QueueCap, SendTime, DrainTime} \subseteq Nat \ {0}
  /\ WaitTime \in [Service -> Nat \ {0}]

VARIABLES
  phase,    \* where main is, see Phases
  drain,    \* ticks until srv.Shutdown gives up
  pc,       \* where the handler of a call is
  left,     \* ticks until the timer of its select fires
  answer,   \* what the caller was told
  respCh,   \* the response channel of a call
  queue,    \* SimRequestCh and OptRequestCh
  worker,   \* where the loop of a service is
  job,      \* the request it works on
  result,   \* what Run returns
  runs,     \* history: how often Run was called for a call
  saved     \* what the database holds of the work of a call

mainVars    == <<phase, drain>>
handlerVars == <<pc, left, answer>>
workVars    == <<worker, job, result>>
vars == <<mainVars, handlerVars, respCh, queue, workVars, runs, saved>>

\* "closed": the bus is closed, the other modules are being stopped; "stopSim",
\* "stopOpt": that service is cancelled and waited for.
Phases == {"serving", "draining", "closed", "stopSim", "stopOpt", "dbClosed",
           "down"}

BusClosed == phase \notin {"serving", "draining"}

Cancelled(s) ==
  \/ s = "sim" /\ phase \in {"stopSim", "stopOpt", "dbClosed"}
  \/ s = "opt" /\ phase \in {"stopOpt", "dbClosed"}

Busy(c) == pc[c] \in {"sending", "waiting"}

----------------------------------------------------------------------------
(***************************************************************************)
(* The handlers.  A select with a timer takes either case once both are    *)
(* ready; sending on a closed channel panics, which gin turns into a 500.  *)
(***************************************************************************)
Finish(c, a) ==
  /\ pc' = [pc EXCEPT ![c] = "done"]
  /\ left' = [left EXCEPT ![c] = 0]
  /\ answer' = [answer EXCEPT ![c] = a]

Arrive(c) ==
  /\ phase = "serving"
  /\ pc[c] = "new"
  /\ pc' = [pc EXCEPT ![c] = "sending"]
  /\ left' = [left EXCEPT ![c] = SendTime]
  /\ UNCHANGED <<mainVars, answer, respCh, queue, workVars, runs, saved>>

\* A mutant of HasRoom: one more than the channel holds.
RoomForOneMore(s) == Len(queue[s]) <= QueueCap

HasRoom(s) == Len(queue[s]) < QueueCap

Enqueue(c) ==
  /\ pc[c] = "sending"
  /\ ~ BusClosed
  /\ HasRoom(Target[c])
  /\ queue' = [queue EXCEPT ![Target[c]] = Append(@, c)]
  /\ pc' = [pc EXCEPT ![c] = "waiting"]
  /\ left' = [left EXCEPT ![c] = WaitTime[Target[c]]]
  /\ UNCHANGED <<mainVars, answer, respCh, workVars, runs, saved>>

\* A mutant of Withdraw: the request is sent all the same, as by a goroutine
\* of its own that nobody tells of the timeout.
SendAnyway(c) ==
  IF HasRoom(Target[c])
  THEN queue' = [queue EXCEPT ![Target[c]] = Append(@, c)]
  ELSE UNCHANGED queue

\* The other case of the select won: the request is not in the channel.
Withdraw(c) == UNCHANGED queue

Refuse(c) ==
  /\ pc[c] = "sending"
  /\ left[c] = 0
  /\ Withdraw(c)
  /\ Finish(c, "busy")
  /\ UNCHANGED <<mainVars, respCh, workVars, runs, saved>>

SendOnClosed(c) ==
  /\ pc[c] = "sending"
  /\ BusClosed
  /\ Finish(c, "panic")
  /\ UNCHANGED <<mainVars, respCh, queue, workVars, runs, saved>>

Receive(c) ==
  /\ pc[c] = "waiting"
  /\ respCh[c] # "empty"
  /\ Finish(c, respCh[c])
  /\ respCh' = [respCh EXCEPT ![c] = "empty"]
  /\ UNCHANGED <<mainVars, queue, workVars, runs, saved>>

\* A mutant of WaitOver: the handler waits without a timer.
WaitForEver(c) == FALSE

WaitOver(c) == left[c] = 0

\* The work goes on; nobody will read its answer.
GiveUp(c) ==
  /\ pc[c] = "waiting"
  /\ WaitOver(c)
  /\ Finish(c, "timeout")
  /\ UNCHANGED <<mainVars, respCh, queue, workVars, runs, saved>>

----------------------------------------------------------------------------
(***************************************************************************)
(* The loop of a service.  Run stores its result before it is sent; no     *)
(* database error reaches the caller.  A simulation is stored in two       *)
(* calls, its row and then its grid, an optimisation in one.               *)
(***************************************************************************)
\* A mutant of Rest: the request is read and left in the channel.
NotRemoved(q) == q

Rest(q) == Tail(q)

Take(s) ==
  /\ worker[s] = "idle"
  /\ queue[s] # <<>>
  /\ queue' = [queue EXCEPT ![s] = Rest(@)]
  /\ job' = [job EXCEPT ![s] = Head(queue[s])]
  /\ runs' = [runs EXCEPT ![Head(queue[s])] = @ + 1]
  /\ worker' = [worker EXCEPT ![s] = "run"]
  /\ UNCHANGED <<mainVars, handlerVars, respCh, result, saved>>

Compute(s) ==
  /\ worker[s] = "run"
  /\ \/ /\ result' = [result EXCEPT ![s] = "ok"]
        /\ worker' = [worker EXCEPT ![s] = "insert"]
     \/ /\ result' = [result EXCEPT ![s] = "failed"]
        /\ worker' = [worker EXCEPT ![s] = "reply"]
  /\ UNCHANGED <<mainVars, handlerVars, respCh, queue, job, runs, saved>>

\* InsertSimulation or InsertOptimizationResult; when it fails the row may be
\* there all the same.
Insert(s) ==
  /\ worker[s] = "insert"
  /\ \/ /\ saved' = [saved EXCEPT ![job[s]] = "row"]
        /\ worker' = [worker EXCEPT ![s] = IF s = "sim" THEN "grid" ELSE "reply"]
     \/ /\ saved' \in {saved, [saved EXCEPT ![job[s]] = "row"]}
        /\ worker' = [worker EXCEPT ![s] = "reply"]
  /\ UNCHANGED <<mainVars, handlerVars, respCh, queue, job, result, runs>>

\* InsertSimulationGrids, one transaction, its error ignored.
InsertGrid(s) ==
  /\ worker[s] = "grid"
  /\ saved' \in {saved, [saved EXCEPT ![job[s]] = "rowAndGrid"]}
  /\ worker' = [worker EXCEPT ![s] = "reply"]
  /\ UNCHANGED <<mainVars, handlerVars, respCh, queue, job, result, runs>>

\* A full response channel drops the answer.
Reply(s) ==
  /\ worker[s] = "reply"
  /\ respCh' = IF respCh[job[s]] = "empty"
               THEN [respCh EXCEPT ![job[s]] = result[s]]
               ELSE respCh
  /\ worker' = [worker EXCEPT ![s] = "idle"]
  /\ job' = [job EXCEPT ![s] = None]
  /\ result' = [result EXCEPT ![s] = "none"]
  /\ UNCHANGED <<mainVars, handlerVars, queue, runs, saved>>

\* A mutant of MayLeave: a break that leaves only the select.
NeverLeaves(s) == FALSE

\* The context is done, or the channel is closed and drained.  With both a
\* request and a done context, the select takes either.
MayLeave(s) == Cancelled(s) \/ (BusClosed /\ queue[s] = <<>>)

Leave(s) ==
  /\ worker[s] = "idle"
  /\ MayLeave(s)
  /\ worker' = [worker EXCEPT ![s] = "exited"]
  /\ UNCHANGED <<mainVars, handlerVars, respCh, queue, job, result, runs, saved>>

----------------------------------------------------------------------------
(***************************************************************************)
(* main: srv.Shutdown, then the deferred Server.Stop and db.Close.         *)
(***************************************************************************)
Signal ==
  /\ phase = "serving"
  /\ phase' = "draining"
  /\ drain' = DrainTime
  /\ UNCHANGED <<handlerVars, respCh, queue, workVars, runs, saved>>

\* Shutdown returns when no handler is active or its time is over; Server.Stop
\* begins with Bus.Close.
CloseBus ==
  /\ phase = "draining"
  /\ drain = 0 \/ \A c \in Call : ~ Busy(c)
  /\ phase' = "closed"
  /\ drain' = 0
  /\ UNCHANGED <<handlerVars, respCh, queue, workVars, runs, saved>>

StopSimulator ==
  /\ phase = "closed"
  /\ phase' = "stopSim"
  /\ UNCHANGED <<drain, handlerVars, respCh, queue, workVars, runs, saved>>

\* A mutant of Joined: Stop without wg.Wait.
NotJoined(s) == TRUE

Joined(s) == worker[s] = "exited"

StopOptimizer ==
  /\ phase = "stopSim"
  /\ Joined("sim")
  /\ phase' = "stopOpt"
  /\ UNCHANGED <<drain, handlerVars, respCh, queue, workVars, runs, saved>>

CloseDB ==
  /\ phase = "stopOpt"
  /\ Joined("opt")
  /\ phase' = "dbClosed"
  /\ UNCHANGED <<drain, handlerVars, respCh, queue, workVars, runs, saved>>

\* The process is gone, and with it every handler and worker.
Die ==
  /\ phase' = "down"
  /\ drain' = 0
  /\ pc' = [c \in Call |-> IF Busy(c) THEN "done" ELSE pc[c]]
  /\ answer' = [c \in Call |-> IF Busy(c) THEN "cut" ELSE answer[c]]
  /\ left' = [c \in Call |-> 0]
  /\ respCh' = [c \in Call |-> "empty"]
  /\ queue' = [s \in Service |-> <<>>]
  /\ worker' = [s \in Service |-> "exited"]
  /\ job' = [s \in Service |-> None]
  /\ result' = [s \in Service |-> "none"]
  /\ UNCHANGED <<runs, saved>>

Return == phase = "dbClosed" /\ Die

Crash == phase # "down" /\ Die

----------------------------------------------------------------------------
Down(n) == IF n > 0 THEN n - 1 ELSE 0

Tick ==
  /\ phase # "down"
  /\ left' = [c \in Call |-> Down(left[c])]
  /\ drain' = Down(drain)
  /\ UNCHANGED <<phase, pc, answer, respCh, queue, workVars, runs, saved>>

Init ==
  /\ phase = "serving"
  /\ drain = 0
  /\ pc = [c \in Call |-> "new"]
  /\ left = [c \in Call |-> 0]
  /\ answer = [c \in Call |-> "none"]
  /\ respCh = [c \in Call |-> "empty"]
  /\ queue = [s \in Service |-> <<>>]
  /\ worker = [s \in Service |-> "idle"]
  /\ job = [s \in Service |-> None]
  /\ result = [s \in Service |-> "none"]
  /\ runs = [c \in Call |-> 0]
  /\ saved = [c \in Call |-> "none"]

Handler(c) ==
  \/ Enqueue(c)
  \/ Refuse(c)
  \/ SendOnClosed(c)
  \/ Receive(c)
  \/ GiveUp(c)

Worker(s) ==
  \/ Take(s)
  \/ Compute(s)
  \/ Insert(s)
  \/ InsertGrid(s)
  \/ Reply(s)
  \/ Leave(s)

Main == CloseBus \/ StopSimulator \/ StopOptimizer \/ CloseDB \/ Return

Next ==
  \/ \E c \in Call : Arrive(c) \/ Handler(c)
  \/ \E s \in Service : Worker(s)
  \/ Main
  \/ Tick
  \/ Signal
  \/ Crash

Spec == Init /\ [][Next]_vars

\* Handlers are scheduled and time passes; the workers may stand still.
HandlerSpec ==
  /\ Spec
  /\ \A c \in Call : WF_vars(Handler(c))
  /\ WF_vars(Tick)

----------------------------------------------------------------------------
(***************************************************************************)
(*                              Properties                                 *)
(***************************************************************************)
Answers == {"none", "ok", "failed", "busy", "timeout", "panic", "cut"}

\* The type invariant; the channels never hold more than their capacity.
TypeOK ==
  /\ phase \in Phases
  /\ drain \in 0..DrainTime
  /\ pc \in [Call -> {"new", "sending", "waiting", "done"}]
  /\ left \in [Call -> Nat]
  /\ answer \in [Call -> Answers]
  /\ respCh \in [Call -> {"empty", "ok", "failed"}]
  /\ queue \in [Service -> Seq(Call)]
  /\ \A s \in Service : Len(queue[s]) <= QueueCap
  /\ worker \in [Service -> {"idle", "run", "insert", "grid", "reply", "exited"}]
  /\ job \in [Service -> Call \cup {None}]
  /\ result \in [Service -> {"none", "ok", "failed"}]
  /\ runs \in [Call -> Nat]
  /\ saved \in [Call -> {"none", "row", "rowAndGrid"}]

Queued(c) == \E s \in Service : \E i \in 1..Len(queue[s]) : queue[s][i] = c
AtWork(c) == \E s \in Service : job[s] = c

\* A handler that waits is waiting for something: its request is in the
\* channel, in the hands of the worker or answered, whatever shutdown has
\* closed or cancelled in the meantime; and a request in the channel or at
\* work has not been told that it was refused or how it ended.
EveryWaitHasACause ==
  \A c \in Call :
    /\ pc[c] = "waiting" => Queued(c) \/ AtWork(c) \/ respCh[c] # "empty"
    /\ Queued(c) \/ AtWork(c) => answer[c] \in {"none", "timeout"}

\* The response channel has room for the answer whenever a worker sends one, so
\* the branch "response channel full" is never taken and no result is lost,
\* even when the handler has long given up.
ReplyNeverDropped ==
  \A s \in Service : worker[s] = "reply" => respCh[job[s]] = "empty"

\* Shutdown order: no worker is left to use the database once it is closed, and
\* a worker leaves only after the bus was closed.
WorkersEndBeforeDB ==
  \A s \in Service :
    /\ phase \in {"dbClosed", "down"} => worker[s] = "exited"
    /\ worker[s] = "exited" => BusClosed

Asked == {c \in Call : pc[c] # "new"}

\* Every call that reaches a handler is answered, also when the worker of its
\* service never finishes another computation: while calls are being handled a time
\* is to come when all that were asked have their answers.
EveryCallIsAnswered ==
  (\E c \in Call : Busy(c)) ~> (\A c \in Asked : answer[c] # "none")

\* After the signal the process comes to its end, whatever the handlers do, if
\* only the workers and main are scheduled and every computation ends: no module
\* waits for another one for ever.
ShutdownCompletes ==
  (WF_vars(Main) /\ \A s \in Service : WF_vars(Worker(s)))
    => (phase = "draining" ~> phase = "down")

\* The server implements RequestReply: the work of a call is done at most once,
\* a result is that of its own work, a refused call leaves no work behind, and
\* no answer is ever revised.
Promise == INSTANCE RequestReply WITH asked <- Asked

PromiseSpec == Promise!Spec
=============================================================================
