---------------------------- MODULE RequestReply ----------------------------
(***************************************************************************)
(* What the server promises a caller who asks for a simulation or an       *)
(* optimisation, without its queues, workers, timeouts or shutdown.        *)
(***************************************************************************)
EXTENDS Naturals

CONSTANT Call

VARIABLES
  asked,     \* calls that reached the server
  runs,      \* how often the work of a call was started
  answer     \* what the caller was told, "none" before that

vars == <<asked, runs, answer>>

Init ==
  /\ asked = {}
  /\ runs = [c \in Call |-> 0]
  /\ answer = [c \in Call |-> "none"]

Ask(c) ==
  /\ c \notin asked
  /\ asked' = asked \cup {c}
  /\ UNCHANGED <<runs, answer>>

\* The work is done at most once, never for a call that was refused and never
\* again for one that has its result; a caller who stopped waiting is served.
Work(c) ==
  /\ c \in asked
  /\ runs[c] = 0
  /\ answer[c] \in {"none", "timeout"}
  /\ runs' = [runs EXCEPT ![c] = 1]
  /\ UNCHANGED <<asked, answer>>

\* A result is that of the work; a refusal says that nothing was done.
Answer(c, a) ==
  /\ c \in asked
  /\ answer[c] = "none"
  /\ a \in {"ok", "failed"} => runs[c] = 1
  /\ a \in {"busy", "panic"} => runs[c] = 0
  /\ answer' = [answer EXCEPT ![c] = a]
  /\ UNCHANGED <<asked, runs>>

\* The process ends and cuts off whoever was not answered yet.
CutOff ==
  /\ answer' = [c \in Call |->
                  IF c \in asked /\ answer[c] = "none" THEN "cut" ELSE answer[c]]
  /\ UNCHANGED <<asked, runs>>

Next ==
  \/ \E c \in Call :
       \/ Ask(c)
       \/ Work(c)
       \/ \E a \in {"ok", "failed", "busy", "timeout", "panic"} : Answer(c, a)
  \/ CutOff

Spec == Init /\ [][Next]_vars
=============================================================================
