---------------------------- MODULE AlarmOutbox ----------------------------
(***************************************************************************)
(* What the alarm service promises for every alarm it raises, without its  *)
(* queue, its goroutines, its retries or its clock.                        *)
(***************************************************************************)
CONSTANT Alarm

VARIABLES
  pending,     \* raised, still to be published
  sent,        \* confirmed by the broker
  abandoned    \* dropped after the last retry, or lost with the process

vars == <<pending, sent, abandoned>>

Init == pending = {} /\ sent = {} /\ abandoned = {}

\* An alarm is raised once.
Raise(a) ==
  /\ a \notin pending \cup sent \cup abandoned
  /\ pending' = pending \cup {a}
  /\ UNCHANGED <<sent, abandoned>>

\* The broker confirms a pending alarm; it is not published again.
Send(a) ==
  /\ a \in pending
  /\ pending' = pending \ {a}
  /\ sent' = sent \cup {a}
  /\ UNCHANGED abandoned

\* The service gives some pending alarms up: one, or all when the process ends.
Abandon(A) ==
  /\ A \subseteq pending
  /\ pending' = pending \ A
  /\ abandoned' = abandoned \cup A
  /\ UNCHANGED sent

Next ==
  \/ \E a \in Alarm : Raise(a) \/ Send(a)
  \/ \E A \in SUBSET Alarm : Abandon(A)

Spec == Init /\ [][Next]_vars
============================================================================
