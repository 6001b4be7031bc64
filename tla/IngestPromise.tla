--------------------------- MODULE IngestPromise ---------------------------
(***************************************************************************)
(* What the ingest of telemetry promises a DTU that uploads batches of     *)
(* readings: a batch is stored as a whole or not at all, only stored       *)
(* readings are handed to the alarm service, each once and in the order of *)
(* the batch, and a batch reported as a success was stored.                *)
(***************************************************************************)
EXTENDS Integers

CONSTANT Upload

VARIABLES
  size,     \* the number of readings of each upload, 0 before it is received
  stored,   \* the readings in the database
  handed,   \* the readings handed to the alarm service
  answer    \* "none" until the upload is answered

vars == <<size, stored, handed, answer>>

Readings(u) == {u} \X (1..size[u])

Init ==
  /\ size = [u \in Upload |-> 0]
  /\ stored = {} /\ handed = {}
  /\ answer = [u \in Upload |-> "none"]

Receive(u) ==
  /\ size[u] = 0
  /\ size'[u] \in Nat /\ size' = [size EXCEPT ![u] = size'[u]]
  /\ UNCHANGED <<stored, handed, answer>>

Store(u) ==
  /\ answer[u] = "none" /\ Readings(u) \cap stored = {}
  /\ stored' = stored \cup Readings(u)
  /\ \/ UNCHANGED answer
     \/ answer' = [answer EXCEPT ![u] = "failed"]
  /\ UNCHANGED <<size, handed>>

Hand(u, i) ==
  /\ answer[u] = "none"
  /\ <<u, i>> \in stored
  /\ \A j \in i..size[u] : <<u, j>> \notin handed
  /\ handed' = handed \cup {<<u, i>>}
  /\ UNCHANGED <<size, stored, answer>>

Answer(u) ==
  /\ answer[u] = "none"
  /\ answer'[u] = "ok" => Readings(u) \subseteq stored
  /\ \A v \in Upload \ {u} : answer'[v] = answer[v]
  /\ UNCHANGED <<size, stored, handed>>

\* The process dies: uploads in progress are cut off.
Die ==
  /\ \A u \in Upload : answer'[u] # answer[u] => answer[u] = "none" /\ answer'[u] # "ok"
  /\ UNCHANGED <<size, stored, handed>>

Next ==
  \/ \E u \in Upload : Receive(u) \/ Store(u) \/ Answer(u)
  \/ \E u \in Upload : \E i \in 1..size[u] : Hand(u, i)
  \/ Die

Spec == Init /\ [][Next]_vars
============================================================================
