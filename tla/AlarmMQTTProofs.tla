-------------------------- MODULE AlarmMQTTProofs --------------------------
(***************************************************************************)
(* Theorems about AlarmMQTT, for every set of sensors, values and tags,    *)
(* every configuration of thresholds and every bound.                      *)
(***************************************************************************)
EXTENDS AlarmMQTT, SequenceTheorems, TLAPS

USE DEF vars, lifeVars, alarmVars, itemVars, passVars, netVars, dbVars, coolVars

\* The program counters agree with what the loops are holding.
Working ==
  /\ alarmPc \in {"insert", "publish", "mark", "push"} => current \in Reading
  /\ alarmPc \in {"idle", "exited"} => current = None
  /\ ~ RetryMuHeld => pos = 1 /\ kept = <<>>
  /\ retryPc = "mark" => pos > 1
  /\ phase = "down" => alarmPc = "exited" /\ retryPc = "exited"

Typed == TypeOK /\ Working

----------------------------------------------------------------------------
(***************************************************************************)
(*                          The type invariant                             *)
(***************************************************************************)
LEMMA BoundedAppend ==
  ASSUME NEW S, NEW s \in Seq(S), NEW x \in S, NEW t, NEW n \in Nat,
         Len(s) <= n,
         t = s \/ (t = Append(s, x) /\ Len(s) < n)
  PROVE  t \in Seq(S) /\ Len(t) <= n
BY AppendProperties, LenProperties

LEMMA ItemTyped ==
  ASSUME Typed, InPass
  PROVE  Item \in Reading /\ pos + 1 \in 1..Len(retryQueue) + 1
BY ElementOfSeq DEF InPass, Item, Typed, TypeOK

LEMMA MarkedItemTyped ==
  ASSUME Typed, retryPc = "mark"
  PROVE  retryQueue[pos - 1] \in Reading
<1>1. pos - 1 \in 1..Len(retryQueue)
  BY LenProperties DEF Typed, TypeOK, Working
<1> QED
  BY <1>1, ElementOfSeq DEF Typed, TypeOK

LEMMA TypedInit == Init => Typed
BY ConstantsAssumption, EmptySeq
   DEF Init, Typed, TypeOK, Working, RetryMuHeld, Fates

LEMMA TypedTake == Typed /\ Take => Typed'
<1> SUFFICES ASSUME Typed, Take PROVE Typed'
  OBVIOUS
<1> DEFINE r == Head(requests)
<1>1. r \in Reading /\ requests' \in Seq(Reading)
  BY HeadTailProperties DEF Typed, TypeOK, Take
<1>2. Len(requests') <= QueueCap
  BY HeadTailProperties, LenProperties, ConstantsAssumption DEF Typed, TypeOK, Take
<1>3. r.sensor \in Sensor
  BY <1>1 DEF Reading
<1>4. \A f \in Fates : [fate EXCEPT ![r] = f] \in [Reading -> Fates]
  BY <1>1 DEF Typed, TypeOK
<1>5. fate' \in [Reading -> Fates]
  BY <1>4 DEF Take, Unknown, Suppress, Pass, Raise, Fates
<1>6. \A n \in 0..Cooldown : /\ [cooldown EXCEPT ![r.sensor] = n] \in [Sensor -> 0..Cooldown]
                             /\ [since EXCEPT ![r.sensor] = n] \in [Sensor -> 0..Cooldown]
  BY <1>3 DEF Typed, TypeOK
<1>7. 0 \in 0..Cooldown /\ Cooldown \in 0..Cooldown
  BY ConstantsAssumption
<1>8. cooldown' \in [Sensor -> 0..Cooldown]
  <2>1. \/ UNCHANGED cooldown
        \/ cooldown' = [cooldown EXCEPT ![r.sensor] = Cooldown]
    BY DEF Take, Unknown, Suppress, Pass, Raise, Stamp, coolVars
  <2> QED
    BY <1>6, <1>7, <2>1 DEF Typed, TypeOK
<1>9. since' \in [Sensor -> 0..Cooldown]
  BY <1>6, <1>7 DEF Take, Unknown, Suppress, Pass, Raise, Typed, TypeOK
<1>10. Working' /\ alarmPc' \in {"idle", "insert"} /\ current' \in Reading \cup {None}
  BY <1>1 DEF Take, Unknown, Suppress, Pass, Raise, Typed, TypeOK, Working, RetryMuHeld
<1> QED
  BY <1>1, <1>2, <1>5, <1>8, <1>9, <1>10 DEF Typed, TypeOK, Take

LEMMA TypedAlarm == Typed /\ AlarmStep => Typed'
<1> SUFFICES ASSUME Typed, AlarmStep PROVE Typed'
  OBVIOUS
<1> USE DEF Typed, TypeOK, Working, RetryMuHeld
<1>1. CASE Take
  BY <1>1, TypedTake
<1>2. CASE Insert
  BY <1>2 DEF Insert
<1>3. CASE AlarmPublish
  <2>1. current \in Reading
    BY <1>3 DEF AlarmPublish
  <2>2. attempts' = [attempts EXCEPT ![current] = attempts[current] + 1]
    BY <1>3 DEF AlarmPublish, PublishOK, PublishFailed
  <2>3. attempts' \in [Reading -> Nat]
    BY <2>1, <2>2
  <2>4. fate' \in [Reading -> Fates]
    BY <1>3, <2>1 DEF AlarmPublish, Fates
  <2>5. /\ alarmPc' \in {"idle", "mark", "push"}
        /\ current' \in Reading \cup {None}
        /\ Working'
    BY <1>3, <2>1 DEF AlarmPublish
  <2> QED
    BY <1>3, <2>3, <2>4, <2>5 DEF AlarmPublish
<1>4. CASE AlarmMark
  BY <1>4 DEF AlarmMark, MarkPublished
<1>5. CASE Push
  <2>1. /\ current \in Reading
        /\ retryQueue' \in Seq(Reading)
        /\ Len(retryQueue') = Len(retryQueue) + 1
    BY <1>5, AppendProperties DEF Push
  <2>2. /\ retryCount' \in [Reading -> 0..MaxRetries]
        /\ wait' \in [Reading -> Int]
    BY <1>5, <2>1, ConstantsAssumption DEF Push
  <2>3. pos' \in 1..Len(retryQueue') + 1
    BY <1>5, <2>1, LenProperties DEF Push
  <2> QED
    BY <1>5, <2>1, <2>2, <2>3 DEF Push
<1>6. CASE AlarmExit
  BY <1>6 DEF AlarmExit
<1> QED
  BY <1>1, <1>2, <1>3, <1>4, <1>5, <1>6 DEF AlarmStep

LEMMA TypedTry == Typed /\ PassTry => Typed'
<1> SUFFICES ASSUME Typed, PassTry PROVE Typed'
  OBVIOUS
<1>1. InPass
  BY DEF PassTry
<1>2. Item \in Reading /\ pos' \in 1..Len(retryQueue) + 1 /\ pos' > 1
  BY <1>1, ItemTyped DEF PassTry, Typed, TypeOK
<1>3. attempts' = [attempts EXCEPT ![Item] = attempts[Item] + 1]
  BY DEF PassTry, PublishOK, PublishFailed
<1>4. attempts' \in [Reading -> Nat]
  <2>1. attempts \in [Reading -> Nat]
    BY DEF Typed, TypeOK
  <2> QED
    BY <1>2, <1>3, <2>1
<1>5. fate' \in [Reading -> Fates]
  BY <1>2 DEF PassTry, Typed, TypeOK, Fates
<1>6. kept' \in Seq(Reading)
  <2>1. kept \in Seq(Reading)
    BY DEF Typed, TypeOK
  <2>2. Append(kept, Item) \in Seq(Reading)
    BY <1>2, <2>1, AppendProperties
  <2> QED
    BY <2>1, <2>2 DEF PassTry
<1>7. retryCount[Item] \in 0..MaxRetries /\ retryCount[Item] < MaxRetries
  BY <1>2, ConstantsAssumption DEF PassTry, Exhausted, Typed, TypeOK
<1>8. retryCount' \in [Reading -> 0..MaxRetries]
  <2>1. [retryCount EXCEPT ![Item] = 0] \in [Reading -> 0..MaxRetries]
    BY <1>2, ConstantsAssumption DEF Typed, TypeOK
  <2>2. retryCount[Item] + 1 \in 0..MaxRetries
    BY <1>7, ConstantsAssumption
  <2>3. [retryCount EXCEPT ![Item] = retryCount[Item] + 1] \in [Reading -> 0..MaxRetries]
    BY <1>2, <2>2 DEF Typed, TypeOK
  <2> QED
    BY <2>1, <2>3 DEF PassTry, Forget, RetryCounted
<1>9. wait' \in [Reading -> Int]
  <2> DEFINE left == Backoff * (retryCount[Item] + 1) - age
  <2>1. left \in Int
    <3>1. Backoff \in Int /\ age \in Int /\ retryCount[Item] \in Int
      BY <1>7, ConstantsAssumption DEF Typed, TypeOK
    <3> QED
      BY <3>1
  <2>2. \A n \in Int : [wait EXCEPT ![Item] = n] \in [Reading -> Int]
    BY <1>2 DEF Typed, TypeOK
  <2>3. \/ wait' = [wait EXCEPT ![Item] = -1]
        \/ wait' = [wait EXCEPT ![Item] = IF left < 0 THEN -1 ELSE left]
    BY DEF PassTry, Forget
  <2> HIDE DEF left
  <2> QED
    BY <2>1, <2>2, <2>3
<1>10. retryPc' \in {"scan", "mark"}
  BY <1>1 DEF PassTry, AfterRetry, InPass
<1>11. Working'
  <2>1. UNCHANGED <<phase, alarmPc, current>>
    BY DEF PassTry
  <2>2. retryPc = "scan"
    BY <1>1 DEF InPass
  <2> QED
    BY <1>2, <1>10, <2>1, <2>2 DEF Typed, Working, RetryMuHeld
<1> QED
  BY <1>2, <1>4, <1>5, <1>6, <1>8, <1>9, <1>10, <1>11 DEF PassTry, Typed, TypeOK

LEMMA TypedRetry == Typed /\ RetryStep => Typed'
<1> SUFFICES ASSUME Typed, RetryStep PROVE Typed'
  OBVIOUS
<1> USE DEF Typed, TypeOK, Working, RetryMuHeld
<1>1. CASE PassStart
  <2>1. Overdue \subseteq Reading
    BY ElementOfSeq, LenProperties DEF Overdue
  <2> QED
    BY <1>1, <2>1, EmptySeq, LenProperties DEF PassStart
<1>2. CASE PassDrop
  <2>1. InPass /\ Item \in Reading /\ pos' \in 1..Len(retryQueue) + 1
    BY <1>2, ItemTyped DEF PassDrop
  <2>2. retryCount' \in [Reading -> 0..MaxRetries] /\ wait' \in [Reading -> Int]
    <3>1. 0 \in 0..MaxRetries
      BY ConstantsAssumption
    <3>2. /\ retryCount' = [retryCount EXCEPT ![Item] = 0]
          /\ wait' = [wait EXCEPT ![Item] = -1]
      BY <1>2 DEF PassDrop, Forget
    <3> QED
      BY <2>1, <3>1, <3>2
  <2>3. fate' \in [Reading -> Fates]
    BY <1>2, <2>1 DEF PassDrop, Fates
  <2>4. Working'
    BY <1>2, <2>1 DEF PassDrop, InPass
  <2> QED
    BY <1>2, <2>1, <2>2, <2>3, <2>4 DEF PassDrop
<1>3. CASE PassKeep
  <2>1. InPass /\ Item \in Reading /\ pos' \in 1..Len(retryQueue) + 1
    BY <1>3, ItemTyped DEF PassKeep
  <2>2. kept' \in Seq(Reading)
    BY <1>3, <2>1, AppendProperties DEF PassKeep
  <2>3. Working'
    BY <1>3, <2>1 DEF PassKeep, InPass
  <2> QED
    BY <1>3, <2>1, <2>2, <2>3 DEF PassKeep
<1>4. CASE PassTry
  BY <1>4, TypedTry
<1>5. CASE PassMark
  <2>1. retryQueue[pos - 1] \in Reading
    BY <1>5, MarkedItemTyped DEF PassMark
  <2>2. /\ rows' \in [Reading -> {"none", "unpublished", "published"}]
        /\ dbFault' \in SUBSET Reading
    BY <1>5, <2>1 DEF PassMark, MarkPublished
  <2> QED
    BY <1>5, <2>2 DEF PassMark
<1>6. CASE PassEnd
  BY <1>6, EmptySeq, LenProperties DEF PassEnd, Released
<1>7. CASE RetryExit
  BY <1>7 DEF RetryExit
<1> QED
  BY <1>1, <1>2, <1>3, <1>4, <1>5, <1>6, <1>7 DEF RetryStep

\* A clock stays within its limits.
LEMMA ClockBounds ==
  ASSUME NEW m \in Nat
  PROVE  \A n \in 0..m : Down(n, 0) \in 0..m /\ Up(n, m) \in 0..m
BY DEF Down, Up

LEMMA AgeLimitNat == AgeLimit \in Nat
<1>1. Backoff \in Nat /\ MaxRetries \in Nat
  BY ConstantsAssumption
<1> QED
  BY <1>1 DEF AgeLimit

LEMMA TypedRest ==
  Typed /\ (Exit \/ Tick \/ Environment \/ UNCHANGED vars) => Typed'
<1> SUFFICES ASSUME Typed, Exit \/ Tick \/ Environment \/ UNCHANGED vars
             PROVE  Typed'
  OBVIOUS
<1> USE DEF Typed, TypeOK, Working, RetryMuHeld
<1>0. ASSUME LoseMemory, dbFault' \in SUBSET Reading PROVE Typed'
  <2>1. fate' \in [Reading -> Fates]
    BY <1>0 DEF LoseMemory, Fates
  <2>2. /\ cooldown' \in [Sensor -> 0..Cooldown]
        /\ since' \in [Sensor -> 0..Cooldown]
        /\ retryCount' \in [Reading -> 0..MaxRetries]
        /\ wait' \in [Reading -> Int]
    BY <1>0, ConstantsAssumption DEF LoseMemory
  <2>3. /\ requests' \in Seq(Reading) /\ Len(requests') <= QueueCap
        /\ retryQueue' \in Seq(Reading) /\ pos' \in 1..Len(retryQueue') + 1
        /\ kept' \in Seq(Reading)
    BY <1>0, EmptySeq, ConstantsAssumption DEF LoseMemory
  <2> QED
    BY <1>0, <2>1, <2>2, <2>3 DEF LoseMemory
<1>1. CASE Exit
  BY <1>0, <1>1 DEF Exit
<1>2. CASE Crash
  <2>1. Unmarked \subseteq Reading
    BY MarkedItemTyped DEF Unmarked
  <2> QED
    BY <1>0, <1>2, <2>1 DEF Crash
<1>3. CASE Tick
  <2>1. \A n \in 0..Cooldown : Down(n, 0) \in 0..Cooldown /\ Up(n, Cooldown) \in 0..Cooldown
    <3>1. Cooldown \in Nat
      BY ConstantsAssumption
    <3> QED
      BY <3>1, ClockBounds
  <2>2. cooldown' \in [Sensor -> 0..Cooldown] /\ since' \in [Sensor -> 0..Cooldown]
    <3>1. /\ cooldown' = [s \in Sensor |-> Down(cooldown[s], 0)]
          /\ since' = [s \in Sensor |-> Up(since[s], Cooldown)]
      BY <1>3 DEF Tick
    <3>2. cooldown \in [Sensor -> 0..Cooldown] /\ since \in [Sensor -> 0..Cooldown]
      OBVIOUS
    <3> QED
      BY <2>1, <3>1, <3>2
  <2>3. \A n \in Int : Down(n, -1) \in Int
    BY DEF Down
  <2>4. wait' \in [Reading -> Int]
    BY <1>3, <2>3 DEF Tick
  <2>5. AgeLimit \in Nat
    BY AgeLimitNat
  <2>6. age' \in Nat
    BY <1>3, <2>5 DEF Tick, Up
  <2> QED
    BY <1>3, <2>2, <2>4, <2>6 DEF Tick
<1>4. CASE Start
  <2>1. boots' \in 0..MaxBoots
    BY <1>4, ConstantsAssumption DEF Start
  <2>2. configs' \in SUBSET Sensor
    BY <1>4 DEF Start
  <2> QED
    BY <1>4, <2>1, <2>2 DEF Start
<1>5. ASSUME NEW r \in Reading, Submit(r) PROVE Typed'
  <2>2. requests' \in Seq(Reading) /\ Len(requests') <= QueueCap
    <3>1. \/ requests' = Append(requests, r) /\ Len(requests) < QueueCap
          \/ requests' = requests
      BY <1>5 DEF Submit
    <3>2. QueueCap \in Nat
      BY ConstantsAssumption
    <3> QED
      BY <3>1, <3>2, BoundedAppend
  <2>3. fate' \in [Reading -> Fates]
    BY <1>5 DEF Submit, Fates
  <2> QED
    BY <1>5, <2>2, <2>3 DEF Submit
<1>6. CASE Stop
  BY <1>6 DEF Stop
<1>7. CASE UNCHANGED vars
  BY <1>7
<1> QED
  BY <1>1, <1>2, <1>3, <1>4, <1>5, <1>6, <1>7 DEF Environment

\* The type invariant of the alarm service: the channel stays within its
\* capacity, RetryCount within MaxRetries, and processRetry's index within the
\* queue, in every behaviour.
THEOREM AlarmTypeCorrect == Spec => []TypeOK
<1>1. Typed /\ [Next]_vars => Typed'
  BY TypedAlarm, TypedRetry, TypedRest DEF Next
<1>2. Typed => TypeOK
  BY DEF Typed
<1> QED
  BY TypedInit, <1>1, <1>2, PTL DEF Spec

----------------------------------------------------------------------------
(***************************************************************************)
(*                 No alarm is lost or published twice                     *)
(*                                                                         *)
(* PendingIsHeld is not inductive: it needs that an alarm is held in one   *)
(* place only and that a reading in the channel is still undecided.        *)
(***************************************************************************)
HeldOnce ==
  /\ \A i, j \in pos..Len(retryQueue) : retryQueue[i] = retryQueue[j] => i = j
  /\ \A i, j \in 1..Len(kept) : kept[i] = kept[j] => i = j
  /\ Unscanned \cap Kept = {}
  /\ InHand \cap (Unscanned \cup Kept) = {}

Undecided ==
  /\ \A i \in 1..Len(requests) : fate[requests[i]] = "queued"
  /\ \A i, j \in 1..Len(requests) : requests[i] = requests[j] => i = j

HeldInv == Typed /\ HeldOnce /\ Undecided /\ PendingIsHeld

\* processRetry moves on by one item.
LEMMA ScanStep ==
  ASSUME Typed, HeldOnce, InPass, pos' = pos + 1, UNCHANGED retryQueue
  PROVE  /\ Item \in Unscanned
         /\ Item \notin Kept
         /\ Item \notin InHand
         /\ Unscanned' = Unscanned \ {Item}
         /\ \A i, j \in pos'..Len(retryQueue') :
              retryQueue'[i] = retryQueue'[j] => i = j
<1>1. pos \in Nat /\ Len(retryQueue) \in Nat /\ pos <= Len(retryQueue) /\ pos >= 1
  BY LenProperties DEF Typed, TypeOK, InPass
<1>2. Item \in Unscanned
  BY <1>1 DEF Unscanned, Item
<1>3. Unscanned' = Unscanned \ {Item}
  BY <1>1 DEF Unscanned, Item, HeldOnce
<1>4. \A i, j \in pos'..Len(retryQueue') : retryQueue'[i] = retryQueue'[j] => i = j
  BY <1>1 DEF HeldOnce
<1> QED
  BY <1>2, <1>3, <1>4 DEF HeldOnce

\* An item appended to remaining.
LEMMA KeepStep ==
  ASSUME Typed, HeldOnce, NEW r \in Reading, r \notin Kept,
         kept' = Append(kept, r)
  PROVE  /\ Kept' = Kept \cup {r}
         /\ \A i, j \in 1..Len(kept') : kept'[i] = kept'[j] => i = j
<1>1. /\ Len(kept') = Len(kept) + 1
      /\ Len(kept) \in Nat
      /\ \A i \in 1..Len(kept) : kept'[i] = kept[i]
      /\ kept'[Len(kept) + 1] = r
  BY AppendProperties, LenProperties DEF Typed, TypeOK
<1>2. \A i \in 1..Len(kept) : kept[i] # r
  BY DEF Kept
<1> QED
  BY <1>1, <1>2 DEF Kept, HeldOnce

\* The steps that neither raise, nor settle, nor lose an alarm.
Quiet ==
  \/ Insert \/ AlarmMark \/ Push \/ AlarmExit
  \/ AlarmPublish /\ alarmPc' = "push"
  \/ PassStart \/ PassKeep \/ PassMark \/ PassEnd \/ RetryExit
  \/ PassTry /\ RetryCounted(Item) /\ UNCHANGED <<fate, retryPc>>
       /\ kept' = Append(kept, Item)
  \/ Tick \/ Start \/ Stop \/ UNCHANGED vars

LEMMA QuietKeepsHeld ==
  Typed /\ HeldOnce /\ Quiet => /\ Held' = Held
                                /\ HeldOnce'
                                /\ UNCHANGED <<fate, requests>>
<1> SUFFICES ASSUME Typed, HeldOnce, Quiet
             PROVE  /\ Held' = Held
                    /\ HeldOnce'
                    /\ UNCHANGED <<fate, requests>>
  OBVIOUS
<1>0. ASSUME UNCHANGED <<InHand, retryQueue, pos, kept, fate, requests>>
      PROVE  Held' = Held /\ HeldOnce'
  <2>1. Unscanned' = Unscanned /\ Kept' = Kept /\ InHand' = InHand
    BY <1>0 DEF Unscanned, Kept
  <2> QED
    BY <1>0, <2>1 DEF Held, HeldOnce
<1>1. CASE Insert
  BY <1>0, <1>1 DEF Insert, InHand
<1>2. CASE AlarmMark
  BY <1>0, <1>2 DEF AlarmMark, InHand
<1>3. CASE Push
  <2>1. /\ Len(retryQueue') = Len(retryQueue) + 1
        /\ Len(retryQueue) \in Nat
        /\ \A i \in 1..Len(retryQueue) : retryQueue'[i] = retryQueue[i]
        /\ retryQueue'[Len(retryQueue) + 1] = current
    BY <1>3, AppendProperties, LenProperties DEF Push, Typed, TypeOK, Working
  <2>2. pos = 1 /\ pos' = 1 /\ kept' = kept
    BY <1>3 DEF Push, RetryMuFree, Typed, Working
  <2>3. Unscanned' = Unscanned \cup {current}
    BY <2>1, <2>2 DEF Unscanned
  <2>4. InHand = {current} /\ InHand' = {}
    BY <1>3 DEF Push, InHand
  <2>5. Kept' = Kept
    BY <2>2 DEF Kept
  <2>6. current \notin Unscanned /\ current \notin Kept
    BY <2>4 DEF HeldOnce
  <2>7. \A i \in 1..Len(retryQueue) : retryQueue[i] # current
    BY <2>2, <2>6 DEF Unscanned
  <2>8. \A i, j \in pos'..Len(retryQueue') : retryQueue'[i] = retryQueue'[j] => i = j
    BY <2>1, <2>2, <2>7 DEF HeldOnce
  <2>9. Held' = Held
    BY <2>3, <2>4, <2>5 DEF Held
  <2>10. HeldOnce'
    BY <2>2, <2>3, <2>4, <2>5, <2>6, <2>8 DEF HeldOnce
  <2> QED
    BY <1>3, <2>9, <2>10 DEF Push
<1>4. CASE AlarmExit
  BY <1>0, <1>4 DEF AlarmExit, InHand
<1>5. CASE AlarmPublish /\ alarmPc' = "push"
  BY <1>0, <1>5 DEF AlarmPublish, InHand
<1>6. CASE PassStart
  <2>1. pos = 1 /\ kept = <<>>
    BY <1>6 DEF PassStart, Typed, Working, RetryMuHeld
  <2> QED
    BY <1>0, <1>6, <2>1 DEF PassStart, InHand
<1>7. ASSUME InPass, pos' = pos + 1, kept' = Append(kept, Item),
             UNCHANGED <<retryQueue, InHand>>
      PROVE  Held' = Held /\ HeldOnce'
  <2>1. Item \in Reading
    BY <1>7, ItemTyped
  <2>2. /\ Item \in Unscanned /\ Item \notin Kept /\ Item \notin InHand
        /\ Unscanned' = Unscanned \ {Item}
        /\ \A i, j \in pos'..Len(retryQueue') :
             retryQueue'[i] = retryQueue'[j] => i = j
    BY <1>7, ScanStep
  <2>3. /\ Kept' = Kept \cup {Item}
        /\ \A i, j \in 1..Len(kept') : kept'[i] = kept'[j] => i = j
    BY <1>7, <2>1, <2>2, KeepStep
  <2>4. HeldOnce'
    BY <1>7, <2>2, <2>3 DEF HeldOnce
  <2> QED
    BY <1>7, <2>2, <2>3, <2>4 DEF Held
<1>8. CASE PassKeep
  BY <1>7, <1>8 DEF PassKeep, InHand
<1>9. CASE PassMark
  BY <1>0, <1>9 DEF PassMark, InHand
<1>10. CASE PassEnd
  <2>1. Len(retryQueue) \in Nat /\ pos > Len(retryQueue) /\ pos \in Nat
    BY <1>10, LenProperties DEF PassEnd, Typed, TypeOK
  <2>2. Unscanned = {}
    BY <2>1 DEF Unscanned
  <2>3. Unscanned' = Kept /\ Kept' = {}
    BY <1>10, EmptySeq DEF PassEnd, Unscanned, Kept
  <2>4. InHand' = InHand
    BY <1>10 DEF PassEnd, InHand
  <2>5. Held' = Held
    BY <2>2, <2>3, <2>4 DEF Held
  <2>6. \A i, j \in 1..Len(kept') : FALSE
    BY <1>10, EmptySeq DEF PassEnd
  <2>7. \A i, j \in pos'..Len(retryQueue') : retryQueue'[i] = retryQueue'[j] => i = j
    BY <1>10 DEF PassEnd, HeldOnce
  <2>8. HeldOnce'
    BY <2>2, <2>3, <2>4, <2>6, <2>7 DEF HeldOnce
  <2> QED
    BY <1>10, <2>5, <2>8 DEF PassEnd
<1>11. CASE RetryExit
  BY <1>0, <1>11 DEF RetryExit, InHand
<1>12. CASE PassTry /\ RetryCounted(Item) /\ UNCHANGED <<fate, retryPc>>
              /\ kept' = Append(kept, Item)
  BY <1>7, <1>12 DEF PassTry, InHand
<1>13. CASE Tick
  BY <1>0, <1>13 DEF Tick, InHand
<1>14. CASE Start
  BY <1>0, <1>14 DEF Start, InHand, Typed, Working
<1>15. CASE Stop
  BY <1>0, <1>15 DEF Stop, InHand
<1>16. CASE UNCHANGED vars
  BY <1>0, <1>16 DEF InHand
<1> QED
  BY <1>1, <1>2, <1>3, <1>4, <1>5, <1>6, <1>8, <1>9, <1>10, <1>11, <1>12, <1>13,
     <1>14, <1>15, <1>16 DEF Quiet

\* Taking a reading from the channel.
LEMMA TakeStep ==
  ASSUME Typed, Undecided, Take
  PROVE  LET r == Head(requests) IN
         /\ r \in Reading
         /\ fate[r] = "queued"
         /\ fate' = [fate EXCEPT ![r] = fate'[r]]
         /\ fate'[r] \in {"unknown", "suppressed", "normal", "pending"}
         /\ fate'[r] = "pending" => InHand' = {r}
         /\ fate'[r] # "pending" => InHand' = {}
         /\ InHand = {}
         /\ UNCHANGED <<retryQueue, pos, kept>>
         /\ Undecided'
<1> DEFINE r == Head(requests)
<1>1. r \in Reading /\ r = requests[1] /\ Len(requests) \in Nat /\ Len(requests) >= 1
  BY HeadTailProperties, LenProperties, EmptySeq DEF Take, Typed, TypeOK
<1>2. fate[r] = "queued" /\ fate \in [Reading -> Fates]
  BY <1>1 DEF Undecided, Typed, TypeOK
<1>3. \E f \in {"unknown", "suppressed", "normal", "pending"} :
        /\ fate' = [fate EXCEPT ![r] = f]
        /\ f = "pending" => InHand' = {r}
        /\ f # "pending" => InHand' = {}
  BY DEF Take, Unknown, Suppress, Pass, Raise, InHand
<1>4. InHand = {} /\ UNCHANGED <<retryQueue, pos, kept>>
  BY DEF Take, InHand
<1>5. /\ Len(requests') = Len(requests) - 1
      /\ \A i \in 1..Len(requests') : requests'[i] = requests[i + 1]
      /\ \A i \in 1..Len(requests) : requests[i] \in Reading
  BY HeadTailProperties, ElementOfSeq DEF Take, Typed, TypeOK
<1>6. \A i \in 1..Len(requests') : requests'[i] # r /\ requests'[i] \in Reading
  BY <1>1, <1>5 DEF Undecided
<1>7. Undecided'
  <2>1. ASSUME NEW i \in 1..Len(requests')
        PROVE  /\ fate'[requests'[i]] = "queued"
               /\ i + 1 \in 1..Len(requests)
               /\ requests'[i] = requests[i + 1]
    <3>1. i + 1 \in 1..Len(requests) /\ requests'[i] = requests[i + 1]
      BY <1>1, <1>5
    <3>2. fate[requests'[i]] = "queued"
      BY <3>1 DEF Undecided
    <3> QED
      BY <1>2, <1>3, <1>6, <3>1, <3>2
  <2>2. ASSUME NEW i \in 1..Len(requests'), NEW j \in 1..Len(requests'),
               requests'[i] = requests'[j]
        PROVE  i = j
    <3>1. i + 1 = j + 1
      BY <2>1, <2>2 DEF Undecided
    <3> QED
      BY <3>1
  <2> QED
    BY <2>1, <2>2 DEF Undecided
<1> QED
  BY <1>1, <1>2, <1>3, <1>4, <1>7

\* The end of the process empties everything that held an alarm.
LEMMA LoseStep ==
  ASSUME Typed, LoseMemory
  PROVE  /\ Held' = {}
         /\ HeldOnce'
         /\ Undecided'
         /\ \A r \in Reading : fate'[r] = IF fate[r] = "pending" THEN "lost"
                                          ELSE IF fate[r] = "queued" THEN "discarded"
                                          ELSE fate[r]
<1>1. Len(<<>>) = 0
  OBVIOUS
<1>2. InHand' = {} /\ Unscanned' = {} /\ Kept' = {}
  BY <1>1 DEF LoseMemory, InHand, Unscanned, Kept
<1>3. HeldOnce' /\ Undecided'
  BY <1>1, <1>2 DEF LoseMemory, HeldOnce, Undecided
<1> QED
  BY <1>2, <1>3 DEF LoseMemory, Held

\* An alarm confirmed or dropped leaves the place that held it.
LEMMA SettleStep ==
  ASSUME Typed, HeldOnce,
         \/ AlarmPublish /\ alarmPc' # "push"
         \/ PassDrop
         \/ PassTry /\ Forget(Item) /\ UNCHANGED kept /\ PublishOK(Item)
              /\ fate' = [fate EXCEPT ![Item] = "confirmed"]
  PROVE  /\ UNCHANGED requests
         /\ HeldOnce'
         /\ \E r \in Held, f \in {"confirmed", "gaveUp"} :
              /\ Held' = Held \ {r}
              /\ fate' = [fate EXCEPT ![r] = f]
<1>1. CASE AlarmPublish /\ alarmPc' # "push"
  <2>1. /\ InHand = {current} /\ InHand' = {}
        /\ fate' = [fate EXCEPT ![current] = "confirmed"]
        /\ UNCHANGED <<retryQueue, pos, kept, requests>>
    BY <1>1 DEF AlarmPublish, InHand
  <2>2. Unscanned' = Unscanned /\ Kept' = Kept
    BY <2>1 DEF Unscanned, Kept
  <2>3. current \in Held /\ Held' = Held \ {current}
    BY <2>1, <2>2 DEF Held, HeldOnce
  <2>4. HeldOnce'
    BY <2>1, <2>2 DEF HeldOnce
  <2> QED
    BY <2>1, <2>3, <2>4
<1>2. ASSUME InPass, pos' = pos + 1, UNCHANGED <<retryQueue, kept, InHand>>
      PROVE  Item \in Held /\ Held' = Held \ {Item} /\ HeldOnce'
  <2>1. /\ Item \in Unscanned /\ Item \notin Kept /\ Item \notin InHand
        /\ Unscanned' = Unscanned \ {Item}
        /\ \A i, j \in pos'..Len(retryQueue') :
             retryQueue'[i] = retryQueue'[j] => i = j
    BY <1>2, ScanStep
  <2>2. Kept' = Kept /\ InHand' = InHand /\ kept' = kept
    BY <1>2 DEF Kept
  <2> QED
    BY <2>1, <2>2 DEF Held, HeldOnce
<1>3. CASE PassDrop
  <2>1. UNCHANGED <<requests, retryQueue, kept, InHand>> /\ InPass /\ pos' = pos + 1
    BY <1>3 DEF PassDrop, InHand
  <2> QED
    BY <1>2, <1>3, <2>1 DEF PassDrop
<1>4. CASE PassTry /\ Forget(Item) /\ UNCHANGED kept /\ PublishOK(Item)
             /\ fate' = [fate EXCEPT ![Item] = "confirmed"]
  <2>1. UNCHANGED <<requests, retryQueue, kept, InHand>> /\ InPass /\ pos' = pos + 1
    BY <1>4 DEF PassTry, InHand
  <2> QED
    BY <1>2, <1>4, <2>1
<1> QED
  BY <1>1, <1>3, <1>4

Settle ==
  \/ AlarmPublish /\ alarmPc' # "push"
  \/ PassDrop
  \/ PassTry /\ Forget(Item) /\ UNCHANGED kept /\ PublishOK(Item)
       /\ fate' = [fate EXCEPT ![Item] = "confirmed"]

LEMMA StepKinds ==
  [Next]_vars => \/ Quiet \/ Take \/ Settle \/ LoseMemory
                 \/ \E r \in Reading : Submit(r)
<1>1. PassTry => Quiet \/ Settle
  BY DEF PassTry, Quiet, Settle
<1>2. AlarmStep => Quiet \/ Take \/ Settle
  BY DEF AlarmStep, Quiet, Settle
<1>3. RetryStep => Quiet \/ Settle
  BY <1>1 DEF RetryStep, Quiet, Settle
<1>4. Exit \/ Crash => LoseMemory
  BY DEF Exit, Crash
<1> QED
  BY <1>2, <1>3, <1>4 DEF Next, Environment, Quiet

\* Submitting a reading touches nothing that is held.
LEMMA SubmitStep ==
  ASSUME HeldInv, NEW r \in Reading, Submit(r)
  PROVE  /\ Held' = Held
         /\ HeldInv' 
         /\ fate[r] = "new"
         /\ \E f \in {"queued", "overflow"} : fate' = [fate EXCEPT ![r] = f]
<1>1. Typed'
  BY TypedRest DEF HeldInv, Environment
<1>2. /\ UNCHANGED <<retryQueue, pos, kept, alarmPc, current>>
      /\ fate[r] = "new"
      /\ \/ requests' = Append(requests, r) /\ fate' = [fate EXCEPT ![r] = "queued"]
         \/ requests' = requests /\ fate' = [fate EXCEPT ![r] = "overflow"]
  BY DEF Submit
<1>3. Unscanned' = Unscanned /\ Kept' = Kept /\ InHand' = InHand
  BY <1>2 DEF Unscanned, Kept, InHand
<1>4. Held' = Held /\ HeldOnce'
  BY <1>2, <1>3 DEF Held, HeldOnce, HeldInv
<1>5. fate \in [Reading -> Fates]
  BY DEF HeldInv, Typed, TypeOK
<1>6. PendingIsHeld'
  BY <1>2, <1>4, <1>5 DEF PendingIsHeld, HeldInv
<1>7. \A i \in 1..Len(requests) : requests[i] \in Reading /\ requests[i] # r
  BY <1>2, ElementOfSeq DEF HeldInv, Undecided, Typed, TypeOK
<1>8. /\ Len(Append(requests, r)) = Len(requests) + 1
      /\ Len(requests) \in Nat
      /\ \A i \in 1..Len(requests) : Append(requests, r)[i] = requests[i]
      /\ Append(requests, r)[Len(requests) + 1] = r
  BY AppendProperties, LenProperties DEF HeldInv, Typed, TypeOK
<1>9. Undecided'
  <2>1. CASE requests' = requests /\ fate' = [fate EXCEPT ![r] = "overflow"]
    BY <1>5, <1>7, <2>1 DEF HeldInv, Undecided
  <2>2. CASE requests' = Append(requests, r) /\ fate' = [fate EXCEPT ![r] = "queued"]
    BY <1>5, <1>7, <1>8, <2>2 DEF HeldInv, Undecided
  <2> QED
    BY <1>2, <2>1, <2>2
<1> QED
  BY <1>1, <1>2, <1>4, <1>6, <1>9 DEF HeldInv

\* What any step does to the alarms that are held and to what became of them.
LEMMA HeldStep ==
  ASSUME HeldInv, [Next]_vars
  PROVE  /\ HeldInv'
         /\ [Outbox!Next]_(Outbox!vars)
<1>0. /\ Typed /\ HeldOnce /\ Undecided /\ PendingIsHeld
      /\ fate \in [Reading -> Fates]
      /\ Typed'
  BY TypedAlarm, TypedRetry, TypedRest DEF HeldInv, Typed, TypeOK, Next
<1>a. Held \subseteq Reading
  <2>1. InHand \subseteq Reading
    BY <1>0 DEF InHand, Typed, Working
  <2>2. /\ retryQueue \in Seq(Reading) /\ kept \in Seq(Reading)
        /\ pos \in Nat /\ pos >= 1 /\ Len(retryQueue) \in Nat
    BY <1>0, LenProperties DEF Typed, TypeOK
  <2>3. Unscanned \subseteq Reading
    <3>1. \A i \in pos..Len(retryQueue) : i \in 1..Len(retryQueue)
      BY <2>2
    <3> QED
      BY <2>2, <3>1, ElementOfSeq DEF Unscanned
  <2>4. Kept \subseteq Reading
    BY <2>2, ElementOfSeq DEF Kept
  <2> QED
    BY <2>1, <2>3, <2>4 DEF Held
<1>1. CASE Quiet
  <2>1. Held' = Held /\ HeldOnce' /\ fate' = fate /\ requests' = requests
    BY <1>0, <1>1, QuietKeepsHeld
  <2>2. Undecided' /\ PendingIsHeld'
    BY <1>0, <2>1 DEF Undecided, PendingIsHeld
  <2>3. UNCHANGED Outbox!vars
    BY <2>1 DEF Outbox!vars, Confirmed, Abandoned
  <2> QED
    BY <1>0, <2>1, <2>2, <2>3 DEF HeldInv
<1>2. CASE Take
  <2> DEFINE r == Head(requests)
  <2>1. /\ r \in Reading /\ fate[r] = "queued"
        /\ fate' = [fate EXCEPT ![r] = fate'[r]]
        /\ fate'[r] \in {"unknown", "suppressed", "normal", "pending"}
        /\ fate'[r] = "pending" => InHand' = {r}
        /\ fate'[r] # "pending" => InHand' = {}
        /\ InHand = {}
        /\ UNCHANGED <<retryQueue, pos, kept>>
        /\ Undecided'
    BY <1>0, <1>2, TakeStep
  <2> HIDE DEF r
  <2>2. Unscanned' = Unscanned /\ Kept' = Kept
    BY <2>1 DEF Unscanned, Kept
  <2>3. r \notin Held
    BY <1>0, <2>1 DEF PendingIsHeld
  <2>4. HeldOnce'
    BY <1>0, <2>1, <2>2, <2>3 DEF HeldOnce, Held
  <2>5. Held' = IF fate'[r] = "pending" THEN Held \cup {r} ELSE Held
    BY <2>1, <2>2 DEF Held
  <2>6. PendingIsHeld'
    BY <1>0, <2>1, <2>3, <2>5 DEF PendingIsHeld
  <2>7. HeldInv'
    BY <1>0, <2>1, <2>4, <2>6 DEF HeldInv
  <2>8. Confirmed' = Confirmed /\ Abandoned' = Abandoned
        /\ r \notin Confirmed \cup Abandoned
    BY <1>0, <2>1 DEF Confirmed, Abandoned
  <2>9. CASE fate'[r] = "pending"
    <3>1. Outbox!Raise(r)
      BY <2>3, <2>5, <2>8, <2>9 DEF Outbox!Raise
    <3> QED
      BY <2>1, <3>1, <2>7 DEF Outbox!Next
  <2>10. CASE fate'[r] # "pending"
    BY <2>5, <2>8, <2>10, <2>7 DEF Outbox!vars
  <2> QED
    BY <2>9, <2>10
<1>3. CASE Settle
  <2>1. /\ UNCHANGED requests
        /\ HeldOnce'
        /\ \E r \in Held, f \in {"confirmed", "gaveUp"} :
             /\ Held' = Held \ {r}
             /\ fate' = [fate EXCEPT ![r] = f]
    BY <1>0, <1>3, SettleStep DEF Settle
  <2>2. PICK r \in Held, f \in {"confirmed", "gaveUp"} :
             /\ Held' = Held \ {r}
             /\ fate' = [fate EXCEPT ![r] = f]
    BY <2>1
  <2>3. r \in Reading /\ fate[r] = "pending"
    BY <1>0, <1>a DEF PendingIsHeld
  <2>4. PendingIsHeld'
    BY <1>0, <2>2, <2>3 DEF PendingIsHeld
  <2>5. Undecided'
    <3>1. \A i \in 1..Len(requests) : requests[i] \in Reading
      BY <1>0, ElementOfSeq DEF Typed, TypeOK
    <3>2. \A i \in 1..Len(requests) : requests[i] # r
      BY <1>0, <2>3 DEF Undecided
    <3> QED
      BY <1>0, <2>1, <2>2, <2>3, <3>1, <3>2 DEF Undecided
  <2>6. HeldInv'
    BY <1>0, <2>1, <2>4, <2>5 DEF HeldInv
  <2>7. CASE f = "confirmed"
    <3>1. Confirmed' = Confirmed \cup {r} /\ Abandoned' = Abandoned
      BY <1>0, <2>2, <2>3, <2>7 DEF Confirmed, Abandoned
    <3>2. Outbox!Send(r)
      BY <2>2, <3>1 DEF Outbox!Send
    <3> QED
      BY <2>3, <2>6, <3>2 DEF Outbox!Next
  <2>8. CASE f = "gaveUp"
    <3>1. Confirmed' = Confirmed /\ Abandoned' = Abandoned \cup {r}
      BY <1>0, <2>2, <2>3, <2>8 DEF Confirmed, Abandoned
    <3>2. Outbox!Abandon({r})
      BY <2>2, <3>1 DEF Outbox!Abandon
    <3> QED
      BY <2>3, <2>6, <3>2 DEF Outbox!Next
  <2> QED
    BY <2>2, <2>7, <2>8
<1>4. CASE LoseMemory
  <2>1. /\ Held' = {} /\ HeldOnce' /\ Undecided'
        /\ \A r \in Reading : fate'[r] = IF fate[r] = "pending" THEN "lost"
                                         ELSE IF fate[r] = "queued" THEN "discarded"
                                         ELSE fate[r]
    BY <1>0, <1>4, LoseStep
  <2>2. PendingIsHeld'
    BY <1>0, <2>1 DEF PendingIsHeld
  <2>3. Confirmed' = Confirmed
    BY <1>0, <2>1 DEF Confirmed
  <2>4. Abandoned' = Abandoned \cup Held
    BY <1>0, <1>a, <2>1 DEF PendingIsHeld, Abandoned
  <2>5. Outbox!Abandon(Held)
    BY <2>1, <2>3, <2>4 DEF Outbox!Abandon
  <2>6. HeldInv'
    BY <1>0, <2>1, <2>2 DEF HeldInv
  <2>7. Outbox!Next
    BY <1>a, <2>5 DEF Outbox!Next
  <2> QED
    BY <2>6, <2>7
<1>5. ASSUME NEW r \in Reading, Submit(r)
      PROVE  HeldInv' /\ UNCHANGED Outbox!vars
  <2>1. /\ Held' = Held /\ HeldInv' /\ fate[r] = "new"
        /\ \E f \in {"queued", "overflow"} : fate' = [fate EXCEPT ![r] = f]
    BY <1>5, SubmitStep
  <2>2. Confirmed' = Confirmed /\ Abandoned' = Abandoned
    BY <1>0, <2>1 DEF Confirmed, Abandoned
  <2> QED
    BY <2>1, <2>2 DEF Outbox!vars
<1> QED
  BY <1>1, <1>2, <1>3, <1>4, <1>5, StepKinds

LEMMA HeldInit == Init => HeldInv /\ Outbox!Init
<1> SUFFICES ASSUME Init PROVE HeldInv /\ Outbox!Init
  OBVIOUS
<1>1. Len(<<>>) = 0
  OBVIOUS
<1>2. InHand = {} /\ Unscanned = {} /\ Kept = {}
  BY <1>1 DEF Init, InHand, Unscanned, Kept
<1>3. HeldOnce /\ Undecided /\ PendingIsHeld
  BY <1>1, <1>2 DEF Init, HeldOnce, Undecided, PendingIsHeld, Held
<1> QED
  BY <1>2, <1>3, TypedInit DEF Init, HeldInv, Outbox!Init, Held, Confirmed, Abandoned

\* No interleaving of alarmLoop, pushRetry, processRetry, Stop and a crash loses
\* an alarm: each one that was raised and is not settled is still held.
THEOREM NoAlarmSlipsAway == Spec => []PendingIsHeld
<1>1. HeldInv /\ [Next]_vars => HeldInv'
  BY HeldStep
<1>2. HeldInv => PendingIsHeld
  BY DEF HeldInv
<1> QED
  BY HeldInit, <1>1, <1>2, PTL DEF Spec

\* The service implements the abstract outbox: an alarm is raised once, then
\* confirmed or abandoned, and neither outcome is ever revised.
THEOREM ServiceImplementsOutbox == Spec => OutboxSpec
<1>1. HeldInv /\ [Next]_vars => HeldInv'
  BY HeldStep
<1>2. HeldInv /\ [Next]_vars => [Outbox!Next]_(Outbox!vars)
  BY HeldStep
<1> QED
  BY HeldInit, <1>1, <1>2, PTL DEF Spec, OutboxSpec, Outbox!Spec

----------------------------------------------------------------------------
(***************************************************************************)
(*                            The cooldown                                 *)
(*                                                                         *)
(* What is left of a sensor's cooldown and the time since its last alarm   *)
(* together always make up a whole cooldown.                               *)
(***************************************************************************)
CooldownCovers == \A s \in Sensor : cooldown[s] + since[s] >= Cooldown

CooldownInv == HeldInv /\ CooldownCovers

LEMMA CooldownStep == CooldownInv /\ [Next]_vars => CooldownInv'
<1> SUFFICES ASSUME CooldownInv, [Next]_vars PROVE CooldownInv'
  OBVIOUS
<1>1. /\ cooldown \in [Sensor -> 0..Cooldown]
      /\ since \in [Sensor -> 0..Cooldown]
      /\ Cooldown \in Nat
      /\ CooldownCovers
  BY ConstantsAssumption DEF CooldownInv, HeldInv, Typed, TypeOK
<1>2. CASE Take
  <2> DEFINE r == Head(requests)
  <2>1. r.sensor \in Sensor
    <3>1. r \in Reading
      BY <1>2, TakeStep DEF CooldownInv, HeldInv
    <3> QED
      BY <3>1 DEF Reading
  <2>2. \/ UNCHANGED <<cooldown, since>>
        \/ /\ cooldown' = [cooldown EXCEPT ![r.sensor] = Cooldown]
           /\ since' = since
        \/ /\ cooldown' = [cooldown EXCEPT ![r.sensor] = Cooldown]
           /\ since' = [since EXCEPT ![r.sensor] = 0]
    BY <1>2 DEF Take, Unknown, Suppress, Pass, Raise, Stamp
  <2> HIDE DEF r
  <2>3. CooldownCovers'
    BY <1>1, <2>1, <2>2 DEF CooldownCovers
  <2> QED
    BY <2>3, HeldStep DEF CooldownInv
<1>3. CASE Tick
  <2>1. \A m, n \in 0..Cooldown :
          m + n >= Cooldown => Down(m, 0) + Up(n, Cooldown) >= Cooldown
    BY <1>1 DEF Down, Up
  <2>2. CooldownCovers'
    BY <1>1, <1>3, <2>1 DEF Tick, CooldownCovers
  <2> QED
    BY <2>2, HeldStep DEF CooldownInv
<1>4. CASE LoseMemory
  <2>1. CooldownCovers'
    BY <1>1, <1>4 DEF LoseMemory, CooldownCovers
  <2> QED
    BY <2>1, HeldStep DEF CooldownInv
<1>5. CASE UNCHANGED <<cooldown, since>>
  BY <1>1, <1>5, HeldStep DEF CooldownInv, CooldownCovers
<1>6. Quiet => Tick \/ UNCHANGED <<cooldown, since>>
  BY DEF Quiet, Insert, AlarmMark, Push, AlarmExit, AlarmPublish, PassStart,
         PassKeep, PassMark, PassEnd, RetryExit, PassTry, Start, Stop
<1>7. Settle \/ (\E r \in Reading : Submit(r)) => UNCHANGED <<cooldown, since>>
  BY DEF Settle, AlarmPublish, PassDrop, PassTry, Submit
<1> QED
  BY <1>2, <1>3, <1>4, <1>5, <1>6, <1>7, StepKinds

\* Within one run of the process two alarms of one sensor are a cooldown apart.
THEOREM AlarmsAreSpaced == Spec => CooldownSpacing
<1>1. Init => CooldownInv
  <2>1. Cooldown \in Nat
    BY ConstantsAssumption
  <2>2. Init => CooldownCovers
    BY <2>1 DEF Init, CooldownCovers
  <2> QED
    BY <2>2, HeldInit DEF CooldownInv
<1>2. CooldownInv /\ [Next]_vars =>
        [\A r \in Reading : fate[r] = "queued" /\ fate'[r] = "pending"
                              => since[r.sensor] >= Cooldown]_vars
  <2> SUFFICES ASSUME CooldownInv, [Next]_vars, NEW q \in Reading,
                      fate[q] = "queued", fate'[q] = "pending"
               PROVE  since[q.sensor] >= Cooldown
    OBVIOUS
  <2>1. fate \in [Reading -> Fates] /\ Typed /\ HeldOnce /\ HeldInv /\ Undecided
    BY DEF CooldownInv, HeldInv, Typed, TypeOK
  <2>2. CASE Take
    <3> DEFINE r == Head(requests)
    <3>1. /\ fate' = [fate EXCEPT ![r] = fate'[r]]
          /\ r \in Reading
      BY <2>1, <2>2, TakeStep
    <3>2. \/ Raise(r)
          \/ \E f \in {"unknown", "suppressed", "normal"} :
               fate' = [fate EXCEPT ![r] = f]
      BY <2>2 DEF Take, Unknown, Suppress, Pass
    <3> HIDE DEF r
    <3>3. q = r /\ Raise(r)
      BY <2>1, <3>1, <3>2
    <3>4. cooldown[q.sensor] = 0 /\ q.sensor \in Sensor
      BY <3>3 DEF Raise, Reading
    <3>5. /\ cooldown[q.sensor] + since[q.sensor] >= Cooldown
          /\ since[q.sensor] \in 0..Cooldown
      BY <3>4 DEF CooldownInv, CooldownCovers, HeldInv, Typed, TypeOK
    <3> QED
      BY <3>4, <3>5, ConstantsAssumption
  <2>3. CASE Quiet
    BY <2>1, <2>3, QuietKeepsHeld
  <2>4. CASE Settle
    <3>1. PICK r \in Held, f \in {"confirmed", "gaveUp"} : fate' = [fate EXCEPT ![r] = f]
      BY <2>1, <2>4, SettleStep DEF Settle
    <3> QED
      BY <2>1, <3>1
  <2>5. CASE LoseMemory
    BY <2>1, <2>5, LoseStep
  <2>6. ASSUME NEW r \in Reading, Submit(r) PROVE FALSE
    <3>1. PICK f \in {"queued", "overflow"} : fate' = [fate EXCEPT ![r] = f]
      BY <2>1, <2>6, SubmitStep
    <3> QED
      BY <2>1, <3>1
  <2> QED
    BY <2>2, <2>3, <2>4, <2>5, <2>6, StepKinds
<1> QED
  BY <1>1, <1>2, CooldownStep, PTL DEF Spec, CooldownSpacing

----------------------------------------------------------------------------
(***************************************************************************)
(*                     The flag in the database                            *)
(*                                                                         *)
(* FlagMatchesConfirmation needs that an UPDATE is only made for an alarm  *)
(* the broker confirmed, and that an alarm without an id, for which none   *)
(* is made, has lost its INSERT.                                           *)
(***************************************************************************)
Recorded ==
  /\ alarmPc = "mark" => fate[current] = "confirmed"
  /\ retryPc = "mark" => fate[retryQueue[pos - 1]] = "confirmed"
  /\ \A r \in Reading :
       fate[r] = "pending" =>
         r \in ids \cup dbFault \/ (alarmPc = "insert" /\ r = current)

RecordInv == HeldInv /\ Recorded /\ FlagMatchesConfirmation

\* What a step leaves alone when it touches neither an alarm's fate nor the
\* database, and no loop moves to or from the update of a row.
LEMMA RecordKept ==
  ASSUME RecordInv, UNCHANGED <<fate, rows, dbFault, ids>>,
         alarmPc \notin {"insert", "mark"}, alarmPc' \notin {"insert", "mark"},
         retryPc' = "mark" <=> retryPc = "mark",
         retryPc = "mark" => UNCHANGED <<retryQueue, pos>>
  PROVE  Recorded' /\ FlagMatchesConfirmation'
<1>1. Unmarked' = Unmarked
  BY DEF Unmarked
<1> QED
  BY <1>1 DEF RecordInv, Recorded, FlagMatchesConfirmation

\* An alarm that a loop is working on is pending.
LEMMA AtWorkIsPending ==
  ASSUME HeldInv
  PROVE  /\ alarmPc \in {"insert", "publish", "push"} =>
              current \in Reading /\ fate[current] = "pending"
         /\ InPass => Item \in Reading /\ Item \in Unscanned /\ fate[Item] = "pending"
<1>1. ASSUME alarmPc \in {"insert", "publish", "push"}
      PROVE  current \in Reading /\ fate[current] = "pending"
  <2>1. current \in Reading
    BY <1>1 DEF HeldInv, Typed, Working
  <2>2. current \in Held
    BY <1>1 DEF Held, InHand
  <2> QED
    BY <2>1, <2>2 DEF HeldInv, PendingIsHeld
<1>2. ASSUME InPass
      PROVE  Item \in Reading /\ Item \in Unscanned /\ fate[Item] = "pending"
  <2>1. Item \in Reading
    BY <1>2, ItemTyped DEF HeldInv
  <2>2. pos \in Nat /\ Len(retryQueue) \in Nat /\ pos <= Len(retryQueue)
    BY <1>2, LenProperties DEF HeldInv, Typed, TypeOK, InPass
  <2>3. Item \in Unscanned
    BY <2>2 DEF Unscanned, Item
  <2> QED
    BY <2>1, <2>3 DEF HeldInv, PendingIsHeld, Held
<1> QED
  BY <1>1, <1>2

LEMMA RecordAlarm ==
  ASSUME RecordInv, Insert \/ AlarmPublish \/ AlarmMark \/ Push \/ AlarmExit
  PROVE  Recorded' /\ FlagMatchesConfirmation'
<1>1. /\ Recorded /\ FlagMatchesConfirmation /\ Typed
      /\ fate \in [Reading -> Fates]
      /\ rows \in [Reading -> {"none", "unpublished", "published"}]
  BY DEF RecordInv, HeldInv, Typed, TypeOK
<1>2. alarmPc \in {"insert", "publish", "push"} =>
        current \in Reading /\ fate[current] = "pending"
  BY AtWorkIsPending DEF RecordInv
<1>3. CASE Insert
  <2>1. /\ alarmPc = "insert" /\ alarmPc' = "publish" /\ current \in Reading
        /\ fate[current] = "pending"
        /\ UNCHANGED <<fate, current, retryPc, retryQueue, pos>>
        /\ rows' \in {rows, [rows EXCEPT ![current] = "unpublished"]}
        /\ \/ ids' = ids \cup {current} /\ dbFault' = dbFault
           \/ ids' = ids /\ dbFault' = dbFault \cup {current}
    BY <1>2, <1>3 DEF Insert
  <2>2. Unmarked' = Unmarked
    BY <2>1 DEF Unmarked
  <2>3. \A r \in Reading : r # current => rows'[r] = rows[r]
    BY <1>1, <2>1
  <2>4. rows'[current] # "published"
    BY <1>1, <2>1 DEF FlagMatchesConfirmation
  <2>5. Recorded'
    BY <1>1, <2>1 DEF Recorded
  <2>6. FlagMatchesConfirmation'
    BY <1>1, <2>1, <2>2, <2>3, <2>4 DEF FlagMatchesConfirmation
  <2> QED
    BY <2>5, <2>6
<1>4. CASE AlarmPublish
  <2>1. /\ alarmPc = "publish" /\ current \in Reading /\ fate[current] = "pending"
        /\ UNCHANGED <<rows, dbFault, ids, retryPc, retryQueue, pos>>
        /\ \/ /\ fate' = [fate EXCEPT ![current] = "confirmed"]
              /\ alarmPc' = IF current \in ids THEN "mark" ELSE "idle"
              /\ current \in ids => current' = current
           \/ alarmPc' = "push" /\ UNCHANGED <<fate, current>>
    BY <1>2, <1>4 DEF AlarmPublish
  <2>2. current \in ids \cup dbFault
    BY <1>1, <2>1 DEF Recorded
  <2>3. CASE alarmPc' = "push" /\ UNCHANGED <<fate, current>>
    BY <2>1, <2>3, RecordKept
  <2>4. CASE fate' = [fate EXCEPT ![current] = "confirmed"] /\ current \in ids
    <3>1. alarmPc' = "mark" /\ current' = current
      <4>1. fate' # fate
        BY <1>1, <2>1, <2>4
      <4> QED
        BY <2>1, <2>4, <4>1
    <3>2. Unmarked' = Unmarked \cup {current}
      BY <2>1, <3>1 DEF Unmarked
    <3>3. retryPc = "mark" => retryQueue[pos - 1] \in Reading
      BY <1>1, MarkedItemTyped
    <3>4. Recorded'
      BY <1>1, <2>1, <2>4, <3>1, <3>3 DEF Recorded
    <3> QED
      BY <1>1, <2>1, <2>4, <3>2, <3>4 DEF FlagMatchesConfirmation
  <2>5. CASE fate' = [fate EXCEPT ![current] = "confirmed"] /\ current \notin ids
    <3>1. alarmPc' = "idle" \/ alarmPc' = "push"
      BY <2>1, <2>5
    <3>2. Unmarked' = Unmarked /\ current \in dbFault
      BY <2>1, <2>2, <2>5, <3>1 DEF Unmarked
    <3>3. retryPc = "mark" => retryQueue[pos - 1] \in Reading
      BY <1>1, MarkedItemTyped
    <3>4. Recorded'
      BY <1>1, <2>1, <2>5, <3>1, <3>3 DEF Recorded
    <3> QED
      BY <1>1, <2>1, <2>5, <3>2, <3>4 DEF FlagMatchesConfirmation
  <2> QED
    BY <2>1, <2>3, <2>4, <2>5
<1>5. CASE AlarmMark
  <2>1. /\ alarmPc = "mark" /\ alarmPc' = "idle" /\ current \in Reading
        /\ fate[current] = "confirmed"
        /\ UNCHANGED <<fate, ids, retryPc, retryQueue, pos>>
        /\ \/ rows' = [rows EXCEPT ![current] = "published"] /\ dbFault' = dbFault
           \/ rows' = rows /\ dbFault' = dbFault \cup {current}
    BY <1>1, <1>5 DEF AlarmMark, MarkPublished, Recorded, Typed, Working
  <2>2. Unmarked \subseteq Unmarked' \cup {current}
    BY <2>1 DEF Unmarked
  <2>3. \A r \in Reading : r # current => rows'[r] = rows[r]
    BY <1>1, <2>1
  <2>4. rows'[current] = "published" \/ current \in dbFault'
    BY <1>1, <2>1
  <2>5. Recorded'
    BY <1>1, <2>1 DEF Recorded
  <2>6. FlagMatchesConfirmation'
    <3> SUFFICES ASSUME NEW r \in Reading
                 PROVE  /\ rows'[r] = "published" => fate[r] = "confirmed"
                        /\ fate[r] = "confirmed" =>
                             rows'[r] = "published" \/ r \in dbFault' \cup Unmarked'
      BY <2>1 DEF FlagMatchesConfirmation
    <3>1. CASE r = current
      BY <2>1, <2>4, <3>1
    <3>2. CASE r # current
      BY <1>1, <2>1, <2>2, <2>3, <3>2 DEF FlagMatchesConfirmation
    <3> QED
      BY <3>1, <3>2
  <2> QED
    BY <2>5, <2>6
<1>6. CASE Push
  BY <1>6, RecordKept DEF Push, RetryMuFree, RetryMuHeld
<1>7. CASE AlarmExit
  BY <1>7, RecordKept DEF AlarmExit
<1> QED
  BY <1>3, <1>4, <1>5, <1>6, <1>7

LEMMA RecordRetry ==
  ASSUME RecordInv, RetryStep
  PROVE  Recorded' /\ FlagMatchesConfirmation'
<1>1. /\ Recorded /\ FlagMatchesConfirmation /\ Typed
      /\ fate \in [Reading -> Fates]
      /\ rows \in [Reading -> {"none", "unpublished", "published"}]
      /\ UNCHANGED <<alarmPc, current, ids>>
  BY DEF RecordInv, HeldInv, Typed, TypeOK, RetryStep, PassStart, PassDrop, PassKeep,
         PassTry, PassMark, PassEnd, RetryExit
<1>2. alarmPc = "mark" => current \in Reading
  BY <1>1 DEF Typed, Working
<1>3. InPass => /\ Item \in Reading /\ fate[Item] = "pending"
                /\ alarmPc = "insert" => Item # current
  <2>1. InPass => Item \in Reading /\ Item \in Unscanned /\ fate[Item] = "pending"
    BY AtWorkIsPending DEF RecordInv
  <2>2. alarmPc = "insert" => current \notin Unscanned
    BY DEF RecordInv, HeldInv, HeldOnce, InHand
  <2> QED
    BY <2>1, <2>2
<1>4. ASSUME UNCHANGED <<fate, rows, dbFault>>, retryPc # "mark", retryPc' # "mark"
      PROVE  Recorded' /\ FlagMatchesConfirmation'
  <2>1. Unmarked' = Unmarked
    BY <1>1, <1>4 DEF Unmarked
  <2> QED
    BY <1>1, <1>4, <2>1 DEF Recorded, FlagMatchesConfirmation
<1>5. CASE PassStart \/ PassKeep \/ PassEnd \/ RetryExit
  BY <1>4, <1>5 DEF PassStart, PassKeep, PassEnd, RetryExit, InPass, Released
<1>6. CASE PassDrop
  <2>1. /\ InPass /\ retryPc = "scan" /\ retryPc' = "scan"
        /\ fate' = [fate EXCEPT ![Item] = "gaveUp"]
        /\ UNCHANGED <<rows, dbFault>>
    BY <1>6 DEF PassDrop, InPass
  <2>2. Unmarked' = Unmarked
    BY <1>1, <2>1 DEF Unmarked
  <2>3. Recorded'
    BY <1>1, <1>2, <1>3, <2>1 DEF Recorded
  <2> QED
    BY <1>1, <1>3, <2>1, <2>2, <2>3 DEF FlagMatchesConfirmation
<1>7. CASE PassTry
  <2>1. /\ InPass /\ retryPc = "scan" /\ pos' = pos + 1
        /\ UNCHANGED <<rows, dbFault, retryQueue>>
        /\ \/ /\ fate' = [fate EXCEPT ![Item] = "confirmed"]
              /\ retryPc' = IF Item \in ids THEN "mark" ELSE "scan"
           \/ UNCHANGED <<fate, retryPc>>
    BY <1>7 DEF PassTry, InPass, AfterRetry
  <2>2. retryQueue'[pos' - 1] = Item
    <3>1. pos \in Int /\ pos' - 1 = pos
      BY <1>1, <2>1, LenProperties DEF Typed, TypeOK
    <3> QED
      BY <2>1, <3>1 DEF Item
  <2>3. Item \in ids \cup dbFault
    BY <1>1, <1>3, <2>1 DEF Recorded
  <2>4. CASE UNCHANGED <<fate, retryPc>>
    BY <1>4, <2>1, <2>4
  <2>5. CASE /\ fate' = [fate EXCEPT ![Item] = "confirmed"]
             /\ retryPc' = IF Item \in ids THEN "mark" ELSE "scan"
    <3>1. Unmarked' = IF Item \in ids THEN Unmarked \cup {Item} ELSE Unmarked
      BY <1>1, <2>1, <2>2, <2>5 DEF Unmarked
    <3>2. Recorded'
      BY <1>1, <1>2, <1>3, <2>1, <2>2, <2>5 DEF Recorded
    <3>3. \A r \in Reading : fate'[r] = IF r = Item THEN "confirmed" ELSE fate[r]
      BY <1>1, <2>5
    <3>4. Item \in dbFault' \cup Unmarked'
      BY <2>1, <2>3, <3>1
    <3> QED
      BY <1>1, <2>1, <3>1, <3>2, <3>3, <3>4 DEF FlagMatchesConfirmation
  <2> QED
    BY <2>1, <2>4, <2>5
<1>8. CASE PassMark
  <2> DEFINE it == retryQueue[pos - 1]
  <2>1. /\ retryPc = "mark" /\ retryPc' = "scan" /\ it \in Reading
        /\ fate[it] = "confirmed"
        /\ UNCHANGED fate
        /\ \/ rows' = [rows EXCEPT ![it] = "published"] /\ dbFault' = dbFault
           \/ rows' = rows /\ dbFault' = dbFault \cup {it}
    BY <1>1, <1>8, MarkedItemTyped DEF PassMark, MarkPublished, Recorded
  <2>2. Unmarked \subseteq Unmarked' \cup {it}
    BY <1>1, <2>1 DEF Unmarked
  <2> HIDE DEF it
  <2>3. /\ \A r \in Reading : r # it => rows'[r] = rows[r]
        /\ rows'[it] = "published" \/ it \in dbFault'
    BY <1>1, <2>1
  <2>4. Recorded'
    BY <1>1, <2>1 DEF Recorded
  <2>5. FlagMatchesConfirmation'
    <3> SUFFICES ASSUME NEW r \in Reading
                 PROVE  /\ rows'[r] = "published" => fate[r] = "confirmed"
                        /\ fate[r] = "confirmed" =>
                             rows'[r] = "published" \/ r \in dbFault' \cup Unmarked'
      BY <2>1 DEF FlagMatchesConfirmation
    <3>1. CASE r = it
      BY <2>1, <2>3, <3>1
    <3>2. CASE r # it
      BY <1>1, <2>1, <2>2, <2>3, <3>2 DEF FlagMatchesConfirmation
    <3> QED
      BY <3>1, <3>2
  <2> QED
    BY <2>4, <2>5
<1> QED
  BY <1>5, <1>6, <1>7, <1>8 DEF RetryStep

LEMMA RecordTake ==
  ASSUME RecordInv, Take
  PROVE  Recorded' /\ FlagMatchesConfirmation'
<1> DEFINE r == Head(requests)
<1>1. /\ Recorded /\ FlagMatchesConfirmation /\ Typed /\ Undecided
      /\ fate \in [Reading -> Fates]
  BY DEF RecordInv, HeldInv, Typed, TypeOK
<1>2. /\ r \in Reading /\ fate[r] = "queued"
      /\ fate' = [fate EXCEPT ![r] = fate'[r]]
      /\ fate'[r] \in {"unknown", "suppressed", "normal", "pending"}
  BY <1>1, TakeStep
<1>3. /\ alarmPc = "idle"
      /\ alarmPc' \in {"idle", "insert"}
      /\ fate'[r] = "pending" => alarmPc' = "insert" /\ current' = r
      /\ UNCHANGED <<rows, dbFault, ids, retryPc, retryQueue, pos>>
  BY <1>1, <1>2 DEF Take, Unknown, Suppress, Pass, Raise
<1> HIDE DEF r
<1>4. Unmarked' = Unmarked
  BY <1>3 DEF Unmarked
<1>5. retryPc = "mark" => retryQueue[pos - 1] \in Reading
  BY <1>1, MarkedItemTyped
<1>6. \A q \in Reading : q # r => fate'[q] = fate[q]
  BY <1>1, <1>2
<1>7. Recorded'
  <2>1. retryPc' = "mark" => fate'[retryQueue'[pos' - 1]] = "confirmed"
    BY <1>1, <1>2, <1>3, <1>5, <1>6 DEF Recorded
  <2>2. \A q \in Reading : fate'[q] = "pending" =>
          q \in ids' \cup dbFault' \/ (alarmPc' = "insert" /\ q = current')
    BY <1>1, <1>2, <1>3, <1>6 DEF Recorded
  <2> QED
    BY <1>3, <2>1, <2>2 DEF Recorded
<1> QED
  BY <1>1, <1>2, <1>3, <1>4, <1>6, <1>7 DEF FlagMatchesConfirmation

LEMMA RecordRest ==
  ASSUME RecordInv, Exit \/ Tick \/ Environment \/ UNCHANGED vars
  PROVE  Recorded' /\ FlagMatchesConfirmation'
<1>1. /\ Recorded /\ FlagMatchesConfirmation /\ Typed
      /\ fate \in [Reading -> Fates]
  BY DEF RecordInv, HeldInv, Typed, TypeOK
<1>2. ASSUME UNCHANGED <<fate, rows, dbFault, ids, current, retryQueue, pos>>,
             alarmPc' = alarmPc \/ {alarmPc, alarmPc'} \subseteq {"idle", "exited"},
             retryPc' = retryPc \/ {retryPc, retryPc'} \subseteq {"idle", "exited"}
      PROVE  Recorded' /\ FlagMatchesConfirmation'
  <2>1. Unmarked' = Unmarked
    BY <1>2 DEF Unmarked
  <2> QED
    BY <1>1, <1>2, <2>1 DEF Recorded, FlagMatchesConfirmation
<1>3. ASSUME LoseMemory, Unmarked \subseteq dbFault', dbFault \subseteq dbFault'
      PROVE  Recorded' /\ FlagMatchesConfirmation'
  <2>1. \A r \in Reading : /\ fate'[r] # "pending"
                           /\ fate'[r] = "confirmed" <=> fate[r] = "confirmed"
    BY <1>1, <1>3 DEF LoseMemory
  <2>2. alarmPc' = "exited" /\ retryPc' = "exited" /\ rows' = rows
    BY <1>3 DEF LoseMemory
  <2> QED
    BY <1>1, <1>3, <2>1, <2>2 DEF Recorded, FlagMatchesConfirmation
<1>4. CASE Exit
  BY <1>3, <1>4 DEF Exit, Unmarked
<1>5. CASE Crash
  BY <1>3, <1>5 DEF Crash
<1>6. CASE Tick \/ Stop \/ UNCHANGED vars
  BY <1>2, <1>6 DEF Tick, Stop
<1>7. CASE Start
  BY <1>1, <1>2, <1>7 DEF Start, Typed, Working
<1>8. ASSUME NEW r \in Reading, Submit(r)
      PROVE  Recorded' /\ FlagMatchesConfirmation'
  <2>1. /\ fate[r] = "new"
        /\ \E f \in {"queued", "overflow"} : fate' = [fate EXCEPT ![r] = f]
        /\ UNCHANGED <<rows, dbFault, ids, current, retryQueue, pos, alarmPc, retryPc>>
    BY <1>8 DEF Submit
  <2>2. Unmarked' = Unmarked
    BY <2>1 DEF Unmarked
  <2>3. /\ retryPc = "mark" => retryQueue[pos - 1] \in Reading
        /\ alarmPc = "mark" => current \in Reading
    BY <1>1, MarkedItemTyped DEF Typed, Working
  <2>4. \A q \in Reading : \/ fate'[q] = fate[q]
                           \/ fate[q] = "new" /\ fate'[q] \in {"queued", "overflow"}
    BY <1>1, <2>1
  <2>5. Recorded'
    BY <1>1, <2>1, <2>3, <2>4 DEF Recorded
  <2> QED
    BY <1>1, <2>1, <2>2, <2>4, <2>5 DEF FlagMatchesConfirmation
<1> QED
  BY <1>4, <1>5, <1>6, <1>7, <1>8 DEF Environment

\* mqtt_published tells what happened: it is set only for alarms the broker
\* confirmed, and for each of them unless a call of the database was lost or the
\* process died before making it.
THEOREM FlagIsTruthful == Spec => []FlagMatchesConfirmation
<1>1. Init => RecordInv
  <2>1. Init => Recorded /\ FlagMatchesConfirmation
    BY DEF Init, Recorded, FlagMatchesConfirmation
  <2> QED
    BY <2>1, HeldInit DEF RecordInv
<1>2. RecordInv /\ [Next]_vars => RecordInv'
  <2> SUFFICES ASSUME RecordInv, [Next]_vars PROVE RecordInv'
    OBVIOUS
  <2>1. HeldInv'
    BY HeldStep DEF RecordInv
  <2>2. Recorded' /\ FlagMatchesConfirmation'
    BY RecordTake, RecordAlarm, RecordRetry, RecordRest DEF Next, AlarmStep
  <2> QED
    BY <2>1, <2>2 DEF RecordInv
<1> QED
  BY <1>1, <1>2, PTL DEF Spec, RecordInv

----------------------------------------------------------------------------
(***************************************************************************)
(*                            The retries                                  *)
(*                                                                         *)
(* How often an alarm was published is known wherever it is: never before  *)
(* alarmLoop publishes it, once when pushRetry is next, and once more than *)
(* it was retried in the queue.                                            *)
(***************************************************************************)
Counted ==
  /\ \A r \in Reading : fate[r] \in {"new", "queued"} => attempts[r] = 0
  /\ alarmPc \in {"insert", "publish"} => attempts[current] = 0
  /\ alarmPc = "push" => attempts[current] = 1

CountInv == HeldInv /\ Counted /\ EveryRetryIsMade

\* A step that publishes nothing, pushes nothing and settles nothing.
LEMMA CountKept ==
  ASSUME CountInv, UNCHANGED <<attempts, retryCount, current>>,
         \A r \in Reading : fate'[r] = fate[r],
         Unscanned' \cup Kept' \subseteq Unscanned \cup Kept,
         \/ alarmPc' = alarmPc
         \/ alarmPc = "insert" /\ alarmPc' = "publish"
         \/ alarmPc' \in {"idle", "mark", "exited"}
  PROVE  Counted' /\ EveryRetryIsMade'
BY DEF CountInv, Counted, EveryRetryIsMade

LEMMA QueueMembers ==
  ASSUME HeldInv
  PROVE  /\ Unscanned \cup Kept \subseteq Reading
         /\ \A r \in Unscanned \cup Kept : fate[r] = "pending" /\ r \notin InHand
<1>1. \A r \in Reading : r \in Unscanned \cup Kept => fate[r] = "pending" /\ r \notin InHand
  BY DEF HeldInv, PendingIsHeld, Held, HeldOnce
<1>2. /\ retryQueue \in Seq(Reading) /\ kept \in Seq(Reading)
      /\ pos \in Nat /\ pos >= 1 /\ Len(retryQueue) \in Nat
  BY LenProperties DEF HeldInv, Typed, TypeOK
<1>3. \A i \in pos..Len(retryQueue) : i \in 1..Len(retryQueue)
  BY <1>2
<1>4. Unscanned \subseteq Reading /\ Kept \subseteq Reading
  BY <1>2, <1>3, ElementOfSeq DEF Unscanned, Kept
<1> QED
  BY <1>1, <1>4

LEMMA CountAlarm ==
  ASSUME CountInv, HeldInv', Insert \/ AlarmPublish \/ AlarmMark \/ Push \/ AlarmExit
  PROVE  Counted' /\ EveryRetryIsMade'
<1>1. /\ HeldInv /\ Counted /\ EveryRetryIsMade /\ Typed
      /\ attempts \in [Reading -> Nat]
      /\ retryCount \in [Reading -> 0..MaxRetries]
      /\ fate \in [Reading -> Fates]
  BY DEF CountInv, HeldInv, Typed, TypeOK
<1>2. alarmPc \in {"insert", "publish", "push"} =>
        /\ current \in Reading /\ fate[current] = "pending"
        /\ current \notin Unscanned \cup Kept
  BY <1>1, AtWorkIsPending, QueueMembers DEF InHand
<1>3. CASE Insert \/ AlarmExit
  <2>1. Unscanned' = Unscanned /\ Kept' = Kept
    BY <1>3 DEF Insert, AlarmExit, Unscanned, Kept
  <2> QED
    BY <1>3, <2>1, CountKept DEF Insert, AlarmExit
<1>4. CASE AlarmMark
  <2>1. Unscanned' = Unscanned /\ Kept' = Kept
    BY <1>4 DEF AlarmMark, Unscanned, Kept
  <2> QED
    BY <1>1, <1>4, <2>1 DEF AlarmMark, Counted, EveryRetryIsMade
<1>5. CASE AlarmPublish
  <2>1. Unscanned' = Unscanned /\ Kept' = Kept
    BY <1>5 DEF AlarmPublish, Unscanned, Kept
  <2>2. /\ alarmPc = "publish" /\ alarmPc' \in {"mark", "idle", "push"}
        /\ alarmPc' = "push" => current' = current
        /\ attempts' = [attempts EXCEPT ![current] = attempts[current] + 1]
        /\ fate' = fate \/ fate' = [fate EXCEPT ![current] = "confirmed"]
        /\ UNCHANGED retryCount
    BY <1>5 DEF AlarmPublish, PublishOK, PublishFailed
  <2>3. /\ \A r \in Reading \ {current} : attempts'[r] = attempts[r] /\ fate'[r] = fate[r]
        /\ attempts'[current] = 1
        /\ fate'[current] \in {"pending", "confirmed"}
    BY <1>1, <1>2, <2>2 DEF Counted
  <2>4. Counted'
    BY <1>1, <2>2, <2>3 DEF Counted
  <2> QED
    BY <1>1, <1>2, <2>1, <2>2, <2>3, <2>4 DEF EveryRetryIsMade
<1>6. CASE Push
  <2>1. /\ alarmPc = "push" /\ alarmPc' = "idle"
        /\ retryCount' = [retryCount EXCEPT ![current] = 0]
        /\ UNCHANGED <<attempts, fate>>
    BY <1>6 DEF Push
  <2>2. Unscanned' \cup Kept' \subseteq Unscanned \cup Kept \cup {current}
    <3>1. InHand = {current}
      BY <2>1 DEF InHand
    <3>2. Held' = Held
      BY <1>1, <1>6, QuietKeepsHeld DEF HeldInv, Quiet
    <3> QED
      BY <3>1, <3>2 DEF Held
  <2>3. Counted'
    BY <1>1, <2>1 DEF Counted
  <2>4. EveryRetryIsMade'
    <3> SUFFICES ASSUME NEW r \in Reading
                 PROVE  /\ r \in Unscanned' \cup Kept' => attempts[r] = retryCount'[r] + 1
                        /\ fate[r] = "gaveUp" => attempts[r] = MaxRetries + 1
      BY <2>1 DEF EveryRetryIsMade
    <3>1. CASE r = current
      <4>1. retryCount'[r] = 0 /\ attempts[r] = 1 /\ fate[r] = "pending"
        BY <1>1, <1>2, <2>1, <3>1 DEF Counted
      <4> QED
        BY <4>1
    <3>2. CASE r # current
      BY <1>1, <2>1, <2>2, <3>2 DEF EveryRetryIsMade
    <3> QED
      BY <3>1, <3>2
  <2> QED
    BY <2>3, <2>4
<1> QED
  BY <1>3, <1>4, <1>5, <1>6

LEMMA CountRetry ==
  ASSUME CountInv, HeldInv', RetryStep
  PROVE  Counted' /\ EveryRetryIsMade'
<1>1. /\ HeldInv /\ Counted /\ EveryRetryIsMade /\ Typed /\ HeldOnce
      /\ attempts \in [Reading -> Nat]
      /\ retryCount \in [Reading -> 0..MaxRetries]
      /\ fate \in [Reading -> Fates]
      /\ UNCHANGED <<alarmPc, current>>
  BY DEF CountInv, HeldInv, Typed, TypeOK, RetryStep, PassStart, PassDrop, PassKeep,
         PassTry, PassMark, PassEnd, RetryExit
<1>2. alarmPc \in {"insert", "publish", "push"} => current \in InHand
  BY DEF InHand
<1>3. InPass =>
        /\ Item \in Reading /\ Item \in Unscanned /\ Item \notin Kept
        /\ fate[Item] = "pending" /\ Item \notin InHand
        /\ attempts[Item] = retryCount[Item] + 1
  <2>1. InPass => Item \in Reading /\ Item \in Unscanned /\ fate[Item] = "pending"
    BY <1>1, AtWorkIsPending
  <2> QED
    BY <1>1, <2>1 DEF HeldOnce, EveryRetryIsMade
<1>4. CASE PassStart \/ PassKeep \/ PassMark \/ PassEnd \/ RetryExit
  <2>1. Quiet /\ UNCHANGED <<attempts, retryCount, InHand>>
    BY <1>4 DEF Quiet, PassStart, PassKeep, PassMark, PassEnd, RetryExit, InHand
  <2>2. Held' = Held /\ fate' = fate
    BY <1>1, <2>1, QuietKeepsHeld
  <2>3. Unscanned' \cup Kept' \subseteq Unscanned \cup Kept
    <3>1. (Unscanned' \cup Kept') \cap InHand' = {}
      BY DEF HeldInv, HeldOnce
    <3> QED
      BY <2>1, <2>2, <3>1 DEF Held
  <2> QED
    BY <1>1, <2>1, <2>2, <2>3, CountKept
<1>5. ASSUME InPass, pos' = pos + 1, UNCHANGED <<retryQueue>>,
             kept' = kept \/ kept' = Append(kept, Item)
      PROVE  /\ Unscanned' \cup Kept' \subseteq Unscanned \cup Kept
             /\ kept' = kept => Item \notin Unscanned' \cup Kept'
  <2>1. Unscanned' = Unscanned \ {Item}
    BY <1>1, <1>5, ScanStep
  <2>2. CASE kept' = kept
    BY <1>3, <1>5, <2>1, <2>2 DEF Kept
  <2>3. CASE kept' = Append(kept, Item)
    <3>1. Kept' = Kept \cup {Item}
      BY <1>1, <1>3, <1>5, <2>3, KeepStep
    <3>2. kept' # kept
      <4>1. kept \in Seq(Reading)
        BY <1>1 DEF Typed, TypeOK
      <4>2. Len(kept') = Len(kept) + 1 /\ Len(kept) \in Nat
        BY <1>3, <1>5, <2>3, <4>1, AppendProperties, LenProperties
      <4> QED
        BY <4>2
    <3> QED
      BY <1>3, <1>5, <2>1, <3>1, <3>2
  <2> QED
    BY <1>5, <2>2, <2>3
<1>6. CASE PassDrop
  <2>1. /\ InPass /\ pos' = pos + 1 /\ UNCHANGED <<retryQueue, kept, attempts>>
        /\ retryCount[Item] >= MaxRetries
        /\ retryCount' = [retryCount EXCEPT ![Item] = 0]
        /\ fate' = [fate EXCEPT ![Item] = "gaveUp"]
    BY <1>6 DEF PassDrop, Exhausted, Forget
  <2>2. /\ Unscanned' \cup Kept' \subseteq (Unscanned \cup Kept) \ {Item}
    BY <1>5, <2>1
  <2>3. \A r \in Reading : /\ fate'[r] = IF r = Item THEN "gaveUp" ELSE fate[r]
                           /\ r # Item => retryCount'[r] = retryCount[r]
    BY <1>1, <2>1
  <2>4. attempts[Item] = MaxRetries + 1
    <3>1. retryCount[Item] \in 0..MaxRetries /\ MaxRetries \in Nat
      BY <1>1, <1>3, <2>1, ConstantsAssumption
    <3> QED
      BY <1>3, <2>1, <3>1
  <2>5. Counted'
    BY <1>1, <2>1, <2>3 DEF Counted
  <2> QED
    BY <1>1, <2>1, <2>2, <2>3, <2>4, <2>5 DEF EveryRetryIsMade
<1>7. CASE PassTry
  <2>1. /\ InPass /\ pos' = pos + 1 /\ UNCHANGED retryQueue
        /\ attempts' = [attempts EXCEPT ![Item] = attempts[Item] + 1]
        /\ \/ /\ fate' = [fate EXCEPT ![Item] = "confirmed"]
              /\ retryCount' = [retryCount EXCEPT ![Item] = 0]
              /\ kept' = kept
           \/ /\ fate' = fate
              /\ retryCount' = [retryCount EXCEPT ![Item] = retryCount[Item] + 1]
              /\ kept' = Append(kept, Item)
    BY <1>7 DEF PassTry, PublishOK, PublishFailed, Forget, RetryCounted
  <2>2. /\ Unscanned' \cup Kept' \subseteq Unscanned \cup Kept
        /\ kept' = kept => Item \notin Unscanned' \cup Kept'
    BY <1>5, <2>1
  <2>3. /\ attempts'[Item] = attempts[Item] + 1
        /\ \A r \in Reading \ {Item} : /\ attempts'[r] = attempts[r]
                                       /\ retryCount'[r] = retryCount[r]
                                       /\ fate'[r] = fate[r]
        /\ \/ fate'[Item] = "confirmed" /\ kept' = kept
           \/ fate'[Item] = "pending" /\ retryCount'[Item] = retryCount[Item] + 1
    BY <1>1, <1>3, <2>1
  <2>4. Counted'
    <3>1. \A r \in Reading : fate'[r] \in {"new", "queued"} => attempts'[r] = 0
      BY <1>1, <1>3, <2>1, <2>3 DEF Counted
    <3>2. alarmPc \in {"insert", "publish", "push"} =>
            current \in Reading \ {Item}
      BY <1>1, <1>2, <1>3, <2>1 DEF Typed, Working
    <3> QED
      BY <1>1, <2>3, <3>1, <3>2 DEF Counted
  <2>5. EveryRetryIsMade'
    <3> SUFFICES ASSUME NEW r \in Reading
                 PROVE  /\ r \in Unscanned' \cup Kept' => attempts'[r] = retryCount'[r] + 1
                        /\ fate'[r] = "gaveUp" => attempts'[r] = MaxRetries + 1
      BY DEF EveryRetryIsMade
    <3>1. CASE r = Item
      BY <1>3, <2>1, <2>2, <2>3, <3>1
    <3>2. CASE r # Item
      BY <1>1, <2>2, <2>3, <3>2 DEF EveryRetryIsMade
    <3> QED
      BY <3>1, <3>2
  <2> QED
    BY <2>4, <2>5
<1> QED
  BY <1>4, <1>6, <1>7 DEF RetryStep

LEMMA CountRest ==
  ASSUME CountInv, HeldInv', Take \/ Exit \/ Tick \/ Environment \/ UNCHANGED vars
  PROVE  Counted' /\ EveryRetryIsMade'
<1>1. /\ HeldInv /\ Counted /\ EveryRetryIsMade /\ Typed /\ HeldOnce /\ Undecided
      /\ fate \in [Reading -> Fates]
  BY DEF CountInv, HeldInv, Typed, TypeOK
<1>2. CASE Take
  <2> DEFINE r == Head(requests)
  <2>1. /\ r \in Reading /\ fate[r] = "queued"
        /\ fate' = [fate EXCEPT ![r] = fate'[r]]
        /\ fate'[r] \in {"unknown", "suppressed", "normal", "pending"}
        /\ UNCHANGED <<retryQueue, pos, kept>>
    BY <1>1, <1>2, TakeStep
  <2>2. /\ alarmPc = "idle" /\ UNCHANGED <<attempts, retryCount>>
        /\ alarmPc' = "idle" \/ (alarmPc' = "insert" /\ current' = r)
    BY <1>2 DEF Take, Unknown, Suppress, Pass, Raise
  <2> HIDE DEF r
  <2>3. Unscanned' = Unscanned /\ Kept' = Kept
    BY <2>1 DEF Unscanned, Kept
  <2>4. \A q \in Reading \ {r} : fate'[q] = fate[q]
    BY <1>1, <2>1
  <2>5. Counted'
    BY <1>1, <2>1, <2>2, <2>4 DEF Counted
  <2> QED
    BY <1>1, <2>1, <2>2, <2>3, <2>4, <2>5 DEF EveryRetryIsMade
<1>3. CASE LoseMemory
  <2>1. /\ Held' = {}
        /\ \A r \in Reading : fate'[r] = IF fate[r] = "pending" THEN "lost"
                                         ELSE IF fate[r] = "queued" THEN "discarded"
                                         ELSE fate[r]
    BY <1>1, <1>3, LoseStep
  <2>2. alarmPc' = "exited" /\ attempts' = attempts
    BY <1>3 DEF LoseMemory
  <2>3. Unscanned' \cup Kept' = {}
    BY <2>1 DEF Held
  <2> QED
    BY <1>1, <2>1, <2>2, <2>3 DEF Counted, EveryRetryIsMade
<1>4. CASE Tick \/ Start \/ Stop \/ UNCHANGED vars
  <2>1. /\ Unscanned' = Unscanned /\ Kept' = Kept
        /\ UNCHANGED <<attempts, retryCount, current, fate>>
        /\ alarmPc' = alarmPc \/ alarmPc' = "idle"
    BY <1>4 DEF Tick, Start, Stop, Unscanned, Kept
  <2> QED
    BY <2>1, CountKept
<1>5. ASSUME NEW r \in Reading, Submit(r)
      PROVE  Counted' /\ EveryRetryIsMade'
  <2>1. /\ fate[r] = "new"
        /\ \E f \in {"queued", "overflow"} : fate' = [fate EXCEPT ![r] = f]
        /\ UNCHANGED <<attempts, retryCount, alarmPc, current, retryQueue, pos, kept>>
    BY <1>5 DEF Submit
  <2>2. Unscanned' = Unscanned /\ Kept' = Kept
    BY <2>1 DEF Unscanned, Kept
  <2>3. \A q \in Reading : \/ fate'[q] = fate[q]
                           \/ fate[q] = "new" /\ fate'[q] \in {"queued", "overflow"}
    BY <1>1, <2>1
  <2>4. Counted'
    BY <1>1, <2>1, <2>3 DEF Counted
  <2> QED
    BY <1>1, <2>1, <2>2, <2>3, <2>4 DEF EveryRetryIsMade
<1> QED
  BY <1>2, <1>3, <1>4, <1>5 DEF Environment, Exit, Crash

LEMMA CountHolds == Spec => []CountInv
<1>1. Init => CountInv
  <2>1. Init => Counted
    BY DEF Init, Counted
  <2>2. Init => EveryRetryIsMade
    <3> SUFFICES ASSUME Init PROVE EveryRetryIsMade
      OBVIOUS
    <3>1. Unscanned \cup Kept = {}
      BY EmptySeq DEF Init, Unscanned, Kept
    <3> QED
      BY <3>1 DEF Init, EveryRetryIsMade
  <2> QED
    BY <2>1, <2>2, HeldInit DEF CountInv
<1>2. CountInv /\ [Next]_vars => CountInv'
  <2> SUFFICES ASSUME CountInv, [Next]_vars PROVE CountInv'
    OBVIOUS
  <2>1. HeldInv'
    BY HeldStep DEF CountInv
  <2>2. Counted' /\ EveryRetryIsMade'
    BY <2>1, CountAlarm, CountRetry, CountRest DEF Next, AlarmStep
  <2> QED
    BY <2>1, <2>2 DEF CountInv
<1> QED
  BY <1>1, <1>2, PTL DEF Spec

\* No retry is skipped or made twice: an alarm in the queue was published once
\* and then once per counted retry, and it is dropped only after the last of them.
THEOREM RetriesAreExact == Spec => []EveryRetryIsMade
<1>1. CountInv => EveryRetryIsMade
  BY DEF CountInv
<1> QED
  BY <1>1, CountHolds, PTL

\* The broker may get an alarm again when its answer was late, but at most once
\* and MaxRetries times, and never after a loop has seen it confirmed or dropped.
THEOREM SettledIsNotPublished == Spec => PublishedWhilePending
<1>1. CountInv /\ [Next]_vars =>
        [\A r \in Reading : attempts'[r] # attempts[r] =>
           fate[r] = "pending" /\ attempts[r] <= MaxRetries]_vars
  <2> SUFFICES ASSUME CountInv, [Next]_vars, NEW r \in Reading,
                      attempts'[r] # attempts[r]
               PROVE  fate[r] = "pending" /\ attempts[r] <= MaxRetries
    OBVIOUS
  <2>1. /\ HeldInv /\ Counted /\ EveryRetryIsMade /\ Typed
        /\ attempts \in [Reading -> Nat] /\ retryCount \in [Reading -> 0..MaxRetries]
        /\ MaxRetries \in Nat
    BY ConstantsAssumption DEF CountInv, HeldInv, Typed, TypeOK
  <2>2. CASE AlarmPublish
    <3>1. alarmPc = "publish" /\ attempts' = [attempts EXCEPT ![current] = attempts[current] + 1]
      BY <2>2 DEF AlarmPublish, PublishOK, PublishFailed
    <3>2. r = current
      BY <2>1, <3>1
    <3>3. fate[r] = "pending"
      BY <2>1, <3>1, <3>2, AtWorkIsPending
    <3>4. attempts[r] = 0
      BY <2>1, <3>1, <3>2 DEF Counted
    <3> QED
      BY <2>1, <3>3, <3>4
  <2>3. CASE PassTry
    <3>1. /\ InPass /\ ~ Exhausted(Item)
          /\ attempts' = [attempts EXCEPT ![Item] = attempts[Item] + 1]
      BY <2>3 DEF PassTry, PublishOK, PublishFailed
    <3>2. r = Item
      BY <2>1, <3>1
    <3>3. r \in Unscanned
      BY <2>1, <3>1, <3>2, AtWorkIsPending
    <3>4. fate[r] = "pending" /\ attempts[r] = retryCount[r] + 1
      BY <2>1, <3>3, QueueMembers DEF EveryRetryIsMade
    <3>5. retryCount[r] \in 0..MaxRetries /\ retryCount[r] < MaxRetries
      BY <2>1, <3>1, <3>2 DEF Exhausted
    <3> QED
      BY <2>1, <3>4, <3>5
  <2>4. CASE ~ AlarmPublish /\ ~ PassTry
    <3>1. attempts' = attempts
      BY <2>4 DEF Next, AlarmStep, RetryStep, Environment, Take, Insert, AlarmMark, Push,
         AlarmExit, PassStart, PassDrop, PassKeep, PassMark, PassEnd, RetryExit, Exit, Crash,
         LoseMemory, Tick, Start, Submit, Stop, netVars, vars
    <3> QED
      BY <3>1
  <2> QED
    BY <2>2, <2>3, <2>4
<1> QED
  BY <1>1, CountHolds, PTL DEF Spec, PublishedWhilePending
============================================================================
