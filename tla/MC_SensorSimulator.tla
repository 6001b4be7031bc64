------------------------ MODULE MC_SensorSimulator ------------------------
(***************************************************************************)
(* Small instances of SensorSimulator for TLC.                             *)
(***************************************************************************)
EXTENDS SensorSimulator, TLC

CONSTANTS p1, p2, t1, s1

\* Two updates, a trigger and a reader.
AllKinds == p1 :> "post" @@ p2 :> "post" @@ t1 :> "trigger" @@ s1 :> "status"
OnePost  == p1 :> "post"

\* A whole update that keeps the permeability of the start, and one that changes it
\* and, naming no downstream level, resets it.  One after the other the first level
\* forgets a factor, and in one order the factors of the permeabilities compound.
SomeBodies == p1 :> {"up" :> 2 @@ "down" :> 1 @@ "perm" :> 1}
              @@ p2 :> {"up" :> 2 @@ "perm" :> 2} @@ t1 :> {} @@ s1 :> {}
PermOnly   == p1 :> {"perm" :> 1}

\* The environment sets everything, or the upstream level only.
AllSet == { "up" :> 1 @@ "down" :> 0 @@ "perm" :> 1 }
UpSet  == { "up" :> 1 @@ "down" :> -1 @@ "perm" :> -1 }

\* One sensor of each kind, and two that depend on one another.
FourSensors == <<"PZ-001", "WL-001", "WL-002", "SM-001">>
TwoSensors  == <<"PZ-001", "WL-001">>
===========================================================================
