------------------------- MODULE MC_ServerRequests -------------------------
(***************************************************************************)
(* A small instance of ServerRequests for TLC.                             *)
(***************************************************************************)
EXTENDS ServerRequests, TLC

CONSTANTS c1, c2, c3

\* Two calls that compete for the simulator and one for the optimizer.
TwoAndOne == c1 :> "sim" @@ c2 :> "sim" @@ c3 :> "opt"

\* Both limits are one tick.
EvenWait == "sim" :> 1 @@ "opt" :> 1
=============================================================================
