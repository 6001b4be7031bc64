--------------------------- MODULE MC_AlarmMQTT ---------------------------
(***************************************************************************)
(* Small instances of AlarmMQTT for TLC.                                   *)
(***************************************************************************)
EXTENDS AlarmMQTT, TLC

CONSTANTS s1, s2, t1, t2

\* s1 has both thresholds, as every sensor of the shipped table; s2 shows a
\* sensor whose warning threshold is NULL.
OneWarning == s1 :> 1
OneDanger  == s1 :> 2
TwoWarning == s1 :> 1 @@ s2 :> None
TwoDanger  == s1 :> 2 @@ s2 :> 1

\* Tags are only names.
TagSymmetry == Permutations(Tag)
============================================================================
