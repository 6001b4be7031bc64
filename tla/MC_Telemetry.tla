--------------------------- MODULE MC_Telemetry ---------------------------
(***************************************************************************)
(* Small instances of Telemetry for TLC.                                   *)
(***************************************************************************)
EXTENDS Telemetry, TLC

CONSTANTS b1, b2, m1

\* Readings without a time in a batch that is one minute, or the limit and one
\* more, ahead; a reading of the far future; a sensor without a name; nothing.
SomeManual ==
  LET B(stamp, times, named) == [stamp |-> stamp, times |-> times, named |-> named] IN
  { B(1, <<Zero, 0>>, TRUE), B(3, <<Zero>>, TRUE), B(Zero, <<Zero>>, TRUE),
    B(9, <<9>>, TRUE), B(0, <<0>>, FALSE), B(0, <<>>, TRUE) }
===========================================================================
