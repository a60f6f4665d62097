--------------------------- MODULE DriverStreams ---------------------------
(***************************************************************************)
(* What a driver reads its run from: the native driver a turn's chunks, pi *)
(* the log of a process.  A run has one driver.                            *)
(***************************************************************************)
EXTENDS StreamedTurn, PiLog

VARIABLE driver

Init == driver \in {"native", "pi"} /\ StreamInit /\ PiInit

Next ==
    \/ driver = "native" /\ StreamNext /\ UNCHANGED <<driver, piVars>>
    \/ driver = "pi" /\ PiNext /\ UNCHANGED <<driver, streamVars>>

Spec == Init /\ [][Next]_<<driver, streamVars, piVars>>

\* The turn and the log stay in their ranges: a turn has only fragments of calls the
\* server numbered, and a log only events of the four kinds.
TypeOK == driver \in {"native", "pi"} /\ StreamTypeOK /\ PiTypeOK
=============================================================================
