--------------------------- MODULE MCRunWorkspace ---------------------------
(***************************************************************************)
(* RunWorkspace for TLC: a native run checked with conditions and a pi run *)
(* checked by pytest, in two harness processes over one runs root.         *)
(***************************************************************************)
EXTENDS RunWorkspace

CONSTANTS r1, r2

MCGrader == [r \in Runs |-> IF r = r1 THEN "conditions" ELSE "pytest"]

MCDriver == [r \in Runs |-> IF r = r1 THEN "native" ELSE "pi"]

\* In the group with the output open (cmd &): the native run's also with it elsewhere
\* (cmd > file &), the pi run's also out of the group (setsid cmd &).
MCBackground ==
    [r \in Runs |->
        { [group |-> TRUE, pipe |-> TRUE],
          IF r = r1 THEN [group |-> TRUE, pipe |-> FALSE]
                    ELSE [group |-> FALSE, pipe |-> TRUE] }]
=============================================================================
