---------------------------- MODULE MCModelBracket ----------------------------
(***************************************************************************)
(* ModelBracket for TLC.                                                   *)
(***************************************************************************)
EXTENDS ModelBracket

CONSTANTS p1, p2, m1, m2

MCProcesses == {p1, p2}
MCModels    == {m1, m2}
=============================================================================
