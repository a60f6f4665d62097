-------------------------- MODULE MCDriverStreams --------------------------
(***************************************************************************)
(* DriverStreams for TLC.                                                  *)
(***************************************************************************)
EXTENDS DriverStreams

\* Two calls, of two pieces and of one.
MCArguments == [k \in 0..1 |-> 2 - k]
=============================================================================
