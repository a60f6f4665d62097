---------------------------- MODULE MCMeasurement ----------------------------
(***************************************************************************)
(* Measurement for TLC: a backend and a helper with the memory the         *)
(* comments in metrics.py give an MLX backend, of which little is in its   *)
(* RSS.                                                                    *)
(***************************************************************************)
EXTENDS Measurement

MCFootprint == [c \in Candidates |-> IF c = Backend THEN 4 ELSE 2]

MCRss == [c \in Candidates |-> IF c = Backend THEN 1 ELSE 3]
=============================================================================
