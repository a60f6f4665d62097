--------------------------- MODULE MCContainerExec ---------------------------
(* ContainerExec for TLC.                                                  *)
EXTENDS ContainerExec

BothKinds == {"run", "spawn"}
=============================================================================
