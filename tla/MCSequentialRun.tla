--------------------------- MODULE MCSequentialRun ---------------------------
(***************************************************************************)
(* Instance of SequentialRun for TLC.                                      *)
(***************************************************************************)
EXTENDS SequentialRun

CONSTANTS a1, a2
=============================================================================
