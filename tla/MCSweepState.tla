---------------------------- MODULE MCSweepState ----------------------------
(***************************************************************************)
(* Instance of SweepState for TLC: the third child is the first one again. *)
(***************************************************************************)
EXTENDS SweepState

CONSTANTS d1, d2

MCRunDirOf == <<d1, d2, d1>>
=============================================================================
