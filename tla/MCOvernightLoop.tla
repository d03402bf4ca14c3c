---------------------------- MODULE MCOvernightLoop ----------------------------
(***************************************************************************)
(* Two adapters to a family: one that is trained before another.           *)
(***************************************************************************)
EXTENDS OvernightLoop

MCTasks == <<"qa", "multitask">>
=============================================================================
