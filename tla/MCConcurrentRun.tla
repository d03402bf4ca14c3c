--------------------------- MODULE MCConcurrentRun ---------------------------
(***************************************************************************)
(* Instances of ConcurrentRun for TLC: three requests, two of one session. *)
(***************************************************************************)
EXTENDS ConcurrentRun, TLC

CONSTANTS r1, r2, r3, s1, s2, a1, a2

MCSessionOf == r1 :> s1 @@ r2 :> s1 @@ r3 :> s2
=============================================================================
