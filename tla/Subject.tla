------------------------------- MODULE Subject -------------------------------
(* Where parts that share no state are model-checked together, a behaviour   *)
(* follows one of them, its subject, and the others rest.                   *)
CONSTANT Subjects
VARIABLE subject
=============================================================================
