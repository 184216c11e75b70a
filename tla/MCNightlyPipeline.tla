------------------------- MODULE MCNightlyPipeline --------------------------
(* Small instances of NightlyPipeline for TLC. *)
EXTENDS NightlyPipeline, TLC

ProcSymmetry == Permutations(Procs)
=============================================================================
