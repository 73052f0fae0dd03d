----------------------------- MODULE MCStageReport -----------------------------
(***************************************************************************)
(* The stage reports for TLC.  Paths and stages are model values that no     *)
(* definition tells apart, so their permutations are symmetries.             *)
(***************************************************************************)
EXTENDS StageReport, TLC

\* Every stage has a stage_id of its own.
OwnId(stage) == stage

Symmetry == Permutations(Paths) \cup Permutations(Stages) \cup Permutations(Contents)
================================================================================
