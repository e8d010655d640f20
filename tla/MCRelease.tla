------------------------------ MODULE MCRelease ------------------------------
(***************************************************************************)
(* Two trees in which runs of the pipeline overlap.                        *)
(***************************************************************************)
EXTENDS Release, TLC

CONSTANTS r1, r2

Symmetry == Permutations(Runners)
=============================================================================
