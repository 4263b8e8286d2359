------------------------------- MODULE MCRelease --------------------------------
(***************************************************************************)
(* Release with a few runs over a main of a few commits.                   *)
(***************************************************************************)
EXTENDS Release, TLC

CONSTANT MaxVersion

MCVersions == 1..MaxVersion

(* Nothing tells the runs apart. *)
Symmetry == Permutations(Runs)
===============================================================================
