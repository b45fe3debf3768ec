---------------------------- MODULE MCUserProcess ----------------------------
(* UserProcess for TLC: the processes other than Root are interchangeable. *)
EXTENDS UserProcess, TLC

Symmetry == Permutations(Proc \ {Root})
===============================================================================
