-------------------------------- MODULE MCIntake --------------------------------
(*****************************************************************************)
(* Intake for TLC: submits are interchangeable.                              *)
(*****************************************************************************)
EXTENDS Intake, TLC

Symmetry == Permutations(Submits)
===============================================================================
