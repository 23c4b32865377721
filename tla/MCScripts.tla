------------------------------ MODULE MCScripts ------------------------------
(* Scripts for TLC: a structured script and one that is not, one case.      *)
EXTENDS Scripts, TLC

CONSTANT x

MCOutputs == [status : [Cases -> {"OK", "FAIL"}], abort : {FALSE}]
MoreOutputs == [status : [Cases -> {"OK", None}], abort : BOOLEAN]
Symmetry == Permutations(Runs)

=============================================================================
