------------------------------- MODULE MCVenv -------------------------------
(* One of the repositories has two requirement files: they may be variants  *)
(* of each other, or both be named by [python].requirements.                *)
EXTENDS Venv, TLC

CONSTANT odoo

MCCandidates == <<"requirements_3.txt", "requirements.txt">>
MCFiles == {odoo} \X {"requirements_3.txt", "requirements.txt"}
MCExplicits == {{}, MCFiles}
Symmetry == Permutations(Contents)

=============================================================================
