----------------------------- MODULE MCProvision -----------------------------
(* Provision for TLC: names are interchangeable, and so are pieces of work. *)
EXTENDS Provision, TLC

Symmetry == Permutations(Names) \cup Permutations(Works)

=============================================================================
