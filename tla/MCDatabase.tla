----------------------------- MODULE MCDatabase -----------------------------
(* Database for TLC: an instance of one template that declares a module, two *)
(* clients and two minutes that are interchangeable.                         *)
EXTENDS Database, TLC

CONSTANTS n1, t, m

MCDeclared == n1 :> {m}
MCBase == n1 :> t
Symmetry == Permutations(Clients)

=============================================================================
