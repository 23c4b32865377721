------------------------------- MODULE MCSync -------------------------------
(* Model checking of Sync: worktrees of one instance and one repository.   *)
EXTENDS Sync, TLC

CONSTANTS i1, i2, r1

AllOfOne == [w \in Worktrees |-> i1]
OfTwo == [w \in Worktrees |-> IF w = CHOOSE v \in Worktrees : TRUE THEN i1 ELSE i2]
OneRepo == [w \in Worktrees |-> r1]

Symmetry == Permutations(Clients) \cup Permutations(Changes)
=============================================================================
