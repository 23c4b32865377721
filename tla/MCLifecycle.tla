----------------------------- MODULE MCLifecycle -----------------------------
(* Instances of Lifecycle for TLC: who runs the commands, and on what.     *)
EXTENDS Lifecycle, TLC

CONSTANTS i1, i2, c1, c2, h1, h2

\* Each client in a host of its own, or both threads of one server.
OwnHosts == c1 :> h1 @@ c2 :> h2
OneHost == [c \in Clients |-> h1]

\* Each client keeps to an instance of its own, or all work on all of them.
OwnTargets == c1 :> {i1} @@ c2 :> {i2}
AllTargets == [c \in Clients |-> Instances]

PidSymmetry == Permutations(Pids)
PidInstanceSymmetry == Permutations(Pids) \cup Permutations(Instances)
=============================================================================
