------------------------------ MODULE PortPlan -------------------------------
(***************************************************************************)
(* plan_ports (src/owm/ports.py), the preview behind next-ports: candidate *)
(* pairs are drawn one after the other as if each had been allocated, and  *)
(* the room left is counted by a scan of its own.  Its names have a prefix, *)
(* so that PortAlloc and this can be reasoned about together.              *)
(***************************************************************************)
EXTENDS Ports, Sequences, FiniteSets

CONSTANTS
  Claims,    \* the sets of ports the configured instances may have claimed
  MaxCount   \* bound on the number of pairs asked for

ASSUME ClaimsAssumption == Claims \subseteq SUBSET Nat
ASSUME CountAssumption == MaxCount \in Nat

VARIABLES
  occupied,    \* ports claimed in the tomls
  count,       \* pairs asked for
  candidates,  \* http ports of the pairs found so far
  work,        \* occupied and the candidates' ports
  exhausted    \* the range gave no further pair

planVars == <<occupied, count, candidates, work, exhausted>>

PlanInit ==
  /\ occupied \in Claims
  /\ count \in 0 .. MaxCount
  /\ candidates = <<>>
  /\ work = occupied
  /\ exhausted = FALSE

\* The loop runs max(count, 1) times.
Wanted == IF count > 1 THEN count ELSE 1

Looping == Len(candidates) < Wanted /\ ~exhausted

\* Mutant of Draw: the gevent port is not added to the work set.
DrawHttpOnly ==
  /\ Looping
  /\ HasRoom(work)
  /\ LET n == AssignPort(work) IN
       /\ candidates' = Append(candidates, n)
       /\ work' = work \cup {n}
  /\ UNCHANGED <<occupied, count, exhausted>>

Draw ==
  /\ Looping
  /\ HasRoom(work)
  /\ LET n == AssignPort(work) IN
       /\ candidates' = Append(candidates, n)
       /\ work' = work \cup Pair(n)
  /\ UNCHANGED <<occupied, count, exhausted>>

GiveUp ==
  /\ Looping
  /\ ~HasRoom(work)
  /\ exhausted' = TRUE
  /\ UNCHANGED <<occupied, count, candidates, work>>

PlanNext == Draw \/ GiveUp

PlanSpec == PlanInit /\ [][PlanNext]_planVars

-----------------------------------------------------------------------------
(* Properties.                                                             *)

PlanTypeOK ==
  /\ occupied \in SUBSET Nat /\ work \in SUBSET Nat
  /\ count \in Nat
  /\ candidates \in Seq(HttpPorts)
  /\ exhausted \in BOOLEAN

Found == 1 .. Len(candidates)

\* The candidates can all be allocated: their pairs are free and disjoint.
CandidatesFit ==
  \A i \in Found : /\ Pair(candidates[i]) \cap occupied = {}
                   /\ \A j \in Found : i < j =>
                        Pair(candidates[i]) \cap Pair(candidates[j]) = {}

\* They come in ascending order, so the first is the lowest free pair.
CandidatesAscend ==
  \A i, j \in Found : i < j => candidates[i] < candidates[j]

\* free_pairs says how far the plan can go: each candidate uses up one, and
\* the range is reported exhausted only when none is left.
FreePairsCountsDown ==
  /\ GreedyPairCount(occupied) = Len(candidates) + GreedyPairCount(work)
  /\ exhausted => GreedyPairCount(work) = 0

\* Sets of http ports whose pairs are free and do not overlap.
Packings(occ) ==
  {S \in SUBSET {n \in HttpPorts : PairFree(n, occ)} : \A n \in S : n + 1 \notin S}

\* The greedy scan is optimal: no other choice of pairs fits more instances.
GreedyIsMaximal ==
  \A S \in Packings(occupied) : Cardinality(S) <= GreedyPairCount(occupied)

=============================================================================
