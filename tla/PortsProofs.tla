----------------------------- MODULE PortsProofs -----------------------------
(***************************************************************************)
(* The arithmetic of ports.py: what assign_port returns, what the room     *)
(* left is, and that what plan_ports announces can be allocated, for every *)
(* range, every set of claims and every count.                             *)
(***************************************************************************)
EXTENDS PortPlan, FiniteSetTheorems, TLAPS

USE RangeAssumption

\* A set of naturals below a bound has a least member: of the initial
\* segments 0..x, one contains no other.
LEMMA LeastMember ==
  ASSUME NEW n \in Nat, NEW T \in SUBSET (0 .. n), T # {}
  PROVE  \E x \in T : \A y \in T : x <= y
<1> DEFINE Below == {0 .. x : x \in T}
<1>1. IsWellFoundedOn(StrictSubsetOrdering(0 .. n), SUBSET (0 .. n))
  <2>1. FiniteSubsetsOf(0 .. n) = SUBSET (0 .. n)
    <3>1. IsFiniteSet(0 .. n)
      BY FS_Interval
    <3>2. QED
      BY <3>1, FS_FiniteSubsetsOfFinite
  <2>2. IsWellFoundedOn(StrictSubsetOrdering(0 .. n), FiniteSubsetsOf(0 .. n))
    BY FS_StrictSubsetOrderingWellFounded
  <2>3. QED
    BY <2>1, <2>2
<1>2. \A x \in T : 0 .. x \in SUBSET (0 .. n)
  OBVIOUS
<1>3. \E S \in Below : \A B \in Below : <<B, S>> \notin StrictSubsetOrdering(0 .. n)
  <2>1. Below \subseteq SUBSET (0 .. n)
    BY <1>2
  <2>2. Below # {}
    OBVIOUS
  <2> HIDE DEF Below
  <2>3. QED
    BY <1>1, <2>1, <2>2, WFMin
<1>4. PICK x \in T : \A y \in T : <<0 .. y, 0 .. x>> \notin StrictSubsetOrdering(0 .. n)
  BY <1>3
<1>5. ASSUME NEW y \in T, y < x PROVE FALSE
  <2>1. 0 .. y \subseteq 0 .. x
    BY <1>5
  <2>2. x \in 0 .. x /\ x \notin 0 .. y
    BY <1>5
  <2>3. <<0 .. y, 0 .. x>> \in StrictSubsetOrdering(0 .. n)
    BY <1>2, <2>1, <2>2 DEF StrictSubsetOrdering
  <2>4. QED
    BY <2>3, <1>4
<1>6. QED
  BY <1>5

\* assign_port returns the lowest http port whose pair is free; both ports
\* of the pair are in the range.
THEOREM AssignPortIsLowest ==
  ASSUME NEW occ, HasRoom(occ)
  PROVE  /\ AssignPort(occ) \in HttpPorts
         /\ Pair(AssignPort(occ)) \subseteq Low .. High
         /\ PairFree(AssignPort(occ), occ)
         /\ \A m \in HttpPorts : PairFree(m, occ) => AssignPort(occ) <= m
<1> DEFINE Free == {n \in HttpPorts : PairFree(n, occ)}
<1>1. Free \in SUBSET (0 .. High) /\ Free # {}
  BY DEF HasRoom, HttpPorts
<1>2. PICK n \in Free : \A m \in Free : n <= m
  <2> HIDE DEF Free
  <2>1. QED
    BY <1>1, LeastMember
<1>3. n \in HttpPorts /\ PairFree(n, occ)
  OBVIOUS
<1>4. \A m \in HttpPorts : m < n => ~PairFree(m, occ)
  BY <1>2 DEF HttpPorts
<1> DEFINE a == AssignPort(occ)
<1>5. /\ a \in HttpPorts /\ PairFree(a, occ)
      /\ \A m \in HttpPorts : m < a => ~PairFree(m, occ)
  BY <1>3, <1>4, Zenon DEF AssignPort
<1>6. Pair(a) \subseteq Low .. High
  BY <1>5 DEF Pair, HttpPorts
<1> HIDE DEF a
<1>7. \A m \in HttpPorts : PairFree(m, occ) => a <= m
  BY <1>5 DEF HttpPorts
<1>8. QED
  BY <1>5, <1>6, <1>7 DEF a

-----------------------------------------------------------------------------
(* The scan of _greedy_pair_count.                                         *)

ScanPorts == Low .. (High + 1)

\* One step of the scan, from what it counts further up.
Scan(occ, c, n) ==
  IF n >= High THEN 0
  ELSE IF PairFree(n, occ) THEN 1 + c[n + 2]
  ELSE c[n + 1]

\* What GreedyPairCount is taken from.
Counts(occ) == CHOOSE c : c = [n \in ScanPorts |-> Scan(occ, c, n)]

\* A set that has a port of the scan whenever it has those above it has all
\* of them: of the ones it lacks, the highest would be the first mistake.
LEMMA DownwardInduction ==
  ASSUME NEW S, \A n \in ScanPorts : (\A m \in ScanPorts : m > n => m \in S) => n \in S
  PROVE  ScanPorts \subseteq S
<1> SUFFICES ASSUME NEW b \in ScanPorts, b \notin S PROVE FALSE
  OBVIOUS
<1> DEFINE Gaps == {k \in 0 .. (High + 1 - Low) : High + 1 - k \notin S}
<1>1. Gaps \in SUBSET (0 .. (High + 1 - Low)) /\ Gaps # {}
  <2>1. High + 1 - b \in Gaps
    BY DEF ScanPorts
  <2>2. QED
    BY <2>1
<1>2. PICK k \in Gaps : \A l \in Gaps : k <= l
  <2>1. High + 1 - Low \in Nat
    OBVIOUS
  <2> HIDE DEF Gaps
  <2>2. QED
    BY <1>1, <2>1, LeastMember
<1>3. ASSUME NEW m \in ScanPorts, m > High + 1 - k, m \notin S PROVE FALSE
  <2>1. High + 1 - m \in Gaps /\ High + 1 - m < k
    BY <1>3 DEF ScanPorts
  <2>2. QED
    BY <1>2, <2>1
<1>4. QED
  BY <1>3 DEF ScanPorts

\* There is such a function: one that is right from a port on extends to the
\* port below.
LEMMA CountsExist ==
  ASSUME NEW occ
  PROVE  \E c : c = [n \in ScanPorts |-> Scan(occ, c, n)]
<1> DEFINE Right(g, m) == g = [n \in m .. (High + 1) |-> Scan(occ, g, n)]
           Reached == {m \in ScanPorts : \E g : Right(g, m)}
<1>1. ASSUME NEW m \in ScanPorts, \A l \in ScanPorts : l > m => l \in Reached
      PROVE  m \in Reached
  <2>1. CASE m = High + 1
    <3> DEFINE g == [n \in m .. (High + 1) |-> 0]
    <3>1. \A n \in m .. (High + 1) : Scan(occ, g, n) = 0
      BY <2>1 DEF Scan
    <3>2. Right(g, m)
      BY <3>1
    <3> QED
      BY <3>2
  <2>2. CASE m # High + 1
    <3>1. m + 1 \in Reached
      BY <1>1, <2>2 DEF ScanPorts
    <3>2. PICK g : Right(g, m + 1)
      BY <3>1
    <3> DEFINE h == [n \in m .. (High + 1) |-> IF n = m THEN Scan(occ, g, m) ELSE g[n]]
    <3>3. \A n \in (m + 1) .. (High + 1) : h[n] = g[n] /\ g[n] = Scan(occ, g, n)
      BY <3>2 DEF ScanPorts
    <3>4. \A n \in m .. (High + 1) : Scan(occ, h, n) = Scan(occ, g, n)
      <4> HIDE DEF h
      <4>1. QED
        BY <3>3, <2>2 DEF Scan, ScanPorts
    <3>5. \A n \in m .. (High + 1) : h[n] = Scan(occ, g, n)
      <4>1. \A n \in m .. (High + 1) : n = m \/ n \in (m + 1) .. (High + 1)
        BY DEF ScanPorts
      <4>2. m \in m .. (High + 1)
        BY DEF ScanPorts
      <4>3. h[m] = Scan(occ, g, m)
        BY <4>2
      <4> HIDE DEF h
      <4>4. QED
        BY <3>3, <4>1, <4>3
    <3>6. Right(h, m)
      BY <3>4, <3>5
    <3> QED
      BY <3>6
  <2>3. QED
    BY <2>1, <2>2
<1>2. Low \in Reached
  <2>1. Low \in ScanPorts
    BY DEF ScanPorts
  <2> HIDE DEF Reached
  <2>2. QED
    BY <1>1, <2>1, DownwardInduction
<1>3. QED
  BY <1>2 DEF ScanPorts

\* The scan, port by port.
LEMMA CountsStep ==
  ASSUME NEW occ
  PROVE  /\ GreedyPairCount(occ) = Counts(occ)[Low]
         /\ \A n \in ScanPorts : Counts(occ)[n] = Scan(occ, Counts(occ), n)
         /\ \A n \in ScanPorts : Counts(occ)[n] \in Nat
<1> DEFINE c == Counts(occ)
<1>1. c = [n \in ScanPorts |-> Scan(occ, c, n)]
  BY CountsExist, Zenon DEF Counts
<1>2. GreedyPairCount(occ) = c[Low]
  BY Zenon DEF GreedyPairCount, Counts, Scan, ScanPorts
<1> HIDE DEF c
<1>3. \A n \in ScanPorts : c[n] = Scan(occ, c, n)
  BY <1>1
<1>4. \A n \in ScanPorts : c[n] \in Nat
  <2> DEFINE Natural == {n \in ScanPorts : c[n] \in Nat}
  <2>1. ASSUME NEW n \in ScanPorts, \A m \in ScanPorts : m > n => m \in Natural
        PROVE  n \in Natural
    <3>1. n < High => n + 1 \in Natural /\ n + 2 \in Natural
      BY <2>1 DEF ScanPorts
    <3>2. QED
      BY <1>3, <3>1 DEF Scan, ScanPorts
  <2>2. ScanPorts \subseteq Natural
    <3> HIDE DEF Natural
    <3>1. QED
      BY <2>1, DownwardInduction
  <2>3. QED
    BY <2>2
<1>5. QED
  BY <1>2, <1>3, <1>4 DEF c

\* Where no pair is free the scan goes on without counting.
LEMMA NothingCounted ==
  ASSUME NEW occ, NEW b \in ScanPorts, \A n \in HttpPorts : n < b => ~PairFree(n, occ)
  PROVE  GreedyPairCount(occ) = Counts(occ)[b]
<1> DEFINE c == Counts(occ)
           Same == {n \in ScanPorts : n <= b => c[n] = c[b]}
<1>1. \A n \in ScanPorts : c[n] = Scan(occ, c, n)
  BY CountsStep
<1> HIDE DEF c
<1>2. ASSUME NEW n \in ScanPorts, \A m \in ScanPorts : m > n => m \in Same
      PROVE  n \in Same
  <2>1. CASE n < b /\ n < High
    <3>1. n + 1 \in Same /\ ~PairFree(n, occ)
      BY <1>2, <2>1 DEF ScanPorts, HttpPorts
    <3>2. QED
      BY <1>1, <2>1, <3>1 DEF Scan, ScanPorts
  <2>2. CASE n < b /\ n >= High
    BY <1>1, <2>2 DEF Scan, ScanPorts
  <2>3. CASE n >= b
    BY <2>3 DEF ScanPorts
  <2>4. QED
    BY <2>1, <2>2, <2>3 DEF ScanPorts
<1>3. ScanPorts \subseteq Same
  <2> HIDE DEF Same
  <2>1. QED
    BY <1>2, DownwardInduction
<1>4. Low \in ScanPorts /\ Low <= b
  BY DEF ScanPorts
<1>5. QED
  BY <1>3, <1>4, CountsStep DEF c

\* The pair assign_port takes is one of those that were counted, and the
\* others still fit.
THEOREM AssignUsesOnePair ==
  ASSUME NEW occ, HasRoom(occ)
  PROVE  GreedyPairCount(occ) = 1 + GreedyPairCount(occ \cup Pair(AssignPort(occ)))
<1> DEFINE a == AssignPort(occ)
           taken == occ \cup Pair(a)
           c == Counts(occ)
           d == Counts(taken)
           Same == {n \in ScanPorts : n >= a + 2 => c[n] = d[n]}
<1>1. /\ a \in HttpPorts /\ PairFree(a, occ)
      /\ \A m \in HttpPorts : PairFree(m, occ) => a <= m
  BY AssignPortIsLowest
<1>2. /\ \A n \in ScanPorts : c[n] = Scan(occ, c, n) /\ d[n] = Scan(taken, d, n)
      /\ \A n \in ScanPorts : c[n] \in Nat /\ d[n] \in Nat
  BY CountsStep
<1> HIDE DEF a, c, d
<1>3. /\ a \in ScanPorts /\ a + 2 \in ScanPorts /\ a > 0 /\ Pair(a) = {a, a + 1}
      /\ a < High
  BY <1>1 DEF HttpPorts, ScanPorts, Pair, NoPort
<1>4. GreedyPairCount(occ) = c[a]
  <2>1. \A n \in HttpPorts : n < a => ~PairFree(n, occ)
    BY <1>1 DEF HttpPorts
  <2>2. QED
    BY <1>3, <2>1, NothingCounted DEF c
<1>5. GreedyPairCount(taken) = d[a + 2]
  <2>1. \A n \in HttpPorts : n < a + 2 => ~PairFree(n, taken)
    BY <1>1, <1>3 DEF HttpPorts, PairFree
  <2> HIDE DEF taken
  <2>2. QED
    BY <1>3, <2>1, NothingCounted DEF d
<1>6. ASSUME NEW n \in ScanPorts, \A m \in ScanPorts : m > n => m \in Same
      PROVE  n \in Same
  <2>1. CASE n >= a + 2 /\ n < High
    <3>1. n + 1 \in Same /\ n + 2 \in Same
      BY <1>6, <2>1 DEF ScanPorts
    <3>2. PairFree(n, occ) <=> PairFree(n, taken)
      BY <1>1, <1>3, <2>1 DEF PairFree, HttpPorts, ScanPorts
    <3> HIDE DEF taken
    <3>3. QED
      BY <1>1, <1>2, <2>1, <3>1, <3>2 DEF Scan, ScanPorts, HttpPorts
  <2>2. CASE n >= High
    BY <1>2, <2>2 DEF Scan
  <2>3. QED
    BY <1>3, <2>1, <2>2 DEF ScanPorts
<1>7. ScanPorts \subseteq Same
  <2> HIDE DEF Same
  <2>1. QED
    BY <1>6, DownwardInduction
<1>8. c[a + 2] = d[a + 2]
  BY <1>1, <1>3, <1>7 DEF HttpPorts
<1>9. c[a] = 1 + c[a + 2]
  BY <1>1, <1>2, <1>3 DEF Scan, ScanPorts
<1>10. QED
  BY <1>4, <1>5, <1>8, <1>9 DEF a

\* A range without room is one in which the scan counts nothing.
LEMMA NoRoomCountsNothing ==
  ASSUME NEW occ, ~HasRoom(occ)
  PROVE  GreedyPairCount(occ) = 0
<1>1. High \in ScanPorts /\ \A n \in HttpPorts : n < High => ~PairFree(n, occ)
  BY DEF ScanPorts, HasRoom
<1>2. GreedyPairCount(occ) = Counts(occ)[High]
  BY <1>1, NothingCounted
<1>3. QED
  BY <1>1, <1>2, CountsStep DEF Scan

\* No choice of free pairs that do not overlap has more of them than the
\* scan counts: at each port, it counts as many as any choice has from there.
THEOREM GreedyIsOptimal ==
  ASSUME NEW occ, NEW S \in Packings(occ)
  PROVE  IsFiniteSet(S) /\ Cardinality(S) <= GreedyPairCount(occ)
<1> DEFINE c == Counts(occ)
           From(n) == {s \in S : s >= n}
           Enough == {n \in ScanPorts : /\ IsFiniteSet(From(n))
                                        /\ Cardinality(From(n)) <= c[n]}
<1>1. /\ S \subseteq HttpPorts
      /\ \A s \in S : /\ PairFree(s, occ) /\ s + 1 \notin S
                       /\ s \in Nat /\ Low <= s /\ s < High
  BY DEF Packings, HttpPorts
<1>2. /\ \A n \in ScanPorts : c[n] = Scan(occ, c, n) /\ c[n] \in Nat
      /\ GreedyPairCount(occ) = c[Low]
  BY CountsStep
<1> HIDE DEF c
<1>3. \A T : IsFiniteSet(T) => Cardinality(T) \in Nat
  BY FS_CardinalityType
<1>4. ASSUME NEW n \in ScanPorts, \A m \in ScanPorts : m > n => m \in Enough
      PROVE  n \in Enough
  <2>1. CASE n >= High
    <3>1. From(n) = {}
      <4>1. \A s \in S : ~(s >= n)
        BY <1>1, <2>1 DEF ScanPorts
      <4>2. QED
        BY <4>1, Zenon
    <3>2. QED
      BY <1>2, <2>1, <3>1, FS_EmptySet DEF Scan
  <2>2. CASE n < High /\ ~PairFree(n, occ)
    <3>1. From(n) = From(n + 1)
      <4>1. \A s \in S : s >= n <=> s >= n + 1
        BY <1>1, <2>2 DEF ScanPorts
      <4>2. QED
        BY <4>1, Zenon
    <3>2. n + 1 \in Enough /\ c[n] = c[n + 1]
      BY <1>2, <1>4, <2>2 DEF Scan, ScanPorts
    <3>3. QED
      BY <3>1, <3>2
  <2>3. CASE n < High /\ PairFree(n, occ)
    <3>1. n + 2 \in Enough /\ c[n] = 1 + c[n + 2]
      BY <1>2, <1>4, <2>3 DEF Scan, ScanPorts
    <3>2. PICK x : From(n) \subseteq From(n + 2) \cup {x}
      <4>1. n \in S => n + 1 \notin S
        BY <1>1
      <4>2. \A s \in From(n) : s \in From(n + 2) \/ s = n \/ s = n + 1
        BY <1>1 DEF HttpPorts, ScanPorts
      <4>3. From(n) \subseteq From(n + 2) \cup {IF n \in S THEN n ELSE n + 1}
        BY <4>1, <4>2
      <4> HIDE DEF From
      <4>4. QED
        BY <4>3
    <3> DEFINE Top == From(n + 2) \cup {x}
    <3>3. IsFiniteSet(Top) /\ Cardinality(Top) <= 1 + Cardinality(From(n + 2))
      <4>1. IsFiniteSet(From(n + 2))
        BY <3>1
      <4> HIDE DEF From
      <4>2. IsFiniteSet(Top) /\ (\/ Cardinality(Top) = Cardinality(From(n + 2))
                                \/ Cardinality(Top) = Cardinality(From(n + 2)) + 1)
        BY <4>1, FS_AddElement
      <4> HIDE DEF Top
      <4>3. QED
        BY <1>3, <4>1, <4>2
    <3>4. IsFiniteSet(From(n)) /\ Cardinality(From(n)) <= Cardinality(Top)
      <4> HIDE DEF From, Top
      <4>1. QED
        BY <3>2, <3>3, FS_Subset DEF Top
    <3>5. QED
      <4>1. IsFiniteSet(From(n + 2)) /\ Cardinality(From(n + 2)) <= c[n + 2]
        BY <3>1
      <4>2. c[n + 2] \in Nat
        BY <1>2, <3>1
      <4> HIDE DEF From, Top
      <4>3. Cardinality(From(n)) <= c[n]
        BY <1>3, <3>1, <3>3, <3>4, <4>1, <4>2
      <4>4. QED
        BY <3>4, <4>3
  <2>4. QED
    BY <2>1, <2>2, <2>3 DEF ScanPorts
<1>5. ScanPorts \subseteq Enough
  <2> HIDE DEF Enough
  <2>1. QED
    BY <1>4, DownwardInduction
<1>6. Low \in Enough /\ From(Low) = S
  <2>1. Low \in Enough
    BY <1>5 DEF ScanPorts
  <2>2. \A s \in S : s >= Low
    BY <1>1
  <2>3. From(Low) = S
    BY <2>2, Zenon
  <2>4. QED
    BY <2>1, <2>3, Zenon
<1>7. QED
  BY <1>2, <1>6

-----------------------------------------------------------------------------
(* plan_ports.                                                             *)

USE ClaimsAssumption, CountAssumption

LEMMA PlanInitType == PlanInit => PlanTypeOK
<1> SUFFICES ASSUME PlanInit PROVE PlanTypeOK
  OBVIOUS
<1>1. occupied \in SUBSET Nat /\ work \in SUBSET Nat
  BY Zenon DEF PlanInit, ClaimsAssumption
<1>2. count \in Nat
  BY DEF PlanInit
<1>3. candidates \in Seq(HttpPorts) /\ exhausted \in BOOLEAN
  <2>1. <<>> \in Seq(HttpPorts)
    OBVIOUS
  <2>2. QED
    BY <2>1, Zenon DEF PlanInit
<1>4. QED
  BY <1>1, <1>2, <1>3 DEF PlanTypeOK

\* A draw keeps the types: what assign_port returns is a port of the range.
LEMMA DrawType == PlanTypeOK /\ Draw => PlanTypeOK'
<1> SUFFICES ASSUME PlanTypeOK, Draw PROVE PlanTypeOK'
  OBVIOUS
<1> DEFINE n == AssignPort(work)
<1>1. n \in HttpPorts
  BY AssignPortIsLowest DEF Draw
<1>2. /\ candidates' = Append(candidates, n) /\ work' = work \cup Pair(n)
      /\ UNCHANGED <<occupied, count, exhausted>>
  BY DEF Draw
<1> HIDE DEF n
<1>3. Pair(n) \subseteq Nat
  BY <1>1 DEF Pair, HttpPorts, NoPort
<1>4. candidates' \in Seq(HttpPorts)
  BY <1>1, <1>2 DEF PlanTypeOK
<1>5. work' \in SUBSET Nat
  BY <1>2, <1>3 DEF PlanTypeOK
<1>6. QED
  BY <1>2, <1>4, <1>5 DEF PlanTypeOK

\* The loop's types.
THEOREM PlanTypeCorrect == PlanSpec => []PlanTypeOK
<1>1. PlanInit => PlanTypeOK
  BY PlanInitType
<1>2. PlanTypeOK /\ [PlanNext]_planVars => PlanTypeOK'
  <2> SUFFICES ASSUME PlanTypeOK, [PlanNext]_planVars PROVE PlanTypeOK'
    OBVIOUS
  <2>1. CASE Draw
    BY <2>1, DrawType
  <2>2. CASE GiveUp
    BY <2>2 DEF GiveUp, PlanTypeOK
  <2>3. CASE UNCHANGED planVars
    BY <2>3 DEF planVars, PlanTypeOK
  <2>4. QED
    BY <2>1, <2>2, <2>3 DEF PlanNext
<1>3. QED
  BY <1>1, <1>2, PTL DEF PlanSpec

\* The work set holds the claims and the candidates' pairs, and what is
\* still free in it lies above every candidate.
PlanInv ==
  /\ PlanTypeOK
  /\ occupied \subseteq work
  /\ \A i \in Found : Pair(candidates[i]) \subseteq work
  /\ \A i \in Found, n \in HttpPorts : PairFree(n, work) => candidates[i] < n
  /\ CandidatesFit
  /\ CandidatesAscend

\* The candidates' pairs are free, disjoint and in ascending order.
THEOREM CandidatesCorrect == PlanSpec => [](CandidatesFit /\ CandidatesAscend)
<1>1. PlanInit => PlanInv
  <2> SUFFICES ASSUME PlanInit PROVE PlanInv
    OBVIOUS
  <2>1. PlanTypeOK /\ occupied \subseteq work /\ Found = {}
    BY PlanInitType DEF PlanInit, Found
  <2>2. QED
    BY <2>1 DEF PlanInv, CandidatesFit, CandidatesAscend
<1>2. PlanInv /\ [PlanNext]_planVars => PlanInv'
  <2> SUFFICES ASSUME PlanInv, [PlanNext]_planVars PROVE PlanInv'
    OBVIOUS
  <2>1. CASE Draw
    <3> DEFINE n == AssignPort(work)
               last == Len(candidates) + 1
    <3>1. /\ n \in HttpPorts /\ PairFree(n, work)
          /\ \A m \in HttpPorts : PairFree(m, work) => n <= m
      BY <2>1, AssignPortIsLowest DEF Draw
    <3>2. /\ candidates' = Append(candidates, n) /\ work' = work \cup Pair(n)
          /\ occupied' = occupied
      BY <2>1 DEF Draw
    <3>3. n \in Nat /\ n > 0 /\ Pair(n) = {n, n + 1}
      BY <3>1 DEF HttpPorts, Pair, NoPort
    <3> HIDE DEF n
    <3>4. PlanTypeOK'
      BY <2>1, DrawType DEF PlanInv
    <3>5. /\ Found' = Found \cup {last} /\ candidates'[last] = n
          /\ \A i \in Found : candidates'[i] = candidates[i] /\ candidates[i] \in HttpPorts
          /\ \A i \in Found : i \in Nat /\ i < last
      BY <3>1, <3>2 DEF PlanInv, PlanTypeOK, Found
    <3> HIDE DEF last
    <3>6. \A i \in Found : candidates[i] < n
      BY <3>1 DEF PlanInv
    <3>7. \A i \in Found' : Pair(candidates'[i]) \subseteq work'
      BY <3>2, <3>5 DEF PlanInv
    <3>8. \A m \in HttpPorts : PairFree(m, work') => n < m
      BY <3>1, <3>2, <3>3 DEF PairFree, HttpPorts
    <3>9. \A i \in Found', m \in HttpPorts : PairFree(m, work') => candidates'[i] < m
      BY <3>3, <3>5, <3>6, <3>8 DEF HttpPorts
    <3>10. Pair(n) \cap work = {}
      BY <3>1, <3>3 DEF PairFree
    <3>11. CandidatesFit'
      <4>1. \A i \in Found' : Pair(candidates'[i]) \cap occupied' = {}
        BY <3>2, <3>5, <3>10 DEF PlanInv, CandidatesFit
      <4>2. \A i \in Found : Pair(candidates'[i]) \cap Pair(candidates'[last]) = {}
        BY <3>5, <3>10 DEF PlanInv
      <4>3. \A i, j \in Found : i < j => Pair(candidates'[i]) \cap Pair(candidates'[j]) = {}
        BY <3>5 DEF PlanInv, CandidatesFit
      <4>4. \A i, j \in Found' : i < j =>
              Pair(candidates'[i]) \cap Pair(candidates'[j]) = {}
        <5> SUFFICES ASSUME NEW i \in Found', NEW j \in Found', i < j
                     PROVE  Pair(candidates'[i]) \cap Pair(candidates'[j]) = {}
          OBVIOUS
        <5>1. i \in Found
          BY <3>5 DEF last
        <5>2. CASE j = last
          BY <4>2, <5>1, <5>2
        <5>3. CASE j \in Found
          BY <4>3, <5>1, <5>3
        <5>4. QED
          BY <3>5, <5>2, <5>3
      <4>5. QED
        BY <4>1, <4>4 DEF CandidatesFit
    <3>12. CandidatesAscend'
      BY <3>5, <3>6 DEF PlanInv, CandidatesAscend, last
    <3>13. QED
      BY <3>2, <3>4, <3>7, <3>9, <3>11, <3>12 DEF PlanInv
  <2>2. CASE GiveUp
    BY <2>2 DEF GiveUp, PlanInv, PlanTypeOK, Found, CandidatesFit, CandidatesAscend
  <2>3. CASE UNCHANGED planVars
    BY <2>3 DEF planVars, PlanInv, PlanTypeOK, Found, CandidatesFit, CandidatesAscend
  <2>4. QED
    BY <2>1, <2>2, <2>3 DEF PlanNext
<1>3. PlanInv => CandidatesFit /\ CandidatesAscend
  BY DEF PlanInv
<1>4. QED
  BY <1>1, <1>2, <1>3, PTL DEF PlanSpec

\* The plan's count of the room left: what free_pairs says of the claims is
\* what has been announced and what can be, at every turn.
THEOREM FreePairsCorrect == PlanSpec => []FreePairsCountsDown
<1> DEFINE CountInv == PlanTypeOK /\ FreePairsCountsDown
<1>1. PlanInit => CountInv
  <2>1. \A occ : GreedyPairCount(occ) \in Nat
    BY CountsStep DEF ScanPorts
  <2>2. QED
    BY <2>1, PlanInitType DEF PlanInit, FreePairsCountsDown
<1>2. CountInv /\ [PlanNext]_planVars => CountInv'
  <2> SUFFICES ASSUME CountInv, [PlanNext]_planVars PROVE CountInv'
    OBVIOUS
  <2>1. CASE Draw
    <3>1. PlanTypeOK'
      BY <2>1, DrawType
    <3>2. /\ candidates' = Append(candidates, AssignPort(work))
          /\ work' = work \cup Pair(AssignPort(work))
          /\ HasRoom(work) /\ ~exhausted
          /\ UNCHANGED <<occupied, exhausted>>
      BY <2>1 DEF Draw, Looping
    <3>3. GreedyPairCount(work) = 1 + GreedyPairCount(work')
      BY <3>2, AssignUsesOnePair
    <3>4. Len(candidates') = Len(candidates) + 1 /\ Len(candidates) \in Nat
      BY <3>1, <3>2 DEF PlanTypeOK
    <3>5. GreedyPairCount(work') \in Nat
      BY CountsStep DEF ScanPorts
    <3>6. GreedyPairCount(occupied') = Len(candidates') + GreedyPairCount(work')
      BY <3>2, <3>3, <3>4, <3>5 DEF FreePairsCountsDown
    <3>7. QED
      BY <3>1, <3>2, <3>6 DEF FreePairsCountsDown
  <2>2. CASE GiveUp
    BY <2>2, NoRoomCountsNothing DEF GiveUp, FreePairsCountsDown, PlanTypeOK
  <2>3. CASE UNCHANGED planVars
    BY <2>3 DEF planVars, FreePairsCountsDown, PlanTypeOK
  <2>4. QED
    BY <2>1, <2>2, <2>3 DEF PlanNext
<1>3. CountInv => FreePairsCountsDown
  OBVIOUS
<1>4. QED
  BY <1>1, <1>2, <1>3, PTL DEF PlanSpec

\* The greedy scan is optimal, for every range and every set of claims.
THEOREM GreedyCorrect == PlanSpec => []GreedyIsMaximal
<1>1. GreedyIsMaximal
  BY GreedyIsOptimal DEF GreedyIsMaximal
<1>2. QED
  BY <1>1, PTL

=============================================================================
