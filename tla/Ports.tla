-------------------------------- MODULE Ports --------------------------------
(***************************************************************************)
(* The port arithmetic of src/owm/ports.py: an instance takes a pair       *)
(* (n, n+1), http and gevent, out of the workspace's http_port_range.      *)
(***************************************************************************)
EXTENDS Integers

CONSTANTS Low, High   \* http_port_range of workspace.toml

ASSUME RangeAssumption == Low \in Nat /\ High \in Nat /\ 0 < Low /\ Low < High

NoPort == 0   \* http_port absent from a toml, or 0

\* The ports an instance with this http_port lays claim to (ServerSection:
\* the gevent port is derived).
Pair(http) == IF http = NoPort THEN {NoPort} ELSE {http, http + 1}

\* The http ports of the range; the last one's gevent port is High itself.
HttpPorts == Low .. (High - 1)

PairFree(n, occupied) == n \notin occupied /\ n + 1 \notin occupied

\* Mutant of HasRoom: the last pair of the range is never tried.
HasRoomShort(occupied) == \E n \in Low .. (High - 2) : PairFree(n, occupied)

HasRoom(occupied) == \E n \in HttpPorts : PairFree(n, occupied)

\* Mutant of AssignPort: the highest free pair is taken, the scan going on to
\* the end of the range.
AssignPortInclusive(occupied) ==
  CHOOSE n \in Low .. High :
    PairFree(n, occupied) /\ \A m \in Low .. High : PairFree(m, occupied) => m <= n

\* assign_port: a stride-1 scan of the range for the lowest free pair.
AssignPort(occupied) ==
  CHOOSE n \in HttpPorts :
    PairFree(n, occupied) /\ \A m \in HttpPorts : m < n => ~PairFree(m, occupied)

\* Mutant of GreedyPairCount: only the even lattice is scanned.
GreedyEvenOnly(occupied) ==
  LET count[n \in Low .. (High + 1)] ==
        IF n >= High THEN 0
        ELSE IF PairFree(n, occupied) THEN 1 + count[n + 2]
        ELSE count[n + 2]
  IN count[Low]

\* _greedy_pair_count: how many more pairs fit.
GreedyPairCount(occupied) ==
  LET count[n \in Low .. (High + 1)] ==
        IF n >= High THEN 0
        ELSE IF PairFree(n, occupied) THEN 1 + count[n + 2]
        ELSE count[n + 1]
  IN count[Low]

=============================================================================
