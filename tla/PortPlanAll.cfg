SPECIFICATION PlanSpec
CONSTANTS
  Low = 2
  High = 9
  Claims <- AllClaims
  MaxCount = 5
CHECK_DEADLOCK FALSE
INVARIANTS
  CandidatesFit
  FreePairsCountsDown
  GreedyIsMaximal
