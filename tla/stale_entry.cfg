CONSTANTS
  Vars = {1, 2}
  FirstIds = 4
  Unit = 4
  OneVarBytes = {0}
  Budgets <- MCShort
  MaxSecond = 5
  SweepRank <- MCSweepRank
SPECIFICATION Spec
INVARIANTS
  ComputedIdentifies
