CONSTANTS
  Vars = {1, 2, 3}
  FirstIds = 4
  Unit = 8
  OneVarBytes = {0}
  Budgets <- MCThreeVars
  MaxSecond = 2
  SweepRank <- MCSweepRank
SPECIFICATION Spec
INVARIANTS
  Ordered
  ProbabilityRight
  ConstantsAreTerminal
  LiteralInUnique
  RankingRight
PROPERTIES
  ReturnsMeaning
