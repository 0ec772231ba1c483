CONSTANTS
  Vars = {1, 2}
  FirstIds = 4
  Unit = 4
  OneVarBytes = {0, 1}
  Budgets <- MCTwoVars
  MaxSecond = 3
  SweepRank <- MCSweepRank
SPECIFICATION FairSpec
INVARIANTS
  TypeOK
  IdsPartition
  NoDangling
  UniqueKeyFaithful
  UnassignedUnreached
  Acyclic
  NoLeak
  CrashesByByteOnly
PROPERTIES
  NodesImmutable
  Answered
  ImplementsCalculator
