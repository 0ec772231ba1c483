CONSTANTS
  StringChars = {"a", "p", "0", "1"}
  Keys = {"v", "n", "a", "p", "b", "s", "q", "x"}
  Words = {"and", "or", "xor", "nand"}
  Lines <- MCLines
  MoreLines <- MCMoreLines
SPECIFICATION FairSpec
INVARIANTS
  ExpressionsFromLineStart
  CommandsFromOwnLine
  TreeDerived
  FaultReported
PROPERTIES
  EndNoticed
