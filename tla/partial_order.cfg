CONSTANTS
  Names = {1, 2, 3, 4}
  MaxNames = 2
  Headers <- MCPlainHeaders
  FaninLists <- MCThirdFanins
  Tables <- MCNoTables
SPECIFICATION TopoSpec
INVARIANTS
  Complete
