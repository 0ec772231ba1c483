CONSTANTS
  Names = {1, 2, 3, 4}
  MaxNames = 2
  Headers <- MCHeaders
  FaninLists <- MCGateFanins
  Tables <- MCAnyGates
  Stimuli <- MCStimuli
  Junk = {0, 2}
SPECIFICATION Spec
INVARIANTS
  TopoTypeOK
  AfterFanins
  OnceOnly
  OrderBounded
  Maximal
  SimulationRight
