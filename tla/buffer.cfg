CONSTANTS
  Names = {1, 2, 3, 4}
  MaxNames = 1
  Headers <- MCPlainHeaders
  FaninLists <- MCGateFanins
  Tables <- MCBuffer
  Stimuli <- MCStimuli
  Junk = {0, 2}
SPECIFICATION Spec
INVARIANTS
  SimulatesTable
