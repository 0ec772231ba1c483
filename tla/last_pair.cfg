CONSTANTS
  Names = {1, 2, 3, 4}
  MaxNames = 1
  Headers <- MCPlainHeaders
  FaninLists <- MCGateFanins
  Tables <- MCGates
  Stimuli <- MCStimuli
  Junk = {0, 2}
SPECIFICATION Spec
INVARIANTS
  HeedsInputs
