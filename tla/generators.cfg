SPECIFICATION Spec
CONSTANTS
  Options <- SmallOptions
  MaxOptions = 2
  InBits = 3
  UintMod = 1024
  Memory = 400
  Stimuli <- AllStimuli
INVARIANTS
  GenTypeOK
  RippleRight
  ModuleComputes
  FileDetermines
  Combinational
  OnlyWrapsFail
