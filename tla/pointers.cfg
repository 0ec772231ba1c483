CONSTANTS
  Objects = {o1, o2, o3}
  Slots = {s1, s2, s3}
  NumMembers = 2
  Null = Null
SPECIFICATION Spec
INVARIANTS
  PointerTypeOK
  CountsPointers
  NoneDangling
  CollectsExactly
  MisreadsOwnOnly
PROPERTIES
  ImplementsCollected
