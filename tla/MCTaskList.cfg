CONSTANTS
  a1 = a1
  Agents = {a1}
  NoOwner = NoOwner
  Keep = Keep
  Patches <- MCPatches
  MaxId = 3
  BatchSizes = {1, 2}
SPECIFICATION Spec
INVARIANTS
  TypeOK
  LinksMirrored
PROPERTIES
  IdsNeverReused
