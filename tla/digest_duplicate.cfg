SPECIFICATION Spec
CONSTANTS
  r1 = r1
  r2 = r2
  w1 = w1
  empty = empty
  one = one
  other = other
  two = two
  Runners = {r1}
  Items = {w1}
  Manifests = {one}
  NoManifest = NoManifest
  Size <- MCSize
  Includes <- MCIncludes
  MaxVersion = 1
  MaxSlot = 1
  MaxGen = 1
  Tokens = {1, 2, 3}
  NoToken = NoToken
  MaxAttempts = 2
  MaxParts = 1
  SlotLen = 1
  MaxTime = 0
  MaxFaults = 2
INVARIANT NoDuplicatePost
