SPECIFICATION Spec
CONSTANTS
  r1 = r1
  r2 = r2
  w1 = w1
  empty = empty
  one = one
  other = other
  two = two
  Runners = {r1}
  Items = {w1}
  Manifests = {empty, one, two}
  NoManifest = NoManifest
  Size <- MCSize
  Includes <- MCIncludes
  MaxVersion = 1
  MaxSlot = 2
  MaxGen = 2
  Tokens = {1, 2, 3}
  NoToken = NoToken
  MaxAttempts = 2
  MaxParts = 2
  SlotLen = 1
  MaxTime = 1
  MaxFaults = 1
PROPERTIES PredecessorCleaned LastDigestDelivered BoardKept
INVARIANTS OneOpenGeneration CleanedIsGone ReplacedIsGone
