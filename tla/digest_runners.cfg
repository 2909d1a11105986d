SPECIFICATION Spec
CONSTANTS
  r1 = r1
  r2 = r2
  w1 = w1
  empty = empty
  one = one
  other = other
  two = two
  Runners = {r1, r2}
  Items = {w1}
  Manifests = {empty, other}
  NoManifest = NoManifest
  Size <- MCSize
  Includes <- MCIncludes
  MaxVersion = 2
  MaxSlot = 2
  MaxGen = 1
  Tokens = {1, 2, 3, 4}
  NoToken = NoToken
  MaxAttempts = 2
  MaxParts = 1
  SlotLen = 1
  MaxTime = 1
  MaxFaults = 2
INVARIANTS TypeOK NewestDigestShown OneAttemptOnePost CountedOncePublished
PROPERTIES EvidenceIsFinal
SYMMETRY Sym
