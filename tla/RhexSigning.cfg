SPECIFICATION Spec
CONSTANTS
  usher = usher
  member = member
  draft = draft
  slot = slot
  p1 = p1
  p2 = p2
  n1 = n1
  n2 = n2
  NoHash = NoHash
  NoFile = NoFile
  Torn = Torn
  Nonces = {n1, n2}
  Intents <- MCIntents
  Keys = {usher}
  Paths <- MCPaths
  Daemons = {usher}
  Tools = {p1, p2}
  Rule <- OneOfOne
  Auths <- MCAuths
  TTL = 1
  StartTime = 3
  MaxTime = 5
  Skew = 1
  Word = 100
  MaxRuns = 6
SYMMETRY Alike
INVARIANTS
  TypeOK
  SignaturesVerify
  AppendedIsWhole
  AppendedInTime
CHECK_DEADLOCK FALSE
