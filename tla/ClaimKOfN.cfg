SPECIFICATION PersistentSpec
CONSTANTS
  usher = usher
  member = member
  draft = draft
  slot = slot
  p1 = p1
  p2 = p2
  n1 = n1
  n2 = n2
  NoHash = NoHash
  NoFile = NoFile
  Torn = Torn
  Nonces = {n1}
  Intents <- MCIntents
  Keys = {usher, member}
  Paths <- MCPaths
  Daemons = {usher}
  Tools = {p1}
  Rule <- TwoOfTwo
  Auths <- MCAuths
  TTL = 1
  StartTime = 2
  MaxTime = 2
  Skew = 0
  Word = 100
  MaxRuns = 0
PROPERTY
  QuorumGathers
CHECK_DEADLOCK FALSE
