SPECIFICATION Spec
CONSTANTS
  author = author
  other = other
  t1 = t1
  t2 = t2
  Zero = Zero
  NoHash = NoHash
  UsherKey = UsherKey
  Boot = Boot
  NoFile = NoFile
  Torn = Torn
  NoRow = NoRow
  NoMsg = NoMsg
  Tasks = {t1}
  Hashes <- MCHashes
  Keys <- MCKeys
  Types <- MCTypes
  Roles <- MCRoles
  Depth <- MCDepth
  Records <- RelaxRecords
  InitialDisk <- StrictDir
INVARIANT
  BootstrapShowsErrors
