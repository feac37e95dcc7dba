SPECIFICATION Spec
CONSTANTS
  author = author
  other = other
  t1 = t1
  t2 = t2
  Zero = Zero
  NoHash = NoHash
  UsherKey = UsherKey
  Boot = Boot
  NoFile = NoFile
  Torn = Torn
  NoRow = NoRow
  NoMsg = NoMsg
  Tasks = {t1, t2}
  Hashes <- MCHashes
  Keys <- MCKeys
  Types <- MCTypes
  Roles <- MCRoles
  Depth <- MCDepth
  Records <- CoreRecords
  InitialDisk <- GenesisOnly
INVARIANTS
  TypeOK
  SettledOnDisk
  HeadIsSettledTip
  DirectoryShape
  RepliesHoldSealed
  IInv
PROPERTIES
  RestartKeepsSealed
  ImplementsSlotLedger
  BootRebuildsCache
