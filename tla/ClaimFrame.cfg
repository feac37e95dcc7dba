SPECIFICATION Spec
CONSTANTS
  tcp = tcp
  post = post
  NoHash = NoHash
  NoFile = NoFile
  Torn = Torn
  NoFrame = NoFrame
  Undecodable = Undecodable
  Records <- MCRecords
  Cbor <- MCCbor
  FrameSize = 2
  Intents = {"g", "a", "b", "q"}
  Hashes = {"g", "a", "b", "q"}
  Depth <- MCDepth
  Sent <- MCSent
  Conns = {tcp, post}
  Http = {post}
  Chain <- MCChain
  Capacity = 1
  MaxRecv = 2
INVARIANT
  FittingRecordArrives
