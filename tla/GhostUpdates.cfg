\* Values are set while the entity moves there and back, or moves while a client joins a container; a packet or call may be lost.
SPECIFICATION FairSpec
CONSTANTS
  sa = sa  sb = sb  cl = cl  ca = ca  cb = cb
  OwnerOf <- MCOwnerOf
  Subscribed <- MCSubscribed
  Peer = {sa, sb, cl}
  Container = {ca, cb}
  Home = ca
  Key = {k1}
  Value = {v1, v2}
  NoValue = NoValue
  NoContainer = NoContainer
  Polling = {cl}
  MaxSets = 2
  MaxMoves = 2
  MaxJoins = 1
  MaxLost = 1
  MaxEvents = 2
INVARIANTS TypeOK PollMissesNothing LatestArrives
PROPERTIES Converges
