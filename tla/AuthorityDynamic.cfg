\* Two servers whose transfers overlap while they join and leave containers and the entity is deleted.
SPECIFICATION FairSpec
CONSTANTS
  s1 = s1  s2 = s2  s3 = s3  cl = cl  ca = ca  cb = cb  cc = cc
  NoEntity = NoEntity  NoOrder = NoOrder  NoContainer = NoContainer
  Unborn = Unborn  Nobody = Nobody  Disputed = Disputed
  OwnerOf <- MCOwnerOf
  Peer = {s1, s2}
  Server = {s1, s2}
  Container = {ca, cb}
  Subscribed <- Neighbours
  Lossy = FALSE
  Overlapping = TRUE
  OwnersDelete = TRUE
  MaxTransfers = 3
  MaxChanges = 2
  MaxDeletes = 1
  MaxActs = 3
  DeleteRepeat = 2
INVARIANTS TypeOK SingleAuthority OneClaim
PROPERTIES AuthorityKept QuarantineEnds
