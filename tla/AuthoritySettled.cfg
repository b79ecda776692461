\* Transfers one after the other and a deletion, nothing lost, and inputs of the client.
SPECIFICATION InputsSpec
CONSTANTS
  s1 = s1  s2 = s2  s3 = s3  cl = cl  ca = ca  cb = cb  cc = cc
  i1 = i1  i2 = i2  Input = {i1, i2}  NoStream = NoStream
  Playing = {cl}  MaxCrossed = 1
  NoEntity = NoEntity  NoOrder = NoOrder  NoContainer = NoContainer
  Unborn = Unborn  Nobody = Nobody  Disputed = Disputed
  OwnerOf <- MCOwnerOf
  Peer = {s1, s2, s3, cl}
  Server = {s1, s2, s3}
  Container = {ca, cb, cc}
  Subscribed <- Uneven
  Lossy = FALSE
  Overlapping = FALSE
  OwnersDelete = TRUE
  MaxTransfers = 3
  MaxChanges = 0
  MaxDeletes = 1
  MaxActs = 4
  DeleteRepeat = 1
INVARIANTS SettledAgreement DeletionReachesAll InputsInv
SYMMETRY InputSymmetry
