\* Two calls that cross and one that is not awaited; one caller waits long enough. Requests, answers and methods fail; sets of two ids forget.
SPECIFICATION FairSpec
CONSTANTS
  p1 = p1  p2 = p2  w = w  x = x  y = y  z = z
  CallerOf <- MCCallerOf
  Targets <- MCTargets
  Peer = {p1, p2}
  Call = {w, x, z}
  Awaited = {x, z}
  Started = {p1}
  Retries = 1
  Capacity = 2
  Patient = {z}
  MaxLost = 2
  MaxFaults = 1
  MaxChanges = 2
INVARIANTS TypeOK WaitsOnPromise RetriesCoverLostRequests
PROPERTIES RepeatsOnlyForgotten IsRemoteCall CallEnds
