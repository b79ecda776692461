\* Two nodes of one session, which is cleaned up twice while they are created, and the end of the master.
SPECIFICATION FairSpec
CONSTANTS
  s1 = s1  world = world  sn = sn  c1 = c1  c2 = c2  c3 = c3  d1 = d1  d2 = d2  o1 = o1  l1 = l1
  Session = {s1}
  Parent = {world, sn}
  Numbered = {sn}
  Creation = {c1, c2, c3}
  Opening = {o1}
  Cleanup = {d1, d2}
  Link = {l1}
  SessionOf <- MCSessionOf
  ParentOf <- MCParentOf
  Shutdown = Shutdown
  None = None
  MaxRequests = 3
  MaxCreations = 2
INVARIANTS SessionsInv CleanupsComplete
PROPERTIES RequestsEnd
CHECK_DEADLOCK FALSE
