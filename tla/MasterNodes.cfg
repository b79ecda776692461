\* Two processes of one node, and a node whose name is counted, connect while a session is cleared and a client sent.
SPECIFICATION FairSpec
CONSTANTS
  s1 = s1  s10 = s10  sn = sn  no = no  m = m  n = n  p1 = p1  p2 = p2  p3 = p3  k1 = k1  l1 = l1
  other = other  both = both
  Session = {s1, s10, sn, no}
  Node = {m, n}
  Of <- MCOf
  NamedFrom <- MCNamedFrom
  Key = {other, both}
  KeysOf <- MCKeysOf
  Sweeping = {no}
  Process = {p1, p2, p3}
  NodeOf <- MCNodeOf
  Unready = {p2}
  Clearing = {k1}
  Link = {l1}
  None = None
  MaxAttempts = 2
  MaxProcesses = 2
  MaxRequests = 1
INVARIANTS NodesInv RefusalsExplained
PROPERTIES AllAnswered
CHECK_DEADLOCK FALSE
