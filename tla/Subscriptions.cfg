\* A client and a remote grape, subscribed and unsubscribed twice each, while a node joins and calls fail.
SPECIFICATION FairSpec
CONSTANTS
  cl = cl  g = g  k1 = k1
  Client = {cl}
  Leaving = {cl}
  Grape = {g}
  Container = {k1}
  Call <- MCCall
  To <- MCTo
  Of <- MCOf
  On <- MCOn
INVARIANTS SubscriptionsInv
PROPERTIES Converges
