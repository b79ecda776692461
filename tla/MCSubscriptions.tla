---------------------------- MODULE MCSubscriptions ----------------------------
(* Instances of Subscriptions.  A change is a tuple: peer, container, whether to
   subscribe, and a number that tells equal changes apart. *)
EXTENDS Subscriptions

CONSTANTS cl, g, k1

Subscribe(p, k, n) == {<<p, k, TRUE, i>> : i \in 1 .. n}
Unsubscribe(p, k, n) == {<<p, k, FALSE, i>> : i \in 1 .. n}

(* Each peer may be subscribed, unsubscribed, and the grape subscribed again. *)
MCCall ==
  Subscribe(cl, k1, 1) \cup Unsubscribe(cl, k1, 1)
    \cup Subscribe(g, k1, 2) \cup Unsubscribe(g, k1, 1)

MCCallClient == Subscribe(cl, k1, 1) \cup Unsubscribe(cl, k1, 1)

MCTo == [c \in Call |-> c[1]]
MCOf == [c \in Call |-> c[2]]
MCOn == [c \in Call |-> c[3]]
=============================================================================
