---------------------------------- MODULE Peers ----------------------------------
(* Who takes part: server nodes and clients, which are two builds of one program; both
   are peers.  A process makes its id when it starts and keeps it: one drawn at random
   with a prefix for its kind, or for a node the one it is given in CELTE_NODE_ID. *)
CONSTANTS
  Node, Client,
  None          \* no peer

Peer == Node \cup Client

ASSUME PeersAssumption == Node \cap Client = {} /\ None \notin Peer
================================================================================
