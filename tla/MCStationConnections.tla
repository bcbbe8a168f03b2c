----------------------- MODULE MCStationConnections -----------------------
(* Two stations of one tenant: s1 opens two websockets, s2 one that a       *)
(* request may disconnect.                                                  *)
EXTENDS StationConnections, TLC

CONSTANTS s1, s2, w1, w2, w3, a1

MCStationOf ==
    [x \in Sockets \cup Admins |-> IF x \in {w3, a1} THEN s2 ELSE s1]

\* The two websockets of s1 are alike.
Alike == Permutations({w1, w2})
=============================================================================
