-------------------------- MODULE MCSubscriptions --------------------------
(* Two stations: s1 subscribes and unsubscribes, s2 subscribes.            *)
EXTENDS Subscriptions

CONSTANTS s1, s2, b1, b3, u1

MCCallers == Subs \cup Unsubs
MCStationOf == [x \in Subs \cup Unsubs |-> IF x = b3 THEN s2 ELSE s1]
=============================================================================
