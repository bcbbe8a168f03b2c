-------------------------- MODULE MCMessageRouter --------------------------
(* Two CSMS Calls compete with a station that may send one message id again *)
(* and again, two at once and under two actions.  It answers a Call twice,  *)
(* an AFRRSignal never.                                                     *)
EXTENDS MessageRouter

TwiceUnlessSignal == [c \in Calls |-> IF c \in AFRRSignals THEN 0 ELSE 2]
=============================================================================
