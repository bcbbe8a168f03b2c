------------------------ MODULE MCBrokerAwareSender ------------------------
(* Instances of BrokerAwareSender: one follows responses, the other Calls.  *)
EXTENDS BrokerAwareSender
=============================================================================
