-------------------------- MODULE MCEmsAutoApply --------------------------
(* Two intents, of which the first applies again if the second expires.    *)
EXTENDS EmsAutoApply

CONSTANTS m1

MCLimitOf == [i \in Intents |-> IF i = 2 THEN 20 ELSE 10]
=============================================================================
