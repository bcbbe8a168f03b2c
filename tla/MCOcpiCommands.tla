-------------------------- MODULE MCOcpiCommands --------------------------
(* Two commands: the first one's callback may come twice, while a result   *)
(* is posted by its sender and by its time-out; nobody calls back about    *)
(* the second.                                                             *)
EXTENDS OcpiCommands

CONSTANTS c1, c2, k1, k2

MCCommandOf == [k \in Callbacks |-> c1]
=============================================================================
