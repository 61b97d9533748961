---------------------------- MODULE MCSimulation ----------------------------
(* Three initial accounts; a client asks for the number of the last one. *)
EXTENDS SimulationInv

MCOpening == [n \in Numbers |-> 20]
AskedNumbers == [p \in Clients |-> 3]
=============================================================================
