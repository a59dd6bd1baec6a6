--------------------------- MODULE MCLocalSession ---------------------------
(* LocalSession with numbered agents, sockets and flows. *)
EXTENDS LocalSession

TwoSessions == 1 .. 2
TwoAgents == 1 .. 2
ThreeAgents == 1 .. 3
ThreeSockets == 1 .. 3
TwoFlows == 1 .. 2
ThreeFlows == 1 .. 3
=============================================================================
