--------------------------- MODULE MCWireOwnership ---------------------------
(* WireOwnership for TLC: sockets, streams and clients are interchangeable. *)
EXTENDS WireOwnership, TLC

Symmetric == Permutations(Sockets) \union Permutations(Streams) \union Permutations(Clients)

=============================================================================
