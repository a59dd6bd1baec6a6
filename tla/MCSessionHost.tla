--------------------------- MODULE MCSessionHost ---------------------------
(* Model checking of SessionHost.  Session ids are interchangeable but for *)
(* the one the backend remembers, and only runs without liveness use that. *)
EXTENDS SessionHost, TLC

SessionSymmetry == Permutations(Sessions \ {Remembered})

=============================================================================
