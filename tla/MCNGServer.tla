------------------------------ MODULE MCNGServer ------------------------------
(* Instances of NGServer for TLC.  A round of the server thread takes at    *)
(* most one new session and ends with a connection, so Cardinality(Clients) *)
(* + 1 sessions are as many as the program can create: the bound on         *)
(* Sessions excludes nothing.                                               *)
EXTENDS NGServerProperties, TLC

ASSUME Cardinality(Sessions) > Cardinality(Clients)

Symmetry == Permutations(Clients \ BreakOff) \cup Permutations(BreakOff)
=============================================================================
