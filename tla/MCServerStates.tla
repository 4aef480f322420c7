--------------------------- MODULE MCServerStates ---------------------------
(* Small instances of ServerStates for TLC. *)
EXTENDS ServerStates, TLC

Symmetry == Permutations(SessionIds) \cup Permutations(EndpointIds)
            \cup Permutations(FourTuples) \cup Permutations(UserNames)
=============================================================================
