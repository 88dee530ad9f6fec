--------------------------- MODULE MCServerShell ---------------------------
(***************************************************************************)
(* Three sockets come and go; two do while the server is told to stop,     *)
(* twice; and one keeps sending events while time goes on.                 *)
(***************************************************************************)
EXTENDS ServerShell, TLC

CONSTANTS s1, s2, s3, busy, TERM, INT

ThreeSockets == [sockets |-> {s1, s2, s3}, signals |-> {}, timed |-> FALSE]
TwoSignals == [sockets |-> {s1, s2}, signals |-> {TERM, INT}, timed |-> FALSE]
BusySocket == [sockets |-> {busy}, signals |-> {TERM, INT}, timed |-> TRUE]
ThreeLoads == {ThreeSockets, TwoSignals, BusySocket}

Symmetry == Permutations({s1, s2}) \cup Permutations({TERM, INT})
=============================================================================
