---------------------------- MODULE MCHttpActions ----------------------------
(* An instance of HttpActions for TLC. *)
EXTENDS HttpActions

CONSTANTS r1, r2

TwoRequests == {r1, r2}
MixedBody == <<"message", "credentials", "unknown">>
=============================================================================
