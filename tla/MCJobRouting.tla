---------------------------- MODULE MCJobRouting ----------------------------
(* A small instance of JobRouting for TLC. *)
EXTENDS JobRouting

CONSTANTS r1, r2, i1, i2, nick1, nick2

TwoRequests == {r1, r2}
AnUpdate == {r2}
TwoInstances == {i1, i2}
TwoNames == {nick1, nick2}
=============================================================================
