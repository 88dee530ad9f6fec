-------------------------- MODULE MCConnectionScope --------------------------
(* Small instances of ConnectionScope for TLC, and what its comments claim. *)
EXTENDS ConnectionScope, TLC

CONSTANTS a, b, c, nick1, nick2, home, secret1

ThreeSessions == {a, b, c}
TwoSessions == {a, b}
OneHttp == {c}
NoHttp == {}
OneOfEach == {a, c}
OneActor == {nick1}
TwoActors == {nick1, nick2}
OneIp == {home}
OneSecret == {secret1}
NoSecrets == {}
TwoPromises == 1..2
OnePromise == 1..1
NoPromises == {}
AllSockets == Permutations(ThreeSessions)
TwoAlike == Permutations(TwoSessions)
=============================================================================
