-------------------------- MODULE MCSockethubClient --------------------------
(* An instance of SockethubClient for TLC: a session of one actor, who logs  *)
(* in, joins a room and leaves it, and one message that is not valid.        *)
EXTENDS SockethubClient

CONSTANTS login, join, leave, wrong, call, v1, v2, none

Session == {login, join, leave, wrong}
SessionKinds == login :> "credentials" @@ join :> "join" @@ leave :> "leave" @@ wrong :> "connect"
SessionKeys == login :> 1 @@ join :> 2 @@ leave :> 2 @@ wrong :> 1
OnlyWrong == {wrong}
OneCall == {call}
TwoRegistries == {v1, v2}
=============================================================================
