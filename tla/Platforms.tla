------------------------------ MODULE Platforms ------------------------------
(***************************************************************************)
(* One process of Sockethub and the platform it was started for: IRC or    *)
(* XMPP, which take jobs one at a time and keep a connection, or one of    *)
(* the DAV platforms, which keep nothing and run their jobs side by side.  *)
(***************************************************************************)
EXTENDS IrcPlatform, XmppPlatform, DavPlatform

VARIABLE platform   \* the name the process was started with

vars == <<platform, childVars, ircVars, xmppVars, davVars>>

\* A process that is not for DAV has one state of the DAV server to begin with.
Init ==
  /\ platform \in {"irc", "xmpp", "dav"}
  /\ IrcInit /\ XmppInit /\ DavInit
  /\ platform # "dav" => resource.extra = "none"
  /\ platform # "dav" => protocol = CHOOSE p \in Protocols : TRUE

Next ==
  \/ platform = "irc"  /\ IrcNext  /\ UNCHANGED <<platform, xmppVars, davVars>>
  \/ platform = "xmpp" /\ XmppNext /\ UNCHANGED <<platform, ircVars, davVars>>
  \/ platform = "dav"  /\ DavNext  /\ UNCHANGED <<platform, childVars, ircVars, xmppVars>>

Spec == Init /\ [][Next]_vars
FairSpec == Spec /\ IrcFairness /\ XmppFairness /\ DavFairness

(* ------------------------------ properties ------------------------------ *)

\* Every part keeps its type, whichever platform the process is for.
TypeOK == ChildType /\ IrcType /\ XmppType /\ DavType

\* What a platform takes to be joined is what its server has.
RoomsFollowTheServer == ChannelsFollowTheServer /\ RoomsAreKnown

\* A success with credentials, and the traffic that goes with it, is for the
\* connection those credentials opened: a shared process never lets a session
\* in, or reports success to it, on the connection of other credentials.
SuccessIsOnTheConnectionItProves ==
  (platform = "irc" => IrcProven) /\ (platform = "xmpp" => XmppProven)

\* The job handler never stays with a job, so that the worker goes on to the
\* next one. It may where the code gives it no way out: an IRC verb whose
\* answer is due on a connection that has closed, which nothing tells the job,
\* and the IRC rename, which waits for the worker that waits for it.
WithoutAWayOut ==
  \/ job.at = "renaming"
  \/ job.at = "queued" /\ socket # "open"

Working == IF platform = "dav" THEN \E j \in DavJobs : dav[j].at # "idle"
                               ELSE up /\ job.at # "idle"

EveryJobSettles == Working ~> (~Working \/ WithoutAWayOut)
=============================================================================
