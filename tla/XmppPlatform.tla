---------------------------- MODULE XmppPlatform -----------------------------
(***************************************************************************)
(* The XMPP platform (packages/platform-xmpp/src/index.ts). Every connect  *)
(* that finds no live client makes a new one; the client object (external, *)
(* @xmpp/client) reconnects by itself until it is stopped, and its events  *)
(* reach the platform for as long as the listeners are attached, whichever *)
(* client the platform has by then.                                        *)
(***************************************************************************)
EXTENDS PlatformChild

CONSTANTS
  Rooms,
  MaxClients,   \* bound: client objects made
  MaxDrops      \* bound: times a connection is lost

ASSUME XmppAssumption == MaxClients \in Nat /\ MaxDrops \in Nat

VARIABLES
  current,     \* this.__client; 0 is undefined
  made,        \* the client objects made
  xmpp,        \* the client objects
  knownRooms,  \* this.__knownRooms
  drops

xmppVars == <<current, made, xmpp, knownRooms, drops>>

XmppVerbs == {"connect", "join", "leave", "send", "update", "request-friend",
              "remove-friend", "make-friend", "query", "disconnect"}
Clients == 1..MaxClients

\* status: of the connection; "dropped" is reconnecting, "stopping" has its
\* offline event to come. listens: offline, error; handles: stanzas.
NoClient == [status |-> "none", with |-> NoCredentials, listens |-> FALSE,
             handles |-> FALSE, joined |-> {}]

XmppInit ==
  /\ ChildInit
  /\ current = 0 /\ made = 0 /\ knownRooms = {} /\ drops = 0
  /\ xmpp = [c \in Clients |-> NoClient]

Alive(c) == xmpp[c].status \in {"starting", "online", "dropped"}
Online(c) == c # 0 /\ xmpp[c].status = "online"

Stopped(c) == [xmpp EXCEPT ![c].status = IF Alive(c) THEN "stopping" ELSE @,
                           ![c].joined = {}]

\* __markDisconnected(): knownRooms stays, and so do the listeners.
MarkDisconnected(stop) ==
  /\ xmpp' = IF stop /\ current # 0 THEN Stopped(current) ELSE xmpp
  /\ current' = 0 /\ initialized' = FALSE

(* -------------------------------- the verbs ----------------------------- *)

XmppFetch == TakeWithCredentials("connect") /\ UNCHANGED xmppVars

XmppReject == \E verb \in XmppVerbs \ {"connect"} :
  TakeUninitialized(verb) /\ UNCHANGED xmppVars

XmppConnect == \E with \in Credentials :
  /\ Busy("fetching") /\ Proves(with)
  /\ \/ /\ Online(current)
        /\ initialized' = TRUE /\ Succeed(with)
        /\ UNCHANGED xmppVars
     \/ /\ ~Online(current) /\ Fail(with)       \* no client can be constructed
        /\ UNCHANGED <<initialized, xmppVars>>
     \/ /\ ~Online(current) /\ made < MaxClients
        /\ made' = made + 1 /\ current' = made'
        /\ xmpp' = [xmpp EXCEPT ![made'] =
             [status |-> "starting", with |-> with, listens |-> TRUE,
              handles |-> FALSE, joined |-> {}]]
        /\ Await("connect", "none", with, "starting")
        /\ UNCHANGED <<hash, initialized, knownRooms, drops>>
  /\ UNCHANGED <<up, taken>>

\* The other verbs: what they send goes through the client there is, and the
\* platform knows a room from when the join is sent.
XmppTake ==
  /\ MayTake /\ initialized /\ taken' = taken + 1
  /\ IF current = 0 THEN Fail(NoCredentials) ELSE
     \/ \E room \in Rooms, verb \in {"join", "leave"} :
          Await(verb, room, NoCredentials, "sending") /\ UNCHANGED hash
     \/ Await("send", "none", NoCredentials, "sending") /\ UNCHANGED hash
     \/ Fail(NoCredentials)                    \* an update of unknown type
  /\ UNCHANGED <<up, initialized, xmppVars>>

\* this.__client.send() resolves: the stanza has left, unless the connection
\* went down in between. The rooms are those of the platform object all the same.
XmppSent ==
  /\ Busy("sending")
  /\ LET Change(rooms) == CASE job.verb = "join"  -> rooms \cup {job.on}
                            [] job.verb = "leave" -> rooms \ {job.on}
                            [] OTHER -> rooms
     IN /\ knownRooms' = Change(knownRooms)
        /\ xmpp' = IF Online(current)
                   THEN [xmpp EXCEPT ![current].joined = Change(@)] ELSE xmpp
  /\ Succeed(NoCredentials)
  /\ UNCHANGED <<up, initialized, taken, current, made, drops>>

XmppSendFails ==
  /\ Busy("sending") /\ Fail(NoCredentials)
  /\ UNCHANGED <<up, initialized, taken, xmppVars>>

XmppDisconnect ==
  /\ MayTake /\ initialized /\ taken' = taken + 1
  /\ initialized' = FALSE /\ current' = 0 /\ knownRooms' = {}
  /\ xmpp' = IF current = 0 THEN xmpp
             ELSE [Stopped(current) EXCEPT ![current].listens = FALSE,
                                           ![current].handles = FALSE]
  /\ Succeed(NoCredentials)
  /\ UNCHANGED <<up, made, drops>>

(* ------------------------- the events of the clients -------------------- *)

\* start() resolves: whatever __client is by now gets the handlers.
XmppStarted == \E c \in Clients :
  /\ up /\ xmpp[c].status = "starting"
  /\ xmpp' = [d \in Clients |->
       [xmpp[d] EXCEPT !.status  = IF d = c THEN "online" ELSE @,
                       !.handles = @ \/ d = current]]
  /\ initialized' = TRUE /\ Succeed(job.with)
  /\ UNCHANGED <<up, taken, current, made, knownRooms, drops>>

\* start() rejects. After a network error or a time-out the client goes on
\* trying; another error has marked the platform as disconnected before.
XmppStartFails == \E c \in Clients, recoverable \in BOOLEAN :
  /\ Busy("starting") /\ c = made
  /\ xmpp' = LET marked == IF recoverable \/ current = 0 THEN xmpp ELSE Stopped(current)
             IN [marked EXCEPT ![c].status = IF @ = "starting" THEN "dropped" ELSE @]
  /\ initialized' = (initialized /\ recoverable)
  /\ current' = 0 /\ Fail(job.with)
  /\ UNCHANGED <<up, taken, made, knownRooms, drops>>

XmppDrops == \E c \in Clients :
  /\ up /\ xmpp[c].status = "online" /\ drops < MaxDrops
  /\ drops' = drops + 1
  /\ xmpp' = [xmpp EXCEPT ![c].status = "dropped", ![c].joined = {}]
  /\ UNCHANGED <<childVars, current, made, knownRooms>>

XmppReconnects == \E c \in Clients :
  /\ up /\ xmpp[c].status = "dropped"
  /\ xmpp' = [xmpp EXCEPT ![c].status = "online"]
  /\ UNCHANGED <<childVars, current, made, knownRooms, drops>>

\* An error that is not of the network stops the client the platform has.
XmppFatalError == \E c \in Clients :
  /\ up /\ xmpp[c].status \in {"online", "dropped"} /\ xmpp[c].listens
  /\ MarkDisconnected(TRUE)
  /\ UNCHANGED <<up, hash, job, taken, made, knownRooms, drops>>

\* A TypeError in a listener: cleanup() and process.exit(1).
XmppInternalError == \E c \in Clients :
  /\ up /\ Alive(c) /\ xmpp[c].listens
  /\ up' = FALSE /\ initialized' = FALSE /\ current' = 0 /\ knownRooms' = {}
  /\ UNCHANGED <<hash, job, taken, made, xmpp, drops>>

XmppOffline == \E c \in Clients :
  /\ up /\ xmpp[c].status = "stopping"
  /\ IF xmpp[c].listens /\ ~initialized
     THEN current' = 0 ELSE UNCHANGED current
  /\ xmpp' = [xmpp EXCEPT ![c].status = "gone"]
  /\ UNCHANGED <<childVars, made, knownRooms, drops>>

XmppChildEnds == ChildEnds /\ UNCHANGED xmppVars
XmppCredentialError == CredentialError /\ UNCHANGED xmppVars

XmppNext ==
  \/ XmppFetch \/ XmppReject \/ XmppConnect \/ XmppTake \/ XmppSent
  \/ XmppSendFails \/ XmppDisconnect \/ XmppStarted \/ XmppStartFails
  \/ XmppDrops \/ XmppReconnects \/ XmppFatalError \/ XmppInternalError
  \/ XmppOffline \/ XmppChildEnds \/ XmppCredentialError

\* Redis answers, and the promises of the client settle.
XmppFairness ==
  /\ WF_<<childVars, xmppVars>>(XmppConnect \/ XmppCredentialError)
  /\ WF_<<childVars, xmppVars>>(XmppSent \/ XmppSendFails)
  /\ WF_<<childVars, xmppVars>>(XmppStarted \/ XmppStartFails)

XmppSpec == XmppInit /\ [][XmppNext]_<<childVars, xmppVars>>

(* ------------------------------ properties ------------------------------ *)

\* The client objects the process has made, and the one the platform uses.
XmppType ==
  /\ made \in 0..MaxClients /\ current \in 0..made /\ drops \in 0..MaxDrops
  /\ knownRooms \subseteq Rooms
  /\ xmpp \in [Clients -> [status: {"none", "starting", "online", "dropped",
                                   "stopping", "gone"},
                           with: Credentials \cup {NoCredentials},
                           listens: BOOLEAN, handles: BOOLEAN,
                           joined: SUBSET Rooms]]

\* Between two jobs, the platform knows every room its client is in: a message
\* of a room it does not know is taken for one of a person.
RoomsAreKnown ==
  (Busy("idle") /\ current # 0) => xmpp[current].joined \subseteq knownRooms

\* A connect succeeds only with the credentials of the client there is, and
\* whatever a client hears reaches the sessions of a process only if it was
\* opened with the credentials each of them has to present.
XmppProven ==
  /\ (up /\ current # 0 /\ job.answer = "result" /\ job.with # NoCredentials)
       => job.with = xmpp[current].with
  /\ \A c \in Clients : (xmpp[c].handles /\ xmpp[c].status = "online")
       => xmpp[c].with = hash
=============================================================================
