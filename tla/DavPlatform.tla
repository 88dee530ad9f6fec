----------------------------- MODULE DavPlatform -----------------------------
(***************************************************************************)
(* The CalDAV and CardDAV platforms (packages/platform-caldav, -carddav)   *)
(* over their HTTP client (packages/dav): stateless, so that the jobs of   *)
(* several users run side by side, each with a client of its own, on a     *)
(* server that other programs write to as well. One exchange of a request  *)
(* and its response is a step. The server (external) is modelled by one    *)
(* resource: its version stands for the etag, `extra` for the content that  *)
(* Sockethub does not write itself.                                        *)
(***************************************************************************)
EXTENDS Naturals, FiniteSets

CONSTANTS
  DavJobs,
  Protocols,        \* "caldav" and "carddav", or one of them
  MaxVersion,       \* bound: versions of the resource
  MaxRedirects,     \* MAX_REDIRECTS
  MaxAuthAttempts   \* MAX_AUTH_ATTEMPTS

ASSUME DavAssumption ==
  /\ Protocols \subseteq {"caldav", "carddav"}
  /\ MaxVersion \in Nat /\ MaxRedirects \in Nat /\ MaxAuthAttempts \in Nat

VARIABLES
  protocol,
  resource,  \* on the server: its version, 0 when there is none
  version,   \* the last version given out
  dav        \* the jobs

davVars == <<protocol, resource, version, dav>>

\* Properties it does not know, or exceptions to a recurrence.
Extras   == {"none", "unknown", "exceptions"}
Writes   == {"create", "update", "delete"}
DavVerbs == {"fetch", "query"} \cup Writes

\* etag: the version its client saw; keeps: what the platform takes over
\* from the card it read before it writes; applied: history, how often
\* the server carried the write out.
NewJob == [verb |-> "none", at |-> "idle", etag |-> 0, keeps |-> "none",
           attempts |-> 0, redirects |-> 0,
           answer |-> "none", applied |-> 0]

DavInit ==
  /\ protocol \in Protocols
  /\ resource \in {[version |-> 1, extra |-> x] : x \in Extras}
  /\ version = 1
  /\ dav = [j \in DavJobs |-> NewJob]

Done(j, answer) == [dav[j] EXCEPT !.at = "idle", !.answer = answer, !.keeps = "none",
                                  !.attempts = 0, !.redirects = 0]
Become(j, record) == dav' = [dav EXCEPT ![j] = record]
Requests(j) == dav[j].at \in {"discover", "get", "write"}

\* A verb, and the version its client saw.
DavTake(j) == \E verb \in DavVerbs, etag \in 1..version :
  /\ dav[j].verb = "none"
  /\ verb \in {"update", "delete"} \/ etag = 1
  /\ Become(j, [NewJob EXCEPT !.verb = verb, !.etag = etag, !.at = "fetching"])
  /\ UNCHANGED <<protocol, resource, version>>

\* The credentials are there and a client is constructed: discovery first.
DavClientReady(j) ==
  /\ dav[j].at = "fetching"
  /\ Become(j, [dav[j] EXCEPT !.at = "discover"])
  /\ UNCHANGED <<protocol, resource, version>>

\* No credentials, or the constructor throws (invalid-url, https-required):
\* as the platform counts as initialized, the session is dropped.
DavCredentialError(j) ==
  /\ dav[j].at = "fetching"
  /\ Become(j, Done(j, "unauthorized"))
  /\ UNCHANGED <<protocol, resource, version>>

(* ----------------------------- request() -------------------------------- *)

\* The next request of the job starts with fresh counters. (The scheme and the
\* nonce that its client keeps show in the answers of the server only.)
NextRequest(j, at) == [dav[j] EXCEPT !.at = at, !.attempts = 0, !.redirects = 0]

\* 3xx with a location of the same origin; a write follows 307 and 308 only.
DavRedirected(j) ==
  /\ Requests(j)
  /\ \E safe \in BOOLEAN :
       Become(j, IF safe /\ dav[j].redirects < MaxRedirects
                 THEN [dav[j] EXCEPT !.redirects = @ + 1] ELSE Done(j, "error"))
  /\ UNCHANGED <<protocol, resource, version>>

\* Mutant of DavChallenged: a stale nonce is tried again without a limit.
DavChallengedForEver(j) ==
  /\ Requests(j)
  /\ Become(j, [dav[j] EXCEPT !.attempts = @ + 1])
  /\ UNCHANGED <<protocol, resource, version>>

\* 401 with the challenge of a digest, perhaps a stale one, or for basic.
DavChallenged(j) ==
  /\ Requests(j)
  /\ \E scheme \in {"digest", "basic", "other"}, stale \in BOOLEAN :
       LET first == dav[j].attempts = 0
           again == /\ dav[j].attempts < MaxAuthAttempts
                    /\ \/ scheme = "digest" /\ (first \/ stale)
                       \/ scheme = "basic" /\ first
       IN Become(j, IF again THEN [dav[j] EXCEPT !.attempts = @ + 1]
                             ELSE Done(j, "error"))
  /\ UNCHANGED <<protocol, resource, version>>

\* 403, another error status, a body that is no valid answer.
DavDenied(j) ==
  /\ Requests(j)
  /\ Become(j, Done(j, "error"))
  /\ UNCHANGED <<protocol, resource, version>>

\* Discovery finds the collection of the job; fetch is answered by it.
DavDiscovered(j) ==
  /\ dav[j].at = "discover"
  /\ Become(j, IF dav[j].verb = "fetch" THEN Done(j, "result")
               ELSE NextRequest(j, IF dav[j].verb = "update" THEN "get" ELSE "write"))
  /\ UNCHANGED <<protocol, resource, version>>

\* The GET before an update asks for the version the client saw; a server may
\* disregard that. CalDAV refuses to write over exceptions and drops unknown
\* properties, CardDAV takes over what it does not know.
DavGot(j) ==
  /\ dav[j].at = "get" /\ resource.version # 0
  /\ Become(j, IF protocol = "caldav" /\ resource.extra = "exceptions" THEN Done(j, "error")
               ELSE [NextRequest(j, "write") EXCEPT !.keeps =
                        IF protocol = "carddav" THEN resource.extra ELSE "none"])
  /\ UNCHANGED <<protocol, resource, version>>

\* Mutant of Matches: a write carries no condition.
Unconditionally(j) == TRUE

\* The conditions a write carries: If-None-Match: * to create, If-Match else.
Matches(j) == resource.version = IF dav[j].verb = "create" THEN 0 ELSE dav[j].etag

Written(j) ==
  /\ Matches(j) /\ version < MaxVersion
  /\ IF dav[j].verb = "delete"
     THEN resource' = [resource EXCEPT !.version = 0, !.extra = "none"] /\ UNCHANGED version
     ELSE /\ version' = version + 1
          /\ resource' = [version |-> version', extra |-> dav[j].keeps]

DavWritten(j) ==
  /\ dav[j].at = "write"
  /\ IF dav[j].verb = "query" THEN UNCHANGED <<resource, version>> ELSE Written(j)
  /\ Become(j, [Done(j, "result") EXCEPT !.applied = IF dav[j].verb = "query" THEN 0 ELSE @ + 1])
  /\ UNCHANGED protocol

\* Mutant of DavConflict: what is gone need not be deleted any more.
DavConflictUnlessGone(j) ==
  /\ dav[j].at \in {"get", "write"} /\ dav[j].verb # "query" /\ ~Matches(j)
  /\ Become(j, Done(j, IF dav[j].verb = "delete" /\ resource.version = 0
                       THEN "result" ELSE "error"))
  /\ UNCHANGED <<protocol, resource, version>>

\* 412 and 404: conflict, not found.
DavConflict(j) ==
  /\ dav[j].at \in {"get", "write"} /\ dav[j].verb # "query" /\ ~Matches(j)
  /\ Become(j, Done(j, "error"))
  /\ UNCHANGED <<protocol, resource, version>>

\* The connection fails or the time-out strikes, before the server acts or
\* after; and a create whose new location is not allowed.
DavLost(j) ==
  /\ Requests(j)
  /\ \/ /\ Become(j, Done(j, "error"))
        /\ UNCHANGED <<resource, version>>
     \/ /\ dav[j].at = "write" /\ dav[j].verb \in Writes /\ Written(j)
        /\ Become(j, [Done(j, "error") EXCEPT !.applied = @ + 1])
  /\ UNCHANGED protocol

\* Another program writes or deletes the resource.
DavElsewhere == \E now \in {0, version + 1}, x \in Extras :
  /\ version < MaxVersion
  /\ now = 0 => resource.version # 0 /\ x = "none"
  /\ version' = version + 1
  /\ resource' = [version |-> now, extra |-> x]
  /\ UNCHANGED <<protocol, dav>>

DavNext ==
  \/ \E j \in DavJobs :
       \/ DavTake(j) \/ DavClientReady(j) \/ DavCredentialError(j)
       \/ DavRedirected(j) \/ DavChallenged(j) \/ DavDenied(j)
       \/ DavDiscovered(j) \/ DavGot(j) \/ DavWritten(j) \/ DavConflict(j)
       \/ DavLost(j)
  \/ DavElsewhere

\* Every request has its time-out.
DavFairness == \A j \in DavJobs :
  /\ WF_davVars(DavClientReady(j) \/ DavCredentialError(j))
  /\ WF_davVars(DavRedirected(j) \/ DavChallenged(j) \/ DavDenied(j)
                \/ DavDiscovered(j) \/ DavGot(j) \/ DavWritten(j)
                \/ DavConflict(j) \/ DavLost(j))

DavSpec == DavInit /\ [][DavNext]_davVars

(* ------------------------------ properties ------------------------------ *)

\* The jobs and the resource on the server.
DavType ==
  /\ protocol \in Protocols
  /\ version \in Nat
  /\ resource \in [version: 0..version, extra: Extras]
  /\ dav \in [DavJobs -> [verb: DavVerbs \cup {"none"},
                          at: {"idle", "fetching", "discover", "get", "write"},
                          etag: Nat, keeps: Extras,
                          attempts: 0..MaxAuthAttempts,
                          redirects: 0..MaxRedirects,
                          answer: {"none", "result", "error", "unauthorized"},
                          applied: Nat]]

\* No update is lost: a write takes effect only on the version its client saw
\* (none, for a create), whoever wrote in between and however often the job
\* was redirected or asked to authenticate; and an update takes no content
\* away that Sockethub does not know: CardDAV keeps it, CalDAV never writes
\* over the exceptions of a recurrence.
AWriteReplacesWhatItsClientSaw ==
  [][\A j \in DavJobs : dav'[j].applied # dav[j].applied =>
       /\ resource.version = (IF dav[j].verb = "create" THEN 0 ELSE dav[j].etag)
       /\ dav[j].verb = "update" =>
            IF protocol = "carddav" THEN resource'.extra = resource.extra
                                    ELSE resource.extra # "exceptions"]_davVars

\* The server carries out a job at most once, and one whose write succeeded
\* exactly once: no step of a job repeats a write that may have arrived.
SuccessMeansWrittenOnce == \A j \in DavJobs :
  /\ dav[j].applied <= 1
  /\ (dav[j].answer = "result" /\ dav[j].verb \in Writes) => dav[j].applied = 1
=============================================================================
