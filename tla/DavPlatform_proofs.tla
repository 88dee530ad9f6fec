-------------------------- MODULE DavPlatform_proofs --------------------------
(***************************************************************************)
(* Proofs about DavPlatform, for every set of jobs and every bound.        *)
(***************************************************************************)
EXTENDS DavPlatform, TLAPS

Steps == {"idle", "fetching", "discover", "get", "write"}
Answers == {"none", "result", "error", "unauthorized"}

\* DavType but for the limits of a request, which the proofs about what is
\* written do not need: CountersInv adds them.
JobRecord == [verb: DavVerbs \cup {"none"}, at: Steps, etag: Nat, keeps: Extras,
              attempts: Nat, redirects: Nat, answer: Answers, applied: Nat]

JobsInv == dav \in [DavJobs -> JobRecord]

\* Only what is to be written gets as far as a write, but for queries, and
\* only an update reads first.
VerbInv == \A j \in DavJobs :
  /\ dav[j].at # "idle" => dav[j].verb # "none"
  /\ dav[j].at = "write" => dav[j].verb \in Writes \cup {"query"}
  /\ dav[j].at = "get" => dav[j].verb = "update"

\* A job in progress has written nothing and has no answer; its write comes
\* with its answer, or its failure.
OnceInv == \A j \in DavJobs :
  /\ dav[j].at # "idle" => dav[j].applied = 0 /\ dav[j].answer = "none"
  /\ dav[j].verb = "none" => dav[j].applied = 0
  /\ dav[j].applied <= 1
  /\ (dav[j].answer = "result" /\ dav[j].verb \in Writes) => dav[j].applied = 1

\* The resource is gone or has the last version given out, and no client has
\* seen a later one.
VersionInv ==
  /\ version \in Nat /\ resource \in [version: Nat, extra: Extras]
  /\ resource.version \in {0, version}
  /\ protocol \in {"caldav", "carddav"}
  /\ \A j \in DavJobs : dav[j].at # "idle" => dav[j].etag \in 1..version

\* An update that is about to be written has read the content of the version
\* it will replace, if it replaces one: since etags are never given out
\* again, what it read is still there whenever its condition holds.
ReadInv == \A j \in DavJobs :
  (/\ dav[j].at = "write" /\ dav[j].verb = "update"
   /\ resource.version = dav[j].etag)
  => IF protocol = "carddav" THEN dav[j].keeps = resource.extra
                             ELSE resource.extra # "exceptions"

DavInv == JobsInv /\ VerbInv /\ OnceInv /\ VersionInv /\ ReadInv

LEMMA InitDav == DavInit => DavInv
<1> SUFFICES ASSUME DavInit PROVE DavInv
  OBVIOUS
<1> USE DEF DavInit, NewJob
<1>1. JobsInv
  BY DEF JobsInv, JobRecord, Steps, Answers, Extras
<1>5. VerbInv
  BY DEF VerbInv
<1>2. OnceInv
  BY DEF OnceInv, Writes
<1>3. VersionInv
  BY DavAssumption DEF VersionInv, Extras
<1>4. ReadInv
  BY DEF ReadInv
<1> QED
  BY <1>1, <1>2, <1>3, <1>4, <1>5 DEF DavInv

\* What every step of a job that leaves the server alone has in common: one
\* job becomes a record, and the record keeps the invariant by itself.
Kept(j, r) ==
  /\ r \in JobRecord
  /\ r.at # "idle" => r.verb # "none"
  /\ r.verb = "none" => r.applied = 0
  /\ r.at = "write" => r.verb \in Writes \cup {"query"}
  /\ r.at = "get" => r.verb = "update"
  /\ r.at # "idle" => r.applied = 0 /\ r.answer = "none" /\ r.etag \in 1..version
  /\ r.applied <= 1
  /\ (r.answer = "result" /\ r.verb \in Writes) => r.applied = 1
  /\ (r.at = "write" /\ r.verb = "update" /\ resource.version = r.etag)
       => IF protocol = "carddav" THEN r.keeps = resource.extra
                                  ELSE resource.extra # "exceptions"

LEMMA BecomeKeeps ==
  ASSUME DavInv, NEW j \in DavJobs, NEW r, Kept(j, r), Become(j, r),
         UNCHANGED <<protocol, resource, version>>
  PROVE  DavInv'
<1> USE DEF DavInv, Become, Kept
<1>1. JobsInv'
  BY DEF JobsInv
<1>5. VerbInv'
  BY <1>1 DEF VerbInv, JobsInv
<1>2. OnceInv'
  BY <1>1 DEF OnceInv, JobsInv
<1>3. VersionInv'
  BY <1>1 DEF VersionInv, JobsInv
<1>4. ReadInv'
  BY <1>1 DEF ReadInv, JobsInv
<1> QED
  BY <1>1, <1>2, <1>3, <1>4, <1>5

\* A job that ends with an answer other than a result has kept what is asked.
LEMMA DoneKeeps ==
  ASSUME DavInv, NEW j \in DavJobs, NEW a \in Answers \ {"none"},
         a = "result" => dav[j].verb \notin Writes,
         dav[j].at # "idle"
  PROVE  Kept(j, Done(j, a))
<1> DEFINE r == Done(j, a)
<1>1. dav[j] \in JobRecord
  BY DEF DavInv, JobsInv
<1>2. /\ r \in JobRecord
      /\ r.at = "idle" /\ r.answer = a
      /\ r.verb = dav[j].verb /\ r.applied = dav[j].applied
  BY <1>1 DEF Done, JobRecord, Steps, Answers, Extras
<1> HIDE DEF r
<1>3. dav[j].applied = 0
  BY DEF DavInv, OnceInv
<1> QED
  BY <1>2, <1>3 DEF Kept, r

\* A record of a job in progress that is still in progress, not yet about to
\* write, or as much about to write as before.
LEMMA OngoingKeeps ==
  ASSUME DavInv, NEW j \in DavJobs, NEW r \in JobRecord, dav[j].at # "idle",
         r.verb = dav[j].verb, r.etag = dav[j].etag, r.answer = dav[j].answer,
         r.applied = dav[j].applied,
         \/ r.at \notin {"get", "write"}
         \/ dav[j].at = "discover" /\ r.verb # "fetch" /\ r.at = "get" /\ r.verb = "update"
         \/ dav[j].at = "discover" /\ r.verb \notin {"fetch", "update"} /\ r.at = "write"
         \/ dav[j].at = r.at /\ r.keeps = dav[j].keeps
  PROVE  Kept(j, r)
<1>1. r.applied = 0 /\ r.answer = "none" /\ r.etag \in 1..version
  BY DEF DavInv, OnceInv, VersionInv
<1>2. (r.at = "write" /\ r.verb = "update" /\ resource.version = r.etag)
        => IF protocol = "carddav" THEN r.keeps = resource.extra
                                   ELSE resource.extra # "exceptions"
  BY DEF DavInv, ReadInv
<1>3. /\ r.at # "idle" => r.verb # "none"
      /\ r.at = "write" => r.verb \in Writes \cup {"query"}
      /\ r.at = "get" => r.verb = "update"
  BY DEF DavInv, VerbInv, JobRecord, DavVerbs, Writes
<1> QED
  BY <1>1, <1>2, <1>3 DEF Kept

\* A write: the new version is one that no client has seen, so that no other
\* job's condition holds any more.
LEMMA WriteKeeps ==
  ASSUME DavInv, NEW j \in DavJobs, dav[j].at = "write", dav[j].verb \in Writes,
         Written(j), NEW a \in Answers \ {"none"}, UNCHANGED protocol,
         Become(j, [Done(j, a) EXCEPT !.applied = @ + 1])
  PROVE  DavInv'
<1> DEFINE r == [Done(j, a) EXCEPT !.applied = @ + 1]
<1>1. dav[j] \in JobRecord /\ dav[j].applied = 0
  BY DEF DavInv, JobsInv, JobRecord, OnceInv
<1>2. /\ r \in JobRecord /\ r.at = "idle" /\ r.verb = dav[j].verb
      /\ r.applied = 1
  <2>1. /\ Done(j, a) \in JobRecord /\ Done(j, a).at = "idle"
        /\ Done(j, a).verb = dav[j].verb /\ Done(j, a).applied = 0
    BY <1>1 DEF Done, JobRecord, Steps, Answers, Extras
  <2> QED
    BY <2>1 DEF JobRecord
<1>3. dav' = [dav EXCEPT ![j] = r]
  BY DEF Become
<1>4. dav'[j] = r /\ \A k \in DavJobs \ {j} : dav'[k] = dav[k]
  BY <1>3 DEF DavInv, JobsInv
<1> HIDE DEF r
<1>5. JobsInv'
  BY <1>2, <1>3 DEF DavInv, JobsInv
<1>6. OnceInv' /\ VerbInv'
  BY <1>2, <1>4 DEF DavInv, OnceInv, VerbInv
<1>7. /\ version' \in Nat /\ version <= version'
      /\ resource' \in [version: Nat, extra: Extras]
      /\ \/ resource'.version = 0
         \/ resource'.version = version + 1 /\ version' = version + 1
      /\ resource'.version = 0 => version' = version
  <2>1. /\ version \in Nat /\ resource.extra \in Extras /\ dav[j].keeps \in Extras
        /\ resource \in [version: Nat, extra: Extras] /\ "none" \in Extras
    BY <1>1 DEF DavInv, VersionInv, JobRecord, Extras
  <2>2. CASE dav[j].verb = "delete"
    <3>1. /\ resource' = [resource EXCEPT !.version = 0, !.extra = "none"]
          /\ version' = version
      BY <2>2 DEF Written
    <3>2. resource'.version = 0 /\ resource' \in [version: Nat, extra: Extras]
      BY <2>1, <3>1
    <3> QED
      BY <2>1, <3>1, <3>2
  <2>3. CASE dav[j].verb # "delete"
    <3>1. /\ version' = version + 1
          /\ resource' = [version |-> version + 1, extra |-> dav[j].keeps]
      BY <2>3 DEF Written
    <3> QED
      BY <2>1, <3>1
  <2> QED
    BY <2>2, <2>3
<1>8. VersionInv'
  BY <1>2, <1>4, <1>7 DEF DavInv, VersionInv
<1>9. ReadInv'
  <2> SUFFICES ASSUME NEW k \in DavJobs, dav'[k].at = "write",
                      resource'.version = dav'[k].etag
               PROVE FALSE
    BY DEF ReadInv
  <2>1. k # j
    BY <1>2, <1>4
  <2>2. dav[k].etag \in 1..version
    BY <2>1, <1>4 DEF DavInv, VersionInv
  <2> QED
    BY <2>1, <2>2, <1>4, <1>7 DEF DavInv, VersionInv
<1> QED
  BY <1>5, <1>6, <1>8, <1>9 DEF DavInv

LEMMA StepDav == DavInv /\ [DavNext]_davVars => DavInv'
<1> SUFFICES ASSUME DavInv, [DavNext]_davVars PROVE DavInv'
  OBVIOUS
<1> DEFINE Quiet == UNCHANGED <<protocol, resource, version>>
<1>0. ASSUME NEW j \in DavJobs PROVE dav[j] \in JobRecord
  BY DEF DavInv, JobsInv, JobRecord
<1>1. ASSUME NEW j \in DavJobs, DavTake(j) PROVE DavInv'
  <2> PICK verb \in DavVerbs, etag \in 1..version :
        Become(j, [NewJob EXCEPT !.verb = verb, !.etag = etag, !.at = "fetching"])
    BY <1>1 DEF DavTake
  <2> DEFINE r == [NewJob EXCEPT !.verb = verb, !.etag = etag, !.at = "fetching"]
  <2>1. etag \in Nat /\ verb # "none"
    BY DEF DavInv, VersionInv, DavVerbs, Writes
  <2>2. NewJob \in JobRecord /\ NewJob.applied = 0 /\ NewJob.answer = "none"
    BY DEF NewJob, JobRecord, Steps, Answers, Extras
  <2>3. /\ r \in JobRecord /\ r.verb = verb /\ r.etag = etag /\ r.at = "fetching"
        /\ r.applied = 0 /\ r.answer = "none"
    BY <2>1, <2>2 DEF JobRecord, Steps
  <2> HIDE DEF r
  <2>4. Kept(j, r)
    BY <2>1, <2>3 DEF Kept
  <2> QED
    BY <1>1, <2>4, BecomeKeeps DEF DavTake, r
<1>2. ASSUME NEW j \in DavJobs, DavClientReady(j) PROVE DavInv'
  <2> DEFINE r == [dav[j] EXCEPT !.at = "discover"]
  <2>1. /\ r \in JobRecord /\ r.at = "discover" /\ r.verb = dav[j].verb
        /\ r.etag = dav[j].etag /\ r.answer = dav[j].answer
        /\ r.applied = dav[j].applied
    BY <1>0 DEF JobRecord, Steps
  <2>2. Become(j, r) /\ dav[j].at # "idle" /\ Quiet
    BY <1>2 DEF DavClientReady
  <2> HIDE DEF r
  <2> QED
    BY <2>1, <2>2, OngoingKeeps, BecomeKeeps
<1>3. ASSUME NEW j \in DavJobs, NEW a \in Answers \ {"none"}, dav[j].at # "idle",
             a = "result" => dav[j].verb \notin Writes,
             Become(j, Done(j, a)), Quiet
      PROVE  DavInv'
  BY <1>3, DoneKeeps, BecomeKeeps
<1>4. ASSUME NEW j \in DavJobs, DavCredentialError(j) PROVE DavInv'
  BY <1>4, <1>3 DEF DavCredentialError, Answers
<1>5. ASSUME NEW j \in DavJobs, Requests(j), Quiet, NEW n \in Nat, NEW m \in Nat,
             Become(j, [dav[j] EXCEPT !.attempts = n, !.redirects = m])
      PROVE  DavInv'
  <2> DEFINE r == [dav[j] EXCEPT !.attempts = n, !.redirects = m]
  <2>1. /\ r \in JobRecord /\ r.at = dav[j].at /\ r.verb = dav[j].verb
        /\ r.etag = dav[j].etag /\ r.answer = dav[j].answer
        /\ r.applied = dav[j].applied /\ r.keeps = dav[j].keeps
    BY <1>0 DEF JobRecord
  <2>2. Become(j, r) /\ dav[j].at # "idle" /\ Quiet
    BY <1>5 DEF Requests
  <2> HIDE DEF r
  <2> QED
    BY <2>1, <2>2, OngoingKeeps, BecomeKeeps
<1>6. ASSUME NEW j \in DavJobs, DavRedirected(j) PROVE DavInv'
  <2>1. dav[j].at # "idle" /\ Quiet /\ Requests(j)
    BY <1>6 DEF DavRedirected, Requests
  <2>2. CASE Become(j, Done(j, "error"))
    BY <2>1, <2>2, <1>3 DEF Answers
  <2>3. CASE Become(j, [dav[j] EXCEPT !.redirects = @ + 1])
    <3>1. [dav[j] EXCEPT !.redirects = @ + 1] =
          [dav[j] EXCEPT !.attempts = dav[j].attempts, !.redirects = dav[j].redirects + 1]
      BY <1>0 DEF JobRecord
    <3>2. dav[j].attempts \in Nat /\ dav[j].redirects + 1 \in Nat
      BY <1>0 DEF JobRecord
    <3> QED
      BY <2>1, <2>3, <3>1, <3>2, <1>5
  <2> QED
    BY <1>6, <2>2, <2>3 DEF DavRedirected
<1>7. ASSUME NEW j \in DavJobs, DavChallenged(j) PROVE DavInv'
  <2>1. dav[j].at # "idle" /\ Quiet /\ Requests(j)
    BY <1>7 DEF DavChallenged, Requests
  <2>2. CASE Become(j, Done(j, "error"))
    BY <2>1, <2>2, <1>3 DEF Answers
  <2>3. CASE Become(j, [dav[j] EXCEPT !.attempts = @ + 1])
    <3>1. [dav[j] EXCEPT !.attempts = @ + 1] =
          [dav[j] EXCEPT !.attempts = dav[j].attempts + 1, !.redirects = dav[j].redirects]
      BY <1>0 DEF JobRecord
    <3>2. dav[j].attempts + 1 \in Nat /\ dav[j].redirects \in Nat
      BY <1>0 DEF JobRecord
    <3> QED
      BY <2>1, <2>3, <3>1, <3>2, <1>5
  <2> QED
    BY <1>7, <2>2, <2>3 DEF DavChallenged
<1>8. ASSUME NEW j \in DavJobs, DavDenied(j) PROVE DavInv'
  BY <1>8, <1>3 DEF DavDenied, Requests, Answers
<1>9. ASSUME NEW j \in DavJobs, DavDiscovered(j) PROVE DavInv'
  <2> DEFINE at == IF dav[j].verb = "update" THEN "get" ELSE "write"
             r == NextRequest(j, at)
  <2>1. CASE dav[j].verb = "fetch"
    BY <1>9, <2>1, <1>3 DEF DavDiscovered, Answers, Writes
  <2>2. CASE dav[j].verb # "fetch"
    <3>1. /\ r \in JobRecord /\ r.at = at /\ r.verb = dav[j].verb
          /\ r.etag = dav[j].etag /\ r.answer = dav[j].answer
          /\ r.applied = dav[j].applied
      BY <1>0 DEF JobRecord, NextRequest, Steps
    <3>2. Become(j, r) /\ dav[j].at = "discover" /\ Quiet
      BY <1>9, <2>2 DEF DavDiscovered
    <3> HIDE DEF r
    <3> QED
      BY <2>2, <3>1, <3>2, OngoingKeeps, BecomeKeeps
  <2> QED
    BY <2>1, <2>2
<1>10. ASSUME NEW j \in DavJobs, DavGot(j) PROVE DavInv'
  <2> DEFINE keeps == IF protocol = "carddav" THEN resource.extra ELSE "none"
             r == [NextRequest(j, "write") EXCEPT !.keeps = keeps]
  <2>1. CASE protocol = "caldav" /\ resource.extra = "exceptions"
    BY <1>10, <2>1, <1>3 DEF DavGot, Answers
  <2>2. CASE ~(protocol = "caldav" /\ resource.extra = "exceptions")
    <3>0. keeps \in Extras
      BY DEF DavInv, VersionInv, Extras
    <3>1. /\ r \in JobRecord /\ r.at = "write" /\ r.verb = dav[j].verb
          /\ r.etag = dav[j].etag /\ r.answer = dav[j].answer
          /\ r.applied = dav[j].applied /\ r.keeps = keeps
      BY <1>0, <3>0 DEF JobRecord, NextRequest, Steps
    <3>2. Become(j, r) /\ dav[j].at # "idle" /\ Quiet
      BY <1>10, <2>2 DEF DavGot
    <3>3. /\ r.applied = 0 /\ r.answer = "none" /\ r.etag \in 1..version
          /\ r.verb = "update"
      BY <1>10, <3>1, <3>2 DEF DavGot, DavInv, VerbInv, OnceInv, VersionInv
    <3>4. IF protocol = "carddav" THEN r.keeps = resource.extra
                                  ELSE resource.extra # "exceptions"
      BY <2>2, <3>1 DEF DavInv, VersionInv
    <3> HIDE DEF r
    <3>5. Kept(j, r)
      BY <3>1, <3>3, <3>4 DEF Kept, Writes
    <3> QED
      BY <3>2, <3>5, BecomeKeeps
  <2> QED
    BY <2>1, <2>2
<1>11. ASSUME NEW j \in DavJobs, DavWritten(j) PROVE DavInv'
  <2>1. CASE dav[j].verb = "query"
    <3> DEFINE r == [Done(j, "result") EXCEPT !.applied = 0]
    <3>1. r \in JobRecord /\ r.at = "idle" /\ r.verb = "query" /\ r.applied = 0
      BY <1>0, <2>1 DEF JobRecord, Done, Steps, Answers, Extras
    <3>2. Become(j, r) /\ Quiet
      BY <1>11, <2>1 DEF DavWritten
    <3> HIDE DEF r
    <3>3. Kept(j, r)
      BY <3>1 DEF Kept, JobRecord, Writes
    <3> QED
      BY <3>2, <3>3, BecomeKeeps
  <2>2. CASE dav[j].verb \in Writes
    <3>1. /\ Written(j) /\ dav[j].at = "write" /\ UNCHANGED protocol
          /\ Become(j, [Done(j, "result") EXCEPT !.applied = @ + 1])
      BY <1>11, <2>2 DEF DavWritten, Writes
    <3> QED
      BY <2>2, <3>1, WriteKeeps DEF Answers
  <2> QED
    BY <1>11, <2>1, <2>2 DEF DavWritten, DavInv, VerbInv
<1>12. ASSUME NEW j \in DavJobs, DavConflict(j) PROVE DavInv'
  BY <1>12, <1>3 DEF DavConflict, Answers
<1>13. ASSUME NEW j \in DavJobs, DavLost(j) PROVE DavInv'
  <2>1. CASE Become(j, Done(j, "error")) /\ UNCHANGED <<resource, version>>
    BY <1>13, <2>1, <1>3 DEF DavLost, Requests, Answers
  <2>2. CASE /\ dav[j].at = "write" /\ dav[j].verb \in Writes /\ Written(j)
             /\ Become(j, [Done(j, "error") EXCEPT !.applied = @ + 1])
    BY <1>13, <2>2, WriteKeeps DEF DavLost, Answers
  <2> QED
    BY <1>13, <2>1, <2>2 DEF DavLost
<1>14. ASSUME DavElsewhere PROVE DavInv'
  <2>1. /\ version' = version + 1 /\ version' \in Nat /\ version \in Nat
        /\ resource' \in [version: Nat, extra: Extras]
        /\ resource'.version \in {0, version'}
        /\ UNCHANGED <<protocol, dav>>
    BY <1>14 DEF DavElsewhere, DavInv, VersionInv
  <2>2. JobsInv' /\ VerbInv' /\ OnceInv'
    BY <2>1 DEF DavInv, JobsInv, VerbInv, OnceInv
  <2>3. VersionInv'
    BY <2>1 DEF DavInv, VersionInv
  <2>4. ReadInv'
    BY <2>1 DEF DavInv, ReadInv, VersionInv
  <2> QED
    BY <2>2, <2>3, <2>4 DEF DavInv
<1>15. ASSUME UNCHANGED davVars PROVE DavInv'
  BY <1>15 DEF davVars, DavInv, JobsInv, VerbInv, OnceInv, VersionInv, ReadInv
<1> QED
  BY <1>1, <1>2, <1>4, <1>6, <1>7, <1>8, <1>9, <1>10, <1>11, <1>12, <1>13,
     <1>14, <1>15 DEF DavNext

THEOREM DavInvariant == DavSpec => []DavInv
BY InitDav, StepDav, PTL DEF DavSpec

\* No request is tried, or redirected, more often than the client allows.
Bounded(r) == r.attempts <= MaxAuthAttempts /\ r.redirects <= MaxRedirects

CountersInv == protocol \in Protocols /\ \A j \in DavJobs : Bounded(dav[j])

LEMMA InitCounters == DavInit => CountersInv
BY DavAssumption DEF DavInit, NewJob, CountersInv, Bounded

\* Each answer of the server is counted against the limit it is checked by,
\* and the next request of the job starts afresh.
LEMMA StepCounters == DavInv /\ CountersInv /\ [DavNext]_davVars => CountersInv'
<1> SUFFICES ASSUME DavInv, CountersInv, [DavNext]_davVars PROVE CountersInv'
  OBVIOUS
<1>0. ASSUME NEW j \in DavJobs PROVE dav[j] \in JobRecord /\ Bounded(dav[j])
  BY DEF DavInv, JobsInv, CountersInv
<1>1. MaxRedirects \in Nat /\ MaxAuthAttempts \in Nat
  BY DavAssumption
<1>2. ASSUME NEW j \in DavJobs, NEW r, Become(j, r), Bounded(r), UNCHANGED protocol
      PROVE  CountersInv'
  BY <1>2 DEF Become, DavInv, JobsInv, CountersInv
<1>3. ASSUME NEW j \in DavJobs, NEW a PROVE Bounded(Done(j, a))
  BY <1>0, <1>1 DEF Done, JobRecord, Bounded
<1>4. ASSUME NEW j \in DavJobs, NEW a, NEW n
      PROVE  Bounded([Done(j, a) EXCEPT !.applied = n])
  BY <1>0, <1>1 DEF Done, JobRecord, Bounded
<1>5. ASSUME NEW j \in DavJobs, NEW at PROVE Bounded(NextRequest(j, at))
  BY <1>0, <1>1 DEF NextRequest, JobRecord, Bounded
<1>6. ASSUME NEW j \in DavJobs, DavTake(j) PROVE CountersInv'
  <2> PICK verb \in DavVerbs, etag \in 1..version :
        Become(j, [NewJob EXCEPT !.verb = verb, !.etag = etag, !.at = "fetching"])
    BY <1>6 DEF DavTake
  <2>1. Bounded([NewJob EXCEPT !.verb = verb, !.etag = etag, !.at = "fetching"])
    BY <1>1 DEF NewJob, Bounded
  <2> QED
    BY <2>1, <1>2, <1>6 DEF DavTake
<1>7. ASSUME NEW j \in DavJobs, DavClientReady(j) PROVE CountersInv'
  <2>1. Bounded([dav[j] EXCEPT !.at = "discover"])
    BY <1>0 DEF JobRecord, Bounded
  <2> QED
    BY <2>1, <1>2, <1>7 DEF DavClientReady
<1>8. ASSUME NEW j \in DavJobs, DavRedirected(j) PROVE CountersInv'
  <2>1. dav[j].redirects < MaxRedirects
          => Bounded([dav[j] EXCEPT !.redirects = @ + 1])
    BY <1>0, <1>1 DEF JobRecord, Bounded
  <2> QED
    BY <2>1, <1>2, <1>3, <1>8 DEF DavRedirected
<1>9. ASSUME NEW j \in DavJobs, DavChallenged(j) PROVE CountersInv'
  <2>1. dav[j].attempts < MaxAuthAttempts
          => Bounded([dav[j] EXCEPT !.attempts = @ + 1])
    BY <1>0, <1>1 DEF JobRecord, Bounded
  <2> QED
    BY <2>1, <1>2, <1>3, <1>9 DEF DavChallenged
<1>10. ASSUME NEW j \in DavJobs, DavGot(j) PROVE CountersInv'
  <2> DEFINE keeps == IF protocol = "carddav" THEN resource.extra ELSE "none"
  <2>1. Bounded([NextRequest(j, "write") EXCEPT !.keeps = keeps])
    BY <1>0, <1>1 DEF NextRequest, JobRecord, Bounded
  <2> QED
    BY <2>1, <1>2, <1>3, <1>10 DEF DavGot
<1>11. ASSUME NEW j \in DavJobs, DavWritten(j) PROVE CountersInv'
  <2> PICK n : Become(j, [Done(j, "result") EXCEPT !.applied = n])
    BY <1>11 DEF DavWritten
  <2> QED
    BY <1>2, <1>4, <1>11 DEF DavWritten
<1>12. ASSUME NEW j \in DavJobs, DavLost(j) PROVE CountersInv'
  <2>1. CASE Become(j, Done(j, "error"))
    BY <2>1, <1>2, <1>3, <1>12 DEF DavLost
  <2>2. CASE Become(j, [Done(j, "error") EXCEPT !.applied = @ + 1])
    <3> PICK n : Become(j, [Done(j, "error") EXCEPT !.applied = n])
      BY <2>2
    <3> QED
      BY <1>2, <1>4, <1>12 DEF DavLost
  <2> QED
    BY <1>12, <2>1, <2>2 DEF DavLost
<1>13. ASSUME NEW j \in DavJobs,
              DavCredentialError(j) \/ DavDenied(j) \/ DavConflict(j)
       PROVE  CountersInv'
  BY <1>13, <1>2, <1>3 DEF DavCredentialError, DavDenied, DavConflict
<1>14. ASSUME NEW j \in DavJobs, DavDiscovered(j) PROVE CountersInv'
  BY <1>14, <1>2, <1>3, <1>5 DEF DavDiscovered
<1>15. ASSUME DavElsewhere \/ UNCHANGED davVars PROVE CountersInv'
  BY <1>15 DEF DavElsewhere, davVars, CountersInv
<1> QED
  BY <1>6, <1>7, <1>8, <1>9, <1>10, <1>11, <1>12, <1>13, <1>14, <1>15 DEF DavNext

\* The jobs have their types, and no request outlasts its limits: at most
\* MAX_AUTH_ATTEMPTS challenges are answered and MAX_REDIRECTS redirections
\* followed for each request of each job, whatever the server sends.
THEOREM DavTypeCorrect == DavSpec => []DavType
<1>1. ASSUME DavInv, CountersInv PROVE DavType
  <2>1. ASSUME NEW j \in DavJobs
        PROVE  dav[j] \in [verb: DavVerbs \cup {"none"}, at: Steps, etag: Nat,
                           keeps: Extras, attempts: 0..MaxAuthAttempts,
                           redirects: 0..MaxRedirects, answer: Answers,
                           applied: Nat]
    <3>1. dav[j] \in JobRecord /\ Bounded(dav[j])
      BY <1>1 DEF DavInv, JobsInv, CountersInv
    <3>2. dav[j].attempts \in 0..MaxAuthAttempts /\ dav[j].redirects \in 0..MaxRedirects
      BY <3>1, DavAssumption DEF JobRecord, Bounded
    <3> QED
      BY <3>1, <3>2 DEF JobRecord
  <2>2. version \in Nat /\ resource \in [version: 0..version, extra: Extras]
    <3>1. /\ version \in Nat /\ resource \in [version: Nat, extra: Extras]
          /\ resource.version \in 0..version
      BY <1>1 DEF DavInv, VersionInv
    <3> QED
      BY <3>1
  <2>3. dav \in [DavJobs -> JobRecord]
    BY <1>1 DEF DavInv, JobsInv
  <2> QED
    BY <1>1, <2>1, <2>2, <2>3 DEF DavType, CountersInv, Steps, Answers
<1>2. DavSpec => []CountersInv
  BY InitDav, StepDav, InitCounters, StepCounters, PTL DEF DavSpec
<1> QED
  BY <1>1, <1>2, DavInvariant, PTL

\* The server carries a job out at most once, and exactly once if the job's
\* answer says so: with any number of jobs and retries of the digest.
THEOREM SuccessMeansWrittenOnceHolds == DavSpec => []SuccessMeansWrittenOnce
<1>1. DavInv => SuccessMeansWrittenOnce
  BY DEF DavInv, OnceInv, SuccessMeansWrittenOnce
<1> QED
  BY <1>1, DavInvariant, PTL

\* A write takes effect on the version that its client saw, and keeps what
\* Sockethub does not know: whoever else writes, and however often.
THEOREM AWriteReplacesWhatItsClientSawHolds ==
  DavSpec => AWriteReplacesWhatItsClientSaw
<1> DEFINE Saw(j) ==
      /\ resource.version = (IF dav[j].verb = "create" THEN 0 ELSE dav[j].etag)
      /\ dav[j].verb = "update" =>
           IF protocol = "carddav" THEN resource'.extra = resource.extra
                                   ELSE resource.extra # "exceptions"
<1>1. ASSUME DavInv, [DavNext]_davVars, NEW j \in DavJobs,
             dav'[j].applied # dav[j].applied
      PROVE  Saw(j)
  <2>1. ASSUME NEW k \in DavJobs, NEW r, Become(k, r), r.applied = dav[k].applied
        PROVE  FALSE
    BY <1>1, <2>1 DEF Become, DavInv, JobsInv
  <2>2. ASSUME NEW k \in DavJobs PROVE dav[k] \in JobRecord
    BY <1>1 DEF DavInv, JobsInv
  <2>3. ASSUME NEW k \in DavJobs, NEW a PROVE Done(k, a).applied = dav[k].applied
    BY <2>2 DEF Done, JobRecord
  <2>4. ASSUME NEW k \in DavJobs, dav[k].at = "write", dav[k].verb \in Writes,
               Written(k), NEW r, Become(k, r), UNCHANGED protocol
        PROVE  Saw(j)
    <3>1. k = j
      BY <1>1, <2>4 DEF Become, DavInv, JobsInv
    <3>2. resource.version = (IF dav[j].verb = "create" THEN 0 ELSE dav[j].etag)
      BY <2>4, <3>1 DEF Written, Matches
    <3>3. ASSUME dav[j].verb = "update"
          PROVE  IF protocol = "carddav" THEN resource'.extra = resource.extra
                                         ELSE resource.extra # "exceptions"
      BY <1>1, <2>4, <3>1, <3>2, <3>3 DEF Written, DavInv, ReadInv
    <3> QED
      BY <3>2, <3>3
  <2>5. ASSUME NEW k \in DavJobs, DavTake(k) PROVE FALSE
    <3> PICK verb \in DavVerbs, etag \in 1..version :
          Become(k, [NewJob EXCEPT !.verb = verb, !.etag = etag, !.at = "fetching"])
      BY <2>5 DEF DavTake
    <3>1. [NewJob EXCEPT !.verb = verb, !.etag = etag, !.at = "fetching"].applied = 0
      BY DEF NewJob
    <3>2. dav[k].applied = 0
      BY <1>1, <2>5 DEF DavTake, DavInv, OnceInv
    <3> QED
      BY <2>1, <3>1, <3>2
  <2>6. ASSUME NEW k \in DavJobs,
               DavClientReady(k) \/ DavCredentialError(k) \/ DavRedirected(k)
               \/ DavChallenged(k) \/ DavDenied(k) \/ DavDiscovered(k)
               \/ DavGot(k) \/ DavConflict(k)
        PROVE  FALSE
    <3>1. \E r : Become(k, r) /\ r.applied = dav[k].applied
      <4>1. \A a : Done(k, a).applied = dav[k].applied
        BY <2>3
      <4>2. CASE DavClientReady(k)
        BY <2>2, <4>2 DEF DavClientReady, JobRecord
      <4>3. CASE DavCredentialError(k) \/ DavDenied(k) \/ DavConflict(k)
        BY <4>1, <4>3 DEF DavCredentialError, DavDenied, DavConflict
      <4>4. CASE DavRedirected(k)
        <5>1. [dav[k] EXCEPT !.redirects = @ + 1].applied = dav[k].applied
          BY <2>2 DEF JobRecord
        <5> QED
          BY <4>1, <4>4, <5>1 DEF DavRedirected
      <4>5. CASE DavChallenged(k)
        <5>1. [dav[k] EXCEPT !.attempts = @ + 1].applied = dav[k].applied
          BY <2>2 DEF JobRecord
        <5> QED
          BY <4>1, <4>5, <5>1 DEF DavChallenged
      <4>6. ASSUME NEW at PROVE NextRequest(k, at).applied = dav[k].applied
        BY <2>2 DEF JobRecord, NextRequest
      <4>7. CASE DavDiscovered(k)
        BY <4>1, <4>6, <4>7 DEF DavDiscovered
      <4>8. CASE DavGot(k)
        <5>1. ASSUME NEW keeps
              PROVE  [NextRequest(k, "write") EXCEPT !.keeps = keeps].applied
                       = dav[k].applied
          BY <2>2 DEF JobRecord, NextRequest
        <5> QED
          BY <4>1, <4>8, <5>1 DEF DavGot
      <4> QED
        BY <2>6, <4>2, <4>3, <4>4, <4>5, <4>7, <4>8
    <3> QED
      BY <2>1, <3>1
  <2>7. ASSUME NEW k \in DavJobs, DavWritten(k) PROVE Saw(j)
    <3>1. CASE dav[k].verb = "query"
      <4>1. [Done(k, "result") EXCEPT !.applied = 0].applied = dav[k].applied
        BY <1>1, <2>2, <2>7 DEF DavWritten, DavInv, OnceInv, Done, JobRecord
      <4> QED
        BY <2>1, <2>7, <3>1, <4>1 DEF DavWritten
    <3>2. CASE dav[k].verb # "query"
      BY <1>1, <2>4, <2>7, <3>2 DEF DavWritten, DavInv, VerbInv
    <3> QED
      BY <3>1, <3>2
  <2>8. ASSUME NEW k \in DavJobs, DavLost(k) PROVE Saw(j)
    BY <2>1, <2>3, <2>4, <2>8 DEF DavLost
  <2>9. CASE DavElsewhere \/ UNCHANGED davVars
    BY <1>1, <2>9 DEF DavElsewhere, davVars
  <2> QED
    BY <1>1, <2>5, <2>6, <2>7, <2>8, <2>9 DEF DavNext
<1> DEFINE Step == \A j \in DavJobs : dav'[j].applied # dav[j].applied => Saw(j)
<1>2. DavInv /\ [DavNext]_davVars => [Step]_davVars
  BY <1>1
<1> QED
  BY <1>2, DavInvariant, PTL DEF DavSpec, AWriteReplacesWhatItsClientSaw
=============================================================================
