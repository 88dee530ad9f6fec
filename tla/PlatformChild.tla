---------------------------- MODULE PlatformChild ----------------------------
(***************************************************************************)
(* The job handler of the process that runs a persistent platform          *)
(* (getJobHandler in packages/server/src/platform.ts), which IrcPlatform   *)
(* and XmppPlatform fill with the verbs of their platform. A persistent    *)
(* platform takes its jobs one at a time, a verb that needs credentials    *)
(* first reads them from the store of the session that sent the job, and   *)
(* every other verb needs an initialized platform. Who sent a job shows    *)
(* only in the credentials the store returns for it.                       *)
(***************************************************************************)
EXTENDS Naturals, FiniteSets

CONSTANTS
  Credentials,    \* told apart by their hashes
  NoCredentials,
  MaxJobs         \* bound: jobs one process is given

ASSUME ChildAssumption ==
  NoCredentials \notin Credentials /\ MaxJobs \in Nat

VARIABLES
  up,           \* the process runs
  initialized,  \* platform.isInitialized()
  hash,         \* platform.credentialsHash
  job,          \* the job in progress, or the last one and how it was answered
  taken         \* the jobs taken so far

childVars == <<up, initialized, hash, job, taken>>

Idle(with, answer) ==
  [verb |-> "none", on |-> "none", with |-> with, at |-> "idle", answer |-> answer]

ChildInit ==
  /\ up = TRUE /\ initialized = FALSE /\ hash = NoCredentials
  /\ job = Idle(NoCredentials, "none") /\ taken = 0

Busy(at) == up /\ job.at = at
MayTake  == Busy("idle") /\ taken < MaxJobs

\* The promise of the handler is settled: with a "result", or an "error", or
\* as "unauthorized", when the parent is also told to drop the session.
Settle(with, answer) == job' = Idle(with, answer)

Await(verb, on, with, at) ==
  job' = [verb |-> verb, on |-> on, with |-> with, at |-> at, answer |-> "none"]

\* wrappedCallback: a verb with credentials that succeeds makes them the ones
\* that every later job has to present.
Succeed(with) ==
  /\ Settle(with, "result")
  /\ hash' = IF with = NoCredentials THEN hash ELSE with

Fail(with) == Settle(with, "error") /\ UNCHANGED hash

(* A verb that needs credentials: credentialStore.get(), which answers later. *)
TakeWithCredentials(verb) ==
  /\ MayTake
  /\ taken' = taken + 1
  /\ Await(verb, "none", NoCredentials, "fetching")
  /\ UNCHANGED <<up, initialized, hash>>

\* Mutant of Proves: whoever has credentials is let in.
ProvesAnything(c) == c \in Credentials

\* What get() lets through: an entry, and the one this process was opened with.
Proves(c) == c \in Credentials /\ hash \in {NoCredentials, c}

\* .catch(): Redis fails, there is no entry, it is another one, or the verb
\* itself throws before it returns.
CredentialError ==
  /\ Busy("fetching")
  /\ Settle(NoCredentials, IF initialized THEN "unauthorized" ELSE "error")
  /\ UNCHANGED <<up, initialized, hash, taken>>

TakeUninitialized(verb) ==
  /\ MayTake /\ ~initialized
  /\ taken' = taken + 1
  /\ Settle(NoCredentials, "error")
  /\ UNCHANGED <<up, initialized, hash>>

\* The parent ends the process, or loses it.
ChildEnds ==
  /\ up /\ up' = FALSE
  /\ UNCHANGED <<initialized, hash, job, taken>>

ChildType ==
  /\ up \in BOOLEAN /\ initialized \in BOOLEAN
  /\ hash \in Credentials \cup {NoCredentials}
  /\ taken \in 0..MaxJobs
=============================================================================
