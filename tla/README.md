# Sockethub: models, checks and proofs

Sockethub is a gateway between web clients and messaging protocols. A client
sends ActivityStreams messages over socket.io or HTTP; the server validates
them, stores credentials, finds or forks the *platform* child process for the
message's actor, queues the message as a job in Redis for that child, and
delivers the child's answer and what the protocol sends on its own. This
directory models the parts of that program that carry its own logic, checks
them with TLC on small instances, and proves the most important facts about
them with TLAPS. All paths below are relative to `src/`.

    tlc -workers 2 -config lifecycle_janitor.cfg MCPlatformLifecycle
    tlapm PlatformLifecycle_proofs.tla

`PROJECT.json` lists every run with its module, configuration and properties,
the source lines of every definition, the hazards and the findings.

## 1. The system

| Part | State | Operations | Talks to |
| --- | --- | --- | --- |
| Server shell (`packages/server/src/sockethub.ts`, `listener.ts`) | the sockets, connection counts | a connection's set-up and end, the per-socket middleware chains, boot, shutdown | everything below, by calls |
| Message middleware (`middleware.ts`, `middleware/*`, `message-handlers.ts`) | none but the chain | validate, normalise, store credentials, hand a message to a platform | ProcessManager, a platform's queue, the credentials store |
| Process manager (`process-manager.ts`) | `ensureChains`, the global map `platformInstances` | `get()` with a chain per identifier, fork, reuse, replacement, cap | connection scopes, platform instances |
| Platform instance (`platform-instance.ts`) | `flaggedForTermination`, `initialized`, `replaced`, `teardownPromise`, sessions, listeners, completion handlers, the heartbeat monitor | register a session, job results, messages and close of the child, heartbeat timeout, shutdown and teardown | its child (IPC, signals), its queue (Redis), the sockets |
| Janitor (`janitor.ts`) | the cycle in progress | a timer's sweep over `platformInstances` | sockets, the HTTP counts, `shutdown()` |
| Connection scopes (`connection-scope.ts`, `middleware/store-credentials.ts`) | `pendingScopes`, `anonymousScopes` | install and settle a credentials promise, resolve a scope, remember, reassign, forget | the credentials store, the process manager |
| Job queue and worker (`packages/data-layer/src/job-*.ts`) | Redis lists and flags, the counter of titles | add, pause, resume, obliterate, process, results | Redis; parent and child |
| Platform child (`platform.ts`) | the platform object, its parameters, the heartbeat | start up, job handler, change of actor, fatal errors | IPC, Redis, the protocol |
| Credentials store (`packages/data-layer/src/credentials-store.ts`) | a namespace of Redis per session | save, get with a hash check, teardown | Redis |
| HTTP actions (`http/actions.ts`, `http/session-registry.ts`) | requests in flight, idempotency keys and results in Redis | a request with several messages, time-outs, replays | process manager, Redis |
| Rate limiter, connection slots (`rate-limiter.ts`, `sockethub.ts`) | counters per socket and address | admit or refuse | sockets |
| Client (`packages/client/src`) | the offline queue, the sent credentials, the ready state | send, replay after a reconnect | the server's sockets |
| IRC, XMPP, feeds, metadata, CalDAV, CardDAV (`packages/platform-*`) | a protocol connection | connect, send, join, leave, query, disconnect | the remote service |

Data and wording (schemas, the conversion of calendars and cards, logging,
configuration, start-up code, examples) have no protocol of their own.

What is hard about it:

* **Interleaving.** The server is one event loop: what runs between two awaits is
  atomic, and everything else interleaves. `get()`, a teardown, a job result and
  a janitor cycle each yield several times and touch the same instance.
* **Failure.** A child crashes, hangs or reports a fatal error at any moment;
  its exit, its `close` event, the heartbeat's deadline, the janitor's verdict
  and the next message that finds it dead come in any order. Redis rejects any
  of the teardown's calls half way.
* **Names that outlive objects.** A replacement shares the identifier and the
  Redis queue of the instance it replaces; flags (a paused queue), records (a
  resumable scope) and events of the old one meet the new one.
* **Time.** The janitor's two determinations, the heartbeat's timeout, the
  HTTP time-outs and the client's refresh race one another.

## 2. Modules

| Module | What it is |
| --- | --- |
| `PlatformLifecycle` | instances, children, `get()`, teardown, janitor, heartbeat, HTTP counts |
| `QueueOwnership` | what the lifecycle promises about the queue of one identifier |
| `MCPlatformLifecycle` | instances of it for TLC |
| `PlatformLifecycle_proofs` | the theorems |
| `ConnectionScope` | which worker a message goes to |
| `MCConnectionScope`, `ConnectionScope_proofs` | its instances, its theorems |
| `JobRouting` | how a message becomes a job and its result finds its way back |
| `MCJobRouting`, `JobClaims` | its instance, and what comments claim of it |
| `JobRouting_proofs` | its theorems |
| `HttpActions` | requests over HTTP, their request ids, streams and replays |
| `MCHttpActions`, `HttpActions_proofs` | its instance, its theorems |
| `SockethubClient` | the client library: handshake, queue and replay |
| `MCSockethubClient`, `SockethubClient_proofs` | its instance, its theorems |
| `PlatformChild` | the job handler of a persistent platform's process |
| `IrcPlatform`, `XmppPlatform` | the two platforms that keep a connection, on top of it |
| `DavPlatform`, `DavPlatform_proofs` | CalDAV and CardDAV, on the server that others write to; its theorems |
| `Platforms`, `MCPlatforms`, `Platforms_proofs` | one process with the platform it was started for; its instance and theorems |
| `RateLimiter` | the rate limiter |
| `ServerShell`, `MCServerShell`, `ServerShell_proofs` | the server around its sockets, with it; its instance and theorems |

`PlatformLifecycle` is the core: it has the awaits of `get()` and of the teardown
one by one. `ConnectionScope` and `JobRouting` each take from it what they need
of an instance's life (dead, torn down, replaced) in larger steps and detail
another side: whose worker it is, and whose job. `HttpActions` and
`SockethubClient` are the two ways into the server: for the first, everything
behind a message's callback is an answer that comes or does not come; for the
second, the server is what answers the request for the registry. `Platforms` is
the other end, what a job meets once the worker of `JobRouting` has taken it;
`ServerShell` is what stands before the first handler of a socket.

### 2.1 PlatformLifecycle

An *identifier* names a persistent instance (platform, actor and scope) or a
global one; an *instance* is one `PlatformInstance` object. The objects that one
identifier has in the course of a run come from a finite set, and one object is
born at most once, so a bound on objects bounds the replacements.

* `platformInstances` is the map of the code. Each object keeps the flags of the
  class (`flaggedForTermination`, `initialized`, `replaced`, config set or
  not, `sessionIds`), the stage of its teardown, and the state of its child
  (up, hung, exited but its `close` event still queued, closed).
* `Get`, `EnsureReuses`, `EnsureRefused`, `EnsureCreates`, `EnsureReplaces`,
  `EnsureCreatesAfterTeardown` and `GetReturns` are the pieces of
  `ProcessManager.get()` between its awaits. `AtHead` is the chain of
  `ensureProcess`: a run starts when the one before it has settled.
* `Shutdown` and the `Teardown...` actions are `shutdown()` up to its first
  await, and every Redis call of `teardown()`; `TeardownFails` is Redis'
  rejection, after which the entry goes all the same.
* `ChildExits`, `ChildHangs`, `ChildReportsFatal` are the child;
  `HandleProcessClose`, `HandleErrorMessage`, `HeartbeatTimeout` are what the
  parent makes of it.
* `TakeCredentialResult`, `CredentialJobSucceeds`, `CredentialJobFails` and
  `CredentialFailurePaused` are `handleJobResult()` on the result of a `connect`
  job, with its awaits.
* `JanitorStarts`, `JanitorChecks`, `JanitorEnds`, `JanitorResumes` and
  `GiveUpCycle` are one cycle, an await per instance.

`QueueOwnership` says what all this is for: the Redis queue behind an
identifier has one owner at a time; the owner alone destroys what is queued; a
successor begins only after the owner has let go. `PlatformLifecycle`
implements it under a refinement mapping, in TLC's run `lifecycle_replacement`
and as a theorem.

### 2.2 ConnectionScope

Sessions are socket ids or the single-use sessions of HTTP requests, a secret is
the fingerprint of the submitted credentials, a worker is an actor and a scope.
`turn` holds the messages that run in the current task: a message that only
awaits settled promises goes on before the next event, one that awaits Redis
does not. `ResolveConnectionScope` is `resolveConnectionScope()` with
`anonymousScope()`; `EnsureAttaches` and `EnsureAwaitsTeardown` are
`ensureProcessNow()` with `rememberAnonymousScope()`; `Rekey` is
`updateIdentifier()`. A worker has the states of an instance that matter here:
`up`, `dying` (its teardown began, its child still lives), `crashed` (dead,
nobody has noticed), `ending` (dead, its teardown runs). The cap on instances,
the janitor's choice of whom to end and sessions that leave a worker are left
out: a teardown may start at any time, which covers every reason for one.

### 2.3 JobRouting

A *request* is one message on its way through the last handler of
`message-handlers.ts`: `get()` (here one step: `GetReuses`, `GetForks`, or
`GetReplaces` to shut a dead instance down first), `JobQueue.add()` with its
`isPaused()` (`CheckPaused`) and its `add` (`Add`, together with
`registerCompletedJobHandler()` and its pruning, which may hit any older
handler), or the refusal of a closed or paused queue. The Redis queue belongs
to the *name*, the counter of titles, the handlers and the event listeners
belong to the *instance*; that difference is what the module is about. `Take`,
`Finish` and `Stalled` are BullMQ's worker; `HandleResult` is the queue's event
listener with `handleJobResult()`; `Shutdown`, `Pause`, `Obliterate` and `Close`
are the teardown; `ReportActor` and `UpdateIdentifier` are the two ends of
`updateActor()`. Whether a job succeeds or fails is left out: titles and
handlers treat both alike (what a failed credential job does to the instance is
in `PlatformLifecycle`). After `ReportActor` the child waits for its own job: no
action of the module ends that, and `JobClaims` adds the one that the code
waits for, `ListenAnew`, which TLC finds is never reached.

### 2.4 HttpActions

All requests carry one body, a sequence of payloads of the three kinds that
`classifyPayload()` tells apart, and each arrives as a GET, a POST with the one
request id, or a POST without. Redis keeps a status and a list of lines for the
id. `Claim` is `SET NX`, `Read`, `ClaimAgain` and `Clear` are the calls that follow
a refused or granted claim; a run goes on in `Proceed` (the loops over
credentials and messages, with the route handler's check between them), in
`WriteResults` (`writeResult()`: the lines go to the response and to
`redisWriteChain`) and in `Complete` and `Finish` (`completeRequest()`,
`cleanup()`, `closeResponse()`). The chain of writes is a sequence that Redis
works off one by one (`RedisAppends`, `RedisCompletes`), as the code's chain of
promises does. `CredentialsAnswered`, `GetReturns` and `MessageAnswered` are the
callbacks, which may come late or never; `Timeout` is both timers of
`scheduleRequestTimeout()`; `Disconnect` is the request's `close`. A fault is a
call that Redis rejects or that the client library sends a second time after a
broken connection (`credentials-store.ts:18-42` sets no limit of retries and
no offline queue). `Crash` ends all requests, `Expire` the two keys: they are two
in Redis, and expire together here; neither does while a request has the id,
since their time to live is set anew by every write and is longer than a
request's time-outs by default. The refusals before a request does anything
(400, 413, the rate limit, CORS) and the lengths of the time-outs are left out.

### 2.5 SockethubClient

A message is emitted once and has a kind, the key of `getKey()`, and is valid or
not. `queue` is `outboundQueue`, each entry with the verdict whether it is too old;
`traffic` has the three maps kept for replay, in JavaScript's order of
insertion, and what became of the messages. `Emit` is `handlePublicEmit()`;
`Connect` and `Disconnect` are the socket's events, with
`startInitialization()`; `InitTimeout` is its timer; `RegistryArrives` is
`handleSchemasPayload()` with the whole of `markReady()`: the listeners of "ready"
(which may emit a message there and then), the callers of `ready()`, the
replay, the queue. The server's answer is its registry, or "unchanged" for one
whose fingerprint the client has named. Left out are answers that are no
registry and a registry the server would push (the repository's server does
neither) and calls of `ready()` that give up by themselves.

### 2.6 PlatformChild, IrcPlatform, XmppPlatform

`PlatformChild` is `getJobHandler()`. A persistent platform has one worker with
one job at a time, so `job` is a single record: the verb, where it waits
(`at`), and how the last one was answered. `Settle` is the promise of the
handler, `Succeed` the wrapped callback that makes a job's credentials those of
the process (`hash`), `Proves` what `CredentialsStore.get()` lets through.
Credentials stand for their hash: two sessions are told apart by nothing else.

`IrcPlatform` adds `packages/platform-irc`. `CallVerb` is a verb once there is a
client, `WhenClient` and `WithoutClient` are the halves of `getClient()`,
`IrcConnected`, `IrcRefused` and `IrcCloses` the outcomes of `ircConnect()`.
The wire is two sequences: lines to the server (`sent`) and what its lines mean
to the platform (`received`): an activity whose actor is the connection's own, an
error, a PONG. `IrcServerJoins`, `...Parts`, `...Renames`, `...Refuses` and
`...Answers` are the server (external), which acts on one line at a time; what it
says goes through `packages/irc2as`, of which the model has those three
outcomes. `IrcHears` is `registerListeners()`: any own activity and any PONG
completes the oldest entry of `jobQueue`, and an error reply ends the process,
since irc2as gives it no object and the listener reads its content (`index.ts:719`).

`XmppPlatform` adds `packages/platform-xmpp`. Client objects are numbered as they
are made; `current` is `__client`. The object (external) reconnects by itself
until it is stopped, and its events reach the platform whichever client it has
by then: `XmppStarted` gives the handlers to `current`, `XmppFatalError` stops
`current`, `XmppOffline` drops it. Incoming stanzas are left out.

### 2.7 DavPlatform, Platforms

The DAV platforms keep nothing between jobs, so several run side by side. One
exchange of a request and its response is a step; the server (external) is one
resource with a version for its etag and the kind of its other content (`extra`:
none, properties Sockethub does not know, exceptions to a recurrence). A job goes
through discovery, the GET of an update and its write; `DavRedirected`,
`DavChallenged`, `DavDenied` and `DavLost` are the other ends of an exchange,
`DavLost` with the write carried out or not. `DavElsewhere` is another program.
`Platforms` composes the three: a process was started for one of them, and the
variables of the others stand still.

### 2.8 RateLimiter, ServerShell

`RateLimiter` is `rate-limiter.ts` with instants as distances to the present:
`age` is `now - windowStart`, `left` is `blockedUntil - now`, `LimiterTicks`
moves time on for everybody. Two histories, the events let through by their age
(`recent`) and what is left of a block that a client was told of (`barred`), say
what the map alone does not once its cleanup has forgotten a client. `UpTo` sums
the first by age, and `Admitted` is what it sums to over a window.

`ServerShell` is `handleIncomingConnection()` with its slots, its rate limiter
and its credential key, and the shutdown. Sessions and the purge share one Redis
connection: `wire` is the order of the commands written to it. `Connects`,
`IsRejected`, `Disconnects`, `CredentialsArrive` are the socket's handlers;
`SaveIsDone`, `TearDownIsDone`, `ScanIsDone`, `DeleteIsDone` are Redis working
off the wire; `Signalled`, `PurgeStarts`, `PurgeProceeds`, `PurgeEnds` are the
loop of `purgeCredentialsStoreKeys()`, once per signal, as SIGTERM and SIGINT
each start it while sockets go on to come and save. While the link is down a
command is refused at once (the client has no offline queue) and what was under
way is sent again later. A run starts with one of `Loads`, which says which
sockets and signals there are and whether time goes on; every load is
explored with all interleavings.

## 3. What the runs check

| Run | Instance | Shows |
| --- | --- | --- |
| `lifecycle_replacement` | 1 identifier, 2 objects at a time, a socket, HTTP requests, a Redis failure, fairness | no orphan, one destroyer of the queue, an entry leaves with its own teardown, `QueueOwnership`, every `get()` settles |
| `lifecycle_janitor` | a persistent and a global identifier, 2 objects, cap 1, HTTP requests, a credential job, fairness | `TypeOK`; `OnlyUselessIsEnded`: nothing but its child's failure, a failed `connect` or two determinations of the janitor ends an instance; unused instances go, paused queues do not stay |
| `scope_credentials` | 2 sockets, with and without a secret, 2 promises, 2 replies in flight | a connected session's own worker is private; a message follows the credentials submitted before it |
| `scope_rekey` | 2 sockets, 2 actors | resumption records follow their worker |
| `scope_live` | a socket and an HTTP request, fairness | `TypeOK`; every message settles |
| `jobs` | 2 messages, one of which changes the actor, 2 objects, 2 identifiers, fairness | `TypeOK`; only jobs of another object mislead a callback; replacements keep their jobs; messages in service are answered |
| `http` | 2 requests, a body with a payload of each kind, batches of 2, one fault, crash, expiry, fairness | `TypeOK`; an id runs once; messages follow their credentials; queued work holds its platform; a replay is the stream; every request ends |
| `client` | 4 messages (one invalid), 3 connections, 2 registries, a queue of 2, a call of `ready()`, fairness | `TypeOK`; every message is sent once or answered; the session is restored first and messages keep their order; a ready client has its server's registry; nothing waits for ever |
| `platforms` | IRC: 2 channels, 4 jobs, 3 accounts, a kick; XMPP: 1 room, 2 client objects, a lost connection; DAV: 2 jobs, 3 versions, both protocols; fairness | `TypeOK`; joined channels and rooms are the server's; a success is on the connection its credentials opened; a DAV success is one write; a write replaces what its client saw; every job settles where the code has a way out |
| `shell` | 3 sockets of one address with 2 slots; 2 sockets, 2 signals, an outage, a foreign key; a socket with one event per window and the time | slots, gauge and limiter agree with the sockets; credential keys go with their session and with the server; no event passes a block, nor more than two windows' worth a window |

Two runs check what a comment or a document of the repository says and find an
execution of the code that breaks it; `PROJECT.json` quotes the lines and says
what happens: `claim_answer` (a result that completes another request's
callback) and `claim_actor_change` (the listener waits for the job that waits for
it).

Other differences between comments and code met while modelling, each a trace
of the models, not kept as runs:

* `janitor.ts:22-24` speaks of two determinations in a row; nothing but a
  successful credential job clears `flaggedForTermination`, so an instance that
  was found in use in between is ended at one later determination.
* `platform-instance.ts:610-613` takes `flaggedForTermination` to mean that a
  close was expected; the janitor sets it on an idle instance long before it
  ends anything, and a crash after a socket has joined again is not reported.
* `platform-instance.ts:532-535` says that every session of an instance is told
  when it is lost; if a `get()` finds the dead child before its `close` event,
  `markReplaced()` and the teardown take the listener off and nobody is.
* `connection-scope.ts:270-272` and `process-manager.ts:184-186` say that a scope
  never outlives its worker; an instance that is being torn down but whose child
  still lives is reused and its scope recorded once more.
* `process-manager.ts:157-160` counts the instances before the await of a dead
  predecessor's teardown, so two identifiers may both find room for one more;
  with a cap of 1 the map then holds two.
* `platform-instance.ts:717` leaves a flagged instance to the janitor, and the
  janitor leaves one alone that has sessions again: a child that hangs after a
  session has come back to a flagged instance is ended by neither.
* `connection-scope.ts:15-16` and `288-290` say that anonymous sessions never share
  a worker. Records are checked when a scope is resolved and claimed when the
  instance is there: two connected sessions that inherit the record of one
  that has gone, while its dead worker is torn down, are registered with the one
  worker forked in its place.
* `http/actions.ts:697-705` answers a rejected `DEL` with 503 but leaves the claim:
  retries of that request are refused with 409 until the key expires. A write
  that Redis rejects or receives twice makes the replay differ from the stream.
* `sockethub-client.ts:757` replays on the first connection too, where its
  documentation speaks of reconnections: what a listener of "ready" emits
  there is stored and replayed at once, so the server receives it twice, and it
  overtakes what was queued before.
* `sockethub-client.ts:814` reports `retrying: true` for a payload that is no
  registry, and nothing asks again before the next connection.
* `sockethub-client.ts:551-558`: a "disconnect" forgets the connect, not the
  joins, which are replayed without it.
* `connection-scope.ts:245-251` checks that an inherited record is not one's own;
  a second tab with a worker of its own is still led to the first tab's scope by
  its next action once that tab is closed.

* `http/actions.ts:735`: `onPlatformInstance()` registers the request with the
  instance whenever `get()` returns, also when the request has timed out and
  been cleaned up in the meantime; nothing takes that registration back, and
  the janitor spares the instance, where `session-registry.ts:2-3` says that a
  platform counts as in use while requests are in flight.
* `janitor.ts:94` exempts global platforms: if the teardown of one fails after the
  queue was paused, its successor finds the queue paused and the janitor never
  takes it away.
* `sockethub.ts:214-216` wants no key left under a prefix that no boot knows:
  sockets stay connected during the purge, and a key they save after the scan
  has passed stays until it expires.
* `rate-limiter.ts:54`: the cleanup goes by the age of the window. With a block
  longer than the stale threshold less a window (the schema sets no such limit) a
  block would be forgotten; `RateAssumption` excludes it.
* `platform-irc/src/index.ts:641`: a connection that closes leaves `this.client`
  and the queued callback. The job waits for ever, and with it every later one of
  that process; `forceDisconnect` stays set, so that no later connect succeeds.
* `platform-irc/src/index.ts:377`: the handler of a rename awaits `updateActor()`,
  which awaits the end of the job it belongs to (`claim_actor_change`).
* `platform-irc/src/index.ts:719`: an error reply of the server has no object, so the
  listener throws and the process ends, with the sessions that share it.

**Bounds.** `MaxCredentialJobs`, `MaxHttp`, `MaxRedisFailures` (lifecycle) and
`MaxReplies` (scopes) bound counters in guards; `MaxInstances` is the
configured cap, 0 for none, and 1 in the runs that check it, so that it binds.
A `PlatformInstance` object whose teardown has ended and that nobody refers to
any more may be used for a later birth, so two objects are a dead one and its
replacement at any point of an unbounded chain of replacements. A socket and the HTTP caller are
two runs of `get()`, which is every order of a chain of two; a third caller
would wait behind the second. For scopes the cases are a holder of a record and
one that inherits it; two promises are enough for new credentials to overtake
old ones. In `JobRouting` objects are born once: an instance and its successor,
whose counters both start at 0, and two messages are enough for a title to come
twice (three messages were explored as well: 6 million states, no violation).

In `HttpActions` a retry of an id meets the run it repeats in every phase, three
payloads are one of each kind, and a batch of two makes a replay take several
reads; one fault at a time is what the code's error paths are written for. In
`SockethubClient` a queue of two overflows with three messages, a second connection
replays the first one's session, and a third follows one that broke before it
was ready. In `Platforms` four jobs are a connect, two verbs that overlap with
the answers of the one before, and a connect of another session or a disconnect
(`MaxJobs`); two XMPP clients are the one that is left and the one that is
there (`MaxClients`, `MaxDrops`), and one kick removes the user behind a job's back
(`MaxKicks`). Of the DAV platforms two jobs and another program meet at one
resource over `MaxVersion` = 3 versions; `MaxRedirects` is 1 instead of 5,
`MaxAuthAttempts` 2 as in the code. In `ServerShell` the third socket finds its address full;
the numbers of the rate limiter are the smallest that keep the order of the
defaults (an event per window, window < block < stale threshold);
`MaxWire` = 3 lets a save, a delete and a command of the purge queue up
(`MaxOutages` outages in between). Only the two lifecycle runs check for
deadlock: there instances come and go without end. In every other run the
requests, jobs or messages are numbered and each is made once, or the process
may end, so that a run out of work stops where the system would idle; what must
not be left waiting is what the liveness properties of section 3 say.

**Fairness.** Weak fairness of the steps that the event loop has been given
(promise continuations, timers that are set); of Redis' answers, because the
client library retries or rejects; of a dead child's `close` event and of
the end of a child that was sent its signal (the child sets no handler for SIGTERM). Nothing is assumed of the child's health, of clients, or of
Redis succeeding. `ConnectionScope` needs strong fairness for Redis' answers and
ends of teardowns, since its `turn` makes them wait while a task runs: the event
loop polls its sources in turn, so an answer that is there between any two tasks
is taken up. In `JobRouting` the worker takes jobs and a job it runs ends;
`EveryMessageIsAnswered` promises nothing for a child that is dead or torn down,
nor once a change of the actor is under way. In
`HttpActions` Redis answers or rejects and timers that are set go off; nothing is
assumed of the callbacks, whose absence the time-outs are for. In
`SockethubClient` the server answers a request for the registry that reaches it
(its handler is synchronous); nothing is assumed of connections, which may
break for ever. In `Platforms` Redis answers, timers go off, a connection attempt
of a client object succeeds or fails (socket time-outs), the IRC server acts on what it is sent
and its lines arrive, and every DAV request has its time-out. Nothing makes an
open IRC connection close, and nobody has to send a job: `EveryJobSettles`
names the two places where the code gives a job no way out (`WithoutAWayOut`).
`ServerShell` promises nothing that needs fairness.

## 4. What is proved

Every type invariant, safety invariant and action property that a passing run
checks, and the refinement of `QueueOwnership`, is also a theorem: the runs show
them on small instances, the theorems for every value of the constants that the
modules' `ASSUME`s admit. Each proof finds an inductive invariant first, of
which the property is a part or a consequence; what is needed beyond the property
itself is what the paragraphs below explain.

### 4.1 Platform lifecycle, scopes, jobs

`PlatformLifecycle_proofs`, for every set of identifiers, sessions and
instances and every bound:

* `TypeCorrect`: the type invariant;
* `NoOrphanHolds`, `QueueDestroyerIsAloneHolds`: the two safety invariants;
* `EntryLeavesHolds`, `OnlyUselessIsEndedHolds`: the two action properties;
* `OwnershipImplemented`: `PlatformLifecycle` implements `QueueOwnership`.

The assumptions are those of the module's `ASSUME`, on its constants. The
invariant `IInv` is `TypeOK`, `MapInv`, `ChainInv` and `HttpInv`. None of the
safety invariants is inductive alone. That an object whose teardown has not
begun is in the map depends on nobody overwriting the entry, hence on where
every run of `get()` is: a run that awaits a dead predecessor's teardown is
alone at the head of its chain (`ChainInv`), and the entry it waits for can only
be the one it has marked (`MapInv`). `HttpInv` relates the counts to the requests
that hold them, which the type of the counts needs. The proof of each part goes
action by action; the actions fall in a few classes by which of the variables
they touch, and a lemma per class carries those that disturb nothing. An action
that begins a teardown has its verdict in the same step as the teardown's
beginning, so `OnlyUselessIsEndedHolds` needs only the types; its proof is a
survey of all callers of `shutdown()`.

`ConnectionScope_proofs`, for every set of sessions, addresses, actors and
secrets:

* `TypeCorrect`: the type invariant;
* `ScopeFollowsCredentialsHolds`: a message is led by the credentials submitted
  before it;
* `RecordsFollowTheirWorkerHolds`: an actor's record is of the worker of that
  actor and of the record's scope, also after the actor has changed;
* `OwnWorkerIsPrivateHolds`: a connected session's own worker serves nobody else.

The privacy of a worker is the end of a chain of facts that span sessions, and
`Leading` has a part for each link. A record names a scope that is its session's own
or that of a client that has gone (`RecordInv`); so does a scope on its way from a
record to a worker, while the message waits (`MessageInv`: a message that waits
for a worker to end also holds the worker's name); so does an attachment
(`AttachedInv`, which also says that a worker that is no more has nobody attached,
or the next one of its name would inherit them). `PromiseInv` relates the promise a
message awaits to the credentials that were the last when it came, although later
ones replace the promise in the table. Of `ScopeAssumption` the proof uses that
fingerprints of secrets are no session's name, and that the promises, which
are finitely many, are numbered from 1.

`JobRouting_proofs`, for every set of messages, instances and identifiers:

* `TypeCorrect`: the type invariant, with the fact that titles never run out;
* `OnlyForeignJobsMisleadHolds`: within one queue object, results cannot be
  mixed up;
* `OnlyItsOwnTeardownDestroysAJobHolds`: replacements keep their jobs.

The first two follow from one invariant. A queue object's counter is the number
of messages it was given, and their titles are below it and apart (`TitleInv`);
a handler stands under the title of a message of its own instance
(`HandlerInv`); so a handler that is found under a result's title belongs to
the result's message, unless that message was given another instance. The
assumption is that the messages are finitely many. The third needs `EntryInv`:
until an actor changes, an instance stands in the map under its queue's name
from its birth to the end of its teardown, so an instance that obliterates the
queue and one in service cannot share the name.

### 4.2 The two ways in

`HttpActions_proofs`, for every set of requests, body, batch size and number of faults:

* `TypeCorrect`: the type invariant;
* `ExecutedOnceHolds`: a request id is run at most once until its key expires;
* `MessagesFollowCredentialsHolds`: no message of a body is dispatched before the
  body's credentials are all saved;
* `QueuedWorkIsHeldHolds`: while a message is queued, its request holds the
  platform;
* `ReplayIsTheStreamHolds`: without faults a completed replay is what the run has
  streamed to its client, or goes on where that client went away.

For the first, `OwnerInv` says that a request that has the id (it clears the list
or runs under the id) is the only one, that the status key is there as long as
it has it, and that before it clears the list nobody has run: the counter
moves in `Clear` alone, and a claim succeeds only where there is no key, hence
where nobody has run since the last expiry.

For the next three, `RunInv` follows a request from its arrival. Until it runs,
nothing of it has begun (`Fresh`); while it runs it saves one credential at a time or
has saved them all (`Saving`, `Dispatched`), and as long as it is not completed
something is left to answer (`Open`). The last is what the code relies on when it
completes the run by counting answers; its proof is about cardinalities.

The last is about three sequences at once: the list in Redis, the commands under
way to it and the response. `ListInv` says whose lines the list has and that they
are one request's; `SentInv` that the list followed by the commands under way is
what the run has written (`Streamed`), with the mark of its completion behind the
last line; `ReadInv` that what a replay has read so far is a prefix of the list,
although the run goes on appending to it. A list may expire between two reads and
another request's take its place; the property, and hence `ReadInv`, speaks of a
replay all of whose lines are of the run the list is of. The condition on
faults is that of the property: a write that Redis rejects or receives twice makes
replay and stream differ, as section 3 reports.

`SockethubClient_proofs`, for every set of messages, registries, listeners and
every limit of the queue and number of connections:

* `TypeCorrect`: the type invariant;
* `EveryMessageIsAccountedForHolds`: what was emitted is queued, sent once, or
  answered with an error;
* `SentInOrderHolds`: messages go out in the order of `emit()`, over all
  connections, but for those a listener of "ready" emits;
* `SessionIsRestoredHolds`: a ready client's server has been sent what is kept;
* `ReplayComesFirstHolds`: a replay precedes all but what listeners of "ready" emit;
* `ReadyWithTheServersRegistryHolds`: a ready client has its server's registry.

The invariant `ClientInv` is `TypeOK`, `Handshake`, `Placed`, `Ordered` and
`WireOrdered`. `Handshake` ties the states of the initialization to what they stand
for: while it lasts nothing is on the wire, and once it has ended the queue is empty,
the registry is the server's, and the server has heard all that is kept. `WireOrdered`
is `ReplayComesFirst` for any wire, which the steps of a flush need. `Placed` and `Ordered`
have as parameters what `flushOutboundQueue()` has as local variables: the queue,
how far its loop has come, what it has sent and refused. They hold of the client with
the loop not begun, of every turn of the loop, and of the client again after its
end. `FlushedIs` is that induction, along the recursive function `Flushed` that the
model has for the loop; a turn sends an entry, or refuses it as invalid or too old.
The parameters are what makes this an induction: no turn of the loop is a state of
the client. `ClientAssumption` says that the messages are finitely many, of
one kind each, and that `NoRegistry` is no server's.

### 4.3 The platforms

`DavPlatform_proofs`, for every set of jobs, both protocols and every bound:

* `DavTypeCorrect`: the types of a job's and the server's state;
* `SuccessMeansWrittenOnceHolds`: success is one write, and no write is repeated;
* `AWriteReplacesWhatItsClientSawHolds`: nobody's change is written over.

`OnceInv` says that a job in progress has written nothing, so its one write comes
with its end. `VersionInv` says that the resource has the last version given out
or none, and `ReadInv` that an update about to be written has read the content of
the version it will replace, if its condition holds: etags are never given
out twice, so what it read under that etag is still there. The type says how
often a job is challenged or redirected at most, which `CountersInv` gives: the
two loops of the code count before they try again.

`Platforms_proofs`, for every number of jobs, credentials, channels, rooms and
client objects:

* `TypeCorrect`: the type invariant;
* `SuccessIsOnTheConnectionItProvesHolds`: no verb with credentials succeeds on the
  connection of other ones;
* `RoomsFollowTheServerHolds`: the channels an IRC platform takes the user to be in
  are those the server has the user in, and an XMPP platform knows the rooms it is in;
* `DavJobsAreThoseOfDavPlatform`: the process implements `DavSpec`, which carries
  the theorems above over.

For IRC the invariant `IrcInv` says that a process opens one connection to the
end: while it is open, the credentials of the process are those it was opened
with, unless an address update is under way, which is the only job that sends a
NICK and which never ends. For XMPP `XmppInv` says that at most one client is
starting, the last one made and for the job that waits for it, and that every
client the platform has or listens to was opened with the process' credentials.

`RoomsFollowTheServer` says for IRC that the two agree once nothing is under way.
That is not inductive: what the server has now says nothing of where the lines in
flight will take it. `IrcRoomsInv` therefore speaks of every state (`Follows`): for
each channel the last line under way that touches it puts the server where the
platform takes it to be, or there is none and the server is there already. A join
that waits for its answer counts as joined, a kick the platform has not heard of
as still there, and while an error reply is on its way nothing is promised, since
it ends the process. For XMPP `XmppRoomsInv` says that a client that is not
online is in no room and that of the client in use the platform knows every room.

### 4.4 The server's shell

`ServerShell_proofs`, for every set of sockets, addresses, signals and keys:

* `TheServerCountsItsSocketsHolds`; `CountInv` is the property with the types it
  needs, and the proof is about cardinalities;
* `ItsKeysGoWithTheServerHolds`: a save under way is followed on the wire by its
  session's delete unless the session is open (`SaveInv`, `KeyInv`), a purge has one
  command under way (`TurnInv`), and what it has not deleted is on its page, yet
  to be read, or was saved since (`PurgeInv`);
* `TheRateIsKeptHolds`: no event passes while a client is blocked, and none but
  two windows' worth passes within the length of one.

The limiter's two halves have an invariant each. A state that says it is blocked
has a window too young for the cleanup (`BarredInv`), so a block is not forgotten;
this is where `RateAssumption` is needed, that a block and a window together do not
exceed the stale threshold. `RateInv` relates each client's record to the events it
was let have: a forgotten client had none lately; a client that is not blocked had
at most as many since its window began as the record counts, and those of the
last `WindowMs` are these and one window's worth before. It is the second window
that makes two, and the invariant says that there is no third.

### 4.5 How, and what is left to TLC

Three recursive functions stand for loops: `Flushed` (the client's queue), `LinesOf`
(what a run writes) and `UpTo` (the sum of a history). The library's induction
theorems take an operator as parameter, and the folds of the community modules
cannot be unfolded by the provers; so the proofs about these functions first show
that such a function exists (`FlushedRecursion`, `LinesOfRecursion`,
`UpToRecursion`) and then take the least element of the set of numbers where a
claim fails.

Only model-checked are the liveness properties, as TLAPS does not do fairness or
`ENABLED`: `GetSettles`, `PausedQueueIsLeft`, `UnusedIsReaped`, `MessageSettles`,
`EveryMessageIsAnswered`, `EveryRequestEnds`, `NothingWaitsForEver` and
`EveryJobSettles`; and that the code breaks what the comments of section 3 say.

## 5. Plan

1. Done: `PlatformLifecycle` with `QueueOwnership`, `ConnectionScope`, `JobRouting`,
   `HttpActions`, `SockethubClient`, `Platforms` with the three kinds of platforms,
   `ServerShell` with `RateLimiter`.
2. Done: the proofs of every safety invariant and action property that the runs
   check, as section 4 lists them.
3. Abstract specifications and refinements: of `JobRouting` (a request is answered
   at most once, by its own result or one of a predecessor's), of `HttpActions`
   (one execution per id, one stream), of `SockethubClient` (a queue in order).
4. Re-keying inside `PlatformLifecycle`, so that a teardown meets the identifier
   its instance has moved to.

## 6. Not modelled

`components` in `PROJECT.json` lists every part with what is left out of it.

* Formats and data: iCalendar, vCard, feeds, metadata, the JSON schemas and their
  compiled validators, the activities of `irc2as`, the translation of XMPP
  stanzas, the address tables of `util/src/net`. Each is a function of its
  input with no state of its own; what could be wrong with them is a matter of
  strings, which TLC cannot enumerate to any purpose and tests can.
* Feeds and metadata jobs: one fetch with a time-out and one answer.
* The middleware's chain runner and boot: sequential code with no state that
  another part sees in between.
* `Janitor.stop()`: on a signal it takes every session from each recorded
  instance in turn and shuts the instance down, one after the other, while
  `get()` still serves requests. The teardown it awaits is the modelled one;
  started from here it would add no step of the instance, only one more caller,
  and the process ends after it. `ServerShell` has it as the time between a
  signal and the purge.
* Encryption, logging, metrics, error reports, configuration: nothing the other
  parts do depends on them but for constants.
* The expiry of credential keys and finished jobs; the numbers of the
  time-outs, but in `RateLimiter`, where the properties are about them.

These parts, with the packages' examples, browser bundles, test helpers and
integration harnesses, are most of the repository's lines. The models cover the
code that has control of its own: what several actors, failures or
times can order differently.
