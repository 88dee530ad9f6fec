----------------------------- MODULE JobRouting -----------------------------
(***************************************************************************)
(* How a message becomes a job and the job's result finds its way back:    *)
(* titles and completion handlers (platform-instance.ts), the Redis queue  *)
(* that successive instances of one identifier share (job-queue.ts), the   *)
(* child's worker (job-worker.ts, platform.ts) and a change of the actor.  *)
(*                                                                         *)
(* PlatformLifecycle has the races of get() and of the teardown in full;   *)
(* here get() is one step, and a dead instance is replaced after its       *)
(* teardown.                                                               *)
(***************************************************************************)
EXTENDS Naturals, Sequences, FiniteSets

CONSTANTS
  Requests,     \* messages, each of which becomes a job at most once
  Updates,      \* those that make the platform change its actor
  Instances,    \* PlatformInstance objects, each born at most once
  Names,        \* identifiers, and the names of the Redis queues
  NoRequest, NoInstance, NoName

ASSUME RoutingAssumption ==
  /\ IsFiniteSet(Requests) /\ Updates \subseteq Requests
  /\ NoRequest \notin Requests /\ NoInstance \notin Instances /\ NoName \notin Names

VARIABLES
  at,        \* platformInstances
  id,        \* PlatformInstance.id
  name,      \* the Redis queue behind its queue object
  stage,     \* of the instance: in service, or where its teardown is
  counter,   \* of its queue object: the next title
  handlers,  \* completedJobHandlers: title -> request
  events,    \* results its queue object is told of and has not handled
  child,     \* its process
  moving,    \* the child's updateActor() has begun
  due,       \* its "updateActor" IPC message on the way to the parent
  queues,    \* Redis: name -> jobs that wait
  paused,    \* Redis: names with the paused flag
  job,       \* Redis: where the request's job is
  holder,    \* the instance whose worker holds it
  pc,        \* of the request's handler in the parent
  inst,      \* the instance get() gave it
  title,     \* its job's title
  answer,    \* the result its callback was called with
  sent       \* jobs whose result went out as a plain message

instanceVars == <<at, id, name, stage>>
handlerVars  == <<counter, handlers, events>>
childVars    == <<child, moving, due>>
redisVars    == <<queues, paused, job, holder>>
requestVars  == <<pc, inst, title, answer, sent>>
vars == <<instanceVars, handlerVars, childVars, redisVars, requestVars>>

\* Each message uses up one title.
Titles == 0..Cardinality(Requests)

TypeOK ==
  /\ at \in [Names -> Instances \cup {NoInstance}]
  /\ id \in [Instances -> Names \cup {NoName}]
  /\ name \in [Instances -> Names \cup {NoName}]
  /\ stage \in [Instances -> {"unborn", "up", "pausing", "obliterating", "closing", "down"}]
  /\ counter \in [Instances -> Titles]
  /\ handlers \in [Instances -> [Titles -> Requests \cup {NoRequest}]]
  /\ events \in [Instances -> SUBSET Requests]
  /\ child \in [Instances -> {"none", "up", "dead"}]
  /\ moving \in [Instances -> BOOLEAN]
  /\ due \in [Instances -> Names \cup {NoName}]
  /\ queues \in [Names -> Seq(Requests)]
  /\ paused \subseteq Names
  /\ job \in [Requests -> {"none", "waiting", "active", "done", "gone"}]
  /\ holder \in [Requests -> Instances \cup {NoInstance}]
  /\ pc \in [Requests -> {"new", "check", "add", "waiting", "answered", "refused"}]
  /\ inst \in [Requests -> Instances \cup {NoInstance}]
  /\ title \in [Requests -> Titles]
  /\ answer \in [Requests -> Requests \cup {NoRequest}]
  /\ sent \subseteq Requests

Init ==
  /\ at = [n \in Names |-> NoInstance]
  /\ id = [i \in Instances |-> NoName] /\ name = id
  /\ stage = [i \in Instances |-> "unborn"]
  /\ counter = [i \in Instances |-> 0]
  /\ handlers = [i \in Instances |-> [t \in Titles |-> NoRequest]]
  /\ events = [i \in Instances |-> {}]
  /\ child = [i \in Instances |-> "none"]
  /\ moving = [i \in Instances |-> FALSE]
  /\ due = [i \in Instances |-> NoName]
  /\ queues = [n \in Names |-> <<>>] /\ paused = {}
  /\ job = [r \in Requests |-> "none"]
  /\ holder = [r \in Requests |-> NoInstance] /\ inst = holder
  /\ pc = [r \in Requests |-> "new"]
  /\ title = [r \in Requests |-> 0]
  /\ answer = [r \in Requests |-> NoRequest]
  /\ sent = {}

(***************************************************************************)
(* The message handler: get(), queue.add(), registerCompletedJobHandler()  *)
(***************************************************************************)
\* createJob() runs in the same task as the return of get().
\* Mutant of Title: the client's message id, the same in every message here.
TitleOfMessage(i) == 0
Title(i) == counter[i]

\* Mutant of Routed: a title is used up for the paused check as well.
RoutedCountingTwice(r, i) ==
  /\ inst' = [inst EXCEPT ![r] = i]
  /\ title' = [title EXCEPT ![r] = Title(i) + 1]
  /\ counter' = [counter EXCEPT ![i] = @ + 2]
  /\ pc' = [pc EXCEPT ![r] = "check"]
  /\ UNCHANGED <<handlers, events, redisVars, answer, sent>>

Routed(r, i) ==
  /\ inst' = [inst EXCEPT ![r] = i]
  /\ title' = [title EXCEPT ![r] = Title(i)]
  /\ counter' = [counter EXCEPT ![i] = @ + 1]
  /\ pc' = [pc EXCEPT ![r] = "check"]
  /\ UNCHANGED <<handlers, events, redisVars, answer, sent>>

GetReuses(r, n) ==
  /\ pc[r] = "new"
  /\ at[n] # NoInstance /\ child[at[n]] = "up"
  /\ Routed(r, at[n])
  /\ UNCHANGED <<instanceVars, childVars>>

\* Mutant of Vacant: a torn-down predecessor is not waited for.
VacantDuringTeardown(n) == at[n] # NoInstance => stage[at[n]] # "up"
Vacant(n) == at[n] = NoInstance

Unborn == {i \in Instances : stage[i] = "unborn"}

GetForks(r, n) ==
  LET i == CHOOSE k \in Unborn : TRUE IN
  /\ pc[r] = "new" /\ Vacant(n) /\ Unborn # {}
  /\ at' = [at EXCEPT ![n] = i]
  /\ id' = [id EXCEPT ![i] = n]
  /\ name' = [name EXCEPT ![i] = n]
  /\ stage' = [stage EXCEPT ![i] = "up"]
  /\ child' = [child EXCEPT ![i] = "up"]
  /\ Routed(r, i)
  /\ UNCHANGED <<moving, due>>

\* isPaused(): a paused queue refuses the message, and so does a closed one.
CheckPaused(r) ==
  /\ pc[r] = "check"
  /\ pc' = [pc EXCEPT ![r] =
              IF name[inst[r]] \in paused \/ stage[inst[r]] = "down"
                THEN "refused" ELSE "add"]
  /\ UNCHANGED <<instanceVars, handlerVars, childVars, redisVars, inst, title, answer, sent>>

AddRefused(r) ==
  /\ pc[r] = "add" /\ stage[inst[r]] = "down"
  /\ pc' = [pc EXCEPT ![r] = "refused"]
  /\ UNCHANGED <<instanceVars, handlerVars, childVars, redisVars, inst, title, answer, sent>>

\* The queue may have been paused, or obliterated, since it was checked.  Redis
\* answers the add before it is asked for the job of a result, so the handler
\* is there in time; handlers older than six minutes are pruned.
Add(r) ==
  LET i == inst[r] IN
  /\ pc[r] = "add" /\ stage[i] # "down"
  /\ job' = [job EXCEPT ![r] = "waiting"]
  /\ queues' = [queues EXCEPT ![name[i]] = Append(@, r)]
  /\ \E old \in SUBSET {t \in Titles : handlers[i][t] # NoRequest} :
       handlers' = [handlers EXCEPT ![i] = [t \in Titles |->
                      IF t = title[r] THEN r ELSE IF t \in old THEN NoRequest ELSE @[t]]]
  /\ pc' = [pc EXCEPT ![r] = "waiting"]
  /\ UNCHANGED <<instanceVars, counter, events, childVars, paused, holder, inst, title, answer, sent>>

(***************************************************************************)
(* The child and its worker; what BullMQ does with a dead worker's jobs    *)
(***************************************************************************)
ChildDies(i) ==
  /\ child[i] = "up"
  /\ child' = [child EXCEPT ![i] = "dead"]
  /\ due' = IF stage[i] = "up" THEN due ELSE [due EXCEPT ![i] = NoName]
  /\ UNCHANGED <<instanceVars, handlerVars, moving, redisVars, requestVars>>

HeldBy(i) == {r \in Requests : job[r] = "active" /\ holder[r] = i}

\* One job at a time, in the order of the queue.
Take(i) ==
  LET n == name[i] IN
  /\ child[i] = "up" /\ ~moving[i]
  /\ HeldBy(i) = {} /\ n \notin paused /\ queues[n] # <<>>
  /\ job' = [job EXCEPT ![Head(queues[n])] = "active"]
  /\ holder' = [holder EXCEPT ![Head(queues[n])] = i]
  /\ queues' = [queues EXCEPT ![n] = Tail(@)]
  /\ UNCHANGED <<instanceVars, handlerVars, childVars, paused, requestVars>>

\* Every queue object of the name that still listens is told.
Finish(i, r) ==
  /\ child[i] = "up" /\ ~moving[i] /\ r \in HeldBy(i)
  /\ job' = [job EXCEPT ![r] = "done"]
  /\ events' = [k \in Instances |->
                  IF stage[k] = "up" /\ name[k] = name[i] THEN events[k] \cup {r}
                                                          ELSE events[k]]
  /\ UNCHANGED <<instanceVars, counter, handlers, childVars, queues, paused, holder, requestVars>>

\* A worker of the same queue puts the job of a dead one back in front.
Stalled(i, r) ==
  /\ child[i] = "up" /\ ~moving[i]
  /\ job[r] = "active" /\ child[holder[r]] = "dead" /\ name[holder[r]] = name[i]
  /\ job' = [job EXCEPT ![r] = "waiting"]
  /\ queues' = [queues EXCEPT ![name[i]] = <<r>> \o @]
  /\ UNCHANGED <<instanceVars, handlerVars, childVars, paused, holder, requestVars>>

\* updateActor() runs inside the job that changes the actor: it reports the
\* new identifier, then awaits that the worker is idle.
ReportActor(i, n) ==
  /\ child[i] = "up" /\ ~moving[i] /\ HeldBy(i) \cap Updates # {}
  /\ n # id[i]
  /\ moving' = [moving EXCEPT ![i] = TRUE]
  /\ due' = IF stage[i] = "up" THEN [due EXCEPT ![i] = n] ELSE due
  /\ UNCHANGED <<instanceVars, handlerVars, child, redisVars, requestVars>>

(***************************************************************************)
(* The parent's side of the instance                                       *)
(***************************************************************************)
\* updateIdentifier(): the entry moves, the queue object stays.
UpdateIdentifier(i) ==
  /\ stage[i] = "up" /\ due[i] # NoName
  /\ at' = [at EXCEPT ![id[i]] = NoInstance, ![due[i]] = i]
  /\ id' = [id EXCEPT ![i] = due[i]]
  /\ due' = [due EXCEPT ![i] = NoName]
  /\ UNCHANGED <<name, stage, handlerVars, child, moving, redisVars, requestVars>>

\* Mutant of Unclaimed: a result that nobody waits for is dropped.
UnclaimedDropped(r) == {}
Unclaimed(r) == {r}

\* handleJobResult() of a result, unless its job has been removed since.
HandleResult(i, r) ==
  LET caller == handlers[i][title[r]] IN
  /\ stage[i] = "up" /\ r \in events[i]
  /\ events' = [events EXCEPT ![i] = @ \ {r}]
  /\ IF job[r] # "done"
       THEN UNCHANGED <<handlers, pc, answer, sent>>
       ELSE IF caller = NoRequest
         THEN sent' = sent \cup Unclaimed(r) /\ UNCHANGED <<handlers, pc, answer>>
         ELSE /\ handlers' = [handlers EXCEPT ![i][title[r]] = NoRequest]
              /\ pc' = [pc EXCEPT ![caller] = "answered"]
              /\ answer' = [answer EXCEPT ![caller] = r]
              /\ UNCHANGED sent
  /\ UNCHANGED <<instanceVars, counter, childVars, redisVars, inst, title>>

\* shutdown(): its listeners go first.  Whoever finds the child dead marks the
\* instance as replaced, and only the connections are closed.
Shutdown(i, replaced) ==
  /\ stage[i] = "up"
  /\ stage' = [stage EXCEPT ![i] =
                 IF replaced \/ at[id[i]] # i THEN "closing" ELSE "pausing"]
  /\ events' = [events EXCEPT ![i] = {}]
  /\ due' = [due EXCEPT ![i] = NoName]
  /\ UNCHANGED <<at, id, name, counter, handlers, child, moving, redisVars, requestVars>>

GetReplaces(r, n) ==
  /\ pc[r] = "new" /\ at[n] # NoInstance /\ child[at[n]] = "dead"
  /\ Shutdown(at[n], TRUE)

\* A crash, a heartbeat timeout, a fatal error, the janitor.
Ends(i) == Shutdown(i, FALSE)

Pause(i) ==
  /\ stage[i] = "pausing"
  /\ paused' = paused \cup {name[i]}
  /\ stage' = [stage EXCEPT ![i] = "obliterating"]
  /\ UNCHANGED <<at, id, name, handlerVars, childVars, queues, job, holder, requestVars>>

\* Whose job is in the queue of that name: the jobs of its requests, wherever
\* they were added.
JobsOf(n) == {r \in Requests : job[r] # "none" /\ name[inst[r]] = n}

Obliterate(i) ==
  /\ stage[i] = "obliterating"
  /\ job' = [r \in Requests |-> IF r \in JobsOf(name[i]) THEN "gone" ELSE job[r]]
  /\ queues' = [queues EXCEPT ![name[i]] = <<>>]
  /\ paused' = paused \ {name[i]}
  /\ stage' = [stage EXCEPT ![i] = "closing"]
  /\ UNCHANGED <<at, id, name, handlerVars, childVars, holder, requestVars>>

Close(i) ==
  /\ stage[i] = "closing"
  /\ stage' = [stage EXCEPT ![i] = "down"]
  /\ at' = IF at[id[i]] = i THEN [at EXCEPT ![id[i]] = NoInstance] ELSE at
  /\ UNCHANGED <<id, name, handlerVars, childVars, redisVars, requestVars>>

Next ==
  \/ \E r \in Requests :
       \/ \E n \in Names :
            GetReuses(r, n) \/ GetReplaces(r, n) \/ GetForks(r, n)
       \/ CheckPaused(r) \/ Add(r) \/ AddRefused(r)
  \/ \E i \in Instances :
       \/ ChildDies(i) \/ Take(i)
       \/ \E r \in Requests : Finish(i, r) \/ Stalled(i, r) \/ HandleResult(i, r)
       \/ \E n \in Names : ReportActor(i, n)
       \/ UpdateIdentifier(i) \/ Ends(i) \/ Pause(i) \/ Obliterate(i) \/ Close(i)

Spec == Init /\ [][Next]_vars

\* The event loops and Redis go on, and a running job ends.
Fairness ==
  /\ \A r \in Requests : WF_vars(CheckPaused(r) \/ Add(r) \/ AddRefused(r))
  /\ \A i \in Instances :
       /\ WF_vars(Take(i)) /\ WF_vars(UpdateIdentifier(i))
       /\ WF_vars(Pause(i)) /\ WF_vars(Obliterate(i)) /\ WF_vars(Close(i))
       /\ \A r \in Requests :
            WF_vars(Finish(i, r)) /\ WF_vars(Stalled(i, r)) /\ WF_vars(HandleResult(i, r))

FairSpec == Spec /\ Fairness

(***************************************************************************)
(* Properties                                                              *)
(***************************************************************************)
\* Within the life of one queue object titles do their work, whatever the
\* order of results and however many jobs are in flight: a callback is only
\* ever misled by the result of a job that another object added.
OnlyForeignJobsMislead ==
  \A q \in Requests :
    answer[q] \notin {NoRequest, q} => inst[answer[q]] # inst[q]

\* No teardown destroys a job that was added through another object in
\* service: replacements keep their jobs (#1166), as long as no instance has
\* changed its identifier and kept its queue.
OnlyItsOwnTeardownDestroysAJob ==
  [][\A r \in Requests :
       job[r] \in {"waiting", "active"} /\ job'[r] = "gone"
         => stage[inst[r]] # "up" \/ \E k \in Instances : id[k] # name[k]]_vars

\* While its instance and child are in service, every message gets an answer:
\* its callback is called or the result is sent to its session, also when
\* handlers were pruned and jobs of a dead predecessor come first.
InService(r) ==
  /\ stage[inst[r]] = "up" /\ child[inst[r]] # "dead"
  /\ \A k \in Instances : ~moving[k]
EveryMessageIsAnswered ==
  \A r \in Requests :
    ~ <>[](pc[r] \in {"check", "add", "waiting"} /\ r \notin sent /\ InService(r))
=============================================================================
