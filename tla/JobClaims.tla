------------------------------ MODULE JobClaims ------------------------------
(* What the comments and documents say of jobs and the code does not keep. *)
EXTENDS MCJobRouting

\* JobWorker.shutdown() and the new worker: worker.pause() waits for the jobs
\* the worker holds, the one that runs updateActor() among them.
ListenAnew(i) ==
  /\ child[i] = "up" /\ moving[i] /\ HeldBy(i) = {}
  /\ moving' = [moving EXCEPT ![i] = FALSE]
  /\ UNCHANGED <<instanceVars, handlerVars, child, due, redisVars, requestVars>>

ClaimsNext == Next \/ \E i \in Instances : ListenAnew(i)
ClaimsSpec ==
  /\ Init /\ [][ClaimsNext]_vars
  /\ Fairness /\ \A i \in Instances : WF_vars(ListenAnew(i))

\* A response is never misrouted: the title that keys the handlers is unique
\* per job (the comment in createJob).
EveryAnswerIsOnesOwn == \A r \in Requests : answer[r] \in {NoRequest, r}

\* When the actor changes, the thread that listens for jobs is updated too (the
\* comment on updateActor), unless the child dies first.
ActorChangeTakesEffect ==
  \A i \in Instances : ~ <>[](child[i] = "up" /\ moving[i])
=============================================================================
