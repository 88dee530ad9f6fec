----------------------------- MODULE HttpActions -----------------------------
(***************************************************************************)
(* The HTTP actions endpoint (http/actions.ts): requests that carry one    *)
(* body, most of them under one request id, claim the id in Redis, save    *)
(* the credentials of the body, dispatch its messages, stream the results  *)
(* and record them for replay; time-outs, clients that go away, a Redis    *)
(* that rejects a call or is sent it twice, and a crash of the server.     *)
(***************************************************************************)
EXTENDS Naturals, Sequences, FiniteSets

CONSTANTS
  Requests,     \* requests, each made once, by POST or GET
  Body,         \* the kinds of the payloads, as classifyPayload() finds them
  BatchSize,    \* IDEMPOTENCY_BATCH_SIZE
  MaxFaults     \* bound: calls Redis rejects or receives twice

ASSUME HttpAssumption ==
  /\ IsFiniteSet(Requests)
  /\ Body \in Seq({"credentials", "message", "unknown"}) /\ Body # << >>
  /\ BatchSize \in Nat \ {0} /\ MaxFaults \in Nat

VARIABLES
  status,     \* Redis: the status key of the request id
  list,       \* Redis: the lines kept for replay
  req,        \* the requests
  executions, \* history: requests that ran since the status key last expired
  faults

vars == <<status, list, req, executions, faults>>

Payloads == DOMAIN Body
OfKind(kind) == {i \in Payloads : Body[i] = kind}
Lines == Requests \X ({0} \cup Payloads)    \* 0: the line of a time-out
Final == {"done", "refused", "replayed", "cut", "lost"}
Phases == Final \cup {"unsent", "claiming", "reading", "reclaiming", "clearing",
                      "running", "looking", "replaying"}

RequestType ==
  [phase      : Phases,
   keyed      : BOOLEAN,    \* useIdempotency
   at         : [Payloads -> {"waiting", "saving", "getting", "queued", "answered"}],
   out        : Seq(Lines), \* what was written to the response
   closed     : BOOLEAN,    \* responseClosed
   completion : {"none", "answered", "timeout"},  \* completionStarted, and why
   chain      : Seq(Lines \cup {<<"complete">>}), \* redisWriteChain
   holds      : BOOLEAN]    \* its platform is in platformIds and registered

TypeOK ==
  /\ status \in {"none", "in-progress", "complete"}
  /\ list \in Seq(Lines)
  /\ req \in [Requests -> RequestType]
  /\ executions \in 0..Cardinality(Requests)
  /\ faults \in 0..MaxFaults
  \* A run writes at most one line per payload, the time-out's line included.
  /\ \A p \in Requests : req[p].phase \in {"running", "done"} => Len(req[p].out) <= Len(Body)

Init ==
  /\ status = "none" /\ list = << >>
  /\ req = [x \in Requests |->
              [phase |-> "unsent", keyed |-> FALSE, at |-> [i \in Payloads |-> "waiting"],
               out |-> << >>, closed |-> FALSE, completion |-> "none",
               chain |-> << >>, holds |-> FALSE]]
  /\ executions = 0 /\ faults = 0

-----------------------------------------------------------------------------
(* What a run does within one task. *)

Pending(r) == Cardinality({i \in Payloads : r.at[i] # "answered"})
Saved(r) == \A i \in OfKind("credentials") : r.at[i] = "answered"

\* cleanup() and closeResponse().
Finish(r) == [r EXCEPT !.phase = "done", !.closed = TRUE, !.holds = FALSE]

\* completeRequest(): with a request id, behind the writes to Redis.
Complete(r, why) ==
  IF r.completion # "none" THEN r
  ELSE IF r.keyed
       THEN [r EXCEPT !.completion = why, !.chain = Append(@, <<"complete">>)]
       ELSE Finish([r EXCEPT !.completion = why])

\* persistLine() and res.write() of some lines; late ones go nowhere.
WriteEvenLate(r, lines) ==
  [r EXCEPT !.chain = IF r.keyed /\ r.completion = "none" THEN @ \o lines ELSE @,
            !.out   = IF r.closed THEN @ ELSE @ \o lines]

Write(r, lines) ==
  IF r.completion # "none" THEN r
  ELSE [r EXCEPT !.chain = IF r.keyed THEN @ \o lines ELSE @,
                 !.out   = IF r.closed THEN @ ELSE @ \o lines]

\* The lines of the payloads S, in the order of the body.
LinesOf(p, S) ==
  LET upTo[k \in 0..Len(Body)] ==
        IF k = 0 THEN << >>
        ELSE IF k \in S THEN Append(upTo[k - 1], <<p, k>>) ELSE upTo[k - 1]
  IN  upTo[Len(Body)]

\* writeResult() of the payloads S.
WriteResults(p, r, S) ==
  LET written == [Write(r, LinesOf(p, S)) EXCEPT
                    !.at = [i \in Payloads |-> IF i \in S THEN "answered" ELSE @[i]]]
  IN  IF S # {} /\ Pending(written) = 0 THEN Complete(written, "answered") ELSE written

\* The next credentials of the body are saved; after the last ones all messages
\* are dispatched, and what is neither is answered with an error.
GoOn(p, r) ==
  LET unsaved == {i \in OfKind("credentials") : r.at[i] = "waiting"}
      begun == [i \in Payloads |-> IF i \in OfKind("message") THEN "getting" ELSE r.at[i]]
  IN  IF unsaved # {}
      THEN [r EXCEPT !.at[CHOOSE i \in unsaved : \A j \in unsaved : i <= j] = "saving"]
      ELSE WriteResults(p, [r EXCEPT !.at = begun], OfKind("unknown"))

ProceedUnlessGone(p, r) == IF r.completion # "none" \/ r.closed THEN r ELSE GoOn(p, r)

\* The route handler goes on while the request has not been completed.
Proceed(p, r) == IF r.completion # "none" THEN r ELSE GoOn(p, r)

Become(x, r) == req' = [req EXCEPT ![x] = r]
To(x, phase) == req' = [req EXCEPT ![x].phase = phase]

-----------------------------------------------------------------------------
(* A request arrives and claims its id. *)

\* A GET, a POST with a request id, or one without, which runs at once.
Send(p) ==
  /\ req[p].phase = "unsent"
  /\ \/ To(p, "looking")
     \/ To(p, "claiming")
     \/ Become(p, Proceed(p, [req[p] EXCEPT !.phase = "running"]))
  /\ UNCHANGED <<status, list, executions, faults>>

\* SET NX: the id is claimed, or a second look is due.
Claim(p) ==
  /\ req[p].phase = "claiming"
  /\ \/ status = "none" /\ status' = "in-progress" /\ To(p, "clearing")
     \/ status # "none" /\ To(p, "reading") /\ UNCHANGED status
  /\ UNCHANGED <<list, executions, faults>>

\* GET: complete, in progress, or expired since the claim was refused.
Read(p) ==
  /\ req[p].phase = "reading"
  /\ \/ status = "complete"    /\ To(p, "replaying")
     \/ status = "in-progress" /\ To(p, "refused")
     \/ status = "none"        /\ To(p, "reclaiming")
  /\ UNCHANGED <<status, list, executions, faults>>

ClaimAgainRegardless(p) ==
  /\ req[p].phase = "reclaiming"
  /\ status' = "in-progress" /\ To(p, "clearing")
  /\ UNCHANGED <<list, executions, faults>>

\* SET NX once more: whoever else came in between has the id.
ClaimAgain(p) ==
  /\ req[p].phase = "reclaiming"
  /\ \/ status = "none" /\ status' = "in-progress" /\ To(p, "clearing")
     \/ status # "none" /\ To(p, "refused") /\ UNCHANGED status
  /\ UNCHANGED <<list, executions, faults>>

\* DEL of the list; the request begins to run.
Clear(p) ==
  /\ req[p].phase = "clearing"
  /\ list' = << >> /\ executions' = executions + 1
  /\ Become(p, Proceed(p, [req[p] EXCEPT !.phase = "running", !.keyed = TRUE]))
  /\ UNCHANGED <<status, faults>>

-----------------------------------------------------------------------------
(* Replays. *)

LookUp(g) ==
  /\ req[g].phase = "looking"
  /\ To(g, IF status = "complete" THEN "replaying" ELSE "refused")
  /\ UNCHANGED <<status, list, executions, faults>>

\* One LRANGE of streamCachedResults().
ReplayBatch(x) ==
  /\ req[x].phase = "replaying"
  /\ LET batch == SubSeq(list, Len(req[x].out) + 1,
                         IF Len(list) < Len(req[x].out) + BatchSize
                         THEN Len(list) ELSE Len(req[x].out) + BatchSize)
     IN  Become(x, [req[x] EXCEPT !.out = @ \o batch,
                       !.phase = IF Len(batch) < BatchSize THEN "replayed" ELSE @])
  /\ UNCHANGED <<status, list, executions, faults>>

-----------------------------------------------------------------------------
(* A run. A callback may come after the run has been completed, or never. *)

Alive(p) == req[p].phase \in {"running", "done"}

CredentialsAnswered(p, i) ==
  /\ Alive(p) /\ req[p].at[i] = "saving"
  /\ Become(p, Proceed(p, WriteResults(p, req[p], {i})))
  /\ UNCHANGED <<status, list, executions, faults>>

\* get() has an instance: onPlatformInstance() registers the request with it.
GetReturns(p, i) ==
  /\ Alive(p) /\ req[p].at[i] = "getting"
  /\ Become(p, [req[p] EXCEPT !.at[i] = "queued", !.holds = TRUE])
  /\ UNCHANGED <<status, list, executions, faults>>

\* The message is invalid or get() refuses it; or its job has a result.
MessageAnswered(p, i) ==
  /\ Alive(p) /\ req[p].at[i] \in {"getting", "queued"}
  /\ Become(p, WriteResults(p, req[p], {i}))
  /\ UNCHANGED <<status, list, executions, faults>>

DisconnectCompletes(p) ==
  /\ req[p].phase = "running" /\ ~req[p].closed
  /\ Become(p, Complete([req[p] EXCEPT !.closed = TRUE], "answered"))
  /\ UNCHANGED <<status, list, executions, faults>>

\* "close" of the request, with payloads pending.
Disconnect(p) ==
  /\ req[p].phase = "running" /\ ~req[p].closed /\ Pending(req[p]) > 0
  /\ Become(p, [req[p] EXCEPT !.closed = TRUE])
  /\ UNCHANGED <<status, list, executions, faults>>

TimeoutEvenLate(p) ==
  /\ req[p].phase = "running"
  /\ LET r == IF req[p].closed THEN req[p]
              ELSE WriteEvenLate(req[p], <<<<p, 0>>>>)
     IN  Become(p, Complete(r, "timeout"))
  /\ UNCHANGED <<status, list, executions, faults>>

\* The request's or the idle timer; its line is written while there is a client.
Timeout(p) ==
  /\ req[p].phase = "running" /\ req[p].completion = "none"
  /\ LET r == IF req[p].closed THEN req[p] ELSE Write(req[p], <<<<p, 0>>>>)
     IN  Become(p, Complete(r, "timeout"))
  /\ UNCHANGED <<status, list, executions, faults>>

\* Redis carries out the head of the write chain.
ChainGoesOn(p) == [req[p] EXCEPT !.chain = Tail(@)]

RedisAppends(p) ==
  /\ req[p].phase = "running" /\ req[p].chain # << >>
  /\ Head(req[p].chain) # <<"complete">>
  /\ list' = Append(list, Head(req[p].chain)) /\ Become(p, ChainGoesOn(p))
  /\ UNCHANGED <<status, executions, faults>>

RedisCompletes(p) ==
  /\ req[p].phase = "running" /\ req[p].chain # << >>
  /\ Head(req[p].chain) = <<"complete">>
  /\ status' = "complete" /\ Become(p, Finish(ChainGoesOn(p)))
  /\ UNCHANGED <<list, executions, faults>>

-----------------------------------------------------------------------------
(* Faults. *)

Fault == faults < MaxFaults /\ faults' = faults + 1

\* A call before the run, or during a replay, is rejected while Redis is away.
RedisRejects(x) ==
  /\ Fault
  /\ req[x].phase \in {"claiming", "reading", "reclaiming", "clearing", "looking", "replaying"}
  /\ To(x, IF req[x].phase = "replaying" THEN "cut" ELSE "refused")
  /\ list' = list \/ (req[x].phase = "clearing" /\ list' = << >>)
  /\ UNCHANGED <<status, executions>>

WriteRejectedForGood(p) ==
  /\ Fault /\ req[p].phase = "running" /\ req[p].chain # << >>
  /\ Become(p, ChainGoesOn(p))
  /\ UNCHANGED <<status, list, executions>>

\* A write of the run is rejected: the error is logged, the chain goes on.
WriteRejected(p) ==
  /\ Fault /\ req[p].phase = "running" /\ req[p].chain # << >>
  /\ Become(p, IF Head(req[p].chain) = <<"complete">>
               THEN Finish(ChainGoesOn(p)) ELSE ChainGoesOn(p))
  /\ UNCHANGED <<status, list, executions>>

\* The connection breaks before the answer arrives, and the client library
\* sends the call again: a claim finds itself made, a line is there twice.
ClaimSentTwice(p) ==
  /\ Fault /\ status = "none" /\ status' = "in-progress"
  /\ \/ req[p].phase = "claiming"   /\ To(p, "reading")
     \/ req[p].phase = "reclaiming" /\ To(p, "refused")
  /\ UNCHANGED <<list, executions>>

LineSentTwice(p) ==
  /\ Fault /\ req[p].phase = "running" /\ req[p].chain # << >>
  /\ Head(req[p].chain) # <<"complete">>
  /\ list' = list \o <<Head(req[p].chain), Head(req[p].chain)>>
  /\ Become(p, ChainGoesOn(p))
  /\ UNCHANGED <<status, executions>>

\* The server dies; Redis keeps what it has.
Crash ==
  /\ req' = [x \in Requests |->
               IF req[x].phase \in Final \cup {"unsent"} THEN req[x]
               ELSE [req[x] EXCEPT !.phase = "lost"]]
  /\ req' # req
  /\ UNCHANGED <<status, list, executions, faults>>

\* idempotencyTtlMs is over. It is longer than the time-outs of a request and
\* counts anew with every line, so no request that has the id is under way.
Expire ==
  /\ status # "none"
  /\ \A p \in Requests : ~ (req[p].phase = "clearing" \/ (req[p].phase = "running" /\ req[p].keyed))
  /\ status' = "none" /\ list' = << >> /\ executions' = 0
  /\ UNCHANGED <<req, faults>>

Redis(x) ==
  \/ Claim(x) \/ Read(x) \/ ClaimAgain(x) \/ Clear(x) \/ LookUp(x)
  \/ ReplayBatch(x) \/ RedisAppends(x) \/ RedisCompletes(x)

Next ==
  \/ \E p \in Requests :
       \/ Send(p) \/ Redis(p) \/ RedisRejects(p) \/ Disconnect(p) \/ Timeout(p)
       \/ WriteRejected(p) \/ ClaimSentTwice(p) \/ LineSentTwice(p)
       \/ \E i \in Payloads :
            CredentialsAnswered(p, i) \/ GetReturns(p, i) \/ MessageAnswered(p, i)
  \/ Crash \/ Expire

Spec == Init /\ [][Next]_vars

\* Redis answers, with a rejection if need be, and timers that are set go off.
\* Nothing is assumed of credentials' and messages' callbacks.
Fairness ==
  \A p \in Requests : WF_vars(Redis(p)) /\ WF_vars(Timeout(p))

FairSpec == Spec /\ Fairness

-----------------------------------------------------------------------------
(* Properties. *)

\* Whatever the retries, crashes, rejected and repeated calls: until its key
\* expires, a request id is run at most once (the claim with SET NX).
ExecutedOnce == executions <= 1

\* A replay that ends shows what the client of the run was sent, or goes on
\* where that client went away, unless a write to Redis failed or the key
\* expired meanwhile (persistLine(), writeResult() and streamCachedResults()).
ReplayIsTheStream ==
  [][\A x \in Requests, p \in Requests :
       /\ req[x].phase = "replaying" /\ req'[x].phase = "replayed"
       /\ faults = 0 /\ status = "complete" /\ list # << >>
       /\ \A k \in 1..Len(list) : list[k][1] = p
       /\ \A k \in 1..Len(req'[x].out) : req'[x].out[k][1] = p
       => LET sent == req[p].out
              shown == req'[x].out
          IN  /\ Len(sent) <= Len(shown) /\ sent = SubSeq(shown, 1, Len(sent))
              /\ sent = shown \/ \E k \in Payloads : <<p, k>> \notin {sent[j] : j \in 1..Len(sent)}]_vars

\* Messages wait for all credentials of their body and for nothing else: a run
\* whose credentials are there has dispatched them, its client gone or not.
MessagesFollowCredentials ==
  \A p \in Requests : req[p].phase \in {"running", "done"} =>
    \A i \in OfKind("message") :
      /\ req[p].at[i] # "waiting" => Saved(req[p])
      /\ Saved(req[p]) /\ req[p].completion = "none" => req[p].at[i] # "waiting"

\* The platform of a queued job is held until the job has its result, even when
\* the client goes away; only a time-out lets go of it before.
QueuedWorkIsHeld ==
  \A p \in Requests, i \in Payloads :
    /\ req[p].phase \in {"running", "done"} /\ req[p].at[i] = "queued"
    /\ req[p].completion # "timeout"
    => req[p].holds

\* Every request comes to an end, with Redis failing and callbacks missing.
EveryRequestEnds ==
  \A x \in Requests : req[x].phase # "unsent" ~> req[x].phase \in Final
=============================================================================
