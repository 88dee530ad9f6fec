-------------------------- MODULE HttpActions_proofs --------------------------
(***************************************************************************)
(* For any number of requests, any body, any batch size and any number of  *)
(* faults: a request id is run at most once until its key expires; the     *)
(* messages of a body wait for its credentials and are dispatched then;    *)
(* the platform of a queued job is held; and a replay shows the stream of  *)
(* the run, unless a call of Redis failed.                                 *)
(***************************************************************************)
EXTENDS HttpActions, TLAPS, FiniteSetTheorems, WellFoundedInduction

-----------------------------------------------------------------------------
(* Induction, and the lines that a run writes. *)

\* A set of naturals has a least element, hence induction, for a set of them.
LEMMA LeastNatural ==
  ASSUME NEW S, S \subseteq Nat, S # {}
  PROVE  \E n \in S : \A m \in S : n <= m
<1>1. IsWellFoundedOn(OpToRel(<, Nat), Nat)
  BY NatLessThanWellFounded
<1>2. PICK n \in S : \A m \in S : ~ (<<m, n>> \in OpToRel(<, Nat))
  BY <1>1, WFMin
<1>3. \A m \in S : ~ (m < n)
  BY <1>2 DEF OpToRel
<1> QED BY <1>3

LEMMA Induction ==
  ASSUME NEW S, 0 \in S, \A n \in Nat : n \in S => n + 1 \in S
  PROVE  Nat \subseteq S
<1> SUFFICES ASSUME ~ (Nat \subseteq S) PROVE FALSE
  OBVIOUS
<1>1. PICK n \in Nat \ S : \A m \in Nat \ S : n <= m
  BY LeastNatural
<1>2. n # 0 /\ n - 1 \in Nat /\ n - 1 \in S
  BY <1>1
<1> QED BY <1>1, <1>2

\* The recursion of LinesOf has a solution, and LinesOf is its value at the end.
LEMMA LinesOfRecursion ==
  ASSUME NEW p, NEW S
  PROVE  \E g : /\ g[0] = << >> /\ LinesOf(p, S) = g[Len(Body)]
                /\ \A k \in 1..Len(Body) :
                     g[k] = IF k \in S THEN Append(g[k - 1], <<p, k>>) ELSE g[k - 1]
<1> DEFINE Up == 0..Len(Body)
           V(g, k) == IF k = 0 THEN << >>
                      ELSE IF k \in S THEN Append(g[k - 1], <<p, k>>) ELSE g[k - 1]
           Upto(n) == \E g : /\ g = [k \in Up |-> g[k]]
                             /\ \A k \in Up : k <= n => g[k] = V(g, k)
           N == {n \in Nat : Upto(n)}
           upTo == CHOOSE g : g = [k \in Up |-> V(g, k)]
<1>0. Len(Body) \in Nat
  BY HttpAssumption
<1>1. 0 \in N
  <2>1. [i \in Up |-> << >>] = [k \in Up |-> [i \in Up |-> << >>][k]]
    OBVIOUS
  <2>2. \A k \in Up : k <= 0 => [i \in Up |-> << >>][k] = V([i \in Up |-> << >>], k)
    OBVIOUS
  <2>3. Upto(0)
    BY <2>1, <2>2
  <2> QED BY <2>3
<1>2. ASSUME NEW n \in Nat, n \in N PROVE n + 1 \in N
  <2>1. PICK g : /\ g = [k \in Up |-> g[k]] /\ \A k \in Up : k <= n => g[k] = V(g, k)
    BY <1>2
  <2> DEFINE h == [k \in Up |-> IF k = n + 1 THEN V(g, n + 1) ELSE g[k]]
  <2>2. h = [k \in Up |-> h[k]]
    OBVIOUS
  <2>3. ASSUME NEW k \in Up, k <= n + 1 PROVE h[k] = V(h, k)
    <3>1. k # 0 => k - 1 \in Up /\ k - 1 # n + 1
      BY <1>0, <2>3
    <3>2. V(h, k) = V(g, k)
      BY <3>1
    <3>3. CASE k = n + 1
      <4> HIDE DEF V
      <4> QED BY <3>2, <3>3
    <3>4. CASE k <= n
      <4>1. h[k] = g[k]
        BY <3>4
      <4> HIDE DEF h, V
      <4> QED BY <4>1, <3>4, <3>2, <2>1
    <3> QED BY <2>3, <3>3, <3>4, <1>0
  <2> HIDE DEF h, V, Up
  <2> QED BY <2>2, <2>3
<1>3. Upto(Len(Body))
  <2> HIDE DEF Upto
  <2> QED BY <1>0, <1>1, <1>2, Induction
<1>4. \E g : g = [k \in Up |-> V(g, k)]
  <2> HIDE DEF V
  <2>1. PICK g : g = [k \in Up |-> g[k]] /\ \A k \in Up : k <= Len(Body) => g[k] = V(g, k)
    BY <1>3
  <2>2. \A k \in Up : g[k] = V(g, k)
    BY <2>1, <1>0
  <2> QED BY <2>1, <2>2
<1>5. upTo = [k \in Up |-> V(upTo, k)]
  <2> HIDE DEF V, Up
  <2> QED BY <1>4
<1>6. LinesOf(p, S) = upTo[Len(Body)]
  BY DEF LinesOf
<1> HIDE DEF upTo
<1>7. upTo[0] = << >>
  BY <1>0, <1>5
<1>8. ASSUME NEW k \in 1..Len(Body)
      PROVE  upTo[k] = IF k \in S THEN Append(upTo[k - 1], <<p, k>>) ELSE upTo[k - 1]
  <2>1. k \in Up /\ k # 0
    BY <1>0
  <2>2. upTo[k] = V(upTo, k)
    <3> HIDE DEF V, Up
    <3> QED BY <1>5, <2>1
  <2> QED BY <2>1, <2>2
<1> QED BY <1>6, <1>7, <1>8
\* LinesOf holds lines of its payloads, at most one of each.
LEMMA LinesOfTyped ==
  ASSUME NEW p, NEW S \in SUBSET Payloads
  PROVE  /\ LinesOf(p, S) \in Seq({p} \X S)
         /\ Len(LinesOf(p, S)) <= Cardinality(S)
<1>0. Len(Body) \in Nat /\ Payloads = 1..Len(Body)
  BY HttpAssumption DEF Payloads
<1>1. PICK g : /\ g[0] = << >> /\ LinesOf(p, S) = g[Len(Body)]
               /\ \A k \in 1..Len(Body) :
                    g[k] = IF k \in S THEN Append(g[k - 1], <<p, k>>) ELSE g[k - 1]
  BY LinesOfRecursion
<1> DEFINE T(n) == n <= Len(Body) =>
                     /\ g[n] \in Seq({p} \X S)
                     /\ Len(g[n]) <= Cardinality(S \cap (1..n))
           N == {n \in Nat : T(n)}
<1>2. 0 \in N
  <2>1. S \cap (1..0) = {}
    OBVIOUS
  <2>2. << >> \in Seq({p} \X S) /\ Len(<< >>) <= 0
    OBVIOUS
  <2>3. Cardinality({}) = 0
    BY FS_EmptySet
  <2>4. T(0)
    BY <1>1, <2>1, <2>2, <2>3
  <2> QED BY <2>4
<1>3. ASSUME NEW n \in Nat, n \in N PROVE n + 1 \in N
  <2> SUFFICES ASSUME n + 1 <= Len(Body)
               PROVE  /\ g[n + 1] \in Seq({p} \X S)
                      /\ Len(g[n + 1]) <= Cardinality(S \cap (1..(n + 1)))
    OBVIOUS
  <2>1. /\ g[n] \in Seq({p} \X S)
        /\ Len(g[n]) <= Cardinality(S \cap (1..n))
    BY <1>0, <1>3
  <2>2. g[n + 1] = IF n + 1 \in S THEN Append(g[n], <<p, n + 1>>) ELSE g[n]
    BY <1>0, <1>1
  <2>3. IsFiniteSet(S \cap (1..n)) /\ Cardinality(S \cap (1..n)) \in Nat
    BY FS_Interval, FS_Subset, FS_CardinalityType, 1 \in Int, n \in Int
  <2>4. CASE n + 1 \in S
    <3>1. S \cap (1..(n + 1)) = (S \cap (1..n)) \cup {n + 1}
      BY <2>4
    <3>2. n + 1 \notin S \cap (1..n)
      OBVIOUS
    <3>3. Cardinality(S \cap (1..(n + 1))) = Cardinality(S \cap (1..n)) + 1
      BY <2>3, <3>1, <3>2, FS_AddElement
    <3> HIDE DEF T, N
    <3> QED BY <2>1, <2>2, <2>3, <2>4, <3>3
  <2>5. CASE n + 1 \notin S
    <3>1. S \cap (1..(n + 1)) = S \cap (1..n)
      BY <2>5
    <3> QED BY <2>1, <2>2, <2>5, <3>1
  <2> QED BY <2>4, <2>5
<1>4. Len(Body) \in N
  <2> HIDE DEF T
  <2> QED BY <1>0, <1>2, <1>3, Induction
<1>5. S \cap (1..Len(Body)) = S
  BY <1>0
<1>6. T(Len(Body))
  BY <1>4
<1>7. /\ g[Len(Body)] \in Seq({p} \X S)
      /\ Len(g[Len(Body)]) <= Cardinality(S \cap (1..Len(Body)))
  BY <1>0, <1>6
<1>8. LinesOf(p, S) = g[Len(Body)]
  BY <1>1
<1> QED BY <1>5, <1>7, <1>8

-----------------------------------------------------------------------------
(* Who has the request id. *)

Fields == {"phase", "keyed", "at", "out", "closed", "completion", "chain", "holds"}

Shape ==
  /\ req = [x \in Requests |-> req[x]]
  /\ \A x \in Requests : DOMAIN req[x] = Fields

\* The request has claimed the id and not come to its end.
Owns(r) == r.phase = "clearing" \/ (r.phase = "running" /\ r.keyed)

\* Who has the id has it alone and its key is there; the run has been counted
\* once its owner is past the clearing of the list, and while the key lasts.
OwnerInv ==
  /\ Shape
  /\ \A x \in Requests : req[x].keyed \in BOOLEAN
  /\ \A x \in Requests : req[x].keyed => req[x].phase \in {"running", "done", "lost"}
  /\ \A x, y \in Requests : Owns(req[x]) /\ Owns(req[y]) => x = y
  /\ \A x \in Requests : Owns(req[x]) => status # "none"
  /\ \A x \in Requests : req[x].phase = "clearing" => executions = 0
  /\ status = "none" => executions = 0
  /\ executions \in {0, 1}

-----------------------------------------------------------------------------
(* What the operators on a request leave alone. *)

\* s is r as far as the id is concerned, or r at its end.
Follows(r, s) ==
  /\ DOMAIN s = DOMAIN r
  /\ s.keyed = r.keyed
  /\ s.phase = r.phase \/ s.phase = "done"

\* completeRequest() keeps the id or ends the request.
LEMMA CompleteFollows ==
  ASSUME NEW r, NEW why, DOMAIN r = Fields
  PROVE  Follows(r, Complete(r, why))
BY DEF Complete, Finish, Follows, Fields

\* So does writing lines.
LEMMA WriteFollows ==
  ASSUME NEW r, NEW lines, DOMAIN r = Fields
  PROVE  Follows(r, Write(r, lines))
BY DEF Write, Follows, Fields

\* So does answering payloads, which may complete the request.
LEMMA WriteResultsFollows ==
  ASSUME NEW p, NEW r, NEW S, DOMAIN r = Fields
  PROVE  Follows(r, WriteResults(p, r, S))
<1> DEFINE lines == LinesOf(p, S)
           w == Write(r, lines)
           written == [w EXCEPT !.at = [i \in Payloads |-> IF i \in S THEN "answered" ELSE @[i]]]
<1>1. Follows(r, w)
  <2> HIDE DEF lines
  <2> QED BY WriteFollows
<1>2. Follows(r, written) /\ DOMAIN written = Fields
  <2> HIDE DEF w
  <2> QED BY <1>1 DEF Follows, Fields
<1>3. Follows(written, Complete(written, "answered"))
  <2> HIDE DEF written
  <2> QED BY <1>2, CompleteFollows
<1>4. WriteResults(p, r, S) \in {written, Complete(written, "answered")}
  BY DEF WriteResults
<1> HIDE DEF written
<1> QED BY <1>2, <1>3, <1>4 DEF Follows

\* So does the route handler when it goes on.
LEMMA ProceedFollows ==
  ASSUME NEW p, NEW r, DOMAIN r = Fields
  PROVE  Follows(r, Proceed(p, r))
<1> DEFINE unsaved == {i \in OfKind("credentials") : r.at[i] = "waiting"}
           first == CHOOSE i \in unsaved : \A j \in unsaved : i <= j
           begun == [i \in Payloads |-> IF i \in OfKind("message") THEN "getting" ELSE r.at[i]]
           saving == [r EXCEPT !.at[first] = "saving"]
           dispatched == [r EXCEPT !.at = begun]
<1>1. Follows(r, saving)
  <2> HIDE DEF first
  <2> QED BY DEF Follows, Fields
<1>2. Follows(r, dispatched) /\ DOMAIN dispatched = Fields
  <2> HIDE DEF begun
  <2> QED BY DEF Follows, Fields
<1>3. Follows(r, WriteResults(p, dispatched, OfKind("unknown")))
  <2> HIDE DEF dispatched
  <2> QED BY <1>2, WriteResultsFollows DEF Follows
<1>4. Proceed(p, r) \in {r, saving, WriteResults(p, dispatched, OfKind("unknown"))}
  BY DEF Proceed, GoOn
<1> HIDE DEF saving, dispatched
<1> QED BY <1>1, <1>3, <1>4 DEF Follows

-----------------------------------------------------------------------------
(* The steps, by what they do to the id. *)

\* A step that lets one request go on, its id unclaimed or claimed as before.
LEMMA GoingOnKeeps ==
  ASSUME OwnerInv, NEW x \in Requests, NEW s, req' = [req EXCEPT ![x] = s],
         Follows(req[x], s), status' = status \/ status' # "none",
         executions' = executions
  PROVE  OwnerInv'
<1>1. /\ Shape'
      /\ \A y \in Requests : req'[y] = IF y = x THEN s ELSE req[y]
  BY DEF OwnerInv, Shape, Follows
<1>2. \A y \in Requests : /\ req'[y].keyed = req[y].keyed
                          /\ req'[y].phase = req[y].phase \/ req'[y].phase = "done"
  BY <1>1 DEF Follows
<1>3. \A y \in Requests : Owns(req'[y]) => Owns(req[y])
  BY <1>2 DEF Owns
<1>4. \A y \in Requests : /\ req'[y].keyed \in BOOLEAN
                          /\ req'[y].keyed => req'[y].phase \in {"running", "done", "lost"}
                          /\ req'[y].phase = "clearing" => executions' = 0
  BY <1>2 DEF OwnerInv
<1>5. \A y, z \in Requests : Owns(req'[y]) /\ Owns(req'[z]) => y = z
  BY <1>3 DEF OwnerInv
<1>6. /\ \A y \in Requests : Owns(req'[y]) => status' # "none"
      /\ status' = "none" => executions' = 0
      /\ executions' \in {0, 1}
  BY <1>3 DEF OwnerInv
<1>7. QED
  BY <1>1, <1>4, <1>5, <1>6 DEF OwnerInv

\* A step by which a request that has no id moves on without one.
LEMMA MovingKeeps ==
  ASSUME OwnerInv, NEW x \in Requests, NEW phase, To(x, phase),
         phase \notin {"clearing", "running"},
         req[x].phase \notin {"running", "done", "lost"},
         status' = status \/ status' # "none", executions' = executions
  PROVE  OwnerInv'
<1>1. /\ Shape'
      /\ \A y \in Requests : y # x => req'[y] = req[y]
      /\ req'[x].phase = phase /\ req'[x].keyed = req[x].keyed
  BY DEF OwnerInv, Shape, To, Fields
<1>2. ~ req[x].keyed
  BY DEF OwnerInv
<1>3. \A y \in Requests : Owns(req'[y]) => y # x /\ Owns(req[y])
  BY <1>1 DEF Owns
<1>4. QED
  BY <1>1, <1>2, <1>3 DEF OwnerInv

\* A step by which a request claims the id that nobody has.
LEMMA ClaimingKeeps ==
  ASSUME OwnerInv, NEW x \in Requests, To(x, "clearing"), status = "none",
         req[x].phase \notin {"running", "done", "lost"},
         status' = "in-progress", executions' = executions
  PROVE  OwnerInv'
<1>1. /\ Shape'
      /\ \A y \in Requests : y # x => req'[y] = req[y]
      /\ req'[x].phase = "clearing" /\ req'[x].keyed = req[x].keyed
  BY DEF OwnerInv, Shape, To, Fields
<1>2. /\ executions = 0 /\ ~ req[x].keyed
      /\ \A y \in Requests : ~ Owns(req[y])
  BY DEF OwnerInv
<1>3. \A y \in Requests : Owns(req'[y]) => y = x
  BY <1>1, <1>2 DEF Owns
<1>4. QED
  BY <1>1, <1>2, <1>3 DEF OwnerInv

-----------------------------------------------------------------------------
(* Every step keeps the invariant. *)

\* At first nobody has the id and nothing was run.
LEMMA OwnerInit == Init => OwnerInv
<1> SUFFICES ASSUME Init PROVE OwnerInv
  OBVIOUS
<1>1. \A x \in Requests : /\ DOMAIN req[x] = Fields
                          /\ req[x].phase = "unsent" /\ req[x].keyed = FALSE
  BY DEF Init, Fields
<1>2. Shape
  BY <1>1 DEF Init, Shape
<1>3. \A x \in Requests : ~ Owns(req[x])
  BY <1>1 DEF Owns
<1> QED BY <1>1, <1>2, <1>3 DEF OwnerInv, Init

\* A request without an id runs at once; it owns nothing.
LEMMA SendKeeps ==
  ASSUME OwnerInv, NEW p \in Requests, Send(p)
  PROVE  OwnerInv'
<1>1. CASE To(p, "looking") \/ To(p, "claiming")
  BY <1>1, MovingKeeps DEF Send
<1>2. CASE Become(p, Proceed(p, [req[p] EXCEPT !.phase = "running"]))
  <2> DEFINE r == [req[p] EXCEPT !.phase = "running"]
             s == Proceed(p, r)
  <2>1. DOMAIN r = Fields /\ r.phase = "running" /\ r.keyed = req[p].keyed
    BY DEF OwnerInv, Shape, Fields
  <2>2. Follows(r, s)
    <3> HIDE DEF r
    <3> QED BY <2>1, ProceedFollows
  <2>3. ~ s.keyed /\ s.phase # "clearing" /\ DOMAIN s = Fields
    <3> HIDE DEF s
    <3>1. ~ req[p].keyed
      BY DEF OwnerInv, Send
    <3> QED BY <2>1, <2>2, <3>1 DEF Follows
  <2>4. req' = [req EXCEPT ![p] = s] /\ status' = status /\ executions' = executions
    BY <1>2 DEF Become, Send
  <2> HIDE DEF s
  <2>5. Shape' /\ \A y \in Requests : req'[y] = IF y = p THEN s ELSE req[y]
    BY <2>3, <2>4 DEF OwnerInv, Shape
  <2>6. \A y \in Requests : Owns(req'[y]) => y # p /\ Owns(req[y])
    BY <2>3, <2>5 DEF Owns
  <2>7. s.keyed \in BOOLEAN
    BY <2>1, <2>2 DEF Follows, OwnerInv
  <2> QED BY <2>3, <2>4, <2>5, <2>6, <2>7 DEF OwnerInv
<1> QED BY <1>1, <1>2 DEF Send

\* The list is cleared and the request that has the id is counted.
LEMMA ClearKeeps ==
  ASSUME OwnerInv, NEW p \in Requests, Clear(p)
  PROVE  OwnerInv'
<1> DEFINE r == [req[p] EXCEPT !.phase = "running", !.keyed = TRUE]
           s == Proceed(p, r)
<1>1. DOMAIN r = Fields /\ r.phase = "running" /\ r.keyed = TRUE
  BY DEF OwnerInv, Shape, Fields
<1>2. Follows(r, s)
  <2> HIDE DEF r
  <2> QED BY <1>1, ProceedFollows
<1>3. s.keyed = TRUE /\ s.phase \in {"running", "done"} /\ DOMAIN s = Fields
  <2> HIDE DEF s
  <2> QED BY <1>1, <1>2 DEF Follows
<1>4. req' = [req EXCEPT ![p] = s] /\ status' = status /\ executions' = executions + 1
  BY DEF Become, Clear
<1> HIDE DEF s
<1>5. Shape' /\ \A y \in Requests : req'[y] = IF y = p THEN s ELSE req[y]
  BY <1>3, <1>4 DEF OwnerInv, Shape
<1>6. Owns(req[p]) /\ executions = 0 /\ status # "none"
  BY DEF Clear, Owns, OwnerInv
<1>7. \A y \in Requests : Owns(req'[y]) => y = p
  BY <1>5, <1>6 DEF Owns, OwnerInv
<1>8. \A y \in Requests : req'[y].phase # "clearing"
  BY <1>3, <1>5, <1>6 DEF Owns, OwnerInv
<1>9. \A y \in Requests : /\ req'[y].keyed \in BOOLEAN
                          /\ req'[y].keyed => req'[y].phase \in {"running", "done", "lost"}
  BY <1>3, <1>5 DEF OwnerInv
<1>10. executions' = 1 /\ status' # "none"
  BY <1>4, <1>6
<1>11. \A y, z \in Requests : Owns(req'[y]) /\ Owns(req'[z]) => y = z
  BY <1>7
<1> QED BY <1>5, <1>8, <1>9, <1>10, <1>11 DEF OwnerInv

\* Redis' answers.
LEMMA RedisKeeps ==
  ASSUME OwnerInv, NEW p \in Requests, Redis(p)
  PROVE  OwnerInv'
<1>1. CASE Claim(p)
  BY <1>1, ClaimingKeeps, MovingKeeps DEF Claim
<1>2. CASE Read(p)
  BY <1>2, MovingKeeps DEF Read
<1>3. CASE ClaimAgain(p)
  BY <1>3, ClaimingKeeps, MovingKeeps DEF ClaimAgain
<1>4. CASE Clear(p)
  BY <1>4, ClearKeeps
<1>5. CASE LookUp(p)
  BY <1>5, MovingKeeps DEF LookUp
<1>6. CASE ReplayBatch(p)
  <2> DEFINE batch == SubSeq(list, Len(req[p].out) + 1,
                         IF Len(list) < Len(req[p].out) + BatchSize
                         THEN Len(list) ELSE Len(req[p].out) + BatchSize)
             out == req[p].out \o batch
             phase == IF Len(batch) < BatchSize THEN "replayed" ELSE req[p].phase
             s == [req[p] EXCEPT !.out = out, !.phase = phase]
  <2>1. req' = [req EXCEPT ![p] = s] /\ req[p].phase = "replaying"
    BY <1>6 DEF ReplayBatch, Become
  <2>2. phase \in {"replayed", "replaying"}
    BY <2>1
  <2> HIDE DEF batch, out, phase
  <2>3. DOMAIN s = Fields /\ s.keyed = req[p].keyed /\ s.phase = phase
    BY DEF OwnerInv, Shape, Fields
  <2> HIDE DEF s
  <2>4. status' = status /\ executions' = executions
    BY <1>6 DEF ReplayBatch
  <2>5. Shape' /\ \A y \in Requests : req'[y] = IF y = p THEN s ELSE req[y]
    BY <2>1, <2>3 DEF OwnerInv, Shape
  <2>6. ~ req[p].keyed
    BY <2>1 DEF OwnerInv
  <2>7. \A y \in Requests : Owns(req'[y]) => y # p /\ Owns(req[y])
    BY <2>2, <2>3, <2>5 DEF Owns
  <2> QED BY <2>2, <2>3, <2>4, <2>5, <2>6, <2>7 DEF OwnerInv
<1>7. CASE RedisAppends(p)
  <2>1. Follows(req[p], ChainGoesOn(p))
    BY DEF Follows, ChainGoesOn, OwnerInv, Shape, Fields
  <2> QED BY <1>7, <2>1, GoingOnKeeps DEF RedisAppends, Become
<1>8. CASE RedisCompletes(p)
  <2>1. Follows(req[p], Finish(ChainGoesOn(p)))
    BY DEF Follows, Finish, ChainGoesOn, OwnerInv, Shape, Fields
  <2> QED BY <1>8, <2>1, GoingOnKeeps DEF RedisCompletes, Become
<1> QED BY <1>1, <1>2, <1>3, <1>4, <1>5, <1>6, <1>7, <1>8 DEF Redis

\* What happens within a run, and what a callback does after it.
LEMMA RunKeeps ==
  ASSUME OwnerInv, NEW p \in Requests,
         \/ Disconnect(p) \/ Timeout(p) \/ WriteRejected(p) \/ LineSentTwice(p)
         \/ \E i \in Payloads :
              CredentialsAnswered(p, i) \/ GetReturns(p, i) \/ MessageAnswered(p, i)
  PROVE  OwnerInv'
<1>0. DOMAIN req[p] = Fields
  BY DEF OwnerInv, Shape
<1>1. CASE Disconnect(p)
  <2>1. Follows(req[p], [req[p] EXCEPT !.closed = TRUE])
    BY <1>0 DEF Follows, Fields
  <2> QED BY <1>1, <2>1, GoingOnKeeps DEF Disconnect, Become
<1>2. CASE Timeout(p)
  <2> DEFINE r == IF req[p].closed THEN req[p] ELSE Write(req[p], <<<<p, 0>>>>)
             s == Complete(r, "timeout")
  <2>1. Follows(req[p], r) /\ DOMAIN r = Fields
    BY <1>0, WriteFollows DEF Follows
  <2>2. Follows(r, s)
    <3> HIDE DEF r
    <3> QED BY <2>1, CompleteFollows
  <2>3. Become(p, s) /\ UNCHANGED <<status, executions>>
    BY <1>2 DEF Timeout
  <2> HIDE DEF r, s
  <2>4. Follows(req[p], s)
    BY <2>1, <2>2 DEF Follows
  <2> QED BY <2>3, <2>4, GoingOnKeeps DEF Become
<1>3. CASE WriteRejected(p)
  <2> DEFINE s == IF Head(req[p].chain) = <<"complete">>
                  THEN Finish(ChainGoesOn(p)) ELSE ChainGoesOn(p)
  <2>1. Follows(req[p], s)
    BY <1>0 DEF Follows, Finish, ChainGoesOn, Fields
  <2>2. Become(p, s) /\ UNCHANGED <<status, executions>>
    BY <1>3 DEF WriteRejected
  <2> HIDE DEF s
  <2> QED BY <2>1, <2>2, GoingOnKeeps DEF Become
<1>4. CASE LineSentTwice(p)
  <2>1. Follows(req[p], ChainGoesOn(p))
    BY <1>0 DEF Follows, ChainGoesOn, Fields
  <2> QED BY <1>4, <2>1, GoingOnKeeps DEF LineSentTwice, Become
<1>5. ASSUME NEW i \in Payloads, CredentialsAnswered(p, i)
      PROVE  OwnerInv'
  <2> DEFINE r == WriteResults(p, req[p], {i})
             s == Proceed(p, r)
  <2>1. Follows(req[p], r) /\ DOMAIN r = Fields
    BY <1>0, WriteResultsFollows DEF Follows
  <2>2. Follows(r, s)
    <3> HIDE DEF r
    <3> QED BY <2>1, ProceedFollows
  <2>3. Become(p, s) /\ UNCHANGED <<status, executions>>
    BY <1>5 DEF CredentialsAnswered
  <2> HIDE DEF r, s
  <2>4. Follows(req[p], s)
    BY <2>1, <2>2 DEF Follows
  <2> QED BY <2>3, <2>4, GoingOnKeeps DEF Become
<1>6. ASSUME NEW i \in Payloads, GetReturns(p, i)
      PROVE  OwnerInv'
  <2> DEFINE s == [req[p] EXCEPT !.at[i] = "queued", !.holds = TRUE]
  <2>1. Follows(req[p], s)
    BY <1>0 DEF Follows, Fields
  <2>2. Become(p, s) /\ UNCHANGED <<status, executions>>
    BY <1>6 DEF GetReturns
  <2> HIDE DEF s
  <2> QED BY <2>1, <2>2, GoingOnKeeps DEF Become
<1>7. ASSUME NEW i \in Payloads, MessageAnswered(p, i)
      PROVE  OwnerInv'
  <2> DEFINE s == WriteResults(p, req[p], {i})
  <2>1. Follows(req[p], s)
    BY <1>0, WriteResultsFollows
  <2>2. Become(p, s) /\ UNCHANGED <<status, executions>>
    BY <1>7 DEF MessageAnswered
  <2> HIDE DEF s
  <2> QED BY <2>1, <2>2, GoingOnKeeps DEF Become
<1> QED BY <1>1, <1>2, <1>3, <1>4, <1>5, <1>6, <1>7

\* Calls of Redis before a run that are rejected, or sent twice.
LEMMA FaultKeeps ==
  ASSUME OwnerInv, NEW p \in Requests, RedisRejects(p) \/ ClaimSentTwice(p)
  PROVE  OwnerInv'
<1>1. CASE RedisRejects(p)
  BY <1>1, MovingKeeps DEF RedisRejects
<1>2. CASE ClaimSentTwice(p)
  BY <1>2, MovingKeeps DEF ClaimSentTwice
<1> QED BY <1>1, <1>2

\* The server dies: nobody has the id any more, its key stays.
LEMMA CrashKeeps ==
  ASSUME OwnerInv, Crash
  PROVE  OwnerInv'
<1>1. \A x \in Requests :
        /\ DOMAIN req'[x] = Fields /\ req'[x].keyed = req[x].keyed
        /\ req'[x].phase \in Final \cup {"unsent"}
        /\ req'[x].phase = req[x].phase \/ req'[x].phase = "lost"
  BY DEF Crash, OwnerInv, Shape, Fields, Final
<1>2. Shape'
  BY <1>1 DEF Crash, Shape
<1>3. \A x \in Requests : ~ Owns(req'[x])
  BY <1>1 DEF Owns, Final
<1>4. \A x \in Requests : req'[x].keyed => req'[x].phase \in {"running", "done", "lost"}
  BY <1>1 DEF OwnerInv
<1>5. \A x \in Requests : req'[x].phase # "clearing"
  BY <1>1 DEF Final
<1>6. \A x \in Requests : req'[x].keyed \in BOOLEAN
  BY <1>1 DEF OwnerInv
<1>7. status' = status /\ executions' = executions
  BY DEF Crash
<1> QED BY <1>2, <1>3, <1>4, <1>5, <1>6, <1>7 DEF OwnerInv

\* The key expires while nobody has the id.
LEMMA ExpireKeeps ==
  ASSUME OwnerInv, Expire
  PROVE  OwnerInv'
<1>1. \A x \in Requests : ~ Owns(req[x])
  BY DEF Expire, Owns
<1>2. req' = req /\ executions' = 0
  BY DEF Expire
<1> QED BY <1>1, <1>2 DEF OwnerInv, Shape

\* Every step keeps the invariant.
LEMMA OwnerNext == OwnerInv /\ [Next]_vars => OwnerInv'
<1> SUFFICES ASSUME OwnerInv, [Next]_vars PROVE OwnerInv'
  OBVIOUS
<1>1. CASE Crash \/ Expire
  BY <1>1, CrashKeeps, ExpireKeeps
<1>2. CASE UNCHANGED vars
  BY <1>2 DEF OwnerInv, Shape, vars
<1>3. ASSUME NEW p \in Requests, Send(p) \/ Redis(p)
      PROVE  OwnerInv'
  BY <1>3, SendKeeps, RedisKeeps
<1>4. ASSUME NEW p \in Requests, RedisRejects(p) \/ ClaimSentTwice(p)
      PROVE  OwnerInv'
  BY <1>4, FaultKeeps
<1>5. ASSUME NEW p \in Requests,
             \/ Disconnect(p) \/ Timeout(p) \/ WriteRejected(p) \/ LineSentTwice(p)
             \/ \E i \in Payloads :
                  CredentialsAnswered(p, i) \/ GetReturns(p, i) \/ MessageAnswered(p, i)
      PROVE  OwnerInv'
  BY <1>5, RunKeeps
<1> QED BY <1>1, <1>2, <1>3, <1>4, <1>5 DEF Next

\* Until its key expires, a request id is run at most once, whatever requests,
\* retries, crashes and faults there are.
THEOREM ExecutedOnceHolds == Spec => []ExecutedOnce
<1>1. OwnerInv => ExecutedOnce
  BY DEF OwnerInv, ExecutedOnce
<1> QED BY <1>1, OwnerInit, OwnerNext, PTL DEF Spec

-----------------------------------------------------------------------------
(* A run: what it has answered, written and dispatched. *)

Answered(r) == {i \in Payloads : r.at[i] = "answered"}

Stages == [credentials |-> {"waiting", "saving", "answered"},
           message     |-> {"waiting", "getting", "queued", "answered"},
           unknown     |-> {"waiting", "answered"}]

\* A run has a line per answer at most; it is completed by its last answer or by
\* a time-out, and the mark of its completion is behind its lines.  It holds the
\* platform of its queued messages to its end.
Core(r) ==
  /\ r \in RequestType /\ r.phase \in {"running", "done"}
  /\ \A i \in Payloads : r.at[i] \in Stages[Body[i]]
  /\ Len(r.out) <= Len(Body)
  /\ r.completion = "answered" => Answered(r) = Payloads
  /\ ~ r.keyed => r.chain = << >>
  /\ r.completion = "none" => r.chain \in Seq(Lines)
  /\ \A i \in Payloads : r.phase = "running" /\ r.at[i] = "queued" => r.holds
  /\ r.phase = "running" /\ ~ r.keyed => r.completion = "none"
  /\ r.phase = "done" => r.completion # "none"

\* Until it is completed something is left to answer, and written for the rest.
Open(r) ==
  r.completion = "none" => /\ Len(r.out) <= Cardinality(Answered(r))
                           /\ Answered(r) # Payloads

\* The credentials are saved one after the other, then all else is dispatched.
Saving(r) ==
  /\ \A i \in Payloads : Body[i] # "credentials" => r.at[i] = "waiting"
  /\ \A i, j \in Payloads : r.at[i] = "saving" /\ r.at[j] = "saving" => i = j
  /\ r.completion = "none" => \E i \in Payloads : r.at[i] = "saving"
Dispatched(r) ==
  /\ Saved(r)
  /\ \A i \in Payloads : Body[i] # "credentials" => r.at[i] # "waiting"

Sound(r) == Core(r) /\ Open(r) /\ (Saving(r) \/ Dispatched(r))

\* A request that has not begun to run, nor to read.
Early == {"unsent", "claiming", "reading", "reclaiming", "clearing", "looking", "refused"}
Fresh(r) ==
  /\ r.at = [i \in Payloads |-> "waiting"] /\ r.completion = "none"
  /\ r.chain = << >> /\ ~ r.closed
  /\ r.phase \in Early => r.out = << >>

RunInv ==
  \A p \in Requests : /\ req[p].phase \in {"running", "done"} => Sound(req[p])
                      /\ req[p].phase \notin {"running", "done", "lost"} => Fresh(req[p])

-----------------------------------------------------------------------------

LEMMA PayloadsFinite ==
  /\ Payloads = 1..Len(Body) /\ Len(Body) \in Nat \ {0}
  /\ IsFiniteSet(Payloads) /\ Cardinality(Payloads) = Len(Body)
  /\ \A i \in Payloads : Body[i] \in {"credentials", "message", "unknown"}
<1>1. Payloads = 1..Len(Body) /\ Len(Body) \in Nat \ {0}
  BY HttpAssumption DEF Payloads
<1>2. IsFiniteSet(1..Len(Body)) /\ Cardinality(1..Len(Body)) = Len(Body)
  <2>1. 1 \in Int /\ Len(Body) \in Int /\ 1 <= Len(Body)
    BY <1>1
  <2>2. Len(Body) - 1 + 1 = Len(Body)
    BY <1>1
  <2> QED BY <2>1, <2>2, FS_Interval
<1>3. \A i \in Payloads : Body[i] \in {"credentials", "message", "unknown"}
  BY <1>1, HttpAssumption
<1> QED BY <1>1, <1>2, <1>3

LEMMA AnsweredFinite ==
  ASSUME NEW r
  PROVE  /\ IsFiniteSet(Answered(r)) /\ Cardinality(Answered(r)) \in Nat
         /\ Cardinality(Answered(r)) <= Len(Body)
         /\ Answered(r) # Payloads => Cardinality(Answered(r)) < Len(Body)
<1>1. Answered(r) \subseteq Payloads
  BY DEF Answered
<1> QED BY <1>1, PayloadsFinite, FS_Subset, FS_CardinalityType

\* What Pending() counts is what is not answered.
LEMMA PendingIsOpen ==
  ASSUME NEW r
  PROVE  /\ Pending(r) \in Nat
         /\ Pending(r) = 0 <=> Answered(r) = Payloads
<1> DEFINE left == {i \in Payloads : r.at[i] # "answered"}
<1>1. IsFiniteSet(left)
  BY PayloadsFinite, FS_Subset
<1>2. Cardinality(left) = 0 <=> left = {}
  BY <1>1, FS_EmptySet
<1>3. left = {} <=> Answered(r) = Payloads
  BY DEF Answered
<1> QED BY <1>1, <1>2, <1>3, FS_CardinalityType DEF Pending

\* completeRequest() after the last answer, or after a time-out.
LEMMA CompleteSound ==
  ASSUME NEW r, Core(r), NEW why \in {"answered", "timeout"},
         why = "answered" => Answered(r) = Payloads
  PROVE  /\ Core(Complete(r, why)) /\ Complete(r, why).completion # "none"
         /\ Complete(r, why).at = r.at
<1> DEFINE marked == [r EXCEPT !.completion = why, !.chain = Append(@, <<"complete">>)]
           ended == Finish([r EXCEPT !.completion = why])
<1>1. CASE r.completion # "none"
  BY <1>1 DEF Complete
<1>2. CASE r.completion = "none" /\ r.keyed
  <2>0. Append(r.chain, <<"complete">>) \in Seq(Lines \cup {<<"complete">>})
    <3>1. r.chain \in Seq(Lines \cup {<<"complete">>})
      BY DEF Core, RequestType
    <3> QED BY <3>1
  <2>1. marked \in RequestType /\ marked.at = r.at /\ marked.completion = why
        /\ marked.phase = r.phase /\ marked.out = r.out /\ marked.keyed /\ marked.holds = r.holds
    BY <1>2, <2>0 DEF Core, RequestType
  <2>2. Answered(marked) = Answered(r)
    BY <2>1 DEF Answered
  <2> HIDE DEF marked
  <2>3. Core(marked)
    BY <2>1, <2>2, <1>2 DEF Core
  <2>4. Complete(r, why) = marked
    BY <1>2 DEF Complete, marked
  <2> QED BY <2>1, <2>3, <2>4
<1>3. CASE r.completion = "none" /\ ~ r.keyed
  <2>1. ended \in RequestType /\ ended.at = r.at /\ ended.completion = why
        /\ ended.phase = "done" /\ ended.out = r.out /\ ended.keyed = r.keyed /\ ended.chain = r.chain
    BY <1>3 DEF Core, RequestType, Finish, Phases, Final
  <2>2. Answered(ended) = Answered(r)
    BY <2>1 DEF Answered
  <2> HIDE DEF ended
  <2>3. Core(ended)
    BY <2>1, <2>2, <1>3 DEF Core
  <2>4. Complete(r, why) = ended
    BY <1>3 DEF Complete, ended
  <2> QED BY <2>1, <2>3, <2>4
<1> QED BY <1>1, <1>2, <1>3

\* Write() extends what was written and recorded, while the run is not completed.
LEMMA WriteType ==
  ASSUME NEW r, Core(r), NEW lines \in Seq(Lines)
  PROVE  /\ Write(r, lines) \in RequestType
         /\ \A f \in {"phase", "keyed", "at", "closed", "completion", "holds"} :
              Write(r, lines)[f] = r[f]
         /\ r.completion # "none" => Write(r, lines) = r
         /\ Write(r, lines).out \in {r.out, r.out \o lines}
         /\ ~ r.keyed => Write(r, lines).chain = r.chain
         /\ r.completion = "none" => Write(r, lines).chain \in Seq(Lines)
<1>1. r \in RequestType /\ (r.completion = "none" => r.chain \in Seq(Lines))
  BY DEF Core
<1>2. CASE r.completion # "none"
  BY <1>1, <1>2 DEF Write, RequestType
<1>3. CASE r.completion = "none"
  <2> DEFINE chain == IF r.keyed THEN r.chain \o lines ELSE r.chain
             out == IF r.closed THEN r.out ELSE r.out \o lines
  <2>1. Write(r, lines) = [r EXCEPT !.chain = chain, !.out = out]
    BY <1>3 DEF Write
  <2>2. chain \in Seq(Lines) /\ out \in Seq(Lines) /\ chain \in Seq(Lines \cup {<<"complete">>})
    <3>1. r.out \in Seq(Lines)
      BY <1>1 DEF RequestType
    <3>2. chain \in Seq(Lines) /\ out \in Seq(Lines)
      BY <1>1, <1>3, <3>1
    <3> HIDE DEF chain
    <3> QED BY <3>2
  <2>3. out \in {r.out, r.out \o lines} /\ (~ r.keyed => chain = r.chain)
    OBVIOUS
  <2> HIDE DEF chain, out
  <2> QED BY <1>1, <1>3, <2>1, <2>2, <2>3 DEF RequestType
<1> QED BY <1>2, <1>3

\* writeResult() of payloads that have no answer yet.
LEMMA WriteResultsSound ==
  ASSUME NEW p \in Requests, NEW r, Core(r), Open(r),
         NEW S \in SUBSET Payloads, S \cap Answered(r) = {}
  PROVE  LET s == WriteResults(p, r, S) IN
         /\ Core(s) /\ Open(s)
         /\ s.at = [i \in Payloads |-> IF i \in S THEN "answered" ELSE r.at[i]]
         /\ s.completion = "none" => r.completion = "none"
<1> DEFINE lines == LinesOf(p, S)
           w == Write(r, lines)
           at == [i \in Payloads |-> IF i \in S THEN "answered" ELSE r.at[i]]
           written == [w EXCEPT !.at = [i \in Payloads |-> IF i \in S THEN "answered" ELSE @[i]]]
<1>1. /\ lines \in Seq(Lines) /\ Len(lines) <= Cardinality(S)
  <2>1. lines \in Seq({p} \X S)
    BY LinesOfTyped
  <2>2. {p} \X S \subseteq Lines
    BY DEF Lines
  <2>3. lines \in Seq(Lines)
    <3> HIDE DEF lines
    <3> QED BY <2>1, <2>2
  <2> QED BY <2>3, LinesOfTyped
<1> HIDE DEF lines
<1>2. /\ w \in RequestType
      /\ w.phase = r.phase /\ w.keyed = r.keyed /\ w.at = r.at
      /\ w.completion = r.completion /\ w.holds = r.holds
      /\ r.completion # "none" => w = r
      /\ w.out \in {r.out, r.out \o lines}
      /\ ~ r.keyed => w.chain = r.chain
      /\ r.completion = "none" => w.chain \in Seq(Lines)
  BY <1>1, WriteType
<1> HIDE DEF w
<1>3. /\ written \in RequestType /\ written.at = at
      /\ written.phase = r.phase /\ written.keyed = r.keyed
      /\ written.completion = r.completion /\ written.holds = r.holds
      /\ written.out = w.out /\ written.chain = w.chain
  <2>1. at \in [Payloads -> {"waiting", "saving", "getting", "queued", "answered"}]
    BY DEF Core, RequestType
  <2>2. written = [w EXCEPT !.at = at]
    BY <1>2
  <2> HIDE DEF at
  <2> QED BY <1>2, <2>1, <2>2 DEF RequestType
<1> HIDE DEF written
<1>4. Answered(written) = Answered(r) \cup S
  BY <1>3 DEF Answered
<1>5. Cardinality(Answered(r) \cup S) = Cardinality(Answered(r)) + Cardinality(S)
  <2>1. IsFiniteSet(S)
    BY PayloadsFinite, FS_Subset
  <2>2. Cardinality(Answered(r) \cap S) = 0
    BY FS_EmptySet
  <2>3. Cardinality(S) \in Nat
    BY <2>1, FS_CardinalityType
  <2>4. Cardinality(Answered(r) \cup S)
          = Cardinality(Answered(r)) + Cardinality(S) - Cardinality(Answered(r) \cap S)
    <3>1. IsFiniteSet(Answered(r))
      BY AnsweredFinite
    <3> QED BY <2>1, <3>1, FS_Union
  <2> QED BY <2>2, <2>3, <2>4, AnsweredFinite
<1>6. /\ r.out \in Seq(Lines) /\ w.out \in Seq(Lines) /\ Cardinality(S) \in Nat
      /\ r.completion = "none" => Len(w.out) <= Cardinality(Answered(written))
  <2>1. r.out \in Seq(Lines) /\ w.out \in Seq(Lines)
    BY <1>2 DEF Core, RequestType
  <2>2. Cardinality(S) \in Nat /\ Cardinality(Answered(r)) \in Nat
    BY PayloadsFinite, FS_Subset, FS_CardinalityType, AnsweredFinite
  <2>3. Len(w.out) \in {Len(r.out), Len(r.out) + Len(lines)}
    BY <1>1, <1>2, <2>1
  <2> QED BY <1>1, <1>4, <1>5, <2>1, <2>2, <2>3 DEF Open
<1>7. Len(w.out) <= Len(Body)
  <2>1. CASE r.completion = "none"
    BY <1>6, <2>1, AnsweredFinite, PayloadsFinite
  <2>2. CASE r.completion # "none"
    BY <1>2, <2>2 DEF Core
  <2> QED BY <2>1, <2>2
<1>8. Core(written)
  <2>1. \A i \in Payloads : written.at[i] \in Stages[Body[i]]
    BY <1>3, PayloadsFinite DEF Core, Stages
  <2>2. \A i \in Payloads : written.at[i] = "queued" => r.at[i] = "queued"
    BY <1>3
  <2>3. r.completion = "answered" => Answered(written) = Payloads
    BY <1>4 DEF Core
  <2> QED BY <1>2, <1>3, <1>7, <2>1, <2>2, <2>3 DEF Core
<1>9. CASE S # {} /\ Pending(written) = 0
  <2>1. WriteResults(p, r, S) = Complete(written, "answered")
    BY <1>9 DEF WriteResults, written, w, lines
  <2>2. Answered(written) = Payloads
    BY <1>9, PendingIsOpen
  <2> QED BY <1>3, <1>8, <2>1, <2>2, CompleteSound DEF Open
<1>10. CASE ~ (S # {} /\ Pending(written) = 0)
  <2>1. WriteResults(p, r, S) = written
    BY <1>10 DEF WriteResults, written, w, lines
  <2>2. r.completion = "none" => Answered(written) # Payloads
    BY <1>4, <1>10, PendingIsOpen DEF Open
  <2>3. Open(written)
    BY <1>3, <1>6, <2>2 DEF Open
  <2> QED BY <1>3, <1>8, <2>1, <2>3
<1> QED BY <1>9, <1>10

\* All credentials are saved and the messages are dispatched.
Unsaved(r) == {i \in OfKind("credentials") : r.at[i] = "waiting"}
Begun(r) ==
  [r EXCEPT !.at = [i \in Payloads |-> IF i \in OfKind("message") THEN "getting" ELSE r.at[i]]]

LEMMA BegunCore ==
  ASSUME NEW r, Core(r), Open(r), r.completion = "none", Unsaved(r) = {},
         \A i \in Payloads : /\ Body[i] # "credentials" => r.at[i] = "waiting"
                             /\ r.at[i] # "saving"
  PROVE  LET s == Begun(r) IN
         /\ Core(s) /\ Open(s) /\ Answered(s) = Answered(r)
         /\ OfKind("unknown") \in SUBSET Payloads /\ OfKind("unknown") \cap Answered(s) = {}
         /\ s.out = r.out /\ s.chain = r.chain /\ s.keyed = r.keyed /\ s.closed = r.closed
         /\ s.phase = r.phase /\ s.completion = r.completion
         /\ \A i \in Payloads : /\ Body[i] = "credentials" => s.at[i] = "answered"
                                /\ Body[i] = "message" => s.at[i] = "getting"
<1> DEFINE begun == [i \in Payloads |-> IF i \in OfKind("message") THEN "getting" ELSE r.at[i]]
           dispatched == [r EXCEPT !.at = begun]
<1>0. r \in RequestType /\ r.at \in [Payloads -> {"waiting", "saving", "getting", "queued", "answered"}]
  BY DEF Core, RequestType
<1>1. r.completion = "none" /\ Unsaved(r) = {}
  OBVIOUS
<1>2. /\ dispatched \in RequestType /\ dispatched.at = begun
      /\ dispatched.phase = r.phase /\ dispatched.keyed = r.keyed /\ dispatched.out = r.out
      /\ dispatched.completion = "none" /\ dispatched.chain = r.chain /\ dispatched.holds = r.holds
      /\ dispatched.closed = r.closed
  <2>1. begun \in [Payloads -> {"waiting", "saving", "getting", "queued", "answered"}]
    BY <1>0
  <2> HIDE DEF begun
  <2> QED BY <1>0, <1>1, <2>1 DEF RequestType
<1>3. \A i \in Payloads :
        /\ Body[i] = "credentials" => begun[i] = "answered"
        /\ Body[i] = "message" => begun[i] = "getting" /\ r.at[i] = "waiting"
        /\ Body[i] = "unknown" => begun[i] = "waiting"
  BY <1>0, <1>1, PayloadsFinite DEF Unsaved, OfKind, Core, Stages
<1>4. Answered(dispatched) = Answered(r)
  BY <1>0, <1>1, <1>2, <1>3, PayloadsFinite DEF Answered, Unsaved, OfKind, Core, Stages
<1>5. Core(dispatched) /\ Open(dispatched)
  <2>1. \A i \in Payloads : begun[i] \in Stages[Body[i]] /\ begun[i] # "queued"
    BY <1>3, PayloadsFinite DEF Stages
  <2> HIDE DEF begun, dispatched
  <2> QED BY <1>1, <1>2, <1>4, <2>1 DEF Core, Open
<1>6. OfKind("unknown") \in SUBSET Payloads /\ OfKind("unknown") \cap Answered(dispatched) = {}
  <2> HIDE DEF begun, dispatched
  <2> QED BY <1>2, <1>3 DEF OfKind, Answered
<1>7. Begun(r) = dispatched
  BY DEF Begun
<1> HIDE DEF begun, dispatched
<1> QED BY <1>1, <1>2, <1>3, <1>4, <1>5, <1>6, <1>7

\* The route handler goes on once nothing is being saved.
LEMMA ProceedSound ==
  ASSUME NEW p \in Requests, NEW r, Core(r), Open(r),
         \A i \in Payloads : /\ Body[i] # "credentials" => r.at[i] = "waiting"
                             /\ r.at[i] # "saving"
  PROVE  Sound(Proceed(p, r))
<1> DEFINE unsaved == {i \in OfKind("credentials") : r.at[i] = "waiting"}
           first == CHOOSE i \in unsaved : \A j \in unsaved : i <= j
           saving == [r EXCEPT !.at[first] = "saving"]
           s == WriteResults(p, Begun(r), OfKind("unknown"))
<1>0. r \in RequestType /\ r.at \in [Payloads -> {"waiting", "saving", "getting", "queued", "answered"}]
  BY DEF Core, RequestType
<1>1. CASE r.completion # "none"
  <2>1. Saving(r)
    BY <1>1 DEF Saving
  <2> QED BY <1>1, <2>1 DEF Proceed, Sound
<1>2. CASE r.completion = "none" /\ unsaved # {}
  <2>1. first \in unsaved
    <3>1. unsaved \subseteq Nat
      BY PayloadsFinite DEF OfKind
    <3> QED BY <1>2, <3>1, LeastNatural
  <2>2. first \in Payloads /\ Body[first] = "credentials" /\ r.at[first] = "waiting"
    BY <2>1 DEF OfKind
  <2>3. Proceed(p, r) = saving
    BY <1>2 DEF Proceed, GoOn
  <2> HIDE DEF first
  <2>4. /\ saving \in RequestType
        /\ saving.at = [r.at EXCEPT ![first] = "saving"]
        /\ saving.phase = r.phase /\ saving.keyed = r.keyed /\ saving.out = r.out
        /\ saving.completion = "none" /\ saving.chain = r.chain /\ saving.holds = r.holds
    BY <1>0, <1>2, <2>2 DEF RequestType
  <2> HIDE DEF saving
  <2>5. Answered(saving) = Answered(r)
    BY <1>0, <2>2, <2>4 DEF Answered
  <2>6. \A i \in Payloads : saving.at[i] \in Stages[Body[i]]
    BY <1>0, <2>2, <2>4 DEF Core, Stages
  <2>7. \A i \in Payloads : saving.at[i] = "queued" => r.at[i] = "queued"
    BY <1>0, <2>2, <2>4
  <2>8. Core(saving)
    BY <1>2, <2>4, <2>6, <2>7 DEF Core
  <2>9. Saving(saving)
    BY <1>0, <2>2, <2>4 DEF Saving
  <2> QED BY <1>2, <2>3, <2>4, <2>5, <2>8, <2>9 DEF Sound, Open
<1>3. CASE r.completion = "none" /\ unsaved = {}
  <2>1. Proceed(p, r) = s
    BY <1>3 DEF Proceed, GoOn, Begun
  <2>2. /\ Core(Begun(r)) /\ Open(Begun(r))
        /\ OfKind("unknown") \in SUBSET Payloads /\ OfKind("unknown") \cap Answered(Begun(r)) = {}
        /\ \A i \in Payloads : /\ Body[i] = "credentials" => Begun(r).at[i] = "answered"
                               /\ Body[i] = "message" => Begun(r).at[i] = "getting"
    BY <1>3, BegunCore DEF Unsaved
  <2>3. /\ Core(s) /\ Open(s)
        /\ s.at = [i \in Payloads |-> IF i \in OfKind("unknown") THEN "answered" ELSE Begun(r).at[i]]
    BY <2>2, WriteResultsSound
  <2> HIDE DEF s
  <2>4. Dispatched(s)
    BY <2>2, <2>3, PayloadsFinite DEF Dispatched, Saved, OfKind
  <2> QED BY <2>1, <2>3, <2>4 DEF Sound
<1> QED BY <1>1, <1>2, <1>3

-----------------------------------------------------------------------------
(* Every step keeps the type and what a run keeps. *)

RunType == TypeOK /\ RunInv

LEMMA RunInit == Init => RunType
<1> SUFFICES ASSUME Init PROVE RunType
  OBVIOUS
<1>1. \A x \in Requests : req[x] \in RequestType /\ req[x].phase = "unsent" /\ Fresh(req[x])
  BY DEF Init, RequestType, Phases, Fresh, Early
<1>2. req \in [Requests -> RequestType]
  BY <1>1 DEF Init
<1>3. 0 \in 0..Cardinality(Requests) /\ 0 \in 0..MaxFaults
  BY HttpAssumption, FS_CardinalityType
<1>4. RunInv
  BY <1>1 DEF RunInv
<1>5. TypeOK
  <2>1. /\ status \in {"none", "in-progress", "complete"} /\ list \in Seq(Lines)
        /\ executions \in 0..Cardinality(Requests) /\ faults \in 0..MaxFaults
    BY <1>3 DEF Init
  <2>2. \A p \in Requests : req[p].phase \in {"running", "done"} => Len(req[p].out) <= Len(Body)
    BY <1>1
  <2> QED BY <1>2, <2>1, <2>2 DEF TypeOK
<1> QED BY <1>4, <1>5 DEF RunType

\* A step of one request, which then is a sound run, or one that is not started.
LEMMA OneRequest ==
  ASSUME RunType, NEW x \in Requests, NEW s, req' = [req EXCEPT ![x] = s],
         s \in RequestType,
         s.phase \in {"running", "done"} => Sound(s),
         s.phase \notin {"running", "done", "lost"} => Fresh(s)
  PROVE  /\ RunInv' /\ req' \in [Requests -> RequestType]
         /\ \A p \in Requests : req'[p].phase \in {"running", "done"} => Len(req'[p].out) <= Len(Body)
<1>1. req' \in [Requests -> RequestType] /\ \A y \in Requests : req'[y] = IF y = x THEN s ELSE req[y]
  BY DEF RunType, TypeOK
<1>2. RunInv'
  BY <1>1 DEF RunType, RunInv
<1>3. \A p \in Requests : req'[p].phase \in {"running", "done"} => Len(req'[p].out) <= Len(Body)
  BY <1>2 DEF RunInv, Sound, Core
<1> QED BY <1>1, <1>2, <1>3

\* A run that goes on.
LEMMA SoundStep ==
  ASSUME RunType, NEW x \in Requests, NEW s, req' = [req EXCEPT ![x] = s],
         Sound(s), status' \in {"none", "in-progress", "complete"}, list' \in Seq(Lines),
         executions' \in 0..Cardinality(Requests), faults' \in 0..MaxFaults
  PROVE  RunType'
<1>1. s \in RequestType /\ s.phase \in {"running", "done"}
  BY DEF Sound, Core
<1> QED BY <1>1, OneRequest DEF RunType, TypeOK

\* A request that moves on without running.
LEMMA ToType ==
  ASSUME RunType, NEW x \in Requests, NEW phase \in Phases \ {"running", "done", "lost"},
         To(x, phase), req[x].phase \in Early \cup {"replaying"},
         phase \in Early => req[x].phase \in Early
  PROVE  /\ RunInv' /\ req' \in [Requests -> RequestType]
         /\ \A p \in Requests : req'[p].phase \in {"running", "done"} => Len(req'[p].out) <= Len(Body)
<1> DEFINE s == [req[x] EXCEPT !.phase = phase]
<1>1. req' = [req EXCEPT ![x] = s]
  BY DEF To
<1>2. /\ s \in RequestType /\ s.phase = phase
      /\ \A f \in {"at", "completion", "chain", "closed", "out"} : s[f] = req[x][f]
  BY DEF RunType, TypeOK, RequestType
<1>3. Fresh(req[x])
  BY DEF RunType, RunInv, Early
<1> HIDE DEF s
<1>4. Fresh(s)
  BY <1>2, <1>3 DEF Fresh, Early
<1> QED BY <1>1, <1>2, <1>4, OneRequest

\* A run begins with all payloads waiting.
LEMMA BegunSound ==
  ASSUME NEW p \in Requests, NEW r \in RequestType, r.phase = "running", r.completion = "none",
         r.at = [i \in Payloads |-> "waiting"], r.chain = << >>, r.out = << >>
  PROVE  Sound(Proceed(p, r))
<1>1. Core(r) /\ Open(r)
  <2>1. Answered(r) = {}
    BY DEF Answered
  <2>2. \A i \in Payloads : r.at[i] \in Stages[Body[i]] /\ r.at[i] # "queued"
    BY PayloadsFinite DEF Stages
  <2>3. Payloads # {}
    BY PayloadsFinite
  <2>4. << >> \in Seq(Lines) /\ Len(r.out) = 0
    OBVIOUS
  <2> QED BY <2>1, <2>2, <2>3, <2>4, PayloadsFinite, FS_EmptySet DEF Core, Open
<1> QED BY <1>1, ProceedSound

\* A request arrives; without an id it runs at once.
LEMMA SendRuns ==
  ASSUME RunType, NEW p \in Requests, Send(p)
  PROVE  RunType'
<1>1. CASE To(p, "looking") \/ To(p, "claiming")
  <2>1. /\ RunInv' /\ req' \in [Requests -> RequestType]
        /\ \A q \in Requests : req'[q].phase \in {"running", "done"} => Len(req'[q].out) <= Len(Body)
    BY <1>1, ToType DEF Send, Early, Phases, Final
  <2> QED BY <2>1 DEF Send, RunType, TypeOK
<1>2. CASE Become(p, Proceed(p, [req[p] EXCEPT !.phase = "running"]))
  <2> DEFINE r == [req[p] EXCEPT !.phase = "running"]
  <2>1. Fresh(req[p]) /\ req[p] \in RequestType /\ req[p].phase = "unsent"
    BY DEF Send, RunType, RunInv, TypeOK
  <2>2. /\ r \in RequestType /\ r.phase = "running" /\ r.completion = "none"
        /\ r.at = [i \in Payloads |-> "waiting"] /\ r.chain = << >> /\ r.out = << >>
    BY <2>1 DEF RequestType, Phases, Fresh, Early
  <2> HIDE DEF r
  <2>4. Sound(Proceed(p, r))
    BY <2>2, BegunSound
  <2> QED BY <1>2, <2>4, SoundStep DEF Send, Become, r, RunType, TypeOK
<1> QED BY <1>1, <1>2 DEF Send

LEMMA ClearRuns ==
  ASSUME RunType, OwnerInv, NEW p \in Requests, Clear(p)
  PROVE  RunType'
<1> DEFINE r == [req[p] EXCEPT !.phase = "running", !.keyed = TRUE]
<1>1. Fresh(req[p]) /\ req[p] \in RequestType /\ req[p].phase = "clearing"
  BY DEF Clear, RunType, RunInv, TypeOK
<1>2. /\ r \in RequestType /\ r.phase = "running" /\ r.completion = "none"
      /\ r.at = [i \in Payloads |-> "waiting"] /\ r.chain = << >> /\ r.out = << >>
  BY <1>1 DEF RequestType, Phases, Fresh, Early
<1>3. Become(p, Proceed(p, r))
  BY DEF Clear
<1> HIDE DEF r
<1>4. Sound(Proceed(p, r))
  BY <1>2, BegunSound
<1>5. executions' \in 0..Cardinality(Requests)
  <2>1. executions' = 1
    BY DEF Clear, OwnerInv
  <2>2. Cardinality(Requests) \in Nat /\ Cardinality(Requests) # 0
    BY HttpAssumption, FS_CardinalityType, FS_EmptySet
  <2> QED BY <2>1, <2>2
<1>6. list' \in Seq(Lines)
  BY DEF Clear
<1> QED BY <1>3, <1>4, <1>5, <1>6, SoundStep DEF Clear, Become, RunType, TypeOK

\* What a request without a run does at Redis.
LEMMA MoveRuns ==
  ASSUME RunType, NEW p \in Requests,
         \/ Claim(p) \/ Read(p) \/ ClaimAgain(p) \/ LookUp(p)
         \/ RedisRejects(p) \/ ClaimSentTwice(p)
  PROVE  RunType'
<1>1. \E phase \in Phases \ {"running", "done", "lost"} :
        /\ To(p, phase) /\ req[p].phase \in Early \cup {"replaying"}
        /\ phase \in Early => req[p].phase \in Early
  BY DEF Claim, Read, ClaimAgain, LookUp, RedisRejects, ClaimSentTwice, Early, Phases, Final
<1>2. /\ RunInv' /\ req' \in [Requests -> RequestType]
      /\ \A q \in Requests : req'[q].phase \in {"running", "done"} => Len(req'[q].out) <= Len(Body)
  BY <1>1, ToType
<1>3. /\ status' \in {"none", "in-progress", "complete"} /\ list' \in Seq(Lines)
      /\ executions' = executions
  <2>1. << >> \in Seq(Lines)
    OBVIOUS
  <2>2. status' \in {status, "in-progress"} /\ list' \in {list, << >>} /\ executions' = executions
    BY DEF Claim, Read, ClaimAgain, LookUp, RedisRejects, ClaimSentTwice
  <2> QED BY <2>1, <2>2 DEF RunType, TypeOK
<1>4. faults' \in 0..MaxFaults
  BY HttpAssumption DEF Claim, Read, ClaimAgain, LookUp, RedisRejects, ClaimSentTwice, Fault, RunType, TypeOK
<1> QED BY <1>2, <1>3, <1>4 DEF RunType, TypeOK

LEMMA ReplayRuns ==
  ASSUME RunType, NEW x \in Requests, ReplayBatch(x)
  PROVE  RunType'
<1> DEFINE last == IF Len(list) < Len(req[x].out) + BatchSize
                   THEN Len(list) ELSE Len(req[x].out) + BatchSize
           batch == SubSeq(list, Len(req[x].out) + 1, last)
           out == req[x].out \o batch
           phase == IF Len(batch) < BatchSize THEN "replayed" ELSE req[x].phase
           s == [req[x] EXCEPT !.out = out, !.phase = phase]
<1>1. req[x] \in RequestType /\ Fresh(req[x]) /\ req[x].phase = "replaying" /\ list \in Seq(Lines)
  BY DEF ReplayBatch, RunType, RunInv, TypeOK
<1>2. out \in Seq(Lines)
  <2>1. req[x].out \in Seq(Lines) /\ Len(req[x].out) \in Nat /\ Len(list) \in Nat
    BY <1>1 DEF RequestType
  <2>2. last \in Nat /\ last <= Len(list)
    BY <2>1, HttpAssumption
  <2> HIDE DEF last
  <2>3. batch \in Seq(Lines)
    <3>1. \A i \in (Len(req[x].out) + 1)..last : list[i] \in Lines
      BY <1>1, <2>1, <2>2
    <3> QED BY <1>1, <2>1, <2>2, <3>1
  <2> HIDE DEF batch
  <2> QED BY <2>1, <2>3
<1>3. phase \in {"replaying", "replayed"}
  BY <1>1
<1>4. req' = [req EXCEPT ![x] = s]
  BY DEF ReplayBatch, Become
<1> HIDE DEF out, phase
<1>5. s \in RequestType /\ s.phase = phase /\ Fresh(s)
  <2>1. /\ s.phase = phase /\ s.at = req[x].at /\ s.completion = req[x].completion
        /\ s.chain = req[x].chain /\ s.closed = req[x].closed
    BY <1>1 DEF RequestType
  <2>2. s \in RequestType
    BY <1>1, <1>2, <1>3 DEF RequestType, Phases, Final
  <2> HIDE DEF s
  <2> QED BY <1>1, <1>3, <2>1, <2>2 DEF Fresh, Early
<1> HIDE DEF s
<1>6. /\ RunInv' /\ req' \in [Requests -> RequestType]
      /\ \A q \in Requests : req'[q].phase \in {"running", "done"} => Len(req'[q].out) <= Len(Body)
  BY <1>3, <1>4, <1>5, OneRequest
<1> QED BY <1>6 DEF ReplayBatch, RunType, TypeOK

\* The mark of the completion is no line.
LEMMA MarkIsNoLine == <<"complete">> \notin Lines
BY DEF Lines

\* Redis has carried out, or not, the head of the chain.
LEMMA ChainSound ==
  ASSUME RunType, NEW p \in Requests, req[p].phase = "running", req[p].chain # << >>
  PROVE  /\ Sound(req[p]) /\ Sound(ChainGoesOn(p))
         /\ Head(req[p].chain) # <<"complete">> => Head(req[p].chain) \in Lines
         /\ Head(req[p].chain) = <<"complete">> => Sound(Finish(ChainGoesOn(p)))
<1> DEFINE r == req[p]
           s == ChainGoesOn(p)
<1>1. Sound(r) /\ r \in RequestType
  BY DEF RunType, RunInv, TypeOK
<1>2. /\ r.chain \in Seq(Lines \cup {<<"complete">>}) /\ r.chain # << >> /\ r.phase = "running"
  BY <1>1 DEF RequestType
<1> HIDE DEF r
<1>3. /\ Head(r.chain) \in Lines \cup {<<"complete">>}
      /\ Tail(r.chain) \in Seq(Lines \cup {<<"complete">>})
      /\ r.completion = "none" => Tail(r.chain) \in Seq(Lines) /\ Head(r.chain) \in Lines
  BY <1>1, <1>2 DEF Sound, Core
<1>4. /\ s \in RequestType /\ s.chain = Tail(r.chain)
      /\ s.phase = r.phase /\ s.keyed = r.keyed /\ s.at = r.at /\ s.out = r.out
      /\ s.completion = r.completion /\ s.holds = r.holds
  BY <1>1, <1>3 DEF ChainGoesOn, r, RequestType
<1> HIDE DEF s
<1>5. r.keyed
  BY <1>1, <1>2 DEF Sound, Core
<1>6. Answered(s) = Answered(r)
  BY <1>4 DEF Answered
<1>7. Sound(s)
  <2>1. Core(s)
    BY <1>1, <1>3, <1>4, <1>5, <1>6 DEF Sound, Core
  <2> QED BY <1>1, <1>4, <1>6, <2>1 DEF Sound, Open, Saving, Dispatched, Saved
<1>8. ASSUME Head(r.chain) = <<"complete">> PROVE Sound(Finish(s))
  <2>1. r.completion # "none"
    BY <1>3, <1>8, MarkIsNoLine
  <2>2. /\ Finish(s) \in RequestType /\ Finish(s).chain = s.chain
        /\ Finish(s).phase = "done" /\ Finish(s).keyed = s.keyed /\ Finish(s).at = s.at
        /\ Finish(s).out = s.out /\ Finish(s).completion = s.completion
    BY <1>4 DEF Finish, RequestType, Phases, Final
  <2>3. Answered(Finish(s)) = Answered(s)
    BY <2>2 DEF Answered
  <2>4. Core(Finish(s))
    BY <1>4, <1>5, <1>7, <2>1, <2>2, <2>3 DEF Sound, Core
  <2> QED BY <1>4, <1>7, <2>1, <2>2, <2>3, <2>4 DEF Sound, Open, Saving, Dispatched, Saved
<1> QED BY <1>1, <1>3, <1>7, <1>8 DEF r, s

\* Redis carries out, refuses or repeats a write of the run.
LEMMA WriteRuns ==
  ASSUME RunType, NEW p \in Requests,
         RedisAppends(p) \/ RedisCompletes(p) \/ WriteRejected(p) \/ LineSentTwice(p)
  PROVE  RunType'
<1>1. req[p].phase = "running" /\ req[p].chain # << >>
  BY DEF RedisAppends, RedisCompletes, WriteRejected, LineSentTwice
<1>2. \E s : Become(p, s) /\ Sound(s)
  BY <1>1, ChainSound DEF RedisAppends, RedisCompletes, WriteRejected, LineSentTwice
<1>3. list' \in Seq(Lines)
  <2>1. list \in Seq(Lines)
    BY DEF RunType, TypeOK
  <2>2. CASE RedisAppends(p)
    <3>1. Head(req[p].chain) \in Lines
      BY <1>1, <2>2, ChainSound DEF RedisAppends
    <3> QED BY <2>1, <2>2, <3>1 DEF RedisAppends
  <2>3. CASE LineSentTwice(p)
    <3>1. Head(req[p].chain) \in Lines
      BY <1>1, <2>3, ChainSound DEF LineSentTwice
    <3>2. <<Head(req[p].chain), Head(req[p].chain)>> \in Seq(Lines)
      BY <3>1
    <3> QED BY <2>1, <2>3, <3>2 DEF LineSentTwice
  <2> QED BY <2>1, <2>2, <2>3 DEF RedisCompletes, WriteRejected
<1>4. /\ status' \in {"none", "in-progress", "complete"}
      /\ executions' \in 0..Cardinality(Requests) /\ faults' \in 0..MaxFaults
  BY HttpAssumption
     DEF RedisAppends, RedisCompletes, WriteRejected, LineSentTwice, Fault, RunType, TypeOK
<1> QED BY <1>2, <1>3, <1>4, SoundStep DEF Become

\* The callbacks, the timers and the client.
LEMMA CredentialsSound ==
  ASSUME RunType, NEW p \in Requests, NEW i \in Payloads, CredentialsAnswered(p, i)
  PROVE  Sound(Proceed(p, WriteResults(p, req[p], {i})))
<1> DEFINE r == req[p]
           s == WriteResults(p, r, {i})
<1>1. Sound(r) /\ r.at[i] = "saving"
  BY DEF CredentialsAnswered, Alive, RunType, RunInv
<1> HIDE DEF r
<1>2. Body[i] = "credentials"
  BY <1>1, PayloadsFinite DEF Sound, Core, Stages
<1>3. Saving(r)
  BY <1>1, <1>2 DEF Sound, Dispatched, Saved, OfKind
<1>4. {i} \in SUBSET Payloads /\ {i} \cap Answered(r) = {}
  BY <1>1 DEF Answered
<1>5. /\ Core(s) /\ Open(s)
      /\ s.at = [j \in Payloads |-> IF j \in {i} THEN "answered" ELSE r.at[j]]
  BY <1>1, <1>4, WriteResultsSound DEF Sound
<1> HIDE DEF s
<1>6. \A j \in Payloads : /\ Body[j] # "credentials" => s.at[j] = "waiting"
                          /\ s.at[j] # "saving"
  BY <1>1, <1>2, <1>3, <1>5 DEF Saving
<1>7. Sound(Proceed(p, s))
  BY <1>5, <1>6, ProceedSound
<1> QED BY <1>7 DEF r, s

LEMMA MessageSound ==
  ASSUME RunType, NEW p \in Requests, NEW i \in Payloads, Alive(p),
         req[p].at[i] \in {"getting", "queued"}
  PROVE  /\ Body[i] = "message" /\ Dispatched(req[p]) /\ Core(req[p]) /\ Open(req[p])
         /\ req[p] \in RequestType /\ i \notin Answered(req[p])
<1>1. Sound(req[p]) /\ req[p] \in RequestType
  BY DEF Alive, RunType, RunInv, TypeOK
<1>2. Body[i] = "message"
  BY <1>1, PayloadsFinite DEF Sound, Core, Stages
<1>3. Dispatched(req[p])
  BY <1>1, <1>2 DEF Sound, Saving
<1> QED BY <1>1, <1>2, <1>3 DEF Sound, Answered

LEMMA CallbackRuns ==
  ASSUME RunType, NEW p \in Requests, NEW i \in Payloads,
         CredentialsAnswered(p, i) \/ GetReturns(p, i) \/ MessageAnswered(p, i)
  PROVE  RunType'
<1>1. /\ status' \in {"none", "in-progress", "complete"} /\ list' \in Seq(Lines)
      /\ executions' \in 0..Cardinality(Requests) /\ faults' \in 0..MaxFaults
  BY DEF CredentialsAnswered, GetReturns, MessageAnswered, RunType, TypeOK
<1>2. CASE CredentialsAnswered(p, i)
  BY <1>1, <1>2, CredentialsSound, SoundStep DEF CredentialsAnswered, Become
<1>3. CASE GetReturns(p, i)
  <2> DEFINE r == req[p]
             s == [r EXCEPT !.at[i] = "queued", !.holds = TRUE]
  <2>1. /\ Body[i] = "message" /\ Dispatched(r) /\ Core(r) /\ Open(r)
        /\ r \in RequestType /\ r.at[i] = "getting"
    BY <1>3, MessageSound DEF GetReturns
  <2>2. Become(p, s)
    BY <1>3 DEF GetReturns
  <2> HIDE DEF r
  <2>3. /\ s \in RequestType /\ s.at = [r.at EXCEPT ![i] = "queued"]
        /\ r.at \in [Payloads -> {"waiting", "saving", "getting", "queued", "answered"}]
        /\ s.phase = r.phase /\ s.keyed = r.keyed /\ s.out = r.out /\ s.chain = r.chain
        /\ s.completion = r.completion /\ s.holds = TRUE
    BY <2>1 DEF RequestType
  <2> HIDE DEF s
  <2>4. Answered(s) = Answered(r)
    BY <2>1, <2>3 DEF Answered
  <2>5. Core(s)
    <3>1. \A j \in Payloads : s.at[j] \in Stages[Body[j]]
      BY <2>1, <2>3 DEF Core, Stages
    <3> QED BY <2>1, <2>3, <2>4, <3>1 DEF Core
  <2>6. Open(s) /\ Dispatched(s)
    BY <2>1, <2>3, <2>4 DEF Open, Dispatched, Saved, OfKind
  <2>7. Sound(s)
    BY <2>5, <2>6 DEF Sound
  <2> QED BY <1>1, <2>2, <2>7, SoundStep DEF Become
<1>4. CASE MessageAnswered(p, i)
  <2> DEFINE r == req[p]
             s == WriteResults(p, r, {i})
  <2>1. Dispatched(r) /\ Core(r) /\ Open(r) /\ i \notin Answered(r)
    BY <1>4, MessageSound DEF MessageAnswered
  <2>2. Become(p, s)
    BY <1>4 DEF MessageAnswered
  <2> HIDE DEF r
  <2>3. {i} \in SUBSET Payloads /\ {i} \cap Answered(r) = {}
    BY <2>1
  <2>4. /\ Core(s) /\ Open(s)
        /\ s.at = [j \in Payloads |-> IF j \in {i} THEN "answered" ELSE r.at[j]]
    BY <2>1, <2>3, WriteResultsSound
  <2> HIDE DEF s
  <2>5. Dispatched(s)
    BY <2>1, <2>4 DEF Dispatched, Saved, OfKind
  <2>6. Sound(s)
    BY <2>4, <2>5 DEF Sound
  <2> QED BY <1>1, <2>2, <2>6, SoundStep DEF Become
<1> QED BY <1>2, <1>3, <1>4

LEMMA TimeoutRuns ==
  ASSUME RunType, NEW p \in Requests, Timeout(p)
  PROVE  RunType'
<1> DEFINE q == req[p]
           r == IF q.closed THEN q ELSE Write(q, <<<<p, 0>>>>)
           s == Complete(r, "timeout")
<1>1. Sound(q) /\ q.phase = "running" /\ q.completion = "none" /\ q \in RequestType
  BY DEF Timeout, RunType, RunInv, TypeOK
<1>2. Become(p, s)
  BY DEF Timeout
<1>3. <<<<p, 0>>>> \in Seq(Lines)
  <2>1. <<p, 0>> \in Lines
    BY DEF Lines
  <2> QED BY <2>1
<1> HIDE DEF q
<1>4. /\ r \in RequestType
      /\ r.phase = q.phase /\ r.keyed = q.keyed /\ r.at = q.at
      /\ r.completion = q.completion /\ r.holds = q.holds
      /\ r.out \in {q.out, q.out \o <<<<p, 0>>>>}
      /\ ~ q.keyed => r.chain = q.chain
      /\ r.chain \in Seq(Lines)
  BY <1>1, <1>3, WriteType DEF Sound, Core
<1>5. Answered(r) = Answered(q)
  BY <1>4 DEF Answered
<1>6. Len(r.out) <= Len(Body)
  <2>1. q.out \in Seq(Lines)
    BY <1>1 DEF RequestType
  <2>2. Len(r.out) <= Len(q.out) + 1 /\ Len(q.out) \in Nat /\ Len(r.out) \in Nat
    <3> DEFINE line == <<p, 0>>
    <3>1. line \in Lines
      BY DEF Lines
    <3>2. r.out = q.out \/ r.out = q.out \o <<line>>
      BY <1>4
    <3> HIDE DEF line
    <3>3. Len(q.out) \in Nat /\ Len(q.out \o <<line>>) = Len(q.out) + 1
      BY <2>1, <3>1
    <3> QED BY <3>2, <3>3
  <2>3. Len(q.out) < Len(Body)
    BY <1>1, <2>2, AnsweredFinite, PayloadsFinite DEF Sound, Open
  <2> QED BY <2>2, <2>3, PayloadsFinite
<1> HIDE DEF r
<1>7. Core(r)
  BY <1>1, <1>4, <1>5, <1>6 DEF Sound, Core
<1>8. Core(s) /\ s.completion # "none" /\ s.at = r.at
  BY <1>7, CompleteSound
<1> HIDE DEF s
<1>9. Sound(s)
  BY <1>1, <1>4, <1>8 DEF Sound, Open, Saving, Dispatched, Saved
<1> QED BY <1>2, <1>9, SoundStep DEF Timeout, Become, RunType, TypeOK

LEMMA DisconnectRuns ==
  ASSUME RunType, NEW p \in Requests, Disconnect(p)
  PROVE  RunType'
<1> DEFINE r == req[p]
           s == [r EXCEPT !.closed = TRUE]
<1>1. Sound(r) /\ r \in RequestType
  BY DEF Disconnect, RunType, RunInv, TypeOK
<1>2. Become(p, s)
  BY DEF Disconnect
<1> HIDE DEF r
<1>3. /\ s \in RequestType
      /\ s.phase = r.phase /\ s.keyed = r.keyed /\ s.at = r.at /\ s.out = r.out
      /\ s.completion = r.completion /\ s.holds = r.holds /\ s.chain = r.chain
  BY <1>1 DEF RequestType
<1> HIDE DEF s
<1>4. Answered(s) = Answered(r)
  BY <1>3 DEF Answered
<1>5. Sound(s)
  BY <1>1, <1>3, <1>4 DEF Sound, Core, Open, Saving, Dispatched, Saved
<1> QED BY <1>2, <1>5, SoundStep DEF Disconnect, Become, RunType, TypeOK

\* The server dies, or the keys expire.
LEMMA CrashRuns ==
  ASSUME RunType, Crash \/ Expire
  PROVE  RunType'
<1>1. CASE Crash
  <2>1. \A x \in Requests : /\ req'[x] \in RequestType
                            /\ req'[x] = req[x] \/ req'[x].phase = "lost"
    <3> SUFFICES ASSUME NEW x \in Requests
                 PROVE  /\ req'[x] \in RequestType
                        /\ req'[x] = req[x] \/ req'[x].phase = "lost"
      OBVIOUS
    <3>1. req[x] \in RequestType
      BY DEF RunType, TypeOK
    <3>2. req'[x] \in {req[x], [req[x] EXCEPT !.phase = "lost"]}
      BY <1>1 DEF Crash
    <3>3. [req[x] EXCEPT !.phase = "lost"] \in RequestType
      BY <3>1 DEF RequestType, Phases, Final
    <3>4. [req[x] EXCEPT !.phase = "lost"].phase = "lost"
      BY <3>1 DEF RequestType
    <3> QED BY <3>1, <3>2, <3>3, <3>4
  <2>2. req' \in [Requests -> RequestType]
    BY <1>1, <2>1 DEF Crash
  <2>3. RunInv'
    BY <2>1 DEF RunType, RunInv
  <2>4. \A p \in Requests : req'[p].phase \in {"running", "done"} => Len(req'[p].out) <= Len(Body)
    BY <2>3 DEF RunInv, Sound, Core
  <2> QED BY <1>1, <2>2, <2>3, <2>4 DEF Crash, RunType, TypeOK
<1>2. CASE Expire
  <2>1. list' \in Seq(Lines) /\ executions' \in 0..Cardinality(Requests)
    BY <1>2, HttpAssumption, FS_CardinalityType DEF Expire
  <2> QED BY <1>2, <2>1 DEF Expire, RunType, TypeOK, RunInv
<1> QED BY <1>1, <1>2

LEMMA RunNext == RunType /\ OwnerInv /\ [Next]_vars => RunType'
<1> SUFFICES ASSUME RunType, OwnerInv, [Next]_vars PROVE RunType'
  OBVIOUS
<1>1. CASE Crash \/ Expire
  BY <1>1, CrashRuns
<1>2. CASE UNCHANGED vars
  BY <1>2 DEF RunType, TypeOK, RunInv, vars
<1>3. ASSUME NEW p \in Requests,
             \/ Send(p) \/ Redis(p) \/ RedisRejects(p) \/ Disconnect(p) \/ Timeout(p)
             \/ WriteRejected(p) \/ ClaimSentTwice(p) \/ LineSentTwice(p)
      PROVE  RunType'
  BY <1>3, SendRuns, ClearRuns, MoveRuns, ReplayRuns, WriteRuns, TimeoutRuns, DisconnectRuns DEF Redis
<1>4. ASSUME NEW p \in Requests, NEW i \in Payloads,
             CredentialsAnswered(p, i) \/ GetReturns(p, i) \/ MessageAnswered(p, i)
      PROVE  RunType'
  BY <1>4, CallbackRuns
<1> QED BY <1>1, <1>2, <1>3, <1>4 DEF Next

LEMMA RunHolds == Spec => [](RunType /\ OwnerInv)
<1>1. Init => RunType /\ OwnerInv
  BY RunInit, OwnerInit
<1>2. RunType /\ OwnerInv /\ [Next]_vars => (RunType /\ OwnerInv)'
  BY RunNext, OwnerNext
<1> QED BY <1>1, <1>2, PTL DEF Spec

\* Every request is well-formed, and a run writes a line per payload at most,
\* the line of its time-out included.
THEOREM TypeCorrect == Spec => []TypeOK
<1>1. RunType => TypeOK
  BY DEF RunType
<1> QED BY <1>1, RunHolds, PTL

\* Messages wait for all credentials of their body and for nothing else, their
\* client gone or not.
THEOREM MessagesFollowCredentialsHolds == Spec => []MessagesFollowCredentials
<1>1. RunType => MessagesFollowCredentials
  <2> SUFFICES ASSUME RunType, NEW p \in Requests, req[p].phase \in {"running", "done"},
                      NEW i \in OfKind("message")
               PROVE  /\ req[p].at[i] # "waiting" => Saved(req[p])
                      /\ Saved(req[p]) /\ req[p].completion = "none" => req[p].at[i] # "waiting"
    BY DEF MessagesFollowCredentials
  <2>1. Sound(req[p]) /\ i \in Payloads /\ Body[i] = "message"
    BY DEF RunType, RunInv, OfKind
  <2>2. CASE Dispatched(req[p])
    BY <2>1, <2>2 DEF Dispatched
  <2>3. CASE Saving(req[p])
    <3>1. req[p].at[i] = "waiting"
      BY <2>1, <2>3 DEF Saving
    <3>2. ASSUME NEW k \in Payloads, req[p].at[k] = "saving" PROVE ~ Saved(req[p])
      BY <2>3, <3>2 DEF Saving, Saved, OfKind
    <3> QED BY <2>3, <3>1, <3>2 DEF Saving
  <2> QED BY <2>1, <2>2, <2>3 DEF Sound
<1> QED BY <1>1, RunHolds, PTL

\* The platform of a queued job is held until the job has its result, unless a
\* time-out let go of it before.
THEOREM QueuedWorkIsHeldHolds == Spec => []QueuedWorkIsHeld
<1>1. RunType => QueuedWorkIsHeld
  <2> SUFFICES ASSUME RunType, NEW p \in Requests, NEW i \in Payloads,
                      req[p].phase \in {"running", "done"}, req[p].at[i] = "queued",
                      req[p].completion # "timeout"
               PROVE  req[p].holds
    BY DEF QueuedWorkIsHeld
  <2>1. Core(req[p])
    BY DEF RunType, RunInv, Sound
  <2>2. i \notin Answered(req[p])
    BY DEF Answered
  <2> QED BY <2>1, <2>2 DEF Core, RequestType
<1> QED BY <1>1, RunHolds, PTL

-----------------------------------------------------------------------------
(* The stream of a run, the list in Redis and what a replay reads of it. *)

IsPrefix(s, t) == Len(s) <= Len(t) /\ \A k \in 1..Len(s) : s[k] = t[k]

Mark == <<"complete">>
Own(p) == {p} \X ({0} \cup Payloads)
Misses(lines) == \E i \in Payloads : \A k \in 1..Len(lines) : lines[k][2] # i

\* The lines of the run that Redis has yet to append.
Recorded(r) ==
  IF r.completion = "none" THEN r.chain ELSE SubSeq(r.chain, 1, Len(r.chain) - 1)

\* The client has what the list has and will have, unless it went away before
\* some line was written.
Streamed(p, r) ==
  /\ r.out \in Seq(Own(p))
  /\ r.keyed /\ r.phase = "running" =>
       /\ Recorded(r) \in Seq(Own(p))
       /\ r.completion # "none" => r.chain = Append(Recorded(r), Mark)
       /\ IsPrefix(r.out, list \o Recorded(r))
       /\ r.out = list \o Recorded(r) \/ (r.closed /\ Misses(r.out))
Told(r) ==
  r.completion = "none" => /\ \A k \in 1..Len(r.out) : r.out[k][2] \in Answered(r)
                           /\ r.closed => Misses(r.out)

\* The list is of one run, which is over if the status says so.
ListInv ==
  /\ status = "none" => list = << >>
  /\ \A p \in Requests :
       Owns(req[p]) => /\ status = "in-progress" /\ list \in Seq(Own(p))
                       /\ req[p].phase = "clearing" => list = << >>
  /\ list # << >> =>
       \E q \in Requests : /\ list \in Seq(Own(q)) /\ req[q].keyed
                           /\ status = "complete" => req[q].phase = "done"

SentInv ==
  \A p \in Requests : req[p].phase \in {"running", "done"} =>
    /\ Streamed(p, req[p]) /\ Told(req[p])
    /\ req[p].keyed /\ req[p].phase = "done" /\ list # << >> /\ list \in Seq(Own(p)) =>
         /\ IsPrefix(req[p].out, list)
         /\ req[p].out = list \/ Misses(req[p].out)

\* A replay that has read lines of one run has read its first ones.
ReadInv ==
  \A x \in Requests : req[x].phase = "replaying" =>
    /\ \A k \in 1..Len(req[x].out) : req[req[x].out[k][1]].keyed
    /\ \A p \in Requests :
         /\ list # << >> \/ Owns(req[p])
         /\ list \in Seq(Own(p)) /\ req[x].out \in Seq(Own(p))
         => IsPrefix(req[x].out, list)

StreamInv == faults = 0 => ListInv /\ SentInv /\ ReadInv

-----------------------------------------------------------------------------

LEMMA OwnLines == ASSUME NEW p \in Requests PROVE Own(p) \subseteq Lines
BY DEF Own, Lines

(* Facts about sequences. *)

LEMMA CatAssoc ==
  ASSUME NEW X, NEW s \in Seq(X), NEW t \in Seq(X), NEW u \in Seq(X)
  PROVE  (s \o t) \o u = s \o (t \o u)
OBVIOUS
LEMMA PrefixCat ==
  ASSUME NEW X, NEW s \in Seq(X), NEW t \in Seq(X), NEW u \in Seq(X), IsPrefix(s, t)
  PROVE  IsPrefix(s, t \o u)
BY DEF IsPrefix
LEMMA CatAt ==
  ASSUME NEW X, NEW s \in Seq(X), NEW t \in Seq(X)
  PROVE  /\ s \o t \in Seq(X) /\ Len(s \o t) = Len(s) + Len(t)
         /\ \A k \in 1..Len(s) : (s \o t)[k] = s[k]
         /\ \A k \in 1..Len(t) : (s \o t)[Len(s) + k] = t[k]
OBVIOUS
LEMMA SubSeqAt ==
  ASSUME NEW X, NEW s \in Seq(X), NEW m \in Nat, NEW n \in Nat, n <= Len(s)
  PROVE  /\ SubSeq(s, m + 1, n) \in Seq(X)
         /\ Len(SubSeq(s, m + 1, n)) = IF m <= n THEN n - m ELSE 0
         /\ \A k \in 1..Len(SubSeq(s, m + 1, n)) : SubSeq(s, m + 1, n)[k] = s[m + k]
<1>1. \A i \in (m + 1)..n : s[i] \in X
  OBVIOUS
<1>2. Len(SubSeq(s, m + 1, n)) = IF m <= n THEN n - m ELSE 0
  OBVIOUS
<1>3. \A k \in 1..Len(SubSeq(s, m + 1, n)) : SubSeq(s, m + 1, n)[k] = s[m + k]
  OBVIOUS
<1> QED BY <1>1, <1>2, <1>3
ComesFrom(u, s, t) ==
  /\ \A k \in 1..Len(s) : u[k] = s[k]
  /\ \A k \in 1..Len(u) : \/ k \in 1..Len(s) /\ u[k] = s[k]
                          \/ k \in 1..Len(t) /\ u[k] = t[k]
LEMMA Extended ==
  ASSUME NEW X, NEW s \in Seq(X), NEW t \in Seq(X), NEW n \in Nat, n <= Len(t),
         NEW u, u = s \o SubSeq(t, Len(s) + 1, n)
  PROVE  /\ u \in Seq(X) /\ Len(s) <= Len(u)
         /\ ComesFrom(u, s, t)
<1>1. PICK v : v = SubSeq(t, Len(s) + 1, n)
  OBVIOUS
<1>2. /\ v \in Seq(X) /\ \A k \in 1..Len(v) : v[k] = t[Len(s) + k]
      /\ Len(v) = IF Len(s) <= n THEN n - Len(s) ELSE 0
  BY <1>1, SubSeqAt
<1>3. u = s \o v
  BY <1>1
<1>4. /\ u \in Seq(X) /\ Len(u) = Len(s) + Len(v)
      /\ \A k \in 1..Len(s) : u[k] = s[k]
      /\ \A k \in 1..Len(v) : u[Len(s) + k] = v[k]
  <2>1. v \in Seq(X)
    BY <1>2
  <2>2. /\ s \o v \in Seq(X) /\ Len(s \o v) = Len(s) + Len(v)
        /\ \A k \in 1..Len(s) : (s \o v)[k] = s[k]
        /\ \A k \in 1..Len(v) : (s \o v)[Len(s) + k] = v[k]
    BY <2>1
  <2> QED BY <1>3, <2>2, Zenon
<1>5. ASSUME NEW k \in 1..Len(u), k \notin 1..Len(s)
      PROVE  k \in 1..Len(t) /\ u[k] = t[k]
  <2>1. PICK m \in 1..Len(v) : k = Len(s) + m
    <3>1. Len(s) \in Nat /\ Len(v) \in Nat /\ k \in Nat /\ ~ (k <= Len(s)) /\ k <= Len(s) + Len(v)
      BY <1>2, <1>4, <1>5
    <3>2. \A a, b, c \in Nat : ~ (c <= a) /\ c <= a + b => \E m \in 1..b : c = a + m
      <4> TAKE a, b, c \in Nat
      <4> HAVE ~ (c <= a) /\ c <= a + b
      <4>1. c - a \in 1..b /\ c = a + (c - a)
        OBVIOUS
      <4> QED BY <4>1
    <3> QED BY <3>1, <3>2
  <2>2. u[k] = t[k]
    BY <1>2, <1>4, <2>1
  <2>3. Len(s) <= n /\ Len(v) = n - Len(s)
    BY <1>2, <2>1
  <2>4. m \in Nat /\ m <= Len(v) /\ Len(s) \in Nat /\ Len(t) \in Nat
    BY <1>2, <2>1
  <2>5. k \in 1..Len(t)
    BY <1>5, <2>1, <2>3, <2>4
  <2> QED BY <2>2, <2>5
<1> QED BY <1>2, <1>4, <1>5 DEF ComesFrom
LEMMA HeadMoves ==
  ASSUME NEW X, NEW s \in Seq(X), NEW t \in Seq(X), t # << >>
  PROVE  Append(s, Head(t)) \o Tail(t) = s \o t
OBVIOUS
LEMMA FrontAppend ==
  ASSUME NEW X, NEW s \in Seq(X), NEW m
  PROVE  SubSeq(Append(s, m), 1, Len(Append(s, m)) - 1) = s
OBVIOUS

\* Same lines, same stream.
LEMMA StreamedSame ==
  ASSUME NEW p, NEW r, NEW s, Streamed(p, r), s.out = r.out, s.chain = r.chain,
         s.keyed = r.keyed, s.phase = r.phase, s.completion = r.completion, s.closed = r.closed
  PROVE  Streamed(p, s)
BY DEF Streamed, Recorded

LEMMA CompleteStreamed ==
  ASSUME NEW p \in Requests, NEW r \in RequestType, Streamed(p, r), NEW why \in {"answered", "timeout"}
  PROVE  /\ Streamed(p, Complete(r, why))
         /\ Complete(r, why).out = r.out
         /\ r.keyed => Complete(r, why).phase = r.phase
         /\ Complete(r, why).completion # "none"
<1> DEFINE chain == Append(r.chain, Mark)
           marked == [r EXCEPT !.completion = why, !.chain = chain]
           ended == Finish([r EXCEPT !.completion = why])
<1>1. CASE r.completion # "none"
  BY <1>1 DEF Complete
<1>2. CASE r.completion = "none" /\ r.keyed
  <2>1. Complete(r, why) = marked
    BY <1>2 DEF Complete, Mark
  <2>2. /\ marked.out = r.out /\ marked.chain = chain /\ marked.keyed = r.keyed
        /\ marked.phase = r.phase /\ marked.completion = why /\ marked.closed = r.closed
    BY DEF RequestType
  <2>3. r.phase = "running" => /\ Recorded(r) = r.chain /\ r.chain \in Seq(Own(p))
                               /\ Recorded(marked) = r.chain
    <3>1. r.phase = "running" => Recorded(r) = r.chain /\ r.chain \in Seq(Own(p))
      BY <1>2 DEF Streamed, Recorded
    <3> HIDE DEF marked
    <3>2. Recorded(marked) = SubSeq(chain, 1, Len(chain) - 1)
      BY <2>2 DEF Recorded
    <3> QED BY <3>1, <3>2, FrontAppend
  <2> HIDE DEF marked
  <2>4. Streamed(p, marked)
    BY <1>2, <2>2, <2>3 DEF Streamed
  <2> QED BY <2>1, <2>2, <2>4
<1>3. CASE r.completion = "none" /\ ~ r.keyed
  <2>1. Complete(r, why) = ended
    BY <1>3 DEF Complete
  <2>2. ended.out = r.out /\ ended.keyed = r.keyed /\ ended.completion = why
    BY DEF RequestType, Finish
  <2> HIDE DEF ended
  <2> QED BY <1>3, <2>1, <2>2 DEF Streamed
<1> QED BY <1>1, <1>2, <1>3

LEMMA WriteStreamed ==
  ASSUME NEW p \in Requests, NEW r, Core(r), Streamed(p, r), Told(r), list \in Seq(Lines),
         NEW lines \in Seq(Own(p))
  PROVE  /\ Streamed(p, Write(r, lines))
         /\ Write(r, lines).out = IF r.completion # "none" \/ r.closed THEN r.out ELSE r.out \o lines
         /\ Write(r, lines).closed = r.closed
<1> DEFINE chain == IF r.keyed THEN r.chain \o lines ELSE r.chain
           out == IF r.closed THEN r.out ELSE r.out \o lines
           s == [r EXCEPT !.chain = chain, !.out = out]
<1>0. r \in RequestType
  BY DEF Core
<1>1. CASE r.completion # "none"
  BY <1>1 DEF Write
<1>2. CASE r.completion = "none"
  <2>1. Write(r, lines) = s
    BY <1>2 DEF Write
  <2>2. /\ s.out = out /\ s.chain = chain /\ s.keyed = r.keyed /\ s.phase = r.phase
        /\ s.completion = "none" /\ s.closed = r.closed
    BY <1>0, <1>2 DEF RequestType
  <2> HIDE DEF s
  <2>3. out \in Seq(Own(p))
    BY DEF Streamed
  <2>4. ASSUME r.keyed, r.phase = "running"
        PROVE  /\ chain \in Seq(Own(p)) /\ IsPrefix(out, list \o chain)
               /\ out = list \o chain \/ (r.closed /\ Misses(out))
    <3>1. /\ r.chain \in Seq(Own(p)) /\ IsPrefix(r.out, list \o r.chain)
          /\ r.out = list \o r.chain \/ (r.closed /\ Misses(r.out))
          /\ r.closed => Misses(r.out)
      BY <1>2, <2>4 DEF Streamed, Recorded, Told
    <3>2. /\ r.chain \in Seq(Lines) /\ lines \in Seq(Lines) /\ r.out \in Seq(Lines)
      BY <3>1, OwnLines DEF Streamed
    <3>3. list \o chain = (list \o r.chain) \o lines /\ list \o r.chain \in Seq(Lines)
      <4>1. \A c \in Seq(Lines) : list \o (c \o lines) = (list \o c) \o lines
        BY <3>2, CatAssoc
      <4>2. list \o r.chain \in Seq(Lines)
        BY <3>2
      <4> QED BY <2>4, <3>2, <4>1, <4>2
    <3>4. chain \in Seq(Own(p))
      BY <2>4, <3>1
    <3>5. CASE r.closed
      BY <3>1, <3>2, <3>3, <3>4, <3>5, PrefixCat
    <3>6. CASE ~ r.closed
      <4>1. out = list \o chain
        BY <3>1, <3>3, <3>6
      <4>2. IsPrefix(out, out)
        BY DEF IsPrefix
      <4> QED BY <4>1, <4>2, <3>4
    <3> QED BY <3>5, <3>6
  <2> HIDE DEF out, chain
  <2>5. Streamed(p, s)
    BY <2>2, <2>3, <2>4 DEF Streamed, Recorded
  <2> QED BY <1>2, <2>1, <2>2, <2>5 DEF out
<1> QED BY <1>1, <1>2

LEMMA WriteResultsStreamed ==
  ASSUME NEW p \in Requests, NEW r, Core(r), Open(r), Streamed(p, r), Told(r), list \in Seq(Lines),
         NEW S \in SUBSET Payloads, S \cap Answered(r) = {}
  PROVE  LET s == WriteResults(p, r, S) IN
         /\ Streamed(p, s) /\ Told(s)
         /\ r.keyed => s.phase = r.phase
         /\ r.completion # "none" => s.out = r.out
<1> DEFINE lines == LinesOf(p, S)
           w == Write(r, lines)
           written == [w EXCEPT !.at = [i \in Payloads |-> IF i \in S THEN "answered" ELSE @[i]]]
<1>1. lines \in Seq(Own(p)) /\ lines \in Seq(Lines) /\ \A k \in 1..Len(lines) : lines[k][2] \in S
  <2>1. lines \in Seq({p} \X S)
    BY LinesOfTyped
  <2> HIDE DEF lines
  <2>2. {p} \X S \subseteq Own(p)
    BY DEF Own
  <2> QED BY <2>1, <2>2, OwnLines
<1> HIDE DEF lines
<1>2. /\ Streamed(p, w) /\ w.closed = r.closed
      /\ w.out = IF r.completion # "none" \/ r.closed THEN r.out ELSE r.out \o lines
  BY <1>1, WriteStreamed
<1>3. /\ w \in RequestType /\ w.phase = r.phase /\ w.keyed = r.keyed /\ w.at = r.at
      /\ w.completion = r.completion
  BY <1>1, WriteType
<1> HIDE DEF w
<1>4. /\ written.out = w.out /\ written.chain = w.chain /\ written.keyed = w.keyed
      /\ written.phase = w.phase /\ written.completion = w.completion /\ written.closed = w.closed
      /\ written.at = [i \in Payloads |-> IF i \in S THEN "answered" ELSE r.at[i]]
  BY <1>3 DEF RequestType
<1> HIDE DEF written
<1>5. Streamed(p, written)
  BY <1>2, <1>4, StreamedSame
<1>6. Answered(written) = Answered(r) \cup S
  BY <1>4 DEF Answered
<1>7. Told(written)
  <2>1. r.out \in Seq(Own(p))
    BY DEF Streamed
  <2> QED BY <1>1, <1>2, <1>3, <1>4, <1>6, <2>1 DEF Told
<1>8. Core(WriteResults(p, r, S)) /\ Open(WriteResults(p, r, S))
  BY WriteResultsSound
<1>9. CASE WriteResults(p, r, S) = written
  BY <1>2, <1>3, <1>4, <1>5, <1>7, <1>9
<1>10. CASE WriteResults(p, r, S) = Complete(written, "answered")
  <2>1. written \in RequestType
    <3>1. w.at \in [Payloads -> {"waiting", "saving", "getting", "queued", "answered"}]
      BY <1>3 DEF RequestType
    <3> DEFINE at == [i \in Payloads |-> IF i \in S THEN "answered" ELSE w.at[i]]
    <3>2. at \in [Payloads -> {"waiting", "saving", "getting", "queued", "answered"}]
      BY <3>1
    <3>3. written = [w EXCEPT !.at = at]
      BY DEF written
    <3> HIDE DEF at
    <3> QED BY <1>3, <3>2, <3>3 DEF RequestType
  <2> QED BY <1>2, <1>3, <1>4, <1>5, <1>10, <2>1, CompleteStreamed DEF Told
<1>11. WriteResults(p, r, S) \in {written, Complete(written, "answered")}
  BY DEF WriteResults, written, w, lines
<1> QED BY <1>9, <1>10, <1>11
LEMMA ProceedStreamed ==
  ASSUME NEW p \in Requests, NEW r, Core(r), Open(r), Streamed(p, r), Told(r), list \in Seq(Lines),
         \A i \in Payloads : /\ Body[i] # "credentials" => r.at[i] = "waiting"
                             /\ r.at[i] # "saving"
  PROVE  LET s == Proceed(p, r) IN
         /\ Streamed(p, s) /\ Told(s)
         /\ r.keyed => s.phase = r.phase
         /\ r.completion # "none" => s.out = r.out
<1> DEFINE first == CHOOSE i \in Unsaved(r) : \A j \in Unsaved(r) : i <= j
           saving == [r EXCEPT !.at[first] = "saving"]
<1>1. CASE r.completion # "none"
  BY <1>1 DEF Proceed
<1>2. CASE r.completion = "none" /\ Unsaved(r) # {}
  <2>1. Proceed(p, r) = saving
    BY <1>2 DEF Proceed, GoOn, Unsaved
  <2>2. r \in RequestType /\ r.at \in [Payloads -> {"waiting", "saving", "getting", "queued", "answered"}]
    BY DEF Core, RequestType
  <2>3. first \in Unsaved(r)
    <3>1. Unsaved(r) \subseteq Nat
      BY PayloadsFinite DEF OfKind, Unsaved
    <3> QED BY <1>2, <3>1, LeastNatural
  <2>4. first \in Payloads /\ r.at[first] = "waiting"
    BY <2>3 DEF Unsaved, OfKind
  <2> HIDE DEF first
  <2>5. /\ saving.at = [r.at EXCEPT ![first] = "saving"]
        /\ saving.phase = r.phase /\ saving.keyed = r.keyed /\ saving.out = r.out
        /\ saving.completion = "none" /\ saving.chain = r.chain /\ saving.closed = r.closed
    BY <1>2, <2>2 DEF RequestType
  <2> HIDE DEF saving
  <2>6. Answered(saving) = Answered(r)
    BY <2>2, <2>4, <2>5 DEF Answered
  <2>7. Streamed(p, saving)
    BY <1>2, <2>5, StreamedSame
  <2> QED BY <1>2, <2>1, <2>5, <2>6, <2>7 DEF Told
<1>3. CASE r.completion = "none" /\ Unsaved(r) = {}
  <2> DEFINE b == Begun(r)
             s == WriteResults(p, b, OfKind("unknown"))
  <2>1. Proceed(p, r) = s
    BY <1>3 DEF Proceed, GoOn, Begun, Unsaved
  <2>2. /\ Core(b) /\ Open(b) /\ Answered(b) = Answered(r)
        /\ OfKind("unknown") \in SUBSET Payloads /\ OfKind("unknown") \cap Answered(b) = {}
        /\ b.out = r.out /\ b.chain = r.chain /\ b.keyed = r.keyed /\ b.closed = r.closed
        /\ b.phase = r.phase /\ b.completion = r.completion
    BY <1>3, BegunCore
  <2> HIDE DEF b
  <2>3. Streamed(p, b)
    BY <2>2, StreamedSame
  <2>4. Told(b)
    BY <2>2 DEF Told
  <2>5. Streamed(p, s) /\ Told(s) /\ (b.keyed => s.phase = b.phase)
    BY <2>2, <2>3, <2>4, WriteResultsStreamed
  <2> QED BY <1>3, <2>1, <2>2, <2>5
<1> QED BY <1>1, <1>2, <1>3

\* A run goes on and leaves Redis alone.
LEMMA GoingOnStreams ==
  ASSUME RunType, StreamInv, NEW p \in Requests, NEW s, req' = [req EXCEPT ![p] = s],
         req[p].phase \in {"running", "done"}, UNCHANGED <<status, list, faults>>,
         s.keyed = req[p].keyed, s.phase \in {"running", "done"},
         req[p].keyed => s.phase = req[p].phase,
         req[p].phase = "done" => s.phase = "done" /\ s.out = req[p].out,
         faults = 0 => Streamed(p, s) /\ Told(s)
  PROVE  StreamInv'
<1> SUFFICES ASSUME faults = 0 PROVE ListInv' /\ SentInv' /\ ReadInv'
  BY DEF StreamInv
<1>1. \A q \in Requests : req'[q] = IF q = p THEN s ELSE req[q]
  BY DEF RunType, TypeOK
<1>2. ListInv /\ SentInv /\ ReadInv
  BY DEF StreamInv
<1>3. /\ \A q \in Requests : req'[q].keyed = req[q].keyed
      /\ \A q \in Requests : Owns(req'[q]) <=> Owns(req[q])
      /\ \A q \in Requests : req[q].phase = "done" => req'[q].phase = "done"
      /\ \A q \in Requests : req'[q].phase = "clearing" => req[q].phase = "clearing"
      /\ \A q \in Requests : req'[q].phase = "replaying" => req'[q] = req[q]
      /\ status' = status /\ list' = list
  BY <1>1 DEF Owns
<1>4. ListInv'
  BY <1>2, <1>3 DEF ListInv
<1>5. ReadInv'
  <2>1. \A q \in Requests : req[q].out \in Seq(Lines)
    BY DEF RunType, TypeOK, RequestType
  <2>2. \A q \in Requests, k \in Nat : k \in 1..Len(req[q].out) => req[q].out[k][1] \in Requests
    BY <2>1 DEF Lines
  <2> QED BY <1>2, <1>3, <2>1, <2>2 DEF ReadInv
<1>6. SentInv'
  <2> SUFFICES ASSUME NEW q \in Requests, req'[q].phase \in {"running", "done"}
               PROVE  /\ Streamed(q, req[q])' /\ Told(req[q])'
                      /\ req'[q].keyed /\ req'[q].phase = "done" /\ list' # << >> /\ list' \in Seq(Own(q)) =>
                           /\ IsPrefix(req'[q].out, list')
                           /\ req'[q].out = list' \/ Misses(req'[q].out)
    BY DEF SentInv
  <2>1. CASE q = p
    <3>1. Streamed(q, req[q])' /\ Told(req[q])'
      BY <1>1, <1>3, <2>1 DEF Streamed, Told, Answered
    <3> QED BY <1>1, <1>2, <1>3, <2>1, <3>1 DEF SentInv
  <2>2. CASE q # p
    <3>1. Streamed(q, req[q])' /\ Told(req[q])'
      BY <1>1, <1>2, <1>3, <2>2 DEF SentInv, Streamed, Told, Answered
    <3> QED BY <1>1, <1>2, <1>3, <2>2, <3>1 DEF SentInv
  <2> QED BY <2>1, <2>2
<1> QED BY <1>4, <1>5, <1>6

\* A request that is no run changes its phase; it may claim the id.
LEMMA MoveStreams ==
  ASSUME RunType, OwnerInv, StreamInv, NEW p \in Requests, NEW phase, To(p, phase),
         req[p].phase \in Early \ {"clearing"}, phase \in Early \cup {"replaying"},
         UNCHANGED <<list, faults>>,
         phase = "clearing" => status = "none" /\ status' = "in-progress",
         phase # "clearing" => UNCHANGED status
  PROVE  StreamInv'
<1> SUFFICES ASSUME faults = 0 PROVE ListInv' /\ SentInv' /\ ReadInv'
  BY DEF StreamInv
<1> DEFINE s == [req[p] EXCEPT !.phase = phase]
<1>1. /\ \A q \in Requests : req'[q] = IF q = p THEN s ELSE req[q]
      /\ s.phase = phase /\ s.keyed = req[p].keyed /\ s.out = req[p].out
      /\ req[p].out = << >> /\ ~ req[p].keyed
  <2>1. req' = [req EXCEPT ![p] = s]
    BY DEF To
  <2>2. req[p] \in RequestType /\ req \in [Requests -> RequestType]
    BY DEF RunType, TypeOK
  <2>3. s.phase = phase /\ s.keyed = req[p].keyed /\ s.out = req[p].out
    BY <2>2 DEF RequestType
  <2>4. Fresh(req[p])
    BY DEF RunType, RunInv, Early
  <2>5. req[p].out = << >>
    BY <2>4 DEF Fresh
  <2>6. ~ req[p].keyed
    BY DEF OwnerInv, Early
  <2> HIDE DEF s
  <2> QED BY <2>1, <2>2, <2>3, <2>5, <2>6
<1> HIDE DEF s
<1>2. ListInv /\ SentInv /\ ReadInv
  BY DEF StreamInv
<1>3. /\ \A q \in Requests : req'[q].keyed = req[q].keyed /\ req'[q].out = req[q].out
      /\ \A q \in Requests : req[q].phase = "done" => req'[q].phase = "done"
      /\ \A q \in Requests : req'[q].phase \in {"running", "done"} => req'[q] = req[q]
      /\ \A q \in Requests : req'[q].phase = "replaying" => q = p \/ req[q].phase = "replaying"
      /\ \A q \in Requests : Owns(req'[q]) => Owns(req[q]) \/ (q = p /\ phase = "clearing")
      /\ list' = list
  BY <1>1 DEF Owns, Early
<1>5. ListInv'
  <2>1. ASSUME NEW q \in Requests, Owns(req'[q])
        PROVE  /\ status' = "in-progress" /\ list' \in Seq(Own(q))
               /\ req'[q].phase = "clearing" => list' = << >>
    <3>1. CASE phase = "clearing"
      <4>1. list = << >> /\ << >> \in Seq(Own(q))
        BY <1>2, <3>1 DEF ListInv
      <4> QED BY <1>3, <3>1, <4>1
    <3>2. CASE phase # "clearing"
      <4>1. Owns(req[q]) /\ status' = status
        BY <1>3, <2>1, <3>2
      <4> QED BY <1>1, <1>2, <1>3, <3>2, <4>1 DEF ListInv
    <3> QED BY <3>1, <3>2
  <2>2. /\ status' = "none" => status = "none"
        /\ status' = "complete" => status = "complete"
    OBVIOUS
  <2> QED BY <1>2, <1>3, <2>1, <2>2 DEF ListInv
<1>6. ReadInv'
  <2>1. /\ \A q \in Requests : req[q].out \in Seq(Lines)
        /\ \A q \in Requests, k \in Nat : k \in 1..Len(req[q].out) => req[q].out[k][1] \in Requests
    BY DEF RunType, TypeOK, RequestType, Lines
  <2> SUFFICES ASSUME NEW x \in Requests, req'[x].phase = "replaying"
               PROVE  /\ \A k \in 1..Len(req'[x].out) : req'[req'[x].out[k][1]].keyed
                      /\ \A q \in Requests :
                           /\ list' # << >> \/ Owns(req'[q])
                           /\ list' \in Seq(Own(q)) /\ req'[x].out \in Seq(Own(q))
                           => IsPrefix(req'[x].out, list')
    BY DEF ReadInv
  <2>2. CASE x = p
    <3>1. req'[x].out = << >> /\ list' \in Seq(Lines)
      BY <1>1, <1>3, <2>2 DEF RunType, TypeOK
    <3> QED BY <3>1 DEF IsPrefix
  <2>3. CASE x # p
    <3>1. req'[x] = req[x] /\ req[x].phase = "replaying"
      BY <1>1, <2>3
    <3>2. \A k \in 1..Len(req'[x].out) : req'[req'[x].out[k][1]].keyed
      BY <1>2, <1>3, <2>1, <3>1 DEF ReadInv
    <3>3. ASSUME NEW q \in Requests, list' # << >> \/ Owns(req'[q]),
                 list' \in Seq(Own(q)), req'[x].out \in Seq(Own(q))
          PROVE  IsPrefix(req'[x].out, list')
      <4>1. CASE list' # << >> \/ Owns(req[q])
        BY <1>2, <1>3, <3>1, <3>3, <4>1 DEF ReadInv
      <4>2. CASE q = p /\ phase = "clearing" /\ list' = << >>
        <5>1. req[x].out = << >>
          <6>1. \A k \in 1..Len(req[x].out) : req[x].out[k][1] = p
            BY <3>1, <3>3, <4>2 DEF Own
          <6>2. \A k \in 1..Len(req[x].out) : req[p].keyed
            BY <1>2, <3>1, <6>1 DEF ReadInv
          <6> QED BY <1>1, <2>1, <6>2
        <5> QED BY <3>1, <4>2, <5>1 DEF IsPrefix
      <4> QED BY <1>3, <3>3, <4>1, <4>2
    <3> QED BY <3>2, <3>3
  <2> QED BY <2>2, <2>3
<1>7. SentInv'
  <2> SUFFICES ASSUME NEW q \in Requests, req'[q].phase \in {"running", "done"}
               PROVE  /\ Streamed(q, req[q])' /\ Told(req[q])'
                      /\ req'[q].keyed /\ req'[q].phase = "done" /\ list' # << >> /\ list' \in Seq(Own(q)) =>
                           /\ IsPrefix(req'[q].out, list')
                           /\ req'[q].out = list' \/ Misses(req'[q].out)
    BY DEF SentInv
  <2>1. req'[q] = req[q] /\ list' = list
    BY <1>3
  <2>2. Streamed(q, req[q])' /\ Told(req[q])'
    BY <1>2, <2>1 DEF SentInv, Streamed, Told, Answered
  <2> QED BY <1>2, <2>1, <2>2 DEF SentInv
<1> QED BY <1>5, <1>6, <1>7

\* A run starts with nothing written, with the id or without one.
LEMMA BegunStreamed ==
  ASSUME RunType, NEW p \in Requests, NEW r \in RequestType, r.phase = "running",
         r.completion = "none", r.at = [i \in Payloads |-> "waiting"],
         r.chain = << >>, r.out = << >>, ~ r.closed, r.keyed => list = << >>
  PROVE  LET s == Proceed(p, r) IN
         Streamed(p, s) /\ Told(s) /\ s.keyed = r.keyed /\ s.phase \in {"running", "done"}
<1>1. Core(r) /\ Open(r)
  <2>1. Answered(r) = {}
    BY DEF Answered
  <2>2. \A i \in Payloads : r.at[i] \in Stages[Body[i]] /\ r.at[i] # "queued"
    BY PayloadsFinite DEF Stages
  <2>3. Payloads # {}
    BY PayloadsFinite
  <2>4. << >> \in Seq(Lines) /\ Len(r.out) = 0
    OBVIOUS
  <2> QED BY <2>1, <2>2, <2>3, <2>4, PayloadsFinite, FS_EmptySet DEF Core, Open
<1>2. Streamed(p, r) /\ Told(r)
  <2>1. << >> \in Seq(Own(p)) /\ << >> \o << >> = << >>
    OBVIOUS
  <2> QED BY <2>1 DEF Streamed, Told, Recorded, IsPrefix
<1>3. list \in Seq(Lines)
  BY DEF RunType, TypeOK
<1>4. Sound(Proceed(p, r))
  BY BegunSound
<1>5. Follows(r, Proceed(p, r))
  <2>1. DOMAIN r = Fields
    BY DEF RequestType, Fields
  <2> QED BY <2>1, ProceedFollows
<1>6. \A i \in Payloads : r.at[i] = "waiting"
  OBVIOUS
<1> QED BY <1>1, <1>2, <1>3, <1>4, <1>5, <1>6, ProceedStreamed DEF Sound, Core, Follows

LEMMA SendStreams ==
  ASSUME RunType, OwnerInv, StreamInv, NEW p \in Requests, Send(p)
  PROVE  StreamInv'
<1>1. CASE To(p, "looking") \/ To(p, "claiming")
  BY <1>1, MoveStreams DEF Send, Early
<1>2. CASE Become(p, Proceed(p, [req[p] EXCEPT !.phase = "running"]))
  <2> SUFFICES ASSUME faults = 0 PROVE ListInv' /\ SentInv' /\ ReadInv'
    BY DEF Send, StreamInv
  <2> DEFINE r == [req[p] EXCEPT !.phase = "running"]
             s == Proceed(p, r)
  <2>1. /\ r \in RequestType /\ r.phase = "running" /\ r.completion = "none"
        /\ r.at = [i \in Payloads |-> "waiting"] /\ r.chain = << >> /\ r.out = << >>
        /\ ~ r.closed /\ ~ r.keyed /\ r.keyed = req[p].keyed
    <3>1. Fresh(req[p]) /\ req[p] \in RequestType /\ req[p].phase = "unsent"
      BY DEF Send, RunType, RunInv, TypeOK
    <3>2. ~ req[p].keyed
      BY <3>1 DEF OwnerInv
    <3> QED BY <3>1, <3>2 DEF RequestType, Phases, Fresh, Early
  <2> HIDE DEF r
  <2>2. Streamed(p, s) /\ Told(s) /\ s.keyed = req[p].keyed /\ ~ s.keyed /\ s.phase \in {"running", "done"}
    BY <2>1, BegunStreamed
  <2>3. /\ \A q \in Requests : req'[q] = IF q = p THEN s ELSE req[q]
        /\ list' = list /\ status' = status
    <3> HIDE DEF s
    <3>1. req' = [req EXCEPT ![p] = s]
      BY <1>2 DEF Become, r, s
    <3> QED BY <3>1 DEF Send, RunType, TypeOK
  <2> HIDE DEF s
  <2>4. ListInv /\ SentInv /\ ReadInv
    BY DEF StreamInv
  <2>5. /\ \A q \in Requests : req'[q].keyed = req[q].keyed
        /\ \A q \in Requests : Owns(req'[q]) => Owns(req[q])
        /\ \A q \in Requests : req[q].phase = "done" => req'[q].phase = "done"
        /\ \A q \in Requests : req'[q].phase = "clearing" => req[q].phase = "clearing"
        /\ \A q \in Requests : req'[q].phase = "replaying" => req'[q] = req[q]
    BY <2>1, <2>2, <2>3 DEF Owns, Send, OwnerInv
  <2>6. ListInv'
    BY <2>3, <2>4, <2>5 DEF ListInv
  <2>7. ReadInv'
    <3>1. \A q \in Requests : req[q].out \in Seq(Lines)
      BY DEF RunType, TypeOK, RequestType
    <3>2. \A q \in Requests, k \in Nat : k \in 1..Len(req[q].out) => req[q].out[k][1] \in Requests
      BY <3>1 DEF Lines
    <3> QED BY <2>3, <2>4, <2>5, <3>1, <3>2 DEF ReadInv
  <2>8. SentInv'
    <3> SUFFICES ASSUME NEW q \in Requests, req'[q].phase \in {"running", "done"}
                 PROVE  /\ Streamed(q, req[q])' /\ Told(req[q])'
                        /\ req'[q].keyed /\ req'[q].phase = "done" /\ list' # << >> /\ list' \in Seq(Own(q)) =>
                             /\ IsPrefix(req'[q].out, list')
                             /\ req'[q].out = list' \/ Misses(req'[q].out)
      BY DEF SentInv
    <3>1. CASE q = p
      BY <2>2, <2>3, <3>1 DEF Streamed, Told, Answered
    <3>2. CASE q # p
      <4>1. Streamed(q, req[q])' /\ Told(req[q])'
        BY <2>3, <2>4, <3>2 DEF SentInv, Streamed, Told, Answered
      <4> QED BY <2>3, <2>4, <3>2, <4>1 DEF SentInv
    <3> QED BY <3>1, <3>2
  <2> QED BY <2>6, <2>7, <2>8
<1> QED BY <1>1, <1>2 DEF Send

LEMMA ClearStreams ==
  ASSUME RunType, OwnerInv, StreamInv, NEW p \in Requests, Clear(p)
  PROVE  StreamInv'
<1> SUFFICES ASSUME faults = 0 PROVE ListInv' /\ SentInv' /\ ReadInv'
  BY DEF Clear, StreamInv
<1> DEFINE r == [req[p] EXCEPT !.phase = "running", !.keyed = TRUE]
           s == Proceed(p, r)
<1>0. ListInv /\ SentInv /\ ReadInv
  BY DEF StreamInv
<1>1. /\ r \in RequestType /\ r.phase = "running" /\ r.completion = "none"
      /\ r.at = [i \in Payloads |-> "waiting"] /\ r.chain = << >> /\ r.out = << >>
      /\ ~ r.closed /\ r.keyed
      /\ req[p].phase = "clearing" /\ Owns(req[p])
  <2>1. Fresh(req[p]) /\ req[p] \in RequestType /\ req[p].phase = "clearing"
    BY DEF Clear, RunType, RunInv, TypeOK
  <2> QED BY <2>1 DEF RequestType, Phases, Fresh, Early, Owns
<1> HIDE DEF r
<1>2. list = << >> /\ status = "in-progress"
  BY <1>0, <1>1 DEF ListInv
<1>3. Streamed(p, s) /\ Told(s) /\ s.keyed /\ s.phase \in {"running", "done"}
  BY <1>1, <1>2, BegunStreamed
<1>4. /\ \A q \in Requests : req'[q] = IF q = p THEN s ELSE req[q]
      /\ list' = list /\ status' = status
  <2> HIDE DEF s
  <2>1. req' = [req EXCEPT ![p] = s]
    BY DEF Clear, Become, r, s
  <2> QED BY <1>2, <2>1 DEF Clear, RunType, TypeOK
<1> HIDE DEF s
<1>5. /\ \A q \in Requests : req[q].keyed => req'[q].keyed
      /\ \A q \in Requests : Owns(req'[q]) => q = p
      /\ \A q \in Requests : req'[q].phase # "clearing"
      /\ \A q \in Requests : req'[q].phase = "replaying" => req'[q] = req[q]
  BY <1>1, <1>3, <1>4 DEF Owns, OwnerInv
<1>6. ListInv'
  <2>1. << >> \in Seq(Own(p))
    OBVIOUS
  <2> QED BY <1>2, <1>4, <1>5, <2>1 DEF ListInv
<1>7. ReadInv'
  <2> SUFFICES ASSUME NEW x \in Requests, req'[x].phase = "replaying"
               PROVE  /\ \A k \in 1..Len(req'[x].out) : req'[req'[x].out[k][1]].keyed
                      /\ \A q \in Requests :
                           /\ list' # << >> \/ Owns(req'[q])
                           /\ list' \in Seq(Own(q)) /\ req'[x].out \in Seq(Own(q))
                           => IsPrefix(req'[x].out, list')
    BY DEF ReadInv
  <2>1. \A k \in 1..Len(req[x].out) : req[x].out[k][1] \in Requests
    BY DEF RunType, TypeOK, RequestType, Lines
  <2>2. req'[x] = req[x] /\ req[x].phase = "replaying"
    BY <1>5
  <2>3. ASSUME NEW q \in Requests, list' # << >> \/ Owns(req'[q]),
               list' \in Seq(Own(q)), req'[x].out \in Seq(Own(q))
        PROVE  IsPrefix(req'[x].out, list')
    BY <1>0, <1>1, <1>2, <1>4, <1>5, <2>2, <2>3 DEF ReadInv
  <2> QED BY <1>0, <1>5, <2>1, <2>2, <2>3 DEF ReadInv
<1>8. SentInv'
  <2> SUFFICES ASSUME NEW q \in Requests, req'[q].phase \in {"running", "done"}
               PROVE  Streamed(q, req[q])' /\ Told(req[q])'
    BY <1>2, <1>4 DEF SentInv
  <2>1. CASE q = p
    BY <1>3, <1>4, <2>1 DEF Streamed, Told, Answered
  <2>2. CASE q # p
    BY <1>0, <1>4, <2>2 DEF SentInv, Streamed, Told, Answered
  <2> QED BY <2>1, <2>2
<1> QED BY <1>6, <1>7, <1>8

\* A replay reads on where it is in the list.
LEMMA ReadsOn ==
  ASSUME NEW X, NEW s \in Seq(X), NEW t \in Seq(X), IsPrefix(s, t),
         NEW n \in Nat, Len(s) <= n, n <= Len(t)
  PROVE  /\ IsPrefix(s \o SubSeq(t, Len(s) + 1, n), t)
         /\ Len(s \o SubSeq(t, Len(s) + 1, n)) = n
BY DEF IsPrefix

LEMMA PrefixOfSame ==
  ASSUME NEW X, NEW s \in Seq(X), NEW t \in Seq(X), IsPrefix(s, t), Len(s) = Len(t)
  PROVE  s = t
BY DEF IsPrefix

\* What ReplayBatch() makes of a request.
LEMMA BatchRead ==
  ASSUME RunType, NEW x \in Requests, ReplayBatch(x)
  PROVE  \E n \in Nat : LET batch == SubSeq(list, Len(req[x].out) + 1, n) IN
           /\ n <= Len(list) /\ n <= Len(req[x].out) + BatchSize
           /\ n = Len(list) \/ n = Len(req[x].out) + BatchSize
           /\ req'[x].out = req[x].out \o batch
           /\ req'[x].keyed = req[x].keyed
           /\ req'[x].phase = IF Len(batch) < BatchSize THEN "replayed" ELSE "replaying"
           /\ \A q \in Requests \ {x} : req'[q] = req[q]
<1> DEFINE n == IF Len(list) < Len(req[x].out) + BatchSize
                THEN Len(list) ELSE Len(req[x].out) + BatchSize
           batch == SubSeq(list, Len(req[x].out) + 1, n)
           s == [req[x] EXCEPT !.out = req[x].out \o batch,
                    !.phase = IF Len(batch) < BatchSize THEN "replayed" ELSE req[x].phase]
<1>1. req[x] \in RequestType /\ req \in [Requests -> RequestType] /\ list \in Seq(Lines)
      /\ req[x].phase = "replaying"
  BY DEF ReplayBatch, RunType, TypeOK
<1>2. Len(req[x].out) \in Nat /\ Len(list) \in Nat /\ BatchSize \in Nat \ {0}
  BY <1>1, HttpAssumption DEF RequestType
<1>3. /\ n \in Nat /\ n <= Len(list) /\ n <= Len(req[x].out) + BatchSize
      /\ n = Len(list) \/ n = Len(req[x].out) + BatchSize
  BY <1>2
<1>4. req' = [req EXCEPT ![x] = s]
  BY DEF ReplayBatch, Become
<1> HIDE DEF n
<1> DEFINE b == batch
<1>5. b = SubSeq(list, Len(req[x].out) + 1, n)
  OBVIOUS
<1>6. s = [req[x] EXCEPT !.out = req[x].out \o b,
                    !.phase = IF Len(b) < BatchSize THEN "replayed" ELSE req[x].phase]
  OBVIOUS
<1> HIDE DEF b
<1>7. /\ s.out = req[x].out \o b /\ s.keyed = req[x].keyed
      /\ s.phase = IF Len(b) < BatchSize THEN "replayed" ELSE "replaying"
  BY <1>1, <1>6 DEF RequestType
<1> HIDE DEF s
<1>8. req'[x] = s /\ \A q \in Requests \ {x} : req'[q] = req[q]
  BY <1>1, <1>4
<1> QED BY <1>3, <1>5, <1>7, <1>8

LEMMA ReplayStreams ==
  ASSUME RunType, OwnerInv, StreamInv, NEW x \in Requests, ReplayBatch(x)
  PROVE  StreamInv'
<1> SUFFICES ASSUME faults = 0 PROVE ListInv' /\ SentInv' /\ ReadInv'
  BY DEF ReplayBatch, StreamInv
<1>0. ListInv /\ SentInv /\ ReadInv
  BY DEF StreamInv
<1> PICK old : old = req[x].out
  OBVIOUS
<1>1. PICK n \in Nat :
           /\ n <= Len(list)
           /\ n = Len(list) \/ n = Len(old) + BatchSize
           /\ req'[x].out = old \o SubSeq(list, Len(old) + 1, n)
           /\ req'[x].keyed = req[x].keyed
           /\ req'[x].phase \in {"replayed", "replaying"}
           /\ \A q \in Requests \ {x} : req'[q] = req[q]
  BY BatchRead
<1> PICK new : new = req'[x].out
  OBVIOUS
<1>2. req[x].phase = "replaying" /\ list' = list /\ status' = status
  BY DEF ReplayBatch
<1>3. old \in Seq(Lines) /\ Len(old) \in Nat /\ list \in Seq(Lines) /\ Len(list) \in Nat
      /\ BatchSize \in Nat
  BY HttpAssumption DEF RunType, TypeOK, RequestType
<1>4. /\ \A q \in Requests : req'[q].keyed = req[q].keyed
      /\ \A q \in Requests : Owns(req'[q]) <=> Owns(req[q])
      /\ \A q \in Requests : req'[q].phase \in {"running", "done", "clearing"} => req'[q] = req[q]
      /\ \A q \in Requests : req[q].phase = "done" => req'[q] = req[q]
  BY <1>1, <1>2 DEF Owns
<1>5. ListInv'
  BY <1>0, <1>2, <1>4 DEF ListInv
<1>6. SentInv'
  <2> SUFFICES ASSUME NEW q \in Requests, req'[q].phase \in {"running", "done"}
               PROVE  /\ Streamed(q, req[q])' /\ Told(req[q])'
                      /\ req'[q].keyed /\ req'[q].phase = "done" /\ list' # << >> /\ list' \in Seq(Own(q)) =>
                           /\ IsPrefix(req'[q].out, list')
                           /\ req'[q].out = list' \/ Misses(req'[q].out)
    BY DEF SentInv
  <2>1. req'[q] = req[q]
    BY <1>4
  <2>2. Streamed(q, req[q])' /\ Told(req[q])'
    BY <1>0, <1>2, <2>1 DEF SentInv, Streamed, Told, Answered
  <2> QED BY <1>0, <1>2, <2>1, <2>2 DEF SentInv
<1>7. ReadInv'
  <2> SUFFICES ASSUME NEW z \in Requests, req'[z].phase = "replaying"
               PROVE  /\ \A k \in 1..Len(req'[z].out) : req'[req'[z].out[k][1]].keyed
                      /\ \A q \in Requests :
                           /\ list' # << >> \/ Owns(req'[q])
                           /\ list' \in Seq(Own(q)) /\ req'[z].out \in Seq(Own(q))
                           => IsPrefix(req'[z].out, list')
    BY DEF ReadInv
  <2>1. CASE z # x
    <3>1. req'[z] = req[z]
      BY <1>1, <2>1
    <3>2. \A k \in 1..Len(req[z].out) : req[z].out[k][1] \in Requests
      BY DEF RunType, TypeOK, RequestType, Lines
    <3> QED BY <1>0, <1>2, <1>4, <3>1, <3>2 DEF ReadInv
  <2>2. CASE z = x
    <3>0. new = old \o SubSeq(list, Len(old) + 1, n)
      BY <1>1
    <3>1. new \in Seq(Lines) /\ Len(old) <= Len(new) /\ ComesFrom(new, old, list)
      <4>1. n \in Nat /\ n <= Len(list) /\ old \in Seq(Lines) /\ list \in Seq(Lines)
        BY <1>1, <1>3
      <4> QED BY <3>0, <4>1, Extended
    <3>2. /\ \A k \in 1..Len(old) : new[k] = old[k]
          /\ \A k \in 1..Len(new) : \/ k \in 1..Len(old) /\ new[k] = old[k]
                                    \/ k \in 1..Len(list) /\ new[k] = list[k]
      BY <3>1 DEF ComesFrom
    <3>4. ASSUME NEW k \in 1..Len(new) PROVE req'[new[k][1]].keyed
      <4>1. CASE k \in 1..Len(old) /\ new[k] = old[k]
        <5>1. old[k] \in Lines
          BY <1>3, <4>1
        <5>2. old[k][1] \in Requests
          BY <5>1 DEF Lines
        <5>3. req[old[k][1]].keyed
          BY <1>0, <1>2, <4>1 DEF ReadInv
        <5> QED BY <1>4, <4>1, <5>2, <5>3
      <4>2. CASE k \in 1..Len(list) /\ new[k] = list[k]
        <5>1. list # << >>
          BY <1>3, <4>2
        <5>2. PICK q \in Requests : list \in Seq(Own(q)) /\ req[q].keyed
          BY <1>0, <5>1 DEF ListInv
        <5>3. list[k][1] = q
          BY <4>2, <5>2 DEF Own
        <5> QED BY <1>4, <4>2, <5>2, <5>3
      <4> QED BY <3>2, <4>1, <4>2
    <3>5. ASSUME NEW q \in Requests, list # << >> \/ Owns(req[q]),
                 list \in Seq(Own(q)), new \in Seq(Own(q))
          PROVE  IsPrefix(new, list)
      <4>1. old \in Seq(Own(q))
        <5>1. \A k \in 1..Len(old) : old[k] \in Own(q)
          BY <1>3, <3>1, <3>2, <3>5
        <5> QED BY <1>3, <5>1
      <4>2. IsPrefix(old, list)
        BY <1>0, <1>2, <3>5, <4>1 DEF ReadInv
      <4>3. Len(old) <= n
        BY <1>1, <1>3, <4>2 DEF IsPrefix
      <4> QED BY <1>1, <1>3, <4>2, <4>3, ReadsOn
    <3> QED BY <1>2, <1>4, <2>2, <3>4, <3>5
  <2> QED BY <2>1, <2>2
<1> QED BY <1>5, <1>6, <1>7

\* A callback of a run.
LEMMA CallbackStreams ==
  ASSUME RunType, OwnerInv, StreamInv, NEW p \in Requests, NEW i \in Payloads,
         CredentialsAnswered(p, i) \/ GetReturns(p, i) \/ MessageAnswered(p, i)
  PROVE  StreamInv'
<1> DEFINE r == req[p]
<1>0. /\ r.phase \in {"running", "done"} /\ Sound(r) /\ r \in RequestType
      /\ DOMAIN r = Fields /\ list \in Seq(Lines)
      /\ UNCHANGED <<status, list, faults>>
  BY DEF CredentialsAnswered, GetReturns, MessageAnswered, Alive, RunType, RunInv, TypeOK,
         OwnerInv, Shape
<1>1. /\ Core(r) /\ Open(r)
      /\ r.phase = "done" => r.completion # "none"
  BY <1>0 DEF Sound, Core
<1>2. faults = 0 => Streamed(p, r) /\ Told(r)
  BY <1>0 DEF StreamInv, SentInv
<1>3. CASE CredentialsAnswered(p, i)
  <2> DEFINE w == WriteResults(p, r, {i})
             s == Proceed(p, w)
  <2>0. r.at[i] = "saving" /\ req' = [req EXCEPT ![p] = s]
    BY <1>3 DEF CredentialsAnswered, Become
  <2> HIDE DEF r
  <2>1. Body[i] = "credentials"
    BY <1>0, <2>0, PayloadsFinite DEF Sound, Core, Stages
  <2>2. Saving(r)
    BY <1>0, <2>0, <2>1 DEF Sound, Dispatched, Saved, OfKind
  <2>3. {i} \in SUBSET Payloads /\ {i} \cap Answered(r) = {}
    BY <2>0 DEF Answered
  <2>4. /\ Core(w) /\ Open(w)
        /\ w.at = [j \in Payloads |-> IF j \in {i} THEN "answered" ELSE r.at[j]]
        /\ w.completion = "none" => r.completion = "none"
    BY <1>1, <2>3, WriteResultsSound
  <2>5. /\ faults = 0 => Streamed(p, w) /\ Told(w)
        /\ faults = 0 /\ r.keyed => w.phase = r.phase
        /\ faults = 0 /\ r.completion # "none" => w.out = r.out
    BY <1>0, <1>1, <1>2, <2>3, WriteResultsStreamed
  <2>6. Follows(r, w) /\ DOMAIN w = Fields
    BY <1>0, WriteResultsFollows DEF Follows
  <2> HIDE DEF w
  <2>7. \A j \in Payloads : /\ Body[j] # "credentials" => w.at[j] = "waiting"
                            /\ w.at[j] # "saving"
    BY <2>0, <2>1, <2>2, <2>4 DEF Saving
  <2>8. Sound(s) /\ Follows(w, s)
    BY <2>4, <2>6, <2>7, ProceedSound, ProceedFollows
  <2>9. /\ faults = 0 => Streamed(p, s) /\ Told(s)
        /\ faults = 0 /\ w.keyed => s.phase = w.phase
        /\ faults = 0 /\ w.completion # "none" => s.out = w.out
    BY <1>0, <2>4, <2>5, <2>7, ProceedStreamed
  <2> HIDE DEF s
  <2>10. CASE faults = 0
    <3>1. /\ s.keyed = r.keyed /\ s.phase \in {"running", "done"}
          /\ r.keyed => s.phase = r.phase
          /\ r.phase = "done" => s.phase = "done" /\ s.out = r.out
      BY <1>0, <1>1, <2>4, <2>5, <2>6, <2>8, <2>9, <2>10 DEF Follows
    <3> QED BY <1>0, <2>0, <2>9, <2>10, <3>1, GoingOnStreams DEF r
  <2>11. CASE faults # 0
    BY <1>0, <2>11 DEF StreamInv
  <2> QED BY <2>10, <2>11
<1>4. CASE GetReturns(p, i)
  <2> DEFINE s == [r EXCEPT !.at[i] = "queued", !.holds = TRUE]
  <2>0. r.at[i] = "getting" /\ req' = [req EXCEPT ![p] = s]
    BY <1>4 DEF GetReturns, Become
  <2> HIDE DEF r
  <2>1. /\ s.at = [r.at EXCEPT ![i] = "queued"]
        /\ r.at \in [Payloads -> {"waiting", "saving", "getting", "queued", "answered"}]
        /\ s.phase = r.phase /\ s.keyed = r.keyed /\ s.out = r.out /\ s.chain = r.chain
        /\ s.completion = r.completion /\ s.closed = r.closed
    BY <1>0 DEF RequestType
  <2> HIDE DEF s
  <2>2. Answered(s) = Answered(r)
    BY <2>0, <2>1 DEF Answered
  <2>3. faults = 0 => Streamed(p, s) /\ Told(s)
    BY <1>2, <2>1, <2>2, StreamedSame DEF Told
  <2> QED BY <1>0, <2>0, <2>1, <2>3, GoingOnStreams DEF r
<1>5. CASE MessageAnswered(p, i)
  <2> DEFINE s == WriteResults(p, r, {i})
  <2>0. i \notin Answered(r) /\ req' = [req EXCEPT ![p] = s]
    BY <1>5 DEF MessageAnswered, Become, Answered
  <2> HIDE DEF r
  <2>1. {i} \in SUBSET Payloads /\ {i} \cap Answered(r) = {}
    BY <2>0
  <2>2. /\ faults = 0 => Streamed(p, s) /\ Told(s)
        /\ faults = 0 /\ r.keyed => s.phase = r.phase
        /\ faults = 0 /\ r.completion # "none" => s.out = r.out
    BY <1>0, <1>1, <1>2, <2>1, WriteResultsStreamed
  <2>3. Follows(r, s)
    BY <1>0, WriteResultsFollows
  <2> HIDE DEF s
  <2>4. CASE faults = 0
    <3>1. /\ s.keyed = r.keyed /\ s.phase \in {"running", "done"}
          /\ r.keyed => s.phase = r.phase
          /\ r.phase = "done" => s.phase = "done" /\ s.out = r.out
      BY <1>0, <1>1, <2>2, <2>3, <2>4 DEF Follows
    <3> QED BY <1>0, <2>0, <2>2, <2>4, <3>1, GoingOnStreams DEF r
  <2>5. CASE faults # 0
    BY <1>0, <2>5 DEF StreamInv
  <2> QED BY <2>4, <2>5
<1> QED BY <1>3, <1>4, <1>5

\* The time-out writes its line and completes the run.
LEMMA TimeoutStreams ==
  ASSUME RunType, OwnerInv, StreamInv, NEW p \in Requests, Timeout(p)
  PROVE  StreamInv'
<1> DEFINE q == req[p]
           w == Write(q, <<<<p, 0>>>>)
           r == IF q.closed THEN q ELSE w
           s == Complete(r, "timeout")
<1>0. /\ q.phase = "running" /\ q.completion = "none" /\ Sound(q) /\ q \in RequestType
      /\ DOMAIN q = Fields /\ list \in Seq(Lines)
      /\ UNCHANGED <<status, list, faults>> /\ req' = [req EXCEPT ![p] = s]
  BY DEF Timeout, Become, RunType, RunInv, TypeOK, OwnerInv, Shape
<1>1. CASE faults # 0
  BY <1>0, <1>1 DEF StreamInv
<1>2. CASE faults = 0
  <2>1. Streamed(p, q) /\ Told(q) /\ Core(q)
    BY <1>0, <1>2 DEF StreamInv, SentInv, Sound
  <2> HIDE DEF q
  <2>2. <<<<p, 0>>>> \in Seq(Own(p)) /\ <<<<p, 0>>>> \in Seq(Lines)
    <3>1. <<p, 0>> \in Own(p) /\ <<p, 0>> \in Lines
      BY DEF Own, Lines
    <3> QED BY <3>1
  <2>3. Streamed(p, w) /\ w.closed = q.closed
    BY <1>0, <2>1, <2>2, WriteStreamed
  <2>4. /\ w \in RequestType /\ w.phase = q.phase /\ w.keyed = q.keyed
        /\ w.completion = q.completion
    BY <1>0, <2>1, <2>2, WriteType
  <2> HIDE DEF w
  <2>5. /\ Streamed(p, r) /\ r \in RequestType /\ r.phase = "running" /\ r.keyed = q.keyed
    BY <1>0, <2>1, <2>3, <2>4
  <2> HIDE DEF r
  <2>6. /\ Streamed(p, s) /\ s.completion # "none"
        /\ r.keyed => s.phase = r.phase
    BY <2>5, CompleteStreamed
  <2>7. Follows(r, s)
    <3>1. DOMAIN r = Fields
      BY <2>5 DEF RequestType, Fields
    <3> QED BY <3>1, CompleteFollows
  <2> HIDE DEF s
  <2>8. Told(s)
    BY <2>6 DEF Told
  <2>9. /\ s.keyed = req[p].keyed /\ s.phase \in {"running", "done"}
        /\ req[p].keyed => s.phase = req[p].phase
        /\ req[p].phase = "running"
    BY <1>0, <2>5, <2>6, <2>7 DEF Follows, q
  <2> QED BY <1>0, <2>6, <2>8, <2>9, GoingOnStreams
<1> QED BY <1>1, <1>2

\* A client that goes away misses what is not answered yet.
LEMMA DisconnectStreams ==
  ASSUME RunType, OwnerInv, StreamInv, NEW p \in Requests, Disconnect(p)
  PROVE  StreamInv'
<1> DEFINE r == req[p]
           s == [r EXCEPT !.closed = TRUE]
<1>0. /\ r.phase = "running" /\ ~ r.closed /\ Sound(r) /\ r \in RequestType
      /\ Pending(r) > 0
      /\ UNCHANGED <<status, list, faults>> /\ req' = [req EXCEPT ![p] = s]
  BY DEF Disconnect, Become, RunType, RunInv, TypeOK
<1>1. faults = 0 => Streamed(p, r) /\ Told(r)
  BY <1>0 DEF StreamInv, SentInv
<1> HIDE DEF r
<1>2. /\ s.at = r.at /\ s.phase = r.phase /\ s.keyed = r.keyed /\ s.out = r.out
      /\ s.chain = r.chain /\ s.completion = r.completion /\ s.closed
  BY <1>0 DEF RequestType
<1> HIDE DEF s
<1>3. Answered(s) = Answered(r)
  BY <1>2 DEF Answered
<1>4. faults = 0 /\ r.completion = "none" => Misses(r.out)
  <2> SUFFICES ASSUME faults = 0, r.completion = "none" PROVE Misses(r.out)
    OBVIOUS
  <2>1. PICK i \in Payloads : i \notin Answered(r)
    <3>1. Answered(r) # Payloads /\ Answered(r) \subseteq Payloads
      BY <1>0, PendingIsOpen DEF Answered
    <3> QED BY <3>1
  <2>2. \A k \in 1..Len(r.out) : r.out[k][2] \in Answered(r)
    BY <1>1 DEF Told
  <2> QED BY <2>1, <2>2 DEF Misses
<1>5. faults = 0 => Streamed(p, s)
  BY <1>0, <1>1, <1>2 DEF Streamed, Recorded
<1>6. faults = 0 => Told(s)
  BY <1>1, <1>2, <1>3, <1>4 DEF Told
<1> QED BY <1>0, <1>2, <1>5, <1>6, GoingOnStreams DEF r

LEMMA MarkedChain ==
  ASSUME NEW X, NEW c \in Seq(X), NEW m, c # << >>
  PROVE  /\ Head(Append(c, m)) = Head(c) /\ Tail(Append(c, m)) = Append(Tail(c), m)
         /\ Tail(c) \in Seq(X) /\ Head(c) \in X
<1>1. c \in Seq(X \cup {m}) /\ Tail(c) \in Seq(X) /\ Head(c) \in X /\ Len(c) >= 1
  OBVIOUS
<1>2. Head(Append(c, m)) = Head(c)
  BY <1>1
<1>3. Tail(Append(c, m)) = Append(Tail(c), m)
  BY <1>1
<1> QED BY <1>1, <1>2, <1>3

LEMMA EmptyChain ==
  ASSUME NEW m
  PROVE  /\ Append(<< >>, m) = <<m>> /\ Head(<<m>>) = m
OBVIOUS

\* The head of the chain is the next line of the run, or the mark at its end.
LEMMA NextWrite ==
  ASSUME NEW p \in Requests, NEW r, Streamed(p, r), r.keyed, r.phase = "running", r.chain # << >>
  PROVE  /\ Head(r.chain) # Mark =>
              /\ Recorded(r) # << >> /\ Recorded(r) \in Seq(Own(p))
              /\ Head(r.chain) = Head(Recorded(r))
              /\ r.completion = "none" => Tail(r.chain) = Tail(Recorded(r))
              /\ r.completion # "none" => Tail(r.chain) = Append(Tail(Recorded(r)), Mark)
         /\ Head(r.chain) = Mark => r.completion # "none" /\ Recorded(r) = << >>
<1> PICK c : c = Recorded(r)
  OBVIOUS
<1>1. /\ c \in Seq(Own(p))
      /\ r.completion = "none" => r.chain = c
      /\ r.completion # "none" => r.chain = Append(c, Mark)
  BY DEF Streamed, Recorded
<1>2. Mark \notin Own(p)
  BY MarkIsNoLine, OwnLines DEF Mark
<1>3. c # << >> => /\ Head(Append(c, Mark)) = Head(c) /\ Head(c) # Mark
                   /\ Tail(Append(c, Mark)) = Append(Tail(c), Mark)
  BY <1>1, <1>2, MarkedChain
<1>4. CASE c # << >>
  BY <1>1, <1>3, <1>4
<1>5. CASE c = << >>
  BY <1>1, <1>5, EmptyChain
<1> QED BY <1>4, <1>5

LEMMA AppendIs ==
  ASSUME NEW X, NEW s \in Seq(X), NEW t \in Seq(X), IsPrefix(t, s), NEW x \in X
  PROVE  /\ Append(s, x) \in Seq(X) /\ Append(s, x) # << >>
         /\ IsPrefix(t, Append(s, x))
         /\ \A Y : Append(s, x) \in Seq(Y) => x \in Y
<1>1. Append(s, x) \in Seq(X) /\ Append(s, x) # << >>
  OBVIOUS
<1>2. IsPrefix(t, Append(s, x))
  BY DEF IsPrefix
<1>3. ASSUME NEW Y, Append(s, x) \in Seq(Y) PROVE x \in Y
  <2>1. Append(s, x)[Len(s) + 1] = x /\ Len(s) + 1 \in 1..Len(Append(s, x))
    OBVIOUS
  <2> QED BY <1>3, <2>1
<1> QED BY <1>1, <1>2, <1>3

\* Redis has a line more and the run one less to write.
LEMMA AppendStreams ==
  ASSUME RunType, OwnerInv, StreamInv, NEW p \in Requests, RedisAppends(p)
  PROVE  StreamInv'
<1> SUFFICES ASSUME faults = 0 PROVE ListInv' /\ SentInv' /\ ReadInv'
  BY DEF RedisAppends, StreamInv
<1>0. ListInv /\ SentInv /\ ReadInv
  BY DEF StreamInv
<1> DEFINE r == req[p]
           s == ChainGoesOn(p)
           line == Head(r.chain)
           rest == Recorded(r)
<1>1. /\ r.phase = "running" /\ r.chain # << >> /\ line # Mark /\ r \in RequestType
      /\ Streamed(p, r) /\ Told(r) /\ r.keyed
  <2>1. Sound(r) /\ r.phase = "running" /\ r.chain # << >> /\ r \in RequestType
    BY DEF RedisAppends, RunType, RunInv, TypeOK
  <2> QED BY <1>0, <2>1 DEF RedisAppends, Mark, SentInv, Sound, Core
<1>2. /\ status = "in-progress" /\ list \in Seq(Own(p))
      /\ \A q \in Requests : Owns(req[q]) => q = p
  BY <1>0, <1>1 DEF ListInv, OwnerInv, Owns
<1>3. /\ list' = Append(list, line) /\ status' = status
      /\ \A q \in Requests : req'[q] = IF q = p THEN s ELSE req[q]
  <2> HIDE DEF s, line
  <2>1. req' = [req EXCEPT ![p] = s] /\ list' = Append(list, line) /\ status' = status
    BY DEF RedisAppends, Become, s, line, r
  <2> QED BY <2>1 DEF RunType, TypeOK
<1>4. /\ s.chain = Tail(r.chain) /\ s.phase = r.phase /\ s.keyed = r.keyed /\ s.at = r.at
      /\ s.out = r.out /\ s.completion = r.completion /\ s.closed = r.closed
  BY <1>1 DEF ChainGoesOn, RequestType
<1> HIDE DEF r, s
<1>5. /\ rest # << >> /\ rest \in Seq(Own(p)) /\ line = Head(rest)
      /\ r.completion = "none" => s.chain = Tail(rest)
      /\ r.completion # "none" => s.chain = Append(Tail(rest), Mark)
  BY <1>1, <1>4, NextWrite
<1>6. line \in Own(p) /\ Tail(rest) \in Seq(Own(p))
  <2> HIDE DEF rest
  <2> QED BY <1>5
<1>7. Recorded(s) = Tail(rest)
  <2> PICK t : t = Tail(rest)
    OBVIOUS
  <2> HIDE DEF rest
  <2>1. t \in Seq(Own(p))
    BY <1>6
  <2>2. SubSeq(Append(t, Mark), 1, Len(Append(t, Mark)) - 1) = t
    BY <2>1, FrontAppend
  <2> QED BY <1>4, <1>5, <2>2 DEF Recorded
<1>8. list' \o Recorded(s) = list \o rest
  <2> PICK t : t = rest
    OBVIOUS
  <2>1. Append(list, Head(t)) \o Tail(t) = list \o t
    BY <1>2, <1>5, HeadMoves
  <2> QED BY <1>3, <1>5, <1>7, <2>1
<1> HIDE DEF line, rest
<1>9. /\ list' \in Seq(Own(p)) /\ list' # << >>
      /\ \A q \in Requests : list' \in Seq(Own(q)) => q = p
  <2>1. IsPrefix(list, list)
    BY DEF IsPrefix
  <2>2. /\ Append(list, line) \in Seq(Own(p)) /\ Append(list, line) # << >>
        /\ \A Y : Append(list, line) \in Seq(Y) => line \in Y
    BY <1>2, <1>6, <2>1, AppendIs
  <2>3. \A q \in Requests : line \in Own(q) => q = p
    BY <1>6 DEF Own
  <2> QED BY <1>3, <2>2, <2>3
<1>10. /\ \A q \in Requests : req'[q].keyed = req[q].keyed
       /\ \A q \in Requests : Owns(req'[q]) => q = p
       /\ \A q \in Requests : req'[q].phase = req[q].phase /\ req'[q].out = req[q].out
       /\ Owns(req[p]) /\ req'[p].phase = "running" /\ req'[p].keyed
  BY <1>1, <1>2, <1>3, <1>4 DEF Owns, r
<1>11. ListInv'
  BY <1>2, <1>3, <1>9, <1>10 DEF ListInv
<1>12. ReadInv'
  <2> SUFFICES ASSUME NEW x \in Requests, req'[x].phase = "replaying"
               PROVE  /\ \A k \in 1..Len(req'[x].out) : req'[req'[x].out[k][1]].keyed
                      /\ \A q \in Requests :
                           /\ list' \in Seq(Own(q)) /\ req'[x].out \in Seq(Own(q))
                           => IsPrefix(req'[x].out, list')
    BY DEF ReadInv
  <2>1. \A k \in 1..Len(req[x].out) : req[x].out[k][1] \in Requests
    BY DEF RunType, TypeOK, RequestType, Lines
  <2>2. ASSUME NEW q \in Requests, list' \in Seq(Own(q)), req'[x].out \in Seq(Own(q))
        PROVE  IsPrefix(req'[x].out, list')
    <3>1. q = p
      BY <1>9, <2>2
    <3>2. req[x].out \in Seq(Own(p)) /\ req[x].phase = "replaying"
      BY <1>10, <2>2, <3>1
    <3>3. IsPrefix(req[x].out, list)
      BY <1>0, <1>2, <1>10, <3>2 DEF ReadInv
    <3>4. \A o \in Seq(Own(p)) : IsPrefix(o, list) => IsPrefix(o, Append(list, line))
      BY <1>2, <1>6, AppendIs
    <3> QED BY <1>3, <1>10, <3>2, <3>3, <3>4
  <2> QED BY <1>0, <1>10, <2>1, <2>2 DEF ReadInv
<1>13. SentInv'
  <2> SUFFICES ASSUME NEW q \in Requests, req'[q].phase \in {"running", "done"}
               PROVE  /\ Streamed(q, req[q])' /\ Told(req[q])'
                      /\ req'[q].keyed /\ req'[q].phase = "done" /\ list' # << >> /\ list' \in Seq(Own(q)) =>
                           /\ IsPrefix(req'[q].out, list')
                           /\ req'[q].out = list' \/ Misses(req'[q].out)
    BY DEF SentInv
  <2>1. CASE q = p
    <3>1. req'[q] = s /\ req'[q].phase = "running"
      BY <1>3, <1>10, <2>1
    <3>2. /\ s.out \in Seq(Own(p)) /\ Recorded(s) \in Seq(Own(p))
          /\ s.completion # "none" => s.chain = Append(Recorded(s), Mark)
          /\ IsPrefix(s.out, list' \o Recorded(s))
          /\ s.out = list' \o Recorded(s) \/ (s.closed /\ Misses(s.out))
      BY <1>1, <1>4, <1>5, <1>6, <1>7, <1>8 DEF Streamed, rest
    <3>3. Streamed(q, req[q])'
      BY <2>1, <3>1, <3>2 DEF Streamed, Recorded
    <3>4. Told(req[q])'
      BY <1>1, <1>4, <3>1 DEF Told, Answered
    <3> QED BY <3>1, <3>3, <3>4
  <2>2. CASE q # p
    <3>1. req'[q] = req[q] /\ ~ (req[q].phase = "running" /\ req[q].keyed)
      BY <1>2, <1>3, <2>2 DEF Owns
    <3>2. Streamed(q, req[q])' /\ Told(req[q])'
      BY <1>0, <3>1 DEF SentInv, Streamed, Told, Answered
    <3> QED BY <1>9, <2>2, <3>2
  <2> QED BY <2>1, <2>2
<1> QED BY <1>11, <1>12, <1>13

\* All lines of the run are there when its status says so.
LEMMA CompletionStreams ==
  ASSUME RunType, OwnerInv, StreamInv, NEW p \in Requests, RedisCompletes(p)
  PROVE  StreamInv'
<1> SUFFICES ASSUME faults = 0 PROVE ListInv' /\ SentInv' /\ ReadInv'
  BY DEF RedisCompletes, StreamInv
<1>0. ListInv /\ SentInv /\ ReadInv
  BY DEF StreamInv
<1> DEFINE r == req[p]
           s == Finish(ChainGoesOn(p))
<1>1. /\ r.phase = "running" /\ r.chain # << >> /\ Head(r.chain) = Mark /\ r \in RequestType
      /\ Streamed(p, r) /\ Told(r) /\ r.keyed
  <2>1. Sound(r) /\ r.phase = "running" /\ r.chain # << >> /\ r \in RequestType
    BY DEF RedisCompletes, RunType, RunInv, TypeOK
  <2> QED BY <1>0, <2>1 DEF RedisCompletes, Mark, SentInv, Sound, Core
<1>2. /\ status = "in-progress" /\ list \in Seq(Own(p))
      /\ \A q \in Requests : Owns(req[q]) => q = p
  BY <1>0, <1>1 DEF ListInv, OwnerInv, Owns
<1>3. /\ list' = list /\ status' = "complete"
      /\ \A q \in Requests : req'[q] = IF q = p THEN s ELSE req[q]
  <2> HIDE DEF s
  <2>1. req' = [req EXCEPT ![p] = s] /\ list' = list /\ status' = "complete"
    BY DEF RedisCompletes, Become, s
  <2> QED BY <2>1 DEF RunType, TypeOK
<1>4. /\ s.phase = "done" /\ s.keyed = r.keyed /\ s.out = r.out /\ s.completion = r.completion
  BY <1>1 DEF Finish, ChainGoesOn, RequestType
<1> HIDE DEF r, s
<1>5. r.completion # "none" /\ Recorded(r) = << >>
  BY <1>1, NextWrite
<1>6. /\ IsPrefix(r.out, list)
      /\ r.out = list \/ Misses(r.out)
      /\ r.out \in Seq(Own(p))
  <2>1. list \o << >> = list
    BY <1>2
  <2> QED BY <1>1, <1>5, <2>1 DEF Streamed
<1>7. /\ \A q \in Requests : req'[q].keyed = req[q].keyed /\ req'[q].out = req[q].out
      /\ \A q \in Requests : ~ Owns(req'[q])
      /\ \A q \in Requests : req'[q].phase = "replaying" => req[q].phase = "replaying"
      /\ req'[p].phase = "done" /\ req'[p].keyed
  BY <1>1, <1>2, <1>3, <1>4 DEF Owns, r
<1>8. ListInv'
  BY <1>2, <1>3, <1>7 DEF ListInv
<1>9. ReadInv'
  <2>1. \A x \in Requests, k \in Nat : k \in 1..Len(req[x].out) => req[x].out[k][1] \in Requests
    BY DEF RunType, TypeOK, RequestType, Lines
  <2> QED BY <1>0, <1>3, <1>7, <2>1 DEF ReadInv
<1>10. SentInv'
  <2> SUFFICES ASSUME NEW q \in Requests, req'[q].phase \in {"running", "done"}
               PROVE  /\ Streamed(q, req[q])' /\ Told(req[q])'
                      /\ req'[q].keyed /\ req'[q].phase = "done" /\ list' # << >> /\ list' \in Seq(Own(q)) =>
                           /\ IsPrefix(req'[q].out, list')
                           /\ req'[q].out = list' \/ Misses(req'[q].out)
    BY DEF SentInv
  <2>1. CASE q = p
    <3>1. req'[q] = s
      BY <1>3, <2>1
    <3>2. Streamed(q, req[q])'
      BY <1>4, <1>6, <2>1, <3>1 DEF Streamed
    <3>3. Told(req[q])'
      BY <1>4, <1>5, <3>1 DEF Told
    <3>4. req'[q].out = r.out /\ list' = list
      BY <1>3, <1>4, <3>1
    <3>5. IsPrefix(req'[q].out, list') /\ (req'[q].out = list' \/ Misses(req'[q].out))
      BY <1>6, <3>4
    <3> QED BY <3>2, <3>3, <3>5
  <2>2. CASE q # p
    <3>1. req'[q] = req[q]
      BY <1>3, <2>2
    <3>2. Streamed(q, req[q])' /\ Told(req[q])'
      BY <1>0, <1>3, <3>1 DEF SentInv, Streamed, Told, Answered
    <3> QED BY <1>0, <1>3, <3>1, <3>2 DEF SentInv
  <2> QED BY <2>1, <2>2
<1> QED BY <1>8, <1>9, <1>10

LEMMA EndStreams ==
  ASSUME RunType, OwnerInv, StreamInv, Crash \/ Expire
  PROVE  StreamInv'
<1> SUFFICES ASSUME faults = 0 PROVE ListInv' /\ SentInv' /\ ReadInv'
  BY DEF Crash, Expire, StreamInv
<1>0. ListInv /\ SentInv /\ ReadInv
  BY DEF StreamInv
<1>1. \A x \in Requests, k \in Nat : k \in 1..Len(req[x].out) => req[x].out[k][1] \in Requests
  BY DEF RunType, TypeOK, RequestType, Lines
<1>2. CASE Crash
  <2>1. /\ \A x \in Requests : req'[x].keyed = req[x].keyed /\ req'[x].out = req[x].out
        /\ \A x \in Requests : req'[x] = req[x] \/ req'[x].phase = "lost"
        /\ \A x \in Requests : req'[x].phase \in Final \cup {"unsent"}
        /\ \A x \in Requests : req[x].phase = "done" => req'[x] = req[x]
        /\ status' = status /\ list' = list
    <3> SUFFICES ASSUME NEW x \in Requests
                 PROVE  /\ req'[x].keyed = req[x].keyed /\ req'[x].out = req[x].out
                        /\ req'[x] = req[x] \/ req'[x].phase = "lost"
                        /\ req'[x].phase \in Final \cup {"unsent"}
                        /\ req[x].phase = "done" => req'[x] = req[x]
      BY <1>2 DEF Crash
    <3>1. req[x] \in RequestType
      BY DEF RunType, TypeOK
    <3>2. req'[x] = IF req[x].phase \in Final \cup {"unsent"} THEN req[x]
                    ELSE [req[x] EXCEPT !.phase = "lost"]
      BY <1>2 DEF Crash
    <3>3. CASE req[x].phase \in Final \cup {"unsent"}
      BY <3>2, <3>3
    <3>4. CASE req[x].phase \notin Final \cup {"unsent"}
      BY <3>1, <3>2, <3>4 DEF RequestType, Final
    <3> QED BY <3>3, <3>4
  <2>2. \A x \in Requests : /\ req'[x].phase \notin {"running", "clearing", "replaying"}
                            /\ ~ Owns(req'[x])
    BY <2>1 DEF Final, Owns
  <2>3. ListInv'
    BY <1>0, <2>1, <2>2 DEF ListInv
  <2>4. ReadInv'
    BY <2>2 DEF ReadInv
  <2>5. SentInv'
    <3> SUFFICES ASSUME NEW q \in Requests, req'[q].phase \in {"running", "done"}
                 PROVE  /\ Streamed(q, req[q])' /\ Told(req[q])'
                        /\ req'[q].keyed /\ req'[q].phase = "done" /\ list' # << >> /\ list' \in Seq(Own(q)) =>
                             /\ IsPrefix(req'[q].out, list')
                             /\ req'[q].out = list' \/ Misses(req'[q].out)
      BY DEF SentInv
    <3>1. req'[q] = req[q] /\ list' = list
      BY <2>1
    <3>2. Streamed(q, req[q])' /\ Told(req[q])'
      BY <1>0, <3>1 DEF SentInv, Streamed, Told, Answered
    <3> QED BY <1>0, <3>1, <3>2 DEF SentInv
  <2> QED BY <2>3, <2>4, <2>5
<1>3. CASE Expire
  <2>1. /\ req' = req /\ list' = << >> /\ status' = "none"
        /\ \A p \in Requests : ~ Owns(req[p])
    BY <1>3 DEF Expire, Owns
  <2>2. ListInv'
    BY <2>1 DEF ListInv
  <2>3. ReadInv'
    BY <1>0, <2>1 DEF ReadInv
  <2>4. SentInv'
    <3> SUFFICES ASSUME NEW q \in Requests, req'[q].phase \in {"running", "done"}
                 PROVE  Streamed(q, req[q])' /\ Told(req[q])'
      BY <2>1 DEF SentInv
    <3>1. req'[q] = req[q] /\ ~ (req[q].phase = "running" /\ req[q].keyed)
      BY <2>1 DEF Owns
    <3> QED BY <1>0, <3>1 DEF SentInv, Streamed, Told, Answered
  <2> QED BY <2>2, <2>3, <2>4
<1> QED BY <1>2, <1>3

LEMMA StreamInit == Init => StreamInv
<1> SUFFICES ASSUME Init PROVE ListInv /\ SentInv /\ ReadInv
  BY DEF StreamInv
<1>1. list = << >> /\ \A x \in Requests : req[x].phase = "unsent"
  BY DEF Init
<1> QED BY <1>1 DEF Init, ListInv, SentInv, ReadInv, Owns

\* Every step keeps the invariant; a fault makes it void.
LEMMA StreamNext == RunType /\ OwnerInv /\ StreamInv /\ [Next]_vars => StreamInv'
<1> SUFFICES ASSUME RunType, OwnerInv, StreamInv, [Next]_vars PROVE StreamInv'
  OBVIOUS
<1>1. CASE Crash \/ Expire
  BY <1>1, EndStreams
<1>2. CASE UNCHANGED vars
  BY <1>2 DEF vars, StreamInv, ListInv, SentInv, ReadInv, Streamed, Told, Answered, Owns
<1>3. ASSUME NEW p \in Requests,
             RedisRejects(p) \/ WriteRejected(p) \/ ClaimSentTwice(p) \/ LineSentTwice(p)
      PROVE  StreamInv'
  <2>1. faults \in Nat /\ faults' = faults + 1
    BY <1>3, HttpAssumption
       DEF RedisRejects, WriteRejected, ClaimSentTwice, LineSentTwice, Fault, RunType, TypeOK
  <2> QED BY <2>1 DEF StreamInv
<1>4. ASSUME NEW p \in Requests, Claim(p) \/ Read(p) \/ ClaimAgain(p) \/ LookUp(p)
      PROVE  StreamInv'
  <2>1. \E phase \in Early \cup {"replaying"} :
          /\ To(p, phase) /\ req[p].phase \in Early \ {"clearing"}
          /\ UNCHANGED <<list, faults>>
          /\ phase = "clearing" => status = "none" /\ status' = "in-progress"
          /\ phase # "clearing" => UNCHANGED status
    BY <1>4 DEF Claim, Read, ClaimAgain, LookUp, Early
  <2> QED BY <2>1, MoveStreams
<1>5. ASSUME NEW p \in Requests,
             \/ Send(p) \/ Clear(p) \/ ReplayBatch(p) \/ RedisAppends(p) \/ RedisCompletes(p)
             \/ Disconnect(p) \/ Timeout(p)
             \/ \E i \in Payloads :
                  CredentialsAnswered(p, i) \/ GetReturns(p, i) \/ MessageAnswered(p, i)
      PROVE  StreamInv'
  BY <1>5, SendStreams, ClearStreams, ReplayStreams, AppendStreams, CompletionStreams,
     DisconnectStreams, TimeoutStreams, CallbackStreams
<1> QED BY <1>1, <1>2, <1>3, <1>4, <1>5 DEF Next, Redis

\* Only the last batch of a replay ends it.
LEMMA OnlyABatchEndsAReplay ==
  ASSUME RunType, OwnerInv, [Next]_vars, NEW x \in Requests,
         req[x].phase = "replaying", req'[x].phase = "replayed"
  PROVE  ReplayBatch(x)
<1>0. req \in [Requests -> RequestType] /\ \A y \in Requests : DOMAIN req[y] = Fields
  BY DEF RunType, TypeOK, OwnerInv, Shape
<1>1. CASE Crash
  <2>1. req'[x] = [req[x] EXCEPT !.phase = "lost"] /\ req[x] \in RequestType
    BY <1>0, <1>1 DEF Crash, Final
  <2>2. [req[x] EXCEPT !.phase = "lost"].phase = "lost"
    BY <2>1 DEF RequestType
  <2> QED BY <2>1, <2>2
<1>2. CASE Expire \/ UNCHANGED vars
  BY <1>2 DEF Expire, vars
<1>3. ASSUME NEW p \in Requests, p # x,
             \/ Send(p) \/ Redis(p) \/ RedisRejects(p) \/ Disconnect(p) \/ Timeout(p)
             \/ WriteRejected(p) \/ ClaimSentTwice(p) \/ LineSentTwice(p)
             \/ \E i \in Payloads :
                  CredentialsAnswered(p, i) \/ GetReturns(p, i) \/ MessageAnswered(p, i)
      PROVE  FALSE
  <2>1. \E s : req' = [req EXCEPT ![p] = s]
    BY <1>3 DEF Send, Redis, RedisRejects, Disconnect, Timeout, WriteRejected, ClaimSentTwice,
         LineSentTwice, CredentialsAnswered, GetReturns, MessageAnswered, Claim, Read, ClaimAgain,
         Clear, LookUp, ReplayBatch, RedisAppends, RedisCompletes, To, Become
  <2>2. req'[x] = req[x]
    BY <1>0, <1>3, <2>1
  <2> QED BY <2>2
<1>4. CASE RedisRejects(x)
  <2>1. To(x, "cut")
    BY <1>4 DEF RedisRejects
  <2>2. req'[x].phase = "cut"
    BY <1>0, <2>1 DEF To, RequestType
  <2> QED BY <2>2
<1>5. CASE \/ Send(x) \/ Disconnect(x) \/ Timeout(x) \/ WriteRejected(x) \/ ClaimSentTwice(x)
           \/ LineSentTwice(x)
           \/ Claim(x) \/ Read(x) \/ ClaimAgain(x) \/ Clear(x) \/ LookUp(x)
           \/ RedisAppends(x) \/ RedisCompletes(x)
           \/ \E i \in Payloads :
                CredentialsAnswered(x, i) \/ GetReturns(x, i) \/ MessageAnswered(x, i)
  BY <1>5 DEF Send, Disconnect, Timeout, WriteRejected, ClaimSentTwice, LineSentTwice, Claim, Read,
       ClaimAgain, Clear, LookUp, RedisAppends, RedisCompletes,
       CredentialsAnswered, GetReturns, MessageAnswered, Alive
<1> QED BY <1>1, <1>2, <1>3, <1>4, <1>5 DEF Next, Redis

LEMMA PrefixIsSubSeq ==
  ASSUME NEW X, NEW s \in Seq(X), NEW t \in Seq(X), IsPrefix(s, t)
  PROVE  Len(s) <= Len(t) /\ s = SubSeq(t, 1, Len(s))
BY DEF IsPrefix

\* The batch that ends a replay reaches the end of the list.
LEMMA LastBatch ==
  ASSUME NEW X, NEW s \in Seq(X), NEW t \in Seq(X), NEW n \in Nat, n <= Len(t),
         NEW size \in Nat, n = Len(t) \/ n = Len(s) + size,
         NEW batch, batch = SubSeq(t, Len(s) + 1, n), Len(batch) < size
  PROVE  n = Len(t)
<1>1. Len(batch) = IF Len(s) <= n THEN n - Len(s) ELSE 0
  BY SubSeqAt
<1> QED BY <1>1

LEMMA OwnSequence ==
  ASSUME NEW p \in Requests, NEW s \in Seq(Lines), \A k \in 1..Len(s) : s[k][1] = p
  PROVE  s \in Seq(Own(p))
<1>1. \A k \in 1..Len(s) : s[k] \in Own(p)
  BY DEF Lines, Own
<1> QED BY <1>1

\* A replay that ends shows what the client of the run was sent, or goes on
\* where that client went away, while no call of Redis fails.
THEOREM ReplayIsTheStreamHolds == Spec => ReplayIsTheStream
<1> DEFINE Inv == RunType /\ OwnerInv /\ StreamInv
<1>1. Init => Inv
  BY RunInit, OwnerInit, StreamInit
<1>2. Inv /\ [Next]_vars => Inv'
  BY RunNext, OwnerNext, StreamNext
<1>3. ASSUME Inv, [Next]_vars, NEW x \in Requests, NEW p \in Requests,
             req[x].phase = "replaying", req'[x].phase = "replayed",
             faults = 0, status = "complete", list # << >>,
             \A k \in 1..Len(list) : list[k][1] = p,
             \A k \in 1..Len(req'[x].out) : req'[x].out[k][1] = p
      PROVE  LET sent == req[p].out
                 shown == req'[x].out
             IN  /\ Len(sent) <= Len(shown) /\ sent = SubSeq(shown, 1, Len(sent))
                 /\ sent = shown \/ \E k \in Payloads : <<p, k>> \notin {sent[j] : j \in 1..Len(sent)}
  <2>1. ReplayBatch(x)
    BY <1>3, OnlyABatchEndsAReplay
  <2>2. ListInv /\ SentInv /\ ReadInv
    BY <1>3 DEF StreamInv
  <2>old. PICK old : old = req[x].out
    OBVIOUS
  <2>new. PICK new : new = req'[x].out
    OBVIOUS
  <2>sent. PICK sent : sent = req[p].out
    OBVIOUS
  <2>3. PICK n \in Nat :
             /\ n <= Len(list)
             /\ n = Len(list) \/ n = Len(old) + BatchSize
             /\ new = old \o SubSeq(list, Len(old) + 1, n)
             /\ Len(SubSeq(list, Len(old) + 1, n)) < BatchSize
    BY <1>3, <2>1, <2>old, <2>new, BatchRead
  <2>4. old \in Seq(Lines) /\ list \in Seq(Lines) /\ BatchSize \in Nat
    BY <1>3, <2>old, HttpAssumption DEF RunType, TypeOK, RequestType
  <2>5. n = Len(list)
    <3>1. PICK batch : batch = SubSeq(list, Len(old) + 1, n) /\ Len(batch) < BatchSize
      BY <2>3
    <3>2. n <= Len(list) /\ (n = Len(list) \/ n = Len(old) + BatchSize)
      BY <2>3
    <3> QED BY <2>4, <3>1, <3>2, LastBatch
  <2>6. new \in Seq(Lines) /\ Len(old) <= Len(new) /\ ComesFrom(new, old, list)
    BY <2>3, <2>4, Extended
  <2>7. list \in Seq(Own(p)) /\ old \in Seq(Own(p))
    <3>1. \A k \in 1..Len(old) : old[k][1] = p
      BY <1>3, <2>4, <2>6, <2>new DEF ComesFrom
    <3> QED BY <1>3, <2>4, <3>1, OwnSequence
  <2>8. IsPrefix(old, list) /\ new \in Seq(Own(p))
    <3>1. new \in Seq(Own(p))
      BY <1>3, <2>6, <2>new, OwnSequence
    <3> QED BY <1>3, <2>2, <2>7, <2>old, <3>1 DEF ReadInv
  <2>9. new = list
    <3>1. IsPrefix(new, list) /\ Len(new) = n
      <4>1. Len(old) <= n /\ n <= Len(list)
        BY <2>5, <2>8 DEF IsPrefix
      <4> QED BY <2>3, <2>7, <2>8, <4>1, ReadsOn
    <3> QED BY <2>5, <2>7, <2>8, <3>1, PrefixOfSame
  <2>10. /\ IsPrefix(sent, list)
         /\ sent = list \/ Misses(sent)
         /\ sent \in Seq(Own(p))
    <3>1. PICK q \in Requests : list \in Seq(Own(q)) /\ req[q].keyed /\ req[q].phase = "done"
      BY <1>3, <2>2 DEF ListInv
    <3>2. q = p
      <4>1. 1 \in 1..Len(list)
        BY <1>3, <2>4
      <4>2. list[1] \in Own(p) /\ list[1] \in Own(q)
        BY <2>7, <3>1, <4>1
      <4> QED BY <4>2 DEF Own
    <3> QED BY <1>3, <2>2, <2>7, <2>sent, <3>1, <3>2 DEF SentInv, Streamed
  <2>11. Len(sent) <= Len(list) /\ sent = SubSeq(list, 1, Len(sent))
    BY <2>7, <2>10, PrefixIsSubSeq
  <2>12. Misses(sent) => \E k \in Payloads : <<p, k>> \notin {sent[j] : j \in 1..Len(sent)}
    <3> SUFFICES ASSUME NEW k \in Payloads, \A j \in 1..Len(sent) : sent[j][2] # k
                 PROVE  <<p, k>> \notin {sent[j] : j \in 1..Len(sent)}
      BY DEF Misses
    <3>1. ASSUME NEW j \in 1..Len(sent), sent[j] = <<p, k>> PROVE FALSE
      BY <3>1
    <3> QED BY <3>1
  <2> QED BY <2>9, <2>10, <2>11, <2>12, <2>new, <2>sent
<1>4. Inv /\ [Next]_vars =>
        [\A x \in Requests, p \in Requests :
           /\ req[x].phase = "replaying" /\ req'[x].phase = "replayed"
           /\ faults = 0 /\ status = "complete" /\ list # << >>
           /\ \A k \in 1..Len(list) : list[k][1] = p
           /\ \A k \in 1..Len(req'[x].out) : req'[x].out[k][1] = p
           => LET sent == req[p].out
                  shown == req'[x].out
              IN  /\ Len(sent) <= Len(shown) /\ sent = SubSeq(shown, 1, Len(sent))
                  /\ sent = shown \/ \E k \in Payloads : <<p, k>> \notin {sent[j] : j \in 1..Len(sent)}]_vars
  BY <1>3
<1> HIDE DEF Inv
<1> QED BY <1>1, <1>2, <1>4, PTL DEF Spec, ReplayIsTheStream
=============================================================================
