------------------------- MODULE JobRouting_proofs -------------------------
(***************************************************************************)
(* For every set of messages, instances and identifiers: the types (and    *)
(* with them that titles never run out), that within one queue object the  *)
(* titles keep the results apart, and that no teardown destroys the jobs   *)
(* of an instance in service as long as no actor has changed.              *)
(***************************************************************************)
EXTENDS JobRouting, FiniteSetTheorems, TLAPS

RoutedTo(i) == {r \in Requests : inst[r] = i}

\* A queue object has used up one title per message it was given, and the
\* messages of one object bear different titles.
TitleInv ==
  /\ \A i \in Instances : counter[i] = Cardinality(RoutedTo(i))
  /\ \A r \in Requests :
       /\ pc[r] = "new" <=> inst[r] = NoInstance
       /\ inst[r] # NoInstance => title[r] < counter[inst[r]]
  /\ \A q, r \in Requests :
       inst[q] = inst[r] /\ inst[q] # NoInstance /\ title[q] = title[r] => q = r

\* A handler belongs to a message of its instance and stands under its title.
HandlerInv ==
  \A i \in Instances : \A t \in Titles :
    handlers[i][t] # NoRequest
      => inst[handlers[i][t]] = i /\ title[handlers[i][t]] = t

\* Whatever is in Redis, is told of or was an answer belongs to a message that
\* has been given an instance.
JobInv ==
  /\ \A i \in Instances : child[i] = "up" \/ stage[i] # "unborn" => name[i] \in Names
  /\ \A r \in Requests : inst[r] # NoInstance => name[inst[r]] \in Names
  /\ \A n \in Names : \A k \in 1..Len(queues[n]) : inst[queues[n][k]] # NoInstance
  /\ \A r \in Requests : job[r] # "none" => inst[r] # NoInstance
  /\ \A i \in Instances : \A r \in events[i] : inst[r] # NoInstance
  /\ \A q \in Requests :
       answer[q] # NoRequest => inst[q] # NoInstance /\ inst[answer[q]] # NoInstance

IInv == TypeOK /\ TitleInv /\ HandlerInv /\ JobInv /\ OnlyForeignJobsMislead

USE RoutingAssumption DEF instanceVars, handlerVars, childVars, redisVars, requestVars

LEMMA TitlesNat == Cardinality(Requests) \in Nat /\ Titles \subseteq Nat
  BY FS_CardinalityType DEF Titles

LEMMA InitIInv == Init => IInv
<1> SUFFICES ASSUME Init PROVE IInv
  OBVIOUS
<1>1. TypeOK
  BY TitlesNat DEF Init, TypeOK, Titles
<1>2. TitleInv
  <2>1. \A i \in Instances : RoutedTo(i) = {}
    BY DEF Init, RoutedTo
  <2> QED BY <2>1, FS_EmptySet DEF Init, TitleInv
<1>3. HandlerInv /\ JobInv /\ OnlyForeignJobsMislead
  BY DEF Init, HandlerInv, JobInv, OnlyForeignJobsMislead
<1> QED BY <1>1, <1>2, <1>3 DEF IInv

-----------------------------------------------------------------------------
(* A message is given an instance *)

\* There is a title left for a message that has none.
LEMMA TitleLeft ==
  ASSUME IInv, NEW r \in Requests, pc[r] = "new", NEW i \in Instances
  PROVE  counter[i] \in Nat /\ counter[i] + 1 \in Titles /\ counter[i] \in Titles
<1>1. RoutedTo(i) \in SUBSET (Requests \ {r})
  BY DEF IInv, TitleInv, RoutedTo
<1>2. /\ IsFiniteSet(Requests \ {r})
      /\ Cardinality(Requests \ {r}) = Cardinality(Requests) - 1
  BY FS_RemoveElement
<1>3. Cardinality(RoutedTo(i)) <= Cardinality(Requests) - 1
  BY <1>1, <1>2, FS_Subset
<1>4. counter[i] = Cardinality(RoutedTo(i)) /\ counter[i] \in Nat
  BY TitlesNat DEF IInv, TitleInv, TypeOK
<1> QED BY <1>3, <1>4, TitlesNat DEF Titles

RoutedTypes ==
  /\ inst \in [Requests -> Instances \cup {NoInstance}]
  /\ title \in [Requests -> Titles]
  /\ counter \in [Instances -> Titles]
  /\ pc \in [Requests -> {"new", "check", "add", "waiting", "answered", "refused"}]

\* Routed() keeps everything that speaks of titles, whether the instance is
\* an old one or has just been forked.
LEMMA RoutedKeeps ==
  ASSUME IInv, NEW r \in Requests, pc[r] = "new", NEW i \in Instances, Routed(r, i)
  PROVE  /\ RoutedTypes'
         /\ TitleInv' /\ HandlerInv' /\ OnlyForeignJobsMislead'
         /\ \A q \in Requests : inst[q] # NoInstance => inst'[q] = inst[q]
<1> USE DEF IInv
<1>1. counter[i] \in Nat /\ counter[i] + 1 \in Titles /\ counter[i] \in Titles
  BY TitleLeft
<1>2. inst[r] = NoInstance
  BY DEF TitleInv
<1>3. /\ inst' = [inst EXCEPT ![r] = i]
      /\ title' = [title EXCEPT ![r] = counter[i]]
      /\ counter' = [counter EXCEPT ![i] = counter[i] + 1]
      /\ pc' = [pc EXCEPT ![r] = "check"]
      /\ handlers' = handlers /\ answer' = answer
  BY DEF Routed, Title
<1>4. RoutedTypes'
  BY <1>1, <1>3 DEF TypeOK, RoutedTypes
<1>5. \A q \in Requests : inst[q] # NoInstance => inst'[q] = inst[q]
  BY <1>2, <1>3 DEF TypeOK
<1>6. TitleInv'
  <2>1. \A k \in Instances : counter'[k] = Cardinality(RoutedTo(k)')
    <3> TAKE k \in Instances
    <3>1. CASE k = i
      <4>1. RoutedTo(i)' = RoutedTo(i) \cup {r} /\ r \notin RoutedTo(i)
        BY <1>2, <1>3 DEF RoutedTo, TypeOK
      <4>2. IsFiniteSet(RoutedTo(i))
        BY FS_Subset DEF RoutedTo
      <4>3. Cardinality(RoutedTo(i)') = Cardinality(RoutedTo(i)) + 1
        BY <4>1, <4>2, FS_AddElement
      <4> QED BY <3>1, <4>3, <1>3 DEF TitleInv, TypeOK
    <3>2. CASE k # i
      <4>1. RoutedTo(k)' = RoutedTo(k)
        BY <3>2, <1>2, <1>3 DEF RoutedTo, TypeOK
      <4> QED BY <3>2, <4>1, <1>3 DEF TitleInv, TypeOK
    <3> QED BY <3>1, <3>2
  <2>2. \A q \in Requests : pc'[q] = "new" <=> inst'[q] = NoInstance
    BY <1>3 DEF TitleInv, TypeOK
  <2>3. \A q \in Requests : inst'[q] # NoInstance => title'[q] < counter'[inst'[q]]
    <3> SUFFICES ASSUME NEW q \in Requests, inst'[q] # NoInstance
                 PROVE  title'[q] < counter'[inst'[q]]
      OBVIOUS
    <3>1. CASE q = r
      BY <3>1, <1>1, <1>3 DEF TypeOK
    <3>2. CASE q # r
      <4>1. inst'[q] = inst[q] /\ title'[q] = title[q] /\ inst[q] \in Instances
        BY <3>2, <1>3 DEF TypeOK
      <4>2. title[q] < counter[inst[q]] /\ title[q] \in Nat
        BY <4>1, TitlesNat DEF TitleInv, TypeOK
      <4>3. counter'[inst[q]] = counter[inst[q]] \/ counter'[inst[q]] = counter[inst[q]] + 1
        BY <4>1, <1>3 DEF TypeOK
      <4>4. counter[inst[q]] \in Nat
        BY <4>1, TitlesNat DEF TypeOK
      <4> QED BY <4>1, <4>2, <4>3, <4>4
    <3> QED BY <3>1, <3>2
  <2>4. ASSUME NEW q \in Requests, NEW s \in Requests,
               inst'[q] = inst'[s], inst'[q] # NoInstance, title'[q] = title'[s]
        PROVE  q = s
    <3>1. \A p \in Requests : p # r /\ inst[p] = i => title[p] < counter[i] /\ title[p] \in Nat
      BY TitlesNat DEF TitleInv, TypeOK
    <3> QED BY <2>4, <3>1, <1>1, <1>3 DEF TitleInv, TypeOK
  <2> QED BY <2>1, <2>2, <2>3, <2>4 DEF TitleInv
<1>7. HandlerInv'
  BY <1>2, <1>3 DEF HandlerInv, TypeOK
<1>8. OnlyForeignJobsMislead'
  BY <1>3, <1>5 DEF OnlyForeignJobsMislead, JobInv, TypeOK
<1> QED BY <1>4, <1>5, <1>6, <1>7, <1>8

LEMMA GetStep ==
  ASSUME IInv, NEW r \in Requests, NEW n \in Names, GetReuses(r, n) \/ GetForks(r, n)
  PROVE  IInv'
<1>1. CASE GetReuses(r, n)
  <2>1. at[n] \in Instances /\ pc[r] = "new" /\ Routed(r, at[n])
    BY <1>1 DEF GetReuses, IInv, TypeOK
  <2>2. /\ RoutedTypes' /\ TitleInv' /\ HandlerInv' /\ OnlyForeignJobsMislead'
        /\ \A q \in Requests : inst[q] # NoInstance => inst'[q] = inst[q]
    BY <2>1, RoutedKeeps
  <2>3. UNCHANGED <<instanceVars, childVars, handlers, events, redisVars, answer, sent>>
    BY <1>1, <2>1 DEF GetReuses, Routed
  <2>4. TypeOK'
    BY <2>2, <2>3 DEF RoutedTypes, IInv, TypeOK
  <2>5. \A q \in Requests : inst'[q] # NoInstance => name[inst'[q]] \in Names
    <3>1. name[at[n]] \in Names
      BY <1>1, <2>1 DEF GetReuses, IInv, JobInv
    <3>2. inst' = [inst EXCEPT ![r] = at[n]]
      BY <2>1 DEF Routed
    <3> QED BY <3>1, <3>2 DEF IInv, TypeOK, JobInv
  <2>6. JobInv'
    BY <2>2, <2>3, <2>5 DEF IInv, TypeOK, JobInv
  <2> QED BY <2>2, <2>4, <2>6 DEF IInv
<1>2. CASE GetForks(r, n)
  <2> DEFINE i == CHOOSE k \in Unborn : TRUE
  <2>1. i \in Instances
    BY <1>2 DEF GetForks, Unborn
  <2> HIDE DEF i
  <2>2. /\ pc[r] = "new" /\ Routed(r, i)
        /\ at' = [at EXCEPT ![n] = i] /\ id' = [id EXCEPT ![i] = n]
        /\ name' = [name EXCEPT ![i] = n] /\ stage' = [stage EXCEPT ![i] = "up"]
        /\ child' = [child EXCEPT ![i] = "up"]
        /\ UNCHANGED <<moving, due>>
    BY <1>2 DEF GetForks, i
  <2>3. /\ RoutedTypes' /\ TitleInv' /\ HandlerInv' /\ OnlyForeignJobsMislead'
        /\ \A q \in Requests : inst[q] # NoInstance => inst'[q] = inst[q]
    BY <2>1, <2>2, RoutedKeeps
  <2>4. UNCHANGED <<handlers, events, redisVars, answer, sent>>
    BY <2>2 DEF Routed
  <2>5. TypeOK'
    BY <2>1, <2>2, <2>3, <2>4 DEF RoutedTypes, IInv, TypeOK
  <2>6. \A q \in Requests : inst'[q] # NoInstance => name'[inst'[q]] \in Names
    <3>1. inst' = [inst EXCEPT ![r] = i]
      BY <2>2 DEF Routed
    <3> QED BY <3>1, <2>1, <2>2 DEF IInv, TypeOK, JobInv
  <2>7. JobInv'
    BY <2>1, <2>2, <2>3, <2>4, <2>6 DEF IInv, TypeOK, JobInv
  <2> QED BY <2>3, <2>5, <2>7 DEF IInv
<1> QED BY <1>1, <1>2

-----------------------------------------------------------------------------
(* The other steps leave titles and instances of the messages alone *)

LEMMA TitlesKept ==
  ASSUME TitleInv, UNCHANGED <<inst, title, counter>>,
         \A q \in Requests : pc'[q] = "new" <=> pc[q] = "new"
  PROVE  TitleInv'
  BY DEF TitleInv, RoutedTo

LEMMA AddStep ==
  ASSUME IInv, NEW r \in Requests, CheckPaused(r) \/ AddRefused(r) \/ Add(r)
  PROVE  IInv'
<1> USE DEF IInv
<1>1. TitleInv'
  BY TitlesKept DEF CheckPaused, AddRefused, Add, TypeOK
<1>2. CASE CheckPaused(r) \/ AddRefused(r)
  <2>1. TypeOK'
    <3>1. \/ pc' = [pc EXCEPT ![r] = "refused"]
          \/ pc' = [pc EXCEPT ![r] = "add"]
      BY <1>2 DEF CheckPaused, AddRefused
    <3>2. UNCHANGED <<instanceVars, handlerVars, childVars, redisVars, inst, title, answer, sent>>
      BY <1>2 DEF CheckPaused, AddRefused
    <3> QED BY <3>1, <3>2 DEF TypeOK
  <2>2. HandlerInv' /\ JobInv' /\ OnlyForeignJobsMislead'
    BY <1>2 DEF CheckPaused, AddRefused, HandlerInv, JobInv, OnlyForeignJobsMislead
  <2> QED BY <1>1, <2>1, <2>2
<1>3. CASE Add(r)
  <2>1. inst[r] \in Instances /\ inst[r] # NoInstance /\ name[inst[r]] \in Names
    BY <1>3 DEF Add, TitleInv, JobInv, TypeOK
  <2>2. PICK old \in SUBSET Titles :
          handlers' = [handlers EXCEPT ![inst[r]] = [t \in Titles |->
                         IF t = title[r] THEN r ELSE IF t \in old THEN NoRequest ELSE @[t]]]
    BY <1>3 DEF Add
  <2>3. TypeOK'
    <3>1. handlers' \in [Instances -> [Titles -> Requests \cup {NoRequest}]]
      BY <2>1, <2>2 DEF TypeOK
    <3>2. queues' \in [Names -> Seq(Requests)]
      BY <1>3, <2>1 DEF Add, TypeOK
    <3> QED BY <1>3, <2>1, <3>1, <3>2 DEF Add, TypeOK
  <2>4. HandlerInv'
    BY <1>3, <2>1, <2>2 DEF Add, HandlerInv, TypeOK
  <2>5. JobInv'
    BY <1>3, <2>1 DEF Add, JobInv, TypeOK
  <2>6. OnlyForeignJobsMislead'
    BY <1>3 DEF Add, OnlyForeignJobsMislead
  <2> QED BY <1>1, <2>3, <2>4, <2>5, <2>6
<1> QED BY <1>2, <1>3

LEMMA ChildStep ==
  ASSUME IInv, NEW i \in Instances,
         \/ ChildDies(i) \/ Take(i)
         \/ \E r \in Requests : Finish(i, r) \/ Stalled(i, r)
         \/ \E n \in Names : ReportActor(i, n)
  PROVE  IInv'
<1> USE DEF IInv
<1>1. TitleInv' /\ HandlerInv' /\ OnlyForeignJobsMislead'
  <2>1. UNCHANGED <<inst, title, counter, pc, handlers, answer>>
    BY DEF ChildDies, Take, Finish, Stalled, ReportActor
  <2> QED BY <2>1, TitlesKept DEF HandlerInv, OnlyForeignJobsMislead
<1>2. CASE ChildDies(i)
  <2>1. TypeOK' /\ JobInv'
    BY <1>2 DEF ChildDies, TypeOK, JobInv
  <2> QED BY <1>1, <2>1
<1>3. CASE Take(i)
  <2>1. name[i] \in Names /\ queues[name[i]] \in Seq(Requests) /\ queues[name[i]] # <<>>
    BY <1>3 DEF Take, JobInv, TypeOK
  <2>2. /\ Head(queues[name[i]]) = queues[name[i]][1]
        /\ Head(queues[name[i]]) \in Requests
        /\ 1 \in 1..Len(queues[name[i]])
    BY <2>1
  <2>3. /\ Tail(queues[name[i]]) \in Seq(Requests)
        /\ \A k \in 1..Len(Tail(queues[name[i]])) :
             /\ k + 1 \in 1..Len(queues[name[i]])
             /\ Tail(queues[name[i]])[k] = queues[name[i]][k + 1]
    BY <2>1
  <2>4. TypeOK'
    BY <1>3, <2>1, <2>2, <2>3 DEF Take, TypeOK
  <2>5. JobInv'
    BY <1>3, <2>1, <2>2, <2>3 DEF Take, JobInv, TypeOK
  <2> QED BY <1>1, <2>4, <2>5
<1>4. ASSUME NEW r \in Requests, Finish(i, r)
      PROVE  TypeOK' /\ JobInv'
  <2>1. job[r] = "active"
    BY <1>4 DEF Finish, HeldBy
  <2> QED BY <1>4, <2>1 DEF Finish, TypeOK, JobInv
<1>5. ASSUME NEW r \in Requests, Stalled(i, r)
      PROVE  TypeOK' /\ JobInv'
  <2>1. name[i] \in Names /\ queues[name[i]] \in Seq(Requests) /\ inst[r] # NoInstance
    BY <1>5 DEF Stalled, JobInv, TypeOK
  <2>2. /\ <<r>> \o queues[name[i]] \in Seq(Requests)
        /\ \A k \in 1..Len(<<r>> \o queues[name[i]]) :
             \/ (<<r>> \o queues[name[i]])[k] = r
             \/ /\ k - 1 \in 1..Len(queues[name[i]])
                /\ (<<r>> \o queues[name[i]])[k] = queues[name[i]][k - 1]
    BY <2>1
  <2>3. TypeOK'
    BY <1>5, <2>1, <2>2 DEF Stalled, TypeOK
  <2>4. \A n \in Names : \A k \in 1..Len(queues'[n]) : inst[queues'[n][k]] # NoInstance
    <3> SUFFICES ASSUME NEW n \in Names, NEW k \in 1..Len(queues'[n])
                 PROVE  inst[queues'[n][k]] # NoInstance
      OBVIOUS
    <3>1. CASE n = name[i]
      <4>1. queues'[n] = <<r>> \o queues[name[i]]
        BY <1>5, <3>1, <2>1 DEF Stalled, TypeOK
      <4> QED BY <4>1, <2>1, <2>2 DEF JobInv
    <3>2. CASE n # name[i]
      BY <1>5, <3>2 DEF Stalled, TypeOK, JobInv
    <3> QED BY <3>1, <3>2
  <2>5. JobInv'
    BY <1>5, <2>1, <2>4 DEF Stalled, JobInv, TypeOK
  <2> QED BY <2>3, <2>5
<1>6. ASSUME NEW n \in Names, ReportActor(i, n)
      PROVE  TypeOK' /\ JobInv'
  BY <1>6 DEF ReportActor, TypeOK, JobInv
<1> QED BY <1>1, <1>2, <1>3, <1>4, <1>5, <1>6

LEMMA ResultStep ==
  ASSUME IInv, NEW i \in Instances, NEW r \in Requests, HandleResult(i, r)
  PROVE  IInv'
<1> USE DEF IInv
<1> DEFINE caller == handlers[i][title[r]]
<1>1. inst[r] # NoInstance /\ title[r] \in Titles /\ caller \in Requests \cup {NoRequest}
  BY DEF HandleResult, JobInv, TypeOK
<1>2. caller # NoRequest
        => caller \in Requests /\ inst[caller] = i /\ title[caller] = title[r]
  BY <1>1 DEF HandlerInv
<1>3. /\ UNCHANGED <<instanceVars, counter, childVars, redisVars, inst, title>>
      /\ events' = [events EXCEPT ![i] = @ \ {r}]
      /\ \/ UNCHANGED <<handlers, pc, answer, sent>>
         \/ caller = NoRequest /\ sent' = sent \cup {r} /\ UNCHANGED <<handlers, pc, answer>>
         \/ /\ caller # NoRequest
            /\ handlers' = [handlers EXCEPT ![i][title[r]] = NoRequest]
            /\ pc' = [pc EXCEPT ![caller] = "answered"]
            /\ answer' = [answer EXCEPT ![caller] = r]
            /\ UNCHANGED sent
  BY DEF HandleResult, Unclaimed
<1> HIDE DEF caller
<1>4. TypeOK'
  <2>1. /\ handlers' \in [Instances -> [Titles -> Requests \cup {NoRequest}]]
        /\ events' \in [Instances -> SUBSET Requests]
    <3>1. \A t \in Titles : [handlers[i] EXCEPT ![t] = NoRequest]
                              \in [Titles -> Requests \cup {NoRequest}]
      BY DEF TypeOK
    <3>2. \/ handlers' = handlers
          \/ handlers' = [handlers EXCEPT ![i] = [handlers[i] EXCEPT ![title[r]] = NoRequest]]
      BY <1>3
    <3>3. handlers' \in [Instances -> [Titles -> Requests \cup {NoRequest}]]
      <4>1. handlers \in [Instances -> [Titles -> Requests \cup {NoRequest}]]
        BY DEF TypeOK
      <4>2. [handlers[i] EXCEPT ![title[r]] = NoRequest]
              \in [Titles -> Requests \cup {NoRequest}]
        BY <1>1, <3>1
      <4> QED BY <3>2, <4>1, <4>2
    <3>4. events' \in [Instances -> SUBSET Requests]
      BY <1>3 DEF TypeOK
    <3> QED BY <3>3, <3>4
  <2>2. /\ pc' \in [Requests -> {"new", "check", "add", "waiting", "answered", "refused"}]
        /\ answer' \in [Requests -> Requests \cup {NoRequest}]
        /\ sent' \subseteq Requests
    <3>1. CASE UNCHANGED <<handlers, pc, answer, sent>>
      BY <3>1 DEF TypeOK
    <3>2. CASE sent' = sent \cup {r} /\ UNCHANGED <<handlers, pc, answer>>
      BY <3>2 DEF TypeOK
    <3>3. CASE /\ caller # NoRequest
               /\ pc' = [pc EXCEPT ![caller] = "answered"]
               /\ answer' = [answer EXCEPT ![caller] = r]
               /\ UNCHANGED sent
      BY <1>2, <3>3 DEF TypeOK
    <3> QED BY <1>3, <3>1, <3>2, <3>3
  <2> QED BY <1>3, <2>1, <2>2 DEF TypeOK
<1>5. TitleInv'
  <2>1. \A q \in Requests : pc'[q] = "new" <=> pc[q] = "new"
    BY <1>2, <1>3 DEF TitleInv, TypeOK
  <2> QED BY <2>1, <1>3, TitlesKept
<1>6. HandlerInv'
  BY <1>3, <1>4 DEF HandlerInv, TypeOK
<1>7. JobInv'
  <2>1. \A k \in Instances : events'[k] \subseteq events[k]
    BY <1>3 DEF TypeOK
  <2>2. \A q \in Requests :
          answer'[q] # NoRequest => inst[q] # NoInstance /\ inst[answer'[q]] # NoInstance
    BY <1>1, <1>2, <1>3 DEF JobInv, TypeOK
  <2> QED BY <2>1, <2>2, <1>3 DEF JobInv
<1>8. OnlyForeignJobsMislead'
  BY <1>1, <1>2, <1>3 DEF OnlyForeignJobsMislead, TitleInv, TypeOK
<1> QED BY <1>4, <1>5, <1>6, <1>7, <1>8

LEMMA InstanceStep ==
  ASSUME IInv, NEW i \in Instances,
         \/ UpdateIdentifier(i) \/ (\E b \in BOOLEAN : Shutdown(i, b))
         \/ Pause(i) \/ Obliterate(i) \/ Close(i)
  PROVE  IInv'
<1> USE DEF IInv
<1>1. TitleInv' /\ HandlerInv' /\ OnlyForeignJobsMislead'
  <2>1. UNCHANGED <<inst, title, counter, pc, handlers, answer>>
    BY DEF UpdateIdentifier, Shutdown, Pause, Obliterate, Close
  <2> QED BY <2>1, TitlesKept DEF HandlerInv, OnlyForeignJobsMislead
<1>2. CASE UpdateIdentifier(i)
  <2>1. TypeOK' /\ JobInv'
    BY <1>2 DEF UpdateIdentifier, TypeOK, JobInv
  <2> QED BY <1>1, <2>1
<1>3. ASSUME NEW b \in BOOLEAN, Shutdown(i, b)
      PROVE  TypeOK' /\ JobInv'
  <2>1. /\ stage' \in [Instances -> {"unborn", "up", "pausing", "obliterating", "closing", "down"}]
        /\ events' \in [Instances -> SUBSET Requests]
        /\ \A k \in Instances : events'[k] \subseteq events[k]
    BY <1>3 DEF Shutdown, TypeOK
  <2>2. TypeOK'
    BY <1>3, <2>1 DEF Shutdown, TypeOK
  <2>3. JobInv'
    BY <1>3, <2>1 DEF Shutdown, JobInv
  <2> QED BY <2>2, <2>3
<1>4. CASE Pause(i)
  <2>1. paused' \subseteq Names
    BY <1>4 DEF Pause, TypeOK, JobInv
  <2>2. TypeOK' /\ JobInv'
    BY <1>4, <2>1 DEF Pause, TypeOK, JobInv
  <2> QED BY <1>1, <2>2
<1>5. CASE Obliterate(i)
  <2>1. /\ queues' \in [Names -> Seq(Requests)]
        /\ \A n \in Names : queues'[n] = queues[n] \/ queues'[n] = <<>>
    <3>1. <<>> \in Seq(Requests) /\ queues' = [queues EXCEPT ![name[i]] = <<>>]
      BY <1>5 DEF Obliterate
    <3> QED BY <3>1 DEF TypeOK
  <2>2. /\ job' \in [Requests -> {"none", "waiting", "active", "done", "gone"}]
        /\ \A r \in Requests : job'[r] # "none" => job[r] # "none"
    BY <1>5 DEF Obliterate, JobsOf, TypeOK
  <2>3. TypeOK'
    BY <1>5, <2>1, <2>2 DEF Obliterate, TypeOK
  <2>4. JobInv'
    BY <1>5, <2>1, <2>2 DEF Obliterate, JobInv
  <2> QED BY <1>1, <2>3, <2>4
<1>6. CASE Close(i)
  <2>1. TypeOK' /\ JobInv'
    BY <1>6 DEF Close, TypeOK, JobInv
  <2> QED BY <1>1, <2>1
<1> QED BY <1>1, <1>2, <1>3, <1>4, <1>5, <1>6

LEMMA NextIInv == IInv /\ [Next]_vars => IInv'
<1> SUFFICES ASSUME IInv, [Next]_vars PROVE IInv'
  OBVIOUS
<1>1. ASSUME NEW r \in Requests, NEW n \in Names, GetReplaces(r, n)
      PROVE  IInv'
  <2>1. at[n] \in Instances
    BY <1>1 DEF GetReplaces, IInv, TypeOK
  <2>2. Shutdown(at[n], TRUE)
    BY <1>1 DEF GetReplaces
  <2>3. \E b \in BOOLEAN : Shutdown(at[n], b)
    BY <2>2
  <2> QED BY <2>1, <2>3, InstanceStep
<1>2. ASSUME NEW i \in Instances, Ends(i)
      PROVE  IInv'
  BY <1>2, InstanceStep DEF Ends
<1>3. CASE UNCHANGED vars
  BY <1>3 DEF vars, IInv, TypeOK, TitleInv, RoutedTo, HandlerInv, JobInv,
              OnlyForeignJobsMislead
<1> QED BY <1>1, <1>2, <1>3, GetStep, AddStep, ChildStep, ResultStep, InstanceStep DEF Next

LEMMA InductiveInvariant == Spec => []IInv
<1> QED BY InitIInv, NextIInv, PTL DEF Spec

\* Every state of the routing is type correct; in particular no queue object
\* uses up more titles than there are messages.
THEOREM TypeCorrect == Spec => []TypeOK
<1>1. IInv => TypeOK
  BY DEF IInv
<1> QED BY <1>1, InductiveInvariant, PTL

\* Of any number of messages, results and pruned handlers: a callback gets the
\* result of another message only if another queue object added that message.
THEOREM OnlyForeignJobsMisleadHolds == Spec => []OnlyForeignJobsMislead
<1>1. IInv => OnlyForeignJobsMislead
  BY DEF IInv
<1> QED BY <1>1, InductiveInvariant, PTL

-----------------------------------------------------------------------------
(* The teardown and the jobs of others *)

Unmoved == \A k \in Instances : id[k] = name[k]

\* An identifier changes once, and until one does, an instance stands in the
\* map under its queue's name from its birth to the end of its teardown.
MovesOnce ==
  \A i \in Instances :
    /\ stage[i] = "unborn" => id[i] = name[i] /\ due[i] = NoName /\ child[i] = "none"
    /\ stage[i] # "unborn" => name[i] \in Names
    /\ due[i] # NoName => moving[i] /\ due[i] # id[i]
    /\ id[i] # name[i] => moving[i] /\ due[i] = NoName
InTheMap ==
  Unmoved => \A i \in Instances : stage[i] \notin {"unborn", "down"} => at[name[i]] = i
EntryInv == MovesOnce /\ InTheMap

LEMMA InitEntry == Init => EntryInv
  BY DEF Init, EntryInv, MovesOnce, InTheMap, Unmoved

LEMMA ForkEntry ==
  ASSUME TypeOK, EntryInv, NEW r \in Requests, NEW n \in Names, GetForks(r, n)
  PROVE  EntryInv'
<1> DEFINE i == CHOOSE k \in Unborn : TRUE
<1>1. i \in Instances /\ stage[i] = "unborn"
  BY DEF GetForks, Unborn
<1> HIDE DEF i
<1>2. /\ at[n] = NoInstance
      /\ at' = [at EXCEPT ![n] = i] /\ id' = [id EXCEPT ![i] = n]
      /\ name' = [name EXCEPT ![i] = n] /\ stage' = [stage EXCEPT ![i] = "up"]
      /\ child' = [child EXCEPT ![i] = "up"]
      /\ UNCHANGED <<moving, due>>
  BY DEF GetForks, Vacant, i
<1>3. MovesOnce'
  BY <1>1, <1>2 DEF EntryInv, MovesOnce, InTheMap, TypeOK
<1>4. Unmoved' => Unmoved
  BY <1>1, <1>2 DEF EntryInv, MovesOnce, InTheMap, Unmoved, TypeOK
<1>5. ASSUME Unmoved, NEW k \in Instances, stage'[k] \notin {"unborn", "down"}
      PROVE  at'[name'[k]] = k
  <2>1. CASE k = i
    BY <2>1, <1>1, <1>2 DEF TypeOK
  <2>2. CASE k # i
    <3>1. at[name[k]] = k /\ name'[k] = name[k]
      BY <1>5, <2>2, <1>2 DEF EntryInv, MovesOnce, InTheMap, TypeOK
    <3> QED BY <3>1, <1>2 DEF TypeOK
  <2> QED BY <2>1, <2>2
<1> QED BY <1>3, <1>4, <1>5 DEF EntryInv, InTheMap

LEMMA ShutdownEntry ==
  ASSUME TypeOK, EntryInv, NEW i \in Instances, NEW b \in BOOLEAN, Shutdown(i, b)
  PROVE  EntryInv'
<1>1. /\ stage' = [stage EXCEPT ![i] = "closing"] \/ stage' = [stage EXCEPT ![i] = "pausing"]
      /\ stage[i] = "up" /\ due' = [due EXCEPT ![i] = NoName]
      /\ UNCHANGED <<at, id, name, child, moving>>
  BY DEF Shutdown
<1>2. MovesOnce'
  BY <1>1 DEF EntryInv, MovesOnce, TypeOK
<1>3. InTheMap'
  BY <1>1 DEF EntryInv, InTheMap, Unmoved, TypeOK
<1> QED BY <1>2, <1>3 DEF EntryInv

LEMMA NextEntry == TypeOK /\ EntryInv /\ [Next]_vars => EntryInv'
<1> SUFFICES ASSUME TypeOK, EntryInv, [Next]_vars PROVE EntryInv'
  OBVIOUS
<1>1. ASSUME NEW r \in Requests, NEW n \in Names, GetReplaces(r, n)
      PROVE  EntryInv'
  <2>1. at[n] \in Instances
    BY <1>1 DEF GetReplaces, TypeOK
  <2>2. \E b \in BOOLEAN : Shutdown(at[n], b)
    BY <1>1 DEF GetReplaces
  <2> QED BY <2>1, <2>2, ShutdownEntry
<1>2. ASSUME NEW i \in Instances, Ends(i)
      PROVE  EntryInv'
  BY <1>2, ShutdownEntry DEF Ends
<1>3. ASSUME NEW i \in Instances, ChildDies(i)
      PROVE  EntryInv'
  BY <1>3 DEF ChildDies, EntryInv, MovesOnce, InTheMap, Unmoved, TypeOK
<1>4. ASSUME NEW i \in Instances, NEW n \in Names, ReportActor(i, n)
      PROVE  EntryInv'
  BY <1>4 DEF ReportActor, EntryInv, MovesOnce, InTheMap, Unmoved, TypeOK
<1>5. ASSUME NEW i \in Instances, UpdateIdentifier(i)
      PROVE  EntryInv'
  <2>1. ~ Unmoved'
    BY <1>5 DEF UpdateIdentifier, EntryInv, MovesOnce, InTheMap, Unmoved, TypeOK
  <2> QED BY <1>5, <2>1 DEF UpdateIdentifier, EntryInv, MovesOnce, InTheMap, TypeOK
<1>6. ASSUME NEW i \in Instances, Pause(i) \/ Obliterate(i)
      PROVE  EntryInv'
  <2>1. /\ stage' = [stage EXCEPT ![i] = "obliterating"] \/ stage' = [stage EXCEPT ![i] = "closing"]
        /\ stage[i] \in {"pausing", "obliterating"}
        /\ UNCHANGED <<at, id, name, child, moving, due>>
    BY <1>6 DEF Pause, Obliterate
  <2>2. MovesOnce'
    BY <2>1 DEF EntryInv, MovesOnce, TypeOK
  <2>3. InTheMap'
    BY <2>1 DEF EntryInv, InTheMap, Unmoved, TypeOK
  <2> QED BY <2>2, <2>3 DEF EntryInv
<1>7. ASSUME NEW i \in Instances, Close(i)
      PROVE  EntryInv'
  <2>1. /\ stage[i] = "closing" /\ stage' = [stage EXCEPT ![i] = "down"]
        /\ at' = at \/ (at[id[i]] = i /\ at' = [at EXCEPT ![id[i]] = NoInstance])
        /\ UNCHANGED <<id, name, child, moving, due>>
    BY <1>7 DEF Close
  <2>2. MovesOnce'
    BY <2>1 DEF EntryInv, MovesOnce, TypeOK
  <2>3. InTheMap'
    <3>1. ASSUME Unmoved, NEW k \in Instances, stage'[k] \notin {"unborn", "down"}
          PROVE  at'[name[k]] = k
      <4>1. k # i /\ at[name[k]] = k /\ name[k] \in Names
        BY <2>1, <3>1 DEF EntryInv, MovesOnce, InTheMap, TypeOK
      <4> QED BY <2>1, <4>1 DEF TypeOK
    <3> QED BY <2>1, <3>1 DEF InTheMap, Unmoved
  <2> QED BY <2>2, <2>3 DEF EntryInv
<1>8. ASSUME UNCHANGED <<at, id, name, stage, child, moving, due>>
      PROVE  EntryInv'
  BY <1>8 DEF EntryInv, MovesOnce, InTheMap, Unmoved
<1>9. ASSUME NEW r \in Requests,
             \/ \E n \in Names : GetReuses(r, n)
             \/ CheckPaused(r) \/ Add(r) \/ AddRefused(r)
             \/ \E i \in Instances : Finish(i, r) \/ Stalled(i, r) \/ HandleResult(i, r)
      PROVE  EntryInv'
  BY <1>9, <1>8 DEF GetReuses, CheckPaused, Add, AddRefused, Finish, Stalled, HandleResult
<1>10. ASSUME NEW i \in Instances, Take(i)
       PROVE  EntryInv'
  BY <1>10, <1>8 DEF Take
<1>11. CASE UNCHANGED vars
  BY <1>11, <1>8 DEF vars
<1> QED BY <1>1, <1>2, <1>3, <1>4, <1>5, <1>6, <1>7, <1>9, <1>10, <1>11, ForkEntry DEF Next

\* The only step that removes jobs from a queue is the obliteration by the
\* instance that still holds the entry of the queue's name.
LEMMA NextDestroys ==
  IInv /\ EntryInv /\ [Next]_vars
    => [\A r \in Requests :
          job[r] \in {"waiting", "active"} /\ job'[r] = "gone"
            => stage[inst[r]] # "up" \/ \E k \in Instances : id[k] # name[k]]_vars
<1> SUFFICES ASSUME IInv, EntryInv, Next,
                    NEW r \in Requests, job[r] \in {"waiting", "active"}, job'[r] = "gone",
                    stage[inst[r]] = "up", Unmoved
             PROVE  FALSE
  BY DEF Unmoved
<1>1. ASSUME NEW i \in Instances, Obliterate(i)
      PROVE  FALSE
  <2>1. r \in JobsOf(name[i]) /\ stage[i] = "obliterating"
    BY <1>1 DEF Obliterate, IInv, TypeOK
  <2>2. name[inst[r]] = name[i]
    BY <2>1 DEF JobsOf
  <2>3. inst[r] \in Instances
    BY DEF IInv, JobInv, TypeOK
  <2> QED BY <1>1, <2>1, <2>2, <2>3 DEF EntryInv, InTheMap
<1>2. ASSUME NEW i \in Instances, Take(i)
      PROVE  FALSE
  BY <1>2 DEF Take, IInv, TypeOK
<1>3. ASSUME NEW i \in Instances, NEW q \in Requests,
             Finish(i, q) \/ Stalled(i, q) \/ HandleResult(i, q)
      PROVE  FALSE
  BY <1>3 DEF Finish, Stalled, HandleResult, IInv, TypeOK
<1>4. ASSUME NEW q \in Requests, CheckPaused(q) \/ Add(q) \/ AddRefused(q)
      PROVE  FALSE
  BY <1>4 DEF CheckPaused, Add, AddRefused, IInv, TypeOK
<1>5. ASSUME NEW q \in Requests, NEW n \in Names,
             GetReuses(q, n) \/ GetReplaces(q, n) \/ GetForks(q, n)
      PROVE  FALSE
  BY <1>5 DEF GetReuses, GetReplaces, GetForks, Routed, Shutdown
<1>6. ASSUME NEW i \in Instances,
             \/ ChildDies(i) \/ UpdateIdentifier(i) \/ Ends(i) \/ Pause(i) \/ Close(i)
             \/ \E n \in Names : ReportActor(i, n)
      PROVE  FALSE
  BY <1>6 DEF ChildDies, UpdateIdentifier, Ends, Shutdown, Pause, Close, ReportActor
<1> QED BY <1>1, <1>2, <1>3, <1>4, <1>5, <1>6 DEF Next

\* A teardown never obliterates the job of an instance that is in service, as
\* long as no instance has changed its identifier (#1166).
THEOREM OnlyItsOwnTeardownDestroysAJobHolds == Spec => OnlyItsOwnTeardownDestroysAJob
<1>1. Spec => []TypeOK
  BY TypeCorrect
<1>2. Spec => []EntryInv
  <2>1. Init => EntryInv
    BY InitEntry
  <2>2. TypeOK /\ EntryInv /\ [Next]_vars => EntryInv'
    BY NextEntry
  <2> QED BY <1>1, <2>1, <2>2, PTL DEF Spec
<1> QED BY InductiveInvariant, <1>2, NextDestroys, PTL DEF Spec, OnlyItsOwnTeardownDestroysAJob
=============================================================================
