---------------------- MODULE PlatformLifecycle_proofs ----------------------
(***************************************************************************)
(* For every set of identifiers, sessions and instances: the types, the    *)
(* one-to-one correspondence between the entries of platformInstances and  *)
(* the instances that are not yet torn down, and from it NoOrphan,         *)
(* QueueDestroyerIsAlone, EntryLeavesWithItsTeardown and the refinement of *)
(* QueueOwnership; and that only useless instances are ended.              *)
(***************************************************************************)
EXTENDS PlatformLifecycle, TLAPS

Living == {"up"} \cup Teardown

\* The map holds exactly the instances from their fork to the end of their
\* teardown, each under its own identifier.
MapInv ==
  /\ \A i \in Instances : stage[i] \in Living => instanceAt[ident[i]] = i
  /\ \A id \in Identifiers :
       instanceAt[id] # NoInstance
         => /\ ident[instanceAt[id]] = id
            /\ stage[instanceAt[id]] \in Living

\* A run that has passed its first step is the head of its chain; while it
\* awaits a predecessor's teardown nobody else fills the predecessor's entry.
ChainInv ==
  \A c \in Callers :
    /\ pc[c] \in {"teardown", "return"} => AtHead(c) /\ got[c] \in Instances
    /\ pc[c] = "teardown"
         => /\ ident[got[c]] = want[c]
            /\ stage[got[c]] \in Teardown \cup {"down"}
            /\ stage[got[c]] = "down" => instanceAt[want[c]] = NoInstance

\* An HTTP caller that is on its way has room in the count of its identifier.
HttpInv == pc[Http] # "idle" => http[want[Http]] < MaxHttp

IInv == TypeOK /\ MapInv /\ ChainInv /\ HttpInv

CoreVars == <<instanceAt, ident, stage, pc, want, got, chain>>

USE DEF Callers

LEMMA InitIInv == Init => IInv
  BY ConstantsAssumption
     DEF Init, IInv, TypeOK, MapInv, ChainInv, HttpInv, SomeId, Stages,
         Living, Teardown, AtHead, Persistent

-----------------------------------------------------------------------------
(* Types *)

LEMMA ShutdownType ==
  ASSUME TypeOK, NEW i \in Instances, NEW r \in BOOLEAN, Shutdown(i, r)
  PROVE  /\ flagged' \in [Instances -> BOOLEAN]
         /\ stage' \in [Instances -> Stages]
         /\ errorDue' \in [Instances -> BOOLEAN]
  BY DEF TypeOK, Shutdown, FirstStage, Stages

LEMMA EndTeardownType ==
  ASSUME TypeOK, NEW i \in Instances, EndTeardown(i)
  PROVE  /\ stage' \in [Instances -> Stages]
         /\ instanceAt' \in [Identifiers -> Instances \cup {NoInstance}]
         /\ visited' \subseteq Identifiers
  BY DEF TypeOK, EndTeardown, Stages

LEMMA ForkType ==
  ASSUME IInv, NEW c \in Callers, NEW i \in Instances, Fork(c, i)
  PROVE  TypeOK'
  BY DEF IInv, TypeOK, Fork, Attach, Stages, queueVars, janitorVars

LEMMA CallerType ==
  ASSUME IInv, NEW c \in Callers, CallerStep(c)
  PROVE  TypeOK'
<1> USE DEF IInv, objectVars, callerVars, queueVars, janitorVars
<1>1. CASE \E id \in Identifiers : Get(c, id)
  BY <1>1 DEF TypeOK, Get
<1>2. CASE EnsureReuses(c)
  BY <1>2 DEF TypeOK, EnsureReuses, Attach
<1>3. CASE EnsureRefused(c)
  BY <1>3 DEF TypeOK, EnsureRefused, LeaveChain, AtHead
<1>4. CASE EnsureReplaces(c)
  BY <1>4, ShutdownType DEF TypeOK, EnsureReplaces
<1>5. CASE \E i \in Instances : EnsureCreates(c, i) \/ EnsureCreatesAfterTeardown(c, i)
  BY <1>5, ForkType DEF EnsureCreates, EnsureCreatesAfterTeardown
<1>6. ASSUME NEW credential \in BOOLEAN, GetReturns(c, credential)
      PROVE  TypeOK'
  <2>1. chain' \in [Identifiers -> Seq(Callers)]
    BY <1>6 DEF GetReturns, LeaveChain, TypeOK, ChainInv, AtHead
  <2>2. http' \in [Identifiers -> 0..MaxHttp]
    BY <1>6, ConstantsAssumption DEF GetReturns, TypeOK, HttpInv
  <2>3. credJobs' \in [Identifiers -> 0..MaxCredentialJobs]
    <3>1. CASE UNCHANGED credJobs
      BY <3>1 DEF TypeOK
    <3>2. CASE /\ credJobs[want[c]] < MaxCredentialJobs
               /\ credJobs' = [credJobs EXCEPT ![want[c]] = @ + 1]
      BY <3>2, ConstantsAssumption DEF TypeOK
    <3> QED BY <1>6, <3>1, <3>2 DEF GetReturns
  <2> QED BY <1>6, <2>1, <2>2, <2>3 DEF GetReturns, TypeOK
<1> QED BY <1>1, <1>2, <1>3, <1>4, <1>5, <1>6 DEF CallerStep

LEMMA InstanceType ==
  ASSUME IInv, NEW i \in Instances, InstanceStep(i)
  PROVE  TypeOK'
<1> USE DEF IInv, objectVars, callerVars, queueVars, janitorVars
<1>1. CASE TeardownPause(i)
  <2>1. paused' \subseteq Identifiers
    BY <1>1 DEF TypeOK, TeardownPause
  <2>2. stage' \in [Instances -> Stages]
    BY <1>1 DEF TypeOK, TeardownPause, Stages
  <2> QED BY <1>1, <2>1, <2>2 DEF TypeOK, TeardownPause
<1>2. CASE TeardownObliterate(i)
  <2>1. credJobs' \in [Identifiers -> 0..MaxCredentialJobs]
    BY <1>2, ConstantsAssumption DEF TypeOK, TeardownObliterate
  <2>2. stage' \in [Instances -> Stages] /\ paused' \subseteq Identifiers
    BY <1>2 DEF TypeOK, TeardownObliterate, Stages
  <2> QED BY <1>2, <2>1, <2>2 DEF TypeOK, TeardownObliterate
<1>3. CASE TeardownClose(i)
  <2>1. EndTeardown(i)
    BY <1>3 DEF TeardownClose
  <2> QED BY <1>3, <2>1, EndTeardownType DEF TypeOK, TeardownClose
<1>4. CASE TeardownFails(i)
  <2>1. EndTeardown(i)
    BY <1>4 DEF TeardownFails
  <2>2. redisFailures' \in 0..MaxRedisFailures
    BY <1>4, ConstantsAssumption DEF TypeOK, TeardownFails
  <2> QED BY <1>4, <2>1, <2>2, EndTeardownType DEF TypeOK, TeardownFails
<1>5. CASE ChildExits(i) \/ ChildHangs(i) \/ ChildReportsFatal(i)
  BY <1>5 DEF TypeOK, ChildExits, ChildHangs, ChildReportsFatal
<1>6. CASE HandleErrorMessage(i) \/ HandleProcessClose(i)
  BY <1>6, ShutdownType
     DEF TypeOK, HandleErrorMessage, HandleProcessClose, BroadcastFatalError
<1>7. CASE HeartbeatTimeout(i)
  BY <1>7, ShutdownType DEF TypeOK, HeartbeatTimeout
<1>8. CASE \E s \in Sessions : SessionUnauthorized(i, s)
  BY <1>8 DEF TypeOK, SessionUnauthorized
<1>9. CASE CredentialJobSucceeds(i) \/ CredentialJobFails(i)
  <2>1. TakeCredentialResult(i)
    BY <1>9 DEF CredentialJobSucceeds, CredentialJobFails
  <2>2. credJobs' \in [Identifiers -> 0..MaxCredentialJobs]
    BY <2>1, ConstantsAssumption DEF TakeCredentialResult, TypeOK
  <2>3. CASE CredentialJobSucceeds(i)
    BY <2>2, <2>3 DEF TypeOK, CredentialJobSucceeds
  <2>4. CASE CredentialJobFails(i)
    <3>1. paused' \subseteq Identifiers
      BY <2>4 DEF TypeOK, CredentialJobFails
    <3>2. failing' \in [Instances -> BOOLEAN]
      BY <2>4 DEF TypeOK, CredentialJobFails
    <3> QED BY <2>2, <2>4, <3>1, <3>2 DEF TypeOK, CredentialJobFails
  <2> QED BY <1>9, <2>3, <2>4
<1>10. CASE CredentialFailurePaused(i)
  BY <1>10 DEF TypeOK, CredentialFailurePaused
<1>11. CASE Collected(i)
  BY <1>11, ConstantsAssumption DEF TypeOK, Collected, Stages, SomeId
<1> QED BY <1>1, <1>2, <1>3, <1>4, <1>5, <1>6, <1>7, <1>8, <1>9, <1>10, <1>11
        DEF InstanceStep

LEMMA JanitorType ==
  ASSUME IInv, JanitorStep
  PROVE  TypeOK'
<1> USE DEF IInv, objectVars, callerVars, queueVars, janitorVars
<1>1. CASE JanitorStarts \/ JanitorResumes \/ JanitorEnds
  BY <1>1 DEF TypeOK, JanitorStarts, JanitorResumes, JanitorEnds
<1>2. ASSUME NEW id \in Identifiers, JanitorChecks(id)
      PROVE  TypeOK'
  <2> DEFINE i == instanceAt[id]
  <2>1. i \in Instances /\ sessions' \in [Instances -> SUBSET Sessions]
    BY <1>2 DEF JanitorChecks, TypeOK, LiveSessions
  <2>2. /\ flagged' \in [Instances -> BOOLEAN]
        /\ stage' \in [Instances -> Stages]
        /\ errorDue' \in [Instances -> BOOLEAN]
    <3>1. CASE Shutdown(i, FALSE)
      BY <2>1, <3>1, ShutdownType
    <3>2. CASE UNCHANGED <<stage, errorDue>> /\ flagged' = [flagged EXCEPT ![i] = TRUE]
      BY <2>1, <3>2 DEF TypeOK
    <3>3. CASE UNCHANGED <<stage, flagged, errorDue>>
      BY <3>3 DEF TypeOK
    <3> QED BY <1>2, <3>1, <3>2, <3>3 DEF JanitorChecks
  <2>3. janitorAwaits' \in Instances \cup {NoInstance}
    BY <1>2, <2>1 DEF JanitorChecks, TypeOK
  <2>4. /\ janitor' \in {"idle", "cleaning"}
        /\ visited' = {} \/ visited' = visited \cup {id}
    BY <1>2 DEF JanitorChecks, GiveUpCycle, TypeOK
  <2>5. visited' \subseteq Identifiers
    BY <2>4 DEF TypeOK
  <2> QED BY <1>2, <2>1, <2>2, <2>3, <2>4, <2>5 DEF JanitorChecks, TypeOK
<1> QED BY <1>1, <1>2 DEF JanitorStep

LEMMA TypeStep == IInv /\ [Next]_vars => TypeOK'
<1> SUFFICES ASSUME IInv, [Next]_vars PROVE TypeOK'
  OBVIOUS
<1> USE DEF objectVars, callerVars, queueVars, janitorVars
<1>1. CASE \E id \in Identifiers : HttpEnds(id)
  <2>1. http' \in [Identifiers -> 0..MaxHttp]
    BY <1>1, ConstantsAssumption DEF IInv, TypeOK, HttpEnds
  <2> QED BY <1>1, <2>1 DEF IInv, TypeOK, HttpEnds
<1>2. CASE \E s \in Sessions : SocketConnects(s) \/ SocketDisconnects(s)
  BY <1>2 DEF IInv, TypeOK, SocketConnects, SocketDisconnects
<1>3. CASE UNCHANGED vars
  BY <1>3 DEF IInv, TypeOK, vars
<1> QED BY <1>1, <1>2, <1>3, CallerType, InstanceType, JanitorType DEF Next

-----------------------------------------------------------------------------
(* The map and the chains *)

Core == MapInv /\ ChainInv

LEMMA CoreStutter ==
  ASSUME IInv, UNCHANGED CoreVars
  PROVE  Core'
  BY DEF IInv, Core, CoreVars, MapInv, ChainInv, AtHead

\* One instance moves to a stage of its teardown; nothing else changes.
LEMMA StageCore ==
  ASSUME IInv, NEW i \in Instances, NEW t \in Teardown, stage[i] \in Living,
         stage' = [stage EXCEPT ![i] = t],
         UNCHANGED <<instanceAt, ident, pc, want, got, chain>>
  PROVE  Core'
<1>1. MapInv'
  BY DEF IInv, TypeOK, MapInv, Living, Teardown
<1>2. ChainInv'
  BY DEF IInv, TypeOK, ChainInv, AtHead, Teardown
<1> QED BY <1>1, <1>2 DEF Core

LEMMA ShutdownCore ==
  ASSUME IInv, NEW i \in Instances, NEW r \in BOOLEAN, Shutdown(i, r),
         UNCHANGED <<instanceAt, ident, pc, want, got, chain>>
  PROVE  Core'
<1>1. CASE stage[i] = "up"
  <2>1. FirstStage(i, r) \in Teardown
    BY DEF FirstStage, Teardown
  <2> QED BY <1>1, <2>1, StageCore DEF Shutdown, Living
<1>2. CASE stage[i] # "up"
  BY <1>2, CoreStutter DEF Shutdown, CoreVars
<1> QED BY <1>1, <1>2

LEMMA EndTeardownCore ==
  ASSUME IInv, NEW i \in Instances, stage[i] \in Teardown, EndTeardown(i),
         UNCHANGED <<ident, pc, want, got, chain>>
  PROVE  Core'
<1>1. /\ instanceAt[ident[i]] = i
      /\ instanceAt' = [instanceAt EXCEPT ![ident[i]] = NoInstance]
      /\ stage' = [stage EXCEPT ![i] = "down"]
  BY DEF EndTeardown, IInv, MapInv, Living
<1>2. MapInv'
  BY <1>1, ConstantsAssumption DEF IInv, TypeOK, MapInv, Living, Teardown
<1>3. ChainInv'
  BY <1>1 DEF IInv, TypeOK, ChainInv, AtHead, Teardown
<1> QED BY <1>2, <1>3 DEF Core

\* Two callers of one identifier cannot both have passed their first step.
LEMMA OneAtHead ==
  ASSUME NEW c \in Callers, NEW d \in Callers, AtHead(c), AtHead(d),
         want[c] = want[d]
  PROVE  c = d
  BY DEF AtHead

LEMMA ForkCore ==
  ASSUME IInv, NEW c \in Callers, NEW i \in Instances, Fork(c, i), AtHead(c),
         instanceAt[want[c]] = NoInstance
  PROVE  Core'
<1>1. /\ stage[i] = "unborn" /\ stage' = [stage EXCEPT ![i] = "up"]
      /\ ident' = [ident EXCEPT ![i] = want[c]]
      /\ instanceAt' = [instanceAt EXCEPT ![want[c]] = i]
      /\ pc' = [pc EXCEPT ![c] = "return"] /\ got' = [got EXCEPT ![c] = i]
      /\ UNCHANGED <<want, chain>>
  BY DEF Fork, Attach
<1>2. MapInv'
  <2>1. \A j \in Instances : stage[j] \in Living => ident[j] # want[c] /\ j # i
    BY <1>1, ConstantsAssumption DEF IInv, MapInv, Living, Teardown
  <2>2. ASSUME NEW j \in Instances, stage'[j] \in Living
        PROVE  instanceAt'[ident'[j]] = j
    <3>1. CASE j = i
      BY <1>1, <3>1 DEF IInv, TypeOK
    <3>2. CASE j # i
      BY <1>1, <2>1, <2>2, <3>2 DEF IInv, TypeOK, MapInv
    <3> QED BY <3>1, <3>2
  <2>3. ASSUME NEW id \in Identifiers, instanceAt'[id] # NoInstance
        PROVE  ident'[instanceAt'[id]] = id /\ stage'[instanceAt'[id]] \in Living
    <3>1. CASE id = want[c]
      BY <1>1, <3>1 DEF IInv, TypeOK, Living
    <3>2. CASE id # want[c]
      <4>1. instanceAt'[id] = instanceAt[id] /\ instanceAt[id] \in Instances
        BY <1>1, <2>3, <3>2 DEF IInv, TypeOK
      <4>2. ident[instanceAt[id]] = id /\ stage[instanceAt[id]] \in Living
        BY <2>3, <4>1 DEF IInv, MapInv
      <4> QED BY <1>1, <2>1, <4>1, <4>2 DEF IInv, TypeOK
    <3> QED BY <3>1, <3>2
  <2> QED BY <2>2, <2>3 DEF MapInv
<1>3. ChainInv'
  <2> SUFFICES ASSUME NEW d \in Callers
               PROVE /\ pc'[d] \in {"teardown", "return"}
                          => AtHead(d)' /\ got'[d] \in Instances
                     /\ pc'[d] = "teardown"
                          => /\ ident'[got'[d]] = want'[d]
                             /\ stage'[got'[d]] \in Teardown \cup {"down"}
                             /\ stage'[got'[d]] = "down"
                                  => instanceAt'[want'[d]] = NoInstance
    BY DEF ChainInv
  <2>1. CASE d = c
    BY <1>1, <2>1 DEF IInv, TypeOK, AtHead
  <2>2. CASE d # c
    <3>1. pc'[d] = pc[d] /\ got'[d] = got[d] /\ AtHead(d)' = AtHead(d)
      BY <1>1, <2>2 DEF IInv, TypeOK, AtHead
    <3>2. pc[d] = "teardown" => want[d] # want[c] /\ got[d] # i
      BY <1>1, <2>2, OneAtHead DEF IInv, ChainInv, Teardown
    <3> QED BY <1>1, <3>1, <3>2 DEF IInv, TypeOK, ChainInv
  <2> QED BY <2>1, <2>2
<1> QED BY <1>2, <1>3 DEF Core

\* What LeaveChain() does to the heads of the other callers.
LEMMA LeaveChainHeads ==
  ASSUME IInv, NEW c \in Callers, NEW d \in Callers, AtHead(c), AtHead(d),
         c # d, LeaveChain(c), UNCHANGED want
  PROVE  AtHead(d)'
<1>1. want[c] # want[d]
  BY OneAtHead
<1>2. chain'[want[d]] = chain[want[d]]
  BY <1>1 DEF IInv, TypeOK, LeaveChain
<1> QED BY <1>2 DEF AtHead

LEMMA CallerCore ==
  ASSUME IInv, NEW c \in Callers, CallerStep(c)
  PROVE  Core'
<1> USE DEF objectVars, callerVars
<1>1. ASSUME NEW id \in Identifiers, Get(c, id)
      PROVE  Core'
  <2>1. MapInv'
    BY <1>1 DEF Get, IInv, MapInv
  <2>2. \A d \in Callers : AtHead(d) /\ d # c => AtHead(d)'
    <3> SUFFICES ASSUME NEW d \in Callers, AtHead(d), d # c PROVE AtHead(d)'
      OBVIOUS
    <3>1. want'[d] = want[d] /\ chain[want[d]] \in Seq(Callers) /\ want[d] \in Identifiers
      BY <1>1 DEF Get, IInv, TypeOK
    <3>2. CASE want[d] = id
      <4>1. chain'[id] = Append(chain[id], c)
        BY <1>1 DEF Get, IInv, TypeOK
      <4>2. chain[id] # <<>> /\ Head(chain[id]) = d
        BY <3>2 DEF AtHead
      <4>3. Append(chain[id], c) # <<>> /\ Head(Append(chain[id], c)) = d
        BY <3>1, <3>2, <4>2
      <4> QED BY <3>1, <3>2, <4>1, <4>3 DEF AtHead
    <3>3. CASE want[d] # id
      BY <1>1, <3>1, <3>3 DEF Get, IInv, TypeOK, AtHead
    <3> QED BY <3>2, <3>3
  <2>3. ChainInv'
    BY <1>1, <2>2 DEF Get, IInv, TypeOK, ChainInv
  <2> QED BY <2>1, <2>3 DEF Core
<1>2. CASE EnsureReuses(c)
  <2>1. instanceAt' = instanceAt
    BY <1>2 DEF EnsureReuses, Attach, IInv, TypeOK
  <2>2. MapInv'
    BY <1>2, <2>1 DEF EnsureReuses, IInv, MapInv
  <2>3. ChainInv'
    BY <1>2, <2>1 DEF EnsureReuses, Attach, IInv, TypeOK, ChainInv, AtHead
  <2> QED BY <2>2, <2>3 DEF Core
<1>3. CASE EnsureRefused(c)
  <2>1. MapInv'
    BY <1>3 DEF EnsureRefused, IInv, MapInv
  <2>2. ChainInv'
    BY <1>3, LeaveChainHeads DEF EnsureRefused, IInv, TypeOK, ChainInv
  <2> QED BY <2>1, <2>2 DEF Core
<1>4. CASE EnsureReplaces(c)
  <2> DEFINE i == instanceAt[want[c]]
  <2>1. /\ i \in Instances /\ ident[i] = want[c] /\ stage[i] \in Living
        /\ AtHead(c) /\ pc[c] = "queued" /\ Shutdown(i, TRUE)
        /\ pc' = [pc EXCEPT ![c] = "teardown"] /\ got' = [got EXCEPT ![c] = i]
        /\ UNCHANGED <<instanceAt, ident, want, chain>>
    <3>1. want[c] \in Identifiers /\ i \in Instances
      BY <1>4 DEF EnsureReplaces, IInv, TypeOK
    <3>2. ident[i] = want[c] /\ stage[i] \in Living
      BY <1>4, <3>1 DEF EnsureReplaces, IInv, MapInv
    <3> QED BY <1>4, <3>1, <3>2 DEF EnsureReplaces
  <2>2. /\ stage'[i] \in Teardown
        /\ \A j \in Instances \ {i} : stage'[j] = stage[j]
    BY <2>1 DEF Shutdown, FirstStage, IInv, TypeOK, Living, Teardown
  <2>3. stage[i] \in Teardown \cup {"up"}
    BY <2>1 DEF Living
  <2>4. MapInv'
    <3>1. \A j \in Instances : stage'[j] \in Living => stage[j] \in Living
      BY <2>1, <2>2
    <3>2. \A j \in Instances : stage[j] \in Living => stage'[j] \in Living
      BY <2>2 DEF Living
    <3> QED BY <2>1, <3>1, <3>2, ConstantsAssumption DEF IInv, TypeOK, MapInv
  <2>5. ChainInv'
    BY <2>1, <2>2, <2>3 DEF IInv, TypeOK, ChainInv, AtHead, Teardown
  <2> QED BY <2>4, <2>5 DEF Core
<1>5. ASSUME NEW i \in Instances, EnsureCreates(c, i)
      PROVE  Core'
  BY <1>5, ForkCore DEF EnsureCreates
<1>6. ASSUME NEW i \in Instances, EnsureCreatesAfterTeardown(c, i)
      PROVE  Core'
  BY <1>6, ForkCore DEF EnsureCreatesAfterTeardown, IInv, ChainInv
<1>7. ASSUME NEW credential \in BOOLEAN, GetReturns(c, credential)
      PROVE  Core'
  <2>1. MapInv'
    BY <1>7 DEF GetReturns, IInv, MapInv
  <2>2. AtHead(c)
    BY <1>7 DEF GetReturns, IInv, ChainInv
  <2>3. ChainInv'
    BY <1>7, <2>2, LeaveChainHeads DEF GetReturns, IInv, TypeOK, ChainInv
  <2> QED BY <2>1, <2>3 DEF Core
<1> QED BY <1>1, <1>2, <1>3, <1>4, <1>5, <1>6, <1>7 DEF CallerStep

LEMMA InstanceCore ==
  ASSUME IInv, NEW i \in Instances, InstanceStep(i)
  PROVE  Core'
<1> USE DEF objectVars, callerVars
<1>1. CASE TeardownPause(i)
  BY <1>1, StageCore DEF TeardownPause, Living, Teardown
<1>2. CASE TeardownObliterate(i)
  BY <1>2, StageCore DEF TeardownObliterate, Living, Teardown
<1>3. CASE TeardownClose(i) \/ TeardownFails(i)
  BY <1>3, EndTeardownCore DEF TeardownClose, TeardownFails, Teardown
<1>4. CASE ChildExits(i) \/ ChildHangs(i) \/ ChildReportsFatal(i)
  BY <1>4, CoreStutter DEF ChildExits, ChildHangs, ChildReportsFatal, CoreVars
<1>5. CASE HandleErrorMessage(i) \/ HandleProcessClose(i) \/ HeartbeatTimeout(i)
  BY <1>5, ShutdownCore
     DEF HandleErrorMessage, HandleProcessClose, HeartbeatTimeout,
         BroadcastFatalError
<1>6. CASE \E s \in Sessions : SessionUnauthorized(i, s)
  BY <1>6, CoreStutter DEF SessionUnauthorized, CoreVars
<1>7. CASE CredentialJobSucceeds(i) \/ CredentialJobFails(i) \/ CredentialFailurePaused(i)
  BY <1>7, CoreStutter
     DEF CredentialJobSucceeds, CredentialJobFails, CredentialFailurePaused,
         CoreVars
<1>8. CASE Collected(i)
  <2>1. /\ stage[i] = "down" /\ stage' = [stage EXCEPT ![i] = "unborn"]
        /\ ident' = [ident EXCEPT ![i] = SomeId]
        /\ \A c \in Callers : got[c] # i
        /\ UNCHANGED <<instanceAt, pc, want, got, chain>>
    BY <1>8 DEF Collected
  <2>2. MapInv'
    BY <2>1 DEF IInv, TypeOK, MapInv, Living, Teardown
  <2>3. ChainInv'
    BY <2>1 DEF IInv, TypeOK, ChainInv, AtHead
  <2> QED BY <2>2, <2>3 DEF Core
<1> QED BY <1>1, <1>2, <1>3, <1>4, <1>5, <1>6, <1>7, <1>8 DEF InstanceStep

LEMMA JanitorCore ==
  ASSUME IInv, JanitorStep
  PROVE  Core'
<1> USE DEF objectVars, callerVars
<1>1. CASE JanitorStarts \/ JanitorResumes \/ JanitorEnds
  BY <1>1, CoreStutter DEF JanitorStarts, JanitorResumes, JanitorEnds, CoreVars
<1>2. ASSUME NEW id \in Identifiers, JanitorChecks(id)
      PROVE  Core'
  <2> DEFINE i == instanceAt[id]
  <2>1. i \in Instances /\ UNCHANGED <<instanceAt, ident, pc, want, got, chain>>
    BY <1>2 DEF JanitorChecks, IInv, TypeOK
  <2>2. CASE Shutdown(i, FALSE)
    BY <2>1, <2>2, ShutdownCore
  <2>3. CASE UNCHANGED stage
    BY <2>1, <2>3, CoreStutter DEF CoreVars
  <2> QED BY <1>2, <2>2, <2>3 DEF JanitorChecks
<1> QED BY <1>1, <1>2 DEF JanitorStep

LEMMA CoreStep == IInv /\ [Next]_vars => Core'
<1> SUFFICES ASSUME IInv, [Next]_vars PROVE Core'
  OBVIOUS
<1> USE DEF objectVars, callerVars
<1>1. CASE \E id \in Identifiers : HttpEnds(id)
  BY <1>1, CoreStutter DEF HttpEnds, CoreVars
<1>2. CASE \E s \in Sessions : SocketConnects(s) \/ SocketDisconnects(s)
  BY <1>2, CoreStutter DEF SocketConnects, SocketDisconnects, CoreVars
<1>3. CASE UNCHANGED vars
  BY <1>3, CoreStutter DEF vars, CoreVars
<1> QED BY <1>1, <1>2, <1>3, CallerCore, InstanceCore, JanitorCore DEF Next

-----------------------------------------------------------------------------
LEMMA HttpStep == IInv /\ [Next]_vars => HttpInv'
<1> SUFFICES ASSUME IInv, [Next]_vars, pc'[Http] # "idle"
             PROVE  http'[want'[Http]] < MaxHttp
  BY DEF HttpInv
<1> USE DEF objectVars, callerVars
<1>1. Http \in Callers /\ want[Http] \in Identifiers
  BY DEF IInv, TypeOK
<1>2. ASSUME NEW c \in Callers, NEW id \in Identifiers, Get(c, id)
      PROVE  http'[want'[Http]] < MaxHttp
  BY <1>1, <1>2, ConstantsAssumption DEF Get, IInv, TypeOK, HttpInv
<1>3. ASSUME NEW c \in Callers, NEW credential \in BOOLEAN,
             GetReturns(c, credential)
      PROVE  http'[want'[Http]] < MaxHttp
  BY <1>1, <1>3 DEF GetReturns, IInv, TypeOK, HttpInv
<1>4. ASSUME NEW id \in Identifiers, HttpEnds(id)
      PROVE  http'[want'[Http]] < MaxHttp
  BY <1>1, <1>4, ConstantsAssumption DEF HttpEnds, IInv, TypeOK, HttpInv
<1>5. CASE UNCHANGED <<http, want>> /\ (pc[Http] = "idle" => pc'[Http] = "idle")
  BY <1>5 DEF IInv, HttpInv
<1>6. ASSUME NEW c \in Callers, CallerStep(c),
             ~ \E id \in Identifiers : Get(c, id),
             ~ \E credential \in BOOLEAN : GetReturns(c, credential)
      PROVE  UNCHANGED <<http, want>> /\ (pc[Http] = "idle" => pc'[Http] = "idle")
  <2>1. UNCHANGED <<http, want>>
    BY <1>6 DEF CallerStep, EnsureReuses, EnsureRefused, EnsureReplaces,
                EnsureCreates, EnsureCreatesAfterTeardown, Fork
  <2>2. pc[c] # "idle" /\ \A d \in Callers \ {c} : pc'[d] = pc[d]
    BY <1>6 DEF CallerStep, EnsureReuses, EnsureRefused, EnsureReplaces,
                EnsureCreates, EnsureCreatesAfterTeardown, Fork, Attach,
                IInv, TypeOK
  <2> QED BY <1>1, <2>1, <2>2
<1>7. ASSUME NEW i \in Instances, InstanceStep(i)
      PROVE  UNCHANGED <<http, want, pc>>
  <2>1. CASE \/ TeardownPause(i) \/ TeardownObliterate(i)
             \/ TeardownClose(i) \/ TeardownFails(i)
    BY <2>1 DEF TeardownPause, TeardownObliterate, TeardownClose, TeardownFails
  <2>2. CASE \/ ChildExits(i) \/ ChildHangs(i) \/ ChildReportsFatal(i)
             \/ \E s \in Sessions : SessionUnauthorized(i, s)
    BY <2>2 DEF ChildExits, ChildHangs, ChildReportsFatal, SessionUnauthorized
  <2>3. CASE HandleErrorMessage(i) \/ HandleProcessClose(i) \/ HeartbeatTimeout(i)
    BY <2>3 DEF HandleErrorMessage, HandleProcessClose, HeartbeatTimeout
  <2>4. CASE \/ CredentialJobSucceeds(i) \/ CredentialJobFails(i)
             \/ CredentialFailurePaused(i) \/ Collected(i)
    BY <2>4 DEF CredentialJobSucceeds, CredentialJobFails,
                CredentialFailurePaused, Collected
  <2> QED BY <1>7, <2>1, <2>2, <2>3, <2>4 DEF InstanceStep
<1>8. ASSUME JanitorStep
      PROVE  UNCHANGED <<http, want, pc>>
  BY <1>8 DEF JanitorStep, JanitorStarts, JanitorResumes, JanitorEnds, JanitorChecks
<1>9. ASSUME NEW s \in Sessions, SocketConnects(s) \/ SocketDisconnects(s)
      PROVE  UNCHANGED <<http, want, pc>>
  BY <1>9 DEF SocketConnects, SocketDisconnects
<1>10. CASE UNCHANGED vars
  BY <1>5, <1>10 DEF vars
<1> QED BY <1>2, <1>3, <1>4, <1>5, <1>6, <1>7, <1>8, <1>9, <1>10 DEF Next

(* The inductive invariant *)
THEOREM Invariance == Spec => []IInv
<1>1. IInv /\ [Next]_vars => IInv'
  BY TypeStep, CoreStep, HttpStep DEF IInv, Core
<1> QED BY InitIInv, <1>1, PTL DEF Spec

(* Every variable keeps its type in every behaviour of the server. *)
THEOREM TypeCorrect == Spec => []TypeOK
<1>1. IInv => TypeOK
  BY DEF IInv
<1> QED BY Invariance, <1>1, PTL

(* An instance whose teardown has not begun is always the one its identifier
   leads to in platformInstances (ensureProcess, teardown): no child without
   an owner, no two children for one identifier. *)
THEOREM NoOrphanHolds == Spec => []NoOrphan
<1>1. IInv => NoOrphan
  BY DEF IInv, MapInv, Living, NoOrphan
<1> QED BY Invariance, <1>1, PTL

(* A teardown that pauses and obliterates the queue of an identifier never
   meets a living replacement under that identifier (#1166). *)
THEOREM QueueDestroyerIsAloneHolds == Spec => []QueueDestroyerIsAlone
<1>1. IInv => QueueDestroyerIsAlone
  BY DEF IInv, MapInv, Living, Teardown, QueueDestroyerIsAlone
<1> QED BY Invariance, <1>1, PTL

-----------------------------------------------------------------------------
(* What a step does to an entry of the map *)

EntryStep ==
  \A id \in Identifiers :
    LET i == instanceAt[id] IN
    i # NoInstance /\ instanceAt'[id] # i
      => /\ stage[i] \in Teardown /\ stage'[i] = "down"
         /\ instanceAt'[id] = NoInstance

LEMMA ForkEntry ==
  ASSUME IInv, NEW c \in Callers, NEW i \in Instances, Fork(c, i),
         instanceAt[want[c]] = NoInstance
  PROVE  EntryStep
  BY DEF Fork, Attach, EntryStep, IInv, TypeOK

LEMMA EndTeardownEntry ==
  ASSUME IInv, NEW i \in Instances, stage[i] \in Teardown, EndTeardown(i)
  PROVE  EntryStep
<1>1. /\ instanceAt' = [instanceAt EXCEPT ![ident[i]] = NoInstance]
      /\ instanceAt[ident[i]] = i /\ stage'[i] = "down"
  BY DEF EndTeardown, IInv, MapInv, TypeOK, Living
<1> QED BY <1>1 DEF EntryStep, IInv, TypeOK

LEMMA SameEntries == instanceAt' = instanceAt => EntryStep
  BY DEF EntryStep

LEMMA NextEntry == IInv /\ [Next]_vars => EntryStep
<1> SUFFICES ASSUME IInv, [Next]_vars PROVE EntryStep
  OBVIOUS
<1>1. ASSUME NEW c \in Callers, CallerStep(c)
      PROVE  EntryStep
  <2>1. CASE \/ \E id \in Identifiers : Get(c, id)
             \/ EnsureRefused(c) \/ EnsureReplaces(c)
             \/ \E credential \in BOOLEAN : GetReturns(c, credential)
    BY <2>1, SameEntries DEF Get, EnsureRefused, EnsureReplaces, GetReturns
  <2>2. CASE EnsureReuses(c)
    <3>1. instanceAt' = instanceAt
      BY <2>2 DEF EnsureReuses, Attach, IInv, TypeOK
    <3> QED BY <3>1, SameEntries
  <2>3. ASSUME NEW i \in Instances,
               EnsureCreates(c, i) \/ EnsureCreatesAfterTeardown(c, i)
        PROVE  EntryStep
    BY <2>3, ForkEntry
       DEF EnsureCreates, EnsureCreatesAfterTeardown, IInv, ChainInv
  <2> QED BY <1>1, <2>1, <2>2, <2>3 DEF CallerStep
<1>2. ASSUME NEW i \in Instances, InstanceStep(i)
      PROVE  EntryStep
  <2>1. CASE TeardownClose(i) \/ TeardownFails(i)
    BY <2>1, EndTeardownEntry DEF TeardownClose, TeardownFails, Teardown
  <2>2. CASE \/ TeardownPause(i) \/ TeardownObliterate(i)
             \/ ChildExits(i) \/ ChildHangs(i) \/ ChildReportsFatal(i)
             \/ \E s \in Sessions : SessionUnauthorized(i, s)
    BY <2>2, SameEntries
       DEF TeardownPause, TeardownObliterate, ChildExits, ChildHangs,
           ChildReportsFatal, SessionUnauthorized
  <2>3. CASE HandleErrorMessage(i) \/ HandleProcessClose(i) \/ HeartbeatTimeout(i)
    BY <2>3, SameEntries
       DEF HandleErrorMessage, HandleProcessClose, HeartbeatTimeout
  <2>4. CASE \/ CredentialJobSucceeds(i) \/ CredentialJobFails(i)
             \/ CredentialFailurePaused(i) \/ Collected(i)
    BY <2>4, SameEntries
       DEF CredentialJobSucceeds, CredentialJobFails, CredentialFailurePaused,
           Collected
  <2> QED BY <1>2, <2>1, <2>2, <2>3, <2>4 DEF InstanceStep
<1>3. ASSUME JanitorStep
      PROVE  EntryStep
  BY <1>3, SameEntries
     DEF JanitorStep, JanitorStarts, JanitorResumes, JanitorEnds, JanitorChecks
<1>4. ASSUME \/ \E id \in Identifiers : HttpEnds(id)
             \/ \E s \in Sessions : SocketConnects(s) \/ SocketDisconnects(s)
             \/ UNCHANGED vars
      PROVE  EntryStep
  BY <1>4, SameEntries DEF HttpEnds, SocketConnects, SocketDisconnects, vars
<1> QED BY <1>1, <1>2, <1>3, <1>4 DEF Next

(* A map entry changes hands only when its holder's own teardown ends, and is
   then empty: the guard in teardown() and the chain of ensureProcess() leave
   no way to evict or overwrite an instance. *)
THEOREM EntryLeavesHolds == Spec => EntryLeavesWithItsTeardown
<1>1. IInv /\ [Next]_vars => EntryStep
  BY NextEntry
<1>2. EntryStep =>
        \A id \in Identifiers :
          LET i == instanceAt[id] IN
          i # NoInstance /\ instanceAt'[id] # i
            => /\ stage[i] \in Teardown /\ stage'[i] = "down"
               /\ instanceAt'[id] = NoInstance
  BY DEF EntryStep
<1> QED BY Invariance, <1>1, <1>2, PTL DEF Spec, EntryLeavesWithItsTeardown

-----------------------------------------------------------------------------
(* What takes an instance out of service *)

(* What the end of an instance in service takes: a dead or hung child, a
   reported fatal error, or nobody who uses it. *)
Useless(i) ==
  \/ proc[i] # "running" \/ errorDue[i]
  \/ /\ ident[i] \in Persistent
     /\ initialized[i] => sessions[i] \cap open = {} /\ http[ident[i]] = 0

EndedStep == \A i \in Instances : stage[i] = "up" /\ stage'[i] # "up" => Useless(i)

(* One instance at most leaves its stage, and if it was in service it was
   useless. *)
LEMMA OneEnds ==
  ASSUME NEW i \in Instances, Useless(i) \/ stage[i] # "up",
         \A j \in Instances \ {i} : stage'[j] = stage[j]
  PROVE  EndedStep
  BY DEF EndedStep

LEMMA ShutdownEnds ==
  ASSUME IInv, NEW i \in Instances, NEW r \in BOOLEAN, Shutdown(i, r), Useless(i)
  PROVE  EndedStep
<1>1. \A j \in Instances \ {i} : stage'[j] = stage[j]
  BY DEF Shutdown, IInv, TypeOK
<1> QED BY <1>1, OneEnds

LEMMA NobodyEnds == stage' = stage => EndedStep
  BY DEF EndedStep

LEMMA NextEnds == IInv /\ [Next]_vars => EndedStep
<1> SUFFICES ASSUME IInv, [Next]_vars PROVE EndedStep
  OBVIOUS
<1>0. stage \in [Instances -> Stages]
  BY DEF IInv, TypeOK
<1>1. ASSUME NEW c \in Callers, CallerStep(c)
      PROVE  EndedStep
  <2>1. CASE \/ \E id \in Identifiers : Get(c, id)
             \/ EnsureReuses(c) \/ EnsureRefused(c)
             \/ \E credential \in BOOLEAN : GetReturns(c, credential)
    BY <2>1, NobodyEnds DEF Get, EnsureReuses, EnsureRefused, GetReturns
  <2>2. CASE EnsureReplaces(c)
    <3> DEFINE i == instanceAt[want[c]]
    <3>1. i \in Instances /\ Shutdown(i, TRUE)
      BY <2>2 DEF EnsureReplaces, IInv, TypeOK
    <3>2. Useless(i)
      BY <2>2 DEF EnsureReplaces, Alive, Useless
    <3> QED BY <3>1, <3>2, ShutdownEnds
  <2>3. ASSUME NEW i \in Instances,
               EnsureCreates(c, i) \/ EnsureCreatesAfterTeardown(c, i)
        PROVE  EndedStep
    <3>1. stage' = [stage EXCEPT ![i] = "up"]
      BY <2>3 DEF EnsureCreates, EnsureCreatesAfterTeardown, Fork
    <3> QED BY <1>0, <3>1 DEF EndedStep
  <2> QED BY <1>1, <2>1, <2>2, <2>3 DEF CallerStep
<1>2. ASSUME NEW i \in Instances, InstanceStep(i)
      PROVE  EndedStep
  <2>1. CASE TeardownPause(i) \/ TeardownObliterate(i) \/ Collected(i)
    <3>1. stage[i] # "up" /\ \E s : stage' = [stage EXCEPT ![i] = s]
      BY <2>1 DEF TeardownPause, TeardownObliterate, Collected
    <3> QED BY <1>0, <3>1, OneEnds
  <2>2. CASE TeardownClose(i) \/ TeardownFails(i)
    <3>1. stage[i] # "up" /\ stage' = [stage EXCEPT ![i] = "down"]
      BY <2>2 DEF TeardownClose, TeardownFails, EndTeardown, Teardown
    <3> QED BY <1>0, <3>1, OneEnds
  <2>3. CASE HandleErrorMessage(i) \/ HandleProcessClose(i) \/ HeartbeatTimeout(i)
    <3>1. Shutdown(i, FALSE)
      BY <2>3 DEF HandleErrorMessage, HandleProcessClose, HeartbeatTimeout,
                  BroadcastFatalError
    <3>2. Useless(i)
      BY <2>3 DEF HandleErrorMessage, HandleProcessClose, HeartbeatTimeout, Useless
    <3> QED BY <3>1, <3>2, ShutdownEnds
  <2>4. CASE \/ ChildExits(i) \/ ChildHangs(i) \/ ChildReportsFatal(i)
             \/ \E s \in Sessions : SessionUnauthorized(i, s)
             \/ CredentialJobSucceeds(i) \/ CredentialJobFails(i)
             \/ CredentialFailurePaused(i)
    BY <2>4, NobodyEnds
       DEF ChildExits, ChildHangs, ChildReportsFatal, SessionUnauthorized,
           CredentialJobSucceeds, CredentialJobFails, CredentialFailurePaused
  <2> QED BY <1>2, <2>1, <2>2, <2>3, <2>4 DEF InstanceStep
<1>3. ASSUME NEW id \in Identifiers, JanitorChecks(id)
      PROVE  EndedStep
  <2> DEFINE i == instanceAt[id]
  <2>1. i \in Instances
    BY <1>3 DEF JanitorChecks, IInv, TypeOK
  <2>2. CASE Reapable(i) /\ Shutdown(i, FALSE)
    BY <2>1, <2>2, ShutdownEnds DEF Reapable, Stale, LiveSessions, Useless
  <2>3. CASE stage' = stage
    BY <2>3, NobodyEnds
  <2> QED BY <1>3, <2>2, <2>3 DEF JanitorChecks
<1>4. ASSUME JanitorStarts \/ JanitorResumes \/ JanitorEnds
      PROVE  EndedStep
  BY <1>4, NobodyEnds DEF JanitorStarts, JanitorResumes, JanitorEnds
<1>5. ASSUME \/ \E id \in Identifiers : HttpEnds(id)
             \/ \E s \in Sessions : SocketConnects(s) \/ SocketDisconnects(s)
             \/ UNCHANGED vars
      PROVE  EndedStep
  BY <1>5, NobodyEnds DEF HttpEnds, SocketConnects, SocketDisconnects, vars
<1> QED BY <1>1, <1>2, <1>3, <1>4, <1>5 DEF Next, JanitorStep

(* Nobody ends a useful instance, for any number of sessions, requests and
   instances: every caller of shutdown() has looked at the child, or the
   janitor at its sessions and requests, in the same run of code, so that no
   await stands between the verdict and the teardown. *)
THEOREM OnlyUselessIsEndedHolds == Spec => OnlyUselessIsEnded
<1>1. IInv /\ [Next]_vars => EndedStep
  BY NextEnds
<1>2. EndedStep =>
        \A i \in Instances :
          stage[i] = "up" /\ stage'[i] # "up"
            => \/ proc[i] # "running" \/ errorDue[i]
               \/ /\ ident[i] \in Persistent
                  /\ initialized[i]
                       => sessions[i] \cap open = {} /\ http[ident[i]] = 0
  BY DEF EndedStep, Useless
<1> QED BY Invariance, <1>1, <1>2, PTL DEF Spec, OnlyUselessIsEnded

-----------------------------------------------------------------------------
(* The lifecycle implements QueueOwnership *)

PhaseMap == [id \in Identifiers |->
               IF instanceAt[id] = NoInstance THEN "free"
               ELSE OwnershipPhase(instanceAt[id])]

OwnershipStep == Ownership!Next \/ UNCHANGED <<instanceAt, PhaseMap>>

\* A step of one identifier's queue is a step of QueueOwnership.
LEMMA OwnershipMove ==
  ASSUME NEW k \in Identifiers,
         \/ \E j \in Instances : Ownership!Acquire(k, j)
         \/ Ownership!StartWiping(k) \/ Ownership!StartLeaving(k)
         \/ Ownership!Release(k)
  PROVE  OwnershipStep
<1>1. Ownership!Next
  BY DEF Ownership!Next
<1> QED BY <1>1 DEF OwnershipStep

LEMMA OwnershipStutter ==
  ASSUME UNCHANGED <<instanceAt, stage>>
  PROVE  OwnershipStep
  BY DEF OwnershipStep, PhaseMap, OwnershipPhase

\* The holder of an entry moves on to a stage of its teardown.
LEMMA OwnershipStage ==
  ASSUME IInv, NEW i \in Instances, NEW t \in Teardown, stage[i] \in Living,
         UNCHANGED instanceAt, stage' = [stage EXCEPT ![i] = t],
         \/ stage[i] = "up" /\ t \in {"pausing", "closing"}
         \/ stage[i] = "pausing" /\ t = "obliterating"
         \/ stage[i] = "obliterating" /\ t = "closing"
  PROVE  OwnershipStep
<1>0. PICK id \in Identifiers : id = ident[i]
  BY DEF IInv, TypeOK
<1>1. id \in Identifiers /\ instanceAt[id] = i /\ i # NoInstance
  BY <1>0, ConstantsAssumption DEF IInv, TypeOK, MapInv
<1>2. \A k \in Identifiers \ {id} : instanceAt[k] # i
  BY <1>1 DEF IInv, MapInv
<1>3. PhaseMap' = [PhaseMap EXCEPT ![id] = OwnershipPhase(i)']
  <2>1. ASSUME NEW k \in Identifiers, k # id
        PROVE  PhaseMap'[k] = PhaseMap[k]
    BY <1>2, <2>1 DEF PhaseMap, OwnershipPhase, IInv, TypeOK
  <2>2. PhaseMap'[id] = OwnershipPhase(i)'
    BY <1>1 DEF PhaseMap, OwnershipPhase
  <2> QED BY <1>1, <2>1, <2>2 DEF PhaseMap
<1>4. PhaseMap[id] = OwnershipPhase(i) /\ instanceAt' = [instanceAt EXCEPT ![id] = instanceAt[id]]
  BY <1>1 DEF PhaseMap, IInv, TypeOK
<1>5. stage'[i] = t
  BY DEF IInv, TypeOK
<1>6. CASE stage[i] = "up" /\ t = "pausing"
  <2>1. OwnershipPhase(i) = "held" /\ OwnershipPhase(i)' = "wiping"
    BY <1>5, <1>6 DEF OwnershipPhase
  <2>2. Ownership!StartWiping(id)
    BY <1>3, <1>4, <2>1 DEF Ownership!StartWiping, Ownership!Change, PhaseMap
  <2> QED BY <1>1, <2>2, OwnershipMove
<1>7. CASE t = "closing"
  <2>1. OwnershipPhase(i) \in {"held", "wiping"} /\ OwnershipPhase(i)' = "leaving"
    BY <1>5, <1>7 DEF OwnershipPhase
  <2>2. Ownership!StartLeaving(id)
    BY <1>3, <1>4, <2>1 DEF Ownership!StartLeaving, Ownership!Change, PhaseMap
  <2> QED BY <1>1, <2>2, OwnershipMove
<1>8. CASE stage[i] = "pausing" /\ t = "obliterating"
  <2>1. OwnershipPhase(i) = OwnershipPhase(i)'
    BY <1>5, <1>8 DEF OwnershipPhase
  <2>2. PhaseMap' = PhaseMap
    BY <1>1, <1>3, <1>4, <2>1 DEF PhaseMap
  <2> QED BY <2>2 DEF OwnershipStep
<1> QED BY <1>6, <1>7, <1>8

LEMMA OwnershipShutdown ==
  ASSUME IInv, NEW i \in Instances, NEW r \in BOOLEAN, Shutdown(i, r),
         UNCHANGED instanceAt
  PROVE  OwnershipStep
<1>1. CASE stage[i] = "up"
  <2>1. FirstStage(i, r) \in Teardown /\ FirstStage(i, r) \in {"pausing", "closing"}
    BY DEF FirstStage, Teardown
  <2> QED BY <1>1, <2>1, OwnershipStage DEF Shutdown, Living
<1>2. CASE stage[i] # "up"
  BY <1>2, OwnershipStutter DEF Shutdown
<1> QED BY <1>1, <1>2

LEMMA OwnershipRelease ==
  ASSUME IInv, NEW i \in Instances, stage[i] \in Teardown, EndTeardown(i)
  PROVE  OwnershipStep
<1>0. PICK id \in Identifiers : id = ident[i]
  BY DEF IInv, TypeOK
<1>1. id \in Identifiers /\ instanceAt[id] = i /\ i # NoInstance
  BY <1>0, ConstantsAssumption DEF IInv, TypeOK, MapInv, Living
<1>2. \A k \in Identifiers \ {id} : instanceAt[k] # i
  BY <1>1 DEF IInv, MapInv
<1>3. /\ instanceAt' = [instanceAt EXCEPT ![id] = NoInstance]
      /\ stage' = [stage EXCEPT ![i] = "down"]
  BY <1>0, <1>1 DEF EndTeardown
<1>4. PhaseMap' = [PhaseMap EXCEPT ![id] = "free"]
  <2>1. ASSUME NEW k \in Identifiers, k # id
        PROVE  PhaseMap'[k] = PhaseMap[k]
    BY <1>2, <1>3, <2>1 DEF PhaseMap, OwnershipPhase, IInv, TypeOK
  <2>2. PhaseMap'[id] = "free"
    BY <1>1, <1>3 DEF PhaseMap, IInv, TypeOK
  <2> QED BY <1>1, <2>1, <2>2 DEF PhaseMap
<1>5. PhaseMap[id] \in {"wiping", "leaving"}
  BY <1>1 DEF PhaseMap, OwnershipPhase, Teardown
<1>6. Ownership!Release(id)
  BY <1>3, <1>4, <1>5 DEF Ownership!Release, Ownership!Change, PhaseMap
<1> QED BY <1>1, <1>6, OwnershipMove

LEMMA OwnershipFork ==
  ASSUME IInv, NEW c \in Callers, NEW i \in Instances, Fork(c, i),
         instanceAt[want[c]] = NoInstance
  PROVE  OwnershipStep
<1>0. PICK id \in Identifiers : id = want[c]
  BY DEF IInv, TypeOK
<1>1. /\ id \in Identifiers /\ stage[i] = "unborn"
      /\ instanceAt' = [instanceAt EXCEPT ![id] = i]
      /\ stage' = [stage EXCEPT ![i] = "up"]
  BY <1>0 DEF Fork, Attach, IInv, TypeOK
<1>2. \A k \in Identifiers : instanceAt[k] # i
  BY <1>1, ConstantsAssumption DEF IInv, MapInv, Living, Teardown
<1>3. PhaseMap' = [PhaseMap EXCEPT ![id] = "held"]
  <2>1. ASSUME NEW k \in Identifiers, k # id
        PROVE  PhaseMap'[k] = PhaseMap[k]
    BY <1>1, <1>2, <2>1 DEF PhaseMap, OwnershipPhase, IInv, TypeOK
  <2>2. PhaseMap'[id] = "held"
    BY <1>1, ConstantsAssumption DEF PhaseMap, OwnershipPhase, IInv, TypeOK
  <2> QED BY <1>0, <2>1, <2>2 DEF PhaseMap
<1>4. PhaseMap[id] = "free"
  BY <1>0 DEF PhaseMap
<1>5. Ownership!Acquire(id, i)
  BY <1>1, <1>2, <1>3, <1>4 DEF Ownership!Acquire, Ownership!Change, PhaseMap
<1> QED BY <1>1, <1>5, OwnershipMove

\* The stage of an instance that is in no entry does not show.
LEMMA OwnershipCollected ==
  ASSUME IInv, NEW i \in Instances, Collected(i)
  PROVE  OwnershipStep
<1>1. stage[i] = "down" /\ instanceAt' = instanceAt /\ stage' = [stage EXCEPT ![i] = "unborn"]
  BY DEF Collected
<1>2. \A k \in Identifiers : instanceAt[k] # i
  BY <1>1, ConstantsAssumption DEF IInv, MapInv, Living, Teardown
<1>3. ASSUME NEW k \in Identifiers
      PROVE  PhaseMap'[k] = PhaseMap[k]
  BY <1>1, <1>2, <1>3 DEF PhaseMap, OwnershipPhase, IInv, TypeOK
<1>4. PhaseMap' = PhaseMap
  BY <1>3 DEF PhaseMap
<1> QED BY <1>1, <1>4 DEF OwnershipStep

LEMMA NextOwnership == IInv /\ [Next]_vars => OwnershipStep
<1> SUFFICES ASSUME IInv, [Next]_vars PROVE OwnershipStep
  OBVIOUS
<1>1. ASSUME NEW c \in Callers, CallerStep(c)
      PROVE  OwnershipStep
  <2>1. CASE \/ \E id \in Identifiers : Get(c, id)
             \/ EnsureRefused(c)
             \/ \E credential \in BOOLEAN : GetReturns(c, credential)
    BY <2>1, OwnershipStutter DEF Get, EnsureRefused, GetReturns
  <2>2. CASE EnsureReuses(c)
    <3>1. instanceAt' = instanceAt /\ stage' = stage
      BY <2>2 DEF EnsureReuses, Attach, IInv, TypeOK
    <3> QED BY <3>1, OwnershipStutter
  <2>3. CASE EnsureReplaces(c)
    <3>1. instanceAt[want[c]] \in Instances
      BY <2>3 DEF EnsureReplaces, IInv, TypeOK
    <3> QED BY <2>3, <3>1, OwnershipShutdown DEF EnsureReplaces
  <2>4. ASSUME NEW i \in Instances,
               EnsureCreates(c, i) \/ EnsureCreatesAfterTeardown(c, i)
        PROVE  OwnershipStep
    BY <2>4, OwnershipFork
       DEF EnsureCreates, EnsureCreatesAfterTeardown, IInv, ChainInv
  <2> QED BY <1>1, <2>1, <2>2, <2>3, <2>4 DEF CallerStep
<1>2. ASSUME NEW i \in Instances, InstanceStep(i)
      PROVE  OwnershipStep
  <2>1. CASE TeardownClose(i) \/ TeardownFails(i)
    BY <2>1, OwnershipRelease DEF TeardownClose, TeardownFails, Teardown
  <2>2. CASE TeardownPause(i)
    BY <2>2, OwnershipStage DEF TeardownPause, Living, Teardown
  <2>3. CASE TeardownObliterate(i)
    BY <2>3, OwnershipStage DEF TeardownObliterate, Living, Teardown
  <2>4. CASE \/ ChildExits(i) \/ ChildHangs(i) \/ ChildReportsFatal(i)
             \/ \E s \in Sessions : SessionUnauthorized(i, s)
    BY <2>4, OwnershipStutter
       DEF ChildExits, ChildHangs, ChildReportsFatal, SessionUnauthorized
  <2>5. CASE HandleErrorMessage(i) \/ HandleProcessClose(i) \/ HeartbeatTimeout(i)
    BY <2>5, OwnershipShutdown
       DEF HandleErrorMessage, HandleProcessClose, HeartbeatTimeout,
           BroadcastFatalError
  <2>6. CASE \/ CredentialJobSucceeds(i) \/ CredentialJobFails(i)
             \/ CredentialFailurePaused(i)
    BY <2>6, OwnershipStutter
       DEF CredentialJobSucceeds, CredentialJobFails, CredentialFailurePaused
  <2> QED BY <1>2, <2>1, <2>2, <2>3, <2>4, <2>5, <2>6, OwnershipCollected
          DEF InstanceStep
<1>3. CASE JanitorStarts \/ JanitorResumes \/ JanitorEnds
  BY <1>3, OwnershipStutter DEF JanitorStarts, JanitorResumes, JanitorEnds
<1>4. ASSUME NEW id \in Identifiers, JanitorChecks(id)
      PROVE  OwnershipStep
  <2> DEFINE i == instanceAt[id]
  <2>1. i \in Instances /\ UNCHANGED instanceAt
    BY <1>4 DEF JanitorChecks, IInv, TypeOK
  <2>2. CASE Shutdown(i, FALSE)
    BY <2>1, <2>2, OwnershipShutdown
  <2>3. CASE UNCHANGED stage
    BY <2>1, <2>3, OwnershipStutter
  <2> QED BY <1>4, <2>2, <2>3 DEF JanitorChecks
<1>5. ASSUME \/ \E id \in Identifiers : HttpEnds(id)
             \/ \E s \in Sessions : SocketConnects(s) \/ SocketDisconnects(s)
             \/ UNCHANGED vars
      PROVE  OwnershipStep
  BY <1>5, OwnershipStutter DEF HttpEnds, SocketConnects, SocketDisconnects, vars
<1> QED BY <1>1, <1>2, <1>3, <1>4, <1>5 DEF Next, JanitorStep

(* The lifecycle implements QueueOwnership: the shared Redis queue of an
   identifier has one owner at a time, only the owner destroys it, and a
   successor takes it after it was let go. *)
THEOREM OwnershipImplemented == Spec => ImplementsOwnership
<1>1. Init => Ownership!Init
  BY DEF Init, Ownership!Init
<1>2. IInv /\ [Next]_vars => OwnershipStep
  BY NextOwnership
<1>3. OwnershipStep => [Ownership!Next]_<<instanceAt, PhaseMap>>
  BY DEF OwnershipStep
<1> QED BY Invariance, <1>1, <1>2, <1>3, PTL
        DEF Spec, ImplementsOwnership, Ownership!Spec, PhaseMap
=============================================================================
