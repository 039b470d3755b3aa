-------------------------- MODULE ExtensionManagerProofs --------------------------
(***************************************************************************)
(* What the extension manager guarantees for every set of goroutines, any  *)
(* number of upgrades and any version at which the method changes.  It     *)
(* rests on the invariant of InfoCache, whose steps the manager's are: a   *)
(* call that is about to send has a version no newer than the cache, and   *)
(* the cache none newer than the shop.                                     *)
(***************************************************************************)
EXTENDS ExtensionManager, InfoCacheProofs

ManagerInv == IInv /\ ManagerTypeOK

\* To the cache, a step of the manager is one of its own or none.
LEMMA ManagerStepsAreInfoSteps == ManagerNext => [Next]_vars
  BY DEF ManagerNext, ShopUpgrade, Call, Download, ManagerStep, InfoStep, RequestFails,
         Remove, ListAvailable, UploadNew, UploadUpdateToCloud, Finish, Next

\* The steps of the manager's callers leave the cache one that Info's callers
\* could have made: what InfoCache promises, it promises the manager.
THEOREM ManagerKeepsInfo == ManagerSpec => Spec
<1>1. ManagerInit => Init
  BY DEF ManagerInit
<1>2. [ManagerNext]_allVars => [Next]_vars
  BY ManagerStepsAreInfoSteps DEF allVars
<1>3. QED  BY <1>1, <1>2, PTL DEF ManagerSpec, Spec

\* What ManagerKeepsInfo gives to the properties a run checks of the manager.
THEOREM ManagerSeesForward == ManagerSpec => InfoNeverOlder /\ NeverSeesOlder
  BY ManagerKeepsInfo, CacheNeverOlder, CallersNeverSeeOlder, PTL

\* A step inside Info hands a version to every caller it lets go, except when
\* its flight had no reply.
LEMMA ReleasedWithInfo ==
  ASSUME IInv, NEW g \in Callers, Step(g), NEW w \in Callers
  PROVE  /\ pc[w] = "idle" => pc'[w] = "idle"
         /\ seen[w] # NoInfo => seen'[w] # NoInfo
         /\ pc[w] # "idle" /\ pc'[w] = "idle" /\ ~(pc[g] = "landing" /\ reply[g] = NoInfo)
               => seen'[w] # NoInfo
<1> USE DEF IInv, TypeOK, Steps, InFlight, Goto
<1>1. CASE Peek(g)
  BY <1>1 DEF Peek
<1>2. CASE Join(g) \/ Answer(g) \/ AskFails(g) \/ Publish(g)
  BY <1>2 DEF Join, Answer, AskFails, Publish
<1>3. CASE Land(g)
  BY <1>3 DEF Land
<1>4. QED  BY <1>1, <1>2, <1>3 DEF Step

\* The invariant holds at the start and survives every step.
LEMMA ManagerInitInv == ManagerInit => ManagerInv
<1>1. ManagerInit => IInv
  BY InitInv DEF ManagerInit
<1>2. ManagerInit => ManagerTypeOK
  BY <1>1 DEF IInv, ManagerInit, Init, ManagerTypeOK, Jobs, InfoJobs, Sending
<1>3. QED  BY <1>1, <1>2 DEF ManagerInv

LEMMA ManagerInvStep == ManagerInv /\ [ManagerNext]_allVars => ManagerInv'
<1> SUFFICES ASSUME ManagerInv, [ManagerNext]_allVars PROVE ManagerInv'
  OBVIOUS
<1>1. IInv'
  BY ManagerStepsAreInfoSteps, InvStep DEF ManagerInv, allVars, vars
<1>2. TypeOK'
  BY <1>1 DEF IInv
<1>3. ManagerTypeOK'
  <2> USE <1>2 DEF ManagerInv, ManagerTypeOK, Jobs, InfoJobs, Sending
  <2>1. ASSUME NEW g \in Callers, Call(g) PROVE ManagerTypeOK'
    BY <2>1 DEF Call, Begin, Goto, IInv, TypeOK
  <2>2. ASSUME NEW g \in Callers, InfoStep(g) PROVE ManagerTypeOK'
    <3>1. \A w \in Callers :
             /\ pc[w] = "idle" => pc'[w] = "idle"
             /\ seen[w] # NoInfo => seen'[w] # NoInfo
             /\ pc[w] # "idle" /\ pc'[w] = "idle"
                   /\ ~(pc[g] = "landing" /\ reply[g] = NoInfo) => seen'[w] # NoInfo
      BY <2>2, ReleasedWithInfo DEF InfoStep
    <3>2. QED  BY <2>2, <3>1 DEF InfoStep, InfoReturns, Informed
  <2>3. ASSUME NEW g \in Callers, RequestFails(g) PROVE ManagerTypeOK'
    BY <2>3 DEF RequestFails, Finish, vars
  <2>4. ASSUME NEW g \in Callers, Remove(g) PROVE ManagerTypeOK'
    BY <2>4 DEF Remove, Finish, vars
  <2>5. ASSUME NEW g \in Callers, ListAvailable(g) PROVE ManagerTypeOK'
    BY <2>5 DEF ListAvailable, vars
  <2>6. ASSUME NEW g \in Callers, UploadNew(g) \/ UploadUpdateToCloud(g)
        PROVE  ManagerTypeOK'
    BY <2>6 DEF UploadNew, UploadUpdateToCloud, Finish, vars
  <2>7. ASSUME NEW g \in Callers, Download(g) PROVE ManagerTypeOK'
    BY <2>7 DEF Download, vars
  <2>8. CASE ShopUpgrade
    BY <2>8 DEF ShopUpgrade, Upgrade, managerVars
  <2>9. CASE UNCHANGED allVars
    BY <2>9 DEF allVars, vars, managerVars
  <2>10. QED
    BY <2>1, <2>2, <2>3, <2>4, <2>5, <2>6, <2>7, <2>8, <2>9 DEF ManagerNext, ManagerStep
<1>4. QED  BY <1>1, <1>3 DEF ManagerInv

LEMMA ManagerInvariance == ManagerSpec => []ManagerInv
<1>1. QED  BY ManagerInitInv, ManagerInvStep, PTL DEF ManagerSpec

-----------------------------------------------------------------------------
\* Every variable keeps its type, and no request is sent without a version.
THEOREM ManagerTypeCorrect == ManagerSpec => []ManagerTypeOK
<1>1. ManagerInv => ManagerTypeOK
  BY DEF ManagerInv
<1>2. QED  BY ManagerInvariance, <1>1, PTL

\* A POST always finds a shop that expects one.
THEOREM PostNeverTooEarly == ManagerSpec => []PostIsUnderstood
<1>1. ManagerInv => PostIsUnderstood
  BY PostAssumption
  DEF ManagerInv, ManagerTypeOK, IInv, TypeOK, SeenCached, PostIsUnderstood, Method, Expected
<1>2. QED  BY ManagerInvariance, <1>1, PTL

\* A wrong method has an upgrade or an unreadable version for its reason.
THEOREM WrongMethodHasReason == ManagerSpec => []WrongMethodOnlyWhenStale
<1>1. ManagerInv => WrongMethodOnlyWhenStale
  <2> SUFFICES ASSUME ManagerInv, NEW g \in Callers, job[g] = "removing",
                      Method(seen[g]) # Expected(shop)
               PROVE  seen[g] \in (1 .. shop - 1) \cup Unparsable
    BY DEF WrongMethodOnlyWhenStale
  <2>1. seen[g] # NoInfo
    BY DEF ManagerInv, ManagerTypeOK, Sending
  <2>2. seen[g] \in 0 .. shop /\ shop \in Nat
    BY VersionAssumption DEF ManagerInv, IInv, TypeOK
  <2>3. seen[g] = shop => seen[g] \in Unparsable
    BY DEF Method, Expected
  <2>4. QED  BY <2>1, <2>2, <2>3 DEF NoInfo
<1>2. QED  BY ManagerInvariance, <1>1, PTL

\* A Client connected before the change removes nothing after it.
THEOREM OutdatedNeverRemoves == ManagerSpec => StaysUnableToRemove
<1>1. ManagerInv /\ [ManagerNext]_allVars => [OutdatedRemovesNothing]_allVars
  <2> SUFFICES ASSUME ManagerInv, ManagerNext, Outdated, listed PROVE listed'
    BY DEF OutdatedRemovesNothing
  <2>1. ASSUME NEW g \in Callers, Remove(g) PROVE listed'
    <3>1. seen[g] < PostSince
      BY PostAssumption DEF ManagerInv, IInv, TypeOK, SeenCached, Outdated
    <3>2. Method(seen[g]) # Expected(shop)
      BY <3>1, PostAssumption DEF Method, Expected, Outdated, ManagerInv, IInv, TypeOK
    <3>3. QED  BY <2>1, <3>2 DEF Remove
  <2>2. CASE listed' = TRUE \/ UNCHANGED listed
    BY <2>2
  <2>3. QED
    BY <2>1, <2>2 DEF ManagerNext, ShopUpgrade, managerVars, Call, Download, ManagerStep,
       InfoStep, RequestFails, ListAvailable, UploadNew, UploadUpdateToCloud, Finish
<1>2. QED  BY ManagerInvariance, <1>1, PTL DEF ManagerSpec, StaysUnableToRemove

-----------------------------------------------------------------------------
\* The number of steps a call of the manager has left once it is informed.
JobsAhead ==
    [none |-> 0, version |-> 1, removing |-> 1, bundles |-> 2, listing |-> 2,
     uploading |-> 1, updating |-> 1]

ManagerRank(g) == Rank(g) + JobsAhead[job[g]]

\* A step of g's call of the manager lowers its rank, and no other step raises
\* the rank of a call under way.
ManagerAdvances(g) ==
    /\ ManagerStep(g) => ManagerRank(g)' < ManagerRank(g)
    /\ pc[g] # "idle" \/ job[g] # "none" => ManagerRank(g)' <= ManagerRank(g)
AllManagersAdvance  == \A g \in Callers : ManagerAdvances(g)
ManagerCallsAdvance == [][AllManagersAdvance]_allVars

\* Whom a step of g lets go, and where that leaves the others' jobs.
LEMMA JobsFollowInfo ==
    ASSUME ManagerTypeOK, TypeOK, NEW g \in Callers, InfoStep(g), NEW w \in Callers
    PROVE  /\ job'[w] \in Jobs
           /\ JobsAhead[job'[w]] <= JobsAhead[job[w]]
  BY DEF ManagerTypeOK, InfoStep, InfoReturns, Informed, Jobs, InfoJobs, Sending, JobsAhead

\* A step of the manager past Info is one of g's job alone.
SendStep(g) ==
    RequestFails(g) \/ Remove(g) \/ ListAvailable(g) \/ UploadNew(g) \/ UploadUpdateToCloud(g)

LEMMA SendStepLocal ==
    ASSUME ManagerTypeOK, NEW g \in Callers, SendStep(g)
    PROVE  /\ UNCHANGED vars
           /\ \A h \in Callers \ {g} : job'[h] = job[h]
           /\ JobsAhead[job'[g]] < JobsAhead[job[g]]
  BY DEF ManagerTypeOK, SendStep, RequestFails, Remove, ListAvailable, UploadNew,
         UploadUpdateToCloud, Finish, Jobs, InfoJobs, Sending, JobsAhead

\* Whoever takes a step of the manager moves on.
LEMMA ManagerStepMoves ==
    ASSUME ManagerInv, NEW g \in Callers, ManagerStep(g)
    PROVE  /\ pc[g] # "idle" \/ job[g] # "none"
           /\ pc'[g] # pc[g] \/ job'[g] # job[g]
           /\ pc'[g] # pc[g] => Step(g)
<1>1. CASE InfoStep(g)
  <2>1. Rank(g)' < Rank(g) /\ pc[g] \in Steps
    BY <1>1, RankStep DEF ManagerInv, IInv, TypeOK, InfoStep, Next, AllAdvance, Advances
  <2>2. pc'[g] # pc[g]
    BY <2>1 DEF Rank, Steps, InFlight
  <2>3. pc[g] # "idle"
    BY <1>1 DEF InfoStep, Step, Peek, Join, Answer, AskFails, Publish, Land
  <2>4. QED  BY <1>1, <2>2, <2>3 DEF InfoStep
<1>2. CASE SendStep(g)
  <2>1. JobsAhead[job'[g]] < JobsAhead[job[g]] /\ UNCHANGED pc
    BY <1>2, SendStepLocal DEF ManagerInv, vars
  <2>2. job'[g] # job[g] /\ job[g] # "none"
    BY <1>2, <2>1 DEF SendStep, RequestFails, Remove, ListAvailable, UploadNew,
       UploadUpdateToCloud, Finish, Sending, ManagerInv, ManagerTypeOK, Jobs, InfoJobs, JobsAhead
  <2>3. QED  BY <2>1, <2>2
<1>3. QED  BY <1>1, <1>2 DEF ManagerStep, SendStep

\* Every step of a call of the manager brings it nearer to its end.
THEOREM ManagerStepsBringCallsHome == ManagerSpec => ManagerCallsAdvance
<1>1. ManagerInv /\ ManagerInv' /\ [ManagerNext]_allVars => [AllManagersAdvance]_allVars
  <2> SUFFICES ASSUME ManagerInv, ManagerInv', ManagerNext, NEW h \in Callers
               PROVE  ManagerAdvances(h)
    BY DEF AllManagersAdvance
  <2> DEFINE R == Rank(h)  J == JobsAhead[job[h]]
  <2>1. R \in Nat /\ R' \in Nat /\ J \in Nat /\ J' \in Nat
    BY DEF ManagerInv, IInv, TypeOK, Steps, InFlight, Rank,
           ManagerTypeOK, Jobs, InfoJobs, Sending, JobsAhead
  <2>2. ManagerRank(h) = R + J /\ ManagerRank(h)' = R' + J'
    BY DEF ManagerRank
  <2>3. CASE UNCHANGED <<pc[h], job[h]>>
    BY <2>1, <2>2, <2>3, ManagerStepMoves DEF ManagerAdvances, Rank
  <2>4. ASSUME NEW g \in Callers, InfoStep(g) PROVE ManagerAdvances(h)
    <3>1. J' <= J
      BY <2>4, JobsFollowInfo DEF ManagerInv, IInv
    <3>2. (Step(h) => R' < R) /\ (pc[h] # "idle" => R' <= R)
      BY <2>4, RankStep DEF ManagerInv, IInv, InfoStep, Next, AllAdvance, Advances
    <3>3. pc[h] = "idle" => pc'[h] = "idle"
      BY <2>4, ReleasedWithInfo DEF ManagerInv, InfoStep
    <3>4. CASE pc[h] = "idle"
      <4>1. job'[h] = job[h]
        BY <2>4, <3>4 DEF InfoStep, InfoReturns, ManagerInv, ManagerTypeOK
      <4>2. QED  BY <2>3, <3>3, <3>4, <4>1
    <3>5. CASE pc[h] # "idle" /\ Step(h)
      BY <2>1, <2>2, <3>1, <3>2, <3>5 DEF ManagerAdvances
    <3>6. CASE pc[h] # "idle" /\ ~Step(h)
      <4>1. ~ManagerStep(h)
        <5>1. pc'[h] = pc[h] => job'[h] = job[h]
          BY <2>4, <3>6 DEF InfoStep, InfoReturns, ManagerInv, ManagerTypeOK
        <5>2. QED  BY <3>6, <5>1, ManagerStepMoves
      <4>2. QED  BY <2>1, <2>2, <3>1, <3>2, <3>6, <4>1 DEF ManagerAdvances
    <3>7. QED  BY <3>4, <3>5, <3>6
  <2>5. ASSUME NEW g \in Callers, SendStep(g) PROVE ManagerAdvances(h)
    <3>1. UNCHANGED pc /\ (g # h => job'[h] = job[h])
      BY <2>5, SendStepLocal DEF ManagerInv, vars
    <3>2. g = h => J' < J /\ R' = R
      BY <2>5, <3>1, SendStepLocal DEF ManagerInv, Rank
    <3>3. QED  BY <2>1, <2>2, <2>3, <3>1, <3>2 DEF ManagerAdvances
  <2>6. ASSUME NEW g \in Callers, Call(g) PROVE ManagerAdvances(h)
    <3>1. CASE g = h
      BY <2>6, <3>1, ManagerStepMoves DEF Call, Begin, ManagerAdvances
    <3>2. CASE g # h
      BY <2>3, <2>6, <3>2 DEF Call, Begin, Goto, ManagerInv, IInv, TypeOK, ManagerTypeOK
    <3>3. QED  BY <3>1, <3>2
  <2>7. CASE ShopUpgrade \/ \E g \in Callers : Download(g)
    BY <2>3, <2>7 DEF ShopUpgrade, Upgrade, managerVars, Download, vars
  <2>8. QED
    BY <2>4, <2>5, <2>6, <2>7 DEF ManagerNext, ManagerStep, SendStep
<1>2. QED  BY ManagerInvariance, <1>1, PTL DEF ManagerSpec, ManagerCallsAdvance
=============================================================================
