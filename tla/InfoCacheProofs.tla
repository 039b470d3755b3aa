----------------------------- MODULE InfoCacheProofs -----------------------------
(***************************************************************************)
(* What InfoCache guarantees for every set of goroutines and any number of *)
(* upgrades.  Flights run one after another and publish before they land,  *)
(* so what a leader holds is at least as new as the cache (HoldsCurrent),  *)
(* and everything Info has returned is in the cache or older (SeenCached). *)
(***************************************************************************)
EXTENDS InfoCache, TLAPS

USE DEF NoInfo

\* Who is in the flight and who leads it are the same thing.
FlightLedBy == \A g \in Callers : pc[g] \in InFlight <=> flight = g

\* Followers wait for a flight that exists.
FollowersHaveLeader == \A g \in Callers : pc[g] = "waiting" => flight # Nobody

\* A reply is held from the answer to the landing, and is never behind the
\* cache; when the flight lands it is what the cache holds.
HoldsCurrent ==
    \A g \in Callers :
        /\ pc[g] = "publishing" => reply[g] >= info
        /\ pc[g] = "landing" /\ reply[g] # NoInfo => reply[g] = info
        /\ pc[g] \notin {"publishing", "landing"} => reply[g] = NoInfo

\* Whatever Info has returned is no newer than the cache.
SeenCached == \A g \in Callers : seen[g] <= info

IInv == TypeOK /\ FlightLedBy /\ FollowersHaveLeader /\ HoldsCurrent /\ SeenCached

\* The invariant holds at the start and survives every step.
LEMMA InitInv == Init => IInv
  BY NobodyAssumption, VersionAssumption
  DEF Init, IInv, TypeOK, FlightLedBy, FollowersHaveLeader, HoldsCurrent, SeenCached, Steps, InFlight

LEMMA InvStep == IInv /\ [Next]_vars => IInv'
<1> SUFFICES ASSUME IInv, [Next]_vars PROVE IInv'
  OBVIOUS
<1> USE NobodyAssumption, VersionAssumption
    DEF IInv, TypeOK, FlightLedBy, FollowersHaveLeader, HoldsCurrent, SeenCached,
        Steps, InFlight, Goto
<1>1. ASSUME NEW g \in Callers, Begin(g) PROVE IInv'
  BY <1>1 DEF Begin
<1>2. ASSUME NEW g \in Callers, Peek(g) PROVE IInv'
  BY <1>2 DEF Peek
<1>3. ASSUME NEW g \in Callers, Join(g) PROVE IInv'
  BY <1>3 DEF Join
<1>4. ASSUME NEW g \in Callers, Answer(g) PROVE IInv'
  BY <1>4 DEF Answer
<1>5. ASSUME NEW g \in Callers, AskFails(g) PROVE IInv'
  BY <1>5 DEF AskFails
<1>6. ASSUME NEW g \in Callers, Publish(g) PROVE IInv'
  BY <1>6 DEF Publish
<1>7. ASSUME NEW g \in Callers, Land(g) PROVE IInv'
  BY <1>7 DEF Land
<1>8. CASE Upgrade
  BY <1>8 DEF Upgrade
<1>9. CASE UNCHANGED vars
  BY <1>9 DEF vars
<1>10. QED
  BY <1>1, <1>2, <1>3, <1>4, <1>5, <1>6, <1>7, <1>8, <1>9 DEF Next, Step

\* The inductive invariant holds in every reachable state.
LEMMA Invariance == Spec => []IInv
<1>1. QED  BY InitInv, InvStep, PTL DEF Spec

-----------------------------------------------------------------------------
\* Every variable keeps its type.
THEOREM TypeCorrect == Spec => []TypeOK
<1>1. IInv => TypeOK
  BY DEF IInv
<1>2. QED  BY Invariance, <1>1, PTL

\* The cache never goes back to an older version.
THEOREM CacheNeverOlder == Spec => InfoNeverOlder
<1>1. IInv /\ [Next]_vars => [info' >= info]_vars
  <2> SUFFICES ASSUME IInv, Next PROVE info' >= info
    OBVIOUS
  <2> USE DEF IInv, TypeOK
  <2>1. ASSUME NEW g \in Callers, Publish(g) PROVE info' >= info
    BY <2>1 DEF Publish, HoldsCurrent
  <2>2. CASE UNCHANGED info
    BY <2>2
  <2>3. QED
    BY <2>1, <2>2 DEF Next, Step, Begin, Peek, Join, Answer, AskFails, Land, Upgrade
<1>2. QED  BY Invariance, <1>1, PTL DEF Spec, InfoNeverOlder

\* No goroutine is told of an older version than before.
THEOREM CallersNeverSeeOlder == Spec => NeverSeesOlder
<1>1. IInv /\ [Next]_vars => [SeesForward]_vars
  <2> SUFFICES ASSUME IInv, Next PROVE SeesForward
    OBVIOUS
  <2> USE DEF IInv, TypeOK, SeenCached, SeesForward
  <2>1. ASSUME NEW g \in Callers, Peek(g) PROVE SeesForward
    BY <2>1 DEF Peek
  <2>2. ASSUME NEW g \in Callers, Land(g) PROVE SeesForward
    BY <2>2 DEF Land, HoldsCurrent
  <2>3. CASE UNCHANGED seen
    BY <2>3
  <2>4. QED
    BY <2>1, <2>2, <2>3 DEF Next, Step, Begin, Join, Answer, AskFails, Publish, Upgrade
<1>2. QED  BY Invariance, <1>1, PTL DEF Spec, NeverSeesOlder

\* The goroutines' steps are steps of one singleflight key or leave it alone
\* (the safety part of ImplementsSingleFlight).
THEOREM FetchesAreSingleFlight == Spec => SF!Init /\ [][SF!Next]_Role
<1> DEFINE Effect == \/ UNCHANGED Role
                     \/ \E c \in Callers : SF!Lead(c) \/ SF!Follow(c) \/ SF!Return(c)
<1>1. Init => SF!Init
  BY DEF Init, SF!Init, SF!Outside, Role, InFlight
<1>2. IInv /\ [Next]_vars => [SF!Next]_Role
  <2> SUFFICES ASSUME IInv, [Next]_vars PROVE Effect
    BY DEF SF!Next
  <2> USE DEF IInv, TypeOK, FlightLedBy, InFlight, Goto
  <2>1. ASSUME NEW g \in Callers, Join(g) PROVE Effect
    <3>1. CASE flight = Nobody
      <4>1. \A d \in Callers : Role[d] = "outside"
        BY <3>1, NobodyAssumption DEF Role, FollowersHaveLeader
      <4>2. Role' = [Role EXCEPT ![g] = "leader"]
        BY <2>1, <3>1 DEF Join, Role
      <4>3. SF!Lead(g)
        BY <4>1, <4>2 DEF SF!Lead, SF!Outside, SF!Leader
      <4>4. QED  BY <4>3
    <3>2. CASE flight # Nobody
      <4>1. Role[g] = "outside" /\ Role[flight] = "leader" /\ flight \in Callers
        BY <2>1, <3>2 DEF Join, Role
      <4>2. Role' = [Role EXCEPT ![g] = "follower"]
        BY <2>1, <3>2 DEF Join, Role
      <4>3. SF!Follow(g)
        BY <4>1, <4>2 DEF SF!Follow, SF!Outside, SF!Leader, SF!Follower
      <4>4. QED  BY <4>3
    <3>3. QED  BY <3>1, <3>2
  <2>2. ASSUME NEW g \in Callers, Land(g) PROVE Effect
    <3>1. Role[g] = "leader"
      BY <2>2 DEF Land, Role
    <3>2. \A d \in Callers : d # g => pc[d] \notin InFlight
      BY <2>2 DEF Land
    <3>3. Role' = [d \in Callers |-> "outside"]
      BY <2>2, <3>2 DEF Land, Role
    <3>4. SF!Return(g)
      BY <3>1, <3>3 DEF SF!Return, SF!Leader, SF!Outside
    <3>5. QED  BY <3>4
  <2>3. CASE UNCHANGED pc
    BY <2>3 DEF Role
  <2>4. ASSUME NEW g \in Callers,
               Begin(g) \/ Peek(g) \/ Answer(g) \/ AskFails(g) \/ Publish(g)
        PROVE  Effect
    BY <2>4 DEF Begin, Peek, Answer, AskFails, Publish, Role
  <2>5. QED
    BY <2>1, <2>2, <2>3, <2>4 DEF Next, Step, Upgrade, vars
<1>3. QED  BY Invariance, <1>1, <1>2, PTL DEF Spec

-----------------------------------------------------------------------------
\* The goroutines that have found the cache empty and may fetch for it.
Unserved == {g \in Callers : pc[g] \notin {"idle", "peek"}}

\* What holds in place of FetchedAtMostOnce, which the run info_once refutes: as
\* soon as the cache is filled nobody new comes to fetch, so each goroutine that
\* had found it empty before fetches at most once more.
NobodyNewFetches  == info # NoInfo => info' # NoInfo /\ Unserved' \subseteq Unserved
FetchingDiesOut == [][NobodyNewFetches]_vars

\* Whoever waits, waits for a goroutine inside the singleflight function.
NobodyStranded == \A g \in Callers : pc[g] = "waiting" => \E h \in Callers : pc[h] \in InFlight

\* The number of steps a call of Info has left at most.
Rank(g) ==
    [idle |-> 0, peek |-> 5, join |-> 4, asking |-> 3, publishing |-> 2,
     landing |-> 1, waiting |-> 1][pc[g]]

\* A step of g's call lowers its rank, and no other step raises the rank of a
\* call under way: the safety half of EveryCallReturns.
Advances(g)  == /\ Step(g) => Rank(g)' < Rank(g)
                /\ pc[g] # "idle" => Rank(g)' <= Rank(g)
AllAdvance   == \A g \in Callers : Advances(g)
CallsAdvance == [][AllAdvance]_vars

\* Once the cache is filled, who fetches still is one that found it empty before.
THEOREM FetchingEnds == Spec => FetchingDiesOut
<1>1. IInv /\ [Next]_vars => [NobodyNewFetches]_vars
  <2> SUFFICES ASSUME IInv, Next, info # NoInfo PROVE info' # NoInfo /\ Unserved' \subseteq Unserved
    BY DEF NobodyNewFetches
  <2> USE DEF IInv, TypeOK, Unserved, Goto
  <2>1. ASSUME NEW g \in Callers, Publish(g) PROVE info' # NoInfo /\ Unserved' \subseteq Unserved
    BY <2>1 DEF Publish, HoldsCurrent
  <2>2. ASSUME NEW g \in Callers, Begin(g) \/ Peek(g) \/ Join(g)
        PROVE  info' # NoInfo /\ Unserved' \subseteq Unserved
    BY <2>2 DEF Begin, Peek, Join
  <2>3. ASSUME NEW g \in Callers, Answer(g) \/ AskFails(g)
        PROVE  info' # NoInfo /\ Unserved' \subseteq Unserved
    BY <2>3 DEF Answer, AskFails
  <2>4. ASSUME NEW g \in Callers, Land(g) PROVE info' # NoInfo /\ Unserved' \subseteq Unserved
    BY <2>4 DEF Land
  <2>5. CASE Upgrade
    BY <2>5 DEF Upgrade
  <2>6. QED  BY <2>1, <2>2, <2>3, <2>4, <2>5 DEF Next, Step
<1>2. QED  BY Invariance, <1>1, PTL DEF Spec, FetchingDiesOut

\* No step leaves a follower behind without a leader.
THEOREM FollowersAreLed == Spec => []NobodyStranded
<1>1. IInv => NobodyStranded
  BY DEF IInv, TypeOK, FlightLedBy, FollowersHaveLeader, NobodyStranded
<1>2. QED  BY Invariance, <1>1, PTL

\* The effect of one step on the ranks of all calls.
LEMMA RankStep == TypeOK /\ Next => AllAdvance
<1> SUFFICES ASSUME TypeOK, Next, NEW h \in Callers PROVE Advances(h)
  BY DEF AllAdvance
<1> USE DEF TypeOK, Steps, InFlight, Goto, Rank, Advances
<1>1. CASE Step(h)
  <2>1. CASE Peek(h) \/ Join(h) \/ Answer(h) \/ AskFails(h) \/ Publish(h)
    BY <2>1 DEF Peek, Join, Answer, AskFails, Publish
  <2>2. CASE Land(h)
    BY <2>2 DEF Land
  <2>3. QED  BY <1>1, <2>1, <2>2 DEF Step
<1>2. CASE ~Step(h) /\ UNCHANGED pc[h]
  BY <1>2
<1>3. ASSUME NEW g \in Callers, g # h, Begin(g) \/ Peek(g) \/ Join(g) PROVE UNCHANGED pc[h]
  BY <1>3 DEF Begin, Peek, Join
<1>4. ASSUME NEW g \in Callers, g # h, Answer(g) \/ AskFails(g) \/ Publish(g) PROVE UNCHANGED pc[h]
  BY <1>4 DEF Answer, AskFails, Publish
<1>5. ASSUME NEW g \in Callers, g # h, Land(g), ~Step(h) PROVE Advances(h)
  BY <1>5 DEF Land
<1>6. CASE ~Step(h) /\ (Begin(h) \/ Upgrade)
  BY <1>6 DEF Begin, Upgrade
<1>7. QED  BY <1>1, <1>2, <1>3, <1>4, <1>5, <1>6 DEF Next, Step

\* Every step of a call brings it nearer to its end.
THEOREM StepsBringCallsHome == Spec => CallsAdvance
<1>1. TypeOK /\ [Next]_vars => [AllAdvance]_vars
  BY RankStep
<1>2. QED  BY TypeCorrect, <1>1, PTL DEF Spec, CallsAdvance
=============================================================================
