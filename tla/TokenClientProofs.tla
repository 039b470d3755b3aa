---------------------------- MODULE TokenClientProofs ----------------------------
(***************************************************************************)
(* What TokenClient guarantees for every set of goroutines, every number   *)
(* of tokens, and every storage.  The argument: a goroutine is in the      *)
(* token fetch exactly when it leads the flight (FlightLedBy), so what a   *)
(* leader saw or obtained can only be disturbed by SetAccessToken and      *)
(* invalidateToken, and neither can make a token that is about to be       *)
(* stored an old one (StoringIsNewest).                                    *)
(***************************************************************************)
EXTENDS TokenClient, TokenExpiry, TLAPS

USE DEF Tokens, NoToken

\* Who is in the token fetch and who leads the flight are the same thing.
FlightLedBy == \A g \in Callers : pc[g] \in InFlight <=> flight = g

\* Followers wait for a flight that exists.
FollowersHaveLeader == \A g \in Callers : pc[g] = "waiting" => flight # Nobody

\* g holds a token that is not in the storage, was never dropped, and only
\* seeded tokens are newer.
HoldsNewest(g) ==
    /\ tok[g] \in 1 .. issued
    /\ tok[g] \notin dropped \cup {cached}
    /\ \A t \in 1 .. issued : t > tok[g] => t \in seeded

\* That is so for the token a leader is about to store.
StoringIsNewest == \A g \in Callers : pc[g] = "storing" => HoldsNewest(g)

IInv ==
    /\ TypeOK
    /\ FlightLedBy
    /\ FollowersHaveLeader
    /\ StoringIsNewest
    /\ NoStampede
    /\ DroppedStaysDropped

-----------------------------------------------------------------------------
LEMMA InitInv == Init => IInv
  BY NobodyAssumption, BoundAssumption, StorageAssumption
  DEF Init, IInv, TypeOK, FlightLedBy, FollowersHaveLeader, StoringIsNewest, NoStampede, DroppedStaysDropped,
      Steps, InFlight, Outcomes

\* A call that ends keeps the types.
LEMMA EndTyped ==
    ASSUME TypeOK, NEW g \in Callers, NEW r \in Outcomes, End(g, r),
           UNCHANGED <<canceled, flight, storeVars, serverVars, worldVars>>
    PROVE  TypeOK'
  BY DEF TypeOK, End, Goto, Steps, InFlight, Outcomes, storeVars, serverVars, worldVars

\* Types survive every step.
LEMMA TypeStep == TypeOK /\ [Next]_vars => TypeOK'
<1> SUFFICES ASSUME TypeOK, [Next]_vars PROVE TypeOK'
  OBVIOUS
<1> USE NobodyAssumption, BoundAssumption DEF TypeOK, Steps, InFlight, Outcomes, Goto,
        storeVars, serverVars, worldVars, callVars
<1>1. ASSUME NEW g \in Callers, Begin(g) PROVE TypeOK'
  BY <1>1 DEF Begin
<1>2. ASSUME NEW g \in Callers, Lookup(g) PROVE TypeOK'
  <2>1. CASE pc' = [pc EXCEPT ![g] = "ready"] \/ pc' = [pc EXCEPT ![g] = "join"]
    BY <1>2, <2>1 DEF Lookup, End
  <2>2. ASSUME NEW e \in Errors(g), End(g, e) PROVE TypeOK'
    BY <1>2, <2>2, EndTyped DEF Lookup, Errors
  <2>3. QED  BY <1>2, <2>1, <2>2 DEF Lookup
<1>3. ASSUME NEW g \in Callers, Join(g) PROVE TypeOK'
  BY <1>3 DEF Join
<1>4. ASSUME NEW g \in Callers, Recheck(g) PROVE TypeOK'
  BY <1>4 DEF Recheck, FlightYields, FlightFails, Errors
<1>5. ASSUME NEW g \in Callers, Issue(g) PROVE TypeOK'
  BY <1>5 DEF Issue
<1>6. ASSUME NEW g \in Callers, IssueLost(g) PROVE TypeOK'
  BY <1>6 DEF IssueLost, FlightFails, Errors
<1>7. ASSUME NEW g \in Callers, Refuse(g) PROVE TypeOK'
  BY <1>7 DEF Refuse, FlightFails, Errors
<1>8. ASSUME NEW g \in Callers, Store(g) PROVE TypeOK'
  BY <1>8 DEF Store, FlightYields, FlightFails, Errors
<1>9. ASSUME NEW g \in Callers, Land(g) PROVE TypeOK'
  BY <1>9 DEF Land
<1>10. ASSUME NEW g \in Callers, ReturnToken(g) \/ Send(g) \/ Accept(g) PROVE TypeOK'
  <2>1. ASSUME NEW r \in Outcomes, End(g, r) PROVE TypeOK'
    BY <1>10, <2>1, EndTyped DEF ReturnToken, Send, Accept
  <2>2. CASE Goto(g, "sent") /\ UNCHANGED <<tok, attempt, outcome, rejected>>
    BY <1>10, <2>2 DEF ReturnToken, Send, Accept
  <2>3. QED
    BY <1>10, <2>1, <2>2 DEF ReturnToken, Send, Accept
<1>11. ASSUME NEW g \in Callers, Reject(g) \/ OtherReply(g) PROVE TypeOK'
  <2>1. ASSUME NEW r \in Outcomes, End(g, r) PROVE TypeOK'
    BY <1>11, <2>1, EndTyped DEF Reject, OtherReply
  <2>2. CASE Goto(g, "invalidate") /\ rejected' = [rejected EXCEPT ![g] = tok[g]]
             /\ UNCHANGED <<tok, attempt, outcome>>
    BY <1>11, <2>2 DEF Reject, OtherReply
  <2>3. "unauthorized" \in Outcomes /\ Errors(g) \subseteq Outcomes
    BY DEF Errors
  <2>4. CASE Reject(g)
    BY <2>1, <2>2, <2>3, <2>4 DEF Reject
  <2>5. CASE OtherReply(g)
    BY <2>1, <2>3, <2>5 DEF OtherReply
  <2>6. QED
    BY <1>11, <2>4, <2>5
<1>12. ASSUME NEW g \in Callers, Invalidate(g) PROVE TypeOK'
  <2>1. {cached} \ {NoToken} \subseteq 1 .. issued
    OBVIOUS
  <2>2. cached' \in 0 .. issued /\ dropped' \subseteq 1 .. issued
    <3>1. CASE UNCHANGED <<cached, dropped>>
      BY <3>1
    <3>2. CASE cached' = NoToken /\ dropped' = dropped \cup ({cached} \ {NoToken})
      BY <2>1, <3>2
    <3>3. QED  BY <1>12, <3>1, <3>2 DEF Invalidate
  <2>3. QED
    BY <1>12, <2>2 DEF Invalidate
<1>13. CASE SetAccessToken
  BY <1>13 DEF SetAccessToken
<1>14. ASSUME NEW t \in Tokens, Age(t) \/ Revoke(t) PROVE TypeOK'
  BY <1>14 DEF Age, Revoke
<1>15. ASSUME NEW g \in Callers, Cancel(g) PROVE TypeOK'
  BY <1>15 DEF Cancel
<1>16. CASE UNCHANGED vars
  BY <1>16 DEF vars
<1>17. QED
  BY <1>1, <1>2, <1>3, <1>4, <1>5, <1>6, <1>7, <1>8, <1>9, <1>10, <1>11, <1>12,
<1>13, <1>14, <1>15, <1>16 DEF Next, Step

\* The singleflight invariants survive every step.
LEMMA FlightStep ==
    TypeOK /\ FlightLedBy /\ FollowersHaveLeader /\ [Next]_vars
        => FlightLedBy' /\ FollowersHaveLeader'
<1> SUFFICES ASSUME TypeOK, FlightLedBy, FollowersHaveLeader, [Next]_vars
             PROVE FlightLedBy' /\ FollowersHaveLeader'
  OBVIOUS
<1> USE NobodyAssumption DEF TypeOK, InFlight, Goto, FlightLedBy, FollowersHaveLeader
<1>1. ASSUME NEW g \in Callers, Begin(g) \/ Lookup(g) PROVE FlightLedBy' /\ FollowersHaveLeader'
  BY <1>1 DEF Begin, Lookup, End
<1>2. ASSUME NEW g \in Callers, Join(g) PROVE FlightLedBy' /\ FollowersHaveLeader'
  BY <1>2 DEF Join
<1>3. ASSUME NEW g \in Callers, Recheck(g) \/ Store(g) PROVE FlightLedBy' /\ FollowersHaveLeader'
  BY <1>3 DEF Recheck, Store, FlightYields, FlightFails
<1>4. ASSUME NEW g \in Callers, Issue(g) \/ IssueLost(g) \/ Refuse(g)
      PROVE FlightLedBy' /\ FollowersHaveLeader'
  BY <1>4 DEF Issue, IssueLost, Refuse, FlightFails
<1>5. ASSUME NEW g \in Callers, Land(g) PROVE FlightLedBy' /\ FollowersHaveLeader'
  BY <1>5 DEF Land
<1>6. ASSUME NEW g \in Callers, ReturnToken(g) \/ Send(g) \/ Accept(g)
      PROVE FlightLedBy' /\ FollowersHaveLeader'
  BY <1>6 DEF ReturnToken, Send, Accept, End
<1>7. ASSUME NEW g \in Callers, Reject(g) \/ OtherReply(g) \/ Invalidate(g)
      PROVE FlightLedBy' /\ FollowersHaveLeader'
  BY <1>7 DEF Reject, OtherReply, End, Invalidate
<1>8. CASE UNCHANGED <<pc, flight>>
  BY <1>8
<1>9. ASSUME NEW g \in Callers, Cancel(g) PROVE UNCHANGED <<pc, flight>>
  BY <1>9 DEF Cancel, callVars
<1>10. ASSUME NEW t \in Tokens, Age(t) \/ Revoke(t) PROVE UNCHANGED <<pc, flight>>
  BY <1>10 DEF Age, Revoke, callVars
<1>11. CASE SetAccessToken
  BY <1>8, <1>11 DEF SetAccessToken, callVars
<1>12. QED
  BY <1>1, <1>2, <1>3, <1>4, <1>5, <1>6, <1>7, <1>8, <1>9, <1>10, <1>11
  DEF Next, Step, vars

\* What a leader is about to store stays newer than what is stored: the
\* others change neither its token nor, but for seeding, the tokens issued.
LEMMA StoringStep ==
    TypeOK /\ FlightLedBy /\ StoringIsNewest /\ [Next]_vars => StoringIsNewest'
<1> SUFFICES ASSUME TypeOK, FlightLedBy, StoringIsNewest, [Next]_vars,
                    NEW h \in Callers, pc'[h] = "storing"
             PROVE  HoldsNewest(h)'
  BY DEF StoringIsNewest
<1>1. CASE Issue(h)
  BY <1>1 DEF Issue, TypeOK, HoldsNewest, Goto, storeVars
<1>2. ASSUME pc[h] = "storing", tok'[h] = tok[h], UNCHANGED <<issued, seeded>>,
             cached' \in {cached, NoToken}, dropped' \subseteq dropped \cup {cached}
      PROVE  HoldsNewest(h)'
  BY <1>2 DEF StoringIsNewest, HoldsNewest, TypeOK
<1> USE DEF TypeOK, Goto, storeVars, serverVars, worldVars, callVars
<1>3. ASSUME NEW g \in Callers, Begin(g) \/ Lookup(g) \/ Join(g) \/ Cancel(g)
      PROVE  HoldsNewest(h)'
  BY <1>2, <1>3 DEF Begin, Lookup, Join, Cancel, End
<1>4. ASSUME NEW g \in Callers,
             Recheck(g) \/ IssueLost(g) \/ Refuse(g) \/ Store(g) \/ Land(g) \/ Issue(g)
      PROVE  HoldsNewest(h)'
  <2>1. flight = g /\ pc[g] # "idle"
    BY <1>4 DEF FlightLedBy, InFlight, Recheck, IssueLost, Refuse, Store, Land, Issue
  <2>2. CASE g = h
    BY <1>1, <1>4, <2>2 DEF Recheck, IssueLost, Refuse, Store, Land, FlightYields, FlightFails
  <2>3. CASE g # h
    <3>1. pc'[h] # pc[h]
      BY <2>1, <2>3 DEF FlightLedBy, InFlight
    <3>2. QED
      BY <1>4, <2>3, <3>1
      DEF Recheck, IssueLost, Refuse, Store, Land, Issue, FlightYields, FlightFails
  <2>4. QED  BY <2>2, <2>3
<1>5. ASSUME NEW g \in Callers, ReturnToken(g) \/ Send(g) \/ Accept(g) PROVE HoldsNewest(h)'
  BY <1>2, <1>5 DEF ReturnToken, Send, Accept, End
<1>6. ASSUME NEW g \in Callers, Reject(g) \/ OtherReply(g) PROVE HoldsNewest(h)'
  BY <1>2, <1>6 DEF Reject, OtherReply, End
<1>7. ASSUME NEW g \in Callers, Invalidate(g) PROVE HoldsNewest(h)'
  BY <1>2, <1>7 DEF Invalidate
<1>8. CASE SetAccessToken
  BY <1>8 DEF SetAccessToken, StoringIsNewest, HoldsNewest
<1>9. ASSUME NEW t \in Tokens, Age(t) \/ Revoke(t) PROVE HoldsNewest(h)'
  BY <1>2, <1>9 DEF Age, Revoke
<1>10. CASE UNCHANGED vars
  BY <1>2, <1>10 DEF vars
<1>11. QED
  BY <1>3, <1>4, <1>5, <1>6, <1>7, <1>8, <1>9, <1>10 DEF Next, Step

\* The re-check holds until the fetched token is stored: nobody but the leader
\* and SetAccessToken puts a token into the storage.
LEMMA StampedeStep ==
    TypeOK /\ FlightLedBy /\ NoStampede /\ [Next]_vars => NoStampede'
<1> SUFFICES ASSUME TypeOK, FlightLedBy, NoStampede, [Next]_vars,
                    NEW h \in Callers, pc'[h] \in {"asking", "storing"}
             PROVE  (~Usable(cached) \/ cached \in seeded)'
  BY DEF NoStampede
<1>1. ASSUME pc[h] \in {"asking", "storing"}, cached' \in {cached, NoToken},
             aged \subseteq aged', seeded \subseteq seeded'
      PROVE  (~Usable(cached) \/ cached \in seeded)'
  BY <1>1 DEF NoStampede, Usable
<1> USE DEF TypeOK, Goto, storeVars, serverVars, worldVars, callVars
<1>2. ASSUME NEW g \in Callers, Begin(g) \/ Lookup(g) \/ Join(g) \/ Cancel(g)
      PROVE  (~Usable(cached) \/ cached \in seeded)'
  BY <1>1, <1>2 DEF Begin, Lookup, Join, Cancel, End
<1>3. ASSUME NEW g \in Callers,
             Recheck(g) \/ IssueLost(g) \/ Refuse(g) \/ Store(g) \/ Land(g) \/ Issue(g)
      PROVE  (~Usable(cached) \/ cached \in seeded)'
  <2>1. flight = g
    BY <1>3 DEF FlightLedBy, InFlight, Recheck, IssueLost, Refuse, Store, Land, Issue
  <2>2. CASE g = h
    BY <1>1, <1>3, <2>2 DEF Recheck, IssueLost, Refuse, Store, Land, Issue,
          FlightYields, FlightFails, Usable
  <2>3. CASE g # h
    <3>1. pc'[h] # pc[h]
      BY <2>1, <2>3 DEF FlightLedBy, InFlight
    <3>2. QED
      BY <1>3, <2>3, <3>1
      DEF Recheck, IssueLost, Refuse, Store, Land, Issue, FlightYields, FlightFails
  <2>4. QED  BY <2>2, <2>3
<1>4. ASSUME NEW g \in Callers, ReturnToken(g) \/ Send(g) \/ Accept(g)
      PROVE  (~Usable(cached) \/ cached \in seeded)'
  BY <1>1, <1>4 DEF ReturnToken, Send, Accept, End
<1>5. ASSUME NEW g \in Callers, Reject(g) \/ OtherReply(g) \/ Invalidate(g)
      PROVE  (~Usable(cached) \/ cached \in seeded)'
  BY <1>1, <1>5 DEF Reject, OtherReply, End, Invalidate
<1>6. CASE SetAccessToken
  BY <1>1, <1>6 DEF SetAccessToken
<1>7. ASSUME NEW t \in Tokens, Age(t) \/ Revoke(t)
      PROVE  (~Usable(cached) \/ cached \in seeded)'
  BY <1>1, <1>7 DEF Age, Revoke
<1>8. CASE UNCHANGED vars
  BY <1>1, <1>8 DEF vars
<1>9. QED
  BY <1>2, <1>3, <1>4, <1>5, <1>6, <1>7, <1>8 DEF Next, Step

\* Only Store and SetAccessToken put a token into the storage, and it is one
\* that was never dropped.
LEMMA DroppedStep ==
    TypeOK /\ StoringIsNewest /\ DroppedStaysDropped /\ [Next]_vars => DroppedStaysDropped'
<1> SUFFICES ASSUME TypeOK, StoringIsNewest, DroppedStaysDropped, [Next]_vars
             PROVE  DroppedStaysDropped'
  OBVIOUS
<1> USE DEF TypeOK, storeVars, serverVars, callVars, DroppedStaysDropped
<1>1. CASE UNCHANGED <<cached, dropped>>
  BY <1>1
<1>2. ASSUME NEW g \in Callers, Store(g) PROVE DroppedStaysDropped'
  BY <1>2 DEF Store, StoringIsNewest, HoldsNewest
<1>3. ASSUME NEW g \in Callers, Invalidate(g) PROVE DroppedStaysDropped'
  BY <1>3 DEF Invalidate
<1>4. CASE SetAccessToken
  BY <1>4 DEF SetAccessToken
<1>5. ASSUME NEW g \in Callers, Step(g), ~Store(g), ~Invalidate(g)
      PROVE  UNCHANGED <<cached, dropped>>
  BY <1>5 DEF Step, Lookup, Join, Recheck, Issue, IssueLost, Refuse, Land,
        ReturnToken, Send, Accept, Reject, OtherReply
<1>6. QED
  BY <1>1, <1>2, <1>3, <1>4, <1>5 DEF Next, Begin, Cancel, Age, Revoke, vars

LEMMA InvStep == IInv /\ [Next]_vars => IInv'
  BY TypeStep, FlightStep, StoringStep, StampedeStep, DroppedStep DEF IInv

\* The inductive invariant holds in every reachable state.
LEMMA Invariance == Spec => []IInv
<1>1. QED  BY InitInv, InvStep, PTL DEF Spec

-----------------------------------------------------------------------------
\* Every variable keeps its type, whatever the steps of the goroutines.
THEOREM TypeCorrect == Spec => []TypeOK
<1>1. IInv => TypeOK
  BY DEF IInv
<1>2. QED  BY Invariance, <1>1, PTL

\* At most one goroutine is in the token fetch.
THEOREM OneFetchAtATime == Spec => []SingleFetch
<1>1. IInv => SingleFetch
  BY DEF IInv, FlightLedBy, SingleFetch
<1>2. QED  BY Invariance, <1>1, PTL

\* Nobody asks for a token beside a usable one, but for a seeded one.
THEOREM FetchesOnlyWhenNeeded == Spec => []NoStampede
<1>1. IInv => NoStampede
  BY DEF IInv
<1>2. QED  BY Invariance, <1>1, PTL

\* A token dropped after a 401 never comes back.
THEOREM DroppedNeverReturns == Spec => []DroppedStaysDropped
<1>1. IInv => DroppedStaysDropped
  BY DEF IInv
<1>2. QED  BY Invariance, <1>1, PTL

\* A token only ever replaces older ones, but for seeded ones.
THEOREM StorageAdvances == Spec => CacheAdvances
<1> DEFINE Advances == cached' \notin {cached, NoToken} =>
                 \A t \in dropped \cup {cached} : t > cached' => t \in seeded
<1>1. IInv /\ [Next]_vars => [Advances]_vars
  <2> SUFFICES ASSUME IInv, Next PROVE Advances
    OBVIOUS
  <2> USE DEF IInv, TypeOK, storeVars, worldVars, callVars, serverVars
  <2>1. CASE UNCHANGED cached
    BY <2>1
  <2>2. ASSUME NEW g \in Callers, Store(g) PROVE Advances
    <3>1. cached' \in {cached, tok[g]} /\ HoldsNewest(g)
      BY <2>2 DEF Store, StoringIsNewest
    <3>2. QED
      BY <3>1 DEF HoldsNewest
  <2>3. ASSUME NEW g \in Callers, Invalidate(g) PROVE Advances
    BY <2>3 DEF Invalidate
  <2>4. CASE SetAccessToken
    BY <2>4 DEF SetAccessToken
  <2>5. ASSUME NEW g \in Callers, Step(g), ~Store(g), ~Invalidate(g) PROVE UNCHANGED cached
    BY <2>5 DEF Step, Lookup, Join, Recheck, Issue, IssueLost, Refuse, Land,
          ReturnToken, Send, Accept, Reject, OtherReply
  <2>6. QED
    BY <2>1, <2>2, <2>3, <2>4, <2>5 DEF Next, Begin, Cancel, Age, Revoke
<1>2. QED  BY Invariance, <1>1, PTL DEF Spec, CacheAdvances

-----------------------------------------------------------------------------
\* The goroutines' steps are steps of one singleflight key or leave it alone
\* (the safety part of ImplementsSingleFlight, without its fairness).
THEOREM FetchesAreSingleFlight == Spec => SF!Init /\ [][SF!Next]_Role
<1> DEFINE Effect == \/ UNCHANGED Role
                     \/ \E c \in Callers : SF!Lead(c) \/ SF!Follow(c) \/ SF!Return(c)
<1>1. Init => SF!Init
  BY DEF Init, SF!Init, SF!Outside, Role, InFlight
<1>2. IInv /\ [Next]_vars => [SF!Next]_Role
  <2> SUFFICES ASSUME IInv, [Next]_vars PROVE Effect
    BY DEF SF!Next
  <2> USE DEF IInv, TypeOK, FlightLedBy, InFlight, Goto
  <2>1. ASSUME NEW g \in Callers, Join(g) PROVE Effect
    <3>1. CASE flight = Nobody
      <4>1. \A d \in Callers : Role[d] = "outside"
        BY <3>1, NobodyAssumption DEF Role, FollowersHaveLeader
      <4>2. Role' = [Role EXCEPT ![g] = "leader"]
        BY <2>1, <3>1 DEF Join, Role
      <4>3. SF!Lead(g)
        BY <4>1, <4>2 DEF SF!Lead, SF!Outside, SF!Leader
      <4>4. QED  BY <4>3
    <3>2. CASE flight # Nobody
      <4>1. Role[g] = "outside" /\ Role[flight] = "leader" /\ flight \in Callers
        BY <2>1, <3>2 DEF Join, Role
      <4>2. Role' = [Role EXCEPT ![g] = "follower"]
        BY <2>1, <3>2 DEF Join, Role
      <4>3. SF!Follow(g)
        BY <4>1, <4>2 DEF SF!Follow, SF!Outside, SF!Leader, SF!Follower
      <4>4. QED  BY <4>3
    <3>3. QED  BY <3>1, <3>2
  <2>2. ASSUME NEW g \in Callers, Land(g) PROVE Effect
    <3>1. Role[g] = "leader"
      BY <2>2 DEF Land, Role
    <3>2. \A d \in Callers : d # g => pc[d] \notin InFlight
      BY <2>2 DEF Land
    <3>3. Role' = [d \in Callers |-> "outside"]
      BY <2>2, <3>2 DEF Land, Role
    <3>4. SF!Return(g)
      BY <3>1, <3>3 DEF SF!Return, SF!Leader, SF!Outside
    <3>5. QED  BY <3>4
  <2>3. CASE UNCHANGED pc
    BY <2>3 DEF Role
  <2>4. ASSUME NEW g \in Callers, Begin(g) \/ Lookup(g) PROVE Effect
    BY <2>4 DEF Begin, Lookup, End, Role
  <2>5. ASSUME NEW g \in Callers, Recheck(g) \/ Store(g) PROVE Effect
    BY <2>5 DEF Recheck, Store, FlightYields, FlightFails, Role
  <2>6. ASSUME NEW g \in Callers, Issue(g) \/ IssueLost(g) \/ Refuse(g) PROVE Effect
    BY <2>6 DEF Issue, IssueLost, Refuse, FlightFails, Role
  <2>7. ASSUME NEW g \in Callers, ReturnToken(g) \/ Send(g) \/ Accept(g) PROVE Effect
    BY <2>7 DEF ReturnToken, Send, Accept, End, Role
  <2>8. ASSUME NEW g \in Callers, Reject(g) \/ OtherReply(g) \/ Invalidate(g) PROVE Effect
    BY <2>8 DEF Reject, OtherReply, Invalidate, End, Role
  <2>9. ASSUME NEW g \in Callers, Cancel(g) PROVE UNCHANGED pc
    BY <2>9 DEF Cancel, callVars
  <2>10. ASSUME SetAccessToken \/ \E t \in Tokens : Age(t) \/ Revoke(t)
         PROVE  UNCHANGED pc
    BY <2>10 DEF SetAccessToken, Age, Revoke, callVars
  <2>11. QED
    BY <2>1, <2>2, <2>3, <2>4, <2>5, <2>6, <2>7, <2>8, <2>9, <2>10 DEF Next, Step, vars
<1>3. QED  BY Invariance, <1>1, <1>2, PTL DEF Spec

-----------------------------------------------------------------------------
(***************************************************************************)
(* The retry after a 401.  What keeps the rejected token from coming back  *)
(* out of the storage is that a token being fetched is known to its leader *)
(* alone (FetchedIsPrivate), so nobody can have been rejected with it.     *)
(***************************************************************************)

\* A goroutine that saw a 401 remembers a token the endpoint has issued.
RejectedIsIssued ==
    \A g \in Callers : attempt[g] = 2 \/ pc[g] = "invalidate" => rejected[g] \in 1 .. issued

\* Nobody but its leader holds, or was rejected with, a token about to be stored.
FetchedIsPrivate ==
    \A h \in Callers : pc[h] = "storing" =>
        \A g \in Callers : (g # h => tok[g] # tok[h]) /\ rejected[g] # tok[h]

\* A storage that deletes what it is told to does not hold a token again that
\* the retry of a request under way was rejected with.
RejectedIsGone ==
    ~MayFail => \A g \in Callers : attempt[g] = 2 => rejected[g] # cached

\* Only a leader whose own context is done carries a context error.
CanceledIsDone ==
    \A g \in Callers : pc[g] # "idle" /\ outcome[g] = "canceled" => g \in canceled

RetryInv == RejectedIsIssued /\ FetchedIsPrivate /\ RejectedIsGone

LEMMA RetryInit == Init => RetryInv /\ CanceledIsDone
  BY DEF Init, RetryInv, RejectedIsIssued, FetchedIsPrivate, RejectedIsGone, CanceledIsDone

LEMMA RejectedStep ==
    TypeOK /\ FlightLedBy /\ RejectedIsIssued /\ [Next]_vars => RejectedIsIssued'
<1> SUFFICES ASSUME TypeOK, FlightLedBy, RejectedIsIssued, [Next]_vars,
                    NEW h \in Callers, attempt'[h] = 2 \/ pc'[h] = "invalidate"
             PROVE  rejected'[h] \in 1 .. issued'
  BY DEF RejectedIsIssued
<1>1. ASSUME attempt[h] = 2 \/ pc[h] = "invalidate", rejected'[h] = rejected[h],
             issued' \in {issued, issued + 1}
      PROVE  rejected'[h] \in 1 .. issued'
  BY <1>1 DEF RejectedIsIssued, TypeOK
<1> USE DEF TypeOK, Goto, storeVars, serverVars, worldVars, callVars
<1>2. ASSUME NEW g \in Callers, Begin(g) \/ Join(g) \/ Cancel(g)
      PROVE  rejected'[h] \in 1 .. issued'
  BY <1>1, <1>2 DEF Begin, Join, Cancel
<1>3. ASSUME NEW g \in Callers, Lookup(g) \/ Recheck(g) PROVE rejected'[h] \in 1 .. issued'
  BY <1>1, <1>3 DEF Lookup, Recheck, End, FlightYields, FlightFails
<1>4. ASSUME NEW g \in Callers, Issue(g) \/ IssueLost(g) \/ Refuse(g) \/ Store(g)
      PROVE  rejected'[h] \in 1 .. issued'
  BY <1>1, <1>4 DEF Issue, IssueLost, Refuse, Store, FlightYields, FlightFails
<1>5. ASSUME NEW g \in Callers, Land(g) PROVE rejected'[h] \in 1 .. issued'
  BY <1>1, <1>5 DEF Land
<1>6. ASSUME NEW g \in Callers, ReturnToken(g) \/ Send(g) \/ Accept(g) \/ OtherReply(g)
      PROVE  rejected'[h] \in 1 .. issued'
  BY <1>1, <1>6 DEF ReturnToken, Send, Accept, OtherReply, End
<1>7. ASSUME NEW g \in Callers, Reject(g) PROVE rejected'[h] \in 1 .. issued'
  BY <1>1, <1>7 DEF Reject, End
<1>8. ASSUME NEW g \in Callers, Invalidate(g) PROVE rejected'[h] \in 1 .. issued'
  BY <1>1, <1>8 DEF Invalidate
<1>9. CASE SetAccessToken
  BY <1>1, <1>9 DEF SetAccessToken
<1>10. ASSUME NEW t \in Tokens, Age(t) \/ Revoke(t) PROVE rejected'[h] \in 1 .. issued'
  BY <1>1, <1>10 DEF Age, Revoke
<1>11. CASE UNCHANGED vars
  BY <1>1, <1>11 DEF vars
<1>12. QED
  BY <1>2, <1>3, <1>4, <1>5, <1>6, <1>7, <1>8, <1>9, <1>10, <1>11 DEF Next, Step

\* While h stores its token, the others take theirs from the storage.
LEMMA PrivateStep ==
    TypeOK /\ FlightLedBy /\ StoringIsNewest /\ FetchedIsPrivate /\ [Next]_vars
        => FetchedIsPrivate'
<1> SUFFICES ASSUME TypeOK, FlightLedBy, StoringIsNewest, FetchedIsPrivate, [Next]_vars,
                    NEW h \in Callers, pc'[h] = "storing", NEW f \in Callers
             PROVE  (f # h => tok'[f] # tok'[h]) /\ rejected'[f] # tok'[h]
  BY DEF FetchedIsPrivate
<1> DEFINE Goal == (f # h => tok'[f] # tok'[h]) /\ rejected'[f] # tok'[h]
<1>1. CASE Issue(h)
  BY <1>1 DEF Issue, TypeOK, Goto
<1>2. ASSUME pc[h] = "storing", tok'[h] = tok[h],
             f # h => tok'[f] \in {tok[f], cached, NoToken},
             rejected'[f] \in {rejected[f], NoToken} \/ (f # h /\ rejected'[f] = tok[f])
      PROVE  Goal
  BY <1>2 DEF FetchedIsPrivate, StoringIsNewest, HoldsNewest, TypeOK
<1> USE DEF TypeOK, Goto, storeVars, serverVars, worldVars, callVars
<1>3. ASSUME NEW g \in Callers, Begin(g) \/ Lookup(g) \/ Join(g) \/ Cancel(g) PROVE Goal
  BY <1>2, <1>3 DEF Begin, Lookup, Join, Cancel, End
<1>4. ASSUME NEW g \in Callers,
             Recheck(g) \/ IssueLost(g) \/ Refuse(g) \/ Store(g) \/ Land(g) \/ Issue(g)
      PROVE  Goal
  <2>1. flight = g /\ pc[g] # "idle"
    BY <1>4 DEF FlightLedBy, InFlight, Recheck, IssueLost, Refuse, Store, Land, Issue
  <2>2. CASE g = h
    BY <1>1, <1>4, <2>2 DEF Recheck, IssueLost, Refuse, Store, Land, FlightYields, FlightFails
  <2>3. CASE g # h
    <3>1. pc'[h] # pc[h]
      BY <2>1, <2>3 DEF FlightLedBy, InFlight
    <3>2. QED
      BY <1>4, <2>3, <3>1
      DEF Recheck, IssueLost, Refuse, Store, Land, Issue, FlightYields, FlightFails
  <2>4. QED  BY <2>2, <2>3
<1>5. ASSUME NEW g \in Callers, ReturnToken(g) \/ Send(g) \/ Accept(g) \/ OtherReply(g) PROVE Goal
  BY <1>2, <1>5 DEF ReturnToken, Send, Accept, OtherReply, End
<1>6. ASSUME NEW g \in Callers, Reject(g) PROVE Goal
  BY <1>2, <1>6 DEF Reject, End
<1>7. ASSUME NEW g \in Callers, Invalidate(g) PROVE Goal
  BY <1>2, <1>7 DEF Invalidate
<1>8. CASE SetAccessToken
  BY <1>2, <1>8 DEF SetAccessToken
<1>9. ASSUME NEW t \in Tokens, Age(t) \/ Revoke(t) PROVE Goal
  BY <1>2, <1>9 DEF Age, Revoke
<1>10. CASE UNCHANGED vars
  BY <1>2, <1>10 DEF vars
<1>11. QED
  BY <1>3, <1>4, <1>5, <1>6, <1>7, <1>8, <1>9, <1>10 DEF Next, Step

\* Only Store and SetAccessToken fill the storage, with tokens no retry knows.
LEMMA GoneStep ==
    TypeOK /\ RejectedIsIssued /\ FetchedIsPrivate /\ RejectedIsGone /\ [Next]_vars
        => RejectedIsGone'
<1> SUFFICES ASSUME TypeOK, RejectedIsIssued, FetchedIsPrivate, RejectedIsGone, [Next]_vars,
                    ~MayFail', NEW h \in Callers, attempt'[h] = 2
             PROVE  rejected'[h] # cached'
  BY DEF RejectedIsGone
<1>1. ~MayFail /\ UNCHANGED storage
  BY DEF Next, vars, Step, MayFail, worldVars, Begin, Lookup, Join, Recheck, Issue, IssueLost,
         Refuse, Store, Land, ReturnToken, Send, Accept, Reject, OtherReply, Invalidate,
         SetAccessToken, Age, Revoke, Cancel
<1>2. ASSUME attempt[h] = 2, rejected'[h] = rejected[h], UNCHANGED cached
      PROVE  rejected'[h] # cached'
  BY <1>1, <1>2 DEF RejectedIsGone
<1> USE DEF TypeOK, Goto, storeVars, serverVars, worldVars, callVars
<1>3. ASSUME NEW g \in Callers, Begin(g) \/ Join(g) \/ Cancel(g) \/ Lookup(g) \/ Recheck(g)
      PROVE  rejected'[h] # cached'
  BY <1>2, <1>3 DEF Begin, Join, Cancel, Lookup, Recheck, End, FlightYields, FlightFails
<1>4. ASSUME NEW g \in Callers, Issue(g) \/ IssueLost(g) \/ Refuse(g) PROVE rejected'[h] # cached'
  BY <1>2, <1>4 DEF Issue, IssueLost, Refuse, FlightFails
<1>5. ASSUME NEW g \in Callers, Store(g) PROVE rejected'[h] # cached'
  <2>1. attempt[h] = 2 /\ rejected'[h] = rejected[h] /\ rejected[h] # tok[g]
    BY <1>5 DEF Store, FlightYields, FlightFails, FetchedIsPrivate
  <2>2. QED  BY <1>1, <1>2, <1>5, <2>1 DEF Store, RejectedIsGone
<1>6. ASSUME NEW g \in Callers, Land(g) PROVE rejected'[h] # cached'
  BY <1>2, <1>6 DEF Land
<1>7. ASSUME NEW g \in Callers, ReturnToken(g) \/ Send(g) \/ Accept(g) \/ Reject(g) \/ OtherReply(g)
      PROVE  rejected'[h] # cached'
  BY <1>2, <1>7 DEF ReturnToken, Send, Accept, Reject, OtherReply, End
<1>8. ASSUME NEW g \in Callers, Invalidate(g) PROVE rejected'[h] # cached'
  <2>1. cached' = NoToken /\ rejected'[h] = rejected[h]
    BY <1>1, <1>8 DEF Invalidate
  <2>2. rejected[h] \in 1 .. issued
    BY <1>8 DEF Invalidate, RejectedIsIssued
  <2>3. QED  BY <2>1, <2>2
<1>9. CASE SetAccessToken
  <2>1. rejected'[h] = rejected[h] /\ rejected[h] \in 1 .. issued
    BY <1>9 DEF SetAccessToken, RejectedIsIssued
  <2>2. QED  BY <1>2, <1>9, <2>1 DEF SetAccessToken
<1>10. ASSUME NEW t \in Tokens, Age(t) \/ Revoke(t) PROVE rejected'[h] # cached'
  BY <1>2, <1>10 DEF Age, Revoke
<1>11. CASE UNCHANGED vars
  BY <1>2, <1>11 DEF vars
<1>12. QED
  BY <1>3, <1>4, <1>5, <1>6, <1>7, <1>8, <1>9, <1>10, <1>11 DEF Next, Step

\* RetryInv holds in every reachable state.
LEMMA RetryInvariance == Spec => []RetryInv
<1>1. IInv /\ RetryInv /\ [Next]_vars => RetryInv'
  BY RejectedStep, PrivateStep, GoneStep DEF IInv, RetryInv
<1>2. QED  BY Invariance, RetryInit, <1>1, PTL DEF Spec

\* The retry meets the rejected token again only as a follower of a flight that
\* found it before it was deleted, or where the storage fails to delete.
THEOREM RetryRepeats == Spec => RetryRepeatsOnlyAsFollower
<1> DEFINE OnlyAsFollower == \A g \in Callers : RejectedAgain(g) => pc[g] = "waiting" \/ MayFail
<1>1. IInv /\ RetryInv /\ [Next]_vars => [OnlyAsFollower]_vars
  <2> SUFFICES ASSUME IInv, RetryInv, Next, NEW h \in Callers, RejectedAgain(h), ~MayFail
               PROVE  pc[h] = "waiting"
    BY DEF OnlyAsFollower
  <2>1. tok'[h] \notin {tok[h], cached, NoToken} /\ tok'[h] \in 1 .. issued
    BY DEF RetryInv, RejectedIsIssued, RejectedIsGone, RejectedAgain
  <2> USE DEF IInv, TypeOK, Goto, storeVars, serverVars, worldVars, callVars
  <2>2. ASSUME NEW g \in Callers, Land(g) PROVE pc[h] = "waiting"
    BY <2>1, <2>2 DEF Land
  <2>3. ASSUME NEW g \in Callers, Issue(g) \/ IssueLost(g) \/ Refuse(g) PROVE FALSE
    BY <2>1, <2>3 DEF Issue, IssueLost, Refuse, FlightFails
  <2>4. ASSUME NEW g \in Callers, Lookup(g) \/ Join(g) \/ Recheck(g) \/ Store(g) PROVE FALSE
    BY <2>1, <2>4 DEF Lookup, Join, Recheck, Store, End, FlightYields, FlightFails
  <2>5. ASSUME NEW g \in Callers, ReturnToken(g) \/ Send(g) \/ Accept(g) \/ OtherReply(g) PROVE FALSE
    BY <2>1, <2>5 DEF ReturnToken, Send, Accept, OtherReply, End
  <2>6. ASSUME NEW g \in Callers, Reject(g) \/ Invalidate(g) PROVE FALSE
    BY <2>1, <2>6 DEF Reject, Invalidate, End
  <2>7. ASSUME UNCHANGED tok PROVE FALSE
    BY <2>1, <2>7
  <2>8. QED
    BY <2>2, <2>3, <2>4, <2>5, <2>6, <2>7 DEF Next, Step, Begin, Cancel, SetAccessToken, Age, Revoke
<1>2. QED  BY Invariance, RetryInvariance, <1>1, PTL DEF Spec, RetryRepeatsOnlyAsFollower

-----------------------------------------------------------------------------
(***************************************************************************)
(* Whose context ends a call.  OwnContextOnly is refuted by the run        *)
(* token_context; this is what holds in its place.                         *)
(***************************************************************************)

\* A call ends with a context error only if its own context is done, or if it
\* waited for a flight whose leader's context is done.
CanceledByContext ==
    [][\A g \in Callers : outcome'[g] = "canceled" /\ outcome[g] # "canceled" =>
          g \in canceled \/ (pc[g] = "waiting" /\ flight \in canceled)]_vars

LEMMA CanceledStep == TypeOK /\ CanceledIsDone /\ [Next]_vars => CanceledIsDone'
<1> SUFFICES ASSUME TypeOK, CanceledIsDone, [Next]_vars,
                    NEW h \in Callers, pc'[h] # "idle", outcome'[h] = "canceled"
             PROVE  h \in canceled'
  BY DEF CanceledIsDone
<1>1. ASSUME pc[h] # "idle", outcome[h] = "canceled", canceled \subseteq canceled'
      PROVE  h \in canceled'
  BY <1>1 DEF CanceledIsDone
<1>2. ASSUME h \in canceled, UNCHANGED canceled PROVE h \in canceled'
  BY <1>2
<1> USE DEF TypeOK, Goto, storeVars, serverVars, worldVars, callVars
<1>3. ASSUME NEW g \in Callers, Join(g) \/ Cancel(g) \/ Lookup(g) PROVE h \in canceled'
  BY <1>1, <1>3 DEF Join, Cancel, Lookup, End
<1>11. ASSUME NEW g \in Callers, Begin(g) PROVE h \in canceled'
  BY <1>11 DEF Begin, CanceledIsDone
<1>4. ASSUME NEW g \in Callers, Recheck(g) \/ Issue(g) \/ IssueLost(g) \/ Refuse(g) \/ Store(g)
      PROVE  h \in canceled'
  BY <1>1, <1>2, <1>4 DEF Recheck, Issue, IssueLost, Refuse, Store, FlightYields, FlightFails, Errors
<1>5. ASSUME NEW g \in Callers, Land(g) PROVE h \in canceled'
  BY <1>1, <1>5 DEF Land
<1>6. ASSUME NEW g \in Callers, ReturnToken(g) \/ Send(g) \/ Accept(g) \/ Reject(g) \/ OtherReply(g)
      PROVE  h \in canceled'
  BY <1>1, <1>6 DEF ReturnToken, Send, Accept, Reject, OtherReply, End
<1>7. ASSUME NEW g \in Callers, Invalidate(g) PROVE h \in canceled'
  BY <1>1, <1>7 DEF Invalidate
<1>8. CASE SetAccessToken \/ \E t \in Tokens : Age(t) \/ Revoke(t)
  BY <1>1, <1>8 DEF SetAccessToken, Age, Revoke
<1>9. CASE UNCHANGED vars
  BY <1>1, <1>9 DEF vars
<1>10. QED
  BY <1>3, <1>4, <1>5, <1>6, <1>7, <1>8, <1>9, <1>11 DEF Next, Step

\* A context error comes from the caller's own context or from its leader's.
THEOREM ContextErrorsHaveOwner == Spec => CanceledByContext
<1> DEFINE Owner(g) == g \in canceled \/ (pc[g] = "waiting" /\ flight \in canceled)
           Owned == \A g \in Callers :
                        outcome'[g] = "canceled" /\ outcome[g] # "canceled" => Owner(g)
<1>1. IInv /\ CanceledIsDone /\ [Next]_vars => [Owned]_vars
  <2> SUFFICES ASSUME IInv, CanceledIsDone, Next,
                      NEW h \in Callers, outcome'[h] = "canceled", outcome[h] # "canceled"
               PROVE  Owner(h)
    BY DEF Owned
  <2> USE DEF IInv, TypeOK, Goto, storeVars, serverVars, worldVars, callVars
  <2>1. ASSUME NEW g \in Callers, Land(g) PROVE Owner(h)
    <3>1. flight = g /\ pc[g] # "idle"
      BY <2>1 DEF Land, FlightLedBy, InFlight
    <3>2. outcome[g] = "canceled" /\ h # g /\ pc[h] = "waiting"
      BY <2>1 DEF Land
    <3>3. QED  BY <3>1, <3>2 DEF CanceledIsDone
  <2>2. ASSUME NEW g \in Callers, Lookup(g) \/ Recheck(g) \/ Store(g) PROVE Owner(h)
    BY <2>2 DEF Lookup, Recheck, Store, End, FlightFails, FlightYields, Errors
  <2>3. ASSUME NEW g \in Callers, Issue(g) \/ IssueLost(g) \/ Refuse(g) PROVE Owner(h)
    BY <2>3 DEF Issue, IssueLost, Refuse, FlightFails, Errors
  <2>4. ASSUME NEW g \in Callers, Begin(g) \/ ReturnToken(g) \/ Send(g) \/ Accept(g) PROVE FALSE
    BY <2>4 DEF Begin, ReturnToken, Send, Accept, End
  <2>5. ASSUME NEW g \in Callers, Reject(g) \/ OtherReply(g) PROVE Owner(h)
    BY <2>5 DEF Reject, OtherReply, End, Errors
  <2>6. CASE UNCHANGED outcome
    BY <2>6
  <2>7. QED
    BY <2>1, <2>2, <2>3, <2>4, <2>5, <2>6
    DEF Next, Step, Join, Invalidate, Cancel, SetAccessToken, Age, Revoke
<1>2. Spec => []CanceledIsDone
  <2>1. IInv /\ CanceledIsDone /\ [Next]_vars => CanceledIsDone'
    BY CanceledStep DEF IInv
  <2>2. QED  BY Invariance, RetryInit, <2>1, PTL DEF Spec
<1>3. QED  BY Invariance, <1>1, <1>2, PTL DEF Spec, CanceledByContext

-----------------------------------------------------------------------------
(***************************************************************************)
(* Why calls return: every step of a call brings it nearer to its end,     *)
(* nothing else moves it away from there, and whoever waits has a leader   *)
(* with steps of its own.  EveryCallReturns follows from these with the    *)
(* fairness of Step, which TLC checks.                                     *)
(***************************************************************************)

\* More than the number of steps a call has left, once retried or not.
StepsAhead ==
    [idle |-> 0, lookup |-> 9, join |-> 8, recheck |-> 7, asking |-> 6, storing |-> 5,
     landing |-> 4, waiting |-> 4, ready |-> 3, sent |-> 2, invalidate |-> 1]

Rank(g) ==
    IF pc[g] = "idle" THEN 0 ELSE StepsAhead[pc[g]] + (IF attempt[g] = 1 THEN 9 ELSE 0)

\* A step of g's call lowers its rank, and no other step of the system raises
\* the rank of a call under way: no retry, wake-up or failure restarts a call.
CallsAdvance ==
    [][\A g \in Callers : /\ Step(g) => Rank(g)' < Rank(g)
                          /\ pc[g] # "idle" => Rank(g)' <= Rank(g)]_vars

\* Whoever waits, waits for a goroutine inside the singleflight function.
NobodyStranded == \A g \in Callers : pc[g] = "waiting" => \E h \in Callers : pc[h] \in InFlight

\* No step leaves a follower behind without a leader.
THEOREM FollowersAreLed == Spec => []NobodyStranded
<1>1. IInv => NobodyStranded
  BY DEF IInv, TypeOK, FlightLedBy, FollowersHaveLeader, NobodyStranded
<1>2. QED  BY Invariance, <1>1, PTL

\* Only a first attempt leads to invalidateToken.
RetriedOnce == \A g \in Callers : pc[g] = "invalidate" => attempt[g] = 1

LEMMA RetriedOnceStep == TypeOK /\ RetriedOnce /\ [Next]_vars => RetriedOnce'
<1> SUFFICES ASSUME TypeOK, RetriedOnce, [Next]_vars, NEW h \in Callers, pc'[h] = "invalidate"
             PROVE  attempt'[h] = 1
  BY DEF RetriedOnce
<1> USE DEF TypeOK, Goto, RetriedOnce, callVars
<1>1. ASSUME NEW g \in Callers, Begin(g) \/ Lookup(g) \/ Join(g) \/ Cancel(g) PROVE attempt'[h] = 1
  BY <1>1 DEF Begin, Lookup, Join, Cancel, End
<1>2. ASSUME NEW g \in Callers, Recheck(g) \/ Issue(g) \/ IssueLost(g) \/ Refuse(g) \/ Store(g)
      PROVE  attempt'[h] = 1
  BY <1>2 DEF Recheck, Issue, IssueLost, Refuse, Store, FlightYields, FlightFails
<1>3. ASSUME NEW g \in Callers, Land(g) PROVE attempt'[h] = 1
  BY <1>3 DEF Land
<1>4. ASSUME NEW g \in Callers, ReturnToken(g) \/ Send(g) \/ Accept(g) \/ OtherReply(g)
      PROVE  attempt'[h] = 1
  BY <1>4 DEF ReturnToken, Send, Accept, OtherReply, End
<1>5. ASSUME NEW g \in Callers, Reject(g) \/ Invalidate(g) PROVE attempt'[h] = 1
  BY <1>5 DEF Reject, Invalidate, End
<1>6. CASE UNCHANGED vars \/ SetAccessToken \/ \E t \in Tokens : Age(t) \/ Revoke(t)
  BY <1>6 DEF vars, SetAccessToken, Age, Revoke
<1>7. QED
  BY <1>1, <1>2, <1>3, <1>4, <1>5, <1>6 DEF Next, Step

\* What a step of g does to g's own rank.
LEMMA OwnRankFalls ==
    ASSUME TypeOK, RetriedOnce, NEW g \in Callers, Step(g)
    PROVE  Rank(g)' < Rank(g)
<1> USE DEF TypeOK, Goto, Rank, StepsAhead
<1>1. CASE Lookup(g) \/ Join(g)
  BY <1>1 DEF Lookup, Join, End
<1>2. CASE Recheck(g) \/ Issue(g) \/ IssueLost(g) \/ Refuse(g) \/ Store(g)
  BY <1>2 DEF Recheck, Issue, IssueLost, Refuse, Store, FlightYields, FlightFails
<1>3. CASE Land(g)
  BY <1>3 DEF Land
<1>4. CASE ReturnToken(g) \/ Send(g) \/ Accept(g) \/ OtherReply(g)
  BY <1>4 DEF ReturnToken, Send, Accept, OtherReply, End
<1>5. CASE Reject(g) \/ Invalidate(g)
  BY <1>5 DEF Reject, Invalidate, End, RetriedOnce
<1>6. QED  BY <1>1, <1>2, <1>3, <1>4, <1>5 DEF Step

\* A step of g leaves the other calls where they are, but for Land's followers.
LEMMA OtherRanksKept ==
    ASSUME TypeOK, NEW g \in Callers, NEW h \in Callers, h # g,
           Begin(g) \/ Step(g) \/ Cancel(g)
    PROVE  (pc'[h] = pc[h] /\ attempt'[h] = attempt[h]) \/ (pc[h] = "waiting" /\ Rank(h)' < Rank(h))
<1> USE DEF TypeOK, Goto
<1>1. CASE Begin(g) \/ Cancel(g) \/ Lookup(g) \/ Join(g)
  BY <1>1 DEF Begin, Cancel, Lookup, Join, End, callVars
<1>2. CASE Recheck(g) \/ Issue(g) \/ IssueLost(g) \/ Refuse(g) \/ Store(g)
  BY <1>2 DEF Recheck, Issue, IssueLost, Refuse, Store, FlightYields, FlightFails
<1>3. CASE Land(g)
  BY <1>3 DEF Land, Rank, StepsAhead
<1>4. CASE ReturnToken(g) \/ Send(g) \/ Accept(g) \/ OtherReply(g)
  BY <1>4 DEF ReturnToken, Send, Accept, OtherReply, End
<1>5. CASE Reject(g)
  BY <1>5 DEF Reject, End
<1>6. CASE Invalidate(g)
  BY <1>6 DEF Invalidate
<1>7. QED  BY <1>1, <1>2, <1>3, <1>4, <1>5, <1>6 DEF Step

\* Every step of a call brings it nearer to its end; the safety half of
\* EveryCallReturns.
THEOREM StepsBringCallsHome == Spec => CallsAdvance
<1> DEFINE Advance == \A g \in Callers : /\ Step(g) => Rank(g)' < Rank(g)
                                         /\ pc[g] # "idle" => Rank(g)' <= Rank(g)
<1>1. TypeOK /\ TypeOK' /\ RetriedOnce /\ [Next]_vars => [Advance]_vars
  <2> SUFFICES ASSUME TypeOK, TypeOK', RetriedOnce, Next, NEW h \in Callers
               PROVE  /\ Step(h) => Rank(h)' < Rank(h)
                      /\ pc[h] # "idle" => Rank(h)' <= Rank(h)
    BY DEF Advance
  <2>1. Rank(h) \in Nat /\ Rank(h)' \in Nat
    BY DEF TypeOK, Rank, StepsAhead, Steps, InFlight
  <2>2. CASE UNCHANGED <<pc, attempt>> /\ ~Step(h)
    BY <2>1, <2>2 DEF Rank
  <2>3. CASE Step(h)
    BY <2>1, <2>3, OwnRankFalls
  <2>4. ASSUME NEW g \in Callers, g # h, Begin(g) \/ Step(g) \/ Cancel(g), ~Step(h)
        PROVE  Rank(h)' <= Rank(h)
    <3>1. CASE UNCHANGED <<pc[h], attempt[h]>>
      BY <2>1, <3>1 DEF Rank
    <3>2. CASE Rank(h)' < Rank(h)
      BY <2>1, <3>2
    <3>3. QED  BY <2>4, <3>1, <3>2, OtherRanksKept
  <2>5. CASE pc[h] # "idle" /\ ~Step(h) /\ (Begin(h) \/ Cancel(h))
    BY <2>2, <2>5 DEF Begin, Cancel, callVars
  <2>6. QED
    BY <2>2, <2>3, <2>4, <2>5 DEF Next, SetAccessToken, Age, Revoke, callVars
<1>2. Spec => []RetriedOnce
  <2>1. Init => RetriedOnce
    BY DEF Init, RetriedOnce
  <2>2. QED  BY TypeCorrect, <2>1, RetriedOnceStep, PTL DEF Spec
<1>3. QED  BY TypeCorrect, <1>1, <1>2, PTL DEF Spec, CallsAdvance

-----------------------------------------------------------------------------
(* The expiry of tokens. *)

\* A duration that wraps around gets shorter, never longer.
LEMMA WrapShortens ==
  ASSUME NEW d \in Nat
  PROVE  Wrap(d) \in Int /\ Wrap(d) <= d /\ (d < Half => Wrap(d) = d)
<1>1. Half \in Nat /\ Half > 0
  BY DurationAssumption
<1> DEFINE a == d + Half
           b == 2 * Half
<1>2. a \in Nat /\ b \in Nat /\ b > 0
  BY <1>1
<1>3. a % b \in 0 .. b - 1 /\ a % b <= a
  <2> HIDE DEF a, b
  <2>1. QED  BY <1>2
<1>4. a < b => a % b = a
  <2> HIDE DEF a, b
  <2>1. QED  BY <1>2
<1>5. QED  BY <1>1, <1>3, <1>4 DEF Wrap

\* A token is never taken from the storage once it has expired, however long its
\* lifetime, and is taken while it has more than the margin left.
THEOREM ReuseEndsInTime == ReuseWithinLifetime
<1> SUFFICES ASSUME NEW issuedAt \in Instants, NEW received \in Instants, NEW now \in Instants,
                    NEW expiresIn \in Lifetimes, received \in issuedAt .. issuedAt + Margin
             PROVE  LET ends  == issuedAt + expiresIn * Second
                        taken == Reusable(now, Expiry(received, expiresIn))
                    IN  /\ taken => now < ends
                        /\ expiresIn * Second < Half /\ now + Margin < ends => taken
  BY DEF ReuseWithinLifetime
<1> DEFINE life == expiresIn * Second
<1>1. issuedAt \in Nat /\ received \in Nat /\ now \in Nat /\ Margin \in Nat /\ life \in Nat
  BY ClockAssumption, MarginAssumption, DurationAssumption
<1> HIDE DEF life
<1>2. Wrap(life) \in Int /\ Wrap(life) <= life /\ (life < Half => Wrap(life) = life)
  BY <1>1, WrapShortens
<1>3. Reusable(now, Expiry(received, expiresIn)) <=> now + Margin < received + Wrap(life)
  BY DEF Reusable, Expiry, life
<1>4. issuedAt <= received /\ received <= issuedAt + Margin
  BY <1>1
<1>5. now + Margin < received + Wrap(life) => now < issuedAt + life
  BY <1>1, <1>2, <1>4
<1>6. life < Half /\ now + Margin < issuedAt + life => now + Margin < received + Wrap(life)
  BY <1>1, <1>2, <1>4
<1>7. QED  BY <1>3, <1>5, <1>6 DEF life
=============================================================================
