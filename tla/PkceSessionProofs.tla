---------------------------- MODULE PkceSessionProofs ----------------------------
(***************************************************************************)
(* What PkceSession guarantees for every set of processes, every number of *)
(* tokens and every deployment.  Within a process the credentials and the  *)
(* session always hold the same refresh token, and the access token never  *)
(* gets ahead of it (Handed); what a lone process has saved keeps up with  *)
(* what it uses (Saved); and where nothing takes a refresh token away      *)
(* unseen, the Store holds one the shop accepts (Kept).                    *)
(***************************************************************************)
EXTENDS PkceSession, TLAPS

USE DEF Tokens, NoToken, Rotating, Happens

Up == {"authenticating", "saving", "running"}

\* What fetchToken and NewClient have handed to the credentials and the session.
HandedAt(p) ==
    /\ phase[p] # "down" => p \in setting.users
    /\ phase[p] \in Up => mem[p].refresh = creds[p]
    /\ fetch[p] # "none" => phase[p] \in {"authenticating", "running"}
    /\ fetch[p] = "rotating" => Rotating
    /\ fetch[p] \in {"rotating", "storing"} =>
           mem[p].refresh # NoToken /\ got[p] \in 1 .. issued /\ got[p] >= mem[p].access
    /\ Rotating /\ fetch[p] = "storing" => mem[p].refresh = got[p]

Handed == \A p \in Processes : HandedAt(p)

\* An access token is no newer than the refresh token beside it.
InStep(session) == session.refresh # NoToken => session.access <= session.refresh

Paired ==
    Rotating => /\ InStep(disk)
                /\ \A p \in Processes : phase[p] \in Up => InStep(mem[p])

\* What a process alone on the Store uses is saved.
SavedAt(p) ==
    /\ phase[p] \in {"authenticating", "running"} /\ mem[p].refresh # NoToken /\ disk # Absent
           => disk.refresh >= mem[p].access
    /\ fetch[p] = "storing" /\ disk # Absent => disk.refresh = got[p]

Saved == Alone /\ Rotating => \A p \in Processes : SavedAt(p)

IInv == TypeOK /\ Handed /\ Paired /\ Saved

\* The deployments in which sessions outlast runs.
Safe == ~Happens("revoke") /\ (Rotating => Alone /\ setting.faults \subseteq {"unreachable"})

\* What the shop has not revoked: the refresh token of every process that is up,
\* or the one it is about to hand over, and that in the Store.
LiveOrNone == live \cup {NoToken}
KeptAt(p) ==
    /\ phase[p] \in Up /\ fetch[p] # "rotating" => mem[p].refresh \in LiveOrNone
    /\ fetch[p] = "rotating" => got[p] \in live

Kept ==
    Safe => /\ \A p \in Processes : KeptAt(p)
            /\ (\A p \in Processes : fetch[p] # "rotating") => disk.refresh \in LiveOrNone

\* A lone process holds a pair that works from its issue to its hand-over.
InHand ==
    Alone /\ ~Happens("revoke") =>
        \A p \in Processes : fetch[p] = "rotating" => got[p] \in live

-----------------------------------------------------------------------------
LEMMA SettingTyped ==
    ASSUME TypeOK
    PROVE  /\ setting.users \in SUBSET Processes
           /\ setting.rotating \in BOOLEAN
           /\ setting.faults \in SUBSET FaultKinds
  BY SettingAssumption DEF TypeOK

LEMMA InitInv == Init => IInv
  BY BoundAssumption, SettingAssumption
  DEF Init, IInv, TypeOK, Handed, HandedAt, Paired, Saved, SavedAt, InStep, Absent, Up, Phases, FetchSteps, Sessions

\* What may be in a session stays so when the endpoint issues a pair.
LEMMA SessionsGrow ==
    ASSUME TypeOK, issued' \in {issued, issued + 1}
    PROVE  /\ \A s \in Sessions : s \in Sessions'
           /\ 0 .. issued \subseteq 0 .. issued'
           /\ 1 .. issued \subseteq 1 .. issued'
  BY DEF TypeOK, Sessions

\* Types survive every step.
LEMMA TypeStep == TypeOK /\ [Next]_vars => TypeOK'
<1> SUFFICES ASSUME TypeOK, [Next]_vars PROVE TypeOK'
  OBVIOUS
<1>a. Absent \in Sessions /\ (\A s \in Sessions : s.access \in 0 .. issued /\ s.refresh \in 0 .. issued)
  BY BoundAssumption DEF TypeOK, Sessions, Absent
<1>b. ASSUME NEW s \in Sessions, NEW n \in 0 .. issued
      PROVE  [s EXCEPT !.access = n] \in Sessions /\ [s EXCEPT !.refresh = n] \in Sessions
  BY DEF Sessions
<1>c. ASSUME UNCHANGED issued PROVE Sessions' = Sessions
  BY <1>c DEF Sessions
<1> USE BoundAssumption DEF TypeOK, Phases, FetchSteps, procVars, serverVars, worldVars
<1>1. ASSUME NEW p \in Processes, Start(p) PROVE TypeOK'
  <2>1. UNCHANGED issued
    BY <1>1 DEF Start
  <2>2. QED
    BY <1>1, <1>a, <1>c, <2>1 DEF Start
<1>2. ASSUME NEW p \in Processes, LoginSucceeds(p) PROVE TypeOK'
  BY <1>2 DEF LoginSucceeds, Sessions
<1>3. ASSUME NEW p \in Processes, LoginFails(p) \/ SaveLogin(p) PROVE TypeOK'
  <2>1. UNCHANGED issued
    BY <1>3 DEF LoginFails, SaveLogin
  <2>2. CASE LoginFails(p)
    BY <1>c, <2>1, <2>2 DEF LoginFails
  <2>3. CASE SaveLogin(p)
    <3>1. disk' \in Sessions'
      BY <1>c, <2>1, <2>3 DEF SaveLogin
    <3>2. phase' \in [Processes -> Phases]
      BY <2>3 DEF SaveLogin
    <3>3. QED
      BY <1>c, <2>1, <2>3, <3>1, <3>2 DEF SaveLogin
  <2>4. QED
    BY <1>3, <2>2, <2>3
<1>4. ASSUME NEW p \in Processes, BeginFetch(p) \/ RejectGrant(p) PROVE TypeOK'
  <2>1. UNCHANGED issued
    BY <1>4 DEF BeginFetch, RejectGrant
  <2>2. QED
    BY <1>4, <1>c, <2>1 DEF BeginFetch, RejectGrant
<1>5. ASSUME NEW p \in Processes, Grant(p) \/ GrantLost(p) PROVE TypeOK'
  <2>1. issued' = issued + 1 /\ issued' \in 0 .. MaxTokens
    BY <1>5 DEF Grant, GrantLost, Refresh
  <2>2. mem' \in [Processes -> Sessions'] /\ disk' \in Sessions'
    BY <1>5, <2>1, SessionsGrow DEF Grant, GrantLost
  <2>3. live' \in SUBSET (1 .. issued') /\ stale' \in SUBSET (1 .. issued')
    <3>1. live' \in {live, (live \ {creds[p]}) \cup {issued + 1}}
      BY <1>5 DEF Grant, GrantLost, Refresh
    <3>2. stale' = stale
      BY <1>5 DEF Grant, GrantLost
    <3>3. QED
      BY <2>1, <3>1, <3>2, SessionsGrow
  <2>4. got' \in [Processes -> 0 .. issued'] /\ creds' \in [Processes -> 0 .. issued']
    BY <1>5, <2>1 DEF Grant, GrantLost, FetchFails
  <2>5. phase' \in [Processes -> Phases] /\ fetch' \in [Processes -> FetchSteps]
    BY <1>5 DEF Grant, GrantLost, FetchFails
  <2>6. QED
    BY <1>5, <2>1, <2>2, <2>3, <2>4, <2>5 DEF Grant, GrantLost
<1>6. ASSUME NEW p \in Processes, AskFails(p) PROVE TypeOK'
  <2>1. UNCHANGED issued
    BY <1>6 DEF AskFails
  <2>2. QED
    BY <1>6, <1>c, <2>1 DEF AskFails, FetchFails
<1>7. ASSUME NEW p \in Processes, Rotate(p) \/ StoreAccess(p) \/ Invalidate(p) PROVE TypeOK'
  <2>1. UNCHANGED <<issued, live, stale, setting>>
    BY <1>7 DEF Rotate, StoreAccess, Invalidate
  <2>2. ASSUME NEW s \in Sessions, Update(p, s) \/ UpdateUnsaved(p, s)
        PROVE  mem' \in [Processes -> Sessions'] /\ disk' \in Sessions'
    BY <1>c, <2>1, <2>2 DEF Update, UpdateUnsaved
  <2>3. mem' \in [Processes -> Sessions'] /\ disk' \in Sessions'
    <3>1. mem[p] \in Sessions /\ got[p] \in 0 .. issued /\ NoToken \in 0 .. issued
      OBVIOUS
    <3>2. /\ [mem[p] EXCEPT !.refresh = got[p]] \in Sessions
          /\ [mem[p] EXCEPT !.access = got[p]] \in Sessions
          /\ [mem[p] EXCEPT !.access = NoToken] \in Sessions
      BY <1>b, <3>1
    <3>3. QED
      BY <1>7, <2>2, <3>2 DEF Rotate, StoreAccess, Invalidate
  <2>4. creds' \in [Processes -> 0 .. issued']
    BY <1>7, <2>1 DEF Rotate, StoreAccess, Invalidate
  <2>5. /\ got' \in [Processes -> 0 .. issued']
        /\ phase' \in [Processes -> Phases]
        /\ fetch' \in [Processes -> FetchSteps]
    BY <1>7, <2>1 DEF Rotate, StoreAccess, Invalidate, FetchFails, FetchDone
  <2>6. QED
    BY <2>1, <2>3, <2>4, <2>5
<1>8. ASSUME NEW p \in Processes, Exit(p) \/ Crash(p) PROVE TypeOK'
  <2>1. UNCHANGED issued
    BY <1>8 DEF Exit, Crash
  <2>2. CASE Exit(p)
    BY <1>c, <2>1, <2>2 DEF Exit
  <2>3. CASE Crash(p)
    BY <1>c, <2>1, <2>3 DEF Crash
  <2>4. QED
    BY <1>8, <2>2, <2>3
<1>9. CASE Logout
  BY <1>9, <1>a, <1>c DEF Logout
<1>10. ASSUME NEW t \in Tokens, Expire(t) \/ Revoke(t) PROVE TypeOK'
  BY <1>10, <1>c DEF Expire, Revoke
<1>11. CASE UNCHANGED vars
  BY <1>11, <1>c DEF vars
<1>12. QED
  BY <1>1, <1>2, <1>3, <1>4, <1>5, <1>6, <1>7, <1>8, <1>9, <1>10, <1>11 DEF Next, Step

-----------------------------------------------------------------------------
\* A step of process p.
Acts(p) == Start(p) \/ Step(p) \/ BeginFetch(p) \/ Invalidate(p) \/ Exit(p) \/ Crash(p)

\* It leaves the other processes alone.
LEMMA OthersUnmoved ==
    ASSUME TypeOK, NEW p \in Processes, NEW q \in Processes, q # p, Acts(p)
    PROVE  /\ phase'[q] = phase[q] /\ fetch'[q] = fetch[q] /\ got'[q] = got[q]
           /\ creds'[q] = creds[q] /\ mem'[q] = mem[q]
           /\ setting' = setting /\ issued' \in {issued, issued + 1}
<1> USE DEF TypeOK, serverVars, worldVars
<1>1. CASE Start(p) \/ BeginFetch(p) \/ Exit(p) \/ Crash(p)
  BY <1>1 DEF Start, BeginFetch, Exit, Crash
<1>2. CASE LoginSucceeds(p) \/ LoginFails(p) \/ SaveLogin(p)
  BY <1>2 DEF LoginSucceeds, LoginFails, SaveLogin
<1>3. CASE Grant(p) \/ GrantLost(p) \/ RejectGrant(p) \/ AskFails(p)
  BY <1>3 DEF Grant, GrantLost, RejectGrant, AskFails, Refresh, FetchFails
<1>4. CASE Rotate(p) \/ StoreAccess(p) \/ Invalidate(p)
  BY <1>4 DEF Rotate, StoreAccess, Invalidate, Update, UpdateUnsaved, FetchFails, FetchDone
<1>5. QED
  BY <1>1, <1>2, <1>3, <1>4 DEF Acts, Step

\* The steps that are nobody's.
LEMMA WorldMoves ==
    ASSUME Logout \/ (\E t \in Tokens : Expire(t) \/ Revoke(t)) \/ UNCHANGED vars
    PROVE  /\ UNCHANGED <<procVars, issued, setting>>
           /\ disk' \in {disk, Absent}
           /\ Logout \/ (disk' = disk /\ (Happens("revoke") \/ live' = live))
  BY DEF Logout, Expire, Revoke, vars, procVars, serverVars, worldVars

LEMMA NextSplit ==
    ASSUME [Next]_vars
    PROVE  \/ \E p \in Processes : Acts(p)
           \/ Logout \/ (\E t \in Tokens : Expire(t) \/ Revoke(t)) \/ UNCHANGED vars
  BY DEF Next, Acts

\* The hand-over invariant survives every step.
LEMMA HandedStep == TypeOK /\ Handed /\ [Next]_vars => Handed'
<1> SUFFICES ASSUME TypeOK, Handed, [Next]_vars, NEW q \in Processes
             PROVE  HandedAt(q)'
  BY DEF Handed
<1>0. HandedAt(q)
  BY DEF Handed
<1>1. ASSUME NEW p \in Processes, Acts(p), q # p PROVE HandedAt(q)'
  <2>1. issued \in Nat /\ issued' \in {issued, issued + 1}
    BY <1>1, OthersUnmoved DEF TypeOK
  <2>2. QED
    BY <1>0, <1>1, <2>1, OthersUnmoved DEF HandedAt, TypeOK, Up
<1>2. ASSUME Acts(q) PROVE HandedAt(q)'
  <2> USE <1>0 DEF HandedAt, TypeOK, Up, serverVars, worldVars
  <2>0. mem[q] \in Sessions /\ mem[q].access \in 0 .. issued /\ mem[q].refresh \in 0 .. issued
    BY DEF Sessions
  <2>1. CASE Start(q)
    BY <2>1 DEF Start
  <2>2. CASE LoginSucceeds(q)
    BY <2>2 DEF LoginSucceeds
  <2>3. CASE LoginFails(q)
    BY <2>3 DEF LoginFails
  <2>4. CASE SaveLogin(q)
    BY <2>4 DEF SaveLogin
  <2>5. CASE Grant(q)
    <3>1. mem[q].refresh # NoToken /\ issued + 1 >= mem[q].access
      BY <2>0, <2>5 DEF Grant, Refresh
    <3>2. QED
      BY <2>5, <3>1 DEF Grant, Refresh
  <2>6. CASE GrantLost(q) \/ AskFails(q)
    BY <2>6 DEF GrantLost, AskFails, Refresh, FetchFails
  <2>7. CASE RejectGrant(q)
    BY <2>7 DEF RejectGrant
  <2>8. CASE Rotate(q)
    BY <2>0, <2>8 DEF Rotate, Update, UpdateUnsaved, FetchFails, Sessions
  <2>9. CASE StoreAccess(q)
    BY <2>0, <2>9 DEF StoreAccess, Update, UpdateUnsaved, FetchFails, FetchDone, Sessions
  <2>10. CASE Invalidate(q)
    BY <2>0, <2>10 DEF Invalidate, Update, UpdateUnsaved, Sessions
  <2>11. CASE BeginFetch(q) \/ Exit(q) \/ Crash(q)
    BY <2>11 DEF BeginFetch, Exit, Crash
  <2>12. QED
    BY <1>2, <2>1, <2>2, <2>3, <2>4, <2>5, <2>6, <2>7, <2>8, <2>9, <2>10, <2>11 DEF Acts, Step
<1>3. CASE Logout \/ (\E t \in Tokens : Expire(t) \/ Revoke(t)) \/ UNCHANGED vars
  BY <1>0, <1>3, WorldMoves DEF HandedAt, procVars
<1>4. QED
  BY <1>1, <1>2, <1>3, NextSplit

\* The pairs stay in step.
LEMMA PairedStep == TypeOK /\ Handed /\ Paired /\ [Next]_vars => Paired'
<1> SUFFICES ASSUME TypeOK, Handed, Paired, [Next]_vars, Rotating' PROVE Paired'
  BY DEF Paired
<1>0. Rotating
  BY NextSplit, WorldMoves, OthersUnmoved
  DEF Next, Step, Start, LoginSucceeds, LoginFails, SaveLogin, Grant, GrantLost, RejectGrant,
      AskFails, Rotate, StoreAccess, BeginFetch, Invalidate, Exit, Crash, Acts, worldVars
<1>1. ASSUME NEW p \in Processes, Acts(p)
      PROVE  InStep(disk)' /\ (phase'[p] \in Up => InStep(mem[p])')
  <2> USE <1>0 DEF Paired, InStep, TypeOK, Up
  <2>0. HandedAt(p) /\ mem[p] \in Sessions
    BY DEF Handed
  <2>1. CASE Start(p) \/ BeginFetch(p) \/ Exit(p) \/ Crash(p)
    BY <2>1 DEF Start, BeginFetch, Exit, Crash
  <2>2. CASE LoginSucceeds(p)
    BY <2>2 DEF LoginSucceeds
  <2>3. CASE LoginFails(p) \/ SaveLogin(p)
    BY <2>3 DEF LoginFails, SaveLogin
  <2>4. CASE Grant(p) \/ GrantLost(p)
    BY <2>0, <2>4 DEF Grant, GrantLost, FetchFails, HandedAt
  <2>5. CASE RejectGrant(p) \/ AskFails(p)
    BY <2>0, <2>5 DEF RejectGrant, AskFails, FetchFails, HandedAt
  <2>6. ASSUME NEW s \in Sessions, InStep(s), Update(p, s) \/ UpdateUnsaved(p, s)
        PROVE  InStep(disk)' /\ InStep(mem[p])'
    BY <2>6 DEF Update, UpdateUnsaved
  <2>7. CASE Rotate(p)
    <3> DEFINE s == [mem[p] EXCEPT !.refresh = got[p]]
    <3>1. s \in Sessions /\ InStep(s)
      BY <2>0, <2>7 DEF Rotate, Sessions, HandedAt
    <3>2. QED
      BY <2>6, <2>7, <3>1 DEF Rotate
  <2>8. CASE StoreAccess(p)
    <3> DEFINE s == [mem[p] EXCEPT !.access = got[p]]
    <3>1. s \in Sessions /\ InStep(s)
      BY <2>0, <2>8 DEF StoreAccess, Sessions, HandedAt
    <3>2. QED
      BY <2>6, <2>8, <3>1 DEF StoreAccess
  <2>9. CASE Invalidate(p)
    <3> DEFINE s == [mem[p] EXCEPT !.access = NoToken]
    <3>1. s \in Sessions /\ InStep(s)
      BY <2>0, <2>9 DEF Invalidate, Sessions
    <3>2. QED
      BY <2>6, <2>9, <3>1 DEF Invalidate
  <2>10. QED
    BY <1>1, <2>1, <2>2, <2>3, <2>4, <2>5, <2>7, <2>8, <2>9 DEF Acts, Step
<1>2. ASSUME NEW p \in Processes, Acts(p) PROVE Paired'
  BY <1>0, <1>1, <1>2, OthersUnmoved DEF Paired, InStep
<1>3. CASE Logout \/ (\E t \in Tokens : Expire(t) \/ Revoke(t)) \/ UNCHANGED vars
  BY <1>0, <1>3, WorldMoves DEF Paired, InStep, Absent, procVars
<1>4. QED
  BY <1>2, <1>3, NextSplit

\* What a lone process uses stays saved.
LEMMA SavedStep == TypeOK /\ Handed /\ Paired /\ Saved /\ [Next]_vars => Saved'
<1> SUFFICES ASSUME TypeOK, Handed, Paired, Saved, [Next]_vars, Alone', Rotating',
                    NEW q \in Processes
             PROVE  SavedAt(q)'
  BY DEF Saved
<1>0. setting' = setting
  BY NextSplit, WorldMoves
  DEF Acts, Step, Start, LoginSucceeds, LoginFails, SaveLogin, Grant, GrantLost, RejectGrant,
      AskFails, Rotate, StoreAccess, BeginFetch, Invalidate, Exit, Crash, worldVars
<1>1. Alone /\ Rotating /\ SavedAt(q)
  BY <1>0 DEF Alone, Saved
<1>2. HandedAt(q) /\ HandedAt(q)' /\ mem[q] \in Sessions /\ disk \in Sessions
  BY HandedStep DEF Handed, TypeOK
<1>3. ASSUME NEW p \in Processes, Acts(p), p # q PROVE SavedAt(q)'
  <2>1. HandedAt(p)
    BY DEF Handed
  <2>2. p \in setting.users
    BY <1>3, <2>1 DEF HandedAt, Acts, Step, Start, LoginSucceeds, LoginFails, SaveLogin, Grant,
          GrantLost, RejectGrant, AskFails, Refresh, Rotate, StoreAccess, BeginFetch,
          Invalidate, Exit, Crash
  <2>3. q \notin setting.users
    BY <1>1, <1>3, <2>2 DEF Alone
  <2>4. phase[q] = "down" /\ fetch[q] = "none"
    BY <1>2, <2>3 DEF HandedAt
  <2>5. QED
    BY <1>3, <2>4, OthersUnmoved DEF SavedAt
<1>4. ASSUME Acts(q) PROVE SavedAt(q)'
  <2> USE <1>1, <1>2 DEF SavedAt, HandedAt, TypeOK, Up, serverVars, worldVars
  <2>0. Paired
    OBVIOUS
  <2>1. CASE Start(q)
    BY <2>0, <2>1 DEF Start, Paired, InStep
  <2>2. CASE LoginSucceeds(q) \/ LoginFails(q)
    BY <2>2 DEF LoginSucceeds, LoginFails
  <2>3. CASE SaveLogin(q)
    BY <2>0, <2>3 DEF SaveLogin, Paired, InStep
  <2>4. CASE Grant(q) \/ GrantLost(q) \/ RejectGrant(q) \/ AskFails(q)
    BY <2>4 DEF Grant, GrantLost, RejectGrant, AskFails, Refresh, FetchFails
  <2>5. CASE Rotate(q)
    BY <2>0, <2>5 DEF Rotate, Update, UpdateUnsaved, FetchFails, Sessions
  <2>6. CASE StoreAccess(q)
    BY <2>0, <2>6 DEF StoreAccess, Update, UpdateUnsaved, FetchFails, FetchDone, Sessions
  <2>7. CASE Invalidate(q)
    BY <2>0, <2>7 DEF Invalidate, Update, UpdateUnsaved, Sessions
  <2>8. CASE BeginFetch(q) \/ Exit(q) \/ Crash(q)
    BY <2>8 DEF BeginFetch, Exit, Crash
  <2>9. QED
    BY <1>4, <2>1, <2>2, <2>3, <2>4, <2>5, <2>6, <2>7, <2>8 DEF Acts, Step
<1>5. CASE Logout \/ (\E t \in Tokens : Expire(t) \/ Revoke(t)) \/ UNCHANGED vars
  BY <1>1, <1>5, WorldMoves DEF SavedAt, procVars
<1>6. QED
  BY <1>3, <1>4, <1>5, NextSplit

LEMMA InvStep == IInv /\ [Next]_vars => IInv'
  BY TypeStep, HandedStep, PairedStep, SavedStep DEF IInv

\* The inductive invariant holds in every reachable state.
LEMMA Invariance == Spec => []IInv
<1>1. QED  BY InitInv, InvStep, PTL DEF Spec

-----------------------------------------------------------------------------
\* Every variable keeps its type.
THEOREM TypeCorrect == Spec => []TypeOK
<1>1. IInv => TypeOK
  BY DEF IInv
<1>2. QED  BY Invariance, <1>1, PTL

\* A lone process uses an access token only once its refresh token is saved.
THEOREM SavedBeforeUse == Spec => []SavedBeforeUsed
<1>1. IInv => SavedBeforeUsed
  BY DEF IInv, Saved, SavedAt, SavedBeforeUsed
<1>2. QED  BY Invariance, <1>1, PTL

\* Credentials and session never disagree on the refresh token.
THEOREM CopiesNeverDiverge == Spec => []CopiesAgree
<1>1. IInv => CopiesAgree
  BY DEF IInv, Handed, HandedAt, CopiesAgree, Up
<1>2. QED  BY Invariance, <1>1, PTL

-----------------------------------------------------------------------------
\* The deployment is chosen once.
LEMMA SettingFixed == ASSUME [Next]_vars PROVE setting' = setting
  BY DEF Next, Step, Start, LoginSucceeds, LoginFails, SaveLogin, Grant, GrantLost, RejectGrant,
      AskFails, Rotate, StoreAccess, BeginFetch, Invalidate, Exit, Crash, Logout, Expire, Revoke,
      vars, worldVars

\* What acts uses the Store.
LEMMA ActorsUse == ASSUME Handed, NEW p \in Processes, Acts(p) PROVE p \in setting.users
  BY DEF Handed, HandedAt, Acts, Step, Start, LoginSucceeds, LoginFails, SaveLogin, Grant,
      GrantLost, RejectGrant, AskFails, Refresh, Rotate, StoreAccess, BeginFetch,
      Invalidate, Exit, Crash

\* The shop takes back no refresh token of a safe deployment but the one it
\* replaces.
LEMMA KeptStep == IInv /\ Kept /\ [Next]_vars => Kept'
<1> SUFFICES ASSUME IInv, Kept, [Next]_vars, Safe'
             PROVE  /\ \A q \in Processes : KeptAt(q)'
                    /\ (\A q \in Processes : fetch'[q] # "rotating")
                           => disk'.refresh \in LiveOrNone'
  BY DEF Kept
<1>0. Safe /\ setting' = setting
  BY SettingFixed DEF Safe, Alone
<1>1. /\ \A q \in Processes : KeptAt(q)
      /\ (\A q \in Processes : fetch[q] # "rotating") => disk.refresh \in LiveOrNone
  BY <1>0 DEF Kept
<1>a. ASSUME NEW p \in Processes, Acts(p), NEW q \in Processes, q # p
      PROVE  fetch[q] # "rotating" /\ (Rotating => phase[q] = "down")
  <2>1. p \in setting.users
    BY <1>a, ActorsUse DEF IInv
  <2>2. HandedAt(q)
    BY DEF IInv, Handed
  <2>3. QED
    BY <1>0, <1>a, <2>1, <2>2 DEF Safe, Alone, HandedAt
<1>2. ASSUME NEW p \in Processes, Acts(p)
      PROVE  /\ KeptAt(p)'
             /\ fetch'[p] # "rotating" /\ (\A q \in Processes : q # p => fetch[q] # "rotating")
                    => disk'.refresh \in LiveOrNone'
             /\ live \subseteq live' \/ (Rotating /\ live \ {creds[p]} \subseteq live')
  <2> USE <1>0, <1>1 DEF IInv, TypeOK, KeptAt, LiveOrNone, Up, serverVars, worldVars
  <2>0. HandedAt(p) /\ mem[p] \in Sessions /\ disk \in Sessions
    BY DEF Handed
  <2>1. CASE Start(p)
    <3>1. disk.refresh \in LiveOrNone
      BY <1>a, <1>2, <2>0, <2>1 DEF Start, HandedAt
    <3>2. QED
      BY <2>0, <2>1, <3>1 DEF Start, HandedAt
  <2>2. CASE LoginSucceeds(p)
    BY <2>0, <2>2 DEF LoginSucceeds, HandedAt
  <2>3. CASE LoginFails(p) \/ SaveLogin(p)
    BY <2>0, <2>3 DEF LoginFails, SaveLogin, HandedAt
  <2>4. CASE Grant(p)
    BY <2>0, <2>4 DEF Grant, Refresh, HandedAt
  <2>5. CASE GrantLost(p)
    BY <2>0, <2>5 DEF GrantLost, Refresh, HandedAt, FetchFails, Safe
  <2>6. CASE RejectGrant(p) \/ AskFails(p)
    BY <2>0, <2>6 DEF RejectGrant, AskFails, HandedAt, FetchFails
  <2>7. CASE Rotate(p)
    BY <2>0, <2>7 DEF Rotate, HandedAt, FetchFails, Update, UpdateUnsaved, Safe, Sessions
  <2>8. CASE StoreAccess(p)
    BY <2>0, <2>8 DEF StoreAccess, HandedAt, FetchFails, FetchDone, Update, UpdateUnsaved, Sessions
  <2>9. CASE Invalidate(p)
    BY <2>0, <2>9 DEF Invalidate, HandedAt, Update, UpdateUnsaved, Sessions
  <2>10. CASE BeginFetch(p) \/ Exit(p)
    BY <2>0, <2>10 DEF BeginFetch, Exit, HandedAt
  <2>11. CASE Crash(p)
    BY <2>0, <2>11 DEF Crash, HandedAt, Safe
  <2>12. QED
    BY <1>2, <2>1, <2>2, <2>3, <2>4, <2>5, <2>6, <2>7, <2>8, <2>9, <2>10, <2>11 DEF Acts, Step
<1>3. ASSUME NEW p \in Processes, Acts(p)
      PROVE  /\ \A q \in Processes : KeptAt(q)'
             /\ (\A q \in Processes : fetch'[q] # "rotating") => disk'.refresh \in LiveOrNone'
  <2>1. ASSUME NEW q \in Processes, q # p PROVE KeptAt(q)'
    BY <1>1, <1>2, <1>3, <1>a, <2>1, OthersUnmoved DEF IInv, KeptAt, LiveOrNone, Up
  <2>2. QED
    BY <1>2, <1>3, <1>a, <2>1
<1>4. CASE Logout \/ (\E t \in Tokens : Expire(t) \/ Revoke(t)) \/ UNCHANGED vars
  <2>1. live' = live
    BY <1>0, <1>4, WorldMoves DEF Safe, Logout, serverVars
  <2>2. QED
    BY <1>1, <1>4, <2>1, WorldMoves DEF KeptAt, LiveOrNone, Absent, procVars
<1>5. QED
  BY <1>3, <1>4, NextSplit

\* The Store keeps a login that works between the runs of a lone process that
\* meets no fault, and whatever happens where the shop does not rotate.
THEOREM SessionsLast == Spec => []SessionsOutlastRuns
<1>1. Init => Kept
  BY DEF Init, Kept, KeptAt, LiveOrNone, Absent, Up
<1>2. IInv /\ Kept => SessionsOutlastRuns
  <2> SUFFICES ASSUME IInv, Kept, Safe, \A p \in Processes : phase[p] = "down",
                      disk.refresh # NoToken
               PROVE  disk.refresh \in live
    BY DEF SessionsOutlastRuns, StaysLoggedIn, Safe
  <2>1. \A p \in Processes : fetch[p] # "rotating"
    BY DEF IInv, Handed, HandedAt
  <2>2. QED
    BY <2>1 DEF Kept, LiveOrNone
<1>3. QED  BY Invariance, KeptStep, <1>1, <1>2, PTL DEF Spec

\* The pair in the hands of a lone process keeps working.
LEMMA InHandStep == IInv /\ InHand /\ [Next]_vars => InHand'
<1> SUFFICES ASSUME IInv, InHand, [Next]_vars, Alone', ~Happens("revoke")',
                    NEW q \in Processes, fetch'[q] = "rotating"
             PROVE  got'[q] \in live'
  BY DEF InHand
<1>0. setting' = setting /\ Alone /\ ~Happens("revoke")
  BY SettingFixed DEF Alone
<1>1. fetch[q] = "rotating" => got[q] \in live
  BY <1>0 DEF InHand
<1>2. HandedAt(q)
  BY DEF IInv, Handed
<1>3. ASSUME NEW p \in Processes, Acts(p), p # q PROVE FALSE
  <2>1. p \in setting.users
    BY <1>3, ActorsUse DEF IInv
  <2>2. q \notin setting.users
    BY <1>0, <1>3, <2>1 DEF Alone
  <2>3. fetch[q] = "none"
    BY <1>2, <2>2 DEF HandedAt
  <2>4. QED
    BY <1>3, <2>3, OthersUnmoved DEF IInv
<1>4. ASSUME Acts(q) PROVE got'[q] \in live'
  <2> USE DEF IInv, TypeOK, serverVars
  <2>1. CASE Grant(q)
    BY <2>1, <1>2 DEF Grant, Refresh, HandedAt
  <2>2. CASE Invalidate(q)
    BY <1>1, <2>2 DEF Invalidate
  <2>3. CASE Start(q) \/ LoginSucceeds(q) \/ LoginFails(q) \/ SaveLogin(q)
    BY <1>2, <2>3 DEF Start, LoginSucceeds, LoginFails, SaveLogin, HandedAt
  <2>4. CASE GrantLost(q) \/ RejectGrant(q) \/ AskFails(q) \/ BeginFetch(q) \/ Exit(q) \/ Crash(q)
    BY <2>4 DEF GrantLost, RejectGrant, AskFails, FetchFails, Refresh, BeginFetch, Exit, Crash
  <2>5. CASE Rotate(q) \/ StoreAccess(q)
    BY <2>5 DEF Rotate, StoreAccess, FetchFails, FetchDone
  <2>6. QED
    BY <1>4, <2>1, <2>2, <2>3, <2>4, <2>5 DEF Acts, Step
<1>5. CASE Logout \/ (\E t \in Tokens : Expire(t) \/ Revoke(t)) \/ UNCHANGED vars
  BY <1>0, <1>1, <1>5, WorldMoves DEF Logout, procVars, serverVars
<1>6. QED
  BY <1>3, <1>4, <1>5, NextSplit

\* A client that runs alone keeps its login, however many saves fail.
THEOREM LoginSurvivesFailedSaves == Spec => ClientKeepsLogin
<1>1. Init => InHand
  BY DEF Init, InHand
<1>2. IInv /\ InHand /\ [Next]_vars => [LoginKept]_vars
  <2> SUFFICES ASSUME IInv, InHand, Next, Alone, ~Happens("lost"), ~Happens("revoke"),
                      NEW q \in Processes,
                      phase[q] = "running", phase'[q] = "running", CanRefresh(q)
               PROVE  CanRefresh(q)'
    BY DEF LoginKept
  <2>1. HandedAt(q) /\ (fetch[q] = "rotating" => got[q] \in live)
    BY DEF IInv, Handed, InHand
  <2>2. ASSUME NEW p \in Processes, Acts(p) PROVE p = q
    BY <2>1, <2>2, ActorsUse DEF IInv, Alone, HandedAt
  <2>3. CASE Acts(q)
    <3> USE <2>1 DEF CanRefresh, IInv, TypeOK, serverVars
    <3>1. CASE Grant(q)
      BY <3>1 DEF Grant, Refresh
    <3>2. CASE Rotate(q)
      BY <3>2 DEF Rotate, FetchFails
    <3>3. CASE StoreAccess(q) \/ Invalidate(q)
      BY <3>3 DEF StoreAccess, Invalidate
    <3>4. CASE RejectGrant(q) \/ AskFails(q) \/ BeginFetch(q)
      BY <3>4 DEF RejectGrant, AskFails, BeginFetch
    <3>5. CASE Start(q) \/ LoginSucceeds(q) \/ LoginFails(q) \/ SaveLogin(q)
      BY <3>5 DEF Start, LoginSucceeds, LoginFails, SaveLogin
    <3>6. CASE GrantLost(q) \/ Exit(q) \/ Crash(q)
      BY <3>6 DEF GrantLost, Exit, Crash
    <3>7. QED
      BY <2>3, <3>1, <3>2, <3>3, <3>4, <3>5, <3>6 DEF Acts, Step
  <2>4. CASE Logout \/ (\E t \in Tokens : Expire(t) \/ Revoke(t)) \/ UNCHANGED vars
    BY <2>4 DEF Logout, Expire, Revoke, vars, CanRefresh, procVars, serverVars
  <2>5. QED
    BY <2>2, <2>3, <2>4, NextSplit
<1>3. QED  BY Invariance, InHandStep, <1>1, <1>2, PTL DEF Spec, ClientKeepsLogin

-----------------------------------------------------------------------------
(***************************************************************************)
(* Where a stored login ends.  StaysLoggedIn is refuted by the run         *)
(* pkce_crash; what holds whatever fails is that neither a save, nor a     *)
(* failed one, nor a crash of a lone process takes a working login out of  *)
(* the Store: the shop does, in the step that revokes or replaces it, or   *)
(* the user who logs out.                                                  *)
(***************************************************************************)

\* The shop or the user ends the login in the Store.
EndsLogin ==
    \/ Logout
    \/ Revoke(disk.refresh)
    \/ \E p \in Processes : Rotating /\ Refresh(p) /\ creds[p] = disk.refresh

EndsOutside ==
    Alone /\ disk.refresh \in live /\ disk'.refresh \notin live' => EndsLogin
StoredLoginEndsOutside == [][EndsOutside]_vars

\* While the Store of a lone process holds a login that works, a client that is
\* up has that login, and no other is on its way.
StoreIsMirrored ==
    Alone /\ disk.refresh \in live =>
        \A p \in Processes :
            /\ phase[p] \in {"authenticating", "running"} => mem[p].refresh = disk.refresh
            /\ phase[p] \notin {"login", "saving"}
            /\ fetch[p] # "rotating"

\* What a refresh has replaced works no more, even while it is not handed over.
ReplacedIsDead == \A p \in Processes : fetch[p] = "rotating" => mem[p].refresh \notin live

\* The only refresh token that begins to work is the one just issued.
LEMMA OnlyNewWork ==
    ASSUME TypeOK, [Next]_vars
    PROVE  live' \subseteq live \cup {issued + 1}
<1> USE DEF TypeOK, serverVars
<1>1. ASSUME NEW p \in Processes, Acts(p) PROVE live' \subseteq live \cup {issued + 1}
  BY <1>1 DEF Acts, Step, Start, LoginSucceeds, LoginFails, SaveLogin, Grant, GrantLost, Refresh,
     RejectGrant, AskFails, Rotate, StoreAccess, BeginFetch, Invalidate, Exit, Crash
<1>2. CASE Logout \/ (\E t \in Tokens : Expire(t) \/ Revoke(t)) \/ UNCHANGED vars
  BY <1>2 DEF Logout, Expire, Revoke, vars
<1>3. QED  BY <1>1, <1>2, NextSplit

LEMMA ReplacedStep == IInv /\ ReplacedIsDead /\ [Next]_vars => ReplacedIsDead'
<1> SUFFICES ASSUME IInv, ReplacedIsDead, [Next]_vars, NEW q \in Processes, fetch'[q] = "rotating"
             PROVE  mem'[q].refresh \notin live'
  BY DEF ReplacedIsDead
<1> USE DEF IInv, TypeOK, serverVars, worldVars
<1>0. HandedAt(q) /\ mem[q].refresh \in 0 .. issued
  BY DEF Handed, Sessions
<1>1. live' \subseteq live \cup {issued + 1}
  BY OnlyNewWork
<1>2. ASSUME NEW p \in Processes, Acts(p), p # q PROVE mem'[q].refresh \notin live'
  BY <1>0, <1>1, <1>2, OthersUnmoved DEF ReplacedIsDead
<1>3. ASSUME Acts(q) PROVE mem'[q].refresh \notin live'
  <2>1. CASE Grant(q)
    BY <1>0, <2>1 DEF Grant, Refresh, HandedAt, Up
  <2>2. CASE Invalidate(q)
    BY <2>2 DEF Invalidate, Update, UpdateUnsaved, ReplacedIsDead, Sessions
  <2>3. CASE Start(q) \/ LoginSucceeds(q) \/ LoginFails(q) \/ SaveLogin(q)
    BY <1>0, <2>3 DEF Start, LoginSucceeds, LoginFails, SaveLogin, HandedAt
  <2>4. CASE GrantLost(q) \/ RejectGrant(q) \/ AskFails(q) \/ BeginFetch(q) \/ Exit(q) \/ Crash(q)
    BY <2>4 DEF GrantLost, RejectGrant, AskFails, FetchFails, Refresh, BeginFetch, Exit, Crash
  <2>5. CASE Rotate(q) \/ StoreAccess(q)
    BY <2>5 DEF Rotate, StoreAccess, FetchFails, FetchDone
  <2>6. QED
    BY <1>3, <2>1, <2>2, <2>3, <2>4, <2>5 DEF Acts, Step
<1>4. CASE Logout \/ (\E t \in Tokens : Expire(t) \/ Revoke(t)) \/ UNCHANGED vars
  BY <1>4 DEF Logout, Expire, Revoke, vars, procVars, ReplacedIsDead
<1>5. QED
  BY <1>2, <1>3, <1>4, NextSplit

\* Whoever acts on the Store of a lone process is that process.
LEMMA OthersDown ==
    ASSUME IInv, Alone, NEW p \in Processes, Acts(p), NEW q \in Processes, q # p
    PROVE  phase[q] = "down" /\ fetch[q] = "none"
<1>1. p \in setting.users
  BY ActorsUse DEF IInv
<1>2. q \notin setting.users
  BY <1>1 DEF Alone
<1>3. HandedAt(q)
  BY DEF IInv, Handed
<1>4. QED  BY <1>2, <1>3 DEF HandedAt

LEMMA MirroredStep ==
    IInv /\ ReplacedIsDead /\ StoreIsMirrored /\ [Next]_vars => StoreIsMirrored'
<1> SUFFICES ASSUME IInv, ReplacedIsDead, StoreIsMirrored, [Next]_vars,
                    Alone', disk'.refresh \in live', NEW q \in Processes
             PROVE  /\ phase'[q] \in {"authenticating", "running"} => mem'[q].refresh = disk'.refresh
                    /\ phase'[q] \notin {"login", "saving"}
                    /\ fetch'[q] # "rotating"
  BY DEF StoreIsMirrored
<1> DEFINE Mirrored == /\ phase'[q] \in {"authenticating", "running"} => mem'[q].refresh = disk'.refresh
                       /\ phase'[q] \notin {"login", "saving"}
                       /\ fetch'[q] # "rotating"
<1>0. setting' = setting /\ Alone
  BY SettingFixed DEF Alone
<1>a. disk.refresh \in live =>
          /\ phase[q] \in {"authenticating", "running"} => mem[q].refresh = disk.refresh
          /\ phase[q] \notin {"login", "saving"}
          /\ fetch[q] # "rotating"
  BY <1>0 DEF StoreIsMirrored
<1>1. ASSUME NEW p \in Processes, Acts(p), p # q PROVE Mirrored
  BY <1>0, <1>1, OthersDown, OthersUnmoved DEF IInv
<1>2. ASSUME Acts(q) PROVE Mirrored
  <2> USE <1>a DEF IInv, TypeOK, serverVars, worldVars
  <2>0. /\ HandedAt(q) /\ mem[q] \in Sessions /\ mem[q].refresh \in 0 .. issued
        /\ disk \in Sessions /\ disk.refresh \in 0 .. issued /\ issued + 1 \notin live
    BY DEF Handed, Sessions
  <2>1. CASE Start(q)
    BY <2>0, <2>1 DEF Start, HandedAt
  <2>2. CASE LoginSucceeds(q)
    BY <2>0, <2>2 DEF LoginSucceeds
  <2>3. CASE LoginFails(q) \/ SaveLogin(q)
    BY <2>0, <2>3 DEF LoginFails, SaveLogin, HandedAt
  <2>4. CASE Grant(q) \/ GrantLost(q)
    BY <2>0, <2>4 DEF Grant, GrantLost, Refresh, FetchFails, HandedAt, Up
  <2>5. CASE RejectGrant(q) \/ AskFails(q)
    BY <2>0, <2>5 DEF RejectGrant, AskFails, FetchFails, HandedAt, Up
  <2>6. CASE Rotate(q)
    BY <2>0, <2>6 DEF Rotate, Update, UpdateUnsaved, FetchFails, Sessions, HandedAt
  <2>7. CASE StoreAccess(q)
    BY <2>0, <2>7 DEF StoreAccess, Update, UpdateUnsaved, FetchFails, FetchDone, Sessions, HandedAt
  <2>8. CASE Invalidate(q)
    BY <2>0, <2>8 DEF Invalidate, Update, UpdateUnsaved, Sessions, ReplacedIsDead
  <2>9. CASE BeginFetch(q) \/ Exit(q) \/ Crash(q)
    BY <2>9 DEF BeginFetch, Exit, Crash
  <2>10. QED
    BY <1>2, <2>1, <2>2, <2>3, <2>4, <2>5, <2>6, <2>7, <2>8, <2>9 DEF Acts, Step
<1>3. CASE Logout
  BY <1>3 DEF Logout, Absent, serverVars, IInv, TypeOK
<1>4. CASE (\E t \in Tokens : Expire(t) \/ Revoke(t)) \/ UNCHANGED vars
  BY <1>a, <1>4 DEF Expire, Revoke, vars, procVars, serverVars
<1>5. QED
  BY <1>1, <1>2, <1>3, <1>4, NextSplit

\* A lone process that is up has the login the Store holds, if that works.
THEOREM StoreMirrorsClient == Spec => []StoreIsMirrored
<1>1. Init => StoreIsMirrored /\ ReplacedIsDead
  BY DEF Init, StoreIsMirrored, ReplacedIsDead
<1>2. QED  BY Invariance, ReplacedStep, MirroredStep, <1>1, PTL DEF Spec

\* Only the shop and the user end the login a lone process has stored.
THEOREM LoginsEndOutside == Spec => StoredLoginEndsOutside
<1>1. IInv /\ StoreIsMirrored /\ [Next]_vars => [EndsOutside]_vars
  <2> SUFFICES ASSUME IInv, StoreIsMirrored, Next, Alone, disk.refresh \in live,
                      disk'.refresh \notin live', ~EndsLogin
               PROVE  FALSE
    BY DEF EndsOutside
  <2> USE DEF IInv, TypeOK, serverVars
  <2>1. ASSUME NEW p \in Processes, Acts(p) PROVE FALSE
    <3>0. /\ HandedAt(p) /\ mem[p] \in Sessions
          /\ phase[p] \in {"authenticating", "running"} => mem[p].refresh = disk.refresh
          /\ phase[p] \notin {"login", "saving"}
          /\ fetch[p] # "rotating"
      BY DEF Handed, StoreIsMirrored
    <3>1. CASE Start(p) \/ BeginFetch(p) \/ Exit(p) \/ Crash(p)
      BY <3>1 DEF Start, BeginFetch, Exit, Crash
    <3>2. CASE LoginSucceeds(p) \/ LoginFails(p) \/ SaveLogin(p) \/ Rotate(p)
      BY <3>0, <3>2 DEF LoginSucceeds, LoginFails, SaveLogin, Rotate
    <3>3. CASE Grant(p) \/ GrantLost(p)
      BY <3>3 DEF Grant, GrantLost, Refresh, EndsLogin
    <3>4. CASE RejectGrant(p) \/ AskFails(p)
      BY <3>4 DEF RejectGrant, AskFails
    <3>5. CASE StoreAccess(p) \/ Invalidate(p)
      BY <3>0, <3>5 DEF StoreAccess, Invalidate, Update, UpdateUnsaved, HandedAt, Sessions
    <3>6. QED
      BY <2>1, <3>1, <3>2, <3>3, <3>4, <3>5 DEF Acts, Step
  <2>2. ASSUME NEW t \in Tokens, Expire(t) \/ Revoke(t) PROVE FALSE
    BY <2>2 DEF Expire, Revoke, EndsLogin
  <2>3. QED
    BY <2>1, <2>2 DEF Next, Acts, EndsLogin
<1>2. QED  BY Invariance, StoreMirrorsClient, <1>1, PTL DEF Spec, StoredLoginEndsOutside

-----------------------------------------------------------------------------
\* NewClient waits for a token only while a fetch of its own is under way.
StartsAreServed ==
    \A p \in Processes : phase[p] = "authenticating" => fetch[p] # "none"

\* The number of steps NewClient has left at most.
StartRank(p) ==
    CASE phase[p] = "authenticating" ->
             [none |-> 6, asking |-> 5, rotating |-> 4, storing |-> 3][fetch[p]]
      [] phase[p] = "login"  -> 2
      [] phase[p] = "saving" -> 1
      [] OTHER               -> 0

\* Every step of a NewClient under way, its login included, brings it nearer to its
\* return, and no other step takes it further away: the safety half of StartsReturn.
AllStartsAdvance ==
    \A p \in Processes :
        phase[p] \notin {"down", "running"} =>
            /\ Step(p) => StartRank(p)' < StartRank(p)
            /\ StartRank(p)' <= StartRank(p)
StartsAdvance == [][AllStartsAdvance]_vars

LEMMA ServedStep == IInv /\ StartsAreServed /\ [Next]_vars => StartsAreServed'
<1> SUFFICES ASSUME IInv, StartsAreServed, [Next]_vars, NEW q \in Processes,
                    phase'[q] = "authenticating"
             PROVE  fetch'[q] # "none"
  BY DEF StartsAreServed
<1> USE DEF IInv, TypeOK
<1>1. ASSUME NEW p \in Processes, Acts(p), p # q PROVE fetch'[q] # "none"
  BY <1>1, OthersUnmoved DEF StartsAreServed
<1>2. ASSUME Acts(q) PROVE fetch'[q] # "none"
  <2>1. CASE Start(q) \/ LoginSucceeds(q) \/ LoginFails(q) \/ SaveLogin(q)
    BY <2>1 DEF Start, LoginSucceeds, LoginFails, SaveLogin
  <2>2. CASE Grant(q) \/ GrantLost(q) \/ RejectGrant(q) \/ AskFails(q)
    BY <2>2 DEF Grant, GrantLost, RejectGrant, AskFails, FetchFails
  <2>3. CASE Rotate(q) \/ StoreAccess(q)
    BY <2>3 DEF Rotate, StoreAccess, FetchFails, FetchDone
  <2>4. CASE BeginFetch(q) \/ Invalidate(q) \/ Exit(q) \/ Crash(q)
    BY <2>4 DEF BeginFetch, Invalidate, Exit, Crash
  <2>5. QED  BY <1>2, <2>1, <2>2, <2>3, <2>4 DEF Acts, Step
<1>3. CASE Logout \/ (\E t \in Tokens : Expire(t) \/ Revoke(t)) \/ UNCHANGED vars
  BY <1>3, WorldMoves DEF procVars, StartsAreServed
<1>4. QED  BY <1>1, <1>2, <1>3, NextSplit

\* No NewClient is left waiting for a token nobody fetches.
THEOREM NoStartStranded == Spec => []StartsAreServed
<1>1. Init => StartsAreServed
  BY DEF Init, StartsAreServed
<1>2. QED  BY Invariance, ServedStep, <1>1, PTL DEF Spec

\* Every step of a NewClient brings it nearer to its return.
THEOREM StepsBringStartsHome == Spec => StartsAdvance
<1>1. IInv /\ StartsAreServed /\ [Next]_vars => [AllStartsAdvance]_vars
  <2> SUFFICES ASSUME IInv, StartsAreServed, Next,
                      NEW q \in Processes, phase[q] \notin {"down", "running"}
               PROVE  /\ Step(q) => StartRank(q)' < StartRank(q)
                      /\ StartRank(q)' <= StartRank(q)
    BY DEF AllStartsAdvance
  <2> USE DEF IInv, TypeOK, Phases, FetchSteps, StartRank
  <2>0. HandedAt(q)
    BY DEF Handed
  <2>1. CASE LoginSucceeds(q) \/ LoginFails(q) \/ SaveLogin(q)
    BY <2>1 DEF LoginSucceeds, LoginFails, SaveLogin
  <2>2. CASE Grant(q)
    <3>1. fetch'[q] \in {"rotating", "storing"} /\ fetch[q] = "asking" /\ phase' = phase
      BY <2>2 DEF Grant, Refresh
    <3>2. QED  BY <2>0, <3>1 DEF HandedAt
  <2>3. CASE GrantLost(q) \/ AskFails(q)
    <3>1. fetch[q] = "asking" /\ FetchFails(q)
      BY <2>3 DEF GrantLost, AskFails, Refresh
    <3>2. QED  BY <2>0, <3>1 DEF FetchFails, HandedAt
  <2>4. CASE RejectGrant(q)
    BY <2>0, <2>4 DEF RejectGrant, HandedAt
  <2>5. CASE Rotate(q) \/ StoreAccess(q)
    BY <2>0, <2>5 DEF Rotate, StoreAccess, FetchFails, FetchDone, HandedAt
  <2>6. ASSUME ~Step(q), UNCHANGED <<phase[q], fetch[q]>>
        PROVE  /\ Step(q) => StartRank(q)' < StartRank(q)
               /\ StartRank(q)' <= StartRank(q)
    BY <2>6
  <2>7. ASSUME NEW p \in Processes, Acts(p), p # q PROVE UNCHANGED <<phase[q], fetch[q]>>
    BY <2>7, OthersUnmoved
  <2>8. CASE Start(q) \/ BeginFetch(q) \/ Invalidate(q) \/ Exit(q)
    BY <2>8 DEF Start, BeginFetch, Invalidate, Exit
  <2>9. CASE Crash(q) /\ ~Step(q)
    BY <2>9 DEF Crash
  <2>10. ASSUME Logout \/ \E t \in Tokens : Expire(t) \/ Revoke(t)
         PROVE  UNCHANGED <<phase[q], fetch[q]>>
    BY <2>10, WorldMoves DEF procVars
  <2>11. CASE Step(q)
    BY <2>1, <2>2, <2>3, <2>4, <2>5, <2>11 DEF Step
  <2>12. CASE ~Step(q)
    BY <2>6, <2>7, <2>8, <2>9, <2>10, <2>12 DEF Next, Acts
  <2>13. QED  BY <2>11, <2>12
<1>2. QED  BY Invariance, NoStartStranded, <1>1, PTL DEF Spec, StartsAdvance

\* What NewClient makes of a refresh token that works no more: it waits, it goes to
\* the login, or its request fails, or it is killed.
AllDeadStartsLogIn ==
    \A p \in Processes :
        phase[p] = "authenticating" /\ fetch[p] = "asking" /\ creds[p] \notin live =>
            \/ phase'[p] = "login"
            \/ AskFails(p) \/ Crash(p)
            \/ UNCHANGED <<phase[p], fetch[p], creds[p]>> /\ creds'[p] \notin live'
DeadStartsLogIn == [][AllDeadStartsLogIn]_vars

\* A dead refresh token takes NewClient to the login, whatever the others do
\* meanwhile: the safety half of NeverLockedOut.
THEOREM DeadLoginsAreReplaced == Spec => DeadStartsLogIn
<1>1. IInv /\ [Next]_vars => [AllDeadStartsLogIn]_vars
  <2> SUFFICES ASSUME IInv, Next, NEW q \in Processes, phase[q] = "authenticating",
                      fetch[q] = "asking", creds[q] \notin live
               PROVE  \/ phase'[q] = "login"
                      \/ AskFails(q) \/ Crash(q)
                      \/ UNCHANGED <<phase[q], fetch[q], creds[q]>> /\ creds'[q] \notin live'
    BY DEF AllDeadStartsLogIn
  <2> USE DEF IInv, TypeOK
  <2>1. ASSUME UNCHANGED creds[q] PROVE creds'[q] \notin live'
    BY <2>1, OnlyNewWork
  <2>2. ASSUME NEW p \in Processes, Acts(p), p # q
        PROVE  UNCHANGED <<phase[q], fetch[q], creds[q]>>
    BY <2>2, OthersUnmoved
  <2>3. ASSUME Acts(q) PROVE phase'[q] = "login" \/ AskFails(q) \/ Crash(q)
    BY <2>3 DEF Acts, Step, Start, LoginSucceeds, LoginFails, SaveLogin, Grant, GrantLost, Refresh,
       RejectGrant, Rotate, StoreAccess, BeginFetch, Invalidate, Exit
  <2>4. ASSUME Logout \/ \E t \in Tokens : Expire(t) \/ Revoke(t)
        PROVE  UNCHANGED <<phase[q], fetch[q], creds[q]>>
    BY <2>4, WorldMoves DEF procVars
  <2>5. QED  BY <2>1, <2>2, <2>3, <2>4 DEF Next, Acts
<1>2. QED  BY Invariance, <1>1, PTL DEF Spec, DeadStartsLogIn
=============================================================================
