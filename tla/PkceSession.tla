------------------------------- MODULE PkceSession -------------------------------
(***************************************************************************)
(* PKCE logins that survive restarts (pkce/client.go, pkce/store.go,       *)
(* RefreshTokenCredentials in credentials.go, fetchToken in client.go):    *)
(* processes that share one Store, each with a Client whose token storage  *)
(* is a session that writes itself to the Store on every change.           *)
(*                                                                         *)
(* The token endpoint issues pairs of an access and a refresh token,       *)
(* numbered in the order of issue; 0 is the empty string.  A Store holds   *)
(* one session; Absent stands for none.  Within a process tokenGroup lets  *)
(* one goroutine at a time fetch (see TokenClient), while others may have  *)
(* a request rejected with 401 at any moment.  All processes are the same  *)
(* OAuth client, so NewClient finds its own ClientID in every session, and *)
(* the endpoint rejects refresh tokens only because they no longer work.   *)
(***************************************************************************)
EXTENDS Naturals

CONSTANTS
    Processes,  \* processes, or Clients of one process, that may share the Store
    MaxTokens,  \* bound on the pairs the endpoint issues
    Settings    \* the deployments looked at

FaultKinds == {"crash",     \* a process dies at any point
               "lost",      \* a response of the endpoint does not arrive
               "unreachable", \* a request does not reach the endpoint, or it
                              \* answers with a server error
               "save",      \* Save fails: context done, or an I/O error
               "revoke"}    \* the shop ends a login on its own

ASSUME BoundAssumption   == MaxTokens \in Nat
ASSUME SettingAssumption ==
    Settings \subseteq [users : SUBSET Processes,      \* those that use the Store
                        rotating : BOOLEAN,            \* a refresh revokes the refresh
                                                       \* token and issues a new one
                        faults : SUBSET FaultKinds]    \* what can go wrong

VARIABLES
    phase,      \* phase[p]: how far NewClient got in p
    fetch,      \* fetch[p]: the step of fetchToken p takes next
    got,        \* got[p]: the pair p has received and not yet handed over
    creds,      \* creds[p]: refresh token in p's RefreshTokenCredentials
    mem,        \* mem[p]: the tokens in p's session
    disk,       \* the session in the Store
    issued,     \* number of pairs issued
    live,       \* refresh tokens the endpoint accepts
    stale,      \* access tokens the Client takes for expired
    setting     \* the deployment: one of Settings, chosen at the start

procVars   == <<phase, fetch, got, creds, mem>>
serverVars == <<issued, live>>
worldVars  == <<stale, setting>>
vars == <<phase, fetch, got, creds, mem, disk, issued, live, stale, setting>>

NoToken == 0
Tokens  == 1 .. MaxTokens
Absent  == [access |-> NoToken, refresh |-> NoToken]

Phases     == {"down", "authenticating", "login", "saving", "running"}
FetchSteps == {"none", "asking", "rotating", "storing"}
Sessions   == [access : 0 .. issued, refresh : 0 .. issued]

TypeOK ==
    /\ phase \in [Processes -> Phases]
    /\ fetch \in [Processes -> FetchSteps]
    /\ got \in [Processes -> 0 .. issued]
    /\ creds \in [Processes -> 0 .. issued]
    /\ mem \in [Processes -> Sessions]
    /\ disk \in Sessions
    /\ issued \in 0 .. MaxTokens
    /\ live \in SUBSET (1 .. issued)
    /\ stale \in SUBSET (1 .. issued)
    /\ setting \in Settings

Init ==
    /\ phase = [p \in Processes |-> "down"]
    /\ fetch = [p \in Processes |-> "none"]
    /\ got = [p \in Processes |-> NoToken]
    /\ creds = [p \in Processes |-> NoToken]
    /\ mem = [p \in Processes |-> Absent]
    /\ disk = Absent
    /\ issued = 0
    /\ live = {}
    /\ stale = {}
    /\ setting \in Settings

-----------------------------------------------------------------------------
Rotating       == setting.rotating
Happens(fault) == fault \in setting.faults

\* What session.Get returns to the Client, whatever its expiry.
SessionGet(p) == mem[p].access

\* What cachedAccessToken makes of it.
Usable(t) == t # NoToken /\ t \notin stale

\* session.update: the change is applied to the session, then the whole of it
\* is saved, as one step under the session's mutex.
Update(p, session) == mem' = [mem EXCEPT ![p] = session] /\ disk' = session

\* Mutant of UpdateUnsaved: a change that cannot be saved is taken back.
UpdateRolledBack(p, session) ==
    /\ Happens("save")
    /\ UNCHANGED <<mem, disk>>

\* The same with a Save that fails.
UpdateUnsaved(p, session) ==
    /\ Happens("save")
    /\ mem' = [mem EXCEPT ![p] = session]
    /\ UNCHANGED disk

\* getToken returns: NewClient and its caller go on, or the fetch failed.
FetchDone(p) ==
    /\ fetch' = [fetch EXCEPT ![p] = "none"]
    /\ got' = [got EXCEPT ![p] = NoToken]
    /\ phase' = [phase EXCEPT ![p] = "running"]

FetchFails(p) ==
    /\ fetch' = [fetch EXCEPT ![p] = "none"]
    /\ got' = [got EXCEPT ![p] = NoToken]
    /\ phase' = [phase EXCEPT ![p] = IF @ = "authenticating" THEN "down" ELSE @]

-----------------------------------------------------------------------------
\* NewClient loads the session.  With a refresh token it authenticates, which
\* takes an access token that is still usable as proof enough; without one it
\* runs the browser login.
Start(p) ==
    /\ p \in setting.users
    /\ phase[p] = "down"
    /\ \/ /\ disk.refresh # NoToken
          /\ mem' = [mem EXCEPT ![p] = disk]
          /\ creds' = [creds EXCEPT ![p] = disk.refresh]
          /\ \/ /\ Usable(disk.access)
                /\ phase' = [phase EXCEPT ![p] = "running"]
                /\ UNCHANGED fetch
             \/ /\ ~Usable(disk.access)
                /\ phase' = [phase EXCEPT ![p] = "authenticating"]
                /\ fetch' = [fetch EXCEPT ![p] = "asking"]
       \/ /\ disk.refresh = NoToken
          /\ phase' = [phase EXCEPT ![p] = "login"]
          /\ UNCHANGED <<mem, creds, fetch>>
    /\ UNCHANGED <<got, disk, serverVars, worldVars>>

\* Login succeeds: a new pair beside those of other logins.  The exchange
\* takes the response as it is, also without one of the tokens.
LoginSucceeds(p) ==
    /\ phase[p] = "login"
    /\ issued < MaxTokens
    /\ issued' = issued + 1
    /\ \E access, refresh \in {issued + 1, NoToken} :
           /\ mem' = [mem EXCEPT ![p] = [access |-> access, refresh |-> refresh]]
           /\ creds' = [creds EXCEPT ![p] = refresh]
           /\ live' = live \cup ({refresh} \ {NoToken})
    /\ phase' = [phase EXCEPT ![p] = "saving"]
    /\ UNCHANGED <<fetch, got, disk, worldVars>>

\* Login fails: denied, timed out, or the exchange fails.
LoginFails(p) ==
    /\ phase[p] = "login"
    /\ phase' = [phase EXCEPT ![p] = "down"]
    /\ UNCHANGED <<fetch, got, creds, mem, disk, serverVars, worldVars>>

\* NewClient saves the new session, or fails because it cannot.
SaveLogin(p) ==
    /\ phase[p] = "saving"
    /\ \/ /\ disk' = mem[p]
          /\ phase' = [phase EXCEPT ![p] = "running"]
       \/ /\ Happens("save")
          /\ phase' = [phase EXCEPT ![p] = "down"]
          /\ UNCHANGED disk
    /\ UNCHANGED <<fetch, got, creds, mem, serverVars, worldVars>>

-----------------------------------------------------------------------------
\* A goroutine finds no usable access token in the session and leads a fetch.
BeginFetch(p) ==
    /\ phase[p] = "running"
    /\ fetch[p] = "none"
    /\ ~Usable(SessionGet(p))
    /\ fetch' = [fetch EXCEPT ![p] = "asking"]
    /\ UNCHANGED <<phase, got, creds, mem, disk, serverVars, worldVars>>

\* The endpoint accepts p's refresh token and issues a new pair; if it rotates
\* it revokes the old refresh token there and then.
Refresh(p) ==
    /\ fetch[p] = "asking"
    /\ creds[p] \in live
    /\ issued < MaxTokens
    /\ issued' = issued + 1
    /\ live' = IF Rotating THEN (live \ {creds[p]}) \cup {issued + 1} ELSE live

\* Mutant of Grant: the pair handed over is not the one issued.
GrantOther(p) ==
    /\ Refresh(p)
    /\ got' = [got EXCEPT ![p] = issued + 2]
    /\ fetch' = [fetch EXCEPT ![p] = IF Rotating THEN "rotating" ELSE "storing"]
    /\ UNCHANGED <<phase, creds, mem, disk, worldVars>>

\* The response arrives.
Grant(p) ==
    /\ Refresh(p)
    /\ got' = [got EXCEPT ![p] = issued + 1]
    /\ fetch' = [fetch EXCEPT ![p] = IF Rotating THEN "rotating" ELSE "storing"]
    /\ UNCHANGED <<phase, creds, mem, disk, worldVars>>

\* It does not: timeout, canceled context, broken connection.
GrantLost(p) ==
    /\ Happens("lost")
    /\ Refresh(p)
    /\ FetchFails(p)
    /\ UNCHANGED <<creds, mem, disk, worldVars>>

\* Mutant of RejectGrant: NewClient does not take the rejection for one.
RejectGrantUnseen(p) ==
    /\ fetch[p] = "asking"
    /\ creds[p] \notin live
    /\ fetch' = [fetch EXCEPT ![p] = "none"]
    /\ UNCHANGED <<phase, got, creds, mem, disk, serverVars, worldVars>>


\* The endpoint rejects the refresh token: NewClient runs the login, a running
\* Client reports the error.
RejectGrant(p) ==
    /\ fetch[p] = "asking"
    /\ creds[p] \notin live
    /\ fetch' = [fetch EXCEPT ![p] = "none"]
    /\ phase' = [phase EXCEPT ![p] = IF @ = "authenticating" THEN "login" ELSE @]
    /\ UNCHANGED <<got, creds, mem, disk, serverVars, worldVars>>

\* The request does not reach the endpoint, or it answers with a server error,
\* as it does to every refresh once the bound on its tokens is reached.
AskFails(p) ==
    /\ fetch[p] = "asking"
    /\ Happens("unreachable") \/ (creds[p] \in live /\ issued = MaxTokens)
    /\ FetchFails(p)
    /\ UNCHANGED <<creds, mem, disk, serverVars, worldVars>>

\* Mutant of Rotate: the session learns of the new refresh token, the Store
\* only with the next change.
RotateInMemory(p) ==
    /\ fetch[p] = "rotating"
    /\ creds' = [creds EXCEPT ![p] = got[p]]
    /\ mem' = [mem EXCEPT ![p].refresh = got[p]]
    /\ fetch' = [fetch EXCEPT ![p] = "storing"]
    /\ UNCHANGED <<phase, got, disk, serverVars, worldVars>>

\* Mutant of Rotate: the credentials get the new refresh token, the session not.
RotateCredsOnly(p) ==
    /\ fetch[p] = "rotating"
    /\ creds' = [creds EXCEPT ![p] = got[p]]
    /\ fetch' = [fetch EXCEPT ![p] = "storing"]
    /\ UNCHANGED <<phase, got, mem, disk, serverVars, worldVars>>

\* Mutant of Rotate: OnRotate first, the credentials only if it succeeds.
RotateCredsLast(p) ==
    LET session == [mem[p] EXCEPT !.refresh = got[p]] IN
    /\ fetch[p] = "rotating"
    /\ \/ /\ Update(p, session)
          /\ creds' = [creds EXCEPT ![p] = got[p]]
          /\ fetch' = [fetch EXCEPT ![p] = "storing"]
          /\ UNCHANGED <<phase, got>>
       \/ UpdateUnsaved(p, session) /\ FetchFails(p) /\ UNCHANGED creds
    /\ UNCHANGED <<serverVars, worldVars>>

\* rotateRefreshToken: the credentials, then the session and the Store.
Rotate(p) ==
    LET session == [mem[p] EXCEPT !.refresh = got[p]] IN
    /\ fetch[p] = "rotating"
    /\ creds' = [creds EXCEPT ![p] = got[p]]
    /\ \/ /\ Update(p, session)
          /\ fetch' = [fetch EXCEPT ![p] = "storing"]
          /\ UNCHANGED <<phase, got>>
       \/ UpdateUnsaved(p, session) /\ FetchFails(p)
    /\ UNCHANGED <<serverVars, worldVars>>

\* session.Set stores the access token and fetchToken returns it.
StoreAccess(p) ==
    LET session == [mem[p] EXCEPT !.access = got[p]] IN
    /\ fetch[p] = "storing"
    /\ \/ Update(p, session) /\ FetchDone(p)
       \/ UpdateUnsaved(p, session) /\ FetchFails(p)
    /\ UNCHANGED <<creds, serverVars, worldVars>>

\* A request of p was answered with 401: session.Delete, its error ignored.
Invalidate(p) ==
    LET session == [mem[p] EXCEPT !.access = NoToken] IN
    /\ phase[p] = "running"
    /\ Update(p, session) \/ UpdateUnsaved(p, session)
    /\ UNCHANGED <<phase, fetch, got, creds, serverVars, worldVars>>

-----------------------------------------------------------------------------
\* The process ends in good order: with nothing under way.
Exit(p) ==
    /\ phase[p] = "running"
    /\ fetch[p] = "none"
    /\ phase' = [phase EXCEPT ![p] = "down"]
    /\ UNCHANGED <<fetch, got, creds, mem, disk, serverVars, worldVars>>

\* The process dies, or main returns while a fetch is under way.
Crash(p) ==
    /\ Happens("crash")
    /\ phase[p] # "down"
    /\ phase' = [phase EXCEPT ![p] = "down"]
    /\ fetch' = [fetch EXCEPT ![p] = "none"]
    /\ got' = [got EXCEPT ![p] = NoToken]
    /\ UNCHANGED <<creds, mem, disk, serverVars, worldVars>>

\* The user logs out: store.Delete, from a process of its own.
Logout ==
    /\ disk' = Absent
    /\ UNCHANGED <<procVars, serverVars, worldVars>>

\* The clock passes the point from which the Client takes token t for expired.
Expire(t) ==
    /\ t \in 1 .. issued
    /\ stale' = stale \cup {t}
    /\ UNCHANGED <<procVars, disk, serverVars, setting>>

\* The shop ends a login: the refresh token expires or is revoked.
Revoke(t) ==
    /\ Happens("revoke")
    /\ t \in live
    /\ live' = live \ {t}
    /\ UNCHANGED <<procVars, disk, issued, worldVars>>

\* What a process does on its own once NewClient is called.
Step(p) ==
    \/ LoginSucceeds(p) \/ LoginFails(p) \/ SaveLogin(p)
    \/ Grant(p) \/ GrantLost(p) \/ RejectGrant(p) \/ AskFails(p)
    \/ Rotate(p) \/ StoreAccess(p)

Next ==
    \/ \E p \in Processes :
           Start(p) \/ Step(p) \/ BeginFetch(p) \/ Invalidate(p) \/ Exit(p) \/ Crash(p)
    \/ Logout
    \/ \E t \in Tokens : Expire(t) \/ Revoke(t)

Spec == Init /\ [][Next]_vars

\* A process keeps running, and the timeout of its Client's http.Client ends every
\* request for a token.  Nothing of the kind is assumed of the browser login: its
\* exchange uses http.DefaultClient, which has no timeout, and OpenURL runs before
\* the timer does (LoginReturns of PkceLogin says when a login returns).
Fairness == \A p \in Processes : WF_vars(phase[p] # "login" /\ Step(p))

FairSpec == Spec /\ Fairness

-----------------------------------------------------------------------------
\* One process has the Store to itself.
Alone == \E p \in Processes : setting.users = {p}

\* When one process has the Store to itself, an access token is in use only
\* after the refresh token that came with it, or a later one, is saved: the
\* order in which fetchToken hands the pair over.
SavedBeforeUsed ==
    Alone /\ Rotating =>
        \A p \in Processes :
            /\ phase[p] = "running"
            /\ mem[p].refresh # NoToken
            /\ disk # Absent
            => disk.refresh >= mem[p].access

\* The refresh token tokenRequest sends and the one the session saves are the
\* same, whichever saves failed on the way.
CopiesAgree ==
    \A p \in Processes : phase[p] = "running" => mem[p].refresh = creds[p]

\* p can still refresh, or has the pair that lets it in hand.
CanRefresh(p) == creds[p] \in live \/ (fetch[p] = "rotating" /\ got[p] \in live)

\* A client that runs alone keeps its login across saves that fail: the rotated
\* refresh token is in the credentials before OnRotate can fail.
LoginKept ==
    Alone /\ ~Happens("lost") /\ ~Happens("revoke") =>
        \A p \in Processes :
            phase[p] = "running" /\ phase'[p] = "running" /\ CanRefresh(p) => CanRefresh(p)'

ClientKeepsLogin == [][LoginKept]_vars

\* Between runs the Store holds a login the shop accepts.
StaysLoggedIn ==
    (\A p \in Processes : phase[p] = "down") /\ disk.refresh # NoToken
        => disk.refresh \in live

\* The session of a process that has the Store to itself outlasts its runs when
\* nothing goes wrong but that the endpoint is out of reach at times; with a shop
\* that does not rotate refresh tokens sessions do so whatever goes wrong on this
\* side and however many processes run.
SessionsOutlastRuns ==
    \/ Rotating /\ ~(Alone /\ setting.faults \subseteq {"unreachable"})
    \/ Happens("revoke")
    \/ StaysLoggedIn


\* NewClient waits without end for nothing but its browser login: otherwise it
\* returns, with a client or an error.
StartsReturn ==
    \A p \in Processes :
        phase[p] \in {"authenticating", "saving"}
            ~> phase[p] \in {"down", "login", "running"}
=============================================================================
