------------------------------- MODULE TokenClient -------------------------------
(***************************************************************************)
(* One Client shared by several goroutines (client.go): the cached access  *)
(* token, the singleflight group that collapses token fetches, and the one *)
(* retry of a request the API answered with 401.                           *)
(*                                                                         *)
(* Each goroutine makes one call after another, either a request (do) or   *)
(* AccessToken/Authenticate.  The steps of a call are the accesses to      *)
(* state others share: the storage, the group, the two HTTP exchanges.     *)
(*                                                                         *)
(* Access tokens are numbered in the order the endpoint issues them, 0     *)
(* being the empty token.  Time is abstracted to the set of tokens whose   *)
(* stored expiry is nearer than tokenExpiryMargin, the API's judgement to  *)
(* the set of tokens it no longer accepts; both only grow.                 *)
(***************************************************************************)
EXTENDS Naturals

CONSTANTS
    Callers,        \* goroutines sharing the Client
    Nobody,         \* no call in flight
    MaxTokens,      \* bound on the tokens the endpoint issues
    Storages        \* the storages Config.TokenStorage may name, of these kinds:

StorageKinds == {"memory",      \* keeps the token, never fails (InMemoryTokenStorage)
                 "fallible",    \* keeps it, but a call may fail (files, a shared cache)
                 "none"}        \* NoOpTokenStorage

ASSUME NobodyAssumption  == Nobody \notin Callers
ASSUME BoundAssumption   == MaxTokens \in Nat
ASSUME StorageAssumption == Storages \subseteq StorageKinds

VARIABLES
    pc,         \* pc[g]: the step goroutine g takes next
    tok,        \* tok[g]: the token g holds in this call, or 0
    attempt,    \* attempt[g]: 1, or 2 when do runs with retry = false
    outcome,    \* outcome[g]: how g's last call ended
    canceled,   \* goroutines whose context is done
    flight,     \* the goroutine leading the "token" call of tokenGroup
    cached,     \* the token under the Client's key, or 0
    issued,     \* number of tokens the endpoint has issued
    aged,       \* tokens within tokenExpiryMargin of their expiry
    revoked,    \* tokens the API answers with 401
    storage,    \* the kind of storage the Client was given
    rejected,   \* history: rejected[g], the token g's first attempt was rejected with
    seeded,     \* history: tokens that came from SetAccessToken
    dropped     \* history: tokens removed from the storage by invalidateToken

callVars    == <<pc, tok, attempt, outcome, rejected>>
serverVars  == <<issued, revoked>>
storeVars   == <<cached, seeded, dropped>>
worldVars   == <<storage, aged>>
vars == <<pc, tok, attempt, outcome, canceled, flight, cached, issued, aged,
          revoked, storage, rejected, seeded, dropped>>

NoToken == 0
Tokens  == 1 .. MaxTokens

\* The steps a leader takes inside the singleflight function.
InFlight == {"recheck", "asking", "storing", "landing"}
Steps    == InFlight \cup {"idle", "lookup", "join", "waiting", "ready", "sent", "invalidate"}
Outcomes == {"none", "ok", "unauthorized", "canceled", "failed"}

TypeOK ==
    /\ pc \in [Callers -> Steps]
    /\ tok \in [Callers -> 0 .. issued]
    /\ attempt \in [Callers -> {1, 2}]
    /\ outcome \in [Callers -> Outcomes]
    /\ canceled \in SUBSET Callers
    /\ flight \in Callers \cup {Nobody}
    /\ cached \in 0 .. issued
    /\ issued \in 0 .. MaxTokens
    /\ aged \in SUBSET (1 .. issued)
    /\ revoked \in SUBSET (1 .. issued)
    /\ storage \in StorageKinds
    /\ rejected \in [Callers -> 0 .. issued]
    /\ seeded \in SUBSET (1 .. issued)
    /\ dropped \in SUBSET (1 .. issued)

Init ==
    /\ pc = [g \in Callers |-> "idle"]
    /\ tok = [g \in Callers |-> NoToken]
    /\ attempt = [g \in Callers |-> 1]
    /\ outcome = [g \in Callers |-> "none"]
    /\ canceled = {}
    /\ flight = Nobody
    /\ cached = NoToken
    /\ issued = 0
    /\ aged = {}
    /\ revoked = {}
    /\ storage \in Storages
    /\ rejected = [g \in Callers |-> NoToken]
    /\ seeded = {}
    /\ dropped = {}

-----------------------------------------------------------------------------
\* A token cachedAccessToken returns: present and not within the margin.
Usable(t) == t # NoToken /\ t \notin aged

\* What the storage does: keep the token it is given, fail a call.
Keeps   == storage # "none"
MayFail == storage = "fallible"

\* The errors g may see: an HTTP exchange, and a storage that looks at the
\* context, also fail with the context's error once that is done.
Errors(g) == {"failed"} \cup (IF g \in canceled THEN {"canceled"} ELSE {})

Goto(g, step) == pc' = [pc EXCEPT ![g] = step]

\* g's call returns to the application.
End(g, result) ==
    /\ Goto(g, "idle")
    /\ outcome' = [outcome EXCEPT ![g] = result]
    /\ tok' = [tok EXCEPT ![g] = NoToken]
    /\ attempt' = [attempt EXCEPT ![g] = 1]
    /\ rejected' = [rejected EXCEPT ![g] = NoToken]

\* The singleflight function is about to return an error.
FlightFails(g, error) ==
    /\ Goto(g, "landing")
    /\ outcome' = [outcome EXCEPT ![g] = error]
    /\ tok' = [tok EXCEPT ![g] = NoToken]
    /\ UNCHANGED <<attempt, rejected>>

\* The singleflight function is about to return token t.
FlightYields(g, t) ==
    /\ Goto(g, "landing")
    /\ tok' = [tok EXCEPT ![g] = t]
    /\ UNCHANGED <<attempt, outcome, rejected>>

-----------------------------------------------------------------------------
\* A goroutine starts a call with a context that is not done.
Begin(g) ==
    /\ pc[g] = "idle"
    /\ Goto(g, "lookup")
    /\ outcome' = [outcome EXCEPT ![g] = "none"]
    /\ canceled' = canceled \ {g}
    /\ UNCHANGED <<tok, attempt, rejected, flight, storeVars, serverVars, worldVars>>

\* getToken's first cachedAccessToken.
Lookup(g) ==
    /\ pc[g] = "lookup"
    /\ \/ /\ Usable(cached)
          /\ Goto(g, "ready")
          /\ tok' = [tok EXCEPT ![g] = cached]
          /\ UNCHANGED <<attempt, outcome, rejected>>
       \/ /\ ~Usable(cached)
          /\ Goto(g, "join")
          /\ UNCHANGED <<tok, attempt, outcome, rejected>>
       \/ /\ MayFail
          /\ \E e \in Errors(g) : End(g, e)
    /\ UNCHANGED <<canceled, flight, storeVars, serverVars, worldVars>>

\* Mutant of Join: every caller leads a call of its own.
JoinAlone(g) ==
    /\ pc[g] = "join"
    /\ flight' = g
    /\ Goto(g, "recheck")
    /\ UNCHANGED <<tok, attempt, outcome, rejected, canceled, storeVars, serverVars, worldVars>>

\* tokenGroup.Do: lead a new call, or wait for the one in flight.
Join(g) ==
    /\ pc[g] = "join"
    /\ \/ /\ flight = Nobody
          /\ flight' = g
          /\ Goto(g, "recheck")
       \/ /\ flight # Nobody
          /\ Goto(g, "waiting")
          /\ UNCHANGED flight
    /\ UNCHANGED <<tok, attempt, outcome, rejected, canceled, storeVars, serverVars, worldVars>>

\* Mutant of Recheck: the flight asks without looking at the storage again.
RecheckSkipped(g) ==
    /\ pc[g] = "recheck"
    /\ Goto(g, "asking")
    /\ UNCHANGED <<tok, attempt, outcome, rejected, canceled, flight>>
    /\ UNCHANGED <<storeVars, serverVars, worldVars>>

\* Mutant of Recheck: a token found in the storage is stored once more.
RecheckStoresAgain(g) ==
    /\ pc[g] = "recheck"
    /\ \/ /\ Usable(cached)
          /\ tok' = [tok EXCEPT ![g] = cached]
          /\ Goto(g, "storing")
       \/ ~Usable(cached) /\ Goto(g, "asking") /\ UNCHANGED tok
    /\ UNCHANGED <<attempt, outcome, rejected, canceled, flight>>
    /\ UNCHANGED <<storeVars, serverVars, worldVars>>

\* The leader's second cachedAccessToken, then the token request is sent.
Recheck(g) ==
    /\ pc[g] = "recheck"
    /\ \/ Usable(cached) /\ FlightYields(g, cached)
       \/ /\ ~Usable(cached)
          /\ Goto(g, "asking")
          /\ UNCHANGED <<tok, attempt, outcome, rejected>>
       \/ MayFail /\ \E e \in Errors(g) : FlightFails(g, e)
    /\ UNCHANGED <<canceled, flight, storeVars, serverVars, worldVars>>

\* The endpoint issues a token and fetchToken reads the response.
Issue(g) ==
    /\ pc[g] = "asking"
    /\ issued < MaxTokens
    /\ issued' = issued + 1
    /\ Goto(g, "storing")
    /\ tok' = [tok EXCEPT ![g] = issued + 1]
    /\ UNCHANGED <<attempt, outcome, rejected, canceled, flight, storeVars, revoked, worldVars>>

\* The endpoint issues a token but the response does not arrive in full.
IssueLost(g) ==
    /\ pc[g] = "asking"
    /\ issued < MaxTokens
    /\ issued' = issued + 1
    /\ \E e \in Errors(g) : FlightFails(g, e)
    /\ UNCHANGED <<canceled, flight, storeVars, revoked, worldVars>>

\* Mutant of Refuse: a response without a token is returned without an error.
RefuseUnnoticed(g) ==
    /\ pc[g] = "asking"
    /\ FlightFails(g, "nil")
    /\ UNCHANGED <<canceled, flight, storeVars, serverVars, worldVars>>

\* The token request fails: transport error, error status, or a response
\* that does not decode or has no access_token.
Refuse(g) ==
    /\ pc[g] = "asking"
    /\ \E e \in Errors(g) : FlightFails(g, e)
    /\ UNCHANGED <<canceled, flight, storeVars, serverVars, worldVars>>

\* fetchToken stores the token, or fails because it cannot.
Store(g) ==
    /\ pc[g] = "storing"
    /\ \/ /\ cached' = IF Keeps THEN tok[g] ELSE cached
          /\ FlightYields(g, tok[g])
       \/ /\ MayFail
          /\ \E e \in Errors(g) : FlightFails(g, e)
          /\ UNCHANGED cached
    /\ UNCHANGED <<canceled, flight, seeded, dropped, serverVars, worldVars>>

\* Mutant of Land: a flight wakes nobody but its leader.
LandLeaderOnly(g) ==
    /\ pc[g] = "landing"
    /\ flight' = Nobody
    /\ \/ tok[g] # NoToken /\ Goto(g, "ready") /\ UNCHANGED <<tok, attempt, outcome, rejected>>
       \/ tok[g] = NoToken /\ End(g, outcome[g])
    /\ UNCHANGED <<canceled, storeVars, serverVars, worldVars>>

\* Do returns: the call is forgotten, and the leader and everyone waiting
\* get its token or its error.
Land(g) ==
    LET party == {g} \cup {w \in Callers : pc[w] = "waiting"} IN
    /\ pc[g] = "landing"
    /\ flight' = Nobody
    /\ \/ /\ tok[g] # NoToken
          /\ pc' = [w \in Callers |-> IF w \in party THEN "ready" ELSE pc[w]]
          /\ tok' = [w \in Callers |-> IF w \in party THEN tok[g] ELSE tok[w]]
          /\ UNCHANGED <<attempt, outcome, rejected>>
       \/ /\ tok[g] = NoToken
          /\ pc' = [w \in Callers |-> IF w \in party THEN "idle" ELSE pc[w]]
          /\ outcome' = [w \in Callers |-> IF w \in party THEN outcome[g] ELSE outcome[w]]
          /\ attempt' = [w \in Callers |-> IF w \in party THEN 1 ELSE attempt[w]]
          /\ rejected' = [w \in Callers |-> IF w \in party THEN NoToken ELSE rejected[w]]
          /\ UNCHANGED tok
    /\ UNCHANGED <<canceled, storeVars, serverVars, worldVars>>

\* AccessToken and Authenticate return once they have the token.
ReturnToken(g) ==
    /\ pc[g] = "ready"
    /\ attempt[g] = 1
    /\ End(g, "ok")
    /\ UNCHANGED <<canceled, flight, storeVars, serverVars, worldVars>>

\* do builds the request, which may fail in the body factory, and sends it.
Send(g) ==
    /\ pc[g] = "ready"
    /\ \/ /\ Goto(g, "sent")
          /\ UNCHANGED <<tok, attempt, outcome, rejected>>
       \/ End(g, "failed")
    /\ UNCHANGED <<canceled, flight, storeVars, serverVars, worldVars>>

\* The API accepts the token and the response is below 300.
Accept(g) ==
    /\ pc[g] = "sent"
    /\ tok[g] \notin revoked
    /\ End(g, "ok")
    /\ UNCHANGED <<canceled, flight, storeVars, serverVars, worldVars>>

\* Mutant of Reject: the retry may itself be retried.
RejectWithoutLimit(g) ==
    /\ pc[g] = "sent"
    /\ tok[g] \in revoked
    /\ Goto(g, "invalidate")
    /\ rejected' = [rejected EXCEPT ![g] = tok[g]]
    /\ UNCHANGED <<tok, attempt, outcome, canceled, flight, storeVars, serverVars, worldVars>>

\* The API answers 401: retried once, surfaced the second time.
Reject(g) ==
    /\ pc[g] = "sent"
    /\ tok[g] \in revoked
    /\ \/ /\ attempt[g] = 1
          /\ Goto(g, "invalidate")
          /\ rejected' = [rejected EXCEPT ![g] = tok[g]]
          /\ UNCHANGED <<tok, attempt, outcome>>
       \/ /\ attempt[g] = 2
          /\ End(g, "unauthorized")
    /\ UNCHANGED <<canceled, flight, storeVars, serverVars, worldVars>>

\* Any other end of the exchange: transport error, redirect, error status.
OtherReply(g) ==
    /\ pc[g] = "sent"
    /\ \E e \in Errors(g) : End(g, e)
    /\ UNCHANGED <<canceled, flight, storeVars, serverVars, worldVars>>

\* Mutant of Invalidate: the request is retried with the token still stored.
InvalidateNothing(g) ==
    /\ pc[g] = "invalidate"
    /\ attempt' = [attempt EXCEPT ![g] = 2]
    /\ tok' = [tok EXCEPT ![g] = NoToken]
    /\ Goto(g, "lookup")
    /\ UNCHANGED <<outcome, rejected, canceled, flight, storeVars, serverVars, worldVars>>

\* invalidateToken deletes whatever the storage holds now, ignoring a
\* failure to do so, and do is entered again with retry = false.
Invalidate(g) ==
    /\ pc[g] = "invalidate"
    /\ \/ /\ cached' = NoToken
          /\ dropped' = dropped \cup ({cached} \ {NoToken})
       \/ MayFail /\ UNCHANGED <<cached, dropped>>
    /\ attempt' = [attempt EXCEPT ![g] = 2]
    /\ tok' = [tok EXCEPT ![g] = NoToken]
    /\ Goto(g, "lookup")
    /\ UNCHANGED <<outcome, rejected, canceled, flight, seeded, serverVars, worldVars>>

-----------------------------------------------------------------------------
\* SetAccessToken with a token the application has just obtained (pkce.Login).
SetAccessToken ==
    /\ issued < MaxTokens
    /\ issued' = issued + 1
    /\ cached' = IF Keeps THEN issued + 1 ELSE cached
    /\ seeded' = seeded \cup {issued + 1}
    /\ UNCHANGED <<callVars, canceled, flight, dropped, revoked, worldVars>>

\* The clock moves token t into the margin before its expiry.
Age(t) ==
    /\ t \in 1 .. issued
    /\ aged' = aged \cup {t}
    /\ UNCHANGED <<callVars, canceled, flight, storeVars, serverVars, storage>>

\* The shop stops accepting token t.
Revoke(t) ==
    /\ t \in 1 .. issued
    /\ revoked' = revoked \cup {t}
    /\ UNCHANGED <<callVars, canceled, flight, storeVars, issued, worldVars>>

\* g's context is canceled or its deadline passes.
Cancel(g) ==
    /\ pc[g] # "idle"
    /\ canceled' = canceled \cup {g}
    /\ UNCHANGED <<callVars, flight, storeVars, serverVars, worldVars>>

\* The steps of a call that a running goroutine and its HTTP exchange take.
Step(g) ==
    \/ Lookup(g) \/ Join(g) \/ Recheck(g)
    \/ Issue(g) \/ IssueLost(g) \/ Refuse(g) \/ Store(g) \/ Land(g)
    \/ ReturnToken(g) \/ Send(g) \/ Accept(g) \/ Reject(g) \/ OtherReply(g)
    \/ Invalidate(g)

Next ==
    \/ \E g \in Callers : Begin(g) \/ Step(g) \/ Cancel(g)
    \/ SetAccessToken
    \/ \E t \in Tokens : Age(t) \/ Revoke(t)

Spec == Init /\ [][Next]_vars

\* Goroutines keep running, and every HTTP exchange ends: NewClient gives the
\* default http.Client a timeout.
Fairness == \A g \in Callers : WF_vars(Step(g))

FairSpec == Spec /\ Fairness

-----------------------------------------------------------------------------
\* The tokenGroup lets one goroutine at a time into the token fetch: no two
\* callers are between the re-check and the landing of a flight.
SingleFetch ==
    \A g, h \in Callers : pc[g] \in InFlight /\ pc[h] \in InFlight => g = h

\* A leader asks the endpoint only while there is nothing usable to share: a
\* usable token beside a running fetch was seeded from outside.  This is what
\* the re-check in the flight is for: without it a goroutine that looked
\* before a fetch ended and joined after it fetches once more.
NoStampede ==
    \A g \in Callers :
        pc[g] \in {"asking", "storing"} => ~Usable(cached) \/ cached \in seeded

\* A token that invalidateToken removed after a 401 never comes back into the
\* storage, whatever fetch was under way at that moment.
DroppedStaysDropped == cached \notin dropped

\* A token enters the storage only over tokens issued before it, the one it
\* replaces and those already dropped: a slow fetch never puts an old token in
\* the place of a newer one, except where SetAccessToken seeded the newer one.
CacheAdvances ==
    [][cached' \notin {cached, NoToken} =>
          \A t \in dropped \cup {cached} : t > cached' => t \in seeded]_vars

\* A retry comes by the token it was rejected with once more only as a follower,
\* from a flight that took it out of the storage before; what the retry finds in
\* the storage itself is another one, if the storage deletes what it is told to.
RejectedAgain(g) ==
    /\ attempt[g] = 2
    /\ tok'[g] = rejected[g]
    /\ tok'[g] # tok[g]

RetryRepeatsOnlyAsFollower ==
    [][\A g \in Callers : RejectedAgain(g) => pc[g] = "waiting" \/ MayFail]_vars

\* Every call returns, also a follower's whose leader fails or gives up, and
\* however often the API answers 401.
EveryCallReturns == \A g \in Callers : pc[g] # "idle" ~> pc[g] = "idle"

\* Where a goroutine stands with respect to tokenGroup.Do.
Role == [g \in Callers |-> IF pc[g] \in InFlight THEN "leader"
                           ELSE IF pc[g] = "waiting" THEN "follower" ELSE "outside"]

SF == INSTANCE SingleFlight WITH role <- Role

\* The token fetches are what one singleflight key promises: one leader at a
\* time, and every flight lands with all its followers.
ImplementsSingleFlight == SF!Spec

-----------------------------------------------------------------------------
\* What docs/error-handling.md says of the retry: it is sent with a fresh
\* token, so never with the one the API has just rejected.
RetryIsFresh ==
    \A g \in Callers :
        pc[g] = "sent" /\ attempt[g] = 2 => tok[g] # rejected[g]

\* What Authenticate's comment says: the context given bounds the token
\* request, so a call ends with a context error only when its own is done.
OwnContextOnly ==
    \A g \in Callers : outcome[g] = "canceled" => g \in canceled
=============================================================================
