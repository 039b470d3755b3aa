-------------------------------- MODULE InfoCache --------------------------------
(***************************************************************************)
(* The cached /_info/config of a Client (Info in info.go, Version in       *)
(* client.go): goroutines look at the cache under a mutex, and those that  *)
(* find it empty share one fetch through a singleflight group.  The shop   *)
(* may be upgraded while the Client lives.                                 *)
(*                                                                         *)
(* The payload is reduced to the shop's version, numbered by upgrades; 0   *)
(* is the nil pointer.  The request is one exchange: the token fetch and   *)
(* the retry inside it are TokenClient's.                                  *)
(***************************************************************************)
EXTENDS Naturals

CONSTANTS
    Callers,        \* goroutines sharing the Client
    Nobody,         \* no call in flight
    MaxVersion      \* bound on the shop's version

ASSUME NobodyAssumption  == Nobody \notin Callers
ASSUME VersionAssumption == MaxVersion \in Nat \ {0}

VARIABLES
    pc,         \* pc[g]: the step goroutine g takes next
    reply,      \* reply[g]: the version g's flight has obtained, or 0
    flight,     \* the goroutine leading the "info" call of infoGroup
    info,       \* the cached version, or 0
    shop,       \* the version the shop runs
    seen        \* seen[g]: what Info returned to g last, or 0

vars == <<pc, reply, flight, info, shop, seen>>

NoInfo   == 0
InFlight == {"asking", "publishing", "landing"}
Steps    == InFlight \cup {"idle", "peek", "join", "waiting"}

TypeOK ==
    /\ pc \in [Callers -> Steps]
    /\ reply \in [Callers -> 0 .. shop]
    /\ flight \in Callers \cup {Nobody}
    /\ info \in 0 .. shop
    /\ shop \in 1 .. MaxVersion
    /\ seen \in [Callers -> 0 .. shop]

Init ==
    /\ pc = [g \in Callers |-> "idle"]
    /\ reply = [g \in Callers |-> NoInfo]
    /\ flight = Nobody
    /\ info = NoInfo
    /\ shop = 1
    /\ seen = [g \in Callers |-> NoInfo]

Goto(g, step) == pc' = [pc EXCEPT ![g] = step]

-----------------------------------------------------------------------------
\* g calls Info, or Version, which is Info.
Begin(g) ==
    /\ pc[g] = "idle"
    /\ Goto(g, "peek")
    /\ UNCHANGED <<reply, flight, info, shop, seen>>

\* Info reads the cache under infoMu.
Peek(g) ==
    /\ pc[g] = "peek"
    /\ \/ /\ info # NoInfo
          /\ Goto(g, "idle")
          /\ seen' = [seen EXCEPT ![g] = info]
       \/ /\ info = NoInfo
          /\ Goto(g, "join")
          /\ UNCHANGED seen
    /\ UNCHANGED <<reply, flight, info, shop>>

\* Mutant of Join: every caller leads a call of its own.
JoinAlone(g) ==
    /\ pc[g] = "join"
    /\ flight' = g
    /\ Goto(g, "asking")
    /\ UNCHANGED <<reply, info, shop, seen>>

\* infoGroup.Do: lead a new call, or wait for the one in flight.
Join(g) ==
    /\ pc[g] = "join"
    /\ \/ /\ flight = Nobody
          /\ flight' = g
          /\ Goto(g, "asking")
       \/ /\ flight # Nobody
          /\ Goto(g, "waiting")
          /\ UNCHANGED flight
    /\ UNCHANGED <<reply, info, shop, seen>>

\* Mutant of Answer: the answer is of a version the shop does not run yet.
AnswerAhead(g) ==
    /\ pc[g] = "asking"
    /\ reply' = [reply EXCEPT ![g] = shop + 1]
    /\ Goto(g, "publishing")
    /\ UNCHANGED <<flight, info, shop, seen>>

\* The shop answers with its current config, which decodes.
Answer(g) ==
    /\ pc[g] = "asking"
    /\ reply' = [reply EXCEPT ![g] = shop]
    /\ Goto(g, "publishing")
    /\ UNCHANGED <<flight, info, shop, seen>>

\* The request fails, or its answer does not decode.
AskFails(g) ==
    /\ pc[g] = "asking"
    /\ Goto(g, "landing")
    /\ UNCHANGED <<reply, flight, info, shop, seen>>

\* The leader writes the cache under infoMu.
Publish(g) ==
    /\ pc[g] = "publishing"
    /\ info' = reply[g]
    /\ Goto(g, "landing")
    /\ UNCHANGED <<reply, flight, shop, seen>>

\* Mutant of Land: the leader leaves without its followers.
LandLeaderOnly(g) ==
    /\ pc[g] = "landing"
    /\ flight' = Nobody
    /\ Goto(g, "idle")
    /\ seen' = [seen EXCEPT ![g] = IF reply[g] # NoInfo THEN reply[g] ELSE @]
    /\ reply' = [reply EXCEPT ![g] = NoInfo]
    /\ UNCHANGED <<info, shop>>

\* Do returns the leader's result, or its error, to everyone waiting.
Land(g) ==
    LET party == {g} \cup {w \in Callers : pc[w] = "waiting"} IN
    /\ pc[g] = "landing"
    /\ flight' = Nobody
    /\ pc' = [w \in Callers |-> IF w \in party THEN "idle" ELSE pc[w]]
    /\ seen' = [w \in Callers |-> IF w \in party /\ reply[g] # NoInfo
                                  THEN reply[g] ELSE seen[w]]
    /\ reply' = [reply EXCEPT ![g] = NoInfo]
    /\ UNCHANGED <<info, shop>>

\* The shop is upgraded.
Upgrade ==
    /\ shop < MaxVersion
    /\ shop' = shop + 1
    /\ UNCHANGED <<pc, reply, flight, info, seen>>

Step(g) ==
    \/ Peek(g) \/ Join(g) \/ Answer(g) \/ AskFails(g) \/ Publish(g) \/ Land(g)

Next == Upgrade \/ \E g \in Callers : Begin(g) \/ Step(g)

Spec == Init /\ [][Next]_vars

\* Goroutines keep running, and the http.Client's timeout ends every exchange.
Fairness == \A g \in Callers : WF_vars(Step(g))

FairSpec == Spec /\ Fairness

-----------------------------------------------------------------------------
\* The cache never returns to an older version, although it may be filled more
\* than once, by flights whose answers were given at different times.
InfoNeverOlder == [][info' >= info]_vars

\* No goroutine is told of a version older than one it was told of before,
\* whether it read the cache or shared a flight.
SeesForward    == \A g \in Callers : seen'[g] >= seen[g]
NeverSeesOlder == [][SeesForward]_vars

\* Every call of Info returns, followers with their leader.
EveryCallReturns == \A g \in Callers : pc[g] # "idle" ~> pc[g] = "idle"

\* Where a goroutine stands with respect to infoGroup.Do.
Role == [g \in Callers |-> IF pc[g] \in InFlight THEN "leader"
                           ELSE IF pc[g] = "waiting" THEN "follower" ELSE "outside"]

SF == INSTANCE SingleFlight WITH role <- Role

\* The fetches are what one singleflight key promises.
ImplementsSingleFlight == SF!Spec

-----------------------------------------------------------------------------
\* What the comment of Version says: /api/_info/config is fetched at most once,
\* so nobody asks for it once it is cached.
FetchedAtMostOnce == \A g \in Callers : pc[g] = "asking" => info = NoInfo
=============================================================================
