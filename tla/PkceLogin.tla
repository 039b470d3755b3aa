-------------------------------- MODULE PkceLogin --------------------------------
(***************************************************************************)
(* The interactive login of pkce/pkce.go: Login opens a callback server    *)
(* and the browser, and waits for the context, a timer, or the first       *)
(* result its handlers put into a channel of capacity one.                 *)
(*                                                                         *)
(* The server answers every request on its port, whatever its path: the    *)
(* shop's redirect, that of a login that had the port before, a reload, a  *)
(* request for an icon.  Each runs in a goroutine of its own.  The state   *)
(* parameter, the verifier and the code of a login are told apart by the   *)
(* login they were made for.                                               *)
(***************************************************************************)

CONSTANTS
    Logins,         \* calls of Login
    Ports,          \* loopback ports
    PortOf,         \* PortOf[l]: l's CallbackPort, or the one the OS picked
    Synchronous,    \* logins whose OpenURL follows the redirect itself and
                    \* returns when that is answered
    Bounded,        \* logins whose exchange ends by itself: a context with a
                    \* deadline, or an HTTPClient with a timeout
    Requests,       \* requests that reach a callback server
    Nobody          \* no login, no code, no state

ASSUME PortAssumption   == PortOf \in [Logins -> Ports]
ASSUME OpenerAssumption == Synchronous \subseteq Logins /\ Bounded \subseteq Logins
ASSUME NobodyAssumption == Nobody \notin Logins

VARIABLES
    pc,         \* pc[l]: the step of Login that l takes next
    listener,   \* listener[p]: the login whose server listens on port p
    channel,    \* channel[l]: the content of resultCh
    result,     \* result[l]: what l has received from it
    handler,    \* handler[r]: how far the goroutine that serves r is
    at,         \* at[r]: the login whose server r reached
    query,      \* query[r]: the parameters r carries
    granted     \* history: the logins the user has granted in the shop

loginVars   == <<pc, listener, result>>
requestVars == <<handler, at, query, granted>>
vars == <<pc, listener, channel, result, handler, at, query, granted>>

Open     == {"ready", "opening", "waiting"}     \* the server listens
Active   == Open \cup {"exchanging"}
Over     == {"unopened", "tokens", "failed"}
Shown    == {"opening", "waiting", "exchanging", "tokens", "failed"}
Steps    == {"idle"} \cup Active \cup Over

Owners   == Logins \cup {Nobody}
Queries  == [error : BOOLEAN, state : Owners, code : Owners]

Empty    == [kind |-> "empty", code |-> Nobody]
Failure  == [kind |-> "err", code |-> Nobody]
Code(l)  == [kind |-> "code", code |-> l]
Results  == {Failure} \cup {Code(l) : l \in Logins}

\* What a request may carry: the shop redirects the browser of login l with a
\* code or, if the user declines, with an error; anything else has no parameters.
Approved(l) == [error |-> FALSE, state |-> l, code |-> l]
Denied(l)   == [error |-> TRUE, state |-> l, code |-> Nobody]
Codeless(l) == [error |-> FALSE, state |-> l, code |-> Nobody]
Stray       == [error |-> FALSE, state |-> Nobody, code |-> Nobody]

TypeOK ==
    /\ pc \in [Logins -> Steps]
    /\ listener \in [Ports -> Owners]
    /\ channel \in [Logins -> Results \cup {Empty}]
    /\ result \in [Logins -> Results \cup {Empty}]
    /\ handler \in [Requests -> {"none", "sending", "over"}]
    /\ at \in [Requests -> Owners]
    /\ query \in [Requests -> Queries]
    /\ granted \subseteq Logins

Init ==
    /\ pc = [l \in Logins |-> "idle"]
    /\ listener = [p \in Ports |-> Nobody]
    /\ channel = [l \in Logins |-> Empty]
    /\ result = [l \in Logins |-> Empty]
    /\ handler = [r \in Requests |-> "none"]
    /\ at = [r \in Requests |-> Nobody]
    /\ query = [r \in Requests |-> Stray]
    /\ granted = {}

Goto(l, step) == pc' = [pc EXCEPT ![l] = step]

\* server.Close, and listener.Close when Login returns.
CloseServer(l) == listener' = [listener EXCEPT ![PortOf[l]] = Nobody]

-----------------------------------------------------------------------------
\* Login is called: net.Listen fails when the port is taken.
Listen(l) ==
    /\ pc[l] = "idle"
    /\ \/ /\ listener[PortOf[l]] = Nobody
          /\ listener' = [listener EXCEPT ![PortOf[l]] = l]
          /\ Goto(l, "ready")
       \/ /\ listener[PortOf[l]] # Nobody
          /\ Goto(l, "unopened")
          /\ UNCHANGED listener
    /\ UNCHANGED <<channel, result, requestVars>>

\* The first select: Serve is about to accept, so openURL is called.
OpenBrowser(l) ==
    /\ pc[l] = "ready"
    /\ Goto(l, "opening")
    /\ UNCHANGED <<listener, channel, result, requestVars>>

\* The first select finds the context done.
CancelUnopened(l) ==
    /\ pc[l] = "ready"
    /\ Goto(l, "unopened")
    /\ CloseServer(l)
    /\ UNCHANGED <<channel, result, requestVars>>

\* openURL returns, with or without an error, and the timer starts.  One that
\* follows the redirect waits for the answer.
Opened(l) ==
    /\ pc[l] = "opening"
    /\ l \in Synchronous =>
           \A r \in Requests : at[r] = l /\ query[r].state = l => handler[r] = "over"
    /\ Goto(l, "waiting")
    /\ UNCHANGED <<listener, channel, result, requestVars>>

\* Mutant of Receive: an error from the callback does not end Login with one.
ReceiveUnchecked(l) ==
    /\ pc[l] = "waiting"
    /\ channel[l] # Empty
    /\ result' = [result EXCEPT ![l] = channel[l]]
    /\ channel' = [channel EXCEPT ![l] = Empty]
    /\ CloseServer(l)
    /\ Goto(l, IF channel[l].kind = "code" THEN "exchanging" ELSE "tokens")
    /\ UNCHANGED requestVars

\* The second select takes a result: the login fails, or exchanges the code.
Receive(l) ==
    /\ pc[l] = "waiting"
    /\ channel[l] # Empty
    /\ result' = [result EXCEPT ![l] = channel[l]]
    /\ channel' = [channel EXCEPT ![l] = Empty]
    /\ CloseServer(l)
    /\ Goto(l, IF channel[l].kind = "code" THEN "exchanging" ELSE "failed")
    /\ UNCHANGED requestVars

\* The second select takes the timer, or the context, although a result may be
\* there as well.
TimeOut(l) ==
    /\ pc[l] = "waiting"
    /\ Goto(l, "failed")
    /\ CloseServer(l)
    /\ UNCHANGED <<channel, result, requestVars>>

\* The endpoint gives tokens for a code that belongs to the verifier sent along.
ExchangeSucceeds(l) ==
    /\ pc[l] = "exchanging"
    /\ result[l].code = l
    /\ Goto(l, "tokens")
    /\ UNCHANGED <<listener, channel, result, requestVars>>

\* It refuses, the connection breaks, or the context ends.
ExchangeFails(l) ==
    /\ pc[l] = "exchanging"
    /\ Goto(l, "failed")
    /\ UNCHANGED <<listener, channel, result, requestVars>>

-----------------------------------------------------------------------------
\* Mutant of Verdict: the state is not compared.
VerdictAnyState(q, l) ==
    IF q.error \/ q.code = Nobody THEN Failure ELSE Code(q.code)

\* Mutant of Verdict: a missing code is sent on.
VerdictNoCode(q, l) ==
    IF q.error \/ q.state # l THEN Failure ELSE Code(q.code)

\* What the handler of login l makes of a request.
Verdict(q, l) ==
    IF q.error \/ q.state # l \/ q.code = Nobody THEN Failure ELSE Code(q.code)

\* A request reaches the server of l and is served by a new goroutine.
Arrive(r, q, l) ==
    /\ handler[r] = "none"
    /\ listener[PortOf[l]] = l
    /\ handler' = [handler EXCEPT ![r] = "sending"]
    /\ at' = [at EXCEPT ![r] = l]
    /\ query' = [query EXCEPT ![r] = q]
    /\ granted' = granted \cup ({q.code} \ {Nobody})
    /\ UNCHANGED <<loginVars, channel>>

\* The shop redirects the browser in which login o was opened, perhaps long ago;
\* it reaches whoever listens on that port now.
Redirect(r) ==
    \E o, l \in Logins :
        /\ pc[o] \in Shown
        /\ PortOf[o] = PortOf[l]
        /\ \E q \in {Approved(o), Denied(o), Codeless(o)} : Arrive(r, q, l)

\* Any other request.
StrayRequest(r) == \E l \in Logins : Arrive(r, Stray, l)

\* Mutant of Send: a channel without a buffer.
SendUnbuffered(r) ==
    LET l == at[r] IN
    /\ handler[r] = "sending"
    /\ pc[l] = "waiting"
    /\ channel[l] = Empty
    /\ channel' = [channel EXCEPT ![l] = Verdict(query[r], l)]
    /\ handler' = [handler EXCEPT ![r] = "over"]
    /\ UNCHANGED <<loginVars, at, query, granted>>

\* Mutant of Send: a result that finds nobody waiting is dropped.
SendOrDrop(r) ==
    LET l == at[r] IN
    /\ handler[r] = "sending"
    /\ channel' = IF pc[l] = "waiting" /\ channel[l] = Empty
                  THEN [channel EXCEPT ![l] = Verdict(query[r], l)] ELSE channel
    /\ handler' = [handler EXCEPT ![r] = "over"]
    /\ UNCHANGED <<loginVars, at, query, granted>>

\* The handler sends its result, once there is room for it, and returns.
Send(r) ==
    LET l == at[r] IN
    /\ handler[r] = "sending"
    /\ channel[l] = Empty
    /\ channel' = [channel EXCEPT ![l] = Verdict(query[r], l)]
    /\ handler' = [handler EXCEPT ![r] = "over"]
    /\ UNCHANGED <<loginVars, at, query, granted>>

-----------------------------------------------------------------------------
\* What Login does on its own up to the exchange, and how that ends.
Proceed(l)  == OpenBrowser(l) \/ CancelUnopened(l) \/ Opened(l) \/ Receive(l) \/ TimeOut(l)
Exchange(l) == ExchangeSucceeds(l) \/ ExchangeFails(l)

Next ==
    \/ \E l \in Logins : Listen(l) \/ Proceed(l) \/ Exchange(l)
    \/ \E r \in Requests : Redirect(r) \/ StrayRequest(r) \/ Send(r)

Spec == Init /\ [][Next]_vars

\* Goroutines run, the timer fires; an exchange ends by itself only where
\* something bounds it, as http.DefaultClient has no timeout.
Fairness ==
    /\ \A l \in Logins : WF_vars(Proceed(l))
    /\ \A l \in Bounded : WF_vars(Exchange(l))
    /\ \A r \in Requests : WF_vars(Send(r))

FairSpec == Spec /\ Fairness

-----------------------------------------------------------------------------
\* The code a login redeems is its own: the redirect of another login that had
\* the same port is never taken for it.
OwnCodeOnly == \A l \in Logins : result[l].kind = "code" => result[l].code = l

\* No result is lost and none invented, whichever of handler, timer and context
\* is faster: what the handlers of a login have sent is what Login has received
\* and what is still in the channel.
SentTo(l)    == {Verdict(query[r], l) : r \in {s \in Requests : at[s] = l /\ handler[s] = "over"}}
AnswersKept  == \A l \in Logins : SentTo(l) = {result[l], channel[l]} \ {Empty}

\* More than one request has reached the server of l.
Crowded(l) == \E r, s \in Requests : r # s /\ at[r] = l /\ at[s] = l

\* Login returns.  What may keep it: an exchange nothing bounds, and an OpenURL
\* that waits for an answer while another request has filled the channel, as the
\* timer does not run yet.
LoginReturns ==
    \A l \in Logins :
        pc[l] \in Active ~>
            \/ pc[l] \in Over
            \/ pc[l] = "exchanging" /\ l \notin Bounded
            \/ pc[l] = "opening" /\ l \in Synchronous /\ Crowded(l)

\* The handler of a request returns, also when Login does not wait for it any
\* more, unless other requests reached the same server.
HandlerReturns ==
    \A r \in Requests :
        handler[r] = "sending" ~> handler[r] = "over" \/ Crowded(at[r])

\* How a login looks to its caller.
View(step) == IF step = "idle" THEN "none"
              ELSE IF step \in Active THEN "running"
              ELSE IF step = "tokens" THEN "tokens" ELSE "error"

Outcome == [l \in Logins |-> View(pc[l])]

Promise == INSTANCE LoginPromise WITH outcome <- Outcome

\* Login ends once, and with tokens only if the user granted this login.
ImplementsPromise == Promise!Spec
=============================================================================
