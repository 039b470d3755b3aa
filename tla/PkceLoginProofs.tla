----------------------------- MODULE PkceLoginProofs -----------------------------
(***************************************************************************)
(* What PkceLogin guarantees for any number of logins, ports and requests. *)
(* A login takes at most one result, while it waits (TakenOnce), so the    *)
(* result and the channel between them always hold what the handlers have  *)
(* sent; and a code that passes the comparison of the state was issued     *)
(* when the user granted this login (CodesOwned).                          *)
(***************************************************************************)
EXTENDS PkceLogin, Naturals, TLAPS

\* A login has received a result only once it has left the second select, and a
\* code when it exchanges one.
TakenOnce ==
    \A l \in Logins :
        /\ pc[l] \in {"idle"} \cup Open => result[l] = Empty
        /\ pc[l] = "exchanging" => result[l].kind = "code"

\* Requests carry what a redirect carries or nothing; a code in one was granted.
\* One that is served has reached a login.
QueriesGenuine ==
    \A r \in Requests :
        /\ query[r].state # Nobody /\ query[r].code # Nobody => query[r].code = query[r].state
        /\ query[r].code # Nobody => query[r].code \in granted
        /\ handler[r] # "none" => at[r] \in Logins

Owned(l, answer) == answer.kind = "code" => answer.code = l /\ l \in granted

\* Codes in a channel, and those received, belong to the login and were granted.
CodesOwned == \A l \in Logins : Owned(l, result[l]) /\ Owned(l, channel[l])

\* AnswersKept in two halves.
Sent(r, l) == at[r] = l /\ handler[r] = "over"

NothingLost ==
    \A l \in Logins : \A r \in Requests :
        Sent(r, l) => Verdict(query[r], l) = result[l] \/ Verdict(query[r], l) = channel[l]

NothingInvented ==
    \A l \in Logins :
        /\ result[l] # Empty => \E r \in Requests : Sent(r, l) /\ Verdict(query[r], l) = result[l]
        /\ channel[l] # Empty => \E r \in Requests : Sent(r, l) /\ Verdict(query[r], l) = channel[l]

IInv == TypeOK /\ TakenOnce /\ QueriesGenuine /\ CodesOwned /\ NothingLost /\ NothingInvented

-----------------------------------------------------------------------------
\* A handler always has something to send.
LEMMA VerdictIsResult ==
  ASSUME NEW q \in Queries, NEW l \in Logins
  PROVE  Verdict(q, l) \in Results /\ Verdict(q, l) # Empty
  BY NobodyAssumption DEF Verdict, Queries, Owners, Results, Empty, Failure, Code

\* What a handler takes for a code is the code of its own login, if the request
\* is genuine.
LEMMA VerdictOwned ==
  ASSUME NEW q \in Queries, NEW l \in Logins,
         q.state # Nobody /\ q.code # Nobody => q.code = q.state,
         q.code # Nobody => q.code \in granted
  PROVE  Owned(l, Verdict(q, l))
  BY NobodyAssumption DEF Verdict, Owned, Queries, Owners, Failure, Code

LEMMA EmptyUnowned == \A l \in Logins : Owned(l, Empty)
  BY DEF Owned, Empty

LEMMA InitInv == Init => IInv
<1> SUFFICES ASSUME Init PROVE IInv
  OBVIOUS
<1>1. TypeOK
  BY DEF Init, TypeOK, Steps, Owners, Queries, Stray
<1>2. TakenOnce /\ QueriesGenuine /\ NothingLost /\ NothingInvented
  BY DEF Init, TakenOnce, QueriesGenuine, NothingLost, NothingInvented, Sent, Open, Stray
<1>3. CodesOwned
  BY EmptyUnowned DEF Init, CodesOwned
<1> QED  BY <1>1, <1>2, <1>3 DEF IInv

-----------------------------------------------------------------------------
\* Steps of a login that leave channel, result and requests alone keep what is
\* known of these, as long as the step keeps TakenOnce.
LEMMA LoginStepInv ==
  ASSUME IInv, NEW l \in Logins, NEW step \in Steps, Goto(l, step),
         UNCHANGED <<channel, result, requestVars>>,
         listener' \in [Ports -> Owners],
         step \notin {"idle", "exchanging"},
         step \in Open => pc[l] \in {"idle"} \cup Open
  PROVE  IInv'
<1> USE DEF IInv, TypeOK, Goto, requestVars
<1>1. TypeOK'
  OBVIOUS
<1>2. TakenOnce'
  BY DEF TakenOnce, Open
<1>3. QueriesGenuine' /\ CodesOwned' /\ NothingLost' /\ NothingInvented'
  BY DEF QueriesGenuine, CodesOwned, Owned, NothingLost, NothingInvented, Sent
<1> QED  BY <1>1, <1>2, <1>3

LEMMA ReceiveInv == ASSUME IInv, NEW l \in Logins, Receive(l) PROVE IInv'
<1> USE DEF IInv, Receive, requestVars
<1>0. pc[l] = "waiting" /\ result[l] = Empty /\ channel[l] # Empty
  BY DEF TakenOnce, Open
<1>1. TypeOK'
  BY PortAssumption DEF TypeOK, Goto, CloseServer, Steps, Active, Open, Over, Owners
<1>2. TakenOnce'
  BY <1>0 DEF TypeOK, TakenOnce, Goto, Open
<1>3. QueriesGenuine'
  BY DEF QueriesGenuine
<1>4. CodesOwned'
  BY EmptyUnowned DEF TypeOK, CodesOwned, Owned
<1>5. \A m \in Logins : /\ result'[m] = IF m = l THEN channel[l] ELSE result[m]
                        /\ channel'[m] = IF m = l THEN Empty ELSE channel[m]
  BY DEF TypeOK
<1>6. NothingLost'
  <2> SUFFICES ASSUME NEW m \in Logins, NEW r \in Requests, Sent(r, m)
               PROVE  \/ Verdict(query[r], m) = result'[m]
                      \/ Verdict(query[r], m) = channel'[m]
    BY DEF NothingLost, Sent
  <2>1. Verdict(query[r], m) # Empty
    BY VerdictIsResult DEF TypeOK
  <2> QED  BY <1>0, <1>5, <2>1 DEF NothingLost
<1>7. NothingInvented'
  BY <1>0, <1>5 DEF NothingInvented, Sent
<1> QED  BY <1>1, <1>2, <1>3, <1>4, <1>6, <1>7

LEMMA ArriveInv ==
  ASSUME IInv, NEW r \in Requests, NEW l \in Logins, NEW q \in Queries,
         q.state # Nobody /\ q.code # Nobody => q.code = q.state,
         Arrive(r, q, l)
  PROVE  IInv'
<1> USE DEF IInv, TypeOK, Arrive, loginVars
<1>1. TypeOK'
  BY DEF Queries, Owners
<1>2. TakenOnce'
  BY DEF TakenOnce
<1>3. QueriesGenuine'
  BY DEF QueriesGenuine, Queries, Owners
<1>4. CodesOwned'
  BY DEF CodesOwned, Owned
<1>5. \A s \in Requests, m \in Logins :
          Sent(s, m)' <=> Sent(s, m) /\ query'[s] = query[s]
  BY DEF Sent
<1>6. \A s \in Requests, m \in Logins : Sent(s, m) => Sent(s, m)' /\ query'[s] = query[s]
  BY DEF Sent
<1>7. NothingLost' /\ NothingInvented'
  BY <1>5, <1>6 DEF NothingLost, NothingInvented
<1> QED  BY <1>1, <1>2, <1>3, <1>4, <1>7

LEMMA SendInv == ASSUME IInv, NEW r \in Requests, Send(r) PROVE IInv'
<1> USE DEF IInv, Send, loginVars
<1> DEFINE l == at[r]
           v == Verdict(query[r], l)
<1>0. l \in Logins /\ channel[l] = Empty /\ v \in Results /\ v # Empty
  BY VerdictIsResult DEF QueriesGenuine, TypeOK
<1>1. TypeOK'
  BY <1>0 DEF TypeOK
<1>2. TakenOnce' /\ QueriesGenuine'
  BY DEF TypeOK, TakenOnce, QueriesGenuine
<1>3. \A m \in Logins : channel'[m] = IF m = l THEN v ELSE channel[m]
  BY <1>0 DEF TypeOK
<1>4. Owned(l, v)
  BY <1>0, VerdictOwned DEF TypeOK, QueriesGenuine
<1>5. CodesOwned'
  <2> HIDE DEF v, l
  <2> QED  BY <1>3, <1>4 DEF CodesOwned, Owned
<1>6. \A s \in Requests, m \in Logins : Sent(s, m)' <=> Sent(s, m) \/ (s = r /\ m = l)
  BY DEF Sent, TypeOK
<1>7. NothingLost'
  <2> SUFFICES ASSUME NEW m \in Logins, NEW s \in Requests, Sent(s, m)'
               PROVE  \/ Verdict(query[s], m) = result[m]
                      \/ Verdict(query[s], m) = channel'[m]
    BY DEF NothingLost
  <2>1. CASE s = r /\ m = l
    BY <2>1, <1>3
  <2>2. CASE Sent(s, m)
    <3>1. Verdict(query[s], m) # Empty
      BY VerdictIsResult DEF TypeOK
    <3> QED  BY <2>2, <3>1, <1>0, <1>3 DEF NothingLost
  <2> QED  BY <1>6, <2>1, <2>2
<1>8. NothingInvented'
  <2>1. ASSUME NEW m \in Logins
        PROVE  /\ result[m] # Empty =>
                    \E s \in Requests : Sent(s, m)' /\ Verdict(query[s], m) = result[m]
               /\ channel'[m] # Empty =>
                    \E s \in Requests : Sent(s, m)' /\ Verdict(query[s], m) = channel'[m]
    <3>1. CASE m = l
      BY <3>1, <1>0, <1>3, <1>6 DEF NothingInvented
    <3>2. CASE m # l
      BY <3>2, <1>3, <1>6 DEF NothingInvented
    <3> QED  BY <3>1, <3>2
  <2> QED  BY <2>1 DEF NothingInvented
<1> QED  BY <1>1, <1>2, <1>5, <1>7, <1>8

\* Each action but Receive, Arrive and Send is a step of LoginStepInv.
LEMMA InvStep == IInv /\ [Next]_vars => IInv'
<1> SUFFICES ASSUME IInv, [Next]_vars PROVE IInv'
  OBVIOUS
<1>0. listener \in [Ports -> Owners] /\ \A l \in Logins : PortOf[l] \in Ports
  BY PortAssumption DEF IInv, TypeOK
<1> DEFINE Moves(l, step) == /\ Goto(l, step)
                             /\ UNCHANGED <<channel, result, requestVars>>
                             /\ listener' \in [Ports -> Owners]
<1>1. ASSUME NEW l \in Logins, Listen(l) PROVE IInv'
  <2>1. Moves(l, "ready") \/ Moves(l, "unopened")
    BY <1>0, <1>1 DEF Listen, Owners
  <2> QED  BY <1>1, <2>1, LoginStepInv DEF Listen, Steps, Active, Open, Over
<1>2. ASSUME NEW l \in Logins, OpenBrowser(l) \/ CancelUnopened(l) \/ Opened(l) \/ TimeOut(l)
      PROVE  IInv'
  <2>1. \E step \in {"opening", "unopened", "waiting", "failed"} : Moves(l, step)
    BY <1>0, <1>2 DEF OpenBrowser, CancelUnopened, Opened, TimeOut, CloseServer, Owners
  <2>2. pc[l] \in Open
    BY <1>2 DEF OpenBrowser, CancelUnopened, Opened, TimeOut, Open
  <2> QED  BY <2>1, <2>2, LoginStepInv DEF Steps, Active, Open, Over
<1>3. ASSUME NEW l \in Logins, Exchange(l) PROVE IInv'
  <2>1. Moves(l, "tokens") \/ Moves(l, "failed")
    BY <1>0, <1>3 DEF Exchange, ExchangeSucceeds, ExchangeFails
  <2> QED  BY <2>1, LoginStepInv DEF Steps, Active, Open, Over
<1>4. ASSUME NEW l \in Logins, Receive(l) PROVE IInv'
  BY <1>4, ReceiveInv
<1>5. ASSUME NEW r \in Requests, Redirect(r) PROVE IInv'
  <2>1. PICK o \in Logins, l \in Logins :
            \E q \in {Approved(o), Denied(o), Codeless(o)} : Arrive(r, q, l)
    BY <1>5 DEF Redirect
  <2>2. Approved(o) \in Queries /\ Denied(o) \in Queries /\ Codeless(o) \in Queries
    BY DEF Approved, Denied, Codeless, Queries, Owners
  <2>3. \A q \in {Approved(o), Denied(o), Codeless(o)} : q.code # Nobody => q.code = q.state
    BY DEF Approved, Denied, Codeless
  <2> QED  BY <2>1, <2>2, <2>3, ArriveInv
<1>6. ASSUME NEW r \in Requests, StrayRequest(r) PROVE IInv'
  <2>1. Stray \in Queries /\ Stray.state = Nobody
    BY DEF Stray, Queries, Owners
  <2> QED  BY <1>6, <2>1, ArriveInv DEF StrayRequest
<1>7. ASSUME NEW r \in Requests, Send(r) PROVE IInv'
  BY <1>7, SendInv
<1>8. CASE UNCHANGED vars
  BY <1>8 DEF vars, IInv, TypeOK, TakenOnce, QueriesGenuine, CodesOwned, Owned,
              NothingLost, NothingInvented, Sent
<1> QED
  BY <1>1, <1>2, <1>3, <1>4, <1>5, <1>6, <1>7, <1>8 DEF Next, Proceed

LEMMA Invariance == Spec => []IInv
<1>1. QED  BY InitInv, InvStep, PTL DEF Spec

-----------------------------------------------------------------------------
\* Every variable keeps its type.
THEOREM TypeCorrect == Spec => []TypeOK
<1>1. IInv => TypeOK
  BY DEF IInv
<1>2. QED  BY <1>1, Invariance, PTL

\* Login redeems no code but its own, although any redirect may reach its port
\* (OwnCodeOnly): the comparison of the state in the handler sees to it.
THEOREM CodesAreOwn == Spec => []OwnCodeOnly
<1>1. IInv => OwnCodeOnly
  BY DEF IInv, CodesOwned, Owned, OwnCodeOnly
<1>2. QED  BY <1>1, Invariance, PTL

\* The channel of capacity one neither loses nor invents a result, whatever
\* number of handlers, timers and contexts race for it (AnswersKept).
THEOREM ChannelKeepsAnswers == Spec => []AnswersKept
<1>1. IInv => AnswersKept
  <2> SUFFICES ASSUME IInv, NEW l \in Logins
               PROVE  SentTo(l) = {result[l], channel[l]} \ {Empty}
    BY DEF AnswersKept
  <2>1. ASSUME NEW a \in SentTo(l) PROVE a \in {result[l], channel[l]} \ {Empty}
    <3>1. PICK r \in Requests : Sent(r, l) /\ a = Verdict(query[r], l)
      BY DEF SentTo, Sent
    <3> QED  BY <3>1, VerdictIsResult DEF IInv, TypeOK, NothingLost
  <2>2. ASSUME NEW a \in {result[l], channel[l]} \ {Empty} PROVE a \in SentTo(l)
    <3>1. PICK r \in Requests : Sent(r, l) /\ a = Verdict(query[r], l)
      BY DEF IInv, NothingInvented
    <3> QED  BY <3>1 DEF SentTo, Sent
  <2> QED  BY <2>1, <2>2
<1>2. QED  BY <1>1, Invariance, PTL

-----------------------------------------------------------------------------
\* A step of a login's pc is a step of its outcome.
LEMMA OutcomeMoves ==
  ASSUME IInv, NEW l \in Logins, NEW step \in Steps, Goto(l, step)
  PROVE  Outcome' = [Outcome EXCEPT ![l] = View(step)]
<1>1. Outcome' = [m \in Logins |-> View(pc'[m])]
  BY DEF Outcome
<1>2. \A m \in Logins : pc'[m] = IF m = l THEN step ELSE pc[m]
  BY DEF IInv, TypeOK, Goto
<1> HIDE DEF View
<1>3. QED  BY <1>1, <1>2 DEF Outcome

\* Login ends once, and with tokens only if the user granted this very login
\* (ImplementsPromise).
THEOREM LoginKeepsPromise == Spec => ImplementsPromise
<1> DEFINE Effect == \/ UNCHANGED <<Outcome, granted>>
                     \/ \E l \in Logins : \/ Promise!Begin(l) \/ Promise!Grant(l)
                                          \/ Promise!Succeed(l) \/ Promise!Fail(l)
<1>1. Init => Promise!Init
  BY DEF Init, Promise!Init, Outcome, View
<1>2. IInv /\ [Next]_vars => [Promise!Next]_<<Outcome, granted>>
  <2> SUFFICES ASSUME IInv, [Next]_vars PROVE Effect
    BY DEF Promise!Next
  <2>1. ASSUME NEW l \in Logins, Listen(l) PROVE Effect
    <3>1. Goto(l, "ready") \/ Goto(l, "unopened")
      BY <2>1 DEF Listen
    <3>2. Outcome[l] = "none" /\ UNCHANGED granted
      BY <2>1 DEF Listen, Outcome, View, requestVars
    <3>3. Outcome' = [Outcome EXCEPT ![l] = "running"] \/ Outcome' = [Outcome EXCEPT ![l] = "error"]
      BY <3>1, OutcomeMoves DEF View, Steps, Active, Open, Over
    <3> QED  BY <3>2, <3>3 DEF Promise!Begin, Promise!Fail
  <2>2. ASSUME NEW l \in Logins, NEW step \in {"opening", "waiting", "exchanging", "unopened", "failed"},
               pc[l] \in Active, Goto(l, step), UNCHANGED granted
        PROVE  Effect
    <3>1. Outcome[l] = "running"
      BY <2>2 DEF Outcome, View, Active, Open
    <3>2. Outcome' = [Outcome EXCEPT ![l] = View(step)]
      BY <2>2, OutcomeMoves DEF Steps, Active, Open, Over
    <3>3. View(step) \in {"running", "error"}
      BY DEF View, Active, Open
    <3>4. CASE View(step) = "running"
      BY <3>1, <3>2, <3>4, <2>2 DEF Outcome
    <3>5. CASE View(step) = "error"
      BY <3>1, <3>2, <3>5, <2>2 DEF Promise!Fail
    <3> QED  BY <3>3, <3>4, <3>5
  <2>3. ASSUME NEW l \in Logins,
               Proceed(l) \/ ExchangeFails(l)
        PROVE  Effect
    <3>1. \E step \in {"opening", "waiting", "exchanging", "unopened", "failed"} : Goto(l, step)
      BY <2>3 DEF Proceed, OpenBrowser, CancelUnopened, Opened, Receive, TimeOut, ExchangeFails
    <3>2. pc[l] \in Active /\ UNCHANGED granted
      BY <2>3 DEF Proceed, OpenBrowser, CancelUnopened, Opened, Receive, TimeOut, ExchangeFails,
                  Active, Open, requestVars
    <3> QED  BY <3>1, <3>2, <2>2
  <2>4. ASSUME NEW l \in Logins, ExchangeSucceeds(l) PROVE Effect
    <3>1. Outcome[l] = "running" /\ UNCHANGED granted /\ l \in granted
      BY <2>4 DEF ExchangeSucceeds, IInv, TakenOnce, CodesOwned, Owned, Outcome, View,
                  Active, Open, requestVars
    <3>2. Outcome' = [Outcome EXCEPT ![l] = "tokens"]
      BY <2>4, OutcomeMoves DEF ExchangeSucceeds, View, Steps, Active, Open, Over
    <3> QED  BY <3>1, <3>2 DEF Promise!Succeed
  <2>5. ASSUME NEW r \in Requests, Redirect(r) PROVE Effect
    <3>1. PICK o \in Logins, l \in Logins :
              /\ pc[o] \in Shown
              /\ \E q \in {Approved(o), Denied(o), Codeless(o)} : Arrive(r, q, l)
      BY <2>5 DEF Redirect
    <3>2. UNCHANGED Outcome /\ Outcome[o] # "none"
      BY <3>1 DEF Arrive, loginVars, Outcome, View, Shown, Active
    <3>3. granted' = granted \cup {o} \/ granted' = granted
      BY <3>1, NobodyAssumption DEF Arrive, Approved, Denied, Codeless
    <3> QED  BY <3>2, <3>3 DEF Promise!Grant
  <2>6. ASSUME NEW r \in Requests, StrayRequest(r) PROVE Effect
    BY <2>6 DEF StrayRequest, Arrive, Stray, loginVars, Outcome
  <2>7. ASSUME NEW r \in Requests, Send(r) PROVE Effect
    BY <2>7 DEF Send, loginVars, Outcome
  <2>8. CASE UNCHANGED vars
    BY <2>8 DEF vars, Outcome
  <2> QED
    BY <2>1, <2>3, <2>4, <2>5, <2>6, <2>7, <2>8 DEF Next, Exchange
<1>3. QED  BY Invariance, <1>1, <1>2, PTL DEF Spec, ImplementsPromise, Promise!Spec

-----------------------------------------------------------------------------
(***************************************************************************)
(* The safety halves of LoginReturns and HandlerReturns: ports are given   *)
(* back, only a crowd blocks a handler, and logins and requests go forward *)
(* only.  What is left to fairness is that the steps are taken.            *)
(***************************************************************************)

\* A port is taken by the login that uses it, from net.Listen until the result,
\* the timer or the context closes the server, and by nobody after that.
PortsFollowLogins ==
    \A p \in Ports : \A l \in Logins : listener[p] = l <=> PortOf[l] = p /\ pc[l] \in Open

\* A handler finds the channel full only if another request has reached the same
\* server: the one buffered place is enough for the redirect of one browser.
BlockedOnlyInCrowd ==
    \A r \in Requests : handler[r] = "sending" /\ channel[at[r]] # Empty => Crowded(at[r])

\* The steps a login, and the handler of a request, have left at most.
LoginRank(l) ==
    [idle |-> 5, ready |-> 4, opening |-> 3, waiting |-> 2, exchanging |-> 1,
     unopened |-> 0, tokens |-> 0, failed |-> 0][pc[l]]
RequestRank(r) == [none |-> 2, sending |-> 1, over |-> 0][handler[r]]

\* No step of any actor takes a login or a handler back.
NothingGoesBack ==
    /\ \A l \in Logins : pc'[l] # pc[l] => LoginRank(l)' < LoginRank(l)
    /\ \A r \in Requests : handler'[r] # handler[r] => RequestRank(r)' < RequestRank(r)
OnlyForward == [][NothingGoesBack]_vars

\* Moving one login while the listener follows keeps the ports right.
LEMMA PortsMove ==
  ASSUME TypeOK, PortsFollowLogins, NEW l \in Logins, NEW step \in Steps, Goto(l, step),
         \/ UNCHANGED listener /\ (pc[l] \in Open <=> step \in Open)
         \/ CloseServer(l) /\ step \notin Open /\ pc[l] \in Open
         \/ /\ listener' = [listener EXCEPT ![PortOf[l]] = l]
            /\ listener[PortOf[l]] = Nobody /\ step \in Open /\ pc[l] \notin Open
  PROVE  PortsFollowLogins'
<1> USE NobodyAssumption, PortAssumption DEF TypeOK, Goto, CloseServer, PortsFollowLogins
<1> SUFFICES ASSUME NEW p \in Ports, NEW m \in Logins
             PROVE  listener'[p] = m <=> PortOf[m] = p /\ pc'[m] \in Open
  OBVIOUS
<1>1. CASE m = l
  BY <1>1
<1>2. CASE m # l
  BY <1>2
<1>3. QED  BY <1>1, <1>2

LEMMA PortsStep == TypeOK /\ PortsFollowLogins /\ [Next]_vars => PortsFollowLogins'
<1> SUFFICES ASSUME TypeOK, PortsFollowLogins, [Next]_vars PROVE PortsFollowLogins'
  OBVIOUS
<1> USE DEF Steps, Active, Open, Over
<1>1. ASSUME NEW l \in Logins, Listen(l) PROVE PortsFollowLogins'
  BY <1>1, PortsMove DEF Listen
<1>2. ASSUME NEW l \in Logins, OpenBrowser(l) \/ Opened(l) \/ Exchange(l)
      PROVE  PortsFollowLogins'
  BY <1>2, PortsMove DEF OpenBrowser, Opened, Exchange, ExchangeSucceeds, ExchangeFails
<1>3. ASSUME NEW l \in Logins, CancelUnopened(l) \/ TimeOut(l) \/ Receive(l)
      PROVE  PortsFollowLogins'
  BY <1>3, PortsMove DEF CancelUnopened, TimeOut, Receive
<1>4. CASE UNCHANGED <<pc, listener>>
  BY <1>4 DEF PortsFollowLogins
<1>5. QED
  BY <1>1, <1>2, <1>3, <1>4
  DEF Next, Proceed, Redirect, StrayRequest, Arrive, Send, loginVars, vars

\* Every login gives its port back, on whichever way it ends.
THEOREM PortsAreReturned == Spec => []PortsFollowLogins
<1>1. Init => PortsFollowLogins
  BY NobodyAssumption, PortAssumption DEF Init, PortsFollowLogins, Open
<1>2. QED  BY <1>1, PortsStep, TypeCorrect, PTL DEF Spec

\* A handler waits for room in the channel only beside another request.
THEOREM OnlyCrowdsBlock == Spec => []BlockedOnlyInCrowd
<1>1. IInv => BlockedOnlyInCrowd
  <2> SUFFICES ASSUME IInv, NEW r \in Requests, handler[r] = "sending", channel[at[r]] # Empty
               PROVE  Crowded(at[r])
    BY DEF BlockedOnlyInCrowd
  <2>1. PICK s \in Requests : Sent(s, at[r])
    BY DEF IInv, QueriesGenuine, NothingInvented
  <2>2. QED  BY <2>1 DEF Sent, Crowded
<1>2. QED  BY <1>1, Invariance, PTL

\* Logins and handlers go forward only, so each takes a bounded number of steps.
THEOREM LoginsGoForward == Spec => OnlyForward
<1>1. TypeOK /\ [Next]_vars => [NothingGoesBack]_vars
  <2> SUFFICES ASSUME TypeOK, Next PROVE NothingGoesBack
    OBVIOUS
  <2> USE DEF TypeOK, Goto, LoginRank, RequestRank, NothingGoesBack
  <2>1. ASSUME NEW l \in Logins, Listen(l) \/ Exchange(l) PROVE NothingGoesBack
    BY <2>1 DEF Listen, Exchange, ExchangeSucceeds, ExchangeFails, requestVars
  <2>2. ASSUME NEW l \in Logins, OpenBrowser(l) \/ CancelUnopened(l) \/ Opened(l)
        PROVE  NothingGoesBack
    BY <2>2 DEF OpenBrowser, CancelUnopened, Opened, requestVars
  <2>3. ASSUME NEW l \in Logins, Receive(l) \/ TimeOut(l) PROVE NothingGoesBack
    BY <2>3 DEF Receive, TimeOut, requestVars
  <2>4. ASSUME NEW r \in Requests, Redirect(r) \/ StrayRequest(r) PROVE NothingGoesBack
    BY <2>4 DEF Redirect, StrayRequest, Arrive, loginVars
  <2>5. ASSUME NEW r \in Requests, Send(r) PROVE NothingGoesBack
    BY <2>5 DEF Send, loginVars
  <2>6. QED  BY <2>1, <2>2, <2>3, <2>4, <2>5 DEF Next, Proceed
<1>2. QED  BY <1>1, TypeCorrect, PTL DEF Spec, OnlyForward
=============================================================================
