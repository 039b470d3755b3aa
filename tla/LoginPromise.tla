------------------------------- MODULE LoginPromise -------------------------------
(***************************************************************************)
(* What Login (pkce/pkce.go) promises NewClient: it ends once, with an     *)
(* error or with tokens, and with tokens only if the user granted this     *)
(* very login.  PkceSession relies on it, PkceLogin is shown to implement  *)
(* it.                                                                     *)
(***************************************************************************)

CONSTANT Logins

VARIABLES
    outcome,    \* outcome[l]: how far the call l of Login is
    granted     \* the logins the user has granted in the shop

Outcomes == {"none", "running", "tokens", "error"}

Init ==
    /\ outcome = [l \in Logins |-> "none"]
    /\ granted = {}

\* Login is called.
Begin(l) ==
    /\ outcome[l] = "none"
    /\ outcome' = [outcome EXCEPT ![l] = "running"]
    /\ UNCHANGED granted

\* The user grants l access, which the shop answers with a code.
Grant(l) ==
    /\ outcome[l] # "none"
    /\ granted' = granted \cup {l}
    /\ UNCHANGED outcome

Succeed(l) ==
    /\ outcome[l] = "running"
    /\ l \in granted
    /\ outcome' = [outcome EXCEPT ![l] = "tokens"]
    /\ UNCHANGED granted

\* It fails, at once or after a while, granted or not.
Fail(l) ==
    /\ outcome[l] \in {"none", "running"}
    /\ outcome' = [outcome EXCEPT ![l] = "error"]
    /\ UNCHANGED granted

Next == \E l \in Logins : Begin(l) \/ Grant(l) \/ Succeed(l) \/ Fail(l)

Spec == Init /\ [][Next]_<<outcome, granted>>
=============================================================================
