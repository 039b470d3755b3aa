------------------------------ MODULE SingleFlight ------------------------------
(***************************************************************************)
(* What one key of a golang.org/x/sync/singleflight Group promises the     *)
(* callers of Do: the first caller to enter leads and runs the function,   *)
(* callers that enter while it runs follow, and when the leader returns    *)
(* everyone leaves together with its result.  The Client uses one Group    *)
(* for token fetches (client.go) and one for /_info/config (info.go).  The *)
(* modules of those two are shown to implement this one.                   *)
(***************************************************************************)

CONSTANT Callers

VARIABLE role   \* role[c]: where c stands with respect to Do

Outside  == "outside"
Leader   == "leader"
Follower == "follower"

Roles == {Outside, Leader, Follower}

Init == role = [c \in Callers |-> Outside]

\* c enters Do with nothing in flight and runs the function itself.
Lead(c) ==
    /\ \A d \in Callers : role[d] = Outside
    /\ role' = [role EXCEPT ![c] = Leader]

\* c enters Do while a call is in flight and waits for its result.
Follow(c) ==
    /\ role[c] = Outside
    /\ \E d \in Callers : role[d] = Leader
    /\ role' = [role EXCEPT ![c] = Follower]

\* The leader's function returns: it and all followers leave.
Return(c) ==
    /\ role[c] = Leader
    /\ role' = [d \in Callers |-> Outside]

Next == \E c \in Callers : Lead(c) \/ Follow(c) \/ Return(c)

Fairness == \A c \in Callers : WF_role(Return(c))

Spec == Init /\ [][Next]_role /\ Fairness
=============================================================================
