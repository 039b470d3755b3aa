------------------------------ MODULE TokenRegister ------------------------------
(***************************************************************************)
(* What the TokenStorage interface promises its users (tokenstorage.go):   *)
(* one register per key, whose operations take effect at once, and which   *)
(* treats an expired token as absent.                                      *)
(***************************************************************************)
EXTENDS Naturals

CONSTANTS
    Users,      \* who calls the storage
    Keys,       \* the keys they use
    MaxTokens   \* bound on the tokens there are

VARIABLES
    held,       \* held[k]: the unexpired token under key k, or 0
    answer      \* answer[u]: what Get returned to u last

NoToken == 0

Init ==
    /\ held \in [Keys -> {NoToken}]
    /\ answer \in [Users -> {NoToken}]

\* Set stores token t, which counts as none if it is empty or has expired.
Set(k, t) ==
    /\ held' = [held EXCEPT ![k] = t]
    /\ UNCHANGED answer

\* Delete removes the token.
Delete(k) ==
    /\ held' = [held EXCEPT ![k] = NoToken]
    /\ UNCHANGED answer

\* Get retrieves the token.
Get(u, k) ==
    /\ answer' = [answer EXCEPT ![u] = held[k]]
    /\ UNCHANGED held

\* The expiry of token t passes.
Expire(t) ==
    /\ held' = [k \in Keys |-> IF held[k] = t THEN NoToken ELSE held[k]]
    /\ UNCHANGED answer

Next ==
    \/ \E k \in Keys :
           \/ \E t \in 0 .. MaxTokens : Set(k, t)
           \/ Delete(k)
           \/ \E u \in Users : Get(u, k)
    \/ \E t \in 1 .. MaxTokens : Expire(t)

Spec == Init /\ [][Next]_<<held, answer>>
=============================================================================
