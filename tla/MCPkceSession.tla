----------------------------- MODULE MCPkceSession -----------------------------
(***************************************************************************)
(* PkceSession for TLC: the deployments each run looks at.                 *)
(***************************************************************************)
EXTENDS PkceSession

CONSTANTS p1, p2

\* Every combination that decides which promise holds: one process with and
\* without faults, two at once, a shop that rotates refresh tokens or not, an
\* endpoint that is always in reach or not.
Deployments ==
    {[users |-> {p1}, rotating |-> TRUE, faults |-> f] :
         f \in {{"unreachable"}, {"unreachable", "crash", "save"}, {"lost", "save", "revoke"}}}
    \cup {[users |-> {p1, p2}, rotating |-> r,
            faults |-> {"unreachable", "crash", "save", "lost"}] : r \in BOOLEAN}

\* One process, which may die.
CrashingProcess ==
    {[users |-> {p1}, rotating |-> TRUE, faults |-> {"crash"}]}
=============================================================================
