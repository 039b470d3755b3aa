--------------------------- MODULE MCFileTokenStorage ---------------------------
(***************************************************************************)
(* FileTokenStorage for TLC: goroutines in one process or in two, and      *)
(* scopes and keys that are the same sequence of characters once put       *)
(* together without a separator.                                           *)
(***************************************************************************)
EXTENDS FileTokenStorage

CONSTANTS a, b, g1, g2, p1, p2

TwoClients == {<< <<a>>, <<b, b>> >>, << <<a, b>>, <<b>> >>}

SameProcess  == [g \in {g1, g2} |-> p1]
TwoProcesses == [g \in {g1, g2} |-> IF g = g1 THEN p1 ELSE p2]

AllHomes   == {SameProcess, TwoProcesses}
SplitHomes == {TwoProcesses}
=============================================================================
