----------------------------- MODULE MCTokenClient -----------------------------
(***************************************************************************)
(* TokenClient with small sets of goroutines for TLC, and the expiry of    *)
(* tokens with a duration small enough to wrap around.                     *)
(***************************************************************************)
EXTENDS TokenClient, TokenExpiry, TLC

Symmetry == Permutations(Callers)

Clock   == 0 .. 12
Seconds == 0 .. 10

\* The arithmetic has no state: TLC evaluates it once.
ASSUME ExpiryAssumption == ReuseWithinLifetime
=============================================================================
