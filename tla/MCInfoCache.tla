------------------------------ MODULE MCInfoCache ------------------------------
(***************************************************************************)
(* InfoCache with three goroutines for TLC: a leader, a follower, and one  *)
(* that looks at the cache before a flight lands and joins after.          *)
(***************************************************************************)
EXTENDS InfoCache
=============================================================================
