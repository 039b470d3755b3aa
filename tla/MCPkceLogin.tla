------------------------------- MODULE MCPkceLogin -------------------------------
(***************************************************************************)
(* PkceLogin for TLC: two logins that share a fixed CallbackPort, so that  *)
(* the browser tab of one may answer the other.  The first opens a browser *)
(* and has a bounded exchange, the second follows the redirect itself and  *)
(* exchanges with http.DefaultClient.                                      *)
(***************************************************************************)
EXTENDS PkceLogin

CONSTANTS l1, l2, port, r1, r2, r3

SamePort == [l \in Logins |-> port]
=============================================================================
