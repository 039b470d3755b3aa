---------------------------- MODULE MCExtensionManager ----------------------------
(***************************************************************************)
(* ExtensionManager for TLC: three goroutines as in InfoCache, two of them *)
(* with a Manager, and a shop that is upgraded past PostSince, to a        *)
(* version that parses and one that does not.                              *)
(***************************************************************************)
EXTENDS ExtensionManager
=============================================================================
