------------------------------- MODULE MCMediaUpload -------------------------------
(***************************************************************************)
(* MediaUpload with its Repository for TLC: one upload, two goroutines     *)
(* that share a Criteria, and two records besides, so that a limit of 2    *)
(* cuts a result.                                                          *)
(***************************************************************************)
EXTENDS MediaUpload

CONSTANTS f1, k1, k2

NoIDsOrOne   == {<<>>, <<k1>>, <<f1>>}
FolderImages == {<<"folder", "images">>}
=============================================================================
