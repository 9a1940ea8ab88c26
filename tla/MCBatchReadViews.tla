-------------------------- MODULE MCBatchReadViews --------------------------
(* Constants of BatchReadViews for model checking.                           *)
EXTENDS BatchReadViews

CONSTANTS k1, k2, s1

\* The string made for a digest-only second record is the user key k2.
MCNoUserKey == <<s1, k2>>
=============================================================================
