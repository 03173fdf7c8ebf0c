------------------------- MODULE MCThreadFunctions -------------------------
(***************************************************************************)
(* Small instances of ThreadFunctions for TLC.                             *)
(***************************************************************************)
EXTENDS ThreadFunctions

\* An app without bad habits; some that no leak depends on; some that no handle does.
ThreeApps == {{}, {"longRunning", "throws"}, {"plain", "repeats", "mismatch"}}
=============================================================================
