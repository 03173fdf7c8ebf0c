---------------------------- MODULE MCFirstScreen ----------------------------
(***************************************************************************)
(* Small instances of FirstScreen for TLC.                                 *)
(***************************************************************************)
EXTENDS FirstScreen

AllApps == [earlyReload : BOOLEAN, markInReload : BOOLEAN]
AllTimings == {"immediately", "jsReady", "manual"}
=============================================================================
