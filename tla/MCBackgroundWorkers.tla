------------------------- MODULE MCBackgroundWorkers -------------------------
(***************************************************************************)
(* Small instances of BackgroundWorkers for TLC.                           *)
(***************************************************************************)
EXTENDS BackgroundWorkers, TLC

CONSTANTS c1, c2, c3, c4, g1, g2

\* Two cards share a worker, one is in a group of its own, one in none.
TwoGroups == (c1 :> g1) @@ (c2 :> g1) @@ (c3 :> g2) @@ (c4 :> NoGroup)
=============================================================================
