--------------------------- MODULE MCSnapshotPatch ---------------------------
(***************************************************************************)
(* Small instances of SnapshotPatch for TLC.                               *)
(***************************************************************************)
EXTENDS SnapshotPatch

OneValue == {1}
=============================================================================
