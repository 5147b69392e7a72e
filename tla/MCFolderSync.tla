----------------------------- MODULE MCFolderSync -----------------------------
(***************************************************************************)
(* An instance of FolderSync for TLC: one folder, two processes, one login *)
(* whose code lives for two polls.                                         *)
(***************************************************************************)
EXTENDS FolderSync, TLC

CONSTANTS f, p1, p2
=============================================================================
