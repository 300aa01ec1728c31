---------------------------- MODULE MCWorkspace ----------------------------
(* Instance of Workspace for TLC.                                          *)
EXTENDS Workspace, TLC

WorkspaceSymmetry == Permutations(Boards)
=============================================================================
