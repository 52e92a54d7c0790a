-------------------------- MODULE MC_SyncSection --------------------------
(* A SyncSection shared by a few threads; the .cfg files choose how deep   *)
(* the writers nest their guards.                                          *)
EXTENDS SyncSection

=============================================================================
