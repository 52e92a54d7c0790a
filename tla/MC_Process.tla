----------------------------- MODULE MC_Process -----------------------------
(* The main thread and up to two IO threads that nest calls until they meet *)
(* the maximal depth, and one option.                                       *)
EXTENDS Process

=============================================================================
