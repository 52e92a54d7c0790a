-------------------------- MODULE MC_QueueWorkers ---------------------------
(* One or two producers and two workers on a queue of two slots, whose       *)
(* counters wrap at 4 within the four pushes.                              *)
EXTENDS QueueWorkers

Timeouts_ == {-1, 1}

=============================================================================
