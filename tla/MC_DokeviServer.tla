-------------------------- MODULE MC_DokeviServer ---------------------------
(* One or two IO threads (Run chooses), one or two accept slots, and enough *)
(* TCPSockets and connections for handle numbers to be reused.             *)
EXTENDS DokeviServer

=============================================================================
