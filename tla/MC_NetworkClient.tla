-------------------------- MODULE MC_NetworkClient --------------------------
(* A length of two bytes can arrive in two parts; packets are a length and  *)
(* a protocol only, or fill the buffer.                                    *)
EXTENDS NetworkClient

=============================================================================
