--------------------------- MODULE MC_RecvFraming ---------------------------
(* A header of two bytes can arrive in two parts; packets are a bare header, *)
(* one that leaves room for another, and one that fills the buffer.        *)
EXTENDS RecvFraming

=============================================================================
