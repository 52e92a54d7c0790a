---------------------------- MODULE MC_SendQueue ----------------------------
(* Sockets that share two packet classes, with a header of 1.  In the main  *)
(* run the classes hold 5 and 8: messages of 1 go to the small class, where *)
(* some join and leave room for a header only; 6 needs the large class, 8   *)
(* fills it without the header, and 9 fits none.  In the other runs the     *)
(* classes hold 4 and 8, and 4 fills the small one without the header.      *)
EXTENDS SendQueue

Mixed == {<<1, FALSE>>, <<6, TRUE>>, <<8, FALSE>>, <<9, FALSE>>}
Small == {1} \X BOOLEAN
Exact == {1, 4} \X BOOLEAN

=============================================================================
