--------------------------- MODULE ExclusivePool ---------------------------
(***************************************************************************)
(* What a pool promises its callers: an element that is lent out is not    *)
(* lent again before it comes back, and a caller is refused only when      *)
(* everything is lent.                                                     *)
(***************************************************************************)
CONSTANTS Slots,     \* the elements of the pool
          Refused    \* the answer to a caller that gets nothing

VARIABLES lent,      \* the elements that callers hold
          answer     \* what the last call to the pool returned

vars == <<lent, answer>>

Init == lent = {} /\ answer = Refused

Lend(s) ==
    /\ s \notin lent
    /\ lent' = lent \cup {s}
    /\ answer' = s

Refuse ==
    /\ lent = Slots
    /\ answer' = Refused
    /\ UNCHANGED lent

TakeBack(s) ==
    /\ s \in lent
    /\ lent' = lent \ {s}
    /\ UNCHANGED answer

Next == Refuse \/ \E s \in Slots : Lend(s) \/ TakeBack(s)

Spec == Init /\ [][Next]_vars
=============================================================================
