-------------------------- MODULE AtomicStaticPool --------------------------
(***************************************************************************)
(* AtomicStaticPool<T> (AtomicStaticPool.h): the fixed pools the packets   *)
(* of the send path come from.  Alloc and Free run under _lock, so each is *)
(* one step.  The pool keeps no free list, only the number of elements in  *)
(* use: Alloc answers the element at index _used, and Free subtracts one   *)
(* from _used whichever element comes back.                                *)
(***************************************************************************)
EXTENDS Integers, FiniteSets

CONSTANTS Size,      \* _queueSize
          NoSlot     \* nullptr

Slots == 0 .. Size - 1

\* What the constants are; a premise of the theorems.
PoolAssumption == Size \in Nat /\ NoSlot \notin Slots

VARIABLES used,      \* _used
          live,      \* live[s]: pointers to element s handed out and not freed
          dirty,     \* elements whose content is not what Release() sets
          answer     \* what the last Alloc returned

vars == <<used, live, dirty, answer>>

Init ==
    /\ used = 0
    /\ live = [s \in Slots |-> 0]
    /\ dirty = {}
    /\ answer = NoSlot

\* _memory[_used].Release(); return &_memory[_used++].
Alloc ==
    /\ used # Size
    /\ dirty' = dirty \ {used}
    /\ live' = [live EXCEPT ![used] = @ + 1]
    /\ answer' = used
    /\ used' = used + 1

\* The pool is full: LOG_CRITICAL and nullptr.
AllocFull ==
    /\ used = Size
    /\ answer' = NoSlot
    /\ UNCHANGED <<used, live, dirty>>

\* _used--; the element that came back is Release()d.  Callers free what Alloc
\* returned, once each time it was returned (for any other pointer the code
\* logs and changes nothing).
Free(s) ==
    /\ live[s] > 0
    /\ used' = used - 1
    /\ dirty' = dirty \ {s}
    /\ live' = [live EXCEPT ![s] = @ - 1]
    /\ UNCHANGED answer

\* A caller writes into an element it holds.
Write(s) ==
    /\ live[s] > 0
    /\ dirty' = dirty \cup {s}
    /\ UNCHANGED <<used, live, answer>>

Next == Alloc \/ AllocFull \/ \E s \in Slots : Free(s) \/ Write(s)

Spec == Init /\ [][Next]_vars

-----------------------------------------------------------------------------
(* Properties                                                              *)

\* No element is in the hands of two callers.
Exclusive == \A s \in Slots : live[s] <= 1

\* An element is free below _used, where Alloc does not look for it; there is one
\* as soon as elements come back in another order than last in first out.
Hole == \E s \in Slots : s < used /\ live[s] = 0

\* The pointers that are out, those to an element that was lent twice included.
Loans == {g \in Slots \X (1 .. Size) : g[2] <= live[g[1]]}

TypeOK ==
    /\ used \in 0 .. Size
    /\ live \in [Slots -> 0 .. Size]
    /\ dirty \in SUBSET Slots
    /\ answer \in Slots \cup {NoSlot}

\* _used counts the pointers that are out, whatever order they come back in, and
\* nothing is written in an element nobody has.
PoolOK ==
    /\ TypeOK
    /\ used = Cardinality(Loans)
    /\ \A s \in dirty : live[s] > 0

\* Unless it has a hole, the pool has lent the first _used elements, once each,
\* even if elements were lent twice before.
PacksLoans == ~Hole => \A s \in Slots : live[s] = IF s < used THEN 1 ELSE 0

\* Unless the pool has a hole, what a caller wrote into an element stays there until
\* that caller frees it: no Alloc or Free for another caller resets it (the
\* Release() calls of AtomicStaticPool.h:51 and :69).
ContentKept == [][~Hole => \A s \in dirty : live'[s] >= live[s] => s \in dirty']_vars

\* Unless it has a hole, the pool does what a pool promises.
Exclusively == INSTANCE ExclusivePool
    WITH lent <- {s \in Slots : live[s] > 0}, Refused <- NoSlot
KeepsPromise ==
    /\ Exclusively!Init
    /\ [][~Hole => [Exclusively!Next]_(Exclusively!vars)]_vars
=============================================================================
