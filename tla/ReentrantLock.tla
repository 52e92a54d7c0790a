--------------------------- MODULE ReentrantLock ---------------------------
(***************************************************************************)
(* What SyncSection promises to the classes that derive from              *)
(* MultiThreadSync: a reentrant readers-writer lock.  The only state is,   *)
(* for each thread, the stack of guards it is inside of.  Entering and     *)
(* leaving are atomic; who waits, and how, is left to the implementation. *)
(***************************************************************************)
EXTENDS Sequences, SequencesExt

CONSTANTS Threads,   \* the threads that use the lock
          Types      \* the guard types in use, a subset of {"READ", "WRITE"}

VARIABLE guards      \* guards[t]: types of the guards t is inside of, outermost first

Init == guards = [t \in Threads |-> <<>>]

\* The guards of two different threads conflict when one of them writes.
Conflict(t, type) ==
    \E u \in Threads \ {t} : \E i \in DOMAIN guards[u] :
        type = "WRITE" \/ guards[u][i] = "WRITE"

Enter(t, type) ==
    /\ ~Conflict(t, type)
    /\ guards' = [guards EXCEPT ![t] = Append(@, type)]

\* C++ scoping: the innermost guard is left first.
Leave(t) ==
    /\ guards[t] # <<>>
    /\ guards' = [guards EXCEPT ![t] = Front(@)]

Next == \E t \in Threads : Leave(t) \/ \E type \in Types : Enter(t, type)

Spec == Init /\ [][Next]_guards
=============================================================================
