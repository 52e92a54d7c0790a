---------------------------- MODULE QueueWorkers ----------------------------
(***************************************************************************)
(* Producers fill an AtomicStaticQueue that workers empty.  The queue is   *)
(* written for one consumer at a time; the workers take turns through a    *)
(* ProgressLock, as Start and End are meant to be used.  The library has   *)
(* both classes and uses neither: the workers stand for an application.    *)
(***************************************************************************)
EXTENDS AtomicStaticQueue

CONSTANT Timeouts,      \* see ProgressLock
         MaxPops        \* bound on the calls of Pop

ASSUME PopsAssumption == MaxPops \in Nat
ASSUME TimeoutsAssumption == Timeouts \subseteq Nat \cup {-1}

VARIABLES curWork, timeout, age, turn,      \* the ProgressLock
          stalled,      \* workers that stopped inside their turn
          overrun       \* history: an index was claimed whose slot is in use

Turn == INSTANCE ProgressLock WITH Workers <- Consumers

lock == <<curWork, timeout, age, turn>>
vars == <<queue, lock, stalled, overrun>>

Init ==
    /\ InitQueue
    /\ Turn!Init
    /\ stalled = {}
    /\ overrun = FALSE

-----------------------------------------------------------------------------
\* The slot of index i still waits to be read, or written.
SlotInUse(i) ==
    \/ i - front >= Size
    \/ \E q \in Producers : producer[q].pc = "write" /\ i - producer[q].index >= Size

Produce(p) ==
    /\ Push(p)
    /\ overrun' = (overrun \/ (back' # back /\ SlotInUse(back')))
    /\ UNCHANGED <<lock, stalled>>

\* A worker calls Start until it gets the turn.
TakeTurn(w) ==
    /\ ~crashed /\ w \notin stalled
    /\ Turn!Start(w)
    /\ UNCHANGED <<queue, stalled, overrun>>

Work(w) ==
    /\ w \notin stalled /\ turn[w] = "in"
    /\ front <= MaxPops
    /\ Take(w)
    /\ UNCHANGED <<lock, stalled, overrun>>

\* It gives the turn back when IsEmpty answers yes.
EndTurn(w) ==
    /\ w \notin stalled /\ At(w, "out") /\ used = 0
    /\ Turn!End(w)
    /\ UNCHANGED <<queue, stalled, overrun>>

\* A worker hangs inside its turn, the case a timeout is there for.
Stall(w) ==
    /\ ~crashed /\ timeout # -1 /\ turn[w] = "in" /\ stalled = {}
    /\ stalled' = {w}
    /\ UNCHANGED <<queue, lock, overrun>>

Tick ==
    /\ ~crashed /\ Turn!Tick
    /\ UNCHANGED <<queue, stalled, overrun>>

Consume(w) == TakeTurn(w) \/ Work(w) \/ EndTurn(w)

Next ==
    \/ \E p \in Producers : Produce(p)
    \/ \E w \in Consumers : Consume(w) \/ Stall(w)
    \/ Tick

Spec == Init /\ [][Next]_vars

\* Threads inside a call go on, an application's workers ask for the turn again
\* and work in it, and time passes.
Fairness ==
    /\ \A p \in Producers : WF_vars(Produce(p) /\ producer[p] # Out)
    /\ \A w \in Consumers : WF_vars(Consume(w))
    /\ WF_vars(Tick)

FairSpec == Spec /\ Fairness

-----------------------------------------------------------------------------
(* Properties                                                              *)

TypeOK ==
    /\ memory \in [Slots -> 0 .. MaxPushes]
    /\ front \in 1 .. MaxPops + 1 /\ back \in 0 .. MaxPushes /\ used \in 0 .. Wrap - 1
    /\ producer \in [Producers -> [pc : {"out", "write", "count", "check"}, index : 0 .. MaxPushes]]
    /\ consumer \in [Consumers -> {"out", "front", "pop", "advance"}]
    /\ pushing \subseteq Producers
    /\ logs \in Logging /\ crashed \in BOOLEAN /\ overrun \in BOOLEAN
    /\ curWork \in {0, Turn!Work} /\ timeout \in Timeouts /\ age \in -1 .. timeout
    /\ turn \in [Consumers -> {"out", "test", "swap", "stamp", "in"}]
    /\ stalled \subseteq Consumers

\* The indices in use fit the memory and do not meet when the ULONG wraps.
Sound == ~overrun /\ Wrap % Size = 0

OneProducer == \A p, q \in pushing : p = q

\* Without a timeout one worker at a time works, and _curWork says so.
TurnsExclusive == timeout = -1 => Turn!Exclusive

\* An element that was claimed and not passed yet is in its slot, unless its
\* Push did not write it yet (AtomicStaticQueue.h:37-38): no element is
\* overwritten, and none lands in another's slot.
WrittenOrPending ==
    Sound => \A i \in front .. back :
        \/ memory[Slot(i)] = i
        \/ \E p \in Producers : producer[p] = [pc |-> "write", index |-> i]

\* With one producer and no timeout, what a worker copies from Front is the
\* oldest element, completely written: _used never runs ahead of the memory.
\* (Two producers can count in any order: then it may copy a slot that is
\* claimed and not written.)
OldestIsWritten ==
    Sound /\ timeout = -1 /\ OneProducer =>
        \A w \in Consumers : consumer[w] = "front" => memory[Slot(front)] = front

\* Without a timeout _used counts the elements whenever nobody is inside a call.
UsedAgrees ==
    /\ timeout = -1
    /\ \A p \in Producers : producer[p].pc \in {"out", "check"}
    /\ \A w \in Consumers : consumer[w] # "advance"
    => used = (back - front + 1) % Wrap

\* The types, and the count.
QueueOK == TypeOK /\ UsedAgrees

\* Every index that was claimed is passed at last, whatever its slot holds by then
\* (OldestIsWritten says when it is the element), unless LOG_CRITICAL finds a log to
\* write to and ends the process (AtomicStaticQueue.h:41-45).
Drained == []<>(crashed \/ timeout # -1 \/ front > back)

\* With a timeout a worker that hangs in its turn does not keep the others out.
TakenOver ==
    (stalled # {}) ~> (crashed \/ \E w \in Consumers \ stalled : turn[w] = "in")
=============================================================================
