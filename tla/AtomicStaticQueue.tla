------------------------- MODULE AtomicStaticQueue --------------------------
(***************************************************************************)
(* AtomicStaticQueue<T> (AtomicStaticQueue.h), one interlocked operation   *)
(* or memory access per step.  Push claims an index, writes the element,   *)
(* counts it, and only then finds out whether there was room; a consumer   *)
(* asks IsEmpty, copies *Front() and calls Pop.                            *)
(*                                                                         *)
(* _front and _back are kept as the numbers of increments; the ULONG is    *)
(* that number modulo Wrap.  An element is identified by the index that    *)
(* its Push claimed, and 0 is what new T[] left in the memory.             *)
(***************************************************************************)
EXTENDS Integers, FiniteSets

CONSTANTS Producers,    \* threads that call Push
          Consumers,    \* threads that call IsEmpty, Front and Pop
          Size,         \* _queueSize
          Wrap,         \* range of ULONG
          MaxPushes,    \* bound on the calls of Push
          Logging       \* whether LogManager writes logs: possible values

ASSUME SizeAssumption == Size \in Nat \ {0}
ASSUME WrapAssumption == Wrap \in Nat \ {0}
ASSUME BoundAssumption == MaxPushes \in Nat
ASSUME LoggingAssumption == Logging \subseteq BOOLEAN

VARIABLES memory,       \* _memory
          front,        \* _front, increments included
          back,         \* _back, increments included
          used,         \* _used
          producer,     \* producer[p]: [pc, index], what Push is about to do
          consumer,     \* consumer[c]: what the consumer is about to do
          pushing,      \* the threads that push in this behaviour
          logs,         \* _isInit and _useSpdlog of LogManager
          crashed       \* LOG_CRITICAL divided by zero

counters == <<front, back, used>>
queue == <<memory, front, back, used, producer, consumer, pushing, logs, crashed>>

Slots == 0 .. Size - 1
Slot(i) == (i % Wrap) % Size

Out == [pc |-> "out", index |-> 0]

InitQueue ==
    /\ memory = [s \in Slots |-> 0]
    /\ front = 1 /\ back = 0 /\ used = 0
    /\ producer = [p \in Producers |-> Out]
    /\ consumer = [c \in Consumers |-> "out"]
    /\ pushing \in SUBSET Producers
    /\ logs \in Logging
    /\ crashed = FALSE

-----------------------------------------------------------------------------
(* Push                                                                    *)

Step(p, pc, index) == producer' = [producer EXCEPT ![p] = [pc |-> pc, index |-> index]]

\* Bounds: MaxPushes calls, and never 2^32 elements at once.
Claim(p) ==
    /\ ~crashed /\ p \in pushing /\ back < MaxPushes /\ back - front < Wrap - 2
    /\ producer[p].pc = "out"
    /\ back' = back + 1
    /\ Step(p, "write", back + 1)
    /\ UNCHANGED <<memory, front, used, consumer, pushing, logs, crashed>>

\* Mutant: the element goes to the slot before the claimed one.
WriteBefore(p) ==
    /\ ~crashed /\ producer[p].pc = "write"
    /\ memory' = [memory EXCEPT ![Slot(producer[p].index + Size - 1)] = producer[p].index]
    /\ Step(p, "count", 0)
    /\ UNCHANGED <<counters, consumer, pushing, logs, crashed>>

Write(p) ==
    /\ ~crashed /\ producer[p].pc = "write"
    /\ memory' = [memory EXCEPT ![Slot(producer[p].index)] = producer[p].index]
    /\ Step(p, "count", 0)
    /\ UNCHANGED <<counters, consumer, pushing, logs, crashed>>

Count(p) ==
    /\ ~crashed /\ producer[p].pc = "count"
    /\ used' = (used + 1) % Wrap
    /\ Step(p, "check", 0)
    /\ UNCHANGED <<memory, front, back, consumer, pushing, logs, crashed>>

\* LOG_CRITICAL crashes the process if there is a log to write to, and returns
\* if there is none.
CheckFull(p) ==
    /\ ~crashed /\ producer[p].pc = "check"
    /\ crashed' = (used >= Size /\ logs)
    /\ Step(p, "out", 0)
    /\ UNCHANGED <<memory, counters, consumer, pushing, logs>>

Push(p) == Claim(p) \/ Write(p) \/ Count(p) \/ CheckFull(p)

-----------------------------------------------------------------------------
(* IsEmpty, Front and Pop                                                  *)

At(c, pc) == ~crashed /\ consumer[c] = pc

Continue(c, pc) == consumer' = [consumer EXCEPT ![c] = pc]

\* Mutant: IsEmpty looks at the indices instead of the count.
IsEmptyByIndex(c) ==
    /\ At(c, "out")
    /\ front <= back
    /\ Continue(c, "front")
    /\ UNCHANGED <<memory, counters, producer, pushing, logs, crashed>>

\* IsEmpty() answers no.
IsEmpty(c) ==
    /\ At(c, "out")
    /\ used # 0
    /\ Continue(c, "front")
    /\ UNCHANGED <<memory, counters, producer, pushing, logs, crashed>>

\* *Front() is copied.
Front(c) ==
    /\ At(c, "front")
    /\ Continue(c, "pop")
    /\ UNCHANGED <<memory, counters, producer, pushing, logs, crashed>>

\* Mutant: _used is signed, as Pop's test of it supposes.
PopSigned(c) ==
    /\ At(c, "pop")
    /\ used' = used - 1
    /\ Continue(c, "advance")
    /\ UNCHANGED <<memory, front, back, producer, pushing, logs, crashed>>

\* InterlockedDecrement; _used < 0 is never true of a ULONG.
Pop(c) ==
    /\ At(c, "pop")
    /\ used' = (used - 1) % Wrap
    /\ Continue(c, "advance")
    /\ UNCHANGED <<memory, front, back, producer, pushing, logs, crashed>>

Advance(c) ==
    /\ At(c, "advance")
    /\ front' = front + 1
    /\ Continue(c, "out")
    /\ UNCHANGED <<memory, back, used, producer, pushing, logs, crashed>>

Take(c) == IsEmpty(c) \/ Front(c) \/ Pop(c) \/ Advance(c)
=============================================================================
