------------------------- MODULE QueueWorkersProofs -------------------------
(***************************************************************************)
(* For any producers, workers, sizes and timeouts: the types; that without *)
(* a timeout one worker at a time has the turn; and that an element which  *)
(* was claimed is in its slot or about to be written there, for every      *)
(* queue whose size divides the range of its counters; and that _used      *)
(* agrees with the indices whenever nobody is inside a call.               *)
(***************************************************************************)
EXTENDS QueueWorkers, FiniteSetTheorems, TLAPS

-----------------------------------------------------------------------------
(* Slots                                                                   *)

\* Division with remainder.
LEMMA DivMod ==
    ASSUME NEW a \in Int, NEW n \in Nat \ {0}
    PROVE  /\ a % n \in 0 .. n - 1
           /\ \E q \in Int : a = n * q + (a % n)
<1>1. a % n \in 0 .. n - 1
  OBVIOUS
<1>2. a \div n \in Int /\ a = n * (a \div n) + (a % n)
  OBVIOUS
<1> QED
  BY <1>1, <1>2

LEMMA SlotInSlots == ASSUME NEW i \in Nat PROVE Slot(i) \in Slots
  BY DivMod, SizeAssumption, WrapAssumption DEF Slot, Slots

\* A slot is the index modulo the size, whatever the wrap-around takes away.
LEMMA SlotOfIndex ==
    ASSUME Wrap % Size = 0, NEW i \in Nat
    PROVE  \E q \in Int : i = Size * q + Slot(i)
<1>1. PICK k \in Int : Wrap = Size * k
  <2>1. Wrap \in Int /\ Size \in Nat \ {0}
    BY SizeAssumption, WrapAssumption
  <2>2. \E q \in Int : Wrap = Size * q + (Wrap % Size)
    BY <2>1, DivMod, Zenon
  <2> QED
    BY <2>1, <2>2
<1>2. PICK a \in Int : i = Wrap * a + (i % Wrap)
  <2>1. i \in Int /\ Wrap \in Nat \ {0}
    BY WrapAssumption
  <2> QED
    BY <2>1, DivMod, Zenon
<1>3. i % Wrap \in Nat
  BY DivMod, WrapAssumption
<1>4. PICK b \in Int : i % Wrap = Size * b + Slot(i)
  <2>1. i % Wrap \in Int /\ Size \in Nat \ {0}
    BY <1>3, SizeAssumption
  <2> QED
    BY <2>1, DivMod, Zenon DEF Slot
<1>5. Slot(i) \in Int
  BY SlotInSlots, SizeAssumption DEF Slots
<1>6. k * a + b \in Int /\ i = Size * (k * a + b) + Slot(i)
  BY <1>1, <1>2, <1>3, <1>4, <1>5, SizeAssumption, WrapAssumption
<1> QED
  BY <1>6

\* Indices less than Size apart have slots of their own.
LEMMA SlotsDiffer ==
    ASSUME Wrap % Size = 0, NEW i \in Nat, NEW j \in Nat, i < j, j - i < Size
    PROVE  Slot(i) # Slot(j)
<1> SUFFICES ASSUME Slot(i) = Slot(j) PROVE FALSE
  OBVIOUS
<1>1. PICK a \in Int : i = Size * a + Slot(i)
  BY SlotOfIndex
<1>2. PICK b \in Int : j = Size * b + Slot(j)
  BY SlotOfIndex
<1>3. Slot(i) \in Int /\ Size \in Nat \ {0}
  BY SlotInSlots, SizeAssumption DEF Slots
<1>4. j - i = Size * (b - a)
  BY <1>1, <1>2, <1>3
<1>5. CASE b - a <= 0
  BY <1>3, <1>4, <1>5
<1>6. CASE b - a >= 1
  BY <1>3, <1>4, <1>6
<1> QED
  BY <1>5, <1>6

-----------------------------------------------------------------------------
(* The types                                                               *)

LEMMA TypeInit == Init => TypeOK
<1> SUFFICES ASSUME Init PROVE TypeOK
  OBVIOUS
<1>1. memory \in [Slots -> 0 .. MaxPushes] /\ front \in 1 .. MaxPops + 1
      /\ back \in 0 .. MaxPushes /\ used \in 0 .. Wrap - 1
  BY BoundAssumption, PopsAssumption, WrapAssumption DEF Init, InitQueue
<1>2. producer \in [Producers -> [pc : {"out", "write", "count", "check"}, index : 0 .. MaxPushes]]
  BY BoundAssumption DEF Init, InitQueue, Out
<1>3. logs \in Logging /\ pushing \subseteq Producers /\ crashed \in BOOLEAN
      /\ consumer \in [Consumers -> {"out", "front", "pop", "advance"}]
  BY DEF Init, InitQueue
<1>4. curWork \in {0, Turn!Work} /\ timeout \in Timeouts
      /\ turn \in [Consumers -> {"out", "test", "swap", "stamp", "in"}]
      /\ stalled \subseteq Consumers /\ overrun \in BOOLEAN
  BY DEF Init, Turn!Init
<1>5. age \in -1 .. timeout
  BY TimeoutsAssumption DEF Init, Turn!Init
<1> QED
  BY <1>1, <1>2, <1>3, <1>4, <1>5 DEF TypeOK

LEMMA TypeStep == TypeOK /\ [Next]_vars => TypeOK'
<1> SUFFICES ASSUME TypeOK, [Next]_vars PROVE TypeOK'
  OBVIOUS
<1> USE SizeAssumption, WrapAssumption, BoundAssumption, PopsAssumption, TimeoutsAssumption
<1>1. ASSUME NEW p \in Producers, Produce(p) PROVE TypeOK'
  <2>0. UNCHANGED <<front, consumer, pushing, logs, lock, stalled>> /\ overrun' \in BOOLEAN
    BY <1>1 DEF Produce, Push, Claim, Write, Count, CheckFull, counters, TypeOK
  <2>1. CASE Claim(p)
    BY <2>0, <2>1 DEF Claim, Step, TypeOK, lock
  <2>2. CASE Write(p)
    <3>1. producer[p].index \in 0 .. MaxPushes /\ Slot(producer[p].index) \in Slots
      BY SlotInSlots DEF TypeOK
    <3>2. memory' \in [Slots -> 0 .. MaxPushes]
      BY <2>2, <3>1 DEF Write, TypeOK
    <3> QED
      BY <2>0, <2>2, <3>2 DEF Write, Step, TypeOK, lock, counters
  <2>3. CASE Count(p)
    <3>1. (used + 1) % Wrap \in 0 .. Wrap - 1
      BY DivMod DEF TypeOK
    <3> QED
      BY <2>0, <2>3, <3>1 DEF Count, Step, TypeOK, lock
  <2>4. CASE CheckFull(p)
    BY <2>0, <2>4 DEF CheckFull, Step, TypeOK, lock, counters
  <2> QED
    BY <1>1, <2>1, <2>2, <2>3, <2>4 DEF Produce, Push
<1>2. ASSUME NEW w \in Consumers, TakeTurn(w) PROVE TypeOK'
  <2>1. UNCHANGED <<queue, stalled, overrun>>
    BY <1>2 DEF TakeTurn
  <2>2. /\ curWork' \in {0, Turn!Work} /\ timeout' = timeout /\ age' \in -1 .. timeout
        /\ turn' \in [Consumers -> {"out", "test", "swap", "stamp", "in"}]
    BY <1>2 DEF TakeTurn, Turn!Start, Turn!TestWork, Turn!TestTimeout, Turn!Swap, Turn!Stamp, Turn!Goto, TypeOK
  <2> QED
    BY <2>1, <2>2 DEF TypeOK, queue
<1>3. ASSUME NEW w \in Consumers, Work(w) PROVE TypeOK'
  <2>0. UNCHANGED <<memory, back, producer, pushing, logs, crashed, lock, stalled, overrun>>
    BY <1>3 DEF Work, Take, IsEmpty, Front, Pop, Advance, counters
  <2>1. consumer' \in [Consumers -> {"out", "front", "pop", "advance"}]
    BY <1>3 DEF Work, Take, IsEmpty, Front, Pop, Advance, Continue, TypeOK
  <2>2. (used - 1) % Wrap \in 0 .. Wrap - 1
    BY DivMod DEF TypeOK
  <2>3. front' \in 1 .. MaxPops + 1 /\ used' \in 0 .. Wrap - 1
    BY <1>3, <2>2 DEF Work, Take, IsEmpty, Front, Pop, Advance, TypeOK, counters
  <2> QED
    BY <2>0, <2>1, <2>3 DEF TypeOK, lock
<1>4. ASSUME NEW w \in Consumers, EndTurn(w) PROVE TypeOK'
  BY <1>4 DEF EndTurn, Turn!End, Turn!Goto, TypeOK, queue
<1>5. ASSUME NEW w \in Consumers, Stall(w) PROVE TypeOK'
  BY <1>5 DEF Stall, TypeOK, queue, lock
<1>6. CASE Tick
  BY <1>6 DEF Tick, Turn!Tick, TypeOK, queue
<1>7. CASE UNCHANGED vars
  BY <1>7 DEF vars, TypeOK, queue, lock
<1> QED
  BY <1>1, <1>2, <1>3, <1>4, <1>5, <1>6, <1>7 DEF Next, Consume

\* TypeOK holds in every state, for any threads, sizes and bounds.
THEOREM TypeCorrect == Spec => []TypeOK
  BY TypeInit, TypeStep, PTL DEF Spec

-----------------------------------------------------------------------------
(* Turns                                                                   *)

\* Without a timeout, who is past the exchange has the work, and is alone.
TurnInv ==
    timeout = -1 =>
        /\ \A w \in Consumers : turn[w] # "test"
        /\ \A w \in Consumers : turn[w] \in {"stamp", "in"} => curWork = Turn!Work
        /\ \A v, w \in Consumers :
               turn[v] \in {"stamp", "in"} /\ turn[w] \in {"stamp", "in"} => v = w

LEMMA TurnStep == TypeOK /\ TurnInv /\ [Next]_vars => TurnInv'
<1> SUFFICES ASSUME TypeOK, TurnInv, [Next]_vars, timeout' = -1 PROVE TurnInv'
  BY DEF TurnInv
<1>0. timeout = -1
  <2>1. timeout' = timeout
    BY DEF Next, vars, lock, Produce, Consume, TakeTurn, Work, EndTurn, Stall, Tick,
           Turn!Start, Turn!TestWork, Turn!TestTimeout, Turn!Swap, Turn!Stamp, Turn!End, Turn!Tick
  <2> QED
    BY <2>1
<1>1. ASSUME NEW w \in Consumers, TakeTurn(w) PROVE TurnInv'
  <2>0. CASE Turn!TestWork(w)
    BY <1>0, <2>0 DEF Turn!TestWork, Turn!Goto, TurnInv, TypeOK
  <2>1. CASE Turn!TestTimeout(w)
    BY <1>0, <2>1 DEF Turn!TestTimeout, Turn!Goto, TurnInv, TypeOK
  <2>2. CASE Turn!Swap(w)
    BY <1>0, <2>2 DEF Turn!Swap, Turn!Goto, Turn!Work, TurnInv, TypeOK
  <2>3. CASE Turn!Stamp(w)
    BY <1>0, <2>3 DEF Turn!Stamp, Turn!Goto, TurnInv, TypeOK
  <2> QED
    BY <1>1, <2>0, <2>1, <2>2, <2>3 DEF TakeTurn, Turn!Start
<1>2. ASSUME NEW w \in Consumers, EndTurn(w) PROVE TurnInv'
  BY <1>0, <1>2 DEF EndTurn, Turn!End, Turn!Goto, TurnInv, TypeOK
<1>3. CASE UNCHANGED <<curWork, turn>>
  BY <1>0, <1>3 DEF TurnInv
<1>4. CASE Tick
  BY <1>3, <1>4 DEF Tick, Turn!Tick
<1>5. CASE UNCHANGED lock
  BY <1>3, <1>5 DEF lock
<1> QED
  BY <1>1, <1>2, <1>4, <1>5 DEF Next, vars, Produce, Consume, Work, Stall

\* TurnsExclusive: without a timeout no two workers have the turn, for any
\* number of workers (ProgressLock.h:27-51).
THEOREM OneTurn == Spec => []TurnsExclusive
<1>1. Init => TurnInv
  BY DEF Init, Turn!Init, TurnInv
<1>2. TurnInv => TurnsExclusive
  BY DEF TurnInv, TurnsExclusive, Turn!Exclusive
<1> QED
  BY <1>1, <1>2, TurnStep, TypeCorrect, PTL DEF Spec

-----------------------------------------------------------------------------
(* Elements                                                                *)

\* As long as no claim meets a slot in use, the indices on their way and the
\* indices in the queue are less than Size apart.
FitsInv ==
    ~overrun =>
        /\ back - front < Size
        /\ \A p \in Producers : producer[p].pc = "write" =>
               producer[p].index <= back /\ back - producer[p].index < Size

LEMMA FitsStep == TypeOK /\ FitsInv /\ [Next]_vars => FitsInv'
<1> SUFFICES ASSUME TypeOK, FitsInv, [Next]_vars, ~overrun' PROVE FitsInv'
  BY DEF FitsInv
<1> USE SizeAssumption
<1>1. ASSUME NEW p \in Producers, Claim(p), Produce(p) PROVE FitsInv'
  <2>0. front' = front /\ back' = back + 1 /\ back' # back /\ front \in Int /\ back \in Int
    BY <1>1, BoundAssumption, PopsAssumption DEF Claim, TypeOK
  <2>1. ~overrun /\ ~SlotInUse(back + 1)
    BY <1>1, <2>0 DEF Produce
  <2>2. producer' = [producer EXCEPT ![p] = [pc |-> "write", index |-> back + 1]]
    BY <1>1 DEF Claim, Step
  <2>3. back + 1 - front < Size
    BY <2>1 DEF SlotInUse, TypeOK
  <2>4. ASSUME NEW q \in Producers, producer'[q].pc = "write"
        PROVE  producer'[q].index <= back' /\ back' - producer'[q].index < Size
    <3>1. CASE q = p
      BY <2>0, <2>2, <3>1 DEF TypeOK
    <3>2. CASE q # p
      <4>1. producer'[q] = producer[q] /\ producer[q].index \in Nat
        BY <2>2, <3>2 DEF TypeOK
      <4> QED
        BY <2>0, <2>1, <2>4, <4>1 DEF SlotInUse, FitsInv
    <3> QED
      BY <3>1, <3>2
  <2>5. back' - front' < Size
    BY <2>0, <2>3
  <2> QED
    BY <2>4, <2>5, Zenon DEF FitsInv
<1>2. ASSUME NEW p \in Producers, Write(p) \/ Count(p) \/ CheckFull(p), Produce(p) PROVE FitsInv'
  <2>1. ~overrun /\ front' = front /\ back' = back
    BY <1>2 DEF Produce, Write, Count, CheckFull, counters, TypeOK
  <2>2. \A q \in Producers : producer'[q].pc = "write" => producer'[q] = producer[q]
    BY <1>2 DEF Write, Count, CheckFull, Step, TypeOK
  <2> QED
    BY <2>1, <2>2 DEF FitsInv
<1>3. CASE UNCHANGED <<back, producer, overrun>> /\ (front' = front \/ front' = front + 1)
  <2>0. back' = back /\ producer' = producer /\ ~overrun /\ (front' = front \/ front' = front + 1)
    BY <1>3, Zenon
  <2>1. front \in Int /\ back \in Int /\ back - front < Size
    BY <2>0, PopsAssumption, BoundAssumption DEF FitsInv, TypeOK
  <2>2. back' - front' < Size
    BY <2>0, <2>1
  <2> QED
    BY <2>0, <2>2 DEF FitsInv
<1>4. ASSUME NEW w \in Consumers, Consume(w) \/ Stall(w) PROVE FitsInv'
  BY <1>3, <1>4 DEF Consume, TakeTurn, Work, EndTurn, Stall, Take, IsEmpty, Front, Pop, Advance,
                    queue, counters
<1>5. CASE Tick \/ UNCHANGED vars
  BY <1>3, <1>5 DEF Tick, vars, queue
<1> QED
  BY <1>1, <1>2, <1>4, <1>5 DEF Next, Produce, Push

LEMMA WrittenStep == TypeOK /\ FitsInv /\ WrittenOrPending /\ [Next]_vars => WrittenOrPending'
<1> SUFFICES ASSUME TypeOK, FitsInv, WrittenOrPending, [Next]_vars, ~overrun', Wrap % Size = 0,
                    NEW i \in front' .. back'
             PROVE  \/ memory'[Slot(i)] = i
                    \/ \E q \in Producers : producer'[q] = [pc |-> "write", index |-> i]
  BY Zenon DEF WrittenOrPending, Sound
<1> DEFINE Pends(q) == producer[q] = [pc |-> "write", index |-> i]
<1>0. front \in Nat /\ back \in Nat /\ Size \in Nat \ {0}
  BY SizeAssumption, PopsAssumption, BoundAssumption DEF TypeOK
<1>1. ASSUME ~overrun, i \in front .. back
      PROVE  memory[Slot(i)] = i \/ \E q \in Producers : Pends(q)
  BY <1>1, Zenon DEF WrittenOrPending, Sound
<1>2. ASSUME NEW p \in Producers, Claim(p), Produce(p)
      PROVE  memory'[Slot(i)] = i \/ \E q \in Producers : producer'[q] = [pc |-> "write", index |-> i]
  <2>1. front' = front /\ back' = back + 1 /\ memory' = memory /\ producer[p].pc = "out"
    BY <1>2 DEF Claim
  <2>2. producer' = [producer EXCEPT ![p] = [pc |-> "write", index |-> back + 1]]
    BY <1>2 DEF Claim, Step
  <2>3. ~overrun
    BY <1>2 DEF Produce
  <2>4. CASE i = back + 1
    <3>1. producer'[p] = [pc |-> "write", index |-> i]
      BY <2>2, <2>4 DEF TypeOK
    <3> QED
      BY <3>1
  <2>5. CASE i # back + 1
    <3>1. i \in front .. back
      BY <1>0, <2>1, <2>5
    <3>2. ASSUME NEW q \in Producers, Pends(q)
          PROVE  producer'[q] = [pc |-> "write", index |-> i]
      BY <2>1, <2>2, <3>2 DEF TypeOK
    <3> QED
      BY <1>1, <2>1, <2>3, <3>1, <3>2
  <2> QED
    BY <2>4, <2>5
<1>3. ASSUME NEW p \in Producers, Write(p), Produce(p)
      PROVE  memory'[Slot(i)] = i \/ \E q \in Producers : producer'[q] = [pc |-> "write", index |-> i]
  <2> DEFINE j == producer[p].index
  <2>1. front' = front /\ back' = back /\ producer[p].pc = "write"
        /\ memory' = [memory EXCEPT ![Slot(j)] = j]
    BY <1>3 DEF Write, counters
  <2>2. producer' = [producer EXCEPT ![p] = [pc |-> "count", index |-> 0]]
    BY <1>3 DEF Write, Step
  <2>3. ~overrun
    BY <1>3 DEF Produce
  <2>4. j \in Nat /\ i \in Nat /\ i \in front .. back /\ Slot(i) \in Slots /\ Slot(j) \in Slots
    <3>1. j \in Nat /\ i \in Nat /\ i \in front .. back
      BY <1>0, <2>1 DEF TypeOK
    <3> QED
      BY <3>1, SlotInSlots
  <2>5. CASE i = j
    BY <2>1, <2>4, <2>5 DEF TypeOK
  <2>6. CASE i # j
    <3>1. j <= back /\ back - j < Size /\ back - front < Size
      BY <2>1, <2>3 DEF FitsInv
    <3>2. ASSUME i < j PROVE Slot(i) # Slot(j)
      <4>1. j - i < Size
        BY <1>0, <2>4, <3>1, <3>2
      <4> QED
        BY <2>4, <3>2, <4>1, SlotsDiffer
    <3>3. ASSUME j < i PROVE Slot(i) # Slot(j)
      <4>1. i - j < Size
        BY <1>0, <2>4, <3>1, <3>3
      <4> QED
        BY <2>4, <3>3, <4>1, SlotsDiffer
    <3>4. Slot(i) # Slot(j)
      BY <2>4, <2>6, <3>2, <3>3
    <3>5. memory'[Slot(i)] = memory[Slot(i)]
      BY <2>1, <2>4, <3>4 DEF TypeOK
    <3>6. ASSUME NEW q \in Producers, Pends(q)
          PROVE  producer'[q] = [pc |-> "write", index |-> i]
      BY <2>2, <2>6, <3>6 DEF TypeOK
    <3> QED
      BY <1>1, <2>3, <2>4, <3>5, <3>6
  <2> QED
    BY <2>5, <2>6
<1>4. ASSUME NEW p \in Producers, Count(p) \/ CheckFull(p), Produce(p)
      PROVE  memory'[Slot(i)] = i \/ \E q \in Producers : producer'[q] = [pc |-> "write", index |-> i]
  <2>1. ~overrun /\ front' = front /\ back' = back /\ memory' = memory
    BY <1>4 DEF Produce, Count, CheckFull, counters
  <2>2. ASSUME NEW q \in Producers, Pends(q)
        PROVE  producer'[q] = [pc |-> "write", index |-> i]
    BY <1>4, <2>2 DEF Count, CheckFull, Step, TypeOK
  <2> QED
    BY <1>1, <2>1, <2>2
<1>5. ASSUME UNCHANGED <<memory, back, producer, overrun>>, front' = front \/ front' = front + 1
      PROVE  memory'[Slot(i)] = i \/ \E q \in Producers : producer'[q] = [pc |-> "write", index |-> i]
  <2>1. ~overrun /\ memory' = memory /\ back' = back /\ producer' = producer
    BY <1>5, Zenon
  <2>2. i \in front .. back
    BY <1>0, <1>5, <2>1
  <2> QED
    BY <1>1, <2>1, <2>2
<1>6. ASSUME NEW w \in Consumers, Consume(w) \/ Stall(w)
      PROVE  UNCHANGED <<memory, back, producer, overrun>> /\ (front' = front \/ front' = front + 1)
  BY <1>6 DEF Consume, TakeTurn, Work, EndTurn, Stall, Take, IsEmpty, Front, Pop, Advance,
              queue, counters
<1>7. ASSUME Tick \/ UNCHANGED vars
      PROVE  UNCHANGED <<memory, back, producer, overrun>> /\ front' = front
  BY <1>7 DEF Tick, vars, queue
<1> QED
  BY <1>2, <1>3, <1>4, <1>5, <1>6, <1>7 DEF Next, Produce, Push

\* WrittenOrPending: no element is overwritten and none lands in the slot of
\* another, for every size that divides the range of the counters and as long as
\* nobody claims a slot in use (AtomicStaticQueue.h:34-47).
THEOREM ElementsKept == Spec => []WrittenOrPending
<1>1. Init => FitsInv /\ WrittenOrPending
  <2> SUFFICES ASSUME Init PROVE FitsInv /\ WrittenOrPending
    OBVIOUS
  <2>1. front = 1 /\ back = 0 /\ \A p \in Producers : producer[p].pc = "out"
    BY DEF Init, InitQueue, Out
  <2> QED
    BY <2>1, SizeAssumption DEF FitsInv, WrittenOrPending
<1> QED
  BY <1>1, FitsStep, WrittenStep, TypeCorrect, PTL DEF Spec

-----------------------------------------------------------------------------
(* The count                                                               *)

\* 1 while the only producer has claimed and not counted; 1 while a worker has
\* counted out and not advanced.
Claimed == IF \E p \in Producers : producer[p].pc \in {"write", "count"} THEN 1 ELSE 0
Passed == IF \E w \in Consumers : consumer[w] = "advance" THEN 1 ELSE 0

\* Who is inside a call, and what _used counts with one producer and no timeout.
CountInv ==
    /\ \A p \in Producers : producer[p].pc # "out" => p \in pushing
    /\ \A w \in Consumers : consumer[w] # "out" => turn[w] = "in"
    /\ back - front < Wrap - 1
    /\ timeout = -1 /\ OneProducer =>
        /\ used = back - front + 1 - Claimed - Passed
        /\ \A w \in Consumers : consumer[w] \in {"front", "pop"} => used >= 1
        /\ \A p \in Producers : producer[p].pc = "write" => producer[p].index = back

LEMMA ModSmall == ASSUME NEW n \in Nat, n < Wrap PROVE n % Wrap = n
  BY WrapAssumption

LEMMA CountInit == Init => CountInv
<1> SUFFICES ASSUME Init PROVE CountInv
  OBVIOUS
<1>1. /\ front = 1 /\ back = 0 /\ used = 0
      /\ \A p \in Producers : producer[p].pc = "out"
      /\ \A w \in Consumers : consumer[w] = "out"
  BY DEF Init, InitQueue, Out
<1>2. Claimed = 0 /\ Passed = 0
  BY <1>1 DEF Claimed, Passed
<1> QED
  BY <1>1, <1>2, WrapAssumption DEF CountInv

LEMMA CountPush ==
    ASSUME TypeOK, CountInv, NEW p \in Producers, Produce(p)
    PROVE  CountInv'
<1> USE WrapAssumption, BoundAssumption, PopsAssumption
<1>0. UNCHANGED <<front, consumer, pushing, turn, timeout>>
  BY DEF Produce, Push, Claim, Write, Count, CheckFull, counters, lock
<1>1. Passed' = Passed /\ Passed \in {0, 1} /\ (OneProducer' <=> OneProducer)
  BY <1>0 DEF Passed, OneProducer
<1>2. front \in Int /\ back \in Int /\ used \in Nat
  BY DEF TypeOK
<1>3. /\ \A q \in Producers : producer'[q].pc # "out" => q \in pushing'
      /\ \A w \in Consumers : consumer'[w] # "out" => turn'[w] = "in"
  BY <1>0 DEF Produce, Push, Claim, Write, Count, CheckFull, Step, CountInv, TypeOK
<1>4. ASSUME OneProducer, NEW q \in Producers, q # p PROVE producer[q].pc = "out" /\ producer'[q] = producer[q]
  <2>1. p \in pushing
    BY DEF Produce, Push, Claim, Write, Count, CheckFull, CountInv
  <2>2. producer[q].pc = "out"
    BY <1>4, <2>1 DEF CountInv, OneProducer
  <2> QED
    BY <1>4, <2>2 DEF Produce, Push, Claim, Write, Count, CheckFull, Step, TypeOK
<1>5. CASE Claim(p)
  <2>1. back' = back + 1 /\ used' = used /\ producer[p].pc = "out" /\ back - front < Wrap - 2
        /\ producer'[p] = [pc |-> "write", index |-> back + 1]
    BY <1>5 DEF Claim, Step, TypeOK
  <2>2. back' - front' < Wrap - 1
    BY <1>0, <1>2, <2>1
  <2>3. ASSUME timeout = -1, OneProducer
        PROVE  /\ used' = back' - front' + 1 - Claimed' - Passed'
               /\ \A q \in Producers : producer'[q].pc = "write" => producer'[q].index = back'
    <3>1. Claimed = 0 /\ Claimed' = 1
      BY <1>4, <2>1, <2>3 DEF Claimed
    <3>2. used = back - front + 1 - 0 - Passed
      BY <2>3, <3>1 DEF CountInv
    <3>3. used' = back' - front' + 1 - 1 - Passed'
      BY <1>0, <1>1, <1>2, <2>1, <3>2
    <3> QED
      BY <1>4, <2>1, <2>3, <3>1, <3>3
  <2> QED
    BY <1>0, <1>1, <1>3, <2>1, <2>2, <2>3 DEF CountInv
<1>6. CASE Write(p) \/ CheckFull(p)
  <2>1. back' = back /\ used' = used
    BY <1>6 DEF Write, CheckFull, counters
  <2>2. ASSUME OneProducer
        PROVE  /\ Claimed' = Claimed
               /\ \A q \in Producers : producer'[q].pc # "write"
    BY <1>4, <1>6, <2>2 DEF Write, CheckFull, Step, Claimed, TypeOK
  <2> QED
    BY <1>0, <1>1, <1>3, <2>1, <2>2 DEF CountInv
<1>7. CASE Count(p)
  <2>1. back' = back /\ used' = (used + 1) % Wrap /\ producer[p].pc = "count"
        /\ producer'[p] = [pc |-> "check", index |-> 0]
    BY <1>7 DEF Count, Step, TypeOK
  <2>2. ASSUME timeout = -1, OneProducer
        PROVE  /\ used' = back' - front' + 1 - Claimed' - Passed'
               /\ used' >= 1
               /\ \A q \in Producers : producer'[q].pc # "write"
    <3>1. Claimed = 1 /\ Claimed' = 0 /\ \A q \in Producers : producer'[q].pc # "write"
      BY <1>4, <2>1, <2>2 DEF Claimed
    <3>2. used = back - front + 1 - 1 - Passed /\ back - front < Wrap - 1
      BY <2>2, <3>1 DEF CountInv
    <3>3. used + 1 \in Nat /\ used + 1 < Wrap
      BY <1>1, <1>2, <3>2
    <3>4. used' = used + 1
      BY <2>1, <3>3, ModSmall
    <3>5. used' = back' - front' + 1 - 0 - Passed' /\ used' >= 1
      BY <1>0, <1>1, <1>2, <2>1, <3>2, <3>4
    <3> QED
      BY <3>1, <3>5
  <2> QED
    BY <1>0, <1>1, <1>3, <2>1, <2>2 DEF CountInv
<1> QED
  BY <1>5, <1>6, <1>7 DEF Produce, Push

LEMMA CountWork ==
    ASSUME TypeOK, CountInv, TurnInv, NEW w \in Consumers, Work(w)
    PROVE  CountInv'
<1> USE WrapAssumption, BoundAssumption, PopsAssumption
<1>0. UNCHANGED <<back, producer, pushing, turn, timeout>> /\ turn[w] = "in"
  BY DEF Work, Take, IsEmpty, Front, Pop, Advance, counters, lock
<1>1. Claimed' = Claimed /\ Claimed \in {0, 1} /\ (OneProducer' <=> OneProducer)
  BY <1>0 DEF Claimed, OneProducer
<1>2. front \in Int /\ back \in Int /\ used \in Nat /\ used < Wrap
  BY DEF TypeOK
<1>3. /\ \A p \in Producers : producer'[p].pc # "out" => p \in pushing'
      /\ \A v \in Consumers : consumer'[v] # "out" => turn'[v] = "in"
  BY <1>0 DEF Work, Take, IsEmpty, Front, Pop, Advance, Continue, CountInv, TypeOK
<1>4. ASSUME timeout = -1, NEW v \in Consumers, v # w
      PROVE  consumer[v] = "out" /\ consumer'[v] = "out"
  <2>1. consumer[v] = "out"
    BY <1>0, <1>4 DEF CountInv, TurnInv
  <2> QED
    BY <1>4, <2>1 DEF Work, Take, IsEmpty, Front, Pop, Advance, Continue, TypeOK
<1>5. CASE IsEmpty(w) \/ Front(w)
  <2>1. front' = front /\ used' = used /\ consumer[w] # "advance" /\ consumer'[w] # "advance"
        /\ (consumer[w] = "front" \/ used # 0)
    BY <1>5 DEF IsEmpty, Front, At, Continue, counters, TypeOK
  <2>2. ASSUME timeout = -1, OneProducer PROVE Passed' = Passed /\ used >= 1
    <3>1. Passed' = 0 /\ Passed = 0
      BY <1>4, <2>1, <2>2 DEF Passed
    <3> QED
      BY <1>2, <2>1, <2>2, <3>1 DEF CountInv
  <2> QED
    BY <1>0, <1>1, <1>3, <2>1, <2>2 DEF CountInv
<1>6. CASE Pop(w)
  <2>1. front' = front /\ used' = (used - 1) % Wrap /\ consumer[w] = "pop" /\ consumer'[w] = "advance"
    BY <1>6 DEF Pop, At, Continue, TypeOK
  <2>2. ASSUME timeout = -1, OneProducer
        PROVE  /\ used' = back' - front' + 1 - Claimed' - Passed'
               /\ \A v \in Consumers : consumer'[v] \notin {"front", "pop"}
    <3>1. Passed = 0 /\ Passed' = 1 /\ \A v \in Consumers : consumer'[v] \notin {"front", "pop"}
      BY <1>4, <2>1, <2>2 DEF Passed
    <3>2. used >= 1 /\ used = back - front + 1 - Claimed - 0
      BY <2>1, <2>2, <3>1 DEF CountInv
    <3>3. used - 1 \in Nat /\ used - 1 < Wrap
      BY <1>2, <3>2
    <3>4. used' = used - 1
      BY <2>1, <3>3, ModSmall
    <3>5. used' = back' - front' + 1 - Claimed' - 1
      BY <1>0, <1>1, <1>2, <2>1, <3>2, <3>4
    <3> QED
      BY <3>1, <3>5
  <2> QED
    BY <1>0, <1>1, <1>3, <2>1, <2>2 DEF CountInv
<1>7. CASE Advance(w)
  <2>1. front' = front + 1 /\ used' = used /\ consumer[w] = "advance" /\ consumer'[w] = "out"
    BY <1>7 DEF Advance, At, Continue, TypeOK
  <2>2. ASSUME timeout = -1, OneProducer
        PROVE  /\ used' = back' - front' + 1 - Claimed' - Passed'
               /\ \A v \in Consumers : consumer'[v] \notin {"front", "pop"}
    <3>1. Passed = 1 /\ Passed' = 0 /\ \A v \in Consumers : consumer'[v] \notin {"front", "pop"}
      BY <1>4, <2>1, <2>2 DEF Passed
    <3>2. used = back - front + 1 - Claimed - 1
      BY <2>2, <3>1 DEF CountInv
    <3>3. used' = back' - front' + 1 - Claimed' - 0
      BY <1>0, <1>1, <1>2, <2>1, <3>2
    <3> QED
      BY <3>1, <3>3
  <2>3. back' - front' < Wrap - 1
    BY <1>0, <1>2, <2>1 DEF CountInv
  <2> QED
    BY <1>0, <1>1, <1>3, <2>1, <2>2, <2>3 DEF CountInv
<1> QED
  BY <1>5, <1>6, <1>7 DEF Work, Take

LEMMA CountStep == TypeOK /\ TurnInv /\ CountInv /\ [Next]_vars => CountInv'
<1> SUFFICES ASSUME TypeOK, TurnInv, CountInv, [Next]_vars PROVE CountInv'
  OBVIOUS
<1>1. CASE /\ UNCHANGED <<front, back, used, producer, consumer, pushing, timeout>>
           /\ \A w \in Consumers : consumer[w] # "out" => turn'[w] = turn[w]
  BY <1>1 DEF CountInv, Claimed, Passed, OneProducer
<1>2. ASSUME NEW w \in Consumers, TakeTurn(w) \/ EndTurn(w) PROVE CountInv'
  <2>1. consumer[w] = "out"
    BY <1>2 DEF TakeTurn, EndTurn, At, Turn!Start, Turn!TestWork, Turn!TestTimeout, Turn!Swap, Turn!Stamp, CountInv
  <2>2. UNCHANGED <<front, back, used, producer, consumer, pushing, timeout>>
    BY <1>2 DEF TakeTurn, EndTurn, Turn!Start, Turn!TestWork, Turn!TestTimeout, Turn!Swap, Turn!Stamp, Turn!End, queue
  <2>3. \A v \in Consumers : v # w => turn'[v] = turn[v]
    BY <1>2 DEF TakeTurn, EndTurn, Turn!Start, Turn!TestWork, Turn!TestTimeout, Turn!Swap, Turn!Stamp, Turn!End,
                Turn!Goto, TypeOK
  <2> QED
    BY <1>1, <2>1, <2>2, <2>3
<1>3. ASSUME NEW w \in Consumers, Stall(w) PROVE CountInv'
  BY <1>1, <1>3 DEF Stall, queue, lock
<1>4. CASE Tick
  BY <1>1, <1>4 DEF Tick, Turn!Tick, queue
<1>5. CASE UNCHANGED vars
  BY <1>1, <1>5 DEF vars, queue, lock
<1> QED
  BY <1>2, <1>3, <1>4, <1>5, CountPush, CountWork DEF Next, Consume

\* OldestIsWritten: with one producer and no timeout a worker that IsEmpty let
\* through copies the oldest element, completely written, for every size that
\* divides the range of the counters (AtomicStaticQueue.h:34-72).
THEOREM OldestFirst == Spec => []OldestIsWritten
<1>1. Init => TurnInv
  BY DEF Init, Turn!Init, TurnInv
<1>2. TypeOK /\ CountInv /\ TurnInv /\ WrittenOrPending => OldestIsWritten
  <2> SUFFICES ASSUME TypeOK, CountInv, TurnInv, WrittenOrPending, Sound, timeout = -1, OneProducer,
                      NEW w \in Consumers, consumer[w] = "front"
               PROVE  memory[Slot(front)] = front
    BY Zenon DEF OldestIsWritten
  <2>0. front \in Int /\ back \in Int /\ used \in Nat
    BY PopsAssumption, BoundAssumption, WrapAssumption DEF TypeOK
  <2>1. Passed = 0
    BY DEF Passed, CountInv, TurnInv
  <2>2. used >= 1 /\ used = back - front + 1 - Claimed - 0
    BY <2>1 DEF CountInv
  <2>3. Claimed \in {0, 1}
    BY DEF Claimed
  <2>4. front \in front .. back
    BY <2>0, <2>2, <2>3
  <2>5. ASSUME NEW p \in Producers, producer[p] = [pc |-> "write", index |-> front] PROVE FALSE
    <3>1. Claimed = 1
      BY <2>5 DEF Claimed
    <3>2. front = back
      BY <2>5 DEF CountInv
    <3> QED
      BY <2>0, <2>2, <3>1, <3>2
  <2> QED
    BY <2>4, <2>5, Zenon DEF WrittenOrPending
<1> QED
  BY <1>1, <1>2, CountInit, CountStep, TurnStep, ElementsKept, TypeCorrect, PTL DEF Spec

-----------------------------------------------------------------------------
(* The count, with any number of producers                                 *)

\* A number has one remainder.
LEMMA OneRemainder ==
    ASSUME NEW n \in Nat \ {0}, NEW p \in Int, NEW q \in Int,
           NEW r \in 0 .. n - 1, NEW s \in 0 .. n - 1, n * p + r = n * q + s
    PROVE  r = s
<1>1. n * (p - q) = s - r
  OBVIOUS
<1>2. CASE p - q <= -1
  <2>1. n * (p - q) <= -n
    BY <1>2
  <2> QED
    BY <1>1, <2>1
<1>3. CASE p - q >= 1
  <2>1. n * (p - q) >= n
    BY <1>3
  <2> QED
    BY <1>1, <2>1
<1>4. CASE p - q = 0
  BY <1>1, <1>4
<1> QED
  BY <1>2, <1>3, <1>4

\* InterlockedIncrement and InterlockedDecrement of a number modulo Wrap.
LEMMA ModShift ==
    ASSUME NEW a \in Int, NEW d \in Int
    PROVE  ((a % Wrap) + d) % Wrap = (a + d) % Wrap
<1> DEFINE b == (a % Wrap) + d
<1>0. Wrap \in Nat \ {0} /\ b \in Int /\ a + d \in Int
  BY WrapAssumption, DivMod
<1>1. PICK p \in Int : a = Wrap * p + (a % Wrap)
  BY <1>0, DivMod, Zenon
<1>2. PICK q \in Int : b = Wrap * q + (b % Wrap)
  BY <1>0, DivMod, Zenon
<1>3. PICK r \in Int : a + d = Wrap * r + ((a + d) % Wrap)
  BY <1>0, DivMod, Zenon
<1>4. /\ b % Wrap \in 0 .. Wrap - 1 /\ (a + d) % Wrap \in 0 .. Wrap - 1
      /\ a % Wrap \in 0 .. Wrap - 1
  BY <1>0, DivMod, Zenon
<1> DEFINE x == b % Wrap
           y == (a + d) % Wrap
           z == a % Wrap
<1>5. Wrap * (p + q) + x = Wrap * r + y
  <2>1. z \in Int /\ x \in Int /\ y \in Int
    BY <1>0, <1>4
  <2>2. a = Wrap * p + z /\ z + d = Wrap * q + x /\ a + d = Wrap * r + y
    BY <1>1, <1>2, <1>3
  <2> HIDE DEF x, y, z
  <2> QED
    BY <1>0, <2>1, <2>2
<1>6. x \in 0 .. Wrap - 1 /\ y \in 0 .. Wrap - 1
  BY <1>4
<1> HIDE DEF x, y
<1>7. x = y
  BY <1>0, <1>5, <1>6, OneRemainder
<1> QED
  BY <1>7 DEF x, y

\* The producers that have claimed and not counted.
Uncounted == {p \in Producers : producer[p].pc \in {"write", "count"}}

\* Without a timeout _used is the number of elements less those on their way in
\* and the one on its way out, as a ULONG.
AgreeInv ==
    /\ IsFiniteSet(Uncounted)
    /\ timeout = -1 =>
           used = (back - front + 1 - Cardinality(Uncounted) - Passed) % Wrap

LEMMA AgreeInit == Init => AgreeInv
<1> SUFFICES ASSUME Init PROVE AgreeInv
  OBVIOUS
<1>1. /\ front = 1 /\ back = 0 /\ used = 0
      /\ \A p \in Producers : producer[p].pc = "out"
      /\ \A w \in Consumers : consumer[w] = "out"
  BY DEF Init, InitQueue, Out
<1>2. Uncounted = {} /\ Passed = 0
  BY <1>1 DEF Uncounted, Passed
<1>3. IsFiniteSet(Uncounted) /\ Cardinality(Uncounted) = 0
  BY <1>2, FS_EmptySet
<1>4. 0 % Wrap = 0
  BY ModSmall, WrapAssumption
<1> QED
  BY <1>1, <1>2, <1>3, <1>4 DEF AgreeInv

LEMMA AgreePush ==
    ASSUME TypeOK, AgreeInv, NEW p \in Producers, Produce(p)
    PROVE  AgreeInv'
<1> DEFINE c == Cardinality(Uncounted)
           n == back - front + 1 - c - Passed
<1>0. UNCHANGED <<front, consumer, timeout>>
  BY DEF Produce, Push, Claim, Write, Count, CheckFull, counters, lock
<1>1. Passed' = Passed /\ Passed \in {0, 1}
  BY <1>0 DEF Passed
<1>2. front \in Int /\ back \in Int /\ used \in Nat
  BY WrapAssumption, BoundAssumption, PopsAssumption DEF TypeOK
<1>3. IsFiniteSet(Uncounted) /\ c \in Nat
  BY FS_CardinalityType DEF AgreeInv
<1>4. timeout = -1 => used = n % Wrap
  BY DEF AgreeInv
<1>5. n \in Int
  BY <1>1, <1>2, <1>3
<1>6. CASE Claim(p)
  <2>1. back' = back + 1 /\ used' = used /\ Uncounted' = Uncounted \cup {p} /\ p \notin Uncounted
    BY <1>6 DEF Claim, Step, Uncounted, TypeOK
  <2>2. IsFiniteSet(Uncounted') /\ Cardinality(Uncounted') = c + 1
    BY <1>3, <2>1, FS_AddElement
  <2>3. back' - front' + 1 - Cardinality(Uncounted') - Passed' = n
    BY <1>0, <1>1, <1>2, <1>3, <2>1, <2>2
  <2> QED
    BY <1>0, <1>4, <2>1, <2>2, <2>3 DEF AgreeInv
<1>7. CASE Write(p) \/ CheckFull(p)
  <2>1. back' = back /\ used' = used
    BY <1>7 DEF Write, CheckFull, counters
  <2>2. Uncounted' = Uncounted
    BY <1>7 DEF Write, CheckFull, Step, Uncounted, TypeOK
  <2> QED
    BY <1>0, <1>1, <2>1, <2>2 DEF AgreeInv
<1>8. CASE Count(p)
  <2>1. back' = back /\ used' = (used + 1) % Wrap /\ Uncounted' = Uncounted \ {p} /\ p \in Uncounted
    BY <1>8 DEF Count, Step, Uncounted, TypeOK
  <2>2. IsFiniteSet(Uncounted') /\ Cardinality(Uncounted') = c - 1
    BY <1>3, <2>1, FS_RemoveElement
  <2>3. back' - front' + 1 - Cardinality(Uncounted') - Passed' = n + 1
    BY <1>0, <1>1, <1>2, <1>3, <2>1, <2>2
  <2>4. ((n % Wrap) + 1) % Wrap = (n + 1) % Wrap
    BY <1>5, ModShift
  <2> HIDE DEF n
  <2> QED
    BY <1>0, <1>4, <2>1, <2>2, <2>3, <2>4 DEF AgreeInv
<1> QED
  BY <1>6, <1>7, <1>8 DEF Produce, Push

LEMMA AgreeWork ==
    ASSUME TypeOK, CountInv, TurnInv, AgreeInv, NEW w \in Consumers, Work(w)
    PROVE  AgreeInv'
<1> DEFINE c == Cardinality(Uncounted)
           n == back - front + 1 - c - Passed
<1>0. UNCHANGED <<back, producer, timeout>> /\ turn[w] = "in"
  BY DEF Work, Take, IsEmpty, Front, Pop, Advance, counters, lock
<1>1. Uncounted' = Uncounted
  BY <1>0 DEF Uncounted
<1>2. front \in Int /\ back \in Int /\ used \in Nat
  BY WrapAssumption, BoundAssumption, PopsAssumption DEF TypeOK
<1>3. IsFiniteSet(Uncounted) /\ c \in Nat
  BY FS_CardinalityType DEF AgreeInv
<1> SUFFICES ASSUME timeout = -1
             PROVE  used' = (back' - front' + 1 - c - Passed') % Wrap
  BY <1>0, <1>1, <1>3 DEF AgreeInv
<1>4. used = n % Wrap
  BY DEF AgreeInv
<1>5. Passed \in {0, 1} /\ n \in Int
  BY <1>2, <1>3 DEF Passed
<1>6. ASSUME NEW v \in Consumers, v # w PROVE consumer[v] = "out" /\ consumer'[v] = "out"
  <2>1. consumer[v] = "out"
    BY <1>0, <1>6 DEF CountInv, TurnInv
  <2> QED
    BY <1>6, <2>1 DEF Work, Take, IsEmpty, Front, Pop, Advance, Continue, TypeOK
<1>7. CASE IsEmpty(w) \/ Front(w)
  <2>1. front' = front /\ used' = used /\ consumer[w] # "advance" /\ consumer'[w] # "advance"
    BY <1>7 DEF IsEmpty, Front, At, Continue, counters, TypeOK
  <2>2. Passed' = 0 /\ Passed = 0
    BY <1>6, <2>1 DEF Passed
  <2> QED
    BY <1>0, <1>4, <2>1, <2>2
<1>8. CASE Pop(w)
  <2>1. front' = front /\ used' = (used - 1) % Wrap /\ consumer[w] = "pop" /\ consumer'[w] = "advance"
    BY <1>8 DEF Pop, At, Continue, TypeOK
  <2>2. Passed = 0 /\ Passed' = 1
    BY <1>6, <2>1 DEF Passed
  <2>3. back' - front' + 1 - c - Passed' = n + (-1)
    BY <1>0, <1>2, <1>3, <2>1, <2>2
  <2>4. ((n % Wrap) + (-1)) % Wrap = (n + (-1)) % Wrap
    BY <1>5, ModShift
  <2>5. used' = ((n % Wrap) + (-1)) % Wrap
    <3>1. used - 1 = used + (-1)
      BY <1>2
    <3> HIDE DEF n
    <3> QED
      BY <1>4, <2>1, <3>1
  <2> QED
    BY <2>3, <2>4, <2>5, Zenon
<1>9. CASE Advance(w)
  <2>1. front' = front + 1 /\ used' = used /\ consumer[w] = "advance" /\ consumer'[w] = "out"
    BY <1>9 DEF Advance, At, Continue, TypeOK
  <2>2. Passed = 1 /\ Passed' = 0
    BY <1>6, <2>1 DEF Passed
  <2>3. back' - front' + 1 - c - Passed' = n
    BY <1>0, <1>2, <1>3, <2>1, <2>2
  <2> QED
    BY <1>4, <2>1, <2>3
<1> QED
  BY <1>7, <1>8, <1>9 DEF Work, Take

LEMMA AgreeStep == TypeOK /\ TurnInv /\ CountInv /\ AgreeInv /\ [Next]_vars => AgreeInv'
<1> SUFFICES ASSUME TypeOK, TurnInv, CountInv, AgreeInv, [Next]_vars PROVE AgreeInv'
  OBVIOUS
<1>1. CASE UNCHANGED <<front, back, used, producer, consumer, timeout>>
  BY <1>1 DEF AgreeInv, Uncounted, Passed
<1>2. ASSUME NEW w \in Consumers, TakeTurn(w) \/ EndTurn(w) PROVE AgreeInv'
  BY <1>1, <1>2 DEF TakeTurn, EndTurn, Turn!Start, Turn!TestWork, Turn!TestTimeout, Turn!Swap, Turn!Stamp,
                    Turn!End, queue
<1>3. ASSUME NEW w \in Consumers, Stall(w) PROVE AgreeInv'
  BY <1>1, <1>3 DEF Stall, queue, lock
<1>4. CASE Tick
  BY <1>1, <1>4 DEF Tick, Turn!Tick, queue
<1>5. CASE UNCHANGED vars
  BY <1>1, <1>5 DEF vars, queue, lock
<1> QED
  BY <1>2, <1>3, <1>4, <1>5, AgreePush, AgreeWork DEF Next, Consume

\* QueueOK: without a timeout _used is the number of elements in the queue, as
\* a ULONG, whenever nobody is inside Push or Pop, for any number of producers
\* and workers (AtomicStaticQueue.h:34-72).
THEOREM CountAgrees == Spec => []QueueOK
<1>1. Init => TurnInv
  BY DEF Init, Turn!Init, TurnInv
<1>2. TypeOK /\ AgreeInv => QueueOK
  <2> SUFFICES ASSUME TypeOK, AgreeInv, timeout = -1,
                      \A p \in Producers : producer[p].pc \in {"out", "check"},
                      \A w \in Consumers : consumer[w] # "advance"
               PROVE  used = (back - front + 1) % Wrap
    BY DEF QueueOK, UsedAgrees
  <2>1. Uncounted = {} /\ Passed = 0
    BY DEF Uncounted, Passed
  <2>2. Cardinality(Uncounted) = 0
    BY <2>1, FS_EmptySet
  <2>3. back - front + 1 - 0 - 0 = back - front + 1
    BY BoundAssumption, PopsAssumption DEF TypeOK
  <2> QED
    BY <2>1, <2>2, <2>3 DEF AgreeInv
<1> QED
  BY <1>1, <1>2, AgreeInit, AgreeStep, CountInit, CountStep, TurnStep, TypeCorrect, PTL DEF Spec
=============================================================================
