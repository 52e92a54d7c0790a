---------------------------- MODULE SyncSection ----------------------------
(***************************************************************************)
(* SyncSection (SyncSection.h, SyncSection.cpp): the lock behind           *)
(* WRITE_GUARD, READ_GUARD, WRITE_LOCK and READ_LOCK.                      *)
(*                                                                         *)
(* A std::shared_mutex is made reentrant with two more fields: the id of   *)
(* the owner thread, a plain unsigned int, and one nesting counter shared  *)
(* by every thread.  Neither is protected by the mutex: Enter reads the    *)
(* owner before it locks and Leave resets it after it unlocks.  Every      *)
(* access to the mutex or to one of these fields is a step of its own      *)
(* here, so that threads interleave between them as the code lets them.    *)
(* RECORD_LOCK_* are left out: no caller passes inRecordLock = true.       *)
(***************************************************************************)
EXTENDS Integers, Sequences, SequencesExt, FiniteSets

CONSTANTS Threads,   \* threads that share the SyncSection
          Types,     \* SYNC_TYPEs the callers use
          MaxNest,   \* bound on how deep one thread nests its guards
          NestInReaders,  \* TRUE: a guard may be opened inside a READ guard
          NoThread   \* _ownerThread = -1

ASSUME ThreadsAssumption == IsFiniteSet(Threads)
ASSUME TypesAssumption == Types \subseteq {"READ", "WRITE"}
ASSUME MaxNestAssumption == MaxNest \in Nat
ASSUME NestInReadersAssumption == NestInReaders \in BOOLEAN
ASSUME NoThreadAssumption == NoThread \notin Threads

VARIABLES writer,    \* _mutex: the thread that holds it exclusively, or NoThread
          shared,    \* _mutex: shared holds taken and not given back, by anyone
          owner,     \* _ownerThread
          depth,     \* _lockDepth
          pc,        \* where each thread is inside Enter or Leave
          arg,       \* inType of the call each thread is in
          guards     \* guards[t]: the Sync objects alive on t's stack

vars == <<writer, shared, owner, depth, pc, arg, guards>>

PCs == {"idle", "deepen", "acquire", "own", "shallow", "unlock", "disown"}

TypeOK ==
    /\ writer \in Threads \cup {NoThread}
    /\ shared \in Int
    /\ owner \in Threads \cup {NoThread}
    /\ depth \in Int
    /\ pc \in [Threads -> PCs]
    /\ arg \in [Threads -> {"READ", "WRITE"}]
    /\ guards \in [Threads -> Seq({"READ", "WRITE"})]

Init ==
    /\ writer = NoThread
    /\ shared = 0
    /\ owner = NoThread
    /\ depth = 0
    /\ pc = [t \in Threads |-> "idle"]
    /\ arg = [t \in Threads |-> "WRITE"]
    /\ guards = [t \in Threads |-> <<>>]

Goto(t, label) == pc' = [pc EXCEPT ![t] = label]

\* Enter returns: the guard object exists from here on.
Entered(t) == guards' = [guards EXCEPT ![t] = Append(@, arg[t])]

-----------------------------------------------------------------------------
(* Enter                                                                   *)

\* The call, and the unlocked read of _ownerThread that picks the path.
CallEnter(t, type) ==
    /\ pc[t] = "idle"
    /\ Len(guards[t]) < MaxNest
    /\ guards[t] # <<>> /\ ~NestInReaders => guards[t][1] = "WRITE"
    /\ arg' = [arg EXCEPT ![t] = type]
    /\ Goto(t, IF owner = t THEN "deepen" ELSE "acquire")
    /\ UNCHANGED <<writer, shared, owner, depth, guards>>

\* Mutant: a nested Enter that forgets to count.
DeepenUncounted(t) ==
    /\ pc[t] = "deepen"
    /\ Entered(t)
    /\ Goto(t, "idle")
    /\ UNCHANGED <<writer, shared, owner, depth, arg>>

\* _lockDepth.fetch_add(1) and return, whatever the requested type.
Deepen(t) ==
    /\ pc[t] = "deepen"
    /\ depth' = depth + 1
    /\ Entered(t)
    /\ Goto(t, "idle")
    /\ UNCHANGED <<writer, shared, owner, arg>>

\* _mutex.lock_shared(): waits while the mutex is held exclusively.
LockShared(t) ==
    /\ pc[t] = "acquire" /\ arg[t] = "READ"
    /\ writer = NoThread
    /\ shared' = shared + 1
    /\ Goto(t, "own")
    /\ UNCHANGED <<writer, owner, depth, arg, guards>>

\* Mutant: a writer that does not wait for the readers.
LockExclusiveOverReaders(t) ==
    /\ pc[t] = "acquire" /\ arg[t] = "WRITE"
    /\ writer = NoThread
    /\ writer' = t
    /\ Goto(t, "own")
    /\ UNCHANGED <<shared, owner, depth, arg, guards>>

\* _mutex.lock(): waits for everyone, the calling thread included.
LockExclusive(t) ==
    /\ pc[t] = "acquire" /\ arg[t] = "WRITE"
    /\ writer = NoThread
    /\ shared = 0
    /\ writer' = t
    /\ Goto(t, "own")
    /\ UNCHANGED <<shared, owner, depth, arg, guards>>

\* _ownerThread = GetCurrentThreadId() and return.
SetOwner(t) ==
    /\ pc[t] = "own"
    /\ owner' = t
    /\ Entered(t)
    /\ Goto(t, "idle")
    /\ UNCHANGED <<writer, shared, depth, arg>>

-----------------------------------------------------------------------------
(* Leave                                                                   *)

\* ~Sync of the innermost guard, and the read of _lockDepth that picks the path.
CallLeave(t) ==
    /\ pc[t] = "idle"
    /\ guards[t] # <<>>
    /\ arg' = [arg EXCEPT ![t] = Last(guards[t])]
    /\ guards' = [guards EXCEPT ![t] = Front(@)]
    /\ Goto(t, IF depth > 0 THEN "shallow" ELSE "unlock")
    /\ UNCHANGED <<writer, shared, owner, depth>>

\* _lockDepth.fetch_sub(1): the test and the decrement are not one step.
Shallow(t) ==
    /\ pc[t] = "shallow"
    /\ depth' = depth - 1
    /\ Goto(t, "idle")
    /\ UNCHANGED <<writer, shared, owner, arg, guards>>

\* unlock_shared() or unlock(), before the owner is reset.
Unlock(t) ==
    /\ pc[t] = "unlock"
    /\ IF arg[t] = "READ"
       THEN shared' = shared - 1 /\ UNCHANGED writer
       ELSE writer' = NoThread /\ UNCHANGED shared
    /\ Goto(t, "disown")
    /\ UNCHANGED <<owner, depth, arg, guards>>

\* Mutant: the owner is never reset.
DisownNothing(t) ==
    /\ pc[t] = "disown"
    /\ Goto(t, "idle")
    /\ UNCHANGED <<writer, shared, owner, depth, arg, guards>>

\* _ownerThread = -1, after the mutex is already free.
Disown(t) ==
    /\ pc[t] = "disown"
    /\ owner' = NoThread
    /\ Goto(t, "idle")
    /\ UNCHANGED <<writer, shared, depth, arg, guards>>

-----------------------------------------------------------------------------
Step(t) ==
    \/ Deepen(t) \/ LockShared(t) \/ LockExclusive(t) \/ SetOwner(t)
    \/ Shallow(t) \/ Unlock(t) \/ Disown(t)

Next == \E t \in Threads :
    \/ Step(t)
    \/ CallLeave(t)
    \/ \E type \in Types : CallEnter(t, type)

Spec == Init /\ [][Next]_vars

\* t waits for a mutex it holds itself.
WaitsForItself(t) == pc[t] = "acquire" /\ guards[t] # <<>>

\* A running thread finishes the call it is in and reaches the end of its
\* outermost scope, unless it waits for itself; nothing says that it ever calls
\* Enter.  std::shared_mutex promises no order among waiters: fairness of the
\* lock steps is weak, so a thread may be overtaken for ever.
Fairness == \A t \in Threads :
    /\ WF_vars(Step(t)) /\ WF_vars(CallLeave(t))
    /\ []<>(guards[t] = <<>> \/ WaitsForItself(t))

FairSpec == Spec /\ Fairness

-----------------------------------------------------------------------------
(* Properties                                                              *)

\* How the library uses the lock: TCPSocket, ConfigManager and StackTracer open
\* no guard inside a READ guard of the same lock.
Discipline == ~NestInReaders

Holding(t) == guards[t] # <<>>

\* t holds _mutex for its outermost guard, of this type, or is about to report
\* that it does.
Has(t, type) ==
    \/ Holding(t) /\ guards[t][1] = type
    \/ pc[t] \in {"own", "unlock"} /\ arg[t] = type

\* A thread inside a WRITE guard is alone: no other thread is inside any guard
\* (the reason for Enter and Leave, SyncSection.cpp:7-48).
WriteExclusion ==
    \A t, u \in Threads :
        t # u /\ (\E i \in DOMAIN guards[t] : guards[t][i] = "WRITE") => ~Holding(u)

\* When no thread is inside a guard or a call, the lock is back in its initial
\* state: no hold, no depth and no owner is left behind by the shared fields.
IdleLockIsFree ==
    (\A t \in Threads : ~Holding(t) /\ pc[t] = "idle")
        => writer = NoThread /\ shared = 0 /\ depth = 0 /\ owner = NoThread

\* Where a thread stands, and what that says of the fields Enter and Leave share.
ThreadInv(t) ==
    /\ pc[t] \in {"own", "unlock"} => ~Holding(t) /\ depth = 0
    /\ pc[t] = "shallow" => Holding(t) /\ depth = Len(guards[t])
    /\ Holding(t) /\ pc[t] # "shallow" => depth = Len(guards[t]) - 1
    /\ pc[t] = "deepen" => Holding(t)
    /\ pc[t] \in {"deepen", "shallow"} => writer = t
    /\ Holding(t) /\ (Len(guards[t]) > 1 \/ pc[t] = "acquire") => guards[t][1] = "WRITE"
    /\ owner = t => Has(t, "WRITE") \/ Has(t, "READ") \/ pc[t] = "disown"
    /\ \A i \in DOMAIN guards[t] : guards[t][i] \in Types
    /\ pc[t] \in {"deepen", "acquire", "own"} => arg[t] \in Types

\* The mutex is held exactly by the threads that are inside.
MutexInv ==
    /\ \A t \in Threads : writer = t <=> Has(t, "WRITE")
    /\ shared = Cardinality({t \in Threads : Has(t, "READ")})
    /\ writer # NoThread => shared = 0

\* How the mutex, the nesting counter and the owner relate to the threads that
\* are inside, at every step of Enter and Leave.
LockInv ==
    /\ MutexInv
    /\ writer = NoThread => depth = 0
    /\ \A t \in Threads : ThreadInv(t)

\* The inductive invariant, with the types.
LockOK == TypeOK /\ LockInv

\* IsEntered() (SyncSection.h:35) is what REQUIRED_LOCK_CHECKER (SyncSection.h:16)
\* asserts inside a WRITE guard: the thread that holds it is the recorded owner.
HolderIsEntered ==
    \A t \in Threads :
        pc[t] = "idle" /\ (\E i \in DOMAIN guards[t] : guards[t][i] = "WRITE") => owner = t

\* Enter and Leave, with all their unlocked steps, are one atomic entry and one
\* atomic exit of a reentrant readers-writer lock.
Lock == INSTANCE ReentrantLock
ImplementsReentrantLock == Lock!Spec

\* While someone waits for the mutex, it does not stay taken for ever: some
\* waiting thread gets it (which one, std::shared_mutex does not promise), unless
\* its holder lost the ownership and now waits for itself (SyncSection.cpp:21).
SomeWaiterEnters ==
    (\E t \in Threads : pc[t] = "acquire")
        ~> (\E t \in Threads : pc[t] = "own" \/ WaitsForItself(t))
=============================================================================
