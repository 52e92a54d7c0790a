--------------------------- MODULE ThreadManager ----------------------------
(***************************************************************************)
(* ThreadManager (ThreadManager.cpp): the threads that TaskRun creates,    *)
(* their entries in _infoMap, and the joins of WaitForAllThread and        *)
(* Finalize.                                                               *)
(***************************************************************************)
EXTENDS Integers, Sequences, SequencesExt

CONSTANTS Main, Workers, Nil

VARIABLES pool,         \* _threadPool
          joined,       \* threads whose std::thread was joined
          count,        \* _count
          size,         \* _size
          info,         \* _infoMap: the index of each thread, Nil if it has none
          mutex         \* the thread inside _lock, or Nil

vars == <<pool, joined, count, size, info, mutex>>

\* Initialize(), on the main thread.
Init ==
    /\ pool = <<>> /\ joined = {}
    /\ count = 1 /\ size = 1
    /\ info = [t \in {Main} \cup Workers |-> IF t = Main THEN 0 ELSE Nil]
    /\ mutex = Nil

TaskRun(t) ==
    /\ t \notin ToSet(pool)
    /\ pool' = Append(pool, t)
    /\ UNCHANGED <<joined, count, size, info, mutex>>

\* RegisterThread(inType), called by t.
LockInfo(t) ==
    /\ mutex = Nil /\ info[t] = Nil
    /\ mutex' = t
    /\ UNCHANGED <<pool, joined, count, size, info>>

\* Mutant: the index is the number of threads so far, the main thread left out.
InsertInfoLow(t) ==
    /\ mutex = t
    /\ info' = [info EXCEPT ![t] = count - 1]
    /\ count' = count + 1 /\ size' = size + 1
    /\ mutex' = Nil
    /\ UNCHANGED <<pool, joined>>

InsertInfo(t) ==
    /\ mutex = t
    /\ info' = [info EXCEPT ![t] = count]
    /\ count' = count + 1 /\ size' = size + 1
    /\ mutex' = Nil
    /\ UNCHANGED <<pool, joined>>

\* join() of the first thread that WaitForAllThread did not join.
Join(ended) ==
    /\ Len(pool) > Len(SelectSeq(pool, LAMBDA t : t \in joined))
    /\ LET t == pool[Len(SelectSeq(pool, LAMBDA u : u \in joined)) + 1] IN
       /\ t \in ended
       /\ joined' = joined \cup {t}
    /\ UNCHANGED <<pool, count, size, info, mutex>>

AllJoined == ToSet(pool) \subseteq joined

\* Finalize's join() throws std::system_error.
JoinsAgain == pool # <<>>
=============================================================================
