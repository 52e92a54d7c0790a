--------------------------- MODULE ConfigManager ----------------------------
(***************************************************************************)
(* ConfigManager::GetStr and GetInt (ConfigManager.cpp): a value is read   *)
(* from the ini file when it is first asked for and answered from cache_   *)
(* from then on.  Both run under WRITE_LOCK; the file may be edited while  *)
(* the process runs.                                                       *)
(***************************************************************************)
EXTENDS Naturals, FiniteSets

CONSTANTS Threads, Keys, Nil

Values == {0, 1}

VARIABLES file,         \* what the ini file holds
          cache,        \* cache_, Nil where a key has no entry
          getting,      \* getting[t]: the call of t, [pc, key]
          inside,       \* the thread under WRITE_LOCK, or Nil
          answers       \* history: the values a key was answered with

vars == <<file, cache, getting, inside, answers>>

NoCall == [pc |-> "no", key |-> Nil]

Init ==
    /\ file = [k \in Keys |-> 0]
    /\ cache = [k \in Keys |-> Nil]
    /\ getting = [t \in Threads |-> NoCall]
    /\ inside = Nil
    /\ answers = [k \in Keys |-> {}]

Goto(t, pc) == getting' = [getting EXCEPT ![t].pc = pc]

Get(t, k) ==
    /\ getting[t] = NoCall
    /\ getting' = [getting EXCEPT ![t] = [pc |-> "lock", key |-> k]]
    /\ UNCHANGED <<file, cache, inside, answers>>

\* WRITE_LOCK, and the search of the cache.
Lock(t) ==
    /\ getting[t].pc = "lock" /\ inside = Nil
    /\ inside' = t
    /\ Goto(t, IF cache[getting[t].key] = Nil THEN "read" ELSE "answer")
    /\ UNCHANGED <<file, cache, answers>>

\* Mutant: the value is answered and not kept.
ReadFileUncached(t) ==
    /\ getting[t].pc = "read"
    /\ answers' = [answers EXCEPT ![getting[t].key] = @ \cup {file[getting[t].key]}]
    /\ getting' = [getting EXCEPT ![t] = NoCall]
    /\ inside' = Nil
    /\ UNCHANGED <<file, cache>>

\* GetPrivateProfileStringA, and the value goes into the cache.
ReadFile(t) ==
    /\ getting[t].pc = "read"
    /\ cache' = [cache EXCEPT ![getting[t].key] = file[getting[t].key]]
    /\ Goto(t, "answer")
    /\ UNCHANGED <<file, inside, answers>>

\* Mutant: the early return stays inside the lock.
AnswerInside(t) ==
    /\ getting[t].pc = "answer"
    /\ answers' = [answers EXCEPT ![getting[t].key] = @ \cup {cache[getting[t].key]}]
    /\ getting' = [getting EXCEPT ![t] = NoCall]
    /\ UNCHANGED <<file, cache, inside>>

\* The value is returned, and the lock left.
Answer(t) ==
    /\ getting[t].pc = "answer"
    /\ answers' = [answers EXCEPT ![getting[t].key] = @ \cup {cache[getting[t].key]}]
    /\ getting' = [getting EXCEPT ![t] = NoCall]
    /\ inside' = Nil
    /\ UNCHANGED <<file, cache>>

GoOn(t) == Lock(t) \/ ReadFile(t) \/ Answer(t)

\* Somebody edits the file, once for each key.
Edit(k) ==
    /\ file[k] = 0
    /\ file' = [file EXCEPT ![k] = 1]
    /\ UNCHANGED <<cache, getting, inside, answers>>

\* A key has one value as long as the process lives, whoever asks for it and
\* whatever becomes of the file.
KeyHasOneValue == \A k \in Keys : Cardinality(answers[k]) <= 1
=============================================================================
