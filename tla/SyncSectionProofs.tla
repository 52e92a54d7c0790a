------------------------- MODULE SyncSectionProofs -------------------------
(***************************************************************************)
(* For every set of threads and any nesting, under the discipline the      *)
(* library keeps (no guard inside a READ guard), SyncSection excludes      *)
(* writers from everyone else and implements the reentrant readers-writer  *)
(* lock.                                                                   *)
(***************************************************************************)
EXTENDS SyncSection, FiniteSetTheorems, SequenceTheorems, TLAPS

\* Leaving the innermost guard: Front keeps a sequence a sequence, one shorter.
LEMMA FrontProperties ==
    ASSUME NEW S, NEW s \in Seq(S), s # <<>>
    PROVE  /\ Len(s) \in Nat \ {0}
           /\ Front(s) \in Seq(S)
           /\ Len(Front(s)) = Len(s) - 1
           /\ \A i \in 1..(Len(s) - 1) : Front(s)[i] = s[i]
           /\ Last(s) \in S
           /\ Last(s) = s[Len(s)]
<1>1. Len(s) \in Nat \ {0} /\ \A i \in 1..Len(s) : s[i] \in S
  BY LenProperties, EmptySeq
<1>2. \A i \in 1..(Len(s) - 1) : s[i] \in S
  BY <1>1
<1>3. /\ SubSeq(s, 1, Len(s) - 1) \in Seq(S)
      /\ Len(SubSeq(s, 1, Len(s) - 1)) = Len(s) - 1
      /\ \A i \in 1..(Len(s) - 1) : SubSeq(s, 1, Len(s) - 1)[i] = s[i]
  <2>1. PICK n \in Int : n = Len(s) - 1
    BY <1>1
  <2>2. \A i \in 1..n : s[i] \in S
    BY <1>2, <2>1
  <2>3. /\ SubSeq(s, 1, n) \in Seq(S)
        /\ Len(SubSeq(s, 1, n)) = IF 1 <= n THEN n - 1 + 1 ELSE 0
        /\ \A i \in 1..(n - 1 + 1) : SubSeq(s, 1, n)[i] = s[1 + i - 1]
    BY <2>2, SubSeqProperties
  <2> QED
    BY <1>1, <2>1, <2>3
<1> QED
  BY <1>1, <1>3 DEF Front, Last

\* The type invariant of the lock, whatever the callers do: TypeOK holds in
\* every state of SyncSection.
THEOREM TypeCorrect == Spec => []TypeOK
<1>1. Init => TypeOK
  BY DEF Init, TypeOK, PCs
<1>2. TypeOK /\ [Next]_vars => TypeOK'
  <2> SUFFICES ASSUME TypeOK, [Next]_vars PROVE TypeOK'
    OBVIOUS
  <2> USE TypesAssumption DEF TypeOK, PCs, Goto, Entered
  <2>1. ASSUME NEW t \in Threads, NEW type \in Types, CallEnter(t, type) PROVE TypeOK'
    BY <2>1 DEF CallEnter
  <2>2. ASSUME NEW t \in Threads, Deepen(t) PROVE TypeOK'
    BY <2>2 DEF Deepen
  <2>3. ASSUME NEW t \in Threads, LockShared(t) PROVE TypeOK'
    BY <2>3 DEF LockShared
  <2>4. ASSUME NEW t \in Threads, LockExclusive(t) PROVE TypeOK'
    BY <2>4 DEF LockExclusive
  <2>5. ASSUME NEW t \in Threads, SetOwner(t) PROVE TypeOK'
    BY <2>5 DEF SetOwner
  <2>6. ASSUME NEW t \in Threads, CallLeave(t) PROVE TypeOK'
    BY <2>6, FrontProperties DEF CallLeave
  <2>7. ASSUME NEW t \in Threads, Shallow(t) PROVE TypeOK'
    BY <2>7 DEF Shallow
  <2>8. ASSUME NEW t \in Threads, Unlock(t) PROVE TypeOK'
    BY <2>8 DEF Unlock
  <2>9. ASSUME NEW t \in Threads, Disown(t) PROVE TypeOK'
    BY <2>9 DEF Disown
  <2>10. CASE UNCHANGED vars
    BY <2>10 DEF vars
  <2> QED
    BY <2>1, <2>2, <2>3, <2>4, <2>5, <2>6, <2>7, <2>8, <2>9, <2>10 DEF Next, Step
<1> QED
  BY <1>1, <1>2, PTL DEF Spec

-----------------------------------------------------------------------------
(* The invariant.  Only Has(t, _), the guards, the depth and the pc of the  *)
(* stepping thread change in an action; the lemmas say how.                *)

LEMMA LockInvInit == Init => LockInv
<1> SUFFICES ASSUME Init PROVE LockInv
  OBVIOUS
<1>1. \A t \in Threads : ~Has(t, "READ") /\ ~Has(t, "WRITE")
  BY DEF Init, Has, Holding
<1>2. {t \in Threads : Has(t, "READ")} = {}
  BY <1>1
<1>3. MutexInv
  BY <1>1, <1>2, NoThreadAssumption, FS_EmptySet DEF Init, MutexInv
<1>4. ASSUME NEW t \in Threads PROVE ThreadInv(t)
  <2>1. guards[t] = <<>> /\ pc[t] = "idle" /\ owner # t
    BY NoThreadAssumption DEF Init
  <2> QED
    BY <2>1 DEF ThreadInv, Holding
<1> QED
  BY <1>3, <1>4 DEF Init, LockInv

LEMMA ReadersFinite ==
    /\ IsFiniteSet({t \in Threads : Has(t, "READ")})
    /\ Cardinality({t \in Threads : Has(t, "READ")}) \in Nat
  BY FS_Subset, FS_CardinalityType, ThreadsAssumption

\* The thread that holds the mutex exclusively is alone.
LEMMA WriterAlone ==
    ASSUME TypeOK, LockInv, NEW t \in Threads, writer = t
    PROVE  /\ \A u \in Threads : ~Has(u, "READ")
           /\ \A u \in Threads \ {t} : ~Holding(u) /\ pc[u] \notin {"own", "unlock"}
<1>1. \A u \in Threads : ~Has(u, "READ")
  <2>1. shared = 0
    BY NoThreadAssumption DEF LockInv, MutexInv
  <2>2. {u \in Threads : Has(u, "READ")} = {}
    BY <2>1, ReadersFinite, FS_EmptySet DEF LockInv, MutexInv
  <2> QED
    BY <2>2
<1>2. ASSUME NEW u \in Threads \ {t}, Holding(u) PROVE FALSE
  <2>1. guards[u][1] \in {"READ", "WRITE"}
    BY <1>2, EmptySeq, LenProperties DEF TypeOK, Holding
  <2> QED
    BY <1>1, <1>2, <2>1 DEF LockInv, MutexInv, Has
<1>3. ASSUME NEW u \in Threads \ {t}, pc[u] \in {"own", "unlock"} PROVE FALSE
  BY <1>1, <1>3 DEF TypeOK, LockInv, MutexInv, Has
<1> QED
  BY <1>1, <1>2, <1>3

\* A thread inside a WRITE guard holds the mutex exclusively, whether the guard
\* is its outermost one or not.
LEMMA WriteGuardHolds ==
    ASSUME TypeOK, LockInv, NEW t \in Threads, NEW i \in DOMAIN guards[t], guards[t][i] = "WRITE"
    PROVE  writer = t
<1>1. guards[t] \in Seq({"READ", "WRITE"})
  BY DEF TypeOK
<1>2. Len(guards[t]) \in Nat /\ i \in 1..Len(guards[t])
  BY <1>1, LenProperties
<1>3. Holding(t)
  BY <1>2, EmptySeq DEF Holding
<1>4. guards[t][1] = "WRITE"
  <2>1. CASE i = 1
    BY <2>1
  <2>2. CASE i # 1
    BY <1>2, <1>3, <2>2 DEF LockInv, ThreadInv
  <2> QED
    BY <2>1, <2>2
<1> QED
  BY <1>3, <1>4 DEF LockInv, MutexInv, Has

\* A step that changes neither the mutex nor who is inside.
LEMMA SameHolders ==
    ASSUME LockInv, \A u \in Threads : \A type \in {"READ", "WRITE"} : Has(u, type)' = Has(u, type),
           UNCHANGED <<writer, shared>>
    PROVE  MutexInv'
<1>1. {t \in Threads : Has(t, "READ")'} = {t \in Threads : Has(t, "READ")}
  OBVIOUS
<1> QED
  BY <1>1 DEF LockInv, MutexInv, ThreadInv

\* A step of another thread that keeps the depth, or that u does not look at.
LEMMA OthersKeepThreadInv ==
    ASSUME NEW u \in Threads, ThreadInv(u),
           pc'[u] = pc[u], arg'[u] = arg[u], guards'[u] = guards[u],
           owner' = u => owner = u,
           writer' = writer \/ pc[u] \notin {"deepen", "shallow"},
           depth' = depth \/ (~Holding(u) /\ pc[u] \notin {"own", "unlock"})
    PROVE  ThreadInv(u)'
  BY DEF ThreadInv, Has, Holding

\* Every step of Enter and Leave keeps the invariant.
LEMMA LockInvStep ==
    ASSUME Discipline, TypeOK, LockInv, [Next]_vars
    PROVE  LockInv'
<1> DEFINE Readers == {t \in Threads : Has(t, "READ")}
<1> USE DEF Goto, Entered, PCs
<1>0. \A u \in Threads : /\ guards[u] \in Seq({"READ", "WRITE"})
                         /\ Len(guards[u]) \in Nat
                         /\ DOMAIN guards[u] = 1..Len(guards[u])
                         /\ guards[u] = <<>> <=> Len(guards[u]) = 0
  BY LenProperties, EmptySeq DEF TypeOK
<1>1. ASSUME NEW t \in Threads, NEW type \in Types, CallEnter(t, type) PROVE LockInv'
  <2>1. \A u \in Threads : \A ty \in {"READ", "WRITE"} : Has(u, ty)' = Has(u, ty)
    BY <1>1 DEF CallEnter, Has, Holding, TypeOK
  <2>2. Holding(t) => guards[t][1] = "WRITE"
    BY <1>1 DEF CallEnter, Holding, Discipline
  <2>3. owner = t => Holding(t) /\ writer = t
    BY <1>1, <2>2 DEF CallEnter, LockInv, MutexInv, ThreadInv, Has, TypeOK
  <2>a. MutexInv'
    BY SameHolders, <1>1, <2>1 DEF CallEnter
  <2>b. writer' = NoThread => depth' = 0
    BY <1>1 DEF CallEnter, LockInv
  <2>c. \A u \in Threads \ {t} : ThreadInv(u)'
    BY <1>1, OthersKeepThreadInv DEF CallEnter, LockInv, TypeOK
  <2>d. ThreadInv(t)'
    BY <1>1, <2>1, <2>2, <2>3 DEF CallEnter, LockInv, ThreadInv, TypeOK, Has, Holding
  <2> QED
    BY <2>a, <2>b, <2>c, <2>d DEF LockInv
<1>2. ASSUME NEW t \in Threads, Deepen(t) PROVE LockInv'
  <2>1. writer = t /\ Holding(t) /\ depth = Len(guards[t]) - 1 /\ arg[t] \in Types
    BY <1>2 DEF Deepen, LockInv, ThreadInv
  <2>2. guards[t][1] = "WRITE"
    BY <1>2, <2>1 DEF Deepen, LockInv, MutexInv, Has
  <2>3. /\ guards'[t] = Append(guards[t], arg[t])
        /\ \A u \in Threads \ {t} : guards'[u] = guards[u] /\ pc'[u] = pc[u]
        /\ pc'[t] = "idle"
    BY <1>2 DEF Deepen, TypeOK
  <2>4. /\ Len(guards'[t]) = Len(guards[t]) + 1
        /\ DOMAIN guards'[t] = 1..(Len(guards[t]) + 1)
        /\ \A i \in 1..Len(guards[t]) : guards'[t][i] = guards[t][i]
        /\ guards'[t][Len(guards[t]) + 1] = arg[t]
        /\ guards'[t] # <<>>
    <3>1. guards[t] \in Seq({"READ", "WRITE"}) /\ arg[t] \in {"READ", "WRITE"}
      BY <1>0, <2>1, TypesAssumption
    <3>2. /\ Len(guards'[t]) = Len(guards[t]) + 1
          /\ \A i \in 1..Len(guards[t]) : guards'[t][i] = guards[t][i]
          /\ guards'[t][Len(guards[t]) + 1] = arg[t]
          /\ guards'[t] \in Seq({"READ", "WRITE"})
      BY <2>3, <3>1, AppendProperties
    <3>3. Len(guards'[t]) # 0
      BY <1>0, <3>2
    <3>4. Len(<<>>) = 0
      BY EmptySeq
    <3>5. guards'[t] # <<>>
      BY <3>3, <3>4, Zenon
    <3> QED
      BY <3>2, <3>5, LenProperties
  <2>5. guards'[t][1] = guards[t][1] /\ Holding(t)'
    BY <1>0, <2>1, <2>4 DEF Holding
  <2>6. \A u \in Threads : \A ty \in {"READ", "WRITE"} : Has(u, ty)' = Has(u, ty)
    BY <1>2, <2>1, <2>3, <2>5 DEF Deepen, Has, Holding
  <2>7. UNCHANGED <<writer, shared, owner, arg>> /\ depth' = depth + 1
    BY <1>2 DEF Deepen
  <2>a. MutexInv'
    BY SameHolders, <2>6, <2>7
  <2>b. writer' = NoThread => depth' = 0
    BY <2>1, <2>7, NoThreadAssumption
  <2>c. \A u \in Threads \ {t} : ThreadInv(u)'
    BY <2>1, <2>3, <2>7, WriterAlone, OthersKeepThreadInv DEF LockInv
  <2>d. ThreadInv(t)'
    <3>1. depth' = Len(guards'[t]) - 1
      BY <1>0, <2>1, <2>4, <2>7
    <3>2. owner' = t => Has(t, "WRITE")'
      BY <2>1, <2>6 DEF LockInv, MutexInv
    <3>3. \A i \in DOMAIN guards'[t] : guards'[t][i] \in Types
      BY <1>0, <2>1, <2>4 DEF LockInv, ThreadInv
    <3> QED
      BY <2>2, <2>3, <2>5, <3>1, <3>2, <3>3 DEF ThreadInv
  <2> QED
    BY <2>a, <2>b, <2>c, <2>d DEF LockInv
<1>3. ASSUME NEW t \in Threads, LockShared(t) PROVE LockInv'
  <2>1. guards[t] = <<>> /\ arg[t] \in Types
    BY <1>3, NoThreadAssumption DEF LockShared, LockInv, MutexInv, ThreadInv, Has, Holding
  <2>2. ~Has(t, "READ") /\ Has(t, "READ")'
    BY <1>3, <2>1 DEF LockShared, Has, Holding, TypeOK
  <2>3. \A u \in Threads \ {t} : Has(u, "READ")' = Has(u, "READ")
    BY <1>3 DEF LockShared, Has, Holding, TypeOK
  <2>4. \A u \in Threads : Has(u, "WRITE")' = Has(u, "WRITE")
    BY <1>3 DEF LockShared, Has, Holding, TypeOK
  <2>5. Readers' = Readers \cup {t}
    BY <2>2, <2>3
  <2>6. shared' = Cardinality(Readers')
    BY <1>3, <2>2, <2>5, ReadersFinite, FS_AddElement DEF LockShared, LockInv, MutexInv
  <2>a. MutexInv'
    BY <1>3, <2>4, <2>6 DEF LockShared, LockInv, MutexInv
  <2>b. writer' = NoThread => depth' = 0
    BY <1>3 DEF LockShared, LockInv
  <2>c. \A u \in Threads \ {t} : ThreadInv(u)'
    BY <1>3, OthersKeepThreadInv DEF LockShared, LockInv, TypeOK
  <2>d. ThreadInv(t)'
    BY <1>3, <2>1, <2>2 DEF LockShared, LockInv, ThreadInv, TypeOK, Holding
  <2> QED
    BY <2>a, <2>b, <2>c, <2>d DEF LockInv
<1>4. ASSUME NEW t \in Threads, LockExclusive(t) PROVE LockInv'
  <2>1. guards[t] = <<>> /\ arg[t] \in Types
    BY <1>4, NoThreadAssumption DEF LockExclusive, LockInv, MutexInv, ThreadInv, Has, Holding
  <2>2. Has(t, "WRITE")'
    BY <1>4 DEF LockExclusive, Has, TypeOK
  <2>3. \A u \in Threads \ {t} : ~Has(u, "WRITE")'
    BY <1>4, NoThreadAssumption DEF LockExclusive, LockInv, MutexInv, Has, Holding, TypeOK
  <2>4. \A u \in Threads : Has(u, "READ")' = Has(u, "READ")
    BY <1>4 DEF LockExclusive, Has, Holding, TypeOK
  <2>5. Readers' = Readers
    BY <2>4
  <2>6. depth = 0 /\ \A u \in Threads : pc[u] \notin {"deepen", "shallow"}
    BY <1>4, NoThreadAssumption DEF LockExclusive, LockInv, ThreadInv
  <2>a. MutexInv'
    BY <1>4, <2>2, <2>3, <2>5, NoThreadAssumption DEF LockExclusive, LockInv, MutexInv
  <2>b. writer' = NoThread => depth' = 0
    BY <1>4, <2>6 DEF LockExclusive
  <2>c. \A u \in Threads \ {t} : ThreadInv(u)'
    BY <1>4, <2>6, OthersKeepThreadInv DEF LockExclusive, LockInv, TypeOK
  <2>d. ThreadInv(t)'
    BY <1>4, <2>1, <2>2, <2>6 DEF LockExclusive, LockInv, ThreadInv, TypeOK, Holding
  <2> QED
    BY <2>a, <2>b, <2>c, <2>d DEF LockInv
<1>5. ASSUME NEW t \in Threads, SetOwner(t) PROVE LockInv'
  <2>1. guards[t] = <<>> /\ depth = 0 /\ arg[t] \in Types
    BY <1>5 DEF SetOwner, LockInv, ThreadInv, Holding
  <2>2. /\ guards'[t] = <<arg[t]>>
        /\ \A u \in Threads \ {t} : guards'[u] = guards[u] /\ pc'[u] = pc[u]
        /\ pc'[t] = "idle"
    BY <1>5, <2>1 DEF SetOwner, TypeOK
  <2>3. \A u \in Threads : \A ty \in {"READ", "WRITE"} : Has(u, ty)' = Has(u, ty)
    BY <1>5, <2>1, <2>2 DEF SetOwner, Has, Holding
  <2>4. Has(t, arg[t])'
    BY <1>5, <2>2 DEF SetOwner, Has, Holding
  <2>a. MutexInv'
    BY SameHolders, <1>5, <2>3 DEF SetOwner
  <2>b. writer' = NoThread => depth' = 0
    BY <1>5 DEF SetOwner, LockInv
  <2>c. \A u \in Threads \ {t} : ThreadInv(u)'
    BY <1>5, <2>2, OthersKeepThreadInv DEF SetOwner, LockInv, TypeOK
  <2>d. ThreadInv(t)'
    <3>1. /\ guards'[t] # <<>> /\ Len(guards'[t]) = 1
          /\ \A i \in DOMAIN guards'[t] : guards'[t][i] \in Types
      BY <2>1, <2>2
    <3>2. Has(t, "WRITE")' \/ Has(t, "READ")'
      BY <1>5, <2>1, <2>4, TypesAssumption DEF SetOwner
    <3>3. depth' = 0
      BY <1>5, <2>1 DEF SetOwner
    <3> QED
      BY <2>2, <3>1, <3>2, <3>3 DEF ThreadInv, Holding
  <2> QED
    BY <2>a, <2>b, <2>c, <2>d DEF LockInv
<1>6. ASSUME NEW t \in Threads, CallLeave(t) PROVE LockInv'
  <2>1. /\ Front(guards[t]) \in Seq({"READ", "WRITE"})
        /\ Len(Front(guards[t])) = Len(guards[t]) - 1
        /\ \A i \in 1..(Len(guards[t]) - 1) : Front(guards[t])[i] = guards[t][i]
        /\ Last(guards[t]) = guards[t][Len(guards[t])]
        /\ Len(guards[t]) \in Nat \ {0}
    BY <1>0, <1>6, FrontProperties DEF CallLeave
  <2>2. /\ guards'[t] = Front(guards[t])
        /\ DOMAIN guards'[t] = 1..(Len(guards[t]) - 1)
        /\ arg'[t] = Last(guards[t])
        /\ pc'[t] = IF depth > 0 THEN "shallow" ELSE "unlock"
        /\ \A u \in Threads \ {t} : guards'[u] = guards[u] /\ pc'[u] = pc[u] /\ arg'[u] = arg[u]
        /\ UNCHANGED <<writer, shared, owner, depth>>
    BY <1>0, <1>6, <2>1, LenProperties DEF CallLeave, TypeOK
  <2>3. depth = Len(guards[t]) - 1 /\ pc[t] = "idle" /\ Holding(t)
    BY <1>6 DEF CallLeave, LockInv, ThreadInv, Holding
  <2>4. depth > 0 => guards[t][1] = "WRITE" /\ writer = t
    BY <2>1, <2>3 DEF LockInv, MutexInv, ThreadInv, Has
  <2>5. Len(guards'[t]) = depth /\ (guards'[t] = <<>> <=> depth = 0)
    <3>1. guards'[t] \in Seq({"READ", "WRITE"}) /\ Len(guards'[t]) = depth
      BY <2>1, <2>2, <2>3
    <3>2. \A s \in Seq({"READ", "WRITE"}) : s = <<>> <=> Len(s) = 0
      BY EmptySeq, LenProperties
    <3>3. guards'[t] = <<>> <=> Len(guards'[t]) = 0
      BY <3>1, <3>2, Zenon
    <3> QED
      BY <3>1, <3>3
  <2>6. \A ty \in {"READ", "WRITE"} : Has(t, ty)' = Has(t, ty)
    <3>1. CASE depth > 0
      <4>1. guards'[t] # <<>> /\ guards'[t][1] = guards[t][1]
        BY <2>1, <2>2, <2>3, <2>5, <3>1
      <4> QED
        BY <2>2, <2>3, <3>1, <4>1 DEF Has, Holding
    <3>2. CASE ~(depth > 0)
      <4>1. guards'[t] = <<>> /\ arg'[t] = guards[t][1]
        BY <2>1, <2>2, <2>3, <2>5, <3>2
      <4> QED
        BY <2>2, <2>3, <3>2, <4>1 DEF Has, Holding
    <3> QED
      BY <3>1, <3>2
  <2>7. \A u \in Threads : \A ty \in {"READ", "WRITE"} : Has(u, ty)' = Has(u, ty)
    BY <2>2, <2>6 DEF Has, Holding
  <2>a. MutexInv'
    BY SameHolders, <2>2, <2>7
  <2>b. writer' = NoThread => depth' = 0
    BY <2>2 DEF LockInv
  <2>c. \A u \in Threads \ {t} : ThreadInv(u)'
    BY <2>2, OthersKeepThreadInv DEF LockInv
  <2>d. ThreadInv(t)'
    <3>1. depth \in Nat
      BY <2>1, <2>3
    <3>2. depth > 0 => guards'[t][1] = "WRITE"
      BY <2>1, <2>2, <2>3, <2>4, <3>1
    <3>3. \A i \in DOMAIN guards'[t] : guards'[t][i] \in Types
      BY <1>0, <2>1, <2>2 DEF LockInv, ThreadInv
    <3>4. owner' = t => Has(t, "WRITE")' \/ Has(t, "READ")'
      BY <2>2, <2>3, <2>7 DEF LockInv, ThreadInv
    <3> QED
      BY <2>2, <2>4, <2>5, <3>1, <3>2, <3>3, <3>4 DEF ThreadInv, Holding
  <2> QED
    BY <2>a, <2>b, <2>c, <2>d DEF LockInv
<1>7. ASSUME NEW t \in Threads, Shallow(t) PROVE LockInv'
  <2>1. Holding(t) /\ writer = t /\ depth = Len(guards[t])
    BY <1>7 DEF Shallow, LockInv, ThreadInv
  <2>2. \A u \in Threads : \A ty \in {"READ", "WRITE"} : Has(u, ty)' = Has(u, ty)
    BY <1>7 DEF Shallow, Has, Holding, TypeOK
  <2>a. MutexInv'
    BY SameHolders, <1>7, <2>2 DEF Shallow
  <2>b. writer' = NoThread => depth' = 0
    BY <1>7, <2>1, NoThreadAssumption DEF Shallow
  <2>c. \A u \in Threads \ {t} : ThreadInv(u)'
    BY <1>7, <2>1, WriterAlone, OthersKeepThreadInv DEF Shallow, LockInv, TypeOK
  <2>d. ThreadInv(t)'
    BY <1>0, <1>7, <2>1, <2>2 DEF Shallow, LockInv, ThreadInv, TypeOK, Holding
  <2> QED
    BY <2>a, <2>b, <2>c, <2>d DEF LockInv
<1>8. ASSUME NEW t \in Threads, Unlock(t) PROVE LockInv'
  <2>1. guards[t] = <<>> /\ depth = 0 /\ Has(t, arg[t]) /\ arg[t] \in {"READ", "WRITE"}
    BY <1>8 DEF Unlock, LockInv, ThreadInv, Holding, Has, TypeOK
  <2>2. ~Has(t, "READ")' /\ ~Has(t, "WRITE")'
    BY <1>8, <2>1 DEF Unlock, Has, Holding, TypeOK
  <2>3. \A u \in Threads \ {t} : \A ty \in {"READ", "WRITE"} : Has(u, ty)' = Has(u, ty)
    BY <1>8 DEF Unlock, Has, Holding, TypeOK
  <2>4. CASE arg[t] = "READ"
    <3>1. Has(t, "READ") /\ ~Has(t, "WRITE")
      BY <1>8, <2>1, <2>4 DEF Unlock, Has, Holding
    <3>2. Readers' = Readers \ {t}
      BY <2>2, <2>3
    <3>3. shared' = Cardinality(Readers')
      BY <1>8, <2>4, <3>1, <3>2, ReadersFinite, FS_RemoveElement DEF Unlock, LockInv, MutexInv
    <3>4. writer = NoThread /\ writer' = writer
      <4>1. t \in Readers /\ shared # 0
        BY <3>1, ReadersFinite, FS_EmptySet DEF LockInv, MutexInv
      <4> QED
        BY <1>8, <2>4, <4>1 DEF Unlock, LockInv, MutexInv
    <3>a. MutexInv'
      BY <2>2, <2>3, <3>1, <3>3, <3>4 DEF LockInv, MutexInv
    <3>c. \A u \in Threads \ {t} : ThreadInv(u)'
      BY <1>8, <3>4, OthersKeepThreadInv DEF Unlock, LockInv, TypeOK
    <3>d. ThreadInv(t)'
      BY <1>8, <2>1 DEF Unlock, LockInv, ThreadInv, TypeOK, Holding
    <3> QED
      BY <1>8, <2>1, <3>a, <3>c, <3>d DEF Unlock, LockInv
  <2>5. CASE arg[t] = "WRITE"
    <3>1. Has(t, "WRITE") /\ ~Has(t, "READ") /\ writer = t
      BY <1>8, <2>1, <2>5 DEF Unlock, Has, Holding, LockInv, MutexInv
    <3>2. Readers' = Readers
      BY <2>2, <2>3, <3>1
    <3>3. shared' = Cardinality(Readers') /\ shared' = shared /\ writer' = NoThread
      BY <1>8, <2>5, <3>2 DEF Unlock, LockInv, MutexInv
    <3>4. \A u \in Threads \ {t} : pc[u] \notin {"deepen", "shallow"}
      BY <3>1 DEF LockInv, ThreadInv
    <3>a. MutexInv'
      BY <2>2, <2>3, <3>1, <3>3, NoThreadAssumption DEF LockInv, MutexInv
    <3>c. \A u \in Threads \ {t} : ThreadInv(u)'
      BY <1>8, <3>4, OthersKeepThreadInv DEF Unlock, LockInv, TypeOK
    <3>d. ThreadInv(t)'
      BY <1>8, <2>1 DEF Unlock, LockInv, ThreadInv, TypeOK, Holding
    <3> QED
      BY <1>8, <2>1, <3>a, <3>c, <3>d DEF Unlock, LockInv
  <2> QED
    BY <2>1, <2>4, <2>5
<1>9. ASSUME NEW t \in Threads, Disown(t) PROVE LockInv'
  <2>1. \A u \in Threads : \A ty \in {"READ", "WRITE"} : Has(u, ty)' = Has(u, ty)
    BY <1>9 DEF Disown, Has, Holding, TypeOK
  <2>a. MutexInv'
    BY SameHolders, <1>9, <2>1 DEF Disown
  <2>b. writer' = NoThread => depth' = 0
    BY <1>9 DEF Disown, LockInv
  <2>c. \A u \in Threads \ {t} : ThreadInv(u)'
    BY <1>9, NoThreadAssumption, OthersKeepThreadInv DEF Disown, LockInv, TypeOK
  <2>d. ThreadInv(t)'
    BY <1>9, NoThreadAssumption DEF Disown, LockInv, ThreadInv, TypeOK, Holding
  <2> QED
    BY <2>a, <2>b, <2>c, <2>d DEF LockInv
<1>10. CASE UNCHANGED vars
  BY <1>10 DEF vars, LockInv, MutexInv, ThreadInv, Has, Holding
<1> QED
  BY <1>1, <1>2, <1>3, <1>4, <1>5, <1>6, <1>7, <1>8, <1>9, <1>10 DEF Next, Step

\* LockOK holds in every state, for any threads and any nesting: mutex, depth and
\* owner agree with the threads inside (SyncSection.cpp:7-48).
THEOREM LockInvariant == ASSUME Discipline PROVE Spec => []LockOK
<1>1. TypeOK /\ LockInv /\ [Next]_vars => LockInv'
  BY LockInvStep
<1> QED
  BY <1>1, LockInvInit, TypeCorrect, PTL DEF Spec, LockOK

LEMMA InvImpliesExclusion == TypeOK /\ LockInv => WriteExclusion
<1> SUFFICES ASSUME TypeOK, LockInv, NEW t \in Threads, NEW u \in Threads, t # u,
                    NEW i \in DOMAIN guards[t], guards[t][i] = "WRITE"
             PROVE  ~Holding(u)
  BY DEF WriteExclusion
<1>1. writer = t
  BY WriteGuardHolds
<1> QED
  BY <1>1, WriterAlone

\* A thread inside a WRITE guard is alone, for any set of threads: WriteExclusion
\* holds in every state under the discipline of the library.
THEOREM WritersExclude == ASSUME Discipline PROVE Spec => []WriteExclusion
<1>1. TypeOK /\ LockInv => WriteExclusion
  BY InvImpliesExclusion
<1> QED
  BY <1>1, LockInvariant, PTL DEF LockOK

\* A lock nobody is inside is back in its initial state: IdleLockIsFree holds in
\* every state under that discipline.
THEOREM IdleMeansFree == ASSUME Discipline PROVE Spec => []IdleLockIsFree
<1>1. TypeOK /\ LockInv => IdleLockIsFree
  <2> SUFFICES ASSUME TypeOK, LockInv, \A t \in Threads : ~Holding(t) /\ pc[t] = "idle"
               PROVE  writer = NoThread /\ shared = 0 /\ depth = 0 /\ owner = NoThread
    BY DEF IdleLockIsFree
  <2>2. \A t \in Threads : ~Has(t, "READ") /\ ~Has(t, "WRITE")
    BY DEF Has
  <2>3. writer = NoThread /\ owner = NoThread
    BY <2>2 DEF TypeOK, LockInv, MutexInv, ThreadInv
  <2>4. {t \in Threads : Has(t, "READ")} = {}
    BY <2>2
  <2> QED
    BY <2>3, <2>4, FS_EmptySet DEF LockInv, MutexInv
<1> QED
  BY <1>1, LockInvariant, PTL DEF LockOK

\* The step that completes an Enter finds no conflicting guard.
LEMMA NoConflictInside ==
    ASSUME TypeOK, LockInv, NEW t \in Threads, NEW type \in {"READ", "WRITE"}, Has(t, type)
    PROVE  ~Lock!Conflict(t, type)
<1> SUFFICES ASSUME NEW u \in Threads \ {t}, NEW i \in DOMAIN guards[u],
                    type = "WRITE" \/ guards[u][i] = "WRITE"
             PROVE  FALSE
  BY DEF Lock!Conflict
<1>1. Holding(u)
  <2>1. guards[u] \in Seq({"READ", "WRITE"}) /\ DOMAIN guards[u] = 1..Len(guards[u])
    BY LenProperties DEF TypeOK
  <2> QED
    BY <2>1, EmptySeq DEF Holding
<1>2. CASE type = "WRITE"
  <2>1. writer = t
    BY <1>2 DEF LockInv, MutexInv
  <2> QED
    BY <1>1, <2>1, WriterAlone
<1>3. CASE guards[u][i] = "WRITE"
  <2>1. writer = u
    BY <1>3, WriteGuardHolds
  <2> QED
    BY <2>1, WriterAlone DEF Has
<1> QED
  BY <1>2, <1>3

\* Every step of SyncSection is an atomic entry, an atomic exit or nothing at
\* all of the reentrant readers-writer lock, for any threads and any nesting.
THEOREM Refinement == ASSUME Discipline PROVE Spec => ImplementsReentrantLock
<1>1. Init => Lock!Init
  BY DEF Init, Lock!Init
<1>2. TypeOK /\ LockInv /\ [Next]_vars => [Lock!Next]_guards
  <2> SUFFICES ASSUME TypeOK, LockInv, [Next]_vars PROVE Lock!Next \/ UNCHANGED guards
    BY Zenon
  <2> USE DEF Entered
  <2>1. ASSUME NEW t \in Threads, Deepen(t) PROVE Lock!Next
    <3>1. arg[t] \in Types /\ writer = t
      BY <2>1 DEF Deepen, LockInv, ThreadInv
    <3>2. ~Lock!Conflict(t, "WRITE")
      BY <3>1, NoConflictInside DEF LockInv, MutexInv
    <3>3. ~Lock!Conflict(t, arg[t])
      BY <3>2 DEF Lock!Conflict
    <3> QED
      BY <2>1, <3>1, <3>3 DEF Deepen, Lock!Next, Lock!Enter
  <2>2. ASSUME NEW t \in Threads, SetOwner(t) PROVE Lock!Next
    <3>1. arg[t] \in Types /\ arg[t] \in {"READ", "WRITE"} /\ Has(t, arg[t])
      BY <2>2, TypesAssumption DEF SetOwner, LockInv, ThreadInv, Has
    <3>2. ~Lock!Conflict(t, arg[t])
      BY <3>1, NoConflictInside
    <3> QED
      BY <2>2, <3>1, <3>2 DEF SetOwner, Lock!Next, Lock!Enter
  <2>3. ASSUME NEW t \in Threads, CallLeave(t) PROVE Lock!Next
    BY <2>3 DEF CallLeave, Lock!Next, Lock!Leave, Front, Lock!Front
  <2>4. ASSUME NEW t \in Threads, NEW type \in Types, CallEnter(t, type) PROVE UNCHANGED guards
    BY <2>4 DEF CallEnter
  <2>5. ASSUME NEW t \in Threads, LockShared(t) \/ LockExclusive(t) \/ Shallow(t) \/ Unlock(t) \/ Disown(t)
        PROVE  UNCHANGED guards
    BY <2>5 DEF LockShared, LockExclusive, Shallow, Unlock, Disown
  <2>6. CASE UNCHANGED vars
    BY <2>6 DEF vars
  <2> QED
    BY <2>1, <2>2, <2>3, <2>4, <2>5, <2>6 DEF Next, Step
<1> QED
  BY <1>1, <1>2, LockInvariant, PTL DEF Spec, LockOK, ImplementsReentrantLock, Lock!Spec
=============================================================================
