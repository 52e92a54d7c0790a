----------------------- MODULE AtomicStaticPoolProofs -----------------------
(***************************************************************************)
(* For every pool size and whatever its callers do: AtomicStaticPool       *)
(* counts the pointers that are out; and whenever it has no hole, the      *)
(* elements it has lent are the first ones, it takes nothing from a caller *)
(* that holds an element, and it implements ExclusivePool.                 *)
(***************************************************************************)
EXTENDS AtomicStaticPool, FiniteSetTheorems, TLAPS

LEMMA TimesOne ==
    ASSUME NEW S, NEW n \in Nat, IsFiniteSet(S), Cardinality(S) = n
    PROVE  IsFiniteSet(S \X {1}) /\ Cardinality(S \X {1}) = n
<1>1. IsFiniteSet({1}) /\ Cardinality({1}) = 1
  BY FS_Singleton
<1>2. Cardinality(S \X {1}) = Cardinality(S) * Cardinality({1})
  BY <1>1, FS_Product
<1> QED
  BY <1>1, <1>2, FS_Product

\* There are finitely many loans, and at least as many as pointers to any one element.
LEMMA LoansFinite ==
    ASSUME PoolAssumption, TypeOK
    PROVE  /\ IsFiniteSet(Loans)
           /\ Cardinality(Loans) \in Nat
           /\ \A s \in Slots : live[s] <= Cardinality(Loans)
<1>0. Size \in Nat /\ live \in [Slots -> 0 .. Size]
  BY DEF PoolAssumption, TypeOK
<1>1. IsFiniteSet(Slots) /\ IsFiniteSet(1 .. Size)
  <2>1. Size - 1 \in Int
    BY <1>0
  <2> QED
    BY <1>0, <2>1, FS_Interval DEF Slots
<1>2. IsFiniteSet(Slots \X (1 .. Size))
  BY <1>1, FS_Product
<1>3. Loans \subseteq Slots \X (1 .. Size)
  BY DEF Loans
<1>4. IsFiniteSet(Loans) /\ Cardinality(Loans) \in Nat
  BY <1>2, <1>3, FS_Subset, FS_CardinalityType
<1>5. ASSUME NEW s \in Slots PROVE live[s] <= Cardinality(Loans)
  <2>1. live[s] \in Nat /\ live[s] <= Size
    BY <1>0
  <2>2. {s} \X (1 .. live[s]) \subseteq Loans
    BY <1>0, <2>1 DEF Loans
  <2>3. IsFiniteSet(1 .. live[s]) /\ Cardinality(1 .. live[s]) = live[s]
    BY <2>1, FS_Interval, SMTT(60)
  <2>4. Cardinality({s} \X (1 .. live[s])) = live[s]
    <3>1. IsFiniteSet({s}) /\ Cardinality({s}) = 1
      BY FS_Singleton
    <3>2. Cardinality({s} \X (1 .. live[s])) = 1 * live[s]
      BY <2>3, <3>1, FS_Product
    <3> QED
      BY <2>1, <3>2
  <2> QED
    BY <1>4, <2>2, <2>4, FS_Subset
<1> QED
  BY <1>4, <1>5

LEMMA PoolInit ==
    ASSUME PoolAssumption, Init
    PROVE  PoolOK
<1>1. Size \in Nat
  BY DEF PoolAssumption
<1>2. live = [s \in Slots |-> 0]
  BY DEF Init
<1>3. TypeOK
  <2>1. 0 \in 0 .. Size
    BY <1>1
  <2> QED
    BY <1>2, <2>1 DEF Init, TypeOK
<1>4. Loans = {}
  BY <1>1, <1>2 DEF Loans
<1> QED
  BY <1>3, <1>4, FS_EmptySet DEF Init, PoolOK

LEMMA PoolStep ==
    ASSUME PoolAssumption, PoolOK, [Next]_vars
    PROVE  PoolOK'
<1> USE DEF PoolAssumption
<1>0. TypeOK /\ Size \in Nat /\ used \in 0 .. Size /\ live \in [Slots -> 0 .. Size]
  BY DEF PoolOK, TypeOK
<1>1. /\ IsFiniteSet(Loans)
      /\ Cardinality(Loans) = used
      /\ \A s \in Slots : live[s] <= used
  BY <1>0, LoansFinite DEF PoolOK
<1>2. CASE Alloc
  <2>1. used \in Slots /\ used + 1 \in 0 .. Size
    BY <1>0, <1>2 DEF Alloc, Slots
  <2>2. live[used] \in Nat /\ live[used] + 1 \in 0 .. Size
    BY <1>0, <1>1, <2>1
  <2>3. TypeOK'
    BY <1>0, <1>2, <2>1, <2>2 DEF Alloc, TypeOK
  <2>4. Loans' = Loans \cup {<<used, live[used] + 1>>} /\ <<used, live[used] + 1>> \notin Loans
    <3>1. \A s \in Slots : live'[s] = IF s = used THEN live[used] + 1 ELSE live[s]
      BY <1>0, <1>2 DEF Alloc
    <3>2. \A s \in Slots, k \in 1 .. Size :
            <<s, k>> \in Loans' <=> <<s, k>> \in Loans \/ <<s, k>> = <<used, live[used] + 1>>
      <4> SUFFICES ASSUME NEW s \in Slots, NEW k \in 1 .. Size
                   PROVE  k <= live'[s] <=> k <= live[s] \/ (s = used /\ k = live[used] + 1)
        BY DEF Loans
      <4>1. live[s] \in Nat
        BY <1>0
      <4> QED
        BY <1>0, <2>2, <3>1, <4>1
    <3>3. <<used, live[used] + 1>> \in Slots \X (1 .. Size)
      BY <2>1, <2>2
    <3> QED
      BY <2>2, <3>2, <3>3 DEF Loans
  <2>5. used' = Cardinality(Loans')
    BY <1>1, <1>2, <2>4, FS_AddElement DEF Alloc
  <2>6. \A s \in dirty' : live'[s] > 0
    BY <1>0, <1>2 DEF Alloc, PoolOK, TypeOK
  <2> QED
    BY <2>3, <2>5, <2>6 DEF PoolOK
<1>3. CASE AllocFull
  BY <1>3 DEF AllocFull, PoolOK, TypeOK, Loans
<1>4. ASSUME NEW s \in Slots, Free(s) PROVE PoolOK'
  <2>1. live[s] \in Nat /\ live[s] > 0 /\ live[s] <= Size /\ live[s] <= used
    BY <1>0, <1>1, <1>4 DEF Free
  <2>2. used - 1 \in 0 .. Size /\ live[s] - 1 \in 0 .. Size
    BY <1>0, <2>1
  <2>3. TypeOK'
    BY <1>0, <1>4, <2>2 DEF Free, TypeOK
  <2>4. Loans' = Loans \ {<<s, live[s]>>} /\ <<s, live[s]>> \in Loans
    <3>1. \A r \in Slots : live'[r] = IF r = s THEN live[s] - 1 ELSE live[r]
      BY <1>0, <1>4 DEF Free
    <3>2. \A r \in Slots, k \in 1 .. Size :
            <<r, k>> \in Loans' <=> <<r, k>> \in Loans /\ <<r, k>> # <<s, live[s]>>
      <4> SUFFICES ASSUME NEW r \in Slots, NEW k \in 1 .. Size
                   PROVE  k <= live'[r] <=> k <= live[r] /\ ~(r = s /\ k = live[s])
        BY DEF Loans
      <4>1. live[r] \in Nat
        BY <1>0
      <4> QED
        BY <1>0, <2>1, <3>1, <4>1
    <3> QED
      BY <2>1, <3>2 DEF Loans
  <2>5. used' = Cardinality(Loans')
    BY <1>1, <1>4, <2>4, FS_RemoveElement DEF Free
  <2>6. \A r \in dirty' : live'[r] > 0
    BY <1>0, <1>4 DEF Free, PoolOK, TypeOK
  <2> QED
    BY <2>3, <2>5, <2>6 DEF PoolOK
<1>5. ASSUME NEW s \in Slots, Write(s) PROVE PoolOK'
  BY <1>5 DEF Write, PoolOK, TypeOK, Loans
<1>6. CASE UNCHANGED vars
  BY <1>6 DEF vars, PoolOK, TypeOK, Loans
<1> QED
  BY <1>2, <1>3, <1>4, <1>5, <1>6 DEF Next

\* As many pointers as elements below _used, and each of those elements lent:
\* then each is lent once and no other is.
LEMMA Packed ==
    ASSUME PoolAssumption, PoolOK
    PROVE  PacksLoans
<1> SUFFICES ASSUME ~Hole, NEW s \in Slots
             PROVE  live[s] = IF s < used THEN 1 ELSE 0
  BY DEF PacksLoans
<1>0. TypeOK /\ Size \in Nat /\ used \in 0 .. Size /\ live \in [Slots -> 0 .. Size]
  BY DEF PoolOK, TypeOK, PoolAssumption
<1>1. IsFiniteSet(Loans) /\ Cardinality(Loans) = used
  BY <1>0, LoansFinite DEF PoolOK
<1> DEFINE First == (0 .. used - 1) \X {1}
<1>2. First \subseteq Loans
  <2>1. ASSUME NEW r \in 0 .. used - 1 PROVE <<r, 1>> \in Loans
    <3>1. r \in Slots /\ live[r] # 0 /\ live[r] \in 0 .. Size
      BY <1>0 DEF Hole, Slots
    <3>2. live[r] \in Nat /\ live[r] <= Size
      BY <1>0, <3>1
    <3>3. 1 <= live[r] /\ 1 <= Size
      BY <1>0, <3>1, <3>2
    <3>4. 1 \in 1 .. Size
      BY <1>0, <3>3
    <3> QED
      BY <3>1, <3>3, <3>4 DEF Loans
  <2> QED
    BY <2>1
<1>3. IsFiniteSet(First) /\ Cardinality(First) = used
  <2>1. IsFiniteSet(0 .. used - 1) /\ Cardinality(0 .. used - 1) = used
    <3>1. used - 1 \in Int /\ (IF 0 > used - 1 THEN 0 ELSE used - 1 - 0 + 1) = used
      BY <1>0
    <3> QED
      BY <3>1, FS_Interval
  <2>2. PICK S : S = 0 .. used - 1
    OBVIOUS
  <2>3. used \in Nat /\ IsFiniteSet(S) /\ Cardinality(S) = used
    BY <1>0, <2>1, <2>2
  <2>4. IsFiniteSet(S \X {1}) /\ Cardinality(S \X {1}) = used
    BY <2>3, TimesOne
  <2>5. First = S \X {1}
    BY <2>2, Zenon
  <2> QED
    BY <2>4, <2>5, Zenon
<1>4. First = Loans
  BY <1>1, <1>2, <1>3, FS_Subset
<1>5. live[s] \in Nat /\ live[s] <= Size
  BY <1>0
<1>6. CASE s < used
  <2>1. s \in 0 .. used - 1
    BY <1>0, <1>6 DEF Slots
  <2>2. <<s, 1>> \in Loans
    BY <1>4, <2>1
  <2>3. live[s] >= 1
    BY <2>2 DEF Loans
  <2>4. ASSUME live[s] > 1 PROVE FALSE
    <3>1. 2 \in 1 .. Size
      BY <1>0, <1>5, <2>4
    <3>2. <<s, 2>> \in Loans
      BY <1>5, <2>4, <3>1 DEF Loans
    <3> QED
      BY <1>4, <3>2
  <2> QED
    BY <1>5, <1>6, <2>3, <2>4
<1>7. CASE ~(s < used)
  <2>1. ASSUME live[s] > 0 PROVE FALSE
    <3>1. 1 \in 1 .. Size
      BY <1>0, <1>5, <2>1
    <3>2. <<s, 1>> \in Loans
      BY <1>5, <2>1, <3>1 DEF Loans
    <3>3. s \in 0 .. used - 1
      BY <1>4, <3>2
    <3> QED
      BY <1>0, <1>7, <3>3
  <2> QED
    BY <1>5, <1>7, <2>1
<1> QED
  BY <1>6, <1>7

\* PoolOK holds in every state, whatever the callers do: _used counts the
\* pointers that are out, and stays within the pool (AtomicStaticPool.h:44-71).
THEOREM PoolInvariant == ASSUME PoolAssumption PROVE Spec => []PoolOK
<1>1. Init => PoolOK
  BY PoolInit
<1>2. PoolOK /\ [Next]_vars => PoolOK'
  BY PoolStep
<1> QED
  BY <1>1, <1>2, PTL DEF Spec

\* PacksLoans: whenever no element below _used is free, the first _used elements
\* are lent once each, even if some were lent twice before.
THEOREM LoansPacked == ASSUME PoolAssumption PROVE Spec => []PacksLoans
<1>1. PoolOK => PacksLoans
  BY Packed
<1> QED
  BY <1>1, PoolInvariant, PTL

\* ContentKept: no call on a pool without a hole resets an element another caller
\* holds (the Release() calls of AtomicStaticPool.h:51 and :69).
THEOREM NothingLost == ASSUME PoolAssumption PROVE Spec => ContentKept
<1> DEFINE Kept == ~Hole => \A s \in dirty : live'[s] >= live[s] => s \in dirty'
<1>1. PoolOK /\ [Next]_vars => [Kept]_vars
  <2> SUFFICES ASSUME PoolOK, Next, ~Hole, NEW s \in dirty, live'[s] >= live[s]
               PROVE  s \in dirty'
    BY DEF Kept
  <2>0. /\ live \in [Slots -> 0 .. Size] /\ s \in Slots
        /\ live[s] = IF s < used THEN 1 ELSE 0
        /\ used \in 0 .. Size /\ Size \in Nat
    BY Packed DEF PoolOK, TypeOK, PacksLoans, PoolAssumption
  <2>1. CASE Alloc
    <3>1. s # used
      BY <2>0 DEF PoolOK
    <3> QED
      BY <2>1, <3>1 DEF Alloc
  <2>2. CASE AllocFull
    BY <2>2 DEF AllocFull
  <2>3. ASSUME NEW r \in Slots, Free(r) PROVE s \in dirty'
    <3>1. s # r
      BY <2>0, <2>3 DEF Free
    <3> QED
      BY <2>3, <3>1 DEF Free
  <2>4. ASSUME NEW r \in Slots, Write(r) PROVE s \in dirty'
    BY <2>4 DEF Write
  <2> QED
    BY <2>1, <2>2, <2>3, <2>4 DEF Next
<1> QED
  BY <1>1, PoolInvariant, PTL DEF Spec, ContentKept, Kept

\* KeepsPromise: every call on a pool without a hole is a loan, a refusal by a
\* full pool, a return, or nothing at all of ExclusivePool.
THEOREM PoolRefinement == ASSUME PoolAssumption PROVE Spec => KeepsPromise
<1> DEFINE Lent == {s \in Slots : live[s] > 0}
           Kept == ~Hole => [Exclusively!Next]_(Exclusively!vars)
<1>1. Init => Exclusively!Init
  BY DEF Init, Exclusively!Init
<1>2. PoolOK /\ [Next]_vars => [Kept]_vars
  <2> SUFFICES ASSUME PoolOK, Next, ~Hole
               PROVE  Exclusively!Next \/ (Lent' = Lent /\ answer' = answer)
    BY DEF Kept, Exclusively!vars
  <2>0. /\ live \in [Slots -> 0 .. Size]
        /\ \A s \in Slots : live[s] = IF s < used THEN 1 ELSE 0
        /\ used \in 0 .. Size /\ Size \in Nat
    BY Packed DEF PoolOK, TypeOK, PacksLoans, PoolAssumption
  <2>1. CASE Alloc
    <3>1. used \in Slots /\ used \notin Lent
      BY <2>0, <2>1 DEF Alloc, Slots
    <3>2. Lent' = Lent \cup {used} /\ answer' = used
      BY <2>0, <2>1, <3>1 DEF Alloc
    <3> QED
      BY <3>1, <3>2 DEF Exclusively!Next, Exclusively!Lend
  <2>2. CASE AllocFull
    <3>1. Lent = Slots /\ Lent' = Lent
      BY <2>0, <2>2 DEF AllocFull, Slots
    <3> QED
      BY <2>2, <3>1 DEF AllocFull, Exclusively!Next, Exclusively!Refuse
  <2>3. ASSUME NEW s \in Slots, Free(s) PROVE Exclusively!Next
    <3>1. live[s] = 1
      BY <2>0, <2>3 DEF Free
    <3>2. s \in Lent /\ Lent' = Lent \ {s}
      BY <2>0, <2>3, <3>1 DEF Free
    <3> QED
      BY <2>3, <3>2 DEF Free, Exclusively!Next, Exclusively!TakeBack
  <2>4. ASSUME NEW s \in Slots, Write(s) PROVE Lent' = Lent /\ answer' = answer
    BY <2>4 DEF Write
  <2> QED
    BY <2>1, <2>2, <2>3, <2>4 DEF Next
<1> QED
  BY <1>1, <1>2, PoolInvariant, PTL DEF Spec, KeepsPromise, Kept
=============================================================================
